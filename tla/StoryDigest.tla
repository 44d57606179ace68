----------------------------- MODULE StoryDigest -----------------------------
(***************************************************************************)
(* The digest over the stories: what select_digest_entries returns, and    *)
(* what render_digest makes of it, in any state of the tables that         *)
(* background tasks write meanwhile.                                       *)
(***************************************************************************)
EXTENDS Story, DigestSelection, DigestText

CONSTANTS WindowStart, WindowEnd

ASSUME StoryDigestAssumption ==
    /\ Importance \in [Items -> 0 .. 5]
    /\ {CreatedAt, IdOrder} \subseteq [Items -> Int]
    /\ \A i, j \in Items : IdOrder[i] = IdOrder[j] => i = j
    /\ \A i \in Items : Precedence[AiCategory[i]] \in Int
    /\ MaxEntries \in Nat /\ CategoryCap \in Nat
    /\ FrameLength \in Nat
    /\ {HeadlineLength, SummaryLength} \subseteq [Items -> Nat]

WindowRows == {i \in published : CreatedAt[i] >= WindowStart /\ CreatedAt[i] < WindowEnd}
Repeated   == {i \in Items : links[i].kind = "REPETITION"}
GroupKey   == [i \in Items |-> IF links[i] = NoLink THEN <<"news", i>>
                                                    ELSE <<"story", links[i].story>>]
Entries    == SelectDigestEntries(WindowRows, GroupKey, Repeated)
Shown      == LET entries == Entries IN {entries[n].item : n \in DOMAIN entries}
Eligibles  == Eligible(WindowRows, Repeated)

(* An eligible item with those of its story.                               *)
Together(i) == {i} \cup {j \in Eligibles : links[i] # NoLink /\ links[j].story = links[i].story}

-----------------------------------------------------------------------------
(* A story is in the digest at most once, never as a repetition, and by    *)
(* the most important of its published items in the window: whatever tasks *)
(* linked, repeated or lost meanwhile (selection.py:7-24, 216-224).        *)
OneEntryPerStory ==
    LET entries == Entries
        shown   == Shown
    IN  /\ \A m, n \in DOMAIN entries : entries[m].item = entries[n].item => m = n
        /\ \A i \in shown :
            /\ i \notin Repeated
            /\ \A j \in Eligibles \ {i} :
                  links[i] # NoLink /\ links[j].story = links[i].story =>
                      j \notin shown /\ Importance[j] <= Importance[i]

(* News that matters is left out only because it, or news of its story at  *)
(* least as important, is shown, or meets a full digest or, unless it is   *)
(* breaking, a full category: full of entries at least as important        *)
(* (selection.py:7-17, 28-29).                                             *)
NothingBetterLeftOut ==
    LET shown == Shown
    IN  \A i \in Eligibles : \E j \in Together(i) :
        /\ Importance[j] >= Importance[i]
        /\ \/ j \in shown
           \/ /\ Len(Entries) = MaxEntries
              /\ \A k \in shown : Importance[k] >= Importance[j] \/ AiCategory[k] = "breaking"
           \/ \E same \in SUBSET shown :
                 /\ Importance[j] < 5 /\ AiCategory[j] # "breaking"
                 /\ Cardinality(same) = CategoryCap
                 /\ \A k \in same : /\ AiCategory[k] = AiCategory[j]
                                    /\ Importance[k] >= Importance[j]

(* A digest that is too long loses what matters least: it fits Telegram    *)
(* unless it is down to the entries it never drops, what it dropped is     *)
(* neither breaking news before other news nor more important than what it *)
(* shows, a text that lost a headline or is still long shows no summary,   *)
(* and the first story keeps its summary if that alone has room            *)
(* (formatter.py:122-161 on what selection.py:216-229 ranks).              *)
TrimmedFromBelow ==
    LET entries == Entries
        digest  == Rendered(entries)
        n       == digest.entries
        length  == TextLength(entries, n, digest.summaries)
        told    == {k \in 1 .. n : k <= digest.summaries /\ entries[k].summary}
    IN  /\ length <= HardLimit \/ n <= MinEntriesWhenTrimming
        /\ \A k \in 1 .. n, d \in n + 1 .. Len(entries) :
              LET shown == entries[k].item
                  gone  == entries[d].item
              IN  AiCategory[shown] = "breaking" \/ Importance[shown] >= Importance[gone]
        /\ told # {} => length <= SoftLimit /\ n = Len(entries)
        /\ entries # <<>> /\ entries[1].summary /\ 1 \notin told =>
              TextLength(entries, Len(entries), 1) > SoftLimit
=============================================================================
