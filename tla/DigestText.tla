------------------------------ MODULE DigestText ------------------------------
(***************************************************************************)
(* The length of a digest, app/services/digest/formatter.py: what is left  *)
(* of the selected entries so that the text fits Telegram.  Wording is     *)
(* left out; a text is as long as its parts.                               *)
(***************************************************************************)
EXTENDS Integers, Sequences

CONSTANTS
    SoftLimit, HardLimit,        \* 2500 and 3500 characters
    MinEntriesWhenTrimming,      \* 3
    FrameLength,                 \* header, time line and footer
    HeadlineLength, SummaryLength  \* of an item, with the line ends

ASSUME DigestTextAssumption ==
    /\ SoftLimit \in Nat /\ HardLimit \in Nat /\ SoftLimit <= HardLimit
    /\ MinEntriesWhenTrimming \in Nat \ {0}

(* The text of the first n entries, with the summaries of the first s.     *)
TextLength(entries, n, s) ==
    LET upTo[k \in 0 .. Len(entries)] ==
          IF k = 0 THEN FrameLength
          ELSE upTo[k - 1] + HeadlineLength[entries[k].item]
                   + (IF entries[k].summary /\ k <= s
                      THEN SummaryLength[entries[k].item] ELSE 0)
    IN  upTo[n]

(* The greatest of the numbers from low to high that fits, or low.         *)
Most(low, high, fitting) ==
    CHOOSE n \in low .. high :
        /\ n = low \/ n \in fitting
        /\ \A m \in n + 1 .. high : m \notin fitting

\* Mutant: a summary is dropped only where the text would not be sent at all.
MutSummaries(entries) ==
    Most(0, Len(entries), {s \in 0 .. Len(entries) :
                              TextLength(entries, Len(entries), s) <= HardLimit})

(* First the summaries go, from the lowest rank up.                        *)
Summaries(entries) ==
    Most(0, Len(entries), {s \in 0 .. Len(entries) :
                              TextLength(entries, Len(entries), s) <= SoftLimit})

(* Then entries go, from below, down to three.                             *)
Kept(entries) ==
    IF Len(entries) <= MinEntriesWhenTrimming THEN Len(entries)
    ELSE Most(MinEntriesWhenTrimming, Len(entries),
              {n \in 0 .. Len(entries) :
                  TextLength(entries, n, Summaries(entries)) <= HardLimit})

(* At last all summaries go: how many entries are left, and how many of    *)
(* them, from above, may show a summary.                                   *)
Rendered(entries) ==
    LET n == Kept(entries)
        s == Summaries(entries)
    IN  [entries   |-> n,
         summaries |-> IF TextLength(entries, n, s) > HardLimit THEN 0 ELSE s]
=============================================================================
