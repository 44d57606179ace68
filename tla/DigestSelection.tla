--------------------------- MODULE DigestSelection ---------------------------
(***************************************************************************)
(* The entries of a digest, app/services/digest/selection.py: one for each *)
(* story with eligible news in the window, in a total order, with a cap    *)
(* for each category.  The functions are pure; the rows of the window and  *)
(* their groups are parameters.                                            *)
(***************************************************************************)
EXTENDS Integers, FiniteSets, Sequences

CONSTANTS
    Importance,         \* of an item, 1 .. 5, or 0 for none
    AiCategory,         \* the category the AI gave it
    CreatedAt, IdOrder, \* time of the row; order of the ids
    Readable,           \* items with Arabic text that is no promotion
    Summarised,         \* items with a summary that adds to the headline
    Precedence,         \* of a category, low first
    MaxEntries,         \* 10
    CategoryCap         \* 2

MinImportance        == 3
SummaryMinImportance == 4

Eligible(rows, repeated) ==
    {i \in (rows \cap Readable) \ repeated : Importance[i] >= MinImportance}

\* Mutant: every item is a group.
MutGroups(items, group) == {{i} : i \in items}

Groups(items, group) == {{j \in items : group[j] = group[i]} : i \in items}

(* Comparison of tuples.                                                   *)
Less(a, b) == \E n \in DOMAIN a : a[n] < b[n] /\ \A m \in 1 .. n - 1 : a[m] = b[m]

(* The most important of a group, then the newest.                         *)
MemberKey(i) == <<-Importance[i], -CreatedAt[i], IdOrder[i]>>
Representative(G) ==
    CHOOSE i \in G : \A j \in G \ {i} : Less(MemberKey(i), MemberKey(j))

Breaking(G) ==
    LET i == Representative(G) IN Importance[i] = 5 \/ AiCategory[i] = "breaking"

RankKey(G) ==
    LET i == Representative(G)
    IN  <<IF Breaking(G) THEN 0 ELSE 1, -Importance[i], Precedence[AiCategory[i]],
          -CreatedAt[i], IdOrder[i]>>

Ranked(groups) ==
    CHOOSE ranked \in [1 .. Cardinality(groups) -> groups] :
        \A m, n \in DOMAIN ranked : m < n => Less(RankKey(ranked[m]), RankKey(ranked[n]))

(* The representative has the importance of its group.                     *)
Entry(G) ==
    LET i == Representative(G)
    IN  [item |-> i, breaking |-> Breaking(G),
         summary |-> Importance[i] >= SummaryMinImportance /\ i \in Summarised]

SameCategory(entries, G) ==
    {n \in DOMAIN entries : AiCategory[entries[n].item] = AiCategory[Representative(G)]}

\* Mutant: the cap holds for breaking news too.
MutTake(entries, G) ==
    IF Len(entries) >= MaxEntries \/ Cardinality(SameCategory(entries, G)) >= CategoryCap
    THEN entries ELSE Append(entries, Entry(G))

(* Breaking news is exempt from the cap, but counts.                       *)
Take(entries, G) ==
    IF \/ Len(entries) >= MaxEntries
       \/ ~Breaking(G) /\ Cardinality(SameCategory(entries, G)) >= CategoryCap
    THEN entries ELSE Append(entries, Entry(G))

(* The entries after each of the ranked groups.                            *)
Selections(ranked) ==
    LET taken[n \in 0 .. Len(ranked)] ==
          IF n = 0 THEN <<>> ELSE Take(taken[n - 1], ranked[n])
    IN  taken

SelectDigestEntries(rows, group, repeated) ==
    LET ranked == Ranked(Groups(Eligible(rows, repeated), group))
    IN  Selections(ranked)[Len(ranked)]
=============================================================================
