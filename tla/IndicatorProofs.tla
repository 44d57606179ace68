--------------------------- MODULE IndicatorProofs ---------------------------
(***************************************************************************)
(* Proofs about IndicatorMemory for any items, tasks and classifications:  *)
(* a series never forgets that it holds a revision, and a print is lost    *)
(* only to the writer that founded its series; the counters of a series    *)
(* fall behind its prints by races only; and what the macro context finds  *)
(* by walking the history is true of the prints of the series.             *)
(***************************************************************************)
EXTENDS IndicatorMemory, FiniteSetTheorems, TLAPS

Shape ==
    /\ series \in [Keys -> Row \cup {NoSeries}]
    /\ DOMAIN prints = Items
    /\ report = [recorded |-> report.recorded, already |-> report.already,
                 failed |-> report.failed]
    /\ DOMAIN pc = Writers /\ DOMAIN item = Writers
    /\ read \in [Writers -> Row \cup {NoSeries}]

(* Prints and series exist together; those of the past stay.               *)
SeriesStand ==
    /\ Recorded \subseteq Stored /\ Stored \subseteq Structured
    /\ \A i \in Stored : Key(i) # None => series[Key(i)] # NoSeries
    /\ \A k \in Keys : series[k] # NoSeries => PrintsOf(k) # {}

(* What a writer holds: a series it read as absent is none of the past.    *)
Holds(w) ==
    /\ w # Backfill => item[w] = ItemOf[w]
    /\ pc[w] = "idle" => item[w] \notin Structured
    /\ pc[w] \in {"series", "commit", "count"} => item[w] \in Structured
    /\ w = Backfill /\ pc[w] = "check" => item[w] \in Structured
    /\ pc[w] = "series" => Key(item[w]) # None
    /\ pc[w] = "commit" /\ Key(item[w]) # None =>
         IF read[w] = NoSeries THEN Founder(item[w]) ELSE series[Key(item[w])] # NoSeries

(* The print of a structured item is stored, or was lost or failed.        *)
AccountedFor(i) ==
    i \in Structured \ failed =>
        \/ prints[i].stored
        \/ Key(i) # None /\ \E j \in PrintsOf(Key(i)) \ {i} : Founder(j)
Accounted(w) ==
    pc[w] \in {"macro", "history", "reply", "done", "count", "next"} => AccountedFor(item[w])

Inv ==
    /\ Shape
    /\ SeriesStand
    /\ RevisionsNeverForgotten
    /\ \A w \in Writers : Holds(w) /\ Accounted(w)
    /\ report.recorded \subseteq Stored

LEMMA KeyType == \A i \in Structured : Key(i) # None => Key(i) \in Keys
  BY DEF Keys

LEMMA RowsExist == \A r \in Row : r # NoSeries
  BY DEF Row, NoSeries, Columns

-----------------------------------------------------------------------------
LEMMA InitInv == Init => Inv
  <1> USE IndicatorAssumption
  <1> SUFFICES ASSUME Init PROVE Inv
    OBVIOUS
  <1> DEFINE Of(k, c) == {i \in Recorded : Key(i) = k /\ c \in Counts(i)}
  <1>1. \A k, c : Cardinality(Of(k, c)) \in Nat
    <2> SUFFICES ASSUME NEW k, NEW c PROVE Cardinality(Of(k, c)) \in Nat
      OBVIOUS
    <2>1. Of(k, c) \subseteq Items
      OBVIOUS
    <2> QED
      BY <2>1, FS_Subset, FS_CardinalityType
  <1>2. Stored = Recorded
    BY DEF Init, Stored
  <1>3. \A k \in Keys : IF \E i \in Recorded : Key(i) = k
                        THEN series[k] \in Row ELSE series[k] = NoSeries
    <2> SUFFICES ASSUME NEW k \in Keys
                 PROVE  IF \E i \in Recorded : Key(i) = k
                        THEN series[k] \in Row ELSE series[k] = NoSeries
      OBVIOUS
    <2>1. series[k] = IF \E i \in Recorded : Key(i) = k
                      THEN [c \in Columns |-> Cardinality(Of(k, c))] ELSE NoSeries
      BY DEF Init
    <2>2. [c \in Columns |-> Cardinality(Of(k, c))] \in Row
      <3> HIDE DEF Of
      <3>1. \A c \in Columns : Cardinality(Of(k, c)) \in Nat
        BY <1>1
      <3> QED
        BY ONLY <3>1 DEF Row
    <2>3. PICK row \in Row : row = [c \in Columns |-> Cardinality(Of(k, c))]
      BY <2>2
    <2> HIDE DEF Of
    <2>4. series[k] = IF \E i \in Recorded : Key(i) = k THEN row ELSE NoSeries
      BY <2>1, <2>3
    <2> QED
      BY <2>4
  <1>4. Shape
    <2>1. series \in [Keys -> Row \cup {NoSeries}]
      <3> DEFINE First(k) == IF \E i \in Recorded : Key(i) = k
                             THEN [c \in Columns |-> Cardinality(Of(k, c))]
                             ELSE NoSeries
      <3>3. series = [k \in Keys |-> First(k)]
        BY DEF Init
      <3> HIDE DEF First
      <3>1. DOMAIN series = Keys /\ series = [k \in Keys |-> series[k]]
        BY <3>3
      <3>2. \A k \in Keys : series[k] \in Row \cup {NoSeries}
        BY <1>3
      <3> QED
        BY <3>1, <3>2
    <2>2. read \in [Writers -> Row \cup {NoSeries}]
      BY DEF Init
    <2>3. DOMAIN prints = Items
          /\ report = [recorded |-> report.recorded, already |-> report.already,
                       failed |-> report.failed]
      BY DEF Init
    <2>4. DOMAIN pc = Writers /\ DOMAIN item = Writers
      BY DEF Init
    <2> QED
      BY <2>1, <2>2, <2>3, <2>4 DEF Shape
  <1>5. SeriesStand
    <2>1. \A i \in Recorded : Key(i) # None => series[Key(i)] # NoSeries
      BY <1>3, KeyType, RowsExist
    <2>2. \A k \in Keys : series[k] # NoSeries => PrintsOf(k) # {}
      BY <1>2, <1>3 DEF PrintsOf
    <2> QED
      BY <1>2, <2>1, <2>2 DEF SeriesStand
  <1>6. RevisionsNeverForgotten
    BY <1>2 DEF RevisionsNeverForgotten
  <1>7. \A w \in Writers : Holds(w) /\ Accounted(w)
    BY DEF Init, Holds, Accounted, Writers
  <1>8. report.recorded \subseteq Stored
    BY DEF Init
  <1> QED
    BY <1>4, <1>5, <1>6, <1>7, <1>8 DEF Inv

-----------------------------------------------------------------------------
(* What one writer does leaves what the others hold, as long as prints and *)
(* series are only added.                                                  *)
Grow ==
    /\ \A i \in Items : prints[i].stored => prints'[i].stored
    /\ \A k \in Keys : series[k] # NoSeries => series'[k] # NoSeries
    /\ failed \subseteq failed'

LEMMA GrowKeeps ==
  ASSUME Inv, Grow, NEW w \in Writers, 
         pc'[w] = pc[w] /\ item'[w] = item[w] /\ read'[w] = read[w]
  PROVE  (Holds(w) /\ Accounted(w))'
  <1>1. Holds(w)'
    <2>1. pc[w] = "commit" /\ Key(item[w]) # None => Key(item[w]) \in Keys
      BY KeyType DEF Inv, Holds
    <2> QED
      BY <2>1 DEF Inv, Holds, Grow, Founder
  <1>2. AccountedFor(item[w]) => AccountedFor(item[w])'
    BY IndicatorAssumption DEF AccountedFor, Grow, PrintsOf, Stored, Founder
  <1> QED
    BY <1>1, <1>2 DEF Inv, Accounted, AccountedFor

LEMMA AccountsKept ==
  ASSUME UNCHANGED <<prints, failed>>, NEW i, AccountedFor(i)
  PROVE  i \in Structured \ failed' =>
           \/ prints'[i].stored
           \/ Key(i) # None /\ \E j \in PrintsOf(Key(i))' \ {i} : Founder(j)
  BY DEF AccountedFor, PrintsOf, Stored

(* Steps that write neither prints nor series.                             *)
LEMMA QuietInv ==
  ASSUME Inv, UNCHANGED <<prints, series>>, failed \subseteq failed', NEW w \in Writers,
         DOMAIN pc' = Writers, DOMAIN item' = Writers,
         report' = [recorded |-> report'.recorded, already |-> report'.already,
                    failed |-> report'.failed],
         read' \in [Writers -> Row \cup {NoSeries}],
         \A u \in Writers \ {w} : pc'[u] = pc[u] /\ item'[u] = item[u] /\ read'[u] = read[u],
         (Holds(w) /\ Accounted(w))', report'.recorded \subseteq Stored
  PROVE  Inv'
  <1>1. Grow
    BY DEF Grow
  <1>2. Shape' /\ SeriesStand' /\ RevisionsNeverForgotten'
    BY DEF Inv, Shape, SeriesStand, RevisionsNeverForgotten, Stored, PrintsOf
  <1>3. \A u \in Writers : (Holds(u) /\ Accounted(u))'
    <2> TAKE u \in Writers
    <2>1. CASE u = w
      BY <2>1
    <2>2. CASE u # w
      BY <1>1, <2>2, GrowKeeps
    <2> QED
      BY <2>1, <2>2
  <1>4. Stored' = Stored
    BY DEF Stored
  <1> QED
    BY <1>2, <1>3, <1>4 DEF Inv


LEMMA QuietStepInv ==
  ASSUME Inv, NEW w \in Writers,
         Skip(w) \/ Check(w) \/ ReadSeries(w) \/ LostRace(w) \/ StageFails(w)
  PROVE  Inv'
  <1> USE IndicatorAssumption
  <1> DEFINE i == item[w]
  <1>1. /\ prints' = prints /\ series' = series /\ item' = item
        /\ failed \subseteq failed' /\ DOMAIN pc' = Writers
        /\ \A u \in Writers \ {w} : pc'[u] = pc[u] /\ read'[u] = read[u]
    BY DEF Skip, Check, ReadSeries, LostRace, StageFails, RolledBack, Leave, Goto,
       database, script, Inv, Shape
  <1>4. report' = [recorded |-> report'.recorded, already |-> report'.already,
                   failed |-> report'.failed]
        /\ report'.recorded = report.recorded
    <2>1. report' = report \/ report' = [report EXCEPT !.failed = @ \cup {i}]
      BY DEF Skip, Check, ReadSeries, LostRace, StageFails, Reported, script
    <2> QED
      BY <2>1 DEF Inv, Shape
  <1>2. read' \in [Writers -> Row \cup {NoSeries}]
    <2>1. ASSUME pc[w] = "series" PROVE series[Key(i)] \in Row \cup {NoSeries}
      BY <2>1, KeyType DEF Inv, Holds, Shape
    <2> QED
      BY <2>1 DEF Skip, Check, ReadSeries, LostRace, StageFails, RolledBack, Leave, Inv, Shape
  <1>3. Holds(w)' /\ Accounted(w)'
    <2>1. CASE Skip(w)
      BY <1>1, <2>1 DEF Skip, Leave, Goto, Inv, Shape, Holds, Accounted, AccountedFor
    <2>2. CASE Check(w)
      BY <1>1, <2>2 DEF Check, Goto, Inv, Shape, Holds, Accounted
    <2>3. CASE ReadSeries(w)
      <3>1. i \in Structured /\ Key(i) # None
        BY <2>3 DEF ReadSeries, Inv, Holds
      <3>2. series[Key(i)] = NoSeries => Founder(i)
        BY <3>1 DEF Founder, Inv, SeriesStand
      <3> QED
        BY <1>1, <2>3, <3>1, <3>2 DEF ReadSeries, Goto, Inv, Shape, Holds, Accounted, Founder
    <2>4. CASE LostRace(w)
      <3>1. i \in Structured
        BY <2>4 DEF LostRace, Inv, Holds
      <3>2. \/ prints[i].stored
            \/ Key(i) # None /\ Founder(i) /\ PrintsOf(Key(i)) # {}
        BY <2>4, <3>1, KeyType DEF LostRace, Conflict, Inv, Holds, SeriesStand
      <3>3. AccountedFor(i)
        BY <3>2 DEF AccountedFor, PrintsOf, Stored, Founder
      <3>4. AccountedFor(i)'
        BY <1>1, <3>3 DEF AccountedFor, PrintsOf, Stored, Founder
      <3> QED
        BY <1>1, <2>4, <3>1, <3>4
        DEF LostRace, RolledBack, Goto, Inv, Shape, Holds, Accounted
    <2>5. CASE StageFails(w)
      <3>1. i \in failed'
        BY <2>5 DEF StageFails
      <3> QED
        BY <1>1, <2>5, <3>1
        DEF StageFails, RolledBack, Goto, Inv, Shape, Holds, Accounted, AccountedFor
    <2> QED
      BY <2>1, <2>2, <2>3, <2>4, <2>5
  <1> QED
    BY <1>1, <1>2, <1>3, <1>4, QuietInv DEF Inv, Shape

LEMMA ReaderInv ==
  ASSUME Inv, NEW t \in Tasks, MacroSeries(t) \/ MacroFacts(t) \/ Finish(t)
  PROVE  Inv'
  <1> USE IndicatorAssumption
  <1>1. /\ prints' = prints /\ series' = series /\ item' = item
        /\ failed' = failed /\ report' = report
        /\ DOMAIN pc' = Writers /\ t \in Writers /\ t # Backfill
        /\ \A u \in Writers \ {t} : pc'[u] = pc[u] /\ read'[u] = read[u]
        /\ pc[t] \in {"macro", "history", "reply"} /\ pc'[t] \in {"history", "reply", "done"}
    BY DEF MacroSeries, MacroFacts, Finish, Goto, database, script, Inv, Shape, Writers
  <1>2. read' \in [Writers -> Row \cup {NoSeries}]
    <2>1. ASSUME prints[item[t]].stored, Key(item[t]) # None, item[t] \in Items
          PROVE  series[Key(item[t])] \in Row \cup {NoSeries}
      BY <2>1, KeyType DEF Inv, SeriesStand, Stored, Shape
    <2>2. item[t] \in Items
      BY <1>1 DEF Inv, Holds
    <2> QED
      BY <2>1, <2>2 DEF MacroSeries, MacroFacts, Finish, Inv, Shape
  <1>3. Holds(t)' /\ Accounted(t)'
    BY <1>1 DEF Inv, Holds, Accounted, AccountedFor, PrintsOf, Stored, Founder
  <1> QED
    BY <1>1, <1>2, <1>3, QuietInv DEF Inv, Shape

LEMMA ScriptInv ==
  ASSUME Inv, Scan \/ Replay \/ Count \/ Over
  PROVE  Inv'
  <1> USE IndicatorAssumption
  <1> DEFINE b == Backfill
  <1>1. /\ prints' = prints /\ series' = series /\ read' = read /\ failed' = failed
        /\ DOMAIN pc' = Writers /\ DOMAIN item' = Writers /\ b \in Writers
        /\ \A u \in Writers \ {b} : pc'[u] = pc[u] /\ item'[u] = item[u]
    BY DEF Scan, Replay, Count, Over, Goto, database, script, Inv, Shape, Writers
  <1>2. AccountedFor(item[b]) /\ item'[b] = item[b] => AccountedFor(item[b])'
    BY <1>1, AccountsKept DEF AccountedFor, Founder
  <1>5. report' = [recorded |-> report'.recorded, already |-> report'.already,
                   failed |-> report'.failed]
    BY DEF Scan, Replay, Count, Over, script, Inv, Shape
  <1>3. Holds(b)' /\ Accounted(b)'
    <2>1. CASE Scan
      BY <1>1, <2>1 DEF Scan, Goto, Inv, Shape, Holds, Accounted, AccountedFor
    <2>2. CASE Replay
      BY <1>1, <1>2, <2>2 DEF Replay, Goto, Inv, Shape, Holds, Accounted
    <2>3. CASE Count \/ Over
      BY <1>1, <1>2, <2>3 DEF Count, Over, Goto, Inv, Shape, Holds, Accounted
    <2> QED
      BY <2>1, <2>2, <2>3
  <1>4. report'.recorded \subseteq Stored
    <2>1. CASE Count
      BY <2>1 DEF Count, Inv, Holds, Stored, Writers
    <2>2. CASE Scan \/ Replay \/ Over
      BY <2>2 DEF Scan, Replay, Over, script, Inv, Shape
    <2> QED
      BY <2>1, <2>2
  <1> QED
    BY <1>1, <1>3, <1>4, <1>5, QuietInv DEF Inv, Shape


-----------------------------------------------------------------------------
(* A print is stored with its series.                                      *)
LEMMA CommitInv ==
  ASSUME Inv, NEW w \in Writers, Commit(w)
  PROVE  Inv'
  <1> USE IndicatorAssumption
  <1> DEFINE i == item[w]
             k == Key(i)
  <1>1. /\ i \in Structured /\ i \in Items /\ (k # None => k \in Keys)
        /\ DOMAIN pc' = Writers /\ item' = item /\ failed' = failed /\ report' = report
        /\ \A u \in Writers \ {w} : pc'[u] = pc[u] /\ read'[u] = read[u]
        /\ read' \in [Writers -> Row \cup {NoSeries}]
        /\ pc'[w] \in {"count", "macro"} /\ (pc'[w] = "count" => w = Backfill)
    BY KeyType DEF Commit, Leave, Goto, script, Inv, Holds, Shape
  <1>2. /\ DOMAIN prints' = Items /\ prints'[i].stored
        /\ \A j \in Items \ {i} : prints'[j] = prints[j]
        /\ ~prints[i].stored
    BY <1>1 DEF Commit, Conflict, Inv, Shape
  <1>3. Stored' = Stored \cup {i}
    BY <1>1, <1>2 DEF Stored
  <1>4. /\ series' \in [Keys -> Row \cup {NoSeries}]
        /\ \A h \in Keys : h # k => series'[h] = series[h]
        /\ k # None => /\ series'[k] \in Row
                       /\ i \in Marked \/ (\E j \in Stored \cap Marked : Key(j) = k)
                            => series'[k]["revisions"] > 0
    <2>1. CASE k = None
      BY <1>1, <2>1 DEF Commit, Inv, Shape
    <2>2. CASE k # None
      <3> DEFINE new == Written(w, series[k])
      <3>1. series' = [series EXCEPT ![k] = new]
        BY <2>2 DEF Commit
      <3>2. read[w] \in Row \cup {NoSeries} /\ series[k] \in Row \cup {NoSeries}
        BY <1>1, <2>2 DEF Inv, Shape
      <3>3. read[w] = NoSeries => series[k] = NoSeries
        BY <2>2 DEF Commit, Conflict
      <3>4. read[w] # NoSeries => series[k] # NoSeries
        BY <2>2 DEF Commit, Inv, Holds
      <3>5. new \in Row
        BY <3>2, <3>4 DEF Written, Row, Columns
      <3>6. i \in Marked => new["revisions"] > 0
        <4>1. "revisions" \in Columns /\ (i \in Marked => "revisions" \in Counts(i))
          BY DEF Columns, Counts
        <4> QED
          BY <3>2, <4>1 DEF Written, Row
      <3>7. ASSUME NEW j \in Stored \cap Marked, Key(j) = k PROVE new["revisions"] > 0
        <4>1. series[k] # NoSeries /\ series[k]["revisions"] > 0
          BY <2>2, <3>7 DEF Inv, RevisionsNeverForgotten
        <4>2. read[w] # NoSeries /\ "revisions" \in Columns
          BY <3>3, <4>1 DEF Columns
        <4> QED
          BY <3>2, <4>1, <4>2 DEF Written, Row
      <3> HIDE DEF new
      <3> QED
        BY <1>1, <2>2, <3>1, <3>5, <3>6, <3>7 DEF Inv, Shape
    <2> QED
      BY <2>1, <2>2
  <1> HIDE DEF i, k
  <1>5. Grow
    <2>1. ASSUME NEW h \in Keys, series[h] # NoSeries PROVE series'[h] # NoSeries
      <3>1. CASE h = k
        <4>1. k # None
          BY <3>1 DEF Keys
        <4>2. series'[k] \in Row
          BY <1>4, <4>1
        <4> QED
          BY <3>1, <4>2, RowsExist
      <3>2. CASE h # k
        BY <1>4, <2>1, <3>2
      <3> QED
        BY <3>1, <3>2
    <2> QED
      BY <1>1, <1>2, <2>1 DEF Grow
  <1>6. Shape'
    BY <1>1, <1>2, <1>4 DEF Inv, Shape
  <1>7. SeriesStand'
    <2>1. ASSUME NEW j \in Stored', Key(j) # None PROVE series'[Key(j)] # NoSeries
      <3>1. CASE j = i
        <4>1. Key(j) = k /\ k # None
          BY <2>1, <3>1 DEF k
        <4>2. series'[k] \in Row
          BY <1>4, <4>1
        <4> QED
          BY <4>1, <4>2, RowsExist
      <3>2. CASE j # i
        <4>1. j \in Stored /\ j \in Structured /\ series[Key(j)] # NoSeries
          BY <1>3, <2>1, <3>2 DEF Inv, SeriesStand
        <4> QED
          BY <1>5, <2>1, <4>1, KeyType DEF Grow
      <3> QED
        BY <3>1, <3>2
    <2>2. ASSUME NEW h \in Keys, series'[h] # NoSeries PROVE PrintsOf(h)' # {}
      <3>1. CASE h = k
        BY <1>3, <3>1 DEF PrintsOf, k
      <3>2. CASE h # k
        BY <1>3, <1>4, <2>2, <3>2 DEF Inv, SeriesStand, PrintsOf
      <3> QED
        BY <3>1, <3>2
    <2> QED
      BY <1>1, <1>3, <2>1, <2>2 DEF Inv, SeriesStand
  <1>8. RevisionsNeverForgotten'
    <2> SUFFICES ASSUME NEW j \in Stored' \cap Marked, Key(j) # None
                 PROVE  series'[Key(j)] # NoSeries /\ series'[Key(j)]["revisions"] > 0
      BY DEF RevisionsNeverForgotten
    <2>1. Key(j) \in Keys /\ series'[Key(j)] # NoSeries
      BY <1>7, KeyType DEF SeriesStand
    <2>2. CASE Key(j) = k
      BY <1>3, <1>4, <2>1, <2>2
    <2>3. CASE Key(j) # k
      BY <1>3, <1>4, <2>1, <2>3 DEF Inv, RevisionsNeverForgotten, k
    <2> QED
      BY <2>1, <2>2, <2>3
  <1>9. \A u \in Writers : (Holds(u) /\ Accounted(u))'
    <2> TAKE u \in Writers
    <2>1. CASE u = w
      BY <1>1, <1>2, <2>1 DEF Inv, Holds, Accounted, AccountedFor, i
    <2>2. CASE u # w
      BY <1>1, <1>5, <2>2, GrowKeeps
    <2> QED
      BY <2>1, <2>2
  <1> QED
    BY <1>1, <1>3, <1>6, <1>7, <1>8, <1>9 DEF Inv

-----------------------------------------------------------------------------
LEMMA NextInv == Inv /\ [Next]_vars => Inv'
  <1> SUFFICES ASSUME Inv, [Next]_vars PROVE Inv'
    OBVIOUS
  <1>1. CASE UNCHANGED vars
    BY <1>1 DEF vars, database, script, Inv, Shape, SeriesStand, RevisionsNeverForgotten,
       Holds, Accounted, AccountedFor, Stored, PrintsOf
  <1>2. CASE Next
    BY <1>1, <1>2, QuietStepInv, ReaderInv, ScriptInv, CommitInv DEF Next, Record, Done
  <1> QED
    BY <1>1, <1>2

(* The inductive invariant holds in every reachable state.                 *)
THEOREM InvHolds == Spec => []Inv
  BY InitInv, NextInv, PTL DEF Spec

(* A series that holds a marked print has a positive revision count.       *)
THEOREM RevisionsKept == Spec => []RevisionsNeverForgotten
  BY InvHolds, PTL DEF Inv

(* A print is lost, without a failure, only to a writer that founded its   *)
(* series.                                                                 *)
THEOREM PrintLost == Spec => []PrintLostOnlyToItsSeries
  <1>1. Inv => PrintLostOnlyToItsSeries
    BY DEF Inv, PrintLostOnlyToItsSeries, Accounted, AccountedFor
  <1> QED
    BY <1>1, InvHolds, PTL
-----------------------------------------------------------------------------
(* The counters.                                                           *)

(* The prints a counter stands for.                                        *)
Counted(k, c) == {i \in PrintsOf(k) : c \in Counts(i)}

(* What a writer read of a row is no more than the prints of then.         *)
ReadCounters(w) ==
    pc[w] = "commit" /\ Key(item[w]) # None /\ read[w] # NoSeries =>
        \A c \in Columns : read[w][c] <= Cardinality(Counted(Key(item[w]), c))

RowCounters(k) ==
    series[k] # NoSeries => \A c \in Columns :
        /\ series[k][c] <= Cardinality(Counted(k, c))
        /\ k \in raced \/ series[k][c] = Cardinality(Counted(k, c))

CountersInv ==
    /\ \A k \in Keys : RowCounters(k)
    /\ \A w \in Writers : ReadCounters(w)

LEMMA CountedType ==
  ASSUME NEW k, NEW c
  PROVE  /\ IsFiniteSet(Counted(k, c)) /\ Cardinality(Counted(k, c)) \in Nat
         /\ IsFiniteSet(Counted(k, c)') /\ Cardinality(Counted(k, c)') \in Nat
  <1>1. Counted(k, c) \subseteq Items /\ Counted(k, c)' \subseteq Items
    BY DEF Counted, PrintsOf, Stored
  <1> QED
    BY <1>1, IndicatorAssumption, FS_Subset, FS_CardinalityType

LEMMA InitCounters == Init => CountersInv
  <1> SUFFICES ASSUME Init PROVE CountersInv
    OBVIOUS
  <1>1. \A w \in Writers : ReadCounters(w)
    BY DEF Init, ReadCounters
  <1>2. ASSUME NEW k \in Keys, series[k] # NoSeries, NEW c \in Columns
        PROVE  series[k][c] = Cardinality(Counted(k, c))
    <2>1. Counted(k, c) = {i \in Recorded : Key(i) = k /\ c \in Counts(i)}
      BY IndicatorAssumption DEF Init, Counted, PrintsOf, Stored
    <2>2. series[k][c] = Cardinality({i \in Recorded : Key(i) = k /\ c \in Counts(i)})
      BY <1>2 DEF Init
    <2> QED
      BY <2>1, <2>2
  <1> QED
    BY <1>1, <1>2, CountedType DEF CountersInv, RowCounters

(* Steps that write neither prints nor series.                             *)
LEMMA QuietCounters ==
  ASSUME Inv, CountersInv, UNCHANGED <<prints, series, raced>>, NEW w \in Writers,
         \A u \in Writers \ {w} : pc'[u] = pc[u] /\ item'[u] = item[u] /\ read'[u] = read[u],
         pc'[w] = "commit" /\ Key(item'[w]) # None =>
             read'[w] = NoSeries \/ (Key(item'[w]) \in Keys /\ read'[w] = series[Key(item'[w])])
  PROVE  CountersInv'
  <1>1. ASSUME NEW k, NEW c PROVE Counted(k, c)' = Counted(k, c)
    BY DEF Counted, PrintsOf, Stored
  <1>2. \A k \in Keys : RowCounters(k)'
    BY <1>1 DEF CountersInv, RowCounters
  <1>3. ASSUME NEW u \in Writers PROVE ReadCounters(u)'
    <2>1. CASE u = w
      <3> SUFFICES ASSUME pc'[w] = "commit", Key(item'[w]) # None, read'[w] # NoSeries,
                          NEW c \in Columns
                   PROVE  read'[w][c] <= Cardinality(Counted(Key(item'[w]), c))
        BY <2>1 DEF ReadCounters, Counted, PrintsOf, Stored
      <3>1. PICK k \in Keys : k = Key(item'[w]) /\ read'[w] = series[k]
        OBVIOUS
      <3>2. series[k][c] <= Cardinality(Counted(k, c))
        BY <3>1 DEF CountersInv, RowCounters
      <3> QED
        BY <3>1, <3>2
    <2>2. CASE u # w
      <3>1. pc'[u] = pc[u] /\ item'[u] = item[u] /\ read'[u] = read[u]
        BY <2>2
      <3>2. ReadCounters(u)
        BY DEF CountersInv
      <3> QED
        BY <3>1, <3>2 DEF ReadCounters, Counted, PrintsOf, Stored
    <2> QED
      BY <2>1, <2>2
  <1> QED
    BY <1>2, <1>3 DEF CountersInv

LEMMA RecordCounters ==
  ASSUME Inv, CountersInv, NEW w \in Writers,
         Skip(w) \/ Check(w) \/ ReadSeries(w) \/ LostRace(w) \/ StageFails(w)
  PROVE  CountersInv'
  <1>1. /\ prints' = prints /\ series' = series /\ raced' = raced /\ item' = item
        /\ \A u \in Writers \ {w} : pc'[u] = pc[u] /\ read'[u] = read[u]
    BY DEF Skip, Check, ReadSeries, LostRace, StageFails, RolledBack, Leave, Goto,
       database, Inv, Shape
  <1>2. CASE ReadSeries(w)
    <2>1. item[w] \in Structured /\ Key(item[w]) # None
      BY <1>2 DEF ReadSeries, Inv, Holds
    <2>2. Key(item[w]) \in Keys /\ read'[w] = series[Key(item[w])]
      BY <1>2, <2>1, KeyType DEF ReadSeries, Inv, Shape
    <2> QED
      BY <1>1, <2>2, QuietCounters
  <1>3. CASE Check(w)
    <2>1. pc'[w] = "commit" => Key(item[w]) = None
      BY <1>3 DEF Check, Goto, Inv, Shape
    <2> QED
      BY <1>1, <2>1, QuietCounters
  <1>4. CASE Skip(w) \/ LostRace(w) \/ StageFails(w)
    <2>1. pc'[w] # "commit"
      BY <1>4 DEF Skip, LostRace, StageFails, RolledBack, Leave, Goto, Inv, Shape
    <2> QED
      BY <1>1, <2>1, QuietCounters
  <1> QED
    BY <1>2, <1>3, <1>4

LEMMA OtherCounters ==
  ASSUME Inv, CountersInv,
         \/ \E t \in Tasks : MacroSeries(t) \/ MacroFacts(t) \/ Finish(t)
         \/ Scan \/ Replay \/ Count \/ Over
  PROVE  CountersInv'
  <1>1. CASE \E t \in Tasks : MacroSeries(t) \/ MacroFacts(t) \/ Finish(t)
    <2>1. PICK t \in Tasks : MacroSeries(t) \/ MacroFacts(t) \/ Finish(t)
      BY <1>1
    <2>2. /\ UNCHANGED <<prints, series, raced>> /\ t \in Writers /\ item' = item
          /\ \A u \in Writers \ {t} : pc'[u] = pc[u] /\ read'[u] = read[u]
          /\ pc'[t] # "commit"
      BY <2>1 DEF MacroSeries, MacroFacts, Finish, Goto, database, Inv, Shape, Writers
    <2> QED
      BY <2>2, QuietCounters
  <1>2. CASE Scan \/ Replay \/ Count \/ Over
    <2>1. /\ UNCHANGED <<prints, series, raced>> /\ Backfill \in Writers /\ read' = read
          /\ \A u \in Writers \ {Backfill} : pc'[u] = pc[u] /\ item'[u] = item[u]
          /\ pc'[Backfill] # "commit"
      BY <1>2 DEF Scan, Replay, Count, Over, Goto, database, script, Inv, Shape, Writers
    <2> QED
      BY <2>1, QuietCounters
  <1> QED
    BY <1>1, <1>2

(* A print adds one to the prints of each counter of its series that it is *)
(* for, and to nothing else.                                               *)
LEMMA OnePrintMore ==
  ASSUME NEW i \in Items, i \notin Stored, Stored' = Stored \cup {i}, NEW k, NEW c
  PROVE  Cardinality(Counted(k, c)') =
             IF Key(i) = k /\ c \in Counts(i) THEN Cardinality(Counted(k, c)) + 1
                                             ELSE Cardinality(Counted(k, c))
  <1>1. CASE Key(i) = k /\ c \in Counts(i)
    <2>1. Counted(k, c)' = Counted(k, c) \cup {i} /\ i \notin Counted(k, c)
      BY <1>1 DEF Counted, PrintsOf
    <2> QED
      BY <1>1, <2>1, CountedType, FS_AddElement
  <1>2. CASE ~(Key(i) = k /\ c \in Counts(i))
    <2>1. Counted(k, c)' = Counted(k, c)
      BY <1>2 DEF Counted, PrintsOf
    <2> QED
      BY <1>2, <2>1
  <1> QED
    BY <1>1, <1>2

LEMMA CommitCounters ==
  ASSUME Inv, CountersInv, NEW w \in Writers, Commit(w)
  PROVE  CountersInv'
  <1> USE IndicatorAssumption
  <1>1. PICK i \in Items : i = item[w] /\ i \in Structured
    BY DEF Commit, Inv, Holds
  <1>2. PICK k : k = Key(i) /\ (k # None => k \in Keys)
    BY <1>1, KeyType
  <1>3. /\ i \notin Stored /\ Stored' = Stored \cup {i}
        /\ \A u \in Writers \ {w} : pc'[u] = pc[u] /\ read'[u] = read[u]
        /\ pc'[w] # "commit" /\ item' = item
    BY <1>1 DEF Commit, Conflict, Leave, Goto, Stored, Inv, Shape
  <1>4. ASSUME NEW h, NEW c
        PROVE  Cardinality(Counted(h, c)') =
                 IF k = h /\ c \in Counts(i) THEN Cardinality(Counted(h, c)) + 1
                                            ELSE Cardinality(Counted(h, c))
    BY <1>2, <1>3, OnePrintMore
  <1>5. ASSUME NEW u \in Writers PROVE ReadCounters(u)'
    <2>1. CASE u = w
      BY <1>3, <2>1 DEF ReadCounters
    <2>2. CASE u # w
      <3> SUFFICES ASSUME pc[u] = "commit", Key(item[u]) # None, read[u] # NoSeries,
                          NEW c \in Columns
                   PROVE  read[u][c] <= Cardinality(Counted(Key(item[u]), c)')
        BY <1>3, <2>2 DEF ReadCounters, Counted
      <3>1. PICK h : h = Key(item[u])
        OBVIOUS
      <3>2. read[u][c] <= Cardinality(Counted(h, c)) /\ read[u] \in Row
        BY <3>1 DEF CountersInv, ReadCounters, Inv, Shape
      <3>3. Cardinality(Counted(h, c)) <= Cardinality(Counted(h, c)')
        BY <1>4, CountedType
      <3>4. read[u][c] \in Nat
        BY <3>2 DEF Row
      <3>5. read[u][c] <= Cardinality(Counted(h, c)')
        BY <3>2, <3>3, <3>4, CountedType
      <3> QED
        BY <1>3, <3>1, <3>5 DEF Counted, PrintsOf
    <2> QED
      BY <2>1, <2>2
  <1>6. ASSUME NEW h \in Keys PROVE RowCounters(h)'
    <2>1. CASE h # k
      <3>1. series'[h] = series[h] /\ (h \in raced => h \in raced')
        BY <1>1, <1>2, <2>1 DEF Commit, Inv, Shape
      <3>2. RowCounters(h)
        BY DEF CountersInv
      <3>3. \A c : Cardinality(Counted(h, c)') = Cardinality(Counted(h, c))
        BY <1>4, <2>1
      <3> QED
        BY <3>1, <3>2, <3>3 DEF RowCounters
    <2>2. CASE h = k
      <3>1. k # None
        BY <2>2 DEF Keys
      <3>2. /\ series'[k] = Written(w, series[k])
            /\ k \notin raced' => /\ k \notin raced
                                 /\ \A c \in Counts(i) : series[k][c] = read[w][c]
        BY <1>1, <1>2, <2>2, <3>1 DEF Commit, Inv, Shape
      <3>3. read[w] \in Row \cup {NoSeries} /\ series[k] \in Row \cup {NoSeries}
        BY <2>2 DEF Inv, Shape
      <3>4. CASE read[w] = NoSeries
        <4>1. series[k] = NoSeries
          BY <1>1, <1>2, <3>1, <3>4 DEF Commit, Conflict
        <4>2. PrintsOf(k) = {}
          BY <2>2, <3>1, <4>1 DEF Inv, SeriesStand, PrintsOf
        <4>3. \A c : Counted(k, c) = {}
          BY <4>2 DEF Counted
        <4>4. \A c \in Columns : series'[k][c] = Cardinality(Counted(k, c)')
          <5> SUFFICES ASSUME NEW c \in Columns
                       PROVE  series'[k][c] = Cardinality(Counted(k, c)')
            OBVIOUS
          <5>1. Cardinality(Counted(k, c)) = 0
            BY <4>3, FS_EmptySet
          <5>2. series'[k][c] = IF c \in Counts(i) THEN 1 ELSE 0
            BY <1>1, <3>2, <3>4 DEF Written
          <5> QED
            BY <1>4, <5>1, <5>2
        <4> QED
          BY <2>2, <4>4, CountedType DEF RowCounters
      <3>5. CASE read[w] # NoSeries
        <4>1. series[k] # NoSeries /\ pc[w] = "commit"
          BY <1>1, <1>2, <3>1, <3>5 DEF Commit, Inv, Holds
        <4>2. ASSUME NEW c \in Columns
              PROVE  /\ series'[k][c] <= Cardinality(Counted(k, c)')
                     /\ k \in raced' \/ series'[k][c] = Cardinality(Counted(k, c)')
          <5>1. /\ series[k][c] <= Cardinality(Counted(k, c))
                /\ k \in raced \/ series[k][c] = Cardinality(Counted(k, c))
            BY <2>2, <4>1, <4>2 DEF CountersInv, RowCounters
          <5>2. read[w][c] <= Cardinality(Counted(k, c))
            BY <1>1, <1>2, <3>1, <3>5, <4>1 DEF CountersInv, ReadCounters
          <5>3. read[w][c] \in Nat /\ series[k][c] \in Nat
            BY <3>3, <3>5, <4>1 DEF Row
          <5>4. series'[k][c] = IF c \in Counts(i) THEN read[w][c] + 1 ELSE series[k][c]
            BY <1>1, <3>2, <3>5 DEF Written
          <5>5. Cardinality(Counted(k, c)) \in Nat
            BY CountedType
          <5>6. CASE c \in Counts(i)
            <6>1. Cardinality(Counted(k, c)') = Cardinality(Counted(k, c)) + 1
              BY <1>4, <5>6
            <6>2. series'[k][c] <= Cardinality(Counted(k, c)')
              BY <5>2, <5>3, <5>4, <5>5, <5>6, <6>1
            <6>3. k \notin raced' => series'[k][c] = Cardinality(Counted(k, c)')
              BY <3>2, <5>1, <5>4, <5>6, <6>1
            <6> QED
              BY <6>2, <6>3
          <5>7. CASE c \notin Counts(i)
            <6>1. Cardinality(Counted(k, c)') = Cardinality(Counted(k, c))
              BY <1>4, <5>7
            <6> QED
              BY <3>2, <5>1, <5>4, <5>7, <6>1
          <5> QED
            BY <5>6, <5>7
        <4> QED
          BY <2>2, <4>2 DEF RowCounters
      <3> QED
        BY <3>4, <3>5
    <2> QED
      BY <2>1, <2>2
  <1> QED
    BY <1>5, <1>6 DEF CountersInv

LEMMA NextCounters == Inv /\ CountersInv /\ [Next]_vars => CountersInv'
  <1> SUFFICES ASSUME Inv, CountersInv, [Next]_vars PROVE CountersInv'
    OBVIOUS
  <1>1. CASE UNCHANGED vars
    BY <1>1 DEF vars, database, CountersInv, RowCounters, ReadCounters, Counted,
       PrintsOf, Stored
  <1>2. CASE Next
    BY <1>1, <1>2, RecordCounters, OtherCounters, CommitCounters DEF Next, Record, Done
  <1> QED
    BY <1>1, <1>2

(* The counters of a series never exceed its prints, and fall behind only  *)
(* where two writers added to a row both had read.                         *)
THEOREM CountersCorrect == Spec => []CountersDriftOnlyByRaces
  <1>1. CountersInv => CountersDriftOnlyByRaces
    BY DEF CountersInv, RowCounters, Counted, CountersDriftOnlyByRaces
  <1> QED
    BY <1>1, InitCounters, NextCounters, InvHolds, PTL DEF Spec

-----------------------------------------------------------------------------
(* What the walks over the history find.                                   *)

(* All positions of a walk are on it.                                      *)
LEMMA WalkStaysOn ==
  ASSUME NEW N \in Nat, NEW on \in SUBSET (1 .. N)
  PROVE  Walk(on) \in 0 .. N /\ 1 .. Walk(on) \subseteq on
  <1> DEFINE W == {p \in on : 1 .. p \subseteq on}
  <1>1. IsFiniteSet(W) /\ W \subseteq 1 .. N
    <2>1. W \in SUBSET (1 .. N)
      OBVIOUS
    <2>2. IsFiniteSet(1 .. N)
      BY FS_Interval
    <2> QED
      BY <2>1, <2>2, FS_Subset
  <1>2. Walk(on) = Cardinality(W) /\ Walk(on) \in Nat
    BY <1>1, FS_CardinalityType DEF Walk
  <1>3. ASSUME NEW p \in W PROVE p \in 1 .. Walk(on)
    <2>1. 1 .. p \subseteq W
      OBVIOUS
    <2>2. Cardinality(1 .. p) = p /\ Cardinality(1 .. p) <= Cardinality(W)
      BY <1>1, <2>1, FS_Interval, FS_Subset
    <2> QED
      BY <1>2, <2>2
  <1>4. W = 1 .. Walk(on)
    <2>1. Cardinality(1 .. Walk(on)) = Cardinality(W) /\ IsFiniteSet(1 .. Walk(on))
      BY <1>2, FS_Interval
    <2>2. W \in SUBSET (1 .. Walk(on))
      BY <1>3
    <2> HIDE DEF W
    <2>3. PICK S : S = 1 .. Walk(on)
      OBVIOUS
    <2>4. IsFiniteSet(S) /\ W \in SUBSET S /\ Cardinality(S) = Cardinality(W)
      BY <2>1, <2>2, <2>3
    <2> QED
      BY <2>3, <2>4, FS_Subset
  <1>5. Walk(on) <= N
    <2>1. IsFiniteSet(1 .. N) /\ Cardinality(1 .. N) = N
      BY FS_Interval
    <2>2. Cardinality(W) <= Cardinality(1 .. N)
      <3> HIDE DEF W
      <3> QED
        BY <1>1, <2>1, FS_Subset
    <2> QED
      BY <1>2, <2>1, <2>2
  <1> QED
    BY <1>2, <1>4, <1>5

(* Position p of the history is the print that p prints are as new as.     *)
From(H, i) == {j \in H : j >= i}

LEMMA FromType ==
  ASSUME NEW H \in SUBSET Nat, IsFiniteSet(H), NEW i \in H
  PROVE  IsFiniteSet(From(H, i)) /\ Cardinality(From(H, i)) \in 1 .. Cardinality(H)
  <1>1. From(H, i) \in SUBSET H /\ i \in From(H, i)
    BY DEF From
  <1>2. IsFiniteSet(From(H, i)) /\ Cardinality(From(H, i)) <= Cardinality(H)
    BY <1>1, FS_Subset
  <1>3. Cardinality(From(H, i)) \in Nat /\ Cardinality(From(H, i)) # 0
    BY <1>1, <1>2, FS_CardinalityType, FS_EmptySet
  <1> QED
    BY <1>2, <1>3, FS_CardinalityType

LEMMA FromOrder ==
  ASSUME NEW H \in SUBSET Nat, IsFiniteSet(H), NEW i \in H, NEW j \in H, i < j
  PROVE  Cardinality(From(H, j)) < Cardinality(From(H, i))
  <1>1. From(H, j) \in SUBSET From(H, i) /\ i \in From(H, i) /\ i \notin From(H, j)
    <2>1. i \in Nat /\ j \in Nat /\ \A x \in H : x \in Nat
      OBVIOUS
    <2>2. \A x \in H : x >= j => x >= i
      BY <2>1
    <2>3. i >= i /\ ~(i >= j)
      BY <2>1
    <2> QED
      BY <2>2, <2>3 DEF From
  <1> QED
    BY <1>1, FromType, FS_Subset

LEMMA NewestType ==
  ASSUME NEW H \in SUBSET Nat, IsFiniteSet(H), NEW h, h = Newest(H)
  PROVE  /\ Cardinality(H) \in Nat /\ DOMAIN h = 1 .. Cardinality(H)
         /\ \A p \in DOMAIN h : h[p] \in H /\ Cardinality(From(H, h[p])) = p
         /\ \A i \in H : h[Cardinality(From(H, i))] = i
  <1> DEFINE N    == Cardinality(H)
             rank == [i \in H |-> Cardinality(From(H, i))]
  <1>1. N \in Nat /\ IsFiniteSet(1 .. N) /\ Cardinality(1 .. N) = N
    BY FS_CardinalityType, FS_Interval
  <1>2. rank \in Injection(H, 1 .. N)
    <2>1. rank \in [H -> 1 .. N]
      BY FromType
    <2>2. ASSUME NEW i \in H, NEW j \in H, rank[i] = rank[j] PROVE i = j
      <3>1. ~(i < j) /\ ~(j < i)
        BY <2>2, FromType, FromOrder
      <3> QED
        BY <3>1
    <2> QED
      BY <2>1, <2>2 DEF Injection, IsInjective
  <1>3. rank \in Surjection(H, 1 .. N)
    BY <1>1, <1>2, FS_Injection
  <1>4. DOMAIN h = 1 .. N
    BY DEF Newest
  <1>5. ASSUME NEW p \in 1 .. N PROVE h[p] \in H /\ Cardinality(From(H, h[p])) = p
    <2>1. \E i \in H : Cardinality(From(H, i)) = p
      BY <1>3 DEF Surjection
    <2>2. h[p] = CHOOSE i \in H : Cardinality(From(H, i)) = p
      BY DEF Newest, From
    <2> QED
      BY <2>1, <2>2
  <1>6. ASSUME NEW i \in H PROVE h[Cardinality(From(H, i))] = i
    <2>1. Cardinality(From(H, i)) \in 1 .. N
      BY FromType
    <2>2. PICK j \in H : j = h[Cardinality(From(H, i))] /\ rank[j] = rank[i]
      BY <1>5, <2>1
    <2> QED
      BY <1>2, <2>2 DEF Injection, IsInjective
  <1> QED
    BY <1>1, <1>4, <1>5, <1>6

(* The last n prints are the first n positions.                            *)
LEMMA LastPositions ==
  ASSUME NEW H \in SUBSET Nat, IsFiniteSet(H), NEW n \in Nat, NEW i \in Last(H, n)
  PROVE  i \in H /\ Cardinality(From(H, i)) \in 1 .. n
  <1> DEFINE After == {j \in H : j > i}
  <1>1. i \in H /\ Cardinality(After) < n
    BY DEF Last
  <1>2. From(H, i) = After \cup {i} /\ i \notin After
    <2>1. i \in Nat /\ \A x \in H : x \in Nat
      BY <1>1
    <2>2. ~(i > i) /\ \A x \in H : x >= i <=> x > i \/ x = i
      BY <2>1
    <2> QED
      BY <1>1, <2>1, <2>2 DEF From
  <1>3. IsFiniteSet(After) /\ Cardinality(After) \in Nat
    <2>1. After \in SUBSET H
      OBVIOUS
    <2> QED
      BY <2>1, FS_Subset, FS_CardinalityType
  <1> HIDE DEF After
  <1>4. Cardinality(From(H, i)) = Cardinality(After) + 1
    BY <1>2, <1>3, FS_AddElement
  <1> QED
    BY <1>1, <1>3, <1>4

(* Of two prints with none between them, the newer has the position before. *)
LEMMA Neighbours ==
  ASSUME NEW H \in SUBSET Nat, IsFiniteSet(H), NEW i \in H, NEW j \in H, Follows(i, j, H)
  PROVE  Cardinality(From(H, i)) = Cardinality(From(H, j)) + 1
  <1>1. From(H, i) = From(H, j) \cup {i} /\ i \notin From(H, j)
    <2>1. i \in Nat /\ j \in Nat /\ \A x \in H : x \in Nat
      OBVIOUS
    <2>2. ~(i >= j) /\ \A x \in H : x >= i <=> x >= j \/ x = i
      BY <2>1 DEF Follows
    <2> QED
      BY <2>1, <2>2 DEF From
  <1>2. IsFiniteSet(From(H, j))
    BY FromType
  <1> QED
    BY <1>1, <1>2, FS_AddElement

(* The first and the last position.                                        *)
LEMMA EndsOfHistory ==
  ASSUME NEW H \in SUBSET Nat, IsFiniteSet(H), H # {}
  PROVE  /\ Latest(H) \in H /\ \A j \in H : Latest(H) >= j
         /\ Earliest(H) \in H
         /\ 1 \in DOMAIN Newest(H) /\ Newest(H)[1] = Latest(H)
  <1> PICK h : h = Newest(H)
    OBVIOUS
  <1>1. Cardinality(H) \in Nat \ {0} /\ DOMAIN h = 1 .. Cardinality(H)
    BY NewestType, FS_EmptySet
  <1>2. /\ h[1] \in H /\ Cardinality(From(H, h[1])) = 1
        /\ h[Cardinality(H)] \in H /\ Cardinality(From(H, h[Cardinality(H)])) = Cardinality(H)
    BY <1>1, NewestType
  <1>3. PICK new \in H : new = h[1] /\ Cardinality(From(H, new)) = 1
    BY <1>2
  <1>4. PICK old \in H : old = h[Cardinality(H)] /\ Cardinality(From(H, old)) = Cardinality(H)
    BY <1>2
  <1>5. ASSUME NEW j \in H PROVE new >= j
    <2>1. ~(new < j)
      <3> SUFFICES ASSUME new < j PROVE FALSE
        OBVIOUS
      <3>1. Cardinality(From(H, j)) < Cardinality(From(H, new))
        BY FromOrder
      <3>2. Cardinality(From(H, j)) \in 1 .. Cardinality(H)
        BY FromType
      <3> QED
        BY <1>1, <1>3, <3>1, <3>2
    <2>2. new \in Nat /\ j \in Nat
      OBVIOUS
    <2> QED
      BY <2>1, <2>2
  <1>6. ASSUME NEW j \in H PROVE old <= j
    <2>1. From(H, old) \in SUBSET H
      BY DEF From
    <2>2. From(H, old) = H
      BY <1>4, <2>1, FS_Subset
    <2>3. old \in Nat /\ j \in Nat /\ j \in From(H, old)
      BY <2>2
    <2> QED
      BY <2>3 DEF From
  <1>7. Latest(H) \in H /\ \A j \in H : Latest(H) >= j
    BY <1>5 DEF Latest
  <1>8. Earliest(H) \in H
    BY <1>6 DEF Earliest
  <1>9. new = Latest(H)
    <2>1. new \in Nat /\ Latest(H) \in Nat /\ new >= Latest(H) /\ Latest(H) >= new
      BY <1>5, <1>7
    <2> QED
      BY <2>1
  <1> QED
    BY <1>1, <1>3, <1>7, <1>8, <1>9

(* What a walk counts, of a history that ends with the print i.            *)
LEMMA ForecastRunTrue ==
  ASSUME NEW H \in SUBSET Nat, IsFiniteSet(H), NEW i \in H, \A j \in H : j <= i
  PROVE  /\ ForecastRun(Newest(H)) \in 0 .. Cardinality(H)
         /\ \A j \in Last(H, ForecastRun(Newest(H))) : Surprise(j) = Surprise(i)
  <1> PICK h : h = Newest(H)
    OBVIOUS
  <1> DEFINE on == {p \in DOMAIN h : Surprise(h[p]) = Surprise(h[1])}
  <1>1. Cardinality(H) \in Nat /\ DOMAIN h = 1 .. Cardinality(H)
    BY NewestType
  <1>2. h[1] = i
    <2>1. i \in Nat /\ Latest(H) \in Nat /\ Latest(H) >= i /\ Latest(H) <= i
      BY EndsOfHistory
    <2> QED
      BY <2>1, EndsOfHistory
  <1>3. ForecastRun(h) = Walk(on)
    BY DEF ForecastRun
  <1>4. Walk(on) \in 0 .. Cardinality(H) /\ 1 .. Walk(on) \subseteq on
    <2>1. on \in SUBSET (1 .. Cardinality(H))
      BY <1>1
    <2> HIDE DEF on
    <2> QED
      BY <1>1, <2>1, WalkStaysOn
  <1>5. ASSUME NEW j \in Last(H, Walk(on)) PROVE Surprise(j) = Surprise(i)
    <2>1. PICK p \in 1 .. Walk(on) : j \in H /\ p = Cardinality(From(H, j))
      BY <1>4, LastPositions
    <2>2. h[p] = j /\ p \in on
      BY <1>4, <2>1, NewestType
    <2> QED
      BY <1>2, <2>2
  <1> QED
    BY <1>3, <1>4, <1>5

LEMMA MoveRunTrue ==
  ASSUME NEW H \in SUBSET Nat, IsFiniteSet(H), NEW n, n = MoveRun(Newest(H)),
         NEW steps,
         steps = {p \in Last(H, n + 1) \X Last(H, n + 1) : Follows(p[1], p[2], H)}
  PROVE  /\ n \in Nat
         /\ n > 0 =>
              /\ n <= Cardinality(H) - 1
              /\ \/ \A p \in steps : Actual[p[1]] < Actual[p[2]]
                 \/ \A p \in steps : Actual[p[1]] > Actual[p[2]]
  <1> PICK h : h = Newest(H)
    OBVIOUS
  <1> DEFINE on == {p \in DOMAIN h : p + 1 \in DOMAIN h /\ Step(h, p) # 0
                                     /\ Step(h, p) = Step(h, 1)}
  <1>1. Cardinality(H) \in Nat /\ DOMAIN h = 1 .. Cardinality(H)
    BY NewestType
  <1>2. n \in 0 .. Cardinality(H) /\ 1 .. n \subseteq on
    <2>1. on \in SUBSET (1 .. Cardinality(H)) /\ n = Walk(on)
      BY <1>1 DEF MoveRun
    <2> HIDE DEF on
    <2> QED
      BY <1>1, <2>1, WalkStaysOn
  <1> SUFFICES ASSUME n > 0
               PROVE  /\ n <= Cardinality(H) - 1
                      /\ \/ \A p \in steps : Actual[p[1]] < Actual[p[2]]
                         \/ \A p \in steps : Actual[p[1]] > Actual[p[2]]
    BY <1>2
  <1>3. n <= Cardinality(H) - 1
    <2>1. n \in on
      BY <1>2
    <2> QED
      BY <1>1, <2>1
  <1>4. \A p \in 1 .. n : Step(h, p) = Step(h, 1) /\ Step(h, p) # 0
    BY <1>2
  <1>5. ASSUME NEW p \in steps
        PROVE  \E q \in 1 .. n : p[2] = h[q] /\ p[1] = h[q + 1]
    <2>1. PICK i \in Last(H, n + 1), j \in Last(H, n + 1) :
              p[1] = i /\ p[2] = j /\ Follows(i, j, H)
      OBVIOUS
    <2>2. PICK a \in 1 .. n + 1, b \in 1 .. n + 1 :
              /\ i \in H /\ j \in H
              /\ a = Cardinality(From(H, i)) /\ b = Cardinality(From(H, j))
      BY <1>2, LastPositions
    <2>3. a = b + 1
      BY <2>1, <2>2, Neighbours
    <2>4. h[a] = i /\ h[b] = j
      BY <2>2, NewestType
    <2> QED
      BY <1>2, <2>1, <2>2, <2>3, <2>4
  <1>6. CASE Step(h, 1) = 1
    <2>1. \A q \in 1 .. n : Actual[h[q]] > Actual[h[q + 1]]
      BY <1>4, <1>6 DEF Step
    <2> QED
      BY <1>3, <1>5, <2>1
  <1>7. CASE Step(h, 1) # 1
    <2>1. \A q \in 1 .. n : Actual[h[q]] < Actual[h[q + 1]]
      BY <1>4, <1>7 DEF Step
    <2> QED
      BY <1>3, <1>5, <2>1
  <1> QED
    BY <1>6, <1>7

-----------------------------------------------------------------------------
(* What the AI is told.                                                    *)

(* The claims of ClaimsAreTrue about one print.                            *)
Claims(f, i) ==
    LET H == f.basis
        steps(n) == {p \in Last(H, n + 1) \X Last(H, n + 1) : Follows(p[1], p[2], H)}
    IN  /\ f.forecast > 0 =>
             /\ Cardinality(H) >= 3 /\ f.forecast \in 2 .. Cardinality(H)
             /\ \A j \in Last(H, f.forecast) :
                   IF Surprise(i) = "HIGHER" THEN Actual[j] > Forecast[j]
                                             ELSE Actual[j] < Forecast[j]
        /\ f.moves > 0 =>
             /\ Cardinality(H) >= 3 /\ f.moves \in 2 .. Cardinality(H) - 1
             /\ \/ \A p \in steps(f.moves) : Actual[p[1]] < Actual[p[2]]
                \/ \A p \in steps(f.moves) : Actual[p[1]] > Actual[p[2]]
        /\ f.extreme # "none" =>
             /\ Cardinality(H) >= 6 /\ i \in H
             /\ \/ \A j \in H \ {i} : Actual[i] > Actual[j]
                \/ \A j \in H \ {i} : Actual[i] < Actual[j]

(* What may be told of i: claims about its series up to itself.            *)
TrueOf(f, i) ==
    /\ f.basis \subseteq PrintsOf(Key(i)) /\ \A j \in f.basis : j <= i
    /\ Claims(f, i)

LEMMA SilenceTrue ==
  ASSUME NEW i
  PROVE  Silence \in Fact /\ TrueOf(Silence, i)
  <1>1. Silence \in Fact
    BY DEF Silence, Fact
  <1>2. /\ Silence.basis = {} /\ ~(Silence.forecast > 0) /\ ~(Silence.moves > 0)
        /\ Silence.extreme = "none"
    BY DEF Silence
  <1> QED
    BY <1>1, <1>2 DEF TrueOf, Claims

LEMMA FactsTrue ==
  ASSUME NEW i \in Items, NEW H \in SUBSET Items, i \in H, \A j \in H : j <= i
  PROVE  Facts(i, H) \in Fact /\ Claims(Facts(i, H), i) /\ Facts(i, H).basis = H
  <1> USE IndicatorAssumption
  <1>1. H \in SUBSET Nat /\ IsFiniteSet(H)
    BY FS_Subset
  <1>2. PICK total \in Nat : total = Cardinality(H)
    BY <1>1, FS_CardinalityType
  <1>3. PICK run \in 0 .. total : run = ForecastRun(Newest(H))
    BY <1>1, <1>2, ForecastRunTrue
  <1>4. \A j \in Last(H, run) : Surprise(j) = Surprise(i)
    BY <1>1, <1>3, ForecastRunTrue
  <1>5. PICK n : n = MoveRun(Newest(H))
    OBVIOUS
  <1>6. PICK steps :
            steps = {p \in Last(H, n + 1) \X Last(H, n + 1) : Follows(p[1], p[2], H)}
    OBVIOUS
  <1>7. n \in Nat
    BY <1>1, <1>5, <1>6, MoveRunTrue
  <1>8. n > 0 => /\ n <= total - 1
                 /\ \/ \A p \in steps : Actual[p[1]] < Actual[p[2]]
                    \/ \A p \in steps : Actual[p[1]] > Actual[p[2]]
    BY <1>1, <1>2, <1>5, <1>6, MoveRunTrue
  <1>9. PICK f : f = Facts(i, H)
    OBVIOUS
  <1>10. /\ f.forecast = IF Surprise(i) \in {"HIGHER", "LOWER"} THEN Claim(run, total) ELSE 0
         /\ f.moves = Claim(n, total) /\ f.extreme = Extreme(i, H)
         /\ f.revision = (prints[i].revises # None) /\ f.basis = H
         /\ f = [forecast |-> f.forecast, moves |-> f.moves, extreme |-> f.extreme,
                 revision |-> f.revision, basis |-> f.basis]
    BY <1>2, <1>3, <1>5, <1>9 DEF Facts
  <1>11. f \in Fact
    <2>1. f.forecast \in Nat /\ f.moves \in Nat
      BY <1>7, <1>10 DEF Claim
    <2>2. f.extreme \in {"none", "highest", "lowest"}
      BY <1>10 DEF Extreme
    <2>3. f.revision \in BOOLEAN
      BY <1>10
    <2> QED
      BY <1>10, <2>1, <2>2, <2>3 DEF Fact
  <1>12. ASSUME f.forecast > 0
         PROVE  /\ total >= 3 /\ f.forecast \in 2 .. total
                /\ \A j \in Last(H, f.forecast) :
                      IF Surprise(i) = "HIGHER" THEN Actual[j] > Forecast[j]
                                                ELSE Actual[j] < Forecast[j]
    <2>1. /\ Surprise(i) \in {"HIGHER", "LOWER"} /\ f.forecast = run
          /\ run >= 2 /\ total >= 3
      BY <1>10, <1>12 DEF Claim, MinPrintsForStreak
    <2>2. ASSUME NEW j \in Last(H, run)
          PROVE  IF Surprise(i) = "HIGHER" THEN Actual[j] > Forecast[j]
                                           ELSE Actual[j] < Forecast[j]
      <3>1. j \in Items /\ Surprise(j) = Surprise(i)
        BY <1>4 DEF Last
      <3>2. /\ Actual[j] \in Int \cup {NoFigure} /\ Forecast[j] \in Int \cup {NoFigure}
            /\ Actual[j] # NoFigure /\ Forecast[j] # NoFigure
        BY <2>1, <3>1 DEF Surprise
      <3> QED
        BY <2>1, <3>1, <3>2 DEF Surprise
    <2> QED
      BY <2>1, <2>2
  <1>13. ASSUME f.moves > 0
         PROVE  /\ total >= 3 /\ f.moves \in 2 .. total - 1
                /\ f.moves = n
                /\ \/ \A p \in steps : Actual[p[1]] < Actual[p[2]]
                   \/ \A p \in steps : Actual[p[1]] > Actual[p[2]]
    BY <1>7, <1>8, <1>10, <1>13 DEF Claim, MinPrintsForStreak
  <1>14. ASSUME f.extreme # "none"
         PROVE  /\ total >= 6
                /\ \/ \A j \in H \ {i} : Actual[i] > Actual[j]
                   \/ \A j \in H \ {i} : Actual[i] < Actual[j]
    <2>1. ~(total < 6)
      BY <1>2, <1>10, <1>14 DEF Extreme, MinPrintsForExtreme
    <2> QED
      BY <1>10, <1>14, <2>1 DEF Extreme
  <1>15. Claims(f, i)
    <2>1. f.basis = H
      BY <1>10
    <2>2. f.forecast > 0 =>
             /\ Cardinality(H) >= 3 /\ f.forecast \in 2 .. Cardinality(H)
             /\ \A j \in Last(H, f.forecast) :
                   IF Surprise(i) = "HIGHER" THEN Actual[j] > Forecast[j]
                                             ELSE Actual[j] < Forecast[j]
      BY <1>2, <1>12
    <2>3. f.moves > 0 =>
             /\ Cardinality(H) >= 3 /\ f.moves \in 2 .. Cardinality(H) - 1
             /\ f.moves = n
             /\ \/ \A p \in steps : Actual[p[1]] < Actual[p[2]]
                \/ \A p \in steps : Actual[p[1]] > Actual[p[2]]
      BY <1>2, <1>13
    <2>4. f.extreme # "none" =>
             /\ Cardinality(H) >= 6 /\ i \in H
             /\ \/ \A j \in H \ {i} : Actual[i] > Actual[j]
                \/ \A j \in H \ {i} : Actual[i] < Actual[j]
      BY <1>2, <1>14
    <2> QED
      BY <1>6, <2>1, <2>2, <2>3, <2>4 DEF Claims
  <1> QED
    BY <1>9, <1>10, <1>11, <1>15

(* Whatever the context reads is true of a stored print of a series.       *)
LEMMA ContextTrue ==
  ASSUME NEW i \in Stored, NEW row
  PROVE  /\ Context(i, History(i), row) \in Fact
         /\ TrueOf(Context(i, History(i), row), i)
  <1> PICK H : H = History(i)
    OBVIOUS
  <1>1. i \in Items /\ H \in SUBSET Items /\ i \in H /\ \A j \in H : j <= i
    BY IndicatorAssumption DEF History, PrintsOf, Stored
  <1>2. H \subseteq PrintsOf(Key(i))
    BY DEF History
  <1>3. PICK f : f = [Silence EXCEPT !.revision = TRUE, !.basis = H]
    OBVIOUS
  <1>4. f \in Fact /\ TrueOf(f, i)
    <2>1. /\ f.basis = H /\ ~(f.forecast > 0) /\ ~(f.moves > 0)
          /\ f.extreme = "none"
      BY <1>3 DEF Silence
    <2>2. f \in Fact
      BY <1>1, <1>3 DEF Silence, Fact
    <2> QED
      BY <1>1, <1>2, <2>1, <2>2 DEF TrueOf, Claims
  <1>5. Facts(i, H) \in Fact /\ TrueOf(Facts(i, H), i)
    BY <1>1, <1>2, FactsTrue DEF TrueOf
  <1>6. Context(i, H, row) \in {Silence, f, Facts(i, H)}
    BY <1>3 DEF Context
  <1> QED
    BY <1>4, <1>5, <1>6, SilenceTrue

-----------------------------------------------------------------------------
(* Types and claims.                                                       *)

(* A task that is to read its history has a stored print; the backfill     *)
(* reads none.                                                             *)
ToldInv ==
    /\ ClaimsAreTrue
    /\ \A t \in Tasks : pc[t] = "history" => item[t] \in Stored
    /\ pc[Backfill] \notin {"macro", "history"}

LEMMA ClaimsOfTasks == ClaimsAreTrue <=> \A t \in Tasks : TrueOf(told[t], ItemOf[t])
  BY DEF ClaimsAreTrue, TrueOf, Claims

LEMMA ItemOfTask ==
  ASSUME Inv, NEW t \in Tasks
  PROVE  t \in Writers /\ t # Backfill /\ item[t] = ItemOf[t] /\ ItemOf[t] \in Items
  BY IndicatorAssumption DEF Inv, Holds, Writers

LEMMA InitTold == Init => TypeOK /\ ToldInv
  <1> SUFFICES ASSUME Init PROVE TypeOK /\ ToldInv
    OBVIOUS
  <1> USE IndicatorAssumption
  <1>1. TypeOK
    <2>1. series \in [Keys -> Row \cup {NoSeries}] /\ read \in [Writers -> Row \cup {NoSeries}]
      BY InitInv DEF Inv, Shape
    <2>2. told \in [Tasks -> Fact]
      BY SilenceTrue DEF Init
    <2>3. item \in [Writers -> Items \cup {None}]
      BY DEF Init, Writers
    <2>4. /\ prints \in [Items -> [stored : BOOLEAN, revises : Items \cup {None}]]
          /\ replayable \subseteq Items
      BY DEF Init
    <2>5. pc \in [Writers -> {"idle", "check", "series", "commit", "macro", "history",
                             "reply", "next", "count", "done"}]
      BY DEF Init
    <2>6. /\ todo \subseteq Items /\ expired \in BOOLEAN /\ raced \subseteq Keys
          /\ report \in [recorded : SUBSET Items, already : SUBSET Items,
                         failed : SUBSET Items]
          /\ failed \subseteq Items
      BY DEF Init
    <2>7. dbFaults \in 0 .. MaxDbFaults
      BY DEF Init
    <2> QED
      BY <2>1, <2>2, <2>3, <2>4, <2>5, <2>6, <2>7 DEF TypeOK
  <1>2. ClaimsAreTrue
    BY SilenceTrue, ClaimsOfTasks DEF Init
  <1> QED
    BY <1>1, <1>2 DEF ToldInv, Init, Writers

(* The item and the label of a writer that records.                        *)
LEMMA RecordType ==
  ASSUME Inv, Inv', TypeOK, ToldInv, NEW w \in Writers, Record(w)
  PROVE  TypeOK'
  <1> USE IndicatorAssumption
  <1>1. /\ item' = item /\ told' = told /\ todo' = todo /\ replayable' = replayable
        /\ series' \in [Keys -> Row \cup {NoSeries}]
        /\ read' \in [Writers -> Row \cup {NoSeries}]
    BY DEF Inv, Shape, Record, Skip, Check, ReadSeries, Commit, LostRace, StageFails,
       database, script
  <1>2. pc' \in [Writers -> {"idle", "check", "series", "commit", "macro", "history",
                             "reply", "next", "count", "done"}]
    BY DEF TypeOK, Record, Skip, Check, ReadSeries, Commit, LostRace, StageFails,
       Leave, RolledBack, Goto
  <1>3. expired' \in BOOLEAN
    <2>1. expired' = expired \/ expired' = (expired \/ w = Backfill)
      BY DEF Record, Skip, Check, ReadSeries, Commit, LostRace, StageFails, RolledBack, script
    <2> QED
      BY <2>1 DEF TypeOK
  <1>4. item[w] \in Items \/ pc[w] \notin {"check", "series", "commit", "macro", "history"}
    BY ItemOfTask DEF Inv, Holds, Writers, ToldInv
  <1>5. dbFaults' \in 0 .. MaxDbFaults
    BY DEF TypeOK, Record, Skip, Check, ReadSeries, Commit, LostRace, StageFails
  <1>6. /\ failed' \subseteq Items
        /\ report' \in [recorded : SUBSET Items, already : SUBSET Items, failed : SUBSET Items]
    <2>1. pc[w] \in {"check", "series", "commit", "macro", "history"}
      BY DEF Record, Skip, Check, ReadSeries, Commit, LostRace, StageFails
    <2>2. failed' = failed \/ failed' = failed \cup {item[w]}
      BY DEF Record, Skip, Check, ReadSeries, Commit, LostRace, StageFails
    <2>3. report' = report \/ report' = [report EXCEPT !.failed = @ \cup {item[w]}]
      BY DEF Record, Skip, Check, ReadSeries, Commit, LostRace, StageFails, Reported, script
    <2> QED
      BY <1>4, <2>1, <2>2, <2>3 DEF TypeOK
  <1>7. prints' \in [Items -> [stored : BOOLEAN, revises : Items \cup {None}]]
    <2>1. CASE Commit(w)
      <3>1. PICK i \in Items : i = item[w]
        BY <1>4, <2>1 DEF Commit
      <3>2. Revised(i) \in Items \cup {None}
        <4>1. PICK H : H = PrintsOf(Key(i))
          OBVIOUS
        <4>2. H \in SUBSET Nat /\ IsFiniteSet(H) /\ H \subseteq Items
          <5>1. H \in SUBSET Items
            BY <4>1 DEF PrintsOf, Stored
          <5> QED
            BY <5>1, FS_Subset
        <4>3. H # {} => Latest(H) \in Items
          BY <4>2, EndsOfHistory
        <4> QED
          BY <4>1, <4>3 DEF Revised
      <3> QED
        BY <2>1, <3>1, <3>2 DEF Commit, TypeOK
    <2>2. CASE ~Commit(w)
      BY <2>2 DEF TypeOK, Record, Skip, Check, ReadSeries, LostRace, StageFails, database
    <2> QED
      BY <2>1, <2>2
  <1>8. raced' \subseteq Keys
    <2>1. CASE Commit(w)
      <3>1. PICK k : k = Key(item[w]) /\ (k # None => k \in Keys)
        BY <2>1, KeyType DEF Commit, Inv, Holds
      <3>2. raced' \subseteq raced \cup {k} /\ (k = None => raced' = raced)
        BY <2>1, <3>1 DEF Commit
      <3> QED
        BY <3>1, <3>2 DEF TypeOK
    <2>2. CASE ~Commit(w)
      BY <2>2 DEF TypeOK, Record, Skip, Check, ReadSeries, LostRace, StageFails
    <2> QED
      BY <2>1, <2>2
  <1> QED
    BY <1>1, <1>2, <1>3, <1>5, <1>6, <1>7, <1>8 DEF TypeOK

LEMMA ReaderType ==
  ASSUME Inv, Inv', TypeOK, ToldInv, NEW t \in Tasks,
         MacroSeries(t) \/ MacroFacts(t) \/ Finish(t)
  PROVE  TypeOK'
  <1>1. /\ series' \in [Keys -> Row \cup {NoSeries}]
        /\ read' \in [Writers -> Row \cup {NoSeries}]
    BY DEF Inv, Shape
  <1>2. told' \in [Tasks -> Fact]
    <2>1. CASE MacroFacts(t)
      <3>1. PICK i \in Stored : i = item[t]
        BY <2>1 DEF MacroFacts, ToldInv
      <3>2. Context(i, History(i), read[t]) \in Fact
        BY ContextTrue
      <3> QED
        BY <2>1, <3>1, <3>2 DEF MacroFacts, TypeOK
    <2>2. CASE MacroSeries(t) \/ Finish(t)
      BY <2>2, SilenceTrue DEF MacroSeries, Finish, TypeOK
    <2> QED
      BY <2>1, <2>2
  <1>3. replayable' \subseteq Items
    BY ItemOfTask DEF MacroSeries, MacroFacts, Finish, database, TypeOK
  <1>4. pc' \in [Writers -> {"idle", "check", "series", "commit", "macro", "history",
                             "reply", "next", "count", "done"}]
    BY DEF TypeOK, MacroSeries, MacroFacts, Finish, Goto
  <1> QED
    BY <1>1, <1>2, <1>3, <1>4 DEF TypeOK, MacroSeries, MacroFacts, Finish, database, script

LEMMA ScriptType ==
  ASSUME Inv, Inv', TypeOK, Scan \/ Replay \/ Count \/ Over
  PROVE  TypeOK'
  <1> USE IndicatorAssumption
  <1>1. /\ series' \in [Keys -> Row \cup {NoSeries}]
        /\ read' \in [Writers -> Row \cup {NoSeries}]
    BY DEF Inv, Shape
  <1>2. pc' \in [Writers -> {"idle", "check", "series", "commit", "macro", "history",
                             "reply", "next", "count", "done"}]
    BY DEF TypeOK, Scan, Replay, Count, Over, Goto
  <1>3. /\ prints' = prints /\ told' = told /\ replayable' = replayable
        /\ expired' = expired /\ raced' = raced /\ failed' = failed /\ dbFaults' = dbFaults
    BY DEF Scan, Replay, Count, Over, database, script
  <1>4. CASE Scan \/ Over
    BY <1>1, <1>2, <1>3, <1>4 DEF Scan, Over, TypeOK, script
  <1>5. CASE Replay
    <2>1. PICK i : i = Earliest(todo)
      OBVIOUS
    <2>2. i \in Items
      <3>1. todo \in SUBSET Items /\ todo # {}
        BY <1>5 DEF Replay, TypeOK
      <3>2. todo \in SUBSET Nat /\ IsFiniteSet(todo)
        BY <3>1, FS_Subset
      <3> QED
        BY <2>1, <3>1, <3>2, EndsOfHistory
    <2>3. item' \in [Writers -> Items \cup {None}]
      BY <1>5, <2>1, <2>2 DEF Replay, TypeOK
    <2>4. /\ todo' \subseteq Items
          /\ report' \in [recorded : SUBSET Items, already : SUBSET Items,
                          failed : SUBSET Items]
      BY <1>5, <2>1, <2>2 DEF Replay, TypeOK
    <2> QED
      BY <1>1, <1>2, <1>3, <2>3, <2>4 DEF TypeOK
  <1>6. CASE Count
    <2>1. item[Backfill] \in Items
      BY <1>6 DEF Count, Inv, Holds, Writers
    <2>2. report' \in [recorded : SUBSET Items, already : SUBSET Items, failed : SUBSET Items]
      BY <1>6, <2>1 DEF Count, TypeOK
    <2> QED
      BY <1>1, <1>2, <1>3, <1>6, <2>2 DEF Count, TypeOK
  <1> QED
    BY <1>4, <1>5, <1>6

(* Prints are never taken back.                                            *)
LEMMA StoredKept ==
  ASSUME Inv, [Next]_vars
  PROVE  \A i \in Stored : i \in Stored'
  <1>1. ASSUME NEW w \in Writers, Commit(w) PROVE \A i \in Stored : i \in Stored'
    BY <1>1 DEF Commit, Inv, Shape, Stored
  <1>2. CASE \A w \in Writers : ~Commit(w)
    <2>1. prints' = prints
      BY <1>2 DEF Next, Record, Skip, Check, ReadSeries, LostRace, StageFails, MacroSeries,
         MacroFacts, Finish, Scan, Replay, Count, Over, Done, vars, database
    <2> QED
      BY <2>1 DEF Stored
  <1> QED
    BY <1>1, <1>2

LEMMA ToldKept ==
  ASSUME Inv, TypeOK, ToldInv, [Next]_vars
  PROVE  ToldInv'
  <1>1. ASSUME NEW f, NEW i, TrueOf(f, i)
        PROVE  f.basis \subseteq PrintsOf(Key(i))' /\ (\A j \in f.basis : j <= i) /\ Claims(f, i)
    BY <1>1, StoredKept DEF TrueOf, PrintsOf
  <1>2. ASSUME NEW t \in Tasks
        PROVE  \E f : /\ told'[t] = f
                      /\ f.basis \subseteq PrintsOf(Key(ItemOf[t]))'
                      /\ (\A j \in f.basis : j <= ItemOf[t]) /\ Claims(f, ItemOf[t])
    <2>1. told'[t] = told[t] \/ told'[t] = Silence \/ MacroFacts(t)
      BY DEF TypeOK, Next, Record, Skip, Check, ReadSeries, Commit, LostRace, StageFails,
         MacroSeries, MacroFacts, Finish, Scan, Replay, Count, Over, Done, vars
    <2>2. TrueOf(told[t], ItemOf[t]) /\ TrueOf(Silence, ItemOf[t])
      BY ClaimsOfTasks, SilenceTrue DEF ToldInv
    <2>3. CASE MacroFacts(t)
      <3>1. PICK i \in Stored : i = item[t] /\ i = ItemOf[t]
        BY <2>3, ItemOfTask DEF MacroFacts, ToldInv
      <3>2. PICK f : f = Context(i, History(i), read[t])
        OBVIOUS
      <3>3. told'[t] = f /\ TrueOf(f, i)
        BY <2>3, <3>1, <3>2, ContextTrue DEF MacroFacts, TypeOK
      <3> QED
        BY <1>1, <3>1, <3>3
    <2> QED
      BY <1>1, <2>1, <2>2, <2>3
  <1>3. ClaimsAreTrue'
    BY <1>2 DEF ClaimsAreTrue, Claims
  <1>4. ASSUME NEW t \in Tasks, pc'[t] = "history" PROVE item'[t] \in Stored'
    <2>1. CASE MacroSeries(t)
      <3>1. item' = item /\ prints' = prints /\ prints[item[t]].stored
        BY <1>4, <2>1 DEF MacroSeries, Goto, database, TypeOK, Writers
      <3> QED
        BY <3>1, ItemOfTask DEF Stored
    <2>2. CASE ~MacroSeries(t)
      <3>1. pc[t] = "history"
        BY <1>4, <2>2 DEF TypeOK, Writers, Next, Record, Skip, Check, ReadSeries, Commit,
           LostRace, StageFails, RolledBack, Leave, Goto,
           MacroSeries, MacroFacts, Finish, Scan, Replay, Count, Over, Done, vars
      <3>2. item'[t] = item[t]
        BY IndicatorAssumption DEF TypeOK, Writers, Next, Record, Skip, Check, ReadSeries,
           Commit, LostRace, StageFails,
           MacroSeries, MacroFacts, Finish, Scan, Replay, Count, Over, Done, vars
      <3> QED
        BY <3>1, <3>2, StoredKept DEF ToldInv
    <2> QED
      BY <2>1, <2>2
  <1>5. pc'[Backfill] \notin {"macro", "history"}
    <2>1. Backfill \in Writers /\ pc[Backfill] \notin {"macro", "history"}
          /\ DOMAIN pc = Writers /\ \A t \in Tasks : t # Backfill
      BY IndicatorAssumption DEF ToldInv, TypeOK, Writers
    <2>2. CASE Record(Backfill)
      BY <2>1, <2>2 DEF Record, Skip, Check, ReadSeries, Commit, LostRace, StageFails,
         RolledBack, Leave, Goto
    <2>3. ASSUME NEW w \in Writers, w # Backfill, Record(w)
          PROVE  pc'[Backfill] = pc[Backfill]
      BY <2>1, <2>3 DEF Record, Skip, Check, ReadSeries, Commit, LostRace, StageFails,
         RolledBack, Leave, Goto
    <2>4. ASSUME NEW t \in Tasks, MacroSeries(t) \/ MacroFacts(t) \/ Finish(t)
          PROVE  pc'[Backfill] = pc[Backfill]
      BY <2>1, <2>4 DEF MacroSeries, MacroFacts, Finish, Goto
    <2>5. CASE Scan \/ Replay \/ Count \/ Over
      BY <2>1, <2>5 DEF Scan, Replay, Count, Over, Goto
    <2>6. CASE UNCHANGED vars
      BY <2>1, <2>6 DEF vars
    <2> QED
      BY <2>1, <2>2, <2>3, <2>4, <2>5, <2>6 DEF Next, Done
  <1> QED
    BY <1>3, <1>4, <1>5 DEF ToldInv

LEMMA NextTold == Inv /\ TypeOK /\ ToldInv /\ [Next]_vars => TypeOK' /\ ToldInv'
  <1> SUFFICES ASSUME Inv, TypeOK, ToldInv, [Next]_vars PROVE TypeOK' /\ ToldInv'
    OBVIOUS
  <1>1. Inv'
    BY NextInv
  <1>2. TypeOK'
    <2>1. CASE UNCHANGED vars
      BY <2>1 DEF vars, database, script, TypeOK
    <2>2. CASE Next
      BY <1>1, <2>1, <2>2, RecordType, ReaderType, ScriptType DEF Next, Done
    <2> QED
      BY <2>1, <2>2
  <1> QED
    BY <1>2, ToldKept

(* Every variable of the indicator memory keeps its type, for any items,   *)
(* tasks and figures: what a task is told is a record of facts, a revision *)
(* names an item, and the counters are numbers (context.py:44-77).         *)
THEOREM TypeCorrect == Spec => []TypeOK
  BY InitInv, NextInv, InitTold, NextTold, PTL DEF Spec

(* Each streak and extreme the AI is told of is true of the prints of its  *)
(* series that were recorded by then, however many there are and whatever  *)
(* other writers recorded meanwhile (context.py:12-14, 133-194).           *)
THEOREM ClaimsCorrect == Spec => []ClaimsAreTrue
  <1>1. ToldInv => ClaimsAreTrue
    BY DEF ToldInv
  <1> QED
    BY <1>1, InitInv, NextInv, InitTold, NextTold, PTL DEF Spec
=============================================================================
