--------------------------- MODULE IndicatorMemory ---------------------------
(***************************************************************************)
(* Indicator memory and macro context, app/services/indicators: background *)
(* tasks, and the backfill script beside them, record the economic prints  *)
(* of news items in series, and each task then reads what the history says *)
(* about its own print.                                                    *)
(*                                                                         *)
(* Items are numbered in the order of their created_at, which is the       *)
(* print_at of their prints.  A figure is an integer, NoFigure the dash    *)
(* the source prints for a missing one: the extraction never finds some of *)
(* the three figures only.  Each await is a step.                          *)
(***************************************************************************)
EXTENDS Integers, FiniteSets

CONSTANTS
    Items, Tasks, ItemOf,  \* numbers; each task processes one item
    Backfill,              \* the writer that is no task
    Past, Recorded,        \* items of an earlier life; those with a print
    None, NoFigure,
    Structured,            \* items of the form Actual X (Forecast Y, Previous Z)
    Actual, Forecast,      \* their figures
    Country, Event,        \* classification, or None
    Variant,               \* Variant[i][axis]: the tokens of an axis found
    Unit, ForecastUnit,    \* unit classes of the figures
    Marked,                \* items with a correction marker
    MaxDbFaults            \* bound

ASSUME IndicatorAssumption ==
    /\ Items \subseteq Nat /\ IsFiniteSet(Items) /\ None \notin Items
    /\ ItemOf \in [Tasks -> Items \ Past] /\ Backfill \notin Tasks
    /\ Structured \subseteq Items /\ Past \subseteq Items
    /\ Recorded \subseteq (Past \cap Structured) \ Marked
    /\ {Actual, Forecast} \subseteq [Items -> Int \cup {NoFigure}]
    /\ NoFigure \notin Int
    /\ MaxDbFaults \in Nat

Writers  == Tasks \cup {Backfill}
Columns  == {"count", "mismatch", "unknown", "revisions"}
NoSeries == [c \in Columns |-> -1]
Silence  == [forecast |-> 0, moves |-> 0, extreme |-> "none",
             revision |-> FALSE, basis |-> {}]

VARIABLES
    series,      \* series[k]: the counters of the row with canonical key k
    prints,      \* prints[i]: the print of news item i
    replayable,  \* items that are PUBLISHED or AI_FAILED
    pc,          \* where each writer is
    item,        \* the item a writer works on
    read,        \* the series row as it was read
    told,        \* the MacroContext a task hands to the AI
    todo,        \* rows the backfill has still to replay
    report,      \* items of the backfill, by the way they are counted
    expired,     \* a rollback expired the rows the backfill holds
    raced,       \* history: series whose counters were written over
    failed,      \* history: items a statement failed for
    dbFaults     \* statements and commits that failed

database == <<series, prints, replayable>>
script   == <<todo, report, expired>>
vars     == <<database, pc, item, read, told, script, raced, failed, dbFaults>>

-----------------------------------------------------------------------------
(* identify_series: all components or none.  Two tokens on one axis are    *)
(* ambiguous; a figure always has a unit, the dash has none.               *)
Ambiguous(i) == \E axis \in DOMAIN Variant[i] : Cardinality(Variant[i][axis]) > 1
Key(i) ==
    IF Country[i] = None \/ Event[i] = None \/ Ambiguous(i) \/ Actual[i] = NoFigure
    THEN None ELSE <<Country[i], Event[i], Variant[i], Unit[i]>>
Keys   == {Key(i) : i \in Structured} \ {None}

Surprise(i) ==
    IF \/ NoFigure \in {Actual[i], Forecast[i]}
       \/ (Unit[i] = "PERCENT") # (ForecastUnit[i] = "PERCENT") THEN "UNKNOWN"
    ELSE IF Actual[i] = Forecast[i] THEN "MATCH"
    ELSE IF Actual[i] > Forecast[i] THEN "HIGHER" ELSE "LOWER"

(* The counters of its series that a print adds one to.                    *)
Counts(i) ==
    {c \in Columns :
        \/ c = "count"
        \/ c = "mismatch"  /\ Surprise(i) = "UNKNOWN" /\ Forecast[i] # NoFigure
        \/ c = "unknown"   /\ Surprise(i) = "UNKNOWN" /\ Forecast[i] = NoFigure
        \/ c = "revisions" /\ i \in Marked}

Stored    == {i \in Items : prints[i].stored}
PrintsOf(k) == {i \in Stored : Key(i) = k}
Earliest(S) == CHOOSE i \in S : \A j \in S : i <= j
Latest(S)   == CHOOSE i \in S : \A j \in S : i >= j

Init ==
    /\ prints = [i \in Items |-> [stored |-> i \in Recorded, revises |-> None]]
    /\ series = [k \in Keys |->
          IF \E i \in Recorded : Key(i) = k
          THEN [c \in Columns |->
                   Cardinality({i \in Recorded : Key(i) = k /\ c \in Counts(i)})]
          ELSE NoSeries]
    /\ replayable = Past
    /\ pc = [w \in Writers |-> IF w = Backfill THEN "idle" ELSE "check"]
    /\ item = [w \in Writers |-> IF w = Backfill THEN None ELSE ItemOf[w]]
    /\ read = [w \in Writers |-> NoSeries]
    /\ told = [t \in Tasks |-> Silence]
    /\ todo = {} /\ report = [recorded |-> {}, already |-> {}, failed |-> {}]
    /\ expired = FALSE /\ raced = {} /\ failed = {} /\ dbFaults = 0

-----------------------------------------------------------------------------
(* IndicatorMemoryEngine.record                                            *)
Goto(w, label) == pc' = [pc EXCEPT ![w] = label]

(* The end of record: the task reads its context, the script counts.       *)
Leave(w) ==
    /\ Goto(w, IF w = Backfill THEN "count" ELSE "macro")
    /\ read' = [read EXCEPT ![w] = NoSeries]

(* No actual figure, or recorded already.                                  *)
Skip(w) ==
    /\ pc[w] = "check"
    /\ item[w] \notin Structured \/ prints[item[w]].stored
    /\ Leave(w)
    /\ UNCHANGED <<database, item, told, script, raced, failed, dbFaults>>

Check(w) ==
    /\ pc[w] = "check"
    /\ item[w] \in Structured /\ ~prints[item[w]].stored
    /\ Goto(w, IF Key(item[w]) = None THEN "commit" ELSE "series")
    /\ UNCHANGED <<database, item, read, told, script, raced, failed, dbFaults>>

ReadSeries(w) ==
    /\ pc[w] = "series"
    /\ read' = [read EXCEPT ![w] = series[Key(item[w])]]
    /\ Goto(w, "commit")
    /\ UNCHANGED <<database, item, told, script, raced, failed, dbFaults>>

\* Mutant: a row that changed since it was read is a conflict as well.
MutConflict(w) ==
    \/ prints[item[w]].stored
    \/ Key(item[w]) # None /\ read[w] # series[Key(item[w])]

(* UNIQUE(news_id), and UNIQUE(canonical_key) for a series thought new.    *)
Conflict(w) ==
    \/ prints[item[w]].stored
    \/ Key(item[w]) # None /\ read[w] = NoSeries /\ series[Key(item[w])] # NoSeries

\* Mutant: the whole row is written as it was read.
MutWritten(w, row) ==
    [c \in Columns |-> IF read[w] = NoSeries
                       THEN IF c \in Counts(item[w]) THEN 1 ELSE 0
                       ELSE IF c \in Counts(item[w]) THEN read[w][c] + 1
                                                     ELSE read[w][c]]

\* Mutant: a new series starts with a count of one print too many.
MutFounded(w, row) ==
    [c \in Columns |-> IF c \in Counts(item[w])
                       THEN IF read[w] = NoSeries THEN 2 ELSE read[w][c] + 1
                       ELSE IF read[w] = NoSeries THEN 0 ELSE row[c]]

\* Mutant: the counters of a new series are not initialised.
MutUninitialised(w, row) ==
    [c \in Columns |-> IF c \in Counts(item[w]) THEN read[w][c] + 1 ELSE row[c]]

(* The row that is written: an insert of a new series; of an old one, only *)
(* the counters the print adds to, from their values as read.              *)
Written(w, row) ==
    [c \in Columns |-> IF c \in Counts(item[w])
                       THEN IF read[w] = NoSeries THEN 1 ELSE read[w][c] + 1
                       ELSE IF read[w] = NoSeries THEN 0 ELSE row[c]]

(* A revision names the latest print of its series.  The query flushes the *)
(* series first: from there to the commit no other writer gets a turn.     *)
Revised(i) ==
    IF i \in Marked /\ Key(i) # None /\ PrintsOf(Key(i)) # {}
    THEN Latest(PrintsOf(Key(i))) ELSE None

Commit(w) ==
    LET i == item[w]
        k == Key(i)
    IN  /\ pc[w] = "commit" /\ ~Conflict(w)
        /\ prints' = [prints EXCEPT ![i] = [stored |-> TRUE, revises |-> Revised(i)]]
        /\ IF k = None
           THEN UNCHANGED <<series, raced>>
           ELSE /\ series' = [series EXCEPT ![k] = Written(w, @)]
                /\ raced' = IF \E c \in Counts(i) : series[k][c] # read[w][c]
                            THEN raced \cup {k} ELSE raced
        /\ Leave(w)
        /\ UNCHANGED <<replayable, item, told, script, failed, dbFaults>>

(* Everything is rolled back, the print with its series.  The rollback     *)
(* expires the loaded news rows: the next news.id raises, in the task in   *)
(* all its except clauses, in the backfill outside of any.                 *)
RolledBack(w, label) ==
    /\ Goto(w, IF w = Backfill THEN label ELSE "done")
    /\ read' = [read EXCEPT ![w] = NoSeries]
    /\ expired' = (expired \/ w = Backfill)

(* The query for the latest print writes a new series before the try block *)
(* that the commit stands in: there the conflict is an error like others.  *)
FlushFails(w) ==
    /\ item[w] \in Marked /\ Key(item[w]) # None
    /\ read[w] = NoSeries /\ series[Key(item[w])] # NoSeries

Reported(w) == IF w = Backfill THEN [report EXCEPT !.failed = @ \cup {item[w]}]
                               ELSE report

LostRace(w) ==
    /\ pc[w] = "commit" /\ Conflict(w)
    /\ \/ ~FlushFails(w) /\ RolledBack(w, "count") /\ UNCHANGED report
       \/ FlushFails(w) /\ RolledBack(w, "next") /\ report' = Reported(w)
    /\ UNCHANGED <<database, item, told, todo, raced, failed, dbFaults>>

StageFails(w) ==
    /\ pc[w] \in {"check", "series", "commit", "macro", "history"}
    /\ dbFaults < MaxDbFaults
    /\ dbFaults' = dbFaults + 1
    /\ failed' = failed \cup {item[w]}
    /\ RolledBack(w, "next")
    /\ report' = Reported(w)
    /\ UNCHANGED <<database, item, told, todo, raced>>

-----------------------------------------------------------------------------
(* MacroContextReader.read: list_series_prints up to the current print.    *)
History(i) == {j \in PrintsOf(Key(i)) : j <= i}

(* The history, newest first.                                              *)
Newest(H) == [p \in 1 .. Cardinality(H) |->
                 CHOOSE i \in H : Cardinality({j \in H : j >= i}) = p]

\* Mutant: the walk does not stop at a print of another direction.
MutForecastRun(h) == Cardinality({p \in DOMAIN h : Surprise(h[p]) = Surprise(h[1])})

(* A walk from the newest print stops where it would leave these positions. *)
Walk(on) == Cardinality({p \in on : 1 .. p \subseteq on})

(* Prints in the direction of the current one, walking back from it.       *)
ForecastRun(h) == Walk({p \in DOMAIN h : Surprise(h[p]) = Surprise(h[1])})

Step(h, p) == IF Actual[h[p]] > Actual[h[p + 1]] THEN 1
              ELSE IF Actual[h[p]] < Actual[h[p + 1]] THEN -1 ELSE 0

(* Moves in one direction, ending at the current print.                    *)
MoveRun(h) ==
    Walk({p \in DOMAIN h : p + 1 \in DOMAIN h /\ Step(h, p) # 0 /\ Step(h, p) = Step(h, 1)})

MinPrintsForStreak  == 3
MinPrintsForExtreme == 6

Claim(n, total) == IF n >= 2 /\ total >= MinPrintsForStreak THEN n ELSE 0

Extreme(i, H) ==
    IF Cardinality(H) < MinPrintsForExtreme THEN "none"
    ELSE IF \A j \in H \ {i} : Actual[i] > Actual[j] THEN "highest"
    ELSE IF \A j \in H \ {i} : Actual[i] < Actual[j] THEN "lowest" ELSE "none"

Facts(i, H) ==
    LET h == Newest(H)
    IN  [forecast |-> IF Surprise(i) \in {"HIGHER", "LOWER"}
                      THEN Claim(ForecastRun(h), Cardinality(H)) ELSE 0,
         moves    |-> Claim(MoveRun(h), Cardinality(H)),
         extreme  |-> Extreme(i, H),
         revision |-> prints[i].revises # None,
         basis    |-> H]

HasFacts(f) == f.forecast > 0 \/ f.moves > 0 \/ f.extreme # "none" \/ f.revision

(* A series with revisions says nothing but that.                          *)
Context(i, H, row) ==
    IF Cardinality(H) < 2 THEN Silence
    ELSE IF row["revisions"] > 0
    THEN IF prints[i].revises # None
         THEN [Silence EXCEPT !.revision = TRUE, !.basis = H] ELSE Silence
    ELSE IF HasFacts(Facts(i, H)) THEN Facts(i, H) ELSE Silence

MacroSeries(t) ==
    /\ pc[t] = "macro"
    /\ IF prints[item[t]].stored /\ Key(item[t]) # None
       THEN /\ read' = [read EXCEPT ![t] = series[Key(item[t])]]
            /\ Goto(t, "history")
       ELSE Goto(t, "reply") /\ UNCHANGED read
    /\ UNCHANGED <<database, item, told, script, raced, failed, dbFaults>>

MacroFacts(t) ==
    /\ pc[t] = "history"
    /\ told' = [told EXCEPT ![t] = Context(item[t], History(item[t]), read[t])]
    /\ read' = [read EXCEPT ![t] = NoSeries]
    /\ Goto(t, "reply")
    /\ UNCHANGED <<database, item, script, raced, failed, dbFaults>>

(* The rest of the background task ends PUBLISHED or AI_FAILED.            *)
Finish(t) ==
    /\ pc[t] = "reply"
    /\ replayable' = replayable \cup {item[t]}
    /\ told' = [told EXCEPT ![t] = Silence]
    /\ Goto(t, "done")
    /\ UNCHANGED <<series, prints, item, read, script, raced, failed, dbFaults>>

-----------------------------------------------------------------------------
(* backfill_indicator_memory: one run of the script.                       *)
Scan ==
    /\ pc[Backfill] = "idle"
    /\ todo' = replayable
    /\ Goto(Backfill, "next")
    /\ UNCHANGED <<database, item, read, told, report, expired, raced, failed, dbFaults>>

(* A row without figures is only counted; record finds it recorded itself. *)
Replay ==
    /\ pc[Backfill] = "next" /\ todo # {} /\ ~expired
    /\ LET i == Earliest(todo)
       IN  /\ todo' = todo \ {i}
           /\ IF i \notin Structured
              THEN UNCHANGED <<pc, item, report>>
              ELSE IF prints[i].stored
              THEN /\ report' = [report EXCEPT !.already = @ \cup {i}]
                   /\ UNCHANGED <<pc, item>>
              ELSE /\ item' = [item EXCEPT ![Backfill] = i]
                   /\ Goto(Backfill, "check")
                   /\ UNCHANGED report
    /\ UNCHANGED <<database, read, told, expired, raced, failed, dbFaults>>

Count ==
    LET i == item[Backfill]
    IN  /\ pc[Backfill] = "count"
        /\ report' = IF prints[i].stored
                     THEN [report EXCEPT !.recorded = @ \cup {i}]
                     ELSE [report EXCEPT !.already = @ \cup {i}]
        /\ Goto(Backfill, "next")
        /\ UNCHANGED <<database, item, read, told, todo, expired, raced, failed, dbFaults>>

(* The end of the rows, or news.id of an expired one.                      *)
Over ==
    /\ pc[Backfill] = "next" /\ (todo = {} \/ expired)
    /\ Goto(Backfill, "done")
    /\ UNCHANGED <<database, item, read, told, script, raced, failed, dbFaults>>

Record(w) ==
    \/ Skip(w) \/ Check(w) \/ ReadSeries(w) \/ Commit(w)
    \/ LostRace(w) \/ StageFails(w)

Done == (\A w \in Writers : pc[w] = "done") /\ UNCHANGED vars

Next ==
    \/ \E w \in Writers : Record(w)
    \/ \E t \in Tasks : MacroSeries(t) \/ MacroFacts(t) \/ Finish(t)
    \/ Scan \/ Replay \/ Count \/ Over \/ Done

Spec == Init /\ [][Next]_vars

-----------------------------------------------------------------------------
Row == [Columns -> Nat]
Fact == [forecast : Nat, moves : Nat, extreme : {"none", "highest", "lowest"},
         revision : BOOLEAN, basis : SUBSET Items]

TypeOK ==
    /\ series \in [Keys -> Row \cup {NoSeries}]
    /\ prints \in [Items -> [stored : BOOLEAN, revises : Items \cup {None}]]
    /\ replayable \subseteq Items
    /\ pc \in [Writers -> {"idle", "check", "series", "commit", "macro", "history",
                           "reply", "next", "count", "done"}]
    /\ item \in [Writers -> Items \cup {None}]
    /\ read \in [Writers -> Row \cup {NoSeries}]
    /\ told \in [Tasks -> Fact]
    /\ todo \subseteq Items
    /\ report \in [recorded : SUBSET Items, already : SUBSET Items, failed : SUBSET Items]
    /\ expired \in BOOLEAN
    /\ raced \subseteq Keys
    /\ failed \subseteq Items
    /\ dbFaults \in 0 .. MaxDbFaults

(* The quality counters of a series never exceed the prints they stand for *)
(* and fall behind only where two writers added to a row both had read.    *)
CountersDriftOnlyByRaces ==
    \A k \in Keys : series[k] # NoSeries => \A c \in Columns :
        LET counted == Cardinality({i \in PrintsOf(k) : c \in Counts(i)})
        IN  series[k][c] <= counted /\ (k \in raced \/ series[k][c] = counted)

(* The gate of the macro context stays shut: a series that holds a marked  *)
(* print has a positive revision count, whatever row other writers had     *)
(* read (context.py:16).                                                   *)
RevisionsNeverForgotten ==
    \A i \in Stored \cap Marked : Key(i) # None =>
        series[Key(i)] # NoSeries /\ series[Key(i)]["revisions"] > 0

(* A print that may have founded its series in this life of the program.   *)
Founder(j) == \A i \in Recorded : Key(i) # Key(j)

(* A print is lost, without a failure, only to a writer that founded its   *)
(* series in the meantime; and what the backfill reports as recorded is.   *)
PrintLostOnlyToItsSeries ==
    /\ \A w \in Writers :
          LET i == item[w]
          IN  pc[w] \in {"macro", "history", "reply", "done"} /\ i \in Structured \ failed
                  => \/ prints[i].stored
                     \/ Key(i) # None /\ \E j \in PrintsOf(Key(i)) \ {i} : Founder(j)
    /\ report.recorded \subseteq Stored

(* What the AI is told of a print is true of the list of stored prints it  *)
(* rests on: the latest n of at least three point the same way; the last   *)
(* n + 1 figures move the same way; no other of at least six figures       *)
(* reaches the extreme (context.py:12-14).  Whether the list should have   *)
(* been told of at all is the question of the next property.               *)
Last(H, n) == {i \in H : Cardinality({j \in H : j > i}) < n}
Follows(i, j, H) == i < j /\ \A x \in H : x <= i \/ x >= j
ClaimsAreTrue ==
    \A t \in Tasks :
        LET f == told[t]
            i == ItemOf[t]
            H == f.basis
            steps(n) == {p \in Last(H, n + 1) \X Last(H, n + 1) : Follows(p[1], p[2], H)}
        IN  /\ H \subseteq PrintsOf(Key(i)) /\ \A j \in H : j <= i
            /\ f.forecast > 0 =>
                 /\ Cardinality(H) >= 3 /\ f.forecast \in 2 .. Cardinality(H)
                 /\ \A j \in Last(H, f.forecast) :
                       IF Surprise(i) = "HIGHER" THEN Actual[j] > Forecast[j]
                                                 ELSE Actual[j] < Forecast[j]
            /\ f.moves > 0 =>
                 /\ Cardinality(H) >= 3 /\ f.moves \in 2 .. Cardinality(H) - 1
                 /\ \/ \A p \in steps(f.moves) : Actual[p[1]] < Actual[p[2]]
                    \/ \A p \in steps(f.moves) : Actual[p[1]] > Actual[p[2]]
            /\ f.extreme # "none" =>
                 /\ Cardinality(H) >= 6 /\ i \in H
                 /\ \/ \A j \in H \ {i} : Actual[i] > Actual[j]
                    \/ \A j \in H \ {i} : Actual[i] < Actual[j]

(* "A series containing revisions suppresses streaks/extremes entirely"    *)
(* (context.py:16-18): none is told over a list that holds a revision.     *)
RevisionsSilenceClaims ==
    \A t \in Tasks :
        told[t].forecast > 0 \/ told[t].moves > 0 \/ told[t].extreme # "none"
            => told[t].basis \cap Marked = {}

(* "One bad row logs a warning and the run continues" (backfill.py:15).    *)
BadRowDoesNotStopTheRun == pc[Backfill] = "done" => todo = {}
=============================================================================
