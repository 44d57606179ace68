--------------------------- MODULE NewsLifecycle ----------------------------
(***************************************************************************)
(* What the pipeline promises about one news item, without calls, tasks,   *)
(* retries, faults or restarts: a record that moves forward through its    *)
(* life, and what a reader of the channel sees of it.                      *)
(*                                                                         *)
(* The states abbreviate NewsStatus (app/constants/enums.py): "accepted"   *)
(* is RECEIVED, "announced" TELEGRAM_PENDING and AI_PENDING, "translated"  *)
(* AI_SUCCESS, "rejected" AI_FAILED.                                       *)
(***************************************************************************)
CONSTANTS
    Guids, Contents, Blank,
    SilentEdits      \* may a publication go unseen by the reader?

VARIABLES
    record,          \* record[g]: state and content of the item
    reader           \* reader[g]: the text of its message in the channel

vars == <<record, reader>>

Absent == [state |-> "absent", content |-> Blank]
In(g, states) == record[g].state \in states
MoveTo(g, state) == /\ record' = [record EXCEPT ![g].state = state]
                    /\ UNCHANGED reader
See(g, text) == /\ reader' = [reader EXCEPT ![g] = text]
                /\ UNCHANGED record

Init == /\ record = [g \in Guids |-> Absent]
        /\ reader = [g \in Guids |-> "nothing"]

\* A content is accepted under one guid only, for ever.
Accept(g, c) ==
    /\ In(g, {"absent"})
    /\ \A h \in Guids : record[h].content # c
    /\ record' = [record EXCEPT ![g] = [state |-> "accepted", content |-> c]]
    /\ UNCHANGED reader

\* The reader sees the English text of accepted items only.
Announce(g) == /\ In(g, {"accepted"})
               /\ reader[g] = "nothing"
               /\ See(g, "raw")

Acknowledge(g) == /\ In(g, {"accepted"})
                  /\ reader[g] = "raw"
                  /\ MoveTo(g, "announced")

Translate(g) == In(g, {"announced"}) /\ MoveTo(g, "translated")

\* The reader sees the Arabic text only once it is stored.
Enrich(g) == In(g, {"translated"}) /\ See(g, "premium")

Publish(g) == /\ In(g, {"translated"})
              /\ reader[g] = "premium" \/ SilentEdits
              /\ MoveTo(g, "published")

Reject(g) == In(g, {"announced"}) /\ MoveTo(g, "rejected")

\* A restart may give several items up at once.
GiveUp(S) ==
    /\ \A g \in S : In(g, {"accepted", "announced", "translated"})
    /\ record' = [g \in Guids |-> IF g \in S
                                 THEN [record[g] EXCEPT !.state = "failed"]
                                 ELSE record[g]]
    /\ UNCHANGED reader

Next == \/ \E S \in SUBSET Guids : GiveUp(S)
        \/ \E g \in Guids :
              \/ \E c \in Contents : Accept(g, c)
              \/ Announce(g) \/ Acknowledge(g) \/ Translate(g) \/ Enrich(g)
              \/ Publish(g) \/ Reject(g)

Spec == Init /\ [][Next]_vars
=============================================================================
