---------------------------- MODULE DigestProofs ----------------------------
(***************************************************************************)
(* Proofs about Digest for every number of windows, messages, attempts and *)
(* troubles: type correctness, that a recorded or reported window is shown *)
(* by the recorded message, that a completed window is never delivered     *)
(* again, that the messages are counted by the troubles met, and that the  *)
(* pin of an administrator is covered only if it came after getChat.       *)
(***************************************************************************)
EXTENDS Digest, FiniteSetTheorems, TLAPS

(* Nothing shows or records a window that has not completed.               *)
NotAhead ==
    /\ row.completed <= clock
    /\ \A m \in Ids : channel[m] <= clock

(* The recorded message was really sent.                                   *)
MessageSent == row.message # NoMessage => row.message \in Sent

(* The run is for the latest window anyone knows of, and past the check on *)
(* digest_state its window is still to be recorded.                        *)
RunIsNewest ==
    Running =>
        /\ run.win \in 1 .. clock
        /\ \A m \in Ids : channel[m] <= run.win
        /\ row.completed <= run.win
        /\ pc # "begin" => row.completed < run.win

EditsExisting == pc = "edit" => row.message # NoMessage

(* Once Telegram acknowledged the text, the message shows it.              *)
ResultIsShown ==
    pc \in {"getchat", "pin", "record"} =>
        /\ run.result \in Sent
        /\ run.result \in gone \/ channel[run.result] = run.win

Inv ==
    /\ TypeOK
    /\ NotAhead
    /\ MessageSent
    /\ RunIsNewest
    /\ EditsExisting
    /\ ResultIsShown
    /\ RecordedIsShown
    /\ OkIsShown

LEMMA InitInv == Init => Inv
  <1> SUFFICES ASSUME Init PROVE Inv
    OBVIOUS
  <1> USE DigestAssumption DEF Init
  <1>1. TypeOK
    BY DEF TypeOK, Ids, NoMessage, NoRun, NeverRun, Sent
  <1> QED
    BY <1>1 DEF Inv, NotAhead, MessageSent, RunIsNewest, EditsExisting, Running,
       ResultIsShown, RecordedIsShown, OkIsShown, NoMessage, NeverRun, Ids

-----------------------------------------------------------------------------
(* The steps, by what they disturb.                                        *)

(* What the steps need of the types.                                       *)
RunType == [win : 0 .. Windows, tries : 0 .. MaxAttempts - 1,
            result : Ids \cup {NoMessage}, adminActs : 0 .. MaxAdminActs]
RowType == [message : Ids \cup {NoMessage}, completed : 0 .. Windows,
            attempted : 0 .. Windows]

LEMMA Types ==
  ASSUME Inv
  PROVE  /\ run \in RunType /\ NoRun \in RunType /\ row \in RowType
         /\ 0 \in 0 .. MaxAttempts - 1 /\ clock \in 0 .. Windows
         /\ channel \in [Ids -> 0 .. Windows]
  BY DigestAssumption DEF Inv, TypeOK, RunType, RowType, NoRun

(* The channel after a call on one message, whatever became of the call.   *)
Delivery ==
    \/ channel' = channel
    \/ \E m \in Ids : channel' = [channel EXCEPT ![m] = run.win]

Grows ==
    /\ channel' \in [Ids -> 0 .. Windows]
    /\ Sent \subseteq Sent'
    /\ \A m \in Ids : channel[m] <= channel'[m] /\ channel'[m] <= run.win

LEMMA DeliveryGrows ==
  ASSUME Inv, Running, Delivery
  PROVE  Grows
  <1>1. /\ channel \in [Ids -> 0 .. Windows] /\ Windows \in Nat /\ clock \in 1 .. Windows
        /\ run.win \in 1 .. clock
        /\ \A m \in Ids : channel[m] <= run.win
    BY DigestAssumption DEF Inv, TypeOK, RunIsNewest
  <1>2. CASE channel' = channel
    BY <1>1, <1>2 DEF Grows, Sent
  <1>3. CASE \E m \in Ids : channel' = [channel EXCEPT ![m] = run.win]
    <2>1. PICK m \in Ids : channel' = [channel EXCEPT ![m] = run.win]
      BY <1>3
    <2>2. run.win \in 0 .. Windows /\ run.win # 0
      BY <1>1
    <2>3. channel' \in [Ids -> 0 .. Windows]
      BY <1>1, <2>1, <2>2
    <2>4. \A i \in Ids : channel'[i] = (IF i = m THEN run.win ELSE channel[i])
      BY <1>1, <2>1
    <2>5. \A i \in Ids : channel[i] \in Int
      BY <1>1
    <2> QED
      BY <1>1, <2>2, <2>3, <2>4, <2>5 DEF Grows, Sent
  <1> QED
    BY <1>2, <1>3 DEF Delivery

(* How a run ends without a success: asleep, and the report is "failed".   *)
LEMMA FailInv ==
  ASSUME Inv, Running, Fail, Grows,
         row' = row, gone' = gone, clock' = clock, newestPin' = newestPin,
         crashes' = crashes, adminActs' = adminActs,
         dbFaults' \in 0 .. MaxDbFaults, lostAcks' \in Nat
  PROVE  Inv'
  <1> USE DigestAssumption
  <1>1. pc' = "asleep" /\ due' = clock /\ report' = [status |-> "failed", win |-> run.win]
        /\ run' = NoRun
    BY DEF Fail, Finish
  <1>2. run' \in [win : 0 .. Windows, tries : 0 .. MaxAttempts - 1,
                  result : Ids \cup {NoMessage}, adminActs : 0 .. MaxAdminActs]
    BY <1>1 DEF NoRun
  <1>3. run.win \in 0 .. Windows /\ run.win \in 1 .. clock
    BY DEF Inv, TypeOK, RunIsNewest
  <1>4. TypeOK'
    BY <1>1, <1>2, <1>3 DEF Inv, TypeOK, Grows
  <1>5. NotAhead' /\ MessageSent' /\ RunIsNewest' /\ EditsExisting' /\ ResultIsShown'
        /\ OkIsShown'
    BY <1>1, <1>3, <1>4 DEF Inv, NotAhead, MessageSent, RunIsNewest, EditsExisting,
       ResultIsShown, OkIsShown, Running, Grows, TypeOK
  <1>6. RecordedIsShown'
    BY <1>4 DEF Inv, RecordedIsShown, Grows, TypeOK, Sent
  <1> QED
    BY <1>4, <1>5, <1>6 DEF Inv

LEMMA StartInv ==
  ASSUME Inv, Boot \/ Wake
  PROVE  Inv'
  <1>1. /\ pc' = "begin" /\ pc \in {"down", "asleep"} /\ row' = row /\ channel' = channel
        /\ gone' = gone /\ newestPin' = newestPin /\ clock' = clock /\ due' = due
        /\ report' = report /\ crashes' = crashes /\ dbFaults' = dbFaults
        /\ lostAcks' = lostAcks /\ adminActs' = adminActs
        /\ run' = [NoRun EXCEPT !.win = clock]
    BY DEF Boot, Wake, durable, troubles
  <1>2. run' \in RunType /\ run'.win = clock
    BY <1>1, Types DEF RunType, NoRun
  <1>3. TypeOK'
    BY <1>1, <1>2 DEF Inv, TypeOK, RunType, Sent
  <1>4. NotAhead' /\ MessageSent' /\ RunIsNewest' /\ EditsExisting' /\ ResultIsShown'
        /\ RecordedIsShown' /\ OkIsShown'
    BY <1>1, <1>2 DEF Inv, TypeOK, NotAhead, MessageSent, RunIsNewest, EditsExisting,
       ResultIsShown, RecordedIsShown, OkIsShown, Running, Sent
  <1> QED
    BY <1>3, <1>4 DEF Inv

LEMMA SkipInv ==
  ASSUME Inv, Skip
  PROVE  Inv'
  <1> USE DigestAssumption DEF Skip, Finish, durable, troubles
  <1>1. TypeOK' /\ NotAhead' /\ MessageSent' /\ RunIsNewest' /\ EditsExisting'
        /\ ResultIsShown' /\ RecordedIsShown'
    BY DEF Inv, TypeOK, NotAhead, MessageSent, RunIsNewest, EditsExisting, Running,
       ResultIsShown, RecordedIsShown, NoRun, Sent, Ids, NoMessage
  <1>2. run.win = row.completed /\ run.win > 0
    BY DEF Inv, TypeOK, RunIsNewest, Running
  <1>3. OkIsShown'
    BY <1>2 DEF Inv, OkIsShown, RecordedIsShown, RunIsNewest, Running, TypeOK, Sent, Ids
  <1> QED
    BY <1>1, <1>3 DEF Inv

LEMMA QuietCallInv ==
  ASSUME Inv, RecordAttempt \/ Select \/ EditGone \/ GetChatAnswers
              \/ GetChatFails \/ Pin
  PROVE  Inv'
  <1> USE DigestAssumption DEF RecordAttempt, Select, EditGone, GetChatAnswers,
          GetChatFails, Pin, Goto, durable, troubles
  <1>1. TypeOK'
    <2>1. run' \in RunType
      <3>1. \/ run' = run \/ run' = [run EXCEPT !.tries = 0]
            \/ run' = [run EXCEPT !.adminActs = adminActs]
        OBVIOUS
      <3>2. adminActs \in 0 .. MaxAdminActs
        BY DEF Inv, TypeOK
      <3> QED
        BY <3>1, <3>2, Types DEF RunType
    <2>2. row' \in RowType
      <3>1. run.win \in 0 .. Windows
        BY Types DEF RunType
      <3>2. row' = row \/ row' = [row EXCEPT !.attempted = run.win]
        OBVIOUS
      <3> QED
        BY <3>1, <3>2, Types DEF RowType
    <2> QED
      BY <2>1, <2>2 DEF Inv, TypeOK, RunType, RowType, Sent
  <1>2. channel' = channel /\ gone' = gone /\ clock' = clock /\ report' = report
        /\ row'.message = row.message /\ row'.completed = row.completed
        /\ run'.win = run.win /\ run'.result = run.result /\ Sent' = Sent
    BY DEF Inv, TypeOK, Sent
  <1>3. NotAhead' /\ MessageSent' /\ RunIsNewest' /\ EditsExisting' /\ ResultIsShown'
    BY <1>2 DEF Inv, NotAhead, MessageSent, RunIsNewest, EditsExisting, Running,
       ResultIsShown, TypeOK, NoMessage
  <1>4. RecordedIsShown' /\ OkIsShown'
    BY <1>2 DEF Inv, RecordedIsShown, OkIsShown
  <1> QED
    BY <1>1, <1>3, <1>4 DEF Inv

LEMMA EditInv ==
  ASSUME Inv, EditAcknowledged
  PROVE  Inv'
  <1> USE DigestAssumption
  <1>1. /\ pc = "edit" /\ pc' = "getchat" /\ row' = row /\ gone' = gone /\ clock' = clock
        /\ report' = report /\ due' = due /\ newestPin' = newestPin
        /\ crashes' = crashes /\ dbFaults' = dbFaults /\ lostAcks' = lostAcks
        /\ adminActs' = adminActs /\ row.message \notin gone
        /\ channel' = [channel EXCEPT ![row.message] = run.win]
        /\ run' = [run EXCEPT !.tries = 0, !.result = row.message]
    BY DEF EditAcknowledged, Goto, troubles
  <1>2. row.message \in Sent /\ row.message \in Ids /\ Running /\ run.win \in 1 .. clock
    BY <1>1 DEF Inv, EditsExisting, MessageSent, Sent, Running, RunIsNewest
  <1>3. Grows
    BY <1>1, <1>2, DeliveryGrows DEF Delivery
  <1>4. channel'[row.message] = run.win /\ row.message \in Sent'
    BY <1>1, <1>2, <1>3 DEF Inv, TypeOK, Grows
  <1>5. run' \in RunType
        /\ run'.win = run.win /\ run'.result = row.message
    BY <1>1, <1>2, Types DEF RunType
  <1>6. TypeOK'
    BY <1>1, <1>3, <1>5 DEF Inv, TypeOK, RunType, Grows
  <1>7. NotAhead' /\ MessageSent' /\ RunIsNewest' /\ EditsExisting' /\ ResultIsShown'
        /\ OkIsShown'
    BY <1>1, <1>2, <1>3, <1>4, <1>5, <1>6 DEF Inv, NotAhead, MessageSent, RunIsNewest,
       EditsExisting, Running, ResultIsShown, OkIsShown, TypeOK, Grows
  <1>8. RecordedIsShown'
    BY <1>1, <1>6, <1>3 DEF Inv, RecordedIsShown, TypeOK, Grows, Sent
  <1> QED
    BY <1>6, <1>7, <1>8 DEF Inv

(* A call that stays where it is to be tried again.                        *)
LEMMA RetryInv ==
  ASSUME Inv, pc \in {"edit", "create"}, run.tries + 1 < MaxAttempts, Grows,
         run' = [run EXCEPT !.tries = @ + 1],
         pc' = pc, due' = due, report' = report,
         row' = row, gone' = gone, clock' = clock, newestPin' = newestPin,
         crashes' = crashes, adminActs' = adminActs, dbFaults' = dbFaults,
         lostAcks' \in Nat
  PROVE  Inv'
  <1> USE DigestAssumption
  <1>1. run' \in [win : 0 .. Windows, tries : 0 .. MaxAttempts - 1,
                  result : Ids \cup {NoMessage}, adminActs : 0 .. MaxAdminActs]
        /\ run'.win = run.win
    BY DEF Inv, TypeOK
  <1>2. TypeOK'
    BY <1>1 DEF Inv, TypeOK, Grows
  <1>3. NotAhead' /\ MessageSent' /\ RunIsNewest' /\ EditsExisting' /\ ResultIsShown'
        /\ OkIsShown'
    BY <1>1, <1>2 DEF Inv, NotAhead, MessageSent, RunIsNewest, EditsExisting, Running,
       ResultIsShown, OkIsShown, Grows, TypeOK
  <1>4. RecordedIsShown'
    BY <1>2 DEF Inv, RecordedIsShown, Grows, TypeOK, Sent
  <1> QED
    BY <1>2, <1>3, <1>4 DEF Inv

LEMMA TroubledCallInv ==
  ASSUME Inv, EditRetryable \/ SendRetryable \/ SendAckLost
              \/ EditRejected \/ SendRejected \/ DatabaseFails
  PROVE  Inv'
  <1>1. Running
    BY DEF EditRetryable, SendRetryable, SendAckLost, EditRejected, SendRejected,
       DatabaseFails, Running
  <1>2. dbFaults \in 0 .. MaxDbFaults /\ lostAcks \in Nat /\ MaxDbFaults \in Nat
    BY DigestAssumption DEF Inv, TypeOK
  <1>3. pc = "edit" => row.message \in Ids
    BY DEF Inv, EditsExisting, MessageSent, Sent
  <1>4. Delivery
    BY <1>3 DEF EditRetryable, SendRetryable, SendAckLost, EditRejected, SendRejected,
       DatabaseFails, DbFault, durable, Delivery, Sent
  <1>5. Grows
    BY <1>1, <1>4, DeliveryGrows
  <1>6. /\ pc \in {"begin", "select", "edit", "create", "record"}
        /\ row' = row /\ gone' = gone /\ clock' = clock /\ newestPin' = newestPin
        /\ crashes' = crashes /\ adminActs' = adminActs
        /\ dbFaults' \in 0 .. MaxDbFaults /\ lostAcks' \in Nat
    BY <1>2 DEF EditRetryable, SendRetryable, SendAckLost, EditRejected, SendRejected,
       DatabaseFails, DbFault, durable, troubles
  <1>7. CASE Fail
    BY <1>1, <1>5, <1>6, <1>7, FailInv
  <1>8. CASE ~Fail
    <2>1. EditRetryable \/ SendRetryable \/ SendAckLost
      BY <1>8 DEF EditRejected, SendRejected, DatabaseFails, DbFault
    <2>2. /\ pc \in {"edit", "create"} /\ dbFaults' = dbFaults
          /\ Retry(Fail)
      BY <2>1 DEF EditRetryable, SendRetryable, SendAckLost, troubles
    <2>3. /\ run.tries + 1 < MaxAttempts
          /\ run' = [run EXCEPT !.tries = @ + 1]
          /\ pc' = pc /\ due' = due /\ report' = report
      BY <1>8, <2>2 DEF Retry
    <2> QED
      BY <1>5, <1>6, <2>2, <2>3, RetryInv
  <1> QED
    BY <1>7, <1>8

LEMMA SendInv ==
  ASSUME Inv, SendAcknowledged
  PROVE  Inv'
  <1> USE DigestAssumption
  <1>1. PICK m \in Ids \ Sent :
           /\ channel' = [channel EXCEPT ![m] = run.win]
           /\ run' = [run EXCEPT !.tries = 0, !.result = m]
    BY DEF SendAcknowledged
  <1>2. /\ pc = "create" /\ pc' = "pin" /\ row' = row /\ gone' = gone /\ clock' = clock
        /\ report' = report /\ due' = due /\ newestPin' = newestPin
        /\ crashes' = crashes /\ dbFaults' = dbFaults /\ lostAcks' = lostAcks
        /\ adminActs' = adminActs
    BY DEF SendAcknowledged, Goto, troubles
  <1>3. Running /\ run.win \in 1 .. clock
    BY <1>2 DEF Inv, Running, RunIsNewest
  <1>4. Grows
    BY <1>1, <1>3, DeliveryGrows DEF Delivery
  <1>5. channel'[m] = run.win /\ m \in Sent'
    BY <1>1, <1>3, <1>4 DEF Inv, TypeOK, Grows, Sent
  <1>6. run' \in RunType
        /\ run'.win = run.win /\ run'.result = m
    BY <1>1, Types DEF RunType
  <1>7. TypeOK'
    BY <1>2, <1>4, <1>6 DEF Inv, TypeOK, RunType, Grows
  <1>8. NotAhead' /\ MessageSent' /\ RunIsNewest' /\ EditsExisting' /\ ResultIsShown'
        /\ OkIsShown'
    BY <1>2, <1>3, <1>4, <1>5, <1>6, <1>7 DEF Inv, NotAhead, MessageSent, RunIsNewest,
       EditsExisting, Running, ResultIsShown, OkIsShown, TypeOK, Grows
  <1>9. RecordedIsShown'
    BY <1>2, <1>4, <1>7 DEF Inv, RecordedIsShown, TypeOK, Grows, Sent
  <1> QED
    BY <1>7, <1>8, <1>9 DEF Inv

LEMMA RecordSuccessInv ==
  ASSUME Inv, RecordSuccess
  PROVE  Inv'
  <1>1. /\ pc = "record" /\ pc' = "asleep" /\ due' = clock /\ run' = NoRun
        /\ report' = [status |-> "ok", win |-> run.win]
        /\ row' = [row EXCEPT !.completed = run.win, !.message = run.result]
        /\ channel' = channel /\ gone' = gone /\ newestPin' = newestPin /\ clock' = clock
        /\ crashes' = crashes /\ dbFaults' = dbFaults /\ lostAcks' = lostAcks
        /\ adminActs' = adminActs
    BY DEF RecordSuccess, Finish, troubles
  <1>2. /\ run.result \in Sent /\ run.win \in 1 .. clock /\ run.win \in 0 .. Windows
        /\ run.result \in Ids /\ Sent' = Sent
        /\ run.result \in gone \/ channel[run.result] = run.win
    BY <1>1, Types DEF Inv, ResultIsShown, RunIsNewest, Running, Sent, RunType
  <1>3. row' \in RowType /\ row'.completed = run.win /\ row'.message = run.result
    BY <1>1, <1>2, Types DEF RowType
  <1>4. TypeOK'
    BY <1>1, <1>2, <1>3, Types DEF Inv, TypeOK, RowType, RunType
  <1>5. NotAhead' /\ MessageSent' /\ RunIsNewest' /\ EditsExisting' /\ ResultIsShown'
    BY <1>1, <1>2, <1>3 DEF Inv, NotAhead, MessageSent, RunIsNewest, EditsExisting,
       ResultIsShown, Running
  <1>6. RecordedIsShown' /\ OkIsShown'
    BY <1>1, <1>2, <1>3 DEF RecordedIsShown, OkIsShown
  <1> QED
    BY <1>4, <1>5, <1>6 DEF Inv

LEMMA SurroundingsInv ==
  ASSUME Inv, Tick \/ Crash \/ AdminChangesPin \/ MessageLost \/ Done
  PROVE  Inv'
  <1> USE DigestAssumption DEF durable, memory, troubles, vars
  <1>1. CASE Tick
    BY <1>1 DEF Tick, Inv, TypeOK, NotAhead, MessageSent, RunIsNewest, EditsExisting,
       Running, ResultIsShown, RecordedIsShown, OkIsShown, Sent, Ids
  <1>2. CASE Crash
    BY <1>2 DEF Crash, Inv, TypeOK, NotAhead, MessageSent, RunIsNewest, EditsExisting,
       Running, ResultIsShown, RecordedIsShown, OkIsShown, Sent, Ids, NoRun, NeverRun,
       NoMessage
  <1>3. CASE AdminChangesPin
    BY <1>3 DEF AdminChangesPin, Inv, TypeOK, NotAhead, MessageSent, RunIsNewest,
       EditsExisting, Running, ResultIsShown, RecordedIsShown, OkIsShown, Sent, Visible,
       Ids, NoMessage
  <1>4. CASE MessageLost
    <2>1. gone \subseteq gone' /\ gone' \subseteq Sent /\ Sent' = Sent
      BY <1>4 DEF MessageLost, Visible, Sent, Inv, TypeOK
    <2>2. newestPin' \in Ids \cup {Admin, NoMessage}
      BY <1>4 DEF MessageLost, Visible, Sent, Inv, TypeOK
    <2> QED
      BY <1>4, <2>1, <2>2 DEF MessageLost, Inv, TypeOK, NotAhead, MessageSent,
         RunIsNewest, EditsExisting, Running, ResultIsShown, RecordedIsShown, OkIsShown
  <1>5. CASE Done
    BY <1>5 DEF Done, Inv, TypeOK, NotAhead, MessageSent, RunIsNewest, EditsExisting,
       Running, ResultIsShown, RecordedIsShown, OkIsShown, Sent
  <1> QED
    BY <1>1, <1>2, <1>3, <1>4, <1>5

LEMMA StutterInv == Inv /\ UNCHANGED vars => Inv'
  BY DEF vars, durable, memory, troubles, Inv, TypeOK, NotAhead, MessageSent,
     RunIsNewest, EditsExisting, Running, ResultIsShown, RecordedIsShown, OkIsShown, Sent

LEMMA NextInv == Inv /\ [Next]_vars => Inv'
  BY StartInv, SkipInv, QuietCallInv, EditInv, TroubledCallInv, SendInv,
     RecordSuccessInv, SurroundingsInv, StutterInv DEF Next, Call

(* The inductive invariant holds in every reachable state.                 *)
THEOREM InvHolds == Spec => []Inv
  BY InitInv, NextInv, PTL DEF Spec

(* Every variable keeps its type.                                          *)
THEOREM TypeCorrect == Spec => []TypeOK
  BY InvHolds, PTL DEF Inv

(* A window recorded in digest_state is shown by the message recorded with *)
(* it, whatever crashes, errors and administrators intervene.              *)
THEOREM RecordedShown == Spec => []RecordedIsShown
  BY InvHolds, PTL DEF Inv

(* What the health endpoint reports as ok is on the channel.               *)
THEOREM OkShown == Spec => []OkIsShown
  BY InvHolds, PTL DEF Inv

(* A completed window is never delivered again, and a text never replaces  *)
(* that of a later window.                                                 *)
THEOREM CompletedNotTouched == Spec => CompletedWindowNotTouched
  <1> DEFINE Forward == \A m \in Ids : channel'[m] # channel[m] =>
                            channel'[m] > row.completed /\ channel'[m] > channel[m]
  <1>1. Inv /\ [Next]_vars => [Forward]_vars
    <2> SUFFICES ASSUME Inv, Next PROVE Forward
      BY DEF vars, durable
    <2>1. CASE EditAcknowledged \/ EditRetryable \/ SendAcknowledged \/ SendAckLost
      <3>1. pc \in {"edit", "create"} /\ Running
        BY <2>1 DEF EditAcknowledged, EditRetryable, SendAcknowledged, SendAckLost, Running
      <3>2. \/ channel' = channel
            \/ \E m \in Ids : channel' = [channel EXCEPT ![m] = run.win]
        BY <2>1 DEF EditAcknowledged, EditRetryable, SendAcknowledged, SendAckLost,
           Inv, EditsExisting, MessageSent, Sent
      <3>3. /\ row.completed < run.win /\ run.win \in Int
            /\ \A m \in Ids : channel[m] <= run.win /\ channel[m] \in Int
        BY <3>1, Types DEF Inv, RunIsNewest, RunType
      <3>4. \A m \in Ids : channel'[m] \in {channel[m], run.win}
        BY <3>2, Types
      <3> QED
        BY <3>3, <3>4
    <2>2. CASE ~(EditAcknowledged \/ EditRetryable \/ SendAcknowledged \/ SendAckLost)
      <3>1. channel' = channel
        BY <2>2 DEF Next, Call, Boot, Wake, Skip, RecordAttempt, Select, DatabaseFails,
           DbFault, EditGone, EditRejected, SendRetryable, SendRejected, GetChatAnswers,
           GetChatFails, Pin, RecordSuccess, Tick, Crash, AdminChangesPin, MessageLost,
           Done, vars, durable
      <3> QED
        BY <3>1
    <2> QED
      BY <2>1, <2>2
  <1> QED
    BY <1>1, InvHolds, PTL DEF Spec, CompletedWindowNotTouched
-----------------------------------------------------------------------------
(* How many messages there are.  One message is held: by the row, or by    *)
(* the run that created its replacement.  Every other one that can be seen *)
(* was paid for when it was let go.                                        *)
Delivered == pc \in {"getchat", "pin", "record"}
Held      == IF Delivered THEN run.result ELSE row.message
Troubles  == crashes + dbFaults + lostAcks

(* A replacement is created only for a message that is not there.          *)
Replaced ==
    /\ pc = "create" => row.message \notin Visible
    /\ Delivered => run.result = row.message \/ row.message \notin Visible

PaidFor == Cardinality(Visible \ {Held}) <= Troubles

MessagesInv == Replaced /\ PaidFor

LEMMA VisibleFinite ==
  ASSUME NEW S \in SUBSET Visible
  PROVE  IsFiniteSet(S) /\ Cardinality(S) \in Nat
  <1>1. IsFiniteSet(Ids)
    BY DigestAssumption, FS_Interval DEF Ids
  <1>2. S \in SUBSET Ids
    BY DEF Visible, Sent
  <1>3. IsFiniteSet(S)
    BY <1>1, <1>2, FS_Subset
  <1> QED
    BY <1>3, FS_CardinalityType

LEMMA TroublesCount ==
  ASSUME Inv
  PROVE  crashes \in Nat /\ dbFaults \in Nat /\ lostAcks \in Nat /\ Troubles \in Nat
  BY DigestAssumption DEF Inv, TypeOK, Troubles

(* Nothing is let go and nothing comes up.                                 *)
LEMMA NothingMore ==
  ASSUME Inv, MessagesInv, Visible' \ {Held'} \subseteq Visible \ {Held},
         Troubles' \in Nat, Troubles' >= Troubles
  PROVE  PaidFor'
  <1> DEFINE S == Visible \ {Held}
             T == Visible' \ {Held'}
  <1>1. IsFiniteSet(S) /\ Cardinality(S) \in Nat
    BY VisibleFinite
  <1>2. T \in SUBSET S
    OBVIOUS
  <1>3. IsFiniteSet(T) /\ Cardinality(T) <= Cardinality(S)
    BY <1>1, <1>2, FS_Subset
  <1>4. Cardinality(T) \in Nat
    BY <1>3, FS_CardinalityType
  <1>5. Cardinality(S) <= Troubles
    BY DEF MessagesInv, PaidFor
  <1> HIDE DEF S, T
  <1>6. Cardinality(T) <= Troubles'
    BY <1>1, <1>3, <1>4, <1>5, TroublesCount
  <1> QED
    BY <1>6 DEF PaidFor, T

(* One message is let go, or comes up unseen, and one trouble is counted.  *)
LEMMA OneMore ==
  ASSUME Inv, MessagesInv, NEW m, Visible' \ {Held'} \subseteq (Visible \ {Held}) \cup {m},
         Troubles' = Troubles + 1
  PROVE  PaidFor'
  <1> DEFINE S == Visible \ {Held}
             U == S \cup {m}
             T == Visible' \ {Held'}
  <1>1. IsFiniteSet(S) /\ Cardinality(S) \in Nat
    BY VisibleFinite
  <1>2. IsFiniteSet(U) /\ Cardinality(U) <= Cardinality(S) + 1 /\ Cardinality(U) \in Nat
    <2>1. IsFiniteSet(U) /\ Cardinality(U) = IF m \in S THEN Cardinality(S) ELSE Cardinality(S) + 1
      BY <1>1, FS_AddElement
    <2> HIDE DEF U, S
    <2> QED
      BY <1>1, <2>1
  <1>3. T \in SUBSET U
    OBVIOUS
  <1>4. IsFiniteSet(T) /\ Cardinality(T) <= Cardinality(U)
    BY <1>2, <1>3, FS_Subset
  <1>5. Cardinality(T) \in Nat
    BY <1>4, FS_CardinalityType
  <1>6. Cardinality(S) <= Troubles
    BY DEF MessagesInv, PaidFor
  <1> HIDE DEF S, T, U
  <1>7. Cardinality(T) <= Troubles'
    BY <1>1, <1>2, <1>4, <1>5, <1>6, TroublesCount
  <1> QED
    BY <1>7 DEF PaidFor, T

LEMMA InitMessages == Init => MessagesInv
  <1> SUFFICES ASSUME Init PROVE MessagesInv
    OBVIOUS
  <1>1. Visible = {}
    BY DEF Init, Visible, Sent
  <1>2. Visible \ {Held} = {}
    BY <1>1
  <1>3. Cardinality({}) = 0
    BY FS_EmptySet
  <1>4. Troubles = 0
    BY DEF Init, Troubles
  <1>5. PaidFor
    BY <1>2, <1>3, <1>4 DEF PaidFor
  <1> QED
    BY <1>5 DEF Init, MessagesInv, Replaced, Delivered

(* Steps after which no more can be seen, that count no trouble and let no *)
(* message go.                                                             *)
LEMMA CalmMessages ==
  ASSUME Inv, MessagesInv,
         \/ Boot \/ Wake \/ Skip \/ RecordAttempt \/ Select \/ EditGone
         \/ GetChatAnswers \/ GetChatFails \/ Pin \/ RecordSuccess
         \/ SendRetryable \/ SendRejected \/ EditRejected
         \/ Tick \/ AdminChangesPin \/ MessageLost \/ UNCHANGED vars
  PROVE  MessagesInv'
  <1> USE DigestAssumption
  <1>1. channel' = channel /\ gone \subseteq gone'
    BY DEF Boot, Wake, Skip, RecordAttempt, Select, EditGone, GetChatAnswers,
       GetChatFails, Pin, RecordSuccess, SendRetryable, SendRejected, EditRejected,
       Tick, AdminChangesPin, MessageLost, durable, vars
  <1>2. Troubles' = Troubles
    BY DEF Boot, Wake, Skip, RecordAttempt, Select, EditGone, GetChatAnswers,
       GetChatFails, Pin, RecordSuccess, SendRetryable, SendRejected, EditRejected,
       Tick, AdminChangesPin, MessageLost, troubles, vars, Troubles
  <1>3. Visible' \subseteq Visible
    BY <1>1 DEF Visible, Sent
  <1>4. run \in RunType /\ row \in RowType
    BY Types
  <1>5. /\ Held' = Held
        /\ pc' = "create" => \/ pc = "create" /\ row'.message = row.message
                             \/ row'.message \notin Visible
        /\ Delivered' => \/ /\ Delivered
                            /\ run'.result = run.result /\ row'.message = row.message
                         \/ run'.result = row'.message
    <2>1. CASE Boot \/ Wake
      BY <2>1 DEF Boot, Wake, durable, Held, Delivered
    <2>2. CASE Skip \/ SendRejected \/ EditRejected
      BY <2>2 DEF Skip, SendRejected, EditRejected, Fail, Finish, durable, Held, Delivered
    <2>3. CASE RecordAttempt
      BY <1>4, <2>3 DEF RecordAttempt, Goto, Held, Delivered, RowType
    <2>4. CASE Select
      BY <2>4 DEF Select, Goto, durable, Held, Delivered, Visible, Sent, Ids, NoMessage
    <2>5. CASE EditGone
      BY <2>5 DEF EditGone, Goto, durable, Held, Delivered, Visible
    <2>6. CASE GetChatAnswers \/ GetChatFails \/ Pin
      BY <1>4, <2>6 DEF GetChatAnswers, GetChatFails, Pin, Goto, durable, Held, Delivered, RunType
    <2>7. CASE RecordSuccess
      BY <1>4, <2>7 DEF RecordSuccess, Finish, Held, Delivered, RowType
    <2>8. CASE SendRetryable
      BY <1>4, <2>8 DEF SendRetryable, Retry, Fail, Finish, durable, Held, Delivered, RunType
    <2>9. CASE Tick \/ AdminChangesPin \/ MessageLost \/ UNCHANGED vars
      BY <2>9 DEF Tick, AdminChangesPin, MessageLost, vars, memory, durable, Held, Delivered
    <2> QED
      BY <2>1, <2>2, <2>3, <2>4, <2>5, <2>6, <2>7, <2>8, <2>9
  <1>6. PaidFor'
    BY <1>2, <1>3, <1>5, NothingMore, TroublesCount
  <1>7. Replaced'
    BY <1>3, <1>5 DEF MessagesInv, Replaced
  <1> QED
    BY <1>6, <1>7 DEF MessagesInv

(* An edit, whatever becomes of it, shows no message that was not there.   *)
LEMMA EditMessages ==
  ASSUME Inv, MessagesInv, EditAcknowledged \/ EditRetryable
  PROVE  MessagesInv'
  <1> USE DigestAssumption
  <1>1. /\ pc = "edit" /\ row' = row /\ gone' = gone
        /\ \/ channel' = channel
           \/ channel' = [channel EXCEPT ![row.message] = run.win]
        /\ run \in RunType
    BY Types DEF EditAcknowledged, EditRetryable
  <1>2. row.message \in Sent /\ run.win # 0 /\ channel \in [Ids -> 0 .. Windows]
    BY <1>1, Types DEF Inv, EditsExisting, MessageSent, RunIsNewest, Running
  <1>3. Visible' = Visible
    BY <1>1, <1>2 DEF Visible, Sent
  <1>4. Held' = Held /\ pc' # "create" /\ (Delivered' => run'.result = row'.message)
    BY <1>1 DEF EditAcknowledged, EditRetryable, Retry, Fail, Finish, Goto, Held,
       Delivered, RunType
  <1>5. Troubles' = Troubles
    BY DEF EditAcknowledged, EditRetryable, troubles, Troubles
  <1>6. PaidFor'
    BY <1>3, <1>4, <1>5, NothingMore, TroublesCount
  <1> QED
    BY <1>4, <1>6 DEF MessagesInv, Replaced

(* A message that is sent comes up: held by the run if the answer came,    *)
(* and a trouble if not.                                                   *)
LEMMA SendMessages ==
  ASSUME Inv, MessagesInv, SendAcknowledged \/ SendAckLost
  PROVE  MessagesInv'
  <1> USE DigestAssumption
  <1>1. PICK m \in Ids \ Sent :
          /\ channel' = [channel EXCEPT ![m] = run.win]
          /\ SendAcknowledged => run' = [run EXCEPT !.tries = 0, !.result = m]
    BY DEF SendAcknowledged, SendAckLost
  <1>2. pc = "create" /\ row' = row /\ gone' = gone /\ run \in RunType
        /\ channel \in [Ids -> 0 .. Windows]
    BY Types DEF SendAcknowledged, SendAckLost
  <1>3. Visible' \subseteq Visible \cup {m} /\ m # row.message
    BY <1>1, <1>2 DEF Visible, Sent, Inv, MessageSent, NoMessage, Ids
  <1>4. row.message \notin Visible /\ Held = row.message
    BY <1>2 DEF MessagesInv, Replaced, Held, Delivered
  <1>5. row.message \notin Visible'
    BY <1>3, <1>4
  <1>6. CASE SendAcknowledged
    <2>1. run'.result = m /\ pc' = "pin" /\ Troubles' = Troubles
      BY <1>1, <1>2, <1>6 DEF SendAcknowledged, Goto, RunType, troubles, Troubles
    <2>2. Held' = m
      BY <2>1 DEF Held, Delivered
    <2>3. PaidFor'
      BY <1>3, <1>4, <2>1, <2>2, NothingMore, TroublesCount
    <2> QED
      BY <1>2, <1>5, <2>1, <2>3 DEF MessagesInv, Replaced
  <1>7. CASE SendAckLost
    <2>1. pc' \in {"create", "asleep"} /\ Troubles' = Troubles + 1
      <3>1. lostAcks' = lostAcks + 1 /\ crashes' = crashes /\ dbFaults' = dbFaults
        BY <1>7 DEF SendAckLost
      <3> QED
        BY <1>2, <1>7, <3>1, TroublesCount DEF SendAckLost, Retry, Fail, Finish, Troubles
    <2>2. Held' = row.message
      BY <1>2, <2>1 DEF Held, Delivered
    <2>3. PaidFor'
      BY <1>3, <1>4, <2>1, <2>2, OneMore
    <2> QED
      BY <1>2, <1>5, <2>1, <2>3 DEF MessagesInv, Replaced, Delivered
  <1> QED
    BY <1>6, <1>7

(* A run that ends on a database error or with the process lets go of what *)
(* it held.                                                                *)
LEMMA LosingMessages ==
  ASSUME Inv, MessagesInv, DatabaseFails \/ Crash
  PROVE  MessagesInv'
  <1>1. /\ row' = row /\ channel' = channel /\ gone' = gone
        /\ pc' \in {"down", "asleep"}
    BY DEF DatabaseFails, DbFault, Fail, Finish, Crash, durable
  <1>2. Troubles' = Troubles + 1
    BY TroublesCount DEF DatabaseFails, DbFault, Crash, Troubles
  <1>3. Visible' = Visible /\ Held' = row.message
    BY <1>1 DEF Visible, Sent, Held, Delivered
  <1>4. PaidFor'
    BY <1>2, <1>3, OneMore
       DEF MessagesInv, Replaced, Held
  <1> QED
    BY <1>1, <1>4 DEF MessagesInv, Replaced, Delivered

LEMMA NextMessages == Inv /\ MessagesInv /\ [Next]_vars => MessagesInv'
  BY CalmMessages, EditMessages, SendMessages, LosingMessages DEF Next, Call, Done

(* The channel holds one digest message, and one more for each crash,      *)
(* database error or lost answer.                                          *)
THEOREM MessagesCounted == Spec => []OneMessagePerTrouble
  <1>1. Inv /\ MessagesInv => OneMessagePerTrouble
    <2> SUFFICES ASSUME Inv, MessagesInv PROVE Cardinality(Visible) <= 1 + Troubles
      BY TroublesCount DEF OneMessagePerTrouble, Troubles
    <2> DEFINE S == Visible \ {Held}
    <2>1. IsFiniteSet(S) /\ Cardinality(S) \in Nat /\ Cardinality(S) <= Troubles
      BY VisibleFinite DEF MessagesInv, PaidFor
    <2>2. IsFiniteSet(S \cup {Held}) /\ Cardinality(S \cup {Held}) = Cardinality(S) + 1
      BY <2>1, FS_AddElement
    <2>3. Visible \in SUBSET (S \cup {Held})
      OBVIOUS
    <2>4. Cardinality(Visible) <= Cardinality(S \cup {Held}) /\ Cardinality(Visible) \in Nat
      BY <2>2, <2>3, FS_Subset, VisibleFinite
    <2> HIDE DEF S
    <2> QED
      BY <2>1, <2>2, <2>4, TroublesCount
  <1>2. Spec => []MessagesInv
    BY InitMessages, InvHolds, NextMessages, PTL DEF Spec
  <1> QED
    BY <1>1, <1>2, InvHolds, PTL
-----------------------------------------------------------------------------
(* Pins of administrators.                                                 *)

(* What getChat answered is a number of acts in the past, and the message  *)
(* of digest_state waits for its pin only under an administrator's pin     *)
(* that is newer than the answer.                                          *)
PinInv ==
    /\ run.adminActs \in Nat /\ run.adminActs <= adminActs
    /\ pc = "pin" /\ run.result = row.message /\ newestPin = Admin
          => adminActs > run.adminActs

(* The calls that neither send nor ask for the pin.                        *)
LEMMA OtherCallPins ==
  ASSUME Inv, PinInv,
         \/ Skip \/ RecordAttempt \/ Select \/ DatabaseFails
         \/ EditAcknowledged \/ EditGone \/ EditRetryable \/ EditRejected
         \/ SendRetryable \/ SendAckLost \/ SendRejected
         \/ GetChatFails \/ Pin \/ RecordSuccess \/ Boot \/ Wake \/ Crash
  PROVE  PinInv'
  <1>1. /\ run \in RunType /\ adminActs \in Nat /\ adminActs' = adminActs
    BY DigestAssumption
    DEF Inv, TypeOK, RunType, Skip, RecordAttempt, Select, DatabaseFails, DbFault,
        EditAcknowledged, EditGone, EditRetryable, EditRejected, SendRetryable,
        SendAckLost, SendRejected, GetChatFails, Pin, RecordSuccess, Boot, Wake, Crash,
        troubles
  <1>2. pc' # "pin"
    BY DEF Skip, RecordAttempt, Select, DatabaseFails, DbFault, Fail, Finish, Goto,
        EditAcknowledged, EditGone, EditRetryable, EditRejected, Retry, SendRetryable,
        SendAckLost, SendRejected, GetChatFails, Pin, RecordSuccess, Boot, Wake, Crash
  <1>3. run'.adminActs \in {0, run.adminActs}
    <2>1. CASE Skip \/ DatabaseFails \/ EditRejected \/ SendRejected \/ RecordSuccess \/ Crash
      BY <2>1 DEF Skip, DatabaseFails, DbFault, Fail, Finish, EditRejected,
         SendRejected, RecordSuccess, Crash, NoRun
    <2>2. CASE RecordAttempt \/ Select \/ GetChatFails \/ Pin
      BY <2>2 DEF RecordAttempt, Select, GetChatFails, Pin
    <2>3. CASE EditAcknowledged \/ EditGone
      BY <1>1, <2>3 DEF EditAcknowledged, EditGone, RunType
    <2>4. CASE EditRetryable \/ SendRetryable \/ SendAckLost
      BY <1>1, <2>4 DEF EditRetryable, SendRetryable, SendAckLost, Retry, Fail, Finish,
         NoRun, RunType
    <2>5. CASE Boot \/ Wake
      BY <2>5 DEF Boot, Wake, NoRun
    <2> QED
      BY <2>1, <2>2, <2>3, <2>4, <2>5
  <1>4. run.adminActs \in Nat /\ 0 <= run.adminActs /\ run.adminActs <= adminActs
    BY DEF PinInv
  <1> QED
    BY <1>1, <1>2, <1>3, <1>4 DEF PinInv

(* A new message is not the one of digest_state.                           *)
LEMMA SendPins ==
  ASSUME Inv, PinInv, SendAcknowledged
  PROVE  PinInv'
  <1>1. PICK m \in Ids \ Sent :
           /\ channel' = [channel EXCEPT ![m] = run.win]
           /\ run' = [run EXCEPT !.tries = 0, !.result = m]
    BY DEF SendAcknowledged
  <1>2. run \in RunType
    BY DEF Inv, TypeOK, RunType
  <1>3. run'.result = m /\ run'.adminActs = run.adminActs
    BY <1>1, <1>2 DEF RunType
  <1>4. row' = row /\ adminActs' = adminActs
    BY DEF SendAcknowledged, troubles
  <1>5. m # row.message
    BY DEF Inv, MessageSent, NoMessage, Ids
  <1> QED
    BY <1>3, <1>4, <1>5 DEF PinInv

LEMMA SendLeavesPin == SendAcknowledged \/ SendAckLost => newestPin' = newestPin
  BY DEF SendAcknowledged, SendAckLost

LEMMA NextPins == Inv /\ PinInv /\ [Next]_vars => PinInv'
  <1> SUFFICES ASSUME Inv, PinInv, [Next]_vars PROVE PinInv'
    OBVIOUS
  <1>1. run \in RunType /\ adminActs \in Nat
    BY DigestAssumption DEF Inv, TypeOK, RunType
  <1>2. CASE SendAcknowledged
    BY <1>2, SendPins
  <1>3. CASE GetChatAnswers
    <2>1. run'.adminActs = adminActs /\ adminActs' = adminActs /\ newestPin' = newestPin
      BY <1>1, <1>3 DEF GetChatAnswers, RunType, durable, troubles
    <2>2. pc' = "pin" => newestPin # Admin
      BY <1>3, DigestAssumption DEF GetChatAnswers, Goto
    <2> QED
      BY <1>1, <2>1, <2>2 DEF PinInv
  <1>4. CASE AdminChangesPin \/ MessageLost
    <2>1. run' = run /\ adminActs' = adminActs + 1
      BY <1>4 DEF AdminChangesPin, MessageLost, memory
    <2>2. run.adminActs \in Nat /\ run.adminActs <= adminActs
      BY DEF PinInv
    <2>3. run'.adminActs <= adminActs' /\ adminActs' > run'.adminActs
      BY <1>1, <2>1, <2>2
    <2> QED
      BY <2>1, <2>2, <2>3 DEF PinInv
  <1>5. CASE Tick \/ Done \/ UNCHANGED vars
    BY <1>5 DEF Tick, Done, vars, durable, memory, troubles, PinInv
  <1> QED
    BY <1>2, <1>3, <1>4, <1>5, OtherCallPins DEF Next, Call

(* The message of digest_state is pinned over an administrator's pin only  *)
(* if that pin was set after getChat answered.                             *)
THEOREM AdminRespected == Spec => AdminPinRespected
  <1>1. Init => PinInv
    BY DEF Init, PinInv, NoRun
  <1>2. Inv /\ PinInv /\ [Next]_vars =>
          (newestPin = Admin /\ newestPin' = row.message /\ row.message # NoMessage
             /\ adminActs' = adminActs => adminActs > run.adminActs)
    <2> SUFFICES ASSUME Inv, PinInv, [Next]_vars, newestPin = Admin,
                        newestPin' = row.message, row.message # NoMessage,
                        adminActs' = adminActs
                 PROVE  adminActs > run.adminActs
      OBVIOUS
    <2>1. row.message # Admin /\ adminActs \in Nat
      BY DigestAssumption DEF Inv, TypeOK, NoMessage
    <2>2. newestPin' # newestPin
      BY <2>1
    <2>3. ~(AdminChangesPin \/ MessageLost)
      BY <2>1 DEF AdminChangesPin, MessageLost
    <2>4. ~(\/ Skip \/ RecordAttempt \/ Select \/ DatabaseFails \/ RecordSuccess
            \/ Boot \/ Wake \/ Tick \/ Crash \/ Done \/ UNCHANGED vars)
      BY <2>2 DEF Skip, RecordAttempt, Select, DatabaseFails, DbFault, RecordSuccess,
         Boot, Wake, Tick, Crash, Done, vars, durable
    <2>5. ~(\/ EditAcknowledged \/ EditGone \/ EditRetryable \/ EditRejected
            \/ SendAcknowledged \/ SendRetryable \/ SendAckLost \/ SendRejected
            \/ GetChatAnswers \/ GetChatFails)
      BY <2>2, SendLeavesPin DEF EditAcknowledged, EditGone, EditRetryable,
         EditRejected, SendRetryable, SendRejected, GetChatAnswers, GetChatFails, durable
    <2>6. Pin
      BY <2>3, <2>4, <2>5 DEF Next, Call
    <2> QED
      BY <2>2, <2>6 DEF Pin, PinInv
  <1> QED
    BY <1>1, <1>2, NextPins, InvHolds, PTL DEF Spec, AdminPinRespected
=============================================================================
