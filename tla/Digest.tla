------------------------------- MODULE Digest -------------------------------
(***************************************************************************)
(* The six-hour digest of app/services/digest: the scheduler's loop, one   *)
(* execution of a window, the calls on the pinned message and the single   *)
(* digest_state row that makes a restart safe.                             *)
(*                                                                         *)
(* Windows are numbered in the order they complete.  What a message shows  *)
(* is the number of the window it was rendered for: the text itself is     *)
(* that of the selection and the formatter.  The selection may fail.       *)
(***************************************************************************)
EXTENDS Integers, FiniteSets

CONSTANTS
    Windows,       \* bound: windows that complete
    MaxMessages,   \* bound: messages the digest sends
    MaxAttempts,   \* attempts of a Telegram call (3)
    MaxDbFaults,   \* bound: statements or commits that fail
    MaxCrashes,    \* bound: ends of the process
    MaxAdminActs,  \* bound: acts of the channel's administrators
    Admin          \* a pinned message that is not the digest's

NoMessage == 0
Ids       == 1 .. MaxMessages

ASSUME DigestAssumption ==
    /\ Windows \in Nat \ {0} /\ MaxMessages \in Nat
    /\ MaxAttempts \in Nat \ {0}
    /\ MaxDbFaults \in Nat /\ MaxCrashes \in Nat /\ MaxAdminActs \in Nat
    /\ Admin \notin Ids \cup {NoMessage}

VARIABLES
    clock,      \* the latest completed window
    row,        \* digest_state, 0 for NULL
    channel,    \* channel[m]: the window message m shows, 0 if never sent
    gone,       \* messages that are deleted or that can't be edited any more
    newestPin,  \* what getChat shows as pinned_message
    pc,         \* where the scheduler's task is
    run,        \* the execution of one window, see NoRun
    due,        \* the scheduler sleeps until the window after this completes
    report,     \* what get_digest_status answers: outcome and window
    crashes, dbFaults, lostAcks, adminActs   \* what went wrong so far

durable  == <<row, channel, gone, newestPin>>
memory   == <<pc, run, due, report>>
troubles == <<crashes, dbFaults, lostAcks, adminActs>>
vars     == <<clock, durable, memory, troubles>>

-----------------------------------------------------------------------------
(* win: its window; tries: retried attempts of the running call; result:   *)
(* the message created or edited; adminActs: their number when getChat     *)
(* answered, a history variable.                                           *)
NoRun == [win |-> 0, tries |-> 0, result |-> NoMessage,
          adminActs |-> 0]
NeverRun == [status |-> "pending", win |-> 0]

Sent    == {m \in Ids : channel[m] # 0}
Visible == Sent \ gone
Running == pc \notin {"down", "asleep"}

Init ==
    /\ clock = 1
    /\ row = [message |-> NoMessage, completed |-> 0, attempted |-> 0]
    /\ channel = [m \in Ids |-> 0]
    /\ gone = {} /\ newestPin = NoMessage
    /\ pc = "down" /\ run = NoRun /\ due = 0
    /\ report = NeverRun
    /\ crashes = 0 /\ dbFaults = 0 /\ lostAcks = 0 /\ adminActs = 0

(* _run_once returned: the loop computes the boundary that follows now and *)
(* sleeps until then.  FAILED is reported for its window as well.          *)
Finish(status) ==
    /\ pc' = "asleep"
    /\ due' = clock
    /\ report' = [status |-> status, win |-> run.win]
    /\ run' = NoRun

Goto(label) == pc' = label /\ UNCHANGED <<due, report>>

(* Any exception ends in run_digest_for_window.                            *)
Fail == Finish("failed")

\* Mutant: one attempt too many.
MutRetry(exhausted) ==
    IF run.tries < MaxAttempts
    THEN run' = [run EXCEPT !.tries = @ + 1] /\ UNCHANGED <<pc, due, report>>
    ELSE exhausted

(* tenacity: a RetryableError is retried until the last attempt, then the  *)
(* call raises.                                                            *)
Retry(exhausted) ==
    IF run.tries + 1 < MaxAttempts
    THEN run' = [run EXCEPT !.tries = @ + 1] /\ UNCHANGED <<pc, due, report>>
    ELSE exhausted

DbFault ==
    /\ dbFaults < MaxDbFaults
    /\ dbFaults' = dbFaults + 1
    /\ Fail
    /\ UNCHANGED <<durable, crashes, lostAcks, adminActs>>

-----------------------------------------------------------------------------
(* DigestScheduler.start                                                   *)

(* Startup recovery and the loop both take DigestWindow.latest_completed.  *)
Boot ==
    /\ pc = "down"
    /\ pc' = "begin"
    /\ run' = [NoRun EXCEPT !.win = clock]
    /\ UNCHANGED <<clock, durable, due, report, troubles>>

Wake ==
    /\ pc = "asleep"
    /\ clock > due
    /\ pc' = "begin"
    /\ run' = [NoRun EXCEPT !.win = clock]
    /\ UNCHANGED <<clock, durable, due, report, troubles>>

-----------------------------------------------------------------------------
(* run_digest_for_window                                                   *)

Skip ==
    /\ pc = "begin" /\ row.completed = run.win
    /\ Finish("ok")
    /\ UNCHANGED <<clock, durable, troubles>>

\* Mutant: the guard on last_completed_window_start is dropped.
MutRecordAttemptAlways ==
    /\ pc = "begin"
    /\ row' = [row EXCEPT !.attempted = run.win]
    /\ Goto("select")
    /\ UNCHANGED <<clock, channel, gone, newestPin, run, troubles>>

\* Mutant: the attempt marks the window completed before it is delivered.
MutRecordAttemptCompletes ==
    /\ pc = "begin" /\ row.completed # run.win
    /\ row' = [row EXCEPT !.attempted = run.win, !.completed = run.win]
    /\ Goto("select")
    /\ UNCHANGED <<clock, channel, gone, newestPin, run, troubles>>

RecordAttempt ==
    /\ pc = "begin" /\ row.completed # run.win
    /\ row' = [row EXCEPT !.attempted = run.win]
    /\ Goto("select")
    /\ UNCHANGED <<clock, channel, gone, newestPin, run, troubles>>

(* The entries are selected and rendered; state.message_id decides which   *)
(* call delivers the text.                                                 *)
Select ==
    /\ pc = "select"
    /\ Goto(IF row.message = NoMessage THEN "create" ELSE "edit")
    /\ UNCHANGED <<clock, durable, run, troubles>>

DatabaseFails ==
    /\ pc \in {"begin", "select", "record"}
    /\ DbFault
    /\ UNCHANGED clock

(* editMessageText: ok, or the 400 "message is not modified" of a text     *)
(* that an unacknowledged attempt already delivered.                       *)
EditAcknowledged ==
    /\ pc = "edit" /\ row.message \notin gone
    /\ channel' = [channel EXCEPT ![row.message] = run.win]
    /\ run' = [run EXCEPT !.tries = 0, !.result = row.message]
    /\ Goto("getchat")
    /\ UNCHANGED <<clock, row, gone, newestPin, troubles>>

EditGone ==
    /\ pc = "edit" /\ row.message \in gone
    /\ run' = [run EXCEPT !.tries = 0]
    /\ Goto("create")
    /\ UNCHANGED <<clock, durable, troubles>>

(* 429 or a network error: the edit may have been applied.                 *)
EditRetryable ==
    /\ pc = "edit"
    /\ \/ UNCHANGED channel
       \/ /\ row.message \notin gone
          /\ channel' = [channel EXCEPT ![row.message] = run.win]
    /\ Retry(Fail)
    /\ UNCHANGED <<clock, row, gone, newestPin, troubles>>

\* Mutant: a replacement is created after any rejected edit.
MutEditRejectedReplaces ==
    /\ pc = "edit"
    /\ run' = [run EXCEPT !.tries = 0]
    /\ Goto("create")
    /\ UNCHANGED <<clock, durable, troubles>>

\* Mutant: an edit that is answered ok = false is taken for a success.
MutEditRejectedIsSuccess ==
    /\ pc = "edit"
    /\ run' = [run EXCEPT !.tries = 0, !.result = row.message]
    /\ Goto("getchat")
    /\ UNCHANGED <<clock, durable, troubles>>

(* Any other status, or ok = false.                                        *)
EditRejected ==
    /\ pc = "edit"
    /\ Fail
    /\ UNCHANGED <<clock, durable, troubles>>

(* sendMessage: of the window's text, or of the replacement.               *)
SendAcknowledged ==
    /\ pc = "create"
    /\ \E m \in Ids \ Sent :
          /\ channel' = [channel EXCEPT ![m] = run.win]
          /\ run' = [run EXCEPT !.tries = 0, !.result = m]
    /\ Goto("pin")
    /\ UNCHANGED <<clock, row, gone, newestPin, troubles>>

\* Mutant: a send that fails starts the delivery again, without counting.
MutSendRetryable ==
    /\ pc = "create"
    /\ run' = [run EXCEPT !.tries = 0]
    /\ Goto("select")
    /\ UNCHANGED <<clock, durable, troubles>>

SendRetryable ==
    /\ pc = "create"
    /\ Retry(Fail)
    /\ UNCHANGED <<clock, durable, troubles>>

(* A network error after Telegram posted the message.                      *)
SendAckLost ==
    /\ pc = "create"
    /\ \E m \in Ids \ Sent : channel' = [channel EXCEPT ![m] = run.win]
    /\ lostAcks' = lostAcks + 1
    /\ Retry(Fail)
    /\ UNCHANGED <<clock, row, gone, newestPin, crashes, dbFaults, adminActs>>

SendRejected ==
    /\ pc = "create"
    /\ Fail
    /\ UNCHANGED <<clock, durable, troubles>>

\* Mutant: the message is pinned whenever getChat does not show it.
MutGetChatPinsOver ==
    /\ pc = "getchat"
    /\ run' = [run EXCEPT !.adminActs = adminActs]
    /\ Goto(IF newestPin = row.message THEN "record" ELSE "pin")
    /\ UNCHANGED <<clock, durable, troubles>>

(* _ensure_pinned: only a chat without any pinned message is pinned to;    *)
(* a failing getChat is no reason to fail the run.                         *)
GetChatAnswers ==
    /\ pc = "getchat"
    /\ run' = [run EXCEPT !.adminActs = adminActs]
    /\ Goto(IF newestPin = NoMessage THEN "pin" ELSE "record")
    /\ UNCHANGED <<clock, durable, troubles>>

GetChatFails ==
    /\ pc = "getchat"
    /\ Goto("record")
    /\ UNCHANGED <<clock, durable, run, troubles>>

(* _pin_best_effort, with every outcome of the retried call.               *)
Pin ==
    /\ pc = "pin"
    /\ \/ newestPin' = run.result
       \/ UNCHANGED newestPin
    /\ Goto("record")
    /\ UNCHANGED <<clock, row, channel, gone, run, troubles>>

RecordSuccess ==
    /\ pc = "record"
    /\ row' = [row EXCEPT !.completed = run.win, !.message = run.result]
    /\ Finish("ok")
    /\ UNCHANGED <<clock, channel, gone, newestPin, troubles>>

-----------------------------------------------------------------------------
(* Surroundings                                                            *)

(* Six hours go by.  The scheduler is not asleep past a boundary it waits  *)
(* for, and a run is shorter than a window but may cross a boundary.       *)
Tick ==
    /\ clock < Windows
    /\ pc = "asleep" => clock = due
    /\ Running => clock = run.win
    /\ clock' = clock + 1
    /\ UNCHANGED <<durable, memory, troubles>>

(* The process ends, and with it everything that was not committed.        *)
Crash ==
    /\ pc # "down" /\ crashes < MaxCrashes
    /\ crashes' = crashes + 1
    /\ pc' = "down" /\ run' = NoRun /\ due' = 0 /\ report' = NeverRun
    /\ UNCHANGED <<clock, durable, dbFaults, lostAcks, adminActs>>

AdminChangesPin ==
    /\ adminActs < MaxAdminActs
    /\ \E p \in Visible \cup {Admin, NoMessage} : p # newestPin /\ newestPin' = p
    /\ adminActs' = adminActs + 1
    /\ UNCHANGED <<clock, row, channel, gone, memory, crashes, dbFaults, lostAcks>>

MessageLost ==
    /\ adminActs < MaxAdminActs
    /\ \E m \in Visible :
          /\ gone' = gone \cup {m}
          /\ newestPin' \in IF newestPin = m THEN {m, Admin, NoMessage}
                                             ELSE {newestPin}
    /\ adminActs' = adminActs + 1
    /\ UNCHANGED <<clock, row, channel, memory, crashes, dbFaults, lostAcks>>

(* The modelled time is over.                                              *)
Done ==
    /\ clock = Windows /\ pc = "asleep" /\ due = clock
    /\ UNCHANGED vars

Call ==
    \/ Skip \/ RecordAttempt \/ Select \/ DatabaseFails
    \/ EditAcknowledged \/ EditGone \/ EditRetryable \/ EditRejected
    \/ SendAcknowledged \/ SendRetryable \/ SendAckLost \/ SendRejected
    \/ GetChatAnswers \/ GetChatFails \/ Pin \/ RecordSuccess

Next ==
    \/ Boot \/ Wake \/ Call
    \/ Tick \/ Crash \/ AdminChangesPin \/ MessageLost \/ Done

Spec == Init /\ [][Next]_vars

(* Every await of the task ends: the HTTP client has a timeout, attempts   *)
(* are counted, and asyncio.sleep returns.  Time passes, and systemd       *)
(* starts the process again.  Nothing of the surroundings has to happen.   *)
FairSpec ==
    /\ Spec
    /\ WF_vars(Boot) /\ WF_vars(Wake) /\ WF_vars(Call) /\ WF_vars(Tick)

-----------------------------------------------------------------------------
TypeOK ==
    /\ clock \in 1 .. Windows
    /\ row \in [message : Ids \cup {NoMessage}, completed : 0 .. Windows,
                attempted : 0 .. Windows]
    /\ channel \in [Ids -> 0 .. Windows]
    /\ gone \subseteq Sent
    /\ newestPin \in Ids \cup {Admin, NoMessage}
    /\ pc \in {"down", "asleep", "begin", "select", "edit", "create",
               "getchat", "pin", "record"}
    /\ run \in [win : 0 .. Windows, tries : 0 .. MaxAttempts - 1,
                result : Ids \cup {NoMessage}, adminActs : 0 .. MaxAdminActs]
    /\ due \in 0 .. Windows
    /\ report \in [status : {"pending", "ok", "failed"}, win : 0 .. Windows]
    /\ crashes \in 0 .. MaxCrashes /\ dbFaults \in 0 .. MaxDbFaults
    /\ lostAcks \in Nat /\ adminActs \in 0 .. MaxAdminActs

(* The exactly-once authority: a window that is recorded as completed is   *)
(* really shown by the message whose id is recorded with it, or by a later *)
(* digest in that message, unless an administrator took the message away.  *)
RecordedIsShown ==
    row.completed # 0 =>
        /\ row.message \in Sent
        /\ row.message \in gone \/ channel[row.message] >= row.completed

(* What the health endpoint calls ok is on the channel: the reported       *)
(* window is recorded, and the recorded message shows it.                  *)
OkIsShown ==
    pc = "asleep" /\ report.status = "ok" =>
        /\ row.completed = report.win
        /\ row.message \in gone \/ channel[row.message] = report.win

(* A digest text is only delivered for a window that is not yet recorded,  *)
(* and never replaces the text of a later one: no restart, retry or second *)
(* trigger takes the channel back or publishes a completed window again.   *)
CompletedWindowNotTouched ==
    [][\A m \in Ids : channel'[m] # channel[m] =>
          channel'[m] > row.completed /\ channel'[m] > channel[m]]_vars

(* The channel holds one digest message, and at most one more for every    *)
(* crash, database error or lost acknowledgement: edits, replacements and  *)
(* reruns never multiply it by themselves.                                 *)
OneMessagePerTrouble ==
    Cardinality(Visible) <= 1 + crashes + dbFaults + lostAcks

(* The existing digest message is pinned again only over a chat without a  *)
(* pin, as far as getChat could tell: it covers a pin of an administrator  *)
(* only if that pin was set after getChat answered.                        *)
AdminPinRespected ==
    [][newestPin = Admin /\ newestPin' = row.message /\ row.message # NoMessage
       /\ adminActs' = adminActs
          => adminActs > run.adminActs]_vars

(* scheduler.py, line 3: the digest runs exactly once per completed        *)
(* window.  Within one life of the process no window is passed over.       *)
EveryWindowRuns ==
    pc = "begin" /\ report.win # 0 => run.win <= report.win + 1

(* The scheduler never falls silent: whatever fails, is lost or restarts,  *)
(* for every completed window a report about it or a later one follows;    *)
(* a window that is passed over costs one digest and not the scheduler     *)
(* (service.py:37-45, scheduler.py:72-85).                                 *)
NeverSilent ==
    \A w \in 1 .. Windows - 1 : clock = w ~> report.win >= w

=============================================================================
