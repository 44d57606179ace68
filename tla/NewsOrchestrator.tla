-------------------------- MODULE NewsOrchestrator --------------------------
(***************************************************************************)
(* The send-then-edit pipeline of app/services/news/orchestrator.py.       *)
(*                                                                         *)
(* One call of process_message runs at a time (the RSS poller awaits each  *)
(* item): it deduplicates by content hash, inserts the news row, sends the *)
(* raw English message and hands over to a background asyncio task.  Any   *)
(* number of background tasks run concurrently with it, one per item: they *)
(* enrich, call the AI, store the Arabic text and edit the message.        *)
(*                                                                         *)
(* An action is the code between two points where the coroutine waits for  *)
(* the database or for the network.  What survives a restart is the table  *)
(* news and what Telegram delivered; the calls and the tasks do not.       *)
(***************************************************************************)
EXTENDS Integers

CONSTANTS
    Guids,           \* source_message_id values of feed items
    Contents,        \* content hashes of non-empty normalised headlines
    Blank,           \* a headline that normalises to the empty string
    NoGuid,          \* no item: process_message is not running
    MaxAttempts,     \* stop_after_attempt of the tenacity decorators (3)
    OkFalse,         \* may Telegram answer an edit with 200 and ok = false?
    RecoveryWired,   \* may a startup call recover_interrupted_records?
    MaxDbFaults,     \* bound: database errors in news statements
    MaxCrashes       \* bound: restarts of the process

ASSUME ConstantsAssumption ==
    /\ Blank \notin Contents
    /\ NoGuid \notin Guids
    /\ MaxAttempts \in Nat \ {0}
    /\ MaxDbFaults \in Nat /\ MaxCrashes \in Nat
    /\ OkFalse \in BOOLEAN /\ RecoveryWired \in BOOLEAN

VARIABLES
    news,            \* table news: one row per guid, status "ABSENT" if none
    delivered,       \* messages Telegram posted to the channel for the item
    shown,           \* text of the message whose id the bot learned
    fast,            \* the running call of process_message
    task,            \* the background task of each item
    booting,         \* started again, recovery not yet done
    dbFaults, crashes

telegram == <<delivered, shown>>
env      == <<dbFaults, crashes>>
vars     == <<news, delivered, shown, fast, task, booting, env>>

-----------------------------------------------------------------------------
(* Rows, calls and tasks.                                                   *)

Transient == {"RECEIVED", "TELEGRAM_PENDING", "AI_PENDING", "AI_SUCCESS"}
Settled   == {"PUBLISHED", "AI_FAILED", "FAILED"}

\* last_error, by what raised: sending, the validator or an unusable AI reply,
\* retries exhausted, anything else, or the startup recovery.
Errors == {"none", "send", "content", "outage", "other", "interrupted"}

Row == [status : Transient \cup Settled \cup {"ABSENT"},
        hash : Contents \cup {Blank}, tg : BOOLEAN, arabic : BOOLEAN,
        retries : Nat, err : Errors]

NoRow == [status |-> "ABSENT", hash |-> Blank, tg |-> FALSE, arabic |-> FALSE,
          retries |-> 0, err |-> "none"]
NewRow(c) == [status |-> "RECEIVED", hash |-> c, tg |-> FALSE,
              arabic |-> FALSE, retries |-> 0, err |-> "none"]

Idle == [pc |-> "idle", guid |-> NoGuid, content |-> Blank, tries |-> 0]
Running == [pc : {"lookup", "insert", "send", "store", "senderr"},
            guid : Guids, content : Contents \cup {Blank},
            tries : 0 .. MaxAttempts - 1]

Stages == {"story", "indicator", "macro"}
TaskPoints == Stages \cup {"none", "load", "ai", "commit_success", "edit",
                           "commit_published", "record", "aifail", "fail"}
Task == [pc : TaskPoints, tries : 0 .. MaxAttempts - 1, story : BOOLEAN,
         err : Errors]
NoTask  == [pc |-> "none", tries |-> 0, story |-> FALSE, err |-> "none"]
NewTask == [pc |-> "load", tries |-> 0, story |-> FALSE, err |-> "none"]

Stored(g) == news[g].status # "ABSENT"

\* Mutant: only published items count as duplicates.
MutKnownPublished(c) == \E g \in Guids : /\ news[g].status = "PUBLISHED"
                                        /\ news[g].hash = c
Known(c)  == \E g \in Guids : Stored(g) /\ news[g].hash = c

Init ==
    /\ news = [g \in Guids |-> NoRow]
    /\ delivered = [g \in Guids |-> 0]
    /\ shown = [g \in Guids |-> "nothing"]
    /\ fast = Idle
    /\ task = [g \in Guids |-> NoTask]
    /\ booting = FALSE
    /\ dbFaults = 0 /\ crashes = 0

-----------------------------------------------------------------------------
(* The database may fail, up to a bound.                                    *)

NoFault == UNCHANGED env
DbFault ==
    /\ dbFaults < MaxDbFaults
    /\ dbFaults' = dbFaults + 1
    /\ UNCHANGED crashes

\* Mutant: one attempt too many.
MutRetriesOneMore(n) == n < MaxAttempts

\* tenacity: may a call that failed its (n+1)-th attempt be tried once more?
Retries(n) == n + 1 < MaxAttempts

-----------------------------------------------------------------------------
(* The fast path: process_message.                                          *)

Receive(g, c) ==
    /\ fast = Idle
    /\ ~booting
    /\ fast' = [pc |-> "lookup", guid |-> g, content |-> c, tries |-> 0]
    /\ UNCHANGED <<news, telegram, task, booting, env>>

\* An empty headline and a content already stored end the call.
Lookup ==
    /\ fast.pc = "lookup"
    /\ \/ /\ fast' = IF fast.content = Blank \/ Known(fast.content)
                     THEN Idle ELSE [fast EXCEPT !.pc = "insert"]
          /\ NoFault
       \/ /\ fast.content # Blank
          /\ fast' = Idle
          /\ DbFault
    /\ UNCHANGED <<news, telegram, task, booting>>

\* add() turns the violation of uq_news_source_message_id into a DatabaseError,
\* so the handler for IntegrityError never runs and the call raises.
Insert ==
    /\ fast.pc = "insert"
    /\ \/ /\ ~Stored(fast.guid)
          /\ news' = [news EXCEPT ![fast.guid] = NewRow(fast.content)]
          /\ fast' = [fast EXCEPT !.pc = "send"]
          /\ NoFault
       \/ /\ Stored(fast.guid)
          /\ fast' = Idle
          /\ UNCHANGED news /\ NoFault
       \/ /\ ~Stored(fast.guid)
          /\ fast' = Idle
          /\ UNCHANGED news /\ DbFault
    /\ UNCHANGED <<telegram, task, booting>>

SendAcknowledged ==
    /\ fast.pc = "send"
    /\ delivered' = [delivered EXCEPT ![fast.guid] = @ + 1]
    /\ shown' = [shown EXCEPT ![fast.guid] = "raw"]
    /\ fast' = [fast EXCEPT !.pc = "store"]
    /\ UNCHANGED <<news, task, booting, env>>

\* 429 or a network error, before or after Telegram posted the message.
SendRetryable ==
    /\ fast.pc = "send"
    /\ \/ UNCHANGED delivered
       \/ delivered' = [delivered EXCEPT ![fast.guid] = @ + 1]
    /\ fast' = IF Retries(fast.tries) THEN [fast EXCEPT !.tries = @ + 1]
                                      ELSE [fast EXCEPT !.pc = "senderr"]
    /\ UNCHANGED <<news, shown, task, booting, env>>

\* Another HTTP status, or ok = false: not retried.
SendRejected ==
    /\ fast.pc = "send"
    /\ fast' = [fast EXCEPT !.pc = "senderr"]
    /\ UNCHANGED <<news, telegram, task, booting, env>>

\* Mutant: the task is created although the commit failed.
MutStoreSentAlwaysSpawns ==
    /\ fast.pc = "store"
    /\ task' = [task EXCEPT ![fast.guid] = NewTask]
    /\ \/ /\ news' = [news EXCEPT ![fast.guid].status = "TELEGRAM_PENDING",
                                  ![fast.guid].tg = TRUE]
          /\ fast' = Idle
          /\ NoFault
       \/ /\ fast' = [fast EXCEPT !.pc = "senderr"]
          /\ UNCHANGED news /\ DbFault
    /\ UNCHANGED <<telegram, booting>>

\* The message id is committed, then the background task is created; a commit
\* that fails rolls the id back and falls into the except clause.
StoreSent ==
    /\ fast.pc = "store"
    /\ \/ /\ news' = [news EXCEPT ![fast.guid].status = "TELEGRAM_PENDING",
                                  ![fast.guid].tg = TRUE]
          /\ task' = [task EXCEPT ![fast.guid] = NewTask]
          /\ fast' = Idle
          /\ NoFault
       \/ /\ fast' = [fast EXCEPT !.pc = "senderr"]
          /\ UNCHANGED <<news, task>> /\ DbFault
    /\ UNCHANGED <<telegram, booting>>

MarkSendFailed ==
    /\ fast.pc = "senderr"
    /\ fast' = Idle
    /\ \/ /\ news' = [news EXCEPT ![fast.guid].status = "FAILED",
                                  ![fast.guid].err = "send"]
          /\ NoFault
       \/ UNCHANGED news /\ DbFault
    /\ UNCHANGED <<telegram, task, booting>>

FastStep == \/ Lookup \/ Insert \/ SendAcknowledged \/ SendRetryable
            \/ SendRejected \/ StoreSent \/ MarkSendFailed

-----------------------------------------------------------------------------
(* The background task: _process_ai_and_update.                             *)

Goto(g, pc)    == task' = [task EXCEPT ![g].pc = pc, ![g].tries = 0]
Fail(g, pc, e) == task' = [task EXCEPT ![g].pc = pc, ![g].err = e]
End(g)         == task' = [task EXCEPT ![g] = NoTask]

\* Outside the try block: a database error ends the task.
MarkAiPending(g) ==
    /\ task[g].pc = "load"
    /\ \/ /\ Stored(g)
          /\ news' = [news EXCEPT ![g].status = "AI_PENDING"]
          /\ Goto(g, "story") /\ NoFault
       \/ End(g) /\ UNCHANGED news /\ DbFault
    /\ UNCHANGED <<telegram, fast, booting>>

\* A stage that raises is rolled back.  If its transaction was open, rollback()
\* expires the attributes of the row; news.id in the except clause, and again
\* in the outer one, then raises and the task ends.  The rollback of a lost race
\* for a unique key, inside a stage, has the same effect: no fault is needed.
Stage(g, stage, next) ==
    /\ task[g].pc = stage
    /\ Goto(g, next) \/ End(g)
    /\ UNCHANGED <<news, telegram, fast, booting, env>>

StoryStage(g) ==
    \/ Stage(g, "story", "indicator")
    \/ /\ task[g].pc = "story"   \* linked to a story: a decision is kept
       /\ task' = [task EXCEPT ![g].pc = "indicator", ![g].story = TRUE]
       /\ UNCHANGED <<news, telegram, fast, booting, env>>
IndicatorStage(g) == Stage(g, "indicator", "macro")
MacroStage(g)     == Stage(g, "macro", "ai")

\* Mutant: only the validation errors are caught.
MutAiCallUncaught(g) ==
    /\ task[g].pc = "ai"
    /\ Goto(g, "commit_success") \/ Fail(g, "aifail", "content") \/ End(g)
    /\ UNCHANGED <<news, telegram, fast, booting, env>>

\* The AI reply is valid, is unusable or fails validation, or the three
\* attempts are exhausted (RetryError), or the validator itself raises.
AiCall(g) ==
    /\ task[g].pc = "ai"
    /\ \/ Goto(g, "commit_success")
       \/ Fail(g, "aifail", "content")
       \/ \E e \in {"outage", "other"} : Fail(g, "fail", e)
    /\ UNCHANGED <<news, telegram, fast, booting, env>>

\* Mutant: the text is left to the commit that follows the edit.
MutCommitSuccessLater(g) ==
    /\ task[g].pc = "commit_success"
    /\ Goto(g, "edit")
    /\ UNCHANGED <<news, telegram, fast, booting, env>>

\* A failed commit expires the row, so the outer except clause raises as well.
\* The database need not fail for that: nobody checks the types of the optional
\* fields, and a reply may hold a value that a column cannot store.
CommitSuccess(g) ==
    /\ task[g].pc = "commit_success"
    /\ \/ /\ news' = [news EXCEPT ![g].status = "AI_SUCCESS",
                                  ![g].arabic = TRUE]
          /\ IF news[g].tg THEN Goto(g, "edit") ELSE End(g)
          /\ NoFault
       \/ End(g) /\ UNCHANGED news /\ (NoFault \/ DbFault)
    /\ UNCHANGED <<telegram, fast, booting>>

\* Answered ok, or 400 "message is not modified" after an unacknowledged edit.
EditAcknowledged(g) ==
    /\ task[g].pc = "edit"
    /\ shown' = [shown EXCEPT ![g] = "premium"]
    /\ Goto(g, "commit_published")
    /\ UNCHANGED <<news, delivered, fast, booting, env>>

\* edit_message returns False and its caller does not look.
EditAnsweredFalse(g) ==
    /\ OkFalse
    /\ task[g].pc = "edit"
    /\ Goto(g, "commit_published")
    /\ UNCHANGED <<news, telegram, fast, booting, env>>

\* Mutant: an exhausted edit counts as done.
MutEditRetryableSwallowed(g) ==
    /\ task[g].pc = "edit"
    /\ shown' \in {shown, [shown EXCEPT ![g] = "premium"]}
    /\ IF Retries(task[g].tries)
       THEN task' = [task EXCEPT ![g].tries = @ + 1]
       ELSE Goto(g, "commit_published")
    /\ UNCHANGED <<news, delivered, fast, booting, env>>

EditRetryable(g) ==
    /\ task[g].pc = "edit"
    /\ shown' \in {shown, [shown EXCEPT ![g] = "premium"]}
    /\ IF Retries(task[g].tries)
       THEN task' = [task EXCEPT ![g].tries = @ + 1]
       ELSE Fail(g, "fail", "outage")
    /\ UNCHANGED <<news, delivered, fast, booting, env>>

\* Mutant: only a refused or unanswered request is caught.
MutEditRejectedUncaught(g) ==
    /\ task[g].pc = "edit"
    /\ End(g)
    /\ UNCHANGED <<news, telegram, fast, booting, env>>

\* Another status; or the text cannot be built from the reply.
EditRejected(g) ==
    /\ task[g].pc = "edit"
    /\ Fail(g, "fail", "other")
    /\ UNCHANGED <<news, telegram, fast, booting, env>>

CommitPublished(g) ==
    /\ task[g].pc = "commit_published"
    /\ \/ /\ news' = [news EXCEPT ![g].status = "PUBLISHED"]
          /\ IF task[g].story THEN Goto(g, "record") ELSE End(g)
          /\ NoFault
       \/ End(g) /\ UNCHANGED news /\ DbFault
    /\ UNCHANGED <<telegram, fast, booting>>

RecordPublished(g) ==
    /\ task[g].pc = "record"
    /\ End(g)
    /\ UNCHANGED <<news, telegram, fast, booting, env>>

\* The two outer except clauses; a database error in them ends the task.
MarkFailed(g, pc, status) ==
    /\ task[g].pc = pc
    /\ End(g)
    /\ \/ /\ news' = [news EXCEPT ![g].status = status, ![g].retries = @ + 1,
                                  ![g].err = task[g].err]
          /\ NoFault
       \/ UNCHANGED news /\ DbFault
    /\ UNCHANGED <<telegram, fast, booting>>
MarkAiFailed(g)   == MarkFailed(g, "aifail", "AI_FAILED")
MarkTaskFailed(g) == MarkFailed(g, "fail", "FAILED")

TaskStep(g) ==
    \/ MarkAiPending(g) \/ StoryStage(g) \/ IndicatorStage(g) \/ MacroStage(g)
    \/ AiCall(g) \/ CommitSuccess(g) \/ EditAcknowledged(g)
    \/ EditAnsweredFalse(g) \/ EditRetryable(g) \/ EditRejected(g)
    \/ CommitPublished(g) \/ RecordPublished(g)
    \/ MarkAiFailed(g) \/ MarkTaskFailed(g)

-----------------------------------------------------------------------------
(* Restarts.                                                                *)

\* Shutdown cancels the poller; the background tasks die with the event loop.
Crash ==
    /\ crashes < MaxCrashes
    /\ crashes' = crashes + 1
    /\ fast' = Idle
    /\ task' = [g \in Guids |-> NoTask]
    /\ booting' \in {FALSE, RecoveryWired}
    /\ UNCHANGED <<news, telegram, dbFaults>>

MaxRetryAttempts == 3
\* Mutant: only items that reached the AI are looked for.
MutInterruptedAiOnly(g) == /\ news[g].status = "AI_PENDING"
                           /\ news[g].retries < MaxRetryAttempts
Interrupted(g) == /\ news[g].status \in {"AI_PENDING", "TELEGRAM_PENDING"}
                  /\ news[g].retries < MaxRetryAttempts

Resumable(g) == news[g].status = "TELEGRAM_PENDING" /\ news[g].tg

\* recover_interrupted_records.  Nothing calls it: with RecoveryWired a startup
\* may do so, as its docstring says, or not, as in the program as it stands.
Recover ==
    /\ booting
    /\ booting' = FALSE
    /\ task' = [g \in Guids |-> IF Interrupted(g) /\ Resumable(g)
                                THEN NewTask ELSE task[g]]
    /\ \/ /\ news' = [g \in Guids |->
                        IF Interrupted(g) /\ ~Resumable(g)
                        THEN [news[g] EXCEPT !.status = "FAILED",
                                             !.err = "interrupted"]
                        ELSE news[g]]
          /\ NoFault
       \/ UNCHANGED news /\ DbFault
    /\ UNCHANGED <<telegram, fast>>

-----------------------------------------------------------------------------
Next ==
    \/ \E g \in Guids, c \in Contents \cup {Blank} : Receive(g, c)
    \/ FastStep
    \/ \E g \in Guids : TaskStep(g)
    \/ Crash
    \/ Recover

Spec == Init /\ [][Next]_vars

-----------------------------------------------------------------------------
(* Properties.                                                              *)

\* The types of all variables.
TypeOK ==
    /\ news \in [Guids -> Row]
    /\ delivered \in [Guids -> Nat]
    /\ shown \in [Guids -> {"nothing", "raw", "premium"}]
    /\ fast \in Running \cup {Idle}
    /\ task \in [Guids -> Task]
    /\ booting \in BOOLEAN
    /\ dbFaults \in 0 .. MaxDbFaults
    /\ crashes \in 0 .. MaxCrashes

\* Over every restart, every repeated guid and every unacknowledged request, an
\* item is sent in one round of attempts (orchestrator.py:71-108).
DeliveryBound == \A g \in Guids : delivered[g] <= MaxAttempts

\* The same content under two guids never reaches the channel twice: the check
\* by hash and the insert are steps apart, with tasks and restarts in between.
ContentAnnouncedOnce ==
    \A g, h \in Guids :
        g # h /\ delivered[g] > 0 /\ delivered[h] > 0
            => news[g].hash # news[h].hash

\* The row is durable before anything is sent, so no restart can forget an
\* item that readers have seen.
NoUnrecordedMessage == \A g \in Guids : delivered[g] > 0 => Stored(g)

\* Readers never see an Arabic text that the database does not hold, at
\* whatever point the process stops (orchestrator.py:234-244).
PremiumTextIsStored ==
    \A g \in Guids : shown[g] = "premium" => news[g].arabic /\ news[g].tg

\* An item whose AI output was refused keeps its English text for ever, in the
\* channel and in the database (orchestrator.py:264-275).
AiFailedKeepsRaw ==
    \A g \in Guids : news[g].status = "AI_FAILED"
        => ~news[g].arabic /\ shown[g] = "raw"

\* PUBLISHED says that the reader sees the Arabic text, if Telegram reports
\* failures by HTTP status: retries, lost answers and restarts do not undo it.
PublishedIsShown ==
    ~OkFalse => \A g \in Guids :
        news[g].status = "PUBLISHED" => shown[g] = "premium" /\ news[g].arabic

\* Somebody works on every record that is not settled, except where the process
\* stops or a statement of the pipeline itself fails - and except where a stage,
\* or a reply that cannot be stored, ends the task: then the record is left at
\* AI_PENDING and readers keep the English text.  Whatever else Telegram, OpenAI
\* and the feed do, no other step gives a record up (orchestrator.py:110-121,
\* 158-201, 234-235, 264-288).
Owned(g) == \/ task[g] # NoTask
            \/ fast.guid = g /\ fast.pc \in {"send", "store", "senderr"}
Abandoned(g) == news[g].status \in Transient /\ ~Owned(g)
OnlyStagesAndStoreAbandon ==
    [][dbFaults' = dbFaults /\ crashes' = crashes =>
          \A g \in Guids : Abandoned(g)' => Abandoned(g) \/
              /\ task[g].pc \in Stages \cup {"commit_success"}
              /\ news'[g].status = "AI_PENDING" /\ shown'[g] = "raw"]_vars

\* orchestrator.py:291-294: where a startup calls the recovery, every record it
\* looks for settles or gets a task again, whatever step the restart cut short.
RecoveryRequeues ==
    [][booting /\ ~booting' /\ dbFaults' = dbFaults /\ crashes' = crashes =>
          \A g \in Guids :
              news'[g].status \in {"AI_PENDING", "TELEGRAM_PENDING"} => Owned(g)']_vars

\* orchestrator.py:137-139: a record can never get stuck at AI_PENDING.
NeverStuckAtAiPending ==
    \A g \in Guids : news[g].status = "AI_PENDING" => Owned(g)

-----------------------------------------------------------------------------
(* Inductive invariants, from which the safety properties follow.           *)

\* Sending: a row precedes its messages, one content has one row, and every
\* message was an attempt of the one call that inserted the row.
AnnounceInv ==
    /\ \A g \in Guids : /\ ~Stored(g) => delivered[g] = 0
                        /\ delivered[g] <= MaxAttempts
    /\ \A g, h \in Guids :
           g # h /\ Stored(g) /\ Stored(h) => news[g].hash # news[h].hash
    /\ fast.pc = "insert" => ~Known(fast.content)
    /\ fast.pc \in {"send", "store", "senderr"} => Stored(fast.guid)
    /\ fast.pc = "send" => delivered[fast.guid] <= fast.tries

\* What the status of an item says about its row and its message.
RowInv(g) ==
    /\ news[g].status \in {"ABSENT", "RECEIVED"} => ~news[g].tg
    /\ news[g].status \notin {"ABSENT", "RECEIVED", "FAILED"} => news[g].tg
    /\ news[g].status \in {"AI_SUCCESS", "PUBLISHED"} => news[g].arabic
    /\ news[g].arabic => /\ news[g].tg
                        /\ news[g].status \in {"AI_SUCCESS", "PUBLISHED", "FAILED"}
    /\ news[g].tg => shown[g] # "nothing"
    /\ shown[g] = "premium" => news[g].arabic
    /\ news[g].status = "PUBLISHED" => shown[g] = "premium" \/ OkFalse

\* What the point a task has reached says about the row it works on.
TaskInv(g) ==
    /\ task[g].pc = "load" => news[g].status = "TELEGRAM_PENDING"
    /\ task[g].pc \in Stages \cup {"ai", "commit_success", "aifail"}
           => news[g].status = "AI_PENDING"
    /\ task[g].pc \in {"edit", "commit_published"} => news[g].status = "AI_SUCCESS"
    /\ task[g].pc = "fail" => news[g].status \in {"AI_PENDING", "AI_SUCCESS"}
    /\ task[g].pc = "commit_published" => shown[g] = "premium" \/ OkFalse
    /\ task[g].pc = "record" => news[g].status = "PUBLISHED"
    /\ booting => task[g] = NoTask

CallInv ==
    /\ fast.pc \in {"send", "store", "senderr"}
           => news[fast.guid].status = "RECEIVED"
    /\ fast.pc = "store" => shown[fast.guid] = "raw"
    /\ booting => fast = Idle

\* What nobody has stored nobody has seen, and a first attempt to send finds a
\* reader who knows nothing of the item.
FirstSightInv ==
    /\ \A g \in Guids :
           ~Stored(g) => news[g].hash = Blank /\ shown[g] = "nothing"
    /\ fast.pc = "insert" => fast.content \in Contents
    /\ fast.pc = "send" => shown[fast.guid] = "nothing"

LifeInv == CallInv /\ \A g \in Guids : RowInv(g) /\ TaskInv(g)

-----------------------------------------------------------------------------
(* The life of an item, as NewsLifecycle promises it.                       *)

LifecycleState ==
    [ABSENT |-> "absent", RECEIVED |-> "accepted",
     TELEGRAM_PENDING |-> "announced", AI_PENDING |-> "announced",
     AI_SUCCESS |-> "translated", PUBLISHED |-> "published",
     AI_FAILED |-> "rejected", FAILED |-> "failed"]

Lifecycle == INSTANCE NewsLifecycle WITH
    record <- [g \in Guids |-> [state |-> LifecycleState[news[g].status],
                                content |-> news[g].hash]],
    reader <- shown,
    SilentEdits <- OkFalse

\* The pipeline implements the life of its items.
ImplementsLifecycle == Lifecycle!Spec
=============================================================================
