----------------------- MODULE NewsOrchestratorProofs -----------------------
(* Machine-checked theorems about NewsOrchestrator, for all its constants:  *)
(* its invariants, and that it implements NewsLifecycle.                    *)
EXTENDS NewsOrchestrator, TLAPS

-----------------------------------------------------------------------------
(* Types.                                                                   *)

LEMMA ZeroTries == 0 \in 0 .. MaxAttempts - 1
  BY ConstantsAssumption

LEMMA EnvType ==
    ASSUME TypeOK, NoFault \/ DbFault
    PROVE  /\ dbFaults' \in 0 .. MaxDbFaults
           /\ crashes' \in 0 .. MaxCrashes
  BY ConstantsAssumption DEF TypeOK, NoFault, DbFault, env

LEMMA FastStepType == TypeOK /\ FastStep => TypeOK'
<1> SUFFICES ASSUME TypeOK, FastStep PROVE TypeOK'
  OBVIOUS
<1> USE ZeroTries DEF TypeOK, telegram
<1>1. CASE Lookup
  <2>1. fast' \in Running \cup {Idle}
    BY <1>1 DEF Lookup, Running, Idle
  <2> QED
    BY <1>1, <2>1, EnvType DEF Lookup
<1>2. CASE Insert
  <2>1. NewRow(fast.content) \in Row
    BY <1>2 DEF Insert, Running, Idle, NewRow, Row, Transient, Settled, Errors
  <2>2. fast' \in Running \cup {Idle}
    BY <1>2 DEF Insert, Running, Idle
  <2> QED
    BY <1>2, <2>1, <2>2, EnvType DEF Insert
<1>3. CASE SendAcknowledged
  <2>1. fast.guid \in Guids /\ fast' \in Running
    BY <1>3 DEF SendAcknowledged, Running, Idle
  <2> QED
    BY <1>3, <2>1 DEF SendAcknowledged, env
<1>4. CASE SendRetryable
  <2>1. fast.guid \in Guids /\ fast' \in Running
    BY <1>4, ConstantsAssumption DEF SendRetryable, Retries, Running, Idle
  <2> QED
    BY <1>4, <2>1 DEF SendRetryable, env
<1>5. CASE SendRejected
  <2>1. fast' \in Running
    BY <1>5 DEF SendRejected, Running, Idle
  <2> QED
    BY <1>5, <2>1 DEF SendRejected, env
<1>6. CASE StoreSent
  <2>1. fast' \in Running \cup {Idle}
    BY <1>6 DEF StoreSent, Running, Idle
  <2>2. NewTask \in Task
    BY DEF NewTask, Task, TaskPoints, Errors
  <2>3. news' \in [Guids -> Row]
    BY <1>6 DEF StoreSent, Row, Transient, Settled
  <2> QED
    BY <1>6, <2>1, <2>2, <2>3, EnvType DEF StoreSent
<1>7. CASE MarkSendFailed
  <2>1. news' \in [Guids -> Row]
    BY <1>7 DEF MarkSendFailed, Row, Settled, Errors
  <2> QED
    BY <1>7, <2>1, EnvType DEF MarkSendFailed
<1> QED
  BY <1>1, <1>2, <1>3, <1>4, <1>5, <1>6, <1>7 DEF FastStep

\* What the three moves of a background task do to the table of tasks.
LEMMA GotoType ==
    ASSUME TypeOK, NEW g \in Guids, NEW pc \in TaskPoints, Goto(g, pc)
    PROVE  task' \in [Guids -> Task]
  BY ZeroTries DEF TypeOK, Goto, Task

LEMMA FailType ==
    ASSUME TypeOK, NEW g \in Guids, NEW pc \in TaskPoints, NEW e \in Errors,
           Fail(g, pc, e)
    PROVE  task' \in [Guids -> Task]
  BY DEF TypeOK, Fail, Task

LEMMA EndType ==
    ASSUME TypeOK, NEW g \in Guids, End(g)
    PROVE  task' \in [Guids -> Task]
<1>1. NoTask \in Task
  BY ZeroTries DEF NoTask, Task, TaskPoints, Errors
<1> QED
  BY <1>1 DEF TypeOK, End

LEMMA TaskStepType ==
    ASSUME TypeOK, NEW g \in Guids, TaskStep(g)
    PROVE  TypeOK'
<1> USE DEF telegram
<1>0. /\ {"none", "story", "indicator", "macro", "ai", "commit_success", "edit",
          "commit_published", "record", "aifail", "fail"} \subseteq TaskPoints
      /\ {"content", "outage", "other"} \subseteq Errors
  BY DEF TaskPoints, Stages, Errors
<1>1. CASE MarkAiPending(g)
  <2>1. news' \in [Guids -> Row]
    BY <1>1 DEF TypeOK, MarkAiPending, Row, Transient
  <2>2. task' \in [Guids -> Task]
    BY <1>0, <1>1, GotoType, EndType DEF MarkAiPending
  <2> QED
    BY <1>1, <2>1, <2>2, EnvType DEF TypeOK, MarkAiPending
<1>2. ASSUME NEW stage, NEW next \in TaskPoints, Stage(g, stage, next)
      PROVE  TypeOK'
  <2>1. task' \in [Guids -> Task]
    BY <1>2, GotoType, EndType DEF Stage
  <2> QED
    BY <1>2, <2>1 DEF TypeOK, Stage, env
<1>3. CASE StoryStage(g) /\ ~Stage(g, "story", "indicator")
  <2>1. task' \in [Guids -> Task]
    BY <1>0, <1>3 DEF TypeOK, StoryStage, Task
  <2> QED
    BY <1>3, <2>1 DEF TypeOK, StoryStage, env
<1>4. CASE AiCall(g)
  <2>1. task' \in [Guids -> Task]
    BY <1>0, <1>4, GotoType, FailType DEF AiCall
  <2> QED
    BY <1>4, <2>1 DEF TypeOK, AiCall, env
<1>5. CASE CommitSuccess(g)
  <2>1. news' \in [Guids -> Row]
    BY <1>5 DEF TypeOK, CommitSuccess, Row, Transient
  <2>2. task' \in [Guids -> Task]
    BY <1>0, <1>5, GotoType, EndType DEF CommitSuccess
  <2> QED
    BY <1>5, <2>1, <2>2, EnvType DEF TypeOK, CommitSuccess
<1>6. CASE EditAcknowledged(g)
  <2>1. task' \in [Guids -> Task]
    BY <1>0, <1>6, GotoType DEF EditAcknowledged
  <2> QED
    BY <1>6, <2>1 DEF TypeOK, EditAcknowledged, env
<1>7. CASE EditAnsweredFalse(g)
  <2>1. task' \in [Guids -> Task]
    BY <1>0, <1>7, GotoType DEF EditAnsweredFalse
  <2> QED
    BY <1>7, <2>1 DEF TypeOK, EditAnsweredFalse, env
<1>8. CASE EditRetryable(g)
  <2>1. CASE Retries(task[g].tries)
    <3>1. task[g].tries + 1 \in 0 .. MaxAttempts - 1
      BY <2>1, ConstantsAssumption DEF TypeOK, Task, Retries
    <3> QED
      BY <1>8, <2>1, <3>1 DEF TypeOK, EditRetryable, Task, env
  <2>2. CASE ~Retries(task[g].tries)
    <3>1. task' \in [Guids -> Task]
      BY <1>0, <1>8, <2>2, FailType DEF EditRetryable
    <3> QED
      BY <1>8, <3>1 DEF TypeOK, EditRetryable, env
  <2> QED
    BY <2>1, <2>2
<1>9. CASE EditRejected(g)
  <2>1. task' \in [Guids -> Task]
    BY <1>0, <1>9, FailType DEF EditRejected
  <2> QED
    BY <1>9, <2>1 DEF TypeOK, EditRejected, env
<1>10. CASE CommitPublished(g)
  <2>1. news' \in [Guids -> Row]
    BY <1>10 DEF TypeOK, CommitPublished, Row, Settled
  <2>2. task' \in [Guids -> Task]
    BY <1>0, <1>10, GotoType, EndType DEF CommitPublished
  <2> QED
    BY <1>10, <2>1, <2>2, EnvType DEF TypeOK, CommitPublished
<1>11. CASE RecordPublished(g)
  BY <1>11, EndType DEF TypeOK, RecordPublished, env
<1>12. ASSUME NEW pc, NEW status \in {"AI_FAILED", "FAILED"},
              MarkFailed(g, pc, status)
       PROVE  TypeOK'
  <2>1. news' \in [Guids -> Row]
    BY <1>12 DEF TypeOK, MarkFailed, Row, Task, Settled
  <2> QED
    BY <1>12, <2>1, EndType, EnvType DEF TypeOK, MarkFailed
<1> QED
  BY <1>0, <1>1, <1>2, <1>3, <1>4, <1>5, <1>6, <1>7, <1>8, <1>9, <1>10, <1>11,
     <1>12
     DEF TaskStep, StoryStage, IndicatorStage, MacroStage, MarkAiFailed,
         MarkTaskFailed

LEMMA CrashType == TypeOK /\ Crash => TypeOK'
<1>1. NoTask \in Task
  BY ZeroTries DEF NoTask, Task, TaskPoints, Errors
<1>2. {FALSE, RecoveryWired} \subseteq BOOLEAN
  BY ConstantsAssumption DEF ConstantsAssumption
<1>3. ASSUME TypeOK, Crash PROVE booting' \in BOOLEAN
  BY <1>2, <1>3 DEF Crash
<1>4. ASSUME TypeOK, Crash
      PROVE  task' \in [Guids -> Task] /\ crashes' \in 0 .. MaxCrashes
  BY <1>1, <1>4, ConstantsAssumption DEF TypeOK, Crash, ConstantsAssumption
<1>5. Idle \in Running \cup {Idle}
  OBVIOUS
<1>6. ASSUME TypeOK, Crash PROVE TypeOK'
  BY <1>3, <1>4, <1>5, <1>6 DEF TypeOK, Crash, telegram
<1> QED
  BY <1>6

LEMMA RecoverType == TypeOK /\ Recover => TypeOK'
<1> SUFFICES ASSUME TypeOK, Recover PROVE TypeOK'
  OBVIOUS
<1>1. NewTask \in Task
  BY ZeroTries DEF NewTask, Task, TaskPoints, Errors
<1>2. task' \in [Guids -> Task]
  BY <1>1 DEF TypeOK, Recover
<1>3. \A g \in Guids : [news[g] EXCEPT !.status = "FAILED",
                                      !.err = "interrupted"] \in Row
  BY DEF TypeOK, Row, Settled, Errors
<1>4. news' \in [Guids -> Row]
  BY <1>3 DEF TypeOK, Recover
<1> QED
  BY <1>2, <1>4, EnvType DEF TypeOK, Recover, telegram

LEMMA TypeInductive ==
    /\ Init => TypeOK
    /\ TypeOK /\ [Next]_vars => TypeOK'
<1>1. Init => TypeOK
  <2>1. NoRow \in Row
    BY DEF NoRow, Row, Errors
  <2>2. NoTask \in Task
    BY ZeroTries DEF NoTask, Task, TaskPoints, Errors
  <2>3. Init => dbFaults \in 0 .. MaxDbFaults
                /\ crashes \in 0 .. MaxCrashes /\ delivered \in [Guids -> Nat]
    BY ConstantsAssumption DEF Init
  <2>4. Init => shown \in [Guids -> {"nothing", "raw", "premium"}]
    BY DEF Init
  <2>5. Init => news \in [Guids -> Row] /\ task \in [Guids -> Task]
    BY <2>1, <2>2 DEF Init
  <2> QED
    BY <2>3, <2>4, <2>5 DEF Init, TypeOK
<1>2. TypeOK /\ [Next]_vars => TypeOK'
  <2> SUFFICES ASSUME TypeOK, [Next]_vars PROVE TypeOK'
    OBVIOUS
  <2>1. ASSUME NEW g \in Guids, NEW c \in Contents \cup {Blank}, Receive(g, c)
        PROVE  TypeOK'
    BY <2>1, ZeroTries DEF TypeOK, Receive, Running, telegram, env
  <2>2. CASE UNCHANGED vars
    BY <2>2 DEF TypeOK, vars, env
  <2> QED
    BY <2>1, <2>2, FastStepType, TaskStepType, CrashType, RecoverType DEF Next
<1> QED
  BY <1>1, <1>2

\* Every variable keeps its type, whatever fails.
THEOREM TypeCorrect == Spec => []TypeOK
  BY TypeInductive, PTL DEF Spec

-----------------------------------------------------------------------------
(* The life of an item.                                                     *)

\* A task step touches its own item only.
LEMMA TaskStepFrame ==
    ASSUME TypeOK, NEW g \in Guids, TaskStep(g)
    PROVE  /\ fast' = fast /\ booting' = booting /\ delivered' = delivered
           /\ task[g].pc # "none"
           /\ \A h \in Guids : h # g => /\ news'[h] = news[h]
                                        /\ task'[h] = task[h]
                                        /\ shown'[h] = shown[h]
<1> USE DEF TypeOK, telegram, Goto, Fail, End
<1>1. CASE MarkAiPending(g)
  BY <1>1 DEF MarkAiPending
<1>2. CASE StoryStage(g)
  BY <1>2 DEF StoryStage, Stage
<1>3. CASE IndicatorStage(g) \/ MacroStage(g)
  BY <1>3 DEF IndicatorStage, MacroStage, Stage
<1>4. CASE AiCall(g)
  BY <1>4 DEF AiCall
<1>5. CASE CommitSuccess(g)
  BY <1>5 DEF CommitSuccess
<1>6. CASE EditAcknowledged(g)
  BY <1>6 DEF EditAcknowledged
<1>7. CASE EditAnsweredFalse(g)
  BY <1>7 DEF EditAnsweredFalse
<1>8. CASE EditRetryable(g)
  BY <1>8 DEF EditRetryable
<1>9. CASE EditRejected(g)
  BY <1>9 DEF EditRejected
<1>10. CASE CommitPublished(g)
  BY <1>10 DEF CommitPublished
<1>11. CASE RecordPublished(g)
  BY <1>11 DEF RecordPublished
<1>12. CASE MarkAiFailed(g) \/ MarkTaskFailed(g)
  BY <1>12 DEF MarkAiFailed, MarkTaskFailed, MarkFailed
<1> QED
  BY <1>1, <1>2, <1>3, <1>4, <1>5, <1>6, <1>7, <1>8, <1>9, <1>10, <1>11,
     <1>12 DEF TaskStep

\* Where the moves of a task lead, and what leaves its row alone.
LEMMA MoveEffect ==
    ASSUME TypeOK, NEW g \in Guids
    PROVE  /\ \A pc : Goto(g, pc) => task'[g].pc = pc
           /\ \A pc, e : Fail(g, pc, e) => task'[g].pc = pc
           /\ End(g) => task'[g] = NoTask
  BY DEF TypeOK, Task, Goto, Fail, End

LEMMA RowUntouched ==
    ASSUME NEW g \in Guids, RowInv(g), news'[g] = news[g], shown'[g] = shown[g]
    PROVE  RowInv(g)'
  BY DEF RowInv

LEMMA EndedTask ==
    ASSUME NEW g \in Guids, task'[g] = NoTask
    PROVE  TaskInv(g)'
  BY DEF TaskInv, NoTask, Stages

LEMMA TaskStepLife ==
    ASSUME TypeOK, LifeInv, NEW g \in Guids, TaskStep(g)
    PROVE  RowInv(g)' /\ TaskInv(g)'
<1>0. RowInv(g) /\ TaskInv(g) /\ ~booting' /\ news[g] \in Row
  BY TaskStepFrame DEF LifeInv, TaskInv, NoTask, TypeOK
<1>1. CASE MarkAiPending(g)
  <2>1. CASE End(g) /\ UNCHANGED news
    BY <1>0, <1>1, <2>1, MoveEffect, RowUntouched, EndedTask
       DEF MarkAiPending, telegram
  <2>2. CASE ~(End(g) /\ UNCHANGED news)
    <3>1. /\ news'[g].status = "AI_PENDING" /\ news'[g].tg = news[g].tg
          /\ news'[g].arabic = news[g].arabic /\ shown'[g] = shown[g]
          /\ task'[g].pc = "story"
      BY <1>1, <2>2, MoveEffect DEF TypeOK, Row, MarkAiPending, telegram
    <3>2. news[g].status = "TELEGRAM_PENDING"
      BY <1>0, <1>1 DEF MarkAiPending, TaskInv
    <3> QED
      BY <1>0, <3>1, <3>2 DEF RowInv, TaskInv, Stages
  <2> QED
    BY <2>1, <2>2
<1>2. ASSUME NEW stage \in Stages, NEW next \in Stages \cup {"ai"},
             Stage(g, stage, next)
      PROVE  RowInv(g)' /\ TaskInv(g)'
  <2>1. RowInv(g)' /\ news'[g] = news[g]
    BY <1>0, <1>2, RowUntouched DEF Stage, telegram
  <2>2. news[g].status = "AI_PENDING"
    BY <1>0, <1>2 DEF Stage, TaskInv
  <2>3. CASE End(g)
    BY <2>1, <2>3, MoveEffect, EndedTask
  <2>4. CASE Goto(g, next)
    BY <1>0, <2>1, <2>2, <2>4, MoveEffect DEF TaskInv, Stages
  <2> QED
    BY <1>2, <2>3, <2>4 DEF Stage
<1>3. CASE StoryStage(g) /\ ~Stage(g, "story", "indicator")
  <2>1. RowInv(g)' /\ news'[g] = news[g]
    BY <1>0, <1>3, RowUntouched DEF StoryStage, telegram
  <2>2. news[g].status = "AI_PENDING"
    BY <1>0, <1>3 DEF StoryStage, TaskInv, Stages
  <2>3. task'[g].pc = "indicator"
    BY <1>3 DEF StoryStage, TypeOK, Task
  <2> QED
    BY <1>0, <2>1, <2>2, <2>3 DEF TaskInv, Stages
<1>4. CASE AiCall(g)
  <2>1. RowInv(g)' /\ news'[g] = news[g]
    BY <1>0, <1>4, RowUntouched DEF AiCall, telegram
  <2>2. news[g].status = "AI_PENDING"
    BY <1>0, <1>4 DEF AiCall, TaskInv
  <2>3. task'[g].pc \in {"commit_success", "aifail", "fail"}
    BY <1>4, MoveEffect DEF AiCall
  <2> QED
    BY <1>0, <2>1, <2>2, <2>3 DEF TaskInv, Stages
<1>5. CASE CommitSuccess(g)
  <2>1. news[g].status = "AI_PENDING" /\ news[g].tg
    BY <1>0, <1>5 DEF CommitSuccess, TaskInv, RowInv
  <2>2. CASE End(g) /\ UNCHANGED news
    BY <1>0, <1>5, <2>2, MoveEffect, RowUntouched, EndedTask
       DEF CommitSuccess, telegram
  <2>3. CASE ~(End(g) /\ UNCHANGED news)
    <3>1. /\ news'[g].status = "AI_SUCCESS" /\ news'[g].tg = news[g].tg
          /\ news'[g].arabic /\ shown'[g] = shown[g]
      BY <1>5, <2>3 DEF TypeOK, Row, CommitSuccess, telegram
    <3>2. task'[g].pc = "edit"
      BY <1>5, <2>1, <2>3, MoveEffect DEF CommitSuccess
    <3> QED
      BY <1>0, <2>1, <3>1, <3>2 DEF RowInv, TaskInv, Stages
  <2> QED
    BY <2>2, <2>3
<1>6. CASE EditAcknowledged(g)
  <2>1. news' = news /\ shown'[g] = "premium" /\ task'[g].pc = "commit_published"
    BY <1>6, MoveEffect DEF TypeOK, EditAcknowledged
  <2>2. news[g].status = "AI_SUCCESS"
    BY <1>0, <1>6 DEF EditAcknowledged, TaskInv
  <2> QED
    BY <1>0, <2>1, <2>2 DEF RowInv, TaskInv, Stages
<1>7. CASE EditAnsweredFalse(g)
  <2>1. RowInv(g)' /\ news'[g] = news[g] /\ OkFalse
    BY <1>0, <1>7, RowUntouched DEF EditAnsweredFalse, telegram
  <2>2. news[g].status = "AI_SUCCESS" /\ task'[g].pc = "commit_published"
    BY <1>0, <1>7, MoveEffect DEF EditAnsweredFalse, TaskInv
  <2> QED
    BY <1>0, <2>1, <2>2 DEF TaskInv, Stages
<1>8. CASE EditRetryable(g)
  <2>1. news' = news /\ shown'[g] \in {shown[g], "premium"}
    BY <1>8 DEF TypeOK, EditRetryable
  <2>2. task'[g].pc \in {"edit", "fail"}
    BY <1>8, MoveEffect DEF TypeOK, Task, EditRetryable
  <2>3. news[g].status = "AI_SUCCESS"
    BY <1>0, <1>8 DEF EditRetryable, TaskInv
  <2> QED
    BY <1>0, <2>1, <2>2, <2>3 DEF RowInv, TaskInv, Stages
<1>9. CASE EditRejected(g)
  <2>1. RowInv(g)' /\ news'[g] = news[g]
    BY <1>0, <1>9, RowUntouched DEF EditRejected, telegram
  <2>2. news[g].status = "AI_SUCCESS" /\ task'[g].pc = "fail"
    BY <1>0, <1>9, MoveEffect DEF EditRejected, TaskInv
  <2> QED
    BY <1>0, <2>1, <2>2 DEF TaskInv, Stages
<1>10. CASE CommitPublished(g)
  <2>1. /\ news[g].status = "AI_SUCCESS"
        /\ shown[g] = "premium" \/ OkFalse
    BY <1>0, <1>10 DEF CommitPublished, TaskInv
  <2>2. CASE End(g) /\ UNCHANGED news
    BY <1>0, <1>10, <2>2, MoveEffect, RowUntouched, EndedTask
       DEF CommitPublished, telegram
  <2>3. CASE ~(End(g) /\ UNCHANGED news)
    <3>1. /\ news'[g].status = "PUBLISHED" /\ news'[g].tg = news[g].tg
          /\ news'[g].arabic = news[g].arabic /\ shown'[g] = shown[g]
      BY <1>10, <2>3 DEF TypeOK, Row, CommitPublished, telegram
    <3>2. RowInv(g)'
      BY <1>0, <2>1, <3>1 DEF RowInv
    <3>3. task'[g].pc = "record" \/ task'[g] = NoTask
      BY <1>10, <2>3, MoveEffect DEF CommitPublished
    <3> QED
      BY <1>0, <3>1, <3>2, <3>3, EndedTask DEF TaskInv, Stages
  <2> QED
    BY <2>2, <2>3
<1>11. CASE RecordPublished(g)
  BY <1>0, <1>11, MoveEffect, RowUntouched, EndedTask
     DEF RecordPublished, telegram
<1>12. ASSUME NEW pc \in {"aifail", "fail"}, NEW status \in {"AI_FAILED", "FAILED"},
              status = "AI_FAILED" => pc = "aifail", MarkFailed(g, pc, status)
       PROVE  RowInv(g)' /\ TaskInv(g)'
  <2>1. TaskInv(g)'
    BY <1>12, MoveEffect, EndedTask DEF MarkFailed
  <2>2. CASE UNCHANGED news
    BY <1>0, <1>12, <2>1, <2>2, RowUntouched DEF MarkFailed, telegram
  <2>3. CASE ~UNCHANGED news
    <3>1. /\ news'[g].status = status /\ news'[g].tg = news[g].tg
          /\ news'[g].arabic = news[g].arabic /\ shown'[g] = shown[g]
      BY <1>12, <2>3 DEF TypeOK, Row, MarkFailed, telegram
    <3>2. /\ news[g].status \in {"AI_PENDING", "AI_SUCCESS"}
          /\ pc = "aifail" => news[g].status = "AI_PENDING"
      BY <1>0, <1>12 DEF MarkFailed, TaskInv
    <3>3. RowInv(g)'
      BY <1>0, <1>12, <3>1, <3>2 DEF RowInv
    <3> QED
      BY <2>1, <3>3
  <2> QED
    BY <2>2, <2>3
<1> QED
  BY <1>1, <1>2, <1>3, <1>4, <1>5, <1>6, <1>7, <1>8, <1>9, <1>10, <1>11,
     <1>12
     DEF TaskStep, StoryStage, IndicatorStage, MacroStage, MarkAiFailed,
         MarkTaskFailed, Stages

LEMMA ItemUntouched ==
    ASSUME NEW g \in Guids, RowInv(g), TaskInv(g), news'[g] = news[g],
           task'[g] = task[g], shown'[g] = shown[g], booting' = booting
    PROVE  RowInv(g)' /\ TaskInv(g)'
  BY DEF RowInv, TaskInv

\* A step of process_message is a step of a running call, of one stored item
\* that no task works on; what it leaves of the other items.
LEMMA FastStepFrame ==
    ASSUME TypeOK, FastStep
    PROVE  /\ fast \in Running /\ fast.guid \in Guids
           /\ booting' = booting
           /\ \A h \in Guids : h # fast.guid => /\ news'[h] = news[h]
                                                /\ task'[h] = task[h]
                                                /\ shown'[h] = shown[h]
                                                /\ delivered'[h] = delivered[h]
<1> USE DEF TypeOK, telegram
<1>1. fast \in Running /\ fast.guid \in Guids
  <2>1. fast.pc # "idle"
    BY DEF FastStep, Lookup, Insert, SendAcknowledged, SendRetryable,
           SendRejected, StoreSent, MarkSendFailed
  <2> QED
    BY <2>1 DEF Running, Idle
<1>2. CASE Lookup
  BY <1>1, <1>2 DEF Lookup
<1>3. CASE Insert
  BY <1>1, <1>3 DEF Insert
<1>4. CASE SendAcknowledged
  BY <1>1, <1>4 DEF SendAcknowledged
<1>5. CASE SendRetryable \/ SendRejected
  BY <1>1, <1>5 DEF SendRetryable, SendRejected
<1>6. CASE StoreSent
  BY <1>1, <1>6 DEF StoreSent
<1>7. CASE MarkSendFailed
  BY <1>1, <1>7 DEF MarkSendFailed
<1> QED
  BY <1>2, <1>3, <1>4, <1>5, <1>6, <1>7 DEF FastStep

LEMMA FastStepLife ==
    ASSUME TypeOK, LifeInv, FastStep
    PROVE  LifeInv'
<1> USE DEF telegram
<1>1. PICK f \in Guids : fast.guid = f
  BY FastStepFrame
<1>2. /\ fast \in Running /\ news[f] \in Row
      /\ booting' = booting /\ ~booting
      /\ RowInv(f) /\ TaskInv(f)
  BY <1>1, FastStepFrame DEF LifeInv, CallInv, Running, Idle, TypeOK
<1>3. \A h \in Guids : h # f => RowInv(h)' /\ TaskInv(h)'
  BY <1>1, FastStepFrame, ItemUntouched DEF LifeInv
<1>4. SUFFICES /\ fast'.pc \in {"send", "store", "senderr"}
                      => fast'.guid = f /\ news'[f].status = "RECEIVED"
               /\ fast'.pc = "store" => shown'[f] = "raw"
               /\ RowInv(f)' /\ TaskInv(f)'
  BY <1>2, <1>3 DEF LifeInv, CallInv
<1>5. CASE Lookup
  <2>1. fast'.pc \in {"idle", "insert"}
    BY <1>2, <1>5 DEF Lookup, Idle, Running
  <2> QED
    BY <1>2, <1>5, <2>1, ItemUntouched DEF Lookup
<1>6. CASE Insert /\ fast' = Idle
  <2>1. news' = news
    BY <1>2, <1>6 DEF Insert, Idle, Running
  <2> QED
    BY <1>2, <1>6, <2>1, ItemUntouched DEF Insert, Idle
<1>7. CASE Insert /\ fast' # Idle
  <2>1. /\ ~Stored(f) /\ news' = [news EXCEPT ![f] = NewRow(fast.content)]
        /\ fast' = [fast EXCEPT !.pc = "send"]
        /\ shown' = shown /\ task' = task
    BY <1>1, <1>7 DEF Insert
  <2>2. /\ news'[f].status = "RECEIVED" /\ ~news'[f].tg /\ ~news'[f].arabic
    BY <2>1 DEF TypeOK, NewRow
  <2>3. fast'.guid = f /\ fast'.pc = "send"
    BY <1>1, <1>2, <2>1 DEF Running
  <2>4. news[f].status = "ABSENT"
    BY <2>1 DEF Stored
  <2>5. RowInv(f)'
    BY <1>2, <2>1, <2>2, <2>4 DEF RowInv
  <2>6. TaskInv(f)'
    BY <1>2, <2>1, <2>4 DEF TaskInv, Stages
  <2> QED
    BY <2>2, <2>3, <2>5, <2>6
<1>8. CASE SendAcknowledged
  <2>1. news' = news /\ task' = task /\ shown'[f] = "raw"
    BY <1>1, <1>8 DEF SendAcknowledged, TypeOK
  <2>2. fast'.guid = f /\ fast'.pc = "store"
    BY <1>1, <1>2, <1>8 DEF SendAcknowledged, Running
  <2>3. news[f].status = "RECEIVED"
    BY <1>1, <1>8 DEF SendAcknowledged, LifeInv, CallInv
  <2>4. RowInv(f)'
    BY <1>2, <2>1, <2>3 DEF RowInv
  <2>5. TaskInv(f)'
    BY <1>2, <2>1, <2>3 DEF TaskInv, Stages
  <2> QED
    BY <2>1, <2>2, <2>3, <2>4, <2>5
<1>9. CASE SendRetryable \/ SendRejected
  <2>1. fast'.guid = f /\ fast'.pc \in {"send", "senderr"}
    BY <1>1, <1>2, <1>9 DEF SendRetryable, SendRejected, Running
  <2>2. news[f].status = "RECEIVED" /\ news' = news /\ shown' = shown
        /\ task' = task
    BY <1>1, <1>9 DEF SendRetryable, SendRejected, LifeInv, CallInv
  <2> QED
    BY <1>2, <2>1, <2>2, ItemUntouched
<1>10. CASE StoreSent
  <2>1. news[f].status = "RECEIVED" /\ shown[f] = "raw" /\ shown' = shown
    BY <1>1, <1>10 DEF StoreSent, LifeInv, CallInv
  <2>2. CASE fast' = Idle
    <3>1. /\ news'[f].status = "TELEGRAM_PENDING" /\ news'[f].tg
          /\ news'[f].arabic = news[f].arabic /\ task'[f] = NewTask
      BY <1>1, <1>2, <1>10, <2>2 DEF StoreSent, TypeOK, Row, Running, Idle
    <3>2. RowInv(f)'
      BY <1>2, <2>1, <3>1 DEF RowInv
    <3>3. TaskInv(f)'
      BY <1>2, <3>1 DEF TaskInv, NewTask, Stages
    <3> QED
      BY <2>2, <3>2, <3>3 DEF Idle
  <2>3. CASE fast' # Idle
    <3>1. fast'.guid = f /\ fast'.pc = "senderr" /\ news' = news /\ task' = task
      BY <1>1, <1>2, <1>10, <2>3 DEF StoreSent, Running
    <3> QED
      BY <1>2, <2>1, <3>1, ItemUntouched
  <2> QED
    BY <2>2, <2>3
<1>11. CASE MarkSendFailed
  <2>1. news[f].status = "RECEIVED" /\ shown' = shown /\ task' = task
        /\ fast' = Idle
    BY <1>1, <1>11 DEF MarkSendFailed, LifeInv, CallInv
  <2>2. CASE UNCHANGED news
    BY <1>2, <2>1, <2>2, ItemUntouched DEF Idle
  <2>3. CASE ~UNCHANGED news
    <3>1. /\ news'[f].status = "FAILED" /\ news'[f].tg = news[f].tg
          /\ news'[f].arabic = news[f].arabic
      BY <1>1, <1>2, <1>11, <2>3 DEF MarkSendFailed, TypeOK, Row
    <3>2. RowInv(f)'
      BY <1>2, <2>1, <3>1 DEF RowInv
    <3>3. TaskInv(f)'
      BY <1>2, <2>1, <3>1 DEF TaskInv, Stages
    <3> QED
      BY <2>1, <3>2, <3>3 DEF Idle
  <2> QED
    BY <2>2, <2>3
<1> QED
  BY <1>5, <1>6, <1>7, <1>8, <1>9, <1>10, <1>11 DEF FastStep

LEMMA CrashLife == TypeOK /\ LifeInv /\ Crash => LifeInv'
<1> SUFFICES ASSUME TypeOK, LifeInv, Crash PROVE LifeInv'
  OBVIOUS
<1>1. fast' = Idle /\ news' = news /\ shown' = shown
      /\ \A g \in Guids : task'[g] = NoTask
  BY DEF Crash, telegram
<1>2. CallInv'
  BY <1>1 DEF CallInv, Idle
<1>3. ASSUME NEW g \in Guids PROVE RowInv(g)' /\ TaskInv(g)'
  BY <1>1, RowUntouched, EndedTask DEF LifeInv
<1> QED
  BY <1>2, <1>3 DEF LifeInv

\* Recovery restarts the tasks of announced items and fails the other
\* interrupted ones, whose readers keep what they see.
LEMMA RecoverLife == TypeOK /\ LifeInv /\ Recover => LifeInv'
<1> SUFFICES ASSUME TypeOK, LifeInv, Recover PROVE LifeInv'
  OBVIOUS
<1>1. fast' = Idle /\ ~booting' /\ shown' = shown
  BY DEF Recover, LifeInv, CallInv, telegram
<1>2. CallInv'
  BY <1>1 DEF CallInv, Idle
<1>3. ASSUME NEW g \in Guids PROVE RowInv(g)' /\ TaskInv(g)'
  <2>1. RowInv(g) /\ TaskInv(g) /\ task[g] = NoTask /\ news[g] \in Row
    BY DEF Recover, LifeInv, TaskInv, TypeOK
  <2>2. CASE ~Interrupted(g)
    <3>1. news'[g] = news[g] /\ task'[g] = NoTask
      BY <2>1, <2>2 DEF Recover
    <3> QED
      BY <1>1, <2>1, <3>1, RowUntouched, EndedTask
  <2>3. CASE Interrupted(g) /\ Resumable(g)
    <3>1. news'[g] = news[g] /\ task'[g] = NewTask
          /\ news[g].status = "TELEGRAM_PENDING"
      BY <2>3 DEF Recover, Resumable
    <3> QED
      BY <1>1, <2>1, <3>1, RowUntouched DEF TaskInv, NewTask, Stages
  <2>4. CASE Interrupted(g) /\ ~Resumable(g)
    <3>0. task'[g] = NoTask
      BY <2>1, <2>4 DEF Recover
    <3>1. \/ news'[g] = news[g]
          \/ /\ news'[g].status = "FAILED" /\ news'[g].tg = news[g].tg
             /\ news'[g].arabic = news[g].arabic
      BY <2>1, <2>4 DEF Recover, Row
    <3>2. news[g].status \in {"AI_PENDING", "TELEGRAM_PENDING"}
      BY <2>4 DEF Interrupted
    <3>3. RowInv(g)'
      BY <1>1, <2>1, <3>1, <3>2 DEF RowInv
    <3> QED
      BY <3>0, <3>3, EndedTask
  <2> QED
    BY <2>2, <2>3, <2>4
<1> QED
  BY <1>2, <1>3 DEF LifeInv

LEMMA LifeInductive ==
    /\ Init => LifeInv
    /\ TypeOK /\ LifeInv /\ [Next]_vars => LifeInv'
<1>1. Init => LifeInv
  BY DEF Init, LifeInv, CallInv, RowInv, TaskInv, NoRow, NoTask, Idle, Stages
<1>2. TypeOK /\ LifeInv /\ [Next]_vars => LifeInv'
  <2> SUFFICES ASSUME TypeOK, LifeInv, [Next]_vars PROVE LifeInv'
    OBVIOUS
  <2>1. ASSUME NEW g \in Guids, NEW c \in Contents \cup {Blank}, Receive(g, c)
        PROVE  LifeInv'
    <3>1. CallInv'
      BY <2>1 DEF Receive, CallInv
    <3>2. \A h \in Guids : RowInv(h)' /\ TaskInv(h)'
      BY <2>1, ItemUntouched DEF Receive, telegram, LifeInv
    <3> QED
      BY <3>1, <3>2 DEF LifeInv
  <2>2. ASSUME NEW g \in Guids, TaskStep(g) PROVE LifeInv'
    <3>1. fast' = fast /\ booting' = booting /\ task[g].pc # "none"
      BY <2>2, TaskStepFrame
    <3>2. \A h \in Guids : RowInv(h)' /\ TaskInv(h)'
      BY <2>2, TaskStepFrame, TaskStepLife, ItemUntouched DEF LifeInv
    <3>3. CallInv'
      <4>1. ASSUME fast.pc \in {"send", "store", "senderr"}
            PROVE  fast.guid \in Guids /\ fast.guid # g
        <5>1. fast.guid \in Guids /\ news[fast.guid].status = "RECEIVED"
          BY <4>1 DEF TypeOK, Running, Idle, LifeInv, CallInv
        <5>2. news[g].status # "RECEIVED"
          BY <3>1 DEF LifeInv, TaskInv, TypeOK, Task, TaskPoints, Stages
        <5> QED
          BY <5>1, <5>2
      <4> QED
        BY <2>2, <3>1, <4>1, TaskStepFrame DEF LifeInv, CallInv
    <3> QED
      BY <3>2, <3>3 DEF LifeInv
  <2>3. CASE UNCHANGED vars
    <3>1. CallInv'
      BY <2>3 DEF vars, telegram, LifeInv, CallInv
    <3>2. \A h \in Guids : RowInv(h)' /\ TaskInv(h)'
      BY <2>3, ItemUntouched DEF vars, telegram, LifeInv
    <3> QED
      BY <3>1, <3>2 DEF LifeInv
  <2> QED
    BY <2>1, <2>2, <2>3, FastStepLife, CrashLife, RecoverLife DEF Next
<1> QED
  BY <1>1, <1>2

\* The statuses, the tasks and the message of every item agree.
THEOREM LifeCorrect == Spec => []LifeInv
  BY LifeInductive, TypeCorrect, PTL DEF Spec

\* Readers never see an Arabic text that the database does not hold.
THEOREM PremiumTextCorrect == Spec => []PremiumTextIsStored
<1>1. LifeInv => PremiumTextIsStored
  BY DEF LifeInv, RowInv, PremiumTextIsStored
<1> QED
  BY <1>1, LifeCorrect, PTL

\* A refused item keeps its English text in the channel and in the database.
THEOREM AiFailedCorrect == Spec => []AiFailedKeepsRaw
<1>1. TypeOK /\ LifeInv => AiFailedKeepsRaw
  BY DEF TypeOK, LifeInv, RowInv, AiFailedKeepsRaw
<1> QED
  BY <1>1, TypeCorrect, LifeCorrect, PTL

\* A published item shows its Arabic text, if failures are HTTP statuses.
THEOREM PublishedCorrect == Spec => []PublishedIsShown
<1>1. LifeInv => PublishedIsShown
  BY DEF LifeInv, RowInv, PublishedIsShown
<1> QED
  BY <1>1, LifeCorrect, PTL

-----------------------------------------------------------------------------
(* Sending.                                                                 *)

\* A step keeps the announcements of an item: its content, whether it is
\* stored, and how often it was delivered.
SameAnnouncement(g) ==
    /\ news'[g].hash = news[g].hash
    /\ news'[g].status = "ABSENT" <=> news[g].status = "ABSENT"
    /\ delivered'[g] = delivered[g]

LEMMA AnnounceUntouched ==
    ASSUME AnnounceInv, fast' = fast \/ fast' = Idle,
           \A g \in Guids : SameAnnouncement(g),
           fast.pc = "idle" \/ fast.guid \in Guids
    PROVE  AnnounceInv'
<1>1. /\ \A g \in Guids : /\ Stored(g)' <=> Stored(g)
                          /\ news'[g].hash = news[g].hash
                          /\ delivered'[g] = delivered[g]
  BY DEF SameAnnouncement, Stored
<1>2. Known(fast.content)' => fast' = Idle \/ Known(fast.content)
  BY <1>1 DEF Known
<1>3. \A g \in Guids : /\ ~Stored(g)' => delivered'[g] = 0
                       /\ delivered'[g] <= MaxAttempts
  BY <1>1 DEF AnnounceInv
<1>4. \A g, h \in Guids :
          g # h /\ Stored(g)' /\ Stored(h)' => news'[g].hash # news'[h].hash
  BY <1>1 DEF AnnounceInv
<1>5. /\ fast'.pc = "insert" => ~Known(fast.content)'
      /\ fast'.pc \in {"send", "store", "senderr"} => Stored(fast.guid)'
      /\ fast'.pc = "send" => delivered'[fast'.guid] <= fast'.tries
  <2>1. CASE fast' = Idle
    BY <2>1 DEF Idle
  <2>2. CASE fast' = fast /\ fast.pc # "idle"
    BY <1>1, <1>2, <2>2 DEF AnnounceInv, Idle
  <2> QED
    BY <2>1, <2>2
<1> QED
  BY <1>3, <1>4, <1>5 DEF AnnounceInv

\* No step of a task creates, forgets or renames a row.
LEMMA TaskStepAnnounce ==
    ASSUME TypeOK, LifeInv, NEW g \in Guids, TaskStep(g)
    PROVE  \A h \in Guids : SameAnnouncement(h)
<1>0. /\ news[g] \in Row /\ news[g].status # "ABSENT"
      /\ delivered' = delivered
      /\ \A h \in Guids : h # g => news'[h] = news[h]
  BY TaskStepFrame DEF TypeOK, LifeInv, TaskInv, Task, TaskPoints, Stages
<1>1. ASSUME NEW status \in Transient \cup Settled,
             news'[g].status = status, news'[g].hash = news[g].hash
      PROVE  \A h \in Guids : SameAnnouncement(h)
  BY <1>0, <1>1 DEF SameAnnouncement, Transient, Settled
<1>2. CASE UNCHANGED news
  BY <1>0, <1>2 DEF SameAnnouncement
<1>3. CASE MarkAiPending(g) /\ ~UNCHANGED news
  BY <1>0, <1>1, <1>3 DEF MarkAiPending, TypeOK, Row, Transient
<1>4. CASE CommitSuccess(g) /\ ~UNCHANGED news
  BY <1>0, <1>1, <1>4 DEF CommitSuccess, TypeOK, Row, Transient
<1>5. CASE CommitPublished(g) /\ ~UNCHANGED news
  BY <1>0, <1>1, <1>5 DEF CommitPublished, TypeOK, Row, Settled
<1>6. CASE (MarkAiFailed(g) \/ MarkTaskFailed(g)) /\ ~UNCHANGED news
  BY <1>0, <1>1, <1>6
     DEF MarkAiFailed, MarkTaskFailed, MarkFailed, TypeOK, Row, Settled
<1>7. CASE StoryStage(g) \/ IndicatorStage(g) \/ MacroStage(g) \/ AiCall(g)
  BY <1>2, <1>7 DEF StoryStage, IndicatorStage, MacroStage, Stage, AiCall
<1>8. CASE \/ EditAcknowledged(g) \/ EditAnsweredFalse(g) \/ EditRetryable(g)
           \/ EditRejected(g) \/ RecordPublished(g)
  BY <1>2, <1>8 DEF EditAcknowledged, EditAnsweredFalse, EditRetryable,
                    EditRejected, RecordPublished
<1> QED
  BY <1>2, <1>3, <1>4, <1>5, <1>6, <1>7, <1>8 DEF TaskStep

LEMMA FastStepAnnounce ==
    ASSUME TypeOK, LifeInv, AnnounceInv, FastStep
    PROVE  AnnounceInv'
<1> USE DEF telegram
<1>1. PICK f \in Guids : fast.guid = f
  BY FastStepFrame
<1>2. /\ fast \in Running /\ news[f] \in Row
      /\ delivered[f] \in Nat /\ MaxAttempts \in Nat \ {0}
      /\ \A g \in Guids : g # f => SameAnnouncement(g)
      /\ fast' \in Running \cup {Idle}
  BY <1>1, FastStepFrame, FastStepType, ConstantsAssumption
     DEF SameAnnouncement, TypeOK
<1>3. CASE Lookup
  <2>1. \A g \in Guids : SameAnnouncement(g)
    BY <1>3 DEF Lookup, SameAnnouncement
  <2>2. CASE fast' = Idle
    BY <1>1, <2>1, <2>2, AnnounceUntouched
  <2>3. CASE fast' # Idle
    <3>1. /\ fast' = [fast EXCEPT !.pc = "insert"] /\ ~Known(fast.content)
          /\ news' = news /\ delivered' = delivered
      BY <1>3, <2>3 DEF Lookup
    <3>2. fast'.pc = "insert" /\ fast'.content = fast.content
      BY <1>2, <3>1 DEF Running
    <3> QED
      BY <3>1, <3>2 DEF AnnounceInv, Known, Stored
  <2> QED
    BY <2>2, <2>3
<1>4. CASE Insert /\ fast' = Idle
  <2>1. news' = news /\ delivered' = delivered
    BY <1>2, <1>4 DEF Insert, Idle, Running
  <2> QED
    BY <1>1, <1>4, <2>1, AnnounceUntouched DEF SameAnnouncement
<1>5. CASE Insert /\ fast' # Idle
  <2>1. /\ ~Stored(f) /\ news' = [news EXCEPT ![f] = NewRow(fast.content)]
        /\ fast' = [fast EXCEPT !.pc = "send"] /\ delivered' = delivered
        /\ ~Known(fast.content)
    BY <1>1, <1>5 DEF Insert, AnnounceInv
  <2>2. /\ Stored(f)' /\ news'[f].hash = fast.content
        /\ \A g \in Guids : g # f => news'[g] = news[g]
    BY <2>1 DEF TypeOK, NewRow, Stored
  <2>3. fast'.guid = f /\ fast'.pc = "send" /\ fast'.tries \in Nat
    BY <1>1, <1>2, <2>1 DEF Running
  <2>4. delivered'[f] = 0
    BY <2>1 DEF AnnounceInv
  <2>5. \A g \in Guids : /\ ~Stored(g)' => delivered'[g] = 0
                         /\ delivered'[g] <= MaxAttempts
    BY <2>1, <2>2 DEF AnnounceInv, Stored
  <2>6. \A g \in Guids : g # f /\ Stored(g)' => news'[g].hash # news'[f].hash
    BY <2>1, <2>2 DEF Known, Stored
  <2>7. \A g, h \in Guids :
            g # h /\ Stored(g)' /\ Stored(h)' => news'[g].hash # news'[h].hash
    BY <2>2, <2>6 DEF AnnounceInv, Stored
  <2> QED
    BY <2>2, <2>3, <2>4, <2>5, <2>7 DEF AnnounceInv
<1>6. CASE SendAcknowledged \/ SendRetryable
  <2>1. /\ Stored(f) /\ delivered[f] <= fast.tries /\ news' = news
        /\ delivered'[f] \in {delivered[f], delivered[f] + 1}
        /\ \A g \in Guids : g # f => delivered'[g] = delivered[g]
    BY <1>1, <1>6 DEF SendAcknowledged, SendRetryable, AnnounceInv, TypeOK
  <2>2. fast.tries \in 0 .. MaxAttempts - 1
    BY <1>2 DEF Running
  <2>3. /\ fast'.guid = f /\ fast'.pc \in {"send", "store", "senderr"}
        /\ fast'.pc = "send" => fast'.tries = fast.tries + 1
    BY <1>1, <1>2, <1>6 DEF SendAcknowledged, SendRetryable, Running
  <2>4. /\ delivered'[f] <= MaxAttempts
        /\ fast'.pc = "send" => delivered'[f] <= fast'.tries
    BY <1>2, <2>1, <2>2, <2>3
  <2>5. \A g \in Guids : /\ ~Stored(g)' => delivered'[g] = 0
                         /\ delivered'[g] <= MaxAttempts
    BY <2>1, <2>4 DEF AnnounceInv, Stored
  <2>6. \A g, h \in Guids :
            g # h /\ Stored(g)' /\ Stored(h)' => news'[g].hash # news'[h].hash
    BY <2>1 DEF AnnounceInv, Stored
  <2>7. Stored(f)'
    BY <2>1 DEF Stored
  <2> QED
    BY <2>3, <2>4, <2>5, <2>6, <2>7 DEF AnnounceInv
<1>7. CASE SendRejected \/ (StoreSent /\ fast' # Idle)
  <2>1. /\ Stored(f) /\ news' = news /\ delivered' = delivered
        /\ fast' = [fast EXCEPT !.pc = "senderr"]
    BY <1>1, <1>7 DEF SendRejected, StoreSent, AnnounceInv
  <2>2. fast'.guid = f /\ fast'.pc = "senderr"
    BY <1>1, <1>2, <2>1 DEF Running
  <2> QED
    BY <2>1, <2>2 DEF AnnounceInv, Stored
<1>8. CASE (StoreSent /\ fast' = Idle) \/ MarkSendFailed
  <2>1. fast' = Idle /\ delivered' = delivered /\ news[f].status = "RECEIVED"
    BY <1>1, <1>8 DEF StoreSent, MarkSendFailed, LifeInv, CallInv
  <2>2. news'[f].hash = news[f].hash /\ news'[f].status # "ABSENT"
    <3>1. CASE StoreSent
      BY <1>1, <1>2, <2>1, <3>1 DEF StoreSent, TypeOK, Row
    <3>2. CASE MarkSendFailed
      BY <1>1, <1>2, <2>1, <3>2 DEF MarkSendFailed, TypeOK, Row
    <3> QED
      BY <1>8, <3>1, <3>2
  <2>3. SameAnnouncement(f)
    BY <2>1, <2>2 DEF SameAnnouncement
  <2> QED
    BY <1>1, <1>2, <2>1, <2>3, AnnounceUntouched
<1> QED
  BY <1>3, <1>4, <1>5, <1>6, <1>7, <1>8 DEF FastStep

LEMMA AnnounceInductive ==
    /\ Init => AnnounceInv
    /\ TypeOK /\ LifeInv /\ AnnounceInv /\ [Next]_vars => AnnounceInv'
<1>1. Init => AnnounceInv
  <2>0. NoRow.status = "ABSENT"
    BY DEF NoRow
  <2>1. Init => \A g \in Guids : delivered[g] = 0 /\ ~Stored(g)
    BY <2>0 DEF Init, Stored
  <2>2. Init => fast.pc = "idle"
    BY DEF Init, Idle
  <2> QED
    BY <2>1, <2>2, ConstantsAssumption DEF AnnounceInv
<1>2. TypeOK /\ LifeInv /\ AnnounceInv /\ [Next]_vars => AnnounceInv'
  <2> SUFFICES ASSUME TypeOK, LifeInv, AnnounceInv, [Next]_vars
               PROVE  AnnounceInv'
    OBVIOUS
  <2>0. fast.pc = "idle" \/ fast.guid \in Guids
    BY DEF TypeOK, Running, Idle
  <2>1. ASSUME NEW g \in Guids, NEW c \in Contents \cup {Blank}, Receive(g, c)
        PROVE  AnnounceInv'
    <3>1. news' = news /\ delivered' = delivered /\ fast'.pc = "lookup"
      BY <2>1 DEF Receive, telegram
    <3> QED
      BY <3>1 DEF AnnounceInv, Stored
  <2>2. ASSUME NEW g \in Guids, TaskStep(g) PROVE AnnounceInv'
    BY <2>0, <2>2, TaskStepFrame, TaskStepAnnounce, AnnounceUntouched
  <2>3. CASE Crash \/ UNCHANGED vars
    BY <2>0, <2>3, AnnounceUntouched DEF Crash, vars, telegram, SameAnnouncement
  <2>4. CASE Recover
    <3>1. fast' = fast /\ delivered' = delivered
      BY <2>4 DEF Recover, telegram
    <3>2. ASSUME NEW g \in Guids PROVE SameAnnouncement(g)
      <4>1. news[g] \in Row
        BY DEF TypeOK
      <4>2. CASE news'[g] = news[g]
        BY <3>1, <4>2 DEF SameAnnouncement
      <4>3. CASE news'[g] # news[g]
        <5>1. /\ Interrupted(g)
              /\ news'[g] = [news[g] EXCEPT !.status = "FAILED",
                                           !.err = "interrupted"]
          BY <2>4, <4>3 DEF Recover
        <5>2. news'[g].hash = news[g].hash /\ news'[g].status = "FAILED"
          BY <4>1, <5>1 DEF Row
        <5> QED
          BY <3>1, <5>1, <5>2 DEF SameAnnouncement, Interrupted
      <4> QED
        BY <4>2, <4>3
    <3> QED
      BY <2>0, <3>1, <3>2, AnnounceUntouched
  <2> QED
    BY <2>1, <2>2, <2>3, <2>4, FastStepAnnounce DEF Next
<1> QED
  BY <1>1, <1>2

\* A row precedes its messages, one content has one row, and every message
\* was an attempt of the one call that inserted the row.
THEOREM AnnounceCorrect == Spec => []AnnounceInv
  BY AnnounceInductive, TypeCorrect, LifeCorrect, PTL DEF Spec

\* Over every restart, repeated guid and lost answer, an item is sent in one
\* round of attempts.
THEOREM DeliveryBoundCorrect == Spec => []DeliveryBound
<1>1. AnnounceInv => DeliveryBound
  BY DEF AnnounceInv, DeliveryBound
<1> QED
  BY <1>1, AnnounceCorrect, PTL

\* The same content never reaches the channel under two guids.
THEOREM ContentAnnouncedOnceCorrect == Spec => []ContentAnnouncedOnce
<1>1. TypeOK /\ AnnounceInv => ContentAnnouncedOnce
  BY DEF TypeOK, AnnounceInv, ContentAnnouncedOnce
<1> QED
  BY <1>1, TypeCorrect, AnnounceCorrect, PTL

\* Whatever readers have seen has a row.
THEOREM NoUnrecordedMessageCorrect == Spec => []NoUnrecordedMessage
<1>1. TypeOK /\ AnnounceInv => NoUnrecordedMessage
  BY DEF TypeOK, AnnounceInv, NoUnrecordedMessage
<1> QED
  BY <1>1, TypeCorrect, AnnounceCorrect, PTL

-----------------------------------------------------------------------------
(* Nobody is left behind.                                                   *)

\* Nobody works on the record: it is settled, unknown or somebody's.
Attended(g) == ~Abandoned(g)

\* A step of a task, without a database error of its own, leaves the record
\* behind only in a stage or where it stores the text.
LEMMA TaskStepOwner ==
    ASSUME TypeOK, LifeInv, NEW g \in Guids, TaskStep(g), NoFault, Abandoned(g)'
    PROVE  /\ task[g].pc \in Stages \cup {"commit_success"}
           /\ news'[g].status = "AI_PENDING" /\ shown'[g] = "raw"
<1> DEFINE Left == /\ task[g].pc \in Stages \cup {"commit_success"}
                   /\ news'[g].status = "AI_PENDING" /\ shown'[g] = "raw"
<1> SUFFICES Attended(g)' \/ Left
  BY DEF Attended
<1>0. /\ TaskInv(g) /\ RowInv(g) /\ news[g] \in Row
      /\ shown[g] \in {"nothing", "raw", "premium"}
  BY DEF LifeInv, TypeOK
<1>1. ASSUME task'[g].pc # "none" PROVE Attended(g)'
  BY <1>1 DEF Attended, Abandoned, Owned, NoTask
<1>2. ASSUME news'[g].status \in Settled PROVE Attended(g)'
  BY <1>2 DEF Attended, Abandoned, Settled, Transient
<1>12. ASSUME task[g].pc \in Stages \cup {"commit_success"},
              news' = news, shown' = shown
       PROVE  Left
  <2>1. news[g].status = "AI_PENDING"
    BY <1>0, <1>12 DEF TaskInv
  <2> QED
    BY <1>0, <1>12, <2>1 DEF RowInv
<1> HIDE DEF Left
<1>3. CASE MarkAiPending(g)
  BY <1>1, <1>3, MoveEffect DEF MarkAiPending, NoFault, DbFault, env, TypeOK
<1>11. CASE StoryStage(g) \/ IndicatorStage(g) \/ MacroStage(g)
  <2>1. news' = news /\ shown' = shown /\ task[g].pc \in Stages
    BY <1>11 DEF StoryStage, IndicatorStage, MacroStage, Stage, Stages, telegram
  <2> QED
    BY <1>12, <2>1
<1>4. CASE AiCall(g) \/ EditAcknowledged(g) \/ EditAnsweredFalse(g)
           \/ EditRejected(g)
  BY <1>1, <1>4, MoveEffect
     DEF AiCall, EditAcknowledged, EditAnsweredFalse, EditRejected
<1>5. CASE EditRetryable(g)
  BY <1>1, <1>5, MoveEffect DEF EditRetryable, TypeOK, Task
<1>6. CASE CommitSuccess(g)
  <2>1. news[g].tg
    BY <1>0, <1>6 DEF CommitSuccess, TaskInv, RowInv
  <2> QED
    BY <1>0, <1>1, <1>6, <1>12, <2>1, MoveEffect DEF CommitSuccess, telegram
<1>7. CASE CommitPublished(g)
  <2>1. news'[g].status = "PUBLISHED"
    BY <1>0, <1>7 DEF CommitPublished, NoFault, DbFault, env, TypeOK, Row
  <2> QED
    BY <1>2, <2>1 DEF Settled
<1>8. CASE RecordPublished(g)
  BY <1>0, <1>2, <1>8 DEF RecordPublished, TaskInv, Settled
<1>9. CASE MarkAiFailed(g) \/ MarkTaskFailed(g)
  <2>1. news'[g].status \in {"AI_FAILED", "FAILED"}
    BY <1>0, <1>9 DEF MarkAiFailed, MarkTaskFailed, MarkFailed, NoFault,
                      DbFault, env, TypeOK, Row
  <2> QED
    BY <1>2, <2>1 DEF Settled
<1> QED
  BY <1>3, <1>4, <1>5, <1>6, <1>7, <1>8, <1>9, <1>11 DEF TaskStep, Attended

LEMMA FastStepOwner ==
    ASSUME TypeOK, LifeInv, FastStep, NoFault, NEW g \in Guids, Attended(g)
    PROVE  Attended(g)'
<1>1. PICK f \in Guids : fast.guid = f
  BY FastStepFrame
<1>2. fast \in Running /\ news[f] \in Row
  BY <1>1, FastStepFrame DEF TypeOK
<1>3. CASE g # f
  <2>1. news'[g] = news[g] /\ task'[g] = task[g] /\ ~(fast.guid = g)
    BY <1>1, <1>3, FastStepFrame
  <2> QED
    BY <2>1 DEF Attended, Abandoned, Owned
<1>4. ASSUME g = f, fast'.guid = f, fast'.pc \in {"send", "store", "senderr"}
      PROVE  Attended(g)'
  BY <1>4 DEF Attended, Abandoned, Owned
<1>5. CASE g = f /\ Lookup
  <2>1. fast.pc = "lookup" /\ news' = news /\ task' = task
    BY <1>5 DEF Lookup
  <2> QED
    BY <2>1 DEF Attended, Abandoned, Owned
<1>6. CASE g = f /\ Insert
  <2>1. CASE Stored(f)
    <3>1. fast.pc = "insert" /\ news' = news /\ task' = task
      BY <1>1, <1>6, <2>1 DEF Insert
    <3> QED
      BY <3>1 DEF Attended, Abandoned, Owned
  <2>2. CASE ~Stored(f)
    <3>1. fast' = [fast EXCEPT !.pc = "send"]
      BY <1>1, <1>6, <2>2, ConstantsAssumption
         DEF Insert, NoFault, DbFault, env, TypeOK
    <3> QED
      BY <1>1, <1>2, <1>4, <1>6, <3>1 DEF Running
  <2> QED
    BY <2>1, <2>2
<1>7. CASE g = f /\ (SendAcknowledged \/ SendRetryable \/ SendRejected)
  <2>1. fast'.guid = f /\ fast'.pc \in {"send", "store", "senderr"}
    BY <1>1, <1>2, <1>7 DEF SendAcknowledged, SendRetryable, SendRejected, Running
  <2> QED
    BY <1>4, <1>7, <2>1
<1>8. CASE g = f /\ StoreSent
  <2>1. task'[f] = NewTask
    BY <1>1, <1>8 DEF StoreSent, NoFault, DbFault, env, TypeOK
  <2>2. task'[f] # NoTask
    BY <2>1 DEF NewTask, NoTask
  <2> QED
    BY <1>8, <2>2 DEF Attended, Abandoned, Owned
<1>9. CASE g = f /\ MarkSendFailed
  <2>1. news'[f].status = "FAILED"
    BY <1>1, <1>2, <1>9 DEF MarkSendFailed, NoFault, DbFault, env, TypeOK, Row
  <2> QED
    BY <1>9, <2>1 DEF Attended, Abandoned, Transient
<1> QED
  BY <1>3, <1>5, <1>6, <1>7, <1>8, <1>9 DEF FastStep

\* Of the steps that count no fault, only a task's stages and the storing of its
\* text abandon a record, whatever Telegram, OpenAI and the feed do.
THEOREM AbandonCorrect == Spec => OnlyStagesAndStoreAbandon
<1>1. TypeOK /\ LifeInv /\ [Next]_vars =>
          [dbFaults' = dbFaults /\ crashes' = crashes =>
              \A g \in Guids : Abandoned(g)' => Abandoned(g) \/
                  /\ task[g].pc \in Stages \cup {"commit_success"}
                  /\ news'[g].status = "AI_PENDING" /\ shown'[g] = "raw"]_vars
  <2> SUFFICES ASSUME TypeOK, LifeInv, Next, dbFaults' = dbFaults, crashes' = crashes,
                      NEW h \in Guids, Abandoned(h)', ~Abandoned(h)
               PROVE  /\ task[h].pc \in Stages \cup {"commit_success"}
                      /\ news'[h].status = "AI_PENDING" /\ shown'[h] = "raw"
    BY DEF vars
  <2>0. NoFault /\ ~Crash
    <3>1. crashes \in Int
      BY ConstantsAssumption DEF TypeOK
    <3>2. NoFault
      BY DEF NoFault, env
    <3>3. ASSUME Crash PROVE FALSE
      <4>1. crashes' = crashes + 1
        BY <3>3 DEF Crash
      <4> QED
        BY <3>1, <4>1
    <3> QED
      BY <3>2, <3>3
  <2>1. CASE FastStep
    BY <2>0, <2>1, FastStepOwner DEF Attended
  <2>2. ASSUME NEW g \in Guids, NEW c \in Contents \cup {Blank}, Receive(g, c)
        PROVE  FALSE
    BY <2>2 DEF Receive, Abandoned, Owned, Idle
  <2>3. CASE Recover
    <3>1. news'[h] = news[h] \/ news'[h].status = "FAILED"
      <4>1. news[h] \in Row
        BY DEF TypeOK
      <4>2. \/ UNCHANGED news
            \/ news'[h] = news[h]
            \/ news'[h] = [news[h] EXCEPT !.status = "FAILED", !.err = "interrupted"]
        BY <2>3 DEF Recover
      <4> QED
        BY <4>1, <4>2 DEF Row
    <3>2. task'[h] = task[h] \/ task'[h] # NoTask
      BY <2>3 DEF Recover, NewTask, NoTask
    <3>3. fast' = fast
      BY <2>3 DEF Recover
    <3> QED
      BY <3>1, <3>2, <3>3 DEF Abandoned, Owned, Transient
  <2>4. ASSUME NEW g \in Guids, TaskStep(g), h # g
        PROVE  FALSE
    BY <2>4, TaskStepFrame DEF Abandoned, Owned
  <2>5. CASE TaskStep(h)
    BY <2>0, <2>5, TaskStepOwner
  <2> QED
    BY <2>0, <2>1, <2>2, <2>3, <2>4, <2>5 DEF Next
<1> QED
  BY <1>1, TypeCorrect, LifeCorrect, PTL DEF Spec, OnlyStagesAndStoreAbandon

-----------------------------------------------------------------------------
(* Recovery.                                                                *)

\* An item that never failed has no retries on record: the bound that the
\* recovery puts on them excludes none of the items it looks for.
Untried(g) == news[g].status \in {"RECEIVED", "TELEGRAM_PENDING", "AI_PENDING"}
                 => news[g].retries = 0
UntriedInv == \A g \in Guids : Untried(g)

LEMMA FastStepUntried ==
    ASSUME TypeOK, LifeInv, UntriedInv, FastStep
    PROVE  UntriedInv'
<1>1. CASE Lookup \/ SendAcknowledged \/ SendRetryable \/ SendRejected
  BY <1>1 DEF Lookup, SendAcknowledged, SendRetryable, SendRejected, UntriedInv, Untried
<1>2. CASE Insert
  <2>1. \A g \in Guids : news'[g] = news[g] \/ news'[g] = NewRow(fast.content)
    BY <1>2 DEF Insert, TypeOK
  <2> QED
    BY <2>1 DEF NewRow, UntriedInv, Untried
<1>3. CASE StoreSent
  <2>1. fast.guid \in Guids
    BY <1>3 DEF StoreSent, TypeOK, Running, Idle
  <2>2. news[fast.guid].status = "RECEIVED"
    BY <1>3 DEF StoreSent, LifeInv, CallInv
  <2>3. /\ \A g \in Guids : g # fast.guid => news'[g] = news[g]
        /\ news'[fast.guid].retries = news[fast.guid].retries
    BY <1>3, <2>1 DEF StoreSent, TypeOK, Row
  <2> QED
    BY <2>1, <2>2, <2>3 DEF UntriedInv, Untried
<1>4. CASE MarkSendFailed
  <2>1. \A g \in Guids : news'[g] = news[g] \/ news'[g].status = "FAILED"
    BY <1>4 DEF MarkSendFailed, TypeOK, Row
  <2> QED
    BY <2>1 DEF UntriedInv, Untried
<1> QED
  BY <1>1, <1>2, <1>3, <1>4 DEF FastStep

LEMMA TaskStepUntried ==
    ASSUME TypeOK, LifeInv, UntriedInv, NEW g \in Guids, TaskStep(g)
    PROVE  UntriedInv'
<1>1. CASE MarkAiPending(g)
  <2>1. news[g].status = "TELEGRAM_PENDING"
    BY <1>1 DEF MarkAiPending, LifeInv, TaskInv
  <2>2. /\ \A h \in Guids : h # g => news'[h] = news[h]
        /\ news'[g].retries = news[g].retries
    BY <1>1 DEF MarkAiPending, TypeOK, Row
  <2> QED
    BY <2>1, <2>2 DEF UntriedInv, Untried
<1>2. CASE CommitSuccess(g) \/ CommitPublished(g) \/ MarkAiFailed(g) \/ MarkTaskFailed(g)
  <2>1. \A h \in Guids : \/ news'[h] = news[h]
                         \/ news'[h].status \in {"AI_SUCCESS", "PUBLISHED", "AI_FAILED", "FAILED"}
    BY <1>2 DEF CommitSuccess, CommitPublished, MarkAiFailed, MarkTaskFailed,
                MarkFailed, TypeOK, Row
  <2> QED
    BY <2>1 DEF UntriedInv, Untried
<1>3. CASE \/ StoryStage(g) \/ IndicatorStage(g) \/ MacroStage(g) \/ AiCall(g)
           \/ EditAcknowledged(g) \/ EditAnsweredFalse(g) \/ EditRetryable(g)
           \/ EditRejected(g) \/ RecordPublished(g)
  <2>1. news' = news
    BY <1>3 DEF StoryStage, IndicatorStage, MacroStage, Stage, AiCall, EditAcknowledged,
                EditAnsweredFalse, EditRetryable, EditRejected, RecordPublished
  <2> QED
    BY <2>1 DEF UntriedInv, Untried
<1> QED
  BY <1>1, <1>2, <1>3 DEF TaskStep

LEMMA RecoverRow ==
    ASSUME Recover, NEW g \in Guids, dbFaults \in Nat
    PROVE  \/ news'[g] = IF Interrupted(g) /\ ~Resumable(g)
                         THEN [news[g] EXCEPT !.status = "FAILED", !.err = "interrupted"]
                         ELSE news[g]
           \/ news'[g] = news[g] /\ dbFaults' # dbFaults
<1>1. CASE news' = [h \in Guids |->
                      IF Interrupted(h) /\ ~Resumable(h)
                      THEN [news[h] EXCEPT !.status = "FAILED", !.err = "interrupted"]
                      ELSE news[h]]
  BY <1>1
<1>2. CASE news' = news /\ DbFault
  BY <1>2 DEF DbFault
<1> QED
  BY <1>1, <1>2 DEF Recover

LEMMA NextUntried == TypeOK /\ LifeInv /\ UntriedInv /\ [Next]_vars => UntriedInv'
<1> SUFFICES ASSUME TypeOK, LifeInv, UntriedInv, [Next]_vars PROVE UntriedInv'
  OBVIOUS
<1>1. CASE Recover
  <2>1. ASSUME NEW g \in Guids PROVE news'[g] = news[g] \/ news'[g].status = "FAILED"
    <3>1. \/ news'[g] = [news[g] EXCEPT !.status = "FAILED", !.err = "interrupted"]
          \/ news'[g] = news[g]
      <4>1. dbFaults \in Nat
        BY ConstantsAssumption DEF TypeOK
      <4> QED
        BY <1>1, <4>1, RecoverRow
    <3>2. [news[g] EXCEPT !.status = "FAILED", !.err = "interrupted"].status = "FAILED"
      BY DEF TypeOK, Row
    <3> QED
      BY <3>1, <3>2
  <2> QED
    BY <2>1 DEF UntriedInv, Untried
<1>2. CASE Crash \/ UNCHANGED vars
  BY <1>2 DEF Crash, vars, UntriedInv, Untried
<1>3. ASSUME NEW g \in Guids, NEW c \in Contents \cup {Blank}, Receive(g, c)
      PROVE  UntriedInv'
  BY <1>3 DEF Receive, UntriedInv, Untried
<1> QED
  BY <1>1, <1>2, <1>3, FastStepUntried, TaskStepUntried DEF Next

\* Only a recovery, or a restart without one, ends the wait for it.
LEMMA OnlyRecover ==
    ASSUME TypeOK, [Next]_vars, booting, ~booting', crashes' = crashes
    PROVE  Recover
<1>1. CASE FastStep
  BY <1>1, FastStepFrame
<1>2. ASSUME NEW g \in Guids, TaskStep(g) PROVE FALSE
  BY <1>2, TaskStepFrame
<1>3. ASSUME NEW g \in Guids, NEW c \in Contents \cup {Blank}, Receive(g, c)
      PROVE  FALSE
  BY <1>3 DEF Receive
<1>4. ~Crash
  <2>1. crashes \in Nat
    BY ConstantsAssumption DEF TypeOK
  <2>2. Crash => crashes' = crashes + 1
    BY DEF Crash
  <2> QED
    BY <2>1, <2>2
<1> QED
  BY <1>1, <1>2, <1>3, <1>4 DEF Next, vars

LEMMA RecoverOwns ==
    ASSUME TypeOK, UntriedInv, Recover, dbFaults' = dbFaults, NEW g \in Guids,
           news'[g].status \in {"AI_PENDING", "TELEGRAM_PENDING"}
    PROVE  task'[g] = NewTask
<1>1. dbFaults \in Nat
  BY ConstantsAssumption DEF TypeOK
<1>2. news'[g] = IF Interrupted(g) /\ ~Resumable(g)
                 THEN [news[g] EXCEPT !.status = "FAILED", !.err = "interrupted"]
                 ELSE news[g]
  BY <1>1, RecoverRow
<1>3. news'[g] = news[g] /\ ~(Interrupted(g) /\ ~Resumable(g))
  BY <1>2 DEF TypeOK, Row
<1>4. news[g].retries = 0
  BY <1>3 DEF UntriedInv, Untried
<1>5. Interrupted(g)
  BY <1>3, <1>4 DEF Interrupted, MaxRetryAttempts
<1> QED
  BY <1>3, <1>5 DEF Recover

\* A recovery at startup leaves no record that it looks for without a task.
THEOREM RecoveryCorrect == Spec => RecoveryRequeues
<1>1. Init => UntriedInv
  BY DEF Init, NoRow, UntriedInv, Untried
<1>2. NewTask # NoTask
  BY DEF NewTask, NoTask
<1>3. TypeOK /\ UntriedInv /\ [Next]_vars =>
        (booting /\ ~booting' /\ dbFaults' = dbFaults /\ crashes' = crashes =>
           \A g \in Guids :
               news'[g].status \in {"AI_PENDING", "TELEGRAM_PENDING"} => Owned(g)')
  BY <1>2, OnlyRecover, RecoverOwns DEF Owned
<1> QED
  BY <1>1, <1>3, NextUntried, TypeCorrect, LifeCorrect, PTL DEF Spec, RecoveryRequeues

-----------------------------------------------------------------------------
(* First sight.                                                             *)

\* A step that touches at most the item g, which is stored before and after,
\* and that starts no attempt to send.
LEMMA FirstSightKept ==
    ASSUME FirstSightInv, NEW g \in Guids, Stored(g), Stored(g)',
           \A h \in Guids : h # g => news'[h] = news[h] /\ shown'[h] = shown[h],
           \/ fast'.pc \notin {"insert", "send"}
           \/ fast' = fast /\ (fast.pc = "send" => fast.guid \in Guids \ {g})
    PROVE  FirstSightInv'
<1>1. \A h \in Guids : ~Stored(h)' => news'[h].hash = Blank /\ shown'[h] = "nothing"
  BY DEF FirstSightInv, Stored
<1>2. /\ fast'.pc = "insert" => fast'.content \in Contents
      /\ fast'.pc = "send" => shown'[fast'.guid] = "nothing"
  BY DEF FirstSightInv
<1> QED
  BY <1>1, <1>2 DEF FirstSightInv

\* The item of an attempt to send, and of a task, is stored.
LEMMA CallStored ==
    ASSUME TypeOK, LifeInv, fast.pc \in {"send", "store", "senderr"}
    PROVE  /\ fast.guid \in Guids /\ Stored(fast.guid)
           /\ news[fast.guid].status = "RECEIVED"
           /\ task[fast.guid].pc = "none"
  BY DEF TypeOK, Running, Idle, LifeInv, CallInv, TaskInv, Stored, Task,
         TaskPoints, Stages

LEMMA TaskStored ==
    ASSUME TypeOK, LifeInv, AnnounceInv, NEW g \in Guids, TaskStep(g)
    PROVE  Stored(g) /\ Stored(g)' /\ news'[g].hash = news[g].hash
<1>1. Stored(g)
  BY TaskStepFrame DEF TypeOK, LifeInv, TaskInv, Task, TaskPoints, Stages, Stored
<1> QED
  BY <1>1, TaskStepAnnounce DEF SameAnnouncement, Stored

LEMMA FastStepFirstSight ==
    ASSUME TypeOK, LifeInv, FirstSightInv, FastStep
    PROVE  FirstSightInv'
<1> USE DEF telegram
<1>1. PICK f \in Guids : fast.guid = f
  BY FastStepFrame
<1>2. /\ fast \in Running /\ news[f] \in Row
      /\ \A h \in Guids : h # f => news'[h] = news[h] /\ shown'[h] = shown[h]
  BY <1>1, FastStepFrame DEF TypeOK
<1>3. CASE Lookup
  <2>1. news' = news /\ shown' = shown
    BY <1>3 DEF Lookup
  <2>2. \/ fast' = Idle
        \/ fast' = [fast EXCEPT !.pc = "insert"] /\ fast.content # Blank
    BY <1>3 DEF Lookup
  <2>3. /\ fast'.pc = "insert" => fast'.content \in Contents
        /\ fast'.pc # "send"
    BY <1>2, <2>2 DEF Idle, Running
  <2> QED
    BY <2>1, <2>3 DEF FirstSightInv, Stored
<1>4. CASE Insert /\ fast' = Idle
  <2>1. news' = news /\ shown' = shown
    BY <1>2, <1>4 DEF Insert, Idle, Running
  <2> QED
    BY <1>4, <2>1 DEF FirstSightInv, Stored, Idle
<1>5. CASE Insert /\ fast' # Idle
  <2>1. /\ ~Stored(f) /\ news' = [news EXCEPT ![f] = NewRow(fast.content)]
        /\ fast' = [fast EXCEPT !.pc = "send"] /\ shown' = shown
    BY <1>1, <1>5 DEF Insert
  <2>2. Stored(f)' /\ shown'[f] = "nothing"
    BY <2>1 DEF TypeOK, NewRow, Stored, FirstSightInv
  <2>3. fast'.guid = f /\ fast'.pc = "send"
    BY <1>1, <1>2, <2>1 DEF Running
  <2>4. \A h \in Guids : ~Stored(h)' => news'[h].hash = Blank /\ shown'[h] = "nothing"
    BY <1>2, <2>2 DEF FirstSightInv, Stored
  <2> QED
    BY <2>2, <2>3, <2>4 DEF FirstSightInv
<1>6. CASE SendRetryable \/ SendRejected
  <2>1. /\ news' = news /\ shown' = shown /\ fast.pc = "send"
        /\ fast'.guid = f /\ fast'.pc \in {"send", "senderr"}
    BY <1>1, <1>2, <1>6 DEF SendRetryable, SendRejected, Running
  <2> QED
    BY <1>1, <2>1 DEF FirstSightInv, Stored
<1>7. CASE SendAcknowledged \/ StoreSent \/ MarkSendFailed
  <2>1. Stored(f)
    BY <1>1, <1>7, CallStored DEF SendAcknowledged, StoreSent, MarkSendFailed
  <2>2. fast'.pc \notin {"insert", "send"}
    BY <1>2, <1>7 DEF SendAcknowledged, StoreSent, MarkSendFailed, Running, Idle
  <2>3. Stored(f)'
    BY <1>1, <1>2, <1>7, <2>1
       DEF SendAcknowledged, StoreSent, MarkSendFailed, TypeOK, Row, Stored
  <2> QED
    BY <1>2, <2>1, <2>2, <2>3, FirstSightKept
<1> QED
  BY <1>3, <1>4, <1>5, <1>6, <1>7 DEF FastStep

\* At first nobody has seen anything.
LEMMA FirstSightInit == Init => FirstSightInv
<1>1. NoRow.status = "ABSENT" /\ NoRow.hash = Blank
  BY DEF NoRow
<1> QED
  BY <1>1 DEF Init, FirstSightInv, Idle

\* Every step of the pipeline keeps what no row has unseen.
LEMMA FirstSightStep ==
    ASSUME TypeOK, LifeInv, AnnounceInv, FirstSightInv, [Next]_vars
    PROVE  FirstSightInv'
<1>1. ASSUME NEW g \in Guids, NEW c \in Contents \cup {Blank}, Receive(g, c)
      PROVE  FirstSightInv'
  BY <1>1 DEF Receive, telegram, FirstSightInv, Stored
<1>2. ASSUME NEW g \in Guids, TaskStep(g) PROVE FirstSightInv'
  <2>1. fast.pc = "send" => fast.guid \in Guids \ {g}
    BY <1>2, CallStored, TaskStepFrame
  <2> QED
    BY <1>2, <2>1, TaskStored, TaskStepFrame, FirstSightKept
<1>3. CASE Crash
  BY <1>3 DEF Crash, telegram, FirstSightInv, Stored, Idle
<1>4. CASE Recover
  <2>1. fast' = Idle /\ shown' = shown
    BY <1>4 DEF Recover, telegram, LifeInv, CallInv
  <2>2. \A g \in Guids : ~Stored(g)' => ~Stored(g) /\ news'[g] = news[g]
    BY <1>4 DEF Recover, Stored, Interrupted, TypeOK, Row
  <2> QED
    BY <2>1, <2>2 DEF FirstSightInv, Idle
<1>5. CASE UNCHANGED vars
  BY <1>5 DEF vars, telegram, FirstSightInv, Stored
<1> QED
  BY <1>1, <1>2, <1>3, <1>4, <1>5, FastStepFirstSight DEF Next

\* What nobody has stored nobody has seen.
THEOREM FirstSightCorrect == Spec => []FirstSightInv
<1>1. Init => FirstSightInv
  BY FirstSightInit
<1>2. TypeOK /\ LifeInv /\ AnnounceInv /\ FirstSightInv /\ [Next]_vars
          => FirstSightInv'
  BY FirstSightStep
<1> QED
  BY <1>1, <1>2, TypeCorrect, LifeCorrect, AnnounceCorrect, PTL DEF Spec

-----------------------------------------------------------------------------
(* The refinement.                                                          *)

\* The states of the life of an item, one by one.
LEMMA StateOf ==
    /\ LifecycleState["ABSENT"] = "absent"
    /\ LifecycleState["RECEIVED"] = "accepted"
    /\ LifecycleState["TELEGRAM_PENDING"] = "announced"
    /\ LifecycleState["AI_PENDING"] = "announced"
    /\ LifecycleState["AI_SUCCESS"] = "translated"
    /\ LifecycleState["PUBLISHED"] = "published"
    /\ LifecycleState["AI_FAILED"] = "rejected"
    /\ LifecycleState["FAILED"] = "failed"
  BY DEF LifecycleState

\* Steps that change neither the life nor what a reader sees.
LEMMA Stutter ==
    ASSUME shown' = shown,
           \A g \in Guids : /\ LifecycleState[news'[g].status]
                                 = LifecycleState[news[g].status]
                            /\ news'[g].hash = news[g].hash
    PROVE  UNCHANGED Lifecycle!vars
  BY DEF Lifecycle!vars

\* Steps that move one item on.
LEMMA Move ==
    ASSUME TypeOK, TypeOK', NEW g \in Guids, NEW state, shown' = shown,
           \A h \in Guids : h # g => news'[h] = news[h],
           LifecycleState[news'[g].status] = state, news'[g].hash = news[g].hash
    PROVE  Lifecycle!MoveTo(g, state)
  BY DEF Lifecycle!MoveTo

\* Steps that show one item.
LEMMA Show ==
    ASSUME TypeOK, NEW g \in Guids, NEW text, news' = news,
           shown' = [shown EXCEPT ![g] = text]
    PROVE  Lifecycle!See(g, text)
  BY DEF Lifecycle!See

\* Steps that give items up.
LEMMA GivesUp ==
    ASSUME shown' = shown,
           \A g \in Guids :
               \/ news'[g] = news[g]
               \/ /\ news[g].status \in {"RECEIVED", "TELEGRAM_PENDING",
                                        "AI_PENDING", "AI_SUCCESS"}
                  /\ news'[g].status = "FAILED"
                  /\ news'[g].hash = news[g].hash
    PROVE  Lifecycle!Next
<1>0. PICK S \in SUBSET Guids : \A g \in Guids : g \in S <=> news'[g] # news[g]
  <2>1. {g \in Guids : news'[g] # news[g]} \in SUBSET Guids
    OBVIOUS
  <2> QED
    BY <2>1
<1>1. \A g \in S : Lifecycle!In(g, {"accepted", "announced", "translated"})
  BY <1>0, StateOf DEF Lifecycle!In
<1>2. \A g \in Guids :
          /\ g \in S => /\ LifecycleState[news'[g].status] = "failed"
                       /\ news'[g].hash = news[g].hash
          /\ g \notin S => news'[g] = news[g]
  BY <1>0, StateOf
<1> DEFINE R == [g \in Guids |-> [state |-> LifecycleState[news[g].status],
                                content |-> news[g].hash]]
<1>3. \A g \in Guids :
          [state |-> LifecycleState[news'[g].status], content |-> news'[g].hash]
              = IF g \in S THEN [R[g] EXCEPT !.state = "failed"] ELSE R[g]
  <2> SUFFICES ASSUME NEW g \in Guids
               PROVE  [state |-> LifecycleState[news'[g].status],
                       content |-> news'[g].hash]
                          = IF g \in S THEN [R[g] EXCEPT !.state = "failed"]
                                       ELSE R[g]
    OBVIOUS
  <2>1. CASE g \in S
    BY <1>2, <2>1
  <2>2. CASE g \notin S
    BY <1>2, <2>2
  <2> QED
    BY <2>1, <2>2
<1>4. R' = [g \in Guids |-> IF g \in S THEN [R[g] EXCEPT !.state = "failed"]
                                       ELSE R[g]]
  BY <1>3
<1>5. Lifecycle!GiveUp(S)
  BY <1>1, <1>4 DEF Lifecycle!GiveUp
<1> QED
  BY <1>5 DEF Lifecycle!Next

\* The row of the item a task works on, as the statuses tell.
LEMMA TaskMaps ==
    ASSUME TypeOK, TypeOK', LifeInv, AnnounceInv, NEW g \in Guids, TaskStep(g)
    PROVE  [Lifecycle!Next]_(Lifecycle!vars)
<1> USE DEF telegram
<1>0. /\ TaskInv(g) /\ RowInv(g) /\ news[g] \in Row
      /\ news'[g].hash = news[g].hash
      /\ \A h \in Guids : h # g => news'[h] = news[h]
  BY TaskStepFrame, TaskStored DEF LifeInv, TypeOK
<1>1. ASSUME UNCHANGED <<news, shown>> PROVE UNCHANGED Lifecycle!vars
  BY <1>1, Stutter
<1>2. CASE MarkAiPending(g)
  <2>1. CASE UNCHANGED news
    BY <1>1, <1>2, <2>1 DEF MarkAiPending
  <2>2. CASE ~UNCHANGED news
    <3>1. /\ news[g].status = "TELEGRAM_PENDING" /\ shown' = shown
          /\ news'[g].status = "AI_PENDING"
      BY <1>0, <1>2, <2>2 DEF MarkAiPending, TaskInv, TypeOK, Row
    <3> QED
      BY <1>0, <3>1, Stutter, StateOf
  <2> QED
    BY <2>1, <2>2
<1>3. CASE \/ StoryStage(g) \/ IndicatorStage(g) \/ MacroStage(g) \/ AiCall(g)
           \/ EditAnsweredFalse(g) \/ EditRejected(g) \/ RecordPublished(g)
  BY <1>1, <1>3 DEF StoryStage, IndicatorStage, MacroStage, Stage, AiCall,
                    EditAnsweredFalse, EditRejected, RecordPublished
<1>4. CASE CommitSuccess(g)
  <2>1. CASE UNCHANGED news
    BY <1>1, <1>4, <2>1 DEF CommitSuccess
  <2>2. CASE ~UNCHANGED news
    <3>1. /\ news[g].status = "AI_PENDING" /\ shown' = shown
          /\ news'[g].status = "AI_SUCCESS"
      BY <1>0, <1>4, <2>2 DEF CommitSuccess, TaskInv, TypeOK, Row
    <3>2. Lifecycle!MoveTo(g, "translated")
      BY <1>0, <3>1, Move, StateOf
    <3>3. Lifecycle!Translate(g)
      BY <3>1, <3>2, StateOf DEF Lifecycle!Translate, Lifecycle!In
    <3> QED
      BY <3>3 DEF Lifecycle!Next
  <2> QED
    BY <2>1, <2>2
<1>5. CASE EditAcknowledged(g) \/ EditRetryable(g)
  <2>1. CASE shown' = shown
    BY <1>1, <1>5, <2>1 DEF EditAcknowledged, EditRetryable
  <2>2. CASE shown' # shown
    <3>1. /\ news[g].status = "AI_SUCCESS" /\ news' = news
          /\ shown' = [shown EXCEPT ![g] = "premium"]
      BY <1>0, <1>5, <2>2 DEF EditAcknowledged, EditRetryable, TaskInv
    <3>2. Lifecycle!See(g, "premium")
      BY <3>1, Show
    <3>3. Lifecycle!Enrich(g)
      BY <3>1, <3>2, StateOf DEF Lifecycle!Enrich, Lifecycle!In
    <3> QED
      BY <3>3 DEF Lifecycle!Next
  <2> QED
    BY <2>1, <2>2
<1>6. CASE CommitPublished(g)
  <2>1. CASE UNCHANGED news
    BY <1>1, <1>6, <2>1 DEF CommitPublished
  <2>2. CASE ~UNCHANGED news
    <3>1. /\ news[g].status = "AI_SUCCESS" /\ shown' = shown
          /\ news'[g].status = "PUBLISHED"
          /\ shown[g] = "premium" \/ OkFalse
      BY <1>0, <1>6, <2>2 DEF CommitPublished, TaskInv, TypeOK, Row
    <3>2. Lifecycle!MoveTo(g, "published")
      BY <1>0, <3>1, Move, StateOf
    <3>3. Lifecycle!Publish(g)
      BY <3>1, <3>2, StateOf DEF Lifecycle!Publish, Lifecycle!In
    <3> QED
      BY <3>3 DEF Lifecycle!Next
  <2> QED
    BY <2>1, <2>2
<1>7. CASE MarkAiFailed(g)
  <2>1. CASE UNCHANGED news
    BY <1>1, <1>7, <2>1 DEF MarkAiFailed, MarkFailed
  <2>2. CASE ~UNCHANGED news
    <3>1. /\ news[g].status = "AI_PENDING" /\ shown' = shown
          /\ news'[g].status = "AI_FAILED"
      BY <1>0, <1>7, <2>2 DEF MarkAiFailed, MarkFailed, TaskInv, TypeOK, Row
    <3>2. Lifecycle!MoveTo(g, "rejected")
      BY <1>0, <3>1, Move, StateOf
    <3>3. Lifecycle!Reject(g)
      BY <3>1, <3>2, StateOf DEF Lifecycle!Reject, Lifecycle!In
    <3> QED
      BY <3>3 DEF Lifecycle!Next
  <2> QED
    BY <2>1, <2>2
<1>8. CASE MarkTaskFailed(g)
  <2>1. CASE UNCHANGED news
    BY <1>1, <1>8, <2>1 DEF MarkTaskFailed, MarkFailed
  <2>2. CASE ~UNCHANGED news
    <3>1. /\ news[g].status \in {"AI_PENDING", "AI_SUCCESS"} /\ shown' = shown
          /\ news'[g].status = "FAILED"
      BY <1>0, <1>8, <2>2 DEF MarkTaskFailed, MarkFailed, TaskInv, TypeOK, Row
    <3> QED
      BY <1>0, <3>1, GivesUp
  <2> QED
    BY <2>1, <2>2
<1> QED
  BY <1>2, <1>3, <1>4, <1>5, <1>6, <1>7, <1>8 DEF TaskStep

LEMMA FastMaps ==
    ASSUME TypeOK, TypeOK', LifeInv, AnnounceInv, FirstSightInv, FastStep
    PROVE  [Lifecycle!Next]_(Lifecycle!vars)
<1> USE DEF telegram
<1>1. PICK f \in Guids : fast.guid = f
  BY FastStepFrame
<1>2. /\ fast \in Running /\ news[f] \in Row
      /\ \A h \in Guids : h # f => news'[h] = news[h]
  BY <1>1, FastStepFrame DEF TypeOK
<1>3. ASSUME UNCHANGED <<news, shown>> PROVE UNCHANGED Lifecycle!vars
  BY <1>3, Stutter
<1>4. CASE Lookup \/ SendRetryable \/ SendRejected
  BY <1>3, <1>4 DEF Lookup, SendRetryable, SendRejected
<1>5. CASE Insert
  <2>1. CASE UNCHANGED news
    BY <1>3, <1>5, <2>1 DEF Insert
  <2>2. CASE ~UNCHANGED news
    <3>1. /\ ~Stored(f) /\ news' = [news EXCEPT ![f] = NewRow(fast.content)]
          /\ shown' = shown /\ fast.pc = "insert"
      BY <1>1, <1>5, <2>2 DEF Insert
    <3>2. PICK c \in Contents : c = fast.content
      BY <3>1 DEF FirstSightInv
    <3>3. \A h \in Guids : news[h].hash # c
      BY <3>1, <3>2, ConstantsAssumption
         DEF AnnounceInv, FirstSightInv, Known
    <3>4. news[f].status = "ABSENT" /\ LifecycleState[NewRow(c).status] = "accepted"
          /\ NewRow(c).hash = c
      BY <3>1, StateOf DEF Stored, NewRow
    <3>5. news'[f] = NewRow(c)
      BY <3>1, <3>2 DEF TypeOK
    <3>6. Lifecycle!Accept(f, c)
      BY <1>2, <3>1, <3>3, <3>4, <3>5, StateOf DEF Lifecycle!Accept, Lifecycle!In
    <3> QED
      BY <3>6 DEF Lifecycle!Next
  <2> QED
    BY <2>1, <2>2
<1>6. CASE SendAcknowledged
  <2>1. /\ news' = news /\ shown' = [shown EXCEPT ![f] = "raw"]
        /\ shown[f] = "nothing" /\ news[f].status = "RECEIVED"
    BY <1>1, <1>6, CallStored DEF SendAcknowledged, FirstSightInv
  <2>2. Lifecycle!See(f, "raw")
    BY <2>1, Show
  <2>3. Lifecycle!Announce(f)
    BY <2>1, <2>2, StateOf DEF Lifecycle!Announce, Lifecycle!In
  <2> QED
    BY <2>3 DEF Lifecycle!Next
<1>7. CASE StoreSent
  <2>1. CASE UNCHANGED news
    BY <1>3, <1>7, <2>1 DEF StoreSent
  <2>2. CASE ~UNCHANGED news
    <3>1. /\ news[f].status = "RECEIVED" /\ shown[f] = "raw" /\ shown' = shown
          /\ news'[f].status = "TELEGRAM_PENDING" /\ news'[f].hash = news[f].hash
      BY <1>1, <1>2, <1>7, <2>2 DEF StoreSent, LifeInv, CallInv, TypeOK, Row
    <3>2. Lifecycle!MoveTo(f, "announced")
      BY <1>2, <3>1, Move, StateOf
    <3>3. Lifecycle!Acknowledge(f)
      BY <3>1, <3>2, StateOf DEF Lifecycle!Acknowledge, Lifecycle!In
    <3> QED
      BY <3>3 DEF Lifecycle!Next
  <2> QED
    BY <2>1, <2>2
<1>8. CASE MarkSendFailed
  <2>1. CASE UNCHANGED news
    BY <1>3, <1>8, <2>1 DEF MarkSendFailed
  <2>2. CASE ~UNCHANGED news
    <3>1. /\ news[f].status = "RECEIVED" /\ shown' = shown
          /\ news'[f].status = "FAILED" /\ news'[f].hash = news[f].hash
      BY <1>1, <1>2, <1>8, <2>2 DEF MarkSendFailed, LifeInv, CallInv, TypeOK, Row
    <3> QED
      BY <1>2, <3>1, GivesUp
  <2> QED
    BY <2>1, <2>2
<1> QED
  BY <1>4, <1>5, <1>6, <1>7, <1>8 DEF FastStep

\* No item has begun its life.
LEMMA LifecycleInit == Init => Lifecycle!Init
<1>1. NoRow.status = "ABSENT" /\ NoRow.hash = Blank
  BY DEF NoRow
<1> QED
  BY <1>1, StateOf DEF Init, Lifecycle!Init, Lifecycle!Absent

\* Every step of the pipeline is one of the life of its items, or none.
LEMMA LifecycleStep ==
    ASSUME TypeOK, TypeOK', LifeInv, AnnounceInv, FirstSightInv, [Next]_vars
    PROVE  [Lifecycle!Next]_(Lifecycle!vars)
<1>1. CASE \/ \E g \in Guids, c \in Contents \cup {Blank} : Receive(g, c)
           \/ Crash \/ UNCHANGED vars
  <2>1. UNCHANGED <<news, shown>>
    BY <1>1 DEF Receive, Crash, vars, telegram
  <2> QED
    BY <2>1, Stutter
<1>2. CASE Recover
  <2>1. shown' = shown
    BY <1>2 DEF Recover, telegram
  <2>2. ASSUME NEW g \in Guids, news'[g] # news[g]
        PROVE  /\ news[g].status \in {"TELEGRAM_PENDING", "AI_PENDING"}
               /\ news'[g].status = "FAILED" /\ news'[g].hash = news[g].hash
    <3>1. news[g] \in Row /\ Interrupted(g)
      BY <1>2, <2>2 DEF Recover, TypeOK
    <3>2. news'[g] = [news[g] EXCEPT !.status = "FAILED",
                                     !.err = "interrupted"]
      BY <1>2, <2>2 DEF Recover
    <3>3. news'[g].status = "FAILED" /\ news'[g].hash = news[g].hash
      BY <3>1, <3>2 DEF Row
    <3> QED
      BY <3>1, <3>3 DEF Interrupted
  <2> QED
    BY <2>1, <2>2, GivesUp
<1> QED
  BY <1>1, <1>2, FastMaps, TaskMaps DEF Next

\* Whatever fails and however often the process restarts, an item lives the
\* life of NewsLifecycle.
THEOREM Implementation == Spec => ImplementsLifecycle
<1>1. Init => Lifecycle!Init
  BY LifecycleInit
<1>2. TypeOK /\ TypeOK' /\ LifeInv /\ AnnounceInv /\ FirstSightInv /\ [Next]_vars
          => [Lifecycle!Next]_(Lifecycle!vars)
  BY LifecycleStep
<1> QED
  BY <1>1, <1>2, TypeCorrect, LifeCorrect, AnnounceCorrect, FirstSightCorrect,
     PTL DEF Spec, ImplementsLifecycle, Lifecycle!Spec
=============================================================================
