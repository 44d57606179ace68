--------------------------- MODULE EnrichmentProofs ---------------------------
(* Machine-checked theorems about Enrichment, for all its constants.        *)
EXTENDS Enrichment, NewsOrchestratorProofs

-----------------------------------------------------------------------------
(* The enriched pipeline is the pipeline.                                   *)

LEMMA StepSimulation == EnrichmentNext => [Next]_vars
<1> SUFFICES ASSUME EnrichmentNext PROVE [Next]_vars
  OBVIOUS
<1>1. CASE Around
  BY <1>1 DEF Around, Next, TaskStep
<1>2. CASE Restart
  BY <1>2 DEF Restart, Next
<1>3. ASSUME NEW g \in Guids, EnrichmentStep(g) PROVE [Next]_vars
  <2>1. TaskStep(g) \/ UNCHANGED vars
    BY <1>3 DEF EnrichmentStep, Story, Macro, NoAnswer, AnswerUnusable,
                AnswerUnreadable, Answer, Store, Edit, TaskStep
  <2> QED
    BY <2>1 DEF Next
<1> QED
  BY <1>1, <1>2, <1>3 DEF EnrichmentNext

\* What is proved of the pipeline holds with its data: Enrichment only adds
\* variables and restricts its steps.
THEOREM EnrichmentIsPipeline == EnrichmentSpec => Spec
<1>1. EnrichmentInit => Init
  BY DEF EnrichmentInit
<1>2. [EnrichmentNext]_enrichmentVars => [Next]_vars
  BY StepSimulation DEF enrichmentVars, vars
<1> QED
  BY <1>1, <1>2, PTL DEF EnrichmentSpec, Spec

-----------------------------------------------------------------------------
(* The inductive invariant.                                                 *)

\* An item keeps its exchange where neither its row nor its task touches it.
LEMMA ExchangeUntouched ==
    ASSUME NEW h \in Guids, ExchangeInv(h), RowInv(h),
           exchange'[h] = exchange[h], columns'[h] = columns[h],
           message'[h] = message[h],
           news'[h].arabic = news[h].arabic,
           shown'[h] = "premium" => shown[h] = "premium",
           task'[h].pc \in {"commit_success", "edit"} =>
               task'[h].pc = task[h].pc /\ local'[h] = local[h],
           news[h].arabic \/ task'[h].pc \in {"commit_success", "edit"} =>
               news'[h].hash = news[h].hash
    PROVE  ExchangeInv(h)'
<1>1. news'[h].hash = news[h].hash =>
          Headline(h)' = Headline(h) /\ Class(h)' = Class(h) /\ Accepted(h)' = Accepted(h)
  BY DEF Headline, Class, Accepted
<1>2. shown'[h] = "premium" => news[h].arabic
  BY DEF RowInv
<1>3. (task[h].pc = "commit_success" \/ news[h].arabic => Accepted(h))'
  BY <1>1 DEF ExchangeInv
<1>4. (task[h].pc \in {"commit_success", "edit"} =>
          exchange[h].prompt = Prompt(Class(h), local[h].decision, local[h].macro))'
  BY <1>1 DEF ExchangeInv
<1>5. (columns[h] = IF news[h].arabic THEN Columns(exchange[h].reply) ELSE None)'
  BY DEF ExchangeInv
<1>6. (shown[h] = "premium" => \E d \in Decisions \cup {None}, told \in BOOLEAN :
          /\ exchange[h].prompt = Prompt(Class(h), d, told)
          /\ message[h] = Message(Class(h), d, exchange[h].reply))'
  BY <1>1, <1>2 DEF ExchangeInv
<1> QED
  BY <1>3, <1>4, <1>5, <1>6 DEF ExchangeInv

LEMMA FastStepExchange ==
    ASSUME TypeOK, LifeInv, EnrichmentInv, FastStep,
           UNCHANGED <<local, exchange, columns, message>>
    PROVE  EnrichmentInv'
<1>1. PICK f \in Guids : fast.guid = f
  BY FastStepFrame
<1>2. ASSUME NEW h \in Guids PROVE ExchangeInv(h)'
  <2>1. RowInv(h) /\ TaskInv(h) /\ ExchangeInv(h) /\ news[h] \in Row
    BY DEF LifeInv, EnrichmentInv, TypeOK
  <2>2. CASE h # f
    BY <1>1, <2>1, <2>2, FastStepFrame, ExchangeUntouched
  <2>3. CASE h = f
    <3>1. /\ news'[h].arabic = news[h].arabic
          /\ news[h].arabic => news'[h].hash = news[h].hash
          /\ shown'[h] = "premium" => shown[h] = "premium"
          /\ \/ /\ task'[h] = task[h]
                /\ task[h].pc \in {"commit_success", "edit"} =>
                      news'[h].hash = news[h].hash
             \/ task'[h] = NewTask
      <4> USE <1>1, <2>1, <2>3 DEF TypeOK, telegram
      <4>1. CASE Lookup
        BY <4>1 DEF Lookup
      <4>2. CASE Insert
        <5>1. CASE UNCHANGED news
          BY <4>2, <5>1 DEF Insert
        <5>2. CASE ~Stored(f) /\ news' = [news EXCEPT ![f] = NewRow(fast.content)]
          <6>1. news[h].status = "ABSENT"
            BY <5>2 DEF Stored
          <6>2. news[h].arabic = FALSE /\ task[h].pc \notin {"commit_success", "edit"}
            BY <6>1 DEF RowInv, TaskInv, Row
          <6>3. news'[h].arabic = FALSE
            BY <5>2 DEF NewRow
          <6> QED
            BY <4>2, <6>2, <6>3 DEF Insert
        <5> QED
          BY <4>2, <5>1, <5>2 DEF Insert
      <4>3. CASE SendAcknowledged \/ SendRetryable \/ SendRejected
        BY <4>3 DEF SendAcknowledged, SendRetryable, SendRejected
      <4>4. CASE StoreSent
        BY <4>4 DEF StoreSent, Row
      <4>5. CASE MarkSendFailed
        BY <4>5 DEF MarkSendFailed, Row
      <4> QED
        BY <4>1, <4>2, <4>3, <4>4, <4>5 DEF FastStep
    <3> QED
      BY <2>1, <3>1, ExchangeUntouched DEF NewTask
  <2> QED
    BY <2>2, <2>3
<1> QED
  BY <1>2 DEF EnrichmentInv, EnrichmentShape

LEMMA RestartExchange ==
    ASSUME TypeOK, LifeInv, EnrichmentInv, Restart
    PROVE  EnrichmentInv'
<1>1. NoLocal \in Local
  BY ZeroTries DEF NoLocal, Local
<1>2. EnrichmentShape'
  BY <1>1 DEF EnrichmentInv, EnrichmentShape, Restart
<1>3. ASSUME NEW h \in Guids PROVE ExchangeInv(h)'
  <2>1. RowInv(h) /\ TaskInv(h) /\ ExchangeInv(h) /\ news[h] \in Row
    BY DEF LifeInv, EnrichmentInv, TypeOK
  <2>2. CASE Crash
    <3>1. task'[h].pc = "none" /\ news'[h] = news[h] /\ shown'[h] = shown[h]
      BY <2>2 DEF Crash, NoTask, telegram
    <3>2. /\ exchange'[h] = exchange[h] /\ columns'[h] = columns[h]
          /\ message'[h] = message[h]
      BY DEF Restart
    <3> QED
      BY <2>1, <3>1, <3>2, ExchangeUntouched
  <2>3. CASE Recover
    <3>1. task'[h].pc \notin {"commit_success", "edit"}
      <4>1. task[h] = NoTask
        BY <2>1, <2>3 DEF Recover, TaskInv
      <4>2. task'[h] = NewTask \/ task'[h] = task[h]
        BY <2>3 DEF Recover
      <4> QED
        BY <4>1, <4>2 DEF NoTask, NewTask
    <3>2. /\ news'[h].arabic = news[h].arabic /\ news'[h].hash = news[h].hash
          /\ shown'[h] = shown[h]
      BY <2>1, <2>3 DEF Recover, Row, telegram
    <3> QED
      BY <2>1, <3>1, <3>2, ExchangeUntouched DEF Restart
  <2> QED
    BY <2>2, <2>3 DEF Restart
<1> QED
  BY <1>2, <1>3 DEF EnrichmentInv

\* The steps of Around that belong to a background task.
LEMMA AroundTaskExchange ==
    ASSUME TypeOK, LifeInv, EnrichmentInv, NEW g \in Guids,
           \/ MarkAiPending(g) \/ IndicatorStage(g) \/ CommitPublished(g)
           \/ RecordPublished(g) \/ MarkAiFailed(g) \/ MarkTaskFailed(g),
           UNCHANGED <<local, exchange, columns, message>>
    PROVE  EnrichmentInv'
<1>1. TaskStep(g)
  BY DEF TaskStep
<1>2. /\ news'[g].arabic = news[g].arabic /\ news'[g].hash = news[g].hash
      /\ shown'[g] = shown[g]
      /\ task'[g].pc \notin {"commit_success", "edit"}
  <2> USE MoveEffect DEF TypeOK, NoTask, telegram
  <2>1. CASE MarkAiPending(g)
    BY <2>1 DEF MarkAiPending, Row
  <2>2. CASE IndicatorStage(g)
    BY <2>2 DEF IndicatorStage, Stage
  <2>3. CASE CommitPublished(g)
    BY <2>3 DEF CommitPublished, Row
  <2>4. CASE RecordPublished(g)
    BY <2>4 DEF RecordPublished
  <2>5. CASE MarkAiFailed(g) \/ MarkTaskFailed(g)
    BY <2>5 DEF MarkAiFailed, MarkTaskFailed, MarkFailed, Row
  <2> QED
    BY <2>1, <2>2, <2>3, <2>4, <2>5
<1>3. ASSUME NEW h \in Guids PROVE ExchangeInv(h)'
  <2>1. RowInv(h) /\ ExchangeInv(h)
    BY DEF LifeInv, EnrichmentInv
  <2>2. /\ news'[h].arabic = news[h].arabic /\ news'[h].hash = news[h].hash
        /\ shown'[h] = shown[h]
        /\ task'[h].pc \in {"commit_success", "edit"} => task'[h] = task[h]
    BY <1>1, <1>2, TaskStepFrame
  <2> QED
    BY <2>1, <2>2, ExchangeUntouched
<1> QED
  BY <1>3 DEF EnrichmentInv, EnrichmentShape

LEMMA AroundExchange ==
    ASSUME TypeOK, LifeInv, EnrichmentInv, Around
    PROVE  EnrichmentInv'
<1>1. ASSUME NEW g \in Guids, NEW c \in Contents \cup {Blank}, Receive(g, c)
      PROVE  EnrichmentInv'
  <2>1. news' = news /\ shown' = shown /\ task' = task
    BY <1>1 DEF Receive, telegram
  <2>2. ASSUME NEW h \in Guids PROVE ExchangeInv(h)'
    <3>1. RowInv(h) /\ ExchangeInv(h)
      BY DEF LifeInv, EnrichmentInv
    <3> QED
      BY <2>1, <3>1, ExchangeUntouched DEF Around
  <2> QED
    BY <2>2 DEF EnrichmentInv, EnrichmentShape, Around
<1>2. UNCHANGED <<local, exchange, columns, message>>
  BY DEF Around
<1> QED
  BY <1>1, <1>2, FastStepExchange, AroundTaskExchange DEF Around

\* A step of an enriched task leaves what belongs to other items.
LEMMA OtherExchange ==
    ASSUME TypeOK, LifeInv, EnrichmentInv, NEW g \in Guids, EnrichmentStep(g),
           NEW h \in Guids, h # g
    PROVE  ExchangeInv(h)'
<1>1. RowInv(h) /\ ExchangeInv(h)
  BY DEF LifeInv, EnrichmentInv
<1>2. TaskStep(g) \/ UNCHANGED vars
  BY DEF EnrichmentStep, Story, Macro, NoAnswer, AnswerUnusable,
         AnswerUnreadable, Answer, Store, Edit, TaskStep
<1>3. news'[h] = news[h] /\ task'[h] = task[h] /\ shown'[h] = shown[h]
  BY <1>2, TaskStepFrame DEF vars, telegram
<1>4. /\ local'[h] = local[h] /\ exchange'[h] = exchange[h]
      /\ columns'[h] = columns[h] /\ message'[h] = message[h]
  BY DEF EnrichmentStep, Story, Macro, NoAnswer, AnswerUnusable, AnswerUnreadable,
         Answer, Ask, Store, Edit, EnrichmentInv, EnrichmentShape
<1> QED
  BY <1>1, <1>3, <1>4, ExchangeUntouched

\* An item at the AI has no Arabic text yet, in the row or in the channel.
LEMMA AtTheAi ==
    ASSUME TypeOK, LifeInv, EnrichmentInv, NEW g \in Guids,
           task[g].pc \in {"ai", "commit_success"}
    PROVE  /\ news[g].status = "AI_PENDING" /\ news[g].arabic = FALSE
           /\ shown[g] # "premium" /\ columns[g] = None
<1>1. RowInv(g) /\ TaskInv(g) /\ ExchangeInv(g) /\ news[g] \in Row
  BY DEF LifeInv, EnrichmentInv, TypeOK
<1>2. news[g].status = "AI_PENDING"
  BY <1>1 DEF TaskInv
<1>3. news[g].arabic = FALSE
  BY <1>1, <1>2 DEF RowInv, Row
<1> QED
  BY <1>1, <1>2, <1>3 DEF RowInv, ExchangeInv

\* A request leaves the item as it is, whatever is answered.
LEMMA AskFrame ==
    ASSUME TypeOK, EnrichmentInv, NEW g \in Guids, NEW answer, Ask(g, answer),
           AiCall(g) \/ UNCHANGED vars
    PROVE  /\ task[g].pc = "ai"
           /\ news'[g] = news[g] /\ shown'[g] = shown[g] /\ columns'[g] = columns[g]
           /\ exchange'[g].reply = answer
           /\ exchange'[g].prompt = Prompt(Class(g), local[g].decision, local[g].macro)
           /\ task'[g].pc \in {"ai", "commit_success", "aifail", "fail"}
<1>1. task'[g].pc \in {"ai", "commit_success", "aifail", "fail"}
  BY MoveEffect DEF AiCall, Ask, vars, TypeOK
<1>2. exchange'[g] = [prompt |-> Prompt(Class(g), local[g].decision, local[g].macro),
                      reply  |-> answer]
  BY DEF Ask, EnrichmentInv, EnrichmentShape
<1>3. news' = news /\ shown' = shown
  BY DEF AiCall, vars, telegram
<1> QED
  BY <1>1, <1>2, <1>3 DEF Ask

LEMMA AskExchange ==
    ASSUME TypeOK, LifeInv, EnrichmentInv, NEW g \in Guids, NEW answer, Ask(g, answer),
           AiCall(g) \/ UNCHANGED vars,
           task'[g].pc = "commit_success" =>
               /\ answer \in Answers /\ Verdict(Headline(g), answer) = "accepted"
               /\ UNCHANGED local
    PROVE  ExchangeInv(g)'
<1>1. /\ news[g].arabic = FALSE /\ shown[g] # "premium" /\ columns[g] = None
  BY AskFrame, AtTheAi
<1>2. Headline(g)' = Headline(g) /\ Class(g)' = Class(g)
  BY AskFrame DEF Headline, Class
<1>3. news'[g].arabic = FALSE /\ shown'[g] # "premium" /\ columns'[g] = None
  BY <1>1, AskFrame
<1>4. task'[g].pc = "commit_success" => Accepted(g)'
  BY <1>2, AskFrame DEF Accepted
<1>5. task'[g].pc \in {"commit_success", "edit"} =>
          (exchange[g].prompt = Prompt(Class(g), local[g].decision, local[g].macro))'
  BY <1>2, AskFrame
<1> QED
  BY <1>3, <1>4, <1>5 DEF ExchangeInv

LEMMA OwnExchange ==
    ASSUME TypeOK, LifeInv, EnrichmentInv, NEW g \in Guids, EnrichmentStep(g)
    PROVE  ExchangeInv(g)'
<1>0. RowInv(g) /\ TaskInv(g) /\ ExchangeInv(g) /\ news[g] \in Row
  BY DEF LifeInv, EnrichmentInv, TypeOK
<1>1. CASE Story(g)
  <2>1. task'[g].pc \notin {"commit_success", "edit"} /\ news' = news /\ shown' = shown
    BY <1>1, MoveEffect DEF Story, StoryStage, Stage, NoTask, TypeOK, Task, telegram
  <2> QED
    BY <1>0, <1>1, <2>1, ExchangeUntouched DEF Story
<1>2. CASE Macro(g)
  <2>1. task'[g].pc \notin {"commit_success", "edit"} /\ news' = news /\ shown' = shown
    BY <1>2, MoveEffect DEF Macro, MacroStage, Stage, NoTask, telegram
  <2> QED
    BY <1>0, <1>2, <2>1, ExchangeUntouched DEF Macro
<1>3. CASE NoAnswer(g)
  <2>1. task'[g].pc # "commit_success"
    BY <1>3 DEF NoAnswer, Ask, vars
  <2> QED
    BY <1>3, <2>1, AskExchange DEF NoAnswer
<1>4. CASE AnswerUnusable(g) \/ AnswerUnreadable(g)
  BY <1>4, AskExchange DEF AnswerUnusable, AnswerUnreadable
<1>5. CASE Answer(g)
  BY <1>5, AskExchange DEF Answer
<1>6. CASE Store(g)
  <2>1. /\ news[g].arabic = FALSE /\ shown[g] # "premium" /\ columns[g] = None
        /\ task[g].pc = "commit_success"
    BY <1>6, AtTheAi DEF Store, CommitSuccess
  <2>2. Accepted(g) /\ exchange[g].prompt = Prompt(Class(g), local[g].decision, local[g].macro)
    BY <1>0, <2>1 DEF ExchangeInv
  <2>3. /\ task'[g].pc \in {"edit", "none"} /\ shown' = shown
        /\ news'[g].hash = news[g].hash
        /\ \/ news'[g].arabic = TRUE
           \/ news'[g].arabic = FALSE /\ task'[g].pc = "none"
    BY <1>0, <1>6, <2>1, MoveEffect DEF Store, CommitSuccess, NoTask, Row, TypeOK, telegram
  <2>4. /\ exchange' = exchange /\ local' = local
        /\ columns'[g] = IF news'[g].arabic THEN Columns(exchange[g].reply) ELSE None
    BY <1>6, <2>1 DEF Store, EnrichmentInv, EnrichmentShape
  <2>5. Headline(g)' = Headline(g) /\ Class(g)' = Class(g) /\ Accepted(g)'
    BY <2>2, <2>3, <2>4 DEF Headline, Class, Accepted
  <2> QED
    BY <2>1, <2>2, <2>3, <2>4, <2>5 DEF ExchangeInv
<1>7. CASE Edit(g)
  <2>1. task[g].pc = "edit" /\ news' = news
    BY <1>7 DEF Edit, EditAcknowledged, EditAnsweredFalse, EditRetryable, EditRejected
  <2>2. news[g].arabic /\ Accepted(g)
    BY <1>0, <2>1 DEF TaskInv, RowInv, ExchangeInv
  <2>3. /\ exchange[g].prompt = Prompt(Class(g), local[g].decision, local[g].macro)
        /\ columns[g] = Columns(exchange[g].reply)
    BY <1>0, <2>1, <2>2 DEF ExchangeInv
  <2>4. exchange' = exchange /\ local' = local /\ columns' = columns
    BY <1>7 DEF Edit
  <2>5. Headline(g)' = Headline(g) /\ Class(g)' = Class(g) /\ Accepted(g)'
    BY <2>1, <2>2, <2>4 DEF Headline, Class, Accepted
  <2>6. local[g].decision \in Decisions \cup {None} /\ local[g].macro \in BOOLEAN
    BY DEF EnrichmentInv, EnrichmentShape, Local
  <2>7. shown'[g] = "premium" =>
            message'[g] = Message(Class(g), local[g].decision, exchange[g].reply)
    BY <1>7 DEF Edit, EnrichmentInv, EnrichmentShape
  <2>8. (shown[g] = "premium" => \E d \in Decisions \cup {None}, told \in BOOLEAN :
          /\ exchange[g].prompt = Prompt(Class(g), d, told)
          /\ message[g] = Message(Class(g), d, exchange[g].reply))'
    BY <2>3, <2>4, <2>5, <2>6, <2>7
  <2> QED
    BY <2>1, <2>2, <2>3, <2>4, <2>5, <2>8 DEF ExchangeInv
<1> QED
  BY <1>1, <1>2, <1>3, <1>4, <1>5, <1>6, <1>7 DEF EnrichmentStep

LEMMA ShapeKept ==
    ASSUME EnrichmentInv, NEW g \in Guids, EnrichmentStep(g)
    PROVE  EnrichmentShape'
<1> USE DEF EnrichmentInv, EnrichmentShape
<1>1. CASE Story(g)
  <2>1. local' \in [Guids -> Local]
    BY <1>1 DEF Story, Local
  <2> QED
    BY <1>1, <2>1 DEF Story
<1>2. CASE Macro(g)
  <2>1. local' \in [Guids -> Local]
    <3>1. {FALSE, Headline(g).actual # None} \subseteq BOOLEAN
      OBVIOUS
    <3> QED
      BY <1>2, <3>1 DEF Macro, Local
  <2> QED
    BY <1>2, <2>1 DEF Macro
<1>3. CASE NoAnswer(g)
  <2>1. Retries(local[g].asked) => local[g].asked + 1 \in 0 .. MaxAttempts - 1
    BY ConstantsAssumption DEF Retries, Local
  <2>2. local' \in [Guids -> Local]
    BY <1>3, <2>1 DEF NoAnswer, Local
  <2> QED
    BY <1>3, <2>2 DEF NoAnswer, Ask
<1>4. CASE AnswerUnusable(g) \/ AnswerUnreadable(g) \/ Answer(g)
  BY <1>4 DEF AnswerUnusable, AnswerUnreadable, Answer, Ask
<1>5. CASE Store(g) \/ Edit(g)
  BY <1>5 DEF Store, Edit
<1> QED
  BY <1>1, <1>2, <1>3, <1>4, <1>5 DEF EnrichmentStep

\* The invariant is inductive next to those of the pipeline.
THEOREM ExchangeCorrect == EnrichmentSpec => []EnrichmentInv
<1>1. EnrichmentInit => EnrichmentInv
  <2> SUFFICES ASSUME EnrichmentInit PROVE EnrichmentInv
    OBVIOUS
  <2>1. NoLocal \in Local
    BY ZeroTries DEF NoLocal, Local
  <2>2. EnrichmentShape
    BY <2>1 DEF EnrichmentInit, EnrichmentShape
  <2>3. ASSUME NEW g \in Guids PROVE ExchangeInv(g)
    <3>1. /\ news[g].arabic = FALSE /\ task[g].pc = "none" /\ shown[g] = "nothing"
          /\ columns[g] = None
      BY DEF EnrichmentInit, Init, NoRow, NoTask
    <3> QED
      BY <3>1 DEF ExchangeInv
  <2> QED
    BY <2>2, <2>3 DEF EnrichmentInv
<1>2. TypeOK /\ LifeInv /\ EnrichmentInv /\ [EnrichmentNext]_enrichmentVars
          => EnrichmentInv'
  <2> SUFFICES ASSUME TypeOK, LifeInv, EnrichmentInv, [EnrichmentNext]_enrichmentVars
               PROVE  EnrichmentInv'
    OBVIOUS
  <2>1. ASSUME NEW g \in Guids, EnrichmentStep(g) PROVE EnrichmentInv'
    <3>1. ASSUME NEW h \in Guids PROVE ExchangeInv(h)'
      BY <2>1, OwnExchange, OtherExchange
    <3> QED
      BY <2>1, <3>1, ShapeKept DEF EnrichmentInv
  <2>2. CASE UNCHANGED enrichmentVars
    <3>1. ASSUME NEW h \in Guids PROVE ExchangeInv(h)'
      <4>1. RowInv(h) /\ ExchangeInv(h)
        BY DEF LifeInv, EnrichmentInv
      <4> QED
        BY <2>2, <4>1, ExchangeUntouched DEF enrichmentVars, vars, telegram
    <3> QED
      BY <2>2, <3>1 DEF EnrichmentInv, EnrichmentShape, enrichmentVars
  <2> QED
    BY <2>1, <2>2, AroundExchange, RestartExchange DEF EnrichmentNext
<1>3. EnrichmentSpec => []TypeOK /\ []LifeInv
  BY EnrichmentIsPipeline, TypeCorrect, LifeCorrect, PTL
<1> QED
  BY <1>1, <1>2, <1>3, PTL DEF EnrichmentSpec

-----------------------------------------------------------------------------
(* What the check of a reply and the classification of a headline promise.  *)

\* The first of at most six checks.
LEMMA FirstFailing ==
    ASSUME NEW S \in SUBSET (1 .. 6), S # {}
    PROVE  First(S) \in S
<1>1. \E i \in S : \A j \in S : i <= j
  <2>1. CASE 1 \in S
    BY <2>1
  <2>2. CASE 1 \notin S /\ 2 \in S
    BY <2>2
  <2>3. CASE 1 \notin S /\ 2 \notin S /\ 3 \in S
    BY <2>3
  <2>4. CASE 1 \notin S /\ 2 \notin S /\ 3 \notin S /\ 4 \in S
    BY <2>4
  <2>5. CASE 1 \notin S /\ 2 \notin S /\ 3 \notin S /\ 4 \notin S /\ 5 \in S
    BY <2>5
  <2>6. CASE 1 \notin S /\ 2 \notin S /\ 3 \notin S /\ 4 \notin S /\ 5 \notin S
    <3>1. \A j \in S : j = 6
      BY <2>6
    <3>2. 6 \in S
      BY <3>1
    <3> QED
      BY <3>1, <3>2
  <2> QED
    BY <2>1, <2>2, <2>3, <2>4, <2>5, <2>6
<1> QED
  BY <1>1 DEF First

\* An accepted reply passed every check, whatever their order.
LEMMA AcceptedPasses ==
    ASSUME NEW h, NEW r, Verdict(h, r) = "accepted"
    PROVE  /\ r.importance \in {None} \cup 1 .. 5
           /\ r.headline.arabic /\ r.translation.arabic
           /\ Required(h) \subseteq Kept(r)
<1> DEFINE checks  == Checks(h, r)
           failing == {n \in DOMAIN checks : checks[n] # "passes"}
<1>1. DOMAIN checks = 1 .. 6
  BY DEF Checks
<1>2. \A n \in 1 .. 6 : checks[n] \in {"raises", "passes", "refused"}
  <2>1. \A value, passes : Check(value, passes) \in {"raises", "passes", "refused"}
    BY DEF Check
  <2> QED
    BY <2>1 DEF Checks
<1>3. failing = {}
  <2>1. SUFFICES ASSUME failing # {} PROVE FALSE
    OBVIOUS
  <2>2. First(failing) \in failing
    BY <1>1, <2>1, FirstFailing
  <2>3. Verdict(h, r) = checks[First(failing)]
    BY <2>1 DEF Verdict
  <2> QED
    BY <1>1, <1>2, <2>2, <2>3
<1>4. checks[3] = "passes" /\ checks[5] = "passes" /\ checks[6] = "passes"
  BY <1>1, <1>3
<1>5. /\ Check(r.importance, r.importance \in {None} \cup 1 .. 5) = "passes"
      /\ Check(None, r.headline.arabic /\ r.translation.arabic) = "passes"
      /\ Check(IF \A text \in Joined(r) : text.string THEN None ELSE Garbage,
               Required(h) \subseteq Kept(r)) = "passes"
  BY <1>4 DEF Checks
<1> QED
  BY <1>5 DEF Check

\* Only breaking news gets a siren.
LEMMA SirenIsBreaking ==
    ASSUME NEW c, NEW r, Icon(c, r) = "siren"
    PROVE  IsBreaking(c, r)
<1>1. "siren" \notin Categories
  <2>1. \A n \in DOMAIN Precedence : Precedence[n] # "siren"
    BY DEF Precedence
  <2> QED
    BY <2>1 DEF Categories, Scored
<1> QED
  BY <1>1 DEF Icon

LEMMA ImportanceOfReply ==
    ASSUME NEW r, r.importance \in {None} \cup 1 .. 5
    PROVE  Importance(r) >= 5 <=> r.importance = 5
<1>1. CASE r.importance \in {None, Garbage}
  BY <1>1, TranslationAssumption DEF Importance
<1>2. CASE r.importance \notin {None, Garbage}
  BY <1>2 DEF Importance
<1> QED
  BY <1>1, <1>2

\* What a published message has been built from.
LEMMA PremiumMessage ==
    ASSUME LifeInv, EnrichmentInv, NEW g \in Guids, shown[g] = "premium"
    PROVE  /\ Accepted(g) /\ columns[g] = Columns(exchange[g].reply)
           /\ \E d \in Decisions \cup {None}, told \in BOOLEAN :
                /\ exchange[g].prompt = Prompt(Class(g), d, told)
                /\ message[g] = Message(Class(g), d, exchange[g].reply)
<1>1. RowInv(g) /\ ExchangeInv(g)
  BY DEF LifeInv, EnrichmentInv
<1> QED
  BY <1>1 DEF RowInv, ExchangeInv

\* What the message does not show of the numbers of an accepted reply stands in
\* the translation or in a section that is hidden.
LEMMA KeptOrHidden ==
    ASSUME NEW c, NEW d, NEW r \in Replies, NEW n \in Kept(r) \ 0 .. 9
    PROVE  \/ n \in Message(c, d, r).numbers \cup r.translation.numbers
           \/ /\ r.watch # None /\ "watch" \notin Message(c, d, r).sections
              /\ n \in r.watch.numbers
<1>0. n \in Kept(r) /\ n # 0
  OBVIOUS
<1>1. /\ Message(c, d, r).numbers = Visible(d, r)
      /\ Message(c, d, r).sections = Present(d, r)
  BY DEF Message
<1>2. CASE n \in UNION {text.numbers : text \in Joined(r)}
  <2>1. PICK text \in Joined(r) : n \in text.numbers
    BY <1>2
  <2>2. CASE text = r.watch
    <3>1. r.watch # None /\ n \in r.watch.numbers
      BY <2>1, <2>2 DEF Joined
    <3> QED
      BY <1>1, <3>1 DEF Visible
  <2>3. CASE text # r.watch
    <3>1. text \in {r.headline, r.translation, r.explanation}
      BY <2>1, <2>3 DEF Joined
    <3> QED
      BY <1>1, <2>1, <3>1 DEF Visible
  <2> QED
    BY <2>2, <2>3
<1>3. CASE n \in Figured(r)
  <2>1. PICK field \in {"actual", "forecast", "previous"} :
            r[field] # None /\ n = r[field].value
    <3>1. PICK f \in {r.actual, r.forecast, r.previous} : f # None /\ n = f.value
      BY <1>3 DEF Figured
    <3> QED
      BY <3>1
  <2>2. PICK f : f = r[field]
    OBVIOUS
  <2>3. f \in Figures /\ f # None /\ f.value # 0
    BY <1>0, <2>1, <2>2 DEF Replies
  <2>4. ~Empty(r[field])
    <3>1. f # Dash
      BY <2>3 DEF Dash
    <3>2. f.known = TRUE
      BY <2>3, <3>1 DEF Figures
    <3> QED
      BY <2>2, <2>3, <3>2 DEF Empty
  <2>5. n \in Visible(d, r)
    BY <2>1, <2>4 DEF Visible, Rows
  <2> QED
    BY <1>1, <2>5
<1>4. n \in UNION {text.numbers : text \in Joined(r)} \/ n \in Figured(r)
  BY <1>0 DEF Kept
<1> QED
  BY <1>2, <1>3, <1>4

\* Over every retry, restart and repeated request, for all headlines and replies,
\* the headline shown and the translation stored are Arabic, and a number that
\* readers do not see is in the stored translation or in a hidden what-to-watch.
THEOREM NothingUncheckedCorrect == EnrichmentSpec => []NothingUncheckedShown
<1>1. LifeInv /\ EnrichmentInv => NothingUncheckedShown
  <2> SUFFICES ASSUME LifeInv, EnrichmentInv, NEW g \in Guids
               PROVE  LET r == exchange[g].reply
                      IN  /\ columns[g] # None =>
                               /\ columns[g].translation.arabic
                               /\ columns[g].importance \in {None} \cup 1 .. 5
                          /\ shown[g] = "premium" =>
                               /\ message[g].arabic
                               /\ \A n \in Headline(g).numbers \ 0 .. 9 :
                                     \/ n \in message[g].numbers
                                              \cup columns[g].translation.numbers
                                     \/ /\ r.watch # None
                                        /\ "watch" \notin message[g].sections
                                        /\ n \in r.watch.numbers
    BY DEF NothingUncheckedShown
  <2> DEFINE r == exchange[g].reply
  <2>1. ASSUME columns[g] # None
        PROVE  columns[g] = Columns(r) /\ Accepted(g)
    <3>1. ExchangeInv(g) /\ RowInv(g)
      BY DEF LifeInv, EnrichmentInv
    <3> QED
      BY <2>1, <3>1 DEF ExchangeInv, RowInv
  <2>2. ASSUME Accepted(g)
        PROVE  /\ r.importance \in {None} \cup 1 .. 5
               /\ r.headline.arabic /\ r.translation.arabic
               /\ Required(Headline(g)) \subseteq Kept(r)
    BY <2>2, AcceptedPasses DEF Accepted
  <2>3. ASSUME columns[g] # None
        PROVE  columns[g].translation.arabic /\ columns[g].importance \in {None} \cup 1 .. 5
    BY <2>1, <2>2, <2>3 DEF Columns
  <2>4. ASSUME shown[g] = "premium", NEW n \in Headline(g).numbers \ 0 .. 9
        PROVE  \/ n \in message[g].numbers \cup columns[g].translation.numbers
               \/ /\ r.watch # None /\ "watch" \notin message[g].sections
                  /\ n \in r.watch.numbers
    <3>1. PICK d \in Decisions \cup {None} : message[g] = Message(Class(g), d, r)
      BY <2>4, PremiumMessage
    <3>2. Accepted(g) /\ columns[g].translation = r.translation
      <4>1. Accepted(g) /\ columns[g] = Columns(r)
        BY <2>4, PremiumMessage
      <4> QED
        BY <4>1 DEF Columns
    <3>3. r \in Replies
      BY <3>2, EnrichmentAssumption DEF Accepted
    <3>4. n \in Kept(r) \ 0 .. 9
      BY <2>2, <2>4, <3>2 DEF Required
    <3> QED
      BY <3>1, <3>2, <3>3, <3>4, KeptOrHidden
  <2>5. ASSUME shown[g] = "premium"
        PROVE  message[g].arabic
    <3>1. PICK d \in Decisions \cup {None} : message[g] = Message(Class(g), d, r)
      BY <2>5, PremiumMessage
    <3>2. r.headline.arabic
      BY <2>2, <2>5, PremiumMessage
    <3> QED
      BY <3>1, <3>2 DEF Message
  <2> QED
    BY <2>3, <2>4, <2>5
<1> QED
  BY <1>1, EnrichmentIsPipeline, LifeCorrect, ExchangeCorrect, PTL

\* What the digest marks as breaking had its siren in the channel.
THEOREM DigestSirensCorrect == EnrichmentSpec => []DigestSirensWereSirens
<1>1. LifeInv /\ EnrichmentInv => DigestSirensWereSirens
  <2> SUFFICES ASSUME LifeInv, EnrichmentInv, NEW g \in Guids, shown[g] = "premium",
                      columns[g].importance = 5 \/ columns[g].category = "breaking"
               PROVE  message[g].icon = "siren" /\ message[g].badge = "breaking"
    BY DEF DigestSirensWereSirens
  <2> DEFINE r == exchange[g].reply
  <2>1. PICK d \in Decisions \cup {None} : message[g] = Message(Class(g), d, r)
    BY PremiumMessage
  <2>2. r.importance = 5 \/ r.category = "breaking"
    <3>1. columns[g] = Columns(r)
      BY PremiumMessage
    <3>2. columns[g].importance = r.importance /\ columns[g].category = r.category
      BY <3>1 DEF Columns
    <3> QED
      BY <3>2
  <2>3. r.importance \in {None} \cup 1 .. 5
    BY PremiumMessage, AcceptedPasses DEF Accepted
  <2>4. IsBreaking(Class(g), r)
    BY <2>2, <2>3, ImportanceOfReply DEF IsBreaking
  <2> QED
    BY <2>1, <2>4 DEF Message, Icon, Badge
<1> QED
  BY <1>1, EnrichmentIsPipeline, LifeCorrect, ExchangeCorrect, PTL

\* A siren in the channel has a reason in the reply or in the headline, never
\* in a routine series.
THEOREM SirenCorrect == EnrichmentSpec => []SirenHasAReason
<1>1. LifeInv /\ EnrichmentInv => SirenHasAReason
  <2> SUFFICES ASSUME LifeInv, EnrichmentInv, NEW g \in Guids, shown[g] = "premium",
                      message[g].icon = "siren"
               PROVE  \/ exchange[g].reply.importance = 5
                      \/ exchange[g].reply.category = "breaking"
                      \/ /\ Headline(g).shock /\ ~Headline(g).routine
                         /\ Headline(g).banks # {} \/ Category(Headline(g)) = "geopolitical"
    BY DEF SirenHasAReason
  <2> DEFINE r == exchange[g].reply
  <2>1. PICK d \in Decisions \cup {None} : message[g] = Message(Class(g), d, r)
    BY PremiumMessage
  <2>2. IsBreaking(Class(g), r)
    BY <2>1, SirenIsBreaking DEF Message
  <2>3. r.importance \in {None} \cup 1 .. 5
    BY PremiumMessage, AcceptedPasses DEF Accepted
  <2>4. CASE Importance(r) >= 5 \/ r.category = "breaking"
    BY <2>3, <2>4, ImportanceOfReply
  <2>5. CASE Class(g).urgency = "BREAKING"
    <3>1. Urgency(Headline(g)) = "BREAKING"
      BY <2>5 DEF Class, Classify
    <3> QED
      BY <3>1 DEF Urgency, Grave
  <2> QED
    BY <2>2, <2>4, <2>5 DEF IsBreaking
<1> QED
  BY <1>1, EnrichmentIsPipeline, LifeCorrect, ExchangeCorrect, PTL

\* The flag, the icon and the prior development of a message were told to the AI
\* or chosen by it, whatever the classification and the story decision are.
THEOREM FrameCorrect == EnrichmentSpec => []FrameWasTold
<1>1. LifeInv /\ EnrichmentInv => FrameWasTold
  <2> SUFFICES ASSUME LifeInv, EnrichmentInv, NEW g \in Guids, shown[g] = "premium"
               PROVE  LET told == exchange[g].prompt
                      IN  /\ message[g].flag # None => told.facts.country = message[g].flag
                          /\ message[g].icon \notin {"siren", "asset", "general"} =>
                                \/ told.facts.category = message[g].icon
                                \/ told.facts.category = None
                                   /\ exchange[g].reply.category = message[g].icon
                          /\ message[g].badge \in {"update", "correction"} => told.prior # None
                          /\ message[g].prior # None => told.prior = message[g].prior
    BY DEF FrameWasTold
  <2> DEFINE r == exchange[g].reply
             c == Class(g)
  <2>1. PICK d \in Decisions \cup {None}, told \in BOOLEAN :
            exchange[g].prompt = Prompt(c, d, told) /\ message[g] = Message(c, d, r)
    BY PremiumMessage
  <2>2. c.fallback => c.country = None
    BY DEF Class, Classify, IsFallback
  <2>3. /\ exchange[g].prompt.facts = Facts(c)
        /\ exchange[g].prompt.prior = IF StoryUsable(d) THEN d.prior ELSE None
    BY <2>1 DEF Prompt
  <2>4. /\ Facts(c).country = IF c.fallback THEN None ELSE c.country
        /\ Facts(c).category = IF c.fallback THEN None ELSE c.category
    BY DEF Facts
  <2>5. message[g].flag # None => exchange[g].prompt.facts.country = message[g].flag
    BY <2>1, <2>2, <2>3, <2>4 DEF Message
  <2>6. message[g].icon \notin {"siren", "asset", "general"} =>
            message[g].icon = CategoryShown(c, r)
    BY <2>1 DEF Message, Icon
  <2>7. message[g].badge \in {"update", "correction"} => IsUpdate(d)
    BY <2>1 DEF Message, Badge
  <2>8. IsUpdate(d) => StoryUsable(d) /\ d.prior # None
    BY DEF IsUpdate, StoryUsable
  <2>9. message[g].prior # None => IsUpdate(d) /\ message[g].prior = d.prior
    BY <2>1 DEF Message, Present
  <2> QED
    BY <2>3, <2>4, <2>5, <2>6, <2>7, <2>8, <2>9 DEF CategoryShown
<1> QED
  BY <1>1, EnrichmentIsPipeline, LifeCorrect, ExchangeCorrect, PTL

\* The verdict of a message is the comparison of the headline's own figures.
THEOREM VerdictCorrect == EnrichmentSpec => []VerdictIsTrue
<1>1. TypeOK /\ LifeInv /\ EnrichmentInv => VerdictIsTrue
  <2> SUFFICES ASSUME TypeOK, LifeInv, EnrichmentInv, NEW g \in Guids, shown[g] = "premium",
                      message[g].verdict # None
               PROVE  LET h == Headline(g)
                          r == exchange[g].reply
                      IN  /\ h.actual.known /\ h.forecast.known
                          /\ h.actual.percent = h.forecast.percent
                          /\ message[g].verdict =
                                CASE h.actual.value > h.forecast.value -> "HIGHER"
                                  [] h.actual.value < h.forecast.value -> "LOWER"
                                  [] OTHER -> "MATCH"
                          /\ ~Empty(r.forecast) /\ "data" \in message[g].sections
    BY DEF VerdictIsTrue
  <2> DEFINE r == exchange[g].reply
             h == Headline(g)
  <2>1. PICK d \in Decisions \cup {None} : message[g] = Message(Class(g), d, r)
    BY PremiumMessage
  <2>2. /\ Rows(r) # {} /\ h.forecast # None /\ ~Empty(r.forecast)
        /\ Surprise(h) # "UNKNOWN" /\ message[g].verdict = Surprise(h)
    BY <2>1 DEF Message, VerdictShown, Class, Classify
  <2>3. Surprise(h) = Compare(h.actual, h.forecast)
    BY <2>2 DEF Surprise
  <2>4. "data" \in message[g].sections
    BY <2>1, <2>2 DEF Message, Present
  <2>5. /\ h.actual # None /\ h.actual.known /\ h.forecast.known
        /\ h.actual.percent = h.forecast.percent
    BY <2>2, <2>3 DEF Compare
  <2>6. h.actual.value \in Int /\ h.forecast.value \in Int
    <3>1. h \in Evidence
      BY EnrichmentAssumption DEF Headline, TypeOK, Row
    <3>2. h.actual \in Figures /\ h.forecast \in Figures
      BY <2>2, <2>5, <3>1 DEF Evidence
    <3>3. ASSUME NEW f \in Figures PROVE f.value \in Int
      <4>1. CASE f = Dash
        BY <4>1 DEF Dash
      <4>2. CASE f # Dash
        BY <4>2 DEF Figures
      <4> QED
        BY <4>1, <4>2
    <3> QED
      BY <3>2, <3>3
  <2>7. Surprise(h) = IF h.actual.value = h.forecast.value THEN "MATCH"
                      ELSE IF h.actual.value > h.forecast.value THEN "HIGHER" ELSE "LOWER"
    BY <2>2, <2>3, <2>5 DEF Compare
  <2>8. Surprise(h) = CASE h.actual.value > h.forecast.value -> "HIGHER"
                        [] h.actual.value < h.forecast.value -> "LOWER"
                        [] OTHER -> "MATCH"
    BY <2>6, <2>7
  <2> QED
    BY <2>2, <2>4, <2>5, <2>8
<1> QED
  BY <1>1, EnrichmentIsPipeline, TypeCorrect, LifeCorrect, ExchangeCorrect, PTL
=============================================================================
