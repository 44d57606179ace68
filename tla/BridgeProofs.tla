----------------------------- MODULE BridgeProofs -----------------------------
(* The poller and the pipeline composed: what is proved of each of them holds *)
(* where they run together, for all constants.                                *)
EXTENDS Bridge, NewsOrchestratorProofs

-----------------------------------------------------------------------------
(* The two in step.                                                         *)

\* Where the poller is tells which call is running, and for which item; a call
\* about to insert has a content.
InStep ==
    /\ published \in 0 .. Items
    /\ batch \subseteq 1 .. Items
    /\ pc # "call" => fast = Idle
    /\ pc = "call" =>
          /\ fast # Idle
          /\ item \in 1 .. Items
          /\ fast.guid = GuidOf[item] /\ fast.content = ContentOf[item]
    /\ fast.pc = "insert" => fast.content # Blank

BridgeInv == TypeOK /\ LifeInv /\ AnnounceInv /\ InStep

\* A database error while seeding is the poller's own; every other step is a
\* step of the pipeline or leaves it alone.
LEMMA PipelineStep ==
    ASSUME InStep, [BridgeNext]_bridgeVars
    PROVE  [Next]_vars \/ (UNCHANGED <<news, telegram, fast, task, booting>> /\ DbFault)
<1>1. CASE PollerStep \/ FeedStep
  BY <1>1 DEF PollerStep, FeedStep
<1>2. CASE SeedMemory
  BY <1>2 DEF SeedMemory, NoFault, vars, telegram
<1>3. CASE Deliver
  <2>1. PICK k \in batch : \/ UNCHANGED vars
                           \/ ContentOf[k] # NoTitle /\ Receive(GuidOf[k], ContentOf[k])
    BY <1>3 DEF Deliver
  <2>2. k \in 1 .. Items
    BY DEF InStep
  <2>3. GuidOf[k] \in Guids /\ ContentOf[k] \in Contents \cup {Blank, NoTitle}
    BY <2>2, BridgeAssumption
  <2> QED
    BY <2>1, <2>3 DEF Next
<1>4. CASE CallStep
  BY <1>4 DEF CallStep, Next
<1>5. ASSUME NEW g \in Guids, BackgroundStep(g)
      PROVE  [Next]_vars
  BY <1>5 DEF BackgroundStep, Next
<1>6. CASE Restart
  BY <1>6 DEF Restart, Next
<1>7. CASE UNCHANGED bridgeVars
  BY <1>7 DEF bridgeVars
<1> QED
  BY <1>1, <1>2, <1>3, <1>4, <1>5, <1>6, <1>7 DEF BridgeNext

LEMMA PipelineKept ==
    ASSUME TypeOK, LifeInv, AnnounceInv, InStep, [BridgeNext]_bridgeVars
    PROVE  TypeOK' /\ LifeInv' /\ AnnounceInv'
<1>1. CASE [Next]_vars
  BY <1>1, TypeInductive, LifeInductive, AnnounceInductive
<1>2. CASE UNCHANGED <<news, telegram, fast, task, booting>> /\ DbFault
  <2>1. TypeOK'
    BY <1>2, EnvType DEF TypeOK, telegram
  <2>2. LifeInv'
    <3>1. CallInv'
      BY <1>2 DEF telegram, LifeInv, CallInv
    <3>2. \A h \in Guids : RowInv(h)' /\ TaskInv(h)'
      BY <1>2, ItemUntouched DEF telegram, LifeInv
    <3> QED
      BY <3>1, <3>2 DEF LifeInv
  <2>3. AnnounceInv'
    BY <1>2 DEF telegram, AnnounceInv, Stored, Known
  <2> QED
    BY <2>1, <2>2, <2>3
<1> QED
  BY <1>1, <1>2, PipelineStep

LEMMA StepKept ==
    ASSUME TypeOK, InStep, [BridgeNext]_bridgeVars
    PROVE  InStep'
<1> USE DEF InStep
<1>1. CASE PollerStep
  <2>1. fast' = fast /\ pc # "call" /\ pc' # "call" /\ published' = published
    BY <1>1 DEF PollerStep, vars, P!ScanMarks, P!ScanFindsNoChannel, P!ScanFails,
                P!EndBatch
  <2>2. batch' = batch
    BY <1>1 DEF PollerStep, P!ScanMarks, P!ScanFindsNoChannel, P!ScanFails, P!EndBatch
  <2> QED
    BY <2>1, <2>2
<1>2. CASE SeedMemory
  BY <1>2 DEF SeedMemory, P!Seed
<1>3. CASE FeedStep
  <2>1. CASE P!Poll
    <3>1. fast' = fast /\ pc = "poll" /\ pc' = "batch" /\ published' = published
      BY <1>3, <2>1 DEF FeedStep, vars, P!Poll
    <3>2. batch' \subseteq 1 .. Items
      BY <2>1, BridgeAssumption DEF P!Poll, P!Unseen, P!Feed
    <3> QED
      BY <3>1, <3>2
  <2>2. CASE ~P!Poll
    <3>1. /\ fast' = fast /\ pc' = pc /\ batch' = batch /\ item' = item
          /\ published' = published \/ (published < Items /\ published' = published + 1)
      BY <1>3, <2>2
         DEF FeedStep, vars, P!Publish, P!PollRaises, P!PollGarbage, P!PollWithoutAnswer,
             P!vars
    <3> QED
      BY <3>1, BridgeAssumption
  <2> QED
    BY <2>1, <2>2
<1>4. CASE Deliver
  <2>1. PICK k \in batch :
            /\ IF ContentOf[k] = NoTitle THEN UNCHANGED vars
                                         ELSE Receive(GuidOf[k], ContentOf[k])
            /\ P!Take
            /\ batch' = batch \ {k}
    BY <1>4 DEF Deliver
  <2>2. /\ pc = "batch" /\ published' = published
        /\ IF ContentOf[k] = NoTitle THEN UNCHANGED <<pc, item>>
                                     ELSE pc' = "call" /\ item' = k
    BY <2>1 DEF P!Take
  <2>3. CASE ContentOf[k] = NoTitle
    BY <2>1, <2>2, <2>3 DEF vars
  <2>4. CASE ContentOf[k] # NoTitle
    <3>1. fast' = [pc |-> "lookup", guid |-> GuidOf[k], content |-> ContentOf[k], tries |-> 0]
      BY <2>1, <2>4 DEF Receive
    <3>2. fast' # Idle /\ fast'.pc = "lookup" /\ fast'.guid = GuidOf[k]
          /\ fast'.content = ContentOf[k]
      BY <3>1 DEF Idle
    <3> QED
      BY <2>1, <2>2, <2>4, <3>2
  <2> QED
    BY <2>3, <2>4
<1>5. CASE CallStep
  <2>0. fast \in Running /\ fast # Idle /\ pc = "call"
    BY <1>5, FastStepFrame DEF CallStep, Running, Idle
  <2>1. CASE fast' # Idle
    <3>1. UNCHANGED pollerVars
      BY <1>5, <2>1 DEF CallStep
    <3>2. \/ fast' = [fast EXCEPT !.pc = "insert"] /\ fast.content # Blank
          \/ \E p \in {"send", "store", "senderr"} : fast' = [fast EXCEPT !.pc = p]
          \/ fast.pc = "send" /\ fast' = [fast EXCEPT !.tries = @ + 1]
      BY <1>5, <2>1
         DEF CallStep, FastStep, Lookup, Insert, SendAcknowledged, SendRetryable,
             SendRejected, StoreSent, MarkSendFailed
    <3>3. /\ fast'.guid = fast.guid /\ fast'.content = fast.content
          /\ fast'.pc = "insert" => fast.content # Blank
      BY <2>0, <3>2 DEF Running
    <3> QED
      BY <2>0, <2>1, <3>1, <3>3 DEF pollerVars
  <2>2. CASE fast' = Idle
    BY <1>5, <2>2 DEF CallStep, P!Return, P!Raise, Idle
  <2> QED
    BY <2>1, <2>2
<1>6. ASSUME NEW g \in Guids, BackgroundStep(g)
      PROVE  InStep'
  BY <1>6, TaskStepFrame DEF BackgroundStep, pollerVars
<1>7. CASE Restart
  BY <1>7 DEF Restart, Crash, P!Restart, Idle
<1>8. CASE UNCHANGED bridgeVars
  BY <1>8 DEF bridgeVars, vars, pollerVars
<1> QED
  BY <1>1, <1>2, <1>3, <1>4, <1>5, <1>6, <1>7, <1>8 DEF BridgeNext

\* What holds of the pipeline alone holds where the poller calls it, and the two
\* are in step.
THEOREM BridgeCorrect == BridgeSpec => []BridgeInv
<1>1. BridgeInit => BridgeInv
  <2> SUFFICES ASSUME BridgeInit PROVE BridgeInv
    OBVIOUS
  <2>1. TypeOK /\ LifeInv /\ AnnounceInv
    BY TypeInductive, LifeInductive, AnnounceInductive DEF BridgeInit
  <2>2. InStep
    BY BridgeAssumption DEF BridgeInit, Init, InStep, Idle
  <2> QED
    BY <2>1, <2>2 DEF BridgeInv
<1>2. BridgeInv /\ [BridgeNext]_bridgeVars => BridgeInv'
  BY PipelineKept, StepKept DEF BridgeInv
<1> QED
  BY <1>1, <1>2, PTL DEF BridgeSpec

\* A published item shows its Arabic text also where the poller, calls, tasks and
\* restarts run together, if failed edits are HTTP statuses.
THEOREM PublishedTogether == BridgeSpec => []PublishedIsShown
<1>1. BridgeInv => PublishedIsShown
  BY DEF BridgeInv, LifeInv, RowInv, PublishedIsShown
<1> QED
  BY <1>1, BridgeCorrect, PTL

\* However the feed repeats, corrects or reorders its items, no content reaches
\* the channel under two guids.
THEOREM AnnouncedOnceTogether == BridgeSpec => []ContentAnnouncedOnce
<1>1. BridgeInv => ContentAnnouncedOnce
  BY DEF BridgeInv, TypeOK, AnnounceInv, ContentAnnouncedOnce
<1> QED
  BY <1>1, BridgeCorrect, PTL

-----------------------------------------------------------------------------
(* The refinement.                                                          *)

\* What RssPoller calls a row is a stored row, and a content it calls known is
\* known to the pipeline.
LEMMA RowsKnown ==
    ASSUME TypeOK
    PROVE  /\ \A g \in Guids : Rows[g] # NotStored <=> Stored(g)
           /\ \A c \in Contents \cup {Blank} : (\E g \in Guids : Rows[g] = c) <=> Known(c)
  BY BridgeAssumption DEF TypeOK, Row, Rows, Known

LEMMA RowsKept ==
    ASSUME \A g \in Guids : SameAnnouncement(g)
    PROVE  Rows' = Rows /\ Posted' = Posted
  BY DEF SameAnnouncement, Rows, Posted, Stored

\* The poller's own steps are those of RssPoller.
LEMMA PollerMaps ==
    ASSUME InStep, PollerStep \/ FeedStep
    PROVE  [Poller!Next]_(Poller!vars)
<1>1. /\ UNCHANGED <<fast, Rows, Posted, crashes>>
      /\ PollerStep => fast = Idle
  BY DEF PollerStep, FeedStep, vars, env, Rows, Posted, Stored, InStep,
         P!ScanMarks, P!ScanFindsNoChannel, P!ScanFails, P!Poll, P!PollRaises, P!EndBatch
<1>2. CASE PollerStep
  <2>1. fast.pc = "idle" /\ fast'.pc = "idle"
    BY <1>1, <1>2 DEF Idle
  <2>2. CASE P!ScanMarks
    BY <1>1, <2>1, <2>2 DEF P!ScanMarks, Poller!ScanMarks, Poller!Next, Poller!Step,
       P!table, Poller!table, P!Feed, Poller!Feed
  <2>3. CASE P!ScanFindsNoChannel
    BY <1>1, <2>1, <2>3 DEF P!ScanFindsNoChannel, Poller!ScanFindsNoChannel,
       Poller!Next, Poller!Step, P!table, Poller!table, P!memory, Poller!memory
  <2>4. CASE P!ScanFails
    BY <1>1, <2>1, <2>4 DEF P!ScanFails, Poller!ScanFails, Poller!Next, Poller!Step,
       P!table, Poller!table
  <2>5. CASE P!EndBatch
    BY <1>1, <2>1, <2>5 DEF P!EndBatch, Poller!EndBatch, Poller!Next, Poller!Step,
       P!table, Poller!table, P!memory, Poller!memory
  <2> QED
    BY <1>2, <2>2, <2>3, <2>4, <2>5 DEF PollerStep
<1>3. CASE FeedStep
  <2>1. CASE P!Publish
    BY <1>1, <2>1 DEF P!Publish, Poller!Publish, Poller!Next,
       P!table, Poller!table, P!memory, Poller!memory
  <2>2. CASE P!PollGarbage
    <3>1. fast.pc = "idle" /\ fast'.pc = "idle"
      BY <1>1, <2>2 DEF P!PollGarbage, InStep, Idle
    <3> QED
      BY <1>1, <2>2, <3>1 DEF P!PollGarbage, Poller!PollGarbage, Poller!Next,
         P!table, Poller!table
  <2>3. CASE P!PollWithoutAnswer
    BY <1>1, <2>3 DEF P!PollWithoutAnswer, Poller!Next, P!vars, Poller!vars,
       P!table, Poller!table, P!memory, Poller!memory
  <2>4. CASE P!Poll \/ P!PollRaises
    <3>1. fast.pc = "idle" /\ fast'.pc = "idle"
      BY <1>1, <2>4 DEF P!Poll, P!PollRaises, InStep, Idle
    <3>2. CASE P!Poll
      BY <1>1, <3>1, <3>2
         DEF P!Poll, Poller!Poll, Poller!Next, Poller!Step, P!table, Poller!table,
             P!Feed, Poller!Feed, P!Unseen, Poller!Unseen, P!Skipped, Poller!Skipped,
             P!Comparable, Poller!Comparable, P!NoCutoff, Poller!NoCutoff
    <3>3. CASE P!PollRaises
      BY <1>1, <3>1, <3>3
         DEF P!PollRaises, Poller!PollRaises, Poller!Next, Poller!Step, P!table,
             Poller!table, P!Feed, Poller!Feed, P!Unseen, Poller!Unseen, P!Skipped,
             Poller!Skipped, P!Comparable, Poller!Comparable, P!NoCutoff, Poller!NoCutoff
    <3> QED
      BY <2>4, <3>2, <3>3
  <2> QED
    BY <1>3, <2>1, <2>2, <2>3, <2>4 DEF FeedStep
<1> QED
  BY <1>2, <1>3

LEMMA SeedMaps ==
    ASSUME TypeOK, InStep, SeedMemory
    PROVE  Poller!Next
<1>1. UNCHANGED <<fast, Rows, Posted>> /\ P!Seed
  BY DEF SeedMemory, Rows, Posted, Stored, telegram
<1>2. fast.pc = "idle" /\ fast'.pc = "idle"
  BY <1>1 DEF P!Seed, InStep, Idle
<1>3. Poller!Seed
  BY <1>1, <1>2 DEF P!Seed, Poller!Seed, P!table, Poller!table, P!StoredGuids,
     Poller!StoredGuids, P!HasRow, Poller!HasRow, P!DbFault, Poller!DbFault
<1> QED
  BY <1>3 DEF Poller!Next, Poller!Step

\* An item taken from the batch is the call of it.
LEMMA DeliverMaps ==
    ASSUME InStep, Deliver
    PROVE  Poller!Next
<1>1. PICK k \in batch :
          /\ IF ContentOf[k] = NoTitle THEN UNCHANGED vars
                                       ELSE Receive(GuidOf[k], ContentOf[k])
          /\ P!Take
          /\ batch' = batch \ {k}
  BY DEF Deliver
<1>2. UNCHANGED <<Rows, Posted>>
  BY <1>1 DEF vars, Receive, Rows, Posted, Stored, telegram
<1>3. fast.pc = "idle"
  BY <1>1 DEF P!Take, InStep, Idle
<1>4. fast'.pc \in {"idle", "lookup"}
  BY <1>1, <1>3 DEF vars, Receive
<1>5. Poller!Take
  BY <1>1, <1>2, <1>3, <1>4 DEF P!Take, Poller!Take, P!Oldest, Poller!Oldest,
     P!Before, Poller!Before, P!table, Poller!table
<1> QED
  BY <1>5 DEF Poller!Next, Poller!Step

\* The steps of process_message are the outcomes of a call.
LEMMA CallMaps ==
    ASSUME BridgeInv, CallStep
    PROVE  [Poller!Next]_(Poller!vars)
<1> USE DEF BridgeInv
<1>0. PICK g \in Guids, c \in Contents \cup {Blank} :
          /\ fast \in Running /\ pc = "call" /\ item \in 1 .. Items
          /\ fast.guid = g /\ GuidOf[item] = g
          /\ fast.content = c /\ ContentOf[item] = c
  BY FastStepFrame DEF CallStep, InStep, Running, Idle
<1>1. CASE Lookup
  <2>1. fast.pc = "lookup" /\ UNCHANGED <<Rows, Posted, crashes>>
    BY <1>1 DEF Lookup, telegram, Rows, Posted, Stored, NoFault, env, DbFault
  <2>2. CASE fast' # Idle
    <3>1. fast' = [fast EXCEPT !.pc = "insert"] /\ UNCHANGED pollerVars
      BY <1>1, <2>2 DEF Lookup, CallStep
    <3>2. fast'.pc = "insert"
      BY <1>0, <3>1 DEF Running
    <3> QED
      BY <2>1, <3>1, <3>2 DEF pollerVars, Poller!vars, Poller!table, Poller!memory
  <2>3. CASE fast' = Idle /\ dbFaults' = dbFaults
    <3>1. c = Blank \/ Known(c)
      BY <1>0, <1>1, <2>3 DEF Lookup, DbFault, TypeOK, Running, Idle
    <3>2. P!Return /\ UNCHANGED <<published, seen, etag, cutoff, failed>>
      BY <2>1, <2>3 DEF CallStep, CallRaisesInside
    <3>3. Poller!CallSkips
      BY <1>0, <2>1, <2>3, <3>1, <3>2, RowsKnown
         DEF Poller!CallSkips, Poller!ContentKnown, P!Return, Poller!Return, Idle,
             Poller!table, Poller!memory
    <3> QED
      BY <3>3 DEF Poller!Next, Poller!Step
  <2>4. CASE fast' = Idle /\ dbFaults' # dbFaults
    <3>1. c # Blank /\ MaxDbFaults > 0
      BY <1>0, <1>1, <2>4, ConstantsAssumption DEF Lookup, NoFault, env, DbFault, TypeOK
    <3>2. /\ P!Raise /\ failed' = failed \cup {"db"}
          /\ UNCHANGED <<published, seen, etag, cutoff>>
      BY <2>4 DEF CallStep, CallRaisesInside
    <3>3. Poller!CallRaises
      BY <1>0, <2>1, <2>4, <3>1, <3>2
         DEF Poller!CallRaises, P!Raise, Poller!Raise, Poller!DbFault, Idle,
             Poller!table, Poller!memory
    <3> QED
      BY <3>3 DEF Poller!Next, Poller!Step
  <2> QED
    BY <2>2, <2>3, <2>4
<1>2. CASE Insert
  <2>1. fast.pc = "insert" /\ UNCHANGED <<Posted, crashes>>
    BY <1>2 DEF Insert, telegram, Posted, NoFault, env, DbFault
  <2>2. c # Blank /\ ~Known(c)
    BY <1>0, <2>1 DEF InStep, AnnounceInv
  <2>3. CASE fast' # Idle
    <3>1. /\ ~Stored(g) /\ news' = [news EXCEPT ![g] = NewRow(c)]
          /\ fast' = [fast EXCEPT !.pc = "send"] /\ UNCHANGED pollerVars
      BY <1>0, <1>2, <2>3 DEF Insert, CallStep
    <3>2. fast'.pc = "send"
      BY <1>0, <3>1 DEF Running
    <3>3. Rows' = [Rows EXCEPT ![g] = c]
      BY <1>0, <3>1 DEF Rows, Stored, NewRow, TypeOK
    <3>4. Poller!CallStores
      BY <1>0, <2>1, <2>2, <3>1, <3>2, <3>3, RowsKnown
         DEF Poller!CallStores, Poller!ContentKnown, Poller!HasRow, pollerVars,
             Poller!memory
    <3> QED
      BY <3>4 DEF Poller!Next, Poller!Step
  <2>4. CASE fast' = Idle
    <3>1. news' = news
      BY <1>0, <1>2, <2>4 DEF Insert, Running, Idle
    <3>2. Rows' = Rows
      BY <3>1 DEF Rows, Stored
    <3>3. P!Raise /\ UNCHANGED <<published, seen, etag, cutoff>>
      BY <2>1, <2>4 DEF CallStep, CallRaisesInside
    <3>4. \/ Stored(g) /\ failed' = failed
          \/ MaxDbFaults > 0 /\ failed' = failed \cup {"db"}
      BY <1>0, <1>2, <2>1, <2>4, ConstantsAssumption
         DEF Insert, CallStep, CallRaisesInside, NoFault, env, DbFault, TypeOK, Idle, Running
    <3>5. Poller!CallRaises
      BY <1>0, <2>1, <2>2, <2>4, <3>2, <3>3, <3>4, RowsKnown
         DEF Poller!CallRaises, Poller!ContentKnown, Poller!HasRow, P!Raise,
             Poller!Raise, Poller!DbFault, Idle, Poller!table, Poller!memory
    <3> QED
      BY <3>5 DEF Poller!Next, Poller!Step
  <2> QED
    BY <2>3, <2>4
<1>3. CASE SendAcknowledged \/ SendRetryable \/ SendRejected
  <2>1. /\ fast.pc = "send" /\ fast'.pc \in {"send", "store", "senderr"}
        /\ UNCHANGED <<news, crashes>>
        /\ delivered' = delivered \/ delivered' = [delivered EXCEPT ![g] = @ + 1]
    BY <1>0, <1>3 DEF SendAcknowledged, SendRetryable, SendRejected, telegram, env, Running
  <2>2. UNCHANGED pollerVars /\ Rows' = Rows
    BY <2>1 DEF CallStep, Idle, Rows, Stored
  <2>3. Posted' = Posted \/ Posted' = Posted \cup {g}
    <3>1. CASE delivered' = [delivered EXCEPT ![g] = @ + 1]
      <4>1. /\ \A h \in Guids : delivered[h] \in Nat
            /\ delivered'[g] = delivered[g] + 1
            /\ \A h \in Guids : h # g => delivered'[h] = delivered[h]
        BY <3>1 DEF TypeOK
      <4> QED
        BY <4>1 DEF Posted
    <3>2. CASE delivered' = delivered
      BY <3>2 DEF Posted
    <3> QED
      BY <2>1, <3>1, <3>2
  <2>4. CASE Posted' = Posted
    BY <2>1, <2>2, <2>4 DEF pollerVars, Poller!vars, Poller!table, Poller!memory
  <2>5. CASE Posted' = Posted \cup {g}
    BY <1>0, <2>1, <2>2, <2>5 DEF pollerVars, Poller!CallPosts, Poller!Next, Poller!memory
  <2> QED
    BY <2>3, <2>4, <2>5
<1>4. CASE StoreSent \/ MarkSendFailed
  <2>1. /\ fast.pc \in {"store", "senderr"} /\ UNCHANGED <<delivered, crashes>>
        /\ Stored(g)
    BY <1>0, <1>4 DEF StoreSent, MarkSendFailed, telegram, NoFault, env, DbFault, AnnounceInv
  <2>2. news[g] \in Row /\ \A h \in Guids : h # g => news'[h] = news[h]
    BY <1>0, FastStepFrame DEF CallStep, TypeOK
  <2>3. news'[g].hash = news[g].hash /\ Stored(g)'
    BY <1>0, <1>4, <2>1, <2>2 DEF StoreSent, MarkSendFailed, TypeOK, Row, Stored
  <2>4. Rows' = Rows /\ Posted' = Posted
    BY <2>1, <2>2, <2>3 DEF Rows, Posted, Stored
  <2>5. CASE fast' # Idle
    <3>1. fast' = [fast EXCEPT !.pc = "senderr"] /\ UNCHANGED pollerVars
      BY <1>4, <2>5 DEF StoreSent, MarkSendFailed, CallStep
    <3>2. fast'.pc = "senderr"
      BY <1>0, <3>1 DEF Running
    <3> QED
      BY <2>1, <2>4, <3>1, <3>2 DEF pollerVars, Poller!vars, Poller!table, Poller!memory
  <2>6. CASE fast' = Idle
    <3>1. \/ P!Return /\ UNCHANGED failed
          \/ P!Raise /\ failed' = failed \cup {"db"} /\ MaxDbFaults > 0
      BY <1>4, <2>1, <2>6, ConstantsAssumption
         DEF CallStep, CallRaisesInside, StoreSent, MarkSendFailed, NoFault, env, DbFault, TypeOK
    <3>2. UNCHANGED <<published, seen, etag, cutoff>>
      BY <2>6 DEF CallStep
    <3>3. Poller!CallEnds
      BY <2>1, <2>4, <2>6, <3>1, <3>2
         DEF Poller!CallEnds, P!Return, Poller!Return, P!Raise, Poller!Raise,
             Poller!DbFault, Idle, Poller!table, Poller!memory
    <3> QED
      BY <3>3 DEF Poller!Next, Poller!Step
  <2> QED
    BY <2>5, <2>6
<1> QED
  BY <1>1, <1>2, <1>3, <1>4 DEF CallStep, FastStep

\* No background task is seen by the poller.
LEMMA TaskHidden ==
    ASSUME BridgeInv, NEW g \in Guids, BackgroundStep(g)
    PROVE  UNCHANGED Poller!vars
<1>1. UNCHANGED <<fast, pollerVars, Rows, Posted>>
  BY TaskStepFrame, TaskStepAnnounce, RowsKept DEF BridgeInv, BackgroundStep
<1>2. crashes' = crashes
  BY DEF BackgroundStep, TaskStep, MarkAiPending, StoryStage, IndicatorStage, MacroStage,
     Stage, AiCall, CommitSuccess, EditAcknowledged, EditAnsweredFalse, EditRetryable,
     EditRejected, CommitPublished, RecordPublished, MarkAiFailed, MarkTaskFailed,
     MarkFailed, NoFault, DbFault, env
<1> QED
  BY <1>1, <1>2 DEF pollerVars, Poller!vars, Poller!table, Poller!memory

LEMMA RestartMaps ==
    ASSUME Restart
    PROVE  Poller!Next
<1>1. fast'.pc = "idle" /\ UNCHANGED <<Rows, Posted>>
  BY DEF Restart, Crash, Idle, Rows, Posted, Stored, telegram
<1>2. Poller!Restart
  BY <1>1 DEF Restart, P!Restart, Poller!Restart, P!table, Poller!table, P!NoCutoff,
              Poller!NoCutoff
<1> QED
  BY <1>2 DEF Poller!Next

\* The pipeline under the poller does what RssPoller says of a call, whatever is
\* lost, repeated, cut short or interleaved.
THEOREM PollerImplemented == BridgeSpec => ImplementsPoller
<1>1. BridgeInit => Poller!Init
  <2> SUFFICES ASSUME BridgeInit PROVE Poller!Init
    OBVIOUS
  <2>1. Rows = [g \in Guids |-> NotStored]
    BY DEF BridgeInit, Init, NoRow, Rows, Stored
  <2>2. Posted = {}
    BY DEF BridgeInit, Init, Posted
  <2>3. fast.pc = "idle"
    BY DEF BridgeInit, Init, Idle
  <2> QED
    BY <2>1, <2>2, <2>3 DEF BridgeInit, Init, Poller!Init, P!NoCutoff, Poller!NoCutoff
<1>2. BridgeInv /\ [BridgeNext]_bridgeVars => [Poller!Next]_(Poller!vars)
  <2> SUFFICES ASSUME BridgeInv, [BridgeNext]_bridgeVars
               PROVE  [Poller!Next]_(Poller!vars)
    OBVIOUS
  <2>1. CASE UNCHANGED bridgeVars
    BY <2>1 DEF bridgeVars, vars, env, pollerVars, Poller!vars, Poller!table, Poller!memory,
       Rows, Posted, Stored
  <2> QED
    BY <2>1, PollerMaps, SeedMaps, DeliverMaps, CallMaps, TaskHidden, RestartMaps
       DEF BridgeNext, BridgeInv
<1> QED
  BY <1>1, <1>2, BridgeCorrect, PTL DEF BridgeSpec, ImplementsPoller, Poller!Spec

-----------------------------------------------------------------------------
(* The life of the items, where poller and pipeline run together.           *)

\* A database error while seeding shows nothing and stores nothing either.
LEMMA BridgeFirstSight == BridgeSpec => []FirstSightInv
<1>1. BridgeInit => FirstSightInv
  BY FirstSightInit DEF BridgeInit
<1>2. BridgeInv /\ FirstSightInv /\ [BridgeNext]_bridgeVars => FirstSightInv'
  <2> SUFFICES ASSUME BridgeInv, FirstSightInv, [BridgeNext]_bridgeVars
               PROVE  FirstSightInv'
    OBVIOUS
  <2>1. CASE [Next]_vars
    BY <2>1, FirstSightStep DEF BridgeInv
  <2>2. CASE UNCHANGED <<news, telegram, fast>>
    BY <2>2 DEF telegram, FirstSightInv, Stored
  <2> QED
    BY <2>1, <2>2, PipelineStep DEF BridgeInv
<1> QED
  BY <1>1, <1>2, BridgeCorrect, PTL DEF BridgeSpec

\* However the feed repeats and corrects its items and whenever the process
\* restarts, an item that the poller delivers lives the life of NewsLifecycle
\* (main.py:39-73, rss_poller.py, orchestrator.py).
THEOREM LifecycleTogether == BridgeSpec => ImplementsLifecycle
<1>1. BridgeInit => Lifecycle!Init
  BY LifecycleInit DEF BridgeInit
<1>2. BridgeInv /\ BridgeInv' /\ FirstSightInv /\ [BridgeNext]_bridgeVars
          => [Lifecycle!Next]_(Lifecycle!vars)
  <2> SUFFICES ASSUME BridgeInv, BridgeInv', FirstSightInv, [BridgeNext]_bridgeVars
               PROVE  [Lifecycle!Next]_(Lifecycle!vars)
    OBVIOUS
  <2>1. CASE [Next]_vars
    BY <2>1, LifecycleStep DEF BridgeInv
  <2>2. CASE UNCHANGED <<news, telegram, fast>>
    BY <2>2, Stutter DEF telegram
  <2> QED
    BY <2>1, <2>2, PipelineStep DEF BridgeInv
<1> QED
  BY <1>1, <1>2, BridgeCorrect, BridgeFirstSight, PTL
     DEF BridgeSpec, ImplementsLifecycle, Lifecycle!Spec
=============================================================================
