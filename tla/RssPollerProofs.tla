--------------------------- MODULE RssPollerProofs ---------------------------
(* Machine-checked theorems about RssPoller, for every feed and window.     *)
EXTENDS RssPoller, TLAPS

-----------------------------------------------------------------------------
(* Types.                                                                   *)

\* Items of the feed are numbered items.
LEMMA FeedType ==
    ASSUME TypeOK
    PROVE  /\ published \in Nat /\ Items \in Nat
           /\ Feed \subseteq 1 .. Items /\ Skipped \subseteq Feed
           /\ \A k \in Feed : GuidOf[k] \in Guids
  BY PollerAssumption DEF TypeOK, Feed, Unseen, Skipped

LEMMA StepType ==
    ASSUME TypeOK, Step
    PROVE  TypeOK'
<1> USE DEF TypeOK, table, memory
<1>0. 0 \in 0 .. Items
  BY PollerAssumption
<1>1. CASE Seed
  BY <1>1 DEF Seed, StoredGuids, DbFault
<1>2. CASE ScanMarks
  BY <1>2, FeedType, PollerAssumption DEF ScanMarks
<1>3. CASE ScanFindsNoChannel
  BY <1>3 DEF ScanFindsNoChannel
<1>4. CASE ScanFails
  BY <1>4, FeedType, PollerAssumption DEF ScanFails, NoCutoff
<1>11. CASE PollRaises
  <2>1. seen' \subseteq Guids
    BY <1>11, FeedType DEF PollRaises
  <2>2. etag' \in 0 .. Items /\ failed' \subseteq {"db", "scan", "date"}
    BY <1>11, FeedType, PollerAssumption DEF PollRaises
  <2> QED
    BY <1>11, <2>1, <2>2 DEF PollRaises
<1>5. CASE Poll
  <2>1. batch' \subseteq 1 .. Items /\ seen' \subseteq Guids
    BY <1>5, FeedType DEF Poll, Unseen
  <2>2. etag' \in 0 .. Items
    BY <1>5, FeedType, PollerAssumption DEF Poll
  <2> QED
    BY <1>5, <2>1, <2>2 DEF Poll
<1>6. CASE Take
  <2>1. PICK k \in batch :
            /\ batch' = batch \ {k} /\ seen' = seen \cup {GuidOf[k]}
            /\ IF ContentOf[k] = NoTitle THEN UNCHANGED <<pc, item>>
                                         ELSE pc' = "call" /\ item' = k
    BY <1>6 DEF Take
  <2>2. k \in 1 .. Items /\ GuidOf[k] \in Guids
    BY PollerAssumption
  <2> QED
    BY <1>6, <2>1, <2>2, PollerAssumption DEF Take
<1>7. CASE EndBatch
  BY <1>7 DEF EndBatch
<1>8. CASE CallSkips
  BY <1>0, <1>8 DEF CallSkips, Return
<1>9. CASE CallStores
  <2>1. item \in 1 .. Items
    BY <1>9, PollerAssumption DEF CallStores
  <2>2. ContentOf[item] \in Contents
    BY <1>9, <2>1, PollerAssumption DEF CallStores
  <2> QED
    BY <1>9, <2>1, <2>2 DEF CallStores
<1>10. CASE CallRaises \/ CallEnds
  <2>1. failed' = failed \/ failed' = failed \cup {"db"}
    BY <1>10 DEF CallRaises, CallEnds, DbFault
  <2>2. failed' \subseteq {"db", "scan", "date"}
    BY <2>1 DEF TypeOK
  <2>3. CASE Return /\ UNCHANGED <<published, table, memory, crashes>>
    BY <1>0, <2>2, <2>3 DEF Return
  <2>4. CASE Raise /\ UNCHANGED <<published, table, memory, crashes>>
    BY <1>0, <2>2, <2>4 DEF Raise
  <2> QED
    BY <1>10, <2>3, <2>4 DEF CallRaises, CallEnds
<1> QED
  BY <1>1, <1>2, <1>3, <1>4, <1>5, <1>6, <1>7, <1>8, <1>9, <1>10,
     <1>11 DEF Step

\* Every variable keeps its type.
THEOREM TypeCorrect == Spec => []TypeOK
<1>1. Init => TypeOK
  <2>1. Init => failed \subseteq {"db", "scan", "date"}
    BY DEF Init
  <2> QED
    BY <2>1, PollerAssumption DEF Init, TypeOK, NoCutoff
<1>2. TypeOK /\ [Next]_vars => TypeOK'
  <2> SUFFICES ASSUME TypeOK, [Next]_vars PROVE TypeOK'
    OBVIOUS
  <2> USE DEF table, memory
  <2>1. CASE Publish
    BY <2>1, PollerAssumption DEF TypeOK, Publish
  <2>2. CASE PollWithoutAnswer \/ UNCHANGED vars
    BY <2>2 DEF TypeOK, PollWithoutAnswer, vars
  <2>3. CASE PollGarbage
    BY <2>3, PollerAssumption DEF TypeOK, PollGarbage
  <2>4. CASE CallPosts
    BY <2>4, PollerAssumption DEF TypeOK, CallPosts
  <2>5. CASE Restart
    <3>1. failed' \subseteq {"db", "scan", "date"}
      BY <2>5 DEF Restart
    <3> QED
      BY <2>5, <3>1, PollerAssumption DEF TypeOK, Restart, NoCutoff
  <2> QED
    BY <2>1, <2>2, <2>3, <2>4, <2>5, StepType DEF Next
<1> QED
  BY <1>1, <1>2, PTL DEF Spec

-----------------------------------------------------------------------------
(* The memory covers the table.                                             *)

\* The step of a call: its item, and what becomes of it.
LEMMA CallFrame ==
    ASSUME TypeOK, CallSkips \/ CallRaises \/ CallPosts \/ CallEnds
    PROVE  /\ rows' = rows /\ UNCHANGED memory /\ published' = published
           /\ pc' \in {"batch", "poll"} \/ (pc' = pc /\ pc = "stored" /\ item' = item)
           /\ batch' = batch \/ (batch' = {} /\ pc' = "poll")
<1> USE DEF Return, Raise, table, memory
<1>1. CASE CallSkips
  BY <1>1 DEF CallSkips
<1>2. CASE CallRaises
  BY <1>2 DEF CallRaises
<1>3. CASE CallPosts
  BY <1>3 DEF CallPosts
<1>4. CASE CallEnds
  BY <1>4 DEF CallEnds
<1> QED
  BY <1>1, <1>2, <1>3, <1>4

\* The memory covers the table and the item in work.
THEOREM SeenInvariant == Spec => []SeenInv
<1>1. Init => SeenInv
  BY DEF Init, SeenInv, SeenCoversTable, StoredGuids, HasRow
<1>2. TypeOK /\ SeenInv /\ [Next]_vars => SeenInv'
  <2> SUFFICES ASSUME TypeOK, SeenInv, [Next]_vars PROVE SeenInv'
    OBVIOUS
  <2> USE DEF table, memory
  <2>1. ASSUME rows' = rows, seen \subseteq seen',
               pc \notin {"seed", "dead"}, pc' \notin {"scan", "call", "stored"}
        PROVE  SeenInv'
    BY <2>1 DEF SeenInv, SeenCoversTable, StoredGuids, HasRow
  <2>2. CASE Seed
    BY <2>2 DEF Seed, SeenInv, SeenCoversTable, StoredGuids, HasRow
  <2>3. CASE ScanMarks
    BY <2>3 DEF ScanMarks, SeenInv, SeenCoversTable, StoredGuids, HasRow
  <2>4. CASE ScanFindsNoChannel \/ ScanFails \/ EndBatch
    BY <2>1, <2>4 DEF ScanFindsNoChannel, ScanFails, EndBatch
  <2>5. CASE Poll \/ PollRaises
    BY <2>1, <2>5 DEF Poll, PollRaises
  <2>6. CASE Take
    <3>1. /\ rows' = rows /\ pc = "batch" /\ seen \subseteq seen'
          /\ pc' = "batch" \/ (pc' = "call" /\ GuidOf[item'] \in seen')
      BY <2>6 DEF Take
    <3>2. SeenCoversTable'
      BY <3>1 DEF SeenInv, SeenCoversTable, StoredGuids, HasRow
    <3> QED
      BY <3>1, <3>2 DEF SeenInv
  <2>7. CASE CallStores
    <3>1. pc = "call" /\ pc' = "stored" /\ item' = item /\ seen' = seen
          /\ \A g \in Guids : g # GuidOf[item] => rows'[g] = rows[g]
      BY <2>7 DEF CallStores, TypeOK
    <3>2. SeenCoversTable'
      BY <3>1 DEF SeenInv, SeenCoversTable, StoredGuids, HasRow
    <3> QED
      BY <3>1, <3>2 DEF SeenInv
  <2>8. CASE CallSkips \/ CallRaises \/ CallPosts \/ CallEnds
    <3>1. pc \in {"call", "stored"}
      BY <2>8 DEF CallSkips, CallRaises, CallPosts, CallEnds
    <3> QED
      BY <2>8, <3>1, CallFrame DEF SeenInv, SeenCoversTable, StoredGuids, HasRow
  <2>9. CASE Publish \/ PollWithoutAnswer \/ PollGarbage \/ UNCHANGED vars
    BY <2>9 DEF Publish, PollWithoutAnswer, PollGarbage, vars, SeenInv,
                SeenCoversTable, StoredGuids, HasRow
  <2>10. CASE Restart
    BY <2>10 DEF Restart, SeenInv, SeenCoversTable, StoredGuids, HasRow
  <2> QED
    BY <2>2, <2>3, <2>4, <2>5, <2>6, <2>7, <2>8, <2>9, <2>10 DEF Next, Step
<1> QED
  BY <1>1, <1>2, TypeCorrect, PTL DEF Spec

\* Once seeded, the memory of the poller covers the table, over restarts,
\* errors and whatever the feed answers.
THEOREM SeenCorrect == Spec => []SeenCoversTable
<1>1. SeenInv => SeenCoversTable
  BY DEF SeenInv
<1> QED
  BY <1>1, SeenInvariant, PTL

-----------------------------------------------------------------------------
(* The ETag.                                                                *)

\* What a step must keep of the answer in work to keep AnswerInv.
LEMMA AnswerKept ==
    ASSUME AnswerInv, rows' = rows, batch' = batch, item' = item, etag' = etag,
           seen \subseteq seen', published <= published',
           published \in Nat, published' \in Nat, etag \in Nat,
           pc' \in {"seed", "scan", "dead"} => pc \in {"seed", "scan", "dead"},
           pc' = "poll" => batch = {},
           pc' = "call" => pc = "call"
    PROVE  AnswerInv'
<1>1. \A k \in 1 .. etag : k > etag - Window => GuidOf[k] \in seen' \/ k \in batch
  BY DEF AnswerInv
<1>2. \A k \in batch : ~HasRow(GuidOf[k])' /\ k # item
  BY DEF AnswerInv, HasRow
<1>3. etag' <= published'
  BY DEF AnswerInv
<1>4. pc' = "call" => ~HasRow(GuidOf[item])'
  BY DEF AnswerInv, HasRow
<1> QED
  BY <1>1, <1>2, <1>3, <1>4 DEF AnswerInv

LEMMA AnswerStep ==
    ASSUME TypeOK, SeenInv, DistinctGuids, AnswerInv, Next, NothingRaised,
           NothingRaised'
    PROVE  AnswerInv'
<1> USE DEF table, memory
<1>0. /\ published \in Nat /\ etag \in Nat /\ Window \in Nat \ {0}
      /\ Items \in Nat /\ 0 <= published
  BY FeedType, PollerAssumption DEF TypeOK
<1>1. CASE Publish
  BY <1>0, <1>1, AnswerKept DEF Publish, AnswerInv
<1>2. CASE Seed
  BY <1>0, <1>2 DEF Seed, DbFault, NothingRaised, AnswerInv
<1>3. CASE ScanMarks
  <2>1. /\ batch' = {} /\ etag' = published /\ published' = published
        /\ seen' = {GuidOf[k] : k \in Feed} /\ pc' = "poll"
    BY <1>3 DEF ScanMarks, AnswerInv
  <2>2. \A k \in 1 .. published : k > published - Window => GuidOf[k] \in seen'
    BY <2>1 DEF Feed
  <2> QED
    BY <1>0, <2>1, <2>2 DEF AnswerInv
<1>4. CASE ScanFindsNoChannel
  BY <1>0, <1>4 DEF ScanFindsNoChannel, AnswerInv
<1>5. CASE ScanFails
  BY <1>0, <1>5 DEF ScanFails, AnswerInv
<1>6. CASE Poll
  <2>1. /\ etag' = published /\ published' = published /\ rows' = rows
        /\ batch' = Unseen \ Skipped
        /\ seen' = seen \cup {GuidOf[k] : k \in Skipped}
        /\ pc' = "batch" /\ pc = "poll" /\ item' = item
    BY <1>6 DEF Poll
  <2>2. \A k \in 1 .. published :
            k > published - Window => GuidOf[k] \in seen' \/ k \in batch'
    BY <2>1 DEF Feed, Unseen
  <2>3. \A k \in batch' : ~HasRow(GuidOf[k])'
    BY <2>1, FeedType DEF Unseen, SeenInv, SeenCoversTable, StoredGuids, HasRow
  <2>4. \A k \in batch' : k # item'
    BY <2>1, FeedType DEF Unseen, TypeOK
  <2> QED
    BY <1>0, <2>1, <2>2, <2>3, <2>4 DEF AnswerInv
<1>7. CASE Take
  <2>1. PICK k \in batch :
            /\ batch' = batch \ {k} /\ seen' = seen \cup {GuidOf[k]}
            /\ \/ pc' = "batch" /\ item' = item
               \/ pc' = "call" /\ item' = k
    BY <1>7 DEF Take
  <2>2. rows' = rows /\ etag' = etag /\ published' = published /\ pc = "batch"
    BY <1>7 DEF Take
  <2>3. \A j \in 1 .. etag : j > etag - Window => GuidOf[j] \in seen' \/ j \in batch'
    BY <2>1 DEF AnswerInv
  <2>4. \A j \in batch' : ~HasRow(GuidOf[j])' /\ j # item'
    BY <2>1, <2>2 DEF AnswerInv, HasRow
  <2>5. pc' = "call" => ~HasRow(GuidOf[item])'
    BY <2>1, <2>2 DEF AnswerInv, HasRow
  <2>6. /\ pc' \notin {"seed", "scan", "dead", "poll"}
        /\ etag' <= published'
    BY <2>1, <2>2 DEF AnswerInv
  <2> QED
    BY <2>2, <2>3, <2>4, <2>5, <2>6 DEF AnswerInv
<1>8. CASE EndBatch
  BY <1>0, <1>8, AnswerKept DEF EndBatch
<1>9. CASE CallStores
  <2>1. /\ batch' = batch /\ item' = item /\ seen' = seen /\ etag' = etag
        /\ published' = published /\ pc = "call" /\ pc' = "stored"
        /\ \A g \in Guids : g # GuidOf[item] => rows'[g] = rows[g]
    BY <1>9 DEF CallStores, TypeOK
  <2>2. item \in 1 .. Items
    BY <1>0, <2>1 DEF TypeOK
  <2>3. \A k \in batch : ~HasRow(GuidOf[k])'
    <3> SUFFICES ASSUME NEW k \in batch PROVE ~HasRow(GuidOf[k])'
      OBVIOUS
    <3>1. k \in 1 .. Items /\ k # item /\ ~HasRow(GuidOf[k])
      BY DEF TypeOK, AnswerInv
    <3>2. GuidOf[k] # GuidOf[item] /\ GuidOf[k] \in Guids
      BY <2>2, <3>1, PollerAssumption DEF DistinctGuids
    <3> QED
      BY <2>1, <3>1, <3>2 DEF HasRow
  <2> QED
    BY <2>1, <2>3 DEF AnswerInv
<1>10. CASE CallSkips
  <2>1. pc' = "batch" /\ item' = 0 /\ batch' = batch
    BY <1>10 DEF CallSkips, Return
  <2>2. \A k \in batch : k # 0
    BY DEF TypeOK
  <2> QED
    BY <1>0, <1>10, <2>1, <2>2 DEF CallSkips, AnswerInv, HasRow
<1>11. CASE CallRaises
  BY <1>11 DEF CallRaises, AnswerInv, DbFault, NothingRaised
<1>12. CASE CallPosts
  BY <1>0, <1>12, AnswerKept DEF CallPosts
<1>13. CASE CallEnds
  <2>1. pc' = "batch" /\ item' = 0 /\ batch' = batch
    BY <1>13 DEF CallEnds, Return, DbFault, NothingRaised
  <2>2. \A k \in batch : k # 0
    BY DEF TypeOK
  <2> QED
    BY <1>0, <1>13, <2>1, <2>2 DEF CallEnds, AnswerInv, HasRow
<1>14. CASE PollGarbage
  BY <1>0, <1>14 DEF PollGarbage, AnswerInv, HasRow
<1>15. CASE PollWithoutAnswer
  BY <1>15 DEF PollWithoutAnswer, vars, AnswerInv, HasRow
<1>16. CASE Restart
  BY <1>0, <1>16 DEF Restart, AnswerInv, HasRow
<1>17. CASE PollRaises
  BY <1>17 DEF PollRaises, NothingRaised
<1> QED
  BY <1>1, <1>2, <1>3, <1>4, <1>5, <1>6, <1>7, <1>8, <1>9, <1>10, <1>11,
     <1>12, <1>13, <1>14, <1>15, <1>16, <1>17 DEF Next, Step

\* An exception is forgotten by a restart only, which empties the answer.
LEMMA RestartAnswer ==
    TypeOK /\ ~NothingRaised /\ NothingRaised' /\ Next => AnswerInv'
<1> SUFFICES ASSUME TypeOK, ~NothingRaised, NothingRaised', Next
             PROVE  AnswerInv'
  OBVIOUS
<1>1. Restart
  BY DEF Next, Step, Publish, Seed, ScanMarks, ScanFindsNoChannel, ScanFails,
         Poll, PollRaises, Take, EndBatch, CallSkips, CallStores, CallRaises, CallPosts,
         CallEnds, PollGarbage, PollWithoutAnswer, DbFault, NothingRaised, vars
<1>2. 0 <= published /\ published' = published
  BY <1>1, FeedType DEF Restart, TypeOK
<1> QED
  BY <1>1, <1>2 DEF Restart, AnswerInv

\* The ETag never hides an item of the feed, as long as guids are distinct and
\* no exception has cut a batch short since the last start.
THEOREM EtagCorrect == Spec => []EtagHidesNothing
<1>1. Init => WholeAnswerInv
  BY PollerAssumption DEF Init, WholeAnswerInv, AnswerInv, HasRow
<1>2. TypeOK /\ SeenInv /\ WholeAnswerInv /\ [Next]_vars => WholeAnswerInv'
  <2> SUFFICES ASSUME TypeOK, SeenInv, WholeAnswerInv, [Next]_vars,
                      DistinctGuids, NothingRaised'
               PROVE  AnswerInv'
    BY DEF WholeAnswerInv, DistinctGuids
  <2>1. CASE UNCHANGED vars
    BY <2>1 DEF vars, table, memory, WholeAnswerInv, NothingRaised, AnswerInv, HasRow
  <2>2. CASE Next /\ ~NothingRaised
    BY <2>2, RestartAnswer
  <2>3. CASE Next /\ NothingRaised
    BY <2>3, AnswerStep DEF WholeAnswerInv
  <2> QED
    BY <2>1, <2>2, <2>3
<1>3. TypeOK /\ WholeAnswerInv => EtagHidesNothing
  BY PollerAssumption
     DEF TypeOK, WholeAnswerInv, AnswerInv, EtagHidesNothing, Feed
<1> QED
  BY <1>1, <1>2, <1>3, TypeCorrect, SeenInvariant, PTL DEF Spec
-----------------------------------------------------------------------------
(* The cold start.                                                          *)

\* What has left the feed stays out of it.
LEMMA FeedMoves ==
    ASSUME NEW a \in Nat, NEW b \in Nat, NEW w \in Nat, NEW k \in Nat, a <= b
    PROVE  (k <= a - w => k <= b - w) /\ (k > b - w => k > a - w)
  OBVIOUS

\* What a step must keep of the items older than the service.
LEMMA ColdKept ==
    ASSUME ColdInv, DistinctGuids, crashes = 0, "scan" \notin failed,
           posted' = posted, batch' \subseteq batch,
           item' = item \/ item' = 0 \/ item' \in batch,
           seen \subseteq seen', cutoff' = cutoff, published <= published',
           published \in Nat, published' \in Nat, Window \in Nat,
           pc \notin {"seed", "scan", "dead"}, pc' # "seed"
    PROVE  ColdInv'
<1> SUFFICES ASSUME NEW k \in (1 .. Historic) \ Undated PROVE ColdItem(k)'
  BY DEF ColdInv
<1>1. ColdItem(k) /\ k # 0
  BY PollerAssumption DEF ColdInv
<1>2. GuidOf[k] \notin posted' /\ k \notin batch' /\ k # item'
  BY <1>1 DEF ColdItem
<1>3. GuidOf[k] \in seen' \/ k <= cutoff' \/ k <= published' - Window
  <2>1. k \in Nat
    BY PollerAssumption
  <2>2. k <= published - Window => k <= published' - Window
    BY <2>1, FeedMoves
  <2>3. GuidOf[k] \in seen \/ k <= cutoff \/ k <= published - Window
    BY <1>1 DEF ColdItem
  <2> QED
    BY <2>2, <2>3
<1> QED
  BY <1>2, <1>3 DEF ColdItem

LEMMA ColdStep ==
    ASSUME TypeOK, ColdInv, Next, DistinctGuids, crashes' = 0,
           "scan" \notin failed'
    PROVE  ColdInv'
<1> USE DEF table, memory
<1>0. /\ published \in Nat /\ Window \in Nat /\ Items \in Nat
      /\ Historic \in Nat /\ Historic <= published /\ cutoff \in Int
  BY FeedType, PollerAssumption DEF TypeOK, NoCutoff
<1>1. ~Restart
  BY DEF Restart, TypeOK
<1>2. crashes = 0 /\ "scan" \notin failed
  BY <1>1 DEF Next, Step, Publish, Seed, ScanMarks, ScanFindsNoChannel, ScanFails,
         Poll, PollRaises, Take, EndBatch, CallSkips, CallStores, CallRaises, CallPosts,
         CallEnds, PollGarbage, PollWithoutAnswer, DbFault, vars
<1>3. \A k \in (1 .. Historic) \ Undated : ColdItem(k)
  BY <1>2 DEF ColdInv
<1>4. CASE Publish
  BY <1>0, <1>2, <1>4 DEF Publish, ColdInv, ColdItem, StoredGuids, HasRow
<1>5. CASE Seed
  <2>1. StoredGuids = {} /\ pc = "seed"
    BY <1>2, <1>5 DEF ColdInv, Seed
  <2>2. pc' \in {"scan", "dead"} /\ posted' = posted /\ batch' = batch /\ item' = item
    BY <1>5, <2>1 DEF Seed
  <2> QED
    BY <1>3, <2>2 DEF ColdInv, ColdItem
<1>6. CASE ScanMarks
  <2>1. /\ posted' = posted /\ batch' = batch /\ item' = item
        /\ seen' = {GuidOf[k] : k \in Feed} /\ published' = published /\ pc' = "poll"
    BY <1>6 DEF ScanMarks
  <2>2. \A k \in 1 .. Historic : GuidOf[k] \in seen' \/ k <= published - Window
    BY <1>0, <2>1 DEF Feed
  <2> QED
    BY <1>3, <2>1, <2>2 DEF ColdInv, ColdItem
<1>7. CASE ScanFindsNoChannel
  BY <1>7 DEF ScanFindsNoChannel
<1>8. CASE ScanFails
  <2>1. /\ posted' = posted /\ batch' = batch /\ item' = item
        /\ cutoff' = published /\ pc' = "poll"
    BY <1>8 DEF ScanFails
  <2>2. \A k \in 1 .. Historic : k <= cutoff'
    BY <1>0, <2>1
  <2> QED
    BY <1>3, <2>1, <2>2 DEF ColdInv, ColdItem
<1>9. CASE Poll
  <2>1. /\ posted' = posted /\ item' = item /\ cutoff' = cutoff
        /\ published' = published /\ seen \subseteq seen'
        /\ pc = "poll" /\ pc' = "batch"
        /\ batch' = Unseen \ Skipped
    BY <1>9 DEF Poll
  <2>2. ASSUME NEW k \in (1 .. Historic) \ Undated
        PROVE  ColdItem(k)'
    <3>1. GuidOf[k] \in seen \/ k <= cutoff \/ k <= published - Window
      BY <1>3, <2>1 DEF ColdItem
    <3>2. k \notin batch'
      <4> SUFFICES ASSUME k \in Feed, GuidOf[k] \notin seen PROVE k \in Skipped
        BY <2>1 DEF Unseen
      <4>1. k <= cutoff
        BY <1>0, <3>1 DEF Feed
      <4> QED
        BY <4>1 DEF Unseen, Skipped
    <3> QED
      BY <1>3, <2>1, <3>1, <3>2 DEF ColdItem
  <2> QED
    BY <2>1, <2>2 DEF ColdInv
<1>10. CASE Take
  <2>1. /\ posted' = posted /\ batch' \subseteq batch /\ seen \subseteq seen'
        /\ item' = item \/ item' \in batch
        /\ cutoff' = cutoff /\ published' = published
        /\ pc = "batch" /\ pc' \in {"batch", "call"}
    BY <1>10 DEF Take
  <2> QED
    BY <1>0, <1>2, <2>1, ColdKept
<1>11. CASE EndBatch
  <2>1. /\ posted' = posted /\ batch' = batch /\ seen' = seen /\ item' = item
        /\ cutoff' = cutoff /\ published' = published
        /\ pc = "batch" /\ pc' = "poll"
    BY <1>11 DEF EndBatch
  <2> QED
    BY <1>0, <1>2, <2>1, ColdKept
<1>12. CASE CallSkips \/ CallRaises \/ CallEnds
  <2>1. /\ posted' = posted /\ batch' \subseteq batch /\ seen' = seen
        /\ item' = 0 /\ cutoff' = cutoff /\ published' = published
        /\ pc \in {"call", "stored"} /\ pc' \in {"batch", "poll"}
    BY <1>12 DEF CallSkips, CallRaises, CallEnds, Return, Raise
  <2> QED
    BY <1>0, <1>2, <2>1, ColdKept
<1>13. CASE CallStores
  <2>1. /\ posted' = posted /\ batch' = batch /\ seen' = seen /\ item' = item
        /\ cutoff' = cutoff /\ published' = published
        /\ pc = "call" /\ pc' = "stored"
    BY <1>13 DEF CallStores
  <2> QED
    BY <1>0, <1>2, <2>1, ColdKept
<1>14. CASE CallPosts
  <2>1. /\ posted' = posted \cup {GuidOf[item]} /\ pc = "stored" /\ pc' = pc
        /\ UNCHANGED <<published, seen, cutoff, batch, item>>
    BY <1>14 DEF CallPosts
  <2>2. item \in 1 .. Items
    BY <1>0, <2>1 DEF TypeOK
  <2>3. ASSUME NEW k \in (1 .. Historic) \ Undated
        PROVE  GuidOf[k] \notin posted'
    <3>1. k # item /\ GuidOf[k] \notin posted /\ k \in 1 .. Items
      BY <1>3, PollerAssumption DEF ColdItem
    <3>2. GuidOf[k] # GuidOf[item]
      BY <2>2, <3>1 DEF DistinctGuids
    <3> QED
      BY <2>1, <3>1, <3>2
  <2>4. pc' # "seed" /\ \A k \in (1 .. Historic) \ Undated : ColdItem(k)'
    BY <1>3, <2>1, <2>3 DEF ColdItem
  <2> QED
    BY <2>4 DEF ColdInv
<1>15. CASE PollGarbage
  <2>1. /\ posted' = posted /\ batch' = batch /\ seen' = seen /\ item' = item
        /\ cutoff' = cutoff /\ published' = published
        /\ pc = "poll" /\ pc' = "poll"
    BY <1>15 DEF PollGarbage
  <2> QED
    BY <1>0, <1>2, <2>1, ColdKept
<1>16. CASE PollWithoutAnswer
  BY <1>3, <1>16 DEF PollWithoutAnswer, vars, ColdInv, ColdItem
<1>17. CASE PollRaises
  <2>1. /\ posted' = posted /\ batch' = batch /\ seen \subseteq seen' /\ item' = item
        /\ cutoff' = cutoff /\ published' = published
        /\ pc = "poll" /\ pc' = "poll"
    BY <1>17 DEF PollRaises
  <2> QED
    BY <1>0, <1>2, <2>1, ColdKept
<1> QED
  BY <1>1, <1>4, <1>5, <1>6, <1>7, <1>8, <1>9, <1>10, <1>11, <1>12, <1>13,
     <1>14, <1>15, <1>16, <1>17 DEF Next, Step

\* Without a restart no dated item older than the service reaches the channel,
\* whether the first scan succeeds or fails.
THEOREM ColdStartCorrect == Spec => []ColdStartQuiet
<1>1. Init => ColdInv
  <2> SUFFICES ASSUME Init PROVE ColdInv
    OBVIOUS
  <2>1. StoredGuids = {}
    BY DEF Init, StoredGuids, HasRow
  <2>2. \A k \in (1 .. Historic) \ Undated : ColdItem(k)
    BY PollerAssumption DEF Init, ColdItem
  <2> QED
    BY <2>1, <2>2 DEF ColdInv
<1>2. TypeOK /\ ColdInv /\ [Next]_vars => ColdInv'
  <2> SUFFICES ASSUME TypeOK, ColdInv, [Next]_vars, DistinctGuids,
                      crashes' = 0, "scan" \notin failed'
               PROVE  ColdInv'
    BY DEF ColdInv, DistinctGuids
  <2>1. CASE UNCHANGED vars
    BY <2>1 DEF vars, table, memory, ColdInv, ColdItem, StoredGuids, HasRow
  <2> QED
    BY <2>1, ColdStep
<1>3. ColdInv => ColdStartQuiet
  BY DEF ColdInv, ColdItem, ColdStartQuiet
<1> QED
  BY <1>1, <1>2, <1>3, TypeCorrect, PTL DEF Spec

-----------------------------------------------------------------------------
(* The order.                                                               *)

\* What a step must keep of the order in which items are taken.
LEMMA OrderKept ==
    ASSUME OrderInv, DistinctGuids, crashes = 0,
           posted' = posted, batch' = batch \/ batch' = {},
           item' = item \/ item' = 0, seen' = seen, published <= published',
           published \in Nat, published' \in Nat, Window \in Nat, Items \in Nat,
           pc' \in {"seed", "scan"} => pc \in {"seed", "scan"},
           pc' \in {"seed", "scan", "dead", "poll"} =>
               batch' = {} \/ pc \in {"seed", "scan", "dead", "poll"}
    PROVE  OrderInv'
<1>1. \A k \in batch : GuidOf[k] \notin seen
  BY DEF OrderInv
<1>2. pc' \in {"seed", "scan", "dead", "poll"} => batch' = {}
  BY DEF OrderInv
<1>3. pc' \in {"seed", "scan"} => posted' = {}
  BY DEF OrderInv
<1>4. ASSUME NEW j \in (1 .. Items) \ Undated, NEW k \in (1 .. Items) \ Undated,
             j < k, j > published' - Window
      PROVE  Waiting(j, k)'
  <2>0. j \in Nat /\ k \in Nat \ {0}
    OBVIOUS
  <2>1. j > published - Window /\ k # 0
    BY <1>4, <2>0, FeedMoves, Zenon
  <2>2. Waiting(j, k)
    BY <1>4, <2>1 DEF OrderInv
  <2> QED
    BY <2>1, <2>2 DEF Waiting
<1> QED
  BY <1>1, <1>2, <1>3, <1>4 DEF OrderInv

LEMMA OrderStep ==
    ASSUME TypeOK, OrderInv, Next, DistinctGuids, crashes' = 0
    PROVE  OrderInv'
<1> USE DEF table, memory
<1>0. /\ published \in Nat /\ Window \in Nat /\ Items \in Nat
  BY FeedType, PollerAssumption DEF TypeOK
<1>1. ~Restart
  BY DEF Restart, TypeOK
<1>2. crashes = 0
  BY <1>1 DEF Next, Step, Publish, Seed, ScanMarks, ScanFindsNoChannel, ScanFails,
         Poll, PollRaises, Take, EndBatch, CallSkips, CallStores, CallRaises, CallPosts,
         CallEnds, PollGarbage, PollWithoutAnswer, vars
<1>3. /\ pc \in {"seed", "scan"} => posted = {}
      /\ pc \in {"seed", "scan", "dead", "poll"} => batch = {}
      /\ \A k \in batch : GuidOf[k] \notin seen
      /\ \A j, k \in (1 .. Items) \ Undated :
             j < k /\ j > published - Window => Waiting(j, k)
  BY <1>2 DEF OrderInv
<1>4. CASE Publish
  <2>1. /\ UNCHANGED <<posted, batch, item, seen, pc>>
        /\ published' = published + 1
    BY <1>4 DEF Publish
  <2> QED
    BY <1>0, <1>2, <2>1, OrderKept
\* Nothing was posted before the first poll, so nothing had to wait.
<1>5. CASE Seed \/ ScanMarks
  <2>1. /\ posted = {} /\ posted' = {} /\ batch' = {} /\ item' = item /\ item = 0
        /\ pc' \in {"scan", "poll", "dead"} /\ published' = published
    BY <1>3, <1>5 DEF Seed, ScanMarks, TypeOK
  <2>2. \A j, k \in (1 .. Items) \ Undated : Waiting(j, k)'
    BY <1>0, <2>1 DEF Waiting
  <2> QED
    BY <2>1, <2>2 DEF OrderInv
<1>6. CASE ScanFindsNoChannel \/ ScanFails
  <2>1. /\ UNCHANGED <<posted, batch, item, seen, published>>
        /\ pc = "scan" /\ pc' = "poll"
    BY <1>6 DEF ScanFindsNoChannel, ScanFails
  <2> QED
    BY <1>0, <1>2, <2>1, OrderKept
<1>7. CASE Poll
  <2>1. /\ posted' = posted /\ item' = item /\ published' = published
        /\ item = 0 /\ pc' = "batch"
        /\ seen' = seen \cup {GuidOf[k] : k \in Skipped}
        /\ batch' = Unseen \ Skipped
    BY <1>7 DEF Poll, TypeOK
  <2>2. ASSUME NEW k \in batch' PROVE GuidOf[k] \notin seen'
    <3>1. k \in Feed /\ k \notin Skipped /\ GuidOf[k] \notin seen
      BY <2>1, <2>2 DEF Unseen
    <3>2. \A j \in Skipped : GuidOf[j] # GuidOf[k]
      BY <3>1, FeedType DEF DistinctGuids
    <3> QED
      BY <2>1, <3>1, <3>2
  <2>3. ASSUME NEW j \in (1 .. Items) \ Undated, NEW k \in (1 .. Items) \ Undated,
               j < k, j > published - Window
        PROVE  Waiting(j, k)'
    <3>1. k \in batch' => GuidOf[j] \in seen' \/ j \in batch'
      <4> SUFFICES ASSUME k \in batch', GuidOf[j] \notin seen, j \notin Skipped
                   PROVE  j \in batch'
        BY <2>1
      <4>1. k <= published
        BY <2>1 DEF Feed, Unseen
      <4>2. j \in Feed
        BY <1>0, <2>3, <4>1 DEF Feed
      <4> QED
        BY <2>1, <4>2 DEF Unseen
    <3>2. k # item'
      BY <2>1
    <3>3. GuidOf[k] \in posted' => GuidOf[j] \in seen'
      BY <1>3, <2>1, <2>3 DEF Waiting
    <3> QED
      BY <3>1, <3>2, <3>3 DEF Waiting
  <2> QED
    BY <2>1, <2>2, <2>3 DEF OrderInv
<1>17. CASE PollRaises
  <2>1. /\ UNCHANGED <<posted, batch, item, pc, published>> /\ pc = "poll"
        /\ seen \subseteq seen'
    BY <1>17 DEF PollRaises
  <2>2. batch = {}
    BY <1>3, <2>1
  <2>3. ASSUME NEW j \in (1 .. Items) \ Undated, NEW k \in (1 .. Items) \ Undated,
               j < k, j > published - Window
        PROVE  Waiting(j, k)'
    BY <1>3, <2>1, <2>2, <2>3 DEF Waiting
  <2> QED
    BY <2>1, <2>2, <2>3 DEF OrderInv
<1>8. CASE Take
  <2>1. PICK t \in batch :
            /\ Oldest(t)
            /\ batch' = batch \ {t} /\ seen' = seen \cup {GuidOf[t]}
            /\ \/ pc' = "batch" /\ item' = item /\ item = 0
               \/ pc' = "call" /\ item' = t
    BY <1>8 DEF Take, TypeOK
  <2>2. /\ posted' = posted /\ published' = published /\ t \in 1 .. Items
    BY <1>8 DEF Take, TypeOK
  <2>3. ASSUME NEW k \in batch' PROVE GuidOf[k] \notin seen'
    <3>1. k \in batch /\ k # t /\ k \in 1 .. Items
      BY <2>1 DEF TypeOK
    <3>2. GuidOf[k] # GuidOf[t]
      BY <2>2, <3>1 DEF DistinctGuids
    <3> QED
      BY <1>3, <2>1, <3>1, <3>2
  <2>4. ASSUME NEW j \in (1 .. Items) \ Undated, NEW k \in (1 .. Items) \ Undated,
               j < k, j > published - Window
        PROVE  Waiting(j, k)'
    <3>1. Waiting(j, k)
      BY <1>3, <2>4
    <3>2. k \in batch' => GuidOf[j] \in seen' \/ j \in batch'
      BY <2>1, <3>1 DEF Waiting
    <3>3. k = item' => GuidOf[j] \in seen'
      <4> SUFFICES ASSUME k = t, j \in batch PROVE FALSE
        <5>1. k # 0
          BY <2>4
        <5> QED
          BY <2>1, <3>1, <5>1 DEF Waiting
      <4>1. Before(t, j) /\ t \notin Undated /\ j \notin Undated
        BY <2>1, <2>4 DEF Oldest
      <4>2. t < j
        BY <4>1 DEF Before
      <4> QED
        BY <1>0, <2>4, <4>2
    <3>4. GuidOf[k] \in posted' => GuidOf[j] \in seen'
      BY <2>1, <2>2, <3>1 DEF Waiting
    <3> QED
      BY <3>2, <3>3, <3>4 DEF Waiting
  <2> QED
    BY <2>1, <2>2, <2>3, <2>4 DEF OrderInv
<1>9. CASE EndBatch
  <2>1. /\ UNCHANGED <<posted, batch, item, seen, published>>
        /\ batch = {} /\ pc' = "poll"
    BY <1>9 DEF EndBatch
  <2> QED
    BY <1>0, <1>2, <2>1, OrderKept
<1>10. CASE CallSkips \/ CallRaises \/ CallEnds
  <2>1. /\ UNCHANGED <<posted, seen, published>> /\ item' = 0
        /\ \/ pc' = "batch" /\ batch' = batch
           \/ pc' = "poll" /\ batch' = {}
    BY <1>10 DEF CallSkips, CallRaises, CallEnds, Return, Raise
  <2> QED
    BY <1>0, <1>2, <2>1, OrderKept
<1>11. CASE CallStores
  <2>1. /\ UNCHANGED <<posted, batch, item, seen, published>> /\ pc' = "stored"
    BY <1>11 DEF CallStores
  <2> QED
    BY <1>0, <1>2, <2>1, OrderKept
<1>12. CASE CallPosts
  <2>1. /\ posted' = posted \cup {GuidOf[item]} /\ pc = "stored" /\ pc' = pc
        /\ UNCHANGED <<published, seen, batch, item>>
    BY <1>12 DEF CallPosts
  <2>2. item \in 1 .. Items
    BY <1>0, <2>1 DEF TypeOK
  <2>3. ASSUME NEW j \in (1 .. Items) \ Undated, NEW k \in (1 .. Items) \ Undated,
               j < k, j > published - Window
        PROVE  Waiting(j, k)'
    <3>1. Waiting(j, k)
      BY <1>3, <2>3
    <3>2. GuidOf[k] \in posted' => GuidOf[k] \in posted \/ k = item
      BY <2>1, <2>2 DEF DistinctGuids
    <3> QED
      BY <2>1, <3>1, <3>2 DEF Waiting
  <2> QED
    BY <1>3, <2>1, <2>3 DEF OrderInv
<1>13. CASE PollGarbage
  <2>1. /\ UNCHANGED <<posted, batch, item, seen, published, pc>>
    BY <1>13 DEF PollGarbage
  <2> QED
    BY <1>0, <1>2, <2>1, OrderKept
<1>14. CASE PollWithoutAnswer
  <2>1. /\ UNCHANGED <<posted, batch, item, seen, published, pc>>
    BY <1>14 DEF PollWithoutAnswer, vars
  <2> QED
    BY <1>0, <1>2, <2>1, OrderKept
<1> QED
  BY <1>1, <1>4, <1>5, <1>6, <1>7, <1>8, <1>9, <1>10, <1>11, <1>12, <1>13,
     <1>14, <1>17 DEF Next, Step

\* Readers never see an item while an older one that the feed still shows waits.
THEOREM OrderCorrect == Spec => []OlderFirst
<1>1. Init => OrderInv
  BY PollerAssumption DEF Init, OrderInv, Waiting
<1>2. TypeOK /\ OrderInv /\ [Next]_vars => OrderInv'
  <2> SUFFICES ASSUME TypeOK, OrderInv, [Next]_vars, DistinctGuids, crashes' = 0
               PROVE  OrderInv'
    BY DEF OrderInv, DistinctGuids
  <2>1. CASE UNCHANGED vars
    BY <2>1 DEF vars, table, memory, OrderInv, Waiting
  <2> QED
    BY <2>1, OrderStep
<1>3. TypeOK /\ OrderInv => OlderFirst
  <2> SUFFICES ASSUME TypeOK, OrderInv, crashes = 0, DistinctGuids,
                      NEW j \in Feed \ Undated, NEW k \in Feed \ Undated,
                      j < k, GuidOf[k] \in posted
               PROVE  GuidOf[j] \in seen /\ j \notin batch
    BY DEF OlderFirst
  <2>1. j \in (1 .. Items) \ Undated /\ k \in (1 .. Items) \ Undated
        /\ j > published - Window
    BY FeedType DEF Feed
  <2>2. GuidOf[j] \in seen
    BY <2>1 DEF OrderInv, Waiting
  <2> QED
    BY <2>2 DEF OrderInv
<1> QED
  BY <1>1, <1>2, <1>3, TypeCorrect, PTL DEF Spec
=============================================================================
