------------------------------- MODULE Bridge -------------------------------
(***************************************************************************)
(* The service as app/main.py runs it: the feed poller calls the pipeline  *)
(* of NewsOrchestrator, one item after the other, while the background     *)
(* tasks of earlier items run and the process may stop at any point.       *)
(***************************************************************************)
EXTENDS NewsOrchestrator

CONSTANTS
    NoTitle, NotStored, Items, Historic, Window, GuidOf, ContentOf, Undated,
    Zoneless, BrokenFeed   \* as in RssPoller

ASSUME BridgeAssumption ==
    /\ Items \in Nat /\ Historic \in 0 .. Items /\ Window \in Nat \ {0}
    /\ GuidOf \in [1 .. Items -> Guids]
    /\ ContentOf \in [1 .. Items -> Contents \cup {Blank, NoTitle}]
    /\ {Blank, NoTitle, NotStored} \cap Contents = {}
    /\ NotStored # Blank
    /\ Undated \subseteq 1 .. Items
    /\ Zoneless \subseteq (1 .. Items) \ Undated
    /\ BrokenFeed \in BOOLEAN

VARIABLES
    published, pc, seen, etag, cutoff, batch, item, failed   \* as in RssPoller

pollerVars == <<published, pc, seen, etag, cutoff, batch, item, failed>>
bridgeVars == <<vars, pollerVars>>

\* What the poller reads and writes of the pipeline's tables.
Rows   == [g \in Guids |-> IF Stored(g) THEN news[g].hash ELSE NotStored]
Posted == {g \in Guids : delivered[g] > 0}

\* The poller's own code; its calls are those of the pipeline, below.
P == INSTANCE RssPoller WITH
    rows <- Rows, posted <- Posted, DbMayFail <- MaxDbFaults > 0

BridgeInit ==
    /\ Init
    /\ published = Historic
    /\ pc = "seed"
    /\ seen = {} /\ etag = 0 /\ cutoff = P!NoCutoff
    /\ batch = {} /\ item = 0
    /\ failed = {}

-----------------------------------------------------------------------------
\* What the poller does without an answer to wait for, or with any answer.
PollerStep ==
    /\ UNCHANGED vars
    /\ P!ScanMarks \/ P!ScanFindsNoChannel \/ P!ScanFails \/ P!EndBatch

SeedMemory ==
    /\ NoFault \/ DbFault
    /\ UNCHANGED <<news, telegram, fast, task, booting>>
    /\ P!Seed
    /\ pc' = "dead" <=> dbFaults' # dbFaults

\* What the feed does and what it answers to a poll.
FeedStep ==
    /\ UNCHANGED vars
    /\ \/ P!Publish
       \/ P!Poll \/ P!PollRaises \/ P!PollGarbage \/ P!PollWithoutAnswer

\* An item with a title starts a call of process_message, with a session of its
\* own.
Deliver ==
    \E k \in batch :
        /\ IF ContentOf[k] = NoTitle THEN UNCHANGED vars
                                     ELSE Receive(GuidOf[k], ContentOf[k])
        /\ P!Take
        /\ batch' = batch \ {k}

\* Mutant: the poller survives an error of an item.
MutCallRaisesInside == FALSE

\* Does a step of process_message that ends the call end it by an exception?
CallRaisesInside == fast.pc = "insert" \/ dbFaults' # dbFaults

CallStep ==
    /\ FastStep
    /\ \/ /\ fast' # Idle
          /\ UNCHANGED pollerVars
       \/ /\ fast' = Idle /\ ~CallRaisesInside
          /\ P!Return
          /\ UNCHANGED <<published, seen, etag, cutoff, failed>>
       \/ /\ fast' = Idle /\ CallRaisesInside
          /\ P!Raise
          /\ failed' = IF dbFaults' = dbFaults THEN failed ELSE failed \cup {"db"}
          /\ UNCHANGED <<published, seen, etag, cutoff>>

BackgroundStep(g) == TaskStep(g) /\ UNCHANGED pollerVars

Restart == Crash /\ P!Restart

BridgeNext ==
    \/ PollerStep \/ SeedMemory \/ FeedStep \/ Deliver \/ CallStep
    \/ \E g \in Guids : BackgroundStep(g)
    \/ Restart

BridgeSpec == BridgeInit /\ [][BridgeNext]_bridgeVars

\* The poller and every task are coroutines of one event loop.  Nothing is asked of
\* the feed: it may stay silent for ever.
BridgeFairSpec ==
    /\ BridgeSpec
    /\ WF_bridgeVars(PollerStep \/ SeedMemory \/ Deliver \/ CallStep)
    /\ \A g \in Guids : WF_bridgeVars(BackgroundStep(g))

-----------------------------------------------------------------------------
(* Properties.                                                              *)

\* The poller and the pipeline together do what RssPoller says of a call.
Poller == INSTANCE RssPoller WITH
    rows <- Rows, posted <- Posted, DbMayFail <- MaxDbFaults > 0,
    pc <- IF fast.pc \in {"send", "store", "senderr"} THEN "stored" ELSE pc
ImplementsPoller == Poller!Spec

\* From the poll to a settled record: an item that the poller has taken from the
\* feed comes to a row that settles or is abandoned at AI_PENDING (which run stuck
\* is about); a row of its guid, or of the item whose content it repeats.  Lost
\* requests, repetitions and a feed that falls silent do not matter; an older item
\* whose guid has a row of another content may cut the batch short.
Older(j, k) == j # k /\ P!Before(j, k)
Clash(j)    == /\ ContentOf[j] \in Contents /\ Stored(GuidOf[j])
               /\ news[GuidOf[j]].hash # ContentOf[j]
HeldToRecord ==
    \A k \in 1 .. Items :
        k \in batch
            ~> \/ ContentOf[k] \in {Blank, NoTitle}
               \/ \E g \in Guids :
                      /\ g = GuidOf[k] \/ news[g].hash = ContentOf[k]
                      /\ \/ news[g].status \in Settled
                         \/ news[g].status = "AI_PENDING" /\ task[g] = NoTask
               \/ \E j \in 1 .. Items : Older(j, k) /\ Clash(j)
               \/ dbFaults > 0 \/ crashes > 0
=============================================================================
