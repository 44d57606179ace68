------------------------------ MODULE RssPoller ------------------------------
(***************************************************************************)
(* The feed poller of app/services/ingestion/rss_poller.py: what it takes  *)
(* from a feed that only shows its last items, what it remembers in memory *)
(* and what a restart makes of that.                                       *)
(*                                                                         *)
(* Feed items are numbered in the order of their publication.  The feed is *)
(* the window of the last ones, and its ETag is the number of the newest.  *)
(* process_message is here what the poller sees of it: a call that stores  *)
(* a row or not, posts a message or not, and returns or raises.            *)
(***************************************************************************)
EXTENDS Integers

CONSTANTS
    Guids, Contents,   \* guids, and contents of titles with a text
    Blank,             \* a title that normalises to the empty string
    NoTitle,           \* an empty title
    NotStored,         \* no row for a guid
    Items,             \* number of items the feed ever publishes
    Historic,          \* of which published before the first start
    Window,            \* number of items the feed shows at a time
    GuidOf, ContentOf, \* guid and title of each item
    Undated,           \* items whose pubDate does not parse
    Zoneless,          \* items whose pubDate parses to a time without a zone
    BrokenFeed,        \* may a 200 carry a document without a channel?
    DbMayFail,         \* may database statements fail?
    MaxCrashes         \* bound: restarts of the process

ASSUME PollerAssumption ==
    /\ Items \in Nat /\ Historic \in 0 .. Items /\ Window \in Nat \ {0}
    /\ GuidOf \in [1 .. Items -> Guids]
    /\ ContentOf \in [1 .. Items -> Contents \cup {Blank, NoTitle}]
    /\ {Blank, NoTitle, NotStored} \cap Contents = {}
    /\ NotStored # Blank
    /\ Undated \subseteq 1 .. Items
    /\ Zoneless \subseteq (1 .. Items) \ Undated
    /\ BrokenFeed \in BOOLEAN /\ DbMayFail \in BOOLEAN
    /\ MaxCrashes \in Nat

VARIABLES
    published,       \* number of items the feed has published
    rows,            \* rows[g]: content of the row of guid g
    posted,          \* guids whose message is in the channel
    pc,              \* where RSSPoller.start is
    seen,            \* _seen_ids
    etag,            \* _etag and _last_modified, 0 for None
    cutoff,          \* _cold_start_cutoff, the last item before it
    batch,           \* items of the poll that are still to be processed
    item,            \* the item of the running call, 0 for none
    failed,          \* history of this process: "db" for a database error,
                     \* "scan" for a first scan that found no channel, "date"
                     \* for dates that could not be compared
    crashes

table  == <<rows, posted>>
memory == <<seen, etag, cutoff>>
vars   == <<published, table, pc, memory, batch, item, failed, crashes>>

-----------------------------------------------------------------------------
Feed   == {k \in 1 .. published : k > published - Window}
HasRow(g)       == rows[g] # NotStored
ContentKnown(c) == \E g \in Guids : rows[g] = c
StoredGuids     == {g \in Guids : HasRow(g)}

\* No cutoff: every item is later.
NoCutoff == -1

Init ==
    /\ published = Historic
    /\ rows = [g \in Guids |-> NotStored]
    /\ posted = {}
    /\ pc = "seed"
    /\ seen = {} /\ etag = 0 /\ cutoff = NoCutoff
    /\ batch = {} /\ item = 0
    /\ failed = {} /\ crashes = 0

\* The source publishes one more item.
Publish ==
    /\ published < Items
    /\ published' = published + 1
    /\ UNCHANGED <<table, pc, memory, batch, item, failed, crashes>>

DbFault == DbMayFail /\ failed' = failed \cup {"db"}

-----------------------------------------------------------------------------
(* Starting: _seed_seen_ids and _initial_feed_scan.                         *)

\* A database error escapes start(): nobody awaits the task, and the poller is
\* gone until the next restart.
Seed ==
    /\ pc = "seed"
    /\ \/ /\ seen' = StoredGuids
          /\ pc' = IF StoredGuids = {} THEN "scan" ELSE "poll"
          /\ UNCHANGED failed
       \/ pc' = "dead" /\ DbFault /\ UNCHANGED seen
    /\ UNCHANGED <<published, table, etag, cutoff, batch, item, crashes>>

ScanMarks ==
    /\ pc = "scan"
    /\ seen' = {GuidOf[k] : k \in Feed}
    /\ etag' = published
    /\ pc' = "poll"
    /\ UNCHANGED <<published, table, cutoff, batch, item, failed, crashes>>

\* Mutant: the ETag is saved one indentation too far left.
MutNoChannelKeepsTag ==
    /\ BrokenFeed
    /\ pc = "scan"
    /\ etag' = published
    /\ pc' = "poll"
    /\ UNCHANGED <<published, table, seen, cutoff, batch, item, failed, crashes>>

\* A 200 without a <channel> returns early: nothing is marked and no cutoff set.
ScanFindsNoChannel ==
    /\ BrokenFeed
    /\ pc = "scan"
    /\ pc' = "poll"
    /\ failed' = failed \cup {"scan"}
    /\ UNCHANGED <<published, table, memory, batch, item, crashes>>

\* Mutant: the fallback is forgotten.
MutScanFailsOpen ==
    /\ pc = "scan"
    /\ pc' = "poll"
    /\ UNCHANGED <<published, table, memory, batch, item, failed, crashes>>

ScanFails ==
    /\ pc = "scan"
    /\ cutoff' = published
    /\ pc' = "poll"
    /\ UNCHANGED <<published, table, seen, etag, batch, item, failed, crashes>>

-----------------------------------------------------------------------------
(* Polling: _poll_once and _parse_feed.                                     *)

\* 304, 429, another HTTP status or a network error.
PollWithoutAnswer == pc = "poll" /\ UNCHANGED vars

\* A 200 that is no feed: its own ETag is saved before it is parsed, and the
\* next poll gets a full answer again.
PollGarbage ==
    /\ BrokenFeed
    /\ pc = "poll"
    /\ etag' = 0
    /\ UNCHANGED <<published, table, pc, seen, cutoff, batch, item, failed,
                   crashes>>

\* Items dated before the cutoff are marked and dropped; one without a usable
\* date counts as published now.
Unseen  == {k \in Feed : GuidOf[k] \notin seen}
Skipped == {k \in Unseen : k <= cutoff /\ k \notin Undated}

\* A time without a zone compares with neither the cutoff nor another item.
Comparable ==
    \/ Unseen \cap Zoneless = {}
    \/ Unseen \subseteq Zoneless /\ cutoff = NoCutoff

Poll ==
    /\ pc = "poll"
    /\ etag # published
    /\ Comparable
    /\ etag' = published
    /\ batch' = Unseen \ Skipped
    /\ seen' = seen \cup {GuidOf[k] : k \in Skipped}
    /\ pc' = "batch"
    /\ UNCHANGED <<published, table, cutoff, item, failed, crashes>>

\* The TypeError of a comparison leaves _poll_once; the ETag was saved before, and
\* the items listed above the first one without a zone may be marked.
PollRaises ==
    /\ pc = "poll"
    /\ etag # published
    /\ ~Comparable
    /\ etag' = published
    /\ seen' = seen \cup {GuidOf[k] : k \in {j \in Skipped :
                                \A z \in Unseen \cap Zoneless : j > z}}
    /\ failed' = failed \cup {"date"}
    /\ UNCHANGED <<published, table, pc, cutoff, batch, item, crashes>>

\* Mutant: newest first, as the feed lists them.
MutBeforeNewestFirst(j, k) == j > k

\* Oldest first; items without a date come last, as the feed lists them.
Before(j, k) == IF j \in Undated THEN k \in Undated /\ j > k
                                 ELSE k \in Undated \/ j < k
Oldest(k) == k \in batch /\ \A j \in batch \ {k} : Before(k, j)

\* Mutant: the guid is not remembered.
MutTakeForgets ==
    /\ pc = "batch"
    /\ \E k \in batch :
          /\ Oldest(k)
          /\ batch' = batch \ {k}
          /\ IF ContentOf[k] = NoTitle THEN UNCHANGED <<pc, item>>
                                       ELSE pc' = "call" /\ item' = k
    /\ UNCHANGED <<published, table, memory, failed, crashes>>

\* The guid is marked before the item is processed.
Take ==
    /\ pc = "batch"
    /\ \E k \in batch :
          /\ Oldest(k)
          /\ batch' = batch \ {k}
          /\ seen' = seen \cup {GuidOf[k]}
          /\ IF ContentOf[k] = NoTitle THEN UNCHANGED <<pc, item>>
                                       ELSE pc' = "call" /\ item' = k
    /\ UNCHANGED <<published, table, etag, cutoff, failed, crashes>>

EndBatch ==
    /\ pc = "batch" /\ batch = {}
    /\ pc' = "poll"
    /\ UNCHANGED <<published, table, memory, batch, item, failed, crashes>>

-----------------------------------------------------------------------------
(* The call of process_message.                                             *)

\* Mutant: the loop is left after an item.
MutReturnEndsBatch == pc' = "batch" /\ item' = 0 /\ batch' = {}

Return == pc' = "batch" /\ item' = 0 /\ UNCHANGED batch

\* Mutant: the exception leaves the call where it was.
MutRaiseKeepsItem == pc' = "poll" /\ batch' = {} /\ UNCHANGED item

\* An exception leaves _poll_once: the rest of the batch is dropped.
Raise  == pc' = "poll" /\ item' = 0 /\ batch' = {}

\* An empty headline, or a content that has a row.
CallSkips ==
    /\ pc = "call"
    /\ ContentOf[item] = Blank \/ ContentKnown(ContentOf[item])
    /\ Return
    /\ UNCHANGED <<published, table, memory, failed, crashes>>

CallStores ==
    /\ pc = "call"
    /\ ContentOf[item] # Blank /\ ~ContentKnown(ContentOf[item])
    /\ ~HasRow(GuidOf[item])
    /\ rows' = [rows EXCEPT ![GuidOf[item]] = ContentOf[item]]
    /\ pc' = "stored"
    /\ UNCHANGED <<published, posted, memory, batch, item, failed, crashes>>

\* A second row for a guid is a DatabaseError, which process_message does not
\* catch, and so is any failing statement.
CallRaises ==
    /\ pc = "call"
    /\ ContentOf[item] # Blank
    /\ \/ /\ HasRow(GuidOf[item]) /\ ~ContentKnown(ContentOf[item])
          /\ UNCHANGED failed
       \/ DbFault
    /\ Raise
    /\ UNCHANGED <<published, table, memory, crashes>>

CallPosts ==
    /\ pc = "stored"
    /\ posted' = posted \cup {GuidOf[item]}
    /\ UNCHANGED <<published, rows, pc, memory, batch, item, failed, crashes>>

\* Posted or given up; recording a failed send may itself fail.
CallEnds ==
    /\ pc = "stored"
    /\ \/ Return /\ UNCHANGED failed
       \/ Raise /\ DbFault
    /\ UNCHANGED <<published, table, memory, crashes>>

-----------------------------------------------------------------------------
Restart ==
    /\ crashes < MaxCrashes
    /\ crashes' = crashes + 1
    /\ pc' = "seed"
    /\ seen' = {} /\ etag' = 0 /\ cutoff' = NoCutoff
    /\ batch' = {} /\ item' = 0
    /\ failed' = {}
    /\ UNCHANGED <<published, table>>

Step == \/ Seed \/ ScanMarks \/ ScanFindsNoChannel \/ ScanFails
        \/ Poll \/ PollRaises \/ Take \/ EndBatch
        \/ CallSkips \/ CallStores \/ CallRaises \/ CallEnds

Next == \/ Publish \/ Step \/ PollWithoutAnswer \/ PollGarbage \/ CallPosts
        \/ Restart

Spec == Init /\ [][Next]_vars

-----------------------------------------------------------------------------
(* Properties.                                                              *)

\* The types of all variables.
TypeOK ==
    /\ published \in Historic .. Items
    /\ rows \in [Guids -> Contents \cup {NotStored}]
    /\ posted \subseteq Guids
    /\ pc \in {"seed", "scan", "dead", "poll", "batch", "call", "stored"}
    /\ seen \subseteq Guids
    /\ etag \in 0 .. Items /\ cutoff \in NoCutoff .. Items
    /\ batch \subseteq 1 .. Items
    /\ item \in 0 .. Items
    /\ pc \in {"call", "stored"} <=> item # 0
    /\ item # 0 => ContentOf[item] # NoTitle
    /\ failed \subseteq {"db", "scan", "date"}
    /\ crashes \in 0 .. MaxCrashes

\* Once seeded, the memory of the poller covers the table: an item that has a
\* row is never offered again by a later poll (rss_poller.py:153-170, 200).
SeenCoversTable == pc \notin {"seed", "dead"} => StoredGuids \subseteq seen

\* Nothing but an exception makes the ETag hide an item: when the feed has nothing
\* newer to show, every item in it was dealt with, over restarts, first scans that
\* fail and answers that are no feed.  The exceptions that cut a batch short are
\* database errors, incomparable dates and a guid that comes twice.
DistinctGuids == \A j, k \in 1 .. Items : GuidOf[j] = GuidOf[k] => j = k
NothingRaised == failed \cap {"db", "date"} = {}
EtagHidesNothing ==
    pc = "poll" /\ etag = published /\ NothingRaised /\ DistinctGuids
        => \A k \in Feed : GuidOf[k] \in seen

\* Without a restart, no item older than the service reaches the channel,
\* whether the first scan succeeds or fails (rss_poller.py:103-146).
ColdStartQuiet ==
    crashes = 0 /\ "scan" \notin failed /\ DistinctGuids
        => \A k \in (1 .. Historic) \ Undated : GuidOf[k] \notin posted

\* Readers never see an item while an older one of the same feed still waits
\* (rss_poller.py:249-250).
OlderFirst ==
    crashes = 0 /\ DistinctGuids
        => \A j, k \in Feed \ Undated :
               j < k /\ GuidOf[k] \in posted => GuidOf[j] \in seen /\ j \notin batch

\* rss_poller.py:104, 124-125: on the first run all current items are silently
\* marked as seen, and only new items are published going forward.
HistoricNeverPosted ==
    \A k \in 1 .. Historic : GuidOf[k] \notin posted

-----------------------------------------------------------------------------
(* Inductive invariants.                                                    *)

\* The memory covers the table and the item in work.
SeenInv ==
    /\ SeenCoversTable
    /\ pc = "scan" => StoredGuids = {}
    /\ pc \in {"call", "stored"} => GuidOf[item] \in seen

\* What the last answer showed is dealt with or waits in the batch, and nothing
\* that waits has a row.
AnswerInv ==
    /\ pc \in {"seed", "scan", "dead", "poll"} => batch = {}
    /\ pc \in {"seed", "scan", "dead"} => etag = 0
    /\ etag <= published
    /\ \A k \in 1 .. etag :
           k > etag - Window => GuidOf[k] \in seen \/ k \in batch
    /\ \A k \in batch : ~HasRow(GuidOf[k]) /\ k # item
    /\ pc = "call" => ~HasRow(GuidOf[item])
WholeAnswerInv == DistinctGuids /\ NothingRaised => AnswerInv
\* A cold start: nothing is stored when the poller seeds itself, and each dated
\* item older than the service is marked, before the cutoff or out of the feed.
ColdItem(k) ==
    /\ GuidOf[k] \notin posted /\ k \notin batch /\ k # item
    /\ pc \notin {"seed", "scan", "dead"} =>
          GuidOf[k] \in seen \/ k <= cutoff \/ k <= published - Window
ColdInv ==
    crashes = 0 /\ "scan" \notin failed /\ DistinctGuids =>
        /\ pc = "seed" => StoredGuids = {}
        /\ \A k \in (1 .. Historic) \ Undated : ColdItem(k)

\* What waits in the batch is not marked yet, and an item is in work, or was
\* posted, only when every older one that the feed still shows is marked.
Waiting(j, k) ==
    /\ k \in batch => GuidOf[j] \in seen \/ j \in batch
    /\ k = item => GuidOf[j] \in seen
    /\ GuidOf[k] \in posted => GuidOf[j] \in seen
OrderInv ==
    crashes = 0 /\ DistinctGuids =>
        /\ pc \in {"seed", "scan"} => posted = {}
        /\ pc \in {"seed", "scan", "dead", "poll"} => batch = {}
        /\ \A k \in batch : GuidOf[k] \notin seen
        /\ \A j, k \in (1 .. Items) \ Undated :
               j < k /\ j > published - Window => Waiting(j, k)
=============================================================================
