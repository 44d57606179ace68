-------------------------------- MODULE Story --------------------------------
(***************************************************************************)
(* Story intelligence, app/services/story: background tasks that run side  *)
(* by side match their news items with the stories they read, link them or *)
(* found a story, and later promote what was published to a story's latest *)
(* development.                                                            *)
(*                                                                         *)
(* An item founds at most one story, so a story is named by its founder,   *)
(* whose attributes and tokens it carries.  Each await of the engine is a  *)
(* step: what was read before it may be stale after it.                    *)
(***************************************************************************)
EXTENDS Integers, FiniteSets

CONSTANTS
    Items, Tasks, ItemOf,    \* each task processes one item
    Category, Country, Currency, Bank, Event,   \* classification of an item
    Tokens,                  \* salient tokens of its headline
    EventToken,              \* the token that is the name of its event
    Routine,                 \* items of a routine scheduled series
    Marked,                  \* items with a correction marker
    None,                    \* no country, no bank, ... no item
    EconomicData,            \* the category "economic_data"
    WindowOf, MaxWindow,     \* hours a story stays a candidate, by category
    CandidateLimit,          \* stories a query returns (60)
    MaxClock, MaxFaults      \* bounds

ASSUME StoryAssumption ==
    /\ ItemOf \in [Tasks -> Items]
    /\ IsFiniteSet(Items) /\ None \notin Items
    /\ \A i \in Items : IsFiniteSet(Tokens[i])
    /\ CandidateLimit \in Nat \ {0}
    /\ MaxClock \in Nat /\ MaxFaults \in Nat

NoStory    == [updated |-> -1, count |-> 0, latest |-> None, published |-> None]
NoLink     == [story |-> None, kind |-> "none", at |-> -1]
NoDecision == [story |-> None, kind |-> "none", prior |-> None]
NoRead     == [story |-> None, row |-> NoStory]

VARIABLES
    clock,       \* hours
    stories,     \* stories[s]: the row of the story that item s founded
    links,       \* links[i]: the story_news row of item i
    published,   \* items whose status is PUBLISHED
    pc,          \* where each task is
    now,         \* the time a task took at the start of process()
    read,        \* the story a task will link to, as it was read
    decision,    \* the StoryDecision of a task
    raced,       \* history: stories written over a newer version
    faults       \* failures of the stage

database == <<stories, links, published>>
tasks    == <<pc, now, read, decision>>
vars     == <<clock, database, tasks, raced, faults>>

-----------------------------------------------------------------------------
(* rules.py                                                                *)
Same(attribute, i, j) == attribute[i] # None /\ attribute[i] = attribute[j]
If(condition, points) == IF condition THEN points ELSE 0
AtMost(n, limit)      == IF n < limit THEN n ELSE limit

\* Mutant: the exclusion asks for different categories as well.
MutConflicting(s, i) ==
    /\ Category[s] = EconomicData /\ Category[i] # EconomicData
    /\ Country[s] # None /\ Country[i] # None /\ Country[s] # Country[i]

(* The same indicator of two countries is two stories.                     *)
Conflicting(s, i) ==
    /\ Category[s] = EconomicData /\ Category[i] = EconomicData
    /\ Country[s] # None /\ Country[i] # None /\ Country[s] # Country[i]

(* The name of the event does not count a second time as a token.          *)
Shared(s, row, i) ==
    (Tokens[s] \cup Tokens[row.latest]) \cap (Tokens[i] \ {EventToken[i]})

Score(s, row, i) ==
    IF Conflicting(s, i) THEN 0
    ELSE If(Same(Bank, s, i), 3)
         + If(Same(Event, s, i), 2)
         + If(Same(Event, s, i) /\ Same(Country, s, i), 1)
         + AtMost(Cardinality(Shared(s, row, i)), 4)
         + If(Category[s] = Category[i], 1)
         + If(Same(Country, s, i) \/ Same(Currency, s, i), 1)

MatchThreshold == 4

(* At least 0.8 of the smaller token set is in the story's latest item.    *)
Reworded(i, j) ==
    LET common  == Cardinality(Tokens[i] \cap Tokens[j])
        smaller == AtMost(Cardinality(Tokens[i]), Cardinality(Tokens[j]))
    IN  smaller > 0 /\ 10 * common >= 8 * smaller

Relationship(row, i) ==
    IF i \in Marked THEN "CORRECTION"
    ELSE IF Reworded(i, row.latest) THEN "REPETITION" ELSE "UPDATE"

-----------------------------------------------------------------------------
Founded   == {s \in Items : stories[s] # NoStory}
Linked(s) == {i \in Items : links[i].story = s}

(* get_candidates: the most recently active stories, as many as the limit  *)
(* lets through; equal times come in any order.                            *)
Recent(t)     == {s \in Founded : stories[s].updated >= now[t] - MaxWindow}
Candidates(t) ==
    {C \in SUBSET Recent(t) :
        /\ Cardinality(C) = AtMost(Cardinality(Recent(t)), CandidateLimit)
        /\ \A s \in C, r \in Recent(t) \ C : stories[s].updated >= stories[r].updated}

\* Mutant: the window of the category is not applied again.
MutWarm(t, C) == C

(* The window of a story is that of its own category.                      *)
Warm(t, C) == {s \in C : now[t] - stories[s].updated <= WindowOf[Category[s]]}

(* The newest of the stories with the highest score.                       *)
ScoreOf(t, s) == Score(s, stories[s], ItemOf[t])
Best(t, C) ==
    {s \in C : \A r \in C :
        \/ ScoreOf(t, s) > ScoreOf(t, r)
        \/ ScoreOf(t, s) = ScoreOf(t, r) /\ stories[s].updated >= stories[r].updated}

Init ==
    /\ clock = 0
    /\ stories = [s \in Items |-> NoStory]
    /\ links = [i \in Items |-> NoLink]
    /\ published = {}
    /\ pc = [t \in Tasks |-> "new"]
    /\ now = [t \in Tasks |-> 0]
    /\ read = [t \in Tasks |-> NoRead]
    /\ decision = [t \in Tasks |-> NoDecision]
    /\ raced = {} /\ faults = 0

Goto(t, label) == pc' = [pc EXCEPT ![t] = label]

(* What a task that is over knew is of no consequence.                     *)
End(t) ==
    /\ Goto(t, "done")
    /\ now' = [now EXCEPT ![t] = 0]
    /\ read' = [read EXCEPT ![t] = NoRead]
    /\ decision' = [decision EXCEPT ![t] = NoDecision]

(* process: the time is taken and the item's link is looked for; routine   *)
(* items have no story.                                                    *)
Start(t) ==
    /\ pc[t] = "new"
    /\ now' = [now EXCEPT ![t] = clock]
    /\ Goto(t, IF ItemOf[t] \in Routine THEN "deliver"
               ELSE IF links[ItemOf[t]] # NoLink THEN "rebuild" ELSE "candidates")
    /\ UNCHANGED <<clock, database, read, decision, raced, faults>>

Match(t) ==
    /\ pc[t] = "candidates"
    /\ \E C \in Candidates(t) : \E s \in Best(t, Warm(t, C)) :
          /\ ScoreOf(t, s) >= MatchThreshold
          /\ read' = [read EXCEPT ![t] = [story |-> s, row |-> stories[s]]]
    /\ Goto(t, "link")
    /\ UNCHANGED <<clock, database, now, decision, raced, faults>>

(* Uncertain scores are not linked either.                                 *)
NoMatch(t) ==
    /\ pc[t] = "candidates"
    /\ \E C \in Candidates(t) :
          \A s \in Best(t, Warm(t, C)) : ScoreOf(t, s) < MatchThreshold
    /\ Goto(t, "create")
    /\ UNCHANGED <<clock, database, now, read, decision, raced, faults>>

Decide(t, story, kind, prior) ==
    /\ now' = [now EXCEPT ![t] = 0]
    /\ read' = [read EXCEPT ![t] = NoRead]
    /\ decision' = [decision EXCEPT ![t] =
                       [story |-> story, kind |-> kind, prior |-> prior]]
    /\ Goto(t, "deliver")

\* Mutant: the founding item is counted again with every link.
MutLinkedRow(t, row) ==
    [row EXCEPT !.updated = now[t], !.count = @ + 2, !.latest = ItemOf[t]]

(* The columns _link_to_story writes, computed from the row as read; the   *)
(* published development is not among them.                                *)
LinkedRow(t, row) ==
    [row EXCEPT !.updated = now[t], !.count = read[t].row.count + 1,
                !.latest = ItemOf[t]]

(* _link_to_story: the prior is taken from the row as it was read.         *)
Link(t) ==
    LET i == ItemOf[t]
        s == read[t].story
        kind == Relationship(read[t].row, i)
    IN  /\ pc[t] = "link" /\ links[i] = NoLink
        /\ stories' = [stories EXCEPT ![s] = LinkedRow(t, @)]
        /\ links' = [links EXCEPT ![i] = [story |-> s, kind |-> kind, at |-> now[t]]]
        /\ raced' = IF stories[s].count # read[t].row.count THEN raced \cup {s} ELSE raced
        /\ Decide(t, s, kind, read[t].row.published)
        /\ UNCHANGED <<clock, published, faults>>

Create(t) ==
    LET i == ItemOf[t]
    IN  /\ pc[t] = "create" /\ links[i] = NoLink
        /\ stories' = [stories EXCEPT ![i] =
                          [updated |-> now[t], count |-> 1, latest |-> i,
                           published |-> None]]
        /\ links' = [links EXCEPT ![i] =
                        [story |-> i, kind |-> "NEW_STORY", at |-> now[t]]]
        /\ Decide(t, i, "NEW_STORY", None)
        /\ UNCHANGED <<clock, published, raced, faults>>

\* Mutant: the task keeps the story it wanted to link to.
MutLostRace(t) ==
    /\ pc[t] \in {"link", "create"} /\ links[ItemOf[t]] # NoLink
    /\ Decide(t, read[t].story, "UPDATE", read[t].row.published)
    /\ UNCHANGED <<clock, database, raced, faults>>

(* UNIQUE(news_id): the rollback expires the loaded news row as well, so   *)
(* news.id raises here and again in both except clauses: the task is over. *)
LostRace(t) ==
    /\ pc[t] \in {"link", "create"} /\ links[ItemOf[t]] # NoLink
    /\ End(t)
    /\ UNCHANGED <<clock, database, raced, faults>>

\* Mutant: the guard of the idempotent path is dropped.
MutPriorOf(s, i) == stories[s].published

(* An item is never its own prior.                                         *)
PriorOf(s, i) == IF stories[s].published = i THEN None ELSE stories[s].published

Rebuild(t) ==
    LET i == ItemOf[t]
    IN  /\ pc[t] = "rebuild"
        /\ Decide(t, links[i].story, links[i].kind, PriorOf(links[i].story, i))
        /\ UNCHANGED <<clock, database, raced, faults>>

(* A failure before the first statement is isolated: the item proceeds     *)
(* without a story.                                                        *)
Isolated(t) ==
    /\ pc[t] = "new"
    /\ faults < MaxFaults
    /\ faults' = faults + 1
    /\ Goto(t, "deliver")
    /\ UNCHANGED <<clock, database, now, read, decision, raced>>

(* A failed statement is rolled back, which ends the task like a lost race. *)
StageFails(t) ==
    /\ pc[t] \in {"candidates", "link", "create", "rebuild"}
    /\ faults < MaxFaults
    /\ faults' = faults + 1
    /\ End(t)
    /\ UNCHANGED <<clock, database, raced>>

-----------------------------------------------------------------------------
(* The rest of the background task.  A task that fails for good, or that a *)
(* restart ends, takes no more steps: nothing forces it to.                *)
Publish(t) ==
    /\ pc[t] = "deliver"
    /\ published' = published \cup {ItemOf[t]}
    /\ IF decision[t] = NoDecision
       THEN End(t)
       ELSE Goto(t, "record") /\ UNCHANGED <<now, read, decision>>
    /\ UNCHANGED <<clock, stories, links, raced, faults>>

\* Mutant: the item is promoted before it is published.
MutRecordPublished(t) ==
    /\ pc[t] \in {"deliver", "record"} /\ decision[t] # NoDecision
    /\ stories' = [stories EXCEPT ![decision[t].story].published = ItemOf[t]]
    /\ IF pc[t] = "record" THEN End(t) ELSE UNCHANGED tasks
    /\ UNCHANGED <<clock, links, published, raced, faults>>

RecordPublished(t) ==
    /\ pc[t] = "record"
    /\ stories' = [stories EXCEPT ![decision[t].story].published = ItemOf[t]]
    /\ End(t)
    /\ UNCHANGED <<clock, links, published, raced, faults>>

Tick ==
    /\ clock < MaxClock
    /\ clock' = clock + 1
    /\ UNCHANGED <<database, tasks, raced, faults>>

Done == (\A t \in Tasks : pc[t] = "done") /\ UNCHANGED vars

Process(t) ==
    \/ Start(t) \/ Match(t) \/ NoMatch(t) \/ Link(t) \/ Create(t)
    \/ LostRace(t) \/ Rebuild(t) \/ Isolated(t) \/ StageFails(t)

Next ==
    \/ \E t \in Tasks : Process(t) \/ Publish(t) \/ RecordPublished(t)
    \/ Tick \/ Done

Spec == Init /\ [][Next]_vars

-----------------------------------------------------------------------------
Times == 0 .. MaxClock
Kinds == {"NEW_STORY", "UPDATE", "CORRECTION", "REPETITION"}
StoryRow == [updated : Times, count : Nat \ {0}, latest : Items,
             published : Items \cup {None}]

TypeOK ==
    /\ clock \in Times
    /\ stories \in [Items -> StoryRow \cup {NoStory}]
    /\ links \in [Items -> [story : Items, kind : Kinds, at : Times] \cup {NoLink}]
    /\ published \subseteq Items
    /\ pc \in [Tasks -> {"new", "candidates", "link", "create", "rebuild",
                         "deliver", "record", "done"}]
    /\ now \in [Tasks -> Times]
    /\ read \in [Tasks -> [story : Items, row : StoryRow] \cup {NoRead}]
    /\ decision \in [Tasks -> [story : Items, kind : Kinds,
                               prior : Items \cup {None}] \cup {NoDecision}]
    /\ raced \subseteq Items
    /\ faults \in 0 .. MaxFaults

(* The prior development a reader or the AI is told of was published, is   *)
(* not the item itself, and belongs to the story the item is linked to:    *)
(* whatever was published, linked or repeated between the read and now.    *)
PriorIsPublished ==
    \A t \in Tasks : decision[t].prior # None =>
        /\ decision[t].prior \in published \ {ItemOf[t]}
        /\ links[decision[t].prior].story = decision[t].story

(* Two executions for one item agree with the stored link, so with each    *)
(* other, although both may have chosen a story of their own.              *)
DecisionMatchesLink ==
    \A t \in Tasks : decision[t] # NoDecision =>
        /\ links[ItemOf[t]].story = decision[t].story
        /\ links[ItemOf[t]].kind = decision[t].kind

(* related_news_count is the number of links, and falls behind only where  *)
(* two tasks linked to a story that both had read before.                  *)
CountDriftsOnlyByRaces ==
    \A s \in Founded :
        /\ stories[s].count <= Cardinality(Linked(s))
        /\ s \in raced \/ stories[s].count = Cardinality(Linked(s))

(* No story outlives its window: each item joined it within the hours of   *)
(* its category from the time of another one (models.py:18-21).            *)
StaysWarm ==
    \A s \in Founded : \A i \in Linked(s) \ {s} :
        \E j \in Linked(s) \ {i} : links[i].at - links[j].at <= WindowOf[Category[s]]

(* An economic story of a known country holds no print of another country. *)
CountriesKeptApart ==
    \A s \in Founded : \A i \in Linked(s) :
        Category[s] = EconomicData /\ Category[i] = EconomicData
        /\ Country[s] # None /\ Country[i] # None => Country[i] = Country[s]
=============================================================================
