----------------------------- MODULE StoryProofs -----------------------------
(***************************************************************************)
(* Proofs about Story for any items, tasks, classifications and tokens:    *)
(* type correctness, that decisions agree with the stored links, that a    *)
(* prior development was published in the same story, who belongs to one,  *)
(* and what its count is worth.                                            *)
(***************************************************************************)
EXTENDS Story, FiniteSetTheorems, TLAPS

(* A published development of story s.                                     *)
Development(p, s) == p \in published /\ links[p].story = s

(* A link leads to a story that exists.                                    *)
LinksLead == \A i \in Items : links[i] # NoLink => stories[links[i].story] # NoStory

(* What a story or a reader of it takes for its latest development is one. *)
StoriesTell ==
    \A s \in Items : stories[s].published # None => Development(stories[s].published, s)

ReadersKnow ==
    \A t \in Tasks : pc[t] = "link" =>
        /\ read[t] # NoRead
        /\ stories[read[t].story] # NoStory
        /\ read[t].row.published # None =>
               Development(read[t].row.published, read[t].story)

(* Where a task is says what it holds.                                     *)
Labels ==
    \A t \in Tasks :
        /\ pc[t] = "rebuild" => links[ItemOf[t]] # NoLink
        /\ pc[t] = "record" => decision[t] # NoDecision /\ ItemOf[t] \in published

Inv ==
    /\ TypeOK
    /\ LinksLead
    /\ StoriesTell
    /\ ReadersKnow
    /\ Labels
    /\ DecisionMatchesLink
    /\ PriorIsPublished

LEMMA InitInv == Init => Inv
  <1> SUFFICES ASSUME Init PROVE Inv
    OBVIOUS
  <1> USE StoryAssumption DEF Init
  <1>1. TypeOK
    BY DEF TypeOK, Times
  <1>2. LinksLead /\ StoriesTell /\ ReadersKnow /\ Labels
    BY DEF LinksLead, StoriesTell, ReadersKnow, Labels, NoStory
  <1>3. DecisionMatchesLink /\ PriorIsPublished
    BY DEF DecisionMatchesLink, PriorIsPublished, NoDecision
  <1> QED
    BY <1>1, <1>2, <1>3 DEF Inv

-----------------------------------------------------------------------------
(* The empty values are not values.                                        *)
LEMMA Empties ==
  /\ NoLink \notin [story : Items, kind : Kinds, at : Times]
  /\ NoDecision \notin [story : Items, kind : Kinds, prior : Items \cup {None}]
  /\ NoRead \notin [story : Items, row : StoryRow]
  /\ NoStory \notin StoryRow
  <1>1. None \notin Items
    BY StoryAssumption
  <1>2. \A r \in [story : Items, kind : Kinds, at : Times] : r.story \in Items
    OBVIOUS
  <1>3. \A r \in [story : Items, kind : Kinds, prior : Items \cup {None}] : r.story \in Items
    OBVIOUS
  <1>4. \A r \in [story : Items, row : StoryRow] : r.story \in Items
    OBVIOUS
  <1>5. \A r \in StoryRow : r.latest \in Items
    BY DEF StoryRow
  <1>6. NoLink.story = None /\ NoDecision.story = None /\ NoRead.story = None
        /\ NoStory.latest = None
    BY DEF NoLink, NoDecision, NoRead, NoStory
  <1> QED
    BY <1>1, <1>2, <1>3, <1>4, <1>5, <1>6

(* Links and PUBLISHED are for ever: while they only grow, and the stories *)
(* only gain rows, what was true of them stays true.                       *)
Grow ==
    /\ \A i \in Items : links[i] # NoLink => links'[i] = links[i]
    /\ published \subseteq published'
    /\ \A s \in Items : stories[s] # NoStory => stories'[s] # NoStory

LEMMA GrowKeeps ==
  ASSUME Inv, Grow, NEW p \in Items, NEW s \in Items, Development(p, s)
  PROVE  Development(p, s)'
  <1>1. links[p] # NoLink
    BY StoryAssumption DEF Development, NoLink
  <1> QED
    BY <1>1 DEF Development, Grow

-----------------------------------------------------------------------------
(* Steps that write no table.                                              *)
LEMMA QuietInv ==
  ASSUME Inv, NEW t \in Tasks, Start(t) \/ Match(t) \/ NoMatch(t) \/ Isolated(t)
  PROVE  Inv'
  <1> USE StoryAssumption
  <1>1. /\ stories' = stories /\ links' = links /\ published' = published
        /\ decision' = decision /\ raced' = raced /\ clock' = clock
        /\ \A u \in Tasks \ {t} : pc'[u] = pc[u] /\ read'[u] = read[u]
        /\ pc'[t] \in {"deliver", "rebuild", "candidates", "link", "create"}
        /\ pc' \in [Tasks -> {"new", "candidates", "link", "create", "rebuild",
                              "deliver", "record", "done"}]
        /\ now' \in [Tasks -> Times]
        /\ faults' \in 0 .. MaxFaults
    BY DEF Start, Match, NoMatch, Isolated, Goto, database, Inv, TypeOK, Times
  <1>2. pc'[t] = "rebuild" => links[ItemOf[t]] # NoLink
    BY DEF Start, Match, NoMatch, Isolated, Goto, Inv, TypeOK
  <1>3. \/ read'[t] = read[t] \/ read'[t] = NoRead
        \/ \E s \in Items : stories[s] # NoStory
                            /\ read'[t] = [story |-> s, row |-> stories[s]]
    BY DEF Start, Match, NoMatch, Isolated, Goto, Inv, TypeOK, Candidates,
       Recent, Founded, Warm, Best
  <1>4. pc'[t] = "link" => \E s \in Items : stories[s] # NoStory
                            /\ read'[t] = [story |-> s, row |-> stories[s]]
    BY DEF Start, Match, NoMatch, Isolated, Goto, Inv, TypeOK, Candidates,
       Recent, Founded, Warm, Best
  <1>5. read' \in [Tasks -> [story : Items, row : StoryRow] \cup {NoRead}]
    <2>1. \A s \in Items : stories[s] # NoStory => stories[s] \in StoryRow
      BY DEF Inv, TypeOK
    <2>2. read' = [read EXCEPT ![t] = read'[t]]
      BY DEF Start, Match, NoMatch, Isolated, Inv, TypeOK
    <2>3. read'[t] \in [story : Items, row : StoryRow] \cup {NoRead}
      <3>1. read[t] \in [story : Items, row : StoryRow] \cup {NoRead}
        BY DEF Inv, TypeOK
      <3>2. ASSUME NEW s \in Items, stories[s] # NoStory
            PROVE  [story |-> s, row |-> stories[s]] \in [story : Items, row : StoryRow]
        BY <2>1, <3>2
      <3> QED
        BY <1>3, <3>1, <3>2
    <2> QED
      BY <2>2, <2>3 DEF Inv, TypeOK
  <1>6. TypeOK'
    BY <1>1, <1>5 DEF Inv, TypeOK
  <1>7. LinksLead' /\ StoriesTell' /\ DecisionMatchesLink' /\ PriorIsPublished'
    BY <1>1 DEF Inv, LinksLead, StoriesTell, DecisionMatchesLink, PriorIsPublished,
       Development
  <1>8. Labels'
    BY <1>1, <1>2 DEF Inv, Labels
  <1>9. ReadersKnow'
    <2> SUFFICES ASSUME NEW u \in Tasks, pc'[u] = "link"
                 PROVE  /\ read'[u] # NoRead
                        /\ stories[read'[u].story] # NoStory
                        /\ read'[u].row.published # None =>
                             Development(read'[u].row.published, read'[u].story)
      BY <1>1 DEF ReadersKnow, Development
    <2>1. CASE u = t
      <3>1. PICK s \in Items : stories[s] # NoStory
                               /\ read'[t] = [story |-> s, row |-> stories[s]]
        BY <1>4, <2>1
      <3>2. read'[t].story = s /\ read'[t].row = stories[s] /\ read'[t] # NoRead
        BY <3>1 DEF NoRead
      <3> QED
        BY <2>1, <3>1, <3>2 DEF Inv, StoriesTell
    <2>2. CASE u # t
      BY <1>1, <2>2 DEF Inv, ReadersKnow
    <2> QED
      BY <2>1, <2>2
  <1> QED
    BY <1>6, <1>7, <1>8, <1>9 DEF Inv

(* A decision is made: of the link that is there, with a development of    *)
(* the story that is not the item itself, or none.                         *)
LEMMA DecideInv ==
  ASSUME Inv, NEW t \in Tasks, NEW s \in Items, NEW k \in Kinds,
         NEW p \in Items \cup {None},
         Decide(t, s, k, p), Grow,
         links'[ItemOf[t]].story = s, links'[ItemOf[t]].kind = k,
         p # None => Development(p, s) /\ p # ItemOf[t],
         stories' \in [Items -> StoryRow \cup {NoStory}],
         links' \in [Items -> [story : Items, kind : Kinds, at : Times] \cup {NoLink}],
         raced' \subseteq Items,
         published' = published, clock' = clock, faults' = faults,
         LinksLead', StoriesTell'
  PROVE  Inv'
  <1> USE StoryAssumption
  <1>1. /\ pc'[t] = "deliver" /\ read'[t] = NoRead
        /\ decision'[t] = [story |-> s, kind |-> k, prior |-> p]
        /\ \A u \in Tasks \ {t} : /\ pc'[u] = pc[u] /\ read'[u] = read[u]
                                  /\ decision'[u] = decision[u]
        /\ pc' \in [Tasks -> {"new", "candidates", "link", "create", "rebuild",
                              "deliver", "record", "done"}]
        /\ now' \in [Tasks -> Times]
        /\ read' \in [Tasks -> [story : Items, row : StoryRow] \cup {NoRead}]
        /\ decision' \in [Tasks -> [story : Items, kind : Kinds,
                               prior : Items \cup {None}] \cup {NoDecision}]
    BY DEF Decide, Goto, Inv, TypeOK, Times
  <1>2. TypeOK'
    BY <1>1 DEF Inv, TypeOK
  <1>3. \A u \in Tasks : links[ItemOf[u]] # NoLink
                            => links'[ItemOf[u]] = links[ItemOf[u]]
    BY DEF Grow
  <1>4. Labels'
    BY <1>1, <1>3 DEF Inv, Labels
  <1>5. ReadersKnow'
    <2> SUFFICES ASSUME NEW u \in Tasks, pc'[u] = "link"
                 PROVE  /\ read'[u] # NoRead
                        /\ stories'[read'[u].story] # NoStory
                        /\ read'[u].row.published # None =>
                             Development(read[u].row.published, read[u].story)'
                        /\ read'[u] = read[u]
      BY DEF ReadersKnow, Development
    <2>1. u # t /\ read'[u] = read[u] /\ pc[u] = "link"
      BY <1>1
    <2>2. read[u] # NoRead /\ read[u].story \in Items
          /\ read[u].row.published \in Items \cup {None}
      BY <2>1 DEF Inv, ReadersKnow, TypeOK, StoryRow
    <2> QED
      BY <2>1, <2>2, GrowKeeps DEF Inv, ReadersKnow, Grow
  <1>6. DecisionMatchesLink'
    <2> SUFFICES ASSUME NEW u \in Tasks, decision'[u] # NoDecision
                 PROVE  /\ links'[ItemOf[u]].story = decision'[u].story
                        /\ links'[ItemOf[u]].kind = decision'[u].kind
      BY DEF DecisionMatchesLink
    <2>1. CASE u = t
      BY <1>1, <2>1
    <2>2. CASE u # t
      <3>1. decision[u].story \in Items
        BY <1>1, <2>2 DEF Inv, TypeOK
      <3>2. links[ItemOf[u]] # NoLink
        BY <1>1, <2>2, <3>1 DEF Inv, DecisionMatchesLink, NoLink
      <3> QED
        BY <1>1, <1>3, <2>2, <3>2 DEF Inv, DecisionMatchesLink
    <2> QED
      BY <2>1, <2>2
  <1>7. PriorIsPublished'
    <2> SUFFICES ASSUME NEW u \in Tasks, decision'[u].prior # None
                 PROVE  /\ decision'[u].prior \in published \ {ItemOf[u]}
                        /\ links'[decision'[u].prior].story = decision'[u].story
      BY DEF PriorIsPublished
    <2>1. CASE u = t
      <3>1. decision'[t].prior = p /\ decision'[t].story = s
        BY <1>1
      <3> QED
        BY <2>1, <3>1, GrowKeeps DEF Development
    <2>2. CASE u # t
      <3>1. decision[u].prior # None /\ decision'[u] = decision[u]
        BY <1>1, <2>2
      <3>2. decision[u].prior \in Items /\ decision[u].story \in Items
        BY <3>1 DEF Inv, TypeOK, NoDecision
      <3>3. Development(decision[u].prior, decision[u].story)
            /\ decision[u].prior # ItemOf[u]
        BY <3>1 DEF Inv, PriorIsPublished, Development
      <3> QED
        BY <3>1, <3>2, <3>3, GrowKeeps DEF Development
    <2> QED
      BY <2>1, <2>2
  <1> QED
    BY <1>2, <1>4, <1>5, <1>6, <1>7 DEF Inv

LEMMA LinkInv ==
  ASSUME Inv, NEW t \in Tasks, Link(t)
  PROVE  Inv'
  <1> USE StoryAssumption
  <1> DEFINE i == ItemOf[t]
             s == read[t].story
             p == read[t].row.published
             k == Relationship(read[t].row, i)
             row == LinkedRow(t, stories[s])
  <1>1. /\ pc[t] = "link" /\ links[i] = NoLink /\ i \in Items
        /\ stories' = [stories EXCEPT ![s] = row]
        /\ links' = [links EXCEPT ![i] = [story |-> s, kind |-> k, at |-> now[t]]]
        /\ Decide(t, s, k, p)
        /\ clock' = clock /\ published' = published /\ faults' = faults
    BY DEF Link
  <1>2. /\ s \in Items /\ stories[s] \in StoryRow /\ read[t].row \in StoryRow
        /\ p # None => Development(p, s)
        /\ p \in Items \cup {None} /\ k \in Kinds /\ now[t] \in Times
    <2>1. read[t] \in [story : Items, row : StoryRow]
      BY <1>1 DEF Inv, ReadersKnow, TypeOK
    <2>2. k \in Kinds
      BY DEF Relationship, Kinds
    <2>3. read[t].row.published \in Items \cup {None}
      BY <2>1 DEF StoryRow
    <2> QED
      BY <1>1, <2>1, <2>2, <2>3 DEF Inv, ReadersKnow, TypeOK
  <1>3. row \in StoryRow /\ row.published = stories[s].published
    <2>1. read[t].row.count + 1 \in Nat \ {0}
      BY <1>2 DEF StoryRow
    <2> QED
      BY <1>1, <1>2, <2>1 DEF LinkedRow, StoryRow
  <1>4. raced' \subseteq Items
    <2>1. raced' = raced \/ raced' = raced \cup {s}
      BY DEF Link
    <2> QED
      BY <1>2, <2>1 DEF Inv, TypeOK
  <1>5. /\ stories' \in [Items -> StoryRow \cup {NoStory}]
        /\ \A r \in Items : stories'[r].published = stories[r].published
        /\ \A r \in Items : stories[r] # NoStory => stories'[r] # NoStory
        /\ stories'[s] # NoStory
    BY <1>1, <1>2, <1>3, Empties DEF Inv, TypeOK
  <1>6. /\ links' \in [Items -> [story : Items, kind : Kinds, at : Times] \cup {NoLink}]
        /\ links'[i].story = s /\ links'[i].kind = k
        /\ \A j \in Items \ {i} : links'[j] = links[j]
    BY <1>1, <1>2 DEF Inv, TypeOK
  <1>7. Grow
    BY <1>1, <1>5, <1>6 DEF Grow
  <1>8. p # None => p # i
    BY <1>1, <1>2 DEF Development, NoLink
  <1>9. LinksLead'
    BY <1>5, <1>6 DEF Inv, LinksLead
  <1>10. StoriesTell'
    <2> SUFFICES ASSUME NEW r \in Items, stories'[r].published # None
                 PROVE  Development(stories[r].published, r)'
                        /\ stories'[r].published = stories[r].published
      BY DEF StoriesTell, Development
    <2>1. stories[r].published \in Items /\ Development(stories[r].published, r)
      BY <1>5 DEF Inv, StoriesTell, TypeOK, StoryRow, NoStory
    <2> QED
      BY <1>5, <1>7, <2>1, GrowKeeps
  <1> HIDE DEF i, s, p, k, row
  <1> QED
    BY <1>1, <1>2, <1>4, <1>5, <1>6, <1>7, <1>8, <1>9, <1>10, DecideInv DEF i

LEMMA CreateInv ==
  ASSUME Inv, NEW t \in Tasks, Create(t)
  PROVE  Inv'
  <1> USE StoryAssumption
  <1> DEFINE i == ItemOf[t]
             row == [updated |-> now[t], count |-> 1, latest |-> i, published |-> None]
  <1>1. /\ links[i] = NoLink /\ i \in Items /\ raced' = raced
        /\ stories' = [stories EXCEPT ![i] = row]
        /\ links' = [links EXCEPT ![i] = [story |-> i, kind |-> "NEW_STORY", at |-> now[t]]]
        /\ Decide(t, i, "NEW_STORY", None)
        /\ clock' = clock /\ published' = published /\ faults' = faults
    BY DEF Create
  <1>2. now[t] \in Times /\ row \in StoryRow /\ row.published = None
        /\ "NEW_STORY" \in Kinds
    BY <1>1 DEF Inv, TypeOK, StoryRow, Kinds
  <1>3. /\ stories' \in [Items -> StoryRow \cup {NoStory}]
        /\ \A r \in Items \ {i} : stories'[r] = stories[r]
        /\ stories'[i] = row /\ stories'[i] # NoStory
    BY <1>1, <1>2, Empties DEF Inv, TypeOK
  <1>4. /\ links' \in [Items -> [story : Items, kind : Kinds, at : Times] \cup {NoLink}]
        /\ links'[i].story = i /\ links'[i].kind = "NEW_STORY"
        /\ \A j \in Items \ {i} : links'[j] = links[j]
    BY <1>1, <1>2 DEF Inv, TypeOK
  <1>5. Grow
    BY <1>1, <1>3, <1>4 DEF Grow
  <1>6. LinksLead'
    BY <1>3, <1>4 DEF Inv, LinksLead
  <1>7. StoriesTell'
    <2> SUFFICES ASSUME NEW r \in Items, stories'[r].published # None
                 PROVE  Development(stories[r].published, r)'
                        /\ stories'[r].published = stories[r].published
      BY DEF StoriesTell, Development
    <2>1. r # i /\ stories'[r] = stories[r]
      BY <1>2, <1>3
    <2>2. stories[r].published \in Items /\ Development(stories[r].published, r)
      BY <2>1 DEF Inv, StoriesTell, TypeOK, StoryRow, NoStory
    <2> QED
      BY <1>5, <2>1, <2>2, GrowKeeps
  <1>8. raced' \subseteq Items
    BY <1>1 DEF Inv, TypeOK
  <1> HIDE DEF i, row
  <1> QED
    BY <1>1, <1>2, <1>3, <1>4, <1>5, <1>6, <1>7, <1>8, DecideInv DEF i

LEMMA RebuildInv ==
  ASSUME Inv, NEW t \in Tasks, Rebuild(t)
  PROVE  Inv'
  <1> USE StoryAssumption
  <1> DEFINE i == ItemOf[t]
             s == links[i].story
             k == links[i].kind
             p == PriorOf(s, i)
  <1>1. /\ links[i] # NoLink /\ i \in Items /\ raced' = raced
        /\ stories' = stories /\ links' = links /\ published' = published
        /\ Decide(t, s, k, p)
        /\ clock' = clock /\ faults' = faults
    BY DEF Rebuild, database, Inv, Labels
  <1>2. s \in Items /\ k \in Kinds
    BY <1>1 DEF Inv, TypeOK
  <1>3. stories[s].published \in Items \cup {None}
    BY <1>2 DEF Inv, TypeOK, StoryRow, NoStory
  <1>4. p \in Items \cup {None} /\ (p # None => Development(p, s) /\ p # i)
    BY <1>2, <1>3 DEF PriorOf, Inv, StoriesTell
  <1>5. Grow /\ LinksLead' /\ StoriesTell'
    BY <1>1 DEF Grow, Inv, LinksLead, StoriesTell, Development
  <1>6. /\ stories' \in [Items -> StoryRow \cup {NoStory}]
        /\ links' \in [Items -> [story : Items, kind : Kinds, at : Times] \cup {NoLink}]
        /\ raced' \subseteq Items
    BY <1>1 DEF Inv, TypeOK
  <1>7. links'[i].story = s /\ links'[i].kind = k
    BY <1>1
  <1> HIDE DEF i, s, k, p
  <1> QED
    BY <1>1, <1>2, <1>4, <1>5, <1>6, <1>7, DecideInv DEF i

(* After the decision: the item is published, and promoted; or the stage    *)
(* failed and there is none.                                                *)
LEMMA DeliverInv ==
  ASSUME Inv, NEW t \in Tasks,
         Publish(t) \/ RecordPublished(t) \/ LostRace(t) \/ StageFails(t)
  PROVE  Inv'
  <1> USE StoryAssumption
  <1> DEFINE s == decision[t].story
             i == ItemOf[t]
  <1>1. /\ i \in Items /\ links' = links /\ raced' = raced /\ clock' = clock
        /\ faults' \in 0 .. MaxFaults
        /\ published \subseteq published' /\ published' \subseteq published \cup {i}
        /\ \A u \in Tasks \ {t} : /\ pc'[u] = pc[u] /\ read'[u] = read[u]
                                  /\ decision'[u] = decision[u]
        /\ pc'[t] \in {"done", "record"}
        /\ pc'[t] = "record" => decision[t] # NoDecision /\ i \in published'
        /\ decision'[t] = decision[t] \/ decision'[t] = NoDecision
        /\ pc' \in [Tasks -> {"new", "candidates", "link", "create", "rebuild",
                              "deliver", "record", "done"}]
        /\ now' \in [Tasks -> Times]
        /\ read' \in [Tasks -> [story : Items, row : StoryRow] \cup {NoRead}]
        /\ decision' \in [Tasks -> [story : Items, kind : Kinds,
                               prior : Items \cup {None}] \cup {NoDecision}]
        /\ pc'[t] = "record" => decision'[t] = decision[t]
    BY DEF Publish, RecordPublished, LostRace, StageFails, database, End, Goto, Inv, TypeOK, Times
  <1>2. \/ stories' = stories
        \/ /\ s \in Items /\ i \in published /\ links[i].story = s
           /\ stories[s] \in StoryRow
           /\ stories' = [stories EXCEPT ![s].published = i]
    <2>1. CASE Publish(t) \/ LostRace(t) \/ StageFails(t)
      BY <2>1 DEF Publish, LostRace, StageFails, database
    <2>2. CASE RecordPublished(t)
      <3>1. decision[t] # NoDecision /\ i \in published /\ pc[t] = "record"
        BY <2>2 DEF RecordPublished, Inv, Labels
      <3>2. s \in Items /\ links[i].story = s
        BY <3>1 DEF Inv, TypeOK, DecisionMatchesLink
      <3>3. links[i] # NoLink
        BY <3>2 DEF NoLink
      <3>4. stories[s] \in StoryRow
        BY <1>1, <3>2, <3>3 DEF Inv, LinksLead, TypeOK
      <3> QED
        BY <2>2, <3>1, <3>2, <3>4 DEF RecordPublished
    <2> QED
      BY <2>1, <2>2
  <1>3. /\ stories' \in [Items -> StoryRow \cup {NoStory}]
        /\ \A r \in Items : stories[r] # NoStory => stories'[r] # NoStory
        /\ \A r \in Items : \/ stories'[r] = stories[r]
                            \/ r = s /\ stories'[r].published = i
                               /\ i \in published /\ links[i].story = s
    <2>1. CASE stories' = stories
      BY <2>1 DEF Inv, TypeOK
    <2>2. CASE stories' # stories
      <3> DEFINE row == [stories[s] EXCEPT !.published = i]
      <3>1. /\ s \in Items /\ i \in published /\ links[i].story = s
            /\ stories[s] \in StoryRow
            /\ stories' = [stories EXCEPT ![s] = row]
        BY <1>2, <2>2
      <3>2. row \in StoryRow /\ row.published = i
        BY <1>1, <3>1 DEF StoryRow
      <3> HIDE DEF row
      <3> QED
        BY <3>1, <3>2, Empties DEF Inv, TypeOK
    <2> QED
      BY <2>1, <2>2
  <1>4. published' \subseteq Items
    BY <1>1 DEF Inv, TypeOK
  <1>5. TypeOK'
    BY <1>1, <1>3, <1>4 DEF Inv, TypeOK
  <1>6. Grow
    BY <1>1, <1>3 DEF Grow
  <1>7. LinksLead' /\ Labels'
    BY <1>1, <1>3 DEF Inv, LinksLead, Labels, TypeOK
  <1>8. StoriesTell'
    BY <1>1, <1>3 DEF Inv, StoriesTell, Development
  <1>9. ReadersKnow'
    <2> SUFFICES ASSUME NEW u \in Tasks, pc'[u] = "link"
                 PROVE  /\ read'[u] # NoRead
                        /\ stories'[read'[u].story] # NoStory
                        /\ read'[u].row.published # None =>
                             Development(read[u].row.published, read[u].story)'
                        /\ read'[u] = read[u]
      BY DEF ReadersKnow, Development
    <2>1. u # t /\ read'[u] = read[u] /\ pc[u] = "link"
      BY <1>1
    <2>2. read[u] # NoRead /\ read[u].story \in Items
          /\ read[u].row.published \in Items \cup {None}
      BY <2>1 DEF Inv, ReadersKnow, TypeOK, StoryRow
    <2> QED
      BY <1>6, <2>1, <2>2, GrowKeeps DEF Inv, ReadersKnow, Grow
  <1>10. DecisionMatchesLink' /\ PriorIsPublished'
    BY <1>1 DEF Inv, DecisionMatchesLink, PriorIsPublished, NoDecision
  <1> QED
    BY <1>5, <1>7, <1>8, <1>9, <1>10 DEF Inv

LEMMA RestInv ==
  ASSUME Inv, Tick \/ UNCHANGED vars
  PROVE  Inv'
  <1>1. clock' \in Times /\ UNCHANGED <<database, tasks, raced, faults>>
    BY StoryAssumption DEF Tick, vars, Inv, TypeOK, Times
  <1> QED
    BY <1>1 DEF database, tasks, Inv, TypeOK, LinksLead, StoriesTell, ReadersKnow,
       Labels, DecisionMatchesLink, PriorIsPublished, Development

LEMMA NextInv == Inv /\ [Next]_vars => Inv'
  BY QuietInv, LinkInv, CreateInv, RebuildInv, DeliverInv, RestInv
  DEF Next, Process, Done

(* The inductive invariant holds in every reachable state.                 *)
THEOREM InvHolds == Spec => []Inv
  BY InitInv, NextInv, PTL DEF Spec

(* Every variable keeps its type.                                          *)
THEOREM TypeCorrect == Spec => []TypeOK
  BY InvHolds, PTL DEF Inv

(* The prior development of a decision is another, published item of the   *)
(* same story, however the tasks interleave.                               *)
THEOREM PriorPublished == Spec => []PriorIsPublished
  BY InvHolds, PTL DEF Inv

(* Decisions agree with the stored link of their item.                     *)
THEOREM DecisionsMatch == Spec => []DecisionMatchesLink
  BY InvHolds, PTL DEF Inv
-----------------------------------------------------------------------------
(* Who belongs to a story.  A row names the last item that was linked and  *)
(* when; so a reader that finds the row warm and its item not in conflict  *)
(* links within the window of an item that is linked already.              *)
Near(i, s) == \E j \in Items \ {i} :
                 /\ links[j].story = s
                 /\ links[i].at - links[j].at <= WindowOf[Category[s]]

MembersBelong ==
    \A i \in Items : links[i] # NoLink =>
        /\ ~Conflicting(links[i].story, i)
        /\ links[i].story # i => Near(i, links[i].story)

(* The row tells who was linked last.                                      *)
Names(row, s) == /\ links[row.latest].story = s
                 /\ links[row.latest].at = row.updated

RowsName == \A s \in Items : stories[s] # NoStory => Names(stories[s], s)

ReadersMatch ==
    \A t \in Tasks : pc[t] = "link" =>
        /\ Names(read[t].row, read[t].story)
        /\ now[t] - read[t].row.updated <= WindowOf[Category[read[t].story]]
        /\ ~Conflicting(read[t].story, ItemOf[t])

MembersInv == MembersBelong /\ RowsName /\ ReadersMatch

LEMMA InitMembers == Init => MembersInv
  BY StoryAssumption DEF Init, MembersInv, MembersBelong, RowsName, ReadersMatch

(* What a row named stays linked as it was.                                *)
LEMMA NamesKept ==
  ASSUME Inv, NEW s \in Items, NEW row \in StoryRow, Names(row, s), Grow
  PROVE  Names(row, s)' /\ row.latest \in Items /\ links[row.latest] # NoLink
  <1>1. row.latest \in Items
    BY DEF StoryRow
  <1>2. links[row.latest] # NoLink
    BY StoryAssumption DEF Names, NoLink
  <1> QED
    BY <1>1, <1>2 DEF Names, Grow

(* Steps that leave the links alone, and of the rows all but what was      *)
(* published.                                                              *)
LEMMA QuietMembers ==
  ASSUME Inv, MembersInv, links' = links,
         \A s \in Items : stories'[s] # NoStory =>
             /\ stories[s] # NoStory
             /\ stories'[s].latest = stories[s].latest
             /\ stories'[s].updated = stories[s].updated,
         ReadersMatch'
  PROVE  MembersInv'
  <1>1. MembersBelong'
    BY DEF MembersInv, MembersBelong, Near
  <1>2. RowsName'
    BY DEF MembersInv, RowsName, Names
  <1> QED
    BY <1>1, <1>2 DEF MembersInv

LEMMA MatchMembers ==
  ASSUME Inv, MembersInv, NEW t \in Tasks, Match(t)
  PROVE  MembersInv'
  <1> USE StoryAssumption
  <1>1. /\ stories' = stories /\ links' = links /\ now' = now
        /\ \A u \in Tasks \ {t} : pc'[u] = pc[u] /\ read'[u] = read[u]
    BY DEF Match, Goto, database, Inv, TypeOK
  <1>2. PICK s \in Items :
          /\ stories[s] # NoStory /\ ScoreOf(t, s) >= MatchThreshold
          /\ now[t] - stories[s].updated <= WindowOf[Category[s]]
          /\ read'[t] = [story |-> s, row |-> stories[s]]
    BY DEF Match, Inv, TypeOK, Candidates, Recent, Founded, Warm, Best
  <1>3. ~Conflicting(s, ItemOf[t])
    BY <1>2 DEF ScoreOf, Score, MatchThreshold
  <1>4. read'[t].story = s /\ read'[t].row = stories[s] /\ Names(stories[s], s)
    BY <1>2 DEF MembersInv, RowsName
  <1>5. ReadersMatch'
    <2> SUFFICES ASSUME NEW u \in Tasks, pc'[u] = "link"
                 PROVE  /\ links[read'[u].row.latest].story = read'[u].story
                        /\ links[read'[u].row.latest].at = read'[u].row.updated
                        /\ now[u] - read'[u].row.updated <= WindowOf[Category[read'[u].story]]
                        /\ ~Conflicting(read'[u].story, ItemOf[u])
      BY <1>1 DEF ReadersMatch, Names, Conflicting
    <2>1. CASE u = t
      BY <1>2, <1>3, <1>4, <2>1 DEF Names
    <2>2. CASE u # t
      BY <1>1, <2>2 DEF MembersInv, ReadersMatch, Names
    <2> QED
      BY <2>1, <2>2
  <1> QED
    BY <1>1, <1>5, QuietMembers

(* The steps of a task that neither matches nor links.                     *)
LEMMA OtherMembers ==
  ASSUME Inv, MembersInv, NEW t \in Tasks,
         \/ Start(t) \/ NoMatch(t) \/ Isolated(t) \/ Rebuild(t)
         \/ Publish(t) \/ RecordPublished(t) \/ LostRace(t) \/ StageFails(t)
  PROVE  MembersInv'
  <1>1. /\ links' = links
        /\ pc'[t] # "link"
        /\ \A u \in Tasks \ {t} : /\ pc'[u] = pc[u] /\ read'[u] = read[u]
                                  /\ now'[u] = now[u]
    BY DEF Start, NoMatch, Isolated, Rebuild, Publish, RecordPublished, LostRace,
       StageFails, Decide, End, Goto, database, Inv, TypeOK
  <1>2. ReadersMatch'
    BY <1>1 DEF MembersInv, ReadersMatch, Names
  <1>3. \/ stories' = stories
        \/ /\ RecordPublished(t)
           /\ stories' = [stories EXCEPT ![decision[t].story].published = ItemOf[t]]
    BY DEF Start, NoMatch, Isolated, Rebuild, Publish, RecordPublished, LostRace,
       StageFails, database
  <1>4. ASSUME NEW s \in Items, stories'[s] # NoStory
        PROVE  /\ stories[s] # NoStory
               /\ stories'[s].latest = stories[s].latest
               /\ stories'[s].updated = stories[s].updated
    <2>1. CASE stories' = stories
      BY <1>4, <2>1
    <2>2. CASE stories' # stories
      <3> DEFINE d == decision[t].story
      <3>1. /\ decision[t] # NoDecision
            /\ stories' = [stories EXCEPT ![d].published = ItemOf[t]]
        BY <1>3, <2>2 DEF RecordPublished, Inv, Labels
      <3>2. d \in Items /\ links[ItemOf[t]].story = d
        BY <3>1 DEF Inv, TypeOK, DecisionMatchesLink
      <3>3. stories[d] # NoStory
        BY <3>2, StoryAssumption DEF Inv, LinksLead, NoLink
      <3>4. stories[d] \in StoryRow
        BY <3>2, <3>3 DEF Inv, TypeOK
      <3>5. /\ [stories[d] EXCEPT !.published = ItemOf[t]].latest = stories[d].latest
            /\ [stories[d] EXCEPT !.published = ItemOf[t]].updated = stories[d].updated
        BY <3>4 DEF StoryRow
      <3>6. CASE s = d
        BY <3>1, <3>2, <3>3, <3>5, <3>6 DEF Inv, TypeOK
      <3>7. CASE s # d
        BY <1>4, <3>1, <3>7 DEF Inv, TypeOK
      <3> QED
        BY <3>6, <3>7
    <2> QED
      BY <2>1, <2>2
  <1> QED
    BY <1>1, <1>2, <1>4, QuietMembers

(* A step that links item i to story s: the row of s then names i, and     *)
(* what was linked before stays as it was.                                 *)
LEMMA JoinMembers ==
  ASSUME Inv, MembersInv, Grow, NEW t \in Tasks, NEW s \in Items,
         links[ItemOf[t]] = NoLink, links'[ItemOf[t]] # NoLink,
         links'[ItemOf[t]].story = s, links'[ItemOf[t]].at = now[t],
         \A j \in Items \ {ItemOf[t]} : links'[j] = links[j],
         stories'[s].latest = ItemOf[t], stories'[s].updated = now[t],
         \A r \in Items \ {s} : stories'[r] = stories[r],
         pc'[t] # "link",
         \A u \in Tasks \ {t} : /\ pc'[u] = pc[u] /\ read'[u] = read[u]
                                /\ now'[u] = now[u],
         ~Conflicting(s, ItemOf[t]),
         s # ItemOf[t] => \E j \in Items \ {ItemOf[t]} :
                             /\ links'[j].story = s
                             /\ now[t] - links'[j].at <= WindowOf[Category[s]]
  PROVE  MembersInv'
  <1> USE StoryAssumption
  <1>1. ItemOf[t] \in Items
    OBVIOUS
  <1>2. MembersBelong'
    <2> SUFFICES ASSUME NEW i \in Items, links'[i] # NoLink
                 PROVE  /\ ~Conflicting(links'[i].story, i)
                        /\ links'[i].story # i => Near(i, links[i].story)'
      BY DEF MembersBelong, Conflicting
    <2>1. CASE i = ItemOf[t]
      BY <2>1 DEF Near
    <2>2. CASE i # ItemOf[t]
      <3>1. links[i] # NoLink /\ links'[i] = links[i]
        BY <2>2
      <3>2. links[i].story \in Items
        BY <3>1 DEF Inv, TypeOK
      <3>3. ASSUME links[i].story # i
            PROVE  Near(i, links[i].story)'
        <4>1. PICK j \in Items \ {i} :
                /\ links[j].story = links[i].story
                /\ links[i].at - links[j].at <= WindowOf[Category[links[i].story]]
          BY <3>1, <3>3 DEF MembersInv, MembersBelong, Near
        <4>2. links'[j] = links[j]
          BY <3>2, <4>1 DEF Grow, NoLink
        <4> QED
          BY <3>1, <4>1, <4>2 DEF Near
      <3> QED
        BY <3>1, <3>3 DEF MembersInv, MembersBelong
    <2> QED
      BY <2>1, <2>2
  <1>3. RowsName'
    <2> SUFFICES ASSUME NEW r \in Items, stories'[r] # NoStory
                 PROVE  /\ links'[stories'[r].latest].story = r
                        /\ links'[stories'[r].latest].at = stories'[r].updated
      BY DEF RowsName, Names
    <2>1. CASE r = s
      BY <2>1
    <2>2. CASE r # s
      <3>1. stories'[r] = stories[r] /\ Names(stories[r], r) /\ stories[r] \in StoryRow
        BY <2>2 DEF MembersInv, RowsName, Inv, TypeOK
      <3> QED
        BY <3>1, NamesKept DEF Names
    <2> QED
      BY <2>1, <2>2
  <1>4. ReadersMatch'
    <2> SUFFICES ASSUME NEW u \in Tasks, pc'[u] = "link"
                 PROVE  /\ links'[read'[u].row.latest].story = read'[u].story
                        /\ links'[read'[u].row.latest].at = read'[u].row.updated
                        /\ now'[u] - read'[u].row.updated <= WindowOf[Category[read'[u].story]]
                        /\ ~Conflicting(read'[u].story, ItemOf[u])
      BY DEF ReadersMatch, Names, Conflicting
    <2>1. u # t /\ pc[u] = "link" /\ read'[u] = read[u] /\ now'[u] = now[u]
      OBVIOUS
    <2>2. read[u].story \in Items /\ read[u].row \in StoryRow
      BY <2>1 DEF Inv, ReadersKnow, TypeOK
    <2>3. Names(read[u].row, read[u].story)
          /\ now[u] - read[u].row.updated <= WindowOf[Category[read[u].story]]
          /\ ~Conflicting(read[u].story, ItemOf[u])
      BY <2>1 DEF MembersInv, ReadersMatch
    <2>4. Names(read[u].row, read[u].story)'
          => /\ links'[read'[u].row.latest].story = read'[u].story
             /\ links'[read'[u].row.latest].at = read'[u].row.updated
      BY <2>1 DEF Names
    <2>5. /\ links'[read[u].row.latest].story = read[u].story
          /\ links'[read[u].row.latest].at = read[u].row.updated
      <3>1. read[u].row.latest \in Items /\ links[read[u].row.latest] # NoLink
        BY <2>2, <2>3, NamesKept
      <3>2. links'[read[u].row.latest] = links[read[u].row.latest]
        BY <3>1 DEF Grow
      <3> QED
        BY <2>3, <3>2 DEF Names
    <2> QED
      BY <2>1, <2>3, <2>5
  <1> QED
    BY <1>2, <1>3, <1>4 DEF MembersInv

LEMMA LinkMembers ==
  ASSUME Inv, MembersInv, NEW t \in Tasks, Link(t)
  PROVE  MembersInv'
  <1> USE StoryAssumption
  <1> DEFINE i == ItemOf[t]
             s == read[t].story
             row == LinkedRow(t, stories[s])
  <1>1. /\ pc[t] = "link" /\ links[i] = NoLink /\ i \in Items
        /\ stories' = [stories EXCEPT ![s] = row]
        /\ links' = [links EXCEPT ![i] =
               [story |-> s, kind |-> Relationship(read[t].row, i), at |-> now[t]]]
        /\ Decide(t, s, Relationship(read[t].row, i), read[t].row.published)
        /\ published' = published
    BY DEF Link
  <1>2. /\ s \in Items /\ stories[s] \in StoryRow /\ read[t].row \in StoryRow
        /\ Names(read[t].row, s) /\ ~Conflicting(s, i)
        /\ now[t] - read[t].row.updated <= WindowOf[Category[s]]
    BY <1>1 DEF Inv, ReadersKnow, TypeOK, MembersInv, ReadersMatch
  <1>3. row.latest = i /\ row.updated = now[t] /\ row \in StoryRow
    <2>1. read[t].row.count + 1 \in Nat \ {0}
      BY <1>2 DEF StoryRow
    <2>2. now[t] \in Times
      BY DEF Inv, TypeOK
    <2> QED
      BY <1>1, <1>2, <2>1, <2>2 DEF LinkedRow, StoryRow
  <1>4. /\ stories'[s] = row
        /\ \A r \in Items \ {s} : stories'[r] = stories[r]
        /\ links'[i] = [story |-> s, kind |-> Relationship(read[t].row, i), at |-> now[t]]
        /\ \A j \in Items \ {i} : links'[j] = links[j]
    BY <1>1, <1>2 DEF Inv, TypeOK
  <1>5. links'[i].story = s /\ links'[i].at = now[t] /\ links'[i] # NoLink
    BY <1>2, <1>4 DEF NoLink
  <1>6. Grow
    BY <1>1, <1>2, <1>3, <1>4, Empties DEF Grow
  <1>7. pc'[t] # "link"
        /\ \A u \in Tasks \ {t} : /\ pc'[u] = pc[u] /\ read'[u] = read[u]
                                  /\ now'[u] = now[u]
    BY <1>1 DEF Decide, Goto, Inv, TypeOK
  <1>8. \E m \in Items \ {i} : /\ links'[m].story = s
                               /\ now[t] - links'[m].at <= WindowOf[Category[s]]
    <2> DEFINE j == read[t].row.latest
    <2>1. j \in Items /\ links[j] # NoLink
      BY <1>2, <1>6, NamesKept
    <2>2. j # i /\ links'[j] = links[j]
      BY <1>1, <1>4, <2>1
    <2>3. links'[j].story = s /\ links'[j].at = read[t].row.updated
      BY <1>2, <2>2 DEF Names
    <2> HIDE DEF j
    <2> QED
      BY <1>2, <2>1, <2>2, <2>3
  <1> HIDE DEF s, row
  <1> QED
    BY <1>1, <1>2, <1>3, <1>4, <1>5, <1>6, <1>7, <1>8, JoinMembers DEF i

LEMMA CreateMembers ==
  ASSUME Inv, MembersInv, NEW t \in Tasks, Create(t)
  PROVE  MembersInv'
  <1> USE StoryAssumption
  <1> DEFINE i == ItemOf[t]
             row == [updated |-> now[t], count |-> 1, latest |-> i, published |-> None]
  <1>1. /\ links[i] = NoLink /\ i \in Items
        /\ stories' = [stories EXCEPT ![i] = row]
        /\ links' = [links EXCEPT ![i] = [story |-> i, kind |-> "NEW_STORY", at |-> now[t]]]
        /\ Decide(t, i, "NEW_STORY", None)
        /\ published' = published
    BY DEF Create
  <1>2. /\ stories'[i] = row
        /\ \A r \in Items \ {i} : stories'[r] = stories[r]
        /\ links'[i] = [story |-> i, kind |-> "NEW_STORY", at |-> now[t]]
        /\ \A j \in Items \ {i} : links'[j] = links[j]
    BY <1>1 DEF Inv, TypeOK
  <1>3. /\ stories'[i].latest = i /\ stories'[i].updated = now[t]
        /\ links'[i].story = i /\ links'[i].at = now[t]
        /\ links'[i] # NoLink /\ stories'[i] # NoStory
    BY <1>1, <1>2 DEF NoLink, NoStory
  <1>4. Grow
    BY <1>1, <1>2, <1>3 DEF Grow
  <1>5. pc'[t] # "link"
        /\ \A u \in Tasks \ {t} : /\ pc'[u] = pc[u] /\ read'[u] = read[u]
                                  /\ now'[u] = now[u]
    BY <1>1 DEF Decide, Goto, Inv, TypeOK
  <1>6. ~Conflicting(i, i)
    BY DEF Conflicting
  <1> HIDE DEF row
  <1> QED
    BY <1>1, <1>2, <1>3, <1>4, <1>5, <1>6, JoinMembers DEF i

LEMMA NextMembers == Inv /\ MembersInv /\ [Next]_vars => MembersInv'
  <1> SUFFICES ASSUME Inv, MembersInv, [Next]_vars PROVE MembersInv'
    OBVIOUS
  <1>1. CASE Tick \/ UNCHANGED vars
    <2>1. UNCHANGED <<database, tasks>>
      BY <1>1 DEF Tick, vars
    <2> QED
      BY <2>1 DEF database, tasks, MembersInv, MembersBelong, Near, RowsName,
         ReadersMatch, Names, Conflicting
  <1>2. CASE \E t \in Tasks : Process(t) \/ Publish(t) \/ RecordPublished(t)
    BY <1>2, MatchMembers, OtherMembers, LinkMembers, CreateMembers DEF Process
  <1> QED
    BY <1>1, <1>2 DEF Next, Done

LEMMA Membership == Spec => []MembersInv
  BY InitMembers, InvHolds, NextMembers, PTL DEF Spec

(* No story outlives its window: whoever joined it found another of its    *)
(* items within the hours of its category, however stale the row it read.  *)
THEOREM WarmStories == Spec => []StaysWarm
  <1>1. Inv /\ MembersInv => StaysWarm
    <2> SUFFICES ASSUME Inv, MembersInv, NEW s \in Items, NEW i \in Items,
                        links[i].story = s, i # s
                 PROVE  \E j \in Linked(s) \ {i} :
                            links[i].at - links[j].at <= WindowOf[Category[s]]
      BY DEF StaysWarm, Founded, Linked
    <2>1. links[i] # NoLink
      BY StoryAssumption DEF NoLink
    <2>2. PICK j \in Items \ {i} :
            /\ links[j].story = s
            /\ links[i].at - links[j].at <= WindowOf[Category[s]]
      BY <2>1 DEF MembersInv, MembersBelong, Near
    <2> QED
      BY <2>2 DEF Linked
  <1> QED
    BY <1>1, InvHolds, Membership, PTL

(* An economic story of a known country holds no print of another one,     *)
(* although each task decided on a row that may be stale.                  *)
THEOREM CountriesApart == Spec => []CountriesKeptApart
  <1>1. Inv /\ MembersInv => CountriesKeptApart
    <2> SUFFICES ASSUME Inv, MembersInv, NEW s \in Items, NEW i \in Items,
                        links[i].story = s,
                        Category[s] = EconomicData, Category[i] = EconomicData,
                        Country[s] # None, Country[i] # None
                 PROVE  Country[i] = Country[s]
      BY DEF CountriesKeptApart, Founded, Linked
    <2>1. links[i] # NoLink
      BY StoryAssumption DEF NoLink
    <2> QED
      BY <2>1 DEF MembersInv, MembersBelong, Conflicting
  <1> QED
    BY <1>1, InvHolds, Membership, PTL
-----------------------------------------------------------------------------
(* The counts.                                                             *)

(* A founder is linked.  A count never exceeds the links, for the row that *)
(* a reader holds no more than for the row that is stored.                 *)
RowCounts(s) ==
    stories[s] # NoStory =>
        /\ links[s] # NoLink
        /\ stories[s].count <= Cardinality(Linked(s))
        /\ s \in raced \/ stories[s].count = Cardinality(Linked(s))
ReaderCounts(t) ==
    pc[t] = "link" => read[t].row.count <= Cardinality(Linked(read[t].story))
CountsInv ==
    /\ \A s \in Items : RowCounts(s)
    /\ \A t \in Tasks : ReaderCounts(t)

LEMMA LinkedType ==
  ASSUME NEW s
  PROVE  /\ IsFiniteSet(Linked(s)) /\ Cardinality(Linked(s)) \in Nat
         /\ IsFiniteSet(Linked(s)') /\ Cardinality(Linked(s)') \in Nat
  <1>1. Linked(s) \subseteq Items /\ Linked(s)' \subseteq Items
    BY DEF Linked
  <1> QED
    BY <1>1, StoryAssumption, FS_Subset, FS_CardinalityType

LEMMA InitCounts == Init => CountsInv
  BY DEF Init, CountsInv, RowCounts, ReaderCounts

(* Steps that write no link and no count.                                  *)
LEMMA QuietCounts ==
  ASSUME Inv, CountsInv, links' = links, raced' = raced,
         \A s \in Items : stories'[s] # NoStory =>
             stories[s] # NoStory /\ stories'[s].count = stories[s].count,
         \A t \in Tasks : pc'[t] = "link" =>
             \/ pc[t] = "link" /\ read'[t] = read[t]
             \/ \E s \in Items : /\ stories[s] # NoStory
                                 /\ read'[t].story = s /\ read'[t].row = stories[s]
  PROVE  CountsInv'
  <1>1. \A s : Linked(s)' = Linked(s)
    BY DEF Linked
  <1>2. \A s \in Items : RowCounts(s)'
    BY <1>1 DEF CountsInv, RowCounts
  <1>3. ASSUME NEW t \in Tasks PROVE ReaderCounts(t)'
    <2> SUFFICES ASSUME pc'[t] = "link"
                 PROVE  read'[t].row.count <= Cardinality({i \in Items : links[i].story = read'[t].story})
      BY DEF ReaderCounts, Linked
    <2>1. CASE pc[t] = "link" /\ read'[t] = read[t]
      BY <2>1 DEF CountsInv, ReaderCounts, Linked
    <2>2. CASE \E s \in Items : /\ stories[s] # NoStory
                                /\ read'[t].story = s /\ read'[t].row = stories[s]
      BY <2>2 DEF CountsInv, RowCounts, Linked
    <2> QED
      BY <2>1, <2>2
  <1> QED
    BY <1>2, <1>3 DEF CountsInv

LEMMA OtherCounts ==
  ASSUME Inv, CountsInv, NEW t \in Tasks,
         \/ Start(t) \/ Match(t) \/ NoMatch(t) \/ Isolated(t) \/ LostRace(t)
         \/ Rebuild(t) \/ StageFails(t) \/ Publish(t) \/ RecordPublished(t)
  PROVE  CountsInv'
  <1>1. /\ links' = links /\ raced' = raced
        /\ \A u \in Tasks \ {t} : pc'[u] = pc[u] /\ read'[u] = read[u]
    BY DEF Start, Match, NoMatch, Isolated, LostRace, Rebuild, StageFails, Publish,
       RecordPublished, End, Decide, Goto, database, Inv, TypeOK
  <1>2. CASE Match(t)
    <2>1. PICK s \in Items : stories[s] # NoStory /\ read'[t] = [story |-> s, row |-> stories[s]]
      BY <1>2 DEF Match, Inv, TypeOK, Candidates, Recent, Founded, Warm, Best
    <2>2. stories' = stories /\ read'[t].story = s /\ read'[t].row = stories[s]
      BY <1>2, <2>1 DEF Match, database
    <2> QED
      BY <1>1, <2>1, <2>2, QuietCounts
  <1>3. CASE RecordPublished(t)
    <2>1. /\ pc'[t] # "link"
          /\ stories' = [stories EXCEPT ![decision[t].story].published = ItemOf[t]]
      BY <1>3 DEF RecordPublished, End, Goto, Inv, TypeOK
    <2>2. ASSUME NEW s \in Items, stories'[s] # NoStory
          PROVE  stories[s] # NoStory /\ stories'[s].count = stories[s].count
      <3>1. pc[t] = "record" /\ decision[t] # NoDecision
        BY <1>3 DEF RecordPublished, Inv, Labels
      <3>2. links[ItemOf[t]].story = decision[t].story
        BY <3>1 DEF Inv, DecisionMatchesLink
      <3>3. decision[t].story \in Items /\ links[ItemOf[t]] # NoLink
        BY <3>1, <3>2, StoryAssumption DEF Inv, TypeOK, NoLink
      <3>4. stories[decision[t].story] # NoStory
        BY <3>2, <3>3, StoryAssumption DEF Inv, LinksLead
      <3>5. CASE s = decision[t].story
        BY <2>1, <3>4, <3>5 DEF Inv, TypeOK, StoryRow
      <3>6. CASE s # decision[t].story
        BY <2>1, <2>2, <3>6 DEF Inv, TypeOK
      <3> QED
        BY <3>5, <3>6
    <2> QED
      BY <1>1, <2>1, <2>2, QuietCounts
  <1>4. CASE \/ Start(t) \/ NoMatch(t) \/ Isolated(t) \/ LostRace(t)
             \/ Rebuild(t) \/ StageFails(t) \/ Publish(t)
    <2>1. stories' = stories /\ pc'[t] # "link"
      BY <1>4 DEF Start, NoMatch, Isolated, LostRace, Rebuild, StageFails, Publish,
         End, Decide, Goto, database, Inv, TypeOK
    <2> QED
      BY <1>1, <2>1, QuietCounts
  <1> QED
    BY <1>2, <1>3, <1>4

(* One link more: its story counts one more, and no other changes.         *)
LEMMA OneLinkMore ==
  ASSUME Inv, NEW i \in Items, links[i] = NoLink, NEW s \in Items, links'[i].story = s,
         \A j \in Items \ {i} : links'[j] = links[j]
  PROVE  /\ Cardinality(Linked(s)') = Cardinality(Linked(s)) + 1
         /\ \A r \in Items \ {s} : Cardinality(Linked(r)') = Cardinality(Linked(r))
  <1>1. links[i].story \notin Items
    BY StoryAssumption DEF NoLink
  <1>2. Linked(s)' = Linked(s) \cup {i} /\ i \notin Linked(s)
    BY <1>1 DEF Linked
  <1>3. \A r \in Items \ {s} : Linked(r)' = Linked(r)
    BY <1>1 DEF Linked
  <1> QED
    BY <1>2, <1>3, LinkedType, FS_AddElement

(* Readers of other tasks count no more than there is.                     *)
LEMMA OthersCount ==
  ASSUME Inv, CountsInv, NEW t \in Tasks, NEW s \in Items, pc'[t] # "link",
         \A u \in Tasks \ {t} : pc'[u] = pc[u] /\ read'[u] = read[u],
         Cardinality(Linked(s)') = Cardinality(Linked(s)) + 1,
         \A r \in Items \ {s} : Cardinality(Linked(r)') = Cardinality(Linked(r))
  PROVE  \A u \in Tasks : ReaderCounts(u)'
  <1> SUFFICES ASSUME NEW u \in Tasks, pc'[u] = "link"
               PROVE  read[u].row.count <= Cardinality({i \in Items : links'[i].story = read[u].story})
    BY DEF ReaderCounts, Linked
  <1>1. pc[u] = "link"
    OBVIOUS
  <1>2. read[u] \in [story : Items, row : StoryRow]
    BY <1>1 DEF Inv, ReadersKnow, TypeOK
  <1>3. PICK r \in Items : r = read[u].story
    BY <1>2
  <1>4. read[u].row.count \in Nat
    BY <1>2 DEF StoryRow
  <1>5. read[u].row.count <= Cardinality(Linked(r))
    BY <1>1, <1>3 DEF CountsInv, ReaderCounts
  <1>6. Cardinality(Linked(r)) <= Cardinality(Linked(r)')
    BY LinkedType
  <1>7. read[u].row.count <= Cardinality(Linked(r)')
    BY <1>4, <1>5, <1>6, LinkedType
  <1> QED
    BY <1>3, <1>7 DEF Linked

LEMMA LinkCounts ==
  ASSUME Inv, CountsInv, NEW t \in Tasks, Link(t)
  PROVE  CountsInv'
  <1> USE StoryAssumption
  <1>1. PICK i \in Items : i = ItemOf[t]
    OBVIOUS
  <1>2. pc[t] = "link" /\ links[i] = NoLink
    BY <1>1 DEF Link
  <1>3. read[t] \in [story : Items, row : StoryRow] /\ stories[read[t].story] # NoStory
    BY <1>2 DEF Inv, ReadersKnow, TypeOK
  <1>4. PICK s \in Items : s = read[t].story
    BY <1>3
  <1>5. stories[s] \in StoryRow
    BY <1>3, <1>4 DEF Inv, TypeOK
  <1>6. /\ stories'[s] = LinkedRow(t, stories[s])
        /\ \A r \in Items \ {s} : stories'[r] = stories[r]
        /\ links'[i] = [story |-> s, kind |-> Relationship(read[t].row, i), at |-> now[t]]
        /\ \A j \in Items \ {i} : links'[j] = links[j]
    BY <1>1, <1>4 DEF Link, Inv, TypeOK
  <1>7. raced' = IF stories[s].count # read[t].row.count THEN raced \cup {s} ELSE raced
    BY <1>4 DEF Link
  <1>8. /\ stories'[s].count = read[t].row.count + 1
        /\ links'[i].story = s /\ links'[i] # NoLink
    BY <1>5, <1>6 DEF LinkedRow, StoryRow, NoLink
  <1>9. /\ Cardinality(Linked(s)') = Cardinality(Linked(s)) + 1
        /\ \A r \in Items \ {s} : Cardinality(Linked(r)') = Cardinality(Linked(r))
    BY <1>2, <1>6, <1>8, OneLinkMore
  <1>10. /\ pc'[t] # "link"
         /\ \A u \in Tasks \ {t} : pc'[u] = pc[u] /\ read'[u] = read[u]
    BY DEF Link, Decide, Goto, Inv, TypeOK
  <1>11. \A u \in Tasks : ReaderCounts(u)'
    BY <1>9, <1>10, OthersCount
  <1>12. ASSUME NEW r \in Items \ {s} PROVE RowCounts(r)'
    <2>1. RowCounts(r) /\ stories'[r] = stories[r] /\ (r \in raced => r \in raced')
      BY <1>6, <1>7 DEF CountsInv
    <2>2. links[r] # NoLink => links'[r] # NoLink
      BY <1>6, <1>8
    <2> QED
      BY <1>9, <2>1, <2>2 DEF RowCounts
  <1>13. RowCounts(s)'
    <2>1. /\ links[s] # NoLink
          /\ stories[s].count <= Cardinality(Linked(s))
          /\ s \in raced \/ stories[s].count = Cardinality(Linked(s))
      BY <1>3, <1>4 DEF CountsInv, RowCounts
    <2>2. read[t].row.count <= Cardinality(Linked(s)) /\ read[t].row.count \in Nat
      BY <1>2, <1>3, <1>4 DEF CountsInv, ReaderCounts, StoryRow
    <2>3. links'[s] # NoLink
      BY <1>6, <1>8, <2>1
    <2>4. stories'[s].count <= Cardinality(Linked(s)')
      BY <1>8, <1>9, <2>2, LinkedType
    <2>5. s \notin raced' => stories'[s].count = Cardinality(Linked(s)')
      BY <1>7, <1>8, <1>9, <2>1
    <2> QED
      BY <2>3, <2>4, <2>5 DEF RowCounts
  <1> QED
    BY <1>11, <1>12, <1>13 DEF CountsInv

LEMMA CreateCounts ==
  ASSUME Inv, CountsInv, NEW t \in Tasks, Create(t)
  PROVE  CountsInv'
  <1> USE StoryAssumption
  <1>1. PICK i \in Items : i = ItemOf[t]
    OBVIOUS
  <1>2. links[i] = NoLink /\ raced' = raced
    BY <1>1 DEF Create
  <1>3. stories[i] = NoStory
    BY <1>2 DEF CountsInv, RowCounts
  <1>4. Linked(i) = {}
    <2> SUFFICES ASSUME NEW j \in Items, links[j].story = i PROVE FALSE
      BY DEF Linked
    <2>1. links[j] # NoLink
      BY DEF NoLink
    <2> QED
      BY <1>3, <2>1 DEF Inv, LinksLead
  <1>5. /\ stories'[i].count = 1
        /\ \A r \in Items \ {i} : stories'[r] = stories[r]
        /\ links'[i] = [story |-> i, kind |-> "NEW_STORY", at |-> now[t]]
        /\ \A j \in Items \ {i} : links'[j] = links[j]
    BY <1>1 DEF Create, Inv, TypeOK
  <1>6. links'[i].story = i /\ links'[i] # NoLink
    BY <1>5 DEF NoLink
  <1>7. /\ Cardinality(Linked(i)') = Cardinality(Linked(i)) + 1
        /\ \A r \in Items \ {i} : Cardinality(Linked(r)') = Cardinality(Linked(r))
    BY <1>2, <1>5, <1>6, OneLinkMore
  <1>8. /\ pc'[t] # "link"
        /\ \A u \in Tasks \ {t} : pc'[u] = pc[u] /\ read'[u] = read[u]
    BY DEF Create, Decide, Goto, Inv, TypeOK
  <1>9. \A u \in Tasks : ReaderCounts(u)'
    BY <1>7, <1>8, OthersCount
  <1>10. ASSUME NEW r \in Items \ {i} PROVE RowCounts(r)'
    <2>1. RowCounts(r) /\ stories'[r] = stories[r]
      BY <1>5 DEF CountsInv
    <2>2. links'[r] = links[r]
      BY <1>5
    <2> QED
      BY <1>2, <1>7, <2>1, <2>2 DEF RowCounts
  <1>11. RowCounts(i)'
    <2>1. Cardinality(Linked(i)') = 1
      BY <1>4, <1>7, FS_EmptySet
    <2> QED
      BY <1>5, <1>6, <2>1 DEF RowCounts
  <1> QED
    BY <1>9, <1>10, <1>11 DEF CountsInv

LEMMA NextCounts == Inv /\ CountsInv /\ [Next]_vars => CountsInv'
  <1> SUFFICES ASSUME Inv, CountsInv, [Next]_vars PROVE CountsInv'
    OBVIOUS
  <1>1. CASE Tick \/ UNCHANGED vars
    <2>1. UNCHANGED <<database, tasks, raced>>
      BY <1>1 DEF Tick, vars
    <2> QED
      BY <2>1 DEF database, tasks, CountsInv, RowCounts, ReaderCounts, Linked
  <1>2. CASE \E t \in Tasks : Process(t) \/ Publish(t) \/ RecordPublished(t)
    BY <1>2, OtherCounts, LinkCounts, CreateCounts DEF Process
  <1> QED
    BY <1>1, <1>2 DEF Next, Done

(* The count of a story never exceeds its links, and falls behind them     *)
(* only where two tasks linked to a row that both had read.                *)
THEOREM CountsCorrect == Spec => []CountDriftsOnlyByRaces
  <1>1. CountsInv => CountDriftsOnlyByRaces
    BY DEF CountsInv, RowCounts, CountDriftsOnlyByRaces, Founded
  <1> QED
    BY <1>1, InitCounts, NextCounts, InvHolds, PTL DEF Spec
=============================================================================
