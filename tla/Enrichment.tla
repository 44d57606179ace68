------------------------------ MODULE Enrichment ------------------------------
(***************************************************************************)
(* The background task with what it works on: the headline it classifies,  *)
(* the request and the replies of the language model, the columns it       *)
(* stores and the message it edits.  Each step is a step of                *)
(* NewsOrchestrator; the call of the AI is its attempts, and a commit      *)
(* stores, and an edit shows, what the reply says.                         *)
(***************************************************************************)
EXTENDS NewsOrchestrator, Editorial

CONSTANTS
    HeadlineOf,    \* the headline behind a content hash
    Answers        \* replies the model may give

ASSUME EnrichmentAssumption ==
    /\ HeadlineOf \in [Contents \cup {Blank} -> Evidence]
    /\ \A c \in Contents : Wellformed(HeadlineOf[c])
    /\ Answers \subseteq Replies

VARIABLES
    local,         \* what the coroutine of an item has found out for its call
    exchange,      \* the last request for an item, and the reply to it if any
    columns,       \* table news: the columns of the reply, None before
    message        \* the message readers see, None while it is the raw one

enrichmentVars == <<vars, local, exchange, columns, message>>

(* asked: attempts of the call that failed.                                *)
Local   == [decision : Decisions \cup {None}, macro : BOOLEAN, asked : 0 .. MaxAttempts - 1]
NoLocal == [decision |-> None, macro |-> FALSE, asked |-> 0]

Headline(g) == HeadlineOf[news[g].hash]
Class(g)    == Classify(Headline(g))

EnrichmentInit ==
    /\ Init
    /\ local    = [g \in Guids |-> NoLocal]
    /\ exchange = [g \in Guids |-> [prompt |-> None, reply |-> None]]
    /\ columns  = [g \in Guids |-> None]
    /\ message  = [g \in Guids |-> None]

-----------------------------------------------------------------------------
(* The stages before the call.                                             *)

\* A routine series has no story; every other item has a decision, unless the
\* stage fails.
Story(g) ==
    /\ StoryStage(g)
    /\ task'[g].pc = "indicator" => (task'[g].story <=> ~Headline(g).routine)
    /\ \E d \in Decisions :
          local' = [local EXCEPT ![g].decision = IF task'[g].story THEN d ELSE None]
    /\ UNCHANGED <<exchange, columns, message>>

\* Facts are told of prints with figures only.
Macro(g) ==
    /\ MacroStage(g)
    /\ \E told \in {FALSE, Headline(g).actual # None} :
          local' = [local EXCEPT ![g].macro = told]
    /\ UNCHANGED <<exchange, columns, message>>

-----------------------------------------------------------------------------
(* The call of the AI: generate_financial_translation, then the check.     *)

\* Every attempt makes the same request.
Ask(g, answer) ==
    /\ task[g].pc = "ai"
    /\ exchange' = [exchange EXCEPT ![g] =
           [prompt |-> Prompt(Class(g), local[g].decision, local[g].macro),
            reply  |-> answer]]
    /\ UNCHANGED <<columns, message>>

\* 429, a server error or a network error, before or after the model worked.
NoAnswer(g) ==
    /\ Ask(g, None)
    /\ \/ /\ Retries(local[g].asked)
          /\ local' = [local EXCEPT ![g].asked = @ + 1]
          /\ UNCHANGED vars
       \/ /\ ~Retries(local[g].asked)
          /\ AiCall(g) /\ task'[g].pc = "fail" /\ task'[g].err = "outage"
          /\ UNCHANGED local

\* Another status, or content that is no JSON object: AIResponseError.
AnswerUnusable(g) ==
    /\ Ask(g, None)
    /\ AiCall(g) /\ task'[g].pc = "aifail"
    /\ UNCHANGED local

\* A body that is no JSON: the handler logs content, which is not bound yet.
AnswerUnreadable(g) ==
    /\ Ask(g, None)
    /\ AiCall(g) /\ task'[g].pc = "fail" /\ task'[g].err = "other"
    /\ UNCHANGED local

\* A reply is checked before anything else happens.
Answer(g) ==
    \E r \in Answers :
        /\ Ask(g, r)
        /\ AiCall(g)
        /\ \/ Verdict(Headline(g), r) = "accepted" /\ task'[g].pc = "commit_success"
           \/ Verdict(Headline(g), r) = "refused"  /\ task'[g].pc = "aifail"
           \/ Verdict(Headline(g), r) = "raises"   /\ task'[g].pc = "fail"
        /\ task'[g].err # "outage"
        /\ UNCHANGED local

-----------------------------------------------------------------------------
(* Storing and showing.                                                    *)

Store(g) ==
    /\ CommitSuccess(g)
    /\ columns' = [columns EXCEPT ![g] = IF news'[g].arabic
                                         THEN Columns(exchange[g].reply) ELSE @]
    /\ UNCHANGED <<local, exchange, message>>

\* The text is built from what the task holds, not from the row.
Edit(g) ==
    /\ EditAcknowledged(g) \/ EditAnsweredFalse(g) \/ EditRetryable(g) \/ EditRejected(g)
    /\ message' = [message EXCEPT ![g] =
          IF shown'[g] = "premium"
          THEN Message(Class(g), local[g].decision, exchange[g].reply) ELSE @]
    /\ UNCHANGED <<local, exchange, columns>>

\* The other steps of a task and the steps of the service around it.
Around ==
    /\ \/ \E g \in Guids, c \in Contents \cup {Blank} : Receive(g, c)
       \/ FastStep
       \/ \E g \in Guids : \/ MarkAiPending(g) \/ IndicatorStage(g)
                           \/ CommitPublished(g) \/ RecordPublished(g)
                           \/ MarkAiFailed(g) \/ MarkTaskFailed(g)
    /\ UNCHANGED <<local, exchange, columns, message>>

\* What a task held goes with the process.
Restart ==
    /\ Crash \/ Recover
    /\ local' = [g \in Guids |-> NoLocal]
    /\ UNCHANGED <<exchange, columns, message>>

EnrichmentStep(g) ==
    \/ Story(g) \/ Macro(g) \/ NoAnswer(g) \/ AnswerUnusable(g)
    \/ AnswerUnreadable(g) \/ Answer(g) \/ Store(g) \/ Edit(g)

EnrichmentNext == Around \/ Restart \/ \E g \in Guids : EnrichmentStep(g)

EnrichmentSpec == EnrichmentInit /\ [][EnrichmentNext]_enrichmentVars

-----------------------------------------------------------------------------
(* Properties.                                                              *)

\* What retries, restarts and repeated requests may bring to the channel and to
\* the table: a headline and a translation in Arabic, an importance on the scale,
\* and each number of the source's headline in the message that readers see, or
\* else in the stored translation or in a what-to-watch that the message hides.
\* More is not asked of a reply: explanation, impact and summary may be in another
\* language (validator.py:190-262, telegram_formatter.py:222-391).
NothingUncheckedShown ==
    \A g \in Guids :
        LET r == exchange[g].reply
        IN  /\ columns[g] # None =>
                 /\ columns[g].translation.arabic
                 /\ columns[g].importance \in {None} \cup 1 .. 5
            /\ shown[g] = "premium" =>
                 /\ message[g].arabic
                 /\ \A n \in Headline(g).numbers \ 0 .. 9 :
                       \/ n \in message[g].numbers \cup columns[g].translation.numbers
                       \/ /\ r.watch # None /\ "watch" \notin message[g].sections
                          /\ n \in r.watch.numbers

\* The verdict under the figures is the one of the headline's print against the
\* headline's forecast, and of the figures shown where the AI copied them; there
\* is none across units or without a figure (telegram_formatter.py:290-311).
VerdictIsTrue ==
    \A g \in Guids : shown[g] = "premium" /\ message[g].verdict # None =>
        LET h == Headline(g)
            r == exchange[g].reply
        IN  /\ h.actual.known /\ h.forecast.known
            /\ h.actual.percent = h.forecast.percent
            /\ message[g].verdict = CASE h.actual.value > h.forecast.value -> "HIGHER"
                                      [] h.actual.value < h.forecast.value -> "LOWER"
                                      [] OTHER -> "MATCH"
            /\ ~Empty(r.forecast) /\ "data" \in message[g].sections

\* What the message puts around the AI's prose, the AI knew when it wrote: the
\* country of the flag, the category of the icon unless the AI chose it, the
\* development the context and the badge refer to.  Provider, editorial engine
\* and formatter each decide this for themselves (openai_provider.py:135-140,
\* editorial_engine.py:124-130, telegram_formatter.py:241-287).
FrameWasTold ==
    \A g \in Guids : shown[g] = "premium" =>
        LET told == exchange[g].prompt
        IN  /\ message[g].flag # None => told.facts.country = message[g].flag
            /\ message[g].icon \notin {"siren", "asset", "general"} =>
                  \/ told.facts.category = message[g].icon
                  \/ told.facts.category = None /\ exchange[g].reply.category = message[g].icon
            /\ message[g].badge \in {"update", "correction"} => told.prior # None
            /\ message[g].prior # None => told.prior = message[g].prior

\* A siren has a reason that the reply or the headline gives: a routine series
\* never gets one for the words it mentions, nor does a shock without a bank or
\* a conflict (intelligence/engine.py:151-168).
SirenHasAReason ==
    \A g \in Guids : shown[g] = "premium" /\ message[g].icon = "siren" =>
        \/ exchange[g].reply.importance = 5
        \/ exchange[g].reply.category = "breaking"
        \/ /\ Headline(g).shock /\ ~Headline(g).routine
           /\ Headline(g).banks # {} \/ Category(Headline(g)) = "geopolitical"

\* The digest ranks by the columns, the channel was alarmed by the message: what
\* the digest marks as breaking had its siren (digest/selection.py:124-126).
DigestSirensWereSirens ==
    \A g \in Guids : news[g].status = "PUBLISHED" /\ shown[g] = "premium"
        /\ (columns[g].importance = 5 \/ columns[g].category = "breaking")
            => message[g].icon = "siren" /\ message[g].badge = "breaking"

-----------------------------------------------------------------------------
(* Inductive invariant, on top of the one of the pipeline.                  *)

\* The reply to the last request passed the check.
Accepted(g) ==
    /\ exchange[g].reply \in Answers
    /\ Verdict(Headline(g), exchange[g].reply) = "accepted"

\* From the check on the reply of an item stays; until the edit the task holds
\* what it asked with, and after it the message tells of the same decision.
ExchangeInv(g) ==
    /\ task[g].pc = "commit_success" \/ news[g].arabic => Accepted(g)
    /\ task[g].pc \in {"commit_success", "edit"} =>
          exchange[g].prompt = Prompt(Class(g), local[g].decision, local[g].macro)
    /\ columns[g] = IF news[g].arabic THEN Columns(exchange[g].reply) ELSE None
    /\ shown[g] = "premium" => \E d \in Decisions \cup {None}, told \in BOOLEAN :
          /\ exchange[g].prompt = Prompt(Class(g), d, told)
          /\ message[g] = Message(Class(g), d, exchange[g].reply)

EnrichmentShape ==
    /\ local \in [Guids -> Local]
    /\ exchange = [g \in Guids |-> exchange[g]]
    /\ columns = [g \in Guids |-> columns[g]]
    /\ message = [g \in Guids |-> message[g]]

EnrichmentInv == EnrichmentShape /\ \A g \in Guids : ExchangeInv(g)
=============================================================================
