# TLA+ models of financial-news-ai-bridge

The service polls an RSS feed of financial headlines, posts each one in English to a
Telegram channel, has it translated and enriched by OpenAI in the background, and edits
the message into its Arabic form. Every six hours it maintains one pinned digest. This
directory holds TLA+ models of that service, TLC configurations that check them on small
instances, and proofs checked by TLAPS.

File and line references are to `src/app/` at the commit beside this directory.

## 1. Inventory

| Part | State it keeps | Operations | Talks to |
|---|---|---|---|
| RSS poller `services/ingestion/rss_poller.py` | in memory: `_seen_ids`, ETag, cold-start cutoff | seed from the table, scan the first feed, poll, process a batch oldest first | the feed; awaits `process_message` |
| News orchestrator `services/news/orchestrator.py` | table `news` | `process_message` (dedupe, insert, send, store the id, start a task), background task (load, stages, AI, commit, edit, commit), recovery | Telegram, OpenAI, story and indicator engines |
| Telegram publisher `services/telegram/publisher.py` | none | send, edit, pin, getChat, each with retries | Telegram |
| Story intelligence `services/story` | tables `stories`, `story_news` | match and link, found, rebuild a decision, record a publication | called by background tasks |
| Indicator memory `services/indicators` | tables `indicator_series`, `indicator_prints` | record a print, backfill, read the macro context | called by background tasks; the backfill is a separate process |
| Six-hour digest `services/digest` | one `digest_state` row; status report in memory | scheduler loop, run of a window, edit or create, pin | Telegram; reads `news` and `story_news` |
| Digest selection `services/digest/selection.py` | none | eligibility, groups, ranking, caps | reads `news`, `story_news` |
| Intelligence rules `services/intelligence` | none | classify a headline, extract and compare figures, rate its urgency | called by background tasks and the backfill |
| OpenAI provider, validator `services/ai`, `services/validation` | none | build the request, ask with retries, check the reply against the headline | OpenAI |
| Editorial engine, Telegram formatter `services/formatting` | none | decide mode, siren and badge; choose the sections of a message | called by background tasks |
| Digest formatter `services/digest/formatter.py` | none | trim the selected entries to the length limits | called by the digest service |
| Health endpoint, configuration, logging, migrations, scripts | none of the above | | |

All parts run as coroutines of one event loop (`main.py:39-73`): the poller, one call of
`process_message` at a time, any number of background tasks, and the digest scheduler.
They share the database and the channel and nothing else. A restart ends them all at
whatever await they had reached; nobody waits for background tasks at shutdown.

**What is hard about it.**
- A Telegram request may be carried out although its answer is lost, and is sent again.
- Each statement, commit and request is an await, so what was read before it may be stale.
- A rollback expires every loaded ORM row. A stage whose failure is "isolated" by
  `except ...: rollback()` therefore takes the task's own `news` row with it, and the next
  `news.id` raises outside of a greenlet.
- The poller's memory dies with the process while the table does not.
- The wall clock moves on while a digest runs.

**What makes each part correct.**
- Pipeline: content is announced once, a message is never unknown to the table, what the
  reader sees is stored, records settle.
- Poller: nothing that has a row is offered again, nothing is hidden by the ETag, a cold
  start is quiet, items appear oldest first.
- Digest: one message, no completed window repeated, what is recorded is shown.
- Stories: links and decisions agree, priors were really published, stories do not mix
  countries or outlive their windows.
- Indicators: the counters stand for prints, revisions close the gate of the context, and
  what the AI is told of the past is true of the prints it rests on.
- Selection and digest text: one entry for each story, nothing better left out, and what is
  trimmed matters least.
- Classification, validation, presentation: the headline shown and the translation stored are
  Arabic and no number of the source's headline is lost between them, the verdict
  under the figures is the headline's, the frame around the AI's prose was known to the AI, and
  a siren has a reason.

The hazards, each at its line, are listed in `PROJECT.json`.

## 2. Modules

| Module | Models | State and actions |
|---|---|---|
| `NewsOrchestrator` | orchestrator, publisher's send and edit, table `news` | `news` is the table, `delivered` and `shown` are the channel, `fast` is the running `process_message`, `task[g]` the background task. One action for the code between two awaits: `Lookup`, `Insert`, `Send...`, `StoreSent`, `Load`, the stages, `AiCall`, `CommitSuccess`, `Edit...`, `CommitPublished`, `Crash`, `Recover` |
| `NewsLifecycle` | abstract: what is promised of one record | `record` moves forward, `reader` sees raw text, then the premium text. `ImplementsLifecycle` is the refinement |
| `RssPoller` | the poller, over an abstract `process_message` | feed items are numbered; `seen`, `etag`, `cutoff` are the poller's fields, `batch` and `item` its loop |
| `Bridge` | poller and pipeline composed | the calls of the poller are the steps of `NewsOrchestrator`; `ImplementsPoller` maps them back to `RssPoller` |
| `Digest` | scheduler, service, Telegram operations, `digest_state` | `clock` is the latest completed window, `row` the table, `channel`, `gone`, `newestPin` the chat, `pc` and `run` the execution |
| `Story` | story engine, rules and tables, publication of items | `stories`, `links`, `published`; per task `pc`, `now`, the row as `read`, its `decision` |
| `DigestSelection` | selection, pure operators | `SelectDigestEntries` is the function of the same name |
| `StoryDigest` | the selection and the trimming over the tables of `Story` | evaluated in every state that concurrent tasks can reach |
| `IndicatorMemory` | record, backfill, macro context | `series` and `prints` are the tables; per writer `pc`, `item`, the row as `read`; `told` is the context handed to the AI |
| `DigestText` | the digest formatter's trimming, pure operators | `Rendered` is how many entries and summaries are left |
| `Classification` | intelligence engine, pure operators | `Classify` from the evidence of a headline: `Score`, `Category`, `Urgency`, `Surprise`, `IsFallback` |
| `Translation` | request context and validator, pure operators | `Prompt`, `Checks` in the order of the code, `Verdict`, `Columns` |
| `Editorial` | editorial engine and the sections of a message, pure operators | `IsBreaking`, `Mode`, `Badge`, `Rows`, `Message` |
| `Enrichment` | the background task with its data: extends `NewsOrchestrator` | `local` is what the coroutine found, `exchange` its request and reply, `columns` the columns stored, `message` what readers see. Each of its steps is a step of `NewsOrchestrator` |
| `MC*` | headlines, replies, feeds, items and tasks for the runs | |
| `*Proofs` | theorems | |

Abstractions. In the pipeline texts are model values: two headlines have the same content or not,
are blank or not, a message shows the raw or the premium text or the number of a digest. In
`Enrichment` a headline is what the pattern tables of `rules.py` find in it (which banks,
indicators, countries, keyword weights, figures), and the tables themselves are constants. An
Arabic text of a reply is three facts, those that the validator depends on: is it a string at all,
is it Arabic, and which numbers does it show. Figures are integers, in the run in tenths. For
stories and the selection, the classification, the tokens, the importance given by the AI and the
test for promotional text are constants of the modules. OpenAI and Telegram are sets of outcomes:
acknowledged, retryable, rejected, carried out with the answer lost. A stage of the background
task, and the commit of its columns, may fail at any time without a fault being counted: a lost
race for a key (`indicators/engine.py:128-131`, `story/engine.py:139-143`) or a reply of types
that a column cannot hold (`orchestrator.py:209-235`) is enough. Only database errors and restarts
are bounded. The constraints of the tables are part of the actions that write them.

A definition whose name begins with `Mut` is a plausible bug. None is used; replacing the
definition after it shows that a property can fail.

## 3. Runs

| Run | Shows | Bounds |
|---|---|---|
| `safety` | delivery bound, deduplication, durability, types, which steps give a record up, what a recovery at startup leaves behind, and that the pipeline implements `NewsLifecycle` | 2 items, 2 contents, 3 attempts, 1 database error, 1 restart; stages and commits fail freely |
| `stuck` (violated) | a stage that fails in a transaction leaves its record at AI_PENDING | 1 item, no database error, no restart |
| `poller_safety` | memory covers the table, cold start quiet, oldest first, ETag hides nothing | 5 items, window 3, 2 historic, 2 restarts, database errors, documents without a channel, an undated item, two items dated without a zone |
| `flood_restart` (violated) | historic items are posted after a restart | 1 restart |
| `bridge` | the composition implements the poller's view of a call; an item that the poller holds gets a record that settles or is left at AI_PENDING; PUBLISHED means the reader sees it | 3 items, 1 historic and dated without a zone, window 2, a title corrected under its guid to one that was there before, 2 attempts, 1 database error, 1 restart; edits fail by HTTP status |
| `digest_safety` | one message, nothing recorded that is not shown, completed windows untouched, pins of administrators, and the scheduler never falls silent | 3 windows, 3 messages, 2 attempts, 1 crash, 1 database error, 2 acts of administrators |
| `digest_missed` (violated) | a window that completes during a run is never run | 3 windows, no faults |
| `story_safety` | priors, decisions, counts, windows, countries; and of the digest, one entry for each story, nothing better left out, trimming from below | 3 items, 4 tasks, 3 hours, 1 failure, a candidate limit of 1, 2 entries, 1 for each category, lengths on both sides of each limit |
| `indicator_safety` | counters, revisions, lost prints, truth of the macro context | 9 items, 5 of them history, 2 of them revisions, 4 tasks and a backfill, 1 failing statement |
| `indicator_revised` (violated) | a streak or an extreme is told over a list that holds a revision | the same with 1 revision, nothing fails |
| `indicator_backfill` (violated) | a failing row ends the backfill | 1 failing statement |
| `enrichment` | what the checks of a reply leave to be stored and shown; verdict, frame and siren of a message; the sirens of the digest | 1 item with each of 9 headlines, 15 replies, 2 attempts, 1 restart |

Why the bounds are enough. Two items show every interaction between items of the pipeline: same
content, same guid, one waiting while another is in work. Three attempts are the code's, and two
where only "first" and "again" differ. `safety` has `RecoveryWired` set, so that a recovery
follows each restart; the code as it is never calls it, and `bridge` runs it that way. A window of
3 over 5 items lets items leave the feed unseen. Three windows are one before, one during and one
after a run. Three items and a repeated task give races for the same link, for the same story and
a story of three, two of whose prints are of different countries. A history of five, one of them a
revision, lets the sixth print reach the threshold of the extreme while another revises. The nine
headlines meet each tier of the classification, a tie, an exclusion, the fallback, and figures
that are unknown or of different units; of the fifteen replies one is faithful and each other
fails, or gets past, one check. One item is enough there, since items share nothing in this part
of the task.

Deadlock is checked except in `poller_safety` and `bridge`, where a database error
during seeding really ends the poller.

**Fairness.** Two specifications state it.
- `BridgeFairSpec`, for `HeldToRecord`: weak fairness of the poller with the call it awaits, and
  of each background task. They are coroutines of one event loop, each request has a timeout, the
  attempts are counted, and a step is always possible until the coroutine ends. Nothing is asked
  of the feed: `Poll`, `PollRaises` and documents without a channel are not fair, so a feed may
  stay silent for ever, and the property starts where the poller holds an item. No outcome of a
  request is favoured. The property names the ways out that the code has: a database error or a
  restart, an older item of the batch whose guid has a row of another content (it drops the rest),
  and a record left at AI_PENDING by its task (see `stuck`).
- `FairSpec` of `Digest`, for `NeverSilent`: weak fairness of `Boot`, `Wake`, `Call` and `Tick`.
  The service manager restarts the program (`Restart=always`,
  `deploy/financial-news-ai-bridge.service:15`), `asyncio.sleep` returns, each request ends by its
  timeout with counted attempts, and time goes on. No outcome is favoured, and faults are
  included.

## 4. Proofs

TLAPS proves, for every value of the constants under the named assumptions of each module:

| Module | Theorems |
|---|---|
| `NewsOrchestratorProofs` | types; `DeliveryBound`, `ContentAnnouncedOnce`, `NoUnrecordedMessage`, `PremiumTextIsStored`, `AiFailedKeepsRaw`, `PublishedIsShown`, `OnlyStagesAndStoreAbandon`, `RecoveryRequeues`; the pipeline implements `NewsLifecycle` (`ImplementsLifecycle`) |
| `RssPollerProofs` | types; `SeenCoversTable`, `EtagHidesNothing`, `ColdStartQuiet`, `OlderFirst` |
| `BridgeProofs` | the composition keeps the invariants of the pipeline and implements `RssPoller` (`ImplementsPoller`) and `NewsLifecycle` (`ImplementsLifecycle`); `PublishedIsShown`, `ContentAnnouncedOnce` in the composition |
| `DigestProofs` | types; `RecordedIsShown`, `OkIsShown`, `CompletedWindowNotTouched`, `OneMessagePerTrouble`, `AdminPinRespected` |
| `StoryProofs` | types; `PriorIsPublished`, `DecisionMatchesLink`, `StaysWarm`, `CountriesKeptApart`, `CountDriftsOnlyByRaces` |
| `StoryDigestProofs` | of every digest, in any state of the tables: `OneEntryPerStory`, `NothingBetterLeftOut`, `TrimmedFromBelow` |
| `IndicatorProofs` | types; `ClaimsAreTrue`, `RevisionsNeverForgotten`, `PrintLostOnlyToItsSeries`, `CountersDriftOnlyByRaces` |
| `EnrichmentProofs` | the enriched pipeline is the pipeline; `NothingUncheckedShown`, `VerdictIsTrue`, `FrameWasTold`, `SirenHasAReason`, `DigestSirensWereSirens` |

`NoUnrecordedMessage`, `AiFailedKeepsRaw` and the types of stories are proved and in no run.

The arguments, in short.
- *Pipeline.* The properties speak of rows and messages; whether a step keeps them depends
  on where its coroutine is. `AnnounceInv` adds that a call about to insert knows no row of
  its content (one call runs at a time, and tasks never change a hash) and that attempts
  bound deliveries; `LifeInv` ties the status of each row to the point its task has
  reached; `FirstSightInv` says what no row has, no reader has seen. `UntriedInv` says that a
  record that never failed has no retries on record, so the recovery finds it below its limit.
- *Refinement.* Each step of call or task maps to one step of a record's life or to none;
  the lemmas `Move`, `Show`, `GivesUp` state that once for all steps.
- *Poller.* `SeenInv` covers the item in work, between the check and the row.
  `AnswerInv` says that whatever the last answer showed is seen or waits in the batch.
  `ColdInv` says that after the first scan each historic item is marked, before the cutoff or
  out of the feed, and `OrderInv` that an item is in work or posted only when every older one
  that the feed still shows is marked.
- *Composition.* A database error while seeding is no step of the pipeline alone, so its
  invariants are proved again for the steps of `Bridge`, from the lemmas `TypeInductive`,
  `LifeInductive`, `AnnounceInductive`, `FirstSightStep`; `LifecycleStep` then gives the life of
  the items in the composition as well. `InStep` says that the poller is at its call exactly while
  one runs, and for its item. On it rests the refinement: `CallMaps` takes each step of
  `process_message` to an outcome of a call in `RssPoller`, `TaskHidden` shows that background
  tasks neither add rows nor send.
- *Digest.* `Inv` adds that nothing is ahead of the clock, that past the check the window of
  a run is newer than what is recorded, and that an acknowledged message shows the run's window.
  `MessagesInv` counts: one message may be held by the row or by the run, and every other one that
  can be seen was paid for by a trouble. `PinInv` says that a run about to pin the recorded
  message saw a chat without a pin, or counted the acts of administrators since.
- *Stories.* A database only grows: links are never moved and publications never undone
  (`Grow`), so what a reader knew stays true (`GrowKeeps`); `ReadersKnow` and `Labels` say
  what each task holds. `MembersInv` says that a row, also one read long ago, names an item that
  is linked and when it was; the rules then judge a true member, though not the latest.
  `CountsInv` says that no reader holds a higher count than there are links.
- *Indicators.* `SeriesStand` says that a series of this life has a stored print, `Holds` what a
  writer knows of the row it read: a row once read does not go away, so the insert of a series can
  only conflict with a founder. The revision gate survives stale rows because a marked print
  always writes a positive count and nobody writes less. That is about the stored count: a reader
  that took its row earlier may still see none, and then tells facts over a list that holds the
  revision (`indicator_revised`). `ClaimsAreTrue` says that they are true of that list.
  `CountersInv` keeps the counters of rows and of readers at or below the prints. What the AI is
  told is proved in two parts. The first is about the reader's arithmetic alone. `NewestType`,
  `LastPositions` and `EndsOfHistory` say that the history holds each stored print at its
  position, the last n of them at the first n positions; `WalkStaysOn` that every position of a
  walk is of the kind it follows. So a run of surprises or of moves is one of the prints told of,
  and no two of them are of another kind (`ForecastRunTrue`, `MoveRunTrue`), and an extreme is one
  of at least as many prints as the code asks for. The second, `ToldInv`, is inductive: prints are
  only added, so what was true of stored prints when it was told stays true, although the revision
  gate may have been read before the prints were.
- *Enrichment.* Every step is a step of `NewsOrchestrator` or a stutter, so the invariants of the
  pipeline hold and need no second proof. On them rests `EnrichmentInv`: from the check on, the
  exchange of an item stays as it is, the table holds its columns, and the message tells of the
  decision that the request told. The properties are then facts about the pure operators; for
  `NothingUncheckedShown` that is `KeptOrHidden`: a number that the validator found is in the
  message, in the stored translation, or in a section that the message hides.
- *Selection and trimming.* Both are functions of the tables, so three facts about functions are
  needed and the types of the tables. *Sorting*: tuples of integers are strictly and totally
  ordered (`LessTransitive`, `LessTotal`), ranks of groups differ because ids do (`GroupOrder`),
  and a finite set in such an order can be numbered by counting what comes before (`Sorting`), in
  a way that reaches all of it (`SortedIsAll`); `RankedIs` is that for the groups. *The loop*:
  `LoopInv` says that entries stand for groups already met, in their order, and that each group
  met has an entry or was `Handled`: it met a full digest or, when not breaking, a full category,
  of entries that rank before it. That they rank before it must be part of the invariant: at the
  end a category also holds what came later, and a full one says nothing of what filled it when
  the group was left out. `RoundKeeps` and `LoopHolds` carry it from round to round. *Trimming*:
  the greatest number that fits exists (`MostIs`), so a summary or an entry went only because
  nothing longer fitted.

Induction. The provers cannot instantiate the library's induction theorems. `LeastNatural` derives
the least element of a set of numbers from the well-foundedness of strict inclusion on finite
sets, and `Rounds` (what the start has and each round keeps, every round has) and `LoopFunction`
(a loop defines a function) follow from it. They are stated for sets and functions, not for
operators, so they can be cited. For the proofs, `Ranked` is the sorted function itself,
`Selections` the function of the loop's rounds, and a walk or a trimming loop the set of places it
can reach: what the code's loops compute, which TLC evaluates in the same runs.

Assumed beyond the types of the constants: `StoryDigestAssumption` (importances 0 to 5, 0 for
none, as `validator.py:214-216` has it, ids of rows all different, lengths natural numbers),
`DigestTextAssumption` (the soft limit is at most the hard one, at least one entry is never
dropped) and `IndicatorAssumption` (a figure is a number or absent). TLC evaluates them in the
runs.

Only model-checked: liveness (`HeldToRecord`, `NeverSilent`), which needs ENABLED.

## 5. Where code and documentation disagree

Shown by runs:
- `stuck`: the comment at `orchestrator.py:137-139` that a record can never be stuck at AI_PENDING.
- `flood_restart`: "On first run (empty DB), silently mark all current feed items as seen"
  (`rss_poller.py:104`) holds until the next restart.
- `digest_missed`: "exactly once per completed six-hour UTC window" (`digest/scheduler.py:3`).
- `indicator_backfill`: "one bad row logs a warning and the run continues"
  (`indicators/backfill.py:15`).
- `indicator_revised`: "a series containing revisions suppresses streaks/extremes entirely (a
  revised period would be double-counted; wrong history is worse than missing history)"
  (`indicators/context.py:16-18`). The count is read at line 98 and the prints at line 102.

Met while modelling, present in the models, without a run of their own:
- A guid that comes twice with different titles aborts the rest of its batch: `BaseRepository.add`
  raises `DatabaseError`, so the `IntegrityError` handler at `orchestrator.py:94-98` is never reached.
- A lost answer means a second notification, although the README promises one for each item.
- An outage of OpenAI ends in FAILED, not in AI_FAILED as `docs/RUNBOOKS.md:117-118` says:
  exhausted retries raise tenacity's `RetryError`.
- `recover_interrupted_records` is never called.
- A first scan without a channel leaves neither marks nor a cutoff (`rss_poller.py:106-116`).
- A story's latest development is the last recorded, not the last published
  (`models/story.py:53`), and the time of a prior told to the AI is the story's activity clock.
- A crash between creating a digest message and storing its id gives a second digest.
- A repetition is left out of the digest because "the story's other members carry it"
  (`selection.py:20-24`), also when those members failed and were never published. And an item still
  being translated at a boundary is in no digest.
- The loser of a race for a new series drops its print although nobody recorded it;
  the comment at `indicators/engine.py:129` speaks of UNIQUE(news_id) only.
- The extraction finds all three figures or none (`rules.py:556-577`), so the macro context's
  branch for a missing Previous is dead.
- A story founded by an item without a country may hold prints of two countries
  (`story/rules.py:92-94`); `CountriesKeptApart` is about founders with one.
- "Category, urgency, breaking status" are said never to come from the AI (`README.md:45`), but
  `editorial_engine.py:148-159` takes an importance of 5 or the category "breaking" of the reply as
  breaking although the engine is confident, and the digest ranks by the AI's category and importance.
- The numbers of a headline are said to be preserved (`README.md:49-54`); single digits are
  exempt, and a number may stand only in `translation_ar`, which the message does not show, or in
  a what-to-watch that an importance below 3 leaves out (`validator.py:238-252`,
  `telegram_formatter.py:256`).
- The digest's texts are said to have "already passed number preservation and the Arabic-ratio
  gate at publish time" (`digest/formatter.py:3-6`). The gate reads `headline_ar` and
  `translation_ar` only (`validator.py:225`), so the explanation, the impact and the summary may be
  in another language, and the digest shows the summary. `NothingUncheckedShown` asks no more.
- An edit that Telegram answers with ok = false is taken for a success (`orchestrator.py:241`).
- Figures are shown "whenever they exist" (`telegram_formatter.py:228-233`), but a plain "0" counts
  as empty.
- Enrichment "can never block publication" (`README.md:32-35`); `stuck` shows a stage that does.
- The recovery speaks of transient states (`orchestrator.py:291`) and does not look for RECEIVED and
  AI_SUCCESS.
- An HTTP answer that is no JSON is handled with a variable that is still unset
  (`openai_provider.py:265-277`): the call ends by another exception than the one meant.
- At an importance of 1 a message can carry the badge of an update without the context it
  updates.
- The third stage of the digest's trimming is dead while the soft limit is below the hard one.
- Types of optional fields are not checked (`validator.py:190-262`): a reply that the database
  cannot store fails the commit and leaves AI_PENDING, with every service in good health.
  `CommitSuccess` fails freely for it.
- A lost race for a key in the indicator or the story stage rolls back, and the next `news.id` ends
  the task: AI_PENDING again without any failure.
- A date in zone -0000 parses to a time without a zone, which compares with neither the cutoff nor
  other items (`rss_poller.py:241`, `250`). The TypeError comes after the ETag was saved (190), so the
  items of that answer wait for the feed to change.
- When the founder of a series is itself a revision, a lost race surfaces at the autoflush of
  `indicators/engine.py:106`, outside the `try`: the backfill counts it as failed, not as recorded.
- Nothing limits the length of a premium message; Telegram rejects an edit above 4096
  characters and the item ends in FAILED.

Real hazards without a property, since the code promises nothing that decides them: an edit that
Telegram answers with ok = false (`orchestrator.py:241`); an ETag saved before an exception drops
what it covers (`rss_poller.py:190`); an item without a usable date, which passes the cold-start
cutoff (`rss_poller.py:237`); two related items that are matched at once each found a story
(`story/engine.py:95`); items at a boundary and repetitions of failed items
(`digest/selection.py:165`, `196`); the poller task that dies of a database error while seeding,
unseen by `/health` (`rss_poller.py:156`). The models contain each of these behaviours.

## 6. Not modelled, and the plan

Not modelled: configuration, logging, migrations, the health endpoint and the manual scripts (no
logic of this kind); the wording, escaping and labels of messages, the phrases that count as empty
(such a filler is no what-to-watch) and the list of assets; the regular expressions and keyword
tables of the classification, of which the models keep what they find and how that decides; the
extraction of numbers from a text; the wording of prompts; memory and sockets.

The modules were written in this order: the pipeline with its lifecycle, the poller, the
composition, the digest, stories, the selection, indicators, then classification, validation and
presentation, `Enrichment` over them, and the digest's text; the proofs after the runs that
found their invariants to hold.

What remains worth doing:
1. One clock for the digest scheduler and the pipeline: items at a boundary.
