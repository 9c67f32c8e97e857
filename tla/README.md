# Formal verification of the Unified LLM Client

The repository is a TypeScript library that puts one API over several LLM
providers: a client with routing, fallback, retries and budgets; conversations
with a model/tool loop; session persistence; an HTTP session API; usage
accounting; retrieval for chat bots. This directory models its stateful core and
its main algorithms in TLA+, checks the models with TLC and proves the main
invariants with TLAPS.

Paths of code below are relative to the implementation directory (`src/src/` in
PROJECT.json). JavaScript runs one callback to completion, so in every module an
action is the code between two `await`s of one caller, or one atomic command of
a database; everything that is awaited may interleave with other callers.

## 1. Inventory

| Component | State it keeps | Operations | What is hard | What makes it correct |
|---|---|---|---|---|
| `conversation.ts` | history, totals, version; turn queue; re-entrancy counter | `send`, `sendStream`, `clear`, `restore` | callers interleave at every await; aborts; callbacks that hang or outlive their time-out; ambiguous store writes | one turn at a time, first come first served; a commit appends one whole turn; memory never ahead of the store; cost counted once |
| `context-manager.ts` | none, except the summariser's call | `shouldTrim`, `trim` | pairs of calls and results, pinned messages, limits | results stay with their calls; the prompt of the turn survives |
| `stream-control.ts` | abort controller, iterator state | cancel, return, abort | cancel races a pending pull | an aborted turn can only end |
| `session-store.ts`, memory and Postgres | versioned records; schema promise | get, set, delete, list | compare-and-set; failing and ambiguous calls; records that change between pages | no write over a record nobody read; a listing shows each undisturbed session once |
| `session-store.ts`, Redis | records under a current and a legacy key | the same, guarded by Lua scripts or not; SCAN | two keys per record, keys shared by tuples, reads of several commands | one versioned record per tuple; tuples never meet |
| `session-api.ts` | none; shares store and conversations | create, message, stream, compact, fork, delete, list | several workers on one record; answers written after others' changes | requests take effect one at a time; answers agree with effects |
| `usage.ts` | two queues, flush promise, timer | log, flush, close, summaries | failed batches go back; flushes join each other; ambiguous inserts | every event counted exactly once; nothing stranded |
| `client.ts` | models, router, logger | complete, stream, embed, speak, transcribe | fallback around retries; failures after a paid answer; budgets; aborts; arrays shared with the caller | what was accepted is never sent again; usage reported once; an aborted request ends; a retried request is the one of the call |
| `router.ts` | rules | resolve | first match, weights, fallback chain | every attempt is one the registry knows |
| `models/registry.ts` | models and their prices | register, updatePrices, get, capability checks | a price table refused half way; requests in flight while it changes | no half-applied table; every record valid |
| `utils/retry.ts` | none | retry with back-off | which failures may be retried; abort while asleep | bounded attempts |
| `cost.ts`, `token-estimator.ts`, `audio-duration.ts` | none | pricing, estimates | providers count cached and thought tokens differently; missing prices | every token billed once |
| `providers/*` | one assembler per stream | request and response translation | deltas over event borders, tool calls by index, streams that break off | a streamed turn equals the whole answer, or is not recorded |
| `internal/provider-replay-state.ts` | states attached to messages | attach, copy, serialise, restore | indices that move; models that change | a state returns to its message and goes only to its model |
| `utils/parse-sse.ts` | a buffer | read | reads that cut lines and line ends | the events do not depend on the cuts |
| `retrieval.ts` | spaces, sources, chunks, embeddings, profiles; activation | upserts, activate, delete, search | a check and the write it allows are two statements; ids shared by tenants | tenants never see each other's chunks; an activated profile is one that may be |
| `chunking.ts` | none | chunkText | overlap, separators, blanks | no character lost |
| `chatbot.ts` | none | retrieveAndComplete | scopes, citations that do not exist | what is answered is grounded in what was found, in scope |
| `structured-output.ts` | none | schema translation | each provider's dialect, recursively | nothing the caller asked for is lost |
| `message-`, `tool-`, `cache-validation.ts` and the other validators | none | checks | formats | what is sent has passed them |
| `conversation-snapshot-validation.ts` | none | validateSnapshot | two sets of limits for the same settings | what restores is what was saved |
| `agent-files.ts` | none; reads the file system | instruction files, discovery and loading of skills | links; files that change between two awaits | what is loaded is under the root, as long as nothing changes |
| `pii.ts`, `redaction.ts` | none | redaction | patterns that overlap or are cut | nothing that matches stays |
| model discovery, embedding and speech validation, tool helpers, loaders | none | one request, checks, types | formats | shape only |

How they interact: the session API builds a conversation from the client for
every message; the conversation calls the client once per tool round and the
tool callbacks in between, and commits through the session store, with the
replay states of its messages beside them; the client resolves the routes,
translates the request for each provider, parses the answer or assembles its
stream, and logs usage; the usage logger batches into its own database. The chat
bot helper searches a knowledge base and asks the client with what it found. All
of them share one event loop, several processes share the stores, and every
caller may abort.

PROJECT.json lists 28 components with their status, and 40 hazards with the line
where each bites and the properties that would catch it.

## 2. The modules

| Module | Models | Extends / instantiates |
|---|---|---|
| `ConversationTurns` | one Conversation object and its callers | `ContextTrimming` is plugged in by the MC module as `TrimOutcomes` |
| `ContextTrimming` | the two context strategies as operators | EXTENDS `Ordering` |
| `Ordering` | loops over arrays: the order in which they meet indices, and what they have after some rounds | |
| `SessionRequests` | the handlers of the session API over a shared compare-and-set store | implements `SerialSessions` |
| `SerialSessions` | the abstract promise: requests take effect one at a time | |
| `RedisSessionStore` | commands and scripts of the Redis store | implements `VersionedStore` |
| `VersionedStore` | the abstract promise: one versioned record per tuple | |
| `SessionListing` | pages and cursors of the three stores while sessions are written | |
| `UsageQueue` | `PostgresUsageLogger` | |
| `ClientRequests` | one request of the client, its HTTP retries and its fallbacks | |
| `RequestPipeline` | what such a request contains: routes, checks, translation per attempt, price | EXTENDS `ModelRegistry`, `ProviderRequests`; INSTANCEs `ModelRouter`, `Costs`; `StructuredOutput` is plugged in by the MC module |
| `ModelRegistry` | the table of models | |
| `ProviderRequests` | validation, capability checks and translation as operators | |
| `ModelRouter` | rules, variants and fallbacks as operators | |
| `StructuredOutput` | formats and schemas as each provider is sent them | |
| `Costs` | usage made canonical, and its price | |
| `ProviderStreams` | the stream assemblers of the three adapters | EXTENDS `StreamedAnswers` |
| `StreamedAnswers` | the answers there may be, their events, and what `complete()` makes of them | EXTENDS `Ordering` |
| `ReplayState` | Gemini's replay state in a conversation and its saved sessions | EXTENDS `Ordering`; INSTANCEs `ContextTrimming` |
| `KnowledgeBase` | both retrieval stores and their clients | |
| `AlgorithmTrials` | one call of a pure algorithm against what it promises | INSTANCEs the next five |
| `RetrievalRanking`, `GroundedAnswers`, `Chunking`, `ConversationSnapshots`, `SpeechRequests` | the algorithms, as operators | the first and third EXTEND `Ordering`; `SpeechRequests` EXTENDS `Costs` |
| `ParserTrials` | the same for the algorithms that walk trees and streams | EXTENDS `AlgorithmTrials`; INSTANCEs the next two |
| `SseParser`, `PrivacyFilters` | these algorithms, as operators | |
| `...Proofs` | proofs about the module of that name (`ConversationTurns`, `RedisSessionStore`, `UsageQueue`, `ReplayState`, `ProviderStreams`) | EXTENDS it; `ConversationTurnsProofs` also EXTENDS `ContextTrimming` |
| `ClientProofs` | proofs about a request: its control and its content | EXTENDS `ClientRequests`, `RequestPipeline` |
| `SessionApiProofs` | proofs about the session API: its requests and its listing | EXTENDS `SessionRequests`, `SessionListing` |
| `RetrievalProofs` | proofs about the knowledge stores and about the calls of `AlgorithmTrials` | EXTENDS `KnowledgeBase`, `AlgorithmTrials` |
| `MC...` | instances for TLC | EXTENDS the module of that name; `MCRequests` EXTENDS `RequestPipeline`, `ParserTrials` and `SessionListing` |

The layers meet at narrow interfaces. A turn of `SessionRequests` is one turn of
`ConversationTurns` seen from outside (it ends or fails); the store of both is
the record that `VersionedStore` promises and `RedisSessionStore` implements; the
write of `ConversationTurns` may succeed, conflict, or fail before or after it
took effect, which is what every store may do. `ClientRequests` has the control
of a request (attempts, routes, aborts) and `RequestPipeline` its content; a turn
sees of both that a model call answers or fails, and that an aborted one ends.
A streamed answer becomes a message by `ProviderStreams`, a message keeps its
replay state by `ReplayState`.

### 2.1 ConversationTurns

| State | Code |
|---|---|
| `pc` | where a call of `send`/`sendStream` stands between its awaits |
| `turnActive`, `turnWaiters` | the fields of the same name |
| `activeToolExecutions`, `running` | the counter, and the callbacks it should count |
| `round`, `pending`, `work`, `spent` | locals of the tool loop: round, unanswered calls, working messages, aggregated cost |
| `messages`, `totalCostUSD`, `version` | the committed fields |
| `stored` | the record in the session store |
| `arrivals` | history variable: order of entry into `acquireTurn` |

`Call`, `Abort` and `Release` are `acquireTurn`, the waiter's `onAbort` and
`createTurnRelease`. `Start` is the continuation after the grant, with both
checks repeated. `Prepared`, `FinalReply`, `SkippedReply`, `ToolReply`,
`StepFails`, `CallTimesOut` and `CallbackSettles` are the loops
`runCompleteToolLoop` and `runStreamToolLoop`; `ConsumerPulls` and
`ConsumerStops` are the two things the consumer of a stream may do at a yield.
`PersistOk`, `PersistConflicts` and `PersistFails` are `finalizeExecution`;
`LoggerFails` leads to `billing`, which is `applyUsageLoggerFailure`. Messages
are reduced to their turn and one of four kinds, costs to small numbers.

### 2.2 SessionRequests

A handler goes through `check`, `load`, `turn`, `write` and `read`, each a store
call or a model turn. `Commit`, `Conflict` and `StoreFails` are the guarded
write of a handler; `StoreFails` may have taken effect. `Expire` is the TTL of a
Redis store. A session is the list of its turns, a turn is named by the request
that brought it, and `origin` is a history field, the request whose write brought
this incarnation of the session into being. A create reads the store twice, in its
own check and in `client.conversation()`; when the session came into being in
between it carries on with the restored record instead of its own messages
(`Started`), and its write, which expects no record, is refused unless that record
has gone again.

### 2.3 RedisSessionStore

`redis` maps keys to values, `V2` and `Legacy` give the two keys of a tuple, and
legacy keys may coincide with any key of another tuple, because the separator may
occur in a name. `ReadExisting`, `ReadV2`, `ReadLegacy`, `Write` and `Unlink` are
single commands of `get`, `set` and `delete`; `GuardedSet` and `GuardedDelete`
are the Lua scripts, which Redis runs atomically. `absent` is a history variable
that remembers for whom a session was missing at some moment of a call.

### 2.4 UsageQueue

`queue`, `batch`, `stage` and `timer` are the two arrays, the locals of the
running flush, what `flushPromise` awaits, and `flushTimer`; `rows` counts each
event in its table. `Flush` is the synchronous part of `flush()`; `Resume` is
its continuation after joining another flush; `Settle` is the `finally` block
with the promise it settles; `InsertFails` covers a failed `ensureSchema`,
a failed INSERT, and one that took effect without an answer.

### 2.5 ClientRequests

| State | Code |
|---|---|
| `request` | the options and the client's configuration: kind of call, number of routes and which of them have an API key, what to do over budget, usage logger |
| `pc`, `resume` | the await the request is at, and at a `yield` what follows it |
| `route`, `tries` | the indices of the loops in `complete`/`streamWithFallback` and in `withRetry` |
| `visible`, `warned` | `emittedUserVisibleChunk`, `budgetWarningIssued` |
| `aborted` | the signal |
| `replies`, `requests`, `logged`, `warnings` | history: what each provider answered, how often it was asked, what the logger and the application were told |

`Affordable` and `Unaffordable` are the head of the loop over the routes with
the budget decision; `Keyless` is `get*Adapter` without an API key, which throws an
`AuthenticationError` and so falls back without an HTTP request; `Dispatch`,
`Respond` and `Retry` are `withRetry` with the error mapping of the adapters; `Complete`, `Chunk` and `Malformed` are what may
come of an accepted answer; `LoggerAnswers` is the usage logger; `Pull` and
`Stop` are the consumer of a stream; `Abort` and `AbortObserved` the signal and
the code that watches it. A response is one of five classes: accepted, refused,
transient, any other status, or a fetch that fails. Speech goes over one route.
`visible` is kept because the code keeps it; with the built-in adapters no error
after an accepted answer is retryable, so it never decides anything.

### 2.6 RequestPipeline

| State | Code |
|---|---|
| `conversation` | the caller's array of messages |
| `prepared` | the options of the call; of a managed one (with a context manager) also the array the manager returned |
| `asked` | history variable: the messages as they were at the call, or, of a request that is not managed, at its last attempt |
| `plan`, `at`, `sends` | the resolved routes, the loop over them, `withRetry`'s attempt |
| `phase`, `wire` | where the call is, and the body of the last HTTP request |
| `bill` | what was priced, with the registry's record at that moment |
| `models`, `refused` | `ModelRegistry.models`, and whether its last call threw |

`Call` is `withValidatedRequest` with `resolveRequestPlan`, which resolves every
route or throws; `DispatchCall` the adapter's capability check and its first attempt;
`SendBody` builds the body anew for every attempt, as `buildRequestInit` does;
`RetrySend`, `FallBack`, `Answer` and `Failed` are the outcomes. `Write` is the caller,
who keeps the array, and `ChangeRegistry` whoever holds the registry; both may
come at any step. A message is a role and parts; a part keeps its type, the
fields it was given and a tag for its payload, so that order, loss and doubling
show. What structured-output.ts decides about a format is three constant
operators (`FormatCapable`, `FormatRejected`, `SchemaOnWire`): `MCRequests` gives
them the definitions of `StructuredOutput`, whose walks over schemas are
recursive, and states `SchemasKept`.

### 2.7 ProviderStreams and StreamedAnswers

An answer is a sequence of parts with a finish reason; `PartEvents` are the
events the provider cuts each into, `Response` what `complete()` makes of all of
them. `todo` holds the events not yet sent, `tools` and `asm` are the assembler
(buffered calls; finish reason, usage, native parts), `chunks` what the consumer
was given, `turn` and `status` what the conversation made of them. One action per
event type of each provider. Parts of OpenAI and Anthropic may overlap where
their protocols let them; a Gemini chunk carries any number of parts. A stream
may end early, carry a malformed event, or be cancelled, at any step.

### 2.8 ReplayState

`history` is the conversation's messages with their states, `working` those of
the turn in flight, `saved` the session as written, `loaded` whether the
conversation is in memory, `strategy` its context manager and `repeats` whether
the model asks for identical calls. `Send`, `Answer` (of either Gemini model or
of another provider after a fallback) and `Fail` are a turn; `Restart` and `Load`
the loss of memory and `Conversation.restore`; `Compact` and `Fork` the handlers
of the session API. A signature is the model and the answer it came with.

The adapter attaches the parts of an answer as they come, and the limits are
checked in different places: a state with more than `MaxParts` parts or
`MaxToolCalls` calls is left out of the snapshot (`Matches`); a snapshot whose
states are larger than `MaxSize` is not made, so that the turn throws and nothing
of it is kept (`Finish`, `Fits`); more than `MaxEntries` states, or a part whose
keys or signature `inspectReplayPart` does not know (`known`, `Recognised`), are
found only when the session is restored (`Acceptable`, `refused`). Sizes are
counted in parts instead of bytes.

### 2.9 KnowledgeBase

`spaces`, `profiles`, `sources`, `chunks` are the four tables (a chunk's embedding
is a column of its row), `schema` is `ensureSchemaPromise`, which keeps a rejection
until `Close`, and `backend` is the store that runs. `call` says what each client is
in the midst of. The calls of one statement are one action for both stores. In
memory the others are one step too (`SetProfile`, `ActivateEmbeddingProfile`); with
Postgres they check in one statement (`CheckProfile`, `CheckActivation`) and write
in another (`WriteProfile`, `WriteActivation`). A retriever searches once per kind,
dense and lexical, in any order. An owner is a pair of tenant and bot.

### 2.10 SessionListing

`records` are the stored sessions under their current and legacy keys, `listing`
the request of a client that walks from page to page: its options, cursor, pages
and what SCAN has returned so far. Postgres and the memory store look once per
page (`LookOnce`), Redis scans key by key (`ScanKey`, possibly twice the same,
`ScanEnds`). `Set`, `Delete`, `DropLegacy` and `Tick` come in between. A delete
removes a session at once (memory, Postgres) or one of its keys: the script of a
guarded delete removes the one a get would read, after which an older copy shows
again, and an unconditional delete is two such steps.

`PagesCoverListing` has two halves. `UndisturbedShownOnce` is about the sessions
nobody has written since the walk began (`Kept`): one that the walk has passed
stands at exactly one of its `Places`, one it has not passed at none, and any two
of them stand in the order of the listing (`Above`); it holds with sessions coming,
moving to the top and going away meanwhile. `BackShowsSame` is about a walk during
which nothing was written. `Passed` reads the cursor of the last page, so a last
page, which has none, has passed every session.

### 2.11 AlgorithmTrials and ParserTrials

The algorithms keep no state, so a behaviour is one call: `Try` (in `ParserTrials`
`TryParser`) picks an algorithm and arguments, and one invariant per algorithm compares its answer with a
definition that does not follow the code: every character of a text that is no
blank is in a chunk; the payloads of a stream are those of the uncut stream; the
merged ranking holds one result of each key in the order of summed reciprocal
ranks; the saved conversation restores to the same settings, or those given
instead; an answer of the model is passed on only if it
was supported and cites results that were shown, and is charged to the scope the
search was filtered by; a speech call costs no more, as logged, than a budget it
may not exceed, and every answer is logged once; redaction replaces what it
reports and nothing else, and reaches every text of a tool call that is no link,
annotation, media data or encoding. The sets of calls are constants with what
the types of the code and its own checks ensure as assumptions; `MCRequests` gives
small ones.

In `ConversationSnapshots` a conversation is a record of its options. `Settings`
are those a snapshot holds, `NotSaved` the others; `Constructed` fills in the
defaults, `Snapshot` leaves them out again, with the handlers of the tools
(`Definitions`), `Accepted` is the validation and `Restored` the static
`restore`. `Expected` says what should come back to a caller who gives some
options anew; `budgetExceededAction`, the context manager, the store, the
dispatcher and `onWarning` are in no snapshot and come back with their defaults
unless they are given (`client.conversation()` gives the client's action, warning
handler and store, client.ts:704-716). In `RetrievalRanking` an identifier is a
sequence of characters, since `Key` joins two with a colon that both may hold.

`MCRequests` puts these calls, the pipeline and the listing in one
instance; they share no variable, and in each behaviour only one of them moves.

## 3. The runs

| Run | Instance | What it shows |
|---|---|---|
| `queue` | two sends and a stream, one tool call, one round, strict logging, a store, one foreign write | queue, order, re-entrancy, history, totals, memory against store, aborts |
| `budgets` | a send and a stream under fairness, budgets of 3 and 2, costs 1 and 2, two rounds, a window of three messages | spending exceeds a budget by less than one response; trimming keeps results behind their calls; every called turn ends though callbacks may hang |
| `session_serial` | three requests of every kind but delete, two sessions, faulty store, implicit creation | the handlers implement `SerialSessions`; answers agree with effects; a message's answer shows its turn once |
| `session_deletes` | the same with deletes and expiry, under fairness | nothing is created over a record, no silent overwrite within an incarnation; every request is answered |
| `redis_guarded` | three callers, two tuples, the legacy key of one is the v2 key of the other | guarded calls implement `VersionedStore` |
| `redis_mixed` | all calls, a shared legacy key, records with two copies | reads return own records; guards compare what a get would find; tuples stay apart |
| `usage_queue` | two completions, a speech event, a flush, a close, two timers, two failing inserts, batches of two | no event lost, stranded or counted twice; an explicit flush leaves none of its events queued |
| `client` | one request of any kind, three routes, three attempts, any answers, failing loggers, an abort at any moment | an accepted request is never sent again; a route is left only for want of a key, after a refusal or when its retries are used up; one usage event, one budget warning; an aborted request sends nothing more, does not end well, and ends |
| `retrieval` | two tenants, one space, profile, source and chunk, two shapes of vectors, two clients, both stores | no search shows another tenant's chunk, no write takes over or empties another's row; what was checked before an activation holds when it is written |
| `streams` | answers of up to three parts in up to two pieces, three providers | a streamed turn equals the answer of `complete()`; it is recorded exactly when the stream was whole and kept the protocol; consumers see each call start, grow and end once |
| `replay` | two Gemini models and another provider, three turns with one tool round of up to two calls, a window of four messages or a summary that keeps one | states go only to the model that wrote them and come with all their signatures; results carry the ids and names of their calls; a saved session restores to the conversation in memory, less the states too long to save, and is refused only for the number of its states or for a part restore does not know |
| `requests` | three models of three providers, up to three messages, one registry change, three attempts; the trials; two listed tenants, one write, three pages | what is sent is the conversation of the call, in order, or the request is refused; schemas keep every property, or tighten it; every token has one price; the registry stays valid; pages show each undisturbed session once; each algorithm keeps its promise |

Bounds, and why they are enough. Three turns are one holder and two waiters, the
least for order among waiters and for an abort between hand-overs. One tool call
per round suffices for the time-out races, since calls of a round interact only
through the counter; the proofs hold for any number. Two rounds are the least
for trimming between rounds and for a budget with an earlier round. One foreign
write makes every later commit conflict. Three requests are two that race and a
third that changes the session between their write and their answer; two
sessions are what a fork needs. In the Redis runs each caller makes one call, so
three callers give every overlap of three calls, and versions up to 2 separate
"absent", "old" and "written once". In `usage_queue`, batches of two
let an event fill its queue while another waits, and two failures let a batch go
back twice. In `client` three routes and three attempts (the default of
`withRetry`) give a first, a middle and a last one of each.

In `retrieval` one row of each table is what two tenants can contend for, and two
clients give every overlap of a check with a write; the proofs hold for any
number. Three parts in `streams` are two calls and something beside or between
them, two pieces an argument text that is cut. In `replay` a window of four drops
a message pair of an earlier turn while the next one runs; with one saved entry,
two parts and one call to a state and room for three parts, every limit is both
met and passed: two answers of two parts make a turn throw, two calls in one
answer lose their state, a second short answer or a strange part has the session
refused. In `requests` three messages
are a call, its result and a message around them; `MaxSends` 3 is two attempts on
a first route and one on the next; schemas have objects in objects and in lists
and meet the limits of nodes (8), depth (4) and properties (4) from both sides;
three pages of one or two sessions cover three sessions stored under up to two
keys each. Two of the four results to merge have one key. Settings are
tried with zero, the default, a fraction and a value beside the limit; tools with
and without a handler, and two of one name; and three sets of options to restore
with: none, some that equal defaults or zero, and some of each kind.

The cfgs name every bound; `MaxForeignWrites`, `MaxFailures`, `MaxMessages`,
`MaxChanges`, `MaxSends`, `MaxWrites`, `MaxPages`, `MaxTurns`, `MaxRounds` and
`MaxCalls` are the ones that appear in guards. Symmetry is used only in runs
without temporal formulas about fairness. `CHECK_DEADLOCK FALSE` stands where all
calls of an instance may have returned; `retrieval` and `replay` check that there
is always a next step.

Fairness. `ConversationTurns` assumes that each turn that can move does: a
provider, store or context manager answers or fails, time-outs fire, and the
consumer of a stream pulls or returns. Tool callbacks get none, since nothing in
the code can make them settle. `SessionRequests` assumes that handlers proceed.
`UsageQueue` assumes that an armed timer fires, an insert ends and a settled
promise resumes those who await it; that inserts do not fail for ever comes from
`MaxFailures`. `ClientRequests` assumes that timers fire, the usage logger
answers or fails, and the consumer of a stream pulls or leaves; providers get no
fairness, so that an aborted request ends even if one never answers. The body of
an error response is read by `response.json()` without a watch on the signal; the
model has this read end with the response, which a `fetch` that honours the
signal it was given ensures. The other modules state safety only: their steps
depend on callers, who owe nothing.

## 4. The proofs

All theorems hold for every value of the constants that satisfies the named
assumptions of the modules: no bound of section 3 is assumed.

`ConversationTurnsProofs`. The inductive invariant is the types, `TurnQueueSound`
with the fact that no waiter's signal has fired (so `Release` serves the first
waiter and rejects none), and `CallbackInv`: the counter is the number of
running callbacks, no callback is of a later round than its turn, and a working
turn has only callbacks of its own. The last needs that `Start` tests the counter
after the grant. `MemoryMatchesStore` is inductive on top of it; `AbortStopsWork`
is an action property of every step from it. `NoOvertaking` needs that the
waiters stand in the order of `arrivals` (`ArrivalOrder`), which an abort that
takes one out of the middle keeps.

Its second part is about what a conversation keeps. `AccountInv`: the total is the sum of what the
committed and billed turns spent, a sum over a set that grows by one turn at a
time; the lemmas on sums say that one added term adds its cost once, in whatever
order a sum is taken. `BudgetInv` bounds what each turn at work has spent, and
says that a turn that is `requesting` asked before and had something left; the
theorem supposes finitely many costs, one of them positive, which a price table
is. `HistoryInv`: a turn's work is the committed history with only its own
messages behind it, as nobody else commits while it holds the conversation;
`CommitsCorrect` supposes a manager that trims nothing (`TrimsNothing`), since
one that trims removes messages on purpose. `PairInv`: results stand behind
their calls in every list, and a turn whose callbacks run ends with calls;
`PairsCorrect` supposes a manager that keeps pairs (`TrimsKeepPairs`), which
`findRemovableMessageGroups` is for. Both strategies do (`StrategiesKeepPairs`),
with any limits and any messages pinned: whatever a removed group holds, results
never stay without the calls in front of them (`GroupsKeepPairs`), and then those
are their neighbours in the shorter list as well (`WithoutKeepsPairs`); a summary
takes the first free place, which is never between the two (`SummaryKeepsPairs`).
`PairsUnderStrategies` is the result for a conversation that uses one of them.

`SessionApiProofs`, first part (`SessionRequests`). `AppliedInv`: a request has taken effect only from its
write on. `BaseInv`: within one incarnation versions only grow and a version
names one record, so an equal version means an equal record; that needs
`OriginInv`, incarnations were created by requests that took effect, and so a new
one never has an old name. `NoSilentOverwrite` follows. `Serializable` is the
refinement to `SerialSessions`, under `NothingDeleted`, where also a session once
read stays in its incarnation (`KeptInv`). `RepliesCorrect` follows the content
of records too: a turn that has not been written is in no record
(`UnwrittenInv`), and one that has been is in the record exactly once until the
session is compacted, deleted or expires (`UndisturbedInv`), so the record a
message reads for its answer shows it once.

`SessionApiProofs`, second part (`SessionListing`). `ListingAssumption` says that a store starts with finitely
many records, that a page holds at least one session (session-store.ts:1216-1221
refuses other limits) and what a session is: nothing of how many there are, which
filters a client uses or how large its pages are. The order is total on sessions,
so in a finite set the numbers of those before each one are 0, 1, 2, ... without a
gap (`Ranks`, `RanksTaken`, by the pigeonhole), and `Sorted` lists the set once in
ascending order (`SortedLists`). Cutting a page then gives the same page for the
memory store and, by `QueriedTakes`, for Postgres, which reads a backward page the
other way round (`PageTakenShows`: what the page shows, and which candidates its
cursor leaves for the next). `ScanCollects`: what a scan has read of the sessions
nobody wrote is what the store holds of them, although its records were read at
different times and may be of either key. `ScanInv` carries that through a scan:
a read record of an untouched session still stands, and a key of one that has not
been read is due; `DropLegacy` is the step it has to survive, as the record under
the old key goes away while that under the new one stays. `WalkInv` (`Walked`)
says of each page which untouched sessions it shows and that its cursor is beyond
them and behind all the rest; it survives writes because what it says is about
untouched sessions only, and a further page because that page starts at the
cursor (`WalkGrows`). `QuietInv` says that without a write every stored and every
shown session is untouched, and then the candidates of a step back are exactly
those before the page, of which the last ones are the page before (`TakesPiece`,
`StepsBack`).

`RedisSessionStoreProofs`. `PlacedInv`: records lie only under keys of their
tuple, and an unconditional set that got past its first read has a free key or
its own. From it, for any assignment of keys, reads are of the own tuple.
Tuples stay apart (`ApartCorrect`) under `NoForeignDelete`: nobody deletes
unconditionally, or no legacy key is the v2 key of another tuple. That is needed:
section 5 has the run of two commands that removes another tuple's record
otherwise. `UnlinkInv` says what the second command of a delete may find.
`GuardsCorrect` needs no hypothesis: a script that is accepted compared the
version a get would find then. Under `GuardedOnly` and with one copy of each
record at the start there is never a second (`OneCopyCorrect`), and then the two
keys refine `VersionedStore` through `Table`, which maps each tuple to what a get
would find (`Refinement`).

`UsageQueueProofs`. The inductive invariant adds to the three checked invariants
that a speech insert has no text left in its batch (`TextFirst`), and that a
call that runs the flush has taken every event logged before it (`OwnersTook`);
without the first, the end of a flush could drop text events, and the second
carries `FlushLeavesNothingQueued` from the start of a flush to its return. The
lemmas about `Append` and concatenation say which events a queue holds.

`ClientProofs`, first part. The inductive invariant of `ClientRequests` says where the request is in its
routes and attempts (`Position`), that only the route under way can have been
accepted and is then being read, logged or over (`Accepted`), why each earlier
route was left (`Reasons`), and what has been logged at each place (`Reporting`).
`PaidOnce` and `AbortStopsRequest` are then properties of single steps: no HTTP
request is sent from a place where the route is accepted, or after an abort.

`ClientProofs`, second part: `RequestPipeline`. `RegistryInv` says that every
record of the registry passed the validation of its last change and that the
models of a running request are in it: nothing removes a model, and every route
was looked up before the first was tried. `BillInv` says that a bill is the cost of
what one provider reported, by a record of the registry; `FlatCost` is the
arithmetic of three ways to count tokens. `RequestInv` says that every part of the
conversation carries its place as its tag, that a managed call has kept the
messages it was made with, and that what was sent last is the translation of
them for one provider. `RequestFaithful` is then a fact about translations, proved
for conversations of any length (`WireFaithful`): each adapter sends each message
as a sequence of items, and these are the parts of the message that are not
lifted into the system prompt, each once, in an order that only parts of
different types may leave (`PieceOrdered`); what the adapter concatenates is a
sequence in the order of message and place (`ContentsOrdered`), and so are the
system texts (`TextsOrdered`). The assumptions are what the providers promise
about their counts (for OpenAI and Gemini the cached tokens are among the input
tokens), that messages, parts and rules have their fields and are in arrays, and
that `Unset` is neither a number nor a kind of model. Nothing is assumed of how
structured output decides.

`RetrievalProofs`, first part: `KnowledgeBase`. The inductive invariant says what each client in the midst
of a call has established (`InFlight`): a search holds hits of its own tenant
only (`ResultsWithinTenant`), and a checked activation names a profile that is
still there, of the same owner and space (`CheckedActivationHolds`). The latter
needs `Kept`: no statement of Postgres removes a profile, changes its owner or
anything else of it. `TenantsKeptApart` and `ActivationsCorrect` put both halves
of the two checked properties together; the only assumption is that `None` is no
row.

`RetrievalProofs`, second part: `AlgorithmTrials`. A state of `TrialSpec` is one
call (`OneTrial`), so each theorem is about one algorithm for every argument its
assumption admits: texts and lists of any length, any numbers. What the loops
compute is an invariant of their rounds, proved by induction over the number of
the round (`UpToAtEnd`).

- `ContextBudgets`: `Narrowed` says of the binary search of `truncateBlock` that
  its best cut is the one just below `low` and fits, and that the one just above
  `high` does not fit; each round leaves fewer lengths, so the search ends. `Shown`
  says of the blocks collected so far that they fit together with the header, and
  that they are the whole results until one was cut.
- `AnswersAreGrounded` uses of it that no more results are shown than there are.
- `ChunksCover`: `OnWay` says that everything before the walk's offset is blank or
  in a chunk, and that the offset is at no blank. That needs the text to begin
  with a character (`Tidy`, an invariant of `cleanText`) and a boundary to be
  beyond the start of its chunk, though a match may reach over the proposed end.
  Every round goes forward, so as many rounds as there are characters suffice.
- `FusionIsRanked`: `Tallied` says that the entries are one for each key met so
  far, in that order and with the result first met under it, and what all places
  of the key met so far are worth together (`Worth`). Nothing is assumed of the
  keys: different results may share one, and a list may repeat one.
  `SortedIs` turns the cardinalities by which `Sorted` is defined into a
  permutation; with limits that large nothing is left out (`LimitKeepsAll`).
- `SettingsSurvive` follows from what a proper conversation's settings are
  (`Savable`), that each is written, checked and read the same way
  (`RestoreUndoesSnapshot`, field by field from `SnapshotFields` and
  `ConstructedFields`), and that what comes back to proper options is savable
  again (`ExpectedIsSavable`); it is about whole numbers and a clock that does not
  run backwards, as the property says.
- `SpeechBudgets`: `CostGrows` says that more of anything costs no less; what is
  estimated of a request is no less than what is reported, for the units priced
  beforehand.

`ReplayStateProofs`. `ReplayInv`: every message in memory, in the turn and in
what a restart would restore is `Linked`, that is, a state it carries is one its
model's adapter made of a signed answer with the message's own calls; and the
saved session is the snapshot of the list it restores to, which is the
conversation in memory less the states too long to save, and it fits (`SavedInv`).
With it `SavedCorrect` is a fact about serialising and restoring: a snapshot gives
back what it holds (`SnapshotRestores`), and one that could be made is refused for
its entries or parts only, since every state in it matches its message
(`StateMatches`, `SnapshotAcceptable`).
`BoundCorrect` and `NamesCorrect` are facts about what a linked message is sent
as. `SignatureReplayed` says more: the state is not lost on the way. `FaithfulInv`
adds that every message made of a signed answer that is short enough to be saved
still carries that answer's state, and that no message reads the same as a signed one of another answer,
because the arguments of calls of different answers differ; copying by content
(`copyGoogleReplayStatesByMessage`) then finds the right message as long as the
trimmed list keeps the order of the list (`FaithfulCopies`, `KeptOrderCopies`,
`SlidingWindowWithin`). Sessions whose calls repeat and summarised ones are
outside of the property, and section 5 says what happens to them. The
assumption `ReplayAssumption` gives the types of the constants.

`ProviderStreamsProofs`. The theorems hold for answers of any number of parts in
any number of pieces (`MaxParts`, `MaxPieces`), any tool names, and every way the
events may be cut, interleaved, repeated or broken off. The inductive invariant
`IInv` says how far a stream has been read (`Reading`) and that what the consumer
was given is in order (`Orderly`). OpenAI and Anthropic send the parts of an
answer beside each other, so each call is at a `Stage` of its own: it waits for
all its events, is open after `j` of its pieces, or is over; the stage fixes at
once which events may still come, what the assembler buffers, what the turn has
and what the consumer saw. The text of the turn is what the text parts have sent,
in order (`TextInOrder`): it is compared as a strictly increasing sequence with a
given set of pieces, of which there is only one (`Ordered`). Gemini sends whole
parts and may merge, sign and repeat them, so its invariant names a place `p` and
says what the first `p` parts have become (`GeminiAt`), where each call stands in
the native parts kept for replay (`Kept`) and which calls may be sent again
(`Repeatable`). Each handler has a lemma that it continues this or throws.
`EndIsWhole` is what a stream that finishes has collected; with it the end records
exactly what `complete()` would return (`Matches`).

The proofs about data do their own inductions. `NatSetInduction` (a set of
numbers with 0 and closed under successor) and `FiniteSetInduction` follow from
the well-foundedness of `<`; recursive functions (`SlidingWindow`, the walk of
`CopyStates`, `Total`) are unfolded from a lemma that a function with their
equations exists, to which the choice in their definition then applies; so are
`CollectedAll` and the `FlattenSeq` of the library. A loop
with a state is `Loop` of `Ordering`, a recursive function of the number of rounds.
Loops
over an array that pick indices are written with `InOrder`, which is not
recursive: its lemmas (`InOrderEnumerates`, `RankProperties`) are about
cardinalities only.

Theorems that state a property of a run: `ExclusionCorrect` (`TurnsExclusive`),
`FairQueue` (`NoOvertaking`), `StoreCorrect` (`MemoryMatchesStore`),
`AccountingCorrect` (`AccountingExact`), `CommitsCorrect`
(`CommitsWholeWantedTurns`), `BudgetsCorrect` (`BudgetRespected`), `PairsCorrect`
and `PairsUnderStrategies` (`ResultsFollowCalls`), `RepliesCorrect` (`AnswersTrue`), `OverwriteCorrect`
(`NoSilentOverwrite`), `Serializable` (`ImplementsSerialSessions`), `Refinement`
(`ImplementsVersionedStore`), `TuplesCorrect` (`CallsKeepToTuple`),
`CountedCorrect` (`CountedOnce`), `PaidAndLogged` (`PaidAndLoggedOnce`),
`TenantsKeptApart` (`TenantsApart`), `ActivationsCorrect` (`ActivationsHold`),
`SignaturesCorrect` (`SignaturesFollowModel`), `NamesCorrect`
(`ResultsNameCalls`), `SavedCorrect` (`SavedSessionRestores`),
`ListingCorrect` (`PagesCoverListing`), `RecordedCorrect` (`RecordedIffWhole`),
`LifecycleCorrect` (`ToolLifecycle`), `StreamMatches` (`StreamMatchesComplete`),
`RegistryCorrect` (`RegistrySound`), `BillingCorrect` (`TokensBilledOnce`),
`RequestCorrect` (`RequestFaithful`), `ContextBudgets` (`ContextWithinBudget`),
`AnswersAreGrounded` (`AnswersGrounded`), `FusionIsRanked` (`FusionRanks`),
`ChunksCover` (`ChunksCoverText`), `SettingsSurvive` (`SnapshotRoundTrip`) and
`SpeechBudgets` (`SpeechBudgetKept`). Of two more the
safety half is proved: `FlushLeavesNothingQueued` of `NoEventStranded` and
`AbortStopsRequest` of `AbortHonoured`.

Only model-checked:

- all liveness (`EveryTurnEnds`, `EveryRequestAnswered`, and the other halves of
  the two above), which is out of the prover's reach;
- `SchemasKept`, whose schemas are walked by the recursive operators of
  `StructuredOutput`;
- the properties of `ParserTrials` (`PayloadsIndependentOfReads`, `RedactionSound`),
  which reaches the recursive operators of `SseParser` and `PrivacyFilters`, about
  which nothing can be proved here.

## 5. Where the code departs from what is said of it

The following were found with TLC while the models were written. The formulas
stay in the modules as statements that do not hold, and no run lists them.

Settings of a restored conversation:

- `GivenOptionsKept` (`AlgorithmTrials`):
  docs/PER_STEP_CONTEXT.md:5 has applications observe trimming through
  `ConversationOptions.onCompaction`, and docs/CONVERSATIONS_AND_TOOLS.md:52-54
  treats the options given when a snapshot is restored as the trusted policy;
  `Conversation.restore` (conversation.ts:625) passes on every other option but
  not this one, so a conversation of `client.conversation()` reports its
  compactions when its session is new and not when it is stored.

Conversations and sessions:

- `PromptKept` (`ConversationTurns`): todo.md:242 has the latest user message
  pinned by default; after a round of tools the latest message of role `user` is
  the one with the tool results, so a sliding window may drop the prompt of the
  turn in flight.
- `DoneMeansCommitted` (`ConversationTurns`): a consumer that leaves its loop at
  the `done` chunk ends the generator before `finalizeExecution`; the turn is not
  committed although it looked complete.
- `ImplicitMessagesAccepted` (`SessionRequests`): docs/SESSION_API_REFERENCE.md:58
  allows implicit creation; a streamed message to an unknown session runs the
  model, on `done` the handler looks the session up before the turn is committed
  (session-api.ts:1125), gets 404 and stops pulling; the turn is never committed.
- `CompletedShowsTurn` (`SessionRequests`): `response.completed` carries the
  session as it is before the turn it completes.
- `WritesBuildOnWhatTheyRead` (`SessionRequests`): a message loads version 1;
  the session is deleted and created again, at version 1; the message's write is
  accepted over a record it never read.
- `CreatedSessionsAreNew` (`SessionRequests`): docs/SESSION_API_REFERENCE.md:65 has
  `POST /sessions` create a new session snapshot; a create whose second read
  restores a session that another create has just made, and that is deleted or
  expires before the write, answers 201 with the deleted session's messages
  instead of its own (client.ts:693).
- `MessagesCreateNothing` (`SessionRequests`): a message passes its check, the
  session is deleted, `client.conversation()` starts a new one at version 0, and
  the guarded write creates it, although implicit creation is off.

Redis:

- `ExistingSessionsFound`: get reads the v2 key (empty), a guarded set moves the
  record from the legacy to the v2 key, get reads the legacy key (empty): null
  (session-store.ts:862).
- `VersionMonotonic`: of two unconditional sets that read version 1, or of one
  that overlaps guarded sets, the later write stores version 2 over a higher one.
- `DeletedIsGone`: an unconditional set copies a legacy record to the v2 key and
  leaves the old copy; a guarded delete of the v2 copy brings the legacy copy back.
- `KeptApart` with the unconditional delete, where the legacy key of one tuple is
  the v2 key of another: between the GET, which matched, and the DEL a guarded set
  moves the record away and the other tuple stores its own there, which goes.

Client, usage and retrieval:

- `FailsAfterLastRoute` (`ClientRequests`): todo.md:295 promises the fallback
  model "after terminal provider errors or exhausted retries"; an answer with
  status 400 or 404, or a fetch that fails, ends the request on its first route,
  neither retried nor sent to the next.
- `FlushDelivers` (`UsageQueue`): docs/PERSISTENCE_AND_SESSION_API.md:177; flushes A
  and B join C. When C ends, A takes the queue and inserts; B finds empty queues
  and returns, before A's insert ended (usage.ts:392).
- `CheckedProfileHolds` (`KnowledgeBase`): two calls of `upsertEmbeddingProfile` for
  one id pass the immutability check; the second insert does nothing, and its
  caller is told of a profile that was not stored.
- `EveryHitGiven` (`AlgorithmTrials`): the fused list has one result per key, and
  `("a:b", "c")` and `("a", "b:c")` have the same one (retrieval.ts:634), so that
  one of two different chunks is lost.
- `SavedSessionsLoad` (`ReplayState`): a turn is saved with any number of states
  and any parts; `restore`, compaction and fork then refuse more than 64 states
  (provider-replay-state.ts:213) or a part with a key they do not know, such as
  executable code (line 280, gemini.ts:1121). The conversation in memory goes on,
  and is lost with the process.

What the models show of the code, without a formula of its own:

- A request without a context manager keeps the caller's array, so its retries
  and fallbacks send what was written meanwhile; `RequestFaithful` therefore speaks
  of the conversation at the last attempt for these.
- A summary keeps messages but not their replay states
  (provider-replay-state.ts:104 and 112, against docs/CONVERSATIONS_AND_TOOLS.md:175),
  and states follow their messages by content, so identical calls share one.
- Gemini calls without ids in different chunks of one stream get equal ids
  (gemini.ts:1301).
- Refusal deltas of OpenAI and `error` events of Anthropic are ignored in streams.
- An Anthropic answer cut by `max_tokens` after a whole call: `sendStream` throws
  where `send` records the turn.
- The OpenAI translation drops `isError` of a result; Gemini drops
  `disableParallelToolUse`, and `maxOutputTokens` where the format of 3.5 models is
  used.
- A time-out below one millisecond, a fractional `maxTokens`, a session id with
  control characters and an `updatedAt` before `createdAt` (the clock set back) are
  saved and then refused by `restore`.
- Estimates leave out cache writes, so a budget check may pass what costs more.
- The in-memory knowledge base does not compare the tenant of a chunk's source,
  as the join of Postgres does; `TenantsApart` holds because the chunk's own tenant
  is compared.
- Redaction of a text is not idempotent where marks meet digits, and two cards
  side by side may be read as one number (pii.ts:363).
- A speech answer that arrives just before the signal fires is paid and not
  logged (client.ts:605).

Seen, without a property: `PostgresSessionStore` and the Postgres knowledge store
(retrieval.ts:2050) keep a rejected `ensureSchemaPromise`, so that one failure of the
first call fails all later ones, while `PostgresUsageLogger` resets its own;
`KnowledgeBase` models it, `SessionRequests` does not; the event id of a logger
failure is marked as applied before the totals are persisted
(conversation.ts:1441); while the database is down each event past the batch size
starts a flush of an ever longer batch (usage.ts:579).

## 6. Not modelled

- `agent-files.ts`: every load resolves a path, looks at it and reads it in three
  awaits, while other programs may change the file system between any two. What
  it promises of links holds when nothing changes meanwhile, and then because of
  its own checks alone; a model would repeat them.
- Whole parts: model discovery (one request and a merge), validation of
  embeddings and of speech inputs, tool type helpers, loaders and entry points;
  they keep no state and decide nothing that others read twice.
- Client: `embed`, usage queries, the length of back-offs; the queue of
  `MockLLMClient` is test equipment. Registry: the built-in price table and list
  filters. Router: predicates given as functions; the hash of a session is any
  number.
- Providers: embeddings, file formats of audio, options that are copied without a
  decision; nested fields of responses; the headers of audio files; the tokenizer.
- Conversations: `prepareStep`, Markdown export, validation of tool arguments
  against their schema.
- Session API: HTTP routing, body validation, authorisation hooks, SSE framing and
  the formatting of records. Session stores: schema creation, SQL text, the
  arithmetic of TTLs.
- Usage: the SQL of summaries, CSV export, the console logger.
- Retrieval: the DDL of the schema, the arithmetic of vectors, metadata filters, rerankers, SQL text.
- Parsing: JSON of structured answers, frontmatter of skills, wording of prompts.

Within the modelled parts messages are opaque but for the fields a property
tells apart, costs and prices are small integers, and floating-point rounding is
left out.

## 7. Plan

1. `SchemaOnce`: the sharing of `ensureSchemaPromise` by the stores that keep a
   rejected one and the logger that resets its own, against a promise of recovery.
2. Usage-logger failures across two writes of totals (conversation.ts:1441), with a
   crash between them.
3. `embed` beside the other calls in `ClientRequests`; metadata filters beside the
   tenant filter in `KnowledgeBase`.
4. A composition of `ConversationTurns` with `ReplayState`, so that an aborted turn
   and a fallback meet in one history.
