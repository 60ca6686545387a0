# DocIntel in TLA+

DocIntel is a multi-tenant document question-answering system: services in Kotlin
(Spring) and Python (FastAPI) that share PostgreSQL, Qdrant, an S3 object store, Redis
and ClickHouse. This directory models the services that carry its own logic: the life
of a document through `document-service` and `ingestion-service`, the answering of
questions by `rag-service`, the loading of sample datasets and the collection of
telemetry. None of them has a transaction that spans two of the stores, and most of
their state is shared by threads, asyncio tasks and several deliveries of one message.

Paths below are relative to `src/services/`; `document/` stands for
`document-service/src/main/kotlin/com/docintel/document/`, `common/` for
`src/lib/docintel-common/docintel_common/`.

## 1. Inventory

| Component | State it keeps | Operations | Interacts with |
|---|---|---|---|
| document lifecycle (`document/service/DocumentService.kt`, `messaging/`, `scheduler/PendingDocumentSweeper.kt`) | `documents` and `chunks` rows; files in the object store | upload, from-path, files.available, process, complete, fail, delete, delete-all, sweep | users, data-loader, `documents.ready` and `ingestion.complete` streams |
| deletion worker (`document/scheduler/DeletionTaskWorker.kt`) | `deletion_tasks` outbox; the page of entities in memory | poll, guard, delete vectors / files / chunks / row, done / cancel / attempt | Qdrant through ingestion-service, object store |
| vector reconciliation (`document/scheduler/ReconciliationSweeper.kt`) | none of its own | discover tenants, scroll, compare, delete | Qdrant, `documents` |
| stream worker (`ingestion-service/src/stream_worker.py`, `common/messaging.py`) | `tenant_queues`, tasks, semaphore; the stream's pending list in Redis | read, queue, dispatch, handle, acknowledge, reclaim, shut down | Redis streams, the pipeline |
| ingestion pipeline (`ingestion-service/src/pipeline.py`, `pdf_probe.py`, `page_router.py`, `extractors/`) | shard checkpoints and pipelines in memory; Qdrant points | probe, route, extract, split, write, append, resume | Qdrant, object store, the vision model, document-service's chunk endpoints |
| question answering (`rag-service/src/pipelines/query.py`, `api/main.py`, `components/`) | one shared service object with its `_last_*` fields, the LLM semaphore, the semantic cache collection | query, stream, disconnect, cache, invalidate | Qdrant, policy server, reranker, LLM, ingestion-service's delete endpoints |
| conversations (`rag-service/src/db.py`, `components/summarizer.py`) | conversations, messages, rolling summary | read history, store, compress, rename, delete | LLM |
| model settings (`components/model_resolver.py`, `common/model_profile_resolver.py`) | four process caches | resolve, save, invalidate, expire | PostgreSQL, web-ui |
| data-loader (`data-loader/src/`) | jobs with a replay buffer in memory | select samples, PUT, publish, report, follow | object store, document-service, browsers |
| analytics-service (`analytics-service-py/src/stream_consumer.py`) | buffer shared by three tasks | read, flush, reclaim, close | Redis, ClickHouse |
| ingestion jobs and SSE (`ingestion-service/src/job_registry.py`) | job snapshots and waiters in memory | push, stream, evict | the pipeline, browsers |
| cleanup jobs (`document/service/cleanup/`, `sse/CleanupSseRegistry.kt`) | two maps of jobs; SSE emitters | start, run, cancel, progress | `markForDeletion` |
| stream subscriptions (`document/config/RedisStreamConfig.kt`) | consumer groups | create, deliver once | Redis |
| tenant context | thread-local tenant; row-level security | set, restore | every transaction |
| api-gateway | Redis counters | authenticate, authorise, count | every service |
| admin-service | tenant records | create, update, delete a tenant | PostgreSQL, Redis, identity provider |
| web-ui, deployment | - | - | - |

What makes the behaviour hard, and what correctness means:

- **Document lifecycle and deletion.** The entities carry no version and PostgreSQL runs
  at READ COMMITTED, so every "read the row, decide, save" is two steps that other
  threads separate. `JpaRepository.save` writes all columns of what was read; saving an
  unchanged entity writes nothing; saving an entity whose row went inserts it again.
  Calls between methods of one bean bypass `@Transactional`. Correct means: a document
  being deleted is owned by somebody who will finish; COMPLETED means file, vectors and
  chunks exist; nothing in flight stays so for ever.
- **Stream worker.** At-least-once delivery on top of an in-memory queue, with the
  reclaiming loop delivering again what the same process still holds. Correct means:
  no entry that can be read is acknowledged before a terminal event, none is forgotten.
- **Reconciliation.** Two reads of two stores at different times, and a delete later.
  Correct means: what belongs to no document goes, for a tenant that is visited at all.
- **Ingestion pipeline.** Vectors, rows and checkpoint of a shard are three writes;
  redeliveries and restarts repeat any suffix of them; point ids overwrite each other.
  Correct means: a settled, completed document has all of its text, once and in order,
  and each piece can be found.
- **Question answering.** A request awaits a dozen calls; between two of them other requests
  run, documents are deleted, the client leaves, and the LLM's thread posts into a queue.
  Correct means: what a request was denied never reaches its prompt, its sources or what it
  caches (a replayed answer is another matter, see below); an outage is not taken for an
  empty corpus; the text arrives whole; permits come back; a stale answer is not cached for
  longer than the race that made it.
- **Conversations and settings.** Background compressions overlap turns and one another;
  caches fill from reads that an invalidation overtakes.
- **Data-loader and telemetry.** Counters are raised between calls that fail or lose
  their reply; a signal is cleared after the event it announced; three tasks flush one
  buffer.

`PROJECT.json` lists every hazard with its line and the property that covers it, or why
none does.

## 2. Modules

| Module | Models |
|---|---|
| `DocumentLifecycle` | document-service's documents, outbox and worker, with ingestion-service and data-loader as its environment |
| `VectorReconciliation` | `DocumentLifecycle` composed with the daily `ReconciliationSweeper` |
| `DocumentLifecycle_proofs` | inductive invariant and theorems of both, among them that COMPLETED documents are stored |
| `AtLeastOnce` | abstract: what a consumer of a Redis stream promises |
| `StreamWorker` | ingestion-service's consumer; implements `AtLeastOnce` |
| `StreamWorker_proofs` | inductive invariant, type correctness and the refinement |
| `PageReading` | pure: probe, routing, OCR quality checks, escalation and the vision model, for one page |
| `IngestionRun` | `PageReading` composed with the runs of ingestion-service: shards, checkpoints, rows, vectors, verdicts, redelivery |
| `IngestionRun_proofs` | its four safety properties as theorems |
| `TokenSplitter` | pure: `TokenAwareSplitter` and its overlap |
| `TextInputs` | every text it may be given, and what it promises |
| `AnswerGuard` | pure: `TrailingRefusalGuard` |
| `RagQuery` | `AnswerGuard` composed with the query endpoints, the cache, the LLM semaphore and thread, deletion and invalidation |
| `RagQuery_proofs` | its policy, staleness, outage and type theorems; lemmas about `AnswerGuard` and that answers arrive intact |
| `Conversation` | history, storage and compression of one conversation |
| `Conversation_proofs` | its four safety properties as theorems |
| `ModelSettings` | the two resolvers, their caches, and the browser that saves and invalidates |
| `ModelSettings_proofs` | that the caches are current and profiles of different kinds do not mix |
| `SampleSelection` | pure: which rows of a dataset become files |
| `SampleInputs` | every dataset it may be given, and what it promises |
| `DatasetLoad` | `SampleSelection` composed with data-loader's bulk load, its job registry and readers, and the data sources of document-service |
| `DatasetLoad_proofs` | its safety properties and those of `SampleSelection` as theorems; then `TokenSplitter`'s, by the same lemmas on folds |
| `AnalyticsConsumer` | the analytics stream and its consumer; implements `AtLeastOnce` |
| `AnalyticsConsumer_proofs` | its three safety properties and the refinement as theorems |
| `MC*` | instances for TLC; `MCAlgorithms` is also the enumeration of inputs for the pure modules |

Definitions whose comment begins "Mutant of" are altered forms of the definition they
name, used to see that a property notices the alteration. No specification uses them.

### DocumentLifecycle

State against code:

| Variable | Code |
|---|---|
| `row`, `stale` | `documents.status`; `updated_at` older than the sweeper's threshold |
| `task` | `deletion_tasks`: document, status, the two confirmation flags, attempts |
| `chunks`, `vectors`, `files` | whether the document has chunk rows, points, a file |
| `offered`, `ready`, `complete` | entries of `files.available`, `documents.ready` (unacknowledged), `ingestion.complete` (in order) |
| `run` | stage of the document's pipeline run |
| `tx[h]` | what thread `h` is in the middle of: step, documents, the status it read, rows its open transaction has locked |
| `wpc`, `batch`, `cur`, `copy` | the worker's step, loaded page, current task, detached entities |
| `requests`, `faults` | bounds |

Threads are the request threads (each with the coroutine it launches), one listener per
stream subscription, and the single scheduler thread that runs the sweeper and the
worker in turn (`tx["sweeper"]` and `wpc` exclude each other).

Actions follow the steps of the code. Registration (`uploadDocument` and
`registerFromPath`, which serves both `/from-path` and `FilesAvailableConsumer`) is
`DedupHit`, or `Admit`, `CancelQueuedDeletion`, `StoreFile`, `SaveRow`; the cancelling
UPDATE only takes effect with the commit in `SaveRow`, and until then it locks the task
rows, which makes the worker's save wait. `processDocument` is `FetchForIngestion`,
`MarkProcessing`, `Publish`, or `MarkFailed`. `markForDeletion` is `Flag`: row and task
in one step, because the transaction proxy is called from outside. `deleteAllDocuments`
is `DropCollection`, `SelectAll`, `FlagAll`, `QueueAll`: three transactions, because
there the proxy is bypassed. The consumer of completion events is `EventRead` and
`Verdict`. The worker is `Poll`, `TakeTask`, `Guard`, `DeleteVectors`, `DeleteFiles`,
`PurgeChunks`, `PurgeRow`, `SaveTask`, `RecordAttempt`, `WorkerFails`. Ingestion is four
steps: take, index, persist, report. `HandlerFails`, `IngestFails`, `PublishFails` and
`Crash` are the failures.

Abstractions: one tenant; a document's chunks, points and file exist or do not; the
back-off of a task is a choice of when it becomes due again; the pages (50 tasks, all
rows of a tenant) hold everything; every document yields at least one chunk; entries of
`documents.ready` beyond `MaxReady` for one document are not told apart; ingestion waits
while the completion backlog is at `MaxEvents`; the second try that `processTask`'s
catch block may give a failed save is left out.

### StreamWorker

Entries are numbered in stream order. `times`, `idle`, `acked` are the consumer group's
pending list; `buffer`, `queues`, `waiting`, `active` are the process's memory, lost by
`Crash`. `Read`, `Enqueue`, `Dispatch` (one entry per tenant and call), `Claim` (XAUTOCLAIM,
which also returns what this process still holds, the oldest `ClaimSize` of them),
`Acquire`, then `Check` (delivery count), `Fetch`, `Run`, `Report`, `Ack` per task. An entry
whose payload is not JSON (`Malformed`) is acknowledged and skipped: `Discard` in the
reading loop, within `Claim` in the reclaiming one. In the reading loop that XACK is outside
of any try, so its failure (`DiscardFails`) ends the worker for good: `mode` is `dead`,
nothing is read or claimed any more, tasks in flight go on without a thread pool until a
shutdown. In `claim_idle` it is inside one: `ClaimFails` is a lost reply, or a failed XACK
behind some that were carried out. `Claim` acknowledges its malformed entries in the same
step in which it claims: nobody else holds them, and a crash in between is a `ClaimFails`
before the crash. A payload that is JSON and no object is not modelled: `payload.get`
raises, the reading loop ends as after `DiscardFails` with the entry unacknowledged, the
reclaiming loop logs it and leaves the entries behind it undelivered. `Shutdown` has two
outcomes: a cancellation that arrives in XREADGROUP is swallowed by the generator and the
process ends at once; one that arrives in the pause after a Redis error, or in the XACK of a
malformed entry, reaches the handler that gathers the tasks in flight (`draining`,
`Drained`). Time is one bit per entry: idle for five minutes or not. `Elapse` needs an empty
buffer, and no permit free beside a waiting task: the event loop does not take five minutes
for either. Copies of one entry in memory beyond `MaxCopies` are not told apart. Any other
step may take longer than five minutes.

The refinement mapping to `AtLeastOnce`: sent is `1 .. sent`, reported is the set of
entries some terminal event was published for, settled is `acked`. `Unreadable` entries
are the contract's exception, asserted by `common`'s `tests/test_messaging.py:146-147`: they
are settled (`Discard` of the contract) and never reported.

### VectorReconciliation

`EXTENDS DocumentLifecycle` with the daily pass as three more steps of the scheduler
thread, so its locals are `tx["sweeper"]` (steps `scroll`, `compare`, `purge`): a job that
is in the middle of something keeps the others of that thread from starting, `Crash` and
`HandlerFails` end the pass.
Only tenants with an active row are visited (`TenantVisited`). Whether the tenant owns such
a document besides `Docs` is chosen anew whenever the pass could start, and the tenant may
have none: orphans of a tenant whose last document is gone stay, and `OrphansRemoved` only
speaks of behaviours in which the pass visits the tenant again and again. The pass's second step (completed documents
without vectors) only logs and is left out.

### PageReading and IngestionRun

A page is a record of what the probe and Tesseract see of it: the text layer and its
number of characters, area, ink, table marks, the confidences and words of the OCR, and
the text that is printed. `Profile`, `InitialPath`, `WordValidityRatio`, `NoiseMarkers`,
`ShouldEscalate` and `VlmText` are the functions of those names with their thresholds;
`PageTexts` gives every text the page may yield, over the answers the vision model may
give to its attempts.

| Variable | Code |
|---|---|
| `entry` | entries of `documents.ready` with their deliveries |
| `run[t]` | the locals of `_run_pdf_sharded` and `_run_text` in a pool thread |
| `checkpoint` | `_checkpoint_cache`, in process memory |
| `vectors`, `rows` | points of the tenant's collection by id; chunk rows by index |
| `status` | the last verdict published |
| `marred`, `mishaps` | history and bound |

A run is `Take`, `Load` (with the resume decision), then per shard `Convert`, `WriteShard`,
`AppendRows`, `SaveCheckpoint`, and finally `DeleteCheckpoint`, `Report`, `Ack`; a text is
`WriteText`, `StoreText`. `Fail` is an exception anywhere in it, `Restart` loses the
checkpoints, `Take` of an entry that a thread already has is the reclaiming after five idle
minutes. `ConvertBlind` is a shard in which pages were lost without an error: the probe
failed, an extractor returned nothing, the vision model gave up. `Delete` is the deletion
worker's call. What the code cannot promise is named by `marred`: documents with two runs at
once, deleted under a run, an entry or a checkpoint, or with lost pages. What depends on the
pages is named too: a PDF is `Legible` when each page is read as printed in the end, and
`Shared` is a page that another PDF may read the same at the same number.

### TokenSplitter, SampleSelection and AnswerGuard

A text is a sequence of symbols: a number is a word of that many tokens, 0 a blank, -1 a
line break, -2 a full stop. `Recurse` is the recursive descent over the separators as a
recursive function; `SplitAt` (str.split), `Collected` (the loop of `_recurse`), `HardSplit` and
`TokenTail` are folds with the steps `Cut`, `AddPiece`, `AddWord` and `Keep`. What is
promised is `KeepsWords` and `KeepsBudget`: point 3 of the class's docstring
(`pipeline.py:133-136`) would cut a word that is over the budget in two by binary search,
but the code emits it whole (`:232-239`, "unavoidable"), so a chunk that cannot be divided
at a space or a line break may be over the budget. The overlap is decoded and becomes text
again. A tail that begins inside a word starts with a piece whose `##` the decoder keeps when
nothing precedes it, so k pieces come back as two marks and the rest of the word encoded
anew (`GivenBack`, `Remnant`). How many tokens that rest is alone depends on the vocabulary
and is the constant `Alone[k]`; otherwise what is decoded encodes as before. An unknown word
(`[UNK]`, dropped by `skip_special_tokens`) is left out, it only makes the overlap shorter.
A dataset row is
its title and length, a message its role and length; `Titled`, `Pairs` and `Scanned` are
the three branches of `_load_dataset_sync` as folds with the steps `Used`, `Turn` and `Scan`,
and `WellFormed` says which datasets they are for. A file is named by the places it was read
from. What is promised (`LoadsWhole`) does not mention folds: the files of a scan are the
first long rows, those of conversations the first exchanges (a question and the answer that
follows it with no other between them), both all of them or as many as were asked for
(`AreFirst`), and those of a dataset with titles are the first rows of the first titles, unless
these are short. The guard holds back the longest
suffix that may still become the refusal sentence, with the blanks before it.

### RagQuery

| Variable | Code |
|---|---|
| `pc`, `req`, `gen`, `parked` | a request: its step, its options, the locals of the generator `stream()`, suspended at a yield or not |
| `lastMode`, `lastTrace` | fields `_last_*` of the one `RAGService` |
| `llm`, `waiters`, `thread` | the task `run_llm`, the queue of the asyncio semaphore, the executor thread |
| `queue`, `said`, `failed` | items between thread and generator; history; the call raised |
| `corpus`, `dirty` | documents with vectors; delete calls that have not invalidated the cache yet |
| `cache`, `writing`, `events` | semantic cache with author and sources; writes under way; telemetry |
| `overlap` | history: who held a document when it was deleted |

There is one action per awaited step of `stream()` (`Begin`, `Embed`, `Lookup`,
`Expand`, `Retrieve`, `RetrieveExpanded`, `Validate`, `Rerank`, `Gate`, `Generate`,
`Consume`, `Account`) and one for what the endpoint does after it (`Publish`, with
`AnswerReported` or `StreamReported`). `Acquire`, `Emit`, `ThreadEnds` are the LLM's task
and thread; `Resume` and `Disconnect` the heartbeat wrapper, which prefetches one event
and closes the generator when the client has left; `Cancel` what GeneratorExit does.
`DeleteVectors` and `DeleteTenant` are the endpoints of ingestion-service, followed later
by `Invalidate`. Every call that the code guards with `except` may fail.
Abstractions: one tenant and one question, so answers share one cache slot; a document
stands for its chunks; scores are sets of documents above the thresholds.
A cache entry carries `level` and `roles`, and `CanHit` is the filter of
`SemanticCacheChecker` with the user's `Clearance` and `UserRoles` (both endpoints always
pass a user context). `stream()` names neither a classification nor roles when it writes
(`query.py:1109-1116`), so every entry is internal and for all roles. `gen[q].replayed` is
the history of a hit: the documents of the entry replayed.

### Conversation

The rows (`exists`, `title`, `messages`, `summary`, `upto`, `notes`) and, per turn, its
step, prompt and the locals of its compression. One action per transaction of `db.py`:
`LoadState`, `LoadRecent`, `Answer`, `StoreQuestion`, `StoreReply`, `Check`, `Compress`,
`Update`, `Note`; `Create`, `Rename`, `Delete`, `DeleteTenant` come from users and
admin-service, `Restart` loses the background tasks. A message is its turn and role.

### ModelSettings

`rows`, `choice`, `thinking` are the tables; `settings`, `platformModel`, `profiles`,
`platformRows` the caches, each entry with a flag `late` when it was resolved from a read
that an invalidation overtook, or from a fallback. A resolution is one action per executor
call; the browser's save and its call for the invalidation are separate (`owed`). `resolve`
reads the platform's and the tenant's rows at once (`asyncio.gather`): in the step `gather`
`ReadTenantRows` is in any order with `LookupPlatformRows`, `ReadPlatformRows` and
`KeepPlatformRows`, and `BuildAndCache` needs both; the sequence of `resolve_sync` is one of
those orders. The two reads are marked late apart: an invalidation marks the tenant's rows
of that tenant's resolutions that have read them (`HasOwn`), and the platform's rows when
the platform changed (`HasCommon`). `InferKind`, `BuiltinFor`, `BestMatch` and `Merge2` are
the functions of the resolver over names reduced to the marks they contain. Abstractions:
one user per tenant (the settings cache is keyed by both; the tenant's invalidation drops
every user's); expiry is a step that may come at any time.

### DatasetLoad

| Variable | Code |
|---|---|
| `source` | `data_sources` rows |
| `stored`, `stream` | files in the store, entries of `files.available` |
| `load` | the background task `_run_bulk_load` |
| `job` | the job of the registry with its replay buffer |
| `reader[r]` | an SSE client in `JobRegistry.stream` |

A client's loop is `Yield` (one event, during which others run), `Settle` (the signal is
cleared, the job looked at) and `Wake`; `Evict` and `Restart` take the job away.

### AnalyticsConsumer

The stream with its pending list, idle time and deliveries; the consumer's `buffer`,
entries read and not yet yielded, and one `_flush` per task (`Grab`, `Insert`, `Ack`).
`Kill`, `Shutdown` and `Closed` are the ends of the process; an error of XACK in the consume
loop ends it for good (`mode = "dead"`). `Malformed` events are acknowledged and skipped as
in the stream worker (`Discard`, within `Claim`, or failing in `DiscardFails`, `ClaimFails`).
`Unconvertible` ones are JSON that `_row_from_payload` cannot convert: it raises before the
try of `_flush`, the batch is gone from the buffer and stays pending (`Choke`), the timer and
the reclaiming loop log it and go on, and the consume loop ends.

The refinement mapping to `AtLeastOnce`: sent is `1 .. sent`, reported is the set of
events with a row in ClickHouse, settled is `acked`, unreadable are the `Malformed` ones.

## 3. Runs

| Run | Asks | Result |
|---|---|---|
| `MCDeletionRace` | two request threads upload, delete, delete-all, reprocess one document beside worker, sweeper, ingestion; nothing fails | `TypeOK`, `DeletingHasTask`, `SettledStays` hold |
| `MCDeletion` | files arrive and are deleted beside the daily pass while the tenant's other documents come and go, two failures, fair scheduling | `CompletedIsIndexed`, `OrphansRemoved`, `InFlightSettles`, `DeletionCompletes` hold |
| `MCWorker` | three entries, the first malformed, with one crash, shutdown or failed call | implements `AtLeastOnce`; `TypeOK`, `NoneForgotten` hold |
| `MCRagQuery` | two requests (streaming with cache and reranker; retrieval only) with different permissions and clearances while documents and the tenant are deleted | `TypeOK`, `PolicyHolds`, `StaleOnlyByOverlap`, `OutageNeverAbstains` hold |
| `MCRagStream` | two streams over one permit, texts with a two-word refusal whole, repeated or cut, disconnects, a failing LLM; fair scheduling | `AnswerIntact`, `PermitsCirculate`, `AnswersEnd` hold |
| `MCConversation` | three turns whose compressions overlap; rename, deletion, restart | `TypeOK`, `SummaryIsPrefix`, `VerbatimKept`, `SentOnce` hold |
| `MCIngestionRun` | a four-page PDF and a text in two threads, redelivered and resumed; two mishaps | `RunTypeOK`, `CompletedIsWhole`, `CompletedIsSearchable`, `CheckpointCovered` hold |
| `MCAlgorithms` | every text of up to seven symbols; every dataset of up to five rows of three titles, or of seven conversations and messages | `NothingLost`, `FitsBudget`, `SamplesAreWhole` hold |
| `MCAnalytics` | three events, one not convertible and one malformed, three tasks, three failures or stops; fair scheduling | implements `AtLeastOnce`; `CTypeOK`, `RowsWithinDeliveries`, `StoredInTheEnd` hold |
| `MCDatasetLoad` | one job of three datasets, one per strategy, two readers, two mishaps; fair scheduling | `TypeOK`, `CountIsBacked`, `DoneMeansLoaded`, `EndedSawAll`, `StreamsEnd` hold |
| `MCModelSettings` | two resolutions of a chat and a vision model, their reads concurrent, two edits, one failure or expiry | `TypeOK`, `CacheIsCurrent`, `KindsKeptApart` hold |
| `MCRagTelemetry` | two concurrent queries with tracing on | `TelemetryIsOwn` fails |

**The violation.** The trace id of a query is a field of the one `RAGService`, set when
the query begins (`query.py:533`) and read when it ends (`api/main.py:1078`). Between the
two the generator awaits many times; a query that begins meanwhile overwrites the field,
and the first publishes its telemetry with the second's trace. `query.py:520-522` says
the stored id identifies the query and links to its trace. The other `_last_*` fields
(retrieval mode, candidate counts, degraded, expanded, skipped) share the race;
`_last_retrieval_mode` is also read to decide whether the reranker may be skipped
(`query.py:751`).

**What the passing properties say beyond their runs.** `StaleOnlyByOverlap` bounds the
staleness of the cache, it does not deny it: an answer whose request held a document
when it was deleted may be written after the invalidation. `PolicyHolds` is strong for what
a request retrieves and weak for what it replays: the documents of a cached answer were
allowed to the request that wrote it, and the reader is cleared for internal documents, but
they may be denied to the reader; in `MCRagQuery` the first user does replay the second
user's document (section 4). `ContractSpec` of both consumers excepts malformed entries.
`StoredInTheEnd` excepts events that were trimmed, that are malformed and acknowledged, or
that wait while the consume loop is dead or an unconvertible event is pending, because
whatever shares a batch with it is dropped with it each time. `NoneForgotten` excepts a
worker that ended on the XACK of a malformed entry. `OrphansRemoved` is about tenants
the pass keeps visiting. `FitsBudget` allows an overlap that begins inside a word what the
remnant of the word is worth. `OutageNeverAbstains` covers
the step that drops everything below the threshold. `CompletedIsIndexed` is about
documents that were never deleted, because the worker may purge what a re-upload has
just stored (below). `CompletedIsWhole`, `CompletedIsSearchable` and `CheckpointCovered`
except the marred documents named above.

**Bounds.** One document suffices for the lifecycle: documents share the worker, the
streams and the scheduler but no handler relates two of them, and delete-all treats each
row alike; the theorems cover any number. Two task rows give a document deleted, uploaded
again and deleted again, which is where a stale save can hit the wrong owner; three
requests are needed for that. `MCDeletion` has one handler beside three consumers, the
scheduler, the pipeline and the pass, and two failures, which a task needs to become DEAD
when `MaxAttempts` is 2. `registerFromPath` called by data-loader differs from
files.available only in the thread it runs in and is in no run's requests.
In `MCWorker` all three entries belong to one of two tenants so that one waits behind
another; the first is malformed, the object of the second is missing; delivery count 2
reaches the DLQ branch. A failed XACK behind a successful one within one claim would take two
malformed entries and is left to the theorem.
Two requests are enough for every pair of steps in `MCRagQuery` to interleave, and one
permit makes them wait for each other; the two runs share the work because chunk texts
and the choice of documents do not depend on one another. In `MCRagStream` the refusal
has two words and texts have two chunks: it follows an answer, stands alone, is repeated
and is cut in its middle.
Three turns with threshold 2 and one verbatim message give two overlapping compressions
and a turn that reads between them. In `MCIngestionRun` the PDF has a digital, a blank, a
badly scanned and a table page in shards of two, so that a resume happens at a shard with
a page to escalate; two deliveries, two entries and two mishaps give a failed run, its
redelivery and a restart or overlap in any order. The inputs of `MCAlgorithms` exceed a
budget of two tokens several times and contain every separator; a word of three tokens is
cut by an overlap of one, and its remnant alone is two. The pages of `MCIngestionRun` make
each route and each quality check decide once, on values away from the thresholds, and the
vision model never gives up on the page that is escalated to it; the thresholds themselves
are lightly exercised. In `MCModelSettings` a further row that names a model exactly makes
7,480,000 states and was checked once. In `MCAnalytics`
a stream of length 1 trims entries and a batch of two is shared by three tasks. The
buffer of five events in `MCDatasetLoad` is smaller than what the job pushes. Handlers,
turns, threads and callers are symmetric in runs that check only safety with a symmetry
set. The systems may stop when nothing more is asked of them, hence
`CHECK_DEADLOCK FALSE`.

**Fairness.** Weak fairness of each thread and pipeline run: threads and coroutines are
scheduled by the JVM and the event loop, and calls to other services are taken to return or
fail. Time passes (`Age`, `Elapse`). The sweeper runs every five minutes and the worker
every 30 seconds on one scheduler thread, so each gets its turn between the other's: strong
fairness of `Sweep` and `Poll`, which are disabled while the other runs. A task in back-off
becomes due, so fairness of `Poll` is per task. The reclaiming loop of the stream worker
wakes every minute while the process is up: strong fairness of `Claim`. In `RagQuery` one
weak condition per request: the event loop runs what is ready, the LLM call has a timeout,
and a connected client reads. In `DatasetLoad` the task runs, clients read, the 25 s timeout
of the wait fires. In `AnalyticsConsumer` the timers fire and ClickHouse and Redis answer
when no further failure is chosen. Nothing is assumed of requests, failures, `Publish` of
new entries, or the daily pass ever finding the tenant to visit: that it does, again and
again, is the hypothesis of `OrphansRemoved`, which is no promise for a tenant whose active
documents are gone. One assumption is about operations:
`docker-compose.yml` gives the services no restart policy, so liveness after a crash is
relative to somebody starting the service again (`scripts/start.sh`).

## 4. Observations

Disagreements with comments and documents, and behaviour worth knowing, that the models
contain or that were met while writing them. Only the violation above is checked as one.

Document service and stream worker:

- `deleteAllDocuments` calls its own `@Transactional` method (`DocumentService.kt:398`), so
  rows (420) and tasks (421) commit apart; after a failure between them rows are DELETING
  without a task, against `DeletionTask.kt:17-18`. This is why `DeletionIsQueued` assumes
  `SoundDeletes`.
- deleteAll drops the collection first: a failure after it leaves COMPLETED rows without
  vectors and without tasks (`DocumentService.kt:391-398`); the daily pass only logs them.
- The worker's guard reads the row once; a registration that commits after it loses its
  file, vectors and row (`DeletionTaskWorker.kt:98-157`), against
  `DeletionTaskRepository.kt:22-24`.
- Setting PROCESSING on a PROCESSING row is no UPDATE, so `updated_at` stays old and the
  next sweep publishes again, against `PendingDocumentSweeper.kt:37-38`.
- Tenants without an active row are never reconciled (`DocumentRepository.kt:62`): when a
  tenant's last document is purged under a running ingestion, its vectors stay for good,
  against `ReconciliationSweeper.kt:21-24` ("Any ID that has no matching ACTIVE PG document
  is an orphan ... bulk-deleted").
- An entry that is not JSON is acknowledged without an event (`messaging.py:178-184`,
  220-225); when that XACK fails in `consume()`, or a payload is JSON and no object, the
  exception ends the worker, and nothing in the process starts it again, against
  "Reconnects automatically on transient Redis failures" (`stream_worker.py:54`).
- Reclaiming counts deliveries of an entry that only waits in memory, so an entry can be
  failed untried (`stream_worker.py:79`, 256-257).
- `consume()` returns on a cancellation, so the shutdown branch of
  `stream_worker.py:128-131` is not reached and tasks in flight are not awaited.
- A files.available entry whose handling throws is not redelivered, against
  `FilesAvailableConsumer.kt:110`.

Ingestion:

- A checkpoint is kept per document id: after deletion and re-upload a run may resume in
  the middle. A run longer than the five minutes of the idle claim is joined by a second.
- A resumed run uses the domain "general"; a first shard without text never clears the
  rows of an earlier run.
- Pages for which the vision model gives up, or an extractor or the probe fails, are
  dropped and the document completes; the docstring of `probe_pages` says callers must
  handle it.
- `word_validity_ratio` counts a repeated unknown word once, because `spell.unknown` is a set.
- An acknowledgement that fails after COMPLETED publishes FAILED.
- The overlap is added after splitting, so chunks exceed `max_tokens` by it, against
  "guaranteed to fit" (`pipeline.py:116`); an overlap that begins inside a word is decoded
  with its `##`, which are tokens of their own when encoded again, so it adds more than
  `overlap_tokens`, against "up to overlap_tokens" (`:249`); `content.find` gives repeated
  chunks the first one's offset.
- Two PDFs with the same text on the same page share a point id; the later one wins.

Question answering and conversations:

- Cancelling the task on a disconnect frees its permit while the thread runs on, so more
  LLM calls than `llm_concurrency_limit` can be under way (`docs/services/rag-service.md`).
- Whether a refusal that follows an answer without a space is dropped depends on where the
  engine cut the text (`answer_guard.py:48`): the start of the buffer counts as the start of
  a word, wherever it lies. The docstring (lines 7-9) promises the drop; the texts of the
  tests have a space there.
- Cached answers carry no classification and no roles (`query.py:1109-1116` passes neither
  `max_classification` nor `required_roles`), so the checks of `SemanticCacheChecker` let
  every user cleared for internal documents replay an answer made from documents that
  user is denied, against `cache.py:12-15` ("This prevents cross-user cache leakage of
  sensitive content"); a user cleared for public documents only never gets a hit.
- A partial answer after an LLM error is cached and stored; a chunk that carries
  reasoning and content loses the content in thinking mode.
- The cache is invalidated when documents are removed, never when they are added, against
  `cache.py:196`; rag-service's own `invalidate_cache_for_tenant` is never called.
- The error path of the stream publishes telemetry, that of `/query` does not; turns
  answered from the cache are not stored.
- Overlapping compressions can set the summary back and repeat notes; with threshold 8
  and 4 verbatim messages, messages between the two are in neither.

Model settings:

- The docstring of `model_profile_resolver.py` (lines 6-11) describes a chain of four; the
  code merges the tenant's best row over the platform's best row.
- The same docstring says "The resolver itself does NOT filter by kind" (lines 21-23) and the
  field `kind` that it "never affects resolution" (74), but `_best_match` passes over wildcards
  of another kind and prefers those of the model's (205-243, and the comment at 353-355).
  `KindsKeptApart` states what the code and its comment say.
- A change of the platform's model invalidates no resolver, and ingestion-service's
  resolver is never invalidated: both wait for the TTL. Fallbacks of failed queries are
  cached, and a resolution in flight over an invalidation caches what it had read.

Data-loader and analytics:

- A restart, or a failing `fail_data_source`, leaves a source LOADING; a failing
  `complete_data_source` that took effect is followed by FAILED over COMPLETED.
- `set_total` is overwritten by each dataset; a lost reply of XADD under-counts.
- An event pushed while earlier ones are yielded has its signal cleared, so the client
  waits for the 25 s timeout, against `job_registry.py:137-138`; the terminal event is
  dropped when the buffer is full.
- A selected title whose first row is short yields no file; a pair with an empty answer
  may still become one.
- An event that `_row_from_payload` cannot convert drops its whole batch at every delivery
  (`stream_consumer.py:179` is before the try), and in the consume loop ends `run()`; a failed
  XACK there ends it too. Events that cannot be parsed are acknowledged without a row.
- analytics-service's rates count SSE errors as abstentions, and a row's `created_at` is
  the time of its insertion.

## 5. Proofs

`tlapm` proves, for every value of the constants that satisfies the named assumptions:

| Theorem | States |
|---|---|
| `DocumentLifecycle_proofs!TypeCorrect` | `Spec => []TypeOK` |
| `DocumentLifecycle_proofs!DeletionIsQueued` | `Spec => []DeletingHasTask`, if `SoundDeletes` |
| `DocumentLifecycle_proofs!EndedTasksStay` | `Spec => SettledStays` |
| `DocumentLifecycle_proofs!CompletedDocumentsAreIndexed` | `Spec => []CompletedIsIndexed`, if `NoDeleteAll` |
| `DocumentLifecycle_proofs!SafeUnderReconciliation` | `RSpec => []TypeOK /\ []DeletingHasTask /\ SettledStays`, if `SoundDeletes` |
| `DocumentLifecycle_proofs!ReconciliationKeepsDocuments` | `RSpec => []CompletedIsIndexed`, if `NoDeleteAll` |
| `StreamWorker_proofs!TypeCorrect` | `Spec => []TypeOK` |
| `StreamWorker_proofs!Refinement` | `Spec => ContractSpec` |
| `IngestionRun_proofs!CompletedAreWhole` | `Spec => []CompletedIsWhole`, if every document is `Legible` |
| `IngestionRun_proofs!CompletedAreSearchable` | `Spec => []CompletedIsSearchable`, likewise |
| `IngestionRun_proofs!CheckpointsAreCovered` | `Spec => []CheckpointCovered`, likewise |
| `IngestionRun_proofs!TypeCorrect` | `Spec => []RunTypeOK` |
| `RagQuery_proofs!PolicyIsKept` | `Spec => []PolicyHolds` |
| `RagQuery_proofs!StaleAnswersOverlapped` | `Spec => []StaleOnlyByOverlap` |
| `RagQuery_proofs!OutageKeepsCandidates` | `Spec => OutageNeverAbstains`, if `TopK > 0` |
| `RagQuery_proofs!AnswersArriveIntact` | `Spec => []AnswerIntact` |
| `RagQuery_proofs!TypeCorrect` | `Spec => []TypeOK` |
| `Conversation_proofs!SummariesArePrefixes` | `Spec => []SummaryIsPrefix` |
| `Conversation_proofs!WindowIsKept` | `Spec => []VerbatimKept` |
| `Conversation_proofs!MessagesAreSentOnce` | `Spec => []SentOnce` |
| `Conversation_proofs!TypeCorrect` | `Spec => []TypeOK` |
| `DatasetLoad_proofs!CountsAreBacked` | `Spec => []CountIsBacked` |
| `DatasetLoad_proofs!EndedStreamsAreWhole` | `Spec => []EndedSawAll` |
| `DatasetLoad_proofs!DoneIsWhole` | `Spec => []DoneMeansLoaded` |
| `DatasetLoad_proofs!AtMostSamples` | `NumFiles[d] \in 0 .. Samples` for each dataset |
| `DatasetLoad_proofs!SamplesStayWhole` | `AnyDataset => []SamplesAreWhole` |
| `DatasetLoad_proofs!TypeCorrect` | `Spec => []TypeOK` |
| `DatasetLoad_proofs!NothingIsLost` | `AnyText => []NothingLost` |
| `DatasetLoad_proofs!ChunksFitBudget` | `AnyText => []FitsBudget` |
| `ModelSettings_proofs!CachesAreCurrent` | `Spec => []CacheIsCurrent` |
| `ModelSettings_proofs!KindsAreKeptApart` | `Spec => []KindsKeptApart` |
| `ModelSettings_proofs!TypeCorrect` | `Spec => []TypeOK` |
| `AnalyticsConsumer_proofs!StoredBeforeAcked` | `Spec => []AckedIsStored`: an acknowledged event has a row or cannot be parsed |
| `AnalyticsConsumer_proofs!DuplicatesAreRedeliveries` | `Spec => []RowsWithinDeliveries` |
| `AnalyticsConsumer_proofs!TypeCorrect` | `Spec => []CTypeOK` |
| `AnalyticsConsumer_proofs!Refinement` | `Spec => ContractSpec` |

**DocumentLifecycle.** Assumptions: `NoneAssumption` (None is no document and no task),
`BoundsAssumption` (the bounds are naturals, those of attempts, entries and events
positive), `ThreadsAssumption` (request threads are not the fixed ones).
`SoundDeletes` (no failure, or no delete-all) is the premise `DeletingHasTask` needs
because of the deleteAll described in section 4.

`DeletingHasTask` is not inductive: the worker's save overwrites a task it read earlier.
The invariant `IInv` adds what makes that save harmless:

- `RunHasEntry`: a run in progress has its entry unacknowledged, so `Ack` never takes
  the counter below zero;
- `TxShape`, `LocksHeld`: a transaction that voids tasks holds locks on PENDING tasks of
  its own document, and no two hold the same row; hence `SaveRow` cancels what it meant
  to cancel, and the worker's save does not fall between the UPDATE and its commit;
- `AttemptsLeft`, `WorkerShape`: what the worker holds has attempts left, is of the same
  document as the row, and the row has not ended; hence no ended task is rewritten;
- `Superseded`: from the moment the worker has decided to close its task, a row that is
  DELETING again has another owner. This is the heart of it: a task is closed after the
  row was seen resurrected or was removed, and a row becomes DELETING afterwards only by
  a deletion that brings a task of its own.

The invariant is that of `RSpec`, the specification with the daily pass; a run of `Spec` is
one of `RSpec`. The step from one state to the next is divided: `TypeStep` goes through all
actions; `StepKinds` then classifies every step by what it does to the outbox and the rows
(`Kind`), and `LocksStep`, `WorkerStep`, `QueuedStep` and `EndedStep` reason over those few
kinds. `Superseded` and `DeletingHasTask` are proved together.

**StreamWorker.** Assumptions: tenants are finite and each entry has one; missing and
malformed entries are entries; the sizes are naturals, those of batches and claims, delivery
limit and copies positive. The invariant is `TypeOK` with `InMemory` (what the process holds
was read), `PendingRead` (so is what is pending, and idle entries are pending), and
`AckReported` (a handler about to acknowledge has reported). `Refinement` then maps each
step to `Send`, `Report`, `Settle`, `Discard` or a stutter: no entry that cannot be parsed
is ever queued, and only those are acknowledged by the reading and the reclaiming loop.

**COMPLETED documents.** `CompletedIsIndexed` needs to know what an event or a run under way
stands for. `Indexed` says of a document whose deletion was never asked for (not `Owned`):
its run has stored what its stage implies (`Progress`), and when the row, an undelivered
event or the thread of the consumer says COMPLETED (`Claimed`), all three stores have it.
It is kept because claims only arise along report, event, verdict, row, and because the
worker removes nothing else than documents with a task; that its detached copy is about
the document of the task comes from the invariant above. The daily pass removes points
of documents that had no row when it compared, though it scrolled them earlier and deletes
later. `Spared` is why that spares such a document: an entry, a run, a thread about to
publish or points of it (`Traced`, `Sending`) imply that its row exists, since whoever
published had found the row, and rows go only by the worker; so the document is in
nothing the pass has scrolled and found without row (`Sifted`). `NoDeleteAll` is
the premise: the collection is dropped before any row is looked at, so a deleteAll that
fails after it leaves COMPLETED rows without vectors and without tasks.

**IngestionRun.** Assumptions: `IngestionAssumption` (shards are not empty, contents are
sequences of pages or texts). `DocRight` says of a document that is not marred: its
rows are parts of it at their places (`RowsRight`), its checkpoint counts the chunks up to
its page and rows and vectors hold them (`CheckpointRight`), COMPLETED means all are held
(`DoneRight`), and a run, of which there is one, has done what its stage implies
(`RunRight`). The chunks of pages `1 .. b` are those of `1 .. a` with those of
`a + 1 .. b` behind, which is why an appended shard continues what was stored. The points
of another document can only overwrite those whose text and place they have (`Shared`).
The three theorems have a premise, every document is `Legible`: what a page reads like
is not for the runs to ensure. `LegibleWhen` reduces it to the router and the extractors,
and TLC evaluates it for the instance (`AllLegible`). The type theorem has no
premise.

**RagQuery.** Assumptions: `DocsAssumption` (documents are finite, what is relevant is
context), `LimitAssumption` (at least one permit, finitely many requests), `NoneAssumption`,
`RequestsAssumption`, `UsersAssumption`. `IInv` is the shape of the variables with
`AnswersAllowed`, the part of `PolicyHolds` about retrieval and cache, which is inductive
once each stage says which documents its request may hold. `ReplaysHold` adds the replays:
every entry has the level `Internal`, so whoever hits one is cleared for it, and its
documents were allowed to its author. For staleness `Remembered` is added: a document that
is gone is in the overlap of every request and pending cache write that holds it, so what is
written after the invalidation is marked. For types `Line` is added: a call that has not
started has no thread, queue or park mark, the waiters are the waiting calls, each once, and
early stages have no LLM task; hence an acquired permit is released once.
`OutageKeepsCandidates` follows from where a request can be turned away with candidates:
only `Gate`, and only below tau. `TopK > 0` is needed because a request for no documents is
turned away with none.

For `AnswersArriveIntact` (assumptions `SentenceAssumption`: the sentence neither begins
nor ends with a blank; `ChunksAssumption`) the guard is taken first. `HeldFrom` describes where
`HoldFrom` cuts, and `Reads` that what was released and what is held spell the text fed so
far, the held part being blanks and a beginning of the sentence; from these
`Finish` gives what `Cleaned` or the whole text says. Then the queue: `Items` and `Spells`
say that the text the thread has said is what the guard was fed plus what the queue still
holds, in order, at every step of generator and thread. `Right` joins the two for
each request, from `Streaming` to `Whole`.

**Conversation.** Assumption: the threshold is not below the verbatim window.
`SummaryIsPrefix` is not inductive: an overlapping compression may write what it computed
from older state. `Holds` says of every turn that the summary it has read, and the one it
is about to write, is made of exactly the first messages and ends before the window
(`Absorbed`). A late write is therefore right too, only shorter. `Distinct` ties stored messages
to the stages of their turns, so none is stored twice and prefix and window share none.

**DatasetLoad.** Assumption: there is a dataset, each is well formed, and the sizes are
naturals. `Counted` says that the running count never exceeds what the stream holds of the
dataset in work (`PublishedOf`); it is kept because a file is counted after its XADD
answered, and `Ahead` says that the file in hand is not in the stream yet. `Once` says that
a job that ended has no task. `Terminal` gives the reader's half: whoever reads a job that
ended finds its end among the events kept, or the buffer was full. `Tally` gives
`DoneIsWhole`: the total is the sum of the counts of the sources completed so far, and those
are the ones before the dataset in work. For the types `Kept`, `Measured`, `Reported` and
`Behind` bound each counter by the number of files and each reader by the buffer. A sum over
a set is compared with the size of a union of disjoint blocks, and what a fold keeps is
proved from the fold's own definition; the values a fold takes on its way are a function of
how far it has come (`StatesOf`), and there is one such function per strategy (`ScanStates`,
`UseStates`, `PairStates`). What they keep: after k rows the files are the first of those
wanted among these rows (`NextFirst`, `AreFirst`). In a conversation `Waits` says which
question is pending after j messages, and an exchange completed by the next message is that
question's (`ExchangeIs`). A title's place in the list of unique titles is the number of
titles up to the row that opens it (`Listed`), so the selected ones are those of `Openings`.
With these `SamplesStayWhole` and `AtMostSamples` hold of every dataset; `AnyDataset`
(module `SampleInputs`) grows datasets by any rows and messages without end, and the run
`MCAlgorithms` takes some of its steps.

**TokenSplitter.** Assumptions: the budget is positive, the overlap a natural, and what is
left of a word takes a positive number of tokens (`AloneAssumption`). Again a property of a
fold is that of each step, `CutStep`, `AddReads`, `PieceReads`, `KeepIs`. `Marked` says of
the parts cut so far that with their separators they spell the text up to the cut; hence the
parts and separators have the text's words. What a loop has read it has put out or collected
(`HasRead`), and the buffer always fits, so `_recurse` never needs the last of its own
tests. That a chunk over the budget cannot be divided comes from the order of the levels: a
part cut at line breaks has one only behind its last word, a part cut at spaces likewise
(`BreaksLast`, `Within`), and cutting deeper keeps that. The five levels are then taken from
the last to the first (`LastLevel`, `NextLevel`), which gives `SplitterKeepsWords` and
`SplitterKeepsBudget` for each text. `AnyText` (module `TextInputs`) grows a text by any
symbols without end; the run `MCAlgorithms` grows it by five symbols up to a length, so what
holds of the first holds of every state of the second.

**ModelSettings.** Assumption: the platform is no tenant, models and rows are well formed,
and each scope has finitely many profiles to choose from. `Resolutions` says of a resolution
in flight that what it has read, the tenant's rows and the platform's each for itself, is
what the tables say now, unless that read is marked late (overtaken, or failed) or an
invalidation is still owed; `RowsAreCurrent` says the same of the platform's rows, which
have a cache of their own. A save makes the invalidation owed, and an invalidation marks
whatever it overtakes; with these `CacheIsCurrent` is inductive. `KindsKeptApart` chooses
the best of a set of rows: `Above` orders them, a finite table with a row that matches has a
best one, and `From` follows each field of the merged profile back to the row or built-in it
came from.

**AnalyticsConsumer.** Assumption: sizes are naturals, batches and counts positive. `Queue`
orders the ends of the stream and what is pending. `Batches` says that a flush past its
insertion has rows for its whole batch, so whatever it acknowledges is stored; what cannot
be parsed never enters the buffer, and is all that is acknowledged without a row.
`Accounted` pays for duplicates: the deliveries of an event cover its rows and its copies in
memory, which are those read and not yielded, those buffered and those in a batch about to
be inserted. A grab moves copies, an insertion turns each into a row, and only a delivery
makes one. For the refinement, `BatchesReport` says that whichever inserts take place, those
of a running task or those a stop leaves to their threads, the events with a row grow by
exactly the events of their batches, all of them sent: one `Report` of the contract. A
publish is a `Send`; an XACK is a `Settle`, enabled by `Inserts`, or a `Discard`; every
other step is a stutter.

**Only model-checked.** The liveness properties (`DeletionCompletes`, `InFlightSettles`,
`OrphansRemoved`, `NoneForgotten`, `PermitsCirculate`, `AnswersEnd`, `StoredInTheEnd`,
`StreamsEnd`): liveness under fairness and ENABLED are out of the prover's reach.
The library's induction theorems cannot be used, since they take an operator; where the
proofs above need induction over data (sums, folds, the best row, the longest suffix)
they take a least counterexample of a well-founded set instead.

## 6. Not modelled

- Cleanup jobs, the SSE registries and stream subscriptions of document-service: a cleanup
  job calls `markForDeletion` per document, which is `Delete` of `DocumentLifecycle`; what
  is theirs alone is progress for browsers and the creation of groups.
- `ingestion-service/src/job_registry.py`: the same code as data-loader's registry, which
  `DatasetLoad` models; nothing but a disabled test path writes to it.
- The REST endpoints of analytics-service, feedback, health and lists: queries that change
  nothing.
- api-gateway and admin-service: filters over counters and provisioning; they share no state with
  the modelled services beyond the tenant id, which the models keep constant.
- web-ui (beyond the order of its calls in `ModelSettings`), deployment files and
  policies, row-level security and header signatures.
- Conversion by docling, embeddings, prompts, names of files, cost and latency figures,
  metrics and logs: their results are inputs of the models.

What could follow: a paged `Poll`, and `CleanupJobs`.
