# EKRS in TLA+

TLA+ models of EKRS, a service that indexes parsed documents and answers constraint
queries from them (`rag/ekrs_rag`), and of the scripts that feed and repair it
(`scripts/`): what happens between a parser's notification and an answer, through
overlapping calls, threads, worker processes, lock expiries, failing stores, crashes and
restarts, and what the chunker, the retriever and the constraint solver compute. TLC
checks small instances; TLAPS proves every safety property of the passing runs for every
instance.

Paths below are relative to `rag/ekrs_rag/`, those of scripts to the repository.

## 1. The system

### Components, their state and their operations

| component | code | state | operations |
|---|---|---|---|
| Notify route | `api/routes/ingestion.py` | none of its own; one coroutine per call | `notify`, background `_run_pool_terminal`, `get_status`, replay |
| Tasks table | `storage/task_repo.py` | SQLite `tasks`: status, attempts, updated_at | `try_insert`, `mark_status`, `mark_failed_with_error`, `claim_for_retry`, `pending_tasks_older_than`, `recover_in_flight` |
| Redis lock | `concurrency/redis_lock.py` | one key per lock with a TTL of 300 s | `acquire`, `release` |
| Encoding pool | `services/encoding_pool.py` | pebble worker processes, futures | `submit`, `wait`, `stop` |
| Compensation scanner | `concurrency/compensation.py` | none | `scan`, at boot |
| Lifespan | `main.py` | the process, its threads and `app.state` | start-up, boot recovery, gauge reset, scan, serve, shutdown |
| Step-5 job | `services/step5_worker.py`, `services/step5_helpers.py` | one process per job | `run_step5` |
| Chunker | `ingestion/chunker.py` | none | `chunk_blocks` |
| Qdrant client | `retrieval/qdrant_client.py` | points of a collection | `upsert_chunks`, `get_ingestion_status`, `delete_old_versions`, search |
| FTS manager | `retrieval/fts_manager.py` | SQLite FTS5 rows, the schema of the table | `replace_doc`, `delete_by_doc`, search |
| Encoding router | `services/encoding_router.py` | channel cpu/gpu per worker process | `try_register_gpu`, `route`, `force_re_register_gpu` |
| Embedding service | `retrieval/embedding_service.py` | LRU+TTL cache without a lock | `encode`, flush |
| Retriever, rank fusion | `retrieval/retriever.py`, `rank_fusion.py` | none | hybrid search, RRF, filters |
| Constraint engine | `constraint_engine/` | none | hints, intervals, evidence, solve, fall back |
| Query routes | `api/routes/constraints.py`, `calculate.py` | none; the audit log for replays | evaluate, replay, calculate |
| Rate limiter | `api/middleware/rate_limit.py` | hits per address | `hit_and_check`, `retry_after` |
| Audit bridge | `observability/audit_bridge.py` | cross-process queue, drain thread | `put`, `start`, `stop`, `from_addr` |
| Audit log and index | `observability/audit*.py`, `api/routes/trace.py` | rotating file, offsets in memory | `write`, rollover, rebuild, lookup |
| Bulk import | `scripts/live_stress_60.py` | `failed_docs.txt` | resume, notify, poll, retry |
| Re-ingestion | `scripts/task_d_mvp_reingest.py`, `ingest_new_bundles.py`, `classify_ingest_failures.py` | a checkpoint file | notify, poll, classify |
| FTS migration | `scripts/migrate_fts_v1_to_v2.py` | none; the FTS table | dry run, rebuild |
| Pipeline (legacy), parsing, document repository, stale metrics cleanup, consistency checker, MCP, UI, tools | the rest | | see section 6 |

### How they interact

    parser --notify--> route --SET NX EX--> Redis   lock:ingest:{doc_hash}
                         |----INSERT/UPDATE--> SQLite tasks
                         |----submit--> pool --> worker process (Step-5 job)
                         |                        |--SET NX EX--> Redis  step5:{doc}:{version}
                         |                        |--scroll/upsert/delete--> Qdrant
                         |                        '--delete; insert--> SQLite FTS
                         '<---wait--- outcome --> UPDATE tasks --> POST callback --> parser
    lifespan: recover_in_flight, gauge := 0, scan(), then serve

    query --> rate limiter --> retrieve (embedding cache, Qdrant | FTS) --> evidence --> solve
                  |                                                                      |
    worker events --bridge queue--> drain thread --> audit log, index <---audit events---'
                                                          '--> replay, trace
    scripts --notify, status--> route        migration script --> SQLite FTS

The handlers of a server share one asyncio event loop: between two awaits nothing else of
that process runs. Worker processes run in parallel with it and with each other. The
tasks table, Redis, Qdrant and the FTS database survive a crash; calls, jobs, background
tasks, timers and gauges do not.

### Where it is hard, and what correct means

* **Idempotency of notify.** The lock may be taken, expired or left behind; only the row
  decides. Correct: a request is dispatched once, and its status follows
  unknown -> open -> completed/failed, with a bounded number of retries.
* **Crashes.** Rows stay QUEUED or RUNNING when their job has died. Correct: after the
  boot recovery nothing is in flight without somebody working on it, and nothing
  completed is reopened.
* **Swallowed errors.** Status write, gauge, callback are separate steps of a background
  task. Correct: success is only reported for a COMPLETED row; the gauge returns to zero.
* **Two stores, several writers.** A job writes Qdrant in batches, deletes older
  versions, and replaces the FTS rows in two transactions; another job may be anywhere in
  the same sequence, and the 300 s lock may lapse under an 1800 s job. Correct: what is
  reported as indexed stays searchable, the newest complete version never regresses.
* **Reads beside writes.** A retrieval reads Qdrant once and the FTS table twice while a
  job replaces the document; chunk ids do not tell versions apart. Correct: a retrieval
  with no re-ingest beside it answers from one version, and blanks nothing it knows.
* **Threads without a lock.** `encode` runs in several threads over one dictionary.
  Correct: every vector is that of its text, hits on entries others replace included, and
  the cache itself fails only in a race (the model may raise besides).
* **Text to numbers.** Hints and intervals are paired by position, evidence is
  deduplicated by a key, a solve intersects per branch and parameter. Correct: a bound
  belongs to the number or range it came from, the strongest source stays, the range
  reported is the intersection, and a scoped query is answered from its scope's rules.
* **Shutdown.** A start-up may fail anywhere, the steps of the shutdown may raise or time
  out, and `stop()` of the bridge empties a queue beside the thread that does the same.
  Correct: a step that fails leaves its own part running and no other, no event is lost on
  the way.
* **Scripts that can be killed.** A checkpoint, a list of failures or a half-rebuilt table
  is all a second run has, beside a service that may crash between its lock and its row
  and stores whose points may be cleaned away. Correct: what it skips is done, and where
  that cannot be had the exceptions are known.
* **Liveness.** After the 202 only background work can finish a request. Correct: it does,
  unless the process crashes, and then the next boot settles it once the row has been
  idle for the compensation window.

## 2. Modules

| module | models | built on |
|---|---|---|
| `RedisLock` | the lock: token, conditional release, TTL | |
| `TaskRepo` | the tasks table, one operator per method | |
| `TaskLifecycle` | abstract specification: the life of a request as `/status` shows it | |
| `Ingestion` | notify, pool, background task, boot, scan, crash | `TaskRepo`, `RedisLock`; implements `TaskLifecycle` |
| `Step5` | the worker's job on Qdrant and FTS | `RedisLock` |
| `EncodingRouter` | the choice of GPU or CPU in a worker process | |
| `Chunker` | blocks to chunks: accumulation, tables, the two-phase split, the hard cut | |
| `Lifespan` | start-up and shutdown of the process, every step that may fail or time out | |
| `AuditBridge` | the event queue, its drain thread and `stop()` beside it | |
| `AuditLog` | concurrent writes, errors of the disk, rollover, the index of offsets and the trace lookup | |
| `Retrieval` | one retrieval beside a re-ingest of its document | |
| `EvidenceKeys`, `IntervalSolver` | deduplication of evidence; `solve` and `solve_with_fallback` | |
| `SolverRequests` | the requests of the solver's two callers | `IntervalSolver` |
| `EvidenceBuilder` | a text to hints, intervals and constraints | `EvidenceKeys` |
| `ConstraintQuery` | queries and replays in flight while the index changes | `IntervalSolver` |
| `EmbeddingCache` | threads in `encode`, over the cache | |
| `RateLimit` | the limiter's table and its time | |
| `BulkImport` | the bulk import, killed and resumed | |
| `Reingest` | the re-ingestion scripts, their checkpoint, the classifier | |
| `FtsMigration` | the migration script on the table jobs write as well | |
| `Selection` | the items of a sequence that are in a set, and their places | |
| `DataProofs` | proofs: recursion along a sequence, selection, flattening, ranking | `Selection` |
| `IngestionProofs`, `Step5Proofs` | proofs | `Ingestion` with `TaskRepo`; `Step5` |
| `ServiceProofs` | proofs | `EncodingRouter`, `Lifespan`, `AuditBridge`, `AuditLog`, `RateLimit` |
| `ConstraintProofs` | proofs | `SolverRequests`, `EvidenceBuilder`, `ConstraintQuery` and what they use |
| `RetrievalProofs` | proofs | `Retrieval`, `EmbeddingCache` |
| `ChunkerProofs` | proofs | `Chunker` |
| `ScriptProofs` | proofs | `BulkImport`, `Reingest`, `FtsMigration` |
| `MCIngestion`, `MCStep5`, `MCQuery`, `MCService` | the instances TLC checks | |

**Ingestion.** `pc[h]` is the await (or the point between two awaits) a call is at. `loop`
names the coroutine between two awaits: `Resume` needs the loop free, `Continue` needs to
hold it, so `InsertRow; Admit; Enqueue; Submit` run without another *coroutine* in
between, while a crash, a TTL or a worker process may come anywhere. Every call that can
raise has the raising outcome as a disjunct, guarded by its member of `Faults`; a write
whose exception the code swallows is `Tolerated`. Notable fidelity points:
the queued exit does not release the lock (line 559); a raising admission gate or `submit`
leaves the route as a 500 with nothing undone; RUNNING is written when `pool.wait`
*returns*, immediately before the terminal status; `mark_failed_with_error` does not touch
`updated_at` while `mark_status` does, which is what `old` in `TaskRepo` tracks; boot turns
QUEUED and RUNNING into PENDING.

**Step5.** One document, several jobs of several versions. A job's calls to the stores are
one action each: one per upsert batch, two for `replace_doc`. Point ids are functions of
document, version and chunk, so a store of points is a set of batches per version; FTS
rows have no key, so that store is a count per version. `KillWorker` ends a job anywhere;
`ExpireLock` takes a key away anywhere.

**EncodingRouter.** The lock of the router makes each reading and each switch of the channel
one action (the audit event is emitted inside it); the self-check and the encoding lie
between actions, so their results may be about a device that has changed since. `check` is
the registering thread: first the initialiser of the process, then the probe, which clears
the flag and registers again in two critical sections. `encode[e]` follows a `route` call
through snapshot, GPU, exception, CPU. The device is good, drifted (encodes, but fails the
self-check) or broken.

**Lifespan.** `lifeStage` walks through the start-up in the order of `main.py:146-523`. Each
step may raise; from the settings check on, that leads into the `finally`, whose steps
stop what `app.state` names. `alive` is what really runs, `appState` what the `finally`
can see: the property is about their difference. A step of the shutdown may fail: the
exporter's is under no try of its own, so that its exception ends the `finally`
(`main.py:481-484`); `EncodingPool.stop` swallows what close and join raise
(`encoding_pool.py:358-375`); the drain thread and the cleanup's scan may outlive the time
they are given and end later (`LateEnd`). The Manager's process is stopped by nobody and
may die at any time. "down" is the end of `lifespan`: what the exit of the interpreter
ends (the Manager's process, daemon threads) is not modelled.

**AuditBridge, AuditLog.** `put` of the main process goes to the queue that is drained;
`from_addr` gives a worker a queue of its own in the manager that nobody reads, so worker
events are in `stranded`. The drain thread's check, get and write, and those of `stop()`,
are steps of their own. A write of the log is offset, line, registration, in three steps,
with a rollover inside the second; the index built at start-up counts characters where
seek wants bytes. The disk may fail at each: an offset that cannot be told is 0
(`audit.py:77-85`), and an error of the line is swallowed by `logging`, so that the write
registers the offset of a line that is lost, still in the stream's buffer (`held`), or was
to go to a file the rollover has moved away. `spoilt` keeps the traces this happened to.

**Chunker.** A text is a sequence of the character classes the code distinguishes. One
block is one step; the chunks made so far, and the group not yet put into one, are the
state. Each loop over lines, characters, fragments or rows is a function along its sequence,
one step of it an operator (`JoinLine`, `AddChar`, `CutOne`, `MergeOne`, `Row`). A block has
the text `extract_text` gives and, if it is a structured table, header and rows; the
class "h" marks a header's characters, which are put before rows again and again.

**Retrieval.** The job of `Step5` is reduced to the four writes a reader can come between:
points of the new version, points of the old one gone, rows gone, new rows. A retrieval is
its vector search, the two statements of its keyword search and the rest. Chunk ids are
equal across versions, as in the code. The shipped app builds its retriever without the
FTS manager (`main.py:272`): both cases are behaviours.

**IntervalSolver, EvidenceBuilder, ConstraintQuery.** The engine is a pure function, so
`SolverRequests` and `EvidenceBuilder` only collect an input, one constraint or token at a
time, and compute. An interval is its set of points on a grid with a point between each
two bounds; that tells a closed end from an open one. `ConstraintQuery` has requests that
read the index after an await, and replays that look for a trace id in the log.

**EmbeddingCache.** Each operation on the dictionary is a step, so that other threads and
the flush come between a lookup and the touch, pop or insert it decided on. A hit answers
with the vector of the entry it found (`found`), whatever entry has the key by then; an
entry gets the vector its put was given. The call of the model may raise (`Encode`).

**BulkImport, Reingest, FtsMigration.** The script is a process whose memory goes when it is
killed and whose file stays; the service beside it is what its routes answer, with jobs
that end, restarts and rows of earlier versions. A handler of `notify` takes the ingest lock
(`ingestion.py:411`) and inserts the row (428) in two steps: one that dies between them
leaves a lock without a row, one whose caller has stopped waiting inserts it later
(`locked` and `RowInserted`; `halfway` and `LateRow`), and meanwhile each notification is
told `in_flight`. The status route answers for a document, whatever version its newest row
is of, and from Qdrant alone if there is no row: the table and the points start
independently, since the container's database is on no persisted volume
(`deployment/docker-compose.yml`). That is where the exceptions in `SkippedIsReingested`
come from. In `BulkImport` points may be cleaned out of Qdrant behind the audit log
(`PointsCleaned`), the case `live_stress_60.py:897-898` reads the log for.

**Composites.** `MCQuery` and `MCService` put several modules that share no state into one
run: `part` says which of them moves, the others rest in one fixed initial state, so that
their state spaces add up and do not multiply. Modules that do interact are composed:
`Ingestion` with the table, the lock, the pool's workers and the scanner, `Step5` with the
lock and both stores, `ConstraintQuery` with solver, evidence keys and log.

**Faulty definitions.** Some definitions have a neighbour whose comment begins with
"Faulty": the same operator with a plausible mistake (a missing guard, an inclusive bound,
an uncounted retry). No behaviour uses them; each is what one property was tried against,
to see that the property does fail when the code is wrong (`mutants` in `PROJECT.json`).

## 3. Runs

| run | shows | instance |
|---|---|---|
| `ingest_safety` | one dispatch per request, truthful success callbacks, no orphaned in-flight row, exact gauge, completed is final, no stolen lock; the inductive invariant | 1 document, 2 requests (versions), 3 calls, 1 worker, 2 attempts, 2 crashes, Redis and callback faults |
| `ingest_lifecycle` | `Ingestion` implements `TaskLifecycle` | 2 documents, 2 requests, 2 calls, 1 attempt, 2 crashes, every fault |
| `ingest_live` | queued requests settle; the retry window is settled at boot | 1 document, 2 calls, 1 crash, callbacks fail, handler as shipped (never succeeds) |
| `ingest_inflight` | violated: see Findings | 3 calls, no crash, no fault |
| `ingest_renotify` | violated: see Findings | 3 calls, 1 crash, no fault |
| `step5_safety` | indexed is searchable, newest never regresses, one writer per version, FTS rows once as long as no two jobs were inside `replace_doc` together; the inductive invariant | 3 jobs of 2 versions, 2 batches, 2 workers, 2 tries, every fault |
| `step5_live` | jobs end; skipping loses nothing | 3 jobs, 2 workers, Qdrant faults |
| `step5_partial` | violated: see Findings | 1 worker, kills |
| `step5_fts` | violated: see Findings | 2 jobs, 2 workers, no fault |
| `query` | the query side, part by part (below) | see Bounds |
| `service` | the process and the scripts, part by part (below) | see Bounds |
| `migration_v1` | violated: see Findings | 2 documents, 2 runs, the table of schema 1 among the initial ones |

| part of `query` | property | in words |
|---|---|---|
| retrieval | `BlankOnlyWhenUnknown`, `QuietAnswerHasOneVersion` | a blank chunk, known from FTS alone, never takes the place of one Qdrant has and never gets into the answer for a scope; an answer no write overlapped is of one version, unless the cleanup had failed |
| solver | `SolveIsTheIntersection`, `FallbackIsMarked` | branch by branch and parameter by parameter, a conflict is reported exactly where the constraints that count exclude each other, and elsewhere the range is the hull of what they allow; an answer of `/v1/calculate` without the conflict mark is exactly what all constraints on the parameter allow, and the mark only comes when those on some parameter exclude each other and the caller is not strict (what a marked answer holds is not claimed: Findings) |
| evidence | `BoundsBelongToTheirParameter`, `StrongestSourceStays` | the parameter and the unit of a constraint are those of a number of the text whose bounds it has, its own or the two ends of a range around it, as long as every hint gives an interval or all hints are of one parameter and unit; deduplication keeps the highest level whatever the ranking |
| query | `ReplayOfUnchangedMatches`, `OnlyTheScopeItselfCounts` | a replay of an unchanged index matches if the trace id is of one query and top_k is the same; a scoped query is answered from the rules stored under exactly that scope, from all of them that no narrower chunk repeats, and not more narrowly than they leave |
| cache | `VectorsMatchTexts`, `EncodeFailsOnlyInARace` | the vector of each text is at its index, hits and misses alike; a KeyError of the cache needs another actor during the call |
| rate | `AtMostTwoWindows` | the window is fixed although the class says sliding: what a peer gets through in any stretch as long as the window is at most one short of twice the limit |

| part of `service` | property | in words |
|---|---|---|
| lifespan | `StopFailuresStayLocal` | a process that is down has left behind only the parts whose own stop failed or timed out, the Manager's process and the drain thread of a failed attempt at the bridge, unless the exporter's stop raised; no job is left when the bridge is stopped unless the pool's stop failed |
| router | `EventsTellTheChannel`, `GoodGpuIsUsed`, `UnfitGpuIsLeft` | the events are the history of the channel; a GPU that stays good is used again, one that stays unfit is left |
| bridge | `BridgeLosesNothing` | no accepted event is written twice or dropped between two drains |
| audit | `TraceAnswersItsOwn` | the trace route answers with the lines of its own trace as long as no two writes overlapped, the file was not rolled over, no rebuild met wide characters and no line of that trace met a disk error, whatever the errors of others |
| chunker | `NoTextLost`, `BudgetSlack` | every visible character of the blocks' texts, or of the rows of a table that is split by its rows, is in a chunk, once and in order, and a header that fits beside each row is at the head of each chunk of its table; a chunk exceeds its budget by less than one token for each piece after the first |
| bulk | `QuietExitMeansIngested`, `RetryDropsOnlyIngested` | exit code 0 means that every document of the run has its points or lost them since the run began, except one skipped for its audit event alone and one whose response could not be read; a retry takes a document off the list only when it is searchable, lost its points during the run, or has no usable block |
| reingest | `SkippedIsReingested` | what the checkpoint skips, or the classifier calls ingested, is indexed as version 2, with three exceptions (section 5) |
| migration | `MigratedMeansIndexed` | a document counted as migrated has in the keyword index exactly what Qdrant holds of it, unless a job of it ran since |

**Bounds.** The bounds on behaviours are `MaxCrashes`, `MaxTries`, the router's `MaxFaults`,
`MaxChanges`, `MaxQueries`, `MaxWrites`, `MaxSpoilt`, `MaxRuns`, `MaxCleaned`,
`MaxReingests`, `MaxMigrations`, `MaxUpdates`, `MaxJobs`, `LastTick`, the number of calls,
jobs and requests, and the length of an input (`MaxRules`, `MaxTextLength`, `MaxBlocks`).

*Ingestion and Step5.* Two calls of one request plus one of another version is what the
races need: one holder, one late call of the same request, one call of the same document
that inherits an expired key. Two crashes give a crash during the recovery from the first.
Two batches per version are the smallest upsert that can be half done; two tries the
smallest retry; two versions give older and newer, and three jobs a repeated version and a
competitor. `MaxAttempts` is 3 in the code and 2 or 1 in the runs; the bound itself is at
stake in `ingest_lifecycle`, where two crashes make room for one attempt more than allowed.
Calls are interchangeable, so the runs without liveness use symmetry.

*query.* Three chunks of which one has no scope and one contains the query in its new
version only: enough for a hit of each search alone and of both. Requests of up to three
constraints over five intervals that overlap, touch, are open, contradict or are missing:
two can conflict while a third applies elsewhere. Texts of up to four tokens: two numbers,
an operator and a parameter word, the smallest text in which a number without an operator
shifts the pairing; three are a range with its two numbers. Two requests in flight and one
change of the index between them. Two threads and a cache of one entry, so that they evict
each other's. Two windows and a table of one address.

*service.* Three device changes let a GPU break, recover and break again while a verdict
about the earlier state is on its way. Any four of eleven blocks, with budgets of two tokens
of four characters: short texts of two scopes that accumulate, texts cut in two and three,
one cut at a number's dot, blank and empty text, a key-value block, a large table without
rows, tables whose rows fit beside the header, do not fit beside it, or are too large by
themselves, and one of a header alone. They reach each of the chunker's branches on a block,
a row and a fragment; the lengths at which a cut falls are sampled, and general in the
proofs. Three events of the main process and a queue of two reach the drop. Three writes by
two writers into files of two lines reach a rollover between an offset and its line, with
disk errors on the lines of one trace at a time, so that the other's answers are still
claimed. Three documents, one whose directory and blocks disagree on its name and one
without a usable block, two runs, two tries and the points of one document cleaned in each
run for the import; one bundle and two runs for the re-ingestion, the bundles being
independent but for the order of the loop, and the proof being for any number; two documents
and two runs for the migration.

All configurations say `CHECK_DEADLOCK FALSE`: once every call, job and request is done,
or the process is down, nothing need happen, and that is how these systems end.

**Fairness.** `ingest_live`: weak fairness of each call's steps (the event loop runs a
coroutine whose await has returned; Redis and SQLite are taken to answer or raise, the
callback's HTTP client has a timeout), of each job's steps (a free worker takes a waiting
job; pebble kills it after 1800 s) and of the boot sequence (the supervisor restarts the
process). Arrivals, TTLs, ageing and crashes get none. `step5_live`: weak fairness of a
running job's steps only; it is not assumed that a waiting job starts. `service` (its part
router only): the probe
thread sleeps and runs for ever, an encoding ends; it speaks of processes with
`BGE_M3_GPU_ENABLED` and the probe on (its default). A step that is enabled stays so until
it is taken, except that a call waits while another one holds the event loop, and a job
while all workers are taken; calls and jobs are finitely many and each lets go in the end,
so weak fairness is enough.

## 4. Proofs

Theorems hold for any number of documents, requests, calls, workers, threads, versions,
batches, bundles, events, tries, attempts and crashes, for any text, document, set of rules,
ranking and order of the constraints, and for any limit, window, budget and capacity.

| theorem | statement | premise beyond the module's assumptions |
|---|---|---|
| `IngestionProofs!TypeCorrect` | `Spec => []TypeOK` | |
| `Inductive` | `Spec => []IInv` | |
| `AtMostOneDispatch` | `Spec => []DispatchedOnce` | |
| `Refinement` | `Spec => ImplementsLifecycle` | |
| `CompletedStays` | `Spec => CompletedIsFinal` | |
| `ReleaseOwnLock` | `Spec => LockNeverStolen` | |
| `SuccessIsTrue` | `Spec => []SuccessCallbackIsTrue` | `"db" \notin Faults` |
| `NoRowLeftInFlight` | `Spec => []InFlightRowsHaveOwner` | `"db", "submit" \notin Faults` |
| `GaugeExact` | `Spec => []GaugeIsQueueDepth` | `"submit" \notin Faults` |
| `Step5Proofs!IndexInductive` | `Spec => []IInv` | |
| `IndexedStays` | `Spec => []IndexedIsSearchable` | |
| `NewestStays` | `Spec => NewestNeverRegresses` | |
| `OneWriter` | `Spec => []OneWriterPerVersion` | |
| `FtsReplaced` | `Spec => []FtsNoDuplicates` | |
| `FtsReplacedAlone` | `Spec => []` the rows are of one version, once | `MaxWorkers = 1` |
| `ServiceProofs!EventChain` | `Spec => []EventsTellTheChannel` | |
| `LifespanInductive` | `LifespanSpec => []LifespanInv` | |
| `ShutdownComplete` | `LifespanSpec => []StopFailuresStayLocal` | |
| `BridgeInductive` | `BridgeSpec => []BridgeInv` | |
| `NothingLost` | `BridgeSpec => []BridgeLosesNothing` | |
| `AuditInductive` | `AuditSpec => []AuditInv` | |
| `TraceAnswers` | `AuditSpec => []TraceAnswersItsOwn` | |
| `RateInductive` | `RateSpec => []RateInv` | |
| `TwoWindows` | `RateSpec => []AtMostTwoWindows` | |
| `RetrievalProofs!CacheInductive` | `CacheSpec => []CacheInv` | |
| `AnswersInOrder` | `CacheSpec => []VectorsMatchTexts` | |
| `RaceInductive` | `CacheSpec => []RaceInv` | |
| `FailsOnlyInARace` | `CacheSpec => []EncodeFailsOnlyInARace` | |
| `RetrievalInductive` | `RetrievalSpec => []RetrievalInv` | |
| `BlankIsUnknown` | `RetrievalSpec => []BlankOnlyWhenUnknown` | |
| `QuietAnswerIsOfOneVersion` | `RetrievalSpec => []QuietAnswerHasOneVersion` | |
| `ConstraintProofs!SolverInductive` | `SolverSpec => []SolverInv` | |
| `SolveIntersects` | `SolverSpec => []SolveIsTheIntersection` | |
| `FallbackMarked` | `SolverSpec => []FallbackIsMarked` | |
| `EvidenceInductive` | `EvidenceSpec => []EvidenceInv` | |
| `StrongestSource` | `EvidenceSpec => []StrongestSourceStays` | |
| `BoundsOfOneHint` | `EvidenceSpec => []BoundsBelongToTheirParameter` | |
| `ReplayInductive` | `QuerySpec => []ReplayInv` | |
| `ReplayMatches` | `QuerySpec => []ReplayOfUnchangedMatches` | |
| `ScopeCounts` | `QuerySpec => []OnlyTheScopeItselfCounts` | |
| `ChunkerProofs!ChunkInductive` | `ChunkSpec => []ChunkInv` | |
| `TextKept` | `ChunkSpec => []NoTextLost` | |
| `SlackBounded` | `ChunkSpec => []BudgetSlack` | |
| `ScriptProofs!ReingestInductive` | `ReingestSpec => []ReingestInv` | |
| `CheckpointIsTrue` | `ReingestSpec => []SkippedIsReingested` | |
| `BulkInductive` | `BulkSpec => []BulkInv` | |
| `QuietExit` | `BulkSpec => []QuietExitMeansIngested` | |
| `RetryLosesNothing` | `BulkSpec => RetryDropsOnlyIngested` | |
| `MigrationInductive` | `MigrationSpec => []MigrationInv` | |
| `MigratedStays` | `MigrationSpec => []MigratedMeansIndexed` | |
| `DataProofs!Iterates` | a recursion along `0 .. n` whose steps stay in a set has a solution | |
| `SelectedFacts` | what `Selected` picks | |
| `Ranking` | each member of a finite ordered set has a place, and every place is taken | |

The premises are real: with a lost status write the row a success callback speaks of is not
COMPLETED; with a raising `submit` the gauge and a QUEUED row are left behind.

**The argument for Ingestion.** None of the properties is inductive. What carries them is
`OneOwner`: among the calls between the insert and the terminal write (`Owning`) no two
have the same request. It is kept because `TryInsert` needs an ABSENT row and
`OwnedRowIsOpen` says an owned row is PENDING, QUEUED or RUNNING, and because no other
actor writes rows while a call owns one: `ServedOnlyWhenUp` keeps recovery and scan apart
from the calls, `LoopHeld` keeps the steps between two awaits together.
`NotYetDispatched` then gives one dispatch, `CallMatchesJob` ties the outcome that is
written to the job. The refinement follows action by action from `OwnedRowIsOpen` (a call
writes an open row only, so `Succeed` and `Fail` are allowed) and `ServedOnlyWhenUp` (the
scanner's row is RUNNING). The gauge needs an extra invariant on the cardinality of
`Counted`. The lemmas on `TaskRepo` state once what every table operation leaves true.

**The argument for Step5.** Per job: while it upserts, either all batches before `next` are
stored or a newer version is complete (`UpsertProgress`). Only a job of a newer version that
finished its own upsert deletes points, so whenever points of a version go, a newer complete
version is there. No maximum over the versions is needed: the newer version that is complete
at each step is handed on from step to step as the witness. `OneWriter` uses
`WritersHoldLock` (a writer holds its key unless its lock lapsed). `overlap`, a history
variable, records that two jobs were between the two transactions of `replace_doc` at once;
`FtsReplaced` is about the behaviours in which none were, and `FtsReplacedAlone` shows that
one worker process gives no others.

**The argument for EncodingRouter.** A late exception emits an event from "gpu" whatever the
channel is by then. The chain of events survives because the handler emits only when the
channel is not "cpu", and `OnGpuAfterRegistration` says that an encoder that saw a GPU
finds the channel past "unknown": what is left is "gpu".

**The argument for Lifespan.** What `app.state` names is alive, and what is alive is named
there, stage by stage, except for the step at which a start-up failed between starting a
thing and naming it: only an attempt at the bridge has such a gap (`RunningIsNamed`). The
`finally` goes through the names in order, so at each of its stages what `MayRun` allows
is one part less, except for those in `stopFailed`.

**The argument for AuditBridge.** Each accepted event is in one place: the queue, the hand of
the drain thread, the hand of `stop()`, or the file. A get takes from the head of a queue
whose elements differ, so the event leaves one place and enters one other; which thread
does it does not matter. The lemmas on sequences say what `Append`, `Head` and `Tail` do to
the set of elements.

**The argument for Reingest.** The status route answers for a document, so "success" could be
about version 1. `NewestIsOfARun` says that a bundle that has a row of some run has a row
of a run as its newest, unless a job of version 1 was still running at the start: a settled
row of version 1 is never touched again (`OldSettled`). The held lock says nothing, since
there need be no row behind it: a bundle whose notification was acknowledged has such a row
or is in `misheard` (`PolledHasRow`). A completed row of a run means version 2
(`CompletedRowIsIndexed`), and a bundle that never had a row or points of version 1 is
indexed as version 2 or not at all (`NewIsTwoOrNothing`), so that a status from Qdrant
alone is about version 2 there. All steps of the service are brought to one form first
(`OfTheService`).

**The argument for EmbeddingCache.** Every text a thread has looked up is filled in or among
its misses; while it puts, every text is filled in or among the misses from the current
one on. A hit fills in the vector of an entry, so the entries come in: each has the vector
of its key, which is what a put was given, and so has the one a lookup has found
(`FoundInv`), whatever has become of the cache since. The lemmas on `Progress` are about constants,
one thread's variables before and after; `OneThread` lifts them to the state. Whether a
thread can fail does depend on the cache: `RaceInv` says what it counts on between two of
its steps, a key it has found or an entry to pop, and that this is in the cache unless
`cacheTouched` says that another thread or a flush took entries away.

**Loops over data.** The library's induction theorems take an operator, which the provers
here cannot instantiate; its theorem on least elements of a well-founded relation (`WFMin`)
takes none. `DataProofs` makes an induction principle for sets of it (`LeastNumber`,
`Induction`), and from that: a function defined by recursion along `0 .. n` has the values
its equations say (`Iterates`, `ValuesIn`). Every loop of the models is such a function with
one operator for one turn, so the proofs about a loop have three parts: it has a solution,
one turn keeps what is to be shown, so does the last. A sort is a choice of a sequence by
rank (`Ranking` shows that there is one), a filter is `Selected`.

**The argument for the solver.** After k of the constraints the loop holds the intersection
of the first k, or has found it empty and says so (`LoopComputes`); the sort drops none and
doubles none. Intersection does not depend on the order, so the priority decides only what
the report names. The rest is the case split of `solve` and `solve_with_fallback`.

**The argument for the evidence.** The parser finds an interval from a window around a hint:
the hint's own number, or the two numbers closest to a range phrase in it (`RangeIsAround`,
`WindowIsNear`), which is shown of the text itself and not by the parser's own operator
(`BoundsAreOfTheText`). The position that pairs it with a parameter is that of the same hint
as long as every hint gives an interval, and one with the same parameter and unit if all
hints share them. Deduplication keeps, of the rules with one key, one that none outranks
(`IsDeduplication`), whatever the order of the chunks.

**The argument for the queries.** `ReplayInv` ties the log to the index: a solve was of what
some started event of its trace says, and its branches are those of the index if the index
is still what it was (`changes`). A trace id used once then leaves one event to look up.
A scoped answer needs no invariant of the state: what the retriever lets through at and
below the scope and the solver at and above it meet in the scope alone (`CountedAreOwn`).
That all of the scope's rules count needs the deduplication: a rule it drops has one with
its key in its place, which is of the same scope, branch and bounds if it is undisputed.

**The argument for Retrieval.** What holds of all hits holds of the answer, whatever the
ranks and scores: `Drawn` says each item of an answer is a hit of one of the searches, and
of the keyword search only if the vector search has no hit of its id. `Written` says what
each store holds between two writes, `Marked` that a search no write overlapped found the
settled version.

**The argument for AuditLog.** As long as nothing interfered (`Calm`), at most one writer is
between its look at the size of the file and its entry in the index, and the index is right
about the file, or about the file before its line, for each trace that is not spoilt
(`RightFor`). A line that comes late out of the buffer is of a spoilt trace (`HeldIsSpoilt`)
and comes after all others, so it moves no offset of theirs. What the index should hold is
defined for every file (`OffsetsOf`); one line more adds one offset, the size of the file
before.

**The argument for RateLimit.** The history of the admissions is a curve over the ticks. The
peer's bucket holds how much it rose since its window began, and a window opens with one
hit; a stretch as long as a window meets two windows at most, and one hit of the first is
outside it. A trim ends what is claimed (`trimmed`).

**The argument for BulkImport.** `OutcomeIsTrue`: what a run was told last of a document is
so, and what is searchable stays so or is in `cleaned` for the rest of the run; what the
resume check leaves out is one of these or has an audit event (`IngestedIsKnown`).
`NotifiedIsPolled` and `ListedIsRetried` say that nothing is left in between when the report
is written, and that a listed document is either among what is retried or has an outcome; a
kill leaves the list as it was.

**The argument for FtsMigration.** While a document is written, what was fetched is what Qdrant
holds, unless a job has touched it (`WrittenIsFetched`). Busy writes leave a transaction
open, which a later commit completes: `NothingOpenOfDone` says that it never holds rows of
a document already counted, which is why the commit of another cannot undo it. No document
is twice in a run's list (`LeftIsNotDone`).

**The argument for Chunker.** The ink of a text is what is to be seen of it: no blanks, no line
breaks, and no characters of headers, which are repeated. Ink distributes over
concatenation, and each loop is followed with it: lines, cut, merge and table rows keep
the ink in its order. Headers are followed apart: `Headed` says that a chunk of a table
whose header fits begins with it, and `HoldsHeader` that the buffer of rows does, from one
flush to the next. For the budget, a text of so
many tokens and pieces is shorter than `(tokens + pieces) * CharsPerToken`: an estimate
rounds away less than one token, the line break included. `ChunkInv` says both of the
chunks made so far and of the open group (`Measured`), which is what is needed when the
group is flushed without a look at its size.

**Model-checked only.** The liveness properties (`QueuedSettles`,
`RetryableSettlesAtBoot`, `SkippingLosesNothing`, `JobsEnd`, `GoodGpuIsUsed`,
`UnfitGpuIsLeft`): fairness and ENABLED are out of the prover's reach. The five violated
statements are TLC's counterexamples. All invariants and the other action properties of the
passing runs are theorems. No module uses RECURSIVE operators: tlapm could not prove
anything about a module that reaches one.

## 5. Findings

1. `ingest_inflight`: after a *successful* dispatch the ingest lock is never released; for
   the rest of its 300 s the next version of the document is answered `in_flight`
   although nobody works on the document. The comment at `api/routes/ingestion.py:408`
   gives "another pod is processing this doc_hash" as the meaning.
2. `ingest_renotify`: a request interrupted by a crash is PENDING after the boot; the
   docstring of `recover_in_flight` says the next notify re-claims and resumes it. It is
   answered `duplicate`, because `try_insert` refuses any existing row.
3. `step5_partial`: a job killed after its first batch leaves points of its version; the next
   job of that version reports "already indexed" with half of the document missing.
4. `step5_fts`: two jobs of one document interleave the delete and the insert of
   `replace_doc`, which its docstring calls atomic; both sets of rows stay.

5. `migration_v1`: on the table of schema 1, which it is written for, the migration script
   takes every document it then reports as failed out of the keyword index: the delete of
   `replace_doc` commits, the insert does not find its columns. Its docstring says that
   running it again converges.

Also modelled, and not called violations:

* a late job of an older version overwrites the FTS rows of a newer one; a raising `submit`
  leaves the gauge and the lock behind; `reparse`, the compensation handler, imports a
  module path that does not exist and so never succeeds (`ReparseOutcomes` holds what it
  may return);
* `main.py` builds the retriever and the pipeline before the audit writer exists (272-281,
  380-395) and gives the retriever no FTS manager, so that keyword search and fusion are
  never active in the served app;
* when the constraints on one parameter conflict, `/v1/calculate` answers from the soft ones
  alone (`solver.py:287-335`): the handbook (`ekrs-handbook.md:378-391`,
  `intersect_with_fallback`) returns the *hard* interval, marked `soft_constraint_ignored`.
  The code never solves the hard constraints by themselves, although its comments say
  "Solve hard constraints" and "Hard is unsatisfiable": it solves all of them together. A property
  about the marked answer would have to take one side; `FallbackIsMarked` claims the mark
  and nothing of what it marks;
* `_scope_matches` of the solver (`solver.py:499-505`) has a constraint apply that is "at
  least as broad as the query", by prefix; the retriever's filter has dropped such chunks
  before (`retriever.py:202-215`), and a query for an empty scope gets no chunk at all, so
  that only rules of exactly the scope count (`OnlyTheScopeItselfCounts`);
* deduplication by parameter, bounds and unit (`evidence_builder.py:273-303`) leaves out scope,
  branch and whether a bound is included: a chunk of a narrower scope and a higher level
  that repeats a rule takes its place, and the solver then drops the winner for its scope,
  so that a rule of the scope asked for is lost (`UndisputedRules`);
* the numbers of a range that is no temperature stay as written beside the base unit
  (`parser.py:251-261`): 2 to 3 MPa becomes 2 to 3 Pa, where a single bound is converted, as
  TC-BUILDER-07 (`ekrs-handbook.md:434`) has it; intervals and hints are not "1:1", as the
  comment above their zip has it (`evidence_builder.py:227`);
* a chunk may exceed its budget: the docstring at `chunker.py:568` guarantees every chunk of a
  large block at most `max_tokens`, and a test calls it a hard guarantee
  (`tests/unit/test_chunker_row_flush_fix.py:248`, 318). Fragments of an oversized row are
  merged again by estimates that each round down: block 10 of the run, a row of twelve
  characters in fragments of seven and five, gives a chunk of three tokens where two are
  allowed. `BudgetSlack` says by how much at most;
* of a table that is split by its rows only header and rows are kept: its `md_preview` is not
  read, a table of a header alone leaves no chunk but a warning (`chunker.py:622-740`), the
  header is not put before the pieces of an oversized row nor beside a row that fills the
  budget, against "propagate column headers to each sub-chunk" (551); `_hard_cut` drops
  blank fragments, against its "no characters lost";
* a write whose line the disk refused returns True and registers an offset, against "Returns
  False if write fails" (`audit.py:58`); the trace route then answers with whatever line is
  there, of whichever trace, or raises on one that is not UTF-8 at that byte;
* an exporter whose shutdown raises leaves pool, bridge and cleanup running
  (`main.py:481-484`), and nothing stops the Manager's process;
* events a worker process emits never reach the audit log (`stranded`), and a failed first
  attempt at the bridge leaves a drain thread (`strayBridge`);
* an encode can raise KeyError although the cache says its users are single-threaded
  (`embedding_service.py:122-124`);
* the rate limiter is a fixed window; a first request of an address returns before the
  table is trimmed;
* one number without an operator gives all later intervals the parameter and the unit of
  another; scalars are passed over by the solver;
* a replay compares the number of branches only, with its own top_k;
* the bulk import counts a `duplicate`, `in_flight` or `rejected` answer as notified, and
  asks the status by directory name though the document's name comes from its blocks;
* a document with an `ingestion_completed` event whose points were cleaned away is left out by
  the resume check, which reads the audit log to catch just these
  (`live_stress_60.py:897-898`): the run ends with exit code 0 and the document is never
  made searchable again;
* an offline import always leaves `failed_docs.txt` empty, whatever failed: the report it takes
  the outcomes from has none (`_outcomes_from_report`, 1332-1345), against the help text,
  which has it list the failures for `--retry-failed`. `RetryDropsOnlyIngested` is about the
  retries for that reason;
* version 1 passes for version 2 in three cases: while a job of version 1 runs; when the
  notification was answered `in_flight` for a lock behind which there is no row
  (`ingestion.py:411`, 428) and the status is that of the older row or of the points; and,
  for the classifier, whenever there is a row or a point of version 1.

## 6. Not modelled, and abstractions

* `_run_locked_ingest` and `ingest()` (no route calls them), `handler_is_wired = False`
  (hard-coded True), the `except` around `pool.wait` (it catches everything itself), the
  row of `DocumentRepo` (nothing reads it back in the protocol).
* Graceful shutdown stops the pool and then the process: for the table, Redis and the
  stores it is a crash that happens at fewer places.
* pebble's first-in first-out order: any waiting job may start.
* One server. A second one would run its boot recovery against rows the first one is
  working on; the deployment runs one, and the comment about "another pod" is read as
  another call.
* `Step5` has one document: keys, points and rows of different documents are disjoint. A
  version has the same chunks each time it is indexed: bundles are immutable.
* Replay: it needs a `source_path`, which `notify` never writes (`try_insert`), so every
  replay of the running service answers 409.
* `pipeline.ingest` and `_send_callback`: nothing calls them.
* The sweep of `StaleCleanup`: it looks for `<pid>_<type>.db` while the metrics library
  writes `<type>_<pid>.db`; what it does rests on code that is not in the repository. Its
  start and stop are in `Lifespan`.
* The consistency checker is never started, and the migration flag is a ContextVar of the
  script's process, which the service cannot see.
* In `Retrieval`, scores: only their order, and the exact ties, are kept. In the solver,
  floating point: bounds are small integers, units an affine shift.
* In `EvidenceBuilder`, the spellings the regular expressions take for a token. In
  `Chunker`, everything of a character but its class, and the image and form metadata.
* In `BulkImport`, the load-test mode, which neither resumes nor lists failures. In
  `Reingest`, a recreation of the service's container during a run: one before it is among
  the initial states, where rows and points are independent of each other.
* What the exit of the interpreter does after `lifespan` has ended.
* Parsing of bundles, the encoders' numerics, authentication, configuration, the metrics,
  the MCP adapter, the user interface and the evaluation tools: stateless or pure
  input and output, as listed in `PROJECT.json`.

## 7. Plan

Done: every component with a protocol, as listed in section 2. What would add most next:

1. Composition of `Ingestion` and `Step5`: a COMPLETED row means a searchable version.
2. Proofs: what the abstract specification of that composition promises, once it is stated;
   that `Step5` alone keeps the points of the newest version while older ones are deleted
   in several steps is proved (`NewestStays`), the same for its FTS rows is false (Findings).
3. A second server against the tables of the first, if the deployment ever runs two.
4. Replay, once `notify` stores a `source_path`.
