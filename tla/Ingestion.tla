----------------------------- MODULE Ingestion -----------------------------
(***************************************************************************)
(* POST /v1/ingestion/notify and everything it sets in motion: the per-doc *)
(* Redis lock, the tasks table, the dispatch to the encoding pool, the     *)
(* background task that maps a job's outcome to the row, the parser        *)
(* callback; and the server's life around it: crashes, the boot-time       *)
(* recovery of in-flight rows and the compensation scan.                   *)
(*                                                                         *)
(* The handlers of one server are coroutines of one asyncio event loop.  A *)
(* coroutine that has not reached an await holds the loop (variable loop), *)
(* so no other handler runs before it does; a crash, the TTL of the Redis  *)
(* lock and the worker processes do not wait for it.                       *)
(***************************************************************************)
EXTENDS TaskRepo, Integers, FiniteSets

CONSTANTS Docs,            \* doc_hash values
          DocOf,           \* the document a request is about
          NoRequest,
          Handlers,        \* calls of the notify route, each made at most once
          NoHandler,
          MaxWorkers,      \* settings.EKRS_ENCODING_MAX_WORKERS
          MaxCrashes,      \* bound on the crashes of a behaviour
          Faults,          \* the external calls that may fail
          ReparseOutcomes  \* what the compensation handler may return

FaultKinds == {"db", "redis", "submit", "callback"}

ASSUME IngestionAssumption ==
    /\ DocOf \in [Requests -> Docs]
    /\ NoRequest \notin Requests
    /\ NoHandler \notin Handlers
    /\ IsFiniteSet(Handlers)
    /\ MaxWorkers \in Nat \ {0}
    /\ MaxCrashes \in Nat
    /\ Faults \subseteq FaultKinds
    /\ ReparseOutcomes \subseteq BOOLEAN

VARIABLES
    server,      \* where the lifespan of main.py is
    crashes,     \* crashes so far (bounded by MaxCrashes)
    ingestLock,  \* Redis: the key lock:ingest:{doc_hash} of every document
    loop,        \* the handler running between two awaits, if any
    pc,          \* where each notify call is
    req,         \* the request it was called with
    answer,      \* the status it answered
    job,         \* the call's task in the encoding pool
    gauge,       \* METRICS.task_queue_depth
    callback,    \* what the parser was told
    scan,        \* rows the compensation scan has still to visit
    claimed,     \* the row its handler is working on
    dispatched   \* history: how often a request was given to the pool

netVars  == <<ingestLock>>
callVars == <<loop, pc, req, answer, job, callback>>
bootVars == <<server, crashes, scan, claimed>>
vars == <<tasks, netVars, callVars, bootVars, gauge, dispatched>>

Lock == INSTANCE RedisLock WITH Keys <- Docs, Tokens <- Handlers,
                                NoToken <- NoHandler, lock <- ingestLock

PCs == {"idle", "acquire", "insert", "admit", "releaseDuplicate", "releaseError",
        "releaseRejected", "markRejected", "enqueue", "submit", "wait", "finish",
        "callback", "done", "dead"}

Answers == {"none", "bad_path", "in_flight", "duplicate", "rejected", "queued", "error"}

JobStates == {"none", "waiting", "running", "success", "failed"}

TypeOK ==
    /\ TaskRepoTypeOK
    /\ Lock!RedisLockTypeOK
    /\ server \in {"down", "booting", "scanning", "up"}
    /\ crashes \in 0 .. MaxCrashes
    /\ loop \in Handlers \cup {NoHandler}
    /\ pc \in [Handlers -> PCs]
    /\ req \in [Handlers -> Requests \cup {NoRequest}]
    /\ answer \in [Handlers -> Answers]
    /\ job \in [Handlers -> JobStates]
    /\ gauge \in Int
    /\ callback \in [Handlers -> {"none", "success", "failed", "lost"}]
    /\ scan \subseteq Requests
    /\ claimed \in Requests \cup {NoRequest}
    /\ dispatched \in [Requests -> Nat]

Init ==
    /\ TaskRepoInit
    /\ Lock!RedisLockInit
    /\ server = "down"
    /\ crashes = 0
    /\ loop = NoHandler
    /\ pc = [h \in Handlers |-> "idle"]
    /\ req = [h \in Handlers |-> NoRequest]
    /\ answer = [h \in Handlers |-> "none"]
    /\ job = [h \in Handlers |-> "none"]
    /\ gauge = 0
    /\ callback = [h \in Handlers |-> "none"]
    /\ scan = {}
    /\ claimed = NoRequest
    /\ dispatched = [r \in Requests |-> 0]

(* Faulty: a call resumes while another one holds the loop.                *)
Resume_Preempts(h, from, to) ==
    /\ server = "up"
    /\ pc[h] = from
    /\ pc' = [pc EXCEPT ![h] = to]

(* A notify call resumes after an await: it needs the event loop.          *)
Resume(h, from, to) ==
    /\ server = "up"
    /\ loop = NoHandler
    /\ pc[h] = from
    /\ pc' = [pc EXCEPT ![h] = to]

(* A notify call continues without an await since its previous step.       *)
Continue(h, from, to) ==
    /\ loop = h
    /\ pc[h] = from
    /\ pc' = [pc EXCEPT ![h] = to]

Reply(h, status) == answer' = [answer EXCEPT ![h] = status]

(* A SQLite write whose exception the caller swallows.                     *)
Tolerated(Write) == Write \/ ("db" \in Faults /\ UNCHANGED tasks)
-----------------------------------------------------------------------------
(***************************************************************************)
(* The notify route                                                        *)
(***************************************************************************)

(* The call arrives; an output_path outside the storage root is a 400.     *)
Arrive(h, r) ==
    /\ req' = [req EXCEPT ![h] = r]
    /\ \/ Resume(h, "idle", "acquire") /\ UNCHANGED answer
       \/ Resume(h, "idle", "done") /\ Reply(h, "bad_path")
    /\ UNCHANGED <<tasks, netVars, bootVars, loop, job, callback, gauge, dispatched>>

(* await lock.acquire(lock:ingest:{doc_hash}); None answers in_flight.  A  *)
(* Redis error is a 500, and the SET may have happened all the same.       *)
AcquireLock(h) ==
    LET d == DocOf[req[h]] IN
    /\ pc[h] = "acquire"
    /\ \/ Lock!Acquire(d, h) /\ Resume(h, "acquire", "insert") /\ UNCHANGED answer
       \/ Lock!Refused(d) /\ Resume(h, "acquire", "done") /\ Reply(h, "in_flight")
       \/ /\ "redis" \in Faults
          /\ Lock!Acquire(d, h) \/ UNCHANGED ingestLock
          /\ Resume(h, "acquire", "done") /\ Reply(h, "error")
    /\ UNCHANGED <<tasks, bootVars, loop, req, job, callback, gauge, dispatched>>

(* repo.try_insert: True goes on without an await, False is a duplicate,   *)
(* an exception is re-raised once the lock is released.                    *)
InsertRow(h) ==
    LET r == req[h] IN
    /\ pc[h] = "insert"
    /\ \/ TryInsert(r) /\ Resume(h, "insert", "admit") /\ loop' = h
       \/ /\ Status(r) # "ABSENT" /\ Resume(h, "insert", "releaseDuplicate")
          /\ UNCHANGED <<tasks, loop>>
       \/ /\ "db" \in Faults /\ Resume(h, "insert", "releaseError")
          /\ UNCHANGED <<tasks, loop>>
    /\ UNCHANGED <<netVars, bootVars, req, answer, job, callback, gauge, dispatched>>

(* run_inline_admission: the coarse gate accepts the bundle, rejects it, or*)
(* raises (bytes that are not UTF-8, a line that is no object): a 500 that *)
(* leaves the row PENDING and the ingest lock to its TTL.                  *)
Admit(h) ==
    /\ \/ Continue(h, "admit", "enqueue") /\ UNCHANGED <<loop, answer>>
       \/ Continue(h, "admit", "releaseRejected") /\ loop' = NoHandler /\ UNCHANGED answer
       \/ Continue(h, "admit", "done") /\ loop' = NoHandler /\ Reply(h, "error")
    /\ UNCHANGED <<tasks, netVars, bootVars, req, job, callback, gauge, dispatched>>

(* await lock.release on the three early exits.  A Redis error, after the  *)
(* deletion or instead of it, turns the duplicate and error exits into a   *)
(* 500; the rejected exit swallows it.                                     *)
ReleaseLock(h) ==
    /\ pc[h] \in {"releaseDuplicate", "releaseError", "releaseRejected"}
    /\ \/ /\ Lock!Release(DocOf[req[h]], h)
          /\ \/ Resume(h, "releaseDuplicate", "done") /\ Reply(h, "duplicate")
             \/ Resume(h, "releaseError", "done") /\ Reply(h, "error")
             \/ Resume(h, "releaseRejected", "markRejected") /\ UNCHANGED answer
       \/ /\ "redis" \in Faults
          /\ Lock!Release(DocOf[req[h]], h) \/ UNCHANGED ingestLock
          /\ \/ Resume(h, "releaseDuplicate", "done") /\ Reply(h, "error")
             \/ Resume(h, "releaseError", "done") /\ Reply(h, "error")
             \/ Resume(h, "releaseRejected", "markRejected") /\ UNCHANGED answer
    /\ UNCHANGED <<tasks, bootVars, loop, req, job, callback, gauge, dispatched>>

(* The rejected call marks its row FAILED and answers rejected.            *)
MarkRejected(h) ==
    /\ Resume(h, "markRejected", "done")
    /\ Tolerated(MarkFailedWithError(req[h]))
    /\ Reply(h, "rejected")
    /\ UNCHANGED <<netVars, bootVars, loop, req, job, callback, gauge, dispatched>>

(* repo.mark_status(QUEUED), then the queue-depth gauge goes up.           *)
Enqueue(h) ==
    /\ Continue(h, "enqueue", "submit")
    /\ Tolerated(MarkStatus(req[h], "QUEUED"))
    /\ gauge' = gauge + 1
    /\ UNCHANGED <<netVars, bootVars, loop, req, answer, job, callback, dispatched>>

(* pool.submit, which schedules without awaiting, and the 202 answer that  *)
(* starts the background task.  When schedule raises, the call ends in a   *)
(* 500: nothing is undone and the ingest lock is left to its TTL.          *)
Submit(h) ==
    /\ \/ /\ Continue(h, "submit", "wait")
          /\ job' = [job EXCEPT ![h] = "waiting"]
          /\ dispatched' = [dispatched EXCEPT ![req[h]] = @ + 1]
          /\ Reply(h, "queued")
       \/ /\ "submit" \in Faults
          /\ Continue(h, "submit", "done")
          /\ Reply(h, "error")
          /\ UNCHANGED <<job, dispatched>>
    /\ loop' = NoHandler
    /\ UNCHANGED <<tasks, netVars, bootVars, req, callback, gauge>>
-----------------------------------------------------------------------------
(***************************************************************************)
(* The encoding pool (pebble) and the background task _run_pool_terminal   *)
(***************************************************************************)

Running == {h \in Handlers : job[h] = "running"}

(* A worker process takes a waiting job.                                   *)
StartJob(h) ==
    /\ job[h] = "waiting"
    /\ Cardinality(Running) < MaxWorkers
    /\ job' = [job EXCEPT ![h] = "running"]
    /\ UNCHANGED <<tasks, netVars, bootVars, loop, pc, req, answer, callback, gauge,
                   dispatched>>

(* The job returns an outcome.  A worker killed after 1800 s, a worker     *)
(* that dies and an exception all come out of EncodingPool.wait as failed. *)
FinishJob(h) ==
    /\ job[h] = "running"
    /\ \E outcome \in {"success", "failed"} : job' = [job EXCEPT ![h] = outcome]
    /\ UNCHANGED <<tasks, netVars, bootVars, loop, pc, req, answer, callback, gauge,
                   dispatched>>

(* pool.wait returns: the row becomes RUNNING, with no await before the    *)
(* terminal status below.                                                  *)
MarkRunning(h) ==
    /\ job[h] \in {"success", "failed"}
    /\ Resume(h, "wait", "finish")
    /\ loop' = h
    /\ Tolerated(MarkStatus(req[h], "RUNNING"))
    /\ UNCHANGED <<netVars, bootVars, req, answer, job, callback, gauge, dispatched>>

(* Faulty: the failures of a job are not written.                          *)
Settle_SuccessOnly(h) ==
    IF job[h] = "success" THEN MarkStatus(req[h], "COMPLETED") ELSE UNCHANGED tasks

(* Faulty: the outcome is read the wrong way round.                        *)
Settle_Swapped(h) == IF job[h] = "failed" THEN MarkStatus(req[h], "COMPLETED")
                                          ELSE MarkFailedWithError(req[h])

(* The terminal status of the row.                                         *)
Settle(h) == IF job[h] = "success" THEN MarkStatus(req[h], "COMPLETED")
                                   ELSE MarkFailedWithError(req[h])

(* Faulty: counts the outcome, leaves the gauge.                           *)
RecordTerminal_CountsOnly == UNCHANGED gauge

(* _record_terminal takes the gauge down.                                  *)
RecordTerminal == gauge' = gauge - 1

(* The row gets its terminal status, then the metrics.                     *)
MarkTerminal(h) ==
    /\ Continue(h, "finish", "callback")
    /\ loop' = NoHandler
    /\ Tolerated(Settle(h))
    /\ RecordTerminal
    /\ UNCHANGED <<netVars, bootVars, req, answer, job, callback, dispatched>>

(* _fire_parser_callback: one POST when there is a callback_url, never     *)
(* retried; a failure is only logged.                                      *)
FireCallback(h) ==
    /\ Resume(h, "callback", "done")
    /\ \E told \in {"none", job[h]} \cup (IF "callback" \in Faults THEN {"lost"} ELSE {}) :
          callback' = [callback EXCEPT ![h] = told]
    /\ UNCHANGED <<tasks, netVars, bootVars, loop, req, answer, job, gauge, dispatched>>
-----------------------------------------------------------------------------
(***************************************************************************)
(* The server: boot recovery, the compensation scan, crashes               *)
(***************************************************************************)

(* lifespan: recover_in_flight, whose exception is logged and ignored, and *)
(* the gauge is set to 0.                                                  *)
Boot ==
    /\ server = "down"
    /\ server' = "booting"
    /\ Tolerated(RecoverInFlight)
    /\ gauge' = 0
    /\ UNCHANGED <<netVars, callVars, crashes, scan, claimed, dispatched>>

(* CompensationScanner.scan selects its rows, before any request is served.*)
BeginScan ==
    /\ server = "booting"
    /\ server' = "scanning"
    /\ scan' = PendingTasksOlderThan
    /\ UNCHANGED <<tasks, netVars, callVars, crashes, claimed, gauge, dispatched>>

Visit(r) == /\ server = "scanning"
            /\ claimed = NoRequest
            /\ r \in scan
            /\ scan' = scan \ {r}

(* One row: claimed, or left alone when the claim finds nothing to update. *)
ScanRow(r) ==
    /\ Visit(r)
    /\ \/ ClaimForRetry(r) /\ claimed' = r
       \/ ~Claimable(r) /\ UNCHANGED <<tasks, claimed>>
    /\ UNCHANGED <<netVars, callVars, server, crashes, gauge, dispatched>>

(* The handler of the claimed row returns or raises.                       *)
FinishRetry ==
    /\ claimed # NoRequest
    /\ \E ok \in ReparseOutcomes :
          IF ok THEN MarkStatus(claimed, "COMPLETED") ELSE MarkFailedWithError(claimed)
    /\ claimed' = NoRequest
    /\ UNCHANGED <<netVars, callVars, server, crashes, scan, gauge, dispatched>>

(* The scan is over and the lifespan yields: the routes are served.        *)
Serve ==
    /\ server = "scanning"
    /\ scan = {} /\ claimed = NoRequest
    /\ server' = "up"
    /\ UNCHANGED <<tasks, netVars, callVars, crashes, scan, claimed, gauge, dispatched>>

(* The process dies with its calls, its pool and its gauge; the table and  *)
(* Redis do not.                                                           *)
Crash ==
    /\ server # "down"
    /\ crashes < MaxCrashes
    /\ crashes' = crashes + 1
    /\ server' = "down"
    /\ loop' = NoHandler
    /\ pc' = [h \in Handlers |-> IF pc[h] \in {"idle", "done"} THEN pc[h] ELSE "dead"]
    /\ job' = [h \in Handlers |-> "none"]
    /\ gauge' = 0
    /\ scan' = {}
    /\ claimed' = NoRequest
    /\ UNCHANGED <<tasks, netVars, req, answer, callback, dispatched>>

(* LOCK_TTL_SEC have passed since the key was set.                         *)
ExpireLock(d) ==
    /\ Lock!Expire(d)
    /\ UNCHANGED <<tasks, callVars, bootVars, gauge, dispatched>>

(* COMPENSATION threshold_sec have passed since the row was updated.       *)
AgeRow(r) ==
    /\ GrowOld(r)
    /\ UNCHANGED <<netVars, callVars, bootVars, gauge, dispatched>>
-----------------------------------------------------------------------------
CallStep(h) == \/ AcquireLock(h) \/ InsertRow(h) \/ Admit(h) \/ ReleaseLock(h)
               \/ MarkRejected(h) \/ Enqueue(h) \/ Submit(h)
               \/ MarkRunning(h) \/ MarkTerminal(h) \/ FireCallback(h)

JobStep(h) == StartJob(h) \/ FinishJob(h)

BootStep == \/ Boot \/ BeginScan \/ FinishRetry \/ Serve
            \/ \E r \in Requests : ScanRow(r)

Next ==
    \/ \E h \in Handlers : \/ CallStep(h)
                           \/ JobStep(h)
                           \/ \E r \in Requests : Arrive(h, r)
    \/ BootStep
    \/ Crash
    \/ \E d \in Docs : ExpireLock(d)
    \/ \E r \in Requests : AgeRow(r)

Spec == Init /\ [][Next]_vars

(* The event loop runs every coroutine whose await has returned, a worker  *)
(* takes a waiting job, a running job ends within its 1800 s, and a server *)
(* that is down is started again.  Nothing is assumed of arrivals, TTLs,   *)
(* ageing or crashes.                                                      *)
Fairness == /\ \A h \in Handlers : WF_vars(CallStep(h)) /\ WF_vars(JobStep(h))
            /\ WF_vars(BootStep)

FairSpec == Spec /\ Fairness
-----------------------------------------------------------------------------
(***************************************************************************)
(* Correctness                                                             *)
(***************************************************************************)

(* The calls that inserted their row and may still write it.               *)
Owning == {"admit", "releaseRejected", "markRejected", "enqueue", "submit", "wait", "finish"}

(* The owning calls that hold the event loop.                              *)
OnLoop == {"admit", "enqueue", "submit", "finish"}

(* The calls the queue-depth gauge has been raised for and not yet lowered.*)
Counted == {h \in Handlers : pc[h] \in {"submit", "wait", "finish"}}

(* However often a notification is repeated, whatever expires and whatever *)
(* crashes in between, a request reaches the encoding pool at most once:   *)
(* the row of try_insert, not the lock, is what makes notify idempotent.   *)
DispatchedOnce == \A r \in Requests : dispatched[r] <= 1

(* A COMPLETED row is never reopened or failed: not by a late background   *)
(* task, not by the boot recovery, not by the compensation scan.           *)
CompletedIsFinal ==
    [][\A r \in Requests : Status(r) = "COMPLETED" => Status(r)' = "COMPLETED"]_vars

(* When the parser has been told "success", the row it polls says so too,  *)
(* now and after every restart.                                            *)
SuccessCallbackIsTrue ==
    \A h \in Handlers : callback[h] = "success" => Status(req[h]) = "COMPLETED"

(* Once the server is past its boot recovery, a row that says QUEUED or    *)
(* RUNNING has somebody working on it: a call that will settle it, or the  *)
(* compensation attempt in progress.  No crash leaves it behind.           *)
InFlightRowsHaveOwner ==
    server # "down" =>
        \A r \in Requests : Status(r) \in InFlight =>
            \/ claimed = r
            \/ \E h \in Handlers : pc[h] \in {"submit", "wait", "finish"} /\ req[h] = r

(* task_queue_depth counts exactly the calls between QUEUED and their      *)
(* terminal status; a restart neither leaks nor double-counts any.         *)
GaugeIsQueueDepth == gauge = Cardinality(Counted)

(* Only the call that holds a document's lock releases it: a call whose    *)
(* lease ran out and was taken over does not delete its successor's key.   *)
(* (The TTL, the other way to lose the key, moves no call.)                *)
LockNeverStolen ==
    [][\A d \in Docs, h \in Handlers :
          (ingestLock[d] = h /\ ingestLock'[d] # h) => (pc'[h] # pc[h] \/ pc' = pc)]_vars

(* A request answered "queued" gets a terminal status unless the server    *)
(* crashes first: jobs end, outcomes are collected, rows are written.      *)
QueuedSettles ==
    \A h \in Handlers : answer[h] = "queued" ~>
        (pc[h] = "dead" \/ (pc[h] = "done" /\ Status(req[h]) \in Terminal))

(* A row the compensation window holds at boot is settled before requests  *)
(* are served, unless the server crashes again.                            *)
RetryableSettlesAtBoot ==
    \A r \in Requests :
        (server = "booting" /\ Claimable(r)) ~>
            (server = "down" \/ (server = "up" /\ Status(r) \in Terminal))

-----------------------------------------------------------------------------
(* The life of a row as GET /status shows it, its two open answers taken   *)
(* together.                                                               *)
Phase(status) == CASE status = "ABSENT"    -> "unknown"
                   [] status = "COMPLETED" -> "completed"
                   [] status = "FAILED"    -> "failed"
                   [] status \in {"PENDING", "QUEUED", "RUNNING"} -> "open"

Life == INSTANCE TaskLifecycle WITH phase <- [r \in Requests |-> Phase(Status(r))],
                                    attempts <- [r \in Requests |-> tasks[r].attempts]

(* The service implements the abstract life cycle of a request.            *)
ImplementsLifecycle == Life!LifeSpec

(* The inductive strengthening behind the safety properties.               *)
LoopHeld == \A h \in Handlers : (pc[h] \in OnLoop) <=> (loop = h)

ServedOnlyWhenUp ==
    /\ server # "up" => \A h \in Handlers : pc[h] \in {"idle", "done", "dead"}
    /\ claimed # NoRequest => server = "scanning" /\ Status(claimed) = "RUNNING"

CallsHaveRequests == \A h \in Handlers : pc[h] # "idle" => req[h] \in Requests

CallMatchesJob ==
    \A h \in Handlers :
        /\ pc[h] = "wait" => job[h] # "none"
        /\ pc[h] \in {"finish", "callback"} => job[h] \in {"success", "failed"}
        /\ job[h] \in {"waiting", "running"} => pc[h] = "wait"

OneOwner ==
    \A g, h \in Handlers :
        pc[g] \in Owning /\ pc[h] \in Owning /\ req[g] = req[h] => g = h

OwnedRowIsOpen ==
    \A h \in Handlers : pc[h] \in Owning => Status(req[h]) \in Retryable \cup InFlight
                                            /\ Status(req[h]) # "FAILED"

NotYetDispatched ==
    /\ \A r \in Requests : Status(r) = "ABSENT" => dispatched[r] = 0
    /\ \A h \in Handlers :
          pc[h] \in {"admit", "releaseRejected", "markRejected", "enqueue", "submit"} =>
              dispatched[req[h]] = 0

IInv == /\ TypeOK
        /\ LoopHeld
        /\ ServedOnlyWhenUp
        /\ CallsHaveRequests
        /\ CallMatchesJob
        /\ OneOwner
        /\ OwnedRowIsOpen
        /\ NotYetDispatched
        /\ DispatchedOnce
-----------------------------------------------------------------------------
(***************************************************************************)
(* Statements of the sources that the code does not keep                   *)
(***************************************************************************)

(* "if another pod is processing this doc_hash, return in_flight": whoever *)
(* is turned away with in_flight is turned away by a call still at work.   *)
(* The queued path never releases the lock, so it is not so.               *)
InFlightMeansProcessing ==
    [][\A h \in Handlers :
          (answer'[h] = "in_flight" /\ answer[h] # "in_flight") =>
              \E g \in Handlers : /\ pc[g] \notin {"idle", "acquire", "done", "dead"}
                                  /\ DocOf[req[g]] = DocOf[req[h]]]_vars

(* recover_in_flight leaves PENDING rows so that "the next notify call can *)
(* re-claim and resume" them: a repeated notification of an interrupted    *)
(* request is not turned away as a duplicate.  try_insert does turn it away.*)
RenotifyResumes ==
    [][\A h \in Handlers :
          (answer'[h] = "duplicate" /\ answer[h] # "duplicate") =>
              \/ Status(req[h]) # "PENDING"
              \/ \E g \in Handlers : pc[g] \in Owning /\ req[g] = req[h]]_vars
=============================================================================
