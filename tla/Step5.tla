------------------------------- MODULE Step5 -------------------------------
(***************************************************************************)
(* The job the encoding pool runs, services/step5_worker.py: the status    *)
(* check and the bundle, the Redis lock step5:{doc}:{version}, the batched *)
(* upsert into Qdrant, the deletion of older versions, the replacement of  *)
(* the document's rows in the FTS database, the release.                   *)
(*                                                                         *)
(* One document; every job indexes one version of it.  A job is a process: *)
(* nothing but the lock orders its calls to Qdrant and SQLite with those   *)
(* of another, and the pool kills it after 1800 s wherever it is.  Qdrant  *)
(* point ids are derived from document, version and chunk, so a repeated   *)
(* batch overwrites itself; the FTS5 table has no key, so rows add up.     *)
(*                                                                         *)
(* As in TaskRepo, a definition marked Faulty is a plausible mistake in    *)
(* the one below it, and no behaviour uses it.                             *)
(***************************************************************************)
EXTENDS Naturals, FiniteSets

CONSTANTS Workers,      \* jobs given to the pool
          NoWorker,
          Versions,     \* versions of the document
          VersionOf,    \* the version a job indexes
          BatchesOf,    \* batches of 100 points a version's chunks make
          MaxWorkers,   \* settings.EKRS_ENCODING_MAX_WORKERS
          MaxTries,     \* stop_after_attempt of the Qdrant calls
          Faults        \* what may go wrong

FaultKinds == {"qdrant",   \* a Qdrant write raises, applied or not
               "encode",   \* the router raises, or the encoder is a dummy
               "redis", "fts",
               "kill"}     \* a worker process dies or is killed

ASSUME Step5Assumption ==
    /\ Versions \subseteq Nat
    /\ NoWorker \notin Workers
    /\ IsFiniteSet(Workers)
    /\ VersionOf \in [Workers -> Versions]
    /\ BatchesOf \in [Versions -> Nat \ {0}]
    /\ MaxWorkers \in Nat \ {0}
    /\ MaxTries \in Nat \ {0}
    /\ Faults \subseteq FaultKinds

VARIABLES
    points,    \* Qdrant: the batches stored of each version
    fts,       \* SQLite: how many times each version's rows are stored
    stepLock,  \* Redis: the key step5:{doc}:{version} of every version
    pc,        \* where each job is
    next,      \* the batch its upsert sends next
    tries,     \* the attempt its current Qdrant call is at
    outcome,   \* what it reports
    lapsed,    \* history: the jobs whose lock expired while they ran
    overlap    \* history: a job has begun replace_doc while another was in it

vars == <<points, fts, stepLock, pc, next, tries, outcome, lapsed, overlap>>

Lock == INSTANCE RedisLock WITH Keys <- Versions, Tokens <- Workers,
                                NoToken <- NoWorker, lock <- stepLock

PCs == {"idle", "lock", "upsert", "deleteOld", "ftsDelete", "ftsInsert", "release", "done"}

Outcomes == {"none", "indexed", "duplicate", "concurrent_skip", "failed"}

Batches(v) == 1 .. BatchesOf[v]

Complete(v) == points[v] = Batches(v)

(* The jobs that occupy a worker process.                                  *)
Busy == {w \in Workers : pc[w] \notin {"idle", "done"}}

TypeOK ==
    /\ points \in [Versions -> SUBSET Nat]
    /\ fts \in [Versions -> Nat]
    /\ Lock!RedisLockTypeOK
    /\ pc \in [Workers -> PCs]
    /\ next \in [Workers -> Nat \ {0}]
    /\ tries \in [Workers -> 1 .. MaxTries]
    /\ outcome \in [Workers -> Outcomes]
    /\ lapsed \subseteq Workers
    /\ overlap \in BOOLEAN

Init ==
    /\ points = [v \in Versions |-> {}]
    /\ fts = [v \in Versions |-> 0]
    /\ Lock!RedisLockInit
    /\ pc = [w \in Workers |-> "idle"]
    /\ next = [w \in Workers |-> 1]
    /\ tries = [w \in Workers |-> 1]
    /\ outcome = [w \in Workers |-> "none"]
    /\ lapsed = {}
    /\ overlap = FALSE

Goto(w, from, to) == pc[w] = from /\ pc' = [pc EXCEPT ![w] = to]

Report(w, what) == outcome' = [outcome EXCEPT ![w] = what]
-----------------------------------------------------------------------------
(* What get_ingestion_status may answer: the version of whichever point    *)
(* of the document the scroll returns first.                               *)
Scrolled == {v \in Versions : points[v] # {}}

(* A free worker process takes the job and prepares it: the status check,  *)
(* which an unreachable Qdrant passes, then the bundle, which may be       *)
(* missing, malformed, empty or too large.                                 *)
Prepare(w) ==
    /\ Cardinality(Busy) < MaxWorkers
    /\ \/ /\ VersionOf[w] \in Scrolled
          /\ Goto(w, "idle", "done") /\ Report(w, "duplicate")
       \/ /\ \/ Scrolled = {}
             \/ Scrolled \ {VersionOf[w]} # {}
             \/ "qdrant" \in Faults
          /\ \/ Goto(w, "idle", "lock") /\ UNCHANGED outcome
             \/ Goto(w, "idle", "done") /\ Report(w, "failed")
    /\ UNCHANGED <<points, fts, stepLock, next, tries, lapsed, overlap>>

(* redis_lock.acquire; None is reported as a success, concurrent_skip.     *)
(* A Redis error is worker_unhandled, and the SET may have happened.       *)
AcquireLock(w) ==
    LET v == VersionOf[w] IN
    /\ pc[w] = "lock"
    /\ \/ Lock!Acquire(v, w) /\ Goto(w, "lock", "upsert") /\ UNCHANGED outcome
       \/ Lock!Refused(v) /\ Goto(w, "lock", "done") /\ Report(w, "concurrent_skip")
       \/ /\ "redis" \in Faults
          /\ Lock!Acquire(v, w) \/ UNCHANGED stepLock
          /\ Goto(w, "lock", "done") /\ Report(w, "failed")
    /\ UNCHANGED <<points, fts, next, tries, lapsed, overlap>>

Stored(w) == points' = [points EXCEPT ![VersionOf[w]] = @ \cup {next[w]}]

(* Faulty: one batch short.                                                *)
LastBatch_Early(w) == next[w] + 1 = BatchesOf[VersionOf[w]]

LastBatch(w) == next[w] = BatchesOf[VersionOf[w]]

(* The upsert's next batch; the last one ends it.                          *)
SendBatch(w) ==
    /\ Stored(w)
    /\ \/ /\ ~LastBatch(w)
          /\ Goto(w, "upsert", "upsert")
          /\ next' = [next EXCEPT ![w] = @ + 1]
          /\ UNCHANGED tries
       \/ /\ LastBatch(w)
          /\ Goto(w, "upsert", "deleteOld")
          /\ tries' = [tries EXCEPT ![w] = 1]
          /\ UNCHANGED next
    /\ UNCHANGED <<fts, stepLock, outcome, lapsed, overlap>>

(* Faulty: the attempts are not counted.                                   *)
NextTry_Uncounted(w) == tries[w] < MaxTries /\ UNCHANGED tries

(* tenacity: another attempt, while the bound allows.                      *)
NextTry(w) == /\ tries[w] < MaxTries
              /\ tries' = [tries EXCEPT ![w] = @ + 1]

(* A batch raises, stored or not: tenacity starts upsert_chunks again from *)
(* the first batch, up to MaxTries times; then the job has failed.  A      *)
(* failing encoder ends it before anything is sent.                        *)
FailUpsert(w) ==
    /\ \/ /\ "qdrant" \in Faults
          /\ Stored(w) \/ UNCHANGED points
          /\ \/ /\ NextTry(w)
                /\ Goto(w, "upsert", "upsert")
                /\ next' = [next EXCEPT ![w] = 1]
                /\ UNCHANGED outcome
             \/ /\ tries[w] = MaxTries
                /\ Goto(w, "upsert", "release") /\ Report(w, "failed")
                /\ UNCHANGED <<next, tries>>
       \/ /\ "encode" \in Faults
          /\ next[w] = 1 /\ tries[w] = 1
          /\ Goto(w, "upsert", "release") /\ Report(w, "failed")
          /\ UNCHANGED <<points, next, tries>>
    /\ UNCHANGED <<fts, stepLock, lapsed, overlap>>

(* Faulty: deletes whatever is not the version just indexed.               *)
OlderThan_AnyOther(v) == Versions \ {v}

(* Faulty: Range(lte=keep_version).                                        *)
OlderThan_Inclusive(v) == {u \in Versions : u <= v}

(* The filter of delete_old_versions: Range(lt=keep_version).              *)
OlderThan(v) == {u \in Versions : u < v}

DeletePoints(vs) ==
    points' = [v \in Versions |-> IF v \in vs THEN {} ELSE points[v]]

(* delete_old_versions, retried like the upsert; its failure is logged.    *)
DeleteOldVersions(w) ==
    /\ \/ /\ DeletePoints(OlderThan(VersionOf[w]))
          /\ Goto(w, "deleteOld", "ftsDelete")
          /\ UNCHANGED tries
       \/ /\ "qdrant" \in Faults
          /\ DeletePoints(OlderThan(VersionOf[w])) \/ UNCHANGED points
          /\ \/ /\ NextTry(w)
                /\ Goto(w, "deleteOld", "deleteOld")
             \/ /\ tries[w] = MaxTries
                /\ Goto(w, "deleteOld", "ftsDelete")
                /\ UNCHANGED tries
    /\ UNCHANGED <<fts, stepLock, next, outcome, lapsed, overlap>>

(* Faulty: a filter that matches no row.                                   *)
DeleteByDoc_Nothing == UNCHANGED fts

DeleteByDoc == fts' = [v \in Versions |-> 0]

(* The jobs between the two transactions of replace_doc.                   *)
Replacing == {w \in Workers : pc[w] = "ftsInsert"}

(* replace_doc begins with delete_by_doc, committed on its own.  Whatever  *)
(* raises in replace_doc is logged, and the job has succeeded all the same.*)
FtsDelete(w) ==
    /\ \/ /\ DeleteByDoc
          /\ Goto(w, "ftsDelete", "ftsInsert") /\ UNCHANGED outcome
          /\ overlap' = (overlap \/ Replacing # {})
       \/ /\ "fts" \in Faults
          /\ Goto(w, "ftsDelete", "release") /\ Report(w, "indexed")
          /\ UNCHANGED <<fts, overlap>>
    /\ UNCHANGED <<points, stepLock, next, tries, lapsed>>

(* The inserts of replace_doc are one transaction.                         *)
FtsInsert(w) ==
    /\ Goto(w, "ftsInsert", "release") /\ Report(w, "indexed")
    /\ \/ fts' = [fts EXCEPT ![VersionOf[w]] = @ + 1]
       \/ "fts" \in Faults /\ UNCHANGED fts
    /\ UNCHANGED <<points, stepLock, next, tries, lapsed, overlap>>

(* The finally clause: a failed release is left to the TTL.                *)
ReleaseLock(w) ==
    /\ Goto(w, "release", "done")
    /\ \/ Lock!Release(VersionOf[w], w)
       \/ "redis" \in Faults /\ UNCHANGED stepLock
    /\ UNCHANGED <<points, fts, next, tries, outcome, lapsed, overlap>>

(* The process dies or outlives its 1800 s: EncodingPool.wait reports      *)
(* failed, and what the job has written and locked stays as it is.         *)
KillWorker(w) ==
    /\ "kill" \in Faults
    /\ w \in Busy
    /\ pc' = [pc EXCEPT ![w] = "done"]
    /\ Report(w, "failed")
    /\ UNCHANGED <<points, fts, stepLock, next, tries, lapsed, overlap>>

(* LOCK_TTL_SEC end, whether or not the holder has.                        *)
ExpireLock(v) ==
    /\ Lock!Expire(v)
    /\ lapsed' = lapsed \cup (Busy \cap {stepLock[v]})
    /\ UNCHANGED <<points, fts, pc, next, tries, outcome, overlap>>
-----------------------------------------------------------------------------
JobStep(w) == \/ AcquireLock(w) \/ SendBatch(w) \/ FailUpsert(w)
              \/ DeleteOldVersions(w) \/ FtsDelete(w) \/ FtsInsert(w)
              \/ ReleaseLock(w)

Next == \/ \E w \in Workers : Prepare(w) \/ JobStep(w) \/ KillWorker(w)
        \/ \E v \in Versions : ExpireLock(v)

Spec == Init /\ [][Next]_vars

(* A running process goes on; nothing is assumed of kills or of the TTL,   *)
(* nor that a waiting job is ever started.                                 *)
FairSpec == Spec /\ \A w \in Workers : WF_vars(JobStep(w))
-----------------------------------------------------------------------------
(***************************************************************************)
(* Correctness                                                             *)
(***************************************************************************)

(* The jobs between acquire and release.                                   *)
Writing == {"upsert", "deleteOld", "ftsDelete", "ftsInsert", "release"}

(* The newest version Qdrant holds completely never goes back to an older  *)
(* one: neither a late job of an old version nor the cleanup of old        *)
(* versions, in whatever order, takes it away.                             *)
NewestNeverRegresses ==
    [][\A v \in Versions : Complete(v) => \E u \in Versions : u >= v /\ Complete(u)']_vars

(* "Re-ingest of the same doc_hash produces the same row count (no         *)
(* duplicates)" (replace_doc), which holds with one worker process and not *)
(* with two: its delete and its insert are separate transactions.          *)
FtsOneVersion ==
    \A u, v \in Versions : fts[u] <= 1 /\ (fts[u] > 0 /\ fts[v] > 0 => u = v)

(* A version reported as indexed, or a newer one, is complete in Qdrant,   *)
(* from the end of the upsert on and for ever after.                       *)
Indexed(w) == pc[w] \in {"deleteOld", "ftsDelete", "ftsInsert"} \/ outcome[w] = "indexed"

IndexedIsSearchable ==
    \A w \in Workers : Indexed(w) => \E u \in Versions : u >= VersionOf[w] /\ Complete(u)

(* Two jobs write the same version only after the lock of one of them has  *)
(* expired under it: no kill, failed release or retry lets a second one in.*)
OneWriterPerVersion ==
    \A w, x \in Workers :
        pc[w] \in Writing /\ pc[x] \in Writing /\ VersionOf[w] = VersionOf[x]
            => w = x \/ w \in lapsed \/ x \in lapsed

(* The FTS database holds the rows of one version, once, through every     *)
(* failure, retry and kill and with any number of worker processes, as     *)
(* long as no two jobs were between delete and insert at the same time.    *)
FtsNoDuplicates == ~overlap => FtsOneVersion

(* Skipping a job because its version is "already indexed" or locked loses *)
(* nothing unless a job of that version fails: the version or a newer one  *)
(* becomes complete, even when locks expire under their holders.           *)
SkippingLosesNothing ==
    \A w \in Workers :
        outcome[w] \in {"duplicate", "concurrent_skip"} ~>
            \/ \E u \in Versions : u >= VersionOf[w] /\ Complete(u)
            \/ \E x \in Workers : VersionOf[x] = VersionOf[w] /\ outcome[x] = "failed"

(* Qdrant may fail as often as it likes: a job that runs comes to an end.  *)
JobsEnd == \A w \in Workers : (pc[w] # "idle") ~> (pc[w] = "done")

(* The inductive strengthening: an upsert starts at the first batch, and   *)
(* what it has sent is stored unless a newer version is complete, whose    *)
(* cleanup may have come in between.                                       *)
Newer(v) == {u \in Versions : u > v /\ Complete(u)}

UpsertProgress ==
    \A w \in Workers : pc[w] = "upsert" =>
        /\ next[w] \in Batches(VersionOf[w])
        /\ \/ Newer(VersionOf[w]) # {}
           \/ (1 .. next[w] - 1) \subseteq points[VersionOf[w]]

StartsAtFirstBatch == \A w \in Workers : pc[w] \in {"idle", "lock"} => next[w] = 1

OnlyOwnBatches == \A v \in Versions : points[v] \subseteq Batches(v)

IInv == /\ TypeOK
        /\ OnlyOwnBatches
        /\ StartsAtFirstBatch
        /\ UpsertProgress
        /\ IndexedIsSearchable

(* The lock of a version a job writes is the job's own, unless it expired. *)
WritersHoldLock ==
    \A w \in Workers :
        pc[w] \in Writing => w \in lapsed \/ stepLock[VersionOf[w]] = w

(* As long as no two jobs overlap, nothing is in the FTS database between  *)
(* the delete and the insert.                                              *)
ReplacesInTurn ==
    ~overlap => /\ \A w, x \in Replacing : w = x
                /\ \A w \in Replacing, v \in Versions : fts[v] = 0

(* With one worker process: nobody else runs, and nothing is in the FTS    *)
(* database between the delete and the insert.                             *)
WritesAlone ==
    /\ \A w, x \in Busy : w = x
    /\ \A w \in Workers : pc[w] = "ftsInsert" => \A v \in Versions : fts[v] = 0
-----------------------------------------------------------------------------
(***************************************************************************)
(* A statement of the sources that the code does not keep                  *)
(***************************************************************************)

(* "already indexed at same version": a job skipped as a duplicate finds   *)
(* its version complete.  One leftover point of a failed upsert is enough. *)
AlreadyIndexedIsTrue ==
    [][\A w \in Workers :
          (outcome'[w] = "duplicate" /\ outcome[w] # "duplicate") =>
              Complete(VersionOf[w])]_vars
=============================================================================
