------------------------------ MODULE Reingest ------------------------------
(***************************************************************************)
(* The re-ingestion of a corpus as version 2: task_d_mvp_reingest.py and   *)
(* ingest_new_bundles.py, which share their structure.  One bundle at a    *)
(* time is notified and polled; a checkpoint file, replaced atomically     *)
(* after every bundle, lets a killed run be resumed.  The status route     *)
(* answers for the document, whatever version its newest row is of.        *)
(* classify_ingest_failures.py sorts the failures of the checkpoint into   *)
(* those to notify again and those the service is said to have already.    *)
(*                                                                         *)
(* The trace id holds the time of the run: run n's request is row n of its *)
(* bundle; row 0 is that of version 1.  A handler takes the ingest lock,   *)
(* then inserts the row; one that died in between, or whose caller no      *)
(* longer waits, leaves a lock without a row.                              *)
(***************************************************************************)
EXTENDS Integers

CONSTANTS Bundles,          \* pick_bundles; in which order does not matter
          MaxTriesPerBundle,    \* --retry
          MaxReingests      \* bound: runs

ASSUME ReingestAssumption == MaxTriesPerBundle \in Nat /\ MaxReingests \in Nat

VARIABLES
    script,     \* "task_d" or "new_bundles"
    rows,       \* the rows of a bundle by run: "none", "QUEUED", "PENDING", ...
    newest,     \* the row with the latest updated_at
    turnLock,   \* bundles whose ingest lock is held
    halfway,    \* bundle and run of a handler that is on its way from the lock
                \* to the row although its caller has stopped waiting
    indexedAs,  \* the version Qdrant holds, 0: none
    lateOld,    \* history: bundles with a job of version 1 at the start
    hadOld,     \* history: bundles that had a row or points of version 1
    misheard,   \* history: bundles whose notification was answered while no run
                \* had a row of them
    step,       \* "idle", "copy", "notify", "poll"
    left,       \* the bundles still to do
    copyFailed, \* cp_failures
    attemptNo,  \* of the current bundle
    lastStatus, \* last_status of the bundle: "none", "timeout", ...
    completed,  \* the checkpoint's completed
    failed,     \* the checkpoint's failed: bundle and status, never removed
    toRetry,    \* class A, fail_A_retry.json
    mislabeled, \* class B, fail_B_mislabeled.txt
    reingests   \* runs so far

rowVars    == <<rows, newest, turnLock, halfway, indexedAs>>
classes    == <<toRetry, mislabeled>>
oldVars    == <<lateOld, hadOld>>
driverVars == <<script, step, left, copyFailed, attemptNo, lastStatus, completed, failed, reingests>>
reingestVars == <<rowVars, oldVars, misheard, driverVars, classes>>

Settling == {"QUEUED", "PENDING"}

ReingestTypeOK ==
    /\ script \in {"task_d", "new_bundles"}
    /\ rows \in [Bundles -> [0 .. MaxReingests ->
                    {"none", "QUEUED", "PENDING", "COMPLETED", "FAILED"}]]
    /\ newest \in [Bundles -> 0 .. MaxReingests]
    /\ turnLock \subseteq Bundles /\ indexedAs \in [Bundles -> 0 .. 2]
    /\ halfway \subseteq Bundles \X (1 .. MaxReingests) /\ misheard \subseteq Bundles
    /\ step \in {"idle", "copy", "notify", "poll"}
    /\ left \subseteq Bundles /\ attemptNo \in 1 .. MaxTriesPerBundle + 1
    /\ lastStatus \in {"none", "timeout", "success", "failed"}
    /\ completed \subseteq Bundles /\ failed \subseteq Bundles \X {"none", "timeout", "failed"}
    /\ toRetry \subseteq Bundles /\ mislabeled \subseteq Bundles
    /\ copyFailed \subseteq Bundles /\ lateOld \subseteq hadOld /\ hadOld \subseteq Bundles
    /\ reingests \in 0 .. MaxReingests

(* The rows are in the container's SQLite file, the points in Qdrant: each *)
(* may be there without the other.                                         *)
ReingestInit ==
    /\ script \in {"task_d", "new_bundles"}
    /\ indexedAs \in [Bundles -> {0, 1}]
    /\ \E old \in [Bundles -> {"none", "QUEUED", "COMPLETED", "FAILED"}] :
         /\ rows = [b \in Bundles |-> [n \in 0 .. MaxReingests |->
                       IF n = 0 THEN old[b] ELSE "none"]]
         /\ turnLock = {b \in Bundles : old[b] = "QUEUED"}
         /\ lateOld = turnLock
         /\ hadOld = {b \in Bundles : old[b] # "none" \/ indexedAs[b] = 1}
    /\ newest = [b \in Bundles |-> 0] /\ halfway = {} /\ misheard = {}
    /\ step = "idle" /\ left = {} /\ copyFailed = {} /\ attemptNo = 1
    /\ lastStatus = "none" /\ completed = {} /\ failed = {} /\ reingests = 0
    /\ toRetry = {} /\ mislabeled = {}
-----------------------------------------------------------------------------
(* The service.  A job's end touches updated_at, a restart and the         *)
(* compensation handler do not.                                            *)
JobEnded(b, n) ==
    /\ rows[b][n] = "QUEUED"
    /\ newest' = [newest EXCEPT ![b] = n]
    /\ \/ /\ rows' = [rows EXCEPT ![b][n] = "COMPLETED"]
          /\ indexedAs' = [indexedAs EXCEPT ![b] = IF n = 0 /\ @ = 0 THEN 1
                                                   ELSE IF n = 0 THEN @ ELSE 2]
       \/ /\ rows' = [rows EXCEPT ![b][n] = "FAILED"] /\ UNCHANGED indexedAs
    /\ UNCHANGED <<turnLock, halfway, oldVars, misheard, driverVars, classes>>

(* Not while a handler is between the lock and the row, two statements.    *)
TurnLockExpires(b) ==
    /\ b \in turnLock /\ turnLock' = turnLock \ {b}
    /\ b \notin {h[1] : h \in halfway}
    /\ UNCHANGED <<rows, newest, halfway, indexedAs, oldVars, misheard, driverVars, classes>>

PodRestarts ==
    /\ halfway # {} \/ \E b \in Bundles, n \in 0 .. MaxReingests : rows[b][n] = "QUEUED"
    /\ rows' = [b \in Bundles |-> [n \in 0 .. MaxReingests |->
                   IF rows[b][n] = "QUEUED" THEN "PENDING" ELSE rows[b][n]]]
    /\ halfway' = {}
    /\ UNCHANGED <<newest, turnLock, indexedAs, oldVars, misheard, driverVars, classes>>

PendingFails(b, n) ==
    /\ rows[b][n] = "PENDING"
    /\ rows' = [rows EXCEPT ![b][n] = "FAILED"]
    /\ UNCHANGED <<newest, turnLock, halfway, indexedAs, oldVars, misheard, driverVars, classes>>

(* The rest of notify after the lock: the row is queued, orphaned by an    *)
(* error, or failed by admission, after which the lock is released, if it  *)
(* can be.                                                                 *)
InsertsRow(b, n) ==
    \E row \in {"QUEUED", "PENDING", "FAILED"} :
        /\ rows' = [rows EXCEPT ![b][n] = row] /\ newest' = [newest EXCEPT ![b] = n]
        /\ turnLock' \in {turnLock \cup {b}} \cup
                          (IF row = "QUEUED" THEN {} ELSE {turnLock \ {b}})

LateRow(b, n) ==
    /\ <<b, n>> \in halfway /\ halfway' = halfway \ {<<b, n>>}
    /\ \/ InsertsRow(b, n)
       \/ /\ turnLock' \in {turnLock, turnLock \ {b}}      \* the insert raises
          /\ UNCHANGED <<rows, newest>>
    /\ UNCHANGED <<indexedAs, oldVars, misheard, driverVars, classes>>

(* GET /status: get_for_doc, then Qdrant.                                  *)
DocStatus(b) ==
    LET row == rows[b][newest[b]]
    IN  IF row \in Settling THEN "pending"
        ELSE IF row = "FAILED" THEN "failed"
        ELSE IF indexedAs[b] > 0 THEN "success" ELSE "404"
-----------------------------------------------------------------------------
(* main: the bundles, or those of --include-list; what the checkpoint has  *)
(* completed is not done again.                                            *)
StartReingest ==
    /\ step = "idle" /\ reingests < MaxReingests
    /\ \E include \in {Bundles} \cup (IF script = "new_bundles" THEN {toRetry} ELSE {}) :
         left' = include \ completed
    /\ step' = "copy" /\ reingests' = reingests + 1
    /\ copyFailed' = {} /\ attemptNo' = 1 /\ lastStatus' = "none"
    /\ UNCHANGED <<rowVars, oldVars, misheard, script, completed, failed, classes>>

(* docker cp: a failure ends task_d (return 3), ingest_new leaves it out.  *)
CopyBundles ==
    /\ step = "copy"
    /\ \E fails \in SUBSET left :
         IF fails # {} /\ script = "task_d"
         THEN step' = "idle" /\ left' = {} /\ UNCHANGED copyFailed
         ELSE step' = "notify" /\ copyFailed' = fails /\ left' = left \ fails
    /\ UNCHANGED <<rowVars, oldVars, misheard, script, attemptNo, lastStatus, completed, failed,
                   reingests, classes>>

(* Faulty: whatever the answer, the status is polled.                      *)
Acknowledged_Always(code) == code \in {0, 200, 202, 503}

(* What counts as an accepted notification.                                *)
Acknowledged(code) == code \in {200, 202}

(* The bundle the loop is at.                                              *)
Current == CHOOSE b \in left : TRUE

(* The checkpoint after a bundle.                                          *)
Recorded(b, status) ==
    /\ completed' = IF status = "success" THEN completed \cup {b} ELSE completed
    /\ failed'    = IF status = "success" THEN failed ELSE failed \cup {<<b, status>>}
    /\ left' = left \ {b} /\ attemptNo' = 1 /\ lastStatus' = "none" /\ step' = "notify"

NextAttempt(b, status) ==
    IF attemptNo < MaxTriesPerBundle
    THEN /\ attemptNo' = attemptNo + 1 /\ lastStatus' = status /\ step' = "notify"
         /\ UNCHANGED <<left, completed, failed>>
    ELSE Recorded(b, status)

(* POST /notify: no answer (whether handled or not), an error code, or 202 *)
(* for in_flight, duplicate, an accepted and a rejected notification.      *)
Notified(b, n, code) ==
    \/ /\ code # 202 \/ b \in turnLock \/ rows[b][n] # "none"
       /\ UNCHANGED <<rows, newest, turnLock, halfway>>
    \/ /\ b \notin turnLock /\ rows[b][n] = "none"
       /\ InsertsRow(b, n) /\ UNCHANGED halfway
    \/ /\ b \notin turnLock /\ code # 202
       /\ turnLock' = turnLock \cup {b} /\ UNCHANGED <<rows, newest>>
       /\ \/ UNCHANGED halfway                \* a crash, or a reply of Redis lost
          \/ code = 0 /\ rows[b][n] = "none" /\ halfway' = halfway \cup {<<b, n>>}

NoRowOfARun(b, table) == \A n \in 1 .. MaxReingests : table[b][n] = "none"

NotifyBundle ==
    /\ step = "notify" /\ left # {} /\ attemptNo <= MaxTriesPerBundle
    /\ \E code \in {0, 503, 202} :
         /\ Notified(Current, reingests, code)
         /\ misheard' = IF code = 202 /\ NoRowOfARun(Current, rows')
                        THEN misheard \cup {Current} ELSE misheard
         /\ IF Acknowledged(code)
            THEN step' = "poll" /\ UNCHANGED <<left, attemptNo, lastStatus, completed, failed>>
            ELSE NextAttempt(Current, lastStatus)
    /\ UNCHANGED <<indexedAs, oldVars, script, copyFailed, reingests, classes>>

(* poll_status: a terminal answer, or the timeout, which is tried again.   *)
PollBundle ==
    /\ step = "poll"
    /\ LET b == Current
       IN  \/ NextAttempt(b, "timeout")
           \/ DocStatus(b) \in {"success", "failed"} /\ Recorded(b, DocStatus(b))
    /\ UNCHANGED <<rowVars, oldVars, misheard, script, copyFailed, reingests, classes>>

(* The run is over, or dies: an unreadable response kills task_d as well.  *)
EndReingest ==
    /\ step # "idle"
    /\ step' = "idle" /\ left' = {} /\ attemptNo' = 1 /\ lastStatus' = "none"
    /\ UNCHANGED <<rowVars, oldVars, misheard, script, copyFailed, completed, failed, reingests, classes>>

(* classify_ingest_failures.py, with --check-status or without it.  A live *)
(* status that cannot be had puts a bundle in neither file, as does a      *)
(* verdict of the service.                                                 *)
Undecided == {f[1] : f \in {g \in failed : g[2] # "failed"}}

Classify ==
    /\ step = "idle" /\ failed # {}
    /\ \/ /\ \E reached \in SUBSET Undecided :
              /\ toRetry' = {b \in reached : DocStatus(b) \in {"404", "pending"}}
              /\ mislabeled' = {b \in reached : DocStatus(b) = "success"}
       \/ toRetry' = Undecided /\ mislabeled' = {}
    /\ UNCHANGED <<rowVars, oldVars, misheard, driverVars>>

ReingestNext ==
    \/ \E b \in Bundles, n \in 0 .. MaxReingests : JobEnded(b, n) \/ PendingFails(b, n)
    \/ \E b \in Bundles, n \in 1 .. MaxReingests : LateRow(b, n)
    \/ \E b \in Bundles : TurnLockExpires(b)
    \/ PodRestarts
    \/ StartReingest \/ CopyBundles \/ NotifyBundle \/ PollBundle \/ EndReingest \/ Classify

ReingestSpec == ReingestInit /\ [][ReingestNext]_reingestVars
-----------------------------------------------------------------------------
(* A bundle in the checkpoint's completed list, which no later run touches *)
(* again, is indexed as version 2, through killed runs, repeated and       *)
(* unanswered notifications and restarts of the service; so is one the     *)
(* classifier declares to be there.  The status route answers for the      *)
(* document, so version 1 passes for version 2 in three cases: a bundle of *)
(* which a job of version 1 was still running; one with version 1 whose    *)
(* notification was answered in_flight for a lock behind which there was   *)
(* no row yet, or never one (a crash between ingestion.py:411 and 428);    *)
(* and, for the classifier, any bundle with a row or points of version 1.  *)
SkippedIsReingested ==
    LET Trusted == completed \ (lateOld \cup (misheard \cap hadOld))
    IN  \A b \in Trusted \cup (mislabeled \ hadOld) : indexedAs[b] = 2
=============================================================================
