----------------------------- MODULE BulkImport -----------------------------
(***************************************************************************)
(* The bulk import, scripts/live_stress_60.py: a process beside the        *)
(* service that notifies it of every document of a corpus, polls their     *)
(* status and writes failed_docs.txt.  Mode "offline" resumes: it leaves   *)
(* out what is already ingested; "retry-failed" takes the documents of     *)
(* failed_docs.txt.  It can be killed at any point and started again.      *)
(* The load-test mode, which neither resumes nor lists, is left out.       *)
(*                                                                         *)
(* Every notification of a document has the same trace id and version 1,   *)
(* hence the same request id, in every run: `ledger' has one row a         *)
(* document.  The service is what its routes answer.                       *)
(***************************************************************************)
EXTENDS Integers, FiniteSets, SequencesExt, Selection

CONSTANTS Corpus,       \* the directories of the corpus in their order
          IdOf,         \* the doc_id in the first block of a directory
          Unusable,     \* the directories without a usable block
          MaxTries,     \* NOTIFY_RETRY_MAX + 1
          MaxRuns,      \* bound: runs of the script
          MaxCleaned,   \* bound: documents whose points are cleaned in a run
          NoFile        \* failed_docs.txt does not exist

Dirs   == Range(Corpus)
DocIds == Dirs \cup {IdOf[d] : d \in Dirs}

ASSUME BulkAssumption ==
    /\ Corpus \in Seq(Dirs) /\ IdOf \in [Dirs -> DocIds] /\ Unusable \subseteq Dirs
    /\ MaxTries \in Nat \ {0} /\ MaxRuns \in Nat /\ MaxCleaned \in Nat

VARIABLES
    ledger,     \* the row of a document: "none", "QUEUED" (a job has it),
                \* "PENDING" (nobody has), "COMPLETED", "FAILED"
    locked,     \* documents whose ingest lock is held and has no row: the
                \* handler is on its way to it, or died there (with a row
                \* the lock changes no answer and nothing else)
    searchable, \* documents with points in Qdrant
    auditLog,   \* documents with an ingestion_completed event
    cleaned,    \* history: documents whose points were cleaned away since the
                \* last run of the script began
    mode,       \* "offline", "retry-failed"
    stage,      \* "idle", "resume", "build", "dispatch", "poll", "report"
    todo,       \* what the stage still has to do, in order
    tries,      \* of the notification being sent
    ingested,   \* the resume set, of no use once the payloads are built
    outcome,    \* DocOutcome.status of a document in this run, or "none"
    failedDocs, \* failed_docs.txt
    exitCode,   \* of the last run; -1: it is running or was killed
    bulkRuns    \* runs so far

service == <<ledger, locked, searchable, auditLog, cleaned>>
driver  == <<mode, stage, todo, tries, ingested, outcome, failedDocs, exitCode, bulkRuns>>
bulkVars == <<service, driver>>

Outcomes == {"none", "skipped_resumed", "notified", "notified_failed",
             "rejected", "success", "failed", "pending"}

(* Faulty: a document still pending at the deadline is not listed.         *)
FailedStatuses_Settled == {"rejected", "failed", "notified_failed"}

(* _FAILED_STATUSES: what goes to failed_docs.txt.                         *)
FailedStatuses == {"rejected", "failed", "pending", "notified_failed"}

BulkTypeOK ==
    /\ ledger \in [DocIds -> {"none", "QUEUED", "PENDING", "COMPLETED", "FAILED"}]
    /\ locked \subseteq DocIds /\ searchable \subseteq DocIds /\ auditLog \subseteq DocIds
    /\ cleaned \subseteq DocIds
    /\ mode \in {"offline", "retry-failed"}
    /\ stage \in {"idle", "resume", "build", "dispatch", "poll", "report"}
    /\ todo \in Seq(DocIds) /\ tries \in 0 .. MaxTries - 1
    /\ ingested \subseteq DocIds /\ outcome \in [DocIds -> Outcomes]
    /\ failedDocs \in SUBSET DocIds \cup {NoFile}
    /\ exitCode \in -1 .. 3 /\ bulkRuns \in 0 .. MaxRuns

(* failed_docs.txt may have been written by hand.                          *)
BulkInit ==
    /\ ledger = [x \in DocIds |-> "none"]
    /\ locked = {} /\ searchable = {} /\ auditLog = {} /\ cleaned = {}
    /\ mode = "offline" /\ stage = "idle" /\ todo = <<>> /\ tries = 0
    /\ ingested = {} /\ outcome = [x \in DocIds |-> "none"]
    /\ failedDocs \in {NoFile} \cup SUBSET DocIds
    /\ exitCode = -1 /\ bulkRuns = 0
-----------------------------------------------------------------------------
(* The service between two calls: a job ends (a failed one may leave some  *)
(* points), a lock expires, a restart gives up its jobs, the compensation  *)
(* handler fails what nobody has, an operator cleans points out of Qdrant. *)
JobCompletes(x) ==
    /\ ledger[x] = "QUEUED"
    /\ ledger' = [ledger EXCEPT ![x] = "COMPLETED"]
    /\ searchable' = searchable \cup {x} /\ auditLog' = auditLog \cup {x}
    /\ UNCHANGED <<locked, cleaned, driver>>

JobFails(x) ==
    /\ ledger[x] = "QUEUED"
    /\ ledger' = [ledger EXCEPT ![x] = "FAILED"]
    /\ \/ searchable' = searchable \cup {x}
       \/ UNCHANGED searchable
    /\ UNCHANGED <<locked, auditLog, cleaned, driver>>

(* The handler that has the lock inserts its row.                          *)
RowInserted(x) ==
    /\ x \in locked /\ locked' = locked \ {x}
    /\ ledger' = [ledger EXCEPT ![x] = "QUEUED"]
    /\ UNCHANGED <<searchable, auditLog, cleaned, driver>>

IngestLockExpires(x) ==
    /\ x \in locked /\ locked' = locked \ {x}
    /\ UNCHANGED <<ledger, searchable, auditLog, cleaned, driver>>

ServiceRestarts ==
    /\ \E x \in DocIds : ledger[x] = "QUEUED"
    /\ ledger' = [x \in DocIds |-> IF ledger[x] = "QUEUED" THEN "PENDING" ELSE ledger[x]]
    /\ UNCHANGED <<locked, searchable, auditLog, cleaned, driver>>

CompensationFails(x) ==
    /\ ledger[x] = "PENDING"
    /\ ledger' = [ledger EXCEPT ![x] = "FAILED"]
    /\ UNCHANGED <<locked, searchable, auditLog, cleaned, driver>>

PointsCleaned(x) ==
    /\ x \in searchable /\ searchable' = searchable \ {x}
    /\ cleaned' = cleaned \cup {x} /\ Cardinality(cleaned') <= MaxCleaned
    /\ UNCHANGED <<ledger, locked, auditLog, driver>>

(* What POST /notify does with a document: turned away before the lock,    *)
(* in_flight, duplicate, or a new row, which admission may fail and an     *)
(* error may orphan, or a lock without a row yet.  Only the code reaches   *)
(* the outcome.                                                            *)
Handled(x) ==
    LET Left == [row |-> ledger[x], lock |-> x \in locked, code |-> 202]
    IN  {[Left EXCEPT !.code = 503]} \cup
        IF x \in locked \/ ledger[x] # "none" THEN {Left}
        ELSE {[row |-> "QUEUED",  lock |-> FALSE, code |-> 202],
              [row |-> "FAILED",  lock |-> FALSE, code |-> 202],
              [row |-> "PENDING", lock |-> FALSE, code |-> 500],
              [row |-> "none",    lock |-> TRUE,  code |-> 500]}

(* GET /status: the row while it is not completed, then Qdrant.            *)
StatusOf(x) ==
    IF ledger[x] \in {"QUEUED", "PENDING"} THEN "pending"
    ELSE IF ledger[x] = "FAILED" THEN "failed"
    ELSE IF x \in searchable THEN "success" ELSE "404"
-----------------------------------------------------------------------------
Settled(seq) == Selected(seq, {x \in DocIds : outcome[x] = "notified"})

Started(kind) ==
    /\ stage = "idle" /\ bulkRuns < MaxRuns
    /\ bulkRuns' = bulkRuns + 1 /\ mode' = kind
    /\ ingested' = {} /\ tries' = 0 /\ cleaned' = {}
    /\ UNCHANGED <<ledger, locked, searchable, auditLog, failedDocs>>

Exits(code) == stage' = "idle" /\ exitCode' = code /\ todo' = <<>>

(* main, offline: the resume check asks for the names of the directories.  *)
StartOffline ==
    /\ Started("offline")
    /\ outcome' = [x \in DocIds |-> "none"]
    /\ \/ stage' = "resume" /\ todo' = Corpus /\ exitCode' = -1
       \/ Exits(2)                          \* /health did not answer ok

(* Faulty: any terminal status counts as ingested.                         *)
AskStatus_Terminal ==
    /\ stage = "resume" /\ todo # <<>>
    /\ todo' = Tail(todo)
    /\ ingested' = IF StatusOf(Head(todo)) \in {"success", "failed"}
                   THEN ingested \cup {Head(todo)} ELSE ingested
    /\ UNCHANGED <<service, mode, stage, tries, outcome, failedDocs, exitCode, bulkRuns>>

(* _filter_qdrant_ingested; an exception loses what it has found so far.   *)
AskStatus ==
    /\ stage = "resume" /\ todo # <<>>
    /\ \/ /\ todo' = Tail(todo)
          /\ ingested' = IF StatusOf(Head(todo)) = "success"
                         THEN ingested \cup {Head(todo)} ELSE ingested
       \/ /\ todo' = Tail(todo) /\ UNCHANGED ingested        \* no answer
       \/ /\ todo' = <<>> /\ ingested' = {}
    /\ UNCHANGED <<service, mode, stage, tries, outcome, failedDocs, exitCode, bulkRuns>>

ResumeChecked ==
    /\ stage = "resume" /\ todo = <<>>
    /\ \/ /\ stage' = "build" /\ todo' = Selected(Corpus, Dirs \ Unusable)
          /\ ingested' = ingested \cup auditLog   \* get_ingested_doc_hashes
          /\ UNCHANGED exitCode
       \/ /\ Exits(1)                       \* docker exec failed: raised
          /\ UNCHANGED ingested
    /\ UNCHANGED <<service, mode, tries, outcome, failedDocs, bulkRuns>>

(* The payloads of what is not ingested; none ends the run early.          *)
BuildPayloads ==
    LET ids   == [i \in DOMAIN todo |-> IdOf[todo[i]]]
        left  == Selected(ids, DocIds \ ingested)
    IN  /\ stage = "build"
        /\ outcome' = [x \in DocIds |->
                         IF x \in Range(ids) \cap ingested THEN "skipped_resumed"
                         ELSE outcome[x]]
        /\ todo' = left
        /\ stage' = IF left = <<>> THEN "report" ELSE "dispatch"
        /\ ingested' = {}
        /\ UNCHANGED <<service, mode, tries, failedDocs, exitCode, bulkRuns>>

(* main, retry-failed: every entry must be a directory of the corpus, and  *)
(* one with blocks is notified again under the entry itself.               *)
StartRetry ==
    LET entries == Selected(Corpus, failedDocs)
        usable  == Selected(entries, Dirs \ Unusable)
    IN  /\ Started("retry-failed")
        /\ IF failedDocs \in {NoFile, {}} THEN Exits(2) /\ outcome' = [x \in DocIds |-> "none"]
           ELSE /\ outcome' = [x \in DocIds |-> IF x \in Range(entries) \cap Unusable
                                                THEN "skipped_resumed" ELSE "none"]
                /\ \/ /\ failedDocs \subseteq Dirs
                      /\ todo' = usable
                      /\ stage' = IF usable = <<>> THEN "report" ELSE "dispatch"
                      /\ exitCode' = -1
                   \/ Exits(2)              \* a miss, no token, no health
-----------------------------------------------------------------------------
(* _make_outcome: whatever a 2xx answer says, the document is notified.    *)
MakeOutcome(code) == IF code \in 200 .. 299 THEN "notified" ELSE "rejected"

Sent(x, status) ==
    /\ outcome' = [outcome EXCEPT ![x] = status]
    /\ todo' = Tail(todo) /\ tries' = 0

(* notify_one: code 0, no answer to a call that may have been handled, is  *)
(* tried again; a response that cannot be read raises.                     *)
NotifyOne ==
    /\ stage = "dispatch" /\ todo # <<>>
    /\ LET x == Head(todo)
       IN  \E h \in Handled(x) :
             /\ ledger' = [ledger EXCEPT ![x] = h.row]
             /\ locked' = IF h.lock THEN locked \cup {x} ELSE locked \ {x}
             /\ \/ Sent(x, MakeOutcome(h.code))
                \/ Sent(x, "notified_failed")
                \/ /\ tries + 1 < MaxTries
                   /\ tries' = tries + 1 /\ UNCHANGED <<outcome, todo>>
                \/ /\ tries + 1 = MaxTries
                   /\ Sent(x, MakeOutcome(0))
    /\ UNCHANGED <<searchable, auditLog, cleaned, mode, stage, ingested, failedDocs, exitCode, bulkRuns>>

DispatchDone ==
    /\ stage = "dispatch" /\ todo = <<>>
    /\ stage' = "poll"
    /\ todo' = Settled(IF mode = "offline" THEN [i \in DOMAIN Corpus |-> IdOf[Corpus[i]]]
                       ELSE Corpus)
    /\ UNCHANGED <<service, mode, tries, ingested, outcome, failedDocs, exitCode, bulkRuns>>

(* poll_status: a terminal status, or "pending" at the deadline.  A poll   *)
(* that is repeated changes nothing.                                       *)
PollStatus ==
    /\ stage = "poll" /\ todo # <<>>
    /\ LET x == Head(todo)
       IN  \E seen \in {"pending", StatusOf(x)} \ {"404"} :
             outcome' = [outcome EXCEPT ![x] = seen]
    /\ todo' = Tail(todo)
    /\ UNCHANGED <<service, mode, stage, tries, ingested, failedDocs, exitCode, bulkRuns>>

PollDone ==
    /\ stage = "poll" /\ todo = <<>>
    /\ stage' = "report"
    /\ UNCHANGED <<service, mode, todo, tries, ingested, outcome, failedDocs, exitCode, bulkRuns>>

(* The verdict: failed, rejected or pending documents; then lost points,   *)
(* which an unreachable Qdrant looks like, in offline mode.                *)
Verdicts ==
    IF \E x \in DocIds : outcome[x] \in {"failed", "rejected", "pending"} THEN {1}
    ELSE IF mode = "offline" THEN {0, 3} ELSE {0}

Failures == {x \in DocIds : outcome[x] \in FailedStatuses}

(* _outcomes_from_report: the report has no outcomes.                      *)
OutcomesFromReport == {}

(* main and _run_retry_failed write the list and exit.                     *)
Report ==
    /\ stage = "report"
    /\ failedDocs' = IF mode = "offline" THEN Failures \cap OutcomesFromReport ELSE Failures
    /\ \E code \in Verdicts : Exits(code)
    /\ UNCHANGED <<service, mode, tries, ingested, outcome, bulkRuns>>

Killed ==
    /\ stage # "idle"
    /\ Exits(-1)
    /\ UNCHANGED <<service, mode, tries, ingested, outcome, failedDocs, bulkRuns>>

ServiceStep ==
    \/ ServiceRestarts
    \/ \E x \in DocIds : \/ JobCompletes(x) \/ JobFails(x) \/ RowInserted(x)
                         \/ IngestLockExpires(x) \/ CompensationFails(x)
                         \/ PointsCleaned(x)

BulkNext ==
    \/ ServiceStep
    \/ StartOffline \/ AskStatus \/ ResumeChecked \/ BuildPayloads \/ StartRetry
    \/ NotifyOne \/ DispatchDone \/ PollStatus \/ PollDone \/ Report \/ Killed

BulkSpec == BulkInit /\ [][BulkNext]_bulkVars
-----------------------------------------------------------------------------
(* Exit code 0, "all ingested, 0 failed" (line 13), says of each document  *)
(* of the run that it has its points in Qdrant unless they were cleaned    *)
(* away after the run began, with two exceptions: one the resume check     *)
(* left out for its ingestion_completed event need not (the audit log is   *)
(* read to catch what Qdrant no longer has, lines 897-898, so points that  *)
(* were cleaned before the run are never made again), and a notification   *)
(* whose response could not be read is not counted by the verdict.         *)
QuietExitMeansIngested ==
    exitCode = 0 =>
        \A x \in DocIds : outcome[x] \notin {"none", "notified_failed"} =>
            \/ x \in searchable \cup cleaned
            \/ mode = "offline" /\ outcome[x] = "skipped_resumed" /\ x \in auditLog
            \/ mode = "retry-failed" /\ x \in Unusable

(* A retry takes a document off the list only when it is searchable, so    *)
(* retries that are killed, refused or unanswered lose nothing, unless its *)
(* points were cleaned away meanwhile.  Documents whose directory has no   *)
(* blocks any more are dropped.                                            *)
RetryDropsOnlyIngested ==
    [][mode = "retry-failed" /\ failedDocs' # failedDocs =>
          failedDocs \ failedDocs' \subseteq searchable \cup cleaned \cup Unusable]_bulkVars
=============================================================================
