------------------------------ MODULE TaskRepo ------------------------------
(***************************************************************************)
(* The tasks table of storage/task_repo.py: one row per request_id, each   *)
(* method one committed SQLite transaction.                                *)
(*                                                                         *)
(* A row keeps its status, the number of compensation attempts, and        *)
(* whether its updated_at is older than the compensation threshold ("old": *)
(* time passing can only set it, and the methods that write updated_at     *)
(* clear it).  last_error, source_path and payload_sha256 only feed        *)
(* messages and the replay route and are left out; so is unwired_skipped,  *)
(* which only a scanner built with handler_is_wired = False sets, and      *)
(* main.py hard-codes True.                                                *)
(*                                                                         *)
(* A definition marked Faulty is a plausible mistake in the one below it;  *)
(* no behaviour uses it.  The properties of the runs are tried against it. *)
(***************************************************************************)
EXTENDS Naturals

CONSTANTS Requests,      \* request ids, md5(trace_id | doc_hash | version)
          MaxAttempts    \* settings.MAX_ATTEMPTS

ASSUME MaxAttemptsAssumption == MaxAttempts \in Nat

VARIABLE tasks           \* the table, "ABSENT" where there is no row

Statuses == {"PENDING", "QUEUED", "RUNNING", "COMPLETED", "FAILED"}

Retryable == {"PENDING", "FAILED"}
InFlight  == {"QUEUED", "RUNNING"}
Terminal  == {"COMPLETED", "FAILED"}

NoRow  == [status |-> "ABSENT",  attempts |-> 0, old |-> FALSE]
NewRow == [status |-> "PENDING", attempts |-> 0, old |-> FALSE]

Rows == [status : Statuses, attempts : 0 .. MaxAttempts, old : BOOLEAN]

TaskRepoTypeOK == tasks \in [Requests -> Rows \cup {NoRow}]

TaskRepoInit == tasks = [r \in Requests |-> NoRow]

Status(r) == tasks[r].status

(* Faulty: INSERT OR REPLACE.                                              *)
TryInsert_Replaces(r) == tasks' = [tasks EXCEPT ![r] = NewRow]

(* try_insert answering True: the UNIQUE constraint found no such row.     *)
TryInsert(r) ==
    /\ Status(r) = "ABSENT"
    /\ tasks' = [tasks EXCEPT ![r] = NewRow]

(* mark_status refreshes updated_at; an UPDATE of no row changes nothing.  *)
MarkStatus(r, s) ==
    tasks' = [tasks EXCEPT ![r] = IF @.status = "ABSENT" THEN @
                                  ELSE [@ EXCEPT !.status = s, !.old = FALSE]]

(* mark_failed_with_error keeps updated_at, so that the row stays in the   *)
(* compensation window.                                                    *)
MarkFailedWithError(r) ==
    tasks' = [tasks EXCEPT ![r] = IF @.status = "ABSENT" THEN @
                                  ELSE [@ EXCEPT !.status = "FAILED"]]

(* Faulty: only the rows that failed.                                      *)
PendingTasksOlderThan_FailedOnly ==
    {r \in Requests : Status(r) = "FAILED" /\ tasks[r].old}

(* The SELECT of pending_tasks_older_than.                                 *)
PendingTasksOlderThan ==
    {r \in Requests : Status(r) \in Retryable /\ tasks[r].old}

(* Faulty: no bound on attempts.                                           *)
Claimable_Unbounded(r) == Status(r) \in Retryable /\ tasks[r].old

(* The WHERE clause of claim_for_retry.                                    *)
Claimable(r) == /\ Status(r) \in Retryable
                /\ tasks[r].attempts < MaxAttempts
                /\ tasks[r].old

(* claim_for_retry with rowcount 1: one UPDATE, updated_at untouched.      *)
ClaimForRetry(r) ==
    /\ Claimable(r)
    /\ tasks' = [tasks EXCEPT ![r].status = "RUNNING", ![r].attempts = @ + 1]

(* Faulty: forgets RUNNING.                                                *)
RecoverInFlight_QueuedOnly ==
    tasks' = [r \in Requests |-> IF Status(r) = "QUEUED"
                                 THEN [tasks[r] EXCEPT !.status = "PENDING"]
                                 ELSE tasks[r]]

(* Faulty: takes every row that has not failed for an interrupted one.     *)
RecoverInFlight_Reopens ==
    tasks' = [r \in Requests |-> IF Status(r) \in InFlight \cup {"COMPLETED"}
                                 THEN [tasks[r] EXCEPT !.status = "PENDING"]
                                 ELSE tasks[r]]

(* recover_in_flight: the boot-time UPDATE over every in-flight row.       *)
RecoverInFlight ==
    tasks' = [r \in Requests |-> IF Status(r) \in InFlight
                                 THEN [tasks[r] EXCEPT !.status = "PENDING"]
                                 ELSE tasks[r]]

(* Time passes: updated_at of a row falls behind the threshold.            *)
GrowOld(r) ==
    /\ Status(r) # "ABSENT"
    /\ ~tasks[r].old
    /\ tasks' = [tasks EXCEPT ![r].old = TRUE]
=============================================================================
