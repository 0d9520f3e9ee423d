-------------------------- MODULE IngestionProofs ---------------------------
(***************************************************************************)
(* Proofs about TaskRepo and Ingestion, for every number of documents,     *)
(* requests, calls, workers, attempts and crashes.                         *)
(***************************************************************************)
EXTENDS Ingestion, FiniteSetTheorems, TLAPS
-----------------------------------------------------------------------------
(***************************************************************************)
(* What each write of the tasks table does to the row it names and to the  *)
(* others.  The proofs about Ingestion use these lemmas and never expand   *)
(* the writes.                                                             *)
(***************************************************************************)

Row == Rows \cup {NoRow}

(* Only row r may have changed.                                            *)
OnlyRow(r) == \A q \in Requests : q # r => tasks'[q] = tasks[q]

(* An insert adds the row, QUEUED, if there was none, and nothing else.    *)
LEMMA TryInsertEffect ==
    ASSUME TaskRepoTypeOK, NEW r \in Requests, TryInsert(r)
    PROVE  /\ TaskRepoTypeOK'
           /\ Status(r) = "ABSENT" /\ Status(r)' = "PENDING"
           /\ tasks'[r].attempts = tasks[r].attempts
           /\ OnlyRow(r)
  BY MaxAttemptsAssumption
     DEF TaskRepoTypeOK, TryInsert, NewRow, NoRow, Rows, Status, Statuses, OnlyRow

(* A status is written to an open row and to no other.                     *)
LEMMA MarkStatusEffect ==
    ASSUME TaskRepoTypeOK, NEW r \in Requests, NEW s \in Statuses, MarkStatus(r, s)
    PROVE  /\ TaskRepoTypeOK'
           /\ Status(r)' = IF Status(r) = "ABSENT" THEN "ABSENT" ELSE s
           /\ tasks'[r].attempts = tasks[r].attempts
           /\ OnlyRow(r)
<1>1. tasks[r] \in Row
  BY DEF TaskRepoTypeOK, Row
<1>2. tasks' = [tasks EXCEPT ![r] = IF Status(r) = "ABSENT" THEN tasks[r]
                                    ELSE [tasks[r] EXCEPT !.status = s, !.old = FALSE]]
  BY DEF MarkStatus, Status
<1>3. /\ tasks'[r] \in Row
      /\ tasks'[r].status = IF Status(r) = "ABSENT" THEN "ABSENT" ELSE s
      /\ tasks'[r].attempts = tasks[r].attempts
  <2>1. CASE tasks[r] = NoRow
    BY <1>1, <1>2, <2>1 DEF NoRow, Status, TaskRepoTypeOK
  <2>2. CASE tasks[r] \in Rows
    <3>1. tasks'[r] = [tasks[r] EXCEPT !.status = s, !.old = FALSE]
      BY <1>2, <2>2 DEF Rows, Statuses, Status, TaskRepoTypeOK
    <3> QED
      BY <2>2, <3>1 DEF Row, Rows, Statuses, Status
  <2> QED
    BY <1>1, <2>1, <2>2 DEF Row
<1> QED
  BY <1>2, <1>3 DEF TaskRepoTypeOK, Row, Status, OnlyRow

(* So is a failure.                                                        *)
LEMMA MarkFailedEffect ==
    ASSUME TaskRepoTypeOK, NEW r \in Requests, MarkFailedWithError(r)
    PROVE  /\ TaskRepoTypeOK'
           /\ Status(r)' = IF Status(r) = "ABSENT" THEN "ABSENT" ELSE "FAILED"
           /\ tasks'[r].attempts = tasks[r].attempts
           /\ OnlyRow(r)
<1>1. tasks[r] \in Row
  BY DEF TaskRepoTypeOK, Row
<1>2. tasks' = [tasks EXCEPT ![r] = IF Status(r) = "ABSENT" THEN tasks[r]
                                    ELSE [tasks[r] EXCEPT !.status = "FAILED"]]
  BY DEF MarkFailedWithError, Status
<1>3. /\ tasks'[r] \in Row
      /\ tasks'[r].status = IF Status(r) = "ABSENT" THEN "ABSENT" ELSE "FAILED"
      /\ tasks'[r].attempts = tasks[r].attempts
  BY <1>1, <1>2 DEF Row, Rows, NoRow, Status, Statuses, TaskRepoTypeOK
<1> QED
  BY <1>2, <1>3 DEF TaskRepoTypeOK, Row, Status, OnlyRow

(* A claim takes an open row.                                              *)
LEMMA ClaimEffect ==
    ASSUME TaskRepoTypeOK, NEW r \in Requests, ClaimForRetry(r)
    PROVE  /\ TaskRepoTypeOK'
           /\ Status(r) \in Retryable /\ Status(r)' = "RUNNING"
           /\ tasks[r].attempts < MaxAttempts
           /\ tasks'[r].attempts = tasks[r].attempts + 1
           /\ OnlyRow(r)
<1>1. tasks[r] \in Row
  BY DEF TaskRepoTypeOK, Row
<1>2. tasks' = [tasks EXCEPT ![r] = [tasks[r] EXCEPT !.status = "RUNNING",
                                                     !.attempts = tasks[r].attempts + 1]]
  BY <1>1 DEF ClaimForRetry, TaskRepoTypeOK, Row
<1>3. tasks[r].attempts \in 0 .. MaxAttempts /\ tasks[r].attempts < MaxAttempts
  BY <1>1 DEF ClaimForRetry, Claimable, Retryable, Status, Row, Rows, NoRow
<1>4. tasks[r].attempts + 1 \in 0 .. MaxAttempts
  BY <1>3, MaxAttemptsAssumption
<1>5. /\ tasks'[r] \in Row
      /\ tasks'[r].status = "RUNNING"
      /\ tasks'[r].attempts = tasks[r].attempts + 1
  BY <1>1, <1>2, <1>4 DEF Row, Rows, NoRow, Retryable, ClaimForRetry, Claimable, Status, Statuses, TaskRepoTypeOK
<1> QED
  BY <1>2, <1>3, <1>5 DEF TaskRepoTypeOK, Row, Status, OnlyRow, ClaimForRetry, Claimable

(* A recovery changes only rows that were in flight.                       *)
LEMMA RecoverEffect ==
    ASSUME TaskRepoTypeOK, RecoverInFlight
    PROVE  /\ TaskRepoTypeOK'
           /\ \A r \in Requests :
                 /\ Status(r)' = IF Status(r) \in InFlight THEN "PENDING" ELSE Status(r)
                 /\ tasks'[r].attempts = tasks[r].attempts
<1>1. ASSUME NEW r \in Requests
      PROVE  /\ tasks'[r] \in Row
             /\ tasks'[r].status = IF Status(r) \in InFlight THEN "PENDING" ELSE Status(r)
             /\ tasks'[r].attempts = tasks[r].attempts
  <2>1. tasks[r] \in Row
    BY DEF TaskRepoTypeOK, Row
  <2>2. tasks'[r] = IF Status(r) \in InFlight THEN [tasks[r] EXCEPT !.status = "PENDING"]
                                              ELSE tasks[r]
    BY DEF RecoverInFlight
  <2> QED
    BY <2>1, <2>2 DEF Row, Rows, NoRow, InFlight, Status, Statuses
<1>2. tasks' \in [Requests -> Row]
  <2>1. DOMAIN tasks' = Requests /\ tasks' = [r \in Requests |-> tasks'[r]]
    BY DEF RecoverInFlight
  <2> QED
    BY <1>1, <2>1
<1> QED
  BY <1>1, <1>2 DEF TaskRepoTypeOK, Row, Status

(* Time changes no row but its age.                                        *)
LEMMA GrowOldEffect ==
    ASSUME TaskRepoTypeOK, NEW r \in Requests, GrowOld(r)
    PROVE  /\ TaskRepoTypeOK'
           /\ Status(r)' = Status(r)
           /\ tasks'[r].attempts = tasks[r].attempts
           /\ OnlyRow(r)
<1>1. tasks[r] \in Row
  BY DEF TaskRepoTypeOK, Row
<1>2. tasks' = [tasks EXCEPT ![r] = [tasks[r] EXCEPT !.old = TRUE]]
  BY DEF GrowOld
<1>3. /\ tasks'[r] \in Row
      /\ tasks'[r].status = tasks[r].status
      /\ tasks'[r].attempts = tasks[r].attempts
  <2>1. tasks[r] \in Rows
    BY <1>1 DEF Row, NoRow, GrowOld, Status
  <2>2. tasks'[r] = [tasks[r] EXCEPT !.old = TRUE]
    BY <1>2 DEF TaskRepoTypeOK
  <2> QED
    BY <2>1, <2>2 DEF Row, Rows
<1> QED
  BY <1>2, <1>3 DEF TaskRepoTypeOK, Row, Status, OnlyRow
-----------------------------------------------------------------------------
(***************************************************************************)
(* Proofs about Ingestion, for every number of documents, requests, calls, *)
(* workers, attempts and crashes.                                          *)
(***************************************************************************)

TypeInv == TypeOK /\ CallsHaveRequests /\ CallMatchesJob

(* The writes whose exception is swallowed keep the table well typed.      *)
LEMMA ToleratedType ==
    ASSUME TaskRepoTypeOK, NEW r \in Requests, NEW s \in Statuses,
           \/ Tolerated(MarkStatus(r, s))
           \/ Tolerated(MarkFailedWithError(r))
           \/ Tolerated(RecoverInFlight)
    PROVE  TaskRepoTypeOK'
  BY MarkStatusEffect, MarkFailedEffect, RecoverEffect DEF Tolerated, TaskRepoTypeOK

(* The type invariant is inductive together with two facts about a call:   *)
(* once it has arrived it names a request, and its place agrees with the   *)
(* state of its job.                                                       *)
LEMMA TypeStep == TypeInv /\ [Next]_vars => TypeInv'
<1> SUFFICES ASSUME TypeInv, [Next]_vars PROVE TypeInv'
  OBVIOUS
<1> USE IngestionAssumption
    DEF TypeInv, TypeOK, CallsHaveRequests, CallMatchesJob, Lock!RedisLockTypeOK, netVars, callVars, bootVars,
        PCs, Answers, JobStates, Resume, Continue, Reply
<1>0. UNCHANGED tasks => TaskRepoTypeOK'
  BY DEF TaskRepoTypeOK
<1>1. ASSUME NEW h \in Handlers, NEW r \in Requests, Arrive(h, r) PROVE TypeInv'
  BY <1>0, <1>1 DEF Arrive
<1>2. ASSUME NEW h \in Handlers, AcquireLock(h) PROVE TypeInv'
  BY <1>0, <1>2 DEF AcquireLock, Lock!Acquire, Lock!Refused
<1>3. ASSUME NEW h \in Handlers, InsertRow(h) PROVE TypeInv'
  <2>1. req[h] \in Requests
    BY <1>3 DEF InsertRow
  <2>2. TaskRepoTypeOK'
    BY <1>0, <1>3, <2>1, TryInsertEffect DEF InsertRow
  <2> QED
    BY <1>3, <2>2 DEF InsertRow
<1>4. ASSUME NEW h \in Handlers, Admit(h) PROVE TypeInv'
  BY <1>0, <1>4 DEF Admit
<1>5. ASSUME NEW h \in Handlers, ReleaseLock(h) PROVE TypeInv'
  BY <1>0, <1>5 DEF ReleaseLock, Lock!Release
<1>6. ASSUME NEW h \in Handlers, MarkRejected(h) PROVE TypeInv'
  <2>1. req[h] \in Requests /\ "FAILED" \in Statuses
    BY <1>6 DEF MarkRejected, Statuses
  <2>2. TaskRepoTypeOK'
    BY <1>6, <2>1, ToleratedType DEF MarkRejected
  <2> QED
    BY <1>6, <2>2 DEF MarkRejected
<1>7. ASSUME NEW h \in Handlers, Enqueue(h) PROVE TypeInv'
  <2>1. req[h] \in Requests /\ "QUEUED" \in Statuses
    BY <1>7 DEF Enqueue, Statuses
  <2>2. TaskRepoTypeOK'
    BY <1>7, <2>1, ToleratedType DEF Enqueue
  <2> QED
    BY <1>7, <2>2 DEF Enqueue
<1>8. ASSUME NEW h \in Handlers, Submit(h) PROVE TypeInv'
  <2>1. req[h] \in Requests
    BY <1>8 DEF Submit
  <2>2. dispatched' \in [Requests -> Nat]
    BY <1>8, <2>1 DEF Submit
  <2> QED
    BY <1>0, <1>8, <2>2 DEF Submit
<1>9. ASSUME NEW h \in Handlers, StartJob(h) \/ FinishJob(h) PROVE TypeInv'
  BY <1>0, <1>9 DEF StartJob, FinishJob
<1>10. ASSUME NEW h \in Handlers, MarkRunning(h) PROVE TypeInv'
  <2>1. req[h] \in Requests /\ "RUNNING" \in Statuses
    BY <1>10 DEF MarkRunning, Statuses
  <2>2. TaskRepoTypeOK'
    BY <1>10, <2>1, ToleratedType DEF MarkRunning
  <2> QED
    BY <1>10, <2>2 DEF MarkRunning
<1>11. ASSUME NEW h \in Handlers, MarkTerminal(h) PROVE TypeInv'
  <2>1. req[h] \in Requests /\ "COMPLETED" \in Statuses
    BY <1>11 DEF MarkTerminal, Settle, RecordTerminal, Statuses
  <2>2. \/ Tolerated(MarkStatus(req[h], "COMPLETED"))
        \/ Tolerated(MarkFailedWithError(req[h]))
    BY <1>11 DEF MarkTerminal, Settle, RecordTerminal, Tolerated
  <2>3. TaskRepoTypeOK'
    BY <2>1, <2>2, ToleratedType
  <2> QED
    BY <1>11, <2>3 DEF MarkTerminal, Settle, RecordTerminal
<1>12. ASSUME NEW h \in Handlers, FireCallback(h) PROVE TypeInv'
  BY <1>0, <1>12 DEF FireCallback
<1>13. CASE Boot
  <2>1. TaskRepoTypeOK'
    BY <1>0, <1>13, RecoverEffect DEF Boot, Tolerated
  <2> QED
    BY <1>13, <2>1 DEF Boot
<1>14. CASE BeginScan \/ Serve
  BY <1>0, <1>14 DEF BeginScan, Serve, PendingTasksOlderThan
<1>15. ASSUME NEW r \in Requests, ScanRow(r) PROVE TypeInv'
  <2>1. TaskRepoTypeOK'
    BY <1>0, <1>15, ClaimEffect DEF ScanRow
  <2> QED
    BY <1>15, <2>1 DEF ScanRow, Visit
<1>16. CASE FinishRetry
  <2>1. claimed \in Requests /\ "COMPLETED" \in Statuses
    BY <1>16 DEF FinishRetry, Statuses
  <2>2. MarkStatus(claimed, "COMPLETED") \/ MarkFailedWithError(claimed)
    BY <1>16 DEF FinishRetry
  <2>3. TaskRepoTypeOK'
    BY <2>1, <2>2, MarkStatusEffect, MarkFailedEffect
  <2> QED
    BY <1>16, <2>3 DEF FinishRetry
<1>17. CASE Crash
  BY <1>0, <1>17 DEF Crash
<1>18. ASSUME NEW d \in Docs, ExpireLock(d) PROVE TypeInv'
  BY <1>0, <1>18 DEF ExpireLock, Lock!Expire
<1>19. ASSUME NEW r \in Requests, AgeRow(r) PROVE TypeInv'
  BY <1>19, GrowOldEffect DEF AgeRow
<1>20. CASE UNCHANGED vars
  BY <1>0, <1>20 DEF vars
<1> QED
  BY <1>1, <1>2, <1>3, <1>4, <1>5, <1>6, <1>7, <1>8, <1>9, <1>10, <1>11, <1>12, <1>13,
     <1>14, <1>15, <1>16, <1>17, <1>18, <1>19, <1>20
     DEF Next, CallStep, JobStep, BootStep
-----------------------------------------------------------------------------
(* The loop is held by exactly the calls between two awaits, calls run     *)
(* only while the server is up, and a claimed row stays RUNNING.           *)
Control == LoopHeld /\ ServedOnlyWhenUp

(* Every step keeps Control.                                               *)
LEMMA ControlStep == TypeInv /\ Control /\ [Next]_vars => Control'
<1> SUFFICES ASSUME TypeInv, Control, [Next]_vars PROVE Control'
  OBVIOUS
<1> USE IngestionAssumption
    DEF TypeInv, TypeOK, CallsHaveRequests, netVars, callVars, bootVars,
        PCs, Resume, Continue, OnLoop, Control, LoopHeld, ServedOnlyWhenUp
<1>1. ASSUME NEW h \in Handlers, NEW r \in Requests, Arrive(h, r) PROVE Control'
  BY <1>1 DEF Arrive, Status
<1>2. ASSUME NEW h \in Handlers, AcquireLock(h) PROVE Control'
  BY <1>2 DEF AcquireLock, Status
<1>3. ASSUME NEW h \in Handlers, InsertRow(h) PROVE Control'
  BY <1>3 DEF InsertRow
<1>4. ASSUME NEW h \in Handlers, Admit(h) PROVE Control'
  BY <1>4 DEF Admit, Status
<1>5. ASSUME NEW h \in Handlers, ReleaseLock(h) PROVE Control'
  BY <1>5 DEF ReleaseLock, Status
<1>6. ASSUME NEW h \in Handlers, MarkRejected(h) PROVE Control'
  BY <1>6 DEF MarkRejected
<1>7. ASSUME NEW h \in Handlers, Enqueue(h) PROVE Control'
  BY <1>7 DEF Enqueue
<1>8. ASSUME NEW h \in Handlers, Submit(h) PROVE Control'
  BY <1>8 DEF Submit, Status
<1>9. ASSUME NEW h \in Handlers, StartJob(h) \/ FinishJob(h) PROVE Control'
  BY <1>9 DEF StartJob, FinishJob, Status
<1>10. ASSUME NEW h \in Handlers, MarkRunning(h) PROVE Control'
  BY <1>10 DEF MarkRunning
<1>11. ASSUME NEW h \in Handlers, MarkTerminal(h) PROVE Control'
  BY <1>11 DEF MarkTerminal, Settle, RecordTerminal
<1>12. ASSUME NEW h \in Handlers, FireCallback(h) PROVE Control'
  BY <1>12 DEF FireCallback, Status
<1>13. CASE Boot
  BY <1>13 DEF Boot
<1>14. CASE BeginScan \/ Serve
  BY <1>14 DEF BeginScan, Serve
<1>15. ASSUME NEW r \in Requests, ScanRow(r) PROVE Control'
  BY <1>15, ClaimEffect DEF ScanRow, Visit
<1>16. CASE FinishRetry
  BY <1>16 DEF FinishRetry
<1>17. CASE Crash
  BY <1>17 DEF Crash
<1>18. ASSUME NEW d \in Docs, ExpireLock(d) PROVE Control'
  BY <1>18 DEF ExpireLock, Status
<1>19. ASSUME NEW r \in Requests, AgeRow(r) PROVE Control'
  BY <1>19, GrowOldEffect DEF AgeRow, OnlyRow, Status
<1>20. CASE UNCHANGED vars
  BY <1>20 DEF vars, Status
<1> QED
  BY <1>1, <1>2, <1>3, <1>4, <1>5, <1>6, <1>7, <1>8, <1>9, <1>10, <1>11, <1>12, <1>13,
     <1>14, <1>15, <1>16, <1>17, <1>18, <1>19, <1>20
     DEF Next, CallStep, JobStep, BootStep
-----------------------------------------------------------------------------
(* A row has at most one call that may still write it, and as long as it   *)
(* has one the row is open.  An insert is the only way to become an owner, *)
(* and it needs a row that no owner can have: an absent one.               *)
Ownership == OneOwner /\ OwnedRowIsOpen

(* Every step keeps Ownership.                                             *)
LEMMA OwnershipStep == TypeInv /\ Control /\ Ownership /\ [Next]_vars => Ownership'
<1> SUFFICES ASSUME TypeInv, Control, Ownership, [Next]_vars PROVE Ownership'
  OBVIOUS
<1> USE IngestionAssumption
    DEF TypeInv, TypeOK, CallsHaveRequests, netVars, callVars, bootVars, PCs, Resume, Continue,
        Owning, Ownership, OneOwner, OwnedRowIsOpen, Retryable, InFlight
(* A step that leaves the table alone and makes no call an owner.          *)
<1>0. ASSUME UNCHANGED tasks,
             \A h \in Handlers : pc'[h] \in Owning => pc[h] \in Owning /\ req'[h] = req[h]
      PROVE  Ownership'
  BY <1>0 DEF Status
(* A step that opens or reopens the row of an owner, or fails it and ends  *)
(* the ownership.                                                          *)
<1>a. ASSUME NEW h \in Handlers, NEW to \in PCs, pc[h] \in Owning, req' = req,
             pc' = [pc EXCEPT ![h] = to],
             OnlyRow(req[h]),
             to \in Owning => Status(req[h])' \in {"PENDING", "QUEUED", "RUNNING"}
      PROVE  Ownership'
  BY <1>a DEF OnlyRow, Status
<1>1. ASSUME NEW h \in Handlers, NEW r \in Requests, Arrive(h, r) PROVE Ownership'
  BY <1>0, <1>1 DEF Arrive
<1>2. ASSUME NEW h \in Handlers, AcquireLock(h) PROVE Ownership'
  BY <1>0, <1>2 DEF AcquireLock
<1>3. ASSUME NEW h \in Handlers, InsertRow(h) PROVE Ownership'
  <2>1. req[h] \in Requests
    BY <1>3 DEF InsertRow
  <2>2. CASE TryInsert(req[h]) /\ pc' = [pc EXCEPT ![h] = "admit"] /\ req' = req
    <3>1. Status(req[h]) = "ABSENT" /\ Status(req[h])' = "PENDING" /\ OnlyRow(req[h])
      BY <2>1, <2>2, TryInsertEffect
    <3>2. \A g \in Handlers : pc[g] \in Owning => req[g] # req[h]
      BY <3>1
    <3> QED
      BY <2>1, <2>2, <3>1, <3>2 DEF OnlyRow, Status
  <2>3. CASE UNCHANGED tasks
    BY <1>0, <1>3, <2>3, <2>1, TryInsertEffect DEF InsertRow, Status
  <2> QED
    BY <1>3, <2>2, <2>3 DEF InsertRow
<1>4. ASSUME NEW h \in Handlers, Admit(h) PROVE Ownership'
  BY <1>0, <1>4 DEF Admit
<1>5. ASSUME NEW h \in Handlers, ReleaseLock(h) PROVE Ownership'
  BY <1>0, <1>5 DEF ReleaseLock
<1>6. ASSUME NEW h \in Handlers, MarkRejected(h) PROVE Ownership'
  <2>1. OnlyRow(req[h])
    BY <1>6, MarkFailedEffect DEF MarkRejected, Tolerated, OnlyRow
  <2> QED
    BY <1>a, <1>6, <2>1 DEF MarkRejected
<1>7. ASSUME NEW h \in Handlers, Enqueue(h) PROVE Ownership'
  <2>1. OnlyRow(req[h]) /\ Status(req[h])' \in {"PENDING", "QUEUED", "RUNNING"}
    BY <1>7, MarkStatusEffect DEF Enqueue, Tolerated, OnlyRow, Status, Statuses
  <2> QED
    BY <1>a, <1>7, <2>1 DEF Enqueue
<1>8. ASSUME NEW h \in Handlers, Submit(h) PROVE Ownership'
  BY <1>0, <1>8 DEF Submit
<1>9. ASSUME NEW h \in Handlers, StartJob(h) \/ FinishJob(h) PROVE Ownership'
  BY <1>0, <1>9 DEF StartJob, FinishJob
<1>10. ASSUME NEW h \in Handlers, MarkRunning(h) PROVE Ownership'
  <2>1. OnlyRow(req[h]) /\ Status(req[h])' \in {"PENDING", "QUEUED", "RUNNING"}
    BY <1>10, MarkStatusEffect DEF MarkRunning, Tolerated, OnlyRow, Status, Statuses
  <2> QED
    BY <1>a, <1>10, <2>1 DEF MarkRunning
<1>11. ASSUME NEW h \in Handlers, MarkTerminal(h) PROVE Ownership'
  <2>1. OnlyRow(req[h])
    BY <1>11, MarkStatusEffect, MarkFailedEffect 
     DEF MarkTerminal, Settle, Tolerated, OnlyRow, Statuses
  <2> QED
    BY <1>a, <1>11, <2>1 DEF MarkTerminal, Settle, RecordTerminal
<1>12. ASSUME NEW h \in Handlers, FireCallback(h) PROVE Ownership'
  BY <1>0, <1>12 DEF FireCallback
(* While the server is not up there is no owner at all.                    *)
<1>b. ASSUME server # "up", UNCHANGED pc PROVE Ownership'
  BY <1>b DEF Control, ServedOnlyWhenUp
<1>13. CASE Boot
  BY <1>b, <1>13 DEF Boot
<1>14. CASE BeginScan \/ Serve
  BY <1>b, <1>14 DEF BeginScan, Serve
<1>15. ASSUME NEW r \in Requests, ScanRow(r) PROVE Ownership'
  BY <1>b, <1>15 DEF ScanRow, Visit
<1>16. CASE FinishRetry
  BY <1>b, <1>16 DEF FinishRetry, Control, ServedOnlyWhenUp
<1>17. CASE Crash
  BY <1>17 DEF Crash
<1>18. ASSUME NEW d \in Docs, ExpireLock(d) PROVE Ownership'
  BY <1>0, <1>18 DEF ExpireLock
<1>19. ASSUME NEW r \in Requests, AgeRow(r) PROVE Ownership'
  BY <1>19, GrowOldEffect DEF AgeRow, OnlyRow, Status
<1>20. CASE UNCHANGED vars
  BY <1>0, <1>20 DEF vars
<1> QED
  BY <1>1, <1>2, <1>3, <1>4, <1>5, <1>6, <1>7, <1>8, <1>9, <1>10, <1>11, <1>12, <1>13,
     <1>14, <1>15, <1>16, <1>17, <1>18, <1>19, <1>20
     DEF Next, CallStep, JobStep, BootStep
-----------------------------------------------------------------------------
(* A request without a row, or whose owner has not come to pool.submit,    *)
(* has not been dispatched; submit is reached once per owner, and a row    *)
(* has one owner in its life.                                              *)
Dispatch == NotYetDispatched /\ DispatchedOnce

(* Every step keeps Dispatch.                                              *)
LEMMA DispatchStep ==
    TypeInv /\ Control /\ Ownership /\ Dispatch /\ [Next]_vars => Dispatch'
<1> SUFFICES ASSUME TypeInv, Control, Ownership, Dispatch, [Next]_vars PROVE Dispatch'
  OBVIOUS
<1> USE IngestionAssumption
    DEF TypeInv, TypeOK, CallsHaveRequests, netVars, callVars, bootVars, PCs, Resume, Continue,
        Dispatch, NotYetDispatched, DispatchedOnce
<1> DEFINE Early == {"admit", "releaseRejected", "markRejected", "enqueue", "submit"}
(* A step that dispatches nothing, removes no row and makes no call early. *)
<1>0. ASSUME UNCHANGED dispatched,
             \A r \in Requests : Status(r)' = "ABSENT" => Status(r) = "ABSENT",
             \A h \in Handlers : pc'[h] \in Early => pc[h] \in Early /\ req'[h] = req[h]
      PROVE  Dispatch'
  BY <1>0
<1>1. ASSUME NEW h \in Handlers, NEW r \in Requests, Arrive(h, r) PROVE Dispatch'
  BY <1>0, <1>1 DEF Arrive, Status
<1>2. ASSUME NEW h \in Handlers, AcquireLock(h) PROVE Dispatch'
  BY <1>0, <1>2 DEF AcquireLock, Status
<1>3. ASSUME NEW h \in Handlers, InsertRow(h) PROVE Dispatch'
  <2>1. req[h] \in Requests
    BY <1>3 DEF InsertRow
  <2>2. CASE TryInsert(req[h]) /\ pc' = [pc EXCEPT ![h] = "admit"]
    <3>0. /\ OnlyRow(req[h])
          /\ Status(req[h]) = "ABSENT" /\ tasks'[req[h]].status = "PENDING"
      BY <2>1, <2>2, TryInsertEffect DEF Status
    <3>1. dispatched[req[h]] = 0
      BY <2>1, <3>0
    <3>2. \A r \in Requests : Status(r)' = "ABSENT" => Status(r) = "ABSENT"
      BY <3>0 DEF OnlyRow, Status
    <3>3. dispatched' = dispatched /\ req' = req
      BY <1>3 DEF InsertRow
    <3> QED
      BY <2>2, <3>1, <3>2, <3>3
  <2>3. CASE UNCHANGED tasks /\ pc'[h] \in {"releaseDuplicate", "releaseError"}
    BY <1>0, <1>3, <2>3 DEF InsertRow, Status
  <2> QED
    BY <1>3, <2>2, <2>3 DEF InsertRow
<1>4. ASSUME NEW h \in Handlers, Admit(h) PROVE Dispatch'
  BY <1>0, <1>4 DEF Admit, Status
<1>5. ASSUME NEW h \in Handlers, ReleaseLock(h) PROVE Dispatch'
  BY <1>0, <1>5 DEF ReleaseLock, Status
<1>6. ASSUME NEW h \in Handlers, MarkRejected(h) PROVE Dispatch'
  BY <1>0, <1>6, MarkFailedEffect DEF MarkRejected, Tolerated, OnlyRow, Status
<1>7. ASSUME NEW h \in Handlers, Enqueue(h) PROVE Dispatch'
  BY <1>0, <1>7, MarkStatusEffect DEF Enqueue, Tolerated, OnlyRow, Status, Statuses
<1>8. ASSUME NEW h \in Handlers, Submit(h) PROVE Dispatch'
  <2>1. req[h] \in Requests /\ pc[h] = "submit" /\ dispatched[req[h]] = 0
    BY <1>8 DEF Submit
  <2>2. \A g \in Handlers : g # h /\ pc[g] \in Early => req[g] # req[h]
    BY <2>1 DEF Ownership, OneOwner, Owning
  <2>3. Status(req[h]) # "ABSENT"
    BY <2>1 DEF Ownership, OwnedRowIsOpen, Owning, Retryable, InFlight
  <2>4. CASE UNCHANGED dispatched
    BY <1>0, <1>8, <2>4 DEF Submit, Status
  <2>5. CASE dispatched' = [dispatched EXCEPT ![req[h]] = @ + 1] /\ pc' = [pc EXCEPT ![h] = "wait"]
    BY <1>8, <2>1, <2>2, <2>3, <2>5 DEF Submit, Status
  <2> QED
    BY <1>8, <2>4, <2>5 DEF Submit
<1>9. ASSUME NEW h \in Handlers, StartJob(h) \/ FinishJob(h) PROVE Dispatch'
  BY <1>0, <1>9 DEF StartJob, FinishJob, Status
<1>10. ASSUME NEW h \in Handlers, MarkRunning(h) PROVE Dispatch'
  BY <1>0, <1>10, MarkStatusEffect DEF MarkRunning, Tolerated, OnlyRow, Status, Statuses
<1>11. ASSUME NEW h \in Handlers, MarkTerminal(h) PROVE Dispatch'
  BY <1>0, <1>11, MarkStatusEffect, MarkFailedEffect
     DEF MarkTerminal, Settle, RecordTerminal, Tolerated, OnlyRow, Status, Statuses
<1>12. ASSUME NEW h \in Handlers, FireCallback(h) PROVE Dispatch'
  BY <1>0, <1>12 DEF FireCallback, Status
<1>13. CASE Boot
  BY <1>0, <1>13, RecoverEffect DEF Boot, Tolerated, Status
<1>14. CASE BeginScan \/ Serve
  BY <1>0, <1>14 DEF BeginScan, Serve, Status
<1>15. ASSUME NEW r \in Requests, ScanRow(r) PROVE Dispatch'
  BY <1>0, <1>15, ClaimEffect DEF ScanRow, Visit, OnlyRow, Status, Retryable
<1>16. CASE FinishRetry
  <2>1. claimed \in Requests
    BY <1>16 DEF FinishRetry
  <2>2. MarkStatus(claimed, "COMPLETED") \/ MarkFailedWithError(claimed)
    BY <1>16 DEF FinishRetry
  <2>3. \A r \in Requests : Status(r)' = "ABSENT" => Status(r) = "ABSENT"
    BY <2>1, <2>2, MarkStatusEffect, MarkFailedEffect DEF OnlyRow, Status, Statuses
  <2> QED
    BY <1>0, <1>16, <2>3 DEF FinishRetry
<1>17. CASE Crash
  BY <1>0, <1>17 DEF Crash, Status
<1>18. ASSUME NEW d \in Docs, ExpireLock(d) PROVE Dispatch'
  BY <1>0, <1>18 DEF ExpireLock, Status
<1>19. ASSUME NEW r \in Requests, AgeRow(r) PROVE Dispatch'
  BY <1>0, <1>19, GrowOldEffect DEF AgeRow, OnlyRow, Status
<1>20. CASE UNCHANGED vars
  BY <1>0, <1>20 DEF vars, Status
<1> QED
  BY <1>1, <1>2, <1>3, <1>4, <1>5, <1>6, <1>7, <1>8, <1>9, <1>10, <1>11, <1>12, <1>13,
     <1>14, <1>15, <1>16, <1>17, <1>18, <1>19, <1>20
     DEF Next, CallStep, JobStep, BootStep
-----------------------------------------------------------------------------

(* The invariant holds of the first state.                                 *)
LEMMA InitIInv == Init => IInv
<1> SUFFICES ASSUME Init PROVE IInv
  OBVIOUS
<1>1. TypeOK
  BY IngestionAssumption
     DEF Init, TypeOK, TaskRepoInit, TaskRepoTypeOK, Lock!RedisLockInit,
         Lock!RedisLockTypeOK, PCs, Answers, JobStates
<1>2. \A h \in Handlers : pc[h] = "idle" /\ job[h] = "none"
  BY DEF Init
<1>3. LoopHeld
  BY <1>2, IngestionAssumption DEF Init, LoopHeld, OnLoop
<1>4. ServedOnlyWhenUp /\ CallsHaveRequests /\ CallMatchesJob /\ OneOwner /\ OwnedRowIsOpen
  BY <1>2 DEF Init, ServedOnlyWhenUp, CallsHaveRequests, CallMatchesJob, OneOwner,
              OwnedRowIsOpen, Owning
<1>5. NotYetDispatched /\ DispatchedOnce
  BY <1>2 DEF Init, NotYetDispatched, DispatchedOnce
<1> QED
  BY <1>1, <1>3, <1>4, <1>5 DEF IInv

(* Every step keeps it.                                                    *)
LEMMA StepIInv == IInv /\ [Next]_vars => IInv'
  BY TypeStep, ControlStep, OwnershipStep, DispatchStep
     DEF IInv, TypeInv, Control, Ownership, Dispatch

(* The strengthened invariant of Ingestion: types, who holds the event     *)
(* loop, who owns a row, and what has been dispatched.                     *)
THEOREM Inductive == Spec => []IInv
  BY InitIInv, StepIInv, PTL DEF Spec

(* Every variable keeps its type.                                          *)
THEOREM TypeCorrect == Spec => []TypeOK
<1>1. IInv => TypeOK
  BY DEF IInv
<1> QED
  BY <1>1, Inductive, PTL

(* Notify is idempotent: a request reaches the encoding pool at most once, *)
(* whatever is repeated, expires, fails or crashes.                        *)
THEOREM AtMostOneDispatch == Spec => []DispatchedOnce
<1>1. IInv => DispatchedOnce
  BY DEF IInv
<1> QED
  BY <1>1, Inductive, PTL
-----------------------------------------------------------------------------
(***************************************************************************)
(* Ingestion implements TaskLifecycle                                      *)
(***************************************************************************)

(* A step that changes at most row r, and moves it as an action of the     *)
(* abstract life cycle does, is a step of the life cycle.                  *)
LEMMA LifeMove ==
    ASSUME TaskRepoTypeOK, TaskRepoTypeOK', NEW r \in Requests, OnlyRow(r),
           \/ /\ Phase(Status(r)') = Phase(Status(r))
              /\ tasks'[r].attempts = tasks[r].attempts
           \/ /\ Status(r) = "ABSENT" /\ Status(r)' = "PENDING"
              /\ tasks'[r].attempts = tasks[r].attempts
           \/ /\ Status(r) \in {"PENDING", "QUEUED", "RUNNING"}
              /\ Status(r)' \in {"COMPLETED", "FAILED"}
              /\ tasks'[r].attempts = tasks[r].attempts
           \/ /\ Status(r) \in Retryable /\ Status(r)' = "RUNNING"
              /\ tasks[r].attempts < MaxAttempts
              /\ tasks'[r].attempts = tasks[r].attempts + 1
    PROVE  [Life!LifeNext]_(Life!lifeVars)
<1> DEFINE ph == [q \in Requests |-> Phase(Status(q))]
           at == [q \in Requests |-> tasks[q].attempts]
<1>1. ph' = [ph EXCEPT ![r] = Phase(Status(r)')]
  BY DEF OnlyRow, Status
<1>2. at' = [at EXCEPT ![r] = tasks'[r].attempts]
  BY DEF OnlyRow
<1>3. CASE /\ Phase(Status(r)') = Phase(Status(r))
           /\ tasks'[r].attempts = tasks[r].attempts
  <2>1. ph' = ph /\ at' = at
    BY <1>1, <1>2, <1>3
  <2> QED
    BY <2>1 DEF Life!lifeVars
<1>4. CASE /\ Status(r) = "ABSENT" /\ Status(r)' = "PENDING"
           /\ tasks'[r].attempts = tasks[r].attempts
  <2>1. ph[r] = "unknown" /\ ph' = [ph EXCEPT ![r] = "open"] /\ at' = at
    BY <1>1, <1>2, <1>4 DEF Phase
  <2>2. Life!Accept(r)
    BY <2>1 DEF Life!Accept, Life!Move
  <2> QED
    BY <2>2 DEF Life!LifeNext
<1>5. CASE /\ Status(r) \in {"PENDING", "QUEUED", "RUNNING"}
           /\ Status(r)' \in {"COMPLETED", "FAILED"}
           /\ tasks'[r].attempts = tasks[r].attempts
  <2>1. ph[r] = "open" /\ at' = at
    BY <1>2, <1>5 DEF Phase
  <2>2. ph' = [ph EXCEPT ![r] = "completed"] \/ ph' = [ph EXCEPT ![r] = "failed"]
    BY <1>1, <1>5 DEF Phase
  <2>3. Life!Succeed(r) \/ Life!Fail(r)
    BY <2>1, <2>2 DEF Life!Succeed, Life!Fail, Life!Move
  <2> QED
    BY <2>3 DEF Life!LifeNext
<1>6. CASE /\ Status(r) \in Retryable /\ Status(r)' = "RUNNING"
           /\ tasks[r].attempts < MaxAttempts
           /\ tasks'[r].attempts = tasks[r].attempts + 1
  <2>1. ph[r] \in {"open", "failed"} /\ ph' = [ph EXCEPT ![r] = "open"]
    BY <1>1, <1>6 DEF Phase, Retryable
  <2>2. at[r] < MaxAttempts /\ at' = [at EXCEPT ![r] = at[r] + 1]
    BY <1>2, <1>6
  <2>3. Life!Retry(r)
    BY <2>1, <2>2 DEF Life!Retry, Life!Move
  <2> QED
    BY <2>3 DEF Life!LifeNext
<1> QED
  BY <1>3, <1>4, <1>5, <1>6

(* A step that leaves the tables alone is a stutter of the life cycle.     *)
LEMMA LifeStutter ==
    ASSUME \A r \in Requests : /\ Phase(Status(r)') = Phase(Status(r))
                               /\ tasks'[r].attempts = tasks[r].attempts
    PROVE  [Life!LifeNext]_(Life!lifeVars)
  BY DEF Life!lifeVars

(* Every step of the service is a step of the life cycle or changes none   *)
(* of its variables.                                                       *)
LEMMA LifeStep == IInv /\ [Next]_vars => [Life!LifeNext]_(Life!lifeVars)
<1> DEFINE Goal == [Life!LifeNext]_(Life!lifeVars)
<1> SUFFICES ASSUME IInv, [Next]_vars PROVE Goal
  OBVIOUS
<1>t. TypeInv /\ TypeInv' /\ TaskRepoTypeOK /\ TaskRepoTypeOK'
  BY TypeStep DEF IInv, TypeInv, TypeOK
<1>r. \A h \in Handlers : pc[h] # "idle" => req[h] \in Requests
  BY DEF IInv, CallsHaveRequests
<1>o. \A h \in Handlers : pc[h] \in Owning => Status(req[h]) \in {"PENDING", "QUEUED", "RUNNING"}
  BY DEF IInv, OwnedRowIsOpen, Retryable, InFlight
<1>s. \A x \in {"PENDING", "QUEUED", "RUNNING"} : Phase(x) = "open"
  BY DEF Phase
<1> HIDE DEF Goal
<1>0. UNCHANGED tasks => Goal
  BY LifeStutter DEF Goal, Status
<1>1. ASSUME NEW h \in Handlers, NEW r \in Requests, Arrive(h, r) PROVE Goal
  BY <1>0, <1>1 DEF Arrive
<1>2. ASSUME NEW h \in Handlers, AcquireLock(h) PROVE Goal
  BY <1>0, <1>2 DEF AcquireLock
<1>3. ASSUME NEW h \in Handlers, InsertRow(h) PROVE Goal
  <2>1. req[h] \in Requests
    BY <1>3, <1>r DEF InsertRow
  <2>2. CASE TryInsert(req[h])
    BY <1>t, <2>1, <2>2, TryInsertEffect, LifeMove DEF Goal
  <2> QED
    BY <1>0, <1>3, <2>2 DEF InsertRow
<1>4. ASSUME NEW h \in Handlers, Admit(h) \/ ReleaseLock(h) \/ Submit(h) PROVE Goal
  BY <1>0, <1>4 DEF Admit, ReleaseLock, Submit
<1>5. ASSUME NEW h \in Handlers, MarkRejected(h) PROVE Goal
  <2>1. req[h] \in Requests /\ Status(req[h]) \in {"PENDING", "QUEUED", "RUNNING"}
    BY <1>5, <1>r, <1>o DEF MarkRejected, Resume, Owning
  <2>2. CASE MarkFailedWithError(req[h])
    BY <1>t, <2>1, <2>2, MarkFailedEffect, LifeMove DEF Goal
  <2> QED
    BY <1>0, <1>5, <2>2 DEF MarkRejected, Tolerated
<1>6. ASSUME NEW h \in Handlers, Enqueue(h) PROVE Goal
  <2>1. req[h] \in Requests /\ Status(req[h]) \in {"PENDING", "QUEUED", "RUNNING"}
    BY <1>6, <1>r, <1>o DEF Enqueue, Continue, Owning
  <2>2. CASE MarkStatus(req[h], "QUEUED")
    <3>1. "QUEUED" \in Statuses
      BY DEF Statuses
    <3> QED
      BY <1>t, <1>s, <2>1, <2>2, <3>1, MarkStatusEffect, LifeMove DEF Goal
  <2> QED
    BY <1>0, <1>6, <2>2 DEF Enqueue, Tolerated
<1>7. ASSUME NEW h \in Handlers, StartJob(h) \/ FinishJob(h) \/ FireCallback(h) PROVE Goal
  BY <1>0, <1>7 DEF StartJob, FinishJob, FireCallback
<1>8. ASSUME NEW h \in Handlers, MarkRunning(h) PROVE Goal
  <2>1. req[h] \in Requests /\ Status(req[h]) \in {"PENDING", "QUEUED", "RUNNING"}
    BY <1>8, <1>r, <1>o DEF MarkRunning, Resume, Owning
  <2>2. CASE MarkStatus(req[h], "RUNNING")
    <3>1. "RUNNING" \in Statuses
      BY DEF Statuses
    <3> QED
      BY <1>t, <1>s, <2>1, <2>2, <3>1, MarkStatusEffect, LifeMove DEF Goal
  <2> QED
    BY <1>0, <1>8, <2>2 DEF MarkRunning, Tolerated
<1>9. ASSUME NEW h \in Handlers, MarkTerminal(h) PROVE Goal
  <2>1. req[h] \in Requests /\ Status(req[h]) \in {"PENDING", "QUEUED", "RUNNING"}
    BY <1>9, <1>r, <1>o DEF MarkTerminal, Settle, RecordTerminal, Continue, Owning
  <2>2. CASE MarkStatus(req[h], "COMPLETED")
    <3>1. "COMPLETED" \in Statuses
      BY DEF Statuses
    <3> QED
      BY <1>t, <2>1, <2>2, <3>1, MarkStatusEffect, LifeMove DEF Goal
  <2>3. CASE MarkFailedWithError(req[h])
    BY <1>t, <2>1, <2>3, MarkFailedEffect, LifeMove DEF Goal
  <2> QED
    BY <1>0, <1>9, <2>2, <2>3 DEF MarkTerminal, Settle, RecordTerminal, Tolerated
<1>10. CASE Boot
  <2>1. CASE RecoverInFlight
    <3>1. \A r \in Requests : /\ Status(r)' = IF Status(r) \in InFlight THEN "PENDING" ELSE Status(r)
                              /\ tasks'[r].attempts = tasks[r].attempts
      BY <1>t, <2>1, RecoverEffect
    <3>2. \A r \in Requests : Phase(Status(r)') = Phase(Status(r))
      BY <1>s, <3>1 DEF InFlight
    <3> QED
      BY <3>1, <3>2, LifeStutter DEF Goal
  <2> QED
    BY <1>0, <1>10, <2>1 DEF Boot, Tolerated
<1>11. CASE BeginScan \/ Serve \/ Crash
  BY <1>0, <1>11 DEF BeginScan, Serve, Crash
<1>12. ASSUME NEW r \in Requests, ScanRow(r) PROVE Goal
  <2>1. CASE ClaimForRetry(r)
    BY <1>t, <2>1, ClaimEffect, LifeMove DEF Goal
  <2> QED
    BY <1>0, <1>12, <2>1 DEF ScanRow
<1>13. CASE FinishRetry
  <2>1. claimed \in Requests /\ Status(claimed) = "RUNNING"
    BY <1>13, <1>t DEF FinishRetry, IInv, ServedOnlyWhenUp, TypeInv, TypeOK
  <2>2. CASE MarkStatus(claimed, "COMPLETED")
    <3>1. "COMPLETED" \in Statuses
      BY DEF Statuses
    <3> QED
      BY <1>t, <2>1, <2>2, <3>1, MarkStatusEffect, LifeMove DEF Goal
  <2>3. CASE MarkFailedWithError(claimed)
    BY <1>t, <2>1, <2>3, MarkFailedEffect, LifeMove DEF Goal
  <2> QED
    BY <1>13, <2>2, <2>3 DEF FinishRetry
<1>14. ASSUME NEW d \in Docs, ExpireLock(d) PROVE Goal
  BY <1>0, <1>14 DEF ExpireLock
<1>15. ASSUME NEW r \in Requests, AgeRow(r) PROVE Goal
  BY <1>t, <1>15, GrowOldEffect, LifeMove DEF AgeRow, Goal
<1>16. CASE UNCHANGED vars
  BY <1>0, <1>16 DEF vars
<1> QED
  BY <1>1, <1>2, <1>3, <1>4, <1>5, <1>6, <1>7, <1>8, <1>9, <1>10, <1>11, <1>12, <1>13,
     <1>14, <1>15, <1>16
     DEF Next, CallStep, JobStep, BootStep

(* The notify route, the pool, the boot recovery and the compensation scan *)
(* together implement the life cycle of TaskLifecycle.                     *)
THEOREM Refinement == Spec => ImplementsLifecycle
<1>1. Init => Life!LifeInit
  BY DEF Init, TaskRepoInit, NoRow, Status, Phase, Life!LifeInit
<1>2. IInv /\ [Next]_vars => [Life!LifeNext]_(Life!lifeVars)
  BY LifeStep
<1> QED
  BY <1>1, <1>2, Inductive, PTL DEF Spec, ImplementsLifecycle, Life!LifeSpec
-----------------------------------------------------------------------------
(***************************************************************************)
(* Consequences for the rows and the parser                                *)
(***************************************************************************)

(* No step reopens a completed row.                                        *)
LEMMA CompletedStep ==
    ASSUME IInv, [Next]_vars, NEW r \in Requests, Status(r) = "COMPLETED"
    PROVE  Status(r)' = "COMPLETED"
<1>1. [Life!LifeNext]_(Life!lifeVars)
  BY LifeStep
<1>2. Phase(Status(r)) = "completed"
  BY DEF Phase
<1>3. [q \in Requests |-> Phase(Status(q))]'[r] = "completed"
  <2> DEFINE ph == [q \in Requests |-> Phase(Status(q))]
  <2>1. ph[r] = "completed" /\ DOMAIN ph = Requests
    BY <1>2
  <2>2. CASE UNCHANGED Life!lifeVars
    BY <2>1, <2>2 DEF Life!lifeVars
  <2>3. ASSUME NEW q \in Requests,
               \/ Life!Accept(q) \/ Life!Succeed(q) \/ Life!Fail(q) \/ Life!Retry(q)
        PROVE  ph'[r] = "completed"
    <3>1. q # r /\ \E to : ph' = [ph EXCEPT ![q] = to]
      BY <2>1, <2>3 DEF Life!Accept, Life!Succeed, Life!Fail, Life!Retry, Life!Move
    <3> QED
      BY <2>1, <3>1
  <2> QED
    BY <1>1, <2>2, <2>3 DEF Life!LifeNext
<1>4. Phase(Status(r)') = "completed"
  BY <1>3
<1>5. tasks'[r] \in Rows \cup {NoRow}
  BY TypeStep DEF IInv, TypeInv, TypeOK, TaskRepoTypeOK
<1>6. Status(r)' \in {"ABSENT", "PENDING", "QUEUED", "RUNNING", "COMPLETED", "FAILED"}
  BY <1>5 DEF Status, Rows, NoRow, Statuses
<1> QED
  BY <1>4, <1>6 DEF Phase

(* No step of a handler, of the boot or of the scan takes a COMPLETED row  *)
(* to another status.                                                      *)
THEOREM CompletedStays == Spec => CompletedIsFinal
<1>1. IInv /\ [Next]_vars =>
         [\A r \in Requests : Status(r) = "COMPLETED" => Status(r)' = "COMPLETED"]_vars
  BY CompletedStep
<1> QED
  BY <1>1, Inductive, PTL DEF Spec, CompletedIsFinal

(* What a call knows when it tells the parser: its row has the status its  *)
(* job earned.                                                             *)
ToldTrue ==
    \A h \in Handlers :
        /\ pc[h] = "callback" /\ job[h] = "success" => Status(req[h]) = "COMPLETED"
        /\ callback[h] = "success" => pc[h] = "done" /\ Status(req[h]) = "COMPLETED"

(* No step makes a success that was told untrue.                           *)
LEMMA ToldTrueStep ==
    ASSUME "db" \notin Faults, IInv, ToldTrue, [Next]_vars
    PROVE  ToldTrue'
<1>t. TypeInv
  BY DEF IInv, TypeInv
<1> USE DEF TypeInv, TypeOK, CallsHaveRequests, netVars, callVars, bootVars, PCs, Resume, Continue
<1>c. \A r \in Requests : Status(r) = "COMPLETED" => tasks'[r].status = "COMPLETED"
  BY CompletedStep DEF Status
(* A step in which no call reaches its callback or fires it.               *)
<1>0. ASSUME UNCHANGED callback,
             \A h \in Handlers : pc'[h] = "callback" => pc[h] = "callback",
             \A h \in Handlers : pc[h] = "done" => pc'[h] = "done",
             \A h \in Handlers : pc[h] # "idle" => req'[h] = req[h],
             \A h \in Handlers : job'[h] = "success" => job[h] = "success" \/ pc[h] = "wait",
             \A h \in Handlers : pc'[h] = "callback" => pc[h] # "wait"
      PROVE  ToldTrue'
  BY <1>0, <1>t, <1>c DEF ToldTrue, Status
<1>1. ASSUME NEW h \in Handlers, NEW r \in Requests, Arrive(h, r) PROVE ToldTrue'
  BY <1>0, <1>1, <1>t DEF Arrive
<1>2. ASSUME NEW h \in Handlers,
             \/ AcquireLock(h) \/ InsertRow(h) \/ Admit(h) \/ ReleaseLock(h)
             \/ MarkRejected(h) \/ Enqueue(h) \/ MarkRunning(h)
      PROVE  ToldTrue'
  BY <1>0, <1>2, <1>t
     DEF AcquireLock, InsertRow, Admit, ReleaseLock, MarkRejected, Enqueue, MarkRunning
<1>3. ASSUME NEW h \in Handlers, Submit(h) \/ StartJob(h) \/ FinishJob(h) PROVE ToldTrue'
  BY <1>0, <1>3, <1>t DEF Submit, StartJob, FinishJob, IInv, CallMatchesJob
<1>4. ASSUME NEW h \in Handlers, MarkTerminal(h) PROVE ToldTrue'
  <2>1. req[h] \in Requests /\ Status(req[h]) # "ABSENT"
    BY <1>4, <1>t DEF MarkTerminal, Settle, RecordTerminal, IInv, OwnedRowIsOpen, Owning, Retryable, InFlight
  <2>2. job[h] = "success" => tasks'[req[h]].status = "COMPLETED"
    <3>1. "COMPLETED" \in Statuses
      BY DEF Statuses
    <3> QED
      BY <1>4, <1>t, <2>1, <3>1, MarkStatusEffect DEF MarkTerminal, Settle, RecordTerminal, Tolerated, Status
  <2> QED
    BY <1>4, <1>t, <1>c, <2>2 DEF MarkTerminal, Settle, RecordTerminal, ToldTrue, Status
<1>5. ASSUME NEW h \in Handlers, FireCallback(h) PROVE ToldTrue'
  BY <1>5, <1>t DEF FireCallback, ToldTrue, Status
<1>6. CASE BootStep
  BY <1>0, <1>6, <1>t DEF BootStep, Boot, BeginScan, FinishRetry, Serve, ScanRow, Visit
<1>7. CASE Crash
  BY <1>0, <1>7, <1>t DEF Crash
<1>8. ASSUME NEW d \in Docs, ExpireLock(d) PROVE ToldTrue'
  BY <1>0, <1>8 DEF ExpireLock
<1>9. ASSUME NEW r \in Requests, AgeRow(r) PROVE ToldTrue'
  BY <1>0, <1>9 DEF AgeRow
<1>10. CASE UNCHANGED vars
  BY <1>0, <1>10 DEF vars
<1> QED
  BY <1>1, <1>2, <1>3, <1>4, <1>5, <1>6, <1>7, <1>8, <1>9, <1>10
     DEF Next, CallStep, JobStep

(* As long as SQLite writes do not fail, a parser that was told "success"  *)
(* finds its row COMPLETED, from then on and across every restart.         *)
THEOREM SuccessIsTrue ==
    ASSUME "db" \notin Faults
    PROVE  Spec => []SuccessCallbackIsTrue
<1>1. Init => ToldTrue
  BY DEF Init, ToldTrue
<1>2. IInv /\ ToldTrue /\ [Next]_vars => ToldTrue'
  BY ToldTrueStep
<1>3. ToldTrue => SuccessCallbackIsTrue
  BY DEF ToldTrue, SuccessCallbackIsTrue
<1> QED
  BY <1>1, <1>2, <1>3, Inductive, PTL DEF Spec
-----------------------------------------------------------------------------

(* No step leaves a row in flight without an owner.                        *)
LEMMA InFlightOwnerStep ==
    ASSUME "db" \notin Faults, "submit" \notin Faults,
           IInv, InFlightRowsHaveOwner, [Next]_vars
    PROVE  InFlightRowsHaveOwner'
<1>t. TypeInv
  BY DEF IInv, TypeInv
<1> USE DEF TypeInv, TypeOK, CallsHaveRequests, netVars, callVars, bootVars, PCs, Resume, Continue
<1> DEFINE Working == {"submit", "wait", "finish"}
(* A step that puts no row in flight and ends no call or attempt at work.  *)
<1>0. ASSUME server' # "down" => server # "down" /\ claimed' = claimed,
             \A r \in Requests : Status(r)' \in InFlight => Status(r) \in InFlight,
             \A h \in Handlers : pc[h] \in Working => pc'[h] \in Working /\ req'[h] = req[h]
      PROVE  InFlightRowsHaveOwner'
  BY <1>0 DEF InFlightRowsHaveOwner
(* A step of a call at work on row r that changes no other row.            *)
<1>a. ASSUME NEW h \in Handlers, NEW to \in PCs, OnlyRow(req[h]), req[h] \in Requests,
             UNCHANGED <<server, claimed, req>>, server = "up",
             pc' = [pc EXCEPT ![h] = to],
             to \in Working \/ tasks'[req[h]].status \notin InFlight
      PROVE  InFlightRowsHaveOwner'
  BY <1>a, <1>t DEF InFlightRowsHaveOwner, OnlyRow, Status
<1>1. ASSUME NEW h \in Handlers, NEW r \in Requests, Arrive(h, r) PROVE InFlightRowsHaveOwner'
  BY <1>0, <1>1, <1>t DEF Arrive, Status
<1>2. ASSUME NEW h \in Handlers,
             AcquireLock(h) \/ Admit(h) \/ ReleaseLock(h) \/ FireCallback(h)
      PROVE  InFlightRowsHaveOwner'
  BY <1>0, <1>2, <1>t DEF AcquireLock, Admit, ReleaseLock, FireCallback, Status
<1>3. ASSUME NEW h \in Handlers, InsertRow(h) PROVE InFlightRowsHaveOwner'
  <2>1. req[h] \in Requests
    BY <1>3, <1>t DEF InsertRow
  <2>2. \A r \in Requests : Status(r)' \in InFlight => Status(r) \in InFlight
    BY <1>3, <1>t, <2>1, TryInsertEffect DEF InsertRow, OnlyRow, Status, InFlight
  <2> QED
    BY <1>0, <1>3, <1>t, <2>2 DEF InsertRow
<1>4. ASSUME NEW h \in Handlers, MarkRejected(h) PROVE InFlightRowsHaveOwner'
  <2>1. OnlyRow(req[h]) /\ req[h] \in Requests /\ tasks'[req[h]].status \notin InFlight
    BY <1>4, <1>t, MarkFailedEffect DEF MarkRejected, Tolerated, Status, InFlight
  <2> QED
    BY <1>a, <1>4, <1>t, <2>1 DEF MarkRejected
<1>5. ASSUME NEW h \in Handlers, Enqueue(h) PROVE InFlightRowsHaveOwner'
  <2>1. OnlyRow(req[h]) /\ req[h] \in Requests
    BY <1>5, <1>t, MarkStatusEffect DEF Enqueue, Tolerated, Statuses
  <2>2. server = "up"
    BY <1>5, <1>t DEF Enqueue, IInv, ServedOnlyWhenUp
  <2> QED
    BY <1>a, <1>5, <1>t, <2>1, <2>2 DEF Enqueue
<1>6. ASSUME NEW h \in Handlers, Submit(h) \/ StartJob(h) \/ FinishJob(h)
      PROVE  InFlightRowsHaveOwner'
  BY <1>0, <1>6, <1>t DEF Submit, StartJob, FinishJob, Status
<1>7. ASSUME NEW h \in Handlers, MarkRunning(h) PROVE InFlightRowsHaveOwner'
  <2>1. OnlyRow(req[h]) /\ req[h] \in Requests
    BY <1>7, <1>t, MarkStatusEffect DEF MarkRunning, Tolerated, Statuses
  <2> QED
    BY <1>a, <1>7, <1>t, <2>1 DEF MarkRunning
<1>8. ASSUME NEW h \in Handlers, MarkTerminal(h) PROVE InFlightRowsHaveOwner'
  <2>1. OnlyRow(req[h]) /\ req[h] \in Requests /\ tasks'[req[h]].status \notin InFlight
    <3>1. "COMPLETED" \in Statuses
      BY DEF Statuses
    <3> QED
      BY <1>8, <1>t, <3>1, MarkStatusEffect, MarkFailedEffect
         DEF MarkTerminal, Settle, RecordTerminal, Tolerated, Status, InFlight
  <2>2. server = "up"
    BY <1>8, <1>t DEF MarkTerminal, Settle, RecordTerminal, IInv, ServedOnlyWhenUp
  <2> QED
    BY <1>a, <1>8, <1>t, <2>1, <2>2 DEF MarkTerminal, Settle, RecordTerminal
<1>9. CASE Boot
  BY <1>9, <1>t, RecoverEffect DEF Boot, Tolerated, InFlightRowsHaveOwner, InFlight, Status
<1>10. CASE BeginScan \/ Serve
  BY <1>0, <1>10, <1>t DEF BeginScan, Serve, Status
<1>11. ASSUME NEW r \in Requests, ScanRow(r) PROVE InFlightRowsHaveOwner'
  <2>1. CASE ClaimForRetry(r) /\ claimed' = r
    <3>1. OnlyRow(r)
      BY <1>t, <2>1, ClaimEffect
    <3> QED
      BY <1>11, <1>t, <2>1, <3>1, IngestionAssumption DEF ScanRow, Visit, InFlightRowsHaveOwner, OnlyRow, Status
  <2> QED
    BY <1>0, <1>11, <1>t, <2>1 DEF ScanRow, Visit, Status
<1>12. CASE FinishRetry
  <2>1. claimed \in Requests /\ "COMPLETED" \in Statuses
    BY <1>12, <1>t DEF FinishRetry, Statuses
  <2>2. OnlyRow(claimed) /\ tasks'[claimed].status \notin InFlight
    BY <1>12, <1>t, <2>1, MarkStatusEffect, MarkFailedEffect DEF FinishRetry, Status, InFlight
  <2> QED
    BY <1>12, <1>t, <2>1, <2>2 DEF FinishRetry, InFlightRowsHaveOwner, OnlyRow, Status
<1>13. CASE Crash
  BY <1>13 DEF Crash, InFlightRowsHaveOwner
<1>14. ASSUME NEW d \in Docs, ExpireLock(d) PROVE InFlightRowsHaveOwner'
  BY <1>0, <1>14 DEF ExpireLock, Status
<1>15. ASSUME NEW r \in Requests, AgeRow(r) PROVE InFlightRowsHaveOwner'
  BY <1>0, <1>15, <1>t, GrowOldEffect DEF AgeRow, OnlyRow, Status
<1>16. CASE UNCHANGED vars
  BY <1>0, <1>16 DEF vars, Status
<1> QED
  BY <1>1, <1>2, <1>3, <1>4, <1>5, <1>6, <1>7, <1>8, <1>9, <1>10, <1>11, <1>12, <1>13,
     <1>14, <1>15, <1>16
     DEF Next, CallStep, JobStep, BootStep

(* As long as SQLite writes and pool.submit do not fail, no crash leaves a *)
(* QUEUED or RUNNING row behind that nobody works on.                      *)
THEOREM NoRowLeftInFlight ==
    ASSUME "db" \notin Faults, "submit" \notin Faults
    PROVE  Spec => []InFlightRowsHaveOwner
<1>1. Init => InFlightRowsHaveOwner
  BY DEF Init, InFlightRowsHaveOwner
<1>2. IInv /\ InFlightRowsHaveOwner /\ [Next]_vars => InFlightRowsHaveOwner'
  BY InFlightOwnerStep
<1> QED
  BY <1>1, <1>2, Inductive, PTL DEF Spec
-----------------------------------------------------------------------------
(* The gauge goes up and down with the set of the calls it counts.         *)
LEMMA GaugeStep ==
    ASSUME "submit" \notin Faults, IInv, GaugeIsQueueDepth, [Next]_vars
    PROVE  GaugeIsQueueDepth'
<1>t. TypeInv
  BY DEF IInv, TypeInv
<1>f. IsFiniteSet(Counted) /\ Cardinality(Counted) \in Nat
  BY IngestionAssumption, FS_Subset, FS_CardinalityType DEF Counted
<1> USE DEF TypeInv, TypeOK, netVars, callVars, bootVars, PCs, Resume, Continue, GaugeIsQueueDepth
<1>0. ASSUME UNCHANGED gauge, Counted' = Counted PROVE GaugeIsQueueDepth'
  BY <1>0
<1>1. ASSUME NEW h \in Handlers, NEW r \in Requests, Arrive(h, r) PROVE GaugeIsQueueDepth'
  BY <1>0, <1>1, <1>t DEF Arrive, Counted
<1>2. ASSUME NEW h \in Handlers,
             AcquireLock(h) \/ InsertRow(h) \/ Admit(h) \/ ReleaseLock(h)
      PROVE  GaugeIsQueueDepth'
  BY <1>0, <1>2, <1>t DEF AcquireLock, InsertRow, Admit, ReleaseLock, Counted
<1>3. ASSUME NEW h \in Handlers,
             MarkRejected(h) \/ Submit(h) \/ MarkRunning(h) \/ FireCallback(h)
      PROVE  GaugeIsQueueDepth'
  BY <1>0, <1>3, <1>t DEF MarkRejected, Submit, MarkRunning, FireCallback, Counted
<1>4. ASSUME NEW h \in Handlers, Enqueue(h) PROVE GaugeIsQueueDepth'
  <2>1. h \notin Counted /\ Counted' = Counted \cup {h}
    BY <1>4, <1>t DEF Enqueue, Counted
  <2>2. Cardinality(Counted') = Cardinality(Counted) + 1
    BY <1>f, <2>1, FS_AddElement
  <2> QED
    BY <1>4, <2>2 DEF Enqueue
<1>5. ASSUME NEW h \in Handlers, MarkTerminal(h) PROVE GaugeIsQueueDepth'
  <2>1. h \in Counted /\ Counted' = Counted \ {h}
    BY <1>5, <1>t DEF MarkTerminal, Settle, RecordTerminal, Counted
  <2>2. Cardinality(Counted') = Cardinality(Counted) - 1
    BY <1>f, <2>1, FS_RemoveElement
  <2> QED
    BY <1>5, <2>2 DEF MarkTerminal, Settle, RecordTerminal
<1>6. ASSUME NEW h \in Handlers, StartJob(h) \/ FinishJob(h) PROVE GaugeIsQueueDepth'
  BY <1>0, <1>6 DEF StartJob, FinishJob, Counted
<1>7. CASE Boot
  <2>1. Counted' = {}
    BY <1>7 DEF Boot, Counted, IInv, ServedOnlyWhenUp
  <2> QED
    BY <1>7, <2>1, FS_EmptySet DEF Boot
<1>8. CASE Crash
  <2>1. Counted' = {}
    BY <1>8 DEF Crash, Counted
  <2> QED
    BY <1>8, <2>1, FS_EmptySet DEF Crash
<1>9. CASE BeginScan \/ FinishRetry \/ Serve
  BY <1>0, <1>9 DEF BeginScan, FinishRetry, Serve, Counted
<1>10. ASSUME NEW r \in Requests, ScanRow(r) \/ AgeRow(r) PROVE GaugeIsQueueDepth'
  BY <1>0, <1>10 DEF ScanRow, AgeRow, Counted
<1>11. ASSUME NEW d \in Docs, ExpireLock(d) PROVE GaugeIsQueueDepth'
  BY <1>0, <1>11 DEF ExpireLock, Counted
<1>12. CASE UNCHANGED vars
  BY <1>0, <1>12 DEF vars, Counted
<1> QED
  BY <1>1, <1>2, <1>3, <1>4, <1>5, <1>6, <1>7, <1>8, <1>9, <1>10, <1>11, <1>12
     DEF Next, CallStep, JobStep, BootStep

(* As long as pool.submit does not fail, the gauge is the queue depth.     *)
THEOREM GaugeExact ==
    ASSUME "submit" \notin Faults
    PROVE  Spec => []GaugeIsQueueDepth
<1>1. Init => GaugeIsQueueDepth
  <2> SUFFICES ASSUME Init PROVE GaugeIsQueueDepth
    OBVIOUS
  <2>1. Counted = {}
    BY DEF Init, Counted
  <2> QED
    BY <2>1, FS_EmptySet DEF Init, GaugeIsQueueDepth
<1>2. IInv /\ GaugeIsQueueDepth /\ [Next]_vars => GaugeIsQueueDepth'
  BY GaugeStep
<1> QED
  BY <1>1, <1>2, Inductive, PTL DEF Spec
-----------------------------------------------------------------------------

(* A release deletes the caller's own lock only.                           *)
LEMMA LockStep ==
    ASSUME IInv, [Next]_vars, NEW d \in Docs, NEW h \in Handlers,
           ingestLock[d] = h, ingestLock'[d] # h
    PROVE  pc'[h] # pc[h] \/ pc' = pc
<1>t. TypeOK
  BY DEF IInv
<1> USE DEF TypeOK, Lock!RedisLockTypeOK, netVars, callVars, bootVars, PCs, Resume
<1>1. ASSUME NEW g \in Handlers, AcquireLock(g) PROVE FALSE
  <2>1. req[g] \in Requests /\ DocOf[req[g]] \in Docs
    BY <1>1, IngestionAssumption DEF AcquireLock, IInv, CallsHaveRequests
  <2> QED
    BY <1>1, <1>t, <2>1, IngestionAssumption DEF AcquireLock, Lock!Acquire, Lock!Refused
<1>2. ASSUME NEW g \in Handlers, ReleaseLock(g) PROVE pc'[h] # pc[h]
  <2>1. req[g] \in Requests /\ DocOf[req[g]] \in Docs
    BY <1>2, IngestionAssumption DEF ReleaseLock, IInv, CallsHaveRequests
  <2>2. g = h
    BY <1>2, <1>t, <2>1 DEF ReleaseLock, Lock!Release
  <2> QED
    BY <1>2, <1>t, <2>2 DEF ReleaseLock
<1>3. ASSUME NEW e \in Docs, ExpireLock(e) PROVE pc' = pc
  BY <1>3 DEF ExpireLock
<1>4. ASSUME UNCHANGED ingestLock PROVE FALSE
  BY <1>4
<1> QED
  BY <1>1, <1>2, <1>3, <1>4
     DEF Next, CallStep, JobStep, BootStep, Arrive, InsertRow, Admit, MarkRejected, Enqueue,
         Submit, StartJob, FinishJob, MarkRunning, MarkTerminal, FireCallback, Boot, BeginScan,
         ScanRow, FinishRetry, Serve, Crash, AgeRow, vars

(* The token check of the Lua script: a release deletes no key but the     *)
(* releasing call's own, however late it comes.                            *)
THEOREM ReleaseOwnLock == Spec => LockNeverStolen
<1>1. IInv /\ [Next]_vars =>
         [\A d \in Docs, h \in Handlers :
             (ingestLock[d] = h /\ ingestLock'[d] # h) => (pc'[h] # pc[h] \/ pc' = pc)]_vars
  BY LockStep
<1> QED
  BY <1>1, Inductive, PTL DEF Spec, LockNeverStolen
=============================================================================
