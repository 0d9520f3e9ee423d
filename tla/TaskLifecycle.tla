--------------------------- MODULE TaskLifecycle ---------------------------
(***************************************************************************)
(* What the service promises about a request, whatever its handlers, pool, *)
(* crashes and retries do: the life that GET /status shows of it.  The     *)
(* "pending" (PENDING, QUEUED) and "processing" (RUNNING) answers of the   *)
(* route are one phase here, "open".  A request is accepted once; a success*)
(* is final; a failure can only be taken back by a compensation attempt,   *)
(* and there are at most MaxAttempts of those.                             *)
(***************************************************************************)
EXTENDS Naturals

CONSTANTS Requests, MaxAttempts

VARIABLES phase,     \* what /status says of each request
          attempts   \* compensation attempts spent on it

lifeVars == <<phase, attempts>>

LifeInit == /\ phase = [r \in Requests |-> "unknown"]
            /\ attempts = [r \in Requests |-> 0]

Move(r, from, to) == /\ phase[r] \in from
                     /\ phase' = [phase EXCEPT ![r] = to]

(* try_insert writes the row.                                              *)
Accept(r) == Move(r, {"unknown"}, "open") /\ UNCHANGED attempts

(* The job, or a compensation attempt, succeeded.                          *)
Succeed(r) == Move(r, {"open"}, "completed") /\ UNCHANGED attempts

(* The gate rejected it, or the job or an attempt failed.                  *)
Fail(r) == Move(r, {"open", "failed"}, "failed") /\ UNCHANGED attempts

(* A compensation attempt takes the request up again.                      *)
Retry(r) == /\ Move(r, {"open", "failed"}, "open")
            /\ attempts[r] < MaxAttempts
            /\ attempts' = [attempts EXCEPT ![r] = @ + 1]

LifeNext == \E r \in Requests : Accept(r) \/ Succeed(r) \/ Fail(r) \/ Retry(r)

LifeSpec == LifeInit /\ [][LifeNext]_lifeVars
=============================================================================
