--------------------------- MODULE SolverRequests ---------------------------
(***************************************************************************)
(* The two callers of IntervalSolver: one request, whose constraints       *)
(* arrive one after the other, and the answer it gets.                     *)
(***************************************************************************)
EXTENDS IntervalSolver

CONSTANTS EvidenceRules,  \* V2 constraints the evidence builder may hand over
          DirectRules,    \* V1 constraints a caller of /v1/calculate may send
          ActiveScopes,   \* scopes a query may name
          MaxRules        \* bound on the constraints of a request

ASSUME RequestAssumption ==
    /\ \A c \in EvidenceRules : c.interval = None \/ c.interval \in IntervalDicts
    /\ \A c \in DirectRules : /\ c.op \in {"==", "<=", ">=", "<", ">", "range"}
                              /\ c.value \in Int /\ c.upper \in Int
                              /\ EnsureV2(c).interval # None
    /\ None \notin Int
    /\ \A c \in EvidenceRules \cup DirectRules : c.level \in Nat /\ c.conf \in Nat
    /\ EvidenceRules \cap DirectRules = {}
    /\ MaxRules \in Nat

VARIABLES
    given,     \* the constraints of the request, in order
    solved,    \* what solve returned
    fallback,  \* what solve_with_fallback returned
    call       \* "collect", "solve" or "calculate", with its options

solverVars == <<given, solved, fallback, call>>
-----------------------------------------------------------------------------
NoCall == [route |-> "collect", scope |-> None, strict |-> FALSE, soft |-> FALSE]

SolverInit ==
    /\ given = <<>>
    /\ solved = <<>> /\ fallback = <<>>
    /\ call = NoCall

SolverTypeOK ==
    /\ given \in Seq(EvidenceRules) \/ given \in Seq(DirectRules)
    /\ call \in [route : {"collect", "solve", "calculate"}, scope : ActiveScopes \cup {None},
                 strict : BOOLEAN, soft : BOOLEAN]
    /\ call.route = "solve" => solved.status \in {"OK", "CONFLICT", "EMPTY"}
    /\ call.route = "calculate" => fallback.kind \in {"all", "soft", "refused"}

(* A request's constraints are all of the evidence builder's, or all sent. *)
GiveRule ==
    /\ call = NoCall
    /\ Len(given) < MaxRules
    /\ \E rules \in {EvidenceRules, DirectRules} : \E c \in rules :
          /\ \A k \in DOMAIN given : given[k] \in rules
          /\ given' = Append(given, c)
    /\ UNCHANGED <<solved, fallback, call>>

(* evaluate_constraints comes here with at least one constraint.           *)
CallSolve ==
    /\ call = NoCall /\ given # <<>> /\ given[1] \in EvidenceRules
    /\ \E scope \in ActiveScopes \cup {None} :
          /\ call' = [NoCall EXCEPT !.route = "solve", !.scope = scope]
          /\ solved' = Solve(given, scope)
    /\ UNCHANGED <<given, fallback>>

(* POST /v1/calculate: its scope_path is not handed to the solver.         *)
CallCalculate ==
    /\ call = NoCall /\ given # <<>> /\ given[1] \in DirectRules
    /\ \E strict, soft \in BOOLEAN :
          /\ call' = [NoCall EXCEPT !.route = "calculate", !.strict = strict, !.soft = soft]
          /\ fallback' = SolveWithFallback([k \in DOMAIN given |-> EnsureV2(given[k])], soft, strict)
    /\ UNCHANGED <<given, solved>>

SolverNext == GiveRule \/ CallSolve \/ CallCalculate

SolverSpec == SolverInit /\ [][SolverNext]_solverVars
-----------------------------------------------------------------------------
(***************************************************************************)
(* Correctness                                                             *)
(***************************************************************************)

(* The constraints on a parameter in a branch that count.                  *)
Counting(cell) ==
    {k \in DOMAIN given : /\ <<given[k].branch, given[k].param>> = cell
                          /\ given[k].interval # None
                          /\ Applies(given[k], call.scope)}

Feasible(cell) == {x \in Grid : \A k \in Counting(cell) : Keeps(x, given[k])}

(* solve reports a conflict exactly where the constraints that count       *)
(* exclude each other.  Elsewhere its range holds every value they allow,  *)
(* and an end it names is allowed: None stands for a strict bound as well  *)
(* as for no bound, and the order of the constraints is of no account.     *)
SolveIsTheIntersection ==
    call.route = "solve" =>
        \A cell \in {<<given[k].branch, given[k].param>> : k \in DOMAIN given} :
            /\ cell \in solved.conflicts <=> Counting(cell) # {} /\ Feasible(cell) = {}
            /\ cell \in DOMAIN solved.ranges <=> Counting(cell) # {} /\ Feasible(cell) # {}
            /\ cell \in DOMAIN solved.ranges =>
                   LET r == solved.ranges[cell] IN
                   /\ \A x \in Feasible(cell) : /\ r.lower # None => 2 * r.lower <= x
                                                /\ r.upper # None => x <= 2 * r.upper
                   /\ r.lower # None => 2 * r.lower \in Feasible(cell)
                   /\ r.upper # None => 2 * r.upper \in Feasible(cell)

(* What a V1 constraint allows, read from the request itself.              *)
Allowed(c) ==
    LET v == 2 * NormalizeTemperature(c.value, c.unit) IN
    {x \in Grid : CASE c.op = "==" -> x = v
                    [] c.op = "<=" -> x <= v
                    [] c.op = ">=" -> x >= v
                    [] c.op = "<" -> x < v
                    [] c.op = ">" -> x > v
                    [] c.op = "range" -> v <= x /\ x <= 2 * NormalizeTemperature(c.upper, c.unit)}

(* The values of p that all constraints of the request allow together.     *)
AllowedBy(p) == {x \in Grid : \A k \in DOMAIN given : given[k].param = p => x \in Allowed(given[k])}

Contradictory == \E q \in ParamsOf(given) : AllowedBy(q) = {}

(* /v1/calculate: an answer without the conflict mark is exactly what all  *)
(* constraints on the parameter, hard and soft, allow, and never nothing;  *)
(* the mark, and the loss of a parameter, only when the constraints on     *)
(* some parameter exclude each other and the caller is not strict.  What a *)
(* marked answer holds is not claimed: the handbook (8.2) promises the     *)
(* hard interval, and the code leaves the hard constraints out.            *)
FallbackIsMarked ==
    call.route = "calculate" =>
        /\ \A p \in DOMAIN fallback.results :
              LET r == fallback.results[p] IN
              /\ ~r.conflict => r.interval = AllowedBy(p) /\ r.interval # {}
              /\ r.conflict => ~call.strict /\ Contradictory
        /\ ~Contradictory => DOMAIN fallback.results = ParamsOf(given)
=============================================================================
