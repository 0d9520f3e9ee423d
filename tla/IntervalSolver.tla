--------------------------- MODULE IntervalSolver ---------------------------
(***************************************************************************)
(* constraint_engine/solver.py: IntervalSolver.solve, which the query      *)
(* route and the MCP tool call, and solve_with_fallback, which             *)
(* /v1/calculate calls.  Both are pure functions of their arguments.       *)
(*                                                                         *)
(* An interval is the set of its points on a grid that has the bounds and, *)
(* between each two and beyond the last ones, one more point: enough to    *)
(* tell a closed end from an open one and from none.                       *)
(***************************************************************************)
EXTENDS Integers, EvidenceKeys

CONSTANTS MaxBound,       \* bounds are 0 .. MaxBound
          KelvinShift,    \* 273.15 of normalize_temperature
          HardLevel       \* Priority.PROJECT

ASSUME SolverAssumption ==
    MaxBound \in Nat /\ KelvinShift \in Nat /\ HardLevel \in Nat

Grid == -1 .. 2 * MaxBound + 1

Bounds == 0 .. MaxBound

IntervalDicts == [lower : Bounds \cup {None}, upper : Bounds \cup {None},
                  lowerInc : BOOLEAN, upperInc : BOOLEAN]
-----------------------------------------------------------------------------
(* Constraints                                                             *)

(* normalize_temperature, affine.                                          *)
NormalizeTemperature(value, unit) == IF unit = "K" THEN value - KelvinShift ELSE value

(* Faulty: the upper end of a range keeps its unit.                        *)
EnsureV2_OneEnd(c) ==
    LET lo == NormalizeTemperature(c.value, c.unit)
        hi == IF c.op = "range" THEN c.upper ELSE lo
    IN [param |-> c.param, level |-> c.level, conf |-> c.conf, scope |-> c.scope,
        branch |-> "general", unit |-> "C",
        interval |-> [lower |-> IF c.op \in {"==", ">=", ">", "range"} THEN lo ELSE None,
                      upper |-> IF c.op \in {"==", "<=", "<", "range"} THEN hi ELSE None,
                      lowerInc |-> c.op # ">", upperInc |-> c.op # "<"]]

(* _ensure_v2: a V1 constraint in °C; its conditions are left behind.      *)
EnsureV2(c) ==
    LET lo == NormalizeTemperature(c.value, c.unit)
        hi == IF c.op = "range" THEN NormalizeTemperature(c.upper, c.unit) ELSE lo
    IN [param |-> c.param, level |-> c.level, conf |-> c.conf, scope |-> c.scope,
        branch |-> "general", unit |-> "C",
        interval |-> [lower |-> IF c.op \in {"==", ">=", ">", "range"} THEN lo ELSE None,
                      upper |-> IF c.op \in {"==", "<=", "<", "range"} THEN hi ELSE None,
                      lowerInc |-> c.op # ">", upperInc |-> c.op # "<"]]

(* Faulty: every lower bound is closed.                                    *)
Portion_Closed(i) ==
    {g \in Grid : /\ i.lower = None \/ g >= 2 * i.lower
                  /\ \/ i.upper = None
                     \/ IF i.upperInc THEN g <= 2 * i.upper ELSE g < 2 * i.upper}

(* _v2_interval_to_portion.                                                *)
Portion(i) ==
    {g \in Grid : /\ \/ i.lower = None
                     \/ IF i.lowerInc THEN g >= 2 * i.lower ELSE g > 2 * i.lower
                  /\ \/ i.upper = None
                     \/ IF i.upperInc THEN g <= 2 * i.upper ELSE g < 2 * i.upper}

(* Faulty: the prefix the wrong way round.                                 *)
Applies_Reversed(c, active) ==
    active = None \/ c.scope = None \/ IsPrefix(active, c.scope)

(* _scope_matches: the constraint's scope is None or a prefix of the       *)
(* query's; without a query scope, everything applies.                     *)
Applies(c, active) ==
    active = None \/ c.scope = None \/ IsPrefix(c.scope, active)
-----------------------------------------------------------------------------
(* _solve_parameter                                                        *)

Smaller(a, b) == IF a < b THEN a ELSE b

(* The constraints ahead of the k-th: level first, confidence second, then *)
(* the order given.                                                        *)
AheadOf(k, cs) ==
    {j \in DOMAIN cs :
        \/ cs[j].level > cs[k].level
        \/ cs[j].level = cs[k].level /\ cs[j].conf > cs[k].conf
        \/ cs[j].level = cs[k].level /\ cs[j].conf = cs[k].conf /\ j < k}

(* A stable sort: the m-th has m - 1 ahead of it.                          *)
ByPriority(cs) ==
    [m \in DOMAIN cs |-> cs[CHOOSE k \in DOMAIN cs : Cardinality(AheadOf(k, cs)) = m - 1]]

(* Faulty: a conflicting constraint is left out of the intersection.       *)
Intersect_SkipConflict(acc, c) ==
    LET new == acc.interval \cap Portion(c.interval) IN
    IF new = {} THEN acc
    ELSE [acc EXCEPT !.interval = new, !.unit = c.unit, !.applied = TRUE,
                     !.conf = Smaller(@, c.conf)]

(* One turn of the loop: an empty intersection is a conflict and stays     *)
(* empty; the unit is that of the last constraint looked at.               *)
Intersect(acc, c) ==
    LET new == acc.interval \cap Portion(c.interval) IN
    IF new = {} THEN [acc EXCEPT !.interval = {}, !.unit = c.unit, !.conflict = TRUE]
    ELSE [acc EXCEPT !.interval = new, !.unit = c.unit, !.applied = TRUE,
                     !.conf = Smaller(@, c.conf)]

BeforeLoop == [interval |-> Grid, unit |-> "C", conf |-> 1, applied |-> FALSE, conflict |-> FALSE]

(* A constraint without an interval, a scalar one, is passed over; if none *)
(* is applied the interval is empty.                                       *)
SolveParameter(cs, active) ==
    LET used == Selected(ByPriority(cs), {c \in Range(cs) : Applies(c, active) /\ c.interval # None})
        turn[k \in 0 .. Len(used)] == IF k = 0 THEN BeforeLoop ELSE Intersect(turn[k - 1], used[k])
        all == turn[Len(used)]
    IN IF all.applied THEN all ELSE [all EXCEPT !.interval = {}]
-----------------------------------------------------------------------------
(* solve                                                                   *)

ParamsOf(cs) == {cs[k].param : k \in DOMAIN cs}

BranchesOf(cs) == {cs[k].branch : k \in DOMAIN cs}

Least(S) == CHOOSE g \in S : \A h \in S : g <= h

Greatest(S) == CHOOSE g \in S : \A h \in S : h <= g

(* A closed end is a bound, an even point; an open or infinite one is None.*)
End(g) == IF g % 2 = 0 THEN g \div 2 ELSE None

ReportRange(r) == [lower |-> End(Least(r.interval)), upper |-> End(Greatest(r.interval)),
                   unit |-> r.unit, conf |-> r.conf]

(* Branch by branch and parameter by parameter: the conflicts, and the     *)
(* ranges that are neither empty nor in conflict.                          *)
Solve(cs, active) ==
    LET cells == {<<cs[k].branch, cs[k].param>> : k \in DOMAIN cs}
        result == [cell \in cells |->
            SolveParameter(Selected(cs, {c \in Range(cs) : <<c.branch, c.param>> = cell}), active)]
        conflicts == {cell \in cells : result[cell].conflict}
        kept == {cell \in cells : ~result[cell].conflict /\ result[cell].interval # {}}
        firstOf(k) == <<cs[k].branch, cs[k].param>> \in kept
    IN [status |-> IF conflicts # {} THEN "CONFLICT" ELSE IF kept = {} THEN "EMPTY" ELSE "OK",
        conflicts |-> conflicts,
        ranges |-> [cell \in kept |-> ReportRange(result[cell])],
        primary |-> IF kept = {} THEN None
                    ELSE IF \E cell \in kept : cell[1] = "general" THEN "general"
                    ELSE cs[Least({k \in DOMAIN cs : \E p \in ParamsOf(cs) : <<cs[k].branch, p>> \in kept})].branch]

(* _partition_by_priority: below PROJECT is soft.                          *)
Soft(cs) == Selected(cs, {c \in Range(cs) : c.level < HardLevel})

ByParameter(cs) ==
    [p \in ParamsOf(cs) |-> SolveParameter(Selected(cs, {c \in Range(cs) : c.param = p}), None)]

(* _intersect_with_fallback: the soft ones alone, each marked a conflict.  *)
SoftResults(cs) ==
    [p \in ParamsOf(Soft(cs)) |-> [ByParameter(Soft(cs))[p] EXCEPT !.conflict = TRUE]]

(* Faulty: the soft constraints decide under strict as well.               *)
SolveWithFallback_Lenient(cs, allowSoft, strict) ==
    LET all == ByParameter(cs) IN
    IF \E p \in DOMAIN all : all[p].interval = {} /\ allowSoft /\ Soft(cs) # <<>>
    THEN [kind |-> "soft", results |-> SoftResults(cs)]
    ELSE [kind |-> "all", results |-> all]

(* solve_with_fallback: all constraints together, not the hard ones alone; *)
(* if a parameter comes out empty, strict refuses the request, and         *)
(* otherwise the soft ones, if any and if allowed, answer in their place.  *)
SolveWithFallback(cs, allowSoft, strict) ==
    LET all == ByParameter(cs) IN
    IF \A p \in DOMAIN all : all[p].interval # {} THEN [kind |-> "all", results |-> all]
    ELSE IF strict THEN [kind |-> "refused", results |-> <<>>]
    ELSE IF allowSoft /\ Soft(cs) # <<>> THEN [kind |-> "soft", results |-> SoftResults(cs)]
    ELSE [kind |-> "all", results |-> all]
-----------------------------------------------------------------------------
(* The reference of the properties: x, a grid point, keeps to what the     *)
(* constraint says.                                                        *)
Keeps(x, c) ==
    LET i == c.interval IN
    /\ i.lower # None => x > 2 * i.lower \/ (i.lowerInc /\ x = 2 * i.lower)
    /\ i.upper # None => x < 2 * i.upper \/ (i.upperInc /\ x = 2 * i.upper)
=============================================================================
