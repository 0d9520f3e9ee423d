-------------------------- MODULE ConstraintProofs --------------------------
(***************************************************************************)
(* Proofs about the way from the chunks to the answer of a query and its   *)
(* replay: the solver, the deduplication of the rules, the constraints a   *)
(* text is parsed to, the scope of a query, the audit events a replay      *)
(* compares with.                                                          *)
(***************************************************************************)
EXTENDS EvidenceBuilder, ConstraintQuery, SolverRequests, DataProofs
-----------------------------------------------------------------------------
(***************************************************************************)
(* IntervalSolver and SolverRequests: the loop over the constraints of a   *)
(* parameter, sorted by priority, leaves their intersection, whatever the  *)
(* order in which they came, for any set of rules and any bounds.          *)
(*                                                                         *)
(* The loop is a recursion along the sorted constraints. What it has       *)
(* computed after k of them is the intersection of the first k             *)
(* (LoopComputes), and the sort drops none (ByPriorityHasAll, from         *)
(* Ranking); the rest is what Solve makes of the result of each branch and *)
(* parameter.                                                              *)
(***************************************************************************)

(* The constraints that a sort by priority can order.                      *)
Ranked(T) == \A c \in T : c.level \in Int /\ c.conf \in Int

(* No two constraints have as many ahead of them: each gets a place of its *)
(* own, and no place stays empty.                                          *)
LEMMA PlacesOfAll ==
    ASSUME NEW T, Ranked(T), NEW cs \in Seq(T), NEW m \in 1 .. Len(cs)
    PROVE  /\ Cardinality(AheadOf(m, cs)) \in 0 .. Len(cs) - 1
           /\ \E k \in 1 .. Len(cs) : Cardinality(AheadOf(k, cs)) = m - 1
           /\ \A j \in 1 .. Len(cs) : Cardinality(AheadOf(j, cs)) = Cardinality(AheadOf(m, cs)) => j = m
<1> DEFINE S == 1 .. Len(cs)
           ahead == [k \in S |-> AheadOf(k, cs)]
<1>1. Len(cs) \in Nat /\ DOMAIN cs = S /\ \A k \in S : cs[k].level \in Int /\ cs[k].conf \in Int
  BY DEF Ranked
<1>2. IsFiniteSet(S) /\ Cardinality(S) = Len(cs)
  BY SMTT(30), <1>1, FS_Interval
<1>3. Orders(ahead, S) /\ \A k \in S : ahead[k] = AheadOf(k, cs)
  <2>1. \A k \in S : AheadOf(k, cs) \in SUBSET S /\ k \notin AheadOf(k, cs)
    BY <1>1 DEF AheadOf
  <2>2. \A j, k \in S : j \in AheadOf(k, cs) => AheadOf(j, cs) \subseteq AheadOf(k, cs)
    BY <1>1 DEF AheadOf
  <2>3. \A j, k \in S : j = k \/ j \in AheadOf(k, cs) \/ k \in AheadOf(j, cs)
    BY <1>1 DEF AheadOf
  <2> HIDE DEF S
  <2>4. ahead \in [S -> SUBSET S]
    BY <2>1
  <2> QED BY <2>1, <2>2, <2>3, <2>4 DEF Orders
<1> HIDE DEF ahead
<1>4. /\ \A k \in S : Cardinality(ahead[k]) \in 0 .. Cardinality(S) - 1
      /\ \A j, k \in S : Cardinality(ahead[j]) = Cardinality(ahead[k]) => j = k
      /\ \A i \in 1 .. Cardinality(S) : \E k \in S : Cardinality(ahead[k]) = i - 1
  <2> HIDE DEF S
  <2> QED BY <1>2, <1>3, Ranking
<1> QED BY <1>2, <1>3, <1>4

(* The same constraints, in another order.                                 *)
Rearranges(q, cs, T) ==
    /\ q \in Seq(T) /\ Len(q) = Len(cs)
    /\ \A m \in 1 .. Len(cs) : \E k \in 1 .. Len(cs) : q[m] = cs[k]
    /\ \A k \in 1 .. Len(cs) : \E m \in 1 .. Len(cs) : q[m] = cs[k]

(* The sort by priority rearranges the constraints and drops none.         *)
LEMMA ByPriorityHasAll ==
    ASSUME NEW T, Ranked(T), NEW cs \in Seq(T)
    PROVE  Rearranges(ByPriority(cs), cs, T)
<1> DEFINE q == ByPriority(cs)
<1> DEFINE place(m) == CHOOSE k \in 1 .. Len(cs) : Cardinality(AheadOf(k, cs)) = m - 1
<1>1. q = [m \in 1 .. Len(cs) |-> cs[place(m)]]
  <2>1. DOMAIN cs = 1 .. Len(cs)
    OBVIOUS
  <2> QED BY <2>1 DEF ByPriority
<1> HIDE DEF q
<1>2. \A m \in 1 .. Len(cs) : place(m) \in 1 .. Len(cs) /\ Cardinality(AheadOf(place(m), cs)) = m - 1
  BY PlacesOfAll
<1> HIDE DEF place
<1>3. q \in Seq(T) /\ Len(q) = Len(cs) /\ \A m \in 1 .. Len(cs) : q[m] = cs[place(m)]
  <2>1. Len(cs) \in Nat /\ \A m \in 1 .. Len(cs) : cs[place(m)] \in T
    BY <1>2
  <2>2. q \in [1 .. Len(cs) -> T]
    BY <1>1, <2>1
  <2> QED BY <1>1, <2>1, <2>2
<1>4. ASSUME NEW k \in 1 .. Len(cs)
      PROVE  \E m \in 1 .. Len(cs) : q[m] = cs[k]
  <2> DEFINE c == Cardinality(AheadOf(k, cs))
  <2>1. c \in 0 .. Len(cs) - 1
    BY PlacesOfAll
  <2>2. c + 1 \in 1 .. Len(cs) /\ c + 1 - 1 = c
    BY <2>1
  <2>3. Cardinality(AheadOf(place(c + 1), cs)) = c
    BY <1>2, <2>1, <2>2
  <2>4. place(c + 1) = k
    <3>1. \A j \in 1 .. Len(cs) : Cardinality(AheadOf(j, cs)) = c => j = k
      BY PlacesOfAll
    <3>2. place(c + 1) \in 1 .. Len(cs)
      BY <1>2, <2>2
    <3> QED BY <2>3, <3>1, <3>2
  <2> QED BY <1>3, <2>2, <2>4
<1> QED BY <1>2, <1>3, <1>4 DEF Rearranges, q
-----------------------------------------------------------------------------
(* The loop of _solve_parameter over the constraints it uses.              *)
Accumulators(used) ==
    [interval : SUBSET Grid, unit : {"C"} \cup {used[k].unit : k \in 1 .. Len(used)},
     conf : {1} \cup {used[k].conf : k \in 1 .. Len(used)},
     applied : BOOLEAN, conflict : BOOLEAN]

LoopOf(used, turn) ==
    /\ turn \in [0 .. Len(used) -> Accumulators(used)]
    /\ turn[0] = BeforeLoop
    /\ \A k \in 1 .. Len(used) : turn[k] = Intersect(turn[k - 1], used[k])

(* One turn of the loop stays within the intervals it can make.            *)
LEMMA IntersectStays ==
    ASSUME NEW T, NEW used \in Seq(T), NEW acc \in Accumulators(used), NEW k \in 1 .. Len(used)
    PROVE  Intersect(acc, used[k]) \in Accumulators(used)
<1>1. Smaller(acc.conf, used[k].conf) \in {1} \cup {used[i].conf : i \in 1 .. Len(used)}
  BY DEF Smaller, Accumulators
<1>2. used[k].unit \in {"C"} \cup {used[i].unit : i \in 1 .. Len(used)}
  OBVIOUS
<1> QED BY <1>1, <1>2 DEF Intersect, Accumulators

(* What SolveParameter computes from, and how.                             *)
UsedBy(cs, active) ==
    Selected(ByPriority(cs), {c \in Range(cs) : Applies(c, active) /\ c.interval # None})

(* SolveParameter is what its loop over the sorted constraints leaves.     *)
LEMMA LoopExists ==
    ASSUME NEW T, NEW cs, NEW active, UsedBy(cs, active) \in Seq(T)
    PROVE  \E turn : /\ LoopOf(UsedBy(cs, active), turn)
                     /\ SolveParameter(cs, active) =
                           LET all == turn[Len(UsedBy(cs, active))]
                           IN  IF all.applied THEN all ELSE [all EXCEPT !.interval = {}]
<1> DEFINE used == UsedBy(cs, active)
           n == Len(used)
           Acc == Accumulators(used)
           Step(k, a) == Intersect(a, used[k])
           G == [k \in 1 .. n |-> [a \in Acc |-> Step(k, a)]]
           Turns(f) == [k \in 0 .. n |-> IF k = 0 THEN BeforeLoop ELSE Step(k, f[k - 1])]
           turn == CHOOSE f : f = Turns(f)
<1>1. SolveParameter(cs, active) = LET all == turn[n]
                                   IN  IF all.applied THEN all ELSE [all EXCEPT !.interval = {}]
  BY DEF SolveParameter, UsedBy
<1>2. n \in Nat
  OBVIOUS
<1>3. BeforeLoop \in Acc /\ \A k \in 1 .. n, a \in Acc : Step(k, a) \in Acc
  <2>1. BeforeLoop \in Acc
    BY DEF BeforeLoop, Accumulators
  <2>2. used \in Seq(T)
    OBVIOUS
  <2> HIDE DEF used
  <2> QED BY <2>1, <2>2, IntersectStays
<1> HIDE DEF n, Step, Acc
<1>4. G \in [1 .. n -> [Acc -> Acc]] /\ \A k \in 1 .. n, a \in Acc : G[k][a] = Step(k, a)
  BY <1>3
<1> HIDE DEF G
<1>i. PICK f : IsIteration(f, G, BeforeLoop, n, Acc)
  <2>1. G \in [1 .. n -> [Acc -> Acc]] /\ n \in Nat /\ BeforeLoop \in Acc
    BY <1>2, <1>3, <1>4
  <2> QED BY <2>1, Iterates
<1>5. f \in [0 .. n -> Acc] /\ f[0] = BeforeLoop /\ \A k \in 1 .. n : f[k] = G[k][f[k - 1]]
  BY <1>i DEF IsIteration
<1>6. f = Turns(f)
  <2>1. \A k \in 1 .. n : f[k] = Step(k, f[k - 1])
    <3> TAKE k \in 1 .. n
    <3>1. f[k - 1] \in Acc
      BY <1>2, <1>5
    <3> QED BY <1>4, <1>5, <3>1
  <2> QED BY <1>5, <2>1
<1>7. turn = Turns(turn)
  BY <1>6
<1> HIDE DEF turn
<1>8. turn[0] = BeforeLoop /\ \A k \in 1 .. n : turn[k] = Step(k, turn[k - 1])
  BY <1>2, <1>7
<1>9. \A k \in 0 .. n : turn[k] \in Acc
  <2>1. turn[0] \in Acc /\ \A k \in 1 .. n : turn[k - 1] \in Acc => turn[k] \in Acc
    BY <1>3, <1>8
  <2> QED BY <1>2, <2>1, ValuesIn
<1>10. LoopOf(used, turn)
  BY <1>7, <1>8, <1>9 DEF LoopOf, n, Acc, Step
<1> QED BY <1>1, <1>10 DEF n
(* The points that the constraints of a set leave.                         *)
LeftBy(U) == {x \in Grid : \A c \in U : x \in Portion(c.interval)}

LeftByFirst(used, k) == {x \in Grid : \A i \in 1 .. k : x \in Portion(used[i].interval)}

(* The loop leaves the intersection of the intervals it has seen.          *)
LEMMA LoopComputes ==
    ASSUME NEW T, NEW used \in Seq(T), NEW turn, LoopOf(used, turn)
    PROVE  LET all == turn[Len(used)] IN
           /\ all.interval = LeftByFirst(used, Len(used))
           /\ all.conflict <=> used # <<>> /\ LeftByFirst(used, Len(used)) = {}
           /\ all.applied => used # <<>>
           /\ ~all.applied => used = <<>> \/ LeftByFirst(used, Len(used)) = {}
<1> DEFINE n == Len(used)
           Holds(k) == /\ turn[k].interval = LeftByFirst(used, k)
                       /\ turn[k].conflict <=> k > 0 /\ LeftByFirst(used, k) = {}
                       /\ turn[k].applied => k > 0
                       /\ ~turn[k].applied => k = 0 \/ LeftByFirst(used, k) = {}
           P == {k \in 0 .. n : Holds(k)}
<1>1. n \in Nat
  OBVIOUS
<1>2. 0 \in P
  BY <1>1 DEF LoopOf, BeforeLoop, LeftByFirst
<1>3. ASSUME NEW k \in 1 .. n, k - 1 \in P
      PROVE  k \in P
  <2> DEFINE acc == turn[k - 1]
             new == acc.interval \cap Portion(used[k].interval)
  <2>1. Holds(k - 1) /\ k - 1 \in 0 .. n
    BY <1>3
  <2>2. turn[k] = Intersect(acc, used[k]) /\ acc \in Accumulators(used)
    BY <1>1, <2>1 DEF LoopOf
  <2>3. LeftByFirst(used, k) = new
    <3>1. \A i : i \in 1 .. k <=> i \in 1 .. k - 1 \/ i = k
      BY <1>1
    <3> QED BY <2>1, <3>1 DEF LeftByFirst
  <2>4. LeftByFirst(used, k) \subseteq LeftByFirst(used, k - 1)
    BY <2>1, <2>3
  <2> HIDE DEF acc
  <2>5. CASE new = {}
    <3>1. turn[k] = [acc EXCEPT !.interval = {}, !.unit = used[k].unit, !.conflict = TRUE]
      BY <2>2, <2>5 DEF Intersect
    <3>2. turn[k].interval = {} /\ turn[k].conflict
      BY <2>2, <3>1 DEF Accumulators
    <3>3. k > 0 /\ LeftByFirst(used, k) = {}
      BY <1>1, <2>3, <2>5
    <3>4. Holds(k)
      BY <3>2, <3>3
    <3> HIDE DEF Holds
    <3> QED BY <1>1, <3>4
  <2>6. CASE new # {}
    <3>1. turn[k] = [acc EXCEPT !.interval = new, !.unit = used[k].unit, !.applied = TRUE,
                                !.conf = Smaller(@, used[k].conf)]
      BY <2>2, <2>6 DEF Intersect
    <3>2. turn[k].interval = new /\ turn[k].conflict = acc.conflict /\ turn[k].applied
      BY <2>2, <3>1 DEF Accumulators
    <3>3. acc.conflict <=> k - 1 > 0 /\ LeftByFirst(used, k - 1) = {}
      BY <2>1 DEF acc
    <3>4. k > 0 /\ LeftByFirst(used, k) # {} /\ LeftByFirst(used, k - 1) # {} /\ LeftByFirst(used, k) = new
      BY <1>1, <2>3, <2>4, <2>6
    <3>5. ~turn[k].conflict
      BY <3>2, <3>3, <3>4
    <3>6. Holds(k)
      BY <3>2, <3>4, <3>5
    <3> HIDE DEF Holds
    <3> QED BY <1>1, <3>6
  <2> QED BY <2>5, <2>6
<1>4. n \in P
  <2> HIDE DEF P
  <2>1. \A k \in 0 .. n : k \in P
    BY <1>1, <1>2, <1>3, Induction
  <2> QED BY <1>1, <2>1
<1>5. n > 0 <=> used # <<>>
  OBVIOUS
<1> QED BY <1>1, <1>4, <1>5

(* The constraints used are those of cs in the set, in some order.         *)
SortedSelection(used, cs, S, T) ==
    /\ used \in Seq(T)
    /\ \A k \in 1 .. Len(used) : used[k] \in S
    /\ \A i \in 1 .. Len(cs) : cs[i] \in S => \E k \in 1 .. Len(used) : used[k] = cs[i]

(* The constraints of one parameter in order are those of the unsorted     *)
(* list.                                                                   *)
LEMMA SortedSelected ==
    ASSUME NEW T, Ranked(T), NEW cs \in Seq(T), NEW S
    PROVE  SortedSelection(Selected(ByPriority(cs), S), cs, S, T)
<1> DEFINE sorted == ByPriority(cs)
           used == Selected(sorted, S)
<1>1. Rearranges(sorted, cs, T)
  BY ByPriorityHasAll
<1> HIDE DEF sorted
<1>2. /\ sorted \in Seq(T) /\ Len(sorted) = Len(cs)
      /\ \A m \in 1 .. Len(cs) : \E k \in 1 .. Len(cs) : sorted[m] = cs[k]
      /\ \A k \in 1 .. Len(cs) : \E m \in 1 .. Len(cs) : sorted[m] = cs[k]
  BY <1>1 DEF Rearranges
<1>2a. IsSelection(used, sorted, S, T)
  BY <1>2, SelectedFacts
<1> HIDE DEF used
<1>3. /\ used \in Seq(T)
      /\ \A k \in 1 .. Len(used) : used[k] \in S /\ \E i \in 1 .. Len(sorted) : used[k] = sorted[i]
      /\ \A i \in 1 .. Len(sorted) : sorted[i] \in S => \E k \in 1 .. Len(used) : used[k] = sorted[i]
  BY <1>2a DEF IsSelection
<1>4. ASSUME NEW i \in 1 .. Len(cs), cs[i] \in S
      PROVE  \E k \in 1 .. Len(used) : used[k] = cs[i]
  <2>1. PICK m \in 1 .. Len(cs) : sorted[m] = cs[i]
    BY <1>2
  <2>2. PICK k \in 1 .. Len(used) : used[k] = sorted[m]
    BY <1>2, <1>3, <1>4, <2>1
  <2> QED BY <2>1, <2>2
<1> QED BY <1>3, <1>4 DEF SortedSelection, sorted, used

(* SolveParameter is the intersection of the constraints that apply,       *)
(* whatever their order: a conflict if there are some and they leave no    *)
(* point, and empty if there are none.                                     *)
CountedIn(cs, active) == {c \in Range(cs) : Applies(c, active) /\ c.interval # None}

IsIntersection(r, U) ==
    /\ r.conflict <=> U # {} /\ LeftBy(U) = {}
    /\ r.interval = IF U = {} THEN {} ELSE LeftBy(U)
    /\ DOMAIN r = {"interval", "unit", "conf", "applied", "conflict"}

(* A parameter is solved by intersection, whatever the order.              *)
LEMMA SolveParameterIntersects ==
    ASSUME NEW T, Ranked(T), NEW cs \in Seq(T), NEW active
    PROVE  IsIntersection(SolveParameter(cs, active), CountedIn(cs, active))
<1> DEFINE used == UsedBy(cs, active)
           U == CountedIn(cs, active)
           r == SolveParameter(cs, active)
<1>1. used = Selected(ByPriority(cs), U)
  BY DEF UsedBy, CountedIn
<1>2. \A c \in U : \E i \in 1 .. Len(cs) : cs[i] = c
  BY DEF CountedIn, Range
<1> HIDE DEF used, U
<1>3. /\ used \in Seq(T)
      /\ \A k \in 1 .. Len(used) : used[k] \in U
      /\ \A i \in 1 .. Len(cs) : cs[i] \in U => \E k \in 1 .. Len(used) : used[k] = cs[i]
  <2>1. SortedSelection(used, cs, U, T)
    BY <1>1, SortedSelected
  <2> QED BY <2>1 DEF SortedSelection
<1>4. \A c \in U : \E k \in 1 .. Len(used) : used[k] = c
  BY <1>2, <1>3
<1>5. LeftByFirst(used, Len(used)) = LeftBy(U)
  BY <1>3, <1>4 DEF LeftBy, LeftByFirst
<1>6. used = <<>> <=> U = {}
  <2>1. used # <<>> => used[1] \in U
    BY <1>3
  <2> QED BY <1>4, <2>1
<1>7. PICK turn : /\ LoopOf(used, turn)
                  /\ r = LET all == turn[Len(used)]
                         IN  IF all.applied THEN all ELSE [all EXCEPT !.interval = {}]
  BY <1>3, LoopExists DEF used
<1> HIDE DEF r
<1> DEFINE all == turn[Len(used)]
<1>8. all \in Accumulators(used)
  <2>1. Len(used) \in 0 .. Len(used)
    BY <1>3
  <2> QED BY <1>7, <2>1 DEF LoopOf
<1>9. /\ all.interval = LeftBy(U)
      /\ all.conflict <=> U # {} /\ LeftBy(U) = {}
      /\ all.applied => U # {}
      /\ ~all.applied => U = {} \/ LeftBy(U) = {}
  BY <1>3, <1>5, <1>6, <1>7, LoopComputes
<1> HIDE DEF all
<1>10. /\ r.conflict = all.conflict /\ r.interval = IF all.applied THEN all.interval ELSE {}
       /\ DOMAIN r = {"interval", "unit", "conf", "applied", "conflict"}
  <2>1. r = IF all.applied THEN all ELSE [all EXCEPT !.interval = {}]
    BY <1>7 DEF all
  <2> QED BY <1>8, <2>1 DEF Accumulators
<1> QED BY <1>9, <1>10 DEF IsIntersection, r, U
-----------------------------------------------------------------------------

(* The points of the grid are integers.                                    *)
LEMMA GridIsInt == Grid \subseteq Int
BY SolverAssumption DEF Grid

(* A feasible set that is not empty has a least and a greatest point.      *)
LEMMA Extremes ==
    ASSUME NEW F \in SUBSET Grid, F # {}
    PROVE  /\ Least(F) \in F /\ \A h \in F : Least(F) <= h
           /\ Greatest(F) \in F /\ \A h \in F : h <= Greatest(F)
<1> DEFINE Up == {g + 1 : g \in F}
           Down == {2 * MaxBound + 1 - g : g \in F}
<1>1. /\ Grid \subseteq Int /\ MaxBound \in Nat /\ \A g \in F : g \in Int
      /\ Up \in SUBSET Nat /\ Up # {} /\ Down \in SUBSET Nat /\ Down # {}
  <2>1. MaxBound \in Nat
    BY SolverAssumption
  <2>2. \A g \in F : g \in Int /\ -1 <= g /\ g <= 2 * MaxBound + 1
    BY <2>1 DEF Grid
  <2>3. \A g \in F : g + 1 \in Nat /\ 2 * MaxBound + 1 - g \in Nat
    BY <2>1, <2>2
  <2>4. Up \subseteq Nat /\ Down \subseteq Nat
    BY <2>3
  <2>5. Up # {} /\ Down # {}
    OBVIOUS
  <2> QED BY <2>1, <2>2, <2>4, <2>5, GridIsInt
<1>2. \E g \in F : \A h \in F : g <= h
  <2>1. PICK x \in Up : \A y \in Up : x <= y
    <3> HIDE DEF Up
    <3> QED BY <1>1, LeastNumber
  <2>2. PICK g \in F : x = g + 1
    OBVIOUS
  <2>3. \A h \in F : g + 1 <= h + 1
    BY <2>1, <2>2
  <2> QED BY <1>1, <2>3
<1>3. \E g \in F : \A h \in F : h <= g
  <2>1. PICK x \in Down : \A y \in Down : x <= y
    <3> HIDE DEF Down
    <3> QED BY <1>1, LeastNumber
  <2>2. PICK g \in F : x = 2 * MaxBound + 1 - g
    OBVIOUS
  <2>3. \A h \in F : 2 * MaxBound + 1 - g <= 2 * MaxBound + 1 - h
    BY <2>1, <2>2
  <2> QED BY <1>1, <2>3
<1> QED BY <1>2, <1>3 DEF Least, Greatest

(* An end that is reported is the point itself.                            *)
LEMMA EndIsAPoint ==
    ASSUME NEW g \in Int, End(g) # None
    PROVE  2 * End(g) = g
BY DEF End

(* The part of solve that is about one parameter in one branch.            *)
CellOf(c) == <<c.branch, c.param>>

CellsOf(cs) == {CellOf(cs[k]) : k \in DOMAIN cs}

OfCell(cs, cell) == Selected(cs, {c \in Range(cs) : CellOf(c) = cell})

CellResult(cs, active, cell) == SolveParameter(OfCell(cs, cell), active)

CountedOf(cs, active, cell) ==
    {c \in Range(cs) : CellOf(c) = cell /\ Applies(c, active) /\ c.interval # None}

(* Branch and parameter: a conflict is an empty intersection.              *)
LEMMA CellIsIntersected ==
    ASSUME NEW T, Ranked(T), NEW cs \in Seq(T), NEW active, NEW cell
    PROVE  LET r == CellResult(cs, active, cell)
               U == CountedOf(cs, active, cell)
           IN  /\ r.conflict <=> U # {} /\ LeftBy(U) = {}
               /\ r.interval = IF U = {} THEN {} ELSE LeftBy(U)
<1> DEFINE S == {c \in Range(cs) : CellOf(c) = cell}
           sub == OfCell(cs, cell)
           V == CountedIn(sub, active)
           U == CountedOf(cs, active, cell)
           r == SolveParameter(sub, active)
<1>1. IsSelection(sub, cs, S, T)
  BY SelectedFacts DEF OfCell
<1>2. Range(sub) = S
  <2> HIDE DEF sub
  <2>1. /\ sub \in Seq(T) /\ \A k \in 1 .. Len(sub) : sub[k] \in S
        /\ \A i \in 1 .. Len(cs) : cs[i] \in S => \E k \in 1 .. Len(sub) : sub[k] = cs[i]
    BY <1>1 DEF IsSelection
  <2>2. \A c \in S : \E i \in 1 .. Len(cs) : cs[i] = c
    BY DEF Range
  <2>3. \A c \in S : \E k \in 1 .. Len(sub) : sub[k] = c
    BY <2>1, <2>2
  <2> HIDE DEF S
  <2> QED BY <2>1, <2>3 DEF Range
<1>3. V = U
  BY <1>2 DEF CountedOf, CountedIn
<1>4. sub \in Seq(T)
  BY <1>1 DEF IsSelection
<1>5. IsIntersection(r, V)
  <2> HIDE DEF sub
  <2> QED BY <1>4, SolveParameterIntersects
<1> HIDE DEF sub, V, U
<1> QED BY <1>3, <1>5 DEF CellResult, IsIntersection, sub, U

(* Solve answers each branch and parameter by itself.                      *)
LEMMA SolveByCell ==
    ASSUME NEW cs, NEW active
    PROVE  LET s == Solve(cs, active) IN
           /\ DOMAIN s.ranges \subseteq CellsOf(cs)
           /\ \A cell \in CellsOf(cs) :
                 LET r == CellResult(cs, active, cell) IN
                 /\ cell \in s.conflicts <=> r.conflict
                 /\ cell \in DOMAIN s.ranges <=> ~r.conflict /\ r.interval # {}
                 /\ cell \in DOMAIN s.ranges => s.ranges[cell] = ReportRange(r)
BY DEF Solve, CellsOf, CellOf, CellResult, OfCell

(* The reference of the property, in terms of the constraints themselves.  *)
LEMMA FeasibleIsLeft ==
    ASSUME given \in Seq(EvidenceRules), NEW cell
    PROVE  LET U == CountedOf(given, call.scope, cell) IN
           /\ Counting(cell) = {} <=> U = {}
           /\ Feasible(cell) = LeftBy(U)
<1> DEFINE U == CountedOf(given, call.scope, cell)
<1>1. /\ \A c \in U : \E k \in Counting(cell) : c = given[k]
      /\ \A k \in Counting(cell) : given[k] \in U
  BY DEF CountedOf, Counting, CellOf, Range
<1>2. \A c \in U : c \in EvidenceRules /\ c.interval # None
  BY DEF CountedOf, Range
<1> HIDE DEF U
<1>3. \A c \in U, x \in Grid : x \in Portion(c.interval) <=> Keeps(x, c)
  <2> TAKE c \in U, x \in Grid
  <2>1. c.interval \in IntervalDicts
    BY <1>2, RequestAssumption
  <2> QED BY <2>1 DEF IntervalDicts, Bounds, Portion, Keeps, Grid
<1>4. Feasible(cell) = LeftBy(U)
  BY <1>1, <1>3 DEF Feasible, LeftBy
<1> QED BY <1>1, <1>4 DEF U

(* What a solve reports is the reference's answer.                         *)
LEMMA SolvedIsTheIntersection ==
    ASSUME given \in Seq(EvidenceRules), solved = Solve(given, call.scope)
    PROVE  SolveIsTheIntersection
<1> SUFFICES ASSUME NEW cell \in CellsOf(given)
             PROVE  /\ cell \in solved.conflicts <=> Counting(cell) # {} /\ Feasible(cell) = {}
                    /\ cell \in DOMAIN solved.ranges <=> Counting(cell) # {} /\ Feasible(cell) # {}
                    /\ cell \in DOMAIN solved.ranges =>
                           LET r == solved.ranges[cell] IN
                           /\ \A x \in Feasible(cell) : /\ r.lower # None => 2 * r.lower <= x
                                                        /\ r.upper # None => x <= 2 * r.upper
                           /\ r.lower # None => 2 * r.lower \in Feasible(cell)
                           /\ r.upper # None => 2 * r.upper \in Feasible(cell)
  BY DEF SolveIsTheIntersection, CellsOf, CellOf
<1> DEFINE F == Feasible(cell)
           U == CountedOf(given, call.scope, cell)
           r == CellResult(given, call.scope, cell)
<1>1. Ranked(EvidenceRules)
  BY RequestAssumption DEF Ranked
<1>2. /\ Counting(cell) = {} <=> U = {}
      /\ F = LeftBy(U)
  BY FeasibleIsLeft
<1>3. /\ r.conflict <=> U # {} /\ LeftBy(U) = {}
      /\ r.interval = IF U = {} THEN {} ELSE LeftBy(U)
  BY <1>1, CellIsIntersected
<1>4. /\ cell \in solved.conflicts <=> r.conflict
      /\ cell \in DOMAIN solved.ranges <=> ~r.conflict /\ r.interval # {}
      /\ cell \in DOMAIN solved.ranges => solved.ranges[cell] = ReportRange(r)
  BY SolveByCell
<1>5. F \in SUBSET Grid
  BY DEF Feasible
<1> HIDE DEF F, U, r
<1>6. /\ cell \in solved.conflicts <=> Counting(cell) # {} /\ F = {}
      /\ cell \in DOMAIN solved.ranges <=> Counting(cell) # {} /\ F # {}
      /\ cell \in DOMAIN solved.ranges => r.interval = F
  BY <1>2, <1>3, <1>4
<1>7. ASSUME cell \in DOMAIN solved.ranges, NEW lower, lower = solved.ranges[cell].lower,
             NEW upper, upper = solved.ranges[cell].upper
      PROVE  /\ \A x \in F : (lower # None => 2 * lower <= x) /\ (upper # None => x <= 2 * upper)
             /\ lower # None => 2 * lower \in F
             /\ upper # None => 2 * upper \in F
  <2>1. lower = End(Least(F)) /\ upper = End(Greatest(F)) /\ F # {}
    BY <1>4, <1>6, <1>7 DEF ReportRange
  <2>2. /\ Least(F) \in F /\ \A h \in F : Least(F) <= h
        /\ Greatest(F) \in F /\ \A h \in F : h <= Greatest(F)
    BY <1>5, <2>1, Extremes
  <2>3. Least(F) \in Int /\ Greatest(F) \in Int
    BY <1>5, <2>2, GridIsInt
  <2>4. (lower # None => 2 * lower = Least(F)) /\ (upper # None => 2 * upper = Greatest(F))
    BY <2>1, <2>3, EndIsAPoint
  <2> QED BY <2>2, <2>4
<1> QED BY <1>6, <1>7 DEF F
-----------------------------------------------------------------------------
(* The constraints of a request of /v1/calculate, as V2.                   *)
Converted == [k \in DOMAIN given |-> EnsureV2(given[k])]

V2Rules == {EnsureV2(c) : c \in DirectRules}

(* The conversion to V2 keeps what a rule allows.                          *)
LEMMA ConversionKeeps ==
    ASSUME NEW c \in DirectRules
    PROVE  /\ EnsureV2(c).param = c.param /\ EnsureV2(c).level = c.level /\ EnsureV2(c).conf = c.conf
           /\ EnsureV2(c).interval # None
           /\ LeftBy({EnsureV2(c)}) = Allowed(c)
<1>1. /\ c.op \in {"==", "<=", ">=", "<", ">", "range"} /\ c.value \in Int /\ c.upper \in Int
      /\ EnsureV2(c).interval # None /\ None \notin Int
  BY RequestAssumption
<1> DEFINE lo == NormalizeTemperature(c.value, c.unit)
           hi == NormalizeTemperature(c.upper, c.unit)
<1>2. lo \in Int /\ hi \in Int
  BY <1>1, SolverAssumption DEF NormalizeTemperature
<1> HIDE DEF lo, hi
<1>3. EnsureV2(c).interval = [lower |-> IF c.op \in {"==", ">=", ">", "range"} THEN lo ELSE None,
                              upper |-> IF c.op = "range" THEN hi
                                        ELSE IF c.op \in {"==", "<=", "<"} THEN lo ELSE None,
                              lowerInc |-> c.op # ">", upperInc |-> c.op # "<"]
  BY DEF EnsureV2, lo, hi
<1>4. Allowed(c) = {x \in Grid : CASE c.op = "==" -> x = 2 * lo
                                   [] c.op = "<=" -> x <= 2 * lo
                                   [] c.op = ">=" -> x >= 2 * lo
                                   [] c.op = "<" -> x < 2 * lo
                                   [] c.op = ">" -> x > 2 * lo
                                   [] c.op = "range" -> 2 * lo <= x /\ x <= 2 * hi}
  BY DEF Allowed, lo, hi
<1>5. ASSUME NEW x \in Grid
      PROVE  x \in Portion(EnsureV2(c).interval) <=> x \in Allowed(c)
  <2>1. x \in Int
    BY GridIsInt
  <2> DEFINE i == EnsureV2(c).interval
  <2>2. /\ i.lower = IF c.op \in {"==", ">=", ">", "range"} THEN lo ELSE None
        /\ i.upper = IF c.op = "range" THEN hi ELSE IF c.op \in {"==", "<=", "<"} THEN lo ELSE None
        /\ i.lowerInc = (c.op # ">") /\ i.upperInc = (c.op # "<")
    BY <1>3
  <2>3. x \in Portion(i) <=>
           /\ i.lower = None \/ IF i.lowerInc THEN x >= 2 * i.lower ELSE x > 2 * i.lower
           /\ i.upper = None \/ IF i.upperInc THEN x <= 2 * i.upper ELSE x < 2 * i.upper
    BY DEF Portion
  <2> HIDE DEF i
  <2>4. lo # None /\ hi # None
    BY <1>1, <1>2
  <2>5. x \in Portion(i) <=> x \in Allowed(c)
    <3>1. CASE c.op = "=="
      <4>1. i.lower = lo /\ i.upper = lo /\ i.lowerInc /\ i.upperInc
        BY <2>2, <3>1
      <4>2. x \in Allowed(c) <=> x = 2 * lo
        BY <1>4, <3>1
      <4>3. x \in Portion(i) <=> x >= 2 * lo /\ x <= 2 * lo
        BY <2>3, <2>4, <4>1
      <4> QED BY <1>2, <2>1, <4>2, <4>3
    <3>2. CASE c.op = "<="
      BY <1>2, <1>4, <2>1, <2>2, <2>3, <2>4, <3>2
    <3>3. CASE c.op = ">="
      BY <1>2, <1>4, <2>1, <2>2, <2>3, <2>4, <3>3
    <3>4. CASE c.op = "<"
      BY <1>2, <1>4, <2>1, <2>2, <2>3, <2>4, <3>4
    <3>5. CASE c.op = ">"
      BY <1>2, <1>4, <2>1, <2>2, <2>3, <2>4, <3>5
    <3>6. CASE c.op = "range"
      BY <1>2, <1>4, <2>1, <2>2, <2>3, <2>4, <3>6
    <3> QED BY <1>1, <3>1, <3>2, <3>3, <3>4, <3>5, <3>6
  <2> QED BY <2>5 DEF i
<1>6. LeftBy({EnsureV2(c)}) = Allowed(c)
  <2>1. Allowed(c) \subseteq Grid
    BY <1>4
  <2> QED BY <1>5, <2>1 DEF LeftBy
<1> QED BY <1>1, <1>6 DEF EnsureV2

(* The converted constraints are as many, in the same order.               *)
LEMMA ConvertedRules ==
    ASSUME given \in Seq(DirectRules)
    PROVE  /\ Converted \in Seq(V2Rules) /\ DOMAIN Converted = DOMAIN given /\ Ranked(V2Rules)
           /\ \A k \in DOMAIN given : Converted[k] = EnsureV2(given[k]) /\ given[k] \in DirectRules
<1>1. \A c \in DirectRules : c.level \in Nat /\ c.conf \in Nat
  BY RequestAssumption
<1>2. Ranked(V2Rules)
  <2> SUFFICES ASSUME NEW c \in DirectRules PROVE EnsureV2(c).level \in Int /\ EnsureV2(c).conf \in Int
    BY DEF Ranked, V2Rules
  <2>1. EnsureV2(c).level = c.level /\ EnsureV2(c).conf = c.conf
    BY ConversionKeeps
  <2> QED BY <1>1, <2>1
<1>3. \A k \in DOMAIN given : given[k] \in DirectRules /\ EnsureV2(given[k]) \in V2Rules
  BY DEF V2Rules
<1>4. DOMAIN given = 1 .. Len(given) /\ Len(given) \in Nat
  OBVIOUS
<1> QED BY <1>2, <1>3, <1>4 DEF Converted

(* The values of p that the constraints of the request below a level, or   *)
(* all of them, allow together.                                            *)
AllowedUnder(p, soft) ==
    {x \in Grid : \A k \in DOMAIN given :
        given[k].param = p /\ (soft => given[k].level < HardLevel) => x \in Allowed(given[k])}

(* Of the constraints of a request, those of a parameter in a set of them. *)
LEMMA ParameterIntersected ==
    ASSUME given \in Seq(DirectRules), NEW cs \in Seq(V2Rules), NEW soft \in BOOLEAN,
           Range(cs) = {c \in Range(Converted) : soft => c.level < HardLevel},
           NEW p \in ParamsOf(cs), NEW r, r = ByParameter(cs)[p]
    PROVE  /\ r.interval = AllowedUnder(p, soft)
           /\ r.conflict <=> r.interval = {}
           /\ "conflict" \in DOMAIN r /\ "interval" \in DOMAIN r
<1> DEFINE S == {c \in Range(cs) : c.param = p}
           sub == Selected(cs, S)
           V == CountedIn(sub, None)
<1>1. r = SolveParameter(sub, None)
  BY DEF ByParameter
<1>2. IsSelection(sub, cs, S, V2Rules)
  BY SelectedFacts
<1> HIDE DEF sub, S
<1>3. sub \in Seq(V2Rules) /\ Range(sub) = S
  <2>1. /\ sub \in Seq(V2Rules) /\ \A k \in 1 .. Len(sub) : sub[k] \in S
        /\ \A i \in 1 .. Len(cs) : cs[i] \in S => \E k \in 1 .. Len(sub) : sub[k] = cs[i]
    BY <1>2 DEF IsSelection
  <2>2. \A c \in S : \E i \in 1 .. Len(cs) : cs[i] = c
    BY DEF Range, S
  <2>3. \A c \in S : \E k \in 1 .. Len(sub) : sub[k] = c
    BY <2>1, <2>2
  <2> QED BY <2>1, <2>3 DEF Range
<1>4. /\ \A c \in Range(cs) : \E k \in DOMAIN given :
            c = EnsureV2(given[k]) /\ (soft => given[k].level < HardLevel)
      /\ \A k \in DOMAIN given : (soft => given[k].level < HardLevel) => EnsureV2(given[k]) \in Range(cs)
      /\ \A k \in DOMAIN given : given[k] \in DirectRules
  <2>1. /\ DOMAIN Converted = DOMAIN given
        /\ \A k \in DOMAIN given : Converted[k] = EnsureV2(given[k]) /\ given[k] \in DirectRules
    BY ConvertedRules
  <2>2. \A k \in DOMAIN given : EnsureV2(given[k]).level = given[k].level
    BY <2>1, ConversionKeeps
  <2>3. Range(Converted) = {EnsureV2(given[k]) : k \in DOMAIN given}
    BY <2>1 DEF Range
  <2>4. \A k \in DOMAIN given : EnsureV2(given[k]) \in Range(Converted)
    BY <2>3
  <2>5. \A c \in Range(Converted) : \E k \in DOMAIN given : c = EnsureV2(given[k])
    BY <2>3
  <2>6. /\ \A c \in Range(cs) : c \in Range(Converted) /\ (soft => c.level < HardLevel)
        /\ \A c \in Range(Converted) : (soft => c.level < HardLevel) => c \in Range(cs)
    OBVIOUS
  <2>7. ASSUME NEW c \in Range(cs)
        PROVE  \E k \in DOMAIN given : c = EnsureV2(given[k]) /\ (soft => given[k].level < HardLevel)
    <3>1. PICK k \in DOMAIN given : c = EnsureV2(given[k])
      BY <2>5, <2>6
    <3> QED BY <2>2, <2>6, <3>1
  <2>8. ASSUME NEW k \in DOMAIN given, soft => given[k].level < HardLevel
        PROVE  EnsureV2(given[k]) \in Range(cs)
    <3>1. soft => EnsureV2(given[k]).level < HardLevel
      BY <2>2, <2>8
    <3> QED BY <2>4, <2>6, <3>1
  <2> QED BY <2>1, <2>7, <2>8
<1>5. \A c \in Range(cs) : c.interval # None
  BY <1>4, ConversionKeeps
<1>6. V = S
  BY <1>3, <1>5 DEF CountedIn, Applies, S
<1>7. S # {}
  BY DEF ParamsOf, Range, S
<1>8. Ranked(V2Rules)
  BY ConvertedRules
<1>9. IsIntersection(r, V)
  BY <1>1, <1>3, <1>8, SolveParameterIntersects
<1>10. LeftBy(S) = AllowedUnder(p, soft)
  <2>1. /\ \A c \in S : \E k \in DOMAIN given :
             /\ given[k].param = p /\ (soft => given[k].level < HardLevel)
             /\ LeftBy({c}) = Allowed(given[k])
        /\ \A k \in DOMAIN given : given[k].param = p /\ (soft => given[k].level < HardLevel) =>
             \E c \in S : LeftBy({c}) = Allowed(given[k])
    <3>1. \A k \in DOMAIN given : /\ EnsureV2(given[k]).param = given[k].param
                                   /\ LeftBy({EnsureV2(given[k])}) = Allowed(given[k])
      BY <1>4, ConversionKeeps
    <3>2. ASSUME NEW c \in S
          PROVE  \E k \in DOMAIN given : /\ given[k].param = p /\ (soft => given[k].level < HardLevel)
                                          /\ LeftBy({c}) = Allowed(given[k])
      <4>1. c \in Range(cs) /\ c.param = p
        BY DEF S
      <4>2. PICK k \in DOMAIN given : c = EnsureV2(given[k]) /\ (soft => given[k].level < HardLevel)
        BY <1>4, <4>1
      <4> QED BY <3>1, <4>1, <4>2
    <3>3. ASSUME NEW k \in DOMAIN given, given[k].param = p, soft => given[k].level < HardLevel
          PROVE  \E c \in S : LeftBy({c}) = Allowed(given[k])
      <4>1. EnsureV2(given[k]) \in S
        BY <1>4, <3>1, <3>3 DEF S
      <4> QED BY <3>1, <4>1
    <3> QED BY <3>2, <3>3
  <2>2. \A c, x : x \in LeftBy({c}) <=> x \in Grid /\ x \in Portion(c.interval)
    BY DEF LeftBy
  <2> QED BY <2>1, <2>2 DEF LeftBy, AllowedUnder
<1> HIDE DEF V
<1> QED BY <1>6, <1>7, <1>9, <1>10 DEF IsIntersection

(* What a calculation reports is marked as the reference has it.           *)
LEMMA CalculatedIsMarked ==
    ASSUME given \in Seq(DirectRules), call.strict \in BOOLEAN, call.soft \in BOOLEAN,
           fallback = SolveWithFallback(Converted, call.soft, call.strict)
    PROVE  FallbackIsMarked
<1> DEFINE cs == Converted
           soft == Soft(cs)
           all == ByParameter(cs)
<1>1. cs \in Seq(V2Rules) /\ Range(cs) = {c \in Range(Converted) : FALSE => c.level < HardLevel}
  BY ConvertedRules
<1>2. soft \in Seq(V2Rules) /\ Range(soft) = {c \in Range(Converted) : TRUE => c.level < HardLevel}
  <2> DEFINE S == {c \in Range(cs) : c.level < HardLevel}
  <2>1. IsSelection(soft, cs, S, V2Rules)
    BY <1>1, SelectedFacts DEF Soft
  <2> HIDE DEF soft, cs, S
  <2>2. /\ soft \in Seq(V2Rules) /\ \A k \in 1 .. Len(soft) : soft[k] \in S
        /\ \A i \in 1 .. Len(cs) : cs[i] \in S => \E k \in 1 .. Len(soft) : soft[k] = cs[i]
    BY <2>1 DEF IsSelection
  <2>3. \A c \in S : \E i \in 1 .. Len(cs) : cs[i] = c
    BY <1>1 DEF Range, S
  <2>4. \A c \in S : \E k \in 1 .. Len(soft) : soft[k] = c
    BY <2>2, <2>3
  <2>5. Range(soft) = S
    BY <2>2, <2>4 DEF Range
  <2> QED BY <2>2, <2>5 DEF S, cs
<1>3. DOMAIN all = ParamsOf(cs) /\ DOMAIN ByParameter(soft) = ParamsOf(soft)
  BY DEF ByParameter
<1>4. \A p \in ParamsOf(cs) : all[p].interval = AllowedUnder(p, FALSE) /\ (all[p].conflict <=> all[p].interval = {})
  <2> HIDE DEF cs
  <2> QED BY <1>1, ParameterIntersected
<1>5. \A p \in ParamsOf(soft) : "conflict" \in DOMAIN ByParameter(soft)[p]
  <2> HIDE DEF soft
  <2> QED BY ZenonT(60), <1>2, ParameterIntersected
<1>10. /\ ParamsOf(cs) = ParamsOf(given)
       /\ \A p : AllowedBy(p) = AllowedUnder(p, FALSE)
       /\ Contradictory <=> \E p \in DOMAIN all : all[p].interval = {}
  <2>1. \A p : AllowedBy(p) = AllowedUnder(p, FALSE)
    BY DEF AllowedBy, AllowedUnder
  <2>2. DOMAIN cs = DOMAIN given /\ \A k \in DOMAIN given : cs[k].param = given[k].param
    BY ConvertedRules, ConversionKeeps
  <2>3. ParamsOf(cs) = ParamsOf(given)
    BY <2>2 DEF ParamsOf
  <2> HIDE DEF cs, all
  <2> QED BY <1>3, <1>4, <2>1, <2>3 DEF Contradictory
<1> HIDE DEF cs, soft, all
<1>6. CASE (\A p \in DOMAIN all : all[p].interval # {}) /\ fallback = [kind |-> "all", results |-> all]
  <2>1. fallback.results = all
    BY <1>6
  <2> QED BY <1>3, <1>4, <1>6, <1>10, <2>1 DEF FallbackIsMarked
<1>7. CASE Contradictory /\ fallback = [kind |-> "refused", results |-> <<>>]
  <2>1. fallback.results = <<>> /\ DOMAIN fallback.results = {}
    BY <1>7
  <2> QED BY <1>7, <2>1 DEF FallbackIsMarked
<1>8. CASE Contradictory /\ ~call.strict /\ fallback = [kind |-> "soft", results |-> SoftResults(cs)]
  <2>1. fallback.results = [p \in ParamsOf(soft) |-> [ByParameter(soft)[p] EXCEPT !.conflict = TRUE]]
    BY <1>8 DEF SoftResults, soft
  <2>2. ASSUME NEW p \in DOMAIN fallback.results
        PROVE  fallback.results[p].conflict
    BY <1>5, <2>1
  <2> QED BY <1>8, <2>2 DEF FallbackIsMarked
<1>9. CASE Contradictory /\ ~call.strict /\ fallback = [kind |-> "all", results |-> all]
  <2>1. fallback.results = all
    BY <1>9
  <2> QED BY <1>3, <1>4, <1>9, <1>10, <2>1 DEF FallbackIsMarked
<1> QED BY <1>6, <1>7, <1>8, <1>9, <1>10 DEF SolveWithFallback, all, cs, soft
-----------------------------------------------------------------------------
(* What was answered is what the request asked for.                        *)
SolverInv ==
    /\ call.route = "collect" => given \in Seq(EvidenceRules) \cup Seq(DirectRules) /\ call = NoCall
    /\ call.route = "solve" => given \in Seq(EvidenceRules) /\ solved = Solve(given, call.scope)
    /\ call.route = "calculate" =>
          /\ given \in Seq(DirectRules)
          /\ call.soft \in BOOLEAN /\ call.strict \in BOOLEAN
          /\ fallback = SolveWithFallback(Converted, call.soft, call.strict)

(* A request is made of constraints of one kind.                           *)
LEMMA OneKind ==
    ASSUME NEW A, NEW B, A \cap B = {}, given \in Seq(A) \cup Seq(B), given # <<>>, given[1] \in A
    PROVE  given \in Seq(A)
<1>1. given \in Seq(B) => given[1] \in B
  OBVIOUS
<1> QED BY <1>1

(* Every step of a request keeps the invariant.                            *)
LEMMA SolverStep == SolverInv /\ [SolverNext]_solverVars => SolverInv'
<1> SUFFICES ASSUME SolverInv, [SolverNext]_solverVars PROVE SolverInv'
  OBVIOUS
<1>1. ASSUME GiveRule PROVE SolverInv'
  <2>0. PICK rules \in {EvidenceRules, DirectRules} : \E c \in rules :
           (\A k \in DOMAIN given : given[k] \in rules) /\ given' = Append(given, c)
    BY <1>1 DEF GiveRule
  <2>1. PICK c \in rules : (\A k \in DOMAIN given : given[k] \in rules) /\ given' = Append(given, c)
    BY <2>0
  <2>2. given \in Seq(EvidenceRules) \cup Seq(DirectRules) /\ call' = NoCall
    BY <1>1 DEF GiveRule, SolverInv, NoCall
  <2>3. given \in Seq(rules)
    BY <2>1, <2>2
  <2>4. given' \in Seq(rules)
    BY <2>1, <2>3
  <2> QED BY <2>1, <2>2, <2>4 DEF SolverInv, NoCall
<1>2. ASSUME CallSolve PROVE SolverInv'
  <2>1. PICK scope \in ActiveScopes \cup {None} :
           /\ call' = [NoCall EXCEPT !.route = "solve", !.scope = scope]
           /\ solved' = Solve(given, scope)
    BY <1>2 DEF CallSolve
  <2>2. given \in Seq(EvidenceRules) \cup Seq(DirectRules) /\ given' = given /\ given # <<>>
        /\ given[1] \in EvidenceRules
    BY <1>2 DEF CallSolve, SolverInv, NoCall
  <2>3. given' \in Seq(EvidenceRules)
    BY <2>2, OneKind, RequestAssumption
  <2>4. call'.route = "solve" /\ call'.scope = scope
    BY <2>1 DEF NoCall
  <2> QED BY <2>1, <2>2, <2>3, <2>4 DEF SolverInv
<1>3. ASSUME CallCalculate PROVE SolverInv'
  <2>1. PICK strict \in BOOLEAN, soft \in BOOLEAN :
           /\ call' = [NoCall EXCEPT !.route = "calculate", !.strict = strict, !.soft = soft]
           /\ fallback' = SolveWithFallback(Converted, soft, strict)
    BY <1>3 DEF CallCalculate, Converted
  <2>2. given \in Seq(EvidenceRules) \cup Seq(DirectRules) /\ given' = given /\ given # <<>>
        /\ given[1] \in DirectRules
    BY <1>3 DEF CallCalculate, SolverInv, NoCall
  <2>3. given' \in Seq(DirectRules)
    BY <2>2, OneKind, RequestAssumption
  <2>4. call'.route = "calculate" /\ call'.strict = strict /\ call'.soft = soft
    BY <2>1 DEF NoCall
  <2>5. Converted' = Converted
    BY <2>2 DEF Converted
  <2> QED BY <2>1, <2>2, <2>3, <2>4, <2>5 DEF SolverInv
<1>4. ASSUME UNCHANGED solverVars PROVE SolverInv'
  BY <1>4 DEF solverVars, SolverInv, Converted
<1> QED BY <1>1, <1>2, <1>3, <1>4 DEF SolverNext

(* The result of a request is computed from the constraints it was given.  *)
THEOREM SolverInductive == SolverSpec => []SolverInv
<1>1. SolverInit => SolverInv
  BY DEF SolverInit, SolverInv, NoCall
<1> QED BY <1>1, SolverStep, PTL DEF SolverSpec

(* Whatever constraints are given in whatever order, what is reported for  *)
(* a branch and parameter is the intersection of those that count, and a   *)
(* conflict exactly when that is empty (solver.py:138-253, 358-451), for   *)
(* any rules and bounds.                                                   *)
THEOREM SolveIntersects == SolverSpec => []SolveIsTheIntersection
<1>1. SolverInv => SolveIsTheIntersection
  <2>1. SolverInv /\ call.route = "solve" => SolveIsTheIntersection
    BY SolvedIsTheIntersection DEF SolverInv
  <2> QED BY <2>1 DEF SolveIsTheIntersection
<1> QED BY <1>1, SolverInductive, PTL

(* A calculation answers a parameter without the conflict mark with        *)
(* exactly what all constraints on it allow; the mark and the loss of a    *)
(* parameter need a contradiction and a caller who is not strict           *)
(* (solver.py:259-335), for any rules.                                     *)
THEOREM FallbackMarked == SolverSpec => []FallbackIsMarked
<1>1. SolverInv => FallbackIsMarked
  <2>1. SolverInv /\ call.route = "calculate" => FallbackIsMarked
    BY CalculatedIsMarked DEF SolverInv
  <2> QED BY <2>1 DEF FallbackIsMarked
<1> QED BY <1>1, SolverInductive, PTL
-----------------------------------------------------------------------------
(***************************************************************************)
(* The deduplication of EvidenceKeys: of the rules with one key the first  *)
(* that none outranks stays.                                               *)
(***************************************************************************)

(* The rules that a deduplication can compare.                             *)
Comparable(T) == \A c \in T : c.level \in Int /\ c.conf \in Int

Better(c, d) == c.level > d.level \/ (c.level = d.level /\ c.conf >= d.conf)

(* Of the rules with the key of the k-th, one that none outranks.          *)
LEMMA StrongestIs ==
    ASSUME NEW T, Comparable(T), NEW cs \in Seq(T), NEW k \in 1 .. Len(cs)
    PROVE  /\ \E j \in 1 .. Len(cs) : Strongest(cs, k) = cs[j] /\ KeyOf(cs[j]) = KeyOf(cs[k])
           /\ \A j \in 1 .. Len(cs) : KeyOf(cs[j]) = KeyOf(cs[k]) => Strongest(cs, k).level >= cs[j].level
<1> DEFINE n == Len(cs)
           V == {cs[j] : j \in {i \in 1 .. n : KeyOf(cs[i]) = KeyOf(cs[k])}}
           Step(j, d) == IF KeyOf(cs[j]) = KeyOf(cs[k]) /\ Outranks(cs[j], d) THEN cs[j] ELSE d
           Bests(f) == [j \in 0 .. n |-> IF j = 0 THEN cs[k] ELSE Step(j, f[j - 1])]
           best == CHOOSE f : f = Bests(f)
           start == cs[k]
<1>1. Strongest(cs, k) = best[n]
  BY DEF Strongest
<1>2. n \in Nat /\ start \in V /\ \A j \in 1 .. n, d \in V : Step(j, d) \in V
  OBVIOUS
<1>3. \A d \in V : d.level \in Int /\ d.conf \in Int
  BY DEF Comparable
<1>4. \E f : f = Bests(f)
  <2> DEFINE G == [j \in 1 .. n |-> [d \in V |-> Step(j, d)]]
  <2>1. G \in [1 .. n -> [V -> V]] /\ \A j \in 1 .. n, d \in V : G[j][d] = Step(j, d)
    <3> HIDE DEF V, Step
    <3> QED BY <1>2
  <2> HIDE DEF G
  <2>2. PICK f : IsIteration(f, G, start, n, V)
    <3> HIDE DEF V, n, start
    <3> QED BY <1>2, <2>1, Iterates
  <2>3. f \in [0 .. n -> V] /\ f[0] = start /\ \A j \in 1 .. n : f[j] = G[j][f[j - 1]]
    BY <2>2 DEF IsIteration
  <2>4. \A j \in 1 .. n : f[j] = Step(j, f[j - 1])
    <3> TAKE j \in 1 .. n
    <3> HIDE DEF V, Step
    <3>1. f[j - 1] \in V
      BY <1>2, <2>3
    <3> QED BY <2>1, <2>3, <3>1
  <2>5. f = Bests(f)
    BY <2>3, <2>4
  <2> QED BY <2>5
<1>5. best = Bests(best)
  BY <1>4
<1> HIDE DEF best
<1>6. best[0] = start /\ \A j \in 1 .. n : best[j] = Step(j, best[j - 1])
  <2>1. 0 \in 0 .. n /\ \A j \in 1 .. n : j \in 0 .. n /\ j # 0
    BY <1>2
  <2>2. best[0] = start
    BY <1>5, <2>1
  <2>3. \A j \in 1 .. n : best[j] = Step(j, best[j - 1])
    BY <1>5, <2>1
  <2> QED BY <2>2, <2>3
<1> DEFINE Beats(d, m) == \A j \in 1 .. m : KeyOf(cs[j]) = KeyOf(cs[k]) => Better(d, cs[j])
           P == {m \in 0 .. n : best[m] \in V /\ Beats(best[m], m)}
<1>7. 0 \in P
  BY <1>2, <1>6
<1>8. ASSUME NEW m \in 1 .. n, m - 1 \in P PROVE m \in P
  <2>1. best[m - 1] \in V /\ Beats(best[m - 1], m - 1) /\ best[m] = Step(m, best[m - 1])
    BY <1>6, <1>8
  <2>2. best[m] \in V
    <3> HIDE DEF V, Step
    <3> QED BY <1>2, <2>1
  <2>3. Beats(best[m], m)
    <3> SUFFICES ASSUME NEW j \in 1 .. m, KeyOf(cs[j]) = KeyOf(cs[k]) PROVE Better(best[m], cs[j])
      OBVIOUS
    <3> DEFINE d == best[m - 1]
    <3>1. cs[j] \in V /\ j \in 1 .. n
      BY <1>2
    <3>2. cs[j].level \in Int /\ cs[j].conf \in Int /\ d.level \in Int /\ d.conf \in Int
      BY <1>3, <2>1, <3>1
    <3>3. CASE j = m
      <4>1. best[m] = IF Outranks(cs[j], d) THEN cs[j] ELSE d
        BY <2>1, <3>3
      <4> HIDE DEF V, d
      <4> QED BY <3>2, <4>1 DEF Outranks, Better
    <3>4. CASE j \in 1 .. m - 1
      <4>1. Better(d, cs[j])
        BY <2>1, <3>4
      <4>2. CASE best[m] = d
        BY <4>1, <4>2
      <4>3. CASE best[m] = cs[m] /\ Outranks(cs[m], d) /\ KeyOf(cs[m]) = KeyOf(cs[k])
        <5>1. cs[m] \in V /\ cs[m].level \in Int /\ cs[m].conf \in Int
          BY <1>3, <4>3
        <5> HIDE DEF V, d
        <5> QED BY <3>2, <4>1, <4>3, <5>1 DEF Outranks, Better
      <4> QED BY <2>1, <4>2, <4>3
    <3> QED BY <1>2, <3>3, <3>4
  <2> QED BY <2>2, <2>3
<1>9. n \in P
  <2> HIDE DEF P
  <2>1. \A m \in 0 .. n : m \in P
    BY <1>2, <1>7, <1>8, Induction
  <2> QED BY <1>2, <2>1
<1>10. best[n] \in V /\ Beats(best[n], n)
  BY <1>9
<1>11. ASSUME NEW j \in 1 .. n, KeyOf(cs[j]) = KeyOf(cs[k]) PROVE best[n].level >= cs[j].level
  <2>1. Better(best[n], cs[j]) /\ cs[j] \in V
    BY <1>10, <1>11
  <2> HIDE DEF V
  <2> QED BY <1>3, <1>10, <2>1 DEF Better
<1> QED BY <1>1, <1>10, <1>11

(* One rule of each key, the strongest.                                    *)
IsDeduplication(q, cs, T) ==
    /\ q \in Seq(T)
    /\ \A e \in 1 .. Len(q) : \E i \in 1 .. Len(cs) : q[e] = cs[i]
    /\ \A i \in 1 .. Len(cs) : \E e \in 1 .. Len(q) : KeyOf(q[e]) = KeyOf(cs[i])
    /\ \A i \in 1 .. Len(cs), e \in 1 .. Len(q) : KeyOf(q[e]) = KeyOf(cs[i]) => q[e].level >= cs[i].level
    /\ \A d, e \in 1 .. Len(q) : KeyOf(q[d]) = KeyOf(q[e]) => d = e

(* The evidence has for each key of the constraints one of them, none      *)
(* stronger.                                                               *)
LEMMA DeduplicatedFacts ==
    ASSUME NEW T, Comparable(T), NEW cs \in Seq(T)
    PROVE  IsDeduplication(Deduplicated(cs), cs, T)
<1> DEFINE n == Len(cs)
           idx == [k \in DOMAIN cs |-> k]
           first == Selected(idx, FirstsOf(cs))
           q == Deduplicated(cs)
<1>1. n \in Nat /\ DOMAIN cs = 1 .. n /\ \A k \in 1 .. n : cs[k] \in T
  OBVIOUS
<1>2. idx \in Seq(1 .. n) /\ Len(idx) = n /\ \A k \in 1 .. n : idx[k] = k
  BY <1>1
<1>3. q = [m \in DOMAIN first |-> Strongest(cs, first[m])]
  BY DEF Deduplicated
<1> HIDE DEF q, idx
<1>4. /\ first \in Seq(1 .. n)
      /\ \A m \in 1 .. Len(first) : first[m] \in FirstsOf(cs)
      /\ \A k \in 1 .. n : k \in FirstsOf(cs) => \E m \in 1 .. Len(first) : first[m] = k
      /\ \A l, m \in 1 .. Len(first) : first[l] = first[m] => l = m
  <2>1. IsSelection(first, idx, FirstsOf(cs), 1 .. n)
    BY <1>2, SelectedFacts
  <2> HIDE DEF first
  <2> QED BY <1>2, <2>1 DEF IsSelection
<1> HIDE DEF first
<1>5. /\ DOMAIN q = 1 .. Len(first) /\ Len(first) \in Nat
      /\ \A m \in 1 .. Len(first) : q[m] = Strongest(cs, first[m]) /\ first[m] \in 1 .. n
  <2>1. DOMAIN first = 1 .. Len(first) /\ Len(first) \in Nat /\ \A m \in 1 .. Len(first) : first[m] \in 1 .. n
    BY <1>4
  <2> QED BY <1>3, <2>1
<1>6. ASSUME NEW m \in 1 .. Len(first)
      PROVE  /\ q[m] \in T /\ KeyOf(q[m]) = KeyOf(cs[first[m]])
             /\ \E i \in 1 .. n : q[m] = cs[i]
             /\ \A i \in 1 .. n : KeyOf(cs[i]) = KeyOf(q[m]) => q[m].level >= cs[i].level
  <2> DEFINE k == first[m]
  <2>1. k \in 1 .. n /\ q[m] = Strongest(cs, k)
    BY <1>5
  <2> HIDE DEF k, n
  <2>2. PICK j \in 1 .. n : Strongest(cs, k) = cs[j] /\ KeyOf(cs[j]) = KeyOf(cs[k])
    BY <2>1, StrongestIs DEF n
  <2>3. \A j_1 \in 1 .. n : KeyOf(cs[j_1]) = KeyOf(cs[k]) => Strongest(cs, k).level >= cs[j_1].level
    BY <2>1, StrongestIs DEF n
  <2> QED BY <1>1, <2>1, <2>2, <2>3 DEF k
<1>7. q \in Seq(T) /\ Len(q) = Len(first)
  <2>1. q \in [1 .. Len(first) -> T]
    BY <1>3, <1>5, <1>6
  <2> QED BY <1>5, <2>1
<1>8. ASSUME NEW i \in 1 .. n PROVE \E m \in 1 .. Len(first) : KeyOf(q[m]) = KeyOf(cs[i])
  <2> DEFINE same == {j \in 1 .. n : KeyOf(cs[j]) = KeyOf(cs[i])}
  <2>1. same \in SUBSET Nat /\ i \in same
    BY <1>1
  <2>2. PICK k \in same : \A j \in same : k <= j
    <3> HIDE DEF same
    <3> QED BY <2>1, LeastNumber
  <2>3. k \in 1 .. n /\ \A j \in 1 .. k - 1 : KeyOf(cs[j]) # KeyOf(cs[k])
    BY <1>1, <2>2
  <2>4. k \in FirstsOf(cs)
    BY <1>1, <2>3 DEF FirstsOf
  <2>5. PICK m \in 1 .. Len(first) : first[m] = k
    BY <1>4, <2>3, <2>4
  <2> QED BY <1>6, <2>2, <2>5
<1>9. ASSUME NEW d \in 1 .. Len(first), NEW e \in 1 .. Len(first), KeyOf(q[d]) = KeyOf(q[e])
      PROVE  d = e
  <2> DEFINE j == first[d] k == first[e]
  <2>1. /\ j \in 1 .. n /\ k \in 1 .. n /\ KeyOf(cs[j]) = KeyOf(cs[k])
        /\ j \in FirstsOf(cs) /\ k \in FirstsOf(cs)
    BY <1>4, <1>5, <1>6, <1>9
  <2>2. j = k
    <3> HIDE DEF j, k
    <3> QED BY <1>1, <2>1 DEF FirstsOf
  <2> QED BY <1>4, <2>2
<1> QED BY <1>6, <1>7, <1>8, <1>9 DEF IsDeduplication, q
-----------------------------------------------------------------------------
(***************************************************************************)
(* EvidenceBuilder: each interval is made of one hint of the text, and the *)
(* evidence of several chunks is the deduplication of their constraints,   *)
(* for any text over any tokens.                                           *)
(***************************************************************************)

(* Positions of a sequence, in order.                                      *)
LEMMA PositionsSelected ==
    ASSUME NEW n \in Nat, NEW S
    PROVE  Selected([k \in 1 .. n |-> k], S) \in Seq(1 .. n \cap S)
<1> DEFINE idx == [k \in 1 .. n |-> k]
<1>1. idx \in Seq(1 .. n)
  OBVIOUS
<1> HIDE DEF idx
<1>2. IsSelection(Selected(idx, S), idx, S, 1 .. n)
  BY <1>1, SelectedFacts
<1> DEFINE q == Selected(idx, S)
<1>3. q \in Seq(1 .. n) /\ \A k \in 1 .. Len(q) : q[k] \in S
  BY <1>2 DEF IsSelection
<1> HIDE DEF q
<1>4. q \in Seq(1 .. n \cap S)
  BY <1>3
<1> QED BY <1>4 DEF idx, q

HintsOf(txt) == {Hint(txt, pos) : pos \in {k \in DOMAIN txt : IsHint(txt[k])}}

(* The hints of a text are a sequence of hints.                            *)
LEMMA HintsAreASequence ==
    ASSUME NEW T, NEW txt \in Seq(T)
    PROVE  Hints(txt) \in Seq(HintsOf(txt))
<1> DEFINE H == HintsOf(txt)
           places(c) == {k \in DOMAIN txt : IsHint(txt[k]) /\ txt[k].category = Categories[c]}
           at(c) == Selected([k \in DOMAIN txt |-> k], places(c))
           inOrder(c) == [k \in DOMAIN at(c) |-> Hint(txt, at(c)[k])]
           ss == [c \in DOMAIN Categories |-> inOrder(c)]
<1>1. Hints(txt) = FlattenSeq(ss)
  BY DEF Hints
<1>2. ASSUME NEW c \in DOMAIN Categories PROVE inOrder(c) \in Seq(H)
  <2> DEFINE q == at(c)
  <2>1. DOMAIN txt = 1 .. Len(txt) /\ Len(txt) \in Nat
    OBVIOUS
  <2>2. q \in Seq(1 .. Len(txt) \cap places(c))
    <3> HIDE DEF places
    <3> QED BY <2>1, PositionsSelected
  <2>3. inOrder(c) = [k \in DOMAIN q |-> Hint(txt, q[k])]
    OBVIOUS
  <2> HIDE DEF q, inOrder
  <2>4. /\ DOMAIN q = 1 .. Len(q) /\ Len(q) \in Nat
        /\ \A k \in 1 .. Len(q) : q[k] \in DOMAIN txt /\ IsHint(txt[q[k]])
    BY <2>1, <2>2
  <2>5. \A k \in 1 .. Len(q) : Hint(txt, q[k]) \in H
    BY <2>4 DEF HintsOf
  <2> HIDE DEF H
  <2>6. [k \in 1 .. Len(q) |-> Hint(txt, q[k])] \in Seq(H)
    BY <2>4, <2>5
  <2> QED BY <2>3, <2>4, <2>6
<1> HIDE DEF inOrder, H
<1>3. ss \in Seq(Seq(H))
  <2>1. Categories \in Seq(STRING)
    BY EvidenceAssumption
  <2>2. DOMAIN Categories = 1 .. Len(Categories) /\ Len(Categories) \in Nat
    BY <2>1
  <2>3. ss \in [1 .. Len(Categories) -> Seq(H)]
    BY <1>2, <2>2
  <2> QED BY <2>2, <2>3
<1> HIDE DEF ss
<1>4. IsFlattening(FlattenSeq(ss), ss, H)
  BY <1>3, FlattenFacts
<1> QED BY <1>1, <1>4 DEF IsFlattening, H

(* What parse_interval keeps of each hint.                                 *)
EntryOf(txt, h) == [param |-> h.param, unit |-> BaseUnit[h.unit], interval |-> IntervalOf(txt, h)]

Entries(txt) == {EntryOf(txt, h) : h \in {g \in ToSet(Hints(txt)) : IntervalOf(txt, g) # None}}

(* A hint adds its own interval at the end, or nothing.                    *)
LEMMA IntervalAdded ==
    ASSUME NEW txt, NEW found \in Seq(Entries(txt)), NEW h \in ToSet(Hints(txt))
    PROVE  \/ AddInterval(txt, found, h) = found
           \/ AddInterval(txt, found, h) = Append(found, EntryOf(txt, h)) /\ EntryOf(txt, h) \in Entries(txt)
BY DEF AddInterval, AddOnce, EntryOf, Entries

(* Each interval is that of a hint, and as many intervals as hints means   *)
(* that each hint has its own.                                             *)
IsParse(all, txt) ==
    /\ all \in Seq(Entries(txt))
    /\ Len(all) <= Len(Hints(txt))
    /\ Len(all) = Len(Hints(txt)) =>
           \A k \in 1 .. Len(all) : all[k].interval = IntervalOf(txt, Hints(txt)[k])

(* What the parser returns is made of the hints of the text.               *)
LEMMA ParsedIntervals ==
    ASSUME NEW T, NEW txt \in Seq(T)
    PROVE  \E all : IsParse(all, txt) /\ ParseIntervals(txt) = [k \in DOMAIN all |-> all[k].interval]
<1> DEFINE hints == Hints(txt)
           n == Len(hints)
           V == Seq(Entries(txt))
           Step(k, q) == AddInterval(txt, q, hints[k])
           Founds(f) == [k \in 0 .. n |-> IF k = 0 THEN <<>> ELSE Step(k, f[k - 1])]
           found == CHOOSE f : f = Founds(f)
           all == found[n]
<1>1. ParseIntervals(txt) = [k \in DOMAIN all |-> all[k].interval]
  BY DEF ParseIntervals
<1>2. hints \in Seq(HintsOf(txt))
  BY HintsAreASequence
<1> HIDE DEF hints
<1>3. n \in Nat /\ \A k \in 1 .. n : hints[k] \in ToSet(hints)
  BY <1>2 DEF ToSet
<1> HIDE DEF n
<1>4. ASSUME NEW k \in 1 .. n, NEW q \in V
      PROVE  Step(k, q) = q \/ (Step(k, q) = Append(q, EntryOf(txt, hints[k])) /\ EntryOf(txt, hints[k]) \in Entries(txt))
  BY <1>3, IntervalAdded DEF hints
<1>5. \A k \in 1 .. n, q \in V : Step(k, q) \in V
  <2> TAKE k \in 1 .. n, q \in V
  <2> HIDE DEF Step
  <2> QED BY <1>4
<1> HIDE DEF Step
<1>6. \E f : f = Founds(f)
  <2> DEFINE G == [k \in 1 .. n |-> [q \in V |-> Step(k, q)]]
  <2>1. G \in [1 .. n -> [V -> V]] /\ \A k \in 1 .. n, q \in V : G[k][q] = Step(k, q)
    <3> HIDE DEF V
    <3> QED BY <1>5
  <2> HIDE DEF G
  <2>2. <<>> \in V
    OBVIOUS
  <2>3. PICK f : IsIteration(f, G, <<>>, n, V)
    <3> HIDE DEF V
    <3> QED BY <1>3, <2>1, <2>2, Iterates
  <2>4. f \in [0 .. n -> V] /\ f[0] = <<>> /\ \A k \in 1 .. n : f[k] = G[k][f[k - 1]]
    BY <2>3 DEF IsIteration
  <2>5. \A k \in 1 .. n : f[k] = Step(k, f[k - 1])
    <3> TAKE k \in 1 .. n
    <3> HIDE DEF V
    <3>1. f[k - 1] \in V
      BY <1>3, <2>4
    <3> QED BY <2>1, <2>4, <3>1
  <2>6. f = Founds(f)
    BY <2>4, <2>5
  <2> QED BY <2>6
<1>7. found = Founds(found)
  BY <1>6
<1> HIDE DEF found
<1>8. found[0] = <<>> /\ \A k \in 1 .. n : found[k] = Step(k, found[k - 1])
  <2>1. 0 \in 0 .. n /\ \A k \in 1 .. n : k \in 0 .. n /\ k # 0
    BY <1>3
  <2> QED BY <1>7, <2>1
<1> DEFINE Holds(q, k) == /\ q \in V /\ Len(q) <= k
                          /\ Len(q) = k => \A j \in 1 .. k : q[j].interval = IntervalOf(txt, hints[j])
           P == {k \in 0 .. n : Holds(found[k], k)}
<1>9. 0 \in P
  <2> DEFINE q == found[0]
  <2>1. q = <<>> /\ q \in V /\ Len(q) = 0
    BY <1>8
  <2> HIDE DEF q, V
  <2>2. Holds(q, 0)
    BY <2>1
  <2> HIDE DEF Holds
  <2> QED BY <1>3, <2>2 DEF q
<1>10. ASSUME NEW k \in 1 .. n, k - 1 \in P PROVE k \in P
  <2> DEFINE p == found[k - 1]
             q == found[k]
             e == EntryOf(txt, hints[k])
  <2>1. Holds(p, k - 1) /\ q = Step(k, p) /\ k \in Nat
    BY <1>3, <1>8, <1>10
  <2>2. q = p \/ (q = Append(p, e) /\ e \in Entries(txt))
    BY <1>4, <2>1
  <2>3. e.interval = IntervalOf(txt, hints[k])
    BY DEF EntryOf
  <2> HIDE DEF p, q, e
  <2>4. Len(p) \in Nat /\ Len(p) <= k - 1
    BY <2>1
  <2>5. ASSUME q = p PROVE Holds(q, k)
    BY <2>1, <2>4, <2>5
  <2>6. ASSUME q = Append(p, e), e \in Entries(txt) PROVE Holds(q, k)
    <3>1. /\ q \in V /\ Len(q) = Len(p) + 1 /\ q[Len(p) + 1] = e
          /\ \A j \in 1 .. Len(p) : q[j] = p[j]
      BY <2>1, <2>6
    <3>2. Len(p) = k - 1 => \A j \in 1 .. k - 1 : p[j].interval = IntervalOf(txt, hints[j])
      BY <2>1
    <3> HIDE DEF V
    <3>3. ASSUME Len(q) = k, NEW j \in 1 .. k PROVE q[j].interval = IntervalOf(txt, hints[j])
      <4>1. Len(p) = k - 1
        BY <2>1, <2>4, <3>1, <3>3
      <4>2. CASE j = k
        BY <2>1, <2>3, <3>1, <4>1, <4>2
      <4>3. CASE j \in 1 .. k - 1
        BY <3>1, <3>2, <4>1, <4>3
      <4> QED BY <2>1, <4>2, <4>3
    <3> QED BY <2>1, <2>4, <3>1, <3>3
  <2> HIDE DEF Holds
  <2>7. Holds(q, k)
    BY <2>2, <2>5, <2>6
  <2> QED BY <1>3, <2>7 DEF q
<1>11. Holds(found[n], n)
  <2> HIDE DEF P
  <2>1. \A k \in 0 .. n : k \in P
    BY <1>3, <1>9, <1>10, Induction
  <2>2. n \in P
    BY <1>3, <2>1
  <2> QED BY <2>2 DEF P
<1>12. IsParse(all, txt)
  BY <1>11 DEF IsParse, hints, n
<1> HIDE DEF all
<1> QED BY <1>1, <1>12
-----------------------------------------------------------------------------
(* The constraints of one chunk: each with the parameter and the unit of   *)
(* the hint at its place, and the interval of some hint, that one if there *)
(* are as many constraints as hints.                                       *)
OfChunk(cs, txt, scope) ==
    LET hs == Hints(txt) IN
    /\ cs \in Seq(ToSet(cs)) /\ Len(cs) <= Len(hs) /\ Len(cs) = Len(ParseIntervals(txt))
    /\ \A k \in 1 .. Len(cs) :
          /\ cs[k].level = ScopeLevel(scope) /\ cs[k].conf = 1
          /\ cs[k].param = hs[k].param /\ cs[k].unit = BaseUnit[hs[k].unit]
          /\ \E g \in ToSet(Hints(txt)) :
                LET i == IntervalOf(txt, g) IN
                /\ i # None
                /\ cs[k].interval = (IF IsScalar(i) THEN None ELSE i)
                /\ cs[k].value = (IF IsScalar(i) THEN i.lower ELSE None)
                /\ Len(cs) = Len(hs) => i = IntervalOf(txt, hs[k])

(* A chunk's constraints are made of the intervals of its text.            *)
LEMMA ConstraintsOfAChunk ==
    ASSUME NEW T, NEW txt \in Seq(T), NEW scope
    PROVE  OfChunk(ChunkConstraints(txt, scope), txt, scope)
<1> DEFINE hs == Hints(txt)
           cs == ChunkConstraints(txt, scope)
           intervals == ParseIntervals(txt)
<1>1. PICK all : IsParse(all, txt) /\ intervals = [k \in DOMAIN all |-> all[k].interval]
  BY ParsedIntervals
<1>2. /\ all \in Seq(Entries(txt)) /\ Len(all) <= Len(hs)
      /\ Len(all) = Len(hs) => \A k \in 1 .. Len(all) : all[k].interval = IntervalOf(txt, hs[k])
  BY <1>1 DEF IsParse
<1>3. cs = [k \in DOMAIN intervals |-> Constraint(txt, scope, hs[k], intervals[k])]
  BY DEF ChunkConstraints
<1> HIDE DEF cs, hs, intervals
<1>4. Len(all) \in Nat /\ DOMAIN all = 1 .. Len(all)
  BY <1>2
<1>5. DOMAIN intervals = 1 .. Len(all) /\ \A k \in 1 .. Len(all) : intervals[k] = all[k].interval
  BY <1>1, <1>4
<1>6. Len(intervals) = Len(all)
  BY <1>1, <1>4, <1>5
<1>7. DOMAIN cs = 1 .. Len(all)
  BY <1>3, <1>5
<1>8. cs \in Seq(ToSet(cs)) /\ Len(cs) = Len(all)
  <2>1. \A k \in 1 .. Len(all) : cs[k] \in ToSet(cs)
    BY <1>7 DEF ToSet
  <2> DEFINE S == ToSet(cs)
  <2>s. \A k \in 1 .. Len(all) : cs[k] \in S
    BY <2>1
  <2>2. cs = [k \in 1 .. Len(all) |-> cs[k]]
    BY <1>3, <1>5
  <2> HIDE DEF S
  <2>3. cs \in [1 .. Len(all) -> S]
    BY <2>s, <2>2
  <2>4. cs \in Seq(S) /\ Len(cs) = Len(all)
    BY <1>4, <1>7, <2>3
  <2> QED BY <2>4 DEF S
<1>9. ASSUME NEW k \in 1 .. Len(cs)
      PROVE  /\ cs[k].level = ScopeLevel(scope) /\ cs[k].conf = 1
             /\ cs[k].param = hs[k].param /\ cs[k].unit = BaseUnit[hs[k].unit]
             /\ cs[k].interval = (IF IsScalar(intervals[k]) THEN None ELSE intervals[k])
             /\ cs[k].value = (IF IsScalar(intervals[k]) THEN intervals[k].lower ELSE None)
  <2>1. cs[k] = Constraint(txt, scope, hs[k], intervals[k])
    BY <1>3, <1>5, <1>8
  <2> QED BY <2>1 DEF Constraint
<1>10. ASSUME NEW k \in 1 .. Len(cs)
       PROVE  \E g \in ToSet(Hints(txt)) :
                 /\ intervals[k] = IntervalOf(txt, g) /\ intervals[k] # None
                 /\ Len(cs) = Len(hs) => intervals[k] = IntervalOf(txt, hs[k])
  <2>1. all[k] \in Entries(txt) /\ intervals[k] = all[k].interval
    BY <1>2, <1>5, <1>8
  <2>2. PICK g \in ToSet(Hints(txt)) : all[k] = EntryOf(txt, g) /\ IntervalOf(txt, g) # None
    BY <2>1 DEF Entries
  <2>3. all[k].interval = IntervalOf(txt, g)
    BY <2>2 DEF EntryOf
  <2> QED BY <1>2, <1>8, <2>1, <2>2, <2>3
<1>11. ASSUME NEW k \in 1 .. Len(cs)
       PROVE  \E g \in ToSet(Hints(txt)) :
                 LET i == IntervalOf(txt, g) IN
                 /\ i # None
                 /\ cs[k].interval = (IF IsScalar(i) THEN None ELSE i)
                 /\ cs[k].value = (IF IsScalar(i) THEN i.lower ELSE None)
                 /\ Len(cs) = Len(hs) => i = IntervalOf(txt, hs[k])
  <2>1. PICK g \in ToSet(Hints(txt)) :
           /\ intervals[k] = IntervalOf(txt, g) /\ intervals[k] # None
           /\ Len(cs) = Len(hs) => intervals[k] = IntervalOf(txt, hs[k])
    BY <1>10
  <2> WITNESS g \in ToSet(Hints(txt))
  <2> DEFINE v == IntervalOf(txt, g)
  <2>3. v = intervals[k]
    BY <2>1
  <2> HIDE DEF v
  <2>4. /\ v # None
        /\ cs[k].interval = (IF IsScalar(v) THEN None ELSE v)
        /\ cs[k].value = (IF IsScalar(v) THEN v.lower ELSE None)
        /\ Len(cs) = Len(hs) => v = IntervalOf(txt, hs[k])
    BY <1>9, <2>1, <2>3
  <2> QED BY <2>4 DEF v
<1> QED BY <1>2, <1>6, <1>8, <1>9, <1>11 DEF OfChunk, cs, hs, intervals

ConstraintsUnder(txt, under) == UNION {ToSet(ChunkConstraints(txt, under[k])) : k \in DOMAIN under}

(* The constraints of all chunks are those of one chunk each.              *)
LEMMA AllConstraintsOf ==
    ASSUME NEW T, text \in Seq(T), NEW under \in Seq(Seq(STRING))
    PROVE  LET C == ConstraintsUnder(text, under) cs == AllConstraints(under) IN
           /\ cs \in Seq(C) /\ Comparable(C)
           /\ \A i \in 1 .. Len(cs) : \E k \in 1 .. Len(under) :
                 \E j \in 1 .. Len(ChunkConstraints(text, under[k])) :
                    cs[i] = ChunkConstraints(text, under[k])[j]
<1> DEFINE C == ConstraintsUnder(text, under)
           cs == AllConstraints(under)
           of(k) == ChunkConstraints(text, under[k])
           ss == [k \in DOMAIN under |-> of(k)]
<1>1. cs = FlattenSeq(ss)
  BY DEF AllConstraints
<1>2. DOMAIN under = 1 .. Len(under) /\ Len(under) \in Nat
  OBVIOUS
<1>3. ASSUME NEW k \in 1 .. Len(under)
      PROVE  /\ of(k) \in Seq(ToSet(of(k)))
             /\ \A j \in 1 .. Len(of(k)) : of(k)[j].level = ScopeLevel(under[k]) /\ of(k)[j].conf = 1
  <2> DEFINE b == ChunkConstraints(text, under[k])
  <2>1. b \in Seq(ToSet(b)) /\ \A j \in 1 .. Len(b) : b[j].level = ScopeLevel(under[k]) /\ b[j].conf = 1
    <3>1. OfChunk(b, text, under[k])
      BY ConstraintsOfAChunk
    <3> HIDE DEF b
    <3> QED BY <3>1 DEF OfChunk
  <2> QED BY <2>1
<1>4. \A k \in 1 .. Len(under) : ToSet(of(k)) \subseteq C
  BY <1>2 DEF ConstraintsUnder
<1> HIDE DEF of
<1>5. ASSUME NEW k \in 1 .. Len(under) PROVE of(k) \in Seq(C)
  <2>1. of(k) \in Seq(ToSet(of(k))) /\ ToSet(of(k)) \subseteq C
    BY <1>3, <1>4
  <2> HIDE DEF C
  <2> QED BY <2>1
<1>6. \A c \in C : \E k \in 1 .. Len(under) : c \in ToSet(of(k))
  BY <1>2 DEF ConstraintsUnder, of
<1> HIDE DEF C
<1>7. Comparable(C)
  <2> SUFFICES ASSUME NEW c \in C PROVE c.level \in Int /\ c.conf \in Int
    BY DEF Comparable
  <2>1. PICK k \in 1 .. Len(under) : c \in ToSet(of(k))
    BY <1>6
  <2>2. PICK j \in 1 .. Len(of(k)) : c = of(k)[j]
    <3>1. of(k) \in Seq(ToSet(of(k)))
      BY <1>3
    <3> QED BY <2>1, <3>1 DEF ToSet
  <2>3. c.level = ScopeLevel(under[k]) /\ c.conf = 1
    BY <1>3, <2>2
  <2>4. ScopeLevel(under[k]) \in Nat
    BY EvidenceAssumption DEF ScopeLevel
  <2> QED BY <2>3, <2>4
<1>8. ss \in Seq(Seq(C)) /\ Len(ss) = Len(under) /\ \A k \in 1 .. Len(under) : ss[k] = of(k)
  <2>1. ss \in [1 .. Len(under) -> Seq(C)]
    BY <1>2, <1>5
  <2> QED BY <1>2, <2>1
<1> HIDE DEF ss, cs
<1>9. IsFlattening(cs, ss, C)
  BY <1>1, <1>8, FlattenFacts
<1>10. \A i \in 1 .. Len(cs) : \E k \in 1 .. Len(under) : \E j \in 1 .. Len(of(k)) : cs[i] = of(k)[j]
  <2> TAKE i \in 1 .. Len(cs)
  <2>1. PICK k \in 1 .. Len(ss) : \E j \in 1 .. Len(ss[k]) : cs[i] = ss[k][j]
    BY <1>9 DEF IsFlattening
  <2>2. k \in 1 .. Len(under) /\ ss[k] = of(k)
    BY <1>8
  <2> QED BY <2>1, <2>2
<1> QED BY <1>7, <1>9, <1>10 DEF IsFlattening, C, cs, of
-----------------------------------------------------------------------------
EvidenceInv ==
    /\ text \in Seq(TextTokens)
    /\ \/ scopes = <<>> /\ evidence = <<>>
       \/ scopes \in ScopeChoices /\ evidence = Deduplicated(AllConstraints(scopes))

(* The evidence is a deduplication of the constraints of all chunks.       *)
LEMMA EvidenceDeduplicated ==
    ASSUME EvidenceInv, scopes # <<>>
    PROVE  LET cs == AllConstraints(scopes) C == ConstraintsUnder(text, scopes) IN
           /\ cs \in Seq(C)
           /\ IsDeduplication(evidence, cs, C)
           /\ \A i \in 1 .. Len(cs) : \E k \in 1 .. Len(scopes) :
                 \E j \in 1 .. Len(ChunkConstraints(text, scopes[k])) :
                    cs[i] = ChunkConstraints(text, scopes[k])[j]
<1> DEFINE cs == AllConstraints(scopes)
           C == ConstraintsUnder(text, scopes)
<1>1. text \in Seq(TextTokens) /\ scopes \in Seq(Seq(STRING)) /\ evidence = Deduplicated(cs)
  BY EvidenceAssumption DEF EvidenceInv
<1>2. /\ cs \in Seq(C) /\ Comparable(C)
      /\ \A i \in 1 .. Len(cs) : \E k \in 1 .. Len(scopes) :
            \E j \in 1 .. Len(ChunkConstraints(text, scopes[k])) :
               cs[i] = ChunkConstraints(text, scopes[k])[j]
  BY <1>1, AllConstraintsOf
<1> HIDE DEF cs, C
<1>3. IsDeduplication(evidence, cs, C)
  BY <1>1, <1>2, DeduplicatedFacts
<1> QED BY <1>2, <1>3 DEF cs, C

(* The state's invariant implies the first property.                       *)
LEMMA StrongestStays == EvidenceInv => StrongestSourceStays
<1> SUFFICES ASSUME EvidenceInv, scopes # <<>>, NEW c \in ToSet(AllConstraints(scopes))
             PROVE  LET same == {e \in DOMAIN evidence : KeyOf(evidence[e]) = KeyOf(c)}
                    IN Cardinality(same) = 1 /\ \A e \in same : evidence[e].level >= c.level
  BY DEF StrongestSourceStays
<1> DEFINE cs == AllConstraints(scopes)
           C == ConstraintsUnder(text, scopes)
           same == {e \in DOMAIN evidence : KeyOf(evidence[e]) = KeyOf(c)}
<1>1. cs \in Seq(C) /\ IsDeduplication(evidence, cs, C)
  BY EvidenceDeduplicated
<1>2. PICK i \in 1 .. Len(cs) : c = cs[i]
  BY <1>1 DEF ToSet
<1> HIDE DEF cs, C
<1>3. /\ DOMAIN evidence = 1 .. Len(evidence)
      /\ \E e \in 1 .. Len(evidence) : KeyOf(evidence[e]) = KeyOf(c)
      /\ \A e \in 1 .. Len(evidence) : KeyOf(evidence[e]) = KeyOf(c) => evidence[e].level >= c.level
      /\ \A d, e \in 1 .. Len(evidence) : KeyOf(evidence[d]) = KeyOf(evidence[e]) => d = e
  BY <1>1, <1>2 DEF IsDeduplication
<1>4. PICK e \in 1 .. Len(evidence) : KeyOf(evidence[e]) = KeyOf(c)
  BY <1>3
<1>5. same = {e}
  BY <1>3, <1>4
<1>6. Cardinality(same) = 1
  BY <1>5, FS_Singleton
<1> QED BY <1>3, <1>6

(* A number closest in value exists among any numbers.                     *)
LEMMA ClosestIsOne ==
    ASSUME NEW values \in SUBSET Int, values # {}, NEW v \in Int
    PROVE  Closest(values, v) \in values
<1> DEFINE D == {Abs(x - v) : x \in values}
           IsClosest(x) == \A y \in values :
               Abs(x - v) < Abs(y - v) \/ (Abs(x - v) = Abs(y - v) /\ x <= y)
<1>1. D \in SUBSET Nat /\ D # {}
  BY DEF Abs
<1>2. PICK d \in D : \A e \in D : d <= e
  <2> HIDE DEF D
  <2> QED BY <1>1, LeastNumber
<1>3. PICK x \in values : d = Abs(x - v)
  BY <1>2
<1>4. d \in Nat /\ \A y \in values : Abs(y - v) \in Nat /\ d <= Abs(y - v)
  BY <1>1, <1>2
<1>5. CASE v - d \in values
  <2>1. Abs((v - d) - v) = d
    BY <1>4 DEF Abs
  <2>2. \A y \in values : Abs(y - v) = d => v - d <= y
    BY <1>4 DEF Abs
  <2>3. IsClosest(v - d)
    BY <1>4, <2>1, <2>2
  <2> QED BY <1>5, <2>3 DEF Closest
<1>6. CASE v - d \notin values
  <2>1. x = v + d
    BY <1>3, <1>6 DEF Abs
  <2>2. \A y \in values : Abs(y - v) = d => y = x
    BY <1>4, <1>6, <2>1 DEF Abs
  <2>3. IsClosest(x)
    BY <1>3, <1>4, <2>2
  <2> QED BY <2>3 DEF Closest
<1> QED BY <1>5, <1>6

(* A range that was found has its ends on either side of a range phrase.   *)
LEMMA RangeIsAround ==
    ASSUME NEW ctx \in Seq(TextTokens), NEW v \in Int, RangeAround(ctx, v) # None
    PROVE  \E l, m, u \in DOMAIN ctx :
              /\ l < m /\ m < u
              /\ ctx[l].kind = "number" /\ ctx[u].kind = "number"
              /\ ctx[m].kind = "operator" /\ ctx[m].phrase \in PhrasesOf("range")
              /\ RangeAround(ctx, v) = [lower |-> ctx[l].value, upper |-> ctx[u].value]
<1> DEFINE around == {k \in DOMAIN ctx :
                         /\ ctx[k].kind = "operator" /\ ctx[k].phrase \in PhrasesOf("range")
                         /\ NumbersIn(ctx, 1 .. k - 1) # {} /\ NumbersIn(ctx, k + 1 .. Len(ctx)) # {}}
           m == CHOOSE j \in around : \A i \in around : j <= i
           before == NumbersIn(ctx, 1 .. m - 1)
           after == NumbersIn(ctx, m + 1 .. Len(ctx))
<1>1. around # {} /\ RangeAround(ctx, v) = [lower |-> Closest(before, v), upper |-> Closest(after, v)]
  BY DEF RangeAround
<1>2. m \in around
  <2>1. around \in SUBSET Nat
    OBVIOUS
  <2> HIDE DEF around
  <2>2. \E j \in around : \A i \in around : j <= i
    BY <1>1, <2>1, LeastNumber
  <2> QED BY <2>2
<1> HIDE DEF m
<1>3. /\ m \in 1 .. Len(ctx) /\ Len(ctx) \in Nat
      /\ ctx[m].kind = "operator" /\ ctx[m].phrase \in PhrasesOf("range")
      /\ before # {} /\ after # {}
  BY <1>2
<1>4. \A k \in DOMAIN ctx : ctx[k].kind = "number" => ctx[k].value \in Int
  <2>1. \A k \in DOMAIN ctx : ctx[k] \in TextTokens
    OBVIOUS
  <2> QED BY <2>1, EvidenceAssumption
<1>5. before \in SUBSET Int /\ after \in SUBSET Int
  BY <1>4 DEF NumbersIn
<1>6. Closest(before, v) \in before /\ Closest(after, v) \in after
  <2> HIDE DEF before, after
  <2> QED BY <1>3, <1>5, ClosestIsOne
<1>7. PICK l \in 1 .. m - 1 \cap DOMAIN ctx : ctx[l].kind = "number" /\ Closest(before, v) = ctx[l].value
  BY <1>6 DEF NumbersIn
<1>8. PICK u \in m + 1 .. Len(ctx) \cap DOMAIN ctx : ctx[u].kind = "number" /\ Closest(after, v) = ctx[u].value
  BY <1>6 DEF NumbersIn
<1>9. l < m /\ m < u /\ m \in DOMAIN ctx
  BY <1>3, <1>7, <1>8
<1> HIDE DEF around, before, after
<1> QED BY <1>1, <1>3, <1>7, <1>8, <1>9

(* The operator of a hint is one of the list, and a range has been found.  *)
LEMMA OperatorIsOne ==
    ASSUME NEW ctx, NEW v
    PROVE  \/ OperatorOf(ctx, v) = None
           \/ /\ OperatorOf(ctx, v) \in {Operators[o].op : o \in DOMAIN Operators}
              /\ OperatorOf(ctx, v) \in {"range", "==", "<=", ">=", "<", ">"}
              /\ OperatorOf(ctx, v) = "range" => RangeAround(ctx, v) # None
<1> DEFINE places(o) == PlacesOf(ctx, Operators[o].phrase)
           fits(o) == /\ places(o) # {}
                      /\ Operators[o].op = "range" => RangeAround(ctx, v) # None
                      /\ Operators[o].op = "==" => IsEquality(ctx, FirstOf(places(o)), v)
           fitting == {o \in DOMAIN Operators : fits(o)}
<1>1. OperatorOf(ctx, v) = IF fitting = {} THEN None ELSE Operators[FirstOf(fitting)].op
  BY DEF OperatorOf
<1>2. ASSUME fitting # {} PROVE FirstOf(fitting) \in fitting
  <2>1. fitting \in SUBSET Nat
    BY EvidenceAssumption
  <2> HIDE DEF fitting
  <2>2. \E k \in fitting : \A j \in fitting : k <= j
    BY <1>2, <2>1, LeastNumber
  <2> QED BY <2>2 DEF FirstOf
<1>3. ASSUME NEW o \in fitting
      PROVE  /\ o \in DOMAIN Operators /\ Operators[o].op \in {"range", "==", "<=", ">=", "<", ">"}
             /\ Operators[o].op = "range" => RangeAround(ctx, v) # None
  <2>1. o \in DOMAIN Operators /\ fits(o)
    OBVIOUS
  <2>2. Operators[o].op = "range" => RangeAround(ctx, v) # None
    BY <2>1
  <2> HIDE DEF fitting, fits
  <2>3. Operators[o] \in [phrase : STRING, op : {"range", "==", "<=", ">=", "<", ">"}]
    <3> DEFINE S == [phrase : STRING, op : {"range", "==", "<=", ">=", "<", ">"}]
    <3>1. Operators \in Seq(S)
      BY EvidenceAssumption
    <3> HIDE DEF S
    <3>2. Operators[o] \in S
      BY <2>1, <3>1
    <3> QED BY <3>2 DEF S
  <2>4. Operators[o].op \in {"range", "==", "<=", ">=", "<", ">"}
    BY <2>3
  <2> QED BY <2>1, <2>2, <2>4
<1> HIDE DEF fitting
<1> QED BY <1>1, <1>2, <1>3

(* The window of a hint is a piece of the text around it.                  *)
LEMMA WindowIsNear ==
    ASSUME NEW txt \in Seq(TextTokens), NEW h, h.pos \in DOMAIN txt
    PROVE  /\ Context(txt, h) \in Seq(TextTokens)
           /\ \E off \in Int : \A k \in DOMAIN Context(txt, h) :
                 /\ k \in Int
                 /\ k + off \in (h.pos - ContextRadius) .. (h.pos + ContextRadius) \cap DOMAIN txt
                 /\ Context(txt, h)[k] = txt[k + off]
<1> DEFINE a == IF h.pos > ContextRadius THEN h.pos - ContextRadius ELSE 1
           b == IF h.pos + ContextRadius < Len(txt) THEN h.pos + ContextRadius ELSE Len(txt)
<1>1. Context(txt, h) = SubSeq(txt, a, b)
  BY DEF Context
<1>2. ContextRadius \in Nat /\ Len(txt) \in Nat /\ h.pos \in 1 .. Len(txt)
  BY EvidenceAssumption
<1>3. /\ a \in 1 .. h.pos /\ b \in h.pos .. Len(txt)
      /\ h.pos - ContextRadius <= a /\ b <= h.pos + ContextRadius
  BY <1>2
<1> HIDE DEF a, b
<1>4. a \in Int /\ b \in Int /\ a <= b /\ 1 <= a /\ b <= Len(txt)
  BY <1>2, <1>3
<1> DEFINE c == SubSeq(txt, a, b)
<1>5. /\ c \in Seq(TextTokens) /\ DOMAIN c = 1 .. (b - a + 1)
      /\ \A k \in 1 .. (b - a + 1) : c[k] = txt[k + (a - 1)]
  BY <1>2, <1>4
<1> HIDE DEF c
<1> DEFINE off == a - 1
<1>6. ASSUME NEW k \in DOMAIN c
      PROVE  /\ k \in Int
             /\ k + off \in (h.pos - ContextRadius) .. (h.pos + ContextRadius) \cap DOMAIN txt
             /\ c[k] = txt[k + off]
  <2>1. k \in 1 .. (b - a + 1) /\ k \in Int /\ a <= k + off /\ k + off <= b
    BY <1>4, <1>5
  <2>2. k + off \in (h.pos - ContextRadius) .. (h.pos + ContextRadius) /\ k + off \in 1 .. Len(txt)
    <3> DEFINE p == h.pos
               n == Len(txt)
               r == ContextRadius
               j == k + off
    <3>1. /\ p \in Int /\ n \in Int /\ r \in Int /\ j \in Int
          /\ p - r <= a /\ b <= p + r /\ 1 <= a /\ b <= n /\ a <= j /\ j <= b
      BY <1>2, <1>3, <1>4, <2>1
    <3> HIDE DEF p, n, r, j
    <3>2. j \in (p - r) .. (p + r) /\ j \in 1 .. n
      BY <1>4, <3>1
    <3> QED BY <3>2 DEF p, n, r, j
  <2>3. DOMAIN txt = 1 .. Len(txt)
    OBVIOUS
  <2> QED BY <1>5, <2>1, <2>2, <2>3
<1>7. off \in Int
  BY <1>4
<1> HIDE DEF off
<1> QED BY <1>1, <1>5, <1>6, <1>7 DEF c

(* The bounds of the interval of a hint are numbers of its text.           *)
LEMMA BoundsAreOfTheText ==
    ASSUME text \in Seq(TextTokens), NEW pos \in DOMAIN text, IsHint(text[pos]),
           NEW i, i = IntervalOf(text, Hint(text, pos)), i # None,
           NEW c, LowerEnd(c) = i.lower, UpperEnd(c) = i.upper
    PROVE  BoundedBy(c, pos) \/ RangesAround(c, pos)
<1> DEFINE h == Hint(text, pos)
           ctx == Context(text, h)
           v == text[pos].value
           unit == text[pos].unit
           base(x) == BaseValue[unit][x]
           op == OperatorOf(ctx, v)
           range == RangeAround(ctx, v)
           ofRange == IF ~IsTemperature(unit) THEN range
                      ELSE [lower |-> base(range.lower), upper |-> base(range.upper)]
           single == [lower |-> base(v), upper |-> base(v)]
<1>1. h.pos = pos /\ h.value = v /\ h.unit = unit
  BY DEF Hint
<1>2. v \in Int
  <2>1. text[pos] \in TextTokens
    OBVIOUS
  <2> QED BY <2>1, EvidenceAssumption DEF IsHint
<1>3. ctx \in Seq(TextTokens)
  <2> HIDE DEF h
  <2> QED BY <1>1, WindowIsNear
<1> DEFINE ops == {Operators[o].op : o \in DOMAIN Operators} \cup {None}
           forOperator == [p \in ops |-> IF p = None THEN None
                                         ELSE ToInterval(p, IF p = "range" THEN ofRange ELSE single)]
<1>4. i = forOperator[op]
  BY <1>1 DEF IntervalOf
<1>5. \/ op = None
      \/ /\ op \in ops /\ op \in {"range", "==", "<=", ">=", "<", ">"}
         /\ op = "range" => range # None
  <2> HIDE DEF ctx, v
  <2> QED BY OperatorIsOne
<1>6. op # None /\ op \in ops
  <2> HIDE DEF op
  <2>1. op = None => i = None
    BY <1>4
  <2> QED BY <1>5, <2>1
<1>7. i = ToInterval(op, IF op = "range" THEN ofRange ELSE single)
  <2> HIDE DEF op, ofRange, single
  <2> QED BY <1>4, <1>6
<1> HIDE DEF op, ops
<1>8. CASE op # "range"
  <2>1. i.lower \in {base(v), None} /\ i.upper \in {base(v), None} /\ (i.lower = base(v) \/ i.upper = base(v))
    BY <1>5, <1>6, <1>7, <1>8 DEF ToInterval
  <2> QED BY <2>1 DEF BoundedBy
<1>9. CASE op = "range"
  <2>1. i.lower = ofRange.lower /\ i.upper = ofRange.upper /\ range # None
    <3> HIDE DEF ofRange
    <3> QED BY <1>5, <1>6, <1>7, <1>9 DEF ToInterval
  <2>2. PICK l, m, u \in DOMAIN ctx :
              /\ l < m /\ m < u
              /\ ctx[l].kind = "number" /\ ctx[u].kind = "number"
              /\ ctx[m].kind = "operator" /\ ctx[m].phrase \in PhrasesOf("range")
              /\ range = [lower |-> ctx[l].value, upper |-> ctx[u].value]
    <3> HIDE DEF ctx, v
    <3> QED BY <1>2, <1>3, <2>1, RangeIsAround
  <2>3. PICK off \in Int : \A k \in DOMAIN ctx :
              /\ k \in Int
              /\ k + off \in (pos - ContextRadius) .. (pos + ContextRadius) \cap DOMAIN text
              /\ ctx[k] = text[k + off]
    <3> HIDE DEF h
    <3> QED BY <1>1, WindowIsNear
  <2>4. /\ ofRange.lower = (IF IsTemperature(unit) THEN base(ctx[l].value) ELSE ctx[l].value)
        /\ ofRange.upper = (IF IsTemperature(unit) THEN base(ctx[u].value) ELSE ctx[u].value)
    <3> HIDE DEF range, ctx
    <3> QED BY <2>2
  <2> HIDE DEF ctx, ofRange
  <2>5. /\ l + off < m + off /\ m + off < u + off
        /\ ctx[l] = text[l + off] /\ ctx[m] = text[m + off] /\ ctx[u] = text[u + off]
    BY <2>2, <2>3
  <2> DEFINE near == (pos - ContextRadius) .. (pos + ContextRadius) \cap DOMAIN text
             asRead(k) == IF IsTemperature(unit) THEN BaseValue[unit][text[k].value] ELSE text[k].value
  <2>6. l + off \in near /\ m + off \in near /\ u + off \in near
    BY <2>3
  <2>7. LowerEnd(c) = asRead(l + off) /\ UpperEnd(c) = asRead(u + off)
    BY <2>1, <2>4, <2>5
  <2> HIDE DEF near, asRead
  <2>8. \E a, b, d \in near :
           /\ a < b /\ b < d
           /\ text[a].kind = "number" /\ text[d].kind = "number"
           /\ text[b].kind = "operator" /\ text[b].phrase \in PhrasesOf("range")
           /\ LowerEnd(c) = asRead(a) /\ UpperEnd(c) = asRead(d)
    BY <2>2, <2>5, <2>6, <2>7
  <2> QED BY <2>8 DEF RangesAround, near, asRead
<1> QED BY <1>8, <1>9

(* It implies the second one.                                              *)
LEMMA BoundsBelong == EvidenceInv => BoundsBelongToTheirParameter
<1> DEFINE Owned(c) == \E pos \in DOMAIN text :
               /\ IsHint(text[pos])
               /\ c.param = Hint(text, pos).param /\ c.unit = BaseUnit[text[pos].unit]
               /\ BoundedBy(c, pos) \/ RangesAround(c, pos)
<1> SUFFICES ASSUME EvidenceInv, InStep, NEW c \in ToSet(evidence) PROVE Owned(c)
  BY DEF BoundsBelongToTheirParameter
<1> DEFINE all == AllConstraints(scopes)
           C == ConstraintsUnder(text, scopes)
           hs == Hints(text)
<1>0. PICK e \in DOMAIN evidence : c = evidence[e]
  BY DEF ToSet
<1>1. scopes # <<>>
  <2>1. DOMAIN <<>> = {} /\ <<>> \notin ScopeChoices
    BY EvidenceAssumption
  <2> QED BY <1>0, <2>1 DEF EvidenceInv
<1>2. /\ all \in Seq(C) /\ IsDeduplication(evidence, all, C)
      /\ \A i \in 1 .. Len(all) : \E k \in 1 .. Len(scopes) :
            \E j \in 1 .. Len(ChunkConstraints(text, scopes[k])) :
               all[i] = ChunkConstraints(text, scopes[k])[j]
  BY <1>1, EvidenceDeduplicated
<1>3. text \in Seq(TextTokens) /\ hs \in Seq(HintsOf(text))
  BY HintsAreASequence DEF EvidenceInv
<1> HIDE DEF all, C
<1>4. PICK i \in 1 .. Len(all) : c = all[i]
  <2>1. e \in 1 .. Len(evidence)
    BY <1>0, <1>2 DEF IsDeduplication
  <2> QED BY <1>0, <1>2, <2>1 DEF IsDeduplication
<1>5. PICK k \in 1 .. Len(scopes) : \E j \in 1 .. Len(ChunkConstraints(text, scopes[k])) :
                                       all[i] = ChunkConstraints(text, scopes[k])[j]
  BY <1>2
<1> DEFINE cs == ChunkConstraints(text, scopes[k])
<1>6. PICK j \in 1 .. Len(cs) : c = cs[j]
  BY <1>4, <1>5
<1> HIDE DEF hs
<1>7. PICK g \in ToSet(hs) :
         /\ Len(cs) <= Len(hs) /\ Len(cs) = Len(ParseIntervals(text)) /\ Len(cs) \in Nat
         /\ c.param = hs[j].param /\ c.unit = BaseUnit[hs[j].unit]
         /\ LET v == IntervalOf(text, g) IN
            /\ v # None
            /\ c.interval = (IF IsScalar(v) THEN None ELSE v)
            /\ c.value = (IF IsScalar(v) THEN v.lower ELSE None)
            /\ Len(cs) = Len(hs) => v = IntervalOf(text, hs[j])
  <2>1. OfChunk(cs, text, scopes[k])
    BY <1>3, ConstraintsOfAChunk
  <2> HIDE DEF cs
  <2> QED BY <1>6, <2>1 DEF OfChunk, hs
<1> HIDE DEF cs
<1>8. hs[j] \in HintsOf(text) /\ hs[j] \in ToSet(hs)
  <2>1. j \in DOMAIN hs
    BY <1>3, <1>7
  <2> QED BY <1>3, <2>1 DEF ToSet
<1>9. ASSUME NEW h \in HintsOf(text), h.param = hs[j].param, h.unit = hs[j].unit,
             IntervalOf(text, h) = IntervalOf(text, g)
      PROVE  Owned(c)
  <2>1. PICK pos \in DOMAIN text : IsHint(text[pos]) /\ h = Hint(text, pos)
    BY <1>9 DEF HintsOf
  <2> DEFINE v == IntervalOf(text, g)
  <2>2. v # None /\ v = IntervalOf(text, Hint(text, pos))
    BY <1>7, <1>9, <2>1
  <2>3. LowerEnd(c) = v.lower /\ UpperEnd(c) = v.upper
    <3> HIDE DEF v
    <3>1. /\ v # None
          /\ c.interval = (IF IsScalar(v) THEN None ELSE v)
          /\ c.value = (IF IsScalar(v) THEN v.lower ELSE None)
      BY <1>7, <2>2 DEF v
    <3> QED BY <3>1 DEF LowerEnd, UpperEnd, IsScalar
  <2> HIDE DEF v
  <2>4. BoundedBy(c, pos) \/ RangesAround(c, pos)
    BY <1>3, <2>1, <2>2, <2>3, BoundsAreOfTheText
  <2>5. h.unit = text[pos].unit /\ h.param = Hint(text, pos).param
    BY <2>1 DEF Hint
  <2> QED BY <1>7, <1>9, <2>1, <2>4, <2>5
<1> HIDE DEF Owned
<1>10. CASE Len(ParseIntervals(text)) = Len(hs)
  BY <1>7, <1>8, <1>9, <1>10
<1>11. CASE \A f, h \in ToSet(hs) : f.param = h.param /\ f.unit = h.unit
  <2>1. g \in HintsOf(text) /\ g.param = hs[j].param /\ g.unit = hs[j].unit
    BY <1>3, <1>7, <1>8, <1>11 DEF ToSet
  <2> QED BY <1>9, <2>1
<1> QED BY <1>10, <1>11 DEF InStep, hs

(* The evidence is what the chunks' constraints deduplicate to.            *)
THEOREM EvidenceInductive == EvidenceSpec => []EvidenceInv
<1>1. EvidenceInit => EvidenceInv
  BY DEF EvidenceInit, EvidenceInv
<1>2. EvidenceInv /\ [EvidenceNext]_evidenceVars => EvidenceInv'
  <2> SUFFICES ASSUME EvidenceInv, [EvidenceNext]_evidenceVars PROVE EvidenceInv'
    OBVIOUS
  <2>1. CASE AddToken
    BY <2>1, EvidenceAssumption DEF AddToken, EvidenceInv
  <2>2. CASE Build
    <3>1. PICK under \in ScopeChoices : scopes' = under /\ evidence' = Deduplicated(AllConstraints(under)) /\ text' = text
      BY <2>2 DEF Build
    <3>2. AllConstraints(under)' = AllConstraints(under)
      BY <3>1 DEF AllConstraints
    <3>3. AllConstraints(scopes)' = AllConstraints(under)'
      BY <3>1 DEF AllConstraints
    <3> QED BY <3>1, <3>2, <3>3 DEF EvidenceInv
  <2>3. CASE UNCHANGED evidenceVars
    <3>1. AllConstraints(scopes)' = AllConstraints(scopes)
      BY <2>3 DEF AllConstraints, evidenceVars
    <3> QED BY <2>3, <3>1 DEF EvidenceInv, evidenceVars
  <2> QED BY <2>1, <2>2, <2>3 DEF EvidenceNext
<1> QED BY <1>1, <1>2, PTL DEF EvidenceSpec

(* Of the constraints with one key the evidence keeps one, and none of the *)
(* others is of a higher level, whatever the order of the chunks           *)
(* (evidence_builder.py:273-303), for any text and scopes.                 *)
THEOREM StrongestSource == EvidenceSpec => []StrongestSourceStays
BY EvidenceInductive, StrongestStays, PTL

(* While every hint gives an interval, or all are of one parameter and     *)
(* unit, each constraint has its bounds from a number of the text with its *)
(* parameter and unit, or from the ends of a range around that number      *)
(* (parser.py:166-281, evidence_builder.py:195-271), for any text.         *)
THEOREM BoundsOfOneHint == EvidenceSpec => []BoundsBelongToTheirParameter
BY EvidenceInductive, BoundsBelong, PTL
-----------------------------------------------------------------------------
(***************************************************************************)
(* ConstraintQuery, the replays: a query that was asked once logs what it  *)
(* found in the index at its start, and the number of changes seen so far; *)
(* a replay that sees the same number finds the same.                      *)
(***************************************************************************)

(* What a solve of these inputs finds in an index.                         *)
BranchesFound(index, scope, topK) ==
    Cardinality(BranchNames(Solve(Evidence(Retrieved(index, scope, topK)), scope)))

BranchNumbers ==
    {BranchesFound(index, scope, topK) : index \in SUBSET Chunks, scope \in QueryScopes, topK \in TopKs}

AuditEvents ==
    [event : {"started"}, trace : Traces, scope : QueryScopes, topK : TopKs, changes : Nat]
    \cup [event : {"solved"}, trace : Traces, changes : Nat, branches : BranchNumbers]
    \cup [event : {"failed"}, trace : Traces]

(* A query under way has its started event in the log.                     *)
QueriesStarted ==
    \A r \in Requests, t \in Traces :
        asked[r] # None /\ asked[r].kind = "query" /\ asked[r].trace = t =>
        \E j \in EventsOf("started", t) :
            log[j].scope = asked[r].scope /\ log[j].topK = asked[r].topK

(* A solve was of what one of the started events of its trace says, and    *)
(* its branches are those of the index, if that is still what it was.      *)
SolvedIsOfAStart ==
    \A t \in Traces : \A k \in EventsOf("solved", t) :
        /\ log[k].changes \in 0 .. changes
        /\ \E j \in EventsOf("started", t) :
               log[k].changes = changes => log[k].branches = BranchesFound(stored, log[j].scope, log[j].topK)

(* A replay under way, and one that was answered, has what it looked up.   *)
ReplaysHavePrior ==
    \A r \in Requests, t \in Traces :
        asked[r] # None /\ asked[r].kind = "replay" /\ asked[r].trace = t =>
            EventsOf("solved", t) # {} /\ asked[r].scope = Prior("started", t).scope

RepliesHavePrior ==
    reply.status = "replayed" =>
        /\ reply.trace \in Traces
        /\ \A t \in Traces : reply.trace = t =>
              /\ EventsOf("solved", t) # {}
              /\ /\ Cardinality(EventsOf("started", t)) = 1
                 /\ Prior("started", t).topK = reply.topK
                 /\ Prior("solved", t).changes = reply.changes
                 => reply.match

ReplayInv ==
    /\ stored \in SUBSET Chunks /\ changes \in Nat /\ log \in Seq(AuditEvents)
    /\ asked \in [Requests -> Asks \cup {None}]
    /\ QueriesStarted /\ SolvedIsOfAStart /\ ReplaysHavePrior /\ RepliesHavePrior
-----------------------------------------------------------------------------
Earliest(ks) == CHOOSE k \in ks : \A j \in ks : k <= j

(* Earliest is what it says.                                               *)
LEMMA EarliestIs ==
    ASSUME NEW ks \in SUBSET Nat, ks # {}
    PROVE  Earliest(ks) \in ks /\ \A j \in ks : Earliest(ks) <= j
<1>1. \E k \in ks : \A j \in ks : k <= j
  BY LeastNumber
<1> QED BY <1>1 DEF Earliest

(* What an event leaves of the events of a trace id.                       *)
LEMMA EventAppended ==
    ASSUME log \in Seq(AuditEvents), NEW e \in AuditEvents, log' = Append(log, e)
    PROVE  /\ log' \in Seq(AuditEvents)
           /\ Len(log) \in Nat
           /\ \A k \in 1 .. Len(log) : log'[k] = log[k]
           /\ log'[Len(log) + 1] = e
           /\ \A event, trace :
                 EventsOf(event, trace)' = EventsOf(event, trace) \cup
                     {k \in {Len(log) + 1} : e.event = event /\ e.trace = trace}
<1>1. DOMAIN log = 1 .. Len(log) /\ DOMAIN log' = 1 .. Len(log) + 1 /\ Len(log) \in Nat
  OBVIOUS
<1>2. \A k \in 1 .. Len(log) : log'[k] = log[k]
  OBVIOUS
<1>3. log'[Len(log) + 1] = e /\ log' \in Seq(AuditEvents)
  OBVIOUS
<1>4. ASSUME NEW event, NEW trace
      PROVE  EventsOf(event, trace)' = EventsOf(event, trace) \cup
                     {k \in {Len(log) + 1} : e.event = event /\ e.trace = trace}
  BY <1>1, <1>2, <1>3 DEF EventsOf
<1> QED BY <1>1, <1>2, <1>3, <1>4

(* What a replay takes for the original is one of the trace's events.      *)
LEMMA PriorIsOne ==
    ASSUME log \in Seq(AuditEvents), NEW event, NEW t, EventsOf(event, t) # {}
    PROVE  \E k \in EventsOf(event, t) : Prior(event, t) = log[k]
<1> DEFINE ks == EventsOf(event, t)
<1>1. ks \in SUBSET Nat /\ ks # {} /\ Prior(event, t) = log[Earliest(ks)]
  BY DEF EventsOf, Prior, First, Earliest
<1> HIDE DEF ks
<1>2. Earliest(ks) \in ks
  BY <1>1, EarliestIs
<1> QED BY <1>1, <1>2 DEF ks

(* The original has a scope a query may have.                              *)
LEMMA StartedScope ==
    ASSUME log \in Seq(AuditEvents), NEW t, EventsOf("started", t) # {}
    PROVE  Prior("started", t).scope \in QueryScopes
<1>1. PICK k \in EventsOf("started", t) : Prior("started", t) = log[k]
  BY PriorIsOne
<1>2. log[k] \in AuditEvents /\ log[k].event = "started"
  BY DEF EventsOf
<1> QED BY <1>1, <1>2 DEF AuditEvents

(* A later line of the log does not change which one is the original.      *)
LEMMA PriorStays ==
    ASSUME log \in Seq(AuditEvents), NEW e \in AuditEvents, log' = Append(log, e),
           NEW event, NEW trace, EventsOf(event, trace) # {}
    PROVE  Prior(event, trace)' = Prior(event, trace)
<1> DEFINE old == EventsOf(event, trace)
           new == EventsOf(event, trace)'
<1>1. old \in SUBSET (1 .. Len(log)) /\ Len(log) \in Nat
  BY DEF EventsOf
<1>2. new \subseteq old \cup {Len(log) + 1} /\ old \subseteq new
  BY EventAppended
<1>3. Prior(event, trace) = log[Earliest(old)] /\ Prior(event, trace)' = log'[Earliest(new)]
  BY DEF Prior, First, Earliest
<1>4. old # {}
  OBVIOUS
<1> HIDE DEF old, new
<1>5. Earliest(old) \in old /\ \A j \in old : Earliest(old) <= j
  BY <1>1, <1>4, EarliestIs
<1>6. Earliest(new) \in new /\ \A j \in new : Earliest(new) <= j
  <2>1. new \in SUBSET Nat /\ new # {}
    <3>1. old \in SUBSET Nat /\ Len(log) + 1 \in Nat
      BY <1>1
    <3> QED BY <1>2, <1>4, <3>1
  <2> QED BY <2>1, EarliestIs
<1>7. Earliest(new) = Earliest(old)
  <2>1. Earliest(old) \in 1 .. Len(log) /\ Earliest(old) \in new
    BY <1>1, <1>2, <1>5
  <2>2. Earliest(new) <= Earliest(old) /\ Earliest(new) \in old \cup {Len(log) + 1}
    BY <1>2, <1>6, <2>1
  <2>3. Earliest(new) \in old
    BY <1>1, <2>1, <2>2
  <2>4. Earliest(new) \in 1 .. Len(log) /\ Earliest(old) <= Earliest(new)
    BY <1>1, <1>5, <2>3
  <2> QED BY <1>1, <2>1, <2>2, <2>4
<1>8. log'[Earliest(old)] = log[Earliest(old)]
  BY <1>1, <1>5, EventAppended
<1> QED BY <1>3, <1>7, <1>8

(* An event added keeps what is known of the earlier ones.                 *)
LEMMA AppendingKeeps ==
    ASSUME ReplayInv, NEW e \in AuditEvents, log' = Append(log, e), UNCHANGED <<stored, changes>>,
           UNCHANGED reply \/ reply'.status # "replayed",
           asked' \in [Requests -> Asks \cup {None}],
           \A r \in Requests : asked'[r] # asked[r] /\ asked'[r] # None =>
               /\ asked'[r].kind = "query" /\ e.event = "started" /\ e.trace = asked'[r].trace
               /\ e.scope = asked'[r].scope /\ e.topK = asked'[r].topK,
           e.event = "solved" =>
               /\ e.changes = changes
               /\ \E j \in EventsOf("started", e.trace) :
                      e.branches = BranchesFound(stored, log[j].scope, log[j].topK)
    PROVE  ReplayInv'
<1> DEFINE n == Len(log) + 1
<1>1. /\ log' \in Seq(AuditEvents) /\ log'[n] = e /\ n \in Nat \ {0}
      /\ \A k \in 1 .. n - 1 : log'[k] = log[k]
      /\ \A event, trace : /\ EventsOf(event, trace) \subseteq 1 .. n - 1
                           /\ EventsOf(event, trace) \subseteq EventsOf(event, trace)'
                           /\ \A k \in EventsOf(event, trace)' :
                                 \/ k \in EventsOf(event, trace)
                                 \/ k = n /\ e.event = event /\ e.trace = trace
                           /\ e.event = event /\ e.trace = trace => n \in EventsOf(event, trace)'
  <2>1. log \in Seq(AuditEvents)
    BY DEF ReplayInv
  <2>2. \A event, trace : EventsOf(event, trace) \subseteq 1 .. n - 1
    BY <2>1 DEF EventsOf
  <2> QED BY <2>1, <2>2, EventAppended
<1> HIDE DEF n
<1>2. QueriesStarted'
  <2> SUFFICES ASSUME NEW r \in Requests, NEW t \in Traces,
                      asked'[r] # None, asked'[r].kind = "query", asked'[r].trace = t
               PROVE  \E j \in EventsOf("started", t)' :
                          log'[j].scope = asked'[r].scope /\ log'[j].topK = asked'[r].topK
    BY DEF QueriesStarted
  <2>1. CASE asked'[r] = asked[r]
    <3>1. PICK j \in EventsOf("started", t) :
              log[j].scope = asked[r].scope /\ log[j].topK = asked[r].topK
      BY <2>1 DEF ReplayInv, QueriesStarted
    <3> QED BY <1>1, <2>1, <3>1
  <2>2. CASE asked'[r] # asked[r]
    <3>1. n \in EventsOf("started", t)'
      BY <1>1, <2>2
    <3> QED BY <1>1, <2>2, <3>1
  <2> QED BY <2>1, <2>2
<1>3. SolvedIsOfAStart'
  <2> SUFFICES ASSUME NEW t \in Traces, NEW k \in EventsOf("solved", t)'
               PROVE  /\ log'[k].changes \in 0 .. changes
                      /\ \E j \in EventsOf("started", t)' :
                             log'[k].changes = changes =>
                                 log'[k].branches = BranchesFound(stored, log'[j].scope, log'[j].topK)
    BY DEF SolvedIsOfAStart
  <2>1. CASE k \in EventsOf("solved", t)
    <3>1. log[k].changes \in 0 .. changes
      BY <2>1 DEF ReplayInv, SolvedIsOfAStart
    <3>2. PICK j \in EventsOf("started", t) :
              log[k].changes = changes => log[k].branches = BranchesFound(stored, log[j].scope, log[j].topK)
      BY <2>1 DEF ReplayInv, SolvedIsOfAStart
    <3>3. log'[k] = log[k] /\ log'[j] = log[j] /\ j \in EventsOf("started", t)'
      BY <1>1, <2>1
    <3> QED BY <3>1, <3>2, <3>3
  <2>2. CASE k = n /\ e.event = "solved" /\ e.trace = t
    <3>1. PICK j \in EventsOf("started", t) : e.branches = BranchesFound(stored, log[j].scope, log[j].topK)
      BY <2>2
    <3>2. changes \in 0 .. changes
      BY DEF ReplayInv
    <3>3. log'[k] = e /\ log'[j] = log[j] /\ j \in EventsOf("started", t)'
      BY <1>1, <2>2
    <3> QED BY <2>2, <3>1, <3>2, <3>3
  <2> QED BY <1>1, <2>1, <2>2
<1>p. ASSUME NEW t \in Traces, NEW event, EventsOf(event, t) # {}
      PROVE  Prior(event, t)' = Prior(event, t)
  BY <1>p, PriorStays DEF ReplayInv
<1>s. \A t \in Traces : EventsOf("solved", t) # {} => EventsOf("started", t) # {}
  BY DEF ReplayInv, SolvedIsOfAStart
<1>4. ReplaysHavePrior'
  <2> SUFFICES ASSUME NEW r \in Requests, NEW t \in Traces,
                      asked'[r] # None, asked'[r].kind = "replay", asked'[r].trace = t
               PROVE  EventsOf("solved", t)' # {} /\ asked'[r].scope = Prior("started", t)'.scope
    BY DEF ReplaysHavePrior
  <2>1. asked'[r] = asked[r]
    OBVIOUS
  <2>2. EventsOf("solved", t) # {} /\ asked[r].scope = Prior("started", t).scope
    BY <2>1 DEF ReplayInv, ReplaysHavePrior
  <2>3. Prior("started", t)' = Prior("started", t)
    BY <1>p, <1>s, <2>2
  <2> QED BY <1>1, <2>1, <2>2, <2>3
<1>5. RepliesHavePrior'
  <2> SUFFICES ASSUME reply' = reply, reply.status = "replayed", NEW t \in Traces, reply.trace = t
               PROVE  /\ EventsOf("solved", t)' # {}
                      /\ /\ Cardinality(EventsOf("started", t)') = 1
                         /\ Prior("started", t)'.topK = reply.topK
                         /\ Prior("solved", t)'.changes = reply.changes
                         => reply.match
    BY DEF ReplayInv, RepliesHavePrior
  <2>1. /\ EventsOf("solved", t) # {}
        /\ /\ Cardinality(EventsOf("started", t)) = 1
           /\ Prior("started", t).topK = reply.topK
           /\ Prior("solved", t).changes = reply.changes
           => reply.match
    BY DEF ReplayInv, RepliesHavePrior
  <2>2. /\ Prior("started", t)' = Prior("started", t) /\ Prior("solved", t)' = Prior("solved", t)
        /\ EventsOf("started", t) # {}
    BY <1>p, <1>s, <2>1
  <2>3. ASSUME Cardinality(EventsOf("started", t)') = 1
        PROVE  Cardinality(EventsOf("started", t)) = 1
    <3>1. EventsOf("started", t)' \subseteq 1 .. n /\ EventsOf("started", t) \subseteq EventsOf("started", t)'
      BY <1>1
    <3>2. IsFiniteSet(EventsOf("started", t)')
      <4>1. IsFiniteSet(1 .. n)
        BY <1>1, FS_Interval
      <4> QED BY <3>1, <4>1, FS_Subset
    <3>3. PICK x : EventsOf("started", t)' = {x}
      BY <2>3, <3>2, FS_Singleton
    <3>4. EventsOf("started", t) = EventsOf("started", t)'
      BY <2>2, <3>1, <3>3
    <3> QED BY <2>3, <3>4
  <2>4. EventsOf("solved", t)' # {}
    BY <1>1, <2>1
  <2> QED BY <2>1, <2>2, <2>3, <2>4
<1> QED BY <1>1, <1>2, <1>3, <1>4, <1>5 DEF ReplayInv

(* Nothing else is kept longer by a step that adds no event.               *)
LEMMA SilentKeeps ==
    ASSUME ReplayInv, UNCHANGED log, stored' \in SUBSET Chunks, changes' \in Nat,
           (UNCHANGED <<stored, changes>>) \/ changes' = changes + 1,
           asked' \in [Requests -> Asks \cup {None}],
           \A r \in Requests, t \in Traces :
               asked'[r] # asked[r] /\ asked'[r] # None /\ asked'[r].trace = t =>
                   /\ asked'[r].kind = "replay" /\ EventsOf("solved", t) # {}
                   /\ asked'[r].scope = Prior("started", t).scope,
           RepliesHavePrior'
    PROVE  ReplayInv'
<1>1. \A event, t : EventsOf(event, t)' = EventsOf(event, t)
  BY DEF EventsOf
<1>2. \A event, t : Prior(event, t)' = Prior(event, t)
  BY <1>1 DEF Prior, First
<1>3. SolvedIsOfAStart'
  <2> SUFFICES ASSUME NEW t \in Traces, NEW k \in EventsOf("solved", t)
               PROVE  /\ log[k].changes \in 0 .. changes'
                      /\ \E j \in EventsOf("started", t) :
                             log[k].changes = changes' =>
                                 log[k].branches = BranchesFound(stored', log[j].scope, log[j].topK)
    BY <1>1 DEF SolvedIsOfAStart
  <2>1. log[k].changes \in 0 .. changes
    BY DEF ReplayInv, SolvedIsOfAStart
  <2>2. PICK j \in EventsOf("started", t) :
            log[k].changes = changes => log[k].branches = BranchesFound(stored, log[j].scope, log[j].topK)
    BY DEF ReplayInv, SolvedIsOfAStart
  <2>3. changes \in Nat
    BY DEF ReplayInv
  <2>4. CASE changes' = changes + 1
    BY <2>1, <2>2, <2>3, <2>4
  <2>5. CASE UNCHANGED <<stored, changes>>
    BY <2>1, <2>2, <2>5
  <2> QED BY <2>4, <2>5
<1>4. QueriesStarted'
  <2> SUFFICES ASSUME NEW r \in Requests, NEW t \in Traces,
                      asked'[r] # None, asked'[r].kind = "query", asked'[r].trace = t
               PROVE  \E j \in EventsOf("started", t) :
                          log[j].scope = asked'[r].scope /\ log[j].topK = asked'[r].topK
    BY <1>1 DEF QueriesStarted
  <2>1. asked'[r] = asked[r]
    OBVIOUS
  <2> QED BY <2>1 DEF ReplayInv, QueriesStarted
<1>5. ReplaysHavePrior'
  <2> SUFFICES ASSUME NEW r \in Requests, NEW t \in Traces,
                      asked'[r] # None, asked'[r].kind = "replay", asked'[r].trace = t
               PROVE  EventsOf("solved", t) # {} /\ asked'[r].scope = Prior("started", t).scope
    BY <1>1, <1>2 DEF ReplaysHavePrior
  <2>1. CASE asked'[r] = asked[r]
    BY <2>1 DEF ReplayInv, ReplaysHavePrior
  <2>2. CASE asked'[r] # asked[r]
    BY <2>2
  <2> QED BY <2>1, <2>2
<1> QED BY <1>3, <1>4, <1>5 DEF ReplayInv

(* The replies that are no replay.                                         *)
LEMMA OtherReplies ==
    ASSUME reply'.status # "replayed" PROVE RepliesHavePrior'
BY DEF RepliesHavePrior

(* A query that starts keeps the invariant: it logs with the index         *)
(* unchanged.                                                              *)
LEMMA StartQueryKeeps ==
    ASSUME ReplayInv, NEW r \in Requests, StartQuery(r)
    PROVE  ReplayInv'
<1>1. PICK a \in Asks : /\ a.kind = "query" /\ asked' = [asked EXCEPT ![r] = a]
                        /\ log' = Append(log, [event |-> "started", trace |-> a.trace, scope |-> a.scope,
                                               topK |-> a.topK, changes |-> changes])
  BY DEF StartQuery
<1> DEFINE e == [event |-> "started", trace |-> a.trace, scope |-> a.scope,
                 topK |-> a.topK, changes |-> changes]
<1>2. e \in AuditEvents /\ log' = Append(log, e)
  BY <1>1 DEF Asks, AuditEvents, ReplayInv
<1>3. asked' \in [Requests -> Asks \cup {None}] /\ asked'[r] = a /\ \A q \in Requests : q # r => asked'[q] = asked[q]
  BY <1>1 DEF ReplayInv
<1>4. /\ e.event = "started" /\ e.trace = a.trace /\ e.scope = a.scope /\ e.topK = a.topK
      /\ "started" # "solved"
  OBVIOUS
<1> HIDE DEF e
<1>5. UNCHANGED <<stored, changes, reply>>
  BY DEF StartQuery
<1> QED BY <1>1, <1>2, <1>3, <1>4, <1>5, AppendingKeeps

(* A query that answers keeps it: what it logs was found since its start.  *)
LEMMA FinishQueryKeeps ==
    ASSUME ReplayInv, NEW r \in Requests, FinishQuery(r)
    PROVE  ReplayInv'
<1> DEFINE a == asked[r]
           chunks == Retrieved(stored, a.scope, a.topK)
           result == Solve(Evidence(chunks), a.scope)
           status == Verdict(chunks, Evidence(chunks), result)
           e == IF status = "success"
                THEN [event |-> "solved", trace |-> a.trace, changes |-> changes,
                      branches |-> Cardinality(BranchNames(result))]
                ELSE [event |-> "failed", trace |-> a.trace]
<1>1. /\ a # None /\ a.kind = "query" /\ a \in Asks /\ UNCHANGED <<stored, changes>>
      /\ asked' = [asked EXCEPT ![r] = None] /\ log' = Append(log, e)
      /\ reply'.status = status
  BY DEF FinishQuery, Finish, ReplayInv
<1>2. Cardinality(BranchNames(result)) = BranchesFound(stored, a.scope, a.topK)
  BY DEF BranchesFound
<1>3. status # "replayed"
  BY DEF Verdict
<1>4. a.trace \in Traces /\ a.scope \in QueryScopes /\ a.topK \in TopKs
  BY <1>1 DEF Asks
<1>5. PICK j \in EventsOf("started", a.trace) : log[j].scope = a.scope /\ log[j].topK = a.topK
  BY <1>1, <1>4 DEF ReplayInv, QueriesStarted
<1>6. stored \in SUBSET Chunks /\ changes \in Nat /\ asked \in [Requests -> Asks \cup {None}]
  BY DEF ReplayInv
<1>7. e \in AuditEvents /\ e.trace = a.trace /\ e.event \in {"solved", "failed"}
      /\ (e.event = "solved" => e.changes = changes /\ e.branches = BranchesFound(stored, a.scope, a.topK))
  <2>1. BranchesFound(stored, a.scope, a.topK) \in BranchNumbers
    BY <1>4, <1>6 DEF BranchNumbers
  <2>2. CASE status = "success"
    <3>1. e = [event |-> "solved", trace |-> a.trace, changes |-> changes,
               branches |-> BranchesFound(stored, a.scope, a.topK)]
      BY <1>2, <2>2
    <3> HIDE DEF e
    <3> QED BY <1>4, <1>6, <2>1, <3>1 DEF AuditEvents
  <2>3. CASE status # "success"
    <3>1. e = [event |-> "failed", trace |-> a.trace]
      BY <2>3
    <3> HIDE DEF e
    <3> QED BY <1>4, <3>1 DEF AuditEvents
  <2> QED BY <2>2, <2>3
<1> HIDE DEF e, status
<1>8. asked' \in [Requests -> Asks \cup {None}] /\ asked'[r] = None /\ \A q \in Requests : q # r => asked'[q] = asked[q]
  BY <1>1, <1>6
<1>9. e.event = "solved" => /\ e.changes = changes
                            /\ \E i \in EventsOf("started", e.trace) :
                                   e.branches = BranchesFound(stored, log[i].scope, log[i].topK)
  BY <1>5, <1>7
<1> QED BY <1>1, <1>3, <1>7, <1>8, <1>9, AppendingKeeps

(* A replay that starts keeps it: the trace it names has an original.      *)
LEMMA StartReplayKeeps ==
    ASSUME ReplayInv, NEW r \in Requests, StartReplay(r)
    PROVE  ReplayInv'
<1>1. /\ UNCHANGED <<stored, changes, log>> /\ stored \in SUBSET Chunks /\ changes \in Nat
      /\ asked \in [Requests -> Asks \cup {None}]
  BY DEF StartReplay, ReplayInv
<1>2. PICK a \in Asks :
          /\ a.kind = "replay" /\ a.scope = None
          /\ \/ /\ EventsOf("started", a.trace) # {} /\ EventsOf("solved", a.trace) # {}
                /\ asked' = [asked EXCEPT ![r] = [a EXCEPT !.scope = Prior("started", a.trace).scope]]
                /\ UNCHANGED reply
             \/ /\ reply'.status # "replayed"
                /\ UNCHANGED asked
  BY DEF StartReplay
<1>3. CASE reply'.status # "replayed" /\ UNCHANGED asked
  BY <1>1, <1>3, OtherReplies, SilentKeeps
<1>4. CASE /\ EventsOf("started", a.trace) # {} /\ EventsOf("solved", a.trace) # {}
           /\ asked' = [asked EXCEPT ![r] = [a EXCEPT !.scope = Prior("started", a.trace).scope]]
           /\ UNCHANGED reply
  <2> DEFINE scope == Prior("started", a.trace).scope
             b == [a EXCEPT !.scope = scope]
  <2>1. a.trace \in Traces
    BY DEF Asks
  <2>2. scope \in QueryScopes
    BY <1>4, <2>1, StartedScope DEF ReplayInv
  <2>3. b \in Asks /\ b.kind = "replay" /\ b.trace = a.trace /\ b.scope = scope
    BY <1>2, <2>2 DEF Asks
  <2> HIDE DEF b, scope
  <2>4. asked' = [asked EXCEPT ![r] = b]
    BY <1>4 DEF b, scope
  <2>5. asked' \in [Requests -> Asks \cup {None}] /\ asked'[r] = b /\ \A q \in Requests : q # r => asked'[q] = asked[q]
    BY <1>1, <2>3, <2>4
  <2>6. RepliesHavePrior'
    <3>1. \A event, t : EventsOf(event, t)' = EventsOf(event, t)
      BY <1>1 DEF EventsOf
    <3>2. \A event, t : Prior(event, t)' = Prior(event, t)
      BY <1>1, <3>1 DEF Prior, First
    <3> QED BY <1>4, <3>1, <3>2 DEF RepliesHavePrior, ReplayInv
  <2>7. \A q \in Requests, t \in Traces :
            asked'[q] # asked[q] /\ asked'[q] # None /\ asked'[q].trace = t =>
                /\ asked'[q].kind = "replay" /\ EventsOf("solved", t) # {}
                /\ asked'[q].scope = Prior("started", t).scope
    BY <1>4, <2>3, <2>5 DEF scope
  <2> QED BY <1>1, <2>5, <2>6, <2>7, SilentKeeps
<1> QED BY <1>2, <1>3, <1>4

(* A replay that answers keeps it: it compares with that original.         *)
LEMMA FinishReplayKeeps ==
    ASSUME ReplayInv, NEW r \in Requests, FinishReplay(r)
    PROVE  ReplayInv'
<1> DEFINE a == asked[r]
<1>1. /\ UNCHANGED <<stored, changes, log>> /\ stored \in SUBSET Chunks /\ changes \in Nat
      /\ asked \in [Requests -> Asks \cup {None}]
      /\ a # None /\ a.kind = "replay" /\ a \in Asks /\ a.trace \in Traces
  BY DEF FinishReplay, ReplayInv, Asks
<1>2. /\ asked' = [asked EXCEPT ![r] = None]
      /\ reply' = [status |-> "replayed", trace |-> a.trace, topK |-> a.topK,
                   match |-> BranchesFound(stored, a.scope, a.topK) = Prior("solved", a.trace).branches,
                   changes |-> changes]
  BY DEF FinishReplay, Finish, BranchesFound
<1>3. asked' \in [Requests -> Asks \cup {None}] /\ asked'[r] = None /\ \A q \in Requests : q # r => asked'[q] = asked[q]
  BY <1>1, <1>2
<1>4. RepliesHavePrior'
  <2> SUFFICES ASSUME NEW t \in Traces, t = a.trace
               PROVE  /\ EventsOf("solved", t) # {}
                      /\ /\ Cardinality(EventsOf("started", t)) = 1
                         /\ Prior("started", t).topK = a.topK
                         /\ Prior("solved", t).changes = changes
                         => BranchesFound(stored, a.scope, a.topK) = Prior("solved", t).branches
    <3>1. \A event, t : EventsOf(event, t)' = EventsOf(event, t)
      BY <1>1 DEF EventsOf
    <3>2. \A event, t : Prior(event, t)' = Prior(event, t)
      BY <1>1, <3>1 DEF Prior, First
    <3> QED BY <1>1, <1>2, <3>1, <3>2 DEF RepliesHavePrior
  <2>1. EventsOf("solved", t) # {} /\ a.scope = Prior("started", t).scope
    BY <1>1 DEF ReplayInv, ReplaysHavePrior
  <2> SUFFICES ASSUME Cardinality(EventsOf("started", t)) = 1, Prior("started", t).topK = a.topK,
                      Prior("solved", t).changes = changes
               PROVE  BranchesFound(stored, a.scope, a.topK) = Prior("solved", t).branches
    BY <2>1
  <2>2. \A event : EventsOf(event, t) \in SUBSET (1 .. Len(log)) /\ Len(log) \in Nat
    BY DEF EventsOf, ReplayInv
  <2>3. \A event : EventsOf(event, t) # {} =>
            \E k \in EventsOf(event, t) : Prior(event, t) = log[k]
    <3>1. log \in Seq(AuditEvents)
      BY DEF ReplayInv
    <3> QED BY <3>1, PriorIsOne
  <2>4. PICK k \in EventsOf("solved", t) : Prior("solved", t) = log[k]
    BY <2>1, <2>3
  <2>5. PICK j \in EventsOf("started", t) :
            log[k].changes = changes => log[k].branches = BranchesFound(stored, log[j].scope, log[j].topK)
    BY <2>4 DEF ReplayInv, SolvedIsOfAStart
  <2>6. PICK i \in EventsOf("started", t) : Prior("started", t) = log[i]
    BY <2>3, <2>5
  <2>7. i = j
    <3>1. IsFiniteSet(EventsOf("started", t))
      <4>1. IsFiniteSet(1 .. Len(log))
        BY <2>2, FS_Interval
      <4> QED BY <2>2, <4>1, FS_Subset
    <3>2. PICK x : EventsOf("started", t) = {x}
      BY <3>1, FS_Singleton
    <3> QED BY <2>5, <2>6, <3>2
  <2> QED BY <2>1, <2>4, <2>5, <2>6, <2>7
<1> QED BY <1>1, <1>3, <1>4, SilentKeeps

(* The invariant holds of every reachable state of the queries and         *)
(* replays.                                                                *)
THEOREM ReplayInductive == QuerySpec => []ReplayInv
<1>1. QueryInit => ReplayInv
  <2> SUFFICES ASSUME QueryInit PROVE ReplayInv
    OBVIOUS
  <2>1. \A event, t : EventsOf(event, t) = {}
    BY DEF QueryInit, EventsOf
  <2>2. stored \in SUBSET Chunks /\ changes \in Nat /\ log \in Seq(AuditEvents)
        /\ asked \in [Requests -> Asks \cup {None}]
    BY DEF QueryInit
  <2> QED BY <2>1, <2>2 DEF QueryInit, ReplayInv, QueriesStarted, SolvedIsOfAStart,
                            ReplaysHavePrior, RepliesHavePrior
<1>2. ReplayInv /\ [QueryNext]_queryVars => ReplayInv'
  <2> SUFFICES ASSUME ReplayInv, [QueryNext]_queryVars PROVE ReplayInv'
    OBVIOUS
  <2>s. ASSUME UNCHANGED log, UNCHANGED reply PROVE RepliesHavePrior'
    <3>1. \A event, t : EventsOf(event, t)' = EventsOf(event, t)
      BY <2>s DEF EventsOf
    <3>2. \A event, t : Prior(event, t)' = Prior(event, t)
      BY <2>s, <3>1 DEF Prior, First
    <3> QED BY <2>s, <3>1, <3>2 DEF RepliesHavePrior, ReplayInv
  <2>1. CASE UNCHANGED queryVars
    <3>1. UNCHANGED <<stored, changes, log, asked, reply>>
      BY <2>1 DEF queryVars
    <3> QED BY <2>s, <3>1, SilentKeeps DEF ReplayInv
  <2>2. CASE ChangeIndex
    <3>1. /\ changes' = changes + 1 /\ stored' \in SUBSET Chunks /\ changes' \in Nat
          /\ UNCHANGED <<log, asked, reply>> /\ asked' \in [Requests -> Asks \cup {None}]
      BY <2>2 DEF ChangeIndex, ReplayInv
    <3> QED BY <2>s, <3>1, SilentKeeps
  <2>3. ASSUME NEW r \in Requests, StartQuery(r) PROVE ReplayInv'
    BY <2>3, StartQueryKeeps
  <2>4. ASSUME NEW r \in Requests, FinishQuery(r) PROVE ReplayInv'
    BY <2>4, FinishQueryKeeps
  <2>5. ASSUME NEW r \in Requests, StartReplay(r) PROVE ReplayInv'
    BY <2>5, StartReplayKeeps
  <2>6. ASSUME NEW r \in Requests, FinishReplay(r) PROVE ReplayInv'
    BY <2>6, FinishReplayKeeps
  <2> QED BY <2>1, <2>2, <2>3, <2>4, <2>5, <2>6 DEF QueryNext
<1> QED BY <1>1, <1>2, PTL DEF QuerySpec

(* The replay of a solve matches it if its trace id belongs to that solve  *)
(* alone, the index is what it was and the top_k is the same, whatever was *)
(* asked or failed in between (constraints.py:199-285), for any chunks,    *)
(* requests and traces.                                                    *)
THEOREM ReplayMatches == QuerySpec => []ReplayOfUnchangedMatches
<1>1. ReplayInv => ReplayOfUnchangedMatches
  BY DEF ReplayInv, RepliesHavePrior, ReplayOfUnchangedMatches, Prior
<1> QED BY <1>1, ReplayInductive, PTL
-----------------------------------------------------------------------------
(***************************************************************************)
(* ConstraintQuery, the scopes: the retriever takes the chunks at and      *)
(* below a scope, the solver counts the rules at and above it, and only    *)
(* the scope itself is in both.                                            *)
(***************************************************************************)

(* The retrieved chunks are chunks of the index that the filter lets pass. *)
LEMMA InOrderFacts ==
    ASSUME NEW S \in SUBSET Chunks
    PROVE  /\ InOrder(S) \in Seq(S)
           /\ \A c \in S : \E n \in 1 .. Len(InOrder(S)) : InOrder(S)[n] = c
<1> DEFINE ahead == [c \in S |-> BetterThan(c, S)]
           N == Cardinality(S)
           at(n) == CHOOSE c \in S : Cardinality(BetterThan(c, S)) = n - 1
           q == InOrder(S)
<1>1. IsFiniteSet(S) /\ N \in Nat
  <2>1. IsFiniteSet(S)
    BY QueryAssumption, FS_Subset
  <2> QED BY <2>1, FS_CardinalityType
<1>2. \A c \in S : c.rank \in Nat /\ \A d \in S : c.rank = d.rank => c = d
  BY QueryAssumption
<1>3. Orders(ahead, S) /\ \A c \in S : ahead[c] = BetterThan(c, S)
  BY <1>2 DEF Orders, BetterThan
<1> HIDE DEF ahead
<1>4. /\ \A c \in S : Cardinality(ahead[c]) \in 0 .. N - 1
      /\ \A c, d \in S : Cardinality(ahead[c]) = Cardinality(ahead[d]) => c = d
      /\ \A m \in 1 .. N : \E c \in S : Cardinality(ahead[c]) = m - 1
  BY <1>1, <1>3, Ranking
<1>5. q = [n \in 1 .. N |-> at(n)]
  BY DEF InOrder
<1>6. \A n \in 1 .. N : at(n) \in S /\ Cardinality(BetterThan(at(n), S)) = n - 1
  BY <1>3, <1>4
<1> HIDE DEF q, at, N
<1>7. q \in Seq(S) /\ Len(q) = N /\ \A n \in 1 .. N : q[n] = at(n)
  <2>1. q \in [1 .. N -> S]
    BY <1>5, <1>6
  <2> QED BY <1>1, <1>5, <2>1
<1>8. ASSUME NEW c \in S PROVE \E n \in 1 .. N : q[n] = c
  <2> DEFINE m == Cardinality(ahead[c]) + 1
  <2>1. m \in 1 .. N /\ m - 1 = Cardinality(ahead[c])
    BY <1>1, <1>4
  <2>2. at(m) \in S /\ Cardinality(ahead[at(m)]) = Cardinality(ahead[c])
    BY <1>3, <1>6, <2>1
  <2>3. at(m) = c
    BY <1>4, <2>2
  <2> HIDE DEF m
  <2> QED BY <1>7, <2>1, <2>3
<1> QED BY <1>7, <1>8 DEF q

(* Two paths that begin with each other are the same.                      *)
LEMMA PrefixesOfEachOther ==
    ASSUME NEW T, NEW s \in Seq(T), NEW t \in Seq(T), IsPrefix(s, t), IsPrefix(t, s)
    PROVE  s = t
<1>1. Len(s) = Len(t) /\ SubSeq(s, 1, Len(s)) = SubSeq(t, 1, Len(s))
  BY DEF IsPrefix
<1>2. SubSeq(s, 1, Len(s)) = s /\ SubSeq(t, 1, Len(t)) = t
  OBVIOUS
<1> QED BY <1>1, <1>2

Passing(index, scope, topK) == {c \in Best(index, topK) : PassesFilter(c, scope)}

(* What is retrieved is what the filter lets pass of the best chunks.      *)
IsArranged(q, S) ==
    /\ S \in SUBSET Chunks
    /\ q \in Seq(Chunks)
    /\ \A n \in 1 .. Len(q) : q[n] \in S
    /\ \A c \in S : \E n \in 1 .. Len(q) : q[n] = c

LEMMA RetrievedArePassing ==
    ASSUME NEW index \in SUBSET Chunks, NEW scope, NEW topK
    PROVE  IsArranged(Retrieved(index, scope, topK), Passing(index, scope, topK))
<1> DEFINE S == Passing(index, scope, topK)
           q == Retrieved(index, scope, topK)
<1>1. q = InOrder(S)
  BY DEF Retrieved, Passing
<1>2. S \in SUBSET Chunks
  BY DEF Passing, Best
<1> HIDE DEF S, q
<1>3. q \in Seq(S) /\ \A c \in S : \E n \in 1 .. Len(q) : q[n] = c
  BY <1>1, <1>2, InOrderFacts
<1>4. q \in Seq(Chunks) /\ \A n \in 1 .. Len(q) : q[n] \in S
  BY <1>2, <1>3
<1> QED BY <1>2, <1>3, <1>4 DEF S, q, IsArranged

(* The rules of the chunks are such that the sorts can order them.         *)
LEMMA RulesComparable ==
    /\ Ranked(RulesOf(Chunks)) /\ Comparable(RulesOf(Chunks))
    /\ \A c \in Chunks : c.rules \in Seq(RulesOf(Chunks)) /\ \A k \in DOMAIN c.rules : c.rules[k].scope = c.scope
<1>1. ASSUME NEW c \in Chunks, NEW k \in DOMAIN c.rules
      PROVE  /\ c.rules[k] \in RulesOf(Chunks) /\ c.rules[k].scope = c.scope
             /\ c.rules[k].level \in Int /\ c.rules[k].conf \in Int
  <2>1. c.rules[k] \in ToSet(c.rules)
    BY <1>1 DEF ToSet
  <2>2. c.rules[k] \in RulesOf(Chunks)
    BY <2>1 DEF RulesOf
  <2>3. c.rules[k].scope = c.scope /\ c.rules[k].level \in Nat /\ c.rules[k].conf \in Nat
    BY <1>1, QueryAssumption
  <2> QED BY <2>2, <2>3
<1>2. \A rule \in RulesOf(Chunks) : \E c \in Chunks : \E k \in DOMAIN c.rules : rule = c.rules[k]
  BY DEF RulesOf, ToSet
<1>3. ASSUME NEW c \in Chunks PROVE c.rules \in Seq(RulesOf(Chunks))
  <2>1. c.rules \in Seq(ToSet(c.rules))
    BY QueryAssumption
  <2>2. \A k \in 1 .. Len(c.rules) : c.rules[k] \in RulesOf(Chunks)
    BY <1>1, <2>1
  <2> QED BY <2>1, <2>2
<1>4. \A rule \in RulesOf(Chunks) : rule.level \in Int /\ rule.conf \in Int
  BY <1>1, <1>2
<1> QED BY <1>1, <1>3, <1>4 DEF Ranked, Comparable

(* Each rule of the evidence is a rule of one of the chunks retrieved, and *)
(* each rule of these has its key in the evidence.                         *)
LEMMA EvidenceIsOfChunks ==
    ASSUME NEW chunks \in Seq(Chunks)
    PROVE  /\ Evidence(chunks) \in Seq(RulesOf(Chunks))
           /\ \A e \in 1 .. Len(Evidence(chunks)) : \E n \in 1 .. Len(chunks) :
                 \E k \in DOMAIN chunks[n].rules : Evidence(chunks)[e] = chunks[n].rules[k]
           /\ \A n \in 1 .. Len(chunks) : \A k \in DOMAIN chunks[n].rules :
                 \E e \in 1 .. Len(Evidence(chunks)) : KeyOf(Evidence(chunks)[e]) = KeyOf(chunks[n].rules[k])
<1> DEFINE T == RulesOf(Chunks)
           ss == [k \in DOMAIN chunks |-> chunks[k].rules]
           cs == FlattenSeq(ss)
           q == Evidence(chunks)
<1>1. /\ Len(chunks) \in Nat /\ DOMAIN chunks = 1 .. Len(chunks)
      /\ \A n \in 1 .. Len(chunks) : chunks[n] \in Chunks
  OBVIOUS
<1>2. \A n \in 1 .. Len(chunks) : chunks[n].rules \in Seq(T)
  BY <1>1, RulesComparable
<1>3. ss \in Seq(Seq(T)) /\ Len(ss) = Len(chunks) /\ \A n \in 1 .. Len(chunks) : ss[n] = chunks[n].rules
  <2> HIDE DEF T
  <2>1. ss \in [1 .. Len(chunks) -> Seq(T)]
    BY <1>1, <1>2
  <2> QED BY <1>1, <2>1
<1>4. q = Deduplicated(cs)
  BY DEF Evidence
<1> HIDE DEF T, ss
<1>5. IsFlattening(cs, ss, T)
  BY <1>3, FlattenFacts
<1> HIDE DEF cs, q
<1>6. IsDeduplication(q, cs, T)
  <2>1. cs \in Seq(T) /\ Comparable(T)
    BY <1>5, RulesComparable DEF IsFlattening, T
  <2> QED BY <1>4, <2>1, DeduplicatedFacts
<1>7. ASSUME NEW e \in 1 .. Len(q)
      PROVE  \E n \in 1 .. Len(chunks) : \E k \in DOMAIN chunks[n].rules : q[e] = chunks[n].rules[k]
  <2>1. PICK i \in 1 .. Len(cs) : q[e] = cs[i]
    BY <1>6 DEF IsDeduplication
  <2>2. PICK n \in 1 .. Len(ss) : \E j \in 1 .. Len(ss[n]) : cs[i] = ss[n][j]
    BY <1>5 DEF IsFlattening
  <2>3. PICK j \in 1 .. Len(ss[n]) : cs[i] = ss[n][j]
    BY <2>2
  <2>4. n \in 1 .. Len(chunks) /\ ss[n] = chunks[n].rules /\ DOMAIN ss[n] = 1 .. Len(ss[n])
    BY <1>2, <1>3
  <2> QED BY <2>1, <2>3, <2>4
<1>8. q \in Seq(T)
  BY <1>6 DEF IsDeduplication
<1>9. ASSUME NEW n \in 1 .. Len(chunks), NEW k \in DOMAIN chunks[n].rules
      PROVE  \E e \in 1 .. Len(q) : KeyOf(q[e]) = KeyOf(chunks[n].rules[k])
  <2>1. n \in 1 .. Len(ss) /\ ss[n] = chunks[n].rules /\ k \in 1 .. Len(ss[n])
    BY <1>2, <1>3, <1>9
  <2>2. PICK i \in 1 .. Len(cs) : cs[i] = chunks[n].rules[k]
    BY <1>5, <2>1 DEF IsFlattening
  <2> QED BY <1>6, <2>2 DEF IsDeduplication
<1> QED BY <1>7, <1>8, <1>9 DEF q, T

(* The ends that are reported of an interval.                              *)
LEMMA ReportedEnds ==
    ASSUME NEW r, r.interval \in SUBSET Grid, r.interval # {}
    PROVE  LET g == ReportRange(r) IN
           /\ \A x \in r.interval : (g.lower # None => 2 * g.lower <= x) /\ (g.upper # None => x <= 2 * g.upper)
           /\ g.lower # None => 2 * g.lower \in r.interval
           /\ g.upper # None => 2 * g.upper \in r.interval
<1> DEFINE F == r.interval
           lower == End(Least(F))
           upper == End(Greatest(F))
<1>1. ReportRange(r).lower = lower /\ ReportRange(r).upper = upper
  BY DEF ReportRange
<1>2. /\ Least(F) \in F /\ \A h \in F : Least(F) <= h
      /\ Greatest(F) \in F /\ \A h \in F : h <= Greatest(F)
  BY Extremes
<1>3. Least(F) \in Int /\ Greatest(F) \in Int
  BY <1>2, GridIsInt
<1>4. (lower # None => 2 * lower = Least(F)) /\ (upper # None => 2 * upper = Greatest(F))
  BY <1>3, EndIsAPoint
<1> HIDE DEF lower, upper
<1> QED BY <1>1, <1>2, <1>4

(* The rules of the property, for any index.                               *)
OwnRules(index, scope, topK) ==
    {r \in RulesOf({c \in Passing(index, scope, topK) : c.scope = scope}) : r.interval # None}

Undisputed(index, scope, topK) ==
    {r \in OwnRules(index, scope, topK) :
        \A d \in RulesOf(Passing(index, scope, topK)) :
            KeyOf(d) = KeyOf(r) => /\ d.scope = r.scope /\ d.branch = r.branch
                                   /\ d.interval = r.interval}

(* Rules of a chunk belong to the rules of a set that has it.              *)
LEMMA RulesInSet ==
    ASSUME NEW S, NEW c \in S, NEW k \in DOMAIN c.rules
    PROVE  c.rules[k] \in RulesOf(S)
BY DEF RulesOf, ToSet

(* The rules that the solver counts for a scope are rules of that scope,   *)
(* and each undisputed one is counted.                                     *)
IsCounted(U, index, scope, topK, cell) ==
    /\ U \subseteq Of(OwnRules(index, scope, topK), cell)
    /\ \A r \in Of(Undisputed(index, scope, topK), cell) : \E u \in U : u.interval = r.interval

LEMMA CountedAreOwn ==
    ASSUME NEW index \in SUBSET Chunks, NEW scope \in QueryScopes, scope # None, NEW topK, NEW cell
    PROVE  LET es == Evidence(Retrieved(index, scope, topK)) IN
           /\ es \in Seq(RulesOf(Chunks))
           /\ IsCounted(CountedOf(es, scope, cell), index, scope, topK, cell)
<1> DEFINE S == Passing(index, scope, topK)
           chunks == Retrieved(index, scope, topK)
           es == Evidence(chunks)
           U == CountedOf(es, scope, cell)
           own == OwnRules(index, scope, topK)
<1>1. /\ S \in SUBSET Chunks /\ chunks \in Seq(Chunks)
      /\ \A n \in 1 .. Len(chunks) : chunks[n] \in S
      /\ \A c \in S : \E n \in 1 .. Len(chunks) : chunks[n] = c
  <2>1. IsArranged(chunks, S)
    BY RetrievedArePassing
  <2> HIDE DEF chunks, S
  <2> QED BY <2>1 DEF IsArranged
<1>2. \A c \in S : IsPrefix(scope, c.scope)
  BY DEF Passing, PassesFilter
<1>3. scope \in Seq(STRING)
  BY QueryAssumption
<1>s. own = {r \in RulesOf({c \in S : c.scope = scope}) : r.interval # None}
  BY DEF OwnRules
<1>u. \A r \in Undisputed(index, scope, topK) :
         /\ r \in own
         /\ \A d \in RulesOf(S) : KeyOf(d) = KeyOf(r) => /\ d.scope = r.scope /\ d.branch = r.branch
                                                         /\ d.interval = r.interval
  BY DEF Undisputed
<1> HIDE DEF chunks, S, own
<1>4. /\ es \in Seq(RulesOf(Chunks))
      /\ \A e \in 1 .. Len(es) : \E n \in 1 .. Len(chunks) :
            \E k \in DOMAIN chunks[n].rules : es[e] = chunks[n].rules[k]
      /\ \A n \in 1 .. Len(chunks) : \A k \in DOMAIN chunks[n].rules :
            \E e \in 1 .. Len(es) : KeyOf(es[e]) = KeyOf(chunks[n].rules[k])
  BY <1>1, EvidenceIsOfChunks
<1> HIDE DEF es
<1>5. \A e \in 1 .. Len(es) : es[e] \in Range(es)
  BY <1>4 DEF Range
<1>6. ASSUME NEW u \in U PROVE u \in Of(own, cell)
  <2>1. u \in Range(es) /\ CellOf(u) = cell /\ Applies(u, scope) /\ u.interval # None
    BY <1>6 DEF CountedOf
  <2>2. PICK e \in 1 .. Len(es) : u = es[e]
    BY <1>4, <2>1 DEF Range
  <2>3. PICK n \in 1 .. Len(chunks) : \E k \in DOMAIN chunks[n].rules : u = chunks[n].rules[k]
    BY <1>4, <2>2
  <2>4. PICK k \in DOMAIN chunks[n].rules : u = chunks[n].rules[k]
    BY <2>3
  <2> DEFINE c == chunks[n]
  <2>5. c \in S /\ c \in Chunks
    BY <1>1
  <2>6. u.scope = c.scope
    BY <2>4, <2>5, RulesComparable
  <2>7. c.scope \in Seq(STRING) /\ c.scope # None
    BY <2>5, QueryAssumption
  <2>8. IsPrefix(c.scope, scope)
    BY <2>1, <2>6, <2>7 DEF Applies
  <2>9. c.scope = scope
    <3> HIDE DEF c
    <3> QED BY <1>2, <1>3, <2>5, <2>7, <2>8, PrefixesOfEachOther
  <2>10. u \in RulesOf({d \in S : d.scope = scope})
    <3>1. c \in {d \in S : d.scope = scope}
      BY <2>5, <2>9
    <3> QED BY <2>4, <3>1, RulesInSet
  <2> QED BY <1>s, <2>1, <2>10 DEF Of, CellOf
<1>7. ASSUME NEW r \in Of(Undisputed(index, scope, topK), cell) PROVE \E u \in U : u.interval = r.interval
  <2>1. /\ r \in own /\ CellOf(r) = cell
        /\ \A d \in RulesOf(S) : KeyOf(d) = KeyOf(r) => /\ d.scope = r.scope /\ d.branch = r.branch
                                                        /\ d.interval = r.interval
    BY <1>7, <1>u DEF Of, CellOf
  <2>2. r \in RulesOf({c \in S : c.scope = scope}) /\ r.interval # None
    BY <1>s, <2>1
  <2>3. PICK c \in S : c.scope = scope /\ r \in ToSet(c.rules)
    BY <2>2 DEF RulesOf
  <2>4. PICK k \in DOMAIN c.rules : r = c.rules[k]
    BY <2>3 DEF ToSet
  <2>5. r.scope = scope
    BY <1>1, <2>3, <2>4, RulesComparable
  <2>6. PICK n \in 1 .. Len(chunks) : chunks[n] = c
    BY <1>1
  <2>7. PICK e \in 1 .. Len(es) : KeyOf(es[e]) = KeyOf(r)
    BY <1>4, <2>4, <2>6
  <2> DEFINE u == es[e]
  <2>8. PICK m \in 1 .. Len(chunks) : \E j \in DOMAIN chunks[m].rules : u = chunks[m].rules[j]
    BY <1>4
  <2>9. PICK j \in DOMAIN chunks[m].rules : u = chunks[m].rules[j]
    BY <2>8
  <2>10. u \in RulesOf(S)
    BY <1>1, <2>9, RulesInSet
  <2>11. u.scope = scope /\ u.branch = r.branch /\ u.interval = r.interval
    BY <2>1, <2>5, <2>7, <2>10
  <2>12. u.param = r.param
    BY <2>7 DEF KeyOf
  <2>13. IsPrefix(scope, scope)
    BY <1>3 DEF IsPrefix
  <2>14. u \in U
    <3>1. u \in Range(es)
      BY <1>5
    <3> HIDE DEF u
    <3> QED BY <2>1, <2>2, <2>11, <2>12, <2>13, <3>1 DEF CountedOf, CellOf, Applies
  <2> QED BY <2>11, <2>14
<1> HIDE DEF U
<1> QED BY <1>4, <1>6, <1>7 DEF U, es, chunks, own, IsCounted

(* Portion is what the reference keeps to.                                 *)
LEMMA PortionKeeps ==
    ASSUME NEW r \in RulesOf(Chunks), r.interval # None, NEW x \in Grid
    PROVE  x \in Portion(r.interval) <=> Keeps(x, r)
<1>1. PICK c \in Chunks : r \in ToSet(c.rules)
  BY DEF RulesOf
<1>2. PICK k \in DOMAIN c.rules : r = c.rules[k]
  BY <1>1 DEF ToSet
<1>3. r.interval \in IntervalDicts
  BY <1>2, QueryAssumption
<1> QED BY <1>3 DEF IntervalDicts, Bounds, Portion, Keeps, Grid

(* What conflicts is told.                                                 *)
LEMMA ConflictsAreTold ==
    ASSUME NEW cs, NEW active
    PROVE  Solve(cs, active).conflicts # {} => Solve(cs, active).status = "CONFLICT"
<1> DEFINE cells == {<<cs[k].branch, cs[k].param>> : k \in DOMAIN cs}
           result == [cell \in cells |->
               SolveParameter(Selected(cs, {c \in Range(cs) : <<c.branch, c.param>> = cell}), active)]
           conflicts == {cell \in cells : result[cell].conflict}
           kept == {cell \in cells : ~result[cell].conflict /\ result[cell].interval # {}}
           status == IF conflicts # {} THEN "CONFLICT" ELSE IF kept = {} THEN "EMPTY" ELSE "OK"
<1>1. Solve(cs, active).conflicts = conflicts /\ Solve(cs, active).status = status
  BY DEF Solve
<1>2. conflicts # {} => status = "CONFLICT"
  <2> HIDE DEF conflicts, kept
  <2> QED OBVIOUS
<1> HIDE DEF conflicts, status
<1> QED BY <1>1, <1>2

(* An answer for a scope is that of the rules of the scope.                *)
IsOfScope(ranges, own, undisputed) ==
    /\ \A r \in undisputed : <<r.branch, r.param>> \in DOMAIN ranges
    /\ \A cell \in DOMAIN ranges :
          LET lower == ranges[cell].lower upper == ranges[cell].upper IN
          /\ Of(own, cell) # {}
          /\ \A x \in Grid : (\A r \in Of(own, cell) : Keeps(x, r)) =>
                (lower # None => 2 * lower <= x) /\ (upper # None => x <= 2 * upper)
          /\ \A r \in Of(undisputed, cell) :
                (lower # None => Keeps(2 * lower, r)) /\ (upper # None => Keeps(2 * upper, r))

LEMMA AnsweredFromScope ==
    ASSUME NEW index \in SUBSET Chunks, NEW scope \in QueryScopes, scope # None, NEW topK,
           NEW es, es = Evidence(Retrieved(index, scope, topK)), Solve(es, scope).status # "CONFLICT"
    PROVE  IsOfScope(Solve(es, scope).ranges, OwnRules(index, scope, topK), Undisputed(index, scope, topK))
<1> DEFINE T == RulesOf(Chunks)
           s == Solve(es, scope)
           own == OwnRules(index, scope, topK)
           undisputed == Undisputed(index, scope, topK)
           U(cell) == CountedOf(es, scope, cell)
           r(cell) == CellResult(es, scope, cell)
<1>1. Ranked(T)
  BY RulesComparable
<1>2. es \in Seq(T)
  <2>1. Retrieved(index, scope, topK) \in Seq(Chunks)
    BY RetrievedArePassing DEF IsArranged
  <2> QED BY <2>1, EvidenceIsOfChunks
<1>3. own \subseteq T
  BY DEF OwnRules, RulesOf, Passing, Best
<1>4. ASSUME NEW cell
      PROVE  /\ U(cell) \subseteq Of(own, cell)
             /\ \A d \in Of(undisputed, cell) : \E u \in U(cell) : u.interval = d.interval
  <2>1. IsCounted(U(cell), index, scope, topK, cell)
    BY CountedAreOwn
  <2> HIDE DEF U
  <2> QED BY <2>1 DEF IsCounted
<1>5. \A d \in undisputed : d \in own
  BY DEF Undisputed
<1>6. \A d \in own : d.interval # None
  BY DEF OwnRules
<1> HIDE DEF own, undisputed
<1>7. ASSUME NEW cell
      PROVE  /\ r(cell).conflict <=> U(cell) # {} /\ LeftBy(U(cell)) = {}
             /\ r(cell).interval = IF U(cell) = {} THEN {} ELSE LeftBy(U(cell))
  <2> HIDE DEF T
  <2> QED BY <1>1, <1>2, CellIsIntersected
<1>8. /\ DOMAIN s.ranges \subseteq CellsOf(es)
      /\ \A cell \in CellsOf(es) :
            /\ cell \in s.conflicts <=> r(cell).conflict
            /\ cell \in DOMAIN s.ranges <=> ~r(cell).conflict /\ r(cell).interval # {}
            /\ cell \in DOMAIN s.ranges => s.ranges[cell] = ReportRange(r(cell))
  <2>1. s = Solve(es, scope)
    OBVIOUS
  <2> HIDE DEF s, r
  <2> QED BY <2>1, SolveByCell DEF r
<1>9. s.conflicts = {}
  <2>1. s = Solve(es, scope)
    OBVIOUS
  <2> HIDE DEF s
  <2> QED BY <2>1, ConflictsAreTold DEF s
<1>10. \A cell : U(cell) # {} => cell \in CellsOf(es)
  BY <1>2 DEF CountedOf, CellsOf, Range
<1>11. \A cell : U(cell) \subseteq T
  BY <1>3, <1>4 DEF Of
<1> HIDE DEF U, r, T, s
<1>12. ASSUME NEW d \in undisputed PROVE <<d.branch, d.param>> \in DOMAIN s.ranges
  <2> DEFINE cell == <<d.branch, d.param>>
  <2>1. d \in Of(undisputed, cell)
    BY DEF Of
  <2>2. U(cell) # {}
    BY <1>4, <2>1
  <2> HIDE DEF cell
  <2>3. cell \in CellsOf(es) /\ ~r(cell).conflict
    BY <1>8, <1>9, <1>10, <2>2
  <2>4. r(cell).interval # {}
    BY <1>7, <2>2, <2>3
  <2>5. cell \in DOMAIN s.ranges
    BY <1>8, <2>3, <2>4
  <2> QED BY <2>5 DEF cell
<1>13. ASSUME NEW cell \in DOMAIN s.ranges, NEW g, g = s.ranges[cell]
       PROVE  /\ Of(own, cell) # {}
              /\ \A x \in Grid : (\A d \in Of(own, cell) : Keeps(x, d)) =>
                    (g.lower # None => 2 * g.lower <= x) /\ (g.upper # None => x <= 2 * g.upper)
              /\ \A d \in Of(undisputed, cell) :
                    (g.lower # None => Keeps(2 * g.lower, d)) /\ (g.upper # None => Keeps(2 * g.upper, d))
  <2> DEFINE F == r(cell).interval
  <2>1. F # {} /\ g = ReportRange(r(cell))
    BY <1>8, <1>13
  <2>2. U(cell) # {} /\ F = LeftBy(U(cell))
    BY <1>7, <2>1
  <2>3. Of(own, cell) # {}
    BY <1>4, <2>2
  <2>4. F \in SUBSET Grid
    BY <2>2 DEF LeftBy
  <2>5. /\ \A x \in F : (g.lower # None => 2 * g.lower <= x) /\ (g.upper # None => x <= 2 * g.upper)
        /\ g.lower # None => 2 * g.lower \in F
        /\ g.upper # None => 2 * g.upper \in F
    BY <2>1, <2>4, ReportedEnds
  <2> HIDE DEF F
  <2>6. ASSUME NEW x \in Grid, \A d \in Of(own, cell) : Keeps(x, d) PROVE x \in F
    <3>1. \A u \in U(cell) : Keeps(x, u) /\ u \in T /\ u.interval # None
      BY <1>4, <1>6, <1>11, <2>6 DEF Of
    <3>2. \A u \in U(cell) : x \in Portion(u.interval)
      BY <2>6, <3>1, PortionKeeps DEF T
    <3> QED BY <2>2, <2>6, <3>2 DEF LeftBy
  <2>7. ASSUME NEW d \in Of(undisputed, cell), NEW x \in F PROVE Keeps(x, d)
    <3>1. PICK u \in U(cell) : u.interval = d.interval
      BY <1>4, <2>7
    <3>2. x \in Grid /\ x \in Portion(d.interval)
      BY <2>2, <2>7, <3>1 DEF LeftBy
    <3>3. d \in T /\ d.interval # None
      BY <1>3, <1>5, <1>6, <2>7 DEF Of
    <3> QED BY <3>2, <3>3, PortionKeeps DEF T
  <2> QED BY <2>3, <2>5, <2>6, <2>7
<1> QED BY <1>12, <1>13 DEF own, undisputed, s, IsOfScope

(* Every step of the queries keeps the property.                           *)
LEMMA ScopeStep ==
    ReplayInv /\ OnlyTheScopeItselfCounts /\ [QueryNext]_queryVars => OnlyTheScopeItselfCounts'
<1> SUFFICES ASSUME ReplayInv, OnlyTheScopeItselfCounts, [QueryNext]_queryVars
             PROVE  OnlyTheScopeItselfCounts'
  OBVIOUS
<1> USE DEF Retrievable, RulesOfTheScope, UndisputedRules
<1>1. CASE UNCHANGED reply
  BY <1>1 DEF OnlyTheScopeItselfCounts
<1>2. CASE reply'.status # "success"
  BY <1>2 DEF OnlyTheScopeItselfCounts
<1>3. ASSUME NEW r \in Requests, FinishQuery(r), reply'.status = "success" PROVE OnlyTheScopeItselfCounts'
  <2> DEFINE a == asked[r]
             chunks == Retrieved(stored, a.scope, a.topK)
             result == Solve(Evidence(chunks), a.scope)
  <2>1. reply' = [status |-> Verdict(chunks, Evidence(chunks), result), scope |-> a.scope,
                  ranges |-> result.ranges, index |-> stored, topK |-> a.topK]
    BY <1>3 DEF FinishQuery, Finish
  <2>2. stored \in SUBSET Chunks /\ a.scope \in QueryScopes
    BY <1>3 DEF FinishQuery, ReplayInv, Asks
  <2> DEFINE scope == a.scope
             topK == a.topK
             own == OwnRules(stored, scope, topK)
             undisputed == Undisputed(stored, scope, topK)
  <2>3. /\ reply'.scope = scope /\ reply'.ranges = result.ranges
        /\ reply'.index = stored /\ reply'.topK = topK
    BY <2>1
  <2>4. result.status # "CONFLICT"
    BY <1>3, <2>1 DEF Verdict
  <2>5. scope # None => IsOfScope(result.ranges, own, undisputed)
    <3> DEFINE es == Evidence(Retrieved(stored, scope, topK))
    <3>1. result = Solve(es, scope) /\ scope \in QueryScopes
      BY <2>2
    <3> HIDE DEF own, undisputed, result, scope, topK
    <3>2. es = Evidence(Retrieved(stored, scope, topK))
      OBVIOUS
    <3> HIDE DEF es
    <3> QED BY <2>2, <2>4, <3>1, <3>2, AnsweredFromScope DEF own, undisputed
  <2>6. RulesOfTheScope' = own /\ UndisputedRules' = undisputed
    BY <2>3 DEF OwnRules, Undisputed, Passing
  <2> HIDE DEF own, undisputed, result, scope, topK, a
  <2> QED BY <2>3, <2>5, <2>6 DEF OnlyTheScopeItselfCounts, IsOfScope
<1>4. \A r \in Requests : FinishReplay(r) => reply'.status # "success"
  BY DEF FinishReplay, Finish
<1>5. \A r \in Requests : StartReplay(r) => UNCHANGED reply \/ reply'.status # "success"
  BY DEF StartReplay
<1>6. ChangeIndex \/ (\E r \in Requests : StartQuery(r)) \/ UNCHANGED queryVars => UNCHANGED reply
  BY DEF ChangeIndex, StartQuery, queryVars
<1> QED BY <1>1, <1>2, <1>3, <1>4, <1>5, <1>6 DEF QueryNext

(* A query for a scope is answered from the rules stored under exactly     *)
(* that scope, and all of them count that no other of the same key         *)
(* disputes: the retriever drops what is wider (retriever.py:202-215), the *)
(* solver what is narrower (solver.py:385-396, 499-513), for any chunks    *)
(* and scopes.                                                             *)
THEOREM ScopeCounts == QuerySpec => []OnlyTheScopeItselfCounts
<1>1. QueryInit => OnlyTheScopeItselfCounts
  BY DEF QueryInit, OnlyTheScopeItselfCounts
<1> QED BY <1>1, ScopeStep, ReplayInductive, PTL DEF QuerySpec
=============================================================================
