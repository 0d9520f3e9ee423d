----------------------------- MODULE DataProofs -----------------------------
(***************************************************************************)
(* Lemmas about the operators the models are built from. A recursive       *)
(* definition along 0 .. n is reasoned about without the library's         *)
(* induction theorems, which take an operator: the natural numbers are     *)
(* well founded (NatLessThanWellFounded), so a set of them that is not     *)
(* empty has a least one (WFMin), and that is induction for a set P. From  *)
(* it follow that a recursion has a solution (Iterates) and what the       *)
(* solution's values are (ValuesIn).                                       *)
(***************************************************************************)
EXTENDS Selection, SequencesExt, WellFoundedInduction, FiniteSetTheorems, SequenceTheorems,
        TLAPS

Below == {p \in Nat \X Nat : p[1] < p[2]}

(* The order of the natural numbers, as the library's relation.            *)
LEMMA BelowWellFounded == IsWellFoundedOn(Below, Nat)
BY NatLessThanWellFounded DEF OpToRel, Below

(* A set of natural numbers that is not empty has a least one.             *)
LEMMA LeastNumber ==
    ASSUME NEW T \in SUBSET Nat, T # {}
    PROVE  \E x \in T : \A y \in T : x <= y
<1>1. PICK x \in T : \A y \in T : ~ (<<y, x>> \in Below)
  BY WFMin, BelowWellFounded
<1>2. \A y \in T : ~ (y < x)
  BY <1>1 DEF Below
<1> QED BY <1>2

(* Induction along 0 .. n.                                                 *)
LEMMA Induction ==
    ASSUME NEW n \in Nat, NEW P, 0 \in P, \A i \in 1 .. n : i - 1 \in P => i \in P
    PROVE  \A i \in 0 .. n : i \in P
<1> DEFINE T == (0 .. n) \ P
<1> SUFFICES ASSUME T # {} PROVE FALSE
  OBVIOUS
<1>0. T \in SUBSET Nat
  OBVIOUS
<1>1. PICK x \in T : \A y \in T : x <= y
  <2> HIDE DEF T
  <2> QED BY <1>0, LeastNumber
<1>2. x \in 1 .. n /\ x - 1 \in 0 .. n
  BY <1>1
<1>3. x - 1 \in P
  BY <1>1, <1>2
<1> QED BY <1>1, <1>2, <1>3

(* The values of a recursion are in V if each step leads from V into V.    *)
LEMMA ValuesIn ==
    ASSUME NEW n \in Nat, NEW V, NEW f, f[0] \in V,
           \A i \in 1 .. n : f[i - 1] \in V => f[i] \in V
    PROVE  \A i \in 0 .. n : f[i] \in V
<1> DEFINE P == {i \in 0 .. n : f[i] \in V}
<1>1. 0 \in P /\ \A i \in 1 .. n : i - 1 \in P => i \in P
  OBVIOUS
<1>2. \A i \in 0 .. n : i \in P
  <2> HIDE DEF P
  <2> QED BY <1>1, Induction
<1> QED BY <1>2

(* Steps G on V, the i-th being G[i], lead from base to a sequence of      *)
(* values: what makes a recursive definition along 0 .. n one of a function.*)
IsIteration(f, G, base, n, V) ==
    /\ f \in [0 .. n -> V]
    /\ f[0] = base /\ \A i \in 1 .. n : f[i] = G[i][f[i - 1]]

(* Steps on V can be iterated: the recursion along 0 .. n has a solution.  *)
LEMMA Iterates ==
    ASSUME NEW V, NEW base \in V, NEW n \in Nat, NEW G, G \in [1 .. n -> [V -> V]]
    PROVE  \E f : IsIteration(f, G, base, n, V)
<1> DEFINE Reaches(f, k) == f[0] = base /\ \A i \in 1 .. k : f[i] = G[i][f[i - 1]]
           P == {k \in 0 .. n : \E f \in [0 .. k -> V] : Reaches(f, k)}
<1>1. 0 \in P
  <2> DEFINE f == [i \in 0 .. 0 |-> base]
  <2>1. f \in [0 .. 0 -> V] /\ Reaches(f, 0)
    OBVIOUS
  <2> HIDE DEF f, Reaches
  <2> QED BY <2>1
<1>2. ASSUME NEW k \in 1 .. n, k - 1 \in P PROVE k \in P
  <2>1. PICK f \in [0 .. k - 1 -> V] : Reaches(f, k - 1)
    BY <1>2
  <2> DEFINE g == [i \in 0 .. k |-> IF i = k THEN G[k][f[k - 1]] ELSE f[i]]
  <2>2. f[k - 1] \in V /\ G[k] \in [V -> V]
    OBVIOUS
  <2>3. g \in [0 .. k -> V]
    BY <2>2
  <2>4. \A i \in 0 .. k - 1 : g[i] = f[i]
    OBVIOUS
  <2>5. g[k] = G[k][f[k - 1]]
    OBVIOUS
  <2> HIDE DEF g
  <2>6. Reaches(g, k)
    <3>1. g[0] = base
      BY <2>1, <2>4
    <3>2. ASSUME NEW i \in 1 .. k PROVE g[i] = G[i][g[i - 1]]
      <4>1. CASE i = k
        BY <2>4, <2>5, <4>1
      <4>2. CASE i \in 1 .. k - 1
        BY <2>1, <2>4, <4>2
      <4> QED BY <4>1, <4>2
    <3> QED BY <3>1, <3>2
  <2> HIDE DEF Reaches
  <2> QED BY <2>3, <2>6
<1>3. \A i \in 0 .. n : i \in P
  <2> HIDE DEF P
  <2> QED BY <1>1, <1>2, Induction
<1>4. n \in P
  BY <1>3
<1> QED BY <1>4 DEF IsIteration

(* The parts of a selection: what is selected of each prefix.              *)
PartsOf(s, S, T, part) ==
    /\ part \in [0 .. Len(s) -> Seq(T)]
    /\ part[0] = <<>> /\ part[Len(s)] = Selected(s, S)
    /\ \A i \in 1 .. Len(s) :
          part[i] = IF s[i] \in S THEN Append(part[i - 1], s[i]) ELSE part[i - 1]

(* Selected computes what its recursion says, prefix by prefix.            *)
LEMMA SelectionParts ==
    ASSUME NEW T, NEW s \in Seq(T), NEW S
    PROVE  \E part : PartsOf(s, S, T, part)
<1> DEFINE n == Len(s)
           Step(i, q) == IF s[i] \in S THEN Append(q, s[i]) ELSE q
           G == [i \in 1 .. n |-> [q \in Seq(T) |-> Step(i, q)]]
           Parts(f) == [i \in 0 .. n |-> IF i = 0 THEN <<>> ELSE Step(i, f[i - 1])]
           part == CHOOSE f : f = Parts(f)
<1>1. n \in Nat /\ <<>> \in Seq(T) /\ \A i \in 1 .. n, q \in Seq(T) : Step(i, q) \in Seq(T)
  OBVIOUS
<1>2. Selected(s, S) = part[n]
  BY DEF Selected
<1> HIDE DEF n, Step
<1>3. G \in [1 .. n -> [Seq(T) -> Seq(T)]] /\ \A i \in 1 .. n, q \in Seq(T) : G[i][q] = Step(i, q)
  BY <1>1
<1>4. \E f : f = Parts(f)
  <2> HIDE DEF G
  <2>i. PICK f : IsIteration(f, G, <<>>, n, Seq(T))
    BY <1>1, <1>3, Iterates
  <2>1. f \in [0 .. n -> Seq(T)] /\ f[0] = <<>> /\ \A i \in 1 .. n : f[i] = G[i][f[i - 1]]
    BY <2>i DEF IsIteration
  <2>2. \A i \in 1 .. n : f[i] = Step(i, f[i - 1])
    <3> TAKE i \in 1 .. n
    <3>1. f[i - 1] \in Seq(T)
      BY <1>1, <2>1
    <3> QED BY <1>3, <2>1, <3>1
  <2>3. f = Parts(f)
    BY <2>1, <2>2
  <2> QED BY <2>3
<1>5. part = Parts(part)
  BY <1>4
<1> HIDE DEF part
<1>6. part[0] = <<>> /\ \A i \in 1 .. n : part[i] = Step(i, part[i - 1])
  BY <1>1, <1>5
<1>7. \A i \in 0 .. n : part[i] \in Seq(T)
  <2>1. part[0] \in Seq(T) /\ \A i \in 1 .. n : part[i - 1] \in Seq(T) => part[i] \in Seq(T)
    BY <1>1, <1>6
  <2> QED BY <1>1, <2>1, ValuesIn
<1>8. part \in [0 .. n -> Seq(T)]
  BY <1>5, <1>7
<1>9. PartsOf(s, S, T, part)
  BY <1>2, <1>6, <1>8 DEF Step, n, PartsOf
<1> QED BY <1>9

(* The items selected are those of s in S, in the order of s: h gives the  *)
(* place in s of each.                                                     *)
Places(s, S, q, h) ==
    /\ h \in [1 .. Len(q) -> 1 .. Len(s)]
    /\ \A k \in 1 .. Len(q) : q[k] = s[h[k]] /\ q[k] \in S
    /\ \A j, k \in 1 .. Len(q) : j < k => h[j] < h[k]
    /\ \A i \in 1 .. Len(s) : s[i] \in S => \E k \in 1 .. Len(q) : h[k] = i

(* What is selected is found in the sequence, at increasing places.        *)
LEMMA SelectedPlaces ==
    ASSUME NEW T, NEW s \in Seq(T), NEW S
    PROVE  /\ Selected(s, S) \in Seq(T)
           /\ \E h : Places(s, S, Selected(s, S), h)
<1>1. PICK part : PartsOf(s, S, T, part)
  BY SelectionParts
<1>n. Len(s) \in Nat
  OBVIOUS
<1> DEFINE UpTo(i, q, h) ==
               /\ h \in [1 .. Len(q) -> 1 .. i]
               /\ \A k \in 1 .. Len(q) : q[k] = s[h[k]] /\ q[k] \in S
               /\ \A j, k \in 1 .. Len(q) : j < k => h[j] < h[k]
               /\ \A x \in 1 .. i : s[x] \in S => \E k \in 1 .. Len(q) : h[k] = x
           P == {i \in 0 .. Len(s) : \E h : UpTo(i, part[i], h)}
<1>2. 0 \in P
  <2> DEFINE h == [k \in 1 .. 0 |-> 0]
  <2>1. UpTo(0, part[0], h)
    BY <1>1 DEF PartsOf
  <2> HIDE DEF h, UpTo
  <2> QED BY <2>1
<1>3. ASSUME NEW i \in 1 .. Len(s), i - 1 \in P PROVE i \in P
  <2>1. PICK h : UpTo(i - 1, part[i - 1], h)
    BY <1>3
  <2>2. part[i - 1] \in Seq(T) /\ s[i] \in T
    BY <1>1, <1>n DEF PartsOf
  <2>3. CASE s[i] \notin S
    <3>1. part[i] = part[i - 1]
      BY <1>1, <2>3 DEF PartsOf
    <3>2. UpTo(i, part[i], h)
      BY <2>1, <2>2, <2>3, <3>1
    <3> HIDE DEF UpTo
    <3> QED BY <3>2
  <2>4. CASE s[i] \in S
    <3> DEFINE q == part[i - 1]
               m == Len(q)
               g == [k \in 1 .. m + 1 |-> IF k = m + 1 THEN i ELSE h[k]]
    <3>1. part[i] = Append(q, s[i])
      BY <1>1, <2>4 DEF PartsOf
    <3>2. /\ Len(part[i]) = m + 1 /\ part[i][m + 1] = s[i] /\ m \in Nat
          /\ \A k \in 1 .. m : part[i][k] = q[k]
      BY <2>2, <3>1
    <3>i. UpTo(i - 1, q, h)
      BY <2>1
    <3> HIDE DEF q
    <3>h. /\ \A k \in 1 .. m : h[k] \in 1 .. i - 1 /\ q[k] = s[h[k]] /\ q[k] \in S
          /\ \A j, k \in 1 .. m : j < k => h[j] < h[k]
          /\ \A x \in 1 .. i - 1 : s[x] \in S => \E k \in 1 .. m : h[k] = x
      BY <3>i
    <3> HIDE DEF m
    <3>3. /\ g \in [1 .. m + 1 -> 1 .. i] /\ g[m + 1] = i
          /\ \A k \in 1 .. m : g[k] = h[k]
      BY <3>2, <3>h
    <3> HIDE DEF g
    <3>4. UpTo(i, part[i], g)
      <4>1. ASSUME NEW k \in 1 .. m + 1 PROVE part[i][k] = s[g[k]] /\ part[i][k] \in S
        <5>1. CASE k = m + 1
          BY <2>4, <3>2, <3>3, <5>1
        <5>2. CASE k \in 1 .. m
          BY <3>2, <3>3, <3>h, <5>2
        <5> QED BY <3>2, <5>1, <5>2
      <4>2. ASSUME NEW j \in 1 .. m + 1, NEW k \in 1 .. m + 1, j < k PROVE g[j] < g[k]
        <5>1. CASE k = m + 1
          BY <3>2, <3>3, <3>h, <4>2, <5>1
        <5>2. CASE k \in 1 .. m
          BY <3>2, <3>3, <3>h, <4>2, <5>2
        <5> QED BY <3>2, <5>1, <5>2
      <4>3. ASSUME NEW x \in 1 .. i, s[x] \in S PROVE \E k \in 1 .. m + 1 : g[k] = x
        <5>1. CASE x = i
          BY <3>2, <3>3, <5>1
        <5>2. CASE x \in 1 .. i - 1
          <6>1. PICK k \in 1 .. m : h[k] = x
            BY <3>h, <4>3, <5>2
          <6> QED BY <3>2, <3>3, <6>1
        <5> QED BY <5>1, <5>2
      <4> QED BY <3>2, <3>3, <4>1, <4>2, <4>3
    <3> HIDE DEF UpTo
    <3> QED BY <3>4
  <2> QED BY <2>3, <2>4
<1>4. Len(s) \in P
  <2>1. Len(s) \in Nat
    OBVIOUS
  <2> HIDE DEF P
  <2>2. \A i \in 0 .. Len(s) : i \in P
    BY <1>2, <1>3, <2>1, Induction
  <2> QED BY <2>1, <2>2
<1>5. PICK h : UpTo(Len(s), part[Len(s)], h)
  BY <1>4
<1>6. Places(s, S, part[Len(s)], h)
  BY <1>5 DEF Places
<1> QED BY <1>1, <1>6, <1>n DEF PartsOf

(* What of it most proofs need.                                            *)
IsSelection(q, s, S, T) ==
    /\ q \in Seq(T)
    /\ \A k \in 1 .. Len(q) : q[k] \in S /\ \E i \in 1 .. Len(s) : q[k] = s[i]
    /\ \A i \in 1 .. Len(s) : s[i] \in S => \E k \in 1 .. Len(q) : q[k] = s[i]
    /\ (\A i, j \in 1 .. Len(s) : s[i] = s[j] => i = j)
       => \A j, k \in 1 .. Len(q) : q[j] = q[k] => j = k

(* What is selected, in the form most proofs need.                         *)
LEMMA SelectedFacts ==
    ASSUME NEW T, NEW s \in Seq(T), NEW S
    PROVE  IsSelection(Selected(s, S), s, S, T)
<1> DEFINE q == Selected(s, S)
<1>1. PICK h : q \in Seq(T) /\ Places(s, S, q, h)
  BY SelectedPlaces
<1> HIDE DEF q
<1>2. ASSUME \A i, j \in 1 .. Len(s) : s[i] = s[j] => i = j,
             NEW j \in 1 .. Len(q), NEW k \in 1 .. Len(q), q[j] = q[k]
      PROVE  j = k
  <2>1. h[j] = h[k]
    <3>1. /\ h[j] \in 1 .. Len(s) /\ h[k] \in 1 .. Len(s)
          /\ q[j] = s[h[j]] /\ q[k] = s[h[k]]
      BY <1>1 DEF Places
    <3> QED BY <1>2, <3>1
  <2> QED BY <1>1, <2>1 DEF Places
<1>3. ASSUME NEW k \in 1 .. Len(q) PROVE q[k] \in S /\ \E i \in 1 .. Len(s) : q[k] = s[i]
  BY <1>1 DEF Places
<1>4. ASSUME NEW i \in 1 .. Len(s), s[i] \in S PROVE \E k \in 1 .. Len(q) : q[k] = s[i]
  BY <1>1, <1>4 DEF Places
<1> QED BY <1>1, <1>2, <1>3, <1>4 DEF IsSelection, q

(* One more item at the end is selected after the others, or not at all.   *)
LEMMA SelectedAppend ==
    ASSUME NEW T, NEW s \in Seq(T), NEW e \in T, NEW S
    PROVE  Selected(Append(s, e), S) =
               IF e \in S THEN Append(Selected(s, S), e) ELSE Selected(s, S)
<1> DEFINE t == Append(s, e)
<1>1. /\ t \in Seq(T) /\ Len(t) = Len(s) + 1 /\ t[Len(s) + 1] = e /\ Len(s) \in Nat
      /\ \A i \in 1 .. Len(s) : t[i] = s[i]
  OBVIOUS
<1>2. PICK old : PartsOf(s, S, T, old)
  BY SelectionParts
<1> HIDE DEF t
<1>3. PICK new : PartsOf(t, S, T, new)
  BY <1>1, SelectionParts
<1>4. new[Len(s)] = old[Len(s)]
  <2> DEFINE P == {i \in 0 .. Len(s) : new[i] = old[i]}
  <2>1. 0 \in P /\ \A i \in 1 .. Len(s) : i - 1 \in P => i \in P
    BY <1>1, <1>2, <1>3 DEF PartsOf
  <2> HIDE DEF P
  <2>2. \A i \in 0 .. Len(s) : i \in P
    BY <1>1, <2>1, Induction
  <2> QED BY <1>1, <2>2 DEF P
<1>5. new[Len(t)] = IF e \in S THEN Append(new[Len(s)], e) ELSE new[Len(s)]
  <2>1. Len(t) \in 1 .. Len(t) /\ Len(t) - 1 = Len(s) /\ t[Len(t)] = e
    BY <1>1
  <2> QED BY <1>3, <2>1 DEF PartsOf
<1> QED BY <1>2, <1>3, <1>4, <1>5 DEF t, PartsOf

(* Nothing is selected of nothing.                                         *)
LEMMA SelectedEmpty ==
    ASSUME NEW S
    PROVE  Selected(<<>>, S) = <<>>
<1>1. <<>> \in Seq({}) /\ Len(<<>>) = 0
  OBVIOUS
<1> DEFINE s == <<>>
<1>2. PICK part : PartsOf(s, S, {}, part)
  <2>1. s \in Seq({})
    OBVIOUS
  <2> HIDE DEF s
  <2> QED BY <2>1, SelectionParts
<1> QED BY <1>1, <1>2 DEF PartsOf
(* Sets that agree on the items of a sequence select the same.             *)
LEMMA SelectedSame ==
    ASSUME NEW T, NEW s \in Seq(T), NEW S, NEW R,
           \A i \in 1 .. Len(s) : s[i] \in S <=> s[i] \in R
    PROVE  Selected(s, S) = Selected(s, R)
<1>1. PICK p : PartsOf(s, S, T, p)
  BY SelectionParts
<1>2. PICK q : PartsOf(s, R, T, q)
  BY SelectionParts
<1> DEFINE P == {i \in 0 .. Len(s) : p[i] = q[i]}
<1>3. 0 \in P /\ \A i \in 1 .. Len(s) : i - 1 \in P => i \in P
  BY <1>1, <1>2 DEF PartsOf
<1>4. Len(s) \in P
  <2> HIDE DEF P
  <2>1. Len(s) \in Nat
    OBVIOUS
  <2>2. \A i \in 0 .. Len(s) : i \in P
    BY <1>3, <2>1, Induction
  <2> QED BY <2>1, <2>2
<1> QED BY <1>1, <1>2, <1>4 DEF PartsOf

(* A set that holds every item selects the whole sequence.                 *)
LEMMA SelectedAll ==
    ASSUME NEW T, NEW s \in Seq(T), NEW S, \A i \in 1 .. Len(s) : s[i] \in S
    PROVE  Selected(s, S) = s
<1>1. PICK p : PartsOf(s, S, T, p)
  BY SelectionParts
<1> DEFINE P == {i \in 0 .. Len(s) : p[i] = SubSeq(s, 1, i)}
<1>2. 0 \in P
  BY <1>1 DEF PartsOf
<1>3. ASSUME NEW i \in 1 .. Len(s), i - 1 \in P PROVE i \in P
  <2>1. p[i] = Append(p[i - 1], s[i])
    BY <1>1 DEF PartsOf
  <2>2. Append(SubSeq(s, 1, i - 1), s[i]) = SubSeq(s, 1, i)
    OBVIOUS
  <2>3. p[i - 1] = SubSeq(s, 1, i - 1)
    BY <1>3
  <2>4. p[i] = SubSeq(s, 1, i) /\ i \in 0 .. Len(s)
    BY <2>1, <2>2, <2>3
  <2> QED BY <2>4
<1>4. Len(s) \in P
  <2> HIDE DEF P
  <2>1. Len(s) \in Nat
    OBVIOUS
  <2>2. \A i \in 0 .. Len(s) : i \in P
    BY <1>2, <1>3, <2>1, Induction
  <2> QED BY <2>1, <2>2
<1>5. SubSeq(s, 1, Len(s)) = s
  OBVIOUS
<1> QED BY <1>1, <1>4, <1>5 DEF PartsOf

(* The items selected are those at their places.                           *)
LEMMA PlacesFacts ==
    ASSUME NEW T, NEW s \in Seq(T), NEW S
    PROVE  /\ PlacesIn(s, S) \in Seq(1 .. Len(s))
           /\ Selected(s, S) = [k \in 1 .. Len(PlacesIn(s, S)) |-> s[PlacesIn(s, S)[k]]]
<1> DEFINE n == Len(s)
           numbers == [i \in 1 .. n |-> i]
           R == {i \in 1 .. n : s[i] \in S}
           at == PlacesIn(s, S)
<1>1. n \in Nat /\ numbers \in Seq(1 .. n) /\ Len(numbers) = n
      /\ \A i \in 1 .. n : numbers[i] = i /\ (i \in R <=> s[i] \in S) /\ s[i] \in T
  OBVIOUS
<1>2. at = Selected(numbers, R)
  BY DEF PlacesIn
<1> HIDE DEF numbers, R, at
<1>3. PICK p : PartsOf(s, S, T, p)
  BY SelectionParts
<1>4. PICK q : PartsOf(numbers, R, 1 .. n, q)
  BY <1>1, SelectionParts
<1>5. /\ p[0] = <<>> /\ q[0] = <<>>
      /\ \A i \in 0 .. n : p[i] \in Seq(T) /\ q[i] \in Seq(1 .. n)
      /\ \A i \in 1 .. n : IF s[i] \in S
                           THEN p[i] = Append(p[i - 1], s[i]) /\ q[i] = Append(q[i - 1], i)
                           ELSE p[i] = p[i - 1] /\ q[i] = q[i - 1]
  <2>1. /\ p[0] = <<>> /\ \A i \in 0 .. n : p[i] \in Seq(T)
        /\ \A i \in 1 .. n : p[i] = IF s[i] \in S THEN Append(p[i - 1], s[i]) ELSE p[i - 1]
    BY <1>3 DEF PartsOf
  <2>2. /\ q[0] = <<>> /\ \A i \in 0 .. n : q[i] \in Seq(1 .. n)
        /\ \A i \in 1 .. n : q[i] = IF i \in R THEN Append(q[i - 1], i) ELSE q[i - 1]
    <3>1. /\ q \in [0 .. Len(numbers) -> Seq(1 .. n)] /\ q[0] = <<>>
          /\ \A i \in 1 .. Len(numbers) :
                q[i] = IF numbers[i] \in R THEN Append(q[i - 1], numbers[i]) ELSE q[i - 1]
      BY <1>4 DEF PartsOf
    <3>2. Len(numbers) = n
      BY <1>1
    <3> HIDE DEF n
    <3>3. /\ q \in [0 .. n -> Seq(1 .. n)]
          /\ \A i \in 1 .. n :
                q[i] = IF numbers[i] \in R THEN Append(q[i - 1], numbers[i]) ELSE q[i - 1]
      BY <3>1, <3>2
    <3>4. \A i \in 1 .. n : q[i] = IF i \in R THEN Append(q[i - 1], i) ELSE q[i - 1]
      BY <1>1, <3>3
    <3> QED BY <3>1, <3>3, <3>4
  <2> HIDE DEF n
  <2> QED BY <1>1, <2>1, <2>2
<1> DEFINE Follows(x, y) == Len(x) = Len(y) /\ \A k \in 1 .. Len(y) : x[k] = s[y[k]]
           P == {i \in 0 .. n : Follows(p[i], q[i])}
<1>6. 0 \in P
  <2>1. Follows(p[0], q[0]) /\ 0 \in 0 .. n
    BY <1>1, <1>5
  <2> QED BY <2>1
<1>7. ASSUME NEW i \in 1 .. n, i - 1 \in P PROVE i \in P
  <2>0. i - 1 \in 0 .. n /\ i \in 1 .. n
    BY <1>1
  <2>1. CASE s[i] \in S
    <3> DEFINE x == p[i - 1]
               y == q[i - 1]
    <3>1. /\ x \in Seq(T) /\ y \in Seq(1 .. n) /\ Follows(x, y)
          /\ p[i] = Append(x, s[i]) /\ q[i] = Append(y, i) /\ s[i] \in T
      BY <1>1, <1>5, <1>7, <2>0, <2>1
    <3> HIDE DEF x, y
    <3>2. Follows(Append(x, s[i]), Append(y, i))
      BY <3>1
    <3>3. Follows(p[i], q[i])
      <4> HIDE DEF Follows
      <4> QED BY <3>1, <3>2
    <3> HIDE DEF Follows
    <3> QED BY <2>0, <3>3
  <2>2. CASE s[i] \notin S
    <3>1. Follows(p[i - 1], q[i - 1])
      BY <1>7
    <3>2. p[i] = p[i - 1] /\ q[i] = q[i - 1]
      BY <1>5, <2>0, <2>2
    <3> HIDE DEF Follows
    <3> QED BY <2>0, <3>1, <3>2
  <2> QED BY <2>1, <2>2
<1>8. n \in P
  <2> HIDE DEF P
  <2>1. \A i \in 0 .. n : i \in P
    BY <1>1, <1>6, <1>7, Induction
  <2> QED BY <1>1, <2>1
<1>9. p[n] = Selected(s, S) /\ q[n] = at
  BY <1>1, <1>2, <1>3, <1>4 DEF PartsOf
<1>10. at \in Seq(1 .. n) /\ Selected(s, S) \in Seq(T) /\ Follows(Selected(s, S), at)
  <2> HIDE DEF Follows
  <2> QED BY <1>1, <1>5, <1>8, <1>9
<1> HIDE DEF n
<1>11. Selected(s, S) = [k \in 1 .. Len(at) |-> s[at[k]]]
  BY <1>10
<1> QED BY <1>10, <1>11 DEF at, n

(* One more item at the end has the last place, or none.                   *)
LEMMA PlacesAppend ==
    ASSUME NEW T, NEW s \in Seq(T), NEW e \in T, NEW S
    PROVE  PlacesIn(Append(s, e), S) =
               IF e \in S THEN Append(PlacesIn(s, S), Len(s) + 1) ELSE PlacesIn(s, S)
<1> DEFINE n == Len(s)
           t == Append(s, e)
           numbers == [i \in 1 .. n |-> i]
           more == [i \in 1 .. n + 1 |-> i]
           R == {i \in 1 .. n : s[i] \in S}
           Q == {i \in 1 .. n + 1 : t[i] \in S}
<1>1. /\ n \in Nat /\ numbers \in Seq(Nat) /\ Len(numbers) = n
      /\ \A i \in 1 .. n : numbers[i] = i
  OBVIOUS
<1>2. Append(numbers, n + 1) = more
  OBVIOUS
<1>3. n + 1 \in Q <=> e \in S
  OBVIOUS
<1>4. \A i \in 1 .. n : i \in Q <=> i \in R
  OBVIOUS
<1>l. Len(t) = n + 1
  OBVIOUS
<1>5. PlacesIn(s, S) = Selected(numbers, R) /\ PlacesIn(t, S) = Selected(more, Q)
  <2>1. PlacesIn(s, S) = Selected(numbers, R)
    BY DEF PlacesIn
  <2> DEFINE moreBy(m) == [i \in 1 .. m |-> i]
             Qof(m) == {i \in 1 .. m : t[i] \in S}
  <2>2. PlacesIn(t, S) = Selected(moreBy(Len(t)), Qof(Len(t)))
    BY DEF PlacesIn
  <2>3. PlacesIn(t, S) = Selected(moreBy(n + 1), Qof(n + 1))
    <3> HIDE DEF moreBy, Qof, t, n
    <3> QED BY <1>l, <2>2
  <2> QED BY <2>1, <2>3
<1> HIDE DEF n, t, numbers, more, R, Q
<1>6. Selected(more, Q) = IF n + 1 \in Q THEN Append(Selected(numbers, Q), n + 1) ELSE Selected(numbers, Q)
  <2>1. n + 1 \in Nat
    BY <1>1
  <2>2. Selected(Append(numbers, n + 1), Q)
          = IF n + 1 \in Q THEN Append(Selected(numbers, Q), n + 1) ELSE Selected(numbers, Q)
    <3>1. numbers \in Seq(Nat)
      BY <1>1
    <3>2. \A r \in Seq(Nat), i \in Nat :
              Selected(Append(r, i), Q) = IF i \in Q THEN Append(Selected(r, Q), i) ELSE Selected(r, Q)
      BY ZenonT(60), SelectedAppend
    <3> QED BY <2>1, <3>1, <3>2
  <2> QED BY <1>2, <2>2
<1>7. Selected(numbers, Q) = Selected(numbers, R)
  BY <1>1, <1>4, SelectedSame
<1>8. PlacesIn(t, S) = IF e \in S THEN Append(PlacesIn(s, S), n + 1) ELSE PlacesIn(s, S)
  BY <1>3, <1>5, <1>6, <1>7
<1> QED BY <1>8 DEF n, t
-----------------------------------------------------------------------------
(* In a finite set S with a strict order each member has a place: ahead[k] *)
(* are those before k, no two have as many, and no number is left out.     *)
Orders(ahead, S) ==
    /\ ahead \in [S -> SUBSET S]
    /\ \A k \in S : k \notin ahead[k]
    /\ \A j, k \in S : j \in ahead[k] => ahead[j] \subseteq ahead[k]
    /\ \A j, k \in S : j = k \/ j \in ahead[k] \/ k \in ahead[j]

(* The number of those ahead of a member is its place, and each place from *)
(* the first to the last is somebody's.                                    *)
LEMMA Ranking ==
    ASSUME NEW S, IsFiniteSet(S), NEW ahead, Orders(ahead, S)
    PROVE  /\ \A k \in S : Cardinality(ahead[k]) \in 0 .. Cardinality(S) - 1
           /\ \A j, k \in S : Cardinality(ahead[j]) = Cardinality(ahead[k]) => j = k
           /\ \A m \in 1 .. Cardinality(S) : \E k \in S : Cardinality(ahead[k]) = m - 1
<1> DEFINE n == Cardinality(S)
           size == [k \in S |-> Cardinality(ahead[k]) + 1]
<1>1. n \in Nat /\ IsFiniteSet(1 .. n) /\ Cardinality(1 .. n) = n
  <2>1. n \in Nat
    BY FS_CardinalityType
  <2> HIDE DEF n
  <2> QED BY <2>1, FS_Interval
<1>2. ASSUME NEW k \in S
      PROVE  IsFiniteSet(ahead[k]) /\ Cardinality(ahead[k]) \in 0 .. n - 1
  <2>1. ahead[k] \in SUBSET S /\ ahead[k] # S
    BY DEF Orders
  <2>2. IsFiniteSet(ahead[k]) /\ Cardinality(ahead[k]) <= n /\ Cardinality(ahead[k]) # n
    BY <2>1, FS_Subset
  <2>3. Cardinality(ahead[k]) \in Nat
    BY <2>2, FS_CardinalityType
  <2> QED BY <1>1, <2>2, <2>3
<1>3. ASSUME NEW j \in S, NEW k \in S, j \in ahead[k]
      PROVE  Cardinality(ahead[j]) # Cardinality(ahead[k])
  <2>1. ahead[j] \in SUBSET ahead[k] /\ ahead[j] # ahead[k]
    BY <1>3 DEF Orders
  <2> QED BY <1>2, <2>1, FS_Subset
<1>4. \A j, k \in S : Cardinality(ahead[j]) = Cardinality(ahead[k]) => j = k
  BY <1>3 DEF Orders
<1>5. size \in Injection(S, 1 .. n)
  <2>1. size \in [S -> 1 .. n]
    BY <1>1, <1>2
  <2>2. \A j, k \in S : size[j] = size[k] => j = k
    BY <1>2, <1>4
  <2> QED BY <2>1, <2>2 DEF Injection, IsInjective
<1>6. size \in Surjection(S, 1 .. n)
  <2> HIDE DEF size
  <2> QED BY <1>1, <1>5, FS_Injection
<1>7. ASSUME NEW m \in 1 .. n PROVE \E k \in S : Cardinality(ahead[k]) = m - 1
  <2>1. PICK k \in S : size[k] = m
    BY <1>6 DEF Surjection
  <2> QED BY <1>1, <1>2, <2>1
<1> QED BY <1>2, <1>4, <1>7
-----------------------------------------------------------------------------
(* What FlattenSeq makes of a sequence of sequences.                       *)
IsFlattening(q, ss, T) ==
    /\ q \in Seq(T)
    /\ \A k \in 1 .. Len(q) : \E i \in 1 .. Len(ss) : \E j \in 1 .. Len(ss[i]) : q[k] = ss[i][j]
    /\ \A i \in 1 .. Len(ss) : \A j \in 1 .. Len(ss[i]) : \E k \in 1 .. Len(q) : q[k] = ss[i][j]

(* Where the items of a concatenation come from.                           *)
LEMMA Concatenation ==
    ASSUME NEW T, NEW p \in Seq(T), NEW q \in Seq(T)
    PROVE  /\ p \o q \in Seq(T) /\ Len(p \o q) = Len(p) + Len(q)
           /\ \A i \in 1 .. Len(p) : (p \o q)[i] = p[i]
           /\ \A i \in 1 .. Len(q) : (p \o q)[Len(p) + i] = q[i]
           /\ \A k \in 1 .. Len(p) + Len(q) : k \in 1 .. Len(p) \/ \E i \in 1 .. Len(q) : k = Len(p) + i
<1>1. p \o q \in Seq(T) /\ Len(p \o q) = Len(p) + Len(q)
  OBVIOUS
<1>2. \A i \in 1 .. Len(p) : (p \o q)[i] = p[i]
  OBVIOUS
<1>3. \A i \in 1 .. Len(q) : (p \o q)[Len(p) + i] = q[i]
  OBVIOUS
<1>4. \A m, n \in Nat : \A k \in 1 .. m + n : k \in 1 .. m \/ \E i \in 1 .. n : k = m + i
  <2> TAKE m, n \in Nat
  <2> TAKE k \in 1 .. m + n
  <2>1. k \in 1 .. m \/ (k - m \in 1 .. n /\ k = m + (k - m))
    OBVIOUS
  <2> QED BY <2>1
<1>5. Len(p) \in Nat /\ Len(q) \in Nat
  OBVIOUS
<1> QED BY <1>1, <1>2, <1>3, <1>4, <1>5

(* A flattening is built up part by part.                                  *)
FlatParts(ss, T, part) ==
    /\ part[0] = <<>> /\ part[Len(ss)] = FlattenSeq(ss)
    /\ \A i \in 0 .. Len(ss) : part[i] \in Seq(T)
    /\ \A i \in 1 .. Len(ss) : part[i] = part[i - 1] \o ss[i]

(* Flattening one sequence more appends it.                                *)
LEMMA FlattenParts ==
    ASSUME NEW T, NEW ss \in Seq(Seq(T))
    PROVE  \E part : FlatParts(ss, T, part)
<1> DEFINE n == Len(ss)
<1>1. CASE n = 0
  <2> DEFINE part == [i \in 0 .. 0 |-> <<>>]
  <2>1. FlattenSeq(ss) = ss /\ ss = <<>>
    BY <1>1 DEF FlattenSeq
  <2>2. FlatParts(ss, T, part)
    BY <1>1, <2>1 DEF FlatParts
  <2> HIDE DEF part
  <2> QED BY <2>2
<1>2. CASE n # 0
  <2> DEFINE Step(i, f) == IF i = 1 THEN ss[i] ELSE f[i - 1] \o ss[i]
             Parts(f) == [i \in 1 .. n |-> Step(i, f)]
             part == CHOOSE f : f = Parts(f)
  <2>1. FlattenSeq(ss) = part[n]
    BY <1>2 DEF FlattenSeq
  <2>2. n \in Nat \ {0} /\ \A i \in 1 .. n : ss[i] \in Seq(T)
    BY <1>2
  <2> HIDE DEF n
  <2>3. \E f : f = Parts(f)
    <3> DEFINE G == [i \in 1 .. n |-> [q \in Seq(T) |-> q \o ss[i]]]
    <3>1. \A i \in 1 .. n, q \in Seq(T) : q \o ss[i] \in Seq(T)
      BY <2>2
    <3>2. G \in [1 .. n -> [Seq(T) -> Seq(T)]]
      BY <2>2, <3>1
    <3>g. \A i \in 1 .. n, q \in Seq(T) : G[i][q] = q \o ss[i]
      BY <2>2
    <3> HIDE DEF G
    <3>i. PICK f : IsIteration(f, G, <<>>, n, Seq(T))
      <4>1. <<>> \in Seq(T) /\ n \in Nat
        BY <2>2
      <4> QED BY <3>2, <4>1, Iterates
    <3>3. f \in [0 .. n -> Seq(T)] /\ f[0] = <<>> /\ \A i \in 1 .. n : f[i] = G[i][f[i - 1]]
      BY <3>i DEF IsIteration
    <3>4. \A i \in 1 .. n : f[i - 1] \in Seq(T) /\ f[i] = f[i - 1] \o ss[i]
      <4> TAKE i \in 1 .. n
      <4>1. i - 1 \in 0 .. n
        BY <2>2
      <4>2. f[i - 1] \in Seq(T)
        BY <3>3, <4>1
      <4> QED BY <3>3, <3>g, <4>2
    <3>5. 1 \in 1 .. n /\ f[1] = ss[1]
      <4>1. f[1] = f[0] \o ss[1]
        <5>1. 1 \in 1 .. n /\ 1 - 1 = 0
          BY <2>2
        <5>2. f[1] = f[1 - 1] \o ss[1]
          BY <3>4, <5>1
        <5> QED BY <5>1, <5>2
      <4>2. ss[1] \in Seq(T)
        BY <2>2
      <4> QED BY <2>2, <3>3, <4>1, <4>2
    <3> DEFINE g == [i \in 1 .. n |-> f[i]]
    <3>6. \A i \in 1 .. n : g[i] = Step(i, g)
      <4> TAKE i \in 1 .. n
      <4>1. CASE i = 1
        BY <3>5, <4>1
      <4>2. CASE i # 1
        <5>1. i - 1 \in 1 .. n
          BY <2>2, <4>2
        <5> QED BY <3>4, <4>2, <5>1
      <4> QED BY <4>1, <4>2
    <3>7. g = Parts(g)
      BY <3>6
    <3> HIDE DEF g
    <3> QED BY <3>7
  <2>4. part = Parts(part)
    BY <2>3
  <2> HIDE DEF part
  <2>5. part[1] = ss[1] /\ \A i \in 2 .. n : part[i] = part[i - 1] \o ss[i]
    <3>1. \A i \in 1 .. n : part[i] = Step(i, part)
      BY <2>4
    <3>2. 1 \in 1 .. n
      BY <2>2
    <3>3. \A i \in 2 .. n : i \in 1 .. n /\ i # 1
      BY <2>2
    <3> QED BY <3>1, <3>2, <3>3
  <2> DEFINE whole == [i \in 0 .. n |-> IF i = 0 THEN <<>> ELSE part[i]]
  <2>6. 1 \in 1 .. n /\ 0 \in 0 .. n /\ n \in 0 .. n
    BY <2>2
  <2>7. whole[0] = <<>> /\ whole[n] = part[n]
    BY <2>2, <2>6
  <2>8. ASSUME NEW i \in 1 .. n PROVE whole[i] = whole[i - 1] \o ss[i]
    <3>0. i - 1 \in 0 .. n /\ i # 0 /\ whole[i] = part[i]
      BY <2>2
    <3>1. CASE i = 1
      <4>1. whole[i] = ss[i] /\ whole[i - 1] = <<>> /\ ss[i] \in Seq(T)
        BY <2>2, <2>5, <2>7, <3>0, <3>1
      <4> QED BY <4>1, ConcatEmptySeq
    <3>2. CASE i # 1
      <4>1. i - 1 # 0 /\ i \in 2 .. n
        BY <2>2, <3>2
      <4>2. whole[i - 1] = part[i - 1]
        BY <3>0, <4>1
      <4> QED BY <2>5, <3>0, <4>1, <4>2
    <3> QED BY <3>1, <3>2
  <2> HIDE DEF whole
  <2>9. \A i \in 0 .. n : whole[i] \in Seq(T)
    <3>1. whole[0] \in Seq(T) /\ n \in Nat
      BY <2>2, <2>7
    <3>2. ASSUME NEW i \in 1 .. n, whole[i - 1] \in Seq(T) PROVE whole[i] \in Seq(T)
      <4>1. whole[i] = whole[i - 1] \o ss[i] /\ ss[i] \in Seq(T)
        BY <2>2, <2>8
      <4> QED BY <3>2, <4>1, ConcatProperties
    <3> QED BY <3>1, <3>2, ValuesIn
  <2>10. FlatParts(ss, T, whole)
    BY <2>1, <2>7, <2>8, <2>9 DEF FlatParts, n
  <2> QED BY <2>10
<1> QED BY <1>1, <1>2

(* A flattened sequence has the items of its parts and no others.          *)
LEMMA FlattenFacts ==
    ASSUME NEW T, NEW ss \in Seq(Seq(T))
    PROVE  IsFlattening(FlattenSeq(ss), ss, T)
<1> DEFINE n == Len(ss)
           Upto(q, m) ==
               /\ q \in Seq(T)
               /\ \A k \in 1 .. Len(q) : \E i \in 1 .. m : \E j \in 1 .. Len(ss[i]) : q[k] = ss[i][j]
               /\ \A i \in 1 .. m : \A j \in 1 .. Len(ss[i]) : \E k \in 1 .. Len(q) : q[k] = ss[i][j]
<1>1. PICK part : FlatParts(ss, T, part)
  BY FlattenParts
<1>2. /\ n \in Nat /\ part[0] = <<>> /\ part[n] = FlattenSeq(ss)
      /\ \A i \in 1 .. n : ss[i] \in Seq(T)
      /\ \A i \in 0 .. n : part[i] \in Seq(T)
      /\ \A i \in 1 .. n : part[i] = part[i - 1] \o ss[i]
  <2>1. n \in Nat /\ \A i \in 1 .. n : ss[i] \in Seq(T)
    OBVIOUS
  <2> QED BY <1>1, <2>1 DEF FlatParts
<1> HIDE DEF n
<1> DEFINE P == {i \in 0 .. n : Upto(part[i], i)}
<1>3. 0 \in P
  BY <1>2
<1>4. ASSUME NEW i \in 1 .. n, i - 1 \in P PROVE i \in P
  <2> DEFINE p == part[i - 1]
             q == ss[i]
             r == part[i]
  <2>1. /\ p \in Seq(T) /\ q \in Seq(T) /\ r = p \o q /\ i - 1 \in Nat
        /\ \A k \in 1 .. Len(p) : \E x \in 1 .. i - 1 : \E j \in 1 .. Len(ss[x]) : p[k] = ss[x][j]
        /\ \A x \in 1 .. i - 1 : \A j \in 1 .. Len(ss[x]) : \E k \in 1 .. Len(p) : p[k] = ss[x][j]
    <3>1. i - 1 \in 0 .. n /\ i - 1 \in Nat
      BY <1>2
    <3>2. Upto(p, i - 1)
      <4> HIDE DEF Upto
      <4> QED BY <1>4
    <3>3. r = p \o q /\ q \in Seq(T)
      BY <1>2
    <3> HIDE DEF p, q, r
    <3> QED BY <3>1, <3>2, <3>3
  <2> HIDE DEF p, q, r
  <2>2. /\ r \in Seq(T) /\ Len(r) = Len(p) + Len(q) /\ Len(p) \in Nat /\ Len(q) \in Nat
        /\ \A k \in 1 .. Len(p) : r[k] = p[k]
        /\ \A j \in 1 .. Len(q) : r[Len(p) + j] = q[j]
        /\ \A k \in 1 .. Len(r) : k \in 1 .. Len(p) \/ \E j \in 1 .. Len(q) : k = Len(p) + j
    BY <2>1, Concatenation
  <2>3. ASSUME NEW k \in 1 .. Len(r)
        PROVE  \E x \in 1 .. i : \E j \in 1 .. Len(ss[x]) : r[k] = ss[x][j]
    <3>1. CASE k \in 1 .. Len(p)
      <4>1. PICK x \in 1 .. i - 1 : \E j \in 1 .. Len(ss[x]) : p[k] = ss[x][j]
        BY <2>1, <3>1
      <4>2. x \in 1 .. i /\ r[k] = p[k]
        BY <2>1, <2>2, <3>1
      <4> QED BY <4>1, <4>2
    <3>2. ASSUME NEW j \in 1 .. Len(q), k = Len(p) + j
          PROVE  \E x \in 1 .. i : \E y \in 1 .. Len(ss[x]) : r[k] = ss[x][y]
      <4>1. i \in 1 .. i
        OBVIOUS
      <4>2. r[k] = q[j]
        BY <2>2, <3>2
      <4>3. q = ss[i]
        BY DEF q
      <4> QED BY <4>1, <4>2, <4>3
    <3> QED BY <2>2, <3>1, <3>2
  <2>4. ASSUME NEW x \in 1 .. i, NEW j \in 1 .. Len(ss[x])
        PROVE  \E k \in 1 .. Len(r) : r[k] = ss[x][j]
    <3>1. CASE x = i
      <4>1. j \in 1 .. Len(q) /\ q[j] = ss[x][j]
        BY <3>1 DEF q
      <4>2. Len(p) + j \in 1 .. Len(r)
        BY <2>2, <4>1
      <4> QED BY <2>2, <4>1, <4>2
    <3>2. CASE x \in 1 .. i - 1
      <4>1. PICK k \in 1 .. Len(p) : p[k] = ss[x][j]
        BY <2>1, <3>2
      <4>2. k \in 1 .. Len(r) /\ r[k] = p[k]
        BY <2>2
      <4> QED BY <4>1, <4>2
    <3> QED BY <2>1, <3>1, <3>2
  <2>5. Upto(r, i)
    BY <2>2, <2>3, <2>4
  <2> HIDE DEF Upto
  <2> QED BY <2>5 DEF r
<1> HIDE DEF P
<1>5. n \in P
  <2>1. \A i \in 0 .. n : i \in P
    BY <1>2, <1>3, <1>4, Induction
  <2> QED BY <1>2, <2>1
<1>6. Upto(part[n], n)
  BY <1>5 DEF P
<1> HIDE DEF Upto
<1>7. Upto(FlattenSeq(ss), n)
  BY <1>2, <1>6
<1> QED BY <1>7 DEF IsFlattening, Upto, n

(* A text is what comes before a place and what comes after it.            *)
LEMMA SplitAt ==
    ASSUME NEW T, NEW s \in Seq(T), NEW k \in 0 .. Len(s)
    PROVE  /\ SubSeq(s, 1, k) \in Seq(T) /\ SubSeq(s, k + 1, Len(s)) \in Seq(T)
           /\ s = SubSeq(s, 1, k) \o SubSeq(s, k + 1, Len(s))
<1>1. SubSeq(s, 1, k) \in Seq(T) /\ SubSeq(s, k + 1, Len(s)) \in Seq(T)
  OBVIOUS
<1>2. 1 \in 1 .. Len(s) + 1 /\ k \in 1 - 1 .. Len(s) /\ Len(s) \in k .. Len(s)
  OBVIOUS
<1>3. SubSeq(s, 1, k) \o SubSeq(s, k + 1, Len(s)) = SubSeq(s, 1, Len(s))
  BY <1>2, ConcatAdjacentSubSeq
<1> QED BY <1>1, <1>3, SubSeqFull

(* A sequence grows item by item.                                          *)
LEMMA PrefixGrows ==
    ASSUME NEW T, NEW s \in Seq(T), NEW k \in 1 .. Len(s)
    PROVE  /\ SubSeq(s, 1, k - 1) \in Seq(T) /\ s[k] \in T
           /\ SubSeq(s, 1, k) = Append(SubSeq(s, 1, k - 1), s[k])
           /\ SubSeq(s, 1, Len(s)) = s /\ SubSeq(s, 1, 0) = <<>>
OBVIOUS

(* ConcatAssociative, as a formula that the provers can instantiate.       *)
IsGrouped(T) == \A s, t, u \in Seq(T) : (s \o t) \o u = s \o (t \o u)

(* Concatenation may be grouped either way.                                *)
LEMMA Grouping == ASSUME NEW T PROVE IsGrouped(T)
BY ConcatAssociative DEF IsGrouped

(* Appending to the second of two is appending to both.                    *)
LEMMA ConcatAppend ==
    ASSUME NEW T, NEW s \in Seq(T), NEW t \in Seq(T), NEW e \in T
    PROVE  s \o t \in Seq(T) /\ s \o Append(t, e) = Append(s \o t, e)
<1>1. s \o t \in Seq(T) /\ <<e>> \in Seq(T)
  BY ConcatProperties
<1>2. s \o (t \o <<e>>) = (s \o t) \o <<e>>
  BY <1>1, ConcatAssociative
<1> QED BY <1>1, <1>2, AppendIsConcat

(* What is selected of two texts is selected of each.                      *)
LEMMA SelectedConcat ==
    ASSUME NEW T, NEW s \in Seq(T), NEW t \in Seq(T), NEW S
    PROVE  Selected(s \o t, S) = Selected(s, S) \o Selected(t, S)
<1> DEFINE pre(k) == SubSeq(t, 1, k)
           P == {k \in 0 .. Len(t) : Selected(s \o pre(k), S) = Selected(s, S) \o Selected(pre(k), S)}
<1>0. Len(t) \in Nat /\ Selected(s, S) \in Seq(T)
  BY SelectedPlaces
<1>1. 0 \in P
  <2>1. pre(0) = <<>> /\ s \o <<>> = s /\ Selected(s, S) \o <<>> = Selected(s, S)
    BY <1>0
  <2>2. Selected(pre(0), S) = <<>>
    BY <2>1, SelectedEmpty
  <2> HIDE DEF pre
  <2>3. Selected(s \o pre(0), S) = Selected(s, S) \o Selected(pre(0), S)
    BY <2>1, <2>2
  <2> QED BY <1>0, <2>3
<1>2. ASSUME NEW k \in 1 .. Len(t), k - 1 \in P PROVE k \in P
  <2>1. pre(k - 1) \in Seq(T) /\ t[k] \in T /\ pre(k) = Append(pre(k - 1), t[k])
    BY PrefixGrows
  <2> DEFINE p == pre(k - 1)
             e == t[k]
             q == Selected(s \o p, S)
             r == Selected(p, S)
             u == Selected(s, S)
  <2>2. q = u \o r
    BY <1>2
  <2>3. p \in Seq(T) /\ e \in T /\ pre(k) = Append(p, e)
    BY <2>1
  <2> HIDE DEF p, e, pre
  <2>p. r \in Seq(T) /\ s \o p \in Seq(T)
    <3>1. r \in Seq(T)
      BY <2>3, SelectedPlaces
    <3> QED BY <2>3, <3>1
  <2>4. s \o Append(p, e) = Append(s \o p, e)
    BY <2>3
  <2>5. Selected(Append(s \o p, e), S) = IF e \in S THEN Append(q, e) ELSE q
    BY <2>3, <2>p, SelectedAppend
  <2>6. Selected(Append(p, e), S) = IF e \in S THEN Append(r, e) ELSE r
    BY <2>3, SelectedAppend
  <2> HIDE DEF q, r, u
  <2>7. u \o Append(r, e) = Append(u \o r, e)
    BY <1>0, <2>3, <2>p DEF u
  <2>8. Selected(s \o pre(k), S) = u \o Selected(pre(k), S)
    BY <2>2, <2>3, <2>4, <2>5, <2>6, <2>7
  <2> QED BY <2>8 DEF u
<1> HIDE DEF P
<1>3. Len(t) \in P
  <2>1. \A k \in 0 .. Len(t) : k \in P
    BY <1>0, <1>1, <1>2, Induction
  <2> QED BY <1>0, <2>1
<1> USE DEF P
<1>4. pre(Len(t)) = t
  OBVIOUS
<1> QED BY <1>3, <1>4

(* Of items that are not in S nothing is selected.                         *)
LEMMA SelectedNone ==
    ASSUME NEW T, NEW s \in Seq(T), NEW S, \A i \in 1 .. Len(s) : s[i] \notin S
    PROVE  Selected(s, S) = <<>>
<1> DEFINE q == Selected(s, S)
<1>1. IsSelection(q, s, S, T)
  BY SelectedFacts
<1> HIDE DEF q
<1>2. q \in Seq(T) /\ \A k \in 1 .. Len(q) : FALSE
  BY <1>1 DEF IsSelection
<1>3. q = <<>>
  BY <1>2
<1> QED BY <1>3 DEF q

(* A part more, at the end.                                                *)
LEMMA FlattenAppend ==
    ASSUME NEW T, NEW ss \in Seq(Seq(T)), NEW q \in Seq(T)
    PROVE  FlattenSeq(Append(ss, q)) = FlattenSeq(ss) \o q
<1> DEFINE tt == Append(ss, q)
           n == Len(ss)
<1>1. /\ tt \in Seq(Seq(T)) /\ n \in Nat /\ Len(tt) = n + 1 /\ tt[n + 1] = q
      /\ \A i \in 1 .. n : tt[i] = ss[i]
  OBVIOUS
<1> HIDE DEF tt
<1>2. PICK old : FlatParts(ss, T, old)
  BY FlattenParts
<1>3. PICK new : FlatParts(tt, T, new)
  BY <1>1, FlattenParts
<1>4. new[n] = old[n]
  <2> DEFINE P == {i \in 0 .. n : new[i] = old[i]}
  <2>1. 0 \in P
    BY <1>1, <1>2, <1>3 DEF FlatParts
  <2>2. ASSUME NEW i \in 1 .. n, i - 1 \in P PROVE i \in P
    <3>1. old[i] = old[i - 1] \o ss[i] /\ new[i] = new[i - 1] \o tt[i] /\ tt[i] = ss[i]
      <4>1. i \in 1 .. Len(tt)
        BY <1>1
      <4> QED BY <1>1, <1>2, <1>3, <4>1 DEF FlatParts
    <3>2. new[i - 1] = old[i - 1]
      BY <2>2
    <3>3. new[i] = old[i]
      BY <3>1, <3>2
    <3> QED BY <3>3
  <2> HIDE DEF P
  <2>3. \A i \in 0 .. n : i \in P
    BY <1>1, <2>1, <2>2, Induction
  <2> QED BY <1>1, <2>3 DEF P
<1>5. new[n + 1] = new[n] \o q /\ new[n + 1] = FlattenSeq(tt)
  <2>1. n + 1 \in 1 .. Len(tt) /\ (n + 1) - 1 = n
    BY <1>1
  <2>2. new[n + 1] = new[(n + 1) - 1] \o tt[n + 1]
    BY <1>3, <2>1 DEF FlatParts
  <2>3. new[Len(tt)] = FlattenSeq(tt)
    BY <1>3 DEF FlatParts
  <2> QED BY <1>1, <2>1, <2>2, <2>3
<1>6. old[n] = FlattenSeq(ss)
  BY <1>2 DEF FlatParts
<1> QED BY <1>4, <1>5, <1>6 DEF tt

(* Nothing, and one part.                                                  *)
LEMMA FlattenFew ==
    ASSUME NEW T, NEW q \in Seq(T)
    PROVE  FlattenSeq(<<>>) = <<>> /\ FlattenSeq(<<q>>) = q
<1> DEFINE none == <<>>
<1>1. FlattenSeq(none) = none /\ none \in Seq(Seq(T)) /\ Append(none, q) = <<q>> /\ none \o q = q
  BY DEF FlattenSeq
<1> HIDE DEF none
<1>2. FlattenSeq(Append(none, q)) = FlattenSeq(none) \o q
  BY <1>1, FlattenAppend
<1> QED BY <1>1, <1>2 DEF none

(* The parts of one sequence and then those of another.                    *)
LEMMA FlattenConcat ==
    ASSUME NEW T, NEW ss \in Seq(Seq(T)), NEW tt \in Seq(Seq(T))
    PROVE  FlattenSeq(ss \o tt) = FlattenSeq(ss) \o FlattenSeq(tt)
<1> DEFINE pre(k) == SubSeq(tt, 1, k)
           before == FlattenSeq(ss)
           P == {k \in 0 .. Len(tt) : FlattenSeq(ss \o pre(k)) = before \o FlattenSeq(pre(k))}
<1>0. Len(tt) \in Nat /\ before \in Seq(T)
  BY FlattenFacts DEF IsFlattening
<1>1. 0 \in P
  <2>1. pre(0) = <<>> /\ ss \o <<>> = ss
    OBVIOUS
  <2> HIDE DEF before, pre
  <2>2. FlattenSeq(<<>>) = <<>> /\ before \o <<>> = before
    BY <1>0, FlattenFew, ConcatEmptySeq
  <2>3. FlattenSeq(ss \o pre(0)) = before \o FlattenSeq(pre(0))
    BY <2>1, <2>2 DEF before
  <2> QED BY <1>0, <2>3
<1>2. ASSUME NEW k \in 1 .. Len(tt), k - 1 \in P PROVE k \in P
  <2> DEFINE p == pre(k - 1)
             e == tt[k]
             r == FlattenSeq(p)
  <2>1. p \in Seq(Seq(T)) /\ e \in Seq(T) /\ pre(k) = Append(p, e)
    BY PrefixGrows
  <2>2. FlattenSeq(ss \o p) = before \o r
    BY <1>2
  <2> HIDE DEF p, e, pre, before, P
  <2>3. r \in Seq(T)
    BY <2>1, FlattenFacts DEF IsFlattening
  <2> HIDE DEF r
  <2>4. ss \o Append(p, e) = Append(ss \o p, e) /\ ss \o p \in Seq(Seq(T))
    <3>1. p \in Seq(Seq(T)) /\ e \in Seq(T) /\ ss \in Seq(Seq(T))
      BY <2>1
    <3> QED BY SMTT(30), <3>1, ConcatAppend
  <2>5. FlattenSeq(Append(ss \o p, e)) = FlattenSeq(ss \o p) \o e
    BY <2>1, <2>4, FlattenAppend
  <2>6. FlattenSeq(Append(p, e)) = r \o e
    BY <2>1, FlattenAppend DEF r
  <2>7. (before \o r) \o e = before \o (r \o e)
    <3>1. before \in Seq(T)
      BY <1>0
    <3>2. e \in Seq(T)
      BY <2>1
    <3>3. r \in Seq(T)
      BY <2>3
    <3>4. IsGrouped(T)
      BY Grouping
    <3> QED BY <3>1, <3>2, <3>3, <3>4, Zenon DEF IsGrouped
  <2>8. FlattenSeq(ss \o pre(k)) = before \o FlattenSeq(pre(k))
    BY <2>1, <2>2, <2>4, <2>5, <2>6, <2>7
  <2> QED BY <2>8 DEF P
<1> HIDE DEF P
<1>3. Len(tt) \in P
  <2>1. \A k \in 0 .. Len(tt) : k \in P
    BY <1>0, <1>1, <1>2, Induction
  <2> QED BY <1>0, <2>1
<1>4. pre(Len(tt)) = tt
  OBVIOUS
<1> QED BY <1>3, <1>4 DEF P
=============================================================================
