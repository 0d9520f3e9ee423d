---------------------------- MODULE Step5Proofs ----------------------------
(***************************************************************************)
(* Proofs about Step5, for any number of jobs, versions, batches, workers  *)
(* and tries.                                                              *)
(***************************************************************************)
EXTENDS Step5, FiniteSetTheorems, TLAPS

(* Every step keeps the variables within their types.                      *)
LEMMA TypeStep == TypeOK /\ [Next]_vars => TypeOK'
<1> SUFFICES ASSUME TypeOK, [Next]_vars PROVE TypeOK'
  OBVIOUS
<1> USE Step5Assumption DEF TypeOK, Lock!RedisLockTypeOK, Goto, Report, PCs, Outcomes, Batches, NextTry, DeleteByDoc
<1>1. ASSUME NEW w \in Workers, Prepare(w) PROVE TypeOK'
  BY <1>1 DEF Prepare
<1>2. ASSUME NEW w \in Workers, AcquireLock(w) PROVE TypeOK'
  BY <1>2 DEF AcquireLock, Lock!Acquire, Lock!Refused
<1>0. ASSUME NEW w \in Workers, Stored(w) PROVE points' \in [Versions -> SUBSET Nat]
  BY <1>0 DEF Stored
<1>3. ASSUME NEW w \in Workers, SendBatch(w) PROVE TypeOK'
  <2>1. points' \in [Versions -> SUBSET Nat]
    BY <1>0, <1>3 DEF SendBatch
  <2> QED
    BY <1>3, <2>1 DEF SendBatch
<1>4. ASSUME NEW w \in Workers, FailUpsert(w) PROVE TypeOK'
  <2>1. points' \in [Versions -> SUBSET Nat]
    BY <1>0, <1>4 DEF FailUpsert
  <2> QED
    BY <1>4, <2>1 DEF FailUpsert
<1>5. ASSUME NEW w \in Workers, DeleteOldVersions(w) PROVE TypeOK'
  BY <1>5 DEF DeleteOldVersions, DeletePoints
<1>6. ASSUME NEW w \in Workers, FtsDelete(w) PROVE TypeOK'
  <2>1. overlap' \in BOOLEAN
    <3>1. overlap' = overlap \/ overlap' = (overlap \/ Replacing # {})
      BY <1>6 DEF FtsDelete
    <3>2. (overlap \/ Replacing # {}) \in BOOLEAN
      OBVIOUS
    <3> QED
      BY <3>1, <3>2, Zenon
  <2> QED
    BY <1>6, <2>1 DEF FtsDelete
<1>7. ASSUME NEW w \in Workers, FtsInsert(w) PROVE TypeOK'
  BY <1>7 DEF FtsInsert
<1>8. ASSUME NEW w \in Workers, ReleaseLock(w) PROVE TypeOK'
  BY <1>8 DEF ReleaseLock, Lock!Release
<1>9. ASSUME NEW w \in Workers, KillWorker(w) PROVE TypeOK'
  BY <1>9 DEF KillWorker
<1>10. ASSUME NEW v \in Versions, ExpireLock(v) PROVE TypeOK'
  BY <1>10 DEF ExpireLock, Lock!Expire
<1>11. CASE UNCHANGED vars
  BY <1>11 DEF vars
<1> QED
  BY <1>1, <1>2, <1>3, <1>4, <1>5, <1>6, <1>7, <1>8, <1>9, <1>10, <1>11 DEF Next, JobStep
-----------------------------------------------------------------------------
(***************************************************************************)
(* The newest complete version                                             *)
(***************************************************************************)

(* Versions are numbers, so they can be compared.                          *)
LEMMA VersionNumbers ==
    /\ \A v \in Versions : v \in Nat /\ v >= v
    /\ \A w \in Workers : VersionOf[w] \in Versions /\ VersionOf[w] \in Nat
<1>1. ASSUME NEW v \in Versions PROVE v \in Nat
  BY Step5Assumption
<1>2. ASSUME NEW n \in Nat PROVE n >= n
  OBVIOUS
<1>3. ASSUME NEW w \in Workers PROVE VersionOf[w] \in Versions
  BY Step5Assumption
<1> QED
  BY <1>1, <1>2, <1>3

(* A stored batch takes nothing away, from no version.                     *)
LEMMA StoredGrows ==
    ASSUME TypeOK, OnlyOwnBatches, NEW w \in Workers,
           next[w] \in Batches(VersionOf[w]), Stored(w)
    PROVE  /\ OnlyOwnBatches'
           /\ \A v \in Versions : points[v] \subseteq points'[v]
           /\ \A v \in Versions : Complete(v) => Complete(v)'
<1> USE Step5Assumption
<1>1. ASSUME NEW v \in Versions
      PROVE  points'[v] = IF v = VersionOf[w] THEN points[v] \cup {next[w]} ELSE points[v]
  BY DEF Stored, TypeOK
<1>2. ASSUME NEW v \in Versions
      PROVE  points[v] \subseteq points'[v] /\ points'[v] \subseteq Batches(v)
  BY <1>1 DEF OnlyOwnBatches
<1>3. OnlyOwnBatches'
  BY <1>2 DEF OnlyOwnBatches, Batches
<1>4. ASSUME NEW v \in Versions, Complete(v) PROVE Complete(v)'
  BY <1>2, <1>4 DEF Complete, Batches
<1> QED
  BY <1>2, <1>3, <1>4

(* Deleting the versions older than an upserted one leaves that version,   *)
(* or the newer one that has replaced it.                                  *)
LEMMA DeletionSpares ==
    ASSUME TypeOK, OnlyOwnBatches, IndexedIsSearchable, NEW w \in Workers,
           pc[w] = "deleteOld", DeletePoints(OlderThan(VersionOf[w]))
    PROVE  /\ OnlyOwnBatches'
           /\ \A v \in Versions : \/ points'[v] = points[v]
                                  \/ v < VersionOf[w]
           /\ \E u \in Versions : u >= VersionOf[w] /\ Complete(u)'
<1> USE Step5Assumption
<1>1. ASSUME NEW v \in Versions
      PROVE  points'[v] = IF v < VersionOf[w] THEN {} ELSE points[v]
  BY DEF DeletePoints, OlderThan, TypeOK
<1>2. OnlyOwnBatches'
  BY <1>1 DEF OnlyOwnBatches, Batches
<1>3. PICK u \in Versions : u >= VersionOf[w] /\ Complete(u)
  BY DEF IndexedIsSearchable, Indexed
<1>4. Complete(u)'
  <2>1. ~(u < VersionOf[w])
    BY <1>3, VersionNumbers
  <2>2. points'[u] = points[u]
    BY <1>1, <2>1
  <2> QED
    BY <1>3, <2>2 DEF Complete, Batches
<1> QED
  BY <1>1, <1>2, <1>3, <1>4, VersionNumbers

(* In every step: no stray batches, every complete version survives or     *)
(* gives way to a newer one, and points only vanish under a newer version. *)
LEMMA PointsStep ==
    ASSUME IInv, [Next]_vars
    PROVE  /\ OnlyOwnBatches'
           /\ \A v \in Versions : Complete(v) => \E u \in Versions : u >= v /\ Complete(u)'
           /\ \A v \in Versions : points[v] \subseteq points'[v] \/ (Newer(v))' # {}
<1> DEFINE Goal == /\ OnlyOwnBatches'
                   /\ \A v \in Versions : Complete(v) => \E u \in Versions : u >= v /\ Complete(u)'
                   /\ \A v \in Versions : points[v] \subseteq points'[v] \/ (Newer(v))' # {}
<1> USE Step5Assumption
<1>0. \A v \in Versions : v >= v
  BY VersionNumbers
<1>1. ASSUME UNCHANGED points PROVE Goal
  <2>1. OnlyOwnBatches' /\ \A v \in Versions : Complete(v) => Complete(v)'
    BY <1>1 DEF IInv, OnlyOwnBatches, Complete, Batches
  <2> QED
    BY <1>0, <1>1, <2>1
<1>2. ASSUME NEW w \in Workers, pc[w] = "upsert", Stored(w) PROVE Goal
  <2>1. next[w] \in Batches(VersionOf[w])
    BY <1>2 DEF IInv, UpsertProgress
  <2> QED
    BY <1>0, <1>2, <2>1, StoredGrows DEF IInv
<1>3. ASSUME NEW w \in Workers, pc[w] = "deleteOld", DeletePoints(OlderThan(VersionOf[w]))
      PROVE  Goal
  <2>1. /\ OnlyOwnBatches'
        /\ \A v \in Versions : points'[v] = points[v] \/ v < VersionOf[w]
        /\ \E u \in Versions : u >= VersionOf[w] /\ Complete(u)'
    BY <1>3, DeletionSpares DEF IInv
  <2>2. PICK u \in Versions : u >= VersionOf[w] /\ Complete(u)'
    BY <2>1
  <2>3. ASSUME NEW v \in Versions, Complete(v)
        PROVE  \E x \in Versions : x >= v /\ Complete(x)'
    <3>1. CASE v < VersionOf[w]
      <4>1. u >= v
        BY <2>2, <3>1, VersionNumbers
      <4> QED
        BY <2>2, <4>1
    <3>2. CASE points'[v] = points[v]
      BY <2>3, <3>2 DEF Complete, Batches
    <3> QED
      BY <2>1, <3>1, <3>2
  <2>4. ASSUME NEW v \in Versions PROVE points[v] \subseteq points'[v] \/ (Newer(v))' # {}
    <3>1. CASE v < VersionOf[w]
      <4>1. u > v
        BY <2>2, <3>1, VersionNumbers
      <4>2. u \in (Newer(v))'
        BY <2>2, <4>1 DEF Newer
      <4> QED
        BY <4>2
    <3>2. CASE points'[v] = points[v]
      BY <3>2
    <3> QED
      BY <2>1, <3>1, <3>2
  <2> QED
    BY <2>1, <2>3, <2>4
<1>4. ASSUME NEW w \in Workers, SendBatch(w) \/ FailUpsert(w) PROVE Goal
  BY <1>1, <1>2, <1>4 DEF SendBatch, FailUpsert, Goto
<1>5. ASSUME NEW w \in Workers, DeleteOldVersions(w) PROVE Goal
  BY <1>1, <1>3, <1>5 DEF DeleteOldVersions, Goto
<1>6. ASSUME NEW w \in Workers,
             Prepare(w) \/ AcquireLock(w) \/ FtsDelete(w) \/ FtsInsert(w)
                        \/ ReleaseLock(w) \/ KillWorker(w)
      PROVE  Goal
  BY <1>1, <1>6 DEF Prepare, AcquireLock, FtsDelete, FtsInsert, ReleaseLock, KillWorker
<1>7. ASSUME NEW v \in Versions, ExpireLock(v) PROVE Goal
  BY <1>1, <1>7 DEF ExpireLock
<1>8. ASSUME UNCHANGED vars PROVE Goal
  BY <1>1, <1>8 DEF vars
<1> HIDE DEF Goal
<1>9. Goal
  BY <1>4, <1>5, <1>6, <1>7, <1>8 DEF Next, JobStep
<1> QED
  BY <1>9 DEF Goal

(* The steps of the other jobs leave a job's place, counter and report.    *)
LEMMA StartStep == IInv /\ [Next]_vars => StartsAtFirstBatch'
<1> SUFFICES ASSUME IInv, [Next]_vars PROVE StartsAtFirstBatch'
  OBVIOUS
<1> USE DEF IInv, TypeOK, StartsAtFirstBatch, Goto
<1>1. ASSUME NEW w \in Workers, Prepare(w) PROVE StartsAtFirstBatch'
  BY <1>1 DEF Prepare
<1>2. ASSUME NEW w \in Workers, SendBatch(w) \/ FailUpsert(w) PROVE StartsAtFirstBatch'
  BY <1>2 DEF SendBatch, FailUpsert
<1>3. ASSUME NEW w \in Workers,
             AcquireLock(w) \/ DeleteOldVersions(w) \/ FtsDelete(w) \/ FtsInsert(w)
                            \/ ReleaseLock(w) \/ KillWorker(w)
      PROVE  StartsAtFirstBatch'
  BY <1>3 DEF AcquireLock, DeleteOldVersions, FtsDelete, FtsInsert, ReleaseLock, KillWorker
<1>4. ASSUME NEW v \in Versions, ExpireLock(v) PROVE StartsAtFirstBatch'
  BY <1>4 DEF ExpireLock
<1>5. ASSUME UNCHANGED vars PROVE StartsAtFirstBatch'
  BY <1>5 DEF vars
<1> QED
  BY <1>1, <1>2, <1>3, <1>4, <1>5 DEF Next, JobStep

(* A job's own step: where its upsert begins, goes on and starts again.    *)
LEMMA UpsertCounter ==
    ASSUME IInv, [Next]_vars, NEW w \in Workers, pc'[w] = "upsert"
    PROVE  /\ next'[w] \in Batches(VersionOf[w])
           /\ \/ next'[w] = 1
              \/ pc[w] = "upsert" /\ next'[w] = next[w]
              \/ /\ pc[w] = "upsert" /\ next'[w] = next[w] + 1
                 /\ next[w] \in points'[VersionOf[w]]
<1> DEFINE Goal == /\ next'[w] \in Batches(VersionOf[w])
                   /\ \/ next'[w] = 1
                      \/ pc[w] = "upsert" /\ next'[w] = next[w]
                      \/ /\ pc[w] = "upsert" /\ next'[w] = next[w] + 1
                         /\ next[w] \in points'[VersionOf[w]]
<1> USE DEF Goto
<1>1. /\ VersionOf[w] \in Versions
      /\ BatchesOf[VersionOf[w]] \in Nat \ {0}
      /\ 1 \in Batches(VersionOf[w])
  <2>1. /\ VersionOf[w] \in Versions
        /\ BatchesOf[VersionOf[w]] \in Nat \ {0}
    BY Step5Assumption
  <2>2. ASSUME NEW n \in Nat \ {0} PROVE 1 \in 1 .. n
    OBVIOUS
  <2> QED
    BY <2>1, <2>2 DEF Batches
<1>2. pc[w] = "upsert" => next[w] \in Batches(VersionOf[w])
  BY DEF IInv, UpsertProgress
<1>3. ASSUME pc[w] = "upsert", next'[w] = next[w] PROVE Goal
  BY <1>2, <1>3
<1>4. ASSUME NEW x \in Workers, AcquireLock(x) PROVE Goal
  BY <1>1, <1>3, <1>4 DEF AcquireLock, IInv, StartsAtFirstBatch, TypeOK
<1>5. ASSUME NEW x \in Workers, SendBatch(x) PROVE Goal
  <2>1. CASE x # w
    BY <1>3, <1>5, <2>1 DEF SendBatch, IInv, TypeOK
  <2>2. CASE x = w
    <3>1. /\ pc[w] = "upsert" /\ Stored(w)
          /\ next[w] # BatchesOf[VersionOf[w]]
          /\ next'[w] = next[w] + 1
      BY <1>5, <2>2 DEF SendBatch, LastBatch, IInv, TypeOK
    <3>2. next'[w] \in Batches(VersionOf[w])
      BY <1>1, <1>2, <3>1 DEF Batches
    <3>3. next[w] \in points'[VersionOf[w]]
      BY <1>1, <3>1 DEF Stored, IInv, TypeOK
    <3> QED
      BY <3>1, <3>2, <3>3
  <2> QED
    BY <2>1, <2>2
<1>6. ASSUME NEW x \in Workers, FailUpsert(x) PROVE Goal
  BY <1>1, <1>3, <1>6 DEF FailUpsert, IInv, TypeOK
<1>7. ASSUME NEW x \in Workers,
             Prepare(x) \/ DeleteOldVersions(x) \/ FtsDelete(x) \/ FtsInsert(x)
                        \/ ReleaseLock(x) \/ KillWorker(x)
      PROVE  Goal
  BY <1>3, <1>7 DEF Prepare, DeleteOldVersions, FtsDelete, FtsInsert, ReleaseLock, KillWorker,
                    IInv, TypeOK
<1>8. ASSUME NEW v \in Versions, ExpireLock(v) PROVE Goal
  BY <1>3, <1>8 DEF ExpireLock
<1>9. ASSUME UNCHANGED vars PROVE Goal
  BY <1>3, <1>9 DEF vars
<1> HIDE DEF Goal
<1>10. Goal
  BY <1>4, <1>5, <1>6, <1>7, <1>8, <1>9 DEF Next, JobStep
<1> QED
  BY <1>10 DEF Goal

(* Every step keeps what an upsert on its way relies on.                     *)
LEMMA UpsertStep == IInv /\ [Next]_vars => UpsertProgress'
<1> SUFFICES ASSUME IInv, [Next]_vars, NEW w \in Workers, pc'[w] = "upsert"
             PROVE  /\ next'[w] \in Batches(VersionOf[w])
                    /\ \/ (Newer(VersionOf[w]))' # {}
                       \/ (1 .. next'[w] - 1) \subseteq points'[VersionOf[w]]
  BY DEF UpsertProgress, Batches
<1>1. next'[w] \in Batches(VersionOf[w]) /\ next'[w] \in Nat
  BY UpsertCounter DEF Batches
<1>2. VersionOf[w] \in Versions
  BY VersionNumbers
<1>3. CASE (Newer(VersionOf[w]))' # {}
  BY <1>1, <1>3
<1>4. CASE (Newer(VersionOf[w]))' = {}
  <2>1. points[VersionOf[w]] \subseteq points'[VersionOf[w]]
    BY <1>2, <1>4, PointsStep
  <2>2. Newer(VersionOf[w]) = {}
    <3> SUFFICES ASSUME NEW u \in Newer(VersionOf[w]) PROVE FALSE
      OBVIOUS
    <3>1. u \in Versions /\ u > VersionOf[w] /\ Complete(u)
      BY DEF Newer
    <3>2. PICK x \in Versions : x >= u /\ Complete(x)'
      BY <3>1, PointsStep
    <3>3. x > VersionOf[w]
      BY <3>1, <3>2, VersionNumbers
    <3>4. x \in (Newer(VersionOf[w]))'
      BY <3>2, <3>3 DEF Newer
    <3> QED
      BY <1>4, <3>4
  <2>3. CASE next'[w] = 1
    BY <1>1, <2>3
  <2>4. CASE pc[w] = "upsert" /\ next'[w] = next[w]
    BY <1>1, <2>1, <2>2, <2>4 DEF IInv, UpsertProgress
  <2>5. CASE pc[w] = "upsert" /\ next'[w] = next[w] + 1 /\ next[w] \in points'[VersionOf[w]]
    <3>1. (1 .. next[w] - 1) \subseteq points[VersionOf[w]]
      BY <2>2, <2>5 DEF IInv, UpsertProgress
    <3>2. next[w] \in Nat
      BY DEF IInv, TypeOK
    <3> QED
      BY <1>1, <2>1, <2>5, <3>1, <3>2
  <2> QED
    BY <2>3, <2>4, <2>5, UpsertCounter
<1> QED
  BY <1>3, <1>4

(* Only the last batch turns a job into one that has indexed its version.  *)
LEMMA BecomesIndexed ==
    ASSUME IInv, [Next]_vars, NEW w \in Workers, (Indexed(w))'
    PROVE  \/ Indexed(w)
           \/ pc[w] = "upsert" /\ Stored(w) /\ next[w] = BatchesOf[VersionOf[w]]
<1> USE DEF Goto, Report, Indexed, IInv, TypeOK
<1>1. ASSUME NEW x \in Workers, SendBatch(x) PROVE Indexed(w) \/ (x = w /\ pc'[w] = "deleteOld")
  BY <1>1 DEF SendBatch
<1>2. ASSUME NEW x \in Workers, FailUpsert(x) PROVE Indexed(w)
  BY <1>2 DEF FailUpsert
<1>3. ASSUME NEW x \in Workers, Prepare(x) PROVE Indexed(w)
  BY <1>3 DEF Prepare
<1>4. ASSUME NEW x \in Workers, AcquireLock(x) PROVE Indexed(w)
  BY <1>4 DEF AcquireLock
<1>5. ASSUME NEW x \in Workers, DeleteOldVersions(x) PROVE Indexed(w)
  BY <1>5 DEF DeleteOldVersions
<1>6. ASSUME NEW x \in Workers, FtsDelete(x) \/ FtsInsert(x) PROVE Indexed(w)
  BY <1>6 DEF FtsDelete, FtsInsert
<1>7. ASSUME NEW x \in Workers, ReleaseLock(x) \/ KillWorker(x) PROVE Indexed(w)
  BY <1>7 DEF ReleaseLock, KillWorker
<1>8. ASSUME NEW v \in Versions, ExpireLock(v) PROVE Indexed(w)
  BY <1>8 DEF ExpireLock
<1>9. ASSUME UNCHANGED vars PROVE Indexed(w)
  BY <1>9 DEF vars
<1>10. ASSUME SendBatch(w), pc'[w] = "deleteOld"
       PROVE  pc[w] = "upsert" /\ Stored(w) /\ next[w] = BatchesOf[VersionOf[w]]
  BY <1>10 DEF SendBatch, LastBatch
<1> QED
  BY <1>1, <1>2, <1>3, <1>4, <1>5, <1>6, <1>7, <1>8, <1>9, <1>10 DEF Next, JobStep

(* Every step keeps what is indexed searchable.                            *)
LEMMA IndexedStep == IInv /\ [Next]_vars => IndexedIsSearchable'
<1> SUFFICES ASSUME IInv, [Next]_vars, NEW w \in Workers, (Indexed(w))'
             PROVE  \E u \in Versions : u >= VersionOf[w] /\ Complete(u)'
  BY DEF IndexedIsSearchable
<1>1. ASSUME NEW v \in Versions, v >= VersionOf[w], Complete(v)
      PROVE  \E u \in Versions : u >= VersionOf[w] /\ Complete(u)'
  <2>1. PICK u \in Versions : u >= v /\ Complete(u)'
    BY <1>1, PointsStep
  <2>2. u >= VersionOf[w]
    BY <1>1, <2>1, VersionNumbers
  <2> QED
    BY <2>1, <2>2
<1>2. CASE Indexed(w)
  BY <1>1, <1>2 DEF IInv, IndexedIsSearchable
<1>3. CASE pc[w] = "upsert" /\ Stored(w) /\ next[w] = BatchesOf[VersionOf[w]]
  <2>1. CASE Newer(VersionOf[w]) # {}
    <3>1. PICK v \in Versions : v > VersionOf[w] /\ Complete(v)
      BY <2>1 DEF Newer
    <3> QED
      BY <1>1, <3>1, VersionNumbers
  <2>2. CASE (1 .. next[w] - 1) \subseteq points[VersionOf[w]]
    <3> DEFINE v == VersionOf[w]
    <3>1. v \in Versions /\ BatchesOf[v] \in Nat \ {0}
      BY Step5Assumption
    <3>2. points'[v] = points[v] \cup {BatchesOf[v]}
      BY <1>3, <3>1 DEF Stored, IInv, TypeOK
    <3>3. Batches(v) \subseteq points'[v]
      BY <1>3, <2>2, <3>1, <3>2 DEF Batches
    <3>4. points'[v] \subseteq Batches(v)
      BY <3>1, PointsStep DEF OnlyOwnBatches, Batches
    <3>5. Complete(v)'
      BY <3>3, <3>4 DEF Complete, Batches
    <3> QED
      BY <3>1, <3>5, VersionNumbers
  <2> QED
    BY <1>3, <2>1, <2>2 DEF IInv, UpsertProgress
<1> QED
  BY <1>2, <1>3, BecomesIndexed

(* IInv is an invariant: what is in Qdrant is what the jobs have upserted, *)
(* and nothing is deleted before something newer is complete.              *)
THEOREM IndexInductive == Spec => []IInv
<1>1. Init => IInv
  <2> SUFFICES ASSUME Init PROVE IInv
    OBVIOUS
  <2>0. overlap \in BOOLEAN
    BY Zenon DEF Init
  <2>1. TypeOK
    BY <2>0, Step5Assumption DEF Init, TypeOK, Lock!RedisLockInit, Lock!RedisLockTypeOK, PCs, Outcomes
  <2>2. OnlyOwnBatches
    BY DEF Init, OnlyOwnBatches
  <2>3. StartsAtFirstBatch /\ UpsertProgress /\ IndexedIsSearchable
    BY DEF Init, StartsAtFirstBatch, UpsertProgress, IndexedIsSearchable, Indexed
  <2> QED
    BY <2>1, <2>2, <2>3 DEF IInv
<1>2. IInv /\ [Next]_vars => IInv'
  <2> SUFFICES ASSUME IInv, [Next]_vars PROVE IInv'
    OBVIOUS
  <2>1. TypeOK'
    BY TypeStep DEF IInv
  <2>2. OnlyOwnBatches'
    BY PointsStep
  <2>3. StartsAtFirstBatch'
    BY StartStep
  <2>4. UpsertProgress'
    BY UpsertStep
  <2>5. IndexedIsSearchable'
    BY IndexedStep
  <2> QED
    BY <2>1, <2>2, <2>3, <2>4, <2>5 DEF IInv
<1> QED
  BY <1>1, <1>2, PTL DEF Spec

(* A version reported as indexed, or a newer one, stays complete in Qdrant *)
(* through every failure, kill, expiry and late job (_run_step5).          *)
THEOREM IndexedStays == Spec => []IndexedIsSearchable
<1>1. IInv => IndexedIsSearchable
  BY DEF IInv
<1> QED
  BY <1>1, IndexInductive, PTL

(* No step takes the newest complete version back to an older one          *)
(* (upsert_chunks and delete_old_versions in any interleaving).            *)
THEOREM NewestStays == Spec => NewestNeverRegresses
<1>1. IInv /\ [Next]_vars =>
          [\A v \in Versions : Complete(v) => \E u \in Versions : u >= v /\ Complete(u)']_vars
  BY PointsStep
<1> QED
  BY <1>1, IndexInductive, PTL DEF Spec, NewestNeverRegresses
-----------------------------------------------------------------------------
(***************************************************************************)
(* The lock                                                                *)
(***************************************************************************)

(* Every job that writes holds its version's lock or has let it expire.    *)
LEMMA HoldStep ==
    ASSUME TypeOK, WritersHoldLock, [Next]_vars
    PROVE  WritersHoldLock'
<1> USE Step5Assumption DEF TypeOK, Lock!RedisLockTypeOK, WritersHoldLock, Writing, Goto
<1>1. ASSUME NEW w \in Workers, Prepare(w) PROVE WritersHoldLock'
  BY <1>1 DEF Prepare
<1>2. ASSUME NEW w \in Workers, AcquireLock(w) PROVE WritersHoldLock'
  <2>1. VersionOf[w] \in Versions /\ \A x \in Workers : x # NoWorker
    OBVIOUS
  <2>2. CASE Lock!Acquire(VersionOf[w], w)
    <3> SUFFICES ASSUME NEW x \in Workers, pc'[x] \in Writing, x \notin lapsed
                 PROVE  stepLock'[VersionOf[x]] = x
      BY <1>2 DEF AcquireLock
    <3>1. x = w \/ pc[x] \in Writing
      BY <1>2 DEF AcquireLock
    <3>2. x = w \/ stepLock[VersionOf[x]] = x
      BY <3>1
    <3>3. x = w \/ VersionOf[x] # VersionOf[w]
      BY <2>1, <2>2, <3>2 DEF Lock!Acquire
    <3> QED
      BY <2>1, <2>2, <3>2, <3>3 DEF Lock!Acquire
  <2>3. CASE /\ UNCHANGED <<stepLock, lapsed>>
             /\ \A x \in Workers : pc'[x] \in Writing => pc[x] \in Writing
    BY <2>3
  <2>4. CASE ~Lock!Acquire(VersionOf[w], w) \/ pc' = [pc EXCEPT ![w] = "done"]
    <3>1. \/ Lock!Acquire(VersionOf[w], w)
          \/ UNCHANGED stepLock
      BY <1>2 DEF AcquireLock, Lock!Refused
    <3>2. pc' = [pc EXCEPT ![w] = "done"] /\ UNCHANGED lapsed
      BY <1>2, <2>4 DEF AcquireLock
    <3> QED
      BY <2>2, <2>3, <3>1, <3>2
  <2> QED
    BY <2>2, <2>4
<1>3. ASSUME NEW w \in Workers, SendBatch(w) \/ FailUpsert(w) PROVE WritersHoldLock'
  BY <1>3 DEF SendBatch, FailUpsert
<1>4. ASSUME NEW w \in Workers, DeleteOldVersions(w) \/ FtsDelete(w) \/ FtsInsert(w)
      PROVE  WritersHoldLock'
  BY <1>4 DEF DeleteOldVersions, FtsDelete, FtsInsert
<1>5. ASSUME NEW w \in Workers, ReleaseLock(w) PROVE WritersHoldLock'
  BY ZenonT(60), <1>5 DEF ReleaseLock, Lock!Release
<1>6. ASSUME NEW w \in Workers, KillWorker(w) PROVE WritersHoldLock'
  BY <1>6 DEF KillWorker
<1>7. ASSUME NEW v \in Versions, ExpireLock(v) PROVE WritersHoldLock'
  BY <1>7 DEF ExpireLock, Lock!Expire, Busy
<1>8. ASSUME UNCHANGED vars PROVE WritersHoldLock'
  BY <1>8 DEF vars
<1> QED
  BY <1>1, <1>2, <1>3, <1>4, <1>5, <1>6, <1>7, <1>8 DEF Next, JobStep

(* Mutual exclusion per version, whatever fails, as long as a job is       *)
(* faster than the 300 s of its lock (step5_worker.py).                    *)
THEOREM OneWriter == Spec => []OneWriterPerVersion
<1>1. Init => WritersHoldLock
  BY DEF Init, WritersHoldLock, Writing
<1>2. TypeOK /\ WritersHoldLock /\ [Next]_vars => WritersHoldLock'
  BY HoldStep
<1>3. WritersHoldLock => OneWriterPerVersion
  BY DEF WritersHoldLock, OneWriterPerVersion
<1>4. IInv => TypeOK
  BY DEF IInv
<1> QED
  BY <1>1, <1>2, <1>3, <1>4, IndexInductive, PTL DEF Spec
-----------------------------------------------------------------------------
(***************************************************************************)
(* The FTS rows                                                            *)
(***************************************************************************)

(* No two jobs are between delete and insert, and no rows are there then.  *)
LEMMA TurnStep ==
    ASSUME TypeOK, ReplacesInTurn, FtsNoDuplicates, [Next]_vars
    PROVE  ReplacesInTurn' /\ FtsNoDuplicates'
<1> DEFINE Goal == ReplacesInTurn' /\ FtsNoDuplicates'
<1> USE DEF TypeOK, Goto
<1>1. ASSUME UNCHANGED <<fts, overlap>>,
             \A w \in Workers : pc'[w] = "ftsInsert" => pc[w] = "ftsInsert"
      PROVE  Goal
  BY <1>1 DEF ReplacesInTurn, Replacing, FtsNoDuplicates, FtsOneVersion
<1>2. ASSUME NEW w \in Workers,
             Prepare(w) \/ AcquireLock(w) \/ SendBatch(w) \/ FailUpsert(w) \/ DeleteOldVersions(w)
                        \/ ReleaseLock(w) \/ KillWorker(w)
      PROVE  Goal
  <2>1. UNCHANGED <<fts, overlap>>
    BY <1>2 DEF Prepare, AcquireLock, SendBatch, FailUpsert, DeleteOldVersions, ReleaseLock,
                KillWorker
  <2>2. \A x \in Workers : pc'[x] = "ftsInsert" => pc[x] = "ftsInsert"
    BY <1>2 DEF Prepare, AcquireLock, SendBatch, FailUpsert, DeleteOldVersions, ReleaseLock,
                KillWorker
  <2> QED
    BY <1>1, <2>1, <2>2
<1>3. ASSUME NEW w \in Workers, FtsDelete(w) PROVE Goal
  <2>1. CASE /\ fts' = [v \in Versions |-> 0] /\ pc' = [pc EXCEPT ![w] = "ftsInsert"]
             /\ overlap' = (overlap \/ Replacing # {})
    <3>1. FtsOneVersion'
      BY <2>1 DEF FtsOneVersion
    <3>2. ASSUME ~overlap' PROVE Replacing' = {w}
      BY <2>1, <3>2 DEF Replacing
    <3>3. ReplacesInTurn'
      BY <2>1, <3>2 DEF ReplacesInTurn
    <3> QED
      BY <3>1, <3>3 DEF FtsNoDuplicates
  <2>2. CASE UNCHANGED <<fts, overlap>> /\ pc' = [pc EXCEPT ![w] = "release"]
    BY <1>1, <2>2
  <2> QED
    BY <1>3, <2>1, <2>2 DEF FtsDelete, DeleteByDoc
<1>4. ASSUME NEW w \in Workers, FtsInsert(w) PROVE Goal
  <2>1. /\ w \in Replacing /\ pc' = [pc EXCEPT ![w] = "release"] /\ UNCHANGED overlap
        /\ UNCHANGED fts \/ fts' = [fts EXCEPT ![VersionOf[w]] = @ + 1]
    BY <1>4 DEF FtsInsert, Replacing
  <2>2. ASSUME ~overlap
        PROVE  /\ Replacing' = {}
               /\ \A v \in Versions : fts'[v] = 0 \/ (fts'[v] = 1 /\ v = VersionOf[w])
    <3>1. Replacing' = Replacing \ {w}
      BY <2>1 DEF Replacing
    <3>2. \A v \in Versions : fts[v] = 0
      BY <2>1, <2>2 DEF ReplacesInTurn
    <3> QED
      BY <2>1, <2>2, <3>1, <3>2 DEF ReplacesInTurn
  <2>3. ASSUME ~overlap PROVE FtsOneVersion'
    BY <2>2, <2>3 DEF FtsOneVersion
  <2> QED
    BY <2>1, <2>2, <2>3 DEF ReplacesInTurn, FtsNoDuplicates
<1>5. ASSUME NEW v \in Versions, ExpireLock(v) PROVE Goal
  BY <1>1, <1>5 DEF ExpireLock
<1>6. ASSUME UNCHANGED vars PROVE Goal
  BY <1>1, <1>6 DEF vars
<1> HIDE DEF Goal
<1>7. Goal
  BY <1>2, <1>3, <1>4, <1>5, <1>6 DEF Next, JobStep
<1> QED
  BY <1>7 DEF Goal

(* replace_doc keeps its promise through every failure, retry and kill and *)
(* with any number of worker processes, as long as no two jobs are between *)
(* its delete and its insert at the same time.                             *)
THEOREM FtsReplaced == Spec => []FtsNoDuplicates
<1>1. Init => ReplacesInTurn /\ FtsNoDuplicates
  BY DEF Init, ReplacesInTurn, Replacing, FtsNoDuplicates, FtsOneVersion
<1>2. TypeOK /\ ReplacesInTurn /\ FtsNoDuplicates /\ [Next]_vars
        => ReplacesInTurn' /\ FtsNoDuplicates'
  BY TurnStep
<1>3. IInv => TypeOK
  BY DEF IInv
<1> QED
  BY <1>1, <1>2, <1>3, IndexInductive, PTL DEF Spec

(* A pool of one process starts a job only when no other job is running.   *)
LEMMA StartsAlone ==
    ASSUME MaxWorkers = 1, NEW w \in Workers, Prepare(w)
    PROVE  Busy = {}
<1>1. IsFiniteSet(Busy)
  BY FS_Subset, Step5Assumption DEF Busy
<1>2. Cardinality(Busy) \in Nat /\ Cardinality(Busy) < 1
  BY <1>1, FS_CardinalityType DEF Prepare
<1>3. Cardinality(Busy) = 0
  BY <1>2
<1> QED
  BY <1>1, <1>3, FS_EmptySet

(* A job alone finds no rows between its delete and its insert.            *)
LEMMA AloneStep ==
    ASSUME MaxWorkers = 1, TypeOK, WritesAlone, FtsOneVersion, [Next]_vars
    PROVE  WritesAlone' /\ FtsOneVersion'
<1> DEFINE Goal == WritesAlone' /\ FtsOneVersion'
<1> USE DEF TypeOK, Goto
<1>1. ASSUME UNCHANGED fts, Busy' \subseteq Busy,
             \A w \in Workers : pc'[w] = "ftsInsert" => pc[w] = "ftsInsert"
      PROVE  Goal
  BY <1>1 DEF WritesAlone, FtsOneVersion
<1>2. ASSUME NEW w \in Workers, Prepare(w) PROVE Goal
  <2>1. Busy = {} /\ UNCHANGED fts
    BY <1>2, StartsAlone DEF Prepare
  <2>2. Busy' \subseteq {w}
    BY <1>2, <2>1 DEF Prepare, Busy
  <2>3. \A x \in Workers : pc'[x] # "ftsInsert"
    BY <1>2, <2>1 DEF Prepare, Busy
  <2> QED
    BY <2>1, <2>2, <2>3 DEF WritesAlone, FtsOneVersion
<1>3. ASSUME NEW w \in Workers,
             AcquireLock(w) \/ SendBatch(w) \/ FailUpsert(w) \/ DeleteOldVersions(w)
                            \/ ReleaseLock(w) \/ KillWorker(w)
      PROVE  Goal
  <2>1. UNCHANGED fts /\ Busy' \subseteq Busy
    BY <1>3 DEF AcquireLock, SendBatch, FailUpsert, DeleteOldVersions, ReleaseLock, KillWorker, Busy
  <2>2. \A x \in Workers : pc'[x] = "ftsInsert" => pc[x] = "ftsInsert"
    BY <1>3 DEF AcquireLock, SendBatch, FailUpsert, DeleteOldVersions, ReleaseLock, KillWorker
  <2> QED
    BY <1>1, <2>1, <2>2
<1>4. ASSUME NEW w \in Workers, FtsDelete(w) PROVE Goal
  <2>1. CASE fts' = [v \in Versions |-> 0]
    <3>1. Busy' \subseteq Busy
      BY <1>4 DEF FtsDelete, Busy
    <3> QED
      BY <2>1, <3>1 DEF WritesAlone, FtsOneVersion
  <2>2. CASE UNCHANGED fts /\ pc' = [pc EXCEPT ![w] = "release"] /\ pc[w] = "ftsDelete"
    BY <1>1, <2>2 DEF Busy
  <2> QED
    BY <1>4, <2>1, <2>2 DEF FtsDelete, DeleteByDoc
<1>5. ASSUME NEW w \in Workers, FtsInsert(w) PROVE Goal
  <2>1. pc[w] = "ftsInsert" /\ pc' = [pc EXCEPT ![w] = "release"] /\ w \in Busy
    BY <1>5 DEF FtsInsert, Busy
  <2>2. Busy' \subseteq Busy
    BY <2>1 DEF Busy
  <2>3. \A x \in Workers : pc'[x] # "ftsInsert"
    BY <2>1 DEF WritesAlone, Busy
  <2>4. \A v \in Versions : fts[v] = 0
    BY <2>1 DEF WritesAlone
  <2>5. \/ UNCHANGED fts
        \/ fts' = [fts EXCEPT ![VersionOf[w]] = @ + 1]
    BY <1>5 DEF FtsInsert
  <2>6. \A v \in Versions : fts'[v] = 0 \/ (fts'[v] = 1 /\ v = VersionOf[w])
    BY <2>4, <2>5
  <2>7. FtsOneVersion'
    BY <2>6 DEF FtsOneVersion
  <2> QED
    BY <2>2, <2>3, <2>7 DEF WritesAlone
<1>6. ASSUME NEW v \in Versions, ExpireLock(v) PROVE Goal
  BY <1>1, <1>6 DEF ExpireLock, Busy
<1>7. ASSUME UNCHANGED vars PROVE Goal
  BY <1>1, <1>7 DEF vars, Busy
<1> HIDE DEF Goal
<1>8. Goal
  BY <1>2, <1>3, <1>4, <1>5, <1>6, <1>7 DEF Next, JobStep
<1> QED
  BY <1>8 DEF Goal

(* With one worker process that is every behaviour: the FTS rows of one    *)
(* version, once, through every failure and kill.                          *)
THEOREM FtsReplacedAlone == MaxWorkers = 1 => (Spec => []FtsOneVersion)
<1> SUFFICES ASSUME MaxWorkers = 1 PROVE Spec => []FtsOneVersion
  OBVIOUS
<1>1. Init => WritesAlone /\ FtsOneVersion
  BY DEF Init, WritesAlone, FtsOneVersion, Busy
<1>2. TypeOK /\ WritesAlone /\ FtsOneVersion /\ [Next]_vars => WritesAlone' /\ FtsOneVersion'
  BY AloneStep
<1>3. IInv => TypeOK
  BY DEF IInv
<1> QED
  BY <1>1, <1>2, <1>3, IndexInductive, PTL DEF Spec
=============================================================================
