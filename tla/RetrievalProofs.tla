-------------------------- MODULE RetrievalProofs ---------------------------
(***************************************************************************)
(* Proofs about the two searches of a retrieval and the fusion of their    *)
(* hits beside a re-ingest, and about the cache of the embedding service   *)
(* that turns the query into a vector.                                     *)
(***************************************************************************)
EXTENDS Retrieval, EmbeddingCache, DataProofs
-----------------------------------------------------------------------------
(***************************************************************************)
(* Proofs about EmbeddingCache: encode answers with the vector of each     *)
(* text at the index of that text, for any number of threads, texts and    *)
(* batches, and whatever the other threads and the flush do to the cache.  *)
(*                                                                         *)
(* What a thread has still to do is in its own variables: every text that  *)
(* it has looked up and not filled in is among the misses not yet put.     *)
(* What it takes from the cache is right because every entry has the       *)
(* vector of its key, whoever put it, and so has an entry once found.      *)
(***************************************************************************)

Finding == {"find", "expire", "touch"}

Putting == {"refresh", "insert", "trim", "pop"}

Doings == Finding \cup Putting \cup {"rest", "encode", "put", "returned", "failed", "raised"}

Slots == Texts \cup {NoVector}

(* Text i of the batch is filled in, or among the misses from an index on. *)
Answered(b, f, m, i, from) ==
    f[i] = b[i] \/ \E k \in from .. Len(m) : m[k] = <<i, b[i]>>

(* Where a thread that does d stands with its batch b, its results f, its  *)
(* misses m and its index n.                                               *)
Progress(d, b, f, m, n) ==
    /\ Len(f) = Len(b)
    /\ \A k \in 1 .. Len(m) : \E i \in 1 .. Len(b) : m[k] = <<i, b[i]>>
    /\ d \in Finding => /\ n \in 1 .. Len(b)
                        /\ \A i \in 1 .. n - 1 : Answered(b, f, m, i, 1)
    /\ d \in {"encode", "put"} => /\ n \in 1 .. Len(m)
                                  /\ \A i \in 1 .. Len(b) : Answered(b, f, m, i, n)
    /\ d \in Putting => /\ n \in 1 .. Len(m) /\ f[m[n][1]] = m[n][2]
                        /\ \A i \in 1 .. Len(b) : Answered(b, f, m, i, n + 1)
    /\ d = "returned" => f = b

ThreadsTyped ==
    /\ doing \in [EncodeThreads -> Doings]
    /\ batch \in [EncodeThreads -> Seq(Texts)]
    /\ filled \in [EncodeThreads -> Seq(Slots)]
    /\ misses \in [EncodeThreads -> Seq(Nat \X Texts)]
    /\ next \in [EncodeThreads -> Nat]

ThreadsInv ==
    /\ ThreadsTyped
    /\ \A t \in EncodeThreads : Progress(doing[t], batch[t], filled[t], misses[t], next[t])

(* An entry has the vector of its key.                                     *)
CacheEntry == {e \in [key : Texts, vector : Texts, stale : BOOLEAN] : e.vector = e.key}

FoundInv ==
    /\ found \in [EncodeThreads -> Slots]
    /\ \A t \in EncodeThreads : doing[t] = "touch" => found[t] = TextAt(t)

CacheInv == ThreadsInv /\ entries \in Seq(CacheEntry) /\ FoundInv
-----------------------------------------------------------------------------
(* The thread's own variables: what each operation makes of them.          *)

(* Results that are all filled in are the batch.                           *)
LEMMA AllFilled ==
    ASSUME NEW b \in Seq(Texts), NEW f \in Seq(Slots), Len(f) = Len(b),
           \A i \in 1 .. Len(b) : f[i] = b[i]
    PROVE  f = b
OBVIOUS

(* After a text: the next one, or the first of the misses, or the answer.  *)
AfterText(b, m, n) ==
    IF n # Len(b) THEN "find" ELSE IF m = <<>> THEN "returned" ELSE "encode"

(* A text that is skipped.                                                 *)
LEMMA AdvanceProgress ==
    ASSUME NEW b \in Seq(Texts), NEW f \in Seq(Slots), NEW m \in Seq(Nat \X Texts),
           NEW n \in 1 .. Len(b), Len(f) = Len(b),
           \A k \in 1 .. Len(m) : \E i \in 1 .. Len(b) : m[k] = <<i, b[i]>>,
           \A i \in 1 .. n : Answered(b, f, m, i, 1)
    PROVE  Progress(AfterText(b, m, n), b, f, m, IF n = Len(b) THEN 1 ELSE n + 1)
<1>1. CASE n # Len(b)
  BY <1>1 DEF AfterText, Progress, Finding, Putting
<1>2. CASE n = Len(b) /\ m = <<>>
  <2>1. f = b
    BY <1>2, AllFilled DEF Answered
  <2> QED BY <1>2, <2>1 DEF AfterText, Progress, Finding, Putting
<1>3. CASE n = Len(b) /\ m # <<>>
  <2>1. 1 \in 1 .. Len(m)
    BY <1>3
  <2> QED BY <1>3, <2>1 DEF AfterText, Progress, Finding, Putting
<1> QED BY <1>1, <1>2, <1>3

(* A text that was found is filled in.                                     *)
LEMMA HitProgress ==
    ASSUME NEW b \in Seq(Texts), NEW f \in Seq(Slots), NEW m \in Seq(Nat \X Texts),
           NEW n \in Nat, Progress("touch", b, f, m, n)
    PROVE  /\ [f EXCEPT ![n] = b[n]] \in Seq(Slots)
           /\ Progress(AfterText(b, m, n), b, [f EXCEPT ![n] = b[n]], m,
                       IF n = Len(b) THEN 1 ELSE n + 1)
<1> DEFINE g == [f EXCEPT ![n] = b[n]]
<1>1. n \in 1 .. Len(b) /\ Len(f) = Len(b)
  BY DEF Progress, Finding
<1>2. g \in Seq(Slots) /\ Len(g) = Len(b) /\ \A i \in 1 .. Len(b) : g[i] = IF i = n THEN b[n] ELSE f[i]
  BY <1>1 DEF Slots
<1>4. \A k \in 1 .. Len(m) : \E i \in 1 .. Len(b) : m[k] = <<i, b[i]>>
  BY DEF Progress
<1>t. \A i \in 1 .. n - 1 : Answered(b, f, m, i, 1)
  BY DEF Progress, Finding
<1> HIDE DEF g
<1>3. \A i \in 1 .. n : Answered(b, g, m, i, 1)
  <2> SUFFICES ASSUME NEW i \in 1 .. n PROVE Answered(b, g, m, i, 1)
    OBVIOUS
  <2>1. CASE i = n
    BY <1>1, <1>2, <2>1 DEF Answered
  <2>2. CASE i \in 1 .. n - 1
    <3>1. i \in 1 .. Len(b) /\ i # n
      BY <1>1, <2>2
    <3>2. g[i] = f[i]
      BY <1>2, <3>1
    <3>3. Answered(b, f, m, i, 1)
      BY <1>t, <2>2
    <3>4. (f[i] = b[i] \/ \E k \in 1 .. Len(m) : m[k] = <<i, b[i]>>) => Answered(b, g, m, i, 1)
      BY <3>2 DEF Answered
    <3> QED BY <3>3, <3>4 DEF Answered
  <2> QED BY <1>1, <2>1, <2>2
<1>5. Progress(AfterText(b, m, n), b, g, m, IF n = Len(b) THEN 1 ELSE n + 1)
  BY <1>1, <1>2, <1>3, <1>4, AdvanceProgress
<1> QED BY <1>2, <1>5 DEF g

(* A text that was not found joins the misses.                             *)
LEMMA MissProgress ==
    ASSUME NEW b \in Seq(Texts), NEW f \in Seq(Slots), NEW m \in Seq(Nat \X Texts),
           NEW n \in Nat, NEW d \in Finding, Progress(d, b, f, m, n)
    PROVE  /\ Append(m, <<n, b[n]>>) \in Seq(Nat \X Texts)
           /\ Progress(AfterText(b, Append(m, <<n, b[n]>>), n), b, f, Append(m, <<n, b[n]>>),
                       IF n = Len(b) THEN 1 ELSE n + 1)
<1> DEFINE p == Append(m, <<n, b[n]>>)
<1>1. n \in 1 .. Len(b) /\ Len(f) = Len(b) /\ \A i \in 1 .. n - 1 : Answered(b, f, m, i, 1)
  BY DEF Progress
<1>2. <<n, b[n]>> \in Nat \X Texts
  BY <1>1
<1>3. /\ p \in Seq(Nat \X Texts) /\ Len(p) = Len(m) + 1 /\ p[Len(p)] = <<n, b[n]>>
      /\ \A k \in 1 .. Len(m) : p[k] = m[k]
  BY <1>2
<1> HIDE DEF p
<1>4. \A k \in 1 .. Len(p) : \E i \in 1 .. Len(b) : p[k] = <<i, b[i]>>
  <2> SUFFICES ASSUME NEW k \in 1 .. Len(p) PROVE \E i \in 1 .. Len(b) : p[k] = <<i, b[i]>>
    OBVIOUS
  <2>1. CASE k = Len(p)
    <3>1. p[k] = <<n, b[n]>>
      BY <1>3, <2>1
    <3> QED BY <1>1, <3>1
  <2>2. CASE k \in 1 .. Len(m)
    <3>1. p[k] = m[k]
      BY <1>3, <2>2
    <3>2. \E i \in 1 .. Len(b) : m[k] = <<i, b[i]>>
      BY <2>2 DEF Progress
    <3> QED BY <3>1, <3>2
  <2> QED BY SMTT(30), <1>3, <2>1, <2>2
<1>5. \A i \in 1 .. n : Answered(b, f, p, i, 1)
  <2> SUFFICES ASSUME NEW i \in 1 .. n PROVE Answered(b, f, p, i, 1)
    OBVIOUS
  <2>k. Len(p) \in 1 .. Len(p) /\ 1 .. Len(m) \subseteq 1 .. Len(p)
    BY <1>3
  <2>1. CASE i = n
    <3>1. p[Len(p)] = <<i, b[i]>>
      BY <1>3, <2>1
    <3> QED BY <2>k, <3>1 DEF Answered
  <2>2. CASE i \in 1 .. n - 1
    <3>1. CASE f[i] = b[i]
      BY <3>1 DEF Answered
    <3>2. CASE \E k \in 1 .. Len(m) : m[k] = <<i, b[i]>>
      <4>1. PICK k \in 1 .. Len(m) : m[k] = <<i, b[i]>>
        BY <3>2
      <4>2. k \in 1 .. Len(p) /\ p[k] = <<i, b[i]>>
        BY <1>3, <2>k, <4>1
      <4> QED BY <4>2 DEF Answered
    <3> QED BY <1>1, <2>2, <3>1, <3>2 DEF Answered
  <2> QED BY <1>1, <2>1, <2>2
<1>6. Progress(AfterText(b, p, n), b, f, p, IF n = Len(b) THEN 1 ELSE n + 1)
  BY <1>1, <1>3, <1>4, <1>5, AdvanceProgress
<1> QED BY <1>3, <1>6 DEF p

(* A thread on its way through a put.                                      *)
LEMMA PutProgress ==
    ASSUME NEW b \in Seq(Texts), NEW f \in Seq(Slots), NEW m \in Seq(Nat \X Texts),
           NEW n \in Nat, NEW d \in {"refresh", "insert"}, Progress("put", b, f, m, n)
    PROVE  /\ [f EXCEPT ![m[n][1]] = m[n][2]] \in Seq(Slots)
           /\ Progress(d, b, [f EXCEPT ![m[n][1]] = m[n][2]], m, n)
<1>1. n \in 1 .. Len(m) /\ Len(f) = Len(b) /\ \A i \in 1 .. Len(b) : Answered(b, f, m, i, n)
  BY DEF Progress
<1>2. PICK j \in 1 .. Len(b) : m[n] = <<j, b[j]>>
  BY <1>1 DEF Progress
<1> DEFINE g == [f EXCEPT ![j] = b[j]]
<1>3. [f EXCEPT ![m[n][1]] = m[n][2]] = g
  BY <1>2
<1>4. g \in Seq(Slots) /\ Len(g) = Len(b) /\ \A i \in 1 .. Len(b) : g[i] = IF i = j THEN b[j] ELSE f[i]
  BY <1>1, <1>2 DEF Slots
<1> HIDE DEF g
<1>5. \A i \in 1 .. Len(b) : Answered(b, g, m, i, n + 1)
  <2> SUFFICES ASSUME NEW i \in 1 .. Len(b), i # j PROVE Answered(b, g, m, i, n + 1)
    BY <1>4 DEF Answered
  <2>1. CASE f[i] = b[i]
    BY <1>4, <2>1 DEF Answered
  <2>2. CASE \E k \in n .. Len(m) : m[k] = <<i, b[i]>>
    <3>1. PICK k \in n .. Len(m) : m[k] = <<i, b[i]>>
      BY <2>2
    <3>2. k # n
      BY <1>2, <3>1
    <3>3. k \in n + 1 .. Len(m)
      BY <3>1, <3>2
    <3> QED BY <3>1, <3>3 DEF Answered
  <2> QED BY <1>1, <2>1, <2>2 DEF Answered
<1>s. g[m[n][1]] = m[n][2]
  BY <1>2, <1>4
<1>6. Progress(d, b, g, m, n)
  BY <1>1, <1>4, <1>5, <1>s DEF Progress, Finding, Putting
<1> QED BY <1>3, <1>4, <1>6

(* A miss that was put is filled in.                                       *)
LEMMA AfterPutProgress ==
    ASSUME NEW b \in Seq(Texts), NEW f \in Seq(Slots), NEW m \in Seq(Nat \X Texts),
           NEW n \in Nat, NEW d \in Putting, Progress(d, b, f, m, n)
    PROVE  /\ \A e \in Putting \cup {"failed"} : Progress(e, b, f, m, n)
           /\ n = Len(m) => Progress("returned", b, f, m, n)
           /\ n # Len(m) => Progress("put", b, f, m, n + 1)
<1>1. /\ n \in 1 .. Len(m) /\ Len(f) = Len(b) /\ f[m[n][1]] = m[n][2]
      /\ \A i \in 1 .. Len(b) : Answered(b, f, m, i, n + 1)
  BY DEF Progress
<1>2. \A k \in 1 .. Len(m) : \E i \in 1 .. Len(b) : m[k] = <<i, b[i]>>
  BY DEF Progress
<1>3. \A e \in Putting \cup {"failed"} : Progress(e, b, f, m, n)
  <2> SUFFICES ASSUME NEW e \in Putting \cup {"failed"} PROVE Progress(e, b, f, m, n)
    OBVIOUS
  <2>1. e \notin Finding /\ e \notin {"encode", "put"} /\ e # "returned"
    BY DEF Finding, Putting
  <2> QED BY <1>1, <1>2, <2>1 DEF Progress
<1>4. ASSUME n = Len(m) PROVE Progress("returned", b, f, m, n)
  <2>1. f = b
    BY <1>1, <1>4, AllFilled DEF Answered
  <2> QED BY <1>1, <1>2, <2>1 DEF Progress, Finding, Putting
<1>5. ASSUME n # Len(m) PROVE Progress("put", b, f, m, n + 1)
  <2>1. n + 1 \in 1 .. Len(m)
    BY <1>1, <1>5
  <2>2. "put" \notin Finding \cup Putting
    BY DEF Finding, Putting
  <2> QED BY <1>1, <1>2, <2>1, <2>2 DEF Progress
<1> QED BY <1>3, <1>4, <1>5
-----------------------------------------------------------------------------
(* The threads.                                                            *)

(* A step in which at most one thread's variables change, and that thread  *)
(* stands well, keeps the invariant.                                       *)
LEMMA OneThread ==
    ASSUME ThreadsInv, NEW t \in EncodeThreads,
           NEW d \in Doings, NEW b \in Seq(Texts), NEW f \in Seq(Slots),
           NEW m \in Seq(Nat \X Texts), NEW n \in Nat, Progress(d, b, f, m, n),
           doing' = [doing EXCEPT ![t] = d], batch' = [batch EXCEPT ![t] = b],
           filled' = [filled EXCEPT ![t] = f], misses' = [misses EXCEPT ![t] = m],
           next' = [next EXCEPT ![t] = n]
    PROVE  ThreadsInv'
<1>1. ThreadsTyped'
  BY DEF ThreadsInv, ThreadsTyped
<1>2. ASSUME NEW u \in EncodeThreads
      PROVE  Progress(doing'[u], batch'[u], filled'[u], misses'[u], next'[u])
  <2>1. CASE u = t
    <3>1. doing'[u] = d /\ batch'[u] = b /\ filled'[u] = f /\ misses'[u] = m /\ next'[u] = n
      BY <2>1 DEF ThreadsInv, ThreadsTyped
    <3> QED BY <3>1
  <2>2. CASE u # t
    <3>1. /\ doing'[u] = doing[u] /\ batch'[u] = batch[u] /\ filled'[u] = filled[u]
          /\ misses'[u] = misses[u] /\ next'[u] = next[u]
      BY <2>2 DEF ThreadsInv, ThreadsTyped
    <3>2. Progress(doing[u], batch[u], filled[u], misses[u], next[u])
      BY DEF ThreadsInv
    <3> QED BY <3>1, <3>2
  <2> QED BY <2>1, <2>2
<1> QED BY <1>1, <1>2 DEF ThreadsInv

(* What is written when a variable is left alone at a thread.              *)
LEMMA Unwritten ==
    ASSUME ThreadsInv, NEW t \in EncodeThreads
    PROVE  /\ doing = [doing EXCEPT ![t] = doing[t]] /\ batch = [batch EXCEPT ![t] = batch[t]]
           /\ filled = [filled EXCEPT ![t] = filled[t]]
           /\ misses = [misses EXCEPT ![t] = misses[t]] /\ next = [next EXCEPT ![t] = next[t]]
           /\ doing[t] \in Doings /\ batch[t] \in Seq(Texts) /\ filled[t] \in Seq(Slots)
           /\ misses[t] \in Seq(Nat \X Texts) /\ next[t] \in Nat
           /\ Progress(doing[t], batch[t], filled[t], misses[t], next[t])
BY DEF ThreadsInv, ThreadsTyped

(* A thread that begins has nothing filled in.                             *)
LEMMA StartEncodeKeeps ==
    ASSUME ThreadsInv, NEW t \in EncodeThreads, StartEncode(t)
    PROVE  ThreadsInv'
<1>1. PICK texts \in TextBatches \ {<<>>} :
        /\ batch' = [batch EXCEPT ![t] = texts]
        /\ filled' = [filled EXCEPT ![t] = [i \in 1 .. Len(texts) |-> NoVector]]
  BY DEF StartEncode
<1> DEFINE f == [i \in 1 .. Len(texts) |-> NoVector]
<1>2. texts \in Seq(Texts) /\ 1 \in 1 .. Len(texts)
  BY CacheAssumption
<1>3. f \in Seq(Slots) /\ Len(f) = Len(texts)
  BY <1>2 DEF Slots
<1>4. misses' = [misses EXCEPT ![t] = <<>>] /\ next' = [next EXCEPT ![t] = 1]
      /\ doing' = [doing EXCEPT ![t] = "find"]
  BY DEF StartEncode, Do
<1>5. <<>> \in Seq(Nat \X Texts) /\ Len(<<>>) = 0 /\ "find" \in Doings
  BY DEF Doings, Finding
<1> HIDE DEF f
<1>6. Progress("find", texts, f, <<>>, 1)
  BY <1>2, <1>3, <1>5 DEF Progress, Finding, Putting
<1>7. filled' = [filled EXCEPT ![t] = f]
  BY <1>1 DEF f
<1> QED BY <1>1, <1>2, <1>3, <1>4, <1>5, <1>6, <1>7, OneThread

(* A miss, of a lookup or of an expired entry.                             *)
LEMMA MissedKeeps ==
    ASSUME ThreadsInv, NEW t \in EncodeThreads, doing[t] \in Finding, Missed(t),
           UNCHANGED <<batch, filled>>
    PROVE  ThreadsInv'
<1> DEFINE b == batch[t]
           m == Append(misses[t], <<next[t], b[next[t]]>>)
           n == IF next[t] = Len(b) THEN 1 ELSE next[t] + 1
<1>1. doing' = [doing EXCEPT ![t] = AfterText(b, m, next[t])]
      /\ misses' = [misses EXCEPT ![t] = m] /\ next' = [next EXCEPT ![t] = n]
  BY DEF Missed, Advance, Do, AfterText, TextAt, ThreadsInv, ThreadsTyped
<1>2. m \in Seq(Nat \X Texts) /\ Progress(AfterText(b, m, next[t]), b, filled[t], m, n)
  BY Unwritten, MissProgress
<1>3. AfterText(b, m, next[t]) \in Doings /\ n \in Nat
  BY Unwritten DEF AfterText, Doings, Finding
<1>4. /\ batch' = [batch EXCEPT ![t] = b] /\ filled' = [filled EXCEPT ![t] = filled[t]]
      /\ b \in Seq(Texts) /\ filled[t] \in Seq(Slots)
  BY Unwritten
<1> HIDE DEF b, m, n
<1> QED BY <1>1, <1>2, <1>3, <1>4, OneThread

(* Only the cache and what the thread does next change.                    *)
LEMMA OnlyDoing ==
    ASSUME ThreadsInv, NEW t \in EncodeThreads, NEW d \in Doings, Do(t, d),
           UNCHANGED <<batch, filled, misses, next>>,
           Progress(d, batch[t], filled[t], misses[t], next[t])
    PROVE  ThreadsInv'
<1>1. ThreadsTyped'
  BY DEF ThreadsInv, ThreadsTyped, Do
<1>2. ASSUME NEW u \in EncodeThreads
      PROVE  Progress(doing'[u], batch'[u], filled'[u], misses'[u], next'[u])
  <2>1. doing'[u] = IF u = t THEN d ELSE doing[u]
    BY DEF ThreadsInv, ThreadsTyped, Do
  <2>2. Progress(doing'[u], batch[u], filled[u], misses[u], next[u])
    BY <2>1 DEF ThreadsInv
  <2> QED BY <2>2
<1> QED BY <1>1, <1>2 DEF ThreadsInv

(* A look-up keeps the invariant.                                          *)
LEMMA FindKeeps ==
    ASSUME ThreadsInv, NEW t \in EncodeThreads, Find(t)
    PROVE  ThreadsInv'
<1>1. doing[t] = "find" /\ doing[t] \in Finding /\ UNCHANGED <<batch, filled>>
  BY DEF Find, Finding
<1>2. CASE Missed(t)
  BY <1>1, <1>2, MissedKeeps
<1>3. ASSUME NEW d \in {"expire", "touch"}, Do(t, d), UNCHANGED <<misses, next>>
      PROVE  ThreadsInv'
  <2>1. d \in Doings /\ Progress(d, batch[t], filled[t], misses[t], next[t])
    BY <1>1, Unwritten DEF Progress, Doings, Finding, Putting
  <2> QED BY <1>1, <1>3, <2>1, OnlyDoing
<1> QED BY <1>2, <1>3 DEF Find

(* A touch fills in the vector of the entry found.                         *)
LEMMA TouchKeeps ==
    ASSUME ThreadsInv, FoundInv, NEW t \in EncodeThreads, Touch(t)
    PROVE  ThreadsInv'
<1> DEFINE b == batch[t]
           m == misses[t]
           f == [filled[t] EXCEPT ![next[t]] = b[next[t]]]
           n == IF next[t] = Len(b) THEN 1 ELSE next[t] + 1
<1>1. doing[t] = "touch" /\ UNCHANGED batch
  BY DEF Touch
<1>2. CASE TextAt(t) \in Keys
  <2>1. doing' = [doing EXCEPT ![t] = AfterText(b, m, next[t])]
        /\ next' = [next EXCEPT ![t] = n] /\ misses' = [misses EXCEPT ![t] = m]
    BY <1>2 DEF Touch, Advance, Do, AfterText, ThreadsInv, ThreadsTyped
  <2>2. filled' = [filled EXCEPT ![t] = f]
    BY <1>1, <1>2 DEF Touch, FoundInv, TextAt, ThreadsInv, ThreadsTyped
  <2>3. f \in Seq(Slots) /\ Progress(AfterText(b, m, next[t]), b, f, m, n)
    BY ZenonT(60), <1>1, Unwritten, HitProgress
  <2>4. AfterText(b, m, next[t]) \in Doings /\ n \in Nat
    BY Unwritten DEF AfterText, Doings, Finding
  <2> HIDE DEF f, n
  <2> QED BY <1>1, <2>1, <2>2, <2>3, <2>4, Unwritten, OneThread
<1>3. CASE TextAt(t) \notin Keys
  <2>1. Do(t, "failed") /\ UNCHANGED <<filled, misses, next>>
    BY <1>3 DEF Touch
  <2>2. "failed" \in Doings /\ Progress("failed", batch[t], filled[t], misses[t], next[t])
    BY Unwritten DEF Progress, Doings, Finding, Putting
  <2> QED BY <1>1, <2>1, <2>2, OnlyDoing
<1> QED BY <1>2, <1>3

(* The model encodes the misses, or raises.                                *)
LEMMA EncodeKeeps ==
    ASSUME ThreadsInv, NEW t \in EncodeThreads, Encode(t)
    PROVE  ThreadsInv'
<1>1. doing[t] = "encode" /\ UNCHANGED <<batch, filled, misses, next>>
  BY DEF Encode
<1>2. ASSUME NEW d \in {"put", "raised"}, Do(t, d) PROVE ThreadsInv'
  <2>1. d \in Doings /\ Progress(d, batch[t], filled[t], misses[t], next[t])
    BY <1>1, Unwritten DEF Progress, Doings, Finding, Putting
  <2> QED BY <1>1, <1>2, <2>1, OnlyDoing
<1> QED BY <1>2 DEF Encode

(* A put fills in the miss.                                                *)
LEMMA PutKeeps ==
    ASSUME ThreadsInv, NEW t \in EncodeThreads, Put(t)
    PROVE  ThreadsInv'
<1> DEFINE m == misses[t]
           n == next[t]
           f == [filled[t] EXCEPT ![m[n][1]] = m[n][2]]
<1>1. doing[t] = "put" /\ UNCHANGED <<batch, misses, next>>
  BY DEF Put
<1>2. PICK d \in {"refresh", "insert"} : doing' = [doing EXCEPT ![t] = d]
  BY DEF Put, Do
<1>3. filled' = [filled EXCEPT ![t] = f]
  BY DEF Put, MissAt, ThreadsInv, ThreadsTyped
<1>4. /\ batch[t] \in Seq(Texts) /\ filled[t] \in Seq(Slots) /\ m \in Seq(Nat \X Texts)
      /\ n \in Nat /\ Progress("put", batch[t], filled[t], m, n)
  BY <1>1, Unwritten
<1>5. f \in Seq(Slots) /\ Progress(d, batch[t], f, m, n)
  BY <1>4, PutProgress
<1>6. d \in Doings
  BY DEF Doings, Putting
<1>7. /\ batch' = [batch EXCEPT ![t] = batch[t]]
      /\ misses' = [misses EXCEPT ![t] = m] /\ next' = [next EXCEPT ![t] = n]
  BY <1>1, Unwritten
<1> HIDE DEF f, m, n
<1> QED BY <1>2, <1>3, <1>4, <1>5, <1>6, <1>7, OneThread

(* The rest of a put changes the cache only.                               *)
LEMMA AfterPutKeeps ==
    ASSUME ThreadsInv, NEW t \in EncodeThreads,
           Refresh(t) \/ Insert(t) \/ Trim(t) \/ PopOldest(t)
    PROVE  ThreadsInv'
<1>1. doing[t] \in Putting /\ UNCHANGED <<batch, filled, misses>>
  BY DEF Refresh, Insert, Trim, PopOldest, Putting
<1>2. /\ \A e \in Putting \cup {"failed"} : Progress(e, batch[t], filled[t], misses[t], next[t])
      /\ next[t] = Len(misses[t]) => Progress("returned", batch[t], filled[t], misses[t], next[t])
      /\ next[t] # Len(misses[t]) => Progress("put", batch[t], filled[t], misses[t], next[t] + 1)
  BY <1>1, Unwritten, AfterPutProgress
<1>3. ASSUME NEW e \in Putting \cup {"failed"}, Do(t, e), UNCHANGED next
      PROVE  ThreadsInv'
  BY <1>1, <1>2, <1>3, OnlyDoing DEF Doings
<1>4. CASE Refresh(t) \/ Insert(t) \/ PopOldest(t)
  BY <1>3, <1>4 DEF Refresh, Insert, PopOldest, Putting
<1>5. CASE Trim(t)
  <2>1. CASE Len(entries) > CacheCapacity
    <3>1. Do(t, "pop") /\ next' = [next EXCEPT ![t] = next[t]]
      BY <1>5, <2>1 DEF Trim
    <3> QED BY <1>3, <3>1, Unwritten DEF Putting
  <2>2. CASE ~(Len(entries) > CacheCapacity) /\ next[t] = Len(misses[t])
    <3>1. Do(t, "returned") /\ next' = [next EXCEPT ![t] = next[t]] /\ "returned" \in Doings
      BY <1>5, <2>2 DEF Trim, Doings
    <3> QED BY <1>1, <1>2, <2>2, <3>1, Unwritten, OnlyDoing
  <2>3. CASE ~(Len(entries) > CacheCapacity) /\ next[t] # Len(misses[t])
    <3>1. doing' = [doing EXCEPT ![t] = "put"] /\ next' = [next EXCEPT ![t] = next[t] + 1]
      BY <1>5, <2>3 DEF Trim, Do
    <3>2. "put" \in Doings /\ next[t] + 1 \in Nat
      BY Unwritten DEF Doings
    <3>3. /\ batch' = [batch EXCEPT ![t] = batch[t]] /\ filled' = [filled EXCEPT ![t] = filled[t]]
          /\ misses' = [misses EXCEPT ![t] = misses[t]] /\ batch[t] \in Seq(Texts)
          /\ filled[t] \in Seq(Slots) /\ misses[t] \in Seq(Nat \X Texts)
      BY <1>1, Unwritten
    <3>4. Progress("put", batch[t], filled[t], misses[t], next[t] + 1)
      BY <1>2, <2>3
    <3> QED BY <3>1, <3>2, <3>3, <3>4, OneThread
  <2> QED BY <2>1, <2>2, <2>3
<1> QED BY <1>4, <1>5
-----------------------------------------------------------------------------

(* The cache.                                                              *)

(* The keys of a sequence of entries.                                      *)
LEMMA KeyOfEntry ==
    ASSUME entries \in Seq(CacheEntry), NEW key \in Keys
    PROVE  EntryOf(key) \in CacheEntry /\ EntryOf(key).key = key
<1>1. ToSet(entries) \subseteq CacheEntry /\ \E e \in ToSet(entries) : e.key = key
  BY DEF Keys, ToSet
<1> QED BY <1>1 DEF EntryOf

(* move_to_end changes the order of the entries and not their keys.        *)
LEMMA MoveToEndKeys ==
    ASSUME entries \in Seq(CacheEntry), NEW t, NEW key, MoveToEnd(t, key)
    PROVE  entries' \in Seq(CacheEntry) /\ Keys' = Keys
<1>1. CASE key \in Keys
  <2> DEFINE S == {e \in ToSet(entries) : e.key # key}
             q == Selected(entries, S)
             last == EntryOf(key)
  <2>1. entries' = Append(q, last) /\ last \in CacheEntry /\ last.key = key
    BY <1>1, KeyOfEntry DEF MoveToEnd, Without
  <2>2. IsSelection(q, entries, S, CacheEntry)
    <3> HIDE DEF S
    <3> QED BY SelectedFacts
  <2>3. \A i \in 1 .. Len(entries) : entries[i] \in S <=> entries[i].key # key
    BY DEF ToSet
  <2> HIDE DEF S, q, last
  <2>4. /\ q \in Seq(CacheEntry)
        /\ \A k \in 1 .. Len(q) : \E i \in 1 .. Len(entries) : q[k] = entries[i]
        /\ \A i \in 1 .. Len(entries) : entries[i].key # key => \E k \in 1 .. Len(q) : q[k] = entries[i]
    BY <2>2, <2>3 DEF IsSelection
  <2>5. /\ entries' \in Seq(CacheEntry) /\ Len(entries') = Len(q) + 1 /\ Len(q) \in Nat
        /\ entries'[Len(q) + 1] = last /\ \A k \in 1 .. Len(q) : entries'[k] = q[k]
    BY <2>1, <2>4
  <2>6. ASSUME NEW x \in Keys' PROVE x \in Keys
    <3>1. PICK k \in 1 .. Len(q) + 1 : x = entries'[k].key
      BY <2>5, <2>6 DEF Keys
    <3>2. CASE k = Len(q) + 1
      BY <1>1, <2>1, <2>5, <3>1, <3>2
    <3>3. CASE k \in 1 .. Len(q)
      <4>1. PICK i \in 1 .. Len(entries) : q[k] = entries[i]
        BY <2>4, <3>3
      <4>2. x = entries[i].key
        BY <2>5, <3>1, <3>3, <4>1
      <4> QED BY <4>2 DEF Keys
    <3> QED BY <2>5, <3>2, <3>3
  <2>7. ASSUME NEW x \in Keys PROVE x \in Keys'
    <3>1. CASE x = key
      <4>1. Len(q) + 1 \in 1 .. Len(entries')
        BY <2>5
      <4> QED BY <2>1, <2>5, <3>1, <4>1 DEF Keys
    <3>2. CASE x # key
      <4>1. PICK k \in 1 .. Len(q) : q[k].key = x
        BY <2>4, <3>2 DEF Keys
      <4>2. k \in 1 .. Len(entries') /\ entries'[k].key = x
        BY <2>5, <4>1
      <4> QED BY <4>2 DEF Keys
    <3> QED BY <3>1, <3>2
  <2> QED BY <2>5, <2>6, <2>7
<1>2. CASE key \notin Keys
  BY <1>2 DEF MoveToEnd, Keys
<1> QED BY <1>1, <1>2

(* An insertion takes no key away.                                         *)
LEMMA InsertKeys ==
    ASSUME CacheInv, NEW t \in EncodeThreads, Insert(t)
    PROVE  entries' \in Seq(CacheEntry) /\ Keys \subseteq Keys'
<1> DEFINE key == MissAt(t)[2]
           here == [i \in 1 .. Len(entries) |-> IF entries[i].key = key THEN Entry(t) ELSE entries[i]]
<1>0. entries \in Seq(CacheEntry)
  BY DEF CacheInv
<1>1. Entry(t) \in CacheEntry /\ Entry(t).key = key
  <2>1. /\ next[t] \in 1 .. Len(misses[t]) /\ misses[t] \in Seq(Nat \X Texts)
        /\ filled[t][MissAt(t)[1]] = key
    BY DEF Insert, CacheInv, ThreadsInv, Progress, ThreadsTyped, Putting, MissAt
  <2>2. misses[t][next[t]] \in Nat \X Texts
    BY <2>1
  <2>3. key \in Texts
    BY <2>2 DEF MissAt
  <2>4. Entry(t) = [key |-> key, vector |-> key, stale |-> FALSE]
    BY <2>1 DEF Entry
  <2> HIDE DEF key
  <2> QED BY <2>3, <2>4 DEF CacheEntry
<1>2. entries' = IF key \in Keys THEN here ELSE Append(entries, Entry(t))
  BY DEF Insert
<1>3. CASE key \in Keys
  <2>1. /\ here \in Seq(CacheEntry) /\ Len(here) = Len(entries)
        /\ \A i \in 1 .. Len(entries) : here[i].key = entries[i].key
    BY <1>0, <1>1
  <2> HIDE DEF here, key
  <2> QED BY <1>2, <1>3, <2>1 DEF Keys
<1>4. CASE key \notin Keys
  <2> HIDE DEF here, key
  <2>1. /\ entries' \in Seq(CacheEntry) /\ Len(entries') = Len(entries) + 1 /\ Len(entries) \in Nat
        /\ \A i \in 1 .. Len(entries) : entries'[i] = entries[i]
    BY <1>0, <1>1, <1>2, <1>4
  <2> QED BY <2>1 DEF Keys
<1> QED BY <1>3, <1>4

(* The clock takes no key away.                                            *)
LEMMA AgeKeys ==
    ASSUME entries \in Seq(CacheEntry), EntriesAge
    PROVE  entries' \in Seq(CacheEntry) /\ Keys' = Keys
<1>1. entries' = [i \in 1 .. Len(entries) |-> [entries[i] EXCEPT !.stale = TRUE]]
  BY DEF EntriesAge
<1>2. \A i \in 1 .. Len(entries) : entries[i] \in CacheEntry
  OBVIOUS
<1>3. \A i \in 1 .. Len(entries) :
          [entries[i] EXCEPT !.stale = TRUE] \in CacheEntry
          /\ [entries[i] EXCEPT !.stale = TRUE].key = entries[i].key
  BY <1>2 DEF CacheEntry
<1>4. entries' \in Seq(CacheEntry) /\ Len(entries') = Len(entries)
  BY <1>1, <1>3
<1> QED BY <1>1, <1>3, <1>4 DEF Keys

(* Every entry of the cache has the vector of its key, and a thread that   *)
(* has found an entry has the vector of its text.                          *)
LEMMA EntriesKeep ==
    ASSUME CacheInv, [CacheNext]_cacheVars
    PROVE  entries' \in Seq(CacheEntry)
<1>1. entries \in Seq(CacheEntry)
  BY DEF CacheInv
<1>2. CASE \E t \in EncodeThreads : Touch(t) \/ Refresh(t)
  BY <1>1, <1>2, MoveToEndKeys DEF Touch, Refresh
<1>3. CASE \E t \in EncodeThreads : Expire(t)
  <2>1. PICK t \in EncodeThreads : Expire(t)
    BY <1>3
  <2>2. IsSelection(entries', entries, {e \in ToSet(entries) : e.key # TextAt(t)}, CacheEntry)
    BY <1>1, <2>1, SelectedFacts DEF Expire, Without
  <2> QED BY <2>2 DEF IsSelection
<1>4. CASE \E t \in EncodeThreads : Insert(t)
  BY <1>4, InsertKeys
<1>5. CASE \E t \in EncodeThreads : PopOldest(t)
  BY <1>1, <1>5 DEF PopOldest
<1>6. CASE FlushCache
  BY <1>6 DEF FlushCache
<1>7. CASE EntriesAge
  BY <1>1, <1>7, AgeKeys
<1>8. CASE \/ LoadModel \/ UNCHANGED cacheVars
           \/ \E t \in EncodeThreads : StartEncode(t) \/ Find(t) \/ Encode(t) \/ Put(t) \/ Trim(t)
  BY <1>1, <1>8 DEF LoadModel, cacheVars, StartEncode, Find, Encode, Put, Trim
<1> QED BY <1>2, <1>3, <1>4, <1>5, <1>6, <1>7, <1>8 DEF CacheNext

(* A thread that has found nothing, or its text still to touch.            *)
LEMMA FoundKeeps ==
    ASSUME CacheInv, [CacheNext]_cacheVars
    PROVE  FoundInv'
<1>0. FoundInv /\ doing \in [EncodeThreads -> Doings] /\ entries \in Seq(CacheEntry)
  BY DEF CacheInv, ThreadsInv, ThreadsTyped
<1>1. CASE UNCHANGED <<doing, batch, next, found>>
  BY <1>0, <1>1 DEF FoundInv, TextAt
<1>2. ASSUME NEW t \in EncodeThreads, NEW d \in Doings, d # "touch", Do(t, d),
             found' \in [EncodeThreads -> Slots],
             \A u \in EncodeThreads \ {t} :
                found'[u] = found[u] /\ batch'[u] = batch[u] /\ next'[u] = next[u]
      PROVE  FoundInv'
  BY <1>0, <1>2 DEF FoundInv, TextAt, Do
<1>3. ASSUME NEW t \in EncodeThreads, NEW m, Advance(t, m), UNCHANGED batch,
             found' \in [EncodeThreads -> Slots],
             \A u \in EncodeThreads \ {t} : found'[u] = found[u]
      PROVE  FoundInv'
  <2>1. PICK d \in {"find", "returned", "encode"} : Do(t, d)
    BY <1>3 DEF Advance
  <2>2. d \in Doings /\ d # "touch"
    BY DEF Doings, Finding
  <2>3. \A u \in EncodeThreads \ {t} : next'[u] = next[u]
    BY <1>3 DEF Advance, CacheInv, ThreadsInv, ThreadsTyped
  <2> QED BY <1>2, <1>3, <2>1, <2>2, <2>3
<1>4. ASSUME NEW t \in EncodeThreads, StartEncode(t) PROVE FoundInv'
  <2>1. /\ Do(t, "find") /\ "find" \in Doings /\ found' = found
        /\ \A u \in EncodeThreads \ {t} : batch'[u] = batch[u] /\ next'[u] = next[u]
    BY <1>4 DEF StartEncode, Doings, Finding, CacheInv, ThreadsInv, ThreadsTyped
  <2> QED BY <1>0, <1>2, <2>1 DEF FoundInv
<1>5. ASSUME NEW t \in EncodeThreads, Find(t) PROVE FoundInv'
  <2>1. CASE TextAt(t) \notin Keys
    BY <1>0, <1>3, <1>5, <2>1 DEF Find, Missed, FoundInv
  <2>2. CASE TextAt(t) \in Keys
    <3> DEFINE e == EntryOf(TextAt(t))
    <3>1. e \in CacheEntry /\ e.key = TextAt(t)
      BY <1>0, <2>2, KeyOfEntry
    <3>2. e.vector = TextAt(t) /\ e.vector \in Slots
      BY <3>1 DEF CacheEntry, Slots
    <3>3. /\ Do(t, IF e.stale THEN "expire" ELSE "touch")
          /\ found' = [found EXCEPT ![t] = IF e.stale THEN NoVector ELSE e.vector]
          /\ UNCHANGED <<batch, next>>
      BY <1>5, <2>2 DEF Find
    <3> HIDE DEF e
    <3>4. found' \in [EncodeThreads -> Slots]
      BY <1>0, <3>2, <3>3 DEF FoundInv, Slots
    <3>5. CASE e.stale
      BY <1>0, <1>2, <3>3, <3>4, <3>5 DEF Doings, Finding, FoundInv
    <3>6. CASE ~e.stale
      BY <1>0, <3>2, <3>3, <3>4, <3>6 DEF FoundInv, TextAt, Do
    <3> QED BY <3>5, <3>6
  <2> QED BY <2>1, <2>2
<1>6. ASSUME NEW t \in EncodeThreads, Expire(t) PROVE FoundInv'
  BY <1>0, <1>3, <1>6 DEF Expire, Missed, FoundInv
<1>7. ASSUME NEW t \in EncodeThreads, Touch(t) PROVE FoundInv'
  <2>1. /\ found' \in [EncodeThreads -> Slots] /\ UNCHANGED batch
        /\ \A u \in EncodeThreads \ {t} : found'[u] = found[u]
    BY <1>0, <1>7 DEF Touch, FoundInv, Slots
  <2>2. CASE Advance(t, misses[t])
    BY <1>3, <2>1, <2>2
  <2>3. CASE Do(t, "failed") /\ UNCHANGED next
    BY <1>2, <2>1, <2>3 DEF Doings
  <2> QED BY <1>7, <2>2, <2>3 DEF Touch
<1>8. ASSUME NEW t \in EncodeThreads, Encode(t) \/ Put(t) \/ Refresh(t) \/ Insert(t) \/ PopOldest(t)
      PROVE  FoundInv'
  <2>1. UNCHANGED <<batch, next, found>>
    BY <1>8 DEF Encode, Put, Refresh, Insert, PopOldest
  <2>2. PICK d \in (Putting \cup {"put", "failed", "raised"}) : Do(t, d)
    BY <1>8 DEF Encode, Put, Refresh, Insert, PopOldest, Putting
  <2>3. d \in Doings /\ d # "touch"
    BY DEF Doings, Putting
  <2> QED BY <1>0, <1>2, <2>1, <2>2, <2>3 DEF FoundInv
<1>9. ASSUME NEW t \in EncodeThreads, Trim(t) PROVE FoundInv'
  <2>1. UNCHANGED <<batch, found>> /\ \A u \in EncodeThreads \ {t} : next'[u] = next[u]
    BY <1>9 DEF Trim, CacheInv, ThreadsInv, ThreadsTyped
  <2>2. PICK d \in {"pop", "returned", "put"} : Do(t, d)
    BY <1>9 DEF Trim
  <2>3. d \in Doings /\ d # "touch"
    BY DEF Doings, Putting
  <2> QED BY <1>0, <1>2, <2>1, <2>2, <2>3 DEF FoundInv
<1>10. LoadModel \/ FlushCache \/ EntriesAge \/ UNCHANGED cacheVars
       => UNCHANGED <<doing, batch, next, found>>
  BY DEF LoadModel, FlushCache, EntriesAge, cacheVars
<1> QED BY <1>1, <1>4, <1>5, <1>6, <1>7, <1>8, <1>9, <1>10 DEF CacheNext

(* No thread is in encode.                                                 *)
LEMMA CacheStarts ==
    ASSUME CacheInit
    PROVE  CacheInv
<1>1. ThreadsTyped
  BY DEF CacheInit, ThreadsTyped, Doings
<1>2. Progress("rest", <<>>, <<>>, <<>>, 1)
  BY DEF Progress, Finding, Putting
<1>3. ThreadsInv
  BY <1>1, <1>2 DEF CacheInit, ThreadsInv
<1>4. entries \in Seq(CacheEntry) /\ FoundInv
  BY DEF CacheInit, FoundInv, Slots
<1> QED BY <1>3, <1>4 DEF CacheInv

(* No step takes it away.                                                  *)
LEMMA CacheKeeps ==
    ASSUME CacheInv, [CacheNext]_cacheVars
    PROVE  CacheInv'
<1> SUFFICES ThreadsInv'
  BY EntriesKeep, FoundKeeps DEF CacheInv
<1>0. ThreadsInv /\ FoundInv
  BY DEF CacheInv
<1>1. CASE UNCHANGED <<doing, batch, filled, misses, next>>
  BY <1>0, <1>1 DEF ThreadsInv, ThreadsTyped
<1>2. CASE \E t \in EncodeThreads : Expire(t)
  BY <1>0, <1>2, MissedKeeps DEF Expire, Finding
<1>3. CASE \E t \in EncodeThreads : StartEncode(t) \/ Find(t) \/ Touch(t) \/ Encode(t) \/ Put(t)
  BY <1>0, <1>3, StartEncodeKeeps, FindKeeps, TouchKeeps, EncodeKeeps, PutKeeps
<1>4. CASE \E t \in EncodeThreads : Refresh(t) \/ Insert(t) \/ Trim(t) \/ PopOldest(t)
  BY <1>0, <1>4, AfterPutKeeps
<1>5. LoadModel \/ FlushCache \/ EntriesAge \/ UNCHANGED cacheVars
      => UNCHANGED <<doing, batch, filled, misses, next>>
  BY DEF LoadModel, FlushCache, EntriesAge, cacheVars
<1> QED BY <1>1, <1>2, <1>3, <1>4, <1>5 DEF CacheNext

(* The invariant holds of every reachable state of the cache.              *)
THEOREM CacheInductive == CacheSpec => []CacheInv
<1>1. CacheInit => CacheInv
  BY CacheStarts
<1>2. CacheInv /\ [CacheNext]_cacheVars => CacheInv'
  BY CacheKeeps
<1> QED BY <1>1, <1>2, PTL DEF CacheSpec

(* Encode answers with the vector of each text at the index of that text,  *)
(* with any number of threads in it (embedding_service.py:317-345).        *)
THEOREM AnswersInOrder == CacheSpec => []VectorsMatchTexts
<1>1. CacheInv => VectorsMatchTexts
  BY DEF CacheInv, ThreadsInv, Progress, VectorsMatchTexts
<1> QED BY <1>1, CacheInductive, PTL
-----------------------------------------------------------------------------
(***************************************************************************)
(* EmbeddingCache: a thread fails only if another one took entries away    *)
(* under it. What a thread counts on between two of its steps, a key it    *)
(* has found or an entry to pop, is there unless its flag says that        *)
(* somebody removed one.                                                   *)
(***************************************************************************)

(* What a thread counts on in the cache, while nobody took entries away:   *)
(* the key it has found, or an entry to pop.                               *)
CountsOn(d, text, miss, keys) ==
    /\ d = "touch" => text \in keys
    /\ d = "refresh" => miss \in keys
    /\ d = "pop" => keys # {}
    /\ d # "failed"

RaceInv ==
    /\ CacheInv
    /\ cacheTouched \in [EncodeThreads -> BOOLEAN]
    /\ \A t \in EncodeThreads :
          cacheTouched[t] \/ CountsOn(doing[t], TextAt(t), MissAt(t)[2], Keys)

(* A thread that does nothing itself counts on no more than before if no   *)
(* key went, or if it is marked.                                           *)
LEMMA OtherThreads ==
    ASSUME RaceInv, NEW u \in EncodeThreads,
           UNCHANGED <<doing[u], batch[u], misses[u], next[u]>>,
           cacheTouched'[u] \/ (cacheTouched'[u] = cacheTouched[u] /\ Keys \subseteq Keys')
    PROVE  cacheTouched'[u] \/ CountsOn(doing'[u], TextAt(u)', MissAt(u)[2]', Keys')
BY DEF RaceInv, CacheInv, CountsOn, TextAt, MissAt

(* One thread acts.                                                        *)
Apart(t) ==
    \A u \in EncodeThreads \ {t} :
        /\ doing'[u] = doing[u] /\ batch'[u] = batch[u]
        /\ misses'[u] = misses[u] /\ next'[u] = next[u]

(* What one thread does leaves the others what they count on, or marks     *)
(* them.                                                                   *)
LEMMA OneActs ==
    ASSUME RaceInv, CacheInv', NEW t \in EncodeThreads, Apart(t),
           entries' \in Seq(CacheEntry),
           \/ cacheTouched' = Others(t)
           \/ Keys \subseteq Keys' /\ cacheTouched' \in [EncodeThreads -> BOOLEAN]
              /\ \A u \in EncodeThreads \ {t} : cacheTouched'[u] = cacheTouched[u],
           cacheTouched'[t] \/ CountsOn(doing'[t], TextAt(t)', MissAt(t)[2]', Keys')
    PROVE  RaceInv'
<1>1. cacheTouched' \in [EncodeThreads -> BOOLEAN]
  BY DEF Others, RaceInv, CacheInv
<1>2. ASSUME NEW u \in EncodeThreads \ {t}
      PROVE  cacheTouched'[u] \/ CountsOn(doing'[u], TextAt(u)', MissAt(u)[2]', Keys')
  <2>1. cacheTouched'[u] \/ (cacheTouched'[u] = cacheTouched[u] /\ Keys \subseteq Keys')
    BY DEF Others
  <2> QED BY <2>1, OtherThreads DEF Apart
<1> QED BY <1>1, <1>2 DEF RaceInv, CacheInv

(* A thread that begins counts on nothing yet.                             *)
LEMMA StartEncodeCounts ==
    ASSUME RaceInv, CacheInv', NEW t \in EncodeThreads, StartEncode(t)
    PROVE  RaceInv'
<1>1. Apart(t) /\ doing'[t] = "find"
  BY DEF StartEncode, Apart, Do, RaceInv, CacheInv, ThreadsInv, ThreadsTyped
<1>2. /\ entries' = entries /\ cacheTouched' \in [EncodeThreads -> BOOLEAN]
      /\ \A u \in EncodeThreads \ {t} : cacheTouched'[u] = cacheTouched[u]
  BY DEF StartEncode, RaceInv, CacheInv
<1>3. Keys' = Keys /\ entries' \in Seq(CacheEntry)
  BY <1>2 DEF Keys, RaceInv, CacheInv
<1>4. CountsOn(doing'[t], TextAt(t)', MissAt(t)[2]', Keys')
  BY <1>1 DEF CountsOn
<1> QED BY <1>1, <1>2, <1>3, <1>4, OneActs

(* After a text a thread counts on nothing.                                *)
LEMMA AdvanceCounts ==
    ASSUME RaceInv, NEW t \in EncodeThreads, NEW m, Advance(t, m), UNCHANGED batch
    PROVE  /\ Apart(t)
           /\ CountsOn(doing'[t], TextAt(t)', MissAt(t)[2]', Keys')
<1>1. Apart(t) /\ doing'[t] \in {"find", "returned", "encode"}
  BY DEF Advance, Apart, Do, RaceInv, CacheInv, ThreadsInv, ThreadsTyped
<1> QED BY <1>1 DEF CountsOn

(* A key found is there for the touch that follows.                        *)
LEMMA FindCounts ==
    ASSUME RaceInv, CacheInv', NEW t \in EncodeThreads, Find(t)
    PROVE  RaceInv'
<1>1. UNCHANGED <<entries, batch, cacheTouched>> /\ Keys' = Keys
  BY DEF Find, Keys
<1>2. CASE Missed(t)
  <2>1. Apart(t) /\ CountsOn(doing'[t], TextAt(t)', MissAt(t)[2]', Keys')
    BY <1>1, <1>2, AdvanceCounts DEF Missed
  <2> QED BY <1>1, <2>1, OneActs DEF RaceInv, CacheInv
<1>3. ASSUME TextAt(t) \in Keys, NEW d \in {"expire", "touch"}, Do(t, d), UNCHANGED <<misses, next>>
      PROVE  RaceInv'
  <2>1. Apart(t) /\ doing'[t] = d
    BY <1>1, <1>3 DEF Apart, Do, RaceInv, CacheInv, ThreadsInv, ThreadsTyped
  <2>2. TextAt(t)' = TextAt(t)
    BY <1>1, <1>3 DEF TextAt
  <2>3. CountsOn(doing'[t], TextAt(t)', MissAt(t)[2]', Keys')
    BY <1>1, <1>3, <2>1, <2>2 DEF CountsOn
  <2> QED BY <1>1, <2>1, <2>3, OneActs DEF RaceInv, CacheInv
<1> QED BY <1>2, <1>3 DEF Find

(* A thread that drops a stale entry marks the others.                     *)
LEMMA ExpireCounts ==
    ASSUME RaceInv, CacheInv', NEW t \in EncodeThreads, Expire(t)
    PROVE  RaceInv'
<1>1. Apart(t) /\ CountsOn(doing'[t], TextAt(t)', MissAt(t)[2]', Keys')
  BY AdvanceCounts DEF Expire, Missed
<1>2. entries' \in Seq(CacheEntry)
  <2>1. IsSelection(entries', entries, {e \in ToSet(entries) : e.key # TextAt(t)}, CacheEntry)
    BY SelectedFacts DEF Expire, Without, RaceInv, CacheInv
  <2> QED BY <2>1 DEF IsSelection
<1> QED BY <1>1, <1>2, OneActs DEF Expire

(* A touch keeps all keys.                                                 *)
LEMMA TouchCounts ==
    ASSUME RaceInv, CacheInv', NEW t \in EncodeThreads, Touch(t)
    PROVE  RaceInv'
<1>1. doing[t] = "touch" /\ MoveToEnd(t, TextAt(t)) /\ UNCHANGED <<batch, cacheTouched>>
  BY DEF Touch
<1>2. entries' \in Seq(CacheEntry) /\ Keys' = Keys
  BY <1>1, MoveToEndKeys DEF RaceInv, CacheInv
<1>3. CASE TextAt(t) \in Keys
  <2>1. Apart(t) /\ CountsOn(doing'[t], TextAt(t)', MissAt(t)[2]', Keys')
    BY <1>1, <1>3, AdvanceCounts DEF Touch
  <2> QED BY <1>1, <1>2, <2>1, OneActs DEF RaceInv, CacheInv
<1>4. CASE TextAt(t) \notin Keys
  <2>1. cacheTouched[t]
    BY <1>1, <1>4 DEF RaceInv, CacheInv, CountsOn
  <2>2. Apart(t)
    BY <1>1, <1>4 DEF Touch, Apart, Do, RaceInv, CacheInv, ThreadsInv, ThreadsTyped
  <2> QED BY <1>1, <1>2, <2>1, <2>2, OneActs DEF RaceInv, CacheInv
<1> QED BY <1>3, <1>4

(* The misses and the index of a thread at work on a miss stay; so does    *)
(* what it means by them.                                                  *)
LEMMA PuttingCounts ==
    ASSUME RaceInv, CacheInv', NEW t \in EncodeThreads, NEW d, Do(t, d),
           UNCHANGED <<batch, misses, next, cacheTouched>>,
           entries' \in Seq(CacheEntry), Keys \subseteq Keys',
           cacheTouched[t] \/ CountsOn(d, TextAt(t), MissAt(t)[2], Keys')
    PROVE  RaceInv'
<1>1. Apart(t) /\ doing'[t] = d
  BY DEF Apart, Do, RaceInv, CacheInv, ThreadsInv, ThreadsTyped
<1>2. TextAt(t)' = TextAt(t) /\ MissAt(t)[2]' = MissAt(t)[2]
  BY DEF TextAt, MissAt
<1>3. cacheTouched'[t] \/ CountsOn(doing'[t], TextAt(t)', MissAt(t)[2]', Keys')
  BY <1>1, <1>2
<1> QED BY <1>1, <1>3, OneActs DEF RaceInv, CacheInv

(* The model's call counts on nothing.                                     *)
LEMMA EncodeCounts ==
    ASSUME RaceInv, CacheInv', NEW t \in EncodeThreads, Encode(t)
    PROVE  RaceInv'
<1>1. UNCHANGED <<batch, misses, next, cacheTouched, entries>> /\ Keys' = Keys
  BY DEF Encode, Keys
<1>2. PICK d \in {"put", "raised"} : Do(t, d)
  BY DEF Encode
<1>3. CountsOn(d, TextAt(t), MissAt(t)[2], Keys')
  BY DEF CountsOn
<1> QED BY <1>1, <1>2, <1>3, PuttingCounts DEF RaceInv, CacheInv

(* A key seen by the put is there for the refresh.                         *)
LEMMA PutCounts ==
    ASSUME RaceInv, CacheInv', NEW t \in EncodeThreads, Put(t)
    PROVE  RaceInv'
<1>1. UNCHANGED <<batch, misses, next, cacheTouched, entries>> /\ Keys' = Keys
  BY DEF Put, Keys
<1> DEFINE d == IF MissAt(t)[2] \in Keys THEN "refresh" ELSE "insert"
<1>2. Do(t, d) /\ CountsOn(d, TextAt(t), MissAt(t)[2], Keys')
  BY <1>1 DEF Put, CountsOn
<1> QED BY <1>1, <1>2, PuttingCounts DEF RaceInv, CacheInv

(* A refresh keeps all keys.                                               *)
LEMMA RefreshCounts ==
    ASSUME RaceInv, CacheInv', NEW t \in EncodeThreads, Refresh(t)
    PROVE  RaceInv'
<1>1. doing[t] = "refresh" /\ MoveToEnd(t, MissAt(t)[2]) /\ UNCHANGED <<batch, misses, next, cacheTouched>>
  BY DEF Refresh
<1>2. entries' \in Seq(CacheEntry) /\ Keys' = Keys
  BY <1>1, MoveToEndKeys DEF RaceInv, CacheInv
<1> DEFINE d == IF MissAt(t)[2] \in Keys THEN "insert" ELSE "failed"
<1>3. Do(t, d)
  BY DEF Refresh
<1>4. cacheTouched[t] \/ CountsOn(d, TextAt(t), MissAt(t)[2], Keys')
  BY <1>1 DEF RaceInv, CacheInv, CountsOn
<1> QED BY <1>1, <1>2, <1>3, <1>4, PuttingCounts

(* An insertion keeps all keys.                                            *)
LEMMA InsertCounts ==
    ASSUME RaceInv, CacheInv', NEW t \in EncodeThreads, Insert(t)
    PROVE  RaceInv'
<1>1. entries' \in Seq(CacheEntry) /\ Keys \subseteq Keys'
  BY InsertKeys DEF RaceInv
<1>2. Do(t, "trim") /\ UNCHANGED <<batch, misses, next, cacheTouched>>
  BY DEF Insert
<1> QED BY <1>1, <1>2, PuttingCounts DEF CountsOn

(* A cache over its capacity has an entry to pop.                          *)
LEMMA TrimCounts ==
    ASSUME RaceInv, CacheInv', NEW t \in EncodeThreads, Trim(t)
    PROVE  RaceInv'
<1>1. UNCHANGED <<batch, misses, cacheTouched, entries>> /\ Keys' = Keys
  BY DEF Trim, Keys
<1>2. CASE Len(entries) > CacheCapacity
  <2>1. Do(t, "pop") /\ next' = [next EXCEPT ![t] = next[t]]
    BY <1>2 DEF Trim
  <2>2. next' = next
    BY <2>1 DEF RaceInv, CacheInv, ThreadsInv, ThreadsTyped
  <2>3. Keys # {}
    <3>1. 1 \in 1 .. Len(entries)
      BY <1>2, CacheAssumption DEF RaceInv, CacheInv
    <3> QED BY <3>1 DEF Keys
  <2> QED BY <1>1, <2>1, <2>2, <2>3, PuttingCounts DEF CountsOn, RaceInv, CacheInv
<1>3. CASE ~(Len(entries) > CacheCapacity)
  <2>1. Apart(t) /\ doing'[t] \in {"returned", "put"}
    BY <1>1, <1>3 DEF Trim, Apart, Do, RaceInv, CacheInv, ThreadsInv, ThreadsTyped
  <2>2. CountsOn(doing'[t], TextAt(t)', MissAt(t)[2]', Keys')
    BY <2>1 DEF CountsOn
  <2> QED BY <1>1, <2>1, <2>2, OneActs DEF RaceInv, CacheInv
<1> QED BY <1>2, <1>3

(* A thread that pops marks the others.                                    *)
LEMMA PopOldestCounts ==
    ASSUME RaceInv, CacheInv', NEW t \in EncodeThreads, PopOldest(t)
    PROVE  RaceInv'
<1>1. doing[t] = "pop" /\ cacheTouched' = Others(t) /\ Apart(t)
  BY DEF PopOldest, Apart, Do, RaceInv, CacheInv, ThreadsInv, ThreadsTyped
<1>2. entries' \in Seq(CacheEntry)
  BY DEF PopOldest, RaceInv, CacheInv
<1>3. cacheTouched'[t] = cacheTouched[t]
  BY <1>1 DEF Others, RaceInv, CacheInv
<1>4. CASE cacheTouched[t]
  BY <1>1, <1>2, <1>3, <1>4, OneActs
<1>5. CASE ~cacheTouched[t]
  <2>1. entries # <<>>
    <3>1. Keys # {}
      BY <1>1, <1>5 DEF RaceInv, CacheInv, CountsOn
    <3> QED BY <3>1 DEF Keys
  <2>2. doing'[t] = "trim"
    BY <2>1 DEF PopOldest, Do, RaceInv, CacheInv, ThreadsInv, ThreadsTyped
  <2>3. CountsOn(doing'[t], TextAt(t)', MissAt(t)[2]', Keys')
    BY <2>2 DEF CountsOn
  <2> QED BY <1>1, <1>2, <2>3, OneActs
<1> QED BY <1>4, <1>5

(* Every step keeps the invariant.                                         *)
LEMMA RaceKeeps ==
    ASSUME RaceInv, [CacheNext]_cacheVars
    PROVE  RaceInv'
<1>1. CacheInv'
  BY CacheKeeps DEF RaceInv, CacheInv
<1>2. ASSUME UNCHANGED <<doing, batch, misses, next, cacheTouched>>,
             entries' \in Seq(CacheEntry), Keys' = Keys
      PROVE  RaceInv'
  BY <1>1, <1>2 DEF RaceInv, CacheInv, TextAt, MissAt
<1>3. CASE FlushCache
  BY <1>1, <1>3 DEF RaceInv, CacheInv, FlushCache
<1>4. CASE EntriesAge
  <2>1. entries' \in Seq(CacheEntry) /\ Keys' = Keys
    BY <1>4, AgeKeys DEF RaceInv, CacheInv
  <2> QED BY <1>2, <1>4, <2>1 DEF EntriesAge
<1>5. CASE LoadModel \/ UNCHANGED cacheVars
  <2>1. UNCHANGED <<entries, doing, batch, misses, next, cacheTouched>>
    BY <1>5 DEF LoadModel, cacheVars
  <2>2. Keys' = Keys
    BY <2>1 DEF Keys
  <2> QED BY <1>2, <2>1, <2>2 DEF RaceInv, CacheInv
<1>6. CASE \E t \in EncodeThreads : StartEncode(t) \/ Find(t) \/ Expire(t) \/ Touch(t)
  BY <1>1, <1>6, StartEncodeCounts, FindCounts, ExpireCounts, TouchCounts
<1>7. CASE \E t \in EncodeThreads : Encode(t) \/ Put(t) \/ Refresh(t) \/ Insert(t) \/ Trim(t) \/ PopOldest(t)
  BY <1>1, <1>7, EncodeCounts, PutCounts, RefreshCounts, InsertCounts, TrimCounts, PopOldestCounts
<1> QED BY <1>3, <1>4, <1>5, <1>6, <1>7 DEF CacheNext

(* A thread whose entries nobody took has what its next step counts on.    *)
THEOREM RaceInductive == CacheSpec => []RaceInv
<1>1. CacheInit => RaceInv
  <2> SUFFICES ASSUME CacheInit PROVE RaceInv
    OBVIOUS
  <2>1. CacheInv
    BY CacheStarts
  <2> QED BY <2>1 DEF CacheInit, RaceInv, CacheInv, CountsOn
<1>2. RaceInv /\ [CacheNext]_cacheVars => RaceInv'
  BY RaceKeeps
<1> QED BY <1>1, <1>2, PTL DEF CacheSpec

(* encode raises KeyError only if another thread, or a flush, took entries *)
(* away during the call (embedding_service.py:122-157, 307-345), for any   *)
(* threads, texts, batches and capacity.                                   *)
THEOREM FailsOnlyInARace == CacheSpec => []EncodeFailsOnlyInARace
<1>1. RaceInv => EncodeFailsOnlyInARace
  BY DEF RaceInv, CacheInv, CountsOn, EncodeFailsOnlyInARace
<1> QED BY <1>1, RaceInductive, PTL
-----------------------------------------------------------------------------
(***************************************************************************)
(* Retrieval: the answer is drawn from the hits of the two searches,       *)
(* whatever their ranks and scores, so what holds of all hits holds of the *)
(* answer. The lemmas follow a hit through the union, the sort by score    *)
(* and the filter by scope; the invariant says of which version the hits   *)
(* are.                                                                    *)
(***************************************************************************)

(* A sequence made of items of another.                                    *)
DrawnFrom(q, s, T) ==
    /\ q \in Seq(T)
    /\ \A k \in 1 .. Len(q) : \E i \in 1 .. Len(s) : q[k] = s[i]

(* The positions Pick takes, in order.                                     *)
Chosen(n, ks) == Selected([i \in 1 .. n |-> i], ks)

(* The positions chosen are the ones asked for.                            *)
LEMMA ChosenFacts ==
    ASSUME NEW n \in Nat, NEW ks
    PROVE  /\ Chosen(n, ks) \in Seq(1 .. n)
           /\ \A k \in 1 .. Len(Chosen(n, ks)) : Chosen(n, ks)[k] \in ks
           /\ \A i \in 1 .. n : i \in ks => \E k \in 1 .. Len(Chosen(n, ks)) : Chosen(n, ks)[k] = i
<1> DEFINE numbers == [i \in 1 .. n |-> i]
           at == Selected(numbers, ks)
<1>1. numbers \in Seq(1 .. n) /\ Len(numbers) = n /\ \A i \in 1 .. n : numbers[i] = i
  OBVIOUS
<1> HIDE DEF numbers
<1>2. IsSelection(at, numbers, ks, 1 .. n)
  BY <1>1, SelectedFacts
<1> HIDE DEF at
<1>3. /\ at \in Seq(1 .. n)
      /\ \A k \in 1 .. Len(at) : at[k] \in ks
      /\ \A i \in 1 .. n : i \in ks => \E k \in 1 .. Len(at) : at[k] = i
  BY <1>1, <1>2 DEF IsSelection
<1>4. at = Chosen(n, ks)
  BY DEF at, numbers, Chosen
<1> QED BY <1>3, <1>4

(* Pick takes the items at those positions.                                *)
LEMMA PickFacts ==
    ASSUME NEW T, NEW s \in Seq(T), NEW ks
    PROVE  /\ Pick(s, ks) \in Seq(T) /\ Len(Pick(s, ks)) = Len(Chosen(Len(s), ks))
           /\ \A k \in 1 .. Len(Pick(s, ks)) :
                 /\ Chosen(Len(s), ks)[k] \in 1 .. Len(s) /\ Chosen(Len(s), ks)[k] \in ks
                 /\ Pick(s, ks)[k] = s[Chosen(Len(s), ks)[k]]
<1> DEFINE at == Chosen(Len(s), ks)
<1>1. at \in Seq(1 .. Len(s)) /\ \A k \in 1 .. Len(at) : at[k] \in ks
  BY ChosenFacts
<1>2. DOMAIN s = 1 .. Len(s)
  OBVIOUS
<1>3. Pick(s, ks) = [k \in DOMAIN at |-> s[at[k]]]
  BY <1>2 DEF Pick, Chosen
<1> HIDE DEF at
<1>4. DOMAIN at = 1 .. Len(at) /\ Len(at) \in Nat /\ \A k \in 1 .. Len(at) : at[k] \in 1 .. Len(s) /\ s[at[k]] \in T
  BY <1>1
<1>5. /\ Pick(s, ks) \in Seq(T) /\ Len(Pick(s, ks)) = Len(at)
      /\ \A k \in 1 .. Len(at) : Pick(s, ks)[k] = s[at[k]]
  BY <1>3, <1>4
<1> QED BY <1>1, <1>4, <1>5 DEF at

(* The places of a list by score.                                          *)
LEMMA EachPlace ==
    ASSUME NEW n \in Nat, NEW score \in [1 .. n -> Nat]
    PROVE  \A k \in 1 .. n : \E i \in 1 .. n : Cardinality(Better(score, i)) = k - 1
<1> DEFINE S == 1 .. n
           ahead == [i \in S |-> Better(score, i)]
<1>1. IsFiniteSet(S) /\ Cardinality(S) = n
  BY FS_Interval
<1>2. \A i \in S : ahead[i] = {j \in S : score[j] > score[i] \/ (score[j] = score[i] /\ j < i)}
  BY DEF Better
<1>3. Orders(ahead, S)
  <2>1. ahead \in [S -> SUBSET S] /\ \A i \in S : i \notin ahead[i]
    BY <1>2
  <2>2. \A j, i \in S : j \in ahead[i] => ahead[j] \subseteq ahead[i]
    BY <1>2
  <2>3. \A j, i \in S : j = i \/ j \in ahead[i] \/ i \in ahead[j]
    BY <1>2
  <2> QED BY <2>1, <2>2, <2>3 DEF Orders
<1> HIDE DEF ahead
<1>4. /\ \A k \in S : Cardinality(ahead[k]) \in 0 .. Cardinality(S) - 1
      /\ \A j, k \in S : Cardinality(ahead[j]) = Cardinality(ahead[k]) => j = k
      /\ \A m \in 1 .. Cardinality(S) : \E k \in S : Cardinality(ahead[k]) = m - 1
  <2> HIDE DEF S
  <2>1. IsFiniteSet(S) /\ Orders(ahead, S)
    BY <1>1, <1>3
  <2> QED BY <2>1, Ranking
<1>5. \A m \in 1 .. n : \E i \in 1 .. n : Cardinality(ahead[i]) = m - 1
  BY <1>1, <1>4
<1>6. \A i \in 1 .. n : ahead[i] = Better(score, i)
  BY DEF ahead
<1> QED BY <1>5, <1>6

(* A sort by score rearranges the items.                                   *)
LEMMA SortFacts ==
    ASSUME NEW T, NEW s \in Seq(T), NEW score \in [1 .. Len(s) -> Nat]
    PROVE  /\ DrawnFrom(SortByScore(s, score).item, s, T)
           /\ Len(SortByScore(s, score).item) = Len(s)
           /\ SortByScore(s, score).score \in [1 .. Len(s) -> Nat]
<1> DEFINE n == Len(s)
           order == [k \in 1 .. n |-> CHOOSE i \in 1 .. n : Cardinality(Better(score, i)) = k - 1]
<1>1. DOMAIN s = 1 .. n /\ n \in Nat
  OBVIOUS
<1>2. order \in [1 .. n -> 1 .. n]
  <2>1. \A k \in 1 .. n : \E i \in 1 .. n : Cardinality(Better(score, i)) = k - 1
    BY <1>1, EachPlace
  <2> QED BY <2>1
<1>3. SortByScore(s, score) = [item |-> [k \in 1 .. n |-> s[order[k]]], score |-> [k \in 1 .. n |-> score[order[k]]]]
  BY <1>1 DEF SortByScore
<1> DEFINE q == [k \in 1 .. n |-> s[order[k]]]
<1>4. /\ SortByScore(s, score).item = q
      /\ SortByScore(s, score).score = [k \in 1 .. n |-> score[order[k]]]
  BY <1>3
<1> HIDE DEF order
<1>5. \A k \in 1 .. n : order[k] \in 1 .. n /\ s[order[k]] \in T /\ score[order[k]] \in Nat
  BY <1>2
<1>6. q \in Seq(T) /\ Len(q) = n /\ \A k \in 1 .. n : \E i \in 1 .. n : q[k] = s[i]
  BY <1>1, <1>5
<1>7. [k \in 1 .. n |-> score[order[k]]] \in [1 .. n -> Nat]
  BY <1>5
<1> HIDE DEF q
<1> QED BY <1>4, <1>6, <1>7 DEF DrawnFrom
-----------------------------------------------------------------------------
(* The scores are numbers.                                                 *)
LEMMA ScaleNumber == Scale \in Nat
<1> DEFINE n == 2 * ChunkCount
           Values(f) == [i \in 0 .. n |-> IF i = 0 THEN 1 ELSE (RrfK + i) * f[i - 1]]
           product == CHOOSE f : f = Values(f)
           G == [i \in 1 .. n |-> [x \in Nat |-> (RrfK + i) * x]]
<1>1. n \in Nat /\ RrfK \in Nat
  BY RetrievalAssumption
<1>2. Scale = product[n]
  BY DEF Scale
<1> HIDE DEF n
<1>3. G \in [1 .. n -> [Nat -> Nat]] /\ \A i \in 1 .. n, x \in Nat : G[i][x] = (RrfK + i) * x
  BY <1>1
<1> HIDE DEF G
<1>4. \E f : f = Values(f)
  <2>1. PICK f : IsIteration(f, G, 1, n, Nat)
    BY <1>1, <1>3, Iterates
  <2>2. f \in [0 .. n -> Nat] /\ f[0] = 1 /\ \A i \in 1 .. n : f[i] = G[i][f[i - 1]]
    BY <2>1 DEF IsIteration
  <2>3. \A i \in 1 .. n : f[i] = (RrfK + i) * f[i - 1]
    <3> TAKE i \in 1 .. n
    <3>1. f[i - 1] \in Nat
      BY <1>1, <2>2
    <3> QED BY <1>3, <2>2, <3>1
  <2>4. f = Values(f)
    BY <2>2, <2>3
  <2> QED BY <2>4
<1>5. product = Values(product)
  BY <1>4
<1> HIDE DEF product
<1>6. product[0] = 1 /\ \A i \in 1 .. n : product[i] = (RrfK + i) * product[i - 1]
  BY <1>1, <1>5
<1>7. \A i \in 0 .. n : product[i] \in Nat
  <2>1. product[0] \in Nat /\ \A i \in 1 .. n : product[i - 1] \in Nat => product[i] \in Nat
    BY <1>1, <1>6
  <2> QED BY <1>1, <2>1, ValuesIn
<1> QED BY <1>1, <1>2, <1>7

(* A quotient is a number.                                                 *)
LEMMA RatioNumber ==
    ASSUME NEW a \in Nat, NEW b \in Nat \ {0}
    PROVE  a \div b \in Nat
OBVIOUS

(* A list's part of the score is a number.                                 *)
LEMMA ListScoreNumber ==
    ASSUME NEW s \in Seq(Hits), NEW id
    PROVE  ListScore(id, s) \in Nat
<1> DEFINE ranks == RanksOf(id, s)
<1>1. ranks \in SUBSET Nat /\ \A k \in ranks : k # 0
  BY DEF RanksOf
<1> HIDE DEF ranks
<1>2. CASE ranks = {}
  BY <1>2 DEF ListScore, ranks
<1>3. CASE ranks # {}
  <2>1. \E x \in ranks : \A y \in ranks : x <= y
    BY <1>1, <1>3, LeastNumber
  <2>2. Min(ranks) \in ranks
    BY <2>1 DEF Min
  <2>3. RrfK + Min(ranks) \in Nat \ {0}
    <3>1. Min(ranks) \in Nat /\ RrfK \in Nat \ {0}
      BY <1>1, <2>2, RetrievalAssumption
    <3> QED BY <3>1
  <2>4. Scale \div (RrfK + Min(ranks)) \in Nat
    BY <2>3, ScaleNumber, RatioNumber
  <2> QED BY <1>3, <2>4 DEF ListScore, ranks
<1> QED BY <1>2, <1>3
-----------------------------------------------------------------------------
(* From the hits to the answer: every operator only picks of what it gets. *)

(* The union: an item is there if no earlier one has its id.               *)
LEMMA UnionFacts ==
    ASSUME NEW vec \in Seq(Hits), NEW fts \in Seq(Hits)
    PROVE  /\ Unioned(vec, fts) \in Seq(Hits)
           /\ \A k \in 1 .. Len(Unioned(vec, fts)) :
                 \/ \E i \in 1 .. Len(vec) : Unioned(vec, fts)[k] = vec[i]
                 \/ /\ \E i \in 1 .. Len(fts) : Unioned(vec, fts)[k] = fts[i]
                    /\ \A i \in 1 .. Len(vec) : vec[i].id # Unioned(vec, fts)[k].id
<1> DEFINE s == vec \o fts
           ks == {k \in DOMAIN s : \A j \in 1 .. k - 1 : s[j].id # s[k].id}
           u == Unioned(vec, fts)
<1>1. /\ s \in Seq(Hits) /\ Len(s) = Len(vec) + Len(fts)
      /\ \A i \in 1 .. Len(vec) : s[i] = vec[i]
      /\ \A i \in 1 .. Len(fts) : s[Len(vec) + i] = fts[i]
      /\ \A k \in 1 .. Len(vec) + Len(fts) :
            k \in 1 .. Len(vec) \/ \E i \in 1 .. Len(fts) : k = Len(vec) + i
  BY Concatenation
<1>2. u = Pick(s, ks)
  BY DEF Unioned
<1>3. \A k \in ks : \A j \in 1 .. k - 1 : s[j].id # s[k].id
  OBVIOUS
<1> HIDE DEF s, ks, u
<1>4. /\ u \in Seq(Hits)
      /\ \A k \in 1 .. Len(u) : \E i \in ks : i \in 1 .. Len(s) /\ u[k] = s[i]
  <2>1. /\ u \in Seq(Hits)
        /\ \A k \in 1 .. Len(u) :
              /\ Chosen(Len(s), ks)[k] \in 1 .. Len(s) /\ Chosen(Len(s), ks)[k] \in ks
              /\ u[k] = s[Chosen(Len(s), ks)[k]]
    <3>1. s \in Seq(Hits)
      BY <1>1
    <3>2. /\ Pick(s, ks) \in Seq(Hits) /\ Len(Pick(s, ks)) = Len(Chosen(Len(s), ks))
          /\ \A k \in 1 .. Len(Pick(s, ks)) :
                /\ Chosen(Len(s), ks)[k] \in 1 .. Len(s) /\ Chosen(Len(s), ks)[k] \in ks
                /\ Pick(s, ks)[k] = s[Chosen(Len(s), ks)[k]]
      BY <3>1, PickFacts
    <3> QED BY <1>2, <3>2
  <2> QED BY <2>1
<1>5. ASSUME NEW k \in 1 .. Len(u)
      PROVE  \/ \E i \in 1 .. Len(vec) : u[k] = vec[i]
             \/ /\ \E i \in 1 .. Len(fts) : u[k] = fts[i]
                /\ \A i \in 1 .. Len(vec) : vec[i].id # u[k].id
  <2>1. PICK i \in ks : i \in 1 .. Len(s) /\ u[k] = s[i]
    BY <1>4
  <2>2. CASE i \in 1 .. Len(vec)
    BY <1>1, <2>1, <2>2
  <2>3. ASSUME NEW j \in 1 .. Len(fts), i = Len(vec) + j
        PROVE  /\ \E x \in 1 .. Len(fts) : u[k] = fts[x]
               /\ \A x \in 1 .. Len(vec) : vec[x].id # u[k].id
    <3>1. u[k] = fts[j]
      BY <1>1, <2>1, <2>3
    <3>2. ASSUME NEW x \in 1 .. Len(vec) PROVE vec[x].id # u[k].id
      <4>1. x \in 1 .. i - 1
        BY <2>3
      <4> QED BY <1>1, <1>3, <2>1, <4>1
    <3> QED BY <3>1, <3>2
  <2> QED BY <1>1, <2>1, <2>2, <2>3
<1> QED BY <1>4, <1>5 DEF u

(* What the candidates are made of, for hits of both searches.             *)
Candidacy(c) ==
    /\ c.item \in Seq(Hits) /\ c.score \in [1 .. Len(c.item) -> Nat]
    /\ \A k \in 1 .. Len(c.item) :
          \/ \E i \in 1 .. Len(vectorHits) : c.item[k] = vectorHits[i]
          \/ /\ \E i \in 1 .. Len(ftsHits) : c.item[k] = ftsHits[i]
             /\ \A i \in 1 .. Len(vectorHits) : vectorHits[i].id # c.item[k].id

(* The candidates are hits of the two searches; one of FTS only where      *)
(* Qdrant has none of its id.                                              *)
LEMMA CandidateFacts ==
    ASSUME vectorHits \in Seq(Hits), ftsHits \in Seq(Hits)
    PROVE  Candidacy(Candidates)
<1> DEFINE union == Unioned(vectorHits, ftsHits)
           exact == Selected(union, {hit \in Hits : IsExact(hit)})
           From(hit) == \/ \E i \in 1 .. Len(vectorHits) : hit = vectorHits[i]
                        \/ /\ \E i \in 1 .. Len(ftsHits) : hit = ftsHits[i]
                           /\ \A i \in 1 .. Len(vectorHits) : vectorHits[i].id # hit.id
<1>u. union \in Seq(Hits) /\ \A k \in 1 .. Len(union) : From(union[k])
  BY UnionFacts
<1>c. ASSUME NEW items, NEW scores, items \in Seq(Hits), scores \in [1 .. Len(items) -> Nat],
             \A k \in 1 .. Len(items) : From(items[k])
      PROVE  Candidacy([item |-> items, score |-> scores])
  BY <1>c DEF Candidacy
<1>1. CASE ~request.fts
  <2> DEFINE scores == [k \in DOMAIN vectorHits |-> Scale \div k]
  <2>1. Candidates = [item |-> vectorHits, score |-> scores]
    BY <1>1 DEF Candidates
  <2>2. scores \in [1 .. Len(vectorHits) -> Nat]
    <3>1. \A k \in 1 .. Len(vectorHits) : Scale \div k \in Nat
      BY ScaleNumber, RatioNumber
    <3> QED BY <3>1
  <2>3. \A k \in 1 .. Len(vectorHits) : From(vectorHits[k])
    OBVIOUS
  <2> HIDE DEF scores, From
  <2> QED BY <1>c, <2>1, <2>2, <2>3
<1>2. CASE request.fts /\ exact # <<>>
  <2> DEFINE scores == [k \in DOMAIN exact |-> Scale]
  <2>1. Candidates = [item |-> exact, score |-> scores]
    BY <1>2 DEF Candidates
  <2>2. IsSelection(exact, union, {hit \in Hits : IsExact(hit)}, Hits)
    <3> HIDE DEF union
    <3> QED BY <1>u, SelectedFacts
  <2> HIDE DEF exact, union, From
  <2>3. exact \in Seq(Hits) /\ \A k \in 1 .. Len(exact) : From(exact[k])
    BY <1>u, <2>2 DEF IsSelection
  <2>4. scores \in [1 .. Len(exact) -> Nat]
    BY <2>3, ScaleNumber
  <2> HIDE DEF scores
  <2> QED BY <1>c, <2>1, <2>3, <2>4
<1>3. CASE request.fts /\ exact = <<>>
  <2> DEFINE scores == [k \in DOMAIN union |->
                           ListScore(union[k].id, vectorHits) + ListScore(union[k].id, ftsHits)]
             sorted == SortByScore(union, scores)
  <2>1. Candidates = sorted
    BY <1>3 DEF Candidates, Fused
  <2>s. sorted = [item |-> sorted.item, score |-> sorted.score]
    BY DEF SortByScore
  <2>2. scores \in [1 .. Len(union) -> Nat]
    <3> HIDE DEF union
    <3>1. \A k \in 1 .. Len(union) :
             ListScore(union[k].id, vectorHits) \in Nat /\ ListScore(union[k].id, ftsHits) \in Nat
      BY ListScoreNumber
    <3> QED BY <1>u, <3>1
  <2> HIDE DEF scores, union
  <2>3. /\ DrawnFrom(sorted.item, union, Hits) /\ Len(sorted.item) = Len(union)
        /\ sorted.score \in [1 .. Len(union) -> Nat]
    BY <1>u, <2>2, SortFacts
  <2> HIDE DEF sorted, From
  <2>4. sorted.item \in Seq(Hits) /\ \A k \in 1 .. Len(sorted.item) : From(sorted.item[k])
    BY <1>u, <2>3 DEF DrawnFrom
  <2> QED BY <1>c, <2>1, <2>s, <2>3, <2>4
<1> QED BY <1>1, <1>2, <1>3

(* The answer is made of candidates the scope lets through.                *)
LEMMA RankedFacts ==
    ASSUME NEW c, Candidacy(c)
    PROVE  /\ Ranked(c) \in Seq(Hits)
           /\ \A k \in 1 .. Len(Ranked(c)) : \E i \in 1 .. Len(c.item) :
                 Ranked(c)[k] = c.item[i] /\ InScope(c.item[i])
<1> DEFINE n == Len(c.item)
           kept == {k \in DOMAIN c.item : InScope(c.item[k])}
           items == Pick(c.item, kept)
           kscores == Pick(c.score, kept)
           scores == [k \in DOMAIN items |-> kscores[k] * (100 + ScopeWeight(items[k]))]
<1>1. c.item \in Seq(Hits) /\ n \in Nat /\ c.score \in Seq(Nat) /\ Len(c.score) = n
  <2>1. c.item \in Seq(Hits) /\ n \in Nat /\ c.score \in [1 .. n -> Nat]
    BY DEF Candidacy
  <2> QED BY <2>1
<1>2. Ranked(c) = SortByScore(items, scores).item
  BY DEF Ranked
<1>3. \A k \in kept : InScope(c.item[k])
  OBVIOUS
<1> HIDE DEF kept
<1>4. /\ items \in Seq(Hits) /\ Len(items) = Len(Chosen(n, kept))
      /\ \A k \in 1 .. Len(items) : \E i \in 1 .. n : items[k] = c.item[i] /\ InScope(c.item[i])
  <2>1. /\ items \in Seq(Hits) /\ Len(items) = Len(Chosen(n, kept))
        /\ \A k \in 1 .. Len(items) :
              /\ Chosen(n, kept)[k] \in 1 .. n /\ Chosen(n, kept)[k] \in kept
              /\ items[k] = c.item[Chosen(n, kept)[k]]
    BY <1>1, PickFacts
  <2> HIDE DEF items
  <2> QED BY <1>3, <2>1
<1>5. kscores \in Seq(Nat) /\ Len(kscores) = Len(items)
  <2>1. kscores \in Seq(Nat) /\ Len(kscores) = Len(Chosen(Len(c.score), kept))
    BY <1>1, PickFacts
  <2> HIDE DEF kscores, items
  <2> QED BY <1>1, <1>4, <2>1
<1> HIDE DEF items, kscores
<1>6. scores \in [1 .. Len(items) -> Nat]
  <2>1. \A k \in 1 .. Len(items) : kscores[k] \in Nat /\ ScopeWeight(items[k]) \in Nat
    <3> TAKE k \in 1 .. Len(items)
    <3>1. items[k] \in Hits /\ kscores[k] \in Nat
      BY <1>4, <1>5
    <3>2. AsPoint(items[k]) \in Points
      BY <3>1 DEF AsPoint, Points, Hits
    <3>3. WeightOf[AsPoint(items[k])] \in 0 .. 100
      BY <3>2, RetrievalAssumption
    <3>4. ScopeWeight(items[k]) \in Nat
      <4>1. CASE items[k].blank
        BY <4>1 DEF ScopeWeight
      <4>2. CASE ~items[k].blank
        <5>1. ScopeWeight(items[k]) = WeightOf[AsPoint(items[k])]
          BY <4>2 DEF ScopeWeight
        <5> DEFINE w == WeightOf[AsPoint(items[k])]
        <5>2. w \in 0 .. 100
          BY <3>3
        <5> HIDE DEF w
        <5>3. w \in Nat
          BY <5>2
        <5> QED BY <5>1, <5>3 DEF w
      <4> QED BY <4>1, <4>2
    <3> QED BY <3>1, <3>4
  <2>2. \A k \in 1 .. Len(items) : kscores[k] * (100 + ScopeWeight(items[k])) \in Nat
    BY <2>1
  <2>3. DOMAIN items = 1 .. Len(items)
    BY <1>4
  <2> QED BY <2>2, <2>3
<1> HIDE DEF scores
<1>7. DrawnFrom(Ranked(c), items, Hits)
  BY <1>2, <1>4, <1>6, SortFacts
<1> QED BY <1>4, <1>7 DEF DrawnFrom
-----------------------------------------------------------------------------
OfVersion(s, v) == \A k \in 1 .. Len(s) : s[k].version = v

(* What the re-ingest has written so far.                                  *)
Written ==
    /\ writer = "before" => qdrant = AtVersion(1)
    /\ writer \in {"cleaned", "wiped", "after"} /\ ~bothKept => qdrant = AtVersion(2)
    /\ writer = "before" => OfVersion(rows, 1)
    /\ writer = "after" => OfVersion(rows, 2)

(* The version a reader finds when no write is under way.                  *)
Settled == IF writer = "before" THEN 1 ELSE 2

(* The hits of both searches say where they come from; those of a search   *)
(* that no write overlapped are of the settled version.                    *)
Marked ==
    /\ \A k \in 1 .. Len(vectorHits) : ~vectorHits[k].blank
    /\ phase = "idle" => vectorHits = <<>> /\ ftsHits = <<>>
    /\ phase # "idle" /\ ~overlapped => writer \in {"before", "after"}
    /\ phase # "idle" /\ ~overlapped /\ ~bothKept =>
          OfVersion(vectorHits, Settled) /\ OfVersion(ftsHits, Settled)

(* The answer is drawn from the hits, and its blanks are as they should be.*)
Drawn ==
    phase = "answered" => \A k \in 1 .. Len(answer) :
        /\ \/ \E i \in 1 .. Len(vectorHits) : answer[k] = vectorHits[i]
           \/ /\ \E i \in 1 .. Len(ftsHits) : answer[k] = ftsHits[i]
              /\ \A i \in 1 .. Len(vectorHits) : vectorHits[i].id # answer[k].id
        /\ answer[k].blank => request.scope = NoScope

RetrievalInv == RetrievalTypeOK /\ Written /\ Marked /\ Drawn

(* The rows a re-ingest inserts, once or twice, are of its version.        *)
LEMMA RowsFacts ==
    ASSUME NEW v \in DocVersions
    PROVE  /\ RowsOf(v) \in Seq(Points) /\ OfVersion(RowsOf(v), v)
           /\ RowsOf(v) \o RowsOf(v) \in Seq(Points) /\ OfVersion(RowsOf(v) \o RowsOf(v), v)
<1> DEFINE r == RowsOf(v)
<1>1. r \in Seq(Points) /\ \A k \in 1 .. Len(r) : r[k].version = v
  BY RetrievalAssumption DEF RowsOf, ChunkIds, Points
<1> HIDE DEF r
<1>2. r \o r \in Seq(Points) /\ \A k \in 1 .. Len(r \o r) : (r \o r)[k].version = v
  BY <1>1
<1> QED BY <1>1, <1>2 DEF OfVersion, r

(* The invariant holds before any search.                                  *)
LEMMA RetrievalStarts == RetrievalInit => RetrievalInv
<1> SUFFICES ASSUME RetrievalInit PROVE RetrievalInv
  OBVIOUS
<1>1. rows \in Seq(Points) /\ OfVersion(rows, 1)
  BY RowsFacts DEF RetrievalInit, DocVersions
<1>2. RetrievalTypeOK
  <2>1. qdrant \subseteq Points /\ rows \in Seq(Points)
    BY <1>1 DEF RetrievalInit, AtVersion
  <2>2. /\ writer \in WriterStages /\ bothKept \in BOOLEAN /\ overlapped \in BOOLEAN
        /\ ftsIds \subseteq ChunkIds /\ got \subseteq Reads
        /\ phase \in {"idle", "running", "answered"}
    BY DEF RetrievalInit, WriterStages
  <2>3. vectorHits \in Seq(Hits) /\ ftsHits \in Seq(Hits) /\ answer \in Seq(Hits)
    BY DEF RetrievalInit
  <2>4. request \in [scope : Scopes \cup {NoScope}, fts : BOOLEAN]
    BY DEF RetrievalInit
  <2> QED BY <2>1, <2>2, <2>3, <2>4 DEF RetrievalTypeOK
<1>3. Written
  BY <1>1 DEF RetrievalInit, Written
<1>4. Marked /\ Drawn
  BY DEF RetrievalInit, Marked, Drawn
<1> QED BY <1>2, <1>3, <1>4 DEF RetrievalInv

(* A write leaves the search under way alone, and marks it overlapped.     *)
LEMMA WriteKeeps ==
    ASSUME RetrievalInv, Write
    PROVE  RetrievalInv'
<1> USE DEF RetrievalInv
<1>1. /\ UNCHANGED <<request, vectorHits, ftsIds, ftsHits, got, phase, answer>>
      /\ phase # "answered" /\ overlapped' = (overlapped \/ phase = "running")
      /\ writer' \in WriterStages
  BY DEF Write, UpsertNew, CleanOld, WipeRows, InsertRows, Stage, WriterStages
<1>2. /\ qdrant' \subseteq Points /\ bothKept' \in BOOLEAN
      /\ rows' \in Seq(Points)
  <2>1. CASE UpsertNew
    BY <2>1 DEF UpsertNew, AtVersion, RetrievalTypeOK
  <2>2. CASE CleanOld
    BY <2>2 DEF CleanOld, AtVersion, RetrievalTypeOK
  <2>3. CASE WipeRows
    BY <2>3 DEF WipeRows, RetrievalTypeOK
  <2>4. CASE InsertRows
    BY <2>4, RowsFacts DEF InsertRows, RetrievalTypeOK, DocVersions
  <2> QED BY <2>1, <2>2, <2>3, <2>4 DEF Write
<1>3. RetrievalTypeOK'
  <2>1. overlapped' \in BOOLEAN
    BY <1>1 DEF RetrievalTypeOK
  <2> QED BY <1>1, <1>2, <2>1 DEF RetrievalTypeOK
<1>4. Written'
  <2>1. CASE UpsertNew
    BY <2>1 DEF UpsertNew, Stage, Written
  <2>2. CASE CleanOld
    BY <2>2 DEF CleanOld, Stage, Written
  <2>3. CASE WipeRows
    BY <2>3 DEF WipeRows, Stage, Written
  <2>4. CASE InsertRows
    <3>1. OfVersion(rows', 2)
      BY <2>4, RowsFacts DEF InsertRows, DocVersions
    <3>2. OfVersion(rows, 2)'
      BY <3>1 DEF OfVersion
    <3> QED BY <2>4, <3>2 DEF InsertRows, Stage, Written
  <2> QED BY <2>1, <2>2, <2>3, <2>4 DEF Write
<1>5. Marked'
  BY <1>1 DEF Marked, RetrievalTypeOK
<1>6. Drawn'
  BY <1>1 DEF Drawn
<1> QED BY <1>3, <1>4, <1>5, <1>6

(* Qdrant's hits are of the points it holds.                               *)
LEMMA VectorKeeps ==
    ASSUME RetrievalInv, VectorSearch
    PROVE  RetrievalInv'
<1> USE DEF RetrievalInv
<1>n. PICK n \in 0 .. TopK : \E stored \in [1 .. n -> qdrant] :
         vectorHits' = [k \in DOMAIN stored |->
             [id |-> stored[k].id, version |-> stored[k].version, blank |-> FALSE]]
  BY DEF VectorSearch
<1>1. PICK stored \in [1 .. n -> qdrant] :
         vectorHits' = [k \in DOMAIN stored |->
             [id |-> stored[k].id, version |-> stored[k].version, blank |-> FALSE]]
  BY <1>n
<1>2. /\ phase = "running"
      /\ UNCHANGED <<qdrant, rows, writer, bothKept, request, phase, overlapped, answer,
                     ftsIds, ftsHits>>
      /\ got' = got \cup {"vector"}
  BY DEF VectorSearch, Read
<1>3. n \in Nat /\ \A k \in 1 .. n : stored[k] \in qdrant /\ stored[k] \in Points
  BY <1>1, RetrievalAssumption DEF RetrievalTypeOK
<1>4. /\ vectorHits' \in Seq(Hits) /\ Len(vectorHits') = n
      /\ \A k \in 1 .. n : vectorHits'[k].version = stored[k].version /\ ~vectorHits'[k].blank
  BY <1>1, <1>3 DEF Points, Hits
<1>5. RetrievalTypeOK'
  BY <1>2, <1>4 DEF RetrievalTypeOK, Reads
<1>6. Written'
  BY <1>2 DEF Written
<1>7. Marked'
  <2>1. ASSUME ~overlapped, ~bothKept PROVE \A k \in 1 .. n : vectorHits'[k].version = Settled
    <3>1. qdrant = AtVersion(Settled)
      BY <1>2, <2>1 DEF Marked, Written, Settled
    <3> QED BY <1>3, <1>4, <3>1 DEF AtVersion
  <2>2. Settled' = Settled
    BY <1>2 DEF Settled
  <2>3. ~overlapped' /\ ~bothKept' => OfVersion(vectorHits, Settled)' /\ OfVersion(ftsHits, Settled)'
    BY <1>2, <1>4, <2>1, <2>2 DEF Marked, OfVersion
  <2> QED BY <1>2, <1>4, <2>3 DEF Marked
<1>8. Drawn'
  BY <1>2 DEF Drawn
<1> QED BY <1>5, <1>6, <1>7, <1>8

(* The rows that FTS returns are those of its table, blank.                *)
LEMMA FtsKeeps ==
    ASSUME RetrievalInv, FtsPayload
    PROVE  RetrievalInv'
<1> USE DEF RetrievalInv
<1> DEFINE known == Selected(rows, {p \in Points : p.id \in ftsIds})
<1>1. ftsHits' = [k \in DOMAIN known |->
          [id |-> known[k].id, version |-> known[k].version, blank |-> TRUE]]
  BY DEF FtsPayload
<1>2. /\ phase = "running"
      /\ UNCHANGED <<qdrant, rows, writer, bothKept, request, phase, overlapped, answer,
                     vectorHits, ftsIds>>
      /\ got' = got \cup {"rows"}
  BY DEF FtsPayload, Read
<1>3. IsSelection(known, rows, {p \in Points : p.id \in ftsIds}, Points)
  <2>1. rows \in Seq(Points)
    BY DEF RetrievalTypeOK
  <2> QED BY <2>1, SelectedFacts
<1> HIDE DEF known
<1>4. known \in Seq(Points) /\ \A k \in 1 .. Len(known) : \E i \in 1 .. Len(rows) : known[k] = rows[i]
  BY <1>3 DEF IsSelection
<1>5. /\ ftsHits' \in Seq(Hits) /\ Len(ftsHits') = Len(known)
      /\ \A k \in 1 .. Len(known) : ftsHits'[k].version = known[k].version
  <2> DEFINE Hit(k) == [id |-> known[k].id, version |-> known[k].version, blank |-> TRUE]
  <2>1. /\ \A k \in 1 .. Len(known) : known[k] \in Points
        /\ DOMAIN known = 1 .. Len(known) /\ Len(known) \in Nat
    BY <1>4
  <2>2. \A k \in 1 .. Len(known) : Hit(k) \in Hits /\ Hit(k).version = known[k].version
    BY <2>1 DEF Points, Hits
  <2>3. ftsHits' = [k \in 1 .. Len(known) |-> Hit(k)]
    BY <1>1, <2>1
  <2> HIDE DEF Hit
  <2> QED BY <2>1, <2>2, <2>3
<1>6. RetrievalTypeOK'
  BY <1>2, <1>5 DEF RetrievalTypeOK, Reads
<1>7. Written'
  BY <1>2 DEF Written
<1>8. Marked'
  <2>1. ASSUME ~overlapped PROVE \A k \in 1 .. Len(known) : known[k].version = Settled
    <3>1. OfVersion(rows, Settled)
      BY <1>2, <2>1 DEF Marked, Written, Settled
    <3> QED BY <1>4, <3>1 DEF OfVersion
  <2>2. Settled' = Settled
    BY <1>2 DEF Settled
  <2>3. ~overlapped' /\ ~bothKept' => OfVersion(vectorHits, Settled)' /\ OfVersion(ftsHits, Settled)'
    BY <1>2, <1>5, <2>1, <2>2 DEF Marked, OfVersion
  <2> QED BY <1>2, <2>3 DEF Marked
<1>9. Drawn'
  BY <1>2 DEF Drawn
<1> QED BY <1>6, <1>7, <1>8, <1>9

(* The answer is drawn from the hits.                                      *)
LEMMA AnswerKeeps ==
    ASSUME RetrievalInv, Answer
    PROVE  RetrievalInv'
<1> USE DEF RetrievalInv
<1> DEFINE c == Candidates
<1>1. /\ phase = "running" /\ phase' = "answered" /\ answer' = Ranked(c)
      /\ UNCHANGED <<qdrant, rows, writer, bothKept, request, vectorHits, ftsIds,
                     ftsHits, got, overlapped>>
  BY DEF Answer
<1>2. Candidacy(c)
  BY CandidateFacts DEF RetrievalTypeOK
<1> HIDE DEF c
<1>3. /\ answer' \in Seq(Hits)
      /\ \A k \in 1 .. Len(answer') : \E i \in 1 .. Len(c.item) :
            answer'[k] = c.item[i] /\ InScope(c.item[i])
  <2>1. /\ Ranked(c) \in Seq(Hits)
        /\ \A k \in 1 .. Len(Ranked(c)) : \E i \in 1 .. Len(c.item) :
              Ranked(c)[k] = c.item[i] /\ InScope(c.item[i])
    BY <1>2, RankedFacts
  <2> QED BY <1>1, <2>1
<1>4. RetrievalTypeOK'
  BY <1>1, <1>3 DEF RetrievalTypeOK
<1>5. Written' /\ Marked'
  <2>1. Written'
    BY <1>1 DEF Written
  <2>2. Settled' = Settled
    BY <1>1 DEF Settled
  <2>3. OfVersion(vectorHits, Settled)' = OfVersion(vectorHits, Settled)
        /\ OfVersion(ftsHits, Settled)' = OfVersion(ftsHits, Settled)
    BY <1>1, <2>2 DEF OfVersion
  <2> QED BY <1>1, <2>1, <2>3 DEF Marked
<1>6. ASSUME NEW k \in 1 .. Len(answer')
      PROVE  /\ \/ \E i \in 1 .. Len(vectorHits) : answer'[k] = vectorHits[i]
                \/ /\ \E i \in 1 .. Len(ftsHits) : answer'[k] = ftsHits[i]
                   /\ \A i \in 1 .. Len(vectorHits) : vectorHits[i].id # answer'[k].id
             /\ answer'[k].blank => request.scope = NoScope
  <2>1. PICK i \in 1 .. Len(c.item) : answer'[k] = c.item[i] /\ InScope(c.item[i])
    BY <1>3
  <2>2. answer'[k].blank => request.scope = NoScope
    BY <2>1 DEF InScope
  <2> QED BY <1>2, <2>1, <2>2 DEF Candidacy
<1>7. Drawn'
  BY <1>1, <1>6 DEF Drawn
<1> QED BY <1>4, <1>5, <1>7

(* Every step of the search and of the re-ingest keeps the invariant.      *)
LEMMA RetrievalKeeps == RetrievalInv /\ [RetrievalNext]_retrievalVars => RetrievalInv'
<1> SUFFICES ASSUME RetrievalInv, [RetrievalNext]_retrievalVars PROVE RetrievalInv'
  OBVIOUS
<1> USE DEF RetrievalInv
<1>1. CASE Write
  BY <1>1, WriteKeeps
<1>2. ASSUME NEW scope \in Scopes \cup {NoScope}, NEW fts \in BOOLEAN, Search(scope, fts)
      PROVE  RetrievalInv'
  <2>1. RetrievalTypeOK'
    BY <1>2 DEF Search, RetrievalTypeOK
  <2>2. Written'
    BY <1>2 DEF Search, Written
  <2>3. vectorHits = <<>> /\ ftsHits = <<>> /\ vectorHits' = <<>> /\ ftsHits' = <<>>
    BY <1>2 DEF Search, Marked
  <2>4. OfVersion(vectorHits, Settled)' /\ OfVersion(ftsHits, Settled)'
    BY <2>3 DEF OfVersion
  <2>5. Marked'
    BY <1>2, <2>3, <2>4 DEF Search, Marked
  <2>6. Drawn'
    BY <1>2 DEF Search, Drawn
  <2> QED BY <2>1, <2>2, <2>5, <2>6
<1>3. CASE VectorSearch
  BY <1>3, VectorKeeps
<1>4. CASE FtsMatch
  <2>1. /\ phase = "running" /\ got' = got \cup {"ids"}
        /\ UNCHANGED <<qdrant, rows, writer, bothKept, request, phase, overlapped, answer,
                       vectorHits, ftsHits>>
        /\ ftsIds' \subseteq {rows[k].id : k \in DOMAIN rows}
    BY <1>4 DEF FtsMatch, Read
  <2>2. \A k \in DOMAIN rows : rows[k] \in Points
    BY DEF RetrievalTypeOK
  <2>3. ftsIds' \subseteq ChunkIds
    BY <2>1, <2>2 DEF Points
  <2>4. RetrievalTypeOK'
    BY <2>1, <2>3 DEF RetrievalTypeOK, Reads
  <2>5. Written' /\ Marked' /\ Drawn'
    BY <2>1 DEF Written, Marked, Drawn, OfVersion, Settled
  <2> QED BY <2>4, <2>5
<1>5. CASE FtsPayload
  BY <1>5, FtsKeeps
<1>6. CASE Answer
  BY <1>6, AnswerKeeps
<1>7. CASE UNCHANGED retrievalVars
  <2>1. RetrievalTypeOK'
    BY <1>7 DEF retrievalVars, RetrievalTypeOK
  <2>2. Written' /\ Marked'
    BY <1>7 DEF retrievalVars, Written, Marked, OfVersion, Settled
  <2>3. Drawn'
    BY <1>7 DEF retrievalVars, Drawn
  <2> QED BY <2>1, <2>2, <2>3
<1> QED BY <1>1, <1>2, <1>3, <1>4, <1>5, <1>6, <1>7 DEF RetrievalNext

(* The hits say where they come from, and a search that no write           *)
(* overlapped has those of one version.                                    *)
THEOREM RetrievalInductive == RetrievalSpec => []RetrievalInv
<1> QED BY RetrievalStarts, RetrievalKeeps, PTL DEF RetrievalSpec

(* A blank chunk, one known from FTS alone, never takes the place of one   *)
(* that Qdrant returned, nor gets into an answer for a scope, for every    *)
(* order of the three reads and of the re-ingest's writes between them.    *)
THEOREM BlankIsUnknown == RetrievalSpec => []BlankOnlyWhenUnknown
<1>1. RetrievalInv => BlankOnlyWhenUnknown
  <2> SUFFICES ASSUME RetrievalInv, phase = "answered",
                      NEW i \in DOMAIN answer, answer[i].blank
               PROVE  RanksOf(answer[i].id, vectorHits) = {} /\ request.scope = NoScope
    BY DEF BlankOnlyWhenUnknown
  <2>1. /\ i \in 1 .. Len(answer)
        /\ DOMAIN vectorHits = 1 .. Len(vectorHits)
    BY DEF RetrievalInv, RetrievalTypeOK
  <2>2. request.scope = NoScope /\ \A k \in 1 .. Len(vectorHits) : vectorHits[k].id # answer[i].id
    BY <2>1 DEF RetrievalInv, Drawn, Marked
  <2> QED BY <2>1, <2>2 DEF RanksOf
<1> QED BY <1>1, RetrievalInductive, PTL

(* A search that no write of a re-ingest overlaps answers with chunks of   *)
(* one version, unless the cleanup of the old one had failed: the hits of  *)
(* both searches are of the settled version and the ranking adds none.     *)
THEOREM QuietAnswerIsOfOneVersion == RetrievalSpec => []QuietAnswerHasOneVersion
<1>1. RetrievalInv => QuietAnswerHasOneVersion
  <2> SUFFICES ASSUME RetrievalInv, phase = "answered", ~overlapped, ~bothKept
               PROVE  \A i, j \in DOMAIN answer : answer[i].version = answer[j].version
    BY DEF QuietAnswerHasOneVersion
  <2>1. DOMAIN answer = 1 .. Len(answer)
    BY DEF RetrievalInv, RetrievalTypeOK
  <2>2. OfVersion(vectorHits, Settled) /\ OfVersion(ftsHits, Settled)
    BY DEF RetrievalInv, Marked
  <2>3. \A k \in 1 .. Len(answer) : answer[k].version = Settled
    BY <2>2 DEF RetrievalInv, Drawn, OfVersion
  <2> QED BY <2>1, <2>3
<1> QED BY <1>1, RetrievalInductive, PTL
=============================================================================
