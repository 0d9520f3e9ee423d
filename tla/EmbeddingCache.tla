--------------------------- MODULE EmbeddingCache ---------------------------
(***************************************************************************)
(* EmbeddingService, retrieval/embedding_service.py: loading the model, and*)
(* encode() with the LRU + TTL cache before it.  vector_search calls       *)
(* encode by asyncio.to_thread, so several threads are in it at once, and  *)
(* the admin route flushes the cache from the event loop.  The cache takes *)
(* no lock: each step here is one operation on its dictionary.             *)
(*                                                                         *)
(* The vector the model gives a text is the text itself, and a text of the *)
(* batch is both the raw text and its key: the model version in the key    *)
(* never changes after _load.  An entry keeps the vector it was given, and *)
(* a hit answers with the vector of the entry it found.                    *)
(***************************************************************************)
EXTENDS Naturals, Sequences, FiniteSets, SequencesExt, Selection

CONSTANTS Texts, EncodeThreads, TextBatches,
          CacheCapacity,    \* EKRS_TEST_CACHE_CAPACITY, 10000
          NoVector

ASSUME CacheAssumption ==
    /\ TextBatches \subseteq Seq(Texts)
    /\ CacheCapacity \in Nat \ {0}
    /\ NoVector \notin Texts

VARIABLES
    service,    \* the model: "starting", "raised", "dummy", "loaded"
    entries,    \* the OrderedDict, least recently used first
    doing,      \* what each thread does next
    batch, filled, misses, next,    \* texts, results, misses of encode, and
                                    \* the index of its loop
    found,      \* the vector of the entry a lookup has found
    cacheTouched  \* history: another actor removed entries during its call

cacheVars == <<service, entries, doing, batch, filled, misses, next, found, cacheTouched>>

CacheTypeOK ==
    /\ service \in {"starting", "raised", "dummy", "loaded"}
    /\ entries \in Seq([key : Texts, vector : Texts, stale : BOOLEAN])
    /\ doing \in [EncodeThreads -> {"rest", "find", "expire", "touch", "encode", "put",
                     "refresh", "insert", "trim", "pop", "returned", "failed", "raised"}]
    /\ batch \in [EncodeThreads -> Seq(Texts)]
    /\ filled \in [EncodeThreads -> Seq(Texts \cup {NoVector})]
    /\ misses \in [EncodeThreads -> Seq(Nat \X Texts)]
    /\ next \in [EncodeThreads -> Nat]
    /\ found \in [EncodeThreads -> Texts \cup {NoVector}]
    /\ cacheTouched \in [EncodeThreads -> BOOLEAN]

CacheInit ==
    /\ service = "starting"
    /\ entries = <<>>
    /\ doing = [t \in EncodeThreads |-> "rest"]
    /\ batch = [t \in EncodeThreads |-> <<>>]
    /\ filled = [t \in EncodeThreads |-> <<>>]
    /\ misses = [t \in EncodeThreads |-> <<>>]
    /\ next = [t \in EncodeThreads |-> 1]
    /\ found = [t \in EncodeThreads |-> NoVector]
    /\ cacheTouched = [t \in EncodeThreads |-> FALSE]
-----------------------------------------------------------------------------
(* Loading                                                                 *)

(* bge-m3.sha256: what it says of each file, if it exists.  A listed file  *)
(* that is not shipped is skipped, except the model itself.                *)
Sums == [onnx : {"unlisted", "match", "mismatch"},
         sparse : {"unlisted", "match", "mismatch", "absent"}]

VerifySha256(sums) == sums.onnx = "match" /\ sums.sparse # "mismatch"

(* _load: no model is a dummy embedder, a model that fails to load too; a  *)
(* checksum that fails ends the service.                                   *)
LoadModel ==
    /\ service = "starting"
    /\ \/ service' = "dummy"
       \/ \E sums \in Sums :
            service' = IF VerifySha256(sums) THEN "loaded" ELSE "raised"
       \/ service' = "loaded"   \* there is no bge-m3.sha256
    /\ UNCHANGED <<entries, doing, batch, filled, misses, next, found, cacheTouched>>
-----------------------------------------------------------------------------
(* The cache                                                               *)

Keys == {entries[i].key : i \in 1 .. Len(entries)}

Without(key) == Selected(entries, {e \in ToSet(entries) : e.key # key})

EntryOf(key) == CHOOSE e \in ToSet(entries) : e.key = key

Others(t) == [x \in EncodeThreads |-> cacheTouched[x] \/ x # t]

Do(t, what) == doing' = [doing EXCEPT ![t] = what]

TextAt(t) == batch[t][next[t]]

(* A thread goes on with its next text, or with the first of its misses.   *)
Advance(t, missed) ==
    LET last == next[t] = Len(batch[t])
    IN  /\ misses' = [misses EXCEPT ![t] = missed]
        /\ next' = [next EXCEPT ![t] = IF last THEN 1 ELSE @ + 1]
        /\ Do(t, IF ~last THEN "find" ELSE IF missed = <<>> THEN "returned" ELSE "encode")

Missed(t) == Advance(t, Append(misses[t], <<next[t], TextAt(t)>>))

(* In dummy mode, or for no texts, encode answers without the cache.       *)
StartEncode(t) ==
    /\ doing[t] \in {"rest", "returned", "failed", "raised"} /\ service = "loaded"
    /\ \E texts \in TextBatches \ {<<>>} :
        /\ batch' = [batch EXCEPT ![t] = texts]
        /\ filled' = [filled EXCEPT ![t] = [i \in 1 .. Len(texts) |-> NoVector]]
    /\ misses' = [misses EXCEPT ![t] = <<>>]
    /\ next' = [next EXCEPT ![t] = 1]
    /\ cacheTouched' = [cacheTouched EXCEPT ![t] = FALSE]
    /\ Do(t, "find")
    /\ UNCHANGED <<service, entries, found>>

(* get: the lookup, then by what it found the TTL pop or the touch.  The   *)
(* entry found is kept, whatever becomes of the one in the cache.          *)
Find(t) ==
    /\ doing[t] = "find"
    /\ IF TextAt(t) \notin Keys THEN Missed(t) /\ UNCHANGED found
       ELSE LET entry == EntryOf(TextAt(t))
            IN  /\ Do(t, IF entry.stale THEN "expire" ELSE "touch")
                /\ found' = [found EXCEPT ![t] = IF entry.stale THEN NoVector ELSE entry.vector]
                /\ UNCHANGED <<misses, next>>
    /\ UNCHANGED <<service, entries, batch, filled, cacheTouched>>

(* Faulty: the expired entry is popped, and touched all the same.          *)
Expire_FallsThrough(t) ==
    /\ doing[t] = "expire"
    /\ entries' = Without(TextAt(t))
    /\ cacheTouched' = Others(t)
    /\ Do(t, "touch")
    /\ UNCHANGED <<service, batch, filled, misses, next, found>>

(* pop(key, None): it takes whatever entry is there by now.                *)
Expire(t) ==
    /\ doing[t] = "expire"
    /\ entries' = Without(TextAt(t))
    /\ cacheTouched' = Others(t)
    /\ Missed(t)
    /\ UNCHANGED <<service, batch, filled, found>>

(* move_to_end raises KeyError when the key has gone since the lookup; it  *)
(* moves whatever entry has the key by now.                                *)
MoveToEnd(t, key) ==
    IF key \in Keys THEN entries' = Append(Without(key), EntryOf(key))
                    ELSE UNCHANGED entries

Touch(t) ==
    /\ doing[t] = "touch"
    /\ MoveToEnd(t, TextAt(t))
    /\ IF TextAt(t) \in Keys
       THEN filled' = [filled EXCEPT ![t][next[t]] = found[t]] /\ Advance(t, misses[t])
       ELSE Do(t, "failed") /\ UNCHANGED <<filled, misses, next>>
    /\ found' = [found EXCEPT ![t] = NoVector]
    /\ UNCHANGED <<service, batch, cacheTouched>>

(* The model encodes the misses, in one call that may raise: nothing of it *)
(* is put then.                                                            *)
Encode(t) ==
    /\ doing[t] = "encode"
    /\ \/ Do(t, "put") \/ Do(t, "raised")
    /\ UNCHANGED <<service, entries, batch, filled, misses, next, found, cacheTouched>>

MissAt(t) == misses[t][next[t]]

(* Faulty: the result at the place of the miss among the misses.           *)
Entry_ByMiss(t) == [key |-> MissAt(t)[2], vector |-> filled[t][next[t]], stale |-> FALSE]

(* What a put writes: the vector that it has just put among the results.   *)
Entry(t) == [key |-> MissAt(t)[2], vector |-> filled[t][MissAt(t)[1]], stale |-> FALSE]

(* Each miss is put, with its vector at its place among the results.       *)
Put(t) ==
    /\ doing[t] = "put"
    /\ filled' = [filled EXCEPT ![t][MissAt(t)[1]] = MissAt(t)[2]]
    /\ Do(t, IF MissAt(t)[2] \in Keys THEN "refresh" ELSE "insert")
    /\ UNCHANGED <<service, entries, batch, misses, next, found, cacheTouched>>

Refresh(t) ==
    /\ doing[t] = "refresh"
    /\ MoveToEnd(t, MissAt(t)[2])
    /\ Do(t, IF MissAt(t)[2] \in Keys THEN "insert" ELSE "failed")
    /\ UNCHANGED <<service, batch, filled, misses, next, found, cacheTouched>>

Insert(t) ==
    /\ doing[t] = "insert"
    /\ entries' = LET key == MissAt(t)[2]
                  IN  IF key \in Keys
                      THEN [i \in 1 .. Len(entries) |->
                              IF entries[i].key = key THEN Entry(t) ELSE entries[i]]
                      ELSE Append(entries, Entry(t))
    /\ Do(t, "trim")
    /\ UNCHANGED <<service, batch, filled, misses, next, found, cacheTouched>>

(* while len > capacity: popitem, which raises KeyError on an empty cache. *)
Trim(t) ==
    LET more == Len(entries) > CacheCapacity
        last == next[t] = Len(misses[t])
    IN  /\ doing[t] = "trim"
        /\ Do(t, IF more THEN "pop" ELSE IF last THEN "returned" ELSE "put")
        /\ next' = [next EXCEPT ![t] = IF more \/ last THEN @ ELSE @ + 1]
        /\ UNCHANGED <<service, entries, batch, filled, misses, found, cacheTouched>>

PopOldest(t) ==
    /\ doing[t] = "pop"
    /\ entries' = IF entries = <<>> THEN entries ELSE Tail(entries)
    /\ cacheTouched' = Others(t)
    /\ Do(t, IF entries = <<>> THEN "failed" ELSE "trim")
    /\ UNCHANGED <<service, batch, filled, misses, next, found>>

(* The admin route; an encode under way puts its misses back afterwards.   *)
FlushCache ==
    /\ service = "loaded" /\ entries # <<>>
    /\ entries' = <<>>
    /\ cacheTouched' = [t \in EncodeThreads |-> TRUE]
    /\ UNCHANGED <<service, doing, batch, filled, misses, next, found>>

(* More than the TTL passes.                                               *)
EntriesAge ==
    /\ \E e \in ToSet(entries) : ~e.stale
    /\ entries' = [i \in 1 .. Len(entries) |-> [entries[i] EXCEPT !.stale = TRUE]]
    /\ UNCHANGED <<service, doing, batch, filled, misses, next, found, cacheTouched>>

CacheNext ==
    \/ LoadModel \/ FlushCache \/ EntriesAge
    \/ \E t \in EncodeThreads :
        \/ StartEncode(t) \/ Find(t) \/ Expire(t) \/ Touch(t) \/ Encode(t)
        \/ Put(t) \/ Refresh(t) \/ Insert(t) \/ Trim(t) \/ PopOldest(t)

CacheSpec == CacheInit /\ [][CacheNext]_cacheVars
-----------------------------------------------------------------------------
(* encode answers with the vector of each text at the index of that text,  *)
(* whichever of them were hits, on entries that any thread may have put    *)
(* or replaced since (embedding_service.py:134-157, 317-345).              *)
VectorsMatchTexts ==
    \A t \in EncodeThreads : doing[t] = "returned" => filled[t] = batch[t]

(* "Encoder workloads are single-threaded", says the cache (122-124); they *)
(* are not, and the cache can raise KeyError.  It does so only when another*)
(* thread or a flush took entries away during that call; what the model    *)
(* raises ends a call as "raised".                                         *)
EncodeFailsOnlyInARace ==
    \A t \in EncodeThreads : doing[t] = "failed" => cacheTouched[t]
=============================================================================
