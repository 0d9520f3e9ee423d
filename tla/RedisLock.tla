----------------------------- MODULE RedisLock -----------------------------
(***************************************************************************)
(* The Redis lock of concurrency/redis_lock.py.  A key is either free or   *)
(* holds the token of whoever acquired it; the server drops it by itself   *)
(* once its TTL has run out, whatever its holder is doing at that moment.  *)
(*                                                                         *)
(* The module has no behaviour of its own: the modules that use the lock   *)
(* instantiate it and conjoin its actions with their own.  A definition    *)
(* marked Faulty is a plausible mistake in the one below it; no behaviour  *)
(* uses it.                                                                *)
(***************************************************************************)

CONSTANTS Keys,     \* lock names
          Tokens,   \* uuid4 tokens: one per call of acquire, never reused
          NoToken   \* the value of a key that is not set

VARIABLE lock       \* lock[k] is the token stored under k

RedisLockTypeOK == lock \in [Keys -> Tokens \cup {NoToken}]

RedisLockInit == lock = [k \in Keys |-> NoToken]

(* Faulty: SET without NX.                                                 *)
Acquire_Overwrites(k, t) == lock' = [lock EXCEPT ![k] = t]

(* SET key token NX EX ttl, answered with OK.                              *)
Acquire(k, t) == /\ lock[k] = NoToken
                 /\ lock' = [lock EXCEPT ![k] = t]

(* SET key token NX EX ttl, answered with nil: acquire returns None.       *)
Refused(k) == /\ lock[k] # NoToken
              /\ UNCHANGED lock

(* Faulty: a plain DEL.                                                    *)
Release_Unchecked(k, t) == lock' = [lock EXCEPT ![k] = NoToken]

(* The Lua script: delete the key only if it still holds our token.        *)
Release(k, t) == lock' = IF lock[k] = t THEN [lock EXCEPT ![k] = NoToken]
                                        ELSE lock

(* The TTL of a held key runs out.                                         *)
Expire(k) == /\ lock[k] # NoToken
             /\ lock' = [lock EXCEPT ![k] = NoToken]
=============================================================================
