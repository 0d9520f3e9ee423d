----------------------------- MODULE RateLimit -----------------------------
(***************************************************************************)
(* The per-address rate limiter, api/middleware/rate_limit.py.  One lock   *)
(* guards the table, so a hit is one step; a refused request asks for      *)
(* retry_after in a second one.  Time is a count of ticks.                 *)
(***************************************************************************)
EXTENDS Integers, Sequences, FiniteSets, SequencesExt, Selection

CONSTANTS Peers,            \* addresses; X-Forwarded-For when trusted
          MaxRequests,      \* EKRS_RATE_LIMIT, 60
          WindowTicks,      \* the window, 60 seconds
          TableCapacity,    \* 10000
          Watched,          \* the peer whose admissions are counted
          LastTick          \* bound: time stops here

ASSUME RateAssumption ==
    /\ MaxRequests \in Nat \ {0} /\ WindowTicks \in Nat \ {0}
    /\ TableCapacity \in Nat \ {0} /\ LastTick \in Nat
    /\ Watched \in Peers

VARIABLES
    tick,       \* time.monotonic()
    buckets,    \* the OrderedDict, least recently used first
    refused,    \* the peers whose 429 is being composed
    waits,      \* the Retry-After each peer was last told
    admitted,   \* history: how many requests of Watched had gone through by the
                \* end of each tick
    trimmed     \* history: Watched was dropped from the table

rateVars == <<tick, buckets, refused, waits, admitted, trimmed>>

RateTypeOK ==
    /\ tick \in 0 .. LastTick
    /\ buckets \in Seq([peer : Peers, start : 0 .. LastTick, count : 1 .. MaxRequests])
    /\ refused \subseteq Peers
    /\ waits \in [Peers -> 0 .. WindowTicks]
    /\ admitted \in [0 .. LastTick -> Nat]
    /\ trimmed \in BOOLEAN

RateInit ==
    /\ tick = 0
    /\ buckets = <<>>
    /\ refused = {}
    /\ waits = [p \in Peers |-> 0]
    /\ admitted = [n \in 0 .. LastTick |-> 0]
    /\ trimmed = FALSE

Tabled == {buckets[i].peer : i \in 1 .. Len(buckets)}

BucketOf(p) == CHOOSE b \in ToSet(buckets) : b.peer = p

Bucket(p, start, count) == [peer |-> p, start |-> start, count |-> count]

(* The table with the bucket of p at the end.                              *)
Promoted(p, b) == Append(Selected(buckets, {x \in ToSet(buckets) : x.peer # p}), b)

(* popitem(last=False) until the table is no longer than its capacity.     *)
LruTrim(table) ==
    SubSeq(table, IF Len(table) > TableCapacity THEN Len(table) - TableCapacity + 1
                                                ELSE 1, Len(table))

Admit(p) == admitted' =
    IF p = Watched /\ ~trimmed
    THEN [n \in 0 .. LastTick |-> IF n >= tick THEN admitted[n] + 1 ELSE admitted[n]]
    ELSE admitted

(* hit_and_check, path by path: a new address and an expired window return *)
(* before the trim.                                                        *)
HitNew(p) ==
    /\ p \notin Tabled
    /\ buckets' = Append(buckets, Bucket(p, tick, 1))
    /\ Admit(p)
    /\ UNCHANGED <<tick, refused, waits, trimmed>>

Elapsed(p) == tick - BucketOf(p).start >= WindowTicks

(* Faulty: the request that opens the window is not counted.               *)
HitExpired_Uncounted(p) ==
    /\ p \in Tabled /\ Elapsed(p)
    /\ buckets' = Promoted(p, Bucket(p, tick, 0))
    /\ Admit(p)
    /\ UNCHANGED <<tick, refused, waits, trimmed>>

HitExpired(p) ==
    /\ p \in Tabled /\ Elapsed(p)
    /\ buckets' = Promoted(p, Bucket(p, tick, 1))
    /\ Admit(p)
    /\ UNCHANGED <<tick, refused, waits, trimmed>>

HitOver(p) ==
    /\ p \in Tabled /\ ~Elapsed(p) /\ BucketOf(p).count >= MaxRequests
    /\ buckets' = Promoted(p, BucketOf(p))
    /\ refused' = refused \cup {p}
    /\ UNCHANGED <<tick, waits, admitted, trimmed>>

HitWithin(p) ==
    /\ p \in Tabled /\ ~Elapsed(p) /\ BucketOf(p).count < MaxRequests
    /\ buckets' = LruTrim(Promoted(p, [BucketOf(p) EXCEPT !.count = @ + 1]))
    /\ trimmed' = (trimmed \/ Watched \in Tabled \ {b.peer : b \in ToSet(buckets')})
    /\ Admit(p)
    /\ UNCHANGED <<tick, refused, waits>>

(* retry_after: what is left of the window, at least one second.  The      *)
(* bucket may have been dropped or renewed since the refusal.              *)
TellRetryAfter(p) ==
    LET left == WindowTicks - (tick - BucketOf(p).start)
    IN  /\ p \in refused
        /\ waits' = [waits EXCEPT ![p] = IF p \notin Tabled \/ left < 1 THEN 1 ELSE left]
        /\ refused' = refused \ {p}
        /\ UNCHANGED <<tick, buckets, admitted, trimmed>>

TimePasses ==
    /\ tick < LastTick
    /\ tick' = tick + 1
    /\ UNCHANGED <<buckets, refused, waits, admitted, trimmed>>

RateNext ==
    \/ TimePasses
    \/ \E p \in Peers : \/ HitNew(p) \/ HitExpired(p) \/ HitOver(p)
                        \/ HitWithin(p) \/ TellRetryAfter(p)

RateSpec == RateInit /\ [][RateNext]_rateVars
-----------------------------------------------------------------------------
(* The window is fixed, not sliding as the class says (75-78).  The most a *)
(* peer that is never dropped from the table gets through in any stretch   *)
(* as long as the window is one request short of two windows.              *)
AdmittedBy(n) == IF n < 0 THEN 0 ELSE admitted[IF n > LastTick THEN LastTick ELSE n]

AtMostTwoWindows == ~trimmed =>
    \A from \in 0 .. LastTick :
        AdmittedBy(from + WindowTicks - 1) - AdmittedBy(from - 1) <= 2 * MaxRequests - 1
=============================================================================
