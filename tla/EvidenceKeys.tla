---------------------------- MODULE EvidenceKeys ----------------------------
(* The last step of EvidenceBuilder.build: one constraint of each key.     *)
EXTENDS Naturals, Sequences, FiniteSets, SequencesExt, Selection

CONSTANT None

LowerOf(c) == IF c.interval = None THEN None ELSE c.interval.lower

UpperOf(c) == IF c.interval = None THEN None ELSE c.interval.upper

KeyOf(c) == <<c.param, LowerOf(c), UpperOf(c), c.unit>>

(* Faulty: the last of a key stays, whatever its level.                    *)
Outranks_Later(c, d) == TRUE

(* c takes the place of d, which came first: confidence is always 1.       *)
Outranks(c, d) == c.level > d.level \/ (c.level = d.level /\ c.conf > d.conf)

FirstsOf(cs) == {k \in DOMAIN cs : \A j \in 1 .. k - 1 : KeyOf(cs[j]) # KeyOf(cs[k])}

(* Of the constraints with the key of the k-th, the one that stays.        *)
Strongest(cs, k) ==
    LET stays(d, c) == IF KeyOf(c) = KeyOf(cs[k]) /\ Outranks(c, d) THEN c ELSE d
        best[j \in 0 .. Len(cs)] == IF j = 0 THEN cs[k] ELSE stays(best[j - 1], cs[j])
    IN  best[Len(cs)]

(* The deduplication: one constraint of a key, at the place of the first.  *)
Deduplicated(cs) ==
    LET first == Selected([k \in DOMAIN cs |-> k], FirstsOf(cs))
    IN  [n \in DOMAIN first |-> Strongest(cs, first[n])]
=============================================================================
