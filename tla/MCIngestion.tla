---------------------------- MODULE MCIngestion ----------------------------
(* Small instances of Ingestion for TLC.                                   *)
EXTENDS Ingestion, TLC

CONSTANTS d1, d2, r1, r2, r3, h1, h2, h3

(* Two versions of one document and, where a run has r3, another document. *)
MCDocOf == [r \in Requests |-> IF r = r3 THEN d2 ELSE d1]

(* Calls are interchangeable.                                              *)
CallSymmetry == Permutations(Handlers)
=============================================================================
