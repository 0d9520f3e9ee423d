------------------------------ MODULE MCStep5 ------------------------------
(* Small instances of Step5 for TLC.                                       *)
EXTENDS Step5

CONSTANTS w1, w2, w3, w4

(* Two jobs of version 1 and two of version 2; two batches a version.      *)
MCVersionOf == [w \in Workers |-> IF w \in {w1, w3} THEN 1 ELSE 2]

MCBatchesOf == [v \in Versions |-> 2]
=============================================================================
