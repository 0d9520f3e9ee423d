------------------------------ MODULE Selection ------------------------------
(* The items of a sequence that are in a set, in their order.               *)
EXTENDS Naturals, Sequences

Selected(s, S) ==
    LET part[i \in 0 .. Len(s)] ==
            IF i = 0 THEN <<>>
            ELSE IF s[i] \in S THEN Append(part[i - 1], s[i]) ELSE part[i - 1]
    IN  part[Len(s)]

(* Where in the sequence they are.                                         *)
PlacesIn(s, S) ==
    Selected([i \in 1 .. Len(s) |-> i], {i \in 1 .. Len(s) : s[i] \in S})
=============================================================================
