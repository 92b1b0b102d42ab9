----------------------------- MODULE MCPlacement -----------------------------
(* One object and two classes; the ingress classes of "a" and "b" carry     *)
(* numbers up to 2, with or without gaps.                                   *)
EXTENDS Placement

CONSTANTS a, b, k1

MCHashOf == [k \in Key |-> 5]
MCShards == {[c \in {} |-> 0], [c \in {a} |-> 2], [c \in {a} |-> 3],
             [c \in Class |-> IF c = a THEN 0 ELSE 1]}
=============================================================================
