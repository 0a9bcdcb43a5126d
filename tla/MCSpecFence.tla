---------------------------- MODULE MCSpecFence ----------------------------
(***************************************************************************)
(* An array that needs both of its children and one that needs any.        *)
(***************************************************************************)
EXTENDS SpecFence

CONSTANTS a1, a2

MCNumFences == [a \in Arrays |-> IF a = a1 THEN 2 ELSE 1]
=============================================================================
