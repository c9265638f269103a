------------------------------ MODULE MCSpend ------------------------------
(* Two agents, and a job of the first. *)
EXTENDS Spend

CONSTANTS a1, a2, j1
MCOwner == [j \in {j1} |-> a1]
=============================================================================
