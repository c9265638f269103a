----------------------------- MODULE MCCopilot -----------------------------
(* Instances of Copilot for TLC. *)
EXTENDS Copilot, TLC

CONSTANTS d1, d2, d3, t1, t2
=============================================================================
