---------------------------- MODULE MCDispatcher ----------------------------
(***************************************************************************)
(* Instances of Dispatcher for TLC.                                        *)
(***************************************************************************)
EXTENDS Dispatcher, TLC

\* Messages are interchangeable; agents are not (the roster is ordered).
MsgSymmetry == Permutations(Msg)
=============================================================================
