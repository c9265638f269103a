----------------------------- MODULE MissionData -----------------------------
(***************************************************************************)
(* What the control plane promises about a mission's work: it is done on   *)
(* the mission's home volume, and the mission moves only to a volume that  *)
(* holds all of it.                                                        *)
(***************************************************************************)
EXTENDS Naturals

VARIABLES
    home,     \* the volume the mission is recorded on, 0 for none yet
    latest    \* the volumes that hold the latest work

vars == <<home, latest>>

Init == latest \in {{}, {home}}

\* The first work, on the volume that is or will be the home.
First == /\ latest = {} /\ UNCHANGED home
         /\ IF home = 0 THEN \E v \in latest' : latest' = {v} ELSE latest' = {home}

\* More work, at home: every other copy is now old.
Work == home \in latest /\ latest' = {home} /\ UNCHANGED home

\* Copies of a volume that holds the latest work.
Copy == latest # {} /\ latest \subseteq latest' /\ UNCHANGED home

\* The mission moves; before its first work it may move anywhere.
Move == (latest = {} \/ home' \in latest) /\ UNCHANGED latest

Next == First \/ Work \/ Copy \/ Move

Spec == Init /\ [][Next]_vars
=============================================================================
