----------------------------- MODULE MCSchedule -----------------------------
(* A message and a job whose crons occur at alternate minutes. *)
EXTENDS Schedule

CONSTANTS msg, job, once

Occurs == [s \in {msg, job, once} |-> IF s = job THEN {2, 4} ELSE {1, 3}]

MCNextDue ==
  [s \in {msg, job, once} |->
    [t \in 0 .. 4 |->
      CHOOSE u \in Occurs[s] \cup {5} :
        u > t /\ \A v \in Occurs[s] : v > t => u <= v]]
=============================================================================
