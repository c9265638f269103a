----------------------------- MODULE MailDelivery -----------------------------
(***************************************************************************)
(* What the daemon promises about mail, without dispatch passes, gates or  *)
(* timers: an agent is given pending mail only at the start of a turn, one *)
(* turn at a time, each message at most once; a failure may lose mail that *)
(* was about to be given to one agent, and nothing else.                   *)
(***************************************************************************)
EXTENDS FiniteSets

CONSTANTS Agent, Msg

VARIABLES
    pending,   \* pending[a]: posted to a and not yet given to it
    handed,    \* handed[a]: given to a turn of a
    lost,      \* lost[a]: never to be given to a
    running    \* agents in a turn

vars == <<pending, handed, lost, running>>

Init ==
    /\ pending = [a \in Agent |-> {}] /\ handed = [a \in Agent |-> {}]
    /\ lost = [a \in Agent |-> {}] /\ running = {}

\* Mail is new: no agent was sent it before.
Post(m, to) ==
    /\ \A a \in Agent : m \notin pending[a] \cup handed[a] \cup lost[a]
    /\ pending' = [a \in Agent |-> IF a \in to THEN pending[a] \cup {m} ELSE pending[a]]
    /\ UNCHANGED <<handed, lost, running>>

\* A turn of an idle agent begins with some of its pending mail.
BeginTurn(a, mail) ==
    /\ a \notin running
    /\ mail # {} /\ mail \subseteq pending[a]
    /\ running' = running \cup {a}
    /\ pending' = [pending EXCEPT ![a] = @ \ mail]
    /\ handed' = [handed EXCEPT ![a] = @ \cup mail]
    /\ UNCHANGED lost

EndTurn(a) ==
    /\ a \in running
    /\ running' = running \ {a}
    /\ UNCHANGED <<pending, handed, lost>>

\* A failure, with or without the end of the process: at most one agent's mail.
Fail(a, mail) ==
    /\ mail \subseteq pending[a]
    /\ running' \in {running, {}}
    /\ pending' = [pending EXCEPT ![a] = @ \ mail]
    /\ lost' = [lost EXCEPT ![a] = @ \cup mail]
    /\ UNCHANGED handed

Next == \E a \in Agent :
          \/ \E mail \in SUBSET pending[a] : BeginTurn(a, mail) \/ Fail(a, mail)
          \/ EndTurn(a)
          \/ \E m \in Msg, to \in SUBSET Agent : Post(m, to)

Spec == Init /\ [][Next]_vars
===============================================================================
