-------------------------- MODULE Dispatcher_proofs --------------------------
(***************************************************************************)
(* What Dispatcher guarantees for every roster, mailbox and environment.   *)
(***************************************************************************)
EXTENDS Dispatcher, TLAPS

USE DEF mailVars, monVars, runVars, passVars, timerVars, loopVars, procVars

-----------------------------------------------------------------------------
(* Type correctness.                                                         *)

\* The constants the steps below need, so that the sets stay opaque there.
LEMMA Constants ==
    /\ 1 \in Agent /\ \A a \in Agent : a < NAgents => a + 1 \in Agent
    /\ "main" \in Caller /\ "kick" \in Caller
    /\ {"idle", "visit", "step", "stepped", "budget", "paid", "mark", "start"}
         \subseteq PassAt
    /\ {"down", "dispatch", "redispatch", "wait", "backoff", "drain", "scan", "closing",
        "settling", "ended"} \subseteq MainAt
  BY DispatcherAssumption DEF Agent, PassAt, MainAt, Caller

\* Leaving the loop body: main is at one of its positions.
LEMMA MainReturnsType ==
    ASSUME LoopTypes, NEW running \in SUBSET Agent, NEW from,
           MainReturns(from, running)
    PROVE  LoopTypes'
  BY Constants DEF MainReturns, AfterDispatch, LoopTypes

\* The end of a pass.
LEMMA EndPassType ==
    ASSUME PassTypes, LoopTypes, NEW c \in Caller, NEW running \in SUBSET Agent,
           EndPass(c, running)
    PROVE  PassTypes' /\ LoopTypes'
  <1>1. PassTypes'
    BY Constants DEF EndPass, PassTypes
  <1>2. LoopTypes'
    BY MainReturnsType DEF EndPass, LoopTypes
  <1>. QED  BY <1>1, <1>2

\* The roster loop stays inside the roster.
LEMMA AdvanceType ==
    ASSUME PassTypes, LoopTypes, NEW c \in Caller, NEW running \in SUBSET Agent,
           Advance(c, running)
    PROVE  PassTypes' /\ LoopTypes'
  <1>1. CASE cur[c] < NAgents
    BY <1>1, Constants DEF Advance, PassTypes, LoopTypes
  <1>2. CASE ~(cur[c] < NAgents)
    BY <1>2, EndPassType DEF Advance
  <1>. QED  BY <1>1, <1>2

LEMMA DispatchReadyType ==
    ASSUME PassTypes, HeldTypes, NEW c \in Caller, DispatchReady(c)
    PROVE  PassTypes' /\ HeldTypes'
  BY Constants DEF DispatchReady, PassTypes, HeldTypes

LEMMA MainDispatchType ==
    ASSUME PassTypes, HeldTypes, LoopTypes, NEW running \in SUBSET Agent,
           NEW from \in MainAt, MainDispatch(from, running)
    PROVE  PassTypes' /\ HeldTypes' /\ LoopTypes'
  <1>1. PassTypes' /\ HeldTypes'
    BY DispatchReadyType, Constants DEF MainDispatch
  <1>2. LoopTypes'
    BY MainReturnsType, Constants DEF MainDispatch, LoopTypes
  <1>. QED  BY <1>1, <1>2

\* A new process is well typed.
LEMMA ProcessDiesType ==
    ASSUME MailTypes, PassTypes, HeldTypes, env \in Envs,
           NEW orphaned \in [Agent -> SUBSET Msg], ProcessDies(orphaned)
    PROVE  /\ (unread' \in [Agent -> SUBSET Msg] => MailTypes')
           /\ MonTypes' /\ RunTypes' /\ PassTypes' /\ HeldTypes'
           /\ TimerTypes' /\ LoopTypes' /\ ProcTypes'
  <1>1. unread' \in [Agent -> SUBSET Msg] => MailTypes'
    BY DEF ProcessDies, MailTypes, InHand
  <1>2. MonTypes' /\ RunTypes' /\ PassTypes' /\ HeldTypes'
    BY Constants DEF ProcessDies, FreshProcess, MonTypes, RunTypes, PassTypes, HeldTypes
  <1>3. TimerTypes' /\ LoopTypes' /\ ProcTypes'
    BY Constants DEF ProcessDies, FreshProcess, TimerTypes, LoopTypes, ProcTypes
  <1>. QED  BY <1>1, <1>2, <1>3

LEMMA InitType == Init => TypeOK
  <1> SUFFICES ASSUME Init PROVE TypeOK
    OBVIOUS
  <1>1. MailTypes /\ MonTypes /\ RunTypes
    BY DEF Init, MailTypes, MonTypes, RunTypes
  <1>2. PassTypes /\ HeldTypes /\ TimerTypes
    BY Constants DEF Init, PassTypes, HeldTypes, TimerTypes
  <1>3. LoopTypes /\ ProcTypes
    BY Constants DEF Init, LoopTypes, ProcTypes
  <1>. QED  BY <1>1, <1>2, <1>3 DEF TypeOK

LEMMA TypeStep == TypeOK /\ [Next]_vars => TypeOK'
  <1> SUFFICES ASSUME TypeOK, [Next]_vars PROVE TypeOK'
    OBVIOUS
  <1> USE DEF TypeOK
  <1>1. ASSUME NEW c \in Caller, PassVisit(c) PROVE TypeOK'
    <2>1. PassTypes' /\ LoopTypes'
      BY <1>1, AdvanceType, EndPassType, Constants
      DEF PassVisit, PassTypes, RunTypes, LoopTypes
    <2>2. MonTypes'
      BY <1>1 DEF PassVisit, MonTypes
    <2>3. TimerTypes'
      BY <1>1 DEF PassVisit, ArmCooldownTimer, PassTypes, TimerTypes
    <2>. QED
      BY <1>1, <2>1, <2>2, <2>3
      DEF PassVisit, MailTypes, RunTypes, HeldTypes, ProcTypes
  <1>2. ASSUME NEW c \in Caller, PassBudgetGate(c) PROVE TypeOK'
    <2>1. PassTypes' /\ LoopTypes'
      BY <1>2, EndPassType, Constants DEF PassBudgetGate, PassTypes, RunTypes, LoopTypes
    <2>. QED
      BY <1>2, <2>1
      DEF PassBudgetGate, MailTypes, MonTypes, RunTypes, HeldTypes, TimerTypes, ProcTypes
  <1>3. ASSUME NEW c \in Caller, PassList(c) PROVE TypeOK'
    <2>1. PassTypes' /\ LoopTypes'
      BY <1>3, EndPassType, AdvanceType, Constants
      DEF PassList, PassTypes, RunTypes, LoopTypes
    <2>2. HeldTypes'
      BY <1>3 DEF PassList, HeldTypes, PassTypes, MailTypes
    <2>. QED
      BY <1>3, <2>1, <2>2 DEF PassList, MailTypes, MonTypes, RunTypes, TimerTypes, ProcTypes
  <1>4. ASSUME NEW c \in Caller, PassMark(c) PROVE TypeOK'
    <2>1. PassTypes'
      BY <1>4, Constants DEF PassMark, PassTypes
    <2>2. MailTypes'
      BY <1>4 DEF PassMark, MarkRead, PassTypes, HeldTypes, MailTypes
    <2>. QED
      BY <1>4, <2>1, <2>2
      DEF PassMark, MonTypes, RunTypes, HeldTypes, TimerTypes, LoopTypes, ProcTypes
  <1>5. ASSUME NEW c \in Caller, PassStart(c) PROVE TypeOK'
    <2>1. RunTypes'
      BY <1>5 DEF PassStart, RunTypes, PassTypes
    <2>2. PassTypes' /\ LoopTypes'
      BY <1>5, <2>1, AdvanceType DEF PassStart, RunTypes
    <2>3. MailTypes' /\ HeldTypes'
      BY <1>5 DEF PassStart, PassTypes, HeldTypes, MailTypes
    <2>. QED
      BY <1>5, <2>1, <2>2, <2>3 DEF PassStart, MonTypes, TimerTypes, ProcTypes
  <1>6. ASSUME NEW c \in Caller, PassFails(c) PROVE TypeOK'
    <2> DEFINE orphaned == [NoMail EXCEPT ![cur[c]] = batch[c]]
    <2>1. orphaned \in [Agent -> SUBSET Msg] /\ NoMail \in [Agent -> SUBSET Msg]
      BY DEF NoMail, PassTypes, HeldTypes
    <2>2. unread' \in [Agent -> SUBSET Msg]
      BY <1>6 DEF PassFails, MarkRead, PassTypes, HeldTypes, MailTypes
    <2>3. CASE c = "main"
      <3>1. PICK gone \in [Agent -> SUBSET Msg] : ProcessDies(gone)
        BY <1>6, <2>1, <2>3 DEF PassFails
      <3>. QED
        BY <3>1, <2>2, ProcessDiesType DEF ProcTypes
    <2>4. CASE c # "main"
      <3>1. MailTypes'
        BY <1>6, <2>1, <2>2, <2>4 DEF PassFails, MailTypes
      <3>2. PassTypes' /\ HeldTypes' /\ TimerTypes'
        BY <1>6, <2>4, Constants DEF PassFails, PassTypes, HeldTypes, TimerTypes
      <3>. QED
        BY <1>6, <2>4, <3>1, <3>2
        DEF PassFails, MonTypes, RunTypes, LoopTypes, ProcTypes
    <2>. QED  BY <2>3, <2>4
  <1>7. ASSUME NEW a \in Agent, LlmAnswer(a) \/ RunTimeout(a) PROVE TypeOK'
    BY <1>7 DEF LlmAnswer, RunTimeout, MailTypes, MonTypes, RunTypes, PassTypes, HeldTypes,
                TimerTypes, LoopTypes, ProcTypes
  <1>8. ASSUME NEW a \in Agent, RunEnd(a) PROVE TypeOK'
    <2>1. RunTypes' /\ TimerTypes'
      BY <1>8, Constants DEF RunEnd, CheckIdle, RunTypes, TimerTypes
    <2>2. PassTypes' /\ HeldTypes' /\ LoopTypes'
      BY <1>8, MainDispatchType, Constants
      DEF RunEnd, RunTypes, PassTypes, HeldTypes, LoopTypes
    <2>. QED
      BY <1>8, <2>1, <2>2 DEF RunEnd, MailTypes, MonTypes, ProcTypes
  <1>9. ASSUME NEW a \in Agent, Scan(a) PROVE TypeOK'
    <2>1. TimerTypes'
      BY <1>9, Constants DEF Scan, Checked, TimerTypes
    <2>2. PassTypes' /\ HeldTypes'
      BY <1>9, DispatchReadyType, Constants DEF Scan, PassTypes, HeldTypes
    <2>. QED
      BY <1>9, <2>1, <2>2 DEF Scan, MailTypes, MonTypes, RunTypes, LoopTypes, ProcTypes
  <1>10. ASSUME NEW a \in Agent, ScanFails(a) \/ CooldownEnds(a) PROVE TypeOK'
    <2>1. TimerTypes'
      <3>1. CASE ScanFails(a)
        BY <3>1 DEF ScanFails, Checked, TimerTypes, ProcTypes
      <3>2. CASE CooldownEnds(a)
        BY <3>2 DEF CooldownEnds, TimerTypes
      <3>. QED  BY <1>10, <3>1, <3>2
    <2>. QED
      BY <1>10, <2>1 DEF ScanFails, CooldownEnds, MailTypes, MonTypes, RunTypes, PassTypes,
                         HeldTypes, LoopTypes, ProcTypes
  <1>11. ASSUME NEW a \in Agent, TimerFires(a) PROVE TypeOK'
    <2>1. PassTypes' /\ HeldTypes'
      BY <1>11, DispatchReadyType, Constants DEF TimerFires
    <2>. QED
      BY <1>11, <2>1
      DEF TimerFires, MailTypes, MonTypes, RunTypes, TimerTypes, LoopTypes, ProcTypes
  <1>12. CASE RetryFires
    <2>1. TimerTypes'
      <3>1. scans' \in [Agent -> Nat]
        BY <1>12, Constants DEF RetryFires, CheckIdle, TimerTypes
      <3>. QED  BY <1>12, <3>1 DEF RetryFires, TimerTypes
    <2>. QED
      BY <1>12, <2>1 DEF RetryFires, MailTypes, MonTypes, RunTypes, PassTypes, HeldTypes,
                         LoopTypes, ProcTypes
  <1>13. CASE Start
    <2>1. PassTypes' /\ HeldTypes' /\ LoopTypes'
      BY <1>13, MainDispatchType, Constants DEF Start, RunTypes
    <2>. QED
      BY <1>13, <2>1 DEF Start, MailTypes, MonTypes, RunTypes, TimerTypes, ProcTypes
  <1>14. CASE Wake
    <2>1. PassTypes' /\ HeldTypes'
      BY <1>14, DispatchReadyType, Constants DEF Wake, PassTypes, HeldTypes
    <2>2. LoopTypes'
      BY <1>14, Constants DEF Wake, AfterDispatch, LoopTypes
    <2>. QED
      BY <1>14, <2>1, <2>2 DEF Wake, MailTypes, MonTypes, RunTypes, TimerTypes, ProcTypes
  <1>15. CASE StreamFails \/ BackoffOver
    <2>1. MailTypes' /\ LoopTypes'
      BY <1>15, Constants DEF StreamFails, BackoffOver, MailTypes, LoopTypes
    <2>. QED
      BY <1>15, <2>1 DEF StreamFails, BackoffOver, MonTypes, RunTypes, PassTypes, HeldTypes,
                         TimerTypes, ProcTypes
  <1>16. CASE CliScan
    <2>1. PassTypes' /\ HeldTypes' /\ LoopTypes'
      BY <1>16, MainDispatchType, Constants
      DEF CliScan, RunTypes, PassTypes, HeldTypes, LoopTypes
    <2>. QED
      BY <1>16, <2>1 DEF CliScan, MailTypes, MonTypes, RunTypes, TimerTypes, ProcTypes
  <1>17. CASE CloseLoop
    BY <1>17, Constants
    DEF CloseLoop, MailTypes, MonTypes, RunTypes, PassTypes, HeldTypes, TimerTypes,
        LoopTypes, ProcTypes
  <1>18. CASE Finish
    <2>1. PassTypes'
      BY <1>18, Constants DEF Finish, PassTypes
    <2>. QED
      BY <1>18, <2>1, Constants
      DEF Finish, MailTypes, MonTypes, RunTypes, HeldTypes, TimerTypes, LoopTypes, ProcTypes
  <1>19. CASE Exit \/ ForcedExit \/ Crash
    <2>1. NoMail \in [Agent -> SUBSET Msg]
      BY DEF NoMail
    <2>2. ProcessDies(NoMail) /\ unread' = unread
      BY <1>19 DEF Exit, ForcedExit, Crash
    <2>. QED
      BY <2>1, <2>2, ProcessDiesType DEF MailTypes, ProcTypes
  <1>20. ASSUME NEW m \in Msg, NEW to \in SUBSET Agent, Post(m, to) PROVE TypeOK'
    <2>1. MailTypes'
      BY <1>20 DEF Post, MailTypes
    <2>. QED
      BY <1>20, <2>1 DEF Post, MonTypes, RunTypes, PassTypes, HeldTypes, TimerTypes,
                         LoopTypes, ProcTypes
  <1>21. ASSUME NEW a \in Agent, PauseAgent(a) \/ ResumeAgent(a) PROVE TypeOK'
    <2>1. MailTypes' /\ MonTypes'
      BY <1>21 DEF PauseAgent, ResumeAgent, MailTypes, MonTypes
    <2>. QED
      BY <1>21, <2>1 DEF PauseAgent, ResumeAgent, RunTypes, PassTypes, HeldTypes,
                         TimerTypes, LoopTypes, ProcTypes
  <1>22. CASE Step \/ ToggleStep \/ ResumeBudget
    <2>1. PassTypes'
      BY <1>22, Constants DEF Step, ToggleStep, ResumeBudget, OpenStepGate, PassTypes
    <2>2. MonTypes'
      BY <1>22 DEF Step, ToggleStep, ResumeBudget, OpenStepGate, MonTypes
    <2>. QED
      BY <1>22, <2>1, <2>2 DEF Step, ToggleStep, ResumeBudget, MailTypes, RunTypes,
                               HeldTypes, TimerTypes, LoopTypes, ProcTypes
  <1>23. CASE CostPause \/ StopRoute \/ Sigterm
    <2>1. MonTypes' /\ RunTypes' /\ ProcTypes'
      BY <1>23 DEF CostPause, StopRoute, Sigterm, MonTypes, RunTypes, ProcTypes, runVars
    <2>2. MailTypes' /\ PassTypes' /\ HeldTypes'
      BY <1>23 DEF CostPause, StopRoute, Sigterm, mailVars, passVars, MailTypes,
                   PassTypes, HeldTypes
    <2>3. TimerTypes' /\ LoopTypes'
      BY <1>23 DEF CostPause, StopRoute, Sigterm, timerVars, loopVars, TimerTypes,
                   LoopTypes
    <2>. QED  BY <2>1, <2>2, <2>3
  <1>24. CASE UNCHANGED vars
    BY <1>24 DEF vars, MailTypes, MonTypes, RunTypes, PassTypes, HeldTypes, TimerTypes,
                 LoopTypes, ProcTypes
  <1>. QED
    BY <1>1, <1>2, <1>3, <1>4, <1>5, <1>6, <1>7, <1>8, <1>9, <1>10, <1>11, <1>12,
       <1>13, <1>14, <1>15, <1>16, <1>17, <1>18, <1>19, <1>20, <1>21, <1>22, <1>23, <1>24
    DEF Next, PassNext, RunNext, IdleNext, MainNext, EnvNext, PassStep

\* Every variable keeps its type in every reachable state, for every roster,
\* mailbox and environment.
THEOREM TypeCorrect == Spec => []TypeOK
  <1>. QED  BY InitType, TypeStep, PTL DEF Spec

-----------------------------------------------------------------------------
(* One pass at a time.                                                       *)

\* A call either leaves every pass where it is or starts the only one.
LEMMA DispatchReadyEffect ==
    ASSUME PassTypes, OnePass, NEW c \in Caller, DispatchReady(c)
    PROVE  /\ batch' = batch
           /\ \/ UNCHANGED <<inFlight, at, cur>>
              \/ /\ inFlight' /\ \A d \in Caller : at[d] = "idle"
                 /\ at' = [at EXCEPT ![c] = "visit"] /\ cur' = [cur EXCEPT ![c] = 1]
  BY DEF DispatchReady, OnePass, Parked, PassTypes

LEMMA DispatchReadyOnePass ==
    ASSUME PassTypes, OnePass, NEW c \in Caller, DispatchReady(c), UNCHANGED stepWaiter
    PROVE  OnePass'
  BY DispatchReadyEffect DEF OnePass, Parked, PassTypes

LEMMA EndPassEffect ==
    ASSUME PassTypes, NEW c \in Caller, NEW running, EndPass(c, running)
    PROVE  \E next \in {"visit", "idle"} :
             /\ at' = [at EXCEPT ![c] = next] /\ cur' = [cur EXCEPT ![c] = cur'[c]]
             /\ next = "visit" => inFlight' = inFlight
  BY DEF EndPass, PassTypes

LEMMA AdvanceEffect ==
    ASSUME PassTypes, NEW c \in Caller, NEW running, Advance(c, running)
    PROVE  \E next \in {"visit", "idle"} :
             /\ at' = [at EXCEPT ![c] = next] /\ cur' = [cur EXCEPT ![c] = cur'[c]]
             /\ next = "visit" => inFlight' = inFlight
  BY EndPassEffect DEF Advance, PassTypes

\* A pass that moves within its roster loop, away from the step gate, stays the
\* only one.
LEMMA MoveOnePass ==
    ASSUME PassTypes, OnePass, NEW c \in Caller, at[c] # "idle", at[c] # "step",
           UNCHANGED stepWaiter, NEW next \in PassAt \ {"step"},
           at' = [at EXCEPT ![c] = next], next # "idle" => inFlight' = inFlight
    PROVE  OnePass'
  BY DEF OnePass, Parked, PassTypes

-----------------------------------------------------------------------------
(* The mail.                                                                 *)

\* The inductive invariant: a pass hands over what it listed only because it is
\* the only pass (OnePass), because nobody else reads that agent's mail meanwhile
\* (HeldMail) and because no turn of that agent is running (OneTurnPerAgent).
IInv == TypeOK /\ OnePass /\ HeldMail /\ OneTurnPerAgent /\ MailAccounted

\* No pass starts or stops holding mail.
SameHands ==
    \A c \in Caller :
      /\ at'[c] = at[c] \/ {at[c], at'[c]} \cap {"mark", "start"} = {}
      /\ at[c] \in {"mark", "start"} => cur'[c] = cur[c]

\* A step that leaves the mail, and the passes that hold some, alone.
LEMMA FrameStep ==
    ASSUME HeldMail, OneTurnPerAgent, MailAccounted, SameHands, active' \subseteq active,
           UNCHANGED <<sent, unread, handed, lost, batch>>
    PROVE  HeldMail' /\ OneTurnPerAgent' /\ MailAccounted'
  <1>1. HeldMail'
    BY DEF HeldMail, SameHands
  <1>2. OneTurnPerAgent'
    BY DEF OneTurnPerAgent, SameHands
  <1>3. \A a \in Agent : InHand(a)' = InHand(a)
    BY DEF InHand, SameHands
  <1>4. MailAccounted'
    BY <1>3 DEF MailAccounted
  <1>. QED  BY <1>1, <1>2, <1>4

\* dispatchReady() is such a step.
LEMMA DispatchReadyHands ==
    ASSUME PassTypes, OnePass, NEW c \in Caller, DispatchReady(c)
    PROVE  SameHands
  BY DispatchReadyEffect DEF SameHands, PassTypes

\* So is every move of a pass that holds nothing before and after.
LEMMA MoveHands ==
    ASSUME PassTypes, NEW c \in Caller, at[c] \notin {"mark", "start"},
           NEW next \in PassAt \ {"mark", "start"},
           at' = [at EXCEPT ![c] = next], cur' = [cur EXCEPT ![c] = cur'[c]]
    PROVE  SameHands
  BY DEF SameHands, PassTypes

\* The actions of Next that neither list, mark nor hand over mail, post it or end
\* the process.
QuietNext ==
    \/ \E c \in Caller : PassVisit(c) \/ PassBudgetGate(c)
    \/ RunNext
    \/ IdleNext
    \/ Start \/ Wake \/ StreamFails \/ BackoffOver \/ CliScan \/ CloseLoop \/ Finish
    \/ \E a \in Agent : PauseAgent(a) \/ ResumeAgent(a)
    \/ Step \/ ToggleStep \/ CostPause \/ ResumeBudget \/ StopRoute \/ Sigterm
    \/ UNCHANGED vars

LEMMA QuietStep ==
    ASSUME TypeOK, OnePass, QuietNext
    PROVE  /\ OnePass' /\ SameHands /\ active' \subseteq active
           /\ UNCHANGED <<sent, unread, handed, lost, batch>>
  <1> DEFINE Goal == /\ OnePass' /\ SameHands /\ active' \subseteq active
                     /\ UNCHANGED <<sent, unread, handed, lost, batch>>
             Still == UNCHANGED <<at, cur, inFlight, stepWaiter, batch>>
  <1>. USE DEF TypeOK
  <1>1. ASSUME NEW c \in Caller, PassVisit(c) PROVE Goal
    <2>1. CASE Advance(c, active) /\ UNCHANGED stepWaiter
      BY <1>1, <2>1, AdvanceEffect, MoveOnePass, MoveHands, Constants DEF PassVisit
    <2>2. CASE EndPass(c, active) /\ UNCHANGED stepWaiter
      BY <1>1, <2>2, EndPassEffect, MoveOnePass, MoveHands, Constants DEF PassVisit
    <2>3. CASE /\ at' = [at EXCEPT ![c] = IF stepEnabled THEN "step" ELSE "stepped"]
               /\ stepWaiter' = IF stepEnabled THEN c ELSE stepWaiter
               /\ UNCHANGED <<inFlight, again, cur, loopVars>>
      <3>1. OnePass'
        BY <1>1, <2>3 DEF PassVisit, OnePass, Parked, PassTypes
      <3>2. SameHands
        BY <1>1, <2>3 DEF PassVisit, SameHands, PassTypes
      <3>. QED  BY <1>1, <3>1, <3>2 DEF PassVisit
    <2>. QED  BY <1>1, <2>1, <2>2, <2>3 DEF PassVisit
  <1>2. ASSUME NEW c \in Caller, PassBudgetGate(c) PROVE Goal
    <2>1. CASE EndPass(c, active)
      BY <1>2, <2>1, EndPassEffect, MoveOnePass, MoveHands, Constants DEF PassBudgetGate
    <2>2. CASE /\ at' = [at EXCEPT ![c] = IF budgetPaused THEN "budget" ELSE "paid"]
               /\ UNCHANGED <<inFlight, again, cur, loopVars>>
      <3>1. OnePass'
        BY <1>2, <2>2, MoveOnePass, Constants DEF PassBudgetGate
      <3>2. SameHands
        BY <1>2, <2>2 DEF PassBudgetGate, SameHands, PassTypes
      <3>. QED  BY <1>2, <3>1, <3>2 DEF PassBudgetGate
    <2>. QED  BY <1>2, <2>1, <2>2 DEF PassBudgetGate
  <1>3. ASSUME Still, UNCHANGED <<sent, unread, handed, lost>>, active' \subseteq active
        PROVE  Goal
    BY <1>3 DEF OnePass, Parked, SameHands
  <1>4. ASSUME DispatchReady("main") \/ DispatchReady("kick"), UNCHANGED stepWaiter,
               UNCHANGED <<sent, unread, handed, lost>>, active' \subseteq active
        PROVE  Goal
    BY <1>4, DispatchReadyOnePass, DispatchReadyHands, DispatchReadyEffect, Constants
  <1>5. CASE RunNext
    BY <1>5, <1>3, <1>4 DEF RunNext, LlmAnswer, RunEnd, RunTimeout, MainDispatch
  <1>6. CASE IdleNext
    BY <1>6, <1>3, <1>4
    DEF IdleNext, RetryFires, Scan, ScanFails, CooldownEnds, TimerFires
  <1>7. CASE Start \/ Wake \/ StreamFails \/ BackoffOver \/ CliScan \/ CloseLoop
    BY <1>7, <1>3, <1>4
    DEF Start, Wake, StreamFails, BackoffOver, CliScan, CloseLoop, MainDispatch
  <1>8. CASE Finish
    <2>1. OnePass'
      BY <1>8 DEF Finish, OnePass, Parked, PassTypes, MonTypes, NoOne, Caller
    <2>2. SameHands
      BY <1>8 DEF Finish, SameHands, PassTypes
    <2>. QED  BY <1>8, <2>1, <2>2 DEF Finish
  <1>9. CASE Step \/ ToggleStep \/ ResumeBudget
    <2>1. CASE OpenStepGate /\ UNCHANGED <<inFlight, cur, batch>>
      <3>1. \A c \in Caller : at'[c] = IF at[c] = "step" THEN "stepped" ELSE at[c]
        BY <2>1 DEF OpenStepGate, OnePass
      <3>2. stepWaiter' \notin Caller
        BY <2>1 DEF OpenStepGate, NoOne, Caller
      <3>3. OnePass'
        BY <2>1, <3>1, <3>2 DEF OnePass, Parked
      <3>4. SameHands
        BY <2>1, <3>1 DEF SameHands
      <3>. QED  BY <1>9, <2>1, <3>3, <3>4 DEF Step, ToggleStep, ResumeBudget
    <2>2. CASE ResumeBudget
      <3>1. \A c \in Caller : at'[c] = IF at[c] = "budget" THEN "paid" ELSE at[c]
        BY <2>2 DEF ResumeBudget
      <3>2. OnePass'
        BY <2>2, <3>1 DEF ResumeBudget, OnePass, Parked
      <3>3. SameHands
        BY <2>2, <3>1 DEF ResumeBudget, SameHands
      <3>. QED  BY <2>2, <3>2, <3>3 DEF ResumeBudget
    <2>3. CASE ToggleStep /\ UNCHANGED <<at, stepWaiter>>
      BY <2>3, <1>3 DEF ToggleStep
    <2>. QED  BY <1>9, <2>1, <2>2, <2>3 DEF Step, ToggleStep
  <1>10. ASSUME NEW a \in Agent, PauseAgent(a) \/ ResumeAgent(a) PROVE Goal
    BY <1>10, <1>3 DEF PauseAgent, ResumeAgent
  <1>11. CASE CostPause \/ StopRoute \/ Sigterm \/ UNCHANGED vars
    BY <1>11, <1>3 DEF CostPause, StopRoute, Sigterm, vars
  <1>. QED
    BY <1>1, <1>2, <1>5, <1>6, <1>7, <1>8, <1>9, <1>10, <1>11 DEF QuietNext

-----------------------------------------------------------------------------
(* The steps that move mail.                                                 *)

\* The one pass lists an agent's mail: it holds what is unread, and the agent is
\* not running.
LEMMA ListStep ==
    ASSUME IInv, NEW c \in Caller, PassList(c)
    PROVE  OnePass' /\ HeldMail' /\ OneTurnPerAgent' /\ MailAccounted'
  <1>. USE DEF IInv, TypeOK
  <1>1. CASE UNCHANGED batch /\ (EndPass(c, active) \/ Advance(c, active))
    <2>1. SameHands /\ OnePass'
      BY <1>1, EndPassEffect, AdvanceEffect, MoveOnePass, MoveHands, Constants
      DEF PassList
    <2>. QED  BY <1>1, <2>1, FrameStep DEF PassList
  <1>2. CASE /\ cur[c] \notin active /\ unread[cur[c]] # {}
             /\ batch' = [batch EXCEPT ![c] = unread[cur[c]]]
             /\ at' = [at EXCEPT ![c] = "mark"]
             /\ UNCHANGED <<inFlight, again, cur, loopVars>>
    <2>1. OnePass'
      BY <1>2, MoveOnePass, Constants DEF PassList
    <2>2. /\ at'[c] = "mark" /\ batch'[c] = unread[cur[c]]
          /\ \A d \in Caller \ {c} : at'[d] = "idle" /\ batch'[d] = {}
      BY <1>2 DEF PassList, OnePass, HeldMail, Parked, PassTypes, HeldTypes
    <2>5. HeldMail' /\ OneTurnPerAgent'
      BY <1>2, <2>2 DEF PassList, HeldMail, OneTurnPerAgent
    <2>3. \A a \in Agent : InHand(a)' = InHand(a)
      BY <1>2 DEF PassList, InHand, PassTypes, HeldTypes
    <2>4. MailAccounted'
      BY <1>2, <2>3 DEF PassList, MailAccounted
    <2>. QED  BY <2>1, <2>5, <2>4
  <1>. QED  BY <1>1, <1>2 DEF PassList

\* What the one pass holds at "start" is what is in hand of that pass's agent, and
\* nothing else is in hand.
LEMMA InHandOfPass ==
    ASSUME OnePass, NEW c \in Caller, Parked(c), NEW a \in Agent, HeldTypes
    PROVE  InHand(a) = IF at[c] = "start" /\ cur[c] = a THEN batch[c] ELSE {}
  BY DEF InHand, OnePass, Parked, HeldTypes

\* It marks that mail read: from unread to its hands.
LEMMA MarkStep ==
    ASSUME IInv, NEW c \in Caller, PassMark(c)
    PROVE  OnePass' /\ HeldMail' /\ OneTurnPerAgent' /\ MailAccounted'
  <1>. USE DEF IInv, TypeOK
  <1>1. OnePass'
    BY MoveOnePass, Constants DEF PassMark
  <1>2. HeldMail' /\ OneTurnPerAgent'
    BY DEF PassMark, MarkRead, HeldMail, OneTurnPerAgent, OnePass, Parked, PassTypes
  <1>3. Parked(c) /\ Parked(c)' /\ at[c] = "mark" /\ at'[c] = "start"
    BY DEF PassMark, Parked, PassTypes
  <1>4. \A a \in Agent : InHand(a) = {}
    BY <1>3, InHandOfPass
  <1>5. \A a \in Agent : InHand(a)' = IF cur[c] = a THEN batch[c] ELSE {}
    BY <1>3, <1>1 DEF PassMark, InHand, OnePass, Parked, HeldTypes
  <1>6. \A a \in Agent : unread'[a] = IF cur[c] = a THEN unread[a] \ batch[c] ELSE unread[a]
    BY DEF PassMark, MarkRead, MailTypes, PassTypes
  <1>7. batch[c] \subseteq unread[cur[c]]
    BY <1>3 DEF HeldMail
  <1>8. MailAccounted'
    <2>. SUFFICES ASSUME NEW a \in Agent
         PROVE /\ sent[a] = unread'[a] \cup InHand(a)' \cup handed[a] \cup lost[a]
               /\ unread'[a] \cap (InHand(a)' \cup handed[a] \cup lost[a]) = {}
               /\ InHand(a)' \cap (handed[a] \cup lost[a]) = {}
               /\ handed[a] \cap lost[a] = {}
      BY DEF PassMark, MailAccounted
    <2>1. /\ sent[a] = unread[a] \cup handed[a] \cup lost[a]
          /\ unread[a] \cap (handed[a] \cup lost[a]) = {}
          /\ handed[a] \cap lost[a] = {}
      BY <1>4 DEF MailAccounted
    <2>2. CASE cur[c] # a
      BY <2>1, <2>2, <1>5, <1>6
    <2>3. CASE cur[c] = a
      <3>1. unread'[a] = unread[a] \ batch[c] /\ InHand(a)' = batch[c]
        BY <2>3, <1>5, <1>6
      <3>2. batch[c] \subseteq unread[a]
        BY <2>3, <1>7
      <3>. QED  BY <2>1, <3>1, <3>2
    <2>. QED  BY <2>2, <2>3
  <1>. QED  BY <1>1, <1>2, <1>8

\* It starts the run: from its hands to the run.
LEMMA StartStep ==
    ASSUME IInv, NEW c \in Caller, PassStart(c)
    PROVE  OnePass' /\ HeldMail' /\ OneTurnPerAgent' /\ MailAccounted'
  <1>. USE DEF IInv, TypeOK
  <1>1. PICK next \in {"visit", "idle"} :
          /\ at' = [at EXCEPT ![c] = next] /\ cur' = [cur EXCEPT ![c] = cur'[c]]
          /\ next = "visit" => inFlight' = inFlight
    BY AdvanceEffect DEF PassStart
  <1>2. OnePass'
    BY <1>1, MoveOnePass, Constants DEF PassStart
  <1>3. Parked(c) /\ at[c] = "start"
    BY DEF PassStart, Parked
  <1>4. \A d \in Caller : at'[d] \in {"visit", "idle"} /\ batch'[d] = {}
    BY <1>1, <1>3 DEF PassStart, OnePass, HeldMail, Parked, PassTypes, HeldTypes
  <1>5. HeldMail' /\ OneTurnPerAgent'
    BY <1>4 DEF HeldMail, OneTurnPerAgent
  <1>6. \A a \in Agent : InHand(a)' = {}
    BY <1>4 DEF InHand
  <1>7. \A a \in Agent : InHand(a) = IF cur[c] = a THEN batch[c] ELSE {}
    BY <1>3, InHandOfPass
  <1>8. \A a \in Agent : handed'[a] = IF cur[c] = a THEN handed[a] \cup batch[c] ELSE handed[a]
    BY DEF PassStart, MailTypes, PassTypes
  <1>9. MailAccounted'
    <2>. SUFFICES ASSUME NEW a \in Agent
         PROVE /\ sent[a] = unread[a] \cup InHand(a)' \cup handed'[a] \cup lost[a]
               /\ unread[a] \cap (InHand(a)' \cup handed'[a] \cup lost[a]) = {}
               /\ InHand(a)' \cap (handed'[a] \cup lost[a]) = {}
               /\ handed'[a] \cap lost[a] = {}
      BY DEF PassStart, MailAccounted
    <2>1. /\ sent[a] = unread[a] \cup InHand(a) \cup handed[a] \cup lost[a]
          /\ unread[a] \cap (InHand(a) \cup handed[a] \cup lost[a]) = {}
          /\ InHand(a) \cap (handed[a] \cup lost[a]) = {}
          /\ handed[a] \cap lost[a] = {}
      BY DEF MailAccounted
    <2>2. CASE cur[c] # a
      BY <2>1, <2>2, <1>6, <1>7, <1>8
    <2>3. CASE cur[c] = a
      <3>1. InHand(a) = batch[c] /\ InHand(a)' = {} /\ handed'[a] = handed[a] \cup batch[c]
        BY <2>3, <1>6, <1>7, <1>8
      <3>. QED  BY <2>1, <3>1
    <2>. QED  BY <2>2, <2>3
  <1>. QED  BY <1>2, <1>5, <1>9

\* The process dies, by exit or by crash: what the pass held is lost, or still
\* unread.  gone is what markRead had taken when it failed.
LEMMA DieStep ==
    ASSUME IInv, NEW gone \in [Agent -> SUBSET Msg], ProcessDies(gone),
           \A a \in Agent : /\ unread'[a] = unread[a] \ gone[a]
                            /\ gone[a] \subseteq unread[a]
    PROVE  OnePass' /\ HeldMail' /\ OneTurnPerAgent' /\ MailAccounted'
  <1>1. \A d \in Caller : at'[d] = "idle" /\ batch'[d] = {} /\ stepWaiter' = NoOne
    BY DEF ProcessDies, FreshProcess
  <1>2. OnePass'
    BY <1>1 DEF OnePass, Parked, NoOne, Caller
  <1>3. HeldMail' /\ OneTurnPerAgent'
    BY <1>1 DEF HeldMail, OneTurnPerAgent
  <1>4. \A a \in Agent : InHand(a)' = {}
    BY <1>1 DEF InHand
  <1>5. MailAccounted'
    <2>. SUFFICES ASSUME NEW a \in Agent
         PROVE /\ sent[a] = unread'[a] \cup InHand(a)' \cup handed[a] \cup lost'[a]
               /\ unread'[a] \cap (InHand(a)' \cup handed[a] \cup lost'[a]) = {}
               /\ InHand(a)' \cap (handed[a] \cup lost'[a]) = {}
               /\ handed[a] \cap lost'[a] = {}
      BY DEF ProcessDies, MailAccounted
    <2>1. /\ sent[a] = unread[a] \cup InHand(a) \cup handed[a] \cup lost[a]
          /\ unread[a] \cap (InHand(a) \cup handed[a] \cup lost[a]) = {}
          /\ InHand(a) \cap (handed[a] \cup lost[a]) = {}
          /\ handed[a] \cap lost[a] = {}
      BY DEF IInv, MailAccounted
    <2>2. /\ lost'[a] = lost[a] \cup InHand(a) \cup gone[a]
          /\ unread'[a] = unread[a] \ gone[a] /\ gone[a] \subseteq unread[a]
      BY DEF ProcessDies
    <2>. QED  BY <2>1, <2>2, <1>4
  <1>. QED  BY <1>2, <1>3, <1>5

LEMMA ExitStep ==
    ASSUME IInv, Exit \/ ForcedExit \/ Crash
    PROVE  OnePass' /\ HeldMail' /\ OneTurnPerAgent' /\ MailAccounted'
  <1>1. NoMail \in [Agent -> SUBSET Msg] /\ \A a \in Agent : NoMail[a] = {}
    BY DEF NoMail
  <1>2. ProcessDies(NoMail) /\ unread' = unread
    BY DEF Exit, ForcedExit, Crash
  <1>. QED  BY <1>1, <1>2, DieStep

\* A query of the pass fails.
LEMMA FailStep ==
    ASSUME IInv, NEW c \in Caller, PassFails(c)
    PROVE  OnePass' /\ HeldMail' /\ OneTurnPerAgent' /\ MailAccounted'
  <1>. USE DEF IInv, TypeOK
  <1> DEFINE orphaned == [NoMail EXCEPT ![cur[c]] = batch[c]]
  <1>1. PICK applied \in BOOLEAN :
          /\ applied => at[c] = "mark"
          /\ unread' = IF applied THEN [unread EXCEPT ![cur[c]] = @ \ batch[c]] ELSE unread
          /\ LET gone == IF applied THEN orphaned ELSE NoMail IN
             IF c = "main" THEN ProcessDies(gone)
             ELSE /\ lost' = [b \in Agent |-> lost[b] \cup gone[b]]
                  /\ at' = [at EXCEPT ![c] = "idle"] /\ batch' = [batch EXCEPT ![c] = {}]
                  /\ cur' = [cur EXCEPT ![c] = 1]
                  /\ UNCHANGED <<sent, handed, active, stepWaiter>>
    BY DEF PassFails, MarkRead
  <1> DEFINE gone == IF applied THEN orphaned ELSE NoMail
  <1>2. gone \in [Agent -> SUBSET Msg]
    BY DEF NoMail, HeldTypes, PassTypes
  <1>3. at[c] \in {"visit", "paid", "mark"} /\ Parked(c)
    BY DEF PassFails, Parked
  <1>4. \A a \in Agent : /\ gone[a] = IF applied /\ cur[c] = a THEN batch[c] ELSE {}
                         /\ gone[a] \subseteq unread[a]
                         /\ unread'[a] = unread[a] \ gone[a]
    BY <1>1 DEF NoMail, HeldMail, PassTypes, MailTypes
  <1>5. CASE c = "main"
    BY <1>1, <1>2, <1>4, <1>5, DieStep
  <1>6. CASE c # "main"
    <2>1. OnePass'
      BY <1>1, <1>3, <1>6, MoveOnePass, Constants
    <2>2. \A d \in Caller : at'[d] = "idle" /\ batch'[d] = {}
      BY <1>1, <1>3, <1>6 DEF OnePass, HeldMail, Parked, PassTypes, HeldTypes
    <2>3. HeldMail' /\ OneTurnPerAgent'
      BY <2>2 DEF HeldMail, OneTurnPerAgent
    <2>4. \A a \in Agent : InHand(a)' = {} /\ InHand(a) = {}
      BY <2>2, <1>3, InHandOfPass DEF InHand
    <2>5. MailAccounted'
      <3>. SUFFICES ASSUME NEW a \in Agent
           PROVE /\ sent[a] = unread'[a] \cup handed[a] \cup lost'[a]
                 /\ unread'[a] \cap (handed[a] \cup lost'[a]) = {}
                 /\ handed[a] \cap lost'[a] = {}
        BY <1>1, <1>6, <2>4 DEF MailAccounted
      <3>1. /\ sent[a] = unread[a] \cup handed[a] \cup lost[a]
            /\ unread[a] \cap (handed[a] \cup lost[a]) = {}
            /\ handed[a] \cap lost[a] = {}
        BY <2>4 DEF MailAccounted
      <3>2. lost'[a] = lost[a] \cup gone[a]
        BY <1>1, <1>6
      <3>. QED  BY <1>4, <3>1, <3>2
    <2>. QED  BY <2>1, <2>3, <2>5
  <1>. QED  BY <1>5, <1>6

\* New mail is new to every agent.
LEMMA PostStep ==
    ASSUME IInv, NEW m \in Msg, NEW to \in SUBSET Agent, Post(m, to)
    PROVE  OnePass' /\ HeldMail' /\ OneTurnPerAgent' /\ MailAccounted'
  <1>. USE DEF IInv, TypeOK
  <1>1. OnePass' /\ OneTurnPerAgent'
    BY DEF Post, OnePass, OneTurnPerAgent, Parked
  <1>2. HeldMail'
    BY DEF Post, HeldMail, MailTypes, PassTypes
  <1>3. \A a \in Agent : InHand(a)' = InHand(a)
    BY DEF Post, InHand
  <1>4. MailAccounted'
    BY <1>3 DEF Post, MailAccounted, MailTypes
  <1>. QED  BY <1>1, <1>2, <1>4

-----------------------------------------------------------------------------
LEMMA InitInv == Init => IInv
  <1> SUFFICES ASSUME Init PROVE IInv
    OBVIOUS
  <1>1. TypeOK
    BY InitType
  <1>2. OnePass /\ HeldMail /\ OneTurnPerAgent
    BY DEF Init, OnePass, HeldMail, OneTurnPerAgent, Parked, NoOne, Caller
  <1>3. \A a \in Agent : InHand(a) = {}
    BY DEF Init, InHand
  <1>4. MailAccounted
    BY <1>3 DEF Init, MailAccounted
  <1>. QED  BY <1>1, <1>2, <1>4 DEF IInv

LEMMA InvStep == IInv /\ [Next]_vars => IInv'
  <1> SUFFICES ASSUME IInv, [Next]_vars PROVE IInv'
    OBVIOUS
  <1> DEFINE Rest == OnePass /\ HeldMail /\ OneTurnPerAgent /\ MailAccounted
  <1>1. TypeOK'
    BY TypeStep DEF IInv
  <1>2. ASSUME QuietNext PROVE Rest'
    BY <1>2, QuietStep, FrameStep DEF IInv
  <1>3. ASSUME NEW c \in Caller, PassList(c) \/ PassMark(c) \/ PassStart(c) \/ PassFails(c)
        PROVE  Rest'
    BY <1>3, ListStep, MarkStep, StartStep, FailStep
  <1>4. ASSUME Exit \/ ForcedExit \/ Crash PROVE Rest'
    BY <1>4, ExitStep
  <1>5. ASSUME NEW m \in Msg, NEW to \in SUBSET Agent, Post(m, to) PROVE Rest'
    BY <1>5, PostStep
  <1>6. Rest'
    BY <1>2, <1>3, <1>4, <1>5, <1>1
    DEF IInv, QuietNext, Next, PassNext, PassStep, MainNext, EnvNext
  <1>. QED  BY <1>1, <1>6 DEF IInv

\* The invariants of the dispatcher, for every roster, mailbox and environment.
THEOREM Invariant == Spec => []IInv
  <1>. QED  BY InitInv, InvStep, PTL DEF Spec

\* There is never more than one dispatch pass, and the monitor's step resolver
\* belongs to the pass that waits for it (orchestrator-dispatch.ts:46-49).
THEOREM OnlyOnePass == Spec => []OnePass
  <1>1. IInv => OnePass
    BY DEF IInv
  <1>. QED  BY <1>1, Invariant, PTL

\* A pass never starts a turn beside a running turn of the same agent.
THEOREM OneTurn == Spec => []OneTurnPerAgent
  <1>1. IInv => OneTurnPerAgent
    BY DEF IInv
  <1>. QED  BY <1>1, Invariant, PTL

\* No mail is handed over twice, and none is marked read without being handed to a
\* turn unless a failure between markRead and startRun intervenes.
THEOREM MailHandedOnce == Spec => []MailAccounted
  <1>1. IInv => MailAccounted
    BY DEF IInv
  <1>. QED  BY <1>1, Invariant, PTL

\* The mail a pass has listed stays unread until that pass marks it.
THEOREM MailHeld == Spec => []HeldMail
  <1>1. IInv => HeldMail
    BY DEF IInv
  <1>. QED  BY <1>1, Invariant, PTL

-----------------------------------------------------------------------------
(* The dispatcher implements MailDelivery.                                   *)

LEMMA QuietTurns ==
    ASSUME QuietNext
    PROVE  active' = active \/ \E a \in active : active' = active \ {a}
  BY DEF QuietNext, PassVisit, PassBudgetGate, RunNext, LlmAnswer, RunEnd, RunTimeout,
         IdleNext, RetryFires, Scan, ScanFails, CooldownEnds, TimerFires, Start, Wake,
         StreamFails, BackoffOver, CliScan, CloseLoop, Finish, PauseAgent, ResumeAgent,
         Step, ToggleStep, CostPause, ResumeBudget, StopRoute, Sigterm, vars

\* Between the listing and the marking of mail nothing visible happens.
LEMMA ListMarkStutter ==
    ASSUME IInv, NEW c \in Caller, PassList(c) \/ PassMark(c)
    PROVE  UNCHANGED <<Pending, handed, lost, active>>
  <1>. USE DEF IInv, TypeOK
  <1>1. CASE PassList(c)
    <2>1. \A d \in Caller : at[d] # "start" /\ at'[d] # "start"
      BY <1>1, EndPassEffect, AdvanceEffect, ListStep
      DEF PassList, OnePass, Parked, PassTypes
    <2>. QED  BY <1>1, <2>1 DEF PassList, Pending, InHand
  <1>2. CASE PassMark(c)
    <2>1. Parked(c) /\ Parked(c)' /\ at[c] = "mark" /\ at'[c] = "start"
      BY <1>2 DEF PassMark, Parked, PassTypes
    <2>2. \A a \in Agent : InHand(a) = {}
      BY <2>1, InHandOfPass
    <2>3. \A a \in Agent : InHand(a)' = IF cur[c] = a THEN batch[c] ELSE {}
      BY <1>2, <2>1, MarkStep DEF PassMark, InHand, OnePass, Parked, HeldTypes
    <2>4. \A a \in Agent : unread'[a] = IF cur[c] = a THEN unread[a] \ batch[c] ELSE unread[a]
      BY <1>2 DEF PassMark, MarkRead, MailTypes, PassTypes
    <2>5. batch[c] \subseteq unread[cur[c]]
      BY <2>1 DEF HeldMail
    <2>6. \A a \in Agent : unread'[a] \cup InHand(a)' = unread[a] \cup InHand(a)
      BY <2>2, <2>3, <2>4, <2>5
    <2>. QED  BY <1>2, <2>6 DEF PassMark, Pending
  <1>. QED  BY <1>1, <1>2

\* The start of a run is the start of a turn with the mail of that pass.
LEMMA StartBegins ==
    ASSUME IInv, NEW c \in Caller, PassStart(c)
    PROVE  cur[c] \in Agent /\ Delivery!BeginTurn(cur[c], batch[c])
  <1>. USE DEF IInv, TypeOK
  <1>1. Parked(c) /\ at[c] = "start" /\ cur[c] \in Agent
    BY DEF PassStart, Parked, PassTypes
  <1>2. \A d \in Caller : at'[d] # "start"
    BY <1>1, AdvanceEffect DEF PassStart, OnePass, Parked, PassTypes
  <1>3. \A a \in Agent : InHand(a)' = {}
    BY <1>2 DEF InHand
  <1>4. \A a \in Agent : InHand(a) = IF cur[c] = a THEN batch[c] ELSE {}
    BY <1>1, InHandOfPass
  <1>5. cur[c] \notin active /\ batch[c] # {}
    BY <1>1 DEF OneTurnPerAgent, HeldMail
  <1>6. \A a \in Agent : unread[a] \cap InHand(a) = {}
    BY DEF MailAccounted
  <1>7. \A a \in Agent : Pending'[a] = IF cur[c] = a THEN Pending[a] \ batch[c] ELSE Pending[a]
    BY <1>3, <1>4, <1>6 DEF Pending, PassStart
  <1>8. Pending' = [Pending EXCEPT ![cur[c]] = @ \ batch[c]]
    BY <1>7 DEF Pending
  <1>9. batch[c] \subseteq Pending[cur[c]]
    BY <1>1, <1>4 DEF Pending
  <1>. QED
    BY <1>1, <1>5, <1>8, <1>9 DEF PassStart, Delivery!BeginTurn

\* The process ends with at most one pass at work: one agent's mail is lost.
LEMMA DieFails ==
    ASSUME IInv, NEW a \in Agent, NEW gone \in [Agent -> SUBSET Msg], ProcessDies(gone),
           \A b \in Agent : /\ unread'[b] = unread[b] \ gone[b]
                            /\ gone[b] \subseteq unread[b]
                            /\ b # a => gone[b] = {} /\ InHand(b) = {}
    PROVE  Delivery!Fail(a, InHand(a) \cup gone[a])
  <1>1. \A b \in Agent : InHand(b)' = {}
    BY DEF ProcessDies, FreshProcess, InHand
  <1>2. \A b \in Agent : unread[b] \cap InHand(b) = {}
    BY DEF IInv, MailAccounted
  <1>3. lost' = [b \in Agent |-> lost[b] \cup InHand(b) \cup gone[b]]
    BY DEF ProcessDies
  <1>4. Pending' = [b \in Agent |-> unread[b] \ gone[b]]
    BY <1>1 DEF Pending
  <1>5. lost \in [Agent -> SUBSET Msg]
    BY DEF IInv, TypeOK, MailTypes
  <1>6. lost' = [lost EXCEPT ![a] = @ \cup (InHand(a) \cup gone[a])]
    <2>1. ASSUME NEW b \in Agent, b # a
          PROVE  lost[b] \cup InHand(b) \cup gone[b] = lost[b]
      <3>1. InHand(b) = {} /\ gone[b] = {}
        BY <2>1
      <3>. QED  BY ONLY <3>1
    <2>2. lost[a] \cup InHand(a) \cup gone[a] = lost[a] \cup (InHand(a) \cup gone[a])
      OBVIOUS
    <2>. QED  BY ONLY <1>3, <1>5, <2>1, <2>2
  <1>7. Pending' = [Pending EXCEPT ![a] = @ \ (InHand(a) \cup gone[a])]
    <2>1. ASSUME NEW b \in Agent, b # a
          PROVE  unread[b] \ gone[b] = unread[b] \cup InHand(b)
      <3>1. InHand(b) = {} /\ gone[b] = {}
        BY <2>1
      <3>. QED  BY ONLY <3>1
    <2>2. unread[a] \ gone[a]
            = (unread[a] \cup InHand(a)) \ (InHand(a) \cup gone[a])
      <3>1. unread[a] \cap InHand(a) = {}
        BY <1>2
      <3>. QED  BY ONLY <3>1
    <2>. QED  BY ONLY <1>4, <2>1, <2>2 DEF Pending
  <1>8. InHand(a) \cup gone[a] \subseteq Pending[a]
    <2>1. gone[a] \subseteq unread[a]
      OBVIOUS
    <2>. QED  BY ONLY <2>1, a \in Agent DEF Pending
  <1>. QED
    BY <1>6, <1>7, <1>8 DEF ProcessDies, FreshProcess, Delivery!Fail

LEMMA ExitFails ==
    ASSUME IInv, Exit \/ ForcedExit \/ Crash
    PROVE  \E a \in Agent : \E mail \in SUBSET Pending[a] : Delivery!Fail(a, mail)
  <1>. USE DEF IInv, TypeOK
  <1>1. NoMail \in [Agent -> SUBSET Msg] /\ \A a \in Agent : NoMail[a] = {}
    BY DEF NoMail
  <1>2. ProcessDies(NoMail) /\ unread' = unread
    BY DEF Exit, ForcedExit, Crash
  <1>3. PICK a \in Agent : \A b \in Agent : b # a => InHand(b) = {}
    <2>1. CASE \E c \in Caller : Parked(c)
      <3>1. PICK c \in Caller : Parked(c)
        BY <2>1
      <3>2. cur[c] \in Agent /\ \A b \in Agent : b # cur[c] => InHand(b) = {}
        BY <3>1, InHandOfPass DEF PassTypes
      <3>. QED  BY <3>2
    <2>2. CASE \A c \in Caller : ~Parked(c)
      BY <2>2, Constants DEF InHand, Parked
    <2>. QED  BY <2>1, <2>2
  <1>4. Delivery!Fail(a, InHand(a) \cup NoMail[a])
    BY <1>1, <1>2, <1>3, DieFails
  <1>5. InHand(a) \cup NoMail[a] \in SUBSET Pending[a]
    BY <1>4 DEF Delivery!Fail
  <1>. QED  BY <1>4, <1>5

LEMMA PassFailsFails ==
    ASSUME IInv, NEW c \in Caller, PassFails(c)
    PROVE  \E a \in Agent : \E mail \in SUBSET Pending[a] : Delivery!Fail(a, mail)
  <1>. USE DEF IInv, TypeOK
  <1> DEFINE a == cur[c]
             orphaned == [NoMail EXCEPT ![cur[c]] = batch[c]]
  <1>1. PICK applied \in BOOLEAN :
          /\ applied => at[c] = "mark"
          /\ unread' = IF applied THEN [unread EXCEPT ![cur[c]] = @ \ batch[c]] ELSE unread
          /\ LET gone == IF applied THEN orphaned ELSE NoMail IN
             IF c = "main" THEN ProcessDies(gone)
             ELSE /\ lost' = [b \in Agent |-> lost[b] \cup gone[b]]
                  /\ at' = [at EXCEPT ![c] = "idle"] /\ batch' = [batch EXCEPT ![c] = {}]
                  /\ UNCHANGED <<sent, handed, active>>
    BY DEF PassFails, MarkRead
  <1> DEFINE gone == IF applied THEN orphaned ELSE NoMail
  <1>2. gone \in [Agent -> SUBSET Msg] /\ a \in Agent
    BY DEF NoMail, HeldTypes, PassTypes
  <1>3. Parked(c) /\ at[c] # "start"
    BY DEF PassFails, Parked
  <1>4. \A b \in Agent : InHand(b) = {}
    BY <1>3, InHandOfPass
  <1>5. \A b \in Agent : /\ gone[b] = IF applied /\ a = b THEN batch[c] ELSE {}
                         /\ gone[b] \subseteq unread[b]
                         /\ unread'[b] = unread[b] \ gone[b]
    BY <1>1 DEF NoMail, HeldMail, PassTypes, MailTypes
  <1>6. Delivery!Fail(a, InHand(a) \cup gone[a])
    <2>1. CASE c = "main"
      BY <1>1, <1>2, <1>4, <1>5, <2>1, DieFails
    <2>2. CASE c # "main"
      <3>1. \A d \in Caller : at'[d] # "start"
        BY <1>1, <1>3, <2>2 DEF OnePass, Parked, PassTypes
      <3>2. \A b \in Agent : InHand(b)' = {}
        BY <3>1 DEF InHand
      <3>3. Pending' = [Pending EXCEPT ![a] = @ \ (InHand(a) \cup gone[a])]
        <4>1. \A b \in Agent : Pending[b] = unread[b] /\ Pending'[b] = unread'[b]
          BY <3>2, <1>4 DEF Pending
        <4>2. Pending'[a] = Pending[a] \ (InHand(a) \cup gone[a])
          <5>1. InHand(a) = {} /\ unread'[a] = unread[a] \ gone[a]
            BY <1>2, <1>4, <1>5
          <5>. QED  BY <5>1, <4>1, <1>2
        <4>3. \A b \in Agent : b # a => Pending'[b] = Pending[b]
          <5>1. ASSUME NEW b \in Agent, b # a PROVE unread'[b] = unread[b]
            <6>1. gone[b] = {} /\ unread'[b] = unread[b] \ gone[b]
              BY <1>5, <5>1
            <6>. QED  BY <6>1
          <5>. QED  BY <5>1, <4>1
        <4>. QED  BY <4>2, <4>3, <1>2 DEF Pending
      <3>4. lost' = [lost EXCEPT ![a] = @ \cup (InHand(a) \cup gone[a])]
        <4>1. lost' = [b \in Agent |-> lost[b] \cup gone[b]]
          BY <1>1, <2>2
        <4>2. lost'[a] = lost[a] \cup (InHand(a) \cup gone[a])
          BY <4>1, <1>2, <1>4
        <4>3. \A b \in Agent : b # a => lost'[b] = lost[b]
          BY <4>1, <1>5, <1>2
        <4>. QED  BY <4>1, <4>2, <4>3, <1>2 DEF MailTypes
      <3>5. InHand(a) \cup gone[a] \subseteq Pending[a]
        BY <1>2, <1>5 DEF Pending
      <3>. QED
        BY <1>1, <2>2, <3>3, <3>4, <3>5 DEF Delivery!Fail
    <2>. QED  BY <2>1, <2>2
  <1>7. InHand(a) \cup gone[a] \in SUBSET Pending[a]
    BY <1>6 DEF Delivery!Fail
  <1>. QED  BY <1>2, <1>6, <1>7

LEMMA PostPosts ==
    ASSUME IInv, NEW m \in Msg, NEW to \in SUBSET Agent, Post(m, to)
    PROVE  Delivery!Post(m, to)
  <1>. USE DEF IInv, TypeOK
  <1>1. \A a \in Agent : m \notin Pending[a] \cup handed[a] \cup lost[a]
    BY DEF Post, MailAccounted, Pending
  <1>2. \A a \in Agent : InHand(a)' = InHand(a)
    BY DEF Post, InHand
  <1>3. Pending' = [a \in Agent |-> IF a \in to THEN Pending[a] \cup {m} ELSE Pending[a]]
    BY <1>2 DEF Post, Pending
  <1>. QED  BY <1>1, <1>3 DEF Post, Delivery!Post

LEMMA RefineStep == IInv /\ [Next]_vars => [Delivery!Next]_(Delivery!vars)
  <1> SUFFICES ASSUME IInv, [Next]_vars PROVE Delivery!Next \/ UNCHANGED Delivery!vars
    OBVIOUS
  <1> DEFINE Goal == Delivery!Next \/ UNCHANGED Delivery!vars
  <1>1. ASSUME QuietNext PROVE Goal
    <2>1. /\ SameHands /\ active' \subseteq active
          /\ UNCHANGED <<sent, unread, handed, lost, batch>>
      BY <1>1, QuietStep DEF IInv
    <2>2. \A a \in Agent : InHand(a)' = InHand(a)
      BY <2>1 DEF InHand, SameHands
    <2>3. Pending' = Pending
      BY <2>1, <2>2 DEF Pending
    <2>4. CASE active' = active
      BY <2>1, <2>3, <2>4 DEF Delivery!vars
    <2>5. ASSUME NEW a \in active, active' = active \ {a} PROVE Goal
      <3>1. a \in Agent
        BY DEF IInv, TypeOK, RunTypes
      <3>2. Delivery!EndTurn(a)
        BY <2>1, <2>3, <2>5 DEF Delivery!EndTurn
      <3>. QED  BY <3>1, <3>2 DEF Delivery!Next
    <2>. QED  BY <1>1, <2>4, <2>5, QuietTurns
  <1>2. ASSUME NEW c \in Caller, PassList(c) \/ PassMark(c) PROVE Goal
    BY <1>2, ListMarkStutter DEF Delivery!vars
  <1>3. ASSUME NEW c \in Caller, PassStart(c) PROVE Goal
    <2>1. cur[c] \in Agent /\ Delivery!BeginTurn(cur[c], batch[c])
      BY <1>3, StartBegins
    <2>2. batch[c] \in SUBSET Pending[cur[c]]
      BY <2>1 DEF Delivery!BeginTurn
    <2>. QED  BY <2>1, <2>2 DEF Delivery!Next
  <1>4. ASSUME NEW c \in Caller, PassFails(c) PROVE Goal
    BY <1>4, PassFailsFails DEF Delivery!Next
  <1>5. ASSUME Exit \/ ForcedExit \/ Crash PROVE Goal
    BY <1>5, ExitFails DEF Delivery!Next
  <1>6. ASSUME NEW m \in Msg, NEW to \in SUBSET Agent, Post(m, to) PROVE Goal
    BY <1>6, PostPosts, Constants DEF Delivery!Next
  <1>. QED
    BY <1>1, <1>2, <1>3, <1>4, <1>5, <1>6
    DEF QuietNext, Next, PassNext, PassStep, MainNext, EnvNext

LEMMA RefineInit == Init => Delivery!Init
  <1> SUFFICES ASSUME Init PROVE Delivery!Init
    OBVIOUS
  <1>1. \A a \in Agent : InHand(a) = {}
    BY DEF Init, InHand
  <1>. QED  BY <1>1 DEF Init, Pending, Delivery!Init

\* Whatever the interleaving of passes, turns, gates, failures and crashes, the
\* dispatcher gives mail as MailDelivery promises.
THEOREM KeepsDelivery == Spec => DeliveryKept
  <1>. QED
    BY RefineInit, RefineStep, Invariant, PTL DEF Spec, DeliveryKept, Delivery!Spec

-----------------------------------------------------------------------------
(* Mail never waits in a sleeping daemon.                                    *)

\* What will make the daemon look at a's mail without the poll: it stops or
\* starts, a run's end, a seen insert, a timer, a query of checkIdle still to
\* come to a, or a pass still to come to a or to be repeated.
Promised(a) ==
    \/ signal \/ main = "down" \/ active # {} \/ event \/ retry \/ a \in timer
    \/ \E b \in Agent : b <= a /\ scans[b] > 0
    \/ \E c \in Caller : Parked(c) /\ (again \/ cur[c] <= a)

\* The loop awaits its own pass at a call site, the daemon's loop ends by a
\* signal only, and the flag of a pass in flight stands for a pass.
MainPlaces ==
    /\ Parked("main") => main \in {"dispatch", "redispatch"}
    /\ main \in {"wait", "backoff"} => Daemon
    /\ Daemon => main \notin {"redispatch", "drain", "scan"}
    /\ Daemon /\ main \in {"closing", "settling", "ended"} => signal
    /\ inFlight => \E c \in Caller : Parked(c)

\* The daemon will look at the mail of a, or nobody but the poll could have told it.
Noticed(a) == unread[a] \subseteq gap[a] \/ Promised(a)

Watched == Daemon => \A a \in Agent \ (Inactive \cup paused) : Noticed(a)

\* A pass that ends while another is asked for is repeated, unless the daemon
\* stops.
LEMMA EndPassPromises ==
    ASSUME TypeOK, NEW c \in Caller, NEW running, EndPass(c, running), again,
           signal' = signal, NEW a \in Agent
    PROVE  Promised(a)'
  <1>1. CASE signal
    BY <1>1 DEF Promised
  <1>2. CASE ~signal
    <2>1. at'[c] = "visit" /\ cur'[c] = 1
      BY <1>2 DEF EndPass, TypeOK, PassTypes
    <2>2. 1 <= a
      BY DEF Agent
    <2>. QED  BY <2>1, <2>2 DEF Promised, Parked
  <1>. QED  BY <1>1, <1>2

\* A pass goes on to the agents behind the one it leaves.
LEMMA AdvancePromises ==
    ASSUME TypeOK, NEW c \in Caller, NEW running, Advance(c, running),
           signal' = signal, NEW a \in Agent, again \/ cur[c] < a
    PROVE  Promised(a)'
  <1>1. CASE ~(cur[c] < NAgents)
    <2>1. again
      BY <1>1, DispatcherAssumption DEF Agent, TypeOK, PassTypes
    <2>. QED  BY <1>1, <2>1, EndPassPromises DEF Advance
  <1>2. CASE cur[c] < NAgents
    <2>1. at'[c] = "visit" /\ cur'[c] = cur[c] + 1 /\ again' = again
      BY <1>2 DEF Advance, TypeOK, PassTypes
    <2>2. again' \/ cur'[c] <= a
      BY <2>1 DEF TypeOK, PassTypes, Agent
    <2>. QED  BY <2>1, <2>2 DEF Promised, Parked
  <1>. QED  BY <1>1, <1>2

\* A call of dispatchReady() reaches every agent: by its own pass, or by the
\* repetition of the one in flight.
LEMMA DispatchPromises ==
    ASSUME TypeOK, MainPlaces, NEW c \in Caller, DispatchReady(c), signal' = signal,
           NEW a \in Agent
    PROVE  Promised(a)'
  <1>1. CASE inFlight
    <2>1. PICK d \in Caller : Parked(d)
      BY <1>1 DEF MainPlaces
    <2>2. again' /\ at' = at
      BY <1>1 DEF DispatchReady
    <2>. QED  BY <2>1, <2>2 DEF Promised, Parked
  <1>2. CASE ~inFlight /\ signal
    BY <1>2 DEF Promised
  <1>3. CASE ~inFlight /\ ~signal
    <2>1. at'[c] = "visit" /\ cur'[c] = 1
      BY <1>3 DEF DispatchReady, TypeOK, PassTypes
    <2>2. 1 <= a
      BY DEF Agent
    <2>. QED  BY <2>1, <2>2 DEF Promised, Parked
  <1>. QED  BY <1>1, <1>2, <1>3

\* Where the loop is after a pass, or a step of it, has gone on.
LEMMA EndPassPlaces ==
    ASSUME TypeOK, OnePass, MainPlaces, NEW c \in Caller, NEW running, Parked(c),
           EndPass(c, running), UNCHANGED <<env, signal>>
    PROVE  MainPlaces'
  <1>1. Daemon' <=> Daemon
    BY DEF Daemon
  <1>2. CASE again /\ ~signal
    <2>1. at' = [at EXCEPT ![c] = "visit"] /\ main' = main
      BY <1>2 DEF EndPass
    <2>. QED  BY <1>1, <2>1 DEF MainPlaces, Parked, TypeOK, PassTypes
  <1>3. CASE ~(again /\ ~signal)
    <2>1. inFlight' = FALSE /\ at' = [at EXCEPT ![c] = "idle"]
      BY <1>3 DEF EndPass
    <2>2. CASE c = "main"
      <3>1. main' = AfterDispatch(main, running)
        BY <1>3, <2>2 DEF EndPass, MainReturns
      <3>2. ~Parked("main")'
        BY <2>1, <2>2 DEF Parked, TypeOK, PassTypes
      <3>. QED  BY <1>1, <2>1, <3>1, <3>2 DEF MainPlaces, AfterDispatch
    <2>3. CASE c # "main"
      <3>1. main' = main
        BY <1>3, <2>3 DEF EndPass
      <3>2. ~Parked("main")'
        BY <2>1, <2>3, Constants DEF OnePass, Parked, TypeOK, PassTypes
      <3>. QED  BY <1>1, <2>1, <3>1, <3>2 DEF MainPlaces
    <2>. QED  BY <2>2, <2>3
  <1>. QED  BY <1>2, <1>3

\* ... or to its next agent.
LEMMA AdvancePlaces ==
    ASSUME TypeOK, OnePass, MainPlaces, NEW c \in Caller, NEW running, Parked(c),
           Advance(c, running), UNCHANGED <<env, signal>>
    PROVE  MainPlaces'
  <1>1. CASE cur[c] < NAgents
    <2>1. at' = [at EXCEPT ![c] = "visit"] /\ main' = main /\ inFlight' = inFlight
      BY <1>1 DEF Advance
    <2>. QED  BY <2>1 DEF MainPlaces, Parked, Daemon, TypeOK, PassTypes
  <1>2. CASE ~(cur[c] < NAgents)
    BY <1>2, EndPassPlaces DEF Advance
  <1>. QED  BY <1>1, <1>2

\* A pass moves to another place of its iteration.
LEMMA MovePlaces ==
    ASSUME TypeOK, MainPlaces, NEW c \in Caller, Parked(c), NEW p, p # "idle",
           at' = [at EXCEPT ![c] = p], UNCHANGED <<inFlight, main, env, signal>>
    PROVE  MainPlaces'
  BY DEF MainPlaces, Parked, Daemon, TypeOK, PassTypes

\* A kicked pass leaves the loop where it is.
LEMMA KickPlaces ==
    ASSUME TypeOK, MainPlaces, DispatchReady("kick"), UNCHANGED <<main, env, signal>>
    PROVE  MainPlaces'
  <1>1. at'["main"] = at["main"]
    BY Constants DEF DispatchReady, TypeOK, PassTypes
  <1>2. inFlight' => \E c \in Caller : Parked(c)'
    BY Constants DEF DispatchReady, MainPlaces, Parked, TypeOK, PassTypes
  <1>. QED  BY <1>1, <1>2 DEF MainPlaces, Parked, Daemon

\* The loop dispatches: it awaits its pass, or is past the call.
LEMMA MainDispatchPlaces ==
    ASSUME TypeOK, MainPlaces, ~Parked("main"), NEW running,
           NEW from \in {"dispatch", "redispatch"}, Daemon => from = "dispatch",
           MainDispatch(from, running), UNCHANGED <<env, signal>>
    PROVE  MainPlaces'
  <1>1. Daemon' <=> Daemon
    BY DEF Daemon
  <1>2. inFlight' => \E c \in Caller : Parked(c)'
    BY Constants DEF MainDispatch, DispatchReady, MainPlaces, Parked, TypeOK, PassTypes
  <1>3. CASE at'["main"] = "visit" /\ at["main"] = "idle"
    <2>1. main' = from
      BY <1>3 DEF MainDispatch
    <2>. QED  BY <1>1, <1>2, <2>1 DEF MainPlaces
  <1>4. CASE ~(at'["main"] = "visit" /\ at["main"] = "idle")
    <2>1. main' = AfterDispatch(from, running)
      BY <1>4 DEF MainDispatch, MainReturns
    <2>2. at'["main"] = at["main"]
      BY <1>4 DEF MainDispatch, DispatchReady, Parked, TypeOK, PassTypes
    <2>. QED  BY <1>1, <1>2, <2>1, <2>2 DEF MainPlaces, AfterDispatch, Parked
  <1>. QED  BY <1>3, <1>4

\* A new process has no pass.
LEMMA PlacesInit == Init => MainPlaces
  BY Constants DEF Init, MainPlaces, Parked, Daemon

\* The process has gone.
LEMMA GonePlaces ==
    ASSUME FreshProcess
    PROVE  MainPlaces'
  BY Constants DEF FreshProcess, MainPlaces, Parked

\* Every step keeps the loop in its places.
LEMMA PlacesStep ==
    ASSUME TypeOK, OnePass, MainPlaces, [Next]_vars
    PROVE  MainPlaces'
  <1>1. ASSUME NEW c \in Caller, PassVisit(c) PROVE MainPlaces'
    <2>1. Parked(c) /\ UNCHANGED <<env, signal>>
      BY <1>1 DEF PassVisit, Parked
    <2>2. CASE Advance(c, active)
      BY <2>1, <2>2, AdvancePlaces
    <2>3. CASE EndPass(c, active)
      BY <2>1, <2>3, EndPassPlaces
    <2>4. CASE /\ at' = [at EXCEPT ![c] = IF stepEnabled THEN "step" ELSE "stepped"]
               /\ UNCHANGED <<inFlight, again, cur, loopVars>>
      <3>1. PICK p \in {"step", "stepped"} : at' = [at EXCEPT ![c] = p]
        BY <2>4
      <3>. QED  BY <2>1, <2>4, <3>1, MovePlaces
    <2>. QED  BY <1>1, <2>2, <2>3, <2>4 DEF PassVisit
  <1>2. ASSUME NEW c \in Caller, PassBudgetGate(c) PROVE MainPlaces'
    <2>1. Parked(c) /\ UNCHANGED <<env, signal>>
      BY <1>2 DEF PassBudgetGate, Parked
    <2>2. CASE EndPass(c, active)
      BY <2>1, <2>2, EndPassPlaces
    <2>3. CASE /\ at' = [at EXCEPT ![c] = IF budgetPaused THEN "budget" ELSE "paid"]
               /\ UNCHANGED <<inFlight, again, cur, loopVars>>
      <3>1. PICK p \in {"budget", "paid"} : at' = [at EXCEPT ![c] = p]
        BY <2>3
      <3>. QED  BY <2>1, <2>3, <3>1, MovePlaces
    <2>. QED  BY <1>2, <2>2, <2>3 DEF PassBudgetGate
  <1>3. ASSUME NEW c \in Caller, PassList(c) PROVE MainPlaces'
    <2>1. Parked(c) /\ UNCHANGED <<env, signal>>
      BY <1>3 DEF PassList, Parked
    <2>2. CASE EndPass(c, active)
      BY <2>1, <2>2, EndPassPlaces
    <2>3. CASE Advance(c, active)
      BY <2>1, <2>3, AdvancePlaces
    <2>4. CASE /\ at' = [at EXCEPT ![c] = "mark"]
               /\ UNCHANGED <<inFlight, again, cur, loopVars>>
      BY <2>1, <2>4, MovePlaces
    <2>. QED  BY <1>3, <2>2, <2>3, <2>4 DEF PassList
  <1>4. ASSUME NEW c \in Caller, PassMark(c) PROVE MainPlaces'
    BY <1>4, MovePlaces DEF PassMark, Parked
  <1>5. ASSUME NEW c \in Caller, PassStart(c) PROVE MainPlaces'
    BY <1>5, AdvancePlaces DEF PassStart, Parked
  <1>6. ASSUME NEW c \in Caller, PassFails(c) PROVE MainPlaces'
    <2>1. CASE c = "main"
      BY <1>6, <2>1, GonePlaces DEF PassFails, ProcessDies
    <2>2. CASE c # "main"
      <3>1. /\ inFlight' = FALSE /\ at' = [at EXCEPT ![c] = "idle"]
            /\ main' = main /\ env' = env /\ signal' = signal
        BY <1>6, <2>2 DEF PassFails
      <3>2. at'["main"] = at["main"]
        BY <2>2, <3>1, Constants DEF TypeOK, PassTypes
      <3>. QED  BY <3>1, <3>2 DEF MainPlaces, Parked, Daemon
    <2>. QED  BY <2>1, <2>2
  <1>7. ASSUME NEW a \in Agent, RunEnd(a) PROVE MainPlaces'
    <2>1. CASE main = "drain" /\ snap = {a}
      <3>1. ~Parked("main") /\ ~Daemon
        BY <2>1 DEF MainPlaces
      <3>. QED
        BY <1>7, <2>1, <3>1, MainDispatchPlaces DEF RunEnd
    <2>2. CASE ~(main = "drain" /\ snap = {a})
      BY <1>7, <2>2 DEF RunEnd, MainPlaces, Parked, Daemon
    <2>. QED  BY <2>1, <2>2
  <1>8. ASSUME NEW a \in Agent, Scan(a) PROVE MainPlaces'
    <2>1. CASE unread[a] # {}
      BY <1>8, <2>1, KickPlaces DEF Scan
    <2>2. CASE unread[a] = {}
      BY <1>8, <2>2 DEF Scan, MainPlaces, Parked, Daemon
    <2>. QED  BY <2>1, <2>2
  <1>9. ASSUME NEW a \in Agent, TimerFires(a) PROVE MainPlaces'
    BY <1>9, KickPlaces DEF TimerFires
  <1>10. CASE Start
    <2>1. ~Parked("main") /\ UNCHANGED <<env, signal>>
      BY <1>10 DEF Start, MainPlaces
    <2>. QED  BY <1>10, <2>1, MainDispatchPlaces DEF Start
  <1>11. CASE Wake
    <2>1. ~Parked("main") /\ Daemon /\ UNCHANGED <<env, signal>>
      BY <1>11 DEF Wake, MainPlaces
    <2>2. CASE signal
      BY <1>11, <2>1, <2>2 DEF Wake, MainPlaces, Parked, Daemon
    <2>3. CASE ~signal
      <3>1. /\ DispatchReady("main")
            /\ main' = IF inFlight THEN AfterDispatch("dispatch", active) ELSE "dispatch"
        BY <1>11, <2>3 DEF Wake
      <3>2. inFlight' => \E c \in Caller : Parked(c)'
        BY <3>1, Constants DEF DispatchReady, MainPlaces, Parked, TypeOK, PassTypes
      <3>3. CASE inFlight
        <4>1. main' = "wait" /\ at' = at
          BY <2>1, <2>3, <3>1, <3>3 DEF AfterDispatch, DispatchReady
        <4>. QED  BY <2>1, <3>2, <4>1 DEF MainPlaces, Parked, Daemon
      <3>4. CASE ~inFlight
        BY <2>1, <3>1, <3>2, <3>4 DEF MainPlaces, Daemon
      <3>. QED  BY <3>3, <3>4
    <2>. QED  BY <2>2, <2>3
  <1>12. CASE StreamFails \/ BackoffOver \/ CloseLoop
    BY <1>12 DEF StreamFails, BackoffOver, CloseLoop, MainPlaces, Parked, Daemon
  <1>13. CASE CliScan
    <2>1. ~Parked("main") /\ ~Daemon /\ UNCHANGED <<env, signal>>
      BY <1>13 DEF CliScan, MainPlaces
    <2>2. CASE unread[look] # {}
      BY <1>13, <2>1, <2>2, MainDispatchPlaces DEF CliScan
    <2>3. CASE unread[look] = {}
      BY <1>13, <2>1, <2>3 DEF CliScan, MainPlaces, Parked, Daemon
    <2>. QED  BY <2>2, <2>3
  <1>14. CASE Finish
    <2>1. \A c \in Caller : Parked(c)' <=> Parked(c)
      BY <1>14 DEF Finish, Parked, TypeOK, PassTypes
    <2>. QED  BY <1>14, <2>1, Constants DEF Finish, MainPlaces, Daemon
  <1>15. CASE Exit \/ ForcedExit \/ Crash
    BY <1>15, GonePlaces DEF Exit, ForcedExit, Crash, ProcessDies
  <1>16. CASE Step \/ ToggleStep \/ ResumeBudget
    <2>1. \A c \in Caller : Parked(c)' <=> Parked(c)
      <3>1. ASSUME NEW c \in Caller, stepWaiter = c PROVE Parked(c)
        BY <3>1 DEF OnePass, Parked
      <3>. QED
        BY <1>16, <3>1 DEF Step, ToggleStep, ResumeBudget, OpenStepGate, Parked,
                           TypeOK, PassTypes
    <2>. QED
      BY <1>16, <2>1, Constants DEF Step, ToggleStep, ResumeBudget, MainPlaces, Daemon
  <1>17. CASE StopRoute \/ Sigterm
    BY <1>17 DEF StopRoute, Sigterm, MainPlaces, Parked, Daemon
  <1>18. ASSUME NEW a \in Agent, LlmAnswer(a) \/ RunTimeout(a) \/ ScanFails(a)
                                 \/ CooldownEnds(a) \/ PauseAgent(a) \/ ResumeAgent(a)
         PROVE  MainPlaces'
    BY <1>18 DEF LlmAnswer, RunTimeout, ScanFails, CooldownEnds, PauseAgent, ResumeAgent,
                 MainPlaces, Parked, Daemon
  <1>19. ASSUME NEW m \in Msg, NEW to \in SUBSET Agent, Post(m, to) PROVE MainPlaces'
    BY <1>19 DEF Post, MainPlaces, Parked, Daemon
  <1>20. CASE RetryFires \/ CostPause \/ UNCHANGED vars
    BY <1>20 DEF RetryFires, CostPause, vars, MainPlaces, Parked, Daemon
  <1>. QED
    BY <1>1, <1>2, <1>3, <1>4, <1>5, <1>6, <1>7, <1>8, <1>9, <1>10, <1>11, <1>12,
       <1>13, <1>14, <1>15, <1>16, <1>17, <1>18, <1>19, <1>20
    DEF Next, PassNext, RunNext, IdleNext, MainNext, EnvNext, PassStep

\* A step that takes none of its reasons away keeps a promise.
LEMMA PromiseKept ==
    ASSUME NEW a \in Agent, Promised(a), signal => signal', main = "down" => main' = "down",
           active \subseteq active', event => event', retry => retry', timer \subseteq timer',
           \A b \in Agent : scans[b] > 0 => scans'[b] > 0, again => again', cur' = cur,
           \A c \in Caller : Parked(c) => Parked(c)'
    PROVE  Promised(a)'
  BY DEF Promised

\* A pass that goes on forgets the agent it leaves and no other.
LEMMA AdvanceKeeps ==
    ASSUME TypeOK, OnePass, MainPlaces, NEW c \in Caller, NEW running, Parked(c),
           Advance(c, running), signal' = signal, active \subseteq active', retry' = retry,
           timer \subseteq timer', scans' = scans,
           NEW a \in Agent, Promised(a), again \/ cur[c] # a
    PROVE  Promised(a)'
  <1>1. CASE \E d \in Caller : Parked(d) /\ (again \/ cur[d] <= a)
    <2>1. again \/ cur[c] <= a
      BY <1>1 DEF OnePass
    <2>2. again \/ cur[c] < a
      BY <2>1 DEF TypeOK, PassTypes, Agent
    <2>. QED  BY <2>2, AdvancePromises
  <1>2. CASE main = "down"
    <2>1. c # "main"
      BY <1>2 DEF MainPlaces
    <2>2. main' = main
      BY <2>1 DEF Advance, EndPass
    <2>. QED  BY <1>2, <2>2 DEF Promised
  <1>3. CASE event
    <2>1. event' = event
      BY DEF Advance, EndPass, MainReturns
    <2>. QED  BY <1>3, <2>1 DEF Promised
  <1>4. CASE signal \/ active # {} \/ retry \/ a \in timer
            \/ \E b \in Agent : b <= a /\ scans[b] > 0
    BY <1>4 DEF Promised
  <1>. QED  BY <1>1, <1>2, <1>3, <1>4 DEF Promised

\* A scan that is asked for comes to every agent.
LEMMA CheckIdlePromises ==
    ASSUME TypeOK, NEW running, CheckIdle(running), active' = running, signal' = signal,
           NEW a \in Agent
    PROVE  Promised(a)'
  <1>1. CASE running = {} /\ ~signal
    <2>1. scans'[1] = scans[1] + 1 /\ scans[1] \in Nat
      BY <1>1, Constants DEF CheckIdle, TypeOK, TimerTypes
    <2>2. scans'[1] > 0
      BY <2>1
    <2>3. 1 <= a
      BY DEF Agent
    <2>. QED  BY <2>2, <2>3, Constants DEF Promised
  <1>2. CASE ~(running = {} /\ ~signal)
    BY <1>2 DEF Promised
  <1>. QED  BY <1>1, <1>2

\* A scan that finds agent b without mail goes on to the agents behind b.
LEMMA ScanKeeps ==
    ASSUME TypeOK, NEW b \in Agent, Scan(b), unread[b] = {},
           NEW a \in Agent, a # b, Promised(a)
    PROVE  Promised(a)'
  <1>1. /\ scans' = IF b < NAgents THEN [Checked(b) EXCEPT ![b + 1] = @ + 1] ELSE Checked(b)
        /\ scans \in [Agent -> Nat] /\ scans[b] > 0
    BY DEF Scan, TypeOK, TimerTypes
  <1>2. UNCHANGED <<signal, main, active, event, retry, timer, again, at, cur>>
    BY DEF Scan
  <1>3. ASSUME NEW d \in Agent, d # b, scans[d] > 0 PROVE scans'[d] > 0
    <2>1. Checked(b) \in [Agent -> Nat] /\ Checked(b)[d] = scans[d]
      BY <1>1, <1>3 DEF Checked
    <2>. QED  BY <1>1, <1>3, <2>1, Constants
  <1>4. CASE \E d \in Agent : d <= a /\ scans[d] > 0
    <2>1. PICK d \in Agent : d <= a /\ scans[d] > 0
      BY <1>4
    <2>2. CASE d # b
      BY <1>3, <2>1, <2>2 DEF Promised
    <2>3. CASE d = b
      <3>1. b < NAgents /\ b + 1 <= a /\ b + 1 # b
        BY <2>1, <2>3, DispatcherAssumption DEF Agent
      <3>2. b + 1 \in Agent
        BY <3>1, Constants
      <3>3. Checked(b) \in [Agent -> Nat] /\ Checked(b)[b + 1] = scans[b + 1]
        BY <1>1, <3>1, <3>2 DEF Checked
      <3>4. scans'[b + 1] = scans[b + 1] + 1 /\ scans[b + 1] \in Nat
        BY <1>1, <3>1, <3>2, <3>3
      <3>5. scans'[b + 1] > 0
        BY <3>4
      <3>. QED  BY <3>1, <3>2, <3>5 DEF Promised
    <2>. QED  BY <2>2, <2>3
  <1>5. CASE ~\E d \in Agent : d <= a /\ scans[d] > 0
    BY <1>2, <1>5 DEF Promised, Parked
  <1>. QED  BY <1>4, <1>5

\* Nobody has mail at first.
LEMMA WatchedInit == Init => Watched
  BY DEF Init, Watched, Noticed, Promised

\* Every step hands the promise on, keeps it, or is seen by nobody but the poll.
LEMMA WatchedStep ==
    ASSUME TypeOK, OnePass, MainPlaces, Watched, [Next]_vars
    PROVE  Watched'
  <1>0. env' = env
    BY DEF Next, PassNext, RunNext, IdleNext, MainNext, EnvNext, PassStep, PassVisit,
           PassBudgetGate, PassList, PassMark, PassStart, PassFails, ProcessDies,
           LlmAnswer, RunEnd, RunTimeout, Scan, ScanFails, RetryFires, CooldownEnds,
           TimerFires, Start, Wake, StreamFails, BackoffOver, CliScan, CloseLoop, Finish,
           Exit, Post, PauseAgent, ResumeAgent, Step, ToggleStep, CostPause, ResumeBudget,
           StopRoute, Sigterm, ForcedExit, Crash, vars
  <1>. SUFFICES ASSUME Daemon, NEW a \in Agent, a \notin Inactive, a \notin paused'
                PROVE  Noticed(a)'
    BY <1>0 DEF Watched, Daemon
  <1>a. a \notin paused => Noticed(a)
    BY DEF Watched
  <1>b. ~Capped
    BY DEF Capped
  <1>1. ASSUME NEW c \in Caller, PassVisit(c) PROVE Noticed(a)'
    <2>1. /\ Parked(c) /\ a \notin paused /\ signal' = signal /\ timer \subseteq timer'
          /\ UNCHANGED <<unread, gap, active, retry, scans>>
      BY <1>1 DEF PassVisit, Parked, ArmCooldownTimer
    <2>2. CASE Advance(c, active) /\ (Skips(cur[c]) \/ unread[cur[c]] = {})
      <3>1. CASE again \/ cur[c] # a
        BY <1>a, <2>1, <2>2, <3>1, AdvanceKeeps DEF Noticed
      <3>2. CASE cur[c] = a /\ unread[a] = {}
        BY <2>1, <3>2 DEF Noticed
      <3>3. CASE cur[c] = a /\ Skips(a)
        <4>1. active # {} \/ a \in timer'
          BY <1>1, <2>1, <3>3 DEF PassVisit, Skips, ArmCooldownTimer
        <4>. QED  BY <2>1, <4>1 DEF Noticed, Promised
      <3>. QED  BY <2>2, <3>1, <3>2, <3>3
    <2>3. CASE /\ at' = [at EXCEPT ![c] = IF stepEnabled THEN "step" ELSE "stepped"]
               /\ UNCHANGED <<inFlight, again, cur, loopVars>>
      <3>1. \A d \in Caller : Parked(d) => Parked(d)'
        BY <2>3 DEF Parked, TypeOK, PassTypes
      <3>. QED  BY <1>a, <2>1, <2>3, <3>1, PromiseKept DEF Noticed
    <2>. QED  BY <1>1, <1>b, <2>2, <2>3 DEF PassVisit
  <1>2. ASSUME NEW c \in Caller, PassBudgetGate(c) PROVE Noticed(a)'
    <2>1. a \notin paused /\ UNCHANGED <<unread, gap, signal, active, timer, retry, scans>>
      BY <1>2 DEF PassBudgetGate
    <2>2. CASE signal
      BY <2>1, <2>2 DEF Noticed, Promised
    <2>3. CASE ~signal
      <3>1. /\ at' = [at EXCEPT ![c] = IF budgetPaused THEN "budget" ELSE "paid"]
            /\ UNCHANGED <<again, cur, main, event>>
        BY <1>2, <2>3 DEF PassBudgetGate
      <3>2. \A d \in Caller : Parked(d) => Parked(d)'
        BY <3>1 DEF Parked, TypeOK, PassTypes
      <3>. QED  BY <1>a, <2>1, <3>1, <3>2, PromiseKept DEF Noticed
    <2>. QED  BY <2>2, <2>3
  <1>3. ASSUME NEW c \in Caller, PassList(c) PROVE Noticed(a)'
    <2>1. /\ Parked(c) /\ a \notin paused
          /\ UNCHANGED <<unread, gap, signal, active, timer, retry, scans>>
      BY <1>3 DEF PassList, Parked
    <2>2. CASE signal
      BY <2>1, <2>2 DEF Noticed, Promised
    <2>3. CASE ~signal /\ Advance(c, active) /\ (cur[c] \in active \/ unread[cur[c]] = {})
      <3>1. CASE again \/ cur[c] # a
        BY <1>a, <2>1, <2>3, <3>1, AdvanceKeeps DEF Noticed
      <3>2. CASE cur[c] = a
        BY <2>1, <2>3, <3>2 DEF Noticed, Promised
      <3>. QED  BY <3>1, <3>2
    <2>4. CASE /\ at' = [at EXCEPT ![c] = "mark"]
               /\ UNCHANGED <<inFlight, again, cur, loopVars>>
      <3>1. \A d \in Caller : Parked(d) => Parked(d)'
        BY <2>4 DEF Parked, TypeOK, PassTypes
      <3>. QED  BY <1>a, <2>1, <2>4, <3>1, PromiseKept DEF Noticed
    <2>. QED  BY <1>3, <2>2, <2>3, <2>4 DEF PassList
  <1>4. ASSUME NEW c \in Caller, PassMark(c) PROVE Noticed(a)'
    <2>1. /\ a \notin paused /\ at' = [at EXCEPT ![c] = "start"]
          /\ UNCHANGED <<gap, signal, active, timer, retry, scans, again, cur, main, event>>
      BY <1>4 DEF PassMark
    <2>2. unread'[a] \subseteq unread[a]
      BY <1>4 DEF PassMark, MarkRead, TypeOK, MailTypes
    <2>3. \A d \in Caller : Parked(d) => Parked(d)'
      BY <2>1 DEF Parked, TypeOK, PassTypes
    <2>. QED  BY <1>a, <2>1, <2>2, <2>3, PromiseKept DEF Noticed
  <1>5. ASSUME NEW c \in Caller, PassStart(c) PROVE Noticed(a)'
    BY <1>5 DEF PassStart, Noticed, Promised
  <1>6. ASSUME NEW c \in Caller, PassFails(c) PROVE Noticed(a)'
    <2>1. CASE c = "main"
      <3>1. main' = "down"
        BY <1>6, <2>1 DEF PassFails, ProcessDies, FreshProcess
      <3>. QED  BY <3>1 DEF Noticed, Promised
    <2>2. CASE c # "main"
      <3>1. retry' = (retry \/ ~signal) /\ signal' = signal
        BY <1>6, <2>2 DEF PassFails
      <3>. QED  BY <3>1 DEF Noticed, Promised
    <2>. QED  BY <2>1, <2>2
  <1>7. ASSUME NEW b \in Agent, RunEnd(b) PROVE Noticed(a)'
    BY <1>7, CheckIdlePromises DEF RunEnd, Noticed
  <1>8. ASSUME NEW b \in Agent, Scan(b) PROVE Noticed(a)'
    <2>1. a \notin paused /\ UNCHANGED <<unread, gap, signal>>
      BY <1>8 DEF Scan
    <2>2. CASE unread[b] # {}
      BY <1>8, <2>1, <2>2, DispatchPromises, Constants DEF Scan, Noticed
    <2>3. CASE unread[b] = {}
      BY <1>8, <1>a, <2>1, <2>3, ScanKeeps DEF Noticed
    <2>. QED  BY <2>2, <2>3
  <1>9. ASSUME NEW b \in Agent, ScanFails(b) PROVE Noticed(a)'
    BY <1>9 DEF ScanFails, Noticed, Promised
  <1>10. CASE RetryFires
    BY <1>10, CheckIdlePromises DEF RetryFires, Noticed
  <1>11. ASSUME NEW b \in Agent, TimerFires(b) PROVE Noticed(a)'
    BY <1>11, DispatchPromises, Constants DEF TimerFires, Noticed
  <1>12. CASE Start
    BY <1>12, DispatchPromises, Constants DEF Start, MainDispatch, Noticed
  <1>13. CASE Wake
    <2>1. CASE signal
      BY <1>13, <2>1 DEF Wake, Noticed, Promised
    <2>2. CASE ~signal
      BY <1>13, <2>2, DispatchPromises, Constants DEF Wake, Noticed
    <2>. QED  BY <2>1, <2>2
  <1>14. CASE StreamFails
    BY <1>14 DEF StreamFails, Noticed, TypeOK, MailTypes
  <1>15. CASE CliScan
    BY <1>15 DEF CliScan, MainPlaces
  <1>16. CASE Finish
    BY <1>16 DEF Finish, MainPlaces, Noticed, Promised
  <1>17. CASE Exit \/ ForcedExit \/ Crash
    BY <1>17 DEF Exit, ForcedExit, Crash, ProcessDies, FreshProcess, Noticed, Promised
  <1>18. ASSUME NEW m \in Msg, NEW to \in SUBSET Agent, Post(m, to) PROVE Noticed(a)'
    <2>1. /\ a \notin paused /\ event' = (event \/ main = "wait")
          /\ UNCHANGED <<signal, active, timer, retry, scans, again, cur, main, at>>
      BY <1>18 DEF Post
    <2>2. CASE active # {} \/ main = "wait"
      BY <2>1, <2>2 DEF Noticed, Promised
    <2>3. CASE active = {} /\ main # "wait"
      <3>1. /\ unread'[a] = IF a \in to THEN unread[a] \cup {m} ELSE unread[a]
            /\ gap'[a] = IF a \in to THEN gap[a] \cup {m} ELSE gap[a]
        BY <1>18, <2>3 DEF Post
      <3>2. \A d \in Caller : Parked(d) => Parked(d)'
        BY <2>1 DEF Parked
      <3>. QED  BY <1>a, <2>1, <3>1, <3>2, PromiseKept DEF Noticed
    <2>. QED  BY <2>2, <2>3
  <1>19. ASSUME NEW b \in Agent, ResumeAgent(b) PROVE Noticed(a)'
    <2>1. CASE a = b
      BY <1>19, <2>1 DEF ResumeAgent, Noticed, TypeOK, MailTypes
    <2>2. CASE a # b
      <3>1. /\ a \notin paused /\ unread'[a] = unread[a] /\ gap'[a] = gap[a]
            /\ UNCHANGED <<signal, active, timer, retry, scans, again, cur, main, at, event>>
        BY <1>19, <2>2 DEF ResumeAgent, TypeOK, MailTypes
      <3>2. \A d \in Caller : Parked(d) => Parked(d)'
        BY <3>1 DEF Parked
      <3>. QED  BY <1>a, <3>1, <3>2, PromiseKept DEF Noticed
    <2>. QED  BY <2>1, <2>2
  <1>20. CASE StopRoute \/ Sigterm
    BY <1>20 DEF StopRoute, Sigterm, Noticed, Promised
  <1>21. CASE Step \/ ToggleStep \/ ResumeBudget
    <2>1. /\ a \notin paused
          /\ UNCHANGED <<unread, gap, signal, active, timer, retry, scans, again, cur,
                         main, event>>
      BY <1>21 DEF Step, ToggleStep, ResumeBudget
    <2>2. \A d \in Caller : Parked(d) => Parked(d)'
      BY <1>21 DEF Step, ToggleStep, ResumeBudget, OpenStepGate, Parked, TypeOK, PassTypes
    <2>. QED  BY <1>a, <2>1, <2>2, PromiseKept DEF Noticed
  <1>22. ASSUME NEW b \in Agent, LlmAnswer(b) \/ RunTimeout(b) \/ CooldownEnds(b)
                                 \/ PauseAgent(b)
         PROVE  Noticed(a)'
    <2>1. /\ a \notin paused
          /\ UNCHANGED <<unread, gap, signal, active, timer, retry, scans, again, cur,
                         main, event, at>>
      BY <1>22 DEF LlmAnswer, RunTimeout, CooldownEnds, PauseAgent
    <2>2. \A d \in Caller : Parked(d) => Parked(d)'
      BY <2>1 DEF Parked
    <2>. QED  BY <1>a, <2>1, <2>2, PromiseKept DEF Noticed
  <1>23. CASE BackoffOver \/ CloseLoop
    <2>1. /\ a \notin paused /\ main # "down"
          /\ UNCHANGED <<unread, gap, signal, active, timer, retry, scans, again, cur,
                         event, at>>
      BY <1>23 DEF BackoffOver, CloseLoop
    <2>2. \A d \in Caller : Parked(d) => Parked(d)'
      BY <2>1 DEF Parked
    <2>. QED  BY <1>a, <2>1, <2>2, PromiseKept DEF Noticed
  <1>24. CASE CostPause \/ UNCHANGED vars
    <2>1. /\ a \notin paused
          /\ UNCHANGED <<unread, gap, signal, active, timer, retry, scans, again, cur,
                         main, event, at>>
      BY <1>24 DEF CostPause, vars
    <2>2. \A d \in Caller : Parked(d) => Parked(d)'
      BY <2>1 DEF Parked
    <2>. QED  BY <1>a, <2>1, <2>2, PromiseKept DEF Noticed
  <1>. QED
    BY <1>1, <1>2, <1>3, <1>4, <1>5, <1>6, <1>7, <1>8, <1>9, <1>10, <1>11, <1>12,
       <1>13, <1>14, <1>15, <1>16, <1>17, <1>18, <1>19, <1>20, <1>21, <1>22, <1>23, <1>24
    DEF Next, PassNext, RunNext, IdleNext, MainNext, EnvNext, PassStep

\* Once nothing is going on but the poll, a dispatchable agent's unread mail is
\* mail that no turn and no stream could have told the daemon of: a turn's end, a
\* scan, a timer and a pass always hand the promise on (checkIdle, issue #48).
THEOREM MailNeverWaits == Spec => []QuietMeansDrained
  <1>1. Init => MainPlaces /\ Watched
    BY PlacesInit, WatchedInit
  <1>2. IInv /\ MainPlaces /\ Watched /\ [Next]_vars => MainPlaces' /\ Watched'
    BY PlacesStep, WatchedStep DEF IInv
  <1>3. MainPlaces /\ Watched => QuietMeansDrained
    <2> SUFFICES ASSUME MainPlaces, Watched, Quiet, NEW a \in Agent \ (Inactive \cup paused)
                 PROVE  unread[a] \subseteq gap[a]
      BY DEF QuietMeansDrained
    <2>1. Noticed(a)
      BY DEF Quiet, MainPlaces, Watched
    <2>2. ~Promised(a)
      BY DEF Quiet, Promised
    <2>. QED  BY <2>1, <2>2 DEF Noticed
  <1>. QED  BY <1>1, <1>2, <1>3, Invariant, PTL DEF Spec
=============================================================================
