--------------------------- MODULE Copilot_proofs ---------------------------
(***************************************************************************)
(* One daemon per user, no mail lost without a word, and one execution per *)
(* card, for every number of messages, daemons, cards and tabs, and every  *)
(* bound.                                                                  *)
(***************************************************************************)
EXTENDS Copilot, TLAPS

\* OneLiveDaemon through the steps: at most one start is in flight, and none
\* while a daemon is registered.
OneStart ==
  /\ starting \in {0, 1}
  /\ starting = 1 => registered = None

\* ReadIsAccounted through the steps: what is about to be marked read has had
\* its fate, and only a settings request stops a turn under way.
Marking ==
  \A d \in Daemon :
    /\ pc[d] \in {"mark", "drop"} => \A m \in batch[d] : fate[m] # {}
    /\ cut[d] => "settings" \in env
    /\ stopped[d] => "settings" \in env \/ "evict" \in env
Saving == route = "saving" => "settings" \in env

IInv ==
  /\ TypeOK /\ OneStart /\ OneLiveDaemon
  /\ Marking /\ Saving /\ ReadIsAccounted /\ CardOnce

-----------------------------------------------------------------------------
LEMMA Consts ==
  /\ MaxAttempts \in Nat \ {0} /\ MaxFaults \in Nat /\ MaxOps \in Nat
  /\ None \notin Daemon /\ None \notin Card
BY CopilotAssumption DEF None

\* The control plane starts with no mail and no daemon.
LEMMA InitInv == Init => IInv
<1> SUFFICES ASSUME Init PROVE IInv
  OBVIOUS
<1> USE DEF Init
<1>1. TypeOK
  <2>1. MailTypes
    <3>1. 0 \in 0 .. MaxAttempts /\ {} \in SUBSET Fates
      BY Consts
    <3> QED BY <3>1 DEF MailTypes
  <2>2. CardTypes
    BY DEF CardTypes, NoRequests
  <2>3. RuntimeTypes
    BY DEF RuntimeTypes
  <2>4. BoundTypes
    BY Consts DEF BoundTypes
  <2>5. LoopTypes
    BY Consts DEF LoopTypes, Free
  <2> QED BY <2>1, <2>2, <2>3, <2>4, <2>5 DEF TypeOK
<1>2. OneStart /\ OneLiveDaemon
  BY DEF OneStart, OneLiveDaemon, Live, Free
<1>3. Marking /\ Saving /\ ReadIsAccounted
  BY DEF Marking, Saving, ReadIsAccounted
<1>4. CardOnce
  BY Consts DEF CardOnce, NoRequests
<1> QED BY <1>1, <1>2, <1>3, <1>4 DEF IInv

-----------------------------------------------------------------------------
(* The steps, by what they may touch. *)

\* What each kind of step leaves alone is enough for most of the invariant.
MailStep ==
  \/ \E m \in Msg : Message(m) \/ MessageWakes(m) \/ Relay(m)
  \/ WakerEvent \/ EventLost \/ WakerScan
StopStep == SettingsCheck \/ SettingsStop \/ Idle \/ EvictIdle
CapStep  == Spend \/ RaiseCap
CardStep ==
  \/ \E c \in Card : Propose(c) \/ Dismiss(c)
  \/ \E t \in Tab, c \in Card : Confirm(t, c) \/ Take(t, c) \/ Execute(t, c)
LoopStep == \E d \in Daemon : DaemonStep(d)

LEMMA Steps ==
  ASSUME [Next]_vars
  PROVE  \/ MailStep \/ StopStep \/ CapStep \/ CardStep \/ LoopStep \/ Restart
         \/ (\E d \in Daemon : Start(d)) \/ UNCHANGED vars
BY DEF Next, MailStep, StopStep, CapStep, CardStep, LoopStep

\* Whoever asks for a daemon starts at most one, and only if none is registered.
LEMMA Ensured ==
  ASSUME IInv, Ensure
  PROVE  /\ registered' \in Daemon \cup {None} /\ starting' \in {0, 1}
         /\ fresh' \in BOOLEAN
         /\ starting' = 1 => registered' = None
         /\ \/ registered' = registered /\ starting' = starting
            \/ registered = None \/ pc[registered] = "dead"
<1>1. registered \in Daemon \cup {None}
  BY DEF IInv, TypeOK, RuntimeTypes
<1> QED BY <1>1 DEF Ensure, IInv, OneStart

LEMMA TypeMail == ASSUME IInv, MailStep PROVE TypeOK'
<1> USE DEF IInv, TypeOK
<1>1. ASSUME NEW m \in Msg, Message(m) PROVE TypeOK'
  <2>1. MailTypes' BY <1>1 DEF Message, MailTypes, mailHistory
  <2>2. RuntimeTypes' BY <1>1 DEF Message, RuntimeTypes
  <2>3. LoopTypes' BY <1>1 DEF Message, LoopTypes, loopVars
  <2>4. CardTypes' /\ BoundTypes'
    BY <1>1 DEF Message, CardTypes, BoundTypes, cardVars, bounds
  <2> QED BY <2>1, <2>2, <2>3, <2>4
<1>2. ASSUME NEW m \in Msg, Relay(m) PROVE TypeOK'
  <2>1. MailTypes' BY <1>2 DEF Relay, MailTypes, mailHistory
  <2>2. RuntimeTypes' BY <1>2 DEF Relay, RuntimeTypes
  <2>3. LoopTypes' BY <1>2 DEF Relay, LoopTypes, loopVars
  <2>4. CardTypes' /\ BoundTypes'
    BY <1>2 DEF Relay, CardTypes, BoundTypes, cardVars, bounds
  <2> QED BY <2>1, <2>2, <2>3, <2>4
<1>3. ASSUME Ensure, posting' \subseteq Msg, event' \in BOOLEAN,
             UNCHANGED <<env, mongoVars, route, loopVars, mailHistory, cardVars, bounds>>
      PROVE  TypeOK'
  <2>1. MailTypes' BY <1>3 DEF MailTypes, mongoVars, mailHistory
  <2>2. RuntimeTypes' BY <1>3, Ensured DEF RuntimeTypes
  <2>3. LoopTypes' BY <1>3 DEF LoopTypes, loopVars
  <2>4. CardTypes' /\ BoundTypes'
    BY <1>3 DEF CardTypes, BoundTypes, cardVars, bounds
  <2> QED BY <2>1, <2>2, <2>3, <2>4
<1>4. ASSUME NEW m \in Msg, MessageWakes(m) PROVE TypeOK'
  BY <1>3, <1>4 DEF MessageWakes, RuntimeTypes
<1>5. CASE WakerEvent
  BY <1>3, <1>5 DEF WakerEvent, RuntimeTypes
<1>6. CASE WakerScan
  BY <1>3, <1>6 DEF WakerScan, RuntimeTypes
<1>7. CASE EventLost
  <2>1. MailTypes' BY <1>7 DEF EventLost, MailTypes, mongoVars, mailHistory
  <2>2. RuntimeTypes' BY <1>7 DEF EventLost, RuntimeTypes
  <2>3. LoopTypes' BY <1>7 DEF EventLost, LoopTypes, loopVars
  <2>4. CardTypes' /\ BoundTypes'
    BY <1>7 DEF EventLost, CardTypes, BoundTypes, cardVars, bounds
  <2> QED BY <2>1, <2>2, <2>3, <2>4
<1> QED BY <1>1, <1>2, <1>4, <1>5, <1>6, <1>7 DEF MailStep

LEMMA TypeStop == ASSUME IInv, StopStep PROVE TypeOK'
<1> USE DEF IInv, TypeOK
<1>1. MailTypes'
  BY DEF StopStep, SettingsCheck, SettingsStop, Idle, EvictIdle, MailTypes,
         mongoVars, mailHistory
<1>2. RuntimeTypes'
  BY DEF StopStep, SettingsCheck, SettingsStop, Idle, EvictIdle, StopDaemon,
         RuntimeTypes
<1>3. LoopTypes'
  BY DEF StopStep, SettingsCheck, SettingsStop, Idle, EvictIdle, StopDaemon,
         LoopTypes, loopVars
<1>4. CardTypes'
  BY DEF StopStep, SettingsCheck, SettingsStop, Idle, EvictIdle, CardTypes, cardVars
<1>5. BoundTypes'
  BY Consts DEF StopStep, SettingsCheck, SettingsStop, Idle, EvictIdle,
         BoundTypes, bounds
<1> QED BY <1>1, <1>2, <1>3, <1>4, <1>5

LEMMA TypeCap == ASSUME IInv, CapStep PROVE TypeOK'
<1> USE DEF IInv, TypeOK
<1>1. MailTypes'
  BY DEF CapStep, Spend, RaiseCap, MailTypes, mailHistory
<1>2. RuntimeTypes' /\ LoopTypes' /\ CardTypes'
  BY DEF CapStep, Spend, RaiseCap, RuntimeTypes, runtimeVars, LoopTypes, loopVars,
         CardTypes, cardVars
<1>3. BoundTypes'
  BY Consts DEF CapStep, Spend, RaiseCap, BoundTypes, bounds
<1> QED BY <1>1, <1>2, <1>3

LEMMA TypeCard == ASSUME IInv, CardStep PROVE TypeOK'
<1> USE DEF IInv, TypeOK
<1>1. MailTypes' /\ RuntimeTypes' /\ LoopTypes' /\ BoundTypes'
  BY DEF CardStep, Propose, Dismiss, Confirm, Take, Execute, MailTypes, mongoVars,
         mailHistory, RuntimeTypes, runtimeVars, LoopTypes, loopVars, BoundTypes, bounds
<1>2. CardTypes'
  BY DEF CardStep, Propose, Dismiss, Confirm, Take, Execute, CardTypes
<1> QED BY <1>1, <1>2

LEMMA TypeLoop == ASSUME IInv, NEW d \in Daemon, DaemonStep(d) PROVE TypeOK'
<1> USE DEF IInv, TypeOK
<1>1. RuntimeTypes' /\ CardTypes'
  BY DEF DaemonStep, Boot, Check, Wake, List, CheckCap, TurnEnds, TurnThrows,
         Backoff, MarkRead, RuntimeTypes, runtimeVars, CardTypes, cardVars
<1>2. BoundTypes'
  BY Consts DEF DaemonStep, Boot, Check, Wake, List, CheckCap, TurnEnds,
         TurnThrows, Backoff, MarkRead, Fault, BoundTypes, bounds
<1>3. \A f \in Fates : Becomes(d, f) => fate' \in [Msg -> SUBSET Fates]
  BY DEF Becomes, MailTypes
<1>4. MailTypes'
  <2>1. CASE CheckCap(d) \/ TurnEnds(d)
    BY <1>3, <2>1 DEF CheckCap, TurnEnds, MailTypes, mongoVars, Fates
  <2>2. CASE TurnThrows(d)
    <3>1. fate' \in [Msg -> SUBSET Fates]
      BY <1>3, <2>2 DEF TurnThrows, MailTypes, Fates
    <3>2. tries' \in [Msg -> 0 .. MaxAttempts]
      BY <2>2, Consts DEF TurnThrows, MailTypes
    <3> QED BY <2>2, <3>1, <3>2 DEF TurnThrows, MailTypes, mongoVars
  <2>3. CASE MarkRead(d)
    BY <2>3 DEF MarkRead, MailTypes, mailHistory
  <2> QED BY <2>1, <2>2, <2>3
    DEF DaemonStep, Boot, Check, Wake, List, Backoff, MailTypes, mongoVars, mailHistory
<1>5. LoopTypes'
  <2>1. CASE Boot(d) \/ Check(d) \/ Wake(d) \/ Backoff(d) \/ MarkRead(d)
    BY <2>1 DEF Boot, Check, Wake, Backoff, MarkRead, Go, LoopTypes, Free
  <2>2. CASE List(d)
    BY <2>2 DEF List, Go, Unread, LoopTypes, Free
  <2>3. CASE CheckCap(d)
    BY <2>3 DEF CheckCap, Go, LoopTypes, Free
  <2>4. CASE TurnEnds(d)
    BY <2>4, Consts DEF TurnEnds, Go, LoopTypes, Free
  <2>5. CASE TurnThrows(d)
    BY <2>5, Consts DEF TurnThrows, Go, LoopTypes, Free
  <2> QED BY <2>1, <2>2, <2>3, <2>4, <2>5 DEF DaemonStep
<1> QED BY <1>1, <1>2, <1>4, <1>5

LEMMA TypeStart == ASSUME IInv, NEW d \in Daemon, Start(d) PROVE TypeOK'
<1> USE DEF IInv, TypeOK
<1>1. MailTypes' /\ CardTypes'
  BY DEF Start, MailTypes, mongoVars, mailHistory, CardTypes, cardVars
<1>2. RuntimeTypes'
  BY DEF Start, RuntimeTypes, OneStart
<1>3. LoopTypes'
  <2>1. CASE UNCHANGED loopVars
    BY <2>1 DEF LoopTypes, loopVars
  <2>2. CASE registered' = d
             /\ Go(d, "boot") /\ batch' = [batch EXCEPT ![d] = {}]
             /\ failed' = [failed EXCEPT ![d] = 0]
             /\ stopped' = [stopped EXCEPT ![d] = FALSE]
             /\ cut' = [cut EXCEPT ![d] = FALSE]
    <3>1. failed' \in [Daemon -> 0 .. MaxAttempts]
      <4>1. 0 \in 0 .. MaxAttempts
        BY Consts
      <4> QED BY <2>2, <4>1 DEF LoopTypes
    <3>2. pc' \in [Daemon -> Free \cup {"boot", "check", "wait", "list", "cap", "drop",
                                       "turn", "mark", "backoff"}]
      BY <2>2 DEF LoopTypes, Go
    <3>3. batch' \in [Daemon -> SUBSET Msg]
      BY <2>2 DEF LoopTypes
    <3>4. stopped' \in [Daemon -> BOOLEAN] /\ cut' \in [Daemon -> BOOLEAN]
      BY <2>2 DEF LoopTypes
    <3> QED BY <3>1, <3>2, <3>3, <3>4 DEF LoopTypes
  <2> QED BY <2>1, <2>2 DEF Start
<1>4. BoundTypes'
  BY Consts DEF Start, Fault, BoundTypes
<1> QED BY <1>1, <1>2, <1>3, <1>4

LEMMA TypeRestart == ASSUME IInv, Restart PROVE TypeOK'
<1> USE DEF IInv, TypeOK
<1>1. MailTypes' /\ RuntimeTypes'
  BY DEF Restart, MailTypes, mongoVars, mailHistory, RuntimeTypes
<1>2. LoopTypes'
  BY Consts DEF Restart, LoopTypes, Free
<1>3. CardTypes'
  BY DEF Restart, CardTypes, NoRequests
<1>4. BoundTypes'
  BY Consts DEF Restart, Fault, BoundTypes
<1> QED BY <1>1, <1>2, <1>3, <1>4

LEMMA TypeStep == IInv /\ [Next]_vars => TypeOK'
<1> SUFFICES ASSUME IInv, [Next]_vars PROVE TypeOK'
  OBVIOUS
<1>1. CASE UNCHANGED vars
  BY <1>1 DEF IInv, TypeOK, MailTypes, RuntimeTypes, LoopTypes, CardTypes, BoundTypes,
              vars, mongoVars, runtimeVars, loopVars, mailHistory, cardVars, bounds
<1> QED BY <1>1, Steps, TypeMail, TypeStop, TypeCap, TypeCard, TypeLoop, TypeStart,
           TypeRestart DEF LoopStep

-----------------------------------------------------------------------------
(* One daemon *)

\* A loop that moves, while the runtime does nothing, was not at rest before.
LEMMA OneKept ==
  ASSUME IInv, UNCHANGED <<registered, starting, stopped>>,
         \A d \in Daemon : pc'[d] = pc[d] \/ pc[d] \notin Free
  PROVE  (OneStart /\ OneLiveDaemon)'
BY DEF IInv, OneStart, OneLiveDaemon, Live

LEMMA OneEnsured ==
  ASSUME IInv, Ensure, UNCHANGED <<pc, stopped>>
  PROVE  (OneStart /\ OneLiveDaemon)'
<1>1. CASE registered' = registered /\ starting' = starting
  BY <1>1, OneKept
<1>2. CASE registered = None \/ pc[registered] = "dead"
  <2>1. \A d \in Daemon : ~Live(d)
    BY <1>2, Consts DEF IInv, OneLiveDaemon, Live, Free
  <2> QED BY <2>1, Ensured DEF OneStart, OneLiveDaemon, Live
<1> QED BY <1>1, <1>2, Ensured

LEMMA OneStopped ==
  ASSUME IInv, StopDaemon, UNCHANGED <<pc, starting>>
  PROVE  (OneStart /\ OneLiveDaemon)'
<1>1. \A d \in Daemon : ~Live(d)'
  BY DEF StopDaemon, IInv, OneLiveDaemon, Live
<1> QED BY <1>1 DEF StopDaemon, IInv, OneStart, OneLiveDaemon

LEMMA OneStep == IInv /\ [Next]_vars => (OneStart /\ OneLiveDaemon)'
<1> SUFFICES ASSUME IInv, [Next]_vars PROVE (OneStart /\ OneLiveDaemon)'
  OBVIOUS
<1>1. CASE MailStep
  <2>1. CASE Ensure
    <3>1. UNCHANGED <<pc, stopped>>
      BY <1>1 DEF MailStep, Message, MessageWakes, Relay, WakerEvent, EventLost,
                  WakerScan, loopVars
    <3> QED BY <2>1, <3>1, OneEnsured
  <2>2. CASE ~Ensure
    BY <1>1, <2>2, OneKept DEF MailStep, Message, MessageWakes, Relay, WakerEvent,
                               EventLost, WakerScan, loopVars
  <2> QED BY <2>1, <2>2
<1>2. CASE StopStep
  <2>1. CASE SettingsCheck \/ Idle
    BY <2>1, OneKept DEF SettingsCheck, Idle, loopVars
  <2>2. CASE SettingsStop \/ EvictIdle
    BY <2>2, OneStopped DEF SettingsStop, EvictIdle
  <2> QED BY <1>2, <2>1, <2>2 DEF StopStep
<1>3. CASE CapStep \/ CardStep
  BY <1>3, OneKept DEF CapStep, Spend, RaiseCap, CardStep, Propose, Dismiss, Confirm,
                       Take, Execute, loopVars, runtimeVars
<1>4. ASSUME NEW d \in Daemon, DaemonStep(d) PROVE (OneStart /\ OneLiveDaemon)'
  <2>1. pc[d] \notin Free
    BY <1>4 DEF DaemonStep, Boot, Check, Wake, List, CheckCap, TurnEnds, TurnThrows,
                Backoff, MarkRead, Free
  <2>2. \A e \in Daemon : e # d => pc'[e] = pc[e]
    BY <1>4 DEF IInv, TypeOK, LoopTypes, DaemonStep, Boot, Check, Wake, List,
                CheckCap, TurnEnds, TurnThrows, Backoff, MarkRead, Go
  <2>3. UNCHANGED <<registered, starting, stopped>>
    BY <1>4 DEF DaemonStep, Boot, Check, Wake, List, CheckCap, TurnEnds, TurnThrows,
                Backoff, MarkRead, runtimeVars
  <2> QED BY <2>1, <2>2, <2>3, OneKept
<1>5. ASSUME NEW d \in Daemon, Start(d) PROVE (OneStart /\ OneLiveDaemon)'
  <2>1. starting = 1 /\ starting' = 0 /\ registered = None
    BY <1>5 DEF Start, IInv, OneStart
  <2>2. \A e \in Daemon : ~Live(e)
    BY <2>1 DEF IInv, OneLiveDaemon
  <2>3. CASE UNCHANGED <<registered, loopVars>>
    BY <2>1, <2>2, <2>3 DEF OneStart, OneLiveDaemon, Live, loopVars
  <2>4. CASE registered' = d /\ Go(d, "boot") /\ stopped' = [stopped EXCEPT ![d] = FALSE]
    <3>1. \A e \in Daemon : e # d => ~Live(e)'
      BY <2>2, <2>4 DEF Go, Live, IInv, TypeOK, LoopTypes
    <3> QED BY <2>1, <2>4, <3>1 DEF OneStart, OneLiveDaemon
  <2> QED BY <1>5, <2>3, <2>4 DEF Start
<1>6. CASE Restart
  BY <1>6 DEF Restart, OneStart, OneLiveDaemon, Live, Free
<1>7. CASE UNCHANGED vars
  BY <1>7, OneKept DEF vars, runtimeVars, loopVars
<1> QED BY <1>1, <1>2, <1>3, <1>4, <1>5, <1>6, <1>7, Steps DEF LoopStep

-----------------------------------------------------------------------------
(* What is read was accounted for *)

Accounts == Marking /\ Saving /\ ReadIsAccounted

\* Nothing is read, and no turn is stopped or finished.
LEMMA AccountsKept ==
  ASSUME IInv, UNCHANGED <<env, batch, stopped, cut, fate, tries>>,
         route' = "saving" => "settings" \in env,
         \A m \in Msg : mail'[m] = "read" => mail[m] = "read",
         \A d \in Daemon : pc'[d] \in {"mark", "drop"} => pc[d] = pc'[d]
  PROVE  Accounts'
BY DEF IInv, Accounts, Marking, Saving, ReadIsAccounted

LEMMA AccountsLoop ==
  ASSUME IInv, NEW d \in Daemon, DaemonStep(d) PROVE Accounts'
<1> USE DEF IInv, TypeOK
<1>1. env' = env /\ route' = route
  BY DEF DaemonStep, Boot, Check, Wake, List, CheckCap, TurnEnds, TurnThrows,
         Backoff, MarkRead, runtimeVars
<1>2. CASE Boot(d) \/ Check(d) \/ Wake(d) \/ Backoff(d)
  BY <1>1, <1>2, AccountsKept
     DEF Boot, Check, Wake, Backoff, Go, LoopTypes, mongoVars, mailHistory, Saving
<1>3. CASE List(d)
  <2>1. \A e \in Daemon : pc'[e] \in {"mark", "drop"} => e # d /\ pc[e] = pc'[e]
    BY <1>3 DEF List, Go, LoopTypes
  <2>2. \A e \in Daemon : e # d => batch'[e] = batch[e]
    BY <1>3 DEF List, LoopTypes
  <2>3. UNCHANGED <<stopped, cut, fate, tries, mail>>
    BY <1>3 DEF List, mongoVars, mailHistory
  <2>4. Marking'
    BY <1>1, <2>1, <2>2, <2>3 DEF Marking
  <2>5. Saving' /\ ReadIsAccounted'
    BY <1>1, <2>3 DEF Saving, ReadIsAccounted
  <2> QED BY <2>4, <2>5 DEF Accounts
<1>4. CASE MarkRead(d)
  <2>1. \A m \in Msg : mail'[m] = "read" => mail[m] = "read" \/ m \in batch[d]
    BY <1>4 DEF MarkRead, MailTypes
  <2>2. \A m \in batch[d] : fate[m] # {}
    BY <1>4 DEF MarkRead, Marking
  <2>3. UNCHANGED <<batch, stopped, cut, fate, tries>>
    BY <1>4 DEF MarkRead, mailHistory
  <2>4. \A e \in Daemon : pc'[e] \in {"mark", "drop"} => pc[e] = pc'[e]
    BY <1>4 DEF MarkRead, Go, LoopTypes
  <2>5. Marking' /\ Saving'
    BY <1>1, <2>3, <2>4 DEF Marking, Saving
  <2>6. ReadIsAccounted'
    BY <1>1, <2>1, <2>2, <2>3 DEF ReadIsAccounted
  <2> QED BY <2>5, <2>6 DEF Accounts
<1>5. ASSUME NEW what \in Fates, Becomes(d, what), UNCHANGED <<mail, batch, stopped, cut>>,
             \A e \in Daemon : e # d => pc'[e] = pc[e],
             \A m \in Msg : tries[m] > 0 => tries'[m] > 0,
             what = "cut" => "settings" \in env,
             what = "quiet" => "settings" \in env \/ "evict" \in env,
             what = "aside" => \A m \in batch[d] : tries'[m] > 0
      PROVE  Accounts'
  <2>1. \A m \in Msg : fate'[m] = fate[m] \cup {f \in {what} : m \in batch[d]}
    BY <1>5 DEF Becomes
  <2>2. \A m \in Msg : fate[m] # {} => fate'[m] # {}
    BY <2>1
  <2>3. \A e \in Daemon : batch[e] \subseteq Msg
    BY DEF LoopTypes
  <2>4. \A m \in batch[d] : fate'[m] # {}
    BY <2>1, <2>3
  <2>5. Marking' /\ Saving'
    BY <1>1, <1>5, <2>2, <2>3, <2>4 DEF Marking, Saving
  <2>6. \A m \in Msg : mail'[m] = "read" => fate'[m] # {}
    BY <1>5, <2>2 DEF ReadIsAccounted
  <2>7. \A m \in Msg : /\ "cut" \in fate'[m] => "settings" \in env'
                       /\ "quiet" \in fate'[m] => ("settings" \in env \/ "evict" \in env)'
    BY <1>1, <1>5, <2>1 DEF ReadIsAccounted
  <2>8. \A m \in Msg : "aside" \in fate'[m] => tries'[m] > 0
    BY <1>5, <2>1 DEF ReadIsAccounted
  <2> QED BY <2>5, <2>6, <2>7, <2>8 DEF Accounts, ReadIsAccounted
<1>6. CASE CheckCap(d)
  <2>1. CASE Becomes(d, "capped")
    BY <1>6, <2>1, <1>5 DEF CheckCap, Go, LoopTypes, mongoVars, Fates
  <2>2. CASE ~Becomes(d, "capped")
    BY <1>1, <1>6, <2>2, AccountsKept DEF CheckCap, Go, LoopTypes, mongoVars, Saving
  <2> QED BY <2>1, <2>2
<1>7. CASE TurnEnds(d)
  <2>1. UNCHANGED <<mail, batch, stopped, cut, tries>> /\ \A e \in Daemon : e # d => pc'[e] = pc[e]
    BY <1>7 DEF TurnEnds, Go, LoopTypes, mongoVars
  <2>2. CASE Becomes(d, "handled")
    BY <2>1, <2>2, <1>5 DEF Fates
  <2>3. CASE Becomes(d, IF stopped[d] THEN "quiet" ELSE "stopped")
    <3>1. stopped[d] => "settings" \in env \/ "evict" \in env
      BY DEF Marking
    <3>2. CASE stopped[d]
      BY <2>1, <2>3, <3>1, <3>2, <1>5 DEF Fates
    <3>3. CASE ~stopped[d]
      BY <2>1, <2>3, <3>3, <1>5 DEF Fates
    <3> QED BY <3>2, <3>3
  <2>4. CASE cut[d] /\ Becomes(d, "cut")
    <3>1. "settings" \in env
      BY <2>4 DEF Marking
    <3> QED BY <2>1, <2>4, <3>1, <1>5 DEF Fates
  <2> QED BY <1>7, <2>2, <2>3, <2>4 DEF TurnEnds
<1>8. CASE TurnThrows(d)
  <2>1. CASE stopped[d]
    BY <1>1, <1>8, <2>1, AccountsKept DEF TurnThrows, Go, LoopTypes, mongoVars, Saving
  <2>2. CASE ~stopped[d]
    <3>1. tries' = [m \in Msg |-> IF m \in batch[d] /\ tries[m] < MaxAttempts
                                   THEN tries[m] + 1 ELSE tries[m]]
      BY <1>8, <2>2 DEF TurnThrows
    <3>2. \A m \in Msg : (tries[m] > 0 => tries'[m] > 0) /\ (m \in batch[d] => tries'[m] > 0)
      BY <3>1, Consts DEF MailTypes
    <3>3. UNCHANGED <<mail, batch, stopped, cut>> /\ \A e \in Daemon : e # d => pc'[e] = pc[e]
      BY <1>8 DEF TurnThrows, Go, LoopTypes, mongoVars
    <3>4. batch[d] \subseteq Msg
      BY DEF LoopTypes
    <3>5. CASE Becomes(d, "aside")
      BY <3>2, <3>3, <3>4, <3>5, <1>5 DEF Fates
    <3>6. CASE fate' = fate /\ Go(d, "backoff")
      <4>1. Marking' /\ Saving'
        BY <1>1, <3>3, <3>6 DEF Marking, Saving, Go, LoopTypes
      <4>2. ReadIsAccounted'
        BY <1>1, <3>2, <3>3, <3>6 DEF ReadIsAccounted
      <4> QED BY <4>1, <4>2 DEF Accounts
    <3> QED BY <1>8, <2>2, <3>5, <3>6 DEF TurnThrows
  <2> QED BY <2>1, <2>2
<1> QED BY <1>2, <1>3, <1>4, <1>6, <1>7, <1>8 DEF DaemonStep

LEMMA AccountsStep == IInv /\ [Next]_vars => Accounts'
<1> SUFFICES ASSUME IInv, [Next]_vars PROVE Accounts'
  OBVIOUS
<1> USE DEF IInv, TypeOK
<1>1. CASE MailStep
  BY <1>1, AccountsKept
     DEF MailStep, Message, MessageWakes, Relay, WakerEvent, EventLost, WakerScan,
         MailTypes, mongoVars, loopVars, mailHistory, Saving
<1>2. CASE StopStep
  <2>1. CASE SettingsCheck \/ Idle
    BY <2>1, AccountsKept DEF SettingsCheck, Idle, mongoVars, loopVars, mailHistory, Saving
  <2>2. CASE SettingsStop \/ EvictIdle
    <3>1. UNCHANGED <<env, mail, pc, batch, fate, tries>>
      BY <2>2 DEF SettingsStop, EvictIdle, mongoVars, mailHistory
    <3>2. \A d \in Daemon :
            /\ cut'[d] => cut[d] \/ "settings" \in env
            /\ stopped'[d] => stopped[d] \/ "settings" \in env \/ "evict" \in env
      BY <2>2 DEF SettingsStop, EvictIdle, StopDaemon, Saving, Busy
    <3>3. Saving'
      BY <2>2 DEF SettingsStop, EvictIdle, Saving
    <3> QED BY <3>1, <3>2, <3>3 DEF Accounts, Marking, ReadIsAccounted
  <2> QED BY <1>2, <2>1, <2>2 DEF StopStep
<1>3. CASE CapStep \/ CardStep
  BY <1>3, AccountsKept
     DEF CapStep, Spend, RaiseCap, CardStep, Propose, Dismiss, Confirm, Take, Execute,
         mongoVars, runtimeVars, loopVars, mailHistory, Saving
<1>4. ASSUME NEW d \in Daemon, Start(d) PROVE Accounts'
  <2>1. UNCHANGED <<env, mail, route, fate, tries>>
    BY <1>4 DEF Start, mongoVars, mailHistory
  <2>2. \A e \in Daemon : (cut'[e] => cut[e]) /\ (stopped'[e] => stopped[e])
    BY <1>4 DEF Start, loopVars, LoopTypes
  <2>3. \A e \in Daemon : pc'[e] \in {"mark", "drop"} => pc[e] = pc'[e] /\ batch'[e] = batch[e]
    BY <1>4 DEF Start, Go, loopVars, LoopTypes
  <2> QED BY <2>1, <2>2, <2>3 DEF Accounts, Marking, Saving, ReadIsAccounted
<1>5. CASE Restart
  BY <1>5 DEF Restart, mongoVars, mailHistory, Accounts, Marking, Saving, ReadIsAccounted
<1>6. CASE UNCHANGED vars
  BY <1>6, AccountsKept DEF vars, mongoVars, runtimeVars, loopVars, mailHistory, Saving
<1> QED BY <1>1, <1>2, <1>3, <1>4, <1>5, <1>6, AccountsLoop, Steps DEF LoopStep

-----------------------------------------------------------------------------
(* One execution per card *)

LEMMA CardStepOnce == IInv /\ [Next]_vars => CardOnce'
<1> SUFFICES ASSUME IInv, [Next]_vars PROVE CardOnce'
  OBVIOUS
<1> USE DEF IInv, TypeOK
<1>1. CASE UNCHANGED <<card, taken, executed>>
  BY <1>1 DEF CardOnce
<1>2. CASE MailStep \/ StopStep \/ CapStep \/ UNCHANGED vars
  BY <1>1, <1>2
     DEF MailStep, Message, MessageWakes, Relay, WakerEvent, EventLost, WakerScan,
         StopStep, SettingsCheck, SettingsStop, Idle, EvictIdle, CapStep, Spend,
         RaiseCap, vars, cardVars
<1>3. ASSUME NEW d \in Daemon, Start(d) \/ DaemonStep(d) PROVE CardOnce'
  BY <1>1, <1>3
     DEF Start, DaemonStep, Boot, Check, Wake, List, CheckCap, TurnEnds, TurnThrows,
         Backoff, MarkRead, cardVars
<1>4. ASSUME NEW c \in Card, Propose(c) \/ Dismiss(c) PROVE CardOnce'
  <2>1. \A e \in Card : card[e] = "claimed" <=> card'[e] = "claimed"
    BY <1>4 DEF Propose, Dismiss, CardTypes
  <2>2. UNCHANGED <<taken, executed>>
    BY <1>4 DEF Propose, Dismiss
  <2> QED BY <2>1, <2>2 DEF CardOnce
<1>5. ASSUME NEW t \in Tab, NEW c \in Card, Confirm(t, c) PROVE CardOnce'
  BY <1>1, <1>5 DEF Confirm
<1>6. ASSUME NEW t \in Tab, NEW c \in Card, Take(t, c) PROVE CardOnce'
  <2>1. CASE card[c] = "open"
    <3>1. executed[c] = 0 /\ \A u \in Tab : taken[u] # c
      BY <2>1 DEF CardOnce
    <3>2. /\ \A e \in Card : card'[e] = IF e = c THEN "claimed" ELSE card[e]
          /\ \A u \in Tab : taken'[u] = IF u = t THEN c ELSE taken[u]
          /\ executed' = executed
      BY <1>6, <2>1 DEF Take, CardTypes
    <3> QED BY <3>1, <3>2 DEF CardOnce
  <2>2. CASE card[c] # "open"
    BY <1>1, <1>6, <2>2 DEF Take
  <2> QED BY <2>1, <2>2
<1>7. ASSUME NEW t \in Tab, NEW c \in Card, Execute(t, c) PROVE CardOnce'
  <2>1. card[c] = "claimed" /\ executed[c] = 0 /\ \A u \in Tab : taken[u] = c => u = t
    BY <1>7 DEF Execute, CardOnce, CardTypes
  <2>2. /\ \A e \in Card : executed'[e] = IF e = c THEN executed[c] + 1 ELSE executed[e]
        /\ \A u \in Tab : taken'[u] = IF u = t THEN None ELSE taken[u]
        /\ card' = card
    BY <1>7 DEF Execute, CardTypes
  <2> QED BY <2>1, <2>2, Consts DEF CardOnce
<1>8. CASE Restart
  <2>1. \A t \in Tab : taken'[t] = None
    BY <1>8 DEF Restart, NoRequests
  <2>2. card' = card /\ executed' = executed
    BY <1>8 DEF Restart
  <2> QED BY <2>1, <2>2, Consts DEF CardOnce
<1> QED BY <1>2, <1>3, <1>4, <1>5, <1>6, <1>7, <1>8, Steps DEF CardStep, LoopStep

-----------------------------------------------------------------------------
LEMMA IInvStep == IInv /\ [Next]_vars => IInv'
BY TypeStep, OneStep, AccountsStep, CardStepOnce DEF IInv, Accounts

\* The invariant: the types, at most one start in flight and none beside a
\* registered daemon, and a fate for what is about to be marked read.
THEOREM Invariant == Spec => []IInv
BY InitInv, IInvStep, PTL DEF Spec

\* Every variable of the copilot holds a value of its kind, failedTurns at most
\* MAX_ATTEMPTS_PER_BATCH.
THEOREM TypeCorrect == Spec => []TypeOK
<1>1. IInv => TypeOK
  BY DEF IInv
<1> QED BY <1>1, Invariant, PTL

\* However posts, wake-ups, scans, crashes, stops and slow starts interleave,
\* a user has one daemon that has not been stopped (copilot-runtime.ts).
THEOREM NeverTwoDaemons == Spec => []OneLiveDaemon
<1>1. IInv => OneLiveDaemon
  BY DEF IInv
<1> QED BY <1>1, Invariant, PTL

\* Mail is marked read only after it was handled, or given up with a report, or
\* cut by a change of model (copilot-daemon.ts, markTurnRead).
THEOREM NothingReadUnaccounted == Spec => []ReadIsAccounted
<1>1. IInv => ReadIsAccounted
  BY DEF IInv
<1> QED BY <1>1, Invariant, PTL

\* However tabs and restarts interleave, a confirmed card is carried out at most
\* once (copilot-pending-routes.ts, pending-actions.ts).
THEOREM CardsRunOnce == Spec => []CardOnce
<1>1. IInv => CardOnce
  BY DEF IInv
<1> QED BY <1>1, Invariant, PTL
=============================================================================
