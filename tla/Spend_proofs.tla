---------------------------- MODULE Spend_proofs ----------------------------
(***************************************************************************)
(* Proofs about Spend: its types, BookedOnce, CapBinds and PauseJustified, *)
(* for any agents, jobs, caps, limits and environments.                    *)
(***************************************************************************)
EXTENDS Spend, SumTheorems

-----------------------------------------------------------------------------
(* The inductive invariant *)

\* What an agent's accumulator holds has been called; a spender that is not idle
\* is one of the environment's.
Counted ==
  /\ \A a \in Agent : acc[a] <= calls
  /\ \A s \in Spender : pc[s] # "idle" => s \in env
  /\ \A j \in Job : pc[j] \in {"idle", "calling", "charging", "checking"}

\* What a check or a route has read: nothing below Unread, and no cap above the
\* highest ever in force; only a check in progress has read anything.
SeenOK(v, h) ==
  /\ v.life >= Unread /\ v.turns >= Unread
  /\ v.cap = Unread \/ (v.cap >= 0 /\ EffectiveCap(v.cap) <= h)
Reads ==
  /\ EffectiveCap(cap) <= highCap
  /\ \A r \in Reader : SeenOK(seen[r], highCap)
  /\ \A s \in Spender : pc[s] # "checking" => seen[s] = Nothing

Before  == {"prepare", "charging", "ready"}
Opening == {"reconcile", "claimed", "opening"}
Running == {"gate", "calling", "recording", "checking", "tools", "closing"}

\* The document of an agent's turn t has not been touched.
Fresh(a, t) ==
  /\ status[<<a, t>>] = "none" /\ cost[<<a, t>>] = 0 /\ booked[<<a, t>>] = 0
  /\ <<a, t>> \notin cut /\ <<a, t>> \notin unwritten

\* The turn at hand: there is room for one that is about to start; its document
\* is untouched until it opens, is not booked before its end, and never holds
\* more than the accumulator.
Current(a) ==
  /\ pc[a] \in Before => turn[a] < MaxTurns
  /\ \A t \in Turn : t > turn[a] => Fresh(a, t)
  /\ pc[a] \in Opening => turn[a] \in Turn /\ Fresh(a, turn[a]) /\ acc[a] = 0
  /\ pc[a] \in Running =>
       /\ turn[a] \in Turn /\ booked[Doc(a)] = 0 /\ status[Doc(a)] \in {"none", "running"}
       /\ Doc(a) \notin cut /\ Doc(a) \notin unwritten
       /\ status[Doc(a)] = "running" => cost[Doc(a)] <= acc[a]
  /\ pc[a] = "recording" =>
       acc[a] >= 1 /\ (status[Doc(a)] = "running" => cost[Doc(a)] < acc[a])
  /\ pc[a] = "adding" =>
       /\ turn[a] \in Turn /\ booked[Doc(a)] = 0 /\ Doc(a) \notin cut
       /\ status[Doc(a)] = "complete" <=> Doc(a) \notin unwritten
       /\ status[Doc(a)] \in {"none", "running", "complete"}
       /\ status[Doc(a)] = "running" => cost[Doc(a)] <= acc[a]

\* The stale turn claimed by a reconciliation: an earlier one, aborted, whose
\* cost nobody has added unless its end could not be written.
Claimed(a) ==
  /\ pc[a] = "claimed" <=> held[a] # 0
  /\ pc[a] = "claimed" =>
       LET x == <<a, held[a]>>
       IN  /\ held[a] \in Turn /\ held[a] < turn[a] /\ status[x] = "aborted"
           /\ x \in unwritten \/ (booked[x] = 0 /\ x \notin cut)
Turns == \A a \in Agent : Current(a) /\ Claimed(a)

\* A turn still marked as running is not booked, and a cut one is over, unless
\* its end could not be written.
BookedAt(x) ==
  /\ status[x] = "running" => x \in unwritten \/ (booked[x] = 0 /\ x \notin cut)
  /\ x \in unwritten \/ booked[x] <= 1
  /\ x \in cut => booked[x] = 0 \/ x \in unwritten
Booked == \A x \in Agent \X Turn : BookedAt(x)

\* An ended turn was added, is being added, or was cut.
EndedAt(a, t) ==
  status[<<a, t>>] \in {"complete", "aborted"} =>
    \/ booked[<<a, t>>] > 0 \/ <<a, t>> \in cut
    \/ held[a] = t \/ (turn[a] = t /\ pc[a] = "adding")
Ended == \A a \in Agent, t \in Turn : EndedAt(a, t)

\* Calls answered whose cost no document has yet.
Pending ==
  {j \in Job : pc[j] = "charging"} \cup {a \in Agent : pc[a] = "recording" /\ ~tool[a]}

\* Every call answered is in a document, between two, about to be recorded, or
\* named as a lapse.
Accounted == calls <= Spent + Cardinality(Pending) + lapses

\* A spender with a call answered that its own check has yet to see.
Asked(s) ==
  IF s \in Job THEN pc[s] \in {"charging", "checking"}
  ELSE pc[s] = "checking" \/ (pc[s] = "recording" /\ ~tool[s])
Begun(s) == pc[s] = "checking" /\ (seen[s].life # Unread \/ seen[s].turns # Unread)

\* What its check would find if it read the rest now.
Sight(s) ==
  (IF seen[s].life = Unread THEN LifeTotal ELSE seen[s].life)
  + (IF seen[s].turns = Unread THEN RunTotal ELSE seen[s].turns)

\* The spenders whose check may still find a cap of k reached, or miss it only
\* because it is torn.
Blind(k) == {s \in Spender : Asked(s) /\ (Begun(s) /\ s \notin torn => Sight(s) >= k)}
Calling  == {s \in Spender : pc[s] = "calling"}

\* CapBinds through the steps, for every cap k not yet exceeded: what is called
\* beyond k is one call of each spender that has not looked since, or, once the
\* mission is paused, of each that is not still in its call.
BoundAt(k) ==
  calls - lapses <= k - 1 + Cardinality(Active) * lifts
                    + IF paused THEN Cardinality(Active \ Calling)
                                ELSE Cardinality(Blind(k))
Bound == \A k \in Nat : k >= highCap => BoundAt(k)

\* PauseJustified also while an extension is between its reads and its write.
Justified ==
  paused /\ op \in {"idle", "extend"} => Spent >= EffectiveCap(cap) \/ misled # {}

IInv == TypeOK /\ Counted /\ Reads /\ Turns /\ Booked /\ Ended /\ Accounted /\ Bound /\ Justified

-----------------------------------------------------------------------------
(* Types *)

\* What SpendAssumption says, part by part.
LEMMA Consts ==
  /\ BootCap \in Nat \ {0} /\ Ceiling \in Nat \ {0} /\ AddUsd \in Nat \ {0}
  /\ TurnLimit \in Nat /\ LifeLimit \in Nat /\ FailClosedAfter \in Nat \ {0}
  /\ MaxTurns \in Nat /\ MaxCalls \in Nat /\ MaxOps \in Nat /\ MaxFaults \in Nat
  /\ \A a \in Agent : a \notin Job /\ a # Operator
  /\ \A j \in Job : j # Operator /\ Owner[j] \in Agent
BY SpendAssumption DEF Operator, Spender

DocTypes ==
  /\ status \in [Agent \X Turn -> {"none", "running", "complete", "aborted"}]
  /\ cost \in [Agent \X Turn -> 0 .. MaxCalls]
  /\ life \in [Agent -> Nat] /\ booked \in [Agent \X Turn -> Nat]
  /\ cut \subseteq Agent \X Turn /\ unwritten \subseteq Agent \X Turn
LoopTypes ==
  /\ pc \in [Spender -> InTurn \cup {"idle", "prepare", "charging", "ready"}]
  /\ turn \in [Agent -> 0 .. MaxTurns] /\ acc \in [Agent -> 0 .. MaxCalls]
  /\ held \in [Agent -> 0 .. MaxTurns] /\ tool \in [Agent -> BOOLEAN]
CheckTypes ==
  /\ check \in [{"loop", "job"} -> [failures: 0 .. FailClosedAfter - 1, alerted: BOOLEAN]]
  /\ seen \in [Reader -> [life: Int, turns: Int, cap: Int]]
  /\ torn \subseteq Reader
CountTypes ==
  /\ env \in Envs /\ paused \in BOOLEAN /\ op \in {"idle", "extend", "resume", "set"}
  /\ cap \in 0 .. Ceiling \cup {BootCap} /\ highCap \in Nat
  /\ calls \in 0 .. MaxCalls /\ lifts \in Nat /\ lapses \in Int
  /\ misled \subseteq Causes
  /\ used \in [ops: 0 .. MaxOps, faults: 0 .. MaxFaults]

\* TypeOK in the groups in which the actions change the variables.
LEMMA TypeParts == TypeOK <=> DocTypes /\ LoopTypes /\ CheckTypes /\ CountTypes
BY DEF TypeOK, DocTypes, LoopTypes, CheckTypes, CountTypes

\* The same, after a step.
LEMMA TypePrime == DocTypes' /\ LoopTypes' /\ CheckTypes' /\ CountTypes' => TypeOK'
BY DEF TypeOK, DocTypes, LoopTypes, CheckTypes, CountTypes

\* The documents are finitely many.
LEMMA Finite ==
  /\ IsFiniteSet(Agent) /\ IsFiniteSet(Job) /\ IsFiniteSet(Spender)
  /\ IsFiniteSet(Agent \X Turn)
<1>1. IsFiniteSet(Agent) /\ IsFiniteSet(Job) /\ MaxTurns \in Nat
  BY SpendAssumption
<1>2. IsFiniteSet(Turn)
  BY <1>1, FS_Interval DEF Turn
<1> QED BY <1>1, <1>2, FS_Union, FS_Product DEF Spender

\* What readMissionSnapshot sums is a natural number.
LEMMA TotalTypes ==
  ASSUME DocTypes, MaxCalls \in Nat PROVE LifeTotal \in Nat /\ RunTotal \in Nat
<1>1. life \in [Agent -> Nat]
  BY DEF DocTypes
<1>2. [x \in Agent \X Turn |-> IF status[x] = "running" THEN cost[x] ELSE 0]
        \in [Agent \X Turn -> Nat]
  BY DEF DocTypes
<1> QED BY <1>1, <1>2, Finite, SumNat DEF LifeTotal, RunTotal

\* What the invariant says of where an agent's steps write.
LEMMA Where ==
  ASSUME IInv, NEW a \in Agent
  PROVE  /\ pc[a] \in Before => turn[a] + 1 \in Turn
         /\ pc[a] \in Opening \cup Running \cup {"adding"} => Doc(a) \in Agent \X Turn
         /\ pc[a] = "claimed" => <<a, held[a]>> \in Agent \X Turn
         /\ acc[a] \in Nat /\ acc[a] <= calls
<1>1. DocTypes /\ LoopTypes /\ CountTypes /\ Current(a) /\ Claimed(a) /\ Counted
  BY TypeParts DEF IInv, Turns
<1>2. turn[a] \in 0 .. MaxTurns /\ MaxTurns \in Nat /\ acc[a] \in 0 .. MaxCalls
  BY <1>1, Consts DEF LoopTypes
<1> QED BY <1>1, <1>2 DEF Current, Claimed, Doc, Turn, Counted

\* What a death loses of an agent's spend is a cost, never a debt.
LEMMA UnsavedNat ==
  ASSUME IInv
  PROVE  /\ \A a \in Agent : Unsaved(a) \in Nat
         /\ SumFunction([a \in Agent |-> Unsaved(a)]) \in Nat
<1>1. ASSUME NEW a \in Agent PROVE Unsaved(a) \in Nat
  <2>1. DocTypes /\ LoopTypes /\ Current(a) /\ Claimed(a)
    BY TypeParts DEF IInv, Turns
  <2>2. acc[a] \in Nat
    BY Where
  <2>3. CASE pc[a] = "claimed"
    <3>1. cost[<<a, held[a]>>] \in Nat
      BY <2>1, <2>3, Where, Consts DEF DocTypes
    <3> QED BY <2>3, <3>1 DEF Unsaved
  <2>4. CASE pc[a] = "adding"
    BY <2>2, <2>4 DEF Unsaved
  <2>5. CASE pc[a] \in InTurn \ {"claimed", "adding"}
    <3>1. Doc(a) \in Agent \X Turn
      BY <2>5, Where DEF InTurn, Opening, Running
    <3>2. cost[Doc(a)] \in Nat
      BY <2>1, <3>1, Consts DEF DocTypes
    <3>3. status[Doc(a)] = "running" => cost[Doc(a)] <= acc[a]
      BY <2>1, <2>5 DEF Current, InTurn, Opening, Running, Fresh, Doc
    <3> QED BY <2>2, <2>5, <3>2, <3>3 DEF Unsaved
  <2>6. CASE pc[a] \notin InTurn
    BY <2>6 DEF Unsaved, InTurn
  <2> QED BY <2>3, <2>4, <2>5, <2>6
<1>2. [a \in Agent |-> Unsaved(a)] \in [Agent -> Nat]
  BY <1>1
<1> QED BY <1>1, <1>2, Finite, SumNat

\* The documents keep their types.
LEMMA DocStep ==
  ASSUME IInv, Next
  PROVE  DocTypes'
<1>0. DocTypes /\ LoopTypes
  BY TypeParts DEF IInv
<1>1. ASSUME NEW a \in Agent, Dispatch(a) PROVE DocTypes'
  BY <1>0, <1>1 DEF DocTypes, Dispatch, mongoVars, turnVars, bookVars, capVars
<1>2. ASSUME NEW a \in Agent, Reflect(a) PROVE DocTypes'
  BY <1>0, <1>2 DEF DocTypes, Reflect, mongoVars, turnVars, bookVars, capVars
<1>3. ASSUME NEW a \in Agent, StartTurn(a) PROVE DocTypes'
  BY <1>0, <1>3 DEF DocTypes, StartTurn, mongoVars, bookVars, capVars
<1>4. ASSUME NEW a \in Agent, Claim(a) PROVE DocTypes'
  BY <1>0, <1>4 DEF DocTypes, Claim, bookVars, capVars
<1>5. ASSUME NEW a \in Agent, AddClaimed(a) PROVE DocTypes'
  <2>1. <<a, held[a]>> \in Agent \X Turn /\ cost[<<a, held[a]>>] \in Nat
    BY <1>0, <1>5, Where, Consts DEF AddClaimed, DocTypes
  <2>2. life' \in [Agent -> Nat]
    BY <1>0, <1>5, <2>1 DEF DocTypes, AddClaimed
  <2>3. booked' \in [Agent \X Turn -> Nat]
    BY <1>0, <1>5, <2>1 DEF DocTypes, AddClaimed
  <2>4. cut' \subseteq Agent \X Turn
    BY <1>0, <1>5, <2>1 DEF DocTypes, AddClaimed
  <2> QED BY <1>0, <1>5, <2>2, <2>3, <2>4 DEF DocTypes, AddClaimed
<1>6. ASSUME NEW a \in Agent, OpenTurn(a) PROVE DocTypes'
  <2>1. cost' \in [Agent \X Turn -> 0 .. MaxCalls]
    BY <1>0, <1>6, Consts DEF DocTypes, OpenTurn
  <2>2. status' \in [Agent \X Turn -> {"none", "running", "complete", "aborted"}]
    BY <1>0, <1>6 DEF DocTypes, OpenTurn
  <2> QED BY <1>0, <1>6, <2>1, <2>2 DEF DocTypes, OpenTurn, bookVars
<1>7. ASSUME NEW a \in Agent, PassGate(a) PROVE DocTypes'
  BY <1>0, <1>7 DEF DocTypes, PassGate, mongoVars, turnVars, bookVars, capVars
<1>8. ASSUME NEW a \in Agent, Record(a) PROVE DocTypes'
  <2>1. acc[a] \in 0 .. MaxCalls
    BY <1>0 DEF LoopTypes
  <2>2. cost' \in [Agent \X Turn -> 0 .. MaxCalls]
    BY <1>0, <1>8, <2>1 DEF DocTypes, Record
  <2>3. status' \in [Agent \X Turn -> {"none", "running", "complete", "aborted"}]
    BY <1>0, <1>8 DEF DocTypes, Record
  <2> QED BY <1>0, <1>8, <2>2, <2>3 DEF DocTypes, Record, bookVars
<1>9. ASSUME NEW a \in Agent, NextCall(a) PROVE DocTypes'
  BY <1>0, <1>9 DEF DocTypes, NextCall, mongoVars, bookVars, capVars
<1>10. ASSUME NEW a \in Agent, EndTurn(a) PROVE DocTypes'
  BY <1>0, <1>10 DEF DocTypes, EndTurn, mongoVars, turnVars, bookVars, capVars
<1>11. ASSUME NEW a \in Agent, CloseTurn(a) PROVE DocTypes'
  <2>1. acc[a] \in 0 .. MaxCalls
    BY <1>0 DEF LoopTypes
  <2>2. cost' \in [Agent \X Turn -> 0 .. MaxCalls]
    BY <1>0, <1>11, <2>1 DEF DocTypes, CloseTurn
  <2>3. status' \in [Agent \X Turn -> {"none", "running", "complete", "aborted"}]
    BY <1>0, <1>11 DEF DocTypes, CloseTurn
  <2>4. Doc(a) \in Agent \X Turn
    BY <1>11, Where DEF CloseTurn, Running
  <2> QED BY <1>0, <1>11, <2>2, <2>3, <2>4 DEF DocTypes, CloseTurn
<1>12. ASSUME NEW a \in Agent, AddTurn(a) PROVE DocTypes'
  <2>1. Doc(a) \in Agent \X Turn /\ acc[a] \in Nat
    BY <1>12, Where DEF AddTurn
  <2> QED BY <1>0, <1>12, <2>1 DEF DocTypes, AddTurn
<1>13. ASSUME NEW j \in Job, JobCall(j) PROVE DocTypes'
  BY <1>0, <1>13 DEF DocTypes, JobCall, mongoVars, turnVars, bookVars, capVars
<1>14. ASSUME NEW s \in Spender, Charge(s) PROVE DocTypes'
  <2>1. life' \in [Agent -> Nat]
    BY <1>0, <1>14 DEF DocTypes, Charge
  <2> QED BY <1>0, <1>14, <2>1 DEF DocTypes, Charge, bookVars
<1>15. ASSUME NEW s \in Spender, Answer(s) PROVE DocTypes'
  BY <1>0, <1>15 DEF DocTypes, Answer, mongoVars, bookVars, capVars
<1>16. ASSUME NEW s \in Spender, CheckCap(s) PROVE DocTypes'
  BY <1>0, <1>16 DEF DocTypes, CheckCap, mongoVars, turnVars, bookVars, capVars
<1>17. ASSUME NEW s \in Spender, CheckFails(s) PROVE DocTypes'
  BY <1>0, <1>17 DEF DocTypes, CheckFails, mongoVars, turnVars, bookVars, capVars
<1>18. ASSUME NEW r \in Reader, NEW part \in {"life", "turns", "cap"}, Read(r, part)
       PROVE DocTypes'
  BY <1>0, <1>18 DEF DocTypes, Read, mongoVars, turnVars, bookVars, capVars
<1>19. CASE Extend
  BY <1>0, <1>19 DEF DocTypes, Extend, mongoVars, turnVars, bookVars
<1>20. CASE ExtendWrite
  BY <1>0, <1>20 DEF DocTypes, ExtendWrite, mongoVars, turnVars, bookVars
<1>21. CASE ExtendResume
  BY <1>0, <1>21 DEF DocTypes, ExtendResume, mongoVars, turnVars, bookVars
<1>22. CASE SetCap
  BY <1>0, <1>22 DEF DocTypes, SetCap, mongoVars, turnVars, bookVars
<1>23. CASE SetResume
  BY <1>0, <1>23 DEF DocTypes, SetResume, mongoVars, turnVars, bookVars
<1>24. CASE SaveCap
  BY <1>0, <1>24 DEF DocTypes, SaveCap, mongoVars, turnVars, bookVars
<1>25. CASE Die
  <2>1. \A b \in Agent : /\ pc[b] = "claimed" => <<b, held[b]>> \in Agent \X Turn
                         /\ pc[b] = "adding" => Doc(b) \in Agent \X Turn
    BY Where
  <2>2. \A x \in {<<a, held[a]>> : a \in {b \in Agent : pc[b] = "claimed"}} : x \in Agent \X Turn
    BY <2>1
  <2>3. {Doc(a) : a \in {b \in Agent : pc[b] = "adding"}} \subseteq Agent \X Turn
    BY <2>1
  <2>4. cut' \subseteq Agent \X Turn
    BY <1>0, <1>25, <2>2, <2>3 DEF DocTypes, Die
  <2> QED BY <1>0, <1>25, <2>4 DEF DocTypes, Die, mongoVars
<1> QED
  BY <1>1, <1>2, <1>3, <1>4, <1>5, <1>6, <1>7, <1>8, <1>9, <1>10, <1>11, <1>12, <1>13,
     <1>14, <1>15, <1>16, <1>17, <1>18, <1>19, <1>20, <1>21, <1>22, <1>23, <1>24, <1>25
     DEF Next, TurnStep, CallStep, OperatorStep

\* So does where every spender is, and what it remembers.
LEMMA LoopStep ==
  ASSUME IInv, Next
  PROVE  LoopTypes'
<1>0. LoopTypes /\ CountTypes
  BY TypeParts DEF IInv
<1>1. ASSUME NEW a \in Agent, Dispatch(a) PROVE LoopTypes'
  BY <1>0, <1>1
     DEF LoopTypes, Dispatch, mongoVars, turnVars, bookVars, capVars, Go, InTurn
<1>2. ASSUME NEW a \in Agent, Reflect(a) PROVE LoopTypes'
  BY <1>0, <1>2
     DEF LoopTypes, Reflect, mongoVars, turnVars, bookVars, capVars, Go, InTurn
<1>3. ASSUME NEW a \in Agent, StartTurn(a) PROVE LoopTypes'
  <2>1. pc' \in [Spender -> InTurn \cup {"idle", "prepare", "charging", "ready"}]
    BY <1>0, <1>3 DEF LoopTypes, StartTurn, mongoVars, bookVars, capVars, Go, InTurn
  <2>2. turn[a] + 1 \in Turn
    BY <1>3, Where DEF StartTurn, Before
  <2>3. turn' \in [Agent -> 0 .. MaxTurns] /\ acc' \in [Agent -> 0 .. MaxCalls]
    BY <1>0, <1>3, <2>2, Consts DEF LoopTypes, StartTurn, Turn
  <2> QED BY <1>0, <1>3, <2>1, <2>3 DEF LoopTypes, StartTurn
<1>4. ASSUME NEW a \in Agent, Claim(a) PROVE LoopTypes'
  <2>1. pc' \in [Spender -> InTurn \cup {"idle", "prepare", "charging", "ready"}]
    BY <1>0, <1>4 DEF LoopTypes, Claim, bookVars, capVars, Go, InTurn
  <2>2. PICK t \in Stale(a) : held' = [held EXCEPT ![a] = t]
    BY <1>4 DEF Claim
  <2>3. t \in 0 .. MaxTurns
    BY <2>2, Consts DEF Stale, Turn
  <2>4. held' \in [Agent -> 0 .. MaxTurns]
    BY <1>0, <2>2, <2>3 DEF LoopTypes
  <2> QED BY <1>0, <1>4, <2>1, <2>4 DEF LoopTypes, Claim
<1>5. ASSUME NEW a \in Agent, AddClaimed(a) PROVE LoopTypes'
  <2>1. pc' \in [Spender -> InTurn \cup {"idle", "prepare", "charging", "ready"}]
    BY <1>0, <1>5 DEF LoopTypes, AddClaimed, capVars, Go, InTurn
  <2>2. held' \in [Agent -> 0 .. MaxTurns]
    BY <1>0, <1>5, Consts DEF LoopTypes, AddClaimed
  <2> QED BY <1>0, <1>5, <2>1, <2>2 DEF LoopTypes, AddClaimed
<1>6. ASSUME NEW a \in Agent, OpenTurn(a) PROVE LoopTypes'
  <2>1. pc' \in [Spender -> InTurn \cup {"idle", "prepare", "charging", "ready"}]
    BY <1>0, <1>6 DEF LoopTypes, OpenTurn, bookVars, capVars, Go, InTurn
  <2>2. tool' \in [Agent -> BOOLEAN]
    BY <1>0, <1>6 DEF LoopTypes, OpenTurn
  <2> QED BY <1>0, <1>6, <2>1, <2>2 DEF LoopTypes, OpenTurn
<1>7. ASSUME NEW a \in Agent, PassGate(a) PROVE LoopTypes'
  BY <1>0, <1>7
     DEF LoopTypes, PassGate, mongoVars, turnVars, bookVars, capVars, Go, InTurn
<1>8. ASSUME NEW a \in Agent, Record(a) PROVE LoopTypes'
  BY <1>0, <1>8 DEF LoopTypes, Record, turnVars, bookVars, capVars, Go, InTurn
<1>9. ASSUME NEW a \in Agent, NextCall(a) PROVE LoopTypes'
  <2>1. pc' \in [Spender -> InTurn \cup {"idle", "prepare", "charging", "ready"}]
    BY <1>0, <1>9 DEF LoopTypes, NextCall, mongoVars, bookVars, capVars, Go, InTurn
  <2>2. tool' \in [Agent -> BOOLEAN]
    BY <1>0, <1>9 DEF LoopTypes, NextCall
  <2> QED BY <1>0, <1>9, <2>1, <2>2 DEF LoopTypes, NextCall
<1>10. ASSUME NEW a \in Agent, EndTurn(a) PROVE LoopTypes'
  BY <1>0, <1>10
     DEF LoopTypes, EndTurn, mongoVars, turnVars, bookVars, capVars, Go, InTurn
<1>11. ASSUME NEW a \in Agent, CloseTurn(a) PROVE LoopTypes'
  BY <1>0, <1>11 DEF LoopTypes, CloseTurn, turnVars, capVars, Go, InTurn
<1>12. ASSUME NEW a \in Agent, AddTurn(a) PROVE LoopTypes'
  <2>1. pc' \in [Spender -> InTurn \cup {"idle", "prepare", "charging", "ready"}]
    BY <1>0, <1>12 DEF LoopTypes, AddTurn, capVars, Go, InTurn
  <2>2. acc' \in [Agent -> 0 .. MaxCalls]
    BY <1>0, <1>12, Consts DEF LoopTypes, AddTurn
  <2> QED BY <1>0, <1>12, <2>1, <2>2 DEF LoopTypes, AddTurn
<1>13. ASSUME NEW j \in Job, JobCall(j) PROVE LoopTypes'
  BY <1>0, <1>13
     DEF LoopTypes, JobCall, mongoVars, turnVars, bookVars, capVars, Go, InTurn
<1>14. ASSUME NEW s \in Spender, Charge(s) PROVE LoopTypes'
  BY <1>0, <1>14 DEF LoopTypes, Charge, turnVars, bookVars, capVars, Go, InTurn
<1>15. ASSUME NEW s \in Spender, Answer(s) PROVE LoopTypes'
  <2>1. pc' \in [Spender -> InTurn \cup {"idle", "prepare", "charging", "ready"}]
    BY <1>0, <1>15 DEF LoopTypes, Answer, mongoVars, bookVars, capVars, Go, InTurn
  <2>2. acc' \in [Agent -> 0 .. MaxCalls]
    <3>1. CASE s \in Job
      BY <1>0, <1>15, <3>1 DEF LoopTypes, Answer
    <3>2. CASE s \notin Job
      <4>1. s \in Agent
        BY <3>2 DEF Spender
      <4>2. acc[s] \in Nat /\ acc[s] + 1 <= MaxCalls
        <5>1. acc[s] \in Nat /\ acc[s] <= calls
          BY <4>1, Where
        <5>2. calls \in Nat /\ calls < MaxCalls
          BY <1>0, <1>15, Consts DEF CountTypes, Answer
        <5> QED BY <5>1, <5>2, Consts
      <4>3. acc' = [acc EXCEPT ![s] = @ + 1]
        BY <1>15, <3>2 DEF Answer
      <4> QED BY <1>0, <4>1, <4>2, <4>3, Consts DEF LoopTypes
    <3> QED BY <3>1, <3>2
  <2> QED BY <1>0, <1>15, <2>1, <2>2 DEF LoopTypes, Answer
<1>16. ASSUME NEW s \in Spender, CheckCap(s) PROVE LoopTypes'
  BY <1>0, <1>16
     DEF LoopTypes, CheckCap, mongoVars, turnVars, bookVars, capVars, AfterCheck, Go,
         InTurn
<1>17. ASSUME NEW s \in Spender, CheckFails(s) PROVE LoopTypes'
  BY <1>0, <1>17
     DEF LoopTypes, CheckFails, mongoVars, turnVars, bookVars, capVars, AfterCheck, Go,
         InTurn
<1>18. ASSUME NEW r \in Reader, NEW part \in {"life", "turns", "cap"}, Read(r, part)
       PROVE LoopTypes'
  BY <1>0, <1>18 DEF LoopTypes, Read, mongoVars, turnVars, bookVars, capVars
<1>19. CASE Extend
  BY <1>0, <1>19 DEF LoopTypes, Extend, mongoVars, turnVars, bookVars
<1>20. CASE ExtendWrite
  BY <1>0, <1>20 DEF LoopTypes, ExtendWrite, mongoVars, turnVars, bookVars
<1>21. CASE ExtendResume
  BY <1>0, <1>21 DEF LoopTypes, ExtendResume, mongoVars, turnVars, bookVars
<1>22. CASE SetCap
  BY <1>0, <1>22 DEF LoopTypes, SetCap, mongoVars, turnVars, bookVars
<1>23. CASE SetResume
  BY <1>0, <1>23 DEF LoopTypes, SetResume, mongoVars, turnVars, bookVars
<1>24. CASE SaveCap
  BY <1>0, <1>24 DEF LoopTypes, SaveCap, mongoVars, turnVars, bookVars
<1>25. CASE Die
  <2>1. /\ pc' \in [Spender -> InTurn \cup {"idle", "prepare", "charging", "ready"}]
        /\ tool' \in [Agent -> BOOLEAN]
    BY <1>25 DEF Die
  <2>2. acc' \in [Agent -> 0 .. MaxCalls] /\ held' \in [Agent -> 0 .. MaxTurns]
    BY <1>25, Consts DEF Die
  <2> QED BY <1>0, <1>25, <2>1, <2>2 DEF LoopTypes, Die
<1> QED
  BY <1>1, <1>2, <1>3, <1>4, <1>5, <1>6, <1>7, <1>8, <1>9, <1>10, <1>11, <1>12, <1>13,
     <1>14, <1>15, <1>16, <1>17, <1>18, <1>19, <1>20, <1>21, <1>22, <1>23, <1>24, <1>25
     DEF Next, TurnStep, CallStep, OperatorStep

\* A reader that has read nothing has the type of a reader.
LEMMA NothingType == Nothing \in [life: Int, turns: Int, cap: Int]
BY DEF Nothing, Unread

\* The checks in progress keep their types.
LEMMA CheckStep ==
  ASSUME IInv, Next
  PROVE  CheckTypes'
<1>0. CheckTypes /\ DocTypes /\ CountTypes
  BY TypeParts DEF IInv
<1>1. ASSUME NEW a \in Agent, Dispatch(a) PROVE CheckTypes'
  BY <1>0, <1>1 DEF CheckTypes, Dispatch, mongoVars, turnVars, bookVars, capVars
<1>2. ASSUME NEW a \in Agent, Reflect(a) PROVE CheckTypes'
  BY <1>0, <1>2 DEF CheckTypes, Reflect, mongoVars, turnVars, bookVars, capVars
<1>3. ASSUME NEW a \in Agent, StartTurn(a) PROVE CheckTypes'
  BY <1>0, <1>3 DEF CheckTypes, StartTurn, mongoVars, bookVars, capVars
<1>4. ASSUME NEW a \in Agent, Claim(a) PROVE CheckTypes'
  BY <1>0, <1>4 DEF CheckTypes, Claim, bookVars, capVars, Tear
<1>5. ASSUME NEW a \in Agent, AddClaimed(a) PROVE CheckTypes'
  BY <1>0, <1>5 DEF CheckTypes, AddClaimed, capVars
<1>6. ASSUME NEW a \in Agent, OpenTurn(a) PROVE CheckTypes'
  BY <1>0, <1>6 DEF CheckTypes, OpenTurn, bookVars, capVars
<1>7. ASSUME NEW a \in Agent, PassGate(a) PROVE CheckTypes'
  BY <1>0, <1>7 DEF CheckTypes, PassGate, mongoVars, turnVars, bookVars, capVars
<1>8. ASSUME NEW a \in Agent, Record(a) PROVE CheckTypes'
  BY <1>0, <1>8 DEF CheckTypes, Record, turnVars, bookVars, capVars
<1>9. ASSUME NEW a \in Agent, NextCall(a) PROVE CheckTypes'
  BY <1>0, <1>9 DEF CheckTypes, NextCall, mongoVars, bookVars, capVars
<1>10. ASSUME NEW a \in Agent, EndTurn(a) PROVE CheckTypes'
  BY <1>0, <1>10 DEF CheckTypes, EndTurn, mongoVars, turnVars, bookVars, capVars
<1>11. ASSUME NEW a \in Agent, CloseTurn(a) PROVE CheckTypes'
  BY <1>0, <1>11 DEF CheckTypes, CloseTurn, turnVars, capVars, Tear
<1>12. ASSUME NEW a \in Agent, AddTurn(a) PROVE CheckTypes'
  BY <1>0, <1>12 DEF CheckTypes, AddTurn, capVars
<1>13. ASSUME NEW j \in Job, JobCall(j) PROVE CheckTypes'
  BY <1>0, <1>13 DEF CheckTypes, JobCall, mongoVars, turnVars, bookVars, capVars
<1>14. ASSUME NEW s \in Spender, Charge(s) PROVE CheckTypes'
  BY <1>0, <1>14 DEF CheckTypes, Charge, turnVars, bookVars, capVars
<1>15. ASSUME NEW s \in Spender, Answer(s) PROVE CheckTypes'
  BY <1>0, <1>15 DEF CheckTypes, Answer, mongoVars, bookVars, capVars
<1>16. ASSUME NEW s \in Spender, CheckCap(s) PROVE CheckTypes'
  <2>1. check' \in [{"loop", "job"} -> [failures: 0 .. FailClosedAfter - 1, alerted: BOOLEAN]]
    <3>1. 0 \in 0 .. FailClosedAfter - 1 /\ Whose(s) \in {"loop", "job"}
      BY Consts DEF Whose
    <3>2. check[Whose(s)] \in [failures: 0 .. FailClosedAfter - 1, alerted: BOOLEAN]
      BY <1>0, <3>1 DEF CheckTypes
    <3>3. \/ check' = [check EXCEPT ![Whose(s)].failures = 0]
          \/ check' = [check EXCEPT ![Whose(s)] = [failures |-> 0, alerted |-> TRUE]]
          \/ check' = check
      BY <1>16 DEF CheckCap
    <3>4. CASE check' = [check EXCEPT ![Whose(s)].failures = 0]
      BY <1>0, <3>1, <3>2, <3>4 DEF CheckTypes
    <3>5. CASE check' = [check EXCEPT ![Whose(s)] = [failures |-> 0, alerted |-> TRUE]]
      BY <1>0, <3>1, <3>5 DEF CheckTypes
    <3> QED BY <1>0, <3>3, <3>4, <3>5 DEF CheckTypes
  <2>2. seen' \in [Reader -> [life: Int, turns: Int, cap: Int]] /\ torn' \subseteq Reader
    BY <1>0, <1>16, NothingType DEF CheckTypes, CheckCap, Done
  <2> QED BY <2>1, <2>2 DEF CheckTypes
<1>17. ASSUME NEW s \in Spender, CheckFails(s) PROVE CheckTypes'
  <2>1. check[Whose(s)].failures + 1 \in Nat
    BY <1>0, Consts DEF CheckTypes, Whose
  <2>2. (check[Whose(s)].failures + 1) % FailClosedAfter \in 0 .. FailClosedAfter - 1
    BY <2>1, Consts
  <2>3. check' \in [{"loop", "job"} -> [failures: 0 .. FailClosedAfter - 1, alerted: BOOLEAN]]
    BY <1>0, <1>17, <2>2 DEF CheckTypes, CheckFails, Whose
  <2>4. seen' \in [Reader -> [life: Int, turns: Int, cap: Int]] /\ torn' \subseteq Reader
    BY <1>0, <1>17, NothingType DEF CheckTypes, CheckFails, Done
  <2> QED BY <2>3, <2>4 DEF CheckTypes
<1>18. ASSUME NEW r \in Reader, NEW part \in {"life", "turns", "cap"}, Read(r, part)
       PROVE CheckTypes'
  <2>1. LifeTotal \in Int /\ RunTotal \in Int /\ cap \in Int
    BY <1>0, TotalTypes, Consts DEF CountTypes
  <2>2. seen' \in [Reader -> [life: Int, turns: Int, cap: Int]]
    <3>1. CASE part = "life"
      BY <1>0, <1>18, <2>1, <3>1 DEF CheckTypes, Read
    <3>2. CASE part = "turns"
      BY <1>0, <1>18, <2>1, <3>2 DEF CheckTypes, Read
    <3>3. CASE part = "cap"
      BY <1>0, <1>18, <2>1, <3>3 DEF CheckTypes, Read
    <3> QED BY <3>1, <3>2, <3>3
  <2> QED BY <1>0, <1>18, <2>2 DEF CheckTypes, Read
<1>19. CASE Extend
  BY <1>0, <1>19 DEF CheckTypes, Extend, mongoVars, turnVars, bookVars
<1>20. CASE ExtendWrite
  BY <1>0, <1>20, NothingType
     DEF CheckTypes, ExtendWrite, Done, mongoVars, turnVars, bookVars
<1>21. CASE ExtendResume
  BY <1>0, <1>21 DEF CheckTypes, ExtendResume, mongoVars, turnVars, bookVars
<1>22. CASE SetCap
  <2>1. seen' \in [Reader -> [life: Int, turns: Int, cap: Int]]
    BY <1>0, <1>22, Consts DEF CheckTypes, SetCap
  <2> QED BY <1>0, <1>22, <2>1 DEF CheckTypes, SetCap
<1>23. CASE SetResume
  BY <1>0, <1>23, NothingType
     DEF CheckTypes, SetResume, Done, mongoVars, turnVars, bookVars
<1>24. CASE SaveCap
  BY <1>0, <1>24 DEF CheckTypes, SaveCap, mongoVars, turnVars, bookVars
<1>25. CASE Die
  <2>1. check' \in [{"loop", "job"} -> [failures: 0 .. FailClosedAfter - 1, alerted: BOOLEAN]]
    BY <1>25, Consts DEF Die
  <2>2. seen' \in [Reader -> [life: Int, turns: Int, cap: Int]] /\ torn' \subseteq Reader
    BY <1>25, NothingType DEF Die
  <2> QED BY <2>1, <2>2 DEF CheckTypes
<1> QED
  BY <1>1, <1>2, <1>3, <1>4, <1>5, <1>6, <1>7, <1>8, <1>9, <1>10, <1>11, <1>12, <1>13,
     <1>14, <1>15, <1>16, <1>17, <1>18, <1>19, <1>20, <1>21, <1>22, <1>23, <1>24, <1>25
     DEF Next, TurnStep, CallStep, OperatorStep

\* The counters keep theirs.
LEMMA CountStep ==
  ASSUME IInv, Next
  PROVE  CountTypes'
<1>0. CheckTypes /\ DocTypes /\ CountTypes
  BY TypeParts DEF IInv
<1>1. ASSUME NEW a \in Agent, Dispatch(a) PROVE CountTypes'
  BY <1>0, <1>1, Consts DEF CountTypes, Dispatch, mongoVars, turnVars, bookVars, capVars
<1>2. ASSUME NEW a \in Agent, Reflect(a) PROVE CountTypes'
  BY <1>0, <1>2, Consts
     DEF CountTypes, Reflect, mongoVars, turnVars, bookVars, capVars, Lapse
<1>3. ASSUME NEW a \in Agent, StartTurn(a) PROVE CountTypes'
  BY <1>0, <1>3, Consts DEF CountTypes, StartTurn, mongoVars, bookVars, capVars
<1>4. ASSUME NEW a \in Agent, Claim(a) PROVE CountTypes'
  BY <1>0, <1>4, Consts DEF CountTypes, Claim, bookVars, capVars
<1>5. ASSUME NEW a \in Agent, AddClaimed(a) PROVE CountTypes'
  <2>1. cost[<<a, held[a]>>] \in Nat
    BY <1>0, <1>5, Where, Consts DEF AddClaimed, DocTypes
  <2>2. lapses' \in Int
    BY <1>0, <1>5, <2>1 DEF CountTypes, AddClaimed, Lapse
  <2>3. misled' \subseteq Causes
    BY <1>0, <1>5 DEF CountTypes, AddClaimed, Causes
  <2>4. used' \in [ops: 0 .. MaxOps, faults: 0 .. MaxFaults]
    BY <1>0, <1>5, Consts DEF CountTypes, AddClaimed, Fault
  <2> QED BY <1>0, <1>5, <2>2, <2>3, <2>4 DEF CountTypes, AddClaimed, capVars
<1>6. ASSUME NEW a \in Agent, OpenTurn(a) PROVE CountTypes'
  <2>1. used' \in [ops: 0 .. MaxOps, faults: 0 .. MaxFaults]
    BY <1>0, <1>6, Consts DEF CountTypes, OpenTurn, Fault
  <2> QED BY <1>0, <1>6, <2>1 DEF CountTypes, OpenTurn, capVars
<1>7. ASSUME NEW a \in Agent, PassGate(a) PROVE CountTypes'
  BY <1>0, <1>7, Consts DEF CountTypes, PassGate, mongoVars, turnVars, bookVars, capVars
<1>8. ASSUME NEW a \in Agent, Record(a) PROVE CountTypes'
  <2>1. used' \in [ops: 0 .. MaxOps, faults: 0 .. MaxFaults]
    BY <1>0, <1>8, Consts DEF CountTypes, Record, Fault
  <2>2. lapses' \in Int
    BY <1>0, <1>8 DEF CountTypes, Record, Lapse
  <2> QED BY <1>0, <1>8, <2>1, <2>2 DEF CountTypes, Record, capVars
<1>9. ASSUME NEW a \in Agent, NextCall(a) PROVE CountTypes'
  BY <1>0, <1>9, Consts DEF CountTypes, NextCall, mongoVars, bookVars, capVars
<1>10. ASSUME NEW a \in Agent, EndTurn(a) PROVE CountTypes'
  BY <1>0, <1>10, Consts DEF CountTypes, EndTurn, mongoVars, turnVars, bookVars, capVars
<1>11. ASSUME NEW a \in Agent, CloseTurn(a) PROVE CountTypes'
  <2>1. used' \in [ops: 0 .. MaxOps, faults: 0 .. MaxFaults]
    BY <1>0, <1>11, Consts DEF CountTypes, CloseTurn, Fault
  <2> QED BY <1>0, <1>11, <2>1 DEF CountTypes, CloseTurn, capVars
<1>12. ASSUME NEW a \in Agent, AddTurn(a) PROVE CountTypes'
  <2>1. acc[a] \in Nat
    BY Where
  <2>2. lapses' \in Int
    BY <1>0, <1>12, <2>1 DEF CountTypes, AddTurn, Lapse
  <2>3. misled' \subseteq Causes
    BY <1>0, <1>12 DEF CountTypes, AddTurn, Causes
  <2>4. used' \in [ops: 0 .. MaxOps, faults: 0 .. MaxFaults]
    BY <1>0, <1>12, Consts DEF CountTypes, AddTurn, Fault
  <2> QED BY <1>0, <1>12, <2>2, <2>3, <2>4 DEF CountTypes, AddTurn, capVars
<1>13. ASSUME NEW j \in Job, JobCall(j) PROVE CountTypes'
  BY <1>0, <1>13, Consts DEF CountTypes, JobCall, mongoVars, turnVars, bookVars, capVars
<1>14. ASSUME NEW s \in Spender, Charge(s) PROVE CountTypes'
  <2>1. used' \in [ops: 0 .. MaxOps, faults: 0 .. MaxFaults]
    BY <1>0, <1>14, Consts DEF CountTypes, Charge, Fault
  <2>2. lapses' \in Int
    BY <1>0, <1>14 DEF CountTypes, Charge, Lapse
  <2> QED BY <1>0, <1>14, <2>1, <2>2 DEF CountTypes, Charge, capVars
<1>15. ASSUME NEW s \in Spender, Answer(s) PROVE CountTypes'
  <2>1. lapses' \in Int /\ calls' \in 0 .. MaxCalls
    BY <1>0, <1>15, Consts DEF CountTypes, Answer
  <2> QED BY <1>0, <1>15, <2>1 DEF CountTypes, Answer, capVars
<1>16. ASSUME NEW s \in Spender, CheckCap(s) PROVE CountTypes'
  <2>1. lapses' \in Int
    BY <1>0, <1>16 DEF CountTypes, CheckCap, Lapse
  <2>2. misled' \subseteq Causes
    BY <1>0, <1>16 DEF CountTypes, CheckCap, StaleNow, Causes
  <2>3. paused' \in BOOLEAN
    BY <1>0, <1>16 DEF CountTypes, CheckCap
  <2> QED BY <1>0, <1>16, <2>1, <2>2, <2>3 DEF CountTypes, CheckCap, capVars
<1>17. ASSUME NEW s \in Spender, CheckFails(s) PROVE CountTypes'
  <2>1. lapses' \in Int
    BY <1>0, <1>17 DEF CountTypes, CheckFails, Lapse
  <2>2. misled' \subseteq Causes
    BY <1>0, <1>17 DEF CountTypes, CheckFails, Causes
  <2>3. paused' \in BOOLEAN
    BY <1>0, <1>17 DEF CountTypes, CheckFails
  <2>4. used' \in [ops: 0 .. MaxOps, faults: 0 .. MaxFaults]
    BY <1>0, <1>17, Consts DEF CountTypes, CheckFails, Fault
  <2> QED BY <1>0, <1>17, <2>1, <2>2, <2>3, <2>4 DEF CountTypes, CheckFails, capVars
<1>18. ASSUME NEW r \in Reader, NEW part \in {"life", "turns", "cap"}, Read(r, part)
       PROVE CountTypes'
  BY <1>0, <1>18, Consts DEF CountTypes, Read, mongoVars, turnVars, bookVars, capVars
<1>19. CASE Extend
  <2>1. used' \in [ops: 0 .. MaxOps, faults: 0 .. MaxFaults]
    BY <1>0, <1>19, Consts DEF CountTypes, Extend, Operation
  <2> QED BY <1>0, <1>19, <2>1 DEF CountTypes, Extend
<1>20. CASE ExtendWrite
  <2> DEFINE base == IF seen[Operator].cap = NoCap THEN Saw(Operator) ELSE seen[Operator].cap
  <2>1. base \in Nat
    <3>1. seen[Operator].life \in Nat /\ seen[Operator].turns \in Nat /\ seen[Operator].cap \in Nat
      BY <1>0, <1>20
         DEF IInv, Reads, SeenOK, ExtendWrite, HasRead, CheckTypes, Reader, Unread
    <3> QED BY <3>1 DEF Saw
  <2>2. base + AddUsd <= Ceiling => base + AddUsd \in 0 .. Ceiling
    BY <2>1, Consts
  <2>3. IF base + AddUsd <= Ceiling THEN WriteCap(base + AddUsd) /\ op' = "resume"
                                    ELSE op' = "idle" /\ UNCHANGED <<cap, highCap>>
    BY <1>20 DEF ExtendWrite
  <2> HIDE DEF base
  <2>4. cap' \in 0 .. Ceiling \cup {BootCap} /\ highCap' \in Nat
    BY <1>0, <2>1, <2>2, <2>3, Consts DEF CountTypes, WriteCap
  <2>5. op' \in {"idle", "resume"}
    BY <2>3
  <2> QED BY <1>0, <1>20, <2>4, <2>5 DEF CountTypes, ExtendWrite
<1>21. CASE ExtendResume
  <2>1. lifts' \in Nat
    BY <1>0, <1>21 DEF CountTypes, ExtendResume, Lift
  <2>2. paused' \in BOOLEAN /\ misled' \subseteq Causes
    BY <1>21 DEF ExtendResume, Lift
  <2> QED BY <1>0, <1>21, <2>1, <2>2 DEF CountTypes, ExtendResume
<1>22. CASE SetCap
  <2>1. used' \in [ops: 0 .. MaxOps, faults: 0 .. MaxFaults]
    BY <1>0, <1>22, Consts DEF CountTypes, SetCap, Operation
  <2>2. cap' \in 0 .. Ceiling \cup {BootCap} /\ highCap' \in Nat
    BY <1>0, <1>22, Consts DEF CountTypes, SetCap, WriteCap
  <2>3. op' \in {"idle", "extend", "resume", "set"}
    BY <1>0, <1>22 DEF CountTypes, SetCap
  <2> QED BY <1>0, <1>22, <2>1, <2>2, <2>3 DEF CountTypes, SetCap
<1>23. CASE SetResume
  <2>1. lifts' \in Nat
    BY <1>0, <1>23 DEF CountTypes, SetResume, Lift
  <2>2. misled' \subseteq Causes
    BY <1>0, <1>23 DEF CountTypes, SetResume, Lift, StaleNow, Causes
  <2>3. paused' \in BOOLEAN
    BY <1>0, <1>23 DEF CountTypes, SetResume, Lift
  <2> QED BY <1>0, <1>23, <2>1, <2>2, <2>3 DEF CountTypes, SetResume
<1>24. CASE SaveCap
  <2>1. cap' \in 0 .. Ceiling \cup {BootCap} /\ highCap' \in Nat
    BY <1>0, <1>24, Consts DEF CountTypes, SaveCap, WriteCap
  <2>2. misled' \subseteq Causes
    BY <1>0, <1>24 DEF CountTypes, SaveCap, Causes
  <2>3. used' \in [ops: 0 .. MaxOps, faults: 0 .. MaxFaults]
    BY <1>0, <1>24, Consts DEF CountTypes, SaveCap
  <2> QED BY <1>0, <1>24, <2>1, <2>2, <2>3 DEF CountTypes, SaveCap
<1>25. CASE Die
  <2>1. SumFunction([a \in Agent |-> Unsaved(a)]) \in Int
    BY UnsavedNat
  <2>2. Cardinality({j \in Job : pc[j] = "charging"}) \in Int
    BY Finite, FS_Subset, FS_CardinalityType
  <2>3. lapses' \in Int
    BY <1>0, <1>25, <2>1, <2>2 DEF CountTypes, Die, Lapse
  <2>4. used' \in [ops: 0 .. MaxOps, faults: 0 .. MaxFaults]
    BY <1>0, <1>25, Consts DEF CountTypes, Die
  <2>5. paused' \in BOOLEAN /\ op' = "idle" /\ misled' \subseteq Causes
    BY <1>25 DEF Die
  <2>6. lifts' \in Nat
    BY <1>0, <1>25 DEF CountTypes, Die
  <2> QED BY <1>0, <1>25, <2>3, <2>4, <2>5, <2>6 DEF CountTypes, Die
<1> QED
  BY <1>1, <1>2, <1>3, <1>4, <1>5, <1>6, <1>7, <1>8, <1>9, <1>10, <1>11, <1>12, <1>13,
     <1>14, <1>15, <1>16, <1>17, <1>18, <1>19, <1>20, <1>21, <1>22, <1>23, <1>24, <1>25
     DEF Next, TurnStep, CallStep, OperatorStep

\* Every step keeps the types.
LEMMA TypeStep == ASSUME IInv, Next PROVE TypeOK'
BY DocStep, LoopStep, CheckStep, CountStep, TypePrime

-----------------------------------------------------------------------------
(* Who is at work, and what the checks have read *)

\* No step makes an idle spender, or one outside the environment, spend.
LEMMA CountedStep ==
  ASSUME IInv, TypeOK', Next
  PROVE  Counted'
<1>0. Counted /\ LoopTypes /\ CountTypes
  BY TypeParts DEF IInv
<1>1. ASSUME NEW a \in Agent, Dispatch(a) PROVE Counted'
  BY <1>0, <1>1, Consts
     DEF Counted, Dispatch, mongoVars, turnVars, bookVars, capVars, Go, Spender
<1>2. ASSUME NEW a \in Agent, Reflect(a) PROVE Counted'
  <2>1. \A b \in Agent : acc'[b] <= calls'
    BY <1>0, <1>2 DEF Counted, LoopTypes, CountTypes, Reflect, turnVars
  <2>2. \A s1 \in Spender : pc'[s1] # "idle" => s1 \in env'
    BY <1>0, <1>2
       DEF Counted, LoopTypes, Reflect, mongoVars, turnVars, bookVars, capVars, Go,
           Spender
  <2>3. \A j \in Job : pc'[j] \in {"idle", "calling", "charging", "checking"}
    BY <1>0, <1>2, Consts
       DEF Counted, LoopTypes, Reflect, mongoVars, turnVars, bookVars, capVars, Go,
           Spender
  <2> QED BY <2>1, <2>2, <2>3 DEF Counted
<1>3. ASSUME NEW a \in Agent, StartTurn(a) PROVE Counted'
  <2>1. \A b \in Agent : acc'[b] <= calls'
    BY <1>0, <1>3 DEF Counted, LoopTypes, CountTypes, StartTurn
  <2>2. \A s1 \in Spender : pc'[s1] # "idle" => s1 \in env'
    BY <1>0, <1>3
       DEF Counted, LoopTypes, StartTurn, mongoVars, bookVars, capVars, Go, Spender
  <2>3. \A j \in Job : pc'[j] \in {"idle", "calling", "charging", "checking"}
    BY <1>0, <1>3, Consts
       DEF Counted, LoopTypes, StartTurn, mongoVars, bookVars, capVars, Go, Spender
  <2> QED BY <2>1, <2>2, <2>3 DEF Counted
<1>4. ASSUME NEW a \in Agent, Claim(a) PROVE Counted'
  BY <1>0, <1>4, Consts DEF Counted, Claim, bookVars, capVars, Go, Spender
<1>5. ASSUME NEW a \in Agent, AddClaimed(a) PROVE Counted'
  <2>1. \A b \in Agent : acc'[b] <= calls'
    BY <1>0, <1>5 DEF Counted, LoopTypes, CountTypes, AddClaimed
  <2>2. \A s1 \in Spender : pc'[s1] # "idle" => s1 \in env'
    BY <1>0, <1>5 DEF Counted, LoopTypes, AddClaimed, capVars, Go, Spender
  <2>3. \A j \in Job : pc'[j] \in {"idle", "calling", "charging", "checking"}
    BY <1>0, <1>5, Consts DEF Counted, LoopTypes, AddClaimed, capVars, Go, Spender
  <2> QED BY <2>1, <2>2, <2>3 DEF Counted
<1>6. ASSUME NEW a \in Agent, OpenTurn(a) PROVE Counted'
  BY <1>0, <1>6, Consts DEF Counted, OpenTurn, bookVars, capVars, Go, Fault, Spender
<1>7. ASSUME NEW a \in Agent, PassGate(a) PROVE Counted'
  BY <1>0, <1>7, Consts
     DEF Counted, PassGate, mongoVars, turnVars, bookVars, capVars, Go, Spender
<1>8. ASSUME NEW a \in Agent, Record(a) PROVE Counted'
  BY <1>0, <1>8, Consts
     DEF Counted, Record, turnVars, bookVars, capVars, Go, Fault, Spender
<1>9. ASSUME NEW a \in Agent, NextCall(a) PROVE Counted'
  BY <1>0, <1>9, Consts DEF Counted, NextCall, mongoVars, bookVars, capVars, Go, Spender
<1>10. ASSUME NEW a \in Agent, EndTurn(a) PROVE Counted'
  BY <1>0, <1>10, Consts
     DEF Counted, EndTurn, mongoVars, turnVars, bookVars, capVars, Go, Spender
<1>11. ASSUME NEW a \in Agent, CloseTurn(a) PROVE Counted'
  BY <1>0, <1>11, Consts DEF Counted, CloseTurn, turnVars, capVars, Go, Fault, Spender
<1>12. ASSUME NEW a \in Agent, AddTurn(a) PROVE Counted'
  <2>1. \A b \in Agent : acc'[b] <= calls'
    BY <1>0, <1>12 DEF Counted, LoopTypes, CountTypes, AddTurn
  <2>2. \A s1 \in Spender : pc'[s1] # "idle" => s1 \in env'
    BY <1>0, <1>12 DEF Counted, LoopTypes, AddTurn, capVars, Go, Spender
  <2>3. \A j \in Job : pc'[j] \in {"idle", "calling", "charging", "checking"}
    BY <1>0, <1>12, Consts DEF Counted, LoopTypes, AddTurn, capVars, Go, Spender
  <2> QED BY <2>1, <2>2, <2>3 DEF Counted
<1>13. ASSUME NEW j \in Job, JobCall(j) PROVE Counted'
  BY <1>0, <1>13, Consts
     DEF Counted, JobCall, mongoVars, turnVars, bookVars, capVars, Go, Spender
<1>14. ASSUME NEW s \in Spender, Charge(s) PROVE Counted'
  BY <1>0, <1>14, Consts
     DEF Counted, Charge, turnVars, bookVars, capVars, Go, Fault, Spender
<1>15. ASSUME NEW s \in Spender, Answer(s) PROVE Counted'
  <2>1. \A b \in Agent : acc'[b] <= calls'
    BY <1>0, <1>15 DEF Counted, LoopTypes, CountTypes, Answer
  <2>2. \A s1 \in Spender : pc'[s1] # "idle" => s1 \in env'
    BY <1>0, <1>15
       DEF Counted, LoopTypes, Answer, mongoVars, bookVars, capVars, Go, Spender
  <2>3. \A j \in Job : pc'[j] \in {"idle", "calling", "charging", "checking"}
    BY <1>0, <1>15, Consts
       DEF Counted, LoopTypes, Answer, mongoVars, bookVars, capVars, Go, Spender
  <2> QED BY <2>1, <2>2, <2>3 DEF Counted
<1>16. ASSUME NEW s \in Spender, CheckCap(s) PROVE Counted'
  BY <1>0, <1>16, Consts
     DEF Counted, CheckCap, mongoVars, turnVars, bookVars, capVars, AfterCheck, Go,
         Spender
<1>17. ASSUME NEW s \in Spender, CheckFails(s) PROVE Counted'
  BY <1>0, <1>17, Consts
     DEF Counted, CheckFails, mongoVars, turnVars, bookVars, capVars, Fault, AfterCheck,
         Go, Spender
<1>18. ASSUME NEW r \in Reader, NEW part \in {"life", "turns", "cap"}, Read(r, part)
       PROVE Counted'
  BY <1>0, <1>18, Consts
     DEF Counted, Read, mongoVars, turnVars, bookVars, capVars, Spender
<1>19. CASE Extend
  BY <1>0, <1>19, Consts DEF Counted, Extend, mongoVars, turnVars, bookVars, Spender
<1>20. CASE ExtendWrite
  BY <1>0, <1>20, Consts
     DEF Counted, ExtendWrite, mongoVars, turnVars, bookVars, Spender
<1>21. CASE ExtendResume
  BY <1>0, <1>21, Consts
     DEF Counted, ExtendResume, mongoVars, turnVars, bookVars, Spender
<1>22. CASE SetCap
  BY <1>0, <1>22, Consts DEF Counted, SetCap, mongoVars, turnVars, bookVars, Spender
<1>23. CASE SetResume
  BY <1>0, <1>23, Consts DEF Counted, SetResume, mongoVars, turnVars, bookVars, Spender
<1>24. CASE SaveCap
  BY <1>0, <1>24, Consts DEF Counted, SaveCap, mongoVars, turnVars, bookVars, Spender
<1>25. CASE Die
  <2>1. \A b \in Agent : acc'[b] <= calls'
    BY <1>0, <1>25 DEF Counted, LoopTypes, CountTypes, Die
  <2>2. \A s1 \in Spender : pc'[s1] # "idle" => s1 \in env'
    BY <1>0, <1>25 DEF Counted, LoopTypes, Die, mongoVars, Spender
  <2>3. \A j \in Job : pc'[j] \in {"idle", "calling", "charging", "checking"}
    BY <1>0, <1>25, Consts DEF Counted, LoopTypes, Die, mongoVars, Spender
  <2> QED BY <2>1, <2>2, <2>3 DEF Counted
<1> QED
  BY <1>1, <1>2, <1>3, <1>4, <1>5, <1>6, <1>7, <1>8, <1>9, <1>10, <1>11, <1>12, <1>13,
     <1>14, <1>15, <1>16, <1>17, <1>18, <1>19, <1>20, <1>21, <1>22, <1>23, <1>24, <1>25
     DEF Next, TurnStep, CallStep, OperatorStep

\* What was read stays within a cap that rises.
LEMMA SeenUp ==
  ASSUME NEW v, NEW h \in Nat, NEW k \in Nat, h <= k, v.cap \in Int, SeenOK(v, h)
  PROVE  SeenOK(v, k)
BY Consts DEF SeenOK, EffectiveCap, Unread

\* Nothing read is nothing above the highest cap.
LEMMA SeenNothing == ASSUME NEW h PROVE SeenOK(Nothing, h) /\ Nothing.cap = Unread
BY DEF SeenOK, Nothing, Unread

\* No step reads a cap above the highest, or forgets a read outside a check.
LEMMA ReadsStep ==
  ASSUME IInv, TypeOK', Next
  PROVE  Reads'
<1>0. Reads /\ DocTypes /\ LoopTypes /\ CountTypes /\ CheckTypes
  BY TypeParts DEF IInv
<1>a. highCap' \in Nat
  BY DEF TypeOK
<1>1. ASSUME NEW a \in Agent, Dispatch(a) PROVE Reads'
  BY <1>0, <1>1, Consts
     DEF Reads, Dispatch, mongoVars, turnVars, bookVars, capVars, Go, Spender, Reader,
         Nothing, Unread
<1>2. ASSUME NEW a \in Agent, Reflect(a) PROVE Reads'
  BY <1>0, <1>2, Consts
     DEF Reads, Reflect, mongoVars, turnVars, bookVars, capVars, Go, Spender, Reader,
         Nothing, Unread
<1>3. ASSUME NEW a \in Agent, StartTurn(a) PROVE Reads'
  BY <1>0, <1>3, Consts
     DEF Reads, StartTurn, mongoVars, bookVars, capVars, Go, Spender, Reader, Nothing,
         Unread
<1>4. ASSUME NEW a \in Agent, Claim(a) PROVE Reads'
  BY <1>0, <1>4, Consts
     DEF Reads, Claim, bookVars, capVars, Go, Tear, Spender, Reader, Nothing, Unread
<1>5. ASSUME NEW a \in Agent, AddClaimed(a) PROVE Reads'
  <2>1. UNCHANGED <<cap, highCap, seen>>
    BY <1>5 DEF AddClaimed, capVars
  <2>2. \A s1 \in Spender : pc'[s1] # "checking" => seen[s1] = Nothing
    BY <1>0, <1>5 DEF Reads, LoopTypes, AddClaimed, capVars, Go, Spender
  <2> QED BY <1>0, <2>1, <2>2 DEF Reads
<1>6. ASSUME NEW a \in Agent, OpenTurn(a) PROVE Reads'
  BY <1>0, <1>6, Consts
     DEF Reads, OpenTurn, bookVars, capVars, Go, Spender, Reader, Nothing, Unread
<1>7. ASSUME NEW a \in Agent, PassGate(a) PROVE Reads'
  BY <1>0, <1>7, Consts
     DEF Reads, PassGate, mongoVars, turnVars, bookVars, capVars, Go, Spender, Reader,
         Nothing, Unread
<1>8. ASSUME NEW a \in Agent, Record(a) PROVE Reads'
  BY <1>0, <1>8, Consts
     DEF Reads, Record, turnVars, bookVars, capVars, Go, Spender, Reader, Nothing,
         Unread
<1>9. ASSUME NEW a \in Agent, NextCall(a) PROVE Reads'
  BY <1>0, <1>9, Consts
     DEF Reads, NextCall, mongoVars, bookVars, capVars, Go, Spender, Reader, Nothing,
         Unread
<1>10. ASSUME NEW a \in Agent, EndTurn(a) PROVE Reads'
  BY <1>0, <1>10, Consts
     DEF Reads, EndTurn, mongoVars, turnVars, bookVars, capVars, Go, Spender, Reader,
         Nothing, Unread
<1>11. ASSUME NEW a \in Agent, CloseTurn(a) PROVE Reads'
  BY <1>0, <1>11, Consts
     DEF Reads, CloseTurn, turnVars, capVars, Go, Tear, Spender, Reader, Nothing, Unread
<1>12. ASSUME NEW a \in Agent, AddTurn(a) PROVE Reads'
  BY <1>0, <1>12, Consts
     DEF Reads, AddTurn, capVars, Go, Spender, Reader, Nothing, Unread
<1>13. ASSUME NEW j \in Job, JobCall(j) PROVE Reads'
  BY <1>0, <1>13, Consts
     DEF Reads, JobCall, mongoVars, turnVars, bookVars, capVars, Go, Spender, Reader,
         Nothing, Unread
<1>14. ASSUME NEW s \in Spender, Charge(s) PROVE Reads'
  BY <1>0, <1>14, Consts
     DEF Reads, Charge, turnVars, bookVars, capVars, Go, Spender, Reader, Nothing,
         Unread
<1>15. ASSUME NEW s \in Spender, Answer(s) PROVE Reads'
  <2>1. UNCHANGED <<cap, highCap, seen>>
    BY <1>15 DEF Answer, mongoVars, bookVars, capVars
  <2>2. \A s1 \in Spender : pc'[s1] # "checking" => seen[s1] = Nothing
    BY <1>0, <1>15
       DEF Reads, LoopTypes, Answer, mongoVars, bookVars, capVars, Go, Spender
  <2> QED BY <1>0, <2>1, <2>2 DEF Reads
<1>16. ASSUME NEW s \in Spender, CheckCap(s) PROVE Reads'
  <2>1. UNCHANGED <<cap, highCap>> /\ seen' = [seen EXCEPT ![s] = Nothing]
    BY <1>16 DEF CheckCap, mongoVars, turnVars, bookVars, capVars, Done
  <2>2. \A r \in Reader : SeenOK(seen'[r], highCap)
    BY <1>0, <2>1, SeenNothing DEF Reads, CheckTypes
  <2>3. \A s1 \in Spender : pc'[s1] # "checking" => seen'[s1] = Nothing
    BY <1>0, <1>16, <2>1
       DEF Reads, LoopTypes, CheckTypes, CheckCap, AfterCheck, Go, Reader
  <2> QED BY <1>0, <2>1, <2>2, <2>3 DEF Reads
<1>17. ASSUME NEW s \in Spender, CheckFails(s) PROVE Reads'
  <2>1. UNCHANGED <<cap, highCap>> /\ seen' = [seen EXCEPT ![s] = Nothing]
    BY <1>17 DEF CheckFails, mongoVars, turnVars, bookVars, capVars, Done
  <2>2. \A r \in Reader : SeenOK(seen'[r], highCap)
    BY <1>0, <2>1, SeenNothing DEF Reads, CheckTypes
  <2>3. \A s1 \in Spender : pc'[s1] # "checking" => seen'[s1] = Nothing
    BY <1>0, <1>17, <2>1
       DEF Reads, LoopTypes, CheckTypes, CheckFails, AfterCheck, Go, Reader
  <2> QED BY <1>0, <2>1, <2>2, <2>3 DEF Reads
<1>18. ASSUME NEW r \in Reader, NEW part \in {"life", "turns", "cap"}, Read(r, part)
       PROVE Reads'
  <2>1. UNCHANGED <<cap, highCap, pc>>
    BY <1>18 DEF Read, capVars
  <2>2. LifeTotal \in Nat /\ RunTotal \in Nat /\ cap \in Nat
    BY <1>0, TotalTypes, Consts DEF CountTypes
  <2>3. SeenOK(seen'[r], highCap)
    <3>1. SeenOK(seen[r], highCap) /\ EffectiveCap(cap) <= highCap
      BY <1>0 DEF Reads
    <3>2. CASE part = "life"
      BY <1>0, <1>18, <2>2, <3>1, <3>2 DEF Read, CheckTypes, SeenOK, Unread
    <3>3. CASE part = "turns"
      BY <1>0, <1>18, <2>2, <3>1, <3>3 DEF Read, CheckTypes, SeenOK, Unread
    <3>4. CASE part = "cap"
      BY <1>0, <1>18, <2>2, <3>1, <3>4 DEF Read, CheckTypes, SeenOK, Unread
    <3> QED BY <3>2, <3>3, <3>4
  <2>4. \A r1 \in Reader : r1 # r => seen'[r1] = seen[r1]
    BY <1>0, <1>18 DEF Read, CheckTypes
  <2>5. \A r1 \in Reader : SeenOK(seen'[r1], highCap)
    BY <1>0, <2>3, <2>4 DEF Reads
  <2>6. ASSUME NEW s \in Spender, pc[s] # "checking" PROVE seen'[s] = Nothing
    <3>1. s # r
      BY <1>18, <2>6, Consts DEF Read, Reading, Spender
    <3> QED BY <1>0, <2>4, <2>6, <3>1 DEF Reads, Reader
  <2> QED BY <1>0, <2>1, <2>5, <2>6 DEF Reads
<1>19. CASE Extend
  BY <1>0, <1>19, Consts
     DEF Reads, Extend, mongoVars, turnVars, bookVars, Spender, Reader, Nothing, Unread
<1>20. CASE ExtendWrite
  <2> DEFINE base == IF seen[Operator].cap = NoCap THEN Saw(Operator) ELSE seen[Operator].cap
  <2>a. base \in Nat
    <3>1. seen[Operator].life \in Nat /\ seen[Operator].turns \in Nat /\ seen[Operator].cap \in Nat
      BY <1>0, <1>20 DEF Reads, SeenOK, ExtendWrite, HasRead, CheckTypes, Reader, Unread
    <3> QED BY <3>1 DEF Saw
  <2>b. WriteCap(base + AddUsd) \/ UNCHANGED <<cap, highCap>>
    BY <1>20 DEF ExtendWrite
  <2> HIDE DEF base
  <2>1. EffectiveCap(cap') <= highCap' /\ highCap <= highCap' /\ UNCHANGED pc
    BY <1>0, <1>20, <2>a, <2>b, Consts
       DEF Reads, ExtendWrite, WriteCap, CountTypes, EffectiveCap, NoCap
  <2>2. seen' = [seen EXCEPT ![Operator] = Nothing]
    BY <1>20 DEF ExtendWrite, Done
  <2>3. \A r \in Reader : SeenOK(seen'[r], highCap')
    BY <1>0, <1>a, <2>1, <2>2, SeenUp, SeenNothing DEF Reads, CheckTypes, CountTypes
  <2>4. \A s \in Spender : pc[s] # "checking" => seen'[s] = Nothing
    BY <1>0, <2>2 DEF Reads, CheckTypes, Reader
  <2> QED BY <2>1, <2>3, <2>4 DEF Reads
<1>21. CASE ExtendResume
  BY <1>0, <1>21, Consts
     DEF Reads, ExtendResume, mongoVars, turnVars, bookVars, Spender, Reader, Nothing,
         Unread
<1>22. CASE SetCap
  <2>1. PICK c \in 1 .. Ceiling :
          /\ WriteCap(c)
          /\ \/ seen' = [seen EXCEPT ![Operator].cap = c]
             \/ seen' = seen
    BY <1>22 DEF SetCap
  <2>2. EffectiveCap(cap') <= highCap' /\ highCap <= highCap' /\ UNCHANGED pc
        /\ EffectiveCap(c) <= highCap'
    BY <1>0, <1>22, <2>1, Consts
       DEF Reads, SetCap, WriteCap, CountTypes, EffectiveCap, NoCap
  <2>3. \A r \in Reader : SeenOK(seen[r], highCap')
    BY <1>0, <1>a, <2>2, SeenUp DEF Reads, CheckTypes, CountTypes
  <2>4. \A r \in Reader : SeenOK(seen'[r], highCap')
    BY <1>0, <2>1, <2>2, <2>3, Consts DEF SeenOK, CheckTypes
  <2>5. \A s \in Spender : seen'[s] = seen[s]
    BY <1>0, <2>1, Consts DEF CheckTypes, Spender, Reader
  <2> QED BY <1>0, <2>2, <2>4, <2>5 DEF Reads
<1>23. CASE SetResume
  <2>1. UNCHANGED <<cap, highCap, pc>> /\ seen' = [seen EXCEPT ![Operator] = Nothing]
    BY <1>23 DEF SetResume, Done
  <2>2. \A r \in Reader : SeenOK(seen'[r], highCap)
    BY <1>0, <2>1, SeenNothing DEF Reads, CheckTypes
  <2>3. \A s \in Spender : pc[s] # "checking" => seen'[s] = Nothing
    BY <1>0, <2>1 DEF Reads, CheckTypes, Reader
  <2> QED BY <1>0, <2>1, <2>2, <2>3 DEF Reads
<1>24. CASE SaveCap
  <2>1. EffectiveCap(cap') <= highCap' /\ highCap <= highCap' /\ UNCHANGED <<pc, seen>>
    BY <1>0, <1>24, Consts DEF Reads, SaveCap, WriteCap, CountTypes, EffectiveCap, NoCap
  <2>3. \A r \in Reader : SeenOK(seen[r], highCap')
    BY <1>0, <1>a, <2>1, SeenUp DEF Reads, CheckTypes, CountTypes
  <2> QED BY <1>0, <2>1, <2>3 DEF Reads
<1>25. CASE Die
  <2>1. UNCHANGED <<cap, highCap>> /\ \A r \in Reader : seen'[r] = Nothing
    BY <1>25 DEF Die
  <2>2. \A r \in Reader : SeenOK(seen'[r], highCap)
    BY <2>1, SeenNothing
  <2>3. \A s \in Spender : seen'[s] = Nothing
    BY <2>1 DEF Reader
  <2> QED BY <1>0, <2>1, <2>2, <2>3 DEF Reads
<1> QED
  BY <1>1, <1>2, <1>3, <1>4, <1>5, <1>6, <1>7, <1>8, <1>9, <1>10, <1>11, <1>12, <1>13,
     <1>14, <1>15, <1>16, <1>17, <1>18, <1>19, <1>20, <1>21, <1>22, <1>23, <1>24, <1>25
     DEF Next, TurnStep, CallStep, OperatorStep

-----------------------------------------------------------------------------
(* The turn at hand *)

SameDoc(x) ==
  /\ status'[x] = status[x] /\ cost'[x] = cost[x] /\ booked'[x] = booked[x]
  /\ x \in cut' <=> x \in cut
  /\ x \in unwritten' <=> x \in unwritten
SameDocs(b) == \A t \in Turn : SameDoc(<<b, t>>)
SameLoop(b) == pc'[b] = pc[b] /\ turn'[b] = turn[b] /\ acc'[b] = acc[b] /\ held'[b] = held[b]

\* Documents that nothing touches stay untouched.
LEMMA StillFresh ==
  ASSUME NEW b \in Agent, NEW t \in Turn, Fresh(b, t), SameDoc(<<b, t>>)
  PROVE  Fresh(b, t)'
BY DEF Fresh, SameDoc

\* The turns that an agent has not reached stay untouched.
LEMMA AheadFresh ==
  ASSUME IInv, NEW b \in Agent, NEW t \in Turn, t > turn[b], SameDoc(<<b, t>>)
  PROVE  Fresh(b, t)'
<1>1. Fresh(b, t)
  BY DEF IInv, Turns, Current
<1> QED BY <1>1, StillFresh

\* The turn numbers are integers, for the arithmetic of the steps.
LEMMA TurnTypes ==
  ASSUME IInv
  PROVE  /\ \A b \in Agent : turn[b] \in Nat /\ turn[b] <= MaxTurns
         /\ \A t \in Turn : t \in Nat /\ t <= MaxTurns
BY TypeParts, Consts DEF IInv, LoopTypes, Turn

\* A step that leaves an agent and its documents alone.
LEMMA Unmoved ==
  ASSUME NEW b \in Agent, Current(b), Claimed(b), SameDocs(b), SameLoop(b)
  PROVE  Current(b)' /\ Claimed(b)'
<1>1. Claimed(b)'
  BY DEF Claimed, SameDocs, SameDoc, SameLoop
<1>2. Doc(b)' = Doc(b) /\ (turn[b] \in Turn => SameDoc(Doc(b)))
  BY DEF SameDocs, SameLoop, Doc
<1>3. \A t \in Turn : Fresh(b, t)' <=> Fresh(b, t)
  BY DEF SameDocs, SameDoc, Fresh
<1>4. Current(b)'
  <2>1. (\A t \in Turn : t > turn[b] => Fresh(b, t))'
    BY <1>3 DEF Current, SameLoop
  <2>2. pc[b] \in Opening => turn[b] \in Turn /\ Fresh(b, turn[b])' /\ acc[b] = 0
    BY <1>3 DEF Current, SameLoop
  <2>3. (pc[b] \in Running =>
          /\ turn[b] \in Turn /\ booked[Doc(b)] = 0 /\ status[Doc(b)] \in {"none", "running"}
          /\ Doc(b) \notin cut /\ Doc(b) \notin unwritten
          /\ status[Doc(b)] = "running" => cost[Doc(b)] <= acc[b])'
    BY <1>2 DEF Current, SameDoc, SameLoop, Running
  <2>4. (pc[b] = "recording" =>
          acc[b] >= 1 /\ (status[Doc(b)] = "running" => cost[Doc(b)] < acc[b]))'
    BY <1>2 DEF Current, SameDoc, SameLoop, Running
  <2>5. (pc[b] = "adding" =>
          /\ turn[b] \in Turn /\ booked[Doc(b)] = 0 /\ Doc(b) \notin cut
          /\ status[Doc(b)] = "complete" <=> Doc(b) \notin unwritten
          /\ status[Doc(b)] \in {"none", "running", "complete"}
          /\ status[Doc(b)] = "running" => cost[Doc(b)] <= acc[b])'
    BY <1>2 DEF Current, SameDoc, SameLoop
  <2> QED BY <2>1, <2>2, <2>3, <2>4, <2>5 DEF Current, SameLoop
<1> QED BY <1>1, <1>4

\* Every step keeps what is known of the turn at hand and of a claimed one.
LEMMA TurnsStep ==
  ASSUME IInv, TypeOK', Next
  PROVE  Turns'
<1>0. Turns /\ Booked /\ DocTypes /\ LoopTypes
  BY TypeParts DEF IInv
<1>1. ASSUME NEW a \in Agent, Dispatch(a) PROVE Turns'
  <2>1. ASSUME NEW b \in Agent, b # a PROVE SameDocs(b) /\ SameLoop(b)
    <3>1. SameDocs(b)
      BY <1>0, <1>1, <2>1
         DEF DocTypes, Dispatch, mongoVars, turnVars, bookVars, capVars, SameDocs,
             SameDoc
    <3>2. SameLoop(b)
      BY <1>0, <1>1, <2>1, Consts
         DEF LoopTypes, Dispatch, mongoVars, turnVars, bookVars, capVars, Go, SameLoop,
             Spender
    <3> QED BY <3>1, <3>2
  <2>2. pc[a] = "idle" /\ pc'[a] = "prepare" /\ turn[a] < MaxTurns
        /\ turn'[a] = turn[a] /\ acc'[a] = acc[a] /\ held'[a] = held[a]
    BY <1>0, <1>1, Consts
       DEF LoopTypes, Dispatch, mongoVars, turnVars, bookVars, capVars, Go, Spender
  <2>3. SameDocs(a)
    BY <1>1 DEF Dispatch, mongoVars, turnVars, bookVars, capVars, SameDocs, SameDoc
  <2>4. Current(a)'
    <3>1. Current(a)
      BY <1>0 DEF Turns
    <3>2. ASSUME NEW t \in Turn, t > turn[a] PROVE Fresh(a, t)'
      <4>1. Fresh(a, t)
        BY <3>1, <3>2 DEF Current
      <4>2. SameDoc(<<a, t>>)
        BY <2>3 DEF SameDocs
      <4> QED BY <4>1, <4>2 DEF Fresh, SameDoc
    <3> QED BY <2>2, <3>2 DEF Current, Before, Opening, Running
  <2>5. Claimed(a)'
    BY <1>0, <2>2, <2>3 DEF Turns, Claimed, SameDocs, SameDoc
  <2> QED BY <1>0, <2>1, <2>4, <2>5, Unmoved DEF Turns
<1>2. ASSUME NEW a \in Agent, Reflect(a) PROVE Turns'
  <2>1. ASSUME NEW b \in Agent, b # a PROVE SameDocs(b) /\ SameLoop(b)
    <3>1. SameDocs(b)
      BY <1>0, <1>2, <2>1
         DEF DocTypes, Reflect, mongoVars, turnVars, bookVars, capVars, SameDocs,
             SameDoc
    <3>2. SameLoop(b)
      BY <1>0, <1>2, <2>1, Consts
         DEF LoopTypes, Reflect, mongoVars, turnVars, bookVars, capVars, Go, SameLoop,
             Spender
    <3> QED BY <3>1, <3>2
  <2>2. pc[a] = "prepare" /\ pc'[a] = "charging"
        /\ turn'[a] = turn[a] /\ acc'[a] = acc[a] /\ held'[a] = held[a]
    BY <1>0, <1>2, Consts
       DEF LoopTypes, Reflect, mongoVars, turnVars, bookVars, capVars, Go, Spender
  <2>3. SameDocs(a)
    BY <1>2 DEF Reflect, mongoVars, turnVars, bookVars, capVars, SameDocs, SameDoc
  <2>4. Current(a)'
    <3>1. Current(a)
      BY <1>0 DEF Turns
    <3>2. ASSUME NEW t \in Turn, t > turn[a] PROVE Fresh(a, t)'
      <4>1. Fresh(a, t)
        BY <3>1, <3>2 DEF Current
      <4>2. SameDoc(<<a, t>>)
        BY <2>3 DEF SameDocs
      <4> QED BY <4>1, <4>2 DEF Fresh, SameDoc
    <3>3. turn[a] < MaxTurns
      BY <2>2, <3>1 DEF Current, Before
    <3> QED BY <2>2, <3>2, <3>3 DEF Current, Before, Opening, Running
  <2>5. Claimed(a)'
    BY <1>0, <2>2, <2>3 DEF Turns, Claimed, SameDocs, SameDoc
  <2> QED BY <1>0, <2>1, <2>4, <2>5, Unmoved DEF Turns
<1>3. ASSUME NEW a \in Agent, StartTurn(a) PROVE Turns'
  <2>1. ASSUME NEW b \in Agent, b # a PROVE SameDocs(b) /\ SameLoop(b)
    <3>1. SameDocs(b)
      BY <1>0, <1>3, <2>1
         DEF DocTypes, StartTurn, mongoVars, bookVars, capVars, SameDocs, SameDoc
    <3>2. SameLoop(b)
      BY <1>0, <1>3, <2>1, Consts
         DEF LoopTypes, StartTurn, mongoVars, bookVars, capVars, Go, SameLoop, Spender
    <3> QED BY <3>1, <3>2
  <2>2. pc[a] \in Before /\ pc'[a] = "reconcile" /\ turn'[a] = turn[a] + 1 /\ acc'[a] = 0
        /\ held'[a] = held[a]
    BY <1>0, <1>3, Consts DEF LoopTypes, StartTurn, Go, Spender, Before
  <2>3. SameDocs(a)
    BY <1>3 DEF StartTurn, mongoVars, bookVars, capVars, SameDocs, SameDoc
  <2>4. Current(a)'
    <3>1. turn'[a] \in Turn
      BY <2>2, Where, TurnTypes
    <3>2. ASSUME NEW u \in Turn, u >= turn'[a] PROVE Fresh(a, u)'
      <4>1. u > turn[a]
        BY <2>2, <3>1, <3>2, TurnTypes
      <4> QED BY <2>3, <4>1, AheadFresh DEF SameDocs
    <3> QED BY <2>2, <3>1, <3>2 DEF Current, Before, Opening, Running, Turn
  <2>5. Claimed(a)'
    BY <1>0, <2>2 DEF Turns, Claimed, Before
  <2> QED BY <1>0, <2>1, <2>4, <2>5, Unmoved DEF Turns
<1>4. ASSUME NEW a \in Agent, Claim(a) PROVE Turns'
  <2>1. ASSUME NEW b \in Agent, b # a PROVE SameDocs(b) /\ SameLoop(b)
    <3>1. SameDocs(b)
      BY <1>0, <1>4, <2>1 DEF DocTypes, Claim, bookVars, capVars, SameDocs, SameDoc
    <3>2. SameLoop(b)
      BY <1>0, <1>4, <2>1, Consts
         DEF LoopTypes, Claim, bookVars, capVars, Go, SameLoop, Spender
    <3> QED BY <3>1, <3>2
  <2>2. PICK t \in Stale(a) :
          status' = [status EXCEPT ![<<a, t>>] = "aborted"] /\ held' = [held EXCEPT ![a] = t]
    BY <1>4 DEF Claim
  <2>3. pc[a] = "reconcile" /\ pc'[a] = "claimed" /\ UNCHANGED <<turn, acc, cost, booked, cut, unwritten>>
    BY <1>0, <1>4, Consts DEF LoopTypes, Claim, Go, Spender, bookVars
  <2>4. t \in Turn /\ t # turn[a] /\ status[<<a, t>>] = "running"
    BY <2>2 DEF Stale
  <2>5. t < turn[a]
    <3>1. ~ (t > turn[a])
      BY <1>0, <2>4 DEF Turns, Current, Fresh
    <3>2. turn[a] \in Nat /\ t \in Nat
      BY <2>4, TurnTypes
    <3> QED BY <2>4, <3>1, <3>2
  <2>6. \A u \in Turn : u # t => SameDoc(<<a, u>>)
    BY <1>0, <2>2, <2>3 DEF SameDoc, DocTypes
  <2>7. Current(a)'
    <3>1. turn[a] \in Turn /\ turn[a] # t /\ Fresh(a, turn[a]) /\ acc[a] = 0
      BY <1>0, <2>3, <2>4 DEF Turns, Current, Opening
    <3>2. \A u \in Turn : u >= turn[a] => Fresh(a, u)'
      BY <1>0, <2>5, <2>6, <3>1 DEF Turns, Current, Fresh, SameDoc, Turn
    <3> QED BY <1>0, <2>3, <3>1, <3>2 DEF Current, Before, Opening, Running, Turn
  <2>8. Claimed(a)'
    <3>1. <<a, t>> \in unwritten \/ (booked[<<a, t>>] = 0 /\ <<a, t>> \notin cut)
      BY <1>0, <2>4 DEF Booked, BookedAt
    <3>2. held'[a] = t /\ status'[<<a, t>>] = "aborted"
      BY <1>0, <2>2, <2>4 DEF LoopTypes, DocTypes
    <3> QED BY <2>3, <2>4, <2>5, <3>1, <3>2 DEF Claimed, Turn
  <2> QED BY <1>0, <2>1, <2>7, <2>8, Unmoved DEF Turns
<1>5. ASSUME NEW a \in Agent, AddClaimed(a) PROVE Turns'
  <2>1. ASSUME NEW b \in Agent, b # a PROVE SameDocs(b) /\ SameLoop(b)
    <3>1. SameDocs(b)
      BY <1>0, <1>5, <2>1 DEF DocTypes, AddClaimed, capVars, SameDocs, SameDoc
    <3>2. SameLoop(b)
      BY <1>0, <1>5, <2>1, Consts
         DEF LoopTypes, AddClaimed, capVars, Go, SameLoop, Spender
    <3> QED BY <3>1, <3>2
  <2>2. pc[a] = "claimed" /\ pc'[a] \in {"reconcile", "opening"} /\ turn'[a] = turn[a]
        /\ acc'[a] = acc[a] /\ held'[a] = 0
    BY <1>0, <1>5, Consts DEF LoopTypes, AddClaimed, capVars, Go, Spender
  <2>3. \A u \in Turn : u # held[a] => SameDoc(<<a, u>>)
    BY <1>0, <1>5 DEF DocTypes, AddClaimed, SameDoc
  <2>4. Current(a)'
    <3>1. turn[a] \in Turn /\ turn[a] > held[a] /\ Fresh(a, turn[a]) /\ acc[a] = 0
      BY <1>0, <2>2 DEF Turns, Current, Claimed, Opening
    <3>2. \A u \in Turn : u >= turn[a] => Fresh(a, u)'
      BY <1>0, <2>3, <3>1, Consts DEF Turns, Current, Fresh, SameDoc, Turn, LoopTypes
    <3> QED BY <1>0, <2>2, <3>1, <3>2 DEF Current, Before, Opening, Running, Turn
  <2>5. Claimed(a)'
    BY <2>2 DEF Claimed
  <2> QED BY <1>0, <2>1, <2>4, <2>5, Unmoved DEF Turns
<1>6. ASSUME NEW a \in Agent, OpenTurn(a) PROVE Turns'
  <2>1. ASSUME NEW b \in Agent, b # a PROVE SameDocs(b) /\ SameLoop(b)
    <3>1. SameDocs(b)
      BY <1>0, <1>6, <2>1
         DEF DocTypes, OpenTurn, bookVars, capVars, Doc, SameDocs, SameDoc
    <3>2. SameLoop(b)
      BY <1>0, <1>6, <2>1, Consts
         DEF LoopTypes, OpenTurn, bookVars, capVars, Go, SameLoop, Spender
    <3> QED BY <3>1, <3>2
  <2>2. pc[a] \in {"opening", "reconcile"} /\ pc'[a] = "gate"
        /\ turn'[a] = turn[a] /\ acc'[a] = acc[a] /\ held'[a] = held[a]
    BY <1>0, <1>6, Consts DEF LoopTypes, OpenTurn, Go, Spender
  <2>3. \A u \in Turn : u # turn[a] => SameDoc(<<a, u>>)
    BY <1>0, <1>6 DEF DocTypes, OpenTurn, Doc, SameDoc, bookVars
  <2>4. Current(a)'
    <3>1. turn[a] \in Turn /\ Fresh(a, turn[a]) /\ acc[a] = 0
      BY <1>0, <2>2 DEF Turns, Current, Opening
    <3>2. \/ status'[Doc(a)] = "running" /\ cost'[Doc(a)] = 0
          \/ status'[Doc(a)] = "none"
      BY <1>0, <1>6, <3>1 DEF DocTypes, OpenTurn, Fresh, Doc
    <3>3. UNCHANGED <<booked, cut, unwritten>>
      BY <1>6 DEF OpenTurn, bookVars
    <3>4. ASSUME NEW u \in Turn, u > turn[a] PROVE Fresh(a, u)'
      <4>1. u # turn[a]
        BY <3>4, TurnTypes
      <4> QED BY <2>3, <3>4, <4>1, AheadFresh
    <3> QED
      BY <2>2, <3>1, <3>2, <3>3, <3>4
         DEF Current, Before, Opening, Running, Fresh, Doc
  <2>5. Claimed(a)'
    BY <1>0, <2>2 DEF Turns, Claimed
  <2> QED BY <1>0, <2>1, <2>4, <2>5, Unmoved DEF Turns
<1>7. ASSUME NEW a \in Agent, PassGate(a) PROVE Turns'
  <2>1. ASSUME NEW b \in Agent, b # a PROVE SameDocs(b) /\ SameLoop(b)
    <3>1. SameDocs(b)
      BY <1>0, <1>7, <2>1
         DEF DocTypes, PassGate, mongoVars, turnVars, bookVars, capVars, SameDocs,
             SameDoc
    <3>2. SameLoop(b)
      BY <1>0, <1>7, <2>1, Consts
         DEF LoopTypes, PassGate, mongoVars, turnVars, bookVars, capVars, Go, SameLoop,
             Spender
    <3> QED BY <3>1, <3>2
  <2>2. pc[a] = "gate" /\ pc'[a] = "calling"
        /\ turn'[a] = turn[a] /\ acc'[a] = acc[a] /\ held'[a] = held[a]
    BY <1>0, <1>7, Consts
       DEF LoopTypes, PassGate, mongoVars, turnVars, bookVars, capVars, Go, Spender
  <2>3. SameDocs(a)
    BY <1>7 DEF PassGate, mongoVars, turnVars, bookVars, capVars, SameDocs, SameDoc
  <2>4. Current(a)'
    BY <1>0, <2>2, <2>3, Consts
       DEF LoopTypes, Turns, Current, Fresh, Doc, SameDocs, SameDoc, Before, Opening,
           Running
  <2>5. Claimed(a)'
    BY <1>0, <2>2, <2>3 DEF Turns, Claimed, SameDocs, SameDoc
  <2> QED BY <1>0, <2>1, <2>4, <2>5, Unmoved DEF Turns
<1>8. ASSUME NEW a \in Agent, Record(a) PROVE Turns'
  <2>1. ASSUME NEW b \in Agent, b # a PROVE SameDocs(b) /\ SameLoop(b)
    <3>1. SameDocs(b)
      BY <1>0, <1>8, <2>1
         DEF DocTypes, Record, turnVars, bookVars, capVars, Doc, SameDocs, SameDoc
    <3>2. SameLoop(b)
      BY <1>0, <1>8, <2>1, Consts
         DEF LoopTypes, Record, turnVars, bookVars, capVars, Go, SameLoop, Spender
    <3> QED BY <3>1, <3>2
  <2>2. pc[a] = "recording" /\ pc'[a] \in {"closing", "tools", "checking"}
        /\ turn'[a] = turn[a] /\ acc'[a] = acc[a] /\ held'[a] = held[a]
    BY <1>0, <1>8, Consts DEF LoopTypes, Record, turnVars, Go, Spender
  <2>3. \A u \in Turn : u # turn[a] => SameDoc(<<a, u>>)
    BY <1>0, <1>8 DEF DocTypes, Record, Doc, SameDoc, bookVars
  <2>4. Current(a)'
    <3>1. turn[a] \in Turn /\ booked[Doc(a)] = 0 /\ status[Doc(a)] \in {"none", "running"}
          /\ Doc(a) \notin cut /\ Doc(a) \notin unwritten
          /\ (status[Doc(a)] = "running" => cost[Doc(a)] <= acc[a])
      BY <1>0, <2>2 DEF Turns, Current, Running
    <3>2. status'[Doc(a)] \in {"none", "running"} /\ (status'[Doc(a)] = "running" => cost'[Doc(a)] <= acc[a])
      <4>1. \/ status' = [status EXCEPT ![Doc(a)] = "running"] /\ cost' = [cost EXCEPT ![Doc(a)] = acc[a]]
            \/ UNCHANGED <<status, cost>>
        BY <1>8 DEF Record
      <4>2. Doc(a) \in Agent \X Turn /\ acc[a] \in Nat
        BY <3>1, Where DEF Doc
      <4> QED BY <1>0, <3>1, <4>1, <4>2 DEF DocTypes
    <3>3. UNCHANGED <<booked, cut, unwritten>>
      BY <1>8 DEF Record, bookVars
    <3>4. ASSUME NEW u \in Turn, u > turn[a] PROVE Fresh(a, u)'
      <4>1. u # turn[a]
        BY <3>4, TurnTypes
      <4> QED BY <2>3, <3>4, <4>1, AheadFresh
    <3> QED BY <2>2, <3>1, <3>2, <3>3, <3>4 DEF Current, Before, Opening, Running, Doc
  <2>5. Claimed(a)'
    BY <1>0, <2>2, <2>3 DEF Turns, Claimed, SameDoc
  <2> QED BY <1>0, <2>1, <2>4, <2>5, Unmoved DEF Turns
<1>9. ASSUME NEW a \in Agent, NextCall(a) PROVE Turns'
  <2>1. ASSUME NEW b \in Agent, b # a PROVE SameDocs(b) /\ SameLoop(b)
    <3>1. SameDocs(b)
      BY <1>0, <1>9, <2>1
         DEF DocTypes, NextCall, mongoVars, bookVars, capVars, SameDocs, SameDoc
    <3>2. SameLoop(b)
      BY <1>0, <1>9, <2>1, Consts
         DEF LoopTypes, NextCall, mongoVars, bookVars, capVars, Go, SameLoop, Spender
    <3> QED BY <3>1, <3>2
  <2>2. pc[a] = "tools" /\ pc'[a] = "gate"
        /\ turn'[a] = turn[a] /\ acc'[a] = acc[a] /\ held'[a] = held[a]
    BY <1>0, <1>9, Consts
       DEF LoopTypes, NextCall, mongoVars, bookVars, capVars, Go, Spender
  <2>3. SameDocs(a)
    BY <1>9 DEF NextCall, mongoVars, bookVars, capVars, SameDocs, SameDoc
  <2>4. Current(a)'
    BY <1>0, <2>2, <2>3, Consts
       DEF LoopTypes, Turns, Current, Fresh, Doc, SameDocs, SameDoc, Before, Opening,
           Running
  <2>5. Claimed(a)'
    BY <1>0, <2>2, <2>3 DEF Turns, Claimed, SameDocs, SameDoc
  <2> QED BY <1>0, <2>1, <2>4, <2>5, Unmoved DEF Turns
<1>10. ASSUME NEW a \in Agent, EndTurn(a) PROVE Turns'
  <2>1. ASSUME NEW b \in Agent, b # a PROVE SameDocs(b) /\ SameLoop(b)
    <3>1. SameDocs(b)
      BY <1>0, <1>10, <2>1
         DEF DocTypes, EndTurn, mongoVars, turnVars, bookVars, capVars, SameDocs,
             SameDoc
    <3>2. SameLoop(b)
      BY <1>0, <1>10, <2>1, Consts
         DEF LoopTypes, EndTurn, mongoVars, turnVars, bookVars, capVars, Go, SameLoop,
             Spender
    <3> QED BY <3>1, <3>2
  <2>2. pc[a] \in {"tools", "gate"} /\ pc'[a] = "closing"
        /\ turn'[a] = turn[a] /\ acc'[a] = acc[a] /\ held'[a] = held[a]
    BY <1>0, <1>10, Consts
       DEF LoopTypes, EndTurn, mongoVars, turnVars, bookVars, capVars, Go, Spender
  <2>3. SameDocs(a)
    BY <1>10 DEF EndTurn, mongoVars, turnVars, bookVars, capVars, SameDocs, SameDoc
  <2>4. Current(a)'
    BY <1>0, <2>2, <2>3, Consts
       DEF LoopTypes, Turns, Current, Fresh, Doc, SameDocs, SameDoc, Before, Opening,
           Running
  <2>5. Claimed(a)'
    BY <1>0, <2>2, <2>3 DEF Turns, Claimed, SameDocs, SameDoc
  <2> QED BY <1>0, <2>1, <2>4, <2>5, Unmoved DEF Turns
<1>11. ASSUME NEW a \in Agent, CloseTurn(a) PROVE Turns'
  <2>1. ASSUME NEW b \in Agent, b # a PROVE SameDocs(b) /\ SameLoop(b)
    <3>1. SameDocs(b)
      BY <1>0, <1>11, <2>1
         DEF DocTypes, CloseTurn, turnVars, capVars, Doc, SameDocs, SameDoc
    <3>2. SameLoop(b)
      BY <1>0, <1>11, <2>1, Consts
         DEF LoopTypes, CloseTurn, turnVars, capVars, Go, SameLoop, Spender
    <3> QED BY <3>1, <3>2
  <2>2. pc[a] = "closing" /\ pc'[a] = "adding"
        /\ turn'[a] = turn[a] /\ acc'[a] = acc[a] /\ held'[a] = held[a]
    BY <1>0, <1>11, Consts DEF LoopTypes, CloseTurn, turnVars, Go, Spender
  <2>3. \A u \in Turn : u # turn[a] => SameDoc(<<a, u>>)
    BY <1>0, <1>11 DEF DocTypes, CloseTurn, Doc, SameDoc
  <2>4. Current(a)'
    <3>1. turn[a] \in Turn /\ booked[Doc(a)] = 0 /\ status[Doc(a)] \in {"none", "running"}
          /\ Doc(a) \notin cut /\ Doc(a) \notin unwritten
          /\ (status[Doc(a)] = "running" => cost[Doc(a)] <= acc[a])
      BY <1>0, <2>2 DEF Turns, Current, Running
    <3>2. \/ status'[Doc(a)] = "complete" /\ Doc(a) \notin unwritten'
          \/ UNCHANGED <<status, cost>> /\ Doc(a) \in unwritten'
      BY <1>0, <1>11, <3>1 DEF DocTypes, CloseTurn, Doc
    <3>3. UNCHANGED <<booked, cut>>
      BY <1>11 DEF CloseTurn
    <3>4. ASSUME NEW u \in Turn, u > turn[a] PROVE Fresh(a, u)'
      <4>1. u # turn[a]
        BY <3>4, TurnTypes
      <4> QED BY <2>3, <3>4, <4>1, AheadFresh
    <3> QED BY <2>2, <3>1, <3>2, <3>3, <3>4 DEF Current, Before, Opening, Running, Doc
  <2>5. Claimed(a)'
    BY <1>0, <2>2 DEF Turns, Claimed
  <2> QED BY <1>0, <2>1, <2>4, <2>5, Unmoved DEF Turns
<1>12. ASSUME NEW a \in Agent, AddTurn(a) PROVE Turns'
  <2>1. ASSUME NEW b \in Agent, b # a PROVE SameDocs(b) /\ SameLoop(b)
    <3>1. SameDocs(b)
      BY <1>0, <1>12, <2>1 DEF DocTypes, AddTurn, capVars, Doc, SameDocs, SameDoc
    <3>2. SameLoop(b)
      BY <1>0, <1>12, <2>1, Consts
         DEF LoopTypes, AddTurn, capVars, Go, SameLoop, Spender
    <3> QED BY <3>1, <3>2
  <2>2. pc[a] = "adding" /\ pc'[a] = "idle" /\ turn'[a] = turn[a] /\ acc'[a] = 0 /\ held'[a] = held[a]
    BY <1>0, <1>12, Consts DEF LoopTypes, AddTurn, Go, Spender
  <2>3. \A u \in Turn : u # turn[a] => SameDoc(<<a, u>>)
    BY <1>0, <1>12 DEF DocTypes, AddTurn, Doc, SameDoc
  <2>4. Current(a)'
    <3>4. ASSUME NEW u \in Turn, u > turn[a] PROVE Fresh(a, u)'
      <4>1. u # turn[a]
        BY <3>4, TurnTypes
      <4> QED BY <2>3, <3>4, <4>1, AheadFresh
    <3> QED BY <2>2, <3>4 DEF Current, Before, Opening, Running
  <2>5. Claimed(a)'
    BY <1>0, <2>2 DEF Turns, Claimed
  <2> QED BY <1>0, <2>1, <2>4, <2>5, Unmoved DEF Turns
<1>13. ASSUME NEW j \in Job, JobCall(j) PROVE Turns'
  <2>1. ASSUME NEW b \in Agent PROVE SameDocs(b) /\ SameLoop(b)
    <3>1. b # j
      BY Consts
    <3>2. SameDocs(b)
      BY <1>13 DEF JobCall, mongoVars, bookVars, SameDocs, SameDoc
    <3>3. SameLoop(b)
      BY <1>0, <1>13, <3>1 DEF LoopTypes, JobCall, turnVars, Go, SameLoop, Spender
    <3> QED BY <3>2, <3>3
  <2> QED BY <1>0, <2>1, Unmoved DEF Turns
<1>14. ASSUME NEW s \in Spender, Charge(s) PROVE Turns'
  <2>1. CASE s \in Job
    <3>1. ASSUME NEW b \in Agent PROVE SameDocs(b) /\ SameLoop(b)
      <4>1. b # s
        BY <2>1, Consts
      <4>2. SameDocs(b)
        BY <1>14 DEF Charge, turnVars, bookVars, capVars, SameDocs, SameDoc
      <4>3. SameLoop(b)
        BY <1>0, <1>14, <2>1, <4>1
           DEF LoopTypes, Charge, turnVars, bookVars, capVars, Go, SameLoop, Spender
      <4> QED BY <4>2, <4>3
    <3> QED BY <1>0, <3>1, Unmoved DEF Turns
  <2>2. CASE s \in Agent /\ s \notin Job
    <3>1. ASSUME NEW b \in Agent, b # s PROVE SameLoop(b)
      BY <1>0, <1>14, <2>2, <3>1
         DEF LoopTypes, Charge, turnVars, bookVars, capVars, Go, SameLoop, Spender
    <3>2. ASSUME NEW b \in Agent PROVE SameDocs(b)
      BY <1>14 DEF Charge, turnVars, bookVars, capVars, SameDocs, SameDoc
    <3>3. pc[s] = "charging" /\ pc'[s] = "ready"
          /\ turn'[s] = turn[s] /\ acc'[s] = acc[s] /\ held'[s] = held[s]
      BY <1>0, <1>14, <2>2
         DEF LoopTypes, Charge, turnVars, bookVars, capVars, Go, Spender
    <3>4. Current(s)'
      <4>1. Doc(s)' = Doc(s) /\ (turn[s] \in Turn => SameDoc(Doc(s))) /\ acc[s] \in Nat
        BY <1>0, <2>2, <3>2, <3>3, Consts DEF LoopTypes, SameDocs, Doc
      <4>2. ASSUME NEW t \in Turn, t > turn[s] PROVE Fresh(s, t)'
        BY <2>2, <3>2, <4>2, AheadFresh DEF SameDocs
      <4>3. pc[s] \in Before => turn[s] < MaxTurns
        BY <1>0, <2>2 DEF Turns, Current
      <4>4. pc[s] \in Running => /\ turn[s] \in Turn /\ booked[Doc(s)] = 0
                                /\ status[Doc(s)] \in {"none", "running"}
                                /\ Doc(s) \notin cut /\ Doc(s) \notin unwritten
                                /\ (status[Doc(s)] = "running" => cost[Doc(s)] \in Nat /\ cost[Doc(s)] <= acc[s])
        BY <1>0, <2>2, Consts DEF Turns, Current, DocTypes, Doc
      <4> QED
        BY <3>3, <4>1, <4>2, <4>3, <4>4
           DEF Current, SameDoc, Before, Opening, Running
    <3>5. Claimed(s)'
      BY <1>0, <2>2, <3>2, <3>3 DEF Turns, Claimed, SameDocs, SameDoc
    <3> QED BY <1>0, <2>2, <3>1, <3>2, <3>4, <3>5, Unmoved DEF Turns
  <2> QED BY <2>1, <2>2 DEF Spender
<1>15. ASSUME NEW s \in Spender, Answer(s) PROVE Turns'
  <2>1. CASE s \in Job
    <3>1. ASSUME NEW b \in Agent PROVE SameDocs(b) /\ SameLoop(b)
      <4>1. b # s
        BY <2>1, Consts
      <4>2. SameDocs(b)
        BY <1>15 DEF Answer, mongoVars, bookVars, capVars, SameDocs, SameDoc
      <4>3. SameLoop(b)
        BY <1>0, <1>15, <2>1, <4>1
           DEF LoopTypes, Answer, mongoVars, bookVars, capVars, Go, SameLoop, Spender
      <4> QED BY <4>2, <4>3
    <3> QED BY <1>0, <3>1, Unmoved DEF Turns
  <2>2. CASE s \in Agent /\ s \notin Job
    <3>1. ASSUME NEW b \in Agent, b # s PROVE SameLoop(b)
      BY <1>0, <1>15, <2>2, <3>1
         DEF LoopTypes, Answer, mongoVars, bookVars, capVars, Go, SameLoop, Spender
    <3>2. ASSUME NEW b \in Agent PROVE SameDocs(b)
      BY <1>15 DEF Answer, mongoVars, bookVars, capVars, SameDocs, SameDoc
    <3>3. pc[s] = "calling" /\ pc'[s] = "recording" /\ turn'[s] = turn[s] /\ held'[s] = held[s]
          /\ acc'[s] = acc[s] + 1
      BY <1>0, <1>15, <2>2
         DEF LoopTypes, Answer, mongoVars, bookVars, capVars, Go, Spender
    <3>4. Current(s)'
      <4>1. Doc(s)' = Doc(s) /\ (turn[s] \in Turn => SameDoc(Doc(s))) /\ acc[s] \in Nat
        BY <1>0, <2>2, <3>2, <3>3, Consts DEF LoopTypes, SameDocs, Doc
      <4>2. ASSUME NEW t \in Turn, t > turn[s] PROVE Fresh(s, t)'
        BY <2>2, <3>2, <4>2, AheadFresh DEF SameDocs
      <4>3. pc[s] \in Before => turn[s] < MaxTurns
        BY <1>0, <2>2 DEF Turns, Current
      <4>4. pc[s] \in Running => /\ turn[s] \in Turn /\ booked[Doc(s)] = 0
                                /\ status[Doc(s)] \in {"none", "running"}
                                /\ Doc(s) \notin cut /\ Doc(s) \notin unwritten
                                /\ (status[Doc(s)] = "running" => cost[Doc(s)] \in Nat /\ cost[Doc(s)] <= acc[s])
        BY <1>0, <2>2, Consts DEF Turns, Current, DocTypes, Doc
      <4> QED
        BY <3>3, <4>1, <4>2, <4>3, <4>4
           DEF Current, SameDoc, Before, Opening, Running
    <3>5. Claimed(s)'
      BY <1>0, <2>2, <3>2, <3>3 DEF Turns, Claimed, SameDocs, SameDoc
    <3> QED BY <1>0, <2>2, <3>1, <3>2, <3>4, <3>5, Unmoved DEF Turns
  <2> QED BY <2>1, <2>2 DEF Spender
<1>16. ASSUME NEW s \in Spender, CheckCap(s) PROVE Turns'
  <2>1. CASE s \in Job
    <3>1. ASSUME NEW b \in Agent PROVE SameDocs(b) /\ SameLoop(b)
      <4>1. b # s
        BY <2>1, Consts
      <4>2. SameDocs(b)
        BY <1>16 DEF CheckCap, mongoVars, turnVars, bookVars, capVars, SameDocs, SameDoc
      <4>3. SameLoop(b)
        BY <1>0, <1>16, <2>1, <4>1
           DEF LoopTypes, CheckCap, mongoVars, turnVars, bookVars, capVars, AfterCheck,
               Go, SameLoop, Spender
      <4> QED BY <4>2, <4>3
    <3> QED BY <1>0, <3>1, Unmoved DEF Turns
  <2>2. CASE s \in Agent /\ s \notin Job
    <3>1. ASSUME NEW b \in Agent, b # s PROVE SameLoop(b)
      BY <1>0, <1>16, <2>2, <3>1
         DEF LoopTypes, CheckCap, mongoVars, turnVars, bookVars, capVars, AfterCheck,
             Go, SameLoop, Spender
    <3>2. ASSUME NEW b \in Agent PROVE SameDocs(b)
      BY <1>16 DEF CheckCap, mongoVars, turnVars, bookVars, capVars, SameDocs, SameDoc
    <3>3. pc[s] = "checking" /\ pc'[s] = "tools"
          /\ turn'[s] = turn[s] /\ acc'[s] = acc[s] /\ held'[s] = held[s]
      BY <1>0, <1>16, <2>2
         DEF LoopTypes, CheckCap, mongoVars, turnVars, bookVars, capVars, AfterCheck,
             Go, Spender
    <3>4. Current(s)'
      <4>1. Doc(s)' = Doc(s) /\ (turn[s] \in Turn => SameDoc(Doc(s))) /\ acc[s] \in Nat
        BY <1>0, <2>2, <3>2, <3>3, Consts DEF LoopTypes, SameDocs, Doc
      <4>2. ASSUME NEW t \in Turn, t > turn[s] PROVE Fresh(s, t)'
        BY <2>2, <3>2, <4>2, AheadFresh DEF SameDocs
      <4>3. pc[s] \in Before => turn[s] < MaxTurns
        BY <1>0, <2>2 DEF Turns, Current
      <4>4. pc[s] \in Running => /\ turn[s] \in Turn /\ booked[Doc(s)] = 0
                                /\ status[Doc(s)] \in {"none", "running"}
                                /\ Doc(s) \notin cut /\ Doc(s) \notin unwritten
                                /\ (status[Doc(s)] = "running" => cost[Doc(s)] \in Nat /\ cost[Doc(s)] <= acc[s])
        BY <1>0, <2>2, Consts DEF Turns, Current, DocTypes, Doc
      <4> QED
        BY <3>3, <4>1, <4>2, <4>3, <4>4
           DEF Current, SameDoc, Before, Opening, Running
    <3>5. Claimed(s)'
      BY <1>0, <2>2, <3>2, <3>3 DEF Turns, Claimed, SameDocs, SameDoc
    <3> QED BY <1>0, <2>2, <3>1, <3>2, <3>4, <3>5, Unmoved DEF Turns
  <2> QED BY <2>1, <2>2 DEF Spender
<1>17. ASSUME NEW s \in Spender, CheckFails(s) PROVE Turns'
  <2>1. CASE s \in Job
    <3>1. ASSUME NEW b \in Agent PROVE SameDocs(b) /\ SameLoop(b)
      <4>1. b # s
        BY <2>1, Consts
      <4>2. SameDocs(b)
        BY <1>17
           DEF CheckFails, mongoVars, turnVars, bookVars, capVars, SameDocs, SameDoc
      <4>3. SameLoop(b)
        BY <1>0, <1>17, <2>1, <4>1
           DEF LoopTypes, CheckFails, mongoVars, turnVars, bookVars, capVars,
               AfterCheck, Go, SameLoop, Spender
      <4> QED BY <4>2, <4>3
    <3> QED BY <1>0, <3>1, Unmoved DEF Turns
  <2>2. CASE s \in Agent /\ s \notin Job
    <3>1. ASSUME NEW b \in Agent, b # s PROVE SameLoop(b)
      BY <1>0, <1>17, <2>2, <3>1
         DEF LoopTypes, CheckFails, mongoVars, turnVars, bookVars, capVars, AfterCheck,
             Go, SameLoop, Spender
    <3>2. ASSUME NEW b \in Agent PROVE SameDocs(b)
      BY <1>17 DEF CheckFails, mongoVars, turnVars, bookVars, capVars, SameDocs, SameDoc
    <3>3. pc[s] = "checking" /\ pc'[s] = "tools"
          /\ turn'[s] = turn[s] /\ acc'[s] = acc[s] /\ held'[s] = held[s]
      BY <1>0, <1>17, <2>2
         DEF LoopTypes, CheckFails, mongoVars, turnVars, bookVars, capVars, AfterCheck,
             Go, Spender
    <3>4. Current(s)'
      <4>1. Doc(s)' = Doc(s) /\ (turn[s] \in Turn => SameDoc(Doc(s))) /\ acc[s] \in Nat
        BY <1>0, <2>2, <3>2, <3>3, Consts DEF LoopTypes, SameDocs, Doc
      <4>2. ASSUME NEW t \in Turn, t > turn[s] PROVE Fresh(s, t)'
        BY <2>2, <3>2, <4>2, AheadFresh DEF SameDocs
      <4>3. pc[s] \in Before => turn[s] < MaxTurns
        BY <1>0, <2>2 DEF Turns, Current
      <4>4. pc[s] \in Running => /\ turn[s] \in Turn /\ booked[Doc(s)] = 0
                                /\ status[Doc(s)] \in {"none", "running"}
                                /\ Doc(s) \notin cut /\ Doc(s) \notin unwritten
                                /\ (status[Doc(s)] = "running" => cost[Doc(s)] \in Nat /\ cost[Doc(s)] <= acc[s])
        BY <1>0, <2>2, Consts DEF Turns, Current, DocTypes, Doc
      <4> QED
        BY <3>3, <4>1, <4>2, <4>3, <4>4
           DEF Current, SameDoc, Before, Opening, Running
    <3>5. Claimed(s)'
      BY <1>0, <2>2, <3>2, <3>3 DEF Turns, Claimed, SameDocs, SameDoc
    <3> QED BY <1>0, <2>2, <3>1, <3>2, <3>4, <3>5, Unmoved DEF Turns
  <2> QED BY <2>1, <2>2 DEF Spender
<1>18. ASSUME NEW r \in Reader, NEW part \in {"life", "turns", "cap"}, Read(r, part)
       PROVE Turns'
  <2>1. ASSUME NEW b \in Agent PROVE SameDocs(b) /\ SameLoop(b)
    BY <1>18
       DEF Read, mongoVars, turnVars, bookVars, capVars, SameDocs, SameDoc, SameLoop
  <2> QED BY <1>0, <2>1, Unmoved DEF Turns
<1>19. CASE Extend
  <2>1. ASSUME NEW b \in Agent PROVE SameDocs(b) /\ SameLoop(b)
    BY <1>19 DEF Extend, mongoVars, turnVars, bookVars, SameDocs, SameDoc, SameLoop
  <2> QED BY <1>0, <2>1, Unmoved DEF Turns
<1>20. CASE ExtendWrite
  <2>1. ASSUME NEW b \in Agent PROVE SameDocs(b) /\ SameLoop(b)
    BY <1>20 DEF ExtendWrite, mongoVars, turnVars, bookVars, SameDocs, SameDoc, SameLoop
  <2> QED BY <1>0, <2>1, Unmoved DEF Turns
<1>21. CASE ExtendResume
  <2>1. ASSUME NEW b \in Agent PROVE SameDocs(b) /\ SameLoop(b)
    BY <1>21
       DEF ExtendResume, mongoVars, turnVars, bookVars, SameDocs, SameDoc, SameLoop
  <2> QED BY <1>0, <2>1, Unmoved DEF Turns
<1>22. CASE SetCap
  <2>1. ASSUME NEW b \in Agent PROVE SameDocs(b) /\ SameLoop(b)
    BY <1>22 DEF SetCap, mongoVars, turnVars, bookVars, SameDocs, SameDoc, SameLoop
  <2> QED BY <1>0, <2>1, Unmoved DEF Turns
<1>23. CASE SetResume
  <2>1. ASSUME NEW b \in Agent PROVE SameDocs(b) /\ SameLoop(b)
    BY <1>23 DEF SetResume, mongoVars, turnVars, bookVars, SameDocs, SameDoc, SameLoop
  <2> QED BY <1>0, <2>1, Unmoved DEF Turns
<1>24. CASE SaveCap
  <2>1. ASSUME NEW b \in Agent PROVE SameDocs(b) /\ SameLoop(b)
    BY <1>24 DEF SaveCap, mongoVars, turnVars, bookVars, SameDocs, SameDoc, SameLoop
  <2> QED BY <1>0, <2>1, Unmoved DEF Turns
<1>25. CASE Die
  <2>1. ASSUME NEW b \in Agent PROVE Current(b)' /\ Claimed(b)'
    <3>1. pc'[b] = "idle" /\ turn'[b] = turn[b] /\ held'[b] = 0
      BY <1>25, Consts DEF Die, Spender
    <3>2. ASSUME NEW t \in Turn, t > turn[b] PROVE Fresh(b, t)'
      <4>1. \A a \in Agent : /\ pc[a] = "claimed" => held[a] < turn[a] /\ held[a] \in Turn
                            /\ turn[a] \in 0 .. MaxTurns
        BY <1>0 DEF Turns, Claimed, LoopTypes
      <4>2. <<b, t>> \notin {<<a, held[a]>> : a \in {c \in Agent : pc[c] = "claimed"}}
        BY <3>2, <4>1, Consts DEF Turn
      <4>3. <<b, t>> \notin {Doc(a) : a \in {c \in Agent : pc[c] = "adding"}}
        BY <3>2, <4>1, Consts DEF Turn, Doc
      <4>4. Fresh(b, t)
        BY <1>0, <3>2 DEF Turns, Current
      <4>5. <<b, t>> \notin cut' /\ UNCHANGED <<status, cost, booked, unwritten>>
        BY <1>25, <4>2, <4>3, <4>4 DEF Die, mongoVars, Fresh
      <4> QED BY <4>4, <4>5 DEF Fresh
    <3>3. Current(b)'
      BY <3>1, <3>2 DEF Current, Before, Opening, Running
    <3> QED BY <3>1, <3>3 DEF Claimed
  <2> QED BY <2>1 DEF Turns
<1> QED
  BY <1>1, <1>2, <1>3, <1>4, <1>5, <1>6, <1>7, <1>8, <1>9, <1>10, <1>11, <1>12, <1>13,
     <1>14, <1>15, <1>16, <1>17, <1>18, <1>19, <1>20, <1>21, <1>22, <1>23, <1>24, <1>25
     DEF Next, TurnStep, CallStep, OperatorStep

-----------------------------------------------------------------------------
(* Every ended turn is booked once *)

\* What is known of a document stays known while it does not change.
LEMMA BookedSame ==
  ASSUME NEW x, BookedAt(x), SameDoc(x) PROVE BookedAt(x)'
BY DEF BookedAt, SameDoc

\* No step adds a turn's cost twice, or after it was cut.
LEMMA BookedStep ==
  ASSUME IInv, TypeOK', Next
  PROVE  Booked'
<1>0. Turns /\ Booked /\ DocTypes /\ LoopTypes
  BY TypeParts DEF IInv
<1>1. ASSUME NEW a \in Agent, Dispatch(a) PROVE Booked'
  BY <1>0, <1>1 DEF Booked, BookedAt, Dispatch, mongoVars, turnVars, bookVars, capVars
<1>2. ASSUME NEW a \in Agent, Reflect(a) PROVE Booked'
  BY <1>0, <1>2 DEF Booked, BookedAt, Reflect, mongoVars, turnVars, bookVars, capVars
<1>3. ASSUME NEW a \in Agent, StartTurn(a) PROVE Booked'
  BY <1>0, <1>3 DEF Booked, BookedAt, StartTurn, mongoVars, bookVars, capVars
<1>4. ASSUME NEW a \in Agent, Claim(a) PROVE Booked'
  <2>1. PICK t \in Stale(a) : status' = [status EXCEPT ![<<a, t>>] = "aborted"]
    BY <1>4 DEF Claim
  <2>2. <<a, t>> \in Agent \X Turn /\ UNCHANGED <<cost, booked, cut, unwritten>>
    BY <1>4 DEF Stale, Claim, bookVars
  <2>3. ASSUME NEW x \in Agent \X Turn, x # <<a, t>> PROVE SameDoc(x)
    BY <1>0, <2>1, <2>2, <2>3 DEF DocTypes, SameDoc
  <2>4. BookedAt(<<a, t>>)
    BY <1>0, <2>2 DEF Booked
  <2>5. ASSUME NEW x \in Agent \X Turn, x = <<a, t>> PROVE BookedAt(x)'
    BY <1>0, <2>1, <2>2, <2>4, <2>5 DEF DocTypes, BookedAt
  <2> QED BY <1>0, <2>3, <2>5, BookedSame DEF Booked
<1>5. ASSUME NEW a \in Agent, AddClaimed(a) PROVE Booked'
  <2> DEFINE x == <<a, held[a]>>
  <2>1. x \in Agent \X Turn
    BY <1>5, Where DEF AddClaimed
  <2>2. ASSUME NEW y \in Agent \X Turn, y # x PROVE SameDoc(y)
    BY <1>0, <1>5, <2>1, <2>2 DEF DocTypes, AddClaimed, SameDoc
  <2>3. status[x] = "aborted" /\ (x \in unwritten \/ (booked[x] = 0 /\ x \notin cut))
    BY <1>0, <1>5 DEF Turns, Claimed, AddClaimed
  <2>4. UNCHANGED <<status, unwritten>>
    BY <1>5 DEF AddClaimed
  <2>5. booked'[x] = booked[x] \/ (booked'[x] = booked[x] + 1 /\ UNCHANGED cut)
    BY <1>0, <1>5, <2>1 DEF DocTypes, AddClaimed
  <2>6. ASSUME NEW y \in Agent \X Turn, y = x PROVE BookedAt(y)'
    BY <2>3, <2>4, <2>5, <2>6 DEF BookedAt
  <2> QED BY <1>0, <2>2, <2>6, BookedSame DEF Booked
<1>6. ASSUME NEW a \in Agent, OpenTurn(a) PROVE Booked'
  <2>1. Doc(a) \in Agent \X Turn /\ booked[Doc(a)] = 0 /\ Doc(a) \notin cut
    BY <1>0, <1>6, Where DEF OpenTurn, Opening, Turns, Current, Fresh, Doc
  <2>2. ASSUME NEW x \in Agent \X Turn, x # Doc(a) PROVE SameDoc(x)
    BY <1>0, <1>6, <2>1, <2>2 DEF DocTypes, OpenTurn, bookVars, SameDoc
  <2>3. UNCHANGED <<booked, cut, unwritten>>
    BY <1>6 DEF OpenTurn, bookVars
  <2>4. ASSUME NEW x \in Agent \X Turn, x = Doc(a) PROVE BookedAt(x)'
    BY <2>1, <2>3, <2>4 DEF BookedAt
  <2> QED BY <1>0, <2>2, <2>4, BookedSame DEF Booked
<1>7. ASSUME NEW a \in Agent, PassGate(a) PROVE Booked'
  BY <1>0, <1>7 DEF Booked, BookedAt, PassGate, mongoVars, turnVars, bookVars, capVars
<1>8. ASSUME NEW a \in Agent, Record(a) PROVE Booked'
  <2>1. Doc(a) \in Agent \X Turn /\ booked[Doc(a)] = 0 /\ Doc(a) \notin cut
    BY <1>0, <1>8, Where DEF Record, Running, Turns, Current
  <2>2. ASSUME NEW x \in Agent \X Turn, x # Doc(a) PROVE SameDoc(x)
    BY <1>0, <1>8, <2>1, <2>2 DEF DocTypes, Record, bookVars, SameDoc
  <2>3. UNCHANGED <<booked, cut, unwritten>>
    BY <1>8 DEF Record, bookVars
  <2>4. ASSUME NEW x \in Agent \X Turn, x = Doc(a) PROVE BookedAt(x)'
    BY <2>1, <2>3, <2>4 DEF BookedAt
  <2> QED BY <1>0, <2>2, <2>4, BookedSame DEF Booked
<1>9. ASSUME NEW a \in Agent, NextCall(a) PROVE Booked'
  BY <1>0, <1>9 DEF Booked, BookedAt, NextCall, mongoVars, bookVars, capVars
<1>10. ASSUME NEW a \in Agent, EndTurn(a) PROVE Booked'
  BY <1>0, <1>10 DEF Booked, BookedAt, EndTurn, mongoVars, turnVars, bookVars, capVars
<1>11. ASSUME NEW a \in Agent, CloseTurn(a) PROVE Booked'
  <2>1. Doc(a) \in Agent \X Turn /\ booked[Doc(a)] = 0 /\ Doc(a) \notin cut
    BY <1>0, <1>11, Where DEF CloseTurn, Running, Turns, Current
  <2>2. ASSUME NEW x \in Agent \X Turn, x # Doc(a) PROVE SameDoc(x)
    BY <1>0, <1>11, <2>1, <2>2 DEF DocTypes, CloseTurn, SameDoc
  <2>3. UNCHANGED <<booked, cut>>
    BY <1>11 DEF CloseTurn
  <2>4. ASSUME NEW x \in Agent \X Turn, x = Doc(a) PROVE BookedAt(x)'
    BY <2>1, <2>3, <2>4 DEF BookedAt
  <2> QED BY <1>0, <2>2, <2>4, BookedSame DEF Booked
<1>12. ASSUME NEW a \in Agent, AddTurn(a) PROVE Booked'
  <2>1. Doc(a) \in Agent \X Turn /\ booked[Doc(a)] = 0 /\ Doc(a) \notin cut
        /\ (status[Doc(a)] = "complete" <=> Doc(a) \notin unwritten)
    BY <1>0, <1>12, Where DEF AddTurn, Turns, Current
  <2>2. ASSUME NEW x \in Agent \X Turn, x # Doc(a) PROVE SameDoc(x)
    BY <1>0, <1>12, <2>1, <2>2 DEF DocTypes, AddTurn, SameDoc
  <2>3. UNCHANGED <<status, unwritten>>
    BY <1>12 DEF AddTurn
  <2>5. \/ booked'[Doc(a)] = 1 /\ UNCHANGED cut
        \/ booked'[Doc(a)] = 0
    BY <1>0, <1>12, <2>1 DEF DocTypes, AddTurn
  <2>4. ASSUME NEW x \in Agent \X Turn, x = Doc(a) PROVE BookedAt(x)'
    BY <2>1, <2>3, <2>4, <2>5 DEF BookedAt
  <2> QED BY <1>0, <2>2, <2>4, BookedSame DEF Booked
<1>13. ASSUME NEW j \in Job, JobCall(j) PROVE Booked'
  BY <1>0, <1>13 DEF Booked, BookedAt, JobCall, mongoVars, turnVars, bookVars, capVars
<1>14. ASSUME NEW s \in Spender, Charge(s) PROVE Booked'
  BY <1>0, <1>14 DEF Booked, BookedAt, Charge, turnVars, bookVars, capVars
<1>15. ASSUME NEW s \in Spender, Answer(s) PROVE Booked'
  BY <1>0, <1>15 DEF Booked, BookedAt, Answer, mongoVars, bookVars, capVars
<1>16. ASSUME NEW s \in Spender, CheckCap(s) PROVE Booked'
  BY <1>0, <1>16 DEF Booked, BookedAt, CheckCap, mongoVars, turnVars, bookVars, capVars
<1>17. ASSUME NEW s \in Spender, CheckFails(s) PROVE Booked'
  BY <1>0, <1>17
     DEF Booked, BookedAt, CheckFails, mongoVars, turnVars, bookVars, capVars
<1>18. ASSUME NEW r \in Reader, NEW part \in {"life", "turns", "cap"}, Read(r, part)
       PROVE Booked'
  BY <1>0, <1>18 DEF Booked, BookedAt, Read, mongoVars, turnVars, bookVars, capVars
<1>19. CASE Extend
  BY <1>0, <1>19 DEF Booked, BookedAt, Extend, mongoVars, turnVars, bookVars
<1>20. CASE ExtendWrite
  BY <1>0, <1>20 DEF Booked, BookedAt, ExtendWrite, mongoVars, turnVars, bookVars
<1>21. CASE ExtendResume
  BY <1>0, <1>21 DEF Booked, BookedAt, ExtendResume, mongoVars, turnVars, bookVars
<1>22. CASE SetCap
  BY <1>0, <1>22 DEF Booked, BookedAt, SetCap, mongoVars, turnVars, bookVars
<1>23. CASE SetResume
  BY <1>0, <1>23 DEF Booked, BookedAt, SetResume, mongoVars, turnVars, bookVars
<1>24. CASE SaveCap
  BY <1>0, <1>24 DEF Booked, BookedAt, SaveCap, mongoVars, turnVars, bookVars
<1>25. CASE Die
  <2>1. UNCHANGED <<status, cost, booked, unwritten>>
    BY <1>25 DEF Die, mongoVars
  <2>2. ASSUME NEW x \in Agent \X Turn PROVE BookedAt(x)'
    <3>1. CASE x \in {<<b, held[b]>> : b \in {c \in Agent : pc[c] = "claimed"}}
      <4>1. PICK b \in Agent : pc[b] = "claimed" /\ x = <<b, held[b]>>
        BY <3>1
      <4>2. status[x] = "aborted" /\ (x \in unwritten \/ booked[x] = 0)
        BY <1>0, <4>1 DEF Turns, Claimed
      <4> QED BY <2>1, <4>2 DEF BookedAt
    <3>2. CASE x \in {Doc(b) : b \in {c \in Agent : pc[c] = "adding"}} \ unwritten
      <4>1. PICK b \in Agent : pc[b] = "adding" /\ x = Doc(b)
        BY <3>2
      <4>2. status[x] = "complete" /\ booked[x] = 0
        BY <1>0, <3>2, <4>1 DEF Turns, Current
      <4> QED BY <2>1, <4>2 DEF BookedAt
    <3>3. CASE x \in cut' <=> x \in cut
      BY <1>0, <2>1, <3>3, BookedSame DEF Booked, SameDoc
    <3> QED BY <1>25, <3>1, <3>2, <3>3 DEF Die
  <2> QED BY <2>2 DEF Booked
<1> QED
  BY <1>1, <1>2, <1>3, <1>4, <1>5, <1>6, <1>7, <1>8, <1>9, <1>10, <1>11, <1>12, <1>13,
     <1>14, <1>15, <1>16, <1>17, <1>18, <1>19, <1>20, <1>21, <1>22, <1>23, <1>24, <1>25
     DEF Next, TurnStep, CallStep, OperatorStep

\* No step loses an ended turn.
LEMMA EndedStep ==
  ASSUME IInv, TypeOK', Next
  PROVE  Ended'
<1>0. Ended /\ Turns /\ DocTypes /\ LoopTypes
  BY TypeParts DEF IInv
<1>1. ASSUME NEW a \in Agent, Dispatch(a) PROVE Ended'
  <2>1. UNCHANGED <<status, booked, cut, held, turn>>
    BY <1>1 DEF Dispatch, mongoVars, turnVars, bookVars, capVars
  <2>2. \A b \in Agent : pc[b] = "adding" => pc'[b] = "adding"
    BY <1>0, <1>1, Consts
       DEF LoopTypes, Dispatch, mongoVars, turnVars, bookVars, capVars, Go, Spender
  <2> QED BY <1>0, <2>1, <2>2 DEF Ended, EndedAt
<1>2. ASSUME NEW a \in Agent, Reflect(a) PROVE Ended'
  <2>1. UNCHANGED <<status, booked, cut, held, turn>>
    BY <1>2 DEF Reflect, mongoVars, turnVars, bookVars, capVars
  <2>2. \A b \in Agent : pc[b] = "adding" => pc'[b] = "adding"
    BY <1>0, <1>2, Consts
       DEF LoopTypes, Reflect, mongoVars, turnVars, bookVars, capVars, Go, Spender
  <2> QED BY <1>0, <2>1, <2>2 DEF Ended, EndedAt
<1>3. ASSUME NEW a \in Agent, StartTurn(a) PROVE Ended'
  <2>1. UNCHANGED <<status, booked, cut, held>>
    BY <1>3 DEF StartTurn, mongoVars, bookVars
  <2>2. \A b \in Agent : pc[b] = "adding" => pc'[b] = "adding" /\ turn'[b] = turn[b]
    BY <1>0, <1>3 DEF LoopTypes, StartTurn, Go, Spender
  <2> QED BY <1>0, <2>1, <2>2 DEF Ended, EndedAt
<1>4. ASSUME NEW a \in Agent, Claim(a) PROVE Ended'
  <2>1. PICK u \in Stale(a) :
          status' = [status EXCEPT ![<<a, u>>] = "aborted"] /\ held' = [held EXCEPT ![a] = u]
    BY <1>4 DEF Claim
  <2>2. pc[a] = "reconcile" /\ UNCHANGED <<turn, cost, booked, cut, unwritten>>
    BY <1>4 DEF Claim, bookVars
  <2>3. held[a] = 0 /\ u \in Turn
    BY <1>0, <2>2 DEF Turns, Claimed, Stale
  <2>4. ASSUME NEW b \in Agent, NEW t \in Turn PROVE EndedAt(b, t)'
    <3>1. CASE b = a /\ t = u
      BY <1>0, <2>1, <3>1 DEF LoopTypes, EndedAt
    <3>2. CASE <<b, t>> # <<a, u>>
      <4>1. SameDoc(<<b, t>>)
        BY <1>0, <2>1, <2>2, <3>2 DEF DocTypes, SameDoc
      <4>2. held[b] = t => held'[b] = t
        BY <1>0, <2>1, <2>3, TurnTypes DEF LoopTypes, Turn
      <4>3. pc[b] = "adding" => pc'[b] = "adding"
        BY <1>0, <1>4, <2>2 DEF LoopTypes, Claim, Go, Spender
      <4>4. EndedAt(b, t)
        BY <1>0 DEF Ended
      <4> QED BY <2>2, <4>1, <4>2, <4>3, <4>4 DEF EndedAt, SameDoc
    <3> QED BY <3>1, <3>2
  <2> QED BY <2>4 DEF Ended
<1>5. ASSUME NEW a \in Agent, AddClaimed(a) PROVE Ended'
  <2>1. held[a] \in Turn
    BY <1>0, <1>5 DEF AddClaimed, Turns, Claimed
  <2>2. ASSUME NEW b \in Agent, NEW t \in Turn, <<b, t>> # <<a, held[a]>>
        PROVE EndedAt(b, t)'
    <3>1. SameDoc(<<b, t>>)
      BY <1>0, <1>5, <2>1, <2>2 DEF DocTypes, AddClaimed, capVars, SameDoc
    <3>2. (held[b] = t => held'[b] = t) /\ (turn[b] = t /\ pc[b] = "adding" => turn'[b] = t /\ pc'[b] = "adding")
      BY <1>0, <1>5, <2>2 DEF LoopTypes, AddClaimed, capVars, Go, Spender
    <3>3. EndedAt(b, t)
      BY <1>0 DEF Ended
    <3> QED BY <3>1, <3>2, <3>3 DEF EndedAt, SameDoc
  <2>4. ASSUME NEW t \in Turn, t = held[a] PROVE EndedAt(a, t)'
    <3>1. booked'[<<a, t>>] > 0 \/ <<a, t>> \in cut'
      BY <1>0, <1>5, <2>1, <2>4 DEF DocTypes, AddClaimed
    <3> QED BY <3>1 DEF EndedAt
  <2> QED BY <2>2, <2>4 DEF Ended
<1>6. ASSUME NEW a \in Agent, OpenTurn(a) PROVE Ended'
  <2>1. turn[a] \in Turn /\ Fresh(a, turn[a])
    BY <1>0, <1>6 DEF OpenTurn, Turns, Current, Opening
  <2>2. ASSUME NEW b \in Agent, NEW t \in Turn, <<b, t>> # Doc(a) PROVE EndedAt(b, t)'
    <3>1. SameDoc(<<b, t>>)
      BY <1>0, <1>6, <2>1, <2>2 DEF DocTypes, OpenTurn, bookVars, capVars, Doc, SameDoc
    <3>2. (held[b] = t => held'[b] = t) /\ (turn[b] = t /\ pc[b] = "adding" => turn'[b] = t /\ pc'[b] = "adding")
      BY <1>0, <1>6, <2>2 DEF LoopTypes, OpenTurn, bookVars, capVars, Go, Doc, Spender
    <3>3. EndedAt(b, t)
      BY <1>0 DEF Ended
    <3> QED BY <3>1, <3>2, <3>3 DEF EndedAt, SameDoc
  <2>4. ASSUME NEW t \in Turn, t = turn[a] PROVE EndedAt(a, t)'
    <3>1. status'[<<a, t>>] \in {"running", "none"}
      BY <1>0, <1>6, <2>1, <2>4 DEF DocTypes, OpenTurn, Doc, Fresh
    <3> QED BY <3>1 DEF EndedAt
  <2> QED BY <2>2, <2>4 DEF Ended, Doc
<1>7. ASSUME NEW a \in Agent, PassGate(a) PROVE Ended'
  <2>1. UNCHANGED <<status, booked, cut, held, turn>>
    BY <1>7 DEF PassGate, mongoVars, turnVars, bookVars, capVars
  <2>2. \A b \in Agent : pc[b] = "adding" => pc'[b] = "adding"
    BY <1>0, <1>7, Consts
       DEF LoopTypes, PassGate, mongoVars, turnVars, bookVars, capVars, Go, Spender
  <2> QED BY <1>0, <2>1, <2>2 DEF Ended, EndedAt
<1>8. ASSUME NEW a \in Agent, Record(a) PROVE Ended'
  <2>1. turn[a] \in Turn /\ status[Doc(a)] \in {"none", "running"}
    BY <1>0, <1>8 DEF Record, Turns, Current, Running
  <2>2. ASSUME NEW b \in Agent, NEW t \in Turn, <<b, t>> # Doc(a) PROVE EndedAt(b, t)'
    <3>1. SameDoc(<<b, t>>)
      BY <1>0, <1>8, <2>1, <2>2
         DEF DocTypes, Record, turnVars, bookVars, capVars, Doc, SameDoc
    <3>2. (held[b] = t => held'[b] = t) /\ (turn[b] = t /\ pc[b] = "adding" => turn'[b] = t /\ pc'[b] = "adding")
      BY <1>0, <1>8, <2>2
         DEF LoopTypes, Record, turnVars, bookVars, capVars, Go, Doc, Spender
    <3>3. EndedAt(b, t)
      BY <1>0 DEF Ended
    <3> QED BY <3>1, <3>2, <3>3 DEF EndedAt, SameDoc
  <2>4. ASSUME NEW t \in Turn, t = turn[a] PROVE EndedAt(a, t)'
    <3>1. status'[<<a, t>>] \in {"running", "none"}
      BY <1>0, <1>8, <2>1, <2>4 DEF DocTypes, Record, Doc
    <3> QED BY <3>1 DEF EndedAt
  <2> QED BY <2>2, <2>4 DEF Ended, Doc
<1>9. ASSUME NEW a \in Agent, NextCall(a) PROVE Ended'
  <2>1. UNCHANGED <<status, booked, cut, held, turn>>
    BY <1>9 DEF NextCall, mongoVars, bookVars, capVars
  <2>2. \A b \in Agent : pc[b] = "adding" => pc'[b] = "adding"
    BY <1>0, <1>9, Consts
       DEF LoopTypes, NextCall, mongoVars, bookVars, capVars, Go, Spender
  <2> QED BY <1>0, <2>1, <2>2 DEF Ended, EndedAt
<1>10. ASSUME NEW a \in Agent, EndTurn(a) PROVE Ended'
  <2>1. UNCHANGED <<status, booked, cut, held, turn>>
    BY <1>10 DEF EndTurn, mongoVars, turnVars, bookVars, capVars
  <2>2. \A b \in Agent : pc[b] = "adding" => pc'[b] = "adding"
    BY <1>0, <1>10, Consts
       DEF LoopTypes, EndTurn, mongoVars, turnVars, bookVars, capVars, Go, Spender
  <2> QED BY <1>0, <2>1, <2>2 DEF Ended, EndedAt
<1>11. ASSUME NEW a \in Agent, CloseTurn(a) PROVE Ended'
  <2>1. turn[a] \in Turn
    BY <1>0, <1>11 DEF CloseTurn, Turns, Current, Running
  <2>2. ASSUME NEW b \in Agent, NEW t \in Turn, <<b, t>> # Doc(a) PROVE EndedAt(b, t)'
    <3>1. SameDoc(<<b, t>>)
      BY <1>0, <1>11, <2>1, <2>2
         DEF DocTypes, CloseTurn, turnVars, capVars, Doc, SameDoc
    <3>2. (held[b] = t => held'[b] = t) /\ (turn[b] = t /\ pc[b] = "adding" => turn'[b] = t /\ pc'[b] = "adding")
      BY <1>0, <1>11, <2>2 DEF LoopTypes, CloseTurn, turnVars, capVars, Go, Doc, Spender
    <3>3. EndedAt(b, t)
      BY <1>0 DEF Ended
    <3> QED BY <3>1, <3>2, <3>3 DEF EndedAt, SameDoc
  <2>4. ASSUME NEW t \in Turn, t = turn[a] PROVE EndedAt(a, t)'
    <3>1. turn'[a] = t /\ pc'[a] = "adding"
      BY <1>0, <1>11, <2>4 DEF LoopTypes, CloseTurn, turnVars, Go, Spender
    <3> QED BY <3>1 DEF EndedAt
  <2> QED BY <2>2, <2>4 DEF Ended, Doc
<1>12. ASSUME NEW a \in Agent, AddTurn(a) PROVE Ended'
  <2>1. Doc(a) \in Agent \X Turn /\ status[Doc(a)] \in {"none", "running", "complete"}
        /\ (status[Doc(a)] = "complete" <=> Doc(a) \notin unwritten) /\ booked[Doc(a)] = 0
    BY <1>0, <1>12, Where DEF AddTurn, Turns, Current
  <2>2. ASSUME NEW b \in Agent, NEW t \in Turn, <<b, t>> # Doc(a) PROVE EndedAt(b, t)'
    <3>1. SameDoc(<<b, t>>)
      BY <1>0, <1>12, <2>1, <2>2 DEF DocTypes, AddTurn, capVars, Doc, SameDoc
    <3>2. (held[b] = t => held'[b] = t) /\ (turn[b] = t /\ pc[b] = "adding" => turn'[b] = t /\ pc'[b] = "adding")
      BY <1>0, <1>12, <2>2 DEF LoopTypes, AddTurn, capVars, Go, Doc, Spender
    <3>3. EndedAt(b, t)
      BY <1>0 DEF Ended
    <3> QED BY <3>1, <3>2, <3>3 DEF EndedAt, SameDoc
  <2>4. ASSUME NEW t \in Turn, t = turn[a] PROVE EndedAt(a, t)'
    <3>1. status'[<<a, t>>] = status[Doc(a)]
      BY <1>12, <2>4 DEF AddTurn, Doc
    <3>2. Doc(a) \in unwritten \/ booked'[Doc(a)] > 0 \/ Doc(a) \in cut'
      BY <1>0, <1>12, <2>1 DEF DocTypes, AddTurn
    <3> QED BY <2>1, <2>4, <3>1, <3>2 DEF EndedAt, Doc
  <2> QED BY <2>2, <2>4 DEF Ended, Doc
<1>13. ASSUME NEW j \in Job, JobCall(j) PROVE Ended'
  <2>1. UNCHANGED <<status, booked, cut, held, turn>>
    BY <1>13 DEF JobCall, mongoVars, turnVars, bookVars, capVars
  <2>2. \A b \in Agent : pc[b] = "adding" => pc'[b] = "adding"
    BY <1>0, <1>13, Consts
       DEF LoopTypes, JobCall, mongoVars, turnVars, bookVars, capVars, Go, Spender
  <2> QED BY <1>0, <2>1, <2>2 DEF Ended, EndedAt
<1>14. ASSUME NEW s \in Spender, Charge(s) PROVE Ended'
  <2>1. UNCHANGED <<status, booked, cut, held, turn>>
    BY <1>14 DEF Charge, turnVars, bookVars, capVars
  <2>2. \A b \in Agent : pc[b] = "adding" => pc'[b] = "adding"
    BY <1>0, <1>14, Consts
       DEF LoopTypes, Charge, turnVars, bookVars, capVars, Go, Spender
  <2> QED BY <1>0, <2>1, <2>2 DEF Ended, EndedAt
<1>15. ASSUME NEW s \in Spender, Answer(s) PROVE Ended'
  <2>1. UNCHANGED <<status, booked, cut, held, turn>>
    BY <1>15 DEF Answer, mongoVars, bookVars, capVars
  <2>2. \A b \in Agent : pc[b] = "adding" => pc'[b] = "adding"
    BY <1>0, <1>15, Consts
       DEF LoopTypes, Answer, mongoVars, bookVars, capVars, Go, Spender
  <2> QED BY <1>0, <2>1, <2>2 DEF Ended, EndedAt
<1>16. ASSUME NEW s \in Spender, CheckCap(s) PROVE Ended'
  <2>1. UNCHANGED <<status, booked, cut, held, turn>>
    BY <1>16 DEF CheckCap, mongoVars, turnVars, bookVars, capVars
  <2>2. \A b \in Agent : pc[b] = "adding" => pc'[b] = "adding"
    BY <1>0, <1>16, Consts
       DEF LoopTypes, CheckCap, mongoVars, turnVars, bookVars, capVars, AfterCheck, Go,
           Spender
  <2> QED BY <1>0, <2>1, <2>2 DEF Ended, EndedAt
<1>17. ASSUME NEW s \in Spender, CheckFails(s) PROVE Ended'
  <2>1. UNCHANGED <<status, booked, cut, held, turn>>
    BY <1>17 DEF CheckFails, mongoVars, turnVars, bookVars, capVars
  <2>2. \A b \in Agent : pc[b] = "adding" => pc'[b] = "adding"
    BY <1>0, <1>17, Consts
       DEF LoopTypes, CheckFails, mongoVars, turnVars, bookVars, capVars, AfterCheck,
           Go, Spender
  <2> QED BY <1>0, <2>1, <2>2 DEF Ended, EndedAt
<1>18. ASSUME NEW r \in Reader, NEW part \in {"life", "turns", "cap"}, Read(r, part)
       PROVE Ended'
  BY <1>0, <1>18 DEF Ended, EndedAt, Read, mongoVars, turnVars, bookVars, capVars
<1>19. CASE Extend
  BY <1>0, <1>19 DEF Ended, EndedAt, Extend, mongoVars, turnVars, bookVars
<1>20. CASE ExtendWrite
  BY <1>0, <1>20 DEF Ended, EndedAt, ExtendWrite, mongoVars, turnVars, bookVars
<1>21. CASE ExtendResume
  BY <1>0, <1>21 DEF Ended, EndedAt, ExtendResume, mongoVars, turnVars, bookVars
<1>22. CASE SetCap
  BY <1>0, <1>22 DEF Ended, EndedAt, SetCap, mongoVars, turnVars, bookVars
<1>23. CASE SetResume
  BY <1>0, <1>23 DEF Ended, EndedAt, SetResume, mongoVars, turnVars, bookVars
<1>24. CASE SaveCap
  BY <1>0, <1>24 DEF Ended, EndedAt, SaveCap, mongoVars, turnVars, bookVars
<1>25. CASE Die
  <2>1. UNCHANGED <<status, booked>>
    BY <1>25 DEF Die, mongoVars
  <2>2. ASSUME NEW b \in Agent, NEW t \in Turn, status[<<b, t>>] \in {"complete", "aborted"}
        PROVE  booked[<<b, t>>] > 0 \/ <<b, t>> \in cut'
    <3>1. CASE booked[<<b, t>>] > 0 \/ <<b, t>> \in cut
      BY <1>25, <3>1 DEF Die
    <3>2. CASE held[b] = t
      <4>1. held[b] # 0
        BY <3>2, Consts DEF Turn
      <4>3. pc[b] = "claimed"
        BY <1>0, <4>1 DEF Turns, Claimed
      <4>2. <<b, t>> \in {<<a, held[a]>> : a \in {c \in Agent : pc[c] = "claimed"}}
        BY <3>2, <4>3
      <4> QED BY <1>25, <4>2 DEF Die
    <3>3. CASE turn[b] = t /\ pc[b] = "adding"
      <4>1. <<b, t>> \in {Doc(a) : a \in {c \in Agent : pc[c] = "adding"}} \ unwritten
        BY <1>0, <2>2, <3>3 DEF Turns, Current, Doc
      <4> QED BY <1>25, <4>1 DEF Die
    <3> QED BY <1>0, <2>2, <3>1, <3>2, <3>3 DEF Ended, EndedAt
  <2> QED BY <2>1, <2>2 DEF Ended, EndedAt
<1> QED
  BY <1>1, <1>2, <1>3, <1>4, <1>5, <1>6, <1>7, <1>8, <1>9, <1>10, <1>11, <1>12, <1>13,
     <1>14, <1>15, <1>16, <1>17, <1>18, <1>19, <1>20, <1>21, <1>22, <1>23, <1>24, <1>25
     DEF Next, TurnStep, CallStep, OperatorStep

-----------------------------------------------------------------------------
(* The totals *)

\* A turn's share of RunTotal.
RunOf(x) == IF status[x] = "running" THEN cost[x] ELSE 0
Flight == SumFunction([a \in Agent |-> InFlight(a)])

\* The spend is in three places.
LEMMA SpentIs == Spent = LifeTotal + RunTotal + Flight
BY DEF Spent, Flight

\* What is between two documents is a cost.
LEMMA FlightNat ==
  ASSUME DocTypes, LoopTypes, Turns
  PROVE  Flight \in Nat /\ \A a \in Agent : InFlight(a) \in Nat
<1>1. ASSUME NEW a \in Agent PROVE InFlight(a) \in Nat
  <2>1. acc[a] \in Nat
    BY Consts DEF LoopTypes
  <2>2. pc[a] = "claimed" => cost[<<a, held[a]>>] \in Nat
    BY Consts DEF DocTypes, Turns, Claimed
  <2> QED BY <2>1, <2>2 DEF InFlight
<1>2. [a \in Agent |-> InFlight(a)] \in [Agent -> Nat]
  BY <1>1
<1> QED BY <1>1, <1>2, Finite, SumNat DEF Flight

\* What is spent, in naturals, in the state and in the next.
LEMMA Naturals ==
  ASSUME IInv, TypeOK', Turns'
  PROVE  /\ LifeTotal \in Nat /\ RunTotal \in Nat /\ Flight \in Nat /\ Spent \in Nat
         /\ LifeTotal' \in Nat /\ RunTotal' \in Nat /\ Flight' \in Nat /\ Spent' \in Nat
<1>1. DocTypes /\ LoopTypes /\ Turns /\ MaxCalls \in Nat
  BY TypeParts, Consts DEF IInv
<1>2. DocTypes' /\ LoopTypes'
  BY DEF TypeOK, DocTypes, LoopTypes
<1>3. LifeTotal \in Nat /\ RunTotal \in Nat /\ Flight \in Nat
  BY <1>1, TotalTypes, FlightNat
<1>4. LifeTotal' \in Nat /\ RunTotal' \in Nat
  <2>1. life' \in [Agent -> Nat]
    BY <1>2 DEF DocTypes
  <2>2. [x \in Agent \X Turn |-> IF status'[x] = "running" THEN cost'[x] ELSE 0]
          \in [Agent \X Turn -> Nat]
    BY <1>1, <1>2 DEF DocTypes
  <2> QED BY <2>1, <2>2, Finite, SumNat DEF LifeTotal, RunTotal
<1>5. Flight' \in Nat
  <2>1. ASSUME NEW a \in Agent PROVE InFlight(a)' \in Nat
    <3>1. acc'[a] \in Nat
      BY <1>1, <1>2 DEF LoopTypes
    <3>2. pc'[a] = "claimed" => cost'[<<a, held'[a]>>] \in Nat
      BY <1>1, <1>2 DEF DocTypes, Turns, Claimed
    <3> QED BY <3>1, <3>2 DEF InFlight
  <2>2. [a \in Agent |-> InFlight(a)'] \in [Agent -> Nat]
    BY <2>1
  <2> QED BY <2>2, Finite, SumNat DEF Flight
<1> QED BY <1>3, <1>4, <1>5, SpentIs DEF Spent, Flight

\* A step that changes one agent's total changes the sum by as much.
LEMMA LifeMoves ==
  ASSUME IInv, TypeOK', NEW a \in Agent, \A b \in Agent : b # a => life'[b] = life[b]
  PROVE  LifeTotal' = LifeTotal - life[a] + life'[a]
<1>1. life \in [Agent -> Int] /\ life' \in [Agent -> Int]
  BY DEF IInv, TypeOK
<1> QED BY <1>1, Finite, SumUpdate DEF LifeTotal

\* A step that changes one running turn moves the total by its change.
LEMMA RunMoves ==
  ASSUME IInv, TypeOK', NEW x \in Agent \X Turn,
         \A y \in Agent \X Turn : y # x => RunOf(y)' = RunOf(y)
  PROVE  RunTotal' = RunTotal - RunOf(x) + RunOf(x)'
<1> DEFINE f == [y \in Agent \X Turn |-> IF status[y] = "running" THEN cost[y] ELSE 0]
<1> DEFINE g == [y \in Agent \X Turn |-> IF status'[y] = "running" THEN cost'[y] ELSE 0]
<1>1. f \in [Agent \X Turn -> Int] /\ g \in [Agent \X Turn -> Int]
  BY Consts DEF IInv, TypeOK
<1>2. \A y \in Agent \X Turn : f[y] = RunOf(y) /\ g[y] = RunOf(y)'
  BY DEF RunOf
<1>3. RunTotal = SumFunction(f) /\ RunTotal' = SumFunction(g)
  BY DEF RunTotal
<1> HIDE DEF f, g
<1> QED BY <1>1, <1>2, <1>3, Finite, SumUpdate

\* A step that moves one agent's cost moves the cost in flight by its change.
LEMMA FlightMoves ==
  ASSUME IInv, TypeOK', Turns', NEW a \in Agent,
         \A b \in Agent : b # a => InFlight(b)' = InFlight(b)
  PROVE  Flight' = Flight - InFlight(a) + InFlight(a)'
<1> DEFINE f == [b \in Agent |-> InFlight(b)]
<1> DEFINE g == [b \in Agent |-> InFlight(b)']
<1>1. DocTypes /\ LoopTypes /\ Turns
  BY TypeParts DEF IInv
<1>2. \A b \in Agent : InFlight(b) \in Int
  BY <1>1, FlightNat
<1>3. ASSUME NEW b \in Agent PROVE InFlight(b)' \in Int
  <2>1. acc'[b] \in Int
    BY DEF TypeOK
  <2>2. pc'[b] = "claimed" => cost'[<<b, held'[b]>>] \in Int
    BY DEF TypeOK, Turns, Claimed
  <2> QED BY <2>1, <2>2 DEF InFlight
<1>4. f \in [Agent -> Int] /\ g \in [Agent -> Int]
  BY <1>2, <1>3
<1>5. Flight = SumFunction(f) /\ Flight' = SumFunction(g)
  BY DEF Flight
<1>6. \A b \in Agent : f[b] = InFlight(b) /\ g[b] = InFlight(b)'
  OBVIOUS
<1> HIDE DEF f, g
<1> QED BY <1>4, <1>5, <1>6, Finite, SumUpdate

\* An agent that is neither between two documents nor about to be.
Ashore(b) == pc[b] \notin {"claimed", "adding"} /\ pc'[b] \notin {"claimed", "adding"}

\* An agent whose documents and place do not change keeps what is in flight.
LEMMA SameFlight ==
  ASSUME NEW b \in Agent, LoopTypes, Turns, SameDocs(b), SameLoop(b) \/ Ashore(b)
  PROVE  InFlight(b)' = InFlight(b)
<1>1. CASE Ashore(b)
  BY <1>1 DEF Ashore, InFlight
<1>2. CASE SameLoop(b)
  <2>1. Doc(b)' = Doc(b)
    BY <1>2 DEF SameLoop, Doc
  <2>2. CASE pc[b] = "claimed"
    BY <1>2, <2>2 DEF SameLoop, SameDocs, SameDoc, InFlight, Turns, Claimed
  <2>3. CASE pc[b] = "adding"
    BY <1>2, <2>1, <2>3 DEF SameLoop, SameDocs, SameDoc, InFlight, Turns, Current, Doc
  <2>4. CASE pc[b] \notin {"claimed", "adding"}
    BY <1>2, <2>4 DEF SameLoop, InFlight
  <2> QED BY <2>2, <2>3, <2>4
<1> QED BY <1>1, <1>2

\* A step that moves no money.
Quiet ==
  \/ \E a \in Agent : Dispatch(a) \/ Reflect(a) \/ StartTurn(a) \/ PassGate(a) \/ NextCall(a) \/ EndTurn(a)
  \/ \E j \in Job : JobCall(j)
  \/ \E s \in Spender : Answer(s) \/ CheckCap(s) \/ CheckFails(s)
  \/ \E r \in Reader, part \in {"life", "turns", "cap"} : Read(r, part)
  \/ OperatorStep

\* No document changed, no money moved.
LEMMA SameMoney ==
  ASSUME IInv, TypeOK', Turns', UNCHANGED <<status, cost, life>>,
         \A b \in Agent : SameLoop(b) \/ Ashore(b)
  PROVE  LifeTotal' = LifeTotal /\ RunTotal' = RunTotal /\ Flight' = Flight
<1>1. LifeTotal' = LifeTotal /\ RunTotal' = RunTotal
  BY DEF LifeTotal, RunTotal
<1>2. ASSUME NEW b \in Agent PROVE InFlight(b)' = InFlight(b)
  <2>1. CASE Ashore(b)
    BY <2>1 DEF Ashore, InFlight
  <2>2. CASE SameLoop(b)
    BY <2>2 DEF SameLoop, InFlight, Doc
  <2> QED BY <2>1, <2>2
<1>3. [b \in Agent |-> InFlight(b)]' = [b \in Agent |-> InFlight(b)]
  BY <1>2
<1> QED BY <1>1, <1>3 DEF Flight

\* Dispatching, calling, checking and the operator's routes move no money.
LEMMA QuietMoney ==
  ASSUME IInv, TypeOK', Turns', Quiet
  PROVE  /\ LifeTotal' = LifeTotal /\ RunTotal' = RunTotal /\ Flight' = Flight
         /\ UNCHANGED <<status, cost, life>>
<1> DEFINE Still == UNCHANGED <<status, cost, life>> /\ \A b \in Agent : SameLoop(b) \/ Ashore(b)
<1>0. LoopTypes
  BY TypeParts DEF IInv
<1>1. ASSUME NEW a \in Agent, Dispatch(a) PROVE Still
  <2>1. UNCHANGED <<status, cost, life>>
    BY <1>1 DEF Dispatch, mongoVars, turnVars, bookVars, capVars
  <2>2. \A b \in Agent : SameLoop(b) \/ Ashore(b)
    BY <1>0, <1>1, Consts
       DEF LoopTypes, Dispatch, mongoVars, turnVars, bookVars, capVars, Go, SameLoop,
           Ashore, Spender
  <2> QED BY <2>1, <2>2
<1>2. ASSUME NEW a \in Agent, Reflect(a) PROVE Still
  <2>1. UNCHANGED <<status, cost, life>>
    BY <1>2 DEF Reflect, mongoVars, turnVars, bookVars, capVars
  <2>2. \A b \in Agent : SameLoop(b) \/ Ashore(b)
    BY <1>0, <1>2, Consts
       DEF LoopTypes, Reflect, mongoVars, turnVars, bookVars, capVars, Go, SameLoop,
           Ashore, Spender
  <2> QED BY <2>1, <2>2
<1>3. ASSUME NEW a \in Agent, StartTurn(a) PROVE Still
  <2>1. UNCHANGED <<status, cost, life>>
    BY <1>3 DEF StartTurn, mongoVars, bookVars, capVars
  <2>2. \A b \in Agent : SameLoop(b) \/ Ashore(b)
    BY <1>0, <1>3, Consts
       DEF LoopTypes, StartTurn, mongoVars, bookVars, capVars, Go, SameLoop, Ashore,
           Spender
  <2> QED BY <2>1, <2>2
<1>4. ASSUME NEW a \in Agent, PassGate(a) PROVE Still
  <2>1. UNCHANGED <<status, cost, life>>
    BY <1>4 DEF PassGate, mongoVars, turnVars, bookVars, capVars
  <2>2. \A b \in Agent : SameLoop(b) \/ Ashore(b)
    BY <1>0, <1>4, Consts
       DEF LoopTypes, PassGate, mongoVars, turnVars, bookVars, capVars, Go, SameLoop,
           Ashore, Spender
  <2> QED BY <2>1, <2>2
<1>5. ASSUME NEW a \in Agent, NextCall(a) PROVE Still
  <2>1. UNCHANGED <<status, cost, life>>
    BY <1>5 DEF NextCall, mongoVars, bookVars, capVars
  <2>2. \A b \in Agent : SameLoop(b) \/ Ashore(b)
    BY <1>0, <1>5, Consts
       DEF LoopTypes, NextCall, mongoVars, bookVars, capVars, Go, SameLoop, Ashore,
           Spender
  <2> QED BY <2>1, <2>2
<1>6. ASSUME NEW a \in Agent, EndTurn(a) PROVE Still
  <2>1. UNCHANGED <<status, cost, life>>
    BY <1>6 DEF EndTurn, mongoVars, turnVars, bookVars, capVars
  <2>2. \A b \in Agent : SameLoop(b) \/ Ashore(b)
    BY <1>0, <1>6, Consts
       DEF LoopTypes, EndTurn, mongoVars, turnVars, bookVars, capVars, Go, SameLoop,
           Ashore, Spender
  <2> QED BY <2>1, <2>2
<1>7. ASSUME NEW j \in Job, JobCall(j) PROVE Still
  <2>1. UNCHANGED <<status, cost, life>>
    BY <1>7 DEF JobCall, mongoVars, turnVars, bookVars, capVars
  <2>2. \A b \in Agent : SameLoop(b) \/ Ashore(b)
    BY <1>0, <1>7, Consts
       DEF LoopTypes, JobCall, mongoVars, turnVars, bookVars, capVars, Go, SameLoop,
           Ashore, Spender
  <2> QED BY <2>1, <2>2
<1>8. ASSUME NEW s \in Spender, Answer(s) PROVE Still
  <2>1. UNCHANGED <<status, cost, life>>
    BY <1>8 DEF Answer, mongoVars, bookVars, capVars
  <2>2. \A b \in Agent : SameLoop(b) \/ Ashore(b)
    BY <1>0, <1>8, Consts
       DEF LoopTypes, Answer, mongoVars, bookVars, capVars, Go, SameLoop, Ashore,
           Spender
  <2> QED BY <2>1, <2>2
<1>9. ASSUME NEW s \in Spender, CheckCap(s) PROVE Still
  <2>1. UNCHANGED <<status, cost, life>>
    BY <1>9 DEF CheckCap, mongoVars, turnVars, bookVars, capVars
  <2>2. \A b \in Agent : SameLoop(b) \/ Ashore(b)
    BY <1>0, <1>9, Consts
       DEF LoopTypes, CheckCap, mongoVars, turnVars, bookVars, capVars, AfterCheck, Go,
           SameLoop, Ashore, Spender
  <2> QED BY <2>1, <2>2
<1>10. ASSUME NEW s \in Spender, CheckFails(s) PROVE Still
  <2>1. UNCHANGED <<status, cost, life>>
    BY <1>10 DEF CheckFails, mongoVars, turnVars, bookVars, capVars
  <2>2. \A b \in Agent : SameLoop(b) \/ Ashore(b)
    BY <1>0, <1>10, Consts
       DEF LoopTypes, CheckFails, mongoVars, turnVars, bookVars, capVars, AfterCheck,
           Go, SameLoop, Ashore, Spender
  <2> QED BY <2>1, <2>2
<1>11. ASSUME NEW r \in Reader, NEW part \in {"life", "turns", "cap"}, Read(r, part)
       PROVE Still
  BY <1>11 DEF Read, mongoVars, turnVars, bookVars, capVars, SameLoop
<1>12. ASSUME Extend PROVE Still
  BY <1>12 DEF Extend, mongoVars, turnVars, bookVars, SameLoop
<1>13. ASSUME ExtendWrite PROVE Still
  BY <1>13 DEF ExtendWrite, mongoVars, turnVars, bookVars, SameLoop
<1>14. ASSUME ExtendResume PROVE Still
  BY <1>14 DEF ExtendResume, mongoVars, turnVars, bookVars, SameLoop
<1>15. ASSUME SetCap PROVE Still
  BY <1>15 DEF SetCap, mongoVars, turnVars, bookVars, SameLoop
<1>16. ASSUME SetResume PROVE Still
  BY <1>16 DEF SetResume, mongoVars, turnVars, bookVars, SameLoop
<1>17. ASSUME SaveCap PROVE Still
  BY <1>17 DEF SaveCap, mongoVars, turnVars, bookVars, SameLoop
<1>18. Still
  BY <1>1, <1>2, <1>3, <1>4, <1>5, <1>6, <1>7, <1>8, <1>9, <1>10, <1>11, <1>12, <1>13,
     <1>14, <1>15, <1>16, <1>17
     DEF Quiet, OperatorStep
<1> QED BY <1>18, SameMoney

\* A job's call, or a reflection's, reaches the lifetime total or is a lapse.
LEMMA ChargeMoney ==
  ASSUME IInv, TypeOK', Turns', NEW s \in Spender, Charge(s)
  PROVE  /\ RunTotal' = RunTotal /\ Flight' = Flight
         /\ \/ LifeTotal' = LifeTotal + 1 /\ lapses' = lapses
            \/ LifeTotal' = LifeTotal /\ lapses' = lapses + 1
<1>0. DocTypes /\ LoopTypes /\ CountTypes /\ Turns
  BY TypeParts DEF IInv
<1> DEFINE a == IF s \in Job THEN Owner[s] ELSE s
<1>1. a \in Agent
  BY Consts DEF Spender
<1>2. UNCHANGED <<status, cost>>
  BY DEF Charge
<1>3. RunTotal' = RunTotal
  BY <1>2 DEF RunTotal
<1>4. Flight' = Flight
  <2>1. ASSUME NEW b \in Agent PROVE SameLoop(b) \/ Ashore(b)
    BY <1>0, Consts DEF LoopTypes, Charge, turnVars, Go, SameLoop, Ashore, Spender
  <2>2. ASSUME NEW b \in Agent PROVE InFlight(b)' = InFlight(b)
    <3>1. CASE Ashore(b)
      BY <3>1 DEF Ashore, InFlight
    <3>2. CASE SameLoop(b)
      BY <1>2, <3>2 DEF SameLoop, InFlight, Doc
    <3> QED BY <2>1, <3>1, <3>2
  <2>3. [b \in Agent |-> InFlight(b)]' = [b \in Agent |-> InFlight(b)]
    BY <2>2
  <2> QED BY <2>3 DEF Flight
<1>5. \/ life' = [life EXCEPT ![a] = @ + 1] /\ lapses' = lapses
      \/ life' = life /\ lapses' = lapses + 1
  BY DEF Charge, Lapse
<1> HIDE DEF a
<1>6. CASE life' = [life EXCEPT ![a] = @ + 1] /\ lapses' = lapses
  <2>1. \A b \in Agent : b # a => life'[b] = life[b]
    BY <1>0, <1>1, <1>6 DEF DocTypes
  <2>2. life'[a] = life[a] + 1 /\ life[a] \in Nat
    BY <1>0, <1>1, <1>6 DEF DocTypes
  <2>3. LifeTotal' = LifeTotal - life[a] + life'[a]
    BY <1>1, <2>1, LifeMoves
  <2>4. LifeTotal \in Nat
    BY Naturals
  <2> QED BY <1>3, <1>4, <1>6, <2>2, <2>3, <2>4
<1>7. CASE life' = life /\ lapses' = lapses + 1
  BY <1>3, <1>4, <1>7 DEF LifeTotal
<1> QED BY <1>5, <1>6, <1>7

\* A reconciliation's claim takes the cost out of the running turns.
LEMMA ClaimMoney ==
  ASSUME IInv, TypeOK', Turns', NEW a \in Agent, Claim(a)
  PROVE  LifeTotal' = LifeTotal /\ RunTotal' <= RunTotal /\ RunTotal' + Flight' = RunTotal + Flight
<1>0. DocTypes /\ LoopTypes /\ CountTypes /\ Turns
  BY TypeParts DEF IInv
<1>1. ASSUME NEW b \in Agent, b # a PROVE SameDocs(b) /\ SameLoop(b)
  <2>1. SameDocs(b)
    BY <1>0, <1>1 DEF DocTypes, Claim, bookVars, capVars, SameDocs, SameDoc
  <2>2. SameLoop(b)
    BY <1>0, <1>1, Consts DEF LoopTypes, Claim, bookVars, capVars, Go, SameLoop, Spender
  <2> QED BY <2>1, <2>2
<1>2. \A b \in Agent : b # a => InFlight(b)' = InFlight(b)
  BY <1>0, <1>1, SameFlight
<1>3. PICK t \in Stale(a) :
        status' = [status EXCEPT ![<<a, t>>] = "aborted"] /\ held' = [held EXCEPT ![a] = t]
  BY DEF Claim
<1> DEFINE x == <<a, t>>
<1>4. x \in Agent \X Turn /\ status[x] = "running" /\ UNCHANGED <<cost, life>>
  BY <1>3 DEF Stale, Claim
<1>5. cost[x] \in Nat
  BY <1>0, <1>4, Consts DEF DocTypes
<1>6. RunOf(x) = cost[x] /\ RunOf(x)' = 0
  BY <1>0, <1>3, <1>4 DEF DocTypes, RunOf
<1>7. \A y \in Agent \X Turn : y # x => RunOf(y)' = RunOf(y)
  BY <1>0, <1>3, <1>4 DEF DocTypes, RunOf
<1>8. InFlight(a) = 0 /\ InFlight(a)' = cost[x]
  BY <1>0, <1>3, <1>4 DEF LoopTypes, Claim, Go, Spender, InFlight
<1>9. RunTotal' = RunTotal - cost[x] /\ Flight' = Flight + cost[x]
  BY <1>2, <1>4, <1>5, <1>6, <1>7, <1>8, RunMoves, FlightMoves, Naturals
<1>10. LifeTotal' = LifeTotal
  BY <1>4 DEF LifeTotal
<1> QED BY <1>5, <1>9, <1>10, Naturals

\* A claimed cost reaches the lifetime total, or is a lapse and the turn is cut.
LEMMA AddClaimedMoney ==
  ASSUME IInv, TypeOK', Turns', NEW a \in Agent, AddClaimed(a)
  PROVE  /\ RunTotal' = RunTotal /\ LifeTotal' >= LifeTotal /\ lapses' >= lapses
         /\ Spent' + lapses' = Spent + lapses
         /\ Spent' >= Spent \/ misled' # {}
<1>0. DocTypes /\ LoopTypes /\ CountTypes /\ Turns
  BY TypeParts DEF IInv
<1>1. ASSUME NEW b \in Agent, b # a PROVE SameDocs(b) /\ SameLoop(b)
  <2>1. SameDocs(b)
    BY <1>0, <1>1 DEF DocTypes, AddClaimed, capVars, SameDocs, SameDoc
  <2>2. SameLoop(b)
    BY <1>0, <1>1, Consts DEF LoopTypes, AddClaimed, capVars, Go, SameLoop, Spender
  <2> QED BY <2>1, <2>2
<1>2. \A b \in Agent : b # a => InFlight(b)' = InFlight(b)
  BY <1>0, <1>1, SameFlight
<1> DEFINE c == cost[<<a, held[a]>>]
<1>3. c \in Nat
  BY <1>0, Where, Consts DEF AddClaimed, DocTypes
<1>4. InFlight(a) = c /\ InFlight(a)' = 0
  BY <1>0 DEF LoopTypes, AddClaimed, Go, Spender, InFlight
<1>5. Flight' = Flight - c
  BY <1>2, <1>3, <1>4, FlightMoves, Naturals
<1>6. RunTotal' = RunTotal
  BY DEF AddClaimed, RunTotal
<1>7. \/ life' = [life EXCEPT ![a] = @ + c] /\ lapses' = lapses
      \/ life' = life /\ lapses' = lapses + c /\ misled' # {}
  BY DEF AddClaimed, Lapse
<1> HIDE DEF c
<1>8. CASE life' = [life EXCEPT ![a] = @ + c] /\ lapses' = lapses
  <2>1. LifeTotal' = LifeTotal - life[a] + life'[a]
    BY <1>0, <1>8, LifeMoves DEF DocTypes
  <2>2. life'[a] = life[a] + c /\ life[a] \in Nat
    BY <1>0, <1>8 DEF DocTypes
  <2>3. LifeTotal' = LifeTotal + c
    BY <1>3, <2>1, <2>2, Naturals
  <2>4. Spent' = Spent
    BY <1>3, <1>5, <1>6, <2>3, SpentIs, Naturals DEF Spent, Flight
  <2> QED BY <1>0, <1>3, <1>6, <1>8, <2>3, <2>4, Naturals DEF CountTypes
<1>9. CASE life' = life /\ lapses' = lapses + c /\ misled' # {}
  <2>1. LifeTotal' = LifeTotal
    BY <1>9 DEF LifeTotal
  <2>2. Spent' = Spent - c
    BY <1>3, <1>5, <1>6, <2>1, SpentIs, Naturals DEF Spent, Flight
  <2> QED BY <1>0, <1>3, <1>6, <1>9, <2>1, <2>2, Naturals DEF CountTypes
<1> QED BY <1>7, <1>8, <1>9

\* A turn's document opens at zero.
LEMMA OpenTurnMoney ==
  ASSUME IInv, TypeOK', Turns', NEW a \in Agent, OpenTurn(a)
  PROVE  LifeTotal' = LifeTotal /\ RunTotal' = RunTotal /\ Flight' = Flight
<1>0. DocTypes /\ LoopTypes /\ CountTypes /\ Turns
  BY TypeParts DEF IInv
<1>1. ASSUME NEW b \in Agent, b # a PROVE SameDocs(b) /\ SameLoop(b)
  <2>1. SameDocs(b)
    BY <1>0, <1>1 DEF DocTypes, OpenTurn, bookVars, capVars, Doc, SameDocs, SameDoc
  <2>2. SameLoop(b)
    BY <1>0, <1>1, Consts
       DEF LoopTypes, OpenTurn, bookVars, capVars, Go, SameLoop, Spender
  <2> QED BY <2>1, <2>2
<1>2. \A b \in Agent : b # a => InFlight(b)' = InFlight(b)
  BY <1>0, <1>1, SameFlight
<1>3. turn[a] \in Turn /\ Fresh(a, turn[a]) /\ Doc(a) \in Agent \X Turn
  BY <1>0 DEF OpenTurn, Turns, Current, Opening, Doc
<1>4. RunOf(Doc(a)) = 0
  BY <1>3 DEF RunOf, Fresh, Doc
<1>5. ASSUME NEW y \in Agent \X Turn PROVE RunOf(y)' = RunOf(y)
  <2>1. CASE y = Doc(a)
    <3>1. \/ status' = [status EXCEPT ![Doc(a)] = "running"] /\ cost' = [cost EXCEPT ![Doc(a)] = 0]
          \/ UNCHANGED <<status, cost>>
      BY DEF OpenTurn
    <3> QED BY <1>0, <1>3, <1>4, <2>1, <3>1 DEF DocTypes, RunOf
  <2>2. CASE y # Doc(a)
    BY <1>0, <2>2 DEF DocTypes, OpenTurn, RunOf
  <2> QED BY <2>1, <2>2
<1>6. RunTotal' = RunTotal - RunOf(Doc(a)) + RunOf(Doc(a))
  BY <1>3, <1>5, RunMoves
<1>7. InFlight(a) = 0 /\ InFlight(a)' = 0
  BY <1>0 DEF LoopTypes, OpenTurn, Go, Spender, InFlight
<1>8. Flight' = Flight
  BY <1>2, <1>7, FlightMoves, Naturals
<1>9. LifeTotal' = LifeTotal
  BY DEF OpenTurn, LifeTotal
<1> QED BY <1>4, <1>6, <1>8, <1>9, Naturals

\* A recorded call raises the running turns, an unrecorded one is a lapse; a
\* breach of a limit before the cap's check is another.
LEMMA RecordMoney ==
  ASSUME IInv, TypeOK', Turns', NEW a \in Agent, Record(a)
  PROVE  /\ LifeTotal' = LifeTotal /\ Flight' = Flight /\ lapses' >= lapses
         /\ pc'[a] = "closing" /\ ~tool[a] => lapses' >= lapses + 1
         /\ RunTotal' >= RunTotal /\ RunTotal' + lapses' >= RunTotal + lapses + 1
<1>0. DocTypes /\ LoopTypes /\ CountTypes /\ Turns
  BY TypeParts DEF IInv
<1>1. ASSUME NEW b \in Agent, b # a PROVE SameDocs(b) /\ SameLoop(b)
  <2>1. SameDocs(b)
    BY <1>0, <1>1
       DEF DocTypes, Record, turnVars, bookVars, capVars, Doc, SameDocs, SameDoc
  <2>2. SameLoop(b)
    BY <1>0, <1>1, Consts
       DEF LoopTypes, Record, turnVars, bookVars, capVars, Go, SameLoop, Spender
  <2> QED BY <2>1, <2>2
<1>2. \A b \in Agent : b # a => InFlight(b)' = InFlight(b)
  BY <1>0, <1>1, SameFlight
<1>3. turn[a] \in Turn /\ Doc(a) \in Agent \X Turn /\ acc[a] \in Nat /\ acc[a] >= 1
      /\ (status[Doc(a)] = "running" => cost[Doc(a)] < acc[a])
  BY <1>0, Where DEF Record, Turns, Current, Running
<1>4. cost[Doc(a)] \in Nat
  BY <1>0, <1>3, Consts DEF DocTypes
<1>5. PICK written \in BOOLEAN, lifetime \in {life[a], 0} :
        /\ IF written
           THEN /\ status' = [status EXCEPT ![Doc(a)] = "running"]
                /\ cost' = [cost EXCEPT ![Doc(a)] = acc[a]]
           ELSE UNCHANGED <<status, cost>>
        /\ Lapse((IF written THEN 0 ELSE 1) + (IF Breach(a, lifetime) /\ ~tool[a] THEN 1 ELSE 0))
        /\ Go(a, IF Breach(a, lifetime) THEN "closing" ELSE IF tool[a] THEN "tools" ELSE "checking")
  BY DEF Record
<1>6. lapses \in Int
  BY <1>0 DEF CountTypes
<1>7. lapses' >= lapses /\ (~written => lapses' >= lapses + 1)
  BY <1>5, <1>6 DEF Lapse
<1>8. pc'[a] = "closing" /\ ~tool[a] => lapses' >= lapses + 1
  <2>1. pc'[a] = "closing" => Breach(a, lifetime)
    BY <1>0, <1>5 DEF LoopTypes, Go, Spender
  <2> QED BY <1>5, <1>6, <2>1 DEF Lapse
<1>9. RunTotal' >= RunTotal /\ (written => RunTotal' >= RunTotal + 1)
  <2>1. CASE written
    <3>1. \A y \in Agent \X Turn : y # Doc(a) => RunOf(y)' = RunOf(y)
      BY <1>0, <1>5, <2>1 DEF DocTypes, RunOf
    <3>3. RunOf(Doc(a)) <= acc[a] - 1 /\ RunOf(Doc(a)) \in Nat
      BY <1>3, <1>4 DEF RunOf
    <3>4. ASSUME NEW y \in Agent \X Turn, y = Doc(a)
          PROVE RunTotal' = RunTotal - RunOf(y) + RunOf(y)'
      BY <3>1, <3>4, RunMoves
    <3>5. RunTotal' = RunTotal - RunOf(Doc(a)) + acc[a]
      <4>1. ASSUME NEW y \in Agent \X Turn, y = Doc(a) PROVE RunOf(y)' = acc[a]
        BY <1>0, <1>3, <1>5, <2>1, <4>1 DEF DocTypes, RunOf
      <4> QED BY <1>3, <3>4, <4>1
    <3> QED BY <1>3, <3>3, <3>5, Naturals
  <2>2. CASE ~written
    BY <1>5, <2>2, Naturals DEF RunTotal
  <2> QED BY <2>1, <2>2
<1>10. InFlight(a) = 0 /\ InFlight(a)' = 0
  <2>1. pc[a] = "recording" /\ pc'[a] \in {"closing", "tools", "checking"}
    BY <1>0, <1>5 DEF LoopTypes, Record, Go, Spender
  <2> QED BY <2>1 DEF InFlight
<1>11. Flight' = Flight
  BY <1>2, <1>10, FlightMoves, Naturals
<1>12. LifeTotal' = LifeTotal
  BY DEF Record, LifeTotal
<1> QED BY <1>6, <1>7, <1>8, <1>9, <1>11, <1>12, Naturals DEF CountTypes, TypeOK

\* A turn's end takes its document out of the running turns; what is then
\* between the two writes is no less.
LEMMA CloseTurnMoney ==
  ASSUME IInv, TypeOK', Turns', NEW a \in Agent, CloseTurn(a)
  PROVE  LifeTotal' = LifeTotal /\ RunTotal' <= RunTotal /\ Spent' >= Spent
<1>0. DocTypes /\ LoopTypes /\ CountTypes /\ Turns
  BY TypeParts DEF IInv
<1>1. ASSUME NEW b \in Agent, b # a PROVE SameDocs(b) /\ SameLoop(b)
  <2>1. SameDocs(b)
    BY <1>0, <1>1 DEF DocTypes, CloseTurn, turnVars, capVars, Doc, SameDocs, SameDoc
  <2>2. SameLoop(b)
    BY <1>0, <1>1, Consts
       DEF LoopTypes, CloseTurn, turnVars, capVars, Go, SameLoop, Spender
  <2> QED BY <2>1, <2>2
<1>2. \A b \in Agent : b # a => InFlight(b)' = InFlight(b)
  BY <1>0, <1>1, SameFlight
<1>3. turn[a] \in Turn /\ Doc(a) \in Agent \X Turn /\ acc[a] \in Nat
      /\ (status[Doc(a)] = "running" => cost[Doc(a)] <= acc[a])
  BY <1>0, Where DEF CloseTurn, Turns, Current, Running
<1>4. RunOf(Doc(a)) \in Nat /\ RunOf(Doc(a)) <= acc[a] /\ (status[Doc(a)] # "running" => RunOf(Doc(a)) = 0)
  BY <1>0, <1>3, Consts DEF DocTypes, RunOf
<1>5. InFlight(a) = 0
  BY DEF CloseTurn, InFlight
<1>6. pc'[a] = "adding" /\ Doc(a)' = Doc(a) /\ acc'[a] = acc[a] /\ UNCHANGED life
  BY <1>0 DEF LoopTypes, CloseTurn, Go, Spender, Doc, turnVars
<1>7. InFlight(a)' = IF status'[Doc(a)] # "running" THEN acc[a] ELSE 0
  BY <1>6 DEF InFlight
<1>8. ASSUME NEW y \in Agent \X Turn, y = Doc(a)
      PROVE  RunTotal' = RunTotal - RunOf(y) + RunOf(y)'
  <2>1. \A z \in Agent \X Turn : z # y => RunOf(z)' = RunOf(z)
    BY <1>0, <1>8 DEF DocTypes, CloseTurn, RunOf
  <2> QED BY <2>1, RunMoves
<1>9. Flight' = Flight + InFlight(a)'
  BY <1>2, <1>5, FlightMoves, Naturals
<1>10. LifeTotal' = LifeTotal
  BY <1>6 DEF LifeTotal
<1>11. CASE status' = [status EXCEPT ![Doc(a)] = "complete"]
  <2>1. status'[Doc(a)] = "complete"
    BY <1>0, <1>3, <1>11 DEF DocTypes
  <2>2. \A y \in Agent \X Turn : y = Doc(a) => RunOf(y)' = 0
    BY <2>1 DEF RunOf
  <2>3. RunTotal' = RunTotal - RunOf(Doc(a))
    BY <1>3, <1>4, <1>8, <2>2, Naturals
  <2>4. Flight' = Flight + acc[a]
    BY <1>7, <1>9, <2>1
  <2> QED BY <1>3, <1>4, <1>10, <2>3, <2>4, SpentIs, Naturals DEF Spent, Flight
<1>12. CASE UNCHANGED <<status, cost>>
  <2>1. RunTotal' = RunTotal
    BY <1>12 DEF RunTotal
  <2>2. InFlight(a)' \in Nat
    BY <1>3, <1>7
  <2> QED BY <1>9, <1>10, <2>1, <2>2, SpentIs, Naturals DEF Spent, Flight
<1> QED BY <1>11, <1>12 DEF CloseTurn

\* A turn's cost reaches the lifetime total, or is a lapse and the turn is cut.
LEMMA AddTurnMoney ==
  ASSUME IInv, TypeOK', Turns', NEW a \in Agent, AddTurn(a)
  PROVE  /\ RunTotal' = RunTotal /\ LifeTotal' >= LifeTotal /\ lapses' >= lapses
         /\ Spent' + lapses' >= Spent + lapses
         /\ Spent' >= Spent \/ misled' # {}
<1>0. DocTypes /\ LoopTypes /\ CountTypes /\ Turns
  BY TypeParts DEF IInv
<1>1. ASSUME NEW b \in Agent, b # a PROVE SameDocs(b) /\ SameLoop(b)
  <2>1. SameDocs(b)
    BY <1>0, <1>1 DEF DocTypes, AddTurn, capVars, Doc, SameDocs, SameDoc
  <2>2. SameLoop(b)
    BY <1>0, <1>1, Consts DEF LoopTypes, AddTurn, capVars, Go, SameLoop, Spender
  <2> QED BY <2>1, <2>2
<1>2. \A b \in Agent : b # a => InFlight(b)' = InFlight(b)
  BY <1>0, <1>1, SameFlight
<1> DEFINE c == acc[a]
<1>3. c \in Nat
  BY Where
<1>4. InFlight(a) \in Nat /\ InFlight(a) <= c /\ InFlight(a)' = 0
  <2>1. pc[a] = "adding" /\ pc'[a] = "idle"
    BY <1>0 DEF LoopTypes, AddTurn, Go, Spender
  <2> QED BY <1>3, <2>1 DEF InFlight
<1>5. Flight' = Flight - InFlight(a)
  BY <1>2, <1>4, FlightMoves, Naturals
<1>6. RunTotal' = RunTotal
  BY DEF AddTurn, RunTotal
<1>7. \/ life' = [life EXCEPT ![a] = @ + c] /\ lapses' = lapses
      \/ life' = life /\ lapses' = lapses + c /\ misled' # {}
  BY DEF AddTurn, Lapse
<1> HIDE DEF c
<1>8. CASE life' = [life EXCEPT ![a] = @ + c] /\ lapses' = lapses
  <2>1. LifeTotal' = LifeTotal - life[a] + life'[a]
    BY <1>0, <1>8, LifeMoves DEF DocTypes
  <2>2. life'[a] = life[a] + c /\ life[a] \in Nat
    BY <1>0, <1>8 DEF DocTypes
  <2>3. LifeTotal' = LifeTotal + c
    BY <1>3, <2>1, <2>2, Naturals
  <2>4. Spent' >= Spent
    BY <1>3, <1>4, <1>5, <1>6, <2>3, SpentIs, Naturals DEF Spent, Flight
  <2> QED BY <1>0, <1>3, <1>6, <1>8, <2>3, <2>4, Naturals DEF CountTypes
<1>9. CASE life' = life /\ lapses' = lapses + c /\ misled' # {}
  <2>1. LifeTotal' = LifeTotal
    BY <1>9 DEF LifeTotal
  <2>2. Spent' >= Spent - c
    BY <1>3, <1>4, <1>5, <1>6, <2>1, SpentIs, Naturals DEF Spent, Flight
  <2> QED BY <1>0, <1>3, <1>6, <1>9, <2>1, <2>2, Naturals DEF CountTypes
<1> QED BY <1>7, <1>8, <1>9

\* A death leaves nothing between two documents, and keeps both totals.
LEMMA DieMoney ==
  ASSUME IInv, TypeOK', Turns', Die
  PROVE  LifeTotal' = LifeTotal /\ RunTotal' = RunTotal /\ Flight' = 0
<1>1. UNCHANGED <<status, cost, life>> /\ \A a \in Agent : pc'[a] = "idle"
  BY DEF Die, mongoVars, Spender
<1>2. ASSUME NEW a \in Agent PROVE InFlight(a)' = 0
  BY <1>1 DEF InFlight
<1> DEFINE g == [a \in Agent |-> InFlight(a)']
<1>3. g \in [Agent -> Int] /\ \A a \in Agent : g[a] = 0
  BY <1>2
<1>4. Flight' = SumFunction(g)
  BY DEF Flight
<1> HIDE DEF g
<1>5. Flight' = 0
  BY <1>3, <1>4, Finite, SumZero
<1> QED BY <1>1, <1>5 DEF LifeTotal, RunTotal

-----------------------------------------------------------------------------
(* Every call is accounted for *)

Owes(s) == IF s \in Job THEN pc[s] = "charging" ELSE pc[s] = "recording" /\ ~tool[s]

\* The calls that no document has yet are of finitely many spenders.
LEMMA PendingSet ==
  /\ Pending = {s \in Spender : Owes(s)} /\ Pending' = {s \in Spender : Owes(s)'}
  /\ IsFiniteSet(Pending) /\ IsFiniteSet(Pending')
  /\ Cardinality(Pending) \in Nat /\ Cardinality(Pending') \in Nat
<1>1. Pending = {s \in Spender : Owes(s)}
  BY Consts DEF Pending, Owes, Spender
<1>2. Pending' = {s \in Spender : Owes(s)'}
  BY Consts DEF Pending, Owes, Spender
<1>3. Pending \subseteq Spender /\ Pending' \subseteq Spender
  BY <1>1, <1>2
<1>4. IsFiniteSet(Pending) /\ IsFiniteSet(Pending')
  BY <1>3, Finite, FS_Subset
<1> QED BY <1>1, <1>2, <1>4, FS_CardinalityType

\* A quiet step does not change the spend.
LEMMA QuietSpent ==
  ASSUME IInv, TypeOK', Turns', Quiet PROVE Spent' = Spent
<1>1. LifeTotal' = LifeTotal /\ RunTotal' = RunTotal /\ Flight' = Flight
  BY QuietMoney
<1>2. Spent' = LifeTotal' + RunTotal' + Flight'
  BY DEF Spent, Flight
<1> QED BY <1>1, <1>2, SpentIs

\* No call answered or recorded, and no spend lost, leave the account right.
LEMMA AccountedKeeps ==
  ASSUME IInv, TypeOK', Turns', calls' = calls,
         Cardinality(Pending') = Cardinality(Pending), Spent' + lapses' >= Spent + lapses
  PROVE  Accounted'
<1>1. calls \in Int /\ lapses \in Int /\ lapses' \in Int
  BY TypeParts DEF IInv, CountTypes, TypeOK
<1>2. calls <= Spent + Cardinality(Pending) + lapses
  BY DEF IInv, Accounted
<1> QED BY <1>1, <1>2, PendingSet, Naturals DEF Accounted

\* What a death loses covers what was between two documents or not recorded yet.
LEMMA LossCovers ==
  ASSUME IInv
  PROVE  SumFunction([a \in Agent |-> Unsaved(a)]) + Cardinality({j \in Job : pc[j] = "charging"})
           >= Flight + Cardinality(Pending)
<1>0. DocTypes /\ LoopTypes /\ CountTypes /\ Turns
  BY TypeParts DEF IInv
<1> DEFINE J == {j \in Job : pc[j] = "charging"}
<1> DEFINE P == {a \in Agent : pc[a] = "recording" /\ ~tool[a]}
<1> DEFINE u == [a \in Agent |-> Unsaved(a)]
<1> DEFINE f == [a \in Agent |-> InFlight(a)]
<1> DEFINE i == [a \in Agent |-> IF a \in P THEN 1 ELSE 0]
<1> DEFINE s == [a \in Agent |-> f[a] + i[a]]
<1>1. \A a \in Agent : Unsaved(a) \in Nat /\ InFlight(a) \in Nat
  BY <1>0, UnsavedNat, FlightNat
<1>2. u \in [Agent -> Int] /\ f \in [Agent -> Int] /\ i \in [Agent -> Int]
  BY <1>1
<1>3. s \in [Agent -> Int]
  BY <1>2
<1>4. ASSUME NEW a \in Agent PROVE s[a] <= u[a]
  <2>1. CASE a \in P
    <3>1. pc[a] = "recording" /\ InFlight(a) = 0
      BY <2>1 DEF InFlight
    <3>2. acc[a] >= 1 /\ acc[a] \in Nat /\ (status[Doc(a)] = "running" => cost[Doc(a)] < acc[a])
      BY <1>0, <3>1, Where DEF Turns, Current
    <3>5. Doc(a) \in Agent \X Turn
      BY <3>1, Where DEF Running
    <3>3. cost[Doc(a)] \in Nat
      BY <1>0, <3>5, Consts DEF DocTypes
    <3>4. Unsaved(a) >= 1
      BY <3>1, <3>2, <3>3 DEF Unsaved, InTurn
    <3> QED BY <1>1, <2>1, <3>1, <3>4
  <2>2. CASE a \notin P
    <3>1. InFlight(a) <= Unsaved(a)
      <4>1. CASE pc[a] = "claimed"
        BY <1>1, <4>1 DEF InFlight, Unsaved
      <4>2. CASE pc[a] = "adding"
        <5>1. Unsaved(a) = acc[a] /\ acc[a] \in Nat
          BY <4>2, Where DEF Unsaved
        <5>2. InFlight(a) = acc[a] \/ InFlight(a) = 0
          BY <4>2 DEF InFlight
        <5> QED BY <5>1, <5>2
      <4>3. CASE pc[a] \notin {"claimed", "adding"}
        BY <1>1, <4>3 DEF InFlight
      <4> QED BY <4>1, <4>2, <4>3
    <3> QED BY <1>1, <2>2, <3>1
  <2> QED BY <2>1, <2>2
<1>5. P \in SUBSET Agent /\ IsFiniteSet(Agent) /\ IsFiniteSet(Job)
  BY Finite
<1>6. SumFunction(i) = Cardinality(P)
  BY <1>5, SumIndicator
<1>7. Pending = J \cup P
  BY DEF Pending
<1>8. IsFiniteSet(J) /\ IsFiniteSet(P)
  BY <1>5, FS_Subset
<1>9. Flight = SumFunction(f)
  BY DEF Flight
<1> HIDE DEF J, P, u, f, i
<1>10. SumFunction(s) = SumFunction(f) + SumFunction(i)
  BY <1>2, <1>5, SumAdd
<1> HIDE DEF s
<1>11. SumFunction(s) <= SumFunction(u)
  BY <1>2, <1>3, <1>4, <1>5, SumMonotone
<1>12. Cardinality(J \cup P) <= Cardinality(J) + Cardinality(P)
  <2>1. Cardinality(J \cup P) = Cardinality(J) + Cardinality(P) - Cardinality(J \cap P)
    BY <1>8, FS_Union
  <2>2. Cardinality(J) \in Nat /\ Cardinality(P) \in Nat /\ Cardinality(J \cap P) \in Nat
    BY <1>8, FS_CardinalityType, FS_Intersection
  <2> QED BY <2>1, <2>2
<1>13. SumFunction(u) \in Int /\ SumFunction(f) \in Int
  BY <1>2, <1>5, SumType
<1>14. Cardinality(J) \in Nat /\ Cardinality(P) \in Nat /\ Cardinality(J \cup P) \in Nat
  BY <1>8, FS_CardinalityType, FS_Union
<1>15. SumFunction(u) + Cardinality(J) >= Flight + Cardinality(Pending)
  BY <1>6, <1>7, <1>9, <1>10, <1>11, <1>12, <1>13, <1>14
<1> QED BY <1>15 DEF u, J

\* No step spends a call that nothing accounts for.
LEMMA AccountedStep ==
  ASSUME IInv, TypeOK', Turns', Next
  PROVE  Accounted'
<1>0. DocTypes /\ LoopTypes /\ CountTypes /\ Turns
  BY TypeParts DEF IInv
<1>A. Accounted
  BY DEF IInv
<1>t. calls' \in Int /\ lapses' \in Int
  BY DEF TypeOK
<1>1. ASSUME NEW a \in Agent, Dispatch(a) PROVE Accounted'
  <2>1. \A b \in Spender : Owes(b)' <=> Owes(b)
    BY <1>0, <1>1, Consts
       DEF LoopTypes, Dispatch, mongoVars, turnVars, bookVars, capVars, Go, Owes,
           Spender
  <2>2. Pending' = Pending
    BY <2>1, PendingSet
  <2>3. calls' = calls /\ lapses' >= lapses
    BY <1>0, <1>1 DEF CountTypes, Dispatch, mongoVars, turnVars, bookVars, capVars
  <2>4. Spent' = Spent
    <3>1. Quiet
      BY <1>1 DEF Quiet, OperatorStep
    <3> QED BY <3>1, QuietSpent
  <2> QED BY <1>0, <1>t, <2>2, <2>3, <2>4, AccountedKeeps, Naturals DEF CountTypes
<1>2. ASSUME NEW a \in Agent, Reflect(a) PROVE Accounted'
  <2>1. \A b \in Spender : Owes(b)' <=> Owes(b)
    BY <1>0, <1>2, Consts
       DEF LoopTypes, Reflect, mongoVars, turnVars, bookVars, capVars, Go, Owes, Spender
  <2>2. Pending' = Pending
    BY <2>1, PendingSet
  <2>3. calls' = calls + 1 /\ lapses' = lapses + 1
    BY <1>2 DEF Reflect, Lapse
  <2>4. Spent' = Spent
    <3>1. Quiet
      BY <1>2 DEF Quiet
    <3> QED BY <3>1, QuietSpent
  <2> QED
    BY <1>0, <1>A, <1>t, <2>2, <2>3, <2>4, PendingSet, Naturals
       DEF Accounted, CountTypes
<1>3. ASSUME NEW a \in Agent, StartTurn(a) PROVE Accounted'
  <2>1. \A b \in Spender : Owes(b)' <=> Owes(b)
    BY <1>0, <1>3, Consts
       DEF LoopTypes, StartTurn, mongoVars, bookVars, capVars, Go, Owes, Spender
  <2>2. Pending' = Pending
    BY <2>1, PendingSet
  <2>3. calls' = calls /\ lapses' >= lapses
    BY <1>0, <1>3 DEF CountTypes, StartTurn, mongoVars, bookVars, capVars
  <2>4. Spent' = Spent
    <3>1. Quiet
      BY <1>3 DEF Quiet, OperatorStep
    <3> QED BY <3>1, QuietSpent
  <2> QED BY <1>0, <1>t, <2>2, <2>3, <2>4, AccountedKeeps, Naturals DEF CountTypes
<1>4. ASSUME NEW a \in Agent, Claim(a) PROVE Accounted'
  <2>1. \A b \in Spender : Owes(b)' <=> Owes(b)
    BY <1>0, <1>4, Consts DEF LoopTypes, Claim, bookVars, capVars, Go, Owes, Spender
  <2>2. Pending' = Pending
    BY <2>1, PendingSet
  <2>3. calls' = calls /\ lapses' = lapses
    BY <1>4 DEF Claim, bookVars, capVars
  <2>4. Spent' = Spent
    BY <1>4, ClaimMoney, SpentIs, Naturals DEF Spent, Flight
  <2> QED BY <1>0, <1>t, <2>2, <2>3, <2>4, AccountedKeeps, Naturals DEF CountTypes
<1>5. ASSUME NEW a \in Agent, AddClaimed(a) PROVE Accounted'
  <2>1. \A b \in Spender : Owes(b)' <=> Owes(b)
    BY <1>0, <1>5, Consts DEF LoopTypes, AddClaimed, capVars, Go, Owes, Spender
  <2>2. Pending' = Pending
    BY <2>1, PendingSet
  <2>3. calls' = calls
    BY <1>5 DEF AddClaimed, capVars
  <2>4. Spent' + lapses' >= Spent + lapses
    <3>1. lapses \in Int
      BY <1>0 DEF CountTypes
    <3> QED BY <1>5, <3>1, AddClaimedMoney, <1>t, Naturals
  <2> QED BY <2>2, <2>3, <2>4, AccountedKeeps
<1>6. ASSUME NEW a \in Agent, OpenTurn(a) PROVE Accounted'
  <2>1. \A b \in Spender : Owes(b)' <=> Owes(b)
    BY <1>0, <1>6, Consts DEF LoopTypes, OpenTurn, bookVars, capVars, Go, Owes, Spender
  <2>2. Pending' = Pending
    BY <2>1, PendingSet
  <2>3. calls' = calls /\ lapses' = lapses
    BY <1>6 DEF OpenTurn, bookVars, capVars
  <2>4. Spent' = Spent
    BY <1>6, OpenTurnMoney, SpentIs, Naturals DEF Spent, Flight
  <2> QED BY <1>0, <1>t, <2>2, <2>3, <2>4, AccountedKeeps, Naturals DEF CountTypes
<1>7. ASSUME NEW a \in Agent, PassGate(a) PROVE Accounted'
  <2>1. \A b \in Spender : Owes(b)' <=> Owes(b)
    BY <1>0, <1>7, Consts
       DEF LoopTypes, PassGate, mongoVars, turnVars, bookVars, capVars, Go, Owes,
           Spender
  <2>2. Pending' = Pending
    BY <2>1, PendingSet
  <2>3. calls' = calls /\ lapses' >= lapses
    BY <1>0, <1>7 DEF CountTypes, PassGate, mongoVars, turnVars, bookVars, capVars
  <2>4. Spent' = Spent
    <3>1. Quiet
      BY <1>7 DEF Quiet, OperatorStep
    <3> QED BY <3>1, QuietSpent
  <2> QED BY <1>0, <1>t, <2>2, <2>3, <2>4, AccountedKeeps, Naturals DEF CountTypes
<1>8. ASSUME NEW a \in Agent, Record(a) PROVE Accounted'
  <2>1. \A b \in Spender : b # a => (Owes(b)' <=> Owes(b))
    BY <1>0, <1>8, Consts DEF LoopTypes, Record, turnVars, Go, Owes, Spender
  <2>2. ~Owes(a)'
    BY <1>0, <1>8, Consts DEF LoopTypes, Record, turnVars, Go, Owes, Spender
  <2>3. calls' = calls
    BY <1>8 DEF Record
  <2>4. Spent' + lapses' >= Spent + lapses + 1
    BY <1>0, <1>t, <1>8, RecordMoney, SpentIs, Naturals DEF Spent, Flight, CountTypes
  <2>5. Cardinality(Pending') >= Cardinality(Pending) - 1
    <3>1. Pending' = Pending \ {a}
      BY <2>1, <2>2, PendingSet
    <3> QED BY <3>1, PendingSet, FS_RemoveElement
  <2> QED
    BY <1>0, <1>A, <1>t, <2>3, <2>4, <2>5, PendingSet, Naturals
       DEF Accounted, CountTypes
<1>9. ASSUME NEW a \in Agent, NextCall(a) PROVE Accounted'
  <2>1. \A b \in Spender : Owes(b)' <=> Owes(b)
    BY <1>0, <1>9, Consts
       DEF LoopTypes, NextCall, mongoVars, bookVars, capVars, Go, Owes, Spender
  <2>2. Pending' = Pending
    BY <2>1, PendingSet
  <2>3. calls' = calls /\ lapses' >= lapses
    BY <1>0, <1>9 DEF CountTypes, NextCall, mongoVars, bookVars, capVars
  <2>4. Spent' = Spent
    <3>1. Quiet
      BY <1>9 DEF Quiet, OperatorStep
    <3> QED BY <3>1, QuietSpent
  <2> QED BY <1>0, <1>t, <2>2, <2>3, <2>4, AccountedKeeps, Naturals DEF CountTypes
<1>10. ASSUME NEW a \in Agent, EndTurn(a) PROVE Accounted'
  <2>1. \A b \in Spender : Owes(b)' <=> Owes(b)
    BY <1>0, <1>10, Consts
       DEF LoopTypes, EndTurn, mongoVars, turnVars, bookVars, capVars, Go, Owes, Spender
  <2>2. Pending' = Pending
    BY <2>1, PendingSet
  <2>3. calls' = calls /\ lapses' >= lapses
    BY <1>0, <1>10 DEF CountTypes, EndTurn, mongoVars, turnVars, bookVars, capVars
  <2>4. Spent' = Spent
    <3>1. Quiet
      BY <1>10 DEF Quiet, OperatorStep
    <3> QED BY <3>1, QuietSpent
  <2> QED BY <1>0, <1>t, <2>2, <2>3, <2>4, AccountedKeeps, Naturals DEF CountTypes
<1>11. ASSUME NEW a \in Agent, CloseTurn(a) PROVE Accounted'
  <2>1. \A b \in Spender : Owes(b)' <=> Owes(b)
    BY <1>0, <1>11, Consts
       DEF LoopTypes, CloseTurn, turnVars, capVars, Go, Owes, Spender
  <2>2. Pending' = Pending
    BY <2>1, PendingSet
  <2>3. calls' = calls
    BY <1>11 DEF CloseTurn, turnVars, capVars
  <2>4. Spent' + lapses' >= Spent + lapses
    BY <1>11, CloseTurnMoney, <1>0, <1>t, Naturals DEF CloseTurn, CountTypes
  <2> QED BY <2>2, <2>3, <2>4, AccountedKeeps
<1>12. ASSUME NEW a \in Agent, AddTurn(a) PROVE Accounted'
  <2>1. \A b \in Spender : Owes(b)' <=> Owes(b)
    BY <1>0, <1>12, Consts DEF LoopTypes, AddTurn, capVars, Go, Owes, Spender
  <2>2. Pending' = Pending
    BY <2>1, PendingSet
  <2>3. calls' = calls
    BY <1>12 DEF AddTurn, capVars
  <2>4. Spent' + lapses' >= Spent + lapses
    <3>1. lapses \in Int
      BY <1>0 DEF CountTypes
    <3> QED BY <1>12, <3>1, AddTurnMoney, <1>t, Naturals
  <2> QED BY <2>2, <2>3, <2>4, AccountedKeeps
<1>13. ASSUME NEW j \in Job, JobCall(j) PROVE Accounted'
  <2>1. \A b \in Spender : Owes(b)' <=> Owes(b)
    BY <1>0, <1>13, Consts
       DEF LoopTypes, JobCall, mongoVars, turnVars, bookVars, capVars, Go, Owes, Spender
  <2>2. Pending' = Pending
    BY <2>1, PendingSet
  <2>3. calls' = calls /\ lapses' >= lapses
    BY <1>0, <1>13 DEF CountTypes, JobCall, mongoVars, turnVars, bookVars, capVars
  <2>4. Spent' = Spent
    <3>1. Quiet
      BY <1>13 DEF Quiet, OperatorStep
    <3> QED BY <3>1, QuietSpent
  <2> QED BY <1>0, <1>t, <2>2, <2>3, <2>4, AccountedKeeps, Naturals DEF CountTypes
<1>14. ASSUME NEW s \in Spender, Charge(s) PROVE Accounted'
  <2>1. \A b \in Spender : b # s => (Owes(b)' <=> Owes(b))
    BY <1>0, <1>14, Consts DEF LoopTypes, Charge, turnVars, Go, Owes, Spender
  <2>2. ~Owes(s)' /\ (Owes(s) <=> s \in Job)
    BY <1>0, <1>14, Consts DEF LoopTypes, Charge, turnVars, Go, Owes, Spender
  <2>3. calls' = calls
    BY <1>14 DEF Charge
  <2>4. Spent' + lapses' = Spent + lapses + 1
    BY <1>0, <1>t, <1>14, ChargeMoney, SpentIs, Naturals DEF Spent, Flight, CountTypes
  <2>5. Cardinality(Pending') >= Cardinality(Pending) - 1
    <3>1. Pending' = Pending \ {s}
      BY <2>1, <2>2, PendingSet
    <3> QED BY <3>1, PendingSet, FS_RemoveElement
  <2> QED
    BY <1>0, <1>A, <1>t, <2>3, <2>4, <2>5, PendingSet, Naturals
       DEF Accounted, CountTypes
<1>15. ASSUME NEW s \in Spender, Answer(s) PROVE Accounted'
  <2>1. \A b \in Spender : b # s => (Owes(b)' <=> Owes(b))
    BY <1>0, <1>15, Consts DEF LoopTypes, Answer, Go, Owes, Spender
  <2>2. ~Owes(s) /\ pc'[s] = (IF s \in Job THEN "charging" ELSE "recording") /\ tool' = tool
    BY <1>0, <1>15, Consts DEF LoopTypes, Answer, Go, Owes, Spender
  <2>3. calls' = calls + 1
    BY <1>15 DEF Answer
  <2>4. Spent' = Spent
    <3>1. Quiet
      BY <1>15 DEF Quiet
    <3> QED BY <3>1, QuietSpent
  <2>5. CASE s \notin Job /\ tool[s]
    <3>1. lapses' = lapses + 1
      BY <1>15, <2>5 DEF Answer
    <3>2. Pending' = Pending
      BY <2>1, <2>2, <2>5, PendingSet DEF Owes
    <3> QED
      BY <1>0, <1>A, <1>t, <2>3, <2>4, <3>1, <3>2, PendingSet, Naturals
         DEF Accounted, CountTypes
  <2>6. CASE s \in Job \/ ~tool[s]
    <3>1. lapses' = lapses
      BY <1>0, <1>15, <2>6 DEF Answer, CountTypes
    <3>2. Owes(s)'
      BY <2>2, <2>6 DEF Owes
    <3>3. Pending' = Pending \cup {s} /\ s \notin Pending
      BY <2>1, <2>2, <3>2, PendingSet
    <3>4. Cardinality(Pending') = Cardinality(Pending) + 1
      BY <3>3, PendingSet, FS_AddElement
    <3> QED
      BY <1>0, <1>A, <1>t, <2>3, <2>4, <3>1, <3>4, PendingSet, Naturals
         DEF Accounted, CountTypes
  <2> QED BY <2>5, <2>6
<1>16. ASSUME NEW s \in Spender, CheckCap(s) PROVE Accounted'
  <2>1. \A b \in Spender : Owes(b)' <=> Owes(b)
    BY <1>0, <1>16, Consts
       DEF LoopTypes, CheckCap, mongoVars, turnVars, bookVars, capVars, AfterCheck, Go,
           Owes, Spender
  <2>2. Pending' = Pending
    BY <2>1, PendingSet
  <2>3. calls' = calls /\ lapses' >= lapses
    BY <1>0, <1>16
       DEF CountTypes, CheckCap, mongoVars, turnVars, bookVars, capVars, Lapse
  <2>4. Spent' = Spent
    <3>1. Quiet
      BY <1>16 DEF Quiet, OperatorStep
    <3> QED BY <3>1, QuietSpent
  <2> QED BY <1>0, <1>t, <2>2, <2>3, <2>4, AccountedKeeps, Naturals DEF CountTypes
<1>17. ASSUME NEW s \in Spender, CheckFails(s) PROVE Accounted'
  <2>1. \A b \in Spender : Owes(b)' <=> Owes(b)
    BY <1>0, <1>17, Consts
       DEF LoopTypes, CheckFails, mongoVars, turnVars, bookVars, capVars, AfterCheck,
           Go, Owes, Spender
  <2>2. Pending' = Pending
    BY <2>1, PendingSet
  <2>3. calls' = calls /\ lapses' >= lapses
    BY <1>0, <1>17
       DEF CountTypes, CheckFails, mongoVars, turnVars, bookVars, capVars, Lapse
  <2>4. Spent' = Spent
    <3>1. Quiet
      BY <1>17 DEF Quiet, OperatorStep
    <3> QED BY <3>1, QuietSpent
  <2> QED BY <1>0, <1>t, <2>2, <2>3, <2>4, AccountedKeeps, Naturals DEF CountTypes
<1>18. ASSUME NEW r \in Reader, NEW part \in {"life", "turns", "cap"}, Read(r, part)
       PROVE Accounted'
  <2>2. Pending' = Pending
    BY <1>18 DEF Read, mongoVars, turnVars, bookVars, capVars, Pending
  <2>3. calls' = calls /\ lapses' >= lapses
    BY <1>0, <1>18 DEF CountTypes, Read, mongoVars, turnVars, bookVars, capVars
  <2>4. Spent' = Spent
    <3>1. Quiet
      BY <1>18 DEF Quiet, OperatorStep
    <3> QED BY <3>1, QuietSpent
  <2> QED BY <1>0, <1>t, <2>2, <2>3, <2>4, AccountedKeeps, Naturals DEF CountTypes
<1>19. CASE Extend
  <2>2. Pending' = Pending
    BY <1>19 DEF Extend, mongoVars, turnVars, bookVars, Pending
  <2>3. calls' = calls /\ lapses' >= lapses
    BY <1>0, <1>19 DEF CountTypes, Extend, mongoVars, turnVars, bookVars
  <2>4. Spent' = Spent
    <3>1. Quiet
      BY <1>19 DEF Quiet, OperatorStep
    <3> QED BY <3>1, QuietSpent
  <2> QED BY <1>0, <1>t, <2>2, <2>3, <2>4, AccountedKeeps, Naturals DEF CountTypes
<1>20. CASE ExtendWrite
  <2>2. Pending' = Pending
    BY <1>20 DEF ExtendWrite, mongoVars, turnVars, bookVars, Pending
  <2>3. calls' = calls /\ lapses' >= lapses
    BY <1>0, <1>20 DEF CountTypes, ExtendWrite, mongoVars, turnVars, bookVars
  <2>4. Spent' = Spent
    <3>1. Quiet
      BY <1>20 DEF Quiet, OperatorStep
    <3> QED BY <3>1, QuietSpent
  <2> QED BY <1>0, <1>t, <2>2, <2>3, <2>4, AccountedKeeps, Naturals DEF CountTypes
<1>21. CASE ExtendResume
  <2>2. Pending' = Pending
    BY <1>21 DEF ExtendResume, mongoVars, turnVars, bookVars, Pending
  <2>3. calls' = calls /\ lapses' >= lapses
    BY <1>0, <1>21 DEF CountTypes, ExtendResume, mongoVars, turnVars, bookVars
  <2>4. Spent' = Spent
    <3>1. Quiet
      BY <1>21 DEF Quiet, OperatorStep
    <3> QED BY <3>1, QuietSpent
  <2> QED BY <1>0, <1>t, <2>2, <2>3, <2>4, AccountedKeeps, Naturals DEF CountTypes
<1>22. CASE SetCap
  <2>2. Pending' = Pending
    BY <1>22 DEF SetCap, mongoVars, turnVars, bookVars, Pending
  <2>3. calls' = calls /\ lapses' >= lapses
    BY <1>0, <1>22 DEF CountTypes, SetCap, mongoVars, turnVars, bookVars
  <2>4. Spent' = Spent
    <3>1. Quiet
      BY <1>22 DEF Quiet, OperatorStep
    <3> QED BY <3>1, QuietSpent
  <2> QED BY <1>0, <1>t, <2>2, <2>3, <2>4, AccountedKeeps, Naturals DEF CountTypes
<1>23. CASE SetResume
  <2>2. Pending' = Pending
    BY <1>23 DEF SetResume, mongoVars, turnVars, bookVars, Pending
  <2>3. calls' = calls /\ lapses' >= lapses
    BY <1>0, <1>23 DEF CountTypes, SetResume, mongoVars, turnVars, bookVars
  <2>4. Spent' = Spent
    <3>1. Quiet
      BY <1>23 DEF Quiet, OperatorStep
    <3> QED BY <3>1, QuietSpent
  <2> QED BY <1>0, <1>t, <2>2, <2>3, <2>4, AccountedKeeps, Naturals DEF CountTypes
<1>24. CASE SaveCap
  <2>2. Pending' = Pending
    BY <1>24 DEF SaveCap, mongoVars, turnVars, bookVars, Pending
  <2>3. calls' = calls /\ lapses' >= lapses
    BY <1>0, <1>24 DEF CountTypes, SaveCap, mongoVars, turnVars, bookVars
  <2>4. Spent' = Spent
    <3>1. Quiet
      BY <1>24 DEF Quiet, OperatorStep
    <3> QED BY <3>1, QuietSpent
  <2> QED BY <1>0, <1>t, <2>2, <2>3, <2>4, AccountedKeeps, Naturals DEF CountTypes
<1>25. CASE Die
  <2>1. calls' = calls
    BY <1>25 DEF Die
  <2>2. lapses' >= lapses + Flight + Cardinality(Pending)
    <3>1. SumFunction([a \in Agent |-> Unsaved(a)]) \in Nat
      BY UnsavedNat
    <3>2. Cardinality({j \in Job : pc[j] = "charging"}) \in Nat
      BY Finite, FS_Subset, FS_CardinalityType
    <3> QED
      BY <1>0, <1>25, <3>1, <3>2, LossCovers, PendingSet, Naturals
         DEF Die, Lapse, CountTypes
  <2>3. Spent' = Spent - Flight
    BY <1>t, <1>25, DieMoney, SpentIs, Naturals DEF Spent, Flight
  <2>4. Cardinality(Pending') \in Nat
    BY PendingSet
  <2> QED
    BY <1>0, <1>A, <1>t, <2>1, <2>2, <2>3, <2>4, PendingSet, Naturals
       DEF Accounted, CountTypes
<1> QED
  BY <1>1, <1>2, <1>3, <1>4, <1>5, <1>6, <1>7, <1>8, <1>9, <1>10, <1>11, <1>12, <1>13,
     <1>14, <1>15, <1>16, <1>17, <1>18, <1>19, <1>20, <1>21, <1>22, <1>23, <1>24, <1>25
     DEF Next, TurnStep, CallStep, OperatorStep

-----------------------------------------------------------------------------
(* The cap binds *)

\* What is called beyond a cap of k.
Excess(k) == IF paused THEN Cardinality(Active \ Calling) ELSE Cardinality(Blind(k))

\* The bound in terms of the excess.
LEMMA BoundIs ==
  ASSUME NEW k \in Nat
  PROVE  BoundAt(k) <=> calls - lapses <= k - 1 + Cardinality(Active) * lifts + Excess(k)
BY DEF BoundAt, Excess

\* Sets of spenders are finite, ...
LEMMA Sized ==
  ASSUME NEW S \in SUBSET Spender
  PROVE  IsFiniteSet(S) /\ Cardinality(S) \in Nat
BY Finite, FS_Subset, FS_CardinalityType

\* ... none is larger than a set around it, ...
LEMMA SizedWithin ==
  ASSUME NEW T \in SUBSET Spender, NEW S \in SUBSET T
  PROVE  Cardinality(S) <= Cardinality(T)
BY Sized, FS_Subset

\* ... leaving one out makes it one smaller at most, ...
LEMMA SizedBesides ==
  ASSUME NEW S \in SUBSET Spender, NEW T \in SUBSET Spender, NEW x, S \ {x} \subseteq T
  PROVE  Cardinality(S) <= Cardinality(T) + 1
<1>1. IsFiniteSet(S) /\ Cardinality(S) \in Nat /\ Cardinality(T) \in Nat
  BY Sized
<1>2. Cardinality(S \ {x}) <= Cardinality(T)
  BY SizedWithin
<1>3. Cardinality(S \ {x}) = Cardinality(S) \/ Cardinality(S \ {x}) = Cardinality(S) - 1
  BY <1>1, FS_RemoveElement
<1> QED BY <1>1, <1>2, <1>3

\* ... and one more makes it larger.
LEMMA SizedMore ==
  ASSUME NEW T \in SUBSET Spender, NEW S \in SUBSET T, NEW x \in T, x \notin S
  PROVE  Cardinality(S) + 1 <= Cardinality(T)
<1>1. S \cup {x} \subseteq T /\ IsFiniteSet(S)
  BY Sized
<1>2. Cardinality(S \cup {x}) = Cardinality(S) + 1
  BY <1>1, FS_AddElement
<1>3. Cardinality(S \cup {x}) <= Cardinality(T)
  BY <1>1, SizedWithin
<1> QED BY <1>2, <1>3

\* Only a spender of the environment has asked, and none that is still in its call.
LEMMA BlindAwake == ASSUME IInv, NEW k \in Nat PROVE Blind(k) \subseteq Active \ Calling
<1>1. Counted
  BY DEF IInv
<1> QED BY <1>1 DEF Counted, Blind, Asked, Active, Calling

\* The sizes the bound is made of are natural numbers.
LEMMA ExcessSize ==
  ASSUME NEW k \in Nat
  PROVE  /\ Cardinality(Active) \in Nat
         /\ Blind(k) \in SUBSET Spender /\ Blind(k)' \in SUBSET Spender
         /\ Active \ Calling \in SUBSET Spender /\ (Active \ Calling)' \in SUBSET Spender
         /\ Excess(k) \in Nat /\ Excess(k)' \in Nat
<1>1. Active \in SUBSET Spender /\ Active' \in SUBSET Spender
  BY DEF Active
<1>2. Active \ Calling \in SUBSET Spender /\ (Active \ Calling)' \in SUBSET Spender
  BY <1>1
<1>3. Blind(k) \in SUBSET Spender /\ Blind(k)' \in SUBSET Spender
  BY DEF Blind
<1>4. Cardinality(Active \ Calling) \in Nat /\ Cardinality(Blind(k)) \in Nat
  BY <1>2, <1>3, Sized
<1>5. Cardinality((Active \ Calling)') \in Nat /\ Cardinality(Blind(k)') \in Nat
  BY <1>2, <1>3, Sized
<1>6. Excess(k) \in Nat /\ Excess(k)' \in Nat
  BY <1>4, <1>5 DEF Excess
<1> QED BY <1>1, <1>2, <1>3, <1>6, Sized

\* Nobody makes more than one call in excess.
LEMMA ExcessMost ==
  ASSUME IInv, NEW k \in Nat
  PROVE  Excess(k) <= Cardinality(Active) /\ Cardinality(Blind(k)) <= Cardinality(Active \ Calling)
<1>1. Active \in SUBSET Spender /\ Active \ Calling \in SUBSET Active
  BY DEF Active
<1>2. Blind(k) \in SUBSET (Active \ Calling) /\ Active \ Calling \in SUBSET Spender
  BY <1>1, BlindAwake
<1>3. Cardinality(Active \ Calling) <= Cardinality(Active)
  BY <1>1, SizedWithin
<1>4. Cardinality(Blind(k)) <= Cardinality(Active \ Calling)
  BY <1>2, SizedWithin
<1>5. Cardinality(Blind(k)) \in Nat /\ Cardinality(Active \ Calling) \in Nat /\ Cardinality(Active) \in Nat
  BY <1>1, <1>2, ExcessSize, Sized
<1> QED BY <1>3, <1>4, <1>5 DEF Excess

\* A step that answers no call that some check is yet to see.
NoMore == (calls' = calls /\ lapses' >= lapses) \/ (calls' = calls + 1 /\ lapses' = lapses + 1)

\* The bound follows what is called and what is in excess.
LEMMA BoundFollows ==
  ASSUME IInv, TypeOK', NEW k \in Nat, BoundAt(k), env' = env, lifts' = lifts,
         Excess(k)' + lapses' + calls >= Excess(k) + lapses + calls'
  PROVE  BoundAt(k)'
<1> DEFINE n == Cardinality(Active) * lifts
<1>1. calls \in Int /\ lapses \in Int /\ lifts \in Nat
  BY DEF IInv, TypeOK
<1>2. calls' \in Int /\ lapses' \in Int
  BY DEF TypeOK
<1>3. n \in Int /\ Excess(k) \in Int /\ Excess(k)' \in Int
  BY <1>1, ExcessSize
<1>4. calls - lapses <= k - 1 + n + Excess(k)
  BY DEF BoundAt, Excess
<1>5. Cardinality(Active') * lifts' = n
  BY DEF Active
<1>6. BoundAt(k)' <=> calls' - lapses' <= k - 1 + n + Excess(k)'
  BY <1>5 DEF BoundAt, Excess
<1> HIDE DEF n
<1>7. calls' - lapses' <= k - 1 + n + Excess(k)'
  BY <1>1, <1>2, <1>3, <1>4
<1> QED BY <1>6, <1>7

KeepsAsked == \A s \in Spender : Asked(s) => Asked(s)' /\ seen'[s] = seen[s]
KeepsSightOf(s) ==
  Begun(s) /\ s \notin torn' =>
    s \notin torn /\ LifeTotal' >= LifeTotal /\ RunTotal' >= RunTotal
KeepsSight == \A s \in Spender : KeepsSightOf(s)

\* A spender that has not looked, or has seen the cap reached, stays so.
LEMMA StaysBlind ==
  ASSUME IInv, TypeOK', Turns', NEW k \in Nat, NEW s \in Blind(k), Asked(s)',
         seen'[s] = seen[s], KeepsSightOf(s)
  PROVE  s \in Blind(k)'
<1>1. s \in Spender /\ (Begun(s) /\ s \notin torn => Sight(s) >= k)
  BY DEF Blind
<1>2. ASSUME Begun(s)', s \notin torn' PROVE Sight(s)' >= k
  <2>1. Begun(s)
    <3>1. pc[s] # "checking" => seen[s] = Nothing
      BY <1>1 DEF IInv, Reads
    <3> QED BY <1>2, <3>1 DEF Begun, Nothing
  <2>2. s \notin torn /\ LifeTotal' >= LifeTotal /\ RunTotal' >= RunTotal
    BY <1>1, <1>2, <2>1 DEF KeepsSightOf
  <2>3. Sight(s) >= k
    BY <1>1, <2>1, <2>2
  <2>4. seen[s].life \in Int /\ seen[s].turns \in Int
    BY <1>1 DEF IInv, TypeOK, Reader
  <2>5. Sight(s)' >= Sight(s) /\ Sight(s) \in Int /\ Sight(s)' \in Int
    BY <2>2, <2>4, Naturals DEF Sight
  <2> QED BY <2>3, <2>5
<1> QED BY <1>1, <1>2 DEF Blind

\* Nobody stops being blind, and nobody starts a call under a pause.
LEMMA BoundKept ==
  ASSUME IInv, TypeOK', Turns', NEW k \in Nat, BoundAt(k),
         env' = env, lifts' = lifts, paused' = paused, NoMore,
         paused => Calling' \subseteq Calling, ~paused => Blind(k) \subseteq Blind(k)'
  PROVE  BoundAt(k)'
<1>1. Excess(k)' >= Excess(k)
  <2>1. CASE paused
    <3>1. Active \ Calling \in SUBSET (Active \ Calling)'
      BY <2>1 DEF Active
    <3>2. Cardinality(Active \ Calling) <= Cardinality((Active \ Calling)')
      BY <3>1, ExcessSize, SizedWithin
    <3> QED BY <2>1, <3>2 DEF Excess
  <2>2. CASE ~paused
    <3>1. Blind(k) \in SUBSET Blind(k)'
      BY <2>2
    <3>2. Cardinality(Blind(k)) <= Cardinality(Blind(k)')
      BY <3>1, ExcessSize, SizedWithin
    <3> QED BY <2>2, <3>2 DEF Excess
  <2> QED BY <2>1, <2>2
<1>2. calls \in Int /\ lapses \in Int /\ calls' \in Int /\ lapses' \in Int
  BY DEF IInv, TypeOK
<1>3. Excess(k) \in Int /\ Excess(k)' \in Int
  BY ExcessSize
<1>4. Excess(k)' + lapses' + calls >= Excess(k) + lapses + calls'
  BY <1>1, <1>2, <1>3 DEF NoMore
<1> QED BY <1>4, BoundFollows

\* Nobody's check is over and nobody starts a call: the bound stays.
LEMMA BoundSame ==
  ASSUME IInv, TypeOK', Turns', NEW k \in Nat, BoundAt(k),
         env' = env, lifts' = lifts, paused' = paused, NoMore,
         paused => Calling' \subseteq Calling, KeepsAsked, KeepsSight
  PROVE  BoundAt(k)'
<1>1. Blind(k) \subseteq Blind(k)'
  BY StaysBlind DEF KeepsAsked, KeepsSight, Blind
<1> QED BY <1>1, BoundKept

\* ... nor when one spender's check is over, if its call has become a lapse.
LEMMA BoundLess ==
  ASSUME IInv, TypeOK', Turns', NEW k \in Nat, BoundAt(k), NEW x \in Spender,
         env' = env, lifts' = lifts, paused' = paused, calls' = calls, lapses' >= lapses + 1,
         paused => Calling' \subseteq Calling, Blind(k) \ {x} \subseteq Blind(k)'
  PROVE  BoundAt(k)'
<1>1. Excess(k)' + 1 >= Excess(k)
  <2>1. CASE paused
    <3>1. Active \ Calling \in SUBSET (Active \ Calling)'
      BY <2>1 DEF Active
    <3>2. Cardinality(Active \ Calling) <= Cardinality((Active \ Calling)')
      BY <3>1, ExcessSize, SizedWithin
    <3>3. Excess(k) = Cardinality(Active \ Calling) /\ Excess(k)' = Cardinality((Active \ Calling)')
      BY <2>1 DEF Excess
    <3> QED BY <3>2, <3>3, ExcessSize
  <2>2. CASE ~paused
    <3>1. Cardinality(Blind(k)) <= Cardinality(Blind(k)') + 1
      BY ExcessSize, SizedBesides
    <3> QED BY <2>2, <3>1 DEF Excess
  <2> QED BY <2>1, <2>2
<1>2. calls \in Int /\ lapses \in Int /\ calls' \in Int /\ lapses' \in Int
  BY DEF IInv, TypeOK
<1>3. Excess(k) \in Int /\ Excess(k)' \in Int
  BY ExcessSize
<1>4. Excess(k)' + lapses' + calls >= Excess(k) + lapses + calls'
  BY <1>1, <1>2, <1>3
<1> QED BY <1>4, BoundFollows

\* A pause takes every spender that is not in its call out of the count.
LEMMA BoundPaused ==
  ASSUME IInv, TypeOK', NEW k \in Nat, BoundAt(k),
         env' = env, lifts' = lifts, paused', NoMore,
         Calling' \subseteq Calling
  PROVE  BoundAt(k)'
<1>1. Excess(k)' >= Excess(k)
  <2>1. Active \ Calling \in SUBSET (Active \ Calling)'
    BY DEF Active
  <2>2. Cardinality(Active \ Calling) <= Cardinality((Active \ Calling)')
    BY <2>1, ExcessSize, SizedWithin
  <2>3. Cardinality(Blind(k)) <= Cardinality(Active \ Calling)
    BY ExcessMost
  <2>4. Excess(k)' = Cardinality((Active \ Calling)')
    BY DEF Excess
  <2>5. Excess(k) = Cardinality(Active \ Calling) \/ Excess(k) = Cardinality(Blind(k))
    BY DEF Excess
  <2>6. Cardinality(Active \ Calling) \in Nat /\ Cardinality(Blind(k)) \in Nat
    BY ExcessSize, Sized
  <2> QED BY <2>2, <2>3, <2>4, <2>5, <2>6, ExcessSize
<1>2. calls \in Int /\ lapses \in Int /\ calls' \in Int /\ lapses' \in Int
  BY DEF IInv, TypeOK
<1>3. Excess(k) \in Int /\ Excess(k)' \in Int
  BY ExcessSize
<1>4. Excess(k)' + lapses' + calls >= Excess(k) + lapses + calls'
  BY <1>1, <1>2, <1>3 DEF NoMore
<1> QED BY <1>4, BoundFollows

\* Each lifted pause lets every spender of the environment make one call more.
LEMMA BoundLifted ==
  ASSUME IInv, TypeOK', NEW k \in Nat, BoundAt(k),
         env' = env, lifts' = lifts + 1, NoMore
  PROVE  BoundAt(k)'
<1> DEFINE c == Cardinality(Active)
<1>1. calls \in Int /\ lapses \in Int /\ calls' \in Int /\ lapses' \in Int /\ lifts \in Nat
  BY DEF IInv, TypeOK
<1>2. c \in Nat /\ Excess(k) \in Nat /\ Excess(k)' \in Nat /\ Excess(k) <= c
  BY ExcessSize, ExcessMost
<1>3. calls - lapses <= k - 1 + c * lifts + Excess(k)
  BY DEF BoundAt, Excess
<1>4. BoundAt(k)' <=> calls' - lapses' <= k - 1 + c * (lifts + 1) + Excess(k)'
  BY DEF BoundAt, Excess, Active
<1> HIDE DEF c
<1>5. c * (lifts + 1) = c * lifts + c /\ c * lifts \in Int
  BY <1>1, <1>2
<1> DEFINE n == c * lifts
<1>6. calls - lapses <= k - 1 + n + Excess(k) /\ n \in Int /\ c * (lifts + 1) = n + c
  BY <1>3, <1>5
<1> HIDE DEF n
<1>7. calls' - lapses' <= k - 1 + (n + c) + Excess(k)'
  BY <1>1, <1>2, <1>6 DEF NoMore
<1> QED BY <1>4, <1>6, <1>7

\* A total read whole and found below the cap: what was called is not beyond it, but
\* for the calls that no document has yet.
LEMMA BoundSettled ==
  ASSUME IInv, TypeOK', Turns', NEW k \in Nat, ~InTransit, LifeTotal + RunTotal < k,
         UNCHANGED <<lifts, calls, lapses>>, env' = env, ~paused', Pending \subseteq Blind(k)'
  PROVE  BoundAt(k)'
<1> DEFINE f == [a \in Agent |-> InFlight(a)]
<1> DEFINE n == Cardinality(Active) * lifts
<1>1. f \in [Agent -> Int] /\ \A a \in Agent : f[a] = 0
  BY DEF InTransit, InFlight
<1> HIDE DEF f
<1>2. SumFunction(f) = 0
  BY <1>1, Finite, SumZero
<1>3. Flight = 0
  BY <1>2 DEF Flight, f
<1>4. Spent <= k - 1
  BY <1>3, SpentIs, Naturals
<1>5. calls <= Spent + Cardinality(Pending) + lapses
  BY DEF IInv, Accounted
<1>6. calls \in Int /\ lapses \in Int /\ lifts \in Nat
  BY DEF IInv, TypeOK
<1>7. Cardinality(Pending) <= Cardinality(Blind(k)') /\ Cardinality(Blind(k)') \in Nat
  BY ExcessSize, SizedWithin, Sized
<1>8. n \in Nat
  BY <1>6, ExcessSize
<1>9. BoundAt(k)' <=> calls - lapses <= k - 1 + n + Cardinality(Blind(k)')
  BY DEF BoundAt, Active
<1> HIDE DEF n
<1>10. calls - lapses <= k - 1 + n + Cardinality(Blind(k)')
  BY <1>4, <1>5, <1>6, <1>7, <1>8, PendingSet, Naturals
<1> QED BY <1>9, <1>10

\* No step takes the mission further beyond a cap.
LEMMA BoundAtStep ==
  ASSUME IInv, TypeOK', Turns', NEW k \in Nat, BoundAt(k), k >= highCap, Next
  PROVE  BoundAt(k)'
<1>0. DocTypes /\ LoopTypes /\ CheckTypes /\ CountTypes /\ Turns /\ Counted /\ Reads
  BY TypeParts DEF IInv
<1>t. calls' \in Int /\ lapses' \in Int
  BY DEF TypeOK
<1>1. ASSUME NEW a \in Agent, Dispatch(a) PROVE BoundAt(k)'
  <2>1. env' = env /\ lifts' = lifts /\ paused' = paused
    BY <1>1 DEF Dispatch, mongoVars, turnVars, bookVars, capVars
  <2>2. NoMore
    BY <1>0, <1>1
       DEF CountTypes, NoMore, Dispatch, mongoVars, turnVars, bookVars, capVars
  <2>3. KeepsAsked
    BY <1>0, <1>1, Consts
       DEF LoopTypes, Dispatch, mongoVars, turnVars, bookVars, capVars, Go, Asked,
           KeepsAsked, Spender
  <2>4. paused => Calling' \subseteq Calling
    BY <1>0, <1>1, Consts
       DEF LoopTypes, Dispatch, mongoVars, turnVars, bookVars, capVars, Go, Calling,
           Spender
  <2>5. KeepsSight
    <3>1. Quiet
      BY <1>1 DEF Quiet, OperatorStep
    <3>2. LifeTotal' >= LifeTotal /\ RunTotal' >= RunTotal
      BY <3>1, QuietMoney, Naturals
    <3>3. torn' = torn
      BY <1>1 DEF Dispatch, mongoVars, turnVars, bookVars, capVars
    <3> QED BY <3>2, <3>3 DEF KeepsSight, KeepsSightOf
  <2> QED BY <2>1, <2>2, <2>3, <2>4, <2>5, BoundSame
<1>2. ASSUME NEW a \in Agent, Reflect(a) PROVE BoundAt(k)'
  <2>1. env' = env /\ lifts' = lifts /\ paused' = paused
    BY <1>2 DEF Reflect, mongoVars, turnVars, bookVars, capVars
  <2>2. NoMore
    BY <1>0, <1>2
       DEF CountTypes, NoMore, Reflect, mongoVars, turnVars, bookVars, capVars, Lapse
  <2>3. KeepsAsked
    BY <1>0, <1>2, Consts
       DEF LoopTypes, Reflect, mongoVars, turnVars, bookVars, capVars, Go, Asked,
           KeepsAsked, Spender
  <2>4. paused => Calling' \subseteq Calling
    BY <1>0, <1>2, Consts
       DEF LoopTypes, Reflect, mongoVars, turnVars, bookVars, capVars, Go, Calling,
           Spender
  <2>5. KeepsSight
    <3>1. Quiet
      BY <1>2 DEF Quiet, OperatorStep
    <3>2. LifeTotal' >= LifeTotal /\ RunTotal' >= RunTotal
      BY <3>1, QuietMoney, Naturals
    <3>3. torn' = torn
      BY <1>2 DEF Reflect, mongoVars, turnVars, bookVars, capVars
    <3> QED BY <3>2, <3>3 DEF KeepsSight, KeepsSightOf
  <2> QED BY <2>1, <2>2, <2>3, <2>4, <2>5, BoundSame
<1>3. ASSUME NEW a \in Agent, StartTurn(a) PROVE BoundAt(k)'
  <2>1. env' = env /\ lifts' = lifts /\ paused' = paused
    BY <1>3 DEF StartTurn, mongoVars, bookVars, capVars
  <2>2. NoMore
    BY <1>0, <1>3 DEF CountTypes, NoMore, StartTurn, mongoVars, bookVars, capVars
  <2>3. KeepsAsked
    BY <1>0, <1>3, Consts
       DEF LoopTypes, StartTurn, mongoVars, bookVars, capVars, Go, Asked, KeepsAsked,
           Spender
  <2>4. paused => Calling' \subseteq Calling
    BY <1>0, <1>3, Consts
       DEF LoopTypes, StartTurn, mongoVars, bookVars, capVars, Go, Calling, Spender
  <2>5. KeepsSight
    <3>1. Quiet
      BY <1>3 DEF Quiet, OperatorStep
    <3>2. LifeTotal' >= LifeTotal /\ RunTotal' >= RunTotal
      BY <3>1, QuietMoney, Naturals
    <3>3. torn' = torn
      BY <1>3 DEF StartTurn, mongoVars, bookVars, capVars
    <3> QED BY <3>2, <3>3 DEF KeepsSight, KeepsSightOf
  <2> QED BY <2>1, <2>2, <2>3, <2>4, <2>5, BoundSame
<1>4. ASSUME NEW a \in Agent, Claim(a) PROVE BoundAt(k)'
  <2>1. env' = env /\ lifts' = lifts /\ paused' = paused
    BY <1>4 DEF Claim, bookVars, capVars
  <2>2. NoMore
    BY <1>0, <1>4 DEF CountTypes, NoMore, Claim, bookVars, capVars
  <2>3. KeepsAsked
    BY <1>0, <1>4, Consts
       DEF LoopTypes, Claim, bookVars, capVars, Go, Asked, KeepsAsked, Spender
  <2>4. paused => Calling' \subseteq Calling
    BY <1>0, <1>4, Consts DEF LoopTypes, Claim, bookVars, capVars, Go, Calling, Spender
  <2>5. KeepsSight
    <3>1. torn' = torn \cup {r \in Reader : seen[r].life # Unread \/ seen[r].turns # Unread}
      BY <1>4 DEF Claim, Tear
    <3> QED BY <3>1 DEF KeepsSight, KeepsSightOf, Begun, Reader
  <2> QED BY <2>1, <2>2, <2>3, <2>4, <2>5, BoundSame
<1>5. ASSUME NEW a \in Agent, AddClaimed(a) PROVE BoundAt(k)'
  <2>1. env' = env /\ lifts' = lifts /\ paused' = paused
    BY <1>5 DEF AddClaimed, capVars
  <2>2. NoMore
    <3>1. calls' = calls
      BY <1>5 DEF AddClaimed, capVars
    <3>2. lapses' >= lapses
      BY <1>5, AddClaimedMoney
    <3> QED BY <1>0, <1>t, <3>1, <3>2 DEF CountTypes, NoMore
  <2>3. KeepsAsked
    BY <1>0, <1>5, Consts
       DEF LoopTypes, AddClaimed, capVars, Go, Asked, KeepsAsked, Spender
  <2>4. paused => Calling' \subseteq Calling
    BY <1>0, <1>5, Consts DEF LoopTypes, AddClaimed, capVars, Go, Calling, Spender
  <2>5. KeepsSight
    <3>1. LifeTotal' >= LifeTotal /\ RunTotal' >= RunTotal
      BY <1>5, AddClaimedMoney, Naturals
    <3>2. torn' = torn
      BY <1>5 DEF AddClaimed, capVars
    <3> QED BY <3>1, <3>2 DEF KeepsSight, KeepsSightOf
  <2> QED BY <2>1, <2>2, <2>3, <2>4, <2>5, BoundSame
<1>6. ASSUME NEW a \in Agent, OpenTurn(a) PROVE BoundAt(k)'
  <2>1. env' = env /\ lifts' = lifts /\ paused' = paused
    BY <1>6 DEF OpenTurn, bookVars, capVars
  <2>2. NoMore
    BY <1>0, <1>6 DEF CountTypes, NoMore, OpenTurn, bookVars, capVars
  <2>3. KeepsAsked
    BY <1>0, <1>6, Consts
       DEF LoopTypes, OpenTurn, bookVars, capVars, Go, Asked, KeepsAsked, Spender
  <2>4. paused => Calling' \subseteq Calling
    BY <1>0, <1>6, Consts
       DEF LoopTypes, OpenTurn, bookVars, capVars, Go, Calling, Spender
  <2>5. KeepsSight
    <3>1. LifeTotal' >= LifeTotal /\ RunTotal' >= RunTotal
      BY <1>6, OpenTurnMoney, Naturals
    <3>2. torn' = torn
      BY <1>6 DEF OpenTurn, bookVars, capVars
    <3> QED BY <3>1, <3>2 DEF KeepsSight, KeepsSightOf
  <2> QED BY <2>1, <2>2, <2>3, <2>4, <2>5, BoundSame
<1>7. ASSUME NEW a \in Agent, PassGate(a) PROVE BoundAt(k)'
  <2>1. env' = env /\ lifts' = lifts /\ paused' = paused
    BY <1>7 DEF PassGate, mongoVars, turnVars, bookVars, capVars
  <2>2. NoMore
    BY <1>0, <1>7
       DEF CountTypes, NoMore, PassGate, mongoVars, turnVars, bookVars, capVars
  <2>3. KeepsAsked
    BY <1>0, <1>7, Consts
       DEF LoopTypes, PassGate, mongoVars, turnVars, bookVars, capVars, Go, Asked,
           KeepsAsked, Spender
  <2>4. paused => Calling' \subseteq Calling
    BY <1>0, <1>7, Consts
       DEF LoopTypes, PassGate, mongoVars, turnVars, bookVars, capVars, Go, Calling,
           Spender
  <2>5. KeepsSight
    <3>1. Quiet
      BY <1>7 DEF Quiet, OperatorStep
    <3>2. LifeTotal' >= LifeTotal /\ RunTotal' >= RunTotal
      BY <3>1, QuietMoney, Naturals
    <3>3. torn' = torn
      BY <1>7 DEF PassGate, mongoVars, turnVars, bookVars, capVars
    <3> QED BY <3>2, <3>3 DEF KeepsSight, KeepsSightOf
  <2> QED BY <2>1, <2>2, <2>3, <2>4, <2>5, BoundSame
<1>8. ASSUME NEW a \in Agent, Record(a) PROVE BoundAt(k)'
  <2>1. env' = env /\ lifts' = lifts /\ paused' = paused
    BY <1>8 DEF Record, turnVars, bookVars, capVars
  <2>2. calls' = calls /\ seen' = seen /\ torn' = torn /\ tool' = tool
    BY <1>8 DEF Record, turnVars
  <2>3. LifeTotal' >= LifeTotal /\ RunTotal' >= RunTotal /\ lapses' >= lapses
    BY <1>8, RecordMoney, Naturals
  <2>4. paused => Calling' \subseteq Calling
    BY <1>0, <1>8, Consts DEF LoopTypes, Record, Go, Calling, Spender
  <2>5. KeepsSight
    BY <2>2, <2>3 DEF KeepsSight, KeepsSightOf
  <2>6. pc[a] = "recording" /\ pc'[a] \in {"closing", "tools", "checking"}
        /\ \A b \in Spender : b # a => pc'[b] = pc[b]
    BY <1>0, <1>8, Consts DEF LoopTypes, Record, Go, Spender
  <2>7. pc'[a] = "tools" => tool[a]
    BY <1>0, <1>8, Consts DEF LoopTypes, Record, Go, Spender
  <2>8. \A b \in Spender : b # a => (Asked(b) => Asked(b)')
    BY <2>2, <2>6 DEF Asked
  <2>9. CASE tool[a] \/ pc'[a] = "checking"
    <3>1. Asked(a) => Asked(a)'
      BY <2>6, <2>9, Consts DEF Asked
    <3>2. KeepsAsked
      BY <2>2, <2>8, <3>1 DEF KeepsAsked
    <3>3. NoMore
      BY <2>2, <2>3 DEF NoMore
    <3> QED BY <2>1, <2>4, <2>5, <3>2, <3>3, BoundSame
  <2>10. CASE pc'[a] = "closing" /\ ~tool[a]
    <3>1. lapses' >= lapses + 1
      BY <1>8, <2>10, RecordMoney
    <3>3. Blind(k) \ {a} \subseteq Blind(k)'
      BY <2>2, <2>5, <2>8, StaysBlind DEF KeepsSight, Blind
    <3>4. a \in Spender
      BY DEF Spender
    <3> QED BY <2>1, <2>2, <2>4, <3>1, <3>3, <3>4, BoundLess
  <2> QED BY <2>6, <2>7, <2>9, <2>10
<1>9. ASSUME NEW a \in Agent, NextCall(a) PROVE BoundAt(k)'
  <2>1. env' = env /\ lifts' = lifts /\ paused' = paused
    BY <1>9 DEF NextCall, mongoVars, bookVars, capVars
  <2>2. NoMore
    BY <1>0, <1>9 DEF CountTypes, NoMore, NextCall, mongoVars, bookVars, capVars
  <2>3. KeepsAsked
    BY <1>0, <1>9, Consts
       DEF LoopTypes, NextCall, mongoVars, bookVars, capVars, Go, Asked, KeepsAsked,
           Spender
  <2>4. paused => Calling' \subseteq Calling
    BY <1>0, <1>9, Consts
       DEF LoopTypes, NextCall, mongoVars, bookVars, capVars, Go, Calling, Spender
  <2>5. KeepsSight
    <3>1. Quiet
      BY <1>9 DEF Quiet, OperatorStep
    <3>2. LifeTotal' >= LifeTotal /\ RunTotal' >= RunTotal
      BY <3>1, QuietMoney, Naturals
    <3>3. torn' = torn
      BY <1>9 DEF NextCall, mongoVars, bookVars, capVars
    <3> QED BY <3>2, <3>3 DEF KeepsSight, KeepsSightOf
  <2> QED BY <2>1, <2>2, <2>3, <2>4, <2>5, BoundSame
<1>10. ASSUME NEW a \in Agent, EndTurn(a) PROVE BoundAt(k)'
  <2>1. env' = env /\ lifts' = lifts /\ paused' = paused
    BY <1>10 DEF EndTurn, mongoVars, turnVars, bookVars, capVars
  <2>2. NoMore
    BY <1>0, <1>10
       DEF CountTypes, NoMore, EndTurn, mongoVars, turnVars, bookVars, capVars
  <2>3. KeepsAsked
    BY <1>0, <1>10, Consts
       DEF LoopTypes, EndTurn, mongoVars, turnVars, bookVars, capVars, Go, Asked,
           KeepsAsked, Spender
  <2>4. paused => Calling' \subseteq Calling
    BY <1>0, <1>10, Consts
       DEF LoopTypes, EndTurn, mongoVars, turnVars, bookVars, capVars, Go, Calling,
           Spender
  <2>5. KeepsSight
    <3>1. Quiet
      BY <1>10 DEF Quiet, OperatorStep
    <3>2. LifeTotal' >= LifeTotal /\ RunTotal' >= RunTotal
      BY <3>1, QuietMoney, Naturals
    <3>3. torn' = torn
      BY <1>10 DEF EndTurn, mongoVars, turnVars, bookVars, capVars
    <3> QED BY <3>2, <3>3 DEF KeepsSight, KeepsSightOf
  <2> QED BY <2>1, <2>2, <2>3, <2>4, <2>5, BoundSame
<1>11. ASSUME NEW a \in Agent, CloseTurn(a) PROVE BoundAt(k)'
  <2>1. env' = env /\ lifts' = lifts /\ paused' = paused
    BY <1>11 DEF CloseTurn, turnVars, capVars
  <2>2. NoMore
    BY <1>0, <1>11 DEF CountTypes, NoMore, CloseTurn, turnVars, capVars
  <2>3. KeepsAsked
    BY <1>0, <1>11, Consts
       DEF LoopTypes, CloseTurn, turnVars, capVars, Go, Asked, KeepsAsked, Spender
  <2>4. paused => Calling' \subseteq Calling
    BY <1>0, <1>11, Consts
       DEF LoopTypes, CloseTurn, turnVars, capVars, Go, Calling, Spender
  <2>5. KeepsSight
    <3>1. torn' = torn \cup {r \in Reader : seen[r].life # Unread \/ seen[r].turns # Unread}
      BY <1>11 DEF CloseTurn, Tear
    <3> QED BY <3>1 DEF KeepsSight, KeepsSightOf, Begun, Reader
  <2> QED BY <2>1, <2>2, <2>3, <2>4, <2>5, BoundSame
<1>12. ASSUME NEW a \in Agent, AddTurn(a) PROVE BoundAt(k)'
  <2>1. env' = env /\ lifts' = lifts /\ paused' = paused
    BY <1>12 DEF AddTurn, capVars
  <2>2. NoMore
    <3>1. calls' = calls
      BY <1>12 DEF AddTurn, capVars
    <3>2. lapses' >= lapses
      BY <1>12, AddTurnMoney
    <3> QED BY <1>0, <1>t, <3>1, <3>2 DEF CountTypes, NoMore
  <2>3. KeepsAsked
    BY <1>0, <1>12, Consts
       DEF LoopTypes, AddTurn, capVars, Go, Asked, KeepsAsked, Spender
  <2>4. paused => Calling' \subseteq Calling
    BY <1>0, <1>12, Consts DEF LoopTypes, AddTurn, capVars, Go, Calling, Spender
  <2>5. KeepsSight
    <3>1. LifeTotal' >= LifeTotal /\ RunTotal' >= RunTotal
      BY <1>12, AddTurnMoney, Naturals
    <3>2. torn' = torn
      BY <1>12 DEF AddTurn, capVars
    <3> QED BY <3>1, <3>2 DEF KeepsSight, KeepsSightOf
  <2> QED BY <2>1, <2>2, <2>3, <2>4, <2>5, BoundSame
<1>13. ASSUME NEW j \in Job, JobCall(j) PROVE BoundAt(k)'
  <2>1. env' = env /\ lifts' = lifts /\ paused' = paused
    BY <1>13 DEF JobCall, mongoVars, turnVars, bookVars, capVars
  <2>2. NoMore
    BY <1>0, <1>13
       DEF CountTypes, NoMore, JobCall, mongoVars, turnVars, bookVars, capVars
  <2>3. KeepsAsked
    BY <1>0, <1>13, Consts
       DEF LoopTypes, JobCall, mongoVars, turnVars, bookVars, capVars, Go, Asked,
           KeepsAsked, Spender
  <2>4. paused => Calling' \subseteq Calling
    BY <1>0, <1>13, Consts
       DEF LoopTypes, JobCall, mongoVars, turnVars, bookVars, capVars, Go, Calling,
           Spender
  <2>5. KeepsSight
    <3>1. Quiet
      BY <1>13 DEF Quiet, OperatorStep
    <3>2. LifeTotal' >= LifeTotal /\ RunTotal' >= RunTotal
      BY <3>1, QuietMoney, Naturals
    <3>3. torn' = torn
      BY <1>13 DEF JobCall, mongoVars, turnVars, bookVars, capVars
    <3> QED BY <3>2, <3>3 DEF KeepsSight, KeepsSightOf
  <2> QED BY <2>1, <2>2, <2>3, <2>4, <2>5, BoundSame
<1>14. ASSUME NEW s \in Spender, Charge(s) PROVE BoundAt(k)'
  <2>1. env' = env /\ lifts' = lifts /\ paused' = paused
    BY <1>14 DEF Charge, turnVars, bookVars, capVars
  <2>2. NoMore
    <3>1. calls' = calls
      BY <1>14 DEF Charge
    <3>2. lapses' = lapses \/ lapses' = lapses + 1
      BY <1>14, ChargeMoney
    <3> QED BY <1>0, <1>t, <3>1, <3>2 DEF CountTypes, NoMore
  <2>3. KeepsAsked
    BY <1>0, <1>14, Consts
       DEF LoopTypes, Charge, turnVars, bookVars, capVars, Go, Asked, KeepsAsked,
           Spender
  <2>4. paused => Calling' \subseteq Calling
    BY <1>0, <1>14, Consts
       DEF LoopTypes, Charge, turnVars, bookVars, capVars, Go, Calling, Spender
  <2>5. KeepsSight
    <3>1. LifeTotal' >= LifeTotal /\ RunTotal' >= RunTotal
      BY <1>14, ChargeMoney, Naturals
    <3>2. torn' = torn
      BY <1>14 DEF Charge, turnVars, bookVars, capVars
    <3> QED BY <3>1, <3>2 DEF KeepsSight, KeepsSightOf
  <2> QED BY <2>1, <2>2, <2>3, <2>4, <2>5, BoundSame
<1>15. ASSUME NEW s \in Spender, Answer(s) PROVE BoundAt(k)'
  <2>1. env' = env /\ lifts' = lifts /\ paused' = paused
    BY <1>15 DEF Answer, mongoVars, bookVars, capVars
  <2>2. calls' = calls + 1
    BY <1>15 DEF Answer
  <2>3. KeepsAsked
    BY <1>0, <1>15, Consts DEF LoopTypes, Answer, Go, Asked, KeepsAsked, Spender
  <2>4. Calling' = Calling \ {s} /\ s \in Calling
    BY <1>0, <1>15, Consts DEF LoopTypes, Answer, Go, Calling, Spender
  <2>5. KeepsSight
    <3>1. Quiet
      BY <1>15 DEF Quiet, OperatorStep
    <3>2. LifeTotal' >= LifeTotal /\ RunTotal' >= RunTotal
      BY <3>1, QuietMoney, Naturals
    <3>3. torn' = torn
      BY <1>15 DEF Answer, mongoVars, bookVars, capVars
    <3> QED BY <3>2, <3>3 DEF KeepsSight, KeepsSightOf
  <2>6. s \in Active
    BY <1>0, <1>15 DEF Counted, Active, Answer
  <2>7. CASE s \notin Job /\ tool[s]
    <3>1. lapses' = lapses + 1
      BY <1>15, <2>7 DEF Answer
    <3>2. NoMore
      BY <1>0, <2>2, <3>1 DEF NoMore
    <3> QED BY <2>1, <2>3, <2>4, <2>5, <3>2, BoundSame
  <2>8. CASE s \in Job \/ ~tool[s]
    <3>1. lapses' = lapses
      BY <1>0, <1>15, <2>8 DEF Answer, CountTypes
    <3>2. Excess(k)' >= Excess(k) + 1
      <4>1. CASE paused
        <5>1. Active \ Calling \in SUBSET (Active \ Calling)'
          BY <2>1, <2>4 DEF Active
        <5>2. s \in (Active \ Calling)' /\ s \notin Active \ Calling
          BY <2>1, <2>4, <2>6 DEF Active
        <5>3. Cardinality(Active \ Calling) + 1 <= Cardinality((Active \ Calling)')
          BY <5>1, <5>2, ExcessSize, SizedMore
        <5>4. Excess(k) = Cardinality(Active \ Calling) /\ Excess(k)' = Cardinality((Active \ Calling)')
          BY <2>1, <4>1 DEF Excess
        <5> QED BY <5>3, <5>4, ExcessSize
      <4>2. CASE ~paused
        <5>1. Blind(k) \in SUBSET Blind(k)'
          BY <2>3, <2>5, StaysBlind DEF KeepsAsked, KeepsSight, Blind
        <5>2. pc[s] = "calling" /\ tool' = tool /\ pc'[s] = (IF s \in Job THEN "charging" ELSE "recording")
          BY <1>0, <1>15 DEF LoopTypes, Answer, Go
        <5>3. s \notin Blind(k)
          BY <5>2 DEF Blind, Asked
        <5>4. Asked(s)' /\ ~Begun(s)'
          BY <2>8, <5>2 DEF Asked, Begun
        <5>5. s \in Blind(k)'
          BY <5>4 DEF Blind
        <5>6. Cardinality(Blind(k)) + 1 <= Cardinality(Blind(k)')
          BY <5>1, <5>3, <5>5, ExcessSize, SizedMore
        <5>7. Excess(k) = Cardinality(Blind(k)) /\ Excess(k)' = Cardinality(Blind(k)')
          BY <2>1, <4>2 DEF Excess
        <5> QED BY <5>6, <5>7, ExcessSize
      <4> QED BY <4>1, <4>2
    <3>3. Excess(k)' + lapses' + calls >= Excess(k) + lapses + calls'
      BY <1>0, <2>2, <3>1, <3>2, ExcessSize DEF CountTypes
    <3> QED BY <2>1, <3>3, BoundFollows
  <2> QED BY <2>7, <2>8
<1>16. ASSUME NEW s \in Spender, CheckCap(s) PROVE BoundAt(k)'
  <2>1. env' = env /\ lifts' = lifts /\ calls' = calls
    BY <1>16 DEF CheckCap, mongoVars, turnVars, bookVars, capVars
  <2>2. Calling' \subseteq Calling
    BY <1>0, <1>16, Consts
       DEF LoopTypes, CheckCap, mongoVars, turnVars, bookVars, capVars, AfterCheck, Go,
           Calling, Spender
  <2>3. \A b \in Spender : b # s => (Asked(b) => Asked(b)')
    BY <1>0, <1>16, Consts
       DEF LoopTypes, CheckCap, mongoVars, turnVars, bookVars, capVars, AfterCheck, Go,
           Asked, Spender
  <2>4. \A b \in Spender : b # s => seen'[b] = seen[b]
    BY <1>0, <1>16
       DEF CheckTypes, CheckCap, mongoVars, turnVars, bookVars, capVars, Done, Reader
  <2>5. ASSUME NEW b \in Spender, b # s PROVE KeepsSightOf(b)
    <3>1. Quiet
      BY <1>16 DEF Quiet
    <3>2. LifeTotal' >= LifeTotal /\ RunTotal' >= RunTotal
      BY <3>1, QuietMoney, Naturals
    <3>3. torn' = torn \ {s}
      BY <1>16 DEF CheckCap, mongoVars, turnVars, bookVars, capVars, Done
    <3> QED BY <2>5, <3>2, <3>3 DEF KeepsSightOf
  <2>6. Blind(k) \ {s} \subseteq Blind(k)'
    BY <2>3, <2>4, <2>5, StaysBlind DEF Blind
  <2> DEFINE over == Saw(s) >= EffectiveCap(seen[s].cap)
  <2>7. CASE ~over
    <3>1. paused' = paused /\ lapses' = lapses + IF s \in torn THEN 1 ELSE 0
      BY <1>16, <2>7 DEF CheckCap, Lapse
    <3>2. CASE s \in torn
      <4>1. lapses' >= lapses + 1
        BY <1>0, <3>1, <3>2 DEF CountTypes
      <4> QED BY <2>1, <2>2, <2>6, <3>1, <4>1, BoundLess
    <3>3. CASE s \notin torn
      <4>1. lapses' = lapses
        BY <1>0, <3>1, <3>3 DEF CountTypes
      <4>2. pc[s] = "checking" /\ HasRead(s)
        BY <1>16 DEF CheckCap
      <4>3. seen[s].life # Unread /\ seen[s].turns # Unread /\ seen[s].cap # Unread
        BY <4>2 DEF HasRead
      <4>4. seen[s].life \in Int /\ seen[s].turns \in Int /\ seen[s].cap \in Int /\ SeenOK(seen[s], highCap)
        BY <1>0 DEF CheckTypes, Reads, Reader
      <4>5. EffectiveCap(seen[s].cap) \in Int /\ EffectiveCap(seen[s].cap) <= highCap
        BY <4>3, <4>4, Consts DEF SeenOK, EffectiveCap
      <4>6. Saw(s) < k /\ Saw(s) \in Int
        BY <1>0, <2>7, <4>4, <4>5 DEF Saw, CountTypes
      <4>7. Begun(s) /\ Sight(s) = Saw(s)
        BY <4>2, <4>3 DEF Begun, Sight, Saw
      <4>8. s \notin Blind(k)
        BY <3>3, <4>6, <4>7 DEF Blind
      <4>9. Blind(k) \subseteq Blind(k)'
        BY <2>6, <4>8
      <4>10. NoMore
        BY <1>0, <2>1, <4>1 DEF NoMore, CountTypes
      <4> QED BY <2>1, <2>2, <3>1, <4>9, <4>10, BoundKept
    <3> QED BY <3>2, <3>3
  <2>8. CASE over
    <3>1. paused' = TRUE /\ lapses' = lapses
      BY <1>16, <2>8 DEF CheckCap
    <3>2. NoMore
      BY <1>0, <2>1, <3>1 DEF NoMore, CountTypes
    <3> QED BY <2>1, <2>2, <3>1, <3>2, BoundPaused
  <2> QED BY <2>7, <2>8
<1>17. ASSUME NEW s \in Spender, CheckFails(s) PROVE BoundAt(k)'
  <2>1. env' = env /\ lifts' = lifts /\ calls' = calls
    BY <1>17 DEF CheckFails, mongoVars, turnVars, bookVars, capVars
  <2>2. Calling' \subseteq Calling
    BY <1>0, <1>17, Consts
       DEF LoopTypes, CheckFails, mongoVars, turnVars, bookVars, capVars, AfterCheck,
           Go, Calling, Spender
  <2>3. \A b \in Spender : b # s => (Asked(b) => Asked(b)')
    BY <1>0, <1>17, Consts
       DEF LoopTypes, CheckFails, mongoVars, turnVars, bookVars, capVars, AfterCheck,
           Go, Asked, Spender
  <2>4. \A b \in Spender : b # s => seen'[b] = seen[b]
    BY <1>0, <1>17
       DEF CheckTypes, CheckFails, mongoVars, turnVars, bookVars, capVars, Done, Reader
  <2>5. ASSUME NEW b \in Spender, b # s PROVE KeepsSightOf(b)
    <3>1. Quiet
      BY <1>17 DEF Quiet
    <3>2. LifeTotal' >= LifeTotal /\ RunTotal' >= RunTotal
      BY <3>1, QuietMoney, Naturals
    <3>3. torn' = torn \ {s}
      BY <1>17 DEF CheckFails, mongoVars, turnVars, bookVars, capVars, Done
    <3> QED BY <2>5, <3>2, <3>3 DEF KeepsSightOf
  <2>6. Blind(k) \ {s} \subseteq Blind(k)'
    BY <2>3, <2>4, <2>5, StaysBlind DEF Blind
  <2>7. lapses' = lapses + 1 /\ (paused' = paused \/ paused' = TRUE)
    BY <1>17 DEF CheckFails, Lapse
  <2>8. lapses' >= lapses + 1 /\ NoMore
    BY <1>0, <2>1, <2>7 DEF NoMore, CountTypes
  <2>9. CASE paused' = paused
    BY <2>1, <2>2, <2>6, <2>8, <2>9, BoundLess
  <2>10. CASE paused' = TRUE
    BY <2>1, <2>2, <2>8, <2>10, BoundPaused
  <2> QED BY <2>7, <2>9, <2>10
<1>18. ASSUME NEW r \in Reader, NEW part \in {"life", "turns", "cap"}, Read(r, part)
       PROVE BoundAt(k)'
  <2>1. UNCHANGED <<env, lifts, paused, calls, lapses, pc, tool>>
    BY <1>18 DEF Read, turnVars
  <2>2. LifeTotal' = LifeTotal /\ RunTotal' = RunTotal
    <3>1. Quiet
      BY <1>18 DEF Quiet
    <3> QED BY <3>1, QuietMoney
  <2>3. NoMore /\ Calling' = Calling
    BY <1>0, <2>1 DEF NoMore, CountTypes, Calling
  <2>4. \A b \in Spender : Asked(b) => Asked(b)'
    BY <2>1 DEF Asked
  <2>5. torn \subseteq torn' /\ (part # "cap" /\ InTransit => r \in torn')
    BY <1>18 DEF Read
  <2>6. ASSUME NEW b \in Blind(k), b # r PROVE b \in Blind(k)'
    <3>1. seen'[b] = seen[b] /\ b \in Spender
      BY <1>0, <1>18, <2>6 DEF CheckTypes, Read, Blind, Reader
    <3>2. KeepsSightOf(b)
      BY <2>2, <2>5, Naturals DEF KeepsSightOf
    <3>3. Asked(b)'
      BY <2>4 DEF Blind
    <3> QED BY <3>1, <3>2, <3>3, StaysBlind
  <2>7. CASE Blind(k) \subseteq Blind(k)'
    BY <2>1, <2>3, <2>7, BoundKept
  <2>8. CASE paused
    BY <2>1, <2>3, <2>8, BoundKept
  <2>9. CASE ~paused /\ ~(Blind(k) \subseteq Blind(k)')
    <3>1. r \in Blind(k) /\ r \notin Blind(k)' /\ r \in Spender
      BY <2>6, <2>9 DEF Blind
    <3>2. Begun(r)' /\ r \notin torn' /\ ~(Sight(r)' >= k)
      BY <2>4, <3>1 DEF Blind
    <3>3. Sight(r)' = Sight(r)
      <4>1. seen[r] \in [life: Int, turns: Int, cap: Int] /\ seen[r][part] = Unread
        BY <1>0, <1>18 DEF CheckTypes, Read
      <4>2. LifeTotal # Unread /\ RunTotal # Unread
        BY Naturals DEF Unread
      <4>3. CASE part = "life"
        <5>1. seen'[r].life = LifeTotal /\ seen'[r].turns = seen[r].turns
          BY <1>0, <1>18, <4>1, <4>3 DEF CheckTypes, Read
        <5> QED BY <2>2, <4>1, <4>2, <4>3, <5>1 DEF Sight
      <4>4. CASE part = "turns"
        <5>1. seen'[r].turns = RunTotal /\ seen'[r].life = seen[r].life
          BY <1>0, <1>18, <4>1, <4>4 DEF CheckTypes, Read
        <5> QED BY <2>2, <4>1, <4>2, <4>4, <5>1 DEF Sight
      <4>5. CASE part = "cap"
        <5>1. seen'[r].turns = seen[r].turns /\ seen'[r].life = seen[r].life
          BY <1>0, <1>18, <4>1, <4>5 DEF CheckTypes, Read
        <5> QED BY <2>2, <5>1 DEF Sight
      <4> QED BY <4>3, <4>4, <4>5
    <3>4. ~Begun(r)
      BY <2>5, <3>1, <3>2, <3>3 DEF Blind
    <3>5. pc[r] = "checking" /\ seen[r].life = Unread /\ seen[r].turns = Unread
      BY <2>1, <3>2, <3>4 DEF Begun
    <3>6. part # "cap"
      <4>1. part = "cap" => seen'[r].turns = seen[r].turns /\ seen'[r].life = seen[r].life
        BY <1>0, <1>18 DEF CheckTypes, Read
      <4> QED BY <3>2, <3>5, <4>1 DEF Begun
    <3>7. ~InTransit
      BY <2>5, <3>2, <3>6
    <3>8. LifeTotal + RunTotal < k
      <4>1. Sight(r) = LifeTotal + RunTotal
        BY <3>5 DEF Sight
      <4> QED BY <3>2, <3>3, <4>1, Naturals
    <3>9. ASSUME NEW x \in Pending PROVE x \in Blind(k)'
      <4>1. x \in Spender /\ Owes(x)
        BY PendingSet
      <4>2. Asked(x)' /\ ~Begun(x)'
        BY <2>1, <4>1, Consts DEF Owes, Asked, Begun, Spender
      <4> QED BY <4>1, <4>2 DEF Blind
    <3>10. ~paused' /\ Pending \subseteq Blind(k)'
      BY <2>1, <2>9, <3>9
    <3> QED BY <2>1, <3>7, <3>8, <3>10, BoundSettled
  <2> QED BY <2>7, <2>8, <2>9
<1>19. CASE Extend
  <2>1. env' = env /\ lifts' = lifts /\ paused' = paused
    BY <1>19 DEF Extend, mongoVars, turnVars, bookVars
  <2>2. NoMore
    BY <1>0, <1>19 DEF CountTypes, NoMore, Extend, mongoVars, turnVars, bookVars
  <2>3. KeepsAsked
    <3>1. UNCHANGED <<pc, tool>>
      BY <1>19 DEF Extend, mongoVars, turnVars, bookVars
    <3>2. \A s \in Spender : seen'[s] = seen[s]
      BY <1>0, <1>19, Consts
         DEF CheckTypes, Extend, mongoVars, turnVars, bookVars, Spender
    <3> QED BY <3>1, <3>2 DEF KeepsAsked, Asked
  <2>4. paused => Calling' \subseteq Calling
    BY <1>19 DEF Extend, mongoVars, turnVars, bookVars, Calling
  <2>5. KeepsSight
    <3>1. Quiet
      BY <1>19 DEF Quiet, OperatorStep
    <3>2. LifeTotal' >= LifeTotal /\ RunTotal' >= RunTotal
      BY <3>1, QuietMoney, Naturals
    <3>3. torn \subseteq torn' \cup {Operator}
      BY <1>19 DEF Extend, mongoVars, turnVars, bookVars
    <3> QED BY <3>2, <3>3, Consts DEF KeepsSight, KeepsSightOf, Spender
  <2> QED BY <2>1, <2>2, <2>3, <2>4, <2>5, BoundSame
<1>20. CASE ExtendWrite
  <2>1. env' = env /\ lifts' = lifts /\ paused' = paused
    BY <1>20 DEF ExtendWrite, mongoVars, turnVars, bookVars
  <2>2. NoMore
    BY <1>0, <1>20 DEF CountTypes, NoMore, ExtendWrite, mongoVars, turnVars, bookVars
  <2>3. KeepsAsked
    <3>1. UNCHANGED <<pc, tool>>
      BY <1>20 DEF ExtendWrite, mongoVars, turnVars, bookVars
    <3>2. \A s \in Spender : seen'[s] = seen[s]
      BY <1>0, <1>20, Consts
         DEF CheckTypes, ExtendWrite, mongoVars, turnVars, bookVars, Done, Spender
    <3> QED BY <3>1, <3>2 DEF KeepsAsked, Asked
  <2>4. paused => Calling' \subseteq Calling
    BY <1>20 DEF ExtendWrite, mongoVars, turnVars, bookVars, Calling
  <2>5. KeepsSight
    <3>1. Quiet
      BY <1>20 DEF Quiet, OperatorStep
    <3>2. LifeTotal' >= LifeTotal /\ RunTotal' >= RunTotal
      BY <3>1, QuietMoney, Naturals
    <3>3. torn \subseteq torn' \cup {Operator}
      BY <1>20 DEF ExtendWrite, mongoVars, turnVars, bookVars, Done
    <3> QED BY <3>2, <3>3, Consts DEF KeepsSight, KeepsSightOf, Spender
  <2> QED BY <2>1, <2>2, <2>3, <2>4, <2>5, BoundSame
<1>21. CASE ExtendResume
  <2>1. env' = env
    BY <1>21 DEF ExtendResume, mongoVars, turnVars, bookVars
  <2>2. NoMore
    BY <1>0, <1>21 DEF CountTypes, NoMore, ExtendResume, mongoVars, turnVars, bookVars
  <2>3. KeepsAsked
    <3>1. UNCHANGED <<pc, tool>>
      BY <1>21 DEF ExtendResume, mongoVars, turnVars, bookVars
    <3>2. \A s \in Spender : seen'[s] = seen[s]
      BY <1>0, <1>21, Consts
         DEF CheckTypes, ExtendResume, mongoVars, turnVars, bookVars, Spender
    <3> QED BY <3>1, <3>2 DEF KeepsAsked, Asked
  <2>4. paused => Calling' \subseteq Calling
    BY <1>21 DEF ExtendResume, mongoVars, turnVars, bookVars, Calling
  <2>5. KeepsSight
    <3>1. Quiet
      BY <1>21 DEF Quiet, OperatorStep
    <3>2. LifeTotal' >= LifeTotal /\ RunTotal' >= RunTotal
      BY <3>1, QuietMoney, Naturals
    <3>3. torn \subseteq torn' \cup {Operator}
      BY <1>21 DEF ExtendResume, mongoVars, turnVars, bookVars
    <3> QED BY <3>2, <3>3, Consts DEF KeepsSight, KeepsSightOf, Spender
  <2>6. CASE paused' = paused /\ lifts' = lifts
    BY <2>1, <2>2, <2>3, <2>4, <2>5, <2>6, BoundSame
  <2>7. CASE lifts' = lifts + 1
    BY <2>1, <2>2, <2>7, BoundLifted
  <2>8. (paused' = paused /\ lifts' = lifts) \/ lifts' = lifts + 1
    <3>1. Lift \/ UNCHANGED <<paused, lifts>>
      BY <1>21 DEF ExtendResume
    <3>2. lifts \in Nat /\ paused \in BOOLEAN
      BY <1>0 DEF CountTypes
    <3>3. CASE paused
      BY <3>1, <3>2, <3>3 DEF Lift
    <3>4. CASE ~paused
      <4>1. Lift => paused' = FALSE /\ lifts' = lifts
        BY <3>2, <3>4 DEF Lift
      <4> QED BY <3>1, <3>2, <3>4, <4>1
    <3> QED BY <3>3, <3>4
  <2> QED BY <2>6, <2>7, <2>8
<1>22. CASE SetCap
  <2>1. env' = env /\ lifts' = lifts /\ paused' = paused
    BY <1>22 DEF SetCap, mongoVars, turnVars, bookVars
  <2>2. NoMore
    BY <1>0, <1>22 DEF CountTypes, NoMore, SetCap, mongoVars, turnVars, bookVars
  <2>3. KeepsAsked
    <3>1. UNCHANGED <<pc, tool>>
      BY <1>22 DEF SetCap, mongoVars, turnVars, bookVars
    <3>2. \A s \in Spender : seen'[s] = seen[s]
      <4>1. PICK c \in 1 .. Ceiling : seen' = [seen EXCEPT ![Operator].cap = c] \/ seen' = seen
        BY <1>22 DEF SetCap
      <4> QED BY <1>0, <4>1, Consts DEF CheckTypes, Spender, Reader
    <3> QED BY <3>1, <3>2 DEF KeepsAsked, Asked
  <2>4. paused => Calling' \subseteq Calling
    BY <1>22 DEF SetCap, mongoVars, turnVars, bookVars, Calling
  <2>5. KeepsSight
    <3>1. Quiet
      BY <1>22 DEF Quiet, OperatorStep
    <3>2. LifeTotal' >= LifeTotal /\ RunTotal' >= RunTotal
      BY <3>1, QuietMoney, Naturals
    <3>3. torn \subseteq torn' \cup {Operator}
      BY <1>22 DEF SetCap, mongoVars, turnVars, bookVars
    <3> QED BY <3>2, <3>3, Consts DEF KeepsSight, KeepsSightOf, Spender
  <2> QED BY <2>1, <2>2, <2>3, <2>4, <2>5, BoundSame
<1>23. CASE SetResume
  <2>1. env' = env
    BY <1>23 DEF SetResume, mongoVars, turnVars, bookVars
  <2>2. NoMore
    BY <1>0, <1>23 DEF CountTypes, NoMore, SetResume, mongoVars, turnVars, bookVars
  <2>3. KeepsAsked
    <3>1. UNCHANGED <<pc, tool>>
      BY <1>23 DEF SetResume, mongoVars, turnVars, bookVars
    <3>2. \A s \in Spender : seen'[s] = seen[s]
      BY <1>0, <1>23, Consts
         DEF CheckTypes, SetResume, mongoVars, turnVars, bookVars, Done, Spender
    <3> QED BY <3>1, <3>2 DEF KeepsAsked, Asked
  <2>4. paused => Calling' \subseteq Calling
    BY <1>23 DEF SetResume, mongoVars, turnVars, bookVars, Calling
  <2>5. KeepsSight
    <3>1. Quiet
      BY <1>23 DEF Quiet, OperatorStep
    <3>2. LifeTotal' >= LifeTotal /\ RunTotal' >= RunTotal
      BY <3>1, QuietMoney, Naturals
    <3>3. torn \subseteq torn' \cup {Operator}
      BY <1>23 DEF SetResume, mongoVars, turnVars, bookVars, Done
    <3> QED BY <3>2, <3>3, Consts DEF KeepsSight, KeepsSightOf, Spender
  <2>6. CASE paused' = paused /\ lifts' = lifts
    BY <2>1, <2>2, <2>3, <2>4, <2>5, <2>6, BoundSame
  <2>7. CASE lifts' = lifts + 1
    BY <2>1, <2>2, <2>7, BoundLifted
  <2>8. (paused' = paused /\ lifts' = lifts) \/ lifts' = lifts + 1
    <3>1. Lift \/ UNCHANGED <<paused, lifts>>
      BY <1>23 DEF SetResume
    <3>2. lifts \in Nat /\ paused \in BOOLEAN
      BY <1>0 DEF CountTypes
    <3>3. CASE paused
      BY <3>1, <3>2, <3>3 DEF Lift
    <3>4. CASE ~paused
      <4>1. Lift => paused' = FALSE /\ lifts' = lifts
        BY <3>2, <3>4 DEF Lift
      <4> QED BY <3>1, <3>2, <3>4, <4>1
    <3> QED BY <3>3, <3>4
  <2> QED BY <2>6, <2>7, <2>8
<1>24. CASE SaveCap
  <2>1. env' = env /\ lifts' = lifts /\ paused' = paused
    BY <1>24 DEF SaveCap, mongoVars, turnVars, bookVars
  <2>2. NoMore
    BY <1>0, <1>24 DEF CountTypes, NoMore, SaveCap, mongoVars, turnVars, bookVars
  <2>3. KeepsAsked
    <3>1. UNCHANGED <<pc, tool>>
      BY <1>24 DEF SaveCap, mongoVars, turnVars, bookVars
    <3>2. \A s \in Spender : seen'[s] = seen[s]
      BY <1>0, <1>24, Consts
         DEF CheckTypes, SaveCap, mongoVars, turnVars, bookVars, Spender
    <3> QED BY <3>1, <3>2 DEF KeepsAsked, Asked
  <2>4. paused => Calling' \subseteq Calling
    BY <1>24 DEF SaveCap, mongoVars, turnVars, bookVars, Calling
  <2>5. KeepsSight
    <3>1. Quiet
      BY <1>24 DEF Quiet, OperatorStep
    <3>2. LifeTotal' >= LifeTotal /\ RunTotal' >= RunTotal
      BY <3>1, QuietMoney, Naturals
    <3>3. torn \subseteq torn' \cup {Operator}
      BY <1>24 DEF SaveCap, mongoVars, turnVars, bookVars
    <3> QED BY <3>2, <3>3, Consts DEF KeepsSight, KeepsSightOf, Spender
  <2> QED BY <2>1, <2>2, <2>3, <2>4, <2>5, BoundSame
<1>25. CASE Die
  <2>1. env' = env /\ lifts' = lifts + 1 /\ calls' = calls
    BY <1>25 DEF Die
  <2>2. lapses' >= lapses
    <3>1. SumFunction([a \in Agent |-> Unsaved(a)]) \in Nat
      BY UnsavedNat
    <3>2. Cardinality({j \in Job : pc[j] = "charging"}) \in Nat
      BY Finite, FS_Subset, FS_CardinalityType
    <3> QED BY <1>0, <1>25, <3>1, <3>2 DEF Die, Lapse, CountTypes
  <2>3. NoMore
    BY <2>1, <2>2 DEF NoMore
  <2> QED BY <2>1, <2>3, BoundLifted
<1> QED
  BY <1>1, <1>2, <1>3, <1>4, <1>5, <1>6, <1>7, <1>8, <1>9, <1>10, <1>11, <1>12, <1>13,
     <1>14, <1>15, <1>16, <1>17, <1>18, <1>19, <1>20, <1>21, <1>22, <1>23, <1>24, <1>25
     DEF Next, TurnStep, CallStep, OperatorStep

\* The environment is fixed, and the highest cap ever in force never falls.
LEMMA HighCapUp == ASSUME IInv, Next PROVE env' = env /\ highCap' >= highCap
<1>0. highCap \in Nat
  BY DEF IInv, TypeOK
<1>1. ASSUME UNCHANGED <<env, highCap>> PROVE env' = env /\ highCap' >= highCap
  BY <1>0, <1>1
<1>2. ASSUME NEW c \in Int, WriteCap(c), env' = env
      PROVE env' = env /\ highCap' >= highCap
  BY <1>0, <1>2 DEF WriteCap
<1>3. ASSUME NEW a \in Agent, Dispatch(a) PROVE env' = env /\ highCap' >= highCap
  BY <1>1, <1>3 DEF Dispatch, mongoVars, turnVars, bookVars, capVars
<1>4. ASSUME NEW a \in Agent, Reflect(a) PROVE env' = env /\ highCap' >= highCap
  BY <1>1, <1>4 DEF Reflect, mongoVars, turnVars, bookVars, capVars
<1>5. ASSUME NEW a \in Agent, StartTurn(a) PROVE env' = env /\ highCap' >= highCap
  BY <1>1, <1>5 DEF StartTurn, mongoVars, bookVars, capVars
<1>6. ASSUME NEW a \in Agent, Claim(a) PROVE env' = env /\ highCap' >= highCap
  BY <1>1, <1>6 DEF Claim, bookVars, capVars
<1>7. ASSUME NEW a \in Agent, AddClaimed(a) PROVE env' = env /\ highCap' >= highCap
  BY <1>1, <1>7 DEF AddClaimed, capVars
<1>8. ASSUME NEW a \in Agent, OpenTurn(a) PROVE env' = env /\ highCap' >= highCap
  BY <1>1, <1>8 DEF OpenTurn, bookVars, capVars
<1>9. ASSUME NEW a \in Agent, PassGate(a) PROVE env' = env /\ highCap' >= highCap
  BY <1>1, <1>9 DEF PassGate, mongoVars, turnVars, bookVars, capVars
<1>10. ASSUME NEW a \in Agent, Record(a) PROVE env' = env /\ highCap' >= highCap
  BY <1>1, <1>10 DEF Record, turnVars, bookVars, capVars
<1>11. ASSUME NEW a \in Agent, NextCall(a) PROVE env' = env /\ highCap' >= highCap
  BY <1>1, <1>11 DEF NextCall, mongoVars, bookVars, capVars
<1>12. ASSUME NEW a \in Agent, EndTurn(a) PROVE env' = env /\ highCap' >= highCap
  BY <1>1, <1>12 DEF EndTurn, mongoVars, turnVars, bookVars, capVars
<1>13. ASSUME NEW a \in Agent, CloseTurn(a) PROVE env' = env /\ highCap' >= highCap
  BY <1>1, <1>13 DEF CloseTurn, turnVars, capVars
<1>14. ASSUME NEW a \in Agent, AddTurn(a) PROVE env' = env /\ highCap' >= highCap
  BY <1>1, <1>14 DEF AddTurn, capVars
<1>15. ASSUME NEW j \in Job, JobCall(j) PROVE env' = env /\ highCap' >= highCap
  BY <1>1, <1>15 DEF JobCall, mongoVars, turnVars, bookVars, capVars
<1>16. ASSUME NEW s \in Spender, Charge(s) PROVE env' = env /\ highCap' >= highCap
  BY <1>1, <1>16 DEF Charge, turnVars, bookVars, capVars
<1>17. ASSUME NEW s \in Spender, Answer(s) PROVE env' = env /\ highCap' >= highCap
  BY <1>1, <1>17 DEF Answer, mongoVars, bookVars, capVars
<1>18. ASSUME NEW s \in Spender, CheckCap(s) PROVE env' = env /\ highCap' >= highCap
  BY <1>1, <1>18 DEF CheckCap, mongoVars, turnVars, bookVars, capVars
<1>19. ASSUME NEW s \in Spender, CheckFails(s) PROVE env' = env /\ highCap' >= highCap
  BY <1>1, <1>19 DEF CheckFails, mongoVars, turnVars, bookVars, capVars
<1>20. ASSUME NEW r \in Reader, NEW part \in {"life", "turns", "cap"}, Read(r, part)
       PROVE env' = env /\ highCap' >= highCap
  BY <1>1, <1>20 DEF Read, mongoVars, turnVars, bookVars, capVars
<1>21. CASE Extend
  BY <1>1, <1>21 DEF Extend, mongoVars, turnVars, bookVars
<1>22. CASE ExtendWrite
  <2> DEFINE c == (IF seen[Operator].cap = NoCap THEN Saw(Operator) ELSE seen[Operator].cap) + AddUsd
  <2>1. WriteCap(c) \/ UNCHANGED <<cap, highCap>>
    BY <1>22 DEF ExtendWrite
  <2>2. c \in Int
    <3>1. seen[Operator].cap \in Int /\ seen[Operator].life \in Int /\ seen[Operator].turns \in Int
      BY DEF IInv, TypeOK, Reader
    <3> QED BY <3>1, Consts DEF Saw
  <2>3. env' = env
    BY <1>22 DEF ExtendWrite
  <2> HIDE DEF c
  <2> QED BY <1>1, <1>2, <2>1, <2>2, <2>3
<1>23. CASE ExtendResume
  BY <1>1, <1>23 DEF ExtendResume, mongoVars, turnVars, bookVars
<1>24. CASE SetCap
  <2>1. PICK c \in 1 .. Ceiling : WriteCap(c)
    BY <1>24 DEF SetCap
  <2>2. c \in Int /\ env' = env
    BY <1>24 DEF SetCap
  <2> QED BY <1>2, <2>1, <2>2
<1>25. CASE SetResume
  BY <1>1, <1>25 DEF SetResume, mongoVars, turnVars, bookVars
<1>26. CASE SaveCap
  <2>1. PICK c \in 1 .. Ceiling : WriteCap(c)
    BY <1>26 DEF SaveCap
  <2>2. c \in Int /\ env' = env
    BY <1>26 DEF SaveCap
  <2> QED BY <1>2, <2>1, <2>2
<1>27. CASE Die
  BY <1>1, <1>27 DEF Die, mongoVars
<1> QED
  BY <1>3, <1>4, <1>5, <1>6, <1>7, <1>8, <1>9, <1>10, <1>11, <1>12, <1>13, <1>14, <1>15,
     <1>16, <1>17, <1>18, <1>19, <1>20, <1>21, <1>22, <1>23, <1>24, <1>25, <1>26, <1>27
     DEF Next, TurnStep, CallStep, OperatorStep

\* The bound for every cap at least the highest, which never falls.
LEMMA BoundStep == ASSUME IInv, TypeOK', Turns', Next PROVE Bound'
<1>1. highCap \in Nat /\ highCap' \in Nat /\ highCap' >= highCap
  BY HighCapUp DEF IInv, TypeOK
<1>2. ASSUME NEW k \in Nat, k >= highCap' PROVE BoundAt(k)'
  <2>1. k >= highCap
    BY <1>1, <1>2
  <2>2. BoundAt(k)
    BY <2>1 DEF IInv, Bound
  <2> QED BY <2>1, <2>2, BoundAtStep
<1> QED BY <1>2 DEF Bound

-----------------------------------------------------------------------------
(* The pause is justified *)

\* A step that does not lower the spend or raise the cap leaves the pause its reason.
LEMMA JustifiedKeeps ==
  ASSUME IInv, TypeOK', Turns', cap' = cap, Spent' >= Spent, paused' => paused,
         op' \in {"idle", "extend"} => op \in {"idle", "extend"}, misled # {} => misled' # {}
  PROVE  Justified'
<1>1. EffectiveCap(cap) \in Int
  BY Consts DEF IInv, TypeOK, EffectiveCap
<1>2. EffectiveCap(cap') = EffectiveCap(cap)
  OBVIOUS
<1>3. CASE misled # {}
  BY <1>3 DEF Justified
<1>4. CASE Spent >= EffectiveCap(cap)
  <2>1. Spent' >= EffectiveCap(cap')
    BY <1>1, <1>2, <1>4, Naturals
  <2> QED BY <2>1 DEF Justified
<1>5. CASE ~(paused /\ op \in {"idle", "extend"})
  BY <1>5 DEF Justified
<1> QED BY <1>3, <1>4, <1>5 DEF IInv, Justified

\* What the check finds now decides whether its cause is stale.
LEMMA NotStale ==
  ASSUME IInv, TypeOK', Turns', cap' = cap, Spent' = Spent, misled' = {} => StaleNow(cap) = {}
  PROVE  Justified'
<1>1. EffectiveCap(cap) \in Int /\ Spent >= LifeTotal + RunTotal
  BY SpentIs, Consts, Naturals DEF IInv, TypeOK, EffectiveCap
<1>2. CASE misled' # {}
  BY <1>2 DEF Justified
<1>3. CASE StaleNow(cap) = {}
  <2>1. LifeTotal + RunTotal >= EffectiveCap(cap)
    BY <1>1, <1>3, Naturals DEF StaleNow
  <2>2. Spent' >= EffectiveCap(cap')
    BY <1>1, <2>1, Naturals
  <2> QED BY <2>2 DEF Justified
<1> QED BY <1>2, <1>3

\* No step leaves a pause without its reason.
LEMMA JustifiedStep ==
  ASSUME IInv, TypeOK', Turns', Next
  PROVE  Justified'
<1>0. CountTypes
  BY TypeParts DEF IInv
<1>1. ASSUME NEW a \in Agent, Dispatch(a) PROVE Justified'
  <2>1. UNCHANGED <<cap, paused, op, misled>>
    BY <1>1 DEF Dispatch, mongoVars, turnVars, bookVars, capVars
  <2>2. Spent' >= Spent
    <3>1. Quiet
      BY <1>1 DEF Quiet, OperatorStep
    <3> QED BY <3>1, QuietSpent, Naturals
  <2> QED BY <2>1, <2>2, JustifiedKeeps
<1>2. ASSUME NEW a \in Agent, Reflect(a) PROVE Justified'
  <2>1. UNCHANGED <<cap, paused, op, misled>>
    BY <1>2 DEF Reflect, mongoVars, turnVars, bookVars, capVars
  <2>2. Spent' >= Spent
    <3>1. Quiet
      BY <1>2 DEF Quiet, OperatorStep
    <3> QED BY <3>1, QuietSpent, Naturals
  <2> QED BY <2>1, <2>2, JustifiedKeeps
<1>3. ASSUME NEW a \in Agent, StartTurn(a) PROVE Justified'
  <2>1. UNCHANGED <<cap, paused, op, misled>>
    BY <1>3 DEF StartTurn, mongoVars, bookVars, capVars
  <2>2. Spent' >= Spent
    <3>1. Quiet
      BY <1>3 DEF Quiet, OperatorStep
    <3> QED BY <3>1, QuietSpent, Naturals
  <2> QED BY <2>1, <2>2, JustifiedKeeps
<1>4. ASSUME NEW a \in Agent, Claim(a) PROVE Justified'
  <2>1. UNCHANGED <<cap, paused, op, misled>>
    BY <1>4 DEF Claim, bookVars, capVars
  <2>2. Spent' >= Spent
    <3>1. Spent' = LifeTotal' + RunTotal' + Flight'
      BY DEF Spent, Flight
    <3> QED BY <1>4, <3>1, ClaimMoney, SpentIs, Naturals
  <2> QED BY <2>1, <2>2, JustifiedKeeps
<1>5. ASSUME NEW a \in Agent, AddClaimed(a) PROVE Justified'
  <2>1. UNCHANGED <<cap, paused, op>> /\ (misled # {} => misled' # {})
    BY <1>5 DEF AddClaimed, capVars
  <2>2. Spent' >= Spent \/ misled' # {}
    BY <1>5, AddClaimedMoney
  <2>3. CASE misled' # {}
    BY <2>3 DEF Justified
  <2> QED BY <2>1, <2>2, <2>3, JustifiedKeeps
<1>6. ASSUME NEW a \in Agent, OpenTurn(a) PROVE Justified'
  <2>1. UNCHANGED <<cap, paused, op, misled>>
    BY <1>6 DEF OpenTurn, bookVars, capVars
  <2>2. Spent' >= Spent
    <3>1. Spent' = LifeTotal' + RunTotal' + Flight'
      BY DEF Spent, Flight
    <3> QED BY <1>6, <3>1, OpenTurnMoney, SpentIs, Naturals
  <2> QED BY <2>1, <2>2, JustifiedKeeps
<1>7. ASSUME NEW a \in Agent, PassGate(a) PROVE Justified'
  <2>1. UNCHANGED <<cap, paused, op, misled>>
    BY <1>7 DEF PassGate, mongoVars, turnVars, bookVars, capVars
  <2>2. Spent' >= Spent
    <3>1. Quiet
      BY <1>7 DEF Quiet, OperatorStep
    <3> QED BY <3>1, QuietSpent, Naturals
  <2> QED BY <2>1, <2>2, JustifiedKeeps
<1>8. ASSUME NEW a \in Agent, Record(a) PROVE Justified'
  <2>1. UNCHANGED <<cap, paused, op, misled>>
    BY <1>8 DEF Record, turnVars, bookVars, capVars
  <2>2. Spent' >= Spent
    <3>1. Spent' = LifeTotal' + RunTotal' + Flight'
      BY DEF Spent, Flight
    <3> QED BY <1>8, <3>1, RecordMoney, SpentIs, Naturals
  <2> QED BY <2>1, <2>2, JustifiedKeeps
<1>9. ASSUME NEW a \in Agent, NextCall(a) PROVE Justified'
  <2>1. UNCHANGED <<cap, paused, op, misled>>
    BY <1>9 DEF NextCall, mongoVars, bookVars, capVars
  <2>2. Spent' >= Spent
    <3>1. Quiet
      BY <1>9 DEF Quiet, OperatorStep
    <3> QED BY <3>1, QuietSpent, Naturals
  <2> QED BY <2>1, <2>2, JustifiedKeeps
<1>10. ASSUME NEW a \in Agent, EndTurn(a) PROVE Justified'
  <2>1. UNCHANGED <<cap, paused, op, misled>>
    BY <1>10 DEF EndTurn, mongoVars, turnVars, bookVars, capVars
  <2>2. Spent' >= Spent
    <3>1. Quiet
      BY <1>10 DEF Quiet, OperatorStep
    <3> QED BY <3>1, QuietSpent, Naturals
  <2> QED BY <2>1, <2>2, JustifiedKeeps
<1>11. ASSUME NEW a \in Agent, CloseTurn(a) PROVE Justified'
  <2>1. UNCHANGED <<cap, paused, op, misled>>
    BY <1>11 DEF CloseTurn, turnVars, capVars
  <2>2. Spent' >= Spent
    BY <1>11, CloseTurnMoney
  <2> QED BY <2>1, <2>2, JustifiedKeeps
<1>12. ASSUME NEW a \in Agent, AddTurn(a) PROVE Justified'
  <2>1. UNCHANGED <<cap, paused, op>> /\ (misled # {} => misled' # {})
    BY <1>12 DEF AddTurn, capVars
  <2>2. Spent' >= Spent \/ misled' # {}
    BY <1>12, AddTurnMoney
  <2>3. CASE misled' # {}
    BY <2>3 DEF Justified
  <2> QED BY <2>1, <2>2, <2>3, JustifiedKeeps
<1>13. ASSUME NEW j \in Job, JobCall(j) PROVE Justified'
  <2>1. UNCHANGED <<cap, paused, op, misled>>
    BY <1>13 DEF JobCall, mongoVars, turnVars, bookVars, capVars
  <2>2. Spent' >= Spent
    <3>1. Quiet
      BY <1>13 DEF Quiet, OperatorStep
    <3> QED BY <3>1, QuietSpent, Naturals
  <2> QED BY <2>1, <2>2, JustifiedKeeps
<1>14. ASSUME NEW s \in Spender, Charge(s) PROVE Justified'
  <2>1. UNCHANGED <<cap, paused, op, misled>>
    BY <1>14 DEF Charge, turnVars, bookVars, capVars
  <2>2. Spent' >= Spent
    <3>1. Spent' = LifeTotal' + RunTotal' + Flight'
      BY DEF Spent, Flight
    <3> QED BY <1>14, <3>1, ChargeMoney, SpentIs, Naturals
  <2> QED BY <2>1, <2>2, JustifiedKeeps
<1>15. ASSUME NEW s \in Spender, Answer(s) PROVE Justified'
  <2>1. UNCHANGED <<cap, paused, op, misled>>
    BY <1>15 DEF Answer, mongoVars, bookVars, capVars
  <2>2. Spent' >= Spent
    <3>1. Quiet
      BY <1>15 DEF Quiet, OperatorStep
    <3> QED BY <3>1, QuietSpent, Naturals
  <2> QED BY <2>1, <2>2, JustifiedKeeps
<1>16. ASSUME NEW s \in Spender, CheckCap(s) PROVE Justified'
  <2>1. UNCHANGED <<cap, op>>
    BY <1>16 DEF CheckCap, capVars
  <2>2. Spent' = Spent
    <3>1. Quiet
      BY <1>16 DEF Quiet, OperatorStep
    <3> QED BY <3>1, QuietSpent
  <2>3. (paused' = paused /\ misled' = misled) \/ misled' = StaleNow(cap)
    BY <1>0, <1>16 DEF CheckCap, CountTypes
  <2>4. CASE paused' = paused /\ misled' = misled
    <3>1. Spent' >= Spent
      BY <2>2, Naturals
    <3> QED BY <2>1, <2>4, <3>1, JustifiedKeeps
  <2>5. CASE misled' = StaleNow(cap)
    BY <2>1, <2>2, <2>5, NotStale
  <2> QED BY <2>3, <2>4, <2>5
<1>17. ASSUME NEW s \in Spender, CheckFails(s) PROVE Justified'
  <2>1. UNCHANGED <<cap, op>>
    BY <1>17 DEF CheckFails, capVars
  <2>2. Spent' >= Spent
    <3>1. Quiet
      BY <1>17 DEF Quiet
    <3> QED BY <3>1, QuietSpent, Naturals
  <2>3. (paused' = paused /\ misled' = misled) \/ misled' # {}
    BY <1>17 DEF CheckFails
  <2>4. CASE paused' = paused /\ misled' = misled
    BY <2>1, <2>2, <2>4, JustifiedKeeps
  <2>5. CASE misled' # {}
    BY <2>5 DEF Justified
  <2> QED BY <2>3, <2>4, <2>5
<1>18. ASSUME NEW r \in Reader, NEW part \in {"life", "turns", "cap"}, Read(r, part)
       PROVE Justified'
  <2>1. UNCHANGED <<cap, paused, op, misled>>
    BY <1>18 DEF Read, mongoVars, turnVars, bookVars, capVars
  <2>2. Spent' >= Spent
    <3>1. Quiet
      BY <1>18 DEF Quiet, OperatorStep
    <3> QED BY <3>1, QuietSpent, Naturals
  <2> QED BY <2>1, <2>2, JustifiedKeeps
<1>19. CASE Extend
  <2>1. UNCHANGED <<cap, paused, misled>> /\ op = "idle"
    BY <1>19 DEF Extend
  <2>2. Spent' >= Spent
    <3>1. Quiet
      BY <1>19 DEF Quiet, OperatorStep
    <3> QED BY <3>1, QuietSpent, Naturals
  <2> QED BY <2>1, <2>2, JustifiedKeeps
<1>20. CASE ExtendWrite
  <2>1. UNCHANGED <<paused, misled>> /\ op = "extend" /\ (op' = "resume" \/ cap' = cap)
    BY <1>20 DEF ExtendWrite
  <2>2. Spent' >= Spent
    <3>1. Quiet
      BY <1>20 DEF Quiet, OperatorStep
    <3> QED BY <3>1, QuietSpent, Naturals
  <2>3. CASE op' = "resume"
    BY <2>3 DEF Justified
  <2>4. CASE cap' = cap
    BY <2>1, <2>2, <2>4, JustifiedKeeps
  <2> QED BY <2>1, <2>3, <2>4
<1>21. CASE ExtendResume
  <2>1. ~paused'
    BY <1>21 DEF ExtendResume, Lift
  <2> QED BY <2>1 DEF Justified
<1>22. CASE SetCap
  <2>1. paused' = paused /\ (paused => op' = "set")
    BY <1>22 DEF SetCap
  <2> QED BY <2>1 DEF Justified
<1>23. CASE SetResume
  <2>1. ~paused' \/ (cap' = cap /\ misled' = misled \cup StaleNow(cap))
    BY <1>23 DEF SetResume, Lift
  <2>2. Spent' = Spent
    <3>1. Quiet
      BY <1>23 DEF Quiet, OperatorStep
    <3> QED BY <3>1, QuietSpent
  <2>3. CASE ~paused'
    BY <2>3 DEF Justified
  <2>4. CASE cap' = cap /\ misled' = misled \cup StaleNow(cap)
    <3>1. misled' = {} => StaleNow(cap) = {}
      BY <2>4
    <3> QED BY <2>2, <2>4, <3>1, NotStale
  <2> QED BY <2>1, <2>3, <2>4
<1>24. CASE SaveCap
  <2>1. PICK c \in 1 .. Ceiling :
          cap' = c /\ misled' = IF c > EffectiveCap(cap) THEN misled \cup {"saved"} ELSE misled
    BY <1>24 DEF SaveCap, WriteCap
  <2>2. UNCHANGED <<paused, op>>
    BY <1>24 DEF SaveCap
  <2>3. Spent' = Spent
    <3>1. Quiet
      BY <1>24 DEF Quiet, OperatorStep
    <3> QED BY <3>1, QuietSpent
  <2>4. CASE c > EffectiveCap(cap)
    BY <2>1, <2>4 DEF Justified
  <2>5. CASE ~(c > EffectiveCap(cap))
    <3>1. EffectiveCap(cap) \in Int /\ c \in Int /\ c <= EffectiveCap(cap)
      BY <1>0, <2>5, Consts DEF CountTypes, EffectiveCap
    <3>2. EffectiveCap(cap') = c
      BY <2>1 DEF EffectiveCap, NoCap
    <3>3. misled' = misled
      BY <2>1, <2>5
    <3>4. Spent >= EffectiveCap(cap) => Spent' >= EffectiveCap(cap')
      BY <2>3, <3>1, <3>2, Naturals
    <3>5. Justified
      BY DEF IInv
    <3> QED BY <2>2, <3>3, <3>4, <3>5 DEF Justified
  <2> QED BY <2>4, <2>5
<1>25. CASE Die
  <2>1. ~paused'
    BY <1>25 DEF Die
  <2> QED BY <2>1 DEF Justified
<1> QED
  BY <1>1, <1>2, <1>3, <1>4, <1>5, <1>6, <1>7, <1>8, <1>9, <1>10, <1>11, <1>12, <1>13,
     <1>14, <1>15, <1>16, <1>17, <1>18, <1>19, <1>20, <1>21, <1>22, <1>23, <1>24, <1>25
     DEF Next, TurnStep, CallStep, OperatorStep

-----------------------------------------------------------------------------
(* The theorems *)

\* The invariant holds before anything has run ...
LEMMA InitInv == Init => IInv
<1> SUFFICES ASSUME Init PROVE IInv
  OBVIOUS
<1>1. TypeOK
  <2>1. DocTypes
    BY Consts DEF Init, DocTypes
  <2>2. LoopTypes
    BY Consts DEF Init, LoopTypes
  <2>3. CheckTypes
    <3>1. 0 \in 0 .. FailClosedAfter - 1
      BY Consts
    <3> QED BY <3>1, NothingType DEF Init, CheckTypes
  <2>4. CountTypes
    <3>1. used \in [ops: 0 .. MaxOps, faults: 0 .. MaxFaults]
      BY Consts DEF Init
    <3>2. cap \in 0 .. Ceiling \cup {BootCap} /\ highCap \in Nat /\ calls \in 0 .. MaxCalls
      BY Consts DEF Init, NoCap
    <3>3. env \in Envs /\ paused \in BOOLEAN /\ op \in {"idle", "extend", "resume", "set"}
      BY DEF Init
    <3>4. lifts \in Nat /\ lapses \in Int /\ misled \subseteq Causes
      BY DEF Init
    <3> QED BY <3>1, <3>2, <3>3, <3>4 DEF CountTypes
  <2> QED BY <2>1, <2>2, <2>3, <2>4, TypeParts
<1>2. Counted
  BY <1>1, Consts DEF Init, Counted, Spender
<1>3. Reads
  <2>1. EffectiveCap(cap) <= highCap
    BY Consts DEF Init, EffectiveCap, NoCap
  <2>2. \A r \in Reader : SeenOK(seen[r], highCap)
    <3>1. \A r \in Reader : seen[r] = Nothing
      BY DEF Init
    <3>2. SeenOK(Nothing, highCap)
      BY SeenNothing
    <3> QED BY <3>1, <3>2
  <2>3. \A s \in Spender : seen[s] = Nothing
    BY DEF Init, Reader
  <2> QED BY <2>1, <2>2, <2>3 DEF Reads
<1>4. \A a \in Agent, t \in Turn : Fresh(a, t)
  BY DEF Init, Fresh
<1>5. Turns
  <2>1. \A a \in Agent : pc[a] = "idle" /\ held[a] = 0
    BY DEF Init, Spender
  <2> QED BY <1>4, <2>1 DEF Turns, Current, Claimed, Before, Opening, Running
<1>6. Booked
  BY <1>4 DEF Init, Booked, BookedAt
<1>7. Ended
  BY DEF Init, Ended, EndedAt
<1>8. DocTypes /\ LoopTypes
  BY <1>1, TypeParts
<1>9. Pending = {} /\ Cardinality(Pending) = 0
  BY FS_EmptySet, Consts DEF Init, Pending, Spender
<1>10. Spent \in Nat
  BY <1>5, <1>8, TotalTypes, FlightNat, SpentIs, Consts
<1>11. Accounted
  BY <1>9, <1>10 DEF Init, Accounted
<1>12. Bound
  <2>1. ASSUME NEW k \in Nat, k >= highCap PROVE BoundAt(k)
    <3>1. Blind(k) = {}
      BY DEF Init, Blind, Asked, Spender
    <3>2. Cardinality(Blind(k)) = 0
      BY <3>1, FS_EmptySet
    <3>3. Cardinality(Active) * lifts = 0
      BY ExcessSize DEF Init
    <3>4. highCap \in Nat /\ highCap > 0 /\ calls = 0 /\ lapses = 0 /\ ~paused
      BY Consts DEF Init
    <3> QED BY <2>1, <3>2, <3>3, <3>4 DEF BoundAt
  <2> QED BY <2>1 DEF Bound
<1>13. Justified
  BY DEF Init, Justified
<1> QED BY <1>1, <1>2, <1>3, <1>5, <1>6, <1>7, <1>11, <1>12, <1>13 DEF IInv

\* ... and every step keeps it.
LEMMA StepInv == IInv /\ [Next]_vars => IInv'
<1>1. CASE IInv /\ Next
  <2>1. TypeOK'
    BY <1>1, TypeStep
  <2>2. Counted'
    BY <1>1, <2>1, CountedStep
  <2>3. Reads'
    BY <1>1, <2>1, ReadsStep
  <2>4. Turns'
    BY <1>1, <2>1, TurnsStep
  <2>5. Booked'
    BY <1>1, <2>1, <2>4, BookedStep
  <2>6. Ended'
    BY <1>1, <2>1, <2>4, EndedStep
  <2>7. Accounted'
    BY <1>1, <2>1, <2>4, AccountedStep
  <2>8. Bound'
    BY <1>1, <2>1, <2>4, BoundStep
  <2>9. Justified'
    BY <1>1, <2>1, <2>4, JustifiedStep
  <2> QED BY <2>1, <2>2, <2>3, <2>4, <2>5, <2>6, <2>7, <2>8, <2>9 DEF IInv
<1>2. ASSUME IInv, UNCHANGED vars PROVE IInv'
  <2> USE DEF vars, mongoVars, turnVars, bookVars, capVars
  <2>1. TypeOK'
    BY <1>2 DEF IInv, TypeOK
  <2>2. Counted' /\ Reads'
    BY <1>2 DEF IInv, Counted, Reads, SeenOK, EffectiveCap
  <2>3. Turns'
    BY <1>2 DEF IInv, Turns, Current, Claimed, Fresh, Doc
  <2>4. Booked' /\ Ended'
    BY <1>2 DEF IInv, Booked, BookedAt, Ended, EndedAt
  <2>5. LifeTotal' = LifeTotal /\ RunTotal' = RunTotal /\ Spent' = Spent
    BY <1>2 DEF LifeTotal, RunTotal, Spent, InFlight, Doc
  <2>6. Pending' = Pending
    BY <1>2 DEF Pending
  <2>7. Accounted'
    BY <1>2, <2>5, <2>6 DEF IInv, Accounted
  <2>8. Bound'
    <3>1. ASSUME NEW k \in Nat PROVE Blind(k)' = Blind(k)
      BY <1>2, <2>5 DEF Blind, Asked, Begun, Sight
    <3>2. Active' = Active /\ Calling' = Calling
      BY <1>2 DEF Active, Calling
    <3>3. ASSUME NEW k \in Nat PROVE BoundAt(k)' <=> BoundAt(k)
      BY <1>2, <3>1, <3>2 DEF BoundAt
    <3> QED BY <1>2, <3>3 DEF IInv, Bound
  <2>9. Justified'
    BY <1>2, <2>5 DEF IInv, Justified, EffectiveCap
  <2> QED BY <2>1, <2>2, <2>3, <2>4, <2>7, <2>8, <2>9 DEF IInv
<1> QED BY <1>1, <1>2

\* What the proofs below rest on holds throughout.
THEOREM Inductive == Spec => []IInv
BY InitInv, StepInv, PTL DEF Spec

\* Every variable keeps its type: the documents, what each process remembers,
\* and the checks in progress (TypeOK).
THEOREM TypeCorrect == Spec => []TypeOK
<1>1. IInv => TypeOK
  BY DEF IInv
<1> QED BY <1>1, Inductive, PTL

\* It says of a turn's document what BookedOnce says, ...
LEMMA InvBooked == IInv => BookedOnce
<1> SUFFICES ASSUME IInv, NEW a \in Agent, NEW t \in Turn
             PROVE  LET x == <<a, t>>
                        moving == held[a] = t \/ (turn[a] = t /\ pc[a] = "adding")
                    IN  /\ booked[x] <= 1 \/ x \in unwritten
                        /\ status[x] \in {"complete", "aborted"} =>
                             \/ booked[x] > 0 \/ moving \/ x \in cut
                        /\ x \in cut => booked[x] = 0 \/ x \in unwritten
  BY DEF BookedOnce
<1>1. BookedAt(<<a, t>>)
  BY DEF IInv, Booked
<1>2. EndedAt(a, t)
  BY DEF IInv, Ended
<1> QED BY <1>1, <1>2 DEF BookedAt, EndedAt

\* A turn's cost is added to the agent's lifetime total once, by the turn's end or
\* by the reconciliation of a later turn, whatever dies in between (endTurn and
\* reconcileStaleTurns of agent-stats.ts), for any number of agents and turns.
THEOREM TurnsBookedOnce == Spec => []BookedOnce
BY Inductive, InvBooked, PTL

\* ... and of the highest cap what CapBinds says.
LEMMA InvBinds == IInv => CapBinds
<1> SUFFICES ASSUME IInv PROVE CapBinds
  OBVIOUS
<1> DEFINE c == Cardinality(Active)
<1>1. calls \in Int /\ lapses \in Int /\ lifts \in Nat /\ highCap \in Nat
  BY DEF IInv, TypeOK
<1>2. BoundAt(highCap)
  BY <1>1 DEF IInv, Bound
<1>3. c \in Nat /\ Excess(highCap) \in Nat /\ Excess(highCap) <= c
  BY <1>1, ExcessSize, ExcessMost
<1>4. calls - lapses <= highCap - 1 + c * lifts + Excess(highCap)
  BY <1>1, <1>2, BoundIs
<1>5. CapBinds <=> calls <= highCap - 1 + c * (1 + lifts) + lapses
  BY DEF CapBinds
<1> HIDE DEF c
<1>6. c * (1 + lifts) = c * lifts + c /\ c * lifts \in Int
  BY <1>1, <1>3
<1> DEFINE n == c * lifts
<1>7. calls - lapses <= highCap - 1 + n + Excess(highCap) /\ n \in Int /\ c * (1 + lifts) = n + c
  BY <1>4, <1>6
<1> HIDE DEF n
<1>8. calls <= highCap - 1 + (n + c) + lapses
  BY <1>1, <1>3, <1>7
<1> QED BY <1>5, <1>7, <1>8

\* The cap binds, however many agents and jobs a mission has: beyond it, each makes
\* the call it is in, once more for every pause that was lifted, and the calls that
\* no check saw (enforceMissionCap and the gate, orchestration-callbacks.ts).
THEOREM TheCapBinds == Spec => []CapBinds
BY Inductive, InvBinds, PTL

\* A pause stands only while what was spent has reached the cap, or for one of the
\* named reasons: the routes that raise the cap above the spend lift it (budget.ts).
THEOREM PausesJustified == Spec => []PauseJustified
<1>1. IInv => PauseJustified
  BY DEF IInv, Justified, PauseJustified
<1> QED BY <1>1, Inductive, PTL

=============================================================================
