------------------------------- MODULE Spend -------------------------------
(***************************************************************************)
(* What a mission spends on LLM calls, how it is accounted for, and the    *)
(* cap that pauses the mission: agent-stats.ts (one document per turn, one *)
(* total per agent), the cap check after every reply of an agent's loop    *)
(* (orchestration-callbacks.ts), the per-agent limits, the gate before     *)
(* every call, and the operator's routes that move the cap (budget.ts).    *)
(*                                                                         *)
(* A call costs one unit.  The documents are in MongoDB and survive the    *)
(* daemon; the accumulators, the pause and the failure counters do not.    *)
(***************************************************************************)
EXTENDS Integers, FiniteSets, Functions

CONSTANTS
  Agent,      \* the mission's agents
  Job,        \* background jobs that call an LLM through the Tool API
  Owner,      \* Owner[j]: the agent a job's calls are charged to
  BootCap,    \* the cap of the boot-time configuration
  Ceiling,    \* maxCostCeilingUsd
  AddUsd,     \* what POST /extend-budget adds
  TurnLimit,  \* maxCostPerTurnUsd
  LifeLimit,  \* maxLifetimeCostUsd
  FailClosedAfter, \* CAP_CHECK_FAIL_CLOSED_AFTER
  MaxTurns, MaxCalls, MaxOps, MaxFaults,  \* bounds
  Envs        \* the environments explored: spenders and events

Events == {"die", "mongo", "operator", "save", "reflect", "tool"}
Spender == Agent \cup Job

ASSUME SpendAssumption ==
  /\ Agent # {} /\ IsFiniteSet(Agent) /\ IsFiniteSet(Job)
  /\ Agent \cap Job = {} /\ "operator" \notin Spender
  /\ Owner \in [Job -> Agent]
  /\ BootCap \in Nat \ {0} /\ Ceiling \in Nat \ {0} /\ AddUsd \in Nat \ {0}
  /\ TurnLimit \in Nat /\ LifeLimit \in Nat /\ FailClosedAfter \in Nat \ {0}
  /\ MaxTurns \in Nat /\ MaxCalls \in Nat /\ MaxOps \in Nat /\ MaxFaults \in Nat
  /\ Envs \subseteq SUBSET (Spender \cup Events)

Turn   == 1 .. MaxTurns
NoCap  == 0
Unread == -1
Operator == "operator"
Reader == Spender \cup {Operator}

VARIABLES
  env,
  \* MongoDB
  status, cost, \* agentTurnStats: of every agent's every turn
  life,         \* missionStats: lifetimeCostUsd
  cap,          \* mission.maxCostUsd of the stored configuration
  \* the daemon
  paused,       \* budgetPaused
  check,        \* CapCheckState of the agents' checks and of the jobs'
  pc, turn, acc,\* where a spender is; the turn's number and accumulator
  held,         \* the stale turn reconcileStaleTurns has claimed
  tool,         \* the call at hand is a tool's (Research, vision), not the loop's
  seen,         \* what a check, or the operator's route, has read so far
  op,           \* the operator's route at work
  \* history
  calls,        \* every call answered
  booked,       \* how often a turn's cost was added to the lifetime total
  cut,          \* turns whose end was written and their cost never added
  unwritten,    \* turns whose end could not be written
  torn,         \* readers that have read around a cost between its two places
  highCap,      \* the highest cap ever in force
  lifts,        \* pauses lifted: by the operator's routes, by a restart
  lapses,       \* calls that no check saw, or saw too late
  misled,       \* why the pause may be unjustified
  used          \* bounds: operations of the operator, faults

mongoVars == <<status, cost, life>>
turnVars  == <<turn, acc, held, tool>>
bookVars  == <<booked, cut, unwritten>>
capVars   == <<cap, highCap, op>>
vars == <<env, mongoVars, capVars, paused, check, pc, turnVars, seen,
          calls, bookVars, torn, lifts, lapses, misled, used>>

Nothing == [life |-> Unread, turns |-> Unread, cap |-> Unread]
Active  == env \cap Spender
InTurn  == {"reconcile", "claimed", "opening", "gate", "calling", "recording",
            "checking", "tools", "closing", "adding"}
Causes  == {"stale", "unverified", "saved", "cut"}

\* missionLifetimeCostUsd of readMissionSnapshot, were it one read.
LifeTotal == SumFunction(life)
RunTotal  == SumFunction([x \in Agent \X Turn |->
                           IF status[x] = "running" THEN cost[x] ELSE 0])
EffectiveCap(c) == IF c = NoCap THEN BootCap ELSE c

Init ==
  /\ env \in Envs
  /\ status = [x \in Agent \X Turn |-> "none"]
  /\ cost = [x \in Agent \X Turn |-> 0] /\ life = [a \in Agent |-> 0]
  /\ cap \in {NoCap, BootCap} /\ highCap = BootCap
  /\ paused = FALSE
  /\ check = [w \in {"loop", "job"} |-> [failures |-> 0, alerted |-> FALSE]]
  /\ pc = [s \in Spender |-> "idle"]
  /\ turn = [a \in Agent |-> 0] /\ acc = [a \in Agent |-> 0]
  /\ held = [a \in Agent |-> 0] /\ tool = [a \in Agent |-> FALSE]
  /\ seen = [r \in Reader |-> Nothing] /\ op = "idle"
  /\ calls = 0 /\ booked = [x \in Agent \X Turn |-> 0]
  /\ cut = {} /\ unwritten = {} /\ torn = {}
  /\ lifts = 0 /\ lapses = 0 /\ misled = {}
  /\ used = [ops |-> 0, faults |-> 0]

Go(s, where) == pc' = [pc EXCEPT ![s] = where]
Fault  == "mongo" \in env /\ used.faults < MaxFaults
          /\ used' = [used EXCEPT !.faults = @ + 1]
Lapse(n) == lapses' = lapses + n
Doc(a) == <<a, turn[a]>>
\* A turn's cost has left its document and is not in the total yet.
InTransit == \E a \in Agent : pc[a] \in {"adding", "claimed"}
\* ... which tears the snapshot of whoever has read one of the two.
Tear == torn' = torn \cup {r \in Reader : seen[r].life # Unread \/ seen[r].turns # Unread}

-----------------------------------------------------------------------------
(* A turn's start *)

\* The dispatcher starts a run; its gate is waitForBudget.
Dispatch(a) ==
  /\ a \in env /\ pc[a] = "idle" /\ turn[a] < MaxTurns /\ ~paused
  /\ Go(a, "prepare")
  /\ UNCHANGED <<env, mongoVars, capVars, paused, check, turnVars, seen, calls,
                 bookVars, torn, lifts, lapses, misled, used>>

\* A reflection runs before the turn, through neither the gate nor a check.
Reflect(a) ==
  /\ "reflect" \in env /\ pc[a] = "prepare" /\ calls < MaxCalls
  /\ calls' = calls + 1 /\ Lapse(1) /\ Go(a, "charging")
  /\ UNCHANGED <<env, mongoVars, capVars, paused, check, turnVars, seen,
                 bookVars, torn, lifts, misled, used>>

\* recordOutOfTurnCost; a failure is logged, and the cost is missing.
Charge(s) ==
  LET a == IF s \in Job THEN Owner[s] ELSE s
  IN  /\ pc[s] = "charging"
      /\ \/ life' = [life EXCEPT ![a] = @ + 1] /\ UNCHANGED <<lapses, used>>
         \/ Fault /\ Lapse(1) /\ UNCHANGED life
      /\ Go(s, IF s \in Job THEN "checking" ELSE "ready")
      /\ UNCHANGED <<env, status, cost, capVars, paused, check, turnVars, seen,
                     calls, bookVars, torn, lifts, misled>>

StartTurn(a) ==
  /\ pc[a] \in {"prepare", "ready"}
  /\ turn' = [turn EXCEPT ![a] = @ + 1] /\ acc' = [acc EXCEPT ![a] = 0]
  /\ Go(a, "reconcile")
  /\ UNCHANGED <<env, mongoVars, capVars, paused, check, held, tool, seen, calls,
                 bookVars, torn, lifts, lapses, misled, used>>

Stale(a) == {t \in Turn \ {turn[a]} : status[<<a, t>>] = "running"}

\* reconcileStaleTurns, per turn: running -> aborted first, then its cost.
Claim(a) ==
  /\ pc[a] = "reconcile"
  /\ \E t \in Stale(a) :
       /\ status' = [status EXCEPT ![<<a, t>>] = "aborted"]
       /\ held' = [held EXCEPT ![a] = t]
  /\ Go(a, "claimed") /\ Tear
  /\ UNCHANGED <<env, cost, life, capVars, paused, check, turn, acc, tool, seen,
                 calls, bookVars, lifts, lapses, misled, used>>

AddClaimed(a) ==
  LET x == <<a, held[a]>>
  IN  /\ pc[a] = "claimed"
      /\ \/ /\ life' = [life EXCEPT ![a] = @ + cost[x]]
            /\ booked' = [booked EXCEPT ![x] = @ + 1]
            /\ Go(a, "reconcile") /\ UNCHANGED <<cut, lapses, misled, used>>
         \/ /\ Fault /\ Lapse(cost[x]) /\ cut' = cut \cup {x}
            /\ misled' = misled \cup {"cut"} /\ Go(a, "opening")
            /\ UNCHANGED <<life, booked>>
      /\ held' = [held EXCEPT ![a] = 0]
      /\ UNCHANGED <<env, status, cost, capVars, paused, check, turn, acc, tool,
                     seen, calls, unwritten, torn, lifts>>

\* persist of the new turn's document; a failure is logged, the turn goes on.
OpenTurn(a) ==
  /\ \/ pc[a] = "opening"
     \/ pc[a] = "reconcile" /\ Stale(a) = {}
  /\ \/ /\ status' = [status EXCEPT ![Doc(a)] = "running"]
        /\ cost' = [cost EXCEPT ![Doc(a)] = 0] /\ UNCHANGED used
     \/ Fault /\ UNCHANGED <<status, cost>>
  /\ tool' = [tool EXCEPT ![a] = FALSE] /\ Go(a, "gate")
  /\ UNCHANGED <<env, life, capVars, paused, check, turn, acc, held, seen, calls,
                 bookVars, torn, lifts, lapses, misled>>

-----------------------------------------------------------------------------
(* LLM calls and the checks after them *)

\* Mutant: a gate at the turn's start only: a turn under way is not stopped.
GateOnlyAtStart(a) ==
  /\ pc[a] = "gate" /\ (paused => acc[a] > 0)
  /\ Go(a, "calling")
  /\ UNCHANGED <<env, mongoVars, capVars, paused, check, turnVars, seen, calls,
                 bookVars, torn, lifts, lapses, misled, used>>

\* budgetGate, before every call of the loop and of a Research sub-loop.
PassGate(a) ==
  /\ pc[a] = "gate" /\ ~paused
  /\ Go(a, "calling")
  /\ UNCHANGED <<env, mongoVars, capVars, paused, check, turnVars, seen, calls,
                 bookVars, torn, lifts, lapses, misled, used>>

\* Tool API: a job's LLM tool is refused while the mission is paused.
JobCall(j) ==
  /\ j \in env /\ pc[j] = "idle" /\ ~paused
  /\ Go(j, "calling")
  /\ UNCHANGED <<env, mongoVars, capVars, paused, check, turnVars, seen, calls,
                 bookVars, torn, lifts, lapses, misled, used>>

\* The provider has answered: the money is spent.
Answer(s) ==
  /\ pc[s] = "calling" /\ calls < MaxCalls
  /\ calls' = calls + 1
  /\ IF s \in Job
     THEN Go(s, "charging") /\ UNCHANGED <<acc, lapses>>
     ELSE /\ acc' = [acc EXCEPT ![s] = @ + 1] /\ Go(s, "recording")
          /\ lapses' = lapses + IF tool[s] THEN 1 ELSE 0
  /\ UNCHANGED <<env, mongoVars, capVars, paused, check, turn, held, tool, seen,
                 bookVars, torn, lifts, misled, used>>

\* createLimitEnforcer: a hard limit; an unreadable lifetime counts as zero.
Breach(a, lifetime) == acc[a] > TurnLimit \/ lifetime + acc[a] > LifeLimit

\* recordLlmCall, then the limits.  A breach throws before the reply reaches
\* onMessage, so the mission's cap is not checked; nor is it after a tool's call.
Record(a) ==
  /\ pc[a] = "recording"
  /\ \E written \in BOOLEAN, lifetime \in {life[a], 0} :
       LET over == Breach(a, lifetime)
           unchecked == over /\ ~tool[a]
       IN  /\ IF written
              THEN /\ status' = [status EXCEPT ![Doc(a)] = "running"]
                   /\ cost' = [cost EXCEPT ![Doc(a)] = acc[a]]
              ELSE UNCHANGED <<status, cost>>
           /\ IF written /\ lifetime = life[a] THEN UNCHANGED used ELSE Fault
           /\ Lapse((IF written THEN 0 ELSE 1) + (IF unchecked THEN 1 ELSE 0))
           /\ Go(a, IF over THEN "closing"
                    ELSE IF tool[a] THEN "tools" ELSE "checking")
  /\ UNCHANGED <<env, life, capVars, paused, check, turnVars, seen, calls,
                 bookVars, torn, lifts, misled>>

Reading(r) == IF r = Operator THEN op \in {"extend", "set"} ELSE pc[r] = "checking"

\* readMissionSnapshot reads the totals and the running turns side by side, and
\* enforceMissionCap the configuration beside both.
Read(r, part) ==
  /\ Reading(r) /\ seen[r][part] = Unread
  /\ r = Operator /\ part # "cap" => seen[r].cap # Unread
  /\ seen' = [seen EXCEPT ![r][part] =
                CASE part = "life"  -> LifeTotal
                  [] part = "turns" -> RunTotal
                  [] part = "cap"   -> cap]
  /\ torn' = IF part # "cap" /\ InTransit THEN torn \cup {r} ELSE torn
  /\ UNCHANGED <<env, mongoVars, capVars, paused, check, pc, turnVars, calls,
                 bookVars, lifts, lapses, misled, used>>

HasRead(r) == \A part \in {"life", "turns", "cap"} : seen[r][part] # Unread
Saw(r) == seen[r].life + seen[r].turns
Done(r) == seen' = [seen EXCEPT ![r] = Nothing] /\ torn' = torn \ {r}

Whose(s) == IF s \in Job THEN "job" ELSE "loop"
AfterCheck(s) == Go(s, IF s \in Job THEN "idle" ELSE "tools")
StaleNow(c) == IF LifeTotal + RunTotal < EffectiveCap(c) THEN {"stale"} ELSE {}

\* enforceMissionCap.  The return of a repeated alert skips the counter's reset.
CheckCap(s) ==
  LET over == Saw(s) >= EffectiveCap(seen[s].cap)
      state == check[Whose(s)]
  IN  /\ pc[s] = "checking" /\ HasRead(s)
      /\ \/ /\ ~over /\ UNCHANGED <<paused, misled>>
            /\ Lapse(IF s \in torn THEN 1 ELSE 0)
            /\ check' = [check EXCEPT ![Whose(s)].failures = 0]
         \/ /\ over /\ paused' = TRUE /\ UNCHANGED lapses
            /\ misled' = IF paused THEN misled ELSE StaleNow(cap)
            /\ \/ check' = [check EXCEPT ![Whose(s)] =
                              [failures |-> 0, alerted |-> TRUE]]
               \/ state.alerted /\ UNCHANGED check  \* within CAP_ALERT_DEDUPE_MS
      /\ AfterCheck(s) /\ Done(s)
      /\ UNCHANGED <<env, mongoVars, capVars, turnVars, calls, bookVars, lifts, used>>

\* Mutant: the counter is not reset by the pause it causes.
CheckNeverResets(s) ==
  LET n == check[Whose(s)].failures + 1
  IN  /\ pc[s] = "checking" /\ Fault /\ Lapse(1)
      /\ check' = [check EXCEPT ![Whose(s)].failures = n]
      /\ IF n >= FailClosedAfter
         THEN /\ paused' = TRUE /\ misled' = misled \cup {"unverified"}
         ELSE UNCHANGED <<paused, misled>>
      /\ AfterCheck(s) /\ Done(s)
      /\ UNCHANGED <<env, mongoVars, capVars, turnVars, calls, bookVars, lifts>>

\* The last of FailClosedAfter failures in a row pauses the mission.
CheckFails(s) ==
  LET n == check[Whose(s)].failures + 1
  IN  /\ pc[s] = "checking" /\ Fault /\ Lapse(1)
      /\ check' = [check EXCEPT ![Whose(s)].failures = n % FailClosedAfter]
      /\ IF n = FailClosedAfter THEN /\ paused' = TRUE /\ misled' = misled \cup {"unverified"}
                  ELSE UNCHANGED <<paused, misled>>
      /\ AfterCheck(s) /\ Done(s)
      /\ UNCHANGED <<env, mongoVars, capVars, turnVars, calls, bookVars, lifts>>

\* The loop goes round, or a tool that calls an LLM runs.
NextCall(a) ==
  /\ pc[a] = "tools"
  /\ \E t \in IF "tool" \in env THEN BOOLEAN ELSE {FALSE} :
       tool' = [tool EXCEPT ![a] = t]
  /\ Go(a, "gate")
  /\ UNCHANGED <<env, mongoVars, capVars, paused, check, turn, acc, held, seen,
                 calls, bookVars, torn, lifts, lapses, misled, used>>

-----------------------------------------------------------------------------
(* A turn's end *)

\* No more calls, or the run was aborted, also while parked at the gate.
EndTurn(a) ==
  /\ pc[a] \in {"tools", "gate"} /\ Go(a, "closing")
  /\ UNCHANGED <<env, mongoVars, capVars, paused, check, turnVars, seen, calls,
                 bookVars, torn, lifts, lapses, misled, used>>

\* Mutant: the final document is written with its old status.
CloseUnmarked(a) ==
  /\ pc[a] = "closing"
  /\ cost' = [cost EXCEPT ![Doc(a)] = acc[a]]
  /\ Go(a, "adding") /\ Tear
  /\ UNCHANGED <<env, status, life, capVars, paused, check, turnVars, seen, calls,
                 bookVars, lifts, lapses, misled, used>>

\* endTurn: the final document first ...
CloseTurn(a) ==
  /\ pc[a] = "closing"
  /\ \/ /\ status' = [status EXCEPT ![Doc(a)] = "complete"]
        /\ cost' = [cost EXCEPT ![Doc(a)] = acc[a]] /\ UNCHANGED <<unwritten, used>>
     \/ Fault /\ unwritten' = unwritten \cup {Doc(a)} /\ UNCHANGED <<status, cost>>
  /\ Go(a, "adding") /\ Tear
  /\ UNCHANGED <<env, life, capVars, paused, check, turnVars, seen, calls,
                 booked, cut, lifts, lapses, misled>>

\* ... then the total, once; a failure is logged.
AddTurn(a) ==
  /\ pc[a] = "adding"
  /\ \/ /\ life' = [life EXCEPT ![a] = @ + acc[a]]
        /\ booked' = [booked EXCEPT ![Doc(a)] = @ + 1]
        /\ UNCHANGED <<cut, lapses, misled, used>>
     \/ /\ Fault /\ Lapse(acc[a]) /\ UNCHANGED <<life, booked>>
        /\ cut' = cut \cup ({Doc(a)} \ unwritten) /\ misled' = misled \cup {"cut"}
  /\ acc' = [acc EXCEPT ![a] = 0] /\ Go(a, "idle")
  /\ UNCHANGED <<env, status, cost, capVars, paused, check, turn, held, tool,
                 seen, calls, unwritten, torn, lifts>>

\* What the daemon knew of and no document holds.
Unsaved(a) == IF pc[a] = "claimed" THEN cost[<<a, held[a]>>]
              ELSE IF pc[a] = "adding" THEN acc[a]
              ELSE IF pc[a] \in InTurn
                   THEN acc[a] - IF status[Doc(a)] = "running" THEN cost[Doc(a)] ELSE 0
              ELSE IF pc[a] = "charging" THEN 1 ELSE 0

\* The daemon dies and starts again; its pause dies with it.
Die ==
  /\ "die" \in env /\ used.faults < MaxFaults
  /\ used' = [used EXCEPT !.faults = @ + 1]
  /\ cut' = cut \cup {<<a, held[a]>> : a \in {b \in Agent : pc[b] = "claimed"}}
                \cup ({Doc(a) : a \in {b \in Agent : pc[b] = "adding"}} \ unwritten)
  /\ Lapse(SumFunction([a \in Agent |-> Unsaved(a)])
           + Cardinality({j \in Job : pc[j] = "charging"}))
  /\ pc' = [s \in Spender |-> "idle"] /\ paused' = FALSE /\ lifts' = lifts + 1
  /\ check' = [w \in {"loop", "job"} |-> [failures |-> 0, alerted |-> FALSE]]
  /\ acc' = [a \in Agent |-> 0] /\ held' = [a \in Agent |-> 0]
  /\ tool' = [a \in Agent |-> FALSE]
  /\ seen' = [r \in Reader |-> Nothing] /\ torn' = {} /\ op' = "idle"
  /\ misled' = {}
  /\ UNCHANGED <<env, mongoVars, cap, highCap, turn, calls, booked, unwritten>>

-----------------------------------------------------------------------------
(* The cap's writers *)

Operation == /\ "operator" \in env /\ used.ops < MaxOps
             /\ used' = [used EXCEPT !.ops = @ + 1]
WriteCap(c) == /\ cap' = c
               /\ highCap' = IF c > highCap THEN c ELSE highCap
Lift == /\ paused' = FALSE /\ misled' = {}
        /\ lifts' = lifts + IF paused THEN 1 ELSE 0

\* POST /extend-budget: read the cap, read the spend, ...
Extend ==
  /\ op = "idle" /\ Operation /\ op' = "extend"
  /\ UNCHANGED <<env, mongoVars, cap, highCap, paused, check, pc, turnVars, seen,
                 calls, bookVars, torn, lifts, lapses, misled>>

\* ... write the sum (capAfterExtend), unless it is above the ceiling, ...
ExtendWrite ==
  LET c == (IF seen[Operator].cap = NoCap THEN Saw(Operator) ELSE seen[Operator].cap)
           + AddUsd
  IN  /\ op = "extend" /\ HasRead(Operator)
      /\ IF c <= Ceiling THEN WriteCap(c) /\ op' = "resume"
                         ELSE op' = "idle" /\ UNCHANGED <<cap, highCap>>
      /\ Done(Operator)
      /\ UNCHANGED <<env, mongoVars, paused, check, pc, turnVars, calls, bookVars,
                     lifts, lapses, misled, used>>

\* Mutant: the extension writes the cap and leaves the pause to the next check.
ExtendOnlyWrites ==
  /\ op = "resume" /\ op' = "idle"
  /\ UNCHANGED <<env, mongoVars, cap, highCap, paused, check, pc, turnVars, seen,
                 calls, bookVars, torn, lifts, lapses, misled, used>>

\* ... and resume, whatever was spent.
ExtendResume ==
  /\ op = "resume" /\ op' = "idle" /\ Lift
  /\ UNCHANGED <<env, mongoVars, cap, highCap, check, pc, turnVars, seen, calls,
                 bookVars, torn, lapses, used>>

\* POST /set-budget: write first; a paused mission's spend is then read afresh.
SetCap ==
  /\ op = "idle" /\ Operation
  /\ \E c \in 1 .. Ceiling :
       /\ WriteCap(c)
       /\ IF paused THEN /\ op' = "set"
                         /\ seen' = [seen EXCEPT ![Operator].cap = c]
                    ELSE UNCHANGED <<op, seen>>
  /\ UNCHANGED <<env, mongoVars, paused, check, pc, turnVars, calls, bookVars,
                 torn, lifts, lapses, misled>>

SetResume ==
  /\ op = "set" /\ HasRead(Operator) /\ op' = "idle" /\ Done(Operator)
  /\ IF seen[Operator].cap > Saw(Operator) THEN Lift
     ELSE misled' = misled \cup StaleNow(cap) /\ UNCHANGED <<paused, lifts>>
  /\ UNCHANGED <<env, mongoVars, cap, highCap, check, pc, turnVars, calls,
                 bookVars, lapses, used>>

\* SaveMissionConfig, or a cockpit edit whose live apply failed: the cap only.
SaveCap ==
  /\ "save" \in env /\ used.ops < MaxOps /\ used' = [used EXCEPT !.ops = @ + 1]
  /\ \E c \in 1 .. Ceiling :
       /\ WriteCap(c)
       /\ misled' = IF c > EffectiveCap(cap) THEN misled \cup {"saved"} ELSE misled
  /\ UNCHANGED <<env, mongoVars, op, paused, check, pc, turnVars, seen, calls,
                 bookVars, torn, lifts, lapses>>

-----------------------------------------------------------------------------
TurnStep(a) ==
  \/ Dispatch(a) \/ Reflect(a) \/ StartTurn(a) \/ Claim(a) \/ AddClaimed(a)
  \/ OpenTurn(a) \/ PassGate(a) \/ Record(a) \/ NextCall(a)
  \/ EndTurn(a) \/ CloseTurn(a) \/ AddTurn(a)
CallStep(s) == Charge(s) \/ Answer(s) \/ CheckCap(s) \/ CheckFails(s)
OperatorStep == Extend \/ ExtendWrite \/ ExtendResume \/ SetCap \/ SetResume \/ SaveCap

Next ==
  \/ \E a \in Agent : TurnStep(a)
  \/ \E j \in Job : JobCall(j)
  \/ \E s \in Spender : CallStep(s)
  \/ \E r \in Reader, part \in {"life", "turns", "cap"} : Read(r, part)
  \/ OperatorStep
  \/ Die

Spec == Init /\ [][Next]_vars

-----------------------------------------------------------------------------
(* Properties *)

\* Every variable keeps its type: the durable counters, what each process remembers,
\* and the checks in progress.
TypeOK ==
  /\ env \in Envs
  /\ status \in [Agent \X Turn -> {"none", "running", "complete", "aborted"}]
  /\ cost \in [Agent \X Turn -> 0 .. MaxCalls]
  /\ life \in [Agent -> Nat]
  /\ cap \in 0 .. Ceiling \cup {BootCap} /\ highCap \in Nat
  /\ paused \in BOOLEAN /\ op \in {"idle", "extend", "resume", "set"}
  /\ check \in [{"loop", "job"} -> [failures: 0 .. FailClosedAfter - 1, alerted: BOOLEAN]]
  /\ pc \in [Spender -> InTurn \cup {"idle", "prepare", "charging", "ready"}]
  /\ turn \in [Agent -> 0 .. MaxTurns] /\ acc \in [Agent -> 0 .. MaxCalls]
  /\ held \in [Agent -> 0 .. MaxTurns] /\ tool \in [Agent -> BOOLEAN]
  /\ seen \in [Reader -> [life: Int, turns: Int, cap: Int]]
  /\ calls \in 0 .. MaxCalls /\ booked \in [Agent \X Turn -> Nat]
  /\ cut \subseteq Agent \X Turn /\ unwritten \subseteq Agent \X Turn
  /\ torn \subseteq Reader /\ lifts \in Nat /\ lapses \in Int
  /\ misled \subseteq Causes
  /\ used \in [ops: 0 .. MaxOps, faults: 0 .. MaxFaults]

\* A turn's cost goes into the agent's lifetime total once, by the turn's own
\* end or by the reconciliation of a later turn, whatever dies between the two
\* writes of either (agent-stats.ts: endTurn, reconcileStaleTurns).  Twice only
\* if the turn's end could not be written; never only if the daemon died, or the
\* write failed, between the end and the addition.
BookedOnce ==
  \A a \in Agent, t \in Turn :
    LET x == <<a, t>>
        moving == held[a] = t \/ (turn[a] = t /\ pc[a] = "adding")
    IN  /\ booked[x] <= 1 \/ x \in unwritten
        /\ status[x] \in {"complete", "aborted"} =>
             \/ booked[x] > 0 \/ moving \/ x \in cut
        /\ x \in cut => booked[x] = 0 \/ x \in unwritten

\* The cap binds: from the moment it is reached every spender makes at most the
\* call it is in, once more for every time the pause is lifted, and for calls that
\* no check saw (a tool's, a reflection's, one cut short by a limit, one not
\* recorded, one read while its cost was between the two documents).
CapBinds ==
  calls <= highCap - 1 + Cardinality(Active) * (1 + lifts) + lapses

\* A pause that was right when it was set stands only while its reason does: the
\* routes that raise the cap above the spend lift it.  The named exceptions are
\* a check that had read before the cap was raised, one that could not be made, a
\* raise by a configuration save, and spend lost from the totals.
InFlight(a) == IF pc[a] = "claimed" THEN cost[<<a, held[a]>>]
               ELSE IF pc[a] = "adding" /\ status[Doc(a)] # "running" THEN acc[a]
               ELSE 0
Spent == LifeTotal + RunTotal + SumFunction([a \in Agent |-> InFlight(a)])
PauseJustified ==
  paused /\ op = "idle" => Spent >= EffectiveCap(cap) \/ misled # {}

\* "All agents are paused until the cap is raised or cleared."
\* (orchestration-callbacks.ts): with no failure and no save beside the routes,
\* a mission whose cap is above its spend is not paused.
PausedUntilRaised ==
  paused /\ op = "idle" /\ misled \subseteq {"stale"} => Spent >= EffectiveCap(cap)
=============================================================================
