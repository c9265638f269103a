----------------------------- MODULE Dispatcher -----------------------------
(***************************************************************************)
(* The mission daemon's orchestration loop: orchestrator.ts,               *)
(* orchestrator-dispatch.ts, the mailbox queries it makes, the mail waiter *)
(* it sleeps in, the monitor's step / budget / pause gates and the         *)
(* per-agent cooldown after an LLM error.                                  *)
(*                                                                         *)
(* A dispatch pass walks the roster and starts every agent that has unread *)
(* mail.  It is asynchronous: between two awaits anything else may run, so *)
(* a pass is a small process with a program counter.  Two kinds of caller  *)
(* start one: the loop itself ("main") and fire-and-forget calls ("kick":  *)
(* a run's end, a cooldown's end, the retry timer).                        *)
(***************************************************************************)
EXTENDS Naturals, FiniteSets

CONSTANTS
    NAgents,   \* length of the roster; agents are 1..NAgents in config order
    Msg,       \* mail that may be posted in a behaviour
    Inactive,  \* agents configured with active: false
    MaxRuns,   \* config.maxRuns of the CLI; the daemon's is infinite
    Envs       \* the environments explored; a behaviour happens in one of them

\* What an environment may hold.  "cli": the CLI runs the loop, with neither
\* waitForMail nor the monitor's gates; the others are events it may produce.
\* Besides, an environment holds the mail that may be posted in it.
EnvEvents == {"cli", "pause", "step", "budget", "llmError", "mongo", "crash",
              "sigterm", "stopRoute", "stream"}

ASSUME DispatcherAssumption ==
    /\ NAgents \in Nat \ {0}
    /\ MaxRuns \in Nat \ {0}
    /\ Inactive \subseteq 1..NAgents
    /\ Envs \subseteq SUBSET (EnvEvents \cup Msg)

Agent  == 1..NAgents
Caller == {"main", "kick"}
NoOne  == "nobody"

\* Where a pass can be parked: at the top of the roster loop, at a gate, past a
\* gate, before markRead, and between markRead's effect and startRun.
PassAt == {"idle", "visit", "step", "stepped", "budget", "paid", "mark", "start"}
MainAt == {"down", "dispatch", "redispatch", "wait", "backoff", "drain", "scan",
           "closing", "settling", "ended"}

VARIABLES
    env,       \* the environment of this behaviour; it never changes
    \* the mailbox collection (durable) and what became of each message
    sent,      \* sent[a]: mail addressed to a so far
    unread,    \* unread[a]: mail to a without a in readBy
    handed,    \* handed[a]: mail given to some run of a (history)
    lost,      \* lost[a]: marked read, then never given to a run (history)
    gap,       \* gap[a]: mail only the 15 s poll is there to notice (history)
    \* the monitor server
    stepEnabled, stepWaiter, budgetPaused, paused,
    \* the Dispatcher object
    active,    \* agents with a running turn
    aborted,   \* those whose AbortController has fired
    runs, inFlight, again,
    at, cur, batch,   \* per caller: the pass's position, agent and mail read
    cooling, timer,   \* agents in an LLM-error cooldown; armed cooldown timers
    retry,     \* the retry timer is armed
    scans,     \* scans[a]: checkIdle calls about to query agent a's mail
    \* runOrchestrationLoop and the process
    main, look, snap, event, signal, deadline

mailVars  == <<sent, unread, handed, lost, gap>>
monVars   == <<stepEnabled, stepWaiter, budgetPaused, paused>>
runVars   == <<active, aborted, runs>>
passVars  == <<inFlight, again, at, cur, batch>>
timerVars == <<cooling, timer, retry>>
loopVars  == <<main, look, snap, event>>
procVars  == <<env, signal, deadline>>
vars == <<mailVars, monVars, runVars, passVars, timerVars, scans, loopVars, procVars>>

Daemon == "cli" \notin env

\* The run cap (50 unless configured; without one for the daemon) is reached.
Capped == ~Daemon /\ runs >= MaxRuns

MailTypes ==
    /\ sent \in [Agent -> SUBSET Msg] /\ unread \in [Agent -> SUBSET Msg]
    /\ handed \in [Agent -> SUBSET Msg] /\ lost \in [Agent -> SUBSET Msg]
    /\ gap \in [Agent -> SUBSET Msg]
MonTypes ==
    /\ stepEnabled \in BOOLEAN /\ budgetPaused \in BOOLEAN
    /\ stepWaiter \in Caller \cup {NoOne}
    /\ paused \subseteq Agent
RunTypes == active \subseteq Agent /\ aborted \subseteq Agent /\ runs \in Nat
PassTypes ==
    /\ inFlight \in BOOLEAN /\ again \in BOOLEAN
    /\ at \in [Caller -> PassAt] /\ cur \in [Caller -> Agent]
HeldTypes == batch \in [Caller -> SUBSET Msg]
TimerTypes ==
    /\ cooling \subseteq Agent /\ timer \subseteq Agent /\ retry \in BOOLEAN
    /\ scans \in [Agent -> Nat]
LoopTypes == main \in MainAt /\ look \in Agent /\ snap \subseteq Agent /\ event \in BOOLEAN
ProcTypes == env \in Envs /\ signal \in BOOLEAN /\ deadline \in BOOLEAN

\* Every variable has its type: a pass stays inside the roster, the loop at one of
\* its call sites (orchestrator-dispatch.ts:185-208).
TypeOK == /\ MailTypes /\ MonTypes /\ RunTypes /\ PassTypes /\ HeldTypes
          /\ TimerTypes /\ LoopTypes /\ ProcTypes

\* A fresh process: nothing below the mailbox survives (pausedAgents included).
FreshProcess ==
    /\ stepEnabled' = FALSE /\ stepWaiter' = NoOne
    /\ budgetPaused' = FALSE /\ paused' = {}
    /\ active' = {} /\ aborted' = {} /\ runs' = 0
    /\ inFlight' = FALSE /\ again' = FALSE
    /\ at' = [c \in Caller |-> "idle"] /\ cur' = [c \in Caller |-> 1]
    /\ batch' = [c \in Caller |-> {}]
    /\ cooling' = {} /\ timer' = {} /\ retry' = FALSE
    /\ scans' = [a \in Agent |-> 0]
    /\ main' = "down" /\ look' = 1 /\ snap' = {} /\ event' = FALSE
    /\ signal' = FALSE /\ deadline' = FALSE

Init ==
    /\ env \in Envs
    /\ sent = [a \in Agent |-> {}] /\ unread = [a \in Agent |-> {}]
    /\ handed = [a \in Agent |-> {}] /\ lost = [a \in Agent |-> {}]
    /\ gap = [a \in Agent |-> {}]
    /\ stepEnabled = FALSE /\ stepWaiter = NoOne
    /\ budgetPaused = FALSE /\ paused = {}
    /\ active = {} /\ aborted = {} /\ runs = 0
    /\ inFlight = FALSE /\ again = FALSE
    /\ at = [c \in Caller |-> "idle"] /\ cur = [c \in Caller |-> 1]
    /\ batch = [c \in Caller |-> {}]
    /\ cooling = {} /\ timer = {} /\ retry = FALSE
    /\ scans = [a \in Agent |-> 0]
    /\ main = "down" /\ look = 1 /\ snap = {} /\ event = FALSE
    /\ signal = FALSE /\ deadline = FALSE

-----------------------------------------------------------------------------
(* The main loop's control flow after an awaited dispatchReady() returned.   *)

\* runDaemonMode's and runCliMode's loop conditions, with the agents running at that
\* moment.  "redispatch" is the CLI's call after it saw unread mail and nothing
\* running; if still nothing runs it stops.
AfterDispatch(from, running) ==
    IF Daemon THEN IF signal THEN "closing" ELSE "wait"
    ELSE IF signal \/ (from = "redispatch" /\ running = {}) THEN "closing"
    ELSE IF running # {} THEN "drain" ELSE "scan"

MainReturns(from, running) ==
    /\ main' = AfterDispatch(from, running)
    /\ snap' = IF main' = "drain" THEN running ELSE {}
    /\ look' = 1
    /\ UNCHANGED event

\* Mutant: the do-while never resets dispatchAgainRequested.
EndPassNoReset(c, running) ==
    IF again
    THEN /\ at' = [at EXCEPT ![c] = "visit"] /\ cur' = [cur EXCEPT ![c] = 1]
         /\ UNCHANGED <<inFlight, again, loopVars>>
    ELSE /\ again' = FALSE /\ inFlight' = FALSE
         /\ at' = [at EXCEPT ![c] = "idle"] /\ cur' = [cur EXCEPT ![c] = 1]
         /\ IF c = "main" THEN MainReturns(main, running)
                          ELSE UNCHANGED loopVars

\* The pass owned by c ends; a request coalesced meanwhile restarts it, unless
\* the daemon was aborted (the new pass returns at its first line).
EndPass(c, running) ==
    IF again /\ ~signal
    THEN /\ again' = FALSE
         /\ at' = [at EXCEPT ![c] = "visit"] /\ cur' = [cur EXCEPT ![c] = 1]
         /\ UNCHANGED <<inFlight, loopVars>>
    ELSE /\ again' = FALSE /\ inFlight' = FALSE
         /\ at' = [at EXCEPT ![c] = "idle"] /\ cur' = [cur EXCEPT ![c] = 1]
         /\ IF c = "main" THEN MainReturns(main, running)
                          ELSE UNCHANGED loopVars

\* Mutants: the loop runs past the roster; `continue` became `return`.
AdvancePastEnd(c, running) ==
    /\ at' = [at EXCEPT ![c] = "visit"]
    /\ cur' = [cur EXCEPT ![c] = @ + 1]
    /\ UNCHANGED <<inFlight, again, loopVars>>
AdvanceReturns(c, running) == EndPass(c, running)

\* The roster loop's `continue`.
Advance(c, running) ==
    IF cur[c] < NAgents
    THEN /\ at' = [at EXCEPT ![c] = "visit"]
         /\ cur' = [cur EXCEPT ![c] = @ + 1]
         /\ UNCHANGED <<inFlight, again, loopVars>>
    ELSE EndPass(c, running)

\* Mutant: no in-flight flag.
DispatchReadyUnguarded(c) ==
    IF signal \/ at[c] # "idle" THEN UNCHANGED passVars
    ELSE /\ inFlight' = TRUE /\ again' = FALSE
         /\ at' = [at EXCEPT ![c] = "visit"] /\ cur' = [cur EXCEPT ![c] = 1]
         /\ UNCHANGED batch

\* dispatchReady() called by c: one pass at a time, a call that arrives during a
\* pass only asks for one more; after an abort the pass returns at once.
DispatchReady(c) ==
    IF inFlight THEN again' = TRUE /\ UNCHANGED <<inFlight, at, cur, batch>>
    ELSE IF signal THEN UNCHANGED passVars
    ELSE /\ inFlight' = TRUE /\ again' = FALSE
         /\ at' = [at EXCEPT ![c] = "visit"] /\ cur' = [cur EXCEPT ![c] = 1]
         /\ UNCHANGED batch

\* The main loop calls dispatchReady() (from: which call site) and awaits it; a
\* coalesced or aborted call returns immediately.
MainDispatch(from, running) ==
    /\ DispatchReady("main")
    /\ IF at'["main"] = "visit" /\ at["main"] = "idle"
       THEN main' = from /\ snap' = {} /\ look' = 1 /\ UNCHANGED event
       ELSE MainReturns(from, running)

-----------------------------------------------------------------------------
(* One dispatch pass.                                                        *)

Skips(a) == a \in active \/ a \in paused \/ a \in Inactive \/ a \in cooling

\* cooldown.active() arms the agent's re-dispatch timer; it is the last operand
\* of skips(), reached only when the others are false.
ArmCooldownTimer(a) ==
    timer' = IF a \in cooling /\ a \notin active \cup paused \cup Inactive
             THEN timer \cup {a} ELSE timer

\* Visit the next roster agent: skips(), the maxRuns cap, the first hasUnread
\* query, and the call to waitForStep().
PassVisit(c) ==
    LET a == cur[c] IN
    /\ at[c] = "visit"
    /\ ArmCooldownTimer(a)
    /\ \/ /\ Skips(a) \/ (~Capped /\ unread[a] = {})
          /\ Advance(c, active)
          /\ UNCHANGED stepWaiter
       \/ /\ ~Skips(a) /\ Capped
          /\ EndPass(c, active)
          /\ UNCHANGED stepWaiter
       \/ /\ ~Skips(a) /\ ~Capped /\ unread[a] # {}
          /\ at' = [at EXCEPT ![c] = IF stepEnabled THEN "step" ELSE "stepped"]
          /\ stepWaiter' = IF stepEnabled THEN c ELSE stepWaiter
          /\ UNCHANGED <<inFlight, again, cur, loopVars>>
    /\ UNCHANGED <<mailVars, stepEnabled, budgetPaused, paused, runVars, batch,
                   cooling, retry, scans, procVars>>

\* Past the step gate: an abort ends the pass, else call waitForBudget().
PassBudgetGate(c) ==
    /\ at[c] = "stepped"
    /\ \/ /\ signal /\ Daemon
          /\ EndPass(c, active)
       \/ /\ ~(signal /\ Daemon)
          /\ at' = [at EXCEPT ![c] = IF budgetPaused THEN "budget" ELSE "paid"]
          /\ UNCHANGED <<inFlight, again, cur, loopVars>>
    /\ UNCHANGED <<mailVars, monVars, runVars, batch, timerVars, scans, procVars>>

\* Past the budget gate: an abort ends the pass; else active is checked again
\* (pause and cooldown are not) and the unread mail is listed.
PassList(c) ==
    LET a == cur[c] IN
    /\ at[c] = "paid"
    /\ \/ /\ signal /\ Daemon
          /\ EndPass(c, active) /\ UNCHANGED batch
       \/ /\ ~(signal /\ Daemon)
          /\ a \in active \/ unread[a] = {}
          /\ Advance(c, active) /\ UNCHANGED batch
       \/ /\ ~(signal /\ Daemon) /\ a \notin active /\ unread[a] # {}
          /\ batch' = [batch EXCEPT ![c] = unread[a]]
          /\ at' = [at EXCEPT ![c] = "mark"]
          /\ UNCHANGED <<inFlight, again, cur, loopVars>>
    /\ UNCHANGED <<mailVars, monVars, runVars, timerVars, scans, procVars>>

\* Mutant: mark the whole inbox read instead of the listed messages.
MarkAllRead(a, ids) == unread' = [unread EXCEPT ![a] = {}]

\* markRead by id: mail that arrived after the listing stays unread.
MarkRead(a, ids) == unread' = [unread EXCEPT ![a] = @ \ ids]

PassMark(c) ==
    /\ at[c] = "mark"
    /\ MarkRead(cur[c], batch[c])
    /\ at' = [at EXCEPT ![c] = "start"]
    /\ UNCHANGED <<sent, handed, lost, gap, monVars, runVars, inFlight, again, cur,
                   batch, timerVars, scans, loopVars, procVars>>

\* startRun(): a fresh AbortController and a fire-and-forget runAgent, then the
\* roster loop goes on.
PassStart(c) ==
    LET a == cur[c] IN
    /\ at[c] = "start"
    /\ runs' = runs + 1
    /\ active' = active \cup {a} /\ aborted' = aborted \ {a}
    /\ handed' = [handed EXCEPT ![a] = @ \cup batch[c]]
    /\ batch' = [batch EXCEPT ![c] = {}]
    /\ Advance(c, active')
    /\ UNCHANGED <<sent, unread, lost, gap, monVars, timerVars, scans, procVars>>

\* Mail marked read by a pass that has not started its run yet.
InHand(a) == {m \in Msg : \E c \in Caller : at[c] = "start" /\ cur[c] = a /\ m \in batch[c]}

\* The process goes away: the mail a pass had marked but not started is lost.
ProcessDies(orphaned) ==
    /\ FreshProcess
    /\ lost' = [a \in Agent |-> lost[a] \cup InHand(a) \cup orphaned[a]]
    /\ UNCHANGED <<env, sent, handed, gap>>

NoMail == [a \in Agent |-> {}]

\* A mailbox query of the pass rejects.  markRead may have been applied all the
\* same.  The main loop's own pass takes the daemon down (exit 1); a kicked pass
\* is retried by the retry timer.
PassFails(c) ==
    LET a == cur[c]
        orphaned == [NoMail EXCEPT ![a] = batch[c]] IN
    /\ "mongo" \in env
    /\ \/ at[c] = "visit" /\ ~Skips(a) /\ ~Capped
       \/ at[c] \in {"paid", "mark"}
    /\ \E applied \in BOOLEAN :
         /\ applied => at[c] = "mark"
         /\ IF applied THEN MarkRead(a, batch[c]) ELSE UNCHANGED unread
         /\ LET gone == IF applied THEN orphaned ELSE NoMail IN
            IF c = "main" THEN ProcessDies(gone)
            ELSE /\ lost' = [b \in Agent |-> lost[b] \cup gone[b]]
                 /\ inFlight' = FALSE /\ UNCHANGED again
                 /\ at' = [at EXCEPT ![c] = "idle"] /\ cur' = [cur EXCEPT ![c] = 1]
                 /\ batch' = [batch EXCEPT ![c] = {}]
                 /\ retry' = (retry \/ ~signal)
                 /\ UNCHANGED <<sent, handed, gap, monVars, runVars, cooling, timer,
                                scans, loopVars, procVars>>

PassStep(c) == PassVisit(c) \/ PassBudgetGate(c) \/ PassList(c) \/ PassMark(c)
               \/ PassStart(c)

-----------------------------------------------------------------------------
(* Runs, checkIdle and the timers.                                           *)

\* A run reports an assistant message: cooldown.note().
LlmAnswer(a) ==
    /\ a \in active
    /\ \/ "llmError" \in env /\ cooling' = cooling \cup {a}
       \/ cooling' = cooling \ {a}
    /\ UNCHANGED <<mailVars, monVars, runVars, passVars, timer, retry, scans,
                   loopVars, procVars>>

\* Mutant: a run's end no longer checks the mailbox (issue #48).
CheckIdleNever(running) == UNCHANGED scans

\* checkIdle(): its guard (nothing running, not aborted) is evaluated at the call,
\* its mailbox queries come later.
CheckIdle(running) ==
    scans' = IF running = {} /\ ~signal THEN [scans EXCEPT ![1] = @ + 1] ELSE scans

\* The run's promise settles: the finally block, which kicks checkIdle().  A CLI
\* loop awaiting this run calls dispatchReady() in the same turn of the event loop,
\* before any of those queries returns.
RunEnd(a) ==
    LET running == active \ {a} IN
    /\ a \in active
    /\ active' = running /\ aborted' = aborted \ {a}
    /\ CheckIdle(running)
    /\ IF main = "drain" /\ snap = {a}
       THEN MainDispatch("dispatch", running)
       ELSE snap' = snap \ {a} /\ UNCHANGED <<passVars, main, look, event>>
    /\ UNCHANGED <<mailVars, monVars, runs, timerVars, procVars>>

\* armRunTimeout: the wall-clock limit aborts the run.
RunTimeout(a) ==
    /\ a \in active \ aborted
    /\ aborted' = aborted \cup {a}
    /\ UNCHANGED <<mailVars, monVars, active, runs, passVars, timerVars, scans,
                   loopVars, procVars>>

Checked(a) == [scans EXCEPT ![a] = @ - 1]

\* checkIdle's anyAgentHasUnreadMail(), one agent per query: unread mail starts a
\* pass, none goes on to the next agent, none anywhere is onIdle.
Scan(a) ==
    /\ scans[a] > 0
    /\ IF unread[a] # {}
       THEN scans' = Checked(a) /\ DispatchReady("kick")
       ELSE /\ scans' = IF a < NAgents THEN [Checked(a) EXCEPT ![a + 1] = @ + 1]
                                       ELSE Checked(a)
            /\ UNCHANGED passVars
    /\ UNCHANGED <<mailVars, monVars, runVars, timerVars, loopVars, procVars>>

\* A query of checkIdle rejects: kick() arms the single retry timer.
ScanFails(a) ==
    /\ "mongo" \in env
    /\ scans[a] > 0
    /\ scans' = Checked(a)
    /\ retry' = (retry \/ ~signal)
    /\ UNCHANGED <<mailVars, monVars, runVars, passVars, cooling, timer, loopVars,
                   procVars>>

\* The retry timer fires: checkIdle() again.
RetryFires ==
    /\ retry
    /\ retry' = FALSE
    /\ CheckIdle(active)
    /\ UNCHANGED <<mailVars, monVars, runVars, passVars, cooling, timer, loopVars,
                   procVars>>

\* Time passes the end of a cooldown.
CooldownEnds(a) ==
    /\ a \in cooling
    /\ cooling' = cooling \ {a}
    /\ UNCHANGED <<mailVars, monVars, runVars, passVars, timer, retry, scans,
                   loopVars, procVars>>

\* An armed cooldown timer fires and kicks a pass; the cooldown may have been
\* prolonged since it was armed.
TimerFires(a) ==
    /\ a \in timer
    /\ timer' = timer \ {a}
    /\ DispatchReady("kick")
    /\ UNCHANGED <<mailVars, monVars, runVars, cooling, retry, scans, loopVars,
                   procVars>>

-----------------------------------------------------------------------------
(* The main loop.                                                            *)

\* The process starts (again): provisioning, then the first dispatchReady().
Start ==
    /\ main = "down"
    /\ MainDispatch("dispatch", active)
    /\ UNCHANGED <<mailVars, monVars, runVars, timerVars, scans, procVars>>

\* waitForMail() resolves: the Change Stream saw an insert, the 15 s poll timer
\* fired, or the daemon was aborted.
Wake ==
    /\ main = "wait"
    /\ IF signal
       THEN main' = "closing" /\ event' = FALSE /\ UNCHANGED <<passVars, look, snap>>
       ELSE /\ DispatchReady("main")
            /\ event' = FALSE
            /\ main' = IF inFlight THEN AfterDispatch("dispatch", active)
                                   ELSE "dispatch"
            /\ UNCHANGED <<look, snap>>
    /\ UNCHANGED <<mailVars, monVars, runVars, timerVars, scans, procVars>>

\* The Change Stream errors: inserts are not seen until it is reopened.
StreamFails ==
    /\ "stream" \in env
    /\ main = "wait" /\ ~signal
    /\ main' = "backoff" /\ event' = FALSE
    /\ gap' = [a \in Agent |-> gap[a] \cup unread[a]]
    /\ UNCHANGED <<sent, unread, handed, lost, monVars, runVars, passVars, timerVars,
                   scans, look, snap, procVars>>

BackoffOver ==
    /\ main = "backoff"
    /\ main' = IF signal THEN "closing" ELSE "wait"
    /\ UNCHANGED <<mailVars, monVars, runVars, passVars, timerVars, scans, look, snap,
                   event, procVars>>

\* runCliMode's anyAgentHasUnreadMail() with nothing running: unread mail is
\* dispatched once more, none ends the loop (no TTY).
CliScan ==
    /\ main = "scan"
    /\ IF unread[look] # {}
       THEN MainDispatch("redispatch", active)
       ELSE /\ IF look < NAgents THEN main' = "scan" /\ look' = look + 1
                                 ELSE main' = "closing" /\ look' = 1
            /\ UNCHANGED <<passVars, snap, event>>
    /\ UNCHANGED <<mailVars, monVars, runVars, timerVars, scans, procVars>>

\* The loop is over: abort every running agent and await those promises.
CloseLoop ==
    /\ main = "closing"
    /\ aborted' = active /\ snap' = active
    /\ main' = "settling"
    /\ UNCHANGED <<mailVars, monVars, active, runs, passVars, timerVars, scans, look,
                   event, procVars>>

\* They settled: dispatcher.dispose(), then monitor.stop() opens every gate.
Finish ==
    /\ main = "settling" /\ snap = {}
    /\ main' = "ended"
    /\ timer' = {} /\ retry' = FALSE
    /\ at' = [c \in Caller |-> CASE at[c] = "step" -> "stepped"
                                 [] at[c] = "budget" -> "paid"
                                 [] OTHER -> at[c]]
    /\ stepWaiter' = NoOne
    /\ UNCHANGED <<mailVars, stepEnabled, budgetPaused, paused, runVars, inFlight,
                   again, cur, batch, cooling, scans, look, snap, event, procVars>>

\* process.exit().
Exit ==
    /\ main = "ended"
    /\ ProcessDies(NoMail)
    /\ UNCHANGED unread

-----------------------------------------------------------------------------
(* The environment: mail, the monitor's routes, signals and crashes.         *)

\* A new message: from an agent, the operator, the scheduler or a job.  The CLI
\* has only the initial task and what its own running agents send.
Post(m, to) ==
    /\ m \in env
    /\ \A a \in Agent : m \notin sent[a]
    /\ Daemon \/ main = "down" \/ active # {}
    /\ sent' = [a \in Agent |-> IF a \in to THEN sent[a] \cup {m} ELSE sent[a]]
    /\ unread' = [a \in Agent |-> IF a \in to THEN unread[a] \cup {m} ELSE unread[a]]
    \* With nothing running and no stream open, no later event tells the daemon.
    /\ gap' = IF active = {} /\ main # "wait"
              THEN [a \in Agent |-> IF a \in to THEN gap[a] \cup {m} ELSE gap[a]]
              ELSE gap
    /\ event' = (event \/ main = "wait")
    /\ UNCHANGED <<handed, lost, monVars, runVars, passVars, timerVars, scans, main,
                   look, snap, procVars>>

\* The monitor answers while the process is up; only the daemon has one.
MonitorUp == Daemon /\ main \notin {"down", "ended"}

\* POST /pause-agent and /resume-agent.  A resume dispatches nothing by itself.
PauseAgent(a) ==
    /\ "pause" \in env /\ MonitorUp
    /\ paused' = paused \cup {a}
    /\ UNCHANGED <<mailVars, stepEnabled, stepWaiter, budgetPaused, runVars, passVars,
                   timerVars, scans, loopVars, procVars>>

ResumeAgent(a) ==
    /\ MonitorUp /\ a \in paused
    /\ paused' = paused \ {a}
    /\ gap' = [gap EXCEPT ![a] = @ \cup unread[a]]
    /\ UNCHANGED <<sent, unread, handed, lost, stepEnabled, stepWaiter, budgetPaused,
                   runVars, passVars, timerVars, scans, loopVars, procVars>>

\* Resolve the one stored step resolver.
OpenStepGate ==
    /\ at' = [c \in Caller |-> IF c = stepWaiter THEN "stepped" ELSE at[c]]
    /\ stepWaiter' = NoOne

\* POST /step.
Step ==
    /\ MonitorUp /\ stepWaiter # NoOne
    /\ OpenStepGate
    /\ UNCHANGED <<mailVars, stepEnabled, budgetPaused, paused, runVars, inFlight, again,
                   cur, batch, timerVars, scans, loopVars, procVars>>

\* POST /toggle-step; switching it off releases the waiter.
ToggleStep ==
    /\ "step" \in env /\ MonitorUp
    /\ stepEnabled' = ~stepEnabled
    /\ IF stepEnabled THEN OpenStepGate ELSE UNCHANGED <<at, stepWaiter>>
    /\ UNCHANGED <<mailVars, budgetPaused, paused, runVars, inFlight, again, cur, batch,
                   timerVars, scans, loopVars, procVars>>

\* notifyCostPause(): a run's LLM call reached the mission's spend cap.
CostPause ==
    /\ "budget" \in env /\ MonitorUp /\ active # {} /\ ~budgetPaused
    /\ budgetPaused' = TRUE
    /\ UNCHANGED <<mailVars, stepEnabled, stepWaiter, paused, runVars, passVars,
                   timerVars, scans, loopVars, procVars>>

\* resumeBudget(): the operator raised or cleared the cap.
ResumeBudget ==
    /\ MonitorUp /\ budgetPaused
    /\ budgetPaused' = FALSE
    /\ at' = [c \in Caller |-> IF at[c] = "budget" THEN "paid" ELSE at[c]]
    /\ UNCHANGED <<mailVars, stepEnabled, stepWaiter, paused, runVars, inFlight, again,
                   cur, batch, timerVars, scans, loopVars, procVars>>

\* POST /stop: the abort signal fires, and with it every run listening to it.
StopRoute ==
    /\ "stopRoute" \in env /\ MonitorUp /\ ~signal
    /\ signal' = TRUE
    /\ aborted' = active
    /\ UNCHANGED <<env, deadline, mailVars, monVars, active, runs, passVars, timerVars,
                   scans, loopVars>>

\* SIGTERM, SIGINT or an uncaught error does the same and arms the 30 s deadline.
Sigterm ==
    /\ "sigterm" \in env /\ main # "down" /\ ~deadline
    /\ signal' = TRUE /\ deadline' = TRUE
    /\ aborted' = IF signal THEN aborted ELSE active
    /\ UNCHANGED <<env, mailVars, monVars, active, runs, passVars, timerVars, scans,
                   loopVars>>

\* SHUTDOWN_DEADLINE_MS elapsed, or a second signal came.
ForcedExit ==
    /\ deadline
    /\ ProcessDies(NoMail)
    /\ UNCHANGED unread

Crash ==
    /\ "crash" \in env /\ main # "down"
    /\ ProcessDies(NoMail)
    /\ UNCHANGED unread

-----------------------------------------------------------------------------
PassNext == \E c \in Caller : PassStep(c) \/ PassFails(c)
RunNext  == \E a \in Agent : LlmAnswer(a) \/ RunEnd(a) \/ RunTimeout(a)
IdleNext == \/ RetryFires
            \/ \E a \in Agent : \/ Scan(a) \/ ScanFails(a)
                                \/ CooldownEnds(a) \/ TimerFires(a)
MainNext == \/ Start \/ Wake \/ StreamFails \/ BackoffOver \/ CliScan
            \/ CloseLoop \/ Finish \/ Exit
EnvNext  == \/ \E m \in Msg, to \in SUBSET Agent \ {{}} : Post(m, to)
            \/ \E a \in Agent : PauseAgent(a) \/ ResumeAgent(a)
            \/ Step \/ ToggleStep \/ CostPause \/ ResumeBudget
            \/ StopRoute \/ Sigterm \/ ForcedExit \/ Crash

Next == PassNext \/ RunNext \/ IdleNext \/ MainNext \/ EnvNext

Spec == Init /\ [][Next]_vars

(* What the event loop and its timers guarantee: queries return, timers fire, *)
(* an aborted run settles, the main loop goes on.  Nothing is assumed of the  *)
(* operator, of senders, of the LLM or of failures.                           *)
Fairness ==
    /\ \A c \in Caller : WF_vars(PassStep(c))
    /\ \A a \in Agent : /\ WF_vars(Scan(a)) /\ WF_vars(CooldownEnds(a))
                        /\ WF_vars(TimerFires(a)) /\ WF_vars(RunTimeout(a))
                        /\ WF_vars(a \in aborted /\ RunEnd(a))
    /\ WF_vars(RetryFires) /\ WF_vars(Start) /\ WF_vars(Wake) /\ WF_vars(BackoffOver)
    /\ WF_vars(CliScan) /\ WF_vars(CloseLoop) /\ WF_vars(Finish) /\ WF_vars(Exit)
    /\ WF_vars(ForcedExit)

FairSpec == Spec /\ Fairness

-----------------------------------------------------------------------------
(* Properties.                                                               *)

Parked(c) == at[c] # "idle"

\* dispatchReady() coalesces calls: never two passes at once, so one dispatch
\* never asks the step or budget gate twice (orchestrator-dispatch.ts:46-49), and
\* the monitor's single resolver slot belongs to the pass parked at the step gate
\* -- otherwise POST /step could not release it, or would move a pass that has
\* gone on.
OnePass ==
    \A c \in Caller : /\ Parked(c) => inFlight /\ \A d \in Caller \ {c} : ~Parked(d)
                      /\ at[c] = "step" <=> stepWaiter = c

\* An agent whose mail a pass holds is not running: a turn never starts beside
\* another turn of the same agent, however long the pass was parked at a gate.
OneTurnPerAgent ==
    \A c \in Caller : at[c] \in {"mark", "start"} => cur[c] \notin active

\* Every message addressed to an agent is unread, in a pass's hands, given to a
\* run, or lost to a failure between markRead and startRun -- and only one of
\* them: no mail is handed over twice, none is marked read without being read.
MailAccounted ==
    \A a \in Agent :
      /\ sent[a] = unread[a] \cup InHand(a) \cup handed[a] \cup lost[a]
      /\ unread[a] \cap (InHand(a) \cup handed[a] \cup lost[a]) = {}
      /\ InHand(a) \cap (handed[a] \cup lost[a]) = {}
      /\ handed[a] \cap lost[a] = {}

\* What a pass listed stays unread until that pass marks it, however long it takes
\* (nobody else reads an agent's mail while a pass holds it), and only a pass that
\* is about to mark or to start a run holds anything.
HeldMail ==
    \A c \in Caller :
      /\ at[c] = "mark" => batch[c] \subseteq unread[cur[c]]
      /\ at[c] \in {"mark", "start"} <=> batch[c] # {}

\* The daemon keeps the promise of MailDelivery: mail a pass has marked and not yet
\* started is still to be given (the code's readBy says otherwise), a turn is
\* started once with the mail of one pass, and a failure between markRead and
\* startRun costs one agent's mail and no more (orchestrator-dispatch.ts:185-208).
Pending == [a \in Agent |-> unread[a] \cup InHand(a)]

Delivery == INSTANCE MailDelivery WITH pending <- Pending, running <- active

DeliveryKept == Delivery!Spec

\* Nothing is going on and nothing but the poll is going to happen by itself.
Quiet == /\ main = "wait" /\ ~event /\ ~signal
         /\ active = {} /\ timer = {} /\ ~retry
         /\ \A c \in Caller : ~Parked(c)
         /\ \A a \in Agent : scans[a] = 0

\* Mail that arrived during a turn never waits in a sleeping daemon (issue #48,
\* checkIdle): once everything is quiet, what a dispatchable agent has unread came
\* in while no turn ran and no stream was open, or while the agent was paused.
QuietMeansDrained ==
    Quiet => \A a \in Agent \ (Inactive \cup paused) : unread[a] \subseteq gap[a]

\* A dispatch pass is held at a gate by the operator or by the spend cap.
AtGate == \E c \in Caller : at[c] \in {"step", "budget"}

\* Environments in which no query and no Change Stream fails.
Reliable == env \cap {"mongo", "stream"} = {}

\* Unread mail of a dispatchable agent is eventually given to a run, whatever the
\* order of inserts, wake-ups, turns, LLM errors and cooldowns, unless the agent
\* is paused, a gate is closed or the daemon stops.  (A stream that fails each
\* time it is opened keeps resetting the 15 s poll: mail-waiter.ts:35-67.)
MailEventuallyRead ==
    \A a \in Agent \ Inactive : \A m \in Msg :
      Daemon /\ Reliable /\ m \in unread[a] ~> (m \notin unread[a] \/ a \in paused \/ AtGate \/ signal)

\* A stop request ends the process, unless the main loop's own pass is held at a
\* gate: no turn, timer, query or kicked pass keeps a stopped daemon alive.
StopEnds == signal ~> (~signal \/ at["main"] \in {"step", "budget"})
=============================================================================
