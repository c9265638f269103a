------------------------------ MODULE Copilot ------------------------------
(***************************************************************************)
(* One user's copilot in the control plane: the runtime that keeps one     *)
(* daemon for the user (copilot-runtime.ts), the daemon's loop over the    *)
(* user's mail (copilot-daemon.ts), one guarded turn (copilot-turn.ts,     *)
(* copilot-spend.ts), the waker that starts a daemon when mail arrives     *)
(* (copilot-waker.ts), the routes that post mail, change the model and     *)
(* confirm proposals (copilot-router.ts, copilot-pending-routes.ts), and   *)
(* the idle sweep (index.ts).                                              *)
(*                                                                         *)
(* Mail, cards and spend are in MongoDB and survive the process; every     *)
(* daemon, start and request under way dies with it.                       *)
(***************************************************************************)
EXTENDS Naturals

CONSTANTS
  Msg,         \* the mail addressed to the copilot
  Daemon,      \* daemon instances: one runs, others wind down after a stop
  Card,        \* proposed actions
  Tab,         \* cockpit tabs that confirm them
  MaxAttempts, \* MAX_ATTEMPTS_PER_BATCH
  MaxFaults, MaxOps, \* bounds: failures, and stops of a daemon
  Envs         \* the environments explored: the events that may happen

Events == {"relay", "die", "mongo", "lose", "crash", "yaml", "throw",
           "settings", "evict", "cap", "cards"}

ASSUME CopilotAssumption ==
  /\ MaxAttempts \in Nat \ {0} /\ MaxFaults \in Nat /\ MaxOps \in Nat
  /\ Envs \subseteq SUBSET Events
  /\ "none" \notin Daemon /\ "none" \notin Card

VARIABLES
  env,
  \* MongoDB
  mail,       \* of each message: not yet posted, unread, read
  overCap,    \* the copilot's spend has reached its cap
  card,       \* copilotPendingActions
  \* the runtime
  registered, \* the handle in the daemons map
  starting,   \* starts in flight
  fresh,      \* lastActive is within COPILOT_IDLE_MS
  posting,    \* POST /message has stored the mail and not yet woken a daemon
  event,      \* an insert event is on its way to the waker
  route,      \* POST /settings: idle, or saving the model after its busy check
  found,      \* the card a tab's request to confirm has looked up
  taken,      \* ... and has taken, to carry it out
  \* each daemon
  pc, batch,
  stopped,    \* its abort signal
  cut,        \* the stop reached the turn under way through its guard
  failed,     \* failedTurns
  \* history
  fate,       \* what has been made of a message
  tries,      \* how many failed turns a message was in, up to MaxAttempts
  executed,   \* how often a card was carried out
  ops, faults \* bounds

mongoVars   == <<mail, overCap>>
runtimeVars == <<registered, starting, fresh, posting, event, route>>
loopVars    == <<pc, batch, stopped, cut, failed>>
mailHistory == <<fate, tries>>
cardVars    == <<card, found, taken, executed>>
bounds      == <<ops, faults>>
vars == <<env, mongoVars, runtimeVars, loopVars, mailHistory, cardVars, bounds>>

None   == "none"
Free   == {"none", "ended", "dead", "returned"}
Busy(d) == pc[d] \in {"turn", "mark", "backoff"}
Unread == {m \in Msg : mail[m] = "unread"}
Fates  == {"handled", "stopped", "capped", "aside", "cut", "quiet"}
NoRequests == [t \in Tab |-> None]

Init ==
  /\ env \in Envs
  /\ mail = [m \in Msg |-> "none"] /\ overCap = FALSE
  /\ card = [c \in Card |-> "none"] /\ found = NoRequests /\ taken = NoRequests
  /\ registered = None /\ starting = 0 /\ fresh = FALSE
  /\ posting = {} /\ event = FALSE /\ route = "idle"
  /\ pc = [d \in Daemon |-> "none"] /\ batch = [d \in Daemon |-> {}]
  /\ stopped = [d \in Daemon |-> FALSE] /\ cut = [d \in Daemon |-> FALSE]
  /\ failed = [d \in Daemon |-> 0]
  /\ fate = [m \in Msg |-> {}] /\ tries = [m \in Msg |-> 0]
  /\ executed = [c \in Card |-> 0]
  /\ ops = 0 /\ faults = 0

Fault(kind) == kind \in env /\ faults < MaxFaults /\ faults' = faults + 1
Go(d, where) == pc' = [pc EXCEPT ![d] = where]

-----------------------------------------------------------------------------
(* The runtime *)

\* Mutant: two callers each start a daemon.
EnsureStartsAgain ==
  /\ fresh' = TRUE
  /\ IF registered # None /\ pc[registered] # "dead"
       THEN UNCHANGED <<registered, starting>>
       ELSE registered' = None /\ starting' = starting + 1

\* Mutant: a crashed daemon's handle still counts as running.
EnsureTrustsHandle ==
  /\ fresh' = TRUE
  /\ IF registered # None
       THEN UNCHANGED <<registered, starting>>
       ELSE registered' = None /\ starting' = IF starting = 0 THEN 1 ELSE starting

\* ensureCopilotRunning: a live handle is left alone, a dead one is replaced,
\* and whoever comes while a start is in flight waits for that one.
Ensure ==
  /\ fresh' = TRUE
  /\ IF registered # None /\ pc[registered] # "dead"
       THEN UNCHANGED <<registered, starting>>
       ELSE registered' = None /\ starting' = IF starting = 0 THEN 1 ELSE starting

\* start: the user's model is read, then the daemon starts and is registered.
Start(d) ==
  /\ starting > 0 /\ pc[d] \in Free /\ d # registered
  /\ starting' = starting - 1
  /\ \/ /\ registered' = d /\ Go(d, "boot")
        /\ batch' = [batch EXCEPT ![d] = {}] /\ failed' = [failed EXCEPT ![d] = 0]
        /\ stopped' = [stopped EXCEPT ![d] = FALSE]
        /\ cut' = [cut EXCEPT ![d] = FALSE] /\ UNCHANGED faults
     \/ Fault("mongo") /\ UNCHANGED <<registered, loopVars>>
  /\ UNCHANGED <<env, mongoVars, fresh, posting, event, route, mailHistory,
                 cardVars, ops>>

\* A handle's stop(), then forgotten.  A turn under way hears it through its
\* guard; one that has not begun listens to a signal that has already fired.
StopDaemon ==
  /\ registered' = None
  /\ stopped' = [d \in Daemon |-> stopped[d] \/ d = registered]
  /\ cut' = [d \in Daemon |-> cut[d] \/ (d = registered /\ pc[d] = "turn")]

Idle ==
  /\ "evict" \in env /\ fresh /\ fresh' = FALSE
  /\ UNCHANGED <<env, mongoVars, registered, starting, posting, event, route,
                 loopVars, mailHistory, cardVars, bounds>>

\* Mutant: the sweep does not ask whether a turn is running.
EvictAny ==
  /\ "evict" \in env /\ ops < MaxOps /\ ops' = ops + 1
  /\ registered # None /\ ~fresh
  /\ StopDaemon
  /\ UNCHANGED <<env, mongoVars, starting, fresh, posting, event, route, pc,
                 batch, failed, mailHistory, cardVars, faults>>

EvictIdle ==
  /\ "evict" \in env /\ ops < MaxOps /\ ops' = ops + 1
  /\ registered # None /\ ~Busy(registered) /\ ~fresh
  /\ StopDaemon
  /\ UNCHANGED <<env, mongoVars, starting, fresh, posting, event, route, pc,
                 batch, failed, mailHistory, cardVars, faults>>

-----------------------------------------------------------------------------
(* Mail, the waker, and the settings *)

\* POST /message: refused at the cap; stored before a daemon is looked for.
Message(m) ==
  /\ mail[m] = "none" /\ ~overCap
  /\ mail' = [mail EXCEPT ![m] = "unread"]
  /\ posting' = posting \cup {m} /\ event' = TRUE
  /\ UNCHANGED <<env, overCap, registered, starting, fresh, route, loopVars,
                 mailHistory, cardVars, bounds>>

MessageWakes(m) ==
  /\ m \in posting /\ posting' = posting \ {m} /\ Ensure
  /\ UNCHANGED <<env, mongoVars, event, route, loopVars, mailHistory, cardVars, bounds>>

\* Relayed anomalies, reports and scheduled messages are only stored.
Relay(m) ==
  /\ "relay" \in env /\ mail[m] = "none"
  /\ mail' = [mail EXCEPT ![m] = "unread"] /\ event' = TRUE
  /\ UNCHANGED <<env, overCap, registered, starting, fresh, posting, route,
                 loopVars, mailHistory, cardVars, bounds>>

\* The waker's stream reports inserts, of mail read by now perhaps.
WakerEvent ==
  /\ event /\ event' = FALSE /\ Ensure
  /\ UNCHANGED <<env, mongoVars, posting, route, loopVars, mailHistory, cardVars, bounds>>

\* The stream broke, or the insert fell where no stream was open.
EventLost ==
  /\ "lose" \in env /\ event /\ event' = FALSE
  /\ UNCHANGED <<env, mongoVars, registered, starting, fresh, posting, route,
                 loopVars, mailHistory, cardVars, bounds>>

\* At start, after the stream is reopened, and every five minutes.
WakerScan ==
  /\ Unread # {} /\ Ensure
  /\ UNCHANGED <<env, mongoVars, posting, event, route, loopVars, mailHistory,
                 cardVars, bounds>>

\* POST /settings: refused while a turn runs; then the model is saved.
SettingsCheck ==
  /\ "settings" \in env /\ route = "idle" /\ ops < MaxOps /\ ops' = ops + 1
  /\ registered # None => ~Busy(registered)
  /\ route' = "saving"
  /\ UNCHANGED <<env, mongoVars, registered, starting, fresh, posting, event,
                 loopVars, mailHistory, cardVars, faults>>

SettingsStop ==
  /\ route = "saving" /\ route' = "idle" /\ StopDaemon
  /\ UNCHANGED <<env, mongoVars, starting, fresh, posting, event, pc, batch,
                 failed, mailHistory, cardVars, bounds>>

-----------------------------------------------------------------------------
(* A daemon's loop *)

\* runWatchLoop up to its loop: the model is resolved (or throws, and the
\* handle is dead), copilot.yaml is read (or the function returns: G-11).
Boot(d) ==
  /\ pc[d] = "boot"
  /\ \/ Go(d, "check") /\ UNCHANGED faults
     \/ Fault("crash") /\ Go(d, IF stopped[d] THEN "ended" ELSE "dead")
     \/ Fault("yaml") /\ Go(d, "returned")
  /\ UNCHANGED <<env, mongoVars, runtimeVars, batch, stopped, cut, failed,
                 mailHistory, cardVars, ops>>

\* The loop's head: the signal, then hasUnread, whose failure reads as none.
Check(d) ==
  /\ pc[d] = "check"
  /\ \/ stopped[d] /\ Go(d, "ended") /\ UNCHANGED faults
     \/ ~stopped[d] /\ Go(d, IF Unread # {} THEN "list" ELSE "wait") /\ UNCHANGED faults
     \/ ~stopped[d] /\ Fault("mongo") /\ Go(d, "wait")
  /\ UNCHANGED <<env, mongoVars, runtimeVars, batch, stopped, cut, failed,
                 mailHistory, cardVars, ops>>

\* An insert, the poll timer or a stop ends the wait; a stream error retries.
Wake(d) ==
  /\ pc[d] = "wait"
  /\ \/ Go(d, "list") /\ UNCHANGED faults
     \/ Fault("mongo") /\ Go(d, "check")
  /\ UNCHANGED <<env, mongoVars, runtimeVars, batch, stopped, cut, failed,
                 mailHistory, cardVars, ops>>

\* The signal again, then listUnread, whose failure reads as no mail.
List(d) ==
  /\ pc[d] = "list"
  /\ \/ stopped[d] /\ Go(d, "ended") /\ UNCHANGED <<batch, faults>>
     \/ /\ ~stopped[d] /\ batch' = [batch EXCEPT ![d] = Unread]
        /\ Go(d, IF Unread # {} THEN "cap" ELSE "check") /\ UNCHANGED faults
     \/ ~stopped[d] /\ Fault("mongo") /\ Go(d, "check") /\ UNCHANGED batch
  /\ UNCHANGED <<env, mongoVars, runtimeVars, stopped, cut, failed,
                 mailHistory, cardVars, ops>>

Becomes(d, what) == fate' = [m \in Msg |-> fate[m] \cup {f \in {what} : m \in batch[d]}]

\* copilotCapReached, which fails open: the batch is dropped and reported, or
\* the turn begins.  Nothing asks here whether the daemon has been stopped.
CheckCap(d) ==
  /\ pc[d] = "cap"
  /\ \/ overCap /\ Becomes(d, "capped") /\ Go(d, "drop") /\ UNCHANGED faults
     \/ ~overCap /\ Go(d, "turn") /\ UNCHANGED <<fate, faults>>
     \/ overCap /\ Fault("mongo") /\ Go(d, "turn") /\ UNCHANGED fate
  /\ UNCHANGED <<env, mongoVars, runtimeVars, batch, stopped, cut, failed,
                 tries, cardVars, ops>>

\* An LLM call of a turn takes the spend to the cap; the user raises the cap.
Spend ==
  /\ "cap" \in env /\ \E d \in Daemon : pc[d] = "turn"
  /\ ~overCap /\ overCap' = TRUE
  /\ UNCHANGED <<env, mail, runtimeVars, loopVars, mailHistory, cardVars, bounds>>

RaiseCap ==
  /\ overCap /\ ops < MaxOps /\ ops' = ops + 1 /\ overCap' = FALSE
  /\ UNCHANGED <<env, mail, runtimeVars, loopVars, mailHistory, cardVars, faults>>

\* The turn returns: done; stopped by its guard at the cap or at the wall
\* clock, which is reported unless the daemon was stopped; or ended by the
\* daemon's stop, and not reported.
TurnEnds(d) ==
  /\ pc[d] = "turn"
  /\ \/ Becomes(d, "handled")
     \/ ~cut[d] /\ Becomes(d, IF stopped[d] THEN "quiet" ELSE "stopped")
     \/ cut[d] /\ Becomes(d, "cut")
  /\ Go(d, "mark") /\ failed' = [failed EXCEPT ![d] = 0]
  /\ UNCHANGED <<env, mongoVars, runtimeVars, batch, stopped, cut, tries,
                 cardVars, bounds>>

\* Mutant: failures are counted, and retried without end.
ThrowsForever(d) ==
  /\ "throw" \in env /\ pc[d] = "turn" /\ ~cut[d]
  /\ failed' = [failed EXCEPT ![d] = @ + 1]
  /\ Go(d, IF stopped[d] THEN "check" ELSE "backoff")
  /\ UNCHANGED <<env, mongoVars, runtimeVars, batch, stopped, cut,
                 mailHistory, cardVars, bounds>>

\* The turn throws and its guard has not stopped it.
TurnThrows(d) ==
  /\ "throw" \in env /\ pc[d] = "turn" /\ ~cut[d]
  /\ IF stopped[d]
       THEN Go(d, "check") /\ UNCHANGED <<failed, fate, tries>>
       ELSE /\ tries' = [m \in Msg |-> IF m \in batch[d] /\ tries[m] < MaxAttempts
                                         THEN tries[m] + 1 ELSE tries[m]]
            /\ IF failed[d] + 1 >= MaxAttempts
                 THEN Becomes(d, "aside") /\ Go(d, "mark")
                      /\ failed' = [failed EXCEPT ![d] = 0]
                 ELSE failed' = [failed EXCEPT ![d] = @ + 1] /\ Go(d, "backoff")
                      /\ UNCHANGED fate
  /\ UNCHANGED <<env, mongoVars, runtimeVars, batch, stopped, cut, cardVars, bounds>>

Backoff(d) ==
  /\ pc[d] = "backoff" /\ Go(d, "check")
  /\ UNCHANGED <<env, mongoVars, runtimeVars, batch, stopped, cut, failed,
                 mailHistory, cardVars, bounds>>

\* markTurnRead, whose failure leaves the batch to be handled again.
MarkRead(d) ==
  /\ pc[d] \in {"mark", "drop"}
  /\ \/ /\ mail' = [m \in Msg |-> IF m \in batch[d] THEN "read" ELSE mail[m]]
        /\ UNCHANGED faults
     \/ Fault("mongo") /\ UNCHANGED mail
  /\ Go(d, "check")
  /\ UNCHANGED <<env, overCap, runtimeVars, batch, stopped, cut, failed,
                 mailHistory, cardVars, ops>>

\* The control plane restarts: a deploy, a crash, an out-of-memory kill.
Restart ==
  /\ Fault("die")
  /\ registered' = None /\ starting' = 0 /\ fresh' = FALSE
  /\ posting' = {} /\ event' = FALSE /\ route' = "idle"
  /\ pc' = [d \in Daemon |-> "none"] /\ batch' = [d \in Daemon |-> {}]
  /\ stopped' = [d \in Daemon |-> FALSE] /\ cut' = [d \in Daemon |-> FALSE]
  /\ failed' = [d \in Daemon |-> 0] /\ found' = NoRequests /\ taken' = NoRequests
  /\ UNCHANGED <<env, mongoVars, mailHistory, card, executed, ops>>

-----------------------------------------------------------------------------
(* Proposed actions *)

\* ProposeAction, a tool of the turn.
Propose(c) ==
  /\ "cards" \in env /\ \E d \in Daemon : pc[d] = "turn"
  /\ card[c] = "none" /\ card' = [card EXCEPT ![c] = "open"]
  /\ UNCHANGED <<env, mongoVars, runtimeVars, loopVars, mailHistory, found,
                 taken, executed, bounds>>

\* POST /confirm: the card is looked up (404 when gone) ...
Confirm(t, c) ==
  /\ found[t] = None /\ taken[t] = None /\ card[c] = "open"
  /\ found' = [found EXCEPT ![t] = c]
  /\ UNCHANGED <<env, mongoVars, runtimeVars, loopVars, mailHistory, card,
                 taken, executed, bounds>>

\* Mutant: the card that was looked up is carried out, then deleted.
TakeLater(t, c) ==
  /\ found[t] = c /\ found' = [found EXCEPT ![t] = None]
  /\ card' = [card EXCEPT ![c] = "claimed"] /\ taken' = [taken EXCEPT ![t] = c]
  /\ UNCHANGED <<env, mongoVars, runtimeVars, loopVars, mailHistory, executed, bounds>>

\* ... taken with findOneAndDelete (409 when somebody was faster) ...
Take(t, c) ==
  /\ found[t] = c /\ found' = [found EXCEPT ![t] = None]
  /\ IF card[c] = "open"
       THEN /\ card' = [card EXCEPT ![c] = "claimed"]
            /\ taken' = [taken EXCEPT ![t] = c]
       ELSE UNCHANGED <<card, taken>>
  /\ UNCHANGED <<env, mongoVars, runtimeVars, loopVars, mailHistory, executed, bounds>>

\* ... and carried out, or fails; it is gone either way.
Execute(t, c) ==
  /\ taken[t] = c /\ taken' = [taken EXCEPT ![t] = None]
  /\ executed' = [executed EXCEPT ![c] = @ + 1]
  /\ UNCHANGED <<env, mongoVars, runtimeVars, loopVars, mailHistory, card,
                 found, bounds>>

\* POST /dismiss, and the collection's expiry after a week.
Dismiss(c) ==
  /\ card[c] = "open" /\ card' = [card EXCEPT ![c] = "dismissed"]
  /\ UNCHANGED <<env, mongoVars, runtimeVars, loopVars, mailHistory, found,
                 taken, executed, bounds>>

-----------------------------------------------------------------------------
DaemonStep(d) ==
  \/ Boot(d) \/ Check(d) \/ Wake(d) \/ List(d) \/ CheckCap(d) \/ TurnEnds(d)
  \/ TurnThrows(d) \/ Backoff(d) \/ MarkRead(d)

Next ==
  \/ \E m \in Msg : Message(m) \/ MessageWakes(m) \/ Relay(m)
  \/ WakerEvent \/ EventLost \/ WakerScan
  \/ SettingsCheck \/ SettingsStop \/ Idle \/ EvictIdle
  \/ Spend \/ RaiseCap \/ Restart
  \/ \E d \in Daemon : Start(d) \/ DaemonStep(d)
  \/ \E c \in Card : Propose(c) \/ Dismiss(c)
  \/ \E t \in Tab, c \in Card : Confirm(t, c) \/ Take(t, c) \/ Execute(t, c)

\* A turn ends at its wall-clock bound at the latest, a wait at the poll timer,
\* a start when its read returns; the waker scans every five minutes.
Fairness ==
  /\ \A d \in Daemon : WF_vars(DaemonStep(d))
  /\ WF_vars(\E d \in Daemon : Start(d))
  /\ WF_vars(WakerScan)

Spec == Init /\ [][Next]_vars /\ Fairness

-----------------------------------------------------------------------------
(* Properties *)

MailTypes ==
  /\ mail \in [Msg -> {"none", "unread", "read"}] /\ overCap \in BOOLEAN
  /\ fate \in [Msg -> SUBSET Fates] /\ tries \in [Msg -> 0 .. MaxAttempts]
RuntimeTypes ==
  /\ registered \in Daemon \cup {None} /\ starting \in Nat
  /\ fresh \in BOOLEAN /\ event \in BOOLEAN
  /\ posting \subseteq Msg /\ route \in {"idle", "saving"}
LoopTypes ==
  /\ pc \in [Daemon -> Free \cup {"boot", "check", "wait", "list", "cap", "drop",
                                  "turn", "mark", "backoff"}]
  /\ batch \in [Daemon -> SUBSET Msg]
  /\ stopped \in [Daemon -> BOOLEAN] /\ cut \in [Daemon -> BOOLEAN]
  /\ failed \in [Daemon -> 0 .. MaxAttempts]
CardTypes ==
  /\ card \in [Card -> {"none", "open", "claimed", "dismissed"}]
  /\ found \in [Tab -> Card \cup {None}] /\ taken \in [Tab -> Card \cup {None}]
  /\ executed \in [Card -> Nat]
BoundTypes == env \in Envs /\ ops \in 0 .. MaxOps /\ faults \in 0 .. MaxFaults

\* Every variable holds a value of its kind.
TypeOK == MailTypes /\ RuntimeTypes /\ LoopTypes /\ CardTypes /\ BoundTypes

Live(d) == pc[d] \notin Free /\ ~stopped[d]

\* However messages, wake-ups, scans, crashes, stops and slow starts interleave,
\* a daemon that has not been stopped is the one in the runtime's map, so a
\* user never has two (copilot-runtime.ts, the "starting" map).
OneLiveDaemon ==
  \A d \in Daemon : Live(d) => d = registered /\ starting = 0

\* At most one turn of a user's copilot runs: a change of model or an idle
\* sweep never stops a daemon that is about to run one (copilot-router.ts, the
\* busy guard of POST /settings).
OneTurn ==
  \A d, e \in Daemon : pc[d] = "turn" /\ pc[e] = "turn" => d = e

\* Mail is marked read only after a turn with it was finished, or was stopped,
\* refused or given up with a report to the user.  Lost without a word is only
\* what a change of model cut in a turn begun after its busy check, and what a
\* turn that outlived the stop of its daemon left at the cap.
ReadIsAccounted ==
  \A m \in Msg :
    /\ mail[m] = "read" => fate[m] # {}
    /\ "cut" \in fate[m] => "settings" \in env
    /\ "quiet" \in fate[m] => "settings" \in env \/ "evict" \in env
    /\ "aside" \in fate[m] => tries[m] > 0

\* The daemon in the map has returned without a word (the known gap G-11).
Gone == registered # None /\ pc[registered] = "returned"

\* Every message is read in the end: no lost event, failed read, crash, stop or
\* failing turn strands it.
EventuallyRead == \A m \in Msg : mail[m] = "unread" ~> mail[m] = "read" \/ Gone

\* However tabs confirm and dismiss a card and the process restarts in between,
\* it is carried out at most once, and never once it was dismissed.
CardOnce ==
  \A c \in Card :
    /\ card[c] # "claimed" => executed[c] = 0 /\ \A t \in Tab : taken[t] # c
    /\ executed[c] # 0 => executed[c] = 1 /\ \A t \in Tab : taken[t] # c
    /\ \A t, u \in Tab : taken[t] = c /\ taken[u] = c => t = u

=============================================================================
