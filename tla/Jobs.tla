-------------------------------- MODULE Jobs --------------------------------
(***************************************************************************)
(* Background jobs of a mission: job-runner.ts, job-recovery.ts and        *)
(* job-processes.ts.                                                       *)
(*                                                                         *)
(* A job is a spec file that moves between directories: pending/ (written  *)
(* by agents), queue/ (written by the daemon), running/, and a status      *)
(* record.  The daemon works on one file at a time, but every move is a    *)
(* write followed by a delete, and the daemon may die between the two.     *)
(* The files survive; the process table, the timers and the posts in       *)
(* flight do not, and the job's processes die with the mission's machine.  *)
(***************************************************************************)
EXTENDS Naturals, FiniteSets

CONSTANTS
    Job,            \* job ids: uuids, and <label>-<dueAt> for a schedule's fire
    MaxAttempts,    \* MAX_JOB_RECOVERY_ATTEMPTS
    MaxConcurrent,  \* MAX_CONCURRENT_JOBS
    MaxDeaths,      \* bound on the daemon's deaths
    Envs            \* the environments explored; a behaviour happens in one of them

\* What an environment may hold: the ids of the jobs of the behaviour, "submit" (by
\* agents), "enqueue" (by the daemon itself: a schedule's fire) and events.
EnvEvents == {"submit", "enqueue", "withdraw", "restart", "cancel", "refuse", "die",
              "mongo", "killFails"}

ASSUME JobsAssumption ==
    /\ MaxAttempts \in Nat /\ MaxDeaths \in Nat
    /\ MaxConcurrent \in Nat \ {0}
    /\ IsFiniteSet(Job)
    /\ Envs \subseteq SUBSET (EnvEvents \cup Job)

Outcome == {"none", "ok", "failed", "cancelled", "poisoned"}
Source  == {"pending", "queue"}
\* Where the daemon is in the file operation it is busy with: after the first of
\* two writes of a recovery, a fail-out or a claim, before the spawn, between the
\* two halves of an exit, or awaiting the post about a failed-out job.
Doing == {"nothing", "requeued", "failedOut", "telling", "copied", "starting", "closing"}

VARIABLES
    env,
    \* files
    pending, queued, qTries,   \* specs waiting; recoveryAttempts of those in queue/
    blank,                     \* submissions still being written: an empty file
    running, rTries,           \* specs in running/, with their recoveryAttempts
    status,                    \* status[j]: the private status record
    whole,                     \* specs that name an agent and carry their arguments
    \* the daemon
    phase, listed,             \* boot phase; file names read from each directory
    doing, subject, source, verdict,  \* the operation under way
    slots,                     \* runningJobs
    proc, armed, cancelled,    \* job processes, their timeout timers, cancelledJobs
    posting,                   \* completion posts in flight
    \* history
    known, runs, deaths,
    told,      \* jobs whose outcome reached the mailbox
    dropped,   \* withdrawn, cut while being written, or refused with a log line only
    lost,      \* finished, but the daemon died before it wrote the status
    torn       \* claims cut between their copy and their delete

fileVars   == <<pending, blank, queued, qTries, running, rTries, status, whole>>
opVars     == <<phase, listed, doing, subject, source, verdict>>
procVars   == <<slots, proc, armed, cancelled>>
countVars  == <<known, runs, deaths>>
fateVars   == <<told, dropped, lost, torn>>
vars == <<env, fileVars, opVars, procVars, posting, countVars, fateVars>>

Listing == Source \cup {"running"}
NoListing == [d \in Listing |-> {}]

FileTypes ==
    /\ pending \subseteq Job /\ blank \subseteq Job /\ queued \subseteq Job
    /\ running \subseteq Job
    /\ qTries \in [Job -> 0..MaxAttempts] /\ rTries \in [Job -> 0..MaxAttempts]
    /\ status \in [Job -> Outcome] /\ whole \subseteq Job
OpTypes ==
    /\ phase \in {"down", "recovering", "up"}
    /\ listed \in [Listing -> SUBSET Job]
    /\ doing \in Doing /\ subject \in Job /\ source \in Source /\ verdict \in Outcome
ProcTypes ==
    /\ slots \in Nat /\ proc \in [Job -> {"none", "live", "ok", "bad"}]
    /\ armed \subseteq Job /\ cancelled \subseteq Job
FateTypes ==
    /\ env \in Envs /\ posting \subseteq Job
    /\ known \subseteq Job /\ runs \in [Job -> Nat] /\ deaths \in Nat
    /\ told \subseteq Job /\ dropped \subseteq Job /\ lost \subseteq Job /\ torn \subseteq Job

\* Every variable has its type; no spec ever carries more recoveryAttempts than
\* recoverOrphanedJobs allows (job-recovery.ts:147-218).
TypeOK == FileTypes /\ OpTypes /\ ProcTypes /\ FateTypes

Init ==
    /\ env \in Envs
    /\ pending = {} /\ blank = {} /\ queued = {} /\ running = {} /\ whole = {}
    /\ qTries = [j \in Job |-> 0] /\ rTries = [j \in Job |-> 0]
    /\ status = [j \in Job |-> "none"]
    /\ phase = "down" /\ listed = NoListing
    /\ doing = "nothing" /\ subject \in Job /\ source = "queue" /\ verdict = "none"
    /\ slots = 0 /\ proc = [j \in Job |-> "none"] /\ armed = {} /\ cancelled = {}
    /\ posting = {}
    /\ known = {} /\ runs = [j \in Job |-> 0] /\ deaths = 0
    /\ told = {} /\ dropped = {} /\ lost = {} /\ torn = {}

-----------------------------------------------------------------------------
(* Submissions.                                                              *)

\* submit-job.sh, run by an agent's turn or by a job: a fresh id in pending/.  The
\* shell creates the file, and the script prints the spec into it when it is done.
Submit(j) ==
    /\ "submit" \in env /\ j \in env \ known
    /\ phase = "up"
    /\ pending' = pending \cup {j} /\ blank' = blank \cup {j}
    /\ whole' = whole \cup {j} /\ known' = known \cup {j}
    /\ UNCHANGED <<env, queued, qTries, running, rTries, status, opVars, procVars,
                   posting, runs, deaths, fateVars>>

SpecWritten(j) ==
    /\ j \in blank \ dropped
    /\ blank' = blank \ {j}
    /\ UNCHANGED <<env, pending, queued, qTries, running, rTries, status, whole,
                   opVars, procVars, posting, countVars, fateVars>>

\* The agent removes its spec; the daemon may be in the middle of claiming it.
Withdraw(j) ==
    /\ "withdraw" \in env /\ j \in pending \ blank
    /\ pending' = pending \ {j} /\ dropped' = dropped \cup {j}
    /\ UNCHANGED <<env, blank, queued, qTries, running, rTries, status, whole, opVars,
                   procVars, posting, countVars, told, lost, torn>>

\* The event loop is between two callbacks.
Idle == phase = "up" /\ doing = "nothing" /\ listed = NoListing

\* enqueuePrivateJob: a new file in queue/.
EnqueuePrivate(j) ==
    /\ Idle /\ j \in env \ known
    /\ queued' = queued \cup {j} /\ qTries' = [qTries EXCEPT ![j] = 0]
    /\ known' = known \cup {j}

Enqueue(j) ==
    /\ "enqueue" \in env
    /\ EnqueuePrivate(j)
    /\ whole' = whole \cup {j}
    /\ UNCHANGED <<env, blank, pending, running, rTries, status, opVars, procVars,
                   posting, runs, deaths, fateVars>>

\* RestartBackgroundJob(j): the spec of j's status record under the new id k.  The
\* record of a job failed out by recovery has neither agentId nor args.
Restart(j, k) ==
    /\ "restart" \in env
    /\ status[j] \in {"failed", "cancelled", "poisoned"}
    /\ EnqueuePrivate(k)
    /\ whole' = IF status[j] = "poisoned" THEN whole ELSE whole \cup {k}
    /\ UNCHANGED <<env, blank, pending, running, rTries, status, opVars, procVars,
                   posting, runs, deaths, fateVars>>

-----------------------------------------------------------------------------
(* Boot: recoverOrphanedJobs.                                                *)

Boot ==
    /\ phase = "down"
    /\ phase' = "recovering"
    /\ listed' = [NoListing EXCEPT !["running"] = running]
    /\ UNCHANGED <<env, fileVars, doing, subject, source, verdict, procVars, posting,
                   countVars, fateVars>>

Recovering(j) == phase = "recovering" /\ doing = "nothing" /\ j \in listed["running"]

\* Mutant: the attempt is not counted in the spec that goes back to the queue.
RequeueUncounted(j) ==
    queued' = queued \cup {j} /\ qTries' = [qTries EXCEPT ![j] = rTries[j]]

\* The orphan goes back to queue/, one recovery attempt older.
Requeue(j) ==
    queued' = queued \cup {j} /\ qTries' = [qTries EXCEPT ![j] = rTries[j] + 1]

\* Mutant: no cap on recovery.
RecoverUncapped(j) ==
    /\ Recovering(j)
    /\ Requeue(j)
    /\ doing' = "requeued" /\ subject' = j
    /\ UNCHANGED <<env, blank, pending, running, rTries, status, whole, phase, listed,
                   source, verdict, procVars, posting, countVars, fateVars>>

Recover(j) ==
    /\ Recovering(j) /\ rTries[j] < MaxAttempts
    /\ Requeue(j)
    /\ doing' = "requeued" /\ subject' = j
    /\ UNCHANGED <<env, blank, pending, running, rTries, status, whole, phase, listed,
                   source, verdict, procVars, posting, countVars, fateVars>>

\* Past the cap: failed/ and the status record are written.
FailOut(j) ==
    /\ Recovering(j) /\ rTries[j] >= MaxAttempts
    /\ status' = [status EXCEPT ![j] = "poisoned"]
    /\ doing' = "failedOut" /\ subject' = j
    /\ UNCHANGED <<env, blank, pending, queued, qTries, running, rTries, whole, phase,
                   listed, source, verdict, procVars, posting, countVars, fateVars>>

\* The file leaves running/.  A failed-out job is announced, and awaited, before the
\* next one is looked at.
RemoveOrphan ==
    /\ doing \in {"requeued", "failedOut"}
    /\ running' = running \ {subject}
    /\ listed' = [listed EXCEPT !["running"] = @ \ {subject}]
    /\ doing' = IF doing = "failedOut" THEN "telling" ELSE "nothing"
    /\ UNCHANGED <<env, blank, pending, queued, qTries, rTries, status, whole, phase,
                   subject, source, verdict, procVars, posting, countVars, fateVars>>

Announced ==
    /\ doing = "telling"
    /\ doing' = "nothing"
    /\ \/ told' = told \cup {subject}
       \/ "mongo" \in env /\ UNCHANGED told
    /\ UNCHANGED <<env, fileVars, phase, listed, subject, source, verdict, procVars,
                   posting, countVars, dropped, lost, torn>>

BootDone ==
    /\ phase = "recovering" /\ doing = "nothing" /\ listed = NoListing
    /\ phase' = "up"
    /\ UNCHANGED <<env, fileVars, listed, doing, subject, source, verdict, procVars,
                   posting, countVars, fateVars>>

-----------------------------------------------------------------------------
(* The tick: runPendingJobs.                                                 *)

\* The directories are read once; the tick does nothing at the concurrency cap.
Tick ==
    /\ Idle /\ slots < MaxConcurrent
    /\ pending \cup queued # {}
    /\ listed' = [NoListing EXCEPT !["pending"] = pending, !["queue"] = queued]
    /\ UNCHANGED <<env, fileVars, phase, doing, subject, source, verdict, procVars,
                   posting, countVars, fateVars>>

\* The next candidate: agents' specs before the daemon's own.
Candidate(d, j) ==
    /\ phase = "up" /\ doing = "nothing"
    /\ j \in listed[d]
    /\ d = "queue" => listed["pending"] = {}

Unlist(d, j) == listed' = [listed EXCEPT ![d] = @ \ {j}]

\* No claim: the agent's file is gone, or is empty, or running/ already has a job of
\* that id; then an agent's spec is refused and deleted, the daemon's stays.
ClaimRefused(d, j) ==
    /\ Candidate(d, j)
    /\ j \in running \/ (d = "pending" /\ j \notin pending \ blank)
    /\ pending' = IF d = "pending" THEN pending \ {j} ELSE pending
    /\ dropped' = IF d = "pending" /\ j \in blank THEN dropped \cup {j} ELSE dropped
    /\ blank' = IF d = "pending" THEN blank \ {j} ELSE blank
    /\ Unlist(d, j)
    /\ UNCHANGED <<env, queued, qTries, running, rTries, status, whole, phase, doing,
                   subject, source, verdict, procVars, posting, countVars, told, lost,
                   torn>>

\* Mutant: the claim deletes the spec before it has copied it.
ClaimDeletesFirst(d, j) ==
    /\ Candidate(d, j) /\ j \notin running
    /\ d = "pending" => j \in pending \ blank
    /\ pending' = pending \ {j} /\ queued' = queued \ {j}
    /\ rTries' = [rTries EXCEPT ![j] = IF d = "queue" THEN qTries[j] ELSE 0]
    /\ doing' = "copied" /\ subject' = j /\ source' = d
    /\ Unlist(d, j)
    /\ UNCHANGED <<env, blank, qTries, running, status, whole, phase, verdict,
                   procVars, posting, countVars, fateVars>>

\* The claim's exclusive write into running/.
ClaimCopy(d, j) ==
    /\ Candidate(d, j) /\ j \notin running
    /\ d = "pending" => j \in pending \ blank
    /\ running' = running \cup {j}
    /\ rTries' = [rTries EXCEPT ![j] = IF d = "queue" THEN qTries[j] ELSE 0]
    /\ doing' = "copied" /\ subject' = j /\ source' = d
    /\ Unlist(d, j)
    /\ UNCHANGED <<env, blank, pending, queued, qTries, status, whole, phase, verdict,
                   procVars, posting, countVars, fateVars>>

\* The claim's delete.  An agent's spec withdrawn meanwhile makes it fail: the copy in
\* running/ stays, and nothing is started.
ClaimDelete ==
    /\ doing = "copied"
    /\ IF source = "queue"
       THEN queued' = queued \ {subject} /\ doing' = "starting" /\ UNCHANGED pending
       ELSE /\ pending' = pending \ {subject} /\ UNCHANGED queued
            /\ doing' = IF subject \in pending THEN "starting" ELSE "nothing"
    /\ UNCHANGED <<env, blank, qTries, running, rTries, status, whole, phase, listed,
                   subject, source, verdict, procVars, posting, countVars, fateVars>>

\* The loop's check before each claim: at the cap the rest of the list is left.
Rest(n) == IF n >= MaxConcurrent THEN NoListing ELSE listed

\* startJob: refused (agent or script cannot be resolved, no log, spawn failed), the
\* job is dropped with a log line and no status record.
StartRefused ==
    /\ doing = "starting"
    /\ "refuse" \in env \/ subject \notin whole
    /\ doing' = "nothing" /\ running' = running \ {subject}
    /\ dropped' = dropped \cup {subject}
    /\ UNCHANGED <<env, blank, pending, queued, qTries, rTries, status, whole, phase,
                   listed, subject, source, verdict, procVars, posting, countVars,
                   told, lost, torn>>

\* Mutant: the cap is not checked between two claims of one tick.
StartUncapped ==
    /\ doing = "starting" /\ subject \in whole
    /\ doing' = "nothing"
    /\ slots' = slots + 1
    /\ proc' = [proc EXCEPT ![subject] = "live"] /\ armed' = armed \cup {subject}
    /\ runs' = [runs EXCEPT ![subject] = @ + 1]
    /\ UNCHANGED <<env, fileVars, phase, listed, subject, source, verdict, cancelled,
                   posting, known, deaths, fateVars>>

\* startJob: the process is spawned and its timeout armed.
Start ==
    /\ doing = "starting" /\ subject \in whole
    /\ doing' = "nothing"
    /\ slots' = slots + 1
    /\ listed' = Rest(slots')
    /\ proc' = [proc EXCEPT ![subject] = "live"] /\ armed' = armed \cup {subject}
    /\ runs' = [runs EXCEPT ![subject] = @ + 1]
    /\ UNCHANGED <<env, fileVars, phase, subject, source, verdict, cancelled, posting,
                   known, deaths, fateVars>>

-----------------------------------------------------------------------------
(* The process and its end.                                                  *)

\* The job ends by itself; its close event waits for the event loop.
ProcessEnds(j) ==
    /\ proc[j] = "live"
    /\ \E code \in {"ok", "bad"} : proc' = [proc EXCEPT ![j] = code]
    /\ UNCHANGED <<env, fileVars, opVars, slots, armed, cancelled, posting, countVars,
                   fateVars>>

\* SIGKILL to the process group; a leader that has already exited keeps its code.
Killed(j) == [proc EXCEPT ![j] = IF @ = "live" THEN "bad" ELSE @]

\* The wall-clock timeout: one kill, which sudo may fail to deliver.
Timeout(j) ==
    /\ Idle /\ j \in armed
    /\ armed' = armed \ {j}
    /\ \/ proc' = Killed(j)
       \/ "killFails" \in env /\ UNCHANGED proc
    /\ UNCHANGED <<env, fileVars, opVars, slots, cancelled, posting, countVars,
                   fateVars>>

\* CancelBackgroundJob: the job is killed and remembered as cancelled (a kill that
\* fails changes nothing).
Cancel(j) ==
    /\ "cancel" \in env /\ Idle
    /\ proc[j] # "none" /\ j \notin cancelled
    /\ proc' = Killed(j) /\ cancelled' = cancelled \cup {j}
    /\ UNCHANGED <<env, fileVars, opVars, slots, armed, posting, countVars, fateVars>>

ExitOutcome(j) ==
    IF proc[j] = "ok" THEN "ok" ELSE IF j \in cancelled THEN "cancelled" ELSE "failed"

\* Mutant: a finished job keeps its slot.
CloseKeepsSlot(j) ==
    /\ Idle /\ proc[j] \in {"ok", "bad"}
    /\ running' = running \ {j}
    /\ doing' = "closing" /\ subject' = j /\ verdict' = ExitOutcome(j)
    /\ proc' = [proc EXCEPT ![j] = "none"] /\ UNCHANGED slots
    /\ armed' = armed \ {j} /\ cancelled' = cancelled \ {j}
    /\ UNCHANGED <<env, blank, pending, queued, qTries, rTries, status, whole, phase,
                   listed, source, posting, countVars, fateVars>>

\* Mutant: a finished job stays in running/.
CloseKeepsFile(j) ==
    /\ Idle /\ proc[j] \in {"ok", "bad"}
    /\ doing' = "closing" /\ subject' = j /\ verdict' = ExitOutcome(j)
    /\ proc' = [proc EXCEPT ![j] = "none"] /\ slots' = slots - 1
    /\ armed' = armed \ {j} /\ cancelled' = cancelled \ {j}
    /\ UNCHANGED <<env, blank, pending, queued, qTries, running, rTries, status, whole,
                   phase, listed, source, posting, countVars, fateVars>>

\* The close event: the slot, the cancel mark and the file in running/ go first...
Close(j) ==
    /\ Idle /\ proc[j] \in {"ok", "bad"}
    /\ running' = running \ {j}
    /\ doing' = "closing" /\ subject' = j /\ verdict' = ExitOutcome(j)
    /\ proc' = [proc EXCEPT ![j] = "none"] /\ slots' = slots - 1
    /\ armed' = armed \ {j} /\ cancelled' = cancelled \ {j}
    /\ UNCHANGED <<env, blank, pending, queued, qTries, rTries, status, whole, phase,
                   listed, source, posting, countVars, fateVars>>

\* Mutant: a success is recorded and not told.
RecordExitSilently ==
    /\ doing = "closing"
    /\ status' = [status EXCEPT ![subject] = verdict]
    /\ doing' = "nothing"
    /\ posting' = IF verdict = "ok" THEN posting ELSE posting \cup {subject}
    /\ UNCHANGED <<env, blank, pending, queued, qTries, running, rTries, whole, phase,
                   listed, subject, source, verdict, procVars, countVars, fateVars>>

\* ...then recordJobExit writes the status and posts the notification, unawaited.
RecordExit ==
    /\ doing = "closing"
    /\ status' = [status EXCEPT ![subject] = verdict]
    /\ doing' = "nothing"
    /\ posting' = posting \cup {subject}
    /\ UNCHANGED <<env, blank, pending, queued, qTries, running, rTries, whole, phase,
                   listed, subject, source, verdict, procVars, countVars, fateVars>>

Posted(j) ==
    /\ j \in posting
    /\ posting' = posting \ {j}
    /\ \/ told' = told \cup {j}
       \/ "mongo" \in env /\ UNCHANGED told
    /\ UNCHANGED <<env, fileVars, opVars, procVars, countVars, dropped, lost, torn>>

\* The daemon ends, by a crash or by an ordinary stop: recovery cannot tell.  A script
\* that was writing its spec ends too.
Die ==
    /\ "die" \in env /\ deaths < MaxDeaths /\ phase # "down"
    /\ deaths' = deaths + 1
    /\ phase' = "down" /\ listed' = NoListing /\ doing' = "nothing"
    /\ slots' = 0 /\ proc' = [j \in Job |-> "none"] /\ armed' = {} /\ cancelled' = {}
    /\ posting' = {}
    /\ lost' = IF doing = "closing" THEN lost \cup {subject} ELSE lost
    /\ torn' = IF doing = "copied" THEN torn \cup {subject} ELSE torn
    /\ dropped' = dropped \cup blank
    /\ UNCHANGED <<env, fileVars, subject, source, verdict, known, runs, told>>

-----------------------------------------------------------------------------
SubmitNext == \/ \E j \in Job : Submit(j) \/ SpecWritten(j) \/ Withdraw(j) \/ Enqueue(j)
              \/ \E j, k \in Job : Restart(j, k)
BootNext   == \/ Boot \/ RemoveOrphan \/ Announced \/ BootDone
              \/ \E j \in Job : Recover(j) \/ FailOut(j)
TickNext   == \/ Tick \/ ClaimDelete \/ StartRefused \/ Start
              \/ \E d \in Source, j \in Job : ClaimRefused(d, j) \/ ClaimCopy(d, j)
ProcNext   == \/ RecordExit \/ Die
              \/ \E j \in Job : \/ ProcessEnds(j) \/ Timeout(j) \/ Cancel(j)
                                \/ Close(j) \/ Posted(j)

Next == SubmitNext \/ BootNext \/ TickNext \/ ProcNext

Spec == Init /\ [][Next]_vars

(* The daemon is restarted, its ticks and timers come, and its event loop serves  *)
(* each callback that is ready (SF: a tick that finds nothing to claim may come   *)
(* in between).  Nothing is assumed of agents, of the copilot, of jobs ending by  *)
(* themselves, or of failures.                                                    *)
Fairness ==
    /\ WF_vars(BootNext) /\ WF_vars(TickNext) /\ WF_vars(RecordExit)
    /\ \A j \in Job : SF_vars(Close(j)) /\ SF_vars(Timeout(j)) /\ WF_vars(Posted(j))

FairSpec == Spec /\ Fairness

-----------------------------------------------------------------------------
(* Properties.                                                               *)

Recorded(j) == status[j] # "none"

\* A job that keeps ending with the daemon is executed at most MaxAttempts + 1
\* times, whatever combination of deaths interrupts its claims, its runs and its
\* recoveries: recoverOrphanedJobs' circuit breaker (job-recovery.ts:94-101).
BoundedRuns == \A j \in Job : runs[j] <= MaxAttempts + 1

\* No job disappears: until its outcome is recorded its spec is in some directory,
\* wherever a claim, a recovery or an exit was cut -- except when the daemon dies
\* between the two halves of an exit, or refuses the spec.
JobAccounted ==
    \A j \in known : \/ j \in pending \cup queued \cup running
                     \/ doing = "closing" /\ subject = j
                     \/ Recorded(j) \/ j \in lost \cup dropped

\* The slot counter is the number of processes the daemon tracks, never above the cap
\* (job-runner.ts:314-318), and each of them is on disk for the next boot to find.
SlotsHonest ==
    /\ slots = Cardinality({j \in Job : proc[j] # "none"})
    /\ slots <= MaxConcurrent
    /\ \A j \in Job : proc[j] # "none" => j \in running

\* A recorded outcome is final: the job is waiting nowhere and never runs again --
\* unless a death tore a claim of it, which leaves a second copy: that one runs even
\* after the first has succeeded, or was failed out "and will NOT be retried again"
\* (job-recovery.ts:172-180).
OutcomeFinal ==
    [][\A j \in Job \ torn : Recorded(j) => status'[j] = status[j] /\ runs'[j] = runs[j]]_vars

\* Every waiting job comes to an outcome, or was withdrawn, refused at the start, or
\* lost between the two halves of its exit -- provided its kill works and the daemon
\* does not die for ever.
JobSettles ==
    \A j \in Job : "killFails" \notin env /\ j \in pending \cup queued
                     ~> Recorded(j) \/ j \in lost \cup dropped

\* The outcome of a job is told to somebody, as long as the mailbox works and the
\* daemon lives: the waiting agent is woken (job-runner.ts:548-585).
OutcomeTold ==
    \A j \in Job : env \cap {"mongo", "die"} = {} /\ Recorded(j) ~> j \in told
=============================================================================
