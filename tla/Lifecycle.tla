------------------------------ MODULE Lifecycle ------------------------------
(***************************************************************************)
(* One mission in the control plane: its document, its Fly machines and    *)
(* volumes, and the requests that work on them: creating and launching,    *)
(* resuming, waking and suspending, upgrading to a bigger machine and      *)
(* reverting, renewing, refreshing, and the sweeper of upgrades            *)
(* (packages/control-plane/src: mission-routes-*.ts, mission-claims.ts,    *)
(* copilot-action-handlers.ts, copilot-launch-actions.ts, scheduler.ts,    *)
(* machine-lifecycle.ts, resource-upgrade*.ts; Fly's side is external).    *)
(*                                                                         *)
(* A request is a sequence of remote calls: a read or a write of the       *)
(* document, or a call to Fly.  Requests run concurrently and interleave   *)
(* between any two calls; what a request has read stays in its own copy.   *)
(* The control plane may die between any two calls of a request.           *)
(***************************************************************************)
EXTENDS Naturals, Sequences

CONSTANTS
    Envs,       \* the environments explored: the requests made, the start, the events
    MaxDeaths   \* bound on the control plane's deaths

\* The requests, by what they ask for; a repeated one (a double click) has a 2.
Creates    == {"create", "copilotCreate"}             \* POST /missions, launch_mission
Launches   == {"launch", "launch2", "copilotLaunch"}  \* POST /launch, launch_draft
Resumes    == {"resume", "resume2"}                   \* POST /resume
Wakes      == {"wake", "copilotResume"}               \* a scheduled delivery, resume_mission
Reverts    == {"revert", "revert2", "expire", "suspend"}
Resizes    == Reverts \cup {"upgrade"}
Sweeps     == {"expire", "stale", "orphan"}           \* the sweeper's three steps
Request    == Creates \cup Launches \cup Resumes \cup Wakes \cup Resizes \cup Sweeps
                \cup {"renew", "refresh"}

\* How the mission starts, and what the environment does: Fly fails a call, loses its
\* answer, has no room on a volume's server, stops a machine; an operator removes a
\* machine by hand; the control plane dies; a resize outlasts staleClaimMinutes.
Starts == {"absent", "draft", "running", "upgraded", "suspended"}
Events == {"fail", "lost", "full", "stops", "gone", "die", "slow"}

ASSUME LifecycleAssumption ==
    /\ MaxDeaths \in Nat
    /\ \A e \in Envs : e \subseteq Request \cup Starts \cup Events

Author   == {"none", "before", "upgrade", "renew", "nobody"}
Upgrade  == [by : Author, due : BOOLEAN]
NoUpgrade == [by |-> "none", due |-> FALSE]
Status   == {"absent", "draft", "provisioning", "running", "suspended", "error"}
Document == [status : Status, machine : Nat, volume : Nat, upgrade : Upgrade,
             claim : Request \cup {"none"}]
Machine  == [state : {"up", "down", "gone"}, big : BOOLEAN, volume : Nat]

\* Where a request is: the call it makes next.
Label == {"idle", "done", "claim", "volume", "persist", "machine", "update", "start",
          "delete", "fork", "repoint", "state", "exists", "finish", "failed",
          "look", "again", "lock", "stop", "letGo", "remove", "record", "settle",
          "fresh", "halt", "mark", "swap", "remind", "sawUp", "sawDown",
          "failStale", "clear"}

VARIABLES
    env,
    doc,       \* the mission's document; machine and volume are 0 while unknown
    machs,     \* every machine created on Fly, in order
    vols,      \* how many volumes were created
    req,       \* req[r]: its label, the document it read, its machine and its volume
    \* history
    fresh,     \* the volumes that hold the mission's latest work
    deaths

fly  == <<machs, vols, fresh>>
vars == <<env, doc, fly, req, deaths>>

NoDoc == [status |-> "absent", machine |-> 0, volume |-> 0, upgrade |-> NoUpgrade,
          claim |-> "none"]
Idle  == [pc |-> "idle", doc |-> NoDoc, m |-> 0, v |-> 0]
Done  == [Idle EXCEPT !.pc = "done"]

\* Every variable has its type.
TypeOK ==
    /\ env \in Envs
    /\ doc \in Document
    /\ machs \in Seq(Machine) /\ vols \in Nat /\ fresh \subseteq Nat
    /\ req \in [Request -> [pc : Label, doc : Document, m : Nat, v : Nat]]
    /\ deaths \in Nat

Init ==
    /\ env \in Envs
    /\ \E s \in Starts \cap env :
         LET known == s \in {"running", "upgraded", "suspended"}
             n     == IF known THEN 1 ELSE 0
             big   == s = "upgraded"
         IN  /\ doc = [status  |-> IF big THEN "running" ELSE s,
                       machine |-> n, volume |-> n, claim |-> "none",
                       upgrade |-> [by |-> IF big THEN "before" ELSE "none", due |-> FALSE]]
             /\ machs = IF known THEN <<[state |-> IF s = "suspended" THEN "down" ELSE "up",
                                         big |-> big, volume |-> 1]>> ELSE <<>>
             /\ vols = n /\ fresh = 1..n
    /\ req = [r \in Request |-> Idle]
    /\ deaths = 0

-----------------------------------------------------------------------------
(* Requests and Fly.                                                         *)

InFlight(r) == req[r].pc \notin {"idle", "done"}
At(r, label) == r \in env \cup Sweeps /\ req[r].pc = label

Go(r, label) == req' = [req EXCEPT ![r].pc = label]

\* A request answers; the sweeper's steps come again.
End(r) == req' = [req EXCEPT ![r] = IF r \in Sweeps THEN Idle ELSE Done]

\* A request that would be refused right away is not received; the sweeper never
\* overlaps itself.
Receives(r) == /\ At(r, "idle")
               /\ r \in Sweeps => \A s \in Sweeps : ~InFlight(s)

\* The request reads the document; the machine and volume it names are its own.
Read(r, label) ==
    req' = [req EXCEPT ![r] = [pc |-> label, doc |-> doc, m |-> doc.machine,
                               v |-> doc.volume]]

\* The request works from now on with machine m, or volume v.
WithMachine(r, m, label) == req' = [req EXCEPT ![r].m = m, ![r].pc = label]
WithVolume(r, v, label)  == req' = [req EXCEPT ![r].v = v, ![r].pc = label]

OnDoc(r) == UNCHANGED <<env, fly, deaths>>
OnFly(r) == UNCHANGED <<env, doc, deaths>>

Exists(m) == m \in DOMAIN machs /\ machs[m].state # "gone"
Up(m)     == m \in DOMAIN machs /\ machs[m].state = "up"
Attached(v) == \E m \in DOMAIN machs : Exists(m) /\ machs[m].volume = v
RunsOn(v)   == \E m \in DOMAIN machs : Up(m) /\ machs[m].volume = v

\* A call to Fly is done and answered, refused, or done with its answer lost.
Refused  == "fail" \in env
NoAnswer == "lost" \in env

Turn(m, s) == /\ machs' = [machs EXCEPT ![m].state = s]
              /\ fresh' = IF s = "up" THEN {machs[m].volume} ELSE fresh
              /\ UNCHANGED vols

\* A call on machine m puts it in state s; then the request goes to yes, or to no when
\* the call failed.  A machine that is gone answers 404.
Ask(r, m, s, yes, no) ==
    \/ Exists(m) /\ Turn(m, s) /\ Go(r, yes)
    \/ NoAnswer /\ Exists(m) /\ Turn(m, s) /\ Go(r, no)
    \/ (Refused \/ ~Exists(m)) /\ Go(r, no) /\ UNCHANGED fly

-----------------------------------------------------------------------------
(* Launching.                                                                *)

\* POST /missions and launch_mission: the insert, under the unique missionId, claims.
Insert(r) ==
    /\ r \in Creates /\ Receives(r) /\ doc.status = "absent"
    /\ doc' = [doc EXCEPT !.status = "provisioning"]
    /\ Go(r, "volume") /\ OnDoc(r)

\* POST /launch claims the status next; launch_draft does not.
ReadDraft(r) ==
    /\ r \in Launches /\ Receives(r) /\ doc.status = "draft"
    /\ Read(r, IF r = "copilotLaunch" THEN "volume" ELSE "claim")
    /\ UNCHANGED doc /\ OnDoc(r)

\* Mutant: the status is written whatever it has become.
ClaimStatusUnguarded(r) ==
    /\ At(r, "claim")
    /\ doc' = [doc EXCEPT !.status = "provisioning"]
    /\ Go(r, IF r \in Launches THEN "volume" ELSE "update")
    /\ OnDoc(r)

\* claimStatus: a compare-and-set on the status that was read.
ClaimStatus(r) ==
    /\ At(r, "claim")
    /\ IF doc.status = req[r].doc.status
       THEN /\ doc' = [doc EXCEPT !.status = "provisioning"]
            /\ Go(r, IF r \in Launches THEN "volume" ELSE "update")
       ELSE End(r) /\ UNCHANGED doc
    /\ OnDoc(r)

\* provisionMission, first call: a new volume.  POST /launch and launch_mission record
\* it at once (onVolumeCreated).
Recording == {"launch", "launch2", "copilotCreate"}
CreateVolume(r) ==
    /\ At(r, "volume")
    /\ \/ /\ vols' = vols + 1
          /\ \/ WithVolume(r, vols', IF r \in Recording THEN "persist" ELSE "machine")
             \/ NoAnswer /\ Go(r, "failed")
       \/ Refused /\ Go(r, "failed") /\ UNCHANGED vols
    /\ UNCHANGED <<machs, fresh>> /\ OnFly(r)

PersistVolume(r) ==
    /\ At(r, "persist")
    /\ doc' = [doc EXCEPT !.volume = req[r].v]
    /\ Go(r, "machine") /\ OnDoc(r)

\* provisionMission, second call: a machine on the request's volume, which Fly attaches
\* to one machine only.  No room on the volume's server: a resume or a wake forks the
\* volume, once.
CreateMachine(r) ==
    /\ At(r, "machine")
    /\ \/ /\ ~Attached(req[r].v)
          /\ machs' = Append(machs, [state |-> "up", big |-> r = "upgrade",
                                     volume |-> req[r].v])
          /\ fresh' = {req[r].v}
          /\ \/ WithMachine(r, Len(machs'), IF r \in Resizes THEN "record" ELSE "finish")
             \/ NoAnswer /\ Go(r, "failed")
       \/ /\ Attached(req[r].v) \/ Refused
          /\ Go(r, "failed") /\ UNCHANGED <<machs, fresh>>
       \/ /\ "full" \in env
          /\ Go(r, IF r \in Resumes \cup Wakes /\ req[r].v = req[r].doc.volume
                   THEN "fork" ELSE "failed")
          /\ UNCHANGED <<machs, fresh>>
    /\ UNCHANGED vols /\ OnFly(r)

\* The last write of a launch, a resume or a wake.
Finish(r) ==
    /\ At(r, "finish")
    /\ doc' = [doc EXCEPT
                 !.status  = "running",
                 !.machine = IF r \in Wakes /\ req[r].m = req[r].doc.machine
                             THEN @ ELSE req[r].m,
                 !.volume  = IF r \in Creates \cup Launches THEN req[r].v ELSE @]
    /\ End(r) /\ OnDoc(r)

\* The error path of a launch or a resume, and failResize past its stop; a wake's
\* caller gets the error and the document is left alone.
Failed(r) ==
    /\ At(r, "failed")
    /\ doc' = IF r \in Wakes THEN doc
              ELSE IF r \in Resizes
                   THEN [doc EXCEPT !.status = "error", !.upgrade = NoUpgrade,
                                    !.claim = "none"]
                   ELSE [doc EXCEPT !.status = "error"]
    /\ End(r) /\ OnDoc(r)

-----------------------------------------------------------------------------
(* Resuming and waking.                                                      *)

ReadResume(r) ==
    /\ r \in Resumes /\ Receives(r)
    /\ doc.machine # 0 /\ doc.status \notin {"running", "provisioning"}
    /\ Read(r, "claim") /\ UNCHANGED doc /\ OnDoc(r)

\* Mutant: the machine keeps the shape it had.
UpdateMachineAsIs(r) ==
    /\ At(r, "update")
    /\ LET m == req[r].m
       IN  \/ Exists(m) /\ Turn(m, "down") /\ Go(r, "start")
           \/ Refused /\ Go(r, "delete") /\ UNCHANGED machs
           \/ ~Exists(m) /\ Go(r, "machine") /\ UNCHANGED machs
    /\ UNCHANGED <<vols, fresh>> /\ OnFly(r)

\* restartOnCurrentConfigTracked: the machine is stopped and takes the default shape...
UpdateMachine(r) ==
    /\ At(r, "update")
    /\ LET m == req[r].m
           Updated == /\ Exists(m)
                      /\ machs' = [machs EXCEPT ![m] = [state |-> "down", big |-> FALSE,
                                                       volume |-> req[r].v]]
       IN  \/ Updated /\ Go(r, "start")
           \/ NoAnswer /\ Updated /\ Go(r, "delete")
           \/ Refused /\ Go(r, "delete") /\ UNCHANGED machs
           \/ ~Exists(m) /\ Go(r, "machine") /\ UNCHANGED machs
    /\ UNCHANGED <<vols, fresh>> /\ OnFly(r)

\* ...and is started; a wake starts it as it is.
StartMachine(r) ==
    /\ At(r, "start")
    /\ LET no == IF r \in Resumes THEN "delete" ELSE "failed"
       IN  \/ Ask(r, req[r].m, "up", "finish", no)
           \/ "full" \in env /\ Go(r, no) /\ UNCHANGED fly
    /\ OnFly(r)

\* A machine that cannot be restarted is deleted, or not: a new one is created anyway.
DeleteMachine(r) ==
    /\ At(r, "delete")
    /\ Ask(r, req[r].m, "gone", "machine", "machine")
    /\ OnFly(r)

\* A copy of the volume on another server.
ForkVolume(r) ==
    /\ At(r, "fork")
    /\ LET old == req[r].doc.volume
       IN  \/ /\ vols' = vols + 1
              /\ fresh' = IF old \in fresh /\ ~RunsOn(old)
                          THEN fresh \cup {vols'} ELSE fresh
              /\ \/ WithVolume(r, vols', "repoint")
                 \/ NoAnswer /\ Go(r, "failed")
           \/ Refused /\ Go(r, "failed") /\ UNCHANGED <<vols, fresh>>
    /\ UNCHANGED machs /\ OnFly(r)

\* Mutant: the document is not pointed at the fork.
RepointNot(r) ==
    /\ At(r, "repoint") /\ Go(r, "machine")
    /\ UNCHANGED doc /\ OnDoc(r)

\* The mission is pointed at the fork: a compare-and-set on the volume that was read.
Repoint(r) ==
    /\ At(r, "repoint")
    /\ IF doc.volume = req[r].doc.volume
       THEN doc' = [doc EXCEPT !.volume = req[r].v] /\ Go(r, "machine")
       ELSE Go(r, "failed") /\ UNCHANGED doc
    /\ OnDoc(r)

\* wakeIfNotRunning leaves a resize alone; the copilot's resume_mission asks nothing.
ReadWake(r) ==
    /\ r \in Wakes /\ Receives(r) /\ doc.machine # 0
    /\ r = "wake" => doc.claim = "none"
    /\ Read(r, IF r = "wake" THEN "state" ELSE "exists")
    /\ UNCHANGED doc /\ OnDoc(r)

WakeState(r) ==
    /\ r \in Wakes /\ At(r, "state")
    /\ \/ Up(req[r].m) /\ End(r)
       \/ (~Up(req[r].m) \/ Refused) /\ Go(r, "exists")
    /\ UNCHANGED <<doc, fly>> /\ OnFly(r)

\* wakeTracked: anything but a 404 is a machine to start; one that is gone is created
\* again, on the mission's volume.
WakeExists(r) ==
    /\ At(r, "exists")
    /\ \/ (Exists(req[r].m) \/ Refused) /\ Go(r, "start")
       \/ ~Exists(req[r].m) /\ Go(r, IF req[r].v # 0 THEN "machine" ELSE "failed")
    /\ UNCHANGED <<doc, fly>> /\ OnFly(r)

-----------------------------------------------------------------------------
(* Resizing: upgrade, revert, suspend.                                       *)

ReadUpgrade(r) ==
    /\ r = "upgrade" /\ Receives(r)
    /\ doc.status = "running" /\ doc.machine # 0 /\ doc.volume # 0
    /\ Read(r, "lock") /\ UNCHANGED doc /\ OnDoc(r)

ReadRevert(r) ==
    /\ r \in {"revert", "revert2"} /\ Receives(r) /\ doc.upgrade.by # "none"
    /\ Read(r, "lock") /\ UNCHANGED doc /\ OnDoc(r)

\* Mutant: the comparison with the end of the window is the wrong way round.
ListExpiredEarly(r) ==
    /\ r = "expire" /\ Receives(r)
    /\ doc.status = "running" /\ doc.claim = "none"
    /\ doc.upgrade.by # "none" /\ ~doc.upgrade.due
    /\ Read(r, "again") /\ UNCHANGED doc /\ OnDoc(r)

\* The sweeper's list of expired upgrades; each is read again when its turn comes.
ListExpired(r) ==
    /\ r = "expire" /\ Receives(r)
    /\ doc.status = "running" /\ doc.upgrade.due /\ doc.claim = "none"
    /\ Read(r, "again") /\ UNCHANGED doc /\ OnDoc(r)

ReadSuspend(r) ==
    /\ r = "suspend" /\ Receives(r) /\ doc.machine # 0
    /\ Read(r, "look") /\ UNCHANGED doc /\ OnDoc(r)

\* suspendMissionMachine: an upgraded mission is reverted first.
Look(r) ==
    /\ At(r, "look")
    /\ Go(r, IF doc.upgrade.by # "none" THEN "again" ELSE "halt")
    /\ UNCHANGED doc /\ OnDoc(r)

ReadAgain(r) ==
    /\ At(r, "again")
    /\ IF doc.upgrade.by # "none" THEN Go(r, "lock") ELSE End(r)
    /\ UNCHANGED doc /\ OnDoc(r)

\* Mutant: a claim is taken from the resize that holds it.
LockTaken(r) ==
    /\ At(r, "lock") /\ doc.status = "running"
    /\ doc' = [doc EXCEPT !.claim = r]
    /\ IF r \in Reverts /\ doc.upgrade.by = "none" THEN End(r) ELSE Read(r, "stop")
    /\ OnDoc(r)

\* claim: one resize at a time, of a running mission.  What it returns is what the
\* resize works on; a revert that finds no upgrade there answers and keeps the claim.
Lock(r) ==
    /\ At(r, "lock")
    /\ IF doc.status = "running" /\ doc.claim = "none"
       THEN /\ doc' = [doc EXCEPT !.claim = r]
            /\ IF r \in Reverts /\ doc.upgrade.by = "none"
               THEN End(r)
               ELSE Read(r, "stop")
       ELSE End(r) /\ UNCHANGED doc
    /\ OnDoc(r)

\* resizeTracked: stop, delete, provision, record.
StopOld(r) ==
    /\ At(r, "stop")
    /\ Ask(r, req[r].m, "down", "remove", "letGo")
    /\ OnFly(r)

\* failResize at "stop": nothing has changed, the claim is released.
LetGo(r) ==
    /\ At(r, "letGo")
    /\ doc' = [doc EXCEPT !.claim = "none"]
    /\ End(r) /\ OnDoc(r)

DeleteOld(r) ==
    /\ At(r, "remove")
    /\ Ask(r, req[r].m, "gone", "machine", "failed")
    /\ OnFly(r)

RecordMachine(r) ==
    /\ At(r, "record")
    /\ doc' = [doc EXCEPT !.machine = req[r].m]
    /\ Go(r, "settle") /\ OnDoc(r)

\* The last write of a resize: the upgrade begins or ends, the claim is released.
Settle(r) ==
    /\ At(r, "settle")
    /\ doc' = [doc EXCEPT
                 !.machine = req[r].m, !.claim = "none",
                 !.upgrade = IF r = "upgrade" THEN [by |-> r, due |-> FALSE]
                             ELSE NoUpgrade]
    /\ IF r = "suspend" THEN Go(r, "fresh") ELSE End(r)
    /\ OnDoc(r)

ReadFresh(r) ==
    /\ At(r, "fresh")
    /\ WithMachine(r, doc.machine, "halt")
    /\ UNCHANGED doc /\ OnDoc(r)

Halt(r) ==
    /\ At(r, "halt")
    /\ \/ Exists(req[r].m) /\ Turn(req[r].m, "down") /\ Go(r, "mark")
       \/ Exists(req[r].m) /\ NoAnswer /\ Turn(req[r].m, "down") /\ End(r)
       \/ (Refused \/ ~Exists(req[r].m)) /\ End(r) /\ UNCHANGED fly
    /\ OnFly(r)

MarkSuspended(r) ==
    /\ At(r, "mark")
    /\ doc' = [doc EXCEPT !.status = "suspended"]
    /\ End(r) /\ OnDoc(r)

-----------------------------------------------------------------------------
(* Renewing, refreshing, sweeping.                                           *)

ReadRenew(r) ==
    /\ r = "renew" /\ Receives(r)
    /\ doc.status = "running" /\ doc.upgrade.by \notin {"none", "nobody"}
    /\ Read(r, "swap") /\ UNCHANGED doc /\ OnDoc(r)

\* renew: a compare-and-set on the old expiry...
Swap(r) ==
    /\ At(r, "swap")
    /\ IF /\ doc.status = "running" /\ doc.claim = "none"
          /\ doc.upgrade.by = req[r].doc.upgrade.by
       THEN doc' = [doc EXCEPT !.upgrade = [by |-> "renew", due |-> FALSE]]
            /\ Go(r, "remind")
       ELSE End(r) /\ UNCHANGED doc
    /\ OnDoc(r)

\* ...and, the reminder replaced, a write of its id under "upgrade", whatever is there.
Remind(r) ==
    /\ At(r, "remind")
    /\ doc' = IF doc.upgrade.by = "none" THEN [doc EXCEPT !.upgrade.by = "nobody"] ELSE doc
    /\ End(r) /\ OnDoc(r)

\* GET /missions/:id: the status follows the machine's state.
ReadRefresh(r) ==
    /\ r = "refresh" /\ Receives(r)
    /\ doc.machine # 0 /\ doc.status # "error" /\ doc.claim = "none"
    /\ Read(r, "state") /\ UNCHANGED doc /\ OnDoc(r)

RefreshState(r) ==
    /\ r = "refresh" /\ At(r, "state")
    /\ \/ Up(req[r].m) /\ IF req[r].doc.status = "running" THEN End(r) ELSE Go(r, "sawUp")
       \/ ~Up(req[r].m) /\ IF req[r].doc.status = "suspended" THEN End(r)
                           ELSE Go(r, "sawDown")
       \/ (Refused \/ ~Exists(req[r].m)) /\ End(r)
    /\ UNCHANGED <<doc, fly>> /\ OnFly(r)

\* Mutant: the state is written as Fly names it.
WriteStatusRaw(r) ==
    /\ At(r, "sawUp") \/ At(r, "sawDown")
    /\ doc' = [doc EXCEPT !.status = IF At(r, "sawUp") THEN "started" ELSE "stopped"]
    /\ End(r) /\ OnDoc(r)

WriteStatus(r) ==
    /\ At(r, "sawUp") \/ At(r, "sawDown")
    /\ doc' = [doc EXCEPT !.status = IF At(r, "sawUp") THEN "running" ELSE "suspended"]
    /\ End(r) /\ OnDoc(r)

\* A claim is stale after staleClaimMinutes, which a live resize does not outlast.
Stale(c) == c # "none" /\ (~InFlight(c) \/ "slow" \in env)

ListStale(r) ==
    /\ r = "stale" /\ Receives(r) /\ Stale(doc.claim)
    /\ Read(r, "failStale") /\ UNCHANGED doc /\ OnDoc(r)

\* failResize for the sweeper: only if the claim it saw is still there.
FailStale(r) ==
    /\ At(r, "failStale")
    /\ doc' = IF doc.claim = req[r].doc.claim
              THEN [doc EXCEPT !.status = "error", !.upgrade = NoUpgrade, !.claim = "none"]
              ELSE doc
    /\ End(r) /\ OnDoc(r)

ListOrphaned(r) ==
    /\ r = "orphan" /\ Receives(r)
    /\ doc.status # "running" /\ doc.upgrade.by # "none" /\ doc.claim = "none"
    /\ Read(r, "clear") /\ UNCHANGED doc /\ OnDoc(r)

ClearUpgrade(r) ==
    /\ At(r, "clear")
    /\ doc' = [doc EXCEPT !.upgrade = NoUpgrade]
    /\ End(r) /\ OnDoc(r)

-----------------------------------------------------------------------------
(* The environment.                                                          *)

\* Fly gives a crashing machine up; an operator removes one by hand.
MachineEnds ==
    /\ \E m \in DOMAIN machs :
         \/ "stops" \in env /\ Up(m) /\ Turn(m, "down")
         \/ "gone" \in env /\ Exists(m) /\ Turn(m, "gone")
    /\ UNCHANGED <<env, doc, req, deaths>>

\* An upgrade's window ends.
WindowEnds ==
    /\ doc.upgrade.by \notin {"none", "nobody"} /\ ~doc.upgrade.due
    /\ doc' = [doc EXCEPT !.upgrade.due = TRUE]
    /\ UNCHANGED <<env, fly, req, deaths>>

\* The control plane ends and is started again; the sweeper starts with it.
Die ==
    /\ "die" \in env /\ deaths < MaxDeaths
    /\ deaths' = deaths + 1
    /\ req' = [r \in Request |-> IF InFlight(r) THEN IF r \in Sweeps THEN Idle ELSE Done
                                 ELSE req[r]]
    /\ UNCHANGED <<env, doc, fly>>

-----------------------------------------------------------------------------
Begin(r) ==
    \/ Insert(r) \/ ReadDraft(r) \/ ReadResume(r) \/ ReadWake(r) \/ ReadUpgrade(r)
    \/ ReadRevert(r) \/ ListExpired(r) \/ ReadSuspend(r) \/ ReadRenew(r)
    \/ ReadRefresh(r) \/ ListStale(r) \/ ListOrphaned(r)
OnDocument(r) ==
    \/ ClaimStatus(r) \/ PersistVolume(r) \/ Finish(r) \/ Failed(r) \/ Repoint(r)
    \/ Look(r) \/ ReadAgain(r) \/ Lock(r) \/ LetGo(r) \/ RecordMachine(r) \/ Settle(r)
    \/ ReadFresh(r) \/ MarkSuspended(r) \/ Swap(r) \/ Remind(r) \/ WriteStatus(r)
    \/ FailStale(r) \/ ClearUpgrade(r)
AskFly(r) ==
    \/ CreateVolume(r) \/ CreateMachine(r) \/ UpdateMachine(r) \/ StartMachine(r)
    \/ DeleteMachine(r) \/ ForkVolume(r) \/ WakeState(r) \/ WakeExists(r) \/ StopOld(r)
    \/ DeleteOld(r) \/ Halt(r) \/ RefreshState(r)

Next == \/ \E r \in Request : Begin(r) \/ OnDocument(r) \/ AskFly(r)
        \/ MachineEnds \/ WindowEnds \/ Die

\* Calls return: a request goes on, the sweeper's tick comes again, and Fly does not
\* refuse to stop a machine for ever.
Fairness ==
    /\ \A r \in Request : WF_vars(OnDocument(r) \/ AskFly(r))
    /\ \A s \in Sweeps : SF_vars(Begin(s))
    /\ SF_vars(StopOld("expire") /\ req'["expire"].pc = "remove")

Spec == Init /\ [][Next]_vars
FairSpec == Spec /\ Fairness

-----------------------------------------------------------------------------
(* Properties.                                                               *)

Working == {"stop", "letGo", "remove", "machine", "record", "settle", "failed"}
Resizing(r) == r \in Resizes /\ req[r].pc \in Working

\* One resize at a time: whoever stops, deletes, creates or records a machine for an
\* upgrade or a revert holds the mission's claim from its first call to its last, and
\* the stale-claim sweeper takes a claim only from a resize that is dead (claim,
\* resource-upgrade-claim.ts; failResize's compare-and-set).
ResizeExclusive == "slow" \notin env => \A r \in Request : Resizing(r) => doc.claim = r

\* Nothing runs on a bigger machine for nothing: when a running mission's recorded
\* machine is up and bigger than its default, its document says so, or a resize is at
\* work on it (applyUpgrade, revertUpgrade, failResize, updateMachine).
BigIsTemporary ==
    /\ doc.status = "running" /\ doc.claim = "none"
    /\ Up(doc.machine) /\ machs[doc.machine].big
    => doc.upgrade.by # "none"

\* A machine that is up is never dropped from the document: it would run, and cost, with
\* nothing that knows it (resizeTracked, restartOnCurrentConfigTracked, wakeTracked).
NoMachineAbandoned == [][doc'.machine # doc.machine => ~Up(doc.machine)]_vars

\* The mission's work is only ever done on the volume its document names, and the
\* document moves only to a copy that holds all of it (provisionOnVolumeTracked).
Data == INSTANCE MissionData WITH home <- doc.volume, latest <- fresh
KeepsWork == Data!Spec

\* An upgrade whose window has ended ends: it is reverted, renewed or given up, though
\* stops fail and the control plane dies; and a claim is released, by its resize or by
\* the sweeper (failResize, sweepUpgrades).
UpgradeEnds ==
    /\ \A a \in {"before", "upgrade", "renew"} :
         doc.upgrade = [by |-> a, due |-> TRUE] ~> doc.upgrade.by # a
    /\ doc.claim # "none" ~> doc.claim = "none"

\* mission-claims.ts:15-17, "the one claim every launch and resume path makes before
\* touching Fly, so a double click or a retried request cannot provision twice for one
\* mission id".
OneVolume == vols <= 1
=============================================================================
