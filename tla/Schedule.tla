------------------------------ MODULE Schedule ------------------------------
(***************************************************************************)
(* One scheduled message or job of a mission: the file an agent writes     *)
(* under shared/schedules/, the document in scheduled_messages, the        *)
(* control plane's delivery tick (scheduler.ts), and the daemon's tick     *)
(* that imports the file and turns a stamp of the control plane into a job *)
(* of the private queue (schedule-ingest.ts).  The two ticks run on two    *)
(* machines and share nothing but the document, so every write below is a  *)
(* step of its own: what a tick read before it may have changed.           *)
(*                                                                         *)
(* Time is in minutes, the period of both ticks.                           *)
(***************************************************************************)
EXTENDS Integers

CONSTANTS
  Spec,         \* what a schedule file or a CreateScheduledMessage call says
  JobSpec,      \* those of kind "job"
  Once,         \* those with a deliverAt and no cron: never from a file
  NextDue,      \* cron-parser: NextDue[s][t], the first occurrence after t
  Horizon,      \* bound: the last minute of a behaviour
  Lease,        \* DELIVERY_LEASE_MS
  Late,         \* MAX_JOB_FIRE_LATENESS_MS
  MaxAttempts,  \* MAX_DELIVERY_ATTEMPTS
  MaxEdits,     \* bound: writes and removals of the file
  MaxCancels,   \* bound: cancels through the document
  MaxFaults     \* bound: failed or interrupted steps of the two ticks

ASSUME ScheduleAssumption ==
  /\ Spec # {} /\ JobSpec \subseteq Spec /\ Once \subseteq Spec /\ JobSpec \cap Once = {}
  /\ Horizon \in Nat /\ Lease \in Nat /\ Late \in Nat /\ MaxAttempts \in Nat
  /\ MaxEdits \in Nat /\ MaxCancels \in Nat /\ MaxFaults \in Nat
  /\ NextDue \in [Spec -> [0 .. Horizon -> 1 .. Horizon + 1]]
  /\ \A s \in Spec, t \in 0 .. Horizon : NextDue[s][t] > t

VARIABLES
  now,      \* the wall clock
  file,     \* shared/schedules/<label>.json
  doc,      \* the label's document in scheduled_messages
  cp,       \* the control plane's delivery tick: deliverAll
  pass,     \* the daemon's tick: ingest, then claimJobFires
  unlinked, \* CancelScheduledMessage has removed the file, not yet marked
  ran,      \* ran[t]: jobs enqueued under the id <label>-t
  owed,     \* history: the due time taken from the document and not posted
  asked,    \* history: the stamp no pass has answered yet
  crossed,  \* history: an operator's cancel met a write already decided
  used      \* the budgets spent

vars == <<now, file, doc, cp, pass, unlinked, ran, owed, asked, crossed, used>>

Minute == 0 .. Horizon + 1
NoFile == "no file"
Torn   == "half-written"           \* or refused for any other reason
FileSpec == Spec \ Once
None   == -1                       \* no stamp, nothing owed
Any    == CHOOSE s \in Spec : TRUE

Docs == [status: {"absent", "pending", "delivering", "delivered",
                  "cancelled", "failed", "deleted"},
         fromFile: BOOLEAN,        \* origin = SCHEDULE_ORIGIN
         spec: Spec,
         due: Minute,              \* deliverAt
         tries: 0 .. MaxAttempts + 1,
         fire: Minute \cup {None}, \* pendingFire.dueAt
         claimed: Minute,          \* claimedAt
         byOp: BOOLEAN]            \* cancelledBy = "operator"
\* The local variables of deliverAll: its now, and the document it claimed.
CpStates == [pc: {"idle", "claim", "deliver", "close", "rearm", "retry"},
             at: 0 .. Horizon, spec: Spec, due: Minute,
             tries: 0 .. MaxAttempts]
\* Those of the daemon's tick: the file as parsed, then the stamp it found.
PassStates == [pc: {"idle", "look", "write", "sweep", "unmark", "fires",
                    "enqueue", "ack"},
               seen: BOOLEAN, spec: Spec, due: Minute,
               fire: Minute \cup {None}]
Spent == [edits: 0 .. MaxEdits, cancels: 0 .. MaxCancels,
          faults: 0 .. MaxFaults]

Fresh(s, due, ff) ==
  [status |-> "pending", fromFile |-> ff, spec |-> s, due |-> due,
   tries |-> 0, fire |-> None, claimed |-> 0, byOp |-> FALSE]

NoDoc  == [Fresh(Any, 0, TRUE) EXCEPT !.status = "absent"]
Stored == doc.status \notin {"absent", "deleted"}
\* The tick holds a claim whose outcome it has not written yet.
InHand == cp.pc \in {"deliver", "close", "rearm", "retry"}

IdleCp   == [pc |-> "idle", at |-> 0, spec |-> Any, due |-> 0, tries |-> 0]
IdlePass == [pc |-> "idle", seen |-> FALSE, spec |-> Any, due |-> 0,
             fire |-> None]

\* A mission with no schedule yet, or one its copilot has just scheduled.
Init ==
  /\ now = 0 /\ file = NoFile
  /\ \/ doc = NoDoc
     \/ \E s \in Spec \ JobSpec :
          \E d \in IF s \in Once THEN 1 .. Horizon ELSE {NextDue[s][0]} :
            doc = Fresh(s, d, FALSE)
  /\ cp = IdleCp /\ pass = IdlePass /\ unlinked = FALSE
  /\ ran = [t \in Minute |-> 0] /\ owed = None /\ asked = None
  /\ crossed = FALSE
  /\ used = [edits |-> 0, cancels |-> 0, faults |-> 0]

Spend(k) == used' = [used EXCEPT ![k] = @ + 1]

-----------------------------------------------------------------------------
(* The file and the clock *)

\* schedule.sh: the redirection truncates the file, the script then prints.
WriteFile ==
  /\ file # Torn /\ used.edits < MaxEdits
  /\ doc.fromFile
  /\ file' = Torn /\ Spend("edits")
  /\ UNCHANGED <<now, doc, cp, pass, unlinked, ran, owed, asked, crossed>>

FinishFile ==
  /\ file = Torn
  /\ \E s \in FileSpec : file' = s
  /\ UNCHANGED <<now, doc, cp, pass, unlinked, ran, owed, asked, crossed, used>>

RemoveFile ==
  /\ file # NoFile /\ used.edits < MaxEdits
  /\ file' = NoFile /\ Spend("edits")
  /\ UNCHANGED <<now, doc, cp, pass, unlinked, ran, owed, asked, crossed>>

Advance ==
  /\ now < Horizon /\ now' = now + 1
  /\ UNCHANGED <<file, doc, cp, pass, unlinked, ran, owed, asked, crossed, used>>

-----------------------------------------------------------------------------
(* Cancels *)

\* DELETE /schedule/:id of the mission's monitor: whatever the status is.
OperatorCancel ==
  /\ Stored /\ used.cancels < MaxCancels
  /\ doc' = [doc EXCEPT !.status = "cancelled", !.byOp = TRUE, !.fire = None]
  /\ crossed' = (crossed \/ InHand \/ pass.pc = "write")
  /\ owed' = None /\ asked' = None /\ Spend("cancels")
  /\ UNCHANGED <<now, file, cp, pass, unlinked, ran>>

\* cancel_schedule of the user's copilot: only what is pending.
CopilotCancel ==
  /\ Stored /\ used.cancels < MaxCancels /\ doc.status = "pending"
  /\ doc' = [doc EXCEPT !.status = "cancelled", !.byOp = TRUE, !.fire = None]
  /\ crossed' = (crossed \/ InHand \/ pass.pc = "write")
  /\ owed' = None /\ asked' = None /\ Spend("cancels")
  /\ UNCHANGED <<now, file, cp, pass, unlinked, ran>>

\* CancelScheduledMessage of the mission copilot: the file goes first ...
MissionCancel ==
  /\ Stored /\ used.cancels < MaxCancels /\ ~unlinked
  /\ Spend("cancels")
  /\ IF doc.fromFile
     THEN /\ file' = NoFile /\ unlinked' = TRUE
          /\ UNCHANGED <<doc, owed, asked>>
     ELSE /\ doc' = [doc EXCEPT !.status = "deleted"]
          /\ owed' = None /\ asked' = None
          /\ UNCHANGED <<file, unlinked>>
  /\ UNCHANGED <<now, cp, pass, ran, crossed>>

\* ... then the document is marked, whatever has happened to it meanwhile.
MissionCancelMark ==
  /\ unlinked /\ unlinked' = FALSE
  /\ doc' = [doc EXCEPT !.status = "cancelled"] /\ owed' = None
  /\ UNCHANGED <<now, file, cp, pass, ran, asked, crossed, used>>

-----------------------------------------------------------------------------
(* Delivery: the control plane *)

\* Mutant: leases abandoned by a dead tick are left as they are.
TickForgetsLeases ==
  /\ cp.pc = "idle"
  /\ cp' = [cp EXCEPT !.pc = "claim", !.at = now]
  /\ UNCHANGED <<now, file, doc, pass, unlinked, ran, owed, asked, crossed, used>>

\* A tick begins (none is in flight): abandoned leases are opened again.
TickBegin ==
  /\ cp.pc = "idle"
  /\ cp' = [cp EXCEPT !.pc = "claim", !.at = now]
  /\ doc' = IF Stored /\ doc.status = "delivering" /\ doc.claimed < now - Lease
            THEN [doc EXCEPT !.status = "pending"] ELSE doc
  /\ UNCHANGED <<now, file, pass, unlinked, ran, owed, asked, crossed, used>>

\* Mutant: the cron is armed again as it is claimed, before the post.
ClaimAsDelivered ==
  /\ cp.pc = "claim"
  /\ IF Stored /\ doc.status = "pending" /\ doc.due <= cp.at
     THEN /\ doc' = [doc EXCEPT !.due = NextDue[doc.spec][cp.at]]
          /\ cp' = [cp EXCEPT !.pc = "deliver", !.spec = doc.spec,
                              !.due = doc.due, !.tries = doc.tries]
          /\ owed' = doc.due
     ELSE cp' = IdleCp /\ UNCHANGED <<doc, owed>>
  /\ UNCHANGED <<now, file, pass, unlinked, ran, asked, crossed, used>>

Claim ==
  /\ cp.pc = "claim"
  /\ IF Stored /\ doc.status = "pending" /\ doc.due <= cp.at
     THEN /\ doc' = [doc EXCEPT !.status = "delivering", !.claimed = cp.at]
          /\ cp' = [cp EXCEPT !.pc = "deliver", !.spec = doc.spec,
                              !.due = doc.due, !.tries = doc.tries]
          /\ owed' = doc.due
     ELSE cp' = IdleCp /\ UNCHANGED <<doc, owed>>
  /\ UNCHANGED <<now, file, pass, unlinked, ran, asked, crossed, used>>

NextClaim == [IdleCp EXCEPT !.pc = "claim", !.at = cp.at]

\* A pass has dealt with the fire of minute t and is about to acknowledge it.
Answered(t) == pass.pc = "ack" /\ pass.fire = t

\* The mail is in the mailbox, or the stamp is on the document.
Deliver ==
  /\ doc' = IF cp.spec \in JobSpec /\ Stored
            THEN [doc EXCEPT !.fire = cp.due] ELSE doc
  /\ asked' = IF ~(cp.spec \in JobSpec /\ Stored) THEN asked
              ELSE IF Answered(cp.due) THEN None ELSE cp.due
  /\ owed' = None

\* The machine is woken, then the mail is posted or the job's fire stamped.
Delivers ==
  /\ cp.pc = "deliver" /\ Deliver
  /\ cp' = [cp EXCEPT !.pc = IF cp.spec \in Once THEN "close" ELSE "rearm"]
  /\ UNCHANGED <<now, file, pass, unlinked, ran, crossed, used>>

\* The wake, the post or the stamp throws, before it took effect or after.
DeliveryFails ==
  /\ cp.pc \in {"deliver", "close"} /\ used.faults < MaxFaults
  /\ IF cp.pc = "deliver" THEN Deliver \/ UNCHANGED <<doc, owed, asked>>
                          ELSE UNCHANGED <<doc, owed, asked>>
  /\ cp' = [cp EXCEPT !.pc = "retry"] /\ Spend("faults")
  /\ UNCHANGED <<now, file, pass, unlinked, ran, crossed>>

\* Mutant: no cap on the attempts.
RetryUncapped ==
  /\ cp.pc = "retry"
  /\ cp' = NextClaim
  /\ doc' = IF Stored
            THEN [doc EXCEPT !.status = "pending", !.tries = cp.tries + 1,
                             !.due = cp.at + 1]
            ELSE doc
  /\ UNCHANGED <<now, file, pass, unlinked, ran, owed, asked, crossed, used>>

\* catch: five more tries a minute apart, then "failed" and an anomaly.
Retry ==
  /\ cp.pc = "retry"
  /\ cp' = NextClaim
  /\ doc' = IF ~Stored THEN doc
            ELSE IF cp.tries + 1 > MaxAttempts
            THEN [doc EXCEPT !.status = "failed", !.tries = cp.tries + 1]
            ELSE [doc EXCEPT !.status = "pending", !.tries = cp.tries + 1,
                             !.due = cp.at + 1]
  /\ owed' = IF cp.tries + 1 > MaxAttempts THEN None ELSE owed
  /\ UNCHANGED <<now, file, pass, unlinked, ran, asked, crossed, used>>

\* A one-off is over.
CloseOnce ==
  /\ cp.pc = "close"
  /\ cp' = NextClaim
  /\ doc' = IF Stored THEN [doc EXCEPT !.status = "delivered"] ELSE doc
  /\ UNCHANGED <<now, file, pass, unlinked, ran, owed, asked, crossed, used>>

\* A cron entry is armed at its next occurrence: by _id, whatever the
\* document has become, with the cron the claim returned.
Rearm ==
  /\ cp.pc = "rearm"
  /\ cp' = NextClaim
  /\ doc' = IF Stored
            THEN [doc EXCEPT !.status = "pending", !.tries = 0,
                             !.due = NextDue[cp.spec][now]]
            ELSE doc
  /\ UNCHANGED <<now, file, pass, unlinked, ran, owed, asked, crossed, used>>

\* The write that re-arms fails: logged, the lease is left as it is.
RearmFails ==
  /\ cp.pc = "rearm" /\ used.faults < MaxFaults /\ now < Horizon - Lease
  /\ cp' = NextClaim /\ Spend("faults")
  /\ UNCHANGED <<now, file, doc, pass, unlinked, ran, owed, asked, crossed>>

\* The control plane dies, or a write outside the try throws: the tick ends.
TickDies ==
  /\ cp.pc # "idle" /\ used.faults < MaxFaults /\ now < Horizon - Lease
  /\ cp' = IdleCp /\ Spend("faults")
  /\ UNCHANGED <<now, file, doc, pass, unlinked, ran, owed, asked, crossed>>

-----------------------------------------------------------------------------
(* Import and job fires: the daemon's tick *)

\* The file is read.  A half-written one is refused and does not count as
\* seen; neither does a file that is gone.
ReadFile ==
  /\ pass.pc = "idle"
  /\ doc.fromFile
  /\ pass' = IF file \in FileSpec
             THEN [pass EXCEPT !.pc = "look", !.seen = TRUE, !.spec = file,
                               !.due = NextDue[file][now]]
             ELSE [pass EXCEPT !.pc = "sweep", !.seen = FALSE]
  /\ UNCHANGED <<now, file, doc, cp, unlinked, ran, owed, asked, crossed, used>>

\* Mutant: any cancelled document is armed again, the operator's included.
RearmCancelled ==
  \/ doc.spec # pass.spec
  \/ doc.status \in {"cancelled", "failed", "delivered"}

\* A changed spec, or a document that is no longer armed.
MustRearm ==
  ~doc.byOp /\ (doc.spec # pass.spec
                \/ doc.status \in {"cancelled", "failed", "delivered"})

\* findOne; with no document, the upsert inserts one (the unique index makes
\* the two one step: nothing else creates the label's document).
LookUp ==
  /\ pass.pc = "look"
  /\ IF doc.status = "absent"
     THEN /\ doc' = Fresh(pass.spec, pass.due, TRUE)
          /\ pass' = [pass EXCEPT !.pc = "sweep"]
     ELSE /\ pass' = [pass EXCEPT !.pc = IF MustRearm THEN "write" ELSE "sweep"]
          /\ UNCHANGED doc
  /\ UNCHANGED <<now, file, cp, unlinked, ran, owed, asked, crossed, used>>

\* updateOne by label: the operator's mark is not looked at again.
Update ==
  /\ pass.pc = "write"
  /\ doc' = [doc EXCEPT !.status = "pending", !.spec = pass.spec,
                        !.due = pass.due, !.tries = 0, !.fire = None,
                        !.claimed = 0]
  /\ pass' = [pass EXCEPT !.pc = "sweep"] /\ owed' = None /\ asked' = None
  /\ UNCHANGED <<now, file, cp, unlinked, ran, crossed, used>>

\* A pending document whose file was not seen is cancelled.
Sweep ==
  /\ pass.pc = "sweep"
  /\ LET gone == Stored /\ ~pass.seen /\ doc.status = "pending"
     IN  /\ doc' = IF gone THEN [doc EXCEPT !.status = "cancelled"] ELSE doc
         /\ owed' = IF gone THEN None ELSE owed
  /\ pass' = [pass EXCEPT !.pc = "unmark"]
  /\ UNCHANGED <<now, file, cp, unlinked, ran, asked, crossed, used>>

FiresNext == [IdlePass EXCEPT !.pc = "fires"]

\* With its file not seen, an operator's mark is cleared: the label is free.
Unmark ==
  /\ pass.pc = "unmark"
  /\ doc' = IF Stored /\ ~pass.seen THEN [doc EXCEPT !.byOp = FALSE] ELSE doc
  /\ pass' = FiresNext
  /\ UNCHANGED <<now, file, cp, unlinked, ran, owed, asked, crossed, used>>

FindFire ==
  /\ pass.pc = "fires"
  /\ pass' = IF Stored /\ doc.fire # None /\ doc.spec \in JobSpec
             THEN [pass EXCEPT !.pc = "enqueue", !.fire = doc.fire]
             ELSE IdlePass
  /\ UNCHANGED <<now, file, doc, cp, unlinked, ran, owed, asked, crossed, used>>

\* A fire seen too late is skipped; one already in some directory of the job
\* runner is not enqueued again.
Enqueue ==
  /\ pass.pc = "enqueue"
  /\ ran' = IF now - pass.fire > Late \/ ran[pass.fire] > 0 THEN ran
            ELSE [ran EXCEPT ![pass.fire] = @ + 1]
  /\ asked' = IF asked = pass.fire THEN None ELSE asked
  /\ pass' = [pass EXCEPT !.pc = "ack"]
  /\ UNCHANGED <<now, file, doc, cp, unlinked, owed, crossed, used>>

\* Mutant: the stamp is cleared whichever it is.
AckAny ==
  /\ pass.pc = "ack"
  /\ doc' = IF Stored THEN [doc EXCEPT !.fire = None] ELSE doc
  /\ pass' = IdlePass
  /\ UNCHANGED <<now, file, cp, unlinked, ran, owed, asked, crossed, used>>

\* Compare-and-set on the stamp's due time.
Ack ==
  /\ pass.pc = "ack"
  /\ doc' = IF Stored /\ doc.fire = pass.fire
            THEN [doc EXCEPT !.fire = None] ELSE doc
  /\ pass' = IdlePass
  /\ UNCHANGED <<now, file, cp, unlinked, ran, owed, asked, crossed, used>>

\* The daemon dies, or a step of the pass throws and ends it.
PassDies ==
  /\ pass.pc # "idle" /\ used.faults < MaxFaults
  /\ pass' = IdlePass /\ Spend("faults")
  /\ UNCHANGED <<now, file, doc, cp, unlinked, ran, owed, asked, crossed>>

-----------------------------------------------------------------------------
Tick == \/ TickBegin \/ Claim \/ Delivers \/ Retry \/ CloseOnce \/ Rearm
Pass == \/ ReadFile \/ LookUp \/ Update \/ Sweep \/ Unmark
        \/ FindFire \/ Enqueue \/ Ack
Fault == \/ DeliveryFails \/ RearmFails \/ TickDies \/ PassDies
User == \/ WriteFile \/ RemoveFile
        \/ OperatorCancel \/ CopilotCancel \/ MissionCancel

Next == \/ Tick \/ Pass \/ Fault \/ User
        \/ FinishFile \/ MissionCancelMark \/ Advance

SafeSpec == Init /\ [][Next]_vars
\* Both ticks come back every minute and end; time passes; a tool that has
\* removed the file goes on to its write.  A file may stay refused for good.
FairSpec ==
  /\ SafeSpec
  /\ WF_vars(Tick) /\ WF_vars(Pass) /\ WF_vars(Advance)
  /\ WF_vars(MissionCancelMark)

-----------------------------------------------------------------------------
(* Properties *)

\* Every variable keeps its type.
TypeOK ==
  /\ now \in 0 .. Horizon
  /\ file \in {NoFile, Torn} \cup FileSpec
  /\ doc \in Docs
  /\ cp \in CpStates /\ pass \in PassStates
  /\ unlinked \in BOOLEAN /\ crossed \in BOOLEAN
  /\ ran \in [Minute -> Nat]
  /\ owed \in Minute \cup {None} /\ asked \in Minute \cup {None}
  /\ used \in Spent

\* One job per due time, and one for every stamp: whatever dies between the
\* stamp, the enqueue and the acknowledgement, and however often a reopened
\* lease stamps it again, no due time is enqueued twice; and acknowledging an
\* older stamp never takes a newer one with it.
FiresOnce ==
  /\ \A t \in Minute : ran[t] <= 1
  /\ asked # None => Stored /\ doc.fire = asked

\* At least once: an occurrence the control plane has taken and not posted is
\* still under its lease or will be tried again, whatever died: it is never
\* overwritten by the arming of the next one.
DueNotLost ==
  owed # None =>
    /\ Stored
    /\ \/ doc.status = "delivering"
       \/ doc.status = "pending" /\ (doc.due = owed \/ doc.tries > 0)

\* An operator's cancel stands, over later ticks, imports, edits and deaths,
\* unless it met a delivery or an import that had already read the document.
CancelStands ==
  Stored /\ doc.byOp /\ ~crossed => doc.status = "cancelled"

\* What schedule-ingest.ts:433-434 says of an operator's cancel: it outlasts
\* edits to the file; only removing the file lets the label be scheduled again.
CancelOutlastsAll ==
  Stored /\ doc.fromFile /\ doc.byOp => doc.status = "cancelled"

\* A schedule whose file stays, with no operator's mark, keeps recurring:
\* whatever was interrupted, failed or cancelled before, it is armed ahead of
\* the clock again and again.
Recurs ==
  <>[](file \in FileSpec /\ ~doc.byOp)
    => []<>(doc.status = "pending" /\ doc.due > now)
=============================================================================
