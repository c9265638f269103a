---------------------------- MODULE Jobs_proofs ----------------------------
(***************************************************************************)
(* Theorems of Jobs, for every set of jobs, every attempt and concurrency  *)
(* cap, every number of deaths and every set of environments.              *)
(*                                                                         *)
(* IInv conjoins the types with seven facts about where the copies of a    *)
(* job are and what the operation under way relies on.  Each has a lemma:  *)
(* one step of the specification, taken from IInv, preserves it; a lemma   *)
(* has a step per action.                                                  *)
(***************************************************************************)
EXTENDS Jobs, FiniteSetTheorems, TLAPS

(* The strengthening.                                                        *)

Claiming(j) == doing \in {"copied", "starting"} /\ subject = j

\* Which operation belongs to which phase, and that a name read from a directory is
\* still there when its turn comes.
Phases ==
    /\ doing \in {"requeued", "failedOut", "telling"} => phase = "recovering"
    /\ doing \in {"copied", "starting", "closing"} => phase = "up"
    /\ phase = "down" => listed = NoListing
    /\ phase = "recovering" => listed["pending"] = {} /\ listed["queue"] = {}
    /\ phase = "up" => listed["running"] = {}
    /\ listed["running"] \subseteq running
    /\ listed["queue"] \subseteq queued
    /\ \A j \in Job :
         /\ Claiming(j) => j \in running
         /\ Claiming(j) /\ source = "queue" => j \notin listed["queue"] \cup pending
         /\ j \in listed["queue"] \cap pending => j \in listed["pending"] \/ Claiming(j)
    /\ doing = "starting" => subject \notin IF source = "queue" THEN queued ELSE pending

\* Nothing is known of an id that was never submitted.
FreshIds ==
    \A j \in Job \ known :
      /\ j \notin pending \cup blank \cup queued \cup running
      /\ runs[j] = 0 /\ ~Recorded(j)
      /\ doing # "nothing" => subject # j

\* How often a job was executed, by where its copies are: recoveryAttempts counts at
\* least the executions that a copy has behind it.
Counted ==
    \A j \in Job :
      /\ runs[j] <= MaxAttempts + 1
      /\ j \in pending => runs[j] = 0 /\ (j \in queued => qTries[j] >= 1)
      /\ j \in queued => runs[j] <= qTries[j]
      /\ j \in running => runs[j] <= rTries[j] + 1
      /\ Claiming(j) => /\ runs[j] <= rTries[j]
                        /\ source = "pending" => runs[j] = 0 /\ (j \in queued => qTries[j] >= 1)

Tracked == {j \in Job : proc[j] # "none"}

\* A tick that still lists or claims something is below the cap; a process has its
\* file in running/, and that file is not one being claimed or recovered.
Slots ==
    /\ slots = Cardinality(Tracked) /\ slots <= MaxConcurrent
    /\ phase = "up" /\ (listed # NoListing \/ doing \in {"copied", "starting"})
         => slots < MaxConcurrent
    /\ \A j \in Tracked : phase = "up" /\ j \in running /\ ~Claiming(j)

\* A job is somewhere, and the operation under way keeps the copy it relies on.
Kept ==
    /\ JobAccounted
    /\ doing = "requeued" => subject \in queued
    /\ doing = "failedOut" => Recorded(subject)
    /\ doing = "closing" => verdict # "none"

\* A job none of whose claims was torn has one copy, but for the moment of a claim's
\* two writes and for a recovery cut between its own; and a recorded job has none,
\* but the one a fail-out has still to delete.
OneCopy ==
    \A j \in Job \ torn :
      /\ j \notin pending \cap queued
      /\ j \in pending \cap running => doing = "copied" /\ subject = j /\ source = "pending"
      /\ j \in queued \cap running =>
            \/ doing = "copied" /\ subject = j /\ source = "queue"
            \/ /\ rTries[j] < MaxAttempts
               /\ phase = "down" \/ (phase = "recovering" /\ j \in listed["running"])
      /\ doing = "closing" /\ subject = j => j \notin pending \cup queued \cup running
      /\ Recorded(j) =>
            /\ j \notin pending \cup queued
            /\ ~(doing \in {"copied", "starting", "closing", "requeued"} /\ subject = j)
            /\ j \in running => /\ status[j] = "poisoned" /\ rTries[j] >= MaxAttempts
                               /\ proc[j] = "none"

IInv == TypeOK /\ Phases /\ FreshIds /\ Counted /\ Slots /\ Kept /\ OneCopy


-----------------------------------------------------------------------------
\* The files keep their types; a recovery stays within MaxAttempts because the orphan
\* that is requeued was below the cap.
LEMMA FileStep ==
    ASSUME IInv, Next
    PROVE  FileTypes'
  <1>. USE DEF fileVars, opVars, procVars, countVars, fateVars
  <1>1. ASSUME NEW j \in Job, Submit(j) PROVE FileTypes'
    BY <1>1 DEF Submit, FileTypes, IInv, TypeOK
  <1>2. ASSUME NEW j \in Job, SpecWritten(j) PROVE FileTypes'
    BY <1>2 DEF SpecWritten, FileTypes, IInv, TypeOK
  <1>3. ASSUME NEW j \in Job, Withdraw(j) PROVE FileTypes'
    BY <1>3 DEF Withdraw, FileTypes, IInv, TypeOK
  <1>4. ASSUME NEW j \in Job, Enqueue(j) PROVE FileTypes'
    BY <1>4, JobsAssumption DEF Enqueue, EnqueuePrivate, FileTypes, IInv, TypeOK
  <1>5. ASSUME NEW j \in Job, NEW k \in Job, Restart(j, k) PROVE FileTypes'
    BY <1>5, JobsAssumption DEF Restart, EnqueuePrivate, FileTypes, IInv, TypeOK
  <1>6. CASE Boot
    BY <1>6 DEF Boot, FileTypes, IInv, TypeOK
  <1>7. CASE RemoveOrphan
    BY <1>7 DEF RemoveOrphan, FileTypes, IInv, TypeOK
  <1>8. CASE Announced
    BY <1>8 DEF Announced, FileTypes, IInv, TypeOK
  <1>9. CASE BootDone
    BY <1>9 DEF BootDone, FileTypes, IInv, TypeOK
  <1>10. ASSUME NEW j \in Job, Recover(j) PROVE FileTypes'
    BY <1>10, JobsAssumption DEF Recover, Requeue, FileTypes, IInv, TypeOK
  <1>11. ASSUME NEW j \in Job, FailOut(j) PROVE FileTypes'
    BY <1>11 DEF FailOut, FileTypes, IInv, TypeOK, Outcome
  <1>12. CASE Tick
    BY <1>12 DEF Tick, FileTypes, IInv, TypeOK
  <1>13. CASE ClaimDelete
    BY <1>13 DEF ClaimDelete, FileTypes, IInv, TypeOK
  <1>14. CASE StartRefused
    BY <1>14 DEF StartRefused, FileTypes, IInv, TypeOK
  <1>15. CASE Start
    BY <1>15 DEF Start, FileTypes, IInv, TypeOK
  <1>16. ASSUME NEW d \in Source, NEW j \in Job, ClaimRefused(d, j) PROVE FileTypes'
    BY <1>16 DEF ClaimRefused, FileTypes, IInv, TypeOK
  <1>17. ASSUME NEW d \in Source, NEW j \in Job, ClaimCopy(d, j) PROVE FileTypes'
    BY <1>17, JobsAssumption DEF ClaimCopy, FileTypes, IInv, TypeOK
  <1>18. CASE RecordExit
    BY <1>18 DEF RecordExit, FileTypes, IInv, TypeOK, OpTypes
  <1>19. CASE Die
    BY <1>19 DEF Die, FileTypes, IInv, TypeOK
  <1>20. ASSUME NEW j \in Job, ProcessEnds(j) PROVE FileTypes'
    BY <1>20 DEF ProcessEnds, FileTypes, IInv, TypeOK
  <1>21. ASSUME NEW j \in Job, Timeout(j) PROVE FileTypes'
    BY <1>21 DEF Timeout, FileTypes, IInv, TypeOK
  <1>22. ASSUME NEW j \in Job, Cancel(j) PROVE FileTypes'
    BY <1>22 DEF Cancel, FileTypes, IInv, TypeOK
  <1>23. ASSUME NEW j \in Job, Close(j) PROVE FileTypes'
    BY <1>23 DEF Close, FileTypes, IInv, TypeOK
  <1>24. ASSUME NEW j \in Job, Posted(j) PROVE FileTypes'
    BY <1>24 DEF Posted, FileTypes, IInv, TypeOK
  <1>. QED
    BY <1>1, <1>2, <1>3, <1>4, <1>5, <1>6, <1>7, <1>8, <1>9, <1>10, <1>11,
       <1>12, <1>13, <1>14, <1>15, <1>16, <1>17, <1>18, <1>19, <1>20, <1>21,
       <1>22, <1>23, <1>24 DEF Next, SubmitNext, BootNext, TickNext, ProcNext

\* The operation under way keeps its types.
LEMMA OpStep ==
    ASSUME IInv, Next
    PROVE  OpTypes'
  <1>. USE DEF fileVars, opVars, procVars, countVars, fateVars
  <1>1. ASSUME NEW j \in Job, Submit(j) PROVE OpTypes'
    BY <1>1 DEF Submit, OpTypes, IInv, TypeOK
  <1>2. ASSUME NEW j \in Job, SpecWritten(j) PROVE OpTypes'
    BY <1>2 DEF SpecWritten, OpTypes, IInv, TypeOK
  <1>3. ASSUME NEW j \in Job, Withdraw(j) PROVE OpTypes'
    BY <1>3 DEF Withdraw, OpTypes, IInv, TypeOK
  <1>4. ASSUME NEW j \in Job, Enqueue(j) PROVE OpTypes'
    BY <1>4 DEF Enqueue, OpTypes, IInv, TypeOK
  <1>5. ASSUME NEW j \in Job, NEW k \in Job, Restart(j, k) PROVE OpTypes'
    BY <1>5 DEF Restart, OpTypes, IInv, TypeOK
  <1>6. CASE Boot
    BY <1>6 DEF Boot, OpTypes, FileTypes, IInv, TypeOK, NoListing
  <1>7. CASE RemoveOrphan
    BY <1>7 DEF RemoveOrphan, OpTypes, IInv, TypeOK, Doing
  <1>8. CASE Announced
    BY <1>8 DEF Announced, OpTypes, IInv, TypeOK, Doing
  <1>9. CASE BootDone
    BY <1>9 DEF BootDone, OpTypes, IInv, TypeOK
  <1>10. ASSUME NEW j \in Job, Recover(j) PROVE OpTypes'
    BY <1>10 DEF Recover, OpTypes, IInv, TypeOK, Doing
  <1>11. ASSUME NEW j \in Job, FailOut(j) PROVE OpTypes'
    BY <1>11 DEF FailOut, OpTypes, IInv, TypeOK, Doing
  <1>12. CASE Tick
    BY <1>12 DEF Tick, OpTypes, FileTypes, IInv, TypeOK, NoListing
  <1>13. CASE ClaimDelete
    BY <1>13 DEF ClaimDelete, OpTypes, IInv, TypeOK, Doing
  <1>14. CASE StartRefused
    BY <1>14 DEF StartRefused, OpTypes, IInv, TypeOK, Doing
  <1>15. CASE Start
    BY <1>15 DEF Start, Rest, OpTypes, IInv, TypeOK, Doing, NoListing
  <1>16. ASSUME NEW d \in Source, NEW j \in Job, ClaimRefused(d, j) PROVE OpTypes'
    BY <1>16 DEF ClaimRefused, Unlist, OpTypes, IInv, TypeOK
  <1>17. ASSUME NEW d \in Source, NEW j \in Job, ClaimCopy(d, j) PROVE OpTypes'
    BY <1>17 DEF ClaimCopy, Unlist, OpTypes, IInv, TypeOK, Doing
  <1>18. CASE RecordExit
    BY <1>18 DEF RecordExit, OpTypes, IInv, TypeOK, Doing
  <1>19. CASE Die
    BY <1>19 DEF Die, OpTypes, IInv, TypeOK, Doing, NoListing
  <1>20. ASSUME NEW j \in Job, ProcessEnds(j) PROVE OpTypes'
    BY <1>20 DEF ProcessEnds, OpTypes, IInv, TypeOK
  <1>21. ASSUME NEW j \in Job, Timeout(j) PROVE OpTypes'
    BY <1>21 DEF Timeout, OpTypes, IInv, TypeOK
  <1>22. ASSUME NEW j \in Job, Cancel(j) PROVE OpTypes'
    BY <1>22 DEF Cancel, OpTypes, IInv, TypeOK
  <1>23. ASSUME NEW j \in Job, Close(j) PROVE OpTypes'
    BY <1>23 DEF Close, ExitOutcome, OpTypes, IInv, TypeOK, Doing, Outcome
  <1>24. ASSUME NEW j \in Job, Posted(j) PROVE OpTypes'
    BY <1>24 DEF Posted, OpTypes, IInv, TypeOK
  <1>. QED
    BY <1>1, <1>2, <1>3, <1>4, <1>5, <1>6, <1>7, <1>8, <1>9, <1>10, <1>11,
       <1>12, <1>13, <1>14, <1>15, <1>16, <1>17, <1>18, <1>19, <1>20, <1>21,
       <1>22, <1>23, <1>24 DEF Next, SubmitNext, BootNext, TickNext, ProcNext

\* The tracked processes are finitely many, so that they can be counted.
LEMMA TrackedFinite == IsFiniteSet(Tracked)
  BY JobsAssumption, FS_Subset DEF Tracked

\* The process table keeps its types; the slot counter is not zero when a process is
\* closed, for that process is one of those it counts.
LEMMA ProcStep ==
    ASSUME IInv, Next
    PROVE  ProcTypes'
  <1>. USE DEF fileVars, opVars, procVars, countVars, fateVars
  <1>1. ASSUME NEW j \in Job, Submit(j) PROVE ProcTypes'
    BY <1>1 DEF Submit, IInv, TypeOK, ProcTypes
  <1>2. ASSUME NEW j \in Job, SpecWritten(j) PROVE ProcTypes'
    BY <1>2 DEF SpecWritten, IInv, TypeOK, ProcTypes
  <1>3. ASSUME NEW j \in Job, Withdraw(j) PROVE ProcTypes'
    BY <1>3 DEF Withdraw, IInv, TypeOK, ProcTypes
  <1>4. ASSUME NEW j \in Job, Enqueue(j) PROVE ProcTypes'
    BY <1>4 DEF Enqueue, IInv, TypeOK, ProcTypes
  <1>5. ASSUME NEW j \in Job, NEW k \in Job, Restart(j, k) PROVE ProcTypes'
    BY <1>5 DEF Restart, IInv, TypeOK, ProcTypes
  <1>6. CASE Boot
    BY <1>6 DEF Boot, IInv, TypeOK, ProcTypes
  <1>7. CASE RemoveOrphan
    BY <1>7 DEF RemoveOrphan, IInv, TypeOK, ProcTypes
  <1>8. CASE Announced
    BY <1>8 DEF Announced, IInv, TypeOK, ProcTypes
  <1>9. CASE BootDone
    BY <1>9 DEF BootDone, IInv, TypeOK, ProcTypes
  <1>10. ASSUME NEW j \in Job, Recover(j) PROVE ProcTypes'
    BY <1>10 DEF Recover, IInv, TypeOK, ProcTypes
  <1>11. ASSUME NEW j \in Job, FailOut(j) PROVE ProcTypes'
    BY <1>11 DEF FailOut, IInv, TypeOK, ProcTypes
  <1>12. CASE Tick
    BY <1>12 DEF Tick, IInv, TypeOK, ProcTypes
  <1>13. CASE ClaimDelete
    BY <1>13 DEF ClaimDelete, IInv, TypeOK, ProcTypes
  <1>14. CASE StartRefused
    BY <1>14 DEF StartRefused, IInv, TypeOK, ProcTypes
  <1>15. CASE Start
    BY <1>15 DEF Start, IInv, TypeOK, OpTypes, ProcTypes
  <1>16. ASSUME NEW d \in Source, NEW j \in Job, ClaimRefused(d, j) PROVE ProcTypes'
    BY <1>16 DEF ClaimRefused, IInv, TypeOK, ProcTypes
  <1>17. ASSUME NEW d \in Source, NEW j \in Job, ClaimCopy(d, j) PROVE ProcTypes'
    BY <1>17 DEF ClaimCopy, IInv, TypeOK, ProcTypes
  <1>18. CASE RecordExit
    BY <1>18 DEF RecordExit, IInv, TypeOK, ProcTypes
  <1>19. CASE Die
    BY <1>19 DEF Die, ProcTypes
  <1>20. ASSUME NEW j \in Job, ProcessEnds(j) PROVE ProcTypes'
    BY <1>20 DEF ProcessEnds, IInv, TypeOK, ProcTypes
  <1>21. ASSUME NEW j \in Job, Timeout(j) PROVE ProcTypes'
    BY <1>21 DEF Timeout, Killed, IInv, TypeOK, ProcTypes
  <1>22. ASSUME NEW j \in Job, Cancel(j) PROVE ProcTypes'
    BY <1>22 DEF Cancel, Killed, IInv, TypeOK, ProcTypes
  <1>23. ASSUME NEW j \in Job, Close(j) PROVE ProcTypes'
    <2>1. slots \in Nat /\ slots = Cardinality(Tracked) /\ j \in Tracked
      BY <1>23 DEF Close, Tracked, IInv, TypeOK, ProcTypes, Slots
    <2>2. slots # 0
      BY <2>1, TrackedFinite, FS_EmptySet
    <2>3. slots' \in Nat
      BY <1>23, <2>1, <2>2 DEF Close
    <2>. QED  BY <1>23, <2>3 DEF Close, IInv, TypeOK, ProcTypes
  <1>24. ASSUME NEW j \in Job, Posted(j) PROVE ProcTypes'
    BY <1>24 DEF Posted, IInv, TypeOK, ProcTypes
  <1>. QED
    BY <1>1, <1>2, <1>3, <1>4, <1>5, <1>6, <1>7, <1>8, <1>9, <1>10, <1>11,
       <1>12, <1>13, <1>14, <1>15, <1>16, <1>17, <1>18, <1>19, <1>20, <1>21,
       <1>22, <1>23, <1>24 DEF Next, SubmitNext, BootNext, TickNext, ProcNext

\* The history keeps its types.
LEMMA FateStep ==
    ASSUME IInv, Next
    PROVE  FateTypes'
  <1>. USE DEF fileVars, opVars, procVars, countVars, fateVars
  <1>1. ASSUME NEW j \in Job, Submit(j) PROVE FateTypes'
    BY <1>1 DEF Submit, IInv, TypeOK, FateTypes
  <1>2. ASSUME NEW j \in Job, SpecWritten(j) PROVE FateTypes'
    BY <1>2 DEF SpecWritten, IInv, TypeOK, FateTypes
  <1>3. ASSUME NEW j \in Job, Withdraw(j) PROVE FateTypes'
    BY <1>3 DEF Withdraw, IInv, TypeOK, FateTypes
  <1>4. ASSUME NEW j \in Job, Enqueue(j) PROVE FateTypes'
    BY <1>4 DEF Enqueue, EnqueuePrivate, IInv, TypeOK, FateTypes
  <1>5. ASSUME NEW j \in Job, NEW k \in Job, Restart(j, k) PROVE FateTypes'
    BY <1>5 DEF Restart, EnqueuePrivate, IInv, TypeOK, FateTypes
  <1>6. CASE Boot
    BY <1>6 DEF Boot, IInv, TypeOK, FateTypes
  <1>7. CASE RemoveOrphan
    BY <1>7 DEF RemoveOrphan, IInv, TypeOK, FateTypes
  <1>8. CASE Announced
    BY <1>8 DEF Announced, IInv, TypeOK, OpTypes, FateTypes
  <1>9. CASE BootDone
    BY <1>9 DEF BootDone, IInv, TypeOK, FateTypes
  <1>10. ASSUME NEW j \in Job, Recover(j) PROVE FateTypes'
    BY <1>10 DEF Recover, IInv, TypeOK, FateTypes
  <1>11. ASSUME NEW j \in Job, FailOut(j) PROVE FateTypes'
    BY <1>11 DEF FailOut, IInv, TypeOK, FateTypes
  <1>12. CASE Tick
    BY <1>12 DEF Tick, IInv, TypeOK, FateTypes
  <1>13. CASE ClaimDelete
    BY <1>13 DEF ClaimDelete, IInv, TypeOK, FateTypes
  <1>14. CASE StartRefused
    BY <1>14 DEF StartRefused, IInv, TypeOK, OpTypes, FateTypes
  <1>15. CASE Start
    BY <1>15 DEF Start, IInv, TypeOK, OpTypes, FateTypes
  <1>16. ASSUME NEW d \in Source, NEW j \in Job, ClaimRefused(d, j) PROVE FateTypes'
    BY <1>16 DEF ClaimRefused, IInv, TypeOK, FateTypes
  <1>17. ASSUME NEW d \in Source, NEW j \in Job, ClaimCopy(d, j) PROVE FateTypes'
    BY <1>17 DEF ClaimCopy, IInv, TypeOK, FateTypes
  <1>18. CASE RecordExit
    BY <1>18 DEF RecordExit, IInv, TypeOK, OpTypes, FateTypes
  <1>19. CASE Die
    BY <1>19 DEF Die, IInv, TypeOK, FileTypes, OpTypes, FateTypes
  <1>20. ASSUME NEW j \in Job, ProcessEnds(j) PROVE FateTypes'
    BY <1>20 DEF ProcessEnds, IInv, TypeOK, FateTypes
  <1>21. ASSUME NEW j \in Job, Timeout(j) PROVE FateTypes'
    BY <1>21 DEF Timeout, IInv, TypeOK, FateTypes
  <1>22. ASSUME NEW j \in Job, Cancel(j) PROVE FateTypes'
    BY <1>22 DEF Cancel, IInv, TypeOK, FateTypes
  <1>23. ASSUME NEW j \in Job, Close(j) PROVE FateTypes'
    BY <1>23 DEF Close, IInv, TypeOK, FateTypes
  <1>24. ASSUME NEW j \in Job, Posted(j) PROVE FateTypes'
    BY <1>24 DEF Posted, IInv, TypeOK, FateTypes
  <1>. QED
    BY <1>1, <1>2, <1>3, <1>4, <1>5, <1>6, <1>7, <1>8, <1>9, <1>10, <1>11,
       <1>12, <1>13, <1>14, <1>15, <1>16, <1>17, <1>18, <1>19, <1>20, <1>21,
       <1>22, <1>23, <1>24 DEF Next, SubmitNext, BootNext, TickNext, ProcNext

\* A step keeps the operation and its phase together.
LEMMA PhasesStep ==
    ASSUME IInv, Next
    PROVE  Phases'
  <1>. USE DEF fileVars, opVars, procVars, countVars, fateVars
  <1>1. ASSUME NEW j \in Job, Submit(j) PROVE Phases'
    BY <1>1 DEF Submit, IInv, Phases, Claiming, FreshIds
  <1>2. ASSUME NEW j \in Job, SpecWritten(j) PROVE Phases'
    BY <1>2 DEF SpecWritten, IInv, Phases, Claiming
  <1>3. ASSUME NEW j \in Job, Withdraw(j) PROVE Phases'
    BY <1>3 DEF Withdraw, IInv, Phases, Claiming
  <1>4. ASSUME NEW j \in Job, Enqueue(j) PROVE Phases'
    BY <1>4 DEF Enqueue, EnqueuePrivate, IInv, Phases, Claiming, FreshIds
  <1>5. ASSUME NEW j \in Job, NEW k \in Job, Restart(j, k) PROVE Phases'
    BY <1>5 DEF Restart, EnqueuePrivate, IInv, Phases, Claiming, FreshIds
  <1>6. CASE Boot
    BY <1>6 DEF Boot, IInv, Phases, Claiming, NoListing, Listing, Source
  <1>7. CASE RemoveOrphan
    BY <1>7 DEF RemoveOrphan, IInv, TypeOK, OpTypes, Phases, Claiming, Listing
  <1>8. CASE Announced
    BY <1>8 DEF Announced, IInv, Phases, Claiming
  <1>9. CASE BootDone
    BY <1>9 DEF BootDone, Phases, Claiming, NoListing, Listing, Source
  <1>10. ASSUME NEW j \in Job, Recover(j) PROVE Phases'
    BY <1>10 DEF Recover, Recovering, IInv, Phases, Claiming
  <1>11. ASSUME NEW j \in Job, FailOut(j) PROVE Phases'
    BY <1>11 DEF FailOut, Recovering, IInv, Phases, Claiming
  <1>12. CASE Tick
    BY <1>12 DEF Tick, Idle, Phases, Claiming, NoListing, Listing, Source
  <1>13. CASE ClaimDelete
    BY <1>13 DEF ClaimDelete, IInv, TypeOK, FileTypes, Phases, Claiming
  <1>14. CASE StartRefused
    BY <1>14 DEF StartRefused, IInv, Phases, Claiming
  <1>15. CASE Start
    BY <1>15 DEF Start, Rest, IInv, Phases, Claiming, NoListing, Listing, Source
  <1>16. ASSUME NEW d \in Source, NEW j \in Job, ClaimRefused(d, j) PROVE Phases'
    BY <1>16 DEF ClaimRefused, Unlist, IInv, TypeOK, OpTypes, Phases, Claiming, NoListing,
       Listing, Source
  <1>17. ASSUME NEW d \in Source, NEW j \in Job, ClaimCopy(d, j) PROVE Phases'
    BY <1>17 DEF ClaimCopy, Candidate, Unlist, IInv, TypeOK, OpTypes, Phases, Claiming,
       Listing
  <1>18. CASE RecordExit
    BY <1>18 DEF RecordExit, IInv, Phases, Claiming
  <1>19. CASE Die
    BY <1>19 DEF Die, Phases, Claiming, NoListing, Listing, Source
  <1>20. ASSUME NEW j \in Job, ProcessEnds(j) PROVE Phases'
    BY <1>20 DEF ProcessEnds, IInv, Phases, Claiming
  <1>21. ASSUME NEW j \in Job, Timeout(j) PROVE Phases'
    BY <1>21 DEF Timeout, IInv, Phases, Claiming
  <1>22. ASSUME NEW j \in Job, Cancel(j) PROVE Phases'
    BY <1>22 DEF Cancel, IInv, Phases, Claiming
  <1>23. ASSUME NEW j \in Job, Close(j) PROVE Phases'
    BY <1>23 DEF Close, Idle, Phases, Claiming, NoListing, Listing, Source
  <1>24. ASSUME NEW j \in Job, Posted(j) PROVE Phases'
    BY <1>24 DEF Posted, IInv, Phases, Claiming
  <1>. QED
    BY <1>1, <1>2, <1>3, <1>4, <1>5, <1>6, <1>7, <1>8, <1>9, <1>10, <1>11,
       <1>12, <1>13, <1>14, <1>15, <1>16, <1>17, <1>18, <1>19, <1>20, <1>21,
       <1>22, <1>23, <1>24 DEF Next, SubmitNext, BootNext, TickNext, ProcNext

\* A step says nothing of an id it does not make known.
LEMMA FreshStep ==
    ASSUME IInv, Next
    PROVE  FreshIds'
  <1>. USE DEF fileVars, opVars, procVars, countVars, fateVars
  <1>1. ASSUME NEW j \in Job, Submit(j) PROVE FreshIds'
    BY <1>1 DEF Submit, IInv, FreshIds, Recorded
  <1>2. ASSUME NEW j \in Job, SpecWritten(j) PROVE FreshIds'
    BY <1>2 DEF SpecWritten, IInv, FreshIds, Recorded
  <1>3. ASSUME NEW j \in Job, Withdraw(j) PROVE FreshIds'
    BY <1>3 DEF Withdraw, IInv, FreshIds, Recorded
  <1>4. ASSUME NEW j \in Job, Enqueue(j) PROVE FreshIds'
    BY <1>4 DEF Enqueue, EnqueuePrivate, IInv, FreshIds, Recorded
  <1>5. ASSUME NEW j \in Job, NEW k \in Job, Restart(j, k) PROVE FreshIds'
    BY <1>5 DEF Restart, EnqueuePrivate, IInv, FreshIds, Recorded
  <1>6. CASE Boot
    BY <1>6 DEF Boot, IInv, FreshIds, Recorded
  <1>7. CASE RemoveOrphan
    BY <1>7 DEF RemoveOrphan, IInv, FreshIds, Recorded
  <1>8. CASE Announced
    BY <1>8 DEF Announced, IInv, FreshIds, Recorded
  <1>9. CASE BootDone
    BY <1>9 DEF BootDone, IInv, FreshIds, Recorded
  <1>10. ASSUME NEW j \in Job, Recover(j) PROVE FreshIds'
    BY <1>10 DEF Recover, Recovering, Requeue, IInv, Phases, FreshIds, Recorded
  <1>11. ASSUME NEW j \in Job, FailOut(j) PROVE FreshIds'
    BY <1>11 DEF FailOut, Recovering, IInv, Phases, FreshIds, Recorded
  <1>12. CASE Tick
    BY <1>12 DEF Tick, IInv, FreshIds, Recorded
  <1>13. CASE ClaimDelete
    BY <1>13 DEF ClaimDelete, IInv, FreshIds, Recorded
  <1>14. CASE StartRefused
    BY <1>14 DEF StartRefused, IInv, FreshIds, Recorded
  <1>15. CASE Start
    BY <1>15 DEF Start, IInv, FreshIds, Recorded
  <1>16. ASSUME NEW d \in Source, NEW j \in Job, ClaimRefused(d, j) PROVE FreshIds'
    BY <1>16 DEF ClaimRefused, IInv, FreshIds, Recorded
  <1>17. ASSUME NEW d \in Source, NEW j \in Job, ClaimCopy(d, j) PROVE FreshIds'
    BY <1>17 DEF ClaimCopy, Candidate, IInv, Phases, FreshIds, Recorded, Source
  <1>18. CASE RecordExit
    BY <1>18 DEF RecordExit, IInv, FreshIds, Recorded
  <1>19. CASE Die
    BY <1>19 DEF Die, IInv, FreshIds, Recorded
  <1>20. ASSUME NEW j \in Job, ProcessEnds(j) PROVE FreshIds'
    BY <1>20 DEF ProcessEnds, IInv, FreshIds, Recorded
  <1>21. ASSUME NEW j \in Job, Timeout(j) PROVE FreshIds'
    BY <1>21 DEF Timeout, IInv, FreshIds, Recorded
  <1>22. ASSUME NEW j \in Job, Cancel(j) PROVE FreshIds'
    BY <1>22 DEF Cancel, IInv, FreshIds, Recorded
  <1>23. ASSUME NEW j \in Job, Close(j) PROVE FreshIds'
    BY <1>23 DEF Close, IInv, FreshIds, Recorded, Slots, Tracked
  <1>24. ASSUME NEW j \in Job, Posted(j) PROVE FreshIds'
    BY <1>24 DEF Posted, IInv, FreshIds, Recorded
  <1>. QED
    BY <1>1, <1>2, <1>3, <1>4, <1>5, <1>6, <1>7, <1>8, <1>9, <1>10, <1>11,
       <1>12, <1>13, <1>14, <1>15, <1>16, <1>17, <1>18, <1>19, <1>20, <1>21,
       <1>22, <1>23, <1>24 DEF Next, SubmitNext, BootNext, TickNext, ProcNext

\* A step keeps the count of executions below the attempts its copies carry.  Start is
\* the step that executes: the copy it starts is the only one that could disagree.
LEMMA CountedStep ==
    ASSUME IInv, Next
    PROVE  Counted'
  <1>. USE DEF fileVars, opVars, procVars, countVars, fateVars
  <1>1. ASSUME NEW j \in Job, Submit(j) PROVE Counted'
    BY <1>1 DEF Submit, IInv, Claiming, FreshIds, Counted
  <1>2. ASSUME NEW j \in Job, SpecWritten(j) PROVE Counted'
    BY <1>2 DEF SpecWritten, IInv, Claiming, Counted
  <1>3. ASSUME NEW j \in Job, Withdraw(j) PROVE Counted'
    BY <1>3 DEF Withdraw, IInv, Claiming, Counted
  <1>4. ASSUME NEW j \in Job, Enqueue(j) PROVE Counted'
    BY <1>4 DEF Enqueue, EnqueuePrivate, IInv, TypeOK, FileTypes, Claiming, FreshIds,
       Counted
  <1>5. ASSUME NEW j \in Job, NEW k \in Job, Restart(j, k) PROVE Counted'
    BY <1>5 DEF Restart, EnqueuePrivate, IInv, TypeOK, FileTypes, Claiming, FreshIds,
       Counted
  <1>6. CASE Boot
    BY <1>6 DEF Boot, IInv, Claiming, Counted
  <1>7. CASE RemoveOrphan
    BY <1>7 DEF RemoveOrphan, IInv, Claiming, Counted
  <1>8. CASE Announced
    BY <1>8 DEF Announced, IInv, Claiming, Counted
  <1>9. CASE BootDone
    BY <1>9 DEF BootDone, IInv, Claiming, Counted
  <1>10. ASSUME NEW j \in Job, Recover(j) PROVE Counted'
    BY <1>10 DEF Recover, Recovering, Requeue, IInv, TypeOK, FileTypes, Phases, Claiming,
       Counted
  <1>11. ASSUME NEW j \in Job, FailOut(j) PROVE Counted'
    BY <1>11 DEF FailOut, IInv, Claiming, Counted
  <1>12. CASE Tick
    BY <1>12 DEF Tick, IInv, Claiming, Counted
  <1>13. CASE ClaimDelete
    BY <1>13 DEF ClaimDelete, IInv, Claiming, Counted
  <1>14. CASE StartRefused
    BY <1>14 DEF StartRefused, IInv, Claiming, Counted
  <1>15. CASE Start
    <2>. DEFINE Fine(i) ==
            /\ runs'[i] <= MaxAttempts + 1
            /\ i \in queued => runs'[i] <= qTries[i]
            /\ i \in running => runs'[i] <= rTries[i] + 1
            /\ i \in pending => runs'[i] = 0 /\ (i \in queued => qTries[i] >= 1)
    <2>1. subject \in Job /\ Claiming(subject) /\ subject \in running
      BY <1>15 DEF Start, IInv, TypeOK, OpTypes, Phases, Claiming
    <2>2. ASSUME NEW i \in Job, i # subject PROVE Fine(i)
      BY <1>15, <2>2 DEF Start, IInv, Counted
    <2>3. runs'[subject] = runs[subject] + 1 /\ runs[subject] \in Nat
          /\ rTries[subject] \in 0..MaxAttempts /\ qTries[subject] \in 0..MaxAttempts
      BY <1>15, <2>1 DEF Start, IInv, TypeOK, FateTypes, FileTypes
    <2>4. runs[subject] <= rTries[subject] /\ subject \notin (IF source = "queue" THEN queued ELSE pending)
      BY <1>15, <2>1 DEF Start, IInv, Counted, Phases
    <2>5. source = "pending" => runs[subject] = 0 /\ (subject \in queued => qTries[subject] >= 1)
      BY <2>1 DEF IInv, Counted
    <2>6. source = "queue" => subject \notin queued
      BY <2>4
    <2>7. source \in {"pending", "queue"}
      BY DEF IInv, TypeOK, OpTypes, Source
    <2>8. subject \notin pending
      BY <2>1, <2>4, <2>7 DEF IInv, Phases
    <2>9. Fine(subject)
      BY <2>3, <2>4, <2>5, <2>6, <2>7, <2>8, JobsAssumption
    <2>10. \A i \in Job : Fine(i)
      BY <2>2, <2>9
    <2>11. UNCHANGED <<pending, queued, running, qTries, rTries>> /\ doing' = "nothing"
      BY <1>15 DEF Start
    <2>. QED  BY <2>10, <2>11 DEF Counted, Claiming
  <1>16. ASSUME NEW d \in Source, NEW j \in Job, ClaimRefused(d, j) PROVE Counted'
    BY <1>16 DEF ClaimRefused, IInv, Claiming, Counted
  <1>17. ASSUME NEW d \in Source, NEW j \in Job, ClaimCopy(d, j) PROVE Counted'
    BY <1>17 DEF ClaimCopy, Candidate, IInv, TypeOK, FileTypes, FateTypes, Phases,
       Claiming, Counted, Source
  <1>18. CASE RecordExit
    BY <1>18 DEF RecordExit, IInv, Claiming, Counted
  <1>19. CASE Die
    BY <1>19 DEF Die, IInv, Claiming, Counted
  <1>20. ASSUME NEW j \in Job, ProcessEnds(j) PROVE Counted'
    BY <1>20 DEF ProcessEnds, IInv, Claiming, Counted
  <1>21. ASSUME NEW j \in Job, Timeout(j) PROVE Counted'
    BY <1>21 DEF Timeout, IInv, Claiming, Counted
  <1>22. ASSUME NEW j \in Job, Cancel(j) PROVE Counted'
    BY <1>22 DEF Cancel, IInv, Claiming, Counted
  <1>23. ASSUME NEW j \in Job, Close(j) PROVE Counted'
    BY <1>23 DEF Close, IInv, Claiming, Counted
  <1>24. ASSUME NEW j \in Job, Posted(j) PROVE Counted'
    BY <1>24 DEF Posted, IInv, Claiming, Counted
  <1>. QED
    BY <1>1, <1>2, <1>3, <1>4, <1>5, <1>6, <1>7, <1>8, <1>9, <1>10, <1>11,
       <1>12, <1>13, <1>14, <1>15, <1>16, <1>17, <1>18, <1>19, <1>20, <1>21,
       <1>22, <1>23, <1>24 DEF Next, SubmitNext, BootNext, TickNext, ProcNext

\* A step keeps the slot counter equal to the number of tracked processes.
LEMMA SlotsStep ==
    ASSUME IInv, Next
    PROVE  Slots'
  <1>. USE DEF fileVars, opVars, procVars, countVars, fateVars
  <1>1. ASSUME NEW j \in Job, Submit(j) PROVE Slots'
    BY <1>1 DEF Submit, IInv, Claiming, Slots, Tracked
  <1>2. ASSUME NEW j \in Job, SpecWritten(j) PROVE Slots'
    BY <1>2 DEF SpecWritten, IInv, Claiming, Slots, Tracked
  <1>3. ASSUME NEW j \in Job, Withdraw(j) PROVE Slots'
    BY <1>3 DEF Withdraw, IInv, Claiming, Slots, Tracked
  <1>4. ASSUME NEW j \in Job, Enqueue(j) PROVE Slots'
    BY <1>4 DEF Enqueue, IInv, Claiming, Slots, Tracked
  <1>5. ASSUME NEW j \in Job, NEW k \in Job, Restart(j, k) PROVE Slots'
    BY <1>5 DEF Restart, IInv, Claiming, Slots, Tracked
  <1>6. CASE Boot
    BY <1>6 DEF Boot, IInv, Slots, Tracked
  <1>7. CASE RemoveOrphan
    BY <1>7 DEF RemoveOrphan, IInv, Phases, Slots, Tracked
  <1>8. CASE Announced
    BY <1>8 DEF Announced, IInv, Claiming, Slots, Tracked
  <1>9. CASE BootDone
    BY <1>9 DEF BootDone, IInv, Slots, Tracked
  <1>10. ASSUME NEW j \in Job, Recover(j) PROVE Slots'
    BY <1>10 DEF Recover, IInv, Claiming, Slots, Tracked
  <1>11. ASSUME NEW j \in Job, FailOut(j) PROVE Slots'
    BY <1>11 DEF FailOut, IInv, Claiming, Slots, Tracked
  <1>12. CASE Tick
    BY <1>12 DEF Tick, IInv, Claiming, Slots, Tracked
  <1>13. CASE ClaimDelete
    BY <1>13 DEF ClaimDelete, IInv, Claiming, Slots, Tracked
  <1>14. CASE StartRefused
    BY <1>14 DEF StartRefused, IInv, Claiming, Slots, Tracked
  <1>15. CASE Start
    <2>1. subject \in Job \ Tracked
      BY <1>15 DEF Start, IInv, TypeOK, OpTypes, Slots, Claiming
    <2>2. Tracked' = Tracked \cup {subject}
      BY <1>15, <2>1 DEF Start, Tracked, IInv, TypeOK, ProcTypes
    <2>3. Cardinality(Tracked') = Cardinality(Tracked) + 1
      BY <2>1, <2>2, TrackedFinite, FS_AddElement
    <2>4. slots \in Nat /\ slots < MaxConcurrent /\ slots = Cardinality(Tracked)
      BY <1>15 DEF Start, IInv, TypeOK, ProcTypes, Slots, Phases
    <2>5. slots' = slots + 1 /\ (slots' >= MaxConcurrent => listed' = NoListing) /\ doing' = "nothing"
      BY <1>15 DEF Start, Rest
    <2>6. \A i \in Tracked' : phase' = "up" /\ i \in running'
      BY <1>15, <2>1, <2>2 DEF Start, IInv, Slots, Phases, Claiming
    <2>7. UNCHANGED NoListing /\ MaxConcurrent \in Nat
      BY JobsAssumption
    <2>. QED  BY <2>3, <2>4, <2>5, <2>6, <2>7 DEF Slots, Claiming
  <1>16. ASSUME NEW d \in Source, NEW j \in Job, ClaimRefused(d, j) PROVE Slots'
    BY <1>16 DEF ClaimRefused, Unlist, IInv, Claiming, Slots, Tracked, NoListing
  <1>17. ASSUME NEW d \in Source, NEW j \in Job, ClaimCopy(d, j) PROVE Slots'
    BY <1>17 DEF ClaimCopy, Candidate, IInv, Claiming, Slots, Tracked, Listing, NoListing
  <1>18. CASE RecordExit
    BY <1>18 DEF RecordExit, IInv, Claiming, Slots, Tracked
  <1>19. CASE Die
    <2>1. Tracked' = {}
      BY <1>19 DEF Die, Tracked
    <2>. QED  BY <1>19, <2>1, FS_EmptySet, JobsAssumption DEF Die, Slots
  <1>20. ASSUME NEW j \in Job, ProcessEnds(j) PROVE Slots'
    BY <1>20 DEF ProcessEnds, IInv, Claiming, Slots, Tracked
  <1>21. ASSUME NEW j \in Job, Timeout(j) PROVE Slots'
    BY <1>21 DEF Timeout, Killed, IInv, TypeOK, ProcTypes, Claiming, Slots, Tracked
  <1>22. ASSUME NEW j \in Job, Cancel(j) PROVE Slots'
    BY <1>22 DEF Cancel, Killed, IInv, Phases, Claiming, Slots, Tracked, Source, Listing
  <1>23. ASSUME NEW j \in Job, Close(j) PROVE Slots'
    <2>1. j \in Tracked
      BY <1>23 DEF Close, Tracked
    <2>2. Tracked' = Tracked \ {j}
      BY <1>23 DEF Close, Tracked, IInv, TypeOK, ProcTypes
    <2>3. Cardinality(Tracked') = Cardinality(Tracked) - 1
      BY <2>1, <2>2, TrackedFinite, FS_RemoveElement
    <2>4. slots = Cardinality(Tracked) /\ slots <= MaxConcurrent /\ slots \in Nat
      BY DEF IInv, TypeOK, ProcTypes, Slots
    <2>5. slots' = slots - 1 /\ listed' = NoListing /\ doing' = "closing" /\ UNCHANGED NoListing
      BY <1>23 DEF Close, Idle
    <2>6. \A i \in Tracked' : phase' = "up" /\ i \in running'
      BY <1>23, <2>2 DEF Close, IInv, Slots
    <2>. QED  BY <2>3, <2>4, <2>5, <2>6, JobsAssumption DEF Slots, Claiming
  <1>24. ASSUME NEW j \in Job, Posted(j) PROVE Slots'
    BY <1>24 DEF Posted, IInv, Claiming, Slots, Tracked
  <1>. QED
    BY <1>1, <1>2, <1>3, <1>4, <1>5, <1>6, <1>7, <1>8, <1>9, <1>10, <1>11,
       <1>12, <1>13, <1>14, <1>15, <1>16, <1>17, <1>18, <1>19, <1>20, <1>21,
       <1>22, <1>23, <1>24 DEF Next, SubmitNext, BootNext, TickNext, ProcNext

\* A step loses no job.
LEMMA KeptStep ==
    ASSUME IInv, Next
    PROVE  Kept'
  <1>. USE DEF fileVars, opVars, procVars, countVars, fateVars
  <1>1. ASSUME NEW j \in Job, Submit(j) PROVE Kept'
    BY <1>1 DEF Submit, IInv, Kept, JobAccounted, Recorded
  <1>2. ASSUME NEW j \in Job, SpecWritten(j) PROVE Kept'
    BY <1>2 DEF SpecWritten, IInv, Kept, JobAccounted, Recorded
  <1>3. ASSUME NEW j \in Job, Withdraw(j) PROVE Kept'
    BY <1>3 DEF Withdraw, IInv, Kept, JobAccounted, Recorded
  <1>4. ASSUME NEW j \in Job, Enqueue(j) PROVE Kept'
    BY <1>4 DEF Enqueue, EnqueuePrivate, IInv, Kept, JobAccounted, Recorded
  <1>5. ASSUME NEW j \in Job, NEW k \in Job, Restart(j, k) PROVE Kept'
    BY <1>5 DEF Restart, EnqueuePrivate, IInv, Kept, JobAccounted, Recorded
  <1>6. CASE Boot
    BY <1>6 DEF Boot, IInv, Kept, JobAccounted, Recorded
  <1>7. CASE RemoveOrphan
    BY <1>7 DEF RemoveOrphan, IInv, Kept, JobAccounted, Recorded
  <1>8. CASE Announced
    BY <1>8 DEF Announced, IInv, Kept, JobAccounted, Recorded
  <1>9. CASE BootDone
    BY <1>9 DEF BootDone, IInv, Kept, JobAccounted, Recorded
  <1>10. ASSUME NEW j \in Job, Recover(j) PROVE Kept'
    BY <1>10 DEF Recover, Recovering, Requeue, IInv, Kept, JobAccounted, Recorded
  <1>11. ASSUME NEW j \in Job, FailOut(j) PROVE Kept'
    BY <1>11 DEF FailOut, Recovering, IInv, TypeOK, FileTypes, Kept, JobAccounted,
       Recorded
  <1>12. CASE Tick
    BY <1>12 DEF Tick, IInv, Kept, JobAccounted, Recorded
  <1>13. CASE ClaimDelete
    BY <1>13 DEF ClaimDelete, IInv, TypeOK, FateTypes, Phases, Claiming, Kept,
       JobAccounted, Recorded
  <1>14. CASE StartRefused
    BY <1>14 DEF StartRefused, IInv, Kept, JobAccounted, Recorded
  <1>15. CASE Start
    BY <1>15 DEF Start, IInv, Kept, JobAccounted, Recorded
  <1>16. ASSUME NEW d \in Source, NEW j \in Job, ClaimRefused(d, j) PROVE Kept'
    BY <1>16 DEF ClaimRefused, IInv, Kept, JobAccounted, Recorded
  <1>17. ASSUME NEW d \in Source, NEW j \in Job, ClaimCopy(d, j) PROVE Kept'
    BY <1>17 DEF ClaimCopy, Candidate, IInv, Kept, JobAccounted, Recorded
  <1>18. CASE RecordExit
    BY <1>18 DEF RecordExit, IInv, TypeOK, FileTypes, FateTypes, Kept, JobAccounted,
       Recorded
  <1>19. CASE Die
    BY <1>19 DEF Die, IInv, Kept, JobAccounted, Recorded
  <1>20. ASSUME NEW j \in Job, ProcessEnds(j) PROVE Kept'
    BY <1>20 DEF ProcessEnds, IInv, Kept, JobAccounted, Recorded
  <1>21. ASSUME NEW j \in Job, Timeout(j) PROVE Kept'
    BY <1>21 DEF Timeout, IInv, Kept, JobAccounted, Recorded
  <1>22. ASSUME NEW j \in Job, Cancel(j) PROVE Kept'
    BY <1>22 DEF Cancel, IInv, Kept, JobAccounted, Recorded
  <1>23. ASSUME NEW j \in Job, Close(j) PROVE Kept'
    BY <1>23 DEF Close, Idle, ExitOutcome, IInv, Kept, JobAccounted, Recorded
  <1>24. ASSUME NEW j \in Job, Posted(j) PROVE Kept'
    BY <1>24 DEF Posted, IInv, Kept, JobAccounted, Recorded
  <1>. QED
    BY <1>1, <1>2, <1>3, <1>4, <1>5, <1>6, <1>7, <1>8, <1>9, <1>10, <1>11,
       <1>12, <1>13, <1>14, <1>15, <1>16, <1>17, <1>18, <1>19, <1>20, <1>21,
       <1>22, <1>23, <1>24 DEF Next, SubmitNext, BootNext, TickNext, ProcNext

\* A step makes no second copy of a job, unless it is a death that tears a claim.
LEMMA CopyStep ==
    ASSUME IInv, Next
    PROVE  OneCopy'
  <1>. USE DEF fileVars, opVars, procVars, countVars, fateVars
  <1>1. ASSUME NEW j \in Job, Submit(j) PROVE OneCopy'
    BY <1>1 DEF Submit, IInv, FreshIds, OneCopy, Recorded
  <1>2. ASSUME NEW j \in Job, SpecWritten(j) PROVE OneCopy'
    BY <1>2 DEF SpecWritten, IInv, OneCopy, Recorded
  <1>3. ASSUME NEW j \in Job, Withdraw(j) PROVE OneCopy'
    BY <1>3 DEF Withdraw, IInv, OneCopy, Recorded
  <1>4. ASSUME NEW j \in Job, Enqueue(j) PROVE OneCopy'
    BY <1>4 DEF Enqueue, EnqueuePrivate, IInv, FreshIds, OneCopy, Recorded
  <1>5. ASSUME NEW j \in Job, NEW k \in Job, Restart(j, k) PROVE OneCopy'
    BY <1>5 DEF Restart, EnqueuePrivate, IInv, FreshIds, OneCopy, Recorded
  <1>6. CASE Boot
    BY <1>6 DEF Boot, IInv, Listing, OneCopy, Recorded, NoListing
  <1>7. CASE RemoveOrphan
    BY <1>7 DEF RemoveOrphan, IInv, OneCopy, Recorded
  <1>8. CASE Announced
    BY <1>8 DEF Announced, IInv, OneCopy, Recorded
  <1>9. CASE BootDone
    BY <1>9 DEF BootDone, IInv, Listing, OneCopy, Recorded, NoListing
  <1>10. ASSUME NEW j \in Job, Recover(j) PROVE OneCopy'
    BY <1>10, JobsAssumption DEF Recover, Recovering, Requeue, IInv, TypeOK, FileTypes,
       Phases, OneCopy, Recorded
  <1>11. ASSUME NEW j \in Job, FailOut(j) PROVE OneCopy'
    BY <1>11, JobsAssumption DEF FailOut, Recovering, IInv, TypeOK, FileTypes, Phases,
       Slots, Tracked, OneCopy, Recorded
  <1>12. CASE Tick
    BY <1>12 DEF Tick, Idle, IInv, OneCopy, Recorded
  <1>13. CASE ClaimDelete
    BY <1>13 DEF ClaimDelete, IInv, OneCopy, Recorded
  <1>14. CASE StartRefused
    BY <1>14 DEF StartRefused, IInv, OneCopy, Recorded
  <1>15. CASE Start
    BY <1>15 DEF Start, IInv, Phases, OneCopy, Recorded
  <1>16. ASSUME NEW d \in Source, NEW j \in Job, ClaimRefused(d, j) PROVE OneCopy'
    BY <1>16 DEF ClaimRefused, Unlist, IInv, Source, OneCopy, Recorded
  <1>17. ASSUME NEW d \in Source, NEW j \in Job, ClaimCopy(d, j) PROVE OneCopy'
    BY <1>17 DEF ClaimCopy, Candidate, IInv, Phases, Source, OneCopy, Recorded
  <1>18. CASE RecordExit
    BY <1>18 DEF RecordExit, IInv, OneCopy, Recorded
  <1>19. CASE Die
    BY <1>19 DEF Die, IInv, OneCopy, Recorded
  <1>20. ASSUME NEW j \in Job, ProcessEnds(j) PROVE OneCopy'
    BY <1>20 DEF ProcessEnds, IInv, OneCopy, Recorded
  <1>21. ASSUME NEW j \in Job, Timeout(j) PROVE OneCopy'
    BY <1>21 DEF Timeout, Killed, IInv, TypeOK, ProcTypes, OneCopy, Recorded
  <1>22. ASSUME NEW j \in Job, Cancel(j) PROVE OneCopy'
    BY <1>22 DEF Cancel, Killed, IInv, OneCopy, Recorded
  <1>23. ASSUME NEW j \in Job, Close(j) PROVE OneCopy'
    BY <1>23 DEF Close, Idle, IInv, Slots, Tracked, OneCopy, Recorded
  <1>24. ASSUME NEW j \in Job, Posted(j) PROVE OneCopy'
    BY <1>24 DEF Posted, IInv, OneCopy, Recorded
  <1>. QED
    BY <1>1, <1>2, <1>3, <1>4, <1>5, <1>6, <1>7, <1>8, <1>9, <1>10, <1>11,
       <1>12, <1>13, <1>14, <1>15, <1>16, <1>17, <1>18, <1>19, <1>20, <1>21,
       <1>22, <1>23, <1>24 DEF Next, SubmitNext, BootNext, TickNext, ProcNext

-----------------------------------------------------------------------------
\* The initial states satisfy the invariant.
LEMMA InitInv == Init => IInv
  <1>. SUFFICES ASSUME Init PROVE IInv
    OBVIOUS
  <1>1. TypeOK
    BY JobsAssumption DEF Init, TypeOK, FileTypes, OpTypes, ProcTypes, FateTypes, Outcome,
       Doing, Source, NoListing
  <1>2. Phases /\ FreshIds /\ Counted
    BY JobsAssumption DEF Init, Phases, FreshIds, Counted, Claiming, Recorded, NoListing,
       Listing, Source
  <1>3. Tracked = {}
    BY DEF Init, Tracked
  <1>4. Slots
    BY <1>3, FS_EmptySet, JobsAssumption DEF Init, Slots
  <1>5. Kept /\ OneCopy
    BY DEF Init, Kept, JobAccounted, OneCopy
  <1>. QED  BY <1>1, <1>2, <1>4, <1>5 DEF IInv

\* Every step preserves the invariant: the lemmas above, and a step that changes nothing.
LEMMA StepInv == IInv /\ [Next]_vars => IInv'
  <1>1. ASSUME IInv, Next PROVE IInv'
    <2>1. TypeOK'
      BY <1>1, FileStep, OpStep, ProcStep, FateStep DEF TypeOK
    <2>. QED  BY <1>1, <2>1, PhasesStep, FreshStep, CountedStep, SlotsStep, KeptStep,
                 CopyStep DEF IInv
  <1>2. ASSUME IInv, UNCHANGED vars PROVE IInv'
    <2>. USE <1>2 DEF vars, fileVars, opVars, procVars, countVars, fateVars, IInv
    <2>1. TypeOK'
      BY DEF TypeOK, FileTypes, OpTypes, ProcTypes, FateTypes
    <2>2. Phases' /\ FreshIds' /\ Counted'
      BY DEF Phases, FreshIds, Counted, Claiming, Recorded
    <2>3. Slots'
      BY DEF Slots, Tracked, Claiming
    <2>4. Kept'
      BY DEF Kept, JobAccounted, Recorded
    <2>5. OneCopy'
      BY DEF OneCopy, Recorded
    <2>. QED  BY <2>1, <2>2, <2>3, <2>4, <2>5
  <1>. QED  BY <1>1, <1>2

\* The invariant holds in every reachable state.
THEOREM Invariant == Spec => []IInv
  BY InitInv, StepInv, PTL DEF Spec

\* Every variable keeps its type: in particular no spec ever carries more than
\* MaxAttempts recovery attempts (recoverOrphanedJobs).
THEOREM TypeCorrect == Spec => []TypeOK
  <1>1. IInv => TypeOK
    BY DEF IInv
  <1>. QED  BY Invariant, <1>1, PTL

\* No job is executed more than MaxAttempts + 1 times, however often the daemon dies and
\* wherever a death cuts a claim, a run or a recovery.
THEOREM RunsBounded == Spec => []BoundedRuns
  <1>1. IInv => BoundedRuns
    BY DEF IInv, Counted, BoundedRuns
  <1>. QED  BY Invariant, <1>1, PTL

\* Until its outcome is recorded a job is in some directory, unless it was lost between
\* the two halves of its exit, withdrawn, or refused at the start.
THEOREM NothingVanishes == Spec => []JobAccounted
  <1>1. IInv => JobAccounted
    BY DEF IInv, Kept
  <1>. QED  BY Invariant, <1>1, PTL

\* The slot counter is the number of tracked processes, within the cap, and each of them
\* has its file in running/ for the next boot to find.
THEOREM SlotsBounded == Spec => []SlotsHonest
  <1>1. IInv => SlotsHonest
    BY DEF IInv, Slots, Tracked, SlotsHonest
  <1>. QED  BY Invariant, <1>1, PTL

\* A recorded job has no copy that can be executed, failed out or closed: the four
\* actions that write a status or count an execution leave it alone.
LEMMA OutcomeStep ==
    ASSUME IInv, [Next]_vars
    PROVE  \A j \in Job \ torn : Recorded(j) => status'[j] = status[j] /\ runs'[j] = runs[j]
  <1>. SUFFICES ASSUME NEW j \in Job \ torn, Recorded(j)
                PROVE  status'[j] = status[j] /\ runs'[j] = runs[j]
    OBVIOUS
  <1>. USE DEF fileVars, opVars, procVars, countVars, fateVars
  <1>1. CASE \E i \in Job : FailOut(i)
    BY <1>1 DEF FailOut, Recovering, IInv, Phases, OneCopy
  <1>2. CASE Start
    BY <1>2 DEF Start, IInv, OneCopy
  <1>3. CASE RecordExit
    BY <1>3 DEF RecordExit, IInv, OneCopy
  <1>4. ASSUME [Next]_vars, ~(\E i \in Job : FailOut(i)), ~Start, ~RecordExit
        PROVE  UNCHANGED <<status, runs>>
    <2>1. CASE SubmitNext
      BY <2>1 DEF SubmitNext, Submit, SpecWritten, Withdraw, Enqueue, Restart
    <2>2. CASE BootNext
      BY <2>2, <1>4 DEF BootNext, Boot, RemoveOrphan, Announced, BootDone, Recover
    <2>3. CASE TickNext
      BY <2>3, <1>4 DEF TickNext, Tick, ClaimDelete, StartRefused, ClaimRefused, ClaimCopy
    <2>4. CASE ProcNext
      BY <2>4, <1>4 DEF ProcNext, Die, ProcessEnds, Timeout, Cancel, Close, Posted
    <2>5. CASE UNCHANGED vars
      BY <2>5 DEF vars
    <2>. QED  BY <1>4, <2>1, <2>2, <2>3, <2>4, <2>5 DEF Next
  <1>. QED  BY <1>1, <1>2, <1>3, <1>4

\* A recorded outcome is final: no step records the job again or executes it, but for a
\* job one of whose claims was torn by a death.
THEOREM OutcomesFinal == Spec => OutcomeFinal
  <1>1. IInv /\ [Next]_vars
        => [\A j \in Job \ torn : Recorded(j) => status'[j] = status[j] /\ runs'[j] = runs[j]]_vars
    BY OutcomeStep
  <1>. QED  BY Invariant, <1>1, PTL DEF Spec, OutcomeFinal
=============================================================================
