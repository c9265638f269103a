-------------------------- MODULE Schedule_proofs --------------------------
(***************************************************************************)
(* Schedule's safety properties hold for every set of specs and crons,     *)
(* every lease, lateness and attempt cap, and every bound.                 *)
(***************************************************************************)
EXTENDS Schedule, TLAPS

\* What is due is not yet past its attempts.
Attempts ==
  doc.status \in {"pending", "delivering"} => doc.tries <= MaxAttempts

\* A pass that goes to enqueue or acknowledge holds a stamp; the one it is
\* about to acknowledge has been answered.
Stamps ==
  /\ pass.pc \in {"enqueue", "ack"} => pass.fire \in Minute
  /\ pass.pc = "ack" => asked # pass.fire

\* DueNotLost through the steps: an occurrence once posted is owed no more,
\* and one that is owed is the document's due time unless it is a retry.
Owing ==
  /\ cp.pc \in {"close", "rearm"} => owed = None
  /\ owed # None =>
       /\ doc.status \in {"pending", "delivering"}
       /\ doc.due = owed \/ doc.tries > 0

\* CancelStands through the steps: a cancel that met nothing leaves nothing
\* that could still write over it.
Cancelled ==
  doc.byOp /\ ~crossed =>
    /\ doc.status \in {"cancelled", "deleted"}
    /\ ~InHand /\ pass.pc # "write"

IInv == TypeOK /\ Attempts /\ Stamps /\ FiresOnce /\ Owing /\ Cancelled

-----------------------------------------------------------------------------
\* What the type proof needs of the constants.
LEMMA Consts ==
  /\ Horizon \in Nat /\ MaxAttempts \in Nat
  /\ MaxEdits \in Nat /\ MaxCancels \in Nat /\ MaxFaults \in Nat
  /\ Any \in Spec
  /\ \A s \in Spec, t \in 0 .. Horizon : NextDue[s][t] \in Minute
  /\ 0 .. Horizon \subseteq Minute /\ Minute \subseteq Nat
  /\ \A t \in 0 .. Horizon : t + 1 \in Minute
  /\ None \notin Minute
<1>1. Any \in Spec
  BY ScheduleAssumption DEF Any
<1>2. ASSUME NEW s \in Spec, NEW t \in 0 .. Horizon
      PROVE  NextDue[s][t] \in Minute
  <2>1. NextDue[s] \in [0 .. Horizon -> 1 .. Horizon + 1]
    BY ScheduleAssumption
  <2> QED BY <2>1, ScheduleAssumption DEF Minute
<1>3. \A t \in 0 .. Horizon : t + 1 \in Minute
  BY ScheduleAssumption DEF Minute
<1>4. None \notin Minute
  BY ScheduleAssumption DEF Minute, None
<1> QED BY <1>1, <1>2, <1>3, <1>4, ScheduleAssumption DEF Minute

\* The fresh records are of their types.
LEMMA Idle == IdleCp \in CpStates /\ IdlePass \in PassStates
<1>1. Any \in Spec /\ 0 \in Minute /\ 0 \in 0 .. Horizon /\ 0 \in 0 .. MaxAttempts
  BY Consts
<1>2. IdleCp \in CpStates
  BY <1>1 DEF IdleCp, CpStates
<1>3. IdlePass \in PassStates
  BY <1>1 DEF IdlePass, PassStates
<1> QED BY <1>2, <1>3

\* So are those of a tick that goes on.
LEMMA NextTypes ==
  ASSUME cp \in CpStates
  PROVE  NextClaim \in CpStates /\ FiresNext \in PassStates
<1>1. NextClaim \in CpStates
  BY Idle DEF NextClaim, CpStates
<1>2. FiresNext \in PassStates
  BY Idle DEF FiresNext, PassStates
<1> QED BY <1>1, <1>2

\* The mission starts with everything in order.
LEMMA InitInv == Init => IInv
<1> SUFFICES ASSUME Init PROVE IInv
  OBVIOUS
<1> USE DEF Init
<1>1. 0 \in Minute /\ 0 \in 0 .. MaxAttempts /\ 0 \in 0 .. MaxAttempts + 1
      /\ 0 \in 0 .. Horizon /\ Any \in Spec /\ 1 .. Horizon \subseteq Minute
  BY Consts DEF Minute
<1>2. \A s \in Spec, d \in Minute, b \in BOOLEAN :
        /\ Fresh(s, d, b) \in Docs /\ Fresh(s, d, b).status = "pending"
        /\ Fresh(s, d, b).tries = 0 /\ Fresh(s, d, b).byOp = FALSE
  BY <1>1 DEF Fresh, Docs
<1>3. NoDoc \in Docs /\ NoDoc.status = "absent" /\ NoDoc.tries = 0
      /\ NoDoc.byOp = FALSE
  BY <1>1, <1>2 DEF NoDoc, Fresh, Docs
<1>4. \A s \in Spec : NextDue[s][0] \in Minute
  BY <1>1, Consts
<1>5. doc \in Docs /\ doc.tries = 0 /\ doc.byOp = FALSE
  <2>1. CASE doc = NoDoc
    BY <2>1, <1>3
  <2>2. ASSUME NEW s \in Spec, NEW d \in Minute, doc = Fresh(s, d, FALSE)
        PROVE  doc \in Docs /\ doc.tries = 0 /\ doc.byOp = FALSE
    BY <2>2, <1>2
  <2>3. \A s \in Spec :
          (IF s \in Once THEN 1 .. Horizon ELSE {NextDue[s][0]}) \subseteq Minute
    BY <1>1, <1>4
  <2> QED BY <2>1, <2>2, <2>3
<1>6. IdleCp.pc = "idle" /\ IdlePass.pc = "idle"
  BY DEF IdleCp, IdlePass
<1>7. used \in Spent
  BY Consts DEF Spent
<1>8. TypeOK
  BY <1>1, <1>5, <1>7, Idle DEF TypeOK
<1>9. Attempts /\ Cancelled
  BY <1>5, Consts DEF Attempts, Cancelled
<1>10. Stamps /\ FiresOnce /\ Owing
  BY <1>6 DEF Stamps, FiresOnce, Owing
<1> QED BY <1>8, <1>9, <1>10 DEF IInv

\* Every step keeps the types.
LEMMA TypeStep == IInv /\ [Next]_vars => TypeOK'
<1> SUFFICES ASSUME IInv, [Next]_vars PROVE TypeOK'
  OBVIOUS
<1> USE DEF IInv, TypeOK
<1>1. CASE UNCHANGED vars  BY <1>1 DEF vars
<1>2. CASE WriteFile
  BY <1>2, Consts DEF WriteFile, Spend, Spent
<1>3. CASE FinishFile
  BY <1>3 DEF FinishFile
<1>4. CASE RemoveFile
  BY <1>4, Consts DEF RemoveFile, Spend, Spent
<1>5. CASE Advance
  BY <1>5, Consts DEF Advance
<1>6. CASE OperatorCancel
  <2>1. doc' = [doc EXCEPT !.status = "cancelled", !.byOp = TRUE, !.fire = None]
    BY <1>6 DEF OperatorCancel
  <2>2. doc' \in Docs
    BY <2>1 DEF Docs
  <2>3. crossed' \in BOOLEAN
    BY <1>6 DEF OperatorCancel
  <2> QED BY <1>6, <2>2, <2>3, Consts DEF OperatorCancel, Spend, Spent
<1>7. CASE CopilotCancel
  <2>1. doc' = [doc EXCEPT !.status = "cancelled", !.byOp = TRUE, !.fire = None]
    BY <1>7 DEF CopilotCancel
  <2>2. doc' \in Docs
    BY <2>1 DEF Docs
  <2>3. crossed' \in BOOLEAN
    BY <1>7 DEF CopilotCancel
  <2> QED BY <1>7, <2>2, <2>3, Consts DEF CopilotCancel, Spend, Spent
<1>8. CASE MissionCancel
  <2>1. doc' \in Docs
    BY <1>8 DEF MissionCancel, Docs
  <2>2. used' \in Spent
    BY <1>8, Consts DEF MissionCancel, Spend, Spent
  <2> QED BY <1>8, <2>1, <2>2 DEF MissionCancel
<1>9. CASE MissionCancelMark
  BY <1>9 DEF MissionCancelMark, Docs
<1>10. CASE TickBegin
  BY <1>10, Consts DEF TickBegin, Docs, CpStates
<1>11. CASE Claim
  <2>1. CASE Stored /\ doc.status = "pending" /\ doc.due <= cp.at
    <3>1. cp' = [cp EXCEPT !.pc = "deliver", !.spec = doc.spec,
                           !.due = doc.due, !.tries = doc.tries]
          /\ doc' = [doc EXCEPT !.status = "delivering", !.claimed = cp.at]
          /\ owed' = doc.due
      BY <1>11, <2>1 DEF Claim
    <3>2. doc.tries \in 0 .. MaxAttempts
      BY <2>1, Consts DEF Attempts, Docs
    <3>3. cp' \in CpStates
      BY <3>1, <3>2 DEF CpStates, Docs
    <3>4. cp.at \in Minute
      BY Consts DEF CpStates
    <3>5. doc' \in Docs /\ owed' \in Minute
      BY <3>1, <3>4 DEF Docs
    <3> QED BY <1>11, <3>3, <3>5 DEF Claim
  <2>2. CASE ~(Stored /\ doc.status = "pending" /\ doc.due <= cp.at)
    BY <1>11, <2>2, Idle DEF Claim
  <2> QED BY <2>1, <2>2
<1>12. CASE Delivers
  BY <1>12, Consts DEF Delivers, Deliver, Docs, CpStates
<1>13. CASE DeliveryFails
  BY <1>13, Consts DEF DeliveryFails, Deliver, Docs, CpStates, Spend, Spent
<1>14. CASE Retry
  <2>1. cp' \in CpStates
    BY <1>14, NextTypes DEF Retry
  <2>2. cp.at + 1 \in Minute /\ cp.tries + 1 \in 0 .. MaxAttempts + 1
    BY Consts DEF CpStates
  <2>3. doc' \in Docs
    BY <1>14, <2>2 DEF Retry, Docs
  <2> QED BY <1>14, <2>1, <2>3 DEF Retry
<1>15. CASE CloseOnce
  BY <1>15, NextTypes DEF CloseOnce, Docs
<1>16. CASE Rearm
  <2>1. cp' \in CpStates
    BY <1>16, NextTypes DEF Rearm
  <2>2. NextDue[cp.spec][now] \in Minute /\ 0 \in 0 .. MaxAttempts + 1
    BY Consts DEF CpStates
  <2>3. doc' \in Docs
    BY <1>16, <2>2 DEF Rearm, Docs
  <2> QED BY <1>16, <2>1, <2>3 DEF Rearm
<1>17. CASE RearmFails
  BY <1>17, Consts, NextTypes DEF RearmFails, Spend, Spent
<1>18. CASE TickDies
  BY <1>18, Consts, Idle DEF TickDies, Spend, Spent
<1>19. CASE ReadFile
  BY <1>19, Consts DEF ReadFile, FileSpec, PassStates
<1>20. CASE LookUp
  <2>1. 0 \in 0 .. MaxAttempts + 1 /\ 0 \in Minute
    BY Consts
  <2>2. Fresh(pass.spec, pass.due, TRUE) \in Docs
    BY <2>1 DEF Fresh, Docs, PassStates
  <2>3. doc' \in Docs
    BY <1>20, <2>2 DEF LookUp
  <2>4. pass' \in PassStates
    BY <1>20 DEF LookUp, PassStates
  <2> QED BY <1>20, <2>3, <2>4 DEF LookUp
<1>21. CASE Update
  <2>1. 0 \in 0 .. MaxAttempts + 1 /\ 0 \in Minute
    BY Consts
  <2>2. doc' \in Docs
    BY <1>21, <2>1 DEF Update, Docs, PassStates
  <2>3. pass' \in PassStates
    BY <1>21 DEF Update, PassStates
  <2> QED BY <1>21, <2>2, <2>3 DEF Update
<1>22. CASE Sweep
  BY <1>22 DEF Sweep, Docs, PassStates
<1>23. CASE Unmark
  BY <1>23, NextTypes DEF Unmark, Docs
<1>24. CASE FindFire
  <2>1. pass' \in PassStates
    <3>1. CASE Stored /\ doc.fire # None /\ doc.spec \in JobSpec
      <4>1. doc.fire \in Minute /\ pass' = [pass EXCEPT !.pc = "enqueue", !.fire = doc.fire]
        BY <1>24, <3>1 DEF FindFire, Docs
      <4> QED BY <4>1 DEF PassStates
    <3> QED BY <1>24, <3>1, Idle DEF FindFire
  <2> QED BY <1>24, <2>1 DEF FindFire
<1>25. CASE Enqueue
  BY <1>25, Consts DEF Enqueue, Stamps, PassStates
<1>26. CASE Ack
  BY <1>26, Idle DEF Ack, Docs
<1>27. CASE PassDies
  BY <1>27, Consts, Idle DEF PassDies, Spend, Spent
<1> QED
  BY <1>1, <1>2, <1>3, <1>4, <1>5, <1>6, <1>7, <1>8, <1>9, <1>10,
     <1>11, <1>12, <1>13, <1>14, <1>15, <1>16, <1>17, <1>18, <1>19,
     <1>20, <1>21, <1>22, <1>23, <1>24, <1>25, <1>26, <1>27
     DEF Next, Tick, Pass, Fault, User

\* A retry is counted, a stamp once answered is not answered again.
LEMMA AttemptsStep == IInv /\ [Next]_vars => (Attempts /\ Stamps)'
<1> SUFFICES ASSUME IInv, [Next]_vars PROVE (Attempts /\ Stamps)'
  OBVIOUS
<1> USE Consts DEF IInv, TypeOK, Docs, CpStates, PassStates, InHand, Stored,
        Attempts, Stamps, FiresOnce, Owing, Cancelled
<1>1. CASE UNCHANGED vars  BY <1>1 DEF vars
<1>2. CASE WriteFile
  BY <1>2 DEF WriteFile
<1>3. CASE FinishFile
  BY <1>3 DEF FinishFile
<1>4. CASE RemoveFile
  BY <1>4 DEF RemoveFile
<1>5. CASE Advance
  BY <1>5 DEF Advance
<1>6. CASE OperatorCancel
  BY <1>6 DEF OperatorCancel
<1>7. CASE CopilotCancel
  BY <1>7 DEF CopilotCancel
<1>8. CASE MissionCancel
  BY <1>8 DEF MissionCancel
<1>9. CASE MissionCancelMark
  BY <1>9 DEF MissionCancelMark
<1>10. CASE TickBegin
  BY <1>10 DEF TickBegin
<1>11. CASE Claim
  BY <1>11 DEF Claim, IdleCp
<1>12. CASE Delivers
  BY <1>12 DEF Delivers, Deliver, Answered
<1>13. CASE DeliveryFails
  BY <1>13 DEF DeliveryFails, Deliver, Answered
<1>14. CASE Retry
  BY <1>14 DEF Retry, NextClaim, IdleCp
<1>15. CASE CloseOnce
  BY <1>15 DEF CloseOnce, NextClaim, IdleCp
<1>16. CASE Rearm
  BY <1>16 DEF Rearm, NextClaim, IdleCp
<1>17. CASE RearmFails
  BY <1>17 DEF RearmFails, NextClaim, IdleCp
<1>18. CASE TickDies
  BY <1>18 DEF TickDies, IdleCp
<1>19. CASE ReadFile
  BY <1>19 DEF ReadFile
<1>20. CASE LookUp
  BY <1>20 DEF LookUp, MustRearm, Fresh
<1>21. CASE Update
  BY <1>21 DEF Update
<1>22. CASE Sweep
  BY <1>22 DEF Sweep
<1>23. CASE Unmark
  BY <1>23 DEF Unmark, FiresNext, IdlePass
<1>24. CASE FindFire
  BY <1>24 DEF FindFire, IdlePass
<1>25. CASE Enqueue
  BY <1>25 DEF Enqueue
<1>26. CASE Ack
  BY <1>26 DEF Ack, IdlePass
<1>27. CASE PassDies
  BY <1>27 DEF PassDies, IdlePass
<1> QED
  BY <1>1, <1>2, <1>3, <1>4, <1>5, <1>6, <1>7, <1>8, <1>9, <1>10,
     <1>11, <1>12, <1>13, <1>14, <1>15, <1>16, <1>17, <1>18, <1>19,
     <1>20, <1>21, <1>22, <1>23, <1>24, <1>25, <1>26, <1>27
     DEF Next, Tick, Pass, Fault, User

\* Only Enqueue adds a job, and only for a due time that has none; what
\* clears or replaces the stamp also ends the wait for its answer.
LEMMA FiresStep == IInv /\ [Next]_vars => FiresOnce'
<1> SUFFICES ASSUME IInv, [Next]_vars PROVE FiresOnce'
  OBVIOUS
<1> USE Consts DEF IInv, TypeOK, Docs, CpStates, PassStates, InHand, Stored,
        Attempts, Stamps, FiresOnce, Owing, Cancelled
<1>1. CASE UNCHANGED vars  BY <1>1 DEF vars
<1>2. CASE WriteFile
  BY <1>2 DEF WriteFile
<1>3. CASE FinishFile
  BY <1>3 DEF FinishFile
<1>4. CASE RemoveFile
  BY <1>4 DEF RemoveFile
<1>5. CASE Advance
  BY <1>5 DEF Advance
<1>6. CASE OperatorCancel
  <2>1. asked' = None /\ ran' = ran
    BY <1>6 DEF OperatorCancel
  <2> QED BY <2>1
<1>7. CASE CopilotCancel
  <2>1. asked' = None /\ ran' = ran
    BY <1>7 DEF CopilotCancel
  <2> QED BY <2>1
<1>8. CASE MissionCancel
  <2>1. ran' = ran
    BY <1>8 DEF MissionCancel
  <2>2. CASE doc.fromFile
    BY <1>8, <2>1, <2>2 DEF MissionCancel
  <2>3. CASE ~doc.fromFile
    BY <1>8, <2>1, <2>3 DEF MissionCancel
  <2> QED BY <2>2, <2>3
<1>9. CASE MissionCancelMark
  BY <1>9 DEF MissionCancelMark
<1>10. CASE TickBegin
  BY <1>10 DEF TickBegin
<1>11. CASE Claim
  BY <1>11 DEF Claim, IdleCp
<1>12. CASE Delivers
  <2>1. ran' = ran
    BY <1>12 DEF Delivers
  <2>2. Deliver => (asked' # None => Stored' /\ doc'.fire = asked')
    BY DEF Deliver
  <2> QED BY <1>12, <2>1, <2>2 DEF Delivers
<1>13. CASE DeliveryFails
  <2>1. ran' = ran
    BY <1>13 DEF DeliveryFails
  <2>2. Deliver => (asked' # None => Stored' /\ doc'.fire = asked')
    BY DEF Deliver
  <2> QED BY <1>13, <2>1, <2>2 DEF DeliveryFails
<1>14. CASE Retry
  BY <1>14 DEF Retry, NextClaim, IdleCp
<1>15. CASE CloseOnce
  BY <1>15 DEF CloseOnce, NextClaim, IdleCp
<1>16. CASE Rearm
  BY <1>16 DEF Rearm, NextClaim, IdleCp
<1>17. CASE RearmFails
  BY <1>17 DEF RearmFails, NextClaim, IdleCp
<1>18. CASE TickDies
  BY <1>18 DEF TickDies, IdleCp
<1>19. CASE ReadFile
  BY <1>19 DEF ReadFile
<1>20. CASE LookUp
  BY <1>20 DEF LookUp, MustRearm, Fresh
<1>21. CASE Update
  BY <1>21 DEF Update
<1>22. CASE Sweep
  BY <1>22 DEF Sweep
<1>23. CASE Unmark
  BY <1>23 DEF Unmark, FiresNext, IdlePass
<1>24. CASE FindFire
  BY <1>24 DEF FindFire, IdlePass
<1>25. CASE Enqueue
  <2>1. asked' # None => asked' = asked /\ doc' = doc
    BY <1>25 DEF Enqueue
  <2>2. \A t \in Minute : ran'[t] <= 1
    <3>1. CASE ran' = ran
      BY <3>1
    <3>2. CASE ran' # ran
      <4>1. ~(ran[pass.fire] > 0) /\ ran' = [ran EXCEPT ![pass.fire] = ran[pass.fire] + 1]
        BY <1>25, <3>2 DEF Enqueue
      <4>2. pass.fire \in Minute
        BY <1>25 DEF Enqueue
      <4>3. ran[pass.fire] \in Nat /\ ran[pass.fire] = 0
        <5>1. ran \in [Minute -> Nat] /\ ran[pass.fire] \in Nat
          BY <4>2
        <5> QED BY <4>1, <5>1
      <4> QED BY <4>1, <4>3
    <3> QED BY <3>1, <3>2
  <2> QED BY <2>1, <2>2
<1>26. CASE Ack
  BY <1>26 DEF Ack, IdlePass
<1>27. CASE PassDies
  BY <1>27 DEF PassDies, IdlePass
<1> QED
  BY <1>1, <1>2, <1>3, <1>4, <1>5, <1>6, <1>7, <1>8, <1>9, <1>10,
     <1>11, <1>12, <1>13, <1>14, <1>15, <1>16, <1>17, <1>18, <1>19,
     <1>20, <1>21, <1>22, <1>23, <1>24, <1>25, <1>26, <1>27
     DEF Next, Tick, Pass, Fault, User

\* An owed occurrence is only ever moved by a retry, which counts it.
LEMMA OwingStep == IInv /\ [Next]_vars => Owing'
<1> SUFFICES ASSUME IInv, [Next]_vars PROVE Owing'
  OBVIOUS
<1> USE Consts DEF IInv, TypeOK, Docs, CpStates, PassStates, InHand, Stored,
        Attempts, Stamps, FiresOnce, Owing, Cancelled
<1>1. CASE UNCHANGED vars  BY <1>1 DEF vars
<1>2. CASE WriteFile
  BY <1>2 DEF WriteFile
<1>3. CASE FinishFile
  BY <1>3 DEF FinishFile
<1>4. CASE RemoveFile
  BY <1>4 DEF RemoveFile
<1>5. CASE Advance
  BY <1>5 DEF Advance
<1>6. CASE OperatorCancel
  BY <1>6 DEF OperatorCancel
<1>7. CASE CopilotCancel
  BY <1>7 DEF CopilotCancel
<1>8. CASE MissionCancel
  BY <1>8 DEF MissionCancel
<1>9. CASE MissionCancelMark
  BY <1>9 DEF MissionCancelMark
<1>10. CASE TickBegin
  BY <1>10 DEF TickBegin
<1>11. CASE Claim
  <2>1. CASE Stored /\ doc.status = "pending" /\ doc.due <= cp.at
    <3>1. cp'.pc = "deliver" /\ doc'.status = "delivering" /\ doc'.due = doc.due
          /\ owed' = doc.due
      BY <1>11, <2>1 DEF Claim
    <3> QED BY <2>1, <3>1
  <2>2. CASE ~(Stored /\ doc.status = "pending" /\ doc.due <= cp.at)
    BY <1>11, <2>2 DEF Claim, IdleCp
  <2> QED BY <2>1, <2>2
<1>12. CASE Delivers
  BY <1>12 DEF Delivers, Deliver, Answered
<1>13. CASE DeliveryFails
  BY <1>13 DEF DeliveryFails, Deliver, Answered
<1>14. CASE Retry
  BY <1>14 DEF Retry, NextClaim, IdleCp
<1>15. CASE CloseOnce
  BY <1>15 DEF CloseOnce, NextClaim, IdleCp
<1>16. CASE Rearm
  BY <1>16 DEF Rearm, NextClaim, IdleCp
<1>17. CASE RearmFails
  BY <1>17 DEF RearmFails, NextClaim, IdleCp
<1>18. CASE TickDies
  BY <1>18 DEF TickDies, IdleCp
<1>19. CASE ReadFile
  BY <1>19 DEF ReadFile
<1>20. CASE LookUp
  BY <1>20 DEF LookUp, MustRearm, Fresh
<1>21. CASE Update
  BY <1>21 DEF Update
<1>22. CASE Sweep
  BY <1>22 DEF Sweep
<1>23. CASE Unmark
  BY <1>23 DEF Unmark, FiresNext, IdlePass
<1>24. CASE FindFire
  BY <1>24 DEF FindFire, IdlePass
<1>25. CASE Enqueue
  BY <1>25 DEF Enqueue
<1>26. CASE Ack
  BY <1>26 DEF Ack, IdlePass
<1>27. CASE PassDies
  BY <1>27 DEF PassDies, IdlePass
<1> QED
  BY <1>1, <1>2, <1>3, <1>4, <1>5, <1>6, <1>7, <1>8, <1>9, <1>10,
     <1>11, <1>12, <1>13, <1>14, <1>15, <1>16, <1>17, <1>18, <1>19,
     <1>20, <1>21, <1>22, <1>23, <1>24, <1>25, <1>26, <1>27
     DEF Next, Tick, Pass, Fault, User

\* A marked document is neither claimed nor chosen for an update.
LEMMA CancelledStep == IInv /\ [Next]_vars => Cancelled'
<1> SUFFICES ASSUME IInv, [Next]_vars PROVE Cancelled'
  OBVIOUS
<1> USE Consts DEF IInv, TypeOK, Docs, CpStates, PassStates, InHand, Stored,
        Attempts, Stamps, FiresOnce, Owing, Cancelled
<1>1. CASE UNCHANGED vars  BY <1>1 DEF vars
<1>2. CASE WriteFile
  BY <1>2 DEF WriteFile
<1>3. CASE FinishFile
  BY <1>3 DEF FinishFile
<1>4. CASE RemoveFile
  BY <1>4 DEF RemoveFile
<1>5. CASE Advance
  BY <1>5 DEF Advance
<1>6. CASE OperatorCancel
  BY <1>6 DEF OperatorCancel
<1>7. CASE CopilotCancel
  BY <1>7 DEF CopilotCancel
<1>8. CASE MissionCancel
  BY <1>8 DEF MissionCancel
<1>9. CASE MissionCancelMark
  BY <1>9 DEF MissionCancelMark
<1>10. CASE TickBegin
  BY <1>10 DEF TickBegin
<1>11. CASE Claim
  <2>1. CASE Stored /\ doc.status = "pending" /\ doc.due <= cp.at
    <3>1. doc.status = "pending"
      BY <2>1
    <3>2. ~(doc.byOp /\ ~crossed)
      BY <3>1 DEF Cancelled
    <3>3. doc' = [doc EXCEPT !.status = "delivering", !.claimed = cp.at]
      BY <1>11, <2>1 DEF Claim
    <3>4. doc'.byOp = doc.byOp
      BY <3>3
    <3>5. crossed' = crossed
      BY <1>11 DEF Claim
    <3> QED BY <3>2, <3>4, <3>5
  <2>2. CASE ~(Stored /\ doc.status = "pending" /\ doc.due <= cp.at)
    BY <1>11, <2>2 DEF Claim, IdleCp
  <2> QED BY <2>1, <2>2
<1>12. CASE Delivers
  BY <1>12 DEF Delivers, Deliver, Answered
<1>13. CASE DeliveryFails
  BY <1>13 DEF DeliveryFails, Deliver, Answered
<1>14. CASE Retry
  BY <1>14 DEF Retry, NextClaim, IdleCp
<1>15. CASE CloseOnce
  BY <1>15 DEF CloseOnce, NextClaim, IdleCp
<1>16. CASE Rearm
  BY <1>16 DEF Rearm, NextClaim, IdleCp
<1>17. CASE RearmFails
  BY <1>17 DEF RearmFails, NextClaim, IdleCp
<1>18. CASE TickDies
  BY <1>18 DEF TickDies, IdleCp
<1>19. CASE ReadFile
  BY <1>19 DEF ReadFile
<1>20. CASE LookUp
  BY <1>20 DEF LookUp, MustRearm, Fresh
<1>21. CASE Update
  BY <1>21 DEF Update
<1>22. CASE Sweep
  BY <1>22 DEF Sweep
<1>23. CASE Unmark
  BY <1>23 DEF Unmark, FiresNext, IdlePass
<1>24. CASE FindFire
  BY <1>24 DEF FindFire, IdlePass
<1>25. CASE Enqueue
  BY <1>25 DEF Enqueue
<1>26. CASE Ack
  BY <1>26 DEF Ack, IdlePass
<1>27. CASE PassDies
  BY <1>27 DEF PassDies, IdlePass
<1> QED
  BY <1>1, <1>2, <1>3, <1>4, <1>5, <1>6, <1>7, <1>8, <1>9, <1>10,
     <1>11, <1>12, <1>13, <1>14, <1>15, <1>16, <1>17, <1>18, <1>19,
     <1>20, <1>21, <1>22, <1>23, <1>24, <1>25, <1>26, <1>27
     DEF Next, Tick, Pass, Fault, User

\* The whole invariant is kept by every step.
LEMMA Inductive == IInv /\ [Next]_vars => IInv'
  BY TypeStep, AttemptsStep, FiresStep, OwingStep, CancelledStep DEF IInv

\* The invariant holds throughout.
THEOREM Invariant == SafeSpec => []IInv
  BY InitInv, Inductive, PTL DEF SafeSpec

-----------------------------------------------------------------------------
\* Every variable keeps its type, and no document is tried more often than
\* the cap allows.
THEOREM TypeCorrect == SafeSpec => []TypeOK
<1>1. IInv => TypeOK
  BY DEF IInv
<1> QED BY <1>1, Invariant, PTL

\* claimJobFires (schedule-ingest.ts:517-560): one job per due time, and no
\* stamp is acknowledged but the one that was answered.
THEOREM JobsFireOnce == SafeSpec => []FiresOnce
<1>1. IInv => FiresOnce
  BY DEF IInv
<1> QED BY <1>1, Invariant, PTL

\* scheduler.ts:131-147: the lease makes the delivery at-least-once; no
\* occurrence is overwritten by the next one before it is posted.
THEOREM NothingDueIsLost == SafeSpec => []DueNotLost
<1>1. IInv => DueNotLost
  BY DEF IInv, Owing, DueNotLost, Stored
<1> QED BY <1>1, Invariant, PTL

\* An operator's cancel is undone only by a delivery or an import that had
\* read the document before it.
THEOREM CancelsStand == SafeSpec => []CancelStands
<1>1. IInv => CancelStands
  BY DEF IInv, TypeOK, Docs, Cancelled, CancelStands, Stored
<1> QED BY <1>1, Invariant, PTL
=============================================================================
