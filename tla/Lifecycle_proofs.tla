--------------------------- MODULE Lifecycle_proofs ---------------------------
(***************************************************************************)
(* Every variable of Lifecycle keeps its type, and one resize at a time    *)
(* works on a mission, for every set of environments; the mission's work   *)
(* stays where its document says it is, for every orderly one; no machine  *)
(* is abandoned, for every steady one; and a big machine is declared, for  *)
(* every plain one.                                                        *)
(*                                                                         *)
(* ResizeExclusive is not inductive alone.  It needs where each request    *)
(* may be (Places), that the sweeper's steps never overlap (OneSweep),     *)
(* that only a resize that has begun holds the claim (Held), and that the  *)
(* claim the sweeper read as stale belongs to a resize that is over        *)
(* (Dead).  What a step of a request may do to the claim and to its own    *)
(* label is stated once (Moves) and proved for each action; the invariant  *)
(* is then preserved by every step that does no more than that.            *)
(*                                                                         *)
(* KeepsWork needs more: that a mission gets its machine from one launch,  *)
(* and nobody else works before (Begun); that it then has one volume and   *)
(* one machine, which every request works on (OneHome); or, where a server *)
(* may have no room, that one request at a time resumes or wakes it, and   *)
(* forks its volume only while nothing runs (Forks).                       *)
(*                                                                         *)
(* NoMachineAbandoned and BigIsTemporary are about who writes the status,  *)
(* the claim, the upgrade and the machine, and who starts, stops, makes    *)
(* and resizes machines.  What a step of a request may do to each of these *)
(* is stated once (Acts) and proved for each action.  The first needs that *)
(* two resumes, or a resume and a resize, never work at once (Guard, Late) *)
(* and that whoever names a machine is the only one to have one up         *)
(* (Sound); the second, that whoever leaves a machine to a running mission *)
(* has trimmed it or marks it (Trims, Declared), and that a mission that   *)
(* stopped stays stopped, or lost its upgrade (Fallen, Risen).             *)
(***************************************************************************)
EXTENDS Lifecycle, TLAPS

Own == {"look", "again", "lock", "stop", "letGo", "remove", "machine", "record",
        "settle", "failed", "fresh", "halt", "mark"}
Place(r) == /\ r \in Resizes => req[r].pc \in {"idle", "done"} \cup Own
            /\ r \notin Resizes => req[r].pc \notin Own \ {"machine", "failed"}
            /\ req[r].pc = "failStale" => r = "stale"
Places   == \A r \in Request : Place(r)
OneSweep == \A s, t \in Sweeps : InFlight(s) /\ InFlight(t) => s = t
Held     == doc.claim # "none" =>
              /\ doc.claim \in Resizes
              /\ doc.claim \notin Sweeps => req[doc.claim].pc # "idle"
Dead     == "slow" \notin env /\ req["stale"].pc = "failStale" =>
              LET c == req["stale"].doc.claim
              IN  c \in Resizes /\ (c \notin Sweeps => req[c].pc = "done")
IInv == TypeOK /\ Places /\ OneSweep /\ Held /\ Dead /\ ResizeExclusive

-----------------------------------------------------------------------------
(* What a step of request r does to the claim and to the labels.             *)

Keeps(r)    == doc'.claim = doc.claim /\ (Resizing(r)' => Resizing(r))
Locks(r)    == r \in Resizes /\ doc.claim = "none" /\ doc'.claim = r
Releases(r) == Resizing(r) /\ ~Resizing(r)' /\ doc'.claim = "none"
Recovers(r) == /\ r = "stale" /\ req[r].pc = "failStale" /\ ~Resizing(r)'
               /\ doc.claim = req[r].doc.claim /\ doc'.claim = "none"

Moves(r) ==
    /\ env' = env
    /\ \A s \in Request : s # r => req'[s] = req[s]
    /\ Place(r)'
    /\ req[r].pc # "done"
    /\ req'[r].pc = "idle" => r \in Sweeps
    /\ req[r].pc = "idle" /\ r \in Sweeps => \A s \in Sweeps : ~InFlight(s)
    /\ req'[r].pc = "failStale" =>
         /\ req[r].pc = "idle" /\ Stale(doc.claim) /\ req'[r].doc.claim = doc.claim
    /\ Keeps(r) \/ Locks(r) \/ Releases(r) \/ Recovers(r)

\* A step that does no more than Moves preserves the claim's invariants.
LEMMA MovesKeep ==
    ASSUME IInv, TypeOK', NEW r \in Request, Moves(r)
    PROVE  IInv'
PROOF
<1>a. /\ TypeOK /\ Places /\ OneSweep /\ Held /\ Dead /\ ResizeExclusive
      /\ \A s \in Request : s # r => req'[s] = req[s]
      /\ env' = env
  BY DEF IInv, Moves
<1>1. Places'
  BY <1>a DEF Places, Place, Moves
<1>2. OneSweep'
  <2> SUFFICES ASSUME NEW s \in Sweeps, NEW t \in Sweeps, InFlight(s)', InFlight(t)'
               PROVE  s = t
    BY DEF OneSweep
  <2>1. s \in Request /\ t \in Request
    BY DEF Sweeps, Request
  <2>2. CASE req[r].pc = "idle"
    <3>1. r \in Sweeps => ~InFlight(s) /\ ~InFlight(t)
      BY <2>2 DEF Moves
    <3>2. r \notin Sweeps => InFlight(s) /\ InFlight(t)
      BY <1>a, <2>1 DEF InFlight
    <3>3. (s # r => InFlight(s)) /\ (t # r => InFlight(t))
      BY <1>a, <2>1 DEF InFlight
    <3>4. QED
      BY <1>a, <3>1, <3>2, <3>3 DEF OneSweep
  <2>3. CASE req[r].pc # "idle"
    <3>1. InFlight(r)
      BY <2>3 DEF Moves, InFlight
    <3>2. InFlight(s) /\ InFlight(t)
      BY <1>a, <2>1, <3>1 DEF InFlight
    <3>3. QED
      BY <1>a, <3>2 DEF OneSweep
  <2>4. QED
    BY <2>2, <2>3
<1>3. Held'
  BY <1>a DEF Held, Moves, Keeps, Locks, Releases, Recovers, Resizing, Request, Place, Own,
         Sweeps
<1>4. Dead'
  <2> SUFFICES ASSUME "slow" \notin env, req'["stale"].pc = "failStale"
               PROVE  LET c == req'["stale"].doc.claim
                      IN  c \in Resizes /\ (c \notin Sweeps => req'[c].pc = "done")
    BY <1>a DEF Dead
  <2> DEFINE c == req'["stale"].doc.claim
  <2>1. "stale" \in Request /\ "stale" \in Sweeps
    BY DEF Request, Sweeps
  <2>2. CASE r # "stale"
    <3>1. req'["stale"] = req["stale"]
      BY <1>a, <2>1, <2>2
    <3>2. c \in Resizes /\ (c \notin Sweeps => req[c].pc = "done")
      BY <1>a, <3>1 DEF Dead
    <3>3. c # r => req'[c] = req[c]
      BY <1>a, <3>2 DEF Request
    <3>4. c = r => c \in Sweeps
      BY <3>2 DEF Moves
    <3>5. QED
      BY <3>2, <3>3, <3>4
  <2>3. CASE r = "stale"
    <3>1. Stale(doc.claim) /\ c = doc.claim /\ req[r].pc = "idle"
      BY <2>3 DEF Moves
    <3>2. c # "none" /\ ~InFlight(c)
      BY <3>1 DEF Stale
    <3>3. c \in Resizes /\ (c \notin Sweeps => req[c].pc # "idle")
      BY <1>a, <3>1, <3>2 DEF Held
    <3>4. c \notin Sweeps => c # r /\ c \in Request
      BY <2>1, <2>3, <3>3 DEF Request
    <3>5. QED
      BY <1>a, <3>2, <3>3, <3>4 DEF InFlight
  <2>4. QED
    BY <2>2, <2>3
<1>5. ResizeExclusive'
  <2> SUFFICES ASSUME "slow" \notin env, NEW s \in Request, Resizing(s)'
               PROVE  doc'.claim = s
    BY <1>a DEF ResizeExclusive
  <2>1. s # r => Resizing(s)
    BY <1>a DEF Resizing
  <2>2. CASE Keeps(r)
    BY <1>a, <2>1, <2>2 DEF Keeps, ResizeExclusive
  <2>3. CASE Locks(r)
    BY <1>a, <2>1, <2>3 DEF Locks, ResizeExclusive, Resizing, Resizes, Reverts
  <2>4. CASE Releases(r)
    BY <1>a, <2>1, <2>4 DEF Releases, ResizeExclusive
  <2>5. CASE Recovers(r)
    <3> DEFINE c == doc.claim
    <3>1. c \in Resizes /\ (c \notin Sweeps => req[c].pc = "done")
      BY <1>a, <2>5 DEF Dead, Recovers
    <3>2. ~Resizing(c)
      <4>1. CASE c \notin Sweeps
        BY <3>1, <4>1 DEF Resizing, Working
      <4>2. CASE c \in Sweeps
        BY <1>a, <2>5, <3>1, <4>2 DEF Recovers, OneSweep, InFlight, Resizing, Working,
                                Resizes, Reverts, Sweeps
      <4>3. QED
        BY <4>1, <4>2
    <3>3. QED
      BY <1>a, <2>1, <2>5, <3>2 DEF Recovers, ResizeExclusive
  <2>6. QED
    BY <2>2, <2>3, <2>4, <2>5 DEF Moves
<1>6. QED
  BY <1>1, <1>2, <1>3, <1>4, <1>5 DEF IInv

-----------------------------------------------------------------------------
(* What Read, Go and End do to the requests.                                 *)

Turns(r) == /\ req' \in [Request -> [pc : Label, doc : Document, m : Nat, v : Nat]]
            /\ \A s \in Request : s # r => req'[s] = req[s]

FlyOK == machs \in Seq(Machine) /\ vols \in Nat /\ fresh \subseteq Nat

\* A request goes on to its next call.
LEMMA GoTurns ==
    ASSUME TypeOK, NEW r \in Request, NEW l \in Label, Go(r, l)
    PROVE  /\ Turns(r)
           /\ req'[r].pc = l /\ req'[r].doc = req[r].doc
PROOF
  BY DEF Turns, TypeOK, Go

\* ...and works from now on with another machine or volume.
LEMMA WithTurns ==
    ASSUME TypeOK, NEW r \in Request, NEW l \in Label, NEW n \in Nat,
           WithMachine(r, n, l) \/ WithVolume(r, n, l)
    PROVE  /\ Turns(r)
           /\ req'[r].pc = l /\ req'[r].doc = req[r].doc
PROOF
<1>1. req \in [Request -> [pc : Label, doc : Document, m : Nat, v : Nat]]
  BY DEF TypeOK
<1>2. CASE WithMachine(r, n, l)
  <2>1. req' = [req EXCEPT ![r].m = n, ![r].pc = l]
    BY <1>2 DEF WithMachine
  <2>2. QED
    BY ONLY <1>1, <2>1, r \in Request, l \in Label, n \in Nat DEF Turns
<1>3. CASE WithVolume(r, n, l)
  <2>1. req' = [req EXCEPT ![r].v = n, ![r].pc = l]
    BY <1>3 DEF WithVolume
  <2>2. QED
    BY ONLY <1>1, <2>1, r \in Request, l \in Label, n \in Nat DEF Turns
<1>4. QED
  BY <1>2, <1>3

\* A machine is turned on, off or away.
LEMMA TurnTypes ==
    ASSUME TypeOK, NEW m, NEW s \in {"up", "down", "gone"}, Exists(m), Turn(m, s)
    PROVE  FlyOK'
PROOF
<1>1. m \in DOMAIN machs /\ machs[m] \in Machine
  BY DEF Exists, TypeOK
<1>2. [machs[m] EXCEPT !.state = s] \in Machine /\ machs[m].volume \in Nat
  BY <1>1 DEF Machine
<1>3. QED
  BY <1>1, <1>2 DEF Turn, TypeOK, FlyOK

\* A call on a machine is answered, or fails.
LEMMA AskTurns ==
    ASSUME TypeOK, NEW r \in Request, NEW m, NEW s \in {"up", "down", "gone"},
           NEW yes \in Label, NEW no \in Label, Ask(r, m, s, yes, no)
    PROVE  /\ FlyOK' /\ Turns(r)
           /\ req'[r].pc \in {yes, no}
PROOF
  BY GoTurns, TurnTypes DEF Ask, TypeOK, FlyOK, fly

\* A request has read the document.
LEMMA ReadTurns ==
    ASSUME TypeOK, NEW r \in Request, NEW l \in Label, Read(r, l)
    PROVE  /\ Turns(r)
           /\ req'[r].pc = l /\ req'[r].doc = doc
PROOF
  BY DEF Turns, TypeOK, Read, Document

\* A request has answered.
LEMMA EndTurns ==
    ASSUME TypeOK, NEW r \in Request, End(r)
    PROVE  /\ Turns(r)
           /\ req'[r].pc = IF r \in Sweeps THEN "idle" ELSE "done"
PROOF
<1>1. Idle \in [pc : Label, doc : Document, m : Nat, v : Nat]
  BY DEF Idle, NoDoc, Document, Label, Status, Upgrade, NoUpgrade, Author
<1>2. Done = [Idle EXCEPT !.pc = "done"] /\ "done" \in Label
  BY DEF Done, Label
<1>3. QED
  BY <1>1, <1>2 DEF Turns, TypeOK, End, Idle

\* A step on the document keeps the types.
LEMMA DocStep ==
    ASSUME TypeOK, NEW r \in Request, OnDoc(r), Turns(r), doc' \in Document
    PROVE  TypeOK'
PROOF
  BY DEF TypeOK, OnDoc, Turns, fly

\* A step on Fly keeps the types.
LEMMA FlyStep ==
    ASSUME TypeOK, NEW r \in Request, OnFly(r), Turns(r), FlyOK'
    PROVE  TypeOK'
PROOF
  BY DEF TypeOK, OnFly, Turns, FlyOK

-----------------------------------------------------------------------------
(* Which changes of label are within Moves when the claim stays.             *)

\* A request is received and has read the document.
LEMMA ReceivedMoves ==
    ASSUME TypeOK, Places, NEW r \in Request, Receives(r), Turns(r), UNCHANGED env,
           doc'.claim = doc.claim,
           req'[r].pc \notin Working \cup {"idle"}, Place(r)',
           req'[r].pc = "failStale" => Stale(doc.claim) /\ req'[r].doc.claim = doc.claim
    PROVE  Moves(r)
PROOF
  BY DEF Moves, Turns, Receives, At, Keeps, Resizing

\* A request that is no resize goes on.
LEMMA OtherMoves ==
    ASSUME TypeOK, Places, NEW r \in Request, Turns(r), UNCHANGED env,
           doc'.claim = doc.claim,
           req[r].pc \notin Own \cup {"idle", "done"},
           req'[r].pc \notin (Own \ {"machine", "failed"}) \cup {"failStale"},
           req'[r].pc = "idle" => r \in Sweeps
    PROVE  Moves(r)
PROOF
<1>1. r \notin Resizes
  BY DEF Places, Place
<1>2. QED
  BY <1>1 DEF Moves, Turns, Keeps, Resizing, Place

\* A resize goes on.
LEMMA ResizeMoves ==
    ASSUME TypeOK, Places, NEW r \in Request, Turns(r), UNCHANGED env,
           doc'.claim = doc.claim,
           req[r].pc \in Own \ {"machine", "failed"},
           req'[r].pc \in Own \cup {"idle", "done"},
           req'[r].pc \in Working => req[r].pc \in Working,
           req'[r].pc = "idle" => r \in Sweeps
    PROVE  Moves(r)
PROOF
<1>1. r \in Resizes
  BY DEF Places, Place
<1>2. req[r].pc \notin {"idle", "done"} /\ req'[r].pc # "failStale"
  BY DEF Own
<1>3. QED
  BY <1>1, <1>2 DEF Moves, Turns, Keeps, Resizing, Place

\* A call to Fly, made by a request that is no resize, or by a resize.
LEMMA OtherAsks ==
    ASSUME TypeOK, Places, NEW r \in Request, OnFly(r), Turns(r), FlyOK',
           req[r].pc \notin Own \cup {"idle", "done"},
           req'[r].pc \notin (Own \ {"machine", "failed"}) \cup {"failStale"},
           req'[r].pc = "idle" => r \in Sweeps
    PROVE  TypeOK' /\ Moves(r)
PROOF
<1>1. UNCHANGED <<env, doc>>
  BY DEF OnFly
<1>2. Moves(r)
  BY <1>1, OtherMoves
<1>3. TypeOK'
  BY FlyStep
<1>4. QED
  BY <1>2, <1>3

LEMMA ResizeAsks ==
    ASSUME TypeOK, Places, NEW r \in Request, OnFly(r), Turns(r), FlyOK',
           req[r].pc \in Own \ {"machine", "failed"},
           req'[r].pc \in Own \cup {"idle", "done"},
           req'[r].pc \in Working => req[r].pc \in Working,
           req'[r].pc = "idle" => r \in Sweeps
    PROVE  TypeOK' /\ Moves(r)
PROOF
<1>1. UNCHANGED <<env, doc>>
  BY DEF OnFly
<1>2. Moves(r)
  BY <1>1, ResizeMoves
<1>3. TypeOK'
  BY FlyStep
<1>4. QED
  BY <1>2, <1>3

-----------------------------------------------------------------------------
(* The steps of a request.                                                   *)

\* A request is received.
LEMMA BeginStep ==
    ASSUME TypeOK, Places, NEW r \in Request, Begin(r)
    PROVE  TypeOK' /\ Moves(r)
PROOF
<1> USE DEF OnDoc
<1>1. CASE Insert(r)
  <2>1. /\ Receives(r) /\ Go(r, "volume") /\ OnDoc(r)
        /\ doc' = [doc EXCEPT !.status = "provisioning"]
    BY <1>1 DEF Insert
  <2>2. r \notin Resizes
    BY <1>1 DEF Insert, Resizes, Reverts, Creates
  <2>3. doc' \in Document /\ doc'.claim = doc.claim
    BY <2>1 DEF TypeOK, Document, Status
  <2>4. Turns(r) /\ req'[r].pc = "volume"
    BY <2>1, GoTurns DEF Label
  <2>5. QED
    BY <2>1, <2>2, <2>3, <2>4, DocStep, ReceivedMoves DEF Place, Own, Working
<1>2. CASE ReadDraft(r)
  <2>1. CASE r = "copilotLaunch"
    <3>1. Receives(r) /\ Read(r, "volume") /\ doc' = doc /\ OnDoc(r)
      BY <1>2, <2>1 DEF ReadDraft
    <3>2. r \notin Resizes
      BY <1>2 DEF ReadDraft, Resizes, Reverts, Launches
    <3>3. doc' \in Document /\ doc'.claim = doc.claim
      BY <3>1 DEF TypeOK, Document
    <3>4. Turns(r) /\ req'[r].pc = "volume"
      BY <3>1, ReadTurns DEF Label
    <3>5. QED
      BY <3>1, <3>2, <3>3, <3>4, DocStep, ReceivedMoves DEF Place, Own, Working
  <2>2. CASE r # "copilotLaunch"
    <3>1. Receives(r) /\ Read(r, "claim") /\ doc' = doc /\ OnDoc(r)
      BY <1>2, <2>2 DEF ReadDraft
    <3>2. r \notin Resizes
      BY <1>2 DEF ReadDraft, Resizes, Reverts, Launches
    <3>3. doc' \in Document /\ doc'.claim = doc.claim
      BY <3>1 DEF TypeOK, Document
    <3>4. Turns(r) /\ req'[r].pc = "claim"
      BY <3>1, ReadTurns DEF Label
    <3>5. QED
      BY <3>1, <3>2, <3>3, <3>4, DocStep, ReceivedMoves DEF Place, Own, Working
  <2>3. QED
    BY <2>1, <2>2
<1>3. CASE ReadResume(r)
  <2>1. Receives(r) /\ Read(r, "claim") /\ doc' = doc /\ OnDoc(r)
    BY <1>3 DEF ReadResume
  <2>2. r \notin Resizes
    BY <1>3 DEF ReadResume, Resizes, Reverts, Resumes
  <2>3. doc' \in Document /\ doc'.claim = doc.claim
    BY <2>1 DEF TypeOK, Document
  <2>4. Turns(r) /\ req'[r].pc = "claim"
    BY <2>1, ReadTurns DEF Label
  <2>5. QED
    BY <2>1, <2>2, <2>3, <2>4, DocStep, ReceivedMoves DEF Place, Own, Working
<1>4. CASE ReadWake(r)
  <2>1. CASE r = "wake"
    <3>1. Receives(r) /\ Read(r, "state") /\ doc' = doc /\ OnDoc(r)
      BY <1>4, <2>1 DEF ReadWake
    <3>2. r \notin Resizes
      BY <1>4 DEF ReadWake, Resizes, Reverts, Wakes
    <3>3. doc' \in Document /\ doc'.claim = doc.claim
      BY <3>1 DEF TypeOK, Document
    <3>4. Turns(r) /\ req'[r].pc = "state"
      BY <3>1, ReadTurns DEF Label
    <3>5. QED
      BY <3>1, <3>2, <3>3, <3>4, DocStep, ReceivedMoves DEF Place, Own, Working
  <2>2. CASE r # "wake"
    <3>1. Receives(r) /\ Read(r, "exists") /\ doc' = doc /\ OnDoc(r)
      BY <1>4, <2>2 DEF ReadWake
    <3>2. r \notin Resizes
      BY <1>4 DEF ReadWake, Resizes, Reverts, Wakes
    <3>3. doc' \in Document /\ doc'.claim = doc.claim
      BY <3>1 DEF TypeOK, Document
    <3>4. Turns(r) /\ req'[r].pc = "exists"
      BY <3>1, ReadTurns DEF Label
    <3>5. QED
      BY <3>1, <3>2, <3>3, <3>4, DocStep, ReceivedMoves DEF Place, Own, Working
  <2>3. QED
    BY <2>1, <2>2
<1>5. CASE ReadUpgrade(r)
  <2>1. Receives(r) /\ Read(r, "lock") /\ doc' = doc /\ OnDoc(r)
    BY <1>5 DEF ReadUpgrade
  <2>2. r \in Resizes
    BY <1>5 DEF ReadUpgrade, Resizes, Reverts
  <2>3. doc' \in Document /\ doc'.claim = doc.claim
    BY <2>1 DEF TypeOK, Document
  <2>4. Turns(r) /\ req'[r].pc = "lock"
    BY <2>1, ReadTurns DEF Label
  <2>5. QED
    BY <2>1, <2>2, <2>3, <2>4, DocStep, ReceivedMoves DEF Place, Own, Working
<1>6. CASE ReadRevert(r)
  <2>1. Receives(r) /\ Read(r, "lock") /\ doc' = doc /\ OnDoc(r)
    BY <1>6 DEF ReadRevert
  <2>2. r \in Resizes
    BY <1>6 DEF ReadRevert, Resizes, Reverts
  <2>3. doc' \in Document /\ doc'.claim = doc.claim
    BY <2>1 DEF TypeOK, Document
  <2>4. Turns(r) /\ req'[r].pc = "lock"
    BY <2>1, ReadTurns DEF Label
  <2>5. QED
    BY <2>1, <2>2, <2>3, <2>4, DocStep, ReceivedMoves DEF Place, Own, Working
<1>7. CASE ListExpired(r)
  <2>1. Receives(r) /\ Read(r, "again") /\ doc' = doc /\ OnDoc(r)
    BY <1>7 DEF ListExpired
  <2>2. r \in Resizes
    BY <1>7 DEF ListExpired, Resizes, Reverts
  <2>3. doc' \in Document /\ doc'.claim = doc.claim
    BY <2>1 DEF TypeOK, Document
  <2>4. Turns(r) /\ req'[r].pc = "again"
    BY <2>1, ReadTurns DEF Label
  <2>5. QED
    BY <2>1, <2>2, <2>3, <2>4, DocStep, ReceivedMoves DEF Place, Own, Working
<1>8. CASE ReadSuspend(r)
  <2>1. Receives(r) /\ Read(r, "look") /\ doc' = doc /\ OnDoc(r)
    BY <1>8 DEF ReadSuspend
  <2>2. r \in Resizes
    BY <1>8 DEF ReadSuspend, Resizes, Reverts
  <2>3. doc' \in Document /\ doc'.claim = doc.claim
    BY <2>1 DEF TypeOK, Document
  <2>4. Turns(r) /\ req'[r].pc = "look"
    BY <2>1, ReadTurns DEF Label
  <2>5. QED
    BY <2>1, <2>2, <2>3, <2>4, DocStep, ReceivedMoves DEF Place, Own, Working
<1>9. CASE ReadRenew(r)
  <2>1. Receives(r) /\ Read(r, "swap") /\ doc' = doc /\ OnDoc(r)
    BY <1>9 DEF ReadRenew
  <2>2. r \notin Resizes
    BY <1>9 DEF ReadRenew, Resizes, Reverts
  <2>3. doc' \in Document /\ doc'.claim = doc.claim
    BY <2>1 DEF TypeOK, Document
  <2>4. Turns(r) /\ req'[r].pc = "swap"
    BY <2>1, ReadTurns DEF Label
  <2>5. QED
    BY <2>1, <2>2, <2>3, <2>4, DocStep, ReceivedMoves DEF Place, Own, Working
<1>10. CASE ReadRefresh(r)
  <2>1. Receives(r) /\ Read(r, "state") /\ doc' = doc /\ OnDoc(r)
    BY <1>10 DEF ReadRefresh
  <2>2. r \notin Resizes
    BY <1>10 DEF ReadRefresh, Resizes, Reverts
  <2>3. doc' \in Document /\ doc'.claim = doc.claim
    BY <2>1 DEF TypeOK, Document
  <2>4. Turns(r) /\ req'[r].pc = "state"
    BY <2>1, ReadTurns DEF Label
  <2>5. QED
    BY <2>1, <2>2, <2>3, <2>4, DocStep, ReceivedMoves DEF Place, Own, Working
<1>11. CASE ListStale(r)
  <2>1. Receives(r) /\ Read(r, "failStale") /\ doc' = doc /\ OnDoc(r) /\ Stale(doc.claim)
    BY <1>11 DEF ListStale
  <2>2. r = "stale" /\ r \notin Resizes
    BY <1>11 DEF ListStale, Resizes, Reverts
  <2>3. doc' \in Document /\ doc'.claim = doc.claim
    BY <2>1 DEF TypeOK, Document
  <2>4. Turns(r) /\ req'[r].pc = "failStale" /\ req'[r].doc = doc
    BY <2>1, ReadTurns DEF Label
  <2>5. QED
    BY <2>1, <2>2, <2>3, <2>4, DocStep, ReceivedMoves DEF Place, Own, Working
<1>12. CASE ListOrphaned(r)
  <2>1. Receives(r) /\ Read(r, "clear") /\ doc' = doc /\ OnDoc(r)
    BY <1>12 DEF ListOrphaned
  <2>2. r \notin Resizes
    BY <1>12 DEF ListOrphaned, Resizes, Reverts
  <2>3. doc' \in Document /\ doc'.claim = doc.claim
    BY <2>1 DEF TypeOK, Document
  <2>4. Turns(r) /\ req'[r].pc = "clear"
    BY <2>1, ReadTurns DEF Label
  <2>5. QED
    BY <2>1, <2>2, <2>3, <2>4, DocStep, ReceivedMoves DEF Place, Own, Working
<1>13. QED
  BY <1>1, <1>2, <1>3, <1>4, <1>5, <1>6, <1>7, <1>8, <1>9, <1>10, <1>11, <1>12 DEF Begin

\* A request works on the document.
LEMMA OnDocumentStep ==
    ASSUME TypeOK, Places, NEW r \in Request, OnDocument(r)
    PROVE  TypeOK' /\ Moves(r)
PROOF
<1>1. CASE ClaimStatus(r)
  <2>1. CASE doc.status = req[r].doc.status /\ r \in Launches
    <3>1. /\ At(r, "claim") /\ Go(r, "volume") /\ OnDoc(r)
           /\ doc' = [doc EXCEPT !.status = "provisioning"]
      BY <1>1, <2>1 DEF ClaimStatus
    <3>2. doc' \in Document /\ doc'.claim = doc.claim
      BY <3>1 DEF TypeOK, Document, Status
    <3>3. Turns(r) /\ req'[r].pc = "volume"
      BY <3>1, GoTurns DEF Label
    <3>4. QED
      BY <3>1, <3>2, <3>3, DocStep, OtherMoves DEF At, OnDoc, Own, Working
  <2>2. CASE doc.status = req[r].doc.status /\ r \notin Launches
    <3>1. /\ At(r, "claim") /\ Go(r, "update") /\ OnDoc(r)
           /\ doc' = [doc EXCEPT !.status = "provisioning"]
      BY <1>1, <2>2 DEF ClaimStatus
    <3>2. doc' \in Document /\ doc'.claim = doc.claim
      BY <3>1 DEF TypeOK, Document, Status
    <3>3. Turns(r) /\ req'[r].pc = "update"
      BY <3>1, GoTurns DEF Label
    <3>4. QED
      BY <3>1, <3>2, <3>3, DocStep, OtherMoves DEF At, OnDoc, Own, Working
  <2>3. CASE doc.status # req[r].doc.status
    <3>1. /\ At(r, "claim") /\ End(r) /\ OnDoc(r)
           /\ doc' = doc
      BY <1>1, <2>3 DEF ClaimStatus
    <3>2. doc' \in Document /\ doc'.claim = doc.claim
      BY <3>1 DEF TypeOK, Document
    <3>3. Turns(r) /\ req'[r].pc = IF r \in Sweeps THEN "idle" ELSE "done"
      BY <3>1, EndTurns
    <3>4. QED
      BY <3>1, <3>2, <3>3, DocStep, OtherMoves DEF At, OnDoc, Own, Working
  <2>4. QED
    BY <2>1, <2>2, <2>3
<1>2. CASE PersistVolume(r)
  <2>1. /\ At(r, "persist") /\ Go(r, "machine") /\ OnDoc(r)
         /\ doc' = [doc EXCEPT !.volume = req[r].v]
    BY <1>2 DEF PersistVolume
  <2>2. doc' \in Document /\ doc'.claim = doc.claim
    BY <2>1 DEF TypeOK, Document
  <2>3. Turns(r) /\ req'[r].pc = "machine"
    BY <2>1, GoTurns DEF Label
  <2>4. QED
    BY <2>1, <2>2, <2>3, DocStep, OtherMoves DEF At, OnDoc, Own, Working
<1>3. CASE Finish(r)
  <2>1. At(r, "finish") /\ End(r) /\ OnDoc(r)
    BY <1>3 DEF Finish
  <2>2. doc' \in Document /\ doc'.claim = doc.claim
    BY <1>3 DEF Finish, TypeOK, Document, Status
  <2>3. Turns(r) /\ req'[r].pc = IF r \in Sweeps THEN "idle" ELSE "done"
    BY <2>1, EndTurns
  <2>4. QED
    BY <2>1, <2>2, <2>3, DocStep, OtherMoves DEF At, OnDoc, Own, Working
<1>4. CASE Failed(r)
  <2>1. At(r, "failed") /\ End(r) /\ OnDoc(r)
    BY <1>4 DEF Failed
  <2>2. Turns(r) /\ req'[r].pc = IF r \in Sweeps THEN "idle" ELSE "done"
    BY <2>1, EndTurns
  <2>3. doc' \in Document
    BY <1>4 DEF Failed, TypeOK, Document, Status, Upgrade, Author, NoUpgrade
  <2>4. CASE r \in Resizes
    <3>1. doc'.claim = "none"
      BY <1>4, <2>4 DEF Failed, Resizes, Reverts, Wakes, TypeOK, Document
    <3>2. QED
      BY <2>1, <2>2, <2>3, <2>4, <3>1, DocStep
      DEF At, OnDoc, Moves, Turns, Place, Releases, Resizing, Working
  <2>5. CASE r \notin Resizes
    <3>1. doc'.claim = doc.claim
      BY <1>4, <2>5 DEF Failed, TypeOK, Document
    <3>2. QED
      BY <2>1, <2>2, <2>3, <2>5, <3>1, DocStep
      DEF At, OnDoc, Moves, Turns, Place, Own, Keeps, Resizing
  <2>6. QED
    BY <2>4, <2>5
<1>5. CASE Repoint(r)
  <2>1. CASE doc.volume = req[r].doc.volume
    <3>1. /\ At(r, "repoint") /\ Go(r, "machine") /\ OnDoc(r)
           /\ doc' = [doc EXCEPT !.volume = req[r].v]
      BY <1>5, <2>1 DEF Repoint
    <3>2. doc' \in Document /\ doc'.claim = doc.claim
      BY <3>1 DEF TypeOK, Document
    <3>3. Turns(r) /\ req'[r].pc = "machine"
      BY <3>1, GoTurns DEF Label
    <3>4. QED
      BY <3>1, <3>2, <3>3, DocStep, OtherMoves DEF At, OnDoc, Own, Working
  <2>2. CASE doc.volume # req[r].doc.volume
    <3>1. /\ At(r, "repoint") /\ Go(r, "failed") /\ OnDoc(r)
           /\ doc' = doc
      BY <1>5, <2>2 DEF Repoint
    <3>2. doc' \in Document /\ doc'.claim = doc.claim
      BY <3>1 DEF TypeOK, Document
    <3>3. Turns(r) /\ req'[r].pc = "failed"
      BY <3>1, GoTurns DEF Label
    <3>4. QED
      BY <3>1, <3>2, <3>3, DocStep, OtherMoves DEF At, OnDoc, Own, Working
  <2>3. QED
    BY <2>1, <2>2
<1>6. CASE Look(r)
  <2>1. CASE doc.upgrade.by # "none"
    <3>1. /\ At(r, "look") /\ Go(r, "again") /\ OnDoc(r)
           /\ doc' = doc
      BY <1>6, <2>1 DEF Look
    <3>2. doc' \in Document /\ doc'.claim = doc.claim
      BY <3>1 DEF TypeOK, Document
    <3>3. Turns(r) /\ req'[r].pc = "again"
      BY <3>1, GoTurns DEF Label
    <3>4. QED
      BY <3>1, <3>2, <3>3, DocStep, ResizeMoves DEF At, OnDoc, Own, Working
  <2>2. CASE doc.upgrade.by = "none"
    <3>1. /\ At(r, "look") /\ Go(r, "halt") /\ OnDoc(r)
           /\ doc' = doc
      BY <1>6, <2>2 DEF Look
    <3>2. doc' \in Document /\ doc'.claim = doc.claim
      BY <3>1 DEF TypeOK, Document
    <3>3. Turns(r) /\ req'[r].pc = "halt"
      BY <3>1, GoTurns DEF Label
    <3>4. QED
      BY <3>1, <3>2, <3>3, DocStep, ResizeMoves DEF At, OnDoc, Own, Working
  <2>3. QED
    BY <2>1, <2>2
<1>7. CASE ReadAgain(r)
  <2>1. CASE doc.upgrade.by # "none"
    <3>1. /\ At(r, "again") /\ Go(r, "lock") /\ OnDoc(r)
           /\ doc' = doc
      BY <1>7, <2>1 DEF ReadAgain
    <3>2. doc' \in Document /\ doc'.claim = doc.claim
      BY <3>1 DEF TypeOK, Document
    <3>3. Turns(r) /\ req'[r].pc = "lock"
      BY <3>1, GoTurns DEF Label
    <3>4. QED
      BY <3>1, <3>2, <3>3, DocStep, ResizeMoves DEF At, OnDoc, Own, Working
  <2>2. CASE doc.upgrade.by = "none"
    <3>1. /\ At(r, "again") /\ End(r) /\ OnDoc(r)
           /\ doc' = doc
      BY <1>7, <2>2 DEF ReadAgain
    <3>2. doc' \in Document /\ doc'.claim = doc.claim
      BY <3>1 DEF TypeOK, Document
    <3>3. Turns(r) /\ req'[r].pc = IF r \in Sweeps THEN "idle" ELSE "done"
      BY <3>1, EndTurns
    <3>4. QED
      BY <3>1, <3>2, <3>3, DocStep, ResizeMoves DEF At, OnDoc, Own, Working
  <2>3. QED
    BY <2>1, <2>2
<1>8. CASE Lock(r)
  <2>1. At(r, "lock") /\ OnDoc(r) /\ r \in Resizes
    BY <1>8 DEF Lock, At, Places, Place, Own
  <2>2. CASE doc.status = "running" /\ doc.claim = "none"
    <3>1. doc' = [doc EXCEPT !.claim = r] /\ (End(r) \/ Read(r, "stop"))
      BY <1>8, <2>2 DEF Lock
    <3>2. doc' \in Document /\ doc'.claim = r
      BY <3>1 DEF TypeOK, Document
    <3>3. Turns(r) /\ req'[r].pc \in {IF r \in Sweeps THEN "idle" ELSE "done", "stop"}
      BY <3>1, EndTurns, ReadTurns DEF Label
    <3>4. QED
      BY <2>1, <2>2, <3>2, <3>3, DocStep DEF At, OnDoc, Moves, Turns, Place, Own, Locks
  <2>3. CASE ~(doc.status = "running" /\ doc.claim = "none")
    <3>1. doc' = doc /\ End(r)
      BY <1>8, <2>3 DEF Lock
    <3>2. doc' \in Document /\ doc'.claim = doc.claim
      BY <3>1 DEF TypeOK
    <3>3. Turns(r) /\ req'[r].pc = IF r \in Sweeps THEN "idle" ELSE "done"
      BY <3>1, EndTurns
    <3>4. QED
      BY <2>1, <3>2, <3>3, DocStep, ResizeMoves DEF At, OnDoc, Own, Working
  <2>4. QED
    BY <2>2, <2>3
<1>9. CASE LetGo(r)
  <2>1. At(r, "letGo") /\ End(r) /\ OnDoc(r) /\ r \in Resizes
    BY <1>9 DEF LetGo, At, Places, Place, Own
  <2>2. doc' \in Document /\ doc'.claim = "none"
    BY <1>9 DEF LetGo, TypeOK, Document
  <2>3. Turns(r) /\ req'[r].pc = IF r \in Sweeps THEN "idle" ELSE "done"
    BY <2>1, EndTurns
  <2>4. QED
    BY <2>1, <2>2, <2>3, DocStep
    DEF At, OnDoc, Moves, Turns, Place, Releases, Resizing, Working
<1>10. CASE RecordMachine(r)
  <2>1. /\ At(r, "record") /\ Go(r, "settle") /\ OnDoc(r)
         /\ doc' = [doc EXCEPT !.machine = req[r].m]
    BY <1>10 DEF RecordMachine
  <2>2. doc' \in Document /\ doc'.claim = doc.claim
    BY <2>1 DEF TypeOK, Document
  <2>3. Turns(r) /\ req'[r].pc = "settle"
    BY <2>1, GoTurns DEF Label
  <2>4. QED
    BY <2>1, <2>2, <2>3, DocStep, ResizeMoves DEF At, OnDoc, Own, Working
<1>11. CASE Settle(r)
  <2>1. /\ At(r, "settle") /\ OnDoc(r) /\ r \in Resizes
        /\ Go(r, "fresh") \/ End(r)
    BY <1>11 DEF Settle, At, Places, Place, Own
  <2>2. doc' \in Document /\ doc'.claim = "none"
    BY <1>11, <2>1 DEF Settle, TypeOK, Document, Upgrade, Author, NoUpgrade,
                       Resizes, Reverts
  <2>3. Turns(r) /\ req'[r].pc \in {IF r \in Sweeps THEN "idle" ELSE "done", "fresh"}
    BY <2>1, EndTurns, GoTurns DEF Label
  <2>4. QED
    BY <2>1, <2>2, <2>3, DocStep
    DEF At, OnDoc, Moves, Turns, Place, Own, Releases, Resizing, Working
<1>12. CASE ReadFresh(r)
  <2>1. /\ At(r, "fresh") /\ WithMachine(r, doc.machine, "halt") /\ OnDoc(r)
         /\ doc' = doc
    BY <1>12 DEF ReadFresh
  <2>2. doc' \in Document /\ doc'.claim = doc.claim
    BY <2>1 DEF TypeOK, Document
  <2>3. Turns(r) /\ req'[r].pc = "halt"
    BY <2>1, WithTurns DEF Label, TypeOK, Document
  <2>4. QED
    BY <2>1, <2>2, <2>3, DocStep, ResizeMoves DEF At, OnDoc, Own, Working
<1>13. CASE MarkSuspended(r)
  <2>1. /\ At(r, "mark") /\ End(r) /\ OnDoc(r)
         /\ doc' = [doc EXCEPT !.status = "suspended"]
    BY <1>13 DEF MarkSuspended
  <2>2. doc' \in Document /\ doc'.claim = doc.claim
    BY <2>1 DEF TypeOK, Document, Status
  <2>3. Turns(r) /\ req'[r].pc = IF r \in Sweeps THEN "idle" ELSE "done"
    BY <2>1, EndTurns
  <2>4. QED
    BY <2>1, <2>2, <2>3, DocStep, ResizeMoves DEF At, OnDoc, Own, Working
<1>14. CASE Swap(r)
  <2>1. CASE /\ doc.status = "running" /\ doc.claim = "none"
             /\ doc.upgrade.by = req[r].doc.upgrade.by
    <3>1. /\ At(r, "swap") /\ Go(r, "remind") /\ OnDoc(r)
           /\ doc' = [doc EXCEPT !.upgrade = [by |-> "renew", due |-> FALSE]]
      BY <1>14, <2>1 DEF Swap
    <3>2. doc' \in Document /\ doc'.claim = doc.claim
      BY <3>1 DEF TypeOK, Document, Upgrade, Author
    <3>3. Turns(r) /\ req'[r].pc = "remind"
      BY <3>1, GoTurns DEF Label
    <3>4. QED
      BY <3>1, <3>2, <3>3, DocStep, OtherMoves DEF At, OnDoc, Own, Working
  <2>2. CASE ~(/\ doc.status = "running" /\ doc.claim = "none"
               /\ doc.upgrade.by = req[r].doc.upgrade.by)
    <3>1. /\ At(r, "swap") /\ End(r) /\ OnDoc(r)
           /\ doc' = doc
      BY <1>14, <2>2 DEF Swap
    <3>2. doc' \in Document /\ doc'.claim = doc.claim
      BY <3>1 DEF TypeOK, Document
    <3>3. Turns(r) /\ req'[r].pc = IF r \in Sweeps THEN "idle" ELSE "done"
      BY <3>1, EndTurns
    <3>4. QED
      BY <3>1, <3>2, <3>3, DocStep, OtherMoves DEF At, OnDoc, Own, Working
  <2>3. QED
    BY <2>1, <2>2
<1>15. CASE Remind(r)
  <2>1. CASE doc.upgrade.by = "none"
    <3>1. /\ At(r, "remind") /\ End(r) /\ OnDoc(r)
           /\ doc' = [doc EXCEPT !.upgrade.by = "nobody"]
      BY <1>15, <2>1 DEF Remind
    <3>2. doc' \in Document /\ doc'.claim = doc.claim
      BY <3>1 DEF TypeOK, Document, Upgrade, Author
    <3>3. Turns(r) /\ req'[r].pc = IF r \in Sweeps THEN "idle" ELSE "done"
      BY <3>1, EndTurns
    <3>4. QED
      BY <3>1, <3>2, <3>3, DocStep, OtherMoves DEF At, OnDoc, Own, Working
  <2>2. CASE doc.upgrade.by # "none"
    <3>1. /\ At(r, "remind") /\ End(r) /\ OnDoc(r)
           /\ doc' = doc
      BY <1>15, <2>2 DEF Remind
    <3>2. doc' \in Document /\ doc'.claim = doc.claim
      BY <3>1 DEF TypeOK, Document
    <3>3. Turns(r) /\ req'[r].pc = IF r \in Sweeps THEN "idle" ELSE "done"
      BY <3>1, EndTurns
    <3>4. QED
      BY <3>1, <3>2, <3>3, DocStep, OtherMoves DEF At, OnDoc, Own, Working
  <2>3. QED
    BY <2>1, <2>2
<1>16. CASE WriteStatus(r)
  <2>1. CASE At(r, "sawUp")
    <3>1. /\ (At(r, "sawUp") \/ At(r, "sawDown")) /\ End(r) /\ OnDoc(r)
           /\ doc' = [doc EXCEPT !.status = "running"]
      BY <1>16, <2>1 DEF WriteStatus
    <3>2. doc' \in Document /\ doc'.claim = doc.claim
      BY <3>1 DEF TypeOK, Document, Status
    <3>3. Turns(r) /\ req'[r].pc = IF r \in Sweeps THEN "idle" ELSE "done"
      BY <3>1, EndTurns
    <3>4. QED
      BY <3>1, <3>2, <3>3, DocStep, OtherMoves DEF At, OnDoc, Own, Working
  <2>2. CASE ~At(r, "sawUp")
    <3>1. /\ (At(r, "sawUp") \/ At(r, "sawDown")) /\ End(r) /\ OnDoc(r)
           /\ doc' = [doc EXCEPT !.status = "suspended"]
      BY <1>16, <2>2 DEF WriteStatus
    <3>2. doc' \in Document /\ doc'.claim = doc.claim
      BY <3>1 DEF TypeOK, Document, Status
    <3>3. Turns(r) /\ req'[r].pc = IF r \in Sweeps THEN "idle" ELSE "done"
      BY <3>1, EndTurns
    <3>4. QED
      BY <3>1, <3>2, <3>3, DocStep, OtherMoves DEF At, OnDoc, Own, Working
  <2>3. QED
    BY <2>1, <2>2
<1>17. CASE FailStale(r)
  <2>1. At(r, "failStale") /\ End(r) /\ OnDoc(r) /\ r = "stale" /\ r \notin Resizes
    BY <1>17 DEF FailStale, At, Places, Place, Resizes, Reverts
  <2>2. Turns(r) /\ req'[r].pc = IF r \in Sweeps THEN "idle" ELSE "done"
    BY <2>1, EndTurns
  <2>3. CASE doc.claim = req[r].doc.claim
    <3>1. doc' = [doc EXCEPT !.status = "error", !.upgrade = NoUpgrade, !.claim = "none"]
      BY <1>17, <2>3 DEF FailStale
    <3>2. doc' \in Document /\ doc'.claim = "none"
      BY <3>1 DEF TypeOK, Document, Status, Upgrade, Author, NoUpgrade
    <3>3. QED
      BY <2>1, <2>2, <2>3, <3>2, DocStep
      DEF At, OnDoc, Moves, Turns, Place, Own, Recovers, Resizing, Working
  <2>4. CASE doc.claim # req[r].doc.claim
    <3>1. doc' = doc
      BY <1>17, <2>4 DEF FailStale
    <3>2. QED
      BY <2>1, <2>2, <3>1, DocStep, OtherMoves DEF At, OnDoc, Own, TypeOK
  <2>5. QED
    BY <2>3, <2>4
<1>18. CASE ClearUpgrade(r)
  <2>1. /\ At(r, "clear") /\ End(r) /\ OnDoc(r)
         /\ doc' = [doc EXCEPT !.upgrade = NoUpgrade]
    BY <1>18 DEF ClearUpgrade
  <2>2. doc' \in Document /\ doc'.claim = doc.claim
    BY <2>1 DEF TypeOK, Document, Upgrade, Author, NoUpgrade
  <2>3. Turns(r) /\ req'[r].pc = IF r \in Sweeps THEN "idle" ELSE "done"
    BY <2>1, EndTurns
  <2>4. QED
    BY <2>1, <2>2, <2>3, DocStep, OtherMoves DEF At, OnDoc, Own, Working
<1>19. QED
  BY <1>1, <1>2, <1>3, <1>4, <1>5, <1>6, <1>7, <1>8, <1>9, <1>10, <1>11, <1>12, <1>13,
     <1>14, <1>15, <1>16, <1>17, <1>18 DEF OnDocument

\* A request asks Fly.
LEMMA AskFlyStep ==
    ASSUME TypeOK, Places, NEW r \in Request, AskFly(r)
    PROVE  TypeOK' /\ Moves(r)
PROOF
<1>1. CASE CreateVolume(r)
  <2>1. At(r, "volume") /\ OnFly(r) /\ FlyOK'
    BY <1>1 DEF CreateVolume, FlyOK, TypeOK
  <2>2. \E l \in {"persist", "machine", "failed"} : Go(r, l) \/ WithVolume(r, vols', l)
    BY <1>1 DEF CreateVolume
  <2>3. Turns(r) /\ req'[r].pc \in {"persist", "machine", "failed"}
    BY <2>1, <2>2, GoTurns, WithTurns DEF Label, FlyOK
  <2>4. QED
    BY <2>1, <2>3, OtherAsks DEF At, Own
<1>2. CASE CreateMachine(r)
  <2>1. At(r, "machine") /\ OnFly(r)
    BY <1>2 DEF CreateMachine
  <2>2. req[r].v \in Nat
    BY DEF TypeOK
  <2>3. FlyOK' /\ Len(machs') \in Nat
    <3>1. /\ vols' = vols /\ fresh' \in {fresh, {req[r].v}}
          /\ \/ machs' = machs
             \/ machs' = Append(machs, [state |-> "up", big |-> r = "upgrade",
                                        volume |-> req[r].v])
      BY <1>2 DEF CreateMachine
    <3>2. [state |-> "up", big |-> r = "upgrade", volume |-> req[r].v] \in Machine
      BY <2>2 DEF Machine
    <3>3. machs' \in Seq(Machine)
      <4>1. \A x \in Machine : Append(machs, x) \in Seq(Machine)
        BY DEF TypeOK
      <4>2. QED
        BY <3>1, <3>2, <4>1 DEF TypeOK
    <3>4. vols' \in Nat /\ fresh' \subseteq Nat
      BY <2>2, <3>1 DEF TypeOK
    <3>5. QED
      BY <3>3, <3>4 DEF FlyOK
  <2>4. \/ WithMachine(r, Len(machs'), IF r \in Resizes THEN "record" ELSE "finish")
        \/ Go(r, "failed")
        \/ r \in Resumes \cup Wakes /\ Go(r, "fork")
    BY <1>2 DEF CreateMachine
  <2>5. /\ Turns(r)
        /\ r \in Resizes => req'[r].pc \in {"record", "failed"}
        /\ r \notin Resizes => req'[r].pc \in {"finish", "failed", "fork"}
    <3>1. r \in Resumes \cup Wakes => r \notin Resizes
      BY DEF Resumes, Wakes, Resizes, Reverts
    <3>2. CASE r \in Resizes
      BY <2>3, <2>4, <3>1, <3>2, GoTurns, WithTurns DEF Label
    <3>3. CASE r \notin Resizes
      BY <2>3, <2>4, <3>3, GoTurns, WithTurns DEF Label
    <3>4. QED
      BY <3>2, <3>3
  <2>6. TypeOK'
    BY <2>1, <2>3, <2>5, FlyStep
  <2>7. QED
    BY <2>1, <2>5, <2>6 DEF At, OnFly, Moves, Turns, Place, Own, Keeps, Resizing, Working
<1>3. CASE UpdateMachine(r)
  <2>1. At(r, "update") /\ OnFly(r)
    BY <1>3 DEF UpdateMachine
  <2>2. FlyOK'
    <3>1. [state |-> "down", big |-> FALSE, volume |-> req[r].v] \in Machine
      BY DEF Machine, TypeOK
    <3>2. QED
      BY <1>3, <3>1 DEF UpdateMachine, Exists, FlyOK, TypeOK
  <2>3. \E l \in {"start", "delete", "machine"} : Go(r, l)
    BY <1>3 DEF UpdateMachine
  <2>4. Turns(r) /\ req'[r].pc \in {"start", "delete", "machine"}
    BY <2>3, GoTurns DEF Label
  <2>5. QED
    BY <2>1, <2>2, <2>4, OtherAsks DEF At, Own
<1>4. CASE StartMachine(r)
  <2>1. At(r, "start") /\ OnFly(r)
    BY <1>4 DEF StartMachine
  <2>2. \E no \in {"delete", "failed"} :
           Ask(r, req[r].m, "up", "finish", no) \/ (Go(r, no) /\ UNCHANGED fly)
    BY <1>4 DEF StartMachine
  <2>3. FlyOK' /\ Turns(r) /\ req'[r].pc \in {"finish", "delete", "failed"}
    <3>1. PICK no \in {"delete", "failed"} :
             Ask(r, req[r].m, "up", "finish", no) \/ (Go(r, no) /\ UNCHANGED fly)
      BY <2>2
    <3>2. no \in Label /\ "finish" \in Label
      BY DEF Label
    <3>3. CASE Ask(r, req[r].m, "up", "finish", no)
      BY <3>2, <3>3, AskTurns
    <3>4. CASE Go(r, no) /\ UNCHANGED fly
      BY <3>2, <3>4, GoTurns DEF FlyOK, TypeOK, fly
    <3>5. QED
      BY <3>1, <3>3, <3>4
  <2>4. QED
    BY <2>1, <2>3, OtherAsks DEF At, Own
<1>5. CASE DeleteMachine(r)
  <2>1. /\ At(r, "delete") /\ OnFly(r)
        /\ Ask(r, req[r].m, "gone", "machine", "machine")
    BY <1>5 DEF DeleteMachine
  <2>2. FlyOK' /\ Turns(r) /\ req'[r].pc = "machine"
    <3>1. "machine" \in Label /\ "failed" \in Label /\ "remove" \in Label /\ "letGo" \in Label
      BY DEF Label
    <3>2. QED
      BY <2>1, <3>1, AskTurns
  <2>3. QED
    BY <2>1, <2>2, OtherAsks DEF At, Own
<1>6. CASE ForkVolume(r)
  <2>1. At(r, "fork") /\ OnFly(r) /\ FlyOK'
    <3>1. At(r, "fork") /\ OnFly(r) /\ machs' = machs /\ vols' \in {vols, vols + 1}
      BY <1>6 DEF ForkVolume
    <3>2. fresh' \in {fresh, fresh \cup {vols'}}
      BY <1>6 DEF ForkVolume
    <3>3. QED
      BY <3>1, <3>2 DEF FlyOK, TypeOK
  <2>2. Go(r, "failed") \/ WithVolume(r, vols', "repoint")
    BY <1>6 DEF ForkVolume
  <2>3. Turns(r) /\ req'[r].pc \in {"failed", "repoint"}
    BY <2>1, <2>2, GoTurns, WithTurns DEF Label, FlyOK
  <2>4. QED
    BY <2>1, <2>3, OtherAsks DEF At, Own
<1>7. CASE WakeState(r)
  <2>1. /\ At(r, "state") /\ OnFly(r) /\ UNCHANGED fly
        /\ End(r) \/ Go(r, "exists")
    BY <1>7 DEF WakeState, fly
  <2>2. Turns(r) /\ req'[r].pc \in {IF r \in Sweeps THEN "idle" ELSE "done", "exists"}
    BY <2>1, EndTurns, GoTurns DEF Label
  <2>3. FlyOK'
    BY <2>1 DEF FlyOK, TypeOK, fly
  <2>4. QED
    BY <2>1, <2>2, <2>3, OtherAsks DEF At, Own
<1>8. CASE WakeExists(r)
  <2>1. /\ At(r, "exists") /\ OnFly(r) /\ UNCHANGED fly
        /\ \E l \in {"start", "machine", "failed"} : Go(r, l)
    BY <1>8 DEF WakeExists, fly
  <2>2. Turns(r) /\ req'[r].pc \in {"start", "machine", "failed"}
    BY <2>1, GoTurns DEF Label
  <2>3. FlyOK'
    BY <2>1 DEF FlyOK, TypeOK, fly
  <2>4. QED
    BY <2>1, <2>2, <2>3, OtherAsks DEF At, Own
<1>9. CASE StopOld(r)
  <2>1. At(r, "stop") /\ OnFly(r) /\ Ask(r, req[r].m, "down", "remove", "letGo")
    BY <1>9 DEF StopOld
  <2>2. FlyOK' /\ Turns(r) /\ req'[r].pc \in {"remove", "letGo"}
    <3>1. "machine" \in Label /\ "failed" \in Label /\ "remove" \in Label /\ "letGo" \in Label
      BY DEF Label
    <3>2. QED
      BY <2>1, <3>1, AskTurns
  <2>3. QED
    BY <2>1, <2>2, ResizeAsks DEF At, Own, Working
<1>10. CASE DeleteOld(r)
  <2>1. At(r, "remove") /\ OnFly(r) /\ Ask(r, req[r].m, "gone", "machine", "failed")
    BY <1>10 DEF DeleteOld
  <2>2. FlyOK' /\ Turns(r) /\ req'[r].pc \in {"machine", "failed"}
    <3>1. "machine" \in Label /\ "failed" \in Label /\ "remove" \in Label /\ "letGo" \in Label
      BY DEF Label
    <3>2. QED
      BY <2>1, <3>1, AskTurns
  <2>3. QED
    BY <2>1, <2>2, ResizeAsks DEF At, Own, Working
<1>11. CASE Halt(r)
  <2>1. At(r, "halt") /\ OnFly(r)
    BY <1>11 DEF Halt
  <2>2. FlyOK'
    <3>1. CASE Exists(req[r].m) /\ Turn(req[r].m, "down")
      BY <3>1, TurnTypes
    <3>2. CASE UNCHANGED fly
      BY <3>2 DEF FlyOK, TypeOK, fly
    <3>3. QED
      BY <1>11, <3>1, <3>2 DEF Halt
  <2>3. Go(r, "mark") \/ End(r)
    BY <1>11 DEF Halt
  <2>4. Turns(r) /\ req'[r].pc \in {IF r \in Sweeps THEN "idle" ELSE "done", "mark"}
    BY <2>3, EndTurns, GoTurns DEF Label
  <2>5. QED
    BY <2>1, <2>2, <2>4, ResizeAsks DEF At, Own, Working
<1>12. CASE RefreshState(r)
  <2>1. /\ At(r, "state") /\ OnFly(r) /\ UNCHANGED fly
        /\ End(r) \/ \E l \in {"sawUp", "sawDown"} : Go(r, l)
    BY <1>12 DEF RefreshState, fly
  <2>2. /\ Turns(r)
        /\ req'[r].pc \in {IF r \in Sweeps THEN "idle" ELSE "done", "sawUp", "sawDown"}
    BY <2>1, EndTurns, GoTurns DEF Label
  <2>3. FlyOK'
    BY <2>1 DEF FlyOK, TypeOK, fly
  <2>4. QED
    BY <2>1, <2>2, <2>3, OtherAsks DEF At, Own
<1>13. QED
  BY <1>1, <1>2, <1>3, <1>4, <1>5, <1>6, <1>7, <1>8, <1>9, <1>10, <1>11, <1>12 DEF AskFly

-----------------------------------------------------------------------------
(* The theorems.                                                             *)

\* The initial states.
LEMMA InitInvariant == Init => IInv
PROOF
<1> SUFFICES ASSUME Init PROVE IInv
  OBVIOUS
<1>1. TypeOK
  <2>1. Idle \in [pc : Label, doc : Document, m : Nat, v : Nat]
    BY DEF Idle, NoDoc, Document, Label, Status, Upgrade, NoUpgrade, Author
  <2>2. doc \in Document
    BY DEF Init, Starts, Document, Status, Upgrade, Author
  <2>3. machs \in Seq(Machine) /\ vols \in Nat /\ fresh \subseteq Nat
    <3>1. \A up \in {"up", "down"}, b \in BOOLEAN :
             <<[state |-> up, big |-> b, volume |-> 1]>> \in Seq(Machine)
      BY DEF Machine
    <3>2. <<>> \in Seq(Machine)
      OBVIOUS
    <3>3. machs \in Seq(Machine)
      BY <3>1, <3>2 DEF Init
    <3>4. vols \in Nat /\ fresh \subseteq Nat
      BY DEF Init
    <3>5. QED
      BY <3>3, <3>4
  <2>4. QED
    BY <2>1, <2>2, <2>3 DEF Init, TypeOK
<1>2. \A r \in Request : req[r].pc = "idle"
  BY DEF Init, Idle
<1>3. doc.claim = "none" /\ "stale" \in Request /\ Sweeps \subseteq Request
  BY DEF Init, Request, Sweeps
<1>4. QED
  BY <1>1, <1>2, <1>3 DEF IInv, Places, Place, Own, OneSweep, InFlight, Held, Dead,
                          ResizeExclusive, Resizing, Working

\* The environment's steps.
LEMMA EnvironmentStep ==
    ASSUME IInv, MachineEnds \/ WindowEnds \/ Die
    PROVE  IInv'
PROOF
<1>1. CASE MachineEnds
  <2>1. FlyOK'
    BY <1>1, TurnTypes DEF MachineEnds, IInv, Up, Exists
  <2>2. TypeOK'
    BY <1>1, <2>1 DEF MachineEnds, FlyOK, IInv, TypeOK
  <2>3. QED
    BY <1>1, <2>2 DEF MachineEnds, IInv, Places, Place, OneSweep, InFlight, Held, Dead,
                      ResizeExclusive, Resizing
<1>2. CASE WindowEnds
  <2>1. doc' \in Document /\ doc'.claim = doc.claim
    BY <1>2 DEF WindowEnds, IInv, TypeOK, Document, Upgrade
  <2>2. TypeOK'
    BY <1>2, <2>1 DEF WindowEnds, fly, IInv, TypeOK
  <2>3. QED
    BY <1>2, <2>1, <2>2 DEF WindowEnds, IInv, Places, Place, OneSweep, InFlight, Held,
                            Dead, ResizeExclusive, Resizing
<1>3. CASE Die
  <2>1. Idle \in [pc : Label, doc : Document, m : Nat, v : Nat] /\ Idle.pc = "idle"
    BY DEF Idle, NoDoc, Document, Label, Status, Upgrade, NoUpgrade, Author
  <2>2. Done \in [pc : Label, doc : Document, m : Nat, v : Nat] /\ Done.pc = "done"
    BY <2>1 DEF Done, Label
  <2>3. TypeOK'
    BY <1>3, <2>1, <2>2 DEF Die, fly, IInv, TypeOK
  <2>4. \A r \in Request :
           /\ req'[r].pc \in {"idle", "done"}
           /\ req'[r].pc = "idle" => r \in Sweeps \/ req[r].pc = "idle"
    BY <1>3, <2>1, <2>2 DEF Die, InFlight, IInv, TypeOK
  <2>5. "stale" \in Request /\ Sweeps \subseteq Request /\ Resizes \subseteq Request
    BY DEF Request, Sweeps
  <2>6. Places' /\ OneSweep' /\ Dead'
    BY <2>4, <2>5 DEF Places, Place, Own, OneSweep, InFlight, Dead
  <2>7. Held' /\ ResizeExclusive'
    BY <1>3, <2>4, <2>5 DEF Die, IInv, Held, ResizeExclusive, Resizing, Working
  <2>8. QED
    BY <2>3, <2>6, <2>7 DEF IInv
<1>4. QED
  BY <1>1, <1>2, <1>3

\* Every step.
LEMMA NextInvariant == IInv /\ [Next]_vars => IInv'
PROOF
<1> SUFFICES ASSUME IInv, [Next]_vars PROVE IInv'
  OBVIOUS
<1>1. TypeOK /\ Places
  BY DEF IInv
<1>2. ASSUME NEW r \in Request, Begin(r) \/ OnDocument(r) \/ AskFly(r)
      PROVE  IInv'
  BY <1>1, <1>2, BeginStep, OnDocumentStep, AskFlyStep, MovesKeep
<1>3. CASE UNCHANGED vars
  BY <1>3 DEF vars, fly, IInv, TypeOK, Places, Place, OneSweep, InFlight, Held, Dead,
              ResizeExclusive, Resizing
<1>4. QED
  BY <1>2, <1>3, EnvironmentStep DEF Next

\* The inductive invariant holds in every state.
THEOREM Invariant == Spec => []IInv
PROOF
  BY InitInvariant, NextInvariant, PTL DEF Spec

\* Every variable keeps its type.
THEOREM TypeCorrect == Spec => []TypeOK
PROOF
<1>1. IInv => TypeOK
  BY DEF IInv
<1>2. QED
  BY <1>1, Invariant, PTL

\* One resize at a time: while a live resize does not outlast staleClaimMinutes, whoever
\* works on the mission's machine for an upgrade or a revert holds its claim, whatever
\* requests, failures, lost answers and deaths of the control plane there are.
THEOREM OneResize == Spec => []ResizeExclusive
PROOF
<1>1. IInv => ResizeExclusive
  BY DEF IInv
<1>2. QED
  BY <1>1, Invariant, PTL

-----------------------------------------------------------------------------
(* The mission's work stays where the document says it is.                   *)

\* The environments of this section.  launch_draft makes no claim, so it must be the
\* only launch.  On servers without room a resume or a wake forks the mission's
\* volume: then answers arrive, no resize works beside it, and it is alone, or one of
\* two resumes, which the status keeps apart as long as no page view writes it.
Movers   == Resumes \cup Wakes
Alone    == \A r, s \in Movers \cap env : r = s
TwoResumes == env \cap (Wakes \cup {"refresh"}) = {}
Orderly ==
    /\ "copilotLaunch" \in env => env \cap Launches = {"copilotLaunch"}
    /\ "full" \in env =>
         /\ "lost" \notin env /\ env \cap (Resizes \cup {"upgraded"}) = {}
         /\ Alone \/ TwoResumes

Firsts == Creates \cup Launches
Known  == doc.machine # 0
NoUp   == \A m \in DOMAIN machs : ~Up(m)

\* Which requests a label belongs to, and who is in flight at all.
SpotAt(r, label) ==
    /\ label \in {"volume", "persist"} => r \in Firsts
    /\ label = "claim" => r \in {"launch", "launch2"} \cup Resumes
    /\ label \in {"update", "delete"} => r \in Resumes
    /\ label = "exists" => r \in Wakes
    /\ label = "state" => r \in Wakes \cup {"refresh"}
    /\ label \in {"start", "fork", "repoint"} => r \in Movers
    /\ label = "finish" => r \in Firsts \cup Movers
    /\ label \in {"machine", "failed"} => r \in Firsts \cup Movers \cup Resizes
    /\ label \in {"sawUp", "sawDown"} => r = "refresh"
    /\ label \in {"swap", "remind"} => r = "renew"
    /\ label = "failStale" => r = "stale"
    /\ label = "clear" => r = "orphan"
    /\ label \in Own \ {"machine", "failed"} => r \in Resizes
    /\ label # "idle" => r \in env \cup Sweeps
Spot(r) == SpotAt(r, req[r].pc)
Asked == \A r \in Request : Spot(r)

\* Before the mission has a machine there is at most one launch at work.
Launching(r) == r \in Firsts /\ req[r].pc \notin {"idle", "done", "claim"}
Empty == machs = <<>> /\ fresh = {} /\ doc.volume = 0
Stage(r) ==
    /\ req[r].pc = "volume" => Empty
    /\ req[r].pc \in {"persist", "machine"} =>
         machs = <<>> /\ fresh = {} /\ doc.volume \in {0, req[r].v}
    /\ req[r].pc = "finish" =>
         /\ Len(machs) = 1 /\ machs[1].volume = req[r].v /\ req[r].m = 1
         /\ fresh = {req[r].v} /\ doc.volume \in {0, req[r].v}
Launch ==
    /\ \A r \in Firsts : Launching(r) =>
         /\ ~Known /\ Stage(r)
         /\ doc.status = IF r = "copilotLaunch" THEN "draft" ELSE "provisioning"
         /\ \A s \in Firsts : Launching(s) => s = r
    /\ \A r \in Firsts : req[r].pc = "claim" =>
         r # "copilotLaunch" /\ req[r].doc.status = "draft"
    /\ doc.status \in {"absent", "draft"} =>
         ~Known /\ (req["copilotLaunch"].pc = "idle" => Empty)
    /\ req["copilotLaunch"].pc # "idle" => doc.status # "absent"

\* Everything else is about a mission that has a machine.
Tended ==
    /\ \/ doc.status \in {"running", "suspended"} \/ doc.upgrade.by # "none"
       \/ doc.claim # "none"
       => Known
    /\ \A r \in Request \ Firsts : InFlight(r) => Known /\ req[r].m # 0

Begun == Asked /\ Launch /\ Tended

\* Without forks there is one volume, and one machine on it.
OneHome ==
    /\ Known => /\ fresh = {doc.volume}
                /\ \A m \in DOMAIN machs : machs[m].volume = doc.volume
    /\ \A r \in Request \ Firsts : InFlight(r) =>
         req[r].v = doc.volume /\ req[r].pc \notin {"fork", "repoint"}
    /\ \A m, n \in DOMAIN machs : Exists(m) /\ Exists(n) => m = n

\* With forks: where the one that resumes or wakes the mission is.
Moving(r) == r \in Movers /\ req[r].pc \notin {"idle", "done", "claim"}
Early     == {"state", "exists", "update", "start", "delete", "fork"}
Fork(r) ==
    /\ req[r].pc \in Early => req[r].v = doc.volume /\ req[r].doc.volume = doc.volume
    /\ req[r].pc = "machine" => req[r].v = doc.volume
    /\ req[r].pc = "repoint" => req[r].v \in fresh /\ req[r].doc.volume = doc.volume
    /\ req[r].pc \in {"delete", "machine", "fork", "repoint"} => NoUp
    /\ r \in Resumes /\ req[r].pc \in {"update", "start", "failed"} => NoUp
    /\ req[r].pc = "start" /\ req[r].m \in DOMAIN machs => machs[req[r].m].volume = doc.volume

\* A resume that can still claim has what the document says, and nothing runs.
Claimable(r) ==
    /\ req[r].pc = "claim" =>
         /\ req[r].doc.status \in {"suspended", "error"}
         /\ "refresh" \in env \/ doc.status = req[r].doc.status =>
              req[r].v = doc.volume /\ req[r].doc.volume = doc.volume
         /\ TwoResumes /\ req[r].doc.status = "error" =>
              \A s \in Resumes \ {r} : req[s].pc = "done"
    /\ /\ req[r].pc \in {"idle", "claim"} /\ Known /\ r \in env
       /\ doc.status \in {"suspended", "error"} \/ req["refresh"].pc = "sawDown"
       => NoUp

\* Before the only one to resume or wake it has come to its end, the mission has one
\* machine.
Lone(r) ==
    /\ Known /\ req[r].pc \notin {"finish", "done"} =>
         /\ Len(machs) = 1 /\ doc.machine = 1
         /\ InFlight(r) => req[r].m = 1
         /\ InFlight("refresh") => req["refresh"].m = 1
    /\ Known /\ r \in Wakes /\ req[r].pc \in {"idle", "state", "exists", "start"} =>
         machs[1].volume = doc.volume

\* Only launches, resumes, wakes and page views work there.
NoResize ==
    /\ doc.upgrade = NoUpgrade /\ doc.claim = "none"
    /\ \A r \in Request \ (Firsts \cup Movers \cup {"refresh"}) : ~InFlight(r)
OnHome ==
    /\ doc.volume \in fresh
    /\ \A m \in DOMAIN machs : Up(m) => machs[m].volume = doc.volume
Moved ==
    \A r \in Movers : Moving(r) =>
      /\ Fork(r) /\ \A s \in Movers : Moving(s) => s = r
      /\ TwoResumes => doc.status = "provisioning"
Failure == TwoResumes /\ Known /\ doc.status = "error" => \E r \in Resumes : req[r].pc = "done"
Forks ==
    /\ NoResize /\ (Known => OnHome) /\ Moved /\ (\A r \in Resumes : Claimable(r))
    /\ Failure /\ (\A r \in Movers \cap env : Alone => Lone(r))

Homes == ("full" \notin env => OneHome) /\ ("full" \in env => Forks)

\* Who is who among the requests.
LEMMA Kinds ==
    /\ Firsts \cap Movers = {} /\ Firsts \cap Resizes = {} /\ Movers \cap Resizes = {}
    /\ Resumes \cap Wakes = {} /\ Firsts \cap Sweeps = {} /\ Movers \cap Sweeps = {}
    /\ {"renew", "refresh", "stale", "orphan"} \cap (Firsts \cup Movers \cup Resizes) = {}
    /\ {"renew", "refresh"} \cap Sweeps = {} /\ {"launch", "launch2"} \subseteq Firsts
    /\ Firsts \cup Movers \cup Resizes \cup Sweeps \cup {"renew", "refresh"} = Request
    /\ "copilotLaunch" \in Firsts /\ "copilotLaunch" \notin Creates
    /\ Launches = {"launch", "launch2", "copilotLaunch"} /\ Creates \cup Launches = Firsts
    /\ Creates \cap Launches = {}
PROOF
  BY DEF Firsts, Movers, Creates, Launches, Resumes, Wakes, Resizes, Reverts, Sweeps, Request

\* What a step of one request does to the requests.
Others(r) == \A s \in Request : s # r => req'[s] = req[s]

LEMMA GoEffect ==
    ASSUME TypeOK, NEW r \in Request, NEW l, Go(r, l)
    PROVE  /\ Others(r) /\ req'[r].pc = l /\ req'[r].doc = req[r].doc
           /\ req'[r].m = req[r].m /\ req'[r].v = req[r].v
PROOF
  BY DEF TypeOK, Go, Others

LEMMA EndEffect ==
    ASSUME TypeOK, NEW r \in Request, End(r)
    PROVE  /\ Others(r) /\ req'[r].pc = (IF r \in Sweeps THEN "idle" ELSE "done")
           /\ req'[r].m = 0
PROOF
  BY DEF TypeOK, End, Idle, Done, Others

LEMMA ReadEffect ==
    ASSUME TypeOK, NEW r \in Request, NEW l, Read(r, l)
    PROVE  /\ Others(r) /\ req'[r].pc = l /\ req'[r].doc = doc
           /\ req'[r].m = doc.machine /\ req'[r].v = doc.volume
PROOF
  BY DEF TypeOK, Read, Others

LEMMA WithMachineEffect ==
    ASSUME TypeOK, NEW r \in Request, NEW l, NEW m, WithMachine(r, m, l)
    PROVE  /\ Others(r) /\ req'[r].pc = l /\ req'[r].doc = req[r].doc
           /\ req'[r].m = m /\ req'[r].v = req[r].v
PROOF
<1>1. req \in [Request -> [pc : Label, doc : Document, m : Nat, v : Nat]]
  BY DEF TypeOK
<1>2. QED
  BY <1>1 DEF WithMachine, Others

LEMMA WithVolumeEffect ==
    ASSUME TypeOK, NEW r \in Request, NEW l, NEW v, WithVolume(r, v, l)
    PROVE  /\ Others(r) /\ req'[r].pc = l /\ req'[r].doc = req[r].doc
           /\ req'[r].m = req[r].m /\ req'[r].v = v
PROOF
<1>1. req \in [Request -> [pc : Label, doc : Document, m : Nat, v : Nat]]
  BY DEF TypeOK
<1>2. QED
  BY <1>1 DEF WithVolume, Others

\* What a call on a machine does to the machines.
LEMMA TurnEffect ==
    ASSUME TypeOK, NEW m, NEW s \in {"up", "down", "gone"}, Exists(m), Turn(m, s)
    PROVE  /\ m \in DOMAIN machs /\ DOMAIN machs' = DOMAIN machs
           /\ \A n \in DOMAIN machs : /\ machs'[n].volume = machs[n].volume
                                      /\ n # m => machs'[n] = machs[n]
           /\ machs'[m].state = s
           /\ fresh' = IF s = "up" THEN {machs[m].volume} ELSE fresh
PROOF
<1>1. m \in DOMAIN machs /\ machs \in Seq(Machine)
  BY DEF Exists, TypeOK
<1>2. machs' = [machs EXCEPT ![m].state = s]
  BY DEF Turn
<1>3. \A n \in DOMAIN machs : machs[n] \in Machine
  BY <1>1
<1>4. QED
  BY <1>1, <1>2, <1>3 DEF Turn, Machine

\* A step on Fly that works on volume v only: it starts at most one machine, or
\* creates one where none is attached.
FlyOn(v) ==
    /\ fresh' \in {fresh, {v}}
    /\ \A m \in DOMAIN machs' :
         \/ /\ m \in DOMAIN machs /\ machs'[m].volume \in {machs[m].volume, v}
            /\ Exists(m)' => Exists(m)
         \/ machs'[m].volume = v /\ ~Attached(v) /\ m = Len(machs) + 1
    /\ DOMAIN machs \subseteq DOMAIN machs'

\* Changing the state of a machine on v is such a step.
LEMMA TurnOn ==
    ASSUME TypeOK, NEW m, NEW s \in {"up", "down", "gone"}, Exists(m), Turn(m, s),
           NEW v, machs[m].volume = v
    PROVE  FlyOn(v)
PROOF
  BY TurnEffect DEF FlyOn, Exists

\* So is creating one on v.
LEMMA CreateOn ==
    ASSUME TypeOK, NEW v \in Nat, NEW x \in BOOLEAN, ~Attached(v), fresh' = {v},
           machs' = Append(machs, [state |-> "up", big |-> x, volume |-> v])
    PROVE  /\ FlyOn(v) /\ DOMAIN machs' = DOMAIN machs \cup {Len(machs) + 1}
           /\ Len(machs') = Len(machs) + 1 /\ Len(machs') \in Nat \ {0}
           /\ \A m \in DOMAIN machs : machs'[m] = machs[m]
           /\ machs'[Len(machs')] = [state |-> "up", big |-> x, volume |-> v]
PROOF
<1> DEFINE new == [state |-> "up", big |-> x, volume |-> v]
<1>1. machs \in Seq(Machine) /\ new \in Machine
  BY DEF TypeOK, Machine
<1>2. /\ Len(machs') = Len(machs) + 1 /\ Len(machs) \in Nat
      /\ DOMAIN machs' = 1..Len(machs) + 1 /\ DOMAIN machs = 1..Len(machs)
      /\ \A m \in DOMAIN machs : machs'[m] = machs[m]
      /\ machs'[Len(machs) + 1] = new
  BY <1>1
<1>3. \A m \in DOMAIN machs' : m \in DOMAIN machs \/ m = Len(machs) + 1
  BY <1>2
<1>4. DOMAIN machs \subseteq DOMAIN machs'
  BY <1>2
<1>5. FlyOn(v)
  BY <1>2, <1>3, <1>4 DEF FlyOn, Exists
<1>6. QED
  BY <1>2, <1>3, <1>4, <1>5
-----------------------------------------------------------------------------
(* A mission that has a machine: every request but a launch.                 *)

\* Only a launch works on a mission without a machine, and only while there is none.
LEMMA KnownFacts ==
    ASSUME Begun, Known
    PROVE  /\ doc.status \notin {"absent", "draft"}
           /\ \A r \in Firsts : ~Launching(r)
PROOF
  BY DEF Begun, Launch

\* A step of a request that is no launch leaves Begun as long as it stays where it may
\* be, with a machine to work on.
LEMMA TendBegun ==
    ASSUME TypeOK, Begun, NEW r \in Request \ Firsts, env' = env, Others(r), Known, Known',
           doc'.status \notin {"absent", "draft"}, SpotAt(r, req'[r].pc),
           InFlight(r)' => req'[r].m # 0
    PROVE  Begun'
PROOF
<1>1. \A s \in Request : s # r => req'[s] = req[s]
  BY DEF Others
<1>2. \A s \in Firsts : s \in Request /\ s # r
  BY Kinds
<1>3. Asked'
  <2> SUFFICES ASSUME NEW s \in Request PROVE Spot(s)'
    BY DEF Asked
  <2>1. CASE s = r
    BY <2>1 DEF Spot, SpotAt
  <2>2. CASE s # r
    <3>1. req'[s] = req[s] /\ Spot(s)
      BY <1>1, <2>2 DEF Begun, Asked
    <3>2. QED
      BY <3>1 DEF Spot, SpotAt
  <2>3. QED
    BY <2>1, <2>2
<1>4. Launch'
  <2>1. \A s \in Firsts : req'[s] = req[s] /\ ~Launching(s)
    BY <1>1, <1>2, KnownFacts
  <2>2. \A s \in Firsts : ~Launching(s)'
    BY <2>1 DEF Launching
  <2>3. "copilotLaunch" \in Firsts
    BY Kinds
  <2>4. QED
    BY <2>1, <2>2, <2>3 DEF Launch, Begun
<1>5. Tended'
  <2>1. \A s \in Request \ Firsts : s # r /\ InFlight(s)' => req'[s].m # 0
    BY <1>1 DEF Tended, Begun, InFlight
  <2>2. QED
    BY <2>1 DEF Tended
<1>6. QED
  BY <1>3, <1>4, <1>5 DEF Begun

\* It leaves OneHome as long as it works on the home volume only.
LEMMA TendHome ==
    ASSUME TypeOK, OneHome, NEW r \in Request \ Firsts, Others(r), Known,
           doc'.volume = doc.volume, FlyOn(doc.volume),
           InFlight(r)' => req'[r].v = doc.volume /\ req'[r].pc \notin {"fork", "repoint"}
    PROVE  OneHome'
PROOF
<1>1. \A m \in DOMAIN machs : machs[m].volume = doc.volume
  BY DEF OneHome
<1>2. \A m \in DOMAIN machs' : machs'[m].volume = doc.volume
  BY <1>1 DEF FlyOn
<1>3. fresh' = {doc.volume}
  BY DEF OneHome, FlyOn
<1>4. ASSUME NEW s \in Request \ Firsts, InFlight(s)'
      PROVE  req'[s].v = doc.volume /\ req'[s].pc \notin {"fork", "repoint"}
  BY <1>4 DEF OneHome, Others, InFlight
<1>5. ASSUME NEW m \in DOMAIN machs', NEW n \in DOMAIN machs', Exists(m)', Exists(n)'
      PROVE  m = n
  <2>1. Attached(doc.volume) \/ \A k \in DOMAIN machs : ~Exists(k)
    BY <1>1 DEF Attached
  <2>2. ASSUME NEW k \in DOMAIN machs', Exists(k)'
        PROVE  \/ k \in DOMAIN machs /\ Exists(k)
               \/ k = Len(machs) + 1 /\ ~Attached(doc.volume)
    BY <2>2 DEF FlyOn
  <2>3. \A k \in DOMAIN machs : Exists(k) => Attached(doc.volume)
    BY <2>1
  <2>4. QED
    BY <1>5, <2>2, <2>3 DEF OneHome
<1>6. QED
  BY <1>2, <1>3, <1>4, <1>5 DEF OneHome

\* A request is received: what it read is what the document says.
LEMMA ReadTend ==
    ASSUME TypeOK, Begun, NEW r \in Request \ Firsts, NEW l, Read(r, l), Known,
           Receives(r), doc' = doc, OnDoc(r), l \notin {"fork", "repoint"},
           r \in env \cup Sweeps => SpotAt(r, l)
    PROVE  Begun' /\ (OneHome => OneHome')
PROOF
<1>1. /\ Others(r) /\ req'[r].pc = l /\ req'[r].m = doc.machine /\ req'[r].v = doc.volume
  BY ReadEffect
<1>2. r \in env \cup Sweeps /\ UNCHANGED <<env, machs, vols, fresh>>
  BY DEF Receives, At, OnDoc, fly
<1>3. Known' /\ doc'.status \notin {"absent", "draft"}
  BY KnownFacts DEF Known
<1>4. Begun'
  BY <1>1, <1>2, <1>3, TendBegun DEF Known
<1>5. FlyOn(doc.volume)
  BY <1>2 DEF FlyOn, Exists
<1>6. QED
  BY <1>1, <1>4, <1>5, TendHome

\* A request in flight works on the document.
LEMMA DocTend ==
    ASSUME TypeOK, Begun, NEW r \in Request \ Firsts, InFlight(r), OnDoc(r), Others(r),
           doc'.machine \in {doc.machine, req[r].m},
           doc'.status \in {doc.status, "provisioning", "running", "suspended", "error"},
           r \in env \cup Sweeps => SpotAt(r, req'[r].pc),
           InFlight(r)' => req'[r].m \in {req[r].m, doc.machine}
    PROVE  /\ Begun'
           /\ /\ OneHome /\ doc'.volume = doc.volume
              /\ InFlight(r)' => /\ req'[r].v \in {req[r].v, doc.volume}
                                 /\ req'[r].pc \notin {"fork", "repoint"}
              => OneHome'
PROOF
<1>1. Known /\ req[r].m # 0
  BY DEF Begun, Tended
<1>2. r \in env \cup Sweeps
  BY DEF Begun, Asked, Spot, SpotAt, InFlight
<1>3. UNCHANGED <<env, machs, vols, fresh>>
  BY DEF OnDoc, fly
<1>4. Known' /\ doc'.status \notin {"absent", "draft"}
  BY <1>1, KnownFacts DEF Known
<1>5. InFlight(r)' => req'[r].m # 0
  BY <1>1 DEF Known
<1>6. Begun'
  BY <1>1, <1>2, <1>3, <1>4, <1>5, TendBegun
<1>7. FlyOn(doc.volume)
  BY <1>3 DEF FlyOn, Exists
<1>8. OneHome => req[r].v = doc.volume
  BY DEF OneHome
<1>9. QED
  BY <1>1, <1>6, <1>7, <1>8, TendHome

\* A request in flight works on Fly.
LEMMA FlyTend ==
    ASSUME TypeOK, Begun, NEW r \in Request \ Firsts, InFlight(r), OnFly(r), Others(r),
           r \in env \cup Sweeps => SpotAt(r, req'[r].pc), InFlight(r)' => req'[r].m # 0
    PROVE  /\ Begun'
           /\ /\ OneHome /\ FlyOn(doc.volume)
              /\ InFlight(r)' => /\ req'[r].v \in {req[r].v, doc.volume}
                                 /\ req'[r].pc \notin {"fork", "repoint"}
              => OneHome'
PROOF
<1>1. Known /\ req[r].m # 0
  BY DEF Begun, Tended
<1>2. r \in env \cup Sweeps
  BY DEF Begun, Asked, Spot, SpotAt, InFlight
<1>3. env' = env /\ doc' = doc
  BY DEF OnFly
<1>4. Known' /\ doc'.status \notin {"absent", "draft"}
  BY <1>1, <1>3, KnownFacts DEF Known
<1>5. Begun'
  BY <1>1, <1>2, <1>3, <1>4, TendBegun
<1>6. OneHome => req[r].v = doc.volume
  BY DEF OneHome
<1>7. QED
  BY <1>1, <1>3, <1>5, <1>6, TendHome
\* A request that is no launch is received.
LEMMA TendBegin ==
    ASSUME TypeOK, Begun, NEW r \in Request \ Firsts, Begin(r)
    PROVE  Begun' /\ (OneHome => OneHome')
PROOF
<1> USE Kinds
<1>1. ~Insert(r) /\ ~ReadDraft(r)
  BY DEF Insert, ReadDraft
<1>2. CASE ReadResume(r)
  BY <1>2, ReadTend DEF ReadResume, Known, SpotAt, Own
<1>3. CASE ReadWake(r)
  <2>1. PICK l \in {"state", "exists"} : Read(r, l)
    BY <1>3 DEF ReadWake
  <2>2. QED
    BY <1>3, <2>1, ReadTend DEF ReadWake, Known, SpotAt, Own
<1>4. CASE ReadUpgrade(r)
  BY <1>4, ReadTend DEF ReadUpgrade, Resizes, Known, SpotAt, Own
<1>5. CASE ReadRevert(r)
  <2>1. Known
    BY <1>5 DEF ReadRevert, Begun, Tended
  <2>2. QED
    BY <1>5, <2>1, ReadTend DEF ReadRevert, Resizes, Reverts, SpotAt, Own
<1>6. CASE ListExpired(r)
  <2>1. Known
    BY <1>6 DEF ListExpired, Begun, Tended
  <2>2. QED
    BY <1>6, <2>1, ReadTend DEF ListExpired, Resizes, Reverts, SpotAt, Own
<1>7. CASE ReadSuspend(r)
  BY <1>7, ReadTend DEF ReadSuspend, Resizes, Reverts, Known, SpotAt, Own
<1>8. CASE ReadRenew(r)
  <2>1. Known
    BY <1>8 DEF ReadRenew, Begun, Tended
  <2>2. QED
    BY <1>8, <2>1, ReadTend DEF ReadRenew, SpotAt, Own
<1>9. CASE ReadRefresh(r)
  BY <1>9, ReadTend DEF ReadRefresh, Known, SpotAt, Own
<1>10. CASE ListStale(r)
  <2>1. Known
    BY <1>10 DEF ListStale, Stale, Begun, Tended
  <2>2. QED
    BY <1>10, <2>1, ReadTend DEF ListStale, SpotAt, Own
<1>11. CASE ListOrphaned(r)
  <2>1. Known
    BY <1>11 DEF ListOrphaned, Begun, Tended
  <2>2. QED
    BY <1>11, <2>1, ReadTend DEF ListOrphaned, SpotAt, Own
<1>12. QED
  BY <1>1, <1>2, <1>3, <1>4, <1>5, <1>6, <1>7, <1>8, <1>9, <1>10, <1>11 DEF Begin

\* ... works on the document
LEMMA TendDocument ==
    ASSUME TypeOK, Begun, NEW r \in Request \ Firsts, OnDocument(r)
    PROVE  Begun' /\ (OneHome => OneHome')
PROOF
<1> USE Kinds
<1>a. Spot(r) /\ doc \in Document
  BY DEF Begun, Asked, TypeOK
<1>1. CASE ClaimStatus(r)
  <2>1. /\ At(r, "claim") /\ InFlight(r) /\ OnDoc(r) /\ r \in Resumes /\ r \notin Launches
        /\ Go(r, "update") \/ End(r)
        /\ doc' \in {doc, [doc EXCEPT !.status = "provisioning"]}
    BY <1>1, <1>a DEF ClaimStatus, At, InFlight, Spot, SpotAt
  <2>2. /\ doc'.machine = doc.machine /\ doc'.volume = doc.volume
        /\ doc'.status \in {doc.status, "provisioning"}
    BY <1>a, <2>1 DEF Document
  <2>3. /\ Others(r) /\ req'[r].pc \in {"update", "done"}
        /\ req'[r].pc = "update" => req'[r].m = req[r].m /\ req'[r].v = req[r].v
    <3>1. r \notin Sweeps
      BY <2>1 DEF Movers
    <3>2. CASE Go(r, "update")
      BY <3>2, GoEffect
    <3>3. CASE End(r)
      BY <3>1, <3>3, EndEffect
    <3>4. QED
      BY <2>1, <3>2, <3>3
  <2>4. QED
    BY <2>1, <2>2, <2>3, DocTend DEF InFlight, SpotAt, Own
<1>2. CASE PersistVolume(r)
  BY <1>2, <1>a DEF PersistVolume, At, Spot, SpotAt
<1>3. CASE Finish(r) \/ Failed(r)
  <2>1. /\ InFlight(r) /\ OnDoc(r) /\ End(r) /\ doc'.volume = doc.volume
        /\ doc'.machine \in {doc.machine, req[r].m}
        /\ doc'.status \in {doc.status, "running", "error"}
    <3>1. r \notin Creates \cup Launches
      OBVIOUS
    <3>2. CASE Finish(r)
      BY <1>a, <3>1, <3>2 DEF Finish, At, InFlight, Document
    <3>3. CASE Failed(r)
      BY <1>a, <3>3 DEF Failed, At, InFlight, Document
    <3>4. QED
      BY <1>3, <3>2, <3>3
  <2>2. Others(r) /\ req'[r].pc \in {"idle", "done"} /\ (req'[r].pc = "idle" => r \in Sweeps)
    BY <2>1, EndEffect
  <2>3. QED
    BY <2>1, <2>2, DocTend DEF InFlight, SpotAt, Own
<1>4. CASE Repoint(r)
  <2>1. /\ At(r, "repoint") /\ InFlight(r) /\ OnDoc(r) /\ r \in Movers
        /\ Go(r, "machine") \/ Go(r, "failed")
        /\ doc' \in {doc, [doc EXCEPT !.volume = req[r].v]}
    BY <1>4, <1>a DEF Repoint, At, InFlight, Spot, SpotAt
  <2>2. doc'.machine = doc.machine /\ doc'.status = doc.status
    BY <1>a, <2>1 DEF Document
  <2>3. Others(r) /\ req'[r].pc \in {"machine", "failed"} /\ req'[r].m = req[r].m
    BY <2>1, GoEffect
  <2>4. Begun'
    BY <2>1, <2>2, <2>3, DocTend DEF SpotAt, Own
  <2>5. ~OneHome
    BY <2>1 DEF OneHome, At
  <2>6. QED
    BY <2>4, <2>5
<1>5. CASE Look(r) \/ ReadAgain(r)
  <2>1. /\ InFlight(r) /\ OnDoc(r) /\ r \in Resizes /\ doc' = doc
        /\ Go(r, "again") \/ Go(r, "halt") \/ Go(r, "lock") \/ End(r)
    BY <1>5, <1>a DEF Look, ReadAgain, At, InFlight, Spot, SpotAt, Own
  <2>2. /\ Others(r) /\ req'[r].pc \in {"again", "halt", "lock", "idle", "done"}
        /\ req'[r].pc = "idle" => r \in Sweeps
        /\ InFlight(r)' => req'[r].m = req[r].m /\ req'[r].v = req[r].v
    BY <2>1, GoEffect, EndEffect DEF InFlight
  <2>3. QED
    BY <2>1, <2>2, DocTend DEF SpotAt, Own
<1>6. CASE Lock(r)
  <2>1. /\ InFlight(r) /\ OnDoc(r) /\ r \in Resizes
        /\ Read(r, "stop") \/ End(r)
        /\ doc' \in {doc, [doc EXCEPT !.claim = r]}
    BY <1>6, <1>a DEF Lock, At, InFlight, Spot, SpotAt, Own
  <2>2. doc'.machine = doc.machine /\ doc'.volume = doc.volume /\ doc'.status = doc.status
    BY <1>a, <2>1 DEF Document
  <2>3. /\ Others(r) /\ req'[r].pc \in {"stop", "idle", "done"}
        /\ req'[r].pc = "idle" => r \in Sweeps
        /\ InFlight(r)' => req'[r].m = doc.machine /\ req'[r].v = doc.volume
    BY <2>1, ReadEffect, EndEffect DEF InFlight
  <2>4. QED
    BY <2>1, <2>2, <2>3, DocTend DEF SpotAt, Own
<1>7. CASE LetGo(r) \/ RecordMachine(r) \/ Settle(r)
  <2>1. /\ InFlight(r) /\ OnDoc(r) /\ r \in Resizes
        /\ Go(r, "settle") \/ Go(r, "fresh") \/ End(r)
    BY <1>7, <1>a DEF LetGo, RecordMachine, Settle, At, InFlight, Spot, SpotAt, Own
  <2>2. /\ doc'.machine \in {doc.machine, req[r].m} /\ doc'.volume = doc.volume
        /\ doc'.status = doc.status
    BY <1>7, <1>a DEF LetGo, RecordMachine, Settle, Document
  <2>3. /\ Others(r) /\ req'[r].pc \in {"settle", "fresh", "idle", "done"}
        /\ req'[r].pc = "idle" => r \in Sweeps
        /\ InFlight(r)' => req'[r].m = req[r].m /\ req'[r].v = req[r].v
    BY <2>1, GoEffect, EndEffect DEF InFlight
  <2>4. QED
    BY <2>1, <2>2, <2>3, DocTend DEF SpotAt, Own
<1>8. CASE ReadFresh(r)
  <2>1. /\ InFlight(r) /\ OnDoc(r) /\ r \in Resizes /\ doc' = doc
        /\ WithMachine(r, doc.machine, "halt")
    BY <1>8, <1>a DEF ReadFresh, At, InFlight, Spot, SpotAt, Own
  <2>2. /\ Others(r) /\ req'[r].pc = "halt" /\ req'[r].m = doc.machine
        /\ req'[r].v = req[r].v
    BY <2>1, WithMachineEffect
  <2>3. QED
    BY <2>1, <2>2, DocTend DEF SpotAt, Own
<1>9. CASE MarkSuspended(r) \/ WriteStatus(r) \/ FailStale(r) \/ ClearUpgrade(r)
  <2>1. InFlight(r) /\ OnDoc(r) /\ End(r)
    BY <1>9, <1>a DEF MarkSuspended, WriteStatus, FailStale, ClearUpgrade, At, InFlight
  <2>2. /\ doc'.machine = doc.machine /\ doc'.volume = doc.volume
        /\ doc'.status \in {doc.status, "running", "suspended", "error"}
    <3>1. CASE MarkSuspended(r)
      BY <1>a, <3>1 DEF MarkSuspended, Document
    <3>2. CASE WriteStatus(r)
      BY <1>a, <3>2 DEF WriteStatus, Document
    <3>3. CASE FailStale(r)
      BY <1>a, <3>3 DEF FailStale, Document
    <3>4. CASE ClearUpgrade(r)
      BY <1>a, <3>4 DEF ClearUpgrade, Document
    <3>5. QED
      BY <1>9, <3>1, <3>2, <3>3, <3>4
  <2>3. Others(r) /\ req'[r].pc \in {"idle", "done"} /\ (req'[r].pc = "idle" => r \in Sweeps)
    BY <2>1, EndEffect
  <2>4. QED
    BY <2>1, <2>2, <2>3, DocTend DEF InFlight, SpotAt, Own
<1>10. CASE Swap(r) \/ Remind(r)
  <2>1. /\ InFlight(r) /\ OnDoc(r) /\ r = "renew" /\ (Go(r, "remind") \/ End(r))
    BY <1>10, <1>a DEF Swap, Remind, At, InFlight, Spot, SpotAt
  <2>2. doc'.machine = doc.machine /\ doc'.volume = doc.volume /\ doc'.status = doc.status
    BY <1>10, <1>a DEF Swap, Remind, Document
  <2>3. /\ Others(r) /\ req'[r].pc \in {"remind", "done"}
        /\ InFlight(r)' => req'[r].m = req[r].m /\ req'[r].v = req[r].v
    BY <2>1, GoEffect, EndEffect DEF InFlight
  <2>4. QED
    BY <2>1, <2>2, <2>3, DocTend DEF SpotAt, Own
<1>11. QED
  BY <1>1, <1>2, <1>3, <1>4, <1>5, <1>6, <1>7, <1>8, <1>9, <1>10 DEF OnDocument

\* ... or on Fly.
LEMMA AskOn ==
    ASSUME TypeOK, NEW r \in Request, NEW m, NEW s \in {"up", "down", "gone"},
           NEW yes, NEW no, Ask(r, m, s, yes, no)
    PROVE  /\ Others(r) /\ req'[r].pc \in {yes, no} /\ req'[r].doc = req[r].doc
           /\ req'[r].m = req[r].m /\ req'[r].v = req[r].v
           /\ \A v : (m \in DOMAIN machs => machs[m].volume = v) => FlyOn(v)
PROOF
<1>1. Go(r, yes) \/ Go(r, no)
  BY DEF Ask
<1>2. (Exists(m) /\ Turn(m, s)) \/ UNCHANGED fly
  BY DEF Ask
<1>3. ASSUME NEW v, m \in DOMAIN machs => machs[m].volume = v PROVE FlyOn(v)
  <2>1. CASE Exists(m) /\ Turn(m, s)
    BY <1>3, <2>1, TurnOn DEF Exists
  <2>2. CASE UNCHANGED fly
    BY <2>2 DEF fly, FlyOn, Exists
  <2>3. QED
    BY <1>2, <2>1, <2>2
<1>4. QED
  BY <1>1, <1>3, GoEffect

LEMMA TendFly ==
    ASSUME TypeOK, Begun, NEW r \in Request \ Firsts, AskFly(r)
    PROVE  Begun' /\ ("full" \notin env /\ OneHome => OneHome')
PROOF
<1> USE Kinds
<1>a. Spot(r) /\ doc \in Document /\ machs \in Seq(Machine) /\ req[r].v \in Nat
  BY DEF Begun, Asked, TypeOK
<1>b. InFlight(r) /\ OnFly(r)
  BY DEF AskFly, CreateVolume, CreateMachine, UpdateMachine, StartMachine, DeleteMachine,
         ForkVolume, WakeState, WakeExists, StopOld, DeleteOld, Halt, RefreshState, At, InFlight
<1>c. OneHome => /\ \A m \in DOMAIN machs : machs[m].volume = doc.volume
                 /\ req[r].v = doc.volume /\ req[r].pc # "fork"
  BY <1>b DEF OneHome, Begun, Tended
<1>d. r \notin Firsts /\ req[r].m # 0
  BY <1>b DEF Begun, Tended
<1>1. CASE CreateVolume(r)
  BY <1>1, <1>a DEF CreateVolume, At, Spot, SpotAt
<1>2. CASE CreateMachine(r)
  <2>1. r \in Movers \cup Resizes
    BY <1>2, <1>a DEF CreateMachine, At, Spot, SpotAt
  <2>2. CASE UNCHANGED <<machs, fresh>>
    <3>1. PICK l \in {"failed", "fork"} :
             /\ Go(r, l) /\ (l = "fork" => r \in Movers /\ "full" \in env)
      BY <1>2, <2>2 DEF CreateMachine, Movers
    <3>2. /\ Others(r) /\ req'[r].pc = l /\ req'[r].m = req[r].m /\ req'[r].v = req[r].v
      BY <3>1, GoEffect
    <3>3. FlyOn(doc.volume)
      BY <2>2 DEF FlyOn, Exists
    <3>4. SpotAt(r, l)
      BY <2>1, <3>1, <1>a, <1>b DEF SpotAt, Own, Spot, InFlight
    <3>5. Begun'
      BY <1>b, <1>d, <3>2, <3>4, FlyTend
    <3>6. QED
      BY <1>b, <1>d, <3>1, <3>2, <3>3, <3>4, <3>5, FlyTend
  <2>3. CASE /\ ~Attached(req[r].v) /\ fresh' = {req[r].v}
             /\ machs' = Append(machs, [state |-> "up", big |-> r = "upgrade",
                                        volume |-> req[r].v])
    <3>1. FlyOn(req[r].v) /\ Len(machs') \in Nat \ {0}
      BY <1>a, <2>3, CreateOn
    <3>2. PICK l \in {"record", "finish", "failed"} :
             /\ WithMachine(r, Len(machs'), l) \/ (l = "failed" /\ Go(r, l))
             /\ l = "record" => r \in Resizes
             /\ l = "finish" => r \notin Resizes
      BY <1>2, <2>3 DEF CreateMachine
    <3>3. /\ Others(r) /\ req'[r].pc = l /\ req'[r].v = req[r].v
          /\ req'[r].m \in {req[r].m, Len(machs')}
      BY <3>2, GoEffect, WithMachineEffect
    <3>4. SpotAt(r, l)
      BY <2>1, <3>2, <1>a, <1>b DEF SpotAt, Own, Spot, InFlight
    <3>5. req'[r].m # 0
      BY <1>d, <3>1, <3>3
    <3>6. QED
      BY <1>b, <1>c, <3>1, <3>2, <3>3, <3>4, <3>5, FlyTend
  <2>4. QED
    BY <1>2, <2>2, <2>3 DEF CreateMachine
<1>3. CASE UpdateMachine(r)
  <2>1. r \in Resumes /\ r \in Movers
    BY <1>3, <1>a DEF UpdateMachine, At, Spot, SpotAt, Movers
  <2>2. PICK l \in {"start", "delete", "machine"} : Go(r, l)
    BY <1>3 DEF UpdateMachine
  <2>3. /\ Others(r) /\ req'[r].pc = l /\ req'[r].m = req[r].m /\ req'[r].v = req[r].v
    BY <2>2, GoEffect
  <2>4. SpotAt(r, l)
    BY <2>1, <1>a, <1>b DEF SpotAt, Own, Spot, InFlight
  <2>5. FlyOn(req[r].v)
    <3>1. CASE UNCHANGED machs
      BY <1>3, <3>1 DEF UpdateMachine, FlyOn, Exists
    <3>2. CASE /\ Exists(req[r].m)
               /\ machs' = [machs EXCEPT ![req[r].m] = [state |-> "down", big |-> FALSE,
                                                       volume |-> req[r].v]]
      <4>1. /\ req[r].m \in DOMAIN machs /\ DOMAIN machs' = DOMAIN machs
            /\ machs'[req[r].m].volume = req[r].v
            /\ \A n \in DOMAIN machs : n # req[r].m => machs'[n] = machs[n]
        BY <1>a, <3>2 DEF Exists
      <4>2. QED
        BY <1>3, <3>2, <4>1 DEF UpdateMachine, FlyOn, Exists
    <3>3. QED
      BY <1>3, <3>1, <3>2 DEF UpdateMachine
  <2>6. QED
    BY <1>b, <1>c, <1>d, <2>3, <2>4, <2>5, FlyTend
<1>4. CASE StartMachine(r)
  <2>1. r \in Movers
    BY <1>4, <1>a DEF StartMachine, At, Spot, SpotAt
  <2>2. PICK l \in {"delete", "failed"} :
           /\ l = "delete" => r \in Resumes
           /\ \/ Ask(r, req[r].m, "up", "finish", l)
              \/ Go(r, l) /\ UNCHANGED fly
    BY <1>4 DEF StartMachine
  <2>3. /\ Others(r) /\ req'[r].pc \in {"finish", l}
        /\ req'[r].m = req[r].m /\ req'[r].v = req[r].v
    <3>1. CASE Go(r, l)
      BY <3>1, GoEffect
    <3>2. CASE Ask(r, req[r].m, "up", "finish", l)
      <4>1. PICK s \in {"up", "down", "gone"}, yes \in {"finish"}, no \in {l} :
               Ask(r, req[r].m, s, yes, no)
        BY <3>2
      <4>2. Others(r) /\ req'[r].pc \in {yes, no} /\ req'[r].m = req[r].m /\ req'[r].v = req[r].v
        BY <4>1, AskOn
      <4>3. QED
        BY <4>2
    <3>3. QED
      BY <2>2, <3>1, <3>2
  <2>4. SpotAt(r, req'[r].pc)
    BY <2>1, <2>2, <2>3, <1>a, <1>b DEF SpotAt, Own, Spot, InFlight
  <2>5. OneHome => FlyOn(doc.volume)
    <3>1. CASE Go(r, l) /\ UNCHANGED fly
      BY <3>1 DEF FlyOn, fly, Exists
    <3>2. CASE Ask(r, req[r].m, "up", "finish", l)
      BY <1>c, <3>2, AskOn
    <3>3. QED
      BY <2>2, <3>1, <3>2
  <2>6. QED
    BY <1>b, <1>c, <1>d, <2>2, <2>3, <2>4, <2>5, FlyTend
<1>5. CASE DeleteMachine(r)
  <2>1. r \in Movers /\ Ask(r, req[r].m, "gone", "machine", "machine")
    BY <1>5, <1>a DEF DeleteMachine, At, Spot, SpotAt, Movers
  <2>2. /\ Others(r) /\ req'[r].pc = "machine" /\ req'[r].m = req[r].m
        /\ req'[r].v = req[r].v /\ (OneHome => FlyOn(doc.volume))
    <3>1. Go(r, "machine")
      BY <2>1 DEF Ask
    <3>2. CASE UNCHANGED fly
      BY <3>1, <3>2, GoEffect DEF FlyOn, fly, Exists
    <3>3. CASE Exists(req[r].m) /\ Turn(req[r].m, "gone")
      <4>1. OneHome => machs[req[r].m].volume = doc.volume
        BY <1>c, <3>3 DEF Exists
      <4>2. OneHome => FlyOn(doc.volume)
        BY <3>3, <4>1, TurnOn
      <4>3. QED
        BY <3>1, <4>2, GoEffect
    <3>4. QED
      BY <2>1, <3>2, <3>3 DEF Ask
  <2>3. SpotAt(r, "machine")
    BY <2>1, <1>a, <1>b DEF SpotAt, Own, Spot, InFlight
  <2>4. QED
    BY <1>b, <1>c, <1>d, <2>2, <2>3, FlyTend
<1>6. CASE ForkVolume(r)
  <2>1. r \in Movers /\ req[r].pc = "fork"
    BY <1>6, <1>a DEF ForkVolume, At, Spot, SpotAt
  <2>2. Go(r, "failed") \/ WithVolume(r, vols', "repoint")
    BY <1>6 DEF ForkVolume
  <2>3. /\ Others(r) /\ req'[r].pc \in {"failed", "repoint"} /\ req'[r].m = req[r].m
    BY <2>2, GoEffect, WithVolumeEffect
  <2>4. SpotAt(r, req'[r].pc)
    BY <2>1, <2>3, <1>a, <1>b DEF SpotAt, Own, Spot, InFlight
  <2>5. QED
    BY <1>b, <1>c, <1>d, <2>1, <2>3, <2>4, FlyTend
<1>7. CASE WakeState(r) \/ WakeExists(r) \/ RefreshState(r)
  <2>1. r \in Wakes \cup {"refresh"} /\ (r = "refresh" => RefreshState(r))
    BY <1>7, <1>a DEF WakeState, WakeExists, RefreshState, At, Spot, SpotAt, Movers
  <2>2. /\ r \notin Sweeps /\ UNCHANGED fly
        /\ \/ End(r)
           \/ r \in Wakes /\ \E l \in {"exists", "start", "machine", "failed"} : Go(r, l)
           \/ r = "refresh" /\ \E l \in {"sawUp", "sawDown"} : Go(r, l)
    <3>1. CASE WakeState(r)
      BY <3>1 DEF WakeState, Movers
    <3>2. CASE WakeExists(r)
      BY <2>1, <3>2, <1>a DEF WakeExists, Movers, At, Spot, SpotAt
    <3>3. CASE RefreshState(r)
      BY <3>3 DEF RefreshState
    <3>4. QED
      BY <1>7, <3>1, <3>2, <3>3
  <2>3. /\ Others(r) /\ (InFlight(r)' => req'[r].m = req[r].m /\ req'[r].v = req[r].v)
        /\ \/ req'[r].pc = "done"
           \/ r \in Wakes /\ req'[r].pc \in {"exists", "start", "machine", "failed"}
           \/ r = "refresh" /\ req'[r].pc \in {"sawUp", "sawDown"}
    <3>1. CASE End(r)
      BY <2>2, <3>1, EndEffect DEF InFlight
    <3>2. CASE r \in Wakes /\ \E l \in {"exists", "start", "machine", "failed"} : Go(r, l)
      BY <3>2, GoEffect
    <3>3. CASE r = "refresh" /\ \E l \in {"sawUp", "sawDown"} : Go(r, l)
      BY <3>3, GoEffect
    <3>4. QED
      BY <2>2, <3>1, <3>2, <3>3
  <2>4. SpotAt(r, req'[r].pc)
    BY <2>1, <2>3, <1>a, <1>b DEF SpotAt, Own, Spot, InFlight, Movers
  <2>5. FlyOn(doc.volume)
    BY <2>2 DEF FlyOn, fly, Exists
  <2>6. InFlight(r)' => req'[r].pc \notin {"fork", "repoint"}
    BY <2>3
  <2>7. QED
    BY <1>b, <1>c, <1>d, <2>3, <2>4, <2>5, <2>6, FlyTend
<1>8. CASE StopOld(r) \/ DeleteOld(r)
  <2>1. PICK s \in {"down", "gone"}, yes \in {"remove", "machine"}, no \in {"letGo", "failed"} :
           r \in Resizes /\ Ask(r, req[r].m, s, yes, no)
    BY <1>8, <1>a DEF StopOld, DeleteOld, At, Spot, SpotAt, Own
  <2>2. /\ Others(r) /\ req'[r].pc \in {yes, no} /\ req'[r].m = req[r].m
        /\ req'[r].v = req[r].v /\ (OneHome => FlyOn(doc.volume))
    BY <1>c, <2>1, AskOn
  <2>3. SpotAt(r, req'[r].pc)
    BY <2>1, <2>2, <1>a, <1>b DEF SpotAt, Own, Spot, InFlight
  <2>4. QED
    BY <1>b, <1>c, <1>d, <2>2, <2>3, FlyTend
<1>9. CASE Halt(r)
  <2>1. r \in Resizes
    BY <1>9, <1>a DEF Halt, At, Spot, SpotAt, Own
  <2>2. Go(r, "mark") \/ End(r)
    BY <1>9 DEF Halt
  <2>3. /\ Others(r) /\ req'[r].pc \in {"mark", "idle", "done"}
        /\ req'[r].pc = "idle" => r \in Sweeps
        /\ (InFlight(r)' => req'[r].m = req[r].m /\ req'[r].v = req[r].v)
    BY <2>2, GoEffect, EndEffect DEF InFlight
  <2>4. SpotAt(r, req'[r].pc)
    BY <2>1, <2>3, <1>a, <1>b DEF SpotAt, Own, Spot, InFlight
  <2>5. OneHome => FlyOn(doc.volume)
    <3>1. CASE UNCHANGED fly
      BY <3>1 DEF FlyOn, fly, Exists
    <3>2. CASE Exists(req[r].m) /\ Turn(req[r].m, "down")
      <4>1. OneHome => machs[req[r].m].volume = doc.volume
        BY <1>c, <3>2 DEF Exists
      <4>2. QED
        BY <3>2, <4>1, TurnOn
    <3>3. QED
      BY <1>9, <3>1, <3>2 DEF Halt
  <2>6. QED
    BY <1>b, <1>c, <1>d, <2>3, <2>4, <2>5, FlyTend
<1>10. QED
  BY <1>1, <1>2, <1>3, <1>4, <1>5, <1>6, <1>7, <1>8, <1>9 DEF AskFly
-----------------------------------------------------------------------------
(* A launch.                                                                 *)

DataStep == Data!Next \/ UNCHANGED <<doc.volume, fresh>>

\* A mission without a machine has nobody but its launches at work, and stays orderly
\* while it has none.
LEMMA FirstHomes ==
    ASSUME TypeOK, Begun, Homes, NEW r \in Firsts, env' = env, Others(r), ~Known, ~Known',
           doc'.upgrade = doc.upgrade, doc'.claim = doc.claim,
           OneHome => \A m, n \in DOMAIN machs' : Exists(m)' /\ Exists(n)' => m = n
    PROVE  Homes'
PROOF
<1>1. \A s \in Request \ Firsts : ~InFlight(s) /\ req'[s] = req[s]
  BY DEF Begun, Tended, Others
<1>2. \A s \in Request \ Firsts : ~InFlight(s)'
  BY <1>1 DEF InFlight
<1>3. ASSUME "full" \notin env PROVE OneHome'
  BY <1>2, <1>3 DEF Homes, OneHome
<1>4. ASSUME "full" \in env PROVE Forks'
  <2>1. Forks
    BY <1>4 DEF Homes
  <2>2. NoResize'
    BY <1>2, <2>1 DEF Forks, NoResize
  <2>3. \A s \in Movers : s \in Request \ Firsts
    BY Kinds
  <2>4. Moved'
    BY <1>2, <2>3 DEF Moved, Moving, InFlight
  <2>5. ASSUME NEW s \in Resumes PROVE Claimable(s)'
    <3>1. req'[s].pc \in {"idle", "done"}
      BY <1>2, <2>3 DEF InFlight, Movers
    <3>2. QED
      BY <3>1 DEF Claimable
  <2>6. Failure'
    BY DEF Failure
  <2>7. ASSUME NEW s \in Movers PROVE Lone(s)'
    BY DEF Lone
  <2>8. QED
    BY <2>2, <2>4, <2>5, <2>6, <2>7 DEF Forks
<1>5. QED
  BY <1>3, <1>4 DEF Homes

\* Where a launch can be.
LEMMA FirstPlaces ==
    ASSUME TypeOK, Begun, NEW r \in Firsts
    PROVE  /\ r \in Request
           /\ req[r].pc \in {"idle", "done", "claim", "volume", "persist", "machine",
                             "finish", "failed"}
           /\ InFlight(r) => r \in env \cup Sweeps
PROOF
<1>1. r \in Request /\ r \notin Movers \cup Resizes \cup {"renew", "refresh", "stale", "orphan"}
  BY Kinds
<1>2. req[r].pc \in Label /\ Spot(r)
  BY <1>1 DEF TypeOK, Begun, Asked
<1>3. QED
  BY <1>1, <1>2 DEF Label, Spot, SpotAt, Own, Movers, InFlight

\* The requests but r stay where they are.
LEMMA FirstAsked ==
    ASSUME Begun, NEW r \in Firsts, env' = env, Others(r), SpotAt(r, req'[r].pc)
    PROVE  Asked'
PROOF
<1> SUFFICES ASSUME NEW s \in Request PROVE Spot(s)'
  BY DEF Asked
<1>1. CASE s = r
  BY <1>1 DEF Spot, SpotAt
<1>2. CASE s # r
  <2>1. req'[s] = req[s] /\ Spot(s)
    BY <1>2 DEF Begun, Asked, Others
  <2>2. QED
    BY <2>1 DEF Spot, SpotAt
<1>3. QED
  BY <1>1, <1>2

\* What the others know of the mission does not change with a launch.
LEMMA FirstTended ==
    ASSUME Begun, NEW r \in Firsts, Others(r), doc'.upgrade = doc.upgrade,
           doc'.claim = doc.claim, Known => Known',
           doc'.status \in {"running", "suspended"} =>
             Known' \/ doc.status \in {"running", "suspended"}
    PROVE  Tended'
PROOF
<1>1. ASSUME NEW s \in Request \ Firsts, InFlight(s)'
      PROVE  Known' /\ req'[s].m # 0
  BY <1>1 DEF Others, InFlight, Begun, Tended
<1>2. QED
  BY <1>1 DEF Begun, Tended

\* The one launch at work goes on ...
LEMMA LaunchStays ==
    ASSUME TypeOK, Begun, Homes, NEW r \in Firsts, env' = env, Others(r), Launching(r),
           Launching(r)', doc'.machine = doc.machine, doc'.status = doc.status,
           doc'.upgrade = doc.upgrade, doc'.claim = doc.claim, Stage(r)',
           SpotAt(r, req'[r].pc),
           OneHome => \A m, n \in DOMAIN machs' : Exists(m)' /\ Exists(n)' => m = n
    PROVE  Begun' /\ Homes'
PROOF
<1>1. /\ ~Known /\ \A s \in Firsts : Launching(s) => s = r
      /\ doc.status = IF r = "copilotLaunch" THEN "draft" ELSE "provisioning"
  BY DEF Begun, Launch
<1>2. ~Known'
  BY <1>1 DEF Known
<1>3. \A s \in Firsts : s # r => ~Launching(s)' /\ req'[s] = req[s] /\ s \in Request
  BY <1>1, Kinds DEF Launching, Others
<1>4. Launch'
  <2>1. ASSUME NEW s \in Firsts, Launching(s)'
        PROVE  s = r
    BY <1>3, <2>1
  <2>2. ASSUME NEW s \in Firsts, req'[s].pc = "claim"
        PROVE  s # "copilotLaunch" /\ req'[s].doc.status = "draft"
    BY <1>3, <2>2 DEF Launching, Begun, Launch
  <2>3. ASSUME doc'.status \in {"absent", "draft"}
        PROVE  req'["copilotLaunch"].pc # "idle"
    BY <1>1, <2>3 DEF Launching
  <2>4. req'["copilotLaunch"].pc # "idle" => doc'.status # "absent"
    BY <1>1
  <2>5. QED
    BY <1>1, <1>2, <2>1, <2>2, <2>3, <2>4 DEF Launch
<1>5. Tended'
  BY <1>1, FirstTended
<1>6. QED
  BY <1>1, <1>2, <1>4, <1>5, FirstAsked, FirstHomes DEF Begun

\* ... or comes to its end.
LEMMA LaunchEnds ==
    ASSUME TypeOK, Begun, NEW r \in Firsts, env' = env, Others(r), Launching(r),
           req'[r].pc = "done", doc'.status \in {"running", "error"},
           doc'.status = "running" => Known', ~Known => doc'.upgrade = doc.upgrade,
           ~Known => doc'.claim = doc.claim
    PROVE  Begun'
PROOF
<1>1. ~Known /\ \A s \in Firsts : Launching(s) => s = r
  BY DEF Begun, Launch
<1>2. \A s \in Firsts : s # r => ~Launching(s)' /\ req'[s] = req[s] /\ s \in Request
  BY <1>1, Kinds DEF Launching, Others
<1>3. ~Launching(r)'
  BY DEF Launching
<1>4. Launch'
  <2>1. ASSUME NEW s \in Firsts, req'[s].pc = "claim"
        PROVE  s # "copilotLaunch" /\ req'[s].doc.status = "draft"
    BY <1>2, <2>1 DEF Begun, Launch
  <2>2. \A s \in Firsts : ~Launching(s)'
    BY <1>2, <1>3
  <2>3. doc'.status \notin {"absent", "draft"}
    OBVIOUS
  <2>4. QED
    BY <2>1, <2>2, <2>3 DEF Launch
<1>5. Tended'
  BY <1>1, FirstTended
<1>6. SpotAt(r, "done")
  BY FirstPlaces DEF SpotAt, Own, Launching, InFlight
<1>7. QED
  BY <1>4, <1>5, <1>6, FirstAsked DEF Begun

\* The mission gets a machine: from here on every request may work on it.
LEMMA Founded ==
    ASSUME TypeOK, Begun, Homes, NEW r \in Firsts, env' = env, Others(r), ~Known,
           UNCHANGED fly, Len(machs) = 1, doc'.machine = 1, doc'.status = "running",
           machs[1].volume = doc'.volume, fresh = {doc'.volume},
           doc'.upgrade = doc.upgrade, doc'.claim = doc.claim
    PROVE  Homes'
PROOF
<1>1. \A s \in Request \ Firsts : ~InFlight(s) /\ req'[s] = req[s]
  BY DEF Begun, Tended, Others
<1>2. \A s \in Request \ Firsts : ~InFlight(s)'
  BY <1>1 DEF InFlight
<1>3. machs \in Seq(Machine) /\ machs' = machs /\ fresh' = fresh
  BY DEF TypeOK, fly
<1>4. \A m \in DOMAIN machs : m = 1
  BY <1>3
<1>5. ASSUME "full" \notin env PROVE OneHome'
  BY <1>2, <1>3, <1>4 DEF OneHome, Homes
<1>6. ASSUME "full" \in env PROVE Forks'
  <2>1. Forks
    BY <1>6 DEF Homes
  <2>2. NoResize'
    BY <1>2, <2>1 DEF Forks, NoResize
  <2>3. /\ \A s \in Movers : s \in Request \ Firsts
        /\ "refresh" \in Request \ Firsts
    BY Kinds
  <2>4. Moved'
    BY <1>2, <2>3 DEF Moved, Moving, InFlight
  <2>5. ASSUME NEW s \in Resumes PROVE Claimable(s)'
    <3>1. req'[s].pc \in {"idle", "done"} /\ req'["refresh"].pc # "sawDown"
      BY <1>2, <2>3 DEF InFlight, Movers
    <3>2. QED
      BY <3>1 DEF Claimable
  <2>6. Failure'
    BY DEF Failure
  <2>7. ASSUME NEW s \in Movers PROVE Lone(s)'
    <3>1. ~InFlight(s)' /\ ~InFlight("refresh")'
      BY <1>2, <2>3
    <3>2. QED
      BY <1>3, <3>1 DEF Lone
  <2>8. OnHome'
    BY <1>3, <1>4 DEF OnHome, Up
  <2>9. QED
    BY <2>2, <2>4, <2>5, <2>6, <2>7, <2>8 DEF Forks
<1>7. QED
  BY <1>5, <1>6 DEF Homes

\* A launch begins.
LEMMA LaunchBegins ==
    ASSUME TypeOK, Begun, Homes, NEW r \in Firsts, env' = env, Others(r), UNCHANGED fly,
           req'[r].pc = "volume", r \in env, ~Known, Empty,
           \A s \in Firsts : ~Launching(s),
           doc'.machine = doc.machine, doc'.volume = doc.volume, doc'.upgrade = doc.upgrade,
           doc'.claim = doc.claim,
           doc'.status = IF r = "copilotLaunch" THEN "draft" ELSE "provisioning",
           req["copilotLaunch"].pc = "idle" \/ r # "copilotLaunch"
    PROVE  Begun' /\ Homes'
PROOF
<1>1. ~Known'
  BY DEF Known
<1>2. \A s \in Firsts : s # r => ~Launching(s)' /\ req'[s] = req[s]
  BY Kinds DEF Launching, Others
<1>3. Launching(r)' /\ Empty'
  BY DEF Launching, Empty, fly
<1>4. Launch'
  <2>1. ASSUME NEW s \in Firsts, Launching(s)'
        PROVE  s = r
    BY <1>2, <2>1
  <2>2. Stage(r)'
    BY <1>3 DEF Stage
  <2>3. ASSUME NEW s \in Firsts, req'[s].pc = "claim"
        PROVE  s # "copilotLaunch" /\ req'[s].doc.status = "draft"
    BY <1>2, <2>3 DEF Begun, Launch
  <2>4. ASSUME doc'.status \in {"absent", "draft"}
        PROVE  req'["copilotLaunch"].pc # "idle"
    BY <2>4
  <2>5. req'["copilotLaunch"].pc # "idle" => doc'.status # "absent"
    OBVIOUS
  <2>6. QED
    BY <1>1, <2>1, <2>2, <2>3, <2>4, <2>5 DEF Launch
<1>5. Tended'
  BY FirstTended DEF Known
<1>6. SpotAt(r, "volume")
  BY DEF SpotAt, Own
<1>7. OneHome => \A m, n \in DOMAIN machs' : Exists(m)' /\ Exists(n)' => m = n
  BY DEF OneHome, Exists, fly
<1>8. Homes'
  BY <1>1, <1>7, FirstHomes
<1>9. QED
  BY <1>4, <1>5, <1>6, <1>8, FirstAsked DEF Begun

\* A launch is received.
LEMMA LaunchBegin ==
    ASSUME Orderly, TypeOK, Begun, Homes, NEW r \in Firsts, Begin(r)
    PROVE  Begun' /\ Homes' /\ DataStep
PROOF
<1> USE Kinds
<1>a. r \in Request /\ doc \in Document
  BY DEF TypeOK
<1>1. CASE Insert(r)
  <2>1. /\ r \in env /\ Go(r, "volume") /\ env' = env /\ UNCHANGED fly /\ r # "copilotLaunch"
        /\ doc.status = "absent"
    BY <1>1 DEF Insert, Receives, At, OnDoc
  <2>2. /\ doc'.machine = doc.machine /\ doc'.volume = doc.volume /\ doc'.upgrade = doc.upgrade
        /\ doc'.claim = doc.claim /\ doc'.status = "provisioning"
    BY <1>1, <1>a DEF Insert, Document
  <2>3. /\ ~Known /\ Empty /\ \A s \in Firsts : ~Launching(s)
    BY <2>1 DEF Begun, Launch
  <2>4. Begun' /\ Homes'
    BY <1>a, <2>1, <2>2, <2>3, GoEffect, LaunchBegins
  <2>5. QED
    BY <2>1, <2>2, <2>4 DEF DataStep, fly
<1>2. CASE ReadDraft(r)
  <2>1. /\ r \in env /\ env' = env /\ UNCHANGED fly /\ doc' = doc /\ req[r].pc = "idle"
        /\ doc.status = "draft" /\ r \in Launches
    BY <1>2 DEF ReadDraft, Receives, At, OnDoc
  <2>2. ~Known
    BY <2>1 DEF Begun, Launch
  <2>3. CASE r = "copilotLaunch"
    <3>1. Read(r, "volume")
      BY <1>2, <2>3 DEF ReadDraft
    <3>2. Empty /\ \A s \in Firsts : ~Launching(s)
      BY <2>1, <2>3 DEF Begun, Launch, Launching
    <3>3. Begun' /\ Homes'
      BY <1>a, <2>1, <2>2, <2>3, <3>1, <3>2, ReadEffect, LaunchBegins
    <3>4. QED
      BY <2>1, <3>3 DEF DataStep, fly
  <2>4. CASE r # "copilotLaunch"
    <3>1. Read(r, "claim") /\ r \in {"launch", "launch2"}
      BY <1>2, <2>1, <2>4 DEF ReadDraft
    <3>2. Others(r) /\ req'[r].pc = "claim" /\ req'[r].doc = doc
      BY <1>a, <3>1, ReadEffect
    <3>3. \A s \in Firsts : s # r => req'[s] = req[s]
      BY <3>2 DEF Others
    <3>4. \A s \in Firsts : Launching(s)' => Launching(s)
      BY <3>2, <3>3 DEF Launching
    <3>5. Launch'
      <4>1. \A s \in Firsts : Launching(s)' =>
              ~Known' /\ Stage(s)' /\ \A t \in Firsts : Launching(t)' => t = s
        <5> SUFFICES ASSUME NEW s \in Firsts, Launching(s)'
                     PROVE  ~Known' /\ Stage(s)' /\ \A t \in Firsts : Launching(t)' => t = s
          OBVIOUS
        <5>1. Launching(s) /\ s # r
          BY <3>2, <3>4 DEF Launching
        <5>2. req'[s] = req[s] /\ Stage(s)
          BY <3>3, <5>1 DEF Begun, Launch
        <5>3. Stage(s)'
          BY <2>1, <5>2 DEF Stage, Empty, fly
        <5>4. QED
          BY <2>1, <2>2, <3>4, <5>1, <5>3 DEF Begun, Launch, Known
      <4>2. \A s \in Firsts : req'[s].pc = "claim" =>
              s # "copilotLaunch" /\ req'[s].doc.status = "draft"
        <5> SUFFICES ASSUME NEW s \in Firsts, req'[s].pc = "claim"
                     PROVE  s # "copilotLaunch" /\ req'[s].doc.status = "draft"
          OBVIOUS
        <5>1. CASE s = r
          BY <2>1, <2>4, <3>2, <5>1
        <5>2. CASE s # r
          <6>1. req'[s] = req[s]
            BY <3>3, <5>2
          <6>2. QED
            BY <2>1, <6>1 DEF Begun, Launch
        <5>3. QED
          BY <5>1, <5>2
      <4>3. req'["copilotLaunch"] = req["copilotLaunch"]
        BY <2>4, <3>3
      <4>4. Empty' <=> Empty
        BY <2>1 DEF Empty, fly
      <4>5. QED
        BY <2>1, <3>4, <4>1, <4>2, <4>3, <4>4 DEF Begun, Launch, Known
    <3>6. Tended'
      BY <2>1, <3>2, FirstTended DEF Known
    <3>7. SpotAt(r, "claim")
      BY <2>1, <3>1 DEF SpotAt, Own
    <3>8. OneHome => \A m, n \in DOMAIN machs' : Exists(m)' /\ Exists(n)' => m = n
      BY <2>1 DEF OneHome, Exists, fly
    <3>9. Homes'
      BY <2>1, <2>2, <3>2, <3>8, FirstHomes DEF Known
    <3>10. QED
      BY <2>1, <3>2, <3>5, <3>6, <3>7, <3>9, FirstAsked DEF Begun, DataStep, fly
  <2>5. QED
    BY <2>3, <2>4
<1>3. QED
  BY <1>1, <1>2 DEF Begin, ReadResume, ReadWake, ReadUpgrade, ReadRevert, ListExpired,
     ReadSuspend, ReadRenew, ReadRefresh, ListStale, ListOrphaned, Movers, Resizes, Reverts

\* A launch that changes only itself changes nothing for the others.
LEMMA FirstQuiet ==
    ASSUME Homes, NEW r \in Firsts, env' = env, Others(r), doc' = doc, UNCHANGED fly
    PROVE  Homes'
PROOF
<1>1. \A s \in Request \ Firsts : req'[s] = req[s]
  BY DEF Others
<1>2. machs' = machs /\ fresh' = fresh
  BY DEF fly
<1>3. ASSUME "full" \notin env PROVE OneHome'
  BY <1>1, <1>2, <1>3 DEF Homes, OneHome, InFlight, Known, Exists
<1>4. ASSUME "full" \in env PROVE Forks'
  <2>1. Forks
    BY <1>4 DEF Homes
  <2>2. NoResize'
    BY <1>1, <2>1 DEF Forks, NoResize, InFlight
  <2>3. /\ \A s \in Movers : s \in Request \ Firsts /\ req'[s] = req[s]
        /\ req'["refresh"] = req["refresh"]
    BY <1>1, Kinds
  <2>4. Known' => OnHome'
    BY <1>2, <2>1 DEF Forks, OnHome, Up, Known
  <2>5. Moved'
    BY <1>2, <2>1, <2>3 DEF Forks, Moved, Moving, Fork, NoUp, Up, TwoResumes
  <2>6. ASSUME NEW s \in Resumes PROVE Claimable(s)'
    BY <1>2, <2>1, <2>3 DEF Forks, Claimable, Movers, NoUp, Up, TwoResumes, Known
  <2>7. Failure'
    BY <2>1, <2>3 DEF Forks, Failure, Movers, Known, TwoResumes
  <2>8. ASSUME NEW s \in Movers \cap env', Alone' PROVE Lone(s)'
    <3>1. Lone(s)
      BY <2>1, <2>8 DEF Forks, Alone
    <3>2. QED
      BY <1>2, <2>3, <3>1 DEF Lone, Known, InFlight
  <2>9. QED
    BY <2>2, <2>4, <2>5, <2>6, <2>7, <2>8 DEF Forks
<1>5. QED
  BY <1>3, <1>4 DEF Homes

\* A launch works on the document ...
LEMMA LaunchDocument ==
    ASSUME Orderly, TypeOK, Begun, Homes, NEW r \in Firsts, OnDocument(r)
    PROVE  Begun' /\ Homes' /\ DataStep
PROOF
<1> USE Kinds
<1>a. /\ r \in Request /\ doc \in Document /\ machs \in Seq(Machine) /\ r \notin Sweeps
      /\ r \notin Movers /\ r \notin Resizes
  BY DEF TypeOK
<1>b. /\ req[r].pc \in {"idle", "done", "claim", "volume", "persist", "machine",
                        "finish", "failed"}
      /\ InFlight(r) => r \in env \cup Sweeps
  BY FirstPlaces
<1>1. CASE ClaimStatus(r)
  <2>1. /\ req[r].pc = "claim" /\ InFlight(r) /\ OnDoc(r) /\ r \in env
    BY <1>1, <1>a, <1>b DEF ClaimStatus, At, InFlight
  <2>2. r \in {"launch", "launch2"} /\ req[r].doc.status = "draft"
    BY <2>1, <1>a DEF Begun, Launch, Asked, Spot, SpotAt, Movers
  <2>3. env' = env /\ UNCHANGED fly
    BY <2>1 DEF OnDoc
  <2>4. CASE doc.status = req[r].doc.status
    <3>1. Go(r, "volume") /\ doc' = [doc EXCEPT !.status = "provisioning"]
      BY <1>1, <2>2, <2>4 DEF ClaimStatus
    <3>2. /\ doc'.machine = doc.machine /\ doc'.volume = doc.volume
          /\ doc'.upgrade = doc.upgrade /\ doc'.claim = doc.claim
          /\ doc'.status = "provisioning"
      BY <1>a, <3>1 DEF Document
    <3>3. "copilotLaunch" \notin env
      BY <2>1, <2>2 DEF Orderly
    <3>4. req["copilotLaunch"].pc = "idle"
      <4>1. "copilotLaunch" \in Request /\ "copilotLaunch" \notin Sweeps
        OBVIOUS
      <4>2. QED
        BY <3>3, <4>1 DEF Begun, Asked, Spot, SpotAt
    <3>5. ~Known /\ Empty /\ \A s \in Firsts : ~Launching(s)
      BY <2>2, <2>4, <3>4 DEF Begun, Launch, Launching
    <3>6. Begun' /\ Homes'
      BY <1>a, <2>1, <2>2, <2>3, <3>1, <3>2, <3>4, <3>5, GoEffect, LaunchBegins
    <3>7. QED
      BY <2>3, <3>2, <3>6 DEF DataStep, fly
  <2>5. CASE doc.status # req[r].doc.status
    <3>1. End(r) /\ doc' = doc
      BY <1>1, <2>5 DEF ClaimStatus
    <3>2. Others(r) /\ req'[r].pc = "done"
      BY <1>a, <3>1, EndEffect
    <3>3. \A s \in Firsts : s # r => req'[s] = req[s]
      BY <3>2 DEF Others
    <3>4. \A s \in Firsts : Launching(s)' => Launching(s) /\ s # r
      BY <3>2, <3>3 DEF Launching
    <3>5. Launch'
      <4>1. \A s \in Firsts : Launching(s)' =>
              ~Known' /\ Stage(s)' /\ \A t \in Firsts : Launching(t)' => t = s
        <5> SUFFICES ASSUME NEW s \in Firsts, Launching(s)'
                     PROVE  ~Known' /\ Stage(s)' /\ \A t \in Firsts : Launching(t)' => t = s
          OBVIOUS
        <5>1. Launching(s) /\ s # r
          BY <3>4
        <5>2. req'[s] = req[s] /\ Stage(s)
          BY <3>3, <5>1 DEF Begun, Launch
        <5>3. Stage(s)'
          BY <2>3, <3>1, <5>2 DEF Stage, Empty, fly
        <5>4. QED
          BY <3>1, <3>4, <5>1, <5>3 DEF Begun, Launch, Known
      <4>2. \A s \in Firsts : req'[s].pc = "claim" =>
              s # "copilotLaunch" /\ req'[s].doc.status = "draft"
        BY <3>2, <3>3 DEF Begun, Launch
      <4>3. req'["copilotLaunch"] = req["copilotLaunch"]
        BY <2>2, <3>3
      <4>4. Empty' <=> Empty
        BY <2>3, <3>1 DEF Empty, fly
      <4>5. QED
        BY <3>1, <3>4, <4>1, <4>2, <4>3, <4>4 DEF Begun, Launch, Known
    <3>6. Tended'
      BY <3>1, <3>2, FirstTended DEF Known
    <3>7. SpotAt(r, "done")
      BY <2>1 DEF SpotAt, Own
    <3>8. Homes'
      BY <2>3, <3>1, <3>2, FirstQuiet
    <3>9. QED
      BY <2>3, <3>1, <3>2, <3>5, <3>6, <3>7, <3>8, FirstAsked DEF Begun, DataStep, fly
  <2>6. QED
    BY <2>4, <2>5
<1>2. CASE PersistVolume(r)
  <2>1. /\ req[r].pc = "persist" /\ Launching(r) /\ env' = env /\ UNCHANGED fly
        /\ Go(r, "machine") /\ doc' = [doc EXCEPT !.volume = req[r].v] /\ r \in env
    BY <1>2, <1>a, <1>b DEF PersistVolume, At, Launching, OnDoc, InFlight
  <2>2. /\ doc'.machine = doc.machine /\ doc'.volume = req[r].v
        /\ doc'.upgrade = doc.upgrade /\ doc'.claim = doc.claim /\ doc'.status = doc.status
    BY <1>a, <2>1 DEF Document
  <2>3. Others(r) /\ req'[r].pc = "machine" /\ req'[r].v = req[r].v
    BY <1>a, <2>1, GoEffect
  <2>4. machs = <<>> /\ fresh = {} /\ machs' = machs /\ fresh' = fresh
    BY <2>1 DEF Begun, Launch, Stage, fly
  <2>5. Stage(r)' /\ Launching(r)' /\ SpotAt(r, "machine")
    BY <2>1, <2>2, <2>3, <2>4 DEF Stage, Launching, SpotAt, Own
  <2>6. \A m, n \in DOMAIN machs' : Exists(m)' /\ Exists(n)' => m = n
    BY <2>4
  <2>7. Begun' /\ Homes'
    BY <2>1, <2>2, <2>3, <2>5, <2>6, LaunchStays
  <2>8. QED
    BY <2>4, <2>7 DEF DataStep, Data!Next, Data!Move
<1>3. CASE Finish(r)
  <2>1. /\ req[r].pc = "finish" /\ Launching(r) /\ env' = env /\ UNCHANGED fly /\ End(r)
        /\ doc' = [doc EXCEPT !.status = "running", !.machine = req[r].m,
                              !.volume = req[r].v]
    BY <1>3, <1>a, Zenon DEF Finish, At, Launching, OnDoc, Movers
  <2>2. /\ ~Known /\ Len(machs) = 1 /\ machs[1].volume = req[r].v /\ req[r].m = 1
        /\ fresh = {req[r].v} /\ doc.volume \in {0, req[r].v}
    BY <2>1 DEF Begun, Launch, Stage
  <2>3. /\ doc'.machine = 1 /\ doc'.volume = req[r].v
        /\ doc'.upgrade = doc.upgrade /\ doc'.claim = doc.claim /\ doc'.status = "running"
    BY <1>a, <2>1, <2>2 DEF Document
  <2>4. Others(r) /\ req'[r].pc = "done"
    BY <1>a, <2>1, EndEffect
  <2>5. Known'
    BY <2>3 DEF Known
  <2>6. Begun'
    BY <2>1, <2>2, <2>3, <2>4, <2>5, LaunchEnds
  <2>7. Homes'
    BY <2>1, <2>2, <2>3, <2>4, Founded
  <2>8. QED
    BY <2>1, <2>2, <2>3, <2>6, <2>7 DEF DataStep, Data!Next, Data!Move, fly
<1>4. CASE Failed(r)
  <2>1. /\ req[r].pc = "failed" /\ Launching(r) /\ env' = env /\ UNCHANGED fly /\ End(r)
        /\ doc' = [doc EXCEPT !.status = "error"]
    BY <1>4, <1>a DEF Failed, At, Launching, OnDoc, Movers
  <2>2. ~Known
    BY <2>1 DEF Begun, Launch
  <2>3. /\ doc'.machine = doc.machine /\ doc'.volume = doc.volume
        /\ doc'.upgrade = doc.upgrade /\ doc'.claim = doc.claim /\ doc'.status = "error"
    BY <1>a, <2>1 DEF Document
  <2>4. Others(r) /\ req'[r].pc = "done"
    BY <1>a, <2>1, EndEffect
  <2>5. Begun'
    BY <2>1, <2>3, <2>4, LaunchEnds
  <2>6. OneHome => \A m, n \in DOMAIN machs' : Exists(m)' /\ Exists(n)' => m = n
    BY <2>1 DEF OneHome, Exists, fly
  <2>7. Homes'
    BY <2>1, <2>2, <2>3, <2>4, <2>6, FirstHomes DEF Known
  <2>8. QED
    BY <2>1, <2>3, <2>5, <2>7 DEF DataStep, fly
<1>5. QED
  BY <1>1, <1>2, <1>3, <1>4, <1>b DEF OnDocument, Repoint, Look, ReadAgain, Lock, LetGo,
     RecordMachine, Settle, ReadFresh, MarkSuspended, Swap, Remind, WriteStatus, FailStale,
     ClearUpgrade, At

\* ... or on Fly.
LEMMA LaunchFly ==
    ASSUME TypeOK, Begun, Homes, NEW r \in Firsts, AskFly(r)
    PROVE  Begun' /\ Homes' /\ DataStep
PROOF
<1> USE Kinds
<1>a. /\ r \in Request /\ doc \in Document /\ machs \in Seq(Machine) /\ r \notin Sweeps
      /\ r \notin Movers /\ r \notin Resizes /\ req[r].v \in Nat
  BY DEF TypeOK
<1>b. /\ req[r].pc \in {"idle", "done", "claim", "volume", "persist", "machine",
                        "finish", "failed"}
      /\ InFlight(r) => r \in env \cup Sweeps
  BY FirstPlaces
<1>1. CASE CreateVolume(r)
  <2>1. /\ req[r].pc = "volume" /\ Launching(r) /\ env' = env /\ doc' = doc
        /\ machs' = machs /\ fresh' = fresh /\ r \in env
    BY <1>1, <1>a, <1>b DEF CreateVolume, At, Launching, OnFly, InFlight
  <2>2. Empty
    BY <2>1 DEF Begun, Launch, Stage
  <2>3. \/ WithVolume(r, vols', "persist") \/ WithVolume(r, vols', "machine")
        \/ Go(r, "failed")
    BY <1>1 DEF CreateVolume
  <2>4. PICK l \in {"persist", "machine", "failed"} : Others(r) /\ req'[r].pc = l
    <3>1. CASE WithVolume(r, vols', "persist")
      BY <1>a, <3>1, WithVolumeEffect
    <3>2. CASE WithVolume(r, vols', "machine")
      BY <1>a, <3>2, WithVolumeEffect
    <3>3. CASE Go(r, "failed")
      BY <1>a, <3>3, GoEffect
    <3>4. QED
      BY <2>3, <3>1, <3>2, <3>3
  <2>5. Stage(r)' /\ Launching(r)' /\ SpotAt(r, l)
    BY <2>1, <2>2, <2>4 DEF Stage, Launching, SpotAt, Own, Empty
  <2>6. \A m, n \in DOMAIN machs' : Exists(m)' /\ Exists(n)' => m = n
    BY <2>1, <2>2 DEF Empty
  <2>7. Begun' /\ Homes'
    BY <2>1, <2>4, <2>5, <2>6, LaunchStays
  <2>8. QED
    BY <2>1, <2>7 DEF DataStep
<1>2. CASE CreateMachine(r)
  <2>1. /\ req[r].pc = "machine" /\ Launching(r) /\ env' = env /\ doc' = doc /\ r \in env
    BY <1>2, <1>a, <1>b DEF CreateMachine, At, Launching, OnFly, InFlight
  <2>2. machs = <<>> /\ fresh = {} /\ doc.volume \in {0, req[r].v}
    BY <2>1 DEF Begun, Launch, Stage
  <2>3. CASE UNCHANGED <<machs, fresh>>
    <3>1. Go(r, "failed")
      BY <1>2, <2>3, <1>a, <2>2 DEF CreateMachine, Movers
    <3>2. Others(r) /\ req'[r].pc = "failed"
      BY <1>a, <3>1, GoEffect
    <3>3. Stage(r)' /\ Launching(r)' /\ SpotAt(r, "failed")
      BY <2>1, <3>2 DEF Stage, Launching, SpotAt, Own
    <3>4. \A m, n \in DOMAIN machs' : Exists(m)' /\ Exists(n)' => m = n
      BY <2>2, <2>3
    <3>5. Begun' /\ Homes'
      BY <2>1, <3>2, <3>3, <3>4, LaunchStays
    <3>6. QED
      BY <2>1, <2>3, <3>5 DEF DataStep
  <2>4. CASE /\ ~Attached(req[r].v) /\ fresh' = {req[r].v}
             /\ machs' = Append(machs, [state |-> "up", big |-> r = "upgrade",
                                        volume |-> req[r].v])
    <3>1. /\ Len(machs') = 1 /\ machs'[1].volume = req[r].v /\ DOMAIN machs' = {1}
      <4>1. Len(machs) = 0 /\ DOMAIN machs = {}
        BY <2>2
      <4>2. /\ Len(machs') = Len(machs) + 1 /\ machs'[Len(machs')].volume = req[r].v
            /\ DOMAIN machs' = DOMAIN machs \cup {Len(machs) + 1}
        BY <1>a, <2>4, CreateOn
      <4>3. Len(machs') = 1
        BY <4>1, <4>2
      <4>4. QED
        BY <4>1, <4>2, <4>3
    <3>2. PICK l \in {"finish", "failed"} :
             \/ l = "finish" /\ WithMachine(r, Len(machs'), l)
             \/ l = "failed" /\ Go(r, l)
      <4>1. CASE machs' = machs
        BY <2>2, <3>1, <4>1
      <4>2. CASE machs' # machs
        BY <1>2, <1>a, <4>2 DEF CreateMachine
      <4>3. QED
        BY <4>1, <4>2
    <3>3. /\ Others(r) /\ req'[r].pc = l /\ req'[r].v = req[r].v
          /\ l = "finish" => req'[r].m = 1
      BY <1>a, <3>1, <3>2, GoEffect, WithMachineEffect
    <3>4. Stage(r)' /\ Launching(r)' /\ SpotAt(r, l)
      BY <2>1, <2>2, <2>4, <3>1, <3>3 DEF Stage, Launching, SpotAt, Own
    <3>5. \A m, n \in DOMAIN machs' : Exists(m)' /\ Exists(n)' => m = n
      BY <3>1
    <3>6. Begun' /\ Homes'
      BY <2>1, <3>3, <3>4, <3>5, LaunchStays
    <3>7. DataStep
      BY <2>1, <2>2, <2>4 DEF DataStep, Data!Next, Data!First
    <3>8. QED
      BY <3>6, <3>7
  <2>5. QED
    BY <1>2, <2>3, <2>4 DEF CreateMachine
<1>3. QED
  BY <1>1, <1>2, <1>a, <1>b DEF AskFly, UpdateMachine, StartMachine, DeleteMachine,
     ForkVolume, WakeState, WakeExists, StopOld, DeleteOld, Halt, RefreshState, At
-----------------------------------------------------------------------------
(* Servers without room: who resumes or wakes the mission.                   *)

\* While one is on its way, no other can claim.
LEMMA OneMoves ==
    ASSUME TypeOK, Orderly, "full" \in env, Begun, Forks, NEW r \in Movers, Moving(r)
    PROVE  /\ r \in env /\ Known /\ r \in Request \ Firsts
           /\ \A s \in Movers : s # r => ~Moving(s)
           /\ ~Alone => TwoResumes /\ r \in Resumes /\ doc.status = "provisioning"
           /\ \A s \in Resumes : s # r /\ req[s].pc = "claim" =>
                /\ TwoResumes /\ r \in Resumes
                /\ req[s].doc.status \in {"suspended", "error"} \ {"error"}
           /\ \A s \in Resumes : s # r /\ s \in env =>
                TwoResumes /\ r \in Resumes /\ req["refresh"].pc = "idle"
           /\ Alone => Lone(r)
PROOF
<1> USE Kinds
<1>1. /\ r \in Request \ Firsts /\ r \notin Sweeps /\ InFlight(r) /\ "refresh" \in Request
      /\ "refresh" \notin Sweeps
  BY DEF Moving, InFlight
<1>2. r \in env /\ Known
  BY <1>1 DEF Begun, Asked, Spot, SpotAt, Tended, InFlight
<1>3. /\ \A s \in Movers : s # r => ~Moving(s)
      /\ TwoResumes => doc.status = "provisioning"
  BY DEF Forks, Moved
<1>4. Alone \/ TwoResumes
  BY DEF Orderly
<1>5. TwoResumes => r \in Resumes /\ req["refresh"].pc = "idle"
  BY <1>1, <1>2 DEF TwoResumes, Movers, Begun, Asked, Spot, SpotAt
<1>6. ASSUME NEW s \in Resumes, s # r, s \in env
      PROVE  TwoResumes /\ r \in Resumes /\ req["refresh"].pc = "idle"
  BY <1>2, <1>4, <1>5, <1>6 DEF Alone, Movers
<1>7. ASSUME NEW s \in Resumes, s # r, req[s].pc = "claim"
      PROVE  /\ TwoResumes /\ r \in Resumes
             /\ req[s].doc.status \in {"suspended", "error"} \ {"error"}
  <2>1. s \in Request /\ s \notin Sweeps /\ s \in Movers
    BY DEF Movers
  <2>2. s \in env
    BY <1>7, <2>1 DEF Begun, Asked, Spot, SpotAt
  <2>3. TwoResumes /\ r \in Resumes
    BY <1>6, <1>7, <2>2
  <2>4. Claimable(s)
    BY DEF Forks
  <2>5. req[r].pc # "done"
    BY DEF Moving
  <2>6. QED
    BY <1>7, <2>3, <2>4, <2>5 DEF Claimable
<1>8. Alone => Lone(r)
  BY <1>2 DEF Forks
<1>9. QED
  BY <1>1, <1>2, <1>3, <1>4, <1>5, <1>6, <1>7, <1>8

\* What its steps may do.
LEMMA MoveStep ==
    ASSUME TypeOK, Orderly, "full" \in env, Begun, Forks, NEW r \in Movers, Moving(r),
           env' = env, Others(r), doc'.upgrade = doc.upgrade, doc'.claim = doc.claim, OnHome',
           Moving(r)' => /\ Fork(r)' /\ doc'.status = doc.status
                         /\ doc'.machine = doc.machine
                         /\ Len(machs') = Len(machs) \/ req'[r].pc = "finish"
                         /\ req'[r].m = req[r].m \/ req'[r].pc = "finish",
           ~Moving(r)' => /\ req'[r].pc = "done"
                          /\ \/ doc'.status = "running"
                             \/ doc' = doc /\ r \in Wakes
                             \/ doc'.status = "error" /\ NoUp',
           Alone /\ r \in Wakes /\ req'[r].pc \in {"exists", "start"} =>
             machs'[1].volume = doc'.volume,
           req'[r].pc \notin {"idle", "claim", "state"},
           req[r].pc = "finish" => req'[r].pc = "done"
    PROVE  Forks'
PROOF
<1> USE Kinds, OneMoves
<1>1. /\ r \in env /\ Known /\ r \in Request \ Firsts /\ "refresh" \in Request /\ r # "refresh"
      /\ Movers \subseteq Request /\ (Alone => Lone(r))
  OBVIOUS
<1>2. /\ \A s \in Request : s # r => req'[s] = req[s]
      /\ (TwoResumes' <=> TwoResumes) /\ (Alone' <=> Alone)
  BY DEF Others, TwoResumes, Alone
<1>3. NoResize'
  BY <1>1, <1>2 DEF Forks, NoResize, InFlight
<1>4. Moved'
  <2>1. \A s \in Movers : s # r => ~Moving(s)'
    BY <1>1, <1>2 DEF Moving
  <2>2. Moving(r)' /\ TwoResumes => doc'.status = "provisioning"
    BY DEF Forks, Moved
  <2>3. QED
    BY <1>2, <2>1, <2>2 DEF Moved
<1>5. ASSUME NEW s \in Resumes PROVE Claimable(s)'
  <2>1. CASE s = r
    BY <2>1 DEF Claimable
  <2>2. CASE s # r
    <3>1. req'[s] = req[s] /\ s \in Movers /\ s \in Request
      BY <1>1, <1>2, <2>2 DEF Movers
    <3>2. r \in Resumes /\ TwoResumes =>
            \/ doc'.status = "provisioning" \/ doc'.status = "running"
            \/ doc'.status = "error" /\ NoUp' /\ req'[r].pc = "done"
      BY DEF Forks, Moved
    <3>3. req'[s].pc = "claim" =>
            /\ req'[s].doc.status \in {"suspended", "error"}
            /\ "refresh" \notin env /\ doc'.status # req'[s].doc.status
            /\ req'[s].doc.status # "error"
      BY <2>2, <3>1, <3>2 DEF TwoResumes
    <3>4. s \in env => req'["refresh"].pc = "idle" /\ TwoResumes /\ r \in Resumes
      BY <1>1, <1>2, <2>2
    <3>5. s \in env =>
            \/ doc'.status = "provisioning" \/ doc'.status = "running" \/ NoUp'
      BY <3>2, <3>4
    <3>6. QED
      BY <3>3, <3>4, <3>5 DEF Claimable
  <2>3. QED
    BY <2>1, <2>2
<1>6. Failure'
  <2>1. TwoResumes => r \in Resumes /\ doc.status = "provisioning"
    BY <1>1 DEF TwoResumes, Movers, Forks, Moved
  <2>2. TwoResumes /\ doc'.status = "error" => req'[r].pc = "done"
    BY <2>1
  <2>3. QED
    BY <1>2, <2>1, <2>2 DEF Failure
<1>7. ASSUME NEW s \in Movers \cap env', Alone' PROVE Lone(s)'
  <2>1. s = r
    BY <1>1, <1>2, <1>7 DEF Alone
  <2>2. Lone(r) /\ req[r].pc # "done"
    <3>1. Alone
      BY <1>2, <1>7
    <3>2. Lone(r)
      BY <1>1, <3>1
    <3>3. QED
      BY <3>2 DEF Moving
  <2>3. req'["refresh"] = req["refresh"]
    BY <1>1, <1>2
  <2>4. QED
    BY <1>1, <2>1, <2>2, <2>3 DEF Lone, Moving, InFlight
<1>8. QED
  BY <1>3, <1>4, <1>5, <1>6, <1>7 DEF Forks

\* One that is not on its way yet changes only its own label and the status.
LEMMA StartStep ==
    ASSUME TypeOK, Orderly, "full" \in env, Begun, Forks, NEW r \in Movers, ~Moving(r),
           r \in env, env' = env, Others(r), UNCHANGED fly, Known,
           doc'.upgrade = doc.upgrade, doc'.claim = doc.claim, doc'.volume = doc.volume,
           doc'.machine = doc.machine,
           Moving(r)' => Fork(r)' /\ \A s \in Movers : ~Moving(s),
           ~Moving(r)' => doc'.status = doc.status,
           TwoResumes /\ Moving(r)' => doc'.status = "provisioning",
           req[r].pc # "done" /\ req'[r].pc # "finish",
           InFlight(r)' /\ (Alone => Lone(r)) => (Alone => req'[r].m = 1),
           r \in Wakes /\ req'[r].pc \in {"idle", "state", "exists", "start"} =>
             req[r].pc = "idle",
           \A s \in Resumes : Claimable(s)'
    PROVE  Forks'
PROOF
<1> USE Kinds
<1>1. /\ r \in Request \ Firsts /\ "refresh" \in Request /\ r # "refresh"
      /\ Movers \subseteq Request
  OBVIOUS
<1>2. /\ \A s \in Request : s # r => req'[s] = req[s]
      /\ (TwoResumes' <=> TwoResumes) /\ (Alone' <=> Alone)
      /\ machs' = machs /\ fresh' = fresh
  BY DEF Others, TwoResumes, Alone, fly
<1>3. NoResize'
  BY <1>1, <1>2 DEF Forks, NoResize, InFlight
<1>4. OnHome'
  BY <1>2 DEF Forks, OnHome, Up
<1>5. Moved'
  <2>1. ASSUME NEW s \in Movers, s # r, Moving(s)'
        PROVE  /\ Moving(s) /\ Fork(s)' /\ ~Moving(r)'
               /\ \A t \in Movers : Moving(t)' => t = s
    <3>1. req'[s] = req[s] /\ Moving(s)
      BY <1>1, <1>2, <2>1 DEF Moving
    <3>2. Fork(s) /\ \A t \in Movers : Moving(t) => t = s
      BY <3>1 DEF Forks, Moved
    <3>3. Fork(s)'
      BY <1>2, <3>1, <3>2 DEF Fork, NoUp, Up
    <3>4. ~Moving(r)'
      BY <3>1
    <3>5. \A t \in Movers : t # r => (Moving(t)' => Moving(t))
      BY <1>1, <1>2 DEF Moving
    <3>6. QED
      BY <3>1, <3>2, <3>3, <3>4, <3>5
  <2>2. ASSUME NEW s \in Movers, Moving(s)', TwoResumes PROVE doc'.status = "provisioning"
    BY <2>1, <2>2 DEF Forks, Moved
  <2>3. ASSUME NEW s \in Movers, Moving(s)'
        PROVE  Fork(s)' /\ \A t \in Movers : Moving(t)' => t = s
    BY <2>1, <2>3
  <2>4. QED
    BY <1>2, <2>2, <2>3 DEF Moved
<1>6. Failure'
  <2>1. TwoResumes /\ doc'.status = "error" => doc.status = "error"
    OBVIOUS
  <2>2. \A s \in Resumes : s # r => req'[s] = req[s]
    BY <1>1, <1>2 DEF Movers
  <2>3. QED
    BY <1>2, <2>1, <2>2 DEF Failure, Forks
<1>7. ASSUME NEW s \in Movers \cap env', Alone' PROVE Lone(s)'
  <2>1. Alone /\ s = r /\ Lone(r)
    BY <1>1, <1>2, <1>7 DEF Alone, Forks
  <2>2. req'["refresh"] = req["refresh"] /\ req[r].pc # "finish"
    BY <1>1, <1>2 DEF Moving
  <2>3. QED
    BY <1>2, <2>1, <2>2 DEF Lone, InFlight, Known
<1>8. QED
  BY <1>3, <1>4, <1>5, <1>6, <1>7 DEF Forks

\* Who can claim besides it stays able to, or comes to nothing.
LEMMA ClaimableKept ==
    ASSUME Begun, Forks, NEW r \in Movers, NEW s \in Resumes, s # r, env' = env, Others(r),
           UNCHANGED fly, doc'.volume = doc.volume, doc'.machine = doc.machine,
           \/ doc'.status = doc.status
           \/ /\ doc'.status = "provisioning"
              /\ req[s].pc = "claim" => "refresh" \notin env
              /\ s \in env => req["refresh"].pc # "sawDown",
           req[r].pc = "done" => req'[r].pc = "done",
           TwoResumes /\ req[s].pc = "claim" /\ req[s].doc.status = "error" =>
             req[r].pc = "done"
    PROVE  Claimable(s)'
PROOF
<1> USE Kinds
<1>1. /\ s \in Request /\ "refresh" \in Request /\ r # "refresh"
      /\ \A t \in Resumes : t \in Request
  BY DEF Movers
<1>2. /\ \A t \in Request : t # r => req'[t] = req[t]
      /\ (TwoResumes' <=> TwoResumes)
      /\ machs' = machs /\ fresh' = fresh
  BY DEF Others, TwoResumes, fly
<1>3. req'[s] = req[s] /\ req'["refresh"] = req["refresh"]
  BY <1>1, <1>2
<1>4. Claimable(s)
  BY DEF Forks
<1>5. ASSUME req'[s].pc = "claim"
      PROVE  /\ req'[s].doc.status \in {"suspended", "error"}
             /\ "refresh" \in env' \/ doc'.status = req'[s].doc.status =>
                  req'[s].v = doc'.volume /\ req'[s].doc.volume = doc'.volume
  BY <1>3, <1>4, <1>5 DEF Claimable
<1>6. ASSUME req'[s].pc = "claim", TwoResumes', req'[s].doc.status = "error"
      PROVE  \A t \in Resumes \ {s} : req'[t].pc = "done"
  <2>1. \A t \in Resumes \ {s} : req[t].pc = "done"
    BY <1>2, <1>3, <1>4, <1>6 DEF Claimable
  <2>2. QED
    BY <1>1, <1>2, <2>1
<1>7. ASSUME req'[s].pc \in {"idle", "claim"}, Known', s \in env',
             doc'.status \in {"suspended", "error"} \/ req'["refresh"].pc = "sawDown"
      PROVE  NoUp'
  <2>1. NoUp
    BY <1>3, <1>4, <1>7 DEF Claimable, Known
  <2>2. QED
    BY <1>2, <2>1 DEF NoUp, Up
<1>8. QED
  BY <1>5, <1>6, <1>7 DEF Claimable

\* A resume or a wake is received.
LEMMA ForkBegin ==
    ASSUME TypeOK, Orderly, "full" \in env, Begun, Forks, NEW r \in Movers, Begin(r)
    PROVE  Forks' /\ DataStep
PROOF
<1> USE Kinds
<1>a. /\ r \in Request \ Firsts /\ doc \in Document /\ r \notin Sweeps
      /\ \A s \in Resumes : s \in Movers /\ s \in Request
  BY DEF TypeOK, Movers
<1>b. (Known => OnHome) /\ NoResize
  BY DEF Forks
<1>1. CASE ReadResume(r)
  <2>1. /\ r \in Resumes /\ r \in env /\ Known /\ Read(r, "claim") /\ doc' = doc
        /\ env' = env /\ UNCHANGED fly /\ req[r].pc = "idle"
        /\ doc.status \notin {"running", "provisioning"}
    BY <1>1, <1>a DEF ReadResume, Receives, At, OnDoc, Known
  <2>2. /\ Others(r) /\ req'[r].pc = "claim" /\ req'[r].doc = doc
        /\ req'[r].m = doc.machine /\ req'[r].v = doc.volume
    BY <1>a, <2>1, ReadEffect
  <2>3. doc.status \in {"suspended", "error"}
    BY <1>a, <2>1, KnownFacts DEF Document, Status
  <2>4. Claimable(r)'
    <3>1. Claimable(r)
      BY <2>1 DEF Forks
    <3>2. TwoResumes' => TwoResumes
      BY <2>1 DEF TwoResumes
    <3>3. ASSUME TwoResumes', doc.status = "error"
          PROVE  \A s \in Resumes \ {r} : req'[s].pc = "done"
      <4>1. PICK s \in Resumes : req[s].pc = "done"
        BY <2>1, <3>2, <3>3 DEF Forks, Failure
      <4>2. Resumes = {r, s} /\ s # r
        BY <2>1, <4>1 DEF Resumes
      <4>3. QED
        BY <1>a, <2>2, <4>1, <4>2 DEF Others
    <3>4. NoUp => NoUp'
      BY <2>1 DEF NoUp, Up, fly
    <3>5. req'["refresh"] = req["refresh"]
      BY <2>2 DEF Others
    <3>6. NoUp'
      BY <2>1, <2>3, <3>1, <3>4 DEF Claimable
    <3>7. QED
      BY <2>1, <2>2, <2>3, <3>3, <3>6 DEF Claimable
  <2>5. ASSUME NEW s \in Resumes PROVE Claimable(s)'
    <3>1. ASSUME s # r, TwoResumes, req[s].pc = "claim", req[s].doc.status = "error"
          PROVE  req[r].pc = "done"
      BY <2>1, <3>1 DEF Forks, Claimable
    <3>2. CASE s # r
      BY <2>1, <2>2, <3>1, <3>2, ClaimableKept
    <3>3. QED
      BY <2>4, <3>2
  <2>6. ~Moving(r) /\ ~Moving(r)'
    BY <2>1, <2>2 DEF Moving
  <2>7. Alone /\ Lone(r) => doc.machine = 1
    BY <2>1 DEF Lone
  <2>8. Forks'
    BY <2>1, <2>2, <2>5, <2>6, <2>7, StartStep
  <2>9. QED
    BY <2>1, <2>8 DEF DataStep, fly
<1>2. CASE ReadWake(r)
  <2>1. PICK l \in {"state", "exists"} :
          /\ r \in Wakes /\ r \in env /\ Known /\ Read(r, l) /\ doc' = doc
          /\ env' = env /\ UNCHANGED fly /\ req[r].pc = "idle"
    BY <1>2, <1>a DEF ReadWake, Receives, At, OnDoc, Known
  <2>2. /\ Others(r) /\ req'[r].pc = l /\ req'[r].doc = doc
        /\ req'[r].m = doc.machine /\ req'[r].v = doc.volume
    BY <1>a, <2>1, ReadEffect
  <2>3. ~TwoResumes /\ Alone
    BY <2>1 DEF TwoResumes, Orderly
  <2>4. ASSUME NEW s \in Resumes PROVE Claimable(s)'
    <3>1. s # r
      BY <2>1
    <3>2. QED
      BY <2>1, <2>2, <2>3, <3>1, ClaimableKept
  <2>5. ~Moving(r) /\ Moving(r)'
    BY <2>1, <2>2 DEF Moving
  <2>6. \A s \in Movers : ~Moving(s)
    <3> SUFFICES ASSUME NEW s \in Movers, Moving(s) PROVE FALSE
      OBVIOUS
    <3>1. s \in env
      BY OneMoves
    <3>2. s = r
      BY <2>1, <2>3, <3>1 DEF Alone
    <3>3. QED
      BY <2>5, <3>2
  <2>7. Fork(r)'
    BY <2>1, <2>2 DEF Fork, Early
  <2>8. Alone /\ Lone(r) => doc.machine = 1
    BY <2>1 DEF Lone
  <2>9. Forks'
    BY <2>1, <2>2, <2>3, <2>4, <2>5, <2>6, <2>7, <2>8, StartStep
  <2>10. QED
    BY <2>1, <2>9 DEF DataStep, fly
<1>3. QED
  BY <1>1, <1>2 DEF Begin, Insert, ReadDraft, ReadUpgrade, ReadRevert, ListExpired,
     ReadSuspend, ReadRenew, ReadRefresh, ListStale, ListOrphaned, Movers, Firsts, Resizes,
     Reverts

\* Where a resume or a wake can be.
LEMMA MoverPlaces ==
    ASSUME TypeOK, Begun, NEW r \in Movers
    PROVE  /\ r \in Request
           /\ req[r].pc \in {"idle", "done", "claim", "update", "start", "delete", "exists",
                             "state", "fork", "repoint", "machine", "finish", "failed"}
           /\ req[r].pc = "claim" => r \in Resumes
           /\ req[r].pc \in {"update", "delete"} => r \in Resumes
           /\ req[r].pc \in {"exists", "state"} => r \in Wakes
           /\ InFlight(r) => r \in env /\ Known /\ req[r].m # 0
PROOF
<1> USE Kinds
<1>1. r \in Request /\ r \notin Firsts /\ r \notin Sweeps /\ r # "refresh" /\ r # "renew"
      /\ r \notin Resizes /\ r # "stale" /\ r # "orphan"
  OBVIOUS
<1>2. req[r].pc \in Label /\ Spot(r)
  BY <1>1 DEF TypeOK, Begun, Asked
<1>3. InFlight(r) => Known /\ req[r].m # 0
  BY <1>1 DEF Begun, Tended
<1>4. QED
  BY <1>1, <1>2, <1>3 DEF Label, Spot, SpotAt, Own, InFlight

\* A resume or a wake works on the document ...
LEMMA ForkDocument ==
    ASSUME TypeOK, Orderly, "full" \in env, Begun, Forks, NEW r \in Movers, OnDocument(r)
    PROVE  Forks' /\ DataStep
PROOF
<1> USE Kinds
<1>a. /\ r \in Request \ Firsts /\ doc \in Document /\ r \notin Sweeps /\ r \notin Resizes
      /\ \A s \in Resumes : s \in Movers /\ s \in Request
  BY DEF TypeOK, Movers
<1>b. InFlight(r) => r \in env /\ Known
  BY MoverPlaces
<1>c. Known => OnHome
  BY DEF Forks
<1>d. Moving(r) => /\ Fork(r) /\ \A s \in Movers : Moving(s) => s = r
                   /\ TwoResumes => doc.status = "provisioning"
  BY DEF Forks, Moved
<1>1. CASE ClaimStatus(r)
  <2>1. /\ req[r].pc = "claim" /\ r \in Resumes /\ r \in env /\ Known /\ env' = env
        /\ UNCHANGED fly /\ ~Moving(r) /\ r \notin Launches
    BY <1>1, <1>a, <1>b, MoverPlaces DEF ClaimStatus, At, InFlight, OnDoc, Moving, Firsts
  <2>2. Claimable(r)
    BY <2>1 DEF Forks
  <2>3. CASE doc.status = req[r].doc.status
    <3>1. Go(r, "update") /\ doc' = [doc EXCEPT !.status = "provisioning"]
      BY <1>1, <2>1, <2>3 DEF ClaimStatus
    <3>2. /\ doc'.machine = doc.machine /\ doc'.volume = doc.volume
          /\ doc'.upgrade = doc.upgrade /\ doc'.claim = doc.claim
          /\ doc'.status = "provisioning"
      BY <1>a, <3>1 DEF Document
    <3>3. /\ Others(r) /\ req'[r].pc = "update" /\ req'[r].doc = req[r].doc
          /\ req'[r].m = req[r].m /\ req'[r].v = req[r].v
      BY <1>a, <3>1, GoEffect
    <3>4. /\ req[r].v = doc.volume /\ req[r].doc.volume = doc.volume /\ NoUp
          /\ doc.status \in {"suspended", "error"}
      BY <2>1, <2>2, <2>3 DEF Claimable
    <3>5. NoUp'
      BY <2>1, <3>4 DEF NoUp, Up, fly
    <3>6. Fork(r)' /\ Moving(r)'
      BY <3>2, <3>3, <3>4, <3>5 DEF Fork, Moving, Early
    <3>7. \A s \in Movers : ~Moving(s)
      <4> SUFFICES ASSUME NEW s \in Movers, Moving(s) PROVE FALSE
        OBVIOUS
      <4>1. s # r /\ s \in env
        BY <2>1, OneMoves
      <4>2. ~Alone
        BY <2>1, <4>1 DEF Alone
      <4>3. doc.status = "provisioning"
        BY <4>2, OneMoves
      <4>4. QED
        BY <3>4, <4>3
    <3>8. ASSUME NEW s \in Resumes PROVE Claimable(s)'
      <4>1. CASE s = r
        BY <3>3, <4>1 DEF Claimable
      <4>2. CASE s # r
        <5>1. InFlight(s) => s \in env
          BY <1>a, MoverPlaces
        <5>2. s \in env => TwoResumes
          BY <1>a, <2>1, <4>2 DEF Alone, Orderly
        <5>3. TwoResumes => "refresh" \notin env /\ req["refresh"].pc # "sawDown"
          BY DEF TwoResumes, Begun, Asked, Spot, SpotAt
        <5>4. ~(TwoResumes /\ req[s].pc = "claim" /\ req[s].doc.status = "error")
          BY <2>1, <4>2 DEF Forks, Claimable
        <5>5. req[s].pc = "claim" => "refresh" \notin env
          BY <5>1, <5>2, <5>3 DEF InFlight
        <5>6. s \in env => req["refresh"].pc # "sawDown"
          BY <5>2, <5>3
        <5>7. QED
          BY <2>1, <3>2, <3>3, <4>2, <5>4, <5>5, <5>6, ClaimableKept
      <4>3. QED
        BY <4>1, <4>2
    <3>9. Alone /\ Lone(r) => req[r].m = 1
      BY <2>1 DEF Lone, InFlight
    <3>10. r \notin Wakes
      BY <2>1
    <3>11. Forks'
      BY <2>1, <3>2, <3>3, <3>6, <3>7, <3>8, <3>9, <3>10, StartStep
    <3>12. QED
      BY <2>1, <3>2, <3>11 DEF DataStep, fly
  <2>4. CASE doc.status # req[r].doc.status
    <3>1. End(r) /\ doc' = doc
      BY <1>1, <2>4 DEF ClaimStatus
    <3>2. Others(r) /\ req'[r].pc = "done"
      BY <1>a, <3>1, EndEffect
    <3>3. ~Moving(r)' /\ ~InFlight(r)'
      BY <3>2 DEF Moving, InFlight
    <3>4. ASSUME NEW s \in Resumes PROVE Claimable(s)'
      <4>1. CASE s = r
        BY <3>2, <4>1 DEF Claimable
      <4>2. CASE s # r
        <5>1. ~(TwoResumes /\ req[s].pc = "claim" /\ req[s].doc.status = "error")
          BY <2>1, <4>2 DEF Forks, Claimable
        <5>2. QED
          BY <2>1, <3>1, <3>2, <4>2, <5>1, ClaimableKept
      <4>3. QED
        BY <4>1, <4>2
    <3>5. Forks'
      BY <2>1, <3>1, <3>2, <3>3, <3>4, StartStep
    <3>6. QED
      BY <2>1, <3>1, <3>5 DEF DataStep, fly
  <2>5. QED
    BY <2>3, <2>4
<1>2. CASE Repoint(r)
  <2>1. /\ req[r].pc = "repoint" /\ Moving(r) /\ env' = env /\ UNCHANGED fly /\ Known
    BY <1>2, <1>b DEF Repoint, At, OnDoc, Moving, InFlight
  <2>2. req[r].v \in fresh /\ req[r].doc.volume = doc.volume /\ NoUp
    BY <1>d, <2>1 DEF Fork
  <2>3. Go(r, "machine") /\ doc' = [doc EXCEPT !.volume = req[r].v]
    BY <1>2, <2>2 DEF Repoint
  <2>4. /\ doc'.machine = doc.machine /\ doc'.volume = req[r].v
        /\ doc'.upgrade = doc.upgrade /\ doc'.claim = doc.claim /\ doc'.status = doc.status
    BY <1>a, <2>3 DEF Document
  <2>5. Others(r) /\ req'[r].pc = "machine" /\ req'[r].m = req[r].m /\ req'[r].v = req[r].v
    BY <1>a, <2>3, GoEffect
  <2>6. NoUp' /\ OnHome'
    BY <2>1, <2>2, <2>4 DEF NoUp, Up, OnHome, fly
  <2>7. Fork(r)' /\ Moving(r)' /\ Len(machs') = Len(machs)
    BY <2>1, <2>4, <2>5, <2>6 DEF Fork, Moving, Early, fly
  <2>8. Forks'
    BY <2>1, <2>4, <2>5, <2>6, <2>7, MoveStep
  <2>9. QED
    BY <2>1, <2>2, <2>4, <2>8 DEF DataStep, Data!Next, Data!Move, fly
<1>3. CASE Finish(r)
  <2>1. /\ req[r].pc = "finish" /\ Moving(r) /\ env' = env /\ UNCHANGED fly /\ Known /\ End(r)
    BY <1>3, <1>b DEF Finish, At, OnDoc, Moving, InFlight
  <2>2. /\ doc'.volume = doc.volume /\ doc'.status = "running"
        /\ doc'.upgrade = doc.upgrade /\ doc'.claim = doc.claim
    BY <1>3, <1>a DEF Finish, Document, Firsts
  <2>3. Others(r) /\ req'[r].pc = "done"
    BY <1>a, <2>1, EndEffect
  <2>4. OnHome'
    BY <1>c, <2>1, <2>2 DEF OnHome, Up, fly
  <2>5. ~Moving(r)'
    BY <2>3 DEF Moving
  <2>6. Forks'
    BY <2>1, <2>2, <2>3, <2>4, <2>5, MoveStep
  <2>7. QED
    BY <2>1, <2>2, <2>6 DEF DataStep, fly
<1>4. CASE Failed(r)
  <2>1. /\ req[r].pc = "failed" /\ Moving(r) /\ env' = env /\ UNCHANGED fly /\ Known /\ End(r)
    BY <1>4, <1>b DEF Failed, At, OnDoc, Moving, InFlight
  <2>2. /\ doc'.volume = doc.volume
        /\ doc'.upgrade = doc.upgrade /\ doc'.claim = doc.claim
        /\ IF r \in Wakes THEN doc' = doc ELSE doc'.status = "error"
    BY <1>4, <1>a DEF Failed, Document
  <2>3. Others(r) /\ req'[r].pc = "done"
    BY <1>a, <2>1, EndEffect
  <2>4. OnHome'
    BY <1>c, <2>1, <2>2 DEF OnHome, Up, fly
  <2>5. ~Moving(r)'
    BY <2>3 DEF Moving
  <2>6. r \in Resumes => NoUp'
    <3>1. r \in Resumes => NoUp
      BY <1>d, <2>1 DEF Fork
    <3>2. QED
      BY <2>1, <3>1 DEF NoUp, Up, fly
  <2>7. r \in Resumes \/ r \in Wakes
    BY DEF Movers
  <2>8. Forks'
    BY <2>1, <2>2, <2>3, <2>4, <2>5, <2>6, <2>7, MoveStep
  <2>9. QED
    BY <2>1, <2>2, <2>8 DEF DataStep, fly
<1>5. QED
  BY <1>1, <1>2, <1>3, <1>4, MoverPlaces DEF OnDocument, PersistVolume, Look, ReadAgain, Lock,
     LetGo, RecordMachine, Settle, ReadFresh, MarkSuspended, Swap, Remind, WriteStatus,
     FailStale, ClearUpgrade, At

\* ... or on Fly.
LEMMA ForkFly ==
    ASSUME TypeOK, Orderly, "full" \in env, Begun, Forks, NEW r \in Movers, AskFly(r)
    PROVE  Forks' /\ DataStep
PROOF
<1> USE Kinds
<1>a. /\ r \in Request \ Firsts /\ doc \in Document /\ r \notin Sweeps /\ r \notin Resizes
      /\ machs \in Seq(Machine) /\ req[r].v \in Nat /\ r # "refresh" /\ "lost" \notin env
      /\ r \in Resumes \cup Wakes
  BY DEF TypeOK, Movers, Orderly
<1>b. /\ Moving(r) /\ env' = env /\ doc' = doc
      /\ req[r].pc \in {"machine", "update", "start", "delete", "fork", "state", "exists"}
      /\ req[r].pc \in {"update", "delete"} => r \in Resumes
      /\ req[r].pc \in {"exists", "state"} => r \in Wakes
  BY MoverPlaces DEF AskFly, CreateVolume, CreateMachine, UpdateMachine, StartMachine,
     DeleteMachine, ForkVolume, WakeState, WakeExists, StopOld, DeleteOld, Halt, RefreshState,
     At, OnFly, Moving
<1>c. /\ Known /\ OnHome /\ Fork(r) /\ req[r].pc # "finish" /\ (Alone => Lone(r))
      /\ doc'.upgrade = doc.upgrade /\ doc'.claim = doc.claim
      /\ doc'.machine = doc.machine /\ doc'.status = doc.status
  BY <1>b, OneMoves DEF Forks, Moved
<1>d. Alone => Len(machs) = 1 /\ req[r].m = 1
  BY <1>b, <1>c DEF Lone, Moving, InFlight
<1>e. \A m \in DOMAIN machs : Up(m) => machs[m].volume = doc.volume
  BY <1>c DEF OnHome
<1>1. CASE CreateMachine(r)
  <2>1. req[r].pc = "machine" /\ req[r].v = doc.volume /\ NoUp
    BY <1>1, <1>c DEF CreateMachine, At, Fork
  <2>2. CASE UNCHANGED <<machs, fresh>>
    <3>1. PICK l \in {"failed", "fork"} :
             Go(r, l) /\ (l = "fork" => req[r].v = req[r].doc.volume)
      BY <1>1, <2>2, <1>a DEF CreateMachine
    <3>2. /\ Others(r) /\ req'[r].pc = l /\ req'[r].m = req[r].m /\ req'[r].v = req[r].v
          /\ req'[r].doc = req[r].doc
      BY <1>a, <3>1, GoEffect
    <3>3. NoUp' /\ OnHome'
      BY <1>b, <1>c, <2>1, <2>2 DEF NoUp, Up, OnHome
    <3>4. Moving(r)' /\ Fork(r)'
      BY <1>b, <2>1, <3>1, <3>2, <3>3 DEF Moving, Fork, Early
    <3>5. Forks'
      BY <1>b, <1>c, <2>2, <3>2, <3>3, <3>4, MoveStep
    <3>6. QED
      BY <1>b, <2>2, <3>5 DEF DataStep
  <2>3. CASE /\ ~Attached(req[r].v) /\ fresh' = {req[r].v}
             /\ machs' = Append(machs, [state |-> "up", big |-> r = "upgrade",
                                        volume |-> req[r].v])
    <3>1. /\ DOMAIN machs' = DOMAIN machs \cup {Len(machs) + 1}
          /\ Len(machs') = Len(machs) + 1
          /\ \A m \in DOMAIN machs : machs'[m] = machs[m]
          /\ machs'[Len(machs')].volume = req[r].v
      BY <1>a, <2>3, CreateOn
    <3>2. WithMachine(r, Len(machs'), "finish")
      <4>1. Len(machs) \in Nat /\ Len(machs') # Len(machs)
        BY <1>a, <3>1
      <4>2. machs' # machs
        BY <4>1
      <4>3. QED
        BY <1>1, <1>a, <4>2 DEF CreateMachine, NoAnswer
    <3>3. Others(r) /\ req'[r].pc = "finish"
      BY <1>a, <3>2, WithMachineEffect
    <3>4. OnHome'
      BY <1>b, <1>e, <2>1, <2>3, <3>1 DEF OnHome, Up
    <3>5. Moving(r)' /\ Fork(r)'
      BY <3>3 DEF Moving, Fork, Early
    <3>6. Forks'
      BY <1>b, <1>c, <3>3, <3>4, <3>5, MoveStep
    <3>7. DataStep
      BY <1>b, <1>c, <2>1, <2>3 DEF DataStep, Data!Next, Data!Work, OnHome
    <3>8. QED
      BY <3>6, <3>7
  <2>4. QED
    BY <1>1, <2>2, <2>3 DEF CreateMachine
<1>2. CASE UpdateMachine(r)
  <2>1. req[r].pc = "update" /\ r \in Resumes /\ fresh' = fresh
    BY <1>2, <1>b DEF UpdateMachine, At
  <2>2. req[r].v = doc.volume /\ req[r].doc.volume = doc.volume /\ NoUp
    BY <1>c, <2>1 DEF Fork, Early
  <2>3. PICK l \in {"start", "delete", "machine"} :
          /\ Go(r, l)
          /\ \/ l # "start" /\ machs' = machs
             \/ /\ Exists(req[r].m)
                /\ machs' = [machs EXCEPT ![req[r].m] = [state |-> "down", big |-> FALSE,
                                                        volume |-> req[r].v]]
    BY <1>2, <1>a DEF UpdateMachine, NoAnswer
  <2>4. /\ Others(r) /\ req'[r].pc = l /\ req'[r].m = req[r].m /\ req'[r].v = req[r].v
        /\ req'[r].doc = req[r].doc
    BY <1>a, <2>3, GoEffect
  <2>5. /\ DOMAIN machs' = DOMAIN machs /\ Len(machs') = Len(machs) /\ NoUp'
        /\ l = "start" => machs'[req[r].m].volume = doc.volume
    <3>1. CASE machs' = machs /\ l # "start"
      BY <2>2, <3>1 DEF NoUp, Up
    <3>2. CASE /\ Exists(req[r].m)
               /\ machs' = [machs EXCEPT ![req[r].m] = [state |-> "down", big |-> FALSE,
                                                       volume |-> req[r].v]]
      <4>1. /\ req[r].m \in DOMAIN machs /\ DOMAIN machs' = DOMAIN machs
            /\ Len(machs') = Len(machs)
            /\ machs'[req[r].m] = [state |-> "down", big |-> FALSE, volume |-> req[r].v]
            /\ \A n \in DOMAIN machs : n # req[r].m => machs'[n] = machs[n]
        BY <1>a, <3>2 DEF Exists
      <4>2. QED
        BY <2>2, <4>1 DEF NoUp, Up
    <3>3. QED
      BY <2>3, <3>1, <3>2
  <2>6. OnHome'
    BY <1>b, <1>c, <2>1, <2>5 DEF OnHome, NoUp
  <2>7. Moving(r)' /\ Fork(r)'
    BY <1>b, <2>2, <2>4, <2>5 DEF Moving, Fork, Early
  <2>8. r \notin Wakes
    BY <2>1
  <2>9. Forks'
    BY <1>b, <1>c, <2>4, <2>5, <2>6, <2>7, <2>8, MoveStep
  <2>10. QED
    BY <1>b, <2>1, <2>9 DEF DataStep
<1>3. CASE StartMachine(r)
  <2>1. req[r].pc = "start" /\ req[r].v = doc.volume /\ req[r].doc.volume = doc.volume
    BY <1>3, <1>c DEF StartMachine, At, Fork, Early
  <2>2. PICK l \in {"delete", "failed"} : l = IF r \in Resumes THEN "delete" ELSE "failed"
    OBVIOUS
  <2>a. \/ Exists(req[r].m) /\ Turn(req[r].m, "up") /\ Go(r, "finish")
        \/ Go(r, l) /\ UNCHANGED fly
    BY <1>3, <1>a, <2>2 DEF StartMachine, Ask, NoAnswer
  <2>3. CASE Exists(req[r].m) /\ Turn(req[r].m, "up") /\ Go(r, "finish")
    <3>1. /\ req[r].m \in DOMAIN machs /\ machs[req[r].m].volume = doc.volume
          /\ machs \in Seq(Machine) /\ DOMAIN machs' = DOMAIN machs
          /\ \A n \in DOMAIN machs : /\ machs'[n].volume = machs[n].volume
                                     /\ n # req[r].m => machs'[n] = machs[n]
          /\ fresh' = {doc.volume}
      <4>1. req[r].m \in DOMAIN machs
        BY <2>3 DEF Exists
      <4>2. machs[req[r].m].volume = doc.volume
        BY <1>c, <2>1, <4>1 DEF Fork
      <4>3. PICK s \in {"up", "down", "gone"} : s = "up" /\ Turn(req[r].m, s)
        BY <2>3
      <4>4. /\ DOMAIN machs' = DOMAIN machs
            /\ \A n \in DOMAIN machs : /\ machs'[n].volume = machs[n].volume
                                       /\ n # req[r].m => machs'[n] = machs[n]
            /\ fresh' = {machs[req[r].m].volume}
        BY <2>3, <4>3, TurnEffect
      <4>5. QED
        BY <1>a, <4>1, <4>2, <4>4
    <3>2. OnHome'
      BY <1>b, <1>e, <3>1 DEF OnHome, Up
    <3>3. Others(r) /\ req'[r].pc = "finish"
      BY <1>a, <2>3, GoEffect
    <3>4. Moving(r)' /\ Fork(r)'
      BY <3>3 DEF Moving, Fork, Early
    <3>5. Forks'
      BY <1>b, <1>c, <3>2, <3>3, <3>4, MoveStep
    <3>6. DataStep
      BY <1>b, <1>c, <3>1 DEF DataStep, Data!Next, Data!Work, OnHome
    <3>7. QED
      BY <3>5, <3>6
  <2>4. CASE Go(r, l) /\ UNCHANGED fly
    <3>1. /\ Others(r) /\ req'[r].pc = l /\ req'[r].m = req[r].m /\ req'[r].v = req[r].v
          /\ req'[r].doc = req[r].doc
      BY <1>a, <2>4, GoEffect
    <3>2. r \in Resumes => NoUp
      BY <1>c, <2>1 DEF Fork
    <3>3. (r \in Resumes => NoUp') /\ OnHome' /\ Len(machs') = Len(machs) /\ fresh' = fresh
      BY <1>b, <1>c, <2>4, <3>2 DEF NoUp, Up, OnHome, fly
    <3>4. Moving(r)' /\ Fork(r)'
      BY <1>b, <2>1, <2>2, <3>1, <3>3 DEF Moving, Fork, Early
    <3>5. Forks'
      BY <1>b, <1>c, <3>1, <3>3, <3>4, MoveStep
    <3>6. QED
      BY <1>b, <3>3, <3>5 DEF DataStep
  <2>5. QED
    BY <2>a, <2>3, <2>4
<1>4. CASE DeleteMachine(r)
  <2>1. req[r].pc = "delete" /\ r \in Resumes /\ r \notin Wakes
    BY <1>4, <1>b DEF DeleteMachine, At
  <2>2. req[r].v = doc.volume /\ NoUp
    BY <1>c, <2>1 DEF Fork, Early
  <2>3. /\ Go(r, "machine")
        /\ (Exists(req[r].m) /\ Turn(req[r].m, "gone")) \/ UNCHANGED fly
    BY <1>4 DEF DeleteMachine, Ask
  <2>4. /\ Others(r) /\ req'[r].pc = "machine" /\ req'[r].m = req[r].m
        /\ req'[r].v = req[r].v
    BY <1>a, <2>3, GoEffect
  <2>5. NoUp' /\ Len(machs') = Len(machs) /\ fresh' = fresh /\ DOMAIN machs' = DOMAIN machs
    <3>1. CASE UNCHANGED fly
      BY <2>2, <3>1 DEF NoUp, Up, fly
    <3>2. CASE Exists(req[r].m) /\ Turn(req[r].m, "gone")
      <4>1. PICK s \in {"up", "down", "gone"} : s = "gone" /\ Turn(req[r].m, s)
        BY <3>2
      <4>2. /\ req[r].m \in DOMAIN machs /\ DOMAIN machs' = DOMAIN machs
            /\ \A n \in DOMAIN machs : n # req[r].m => machs'[n] = machs[n]
            /\ machs'[req[r].m].state = "gone" /\ fresh' = fresh
        BY <3>2, <4>1, TurnEffect
      <4>3. Len(machs') = Len(machs)
        BY <1>a, <3>2 DEF Turn
      <4>4. QED
        BY <2>2, <4>2, <4>3 DEF NoUp, Up
    <3>3. QED
      BY <2>3, <3>1, <3>2
  <2>6. OnHome'
    BY <1>b, <1>c, <2>5 DEF OnHome, NoUp
  <2>7. Moving(r)' /\ Fork(r)'
    BY <1>b, <2>2, <2>4, <2>5 DEF Moving, Fork, Early
  <2>8. Forks'
    BY <1>b, <1>c, <2>1, <2>4, <2>5, <2>6, <2>7, MoveStep
  <2>9. QED
    BY <1>b, <2>5, <2>8 DEF DataStep
<1>5. CASE ForkVolume(r)
  <2>1. req[r].pc = "fork" /\ machs' = machs
    BY <1>5, <1>b DEF ForkVolume, At
  <2>2. req[r].v = doc.volume /\ req[r].doc.volume = doc.volume /\ NoUp
    BY <1>c, <2>1 DEF Fork, Early
  <2>3. doc.volume \in fresh /\ ~RunsOn(doc.volume)
    BY <1>c, <2>2 DEF OnHome, NoUp, RunsOn
  <2>4. PICK l \in {"repoint", "failed"} :
          /\ l = "repoint" => WithVolume(r, vols', l) /\ fresh' = fresh \cup {vols'}
          /\ l = "failed" => Go(r, l)
          /\ fresh \subseteq fresh'
    <3>1. CASE WithVolume(r, vols', "repoint") /\ fresh' = fresh \cup {vols'}
      BY <3>1
    <3>2. CASE Go(r, "failed") /\ fresh' = fresh
      BY <3>2
    <3>3. QED
      BY <1>5, <1>a, <2>2, <2>3, <3>1, <3>2 DEF ForkVolume, NoAnswer
  <2>5. /\ Others(r) /\ req'[r].pc = l /\ req'[r].m = req[r].m
        /\ req'[r].doc = req[r].doc /\ (l = "repoint" => req'[r].v = vols')
    BY <1>a, <2>4, GoEffect, WithVolumeEffect
  <2>6. NoUp' /\ OnHome'
    BY <1>b, <1>c, <2>1, <2>2, <2>4 DEF NoUp, Up, OnHome
  <2>7. Moving(r)' /\ Fork(r)'
    BY <1>b, <2>2, <2>4, <2>5, <2>6 DEF Moving, Fork, Early
  <2>8. Forks'
    BY <1>b, <1>c, <2>1, <2>5, <2>6, <2>7, MoveStep
  <2>9. DataStep
    BY <1>b, <2>3, <2>4 DEF DataStep, Data!Next, Data!Copy
  <2>10. QED
    BY <2>8, <2>9
<1>6. CASE WakeState(r) \/ WakeExists(r)
  <2>1. r \in Wakes /\ r \notin Resumes /\ UNCHANGED fly /\ Alone
    <3>1. r \in Wakes /\ UNCHANGED fly
      BY <1>6, <1>b DEF WakeState, WakeExists, At
    <3>2. r \in env
      BY <1>b, OneMoves
    <3>3. QED
      BY <3>1, <3>2 DEF Orderly, TwoResumes
  <2>2. /\ req[r].v = doc.volume /\ req[r].doc.volume = doc.volume
        /\ req[r].pc \in {"state", "exists"}
    BY <1>6, <1>c DEF WakeState, WakeExists, At, Fork, Early
  <2>3. Len(machs) = 1 /\ req[r].m = 1 /\ machs[1].volume = doc.volume
    BY <1>c, <1>d, <2>1, <2>2 DEF Lone
  <2>4. /\ machs' = machs /\ fresh' = fresh /\ (NoUp' <=> NoUp) /\ OnHome'
    BY <1>b, <1>c, <2>1 DEF fly, NoUp, Up, OnHome
  <2>5. \/ End(r)
        \/ \E l \in {"exists", "start", "machine", "failed"} :
             Go(r, l) /\ (l = "machine" => ~Exists(req[r].m))
    BY <1>6 DEF WakeState, WakeExists
  <2>6. CASE End(r)
    <3>1. Others(r) /\ req'[r].pc = "done"
      BY <1>a, <2>6, EndEffect
    <3>2. ~Moving(r)'
      BY <3>1 DEF Moving
    <3>3. Forks'
      BY <1>b, <1>c, <2>1, <2>4, <3>1, <3>2, MoveStep
    <3>4. QED
      BY <1>b, <2>4, <3>3 DEF DataStep
  <2>7. ASSUME NEW l \in {"exists", "start", "machine", "failed"}, Go(r, l),
               l = "machine" => ~Exists(req[r].m)
        PROVE  Forks' /\ DataStep
    <3>1. /\ Others(r) /\ req'[r].pc = l /\ req'[r].m = req[r].m /\ req'[r].v = req[r].v
          /\ req'[r].doc = req[r].doc
      BY <1>a, <2>7, GoEffect
    <3>2. l = "machine" => NoUp'
      <4>1. \A m \in DOMAIN machs : m = 1
        BY <1>a, <2>3
      <4>2. QED
        BY <2>3, <2>4, <2>7, <4>1 DEF NoUp, Up, Exists
    <3>3. Moving(r)' /\ Fork(r)'
      BY <1>b, <2>1, <2>2, <2>3, <2>4, <3>1, <3>2 DEF Moving, Fork, Early
    <3>4. Forks'
      BY <1>b, <1>c, <2>3, <2>4, <3>1, <3>3, MoveStep
    <3>5. QED
      BY <1>b, <2>4, <3>4 DEF DataStep
  <2>8. QED
    BY <2>5, <2>6, <2>7
<1>7. QED
  BY <1>1, <1>2, <1>3, <1>4, <1>5, <1>6, <1>a, <1>b DEF AskFly, CreateVolume, StopOld,
     DeleteOld, Halt, RefreshState, At

\* A page view writes what it saw of the machine.
LEMMA ViewStep ==
    ASSUME TypeOK, Orderly, "full" \in env, Begun, Forks, NEW r \in {"refresh"}, r \in env,
           env' = env, Others(r), UNCHANGED fly, Known,
           doc'.upgrade = doc.upgrade, doc'.claim = doc.claim, doc'.volume = doc.volume,
           doc'.machine = doc.machine,
           doc'.status \in {"suspended", "error"} \/ req'[r].pc = "sawDown" =>
             \/ doc.status \in {"suspended", "error"}
             \/ req[r].pc = "sawDown"
             \/ InFlight(r) /\ ~Up(req[r].m),
           InFlight(r)' => \/ req'[r].m = doc.machine
                           \/ InFlight(r) /\ req'[r].m = req[r].m
    PROVE  Forks' /\ DataStep
PROOF
<1> USE Kinds
<1>1. /\ r \in Request \ Firsts /\ r \notin Movers /\ Movers \subseteq Request
      /\ Resumes \subseteq Movers
  BY DEF Movers
<1>2. /\ \A s \in Request : s # r => req'[s] = req[s]
      /\ (Alone' <=> Alone) /\ ~TwoResumes /\ ~TwoResumes' /\ Alone
      /\ machs' = machs /\ fresh' = fresh /\ machs \in Seq(Machine)
  BY DEF Others, TwoResumes, Alone, fly, Orderly, TypeOK
<1>3. \A s \in Movers : req'[s] = req[s]
  BY <1>1, <1>2
<1>4. NoResize'
  BY <1>1, <1>2 DEF Forks, NoResize, InFlight
<1>5. OnHome'
  BY <1>2 DEF Forks, OnHome, Up
<1>6. Moved'
  BY <1>2, <1>3 DEF Forks, Moved, Moving, Fork, NoUp, Up
<1>7. ASSUME NEW s \in Resumes PROVE Claimable(s)'
  <2>1. Claimable(s) /\ req'[s] = req[s] /\ s \in Movers /\ s \notin Wakes
    BY <1>1, <1>3 DEF Forks
  <2>2. ASSUME req'[s].pc = "claim"
        PROVE  /\ req'[s].doc.status \in {"suspended", "error"}
               /\ req'[s].v = doc'.volume /\ req'[s].doc.volume = doc'.volume
    BY <2>1, <2>2 DEF Claimable
  <2>3. ASSUME req'[s].pc \in {"idle", "claim"}, Known', s \in env',
               doc'.status \in {"suspended", "error"} \/ req'[r].pc = "sawDown"
        PROVE  NoUp'
    <3>1. NoUp
      <4>1. CASE doc.status \in {"suspended", "error"} \/ req[r].pc = "sawDown"
        BY <2>1, <2>3, <4>1 DEF Claimable
      <4>2. CASE InFlight(r) /\ ~Up(req[r].m)
        <5>1. Lone(s)
          BY <1>2, <2>1, <2>3 DEF Forks
        <5>2. Len(machs) = 1 /\ req[r].m = 1
          BY <2>1, <2>3, <4>2, <5>1 DEF Lone
        <5>3. \A m \in DOMAIN machs : m = 1
          BY <1>2, <5>2
        <5>4. QED
          BY <4>2, <5>2, <5>3 DEF NoUp, Up
      <4>3. QED
        BY <2>3, <4>1, <4>2
    <3>2. QED
      BY <1>2, <3>1 DEF NoUp, Up
  <2>4. QED
    BY <1>2, <2>2, <2>3 DEF Claimable
<1>8. Failure'
  BY <1>2 DEF Failure
<1>9. ASSUME NEW s \in Movers \cap env', Alone' PROVE Lone(s)'
  <2>1. Lone(s) /\ req'[s] = req[s]
    BY <1>2, <1>3, <1>9 DEF Forks
  <2>2. QED
    BY <1>2, <2>1 DEF Lone, InFlight, Known
<1>10. QED
  BY <1>2, <1>4, <1>5, <1>6, <1>7, <1>8, <1>9 DEF Forks, DataStep

\* Nobody else works there.
LEMMA ForkOther ==
    ASSUME TypeOK, Orderly, "full" \in env, Begun, Forks, NEW r \in Request \ (Firsts \cup Movers),
           Begin(r) \/ OnDocument(r) \/ AskFly(r)
    PROVE  Forks' /\ DataStep
PROOF
<1> USE Kinds
<1>a. doc.upgrade = NoUpgrade /\ doc.claim = "none" /\ doc \in Document
  BY DEF Forks, NoResize, TypeOK
<1>b. \A s \in Resizes : s \notin env
  BY DEF Orderly
<1>1. CASE r # "refresh"
  <2>1. ~InFlight(r)
    BY <1>1 DEF Forks, NoResize
  <2>2. ~OnDocument(r)
    BY <2>1 DEF OnDocument, ClaimStatus, PersistVolume, Finish, Failed, Repoint, Look,
       ReadAgain, Lock, LetGo, RecordMachine, Settle, ReadFresh, MarkSuspended, Swap, Remind,
       WriteStatus, FailStale, ClearUpgrade, At, InFlight
  <2>3. ~AskFly(r)
    BY <2>1 DEF AskFly, CreateVolume, CreateMachine, UpdateMachine, StartMachine,
       DeleteMachine, ForkVolume, WakeState, WakeExists, StopOld, DeleteOld, Halt,
       RefreshState, At, InFlight
  <2>4. ~Begin(r)
    BY <1>a, <1>b, <1>1 DEF Begin, Insert, ReadDraft, ReadResume, ReadWake, ReadUpgrade,
       ReadRevert, ListExpired, ReadSuspend, ReadRenew, ReadRefresh, ListStale, ListOrphaned,
       Receives, At, Stale, NoUpgrade, Firsts, Movers, Resizes, Reverts, Sweeps
  <2>5. QED
    BY <2>2, <2>3, <2>4
<1>2. CASE r = "refresh"
  <2>1. r \notin Sweeps /\ r \notin Firsts \cup Movers \cup Resizes
    BY <1>2
  <2>2. /\ req[r].pc \in {"idle", "done", "state", "sawUp", "sawDown"}
        /\ InFlight(r) => r \in env /\ Known
    <3>1. req[r].pc \in Label /\ Spot(r)
      BY DEF TypeOK, Begun, Asked
    <3>2. InFlight(r) => Known
      BY <2>1 DEF Begun, Tended
    <3>3. QED
      BY <1>2, <2>1, <3>1, <3>2 DEF Label, Spot, SpotAt, Own, InFlight, Movers
  <2>3. CASE ReadRefresh(r)
    <3>1. /\ r \in env /\ Known /\ Read(r, "state") /\ doc' = doc /\ env' = env /\ UNCHANGED fly
          /\ r \in {"refresh"}
      BY <2>1, <2>3 DEF ReadRefresh, Receives, At, OnDoc, Known
    <3>2. Others(r) /\ req'[r].pc = "state" /\ req'[r].m = doc.machine
      BY <3>1, ReadEffect
    <3>3. InFlight(r)' => req'[r].m = doc.machine
      BY <3>2
    <3>4. QED
      BY <3>1, <3>2, <3>3, ViewStep
  <2>4. CASE RefreshState(r)
    <3>1. /\ InFlight(r) /\ doc' = doc /\ env' = env /\ UNCHANGED fly /\ r \in {"refresh"}
          /\ \/ End(r) \/ Go(r, "sawUp")
             \/ Go(r, "sawDown") /\ ~Up(req[r].m)
      BY <2>4 DEF RefreshState, At, InFlight, OnFly
    <3>2. /\ Others(r)
          /\ req'[r].pc = "sawDown" => ~Up(req[r].m)
          /\ InFlight(r)' => req'[r].m = req[r].m
      BY <2>1, <3>1, GoEffect, EndEffect DEF InFlight
    <3>3. QED
      BY <2>2, <3>1, <3>2, ViewStep
  <2>5. CASE WriteStatus(r)
    <3>1. InFlight(r) /\ env' = env /\ UNCHANGED fly /\ r \in {"refresh"} /\ End(r)
      BY <2>5, <1>2 DEF WriteStatus, At, InFlight, OnDoc
    <3>2. /\ doc'.upgrade = doc.upgrade /\ doc'.claim = doc.claim
          /\ doc'.volume = doc.volume /\ doc'.machine = doc.machine
          /\ doc'.status = "running" \/ (doc'.status = "suspended" /\ req[r].pc = "sawDown")
      BY <1>a, <2>5 DEF WriteStatus, At, Document
    <3>3. Others(r) /\ req'[r].pc = "done" /\ ~InFlight(r)'
      BY <2>1, <3>1, EndEffect DEF InFlight
    <3>4. QED
      BY <2>2, <3>1, <3>2, <3>3, ViewStep
  <2>6. CASE Begin(r)
    BY <1>2, <2>1, <2>3, <2>6 DEF Begin, Insert, ReadDraft, ReadResume, ReadWake, ReadUpgrade,
       ReadRevert, ListExpired, ReadSuspend, ReadRenew, ListStale, ListOrphaned, Firsts, Movers
  <2>7. CASE OnDocument(r)
    BY <2>2, <2>5, <2>7 DEF OnDocument, ClaimStatus, PersistVolume, Finish, Failed, Repoint,
       Look, ReadAgain, Lock, LetGo, RecordMachine, Settle, ReadFresh, MarkSuspended, Swap,
       Remind, FailStale, ClearUpgrade, At
  <2>8. CASE AskFly(r)
    BY <1>2, <2>1, <2>2, <2>4, <2>8 DEF AskFly, CreateVolume, CreateMachine, UpdateMachine,
       StartMachine, DeleteMachine, ForkVolume, WakeState, WakeExists, StopOld, DeleteOld,
       Halt, At, Movers
  <2>9. QED
    BY <2>6, <2>7, <2>8
<1>3. QED
  BY <1>1, <1>2
-----------------------------------------------------------------------------
(* The environment, and the whole.                                           *)

\* Machines stop or go, an upgrade's window ends, requests die; nothing begins.
LEMMA Fading ==
    ASSUME TypeOK, Begun, Homes, env' = env, doc'.status = doc.status,
           doc'.machine = doc.machine, doc'.volume = doc.volume, doc'.claim = doc.claim,
           doc'.upgrade.by = doc.upgrade.by, "full" \in env /\ Forks => doc' = doc,
           \A r \in Request : \/ req'[r] = req[r]
                              \/ /\ InFlight(r) /\ req'[r].pc \in {"idle", "done"}
                                 /\ req'[r].pc = "idle" <=> r \in Sweeps,
           machs = <<>> => machs' = machs, fresh' = fresh,
           DOMAIN machs' = DOMAIN machs, Len(machs') = Len(machs),
           \A m \in DOMAIN machs : /\ machs'[m].volume = machs[m].volume
                                   /\ Up(m)' => Up(m)
                                   /\ Exists(m)' => Exists(m)
    PROVE  Begun' /\ Homes'
PROOF
<1> USE Kinds
<1>1. /\ \A r \in Request : InFlight(r)' => req'[r] = req[r]
      /\ \A r \in Request \ Sweeps : req'[r].pc = "idle" => req'[r] = req[r]
      /\ \A r \in Request : req[r].pc = "done" => req'[r].pc = "done"
      /\ \A r \in Request : req[r].pc = "idle" => req'[r].pc = "idle"
  BY DEF InFlight
<1>2. Known' <=> Known
  BY DEF Known
<1>3. Asked'
  <2> SUFFICES ASSUME NEW r \in Request PROVE Spot(r)'
    BY DEF Asked
  <2>1. Spot(r)
    BY DEF Begun, Asked
  <2>2. CASE req'[r] = req[r]
    BY <2>1, <2>2 DEF Spot, SpotAt
  <2>3. CASE InFlight(r) /\ req'[r].pc \in {"idle", "done"}
    BY <2>1, <2>3 DEF Spot, SpotAt, Own, InFlight
  <2>4. QED
    BY <2>2, <2>3
<1>4. Launch'
  <2>1. Firsts \subseteq Request \ Sweeps /\ "copilotLaunch" \in Firsts
    OBVIOUS
  <2>2. ASSUME NEW r \in Firsts, Launching(r)'
        PROVE  Launching(r) /\ req'[r] = req[r]
    BY <1>1, <2>1, <2>2 DEF Launching, InFlight
  <2>3. ASSUME NEW r \in Firsts, Launching(r)' PROVE Stage(r)'
    <3>1. Stage(r) /\ req'[r] = req[r]
      BY <2>2, <2>3 DEF Begun, Launch
    <3>2. Empty => Empty'
      BY DEF Empty
    <3>3. req[r].pc = "finish" => 1 \in DOMAIN machs
      <4>1. req[r].pc = "finish" => Len(machs) = 1
        BY <3>1 DEF Stage
      <4>2. machs \in Seq(Machine)
        BY DEF TypeOK
      <4>3. QED
        BY <4>1, <4>2
    <3>4. QED
      BY <3>1, <3>2, <3>3 DEF Stage
  <2>4. ASSUME NEW r \in Firsts, req'[r].pc = "claim"
        PROVE  r # "copilotLaunch" /\ req'[r].doc.status = "draft"
    <3>1. req'[r] = req[r]
      BY <1>1, <2>1, <2>4 DEF InFlight
    <3>2. QED
      BY <2>4, <3>1 DEF Begun, Launch
  <2>5. req'["copilotLaunch"].pc = "idle" <=> req["copilotLaunch"].pc = "idle"
    BY <1>1, <2>1
  <2>6. Empty => Empty'
    BY DEF Empty
  <2>7. \A r \in Firsts : Launching(r)' =>
          ~Known' /\ \A s \in Firsts : Launching(s)' => s = r
    BY <1>2, <2>2 DEF Begun, Launch
  <2>8. \A r \in Firsts : Launching(r)' =>
          doc'.status = IF r = "copilotLaunch" THEN "draft" ELSE "provisioning"
    BY <2>2 DEF Begun, Launch
  <2>9. doc'.status \in {"absent", "draft"} =>
          ~Known' /\ (req'["copilotLaunch"].pc = "idle" => Empty')
    BY <1>2, <2>5, <2>6 DEF Begun, Launch
  <2>10. req'["copilotLaunch"].pc # "idle" => doc'.status # "absent"
    BY <2>5 DEF Begun, Launch
  <2>11. QED
    BY <2>3, <2>4, <2>7, <2>8, <2>9, <2>10 DEF Launch
<1>5. Tended'
  <2>1. ASSUME NEW r \in Request \ Firsts, InFlight(r)' PROVE Known' /\ req'[r].m # 0
    <3>1. req'[r] = req[r]
      BY <1>1, <2>1
    <3>2. InFlight(r)
      BY <2>1, <3>1 DEF InFlight
    <3>3. QED
      BY <1>2, <3>1, <3>2 DEF Begun, Tended
  <2>2. QED
    BY <1>2, <2>1 DEF Begun, Tended
<1>6. ASSUME "full" \notin env PROVE OneHome'
  <2>1. OneHome
    BY <1>6 DEF Homes
  <2>2. ASSUME NEW r \in Request \ Firsts, InFlight(r)'
        PROVE  req'[r].v = doc'.volume /\ req'[r].pc \notin {"fork", "repoint"}
    <3>1. req'[r] = req[r]
      BY <1>1, <2>2
    <3>2. InFlight(r)
      BY <2>2, <3>1 DEF InFlight
    <3>3. QED
      BY <2>1, <3>1, <3>2 DEF OneHome
  <2>3. Known' => /\ fresh' = {doc'.volume}
                  /\ \A m \in DOMAIN machs' : machs'[m].volume = doc'.volume
    BY <1>2, <2>1 DEF OneHome
  <2>4. \A m, n \in DOMAIN machs' : Exists(m)' /\ Exists(n)' => m = n
    BY <2>1 DEF OneHome
  <2>5. QED
    BY <2>2, <2>3, <2>4 DEF OneHome
<1>7. ASSUME "full" \in env PROVE Forks'
  <2>1. Forks /\ doc' = doc
    BY <1>7 DEF Homes
  <2>2. NoResize'
    <3>1. \A r \in Request : InFlight(r)' => InFlight(r)
      BY <1>1 DEF InFlight
    <3>2. QED
      BY <2>1, <3>1 DEF Forks, NoResize
  <2>3. Known' => OnHome'
    BY <1>2, <2>1 DEF Forks, OnHome
  <2>4. (NoUp => NoUp') /\ (Alone' <=> Alone) /\ (TwoResumes' <=> TwoResumes)
    BY DEF NoUp, Up, Alone, TwoResumes
  <2>5. /\ Movers \subseteq Request \ Sweeps /\ Resumes \subseteq Movers
        /\ "refresh" \in Request
    BY DEF Movers
  <2>6. ASSUME NEW r \in Movers, Moving(r)'
        PROVE  Moving(r) /\ req'[r] = req[r] /\ Fork(r)'
    <3>1. req'[r] = req[r] /\ Moving(r)
      BY <1>1, <2>5, <2>6 DEF Moving, InFlight
    <3>2. Fork(r)
      BY <2>1, <3>1 DEF Forks, Moved
    <3>3. QED
      BY <2>1, <2>4, <3>1, <3>2 DEF Fork
  <2>7. Moved'
    <3>1. ASSUME NEW r \in Movers, Moving(r)'
          PROVE  \A s \in Movers : Moving(s)' => s = r
      BY <2>1, <2>6, <3>1 DEF Forks, Moved
    <3>2. ASSUME NEW r \in Movers, Moving(r)', TwoResumes' PROVE doc'.status = "provisioning"
      BY <2>1, <2>4, <2>6, <3>2 DEF Forks, Moved
    <3>3. QED
      BY <2>6, <3>1, <3>2 DEF Moved
  <2>8. ASSUME NEW r \in Resumes PROVE Claimable(r)'
    <3>1. Claimable(r) /\ r \in Request /\ \A s \in Resumes : s \in Request
      BY <2>1, <2>5 DEF Forks
    <3>2. ASSUME req'[r].pc = "claim"
          PROVE  /\ req'[r].doc.status \in {"suspended", "error"}
                 /\ "refresh" \in env' \/ doc'.status = req'[r].doc.status =>
                      req'[r].v = doc'.volume /\ req'[r].doc.volume = doc'.volume
                 /\ TwoResumes' /\ req'[r].doc.status = "error" =>
                      \A s \in Resumes \ {r} : req'[s].pc = "done"
      <4>1. req'[r] = req[r]
        BY <1>1, <3>1, <3>2 DEF InFlight
      <4>2. QED
        BY <1>1, <2>1, <2>4, <3>1, <3>2, <4>1 DEF Claimable
    <3>3. ASSUME req'[r].pc \in {"idle", "claim"}, Known', r \in env',
                 doc'.status \in {"suspended", "error"} \/ req'["refresh"].pc = "sawDown"
          PROVE  NoUp'
      <4>1. req'[r] = req[r]
        BY <1>1, <2>5, <3>1, <3>3 DEF InFlight
      <4>2. req'["refresh"].pc = "sawDown" => req["refresh"].pc = "sawDown"
        BY <1>1, <2>5 DEF InFlight
      <4>3. QED
        BY <1>2, <2>1, <2>4, <3>1, <3>3, <4>1, <4>2 DEF Claimable
    <3>4. QED
      BY <3>2, <3>3 DEF Claimable
  <2>9. Failure'
    BY <1>1, <1>2, <2>1, <2>4, <2>5 DEF Forks, Failure
  <2>10. ASSUME NEW r \in Movers \cap env', Alone' PROVE Lone(r)'
    <3>1. Lone(r) /\ r \in Request \ Sweeps
      BY <2>1, <2>4, <2>5, <2>10 DEF Forks
    <3>2. ASSUME Known', req'[r].pc \notin {"finish", "done"}
          PROVE  /\ Len(machs') = 1 /\ doc'.machine = 1
                 /\ InFlight(r)' => req'[r].m = 1
                 /\ InFlight("refresh")' => req'["refresh"].m = 1
                 /\ req'[r] = req[r]
      <4>1. req'[r] = req[r]
        BY <3>1, <3>2
      <4>2. InFlight("refresh")' => req'["refresh"] = req["refresh"]
        BY <1>1, <2>5
      <4>3. QED
        BY <1>2, <2>1, <3>1, <3>2, <4>1, <4>2 DEF Lone, InFlight
    <3>3. ASSUME Known', r \in Wakes, req'[r].pc \in {"idle", "state", "exists", "start"}
          PROVE  machs'[1].volume = doc'.volume
      <4>1. req'[r] = req[r] /\ Len(machs) = 1
        BY <1>2, <3>1, <3>2, <3>3 DEF Lone
      <4>2. 1 \in DOMAIN machs
        BY <4>1 DEF TypeOK
      <4>3. QED
        BY <1>2, <2>1, <3>1, <3>3, <4>1, <4>2 DEF Lone
    <3>4. QED
      BY <3>2, <3>3 DEF Lone
  <2>11. QED
    BY <2>2, <2>3, <2>7, <2>8, <2>9, <2>10 DEF Forks
<1>8. QED
  BY <1>3, <1>4, <1>5, <1>6, <1>7 DEF Begun, Homes

\* No step of a request changes the environment.
LEMMA EnvKept ==
    ASSUME NEW r, Begin(r) \/ OnDocument(r) \/ AskFly(r)
    PROVE  env' = env
PROOF
  BY DEF Begin, Insert, ReadDraft, ReadResume, ReadWake, ReadUpgrade, ReadRevert, ListExpired,
     ReadSuspend, ReadRenew, ReadRefresh, ListStale, ListOrphaned, OnDocument, ClaimStatus,
     PersistVolume, Finish, Failed, Repoint, Look, ReadAgain, Lock, LetGo, RecordMachine,
     Settle, ReadFresh, MarkSuspended, Swap, Remind, WriteStatus, FailStale, ClearUpgrade,
     AskFly, CreateVolume, CreateMachine, UpdateMachine, StartMachine, DeleteMachine,
     ForkVolume, WakeState, WakeExists, StopOld, DeleteOld, Halt, RefreshState, OnDoc, OnFly

\* No request but a launch makes the mission lose its machine.
LEMMA MachineKept ==
    ASSUME TypeOK, Begun, NEW r \in Request \ Firsts, OnDocument(r) \/ AskFly(r), InFlight(r)
    PROVE  doc'.machine # 0
PROOF
<1>a. doc \in Document /\ doc.machine # 0 /\ req[r].m # 0 /\ r \notin Creates
  BY Kinds DEF TypeOK, Begun, Tended, Known
<1>1. CASE AskFly(r)
  BY <1>a, <1>1 DEF AskFly, CreateVolume, CreateMachine, UpdateMachine, StartMachine,
     DeleteMachine, ForkVolume, WakeState, WakeExists, StopOld, DeleteOld, Halt, RefreshState,
     OnFly
<1>2. CASE Finish(r) \/ RecordMachine(r) \/ Settle(r)
  BY <1>a, <1>2 DEF Finish, RecordMachine, Settle, Document
<1>3. CASE ClaimStatus(r) \/ Failed(r) \/ Look(r) \/ ReadAgain(r) \/ Lock(r) \/ LetGo(r)
  BY <1>a, <1>3 DEF ClaimStatus, Failed, Look, ReadAgain, Lock, LetGo, Document
<1>4. CASE PersistVolume(r) \/ Repoint(r) \/ ReadFresh(r) \/ MarkSuspended(r) \/ Swap(r)
  BY <1>a, <1>4 DEF PersistVolume, Repoint, ReadFresh, MarkSuspended, Swap, Document
<1>5. CASE Remind(r) \/ WriteStatus(r) \/ FailStale(r) \/ ClearUpgrade(r)
  BY <1>a, <1>5 DEF Remind, WriteStatus, FailStale, ClearUpgrade, Document
<1>6. QED
  BY <1>1, <1>2, <1>3, <1>4, <1>5 DEF OnDocument

\* The environment's steps.
LEMMA WorkEnvironment ==
    ASSUME TypeOK, Begun, Homes, MachineEnds \/ WindowEnds \/ Die
    PROVE  Begun' /\ Homes' /\ DataStep
PROOF
<1>a. machs \in Seq(Machine) /\ doc \in Document
  BY DEF TypeOK
<1>1. CASE MachineEnds
  <2>1. PICK m \in DOMAIN machs, s \in {"up", "down", "gone"} :
          s # "up" /\ Exists(m) /\ Turn(m, s)
    BY <1>1 DEF MachineEnds, Up, Exists
  <2>2. UNCHANGED <<env, doc, req>>
    BY <1>1 DEF MachineEnds
  <2>3. /\ DOMAIN machs' = DOMAIN machs /\ fresh' = fresh
        /\ \A n \in DOMAIN machs : /\ machs'[n].volume = machs[n].volume
                                   /\ n # m => machs'[n] = machs[n]
        /\ machs'[m].state = s
    BY <2>1, TurnEffect
  <2>4. Len(machs') = Len(machs) /\ machs # <<>>
    BY <1>a, <2>1 DEF Turn
  <2>5. \A n \in DOMAIN machs : /\ machs'[n].volume = machs[n].volume
                                /\ Up(n)' => Up(n)
                                /\ Exists(n)' => Exists(n)
    BY <2>1, <2>3 DEF Up, Exists
  <2>6. Begun' /\ Homes'
    BY <2>2, <2>3, <2>4, <2>5, Fading
  <2>7. QED
    BY <2>2, <2>3, <2>6 DEF DataStep
<1>2. CASE WindowEnds
  <2>1. UNCHANGED <<env, fly, req>> /\ doc.upgrade.by # "none"
    BY <1>2 DEF WindowEnds
  <2>2. /\ doc'.status = doc.status /\ doc'.machine = doc.machine /\ doc'.volume = doc.volume
        /\ doc'.claim = doc.claim /\ doc'.upgrade.by = doc.upgrade.by
    BY <1>a, <1>2 DEF WindowEnds, Document, Upgrade
  <2>3. ~Forks
    BY <2>1 DEF Forks, NoResize, NoUpgrade
  <2>4. machs' = machs /\ fresh' = fresh
    BY <2>1 DEF fly
  <2>5. \A m \in DOMAIN machs : (Up(m)' => Up(m)) /\ (Exists(m)' => Exists(m))
    BY <2>4 DEF Up, Exists
  <2>6. Begun' /\ Homes'
    BY <2>1, <2>2, <2>3, <2>4, <2>5, Fading
  <2>7. QED
    BY <2>2, <2>4, <2>6 DEF DataStep
<1>3. CASE Die
  <2>1. UNCHANGED <<env, doc, fly>>
    BY <1>3 DEF Die
  <2>2. machs' = machs /\ fresh' = fresh
    BY <2>1 DEF fly
  <2>3. \A m \in DOMAIN machs : (Up(m)' => Up(m)) /\ (Exists(m)' => Exists(m))
    BY <2>2 DEF Up, Exists
  <2>4. Idle.pc = "idle" /\ Done.pc = "done"
    BY DEF Idle, Done
  <2>5. \A r \in Request : \/ req'[r] = req[r]
                           \/ /\ InFlight(r) /\ req'[r].pc \in {"idle", "done"}
                              /\ req'[r].pc = "idle" <=> r \in Sweeps
    BY <1>3, <2>4 DEF Die
  <2>6. Begun' /\ Homes'
    BY <2>1, <2>2, <2>3, <2>5, Fading
  <2>7. QED
    BY <2>1, <2>2, <2>6 DEF DataStep
<1>4. QED
  BY <1>1, <1>2, <1>3

\* Only a launch and the switch to a fork move the mission.
LEMMA VolumeKept ==
    ASSUME TypeOK, NEW r \in Request \ Firsts, Begin(r) \/ OnDocument(r) \/ AskFly(r),
           ~Repoint(r), ~PersistVolume(r)
    PROVE  doc'.volume = doc.volume
PROOF
<1>a. doc \in Document /\ r \notin Creates \cup Launches
  BY Kinds DEF TypeOK
<1>1. CASE Begin(r)
  BY <1>a, <1>1 DEF Begin, Insert, ReadDraft, ReadResume, ReadWake, ReadUpgrade, ReadRevert,
     ListExpired, ReadSuspend, ReadRenew, ReadRefresh, ListStale, ListOrphaned
<1>2. CASE AskFly(r)
  BY <1>2 DEF AskFly, CreateVolume, CreateMachine, UpdateMachine, StartMachine, DeleteMachine,
     ForkVolume, WakeState, WakeExists, StopOld, DeleteOld, Halt, RefreshState, OnFly
<1>3. CASE Finish(r)
  BY <1>a, <1>3 DEF Finish, Document
<1>4. CASE ClaimStatus(r) \/ Failed(r) \/ Look(r) \/ ReadAgain(r) \/ Lock(r) \/ LetGo(r)
  BY <1>a, <1>4 DEF ClaimStatus, Failed, Look, ReadAgain, Lock, LetGo, Document
<1>5. CASE RecordMachine(r) \/ Settle(r) \/ ReadFresh(r) \/ MarkSuspended(r) \/ Swap(r)
  BY <1>a, <1>5 DEF RecordMachine, Settle, ReadFresh, MarkSuspended, Swap, Document
<1>6. CASE Remind(r) \/ WriteStatus(r) \/ FailStale(r) \/ ClearUpgrade(r)
  BY <1>a, <1>6 DEF Remind, WriteStatus, FailStale, ClearUpgrade, Document
<1>7. QED
  BY <1>1, <1>2, <1>3, <1>4, <1>5, <1>6 DEF OnDocument

\* A request that is no launch, where servers have room.
LEMMA TendStep ==
    ASSUME TypeOK, "full" \notin env, Begun, OneHome, NEW r \in Request \ Firsts,
           Begin(r) \/ OnDocument(r) \/ AskFly(r)
    PROVE  Begun' /\ OneHome' /\ DataStep
PROOF
<1>1. Begun' /\ OneHome'
  BY TendBegin, TendDocument, TendFly
<1>2. CASE Begin(r)
  <2>1. ~Repoint(r) /\ ~PersistVolume(r)
    BY <1>2 DEF Begin, Insert, ReadDraft, ReadResume, ReadWake, ReadUpgrade, ReadRevert,
       ListExpired, ReadSuspend, ReadRenew, ReadRefresh, ListStale, ListOrphaned, Receives,
       Repoint, PersistVolume, At
  <2>2. UNCHANGED fly
    BY <1>2, Kinds DEF Begin, Insert, ReadDraft, ReadResume, ReadWake, ReadUpgrade, ReadRevert,
       ListExpired, ReadSuspend, ReadRenew, ReadRefresh, ListStale, ListOrphaned, OnDoc
  <2>3. doc'.volume = doc.volume
    BY <1>2, <2>1, VolumeKept
  <2>4. QED
    BY <1>1, <2>2, <2>3 DEF DataStep, fly
<1>3. CASE OnDocument(r) \/ AskFly(r)
  <2>1. InFlight(r)
    BY <1>3 DEF OnDocument, ClaimStatus, PersistVolume, Finish, Failed, Repoint, Look,
       ReadAgain, Lock, LetGo, RecordMachine, Settle, ReadFresh, MarkSuspended, Swap, Remind,
       WriteStatus, FailStale, ClearUpgrade, AskFly, CreateVolume, CreateMachine,
       UpdateMachine, StartMachine, DeleteMachine, ForkVolume, WakeState, WakeExists, StopOld,
       DeleteOld, Halt, RefreshState, At, InFlight
  <2>2. req[r].pc \notin {"repoint", "persist"} /\ Known
    <3>1. Spot(r)
      BY DEF Begun, Asked
    <3>2. QED
      BY <2>1, <3>1 DEF OneHome, Begun, Tended, Spot, SpotAt
  <2>3. ~Repoint(r) /\ ~PersistVolume(r)
    BY <2>2 DEF Repoint, PersistVolume, At
  <2>4. doc'.volume = doc.volume
    BY <2>3, VolumeKept
  <2>5. Known'
    <3>1. r \in Request \ Firsts /\ ~(doc'.machine = 0)
      BY <1>3, <2>1, <2>2, MachineKept
    <3>2. QED
      BY <3>1 DEF Known
  <2>6. fresh' = {doc'.volume} /\ fresh = {doc.volume}
    BY <1>1, <2>2, <2>5 DEF OneHome
  <2>7. QED
    BY <1>1, <2>4, <2>6 DEF DataStep
<1>4. QED
  BY <1>2, <1>3

\* The start, and every step.
LEMMA WorkInit == Init /\ Orderly => Begun /\ Homes /\ Data!Init
PROOF
<1> SUFFICES ASSUME Init, Orderly PROVE Begun /\ Homes /\ Data!Init
  OBVIOUS
<1> USE Kinds
<1>1. \A r \in Request : req[r].pc = "idle" /\ ~InFlight(r)
  BY DEF Init, Idle, InFlight
<1>2. PICK s \in Starts \cap env :
         LET known == s \in {"running", "upgraded", "suspended"}
             n     == IF known THEN 1 ELSE 0
             big   == s = "upgraded"
         IN  /\ doc = [status  |-> IF big THEN "running" ELSE s,
                       machine |-> n, volume |-> n, claim |-> "none",
                       upgrade |-> [by |-> IF big THEN "before" ELSE "none", due |-> FALSE]]
             /\ machs = IF known THEN <<[state |-> IF s = "suspended" THEN "down" ELSE "up",
                                         big |-> big, volume |-> 1]>> ELSE <<>>
             /\ vols = n /\ fresh = 1..n
  BY DEF Init
<1>3. CASE s \in {"absent", "draft"}
  <2>1. /\ doc.status = s /\ doc.machine = 0 /\ doc.volume = 0 /\ doc.claim = "none"
        /\ doc.upgrade = NoUpgrade /\ machs = <<>> /\ fresh = {}
    <3>1. 1..0 = {}
      OBVIOUS
    <3>2. /\ doc.status = s /\ doc.machine = 0 /\ doc.volume = 0 /\ doc.claim = "none"
          /\ doc.upgrade = NoUpgrade /\ fresh = 1..0
      BY <1>2, <1>3 DEF NoUpgrade
    <3>3. machs = <<>>
      BY <1>2, <1>3
    <3>4. QED
      BY <3>1, <3>2, <3>3
  <2>2. ~Known /\ Empty
    BY <2>1 DEF Known, Empty
  <2>3. Asked
    BY <1>1 DEF Asked, Spot, SpotAt, Own
  <2>4. Launch
    BY <1>1, <2>2 DEF Launch, Launching
  <2>5. Tended
    BY <1>1, <1>3, <2>1 DEF Tended, NoUpgrade
  <2>6. OneHome
    BY <1>1, <2>1, <2>2 DEF OneHome
  <2>7. Forks
    BY <1>1, <2>1, <2>2 DEF Forks, NoResize, Moved, Moving, Claimable, Failure, Lone, Movers
  <2>8. Data!Init
    BY <2>1 DEF Data!Init
  <2>9. QED
    BY <2>3, <2>4, <2>5, <2>6, <2>7, <2>8 DEF Begun, Homes
<1>4. CASE s \in {"running", "upgraded", "suspended"}
  <2>1. /\ doc.status \in {"running", "suspended"} /\ doc.machine = 1 /\ doc.volume = 1
        /\ doc.claim = "none" /\ (s # "upgraded" => doc.upgrade = NoUpgrade)
        /\ Len(machs) = 1 /\ DOMAIN machs = {1} /\ machs[1].volume = 1 /\ fresh = {1}
        /\ doc.status = "suspended" => machs[1].state = "down"
    <3>1. 1..1 = {1}
      OBVIOUS
    <3>2. /\ doc.status = IF s = "upgraded" THEN "running" ELSE s
          /\ doc.machine = 1 /\ doc.volume = 1
          /\ doc.claim = "none" /\ (s # "upgraded" => doc.upgrade = NoUpgrade)
          /\ fresh = {1}
      BY <1>2, <1>4, <3>1 DEF NoUpgrade
    <3>3. machs = <<[state |-> IF s = "suspended" THEN "down" ELSE "up",
                     big |-> s = "upgraded", volume |-> 1]>>
      BY <1>2, <1>4
    <3>4. Len(machs) = 1 /\ DOMAIN machs = {1} /\ machs[1].volume = 1
          /\ (s = "suspended" => machs[1].state = "down")
      BY <3>1, <3>3
    <3>5. QED
      BY <1>4, <3>2, <3>4
  <2>2. Known
    BY <2>1 DEF Known
  <2>3. Asked
    BY <1>1 DEF Asked, Spot, SpotAt, Own
  <2>4. Launch
    BY <1>1, <2>1, <2>2 DEF Launch, Launching
  <2>5. Tended
    BY <1>1, <2>2 DEF Tended
  <2>6. OneHome
    BY <1>1, <2>1, <2>2 DEF OneHome
  <2>7. ASSUME "full" \in env PROVE Forks
    <3>1. NoResize
      BY <1>1, <1>2, <2>1, <2>7 DEF NoResize, Orderly
    <3>2. OnHome
      BY <2>1 DEF OnHome, Up
    <3>3. Moved
      BY <1>1 DEF Moved, Moving, Movers
    <3>4. doc.status = "suspended" => NoUp
      BY <2>1 DEF NoUp, Up
    <3>5. \A r \in Resumes : Claimable(r)
      BY <1>1, <2>1, <3>4 DEF Claimable, Movers
    <3>6. Failure
      BY <2>1 DEF Failure
    <3>7. \A r \in Movers : Lone(r)
      BY <1>1, <2>1 DEF Lone
    <3>8. QED
      BY <3>1, <3>2, <3>3, <3>5, <3>6, <3>7 DEF Forks
  <2>8. Data!Init
    BY <2>1 DEF Data!Init
  <2>9. QED
    BY <2>3, <2>4, <2>5, <2>6, <2>7, <2>8 DEF Begun, Homes
<1>5. QED
  BY <1>3, <1>4 DEF Starts

LEMMA WorkNext ==
    ASSUME TypeOK, Orderly, Begun, Homes, [Next]_vars
    PROVE  Orderly' /\ Begun' /\ Homes' /\ [Data!Next]_(Data!vars)
PROOF
<1>1. ASSUME NEW r \in Firsts, Begin(r) \/ OnDocument(r) \/ AskFly(r)
      PROVE  Begun' /\ Homes' /\ DataStep
  BY <1>1, LaunchBegin, LaunchDocument, LaunchFly
<1>2. ASSUME NEW r \in Request \ Firsts, Begin(r) \/ OnDocument(r) \/ AskFly(r)
      PROVE  Begun' /\ Homes' /\ DataStep
  <2>1. Begun' /\ env' = env
    BY <1>2, TendBegin, TendDocument, TendFly, EnvKept
  <2>2. CASE "full" \notin env
    BY <1>2, <2>1, <2>2, TendStep DEF Homes
  <2>3. CASE "full" \in env
    <3>1. Forks
      BY <2>3 DEF Homes
    <3>2. Forks' /\ DataStep
      BY <1>2, <2>3, <3>1, ForkBegin, ForkDocument, ForkFly, ForkOther
    <3>3. QED
      BY <2>1, <2>3, <3>2 DEF Homes
  <2>4. QED
    BY <2>2, <2>3
<1>3. ASSUME MachineEnds \/ WindowEnds \/ Die
      PROVE  Begun' /\ Homes' /\ DataStep
  BY <1>3, WorkEnvironment
<1>4. ASSUME UNCHANGED vars
      PROVE  Begun' /\ Homes' /\ DataStep
  <2>1. UNCHANGED <<env, doc, machs, vols, fresh, req>>
    BY <1>4 DEF vars, fly
  <2>2. \A m \in DOMAIN machs : (Up(m)' => Up(m)) /\ (Exists(m)' => Exists(m))
    BY <2>1 DEF Up, Exists
  <2>3. Begun' /\ Homes'
    BY <2>1, <2>2, Fading
  <2>4. QED
    BY <2>1, <2>3 DEF DataStep
<1>5. env' = env
  BY EnvKept DEF Next, MachineEnds, WindowEnds, Die, vars
<1>6. Orderly'
  BY <1>5 DEF Orderly, Alone, TwoResumes
<1>7. Firsts \subseteq Request
  BY Kinds
<1>8. QED
  BY <1>1, <1>2, <1>3, <1>4, <1>6, <1>7 DEF Next, DataStep, Data!vars

\* The mission's work is only ever done on the volume its document names, and the
\* document moves only to a copy that holds all of it, in every orderly environment.
THEOREM WorkKept == Spec /\ Orderly => KeepsWork
PROOF
<1> DEFINE WInv == Orderly /\ Begun /\ Homes
<1>1. Init /\ Orderly => WInv /\ Data!Init
  BY WorkInit
<1>2. TypeOK /\ WInv /\ [Next]_vars => WInv' /\ [Data!Next]_(Data!vars)
  BY WorkNext
<1> HIDE DEF WInv
<1>3. QED
  BY <1>1, <1>2, TypeCorrect, PTL DEF Spec, KeepsWork, Data!Spec

-----------------------------------------------------------------------------
(* No machine is abandoned, and a big one is known to be.                    *)

\* The environments of this section.  Two that may delete or replace a machine at once
\* are two resumes, or a resume beside the resizes of a mission that may be upgraded:
\* the status and the claim keep those apart, as long as nothing else writes the status
\* (a wake, a suspend, a page view) and no resize outlasts its claim.
Resizable == env \cap {"upgrade", "upgraded"} # {}
Many == \/ \E r, s \in Resumes \cap env : r # s
        \/ Resumes \cap env # {} /\ Resizable
Apart ==
    /\ Many => env \cap (Wakes \cup {"suspend", "refresh"}) = {}
    /\ "slow" \in env /\ Resizable => env \cap (Movers \cup {"refresh"}) = {}

\* Where machines are removed by hand, a wake creates one beside whoever else does: it
\* must be alone.
Steady ==
    /\ Orderly /\ Apart
    /\ "gone" \in env /\ env \cap Wakes # {} => Alone /\ ~Resizable

\* A wake starts a machine as it is, a page view marks as running what it finds up, and a
\* renewal puts its mark on whatever is there: beside an upgrade they write of a machine
\* they know nothing of.
Plain ==
    /\ Orderly
    /\ Resizable =>
         /\ Apart /\ env \cap Wakes = {}
         /\ "refresh" \in env => env \cap {"suspend", "suspended"} = {}
         /\ env \cap Resumes # {} => "renew" \notin env

\* The labels where a request rests, where it is about to write the machine it made or
\* started, where a suspend stops the machine, and where a resize has done nothing yet.
Rest    == {"idle", "done"}
Last    == {"finish", "record", "settle"}
Halting == {"look", "fresh", "halt", "mark"}
Calm    == Rest \cup {"look", "again", "halt", "mark"}

\* Of every environment: machines are numbered in order, only a suspend stops a machine to
\* mark the mission, and nothing is resized without an upgrade.
Numbered == /\ doc.machine <= Len(machs)
            /\ \A r \in Request : req[r].m <= Len(machs)
Halts == \A r \in Request : req[r].pc \in Halting => r = "suspend"
Flat == ~Resizable =>
    /\ doc.upgrade.by = "none" /\ doc.claim = "none"
    /\ \A r \in Resizes : req[r].pc \in Calm
    /\ \A r \in {"renew", "stale", "orphan"} : ~InFlight(r)

\* A resize that outlasts its claim has lost a mission that no longer runs.
Late == Apart /\ "slow" \in env =>
    \A r \in Request : Resizing(r) =>
      /\ doc.claim = r \/ doc.status # "running"
      /\ \A s \in Request : Resizing(s) => s = r

\* A resume holds the status, a resize the claim, and never both at once.
Guard == Apart /\ Many =>
    /\ doc.claim # "none" => doc.status = "running"
    /\ \A r \in Resumes :
         /\ req[r].pc = "claim" => req[r].doc.status \notin {"running", "provisioning"}
         /\ Moving(r) => /\ doc.status = "provisioning" /\ doc.claim = "none"
                         /\ \A s \in Resumes : Moving(s) => s = r

\* A wake works on the machine it read, until it has created one; that one nobody else
\* knows before the wake's last write.
Rereads(r) ==
    r \in Wakes /\ InFlight(r) /\ req[r].pc # "finish" => req[r].m = req[r].doc.machine
Hidden(r) ==
    r \in Wakes /\ req[r].pc = "finish" /\ req[r].m # req[r].doc.machine =>
      /\ doc.machine # req[r].m
      /\ \A s \in Request \ {r} : req[s].m # req[r].m
Fitted == \A r \in Request : Rereads(r) /\ Hidden(r)

\* Whoever is about to name a machine: no other machine is up, and where servers have
\* room and nobody removes a machine, that one is there.
Names(r) == /\ r \in Movers \cup Resizes /\ req[r].pc \in Last
            /\ r \in Wakes => req[r].m # req[r].doc.machine
Sound(r) == Names(r) =>
    /\ \A m \in DOMAIN machs : Up(m) => m = req[r].m
    /\ env \cap {"full", "gone"} = {} => Exists(req[r].m)

\* A machine is big only where missions are upgraded; and whoever names one, but the
\* upgrade and a wake, names one of the default shape.
Small == ~Resizable => \A m \in DOMAIN machs : ~machs[m].big
Trim(r) ==
    \/ r \in Resumes /\ req[r].pc = "start"
    \/ r \notin Wakes \cup {"upgrade"} /\ req[r].pc \in Last
    => req[r].m \in DOMAIN machs /\ ~machs[req[r].m].big
Trims == \A r \in Request : Trim(r)

\* A mission that has stopped running stays so where nobody resumes it; where somebody
\* does, it has lost its upgrade.
Fallen == Plain /\ Resizable /\ env \cap Resumes = {} =>
    /\ Known => doc.status \in {"running", "suspended", "error"}
    /\ "refresh" \in env /\ Known /\ doc.status = "suspended" => req["refresh"].pc = "done"
    /\ InFlight("refresh") =>
         req["refresh"].doc.status = "running" /\ req["refresh"].pc # "sawUp"
    /\ req["orphan"].pc = "clear" => doc.status # "running"
Risen == Plain /\ Resizable /\ env \cap Resumes # {} =>
    /\ doc.status # "running" => doc.upgrade.by = "none"
    /\ req["orphan"].pc # "clear"

\* A running mission's big machine is declared, or the upgrade that made it holds the claim.
Declared == Plain /\ Resizable =>
    (/\ doc.status = "running" /\ doc.upgrade.by = "none"
     /\ doc.machine \in DOMAIN machs /\ machs[doc.machine].big
     => doc.claim = "upgrade" /\ req["upgrade"].pc \in {"settle", "done"})

-----------------------------------------------------------------------------
(* What a step of request r does to the document, the requests, the machines. *)

\* Who writes the status, and what.
Marks(r) ==
    \/ doc'.status = doc.status
    \/ doc'.status = "running" /\ req[r].pc \in {"finish", "sawUp"}
    \/ /\ doc'.status = "provisioning"
       /\ \/ doc.status = "absent"
          \/ req[r].pc = "claim" /\ doc.status = req[r].doc.status
    \/ doc'.status = "suspended" /\ req[r].pc \in {"mark", "sawDown"}
    \/ doc'.status = "error" /\ req[r].pc = "failed" /\ r \notin Wakes
    \/ /\ doc'.status = "error" /\ req[r].pc = "failStale"
       /\ doc.claim = req[r].doc.claim /\ doc'.claim = "none" /\ doc'.upgrade.by = "none"

\* Who begins and ends the upgrade.
Grants(r) ==
    \/ doc'.upgrade.by = doc.upgrade.by
    \/ doc'.upgrade.by = "none" /\ doc'.status = "error"
    \/ doc'.upgrade.by = "none" /\ req[r].pc = "clear"
    \/ doc'.upgrade.by = "none" /\ req[r].pc = "settle" /\ doc'.machine = req[r].m /\ r # "upgrade"
    \/ doc'.upgrade.by # "none" /\ req[r].pc = "settle" /\ r = "upgrade"
    \/ doc'.upgrade.by # "none" /\ req[r].pc \in {"swap", "remind"}

\* Who takes the claim, and what goes with it.
Locking(r) ==
    /\ doc'.claim # doc.claim /\ doc'.claim # "none" =>
         /\ req[r].pc = "lock" /\ doc.status = "running" /\ doc'.status = "running"
         /\ r \in Resizes /\ doc.claim = "none" /\ doc'.claim = r
    /\ req[r].pc = "failStale" /\ doc'.claim # doc.claim => doc'.status = "error"
    /\ req[r].pc = "settle" => doc'.claim = "none" /\ (r = "upgrade" => doc'.upgrade.by # "none")
    /\ req[r].pc = "failed" /\ r \in Resizes =>
         doc'.claim = "none" /\ doc'.status = "error" /\ doc'.upgrade.by = "none"

\* Who names the mission's machine.
Naming(r) ==
    /\ \/ doc'.machine = doc.machine
       \/ /\ doc'.machine = req[r].m /\ req[r].pc \in Last
          /\ r \in Wakes => req[r].m # req[r].doc.machine
    /\ req[r].pc = "finish" =>
         doc'.status = "running" /\ (r \notin Wakes => doc'.machine = req[r].m)

\* Where request r goes, with which copy of the document and which machine.
Goes(r) ==
    LET l == req[r].pc
        n == req'[r].pc
    IN
    /\ Others(r) /\ env' = env /\ l # "done"
    /\ n \in Rest => req'[r].m = 0
    /\ l \in {"finish", "sawUp", "sawDown"} => n \in Rest
    /\ l = "idle" /\ n # "idle" /\ r \notin Creates => req'[r].doc = doc /\ req'[r].m = doc.machine
    /\ l \notin {"idle", "lock"} /\ n \notin Rest => req'[r].doc = req[r].doc
    /\ \/ req'[r].m \in {0, req[r].m}
       \/ req'[r].m = doc.machine /\ l \in {"idle", "lock", "fresh"}
       \/ l = "machine" /\ n \in Last /\ req'[r].m = Len(machs) + 1
    /\ n = "claim" => l = "idle" /\ (r \in Resumes => doc.status \notin {"running", "provisioning"})
    /\ r \in Resumes /\ l \in {"idle", "claim"} /\ n \notin Rest \cup {"claim"} =>
         /\ l = "claim" /\ doc.status = req[r].doc.status /\ doc'.status = "provisioning"
    /\ r \in Resumes /\ l \notin {"idle", "claim"} /\ n \notin Rest => doc'.status = doc.status
    /\ n \in Halting => r = "suspend" \/ l \in Halting
    /\ r \in Resizes /\ n \notin Calm =>
         \/ doc.upgrade.by # "none"
         \/ r = "upgrade" /\ r \in env
         \/ l \notin Calm
    /\ r \in {"renew", "stale", "orphan"} /\ l = "idle" /\ n # "idle" =>
         doc.upgrade.by # "none" \/ doc.claim # "none"
    /\ r = "refresh" /\ l = "idle" => doc.status # "error" /\ n = "state"
    /\ n = "sawUp" => l = "state" /\ req[r].doc.status # "running"
    /\ n = "clear" => l = "idle" /\ doc.status # "running" /\ doc.upgrade.by # "none"
    /\ r = "upgrade" /\ l = "record" => n = "settle"

\* Which machines go up, away, or come to be.
Handles(r) ==
    /\ Len(machs) <= Len(machs')
    /\ \A m \in DOMAIN machs :
         /\ m \in DOMAIN machs'
         /\ Up(m)' => Up(m) \/ (req[r].pc = "start" /\ m = req[r].m)
         /\ Exists(m) => Exists(m)' \/ (req[r].pc \in {"delete", "remove"} /\ m = req[r].m)
         /\ machs'[m].big => machs[m].big
    /\ \A m \in DOMAIN machs' \ DOMAIN machs :
         /\ req[r].pc = "machine" /\ m = Len(machs) + 1
         /\ machs'[m].big => r = "upgrade"

\* With which machine a request comes to name one, and a resume to start one.
Stands(m) == m \in DOMAIN machs' /\ machs'[m].state # "gone"
Enters(r) ==
    LET l == req[r].pc
        n == req'[r].pc
        m == req'[r].m
    IN
    /\ n \in Last =>
         \/ l = "start" /\ n = "finish" /\ m = req[r].m /\ Stands(m) /\ req'[r].doc = req[r].doc
         \/ l = "machine" /\ m = Len(machs) + 1 /\ Stands(m) /\ req'[r].doc = req[r].doc
         \/ l = "record" /\ n = "settle" /\ m = req[r].m /\ machs' = machs
    /\ r \in Resumes /\ n = "start" =>
         l = "update" /\ m \in DOMAIN machs' /\ ~machs'[m].big

Acts(r) ==
    /\ Marks(r) /\ Grants(r) /\ Locking(r) /\ Naming(r)
    /\ Goes(r) /\ Handles(r) /\ Enters(r)

\* A step that leaves the machines alone.
LEMMA StillMachines ==
    ASSUME TypeOK, NEW r \in Request, machs' = machs
    PROVE  Handles(r)
PROOF
<1>1. machs \in Seq(Machine)
  BY DEF TypeOK
<1>2. QED
  BY <1>1 DEF Handles, Up, Exists

\* A request is received: it has read the document, or inserted it.
LEMMA BeginActs ==
    ASSUME TypeOK, NEW r \in Request, Begin(r)
    PROVE  Acts(r)
PROOF
<1>a. /\ req[r].pc = "idle" /\ UNCHANGED <<env, machs>> /\ doc \in Document
      /\ r \in env \cup Sweeps
  BY DEF Begin, Insert, ReadDraft, ReadResume, ReadWake, ReadUpgrade, ReadRevert, ListExpired,
         ReadSuspend, ReadRenew, ReadRefresh, ListStale, ListOrphaned, Receives, At, OnDoc, fly,
         TypeOK
<1>b. Handles(r)
  BY <1>a, StillMachines
<1>c. Acts(r) <=> Marks(r) /\ Grants(r) /\ Locking(r) /\ Naming(r) /\ Goes(r) /\ Enters(r)
  BY <1>b DEF Acts
<1> USE Kinds
<1>1. CASE Insert(r)
  <2>1. /\ Others(r) /\ req'[r].pc = "volume" /\ req'[r].m = req[r].m /\ r \in Creates
        /\ req'[r].doc = req[r].doc /\ doc.status = "absent"
    BY <1>1, GoEffect DEF Insert
  <2>2. /\ doc'.status = "provisioning" /\ doc'.machine = doc.machine
        /\ doc'.upgrade = doc.upgrade /\ doc'.claim = doc.claim
    BY <1>a, <1>1 DEF Insert, Document
  <2>3. r \notin Resumes \cup Resizes \cup Sweeps \cup {"renew", "refresh", "suspend"}
    BY <2>1 DEF Movers, Resizes, Reverts
  <2>4. Marks(r) /\ Grants(r) /\ Locking(r) /\ Naming(r)
    BY <1>a, <2>1, <2>2 DEF Marks, Grants, Locking, Naming
  <2>5. Goes(r)
    BY <1>a, <2>1, <2>2, <2>3 DEF Goes, Rest, Halting, Last, Calm, Sweeps
  <2>6. QED
    BY <1>c, <2>1, <2>4, <2>5 DEF Enters, Last
<1>2. ASSUME NEW l, Read(r, l), doc' = doc, l \notin Last \cup Rest \cup {"sawUp"},
             r \notin Creates,
             l = "claim" /\ r \in Resumes => doc.status \notin {"running", "provisioning"},
             r \in Resumes => l = "claim", l \in Halting => r = "suspend",
             r \in Resizes => \/ doc.upgrade.by # "none" \/ l \in Calm
                              \/ r = "upgrade" /\ r \in env,
             r \in {"renew", "stale", "orphan"} => doc.upgrade.by # "none" \/ doc.claim # "none",
             r = "refresh" => doc.status # "error" /\ l = "state",
             l = "clear" => doc.status # "running" /\ doc.upgrade.by # "none"
      PROVE  Acts(r)
  <2>1. Others(r) /\ req'[r].pc = l /\ req'[r].m = doc.machine /\ req'[r].doc = doc
    BY <1>2, ReadEffect
  <2>2. Marks(r) /\ Grants(r) /\ Locking(r) /\ Naming(r)
    BY <1>a, <1>2 DEF Marks, Grants, Locking, Naming
  <2>3. Goes(r)
    BY <1>a, <1>2, <2>1 DEF Goes, Rest, Halting, Last, Calm
  <2>4. Enters(r)
    BY <1>a, <1>2, <2>1 DEF Enters
  <2>5. QED
    BY <1>c, <2>2, <2>3, <2>4
<1>3. CASE ReadDraft(r)
  <2>1. r \in Launches /\ (Read(r, "volume") \/ Read(r, "claim")) /\ doc' = doc
    BY <1>3 DEF ReadDraft
  <2>2. r \notin Resumes \cup Resizes \cup Creates \cup {"renew", "refresh", "stale", "orphan"}
    BY <2>1 DEF Movers
  <2>3. QED
    BY <1>2, <2>1, <2>2 DEF Last, Rest, Halting
<1>4. CASE ReadResume(r)
  <2>1. r \in Resumes /\ Read(r, "claim") /\ doc' = doc
        /\ doc.status \notin {"running", "provisioning"}
    BY <1>4 DEF ReadResume
  <2>2. r \notin Resizes \cup Creates \cup {"renew", "refresh", "stale", "orphan"}
    BY <2>1 DEF Movers
  <2>3. QED
    BY <1>2, <2>1, <2>2 DEF Last, Rest, Halting
<1>5. CASE ReadWake(r)
  <2>1. r \in Wakes /\ (Read(r, "state") \/ Read(r, "exists")) /\ doc' = doc
    BY <1>5 DEF ReadWake
  <2>2. r \notin Resizes \cup Creates \cup Resumes \cup {"renew", "refresh", "stale", "orphan"}
    BY <2>1 DEF Movers
  <2>3. QED
    BY <1>2, <2>1, <2>2 DEF Last, Rest, Halting
<1>6. CASE ReadUpgrade(r) \/ ReadRevert(r) \/ ListExpired(r) \/ ReadSuspend(r)
  <2>1. r \in Resizes /\ doc' = doc
    BY <1>6 DEF ReadUpgrade, ReadRevert, ListExpired, ReadSuspend, Resizes, Reverts
  <2>2. r \notin Creates \cup Resumes \cup {"renew", "refresh", "stale", "orphan"}
    BY <2>1 DEF Movers
  <2>3. CASE ReadUpgrade(r)
    <3>1. Read(r, "lock") /\ r = "upgrade" /\ r \notin Sweeps
      BY <2>3 DEF ReadUpgrade, Sweeps
    <3>2. QED
      BY <1>2, <1>a, <2>1, <2>2, <3>1 DEF Last, Rest, Halting, Calm
  <2>4. CASE ReadRevert(r)
    <3>1. Read(r, "lock") /\ doc.upgrade.by # "none"
      BY <2>4 DEF ReadRevert
    <3>2. QED
      BY <1>2, <2>1, <2>2, <3>1 DEF Last, Rest, Halting, Calm
  <2>5. CASE ListExpired(r)
    <3>1. Read(r, "again")
      BY <2>5 DEF ListExpired
    <3>2. QED
      BY <1>2, <2>1, <2>2, <3>1 DEF Last, Rest, Halting, Calm
  <2>6. CASE ReadSuspend(r)
    <3>1. Read(r, "look") /\ r = "suspend"
      BY <2>6 DEF ReadSuspend
    <3>2. QED
      BY <1>2, <2>1, <2>2, <3>1 DEF Last, Rest, Halting, Calm
  <2>7. QED
    BY <1>6, <2>3, <2>4, <2>5, <2>6
<1>7. CASE ReadRenew(r) \/ ReadRefresh(r) \/ ListStale(r) \/ ListOrphaned(r)
  <2>1. r \in {"renew", "refresh", "stale", "orphan"} /\ doc' = doc
    BY <1>7 DEF ReadRenew, ReadRefresh, ListStale, ListOrphaned
  <2>2. r \notin Creates \cup Resumes \cup Resizes
    BY <2>1 DEF Creates, Resumes, Resizes, Reverts
  <2>3. CASE ReadRenew(r)
    <3>1. Read(r, "swap") /\ doc.upgrade.by # "none" /\ r = "renew"
      BY <2>3 DEF ReadRenew
    <3>2. QED
      BY <1>2, <2>1, <2>2, <3>1 DEF Last, Rest, Halting, Calm
  <2>4. CASE ReadRefresh(r)
    <3>1. Read(r, "state") /\ doc.status # "error" /\ r = "refresh"
      BY <2>4 DEF ReadRefresh
    <3>2. QED
      BY <1>2, <2>1, <2>2, <3>1 DEF Last, Rest, Halting, Calm
  <2>5. CASE ListStale(r)
    <3>1. Read(r, "failStale") /\ doc.claim # "none" /\ r = "stale"
      BY <2>5 DEF ListStale, Stale
    <3>2. QED
      BY <1>2, <2>1, <2>2, <3>1 DEF Last, Rest, Halting, Calm
  <2>6. CASE ListOrphaned(r)
    <3>1. Read(r, "clear") /\ doc.upgrade.by # "none" /\ doc.status # "running" /\ r = "orphan"
      BY <2>6 DEF ListOrphaned
    <3>2. QED
      BY <1>2, <2>1, <2>2, <3>1 DEF Last, Rest, Halting, Calm
  <2>7. QED
    BY <1>7, <2>3, <2>4, <2>5, <2>6
<1>8. QED
  BY <1>1, <1>3, <1>4, <1>5, <1>6, <1>7 DEF Begin

\* What a request in flight does when it goes on or answers.
LEMMA GoActs ==
    ASSUME TypeOK, NEW r \in Request, UNCHANGED env, InFlight(r),
           r \notin Resumes \/ req[r].pc # "claim",
           NEW l, Go(r, l), l \notin Rest \cup Last \cup {"claim", "sawUp", "clear"},
           l \in Halting => req[r].pc \in Halting,
           r \in Resizes /\ l \notin Calm => doc.upgrade.by # "none" \/ req[r].pc \notin Calm,
           r \in Resumes => doc'.status = doc.status /\ l # "start",
           r = "upgrade" => req[r].pc # "record", req[r].pc \notin {"finish", "sawUp", "sawDown"}
    PROVE  Goes(r) /\ Enters(r)
PROOF
<1>1. /\ Others(r) /\ req'[r].pc = l /\ req'[r].doc = req[r].doc
      /\ req'[r].m = req[r].m
  BY GoEffect
<1>2. QED
  BY <1>1 DEF Goes, Enters, InFlight, Rest, Last

\* ...and when it answers.
LEMMA EndGoes ==
    ASSUME TypeOK, NEW r \in Request, UNCHANGED env, InFlight(r), End(r),
           r = "upgrade" => req[r].pc # "record"
    PROVE  Goes(r) /\ Enters(r)
PROOF
<1>1. Others(r) /\ req'[r].pc \in {"idle", "done"} /\ req'[r].m = 0
  BY EndEffect
<1>2. QED
  BY <1>1 DEF Goes, Enters, InFlight, Rest, Last, Calm, Halting

\* A request's step on the document.
LEMMA DocumentActs ==
    ASSUME TypeOK, Asked, NEW r \in Request, OnDocument(r)
    PROVE  Acts(r)
PROOF
<1>a. InFlight(r) /\ UNCHANGED <<env, machs>> /\ doc \in Document
  BY DEF OnDocument, ClaimStatus, PersistVolume, Finish, Failed, Repoint, Look, ReadAgain,
         Lock, LetGo, RecordMachine, Settle, ReadFresh, MarkSuspended, Swap, Remind,
         WriteStatus, FailStale, ClearUpgrade, At, InFlight, OnDoc, fly, TypeOK
<1>b. Handles(r)
  BY <1>a, StillMachines
<1>c. Acts(r) <=> Marks(r) /\ Grants(r) /\ Locking(r) /\ Naming(r) /\ Goes(r) /\ Enters(r)
  BY <1>b DEF Acts
<1>d. Spot(r)
  BY DEF Asked
<1> USE Kinds
<1> DEFINE Doc == Marks(r) /\ Grants(r) /\ Locking(r) /\ Naming(r)
<1>1. CASE ClaimStatus(r)
  <2>1. /\ req[r].pc = "claim" /\ r \in {"launch", "launch2"} \cup Resumes
        /\ r \notin Resizes \cup Sweeps
    BY <1>1, <1>d DEF ClaimStatus, At, Spot, SpotAt, Movers
  <2>2. CASE doc.status = req[r].doc.status
    <3>1. /\ doc'.status = "provisioning" /\ doc'.machine = doc.machine
          /\ doc'.upgrade = doc.upgrade /\ doc'.claim = doc.claim
      BY <1>a, <1>1, <2>2 DEF ClaimStatus, Document
    <3>2. PICK l \in {"volume", "update"} : Go(r, l) /\ (r \in Resumes => l = "update")
      <4>1. r \in Resumes => r \notin Launches
        BY DEF Resumes, Launches
      <4>2. Go(r, IF r \in Launches THEN "volume" ELSE "update")
        BY <1>1, <2>2 DEF ClaimStatus
      <4>3. QED
        BY <4>1, <4>2
    <3>3. /\ Others(r) /\ req'[r].pc = l /\ req'[r].m = req[r].m
          /\ req'[r].doc = req[r].doc
      BY <3>2, GoEffect
    <3>4. Doc
      BY <2>1, <2>2, <3>1 DEF Marks, Grants, Locking, Naming
    <3>5. Goes(r)
      <4>1. r \notin {"renew", "stale", "orphan", "refresh", "suspend", "upgrade"}
        BY <2>1 DEF Resizes, Reverts, Sweeps, Movers
      <4>2. QED
        BY <1>a, <2>1, <2>2, <3>1, <3>2, <3>3, <4>1 DEF Goes, Rest, Halting, Calm
    <3>6. Enters(r)
      BY <3>2, <3>3 DEF Enters, Last
    <3>7. QED
      BY <1>c, <3>4, <3>5, <3>6
  <2>3. CASE doc.status # req[r].doc.status
    <3>1. End(r) /\ doc' = doc
      BY <1>1, <2>3 DEF ClaimStatus
    <3>2. Doc
      BY <2>1, <3>1 DEF Marks, Grants, Locking, Naming
    <3>3. QED
      BY <1>a, <1>c, <2>1, <3>1, <3>2, EndGoes
  <2>4. QED
    BY <2>2, <2>3
<1>2. CASE PersistVolume(r) \/ Repoint(r)
  <2>1. /\ req[r].pc \in {"persist", "repoint"} /\ (Go(r, "machine") \/ Go(r, "failed"))
        /\ r \notin Resizes
    BY <1>2, <1>d DEF PersistVolume, Repoint, At, Spot, SpotAt
  <2>2. /\ doc'.status = doc.status /\ doc'.machine = doc.machine
        /\ doc'.upgrade = doc.upgrade /\ doc'.claim = doc.claim
    BY <1>a, <1>2 DEF PersistVolume, Repoint, Document
  <2>3. Doc
    BY <2>1, <2>2 DEF Marks, Grants, Locking, Naming
  <2>4. Goes(r) /\ Enters(r)
    BY <1>a, <2>1, <2>2, GoActs DEF Rest, Last, Halting, Resizes
  <2>5. QED
    BY <1>c, <2>3, <2>4
<1>3. CASE Finish(r)
  <2>1. req[r].pc = "finish" /\ End(r) /\ r \notin Resizes /\ r # "upgrade"
    BY <1>3, <1>d DEF Finish, At, Spot, SpotAt, Resizes
  <2>2. /\ doc'.status = "running" /\ doc'.upgrade = doc.upgrade /\ doc'.claim = doc.claim
        /\ doc'.machine = IF r \in Wakes /\ req[r].m = req[r].doc.machine THEN doc.machine
                          ELSE req[r].m
    BY <1>a, <1>3 DEF Finish, Document
  <2>3. Doc
    BY <2>1, <2>2 DEF Marks, Grants, Locking, Naming, Last
  <2>4. QED
    BY <1>a, <1>c, <2>1, <2>3, EndGoes
<1>4. CASE Failed(r)
  <2>1. req[r].pc = "failed" /\ End(r)
    BY <1>4 DEF Failed, At
  <2>2. /\ doc'.machine = doc.machine
        /\ r \in Wakes => doc' = doc
        /\ r \notin Wakes => doc'.status = "error"
        /\ r \in Resizes => doc'.claim = "none" /\ doc'.upgrade = NoUpgrade
        /\ r \notin Resizes => doc'.claim = doc.claim /\ doc'.upgrade = doc.upgrade
    <3>1. CASE r \in Wakes
      BY <1>4, <3>1 DEF Failed, Movers
    <3>2. CASE r \notin Wakes
      BY <1>a, <1>4, <3>2 DEF Failed, Document
    <3>3. QED
      BY <3>1, <3>2
  <2>3. Doc
    BY <2>1, <2>2 DEF Marks, Grants, Locking, Naming, NoUpgrade, Movers
  <2>4. QED
    BY <1>a, <1>c, <2>1, <2>3, EndGoes
<1>5. CASE Look(r) \/ ReadAgain(r)
  <2>1. /\ req[r].pc \in {"look", "again"} /\ r \in Resizes /\ doc' = doc
        /\ \/ Go(r, "again")
           \/ req[r].pc = "look" /\ Go(r, "halt")
           \/ doc.upgrade.by # "none" /\ Go(r, "lock")
           \/ End(r)
    BY <1>5, <1>d DEF Look, ReadAgain, At, Spot, SpotAt, Own
  <2>2. Doc
    BY <2>1 DEF Marks, Grants, Locking, Naming
  <2>3. r \notin Resumes
    BY <2>1 DEF Movers
  <2>4. Goes(r) /\ Enters(r)
    BY <1>a, <2>1, <2>3, GoActs, EndGoes DEF Rest, Last, Halting, Calm
  <2>5. QED
    BY <1>c, <2>2, <2>4
<1>6. CASE Lock(r)
  <2>1. req[r].pc = "lock" /\ r \in Resizes /\ r \notin Resumes
    BY <1>6, <1>d DEF Lock, At, Spot, SpotAt, Own, Movers
  <2>2. \/ doc' = doc /\ End(r)
        \/ /\ doc.status = "running" /\ doc.claim = "none"
           /\ doc' = [doc EXCEPT !.claim = r] /\ (End(r) \/ Read(r, "stop"))
    BY <1>6 DEF Lock
  <2>3. /\ doc'.machine = doc.machine /\ doc'.upgrade = doc.upgrade /\ doc'.status = doc.status
        /\ doc'.claim # doc.claim => doc.status = "running" /\ doc.claim = "none" /\ doc'.claim = r
    BY <1>a, <2>2 DEF Document
  <2>4. Doc
    BY <2>1, <2>3 DEF Marks, Grants, Locking, Naming
  <2>5. CASE End(r)
    BY <1>a, <1>c, <2>1, <2>4, <2>5, EndGoes
  <2>6. CASE Read(r, "stop")
    <3>1. Others(r) /\ req'[r].pc = "stop" /\ req'[r].m = doc.machine
      BY <2>6, ReadEffect
    <3>2. Goes(r) /\ Enters(r)
      BY <1>a, <2>1, <3>1 DEF Goes, Enters, Rest, Last, Calm, Halting
    <3>3. QED
      BY <1>c, <2>4, <3>2
  <2>7. QED
    BY <2>2, <2>5, <2>6
<1>7. CASE LetGo(r) \/ Settle(r)
  <2>1. /\ req[r].pc \in {"letGo", "settle"} /\ r \in Resizes /\ r \notin Resumes
        /\ End(r) \/ (r = "suspend" /\ Go(r, "fresh"))
    BY <1>7, <1>d DEF LetGo, Settle, At, Spot, SpotAt, Own, Movers
  <2>2. /\ doc'.status = doc.status /\ doc'.claim = "none"
        /\ req[r].pc = "letGo" => doc'.machine = doc.machine /\ doc'.upgrade = doc.upgrade
        /\ req[r].pc = "settle" =>
             /\ doc'.machine = req[r].m
             /\ doc'.upgrade.by = IF r = "upgrade" THEN r ELSE "none"
    <3>1. CASE LetGo(r)
      BY <1>a, <3>1 DEF LetGo, At, Document
    <3>2. CASE Settle(r)
      BY <1>a, <3>2 DEF Settle, At, Document, NoUpgrade
    <3>3. QED
      BY <1>7, <3>1, <3>2
  <2>3. Doc
    BY <2>1, <2>2 DEF Marks, Grants, Locking, Naming, Last, Movers
  <2>4. Goes(r) /\ Enters(r)
    <3>1. CASE End(r)
      BY <1>a, <2>1, <3>1, EndGoes
    <3>2. CASE Go(r, "fresh") /\ r = "suspend"
      <4>1. Others(r) /\ req'[r].pc = "fresh" /\ req'[r].doc = req[r].doc /\ req'[r].m = req[r].m
        BY <3>2, GoEffect
      <4>2. QED
        BY <1>a, <2>1, <3>2, <4>1 DEF Goes, Enters, Rest, Last, Calm, Halting
    <3>3. QED
      BY <2>1, <3>1, <3>2
  <2>5. QED
    BY <1>c, <2>3, <2>4
<1>8. CASE RecordMachine(r)
  <2>1. /\ req[r].pc = "record" /\ r \in Resizes /\ r \notin Resumes /\ Go(r, "settle")
    BY <1>8, <1>d DEF RecordMachine, At, Spot, SpotAt, Own, Movers
  <2>2. /\ doc'.status = doc.status /\ doc'.claim = doc.claim /\ doc'.machine = req[r].m
        /\ doc'.upgrade = doc.upgrade
    BY <1>a, <1>8 DEF RecordMachine, Document
  <2>3. Doc
    BY <2>1, <2>2 DEF Marks, Grants, Locking, Naming, Last, Movers
  <2>4. Others(r) /\ req'[r].pc = "settle" /\ req'[r].doc = req[r].doc /\ req'[r].m = req[r].m
    BY <2>1, GoEffect
  <2>5. Goes(r)
    BY <1>a, <2>1, <2>4 DEF Goes, Rest, Last, Calm, Halting
  <2>6. Enters(r)
    BY <1>a, <2>1, <2>4 DEF Enters
  <2>7. QED
    BY <1>c, <2>3, <2>5, <2>6
<1>9. CASE ReadFresh(r)
  <2>1. /\ req[r].pc = "fresh" /\ r \in Resizes /\ r \notin Resumes /\ doc' = doc
        /\ WithMachine(r, doc.machine, "halt")
    BY <1>9, <1>d DEF ReadFresh, At, Spot, SpotAt, Own, Movers
  <2>2. Doc
    BY <2>1 DEF Marks, Grants, Locking, Naming
  <2>3. /\ Others(r) /\ req'[r].pc = "halt" /\ req'[r].m = doc.machine
        /\ req'[r].doc = req[r].doc
    BY <2>1, WithMachineEffect
  <2>4. Goes(r) /\ Enters(r)
    BY <1>a, <2>1, <2>3 DEF Goes, Enters, Rest, Last, Calm, Halting
  <2>5. QED
    BY <1>c, <2>2, <2>4
<1>10. CASE MarkSuspended(r) \/ WriteStatus(r) \/ FailStale(r) \/ ClearUpgrade(r)
  <2>1. /\ req[r].pc \in {"mark", "sawUp", "sawDown", "failStale", "clear"} /\ End(r)
        /\ doc'.machine = doc.machine
    <3>1. CASE MarkSuspended(r)
      BY <1>a, <3>1 DEF MarkSuspended, At, Document
    <3>2. CASE WriteStatus(r)
      BY <1>a, <3>2 DEF WriteStatus, At, Document
    <3>3. CASE FailStale(r)
      <4>1. CASE doc.claim = req[r].doc.claim
        BY <1>a, <3>3, <4>1 DEF FailStale, At, Document
      <4>2. CASE doc.claim # req[r].doc.claim
        BY <3>3, <4>2 DEF FailStale, At
      <4>3. QED
        BY <4>1, <4>2
    <3>4. CASE ClearUpgrade(r)
      BY <1>a, <3>4 DEF ClearUpgrade, At, Document
    <3>5. QED
      BY <1>10, <3>1, <3>2, <3>3, <3>4
  <2>2. Doc
    <3>1. CASE MarkSuspended(r)
      <4>1. /\ req[r].pc = "mark" /\ doc'.status = "suspended"
            /\ doc'.upgrade = doc.upgrade /\ doc'.claim = doc.claim
        BY <1>a, <3>1 DEF MarkSuspended, At, Document
      <4>2. QED
        BY <2>1, <4>1 DEF Marks, Grants, Locking, Naming
    <3>2. CASE WriteStatus(r)
      <4>1. /\ req[r].pc \in {"sawUp", "sawDown"} /\ doc'.upgrade = doc.upgrade
            /\ doc'.status = (IF req[r].pc = "sawUp" THEN "running" ELSE "suspended")
            /\ doc'.claim = doc.claim
        BY <1>a, <3>2, <1>d DEF WriteStatus, At, Document, Spot, SpotAt
      <4>2. QED
        BY <2>1, <4>1 DEF Marks, Grants, Locking, Naming
    <3>3. CASE FailStale(r)
      <4>1. /\ req[r].pc = "failStale"
            /\ \/ doc' = doc
               \/ /\ doc.claim = req[r].doc.claim /\ doc'.status = "error"
                  /\ doc'.claim = "none" /\ doc'.upgrade.by = "none"
        BY <1>a, <3>3 DEF FailStale, At, Document, NoUpgrade
      <4>2. QED
        BY <2>1, <4>1 DEF Marks, Grants, Locking, Naming
    <3>4. CASE ClearUpgrade(r)
      <4>1. /\ req[r].pc = "clear" /\ doc'.status = doc.status
            /\ doc'.upgrade.by = "none" /\ doc'.claim = doc.claim
        BY <1>a, <3>4 DEF ClearUpgrade, At, Document, NoUpgrade
      <4>2. QED
        BY <2>1, <4>1 DEF Marks, Grants, Locking, Naming
    <3>5. QED
      BY <1>10, <3>1, <3>2, <3>3, <3>4
  <2>3. QED
    BY <1>a, <1>c, <2>1, <2>2, EndGoes
<1>11. CASE Swap(r) \/ Remind(r)
  <2>1. /\ req[r].pc \in {"swap", "remind"} /\ r = "renew"
        /\ Go(r, "remind") \/ End(r)
    BY <1>11, <1>d DEF Swap, Remind, At, Spot, SpotAt
  <2>2. /\ doc'.machine = doc.machine /\ doc'.status = doc.status /\ doc'.claim = doc.claim
        /\ doc'.upgrade.by = doc.upgrade.by \/ doc'.upgrade.by # "none"
    <3>1. doc.upgrade \in Upgrade
      BY <1>a DEF Document
    <3>2. CASE Swap(r)
      BY <1>a, <3>2 DEF Swap, Document
    <3>3. CASE Remind(r)
      BY <1>a, <3>1, <3>3 DEF Remind, Document, Upgrade
    <3>4. QED
      BY <1>11, <3>2, <3>3
  <2>3. Doc
    BY <2>1, <2>2 DEF Marks, Grants, Locking, Naming
  <2>4. r \notin Resizes \cup Resumes
    BY <2>1 DEF Resizes, Reverts, Resumes
  <2>5. Goes(r) /\ Enters(r)
    BY <1>a, <2>1, <2>4, GoActs, EndGoes DEF Rest, Last, Halting
  <2>6. QED
    BY <1>c, <2>3, <2>5
<1>12. QED
  BY <1>1, <1>2, <1>3, <1>4, <1>5, <1>6, <1>7, <1>8, <1>9, <1>10, <1>11 DEF OnDocument

\* A machine's state is set by a call: none is added, none grows.
LEMMA TurnHandles ==
    ASSUME TypeOK, NEW r \in Request, NEW m, NEW s \in {"up", "down", "gone"},
           Exists(m), Turn(m, s),
           s = "up" => req[r].pc = "start" /\ m = req[r].m,
           s = "gone" => req[r].pc \in {"delete", "remove"} /\ m = req[r].m
    PROVE  Handles(r) /\ (s # "gone" => Stands(m))
PROOF
<1>1. machs \in Seq(Machine) /\ m \in DOMAIN machs
  BY DEF TypeOK, Exists
<1>2. machs' = [machs EXCEPT ![m].state = s]
  BY DEF Turn
<1>3. Len(machs') = Len(machs) /\ DOMAIN machs' = DOMAIN machs /\ Len(machs) \in Nat
  BY <1>1, <1>2
<1>4. /\ \A n \in DOMAIN machs : n # m => machs'[n] = machs[n]
      /\ machs'[m].state = s /\ machs'[m].big = machs[m].big
  <2>1. \A n \in DOMAIN machs : machs[n] \in Machine
    BY <1>1
  <2>2. QED
    BY <1>1, <1>2, <2>1 DEF Machine
<1>5. ASSUME NEW n \in DOMAIN machs
      PROVE  /\ Up(n)' => Up(n) \/ (req[r].pc = "start" /\ n = req[r].m)
             /\ Exists(n) => Exists(n)' \/ (req[r].pc \in {"delete", "remove"} /\ n = req[r].m)
             /\ machs'[n].big => machs[n].big
  <2>1. CASE n = m
    BY <1>3, <1>4, <2>1 DEF Up, Exists
  <2>2. CASE n # m
    BY <1>3, <1>4, <2>2 DEF Up, Exists
  <2>3. QED
    BY <2>1, <2>2
<1>6. QED
  BY <1>1, <1>3, <1>4, <1>5 DEF Handles, Stands

\* A call on the request's own machine is made, or fails.
LEMMA AskActs ==
    ASSUME TypeOK, NEW r \in Request, NEW s \in {"up", "down", "gone"}, NEW yes, NEW no,
           Ask(r, req[r].m, s, yes, no), s = "up" => req[r].pc = "start",
           s = "gone" => req[r].pc \in {"delete", "remove"}
    PROVE  /\ Handles(r) /\ (Go(r, yes) \/ Go(r, no))
           /\ yes # no /\ s # "gone" /\ req'[r].pc = yes => Stands(req[r].m)
PROOF
<1>1. CASE Exists(req[r].m) /\ Turn(req[r].m, s) /\ (Go(r, yes) \/ Go(r, no))
  BY <1>1, TurnHandles, GoEffect
<1>2. CASE Go(r, no) /\ UNCHANGED fly
  BY <1>2, StillMachines, GoEffect DEF fly
<1>3. QED
  BY <1>1, <1>2 DEF Ask

\* A request's call to Fly.
LEMMA FlyActs ==
    ASSUME TypeOK, Asked, NEW r \in Request, AskFly(r)
    PROVE  Acts(r)
PROOF
<1>a. InFlight(r) /\ UNCHANGED <<env, doc>> /\ machs \in Seq(Machine)
  BY DEF AskFly, CreateVolume, CreateMachine, UpdateMachine, StartMachine, DeleteMachine,
         ForkVolume, WakeState, WakeExists, StopOld, DeleteOld, Halt, RefreshState, At, InFlight,
         OnFly, TypeOK
<1>d. Spot(r)
  BY DEF Asked
<1> USE Kinds
<1>b. req[r].pc \notin {"finish", "settle", "failed"}
  BY DEF AskFly, CreateVolume, CreateMachine, UpdateMachine, StartMachine, DeleteMachine,
         ForkVolume, WakeState, WakeExists, StopOld, DeleteOld, Halt, RefreshState, At
<1>c. Acts(r) <=> Handles(r) /\ Goes(r) /\ Enters(r)
  BY <1>a, <1>b DEF Acts, Marks, Grants, Locking, Naming
<1>1. CASE CreateVolume(r)
  <2>1. /\ req[r].pc = "volume" /\ r \in Firsts /\ machs' = machs
        /\ \/ Go(r, "failed")
           \/ \E v, l : WithVolume(r, v, l) /\ l \in {"persist", "machine"}
    BY <1>1, <1>d DEF CreateVolume, At, Spot, SpotAt
  <2>2. r \notin Resumes \cup Resizes /\ r # "upgrade"
    BY <2>1 DEF Movers, Resizes
  <2>3. Others(r) /\ req'[r].pc \in {"failed", "persist", "machine"} /\ req'[r].m = req[r].m
        /\ req'[r].doc = req[r].doc
    BY <2>1, GoEffect, WithVolumeEffect
  <2>4. Goes(r) /\ Enters(r)
    BY <1>a, <2>1, <2>2, <2>3 DEF Goes, Enters, Rest, Last, Calm, Halting
  <2>5. QED
    BY <1>c, <2>1, <2>4, StillMachines
<1>2. CASE CreateMachine(r)
  <2>1. req[r].pc = "machine"
    BY <1>2 DEF CreateMachine, At
  <2>2. ASSUME NEW l \in {"failed", "fork"}, Go(r, l), machs' = machs PROVE Acts(r)
    <3>1. Goes(r) /\ Enters(r)
      BY <1>a, <2>1, <2>2, GoActs DEF Rest, Last, Calm, Halting
    <3>2. QED
      BY <1>c, <2>2, <3>1, StillMachines
  <2>3. ASSUME ~Attached(req[r].v), fresh' = {req[r].v},
               machs' = Append(machs, [state |-> "up", big |-> r = "upgrade",
                                       volume |-> req[r].v]),
               \/ /\ WithMachine(r, Len(machs'), "finish") /\ r \notin Resizes
               \/ /\ WithMachine(r, Len(machs'), "record") /\ r \in Resizes
               \/ Go(r, "failed")
        PROVE  Acts(r)
    <3> DEFINE x == r = "upgrade"
               new == Len(machs) + 1
    <3>1. /\ DOMAIN machs' = DOMAIN machs \cup {new} /\ Len(machs') = new
          /\ \A m \in DOMAIN machs : machs'[m] = machs[m]
          /\ machs'[new] = [state |-> "up", big |-> x, volume |-> req[r].v]
          /\ Len(machs) \in Nat
      <4>1. req[r].v \in Nat
        BY DEF TypeOK
      <4>2. x \in BOOLEAN
        OBVIOUS
      <4> HIDE DEF x
      <4>3. /\ DOMAIN machs' = DOMAIN machs \cup {Len(machs) + 1}
            /\ Len(machs') = Len(machs) + 1
            /\ \A m \in DOMAIN machs : machs'[m] = machs[m]
            /\ machs'[Len(machs')] = [state |-> "up", big |-> x, volume |-> req[r].v]
        BY <2>3, <4>1, <4>2, CreateOn DEF x
      <4>4. QED
        BY <1>a, <4>3
    <3>2. Handles(r)
      <4>1. ASSUME NEW m \in DOMAIN machs
            PROVE  /\ m \in DOMAIN machs' /\ Up(m)' => Up(m)
                   /\ Exists(m) => Exists(m)'
                   /\ machs'[m].big => machs[m].big
        BY <3>1 DEF Up, Exists
      <4>2. \A m \in DOMAIN machs' \ DOMAIN machs : m = new
        BY <3>1
      <4>3. machs'[new].big => r = "upgrade"
        <5> HIDE DEF x
        <5>1. machs'[new].big = x
          BY <3>1
        <5>2. machs'[new].big => x
          BY <5>1, Zenon
        <5>3. QED
          BY <5>2, Zenon DEF x
      <4>4. Len(machs) <= Len(machs')
        BY <3>1
      <4> HIDE DEF new
      <4>5. QED
        BY <2>1, <4>1, <4>2, <4>3, <4>4 DEF Handles, new
    <3>3. Stands(new)
      BY <3>1 DEF Stands
    <3>4. /\ Others(r) /\ req'[r].doc = req[r].doc
          /\ \/ req'[r].pc = "failed" /\ req'[r].m = req[r].m
             \/ req'[r].pc \in {"finish", "record"} /\ req'[r].m = new
      BY <2>3, <3>1, GoEffect, WithMachineEffect
    <3>5. Goes(r)
      BY <1>a, <2>1, <3>4 DEF Goes, Rest, Last, Calm, Halting
    <3>6. Enters(r)
      BY <2>1, <3>3, <3>4 DEF Enters, Last
    <3>7. QED
      BY <1>c, <3>2, <3>5, <3>6
  <2>4. \/ Go(r, "failed") /\ machs' = machs
        \/ Go(r, "fork") /\ machs' = machs
        \/ /\ ~Attached(req[r].v) /\ fresh' = {req[r].v}
           /\ machs' = Append(machs, [state |-> "up", big |-> r = "upgrade",
                                       volume |-> req[r].v])
           /\ \/ /\ WithMachine(r, Len(machs'), "finish") /\ r \notin Resizes
              \/ /\ WithMachine(r, Len(machs'), "record") /\ r \in Resizes
              \/ Go(r, "failed")
    BY <1>2 DEF CreateMachine
  <2>5. QED
    BY <2>2, <2>3, <2>4
<1>3. CASE UpdateMachine(r)
  <2>1. req[r].pc = "update" /\ r \in Resumes /\ r \notin Resizes /\ r # "upgrade"
    BY <1>3, <1>d DEF UpdateMachine, At, Spot, SpotAt, Movers, Resizes
  <2> DEFINE m == req[r].m
             down == [state |-> "down", big |-> FALSE, volume |-> req[r].v]
  <2>2. \/ Exists(m) /\ machs' = [machs EXCEPT ![m] = down] /\ (Go(r, "start") \/ Go(r, "delete"))
        \/ machs' = machs /\ (Go(r, "delete") \/ Go(r, "machine"))
    BY <1>3 DEF UpdateMachine
  <2>3. ASSUME Exists(m), machs' = [machs EXCEPT ![m] = down]
        PROVE  Handles(r) /\ m \in DOMAIN machs' /\ ~machs'[m].big
    <3>1. /\ m \in DOMAIN machs /\ DOMAIN machs' = DOMAIN machs /\ Len(machs') = Len(machs)
          /\ machs'[m].state = "down" /\ ~machs'[m].big /\ Len(machs) \in Nat
          /\ \A n \in DOMAIN machs : n # m => machs'[n] = machs[n]
      BY <1>a, <2>3 DEF Exists
    <3> HIDE DEF m, down
    <3>2. ASSUME NEW n \in DOMAIN machs
          PROVE  /\ Up(n)' => Up(n)
                 /\ Exists(n) => Exists(n)'
                 /\ machs'[n].big => machs[n].big
      <4>1. CASE n = m
        BY <3>1, <4>1 DEF Up, Exists
      <4>2. CASE n # m
        BY <3>1, <4>2 DEF Up, Exists
      <4>3. QED
        BY <4>1, <4>2
    <3>3. QED
      BY <3>1, <3>2 DEF Handles
  <2>4. Handles(r)
    BY <2>2, <2>3, StillMachines
  <2>5. /\ Others(r) /\ req'[r].pc \in {"start", "delete", "machine"} /\ req'[r].m = m
        /\ req'[r].doc = req[r].doc
        /\ req'[r].pc = "start" => m \in DOMAIN machs' /\ ~machs'[m].big
    BY <2>2, <2>3, GoEffect
  <2>6. Goes(r)
    BY <1>a, <2>1, <2>5 DEF Goes, Rest, Last, Calm, Halting
  <2>7. Enters(r)
    BY <2>1, <2>5 DEF Enters, Last
  <2>8. QED
    BY <1>c, <2>4, <2>6, <2>7
<1>4. CASE StartMachine(r)
  <2>1. req[r].pc = "start" /\ r \in Movers /\ r \notin Resizes
    BY <1>4, <1>d DEF StartMachine, At, Spot, SpotAt
  <2>2. \/ Ask(r, req[r].m, "up", "finish", "delete")
        \/ Ask(r, req[r].m, "up", "finish", "failed")
        \/ (Go(r, "delete") \/ Go(r, "failed")) /\ UNCHANGED fly
    BY <1>4 DEF StartMachine
  <2>3. /\ Handles(r) /\ (Go(r, "finish") \/ Go(r, "delete") \/ Go(r, "failed"))
        /\ req'[r].pc = "finish" => Stands(req[r].m)
    <3>1. CASE Ask(r, req[r].m, "up", "finish", "delete")
      BY <2>1, <3>1, AskActs
    <3>2. CASE Ask(r, req[r].m, "up", "finish", "failed")
      BY <2>1, <3>2, AskActs
    <3>3. CASE (Go(r, "delete") \/ Go(r, "failed")) /\ UNCHANGED fly
      BY <3>3, StillMachines, GoEffect DEF fly
    <3>4. QED
      BY <2>2, <3>1, <3>2, <3>3
  <2>4. /\ Others(r) /\ req'[r].pc \in {"finish", "delete", "failed"}
        /\ req'[r].m = req[r].m /\ req'[r].doc = req[r].doc
    BY <2>3, GoEffect
  <2>5. Goes(r)
    BY <1>a, <2>1, <2>4 DEF Goes, Rest, Last, Calm, Halting, Movers, Resizes
  <2>6. Enters(r)
    BY <2>1, <2>3, <2>4 DEF Enters, Last
  <2>7. QED
    BY <1>c, <2>3, <2>5, <2>6
<1>5. CASE DeleteMachine(r) \/ StopOld(r) \/ DeleteOld(r)
  <2>1. /\ req[r].pc \in {"delete", "stop", "remove"}
        /\ Handles(r)
        /\ Go(r, "machine") \/ Go(r, "remove") \/ Go(r, "letGo") \/ Go(r, "failed")
    <3>1. CASE DeleteMachine(r)
      BY <3>1, AskActs DEF DeleteMachine, At
    <3>2. CASE StopOld(r)
      BY <3>2, AskActs DEF StopOld, At
    <3>3. CASE DeleteOld(r)
      BY <3>3, AskActs DEF DeleteOld, At
    <3>4. QED
      BY <1>5, <3>1, <3>2, <3>3
  <2>2. Goes(r) /\ Enters(r)
    BY <1>a, <2>1, GoActs DEF Rest, Last, Calm, Halting
  <2>3. QED
    BY <1>c, <2>1, <2>2
<1>6. CASE ForkVolume(r)
  <2>1. /\ req[r].pc = "fork" /\ machs' = machs
        /\ \/ Go(r, "failed")
           \/ \E v : WithVolume(r, v, "repoint")
    BY <1>6 DEF ForkVolume, At
  <2>2. Others(r) /\ req'[r].pc \in {"failed", "repoint"} /\ req'[r].m = req[r].m
        /\ req'[r].doc = req[r].doc
    BY <2>1, GoEffect, WithVolumeEffect
  <2>3. Goes(r) /\ Enters(r)
    BY <1>a, <2>1, <2>2 DEF Goes, Enters, Rest, Last, Calm, Halting
  <2>4. QED
    BY <1>c, <2>1, <2>3, StillMachines
<1>7. CASE WakeState(r) \/ WakeExists(r)
  <2>1. /\ req[r].pc \in {"state", "exists"} /\ r \in Wakes /\ r \notin Resumes \cup Resizes
        /\ machs' = machs
        /\ Go(r, "exists") \/ Go(r, "start") \/ Go(r, "machine") \/ Go(r, "failed") \/ End(r)
    BY <1>7, <1>d DEF WakeState, WakeExists, At, Spot, SpotAt, fly, Movers
  <2>2. Goes(r) /\ Enters(r)
    BY <1>a, <2>1, GoActs, EndGoes DEF Rest, Last, Calm, Halting
  <2>3. QED
    BY <1>c, <2>1, <2>2, StillMachines
<1>8. CASE Halt(r)
  <2>1. /\ req[r].pc = "halt" /\ r \in Resizes /\ r \notin Resumes
        /\ Go(r, "mark") \/ End(r)
    BY <1>8, <1>d DEF Halt, At, Spot, SpotAt, Own, Movers
  <2>2. Handles(r)
    <3>1. CASE Exists(req[r].m) /\ Turn(req[r].m, "down")
      BY <3>1, TurnHandles
    <3>2. CASE UNCHANGED fly
      BY <3>2, StillMachines DEF fly
    <3>3. QED
      BY <1>8, <3>1, <3>2 DEF Halt
  <2>3. Goes(r) /\ Enters(r)
    BY <1>a, <2>1, GoActs, EndGoes DEF Rest, Last, Calm, Halting
  <2>4. QED
    BY <1>c, <2>2, <2>3
<1>9. CASE RefreshState(r)
  <2>1. /\ req[r].pc = "state" /\ r = "refresh" /\ machs' = machs
        /\ \/ req[r].doc.status # "running" /\ Go(r, "sawUp")
           \/ Go(r, "sawDown")
           \/ End(r)
    BY <1>9 DEF RefreshState, At, fly
  <2>2. r \notin Resumes \cup Resizes
    BY <2>1 DEF Resumes, Resizes, Reverts
  <2>3. Goes(r) /\ Enters(r)
    <3>1. CASE End(r)
      BY <1>a, <2>1, <3>1, EndGoes
    <3>2. CASE Go(r, "sawDown") \/ (req[r].doc.status # "running" /\ Go(r, "sawUp"))
      <4>1. /\ Others(r) /\ req'[r].m = req[r].m /\ req'[r].doc = req[r].doc
            /\ \/ req'[r].pc = "sawDown"
               \/ req'[r].pc = "sawUp" /\ req[r].doc.status # "running"
        BY <3>2, GoEffect
      <4>2. QED
        BY <1>a, <2>1, <2>2, <4>1 DEF Goes, Enters, Rest, Last, Calm, Halting
    <3>3. QED
      BY <2>1, <3>1, <3>2
  <2>4. QED
    BY <1>c, <2>1, <2>3, StillMachines
<1>10. QED
  BY <1>1, <1>2, <1>3, <1>4, <1>5, <1>6, <1>7, <1>8, <1>9 DEF AskFly

\* What any step of a request does.
LEMMA StepActs ==
    ASSUME TypeOK, Asked, NEW r \in Request, Begin(r) \/ OnDocument(r) \/ AskFly(r)
    PROVE  Acts(r)
PROOF
  BY BeginActs, DocumentActs, FlyActs

-----------------------------------------------------------------------------
(* What the environment does, and what no step breaks.                       *)

\* The environment starts nothing; requests end.
Ebbs ==
  /\ env' = env /\ doc'.status = doc.status /\ doc'.machine = doc.machine
  /\ doc'.claim = doc.claim /\ doc'.upgrade.by = doc.upgrade.by
  /\ Len(machs') = Len(machs) /\ DOMAIN machs' = DOMAIN machs
  /\ \A m \in DOMAIN machs :
       /\ Up(m)' => Up(m)
       /\ Exists(m) => Exists(m)' \/ "gone" \in env
       /\ machs'[m].big = machs[m].big
  /\ \A r \in Request :
       \/ req'[r] = req[r]
       \/ InFlight(r) /\ req'[r].m = 0 /\ req'[r].pc = IF r \in Sweeps THEN "idle" ELSE "done"

\* So do a machine that ends, a window that ends, a death, a stutter.
LEMMA EnvironmentEbbs ==
    ASSUME TypeOK, MachineEnds \/ WindowEnds \/ Die \/ UNCHANGED vars
    PROVE  Ebbs
PROOF
<1>a. machs \in Seq(Machine) /\ doc \in Document /\ \A m \in DOMAIN machs : machs[m] \in Machine
  BY DEF TypeOK
<1>1. CASE MachineEnds
  <2>1. PICK m \in DOMAIN machs, s \in {"up", "down", "gone"} :
          s # "up" /\ Exists(m) /\ Turn(m, s) /\ (s = "gone" => "gone" \in env)
    BY <1>1 DEF MachineEnds, Up, Exists
  <2>2. UNCHANGED <<env, doc, req>>
    BY <1>1 DEF MachineEnds
  <2>3. machs' = [machs EXCEPT ![m].state = s]
    BY <2>1 DEF Turn
  <2>4. /\ DOMAIN machs' = DOMAIN machs /\ Len(machs') = Len(machs)
        /\ \A n \in DOMAIN machs : n # m => machs'[n] = machs[n]
        /\ machs'[m].state = s /\ machs'[m].big = machs[m].big
    BY <1>a, <2>1, <2>3 DEF Machine
  <2>5. ASSUME NEW n \in DOMAIN machs
        PROVE  /\ Up(n)' => Up(n)
               /\ Exists(n) => Exists(n)' \/ "gone" \in env
               /\ machs'[n].big = machs[n].big
    <3>1. CASE n = m
      BY <2>1, <2>4, <3>1 DEF Up, Exists
    <3>2. CASE n # m
      BY <2>4, <3>2 DEF Up, Exists
    <3>3. QED
      BY <3>1, <3>2
  <2>6. QED
    BY <2>2, <2>4, <2>5 DEF Ebbs
<1>2. CASE WindowEnds
  <2>1. UNCHANGED <<env, machs, req>>
    BY <1>2 DEF WindowEnds, fly
  <2>2. /\ doc'.status = doc.status /\ doc'.machine = doc.machine
        /\ doc'.claim = doc.claim /\ doc'.upgrade.by = doc.upgrade.by
    BY <1>a, <1>2 DEF WindowEnds, Document, Upgrade
  <2>3. QED
    BY <2>1, <2>2 DEF Ebbs, Up, Exists
<1>3. CASE Die
  <2>1. UNCHANGED <<env, doc, machs>>
    BY <1>3 DEF Die, fly
  <2>2. Idle.pc = "idle" /\ Done.pc = "done" /\ Idle.m = 0 /\ Done.m = 0
    BY DEF Idle, Done
  <2>3. \A r \in Request :
          \/ req'[r] = req[r]
          \/ InFlight(r) /\ req'[r].m = 0 /\ req'[r].pc = IF r \in Sweeps THEN "idle" ELSE "done"
    BY <1>3, <2>2 DEF Die
  <2>4. QED
    BY <2>1, <2>3 DEF Ebbs, Up, Exists
<1>4. CASE UNCHANGED vars
  BY <1>4 DEF vars, fly, Ebbs, Up, Exists
<1>5. QED
  BY <1>1, <1>2, <1>3, <1>4

\* The parts that hold of every environment.
LEMMA NumberedStep ==
    ASSUME TypeOK, TypeOK', Numbered, NEW r \in Request, Acts(r)
    PROVE  Numbered'
PROOF
<1>1. /\ Len(machs) \in Nat /\ Len(machs') \in Nat /\ doc.machine \in Nat
      /\ \A s \in Request : req[s].m \in Nat /\ req'[s].m \in Nat
      /\ DOMAIN machs' = 1 .. Len(machs')
  BY DEF TypeOK, Document
<1>2. Len(machs) <= Len(machs')
  BY DEF Acts, Handles
<1>3. doc'.machine \in {doc.machine, req[r].m}
  BY DEF Acts, Naming
<1>4. req'[r].m <= Len(machs')
  <2>1. CASE req'[r].m \in {0, req[r].m, doc.machine}
    BY <1>1, <1>2, <2>1 DEF Numbered
  <2>2. CASE req[r].pc = "machine" /\ req'[r].pc \in Last
    <3>1. Stands(req'[r].m)
      BY <2>2 DEF Acts, Enters
    <3>2. QED
      BY <1>1, <3>1 DEF Stands
  <2>3. QED
    BY <2>1, <2>2 DEF Acts, Goes
<1>5. \A s \in Request : s # r => req'[s] = req[s]
  BY DEF Acts, Goes, Others
<1>6. QED
  BY <1>1, <1>2, <1>3, <1>4, <1>5 DEF Numbered

\* Only a suspend halts.
LEMMA HaltsStep ==
    ASSUME Halts, NEW r \in Request, Acts(r)
    PROVE  Halts'
PROOF
<1>1. /\ \A s \in Request : s # r => req'[s] = req[s]
      /\ req'[r].pc \in Halting => r = "suspend" \/ req[r].pc \in Halting
  BY DEF Acts, Goes, Others
<1>2. QED
  BY <1>1 DEF Halts, Halting

\* Nothing is upgraded, resized or recovered that was not upgraded before.
LEMMA FlatStep ==
    ASSUME Asked, Flat, NEW r \in Request, Acts(r)
    PROVE  Flat'
PROOF
<1>1. SUFFICES ASSUME ~Resizable PROVE
        /\ doc'.upgrade.by = "none" /\ doc'.claim = "none"
        /\ \A s \in Resizes : req'[s].pc \in Calm
        /\ \A s \in {"renew", "stale", "orphan"} : ~InFlight(s)'
  BY DEF Flat, Acts, Goes, Resizable
<1>2. /\ doc.upgrade.by = "none" /\ doc.claim = "none"
      /\ \A s \in Resizes : req[s].pc \in Calm
      /\ \A s \in {"renew", "stale", "orphan"} : ~InFlight(s)
  BY <1>1 DEF Flat
<1>3. Spot(r) /\ {"lock", "settle"} \cap Calm = {} /\ "upgrade" \in Resizes
  BY DEF Asked, Calm, Rest, Resizes
<1>4. doc'.claim = "none"
  BY <1>2, <1>3 DEF Acts, Locking
<1>5. doc'.upgrade.by = "none"
  BY <1>2, <1>3 DEF Acts, Grants, Spot, SpotAt, InFlight
<1>6. \A s \in Resizes : req'[s].pc \in Calm
  <2>1. r \in Resizes => req'[r].pc \in Calm
    BY <1>1, <1>2 DEF Acts, Goes, Resizable
  <2>2. \A s \in Resizes : s \in Request
    BY DEF Resizes, Reverts, Request
  <2>3. QED
    BY <1>2, <2>1, <2>2 DEF Acts, Goes, Others
<1>7. \A s \in {"renew", "stale", "orphan"} : ~InFlight(s)'
  <2>1. r \in {"renew", "stale", "orphan"} => ~InFlight(r)'
    BY <1>2 DEF Acts, Goes, InFlight
  <2>2. \A s \in {"renew", "stale", "orphan"} : s \in Request
    BY DEF Sweeps, Request
  <2>3. QED
    BY <1>2, <2>1, <2>2 DEF Acts, Goes, Others, InFlight
<1>8. QED
  BY <1>4, <1>5, <1>6, <1>7

\* Without an upgrade nothing is resized.
LEMMA FlatRests ==
    ASSUME Flat, ~Resizable
    PROVE  \A r \in Request : ~Resizing(r)
PROOF
<1>1. Calm \cap Working = {}
  BY DEF Calm, Rest, Working
<1>2. QED
  BY <1>1 DEF Flat, Resizing

\* Where no resume, wake or page view is, a mission that has stopped running stays so.
LEMMA StaysDown ==
    ASSUME Begun, Known, NEW r \in Request, Acts(r), doc.status # "running",
           req[r].pc = "finish" => r \notin Movers, req[r].pc # "sawUp"
    PROVE  doc'.status # "running"
PROOF
<1>1. Spot(r) /\ doc.status \notin {"absent", "draft"} /\ \A s \in Firsts : ~Launching(s)
  BY KnownFacts DEF Begun, Asked
<1>2. req[r].pc # "finish"
  BY <1>1 DEF Spot, SpotAt, Launching
<1>3. QED
  BY <1>2 DEF Acts, Marks

\* A claim is lost to the sweeper with the mission no longer running.
LEMMA LateStep ==
    ASSUME IInv, Begun, Flat', Late, NEW r \in Request, Acts(r), Moves(r)
    PROVE  Late'
PROOF
<1>1. SUFFICES ASSUME Apart, "slow" \in env, Resizable, NEW s \in Request, Resizing(s)'
      PROVE  /\ doc'.claim = s \/ doc'.status # "running"
             /\ \A t \in Request : Resizing(t)' => t = s
  <2>1. env' = env
    BY DEF Moves
  <2>2. (Apart' <=> Apart) /\ (Resizable' <=> Resizable)
    BY <2>1 DEF Apart, Many, Resizable
  <2>3. ~Resizable => \A t \in Request : ~Resizing(t)'
    <3>1. Calm \cap Working = {}
      BY DEF Calm, Rest, Working
    <3>2. QED
      BY <2>2, <3>1 DEF Flat, Resizing
  <2>4. QED
    BY <1>1, <2>1, <2>2, <2>3 DEF Late
<1>2. \A t \in Request : Resizing(t) =>
        /\ doc.claim = t \/ doc.status # "running"
        /\ \A u \in Request : Resizing(u) => u = t
  BY <1>1 DEF Late
<1>3. \A t \in Request : t # r => req'[t] = req[t] /\ (Resizing(t)' <=> Resizing(t))
  BY DEF Moves, Resizing
<1>4. /\ Spot(r) /\ env \cap (Movers \cup {"refresh"}) = {}
      /\ req[r].pc # "sawUp" /\ ~(req[r].pc = "finish" /\ r \in Movers)
  BY <1>1, Kinds DEF Apart, Begun, Asked, Spot, SpotAt, Sweeps, Movers, Resumes, Wakes
<1>5. (\E t \in Request : Resizing(t)) /\ doc.status # "running" => doc'.status # "running"
  <2>1. ASSUME NEW t \in Request, Resizing(t) PROVE Known
    BY <2>1, Kinds DEF Resizing, Begun, Tended, Working, InFlight
  <2>2. QED
    BY <1>4, <2>1, StaysDown
<1>6. CASE Keeps(r)
  <2>1. \A t \in Request : Resizing(t)' => Resizing(t)
    BY <1>3, <1>6 DEF Keeps
  <2>2. QED
    BY <1>1, <1>2, <1>5, <1>6, <2>1 DEF Keeps
<1>7. CASE Locks(r)
  <2>1. doc.status = "running" /\ doc'.claim = r /\ doc.claim = "none"
    <3>1. r # "none"
      BY DEF Request, Creates, Launches, Resumes, Wakes, Resizes, Reverts, Sweeps
    <3>2. QED
      BY <1>7, <3>1 DEF Locks, Acts, Locking
  <2>2. \A t \in Request : ~Resizing(t)
    <3>1. \A t \in Request : t # "none"
      BY DEF Request, Creates, Launches, Resumes, Wakes, Resizes, Reverts, Sweeps
    <3>2. QED
      BY <1>2, <2>1, <3>1
  <2>3. QED
    BY <1>1, <1>3, <2>1, <2>2
<1>8. CASE Releases(r)
  BY <1>1, <1>2, <1>3, <1>8 DEF Releases
<1>9. CASE Recovers(r)
  <2>1. doc'.status = "error" \/ doc.claim = doc'.claim
    <3>1. req[r].pc = "failStale" /\ doc'.claim = "none"
      BY <1>9 DEF Recovers
    <3>2. QED
      BY <3>1 DEF Acts, Locking
  <2>2. \A t \in Request : Resizing(t)' => Resizing(t)
    BY <1>3, <1>9 DEF Recovers
  <2>3. QED
    BY <1>1, <1>2, <1>5, <2>1, <2>2
<1>10. QED
  BY <1>6, <1>7, <1>8, <1>9 DEF Moves

\* Where two may delete a machine, who resizes holds the claim.
LEMMA ManyHold ==
    ASSUME IInv, Flat, Apart, Many, NEW r \in Request, Resizing(r)
    PROVE  doc.claim = r
PROOF
<1>1. Resizable
  BY FlatRests
<1>2. env \cap Movers # {}
  BY DEF Many, Movers
<1>3. "slow" \notin env
  BY <1>1, <1>2 DEF Apart
<1>4. QED
  BY <1>3 DEF IInv, ResizeExclusive

\* A resume begins where the status lets it, a resize where the claim does.
LEMMA GuardStep ==
    ASSUME IInv, Begun, Flat, Guard, Halts, NEW r \in Request, Acts(r), Moves(r)
    PROVE  Guard'
PROOF
<1>1. SUFFICES ASSUME Apart, Many
      PROVE  /\ doc'.claim # "none" => doc'.status = "running"
             /\ \A s \in Resumes :
                  /\ req'[s].pc = "claim" => req'[s].doc.status \notin {"running", "provisioning"}
                  /\ Moving(s)' => /\ doc'.status = "provisioning" /\ doc'.claim = "none"
                                   /\ \A t \in Resumes : Moving(t)' => t = s
  <2>1. env' = env
    BY DEF Moves
  <2>2. (Apart' <=> Apart) /\ (Many' <=> Many)
    BY <2>1 DEF Apart, Many, Resizable
  <2>3. QED
    BY <1>1, <2>2 DEF Guard
<1>2. /\ doc.claim # "none" => doc.status = "running"
      /\ \A s \in Resumes :
           /\ req[s].pc = "claim" => req[s].doc.status \notin {"running", "provisioning"}
           /\ Moving(s) => /\ doc.status = "provisioning" /\ doc.claim = "none"
                           /\ \A t \in Resumes : Moving(t) => t = s
  BY <1>1 DEF Guard
<1>3. \A t \in Request : t # r => req'[t] = req[t] /\ (Moving(t)' <=> Moving(t))
  BY DEF Moves, Moving
<1>4. \A s \in Resumes : s \in Request /\ s \in Movers /\ s \notin Resizes /\ s \notin Firsts
  BY Kinds DEF Movers, Request
<1>5. Spot(r) /\ env \cap (Wakes \cup {"suspend", "refresh"}) = {}
  BY <1>1 DEF Apart, Begun, Asked
<1>6. /\ req[r].pc \notin {"sawUp", "sawDown", "mark"}
      /\ req[r].pc # "idle" => r \notin Wakes
  <2>1. "refresh" \notin Sweeps /\ "suspend" \notin Sweeps /\ Wakes \cap Sweeps = {}
    BY DEF Sweeps, Wakes
  <2>2. req[r].pc = "mark" => r = "suspend"
    BY DEF Halts, Halting
  <2>3. QED
    BY <1>5, <2>1, <2>2 DEF Spot, SpotAt
<1>7. Known => doc.status \notin {"absent", "draft"} /\ \A s \in Firsts : ~Launching(s)
  BY KnownFacts
<1>8. /\ doc.claim # "none" => Known
      /\ \A s \in Resumes : Moving(s) => Known
  BY <1>4, Kinds DEF Begun, Tended, Moving, InFlight
<1>9. req[r].pc = "claim" => req[r].doc.status \notin {"running", "provisioning"}
  BY <1>2, <1>5 DEF Begun, Launch, Spot, SpotAt, Firsts, Launches
\* A label of someone who would write the status while the mission has a machine.
<1>10. Known /\ req[r].pc \in {"finish", "failed"} => (r \in Resumes /\ Moving(r)) \/ r \in Resizes
  BY <1>5, <1>6, <1>7, Kinds DEF Spot, SpotAt, Launching, Moving, Movers
<1>11. r \in Resizes /\ req[r].pc = "failed" => doc.claim = r
  BY <1>1, ManyHold DEF Resizing, Working
<1>12. doc'.claim # "none" => doc'.status = "running"
  <2> SUFFICES ASSUME doc'.claim # "none" PROVE doc'.status = "running"
    OBVIOUS
  <2>1. CASE doc'.claim # doc.claim
    BY <2>1 DEF Acts, Locking
  <2>2. CASE doc'.claim = doc.claim
    <3>1. doc.status = "running" /\ Known
      BY <1>2, <1>8, <2>2
    <3>2. ~(req[r].pc = "failed" /\ r \in Resizes)
      BY DEF Acts, Locking
    <3>3. req[r].pc \notin {"failed"} /\ (req[r].pc = "claim" => doc.status # req[r].doc.status)
      BY <1>2, <1>9, <1>10, <3>1, <3>2
    <3>4. doc.status \notin {"absent"} /\ ~(doc.claim = req[r].doc.claim /\ doc'.claim = "none")
      BY <2>2, <3>1
    <3>5. QED
      BY <1>6, <3>1, <3>3, <3>4 DEF Acts, Marks
  <2>3. QED
    BY <2>1, <2>2
<1>13. ASSUME NEW s \in Resumes, req'[s].pc = "claim"
       PROVE  req'[s].doc.status \notin {"running", "provisioning"}
  <2>1. CASE s # r
    BY <1>2, <1>3, <1>4, <1>13, <2>1
  <2>2. CASE s = r
    <3>1. s \notin Creates
      BY <1>4 DEF Firsts
    <3>2. QED
      BY <1>13, <2>2, <3>1 DEF Acts, Goes
  <2>3. QED
    BY <2>1, <2>2
<1>14. ASSUME NEW s \in Resumes, Moving(s)', Moving(s)
       PROVE  /\ doc'.status = "provisioning" /\ doc'.claim = "none"
              /\ \A t \in Resumes : Moving(t)' => t = s
  <2>1. /\ doc.status = "provisioning" /\ doc.claim = "none" /\ Known
        /\ \A t \in Resumes : Moving(t) => t = s
    BY <1>2, <1>8, <1>14
  <2>2. doc'.claim = "none"
    BY <2>1 DEF Acts, Locking
  <2>3. r = s => doc'.status = doc.status
    BY <1>14 DEF Acts, Goes, Moving, Rest
  <2>4. r # s => req[r].pc \notin {"finish", "failed"}
    <3>1. r \notin Resizes \/ req[r].pc # "failed"
      <4>1. r # "none"
        BY DEF Request, Creates, Launches, Resumes, Wakes, Resizes, Reverts, Sweeps
      <4>2. QED
        BY <1>11, <2>1, <4>1
    <3>2. r \in Resizes => req[r].pc # "finish"
      BY <1>5, Kinds DEF Spot, SpotAt
    <3>3. QED
      BY <1>10, <2>1, <3>1, <3>2
  <2>5. doc'.status = doc.status
    <3>1. CASE r = s
      BY <2>3, <3>1
    <3>2. CASE r # s
      <4>1. doc.status # "absent" /\ (req[r].pc = "claim" => doc.status # req[r].doc.status)
        BY <1>9, <2>1
      <4>2. ~(req[r].pc = "failStale" /\ doc.claim = req[r].doc.claim)
        <5> SUFFICES ASSUME req[r].pc = "failStale" PROVE doc.claim # req[r].doc.claim
          OBVIOUS
        <5>1. r = "stale" /\ InFlight(r)
          BY <1>5 DEF Spot, SpotAt, InFlight
        <5>2. Resizable /\ env \cap Movers # {} /\ "slow" \notin env
          BY <1>1, <5>1 DEF Flat, Apart, Many, Movers
        <5>3. req[r].doc.claim \in Resizes
          BY <5>1, <5>2 DEF IInv, Dead
        <5>4. "none" \notin Resizes
          BY DEF Resizes, Reverts
        <5>5. QED
          BY <2>1, <5>3, <5>4
      <4>3. QED
        BY <1>6, <2>4, <3>2, <4>1, <4>2 DEF Acts, Marks
    <3>3. QED
      BY <3>1, <3>2
  <2>6. \A t \in Resumes : Moving(t)' => Moving(t)
    <3>1. r \in Resumes /\ ~Moving(r) => ~Moving(r)'
      <4>1. req[r].pc = "claim" => doc.status # req[r].doc.status
        BY <1>9, <2>1
      <4>2. QED
        BY <1>4, <4>1 DEF Acts, Goes, Moving, Rest, Moves
    <3>2. QED
      BY <1>3, <1>4, <3>1
  <2>7. QED
    BY <2>1, <2>2, <2>5, <2>6
<1>15. ASSUME NEW s \in Resumes, Moving(s)', ~Moving(s)
       PROVE  /\ doc'.status = "provisioning" /\ doc'.claim = "none"
              /\ \A t \in Resumes : Moving(t)' => t = s
  <2>1. s = r
    BY <1>3, <1>4, <1>15
  <2>2. req[r].pc = "claim" /\ doc.status = req[r].doc.status /\ doc'.status = "provisioning"
    BY <1>4, <1>15, <2>1 DEF Acts, Goes, Moving, Rest, Moves
  <2>3. doc.status \notin {"running", "provisioning"} /\ doc.claim = "none"
    BY <1>2, <1>9, <2>2
  <2>4. doc'.claim = "none"
    BY <2>2, <2>3 DEF Acts, Locking
  <2>5. \A t \in Resumes : t # r => ~Moving(t)'
    BY <1>2, <1>3, <1>4, <2>3
  <2>6. QED
    BY <2>1, <2>2, <2>4, <2>5
<1>16. QED
  BY <1>12, <1>13, <1>14, <1>15

-----------------------------------------------------------------------------
(* No machine is abandoned.                                                  *)

\* A wake's step, and what others do to the machine it has created.
LEMMA FittedStep ==
    ASSUME TypeOK, TypeOK', Begun, Begun', Numbered, Fitted, NEW r \in Request, Acts(r), Moves(r)
    PROVE  Fitted'
PROOF
<1>1. /\ \A s \in Request : s # r => req'[s] = req[s]
      /\ Spot(r) /\ Spot(r)'
      /\ req[r].pc # "done"
      /\ \A s \in Request : req'[s].m \in Nat
      /\ Len(machs) \in Nat /\ doc.machine <= Len(machs) /\ doc.machine \in Nat
      /\ \A s \in Request : req[s].m <= Len(machs) /\ req[s].m \in Nat
  <2>1. \A s \in Request : req'[s].m \in Nat /\ req[s].m \in Nat
    BY DEF TypeOK
  <2>2. Len(machs) \in Nat /\ doc.machine \in Nat
    BY DEF TypeOK, Document
  <2>3. Spot(r) /\ Spot(r)'
    BY DEF Begun, Asked
  <2>4. QED
    BY <2>1, <2>2, <2>3 DEF Moves, Numbered
<1>2. \A s \in Wakes : s \in Request /\ s \notin Firsts /\ s \notin Resizes /\ s \notin Creates
  BY Kinds DEF Movers, Request
<1>3. \A s \in Wakes : /\ InFlight(s) => req[s].m # 0
                       /\ InFlight(s)' => req'[s].m # 0
  BY <1>2 DEF Begun, Tended
<1>4. req'[r].pc = "finish" /\ r \in Wakes /\ req'[r].m # req'[r].doc.machine =>
        req[r].pc = "machine" /\ req'[r].m = Len(machs) + 1
  <2> SUFFICES ASSUME req'[r].pc = "finish", r \in Wakes, req[r].pc # "machine"
      PROVE req'[r].m = req'[r].doc.machine
    BY DEF Acts, Enters, Last
  <2>1. req[r].pc = "start" /\ req'[r].m = req[r].m /\ req'[r].doc = req[r].doc
    BY DEF Acts, Enters, Last
  <2>2. QED
    BY <2>1 DEF Fitted, Rereads, InFlight
<1>5. ASSUME NEW s \in Wakes, InFlight(s)', req'[s].pc # "finish"
      PROVE  req'[s].m = req'[s].doc.machine
  <2>1. CASE s # r
    <3>1. InFlight(s) /\ req[s].pc # "finish" /\ req'[s] = req[s]
      BY <1>1, <1>2, <1>5, <2>1 DEF InFlight
    <3>2. QED
      BY <1>2, <3>1 DEF Fitted, Rereads
  <2>2. CASE s = r
    <3>1. req'[r].pc \notin Rest /\ req'[r].m # 0 /\ req[r].pc \notin {"lock", "fresh"}
      BY <1>1, <1>2, <1>3, <1>5, <2>2 DEF Rest, InFlight, Spot, SpotAt, Own
    <3>2. CASE req[r].pc = "idle"
      BY <1>2, <1>5, <2>2, <3>1, <3>2 DEF Acts, Goes, Rest
    <3>3. CASE req[r].pc # "idle"
      <4>1. req'[r].doc = req[r].doc
        BY <3>1, <3>3 DEF Acts, Goes
      <4>2. req'[r].pc \notin Last
        BY <1>1, <1>2, <1>5, <2>2 DEF Last, Spot, SpotAt, Own
      <4>3. req'[r].m = req[r].m
        BY <3>1, <3>3, <4>2 DEF Acts, Goes
      <4>4. InFlight(r) /\ req[r].pc # "finish"
        <5>1. req[r].pc = "finish" => req'[r].pc \in Rest
          BY DEF Acts, Goes
        <5>2. QED
          BY <1>1, <3>1, <3>3, <5>1 DEF InFlight
      <4>5. QED
        BY <1>2, <1>5, <2>2, <4>1, <4>3, <4>4 DEF Fitted, Rereads
    <3>4. QED
      BY <3>2, <3>3
  <2>3. QED
    BY <2>1, <2>2
<1>6. ASSUME NEW s \in Wakes, req'[s].pc = "finish", req'[s].m # req'[s].doc.machine
      PROVE  doc'.machine # req'[s].m /\ \A t \in Request \ {s} : req'[t].m # req'[s].m
  <2>1. CASE s = r
    <3>1. req[r].pc = "machine" /\ req'[r].m = Len(machs) + 1
      BY <1>4, <1>6, <2>1
    <3>2. doc'.machine = doc.machine
      BY <3>1 DEF Acts, Naming, Last
    <3>3. QED
      BY <1>1, <2>1, <3>1, <3>2
  <2>2. CASE s # r
    <3>1. /\ req'[s] = req[s] /\ InFlight(s) /\ doc.machine # req[s].m
          /\ \A t \in Request \ {s} : req[t].m # req[s].m
      BY <1>1, <1>2, <1>6, <2>2 DEF Fitted, Hidden, InFlight
    <3>2. doc'.machine \in {doc.machine, req[r].m}
      BY DEF Acts, Naming
    <3>3. req'[r].m \in {0, req[r].m, doc.machine, Len(machs) + 1}
      BY DEF Acts, Goes
    <3>4. req[s].m # 0 /\ req[s].m # Len(machs) + 1
      BY <1>1, <1>2, <1>3, <3>1
    <3>5. QED
      BY <1>1, <2>2, <3>1, <3>2, <3>3, <3>4
  <2>3. QED
    BY <2>1, <2>2
<1>7. QED
  BY <1>5, <1>6 DEF Fitted, Rereads, Hidden

\* Who works on the mission's machine.
Busy(r) == Moving(r) \/ Resizing(r)

\* No two resumes and resizes work on a mission at once.
LEMMA Sole ==
    ASSUME IInv, Begun, Flat, Late, Guard, Apart,
           NEW r \in Resumes \cup Resizes, NEW s \in Resumes \cup Resizes, Busy(r), Busy(s)
    PROVE  r = s
PROOF
<1>1. /\ r \in Request /\ s \in Request /\ Resumes \cap Resizes = {}
      /\ \A t \in Movers : t \notin Resizes /\ t \in Request
  BY Kinds DEF Movers
<1>2. \A t \in Request : InFlight(t) => t \in env \cup Sweeps
  BY DEF Begun, Asked, Spot, SpotAt, InFlight
<1>3. \A t \in Request : /\ Resizing(t) => t \in Resizes
                         /\ Moving(t) => InFlight(t) /\ t \in Movers
  BY DEF Resizing, Moving, InFlight
<1>4. \A t \in Request : Resizing(t) => Resizable
  BY FlatRests
<1>5. Resumes \cap Sweeps = {} /\ \A t \in Request : t # "none"
  BY DEF Request, Creates, Launches, Resumes, Wakes, Resizes, Reverts, Sweeps
<1>6. CASE r \in Resumes /\ s \in Resumes
  <2>1. Moving(r) /\ Moving(s) /\ r \in env /\ s \in env
    BY <1>1, <1>2, <1>3, <1>5, <1>6 DEF Busy
  <2>2. r # s => Many
    BY <1>6, <2>1 DEF Many
  <2>3. QED
    BY <1>6, <2>1, <2>2 DEF Guard
<1>7. ASSUME NEW t \in Resumes, NEW u \in Resizes, Busy(t), Busy(u)
      PROVE  FALSE
  <2>1. t \in Request /\ u \in Request /\ Moving(t) /\ Resizing(u) /\ t \in env
    <3>1. t \in Movers /\ u \in Request
      BY Kinds DEF Movers
    <3>2. t \in Request /\ Moving(t) /\ Resizing(u)
      BY <1>1, <1>3, <1>7, <3>1 DEF Busy
    <3>3. QED
      BY <1>2, <1>3, <1>5, <3>1, <3>2
  <2>2. Many
    BY <1>4, <2>1 DEF Many
  <2>3. doc.claim = u /\ doc.claim = "none"
    BY <2>1, <2>2, ManyHold DEF Guard
  <2>4. QED
    BY <1>5, <2>1, <2>3
<1>8. CASE r \in Resizes /\ s \in Resizes
  <2>1. Resizing(r) /\ Resizing(s)
    BY <1>1, <1>3, <1>8 DEF Busy
  <2>2. CASE "slow" \in env
    BY <1>1, <2>1, <2>2 DEF Late
  <2>3. CASE "slow" \notin env
    BY <1>1, <2>1, <2>3 DEF IInv, ResizeExclusive
  <2>4. QED
    BY <2>2, <2>3
<1>9. QED
  BY <1>6, <1>7, <1>8

\* Where servers are full or machines vanish, only one works on a mission.
LEMMA SoleMover ==
    ASSUME IInv, Begun, Homes, Flat, Late, Guard, Steady, env \cap {"full", "gone"} # {},
           NEW r \in Movers \cup Resizes, NEW s \in Movers \cup Resizes, Busy(r), Busy(s)
    PROVE  r = s
PROOF
<1>1. /\ r \in Request /\ s \in Request /\ Movers = Resumes \cup Wakes
      /\ \A t \in Movers : t \notin Resizes /\ t \in Request /\ t \notin Sweeps
      /\ \A t \in Resizes : t \notin Firsts \cup Movers \cup {"refresh"}
  BY Kinds DEF Movers
<1>2. \A t \in Request : InFlight(t) => t \in env \cup Sweeps
  BY DEF Begun, Asked, Spot, SpotAt, InFlight
<1>3. \A t \in Request : Resizing(t) => t \in Resizes /\ InFlight(t)
  BY DEF Resizing, InFlight, Working
<1>4. \A t \in Request : Moving(t) => t \in Movers /\ t \in env
  BY <1>1, <1>2 DEF Moving, InFlight
<1>5. CASE "full" \in env
  <2>1. NoResize /\ Moved
    BY <1>5 DEF Homes, Forks
  <2>2. \A t \in Request : ~Resizing(t)
    BY <1>1, <1>3, <2>1 DEF NoResize
  <2>3. QED
    BY <1>1, <1>4, <2>1, <2>2 DEF Busy, Moved
<1>6. CASE "gone" \in env /\ env \cap Wakes # {}
  <2>1. Alone /\ ~Resizable
    BY <1>6 DEF Steady
  <2>2. \A t \in Request : ~Resizing(t)
    BY <2>1, FlatRests
  <2>3. QED
    BY <1>1, <1>4, <2>1, <2>2 DEF Busy, Alone
<1>7. CASE env \cap Wakes = {}
  <2>1. r \in Resumes \cup Resizes /\ s \in Resumes \cup Resizes
    BY <1>1, <1>3, <1>4, <1>7 DEF Busy
  <2>2. QED
    BY <2>1, Sole DEF Steady
<1>8. QED
  BY <1>5, <1>6, <1>7

\* What names a machine stands alone: no other is up.
LEMMA SoundStep ==
    ASSUME IInv, Begun, Homes, Homes', Flat, Late, Guard, Fitted, Steady,
           \A s \in Request : Sound(s),
           NEW r \in Request, Acts(r), NEW s \in Request, Names(s)'
    PROVE  Sound(s)'
PROOF
<1>1. /\ \A t \in Request : t # r => req'[t] = req[t]
      /\ env' = env /\ Spot(r) /\ Spot(s) /\ req[r].pc # "done"
      /\ \A m, n \in DOMAIN machs' : "full" \notin env /\ Exists(m)' /\ Exists(n)' => m = n
  <2>1. env' = env
    BY DEF Acts, Goes
  <2>2. "full" \notin env => OneHome'
    BY <2>1 DEF Homes
  <2>3. QED
    BY <2>1, <2>2 DEF Acts, Goes, Others, Begun, Asked, OneHome
<1>2. /\ s \in Movers \cup Resizes /\ req'[s].pc \in Last
      /\ s \in Wakes => req'[s].m # req'[s].doc.machine
      /\ s \notin Firsts
  BY Kinds DEF Names, Last
<1>3. s = r => /\ \/ req[r].pc = "start" /\ req'[r].pc = "finish"
                  \/ req[r].pc = "machine"
                  \/ req[r].pc = "record" /\ req'[r].pc = "settle" /\ machs' = machs
               /\ req[r].pc # "record" => Stands(req'[r].m) /\ req'[r].doc = req[r].doc
               /\ req[r].pc # "machine" => req'[r].m = req[r].m
               /\ req[r].pc = "machine" => req'[r].m = Len(machs) + 1
  BY <1>2 DEF Acts, Enters
<1>4. InFlight(s) /\ Known /\ \A t \in Firsts : ~Launching(t)
  <2>1. InFlight(s)
    BY <1>1, <1>2, <1>3 DEF Last, InFlight
  <2>2. QED
    BY <1>2, <2>1, KnownFacts DEF Begun, Tended
<1>5. req[r].pc \in {"start", "machine"} => r \in Movers \cup Resizes /\ Busy(r)
  BY <1>1, <1>4, Kinds DEF Spot, SpotAt, Launching, Busy, Moving, Resizing, Working
<1>6. \A m \in DOMAIN machs' : Up(m)' =>
        \/ m \in DOMAIN machs /\ Up(m)
        \/ req[r].pc = "start" /\ m = req[r].m
        \/ req[r].pc = "machine" /\ m = Len(machs) + 1
  BY DEF Acts, Handles
<1>7. \A m : Up(m)' => Exists(m)'
  BY DEF Up, Exists
<1>9. CASE s = r
  <2>1. CASE req[r].pc = "record"
    <3>1. req[r].pc \in Last /\ r \notin Wakes /\ Names(r)
      BY <1>1, <1>2, <1>9, <2>1, Kinds DEF Spot, SpotAt, Own, Last, Names, Movers
    <3>2. machs' = machs /\ req'[r].m = req[r].m
      BY <1>3, <1>9, <2>1
    <3>3. QED
      BY <1>1, <1>9, <3>1, <3>2 DEF Sound, Up, Exists
  <2>2. CASE req[r].pc \in {"start", "machine"}
    <3>1. Exists(req[r].m)' /\ req'[r].m \in DOMAIN machs'
      BY <1>3, <1>9, <2>2 DEF Stands, Exists
    <3>2. ASSUME NEW m \in DOMAIN machs', Up(m)' PROVE m = req'[r].m
      <4>1. CASE "full" \notin env
        BY <1>1, <1>7, <3>1, <3>2, <4>1
      <4>2. CASE "full" \in env
        <5>1. Moved /\ NoResize
          BY <4>2 DEF Homes, Forks
        <5>2. r \in Movers /\ Moving(r)
          <6>1. r \in Request \ (Firsts \cup Movers \cup {"refresh"}) => ~InFlight(r)
            BY <5>1 DEF NoResize
          <6>2. r \notin Firsts /\ r # "refresh" /\ InFlight(r)
            BY <1>2, <1>4, <1>9, Kinds
          <6>3. QED
            BY <2>2, <6>1, <6>2 DEF Moving
        <5>3. req[r].pc = "start" => r \in Resumes
          <6>1. ASSUME req[r].pc = "start", r \in Wakes PROVE FALSE
            <7>1. req[r].m = req[r].doc.machine
              BY <1>4, <1>9, <6>1 DEF Fitted, Rereads
            <7>2. QED
              BY <1>2, <1>3, <1>9, <6>1, <7>1
          <6>2. QED
            BY <5>2, <6>1 DEF Movers
        <5>4. NoUp
          BY <2>2, <5>1, <5>2, <5>3 DEF Moved, Fork
        <5>5. QED
          BY <1>3, <1>6, <1>9, <2>2, <3>2, <5>4 DEF NoUp
      <4>3. QED
        BY <4>1, <4>2
    <3>3. QED
      BY <1>9, <3>1, <3>2 DEF Sound
  <2>3. QED
    BY <1>3, <1>9, <2>1, <2>2
<1>10. CASE s # r
  <2>1. /\ req'[s] = req[s] /\ Names(s) /\ Busy(s)
    <3>1. req'[s] = req[s]
      BY <1>1, <1>10
    <3>2. Moving(s) \/ Resizing(s)
      BY <1>1, <1>2, <3>1, Kinds DEF Spot, SpotAt, Last, Moving, Resizing, Working
    <3>3. QED
      BY <1>2, <3>1, <3>2 DEF Names, Busy, Last
  <2>2. /\ \A m \in DOMAIN machs : Up(m) => m = req[s].m
        /\ env \cap {"full", "gone"} = {} => Exists(req[s].m)
    BY <2>1 DEF Sound
  <2>3. CASE env \cap {"full", "gone"} = {}
    <3>1. Exists(req[s].m)
      BY <2>2, <2>3
    <3>2. ~(req[r].pc \in {"delete", "remove"} /\ req[s].m = req[r].m)
      <4> SUFFICES ASSUME req[r].pc \in {"delete", "remove"}, req[s].m = req[r].m PROVE FALSE
        OBVIOUS
      <4>1. r \in Resumes \cup Resizes /\ Busy(r)
        BY <1>1, Kinds DEF Spot, SpotAt, Own, Busy, Moving, Resizing, Working, Movers
      <4>2. CASE s \in Wakes
        <5>1. req[s].pc = "finish" /\ req[s].m # req[s].doc.machine
          BY <1>1, <1>2, <2>1, <4>2, Kinds DEF Spot, SpotAt, Own, Last, Movers
        <5>2. QED
          BY <1>10, <4>2, <5>1 DEF Fitted, Hidden
      <4>3. CASE s \notin Wakes
        <5>1. s \in Resumes \cup Resizes /\ Apart
          BY <1>2, <4>3 DEF Movers, Steady
        <5>2. QED
          BY <1>10, <2>1, <4>1, <5>1, Sole
      <4>4. QED
        BY <4>2, <4>3
    <3>3. Exists(req[s].m)' /\ req'[s].m \in DOMAIN machs'
      <4> DEFINE m == req[s].m
      <4>1. m \in DOMAIN machs /\ req'[s].m = m
        BY <2>1, <3>1 DEF Exists
      <4>2. m \in DOMAIN machs' /\ machs'[m].state # "gone"
        BY <3>1, <3>2, <4>1 DEF Acts, Handles, Exists
      <4>3. QED
        BY <4>1, <4>2 DEF Exists
    <3>4. QED
      BY <1>1, <1>7, <2>1, <2>3, <3>3 DEF Sound
  <2>4. CASE env \cap {"full", "gone"} # {}
    <3>1. req[r].pc \notin {"start", "machine"}
      BY <1>2, <1>5, <1>10, <2>1, <2>4, SoleMover
    <3>2. QED
      BY <1>1, <1>6, <2>1, <2>2, <2>4, <3>1 DEF Sound
  <2>5. QED
    BY <2>3, <2>4
<1>11. QED
  BY <1>9, <1>10

\* A step of a request leaves the document's machine, or it is not up.
LEMMA NameStep ==
    ASSUME TypeOK, Begun, \A s \in Request : Sound(s), NEW r \in Request, Acts(r),
           doc'.machine # doc.machine
    PROVE  ~Up(doc.machine)
PROOF
<1>1. /\ doc'.machine = req[r].m /\ req[r].pc \in Last
      /\ r \in Wakes => req[r].m # req[r].doc.machine
  BY DEF Acts, Naming
<1>2. Spot(r)
  BY DEF Begun, Asked
<1>3. r \in Firsts \cup Movers \cup Resizes
  BY <1>1, <1>2 DEF Spot, SpotAt, Last, Own
<1>4. CASE r \in Firsts
  <2>1. doc.machine = 0
    BY <1>1, <1>4 DEF Begun, Launch, Launching, Last, Known
  <2>2. 0 \notin DOMAIN machs
    BY DEF TypeOK
  <2>3. QED
    BY <2>1, <2>2 DEF Up
<1>5. CASE r \in Movers \cup Resizes
  <2>1. Names(r)
    BY <1>1, <1>5 DEF Names, Last
  <2>2. QED
    BY <1>1, <2>1 DEF Sound, Up
<1>6. QED
  BY <1>3, <1>4, <1>5

\* Where a step of the environment leaves a request.
LEMMA EbbsRest ==
    ASSUME Ebbs, NEW r \in Request
    PROVE  req'[r] = req[r] \/ (req'[r].pc \in {"idle", "done"} /\ req'[r].m = 0)
PROOF
  BY DEF Ebbs

\* The environment leaves the invariants alone.
LEMMA EbbsKeep ==
    ASSUME TypeOK, Begun, Numbered, Halts, Flat, Late, Guard, Fitted, Ebbs
    PROVE  Numbered' /\ Halts' /\ Flat' /\ Late' /\ Guard' /\ Fitted'
PROOF
<1>1. /\ env' = env /\ doc'.status = doc.status /\ doc'.machine = doc.machine
      /\ doc'.claim = doc.claim /\ doc'.upgrade.by = doc.upgrade.by
      /\ Len(machs') = Len(machs) /\ Len(machs) \in Nat
  BY DEF Ebbs, TypeOK
<1>2. \A r \in Request : req'[r] = req[r] \/ (req'[r].pc \in {"idle", "done"} /\ req'[r].m = 0)
  BY EbbsRest
<1>3. /\ (Apart' <=> Apart) /\ (Many' <=> Many) /\ (Resizable' <=> Resizable)
  BY <1>1 DEF Apart, Many, Resizable
<1>4. \A r \in Resumes \cup Resizes \cup Wakes \cup {"renew", "stale", "orphan"} : r \in Request
  BY Kinds DEF Movers, Sweeps, Request
<1>5. Numbered'
  BY <1>1, <1>2 DEF Numbered
<1>6. Halts'
  BY <1>2 DEF Halts, Halting
<1>7. Flat'
  BY <1>1, <1>2, <1>3, <1>4 DEF Flat, Calm, Rest, InFlight
<1>8. /\ \A r \in Request : Resizing(r)' => Resizing(r)
      /\ \A r \in Request : Moving(r)' => Moving(r)
  BY <1>2 DEF Resizing, Working, Moving
<1>9. Late'
  BY <1>1, <1>3, <1>8 DEF Late
<1>10. Guard'
  BY <1>1, <1>2, <1>3, <1>4, <1>8 DEF Guard
<1>11. Fitted'
  <2> SUFFICES ASSUME NEW r \in Request PROVE Rereads(r)' /\ Hidden(r)'
    BY DEF Fitted
  <2>1. Rereads(r)'
    BY <1>2 DEF Fitted, Rereads, InFlight
  <2>2. Hidden(r)'
    <3> SUFFICES ASSUME r \in Wakes, req'[r].pc = "finish", req'[r].m # req'[r].doc.machine
        PROVE  doc'.machine # req'[r].m /\ \A s \in Request \ {r} : req'[s].m # req'[r].m
      BY DEF Hidden
    <3>1. req'[r] = req[r]
      BY <1>2
    <3>2. r \notin Firsts /\ InFlight(r)
      BY <3>1, Kinds DEF InFlight, Movers
    <3>3. req[r].m # 0
      BY <3>2 DEF Begun, Tended
    <3>4. QED
      BY <1>1, <1>2, <3>1, <3>3 DEF Fitted, Hidden
  <2>3. QED
    BY <2>1, <2>2
<1>12. QED
  BY <1>5, <1>6, <1>7, <1>9, <1>10, <1>11

\* ...and makes no machine go up.
LEMMA EbbsSound ==
    ASSUME TypeOK, Ebbs, NEW r \in Request, Sound(r)
    PROVE  Sound(r)'
PROOF
<1>1. SUFFICES ASSUME Names(r)'
      PROVE  /\ \A m \in DOMAIN machs' : Up(m)' => m = req'[r].m
             /\ env' \cap {"full", "gone"} = {} => Exists(req[r].m)'
  BY DEF Sound
<1>2. req'[r] = req[r]
  BY <1>1, EbbsRest DEF Names, Last
<1>3. Names(r)
  BY <1>1, <1>2 DEF Names, Last
<1>4. DOMAIN machs' = DOMAIN machs /\ env' = env
  BY DEF Ebbs
<1>5. \A m \in DOMAIN machs' : Up(m)' => m = req'[r].m
  BY <1>2, <1>3, <1>4 DEF Ebbs, Sound
<1>6. ASSUME env \cap {"full", "gone"} = {} PROVE Exists(req[r].m)'
  <2> DEFINE m == req[r].m
  <2>1. m \in DOMAIN machs /\ machs[m].state # "gone"
    BY <1>3, <1>6 DEF Sound, Exists
  <2>2. m \in DOMAIN machs' /\ machs'[m].state # "gone"
    BY <1>4, <1>6, <2>1 DEF Ebbs, Exists
  <2>3. QED
    BY <1>2, <2>2 DEF Exists
<1>7. QED
  BY <1>4, <1>5, <1>6

\* What holds of a mission in every orderly environment.
Kept == Begun /\ Homes /\ Numbered /\ Halts /\ Flat /\ Late /\ Guard /\ Fitted

\* The start.
LEMMA KeptInit ==
    ASSUME Init, Orderly
    PROVE  Kept /\ \A r \in Request : Sound(r)
PROOF
<1>1. \A r \in Request : req[r] = Idle
  BY DEF Init
<1>2. Idle.pc = "idle" /\ Idle.m = 0
  BY DEF Idle
<1>3. \A r \in Request : ~InFlight(r) /\ ~Resizing(r) /\ ~Moving(r) /\ req[r].pc = "idle"
  BY <1>1, <1>2 DEF InFlight, Resizing, Moving, Working
<1>4. Begun /\ Homes
  BY WorkInit
<1>5. /\ doc.claim = "none" /\ doc.machine <= Len(machs) /\ Len(machs) \in {0, 1}
      /\ ~Resizable => doc.upgrade.by = "none"
  <2>1. PICK s \in Starts \cap env :
         LET known == s \in {"running", "upgraded", "suspended"}
             n     == IF known THEN 1 ELSE 0
             big   == s = "upgraded"
         IN  /\ doc = [status  |-> IF big THEN "running" ELSE s,
                       machine |-> n, volume |-> n, claim |-> "none",
                       upgrade |-> [by |-> IF big THEN "before" ELSE "none", due |-> FALSE]]
             /\ machs = IF known THEN <<[state |-> IF s = "suspended" THEN "down" ELSE "up",
                                         big |-> big, volume |-> 1]>> ELSE <<>>
    BY DEF Init
  <2>2. CASE s \in {"running", "upgraded", "suspended"}
    <3>1. doc.claim = "none" /\ doc.machine = 1 /\ (s # "upgraded" => doc.upgrade.by = "none")
      BY <2>1, <2>2
    <3>2. Len(machs) = 1
      <4>1. machs = <<[state |-> IF s = "suspended" THEN "down" ELSE "up",
                       big |-> s = "upgraded", volume |-> 1]>>
        BY <2>1, <2>2
      <4>2. QED
        BY <4>1
    <3>3. QED
      BY <2>1, <3>1, <3>2 DEF Resizable
  <2>3. CASE s \notin {"running", "upgraded", "suspended"}
    <3>1. doc.claim = "none" /\ doc.machine = 0 /\ doc.upgrade.by = "none"
      BY <2>1, <2>3
    <3>2. machs = <<>>
      BY <2>1, <2>3
    <3>3. QED
      BY <3>1, <3>2
  <2>4. QED
    BY <2>2, <2>3
<1>6. \A r \in Request : req[r].m <= Len(machs)
  BY <1>1, <1>2, <1>5
<1>7. \A r \in Resumes \cup Resizes \cup Wakes \cup {"renew", "stale", "orphan"} : r \in Request
  BY Kinds DEF Movers, Sweeps, Request
<1>8. Numbered /\ Halts
  BY <1>3, <1>5, <1>6 DEF Numbered, Halts, Halting
<1>9. Flat
  BY <1>3, <1>5, <1>7 DEF Flat, Calm, Rest
<1>10. Late /\ Guard
  BY <1>3, <1>5, <1>7 DEF Late, Guard
<1>11. Fitted /\ \A r \in Request : Sound(r)
  BY <1>3 DEF Fitted, Rereads, Hidden, Sound, Names, Last
<1>12. QED
  BY <1>4, <1>8, <1>9, <1>10, <1>11 DEF Kept

\* A step of a request keeps all of that.
LEMMA KeptStep ==
    ASSUME IInv, Orderly, Kept, NEW r \in Request, Begin(r) \/ OnDocument(r) \/ AskFly(r)
    PROVE  Acts(r) /\ Moves(r) /\ TypeOK' /\ Orderly' /\ Kept'
PROOF
<1>1. TypeOK /\ Places /\ Asked /\ Begun /\ Homes
  BY DEF IInv, Kept, Begun
<1>2. TypeOK' /\ Moves(r)
  BY <1>1, BeginStep, OnDocumentStep, AskFlyStep
<1>3. Acts(r)
  BY <1>1, StepActs
<1>4. Orderly' /\ Begun' /\ Homes'
  BY <1>1, WorkNext DEF Next
<1>5. Numbered' /\ Halts' /\ Flat'
  BY <1>1, <1>2, <1>3, NumberedStep, HaltsStep, FlatStep DEF Kept
<1>6. Late' /\ Guard'
  BY <1>2, <1>3, <1>5, LateStep, GuardStep DEF Kept
<1>7. Fitted'
  BY <1>1, <1>2, <1>3, <1>4, FittedStep DEF Kept
<1>8. QED
  BY <1>2, <1>3, <1>4, <1>5, <1>6, <1>7 DEF Kept

\* ...and so does a step of the environment.
LEMMA KeptEbbs ==
    ASSUME IInv, Orderly, Kept, MachineEnds \/ WindowEnds \/ Die \/ UNCHANGED vars
    PROVE  Ebbs /\ Orderly' /\ Kept'
PROOF
<1>1. TypeOK /\ Begun /\ Homes
  BY DEF IInv, Kept
<1>2. Ebbs
  BY <1>1, EnvironmentEbbs
<1>3. Orderly' /\ Begun' /\ Homes'
  BY <1>1, WorkNext DEF Next
<1>4. QED
  BY <1>1, <1>2, <1>3, EbbsKeep DEF Kept

\* One step.
LEMMA AbandonNext ==
    ASSUME IInv, Steady, Kept, \A r \in Request : Sound(r), [Next]_vars
    PROVE  /\ Steady' /\ Kept' /\ \A r \in Request : Sound(r)'
           /\ doc'.machine # doc.machine => ~Up(doc.machine)
PROOF
<1>1. Orderly /\ TypeOK /\ Begun
  BY DEF Steady, IInv, Kept
<1>2. env' = env => (Apart' <=> Apart) /\ (Resizable' <=> Resizable) /\ (Alone' <=> Alone)
  BY DEF Apart, Many, Resizable, Alone
<1>3. env' = env /\ Orderly' => Steady'
  BY <1>2 DEF Steady
<1>4. ASSUME NEW r \in Request, Begin(r) \/ OnDocument(r) \/ AskFly(r)
      PROVE  /\ Steady' /\ Kept' /\ \A s \in Request : Sound(s)'
             /\ doc'.machine # doc.machine => ~Up(doc.machine)
  <2>1. Acts(r) /\ Moves(r) /\ TypeOK' /\ Orderly' /\ Kept'
    BY <1>1, <1>4, KeptStep
  <2>2. ASSUME NEW s \in Request PROVE Sound(s)'
    <3>1. CASE Names(s)'
      BY <2>1, <3>1, SoundStep DEF Kept
    <3>2. CASE ~Names(s)'
      BY <3>2 DEF Sound
    <3>3. QED
      BY <3>1, <3>2
  <2>3. doc'.machine # doc.machine => ~Up(doc.machine)
    BY <1>1, <2>1, NameStep
  <2>4. env' = env
    BY <2>1 DEF Moves
  <2>5. QED
    BY <1>3, <2>1, <2>2, <2>3, <2>4
<1>5. ASSUME MachineEnds \/ WindowEnds \/ Die \/ UNCHANGED vars
      PROVE  /\ Steady' /\ Kept' /\ \A s \in Request : Sound(s)'
             /\ doc'.machine # doc.machine => ~Up(doc.machine)
  <2>1. Ebbs /\ Orderly' /\ Kept'
    BY <1>1, <1>5, KeptEbbs
  <2>2. \A s \in Request : Sound(s)'
    BY <1>1, <2>1, EbbsSound
  <2>3. env' = env /\ doc'.machine = doc.machine
    BY <2>1 DEF Ebbs
  <2>4. QED
    BY <1>3, <2>1, <2>2, <2>3
<1>6. QED
  BY <1>4, <1>5 DEF Next

\* A machine that is up is never dropped from the mission's document, in every steady
\* environment: whoever names another (a resume, a wake, an upgrade, a revert) does so
\* when the one named before is down or gone.
THEOREM MachinesKept == Spec /\ Steady => NoMachineAbandoned
PROOF
<1> DEFINE MInv == Steady /\ Kept /\ \A r \in Request : Sound(r)
<1>1. Init /\ Steady => MInv
  BY KeptInit DEF Steady
<1>2. IInv /\ MInv /\ [Next]_vars =>
        MInv' /\ [doc'.machine # doc.machine => ~Up(doc.machine)]_vars
  BY AbandonNext
<1> HIDE DEF MInv
<1>3. QED
  BY <1>1, <1>2, Invariant, PTL DEF Spec, NoMachineAbandoned

-----------------------------------------------------------------------------
(* A big machine is known to be.                                             *)

\* Without an upgrade no machine is big.
LEMMA SmallStep ==
    ASSUME Flat, Small, NEW r \in Request, Acts(r)
    PROVE  Small'
PROOF
<1>1. SUFFICES ASSUME ~Resizable, NEW m \in DOMAIN machs', machs'[m].big PROVE FALSE
  BY DEF Small, Acts, Goes, Resizable
<1>2. \A n \in DOMAIN machs : ~machs[n].big
  BY <1>1 DEF Small
<1>3. r = "upgrade" /\ req[r].pc = "machine"
  BY <1>1, <1>2 DEF Acts, Handles
<1>4. Resizing(r)
  BY <1>3 DEF Resizing, Resizes, Working
<1>5. QED
  BY <1>1, <1>4, FlatRests

\* Nobody but an upgrade names a big machine.
LEMMA TrimsStep ==
    ASSUME TypeOK, Begun, Trims, NEW r \in Request, Acts(r)
    PROVE  Trims'
PROOF
<1>1. SUFFICES ASSUME NEW s \in Request,
        \/ s \in Resumes /\ req'[s].pc = "start"
        \/ s \notin Wakes \cup {"upgrade"} /\ req'[s].pc \in Last
      PROVE req'[s].m \in DOMAIN machs' /\ ~machs'[req'[s].m].big
  BY DEF Trims, Trim, Last
<1>2. \A t \in Request : t # r => req'[t] = req[t]
  BY DEF Acts, Goes, Others
<1>3. \A m \in DOMAIN machs : ~machs[m].big => m \in DOMAIN machs' /\ ~machs'[m].big
  BY DEF Acts, Handles
<1>4. CASE s # r
  <2>1. req[s].m \in DOMAIN machs /\ ~machs[req[s].m].big /\ req'[s] = req[s]
    BY <1>1, <1>2, <1>4 DEF Trims, Trim, Last
  <2>2. QED
    BY <1>3, <2>1
<1>5. CASE s = r /\ req'[r].pc = "start"
  BY <1>1, <1>5 DEF Acts, Enters, Last
<1>6. CASE s = r /\ req'[r].pc \in Last
  <2>1. r \notin Wakes \cup {"upgrade"}
    BY <1>1, <1>6 DEF Last
  <2>2. CASE req[r].pc = "start"
    <3>1. req'[r].m = req[r].m
      BY <1>6, <2>2 DEF Acts, Enters
    <3>2. r \in Resumes
      BY <2>1, <2>2 DEF Begun, Asked, Spot, SpotAt, Movers
    <3>3. req[r].m \in DOMAIN machs /\ ~machs[req[r].m].big
      BY <2>2, <3>2 DEF Trims, Trim, Last
    <3>4. QED
      BY <1>3, <1>6, <3>1, <3>3
  <2>3. CASE req[r].pc = "record"
    <3>1. req'[r].m = req[r].m
      BY <1>6, <2>3 DEF Acts, Enters
    <3>2. req[r].m \in DOMAIN machs /\ ~machs[req[r].m].big
      BY <2>1, <2>3 DEF Trims, Trim, Last
    <3>3. QED
      BY <1>3, <1>6, <3>1, <3>2
  <2>4. CASE req[r].pc = "machine"
    <3>1. req'[r].m = Len(machs) + 1 /\ Stands(req'[r].m)
      BY <1>6, <2>4 DEF Acts, Enters
    <3>2. req'[r].m \in DOMAIN machs' /\ req'[r].m \notin DOMAIN machs
      <4>1. Len(machs) + 1 \notin DOMAIN machs
        BY DEF TypeOK
      <4>2. QED
        BY <3>1, <4>1 DEF Stands
    <3>3. ~machs'[req'[r].m].big
      BY <2>1, <3>2 DEF Acts, Handles
    <3>4. QED
      BY <1>6, <3>2, <3>3
  <2>5. QED
    BY <1>6, <2>2, <2>3, <2>4 DEF Acts, Enters
<1>7. QED
  BY <1>1, <1>4, <1>5, <1>6

\* Where no resume is.
LEMMA FallenStep ==
    ASSUME Begun, Begun', Halts, Fallen, NEW r \in Request, Acts(r), Moves(r)
    PROVE  Fallen'
PROOF
<1>1. SUFFICES ASSUME Plain, Resizable, env \cap Resumes = {}
      PROVE  /\ Known' => doc'.status \in {"running", "suspended", "error"}
             /\ "refresh" \in env /\ Known' /\ doc'.status = "suspended" =>
                  req'["refresh"].pc = "done"
             /\ InFlight("refresh")' =>
                  req'["refresh"].doc.status = "running" /\ req'["refresh"].pc # "sawUp"
             /\ req'["orphan"].pc = "clear" => doc'.status # "running"
  <2>1. env' = env
    BY DEF Moves
  <2>2. /\ (Plain' <=> Plain) /\ (Resizable' <=> Resizable)
    BY <2>1 DEF Plain, Orderly, Alone, TwoResumes, Apart, Many, Resizable
  <2>3. QED
    BY <1>1, <2>1, <2>2 DEF Fallen
<1>2. /\ Known => doc.status \in {"running", "suspended", "error"}
      /\ "refresh" \in env /\ Known /\ doc.status = "suspended" => req["refresh"].pc = "done"
      /\ InFlight("refresh") => req["refresh"].doc.status = "running" /\ req["refresh"].pc # "sawUp"
      /\ req["orphan"].pc = "clear" => doc.status # "running"
  BY <1>1 DEF Fallen
<1>3. /\ \A t \in Request : t # r => req'[t] = req[t]
      /\ env' = env /\ Spot(r) /\ req[r].pc # "done" /\ Spot(r)'
      /\ env \cap Movers = {}
      /\ "refresh" \in env => env \cap {"suspend", "suspended"} = {}
  <2>1. env \cap Movers = {}
    BY <1>1 DEF Plain, Movers
  <2>2. QED
    BY <1>1, <2>1 DEF Moves, Begun, Asked, Plain
<1>4. /\ "refresh" \in Request /\ "orphan" \in Request /\ "refresh" \notin Sweeps
      /\ Movers \cap Sweeps = {} /\ "suspend" \notin Sweeps
      /\ "refresh" \notin Firsts /\ "orphan" \notin Firsts
  BY Kinds DEF Request, Sweeps
<1>5. r \in Movers => req[r].pc = "idle" /\ req'[r].pc = "idle"
  BY <1>3, <1>4 DEF Spot, SpotAt
<1>6. ~Known /\ Known' => doc'.status = "running"
  <2> SUFFICES ASSUME ~Known, Known' PROVE doc'.status = "running"
    OBVIOUS
  <2>1. doc'.machine # doc.machine
    BY DEF Known
  <2>2. req[r].pc \in Last
    BY <2>1 DEF Acts, Naming
  <2>3. r \in Firsts
    BY <2>2 DEF Begun, Tended, InFlight, Last
  <2>4. req[r].pc = "finish"
    BY <1>3, <2>2, <2>3, Kinds DEF Spot, SpotAt, Last, Own
  <2>5. QED
    BY <2>4 DEF Acts, Naming
<1>7. Known => doc.status \notin {"absent", "draft"} /\ \A t \in Firsts : ~Launching(t)
  BY KnownFacts
<1>8. Known => ~(req[r].pc = "claim" /\ doc.status = req[r].doc.status)
  <2> SUFFICES ASSUME Known, req[r].pc = "claim" PROVE doc.status # req[r].doc.status
    OBVIOUS
  <2>1. r \in Firsts
    BY <1>3, <1>5, Kinds DEF Spot, SpotAt, Movers
  <2>2. req[r].doc.status = "draft"
    BY <2>1 DEF Begun, Launch
  <2>3. QED
    BY <1>7, <2>2
<1>9. Known' => doc'.status \in {"running", "suspended", "error"}
  <2>1. Known /\ doc'.status # doc.status => doc'.status \in {"running", "suspended", "error"}
    BY <1>7, <1>8 DEF Acts, Marks
  <2>2. QED
    BY <1>2, <1>6, <2>1
<1>10. ASSUME "refresh" \in env, Known', doc'.status = "suspended"
       PROVE  req'["refresh"].pc = "done"
  <2>1. Known
    BY <1>6, <1>10
  <2>2. CASE doc.status = "suspended"
    BY <1>2, <1>3, <1>4, <1>10, <2>1, <2>2
  <2>3. CASE doc.status # "suspended"
    <3>1. req[r].pc \in {"mark", "sawDown"}
      BY <1>10, <2>3 DEF Acts, Marks
    <3>2. req[r].pc # "mark"
      BY <1>3, <1>4, <1>10 DEF Halts, Spot, SpotAt, Halting
    <3>3. r = "refresh" /\ req[r].pc = "sawDown"
      BY <1>3, <3>1, <3>2 DEF Spot, SpotAt
    <3>4. req'[r].pc \in {"idle", "done"}
      BY <3>3 DEF Acts, Goes, Rest
    <3>5. QED
      BY <1>4, <3>3, <3>4 DEF Moves
  <2>4. QED
    BY <2>2, <2>3
<1>11. ASSUME InFlight("refresh")'
       PROVE  req'["refresh"].doc.status = "running" /\ req'["refresh"].pc # "sawUp"
  <2>1. CASE r # "refresh"
    BY <1>2, <1>3, <1>4, <1>11, <2>1 DEF InFlight
  <2>2. CASE r = "refresh" /\ req[r].pc = "idle"
    <3>1. /\ req'[r].doc = doc /\ doc.status # "error" /\ req'[r].pc = "state"
      <4>1. r \notin Creates
        BY <2>2 DEF Creates
      <4>2. QED
        BY <1>11, <2>2, <4>1 DEF Acts, Goes, InFlight
    <3>2. Known'
      BY <1>4, <1>11 DEF Begun, Tended
    <3>3. Known
      BY <2>2, <3>2 DEF Known, Acts, Naming, Last
    <3>4. "refresh" \in env
      BY <1>3, <1>4, <2>2, <3>1 DEF Spot, SpotAt
    <3>5. QED
      BY <1>2, <2>2, <3>1, <3>3, <3>4
  <2>3. CASE r = "refresh" /\ req[r].pc # "idle"
    <3>1. InFlight(r) /\ req'[r].pc \notin Rest
      BY <1>3, <1>11, <2>3 DEF InFlight, Rest
    <3>2. req[r].pc # "lock"
      BY <1>3, <2>3, Kinds DEF Spot, SpotAt, Own
    <3>3. req'[r].doc = req[r].doc
      BY <2>3, <3>1, <3>2 DEF Acts, Goes
    <3>4. QED
      BY <1>2, <2>3, <3>1, <3>3 DEF Acts, Goes
  <2>4. QED
    BY <2>1, <2>2, <2>3
<1>12. ASSUME req'["orphan"].pc = "clear"
       PROVE  doc'.status # "running"
  <2>1. req[r].pc # "sawUp" /\ (req[r].pc = "finish" => r \notin Movers)
    BY <1>2, <1>3, <1>5 DEF Spot, SpotAt, InFlight
  <2>2. CASE req["orphan"].pc = "clear"
    <3>1. Known
      BY <1>4, <2>2 DEF Begun, Tended, InFlight
    <3>2. QED
      BY <1>2, <2>1, <2>2, <3>1, StaysDown
  <2>3. CASE req["orphan"].pc # "clear"
    <3>1. r = "orphan" /\ req[r].pc = "idle" /\ doc.status # "running"
      BY <1>3, <1>4, <1>12, <2>3 DEF Acts, Goes
    <3>2. QED
      BY <3>1 DEF Acts, Marks
  <2>4. QED
    BY <2>2, <2>3
<1>13. QED
  BY <1>9, <1>10, <1>11, <1>12

\* Where a resume is.
LEMMA RisenStep ==
    ASSUME IInv, Begun, Flat, Guard, Halts, Risen, NEW r \in Request, Acts(r)
    PROVE  Risen'
PROOF
<1>1. SUFFICES ASSUME Plain, Resizable, env \cap Resumes # {}
      PROVE  /\ doc'.status # "running" => doc'.upgrade.by = "none"
             /\ req'["orphan"].pc # "clear"
  <2>1. env' = env
    BY DEF Acts, Goes
  <2>2. (Plain' <=> Plain) /\ (Resizable' <=> Resizable)
    BY <2>1 DEF Plain, Orderly, Alone, TwoResumes, Apart, Many, Resizable
  <2>3. QED
    BY <1>1, <2>1, <2>2 DEF Risen
<1>2. /\ doc.status # "running" => doc.upgrade.by = "none"
      /\ req["orphan"].pc # "clear"
  BY <1>1 DEF Risen
<1>3. /\ Many /\ Apart /\ Spot(r)
      /\ env \cap {"suspend", "refresh", "renew"} = {}
  <2>1. Many /\ Apart
    BY <1>1 DEF Plain, Many
  <2>2. QED
    BY <1>1, <2>1 DEF Plain, Apart, Begun, Asked
<1>4. /\ req[r].pc \notin {"mark", "sawUp", "sawDown", "swap", "remind"}
  <2>1. {"suspend", "refresh", "renew"} \cap Sweeps = {}
    BY DEF Sweeps
  <2>2. req[r].pc = "mark" => r = "suspend"
    BY DEF Halts, Halting
  <2>3. QED
    BY <1>3, <2>1, <2>2 DEF Spot, SpotAt
<1>5. doc.status = "running" => Known /\ \A s \in Firsts : ~Launching(s)
  BY KnownFacts DEF Begun, Tended
<1>6. req[r].pc = "claim" => req[r].doc.status # "running"
  <2> SUFFICES ASSUME req[r].pc = "claim" PROVE req[r].doc.status # "running"
    OBVIOUS
  <2>1. r \in Firsts \cup Resumes
    BY <1>3, Kinds DEF Spot, SpotAt
  <2>2. QED
    BY <1>3, <2>1 DEF Guard, Begun, Launch
<1>7. ASSUME doc'.status # "running" PROVE doc'.upgrade.by = "none"
  <2>1. CASE doc.status = "running"
    <3>1. \/ doc'.status = "error" /\ req[r].pc = "failed" /\ r \notin Wakes
          \/ doc'.upgrade.by = "none"
      BY <1>4, <1>6, <1>7, <2>1 DEF Acts, Marks
    <3>2. CASE req[r].pc = "failed" /\ r \notin Wakes
      <4>1. r \notin Firsts
        BY <1>5, <2>1, <3>2 DEF Launching
      <4>2. r \notin Resumes
        BY <1>3, <2>1, <3>2 DEF Guard, Moving, Movers
      <4>3. r \in Resizes
        BY <1>3, <3>2, <4>1, <4>2 DEF Spot, SpotAt, Movers
      <4>4. QED
        BY <3>2, <4>3 DEF Acts, Locking
    <3>3. QED
      BY <3>1, <3>2
  <2>2. CASE doc.status # "running"
    <3>1. ~(req[r].pc = "settle" /\ r = "upgrade")
      <4> SUFFICES ASSUME req[r].pc = "settle", r = "upgrade" PROVE FALSE
        OBVIOUS
      <4>1. Resizing(r)
        BY DEF Resizing, Resizes, Working
      <4>2. doc.claim = r
        BY <1>3, <4>1, ManyHold
      <4>3. QED
        BY <1>3, <2>2, <4>2 DEF Guard
    <3>2. QED
      BY <1>2, <1>4, <2>2, <3>1 DEF Acts, Grants
  <2>3. QED
    BY <2>1, <2>2
<1>8. req'["orphan"].pc # "clear"
  <2>1. "orphan" \in Request
    BY DEF Request, Sweeps
  <2>2. QED
    BY <1>2, <2>1 DEF Acts, Goes, Others
<1>9. QED
  BY <1>7, <1>8

\* A running mission's big machine is declared.
LEMMA DeclaredStep ==
    ASSUME IInv, Begun, Numbered, Late, Trims, Fallen, Risen, Declared,
           NEW r \in Request, Acts(r), Moves(r)
    PROVE  Declared'
PROOF
<1>1. SUFFICES ASSUME Plain, Resizable, doc'.status = "running", doc'.machine \in DOMAIN machs',
                      machs'[doc'.machine].big, doc'.upgrade.by = "none"
      PROVE  doc'.claim = "upgrade" /\ req'["upgrade"].pc \in {"settle", "done"}
  <2>1. env' = env
    BY DEF Acts, Goes
  <2>2. (Plain' <=> Plain) /\ (Resizable' <=> Resizable)
    BY <2>1 DEF Plain, Orderly, Alone, TwoResumes, Apart, Many, Resizable
  <2>3. QED
    BY <1>1, <2>2 DEF Declared
<1>2. /\ \A t \in Request : t # r => req'[t] = req[t]
      /\ Spot(r) /\ req[r].pc # "done" /\ Apart /\ env \cap Wakes = {} /\ TypeOK
      /\ "upgrade" \in Resizes /\ "upgrade" \in Request /\ "upgrade" \notin Sweeps
      /\ doc.machine \in Nat /\ Len(machs) \in Nat
      /\ \A m \in DOMAIN machs : ~machs[m].big => ~machs'[m].big
  <2>1. TypeOK /\ Spot(r)
    BY DEF IInv, Begun, Asked
  <2>2. doc.machine \in Nat /\ Len(machs) \in Nat
    BY <2>1 DEF TypeOK, Document
  <2>3. "upgrade" \in Resizes /\ "upgrade" \in Request /\ "upgrade" \notin Sweeps
    BY DEF Resizes, Request, Sweeps
  <2>4. \A m \in DOMAIN machs : ~machs[m].big => ~machs'[m].big
    BY DEF Acts, Handles
  <2>5. QED
    BY <1>1, <2>1, <2>2, <2>3, <2>4 DEF Moves, Plain
<1>3. Resizing(r) /\ doc.status = "running" => doc.claim = r
  BY <1>2 DEF IInv, ResizeExclusive, Late
<1>4. r \in Wakes => req[r].pc = "idle"
  <2>1. Wakes \cap Sweeps = {}
    BY DEF Wakes, Sweeps
  <2>2. QED
    BY <1>2, <2>1 DEF Spot, SpotAt
\* Whoever else names a machine names a small one.
<1>5. req[r].pc \in Last /\ doc'.machine = req[r].m => r = "upgrade"
  <2> SUFFICES ASSUME req[r].pc \in Last, doc'.machine = req[r].m, r # "upgrade" PROVE FALSE
    OBVIOUS
  <2>1. r \notin Wakes
    BY <1>4 DEF Last
  <2>2. req[r].m \in DOMAIN machs /\ ~machs[req[r].m].big
    BY <2>1 DEF Trims, Trim, Last
  <2>3. QED
    BY <1>1, <1>2, <2>2
<1>6. ~(req[r].pc = "settle" /\ r = "upgrade")
  BY <1>1 DEF Acts, Locking
<1>7. CASE doc'.machine # doc.machine
  <2>1. req[r].pc \in Last /\ r = "upgrade"
    BY <1>5, <1>7 DEF Acts, Naming
  <2>2. req[r].pc = "record"
    BY <1>2, <1>6, <2>1, Kinds DEF Last, Spot, SpotAt
  <2>3. req'[r].pc = "settle"
    BY <2>1, <2>2 DEF Acts, Goes
  <2>4. doc.status = "running"
    BY <1>1, <2>2 DEF Acts, Marks
  <2>5. Resizing(r) /\ Resizing(r)'
    BY <1>2, <2>1, <2>2, <2>3 DEF Resizing, Working
  <2>6. doc.claim = "upgrade"
    BY <1>3, <2>1, <2>4, <2>5
  <2>7. doc'.claim = "upgrade"
    BY <2>2, <2>5, <2>6 DEF Moves, Keeps, Locks, Releases, Recovers
  <2>8. QED
    BY <2>1, <2>3, <2>7
<1>8. CASE doc'.machine = doc.machine
  <2>1. doc.machine \in DOMAIN machs /\ machs[doc.machine].big
    <3>1. DOMAIN machs = 1 .. Len(machs) /\ DOMAIN machs' \subseteq Nat \ {0}
      BY DEF IInv, TypeOK, Acts, Handles
    <3>2. doc.machine \in DOMAIN machs
      BY <1>1, <1>2, <1>8, <3>1 DEF Numbered
    <3>3. QED
      BY <1>1, <1>2, <1>8, <3>2
  <2>2. Known
    BY <1>2, <2>1 DEF Known, TypeOK
  <2>3. req[r].pc # "finish"
    <3> SUFFICES ASSUME req[r].pc = "finish" PROVE FALSE
      OBVIOUS
    <3>1. doc'.machine = req[r].m
      BY <1>4 DEF Acts, Naming
    <3>2. r = "upgrade"
      BY <1>5, <3>1 DEF Last
    <3>3. QED
      BY <1>2, <3>2, Kinds DEF Spot, SpotAt
  <2>4. doc.status = "running"
    <3> SUFFICES ASSUME doc.status # "running" PROVE FALSE
      OBVIOUS
    <3>1. req[r].pc = "sawUp"
      BY <1>1, <2>3 DEF Acts, Marks
    <3>2. r = "refresh" /\ InFlight(r) /\ r \notin Sweeps /\ r \in env
      BY <1>2, <3>1 DEF Spot, SpotAt, InFlight, Sweeps
    <3>3. CASE env \cap Resumes = {}
      BY <1>1, <3>1, <3>2, <3>3 DEF Fallen
    <3>4. CASE env \cap Resumes # {}
      BY <1>1, <1>2, <3>2, <3>4 DEF Many, Apart
    <3>5. QED
      BY <3>3, <3>4
  <2>5. doc.upgrade.by = "none"
    <3> SUFFICES ASSUME doc.upgrade.by # "none" PROVE FALSE
      OBVIOUS
    <3>1. req[r].pc = "clear" \/ (req[r].pc = "settle" /\ doc'.machine = req[r].m /\ r # "upgrade")
      BY <1>1 DEF Acts, Grants
    <3>2. req[r].pc = "clear"
      BY <1>5, <3>1 DEF Last
    <3>3. r = "orphan"
      BY <1>2, <3>2 DEF Spot, SpotAt
    <3>4. CASE env \cap Resumes = {}
      BY <1>1, <2>4, <3>2, <3>3, <3>4 DEF Fallen
    <3>5. CASE env \cap Resumes # {}
      BY <1>1, <3>2, <3>3, <3>5 DEF Risen
    <3>6. QED
      BY <3>4, <3>5
  <2>6. doc.claim = "upgrade" /\ req["upgrade"].pc \in {"settle", "done"}
    BY <1>1, <2>1, <2>4, <2>5 DEF Declared
  <2>7. r # "upgrade"
    BY <1>2, <1>6, <2>6
  <2>8. ~Resizing(r)
    BY <1>3, <2>4, <2>6, <2>7
  <2>9. doc'.claim = "upgrade"
    <3>1. ~Recovers(r)
      <4>1. Recovers(r) => doc'.status = "error"
        BY <2>6 DEF Recovers, Acts, Locking
      <4>2. QED
        BY <1>1, <4>1
    <3>2. QED
      BY <2>6, <2>8, <3>1 DEF Moves, Keeps, Locks, Releases
  <2>10. QED
    BY <1>2, <2>6, <2>7, <2>9
<1>9. QED
  BY <1>7, <1>8

\* What holds of the shapes of a mission's machines.
Told == Small /\ Trims /\ Fallen /\ Risen /\ Declared

\* The start.
LEMMA ToldInit ==
    ASSUME Init
    PROVE  Told
PROOF
<1>1. \A r \in Request : req[r] = Idle
  BY DEF Init
<1>2. Idle.pc = "idle"
  BY DEF Idle
<1>3. \A r \in Request : req[r].pc = "idle" /\ ~InFlight(r)
  BY <1>1, <1>2 DEF InFlight
<1>4. "orphan" \in Request /\ "refresh" \in Request
  BY DEF Request, Sweeps
<1>5. PICK s \in Starts \cap env :
         LET known == s \in {"running", "upgraded", "suspended"}
             n     == IF known THEN 1 ELSE 0
             big   == s = "upgraded"
         IN  /\ doc = [status  |-> IF big THEN "running" ELSE s,
                       machine |-> n, volume |-> n, claim |-> "none",
                       upgrade |-> [by |-> IF big THEN "before" ELSE "none", due |-> FALSE]]
             /\ machs = IF known THEN <<[state |-> IF s = "suspended" THEN "down" ELSE "up",
                                         big |-> big, volume |-> 1]>> ELSE <<>>
  BY DEF Init
<1>6. Trims
  BY <1>3 DEF Trims, Trim, Last
<1>7. /\ doc.status = IF s = "upgraded" THEN "running" ELSE s
      /\ doc.upgrade.by = IF s = "upgraded" THEN "before" ELSE "none"
      /\ Known => s \in {"running", "upgraded", "suspended"}
  BY <1>5 DEF Known
<1>8. \A m \in DOMAIN machs : machs[m].big => s = "upgraded"
  <2>1. CASE s \in {"running", "upgraded", "suspended"}
    <3>1. machs = <<[state |-> IF s = "suspended" THEN "down" ELSE "up",
                     big |-> s = "upgraded", volume |-> 1]>>
      BY <1>5, <2>1
    <3>2. DOMAIN machs = {1} /\ machs[1].big = (s = "upgraded")
      BY <3>1
    <3>3. QED
      BY <3>2
  <2>2. CASE s \notin {"running", "upgraded", "suspended"}
    <3>1. machs = <<>>
      BY <1>5, <2>2
    <3>2. DOMAIN machs = {}
      BY <3>1
    <3>3. QED
      BY <3>2
  <2>3. QED
    BY <2>1, <2>2
<1>9. Small
  BY <1>5, <1>8 DEF Small, Resizable
<1>10. Fallen
  BY <1>3, <1>4, <1>5, <1>7 DEF Fallen, Plain
<1>11. Risen
  BY <1>3, <1>4, <1>7 DEF Risen
<1>12. Declared
  BY <1>7, <1>8 DEF Declared
<1>13. QED
  BY <1>6, <1>9, <1>10, <1>11, <1>12 DEF Told

\* A step of the environment.
LEMMA ToldEbbs ==
    ASSUME Told, Ebbs
    PROVE  Told'
PROOF
<1>1. /\ env' = env /\ doc'.status = doc.status /\ doc'.machine = doc.machine
      /\ doc'.claim = doc.claim /\ doc'.upgrade.by = doc.upgrade.by
      /\ DOMAIN machs' = DOMAIN machs
      /\ \A m \in DOMAIN machs : machs'[m].big = machs[m].big
  BY DEF Ebbs
<1>2. \A r \in Request : req'[r] = req[r] \/ (req'[r].pc \in {"idle", "done"} /\ req'[r].m = 0)
  BY EbbsRest
<1>3. /\ (Plain' <=> Plain) /\ (Resizable' <=> Resizable) /\ (Known' <=> Known)
  BY <1>1 DEF Plain, Orderly, Alone, TwoResumes, Apart, Many, Resizable, Known
<1>4. /\ {"orphan", "refresh", "upgrade"} \subseteq Request
      /\ "refresh" \notin Sweeps /\ "upgrade" \notin Sweeps
  BY DEF Request, Resizes, Sweeps
<1>5. Small'
  BY <1>1, <1>3 DEF Small, Told
<1>6. Trims'
  <2> SUFFICES ASSUME NEW r \in Request PROVE Trim(r)'
    BY DEF Trims
  <2>1. CASE req'[r] = req[r]
    BY <1>1, <2>1 DEF Told, Trims, Trim, Last
  <2>2. CASE req'[r].pc \in {"idle", "done"}
    BY <2>2 DEF Trim, Last
  <2>3. QED
    BY <1>2, <2>1, <2>2
<1>7. Fallen'
  <2>1. req["refresh"].pc = "done" => req'["refresh"].pc = "done"
    BY <1>4 DEF Ebbs, InFlight
  <2>2. InFlight("refresh")' => InFlight("refresh") /\ req'["refresh"] = req["refresh"]
    BY <1>2, <1>4 DEF InFlight
  <2>3. req'["orphan"].pc = "clear" => req["orphan"].pc = "clear"
    BY <1>2, <1>4
  <2>4. QED
    BY <1>1, <1>3, <2>1, <2>2, <2>3 DEF Fallen, Told
<1>8. Risen'
  BY <1>1, <1>2, <1>3, <1>4 DEF Risen, Told
<1>9. Declared'
  <2>1. req["upgrade"].pc \in {"settle", "done"} => req'["upgrade"].pc \in {"settle", "done"}
    BY <1>4 DEF Ebbs
  <2>2. QED
    BY <1>1, <1>3, <2>1 DEF Declared, Told
<1>10. QED
  BY <1>5, <1>6, <1>7, <1>8, <1>9 DEF Told

\* One step.
LEMMA ToldNext ==
    ASSUME IInv, Plain, Kept, Told, [Next]_vars
    PROVE  Plain' /\ Kept' /\ Told'
PROOF
<1>1. Orderly /\ TypeOK /\ Begun
  BY DEF Plain, IInv, Kept
<1>2. env' = env => (Apart' <=> Apart) /\ (Resizable' <=> Resizable)
  BY DEF Apart, Many, Resizable
<1>3. env' = env /\ Orderly' => Plain'
  BY <1>2 DEF Plain
<1>4. ASSUME NEW r \in Request, Begin(r) \/ OnDocument(r) \/ AskFly(r)
      PROVE  Plain' /\ Kept' /\ Told'
  <2>1. Acts(r) /\ Moves(r) /\ TypeOK' /\ Orderly' /\ Kept'
    BY <1>1, <1>4, KeptStep
  <2>2. Small' /\ Trims'
    BY <1>1, <2>1, SmallStep, TrimsStep DEF Kept, Told
  <2>3. Fallen' /\ Risen' /\ Declared'
    BY <1>1, <2>1, FallenStep, RisenStep, DeclaredStep DEF Kept, Told
  <2>4. env' = env
    BY <2>1 DEF Moves
  <2>5. QED
    BY <1>3, <2>1, <2>2, <2>3, <2>4 DEF Told
<1>5. ASSUME MachineEnds \/ WindowEnds \/ Die \/ UNCHANGED vars
      PROVE  Plain' /\ Kept' /\ Told'
  <2>1. Ebbs /\ Orderly' /\ Kept'
    BY <1>1, <1>5, KeptEbbs
  <2>2. Told' /\ env' = env
    BY <2>1, ToldEbbs DEF Ebbs
  <2>3. QED
    BY <1>3, <2>1, <2>2
<1>6. QED
  BY <1>4, <1>5 DEF Next

\* Nothing runs on a bigger machine for nothing, in every plain environment: a running
\* mission whose machine is up and big says so, or a resize is at work on it.
THEOREM BigKnown == Spec /\ Plain => []BigIsTemporary
PROOF
<1> DEFINE BInv == Plain /\ Kept /\ Told
<1>1. Init /\ Plain => BInv
  BY KeptInit, ToldInit DEF Plain
<1>2. IInv /\ BInv /\ [Next]_vars => BInv'
  BY ToldNext
<1>3. BInv => BigIsTemporary
  <2> SUFFICES ASSUME Plain, Small, Declared PROVE BigIsTemporary
    BY DEF Told
  <2>1. "upgrade" # "none"
    OBVIOUS
  <2>2. CASE Resizable
    BY <2>1, <2>2 DEF Declared, BigIsTemporary, Up
  <2>3. CASE ~Resizable
    BY <2>3 DEF Small, BigIsTemporary, Up
  <2>4. QED
    BY <2>2, <2>3
<1> HIDE DEF BInv
<1>4. QED
  BY <1>1, <1>2, <1>3, Invariant, PTL DEF Spec

===============================================================================
