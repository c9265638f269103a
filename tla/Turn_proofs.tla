----------------------------- MODULE Turn_proofs -----------------------------
(***************************************************************************)
(* Proofs about Turn: its types, that no two turns share a number, that    *)
(* nothing stored is forgotten, that the mental map keeps its edits, and   *)
(* that the history a turn starts from replays, for any bounds and         *)
(* environments.                                                           *)
(***************************************************************************)
EXTENDS Turn, WellFoundedInduction, FiniteSetTheorems, TLAPS

-----------------------------------------------------------------------------
(* The inductive invariant *)

Kinds == Main \cup {"summary", "note", "sub"}
Loop  == {"task", "call", "tools", "interrupted", "done", "recover"}
Snaps == {<<>>} \cup {<<m>> : m \in SUBSET Nat}
Record == [kind: Kinds, turn: Nat, seq: Nat, calls: 0 .. MaxCalls, of: Nat \X Nat,
           snap: Snaps, covers: SUBSET Nat, by: 1 .. MaxRuns]
Writer == [doc: Record, seq: Nat \cup {-1}, tries: 0 .. MaxTries - 1]

\* Every variable has its type; who runs has a run's number.
Types ==
  /\ docs \in Seq(Record) /\ put \in Writer \cup {None} /\ sub \in Writer \cup {None}
  /\ compacted \subseteq Docs /\ history \subseteq Docs /\ dropped \subseteq Docs
  /\ pc \in Loop \cup {"idle", "load", "decide", "reflect", "compact", "reload", "number",
                       "drop", "again"}
  /\ base \in Nat \cup {-1} /\ turn \in Nat /\ run \in 0 .. MaxRuns
  /\ (pc # "idle" => run \in 1 .. MaxRuns)
  /\ edits \in Nat /\ map \subseteq 1 .. edits /\ kept \subseteq 1 .. edits
  /\ env \in Envs /\ faults \in 0 .. MaxFaults

\* A document stored behind n others covers earlier ones, and only a summary
\* covers any; its map has edits that were made, up to the e-th.
Fits(d, n, e) ==
  /\ d.covers \subseteq 1 .. n /\ (d.kind # "summary" => d.covers = {})
  /\ d.snap # <<>> => d.snap[1] \subseteq 1 .. e

\* So it is with what is stored, and with what is about to be; turn numbers have
\* a bound.
StoreFits ==
  /\ \A i \in Docs : Fits(docs[i], i - 1, edits)
  /\ \E n \in Nat : \A i \in Docs : docs[i].turn <= n
PutFits == put # None => Fits(put.doc, Len(docs), edits)
SubFits == sub # None => sub.doc.kind = "sub" /\ sub.doc.covers = {} /\ sub.doc.snap = <<>>
Fitting == StoreFits /\ PutFits /\ SubFits

\* Where the run is tells what its append under way stores.
Mine(d, t) == d.turn = t /\ d.by = run
Putting ==
  put # None =>
    \/ pc = "load" /\ put.doc.kind = "result" /\ put.doc.snap = <<>>
    \/ pc = "reflect" /\ Mine(put.doc, base + 1) /\ put.doc.kind = "note" /\ put.doc.snap = <<>>
    \/ /\ pc = "compact" /\ Mine(put.doc, base + 1) /\ put.doc.kind = "summary"
       /\ put.doc.snap = <<map>> /\ put.doc.covers = Session(history)
    \/ pc = "call" /\ Mine(put.doc, turn) /\ put.doc.kind = "user" /\ put.doc.snap = <<>>
    \/ /\ pc \in {"tools", "interrupted"} /\ Mine(put.doc, turn) /\ put.doc.kind = "result"
       /\ put.doc.snap = <<>>
    \/ /\ pc \in {"tools", "interrupted", "done", "recover"} /\ Mine(put.doc, turn)
       /\ put.doc.kind = "assistant" /\ put.doc.snap = <<map>>
    \/ /\ pc = "drop" /\ Mine(put.doc, turn + 1) /\ put.doc.kind = "summary"
       /\ put.doc.snap = <<>> /\ put.doc.covers = {}

\* Tools run for an answer of the turn; a sub-loop writes into a turn that its
\* run has written before.
Answered ==
  /\ pc \in {"tools", "interrupted"} =>
       \/ put # None /\ put.doc.kind = "assistant"
       \/ \E i \in Docs : docs[i].kind = "assistant"
  /\ sub # None => \E i \in Docs : docs[i].turn = sub.doc.turn /\ docs[i].by = sub.doc.by
  /\ pc \in {"tools"} =>
       \/ put # None
       \/ \E i \in Docs : Mine(docs[i], turn)

\* No document of another run has the turn that the append, the reflection or
\* the loop is about to write into.
Apart ==
  /\ TurnsApart
  /\ put # None => \A i \in Docs : docs[i].turn = put.doc.turn => docs[i].by = put.doc.by
  /\ pc = "reflect" => \A i \in Docs : docs[i].turn > base => docs[i].by = run
  /\ pc \in Loop => \A i \in Docs : docs[i].turn >= turn => docs[i].by = run

\* Once loaded, the map has what the newest snapshot has, and is in it before
\* its edits count as kept.
Maps ==
  /\ kept \subseteq NewestMap
  /\ pc \notin {"idle", "load"} => NewestMap \subseteq map
  /\ pc \in {"compact", "done"} /\ put = None => map \subseteq NewestMap

\* The session a reflection is about to compact is in its summary, stored and
\* not compacted; a turn under way is above everything compacted.
Memory ==
  /\ NothingForgotten
  /\ pc \in {"decide", "reflect"} \/ (pc = "compact" /\ put # None) => Load = history
  /\ pc = "compact" /\ put = None =>
       \E s \in Docs \ compacted :
         /\ docs[s].turn = base + 1 /\ docs[s].covers = Session(history)
         /\ Load = history \cup {s}
  /\ pc \in Loop \cup {"drop"} => \A i \in compacted : docs[i].turn < turn

IInv == Types /\ Fitting /\ Putting /\ Answered /\ Apart /\ Maps /\ Memory

-----------------------------------------------------------------------------
(* Maxima, and documents appended *)

\* A bounded set of integers has a greatest element, which is its Max.
LEMMA MaxIs ==
  ASSUME NEW S \in SUBSET Int, S # {}, NEW lo \in Int, NEW hi \in Int,
         \A x \in S : lo <= x /\ x <= hi
  PROVE  Max(S) \in S /\ \A x \in S : x <= Max(S)
<1> DEFINE T == {m \in Nat : \A x \in S : x <= lo + m}
<1>1. hi - lo \in T
  <2>1. PICK y \in S : lo <= y /\ y <= hi
    OBVIOUS
  <2>2. y \in Int /\ hi - lo \in Nat /\ lo + (hi - lo) = hi
    BY <2>1
  <2> QED BY <2>2
<1>2. PICK m \in T : \A u \in T : <<u, m>> \notin OpToRel(<, Nat)
  <2>1. T \in SUBSET Nat /\ T # {}
    BY <1>1
  <2> HIDE DEF T
  <2> QED BY <2>1, NatLessThanWellFounded, WFMin, Zenon
<1>3. m \in Nat /\ \A x \in S : x <= lo + m
  OBVIOUS
<1>4. lo + m \in S
  <2> SUFFICES ASSUME lo + m \notin S PROVE FALSE
    OBVIOUS
  <2>1. PICK y \in S : TRUE
    OBVIOUS
  <2>2. \A x \in S : x \in Int /\ x <= lo + m /\ x # lo + m /\ lo <= x
    BY <1>3
  <2>3. m >= 1
    BY <1>3, <2>1, <2>2
  <2>4. m - 1 \in Nat /\ \A x \in S : x <= lo + (m - 1)
    BY <1>3, <2>2, <2>3
  <2>5. m - 1 \in T
    BY <2>4
  <2>6. <<m - 1, m>> \in OpToRel(<, Nat)
    BY <1>3, <2>4 DEF OpToRel
  <2> QED BY <1>2, <2>5, <2>6
<1>5. \E x \in S : \A y \in S : x >= y
  BY <1>3, <1>4
<1>6. Max(S) \in S /\ \A y \in S : Max(S) >= y
  BY <1>5 DEF Max
<1> QED BY <1>6

\* ... and a least one, which is its Min.
LEMMA MinIs ==
  ASSUME NEW S \in SUBSET Nat, S # {}
  PROVE  Min(S) \in S
<1>1. PICK m \in S : \A u \in S : <<u, m>> \notin OpToRel(<, Nat)
  BY NatLessThanWellFounded, WFMin, Zenon
<1>2. ASSUME NEW u \in S PROVE m =< u
  <2>1. u \in Nat /\ m \in Nat /\ <<u, m>> \notin OpToRel(<, Nat)
    BY <1>1
  <2>2. ~ (u < m)
    BY <2>1 DEF OpToRel
  <2>3. u \in Nat /\ m \in Nat
    OBVIOUS
  <2> QED BY <2>2, <2>3
<1>3. \E x \in S : \A y \in S : x =< y
  BY <1>2
<1> QED BY <1>3 DEF Min

\* What TurnAssumption says of the constants.
LEMMA Consts ==
  /\ MaxTries \in Nat \ {0} /\ MaxCalls \in Nat /\ MaxFaults \in Nat /\ MaxRuns \in Nat
  /\ Envs \subseteq SUBSET Events
BY TurnAssumption

\* An append leaves what is stored and adds one behind it.
LEMMA Grown ==
  ASSUME docs \in Seq(Record), NEW d \in Record, docs' = Append(docs, d)
  PROVE  /\ docs' \in Seq(Record) /\ Len(docs) \in Nat /\ Len(docs') = Len(docs) + 1
         /\ Docs = 1 .. Len(docs) /\ Docs' = Docs \cup {Len(docs) + 1}
         /\ Len(docs) + 1 \notin Docs
         /\ \A i \in Docs : docs'[i] = docs[i] /\ i < Len(docs) + 1 /\ i \in Nat
         /\ docs'[Len(docs) + 1] = d
<1>1. Len(docs) \in Nat /\ Docs = 1 .. Len(docs) /\ Docs' = 1 .. Len(docs')
  BY DEF Docs
<1>2. docs' \in Seq(Record) /\ Len(docs') = Len(docs) + 1
  OBVIOUS
<1>3. \A i \in Docs : docs'[i] = docs[i]
  BY <1>1
<1>4. docs'[Len(docs) + 1] = d
  BY <1>1
<1> QED BY <1>1, <1>2, <1>3, <1>4

\* lastTurnNumber is at least every number stored.
LEMMA LastTurnIs ==
  ASSUME Types, Fitting
  PROVE  LastTurn \in Nat \cup {-1} /\ \A i \in Docs : docs[i].turn <= LastTurn
<1> DEFINE S == {-1} \cup {docs[i].turn : i \in DOMAIN docs}
<1>1. \A i \in DOMAIN docs : docs[i].turn \in Nat
  <2>1. \A i \in DOMAIN docs : docs[i] \in Record
    BY DEF Types
  <2> QED BY <2>1 DEF Record
<1>2. PICK n \in Nat : \A i \in Docs : docs[i].turn <= n
  BY DEF Fitting, StoreFits
<1>3. S \in SUBSET Int /\ S # {} /\ \A x \in S : -1 <= x /\ x <= n
  BY <1>1, <1>2 DEF Docs
<1>4. -1 \in Int /\ n \in Int
  BY <1>2
<1>5. LastTurn = Max(S)
  BY DEF LastTurn
<1>6. \A i \in Docs : docs[i].turn \in S
  BY DEF Docs
<1>7. S \subseteq Nat \cup {-1}
  BY <1>1
<1> HIDE DEF S
<1>8. Max(S) \in S /\ \A x \in S : x <= Max(S)
  BY <1>3, <1>4, MaxIs
<1> QED BY <1>5, <1>6, <1>7, <1>8

\* A map is read from the newest snapshot, ...
LEMMA NewestIs ==
  ASSUME docs \in Seq(Record)
  PROVE  \/ NewestMap = {} /\ \A i \in Docs : docs[i].snap = <<>>
         \/ \E i \in Docs : /\ docs[i].snap # <<>> /\ NewestMap = docs[i].snap[1]
                            /\ \A j \in Docs : docs[j].snap # <<>> => j <= i
<1> DEFINE S == {i \in DOMAIN docs : docs[i].snap # <<>>}
<1>1. NewestMap = IF S = {} THEN {} ELSE docs[Max(S)].snap[1]
  BY DEF NewestMap
<1>2. CASE S = {}
  BY <1>1, <1>2 DEF Docs
<1>3. CASE S # {}
  <2>1. /\ S \in SUBSET Int /\ Len(docs) \in Int /\ 1 \in Int
        /\ \A x \in S : 1 <= x /\ x <= Len(docs)
    OBVIOUS
  <2>2. \A x \in S : x \in Docs /\ docs[x].snap # <<>>
    BY DEF Docs
  <2>3. \A x \in Docs : docs[x].snap # <<>> => x \in S
    BY DEF Docs
  <2> HIDE DEF S
  <2>4. Max(S) \in S /\ \A x \in S : x <= Max(S)
    BY <1>3, <2>1, MaxIs
  <2> QED BY <1>1, <1>3, <2>2, <2>3, <2>4
<1> QED BY <1>2, <1>3

\* ... which an append with a map becomes, and one without leaves.
LEMMA NewestGrown ==
  ASSUME docs \in Seq(Record), NEW d \in Record, docs' = Append(docs, d)
  PROVE  NewestMap' = IF d.snap = <<>> THEN NewestMap ELSE d.snap[1]
<1>1. docs' \in Seq(Record)
  BY Grown
<1>2. \/ NewestMap' = {} /\ \A i \in Docs' : docs'[i].snap = <<>>
      \/ \E i \in Docs' : /\ docs'[i].snap # <<>> /\ NewestMap' = docs'[i].snap[1]
                          /\ \A j \in Docs' : docs'[j].snap # <<>> => j <= i
  <2> DEFINE S == {i \in DOMAIN docs' : docs'[i].snap # <<>>}
  <2>1. NewestMap' = IF S = {} THEN {} ELSE docs'[Max(S)].snap[1]
    BY DEF NewestMap
  <2>2. CASE S = {}
    BY <2>1, <2>2 DEF Docs
  <2>3. CASE S # {}
    <3>1. /\ S \in SUBSET Int /\ Len(docs') \in Int /\ 1 \in Int
          /\ \A x \in S : 1 <= x /\ x <= Len(docs')
      BY <1>1
    <3>2. \A x \in S : x \in Docs' /\ docs'[x].snap # <<>>
      BY DEF Docs
    <3>3. \A x \in Docs' : docs'[x].snap # <<>> => x \in S
      BY DEF Docs
    <3> HIDE DEF S
    <3>4. Max(S) \in S /\ \A x \in S : x <= Max(S)
      BY <2>3, <3>1, MaxIs
    <3> QED BY <2>1, <2>3, <3>2, <3>3, <3>4
  <2> QED BY <2>2, <2>3
<1> DEFINE n == Len(docs) + 1
<1>3. /\ Docs' = Docs \cup {n} /\ docs'[n] = d
      /\ \A i \in Docs : docs'[i] = docs[i] /\ i < n /\ i \in Nat
      /\ n \in Nat
  BY Grown
<1> HIDE DEF n
<1>4. CASE d.snap = <<>>
  <2>1. CASE NewestMap = {} /\ \A i \in Docs : docs[i].snap = <<>>
    <3>1. \A i \in Docs' : docs'[i].snap = <<>>
      BY <1>3, <1>4, <2>1
    <3> QED BY <1>2, <1>4, <2>1, <3>1
  <2>2. ASSUME NEW i \in Docs, docs[i].snap # <<>>, NewestMap = docs[i].snap[1],
               \A j \in Docs : docs[j].snap # <<>> => j <= i
        PROVE  NewestMap' = NewestMap
    <3>1. i \in Docs' /\ docs'[i].snap # <<>>
      BY <1>3, <2>2
    <3>2. PICK k \in Docs' : /\ docs'[k].snap # <<>> /\ NewestMap' = docs'[k].snap[1]
                             /\ \A j \in Docs' : docs'[j].snap # <<>> => j <= k
      BY <1>2, <3>1
    <3>3. k \in Docs /\ docs[k].snap # <<>>
      BY <1>3, <1>4, <3>2
    <3>4. k <= i /\ i <= k /\ i \in Nat /\ k \in Nat
      BY <1>3, <2>2, <3>1, <3>2, <3>3
    <3>5. k = i
      BY <3>4
    <3> QED BY <1>3, <2>2, <3>2, <3>5
  <2> QED BY <1>4, <2>1, <2>2, NewestIs
<1>5. CASE d.snap # <<>>
  <2>1. n \in Docs' /\ docs'[n].snap # <<>>
    BY <1>3, <1>5
  <2>2. PICK k \in Docs' : /\ docs'[k].snap # <<>> /\ NewestMap' = docs'[k].snap[1]
                           /\ \A j \in Docs' : docs'[j].snap # <<>> => j <= k
    BY <1>2, <2>1
  <2>3. n <= k
    BY <2>1, <2>2
  <2>4. k = n
    BY <1>3, <2>2, <2>3
  <2> QED BY <1>3, <1>5, <2>2, <2>4
<1> QED BY <1>4, <1>5

-----------------------------------------------------------------------------
(* What the actions write *)

\* A message written by the run of the moment is a document.
LEMMA DocType ==
  ASSUME NEW k \in Kinds, NEW t \in Nat, run \in 1 .. MaxRuns
  PROVE  Doc(k, t) \in Record
<1>1. 0 \in 0 .. MaxCalls /\ <<0, 0>> \in Nat \X Nat
  BY Consts
<1>2. <<>> \in Snaps /\ {} \in SUBSET Nat /\ 0 \in Nat
  BY DEF Snaps
<1> QED BY <1>1, <1>2 DEF Doc, Record

\* An append of a document starts with no place and no try.
LEMMA PutType ==
  ASSUME NEW d \in Record
  PROVE  [doc |-> d, seq |-> -1, tries |-> 0] \in Writer
BY Consts DEF Writer

\* What is loaded is stored.
LEMMA LoadIs ==
  /\ Load \subseteq Docs
  /\ Load = {i \in Docs : i \notin compacted /\ docs[i].kind \notin {"note", "sub"}}
BY DEF Load, Docs

\* A document has the fields of one.
LEMMA Fields ==
  ASSUME docs \in Seq(Record), NEW i \in Docs
  PROVE  /\ docs[i] \in Record /\ i \in Nat /\ i \in 1 .. Len(docs)
         /\ docs[i].kind \in Kinds /\ docs[i].turn \in Nat /\ docs[i].seq \in Nat
         /\ docs[i].calls \in 0 .. MaxCalls /\ docs[i].of \in Nat \X Nat
         /\ docs[i].snap \in Snaps /\ docs[i].covers \in SUBSET Nat
         /\ docs[i].by \in 1 .. MaxRuns
<1>1. docs[i] \in Record /\ i \in Nat /\ i \in 1 .. Len(docs)
  BY DEF Docs
<1> QED BY <1>1 DEF Record

\* A session is made of stored messages.
LEMMA SessionType ==
  ASSUME Types, Fitting, NEW S \in SUBSET Docs
  PROVE  Session(S) \subseteq Docs
<1> SUFFICES ASSUME NEW x \in Session(S) PROVE x \in Docs
  OBVIOUS
<1>1. x \in S \/ \E i \in S : x \in docs[i].covers
  BY DEF Session
<1>2. ASSUME NEW i \in S, x \in docs[i].covers PROVE x \in Docs
  <2>1. i \in Docs /\ docs \in Seq(Record)
    BY DEF Types
  <2>2. docs[i].covers \subseteq 1 .. i - 1
    BY <2>1 DEF Fitting, StoreFits, Fits
  <2>3. i \in 1 .. Len(docs) /\ Len(docs) \in Nat
    BY <2>1 DEF Docs
  <2>4. x \in 1 .. i - 1
    BY <1>2, <2>2
  <2>5. x \in 1 .. Len(docs)
    BY <2>3, <2>4
  <2> QED BY <2>1, <2>5 DEF Docs
<1> QED BY <1>1, <1>2

\* The summary of a session is a document.
LEMMA SummaryType ==
  ASSUME Types, Fitting, pc = "reflect"
  PROVE  /\ Summary \in Record /\ Summary.kind = "summary" /\ Mine(Summary, base + 1)
         /\ Summary.covers = Session(history) /\ Summary.snap = <<map>>
<1>1. base + 1 \in Nat /\ run \in 1 .. MaxRuns
  BY DEF Types
<1>2. "summary" \in Kinds
  BY DEF Kinds
<1>3. Doc("summary", base + 1) \in Record
  BY <1>1, <1>2, DocType
<1>4. Session(history) \in SUBSET Nat
  <2>1. history \in SUBSET Docs /\ Docs \subseteq Nat
    BY DEF Types, Docs
  <2> QED BY <2>1, SessionType
<1>5. <<map>> \in Snaps
  <2>1. map \in SUBSET Nat
    BY DEF Types
  <2> QED BY <2>1 DEF Snaps
<1>6. Summary = [Doc("summary", base + 1) EXCEPT !.covers = Session(history), !.snap = <<map>>]
  BY DEF Summary
<1>7. Summary \in Record
  BY <1>3, <1>4, <1>5, <1>6 DEF Record
<1>8. Summary.covers = Session(history) /\ Summary.snap = <<map>>
  BY <1>6 DEF Doc
<1>9. Summary.kind = "summary" /\ Summary.turn = base + 1 /\ Summary.by = run
  BY <1>6 DEF Doc
<1> QED BY <1>7, <1>8, <1>9 DEF Mine

\* So is an answer of the LLM, ...
LEMMA AssistantType ==
  ASSUME Types, pc # "idle", NEW n \in 0 .. MaxCalls
  PROVE  /\ Assistant(n) \in Record /\ Assistant(n).kind = "assistant"
         /\ Mine(Assistant(n), turn) /\ Assistant(n).covers = {} /\ Assistant(n).snap = <<map>>
<1>1. turn \in Nat /\ run \in 1 .. MaxRuns
  BY DEF Types
<1>2. "assistant" \in Kinds
  BY DEF Kinds, Main
<1>3. Doc("assistant", turn) \in Record
  BY <1>1, <1>2, DocType
<1>4. <<map>> \in Snaps
  <2>1. map \in SUBSET Nat
    BY DEF Types
  <2> QED BY <2>1 DEF Snaps
<1>5. Assistant(n) = [Doc("assistant", turn) EXCEPT !.calls = n, !.snap = <<map>>]
  BY DEF Assistant
<1>6. Assistant(n) \in Record
  BY <1>3, <1>4, <1>5 DEF Record
<1>7. /\ Assistant(n).kind = "assistant" /\ Assistant(n).turn = turn /\ Assistant(n).by = run
      /\ Assistant(n).covers = {}
  BY <1>5 DEF Doc
<1>8. Assistant(n).snap = <<map>>
  BY <1>5 DEF Doc
<1> QED BY <1>6, <1>7, <1>8 DEF Mine

\* ... the result of a tool call, ...
LEMMA ResultType ==
  ASSUME Types, Answered, Free, pc \in {"tools", "interrupted"}, Unanswered # {}
  PROVE  /\ Result \in Record /\ Result.kind = "result" /\ Mine(Result, turn)
         /\ Result.covers = {} /\ Result.snap = <<>>
<1> DEFINE S == {i \in DOMAIN docs : docs[i].kind = "assistant"}
<1>1. S # {} /\ S \in SUBSET Int /\ \A x \in S : 1 <= x /\ x <= Len(docs)
  BY DEF Answered, Free, Docs, Types
<1>2. /\ 1 \in Int /\ Len(docs) \in Int /\ LastAnswer = Max(S)
      /\ S \subseteq Docs /\ Docs \subseteq Nat
  BY DEF Types, LastAnswer, Docs
<1>3. LastAnswer \in Docs /\ LastAnswer \in Nat
  <2> HIDE DEF S
  <2> QED BY <1>1, <1>2, MaxIs
<1>4. Min(Unanswered) \in Nat
  <2>1. \A k \in Unanswered : k \in 1 .. docs[LastAnswer].calls
    BY DEF Unanswered
  <2>2. Unanswered \in SUBSET Nat
    BY <2>1
  <2> QED BY <2>2, MinIs
<1>5. turn \in Nat /\ run \in 1 .. MaxRuns
  BY DEF Types
<1>6. "result" \in Kinds
  BY DEF Kinds, Main
<1>7. Doc("result", turn) \in Record
  BY <1>5, <1>6, DocType
<1>8. Result = [Doc("result", turn) EXCEPT !.of = <<LastAnswer, Min(Unanswered)>>]
  BY DEF Result
<1>9. <<LastAnswer, Min(Unanswered)>> \in Nat \X Nat
  BY <1>3, <1>4
<1>10. Result \in Record
  BY <1>7, <1>8, <1>9 DEF Record
<1>11. /\ Result.kind = "result" /\ Result.turn = turn /\ Result.by = run
       /\ Result.covers = {}
  BY <1>8 DEF Doc
<1>12. Result.snap = <<>>
  BY <1>8 DEF Doc
<1> QED BY <1>10, <1>11, <1>12 DEF Mine

\* ... and the repair's result of a call left dangling, in its call's own turn.
LEMMA RepairType ==
  ASSUME Types, pc = "load", NEW c \in Dangling(Load),
         NEW d, d = [Doc("result", docs[c[1]].turn) EXCEPT !.of = c, !.by = docs[c[1]].by]
  PROVE  /\ d \in Record /\ d.kind = "result" /\ d.covers = {} /\ d.snap = <<>>
         /\ c[1] \in Docs /\ d.turn = docs[c[1]].turn /\ d.by = docs[c[1]].by
<1>1. PICK i \in Load : c \in {<<i, k>> : k \in 1 .. docs[i].calls}
  BY DEF Dangling, Calls
<1>2. PICK k \in 1 .. docs[i].calls : c = <<i, k>>
  BY <1>1
<1>3. i \in Docs /\ docs \in Seq(Record) /\ run \in 1 .. MaxRuns
  BY <1>1, LoadIs DEF Types
<1>4. i \in Nat /\ docs[i].turn \in Nat /\ docs[i].by \in 1 .. MaxRuns /\ k \in Nat /\ c[1] = i
  BY <1>2, <1>3, Fields
<1>5. "result" \in Kinds
  BY DEF Kinds, Main
<1>6. Doc("result", docs[i].turn) \in Record
  BY <1>3, <1>4, <1>5, DocType
<1>7. c \in Nat \X Nat
  BY <1>2, <1>4
<1>8. d \in Record
  BY <1>4, <1>6, <1>7 DEF Record
<1>9. d.kind = "result" /\ d.covers = {} /\ d.turn = docs[i].turn /\ d.by = docs[i].by
  BY <1>4 DEF Doc
<1>10. d.snap = <<>>
  BY <1>4 DEF Doc
<1> QED BY <1>3, <1>4, <1>8, <1>9, <1>10

\* The documents of a turn are counted.
LEMMA StoredType ==
  ASSUME docs \in Seq(Record), NEW t
  PROVE  Stored(t) \in Nat
<1> DEFINE S == {i \in DOMAIN docs : docs[i].turn = t}
<1>1. IsFiniteSet(1 .. Len(docs)) /\ S \subseteq 1 .. Len(docs)
  BY FS_Interval
<1>2. IsFiniteSet(S)
  BY <1>1, FS_Subset
<1> QED BY <1>2, FS_CardinalityType DEF Stored

\* A writer holds a document, whatever it does.
LEMMA Writing ==
  ASSUME NEW w \in Writer
  PROVE  /\ w.doc \in Record /\ w.seq \in Nat \cup {-1} /\ w.tries \in 0 .. MaxTries - 1
         /\ w.doc.kind \in Kinds /\ w.doc.turn \in Nat
         /\ \A n \in Nat : [w EXCEPT !.seq = n] \in Writer
         /\ [w EXCEPT !.seq = -1, !.tries = 0] \in Writer
         /\ w.tries + 1 < MaxTries => [w EXCEPT !.seq = -1, !.tries = w.tries + 1] \in Writer
         /\ w.seq >= 0 => [w.doc EXCEPT !.seq = w.seq] \in Record
<1>1. w.doc \in Record /\ w.seq \in Nat \cup {-1} /\ w.tries \in 0 .. MaxTries - 1
  BY DEF Writer
<1>2. w.doc.kind \in Kinds /\ w.doc.turn \in Nat
  BY <1>1 DEF Record
<1>3. \A n \in Nat : [w EXCEPT !.seq = n] \in Writer
  BY DEF Writer
<1>4. [w EXCEPT !.seq = -1, !.tries = 0] \in Writer
  <2>1. 0 \in 0 .. MaxTries - 1 /\ -1 \in Nat \cup {-1}
    BY Consts
  <2> QED BY <2>1 DEF Writer
<1>5. ASSUME w.tries + 1 < MaxTries
      PROVE  [w EXCEPT !.seq = -1, !.tries = w.tries + 1] \in Writer
  <2>1. w.tries + 1 \in 0 .. MaxTries - 1
    BY <1>1, <1>5, Consts
  <2> QED BY <2>1 DEF Writer
<1>6. w.seq >= 0 => [w.doc EXCEPT !.seq = w.seq] \in Record
  BY <1>1 DEF Record
<1> QED BY <1>1, <1>2, <1>3, <1>4, <1>5, <1>6

\* The types of what is stored, of the run and of the writers.
TypesOfStore ==
  /\ docs \in Seq(Record)
  /\ compacted \subseteq Docs /\ history \subseteq Docs /\ dropped \subseteq Docs
TypesOfRun ==
  /\ pc \in Loop \cup {"idle", "load", "decide", "reflect", "compact", "reload", "number",
                       "drop", "again"}
  /\ base \in Nat \cup {-1} /\ turn \in Nat /\ run \in 0 .. MaxRuns
  /\ (pc # "idle" => run \in 1 .. MaxRuns)
  /\ edits \in Nat /\ map \subseteq 1 .. edits /\ kept \subseteq 1 .. edits
  /\ env \in Envs /\ faults \in 0 .. MaxFaults

\* The three groups make up the types, ...
LEMMA TypesAre ==
  Types <=> /\ TypesOfStore /\ TypesOfRun
            /\ put \in Writer \cup {None} /\ sub \in Writer \cup {None}
BY DEF Types, TypesOfStore, TypesOfRun

\* ... after a step too.
LEMMA TypesNext ==
  ASSUME TypesOfStore', TypesOfRun', put' \in Writer \cup {None}, sub' \in Writer \cup {None}
  PROVE  Types'
BY DEF Types, TypesOfStore, TypesOfRun

\* What is stored stays what it was, or grows by a document.
LEMMA StoreGrown ==
  ASSUME Types, NEW d \in Record, docs' = Append(docs, d),
         UNCHANGED <<compacted, history, dropped>>
  PROVE  TypesOfStore'
<1>1. docs' \in Seq(Record) /\ Docs \subseteq Docs'
  BY Grown DEF Types
<1> QED BY <1>1 DEF Types, TypesOfStore

\* Nothing stored changes.
LEMMA StoreSame ==
  ASSUME Types, UNCHANGED <<docs, compacted, history, dropped>>
  PROVE  TypesOfStore'
BY DEF Types, TypesOfStore, Docs

\* Faults are counted up to their bound.
LEMMA FaultType ==
  ASSUME Types, NEW k, Fault(k)
  PROVE  faults' \in 0 .. MaxFaults
BY Consts DEF Types, Fault

\* Every action keeps the types.
LEMMA TypesStep ==
  ASSUME IInv, Next
  PROVE  Types'
<1> USE DEF IInv
<1>a. Types /\ Fitting /\ Putting /\ Answered
  OBVIOUS
<1>b. TypesOfStore /\ TypesOfRun /\ put \in Writer \cup {None} /\ sub \in Writer \cup {None}
  BY <1>a, TypesAre
<1>1. CASE Count
  <2>1. put \in Writer /\ Stored(put.doc.turn) \in Nat
    BY <1>a, <1>1, StoredType DEF Types, Count, Free
  <2>2. put' \in Writer
    BY <1>1, <2>1, Writing DEF Count
  <2>3. TypesOfStore'
    BY <1>a, <1>1, StoreSame DEF Count, store, ghosts
  <2>4. TypesOfRun' /\ sub' = sub
    BY <1>b, <1>1 DEF Count, store, ghosts, TypesOfRun
  <2> QED BY <1>b, <2>2, <2>3, <2>4, TypesNext
<1>2. CASE Insert \/ InsertFails
  <2>1. put \in Writer /\ put.seq >= 0
    BY <1>a, <1>2 DEF Types, Insert, InsertFails, Free
  <2>2. put' \in Writer \cup {None}
    BY <1>2, <2>1, Writing DEF Insert, InsertFails, Throw
  <2>3. TypesOfStore'
    <3>1. docs' = docs \/ docs' = Append(docs, [put.doc EXCEPT !.seq = put.seq])
      BY <1>2 DEF Insert, InsertFails
    <3>2. UNCHANGED <<compacted, history, dropped>>
      BY <1>2 DEF Insert, InsertFails, ghosts
    <3>3. [put.doc EXCEPT !.seq = put.seq] \in Record
      BY <2>1, Writing
    <3> QED BY <1>a, <3>1, <3>2, <3>3, StoreGrown, StoreSame
  <2>4. sub' = sub /\ UNCHANGED <<env, run, base, turn, map, edits, kept>>
    BY <1>2 DEF Insert, InsertFails, ghosts
  <2>5. pc' \in {pc, "number", "idle"} /\ (pc = "idle" => pc' = "idle")
    <3>1. Putting
      BY <1>a
    <3>2. pc # "idle"
      BY <3>1, <1>2 DEF Putting, Insert, InsertFails, Free
    <3> QED BY <1>2, <3>2 DEF Insert, InsertFails, Throw
  <2>6. faults' \in 0 .. MaxFaults
    <3>1. CASE Insert
      BY <1>b, <3>1 DEF Insert, TypesOfRun
    <3>2. CASE InsertFails
      BY <1>a, <3>2, FaultType DEF InsertFails
    <3> QED BY <1>2, <3>1, <3>2
  <2>7. TypesOfRun'
    BY <1>b, <2>4, <2>5, <2>6 DEF TypesOfRun, Loop
  <2> QED BY <1>b, <2>2, <2>3, <2>4, <2>7, TypesNext
<1>3. CASE ReadFails \/ Die
  <2>1. TypesOfStore' /\ put' = None /\ sub' \in {sub, None}
    BY <1>a, <1>3, StoreSame DEF ReadFails, Die, store, ghosts, Throw
  <2>2. faults' \in 0 .. MaxFaults
    BY <1>a, <1>3, FaultType DEF ReadFails, Die
  <2>3. /\ UNCHANGED <<env, run, base, turn, map, edits, kept>>
        /\ pc # "idle" /\ pc' \in {"number", "idle"}
    BY <1>3 DEF ReadFails, Die, Throw, ghosts
  <2>4. TypesOfRun'
    BY <1>b, <2>2, <2>3 DEF TypesOfRun
  <2> QED BY <1>b, <2>1, <2>4, TypesNext
<1>4. CASE Wake
  <2>1. TypesOfStore' /\ UNCHANGED <<put, sub>>
    BY <1>a, <1>4, StoreSame DEF Wake, store, ghosts
  <2>2. run' \in 1 .. MaxRuns
    BY <1>b, <1>4, Consts DEF TypesOfRun, Wake
  <2>3. UNCHANGED <<env, base, turn, map, edits, kept, faults>> /\ pc' = "load"
    BY <1>4 DEF Wake, ghosts
  <2>4. TypesOfRun'
    BY <1>b, <2>2, <2>3 DEF TypesOfRun
  <2> QED BY <1>b, <2>1, <2>4, TypesNext
<1>5. CASE LoadHistory
  <2>1. UNCHANGED <<env, store, run, base, turn, sub, ghosts, faults>> /\ pc = "load"
    BY <1>5 DEF LoadHistory
  <2>2. ASSUME NEW c \in Dangling(Load),
               Put([Doc("result", docs[c[1]].turn) EXCEPT !.of = c, !.by = docs[c[1]].by]),
               UNCHANGED <<pc, map, history>>
        PROVE  Types'
    <3> DEFINE d == [Doc("result", docs[c[1]].turn) EXCEPT !.of = c, !.by = docs[c[1]].by]
    <3>1. d \in Record
      BY <1>a, <2>1, RepairType
    <3> HIDE DEF d
    <3>2. put' \in Writer
      BY <2>2, <3>1, PutType DEF Put, d
    <3>3. TypesOfStore'
      BY <1>a, <2>1, <2>2, StoreSame DEF store, ghosts
    <3>4. TypesOfRun'
      BY <1>b, <2>1, <2>2 DEF TypesOfRun, ghosts
    <3> QED BY <1>b, <2>1, <3>2, <3>3, <3>4, TypesNext
  <2>3. ASSUME history' = Load, map' = NewestMap, pc' = "decide", UNCHANGED put
        PROVE  Types'
    <3>1. TypesOfStore'
      BY <1>b, <2>1, <2>3, LoadIs DEF TypesOfStore, store, ghosts, Docs
    <3>2. NewestMap \subseteq 1 .. edits
      <4>1. docs \in Seq(Record) /\ \A i \in Docs : Fits(docs[i], i - 1, edits)
        BY <1>a DEF Types, Fitting, StoreFits
      <4>2. \/ NewestMap = {}
            \/ \E i \in Docs : docs[i].snap # <<>> /\ NewestMap = docs[i].snap[1]
        BY <4>1, NewestIs
      <4> QED BY <4>1, <4>2 DEF Fits
    <3>3. TypesOfRun'
      BY <1>b, <2>1, <2>3, <3>2 DEF TypesOfRun, ghosts
    <3> QED BY <1>b, <2>1, <2>3, <3>1, <3>3, TypesNext
  <2> QED BY <1>5, <2>2, <2>3 DEF LoadHistory
<1>6. CASE Decide
  <2>1. TypesOfStore' /\ UNCHANGED <<put, sub>>
    BY <1>a, <1>6, StoreSame DEF Decide, store, ghosts
  <2>2. base' \in Nat \cup {-1}
    BY <1>a, <1>6, LastTurnIs DEF Decide, Types
  <2>3. /\ UNCHANGED <<env, run, turn, map, edits, kept, faults>>
        /\ pc # "idle" /\ pc' \in {"number", "reflect"}
    BY <1>6 DEF Decide, ghosts
  <2>4. TypesOfRun'
    BY <1>b, <2>2, <2>3 DEF TypesOfRun
  <2> QED BY <1>b, <2>1, <2>4, TypesNext
<1>7. CASE Note
  <2>1. TypesOfStore' /\ UNCHANGED sub
    BY <1>a, <1>7, StoreSame DEF Note, store
  <2>2. put' \in Writer
    <3>1. base + 1 \in Nat /\ run \in 1 .. MaxRuns /\ "note" \in Kinds
      BY <1>b, <1>7 DEF Note, TypesOfRun, Kinds
    <3>2. Doc("note", base + 1) \in Record
      BY <3>1, DocType
    <3> QED BY <1>7, <3>2, PutType DEF Note, Put
  <2>3. UNCHANGED <<env, run, pc, base, turn, kept, faults>>
    BY <1>7 DEF Note
  <2>4. edits' \in Nat /\ map' \subseteq 1 .. edits' /\ kept \subseteq 1 .. edits'
    <3>1. CASE UNCHANGED <<map, edits>>
      BY <1>b, <3>1 DEF TypesOfRun
    <3>2. CASE edits' = edits + 1 /\ map' = map \cup {edits'}
      <4>1. edits \in Nat /\ map \subseteq 1 .. edits /\ kept \subseteq 1 .. edits
        BY <1>b DEF TypesOfRun
      <4>2. /\ edits' \in Nat /\ edits' = edits + 1
            /\ 1 .. edits \subseteq 1 .. edits' /\ edits' \in 1 .. edits'
        BY <3>2, <4>1
      <4> QED BY <3>2, <4>1, <4>2
    <3> QED BY <1>7, <3>1, <3>2 DEF Note
  <2>5. TypesOfRun'
    BY <1>b, <2>3, <2>4 DEF TypesOfRun
  <2> QED BY <1>b, <2>1, <2>2, <2>5, TypesNext
<1>8. CASE Summarise
  <2>1. TypesOfStore' /\ UNCHANGED sub
    BY <1>a, <1>8, StoreSame DEF Summarise, store, ghosts
  <2>2. put' \in Writer \cup {None}
    <3>1. Summary \in Record
      BY <1>a, <1>8, SummaryType DEF Summarise
    <3> QED BY <1>b, <1>8, <3>1, PutType DEF Summarise, Put
  <2>3. /\ UNCHANGED <<env, run, base, turn, map, edits, kept, faults>>
        /\ pc # "idle" /\ pc' \in {"compact", "reload"}
    BY <1>8 DEF Summarise, ghosts
  <2>4. TypesOfRun'
    BY <1>b, <2>3 DEF TypesOfRun
  <2> QED BY <1>b, <2>1, <2>2, <2>4, TypesNext
<1>9. CASE Compact
  <2>1. TypesOfStore' /\ UNCHANGED <<put, sub>>
    BY <1>b, <1>9 DEF Compact, CompactBelow, TypesOfStore, Docs
  <2>2. TypesOfRun'
    BY <1>b, <1>9 DEF Compact, TypesOfRun
  <2> QED BY <1>b, <2>1, <2>2, TypesNext
<1>10. CASE Reload
  <2>1. TypesOfStore' /\ UNCHANGED <<put, sub>>
    BY <1>b, <1>10, LoadIs DEF Reload, TypesOfStore, store, ghosts, Docs
  <2>2. faults' \in 0 .. MaxFaults
    BY <1>a, <1>b, <1>10, FaultType DEF Reload, TypesOfRun
  <2>3. UNCHANGED <<env, run, base, turn, map, edits, kept>> /\ pc # "idle" /\ pc' = "number"
    BY <1>10 DEF Reload, ghosts
  <2>4. TypesOfRun'
    BY <1>b, <2>2, <2>3 DEF TypesOfRun
  <2> QED BY <1>b, <2>1, <2>4, TypesNext
<1>11. CASE PickNumber \/ Again
  <2>1. TypesOfStore' /\ UNCHANGED <<put, sub>>
    BY <1>b, <1>11, LoadIs DEF PickNumber, Again, TypesOfStore, store, ghosts, Docs
  <2>2. LastTurn + 1 \in Nat
    <3>1. LastTurn \in Nat \cup {-1}
      BY <1>a, LastTurnIs
    <3> QED BY <3>1
  <2>3. /\ UNCHANGED <<env, run, base, map, edits, kept, faults>>
        /\ pc # "idle" /\ pc' = "task" /\ turn' = LastTurn + 1
    BY <1>11 DEF PickNumber, Again, ghosts
  <2>4. TypesOfRun'
    BY <1>b, <2>2, <2>3 DEF TypesOfRun, Loop
  <2> QED BY <1>b, <2>1, <2>4, TypesNext
<1>12. CASE Task
  <2>1. TypesOfStore' /\ UNCHANGED sub
    BY <1>a, <1>12, StoreSame DEF Task, store, ghosts
  <2>2. put' \in Writer
    <3>1. turn \in Nat /\ run \in 1 .. MaxRuns /\ "user" \in Kinds
      BY <1>b, <1>12 DEF Task, TypesOfRun, Kinds, Main
    <3>2. Doc("user", turn) \in Record
      BY <3>1, DocType
    <3> QED BY <1>12, <3>2, PutType DEF Task, Put
  <2>3. TypesOfRun'
    BY <1>b, <1>12 DEF Task, TypesOfRun, Loop, ghosts
  <2> QED BY <1>b, <2>1, <2>2, <2>3, TypesNext
<1>13. CASE (\E n \in 0 .. MaxCalls : Answer(n) \/ AnswerFails(n)) \/ Reject
  <2>1. PICK n \in 0 .. MaxCalls : Put(Assistant(n))
    BY <1>13, Consts DEF Answer, AnswerFails, Reject
  <2>2. /\ pc = "call" /\ pc' \in {"tools", "done", "interrupted", "recover"}
        /\ UNCHANGED <<env, store, run, base, turn, map, history, sub, ghosts>>
    BY <1>13 DEF Answer, AnswerFails, Reject
  <2>3. TypesOfStore' /\ UNCHANGED sub
    BY <1>a, <2>2, StoreSame DEF store, ghosts
  <2>4. put' \in Writer
    <3>1. Assistant(n) \in Record
      BY <1>a, <2>2, AssistantType
    <3> QED BY <2>1, <3>1, PutType DEF Put
  <2>5. faults' \in 0 .. MaxFaults
    BY <1>a, <1>b, <1>13, FaultType DEF Answer, AnswerFails, Reject, TypesOfRun
  <2>6. TypesOfRun'
    BY <1>b, <2>2, <2>5 DEF TypesOfRun, Loop, ghosts
  <2> QED BY <1>b, <2>3, <2>4, <2>6, TypesNext
<1>14. CASE Tool
  <2>1. TypesOfStore'
    BY <1>a, <1>14, StoreSame DEF Tool, store
  <2>2. put' \in Writer
    <3>1. Result \in Record
      BY <1>a, <1>14, ResultType DEF Tool
    <3> QED BY <1>14, <3>1, PutType DEF Tool, Put
  <2>3. sub' \in Writer \cup {None}
    <3>1. turn \in Nat /\ run \in 1 .. MaxRuns /\ "sub" \in Kinds
      BY <1>b, <1>14 DEF Tool, TypesOfRun, Kinds
    <3>2. Doc("sub", turn) \in Record
      BY <3>1, DocType
    <3>3. [doc |-> Doc("sub", turn), seq |-> -1, tries |-> 0] \in Writer
      BY <3>2, PutType
    <3> QED BY <1>b, <1>14, <3>3 DEF Tool
  <2>4. UNCHANGED <<env, run, pc, base, turn, kept, faults>>
    BY <1>14 DEF Tool
  <2>5. edits' \in Nat /\ map' \subseteq 1 .. edits' /\ kept \subseteq 1 .. edits'
    <3>1. CASE UNCHANGED <<map, edits>>
      BY <1>b, <3>1 DEF TypesOfRun
    <3>2. CASE edits' = edits + 1 /\ map' = map \cup {edits'}
      <4>1. edits \in Nat /\ map \subseteq 1 .. edits /\ kept \subseteq 1 .. edits
        BY <1>b DEF TypesOfRun
      <4>2. /\ edits' \in Nat /\ edits' = edits + 1
            /\ 1 .. edits \subseteq 1 .. edits' /\ edits' \in 1 .. edits'
        BY <3>2, <4>1
      <4> QED BY <3>2, <4>1, <4>2
    <3> QED BY <1>14, <3>1, <3>2 DEF Tool
  <2>6. TypesOfRun'
    BY <1>b, <2>4, <2>5 DEF TypesOfRun
  <2> QED BY <1>b, <2>1, <2>2, <2>3, <2>6, TypesNext
<1>15. CASE Interrupt
  <2>1. TypesOfStore' /\ UNCHANGED sub
    BY <1>a, <1>15, StoreSame DEF Interrupt, store, ghosts
  <2>2. put' \in Writer \cup {None}
    <3>1. CASE Unanswered # {}
      <4>1. Result \in Record
        BY <1>a, <1>15, <3>1, ResultType DEF Interrupt
      <4> QED BY <1>15, <3>1, <4>1, PutType DEF Interrupt, Put
    <3>2. CASE Unanswered = {}
      BY <1>b, <1>15, <3>2 DEF Interrupt
    <3> QED BY <3>1, <3>2
  <2>3. /\ pc = "interrupted" /\ pc' \in {pc, "idle"}
        /\ UNCHANGED <<env, run, base, turn, map, edits, kept, faults>>
    BY <1>15 DEF Interrupt, ghosts
  <2>4. TypesOfRun'
    BY <1>b, <2>3 DEF TypesOfRun
  <2> QED BY <1>b, <2>1, <2>2, <2>4, TypesNext
<1>16. CASE NextCall \/ Cut
  <2>1. TypesOfStore' /\ UNCHANGED <<put, sub>>
    BY <1>a, <1>16, StoreSame DEF NextCall, Cut, store, ghosts
  <2>2. /\ pc # "idle" /\ pc' \in {"call", "idle"}
        /\ UNCHANGED <<env, run, base, turn, map, edits, kept, faults>>
    BY <1>16 DEF NextCall, Cut, ghosts
  <2>3. TypesOfRun'
    BY <1>b, <2>2 DEF TypesOfRun, Loop
  <2> QED BY <1>b, <2>1, <2>3, TypesNext
<1>17. CASE Done
  <2>1. TypesOfStore' /\ UNCHANGED <<put, sub>>
    BY <1>a, <1>17, StoreSame DEF Done, store
  <2>2. TypesOfRun'
    BY <1>b, <1>17 DEF Done, TypesOfRun
  <2> QED BY <1>b, <2>1, <2>2, TypesNext
<1>18. CASE Recover
  <2>1. TypesOfStore' /\ UNCHANGED sub
    BY <1>a, <1>18, StoreSame DEF Recover, store, ghosts
  <2>2. put' \in Writer
    <3>1. turn + 1 \in Nat /\ run \in 1 .. MaxRuns /\ "summary" \in Kinds
      BY <1>b, <1>18 DEF Recover, TypesOfRun, Kinds
    <3>2. Doc("summary", turn + 1) \in Record
      BY <3>1, DocType
    <3> QED BY <1>18, <3>2, PutType DEF Recover, Put
  <2>3. TypesOfRun'
    BY <1>b, <1>18 DEF Recover, TypesOfRun, ghosts
  <2> QED BY <1>b, <2>1, <2>2, <2>3, TypesNext
<1>19. CASE Drop
  <2>1. TypesOfStore' /\ UNCHANGED <<put, sub>>
    BY <1>b, <1>19 DEF Drop, CompactBelow, TypesOfStore, Docs
  <2>2. TypesOfRun'
    BY <1>b, <1>19 DEF Drop, TypesOfRun
  <2> QED BY <1>b, <2>1, <2>2, TypesNext
<1>20. CASE SubCount
  <2>1. sub \in Writer /\ Stored(sub.doc.turn) \in Nat
    BY <1>a, <1>20, StoredType DEF Types, SubCount
  <2>2. sub' \in Writer
    BY <1>20, <2>1, Writing DEF SubCount
  <2>3. TypesOfStore'
    BY <1>a, <1>20, StoreSame DEF SubCount, store, ghosts
  <2>4. TypesOfRun' /\ put' = put
    BY <1>b, <1>20 DEF SubCount, store, ghosts, TypesOfRun
  <2> QED BY <1>b, <2>2, <2>3, <2>4, TypesNext
<1>21. CASE SubInsert
  <2>1. sub \in Writer /\ sub.seq >= 0
    BY <1>a, <1>21 DEF Types, SubInsert
  <2>2. sub' \in Writer \cup {None}
    BY <1>21, <2>1, Writing DEF SubInsert
  <2>3. TypesOfStore'
    <3>1. docs' = docs \/ docs' = Append(docs, [sub.doc EXCEPT !.seq = sub.seq])
      BY <1>21 DEF SubInsert
    <3>2. UNCHANGED <<compacted, history, dropped>>
      BY <1>21 DEF SubInsert, ghosts
    <3>3. [sub.doc EXCEPT !.seq = sub.seq] \in Record
      BY <2>1, Writing
    <3> QED BY <1>a, <3>1, <3>2, <3>3, StoreGrown, StoreSame
  <2>4. TypesOfRun' /\ put' = put
    BY <1>b, <1>21 DEF SubInsert, ghosts, TypesOfRun
  <2> QED BY <1>b, <2>2, <2>3, <2>4, TypesNext
<1> QED
  BY <1>1, <1>2, <1>3, <1>4, <1>5, <1>6, <1>7, <1>8, <1>9, <1>10, <1>11, <1>12, <1>13,
     <1>14, 
     <1>15, <1>16, <1>17, <1>18, <1>19, <1>20, <1>21 DEF Next

\* One message, wherever it is placed.
Same(d, e) ==
  /\ d.kind = e.kind /\ d.turn = e.turn /\ d.by = e.by
  /\ d.covers = e.covers /\ d.snap = e.snap /\ d.calls = e.calls /\ d.of = e.of

\* A writer's message stays the same while it is counted, tried and stored.
LEMMA Carrying ==
  ASSUME NEW w \in Writer
  PROVE  /\ \A n : [w EXCEPT !.seq = n].doc = w.doc
         /\ \A n, m : [w EXCEPT !.seq = n, !.tries = m].doc = w.doc
         /\ Same(w.doc, [w.doc EXCEPT !.seq = w.seq])
<1>1. w.doc \in Record
  BY DEF Writer
<1>2. \A n : [w EXCEPT !.seq = n].doc = w.doc
  BY DEF Writer
<1>3. \A n, m : [w EXCEPT !.seq = n, !.tries = m].doc = w.doc
  BY DEF Writer
<1>4. Same(w.doc, [w.doc EXCEPT !.seq = w.seq])
  BY <1>1 DEF Same, Record
<1> QED BY <1>2, <1>3, <1>4

\* What an append stores.
LEMMA PutStores ==
  ASSUME Types, Insert \/ InsertFails
  PROVE  /\ put \in Writer /\ put # None
         /\ \/ docs' = docs
            \/ \E d \in Record : docs' = Append(docs, d) /\ Same(put.doc, d) /\ put' = None
         /\ put' = None \/ (put' # None /\ put'.doc = put.doc /\ pc' = pc /\ docs' = docs)
         /\ UNCHANGED <<env, compacted, run, base, turn, map, history, sub, ghosts>>
         /\ \/ pc' = pc
            \/ put' = None /\ pc' = IF pc \in {"reflect", "compact"} THEN "number" ELSE "idle"
         /\ \/ put' # None
            \/ \E d \in Record : docs' = Append(docs, d) /\ Same(put.doc, d)
            \/ pc' = IF pc \in {"reflect", "compact"} THEN "number" ELSE "idle"
<1>1. put \in Writer /\ put # None /\ put.seq >= 0
  BY DEF Types, Insert, InsertFails, Free
<1> DEFINE d == [put.doc EXCEPT !.seq = put.seq]
           w == [put EXCEPT !.seq = -1, !.tries = put.tries + 1]
<1>2. d \in Record /\ Same(put.doc, d)
  BY <1>1, Writing, Carrying
<1>3. w.doc = put.doc
  BY <1>1, Carrying
<1>4. put.tries + 1 < MaxTries => w \in Writer
  BY <1>1, Writing
<1>5. w \in Writer => w # None
  BY DEF Writer, None
<1>6. docs' = docs \/ (docs' = Append(docs, d) /\ put' = None)
  BY DEF Insert, InsertFails, Throw
<1>7. put' = None \/ (put.tries + 1 < MaxTries /\ put' = w /\ pc' = pc /\ docs' = docs)
  BY DEF Insert, InsertFails, Throw
<1>8. UNCHANGED <<env, compacted, run, base, turn, map, history, sub, ghosts>>
  BY DEF Insert, InsertFails
<1>9. \/ pc' = pc
      \/ put' = None /\ pc' = IF pc \in {"reflect", "compact"} THEN "number" ELSE "idle"
  BY DEF Insert, InsertFails, Throw
<1>10. \/ put.tries + 1 < MaxTries /\ put' = w
       \/ docs' = Append(docs, d)
       \/ pc' = IF pc \in {"reflect", "compact"} THEN "number" ELSE "idle"
  BY DEF Insert, InsertFails, Throw
<1> HIDE DEF d, w
<1> QED BY <1>1, <1>2, <1>3, <1>4, <1>5, <1>6, <1>7, <1>8, <1>9, <1>10

\* What a sub-loop stores.
LEMMA SubStores ==
  ASSUME Types, SubInsert
  PROVE  /\ sub \in Writer /\ sub # None
         /\ docs' = docs \/ \E d \in Record : docs' = Append(docs, d) /\ Same(sub.doc, d)
         /\ sub' = None \/ (sub' # None /\ sub'.doc = sub.doc)
         /\ UNCHANGED <<env, compacted, run, pc, base, turn, map, history, put, ghosts>>
<1>1. sub \in Writer /\ sub # None /\ sub.seq >= 0
  BY DEF Types, SubInsert
<1> DEFINE d == [sub.doc EXCEPT !.seq = sub.seq]
           w == [sub EXCEPT !.seq = -1, !.tries = sub.tries + 1]
           v == [sub EXCEPT !.seq = -1, !.tries = 0]
<1>2. d \in Record /\ Same(sub.doc, d)
  BY <1>1, Writing, Carrying
<1>3. w.doc = sub.doc /\ v.doc = sub.doc
  BY <1>1, Carrying
<1>4. (sub.tries + 1 < MaxTries => w \in Writer) /\ v \in Writer
  BY <1>1, Writing
<1>5. (w \in Writer => w # None) /\ (v \in Writer => v # None)
  BY DEF Writer, None
<1>6. docs' = docs \/ docs' = Append(docs, d)
  BY DEF SubInsert
<1>7. sub' = None \/ (sub.tries + 1 < MaxTries /\ sub' = w) \/ sub' = v
  BY DEF SubInsert
<1>8. UNCHANGED <<env, compacted, run, pc, base, turn, map, history, put, ghosts>>
  BY DEF SubInsert
<1> HIDE DEF d, w, v
<1> QED BY <1>1, <1>2, <1>3, <1>4, <1>5, <1>6, <1>7, <1>8

\* Counting changes a writer's place only.
LEMMA Counts ==
  ASSUME Types
  PROVE  /\ Count => /\ put # None /\ put' # None /\ put'.doc = put.doc /\ docs' = docs
                     /\ UNCHANGED <<env, store, run, pc, base, turn, map, history, sub, ghosts>>
         /\ SubCount => /\ sub # None /\ sub' # None /\ sub'.doc = sub.doc /\ docs' = docs
                        /\ UNCHANGED <<env, store, run, pc, base, turn, map, history, put, ghosts>>
<1>1. ASSUME Count
      PROVE  /\ put # None /\ put' # None /\ put'.doc = put.doc /\ docs' = docs
             /\ UNCHANGED <<env, store, run, pc, base, turn, map, history, sub, ghosts>>
  <2>1. put \in Writer /\ put # None
    BY <1>1 DEF Types, Count, Free
  <2>2. Stored(put.doc.turn) \in Nat
    BY StoredType DEF Types
  <2>3. put' \in Writer /\ put'.doc = put.doc
    BY <1>1, <2>1, <2>2, Writing, Carrying DEF Count
  <2>4. put' # None
    BY <2>3 DEF Writer, None
  <2>5. UNCHANGED <<env, store, run, pc, base, turn, map, history, sub, ghosts>>
    BY <1>1 DEF Count
  <2>6. docs' = docs
    BY <2>5 DEF store
  <2> QED BY <2>1, <2>3, <2>4, <2>5, <2>6
<1>2. ASSUME SubCount
      PROVE  /\ sub # None /\ sub' # None /\ sub'.doc = sub.doc /\ docs' = docs
             /\ UNCHANGED <<env, store, run, pc, base, turn, map, history, put, ghosts>>
  <2>1. sub \in Writer /\ sub # None
    BY <1>2 DEF Types, SubCount
  <2>2. Stored(sub.doc.turn) \in Nat
    BY StoredType DEF Types
  <2>3. sub' \in Writer /\ sub'.doc = sub.doc
    BY <1>2, <2>1, <2>2, Writing, Carrying DEF SubCount
  <2>4. sub' # None
    BY <2>3 DEF Writer, None
  <2>5. UNCHANGED <<env, store, run, pc, base, turn, map, history, put, ghosts>>
    BY <1>2 DEF SubCount
  <2>6. docs' = docs
    BY <2>5 DEF store
  <2> QED BY <2>1, <2>3, <2>4, <2>5, <2>6
<1> QED BY <1>1, <1>2

\* A message of the run that covers nothing, and the append of one.
LEMMA DocIs ==
  ASSUME NEW k, NEW t
  PROVE  /\ Doc(k, t).kind = k /\ Mine(Doc(k, t), t)
         /\ Doc(k, t).covers = {} /\ Doc(k, t).snap = <<>>
BY DEF Doc, Mine

\* An append under way carries its message.
LEMMA PutIs ==
  ASSUME NEW d, Put(d)
  PROVE  put' # None /\ put'.doc = d
BY DEF Put, None

\* What is stored fits, with edits that grow, ...
LEMMA FitsMore ==
  ASSUME NEW d \in Record, NEW n \in Int, NEW e \in Nat, Fits(d, n, e),
         NEW m \in Int, n <= m, NEW f \in Nat, e <= f
  PROVE  Fits(d, m, f)
<1>1. d.covers \subseteq 1 .. m /\ (d.kind # "summary" => d.covers = {})
  BY DEF Fits
<1>2. d.snap # <<>> => d.snap[1] \subseteq 1 .. f
  BY DEF Fits
<1> QED BY <1>1, <1>2 DEF Fits

\* ... while nothing is stored, ...
LEMMA StoreFitsSame ==
  ASSUME Types, Fitting, docs' = docs, edits' \in Nat, edits <= edits'
  PROVE  StoreFits'
<1>1. Docs' = Docs /\ docs \in Seq(Record) /\ edits \in Nat
  BY DEF Docs, Types
<1>2. ASSUME NEW i \in Docs PROVE Fits(docs[i], i - 1, edits')
  <2>1. docs[i] \in Record /\ i - 1 \in Int /\ i - 1 <= i - 1 /\ Fits(docs[i], i - 1, edits)
    BY <1>1, Fields DEF Fitting, StoreFits
  <2> QED BY <1>1, <2>1, FitsMore
<1>3. \E n \in Nat : \A i \in Docs : docs[i].turn <= n
  BY DEF Fitting, StoreFits
<1> QED BY <1>1, <1>2, <1>3 DEF StoreFits

\* ... and with one document more.
LEMMA StoreFitsGrown ==
  ASSUME Types, Fitting, NEW d \in Record, docs' = Append(docs, d), Fits(d, Len(docs), edits),
         edits' = edits
  PROVE  StoreFits'
<1> DEFINE n == Len(docs) + 1
<1>1. /\ Docs' = Docs \cup {n} /\ docs'[n] = d
      /\ \A i \in Docs : docs'[i] = docs[i]
      /\ n \in Nat /\ n - 1 = Len(docs)
  BY Grown DEF Types
<1> HIDE DEF n
<1>2. ASSUME NEW i \in Docs' PROVE Fits(docs'[i], i - 1, edits')
  <2>1. CASE i \in Docs
    BY <1>1, <2>1 DEF Fitting, StoreFits
  <2>2. CASE i = n
    BY <1>1, <2>2
  <2> QED BY <1>1, <2>1, <2>2
<1>3. \E m \in Nat : \A i \in Docs' : docs'[i].turn <= m
  <2>1. PICK m \in Nat : \A i \in Docs : docs[i].turn <= m
    BY DEF Fitting, StoreFits
  <2>2. d.turn \in Nat
    BY DEF Record
  <2>3. m + d.turn \in Nat /\ d.turn <= m + d.turn
    BY <2>2
  <2>4. ASSUME NEW i \in Docs' PROVE docs'[i].turn <= m + d.turn
    <3>1. CASE i \in Docs
      <4>1. docs[i].turn \in Nat /\ docs[i].turn <= m
        BY <3>1, <2>1, Fields DEF Types
      <4>2. docs'[i] = docs[i]
        BY <1>1, <3>1
      <4>3. docs[i].turn <= m + d.turn
        BY <2>2, <4>1
      <4> QED BY <4>2, <4>3
    <3>2. CASE i = n
      BY <1>1, <2>3, <3>2
    <3> QED BY <1>1, <3>1, <3>2
  <2> QED BY <2>3, <2>4
<1> QED BY <1>2, <1>3 DEF StoreFits

\* An append under way stays fit while documents and edits grow.
LEMMA PutFitsSame ==
  ASSUME Types, Fitting, put # None, put'.doc = put.doc, Len(docs') \in Nat,
         Len(docs) <= Len(docs'), edits' \in Nat, edits <= edits'
  PROVE  PutFits'
<1>1. put.doc \in Record /\ Fits(put.doc, Len(docs), edits)
  BY DEF Fitting, PutFits, Types, Writer
<1>2. Len(docs) \in Nat /\ edits \in Nat
  BY DEF Types
<1>3. Fits(put.doc, Len(docs'), edits')
  BY <1>1, <1>2, FitsMore
<1> QED BY <1>3 DEF PutFits

\* A message that covers nothing and has no map, or the run's, fits.
LEMMA PlainFits ==
  ASSUME Types, NEW d, d.covers = {}, d.snap = <<>> \/ d.snap = <<map>>, NEW n
  PROVE  Fits(d, n, edits)
<1>1. d.snap # <<>> => d.snap[1] = map
  OBVIOUS
<1>2. map \subseteq 1 .. edits
  BY DEF Types
<1> QED BY <1>1, <1>2 DEF Fits

\* One without a map fits anywhere.
LEMMA FitsNoMap ==
  ASSUME NEW d, d.covers = {}, d.snap = <<>>, NEW n, NEW e
  PROVE  Fits(d, n, e)
BY DEF Fits

\* Every action writes what fits.
LEMMA FittingStep ==
  ASSUME IInv, Next, Types'
  PROVE  Fitting'
<1> USE DEF IInv
<1>a. Types /\ Fitting /\ Putting /\ Answered /\ edits \in Nat /\ docs \in Seq(Record)
  BY DEF Types
<1>b. StoreFits /\ PutFits /\ SubFits
  BY DEF Fitting
<1>c. Len(docs) \in Nat
  BY <1>a
<1>1. CASE Count
  <2>1. /\ put # None /\ put'.doc = put.doc /\ docs' = docs
        /\ UNCHANGED <<env, store, run, pc, base, turn, map, history, sub, ghosts>>
    BY <1>a, <1>1, Counts
  <2>2. edits' = edits /\ SubFits'
    BY <1>b, <2>1 DEF SubFits, ghosts
  <2>3. StoreFits' /\ PutFits'
    BY <1>a, <1>c, <2>1, <2>2, StoreFitsSame, PutFitsSame
  <2> QED BY <2>2, <2>3 DEF Fitting
<1>2. CASE Insert \/ InsertFails
  <2>1. /\ put \in Writer /\ put # None
        /\ \/ docs' = docs
           \/ \E d \in Record : docs' = Append(docs, d) /\ Same(put.doc, d) /\ put' = None
        /\ put' = None \/ (put' # None /\ put'.doc = put.doc /\ pc' = pc /\ docs' = docs)
        /\ UNCHANGED <<env, compacted, run, base, turn, map, history, sub, ghosts>>
    BY <1>a, <1>2, PutStores
  <2>2. edits' = edits /\ SubFits'
    BY <1>b, <2>1 DEF SubFits, ghosts
  <2>3. StoreFits'
    <3>1. CASE docs' = docs
      BY <1>a, <2>2, <3>1, StoreFitsSame
    <3>2. ASSUME NEW d \in Record, docs' = Append(docs, d), Same(put.doc, d)
          PROVE StoreFits'
      <4>1. Fits(d, Len(docs), edits)
        BY <1>b, <2>1, <3>2 DEF PutFits, Fits, Same
      <4> QED BY <1>a, <2>2, <3>2, <4>1, StoreFitsGrown
    <3> QED BY <2>1, <3>1, <3>2
  <2>4. PutFits'
    <3>1. CASE put' = None
      BY <3>1 DEF PutFits
    <3>2. CASE put'.doc = put.doc /\ docs' = docs
      BY <1>a, <1>c, <2>1, <2>2, <3>2, PutFitsSame
    <3> QED BY <2>1, <3>1, <3>2
  <2> QED BY <2>2, <2>3, <2>4 DEF Fitting
<1>3. CASE \/ ReadFails \/ Die \/ Wake \/ Decide \/ Compact \/ Reload \/ PickNumber \/ NextCall
           \/ Cut \/ Done \/ Drop \/ Again
  <2>1. docs' = docs /\ edits' = edits /\ put' \in {put, None} /\ sub' \in {sub, None}
    BY <1>3
       DEF ReadFails, Throw, Die, Wake, Decide, Compact, Reload, PickNumber, NextCall,
           Cut, Done, 
                Drop, Again, store, ghosts
  <2>2. StoreFits'
    BY <1>a, <2>1, StoreFitsSame
  <2>3. PutFits' /\ SubFits'
    BY <1>b, <2>1 DEF PutFits, SubFits
  <2> QED BY <2>2, <2>3 DEF Fitting
<1>4. CASE LoadHistory \/ Summarise \/ Task \/ Interrupt \/ Recover \/ Reject
           \/ \E n \in 0 .. MaxCalls : Answer(n) \/ AnswerFails(n)
  <2>1. docs' = docs /\ edits' = edits /\ sub' = sub
    BY <1>4
       DEF LoadHistory, Summarise, Task, Interrupt, Recover, Reject, Answer,
           AnswerFails, store, 
                ghosts
  <2>2. StoreFits' /\ SubFits'
    BY <1>a, <1>b, <2>1, StoreFitsSame DEF SubFits
  <2>3. put' = put \/ \E d : Put(d) /\ Fits(d, Len(docs), edits)
    <3>1. CASE LoadHistory
      <4>1. ASSUME NEW c \in Dangling(Load),
                   Put([Doc("result", docs[c[1]].turn) EXCEPT !.of = c, !.by = docs[c[1]].by])
            PROVE  \E d : Put(d) /\ Fits(d, Len(docs), edits)
        <5> DEFINE d == [Doc("result", docs[c[1]].turn) EXCEPT !.of = c, !.by = docs[c[1]].by]
        <5>1. d.covers = {} /\ d.snap = <<>>
          BY <1>a, <3>1, RepairType DEF LoadHistory
        <5> HIDE DEF d
        <5>2. Fits(d, Len(docs), edits)
          BY <5>1, FitsNoMap
        <5> QED BY <4>1, <5>2 DEF d
      <4> QED BY <3>1, <4>1 DEF LoadHistory
    <3>2. CASE Summarise
      <4>1. CASE Put(Summary)
        <5>1. /\ Summary.kind = "summary" /\ Summary.covers = Session(history)
              /\ Summary.snap = <<map>>
          BY <1>a, <3>2, SummaryType DEF Summarise
        <5>2. Session(history) \subseteq 1 .. Len(docs)
          BY <1>a, SessionType DEF Types, Docs
        <5>3. map \subseteq 1 .. edits /\ <<map>>[1] = map
          BY DEF Types
        <5>4. Fits(Summary, Len(docs), edits)
          BY <5>1, <5>2, <5>3 DEF Fits
        <5> QED BY <4>1, <5>4
      <4> QED BY <3>2, <4>1 DEF Summarise
    <3>3. CASE Task
      <4>1. Fits(Doc("user", turn), Len(docs), edits)
        BY DocIs, FitsNoMap
      <4> QED BY <3>3, <4>1 DEF Task
    <3>4. CASE Interrupt
      <4>1. CASE Unanswered # {}
        <5>1. Result.covers = {} /\ Result.snap = <<>>
          BY <1>a, <3>4, <4>1, ResultType DEF Interrupt
        <5>2. Fits(Result, Len(docs), edits)
          BY <5>1, FitsNoMap
        <5> QED BY <3>4, <4>1, <5>2 DEF Interrupt
      <4> QED BY <3>4, <4>1 DEF Interrupt
    <3>5. CASE Recover
      <4>1. Fits(Doc("summary", turn + 1), Len(docs), edits)
        BY DocIs, FitsNoMap
      <4> QED BY <3>5, <4>1 DEF Recover
    <3>6. ASSUME NEW n \in 0 .. MaxCalls, Put(Assistant(n)), pc = "call"
          PROVE  \E d : Put(d) /\ Fits(d, Len(docs), edits)
      <4>1. Assistant(n).covers = {} /\ Assistant(n).snap = <<map>>
        BY <1>a, <3>6, AssistantType
      <4>2. Fits(Assistant(n), Len(docs), edits)
        BY <1>a, <4>1, PlainFits
      <4> QED BY <3>6, <4>2
    <3>7. 0 \in 0 .. MaxCalls
      BY Consts
    <3> QED
      BY <1>4, <3>1, <3>2, <3>3, <3>4, <3>5, <3>6, <3>7
         DEF Reject, Answer, AnswerFails
  <2>4. PutFits'
    <3>1. CASE put' = put
      BY <1>b, <2>1, <3>1 DEF PutFits
    <3>2. ASSUME NEW d, Put(d), Fits(d, Len(docs), edits) PROVE PutFits'
      <4>1. put'.doc = d
        BY <3>2, PutIs
      <4> QED BY <2>1, <3>2, <4>1 DEF PutFits
    <3> QED BY <2>3, <3>1, <3>2
  <2> QED BY <2>2, <2>4 DEF Fitting
<1>5. CASE Note \/ Tool
  <2>1. docs' = docs /\ (edits' = edits \/ edits' = edits + 1)
    BY <1>5 DEF Note, Tool, store
  <2>2. edits' \in Nat /\ edits <= edits'
    BY <1>a, <2>1
  <2>3. StoreFits'
    BY <1>a, <2>1, <2>2, StoreFitsSame
  <2>4. \E d : Put(d) /\ d.covers = {} /\ d.snap = <<>>
    <3>1. CASE Note
      BY <3>1, DocIs DEF Note
    <3>2. CASE Tool
      BY <1>a, <3>2, ResultType DEF Tool
    <3> QED BY <1>5, <3>1, <3>2
  <2>5. PutFits'
    <3>1. PICK d : Put(d) /\ d.covers = {} /\ d.snap = <<>>
      BY <2>4
    <3>2. put'.doc = d
      BY <3>1, PutIs
    <3>3. Fits(d, Len(docs'), edits')
      BY <3>1, FitsNoMap
    <3> QED BY <3>2, <3>3 DEF PutFits
  <2>6. SubFits'
    <3>1. CASE sub' = sub
      BY <1>b, <3>1 DEF SubFits
    <3>2. CASE sub' = [doc |-> Doc("sub", turn), seq |-> -1, tries |-> 0]
      <4>1. sub'.doc = Doc("sub", turn)
        BY <3>2
      <4> QED BY <4>1, DocIs DEF SubFits
    <3> QED BY <1>5, <3>1, <3>2 DEF Note, Tool
  <2> QED BY <2>3, <2>5, <2>6 DEF Fitting
<1>6. CASE SubCount
  <2>1. /\ sub # None /\ sub'.doc = sub.doc /\ docs' = docs
        /\ UNCHANGED <<env, store, run, pc, base, turn, map, history, put, ghosts>>
    BY <1>a, <1>6, Counts
  <2>2. edits' = edits /\ SubFits' /\ PutFits'
    BY <1>b, <2>1 DEF SubFits, PutFits, ghosts
  <2>3. StoreFits'
    BY <1>a, <2>1, <2>2, StoreFitsSame
  <2> QED BY <2>2, <2>3 DEF Fitting
<1>7. CASE SubInsert
  <2>1. /\ sub \in Writer /\ sub # None
        /\ docs' = docs \/ \E d \in Record : docs' = Append(docs, d) /\ Same(sub.doc, d)
        /\ sub' = None \/ (sub' # None /\ sub'.doc = sub.doc)
        /\ UNCHANGED <<env, compacted, run, pc, base, turn, map, history, put, ghosts>>
    BY <1>a, <1>7, SubStores
  <2>2. edits' = edits /\ SubFits'
    BY <1>b, <2>1 DEF SubFits, ghosts
  <2>3. StoreFits' /\ Len(docs') \in Nat /\ Len(docs) <= Len(docs')
    <3>1. CASE docs' = docs
      BY <1>a, <1>c, <2>2, <3>1, StoreFitsSame
    <3>2. ASSUME NEW d \in Record, docs' = Append(docs, d), Same(sub.doc, d)
          PROVE  StoreFits' /\ Len(docs') \in Nat /\ Len(docs) <= Len(docs')
      <4>1. Fits(d, Len(docs), edits)
        BY <1>b, <2>1, <3>2, FitsNoMap DEF SubFits, Same
      <4>2. StoreFits'
        BY <1>a, <2>2, <3>2, <4>1, StoreFitsGrown
      <4>3. Len(docs') = Len(docs) + 1
        BY <1>a, <3>2, Grown
      <4> QED BY <1>c, <4>2, <4>3
    <3> QED BY <2>1, <3>1, <3>2
  <2>4. PutFits'
    <3>1. CASE put = None
      BY <2>1, <3>1 DEF PutFits
    <3>2. CASE put # None
      BY <1>a, <2>1, <2>2, <2>3, <3>2, PutFitsSame
    <3> QED BY <3>1, <3>2
  <2> QED BY <2>2, <2>3, <2>4 DEF Fitting
<1> QED
  BY <1>1, <1>2, <1>3, <1>4, <1>5, <1>6, <1>7 DEF Next

\* A session is what it was while documents are added.
LEMMA SessionSame ==
  ASSUME Types, history' = history,
         docs' = docs \/ \E d \in Record : docs' = Append(docs, d)
  PROVE  Session(history)' = Session(history)
<1>1. \A i \in history : docs'[i] = docs[i]
  <2>1. CASE docs' = docs
    BY <2>1
  <2>2. ASSUME NEW d \in Record, docs' = Append(docs, d)
        PROVE \A i \in history : docs'[i] = docs[i]
    <3>1. \A i \in Docs : docs'[i] = docs[i]
      BY <2>2, Grown DEF Types
    <3> QED BY <3>1 DEF Types
  <2> QED BY <2>1, <2>2
<1>2. {i \in history : docs'[i].kind \in Main} = {i \in history : docs[i].kind \in Main}
  BY <1>1
<1>3. UNION {docs'[i].covers : i \in history} = UNION {docs[i].covers : i \in history}
  BY <1>1
<1> QED BY <1>2, <1>3 DEF Session

\* An append under way is what the run put there, while the run stays where it is.
LEMMA PuttingSame ==
  ASSUME Types, Putting, put # None, put'.doc = put.doc,
         UNCHANGED <<run, pc, base, turn, map, history>>,
         docs' = docs \/ \E d \in Record : docs' = Append(docs, d)
  PROVE  Putting'
<1>1. Session(history)' = Session(history)
  BY SessionSame
<1> QED BY <1>1 DEF Putting, Mine

\* Every action puts what belongs to where the run then is.
LEMMA PuttingStep ==
  ASSUME IInv, Next, Types'
  PROVE  Putting'
<1> USE DEF IInv
<1>a. Types /\ Fitting /\ Putting /\ Answered
  OBVIOUS
<1>1. CASE Count
  <2>1. /\ put # None /\ put'.doc = put.doc /\ docs' = docs
        /\ UNCHANGED <<env, store, run, pc, base, turn, map, history, sub, ghosts>>
    BY <1>a, <1>1, Counts
  <2> QED BY <1>a, <2>1, PuttingSame
<1>2. CASE Insert \/ InsertFails
  <2>1. /\ put # None
        /\ put' = None \/ (put' # None /\ put'.doc = put.doc /\ pc' = pc /\ docs' = docs)
        /\ UNCHANGED <<env, compacted, run, base, turn, map, history, sub, ghosts>>
    BY <1>a, <1>2, PutStores
  <2>2. CASE put' = None
    BY <2>2 DEF Putting
  <2>3. CASE put'.doc = put.doc /\ pc' = pc /\ docs' = docs
    BY <1>a, <2>1, <2>3, PuttingSame
  <2> QED BY <2>1, <2>2, <2>3
<1>3. CASE \/ ReadFails \/ Die \/ Wake \/ Decide \/ Compact \/ Reload \/ PickNumber \/ NextCall
           \/ Cut \/ Done \/ Drop \/ Again
  <2>1. put' = None
    <3>1. CASE ReadFails \/ Die
      BY <3>1 DEF ReadFails, Die, Throw
    <3>2. CASE Wake \/ Decide \/ Reload
      <4>1. put' = put /\ pc \in {"idle", "decide", "reload"}
        BY <3>2 DEF Wake, Decide, Reload
      <4> QED BY <1>a, <4>1 DEF Putting
    <3>3. CASE Compact \/ PickNumber \/ NextCall \/ Cut \/ Done \/ Drop \/ Again
      BY <3>3 DEF Compact, PickNumber, NextCall, Cut, Done, Drop, Again, Free
    <3> QED BY <1>3, <3>1, <3>2, <3>3
  <2> QED BY <2>1 DEF Putting
<1>4. CASE LoadHistory
  <2>1. ASSUME NEW c \in Dangling(Load), pc' = pc,
               Put([Doc("result", docs[c[1]].turn) EXCEPT !.of = c, !.by = docs[c[1]].by])
        PROVE  Putting'
    <3> DEFINE d == [Doc("result", docs[c[1]].turn) EXCEPT !.of = c, !.by = docs[c[1]].by]
    <3>1. d.kind = "result" /\ d.snap = <<>> /\ pc' = "load"
      BY <1>a, <1>4, <2>1, RepairType DEF LoadHistory
    <3> HIDE DEF d
    <3>2. put'.doc = d
      BY <2>1, PutIs DEF d
    <3> QED BY <3>1, <3>2 DEF Putting
  <2>2. CASE put' = put
    BY <1>4, <2>2 DEF LoadHistory, Free, Putting
  <2> QED BY <1>4, <2>1, <2>2 DEF LoadHistory
<1>5. CASE Note
  <2>1. /\ Put(Doc("note", base + 1)) /\ pc' = "reflect"
        /\ UNCHANGED <<run, base>>
    BY <1>5 DEF Note
  <2>2. put'.doc = Doc("note", base + 1)
    BY <2>1, PutIs
  <2>3. put'.doc.kind = "note" /\ put'.doc.snap = <<>> /\ Mine(put'.doc, base + 1)
    BY <2>2, DocIs
  <2>4. Mine(put.doc, base + 1)'
    BY <2>1, <2>3 DEF Mine
  <2> QED BY <2>1, <2>3, <2>4 DEF Putting
<1>6. CASE Summarise
  <2>1. CASE put' = put
    BY <1>6, <2>1 DEF Summarise, Free, Putting
  <2>2. CASE Put(Summary) /\ pc' = "compact"
    <3>1. UNCHANGED <<docs, run, base, map, history>>
      BY <1>6 DEF Summarise, store
    <3>2. put'.doc = Summary
      BY <2>2, PutIs
    <3>3. /\ Summary.kind = "summary" /\ Mine(Summary, base + 1)
          /\ Summary.covers = Session(history) /\ Summary.snap = <<map>>
      BY <1>a, <1>6, SummaryType DEF Summarise
    <3>4. Session(history)' = Session(history)
      BY <1>a, <3>1, SessionSame
    <3>5. Mine(put.doc, base + 1)' /\ put'.doc.snap = <<map'>>
      BY <3>1, <3>2, <3>3 DEF Mine
    <3> QED BY <2>2, <3>2, <3>3, <3>4, <3>5 DEF Putting
  <2> QED BY <1>6, <2>1, <2>2 DEF Summarise
<1>7. CASE Task
  <2>1. Put(Doc("user", turn)) /\ pc' = "call" /\ UNCHANGED <<run, turn>>
    BY <1>7 DEF Task
  <2>2. put'.doc = Doc("user", turn)
    BY <2>1, PutIs
  <2>3. put'.doc.kind = "user" /\ put'.doc.snap = <<>> /\ Mine(put'.doc, turn)
    BY <2>2, DocIs
  <2>4. Mine(put.doc, turn)'
    BY <2>1, <2>3 DEF Mine
  <2> QED BY <2>1, <2>3, <2>4 DEF Putting
<1>8. CASE (\E n \in 0 .. MaxCalls : Answer(n) \/ AnswerFails(n)) \/ Reject
  <2>1. PICK n \in 0 .. MaxCalls : Put(Assistant(n))
    BY <1>8, Consts DEF Answer, AnswerFails, Reject
  <2>2. /\ pc = "call" /\ pc' \in {"tools", "done", "interrupted", "recover"}
        /\ UNCHANGED <<run, turn, map>>
    BY <1>8 DEF Answer, AnswerFails, Reject
  <2>3. put'.doc = Assistant(n)
    BY <2>1, PutIs
  <2>4. put'.doc.kind = "assistant" /\ Mine(put'.doc, turn) /\ put'.doc.snap = <<map'>>
    BY <1>a, <2>2, <2>3, AssistantType
  <2>5. Mine(put.doc, turn)'
    BY <2>2, <2>4 DEF Mine
  <2> QED BY <2>2, <2>4, <2>5 DEF Putting
<1>9. CASE Tool \/ Interrupt
  <2>1. CASE put' = put
    BY <1>9, <2>1 DEF Tool, Interrupt, Free, Putting
  <2>2. CASE Put(Result) /\ Unanswered # {} /\ UNCHANGED pc
    <3>1. /\ pc' = pc /\ pc \in {"tools", "interrupted"} /\ Free /\ UNCHANGED <<run, turn>>
      BY <1>9, <2>2 DEF Tool, Interrupt
    <3>2. put'.doc = Result
      BY <2>2, PutIs
    <3>3. put'.doc.kind = "result" /\ Mine(put'.doc, turn) /\ put'.doc.snap = <<>>
      BY <1>a, <2>2, <3>1, <3>2, ResultType
    <3>4. Mine(put.doc, turn)'
      BY <3>1, <3>3 DEF Mine
    <3> QED BY <3>1, <3>3, <3>4 DEF Putting
  <2> QED BY <1>9, <2>1, <2>2 DEF Tool, Interrupt
<1>10. CASE Recover
  <2>1. Put(Doc("summary", turn + 1)) /\ pc' = "drop" /\ UNCHANGED <<run, turn>>
    BY <1>10 DEF Recover
  <2>2. put'.doc = Doc("summary", turn + 1)
    BY <2>1, PutIs
  <2>3. /\ put'.doc.kind = "summary" /\ put'.doc.snap = <<>> /\ put'.doc.covers = {}
        /\ Mine(put'.doc, turn + 1)
    BY <2>2, DocIs
  <2>4. Mine(put.doc, turn + 1)'
    BY <2>1, <2>3 DEF Mine
  <2> QED BY <2>1, <2>3, <2>4 DEF Putting
<1>11. CASE SubCount
  <2>1. /\ docs' = docs
        /\ UNCHANGED <<env, store, run, pc, base, turn, map, history, put, ghosts>>
    BY <1>a, <1>11, Counts
  <2>2. CASE put = None
    BY <2>1, <2>2 DEF Putting
  <2>3. CASE put # None
    BY <1>a, <2>1, <2>3, PuttingSame
  <2> QED BY <2>2, <2>3
<1>12. CASE SubInsert
  <2>1. /\ docs' = docs \/ \E d \in Record : docs' = Append(docs, d)
        /\ UNCHANGED <<env, compacted, run, pc, base, turn, map, history, put, ghosts>>
    BY <1>a, <1>12, SubStores
  <2>2. CASE put = None
    BY <2>1, <2>2 DEF Putting
  <2>3. CASE put # None
    BY <1>a, <2>1, <2>3, PuttingSame
  <2> QED BY <2>2, <2>3
<1> QED
  BY <1>1, <1>2, <1>3, <1>4, <1>5, <1>6, <1>7, <1>8, <1>9, <1>10, <1>11, <1>12 DEF Next

\* What is stored stays.
LEMMA DocsKept ==
  ASSUME Types, docs' = docs \/ \E d \in Record : docs' = Append(docs, d)
  PROVE  \A i \in Docs : i \in Docs' /\ docs'[i] = docs[i]
<1>1. CASE docs' = docs
  BY <1>1 DEF Docs
<1>2. ASSUME NEW d \in Record, docs' = Append(docs, d)
      PROVE  \A i \in Docs : i \in Docs' /\ docs'[i] = docs[i]
  BY <1>2, Grown DEF Types
<1> QED BY <1>1, <1>2

\* A run in its tool calls has an answer, and a sub-loop its turn.
LEMMA AnsweredStep ==
  ASSUME IInv, Next, Types'
  PROVE  Answered'
<1> USE DEF IInv
<1>a. Types /\ Fitting /\ Putting /\ Answered
  OBVIOUS
<1>1. CASE Count \/ SubCount
  <2>1. /\ docs' = docs /\ UNCHANGED <<pc, run, turn>>
        /\ (put = None /\ put' = None) \/ (put # None /\ put' # None /\ put'.doc = put.doc)
        /\ (sub = None /\ sub' = None) \/ (sub # None /\ sub' # None /\ sub'.doc = sub.doc)
    BY <1>a, <1>1, Counts
  <2> QED BY <1>a, <2>1 DEF Answered, Docs, Mine
<1>2. CASE Insert \/ InsertFails
  <2>1. /\ put \in Writer /\ put # None
        /\ \/ docs' = docs
           \/ \E d \in Record : docs' = Append(docs, d) /\ Same(put.doc, d) /\ put' = None
        /\ put' = None \/ (put' # None /\ put'.doc = put.doc /\ pc' = pc /\ docs' = docs)
        /\ UNCHANGED <<env, compacted, run, base, turn, map, history, sub, ghosts>>
        /\ \/ pc' = pc
           \/ put' = None /\ pc' = IF pc \in {"reflect", "compact"} THEN "number" ELSE "idle"
        /\ \/ put' # None
           \/ \E d \in Record : docs' = Append(docs, d) /\ Same(put.doc, d)
           \/ pc' = IF pc \in {"reflect", "compact"} THEN "number" ELSE "idle"
    BY <1>a, <1>2, PutStores
  <2>2. \A i \in Docs : i \in Docs' /\ docs'[i] = docs[i]
    BY <1>a, <2>1, DocsKept
  <2>3. sub' # None =>
          \E i \in Docs' : docs'[i].turn = sub'.doc.turn /\ docs'[i].by = sub'.doc.by
    BY <1>a, <2>1, <2>2 DEF Answered
  <2>4. ASSUME pc' \in {"tools", "interrupted"}, put' = None
        PROVE  /\ \E i \in Docs' : docs'[i].kind = "assistant"
               /\ pc' = "tools" => \E i \in Docs' : Mine(docs'[i], turn)
    <3>1. PICK d \in Record : docs' = Append(docs, d) /\ Same(put.doc, d)
      BY <2>1, <2>4
    <3>2. pc' = pc
      BY <2>1, <2>4
    <3>3. Len(docs) + 1 \in Docs' /\ docs'[Len(docs) + 1] = d
      BY <1>a, <3>1, Grown DEF Types
    <3>4. Mine(d, turn)
      BY <1>a, <2>1, <2>4, <3>1, <3>2 DEF Putting, Mine, Same
    <3>5. \E i \in Docs' : docs'[i].kind = "assistant"
      <4>1. CASE put.doc.kind = "assistant"
        BY <3>1, <3>3, <4>1 DEF Same
      <4>2. CASE \E i \in Docs : docs[i].kind = "assistant"
        BY <2>2, <4>2
      <4> QED BY <1>a, <2>4, <3>2, <4>1, <4>2 DEF Answered
    <3> QED BY <3>3, <3>4, <3>5
  <2>5. ASSUME pc' \in {"tools", "interrupted"}, put' # None
        PROVE  put'.doc.kind = "assistant" \/ \E i \in Docs' : docs'[i].kind = "assistant"
    BY <1>a, <2>1, <2>2, <2>5 DEF Answered
  <2>6. turn' = turn /\ run' = run
    BY <2>1
  <2> QED BY <2>3, <2>4, <2>5, <2>6 DEF Answered, Mine
<1>3. CASE \/ ReadFails \/ Die \/ Wake \/ LoadHistory \/ Decide \/ Note \/ Summarise \/ Compact
           \/ Reload \/ PickNumber \/ Task \/ Reject \/ NextCall \/ Cut \/ Done \/ Recover
           \/ Drop \/ Again
  <2>1. /\ docs' = docs /\ sub' \in {sub, None}
        /\ pc' \notin {"tools", "interrupted"}
    BY <1>3
       DEF ReadFails, Throw, Die, Wake, LoadHistory, Decide, Note, Summarise, Compact,
           Reload, 
                PickNumber, Task, Reject, NextCall, Cut, Done, Recover, Drop, Again, store, ghosts
  <2> QED BY <1>a, <2>1 DEF Answered, Docs
<1>4. CASE \E n \in 0 .. MaxCalls : Answer(n) \/ AnswerFails(n)
  <2>1. PICK n \in 0 .. MaxCalls : Put(Assistant(n))
    BY <1>4 DEF Answer, AnswerFails
  <2>2. docs' = docs /\ sub' = sub /\ pc = "call"
    BY <1>4 DEF Answer, AnswerFails, store
  <2>3. put' # None /\ put'.doc.kind = "assistant"
    BY <1>a, <2>1, <2>2, PutIs, AssistantType
  <2> QED BY <1>a, <2>2, <2>3 DEF Answered, Docs
<1>5. CASE Tool \/ Interrupt
  <2>1. docs' = docs /\ put = None /\ pc \in {"tools", "interrupted"}
    BY <1>5 DEF Tool, Interrupt, Free, store
  <2>2. \E i \in Docs : docs[i].kind = "assistant"
    BY <1>a, <2>1 DEF Answered
  <2>3. pc' = "tools" => put' # None
    <3>1. CASE Tool
      BY <3>1, PutIs DEF Tool
    <3>2. CASE Interrupt
      BY <3>2 DEF Interrupt
    <3> QED BY <1>5, <3>1, <3>2
  <2>4. sub' # None =>
          \E i \in Docs : docs[i].turn = sub'.doc.turn /\ docs[i].by = sub'.doc.by
    <3>1. CASE sub' = sub
      BY <1>a, <3>1 DEF Answered
    <3>2. CASE sub' = [doc |-> Doc("sub", turn), seq |-> -1, tries |-> 0] /\ pc = "tools"
      <4>1. sub'.doc.turn = turn /\ sub'.doc.by = run
        BY <3>2 DEF Doc
      <4>2. \E i \in Docs : Mine(docs[i], turn)
        BY <1>a, <2>1, <3>2 DEF Answered
      <4> QED BY <4>1, <4>2 DEF Mine
    <3> QED BY <1>5, <3>1, <3>2 DEF Tool, Interrupt
  <2> QED BY <2>1, <2>2, <2>3, <2>4 DEF Answered, Docs
<1>6. CASE SubInsert
  <2>1. /\ docs' = docs \/ \E d \in Record : docs' = Append(docs, d)
        /\ sub # None
        /\ sub' = None \/ (sub' # None /\ sub'.doc = sub.doc)
        /\ UNCHANGED <<env, compacted, run, pc, base, turn, map, history, put, ghosts>>
    BY <1>a, <1>6, SubStores
  <2>2. \A i \in Docs : i \in Docs' /\ docs'[i] = docs[i]
    BY <1>a, <2>1, DocsKept
  <2>3. sub' # None =>
          \E i \in Docs' : docs'[i].turn = sub'.doc.turn /\ docs'[i].by = sub'.doc.by
    BY <1>a, <2>1, <2>2 DEF Answered
  <2>4. pc' \in {"tools", "interrupted"} =>
          \/ put' # None /\ put'.doc.kind = "assistant"
          \/ \E i \in Docs' : docs'[i].kind = "assistant"
    BY <1>a, <2>1, <2>2 DEF Answered
  <2>5. pc' = "tools" => put' # None \/ \E i \in Docs' : Mine(docs'[i], turn)
    BY <1>a, <2>1, <2>2 DEF Answered
  <2> QED BY <2>1, <2>3, <2>4, <2>5 DEF Answered, Mine
<1> QED
  BY <1>1, <1>2, <1>3, <1>4, <1>5, <1>6 DEF Next

\* The parts of Apart.
PutApart   == put # None => \A i \in Docs : docs[i].turn = put.doc.turn => docs[i].by = put.doc.by
NotesApart == pc = "reflect" => \A i \in Docs : docs[i].turn > base => docs[i].by = run
LoopApart  == pc \in Loop => \A i \in Docs : docs[i].turn >= turn => docs[i].by = run

\* A document of a turn that another one of its writer has, or that nobody has,
\* keeps the turns apart.
LEMMA ApartGrown ==
  ASSUME Types, TurnsApart, NEW d \in Record, docs' = Append(docs, d),
         \A i \in Docs : docs[i].turn = d.turn => docs[i].by = d.by
  PROVE  TurnsApart'
<1> DEFINE n == Len(docs) + 1
<1>1. Docs' = Docs \cup {n} /\ docs'[n] = d /\ \A i \in Docs : docs'[i] = docs[i]
  BY Grown DEF Types
<1> HIDE DEF n
<1>2. ASSUME NEW i \in Docs', NEW j \in Docs', docs'[i].turn = docs'[j].turn
      PROVE  docs'[i].by = docs'[j].by
  <2>1. CASE i \in Docs /\ j \in Docs
    BY <1>1, <1>2, <2>1 DEF TurnsApart
  <2>2. CASE i = n /\ j = n
    BY <2>2
  <2>3. CASE i \in Docs /\ j = n
    BY <1>1, <1>2, <2>3
  <2>4. CASE i = n /\ j \in Docs
    BY <1>1, <1>2, <2>4
  <2> QED BY <1>1, <2>1, <2>2, <2>3, <2>4
<1> QED BY <1>2 DEF TurnsApart

\* Every action keeps the turns of different runs apart.
LEMMA ApartStep ==
  ASSUME IInv, Next, Types'
  PROVE  Apart'
<1> USE DEF IInv
<1>a. /\ Types /\ Fitting /\ Putting /\ Answered
      /\ TurnsApart /\ PutApart /\ NotesApart /\ LoopApart
  BY DEF Apart, PutApart, NotesApart, LoopApart
<1>b. SUFFICES TurnsApart' /\ PutApart' /\ NotesApart' /\ LoopApart'
  BY DEF Apart, PutApart, NotesApart, LoopApart
<1>1. CASE Count \/ SubCount
  <2>1. /\ docs' = docs /\ Docs' = Docs /\ UNCHANGED <<pc, run, turn, base>>
        /\ (put = None /\ put' = None) \/ (put # None /\ put' # None /\ put'.doc = put.doc)
    BY <1>a, <1>1, Counts DEF Docs
  <2> QED BY <1>a, <2>1 DEF TurnsApart, PutApart, NotesApart, LoopApart
<1>2. CASE Insert \/ InsertFails
  <2>1. /\ put \in Writer /\ put # None
        /\ \/ docs' = docs
           \/ \E d \in Record : docs' = Append(docs, d) /\ Same(put.doc, d) /\ put' = None
        /\ put' = None \/ (put' # None /\ put'.doc = put.doc /\ pc' = pc /\ docs' = docs)
        /\ UNCHANGED <<env, compacted, run, base, turn, map, history, sub, ghosts>>
        /\ \/ pc' = pc
           \/ put' = None /\ pc' = IF pc \in {"reflect", "compact"} THEN "number" ELSE "idle"
    BY <1>a, <1>2, PutStores
  <2>2. pc' = pc \/ pc' \notin Loop \cup {"reflect"}
    BY <2>1 DEF Loop
  <2>3. CASE docs' = docs
    <3>1. Docs' = Docs
      BY <2>3 DEF Docs
    <3> QED
      BY <1>a, <2>1, <2>2, <2>3, <3>1
         DEF TurnsApart, PutApart, NotesApart, LoopApart
  <2>4. ASSUME NEW d \in Record, docs' = Append(docs, d), Same(put.doc, d), put' = None
        PROVE  TurnsApart' /\ PutApart' /\ NotesApart' /\ LoopApart'
    <3>1. \A i \in Docs : docs[i].turn = d.turn => docs[i].by = d.by
      BY <1>a, <2>1, <2>4 DEF PutApart, Same
    <3>2. TurnsApart'
      BY <1>a, <2>4, <3>1, ApartGrown
    <3>3. PutApart'
      BY <2>4 DEF PutApart
    <3>4. /\ Docs' = Docs \cup {Len(docs) + 1} /\ docs'[Len(docs) + 1] = d
          /\ \A i \in Docs : docs'[i] = docs[i]
      BY <1>a, <2>4, Grown DEF Types
    <3>5. pc \in Loop \cup {"reflect"} => d.by = run
      BY <1>a, <2>1, <2>4 DEF Putting, Mine, Same, Loop
    <3>6. NotesApart'
      BY <1>a, <2>1, <2>2, <3>4, <3>5 DEF NotesApart
    <3>7. LoopApart'
      BY <1>a, <2>1, <2>2, <3>4, <3>5 DEF LoopApart
    <3> QED BY <3>2, <3>3, <3>6, <3>7
  <2> QED BY <2>1, <2>3, <2>4
<1>3. CASE ReadFails \/ Die \/ Wake \/ Compact \/ Reload \/ Drop
  <2>1. /\ docs' = docs /\ Docs' = Docs /\ put' \in {put, None}
        /\ pc' \notin Loop \cup {"reflect"}
    BY <1>3
       DEF ReadFails, Throw, Die, Wake, Compact, Reload, Drop, store, ghosts, Docs, Loop
  <2> QED BY <1>a, <2>1 DEF TurnsApart, PutApart, NotesApart, LoopApart
<1>4. CASE LoadHistory
  <2>1. docs' = docs /\ Docs' = Docs /\ pc' \notin Loop \cup {"reflect"}
    BY <1>4 DEF LoadHistory, store, Docs, Loop
  <2>2. ASSUME NEW c \in Dangling(Load),
               Put([Doc("result", docs[c[1]].turn) EXCEPT !.of = c, !.by = docs[c[1]].by])
        PROVE  PutApart'
    <3> DEFINE d == [Doc("result", docs[c[1]].turn) EXCEPT !.of = c, !.by = docs[c[1]].by]
    <3>1. c[1] \in Docs /\ d.turn = docs[c[1]].turn /\ d.by = docs[c[1]].by
      BY <1>a, <1>4, RepairType DEF LoadHistory
    <3> HIDE DEF d
    <3>2. put'.doc = d
      BY <2>2, PutIs DEF d
    <3> QED BY <1>a, <2>1, <3>1, <3>2 DEF TurnsApart, PutApart
  <2>3. PutApart'
    BY <1>a, <1>4, <2>1, <2>2 DEF LoadHistory, PutApart
  <2> QED BY <1>a, <2>1, <2>3 DEF TurnsApart, NotesApart, LoopApart
<1>5. CASE Decide
  <2>1. docs' = docs /\ Docs' = Docs /\ put' = put /\ pc' \notin Loop /\ run' = run
    BY <1>5 DEF Decide, store, Docs, Loop
  <2>2. NotesApart'
    <3>1. pc' = "reflect" => base' = LastTurn
      BY <1>5 DEF Decide
    <3>2. ASSUME NEW i \in Docs PROVE ~ (docs[i].turn > LastTurn)
      <4>1. docs[i].turn \in Nat /\ LastTurn \in Int /\ docs[i].turn <= LastTurn
        BY <1>a, LastTurnIs, Fields DEF Types
      <4> QED BY <4>1
    <3> QED BY <2>1, <3>1, <3>2 DEF NotesApart
  <2> QED BY <1>a, <2>1, <2>2 DEF TurnsApart, PutApart, LoopApart
<1>6. CASE Note \/ Summarise
  <2>1. /\ docs' = docs /\ Docs' = Docs /\ pc' \notin Loop /\ pc = "reflect"
        /\ UNCHANGED <<run, base>>
    BY <1>6 DEF Note, Summarise, store, Docs, Loop
  <2>2. put' = put \/ (put'.doc.turn = base + 1 /\ put'.doc.by = run)
    <3>1. CASE Note
      <4>1. put'.doc = Doc("note", base + 1)
        BY <3>1, PutIs DEF Note
      <4> QED BY <4>1, DocIs DEF Mine
    <3>2. CASE Summarise
      <4>1. put' = put \/ put'.doc = Summary
        BY <3>2, PutIs DEF Summarise
      <4>2. Mine(Summary, base + 1)
        BY <1>a, <2>1, SummaryType
      <4> QED BY <4>1, <4>2 DEF Mine
    <3> QED BY <1>6, <3>1, <3>2
  <2>3. ASSUME NEW i \in Docs, docs[i].turn = base + 1 PROVE docs[i].by = run
    <3>1. base \in Int
      BY DEF Types
    <3>2. docs[i].turn > base
      BY <2>3, <3>1
    <3> QED BY <1>a, <2>1, <3>2 DEF NotesApart
  <2>4. PutApart'
    BY <1>a, <2>1, <2>2, <2>3 DEF PutApart
  <2> QED BY <1>a, <2>1, <2>4 DEF TurnsApart, NotesApart, LoopApart
<1>7. CASE PickNumber \/ Again
  <2>1. docs' = docs /\ Docs' = Docs /\ put' = put /\ pc' = "task" /\ turn' = LastTurn + 1
    BY <1>7 DEF PickNumber, Again, store, Docs
  <2>2. ASSUME NEW i \in Docs PROVE ~ (docs[i].turn >= LastTurn + 1)
    <3>1. docs[i].turn \in Nat /\ LastTurn \in Int /\ docs[i].turn <= LastTurn
      BY <1>a, LastTurnIs, Fields DEF Types
    <3> QED BY <3>1
  <2> QED BY <1>a, <2>1, <2>2 DEF TurnsApart, PutApart, NotesApart, LoopApart
<1>8. CASE \/ Task \/ Reject \/ Tool \/ Interrupt \/ NextCall \/ Cut \/ Done \/ Recover
           \/ \E n \in 0 .. MaxCalls : Answer(n) \/ AnswerFails(n)
  <2>1. /\ docs' = docs /\ Docs' = Docs /\ pc \in Loop /\ pc' # "reflect"
        /\ UNCHANGED <<run, turn>>
    BY <1>8
       DEF Task, Reject, Tool, Interrupt, NextCall, Cut, Done, Recover, Answer,
           AnswerFails, store, 
                Docs, Loop
  <2>2. put' = put \/ (put'.doc.turn \in {turn, turn + 1} /\ put'.doc.by = run)
    <3>1. CASE Task
      <4>1. put'.doc = Doc("user", turn)
        BY <3>1, PutIs DEF Task
      <4> QED BY <4>1, DocIs DEF Mine
    <3>2. CASE Tool \/ Interrupt
      <4>1. put' = put \/ (put'.doc = Result /\ Unanswered # {})
        BY <3>2, PutIs DEF Tool, Interrupt
      <4>2. Unanswered # {} => Mine(Result, turn)
        BY <1>a, <3>2, ResultType DEF Tool, Interrupt
      <4> QED BY <4>1, <4>2 DEF Mine
    <3>3. CASE NextCall \/ Cut \/ Done
      BY <3>3 DEF NextCall, Cut, Done
    <3>4. CASE Recover
      <4>1. put'.doc = Doc("summary", turn + 1)
        BY <3>4, PutIs DEF Recover
      <4> QED BY <4>1, DocIs DEF Mine
    <3>5. CASE Reject \/ \E n \in 0 .. MaxCalls : Answer(n) \/ AnswerFails(n)
      <4>1. PICK n \in 0 .. MaxCalls : Put(Assistant(n)) /\ pc = "call"
        BY <3>5, Consts DEF Answer, AnswerFails, Reject
      <4>2. put'.doc = Assistant(n) /\ Mine(Assistant(n), turn)
        BY <1>a, <4>1, PutIs, AssistantType
      <4> QED BY <4>2 DEF Mine
    <3> QED BY <1>8, <3>1, <3>2, <3>3, <3>4, <3>5
  <2>3. ASSUME NEW i \in Docs, docs[i].turn \in {turn, turn + 1} PROVE docs[i].by = run
    <3>1. turn \in Nat
      BY DEF Types
    <3>2. docs[i].turn >= turn
      BY <2>3, <3>1
    <3> QED BY <1>a, <2>1, <3>2 DEF LoopApart
  <2>4. PutApart'
    BY <1>a, <2>1, <2>2, <2>3 DEF PutApart
  <2> QED BY <1>a, <2>1, <2>4 DEF TurnsApart, NotesApart, LoopApart
<1>9. CASE SubInsert
  <2>1. /\ docs' = docs \/ \E d \in Record : docs' = Append(docs, d) /\ Same(sub.doc, d)
        /\ sub # None
        /\ UNCHANGED <<env, compacted, run, pc, base, turn, map, history, put, ghosts>>
    BY <1>a, <1>9, SubStores
  <2>2. CASE docs' = docs
    <3>1. Docs' = Docs
      BY <2>2 DEF Docs
    <3> QED BY <1>a, <2>1, <2>2, <3>1 DEF TurnsApart, PutApart, NotesApart, LoopApart
  <2>3. ASSUME NEW d \in Record, docs' = Append(docs, d), Same(sub.doc, d)
        PROVE  TurnsApart' /\ PutApart' /\ NotesApart' /\ LoopApart'
    <3>1. PICK j \in Docs : docs[j].turn = d.turn /\ docs[j].by = d.by
      BY <1>a, <2>1, <2>3 DEF Answered, Same
    <3>2. TurnsApart'
      <4>1. \A i \in Docs : docs[i].turn = d.turn => docs[i].by = d.by
        BY <1>a, <3>1 DEF TurnsApart
      <4> QED BY <1>a, <2>3, <4>1, ApartGrown
    <3>3. /\ Docs' = Docs \cup {Len(docs) + 1} /\ docs'[Len(docs) + 1] = d
          /\ \A i \in Docs : docs'[i] = docs[i]
      BY <1>a, <2>3, Grown DEF Types
    <3>4. PutApart'
      BY <1>a, <2>1, <3>1, <3>3 DEF PutApart
    <3>5. NotesApart'
      BY <1>a, <2>1, <3>1, <3>3 DEF NotesApart
    <3>6. LoopApart'
      BY <1>a, <2>1, <3>1, <3>3 DEF LoopApart
    <3> QED BY <3>2, <3>4, <3>5, <3>6
  <2> QED BY <2>1, <2>2, <2>3
<1> QED
  BY <1>1, <1>2, <1>3, <1>4, <1>5, <1>6, <1>7, <1>8, <1>9 DEF Next

\* The newest map is read from the documents alone.
LEMMA NewestSame ==
  ASSUME docs' = docs
  PROVE  NewestMap' = NewestMap
BY DEF NewestMap

\* Every action keeps the edits that count as kept in the newest map.
LEMMA MapsStep ==
  ASSUME IInv, Next, Types'
  PROVE  Maps'
<1> USE DEF IInv
<1>a. Types /\ Fitting /\ Putting /\ Answered /\ Maps /\ docs \in Seq(Record)
  BY DEF Types
<1>b. kept \subseteq NewestMap /\ (pc \notin {"idle", "load"} => NewestMap \subseteq map)
  BY <1>a DEF Maps
<1>1. CASE Count \/ SubCount
  <2>1. /\ docs' = docs /\ UNCHANGED <<pc, map, kept>> /\ (put' = None => put = None)
    BY <1>a, <1>1, Counts DEF ghosts
  <2>2. NewestMap' = NewestMap
    BY <2>1, NewestSame
  <2> QED BY <1>a, <2>1, <2>2 DEF Maps
<1>2. CASE Insert \/ InsertFails
  <2>1. /\ put \in Writer /\ put # None
        /\ \/ docs' = docs
           \/ \E d \in Record : docs' = Append(docs, d) /\ Same(put.doc, d) /\ put' = None
        /\ put' = None \/ (put' # None /\ put'.doc = put.doc /\ pc' = pc /\ docs' = docs)
        /\ UNCHANGED <<env, compacted, run, base, turn, map, history, sub, ghosts>>
        /\ \/ pc' = pc
           \/ put' = None /\ pc' = IF pc \in {"reflect", "compact"} THEN "number" ELSE "idle"
        /\ \/ put' # None
           \/ \E d \in Record : docs' = Append(docs, d) /\ Same(put.doc, d)
           \/ pc' = IF pc \in {"reflect", "compact"} THEN "number" ELSE "idle"
    BY <1>a, <1>2, PutStores
  <2>2. map' = map /\ kept' = kept
    BY <2>1 DEF ghosts
  <2>3. /\ pc # "idle" /\ (pc = "load" => put.doc.snap = <<>>)
        /\ put.doc.snap = <<>> \/ put.doc.snap = <<map>>
    BY <1>a, <2>1 DEF Putting
  <2>4. CASE docs' = docs /\ ~ \E d \in Record : docs' = Append(docs, d) /\ Same(put.doc, d)
    <3>1. NewestMap' = NewestMap
      BY <2>4, NewestSame
    <3>2. pc' \notin {"idle", "load"} => NewestMap' \subseteq map'
      BY <1>b, <2>1, <2>2, <2>3, <3>1
    <3>3. ~ (pc' \in {"compact", "done"} /\ put' = None)
      BY <2>1, <2>4
    <3> QED BY <1>b, <2>2, <3>1, <3>2, <3>3 DEF Maps
  <2>5. ASSUME NEW d \in Record, docs' = Append(docs, d), Same(put.doc, d)
        PROVE  Maps'
    <3>1. NewestMap' = IF d.snap = <<>> THEN NewestMap ELSE d.snap[1]
      BY <1>a, <2>5, NewestGrown
    <3>2. d.snap = put.doc.snap
      BY <2>5 DEF Same
    <3>3. CASE d.snap = <<>>
      <4>1. NewestMap' = NewestMap
        BY <3>1, <3>3
      <4>2. pc \notin {"compact", "done"}
        BY <1>a, <2>1, <3>2, <3>3 DEF Putting
      <4>3. pc' \notin {"compact", "done"}
        BY <2>1, <4>2
      <4>4. pc' \notin {"idle", "load"} => pc \notin {"idle", "load"}
        BY <2>1
      <4> QED BY <1>b, <2>2, <4>1, <4>3, <4>4 DEF Maps
    <3>4. CASE d.snap = <<map>>
      <4>1. NewestMap' = map
        BY <3>1, <3>4
      <4>2. pc \notin {"idle", "load"}
        BY <2>3, <3>2, <3>4
      <4> QED BY <1>b, <2>2, <4>1, <4>2 DEF Maps
    <3> QED BY <2>3, <3>2, <3>3, <3>4
  <2> QED BY <2>1, <2>4, <2>5
<1>3. CASE \/ ReadFails \/ Die \/ Wake \/ Decide \/ Reload \/ PickNumber \/ Task \/ Reject
           \/ Interrupt \/ NextCall \/ Cut \/ Recover \/ Drop \/ Again
           \/ \E n \in 0 .. MaxCalls : Answer(n) \/ AnswerFails(n)
  <2>1. docs' = docs /\ UNCHANGED <<map, kept>>
    BY <1>3
       DEF ReadFails, Die, Wake, Decide, Reload, PickNumber, Task, Reject, Interrupt,
           NextCall, Cut, 
                Recover, Drop, Again, Answer, AnswerFails, store, ghosts
  <2>2. NewestMap' = NewestMap
    BY <2>1, NewestSame
  <2>3. pc' \notin {"idle", "load"} => pc \notin {"idle", "load"}
    BY <1>3
       DEF ReadFails, Throw, Die, Wake, Decide, Reload, PickNumber, Task, Reject,
           Interrupt, 
                NextCall, Cut, Recover, Drop, Again, Answer, AnswerFails
  <2>4. ~ (pc' \in {"compact", "done"} /\ put' = None)
    <3>1. CASE \E n \in 0 .. MaxCalls : Answer(n) \/ AnswerFails(n)
      BY <3>1, PutIs DEF Answer, AnswerFails
    <3>2. CASE ~ \E n \in 0 .. MaxCalls : Answer(n) \/ AnswerFails(n)
      BY <1>3, <3>2
         DEF ReadFails, Throw, Die, Wake, Decide, Reload, PickNumber, Task, Reject,
             Interrupt, 
                  NextCall, Cut, Recover, Drop, Again
    <3> QED BY <3>1, <3>2
  <2> QED BY <1>b, <2>1, <2>2, <2>3, <2>4 DEF Maps
<1>4. CASE LoadHistory
  <2>1. docs' = docs /\ kept' = kept /\ pc' \notin {"compact", "done"}
    BY <1>4 DEF LoadHistory, store, ghosts
  <2>2. NewestMap' = NewestMap
    BY <2>1, NewestSame
  <2>3. pc' = "load" \/ map' = NewestMap
    BY <1>4 DEF LoadHistory
  <2> QED BY <1>b, <2>1, <2>2, <2>3 DEF Maps
<1>5. CASE Note \/ Tool
  <2>1. /\ docs' = docs /\ kept' = kept /\ map \subseteq map'
        /\ pc' = pc /\ pc \in {"reflect", "tools"}
    BY <1>5 DEF Note, Tool, store
  <2>2. NewestMap' = NewestMap
    BY <2>1, NewestSame
  <2> QED BY <1>b, <2>1, <2>2 DEF Maps
<1>6. CASE Summarise
  <2>1. /\ docs' = docs /\ UNCHANGED <<kept, map>>
        /\ pc = "reflect" /\ pc' \in {"compact", "reload"}
        /\ pc' = "compact" => put' # None
    BY <1>6, PutIs DEF Summarise, store, ghosts
  <2>2. NewestMap' = NewestMap
    BY <2>1, NewestSame
  <2> QED BY <1>b, <2>1, <2>2 DEF Maps
<1>7. CASE Compact \/ Done
  <2>1. /\ docs' = docs /\ map' = map /\ kept' = kept \cup map /\ pc \in {"compact", "done"}
        /\ put = None /\ pc' \in {"reload", "idle"}
    BY <1>7 DEF Compact, Done, Free, store
  <2>2. NewestMap' = NewestMap
    BY <2>1, NewestSame
  <2>3. map \subseteq NewestMap
    BY <1>a, <2>1 DEF Maps
  <2> QED BY <1>b, <2>1, <2>2, <2>3 DEF Maps
<1>8. CASE SubInsert
  <2>1. /\ docs' = docs \/ \E d \in Record : docs' = Append(docs, d) /\ Same(sub.doc, d)
        /\ sub # None
        /\ UNCHANGED <<env, compacted, run, pc, base, turn, map, history, put, ghosts>>
    BY <1>a, <1>8, SubStores
  <2>2. NewestMap' = NewestMap
    <3>1. CASE docs' = docs
      BY <3>1, NewestSame
    <3>2. ASSUME NEW d \in Record, docs' = Append(docs, d), Same(sub.doc, d)
          PROVE  NewestMap' = NewestMap
      <4>1. d.snap = <<>>
        BY <1>a, <2>1, <3>2 DEF Fitting, SubFits, Same
      <4> QED BY <1>a, <3>2, <4>1, NewestGrown
    <3> QED BY <2>1, <3>1, <3>2
  <2> QED BY <1>a, <2>1, <2>2 DEF Maps, ghosts
<1> QED
  BY <1>1, <1>2, <1>3, <1>4, <1>5, <1>6, <1>7, <1>8 DEF Next

\* The parts of Memory.
LoadedIs    == pc \in {"decide", "reflect"} \/ (pc = "compact" /\ put # None) => Load = history
Told(s) ==
  docs[s].turn = base + 1 /\ docs[s].covers = Session(history) /\ Load = history \cup {s}
SummaryTold == pc = "compact" /\ put = None => \E s \in Docs \ compacted : Told(s)
TurnAbove   == pc \in Loop \cup {"drop"} => \A i \in compacted : docs[i].turn < turn

\* What is loaded grows by a message of the session or a summary only.
LEMMA LoadGrown ==
  ASSUME Types, NEW d \in Record, docs' = Append(docs, d), compacted' = compacted
  PROVE  Load' = IF d.kind \in {"note", "sub"} THEN Load ELSE Load \cup {Len(docs) + 1}
<1> DEFINE n == Len(docs) + 1
<1>1. /\ Docs' = Docs \cup {n} /\ docs'[n] = d /\ n \notin Docs
      /\ \A i \in Docs : docs'[i] = docs[i]
  BY Grown DEF Types
<1>2. Load' = {i \in Docs' : i \notin compacted /\ docs'[i].kind \notin {"note", "sub"}}
  BY DEF Load, Docs
<1>3. n \notin compacted
  BY <1>1 DEF Types
<1> HIDE DEF n
<1>4. ASSUME NEW i
      PROVE i \in Load' <=> i \in Load \/ (i = n /\ d.kind \notin {"note", "sub"})
  <2>1. CASE i \in Docs
    BY <1>1, <1>2, <2>1, LoadIs
  <2>2. CASE i = n
    BY <1>1, <1>2, <1>3, <2>2, LoadIs
  <2>3. CASE i \notin Docs /\ i # n
    BY <1>1, <1>2, <2>3, LoadIs
  <2> QED BY <2>1, <2>2, <2>3
<1> QED BY <1>4 DEF n

\* An unchanged store loads the same.
LEMMA LoadSame ==
  ASSUME UNCHANGED store
  PROVE  Load' = Load /\ Docs' = Docs
BY DEF Load, store, Docs

\* Documents that are added leave what is forgotten and what is told as it is.
LEMMA ForgottenGrown ==
  ASSUME Types, NothingForgotten, UNCHANGED <<compacted, dropped>>,
         docs' = docs \/ \E d \in Record : docs' = Append(docs, d)
  PROVE  NothingForgotten'
<1>1. \A i \in Docs : i \in Docs' /\ docs'[i] = docs[i]
  BY DocsKept
<1>2. ASSUME NEW i \in compacted \ dropped, docs'[i].kind \in Main
      PROVE  \E s \in Docs' \ compacted : i \in docs'[s].covers
  <2>1. docs[i].kind \in Main
    BY <1>1, <1>2 DEF Types
  <2>2. PICK s \in Docs \ compacted : i \in docs[s].covers
    BY <2>1 DEF NothingForgotten
  <2> QED BY <1>1, <2>2
<1> QED BY <1>2 DEF NothingForgotten

\* A turn under way stays above what is compacted while documents are added.
LEMMA AboveGrown ==
  ASSUME Types, TurnAbove, UNCHANGED <<compacted, turn>>,
         pc' \in Loop \cup {"drop"} => pc \in Loop \cup {"drop"},
         docs' = docs \/ \E d \in Record : docs' = Append(docs, d)
  PROVE  TurnAbove'
<1>1. \A i \in compacted : docs'[i] = docs[i]
  BY DocsKept DEF Types
<1> QED BY <1>1 DEF TurnAbove

\* Compacting a session that was told: what it held is in its summary, and so is
\* what the summaries before it covered.
LEMMA CompactTold ==
  ASSUME IInv, Compact
  PROVE  NothingForgotten'
<1> USE DEF IInv
<1>a. Types /\ Fitting /\ NothingForgotten
  BY DEF Memory
<1>1. PICK s \in Docs \ compacted : Told(s)
  BY DEF Memory, Compact, Free, Told
<1>2. /\ docs' = docs /\ Docs' = Docs /\ dropped' = dropped
      /\ compacted' = compacted \cup {i \in Docs : docs[i].turn < base + 1}
  BY DEF Compact, CompactBelow, Docs
<1>3. s \notin compacted'
  <2>1. base + 1 \in Nat /\ ~ (base + 1 < base + 1)
    BY DEF Types
  <2> QED BY <1>1, <1>2, <2>1 DEF Told
<1>4. docs[s].covers = Session(history) /\ Load = history \cup {s}
  BY <1>1 DEF Told
<1>5. ASSUME NEW i \in compacted' \ dropped, docs[i].kind \in Main
      PROVE  \E r \in Docs \ compacted' : i \in docs[r].covers
  <2>1. CASE i \in compacted
    <3>1. PICK r \in Docs \ compacted : i \in docs[r].covers
      BY <1>a, <1>5, <2>1 DEF NothingForgotten
    <3>2. CASE r \notin compacted' \/ r = s
      BY <1>3, <3>1, <3>2
    <3>3. CASE r \in compacted' /\ r # s
      <4>1. docs[r].kind = "summary"
        BY <1>a, <3>1 DEF Fitting, StoreFits, Fits
      <4>2. r \in Load
        BY <3>1, <4>1, LoadIs
      <4>3. r \in history
        BY <1>4, <3>3, <4>2
      <4>4. i \in Session(history)
        BY <3>1, <4>3 DEF Session
      <4> QED BY <1>1, <1>3, <1>4, <4>4
    <3> QED BY <3>2, <3>3
  <2>2. CASE i \notin compacted
    <3>1. i \in Docs /\ i # s
      BY <1>2, <1>3, <1>5, <2>2
    <3>2. i \in Load
      BY <1>5, <2>2, <3>1, LoadIs DEF Main
    <3>3. i \in Session(history)
      BY <1>4, <1>5, <3>1, <3>2 DEF Session
    <3> QED BY <1>1, <1>3, <1>4, <3>3
  <2> QED BY <2>1, <2>2
<1> QED BY <1>2, <1>5 DEF NothingForgotten

\* The recovery discards what it compacts.
LEMMA DropDiscards ==
  ASSUME IInv, Drop
  PROVE  NothingForgotten'
<1> USE DEF IInv
<1>1. /\ docs' = docs /\ Docs' = Docs
      /\ compacted' = compacted \cup {i \in Docs : docs[i].turn < turn + 1}
      /\ dropped' = dropped \cup {i \in Docs : docs[i].turn < turn + 1}
  BY DEF Drop, CompactBelow, Docs
<1>2. ASSUME NEW i \in compacted PROVE docs[i].turn < turn + 1
  <2>1. docs[i].turn < turn
    BY DEF Memory, Drop
  <2>2. docs[i].turn \in Nat /\ turn \in Nat
    BY Fields DEF Types
  <2> QED BY <2>1, <2>2
<1>3. compacted' \subseteq dropped'
  BY <1>1, <1>2 DEF Types
<1> QED BY <1>3 DEF NothingForgotten

\* Every action keeps what is compacted told.
LEMMA MemoryStep ==
  ASSUME IInv, Next, Types'
  PROVE  Memory'
<1> USE DEF IInv
<1>a. /\ Types /\ Fitting /\ Putting /\ NothingForgotten /\ LoadedIs /\ SummaryTold /\ TurnAbove
      /\ docs \in Seq(Record)
  BY DEF Memory, LoadedIs, SummaryTold, TurnAbove, Told, Types
<1>b. SUFFICES NothingForgotten' /\ LoadedIs' /\ SummaryTold' /\ TurnAbove'
  BY DEF Memory, LoadedIs, SummaryTold, TurnAbove, Told
<1>1. CASE Count \/ SubCount
  <2>1. /\ docs' = docs /\ UNCHANGED <<store, pc, base, turn, history, dropped>>
        /\ (put = None /\ put' = None) \/ (put # None /\ put' # None)
    BY <1>a, <1>1, Counts DEF ghosts
  <2>2. Load' = Load /\ Docs' = Docs /\ compacted' = compacted
    BY <2>1, LoadSame DEF store
  <2>3. NothingForgotten' /\ TurnAbove'
    BY <1>a, <2>1, <2>2, ForgottenGrown, AboveGrown
  <2>4. Session(history)' = Session(history)
    BY <1>a, <2>1, SessionSame
  <2>5. LoadedIs' /\ SummaryTold'
    BY <1>a, <2>1, <2>2, <2>4 DEF LoadedIs, SummaryTold, Told
  <2> QED BY <2>3, <2>5
<1>2. CASE Insert \/ InsertFails
  <2>1. /\ put \in Writer /\ put # None
        /\ \/ docs' = docs
           \/ \E d \in Record : docs' = Append(docs, d) /\ Same(put.doc, d) /\ put' = None
        /\ put' = None \/ (put' # None /\ put'.doc = put.doc /\ pc' = pc /\ docs' = docs)
        /\ UNCHANGED <<env, compacted, run, base, turn, map, history, sub, ghosts>>
        /\ \/ pc' = pc
           \/ put' = None /\ pc' = IF pc \in {"reflect", "compact"} THEN "number" ELSE "idle"
        /\ \/ put' # None
           \/ \E d \in Record : docs' = Append(docs, d) /\ Same(put.doc, d)
           \/ pc' = IF pc \in {"reflect", "compact"} THEN "number" ELSE "idle"
    BY <1>a, <1>2, PutStores
  <2>2. UNCHANGED <<compacted, base, turn, history, dropped>>
    BY <2>1 DEF ghosts
  <2>3. NothingForgotten'
    BY <1>a, <2>1, <2>2, ForgottenGrown
  <2>4. TurnAbove'
    <3>1. pc' \in Loop \cup {"drop"} => pc \in Loop \cup {"drop"}
      BY <2>1 DEF Loop
    <3> QED BY <1>a, <2>1, <2>2, <3>1, AboveGrown
  <2>5. CASE docs' = docs /\ ~ \E d \in Record : docs' = Append(docs, d) /\ Same(put.doc, d)
    <3>1. Load' = Load
      BY <2>2, <2>5, LoadSame DEF store
    <3>2. ~ (pc' = "compact" /\ put' = None)
      BY <2>1, <2>5
    <3>3. LoadedIs'
      BY <1>a, <2>1, <2>2, <3>1, <3>2 DEF LoadedIs
    <3> QED BY <2>3, <2>4, <3>2, <3>3 DEF SummaryTold
  <2>6. ASSUME NEW d \in Record, docs' = Append(docs, d), Same(put.doc, d), put' = None
        PROVE  LoadedIs' /\ SummaryTold'
    <3>1. Load' = IF d.kind \in {"note", "sub"} THEN Load ELSE Load \cup {Len(docs) + 1}
      BY <1>a, <2>2, <2>6, LoadGrown
    <3>2. LoadedIs'
      <4>1. ASSUME pc' \in {"decide", "reflect"} PROVE Load' = history'
        <5>1. pc' = pc
          BY <2>1, <4>1
        <5>2. d.kind = "note" /\ Load = history
          BY <1>a, <2>1, <2>6, <4>1, <5>1 DEF Putting, LoadedIs, Same
        <5> QED BY <2>2, <3>1, <5>2
      <4> QED BY <2>6, <4>1 DEF LoadedIs
    <3>3. ASSUME pc' = "compact" PROVE \E s \in Docs' \ compacted' : Told(s)'
      <4>0. PICK n : n = Len(docs) + 1
        OBVIOUS
      <4>1. pc = "compact"
        BY <2>1, <3>3
      <4>2. d.kind = "summary" /\ d.turn = base + 1 /\ d.covers = Session(history)
        BY <1>a, <2>1, <2>6, <4>1 DEF Putting, Mine, Same
      <4>3. Load = history
        BY <1>a, <2>1, <4>1 DEF LoadedIs
      <4>4. n \in Docs' /\ docs'[n] = d /\ n \notin Docs
        BY <1>a, <2>6, <4>0, Grown
      <4>5. n \notin compacted'
        BY <2>2, <4>4 DEF Types
      <4>6. Load' = history' \cup {n}
        BY <2>2, <3>1, <4>0, <4>2, <4>3
      <4>7. Session(history)' = Session(history)
        BY <1>a, <2>2, <2>6, SessionSame
      <4>8. docs'[n].turn = base' + 1 /\ docs'[n].covers = Session(history)'
        BY <2>2, <4>2, <4>4, <4>7
      <4>9. Told(n)'
        BY <4>6, <4>8 DEF Told
      <4> QED BY <4>4, <4>5, <4>9
    <3> QED BY <3>2, <3>3 DEF SummaryTold
  <2> QED BY <2>1, <2>3, <2>4, <2>5, <2>6
<1>3. CASE ReadFails \/ Die \/ Wake \/ Reload
  <2>1. /\ UNCHANGED <<store, dropped, turn>>
        /\ pc' \notin Loop \cup {"drop", "decide", "reflect", "compact"}
    BY <1>3 DEF ReadFails, Throw, Die, Wake, Reload, ghosts, Loop
  <2>2. docs' = docs /\ compacted' = compacted
    BY <2>1 DEF store
  <2>3. NothingForgotten'
    BY <1>a, <2>1, <2>2, ForgottenGrown
  <2> QED BY <2>1, <2>3 DEF LoadedIs, SummaryTold, TurnAbove
<1>4. CASE LoadHistory \/ Decide \/ Note
  <2>1. /\ UNCHANGED <<store, dropped, turn>>
        /\ pc' \notin Loop \cup {"drop", "compact"}
    BY <1>4 DEF LoadHistory, Decide, Note, ghosts, Loop
  <2>2. docs' = docs /\ compacted' = compacted /\ Load' = Load
    BY <2>1, LoadSame DEF store
  <2>3. NothingForgotten'
    BY <1>a, <2>1, <2>2, ForgottenGrown
  <2>4. pc' \in {"decide", "reflect"} => Load = history'
    BY <1>a, <1>4 DEF LoadHistory, Decide, Note, LoadedIs
  <2> QED BY <2>1, <2>2, <2>3, <2>4 DEF LoadedIs, SummaryTold, TurnAbove
<1>5. CASE Summarise
  <2>1. /\ UNCHANGED <<store, dropped, turn, history>> /\ pc = "reflect"
        /\ pc' \in {"reload", "compact"} /\ (pc' = "compact" => put' # None)
    BY <1>5, PutIs DEF Summarise, ghosts
  <2>2. docs' = docs /\ compacted' = compacted /\ Load' = Load
    BY <2>1, LoadSame DEF store
  <2>3. NothingForgotten'
    BY <1>a, <2>1, <2>2, ForgottenGrown
  <2>4. pc' \notin Loop \cup {"drop"}
    BY <2>1 DEF Loop
  <2> QED BY <1>a, <2>1, <2>2, <2>3, <2>4 DEF LoadedIs, SummaryTold, TurnAbove
<1>6. CASE Compact \/ Drop
  <2>1. pc' \in {"reload", "again"}
    BY <1>6 DEF Compact, Drop
  <2>2. pc' \notin Loop \cup {"drop", "decide", "reflect", "compact"}
    BY <2>1 DEF Loop
  <2>3. NothingForgotten'
    BY <1>6, CompactTold, DropDiscards
  <2> QED BY <2>2, <2>3 DEF LoadedIs, SummaryTold, TurnAbove
<1>7. CASE PickNumber \/ Again
  <2>1. UNCHANGED <<store, dropped>> /\ pc' = "task" /\ turn' = LastTurn + 1
    BY <1>7 DEF PickNumber, Again, ghosts
  <2>2. docs' = docs /\ compacted' = compacted
    BY <2>1 DEF store
  <2>3. NothingForgotten'
    BY <1>a, <2>1, <2>2, ForgottenGrown
  <2>4. ASSUME NEW i \in compacted PROVE docs[i].turn < LastTurn + 1
    <3>1. docs[i].turn \in Nat /\ LastTurn \in Int /\ docs[i].turn <= LastTurn
      BY <1>a, LastTurnIs, Fields DEF Types
    <3> QED BY <3>1
  <2> QED BY <2>1, <2>2, <2>3, <2>4 DEF LoadedIs, SummaryTold, TurnAbove
<1>8. CASE \/ Task \/ Reject \/ Tool \/ Interrupt \/ NextCall \/ Cut \/ Done \/ Recover
           \/ \E n \in 0 .. MaxCalls : Answer(n) \/ AnswerFails(n)
  <2>1. /\ UNCHANGED <<store, dropped, turn>> /\ pc \in Loop
        /\ pc' \notin {"decide", "reflect", "compact"}
    BY <1>8
       DEF Task, Reject, Tool, Interrupt, NextCall, Cut, Done, Recover, Answer,
           AnswerFails, ghosts, 
                Loop
  <2>2. docs' = docs /\ compacted' = compacted
    BY <2>1 DEF store
  <2>3. NothingForgotten' /\ TurnAbove'
    BY <1>a, <2>1, <2>2, ForgottenGrown, AboveGrown
  <2> QED BY <2>1, <2>3 DEF LoadedIs, SummaryTold
<1>9. CASE SubInsert
  <2>1. /\ docs' = docs \/ \E d \in Record : docs' = Append(docs, d) /\ Same(sub.doc, d)
        /\ sub # None
        /\ UNCHANGED <<env, compacted, run, pc, base, turn, map, history, put, ghosts>>
    BY <1>a, <1>9, SubStores
  <2>2. UNCHANGED <<compacted, dropped, pc, base, turn, history, put>>
    BY <2>1 DEF ghosts
  <2>3. NothingForgotten' /\ TurnAbove'
    BY <1>a, <2>1, <2>2, ForgottenGrown, AboveGrown
  <2>4. Load' = Load
    <3>1. CASE docs' = docs
      BY <2>2, <3>1, LoadSame DEF store
    <3>2. ASSUME NEW d \in Record, docs' = Append(docs, d), Same(sub.doc, d)
          PROVE  Load' = Load
      <4>1. d.kind = "sub"
        BY <1>a, <2>1, <3>2 DEF Fitting, SubFits, Same
      <4> QED BY <1>a, <2>2, <3>2, <4>1, LoadGrown
    <3> QED BY <2>1, <3>1, <3>2
  <2>5. \A i \in Docs : i \in Docs' /\ docs'[i] = docs[i]
    BY <1>a, <2>1, DocsKept
  <2>6. Session(history)' = Session(history)
    BY <1>a, <2>1, SessionSame
  <2>7. LoadedIs'
    BY <1>a, <2>2, <2>4 DEF LoadedIs
  <2>8. SummaryTold'
    BY <1>a, <2>2, <2>4, <2>5, <2>6 DEF SummaryTold, Told
  <2> QED BY <2>3, <2>7, <2>8
<1> QED
  BY <1>1, <1>2, <1>3, <1>4, <1>5, <1>6, <1>7, <1>8, <1>9 DEF Next

-----------------------------------------------------------------------------
(* The theorems *)

\* The invariant holds before anything has run ...
LEMMA InitInv == Init => IInv
<1> SUFFICES ASSUME Init PROVE IInv
  OBVIOUS
<1>1. docs = <<>> /\ Docs = {} /\ docs \in Seq(Record)
  BY DEF Init, Docs
<1>2. Types
  BY <1>1, Consts DEF Init, Types, ghosts
<1>3. StoreFits
  <2>1. 0 \in Nat /\ \A i \in Docs : docs[i].turn <= 0
    BY <1>1
  <2> QED BY <1>1, <2>1 DEF StoreFits
<1>4. Fitting /\ Putting
  BY <1>3 DEF Init, Fitting, PutFits, SubFits, Putting
<1>5. Answered /\ Apart
  BY <1>1 DEF Init, Answered, Apart, TurnsApart, Loop
<1>6. Maps
  <2>1. NewestMap = {} \/ \E i \in Docs : TRUE
    BY <1>1, NewestIs
  <2> QED BY <1>1, <2>1 DEF Init, Maps
<1>7. Memory
  BY <1>1 DEF Init, Memory, NothingForgotten, Loop
<1> QED BY <1>2, <1>4, <1>5, <1>6, <1>7 DEF IInv

\* ... and while nothing changes.
LEMMA StutterInv == IInv /\ UNCHANGED vars => IInv'
<1> SUFFICES ASSUME IInv, UNCHANGED vars PROVE IInv'
  OBVIOUS
<1>1. UNCHANGED <<env, docs, compacted, run, pc, base, turn, map, history, put, sub, edits, kept,
                  dropped, faults>>
  BY DEF vars, store, ghosts
<1>2. Docs' = Docs /\ Load' = Load /\ NewestMap' = NewestMap /\ Session(history)' = Session(history)
  BY <1>1 DEF Docs, Load, NewestMap, Session
<1>3. Types' /\ Putting' /\ Answered'
  BY <1>1, <1>2 DEF IInv, Types, Putting, Answered, Mine
<1>4. Fitting'
  BY <1>1, <1>2 DEF IInv, Fitting, StoreFits, PutFits, SubFits
<1>5. Apart' /\ Maps'
  BY <1>1, <1>2 DEF IInv, Apart, TurnsApart, Maps
<1>6. Memory'
  BY <1>1, <1>2 DEF IInv, Memory, NothingForgotten
<1> QED BY <1>3, <1>4, <1>5, <1>6 DEF IInv

\* The strengthening holds in every reachable state, for any number of runs,
\* documents, tool calls and faults.
THEOREM Inductive == Spec => []IInv
<1>1. IInv /\ Next => IInv'
  <2> SUFFICES ASSUME IInv, Next PROVE IInv'
    OBVIOUS
  <2>1. Types'
    BY TypesStep
  <2> QED
    BY <2>1, FittingStep, PuttingStep, AnsweredStep, ApartStep, MapsStep, MemoryStep
       DEF IInv
<1> QED BY InitInv, StutterInv, <1>1, PTL DEF Spec

\* Every variable keeps its type, and no append is tried more often than
\* MAX_ATTEMPTS (conversation-repository.ts).
THEOREM TypeCorrect == Spec => []TypeOK
<1>1. IInv => TypeOK
  <2> SUFFICES ASSUME IInv PROVE TypeOK
    OBVIOUS
  <2> USE DEF IInv
  <2>1. ASSUME NEW i \in Docs
        PROVE  /\ docs[i].kind \in Main \cup {"summary", "note", "sub"}
               /\ docs[i].turn \in Nat /\ docs[i].seq \in Nat /\ docs[i].calls \in 0 .. MaxCalls
               /\ docs[i].covers \subseteq 1 .. i - 1 /\ docs[i].by \in 1 .. MaxRuns
    <3>1. docs[i].covers \subseteq 1 .. i - 1
      BY DEF Fitting, StoreFits, Fits
    <3> QED BY <3>1, Fields DEF Types, Kinds
  <2>2. /\ put = None \/ put.tries \in 0 .. MaxTries - 1
        /\ sub = None \/ sub.tries \in 0 .. MaxTries - 1
    BY Writing DEF Types
  <2>3. pc \in {"idle", "load", "decide", "reflect", "compact", "reload", "number", "task",
                "call", "tools", "interrupted", "done", "recover", "drop", "again"}
    BY DEF Types, Loop
  <2> QED BY <2>1, <2>2, <2>3 DEF TypeOK, Types
<1> QED BY <1>1, Inductive, PTL

\* No two turns share a number, whatever was compacted and wherever a run
\* stopped (lastTurnNumber and the appends of conversation-repository.ts, #102).
THEOREM NumbersApart == Spec => []TurnsApart
<1>1. IInv => TurnsApart
  BY DEF IInv, Apart
<1> QED BY <1>1, Inductive, PTL

\* What load() no longer returns is told in a summary that it does return, or
\* was discarded by the recovery (reflection.ts, agent-runner.ts).
THEOREM MemoryKept == Spec => []NothingForgotten
<1>1. IInv => NothingForgotten
  BY DEF IInv, Memory
<1> QED BY <1>1, Inductive, PTL

\* The edits of a compacted session, and of a turn that ended by itself, are in
\* the newest snapshot (loadMostRecentMentalMap), for any number of edits.
THEOREM EditsKept == Spec => []MapKept
<1>1. IInv => MapKept
  BY DEF IInv, Maps, MapKept
<1> QED BY <1>1, Inductive, PTL

-----------------------------------------------------------------------------
(* The invariant of the replay *)

\* Places in a turn grow with the documents, and are below their number; so is
\* the place that an append has counted.
Order == \A i, j \in Docs : docs[i].turn = docs[j].turn /\ i < j => docs[i].seq < docs[j].seq
Tight == \A i \in Docs : docs[i].seq < Stored(docs[i].turn)
Counted(w) == w # None => w.seq <= Stored(w.doc.turn)
Index == Order /\ Tight /\ Counted(put) /\ Counted(sub)

\* The k-th call of document a has its result; all calls of a have; those of a turn have.
HasResult(a, k) == \E i \in Docs : docs[i].kind = "result" /\ docs[i].of = <<a, k>>
Whole(a) == \A k \in 1 .. docs[a].calls : HasResult(a, k)
Ready(t) == \A a \in Docs : docs[a].turn = t => Whole(a)
Aside    == {"result", "note", "sub"}

\* A result answers one call of an earlier answer of its turn, and nothing but
\* results is between the two in what is loaded.
Reply(i) ==
  LET a == docs[i].of[1]
  IN  /\ a \in Docs /\ a < i /\ docs[a].kind = "assistant" /\ docs[a].turn = docs[i].turn
      /\ docs[i].of[2] \in 1 .. docs[a].calls
      /\ \A j \in Docs : a < j /\ j < i /\ docs[j].turn = docs[i].turn => docs[j].kind \in Aside
      /\ i \in compacted <=> a \in compacted
Replies ==
  /\ \A i \in Docs : docs[i].kind # "assistant" => docs[i].calls = 0
  /\ \A i \in Docs : docs[i].kind # "result" => docs[i].of = <<0, 0>>
  /\ \A i \in Docs : docs[i].kind = "result" => Reply(i)
  /\ \A i, j \in Docs : docs[i].kind = "result" /\ docs[j].kind = "result"
                        /\ docs[i].of = docs[j].of => i = j

\* Behind an answer with a call that has no result there are only results.
Open ==
  \A a, j \in Docs : ~Whole(a) /\ a < j /\ docs[j].turn = docs[a].turn => docs[j].kind \in Aside

\* An append about to store a result answers an open call of a message that is
\* not compacted; one of a message finds its turn's calls answered.
PutReplies ==
  put # None =>
    /\ put.doc.kind # "assistant" => put.doc.calls = 0
    /\ put.doc.kind # "result" => put.doc.of = <<0, 0>>
    /\ put.doc.kind = "result" =>
         \E a \in Docs \ compacted : \E k \in 1 .. docs[a].calls :
           /\ put.doc.of = <<a, k>> /\ ~HasResult(a, k) /\ docs[a].kind = "assistant"
           /\ docs[a].turn = put.doc.turn
    /\ put.doc.kind \notin Aside => Ready(put.doc.turn)

\* A sub-loop writes into the turn of the answer that started it.
SubReplies ==
  sub # None =>
    /\ sub.doc.calls = 0 /\ sub.doc.of = <<0, 0>>
    /\ \E i \in Docs : docs[i].turn = sub.doc.turn /\ docs[i].kind = "assistant"

\* A reflection writes above the session, and the loop above all that is stored.
NotesAbove ==
  pc \in {"reflect", "compact"} =>
    \A i \in Docs : docs[i].turn > base => docs[i].kind \in {"note", "summary"}
TurnLast ==
  pc \in Loop \cup {"drop", "again"} =>
    \A i \in Docs : docs[i].turn > turn => docs[i].kind = "summary" /\ pc \notin Loop
TurnNew == pc = "task" => \A i \in Docs : docs[i].turn < turn

\* Before a call of the LLM the turn's calls are answered, and while tools run
\* those of all answers but the last.
CallReady == pc = "call" => Ready(turn)
LastOpen ==
  pc \in {"tools", "interrupted"} /\ ~(put # None /\ put.doc.kind = "assistant") =>
    /\ docs[LastAnswer].turn = turn
    /\ \A a \in Docs : docs[a].turn = turn /\ a # LastAnswer => Whole(a)

\* A recovery leaves its summary.
Emptied == pc = "again" => \A i \in Docs \ compacted : docs[i].kind \in {"summary", "sub"}
Above == NotesAbove /\ TurnLast /\ TurnNew /\ CallReady /\ LastOpen /\ Emptied

\* A set of documents with the results of its calls, and no others.
Closed(S) ==
  /\ \A i \in S : docs[i].kind \notin {"note", "sub"}
  /\ \A a \in S : \A k \in 1 .. docs[a].calls :
       \E i \in S : docs[i].kind = "result" /\ docs[i].of = <<a, k>>
  /\ \A i \in S : docs[i].kind = "result" => docs[i].of[1] \in S

\* The history is closed once loaded; until the loop, so is what would be loaded.
Loaded ==
  /\ pc \notin {"idle", "load"} => Closed(history)
  /\ pc \in {"decide", "reflect", "compact", "reload"} =>
       \A a \in Docs \ compacted : Whole(a)

Replay == Index /\ Replies /\ Open /\ PutReplies /\ SubReplies /\ Above /\ Loaded

-----------------------------------------------------------------------------
(* Sequences made one by one, and ranks *)

\* Induction over an interval, for a set of its numbers.
LEMMA IntervalInduction ==
  ASSUME NEW N \in Nat, NEW G \in SUBSET (1 .. N), N > 0 => 1 \in G,
         \A i \in G : i < N => i + 1 \in G
  PROVE  G = 1 .. N
<1> DEFINE B == (1 .. N) \ G
<1>1. ASSUME B # {} PROVE FALSE
  <2>1. B \in SUBSET Nat
    OBVIOUS
  <2>2. PICK m \in B : \A u \in B : <<u, m>> \notin OpToRel(<, Nat)
    <3> HIDE DEF B
    <3> QED BY <1>1, <2>1, NatLessThanWellFounded, WFMin, Zenon
  <2>3. m \in 1 .. N /\ m \notin G /\ m # 1
    OBVIOUS
  <2>4. m - 1 \in 1 .. N /\ m - 1 \in Nat /\ m \in Nat /\ m - 1 < m /\ (m - 1) + 1 = m /\ m - 1 < N
    BY <2>3
  <2>5. m - 1 \notin G
    BY <2>3, <2>4
  <2>6. <<m - 1, m>> \in OpToRel(<, Nat)
    BY <2>4 DEF OpToRel
  <2> QED BY <2>2, <2>4, <2>5, <2>6
<1> QED BY <1>1

\* The equation by which FlattenSeq is defined, as an operator of its solution.
Flat(s, g, i) == IF i = 1 THEN s[i] ELSE g[i - 1] \o s[i]

\* Sequences with the same elements are the same.
LEMMA SameElements ==
  ASSUME NEW T, NEW s \in Seq(T), NEW t \in Seq(T), Len(s) = Len(t),
         \A i \in 1 .. Len(s) : s[i] = t[i]
  PROVE  s = t
OBVIOUS

LEMMA FlattenUnfold ==
  ASSUME NEW s, Len(s) # 0, NEW r,
         \E g : g = [i \in 1 .. Len(s) |-> Flat(s, g, i)],
         \A g : g = [i \in 1 .. Len(s) |-> Flat(s, g, i)] => g[Len(s)] = r
  PROVE  FlattenSeq(s) = r
BY Zenon DEF FlattenSeq, Flat

\* A sequence of sequences of one element each is flattened to those elements.
LEMMA FlattenUnits ==
  ASSUME NEW N \in Nat, NEW T, NEW f \in [1 .. N -> T]
  PROVE  FlattenSeq([n \in 1 .. N |-> <<f[n]>>]) = f
<1> DEFINE s == [n \in 1 .. N |-> <<f[n]>>]
           U(i) == [n \in 1 .. i |-> f[n]]
           h == [i \in 1 .. N |-> U(i)]
<1>1. Len(s) = N /\ s \in Seq(Seq(T))
  OBVIOUS
<1>2. CASE N = 0
  <2>1. Len(s) = 0 /\ s = f
    BY <1>2
  <2> HIDE DEF s
  <2>2. FlattenSeq(s) = s
    BY <2>1 DEF FlattenSeq
  <2> QED BY <2>1, <2>2 DEF s
<1>3. CASE N # 0
  <2>1. \A i \in 1 .. N : s[i] = <<f[i]>> /\ U(i) \in Seq(T) /\ Len(U(i)) = i
    OBVIOUS
  <2>2. ASSUME NEW i \in 1 .. N, i # 1 PROVE U(i - 1) \o <<f[i]>> = U(i)
    <3>1. i - 1 \in 1 .. N /\ f[i] \in T
      BY <2>2
    <3>2. U(i - 1) \in Seq(T) /\ Len(U(i - 1)) = i - 1 /\ <<f[i]>> \in Seq(T)
          /\ Len(<<f[i]>>) = 1
      BY <3>1, <2>1
    <3>3. \A n \in 1 .. i - 1 : U(i - 1)[n] = f[n]
      BY <3>1
    <3>5. \A n \in 1 .. i : (U(i - 1) \o <<f[i]>>)[n] = f[n]
      <4> HIDE DEF U
      <4> QED BY <3>2, <3>3
    <3>6. DOMAIN U(i) = 1 .. i /\ \A n \in 1 .. i : U(i)[n] = f[n]
      OBVIOUS
    <3>7. U(i - 1) \o <<f[i]>> \in Seq(T) /\ U(i) \in Seq(T)
      BY <2>1, <3>2
    <3>8. Len(U(i - 1) \o <<f[i]>>) = i
      BY <3>2
    <3> HIDE DEF U
    <3> QED BY <2>1, <3>5, <3>6, <3>7, <3>8, SameElements
  <2>3. U(1) = <<f[1]>>
    BY <1>3
  <2>4. h = [i \in 1 .. N |-> Flat(s, h, i)]
    <3>1. ASSUME NEW i \in 1 .. N PROVE h[i] = Flat(s, h, i)
      <4>1. h[i] = U(i) /\ (i # 1 => i - 1 \in 1 .. N /\ h[i - 1] = U(i - 1))
        OBVIOUS
      <4>2. s[i] = <<f[i]>>
        OBVIOUS
      <4> HIDE DEF h, s, U
      <4> QED BY <4>1, <4>2, <2>2, <2>3 DEF Flat
    <3> QED BY <3>1
  <2>5. ASSUME NEW g, g = [i \in 1 .. N |-> Flat(s, g, i)] PROVE g[N] = f
    <3>1. \A i \in 1 .. N : g[i] = Flat(s, g, i)
      <4> HIDE DEF s
      <4> QED BY <2>5
    <3> DEFINE G == {i \in 1 .. N : g[i] = U(i)}
    <3>2. 1 \in G
      <4>1. 1 \in 1 .. N /\ g[1] = Flat(s, g, 1) /\ s[1] = <<f[1]>>
        BY <1>3, <3>1
      <4> HIDE DEF s, U
      <4> QED BY <4>1, <2>3 DEF Flat
    <3>3. ASSUME NEW i \in G, i < N PROVE i + 1 \in G
      <4>1. i + 1 \in 1 .. N /\ i + 1 # 1 /\ (i + 1) - 1 = i /\ g[i] = U(i)
        BY <3>3
      <4>2. g[i + 1] = Flat(s, g, i + 1) /\ s[i + 1] = <<f[i + 1]>>
        BY <3>1, <4>1
      <4>3. U(i) \o <<f[i + 1]>> = U(i + 1)
        BY <4>1, <2>2
      <4>4. g[i + 1] = U(i + 1)
        <5> HIDE DEF U, s, G
        <5> QED BY <4>1, <4>2, <4>3 DEF Flat
      <4> QED BY <4>1, <4>4
    <3>4. G \in SUBSET (1 .. N)
      OBVIOUS
    <3>5. G = 1 .. N
      <4> HIDE DEF G
      <4> QED BY <3>2, <3>3, <3>4, IntervalInduction
    <3>6. N \in G
      BY <1>3, <3>5
    <3>7. g[N] = U(N)
      BY <3>6
    <3>8. U(N) = f
      OBVIOUS
    <3> QED BY <3>7, <3>8
  <2>6. \E g : g = [i \in 1 .. Len(s) |-> Flat(s, g, i)]
    <3> HIDE DEF h, s
    <3> QED BY <1>1, <2>4
  <2>7. \A g : g = [i \in 1 .. Len(s) |-> Flat(s, g, i)] => g[Len(s)] = f
    <3> HIDE DEF s
    <3> QED BY <1>1, <2>5
  <2>8. Len(s) # 0
    BY <1>1, <1>3
  <2> HIDE DEF s, h
  <2>9. FlattenSeq(s) = f
    BY <2>6, <2>7, <2>8, FlattenUnfold
  <2> QED BY <2>9 DEF s
<1> QED BY <1>2, <1>3

\* The order of the places is that of the documents within a turn.
LEMMA OlderIs ==
  ASSUME docs \in Seq(Record), Order, NEW i \in Docs, NEW j \in Docs
  PROVE  Older(i, j) <=> \/ docs[i].turn < docs[j].turn
                         \/ docs[i].turn = docs[j].turn /\ i < j
<1>1. /\ i \in Nat /\ j \in Nat /\ docs[i].seq \in Nat /\ docs[j].seq \in Nat
      /\ docs[i].turn \in Nat /\ docs[j].turn \in Nat
  BY Fields
<1>2. CASE docs[i].turn = docs[j].turn
  <2>1. i < j => docs[i].seq < docs[j].seq
    BY <1>2 DEF Order
  <2>2. j < i => docs[j].seq < docs[i].seq
    BY <1>2 DEF Order
  <2>3. i < j \/ j < i \/ i = j
    BY <1>1
  <2> QED BY <1>1, <1>2, <2>1, <2>2, <2>3 DEF Older
<1>3. CASE docs[i].turn # docs[j].turn
  BY <1>1, <1>3 DEF Older
<1> QED BY <1>2, <1>3

\* It is a strict order of all documents.
LEMMA OlderOrders ==
  ASSUME docs \in Seq(Record), Order, NEW i \in Docs, NEW j \in Docs, NEW k \in Docs
  PROVE  /\ ~Older(i, i)
         /\ Older(i, j) \/ Older(j, i) \/ i = j
         /\ Older(i, j) /\ Older(j, k) => Older(i, k)
<1>1. /\ i \in Nat /\ j \in Nat /\ k \in Nat
      /\ docs[i].turn \in Nat /\ docs[j].turn \in Nat /\ docs[k].turn \in Nat
  BY Fields
<1>2. /\ Older(i, i) <=> docs[i].turn < docs[i].turn \/ (docs[i].turn = docs[i].turn /\ i < i)
      /\ Older(i, j) <=> docs[i].turn < docs[j].turn \/ (docs[i].turn = docs[j].turn /\ i < j)
      /\ Older(j, i) <=> docs[j].turn < docs[i].turn \/ (docs[j].turn = docs[i].turn /\ j < i)
      /\ Older(j, k) <=> docs[j].turn < docs[k].turn \/ (docs[j].turn = docs[k].turn /\ j < k)
      /\ Older(i, k) <=> docs[i].turn < docs[k].turn \/ (docs[i].turn = docs[k].turn /\ i < k)
  BY OlderIs
<1> QED BY <1>1, <1>2

\* How many documents of S come before one.
Before(S, i) == {j \in S : Older(j, i)}
Rank(S, i)   == Cardinality(Before(S, i))

\* Documents are finitely many.
LEMMA FinitelyMany ==
  ASSUME docs \in Seq(Record), NEW S \in SUBSET Docs
  PROVE  IsFiniteSet(S) /\ Cardinality(S) \in Nat
<1>1. Docs = 1 .. Len(docs) /\ Len(docs) \in Nat
  BY DEF Docs
<1>2. IsFiniteSet(Docs)
  BY <1>1, FS_Interval
<1>3. IsFiniteSet(S)
  BY <1>2, FS_Subset
<1> QED BY <1>3, FS_CardinalityType

\* Ranks are below the number of documents, and grow with them.
LEMMA RankIs ==
  ASSUME docs \in Seq(Record), Order, NEW S \in SUBSET Docs, NEW i \in S, NEW j \in S
  PROVE  /\ Rank(S, i) \in Nat /\ Rank(S, i) < Cardinality(S)
         /\ Older(i, j) => Rank(S, i) < Rank(S, j)
         /\ Rank(S, i) = Rank(S, j) => i = j
<1>1. ASSUME NEW x \in S, NEW T \in SUBSET S, Before(S, x) \subseteq T, x \in T
      PROVE  /\ Rank(S, x) \in Nat /\ Cardinality(T) \in Nat
             /\ Rank(S, x) < Cardinality(T)
  <2>1. x \notin Before(S, x) /\ Before(S, x) \subseteq S /\ S \subseteq Docs
    BY OlderOrders DEF Before
  <2>2. /\ IsFiniteSet(T) /\ Cardinality(T) \in Nat
        /\ IsFiniteSet(Before(S, x)) /\ Cardinality(Before(S, x)) \in Nat
    <3>1. T \in SUBSET Docs /\ Before(S, x) \in SUBSET Docs
      BY <2>1
    <3> QED BY <3>1, FinitelyMany
  <2>3. Cardinality(Before(S, x)) <= Cardinality(T)
    BY <1>1, <2>2, FS_Subset
  <2>4. Cardinality(Before(S, x)) # Cardinality(T)
    BY <1>1, <2>1, <2>2, FS_Subset
  <2> QED BY <2>2, <2>3, <2>4 DEF Rank
<1>2. Rank(S, i) \in Nat /\ Rank(S, i) < Cardinality(S)
  <2>1. Before(S, i) \subseteq S
    BY DEF Before
  <2> QED BY <1>1, <2>1
<1>3. ASSUME NEW x \in S, NEW y \in S, Older(x, y) PROVE Rank(S, x) < Rank(S, y)
  <2>1. Before(S, x) \subseteq Before(S, y) /\ x \in Before(S, y) /\ Before(S, y) \subseteq S
    <3>1. \A k \in S : Older(k, x) => Older(k, y)
      BY <1>3, OlderOrders
    <3> QED BY <1>3, <3>1 DEF Before
  <2>2. Rank(S, x) < Cardinality(Before(S, y))
    BY <1>1, <2>1
  <2> QED BY <2>2 DEF Rank
<1>4. Rank(S, i) = Rank(S, j) => i = j
  <2>1. Rank(S, i) \in Nat /\ Rank(S, j) \in Nat
    <3>1. Before(S, j) \subseteq S
      BY DEF Before
    <3> QED BY <1>1, <1>2, <3>1
  <2>2. Older(i, j) \/ Older(j, i) \/ i = j
    BY OlderOrders
  <2> QED BY <1>3, <2>1, <2>2
<1> QED BY <1>2, <1>3, <1>4

\* Every rank is taken.
LEMMA RankTaken ==
  ASSUME docs \in Seq(Record), Order, NEW S \in SUBSET Docs, NEW n \in 1 .. Cardinality(S)
  PROVE  \E i \in S : Rank(S, i) = n - 1
<1> DEFINE N == Cardinality(S)
           f == [i \in S |-> Rank(S, i) + 1]
<1>1. IsFiniteSet(S) /\ N \in Nat
  BY FinitelyMany
<1>2. IsFiniteSet(1 .. N) /\ Cardinality(1 .. N) = N
  BY <1>1, FS_Interval
<1>3. \A i \in S : Rank(S, i) \in Nat /\ Rank(S, i) < N
  BY RankIs
<1>4. \A i, j \in S : Rank(S, i) = Rank(S, j) => i = j
  BY RankIs
<1>5. f \in [S -> 1 .. N]
  BY <1>1, <1>3
<1>6. \A i, j \in S : f[i] = f[j] => i = j
  BY <1>3, <1>4
<1>7. f \in Injection(S, 1 .. N)
  <2> HIDE DEF f, N
  <2> QED BY <1>5, <1>6 DEF Injection, IsInjective
<1>8. f \in Surjection(S, 1 .. N)
  <2> HIDE DEF f
  <2> QED BY <1>1, <1>2, <1>7, FS_Injection
<1>9. PICK i \in S : f[i] = n
  <2> HIDE DEF f
  <2> QED BY <1>8 DEF Surjection
<1>10. Rank(S, i) + 1 = n /\ Rank(S, i) \in Nat
  BY <1>3, <1>9
<1> QED BY <1>10

-----------------------------------------------------------------------------
(* What convertToLlm makes of a closed history *)

\* A set without elements is the empty sequence.
LEMMA NoSequence == ASSUME NEW E, E = {} PROVE SetToSeq(E) = <<>>
<1>1. Cardinality(E) = 0
  BY FS_EmptySet
<1>2. SetToSeq(E) = CHOOSE f \in [1 .. 0 -> E] : IsInjective(f)
  BY <1>1 DEF SetToSeq
<1>3. \A f \in [1 .. 0 -> E] : f = <<>>
  OBVIOUS
<1>4. <<>> \in [1 .. 0 -> E] /\ IsInjective(<<>>)
  BY DEF IsInjective
<1> QED BY <1>2, <1>3, <1>4

\* No call of a closed set is left dangling, and each of its results has its call.
LEMMA ClosedCalls ==
  ASSUME docs \in Seq(Record), Replies, NEW S \in SUBSET Docs, Closed(S)
  PROVE  /\ Dangling(S) = {}
         /\ \A i \in S : docs[i].kind = "result" => docs[i].of \in Calls(S)
<1>1. ASSUME NEW c \in Dangling(S) PROVE FALSE
  <2>1. PICK a \in S : c \in {<<a, k>> : k \in 1 .. docs[a].calls}
    BY DEF Dangling, Calls
  <2>2. PICK k \in 1 .. docs[a].calls : c = <<a, k>>
    BY <2>1
  <2>3. PICK i \in S : docs[i].of = <<a, k>>
    BY <2>2 DEF Closed
  <2> QED BY <2>2, <2>3 DEF Dangling
<1>2. ASSUME NEW i \in S, docs[i].kind = "result" PROVE docs[i].of \in Calls(S)
  <2> DEFINE a == docs[i].of[1]
             k == docs[i].of[2]
  <2>1. a \in S /\ k \in 1 .. docs[a].calls
    BY <1>2 DEF Closed, Replies, Reply
  <2>2. docs[i].of \in Nat \X Nat
    BY Fields
  <2>3. docs[i].of = <<a, k>>
    BY <2>2
  <2>4. <<a, k>> \in {<<a, m>> : m \in 1 .. docs[a].calls}
    BY <2>1
  <2> HIDE DEF a, k
  <2>5. {<<a, m>> : m \in 1 .. docs[a].calls} \in {{<<j, m>> : m \in 1 .. docs[j].calls} : j \in S}
    BY <2>1
  <2> QED BY <2>3, <2>4, <2>5 DEF Calls
<1> QED BY <1>1, <1>2

\* What a stored message becomes, and where.
Entry(i) ==
  CASE docs[i].kind = "result"    -> [kind |-> "result", of |-> docs[i].of]
    [] docs[i].kind = "assistant" -> [kind |-> "assistant", of |-> <<i, docs[i].calls>>]
    [] OTHER                      -> [kind |-> docs[i].kind, of |-> <<0, 0>>]
Place(S, n) == CHOOSE i \in S : Cardinality({j \in S : Older(j, i)}) = n - 1

\* A closed set is handed over message by message, in the order of their places.
LEMMA ConvertIs ==
  ASSUME docs \in Seq(Record), Order, Replies, NEW S \in SUBSET Docs, Closed(S)
  PROVE  Convert(S) = [n \in 1 .. Cardinality(S) |-> Entry(Place(S, n))]
<1> DEFINE Item(i) ==
             CASE docs[i].kind = "result" ->
                    IF docs[i].of \in Calls(S) THEN <<[kind |-> "result", of |-> docs[i].of]>>
                                               ELSE <<>>
               [] docs[i].kind = "assistant" ->
                    <<[kind |-> "assistant", of |-> <<i, docs[i].calls>>]>> \o
                    SetToSeq({[kind |-> "result", of |-> c] :
                              c \in {c \in Dangling(S) : c[1] = i}})
               [] OTHER -> <<[kind |-> docs[i].kind, of |-> <<0, 0>>]>>
           N == Cardinality(S)
           order == [n \in 1 .. N |-> Place(S, n)]
           T == {Entry(i) : i \in S}
           f == [n \in 1 .. N |-> Entry(Place(S, n))]
<1>1. \A n \in 1 .. N : Place(S, n) \in S
  BY RankTaken DEF Place, Rank, Before
<1>2. ASSUME NEW i \in S PROVE Item(i) = <<Entry(i)>>
  <2>1. CASE docs[i].kind = "result"
    BY <2>1, ClosedCalls DEF Entry
  <2>2. CASE docs[i].kind = "assistant"
    <3>1. {[kind |-> "result", of |-> c] : c \in {c \in Dangling(S) : c[1] = i}} = {}
      BY ClosedCalls
    <3>2. SetToSeq({[kind |-> "result", of |-> c] : c \in {c \in Dangling(S) : c[1] = i}}) = <<>>
      BY <3>1, NoSequence
    <3>3. Entry(i) = [kind |-> "assistant", of |-> <<i, docs[i].calls>>]
      BY <2>2 DEF Entry
    <3>4. <<Entry(i)>> \o <<>> = <<Entry(i)>>
      OBVIOUS
    <3> QED BY <2>2, <3>2, <3>3, <3>4
  <2>3. CASE docs[i].kind \notin {"result", "assistant"}
    BY <2>3 DEF Entry
  <2> QED BY <2>1, <2>2, <2>3
<1>3. Convert(S) = FlattenSeq([n \in DOMAIN order |-> Item(order[n])])
  BY DEF Convert, Place
<1>4. DOMAIN order = 1 .. N
  OBVIOUS
<1>5. \A n \in 1 .. N : Item(order[n]) = <<Entry(Place(S, n))>>
  BY <1>1, <1>2
<1>6. [n \in DOMAIN order |-> Item(order[n])] = [n \in 1 .. N |-> <<f[n]>>]
  <2>1. \A n \in 1 .. N : Item(order[n]) = <<f[n]>>
    BY <1>5
  <2> HIDE DEF Item, order, f
  <2> QED BY <1>4, <2>1
<1>7. f \in [1 .. N -> T]
  BY <1>1
<1>8. N \in Nat
  BY FinitelyMany
<1>9. FlattenSeq([n \in 1 .. N |-> <<f[n]>>]) = f
  <2> HIDE DEF f, N, T
  <2> QED BY <1>7, <1>8, FlattenUnits
<1> QED BY <1>3, <1>6, <1>9

-----------------------------------------------------------------------------
(* Places *)

\* One message more in a turn is counted once more, and in no other turn.
LEMMA StoredGrown ==
  ASSUME docs \in Seq(Record), NEW d \in Record, docs' = Append(docs, d), NEW t
  PROVE  Stored(t)' = IF d.turn = t THEN Stored(t) + 1 ELSE Stored(t)
<1> DEFINE n == Len(docs) + 1
           S == {i \in Docs : docs[i].turn = t}
           T == {i \in Docs' : docs'[i].turn = t}
<1>1. /\ Docs' = Docs \cup {n} /\ docs'[n] = d /\ n \notin Docs
      /\ \A i \in Docs : docs'[i] = docs[i]
  BY Grown
<1>2. Stored(t) = Cardinality(S) /\ Stored(t)' = Cardinality(T)
  BY DEF Stored, Docs
<1>3. IsFiniteSet(S) /\ n \notin S
  <2>1. S \in SUBSET Docs
    OBVIOUS
  <2> HIDE DEF S
  <2> QED BY <1>1, <2>1, FinitelyMany
<1> HIDE DEF n
<1>4. T = IF d.turn = t THEN S \cup {n} ELSE S
  BY <1>1
<1> HIDE DEF S, T
<1>5. Cardinality(S \cup {n}) = Cardinality(S) + 1
  BY <1>3, FS_AddElement
<1> QED BY <1>2, <1>4, <1>5

\* A place not above the count, and not taken, is the count.
LEMMA PlaceIs ==
  ASSUME docs \in Seq(Record), Order, Tight, NEW t, NEW n \in Nat, n <= Stored(t), ~Taken(t, n)
  PROVE  n = Stored(t)
<1> DEFINE S == {i \in Docs : docs[i].turn = t}
           N == Stored(t)
           f == [i \in S |-> docs[i].seq]
<1>1. S \in SUBSET Docs /\ N = Cardinality(S)
  BY DEF Stored, Docs
<1>2. IsFiniteSet(S) /\ N \in Nat
  <2> HIDE DEF S
  <2> QED BY <1>1, FinitelyMany
<1>3. \A i \in S : docs[i].seq \in 0 .. N - 1
  <2>1. ASSUME NEW i \in S PROVE docs[i].seq \in 0 .. N - 1
    <3>1. docs[i].seq \in Nat /\ docs[i].seq < Stored(docs[i].turn) /\ docs[i].turn = t
      BY Fields DEF Tight
    <3> QED BY <1>2, <3>1
  <2> QED BY <2>1
<1>4. \A i, j \in S : docs[i].seq = docs[j].seq => i = j
  <2>1. ASSUME NEW i \in S, NEW j \in S, docs[i].seq = docs[j].seq PROVE i = j
    <3>1. docs[i].turn = docs[j].turn /\ i \in Nat /\ j \in Nat /\ docs[i].seq \in Nat
      BY Fields
    <3>2. ~ (i < j) /\ ~ (j < i)
      BY <2>1, <3>1 DEF Order
    <3> QED BY <3>1, <3>2
  <2> QED BY <2>1
<1>5. f \in [S -> 0 .. N - 1] /\ \A i, j \in S : f[i] = f[j] => i = j
  BY <1>3, <1>4
<1>6. IsFiniteSet(0 .. N - 1) /\ Cardinality(0 .. N - 1) = N
  <2> HIDE DEF N
  <2>1. 0 \in Int /\ N - 1 \in Int /\ (0 > N - 1 => N = 0) /\ (N - 1) - 0 + 1 = N
    BY <1>2
  <2> QED BY <2>1, FS_Interval
<1>7. f \in Injection(S, 0 .. N - 1)
  <2> HIDE DEF f, N
  <2> QED BY <1>5 DEF Injection, IsInjective
<1>8. f \in Surjection(S, 0 .. N - 1)
  <2> HIDE DEF f, N, S
  <2> QED BY <1>1, <1>2, <1>6, <1>7, FS_Injection
<1>9. ASSUME n # N PROVE FALSE
  <2>1. n \in 0 .. N - 1
    BY <1>2, <1>9
  <2>2. PICK i \in S : f[i] = n
    <3> HIDE DEF f, N
    <3> QED BY <1>8, <2>1 DEF Surjection
  <2>3. docs[i].turn = t /\ docs[i].seq = n /\ i \in DOMAIN docs
    BY <2>2 DEF Docs
  <2> QED BY <2>3 DEF Taken
<1> QED BY <1>9

\* What is stored has the place that its writer counted, not taken since.
LEMMA Stores ==
  ASSUME Types, Next
  PROVE  \/ docs' = docs
         \/ \E w \in {put, sub} :
              /\ w \in Writer /\ w # None /\ w.seq \in Nat /\ ~Taken(w.doc.turn, w.seq)
              /\ [w.doc EXCEPT !.seq = w.seq] \in Record
              /\ docs' = Append(docs, [w.doc EXCEPT !.seq = w.seq])
<1>1. CASE Insert \/ InsertFails
  <2>1. put \in Writer /\ put # None /\ put.seq >= 0
    BY <1>1 DEF Types, Insert, InsertFails, Free
  <2>2. put.seq \in Nat /\ [put.doc EXCEPT !.seq = put.seq] \in Record
    <3>1. put.seq \in Nat \cup {-1} /\ [put.doc EXCEPT !.seq = put.seq] \in Record
      BY <2>1, Writing
    <3> QED BY <2>1, <3>1
  <2>3. \/ docs' = docs
        \/ /\ ~Taken(put.doc.turn, put.seq)
           /\ docs' = Append(docs, [put.doc EXCEPT !.seq = put.seq])
    BY <1>1 DEF Insert, InsertFails
  <2> QED BY <2>1, <2>2, <2>3
<1>2. CASE SubInsert
  <2>1. sub \in Writer /\ sub # None /\ sub.seq >= 0
    BY <1>2 DEF Types, SubInsert
  <2>2. sub.seq \in Nat /\ [sub.doc EXCEPT !.seq = sub.seq] \in Record
    <3>1. sub.seq \in Nat \cup {-1} /\ [sub.doc EXCEPT !.seq = sub.seq] \in Record
      BY <2>1, Writing
    <3> QED BY <2>1, <3>1
  <2>3. \/ docs' = docs
        \/ /\ ~Taken(sub.doc.turn, sub.seq)
           /\ docs' = Append(docs, [sub.doc EXCEPT !.seq = sub.seq])
    BY <1>2 DEF SubInsert
  <2> QED BY <2>1, <2>2, <2>3
<1>3. CASE ~ (Insert \/ InsertFails \/ SubInsert)
  BY <1>3
     DEF Next, Count, ReadFails, Wake, LoadHistory, Decide, Note, Summarise, Compact, Reload,
         PickNumber, Task, Answer, AnswerFails, Reject, Tool, Interrupt, NextCall, Cut, Done,
         Recover, Drop, Again, SubCount, Die, store
<1> QED BY <1>1, <1>2, <1>3

\* A writer keeps its place, loses it, or counts.
Keeps(w, v) == v = w \/ v = None \/ v.seq = -1 \/ (v.doc = w.doc /\ v.seq = Stored(w.doc.turn))
LEMMA Counting ==
  ASSUME Types, Next
  PROVE  Keeps(put, put') /\ Keeps(sub, sub')
<1>1. CASE Count
  <2>1. put \in Writer
    BY <1>1 DEF Types, Count, Free
  <2>2. put' = [put EXCEPT !.seq = Stored(put.doc.turn)] /\ sub' = sub
    BY <1>1 DEF Count
  <2>3. put'.doc = put.doc /\ put'.seq = Stored(put.doc.turn)
    BY <2>1, <2>2 DEF Writer
  <2> QED BY <2>2, <2>3 DEF Keeps
<1>2. CASE SubCount
  <2>1. sub \in Writer
    BY <1>2 DEF Types, SubCount
  <2>2. sub' = [sub EXCEPT !.seq = Stored(sub.doc.turn)] /\ put' = put
    BY <1>2 DEF SubCount
  <2>3. sub'.doc = sub.doc /\ sub'.seq = Stored(sub.doc.turn)
    BY <2>1, <2>2 DEF Writer
  <2> QED BY <2>2, <2>3 DEF Keeps
<1>3. CASE Insert \/ InsertFails
  <2>1. put \in Writer
    BY <1>3 DEF Types, Insert, InsertFails, Free
  <2>2. put' = None \/ put' = [put EXCEPT !.seq = -1, !.tries = put.tries + 1]
    BY <1>3 DEF Insert, InsertFails, Throw
  <2>3. sub' = sub
    BY <1>3 DEF Insert, InsertFails
  <2>4. put' = None \/ put'.seq = -1
    BY <2>1, <2>2 DEF Writer
  <2> QED BY <2>3, <2>4 DEF Keeps
<1>4. CASE SubInsert
  <2>1. sub \in Writer
    BY <1>4 DEF Types, SubInsert
  <2>2. \/ sub' = None
        \/ sub' = [sub EXCEPT !.seq = -1, !.tries = sub.tries + 1]
        \/ sub' = [sub EXCEPT !.seq = -1, !.tries = 0]
    BY <1>4 DEF SubInsert
  <2>3. put' = put
    BY <1>4 DEF SubInsert
  <2>4. sub' = None \/ sub'.seq = -1
    BY <2>1, <2>2 DEF Writer
  <2> QED BY <2>3, <2>4 DEF Keeps
<1>5. CASE ~ (Count \/ SubCount \/ Insert \/ InsertFails \/ SubInsert)
  <2>1. put' = put \/ put' = None \/ \E d : Put(d)
    BY <1>5
       DEF Next, ReadFails, Wake, LoadHistory, Decide, Note, Summarise, Compact, Reload,
           PickNumber, Task, Answer, AnswerFails, Reject, Tool, Interrupt, NextCall, Cut, Done,
           Recover, Drop, Again, Die, Throw
  <2>2. sub' = sub \/ sub' = None \/ sub' = [doc |-> Doc("sub", turn), seq |-> -1, tries |-> 0]
    BY <1>5
       DEF Next, ReadFails, Wake, LoadHistory, Decide, Note, Summarise, Compact, Reload,
           PickNumber, Task, Answer, AnswerFails, Reject, Tool, Interrupt, NextCall, Cut, Done,
           Recover, Drop, Again, Die
  <2> QED BY <2>1, <2>2 DEF Keeps, Put
<1> QED BY <1>1, <1>2, <1>3, <1>4, <1>5

\* Places grow with the documents, whoever stores them and in what order.
LEMMA IndexStep ==
  ASSUME IInv, Index, Next, Types'
  PROVE  Index'
<1>a. Types /\ Order /\ Tight /\ docs \in Seq(Record) /\ docs' \in Seq(Record)
  BY DEF IInv, Index, Types
<1>1. \/ docs' = docs
      \/ \E d \in Record : docs' = Append(docs, d) /\ d.seq = Stored(d.turn)
  <2>1. ASSUME NEW w \in {put, sub}, w \in Writer, w # None, w.seq \in Nat,
               ~Taken(w.doc.turn, w.seq), [w.doc EXCEPT !.seq = w.seq] \in Record
        PROVE  [w.doc EXCEPT !.seq = w.seq].seq = Stored([w.doc EXCEPT !.seq = w.seq].turn)
    <3>1. w.seq <= Stored(w.doc.turn)
      BY <2>1 DEF Index, Counted
    <3>2. w.seq = Stored(w.doc.turn)
      BY <1>a, <2>1, <3>1, PlaceIs
    <3>3. w.doc \in Record
      BY <2>1 DEF Writer
    <3>4. [w.doc EXCEPT !.seq = w.seq].seq = w.seq /\ [w.doc EXCEPT !.seq = w.seq].turn = w.doc.turn
      BY <3>3 DEF Record
    <3> QED BY <3>2, <3>4
  <2>2. CASE docs' = docs
    BY <2>2
  <2>3. ASSUME NEW w \in {put, sub},
               /\ w \in Writer /\ w # None /\ w.seq \in Nat /\ ~Taken(w.doc.turn, w.seq)
               /\ [w.doc EXCEPT !.seq = w.seq] \in Record
               /\ docs' = Append(docs, [w.doc EXCEPT !.seq = w.seq])
        PROVE  \E d \in Record : docs' = Append(docs, d) /\ d.seq = Stored(d.turn)
    BY <2>1, <2>3
  <2> QED BY <1>a, <2>2, <2>3, Stores
<1>2. ASSUME NEW t PROVE Stored(t) \in Nat /\ Stored(t)' \in Nat /\ Stored(t) <= Stored(t)'
  <2>1. Stored(t) \in Nat
    BY <1>a, StoredType
  <2>2. CASE docs' = docs
    BY <2>1, <2>2 DEF Stored
  <2>3. ASSUME NEW d \in Record, docs' = Append(docs, d)
        PROVE  Stored(t)' = Stored(t) \/ Stored(t)' = Stored(t) + 1
    BY <1>a, <2>3, StoredGrown
  <2> QED BY <1>1, <2>1, <2>2, <2>3
<1>3. ASSUME NEW w, w \in Writer \cup {None}, Counted(w), NEW v, Keeps(w, v), v # None,
             NEW q, q = v.doc.turn
      PROVE  v.seq <= Stored(q)'
  <2>1. Stored(q) \in Nat /\ Stored(q)' \in Nat /\ Stored(q) <= Stored(q)'
    BY <1>2
  <2>2. CASE v = w
    <3>1. w \in Writer /\ w.seq <= Stored(q) /\ w.seq \in Nat \cup {-1}
      BY <1>3, <2>2 DEF Counted, Writer
    <3> QED BY <2>1, <2>2, <3>1
  <2>3. CASE v.seq = -1
    BY <2>1, <2>3
  <2>4. CASE v.doc = w.doc /\ v.seq = Stored(w.doc.turn)
    <3>1. v.seq = Stored(q)
      BY <1>3, <2>4
    <3> QED BY <2>1, <3>1
  <2> QED BY <1>3, <2>2, <2>3, <2>4 DEF Keeps
<1>4. Counted(put)' /\ Counted(sub)'
  <2>1. Keeps(put, put') /\ Keeps(sub, sub') /\ Counted(put) /\ Counted(sub)
        /\ put \in Writer \cup {None} /\ sub \in Writer \cup {None}
    BY <1>a, Counting DEF Index, Types
  <2>2. ASSUME put' # None PROVE put'.seq <= Stored(put.doc.turn)'
    <3>1. PICK q : q = put'.doc.turn
      OBVIOUS
    <3>2. put'.seq <= Stored(q)'
      BY <1>3, <2>1, <2>2, <3>1
    <3>3. Stored(put.doc.turn)' = Stored(q)'
      BY <3>1 DEF Stored
    <3> QED BY <3>2, <3>3
  <2>3. ASSUME sub' # None PROVE sub'.seq <= Stored(sub.doc.turn)'
    <3>1. PICK q : q = sub'.doc.turn
      OBVIOUS
    <3>2. sub'.seq <= Stored(q)'
      BY <1>3, <2>1, <2>3, <3>1
    <3>3. Stored(sub.doc.turn)' = Stored(q)'
      BY <3>1 DEF Stored
    <3> QED BY <3>2, <3>3
  <2> QED BY <2>2, <2>3 DEF Counted
<1>5. CASE docs' = docs
  <2>1. Docs' = Docs /\ \A t : Stored(t)' = Stored(t)
    BY <1>5 DEF Docs, Stored
  <2>2. Order'
    BY <1>a, <1>5, <2>1 DEF Order
  <2>3. ASSUME NEW i \in Docs' PROVE docs'[i].seq < Stored(docs[i].turn)'
    <3>1. PICK q : q = docs[i].turn
      OBVIOUS
    <3>2. docs[i].seq < Stored(q) /\ Stored(q)' = Stored(q)
      BY <1>a, <2>1, <3>1 DEF Tight
    <3>3. Stored(docs[i].turn)' = Stored(q)'
      BY <1>5, <3>1 DEF Stored
    <3> QED BY <1>5, <3>2, <3>3
  <2> QED BY <1>4, <2>2, <2>3 DEF Index, Tight
<1>6. ASSUME NEW d \in Record, docs' = Append(docs, d), d.seq = Stored(d.turn) PROVE Index'
  <2> DEFINE n == Len(docs) + 1
  <2>1. /\ Docs' = Docs \cup {n} /\ docs'[n] = d /\ n \notin Docs /\ n \in Nat
        /\ \A i \in Docs : docs'[i] = docs[i] /\ i < n /\ i \in Nat
    BY <1>a, <1>6, Grown
  <2> HIDE DEF n
  <2>2. ASSUME NEW i \in Docs', NEW j \in Docs', docs'[i].turn = docs'[j].turn, i < j
        PROVE  docs'[i].seq < docs'[j].seq
    <3>1. i \in Docs
      BY <2>1, <2>2
    <3>2. CASE j \in Docs
      BY <1>a, <2>1, <2>2, <3>1, <3>2 DEF Order
    <3>3. CASE j = n
      <4>1. docs[i].turn = d.turn /\ docs[i].seq < Stored(docs[i].turn)
        BY <1>a, <2>1, <2>2, <3>1, <3>3 DEF Tight
      <4> QED BY <1>6, <2>1, <3>1, <3>3, <4>1
    <3> QED BY <2>1, <3>2, <3>3
  <2>3. ASSUME NEW i \in Docs' PROVE docs'[i].seq < Stored(docs[i].turn)'
    <3>1. PICK q : q = docs'[i].turn
      OBVIOUS
    <3>2. Stored(docs[i].turn)' = Stored(q)'
      BY <3>1 DEF Stored
    <3>3. Stored(q) \in Nat /\ Stored(q)' \in Nat /\ Stored(q) <= Stored(q)'
      BY <1>2
    <3>4. CASE i \in Docs
      <4>1. docs'[i] = docs[i] /\ docs[i].seq < Stored(q) /\ docs[i].seq \in Nat
        BY <1>a, <2>1, <3>1, <3>4, Fields DEF Tight
      <4> QED BY <3>2, <3>3, <4>1
    <3>5. CASE i = n
      <4>1. docs'[i] = d /\ d.turn = q /\ d.seq = Stored(q)
        BY <1>6, <2>1, <3>1, <3>5
      <4>2. Stored(q)' = Stored(q) + 1
        BY <1>a, <1>6, <4>1, StoredGrown
      <4> QED BY <3>2, <3>3, <4>1, <4>2
    <3> QED BY <2>1, <3>4, <3>5
  <2>4. Order' /\ Tight'
    BY <2>2, <2>3 DEF Order, Tight
  <2> QED BY <1>4, <2>4 DEF Index
<1> QED BY <1>1, <1>5, <1>6

-----------------------------------------------------------------------------
(* Answers and results *)

\* Results stay, and a document more is at most one more.
LEMMA ResultsGrown ==
  ASSUME docs \in Seq(Record), NEW d \in Record, docs' = Append(docs, d), NEW a, NEW k
  PROVE  HasResult(a, k)' <=> HasResult(a, k) \/ (d.kind = "result" /\ d.of = <<a, k>>)
BY Grown DEF HasResult

\* An answer that has its results keeps them.
LEMMA WholeGrown ==
  ASSUME docs \in Seq(Record), NEW d \in Record, docs' = Append(docs, d)
  PROVE  /\ \A a \in Docs : Whole(a) => Whole(a)'
         /\ d.calls = 0 => \A a \in Docs' : a \notin Docs => Whole(a)'
<1>1. ASSUME NEW a \in Docs, Whole(a) PROVE Whole(a)'
  <2>1. docs'[a] = docs[a]
    BY Grown
  <2>2. \A k \in 1 .. docs[a].calls : HasResult(a, k)'
    BY <1>1, ResultsGrown DEF Whole
  <2> QED BY <2>1, <2>2 DEF Whole
<1>2. ASSUME d.calls = 0, NEW a \in Docs', a \notin Docs PROVE Whole(a)'
  <2>1. docs'[a] = d
    BY <1>2, Grown
  <2>2. 1 .. docs'[a].calls = {}
    BY <1>2, <2>1
  <2> QED BY <2>2 DEF Whole
<1> QED BY <1>1, <1>2

\* So does a turn, with a message that makes no calls.
LEMMA ReadyGrown ==
  ASSUME docs \in Seq(Record), NEW d \in Record, docs' = Append(docs, d), d.calls = 0, NEW t,
         Ready(t)
  PROVE  Ready(t)'
<1>1. ASSUME NEW a \in Docs', docs'[a].turn = t PROVE Whole(a)'
  <2>1. CASE a \in Docs
    <3>1. Whole(a)
      BY <1>1, <2>1, Grown DEF Ready
    <3> QED BY <2>1, <3>1, WholeGrown
  <2>2. CASE a = Len(docs) + 1
    <3>1. docs'[a].calls = 0
      BY <2>2, Grown
    <3> QED BY <3>1 DEF Whole
  <2> QED BY <2>1, <2>2, Grown
<1> QED BY <1>1 DEF Ready

\* While nothing is stored, nothing of this changes.
LEMMA ResultsSame ==
  ASSUME docs' = docs
  PROVE  /\ Docs' = Docs /\ LastAnswer' = LastAnswer
         /\ \A a, k : HasResult(a, k)' <=> HasResult(a, k)
         /\ \A a : Whole(a)' <=> Whole(a)
         /\ \A t : Ready(t)' <=> Ready(t)
<1>1. Docs' = Docs /\ LastAnswer' = LastAnswer
  BY DEF Docs, LastAnswer
<1>2. \A a, k : HasResult(a, k)' <=> HasResult(a, k)
  BY <1>1 DEF HasResult
<1>3. \A a : Whole(a)' <=> Whole(a)
  BY <1>2 DEF Whole
<1>4. \A t : Ready(t)' <=> Ready(t)
  BY <1>1, <1>3 DEF Ready
<1> QED BY <1>1, <1>2, <1>3, <1>4

\* What a step does to the store: nothing, a compaction, or one message stored.
LEMMA StoreMoves ==
  ASSUME Types, Next
  PROVE  \/ docs' = docs /\ compacted' = compacted
         \/ docs' = docs /\ \E t \in Int : CompactBelow(t)
         \/ /\ compacted' = compacted
            /\ \E d \in Record :
                 /\ docs' = Append(docs, d)
                 /\ (put # None /\ Same(put.doc, d)) \/ (sub # None /\ Same(sub.doc, d))
<1>1. CASE Insert \/ InsertFails
  <2>1. /\ put # None
        /\ docs' = docs \/ \E d \in Record : docs' = Append(docs, d) /\ Same(put.doc, d)
    BY <1>1, PutStores
  <2>2. compacted' = compacted
    BY <1>1 DEF Insert, InsertFails
  <2> QED BY <2>1, <2>2
<1>2. CASE SubInsert
  <2>1. /\ sub # None
        /\ docs' = docs \/ \E d \in Record : docs' = Append(docs, d) /\ Same(sub.doc, d)
    BY <1>2, SubStores
  <2>2. compacted' = compacted
    BY <1>2 DEF SubInsert
  <2> QED BY <2>1, <2>2
<1>3. CASE Compact \/ Drop
  <2>1. docs' = docs /\ (CompactBelow(base + 1) \/ CompactBelow(turn + 1))
    BY <1>3 DEF Compact, Drop
  <2>2. base + 1 \in Int /\ turn + 1 \in Int
    BY DEF Types
  <2> QED BY <2>1, <2>2
<1>4. CASE ~ (Insert \/ InsertFails \/ SubInsert \/ Compact \/ Drop)
  BY <1>4
     DEF Next, Count, ReadFails, Wake, LoadHistory, Decide, Note, Summarise, Reload,
         PickNumber, Task, Answer, AnswerFails, Reject, Tool, Interrupt, NextCall, Cut, Done,
         Recover, Again, SubCount, Die, store
<1> QED BY <1>1, <1>2, <1>3, <1>4

\* A message about to be stored, other than a result, answers nothing; one other
\* than an answer makes no calls.
LEMMA Storing ==
  ASSUME IInv, Replay, NEW d \in Record,
         (put # None /\ Same(put.doc, d)) \/ (sub # None /\ Same(sub.doc, d))
  PROVE  /\ d.kind # "assistant" => d.calls = 0
         /\ d.kind # "result" => d.of = <<0, 0>>
         /\ d.kind = "result" =>
              \E a \in Docs \ compacted : \E k \in 1 .. docs[a].calls :
                /\ d.of = <<a, k>> /\ ~HasResult(a, k) /\ docs[a].kind = "assistant"
                /\ docs[a].turn = d.turn
         /\ d.kind \notin Aside => Ready(d.turn)
<1>1. CASE put # None /\ Same(put.doc, d)
  BY <1>1 DEF Replay, PutReplies, Same
<1>2. CASE sub # None /\ Same(sub.doc, d)
  BY <1>2 DEF Replay, SubReplies, Same, IInv, Fitting, SubFits, Aside
<1> QED BY <1>1, <1>2

\* A message stored keeps results behind their answers, ...
LEMMA RepliesGrown ==
  ASSUME IInv, Replay, NEW d \in Record, docs' = Append(docs, d), compacted' = compacted,
         (put # None /\ Same(put.doc, d)) \/ (sub # None /\ Same(sub.doc, d))
  PROVE  Replies' /\ Open'
<1> DEFINE n == Len(docs) + 1
<1>a. docs \in Seq(Record) /\ Replies /\ Open /\ compacted \subseteq Docs
  BY DEF IInv, Types, Replay
<1>1. /\ Docs' = Docs \cup {n} /\ docs'[n] = d /\ n \notin Docs /\ n \in Nat
      /\ \A i \in Docs : docs'[i] = docs[i] /\ i < n /\ i \in Nat
  BY <1>a, Grown
<1>2. /\ d.kind # "assistant" => d.calls = 0
      /\ d.kind # "result" => d.of = <<0, 0>>
      /\ d.kind = "result" =>
           \E a \in Docs \ compacted : \E k \in 1 .. docs[a].calls :
             /\ d.of = <<a, k>> /\ ~HasResult(a, k) /\ docs[a].kind = "assistant"
             /\ docs[a].turn = d.turn
      /\ d.kind \notin Aside => Ready(d.turn)
  BY Storing
<1>3. \A a \in Docs : Whole(a) => Whole(a)'
  BY <1>a, WholeGrown
<1> HIDE DEF n
<1>b. ASSUME NEW j \in Docs' PROVE ~ (n < j) /\ (j < n => j \in Docs)
  BY <1>1
<1>4. ASSUME NEW i \in Docs', docs'[i].kind = "result" PROVE Reply(i)'
  <2>1. CASE i \in Docs
    <3>1. Reply(i) /\ docs'[i] = docs[i]
      BY <1>a, <1>1, <1>4, <2>1 DEF Replies
    <3> DEFINE a == docs[i].of[1]
    <3>2. /\ a \in Docs /\ a < i /\ docs[a].kind = "assistant" /\ docs[a].turn = docs[i].turn
          /\ docs[i].of[2] \in 1 .. docs[a].calls
          /\ \A j \in Docs : a < j /\ j < i /\ docs[j].turn = docs[i].turn => docs[j].kind \in Aside
          /\ i \in compacted <=> a \in compacted
      BY <3>1 DEF Reply
    <3>3. docs'[a] = docs[a] /\ i < n /\ i \in Nat /\ a \in Docs'
      BY <1>1, <2>1, <3>2
    <3>4. \A j \in Docs' : a < j /\ j < i /\ docs'[j].turn = docs[i].turn => docs'[j].kind \in Aside
      <4> HIDE DEF a
      <4>1. ASSUME NEW j \in Docs', j < i PROVE j \in Docs
        BY <1>1, <1>b, <3>3, <4>1
      <4> QED BY <1>1, <3>2, <4>1
    <3> QED BY <3>1, <3>2, <3>3, <3>4 DEF Reply
  <2>2. CASE i = n
    <3>0. PICK a \in Docs \ compacted : \E k \in 1 .. docs[a].calls :
            /\ d.of = <<a, k>> /\ ~HasResult(a, k) /\ docs[a].kind = "assistant"
            /\ docs[a].turn = d.turn
      BY <1>1, <1>2, <1>4, <2>2
    <3>1. PICK k \in 1 .. docs[a].calls :
            /\ d.of = <<a, k>> /\ ~HasResult(a, k) /\ docs[a].kind = "assistant"
            /\ docs[a].turn = d.turn
      BY <3>0
    <3>2. docs'[i] = d /\ docs'[i].of[1] = a /\ docs'[i].of[2] = k /\ docs'[a] = docs[a] /\ a < i
      <4>1. docs'[i] = d /\ docs'[a] = docs[a] /\ a < i
        BY <1>1, <2>2
      <4>2. d.of[1] = a /\ d.of[2] = k
        BY <3>1
      <4> QED BY <4>1, <4>2
    <3>3. ~Whole(a)
      BY <3>1 DEF Whole
    <3>4. \A j \in Docs' : a < j /\ j < i /\ docs'[j].turn = d.turn => docs'[j].kind \in Aside
      <4>1. ASSUME NEW j \in Docs', a < j, j < i, docs'[j].turn = d.turn
            PROVE  docs'[j].kind \in Aside
        <5>1. j \in Docs /\ docs'[j] = docs[j] /\ docs[j].turn = docs[a].turn
          BY <1>1, <1>b, <2>2, <3>1, <4>1
        <5> QED BY <1>a, <3>3, <4>1, <5>1 DEF Open
      <4> QED BY <4>1
    <3>5. i \notin compacted
      BY <1>a, <1>1, <2>2
    <3> QED BY <1>1, <3>1, <3>2, <3>4, <3>5 DEF Reply
  <2> QED BY <1>1, <2>1, <2>2
<1>5. ASSUME NEW i \in Docs', NEW j \in Docs', docs'[i].kind = "result", docs'[j].kind = "result",
             docs'[i].of = docs'[j].of
      PROVE  i = j
  <2>1. CASE i \in Docs /\ j \in Docs
    BY <1>a, <1>1, <1>5, <2>1 DEF Replies
  <2>2. ASSUME NEW e \in Docs, docs[e].kind = "result", docs[e].of = d.of, d.kind = "result"
        PROVE  FALSE
    <3>1. \E a, k : d.of = <<a, k>> /\ ~HasResult(a, k)
      BY <1>2, <2>2
    <3> QED BY <2>2, <3>1 DEF HasResult
  <2> QED BY <1>1, <1>5, <2>1, <2>2
<1>6. ASSUME NEW i \in Docs'
      PROVE  /\ docs'[i].kind # "assistant" => docs'[i].calls = 0
             /\ docs'[i].kind # "result" => docs'[i].of = <<0, 0>>
  BY <1>a, <1>1, <1>2 DEF Replies
<1>7. ASSUME NEW a \in Docs', NEW j \in Docs', ~Whole(a)', a < j, docs'[j].turn = docs'[a].turn
      PROVE  docs'[j].kind \in Aside
  <2>1. a \in Docs /\ docs'[a] = docs[a] /\ ~Whole(a)
    <3>1. a # n
      BY <1>b, <1>7
    <3>2. a \in Docs /\ docs'[a] = docs[a]
      BY <1>1, <3>1
    <3> QED BY <1>3, <1>7, <3>2
  <2>2. CASE j \in Docs
    BY <1>a, <1>1, <1>7, <2>1, <2>2 DEF Open
  <2>3. CASE j = n
    BY <1>1, <1>2, <1>7, <2>1, <2>3 DEF Ready
  <2> QED BY <1>1, <2>2, <2>3
<1> QED BY <1>4, <1>5, <1>6, <1>7 DEF Replies, Open

\* ... and a compaction takes them with their answers, which are of their turn.
LEMMA RepliesStep ==
  ASSUME IInv, Replay, Next
  PROVE  Replies' /\ Open'
<1>a. docs \in Seq(Record) /\ Replies /\ Open /\ Types
  BY DEF IInv, Types, Replay
<1>1. ASSUME docs' = docs, compacted' = compacted \/ \E t \in Int : CompactBelow(t)
      PROVE  Replies' /\ Open'
  <2>1. Docs' = Docs /\ \A a : Whole(a)' <=> Whole(a)
    BY <1>1, ResultsSame
  <2>2. ASSUME NEW i \in Docs, docs[i].kind = "result" PROVE Reply(i)'
    <3> DEFINE a == docs[i].of[1]
    <3>1. /\ a \in Docs /\ a < i /\ docs[a].kind = "assistant" /\ docs[a].turn = docs[i].turn
          /\ docs[i].of[2] \in 1 .. docs[a].calls
          /\ \A j \in Docs : a < j /\ j < i /\ docs[j].turn = docs[i].turn => docs[j].kind \in Aside
          /\ i \in compacted <=> a \in compacted
      BY <1>a, <2>2 DEF Replies, Reply
    <3>2. i \in compacted' <=> a \in compacted'
      <4>1. CASE compacted' = compacted
        BY <3>1, <4>1
      <4>2. ASSUME NEW t \in Int, CompactBelow(t) PROVE i \in compacted' <=> a \in compacted'
        BY <3>1, <4>2 DEF CompactBelow, Docs
      <4> QED BY <1>1, <4>1, <4>2
    <3> QED BY <1>1, <2>1, <3>1, <3>2 DEF Reply
  <2>3. Replies'
    BY <1>a, <1>1, <2>1, <2>2 DEF Replies
  <2> QED BY <1>a, <1>1, <2>1, <2>3 DEF Open
<1>2. ASSUME compacted' = compacted, NEW d \in Record, docs' = Append(docs, d),
             (put # None /\ Same(put.doc, d)) \/ (sub # None /\ Same(sub.doc, d))
      PROVE  Replies' /\ Open'
  BY <1>2, RepliesGrown
<1> QED BY <1>a, <1>1, <1>2, StoreMoves

-----------------------------------------------------------------------------
(* What the writers are about to store *)

\* A message of the run makes no calls and answers none.
LEMMA DocPlain == ASSUME NEW k, NEW t PROVE Doc(k, t).calls = 0 /\ Doc(k, t).of = <<0, 0>>
BY DEF Doc

\* The last answer is a stored one.
LEMMA LastAnswerIs ==
  ASSUME docs \in Seq(Record), \E i \in Docs : docs[i].kind = "assistant"
  PROVE  /\ LastAnswer \in Docs /\ docs[LastAnswer].kind = "assistant"
         /\ \A i \in Docs : docs[i].kind = "assistant" => i <= LastAnswer
<1> DEFINE S == {i \in DOMAIN docs : docs[i].kind = "assistant"}
<1>1. /\ S # {} /\ S \in SUBSET Int /\ \A x \in S : 1 <= x /\ x <= Len(docs)
      /\ Len(docs) \in Int /\ 1 \in Int
  BY DEF Docs
<1>2. LastAnswer = Max(S)
  BY DEF LastAnswer
<1>3. /\ \A x \in S : x \in Docs /\ docs[x].kind = "assistant"
      /\ \A x \in Docs : docs[x].kind = "assistant" => x \in S
  BY DEF Docs
<1>4. Max(S) \in S /\ \A x \in S : x <= Max(S)
  <2> HIDE DEF S
  <2> QED BY <1>1, MaxIs
<1> HIDE DEF S
<1> QED BY <1>2, <1>3, <1>4

\* An append under way stays right while nothing is stored but by a sub-loop.
LEMMA PutRepliesKept ==
  ASSUME IInv, PutReplies, put # None => put'.doc = put.doc, put = None => put' = None,
         compacted' = compacted,
         docs' = docs \/ \E d \in Record : docs' = Append(docs, d) /\ d.kind = "sub" /\ d.calls = 0
  PROVE  PutReplies'
<1> SUFFICES ASSUME put # None PROVE PutReplies'
  BY DEF PutReplies
<1>a. docs \in Seq(Record)
  BY DEF IInv, Types
<1>1. PICK q : q = put.doc.turn
  OBVIOUS
<1>2. Ready(q) => Ready(q)'
  <2>1. CASE docs' = docs
    BY <2>1, ResultsSame
  <2>2. ASSUME NEW d \in Record, docs' = Append(docs, d), d.calls = 0, Ready(q) PROVE Ready(q)'
    BY <1>a, <2>2, ReadyGrown
  <2> QED BY <2>1, <2>2
<1>3. ASSUME NEW a \in Docs, NEW k
      PROVE  a \in Docs' /\ docs'[a] = docs[a] /\ (HasResult(a, k)' <=> HasResult(a, k))
  <2>1. CASE docs' = docs
    BY <2>1, ResultsSame
  <2>2. ASSUME NEW d \in Record, docs' = Append(docs, d), d.kind = "sub"
        PROVE  a \in Docs' /\ docs'[a] = docs[a] /\ (HasResult(a, k)' <=> HasResult(a, k))
    BY <1>a, <2>2, Grown, ResultsGrown
  <2> QED BY <2>1, <2>2
<1>4. ASSUME put.doc.kind = "result"
      PROVE  \E a \in Docs' \ compacted' : \E k \in 1 .. docs'[a].calls :
               /\ put.doc.of = <<a, k>> /\ ~HasResult(a, k)' /\ docs'[a].kind = "assistant"
               /\ docs'[a].turn = put.doc.turn
  <2>1. PICK a \in Docs \ compacted : \E k \in 1 .. docs[a].calls :
          /\ put.doc.of = <<a, k>> /\ ~HasResult(a, k) /\ docs[a].kind = "assistant"
          /\ docs[a].turn = put.doc.turn
    BY <1>4 DEF PutReplies
  <2>2. PICK k \in 1 .. docs[a].calls :
          /\ put.doc.of = <<a, k>> /\ ~HasResult(a, k) /\ docs[a].kind = "assistant"
          /\ docs[a].turn = put.doc.turn
    BY <2>1
  <2> QED BY <1>3, <2>1, <2>2
<1>5. put.doc.kind \notin Aside => Ready(q)'
  BY <1>1, <1>2 DEF PutReplies
<1>6. Ready(put.doc.turn)' <=> Ready(q)'
  BY <1>1 DEF Ready
<1>7. /\ put'.doc = put.doc
      /\ put.doc.kind # "assistant" => put.doc.calls = 0
      /\ put.doc.kind # "result" => put.doc.of = <<0, 0>>
  BY DEF PutReplies
<1> QED BY <1>4, <1>5, <1>6, <1>7 DEF PutReplies

\* The append of a message other than a result starts right in a turn whose
\* calls are answered, ...
LEMMA PlainPut ==
  ASSUME docs' = docs, NEW d, Put(d), d.kind # "result", d.kind # "assistant" => d.calls = 0,
         d.of = <<0, 0>>, d.kind \notin Aside => Ready(d.turn)
  PROVE  PutReplies'
<1>1. put'.doc = d
  BY PutIs
<1>2. PICK q : q = d.turn
  OBVIOUS
<1>3. d.kind \notin Aside => Ready(q)'
  BY <1>2, ResultsSame
<1>4. Ready(put.doc.turn)' <=> Ready(q)'
  BY <1>1, <1>2 DEF Ready
<1> QED BY <1>1, <1>3, <1>4 DEF PutReplies

\* ... and that of a result for a call that has none.
LEMMA ResultPut ==
  ASSUME docs' = docs, compacted' = compacted, NEW d, Put(d), d.kind = "result", d.calls = 0,
         NEW a \in Docs \ compacted, NEW k \in 1 .. docs[a].calls, d.of = <<a, k>>,
         ~HasResult(a, k), docs[a].kind = "assistant", docs[a].turn = d.turn
  PROVE  PutReplies'
<1>1. put'.doc = d
  BY PutIs
<1>2. Docs' = Docs /\ ~HasResult(a, k)'
  BY ResultsSame
<1>3. \E b \in Docs' \ compacted' : \E m \in 1 .. docs'[b].calls :
        /\ d.of = <<b, m>> /\ ~HasResult(b, m)' /\ docs'[b].kind = "assistant"
        /\ docs'[b].turn = d.turn
  BY <1>2
<1>4. d.kind \in Aside
  BY DEF Aside
<1> QED BY <1>1, <1>3, <1>4 DEF PutReplies

\* The tool that runs next is of an open call of the last answer.
LEMMA ResultAnswers ==
  ASSUME IInv, Replay, Free, pc \in {"tools", "interrupted"}, Unanswered # {}
  PROVE  /\ Result.kind = "result" /\ Result.calls = 0
         /\ \E a \in Docs \ compacted : \E k \in 1 .. docs[a].calls :
              /\ Result.of = <<a, k>> /\ ~HasResult(a, k) /\ docs[a].kind = "assistant"
              /\ docs[a].turn = Result.turn
<1> DEFINE a == LastAnswer
           k == Min(Unanswered)
<1>1. Types /\ Answered /\ docs \in Seq(Record) /\ turn \in Nat
  BY DEF IInv, Types
<1>2. \E i \in Docs : docs[i].kind = "assistant"
  BY <1>1 DEF Answered, Free
<1>3. a \in Docs /\ docs[a].kind = "assistant"
  BY <1>1, <1>2, LastAnswerIs
<1>4. docs[a].turn = turn
  BY DEF Replay, Above, LastOpen, Free
<1>5. a \notin compacted
  <2>1. \A i \in compacted : docs[i].turn < turn
    BY DEF IInv, Memory, Loop
  <2> QED BY <1>1, <1>4, <2>1
<1>6. k \in Unanswered
  <2>1. \A m \in Unanswered : m \in Nat
    BY DEF Unanswered
  <2>2. Unanswered \in SUBSET Nat
    BY <2>1
  <2> QED BY <2>2, MinIs
<1>7. k \in 1 .. docs[a].calls /\ <<a, k>> \notin {docs[i].of : i \in DOMAIN docs}
  BY <1>6 DEF Unanswered
<1>8. ~HasResult(a, k)
  BY <1>7 DEF HasResult, Docs
<1>9. /\ Result.kind = "result" /\ Result.calls = 0 /\ Result.turn = turn
      /\ Result.of = <<a, k>>
  BY DEF Result, Doc
<1> HIDE DEF a, k
<1> QED BY <1>3, <1>4, <1>5, <1>7, <1>8, <1>9

\* A call dangling in what is loaded is open.
LEMMA DanglingOpen ==
  ASSUME IInv, Replay, NEW c \in Dangling(Load)
  PROVE  \E a \in Docs \ compacted : \E k \in 1 .. docs[a].calls :
           c = <<a, k>> /\ ~HasResult(a, k) /\ docs[a].kind = "assistant"
<1>1. docs \in Seq(Record) /\ Replies
  BY DEF IInv, Types, Replay
<1>2. PICK a \in Load : c \in {<<a, k>> : k \in 1 .. docs[a].calls}
  BY DEF Dangling, Calls
<1>3. PICK k \in 1 .. docs[a].calls : c = <<a, k>>
  BY <1>2
<1>4. a \in Docs \ compacted
  BY <1>2, LoadIs
<1>5. docs[a].kind = "assistant"
  BY <1>1, <1>3, <1>4 DEF Replies
<1>6. ASSUME NEW i \in Docs, docs[i].kind = "result", docs[i].of = <<a, k>> PROVE FALSE
  <2>1. docs[i].of[1] = a
    BY <1>6
  <2>2. i \notin compacted
    BY <1>1, <1>4, <1>6, <2>1 DEF Replies, Reply
  <2>3. i \in Load
    BY <1>6, <2>2, LoadIs
  <2> QED BY <1>3, <1>6, <2>3 DEF Dangling
<1> QED BY <1>3, <1>4, <1>5, <1>6 DEF HasResult

\* A message that makes no calls has all its results.
LEMMA NoCalls ==
  ASSUME Replies, NEW a \in Docs, docs[a].kind # "assistant"
  PROVE  Whole(a)
<1>1. docs[a].calls = 0
  BY DEF Replies
<1> QED BY <1>1 DEF Whole

\* Nothing stored is lost or changed.
LEMMA DocsStay ==
  ASSUME Types, Next
  PROVE  \A i \in Docs : i \in Docs' /\ docs'[i] = docs[i]
BY StoreMoves, DocsKept DEF Types, Docs

\* A sub-loop keeps its turn.
LEMMA SubRepliesStep ==
  ASSUME IInv, Replay, Next
  PROVE  SubReplies'
<1>a. Types /\ docs \in Seq(Record) /\ SubReplies
  BY DEF IInv, Types, Replay
<1>b. \A i \in Docs : i \in Docs' /\ docs'[i] = docs[i]
  BY <1>a, DocsStay
<1>1. \/ sub' = None
      \/ sub # None /\ sub'.doc = sub.doc
      \/ Tool /\ sub' = [doc |-> Doc("sub", turn), seq |-> -1, tries |-> 0]
  <2>1. CASE SubCount
    BY <1>a, <2>1, Counts
  <2>2. CASE SubInsert
    BY <1>a, <2>2, SubStores
  <2>3. CASE ~ (SubCount \/ SubInsert)
    <3>1. \/ sub' = sub \/ sub' = None
          \/ Tool /\ sub' = [doc |-> Doc("sub", turn), seq |-> -1, tries |-> 0]
      BY <2>3
         DEF Next, Count, Insert, InsertFails, ReadFails, Wake, LoadHistory, Decide, Note,
             Summarise, Compact, Reload, PickNumber, Task, Answer, AnswerFails, Reject, Tool,
             Interrupt, NextCall, Cut, Done, Recover, Drop, Again, Die
    <3> QED BY <3>1
  <2> QED BY <2>1, <2>2, <2>3
<1>2. CASE sub' = None
  BY <1>2 DEF SubReplies
<1>3. CASE sub # None /\ sub'.doc = sub.doc
  BY <1>a, <1>b, <1>3 DEF SubReplies
<1>4. CASE Tool /\ sub' = [doc |-> Doc("sub", turn), seq |-> -1, tries |-> 0]
  <2>1. Free /\ pc = "tools"
    BY <1>4 DEF Tool
  <2>2. \E i \in Docs : docs[i].kind = "assistant"
    BY <2>1 DEF IInv, Answered, Free
  <2>3. LastAnswer \in Docs /\ docs[LastAnswer].kind = "assistant"
    BY <1>a, <2>2, LastAnswerIs
  <2>4. docs[LastAnswer].turn = turn
    BY <2>1 DEF Replay, Above, LastOpen, Free
  <2>5. sub'.doc = Doc("sub", turn) /\ Doc("sub", turn).turn = turn
    BY <1>4 DEF Doc
  <2>6. \E i \in Docs' : docs'[i].turn = turn /\ docs'[i].kind = "assistant"
    BY <1>b, <2>3, <2>4
  <2> QED BY <2>5, <2>6, DocPlain DEF SubReplies
<1> QED BY <1>1, <1>2, <1>3, <1>4

\* Every append under way is right.
LEMMA PutRepliesStep ==
  ASSUME IInv, Replay, Next
  PROVE  PutReplies'
<1>a. /\ Types /\ docs \in Seq(Record) /\ PutReplies /\ Replies /\ Putting
      /\ turn \in Nat /\ base \in Nat \cup {-1}
  BY DEF IInv, Types, Replay
<1>0. CASE put' = None
  BY <1>0 DEF PutReplies
<1>1. CASE Count \/ SubCount
  <2>1. docs' = docs /\ compacted' = compacted /\ put'.doc = put.doc /\ (put = None => put' = None)
    BY <1>a, <1>1, Counts DEF store
  <2> QED BY <1>a, <2>1, PutRepliesKept
<1>2. CASE Insert \/ InsertFails
  <2>1. /\ put # None /\ compacted' = compacted
        /\ put' = None \/ (put'.doc = put.doc /\ docs' = docs)
    BY <1>a, <1>2, PutStores
  <2> QED BY <1>0, <1>a, <2>1, PutRepliesKept
<1>3. CASE SubInsert
  <2>1. /\ sub # None /\ put' = put /\ compacted' = compacted
        /\ docs' = docs \/ \E d \in Record : docs' = Append(docs, d) /\ Same(sub.doc, d)
    BY <1>a, <1>3, SubStores
  <2>2. sub.doc.kind = "sub" /\ sub.doc.calls = 0
    BY <2>1 DEF IInv, Fitting, SubFits, Replay, SubReplies
  <2>3. docs' = docs \/ \E d \in Record : docs' = Append(docs, d) /\ d.kind = "sub" /\ d.calls = 0
    BY <2>1, <2>2 DEF Same
  <2> QED BY <1>a, <2>1, <2>3, PutRepliesKept
<1>4. CASE \/ Wake \/ Decide \/ Compact \/ Reload \/ PickNumber \/ NextCall \/ Cut \/ Done
           \/ Drop \/ Again \/ ReadFails \/ Die
  <2>1. put' = None \/ (put' = put /\ docs' = docs /\ compacted' = compacted)
    BY <1>4
       DEF Wake, Decide, Compact, Reload, PickNumber, NextCall, Cut, Done, Drop, Again,
           ReadFails, Throw, Die, store, Free
  <2> QED BY <1>0, <1>a, <2>1, PutRepliesKept
<1>5. CASE LoadHistory
  <2>1. docs' = docs /\ compacted' = compacted
    BY <1>5 DEF LoadHistory, store
  <2>2. CASE put' = put
    BY <1>a, <2>1, <2>2, PutRepliesKept
  <2>3. ASSUME NEW c \in Dangling(Load),
               Put([Doc("result", docs[c[1]].turn) EXCEPT !.of = c, !.by = docs[c[1]].by])
        PROVE  PutReplies'
    <3>1. PICK a \in Docs \ compacted : \E k \in 1 .. docs[a].calls :
            c = <<a, k>> /\ ~HasResult(a, k) /\ docs[a].kind = "assistant"
      BY DanglingOpen
    <3>2. PICK k \in 1 .. docs[a].calls :
            c = <<a, k>> /\ ~HasResult(a, k) /\ docs[a].kind = "assistant"
      BY <3>1
    <3> DEFINE d == [Doc("result", docs[c[1]].turn) EXCEPT !.of = c, !.by = docs[c[1]].by]
    <3>3. d.kind = "result" /\ d.calls = 0 /\ d.of = <<a, k>> /\ d.turn = docs[a].turn
      BY <3>2 DEF Doc
    <3>4. Put(d)
      BY <2>3
    <3> HIDE DEF d
    <3> QED BY <2>1, <3>1, <3>2, <3>3, <3>4, ResultPut
  <2> QED BY <1>5, <2>2, <2>3 DEF LoadHistory
<1>6. CASE Note
  <2>1. docs' = docs /\ Put(Doc("note", base + 1)) /\ Doc("note", base + 1).kind = "note"
    BY <1>6 DEF Note, store, Doc
  <2> QED BY <2>1, PlainPut, DocPlain DEF Aside
<1>7. CASE Summarise
  <2>1. docs' = docs /\ compacted' = compacted /\ pc = "reflect" /\ (put' = put \/ Put(Summary))
    BY <1>7 DEF Summarise, store
  <2>2. /\ Summary.kind = "summary" /\ Summary.calls = 0 /\ Summary.of = <<0, 0>>
        /\ Summary.turn = base + 1
    BY DEF Summary, Doc
  <2>3. ASSUME NEW a \in Docs, docs[a].turn = base + 1 PROVE Whole(a)
    <3>1. docs[a].kind \in {"note", "summary"}
      BY <1>a, <2>1, <2>3 DEF Replay, Above, NotesAbove
    <3> QED BY <1>a, <3>1, NoCalls
  <2>4. Ready(Summary.turn)
    BY <2>2, <2>3 DEF Ready
  <2>5. CASE put' = put
    BY <1>a, <2>1, <2>5, PutRepliesKept
  <2>6. CASE Put(Summary)
    BY <2>1, <2>2, <2>4, <2>6, PlainPut
  <2> QED BY <2>1, <2>5, <2>6
<1>8. CASE Task
  <2>1. docs' = docs /\ pc = "task" /\ Put(Doc("user", turn))
    BY <1>8 DEF Task, store
  <2>2. Doc("user", turn).kind = "user" /\ Doc("user", turn).turn = turn
    BY DEF Doc
  <2>3. ASSUME NEW a \in Docs PROVE docs[a].turn # turn
    <3>1. docs[a].turn < turn /\ docs[a].turn \in Nat
      BY <1>a, <2>1, Fields DEF Replay, Above, TurnNew
    <3> QED BY <1>a, <3>1
  <2>4. Ready(Doc("user", turn).turn)
    BY <2>2, <2>3 DEF Ready
  <2> QED BY <2>1, <2>2, <2>4, PlainPut, DocPlain
<1>9. CASE Reject \/ \E n \in 0 .. MaxCalls : Answer(n) \/ AnswerFails(n)
  <2>1. PICK n : docs' = docs /\ pc = "call" /\ Put(Assistant(n))
    BY <1>9 DEF Reject, Answer, AnswerFails, store
  <2>2. /\ Assistant(n).kind = "assistant" /\ Assistant(n).turn = turn
        /\ Assistant(n).of = <<0, 0>>
    BY DEF Assistant, Doc
  <2>3. Ready(Assistant(n).turn)
    BY <2>1, <2>2 DEF Replay, Above, CallReady
  <2> QED BY <2>1, <2>2, <2>3, PlainPut
<1>10. CASE Tool \/ Interrupt
  <2>1. /\ docs' = docs /\ compacted' = compacted /\ Free /\ pc \in {"tools", "interrupted"}
        /\ put' = put \/ (Unanswered # {} /\ Put(Result))
    BY <1>10 DEF Tool, Interrupt, store
  <2>2. CASE put' = put
    BY <1>a, <2>1, <2>2, PutRepliesKept
  <2>3. CASE Unanswered # {} /\ Put(Result)
    <3>1. /\ Result.kind = "result" /\ Result.calls = 0
          /\ \E a \in Docs \ compacted : \E k \in 1 .. docs[a].calls :
               /\ Result.of = <<a, k>> /\ ~HasResult(a, k) /\ docs[a].kind = "assistant"
               /\ docs[a].turn = Result.turn
      BY <2>1, <2>3, ResultAnswers
    <3> QED BY <2>1, <2>3, <3>1, ResultPut
  <2> QED BY <2>1, <2>2, <2>3
<1>11. CASE Recover
  <2>1. docs' = docs /\ pc = "recover" /\ Put(Doc("summary", turn + 1))
    BY <1>11 DEF Recover, store
  <2>2. Doc("summary", turn + 1).kind = "summary" /\ Doc("summary", turn + 1).turn = turn + 1
    BY DEF Doc
  <2>3. ASSUME NEW a \in Docs PROVE docs[a].turn # turn + 1
    <3>1. ~ (docs[a].turn > turn) /\ docs[a].turn \in Nat
      BY <1>a, <2>1, Fields DEF Replay, Above, TurnLast, Loop
    <3> QED BY <1>a, <3>1
  <2>4. Ready(Doc("summary", turn + 1).turn)
    BY <2>2, <2>3 DEF Ready
  <2> QED BY <2>1, <2>2, <2>4, PlainPut, DocPlain
<1> QED
  BY <1>1, <1>2, <1>3, <1>4, <1>5, <1>6, <1>7, <1>8, <1>9, <1>10, <1>11 DEF Next

-----------------------------------------------------------------------------
(* Where the run writes *)

\* A sub-loop stores nothing above the turn of an answer.
LEMMA SubBelow ==
  ASSUME IInv, Replay, sub # None, NEW d \in Record, Same(sub.doc, d)
  PROVE  /\ d.kind = "sub" /\ d.calls = 0
         /\ \E i \in Docs : docs[i].turn = d.turn /\ docs[i].kind = "assistant"
BY DEF IInv, Fitting, SubFits, Replay, SubReplies, Same

\* A reflection's messages are above its session, ...
LEMMA NotesAboveStep ==
  ASSUME IInv, Replay, Next
  PROVE  NotesAbove'
<1>a. Types /\ Fitting /\ docs \in Seq(Record) /\ Putting /\ NotesAbove /\ base \in Nat \cup {-1}
  BY DEF IInv, Types, Replay, Above
<1> SUFFICES ASSUME pc' \in {"reflect", "compact"}, NEW i \in Docs', docs'[i].turn > base'
             PROVE  docs'[i].kind \in {"note", "summary"}
  BY DEF NotesAbove
<1>1. \/ Decide /\ base' = LastTurn /\ docs' = docs
      \/ pc \in {"reflect", "compact"} /\ base' = base
  BY DEF Next, Count, Insert, InsertFails, ReadFails, Wake, LoadHistory, Decide, Note,
         Summarise, Compact, Reload, PickNumber, Task, Answer, AnswerFails, Reject, Tool,
         Interrupt, NextCall, Cut, Done, Recover, Drop, Again, SubCount, SubInsert, Die, Throw,
         store
<1>2. CASE Decide /\ base' = LastTurn /\ docs' = docs
  <2>1. i \in Docs /\ docs[i].turn <= LastTurn /\ LastTurn \in Nat \cup {-1} /\ docs[i].turn \in Nat
    BY <1>a, <1>2, LastTurnIs, Fields DEF Docs
  <2> QED BY <1>2, <2>1
<1>3. CASE pc \in {"reflect", "compact"} /\ base' = base
  <2>1. CASE docs' = docs
    BY <1>a, <1>3, <2>1 DEF NotesAbove, Docs
  <2>2. ASSUME NEW d \in Record, docs' = Append(docs, d),
               (put # None /\ Same(put.doc, d)) \/ (sub # None /\ Same(sub.doc, d))
        PROVE  docs'[i].kind \in {"note", "summary"}
    <3>1. /\ docs'[i] = IF i \in Docs THEN docs[i] ELSE d
      BY <1>a, <2>2, Grown
    <3>2. CASE i \in Docs
      BY <1>a, <1>3, <3>1, <3>2 DEF NotesAbove
    <3>3. CASE i \notin Docs /\ put # None /\ Same(put.doc, d)
      <4>1. put.doc.kind \in {"note", "summary"}
        BY <1>a, <1>3, <3>3 DEF Putting, Loop
      <4> QED BY <3>1, <3>3, <4>1 DEF Same
    <3>4. CASE i \notin Docs /\ sub # None /\ Same(sub.doc, d)
      <4>1. PICK j \in Docs : docs[j].turn = d.turn /\ docs[j].kind = "assistant"
        BY <2>2, <3>4, SubBelow
      <4>2. ~ (docs[j].turn > base)
        BY <1>a, <1>3, <4>1 DEF NotesAbove
      <4> QED BY <1>3, <3>1, <3>4, <4>1, <4>2
    <3> QED BY <2>2, <3>2, <3>3, <3>4
  <2> QED BY <1>a, <2>1, <2>2, StoreMoves
<1> QED BY <1>1, <1>2, <1>3

\* ... and a turn's above everything but the summary of its recovery.
LEMMA TurnLastStep ==
  ASSUME IInv, Replay, Next
  PROVE  TurnLast'
<1>a. Types /\ Fitting /\ docs \in Seq(Record) /\ Putting /\ TurnLast /\ turn \in Nat
  BY DEF IInv, Types, Replay, Above
<1> SUFFICES ASSUME pc' \in Loop \cup {"drop", "again"}, NEW i \in Docs', docs'[i].turn > turn'
             PROVE  docs'[i].kind = "summary" /\ pc' \notin Loop
  BY DEF TurnLast
<1>1. \/ turn' = LastTurn + 1 /\ docs' = docs
      \/ /\ pc \in Loop \cup {"drop", "again"} /\ turn' = turn /\ (pc' \in Loop => pc \in Loop)
         /\ docs' = docs \/ pc' = pc
  <2>1. CASE PickNumber \/ Again
    BY <2>1 DEF PickNumber, Again, store
  <2>2. CASE Insert \/ InsertFails
    <3>1. pc' = pc \/ pc' \in {"idle", "number"}
      BY <2>2 DEF Insert, InsertFails, Throw
    <3>2. turn' = turn
      BY <2>2 DEF Insert, InsertFails
    <3> QED BY <3>1, <3>2 DEF Loop
  <2>3. CASE SubInsert
    BY <2>3 DEF SubInsert
  <2>4. CASE ~ (PickNumber \/ Again \/ Insert \/ InsertFails \/ SubInsert)
    BY <2>4
       DEF Next, Count, ReadFails, Wake, LoadHistory, Decide, Note,
           Summarise, Compact, Reload, Task, Answer, AnswerFails, Reject, Tool,
           Interrupt, NextCall, Cut, Done, Recover, Drop, SubCount, Die, Throw, store, Loop
  <2> QED BY <2>1, <2>2, <2>3, <2>4
<1>2. CASE turn' = LastTurn + 1 /\ docs' = docs
  <2>1. i \in Docs /\ docs[i].turn <= LastTurn /\ LastTurn \in Nat \cup {-1} /\ docs[i].turn \in Nat
    BY <1>a, <1>2, LastTurnIs, Fields DEF Docs
  <2> QED BY <1>2, <2>1
<1>3. ASSUME pc \in Loop \cup {"drop", "again"}, turn' = turn, pc' \in Loop => pc \in Loop,
             docs' = docs \/ pc' = pc
      PROVE  docs'[i].kind = "summary" /\ pc' \notin Loop
  <2>1. CASE docs' = docs
    BY <1>a, <1>3, <2>1 DEF TurnLast, Docs
  <2>2. ASSUME NEW d \in Record, docs' = Append(docs, d),
               (put # None /\ Same(put.doc, d)) \/ (sub # None /\ Same(sub.doc, d))
        PROVE  docs'[i].kind = "summary" /\ pc' \notin Loop
    <3>1. docs'[i] = IF i \in Docs THEN docs[i] ELSE d
      BY <1>a, <2>2, Grown
    <3>2. CASE i \in Docs
      BY <1>a, <1>3, <3>1, <3>2 DEF TurnLast
    <3>3. CASE i \notin Docs /\ put # None /\ Same(put.doc, d)
      <4>1. put.doc.turn = turn \/ (pc = "drop" /\ put.doc.kind = "summary")
        BY <1>a, <1>3, <3>3 DEF Putting, Loop, Mine
      <4>2. ~ (d.turn = turn)
        BY <1>a, <1>3, <3>1, <3>3
      <4>3. pc = "drop" /\ d.kind = "summary"
        BY <3>3, <4>1, <4>2 DEF Same
      <4>4. docs' # docs
        BY <1>a, <2>2, Grown
      <4> QED BY <1>3, <3>1, <3>3, <4>3, <4>4 DEF Loop
    <3>4. CASE i \notin Docs /\ sub # None /\ Same(sub.doc, d)
      <4>1. PICK j \in Docs : docs[j].turn = d.turn /\ docs[j].kind = "assistant"
        BY <2>2, <3>4, SubBelow
      <4>2. ~ (docs[j].turn > turn)
        BY <1>a, <1>3, <4>1 DEF TurnLast
      <4> QED BY <1>3, <3>1, <3>4, <4>1, <4>2
    <3> QED BY <2>2, <3>2, <3>3, <3>4
  <2> QED BY <1>a, <2>1, <2>2, StoreMoves
<1> QED BY <1>1, <1>2, <1>3

\* A turn is new when it starts, ...
LEMMA TurnNewStep ==
  ASSUME IInv, Replay, Next
  PROVE  TurnNew'
<1>a. Types /\ Fitting /\ docs \in Seq(Record) /\ Putting /\ TurnNew /\ turn \in Nat
  BY DEF IInv, Types, Replay, Above
<1> SUFFICES ASSUME pc' = "task", NEW i \in Docs'
             PROVE  docs'[i].turn < turn'
  BY DEF TurnNew
<1>1. (turn' = LastTurn + 1 /\ docs' = docs) \/ (pc = "task" /\ turn' = turn)
  BY DEF Next, Count, Insert, InsertFails, ReadFails, Wake, LoadHistory, Decide, Note,
         Summarise, Compact, Reload, PickNumber, Task, Answer, AnswerFails, Reject, Tool,
         Interrupt, NextCall, Cut, Done, Recover, Drop, Again, SubCount, SubInsert, Die, Throw,
         store
<1>2. CASE turn' = LastTurn + 1 /\ docs' = docs
  <2>1. i \in Docs /\ docs[i].turn <= LastTurn /\ LastTurn \in Nat \cup {-1} /\ docs[i].turn \in Nat
    BY <1>a, <1>2, LastTurnIs, Fields DEF Docs
  <2> QED BY <1>2, <2>1
<1>3. CASE pc = "task" /\ turn' = turn
  <2>1. CASE docs' = docs
    BY <1>a, <1>3, <2>1 DEF TurnNew, Docs
  <2>2. ASSUME NEW d \in Record, docs' = Append(docs, d),
               (put # None /\ Same(put.doc, d)) \/ (sub # None /\ Same(sub.doc, d))
        PROVE  docs'[i].turn < turn'
    <3>1. docs'[i] = IF i \in Docs THEN docs[i] ELSE d
      BY <1>a, <2>2, Grown
    <3>2. sub # None /\ Same(sub.doc, d)
      BY <1>a, <1>3, <2>2 DEF Putting
    <3>3. PICK j \in Docs : docs[j].turn = d.turn
      BY <2>2, <3>2, SubBelow
    <3> QED BY <1>a, <1>3, <3>1, <3>3 DEF TurnNew
  <2> QED BY <1>a, <2>1, <2>2, StoreMoves
<1> QED BY <1>1, <1>2, <1>3

\* ... and a recovery has left nothing but summaries before it starts again.
LEMMA EmptiedStep ==
  ASSUME IInv, Replay, Next
  PROVE  Emptied'
<1>a. Types /\ Fitting /\ docs \in Seq(Record) /\ Putting /\ TurnLast /\ Emptied /\ turn \in Nat
  BY DEF IInv, Types, Replay, Above
<1> SUFFICES ASSUME pc' = "again", NEW i \in Docs' \ compacted'
             PROVE  docs'[i].kind \in {"summary", "sub"}
  BY DEF Emptied
<1>1. Drop \/ (pc = "again" /\ compacted' = compacted)
  BY DEF Next, Count, Insert, InsertFails, ReadFails, Wake, LoadHistory, Decide, Note,
         Summarise, Compact, Reload, PickNumber, Task, Answer, AnswerFails, Reject, Tool,
         Interrupt, NextCall, Cut, Done, Recover, Drop, Again, SubCount, SubInsert, Die, Throw,
         store
<1>2. CASE Drop
  <2>1. pc = "drop" /\ docs' = docs /\ CompactBelow(turn + 1)
    BY <1>2 DEF Drop
  <2>2. i \in Docs /\ docs[i].turn \in Nat /\ ~ (docs[i].turn < turn + 1)
    BY <1>a, <2>1, Fields DEF CompactBelow, Docs
  <2>3. docs[i].turn > turn
    BY <1>a, <2>2
  <2> QED BY <1>a, <2>1, <2>2, <2>3 DEF TurnLast
<1>3. CASE pc = "again" /\ compacted' = compacted
  <2>1. CASE docs' = docs
    BY <1>a, <1>3, <2>1 DEF Emptied, Docs
  <2>2. ASSUME NEW d \in Record, docs' = Append(docs, d),
               (put # None /\ Same(put.doc, d)) \/ (sub # None /\ Same(sub.doc, d))
        PROVE  docs'[i].kind \in {"summary", "sub"}
    <3>1. docs'[i] = IF i \in Docs THEN docs[i] ELSE d
      BY <1>a, <2>2, Grown
    <3>2. sub # None /\ Same(sub.doc, d)
      BY <1>a, <1>3, <2>2 DEF Putting, Loop
    <3>3. d.kind = "sub"
      BY <2>2, <3>2, SubBelow
    <3> QED BY <1>a, <1>3, <3>1, <3>3 DEF Emptied
  <2> QED BY <1>a, <2>1, <2>2, StoreMoves
<1> QED BY <1>1, <1>2, <1>3

\* Between two calls of the LLM the turn's calls are answered, ...
LEMMA CallReadyStep ==
  ASSUME IInv, Replay, Next
  PROVE  CallReady'
<1>a. /\ Types /\ docs \in Seq(Record) /\ Putting /\ CallReady /\ LastOpen /\ TurnNew
      /\ turn \in Nat /\ Replies /\ Answered
  BY DEF IInv, Types, Replay, Above
<1> SUFFICES ASSUME pc' = "call" PROVE Ready(turn)'
  BY DEF CallReady
<1>1. \/ pc = "task" /\ turn' = turn /\ docs' = docs
      \/ NextCall
      \/ pc = "call" /\ turn' = turn
  BY DEF Next, Count, Insert, InsertFails, ReadFails, Wake, LoadHistory, Decide, Note,
         Summarise, Compact, Reload, PickNumber, Task, Answer, AnswerFails, Reject, Tool,
         Interrupt, NextCall, Cut, Done, Recover, Drop, Again, SubCount, SubInsert, Die, Throw,
         store
<1>2. ASSUME docs' = docs, turn' = turn, \A a \in Docs : docs[a].turn = turn => Whole(a)
      PROVE  Ready(turn)'
  <2>1. Docs' = Docs /\ \A a : Whole(a)' <=> Whole(a)
    BY <1>2, ResultsSame
  <2> QED BY <1>2, <2>1 DEF Ready
<1>3. CASE pc = "task" /\ turn' = turn /\ docs' = docs
  <2>1. \A a \in Docs : docs[a].turn # turn
    <3>1. ASSUME NEW a \in Docs PROVE docs[a].turn # turn
      <4>1. docs[a].turn < turn /\ docs[a].turn \in Nat
        BY <1>a, <1>3, Fields DEF TurnNew
      <4> QED BY <1>a, <4>1
    <3> QED BY <3>1
  <2> QED BY <1>2, <1>3, <2>1
<1>4. CASE NextCall
  <2>1. pc = "tools" /\ Free /\ docs' = docs /\ turn' = turn /\ Unanswered = {}
    BY <1>4 DEF NextCall, store
  <2>2. LastAnswer \in Docs
    <3>1. \E i \in Docs : docs[i].kind = "assistant"
      BY <1>a, <2>1 DEF Answered, Free
    <3> QED BY <1>a, <3>1, LastAnswerIs
  <2>3. \A a \in Docs : docs[a].turn = turn /\ a # LastAnswer => Whole(a)
    BY <1>a, <2>1 DEF LastOpen, Free
  <2>4. ASSUME NEW k \in 1 .. docs[LastAnswer].calls PROVE HasResult(LastAnswer, k)
    <3>1. PICK i \in Docs : docs[i].of = <<LastAnswer, k>>
      BY <2>1 DEF Unanswered, Docs
    <3>2. LastAnswer \in Nat /\ LastAnswer # 0
      BY <1>a, <2>2 DEF Docs
    <3>3. <<LastAnswer, k>> # <<0, 0>>
      BY <3>2
    <3>4. docs[i].kind = "result"
      BY <1>a, <3>1, <3>3 DEF Replies
    <3> QED BY <3>1, <3>4 DEF HasResult
  <2>5. Whole(LastAnswer)
    BY <2>4 DEF Whole
  <2> QED BY <1>2, <2>1, <2>3, <2>5
<1>5. CASE pc = "call" /\ turn' = turn
  <2>1. CASE docs' = docs
    BY <1>a, <1>2, <1>5, <2>1 DEF CallReady, Ready
  <2>2. ASSUME NEW d \in Record, docs' = Append(docs, d),
               (put # None /\ Same(put.doc, d)) \/ (sub # None /\ Same(sub.doc, d))
        PROVE  Ready(turn)'
    <3>1. d.calls = 0
      <4>1. put # None => put.doc.kind = "user"
        BY <1>a, <1>5 DEF Putting, Loop
      <4>2. d.kind # "assistant"
        BY <2>2, <4>1, SubBelow DEF Same
      <4> QED BY <2>2, <4>2, Storing
    <3>2. PICK t : t = turn
      OBVIOUS
    <3>3. Ready(t)'
      BY <1>a, <1>5, <2>2, <3>1, <3>2, ReadyGrown DEF CallReady
    <3> QED BY <1>5, <3>2, <3>3 DEF Ready
  <2> QED BY <1>a, <2>1, <2>2, StoreMoves
<1> QED BY <1>1, <1>3, <1>4, <1>5

\* A new answer is the last one, and another message leaves the last one.
LEMMA LastGrown ==
  ASSUME docs \in Seq(Record), NEW d \in Record, docs' = Append(docs, d)
  PROVE  /\ d.kind = "assistant" => LastAnswer' = Len(docs) + 1
         /\ d.kind # "assistant" => LastAnswer' = LastAnswer
<1> DEFINE n == Len(docs) + 1
           S == {i \in DOMAIN docs : docs[i].kind = "assistant"}
           T == {i \in DOMAIN docs' : docs'[i].kind = "assistant"}
<1>1. /\ Docs' = Docs \cup {n} /\ docs'[n] = d /\ n \notin Docs /\ n \in Nat
      /\ \A i \in Docs : docs'[i] = docs[i] /\ i < n /\ i \in Nat
  BY Grown
<1>2. LastAnswer = Max(S) /\ LastAnswer' = Max(T)
  BY DEF LastAnswer
<1>5. 1 <= n
  OBVIOUS
<1> HIDE DEF n
<1>3. d.kind # "assistant" => T = S
  BY <1>1 DEF Docs
<1>4. ASSUME d.kind = "assistant" PROVE Max(T) = n
  <2>1. T = S \cup {n}
    BY <1>1, <1>4 DEF Docs
  <2>2. \A x \in S : x < n /\ x \in Nat /\ 1 <= x
    BY <1>1 DEF Docs
  <2>3. T \in SUBSET Int /\ T # {} /\ 1 \in Int /\ n \in Int /\ (\A x \in T : 1 <= x /\ x <= n)
    <3> HIDE DEF S, T
    <3> QED BY <1>1, <1>5, <2>1, <2>2
  <2> HIDE DEF T
  <2>4. Max(T) \in T /\ \A x \in T : x <= Max(T)
    BY <2>3, MaxIs
  <2>5. n <= Max(T) /\ Max(T) <= n /\ Max(T) \in Int
    BY <2>1, <2>3, <2>4
  <2> QED BY <1>1, <2>5
<1> QED BY <1>2, <1>3, <1>4 DEF n

\* ... and while its tools run only the last answer has open calls.
LEMMA LastOpenStep ==
  ASSUME IInv, Replay, Next
  PROVE  LastOpen'
<1>a. /\ Types /\ docs \in Seq(Record) /\ Putting /\ LastOpen /\ turn \in Nat
      /\ Replies /\ Answered /\ PutReplies
  BY DEF IInv, Types, Replay, Above
<1> SUFFICES ASSUME pc' \in {"tools", "interrupted"}, ~(put' # None /\ put'.doc.kind = "assistant")
             PROVE  /\ docs'[LastAnswer'].turn = turn'
                    /\ \A a \in Docs' : docs'[a].turn = turn' /\ a # LastAnswer' => Whole(a)'
  BY DEF LastOpen
<1>1. pc \in {"tools", "interrupted"} /\ turn' = turn
  <2>1. CASE Reject \/ \E n \in 0 .. MaxCalls : Answer(n) \/ AnswerFails(n)
    <3>1. PICK n : Put(Assistant(n))
      BY <2>1 DEF Reject, Answer, AnswerFails
    <3>2. put' # None /\ put'.doc = Assistant(n)
      BY <3>1, PutIs
    <3>3. Assistant(n).kind = "assistant"
      BY DEF Assistant, Doc
    <3> QED BY <3>2, <3>3
  <2>2. CASE ~ (Reject \/ \E n \in 0 .. MaxCalls : Answer(n) \/ AnswerFails(n))
    BY <2>2
       DEF Next, Count, Insert, InsertFails, ReadFails, Wake, LoadHistory, Decide, Note,
           Summarise, Compact, Reload, PickNumber, Task, Tool,
           Interrupt, NextCall, Cut, Done, Recover, Drop, Again, SubCount, SubInsert, Die, Throw
  <2> QED BY <2>1, <2>2
<1>2. ASSUME docs' = docs, ~(put # None /\ put.doc.kind = "assistant")
      PROVE  /\ docs'[LastAnswer'].turn = turn'
             /\ \A a \in Docs' : docs'[a].turn = turn' /\ a # LastAnswer' => Whole(a)'
  <2>1. Docs' = Docs /\ LastAnswer' = LastAnswer /\ \A a : Whole(a)' <=> Whole(a)
    BY <1>2, ResultsSame
  <2> QED BY <1>a, <1>1, <1>2, <2>1 DEF LastOpen
<1>3. ASSUME NEW d \in Record, docs' = Append(docs, d), d.kind # "assistant", d.calls = 0,
             ~(put # None /\ put.doc.kind = "assistant")
      PROVE  /\ docs'[LastAnswer'].turn = turn'
             /\ \A a \in Docs' : docs'[a].turn = turn' /\ a # LastAnswer' => Whole(a)'
  <2>1. \E i \in Docs : docs[i].kind = "assistant"
    BY <1>a, <1>1, <1>3 DEF Answered
  <2>2. LastAnswer \in Docs /\ LastAnswer' = LastAnswer
    BY <1>a, <1>3, <2>1, LastAnswerIs, LastGrown
  <2>3. docs'[LastAnswer].turn = turn
    BY <1>a, <1>1, <1>3, <2>2, Grown DEF LastOpen
  <2>4. ASSUME NEW a \in Docs', docs'[a].turn = turn, a # LastAnswer PROVE Whole(a)'
    <3>1. CASE a \in Docs
      BY <1>a, <1>1, <1>3, <2>4, <3>1, Grown, WholeGrown DEF LastOpen
    <3>2. CASE a \notin Docs
      BY <1>a, <1>3, <3>2, WholeGrown
    <3> QED BY <3>1, <3>2
  <2> QED BY <1>1, <2>2, <2>3, <2>4
<1>4. CASE Insert \/ InsertFails
  <2>1. /\ put \in Writer /\ put # None
        /\ \/ docs' = docs
           \/ \E d \in Record : docs' = Append(docs, d) /\ Same(put.doc, d) /\ put' = None
        /\ put' = None \/ (put' # None /\ put'.doc = put.doc /\ pc' = pc /\ docs' = docs)
        /\ \/ put' # None
           \/ \E d \in Record : docs' = Append(docs, d) /\ Same(put.doc, d)
           \/ pc' = IF pc \in {"reflect", "compact"} THEN "number" ELSE "idle"
    BY <1>a, <1>4, PutStores
  <2>2. CASE put' # None
    BY <1>2, <2>1, <2>2
  <2>3. ASSUME NEW d \in Record, docs' = Append(docs, d), Same(put.doc, d)
        PROVE  /\ docs'[LastAnswer'].turn = turn'
               /\ \A a \in Docs' : docs'[a].turn = turn' /\ a # LastAnswer' => Whole(a)'
    <3>1. CASE d.kind # "assistant"
      <4>1. d.calls = 0 /\ put.doc.kind # "assistant"
        BY <1>a, <2>1, <2>3, <3>1 DEF PutReplies, Same
      <4> QED BY <1>3, <2>3, <3>1, <4>1
    <3>2. CASE d.kind = "assistant"
      <4> DEFINE n == Len(docs) + 1
      <4>1. /\ Docs' = Docs \cup {n} /\ docs'[n] = d /\ n \notin Docs
            /\ \A i \in Docs : docs'[i] = docs[i]
        BY <1>a, <2>3, Grown
      <4>2. LastAnswer' = n
        BY <1>a, <2>3, <3>2, LastGrown
      <4> HIDE DEF n
      <4>3. d.turn = turn /\ put.doc.turn = turn
        BY <1>a, <1>1, <2>1, <2>3, <3>2 DEF Putting, Mine, Same
      <4>4. Ready(put.doc.turn)
        BY <1>a, <2>1, <2>3, <3>2 DEF PutReplies, Same, Aside
      <4>5. ASSUME NEW a \in Docs', docs'[a].turn = turn, a # n PROVE Whole(a)'
        <5>1. a \in Docs /\ docs[a].turn = turn
          BY <4>1, <4>5
        <5>2. Whole(a)
          BY <4>3, <4>4, <5>1 DEF Ready
        <5> QED BY <1>a, <2>3, <5>1, <5>2, WholeGrown
      <4> QED BY <1>1, <4>1, <4>2, <4>3, <4>5
    <3> QED BY <3>1, <3>2
  <2>4. CASE pc' = IF pc \in {"reflect", "compact"} THEN "number" ELSE "idle"
    BY <2>4
  <2> QED BY <2>1, <2>2, <2>3, <2>4
<1>5. CASE SubInsert
  <2>1. /\ sub # None /\ put' = put
        /\ docs' = docs \/ \E d \in Record : docs' = Append(docs, d) /\ Same(sub.doc, d)
    BY <1>a, <1>5, SubStores
  <2>2. CASE docs' = docs
    BY <1>2, <2>1, <2>2
  <2>3. ASSUME NEW d \in Record, docs' = Append(docs, d), Same(sub.doc, d)
        PROVE  /\ docs'[LastAnswer'].turn = turn'
               /\ \A a \in Docs' : docs'[a].turn = turn' /\ a # LastAnswer' => Whole(a)'
    <3>1. d.kind = "sub" /\ d.calls = 0
      BY <2>1, <2>3, SubBelow
    <3> QED BY <1>3, <2>1, <2>3, <3>1
  <2> QED BY <2>1, <2>2, <2>3
<1>6. CASE Count \/ SubCount
  <2>1. docs' = docs /\ (put # None => put' # None /\ put'.doc = put.doc)
    BY <1>a, <1>6, Counts
  <2> QED BY <1>2, <2>1
<1>7. CASE ~ (Insert \/ InsertFails \/ SubInsert \/ Count \/ SubCount)
  <2>1. docs' = docs /\ (put = None \/ put' = put)
    BY <1>1, <1>7
       DEF Next, ReadFails, Wake, LoadHistory, Decide, Note, Free,
           Summarise, Compact, Reload, PickNumber, Task, Answer, AnswerFails, Reject, Tool,
           Interrupt, NextCall, Cut, Done, Recover, Drop, Again, Die, store
  <2> QED BY <1>2, <2>1
<1> QED BY <1>4, <1>5, <1>6, <1>7

-----------------------------------------------------------------------------
(* The history that is loaded *)

\* What is loaded is closed when everything not compacted has its results, ...
LEMMA LoadClosed ==
  ASSUME docs \in Seq(Record), Replies, \A a \in Docs \ compacted : Whole(a)
  PROVE  Closed(Load)
<1>1. \A i \in Load : docs[i].kind \notin {"note", "sub"}
  BY LoadIs
<1>2. ASSUME NEW a \in Load, NEW k \in 1 .. docs[a].calls
      PROVE  \E i \in Load : docs[i].kind = "result" /\ docs[i].of = <<a, k>>
  <2>1. a \in Docs \ compacted
    BY LoadIs
  <2>2. PICK i \in Docs : docs[i].kind = "result" /\ docs[i].of = <<a, k>>
    BY <1>2, <2>1 DEF Whole, HasResult
  <2>3. docs[i].of[1] = a
    BY <2>2
  <2>4. i \notin compacted
    BY <2>1, <2>2, <2>3 DEF Replies, Reply
  <2>5. i \in Load
    BY <2>2, <2>4, LoadIs
  <2> QED BY <2>2, <2>5
<1>3. ASSUME NEW i \in Load, docs[i].kind = "result" PROVE docs[i].of[1] \in Load
  <2>1. i \in Docs \ compacted
    BY LoadIs
  <2> DEFINE a == docs[i].of[1]
  <2>2. a \in Docs /\ docs[a].kind = "assistant" /\ a \notin compacted
    BY <1>3, <2>1 DEF Replies, Reply
  <2> HIDE DEF a
  <2>3. a \in Load
    BY <2>2, LoadIs
  <2> QED BY <2>3 DEF a
<1> QED BY <1>1, <1>2, <1>3 DEF Closed

\* ... as it has once the repair finds no call dangling.
LEMMA RepairedWhole ==
  ASSUME docs \in Seq(Record), Replies, Dangling(Load) = {}
  PROVE  \A a \in Docs \ compacted : Whole(a)
<1>1. ASSUME NEW a \in Docs \ compacted, NEW k \in 1 .. docs[a].calls PROVE HasResult(a, k)
  <2>1. docs[a].kind = "assistant"
    BY <1>1 DEF Replies
  <2>2. a \in Load /\ a # 0 /\ a \in Nat
    BY <2>1, LoadIs, Fields
  <2>3. <<a, k>> \in Calls(Load)
    <3>1. <<a, k>> \in {<<a, m>> : m \in 1 .. docs[a].calls}
      OBVIOUS
    <3> QED BY <2>2, <3>1 DEF Calls
  <2>4. PICK i \in Load : docs[i].of = <<a, k>>
    BY <2>3 DEF Dangling
  <2>5. i \in Docs /\ <<a, k>> # <<0, 0>>
    BY <2>2, LoadIs
  <2>6. docs[i].kind = "result"
    BY <2>4, <2>5 DEF Replies
  <2> QED BY <2>4, <2>5, <2>6 DEF HasResult
<1> QED BY <1>1 DEF Whole

\* The history stays closed while documents are stored behind it.
LEMMA LoadedStep ==
  ASSUME IInv, Replay, Next
  PROVE  Loaded'
<1>a. /\ Types /\ docs \in Seq(Record) /\ Putting /\ Loaded /\ Replies /\ PutReplies /\ Emptied
      /\ history \subseteq Docs
  BY DEF IInv, Types, Replay, Above
<1>b. \A i \in Docs : i \in Docs' /\ docs'[i] = docs[i]
  BY <1>a, DocsStay
<1>1. ASSUME pc' \in {"decide", "reflect", "compact", "reload"}, NEW a \in Docs' \ compacted'
      PROVE  Whole(a)'
  <2>1. \/ docs' = docs /\ compacted' = compacted /\ Dangling(Load) = {}
        \/ pc \in {"decide", "reflect", "compact", "reload"}
    BY <1>1
       DEF Next, Count, Insert, InsertFails, ReadFails, Wake, LoadHistory, Decide, Note,
           Summarise, Compact, Reload, PickNumber, Task, Answer, AnswerFails, Reject, Tool,
           Interrupt, NextCall, Cut, Done, Recover, Drop, Again, SubCount, SubInsert, Die,
           Throw, store
  <2>2. CASE docs' = docs /\ compacted' = compacted /\ Dangling(Load) = {}
    <3>1. a \in Docs \ compacted
      BY <1>1, <2>2 DEF Docs
    <3>2. Whole(a)
      BY <1>a, <2>2, <3>1, RepairedWhole
    <3> QED BY <2>2, <3>2, ResultsSame
  <2>3. CASE pc \in {"decide", "reflect", "compact", "reload"}
    <3>1. \A b \in Docs \ compacted : Whole(b)
      BY <1>a, <2>3 DEF Loaded
    <3>2. CASE docs' = docs
      <4>1. a \in Docs \ compacted
        BY <1>a, <1>1, <3>2, StoreMoves DEF Docs, CompactBelow
      <4> QED BY <3>1, <3>2, <4>1, ResultsSame
    <3>3. ASSUME NEW d \in Record, docs' = Append(docs, d), compacted' = compacted,
                 (put # None /\ Same(put.doc, d)) \/ (sub # None /\ Same(sub.doc, d))
          PROVE  Whole(a)'
      <4>1. d.kind # "assistant"
        <5>1. put # None => put.doc.kind # "assistant"
          BY <1>a, <2>3 DEF Putting, Loop
        <5> QED BY <3>3, <5>1, SubBelow DEF Same
      <4>2. d.calls = 0
        BY <3>3, <4>1, Storing
      <4>3. CASE a \in Docs
        BY <1>a, <1>1, <3>1, <3>3, <4>3, WholeGrown
      <4>4. CASE a \notin Docs
        BY <1>a, <1>1, <3>3, <4>2, <4>4, WholeGrown
      <4> QED BY <4>3, <4>4
    <3> QED BY <1>a, <3>2, <3>3, StoreMoves
  <2> QED BY <2>1, <2>2, <2>3
<1>2. ASSUME history' = Load, docs' = docs, \A a \in Docs \ compacted : Whole(a)
      PROVE  Closed(history)'
  <2>1. Closed(Load)
    BY <1>a, <1>2, LoadClosed
  <2> QED BY <1>2, <2>1 DEF Closed
<1>3. ASSUME history' = history, Closed(history) PROVE Closed(history)'
  <2>1. \A i \in history : docs'[i] = docs[i]
    BY <1>a, <1>b
  <2>2. \A i \in history : docs'[i].kind \notin {"note", "sub"}
    BY <1>3, <2>1 DEF Closed
  <2>3. ASSUME NEW a \in history, NEW k \in 1 .. docs'[a].calls
        PROVE  \E i \in history : docs'[i].kind = "result" /\ docs'[i].of = <<a, k>>
    <3>1. PICK i \in history : docs[i].kind = "result" /\ docs[i].of = <<a, k>>
      BY <1>3, <2>1, <2>3 DEF Closed
    <3> QED BY <2>1, <3>1
  <2>4. \A i \in history : docs'[i].kind = "result" => docs'[i].of[1] \in history
    BY <1>3, <2>1 DEF Closed
  <2> QED BY <1>3, <2>2, <2>3, <2>4 DEF Closed
<1>4. ASSUME pc' \notin {"idle", "load"} PROVE Closed(history)'
  <2>1. CASE LoadHistory
    <3>1. history' = Load /\ docs' = docs /\ Dangling(Load) = {}
      BY <1>4, <2>1 DEF LoadHistory, store
    <3>2. \A a \in Docs \ compacted : Whole(a)
      BY <1>a, <3>1, RepairedWhole
    <3> QED BY <1>2, <3>1, <3>2
  <2>2. CASE Reload
    <3>1. pc = "reload" /\ docs' = docs /\ (history' = Load \/ history' = history)
      BY <2>2 DEF Reload, store
    <3>2. Closed(history) /\ \A a \in Docs \ compacted : Whole(a)
      BY <1>a, <3>1 DEF Loaded
    <3> QED BY <1>2, <1>3, <3>1, <3>2
  <2>3. CASE Again
    <3>1. pc = "again" /\ docs' = docs /\ history' = Load
      BY <2>3 DEF Again, store
    <3>2. \A a \in Docs \ compacted : Whole(a)
      BY <1>a, <3>1, NoCalls DEF Emptied
    <3> QED BY <1>2, <3>1, <3>2
  <2>4. CASE ~ (LoadHistory \/ Reload \/ Again)
    <3>1. history' = history /\ pc \notin {"idle", "load"}
      <4>1. CASE Insert \/ InsertFails
        <5>1. history' = history /\ pc' \in {pc, "number", "idle"}
          BY <4>1 DEF Insert, InsertFails, Throw
        <5>2. pc' = "number" => pc \in {"reflect", "compact"} \/ pc' = pc
          BY <4>1 DEF Insert, InsertFails, Throw
        <5> QED BY <1>4, <5>1, <5>2
      <4>2. CASE ~ (Insert \/ InsertFails)
        BY <1>4, <2>4, <4>2
           DEF Next, Count, ReadFails, Wake, Decide, Note,
               Summarise, Compact, PickNumber, Task, Answer, AnswerFails, Reject, Tool,
               Interrupt, NextCall, Cut, Done, Recover, Drop, SubCount, SubInsert, Die, Throw
      <4> QED BY <4>1, <4>2
    <3>2. Closed(history)
      BY <1>a, <3>1 DEF Loaded
    <3> QED BY <1>3, <3>1, <3>2
  <2> QED BY <2>1, <2>2, <2>3, <2>4
<1> QED BY <1>1, <1>4 DEF Loaded

\* The invariant of the replay is kept by every step, ...
LEMMA ReplayStep == IInv /\ Replay /\ Next => Replay'
<1> SUFFICES ASSUME IInv, Replay, Next PROVE Replay'
  OBVIOUS
<1>1. Index'
  BY TypesStep, IndexStep DEF Replay
<1>2. Replies' /\ Open' /\ PutReplies' /\ SubReplies'
  BY RepliesStep, PutRepliesStep, SubRepliesStep
<1>3. Above'
  BY NotesAboveStep, TurnLastStep, TurnNewStep, CallReadyStep, LastOpenStep, EmptiedStep DEF Above
<1>4. Loaded'
  BY LoadedStep
<1> QED BY <1>1, <1>2, <1>3, <1>4 DEF Replay

\* ... from the start, ...
LEMMA InitReplay == Init => Replay
<1> SUFFICES ASSUME Init PROVE Replay
  OBVIOUS
<1>1. docs = <<>> /\ Docs = {} /\ pc = "idle" /\ put = None /\ sub = None
  BY DEF Init, Docs
<1>2. Index
  BY <1>1 DEF Index, Order, Tight, Counted
<1>3. Replies /\ Open /\ PutReplies /\ SubReplies
  BY <1>1 DEF Replies, Open, PutReplies, SubReplies
<1>4. Above
  BY <1>1 DEF Above, NotesAbove, TurnLast, TurnNew, CallReady, LastOpen, Emptied, Loop
<1>5. Loaded
  BY <1>1 DEF Loaded
<1> QED BY <1>2, <1>3, <1>4, <1>5 DEF Replay

\* ... and while nothing changes.
LEMMA StutterReplay == Replay /\ UNCHANGED vars => Replay'
<1> SUFFICES ASSUME Replay, UNCHANGED vars PROVE Replay'
  OBVIOUS
<1>1. UNCHANGED <<docs, compacted, pc, base, turn, history, put, sub>>
  BY DEF vars, store
<1>2. /\ Docs' = Docs /\ LastAnswer' = LastAnswer
      /\ \A a, k : HasResult(a, k)' <=> HasResult(a, k)
      /\ \A a : Whole(a)' <=> Whole(a)
  BY <1>1, ResultsSame
<1>3. Index'
  BY <1>1, <1>2 DEF Replay, Index, Order, Tight, Counted, Stored
<1>4. Replies' /\ Open' /\ SubReplies'
  BY <1>1, <1>2 DEF Replay, Replies, Reply, Open, SubReplies
<1>5. PutReplies'
  BY <1>1, <1>2 DEF Replay, PutReplies, Ready
<1>6. NotesAbove' /\ TurnLast' /\ TurnNew' /\ Emptied'
  BY <1>1, <1>2 DEF Replay, Above, NotesAbove, TurnLast, TurnNew, Emptied
<1>7. CallReady' /\ LastOpen'
  BY <1>1, <1>2 DEF Replay, Above, CallReady, LastOpen, Ready
<1>8. Loaded'
  BY <1>1, <1>2 DEF Replay, Loaded, Closed
<1> QED BY <1>3, <1>4, <1>5, <1>6, <1>7, <1>8 DEF Replay, Above

\* Results are stored behind their answers, in their turns and at most once, ...
THEOREM Replayable == Spec => []Replay
<1>1. IInv /\ Replay /\ [Next]_vars => Replay'
  BY ReplayStep, StutterReplay
<1> QED BY InitReplay, Inductive, <1>1, PTL DEF Spec

-----------------------------------------------------------------------------
(* A closed history replays *)

\* The results of the calls of one answer.
Results(S, i) == {r \in S : docs[r].kind = "result" /\ docs[r].of[1] = i}

\* As many as its calls, one for each.
LEMMA ResultsCount ==
  ASSUME docs \in Seq(Record), Replies, NEW S \in SUBSET Docs, Closed(S), NEW i \in S
  PROVE  /\ Cardinality(Results(S, i)) = docs[i].calls /\ IsFiniteSet(Results(S, i))
         /\ \A r \in Results(S, i) :
              docs[r].of = <<i, docs[r].of[2]>> /\ docs[r].of[2] \in 1 .. docs[i].calls
         /\ \A k \in 1 .. docs[i].calls : \E r \in Results(S, i) : docs[r].of = <<i, k>>
<1> DEFINE R == Results(S, i)
           n == docs[i].calls
           f == [r \in R |-> docs[r].of[2]]
<1>1. n \in Nat /\ R \in SUBSET Docs /\ \A r \in R : r \in S
  BY Fields DEF Results
<1>2. ASSUME NEW r \in R PROVE docs[r].of = <<i, docs[r].of[2]>> /\ docs[r].of[2] \in 1 .. n
  <2>1. r \in Docs /\ docs[r].kind = "result" /\ docs[r].of[1] = i
    BY DEF Results
  <2>2. docs[r].of[2] \in 1 .. n
    BY <2>1 DEF Replies, Reply
  <2>3. docs[r].of \in Nat \X Nat
    BY <2>1, Fields
  <2>4. docs[r].of = <<docs[r].of[1], docs[r].of[2]>>
    BY <2>3
  <2> QED BY <2>1, <2>2, <2>4
<1>3. ASSUME NEW k \in 1 .. n PROVE \E r \in R : docs[r].of = <<i, k>>
  <2>1. PICK r \in S : docs[r].kind = "result" /\ docs[r].of = <<i, k>>
    BY <1>3 DEF Closed
  <2>2. docs[r].of[1] = i
    BY <2>1
  <2> QED BY <2>1, <2>2 DEF Results
<1>4. ASSUME NEW r \in R, NEW s \in R, docs[r].of[2] = docs[s].of[2] PROVE r = s
  <2>1. docs[r].of = docs[s].of
    BY <1>2, <1>4
  <2>2. r \in Docs /\ s \in Docs /\ docs[r].kind = "result" /\ docs[s].kind = "result"
    BY DEF Results
  <2> QED BY <2>1, <2>2 DEF Replies
<1>5. IsFiniteSet(R)
  <2> HIDE DEF R
  <2> QED BY <1>1, FinitelyMany
<1>6. f \in [R -> 1 .. n] /\ (\A r, s \in R : f[r] = f[s] => r = s)
      /\ \A k \in 1 .. n : \E r \in R : f[r] = k
  <2>1. \A k \in 1 .. n : \E r \in R : docs[r].of[2] = k
    <3>1. ASSUME NEW k \in 1 .. n PROVE \E r \in R : docs[r].of[2] = k
      <4>1. PICK r \in R : docs[r].of = <<i, k>>
        BY <1>3
      <4> QED BY <4>1
    <3> QED BY <3>1
  <2> HIDE DEF R, n
  <2> QED BY <1>2, <1>4, <2>1
<1>7. f \in Surjection(R, 1 .. n) /\ f \in Injection(R, 1 .. n)
  <2> HIDE DEF f, R, n
  <2> QED BY <1>6 DEF Surjection, Injection, IsInjective
<1>8. Cardinality(1 .. n) = Cardinality(R)
  <2> HIDE DEF f, R, n
  <2> QED BY <1>5, <1>7, FS_Surjection
<1>9. Cardinality(1 .. n) = n
  <2> HIDE DEF n
  <2> QED BY <1>1, FS_Interval
<1> QED BY <1>2, <1>3, <1>5, <1>8, <1>9

\* Before a result come its answer, what is before that, and results of it.
LEMMA ResultBehind ==
  ASSUME docs \in Seq(Record), Order, Replies, NEW S \in SUBSET Docs, Closed(S), NEW i \in S,
         docs[i].kind = "assistant", NEW r \in Results(S, i)
  PROVE  /\ r \in S /\ Older(i, r)
         /\ \A j \in S : Older(j, r) => Older(j, i) \/ j = i \/ j \in Results(S, i)
<1>1. r \in S /\ r \in Docs /\ docs[r].kind = "result" /\ docs[r].of[1] = i
  BY DEF Results
<1>2. /\ i < r /\ docs[i].turn = docs[r].turn
      /\ \A j \in Docs : i < j /\ j < r /\ docs[j].turn = docs[r].turn => docs[j].kind \in Aside
  BY <1>1 DEF Replies, Reply
<1>3. Older(i, r)
  BY <1>1, <1>2, OlderIs
<1>4. ASSUME NEW j \in S, Older(j, r), ~Older(j, i), j # i PROVE j \in Results(S, i)
  <2>1. i \in Nat /\ j \in Nat /\ r \in Nat /\ docs[i].turn \in Nat /\ docs[j].turn \in Nat
    BY <1>1, Fields
  <2>2. docs[j].turn = docs[r].turn /\ j < r /\ i < j
    BY <1>1, <1>2, <1>4, <2>1, OlderIs
  <2>3. docs[j].kind = "result"
    BY <1>2, <2>2 DEF Closed, Aside
  <2> DEFINE b == docs[j].of[1]
  <2>4. /\ b \in Docs /\ b < j /\ docs[b].kind = "assistant" /\ docs[b].turn = docs[j].turn
        /\ \A k \in Docs : b < k /\ k < j /\ docs[k].turn = docs[j].turn => docs[k].kind \in Aside
    BY <2>3 DEF Replies, Reply
  <2> HIDE DEF b
  <2>5. b \in Nat
    BY <2>4, Fields
  <2>6. ~ (b < i)
    BY <1>2, <2>2, <2>4 DEF Aside
  <2>7. ~ (i < b)
    <3>1. ASSUME i < b PROVE docs[b].kind \in Aside
      <4>1. b < r
        BY <2>1, <2>2, <2>4, <2>5
      <4> QED BY <1>2, <2>2, <2>4, <3>1, <4>1
    <3> QED BY <2>4, <3>1 DEF Aside
  <2>8. b = i
    BY <2>1, <2>5, <2>6, <2>7
  <2> QED BY <2>3, <2>8 DEF Results, b
<1> QED BY <1>1, <1>3, <1>4

\* The results of an answer take the places right behind it.
LEMMA ResultPlaces ==
  ASSUME docs \in Seq(Record), Order, Replies, NEW S \in SUBSET Docs, Closed(S), NEW i \in S,
         docs[i].kind = "assistant"
  PROVE  LET p == Rank(S, i) + 1
             n == docs[i].calls
         IN  /\ \A r \in Results(S, i) : Rank(S, r) + 1 \in p + 1 .. p + n
             /\ \A q \in p + 1 .. p + n : \E r \in Results(S, i) : Rank(S, r) + 1 = q
<1> DEFINE p == Rank(S, i) + 1
           n == docs[i].calls
           R == Results(S, i)
           B == Before(S, i)
           D == B \cup {i}
<1>1. R \subseteq S /\ S \subseteq Docs
  BY DEF Results
<1>2. Cardinality(R) = n /\ IsFiniteSet(R) /\ n \in Nat
  BY ResultsCount, Fields
<1>3. IsFiniteSet(B) /\ Cardinality(B) + 1 = p /\ p \in Nat /\ p > 0 /\ i \notin B
  <2>1. B \in SUBSET Docs /\ i \notin B
    BY OlderOrders DEF Before
  <2>2. IsFiniteSet(B) /\ Cardinality(B) \in Nat
    <3> HIDE DEF B
    <3> QED BY <2>1, FinitelyMany
  <2> QED BY <2>1, <2>2 DEF Rank
<1>4. IsFiniteSet(D) /\ Cardinality(D) = p
  <2> HIDE DEF B, p
  <2> QED BY <1>3, FS_AddElement
<1>5. D \cap R = {}
  <2>1. ASSUME NEW r \in R PROVE r \notin D
    <3>1. r \in S /\ Older(i, r)
      BY ResultBehind
    <3>2. ~Older(r, i) /\ r # i
      BY <3>1, OlderOrders
    <3> QED BY <3>2 DEF Before
  <2> QED BY <2>1
<1>6. IsFiniteSet(D \cup R) /\ Cardinality(D \cup R) = p + n
  <2>1. Cardinality({}) = 0
    BY FS_EmptySet
  <2> HIDE DEF D, R, p, n
  <2>2. /\ IsFiniteSet(D \cup R)
        /\ Cardinality(D \cup R) = Cardinality(D) + Cardinality(R) - Cardinality(D \cap R)
    BY <1>2, <1>4, FS_Union
  <2>3. Cardinality(D \cap R) = 0
    BY <1>5, <2>1, Zenon
  <2>4. Cardinality(D \cup R) = p + n - 0
    BY <1>2, <1>4, <2>2, <2>3, Zenon
  <2> QED BY <1>2, <1>3, <2>2, <2>4
<1>7. ASSUME NEW r \in R PROVE Rank(S, r) + 1 \in p + 1 .. p + n
  <2>1. /\ r \in S /\ Older(i, r)
        /\ \A j \in S : Older(j, r) => Older(j, i) \/ j = i \/ j \in R
    BY ResultBehind
  <2>2. D \subseteq Before(S, r)
    <3>1. ASSUME NEW j \in B PROVE j \in S /\ Older(j, r)
      <4>1. j \in S /\ Older(j, i)
        BY DEF Before
      <4> QED BY <2>1, <4>1, OlderOrders
    <3> QED BY <2>1, <3>1 DEF Before
  <2>3. Before(S, r) \subseteq D \cup R
    BY <2>1 DEF Before
  <2>4. r \notin Before(S, r) /\ r \in D \cup R
    BY <2>1, OlderOrders DEF Before
  <2> HIDE DEF D, R
  <2>5. /\ IsFiniteSet(Before(S, r)) /\ Cardinality(Before(S, r)) <= Cardinality(D \cup R)
        /\ Cardinality(Before(S, r)) # Cardinality(D \cup R)
    BY <1>6, <2>3, <2>4, FS_Subset
  <2>6. Cardinality(D) <= Cardinality(Before(S, r)) /\ Cardinality(Before(S, r)) \in Nat
    BY <2>2, <2>5, FS_Subset, FS_CardinalityType
  <2>7. Rank(S, r) = Cardinality(Before(S, r))
    BY DEF Rank
  <2> HIDE DEF p, n
  <2> QED BY <1>2, <1>3, <1>4, <1>6, <2>5, <2>6, <2>7
<1> DEFINE g == [r \in R |-> Rank(S, r) + 1]
<1>8. \A r, s \in R : g[r] = g[s] => r = s
  <2>1. ASSUME NEW r \in R, NEW s \in R, Rank(S, r) + 1 = Rank(S, s) + 1 PROVE r = s
    <3>1. r \in S /\ s \in S
      BY <1>1
    <3>2. Rank(S, r) \in Nat /\ Rank(S, s) \in Nat
      BY <3>1, RankIs
    <3>3. Rank(S, r) = Rank(S, s)
      BY <2>1, <3>2
    <3> QED BY <3>1, <3>3, RankIs
  <2> QED BY <2>1
<1>9. g \in Injection(R, p + 1 .. p + n)
  <2>1. g \in [R -> p + 1 .. p + n]
    <3> HIDE DEF R, p, n
    <3> QED BY <1>7
  <2> HIDE DEF g, R, p, n
  <2> QED BY <1>8, <2>1 DEF Injection, IsInjective
<1>10. IsFiniteSet(p + 1 .. p + n) /\ Cardinality(p + 1 .. p + n) = n
  <2> HIDE DEF p, n
  <2>1. /\ p + 1 \in Int /\ p + n \in Int /\ (p + 1 > p + n => n = 0)
        /\ (p + n) - (p + 1) + 1 = n
    BY <1>2, <1>3
  <2> QED BY <2>1, FS_Interval
<1>11. g \in Surjection(R, p + 1 .. p + n)
  <2> HIDE DEF g, R, p, n
  <2> QED BY <1>2, <1>9, <1>10, FS_Injection
<1>12. ASSUME NEW q \in p + 1 .. p + n PROVE \E r \in R : Rank(S, r) + 1 = q
  <2>1. PICK r \in R : g[r] = q
    <3> HIDE DEF g, R, p, n
    <3> QED BY <1>11 DEF Surjection
  <2> QED BY <2>1
<1> QED BY <1>7, <1>12

\* What convertToLlm makes of a closed history is what the providers demand.
LEMMA ClosedReplays ==
  ASSUME docs \in Seq(Record), Order, Replies, NEW S \in SUBSET Docs, Closed(S),
         NEW h, h = Convert(S)
  PROVE  /\ \A p \in DOMAIN h : h[p].kind = "assistant" => Follows(h, p)
         /\ \A p, q \in DOMAIN h : h[p].kind = "result" /\ h[p] = h[q] => p = q
<1> DEFINE N == Cardinality(S)
<1>1. N \in Nat /\ h = [n \in 1 .. N |-> Entry(Place(S, n))]
  BY ConvertIs, FinitelyMany
<1>2. ASSUME NEW n \in 1 .. N
      PROVE  Place(S, n) \in S /\ Rank(S, Place(S, n)) + 1 = n
  <2>1. Place(S, n) \in S /\ Rank(S, Place(S, n)) = n - 1
    BY RankTaken DEF Place, Rank, Before
  <2> QED BY <2>1
<1>3. ASSUME NEW i \in S
      PROVE  Rank(S, i) + 1 \in 1 .. N /\ Place(S, Rank(S, i) + 1) = i
  <2>1. Rank(S, i) \in Nat /\ Rank(S, i) < N
    BY RankIs
  <2>2. Rank(S, i) + 1 \in 1 .. N
    BY <1>1, <2>1
  <2>3. PICK n \in 1 .. N : n = Rank(S, i) + 1
    BY <2>2
  <2>4. Place(S, n) \in S /\ Rank(S, Place(S, n)) + 1 = n
    BY <1>2
  <2>5. Rank(S, Place(S, n)) \in Nat
    BY <2>4, RankIs
  <2>6. Rank(S, Place(S, n)) = Rank(S, i)
    BY <2>1, <2>3, <2>4, <2>5
  <2>7. Place(S, n) = i
    BY <2>4, <2>6, RankIs
  <2> QED BY <2>2, <2>3, <2>7
<1>4. DOMAIN h = 1 .. N /\ Len(h) = N /\ \A n \in 1 .. N : h[n] = Entry(Place(S, n))
  BY <1>1
<1>5. ASSUME NEW i \in S
      PROVE  /\ Entry(i).kind = docs[i].kind
             /\ docs[i].kind = "result" => Entry(i) = [kind |-> "result", of |-> docs[i].of]
             /\ docs[i].kind = "assistant" => Entry(i).of = <<i, docs[i].calls>>
  BY DEF Entry
<1> HIDE DEF N
<1>6. ASSUME NEW p \in DOMAIN h, h[p].kind = "assistant" PROVE Follows(h, p)
  <2> DEFINE i == Place(S, p)
             n == docs[i].calls
  <2>1. i \in S /\ Rank(S, i) + 1 = p /\ p \in 1 .. N /\ h[p] = Entry(i)
    BY <1>2, <1>4, <1>6
  <2> HIDE DEF i
  <2>2. docs[i].kind = "assistant" /\ h[p].of[1] = i /\ h[p].of[2] = n /\ n \in Nat
    BY <1>5, <1>6, <2>1, Fields
  <2>3. /\ \A r \in Results(S, i) : Rank(S, r) + 1 \in p + 1 .. p + n
        /\ \A q \in p + 1 .. p + n : \E r \in Results(S, i) : Rank(S, r) + 1 = q
    BY <2>1, <2>2, ResultPlaces
  <2>4. /\ \A r \in Results(S, i) : docs[r].of = <<i, docs[r].of[2]>> /\ docs[r].of[2] \in 1 .. n
        /\ \A k \in 1 .. n : \E r \in Results(S, i) : docs[r].of = <<i, k>>
    BY <2>1, ResultsCount
  <2> HIDE DEF n
  <2>5. ASSUME NEW r \in Results(S, i)
        PROVE  /\ Rank(S, r) + 1 \in 1 .. N
               /\ h[Rank(S, r) + 1] = [kind |-> "result", of |-> docs[r].of]
    <3>1. r \in S /\ docs[r].kind = "result"
      BY DEF Results
    <3> QED BY <1>3, <1>4, <1>5, <3>1
  <2>6. p + n <= N
    <3>1. CASE n = 0
      BY <1>1, <2>1, <3>1
    <3>2. CASE n # 0
      <4>1. p + n \in p + 1 .. p + n
        BY <2>1, <2>2, <3>2
      <4>2. p + n \in 1 .. N
        BY <2>3, <2>5, <4>1
      <4> QED BY <4>2
    <3> QED BY <3>1, <3>2
  <2>7. ASSUME NEW q \in p + 1 .. p + n
        PROVE  h[q] \in {[kind |-> "result", of |-> <<i, k>>] : k \in 1 .. n}
    <3>1. PICK r \in Results(S, i) : Rank(S, r) + 1 = q
      BY <2>3
    <3>2. h[q] = [kind |-> "result", of |-> docs[r].of]
      BY <2>5, <3>1
    <3> QED BY <2>4, <3>2
  <2>8. ASSUME NEW k \in 1 .. n
        PROVE  [kind |-> "result", of |-> <<i, k>>] \in {h[q] : q \in p + 1 .. p + n}
    <3>1. PICK r \in Results(S, i) : docs[r].of = <<i, k>>
      BY <2>4
    <3>2. PICK q \in p + 1 .. p + n : q = Rank(S, r) + 1
      BY <2>3
    <3>3. h[q] = [kind |-> "result", of |-> <<i, k>>]
      BY <2>5, <3>1, <3>2
    <3> QED BY <3>3
  <2>9. {h[q] : q \in p + 1 .. p + n} = {[kind |-> "result", of |-> <<i, k>>] : k \in 1 .. n}
    BY <2>7, <2>8
  <2> QED BY <1>4, <2>2, <2>6, <2>9 DEF Follows
<1>7. ASSUME NEW p \in DOMAIN h, NEW q \in DOMAIN h, h[p].kind = "result", h[p] = h[q]
      PROVE  p = q
  <2> DEFINE i == Place(S, p)
             j == Place(S, q)
  <2>1. /\ i \in S /\ Rank(S, i) + 1 = p /\ h[p] = Entry(i)
        /\ j \in S /\ Rank(S, j) + 1 = q /\ h[q] = Entry(j)
    BY <1>2, <1>4, <1>7
  <2> HIDE DEF i, j
  <2>2. docs[i].kind = "result" /\ docs[j].kind = "result"
    BY <1>5, <1>7, <2>1
  <2>3. docs[i].of = docs[j].of
    <3>1. /\ h[p] = [kind |-> "result", of |-> docs[i].of]
          /\ h[q] = [kind |-> "result", of |-> docs[j].of]
      BY <1>5, <2>1, <2>2
    <3>2. h[p].of = docs[i].of /\ h[q].of = docs[j].of
      BY <3>1
    <3> QED BY <1>7, <3>2
  <2>4. i = j
    BY <2>1, <2>2, <2>3 DEF Replies
  <2> QED BY <2>1, <2>4
<1> QED BY <1>6, <1>7

\* Whatever crash, limit, failed write or straggling sub-loop cut an earlier turn,
\* the history a turn starts from answers every tool call right behind it and
\* exactly once (reflection.ts, #56), for any bounds and environments.
THEOREM HistoriesReplay == Spec => []HistoryReplays
<1>1. IInv /\ Replay => HistoryReplays
  <2> SUFFICES ASSUME IInv, Replay, pc = "task",
                      NEW h, h = Convert(history)
               PROVE  /\ \A p \in DOMAIN h : h[p].kind = "assistant" => Follows(h, p)
                      /\ \A p, q \in DOMAIN h : h[p].kind = "result" /\ h[p] = h[q] => p = q
    BY DEF HistoryReplays
  <2>1. docs \in Seq(Record) /\ Order /\ Replies /\ history \in SUBSET Docs /\ Closed(history)
    BY DEF IInv, Types, Replay, Index, Loaded
  <2> QED BY <2>1, ClosedReplays
<1> QED BY <1>1, Inductive, Replayable, PTL

=============================================================================
