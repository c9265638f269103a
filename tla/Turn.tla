-------------------------------- MODULE Turn --------------------------------
(***************************************************************************)
(* The turns of one agent and its stored conversation: the wake-up that    *)
(* repairs, reflects and picks a turn number (agent-runner-turn.ts,        *)
(* reflection.ts), the loop of LLM and tool calls (loop.ts), the recovery  *)
(* from a history the provider rejects (agent-runner.ts), and the store    *)
(* with its count-then-insert append (conversation-repository.ts).         *)
(*                                                                         *)
(* The dispatcher runs one turn of an agent at a time.  Beside the turn's  *)
(* own writer there is at most one other: a Research sub-loop, which may   *)
(* outlive its tool call's timeout and the turn.  A call is named by the   *)
(* stored message that made it and its place there; a mental map is the    *)
(* set of the edits made to it.                                            *)
(***************************************************************************)
EXTENDS Integers, FiniteSets, SequencesExt

CONSTANTS
  MaxTries,          \* MAX_ATTEMPTS of an append
  MaxCalls,          \* tool calls of one answer
  MaxRuns, MaxDocs, MaxEdits, MaxNotes, MaxSubs, MaxFaults, \* bounds
  Envs               \* the environments explored: the events that may happen

Events == {"die", "mongo", "limit", "abort", "error", "reject", "reflect",
           "edit", "research"}

ASSUME TurnAssumption ==
  /\ MaxTries \in Nat \ {0} /\ MaxCalls \in Nat
  /\ MaxRuns \in Nat /\ MaxFaults \in Nat
  /\ Envs \subseteq SUBSET Events

VARIABLES
  env,
  \* MongoDB: conversationMessages, in the order of savedAt
  docs, compacted,
  \* the run
  run,      \* how many runs there have been
  pc,
  base,     \* reflectSession's lastTurnNumber
  turn,     \* state.turnNumber
  map,      \* state.mentalMapHtml
  history,  \* the stored messages the LLM is given
  put,      \* an append under way
  sub,      \* a sub-loop's append
  \* history variables and bounds
  edits,    \* edits made so far
  kept,     \* edits of a compacted session or of a turn that ended by itself
  dropped,  \* what a recovery discarded
  faults

store  == <<docs, compacted>>
ghosts == <<edits, kept, dropped>>
vars == <<env, store, run, pc, base, turn, map, history, put, sub, ghosts, faults>>

None == [none |-> TRUE]
Doc(kind, t) == [kind |-> kind, turn |-> t, seq |-> 0, calls |-> 0, of |-> <<0, 0>>,
                 snap |-> <<>>, covers |-> {}, by |-> run]
Main == {"user", "assistant", "result"}

Init ==
  /\ env \in Envs /\ docs = <<>> /\ compacted = {}
  /\ run = 0 /\ pc = "idle" /\ base = -1 /\ turn = 0 /\ map = {} /\ history = {}
  /\ put = None /\ sub = None
  /\ edits = 0 /\ kept = {} /\ dropped = {} /\ faults = 0

Fault(kind) == kind \in env /\ faults < MaxFaults /\ faults' = faults + 1
Free == put = None

-----------------------------------------------------------------------------
(* The store *)

\* Mutant: sub-loop messages are loaded too.
LoadAll == {i \in DOMAIN docs : i \notin compacted /\ docs[i].kind # "note"}

\* load: neither compacted, nor of a reflection, nor of a sub-loop.
Load == {i \in DOMAIN docs : i \notin compacted /\ docs[i].kind \notin {"note", "sub"}}

\* Mutant: the highest turn of the live history (#102).
LastLive == Max({-1} \cup {docs[i].turn : i \in Load})

\* lastTurnNumber: over every document the agent ever wrote.
LastTurn == Max({-1} \cup {docs[i].turn : i \in DOMAIN docs})

\* loadMostRecentMentalMap: the newest snapshot by savedAt.
NewestMap ==
  LET snaps == {i \in DOMAIN docs : docs[i].snap # <<>>}
  IN  IF snaps = {} THEN {} ELSE docs[Max(snaps)].snap[1]

Stored(t) == Cardinality({i \in DOMAIN docs : docs[i].turn = t})
Taken(t, n) == \E i \in DOMAIN docs : docs[i].turn = t /\ docs[i].seq = n

\* findDanglingToolCalls: calls in S without a result in S.
Calls(S) == UNION {{<<i, k>> : k \in 1 .. docs[i].calls} : i \in S}
Dangling(S) == Calls(S) \ {docs[i].of : i \in S}

Older(i, j) ==
  docs[i].turn < docs[j].turn \/ (docs[i].turn = docs[j].turn /\ docs[i].seq < docs[j].seq)

\* convertToLlm: results without a call are dropped; a call without a result
\* gets one, right behind its message.
Convert(S) ==
  LET Item(i) ==
        CASE docs[i].kind = "result" ->
               IF docs[i].of \in Calls(S) THEN <<[kind |-> "result", of |-> docs[i].of]>>
                                          ELSE <<>>
          [] docs[i].kind = "assistant" ->
               <<[kind |-> "assistant", of |-> <<i, docs[i].calls>>]>> \o
               SetToSeq({[kind |-> "result", of |-> c] :
                         c \in {c \in Dangling(S) : c[1] = i}})
          [] OTHER -> <<[kind |-> docs[i].kind, of |-> <<0, 0>>]>>
      order == [n \in 1 .. Cardinality(S) |->
                  CHOOSE i \in S : Cardinality({j \in S : Older(j, i)}) = n - 1]
  IN  FlattenSeq([n \in DOMAIN order |-> Item(order[n])])

\* A failed append or read in a reflection is caught, and the turn goes on
\* (reflectGuarded); elsewhere it ends the run.
Throw == put' = None /\ pc' = IF pc \in {"reflect", "compact"} THEN "number" ELSE "idle"

\* append of one message: its place is counted ...
Count ==
  /\ ~Free /\ put.seq < 0 /\ put' = [put EXCEPT !.seq = Stored(put.doc.turn)]
  /\ UNCHANGED <<env, store, run, pc, base, turn, map, history, sub, ghosts, faults>>

\* Mutant: a taken place is counted again without end.
InsertForever ==
  /\ ~Free /\ put.seq >= 0
  /\ IF Taken(put.doc.turn, put.seq)
       THEN put' = [put EXCEPT !.seq = -1, !.tries = @ + 1] /\ UNCHANGED <<docs, pc>>
       ELSE /\ docs' = Append(docs, [put.doc EXCEPT !.seq = put.seq])
            /\ put' = None /\ UNCHANGED pc
  /\ UNCHANGED <<env, compacted, run, base, turn, map, history, sub, ghosts, faults>>

\* ... and inserted under the unique index: a taken place is counted again, a
\* few times.
Insert ==
  /\ ~Free /\ put.seq >= 0
  /\ IF Taken(put.doc.turn, put.seq)
       THEN /\ IF put.tries + 1 < MaxTries
                 THEN put' = [put EXCEPT !.seq = -1, !.tries = @ + 1] /\ UNCHANGED pc
                 ELSE Throw
            /\ UNCHANGED docs
       ELSE /\ docs' = Append(docs, [put.doc EXCEPT !.seq = put.seq])
            /\ put' = None /\ UNCHANGED pc
  /\ UNCHANGED <<env, compacted, run, base, turn, map, history, sub, ghosts, faults>>

\* The database fails, before or after it has stored the message.
InsertFails ==
  /\ ~Free /\ put.seq >= 0 /\ ~Taken(put.doc.turn, put.seq) /\ Fault("mongo")
  /\ Throw
  /\ docs' \in {docs, Append(docs, [put.doc EXCEPT !.seq = put.seq])}
  /\ UNCHANGED <<env, compacted, run, base, turn, map, history, sub, ghosts>>

Put(doc) == put' = [doc |-> doc, seq |-> -1, tries |-> 0]
ReadFails ==
  /\ Free /\ pc \in {"load", "number", "compact", "drop", "again"} /\ Fault("mongo")
  /\ Throw
  /\ UNCHANGED <<env, store, run, base, turn, map, history, sub, ghosts>>

-----------------------------------------------------------------------------
(* The wake-up *)

Wake ==
  /\ pc = "idle" /\ run < MaxRuns /\ run' = run + 1 /\ pc' = "load"
  /\ UNCHANGED <<env, store, base, turn, map, history, put, sub, ghosts, faults>>

\* loadRepairedHistory, one stored result per dangling call, in its own turn;
\* then the newest mental map.
LoadHistory ==
  /\ Free /\ pc = "load"
  /\ IF Dangling(Load) # {}
       THEN \E c \in Dangling(Load) :
              /\ \A b \in Dangling(Load) : b[1] > c[1] \/ (b[1] = c[1] /\ b[2] >= c[2])
              /\ Put([Doc("result", docs[c[1]].turn) EXCEPT !.of = c, !.by = docs[c[1]].by])
              /\ UNCHANGED <<pc, map, history>>
       ELSE history' = Load /\ map' = NewestMap /\ pc' = "decide" /\ UNCHANGED put
  /\ UNCHANGED <<env, store, run, base, turn, sub, ghosts, faults>>

\* Never on a first wake-up; otherwise by the size of the session.
Decide ==
  /\ pc = "decide"
  /\ \/ pc' = "number" /\ UNCHANGED base
     \/ /\ "reflect" \in env /\ \E i \in history : docs[i].kind \in Main
        /\ pc' = "reflect" /\ base' = LastTurn
  /\ UNCHANGED <<env, store, run, turn, map, history, put, sub, ghosts, faults>>

Notes == {i \in DOMAIN docs : docs[i].kind = "note" /\ docs[i].by = run}

\* A message of the reflection's own loop, perhaps after an edit of the map.
Note ==
  /\ Free /\ pc = "reflect" /\ Cardinality(Notes) < MaxNotes
  /\ \/ UNCHANGED <<map, edits>>
     \/ "edit" \in env /\ edits < MaxEdits /\ edits' = edits + 1 /\ map' = map \cup {edits'}
  /\ Put(Doc("note", base + 1))
  /\ UNCHANGED <<env, store, run, pc, base, turn, history, sub, kept, dropped, faults>>

Session(S) == {i \in S : docs[i].kind \in Main} \cup UNION {docs[i].covers : i \in S}

\* Mutant: the summary does not carry the map.
SummaryWithoutMap ==
  [Doc("summary", base + 1) EXCEPT !.covers = Session(history)]

\* The summary of the session and of the summaries before it, with the map as
\* the reflection left it.
Summary ==
  [Doc("summary", base + 1) EXCEPT !.covers = Session(history), !.snap = <<map>>]

\* Mutant: a session is compacted without a summary too (RF1).
CompactsAnyway ==
  /\ Free /\ pc = "reflect" /\ Notes # {} /\ pc' = "compact"
  /\ \/ Put(Summary)
     \/ UNCHANGED put
  /\ UNCHANGED <<env, store, run, base, turn, map, history, sub, ghosts, faults>>

\* The loop has ended: its last text is the summary, stored before the session
\* is compacted; without one nothing is compacted.
Summarise ==
  /\ Free /\ pc = "reflect" /\ Notes # {}
  /\ \/ Put(Summary) /\ pc' = "compact"
     \/ pc' = "reload" /\ UNCHANGED put
  /\ UNCHANGED <<env, store, run, base, turn, map, history, sub, ghosts, faults>>

\* compact: everything below keepFrom.
CompactBelow(t) == compacted' = compacted \cup {i \in DOMAIN docs : docs[i].turn < t}

Compact ==
  /\ Free /\ pc = "compact" /\ CompactBelow(base + 1) /\ pc' = "reload"
  /\ kept' = kept \cup map
  /\ UNCHANGED <<env, docs, run, base, turn, map, history, put, sub, edits, dropped, faults>>

\* The history is loaded again; when that fails, the old one is used.
Reload ==
  /\ pc = "reload" /\ pc' = "number"
  /\ \/ history' = Load /\ UNCHANGED faults
     \/ Fault("mongo") /\ UNCHANGED history
  /\ UNCHANGED <<env, store, run, base, turn, map, put, sub, ghosts>>

PickNumber ==
  /\ Free /\ pc = "number" /\ pc' = "task" /\ turn' = LastTurn + 1
  /\ UNCHANGED <<env, store, run, base, map, history, put, sub, ghosts, faults>>

-----------------------------------------------------------------------------
(* The loop *)

Task ==
  /\ Free /\ pc = "task" /\ Put(Doc("user", turn)) /\ pc' = "call"
  /\ UNCHANGED <<env, store, run, base, turn, map, history, sub, ghosts, faults>>

Assistant(n) == [Doc("assistant", turn) EXCEPT !.calls = n, !.snap = <<map>>]
FirstCall == \A i \in DOMAIN docs : docs[i].by = run => docs[i].kind # "assistant"
Room == Len(docs) < MaxDocs

\* An LLM call is answered: with tool calls, or with none, which ends the turn.
Answer(n) ==
  /\ Free /\ pc = "call" /\ (n > 0 => Room)
  /\ Put(Assistant(n)) /\ pc' = IF n = 0 THEN "done" ELSE "tools"
  /\ UNCHANGED <<env, store, run, base, turn, map, history, sub, ghosts, faults>>

\* It fails, or is cut off with tool calls in what had arrived.
AnswerFails(n) ==
  /\ Free /\ pc = "call" /\ "error" \in env /\ (n > 0 => Room)
  /\ Put(Assistant(n)) /\ pc' = "interrupted"
  /\ UNCHANGED <<env, store, run, base, turn, map, history, sub, ghosts, faults>>

\* The first call of a turn is rejected for the structure of the history.
Reject ==
  /\ Free /\ pc = "call" /\ FirstCall /\ turn > 0 /\ Fault("reject")
  /\ Put(Assistant(0)) /\ pc' = "recover"
  /\ UNCHANGED <<env, store, run, base, turn, map, history, sub, ghosts>>

LastAnswer == Max({i \in DOMAIN docs : docs[i].kind = "assistant"})
Unanswered ==
  {k \in 1 .. docs[LastAnswer].calls : <<LastAnswer, k>> \notin {docs[i].of : i \in DOMAIN docs}}
Result == [Doc("result", turn) EXCEPT !.of = <<LastAnswer, Min(Unanswered)>>]

\* The next tool call runs to its result, or its timeout or error: it may edit
\* the map, or start a sub-loop.
Tool ==
  /\ Free /\ pc = "tools" /\ Unanswered # {} /\ Put(Result)
  /\ \/ UNCHANGED <<map, edits, sub>>
     \/ /\ "edit" \in env /\ edits < MaxEdits /\ edits' = edits + 1
        /\ map' = map \cup {edits'} /\ UNCHANGED sub
     \/ /\ "research" \in env /\ sub = None /\ UNCHANGED <<map, edits>>
        /\ sub' = [doc |-> Doc("sub", turn), seq |-> -1, tries |-> 0]
  /\ UNCHANGED <<env, store, run, pc, base, turn, history, kept, dropped, faults>>

\* interruptedToolResults: an answer that failed has its calls answered.
Interrupt ==
  /\ Free /\ pc = "interrupted"
  /\ IF Unanswered # {} THEN Put(Result) /\ UNCHANGED pc ELSE pc' = "idle" /\ UNCHANGED put
  /\ UNCHANGED <<env, store, run, base, turn, map, history, sub, ghosts, faults>>

NextCall ==
  /\ Free /\ pc = "tools" /\ Unanswered = {} /\ pc' = "call"
  /\ UNCHANGED <<env, store, run, base, turn, map, history, put, sub, ghosts, faults>>

\* A hard limit throws after an answer, before it is stored, or after a tool
\* result; the wall clock and a stop end the loop before its next call.
Cut ==
  /\ Free
  /\ \/ pc = "call" /\ env \cap {"limit", "abort"} # {}
     \/ pc = "tools" /\ "limit" \in env /\ Unanswered # 1 .. docs[LastAnswer].calls
  /\ pc' = "idle"
  /\ UNCHANGED <<env, store, run, base, turn, map, history, put, sub, ghosts, faults>>

Done ==
  /\ Free /\ pc = "done" /\ pc' = "idle" /\ kept' = kept \cup map
  /\ UNCHANGED <<env, store, run, base, turn, map, history, put, sub, edits, dropped, faults>>

\* forceCompactSession: a summary that says so, then everything below it is
\* compacted, and the turn runs once more under a new number.
Recover ==
  /\ Free /\ pc = "recover" /\ pc' = "drop" /\ Put(Doc("summary", turn + 1))
  /\ UNCHANGED <<env, store, run, base, turn, map, history, sub, ghosts, faults>>

Drop ==
  /\ Free /\ pc = "drop" /\ CompactBelow(turn + 1) /\ pc' = "again"
  /\ dropped' = dropped \cup {i \in DOMAIN docs : docs[i].turn < turn + 1}
  /\ UNCHANGED <<env, docs, run, base, turn, map, history, put, sub, edits, kept, faults>>

Again ==
  /\ Free /\ pc = "again" /\ pc' = "task" /\ history' = Load /\ turn' = LastTurn + 1
  /\ UNCHANGED <<env, store, run, base, map, put, sub, ghosts, faults>>

-----------------------------------------------------------------------------
(* A sub-loop, and the end of the process *)

SubCount ==
  /\ sub # None /\ sub.seq < 0 /\ sub' = [sub EXCEPT !.seq = Stored(sub.doc.turn)]
  /\ UNCHANGED <<env, store, run, pc, base, turn, map, history, put, ghosts, faults>>

\* Its message is stored, and another may follow; or its place is taken.
SubInsert ==
  /\ sub # None /\ sub.seq >= 0
  /\ IF Taken(sub.doc.turn, sub.seq)
       THEN /\ sub' = IF sub.tries + 1 < MaxTries
                        THEN [sub EXCEPT !.seq = -1, !.tries = @ + 1] ELSE None
            /\ UNCHANGED docs
       ELSE /\ docs' = Append(docs, [sub.doc EXCEPT !.seq = sub.seq])
            /\ \/ sub' = None
               \/ /\ Cardinality({i \in DOMAIN docs' : docs'[i].kind = "sub"}) < MaxSubs
                  /\ sub' = [sub EXCEPT !.seq = -1, !.tries = 0]
  /\ UNCHANGED <<env, compacted, run, pc, base, turn, map, history, put, ghosts, faults>>

Die ==
  /\ Fault("die") /\ pc # "idle" /\ pc' = "idle" /\ put' = None /\ sub' = None
  /\ UNCHANGED <<env, store, run, base, turn, map, history, ghosts>>

Next ==
  \/ Count \/ Insert \/ InsertFails \/ ReadFails
  \/ Wake \/ LoadHistory \/ Decide \/ Note \/ Summarise \/ Compact \/ Reload \/ PickNumber
  \/ Task \/ (\E n \in 0 .. MaxCalls : Answer(n) \/ AnswerFails(n)) \/ Reject
  \/ Tool \/ Interrupt \/ NextCall \/ Cut \/ Done \/ Recover \/ Drop \/ Again
  \/ SubCount \/ SubInsert \/ Die

Spec == Init /\ [][Next]_vars

-----------------------------------------------------------------------------
(* Properties *)

Docs == DOMAIN docs

\* Every variable holds a value of its kind, and no append is tried more often
\* than MAX_ATTEMPTS.
TypeOK ==
  /\ \A i \in Docs :
       /\ docs[i].kind \in Main \cup {"summary", "note", "sub"}
       /\ docs[i].turn \in Nat /\ docs[i].seq \in Nat /\ docs[i].calls \in 0 .. MaxCalls
       /\ docs[i].covers \subseteq 1 .. i - 1 /\ docs[i].by \in 1 .. MaxRuns
  /\ compacted \subseteq Docs /\ history \subseteq Docs /\ dropped \subseteq Docs
  /\ pc \in {"idle", "load", "decide", "reflect", "compact", "reload", "number", "task",
             "call", "tools", "interrupted", "done", "recover", "drop", "again"}
  /\ base \in Nat \cup {-1} /\ turn \in Nat /\ map \subseteq 1 .. edits /\ kept \subseteq 1 .. edits
  /\ put = None \/ put.tries \in 0 .. MaxTries - 1
  /\ sub = None \/ sub.tries \in 0 .. MaxTries - 1
  /\ env \in Envs /\ run \in 0 .. MaxRuns /\ faults \in 0 .. MaxFaults

Follows(h, p) ==
  LET n == h[p].of[2]
  IN  /\ p + n <= Len(h)
      /\ {h[q] : q \in p + 1 .. p + n} = {[kind |-> "result", of |-> <<h[p].of[1], k>>] : k \in 1 .. n}

\* Whatever crash, limit, failed write or straggling sub-loop cut an earlier
\* turn, the history a turn starts from answers every tool call right behind it
\* and exactly once, as the providers demand (reflection.ts, #56).
HistoryReplays ==
  pc = "task" =>
    LET h == Convert(history)
    IN  /\ \A p \in DOMAIN h : h[p].kind = "assistant" => Follows(h, p)
        /\ \A p, q \in DOMAIN h : h[p].kind = "result" /\ h[p] = h[q] => p = q

\* A message that load() no longer returns is told in a summary that load()
\* does return, or was discarded by the recovery: neither a crash between the
\* summary and the compaction nor a reflection without a summary loses memory.
NothingForgotten ==
  \A i \in compacted \ dropped : docs[i].kind \in Main =>
    \E s \in Docs \ compacted : i \in docs[s].covers

\* No two turns share a number, whatever was compacted and wherever a
\* reflection stopped: only a repair writes into an earlier turn (#102).
TurnsApart ==
  \A i, j \in Docs : docs[i].turn = docs[j].turn => docs[i].by = docs[j].by

\* The edits of a session that was compacted, and of a turn that ended by
\* itself, are in the map the next turn starts from.
MapKept == kept \subseteq NewestMap

=============================================================================
