-------------------------------- MODULE Undo --------------------------------
(***************************************************************************)
(* One live session under dsh-undo's host half (plugins/undo/index.ts):    *)
(* the session log, its surface, the agent that runs turns on it, and the  *)
(* two RPC handlers performUndo and performRedo.                           *)
(*                                                                         *)
(* Both handlers are synchronous between their first read and their last   *)
(* append, so one performUndo is one action.  performRedo appends several  *)
(* events, each of which the session may reject: it is RedoStart, one      *)
(* RedoAppend per step of the plan, and RedoDone or RedoFail; nothing else *)
(* runs while replay is set, as nothing else runs in the JavaScript turn.  *)
(*                                                                         *)
(* The agent loop and its surface rewrites (context refreshes, compaction) *)
(* are the harness, modelled from what pure.ts and the tests say of it.    *)
(***************************************************************************)
EXTENDS UndoLog

CONSTANTS MaxTurns,     \* real turns the agent runs
          MaxRows,      \* rows one real turn appends
          MaxUndos,     \* tombstones
          MaxReplays,   \* redo attempts
          MaxRewrites,  \* in-turn replacements of rows
          MaxCompacts,  \* compactions of the whole conversation between turns
          MaxFaults     \* appends the session rejects

ASSUME BoundsAssumption ==
  {MaxTurns, MaxRows, MaxUndos, MaxReplays, MaxRewrites, MaxCompacts, MaxFaults} \subseteq Nat

VARIABLES log,       \* the session's events
          surface,   \* its model-visible rows, as log positions
          agent,     \* "idle" or "running"
          turn,      \* the agent's last turn number
          replay,    \* the redo in progress, or NoReplay
          budget     \* what the bounds still allow

vars == <<log, surface, agent, turn, replay, budget>>

Budgets  == {"rows", "undo", "replay", "rewrite", "compact", "fault"}
NoReplay == [tomb |-> 0, turn |-> 0, at |-> 0, end |-> 0]

Init ==
  /\ log = <<>> /\ surface = <<>>
  /\ agent = "idle" /\ turn = 0
  /\ replay = NoReplay
  /\ budget = [b \in Budgets |->
                 CASE b = "rows"    -> 0
                   [] b = "undo"    -> MaxUndos
                   [] b = "replay"  -> MaxReplays
                   [] b = "rewrite" -> MaxRewrites
                   [] b = "compact" -> MaxCompacts
                   [] b = "fault"   -> MaxFaults]

Spend(b) == budget[b] > 0 /\ budget' = [budget EXCEPT ![b] = @ - 1]

AppendEvent(e) == log' = Append(log, e)

\* Mutant of AppendRow: the seq of the new node is taken after the append.
AppendRowAfter(e) == AppendEvent(e) /\ surface' = Append(surface, Len(log) + 2)

\* Append an event that is also a new surface tail.
AppendRow(e) == AppendEvent(e) /\ surface' = Append(surface, Len(log) + 1)

\* Append an event that replaces the surface positions lo..hi.
AppendReplacement(e, lo, hi) ==
  AppendEvent(e) /\ surface' = Splice(surface, lo, hi, Len(log) + 1)

Cited(lo, hi) == SubSeq(surface, lo, hi)

HeadIsSystem == surface # <<>> /\ log[surface[1]].type = "system/message"

-----------------------------------------------------------------------------
(* The harness: the agent runs turns.                                      *)

TurnStart ==
  /\ replay = NoReplay /\ agent = "idle" /\ turn < MaxTurns
  /\ turn' = turn + 1 /\ agent' = "running"
  /\ AppendEvent(Boundary("turn/start", turn + 1))
  /\ budget' = [budget EXCEPT !["rows"] = MaxRows]
  /\ UNCHANGED <<surface, replay>>

\* The system prompt is a row of the first turn, at the head of the surface.
SystemPrompt ==
  /\ replay = NoReplay /\ agent = "running" /\ surface = <<>>
  /\ AppendRow(Row("system/message", turn, 0, Len(log) + 1))
  /\ UNCHANGED <<agent, turn, replay, budget>>

StepOf(type) ==
  IF type = "assistant/message"
  THEN MaxRows - budget["rows"] ELSE 0

TurnRow(type) ==
  /\ replay = NoReplay /\ agent = "running"
  /\ Spend("rows")
  /\ AppendRow(Row(type, IF type = "user/message" THEN 0 ELSE turn,
                   StepOf(type), Len(log) + 1))
  /\ UNCHANGED <<agent, turn, replay>>

\* A replacement of rows during a turn, older ones or the turn's own: a context
\* refresh (user/message), a tool-result rewrite, or an in-turn compaction.
RewriteRows(type, lo, hi) ==
  /\ replay = NoReplay /\ agent = "running"
  /\ lo <= hi /\ (HeadIsSystem => lo > 1)
  /\ type = "tool/result" => lo = hi /\ log[surface[lo]].type = type
  /\ Spend("rewrite")
  /\ AppendReplacement(
       Rewrite(type, IF type = "tool/result" THEN log[surface[lo]].turn ELSE 0,
               Len(log) + 1, Cited(lo, hi)), lo, hi)
  /\ UNCHANGED <<agent, turn, replay>>

\* A turn opens with an input, so it has at least one row.
TurnEnd ==
  /\ replay = NoReplay /\ agent = "running"
  /\ budget["rows"] < MaxRows
  /\ agent' = "idle"
  /\ AppendEvent(Boundary("turn/end", turn))
  /\ budget' = [budget EXCEPT !["rows"] = 0]
  /\ UNCHANGED <<surface, turn, replay>>

\* /compact between turns: one checkpoint row replaces everything after the head.
Compact ==
  /\ replay = NoReplay /\ agent = "idle"
  /\ LET lo == IF HeadIsSystem THEN 2 ELSE 1 IN
       /\ lo <= Len(surface)
       /\ AppendReplacement(
            Rewrite("user/message", 0, Len(log) + 1, Cited(lo, Len(surface))),
            lo, Len(surface))
  /\ Spend("compact")
  /\ UNCHANGED <<agent, turn, replay>>

-----------------------------------------------------------------------------
(* dsh-undo: performUndo.                                                  *)

alreadyUndone(t) ==
  /\ surface # <<>>
  /\ LET tail == log[surface[Len(surface)]]
     IN  isUndoTombstone(tail) /\ tail.turn = t

\* Mutant of TurnSeqs: the head row is not protected.
TurnSeqsWithHead(range) == shadowedTurnNodes(surface, range)

\* The rows of the turn an undo may claim: the head row is not one of them
\* while it holds the system prompt.
TurnSeqs(range) ==
  shadowedTurnNodes(surface, range) \ {surface[p] : p \in IF HeadIsSystem THEN {1} ELSE {}}

\* <<range, run>> of an undo of message m that the host accepts.
UndoTarget(m) ==
  LET t == log[m].turn IN
  IF \/ agent = "running"
     \/ alreadyUndone(t)
     \/ ~isSurfaceTailTurn(log, surface, t)
  THEN {}
  ELSE UNION {{<<range, run>> : run \in trailingTurnRun(surface, TurnSeqs(range))} :
                range \in turnLogRange(log, t)}

Undoable(m) == UndoTarget(m) # {}

\* Mutant of Shadowed: the tombstone cites every surface row of the turn, the
\* ones a replacement put outside the trailing run too.
ShadowedTurn(target) == SelectSeq(surface, LAMBDA i : i \in TurnSeqs(target[1]))

\* The rows the tombstone cites: those of the trailing run.
Shadowed(target) == Cited(target[2][1], target[2][2])

performUndo(m) ==
  /\ replay = NoReplay
  /\ Spend("undo")
  /\ \E target \in UndoTarget(m) : \E step \in lastStepOfTurn(log, target[1]) :
       AppendReplacement(
         buildTombstoneAppend(log[m].turn, step, Shadowed(target)),
         target[2][1], target[2][2])
  /\ UNCHANGED <<agent, turn, replay>>

-----------------------------------------------------------------------------
(* dsh-undo: performRedo.                                                  *)

\* The tombstones a redo accepts: the last of the log, if it is the surface tail.
RedoTarget ==
  IF agent = "running" THEN {}
  ELSE {i \in findLastUndoTombstone(log) : isSurfaceTail(surface, i)}

\* buildRedoAppendPlan throws, before any append, when the range is not closed.
RedoStart ==
  /\ replay = NoReplay
  /\ Spend("replay")
  /\ \E i \in RedoTarget : \E range \in turnLogRange(log, log[i].turn) :
       replay' = [tomb |-> i, turn |-> FakeBase + log[i].turn,
                  at |-> range[1], end |-> range[2]]
  /\ UNCHANGED <<log, surface, agent, turn>>

\* The next event of the range that has a replay role.
NextStep ==
  {i \in replay.at..replay.end :
     hasReplayRole(log[i]) /\ \A j \in replay.at..(i - 1) : ~hasReplayRole(log[j])}

RedoAppend ==
  /\ replay # NoReplay
  /\ \E i \in NextStep :
       LET copy == replayCopy(log[i], replay.turn) IN
         /\ IF copy.type \in MessageTypes
            THEN AppendRow(copy)
            ELSE AppendEvent(copy) /\ UNCHANGED surface
         /\ replay' = [replay EXCEPT !.at = i + 1]
  /\ UNCHANGED <<agent, turn, budget>>

RedoDone ==
  /\ replay # NoReplay /\ NextStep = {}
  /\ replay' = NoReplay
  /\ UNCHANGED <<log, surface, agent, turn, budget>>

\* Mutant of RedoFail: the fake turn stays open.
RedoFailUnclosed ==
  /\ replay # NoReplay /\ NextStep # {}
  /\ Spend("fault")
  /\ replay' = NoReplay
  /\ UNCHANGED <<log, surface, agent, turn>>

\* The session rejects a step: the handler closes the fake turn.
RedoFail ==
  /\ replay # NoReplay /\ NextStep # {}
  /\ Spend("fault")
  /\ AppendEvent(Boundary("turn/end", replay.turn))
  /\ replay' = NoReplay
  /\ UNCHANGED <<surface, agent, turn>>

\* ... and the session rejects that append as well.
RedoFailOpen ==
  /\ replay # NoReplay /\ NextStep # {}
  /\ budget["fault"] > 1
  /\ budget' = [budget EXCEPT !["fault"] = @ - 2]
  /\ replay' = NoReplay
  /\ UNCHANGED <<log, surface, agent, turn>>

-----------------------------------------------------------------------------
Harness ==
  \/ TurnStart \/ SystemPrompt \/ TurnEnd \/ Compact
  \/ \E type \in MessageTypes : TurnRow(type)
  \/ \E type \in {"user/message", "tool/result"}, lo, hi \in DOMAIN surface :
       RewriteRows(type, lo, hi)

Handlers ==
  \/ \E m \in findAssistantMessages(log) : performUndo(m)
  \/ RedoStart \/ RedoAppend \/ RedoDone \/ RedoFail \/ RedoFailOpen

Next == Harness \/ Handlers

Spec == Init /\ [][Next]_vars
-----------------------------------------------------------------------------
(* Properties.                                                             *)

TypeOK ==
  /\ log \in Seq(Event)
  /\ surface \in Seq(DOMAIN log)
  /\ agent \in {"idle", "running"}
  /\ turn \in Nat
  /\ replay \in [tomb: Nat, turn: Nat, at: Nat, end: Nat]
  /\ budget \in [Budgets -> Nat]

\* Bodies the model sees: the surface without its empty rows.
SurfaceBodies == {log[surface[p]].body : p \in DOMAIN surface} \ {0}

\* A row that an undo or a rewrite took off the surface never comes back to
\* it: redo restores copies, so the tombstone's citation stays true.
CitedStaysOff ==
  \A i \in DOMAIN log : \A k \in DOMAIN log[i].cites :
    \A p \in DOMAIN surface : surface[p] # log[i].cites[k]

\* No row is taken off twice: two tombstones never shadow the same row.
CitedOnce ==
  \A i, j \in DOMAIN log : \A k \in DOMAIN log[i].cites, n \in DOMAIN log[j].cites :
    log[i].cites[k] = log[j].cites[n] => i = j /\ k = n

\* What is taken off the surface is off it once and for good.
CitedForGood == CitedStaysOff /\ CitedOnce

\* The model never sees the same content twice: a redo copies a turn only
\* while the turn's own rows are off the surface.
NoContentTwice ==
  \A p, q \in DOMAIN surface :
    (log[surface[p]].body = log[surface[q]].body /\ log[surface[p]].body # 0) => p = q

\* Whenever no turn and no replay is in progress, the last turn/start of the
\* log is followed by its turn/end, so the client's idle fold is not pinned:
\* a redo that fails half way closes its fake turn.  (Unless that append is
\* rejected as well, a second fault.)
LastTurnClosed ==
  (agent = "idle" /\ replay = NoReplay /\ MaxFaults - budget["fault"] < 2) =>
    \A i \in DOMAIN log :
      (log[i].type = "turn/start" /\ \A j \in (i + 1)..Len(log) : log[j].type # "turn/start")
        => \E j \in (i + 1)..Len(log) : log[j] = Boundary("turn/end", log[i].turn)

\* The tail message is always undoable: when the session is idle and the last
\* row the model sees is a finalized assistant message, undoing it is accepted.
\* This is what makes a cascade and an undo of a redone turn work.
TailUndoable ==
  (agent = "idle" /\ replay = NoReplay) =>
    \A p \in DOMAIN surface :
      (/\ surface[p] \in findAssistantMessages(log)
       /\ \A q \in (p + 1)..Len(surface) : isUndoTombstone(log[surface[q]]))
        => Undoable(surface[p])

\* The system prompt at the head of the surface survives every undo.
HeadSurvives ==
  [][HeadIsSystem => surface'[1] = surface[1]]_vars

\* A redo that completes restores what its undo removed: the rows behind the
\* tombstone carry the bodies of the rows it cites, in their order.  (Not so
\* when a rewrite made during the turn ended up in its trailing run: the
\* tombstone cites it and redo, which skips replacements, leaves it out.)
RestoredBy(i) ==
  LET at == CHOOSE p \in DOMAIN surface : surface[p] = i
      cites == log[i].cites
  IN  /\ Len(surface) - at = Len(cites)
      /\ \A k \in DOMAIN cites : log[surface[at + k]].body = log[cites[k]].body

RedoRestores ==
  [][(replay # NoReplay /\ NextStep = {} /\ replay' = NoReplay)
       => \/ \E k \in DOMAIN log[replay.tomb].cites :
               log[log[replay.tomb].cites[k]].op = "replace"
          \/ RestoredBy(replay.tomb)]_vars

=============================================================================
