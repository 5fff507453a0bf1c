----------------------------- MODULE UndoProofs -----------------------------
(***************************************************************************)
(* Proofs about Undo and, in the second half, about UndoClient over it,    *)
(* for every number of turns, rows, undos, redos, rewrites, faults and     *)
(* clicks, and every fake-turn offset.                                     *)
(*                                                                         *)
(* TypeCorrect is the type invariant.  CitationsHold says that rows leave  *)
(* the surface once and for good.  Its inductive invariant adds that the   *)
(* surface holds no row twice and that citations point at logged rows;     *)
(* every step of the module is one of four moves on log and surface        *)
(* (nothing, an event, an event that is a new tail row, an event that      *)
(* replaces a run of rows by itself), so each of the two is proved once    *)
(* for the four moves and carried to the actions.                          *)
(*                                                                         *)
(* TurnsAreClosed needs the shape of the whole log (TurnsInv): while at    *)
(* most one append was rejected, every turn/start is followed by its own   *)
(* turn/end, except the one that runs or is being replayed.                *)
(*                                                                         *)
(* NothingIsSeenTwice is the result the module is for, and no short        *)
(* invariant gives it.  RowsInv: a row that was appended has only younger  *)
(* rows behind it.  TurnOrder: a range of turnLogRange never closes over   *)
(* another turn, even when a redo was left open by two rejected appends,   *)
(* because the fake turn it left open is spent (the tail is past its       *)
(* turn, so no undo offers it again) or settled.  ContentInv: of the rows  *)
(* with one body the surface holds the youngest, no turn appends a body    *)
(* twice, and, the part a redo relies on, the content of an undone turn    *)
(* is off the surface while its tombstone is the tail.  That last part     *)
(* needs TailRun: behind an appended row of the tail's turn only rows of   *)
(* that turn come, so an undo whose run of rows ends at the tail leaves    *)
(* none of the turn's rows before the run.                                 *)
(*                                                                         *)
(* RedoIsFaithful follows one tombstone from its undo to the end of its    *)
(* redo.  TailRestores: while it is the tail, and cites no rewrite, its    *)
(* citations are exactly what the range of its turn has to copy, in        *)
(* order.  RedoRows: in the middle of a redo the rows behind the tombstone *)
(* are the copies of the part of the range that was read.  Both need       *)
(* PresentInv: while a turn runs or is replayed, what it appended is on    *)
(* the surface, or a rewrite the turn made took its place with rows of     *)
(* the turn alone behind it, and no tombstone lies inside a range.         *)
(*                                                                         *)
(* ClientIsUndo: every behaviour of the composition is one of the host.    *)
(* What of Undo only holds while the session rejects no append (NoFault),  *)
(* rewrites nothing (NoRewrite) or compacts nothing (NoCompact) is proved  *)
(* beside it.                                                              *)
(* RedoIsThere rests on FillInv: without a rejected append every turn has  *)
(* a row to copy, so a tombstone that is still the tail after a redo is    *)
(* impossible.  TailIsUndoable rests on OnceInv: no turn number is started *)
(* twice, so a message lies in the range the undo finds.  With a rejected  *)
(* append both fail: the retry starts the same fake turn again.            *)
(* TranscriptShowsContext needs no such hypothesis: KeyInv says that the   *)
(* keys of assistant rows are distinct, Accounted that a message row is on *)
(* the surface or cited by a tombstone.  UndoIsHonest adds to OnceInv that *)
(* the last turn, unless it is undone, has its answers on the surface or a *)
(* rewrite in their place (LastRows), and that every row is behind some    *)
(* turn/start (RowsInTurn).                                                *)
(***************************************************************************)
EXTENDS UndoClient, WellFoundedInduction, TLAPS

\* The replay in progress reads only events that are in the log, and the rows
\* left to a turn do not exceed its allowance.
ReplayInLog ==
  replay # NoReplay => replay.at \in Nat \ {0} /\ replay.end \in DOMAIN log

TypeInv == TypeOK /\ ReplayInLog /\ budget["rows"] <= MaxRows

-----------------------------------------------------------------------------
(* Operators.                                                              *)

\* A replacement yields a sequence: the kept rows and the new one.
LEMMA SpliceProperties ==
  ASSUME NEW S, NEW T, S \subseteq T, NEW nodes \in Seq(S), NEW i \in T,
         NEW lo \in 1..Len(nodes), NEW hi \in 1..Len(nodes), lo <= hi
  PROVE  /\ Splice(nodes, lo, hi, i) \in Seq(T)
         /\ Len(Splice(nodes, lo, hi, i)) = Len(nodes) - (hi - lo)
         /\ \A p \in 1..(Len(nodes) - (hi - lo)) :
              Splice(nodes, lo, hi, i)[p] =
                IF p < lo THEN nodes[p] ELSE IF p = lo THEN i ELSE nodes[p + (hi - lo)]
<1> DEFINE n == Len(nodes) - (hi - lo)
<1> DEFINE f == Splice(nodes, lo, hi, i)
<1>1. n \in Nat
  OBVIOUS
<1>2. \A p \in 1..n : f[p] \in T
  BY DEF Splice
<1>3. f = [p \in 1..n |-> f[p]]
  BY DEF Splice
<1>4. f \in Seq(T)
  BY <1>1, <1>2, <1>3
<1>5. Len(f) = n
  BY <1>1, <1>4 DEF Splice
<1>6. QED
  BY <1>4, <1>5 DEF Splice

LEMMA SubSeqProperties ==
  ASSUME NEW nodes \in Seq(Nat),
         NEW lo \in 1..Len(nodes), NEW hi \in 1..Len(nodes), lo <= hi
  PROVE  /\ SubSeq(nodes, lo, hi) \in Seq(Nat)
         /\ DOMAIN SubSeq(nodes, lo, hi) = 1..(hi - lo + 1)
         /\ \A k \in 1..(hi - lo + 1) : SubSeq(nodes, lo, hi)[k] = nodes[lo + k - 1]
OBVIOUS

Plain == {e \in Event : e.cites = <<>>}

\* Every event the session builds is an event of the log; only rewrites and
\* tombstones cite anything.
LEMMA BoundaryPlain ==
  ASSUME NEW type \in BoundaryTypes, NEW t \in Nat
  PROVE  Boundary(type, t) \in Plain
<1>1. <<>> \in Seq(Nat)
  OBVIOUS
<1>2. QED
  BY <1>1 DEF Plain, Boundary, Event, EventTypes

LEMMA RowPlain ==
  ASSUME NEW type \in EventTypes, NEW t \in Nat, NEW step \in Nat, NEW b \in Nat
  PROVE  Row(type, t, step, b) \in Plain
<1>1. <<>> \in Seq(Nat)
  OBVIOUS
<1>2. QED
  BY <1>1 DEF Plain, Row, Event

LEMMA RewriteCites ==
  ASSUME NEW type \in EventTypes, NEW t \in Nat, NEW b \in Nat, NEW c \in Seq(Nat)
  PROVE  Rewrite(type, t, b, c) \in Event /\ Rewrite(type, t, b, c).cites = c
BY DEF Rewrite, Event

LEMMA TombstoneCites ==
  ASSUME NEW t \in Nat, NEW step \in Nat, NEW c \in Seq(Nat)
  PROVE  /\ buildTombstoneAppend(t, step, c) \in Event
         /\ buildTombstoneAppend(t, step, c).cites = c
BY DEF buildTombstoneAppend, Event, EventTypes

LEMMA CopyPlain ==
  ASSUME NEW e \in Event, NEW t \in Nat
  PROVE  replayCopy(e, t) \in Plain
<1>1. <<>> \in Seq(Nat)
  OBVIOUS
<1>2. replayCopy(e, t) \in Event
  BY <1>1 DEF replayCopy, Event
<1>3. replayCopy(e, t).cites = <<>>
  BY DEF replayCopy, Event
<1>4. QED
  BY <1>2, <1>3 DEF Plain

-----------------------------------------------------------------------------
(* The four moves.                                                         *)

LogTyped == log \in Seq(Event) /\ surface \in Seq(DOMAIN log)

Replacement(lo, hi) ==
  /\ lo <= hi /\ (HeadIsSystem => lo > 1)
  /\ \E e \in Event : e.cites = Cited(lo, hi) /\ AppendReplacement(e, lo, hi)

\* The rows a replacement cites are the ones it takes off the surface.
LEMMA CitedProperties ==
  ASSUME LogTyped, NEW lo \in DOMAIN surface, NEW hi \in DOMAIN surface, lo <= hi
  PROVE  /\ Cited(lo, hi) \in Seq(Nat)
         /\ DOMAIN Cited(lo, hi) = 1..(hi - lo + 1)
         /\ \A k \in 1..(hi - lo + 1) : Cited(lo, hi)[k] = surface[lo + k - 1]
<1>1. surface \in Seq(Nat) /\ lo \in 1..Len(surface) /\ hi \in 1..Len(surface)
  BY DEF LogTyped
<1>2. QED
  BY <1>1, SubSeqProperties DEF Cited

Move ==
  \/ UNCHANGED <<log, surface>>
  \/ \E e \in Plain : AppendEvent(e) /\ UNCHANGED surface
  \/ \E e \in Plain : AppendRow(e)
  \/ \E lo, hi \in DOMAIN surface : Replacement(lo, hi)

\* An undo the host accepts replaces a run of surface rows behind the head.
LEMMA UndoTargetProperties ==
  ASSUME LogTyped, NEW m \in DOMAIN log, NEW target \in UndoTarget(m)
  PROVE  /\ target[1] \in turnLogRange(log, log[m].turn)
         /\ target[2][1] \in DOMAIN surface /\ target[2][2] \in DOMAIN surface
         /\ target[2][1] <= target[2][2]
         /\ HeadIsSystem => target[2][1] > 1
<1>1. PICK range \in turnLogRange(log, log[m].turn) :
        target \in {<<range, run>> : run \in trailingTurnRun(surface, TurnSeqs(range))}
  BY DEF UndoTarget
<1>2. PICK run \in trailingTurnRun(surface, TurnSeqs(range)) : target = <<range, run>>
  BY <1>1
<1>3. run \in (DOMAIN surface) \X (DOMAIN surface)
      /\ run[1] <= run[2] /\ \A p \in run[1]..run[2] : surface[p] \in TurnSeqs(range)
  BY <1>2 DEF trailingTurnRun
<1>4. HeadIsSystem => run[1] > 1
  <2>1. DOMAIN surface = 1..Len(surface) /\ Len(surface) \in Nat
    BY DEF LogTyped
  <2>2. run[1] \in 1..Len(surface) /\ run[1] \in run[1]..run[2]
    BY <1>3, <2>1
  <2>3. surface[run[1]] \in TurnSeqs(range)
    BY <1>3, <2>2
  <2>4. HeadIsSystem => surface[run[1]] # surface[1]
    BY <2>3 DEF TurnSeqs
  <2>5. QED
    BY <2>2, <2>4
<1>5. QED
  BY <1>2, <1>3, <1>4

\* Every step of the session is one of the four moves.
LEMMA StepIsMove ==
  ASSUME TypeInv, [Next]_vars
  PROVE  Move
<1> USE DEF TypeInv, TypeOK
<1>0. turn \in Nat /\ Len(log) \in Nat /\ DOMAIN log = 1..Len(log) /\ LogTyped
  BY DEF LogTyped
<1>a. \A i \in DOMAIN log : log[i] \in Event /\ log[i].turn \in Nat /\ log[i].step \in Nat
  <2>1. \A i \in DOMAIN log : log[i] \in Event
    OBVIOUS
  <2>2. \A e \in Event : e.turn \in Nat /\ e.step \in Nat
    BY DEF Event
  <2>3. QED
    BY <2>1, <2>2
<1>b. surface \in Seq(Nat) /\ \A p \in DOMAIN surface : surface[p] \in DOMAIN log
  BY <1>0
<1>1. CASE TurnStart
  <2>1. Boundary("turn/start", turn + 1) \in Plain
    BY <1>0, BoundaryPlain DEF BoundaryTypes
  <2>2. QED
    BY <1>1, <2>1 DEF TurnStart, Move
<1>2. CASE SystemPrompt
  <2>1. Row("system/message", turn, 0, Len(log) + 1) \in Plain
    <3>1. "system/message" \in EventTypes /\ Len(log) + 1 \in Nat
      BY <1>0 DEF EventTypes
    <3>2. QED
      BY <1>0, <3>1, RowPlain
  <2>2. QED
    BY <1>2, <2>1 DEF SystemPrompt, Move
<1>3. ASSUME NEW type \in MessageTypes, TurnRow(type) PROVE Move
  <2>1. budget["rows"] \in Nat /\ budget["rows"] <= MaxRows /\ MaxRows \in Nat
    BY BoundsAssumption DEF Budgets
  <2>2. StepOf(type) \in Nat
    BY <2>1 DEF StepOf
  <2>3. Row(type, IF type = "user/message" THEN 0 ELSE turn, StepOf(type), Len(log) + 1)
          \in Plain
    BY <1>0, <2>2, RowPlain DEF EventTypes
  <2>4. QED
    BY <1>3, <2>3 DEF TurnRow, Move
<1>4. ASSUME NEW type \in {"user/message", "tool/result"},
             NEW lo \in DOMAIN surface, NEW hi \in DOMAIN surface,
             RewriteRows(type, lo, hi)
      PROVE  Move
  <2>1. lo <= hi /\ (HeadIsSystem => lo > 1)
    BY <1>4 DEF RewriteRows
  <2> DEFINE t == IF type = "tool/result" THEN log[surface[lo]].turn ELSE 0
  <2> DEFINE e == Rewrite(type, t, Len(log) + 1, Cited(lo, hi))
  <2>3. t \in Nat
    BY <1>a, <1>b
  <2>4. Cited(lo, hi) \in Seq(Nat)
    BY <1>0, <2>1, CitedProperties
  <2>5. e \in Event /\ e.cites = Cited(lo, hi)
    <3>1. type \in EventTypes /\ Len(log) + 1 \in Nat
      BY <1>0 DEF EventTypes, MessageTypes
    <3> HIDE DEF t
    <3>2. QED
      BY <2>3, <2>4, <3>1, RewriteCites
  <2>6. AppendReplacement(e, lo, hi)
    BY <1>4 DEF RewriteRows
  <2>7. QED
    BY <2>1, <2>5, <2>6 DEF Move, Replacement
<1>5. CASE TurnEnd
  <2>1. Boundary("turn/end", turn) \in Plain
    BY <1>0, BoundaryPlain DEF BoundaryTypes
  <2>2. QED
    BY <1>5, <2>1 DEF TurnEnd, Move
<1>6. CASE Compact
  <2> DEFINE lo == IF HeadIsSystem THEN 2 ELSE 1
  <2> DEFINE hi == Len(surface)
  <2> DEFINE e == Rewrite("user/message", 0, Len(log) + 1, Cited(lo, hi))
  <2>1. lo <= hi /\ AppendReplacement(e, lo, hi)
    BY <1>6 DEF Compact
  <2>2. lo \in DOMAIN surface /\ hi \in DOMAIN surface /\ (HeadIsSystem => lo > 1)
    BY <2>1
  <2>3. Cited(lo, hi) \in Seq(Nat)
    BY <1>0, <2>1, <2>2, CitedProperties
  <2>4. e \in Event /\ e.cites = Cited(lo, hi)
    BY <1>0, <2>3, RewriteCites DEF EventTypes, MessageTypes
  <2>5. QED
    BY <2>1, <2>2, <2>4 DEF Move, Replacement
<1>7. ASSUME NEW m \in findAssistantMessages(log), performUndo(m) PROVE Move
  <2>1. m \in DOMAIN log
    BY DEF findAssistantMessages
  <2>a. PICK target \in UndoTarget(m) : \E step \in lastStepOfTurn(log, target[1]) :
          AppendReplacement(
            buildTombstoneAppend(log[m].turn, step, Shadowed(target)),
            target[2][1], target[2][2])
    BY <1>7 DEF performUndo
  <2>2. PICK step \in lastStepOfTurn(log, target[1]) :
          AppendReplacement(
            buildTombstoneAppend(log[m].turn, step, Shadowed(target)),
            target[2][1], target[2][2])
    BY <2>a
  <2> DEFINE lo == target[2][1]
  <2> DEFINE hi == target[2][2]
  <2> DEFINE e == buildTombstoneAppend(log[m].turn, step, Cited(lo, hi))
  <2>3. lo \in DOMAIN surface /\ hi \in DOMAIN surface /\ lo <= hi /\ (HeadIsSystem => lo > 1)
        /\ target[1] \in turnLogRange(log, log[m].turn)
    BY <1>0, <2>1, UndoTargetProperties
  <2>b. target[1][1] \in DOMAIN log /\ target[1][2] \in DOMAIN log
    BY <2>3 DEF turnLogRange, Starts, Ends
  <2>4. \A i \in target[1][1]..target[1][2] : i \in DOMAIN log
    <3> HIDE DEF TypeInv, TypeOK
    <3>1. QED
      BY <1>0, <2>b
  <2>5. step \in Nat
    BY <1>a, <2>2, <2>4 DEF lastStepOfTurn
  <2>6. log[m].turn \in Nat
    BY <1>a, <2>1
  <2>7. Cited(lo, hi) \in Seq(Nat)
    BY <1>0, <2>3, CitedProperties
  <2>8. e \in Event /\ e.cites = Cited(lo, hi)
    BY <2>5, <2>6, <2>7, TombstoneCites
  <2>9. QED
    BY <2>2, <2>3, <2>8 DEF Move, Replacement, Shadowed
<1>8. CASE RedoAppend
  <2>1. PICK i \in NextStep :
          LET copy == replayCopy(log[i], replay.turn)
          IN  IF copy.type \in MessageTypes
              THEN AppendRow(copy)
              ELSE AppendEvent(copy) /\ UNCHANGED surface
    BY <1>8 DEF RedoAppend
  <2>2. i \in DOMAIN log
    BY <1>0, <1>8, <2>1 DEF NextStep, ReplayInLog, RedoAppend
  <2>3. log[i] \in Event /\ replay.turn \in Nat
    BY <1>a, <2>2
  <2>4. replayCopy(log[i], replay.turn) \in Plain
    BY <2>3, CopyPlain
  <2>5. QED
    BY <2>1, <2>4 DEF Move
<1>9. CASE RedoFail
  <2>1. Boundary("turn/end", replay.turn) \in Plain
    BY BoundaryPlain DEF BoundaryTypes
  <2>2. QED
    BY <1>9, <2>1 DEF RedoFail, Move
<1>10. CASE RedoStart \/ RedoDone \/ RedoFailOpen \/ UNCHANGED vars
  BY <1>10 DEF RedoStart, RedoDone, RedoFailOpen, vars, Move
<1>11. QED
  BY <1>1, <1>2, <1>3, <1>4, <1>5, <1>6, <1>7, <1>8, <1>9, <1>10
  DEF Next, Harness, Handlers

-----------------------------------------------------------------------------
(* Type correctness.                                                       *)

\* Each move keeps the log a log and the surface a sequence of log positions.
LEMMA MoveTyped ==
  ASSUME LogTyped, Move
  PROVE  LogTyped'
<1> USE DEF LogTyped
<1>1. CASE UNCHANGED <<log, surface>>
  BY <1>1
<1>2. ASSUME NEW e \in Event, AppendEvent(e)
      PROVE  /\ log' \in Seq(Event) /\ Len(log') = Len(log) + 1
             /\ DOMAIN log' = 1..(Len(log) + 1) /\ DOMAIN log \subseteq DOMAIN log'
  BY <1>2 DEF AppendEvent
<1>3. ASSUME NEW e \in Plain, AppendEvent(e), UNCHANGED surface PROVE LogTyped'
  <2>1. e \in Event
    BY DEF Plain
  <2>2. QED
    BY <1>2, <1>3, <2>1
<1>4. ASSUME NEW e \in Plain, AppendRow(e) PROVE LogTyped'
  <2>1. e \in Event /\ AppendEvent(e)
    BY <1>4 DEF Plain, AppendRow
  <2>2. surface \in Seq(DOMAIN log') /\ Len(log) + 1 \in DOMAIN log'
    BY <1>2, <2>1
  <2>3. QED
    BY <1>2, <1>4, <2>1, <2>2 DEF AppendRow
<1>5. ASSUME NEW lo \in DOMAIN surface, NEW hi \in DOMAIN surface, Replacement(lo, hi)
      PROVE  LogTyped'
  <2>1. PICK e \in Event : AppendReplacement(e, lo, hi)
    BY <1>5 DEF Replacement
  <2>2. lo <= hi /\ lo \in 1..Len(surface) /\ hi \in 1..Len(surface)
    BY <1>5 DEF Replacement
  <2>3. AppendEvent(e) /\ surface' = Splice(surface, lo, hi, Len(log) + 1)
    BY <2>1 DEF AppendReplacement
  <2>4. DOMAIN log \subseteq DOMAIN log' /\ Len(log) + 1 \in DOMAIN log'
    BY <1>2, <2>3
  <2>5. surface' \in Seq(DOMAIN log')
    BY <2>2, <2>3, <2>4, SpliceProperties
  <2>6. QED
    BY <1>2, <2>3, <2>5
<1>6. QED
  BY <1>1, <1>3, <1>4, <1>5 DEF Move

\* The rest of the state, action by action.
LEMMA RestTyped ==
  ASSUME TypeInv, [Next]_vars
  PROVE  /\ agent' \in {"idle", "running"}
         /\ turn' \in Nat
         /\ replay' \in [tomb: Nat, turn: Nat, at: Nat, end: Nat]
         /\ budget' \in [Budgets -> Nat]
         /\ budget'["rows"] <= MaxRows
<1> USE DEF TypeInv, TypeOK
<1>0. MaxRows \in Nat /\ FakeBase \in Nat /\ "rows" \in Budgets
  BY BoundsAssumption, FakeBaseAssumption DEF Budgets
<1>1. ASSUME NEW b \in Budgets, Spend(b)
      PROVE  budget' \in [Budgets -> Nat] /\ budget'["rows"] <= MaxRows
  BY <1>0, <1>1 DEF Spend
<1>2. CASE TurnStart
  BY <1>0, <1>2 DEF TurnStart
<1>3. CASE SystemPrompt
  BY <1>3 DEF SystemPrompt
<1>4. ASSUME NEW type \in MessageTypes, TurnRow(type)
      PROVE  budget' \in [Budgets -> Nat] /\ budget'["rows"] <= MaxRows
             /\ UNCHANGED <<agent, turn, replay>>
  BY <1>0, <1>1, <1>4 DEF TurnRow
<1>5. ASSUME NEW type, NEW lo, NEW hi, RewriteRows(type, lo, hi)
      PROVE  budget' \in [Budgets -> Nat] /\ budget'["rows"] <= MaxRows
             /\ UNCHANGED <<agent, turn, replay>>
  BY <1>1, <1>5 DEF RewriteRows, Budgets
<1>6. CASE TurnEnd
  BY <1>0, <1>6 DEF TurnEnd
<1>7. CASE Compact
  BY <1>1, <1>7 DEF Compact, Budgets
<1>8. ASSUME NEW m, performUndo(m)
      PROVE  budget' \in [Budgets -> Nat] /\ budget'["rows"] <= MaxRows
             /\ UNCHANGED <<agent, turn, replay>>
  BY <1>1, <1>8 DEF performUndo, Budgets
<1>9. CASE RedoStart
  <2>a. PICK i \in RedoTarget : \E range \in turnLogRange(log, log[i].turn) :
          replay' = [tomb |-> i, turn |-> FakeBase + log[i].turn,
                     at |-> range[1], end |-> range[2]]
    BY <1>9 DEF RedoStart
  <2>1. PICK range \in turnLogRange(log, log[i].turn) :
          replay' = [tomb |-> i, turn |-> FakeBase + log[i].turn,
                     at |-> range[1], end |-> range[2]]
    BY <2>a
  <2>2. i \in Nat /\ log[i] \in Event
    BY DEF RedoTarget, findLastUndoTombstone, Tombstones
  <2>3. range[1] \in Nat /\ range[2] \in Nat
    BY DEF turnLogRange, Starts, Ends
  <2>b. \A e \in Event : e.turn \in Nat
    BY DEF Event
  <2>4. FakeBase + log[i].turn \in Nat
    BY <1>0, <2>2, <2>b
  <2>5. replay' \in [tomb: Nat, turn: Nat, at: Nat, end: Nat]
    BY <2>1, <2>2, <2>3, <2>4
  <2>6. QED
    BY <1>1, <1>9, <2>5 DEF RedoStart, Budgets
<1>10. CASE RedoAppend
  <2>1. PICK i \in NextStep : replay' = [replay EXCEPT !.at = i + 1]
    BY <1>10 DEF RedoAppend
  <2>2. i \in Nat
    BY DEF NextStep
  <2>3. replay' \in [tomb: Nat, turn: Nat, at: Nat, end: Nat]
    <3>1. \A r \in [tomb: Nat, turn: Nat, at: Nat, end: Nat], n \in Nat :
            [r EXCEPT !.at = n] \in [tomb: Nat, turn: Nat, at: Nat, end: Nat]
      OBVIOUS
    <3>2. i + 1 \in Nat /\ replay \in [tomb: Nat, turn: Nat, at: Nat, end: Nat]
      BY <2>2
    <3>3. QED
      BY <2>1, <3>1, <3>2
  <2>4. QED
    BY <1>10, <2>3 DEF RedoAppend
<1>11. NoReplay \in [tomb: Nat, turn: Nat, at: Nat, end: Nat]
  BY DEF NoReplay
<1>12. CASE RedoDone
  BY <1>11, <1>12 DEF RedoDone
<1>13. CASE RedoFail
  BY <1>1, <1>11, <1>13 DEF RedoFail, Budgets
<1>14. CASE RedoFailOpen
  <2>1. budget["fault"] - 2 \in Nat /\ "fault" \in Budgets
    BY <1>14 DEF RedoFailOpen, Budgets
  <2>2. budget' = [budget EXCEPT !["fault"] = budget["fault"] - 2]
    BY <1>14 DEF RedoFailOpen
  <2>3. budget' \in [Budgets -> Nat]
    BY <2>1, <2>2
  <2>4. budget'["rows"] = budget["rows"]
    BY <1>0, <2>2
  <2>5. QED
    BY <1>11, <1>14, <2>3, <2>4 DEF RedoFailOpen
<1>15. CASE UNCHANGED vars
  BY <1>15 DEF vars
<1>16. QED
  BY <1>2, <1>3, <1>4, <1>5, <1>6, <1>7, <1>8, <1>9, <1>10, <1>12, <1>13, <1>14, <1>15
  DEF Next, Harness, Handlers

\* A replay reads inside the log: it is opened on a closed range of it, and
\* the log only grows.
LEMMA ReplayStaysInLog ==
  ASSUME TypeInv, [Next]_vars, LogTyped'
  PROVE  ReplayInLog'
<1> USE DEF TypeInv, TypeOK
<1>1. DOMAIN log \subseteq DOMAIN log'
  <2>1. Move /\ LogTyped
    BY StepIsMove DEF LogTyped
  <2>2. \/ log' = log
        \/ \E e \in Event : log' = Append(log, e)
    BY <2>1 DEF Move, Plain, Replacement, AppendRow, AppendReplacement, AppendEvent
  <2>3. QED
    BY <2>2
<1>2. CASE replay' = replay
  BY <1>1, <1>2 DEF ReplayInLog, NoReplay
<1>3. CASE replay' = NoReplay
  BY <1>3 DEF ReplayInLog, NoReplay
<1>4. CASE RedoStart
  <2>a. PICK i \in RedoTarget : \E range \in turnLogRange(log, log[i].turn) :
          replay' = [tomb |-> i, turn |-> FakeBase + log[i].turn,
                     at |-> range[1], end |-> range[2]]
    BY <1>4 DEF RedoStart
  <2>1. PICK range \in turnLogRange(log, log[i].turn) :
          replay' = [tomb |-> i, turn |-> FakeBase + log[i].turn,
                     at |-> range[1], end |-> range[2]]
    BY <2>a
  <2>2. range[1] \in DOMAIN log /\ range[2] \in DOMAIN log
    BY DEF turnLogRange, Starts, Ends
  <2>3. QED
    BY <1>1, <2>1, <2>2 DEF ReplayInLog
<1>5. CASE RedoAppend
  <2>1. PICK i \in NextStep : replay' = [replay EXCEPT !.at = i + 1]
    BY <1>5 DEF RedoAppend
  <2>2. i \in replay.at..replay.end /\ replay.at \in Nat \ {0} /\ replay.end \in DOMAIN log
    BY <1>5 DEF NextStep, RedoAppend, ReplayInLog
  <2>3. replay'.at = i + 1 /\ replay'.end = replay.end
    BY <2>1
  <2>4. QED
    BY <1>1, <2>2, <2>3 DEF ReplayInLog
<1>6. QED
  BY <1>2, <1>3, <1>4, <1>5
  DEF Next, Harness, Handlers, TurnStart, SystemPrompt, TurnRow, RewriteRows, TurnEnd,
      Compact, performUndo, RedoDone, RedoFail, RedoFailOpen, vars

LEMMA TypeInit == Init => TypeInv
<1> SUFFICES ASSUME Init PROVE TypeInv
  OBVIOUS
<1>1. log \in Seq(Event) /\ surface \in Seq(DOMAIN log)
  BY DEF Init
<1>2. {MaxUndos, MaxReplays, MaxRewrites, MaxCompacts, MaxFaults} \subseteq Nat
  BY BoundsAssumption
<1>3. budget \in [Budgets -> Nat] /\ budget["rows"] <= MaxRows
  BY <1>2, BoundsAssumption DEF Init, Budgets
<1> QED BY <1>1, <1>3 DEF Init, TypeInv, TypeOK, ReplayInLog, NoReplay

LEMMA TypeNext ==
  ASSUME TypeInv, [Next]_vars
  PROVE  TypeInv'
<1>1. LogTyped
  BY DEF TypeInv, TypeOK, LogTyped
<1>2. LogTyped'
  BY <1>1, StepIsMove, MoveTyped
<1> QED BY <1>2, RestTyped, ReplayStaysInLog DEF TypeInv, TypeOK, LogTyped

LEMMA TypeInvariant == Spec => []TypeInv
<1>1. TypeInv /\ [Next]_vars => TypeInv'
  BY TypeNext
<1> QED BY <1>1, TypeInit, PTL DEF Spec

\* The session stays well typed under every sequence of turns, rewrites,
\* undos, redos and rejected appends: the surface holds positions of the log,
\* and a redo never reads outside it.
THEOREM TypeCorrect == Spec => []TypeOK
<1>1. TypeInv => TypeOK
  BY DEF TypeInv
<1>2. QED
  BY <1>1, TypeInvariant, PTL

-----------------------------------------------------------------------------
(* Citations.                                                              *)

CitesLogged ==
  \A i \in DOMAIN log : \A k \in DOMAIN log[i].cites : log[i].cites[k] \in DOMAIN log

NodesDistinct == \A p, q \in DOMAIN surface : surface[p] = surface[q] => p = q

CitedInv == CitesLogged /\ NodesDistinct /\ CitedStaysOff /\ CitedOnce

\* An event that cites nothing leaves every citation as it was.
LEMMA PlainMoveCites ==
  ASSUME LogTyped, CitedInv, NEW e \in Plain, AppendEvent(e),
         \/ surface' = surface
         \/ surface' = Append(surface, Len(log) + 1)
  PROVE  CitedInv'
<1>1. /\ DOMAIN log = 1..Len(log) /\ Len(log) \in Nat
      /\ DOMAIN log' = 1..(Len(log) + 1)
      /\ \A i \in DOMAIN log : log'[i] = log[i]
      /\ log'[Len(log) + 1] = e
  BY DEF LogTyped, AppendEvent
<1>2. DOMAIN e.cites = {}
  BY DEF Plain
<1>3. \A i \in DOMAIN log' : \A k \in DOMAIN log'[i].cites :
        i \in DOMAIN log /\ log'[i] = log[i]
  BY <1>1, <1>2
<1>4. CitesLogged' /\ CitedOnce'
  BY <1>1, <1>3 DEF CitedInv, CitesLogged, CitedOnce
<1>5. \A p \in DOMAIN surface : surface[p] \in DOMAIN log
  BY DEF LogTyped
<1>6. \A p \in DOMAIN surface' :
        \/ p \in DOMAIN surface /\ surface'[p] = surface[p]
        \/ p = Len(surface) + 1 /\ surface'[p] = Len(log) + 1
  BY DEF LogTyped
<1>7. Len(log) + 1 \notin DOMAIN log
  BY <1>1
<1>8. NodesDistinct'
  BY <1>5, <1>6, <1>7 DEF CitedInv, NodesDistinct
<1>9. CitedStaysOff'
  BY <1>3, <1>6, <1>7 DEF CitedInv, CitesLogged, CitedStaysOff
<1>10. QED
  BY <1>4, <1>8, <1>9 DEF CitedInv

\* A replacement cites what it takes off: rows that were on the surface, so
\* cited by nobody yet, and that are not among the rows it leaves.
LEMMA ReplacementMoveCites ==
  ASSUME LogTyped, CitedInv, NEW lo \in DOMAIN surface, NEW hi \in DOMAIN surface,
         Replacement(lo, hi)
  PROVE  CitedInv'
<1>1. PICK e \in Event : e.cites = Cited(lo, hi) /\ AppendReplacement(e, lo, hi)
  BY DEF Replacement
<1>2. /\ DOMAIN log = 1..Len(log) /\ Len(log) \in Nat
      /\ DOMAIN log' = 1..(Len(log) + 1)
      /\ \A i \in DOMAIN log : log'[i] = log[i]
      /\ log'[Len(log) + 1] = e
  BY <1>1 DEF LogTyped, AppendReplacement, AppendEvent
<1>3. /\ surface \in Seq(DOMAIN log) /\ DOMAIN surface = 1..Len(surface)
      /\ lo \in 1..Len(surface) /\ hi \in 1..Len(surface) /\ lo <= hi
      /\ \A p \in DOMAIN surface : surface[p] \in DOMAIN log
  BY DEF LogTyped, Replacement
<1>4. \A k \in DOMAIN e.cites : lo + k - 1 \in lo..hi /\ e.cites[k] = surface[lo + k - 1]
  <2>1. DOMAIN e.cites = 1..(hi - lo + 1)
        /\ \A k \in 1..(hi - lo + 1) : e.cites[k] = surface[lo + k - 1]
    BY <1>1, <1>3, CitedProperties
  <2>2. ASSUME NEW k \in 1..(hi - lo + 1) PROVE lo + k - 1 \in lo..hi
    BY <1>3
  <2>3. QED
    BY <2>1, <2>2
<1>5. \A p \in DOMAIN surface' :
        /\ p \in Nat
        /\ \/ p = lo /\ surface'[p] = Len(log) + 1
           \/ p < lo /\ p \in DOMAIN surface /\ surface'[p] = surface[p]
           \/ /\ p > lo /\ p + (hi - lo) \in DOMAIN surface /\ p + (hi - lo) > hi
              /\ surface'[p] = surface[p + (hi - lo)]
  <2>1. surface' = Splice(surface, lo, hi, Len(log) + 1)
    BY <1>1 DEF AppendReplacement
  <2>2. DOMAIN surface' = 1..(Len(surface) - (hi - lo))
    BY <2>1 DEF Splice
  <2>3. \A p \in DOMAIN surface' :
          surface'[p] = IF p < lo THEN surface[p]
                        ELSE IF p = lo THEN Len(log) + 1 ELSE surface[p + (hi - lo)]
    BY <2>1, <2>2 DEF Splice
  <2>4. QED
    BY <1>3, <2>2, <2>3
<1>6. \A p \in DOMAIN surface' :
        \/ surface'[p] = Len(log) + 1
        \/ \E q \in DOMAIN surface : q \notin lo..hi /\ surface'[p] = surface[q]
  BY <1>3, <1>5
<1>7. Len(log) + 1 \notin DOMAIN log
  BY <1>2
<1>8. \A k \in DOMAIN e.cites :
        e.cites[k] \in DOMAIN log /\ \E p \in lo..hi : e.cites[k] = surface[p]
  BY <1>3, <1>4
<1>9. CitesLogged'
  BY <1>2, <1>8 DEF CitedInv, CitesLogged
<1>10. NodesDistinct'
  <2>1. ASSUME NEW p \in DOMAIN surface', NEW q \in DOMAIN surface',
               surface'[p] = surface'[q]
        PROVE  p = q
    <3>1. p \in Nat /\ q \in Nat
      BY <1>3, <1>5
    <3>2. surface'[p] = Len(log) + 1 => p = lo
      BY <1>3, <1>5, <1>7
    <3>3. surface'[q] = Len(log) + 1 => q = lo
      BY <1>3, <1>5, <1>7
    <3>4. CASE surface'[p] = Len(log) + 1
      BY <2>1, <3>2, <3>3, <3>4
    <3>5. CASE surface'[p] # Len(log) + 1
      <4> DEFINE at(x) == IF x < lo THEN x ELSE x + (hi - lo)
      <4>1. at(p) \in DOMAIN surface /\ surface'[p] = surface[at(p)]
            /\ at(q) \in DOMAIN surface /\ surface'[q] = surface[at(q)]
            /\ p # lo /\ q # lo
        BY <1>3, <1>5, <2>1, <3>1, <3>5
      <4>2. at(p) = at(q)
        BY <2>1, <4>1 DEF CitedInv, NodesDistinct
      <4>3. (p < lo => at(p) < lo) /\ (p > lo => at(p) > hi)
            /\ (q < lo => at(q) < lo) /\ (q > lo => at(q) > hi)
        BY <1>3, <3>1
      <4>4. QED
        BY <1>3, <3>1, <4>1, <4>2, <4>3
    <3>6. QED
      BY <3>4, <3>5
  <2>2. QED
    BY <2>1 DEF NodesDistinct
<1>11. CitedStaysOff'
  <2>1. ASSUME NEW i \in DOMAIN log, NEW k \in DOMAIN log[i].cites, NEW p \in DOMAIN surface'
        PROVE  surface'[p] # log[i].cites[k]
    BY <1>6, <1>7 DEF CitedInv, CitesLogged, CitedStaysOff
  <2>2. ASSUME NEW k \in DOMAIN e.cites, NEW p \in DOMAIN surface'
        PROVE  surface'[p] # e.cites[k]
    BY <1>3, <1>6, <1>7, <1>8 DEF CitedInv, NodesDistinct
  <2>3. QED
    BY <1>2, <2>1, <2>2 DEF CitedStaysOff
<1>12. CitedOnce'
  <2>1. ASSUME NEW i \in DOMAIN log, NEW j \in DOMAIN log,
               NEW k \in DOMAIN log[i].cites, NEW n \in DOMAIN log[j].cites,
               log[i].cites[k] = log[j].cites[n]
        PROVE  i = j /\ k = n
    BY <2>1 DEF CitedInv, CitedOnce
  <2>2. ASSUME NEW i \in DOMAIN log, NEW k \in DOMAIN log[i].cites, NEW n \in DOMAIN e.cites
        PROVE  log[i].cites[k] # e.cites[n]
    BY <1>3, <1>8 DEF CitedInv, CitedStaysOff
  <2>3. ASSUME NEW k \in DOMAIN e.cites, NEW n \in DOMAIN e.cites, e.cites[k] = e.cites[n]
        PROVE  k = n
    <3>1. lo + k - 1 = lo + n - 1
      BY <1>3, <1>4, <2>3 DEF CitedInv, NodesDistinct
    <3>2. k \in Nat /\ n \in Nat /\ lo \in Nat
      BY <1>1, <1>3, CitedProperties
    <3>3. QED
      BY <3>1, <3>2
  <2>4. QED
    BY <1>2, <2>1, <2>2, <2>3 DEF CitedOnce
<1>13. QED
  BY <1>9, <1>10, <1>11, <1>12 DEF CitedInv

LEMMA MoveCites ==
  ASSUME LogTyped, CitedInv, Move
  PROVE  CitedInv'
<1>1. CASE UNCHANGED <<log, surface>>
  BY <1>1 DEF CitedInv, CitesLogged, NodesDistinct, CitedStaysOff, CitedOnce
<1>2. ASSUME NEW e \in Plain, AppendEvent(e), UNCHANGED surface PROVE CitedInv'
  BY <1>2, PlainMoveCites
<1>3. ASSUME NEW e \in Plain, AppendRow(e) PROVE CitedInv'
  BY <1>3, PlainMoveCites DEF AppendRow
<1>4. QED
  BY <1>1, <1>2, <1>3, ReplacementMoveCites DEF Move

LEMMA CitedInvariant == Spec => []CitedInv
<1>1. Init => CitedInv
  BY DEF Init, CitedInv, CitesLogged, NodesDistinct, CitedStaysOff, CitedOnce
<1>2. TypeInv /\ CitedInv /\ [Next]_vars => CitedInv'
  <2> SUFFICES ASSUME TypeInv, CitedInv, [Next]_vars PROVE CitedInv'
    OBVIOUS
  <2>1. LogTyped
    BY DEF TypeInv, TypeOK, LogTyped
  <2> QED BY <2>1, StepIsMove, MoveCites
<1> QED BY <1>1, <1>2, TypeInvariant, PTL DEF Spec

\* A row leaves the surface once and for good, whatever sequence of turns,
\* rewrites, compactions, undos and redos the session goes through: what a
\* tombstone or a rewrite cites is off the surface from then on, and is cited
\* by nothing else.
THEOREM CitationsHold == Spec => []CitedForGood
<1>1. CitedInv => CitedForGood
  BY DEF CitedInv, CitedForGood
<1> QED BY <1>1, CitedInvariant, PTL

-----------------------------------------------------------------------------
(* The head.                                                               *)

\* The system prompt stays at the head of the surface: rows are only added at
\* the tail, and no rewrite, compaction or undo reaches the first position
\* while it holds the prompt.
THEOREM HeadIsSafe == Spec => HeadSurvives
<1>1. ASSUME LogTyped, Move, HeadIsSystem PROVE surface'[1] = surface[1]
  <2>1. Len(surface) \in Nat /\ DOMAIN surface = 1..Len(surface) /\ surface # <<>>
    BY <1>1 DEF LogTyped, HeadIsSystem
  <2>2. 1 \in DOMAIN surface
    BY <1>1, <2>1 DEF LogTyped
  <2>3. ASSUME NEW e \in Plain, AppendRow(e) PROVE surface'[1] = surface[1]
    BY <1>1, <2>2, <2>3 DEF LogTyped, AppendRow
  <2>4. ASSUME NEW lo \in DOMAIN surface, NEW hi \in DOMAIN surface, Replacement(lo, hi)
        PROVE  surface'[1] = surface[1]
    <3>1. surface' = Splice(surface, lo, hi, Len(log) + 1)
      BY <2>4 DEF Replacement, AppendReplacement
    <3>2. lo > 1 /\ lo <= hi
      BY <1>1, <2>4 DEF Replacement
    <3>3. 1 \in 1..(Len(surface) - (hi - lo))
      BY <2>1, <3>2
    <3>4. QED
      BY <3>1, <3>2, <3>3 DEF Splice
  <2>5. QED
    BY <1>1, <2>3, <2>4 DEF Move
<1>2. TypeInv /\ [Next]_vars => [HeadIsSystem => surface'[1] = surface[1]]_vars
  <2> SUFFICES ASSUME TypeInv, [Next]_vars, HeadIsSystem PROVE surface'[1] = surface[1]
    OBVIOUS
  <2>1. LogTyped
    BY DEF TypeInv, TypeOK, LogTyped
  <2>2. QED
    BY <1>1, <2>1, StepIsMove
<1>3. QED
  BY <1>2, TypeInvariant, PTL DEF Spec, HeadSurvives

-----------------------------------------------------------------------------
(* Turns are closed.                                                       *)

IsBoundary(i) == log[i].type \in BoundaryTypes

Shaped == \A i \in DOMAIN log : IsBoundary(i) => log[i] = Boundary(log[i].type, log[i].turn)

\* The boundary after i ends the turn of i.
Followed(i) ==
  \E j \in DOMAIN log :
    /\ j > i /\ log[j] = Boundary("turn/end", log[i].turn)
    /\ \A k \in DOMAIN log : i < k /\ k < j => ~IsBoundary(k)

\* Every turn/start is followed by its turn/end, or all but that of turn t,
\* which is the last boundary.
Closed == \A i \in DOMAIN log : log[i].type = "turn/start" => Followed(i)

Open(t) ==
  \E o \in DOMAIN log :
    /\ log[o] = Boundary("turn/start", t)
    /\ \A j \in DOMAIN log : j > o => ~IsBoundary(j)
    /\ \A i \in DOMAIN log : log[i].type = "turn/start" /\ i # o => Followed(i)

Silent(lo, hi) == \A j \in DOMAIN log : lo <= j /\ j < hi => ~IsBoundary(j)

\* At most one append was rejected.
OneFault == MaxFaults - budget["fault"] < 2

\* A replay is at the turn/start of its range, inside it with its fake turn
\* open, or past its turn/end.
ReplayInTurn ==
  /\ agent = "idle"
  /\ replay.at <= replay.end => log[replay.end].type = "turn/end"
  /\ \/ /\ replay.at < replay.end /\ log[replay.at].type = "turn/start"
        /\ Silent(replay.at + 1, replay.end) /\ Closed
     \/ replay.at <= replay.end /\ Silent(replay.at, replay.end) /\ Open(replay.turn)
     \/ replay.at > replay.end /\ Closed

TurnsInv ==
  /\ Shaped /\ budget["fault"] <= MaxFaults
  /\ OneFault =>
       /\ agent = "running" => replay = NoReplay /\ Open(turn)
       /\ agent = "idle" /\ replay = NoReplay => Closed
       /\ replay # NoReplay => ReplayInTurn

\* Nothing is logged, or an event that is no boundary.
QuietLog == log' = log \/ \E e \in Event : e.type \notin BoundaryTypes /\ AppendEvent(e)

LEMMA AppendedLog ==
  ASSUME log \in Seq(Event), NEW e \in Event, AppendEvent(e)
  PROVE  /\ Len(log) \in Nat /\ DOMAIN log = 1..Len(log)
         /\ DOMAIN log' = 1..(Len(log) + 1)
         /\ \A i \in DOMAIN log : log'[i] = log[i]
         /\ log'[Len(log) + 1] = e
BY DEF AppendEvent

LEMMA BoundaryFields ==
  ASSUME NEW type \in BoundaryTypes, NEW t \in Nat
  PROVE  /\ Boundary(type, t) \in Event
         /\ Boundary(type, t).type = type /\ Boundary(type, t).turn = t
BY BoundaryPlain DEF Plain, Boundary

\* What was followed stays followed.
LEMMA FollowedKept ==
  ASSUME log \in Seq(Event), NEW e \in Event, AppendEvent(e), NEW i \in DOMAIN log, Followed(i)
  PROVE  Followed(i)'
<1>1. PICK j \in DOMAIN log :
        /\ j > i /\ log[j] = Boundary("turn/end", log[i].turn)
        /\ \A k \in DOMAIN log : i < k /\ k < j => ~IsBoundary(k)
  BY DEF Followed
<1>2. /\ Len(log) \in Nat /\ DOMAIN log = 1..Len(log) /\ DOMAIN log' = 1..(Len(log) + 1)
      /\ \A k \in DOMAIN log : log'[k] = log[k]
  BY AppendedLog
<1>3. \A k \in DOMAIN log' : i < k /\ k < j => k \in DOMAIN log
  BY <1>1, <1>2
<1>4. j \in DOMAIN log' /\ log'[j] = Boundary("turn/end", log'[i].turn)
  BY <1>1, <1>2
<1>5. \A k \in DOMAIN log' : i < k /\ k < j => ~(IsBoundary(k))'
  BY <1>1, <1>2, <1>3 DEF IsBoundary
<1> QED BY <1>1, <1>4, <1>5 DEF Followed

LEMMA QuietKeeps ==
  ASSUME log \in Seq(Event), QuietLog, Shaped
  PROVE  /\ Shaped'
         /\ Closed => Closed'
         /\ \A t \in Nat : Open(t) => Open(t)'
         /\ \A lo \in Nat, hi \in DOMAIN log : Silent(lo, hi) => Silent(lo, hi)'
<1>1. CASE log' = log
  BY <1>1 DEF Shaped, Closed, Open, Silent, Followed, IsBoundary
<1>2. ASSUME NEW e \in Event, e.type \notin BoundaryTypes, AppendEvent(e)
      PROVE  /\ Shaped'
             /\ Closed => Closed'
             /\ \A t \in Nat : Open(t) => Open(t)'
             /\ \A lo \in Nat, hi \in DOMAIN log : Silent(lo, hi) => Silent(lo, hi)'
  <2>1. /\ Len(log) \in Nat /\ DOMAIN log = 1..Len(log) /\ DOMAIN log' = 1..(Len(log) + 1)
        /\ \A i \in DOMAIN log : log'[i] = log[i]
        /\ log'[Len(log) + 1] = e
    BY <1>2, AppendedLog
  <2>2. \A i \in DOMAIN log' : i \in DOMAIN log \/ log'[i] = e
    BY <2>1
  <2>3. \A i \in DOMAIN log' : log'[i].type \in BoundaryTypes => i \in DOMAIN log
    BY <1>2, <2>2
  <2>4. Shaped'
    BY <2>1, <2>3 DEF Shaped, IsBoundary
  <2>5. \A i \in DOMAIN log : Followed(i) => Followed(i)'
    BY <1>2, FollowedKept
  <2>6. \A i \in DOMAIN log' : log'[i].type = "turn/start" => i \in DOMAIN log
    BY <2>3 DEF BoundaryTypes
  <2>7. Closed => Closed'
    BY <2>1, <2>5, <2>6 DEF Closed
  <2>8. ASSUME NEW t \in Nat, Open(t) PROVE Open(t)'
    <3>1. PICK o \in DOMAIN log :
            /\ log[o] = Boundary("turn/start", t)
            /\ \A j \in DOMAIN log : j > o => ~IsBoundary(j)
            /\ \A i \in DOMAIN log : log[i].type = "turn/start" /\ i # o => Followed(i)
      BY <2>8 DEF Open
    <3>2. o \in DOMAIN log' /\ log'[o] = Boundary("turn/start", t)
      BY <2>1, <3>1
    <3>3. \A j \in DOMAIN log' : j > o => ~IsBoundary(j)'
      BY <2>1, <2>3, <3>1 DEF IsBoundary
    <3>4. \A i \in DOMAIN log' : log'[i].type = "turn/start" /\ i # o => Followed(i)'
      BY <2>1, <2>5, <2>6, <3>1
    <3> QED BY <3>2, <3>3, <3>4 DEF Open
  <2>9. \A lo \in Nat, hi \in DOMAIN log : Silent(lo, hi) => Silent(lo, hi)'
    BY <2>1, <2>3 DEF Silent, IsBoundary
  <2> QED BY <2>4, <2>7, <2>8, <2>9
<1> QED BY <1>1, <1>2 DEF QuietLog

LEMMA StartOpens ==
  ASSUME log \in Seq(Event), Shaped, Closed, NEW t \in Nat, AppendEvent(Boundary("turn/start", t))
  PROVE  Shaped' /\ Open(t)'
<1> DEFINE e == Boundary("turn/start", t)
           n == Len(log) + 1
<1>1. e \in Event /\ e.type = "turn/start" /\ e.turn = t
  BY BoundaryFields DEF BoundaryTypes
<1> HIDE DEF e
<1>2. /\ Len(log) \in Nat /\ DOMAIN log = 1..Len(log) /\ DOMAIN log' = 1..n
      /\ \A i \in DOMAIN log : log'[i] = log[i]
      /\ log'[n] = e
  BY <1>1, AppendedLog DEF e
<1>3. \A i \in DOMAIN log' : i \in DOMAIN log \/ i = n
  BY <1>2
<1>4. Shaped'
  BY <1>1, <1>2, <1>3 DEF Shaped, IsBoundary, e
<1>5. \A i \in DOMAIN log : Followed(i) => Followed(i)'
  BY <1>1, FollowedKept DEF e
<1>6. \A i \in DOMAIN log' : log'[i].type = "turn/start" /\ i # n => Followed(i)'
  BY <1>2, <1>3, <1>5 DEF Closed
<1>7. n \in DOMAIN log' /\ \A j \in DOMAIN log' : ~(j > n)
  BY <1>2
<1> QED BY <1>2, <1>4, <1>6, <1>7 DEF Open, e

\* A turn/end that nothing opened is harmless.
LEMMA EndCloses ==
  ASSUME log \in Seq(Event), Shaped, NEW t \in Nat, AppendEvent(Boundary("turn/end", t)),
         Closed \/ Open(t)
  PROVE  Shaped' /\ Closed'
<1> DEFINE e == Boundary("turn/end", t)
           n == Len(log) + 1
<1>1. e \in Event /\ e.type = "turn/end" /\ e.turn = t
  BY BoundaryFields DEF BoundaryTypes
<1> HIDE DEF e
<1>2. /\ Len(log) \in Nat /\ DOMAIN log = 1..Len(log) /\ DOMAIN log' = 1..n
      /\ \A i \in DOMAIN log : log'[i] = log[i]
      /\ log'[n] = e
  BY <1>1, AppendedLog DEF e
<1>3. \A i \in DOMAIN log' : i \in DOMAIN log \/ i = n
  BY <1>2
<1>4. Shaped'
  BY <1>1, <1>2, <1>3 DEF Shaped, IsBoundary, e
<1>5. \A i \in DOMAIN log : Followed(i) => Followed(i)'
  BY <1>1, FollowedKept DEF e
<1>6. \A i \in DOMAIN log' : log'[i].type = "turn/start" => i \in DOMAIN log /\ log[i] = log'[i]
  BY <1>1, <1>2, <1>3
<1>7. CASE Closed
  BY <1>4, <1>5, <1>6, <1>7 DEF Closed
<1>8. CASE Open(t)
  <2>1. PICK o \in DOMAIN log :
          /\ log[o] = Boundary("turn/start", t)
          /\ \A j \in DOMAIN log : j > o => ~IsBoundary(j)
          /\ \A i \in DOMAIN log : log[i].type = "turn/start" /\ i # o => Followed(i)
    BY <1>8 DEF Open
  <2>2. log'[o].turn = t
    BY <1>2, <2>1, BoundaryFields DEF BoundaryTypes
  <2>3. Followed(o)'
    <3>1. n \in DOMAIN log' /\ n > o /\ log'[n] = Boundary("turn/end", log'[o].turn)
      BY <1>2, <2>2 DEF e
    <3>2. \A k \in DOMAIN log' : o < k /\ k < n => ~IsBoundary(k)'
      BY <1>2, <1>3, <2>1 DEF IsBoundary
    <3> QED BY <3>1, <3>2 DEF Followed
  <2> QED BY <1>4, <1>5, <1>6, <2>1, <2>3 DEF Closed
<1> QED BY <1>7, <1>8

\* The range of a turn in a closed log has no boundary inside.
LEMMA RangeSilent ==
  ASSUME log \in Seq(Event), Closed, NEW t \in Nat, NEW range \in turnLogRange(log, t)
  PROVE  /\ range[1] \in DOMAIN log /\ range[2] \in DOMAIN log /\ range[1] < range[2]
         /\ log[range[1]].type = "turn/start" /\ log[range[2]].type = "turn/end"
         /\ Silent(range[1] + 1, range[2])
<1>1. /\ range[1] \in Starts(log, t) /\ range[2] \in Ends(log, t) /\ range[1] < range[2]
      /\ \A e \in Ends(log, t) : e < range[2] => \A s \in Starts(log, t) : e < s
  BY DEF turnLogRange
<1>2. /\ range[1] \in DOMAIN log /\ range[2] \in DOMAIN log
      /\ log[range[1]].type = "turn/start" /\ log[range[2]].type = "turn/end"
      /\ log[range[1]].turn = t
  BY <1>1 DEF Starts, Ends
<1>3. PICK j \in DOMAIN log :
        /\ j > range[1] /\ log[j] = Boundary("turn/end", t)
        /\ \A k \in DOMAIN log : range[1] < k /\ k < j => ~IsBoundary(k)
  BY <1>2 DEF Closed, Followed
<1>4. j \in Ends(log, t)
  BY <1>3, BoundaryFields DEF Ends, BoundaryTypes
<1>5. DOMAIN log \subseteq Nat
  OBVIOUS
<1>6. ~(j < range[2])
  BY <1>1, <1>2, <1>3, <1>4, <1>5
<1> QED BY <1>1, <1>2, <1>3, <1>5, <1>6 DEF Silent

LEMMA BoundaryShaped ==
  ASSUME log \in Seq(Event), Shaped, NEW type \in BoundaryTypes, NEW t \in Nat,
         AppendEvent(Boundary(type, t))
  PROVE  Shaped'
<1> DEFINE e == Boundary(type, t)
<1>1. e \in Event /\ e = Boundary(e.type, e.turn)
  BY BoundaryFields
<1> HIDE DEF e
<1>2. /\ Len(log) \in Nat /\ DOMAIN log = 1..Len(log) /\ DOMAIN log' = 1..(Len(log) + 1)
      /\ \A i \in DOMAIN log : log'[i] = log[i]
      /\ log'[Len(log) + 1] = e
  BY <1>1, AppendedLog DEF e
<1>3. \A i \in DOMAIN log' : i \in DOMAIN log \/ log'[i] = e
  BY <1>2
<1> QED BY <1>1, <1>2, <1>3 DEF Shaped, IsBoundary

LEMMA AppendedEvent ==
  ASSUME TypeInv, TypeInv', NEW e, AppendEvent(e)
  PROVE  e \in Event
<1>1. log \in Seq(Event) /\ log' \in Seq(Event)
  BY DEF TypeInv, TypeOK
<1>2. log' = Append(log, e) /\ Len(log) + 1 \in DOMAIN log' /\ log'[Len(log) + 1] = e
  BY <1>1 DEF AppendEvent
<1> QED BY <1>1, <1>2

\* The agent's rows, its rewrites and an undo's tombstone are no boundaries.
LEMMA RowsAreQuiet ==
  ASSUME TypeInv, TypeInv',
         \/ SystemPrompt \/ Compact
         \/ \E type \in MessageTypes : TurnRow(type)
         \/ \E type \in {"user/message", "tool/result"}, lo, hi \in DOMAIN surface :
              RewriteRows(type, lo, hi)
         \/ \E m \in findAssistantMessages(log) : performUndo(m)
  PROVE  QuietLog /\ UNCHANGED <<agent, turn, replay>>
<1> DEFINE Quiet == QuietLog /\ UNCHANGED <<agent, turn, replay>>
<1>1. ASSUME NEW e, e.type \in MessageTypes \cup {"system/message"},
             AppendEvent(e), UNCHANGED <<agent, turn, replay>>
      PROVE  Quiet
  BY <1>1, AppendedEvent DEF QuietLog, MessageTypes, BoundaryTypes
<1> HIDE DEF Quiet
<1>2. CASE SystemPrompt
  <2> DEFINE e == Row("system/message", turn, 0, Len(log) + 1)
  <2>1. e.type = "system/message" /\ AppendEvent(e)
    BY <1>2 DEF SystemPrompt, AppendRow, Row
  <2>2. UNCHANGED <<agent, turn, replay>>
    BY <1>2 DEF SystemPrompt
  <2>3. \E x : x.type = "system/message" /\ AppendEvent(x)
    BY <2>1
  <2> QED BY <1>1, <2>2, <2>3 DEF Quiet
<1>3. CASE Compact
  <2> DEFINE lo == IF HeadIsSystem THEN 2 ELSE 1
             e == Rewrite("user/message", 0, Len(log) + 1, Cited(lo, Len(surface)))
  <2>1. e.type = "user/message" /\ AppendEvent(e)
    BY <1>3 DEF Compact, AppendReplacement, Rewrite
  <2>2. UNCHANGED <<agent, turn, replay>>
    BY <1>3 DEF Compact
  <2>3. \E x : x.type = "user/message" /\ AppendEvent(x)
    BY <2>1
  <2> QED BY <1>1, <2>2, <2>3 DEF MessageTypes, Quiet
<1>4. ASSUME NEW type \in MessageTypes, TurnRow(type) PROVE Quiet
  BY <1>1, <1>4 DEF TurnRow, AppendRow, Row
<1>5. ASSUME NEW type \in {"user/message", "tool/result"}, NEW lo, NEW hi, RewriteRows(type, lo, hi)
      PROVE  Quiet
  BY <1>1, <1>5 DEF RewriteRows, AppendReplacement, Rewrite, MessageTypes
<1>6. ASSUME NEW m, performUndo(m) PROVE Quiet
  BY <1>1, <1>6 DEF performUndo, AppendReplacement, buildTombstoneAppend
<1> QED BY <1>2, <1>3, <1>4, <1>5, <1>6 DEF Quiet

LEMMA FaultsFall ==
  ASSUME TypeInv, [Next]_vars
  PROVE  budget'["fault"] <= budget["fault"]
<1>1. budget \in [Budgets -> Nat] /\ "fault" \in Budgets /\ "rows" \in Budgets
  BY DEF TypeInv, TypeOK, Budgets
<1>2. ASSUME NEW b \in Budgets, Spend(b) PROVE budget'["fault"] <= budget["fault"]
  BY <1>1, <1>2 DEF Spend
<1>3. CASE TurnStart \/ TurnEnd
  BY <1>1, <1>3 DEF TurnStart, TurnEnd
<1>4. CASE RedoFailOpen
  BY <1>1, <1>4 DEF RedoFailOpen
<1>5. CASE UNCHANGED budget
  BY <1>1, <1>5
<1>6. "rewrite" \in Budgets /\ "compact" \in Budgets /\ "undo" \in Budgets /\ "replay" \in Budgets
  BY DEF Budgets
<1>7. CASE Harness
  BY <1>1, <1>2, <1>3, <1>5, <1>6, <1>7
  DEF Harness, SystemPrompt, Compact, TurnRow, RewriteRows
<1>8. CASE Handlers
  BY <1>1, <1>2, <1>4, <1>5, <1>6, <1>8
  DEF Handlers, performUndo, RedoStart, RedoAppend, RedoDone, RedoFail
<1> QED BY <1>5, <1>7, <1>8 DEF Next, vars

LEMMA SameEvent ==
  ASSUME NEW e \in Event, NEW f \in Event,
         e.type = f.type, e.turn = f.turn, e.step = f.step,
         e.op = f.op, e.body = f.body, e.cites = f.cites
  PROVE  e = f
BY DEF Event

\* What a redo of the row's turn copies.
Copied(i) == log[i].type \in MessageTypes /\ log[i].op = "append"

\* The session adds a copy of row i at the tail.
CopiesRow(i) ==
  /\ Copied(i)
  /\ \E e \in Event :
       /\ e.op = "append" /\ e.type = log[i].type /\ e.body = log[i].body
       /\ e.step = log[i].step /\ (e.type # "user/message" => e.turn = replay.turn)
       /\ AppendRow(e)

\* A redo copies a boundary as the boundary of the fake turn, or a row.
LEMMA CopiedStep ==
  ASSUME TypeInv, TypeInv', Shaped, RedoAppend
  PROVE  \E i \in replay.at..replay.end :
           /\ i \in DOMAIN log /\ i \in Nat /\ hasReplayRole(log[i])
           /\ \A j \in replay.at..(i - 1) : ~hasReplayRole(log[j])
           /\ replay'.at = i + 1 /\ replay'.end = replay.end /\ replay'.turn = replay.turn
           /\ agent' = agent /\ replay'.tomb = replay.tomb /\ replay # NoReplay /\ replay' # NoReplay
           /\ \/ IsBoundary(i) /\ AppendEvent(Boundary(log[i].type, replay.turn)) /\ UNCHANGED surface
              \/ CopiesRow(i)
<1>1. PICK i \in NextStep :
        /\ LET copy == replayCopy(log[i], replay.turn) IN
             IF copy.type \in MessageTypes THEN AppendRow(copy)
             ELSE AppendEvent(copy) /\ UNCHANGED surface
        /\ replay' = [replay EXCEPT !.at = i + 1]
  BY DEF RedoAppend
<1> DEFINE copy == replayCopy(log[i], replay.turn)
<1>2. /\ log \in Seq(Event) /\ replay.at \in Nat /\ replay.end \in DOMAIN log
      /\ replay.at # 0 /\ replay.turn \in Nat
  BY DEF RedoAppend, TypeInv, TypeOK, ReplayInLog
<1>3. /\ i \in replay.at..replay.end /\ hasReplayRole(log[i])
      /\ \A j \in replay.at..(i - 1) : ~hasReplayRole(log[j])
  BY DEF NextStep
<1>4. i \in DOMAIN log /\ i \in Nat /\ log[i] \in Event
  BY <1>2, <1>3
<1>5. AppendEvent(copy) /\ copy \in Event
  <2>1. AppendEvent(copy)
    BY <1>1 DEF AppendRow
  <2> QED BY <2>1, AppendedEvent
<1>6. /\ replay'.at = i + 1 /\ replay'.end = replay.end /\ replay'.turn = replay.turn
      /\ agent' = agent /\ replay'.tomb = replay.tomb /\ replay # NoReplay
  BY <1>1, <1>2 DEF RedoAppend, TypeInv, TypeOK
<1>7. replay' # NoReplay
  BY <1>4, <1>6 DEF NoReplay
<1>8. /\ copy.type = log[i].type /\ copy.op = log[i].op /\ copy.body = log[i].body
      /\ copy.step = log[i].step /\ (copy.type # "user/message" => copy.turn = replay.turn)
  BY <1>4 DEF replayCopy, Event
<1>9. ASSUME IsBoundary(i)
      PROVE  AppendEvent(Boundary(log[i].type, replay.turn)) /\ UNCHANGED surface
  <2>1. log[i] = Boundary(log[i].type, log[i].turn)
    BY <1>4, <1>9 DEF Shaped
  <2>2. /\ log[i].type # "user/message" /\ log[i].type \in BoundaryTypes
        /\ log[i].type \notin MessageTypes
    BY <1>9 DEF IsBoundary, BoundaryTypes, MessageTypes
  <2> DEFINE b == Boundary(log[i].type, replay.turn)
  <2>3. b \in Event
    BY <1>2, <2>2, BoundaryFields
  <2>4. /\ copy.type = b.type /\ copy.turn = b.turn /\ copy.step = b.step
        /\ copy.op = b.op /\ copy.body = b.body /\ copy.cites = b.cites
    <3>1. /\ copy.type = log[i].type /\ copy.turn = replay.turn /\ copy.step = log[i].step
          /\ copy.op = log[i].op /\ copy.body = log[i].body /\ copy.cites = <<>>
      BY <1>4, <2>2 DEF replayCopy, Event
    <3>2. log[i].step = 0 /\ log[i].op = "none" /\ log[i].body = 0
      BY <2>1 DEF Boundary
    <3> QED BY <3>1, <3>2 DEF Boundary
  <2>5. UNCHANGED surface
    BY <1>1, <1>8, <2>2
  <2> HIDE DEF b, copy
  <2>6. copy = b
    BY <1>5, <2>3, <2>4, SameEvent
  <2> QED BY <1>5, <2>5, <2>6 DEF b
<1>10. ASSUME ~IsBoundary(i) PROVE CopiesRow(i)
  <2>1. Copied(i)
    BY <1>3, <1>10 DEF hasReplayRole, IsBoundary, Copied
  <2>2. AppendRow(copy)
    BY <1>1, <1>8, <2>1 DEF Copied
  <2> HIDE DEF copy
  <2> QED BY <1>5, <1>8, <2>1, <2>2 DEF CopiesRow, Copied
<1> QED BY <1>3, <1>4, <1>6, <1>7, <1>9, <1>10

LEMMA CopyStep ==
  ASSUME TypeInv, TypeInv', Shaped, RedoAppend
  PROVE  \E i \in replay.at..replay.end :
           /\ i \in DOMAIN log /\ i \in Nat /\ hasReplayRole(log[i])
           /\ \A j \in replay.at..(i - 1) : ~hasReplayRole(log[j])
           /\ replay'.at = i + 1 /\ replay'.end = replay.end /\ replay'.turn = replay.turn
           /\ agent' = agent
           /\ IsBoundary(i) => AppendEvent(Boundary(log[i].type, replay.turn))
           /\ ~IsBoundary(i) => QuietLog
           /\ \E e \in Event : AppendEvent(e)
<1>1. PICK i \in replay.at..replay.end :
           /\ i \in DOMAIN log /\ i \in Nat /\ hasReplayRole(log[i])
           /\ \A j \in replay.at..(i - 1) : ~hasReplayRole(log[j])
           /\ replay'.at = i + 1 /\ replay'.end = replay.end /\ replay'.turn = replay.turn
           /\ agent' = agent
           /\ \/ IsBoundary(i) /\ AppendEvent(Boundary(log[i].type, replay.turn)) /\ UNCHANGED surface
              \/ CopiesRow(i)
  BY CopiedStep
<1>2. CASE CopiesRow(i)
  <2>1. PICK e \in Event : e.type = log[i].type /\ AppendEvent(e)
    BY <1>2 DEF CopiesRow, AppendRow
  <2>2. e.type \notin BoundaryTypes
    BY <1>2, <2>1 DEF CopiesRow, Copied, MessageTypes, BoundaryTypes
  <2>3. ~IsBoundary(i) /\ QuietLog
    BY <2>1, <2>2 DEF QuietLog, IsBoundary
  <2> QED BY <1>1, <2>1, <2>3
<1>3. CASE IsBoundary(i) /\ AppendEvent(Boundary(log[i].type, replay.turn))
  <2>1. replay.turn \in Nat /\ log[i].type \in BoundaryTypes
    BY <1>3 DEF TypeInv, TypeOK, IsBoundary
  <2>2. \E e \in Event : AppendEvent(e)
    BY <1>3, <2>1, BoundaryFields
  <2> QED BY <1>1, <1>3, <2>2
<1> QED BY <1>1, <1>2, <1>3

\* One step of a replay.
LEMMA ReplayStep ==
  ASSUME TypeInv, TypeInv', Shaped, ReplayInTurn, RedoAppend
  PROVE  ReplayInTurn'
<1>1. PICK i \in replay.at..replay.end :
           /\ i \in DOMAIN log /\ i \in Nat /\ hasReplayRole(log[i])
           /\ \A j \in replay.at..(i - 1) : ~hasReplayRole(log[j])
           /\ replay'.at = i + 1 /\ replay'.end = replay.end /\ replay'.turn = replay.turn
           /\ agent' = agent
           /\ IsBoundary(i) => AppendEvent(Boundary(log[i].type, replay.turn))
           /\ ~IsBoundary(i) => QuietLog
           /\ \E e \in Event : AppendEvent(e)
  BY CopyStep
<1>2. /\ log \in Seq(Event) /\ replay.at \in Nat /\ replay.end \in DOMAIN log /\ replay.turn \in Nat
      /\ DOMAIN log = 1..Len(log) /\ DOMAIN log \subseteq Nat
  <2>1. /\ log \in Seq(Event) /\ replay.at \in Nat /\ replay.end \in DOMAIN log
        /\ replay.turn \in Nat
    BY DEF RedoAppend, TypeInv, TypeOK, ReplayInLog
  <2> QED BY <2>1
<1>3. /\ \A j \in DOMAIN log : log'[j] = log[j]
      /\ Len(log) \in Nat /\ DOMAIN log' = 1..(Len(log) + 1)
  BY <1>1, <1>2, AppendedLog
<1>4. replay.at <= i /\ i <= replay.end
  BY <1>1, <1>2
<1>5. log[replay.end].type = "turn/end" /\ log'[replay.end] = log[replay.end]
  BY <1>2, <1>3, <1>4 DEF ReplayInTurn
<1>6. \A lo \in Nat : Silent(lo, replay.end) /\ lo <= i + 1 => Silent(replay.at, replay.end)'
  <2> SUFFICES ASSUME NEW lo \in Nat, Silent(lo, replay.end), lo <= i + 1,
                      NEW j \in DOMAIN log', replay'.at <= j, j < replay'.end
               PROVE  IsBoundary(j)' = FALSE
    BY DEF Silent
  <2>1. j \in DOMAIN log /\ lo <= j /\ j < replay.end
    BY <1>1, <1>2, <1>3
  <2> QED BY <1>3, <2>1 DEF Silent, IsBoundary
<1>8. CASE /\ replay.at < replay.end /\ log[replay.at].type = "turn/start"
           /\ Silent(replay.at + 1, replay.end) /\ Closed
  <2>1. i = replay.at
    <3>1. hasReplayRole(log[replay.at])
      BY <1>8 DEF hasReplayRole, BoundaryTypes
    <3> QED BY <1>1, <1>2, <1>4, <3>1
  <2>2. AppendEvent(Boundary("turn/start", replay.turn))
    BY <1>1, <1>8, <2>1 DEF IsBoundary, BoundaryTypes
  <2>3. ASSUME NEW t \in Nat, t = replay.turn PROVE Open(t)'
    BY <1>2, <1>8, <2>2, <2>3, StartOpens
  <2>4. Open(replay.turn)'
    BY <1>1, <1>2, <2>3 DEF Open
  <2>5. Silent(replay.at, replay.end)'
    <3>1. replay.at + 1 \in Nat /\ replay.at + 1 <= i + 1
      BY <1>2, <2>1
    <3> QED BY <1>6, <1>8, <3>1
  <2>6. replay'.at <= replay'.end
    BY <1>1, <1>2, <1>8, <2>1
  <2> QED BY <1>1, <1>5, <2>4, <2>5, <2>6 DEF ReplayInTurn
<1>9. CASE replay.at <= replay.end /\ Silent(replay.at, replay.end) /\ Open(replay.turn)
  <2>1. CASE i = replay.end
    <3>1. AppendEvent(Boundary("turn/end", replay.turn))
      BY <1>1, <1>5, <2>1 DEF IsBoundary, BoundaryTypes
    <3>2. Closed'
      BY <1>2, <1>9, <3>1, EndCloses
    <3>3. replay'.at > replay'.end /\ ~(replay'.at <= replay'.end)
      BY <1>1, <2>1
    <3> QED BY <1>1, <3>2, <3>3 DEF ReplayInTurn
  <2>2. CASE i # replay.end
    <3>1. i < replay.end
      BY <1>1, <1>2, <1>4, <2>2
    <3>2. ~IsBoundary(i)
      BY <1>1, <1>4, <1>9, <3>1 DEF Silent
    <3>3. \A t \in Nat : Open(t) => Open(t)'
      BY <1>1, <1>2, <3>2, QuietKeeps
    <3>4. Open(replay.turn)'
      BY <1>1, <1>2, <1>9, <3>3 DEF Open
    <3>5. Silent(replay.at, replay.end)'
      <4>1. replay.at <= i + 1
        BY <1>1, <1>2, <1>4
      <4> QED BY <1>2, <1>6, <1>9, <4>1
    <3>6. replay'.at <= replay'.end
      BY <1>1, <1>2, <3>1
    <3> QED BY <1>1, <1>5, <3>4, <3>5, <3>6 DEF ReplayInTurn
  <2> QED BY <2>1, <2>2
<1>10. ~(replay.at > replay.end)
  BY <1>1, <1>2, <1>4
<1> QED BY <1>8, <1>9, <1>10 DEF ReplayInTurn

LEMMA LeastOf ==
  ASSUME NEW S \in SUBSET Nat, S # {}
  PROVE  \E k \in S : \A j \in S : k <= j
<1>1. PICK k \in S : \A j \in S : <<j, k>> \notin OpToRel(<, Nat)
  BY NatLessThanWellFounded, WFMin
<1>2. \A j \in S : ~(j < k)
  BY <1>1 DEF OpToRel
<1> QED BY <1>2

\* A replay that reads nothing else is past its range.
LEMMA PastRange ==
  ASSUME TypeInv, replay # NoReplay, ReplayInTurn
  PROVE  NextStep = {} <=> replay.at > replay.end
<1>1. /\ log \in Seq(Event) /\ replay.at \in Nat /\ replay.end \in DOMAIN log
      /\ replay.end \in Nat
  BY DEF TypeInv, TypeOK, ReplayInLog
<1>2. ASSUME replay.at > replay.end PROVE NextStep = {}
  BY <1>1, <1>2 DEF NextStep
<1>3. ASSUME replay.at <= replay.end PROVE NextStep # {}
  <2>1. hasReplayRole(log[replay.end])
    BY <1>3 DEF ReplayInTurn, hasReplayRole, BoundaryTypes
  <2> DEFINE role == {k \in replay.at..replay.end : hasReplayRole(log[k])}
  <2>2. role # {} /\ role \subseteq Nat
    BY <1>1, <1>3, <2>1
  <2>3. PICK k \in role : \A j \in role : k <= j
    BY <2>2, LeastOf
  <2>4. k \in NextStep
    BY <1>1, <2>3 DEF NextStep
  <2> QED BY <2>4
<1> QED BY <1>1, <1>2, <1>3

LEMMA ShapedNext ==
  ASSUME TypeInv, TypeInv', Shaped, [Next]_vars
  PROVE  Shaped'
<1>1. log \in Seq(Event) /\ turn \in Nat /\ replay.turn \in Nat
  BY DEF TypeInv, TypeOK
<1>2. CASE QuietLog
  BY <1>1, <1>2, QuietKeeps
<1>3. ASSUME NEW type \in BoundaryTypes, NEW t \in Nat, AppendEvent(Boundary(type, t))
      PROVE  Shaped'
  BY <1>1, <1>3, BoundaryShaped
<1>4. CASE TurnStart \/ TurnEnd
  BY <1>1, <1>3, <1>4 DEF TurnStart, TurnEnd, BoundaryTypes
<1>5. CASE RedoAppend
  <2>1. \/ QuietLog
        \/ \E i \in DOMAIN log : IsBoundary(i) /\ AppendEvent(Boundary(log[i].type, replay.turn))
    BY <1>5, CopyStep
  <2> QED BY <1>1, <1>2, <1>3, <2>1 DEF IsBoundary
<1>6. CASE RedoFail
  BY <1>1, <1>3, <1>6 DEF RedoFail, BoundaryTypes
<1>7. CASE RedoStart \/ RedoDone \/ RedoFailOpen \/ UNCHANGED vars
  <2>1. log' = log
    BY <1>7 DEF RedoStart, RedoDone, RedoFailOpen, vars
  <2> QED BY <1>2, <2>1 DEF QuietLog
<1> QED BY <1>2, <1>4, <1>5, <1>6, <1>7, RowsAreQuiet DEF Next, Harness, Handlers

LEMMA TurnsNext ==
  ASSUME TypeInv, TypeInv', TurnsInv, [Next]_vars
  PROVE  TurnsInv'
<1>1. /\ log \in Seq(Event) /\ turn \in Nat /\ agent \in {"idle", "running"}
      /\ budget \in [Budgets -> Nat] /\ budget' \in [Budgets -> Nat] /\ "fault" \in Budgets
      /\ MaxFaults \in Nat /\ replay.turn \in Nat
  BY BoundsAssumption DEF TypeInv, TypeOK, Budgets
<1>2. budget'["fault"] <= MaxFaults /\ (OneFault' => OneFault)
  BY <1>1, FaultsFall DEF TurnsInv, OneFault
<1>3. Shaped /\ Shaped'
  BY ShapedNext DEF TurnsInv
<1> DEFINE Turns == /\ agent = "running" => replay = NoReplay /\ Open(turn)
                    /\ agent = "idle" /\ replay = NoReplay => Closed
                    /\ replay # NoReplay => ReplayInTurn
<1> SUFFICES ASSUME OneFault, OneFault', Turns PROVE Turns'
  BY <1>2, <1>3 DEF TurnsInv
<1>4. ASSUME QuietLog, UNCHANGED <<agent, turn, replay>> PROVE Turns'
  <2>1. /\ Closed => Closed'
        /\ \A t \in Nat : Open(t) => Open(t)'
        /\ \A lo \in Nat, hi \in DOMAIN log : Silent(lo, hi) => Silent(lo, hi)'
    BY <1>1, <1>3, <1>4, QuietKeeps
  <2>2. Open(turn) => Open(turn)'
    BY <1>1, <1>4, <2>1 DEF Open
  <2>3. CASE replay = NoReplay
    BY <1>4, <2>1, <2>2, <2>3
  <2>4. CASE replay # NoReplay
    <3>1. replay.at \in Nat /\ replay.at # 0 /\ replay.at + 1 \in Nat /\ replay.end \in DOMAIN log
      BY <2>4 DEF TypeInv, ReplayInLog
    <3>2. log'[replay.end] = log[replay.end]
      BY <1>1, <1>4, <3>1, AppendedLog DEF QuietLog
    <3>3. /\ Silent(replay.at + 1, replay.end) => Silent(replay.at + 1, replay.end)'
          /\ Silent(replay.at, replay.end) => Silent(replay.at, replay.end)'
          /\ Open(replay.turn) => Open(replay.turn)'
      <4>1. /\ Silent(replay.at + 1, replay.end) => Silent(replay.at + 1, replay.end)'
            /\ Silent(replay.at, replay.end) => Silent(replay.at, replay.end)'
        BY <1>4, <2>1, <3>1 DEF Silent
      <4>2. Open(replay.turn) => Open(replay.turn)'
        BY <1>1, <1>4, <2>1 DEF Open
      <4> QED BY <4>1, <4>2
    <3>4. replay.at < replay.end => log'[replay.at] = log[replay.at]
      <4>1. replay.at < replay.end => replay.at \in DOMAIN log
        <5>1. DOMAIN log = 1..Len(log) /\ Len(log) \in Nat
          BY <1>1
        <5> QED BY <3>1, <5>1
      <4> QED BY <1>1, <1>4, <4>1, AppendedLog DEF QuietLog
    <3>5. ReplayInTurn'
      BY <1>4, <2>1, <2>4, <3>2, <3>3, <3>4 DEF ReplayInTurn
    <3> QED BY <1>4, <2>4, <3>5 DEF ReplayInTurn
  <2> QED BY <2>3, <2>4
<1>5. CASE TurnStart
  <2>1. /\ AppendEvent(Boundary("turn/start", turn + 1)) /\ turn + 1 \in Nat
        /\ agent = "idle" /\ replay = NoReplay
        /\ agent' = "running" /\ replay' = NoReplay /\ turn' = turn + 1
    BY <1>1, <1>5 DEF TurnStart
  <2>2. ASSUME NEW t \in Nat, t = turn + 1 PROVE Open(t)'
    BY <1>1, <1>3, <2>1, <2>2, StartOpens
  <2>3. Open(turn)'
    BY <2>1, <2>2 DEF Open
  <2> QED BY <2>1, <2>3
<1>6. CASE TurnEnd
  <2>1. /\ AppendEvent(Boundary("turn/end", turn)) /\ agent = "running" /\ replay = NoReplay
        /\ agent' = "idle" /\ replay' = NoReplay
    BY <1>6 DEF TurnEnd
  <2>2. Closed'
    BY <1>1, <1>3, <2>1, EndCloses
  <2> QED BY <2>1, <2>2
<1>7. CASE RedoStart
  <2>a. PICK i \in RedoTarget : \E range \in turnLogRange(log, log[i].turn) :
          replay' = [tomb |-> i, turn |-> FakeBase + log[i].turn,
                     at |-> range[1], end |-> range[2]]
    BY <1>7 DEF RedoStart
  <2>1. PICK range \in turnLogRange(log, log[i].turn) :
          replay' = [tomb |-> i, turn |-> FakeBase + log[i].turn,
                     at |-> range[1], end |-> range[2]]
    BY <2>a
  <2>2. agent = "idle" /\ agent' = "idle" /\ replay = NoReplay /\ log' = log
    BY <1>1, <1>7 DEF RedoStart, RedoTarget
  <2>3. Closed
    BY <2>2
  <2>4. log[i].turn \in Nat
    <3>1. i \in DOMAIN log
      BY DEF RedoTarget, findLastUndoTombstone, Tombstones
    <3>2. \A e \in Event : e.turn \in Nat
      BY DEF Event
    <3> QED BY <1>1, <3>1, <3>2
  <2>5. /\ range[1] < range[2] /\ range[1] \in DOMAIN log /\ range[2] \in DOMAIN log
        /\ log[range[1]].type = "turn/start" /\ log[range[2]].type = "turn/end"
        /\ Silent(range[1] + 1, range[2])
    BY <1>1, <2>3, <2>4, RangeSilent
  <2>6. replay'.at = range[1] /\ replay'.end = range[2]
    BY <2>1
  <2>7. Closed' /\ Silent(replay.at + 1, replay.end)'
    BY <2>2, <2>3, <2>5, <2>6 DEF Closed, Followed, Silent, IsBoundary
  <2>8. ReplayInTurn'
    BY <2>2, <2>5, <2>6, <2>7 DEF ReplayInTurn
  <2>9. replay' # NoReplay
    BY <1>1, <2>5, <2>6 DEF NoReplay
  <2> QED BY <2>2, <2>8, <2>9
<1>8. CASE RedoAppend
  <2>1. replay # NoReplay /\ replay' # NoReplay
    <3>1. replay # NoReplay
      BY <1>8 DEF RedoAppend
    <3>2. \E i \in Nat : replay'.at = i + 1
      BY <1>3, <1>8, CopyStep
    <3> QED BY <3>1, <3>2 DEF NoReplay
  <2>2. ReplayInTurn'
    BY <1>3, <1>8, <2>1, ReplayStep
  <2> QED BY <2>1, <2>2 DEF ReplayInTurn
<1>9. CASE RedoDone
  <2>1. replay # NoReplay /\ NextStep = {} /\ replay' = NoReplay /\ log' = log /\ agent' = agent
    BY <1>9 DEF RedoDone
  <2>2. ReplayInTurn /\ replay.at > replay.end
    BY <2>1, PastRange
  <2>3. Closed
    BY <2>2 DEF ReplayInTurn, TypeInv, TypeOK
  <2>4. Closed'
    BY <2>1, <2>3 DEF Closed, Followed, IsBoundary
  <2> QED BY <2>1, <2>2, <2>4 DEF ReplayInTurn
<1>10. CASE RedoFail
  <2>1. /\ replay # NoReplay /\ replay' = NoReplay /\ agent' = agent
        /\ AppendEvent(Boundary("turn/end", replay.turn))
    BY <1>10 DEF RedoFail
  <2>2. ReplayInTurn /\ (Closed \/ Open(replay.turn))
    BY <2>1 DEF ReplayInTurn
  <2>3. Closed'
    BY <1>1, <1>3, <2>1, <2>2, EndCloses
  <2> QED BY <2>1, <2>2, <2>3 DEF ReplayInTurn
<1>11. CASE RedoFailOpen
  BY <1>1, <1>11 DEF RedoFailOpen, OneFault, TurnsInv
<1>12. CASE UNCHANGED vars
  BY <1>4, <1>12 DEF vars, QuietLog
<1> HIDE DEF Turns
<1> QED BY <1>4, <1>5, <1>6, <1>7, <1>8, <1>9, <1>10, <1>11, <1>12, RowsAreQuiet
        DEF Next, Harness, Handlers

LEMMA TurnsInvariant == Spec => []TurnsInv
<1>1. Init => TurnsInv
  BY BoundsAssumption DEF Init, TurnsInv, Shaped, Closed, Budgets, OneFault
<1> QED BY <1>1, TurnsNext, TypeInvariant, PTL DEF Spec

\* A turn that opens is closed: between turns and redos the last turn/start of
\* the log has its turn/end, after a redo that failed half way too, unless a
\* second append was rejected (index.ts:206-242).
THEOREM TurnsAreClosed == Spec => []LastTurnClosed
<1>1. TypeInv /\ TurnsInv => LastTurnClosed
  <2> SUFFICES ASSUME TypeInv, TurnsInv, agent = "idle", replay = NoReplay, OneFault,
                      NEW i \in DOMAIN log, log[i].type = "turn/start"
               PROVE  \E j \in (i + 1)..Len(log) : log[j] = Boundary("turn/end", log[i].turn)
    BY DEF LastTurnClosed, OneFault
  <2>1. PICK j \in DOMAIN log : j > i /\ log[j] = Boundary("turn/end", log[i].turn)
    BY DEF TurnsInv, Closed, Followed
  <2>2. j \in (i + 1)..Len(log)
    BY <2>1 DEF TypeInv, TypeOK
  <2> QED BY <2>1, <2>2
<1> QED BY <1>1, TypeInvariant, TurnsInvariant, PTL

-----------------------------------------------------------------------------
(* The model sees nothing twice.                                           *)

TailNode == surface[Len(surface)]

\* A boundary lies between i and j.
Apart(i, j) == \E b \in DOMAIN log : i < b /\ b < j /\ IsBoundary(b)

Bodies ==
  \A i \in DOMAIN log :
    /\ log[i].body <= i
    /\ log[i].op = "append" => log[i].body # 0
    /\ log[i].op = "replace" => log[i].body \in {0, i}
    /\ log[i].op = "none" => log[i].body = 0

SurfaceRows == \A p \in DOMAIN surface : log[surface[p]].op # "none" /\ ~IsBoundary(surface[p])

\* Behind a row that was appended come only younger rows: a replacement takes
\* the place of younger rows, too.
Ordered ==
  \A p, q \in DOMAIN surface :
    p < q /\ log[surface[p]].op = "append" => surface[p] < surface[q]

RowsInv == Bodies /\ SurfaceRows /\ Ordered

-----------------------------------------------------------------------------
Fresh(e) == e.body = Len(log) + 1

\* The session adds a boundary, ...
AddsBoundary == \E type \in BoundaryTypes, t \in Nat :
  AppendEvent(Boundary(type, t)) /\ UNCHANGED surface

\* ... a row of its own at the tail, ...
AddsRow ==
  \E e \in Event :
    /\ e.op = "append" /\ e.type \in MessageTypes \cup {"system/message"} /\ Fresh(e)
    /\ AppendRow(e)

\* ... a row that replaces others, or a copy (CopiesRow).
Replaces(e, lo, hi) ==
  /\ e.op = "replace" /\ e.type \in MessageTypes \cup {"system/message"}
  /\ e.body = 0 \/ Fresh(e)
  /\ lo \in DOMAIN surface /\ hi \in DOMAIN surface /\ lo <= hi
  /\ AppendReplacement(e, lo, hi)

LEMMA AddedRow ==
  ASSUME TypeInv, TypeInv', SystemPrompt \/ \E type \in MessageTypes : TurnRow(type)
  PROVE  AddsRow /\ agent = "running" /\ replay = NoReplay /\ UNCHANGED <<agent, turn, replay>>
<1>1. CASE SystemPrompt
  <2> DEFINE e == Row("system/message", turn, 0, Len(log) + 1)
  <2>1. AppendRow(e) /\ e.op = "append" /\ e.type = "system/message" /\ Fresh(e)
    BY <1>1 DEF SystemPrompt, Row, Fresh
  <2>2. AppendEvent(e)
    BY <2>1 DEF AppendRow
  <2> HIDE DEF e
  <2>3. e \in Event
    BY <2>2, AppendedEvent
  <2>4. AddsRow
    BY <2>1, <2>3 DEF AddsRow
  <2> QED BY <1>1, <2>4 DEF SystemPrompt
<1>2. ASSUME NEW type \in MessageTypes, TurnRow(type)
      PROVE  AddsRow /\ agent = "running" /\ replay = NoReplay /\ UNCHANGED <<agent, turn, replay>>
  <2> DEFINE e == Row(type, IF type = "user/message" THEN 0 ELSE turn, StepOf(type), Len(log) + 1)
  <2>1. AppendRow(e) /\ e.op = "append" /\ e.type = type /\ Fresh(e)
    BY <1>2 DEF TurnRow, Row, Fresh
  <2>2. AppendEvent(e)
    BY <2>1 DEF AppendRow
  <2> HIDE DEF e
  <2>3. e \in Event
    BY <2>2, AppendedEvent
  <2>4. AddsRow
    BY <2>1, <2>3 DEF AddsRow
  <2> QED BY <1>2, <2>4 DEF TurnRow
<1> QED BY <1>1, <1>2

LEMMA Rewritten ==
  ASSUME TypeInv, TypeInv', NEW type \in {"user/message", "tool/result"},
         NEW lo \in DOMAIN surface, NEW hi \in DOMAIN surface, RewriteRows(type, lo, hi)
  PROVE  /\ \E e \in Event : Replaces(e, lo, hi) /\ Fresh(e) /\ e.type \in MessageTypes
         /\ agent = "running" /\ replay = NoReplay /\ UNCHANGED <<agent, turn, replay>>
<1> DEFINE t == IF type = "tool/result" THEN log[surface[lo]].turn ELSE 0
           e == Rewrite(type, t, Len(log) + 1, Cited(lo, hi))
<1>1. /\ AppendReplacement(e, lo, hi) /\ lo <= hi
      /\ e.op = "replace" /\ e.type = type /\ Fresh(e)
  BY DEF RewriteRows, Rewrite, Fresh
<1>2. AppendEvent(e)
  BY <1>1 DEF AppendReplacement
<1> HIDE DEF e
<1>3. e \in Event
  BY <1>2, AppendedEvent
<1>4. Replaces(e, lo, hi)
  BY <1>1 DEF Replaces, MessageTypes
<1>5. e.type \in MessageTypes
  BY <1>1 DEF MessageTypes
<1> QED BY <1>1, <1>3, <1>4, <1>5 DEF RewriteRows

LEMMA Compacted ==
  ASSUME TypeInv, TypeInv', Compact
  PROVE  /\ \E e \in Event, lo \in DOMAIN surface : Replaces(e, lo, Len(surface)) /\ Fresh(e)
         /\ agent = "idle" /\ replay = NoReplay /\ UNCHANGED <<agent, turn, replay>>
<1> DEFINE lo == IF HeadIsSystem THEN 2 ELSE 1
           e == Rewrite("user/message", 0, Len(log) + 1, Cited(lo, Len(surface)))
<1>1. /\ AppendReplacement(e, lo, Len(surface)) /\ lo <= Len(surface)
      /\ e.op = "replace" /\ e.type = "user/message" /\ Fresh(e)
  BY DEF Compact, Rewrite, Fresh
<1>2. AppendEvent(e)
  BY <1>1 DEF AppendReplacement
<1>3. lo \in DOMAIN surface /\ Len(surface) \in DOMAIN surface
  <2>1. Len(surface) \in Nat /\ DOMAIN surface = 1..Len(surface)
    BY DEF TypeInv, TypeOK
  <2> QED BY <1>1, <2>1
<1> HIDE DEF e, lo
<1>4. e \in Event
  BY <1>2, AppendedEvent
<1>5. Replaces(e, lo, Len(surface))
  BY <1>1, <1>3 DEF Replaces, MessageTypes
<1> QED BY <1>1, <1>3, <1>4, <1>5 DEF Compact

\* An undo of message m replaces the trailing run of the rows of its turn.
LEMMA Undone ==
  ASSUME TypeInv, TypeInv', NEW m \in findAssistantMessages(log), performUndo(m)
  PROVE  /\ \E range \in turnLogRange(log, log[m].turn) :
              \E run \in trailingTurnRun(surface, TurnSeqs(range)) : \E e \in Event :
                /\ Replaces(e, run[1], run[2])
                /\ isUndoTombstone(e) /\ e.turn = log[m].turn
                /\ e.cites = Cited(run[1], run[2])
         /\ agent = "idle" /\ replay = NoReplay /\ UNCHANGED <<agent, turn, replay>>
<1>1. PICK target \in UndoTarget(m) : \E step \in lastStepOfTurn(log, target[1]) :
        AppendReplacement(buildTombstoneAppend(log[m].turn, step, Shadowed(target)),
                          target[2][1], target[2][2])
  BY DEF performUndo
<1>2. PICK step \in lastStepOfTurn(log, target[1]) :
        AppendReplacement(buildTombstoneAppend(log[m].turn, step, Shadowed(target)),
                          target[2][1], target[2][2])
  BY <1>1
<1>3. agent # "running"
  BY DEF UndoTarget
<1>4. PICK range \in turnLogRange(log, log[m].turn) :
        target \in {<<range, run>> : run \in trailingTurnRun(surface, TurnSeqs(range))}
  BY <1>3 DEF UndoTarget
<1>5. PICK run \in trailingTurnRun(surface, TurnSeqs(range)) : target = <<range, run>>
  BY <1>4
<1> DEFINE e == buildTombstoneAppend(log[m].turn, step, Cited(run[1], run[2]))
<1>6. /\ AppendReplacement(e, run[1], run[2])
      /\ e.op = "replace" /\ e.type = "system/message" /\ e.body = 0
      /\ e.turn = log[m].turn /\ e.cites = Cited(run[1], run[2])
  BY <1>2, <1>5 DEF Shadowed, buildTombstoneAppend
<1>7. AppendEvent(e)
  BY <1>6 DEF AppendReplacement
<1> HIDE DEF e
<1>8. e \in Event
  BY <1>7, AppendedEvent
<1>9. run[1] \in DOMAIN surface /\ run[2] \in DOMAIN surface /\ run[1] <= run[2]
  BY DEF trailingTurnRun
<1>10. Replaces(e, run[1], run[2]) /\ isUndoTombstone(e)
  BY <1>6, <1>9 DEF Replaces, isUndoTombstone
<1>11. agent = "idle"
  BY <1>3 DEF TypeInv, TypeOK
<1> QED BY <1>6, <1>8, <1>10, <1>11 DEF performUndo

\* Every step of the session is one of these.
Steps ==
  \/ UNCHANGED <<log, surface>>
  \/ AddsBoundary
  \/ AddsRow
  \/ \E e \in Event, lo, hi \in DOMAIN surface : Replaces(e, lo, hi)
  \/ \E i \in DOMAIN log : CopiesRow(i)

LEMMA NextSteps ==
  ASSUME TypeInv, TypeInv', Shaped, [Next]_vars
  PROVE  Steps
<1>1. turn \in Nat /\ replay.turn \in Nat
  BY DEF TypeInv, TypeOK
<1>2. CASE TurnStart \/ TurnEnd
  <2>1. turn + 1 \in Nat /\ "turn/start" \in BoundaryTypes /\ "turn/end" \in BoundaryTypes
    BY <1>1 DEF BoundaryTypes
  <2>2. AddsBoundary
    BY <1>1, <1>2, <2>1 DEF TurnStart, TurnEnd, AddsBoundary
  <2> QED BY <2>2 DEF Steps
<1>3. CASE SystemPrompt \/ \E type \in MessageTypes : TurnRow(type)
  BY <1>3, AddedRow DEF Steps
<1>4. ASSUME NEW type \in {"user/message", "tool/result"},
             NEW lo \in DOMAIN surface, NEW hi \in DOMAIN surface, RewriteRows(type, lo, hi)
      PROVE  Steps
  <2>1. \E e \in Event : Replaces(e, lo, hi)
    BY <1>4, Rewritten
  <2> QED BY <2>1 DEF Steps
<1>5. CASE Compact
  <2>1. \E e \in Event, lo \in DOMAIN surface : Replaces(e, lo, Len(surface))
    BY <1>5, Compacted
  <2> QED BY <2>1 DEF Steps, Replaces
<1>6. ASSUME NEW m \in findAssistantMessages(log), performUndo(m) PROVE Steps
  <2>1. PICK range \in turnLogRange(log, log[m].turn) :
          \E run \in trailingTurnRun(surface, TurnSeqs(range)) : \E e \in Event :
            Replaces(e, run[1], run[2])
    BY <1>6, Undone
  <2> QED BY <2>1 DEF Steps, Replaces
<1>7. CASE RedoAppend
  <2>1. PICK i \in DOMAIN log :
          \/ IsBoundary(i) /\ AppendEvent(Boundary(log[i].type, replay.turn)) /\ UNCHANGED surface
          \/ CopiesRow(i)
    BY <1>7, CopiedStep
  <2>2. CASE CopiesRow(i)
    BY <2>2 DEF Steps
  <2>3. CASE IsBoundary(i) /\ AppendEvent(Boundary(log[i].type, replay.turn)) /\ UNCHANGED surface
    <3>1. AddsBoundary
      BY <1>1, <2>3 DEF AddsBoundary, IsBoundary
    <3> QED BY <3>1 DEF Steps
  <2> QED BY <2>1, <2>2, <2>3
<1>8. CASE RedoFail
  <2>1. AddsBoundary
    BY <1>1, <1>8 DEF RedoFail, AddsBoundary, BoundaryTypes
  <2> QED BY <2>1 DEF Steps
<1>9. CASE RedoStart \/ RedoDone \/ RedoFailOpen \/ UNCHANGED vars
  BY <1>9 DEF RedoStart, RedoDone, RedoFailOpen, vars, Steps
<1> QED BY <1>2, <1>3, <1>4, <1>5, <1>6, <1>7, <1>8, <1>9 DEF Next, Harness, Handlers

-----------------------------------------------------------------------------
\* A new row is the tail.
LEMMA RowAdded ==
  ASSUME LogTyped, NEW e \in Event, AppendRow(e)
  PROVE  /\ Len(surface) \in Nat /\ DOMAIN surface = 1..Len(surface)
         /\ DOMAIN surface' = 1..(Len(surface) + 1) /\ Len(surface') = Len(surface) + 1
         /\ \A p \in DOMAIN surface : surface'[p] = surface[p] /\ surface[p] \in DOMAIN log
         /\ surface'[Len(surface) + 1] = Len(log) + 1 /\ surface' # <<>>
         /\ TailNode' = Len(log) + 1
BY DEF LogTyped, AppendRow, AppendEvent, TailNode

\* A row that replaces positions lo..hi: the rows behind move up.
Moved(p, lo, hi) == IF p < lo THEN p ELSE p + (hi - lo)

LEMMA RowsReplaced ==
  ASSUME LogTyped, NEW lo \in DOMAIN surface, NEW hi \in DOMAIN surface, lo <= hi,
         NEW e \in Event, AppendReplacement(e, lo, hi)
  PROVE  /\ Len(surface) \in Nat /\ DOMAIN surface = 1..Len(surface)
         /\ lo \in Nat /\ hi \in Nat
         /\ lo \in DOMAIN surface' /\ surface'[lo] = Len(log) + 1 /\ surface' # <<>>
         /\ \A p \in DOMAIN surface' : p # lo =>
              /\ Moved(p, lo, hi) \in DOMAIN surface /\ Moved(p, lo, hi) \notin lo..hi
              /\ surface'[p] = surface[Moved(p, lo, hi)]
              /\ p < lo <=> Moved(p, lo, hi) < lo
         /\ \A p, q \in DOMAIN surface' :
              p < q /\ p # lo /\ q # lo => Moved(p, lo, hi) < Moved(q, lo, hi)
         /\ hi = Len(surface) => TailNode' = Len(log) + 1
         /\ hi # Len(surface) => TailNode' = TailNode
<1> DEFINE n == Len(surface) - (hi - lo)
<1>1. /\ surface \in Seq(DOMAIN log) /\ Len(surface) \in Nat /\ DOMAIN surface = 1..Len(surface)
      /\ lo \in Nat /\ hi \in Nat /\ 1 <= lo /\ hi <= Len(surface)
  BY DEF LogTyped
<1>2. surface' = Splice(surface, lo, hi, Len(log) + 1)
  BY DEF AppendReplacement
<1>3. DOMAIN surface' = 1..n /\ n \in Nat
  BY <1>1, <1>2 DEF Splice
<1>4. \A p \in 1..n :
        surface'[p] = IF p < lo THEN surface[p]
                      ELSE IF p = lo THEN Len(log) + 1 ELSE surface[p + (hi - lo)]
  BY <1>2 DEF Splice
<1>5. Len(surface') = n
  <2>1. DOMAIN log \subseteq DOMAIN log' /\ Len(log) + 1 \in DOMAIN log'
    BY DEF LogTyped, AppendReplacement, AppendEvent
  <2>2. lo \in 1..Len(surface) /\ hi \in 1..Len(surface) /\ lo <= hi
    BY <1>1
  <2>3. surface' \in Seq(DOMAIN log')
    BY <1>1, <1>2, <2>1, <2>2, SpliceProperties
  <2> QED BY <1>3, <2>3
<1>6. lo \in 1..n /\ surface'[lo] = Len(log) + 1
  BY <1>1, <1>4
<1>7. surface' # <<>>
  BY <1>3, <1>6
<1>8. \A p \in 1..n : p # lo =>
         /\ Moved(p, lo, hi) \in 1..Len(surface) /\ Moved(p, lo, hi) \notin lo..hi
         /\ surface'[p] = surface[Moved(p, lo, hi)]
         /\ p < lo <=> Moved(p, lo, hi) < lo
  BY <1>1, <1>4 DEF Moved
<1>9. \A p, q \in 1..n : p < q /\ p # lo /\ q # lo => Moved(p, lo, hi) < Moved(q, lo, hi)
  BY <1>1 DEF Moved
<1>10. /\ hi = Len(surface) => TailNode' = Len(log) + 1
       /\ hi # Len(surface) => TailNode' = TailNode
  <2>1. TailNode' = surface'[n]
    BY <1>5 DEF TailNode
  <2>2. hi = Len(surface) => n = lo
    BY <1>1
  <2>3. hi # Len(surface) => n # lo /\ n \in 1..n /\ Moved(n, lo, hi) = Len(surface)
    BY <1>1 DEF Moved
  <2> QED BY <1>6, <1>8, <2>1, <2>2, <2>3 DEF TailNode
<1> QED BY <1>1, <1>3, <1>6, <1>7, <1>8, <1>9, <1>10

\* Old positions keep their events, and what lies between them.
LEMMA LogGrows ==
  ASSUME log \in Seq(Event), NEW e \in Event, AppendEvent(e)
  PROVE  /\ Len(log) \in Nat /\ DOMAIN log = 1..Len(log) /\ DOMAIN log' = 1..(Len(log) + 1)
         /\ \A i \in DOMAIN log : log'[i] = log[i]
         /\ log'[Len(log) + 1] = e
         /\ \A i \in Nat, j \in DOMAIN log' : Apart(i, j)' <=> Apart(i, j)
<1>1. /\ Len(log) \in Nat /\ DOMAIN log = 1..Len(log) /\ DOMAIN log' = 1..(Len(log) + 1)
      /\ \A i \in DOMAIN log : log'[i] = log[i]
      /\ log'[Len(log) + 1] = e
  BY AppendedLog
<1>2. ASSUME NEW i \in Nat, NEW j \in DOMAIN log'
      PROVE  Apart(i, j)' <=> Apart(i, j)
  <2>1. \A b \in DOMAIN log' : b < j => b \in DOMAIN log
    BY <1>1
  <2>2. \A b \in DOMAIN log : b \in DOMAIN log' /\ (IsBoundary(b))' = IsBoundary(b)
    BY <1>1 DEF IsBoundary
  <2> QED BY <2>1, <2>2 DEF Apart
<1> QED BY <1>1, <1>2

RowsTyped == log \in Seq(Event) /\ LogTyped

LEMMA BodiesNext ==
  ASSUME RowsTyped, Bodies, Steps
  PROVE  Bodies'
<1>1. ASSUME NEW e \in Event, AppendEvent(e),
             /\ e.body <= Len(log) + 1
             /\ e.op = "append" => e.body # 0
             /\ e.op = "replace" => e.body \in {0, Len(log) + 1}
             /\ e.op = "none" => e.body = 0
      PROVE  Bodies'
  <2>1. /\ DOMAIN log' = 1..(Len(log) + 1) /\ DOMAIN log = 1..Len(log) /\ Len(log) \in Nat
        /\ \A i \in DOMAIN log : log'[i] = log[i]
        /\ log'[Len(log) + 1] = e
    BY <1>1, LogGrows DEF RowsTyped
  <2>2. \A i \in DOMAIN log' : i \in DOMAIN log \/ i = Len(log) + 1
    BY <2>1
  <2> QED BY <1>1, <2>1, <2>2 DEF Bodies
<1>2. Len(log) \in Nat
  BY DEF RowsTyped
<1>3. CASE UNCHANGED <<log, surface>>
  BY <1>3 DEF Bodies
<1>4. CASE AddsBoundary
  <2>1. PICK type \in BoundaryTypes, t \in Nat : AppendEvent(Boundary(type, t))
    BY <1>4 DEF AddsBoundary
  <2>2. Boundary(type, t) \in Event /\ Boundary(type, t).op = "none" /\ Boundary(type, t).body = 0
    BY BoundaryFields DEF Boundary
  <2> QED BY <1>1, <1>2, <2>1, <2>2
<1>5. CASE AddsRow
  BY <1>1, <1>2, <1>5 DEF AddsRow, Fresh, AppendRow
<1>6. ASSUME NEW e \in Event, NEW lo, NEW hi, Replaces(e, lo, hi) PROVE Bodies'
  BY <1>1, <1>2, <1>6 DEF Replaces, Fresh, AppendReplacement
<1>7. ASSUME NEW i \in DOMAIN log, CopiesRow(i) PROVE Bodies'
  <2>1. PICK e \in Event : e.op = "append" /\ e.body = log[i].body /\ AppendRow(e)
    BY <1>7 DEF CopiesRow
  <2>2. log[i].body # 0 /\ log[i].body <= i /\ i <= Len(log) /\ i \in Nat /\ e.body \in Nat
    <3>1. i <= Len(log) /\ i \in Nat
      BY DEF RowsTyped
    <3>2. e.body \in Nat
      BY DEF Event
    <3> QED BY <1>7, <3>1, <3>2 DEF Bodies, CopiesRow, Copied
  <2> QED BY <1>1, <1>2, <2>1, <2>2 DEF AppendRow
<1> QED BY <1>3, <1>4, <1>5, <1>6, <1>7 DEF Steps

\* What a step does to the surface rows: the tail is new, or a run is replaced.
LEMMA SurfaceRowsNext ==
  ASSUME RowsTyped, SurfaceRows, Steps
  PROVE  SurfaceRows'
<1> DEFINE OK(e) == e.op # "none" /\ e.type \notin BoundaryTypes
<1>0. \A p \in DOMAIN surface : surface[p] \in DOMAIN log
  BY DEF RowsTyped, LogTyped
<1>1. ASSUME NEW e \in Event, AppendEvent(e),
             \A p \in DOMAIN surface' :
               \/ surface'[p] = Len(log) + 1 /\ OK(e)
               \/ \E q \in DOMAIN surface : surface'[p] = surface[q]
      PROVE  SurfaceRows'
  <2>1. /\ \A i \in DOMAIN log : log'[i] = log[i]
        /\ log'[Len(log) + 1] = e
    BY <1>1, LogGrows DEF RowsTyped
  <2> QED BY <1>0, <1>1, <2>1 DEF SurfaceRows, IsBoundary
<1>2. ASSUME NEW e \in Event, AppendRow(e), OK(e) PROVE SurfaceRows'
  <2>1. AppendEvent(e)
    BY <1>2 DEF AppendRow
  <2>2. /\ Len(surface) \in Nat /\ DOMAIN surface = 1..Len(surface)
        /\ DOMAIN surface' = 1..(Len(surface) + 1)
        /\ \A p \in DOMAIN surface : surface'[p] = surface[p]
        /\ surface'[Len(surface) + 1] = Len(log) + 1
    BY <1>2, RowAdded DEF RowsTyped
  <2>3. \A p \in DOMAIN surface' : p \in DOMAIN surface \/ p = Len(surface) + 1
    BY <2>2
  <2> HIDE DEF OK
  <2> QED BY <1>1, <1>2, <2>1, <2>2, <2>3
<1>3. MessageTypes \cap BoundaryTypes = {} /\ "system/message" \notin BoundaryTypes
  BY DEF MessageTypes, BoundaryTypes
<1>4. CASE UNCHANGED <<log, surface>>
  BY <1>4 DEF SurfaceRows, IsBoundary
<1>5. CASE AddsBoundary
  <2>1. PICK type \in BoundaryTypes, t \in Nat :
          AppendEvent(Boundary(type, t)) /\ UNCHANGED surface
    BY <1>5 DEF AddsBoundary
  <2> HIDE DEF OK
  <2> QED BY <1>1, <2>1, BoundaryFields
<1>6. CASE AddsRow
  <2>1. \E e \in Event : AppendRow(e) /\ OK(e)
    BY <1>3, <1>6 DEF AddsRow
  <2> QED BY <1>2, <2>1
<1>7. ASSUME NEW e \in Event, NEW lo \in DOMAIN surface, NEW hi \in DOMAIN surface,
             Replaces(e, lo, hi)
      PROVE  SurfaceRows'
  <2>1. OK(e) /\ lo <= hi /\ AppendReplacement(e, lo, hi) /\ AppendEvent(e)
    BY <1>3, <1>7 DEF Replaces, AppendReplacement
  <2>2. \A p \in DOMAIN surface' :
          \/ surface'[p] = Len(log) + 1
          \/ \E q \in DOMAIN surface : surface'[p] = surface[q]
    BY <2>1, RowsReplaced DEF RowsTyped
  <2> HIDE DEF OK
  <2> QED BY <1>1, <2>1, <2>2
<1>8. ASSUME NEW i \in DOMAIN log, CopiesRow(i) PROVE SurfaceRows'
  <2>1. \E e \in Event : AppendRow(e) /\ OK(e)
    BY <1>3, <1>8 DEF CopiesRow, Copied
  <2> QED BY <1>2, <2>1
<1> QED BY <1>4, <1>5, <1>6, <1>7, <1>8 DEF Steps

LEMMA OrderedNext ==
  ASSUME RowsTyped, Ordered, Steps
  PROVE  Ordered'
<1>0. /\ Len(log) \in Nat /\ DOMAIN log = 1..Len(log)
      /\ \A p \in DOMAIN surface : surface[p] \in DOMAIN log
  BY DEF RowsTyped, LogTyped
<1>1. CASE UNCHANGED <<log, surface>>
  BY <1>1 DEF Ordered
<1>2. CASE AddsBoundary
  <2>1. PICK type \in BoundaryTypes, t \in Nat :
          AppendEvent(Boundary(type, t)) /\ UNCHANGED surface
    BY <1>2 DEF AddsBoundary
  <2>2. \A i \in DOMAIN log : log'[i] = log[i]
    BY <2>1, BoundaryFields, LogGrows DEF RowsTyped
  <2> QED BY <1>0, <2>1, <2>2 DEF Ordered
<1>3. ASSUME NEW e \in Event, AppendRow(e) PROVE Ordered'
  <2>1. \A i \in DOMAIN log : log'[i] = log[i]
    BY <1>3, LogGrows DEF RowsTyped, AppendRow
  <2>2. /\ Len(surface) \in Nat /\ DOMAIN surface = 1..Len(surface)
        /\ DOMAIN surface' = 1..(Len(surface) + 1)
        /\ \A p \in DOMAIN surface : surface'[p] = surface[p]
        /\ surface'[Len(surface) + 1] = Len(log) + 1
    BY <1>3, RowAdded DEF RowsTyped
  <2>3. ASSUME NEW p \in DOMAIN surface', NEW q \in DOMAIN surface', p < q,
               log'[surface'[p]].op = "append"
        PROVE  surface'[p] < surface'[q]
    <3>1. p \in DOMAIN surface /\ (q \in DOMAIN surface \/ q = Len(surface) + 1)
      BY <2>2, <2>3
    <3>2. surface'[p] = surface[p] /\ surface[p] \in DOMAIN log /\ log[surface[p]].op = "append"
      BY <1>0, <2>1, <2>2, <2>3, <3>1
    <3> QED BY <1>0, <2>2, <2>3, <3>1, <3>2 DEF Ordered
  <2> QED BY <2>3 DEF Ordered
<1>4. ASSUME NEW e \in Event, NEW lo \in DOMAIN surface, NEW hi \in DOMAIN surface,
             Replaces(e, lo, hi)
      PROVE  Ordered'
  <2>1. lo <= hi /\ AppendReplacement(e, lo, hi) /\ AppendEvent(e) /\ e.op = "replace"
    BY <1>4 DEF Replaces, AppendReplacement
  <2>2. /\ \A i \in DOMAIN log : log'[i] = log[i]
        /\ log'[Len(log) + 1] = e
    BY <2>1, LogGrows DEF RowsTyped
  <2>3. /\ surface'[lo] = Len(log) + 1
        /\ \A p \in DOMAIN surface' : p # lo =>
              /\ Moved(p, lo, hi) \in DOMAIN surface
              /\ surface'[p] = surface[Moved(p, lo, hi)]
        /\ \A p, q \in DOMAIN surface' :
              p < q /\ p # lo /\ q # lo => Moved(p, lo, hi) < Moved(q, lo, hi)
    BY <2>1, RowsReplaced DEF RowsTyped
  <2>4. ASSUME NEW p \in DOMAIN surface', NEW q \in DOMAIN surface', p < q,
               log'[surface'[p]].op = "append"
        PROVE  surface'[p] < surface'[q]
    <3>1. p # lo
      BY <2>1, <2>2, <2>3, <2>4
    <3>2. log[surface[Moved(p, lo, hi)]].op = "append"
      BY <1>0, <2>2, <2>3, <2>4, <3>1
    <3>3. CASE q = lo
      BY <1>0, <2>3, <3>1, <3>3
    <3>4. CASE q # lo
      BY <2>3, <2>4, <3>1, <3>2, <3>4 DEF Ordered
    <3> QED BY <3>3, <3>4
  <2> QED BY <2>4 DEF Ordered
<1> QED BY <1>1, <1>2, <1>3, <1>4 DEF Steps, AddsRow, CopiesRow

-----------------------------------------------------------------------------
LEMMA TailTyped ==
  ASSUME RowsTyped, surface # <<>>
  PROVE  TailNode \in DOMAIN log /\ Len(surface) \in DOMAIN surface
BY DEF RowsTyped, LogTyped, TailNode

LEMMA RangeStays ==
  ASSUME log \in Seq(Event), NEW e \in Event, AppendEvent(e), NEW t \in Nat,
         NEW range \in turnLogRange(log, t)
  PROVE  range \in turnLogRange(log', t)
<1>1. /\ Len(log) \in Nat /\ DOMAIN log = 1..Len(log) /\ DOMAIN log' = 1..(Len(log) + 1)
      /\ \A i \in DOMAIN log : log'[i] = log[i]
  BY AppendedLog
<1>2. /\ Starts(log, t) \subseteq Starts(log', t) /\ Ends(log, t) \subseteq Ends(log', t)
      /\ \A i \in Starts(log', t) \cup Ends(log', t) :
           i \in Starts(log, t) \cup Ends(log, t) \/ i = Len(log) + 1
  BY <1>1 DEF Starts, Ends
<1>3. /\ range \in Starts(log, t) \X Ends(log, t) /\ range[1] < range[2]
      /\ \A x \in Ends(log, t) : x < range[2] => \A s \in Starts(log, t) : x < s
      /\ \A s \in Starts(log, t) : s < range[2] => s <= range[1]
  BY DEF turnLogRange
<1>4. range[2] \in DOMAIN log /\ range[1] \in DOMAIN log
  BY <1>3 DEF Starts, Ends
<1>5. /\ \A x \in Ends(log', t) : x < range[2] => x \in Ends(log, t)
      /\ \A s \in Starts(log', t) : s \in Starts(log, t) \/ s = Len(log) + 1
      /\ \A x \in Ends(log, t) : x < Len(log) + 1
  <2>1. \A x \in DOMAIN log' : x \in DOMAIN log \/ x = Len(log) + 1
    BY <1>1
  <2> QED BY <1>1, <1>4, <2>1 DEF Starts, Ends
<1>6. \A s \in Starts(log', t) : s < range[2] => s \in Starts(log, t)
  BY <1>1, <1>4, <1>5
<1>7. range \in Starts(log', t) \X Ends(log', t)
  BY <1>2, <1>3
<1> QED BY <1>3, <1>5, <1>6, <1>7 DEF turnLogRange

LEMMA RangeUnique ==
  ASSUME NEW l \in Seq(Event), NEW t,
         NEW r \in turnLogRange(l, t), NEW s \in turnLogRange(l, t)
  PROVE  r = s
<1>1. /\ r \in Starts(l, t) \X Ends(l, t) /\ r[1] < r[2]
      /\ \A x \in Ends(l, t) : x < r[2] => \A y \in Starts(l, t) : x < y
      /\ \A y \in Starts(l, t) : y < r[2] => y <= r[1]
  BY DEF turnLogRange
<1>2. /\ s \in Starts(l, t) \X Ends(l, t) /\ s[1] < s[2]
      /\ \A x \in Ends(l, t) : x < s[2] => \A y \in Starts(l, t) : x < y
      /\ \A y \in Starts(l, t) : y < s[2] => y <= s[1]
  BY DEF turnLogRange
<1>3. r[1] \in Nat /\ r[2] \in Nat /\ s[1] \in Nat /\ s[2] \in Nat
  BY <1>1, <1>2 DEF Starts, Ends
<1>4. r[2] = s[2]
  BY <1>1, <1>2, <1>3
<1>5. r[1] = s[1]
  BY <1>1, <1>2, <1>3, <1>4
<1> QED BY <1>1, <1>2, <1>4, <1>5

-----------------------------------------------------------------------------
(* Turns and redos in order, whatever the session rejects.                 *)

\* Nothing was started or ended behind the last turn/start of t.
OpenTurn(t) == \E o \in Starts(log, t) : \A j \in DOMAIN log : j > o => ~IsBoundary(j)

\* The next turn/end of t cannot close over another turn: t is over, was never
\* started, or is open.
Settled(t) == turnLogRange(log, t) # {} \/ Starts(log, t) = {} \/ OpenTurn(t)

\* t is the fake turn of a turn that is behind the tail: no undo reaches that
\* turn any more, so no new redo uses t.
Spent(t) ==
  \E T \in Nat :
    /\ t = FakeBase + T /\ surface # <<>>
    /\ \E range \in turnLogRange(log, T) : range[2] < TailNode

TombTail == surface # <<>> /\ isUndoTombstone(log[TailNode])

\* t is the fake turn of the turn whose tombstone is the tail.
Reopens(t) == TombTail /\ t = FakeBase + log[TailNode].turn

RangesSilent == \A t \in Nat : \A r \in turnLogRange(log, t) : Silent(r[1] + 1, r[2])

\* A replay is at the turn/start of its range, inside it with its fake turn
\* open, or past its turn/end.
RedoOrder ==
  /\ agent = "idle" /\ Spent(replay.turn)
  /\ \A t \in Nat : Reopens(t) => t = replay.turn
  /\ replay.at <= replay.end => log[replay.end].type = "turn/end"
  /\ \/ /\ replay.at < replay.end /\ log[replay.at].type = "turn/start"
        /\ Silent(replay.at + 1, replay.end) /\ Settled(replay.turn)
     \/ replay.at <= replay.end /\ Silent(replay.at, replay.end) /\ OpenTurn(replay.turn)
     \/ replay.at > replay.end

\* A turn that stays open after a redo that failed twice is spent: it is
\* settled again before an undo can offer it to another redo.
TurnOrder ==
  /\ RangesSilent
  /\ \A t \in Nat : Settled(t) \/ Spent(t)
  /\ agent = "running" =>
       replay = NoReplay /\ OpenTurn(turn) /\ (budget["rows"] < MaxRows => ~TombTail)
  /\ agent = "idle" => \A t \in Nat : OpenTurn(t) => Spent(t)
  /\ \A t \in Nat : Reopens(t) => Spent(t) /\ (agent = "idle" => Settled(t))
  /\ replay # NoReplay => RedoOrder

LEMMA RangeFields ==
  ASSUME log \in Seq(Event), RangesSilent, NEW t \in Nat, NEW range \in turnLogRange(log, t)
  PROVE  /\ range[1] \in DOMAIN log /\ range[2] \in DOMAIN log /\ range[1] < range[2]
         /\ log[range[1]].type = "turn/start" /\ log[range[2]].type = "turn/end"
         /\ Silent(range[1] + 1, range[2])
BY DEF RangesSilent, turnLogRange, Starts, Ends

LEMMA GreatestOf ==
  ASSUME NEW n \in Nat, NEW S \in SUBSET (0..n), S # {}
  PROVE  \E k \in S : \A j \in S : j <= k
<1> DEFINE D == {n - j : j \in S}
<1>1. D \in SUBSET Nat /\ D # {}
  <2>1. \A j \in S : n - j \in Nat
    OBVIOUS
  <2> QED BY <2>1
<1>2. PICK d \in D : \A x \in D : d <= x
  BY <1>1, LeastOf
<1>3. PICK k \in S : d = n - k
  BY <1>2
<1>4. ASSUME NEW j \in S PROVE j <= k
  <2>1. n - j \in D /\ n - k <= n - j
    BY <1>2, <1>3
  <2>2. j \in Nat /\ k \in Nat
    OBVIOUS
  <2> QED BY <2>1, <2>2
<1> QED BY <1>4

\* A turn that was started before it was ended has a range.
LEMMA RangeExists ==
  ASSUME NEW l \in Seq(Event), NEW t, NEW s \in Starts(l, t), NEW e \in Ends(l, t), s < e
  PROVE  turnLogRange(l, t) # {}
<1>1. /\ Len(l) \in Nat /\ DOMAIN l = 1..Len(l)
      /\ Starts(l, t) \subseteq DOMAIN l /\ Ends(l, t) \subseteq DOMAIN l
  BY DEF Starts, Ends
<1> DEFINE E == {x \in Ends(l, t) : \E y \in Starts(l, t) : y < x}
<1>2. E \in SUBSET Nat /\ E # {}
  BY <1>1
<1>3. PICK x \in E : \A z \in E : x <= z
  BY <1>2, LeastOf
<1> DEFINE S == {y \in Starts(l, t) : y < x}
<1>4. S \in SUBSET (0..Len(l)) /\ S # {}
  BY <1>1, <1>3
<1>5. PICK y \in S : \A z \in S : z <= y
  BY <1>1, <1>4, GreatestOf
<1>6. ASSUME NEW z \in Ends(l, t), z < x, NEW w \in Starts(l, t) PROVE z < w
  <2>1. z \notin E
    BY <1>1, <1>3, <1>6
  <2>2. ~(w < z)
    BY <1>6, <2>1
  <2>3. z # w
    BY DEF Starts, Ends
  <2> QED BY <1>1, <2>2, <2>3
<1>7. <<y, x>> \in turnLogRange(l, t)
  BY <1>3, <1>5, <1>6 DEF turnLogRange
<1> QED BY <1>7

\* An event that is no boundary leaves the turns alone.
LEMMA QuietTurns ==
  ASSUME log \in Seq(Event), QuietLog
  PROVE  \A t \in Nat :
           /\ turnLogRange(log', t) = turnLogRange(log, t) /\ Starts(log', t) = Starts(log, t)
           /\ OpenTurn(t)' <=> OpenTurn(t)
           /\ Settled(t)' <=> Settled(t)
<1> SUFFICES ASSUME NEW t \in Nat
             PROVE  /\ turnLogRange(log', t) = turnLogRange(log, t)
                    /\ Starts(log', t) = Starts(log, t)
                    /\ OpenTurn(t)' <=> OpenTurn(t)
  BY DEF Settled
<1>1. CASE log' = log
  BY <1>1 DEF OpenTurn, IsBoundary
<1>2. ASSUME NEW e \in Event, e.type \notin BoundaryTypes, AppendEvent(e)
      PROVE  /\ Starts(log', t) = Starts(log, t) /\ Ends(log', t) = Ends(log, t)
             /\ \A j \in DOMAIN log' : log'[j].type \in BoundaryTypes => j \in DOMAIN log
             /\ \A j \in DOMAIN log : j \in DOMAIN log' /\ log'[j] = log[j]
  <2>1. /\ Len(log) \in Nat /\ DOMAIN log = 1..Len(log) /\ DOMAIN log' = 1..(Len(log) + 1)
        /\ \A i \in DOMAIN log : log'[i] = log[i]
        /\ log'[Len(log) + 1] = e
    BY <1>2, AppendedLog
  <2>2. \A i \in DOMAIN log' : i \in DOMAIN log \/ log'[i] = e
    BY <2>1
  <2>3. \A j \in DOMAIN log' : log'[j].type \in BoundaryTypes => j \in DOMAIN log
    BY <1>2, <2>2
  <2>4. \A j \in DOMAIN log : j \in DOMAIN log' /\ log'[j] = log[j]
    BY <2>1
  <2> QED BY <2>3, <2>4 DEF Starts, Ends, BoundaryTypes
<1>3. ASSUME NEW e \in Event, e.type \notin BoundaryTypes, AppendEvent(e)
      PROVE  /\ turnLogRange(log', t) = turnLogRange(log, t)
             /\ Starts(log', t) = Starts(log, t)
             /\ OpenTurn(t)' <=> OpenTurn(t)
  <2>1. /\ Starts(log', t) = Starts(log, t) /\ Ends(log', t) = Ends(log, t)
        /\ \A j \in DOMAIN log' : log'[j].type \in BoundaryTypes => j \in DOMAIN log
        /\ \A j \in DOMAIN log : j \in DOMAIN log' /\ log'[j] = log[j]
    BY <1>2, <1>3
  <2>2. turnLogRange(log', t) = turnLogRange(log, t)
    BY <2>1 DEF turnLogRange
  <2>3. OpenTurn(t)' <=> OpenTurn(t)
    BY <2>1 DEF OpenTurn, IsBoundary
  <2> QED BY <2>1, <2>2, <2>3
<1> QED BY <1>1, <1>3 DEF QuietLog

\* A turn/start opens its turn and no other.
LEMMA StartTurns ==
  ASSUME log \in Seq(Event), NEW t0 \in Nat, AppendEvent(Boundary("turn/start", t0))
  PROVE  /\ \A t \in Nat : turnLogRange(log', t) = turnLogRange(log, t)
         /\ \A t \in Nat : OpenTurn(t)' <=> t = t0
         /\ \A t \in Nat : Settled(t) /\ ~OpenTurn(t) => Settled(t)'
         /\ Settled(t0)'
<1> DEFINE e == Boundary("turn/start", t0)
           n == Len(log) + 1
<1>1. e \in Event /\ e.type = "turn/start" /\ e.turn = t0
  BY BoundaryFields DEF BoundaryTypes
<1> HIDE DEF e
<1>2. /\ Len(log) \in Nat /\ DOMAIN log = 1..Len(log) /\ DOMAIN log' = 1..n
      /\ \A i \in DOMAIN log : log'[i] = log[i]
      /\ log'[n] = e
  BY <1>1, AppendedLog DEF e
<1>3. \A i \in DOMAIN log' : i \in DOMAIN log \/ i = n
  BY <1>2
<1>4. ASSUME NEW t \in Nat
      PROVE  /\ Ends(log', t) = Ends(log, t) /\ Starts(log, t) \subseteq Starts(log', t)
             /\ \A s \in Starts(log', t) : s \in Starts(log, t) \/ (s = n /\ t = t0)
  BY <1>1, <1>2, <1>3 DEF Starts, Ends
<1>5. ASSUME NEW t \in Nat PROVE turnLogRange(log', t) = turnLogRange(log, t)
  <2>1. \A r \in turnLogRange(log, t) : r \in turnLogRange(log', t)
    BY <1>1, RangeStays DEF e
  <2>2. ASSUME NEW r \in turnLogRange(log', t) PROVE r \in turnLogRange(log, t)
    <3>1. /\ r \in Starts(log', t) \X Ends(log', t) /\ r[1] < r[2]
          /\ \A x \in Ends(log', t) : x < r[2] => \A s \in Starts(log', t) : x < s
          /\ \A s \in Starts(log', t) : s < r[2] => s <= r[1]
      BY <2>2 DEF turnLogRange
    <3>2. r[2] \in DOMAIN log
      BY <1>4, <3>1 DEF Ends
    <3>3. r[1] # n
      BY <1>2, <3>1, <3>2
    <3>4. r \in Starts(log, t) \X Ends(log, t)
      BY <1>4, <3>1, <3>3
    <3> QED BY <1>4, <3>1, <3>4 DEF turnLogRange
  <2> QED BY <2>1, <2>2
<1>6. ASSUME NEW t \in Nat PROVE OpenTurn(t)' <=> t = t0
  <2>1. log'[n].type \in BoundaryTypes /\ n \in DOMAIN log'
    BY <1>1, <1>2 DEF BoundaryTypes
  <2>2. ASSUME OpenTurn(t)' PROVE t = t0
    <3>1. PICK o \in Starts(log', t) : \A j \in DOMAIN log' : j > o => log'[j].type \notin BoundaryTypes
      BY <2>2 DEF OpenTurn, IsBoundary
    <3>2. ~(n > o)
      BY <2>1, <3>1
    <3>3. o = n
      <4>1. o \in DOMAIN log'
        BY DEF Starts
      <4> QED BY <1>2, <3>2, <4>1
    <3> QED BY <1>1, <1>2, <3>1, <3>3 DEF Starts
  <2>3. ASSUME t = t0 PROVE OpenTurn(t)'
    <3>1. n \in Starts(log', t)
      BY <1>1, <1>2, <2>1, <2>3 DEF Starts
    <3>2. \A j \in DOMAIN log' : ~(j > n)
      BY <1>2
    <3> QED BY <3>1, <3>2 DEF OpenTurn
  <2> QED BY <2>2, <2>3
<1>7. ASSUME NEW t \in Nat, Settled(t), ~OpenTurn(t) PROVE Settled(t)'
  <2>1. CASE t = t0
    BY <1>6, <2>1 DEF Settled
  <2>2. CASE t # t0
    <3>1. Starts(log', t) = Starts(log, t)
      BY <1>4, <2>2
    <3> QED BY <1>5, <1>7, <3>1 DEF Settled
  <2> QED BY <2>1, <2>2
<1>8. Settled(t0)'
  BY <1>6 DEF Settled
<1> QED BY <1>5, <1>6, <1>7, <1>8

\* A turn/end of a settled turn settles it for good.
LEMMA EndTurns ==
  ASSUME log \in Seq(Event), NEW t0 \in Nat, AppendEvent(Boundary("turn/end", t0)),
         Settled(t0), RangesSilent
  PROVE  /\ RangesSilent'
         /\ \A t \in Nat : ~OpenTurn(t)'
         /\ \A t \in Nat : Settled(t) /\ (OpenTurn(t) => t = t0) => Settled(t)'
<1> DEFINE e == Boundary("turn/end", t0)
           n == Len(log) + 1
<1>1. e \in Event /\ e.type = "turn/end" /\ e.turn = t0
  BY BoundaryFields DEF BoundaryTypes
<1> HIDE DEF e
<1>2. /\ Len(log) \in Nat /\ DOMAIN log = 1..Len(log) /\ DOMAIN log' = 1..n
      /\ \A i \in DOMAIN log : log'[i] = log[i]
      /\ log'[n] = e
  BY <1>1, AppendedLog DEF e
<1>3. \A i \in DOMAIN log' : i \in DOMAIN log \/ i = n
  BY <1>2
<1>4. ASSUME NEW t \in Nat
      PROVE  /\ Starts(log', t) = Starts(log, t) /\ Ends(log, t) \subseteq Ends(log', t)
             /\ \A x \in Ends(log', t) : x \in Ends(log, t) \/ (x = n /\ t = t0)
  BY <1>1, <1>2, <1>3 DEF Starts, Ends
<1>5. ASSUME NEW t \in Nat PROVE ~OpenTurn(t)'
  <2> SUFFICES ASSUME OpenTurn(t)' PROVE FALSE
    OBVIOUS
  <2>1. PICK o \in Starts(log', t) : \A j \in DOMAIN log' : j > o => log'[j].type \notin BoundaryTypes
    BY DEF OpenTurn, IsBoundary
  <2>2. log'[n].type \in BoundaryTypes /\ n \in DOMAIN log'
    BY <1>1, <1>2 DEF BoundaryTypes
  <2>3. o \in DOMAIN log
    BY <1>4 DEF Starts
  <2>4. n > o
    BY <1>2, <2>3
  <2> QED BY <2>1, <2>2, <2>4
<1>6. ASSUME NEW t \in Nat, NEW r \in turnLogRange(log', t)
      PROVE  r \in turnLogRange(log, t) \/ (r[2] = n /\ t = t0)
  <2>1. /\ r \in Starts(log', t) \X Ends(log', t) /\ r[1] < r[2]
        /\ \A x \in Ends(log', t) : x < r[2] => \A s \in Starts(log', t) : x < s
        /\ \A s \in Starts(log', t) : s < r[2] => s <= r[1]
    BY <1>6 DEF turnLogRange
  <2>2. CASE r[2] \in Ends(log, t)
    <3>1. r \in Starts(log, t) \X Ends(log, t)
      BY <1>4, <2>1, <2>2
    <3> QED BY <1>4, <2>1, <3>1 DEF turnLogRange
  <2> QED BY <1>4, <2>1, <2>2
<1>7. ASSUME NEW lo \in Nat, NEW hi \in DOMAIN log, Silent(lo, hi) PROVE Silent(lo, hi)'
  <2>1. \A j \in DOMAIN log' : j < hi => j \in DOMAIN log
    BY <1>2
  <2> QED BY <1>2, <1>7, <2>1 DEF Silent, IsBoundary
<1>8. ASSUME NEW t \in Nat, NEW r \in turnLogRange(log, t) PROVE Silent(r[1] + 1, r[2])'
  <2>1. /\ r[1] \in DOMAIN log /\ r[2] \in DOMAIN log /\ Silent(r[1] + 1, r[2])
    BY RangeFields
  <2>2. r[1] + 1 \in Nat
    BY <1>2, <2>1
  <2>3. \A lo \in Nat : Silent(lo, r[2]) => Silent(lo, r[2])'
    BY <1>7, <2>1 DEF Silent
  <2> QED BY <2>1, <2>2, <2>3 DEF Silent
<1>9. ASSUME NEW r \in turnLogRange(log', t0), r[2] = n, r \notin turnLogRange(log, t0)
      PROVE  Silent(r[1] + 1, r[2])'
  <2>1. /\ r \in Starts(log', t0) \X Ends(log', t0)
        /\ \A s \in Starts(log', t0) : s < r[2] => s <= r[1]
    BY <1>9 DEF turnLogRange
  <2>2. turnLogRange(log, t0) = {}
    <3> SUFFICES ASSUME NEW q \in turnLogRange(log, t0) PROVE FALSE
      OBVIOUS
    <3>1. q \in turnLogRange(log', t0)
      BY <1>1, RangeStays DEF e
    <3>2. log' \in Seq(Event)
      BY <1>1 DEF e, AppendEvent
    <3>3. q = r
      BY <1>9, <3>1, <3>2, RangeUnique
    <3> QED BY <1>9, <3>3
  <2>3. Starts(log, t0) # {}
    BY <1>4, <2>1
  <2>4. OpenTurn(t0)
    BY <2>2, <2>3 DEF Settled
  <2>5. PICK o \in Starts(log, t0) : \A j \in DOMAIN log : j > o => ~IsBoundary(j)
    BY <2>4 DEF OpenTurn
  <2>6. o \in DOMAIN log /\ r[1] \in DOMAIN log
    BY <1>4, <2>1 DEF Starts
  <2>7. o < n /\ o <= r[1]
    BY <1>2, <1>4, <1>9, <2>1, <2>6
  <2>8. ASSUME NEW j \in DOMAIN log', r[1] + 1 <= j, j < n PROVE ~IsBoundary(j)'
    <3>1. j \in DOMAIN log /\ j > o
      BY <1>2, <2>6, <2>7, <2>8
    <3> QED BY <1>2, <2>5, <3>1 DEF IsBoundary
  <2> QED BY <1>9, <2>8 DEF Silent
<1>10. RangesSilent'
  <2> SUFFICES ASSUME NEW t \in Nat, NEW r \in turnLogRange(log', t)
               PROVE  Silent(r[1] + 1, r[2])'
    BY DEF RangesSilent, Silent
  <2> QED BY <1>6, <1>8, <1>9
<1>11. ASSUME NEW t \in Nat, Settled(t), OpenTurn(t) => t = t0 PROVE Settled(t)'
  <2>1. CASE turnLogRange(log, t) # {}
    <3>1. PICK r \in turnLogRange(log, t) : TRUE
      BY <2>1
    <3>2. r \in turnLogRange(log', t)
      BY <1>1, RangeStays DEF e
    <3> QED BY <3>2 DEF Settled
  <2>2. CASE Starts(log, t) = {}
    BY <1>4, <2>2 DEF Settled
  <2>3. CASE OpenTurn(t)
    <3>1. PICK o \in Starts(log, t) : TRUE
      BY <2>3 DEF OpenTurn
    <3>2. o \in Starts(log', t) /\ n \in Ends(log', t)
      BY <1>1, <1>2, <1>4, <1>11, <2>3 DEF Ends
    <3>3. o < n
      BY <1>2 DEF Starts
    <3>4. log' \in Seq(Event)
      BY <1>1 DEF e, AppendEvent
    <3> QED BY <3>2, <3>3, <3>4, RangeExists DEF Settled
  <2> QED BY <1>11, <2>1, <2>2, <2>3 DEF Settled
<1> QED BY <1>5, <1>10, <1>11

-----------------------------------------------------------------------------
LEMMA TailMoves ==
  ASSUME RowsTyped, Steps
  PROVE  /\ log' = log \/ \E e \in Event : AppendEvent(e)
         /\ surface # <<>> => surface' # <<>> /\ (TailNode' = TailNode \/ TailNode' = Len(log) + 1)
<1> DEFINE Goal == /\ log' = log \/ \E e \in Event : AppendEvent(e)
                   /\ surface # <<>> =>
                        surface' # <<>> /\ (TailNode' = TailNode \/ TailNode' = Len(log) + 1)
<1>1. CASE UNCHANGED <<log, surface>>
  BY <1>1 DEF TailNode
<1>2. ASSUME AddsBoundary PROVE Goal
  <2>1. PICK type \in BoundaryTypes, t \in Nat : AppendEvent(Boundary(type, t)) /\ UNCHANGED surface
    BY <1>2 DEF AddsBoundary
  <2>2. \E e \in Event : AppendEvent(e)
    BY <2>1, BoundaryFields
  <2> QED BY <2>1, <2>2 DEF TailNode
<1>3. ASSUME NEW e \in Event, AppendRow(e) PROVE Goal
  BY <1>3, RowAdded DEF RowsTyped, AppendRow
<1>4. ASSUME NEW e \in Event, NEW lo \in DOMAIN surface, NEW hi \in DOMAIN surface, Replaces(e, lo, hi)
      PROVE  Goal
  <2>1. lo <= hi /\ AppendReplacement(e, lo, hi) /\ AppendEvent(e)
    BY <1>4 DEF Replaces, AppendReplacement
  <2> QED BY <2>1, RowsReplaced DEF RowsTyped
<1> HIDE DEF Goal
<1>5. Goal
  BY <1>1, <1>2, <1>3, <1>4 DEF Steps, AddsRow, CopiesRow, Goal
<1> QED BY <1>5 DEF Goal

\* What is spent stays spent.
LEMMA SpentStays ==
  ASSUME RowsTyped, Steps, NEW t \in Nat, Spent(t)
  PROVE  Spent(t)'
<1>1. PICK T \in Nat : /\ t = FakeBase + T /\ surface # <<>>
                       /\ \E range \in turnLogRange(log, T) : range[2] < TailNode
  BY DEF Spent
<1>2. PICK range \in turnLogRange(log, T) : range[2] < TailNode
  BY <1>1
<1>3. range \in turnLogRange(log', T)
  <2>1. CASE log' = log
    BY <2>1
  <2>2. ASSUME NEW e \in Event, AppendEvent(e) PROVE range \in turnLogRange(log', T)
    BY <2>2, RangeStays DEF RowsTyped
  <2> QED BY <2>1, <2>2, TailMoves
<1>4. surface' # <<>> /\ range[2] < TailNode'
  <2>1. range[2] \in DOMAIN log /\ Len(log) \in Nat /\ DOMAIN log = 1..Len(log)
    BY DEF turnLogRange, Ends, RowsTyped
  <2>2. range[2] < Len(log) + 1
    BY <2>1
  <2> QED BY <1>1, <1>2, <2>2, TailMoves
<1> QED BY <1>1, <1>3, <1>4 DEF Spent

\* Only an undo puts a tombstone at the tail.
LEMMA TombTailKept ==
  ASSUME RowsTyped, Bodies,
         \/ UNCHANGED <<log, surface>>
         \/ AddsBoundary
         \/ AddsRow
         \/ \E e \in Event, lo, hi \in DOMAIN surface :
              Replaces(e, lo, hi) /\ (hi = Len(surface) => Fresh(e))
         \/ \E i \in DOMAIN log : CopiesRow(i),
         TombTail'
  PROVE  TombTail /\ TailNode' = TailNode /\ log'[TailNode] = log[TailNode]
<1> DEFINE Goal == TombTail /\ TailNode' = TailNode /\ log'[TailNode] = log[TailNode]
<1> USE DEF TombTail
<1>1. surface' # <<>> /\ isUndoTombstone(log'[TailNode'])
  OBVIOUS
<1>2. Len(log) \in Nat /\ \A p \in DOMAIN surface : surface[p] \in DOMAIN log
  BY DEF RowsTyped, LogTyped
<1>3. ASSUME surface # <<>>, TailNode' = TailNode, \A i \in DOMAIN log : log'[i] = log[i]
      PROVE  Goal
  BY <1>1, <1>3, TailTyped
<1>4. ASSUME UNCHANGED <<log, surface>> PROVE Goal
  BY <1>3, <1>4 DEF TailNode
<1>5. ASSUME AddsBoundary PROVE Goal
  <2>1. PICK type \in BoundaryTypes, u \in Nat : AppendEvent(Boundary(type, u)) /\ UNCHANGED surface
    BY <1>5 DEF AddsBoundary
  <2>2. \A i \in DOMAIN log : log'[i] = log[i]
    BY <2>1, BoundaryFields, LogGrows DEF RowsTyped
  <2> QED BY <1>1, <1>3, <2>1, <2>2 DEF TailNode
<1>6. ASSUME NEW e \in Event, AppendEvent(e), TailNode' = Len(log) + 1, ~isUndoTombstone(e) PROVE FALSE
  <2>1. log'[Len(log) + 1] = e
    BY <1>6, LogGrows DEF RowsTyped
  <2> QED BY <1>1, <1>6, <2>1
<1>7. ASSUME NEW e \in Event, e.op = "append", AppendRow(e) PROVE FALSE
  <2>1. AppendEvent(e) /\ TailNode' = Len(log) + 1 /\ ~isUndoTombstone(e)
    BY <1>7, RowAdded DEF AppendRow, RowsTyped, isUndoTombstone
  <2> QED BY <1>6, <2>1
<1>8. ASSUME NEW e \in Event, NEW lo \in DOMAIN surface, NEW hi \in DOMAIN surface,
             Replaces(e, lo, hi), hi = Len(surface) => Fresh(e)
      PROVE  Goal
  <2>1. lo <= hi /\ AppendReplacement(e, lo, hi) /\ AppendEvent(e)
    BY <1>8 DEF Replaces, AppendReplacement
  <2>2. CASE hi = Len(surface)
    <3>1. TailNode' = Len(log) + 1
      BY <2>1, <2>2, RowsReplaced DEF RowsTyped
    <3>2. ~isUndoTombstone(e)
      BY <1>2, <1>8, <2>2 DEF Fresh, isUndoTombstone
    <3> QED BY <1>6, <2>1, <3>1, <3>2
  <2>3. CASE hi # Len(surface)
    <3>1. TailNode' = TailNode /\ surface # <<>>
      BY <2>1, <2>3, RowsReplaced DEF RowsTyped, LogTyped
    <3>2. \A i \in DOMAIN log : log'[i] = log[i]
      BY <2>1, LogGrows DEF RowsTyped
    <3> QED BY <1>3, <3>1, <3>2
  <2> QED BY <2>2, <2>3
<1> HIDE DEF Goal, TombTail
<1>9. Goal
  BY <1>4, <1>5, <1>7, <1>8 DEF AddsRow, CopiesRow
<1> QED BY <1>9 DEF Goal

LEMMA TombTailStays ==
  ASSUME RowsTyped, Bodies,
         \/ UNCHANGED <<log, surface>>
         \/ AddsBoundary
         \/ AddsRow
         \/ \E e \in Event, lo, hi \in DOMAIN surface :
              Replaces(e, lo, hi) /\ (hi = Len(surface) => Fresh(e))
         \/ \E i \in DOMAIN log : CopiesRow(i),
         NEW t \in Nat, Reopens(t)'
  PROVE  Reopens(t)
<1>1. TombTail'
  BY DEF Reopens
<1> QED BY <1>1, TombTailKept DEF Reopens

\* What a lemma about the order of turns may assume.
OrderSound ==
  /\ TypeInv /\ TypeInv' /\ RowsTyped /\ RowsInv /\ Shaped /\ TurnOrder /\ Steps

\* Steps between redos that log no boundary.
LEMMA QuietOrder ==
  ASSUME OrderSound, QuietLog, UNCHANGED <<agent, turn, replay>>, replay = NoReplay,
         agent = "running" => (budget'["rows"] < MaxRows => ~TombTail'),
         \A t \in Nat : Reopens(t)' => Spent(t)' /\ (agent = "idle" => Settled(t))
  PROVE  TurnOrder'
<1> USE DEF OrderSound
<1>1. \A t \in Nat :
        /\ turnLogRange(log', t) = turnLogRange(log, t)
        /\ OpenTurn(t)' <=> OpenTurn(t)
        /\ Settled(t)' <=> Settled(t)
  BY QuietTurns DEF RowsTyped
<1>2. \A t \in Nat : Spent(t) => Spent(t)'
  BY SpentStays
<1>3. RangesSilent'
  <2> SUFFICES ASSUME NEW t \in Nat, NEW r \in turnLogRange(log, t)
               PROVE  Silent(r[1] + 1, r[2])'
    BY <1>1 DEF RangesSilent, Silent
  <2>1. r[1] \in DOMAIN log /\ r[2] \in DOMAIN log /\ Silent(r[1] + 1, r[2])
    BY RangeFields DEF RowsTyped, TurnOrder
  <2>2. r[1] + 1 \in Nat
    BY <2>1 DEF RowsTyped
  <2> QED BY <2>1, <2>2, QuietKeeps DEF RowsTyped, Silent
<1>4. agent = "running" => OpenTurn(turn)'
  <2> SUFFICES ASSUME agent = "running" PROVE OpenTurn(turn)'
    OBVIOUS
  <2>1. turn \in Nat /\ OpenTurn(turn)
    BY DEF TypeInv, TypeOK, TurnOrder
  <2>2. ASSUME NEW t \in Nat, t = turn PROVE OpenTurn(t)'
    BY <1>1, <2>1, <2>2
  <2> QED BY <2>1, <2>2 DEF OpenTurn
<1> QED BY <1>1, <1>2, <1>3, <1>4 DEF TurnOrder

\* A turn/start of t0 while every open turn is spent.
LEMMA StartOrder ==
  ASSUME OrderSound, NEW t0 \in Nat, AppendEvent(Boundary("turn/start", t0)), UNCHANGED surface,
         agent = "idle"
  PROVE  /\ RangesSilent'
         /\ \A t \in Nat : Settled(t)' \/ Spent(t)'
         /\ \A t \in Nat : OpenTurn(t)' <=> t = t0
         /\ \A t \in Nat : Spent(t) => Spent(t)'
         /\ \A t \in Nat : Reopens(t)' => Spent(t)'
         /\ TombTail' => TombTail
         /\ \A t \in Nat : Reopens(t)' => Reopens(t)
         /\ Settled(t0)'
<1> USE DEF OrderSound
<1>1. /\ \A t \in Nat : turnLogRange(log', t) = turnLogRange(log, t)
      /\ \A t \in Nat : OpenTurn(t)' <=> t = t0
      /\ \A t \in Nat : Settled(t) /\ ~OpenTurn(t) => Settled(t)'
      /\ Settled(t0)'
  BY StartTurns DEF RowsTyped
<1>2. AddsBoundary /\ \E e \in Event : AppendEvent(e)
  BY BoundaryFields DEF AddsBoundary, BoundaryTypes
<1>3. \A t \in Nat : Spent(t) => Spent(t)'
  BY SpentStays
<1>4. \A t \in Nat : Reopens(t)' => Reopens(t)
  BY <1>2, TombTailStays DEF RowsInv
<1>5. TombTail' => TombTail
  <2>1. surface # <<>> => TailNode \in DOMAIN log /\ log'[TailNode] = log[TailNode]
    BY <1>2, TailTyped, LogGrows DEF RowsTyped
  <2> QED BY <2>1 DEF TombTail, TailNode
<1>6. RangesSilent'
  <2> SUFFICES ASSUME NEW t \in Nat, NEW r \in turnLogRange(log, t)
               PROVE  Silent(r[1] + 1, r[2])'
    BY <1>1 DEF RangesSilent, Silent
  <2>1. r[1] \in DOMAIN log /\ r[2] \in DOMAIN log /\ Silent(r[1] + 1, r[2])
    BY RangeFields DEF RowsTyped, TurnOrder
  <2>2. /\ DOMAIN log = 1..Len(log) /\ Len(log) \in Nat /\ DOMAIN log' = 1..(Len(log) + 1)
        /\ \A i \in DOMAIN log : log'[i] = log[i]
    BY <1>2, LogGrows DEF RowsTyped
  <2>3. \A j \in DOMAIN log' : j < r[2] => j \in DOMAIN log
    BY <2>1, <2>2
  <2> QED BY <2>1, <2>2, <2>3 DEF Silent, IsBoundary
<1>7. \A t \in Nat : Settled(t)' \/ Spent(t)'
  BY <1>1, <1>3 DEF TurnOrder
<1>8. \A t \in Nat : Reopens(t)' => Spent(t)'
  BY <1>3, <1>4 DEF TurnOrder
<1> QED BY <1>1, <1>3, <1>4, <1>5, <1>6, <1>7, <1>8

\* A turn/end of a settled turn.
LEMMA EndOrder ==
  ASSUME OrderSound, NEW t0 \in Nat, AppendEvent(Boundary("turn/end", t0)), UNCHANGED surface,
         Settled(t0), \A t \in Nat : OpenTurn(t) => Spent(t) \/ t = t0
  PROVE  /\ RangesSilent'
         /\ \A t \in Nat : Settled(t)' \/ Spent(t)'
         /\ \A t \in Nat : ~OpenTurn(t)'
         /\ \A t \in Nat : Spent(t) => Spent(t)'
         /\ \A t \in Nat : Reopens(t)' => Spent(t)' /\ Reopens(t)
         /\ Settled(t0)'
<1> USE DEF OrderSound
<1>1. /\ RangesSilent'
      /\ \A t \in Nat : ~OpenTurn(t)'
      /\ \A t \in Nat : Settled(t) /\ (OpenTurn(t) => t = t0) => Settled(t)'
  BY EndTurns DEF RowsTyped, TurnOrder
<1>2. AddsBoundary
  BY DEF AddsBoundary, BoundaryTypes
<1>3. \A t \in Nat : Spent(t) => Spent(t)'
  BY SpentStays
<1>4. \A t \in Nat : Reopens(t)' => Reopens(t)
  BY <1>2, TombTailStays DEF RowsInv
<1>5. \A t \in Nat : Settled(t)' \/ Spent(t)'
  BY <1>1, <1>3 DEF TurnOrder
<1>6. \A t \in Nat : Reopens(t)' => Spent(t)'
  BY <1>3, <1>4 DEF TurnOrder
<1> QED BY <1>1, <1>3, <1>4, <1>5, <1>6

\* An undo: the tombstone it puts at the tail is of a turn no redo has reopened.
LEMMA UndoOrder ==
  ASSUME OrderSound, NEW m \in findAssistantMessages(log), performUndo(m)
  PROVE  TurnOrder'
<1> USE DEF OrderSound
<1>1. agent = "idle" /\ replay = NoReplay /\ UNCHANGED <<agent, turn, replay>>
  BY Undone
<1>2. PICK range \in turnLogRange(log, log[m].turn) :
        \E run \in trailingTurnRun(surface, TurnSeqs(range)) : \E e \in Event :
          Replaces(e, run[1], run[2]) /\ e.turn = log[m].turn
  BY Undone
<1>3. PICK run \in trailingTurnRun(surface, TurnSeqs(range)) : \E e \in Event :
        Replaces(e, run[1], run[2]) /\ e.turn = log[m].turn
  BY <1>2
<1>4. PICK e \in Event : Replaces(e, run[1], run[2]) /\ e.turn = log[m].turn
  BY <1>3
<1>5. /\ run[1] <= run[2] /\ run[1] \in DOMAIN surface /\ run[2] \in DOMAIN surface
      /\ AppendReplacement(e, run[1], run[2]) /\ AppendEvent(e)
  BY <1>4 DEF Replaces, AppendReplacement
<1>6. QuietLog
  BY RowsAreQuiet
<1>7. log[m].turn \in Nat
  BY <1>4 DEF Event
<1>8. ASSUME NEW t \in Nat, Reopens(t)'
      PROVE  Spent(t)' /\ Settled(t)
  <2>1. CASE run[2] # Len(surface)
    <3>1. Reopens(t)
      BY <1>4, <1>5, <1>8, <2>1, TombTailStays DEF RowsInv
    <3> QED BY <1>1, <3>1, SpentStays DEF TurnOrder
  <2>2. CASE run[2] = Len(surface)
    <3>1. TailNode' = Len(log) + 1 /\ surface' # <<>>
      BY <1>5, <2>2, RowsReplaced DEF RowsTyped
    <3>2. log'[TailNode'] = e /\ t = FakeBase + log[m].turn
      BY <1>4, <1>5, <1>8, <3>1, LogGrows DEF RowsTyped, Reopens
    <3>3. range \in turnLogRange(log', log[m].turn)
      BY <1>5, <1>7, RangeStays DEF RowsTyped
    <3>4. /\ range[1] \in DOMAIN log /\ range[2] \in DOMAIN log
          /\ Len(log) \in Nat /\ DOMAIN log = 1..Len(log)
      BY DEF turnLogRange, Starts, Ends, RowsTyped
    <3>5. Spent(t)'
      <4>1. range[2] < TailNode'
        BY <3>1, <3>4
      <4> QED BY <1>7, <3>1, <3>2, <3>3, <4>1 DEF Spent
    <3>6. TailNode \in TurnSeqs(range)
      <4>1. run[2] \in run[1]..run[2]
        <5>1. run[1] \in Nat /\ run[2] \in Nat
          BY <1>5, RowsReplaced DEF RowsTyped
        <5> QED BY <1>5, <5>1
      <4> QED BY <2>2, <4>1 DEF trailingTurnRun, TailNode
    <3>7. TailNode <= range[2]
      BY <3>4, <3>6 DEF TurnSeqs, shadowedTurnNodes
    <3>8. ~Spent(t)
      <4> SUFFICES ASSUME Spent(t) PROVE FALSE
        OBVIOUS
      <4>1. PICK T \in Nat : t = FakeBase + T /\ \E r \in turnLogRange(log, T) : r[2] < TailNode
        BY DEF Spent
      <4>2. T = log[m].turn
        BY <1>7, <3>2, <4>1, FakeBaseAssumption
      <4>3. PICK r \in turnLogRange(log, log[m].turn) : r[2] < TailNode
        BY <4>1, <4>2
      <4>4. r = range
        BY RangeUnique DEF RowsTyped
      <4>5. TailNode \in Nat
        <5>1. surface # <<>>
          BY <1>5 DEF RowsTyped, LogTyped
        <5> QED BY <3>4, <5>1, TailTyped
      <4> QED BY <3>4, <3>7, <4>3, <4>4, <4>5
    <3> QED BY <3>5, <3>8 DEF TurnOrder
  <2> QED BY <2>1, <2>2
<1> QED BY <1>1, <1>6, <1>8, QuietOrder

LEMMA RedoStartOrder ==
  ASSUME OrderSound, RedoStart
  PROVE  TurnOrder'
<1> USE DEF OrderSound
<1>1. PICK i \in RedoTarget : \E range \in turnLogRange(log, log[i].turn) :
        replay' = [tomb |-> i, turn |-> FakeBase + log[i].turn,
                   at |-> range[1], end |-> range[2]]
  BY DEF RedoStart
<1>2. PICK range \in turnLogRange(log, log[i].turn) :
        replay' = [tomb |-> i, turn |-> FakeBase + log[i].turn,
                   at |-> range[1], end |-> range[2]]
  BY <1>1
<1>3. /\ log' = log /\ surface' = surface /\ replay = NoReplay
      /\ agent = "idle" /\ agent' = "idle" /\ turn' = turn
  BY DEF RedoStart, RedoTarget, TypeInv, TypeOK
<1>4. surface # <<>> /\ TailNode = i /\ isUndoTombstone(log[i]) /\ i \in DOMAIN log
  BY DEF RedoTarget, isSurfaceTail, findLastUndoTombstone, Tombstones, TailNode
<1>5. log[i].turn \in Nat /\ FakeBase + log[i].turn \in Nat
  <2>1. \A e \in Event : e.turn \in Nat
    BY DEF Event
  <2>2. log[i] \in Event
    BY <1>4 DEF RowsTyped
  <2> QED BY <2>1, <2>2, FakeBaseAssumption
<1>6. replay'.at = range[1] /\ replay'.end = range[2] /\ replay'.turn = FakeBase + log[i].turn
  BY <1>2
<1>7. Reopens(FakeBase + log[i].turn)
  BY <1>4 DEF Reopens, TombTail
<1>8. Spent(FakeBase + log[i].turn) /\ Settled(FakeBase + log[i].turn)
  BY <1>3, <1>5, <1>7 DEF TurnOrder
<1>9. /\ range[1] \in DOMAIN log /\ range[2] \in DOMAIN log /\ range[1] < range[2]
      /\ log[range[1]].type = "turn/start" /\ log[range[2]].type = "turn/end"
      /\ Silent(range[1] + 1, range[2])
  BY <1>5, RangeFields DEF RowsTyped, TurnOrder
<1>10. RedoOrder'
  <2>1. Spent(replay.turn)'
    BY <1>3, <1>6, <1>8 DEF Spent, TailNode
  <2>2. Settled(replay.turn)'
    BY <1>3, <1>6, <1>8 DEF Settled, OpenTurn, IsBoundary
  <2>3. \A t \in Nat : Reopens(t)' => t = replay'.turn
    BY <1>3, <1>4, <1>6 DEF Reopens, TailNode
  <2>4. Silent(replay.at + 1, replay.end)'
    BY <1>3, <1>6, <1>9 DEF Silent, IsBoundary
  <2> QED BY <1>3, <1>6, <1>9, <2>1, <2>2, <2>3, <2>4 DEF RedoOrder
<1>11. /\ RangesSilent' /\ \A t \in Nat : Settled(t)' \/ Spent(t)'
       /\ \A t \in Nat : OpenTurn(t)' => Spent(t)'
       /\ \A t \in Nat : Reopens(t)' => Spent(t)' /\ Settled(t)'
  BY <1>3 DEF TurnOrder, RangesSilent, Silent, IsBoundary, Settled, OpenTurn, Spent, TailNode,
     Reopens, TombTail
<1> QED BY <1>3, <1>10, <1>11 DEF TurnOrder

LEMMA RedoAppendOrder ==
  ASSUME OrderSound, RedoAppend
  PROVE  TurnOrder'
<1> USE DEF OrderSound
<1>1. PICK i \in replay.at..replay.end :
           /\ i \in DOMAIN log /\ i \in Nat /\ hasReplayRole(log[i])
           /\ \A j \in replay.at..(i - 1) : ~hasReplayRole(log[j])
           /\ replay'.at = i + 1 /\ replay'.end = replay.end /\ replay'.turn = replay.turn
           /\ agent' = agent /\ replay # NoReplay /\ replay' # NoReplay
           /\ \/ IsBoundary(i) /\ AppendEvent(Boundary(log[i].type, replay.turn)) /\ UNCHANGED surface
              \/ CopiesRow(i)
  BY CopiedStep
<1>2. /\ log \in Seq(Event) /\ replay.at \in Nat /\ replay.end \in DOMAIN log /\ replay.turn \in Nat
      /\ DOMAIN log = 1..Len(log) /\ Len(log) \in Nat /\ replay.end \in Nat
      /\ replay.at <= i /\ i <= replay.end
  <2>1. /\ log \in Seq(Event) /\ replay.at \in Nat /\ replay.end \in DOMAIN log
        /\ replay.turn \in Nat
    BY <1>1 DEF TypeInv, TypeOK, ReplayInLog
  <2> QED BY <1>1, <2>1
<1>3. /\ agent = "idle" /\ agent' = "idle" /\ Spent(replay.turn)
      /\ \A t \in Nat : Reopens(t) => t = replay.turn
      /\ log[replay.end].type = "turn/end" /\ RedoOrder
  BY <1>1, <1>2 DEF TurnOrder, RedoOrder
<1>4. /\ \A j \in DOMAIN log : log'[j] = log[j]
      /\ DOMAIN log' = 1..(Len(log) + 1)
  <2>1. \E e \in Event : AppendEvent(e)
    <3>1. CASE CopiesRow(i)
      BY <3>1 DEF CopiesRow, AppendRow
    <3>2. CASE IsBoundary(i) /\ AppendEvent(Boundary(log[i].type, replay.turn))
      BY <1>2, <3>2, BoundaryFields DEF IsBoundary
    <3> QED BY <1>1, <3>1, <3>2
  <2> QED BY <2>1, LogGrows DEF RowsTyped
<1>5. log'[replay'.end].type = "turn/end"
  BY <1>1, <1>2, <1>3, <1>4
<1>6. ASSUME NEW lo \in Nat, Silent(lo, replay.end), lo <= i + 1
      PROVE  Silent(replay.at, replay.end)'
  <2> SUFFICES ASSUME NEW j \in DOMAIN log', replay'.at <= j, j < replay'.end
               PROVE  ~IsBoundary(j)'
    BY DEF Silent
  <2>1. j \in DOMAIN log /\ lo <= j /\ j < replay.end
    BY <1>1, <1>2, <1>4, <1>6
  <2> QED BY <1>4, <1>6, <2>1 DEF Silent, IsBoundary
<1>7. Spent(replay.turn)'
  <2>1. ASSUME NEW t \in Nat, t = replay.turn PROVE Spent(t)'
    BY <1>3, <2>1, SpentStays
  <2> QED BY <1>1, <1>2, <2>1 DEF Spent
<1>8. /\ i = replay.end => ~(replay'.at <= replay'.end) /\ replay'.at > replay'.end
      /\ i # replay.end => replay'.at <= replay'.end /\ i < replay.end
  BY <1>1, <1>2
<1>9. CASE log[i].type = "turn/start"
  <2>1. AppendEvent(Boundary("turn/start", replay.turn)) /\ UNCHANGED surface
    BY <1>1, <1>9 DEF CopiesRow, Copied, MessageTypes
  <2>2. ASSUME NEW t0 \in Nat, t0 = replay.turn
        PROVE  /\ RangesSilent'
               /\ \A t \in Nat : Settled(t)' \/ Spent(t)'
               /\ \A t \in Nat : OpenTurn(t)' <=> t = t0
               /\ \A t \in Nat : Reopens(t)' => Spent(t)' /\ Reopens(t)
               /\ Settled(t0)'
    BY <1>3, <2>1, <2>2, StartOrder
  <2>3. OpenTurn(replay.turn)'
    BY <1>1, <1>2, <2>2 DEF OpenTurn
  <2>4. Silent(replay.at, replay.end)'
    <3>1. CASE Silent(replay.at + 1, replay.end)
      <4>1. replay.at + 1 \in Nat /\ replay.at + 1 <= i + 1
        BY <1>1, <1>2
      <4> QED BY <1>6, <3>1, <4>1
    <3>2. CASE Silent(replay.at, replay.end)
      <4>1. replay.at <= i + 1
        BY <1>1, <1>2
      <4> QED BY <1>2, <1>6, <3>2, <4>1
    <3> QED BY <1>2, <1>3, <3>1, <3>2 DEF RedoOrder
  <2>5. i # replay.end
    BY <1>3, <1>9
  <2>6. RedoOrder'
    <3>1. \A t \in Nat : Reopens(t)' => t = replay'.turn
      BY <1>1, <1>2, <1>3, <2>2
    <3> QED BY <1>3, <1>5, <1>7, <1>8, <2>3, <2>4, <2>5, <3>1 DEF RedoOrder
  <2>7. \A t \in Nat : OpenTurn(t)' => Spent(t)'
    <3> SUFFICES ASSUME NEW t \in Nat, OpenTurn(t)' PROVE Spent(t)'
      OBVIOUS
    <3>1. t = replay.turn
      BY <1>2, <2>2
    <3> QED BY <1>3, <3>1, SpentStays
  <2>8. \A t \in Nat : Reopens(t)' => Spent(t)' /\ Settled(t)'
    <3> SUFFICES ASSUME NEW t \in Nat, Reopens(t)' PROVE Spent(t)' /\ Settled(t)'
      OBVIOUS
    <3>1. t = replay.turn
      BY <1>2, <1>3, <2>2
    <3> QED BY <1>2, <2>2, <3>1
  <2> QED BY <1>1, <1>2, <1>3, <2>2, <2>6, <2>7, <2>8 DEF TurnOrder
<1>10. CASE log[i].type = "turn/end"
  <2>1. AppendEvent(Boundary("turn/end", replay.turn)) /\ UNCHANGED surface
    BY <1>1, <1>10 DEF CopiesRow, Copied, MessageTypes
  <2>2. Settled(replay.turn)
    BY <1>2, <1>3 DEF RedoOrder, Settled
  <2>3. ASSUME NEW t0 \in Nat, t0 = replay.turn
        PROVE  /\ RangesSilent'
               /\ \A t \in Nat : Settled(t)' \/ Spent(t)'
               /\ \A t \in Nat : ~OpenTurn(t)'
               /\ \A t \in Nat : Reopens(t)' => Spent(t)' /\ Reopens(t)
               /\ Settled(t0)'
    BY <1>3, <2>1, <2>2, <2>3, EndOrder DEF TurnOrder
  <2>4. i = replay.end
    <3> SUFFICES ASSUME i # replay.end PROVE FALSE
      OBVIOUS
    <3>1. IsBoundary(i) /\ i < replay.end
      BY <1>8, <1>10 DEF IsBoundary, BoundaryTypes
    <3>2. ~(Silent(replay.at, replay.end))
      BY <1>1, <1>2, <3>1 DEF Silent
    <3>3. log[replay.at].type = "turn/start" /\ Silent(replay.at + 1, replay.end)
      BY <1>2, <1>3, <3>2 DEF RedoOrder
    <3>4. i # replay.at /\ replay.at + 1 <= i
      BY <1>1, <1>2, <1>10, <3>3
    <3> QED BY <1>1, <3>1, <3>3, <3>4 DEF Silent
  <2>5. RedoOrder'
    <3>1. \A t \in Nat : Reopens(t)' => t = replay'.turn
      BY <1>1, <1>2, <1>3, <2>3
    <3> QED BY <1>3, <1>7, <1>8, <2>4, <3>1 DEF RedoOrder
  <2>6. \A t \in Nat : Reopens(t)' => Spent(t)' /\ Settled(t)'
    <3> SUFFICES ASSUME NEW t \in Nat, Reopens(t)' PROVE Spent(t)' /\ Settled(t)'
      OBVIOUS
    <3>1. t = replay.turn
      BY <1>2, <1>3, <2>3
    <3> QED BY <1>2, <2>3, <3>1
  <2> QED BY <1>1, <1>2, <1>3, <2>3, <2>5, <2>6 DEF TurnOrder
<1>11. CASE ~IsBoundary(i)
  <2>1. CopiesRow(i)
    BY <1>1, <1>11
  <2>2. PICK e \in Event : e.op = "append" /\ e.type = log[i].type /\ AppendRow(e)
    BY <2>1 DEF CopiesRow
  <2>3. QuietLog
    BY <1>11, <2>2 DEF QuietLog, IsBoundary, AppendRow
  <2>4. /\ \A t \in Nat :
             /\ turnLogRange(log', t) = turnLogRange(log, t)
             /\ OpenTurn(t)' <=> OpenTurn(t)
             /\ Settled(t)' <=> Settled(t)
    BY <2>3, QuietTurns DEF RowsTyped
  <2>5. \A t \in Nat : Spent(t) => Spent(t)'
    BY SpentStays
  <2>6. \A t \in Nat : Reopens(t)' => Reopens(t)
    <3>1. \E k \in DOMAIN log : CopiesRow(k)
      BY <1>1, <2>1
    <3> QED BY <3>1, TombTailStays DEF RowsInv
  <2>7. Silent(replay.at, replay.end) /\ OpenTurn(replay.turn)
    <3>1. ASSUME log[replay.at].type = "turn/start" PROVE FALSE
      <4>1. hasReplayRole(log[replay.at])
        BY <3>1 DEF hasReplayRole, BoundaryTypes
      <4>2. i = replay.at
        BY <1>1, <1>2, <4>1
      <4> QED BY <1>11, <3>1, <4>2 DEF IsBoundary, BoundaryTypes
    <3> QED BY <1>2, <1>3, <3>1 DEF RedoOrder
  <2>8. i # replay.end
    BY <1>3, <1>11 DEF IsBoundary, BoundaryTypes
  <2>9. Silent(replay.at, replay.end)'
    <3>1. replay.at <= i + 1
      BY <1>1, <1>2
    <3> QED BY <1>2, <1>6, <2>7, <3>1
  <2>10. OpenTurn(replay.turn)'
    <3>1. ASSUME NEW t \in Nat, t = replay.turn PROVE OpenTurn(t)'
      BY <2>4, <2>7, <3>1
    <3> QED BY <1>1, <1>2, <3>1 DEF OpenTurn
  <2>11. RedoOrder'
    <3>1. \A t \in Nat : Reopens(t)' => t = replay'.turn
      BY <1>1, <1>3, <2>6
    <3> QED BY <1>3, <1>5, <1>7, <1>8, <2>8, <2>9, <2>10, <3>1 DEF RedoOrder
  <2>12. RangesSilent'
    <3> SUFFICES ASSUME NEW t \in Nat, NEW r \in turnLogRange(log, t)
                 PROVE  Silent(r[1] + 1, r[2])'
      BY <2>4 DEF RangesSilent, Silent
    <3>1. r[1] \in DOMAIN log /\ r[2] \in DOMAIN log /\ Silent(r[1] + 1, r[2])
      BY RangeFields DEF RowsTyped, TurnOrder
    <3>2. r[1] + 1 \in Nat
      BY <3>1 DEF RowsTyped
    <3> QED BY <2>3, <3>1, <3>2, QuietKeeps DEF RowsTyped, Silent
  <2> QED BY <1>1, <1>3, <2>4, <2>5, <2>6, <2>11, <2>12 DEF TurnOrder
<1>12. QED
  BY <1>9, <1>10, <1>11 DEF IsBoundary, BoundaryTypes

LEMMA TurnOrderNext ==
  ASSUME TypeInv, TypeInv', RowsTyped, RowsInv, Shaped, TurnOrder, [Next]_vars
  PROVE  TurnOrder'
<1>0. OrderSound /\ turn \in Nat /\ replay.turn \in Nat /\ agent \in {"idle", "running"}
      /\ budget \in [Budgets -> Nat]
  BY NextSteps DEF OrderSound, TypeInv, TypeOK
<1>1. CASE TurnStart
  <2>1. /\ AppendEvent(Boundary("turn/start", turn + 1)) /\ UNCHANGED surface /\ turn + 1 \in Nat
        /\ agent = "idle" /\ agent' = "running" /\ replay = NoReplay /\ replay' = NoReplay
        /\ turn' = turn + 1 /\ budget'["rows"] = MaxRows
    BY <1>0, <1>1 DEF TurnStart, Budgets
  <2>2. ASSUME NEW t0 \in Nat, t0 = turn + 1
        PROVE  /\ RangesSilent'
               /\ \A t \in Nat : Settled(t)' \/ Spent(t)'
               /\ \A t \in Nat : OpenTurn(t)' <=> t = t0
               /\ \A t \in Nat : Reopens(t)' => Spent(t)'
    BY <1>0, <2>1, <2>2, StartOrder
  <2>3. OpenTurn(turn)'
    BY <2>1, <2>2 DEF OpenTurn
  <2>4. ~(budget'["rows"] < MaxRows)
    BY <2>1, BoundsAssumption
  <2> QED BY <2>1, <2>2, <2>3, <2>4 DEF TurnOrder
<1>2. CASE TurnEnd
  <2>1. /\ AppendEvent(Boundary("turn/end", turn)) /\ UNCHANGED surface
        /\ agent = "running" /\ agent' = "idle" /\ replay = NoReplay /\ replay' = NoReplay
        /\ budget["rows"] < MaxRows
    BY <1>2 DEF TurnEnd
  <2>2. OpenTurn(turn) /\ ~TombTail
    BY <2>1 DEF TurnOrder
  <2>3. ASSUME NEW t \in Nat, OpenTurn(t) PROVE t = turn
    <3>1. PICK o \in Starts(log, t) : \A j \in DOMAIN log : j > o => ~IsBoundary(j)
      BY <2>3 DEF OpenTurn
    <3>2. PICK p \in Starts(log, turn) : \A j \in DOMAIN log : j > p => ~IsBoundary(j)
      BY <2>2 DEF OpenTurn
    <3>3. o \in DOMAIN log /\ p \in DOMAIN log /\ IsBoundary(o) /\ IsBoundary(p)
      BY DEF Starts, IsBoundary, BoundaryTypes
    <3>4. o = p
      BY <3>1, <3>2, <3>3 DEF RowsTyped
    <3> QED BY <3>4 DEF Starts
  <2>4. /\ RangesSilent'
        /\ \A t \in Nat : Settled(t)' \/ Spent(t)'
        /\ \A t \in Nat : ~OpenTurn(t)'
        /\ \A t \in Nat : Reopens(t)' => Spent(t)' /\ Reopens(t)
    BY <1>0, <2>1, <2>2, <2>3, EndOrder DEF Settled
  <2>5. \A t \in Nat : ~Reopens(t)'
    BY <2>2, <2>4 DEF Reopens
  <2> QED BY <2>1, <2>4, <2>5 DEF TurnOrder
<1>3. CASE SystemPrompt \/ \E type \in MessageTypes : TurnRow(type)
  <2>1. AddsRow /\ agent = "running" /\ replay = NoReplay /\ UNCHANGED <<agent, turn, replay>>
    BY <1>3, AddedRow
  <2>2. PICK e \in Event : e.op = "append" /\ AppendRow(e)
    BY <2>1 DEF AddsRow
  <2>3. ~TombTail'
    <3>1. TailNode' = Len(log) + 1 /\ log'[Len(log) + 1] = e
      BY <2>2, RowAdded, LogGrows DEF RowsTyped, AppendRow
    <3> QED BY <2>2, <3>1 DEF TombTail, isUndoTombstone
  <2>4. QuietLog
    BY <1>3, RowsAreQuiet
  <2> QED BY <1>0, <2>1, <2>3, <2>4, QuietOrder DEF Reopens
<1>4. ASSUME NEW type \in {"user/message", "tool/result"},
             NEW lo \in DOMAIN surface, NEW hi \in DOMAIN surface, RewriteRows(type, lo, hi)
      PROVE  TurnOrder'
  <2>1. /\ \E e \in Event : Replaces(e, lo, hi) /\ Fresh(e)
        /\ agent = "running" /\ replay = NoReplay /\ UNCHANGED <<agent, turn, replay>>
    BY <1>4, Rewritten
  <2>2. \A t \in Nat : Reopens(t)' => Reopens(t)
    BY <2>1, TombTailStays DEF RowsInv
  <2>3. TombTail' => TombTail
    <3> SUFFICES ASSUME TombTail' PROVE TombTail
      OBVIOUS
    <3>1. log' \in Seq(Event) /\ surface' \in Seq(DOMAIN log') /\ surface' # <<>>
      BY DEF TombTail, TypeInv, TypeOK
    <3>2. TailNode' \in DOMAIN log'
      BY <3>1 DEF TailNode
    <3>3. log'[TailNode'] \in Event
      BY <3>1, <3>2
    <3>4. log'[TailNode'].turn \in Nat
      BY <3>3 DEF Event
    <3>5. FakeBase + log'[TailNode'].turn \in Nat
      BY <3>4, FakeBaseAssumption
    <3>6. \E t \in Nat : Reopens(t)'
      BY <3>5 DEF Reopens
    <3> QED BY <2>2, <3>6 DEF Reopens
  <2>4. budget'["rows"] = budget["rows"]
    BY <1>0, <1>4 DEF RewriteRows, Spend, Budgets
  <2>5. QuietLog
    BY <1>4, RowsAreQuiet
  <2>6. \A t \in Nat : Reopens(t)' => Spent(t)'
    BY <1>0, <2>2, SpentStays DEF OrderSound, TurnOrder
  <2> QED BY <1>0, <2>1, <2>3, <2>4, <2>5, <2>6, QuietOrder DEF TurnOrder
<1>5. CASE Compact
  <2>1. /\ \E e \in Event, lo \in DOMAIN surface : Replaces(e, lo, Len(surface)) /\ Fresh(e)
        /\ agent = "idle" /\ replay = NoReplay /\ UNCHANGED <<agent, turn, replay>>
    BY <1>5, Compacted
  <2>2. \A t \in Nat : Reopens(t)' => Reopens(t)
    <3>1. \E e \in Event, lo, hi \in DOMAIN surface :
            Replaces(e, lo, hi) /\ (hi = Len(surface) => Fresh(e))
      BY <2>1 DEF Replaces
    <3> QED BY <3>1, TombTailStays DEF RowsInv
  <2>3. QuietLog
    BY <1>5, RowsAreQuiet
  <2>4. \A t \in Nat : Reopens(t)' => Spent(t)' /\ Settled(t)
    BY <1>0, <2>1, <2>2, SpentStays DEF OrderSound, TurnOrder
  <2> QED BY <1>0, <2>1, <2>3, <2>4, QuietOrder
<1>6. ASSUME NEW m \in findAssistantMessages(log), performUndo(m) PROVE TurnOrder'
  BY <1>0, <1>6, UndoOrder
<1>7. CASE RedoStart
  BY <1>0, <1>7, RedoStartOrder
<1>8. CASE RedoAppend
  BY <1>0, <1>8, RedoAppendOrder
<1>9. CASE RedoFail
  <2>1. /\ AppendEvent(Boundary("turn/end", replay.turn)) /\ UNCHANGED surface
        /\ replay # NoReplay /\ replay' = NoReplay /\ agent' = agent /\ NextStep # {}
    BY <1>9 DEF RedoFail
  <2>2. RedoOrder
    BY <2>1 DEF TurnOrder
  <2>3. replay.at <= replay.end
    <3>1. PICK i \in replay.at..replay.end : TRUE
      BY <2>1 DEF NextStep
    <3>2. replay.at \in Nat /\ replay.end \in Nat
      BY DEF TypeInv, TypeOK
    <3> QED BY <3>1, <3>2
  <2>4. Settled(replay.turn) /\ agent = "idle"
    <3>1. replay.at \in Nat /\ replay.end \in Nat
      BY DEF TypeInv, TypeOK
    <3> QED BY <2>2, <2>3, <3>1 DEF RedoOrder, Settled
  <2>5. ASSUME NEW t0 \in Nat, t0 = replay.turn
        PROVE  /\ RangesSilent'
               /\ \A t \in Nat : Settled(t)' \/ Spent(t)'
               /\ \A t \in Nat : ~OpenTurn(t)'
               /\ \A t \in Nat : Reopens(t)' => Spent(t)' /\ Reopens(t)
               /\ Settled(t0)'
    BY <1>0, <2>1, <2>4, <2>5, EndOrder DEF TurnOrder
  <2>6. \A t \in Nat : Reopens(t)' => Spent(t)' /\ Settled(t)'
    <3> SUFFICES ASSUME NEW t \in Nat, Reopens(t)' PROVE Spent(t)' /\ Settled(t)'
      OBVIOUS
    <3>1. t = replay.turn
      BY <1>0, <2>2, <2>5 DEF RedoOrder
    <3> QED BY <1>0, <2>5, <3>1
  <2> QED BY <1>0, <2>1, <2>4, <2>5, <2>6 DEF TurnOrder
<1>10. CASE RedoDone \/ RedoFailOpen
  <2>1. /\ log' = log /\ surface' = surface /\ agent' = agent /\ replay' = NoReplay
        /\ replay # NoReplay
    BY <1>10 DEF RedoDone, RedoFailOpen
  <2>2. agent = "idle"
    BY <2>1 DEF TurnOrder, RedoOrder
  <2>3. /\ RangesSilent' /\ \A t \in Nat : Settled(t)' \/ Spent(t)'
        /\ \A t \in Nat : OpenTurn(t)' => Spent(t)'
        /\ \A t \in Nat : Reopens(t)' => Spent(t)' /\ Settled(t)'
    BY <2>1, <2>2 DEF TurnOrder, RangesSilent, Silent, IsBoundary, Settled, OpenTurn, Spent,
       TailNode, Reopens, TombTail
  <2> QED BY <2>1, <2>2, <2>3 DEF TurnOrder
<1>11. CASE UNCHANGED vars
  BY <1>11 DEF vars, TurnOrder, RangesSilent, Silent, IsBoundary, Settled, OpenTurn, Spent,
     TailNode, Reopens, TombTail, RedoOrder
<1> QED BY <1>1, <1>2, <1>3, <1>4, <1>5, <1>6, <1>7, <1>8, <1>9, <1>10, <1>11
        DEF Next, Harness, Handlers

-----------------------------------------------------------------------------
\* The tail is in the turn that runs.
TailSettled ==
  agent = "running" => surface # <<>> /\ \A b \in DOMAIN log : IsBoundary(b) => b < TailNode

\* A turn that may end has added a row.
Opening == agent = "running" /\ budget["rows"] < MaxRows => TailSettled

\* Behind an appended row of the tail's turn comes nothing of a younger turn.
TailRun ==
  TailSettled =>
    \A p, q \in DOMAIN surface :
      p < q /\ log[surface[p]].op = "append" /\ ~Apart(surface[p], TailNode)
      => ~Apart(TailNode, surface[q])

\* Of the rows that carry a body, only the youngest can be on the surface, and
\* no turn appends one body twice.
Youngest ==
  \A i \in DOMAIN log, p \in DOMAIN surface :
    log[i].body = log[surface[p]].body /\ log[i].body # 0 => i <= surface[p]

Spaced ==
  \A i, j \in DOMAIN log :
    /\ i < j /\ log[i].op = "append" /\ log[j].op = "append"
    /\ log[i].body = log[j].body
    => Apart(i, j)

Off(i) == \A p \in DOMAIN surface : log[surface[p]].body # log[i].body

\* The content of a turn is off the surface while its tombstone is the tail ...
UndoneIsOff ==
  surface # <<>> /\ isUndoTombstone(log[TailNode]) =>
    \E range \in turnLogRange(log, log[TailNode].turn) :
      \A i \in range[1]..range[2] : Copied(i) => Off(i)

\* ... and so is what a redo has left to copy, and it is new in the fake turn.
RestIsOff ==
  replay # NoReplay => \A i \in replay.at..replay.end : Copied(i) => Off(i)

RestIsNew ==
  replay # NoReplay /\ Silent(replay.at, replay.end) =>
    \A j \in DOMAIN log, k \in replay.at..replay.end :
      /\ log[j].op = "append" /\ Copied(k) /\ log[j].body = log[k].body
      => \E b \in DOMAIN log : b > j /\ IsBoundary(b)

ContentInv ==
  Opening /\ TailRun /\ Youngest /\ Spaced /\ UndoneIsOff /\ RestIsOff /\ RestIsNew

\* What each lemma about a step may assume.
Sound ==
  /\ TypeInv /\ TypeInv' /\ RowsTyped /\ RowsInv /\ NodesDistinct /\ Shaped /\ TurnOrder

\* Inside its range a redo has its fake turn open.
LEMMA CopiesInside ==
  ASSUME TypeInv, replay # NoReplay, RedoOrder, NEW i \in replay.at..replay.end, Copied(i),
         \A j \in replay.at..(i - 1) : ~hasReplayRole(log[j])
  PROVE  Silent(replay.at, replay.end)
<1>1. replay.at \in Nat /\ replay.end \in Nat /\ i \in Nat /\ replay.at <= i /\ i <= replay.end
  BY DEF TypeInv, TypeOK
<1>2. ASSUME replay.at < replay.end, log[replay.at].type = "turn/start" PROVE FALSE
  <2>1. hasReplayRole(log[replay.at])
    BY <1>2 DEF hasReplayRole, BoundaryTypes
  <2>2. ~(replay.at <= i - 1)
    BY <1>1, <2>1
  <2>3. i = replay.at
    BY <1>1, <2>2
  <2> QED BY <1>2, <2>3 DEF Copied, MessageTypes
<1> QED BY <1>1, <1>2 DEF RedoOrder

LEMMA OpeningNext ==
  ASSUME Sound, Opening, [Next]_vars
  PROVE  Opening'
<1> USE DEF Sound
<1>0. /\ Len(log) \in Nat /\ DOMAIN log = 1..Len(log) /\ log \in Seq(Event)
      /\ agent \in {"idle", "running"} /\ budget \in [Budgets -> Nat] /\ MaxRows \in Nat
  <2>1. MaxRows \in Nat
    BY BoundsAssumption
  <2>2. log \in Seq(Event) /\ agent \in {"idle", "running"} /\ budget \in [Budgets -> Nat]
    BY DEF TypeInv, TypeOK
  <2> QED BY <2>1, <2>2
<1>1. ASSUME agent' = "idle" PROVE Opening'
  BY <1>1 DEF Opening
<1>2. CASE TurnStart
  <2>1. budget'["rows"] = MaxRows
    BY <1>0, <1>2 DEF TurnStart, Budgets
  <2> QED BY <1>0, <2>1 DEF Opening
<1>3. CASE SystemPrompt \/ \E type \in MessageTypes : TurnRow(type)
  <2>1. PICK e \in Event : /\ e.type \in MessageTypes \cup {"system/message"} /\ AppendRow(e)
    BY <1>3, AddedRow DEF AddsRow
  <2>2. e.type \notin BoundaryTypes /\ AppendEvent(e)
    BY <2>1 DEF MessageTypes, BoundaryTypes, AppendRow
  <2>3. surface' # <<>> /\ TailNode' = Len(log) + 1
    BY <2>1, RowAdded DEF RowsTyped
  <2>4. \A b \in DOMAIN log' : IsBoundary(b)' => b < Len(log) + 1
    <3>1. /\ DOMAIN log' = 1..(Len(log) + 1) /\ log'[Len(log) + 1] = e
      BY <1>0, <2>2, AppendedLog
    <3> QED BY <1>0, <2>2, <3>1 DEF IsBoundary
  <2>5. TailSettled'
    BY <2>3, <2>4 DEF TailSettled
  <2> QED BY <2>5 DEF Opening
<1>4. ASSUME NEW type \in {"user/message", "tool/result"},
             NEW lo \in DOMAIN surface, NEW hi \in DOMAIN surface, RewriteRows(type, lo, hi)
      PROVE  Opening'
  <2>1. PICK e \in Event : Replaces(e, lo, hi)
    BY <1>4, Rewritten
  <2>2. e.type \notin BoundaryTypes /\ AppendEvent(e) /\ AppendReplacement(e, lo, hi) /\ lo <= hi
    BY <2>1 DEF MessageTypes, BoundaryTypes, AppendReplacement, Replaces
  <2>3. surface' # <<>> /\ (TailNode' = Len(log) + 1 \/ TailNode' = TailNode)
    BY <2>2, RowsReplaced DEF RowsTyped
  <2>4. /\ \A b \in DOMAIN log' : IsBoundary(b)' => b < Len(log) + 1 /\ b \in DOMAIN log
        /\ \A b \in DOMAIN log : IsBoundary(b)' = IsBoundary(b)
    <3>1. /\ DOMAIN log' = 1..(Len(log) + 1) /\ log'[Len(log) + 1] = e
          /\ \A i \in DOMAIN log : log'[i] = log[i]
      BY <1>0, <2>2, AppendedLog
    <3> QED BY <1>0, <2>2, <3>1 DEF IsBoundary
  <2>5. budget'["rows"] = budget["rows"] /\ agent' = agent /\ agent = "running"
    BY <1>0, <1>4 DEF RewriteRows, Spend, Budgets
  <2>6. budget["rows"] < MaxRows => TailSettled'
    <3>1. budget["rows"] < MaxRows => \A b \in DOMAIN log : IsBoundary(b) => b < TailNode
      BY <2>5 DEF Opening, TailSettled
    <3> QED BY <2>3, <2>4, <3>1 DEF TailSettled
  <2> QED BY <2>5, <2>6 DEF Opening
<1>5. CASE TurnEnd
  BY <1>1, <1>5 DEF TurnEnd
<1>6. CASE Compact
  BY <1>1, <1>6 DEF Compact
<1>7. ASSUME NEW m \in findAssistantMessages(log), performUndo(m) PROVE Opening'
  BY <1>1, <1>7, Undone
<1>8. CASE RedoStart
  BY <1>0, <1>1, <1>8 DEF RedoStart, RedoTarget
<1>9. CASE RedoAppend \/ RedoDone \/ RedoFail \/ RedoFailOpen
  BY <1>1, <1>9 DEF RedoAppend, RedoDone, RedoFail, RedoFailOpen, TurnOrder, RedoOrder
<1>10. CASE UNCHANGED vars
  BY <1>10 DEF vars, Opening, TailSettled, TailNode, IsBoundary
<1> QED BY <1>2, <1>3, <1>4, <1>5, <1>6, <1>7, <1>8, <1>9, <1>10 DEF Next, Harness, Handlers

\* A new tail is the youngest row.
LEMMA TailRunNewTail ==
  ASSUME Sound, TailNode' = Len(log) + 1, NEW e \in Event, AppendEvent(e)
  PROVE  TailRun'
<1>1. log \in Seq(Event) /\ Len(log) \in Nat /\ DOMAIN log' = 1..(Len(log) + 1)
  BY AppendedLog DEF Sound, RowsTyped
<1>2. \A q \in DOMAIN surface' : surface'[q] \in DOMAIN log'
  BY DEF Sound, TypeInv, TypeOK
<1>3. \A q \in DOMAIN surface' : ~Apart(TailNode, surface[q])'
  <2>1. \A q \in DOMAIN surface' : surface'[q] <= Len(log) + 1
    BY <1>1, <1>2
  <2>2. \A b \in DOMAIN log' : b \in Nat
    BY <1>1
  <2>3. TailNode' = Len(log) + 1
    OBVIOUS
  <2> HIDE DEF TailNode
  <2> QED BY <1>1, <1>2, <2>1, <2>2, <2>3 DEF Apart
<1> QED BY <1>3 DEF TailRun, Apart

\* The same surface, and the log the same or longer.
LEMMA TailRunSame ==
  ASSUME Sound, TailRun, surface' = surface, TailSettled' => TailSettled,
         log' = log \/ \E e \in Event : AppendEvent(e)
  PROVE  TailRun'
<1> USE DEF Sound
<1>1. TailNode' = TailNode
  BY DEF TailNode
<1>2. \A p \in DOMAIN surface : surface[p] \in DOMAIN log /\ surface[p] \in Nat
  BY DEF RowsTyped, LogTyped
<1>3. \A i \in DOMAIN log : log'[i] = log[i]
  BY LogGrows DEF RowsTyped
<1>4. surface # <<>> => \A p \in DOMAIN surface :
        /\ Apart(surface[p], TailNode)' <=> Apart(surface[p], TailNode)
        /\ Apart(TailNode, surface[p])' <=> Apart(TailNode, surface[p])
  <2> SUFFICES ASSUME surface # <<>>, NEW p \in DOMAIN surface
               PROVE  /\ Apart(surface[p], TailNode)' <=> Apart(surface[p], TailNode)
                      /\ Apart(TailNode, surface[p])' <=> Apart(TailNode, surface[p])
    OBVIOUS
  <2>1. CASE log' = log
    BY <1>1, <2>1 DEF Apart, IsBoundary
  <2>2. ASSUME NEW e \in Event, AppendEvent(e)
        PROVE  /\ Apart(surface[p], TailNode)' <=> Apart(surface[p], TailNode)
               /\ Apart(TailNode, surface[p])' <=> Apart(TailNode, surface[p])
    <3>1. TailNode \in DOMAIN log /\ TailNode \in Nat /\ DOMAIN log \subseteq DOMAIN log'
      BY <2>2, TailTyped, LogGrows DEF RowsTyped
    <3>4. ASSUME NEW i \in Nat, i = TailNode, NEW j \in DOMAIN log', j = surface[p]
          PROVE  Apart(i, j)' <=> Apart(i, j)
      BY <2>2, LogGrows DEF RowsTyped
    <3>2. ASSUME NEW i \in Nat, i = surface[p], NEW j \in DOMAIN log', j = TailNode
          PROVE  Apart(i, j)' <=> Apart(i, j)
      BY <2>2, LogGrows DEF RowsTyped
    <3> QED BY <1>1, <1>2, <3>1, <3>2, <3>4 DEF Apart
  <2> QED BY <2>1, <2>2
<1>5. \A p \in DOMAIN surface : surface # <<>>
  BY DEF RowsTyped, LogTyped
<1> QED BY <1>1, <1>2, <1>3, <1>4, <1>5 DEF TailRun

\* A row replaces others behind which the tail stays: it is enough that no
\* appended row before it is in the tail's turn, or that this is the last turn.
LEMMA TailRunReplaced ==
  ASSUME Sound, TailRun, TailSettled' => TailSettled,
         NEW e \in Event, NEW lo, NEW hi, Replaces(e, lo, hi), hi # Len(surface),
         TailSettled =>
           \/ \A p \in DOMAIN surface :
                p < lo /\ log[surface[p]].op = "append" => Apart(surface[p], TailNode)
           \/ \A b \in DOMAIN log : IsBoundary(b) => b < TailNode
  PROVE  TailRun'
<1> USE DEF Sound
<1>1. /\ lo \in DOMAIN surface /\ hi \in DOMAIN surface /\ lo <= hi
      /\ AppendReplacement(e, lo, hi) /\ AppendEvent(e) /\ e.op = "replace"
  BY DEF Replaces, AppendReplacement
<1>2. /\ TailNode' = TailNode /\ surface # <<>> /\ surface'[lo] = Len(log) + 1
      /\ \A p \in DOMAIN surface' : p # lo =>
           /\ Moved(p, lo, hi) \in DOMAIN surface
           /\ surface'[p] = surface[Moved(p, lo, hi)]
           /\ p < lo <=> Moved(p, lo, hi) < lo
      /\ \A p, q \in DOMAIN surface' :
           p < q /\ p # lo /\ q # lo => Moved(p, lo, hi) < Moved(q, lo, hi)
  BY <1>1, RowsReplaced DEF RowsTyped
<1>3. /\ Len(log) \in Nat /\ DOMAIN log = 1..Len(log) /\ DOMAIN log' = 1..(Len(log) + 1)
      /\ \A i \in DOMAIN log : log'[i] = log[i]
      /\ log'[Len(log) + 1] = e
      /\ \A i \in Nat, j \in DOMAIN log' : Apart(i, j)' <=> Apart(i, j)
  BY <1>1, LogGrows DEF RowsTyped
<1>4. TailNode \in DOMAIN log
  BY <1>2, TailTyped
<1>5. \A p \in DOMAIN surface : surface[p] \in DOMAIN log
  BY DEF RowsTyped, LogTyped
<1> SUFFICES ASSUME TailSettled', TailSettled,
                    NEW p \in DOMAIN surface', NEW q \in DOMAIN surface', p < q,
                    log'[surface'[p]].op = "append", ~Apart(surface[Moved(p, lo, hi)], TailNode)
             PROVE  ~Apart(TailNode, surface[q])'
  <2>1. ASSUME NEW p \in DOMAIN surface', log'[surface'[p]].op = "append",
               ~Apart(surface[p], TailNode)'
        PROVE  ~Apart(surface[Moved(p, lo, hi)], TailNode)
    <3>1. p # lo
      BY <1>1, <1>2, <1>3, <2>1
    <3>2. surface'[p] = surface[Moved(p, lo, hi)] /\ surface'[p] \in DOMAIN log
      BY <1>2, <1>5, <3>1
    <3>3. ASSUME NEW i \in Nat, i = surface'[p], NEW j \in DOMAIN log', j = TailNode
          PROVE  Apart(i, j)' <=> Apart(i, j)
      BY <1>3
    <3>4. surface'[p] \in Nat /\ TailNode \in DOMAIN log'
      BY <1>3, <1>4, <3>2
    <3> QED BY <1>2, <2>1, <3>2, <3>3, <3>4 DEF Apart
  <2> QED BY <1>2, <2>1 DEF TailRun, Apart
<1>6. p # lo
  BY <1>1, <1>2, <1>3
<1>7. Moved(p, lo, hi) \in DOMAIN surface /\ log[surface[Moved(p, lo, hi)]].op = "append"
  BY <1>2, <1>3, <1>5, <1>6
<1>8. TailNode \in Nat /\ surface'[q] \in DOMAIN log' /\ Len(log) + 1 \in DOMAIN log'
  <2>1. \A x \in DOMAIN surface' : surface'[x] \in DOMAIN log'
    BY DEF TypeInv, TypeOK
  <2> QED BY <1>3, <1>4, <2>1
<1>9. CASE q = lo
  <2>1. \A b \in DOMAIN log : IsBoundary(b) => b < TailNode
    BY <1>2, <1>6, <1>7, <1>9
  <2>2. ~Apart(TailNode, Len(log) + 1)
    BY <1>3, <1>8, <2>1 DEF Apart
  <2> QED BY <1>2, <1>3, <1>8, <1>9, <2>2
<1>10. CASE q # lo
  <2>1. ~Apart(TailNode, surface[Moved(q, lo, hi)])
    BY <1>2, <1>6, <1>7, <1>10 DEF TailRun
  <2>2. ~Apart(TailNode, surface'[q])
    BY <1>2, <1>10, <2>1
  <2>3. ASSUME NEW i \in Nat, i = TailNode, NEW j \in DOMAIN log', j = surface'[q]
        PROVE  Apart(i, j)' <=> Apart(i, j)
    BY <1>3
  <2> QED BY <1>2, <1>8, <2>2, <2>3 DEF Apart
<1> QED BY <1>9, <1>10

\* The start of the running turn is the last boundary.
LEMMA RunningTurn ==
  ASSUME TurnOrder, agent = "running"
  PROVE  \E o \in DOMAIN log :
           /\ o \in Starts(log, turn) /\ IsBoundary(o)
           /\ \A j \in DOMAIN log : j > o => ~IsBoundary(j)
BY DEF TurnOrder, OpenTurn, Starts, IsBoundary, BoundaryTypes

\* An undo whose run does not end at the tail does not reach the tail's turn.
LEMMA UndoBeforeTail ==
  ASSUME Sound, TailRun, agent = "idle", NEW t \in Nat, NEW range \in turnLogRange(log, t),
         NEW run \in trailingTurnRun(surface, TurnSeqs(range)), run[2] # Len(surface),
         NEW p \in DOMAIN surface, p < run[1], log[surface[p]].op = "append"
  PROVE  Apart(surface[p], TailNode)
<1> USE DEF Sound
<1> SUFFICES ASSUME ~Apart(surface[p], TailNode) PROVE FALSE
  OBVIOUS
<1> DEFINE lo == run[1]
           k == surface[lo]
<1>1. /\ run[1] \in DOMAIN surface /\ run[2] \in DOMAIN surface /\ run[1] <= run[2]
      /\ \A q \in run[1]..run[2] : surface[q] \in TurnSeqs(range)
      /\ \A q \in (run[2] + 1)..Len(surface) : surface[q] \notin TurnSeqs(range)
  BY DEF trailingTurnRun
<1>2. /\ Len(surface) \in Nat /\ DOMAIN surface = 1..Len(surface) /\ surface # <<>>
      /\ DOMAIN log \subseteq Nat /\ \A q \in DOMAIN surface : surface[q] \in DOMAIN log
  BY <1>1 DEF RowsTyped, LogTyped
<1>3. range[1] \in DOMAIN log /\ range[2] \in DOMAIN log /\ IsBoundary(range[1]) /\ IsBoundary(range[2])
  BY DEF turnLogRange, Starts, Ends, IsBoundary, BoundaryTypes
<1>4. k \in TurnSeqs(range)
  <2>1. lo \in run[1]..run[2]
    BY <1>1, <1>2
  <2> QED BY <1>1, <2>1
<1>5. range[1] < k /\ k < range[2]
  <2>1. k \in range[1]..range[2] /\ ~IsBoundary(k)
    BY <1>1, <1>4 DEF TurnSeqs, shadowedTurnNodes, RowsInv, SurfaceRows
  <2>2. k # range[1] /\ k # range[2]
    BY <1>3, <2>1
  <2>3. range[1] \in Nat /\ range[2] \in Nat /\ k \in Nat
    BY <1>1, <1>2, <1>3
  <2> QED BY <2>1, <2>2, <2>3
<1>6. surface[p] < k
  BY <1>1 DEF RowsInv, Ordered
<1>7. ~Apart(TailNode, k)
  BY <1>1 DEF TailRun, TailSettled
<1>8. TailNode \in DOMAIN log /\ TailNode \in Nat /\ k \in Nat /\ surface[p] \in Nat
      /\ range[1] \in Nat /\ range[2] \in Nat
  BY <1>1, <1>2, <1>3, TailTyped
<1>9. range[1] < TailNode
  <2>1. ~IsBoundary(TailNode)
    BY <1>2, TailTyped DEF TailNode, RowsInv, SurfaceRows
  <2>2. TailNode # range[1]
    BY <1>3, <2>1
  <2>3. ASSUME TailNode < range[1] PROVE FALSE
    BY <1>3, <1>5, <1>7, <2>3 DEF Apart
  <2> QED BY <1>8, <2>2, <2>3
<1>10. TailNode <= range[2]
  <2>1. ASSUME range[2] < TailNode PROVE FALSE
    <3>1. surface[p] < range[2]
      BY <1>5, <1>6, <1>8
    <3> QED BY <1>3, <2>1, <3>1 DEF Apart
  <2> QED BY <1>8, <2>1
<1>11. TailNode \in range[1]..range[2]
  BY <1>8, <1>9, <1>10
<1>12. TailNode \notin TurnSeqs(range)
  <2>1. Len(surface) \in (run[2] + 1)..Len(surface)
    BY <1>1, <1>2
  <2> QED BY <1>1, <2>1 DEF TailNode
<1>13. TailNode # surface[1]
  <2>1. Len(surface) # 1 /\ 1 \in DOMAIN surface /\ Len(surface) \in DOMAIN surface
    BY <1>1, <1>2
  <2> QED BY <2>1 DEF NodesDistinct, TailNode
<1>14. TailNode \in {surface[q] : q \in DOMAIN surface}
  BY <1>2, TailTyped DEF TailNode
<1> QED BY <1>11, <1>12, <1>13, <1>14 DEF TurnSeqs, shadowedTurnNodes

LEMMA TailRunNext ==
  ASSUME Sound, Opening, TailRun, [Next]_vars
  PROVE  TailRun'
<1> USE DEF Sound
<1>0. /\ Len(log) \in Nat /\ DOMAIN log = 1..Len(log) /\ log \in Seq(Event)
      /\ \A p \in DOMAIN surface : surface[p] \in DOMAIN log
      /\ turn \in Nat /\ replay.turn \in Nat /\ agent \in {"idle", "running"}
  <2>1. log \in Seq(Event) /\ turn \in Nat /\ replay.turn \in Nat /\ agent \in {"idle", "running"}
    BY DEF TypeInv, TypeOK
  <2>2. \A p \in DOMAIN surface : surface[p] \in DOMAIN log
    BY DEF RowsTyped, LogTyped
  <2> QED BY <2>1, <2>2
<1>1. ASSUME NEW type \in BoundaryTypes, NEW t \in Nat, AppendEvent(Boundary(type, t))
      PROVE  \E e \in Event : AppendEvent(e)
  BY <1>1, BoundaryFields
<1>2. CASE TurnStart
  <2> DEFINE e == Boundary("turn/start", turn + 1)
  <2>1. /\ e \in Event /\ e.type \in BoundaryTypes /\ AppendEvent(e) /\ surface' = surface
        /\ agent' = "running"
    BY <1>0, <1>2, BoundaryFields DEF TurnStart, BoundaryTypes
  <2> HIDE DEF e
  <2>2. DOMAIN log' = 1..(Len(log) + 1) /\ log'[Len(log) + 1] = e
    BY <1>0, <2>1, AppendedLog
  <2>3. ~TailSettled'
    <3>1. ASSUME TailSettled' PROVE FALSE
      <4>1. surface # <<>> /\ \A b \in DOMAIN log' : log'[b].type \in BoundaryTypes => b < TailNode'
        BY <2>1, <3>1 DEF TailSettled, IsBoundary
      <4>2. Len(log) + 1 < TailNode'
        BY <1>0, <2>1, <2>2, <4>1
      <4>3. TailNode' \in DOMAIN log
        BY <2>1, <4>1, TailTyped DEF TailNode
      <4> QED BY <1>0, <4>2, <4>3
    <3> QED BY <3>1
  <2> QED BY <2>1, <2>3, TailRunSame
<1>3. CASE SystemPrompt \/ \E type \in MessageTypes : TurnRow(type)
  <2>1. PICK e \in Event : AppendRow(e)
    BY <1>3, AddedRow DEF AddsRow
  <2>2. AppendEvent(e) /\ TailNode' = Len(log) + 1
    BY <2>1, RowAdded DEF AppendRow, RowsTyped
  <2> QED BY <2>2, TailRunNewTail
<1>4. ASSUME NEW type \in {"user/message", "tool/result"},
             NEW lo \in DOMAIN surface, NEW hi \in DOMAIN surface, RewriteRows(type, lo, hi)
      PROVE  TailRun'
  <2>1. agent = "running" /\ agent' = agent
    BY <1>4, Rewritten
  <2>2. PICK e \in Event : Replaces(e, lo, hi)
    BY <1>4, Rewritten
  <2>3. lo <= hi /\ AppendReplacement(e, lo, hi) /\ AppendEvent(e)
    BY <2>2 DEF Replaces, AppendReplacement
  <2>4. CASE hi = Len(surface)
    BY <2>3, <2>4, RowsReplaced, TailRunNewTail DEF RowsTyped
  <2>5. CASE hi # Len(surface)
    <3>1. TailNode' = TailNode /\ surface # <<>>
      BY <2>3, <2>5, RowsReplaced DEF RowsTyped, LogTyped
    <3>2. TailSettled' => TailSettled
      <4>1. \A b \in DOMAIN log : b \in DOMAIN log' /\ (IsBoundary(b))' = IsBoundary(b)
        BY <2>3, LogGrows DEF RowsTyped, IsBoundary
      <4> QED BY <2>1, <3>1, <4>1 DEF TailSettled
    <3>3. TailSettled => \A b \in DOMAIN log : IsBoundary(b) => b < TailNode
      BY <2>1 DEF TailSettled
    <3> QED BY <2>2, <2>5, <3>2, <3>3, TailRunReplaced
  <2> QED BY <2>4, <2>5
<1>5. CASE TurnEnd
  <2>1. TailSettled /\ surface' = surface /\ AppendEvent(Boundary("turn/end", turn))
    BY <1>5 DEF TurnEnd, Opening
  <2>2. \E e \in Event : AppendEvent(e)
    BY <1>0, <1>1, <2>1 DEF BoundaryTypes
  <2> QED BY <2>1, <2>2, TailRunSame
<1>6. CASE Compact
  <2>1. PICK e \in Event, lo \in DOMAIN surface : Replaces(e, lo, Len(surface))
    BY <1>6, Compacted
  <2>2. lo <= Len(surface) /\ Len(surface) \in DOMAIN surface
        /\ AppendReplacement(e, lo, Len(surface)) /\ AppendEvent(e)
    BY <2>1 DEF Replaces, AppendReplacement
  <2>3. TailNode' = Len(log) + 1
    BY <2>2, RowsReplaced DEF RowsTyped
  <2> QED BY <2>2, <2>3, TailRunNewTail
<1>7. ASSUME NEW m \in findAssistantMessages(log), performUndo(m) PROVE TailRun'
  <2>1. agent = "idle" /\ agent' = agent
    BY <1>7, Undone
  <2>2. PICK range \in turnLogRange(log, log[m].turn) :
          \E run \in trailingTurnRun(surface, TurnSeqs(range)) : \E e \in Event :
            Replaces(e, run[1], run[2])
    BY <1>7, Undone
  <2>3. PICK run \in trailingTurnRun(surface, TurnSeqs(range)) : \E e \in Event :
            Replaces(e, run[1], run[2])
    BY <2>2
  <2>4. PICK e \in Event : Replaces(e, run[1], run[2])
    BY <2>3
  <2>5. /\ run[1] <= run[2] /\ run[1] \in DOMAIN surface /\ run[2] \in DOMAIN surface
        /\ AppendReplacement(e, run[1], run[2]) /\ AppendEvent(e)
    BY <2>4 DEF Replaces, AppendReplacement
  <2>6. CASE run[2] = Len(surface)
    <3>1. TailNode' = Len(log) + 1
      BY <2>5, <2>6, RowsReplaced DEF RowsTyped
    <3> QED BY <2>5, <3>1, TailRunNewTail
  <2>7. CASE run[2] # Len(surface)
    <3>1. log[m].turn \in Nat
      <4>1. m \in DOMAIN log /\ \A e2 \in Event : e2.turn \in Nat
        BY DEF findAssistantMessages, Event
      <4> QED BY <1>0, <4>1
    <3>2. TailSettled
      BY <2>1 DEF TailSettled
    <3>3. \A p \in DOMAIN surface :
            p < run[1] /\ log[surface[p]].op = "append" => Apart(surface[p], TailNode)
      BY <2>1, <2>7, <3>1, UndoBeforeTail
    <3> QED BY <2>4, <2>7, <3>2, <3>3, TailRunReplaced
  <2> QED BY <2>6, <2>7
<1>8. CASE RedoAppend
  <2>1. agent = "idle"
    BY <1>8 DEF RedoAppend, TurnOrder, RedoOrder
  <2>2. TailSettled
    BY <2>1 DEF TailSettled
  <2>3. PICK i \in DOMAIN log :
          \/ IsBoundary(i) /\ AppendEvent(Boundary(log[i].type, replay.turn)) /\ UNCHANGED surface
          \/ CopiesRow(i)
    BY <1>8, CopiedStep
  <2>4. CASE CopiesRow(i)
    <3>1. PICK e \in Event : AppendRow(e)
      BY <2>4 DEF CopiesRow
    <3>2. AppendEvent(e) /\ TailNode' = Len(log) + 1
      BY <3>1, RowAdded DEF AppendRow, RowsTyped
    <3> QED BY <3>2, TailRunNewTail
  <2>5. CASE IsBoundary(i) /\ AppendEvent(Boundary(log[i].type, replay.turn)) /\ UNCHANGED surface
    <3>1. \E e \in Event : AppendEvent(e)
      BY <1>0, <1>1, <2>5 DEF IsBoundary
    <3> QED BY <2>2, <2>5, <3>1, TailRunSame
  <2> QED BY <2>3, <2>4, <2>5
<1>9. CASE RedoFail
  <2>1. agent = "idle" /\ surface' = surface /\ AppendEvent(Boundary("turn/end", replay.turn))
    BY <1>9 DEF RedoFail, TurnOrder, RedoOrder
  <2>2. TailSettled
    BY <2>1 DEF TailSettled
  <2>3. \E e \in Event : AppendEvent(e)
    BY <1>0, <1>1, <2>1 DEF BoundaryTypes
  <2> QED BY <2>1, <2>2, <2>3, TailRunSame
<1>10. CASE RedoStart \/ RedoDone \/ RedoFailOpen \/ UNCHANGED vars
  <2>1. log' = log /\ surface' = surface /\ agent' = agent
    BY <1>10 DEF RedoStart, RedoDone, RedoFailOpen, vars
  <2>2. TailSettled' => TailSettled
    BY <2>1 DEF TailSettled, TailNode, IsBoundary
  <2> QED BY <2>1, <2>2, TailRunSame
<1> QED BY <1>2, <1>3, <1>4, <1>5, <1>6, <1>7, <1>8, <1>9, <1>10 DEF Next, Harness, Handlers

-----------------------------------------------------------------------------
\* What a new row must be: its body is off the surface, and no row of its turn
\* has it.
NewBody(e) ==
  /\ e.body # 0 => \A p \in DOMAIN surface : log[surface[p]].body # e.body
  /\ e.op = "append" =>
       \A j \in DOMAIN log : log[j].op = "append" /\ log[j].body = e.body =>
         \E b \in DOMAIN log : b > j /\ IsBoundary(b)

\* The surface rows are old ones and perhaps the new one.
OldOrNew ==
  \A p \in DOMAIN surface' :
    surface'[p] = Len(log) + 1 \/ \E q \in DOMAIN surface : surface'[p] = surface[q]

\* The bodies that were off the surface and are not that of e stay off it.
OffStays(e) ==
  \A k \in DOMAIN log : Copied(k) /\ Off(k) /\ log[k].body # e.body =>
    \A p \in DOMAIN surface' : log'[surface'[p]].body # log[k].body

LEMMA ContentMove ==
  ASSUME RowsTyped, Youngest, Spaced, NEW e \in Event, AppendEvent(e), NewBody(e), OldOrNew
  PROVE  Youngest' /\ Spaced' /\ OffStays(e)
<1>1. /\ Len(log) \in Nat /\ DOMAIN log = 1..Len(log) /\ DOMAIN log' = 1..(Len(log) + 1)
      /\ \A i \in DOMAIN log : log'[i] = log[i]
      /\ log'[Len(log) + 1] = e
      /\ \A i \in Nat, j \in DOMAIN log' : Apart(i, j)' <=> Apart(i, j)
  BY LogGrows DEF RowsTyped
<1>2. \A i \in DOMAIN log' : i \in Nat /\ (i \in DOMAIN log \/ i = Len(log) + 1)
  BY <1>1
<1>3. \A p \in DOMAIN surface : surface[p] \in DOMAIN log
  BY DEF RowsTyped, LogTyped
<1>4. ASSUME NEW i \in DOMAIN log', NEW p \in DOMAIN surface',
             log'[i].body = log'[surface'[p]].body, log'[i].body # 0
      PROVE  i <= surface'[p]
  <2>1. CASE surface'[p] = Len(log) + 1
    BY <1>1, <2>1
  <2>2. ASSUME NEW q \in DOMAIN surface, surface'[p] = surface[q] PROVE i <= surface'[p]
    <3>1. log'[surface'[p]] = log[surface[q]]
      BY <1>1, <1>3, <2>2
    <3>2. CASE i = Len(log) + 1
      BY <1>1, <1>4, <3>1, <3>2 DEF NewBody
    <3>3. CASE i \in DOMAIN log
      BY <1>1, <1>4, <2>2, <3>1, <3>3 DEF Youngest
    <3> QED BY <1>2, <3>2, <3>3
  <2> QED BY <2>1, <2>2 DEF OldOrNew
<1>5. ASSUME NEW i \in DOMAIN log', NEW j \in DOMAIN log', i < j,
             log'[i].op = "append", log'[j].op = "append", log'[i].body = log'[j].body
      PROVE  Apart(i, j)'
  <2>1. i \in DOMAIN log /\ log'[i] = log[i]
    BY <1>1, <1>2, <1>5
  <2>2. CASE j \in DOMAIN log
    BY <1>1, <1>2, <1>5, <2>1, <2>2 DEF Spaced
  <2>3. CASE j = Len(log) + 1
    <3>1. PICK b \in DOMAIN log : b > i /\ IsBoundary(b)
      BY <1>1, <1>5, <2>1, <2>3 DEF NewBody
    <3>2. b < j
      BY <1>1, <2>3
    <3>3. Apart(i, j)
      BY <3>1, <3>2 DEF Apart
    <3> QED BY <1>1, <1>2, <3>3
  <2> QED BY <1>2, <2>2, <2>3
<1>6. ASSUME NEW k \in DOMAIN log, Off(k), log[k].body # e.body, NEW p \in DOMAIN surface'
      PROVE  log'[surface'[p]].body # log[k].body
  BY <1>1, <1>3, <1>6 DEF OldOrNew, Off
<1>7. Youngest'
  BY <1>4 DEF Youngest
<1>8. Spaced'
  BY <1>5 DEF Spaced
<1> QED BY <1>6, <1>7, <1>8 DEF OffStays

\* The steps that copy nothing: what they add is new.
Plainly ==
  \/ UNCHANGED <<log, surface>>
  \/ AddsBoundary
  \/ AddsRow
  \/ \E e \in Event, lo, hi \in DOMAIN surface : Replaces(e, lo, hi)

LEMMA FreshIsNew ==
  ASSUME RowsTyped, Bodies, NEW e, Fresh(e) \/ (e.body = 0 /\ e.op # "append")
  PROVE  NewBody(e) /\ \A k \in DOMAIN log : Copied(k) => log[k].body # e.body
<1>1. /\ Len(log) \in Nat /\ DOMAIN log = 1..Len(log)
      /\ \A p \in DOMAIN surface : surface[p] \in DOMAIN log
  BY DEF RowsTyped, LogTyped
<1>2. \A k \in DOMAIN log : log[k].body # Len(log) + 1
  <2>1. \A k \in DOMAIN log : log[k].body <= k /\ k <= Len(log) /\ log[k].body \in Nat
    <3>1. \A k \in DOMAIN log : log[k] \in Event /\ k <= Len(log)
      BY <1>1 DEF RowsTyped
    <3> QED BY <3>1 DEF Bodies, Event
  <2> QED BY <1>1, <2>1
<1> QED BY <1>1, <1>2 DEF NewBody, Fresh, Bodies, Copied

LEMMA PlainContent ==
  ASSUME RowsTyped, Bodies, Youngest, Spaced, Plainly
  PROVE  /\ Youngest' /\ Spaced'
         /\ \A k \in DOMAIN log : Copied(k) /\ Off(k) =>
              \A p \in DOMAIN surface' : log'[surface'[p]].body # log[k].body
<1> DEFINE Goal == /\ Youngest' /\ Spaced'
                   /\ \A k \in DOMAIN log : Copied(k) /\ Off(k) =>
                        \A p \in DOMAIN surface' : log'[surface'[p]].body # log[k].body
<1>1. CASE UNCHANGED <<log, surface>>
  BY <1>1 DEF Youngest, Spaced, Apart, IsBoundary, Off
<1>2. ASSUME NEW e \in Event, AppendEvent(e), Fresh(e) \/ (e.body = 0 /\ e.op # "append"), OldOrNew
      PROVE  Goal
  <2>1. NewBody(e) /\ \A k \in DOMAIN log : Copied(k) => log[k].body # e.body
    BY <1>2, FreshIsNew
  <2> QED BY <1>2, <2>1, ContentMove DEF OffStays
<1> HIDE DEF Goal
<1>3. ASSUME AddsBoundary PROVE Goal
  <2>1. PICK type \in BoundaryTypes, t \in Nat : AppendEvent(Boundary(type, t)) /\ UNCHANGED surface
    BY <1>3 DEF AddsBoundary
  <2>2. /\ Boundary(type, t) \in Event
        /\ Boundary(type, t).op # "append" /\ Boundary(type, t).body = 0
    BY BoundaryFields DEF Boundary
  <2>3. OldOrNew
    BY <2>1 DEF OldOrNew
  <2> QED BY <1>2, <2>1, <2>2, <2>3
<1>4. ASSUME AddsRow PROVE Goal
  <2>1. PICK e \in Event : Fresh(e) /\ AppendRow(e)
    BY <1>4 DEF AddsRow
  <2>2. OldOrNew /\ AppendEvent(e)
    <3>1. \A p \in DOMAIN surface' : p \in DOMAIN surface \/ p = Len(surface) + 1
      BY <2>1, RowAdded DEF RowsTyped
    <3>2. /\ \A p \in DOMAIN surface : surface'[p] = surface[p]
          /\ surface'[Len(surface) + 1] = Len(log) + 1
      BY <2>1, RowAdded DEF RowsTyped
    <3> QED BY <2>1, <3>1, <3>2 DEF OldOrNew, AppendRow
  <2> QED BY <1>2, <2>1, <2>2
<1>5. ASSUME NEW e \in Event, NEW lo \in DOMAIN surface, NEW hi \in DOMAIN surface, Replaces(e, lo, hi)
      PROVE  Goal
  <2>1. /\ lo <= hi /\ AppendReplacement(e, lo, hi) /\ AppendEvent(e)
        /\ Fresh(e) \/ (e.body = 0 /\ e.op # "append")
    BY <1>5 DEF Replaces, AppendReplacement
  <2>2. OldOrNew
    BY <2>1, RowsReplaced DEF OldOrNew, RowsTyped
  <2> QED BY <1>2, <2>1, <2>2
<1>6. Goal
  BY <1>1, <1>3, <1>4, <1>5 DEF Plainly, Goal
<1> QED BY <1>6 DEF Goal

LEMMA CopyContent ==
  ASSUME RowsTyped, Bodies, Youngest, Spaced, NEW i \in DOMAIN log, CopiesRow(i), Off(i),
         \A j \in DOMAIN log : log[j].op = "append" /\ log[j].body = log[i].body =>
           \E b \in DOMAIN log : b > j /\ IsBoundary(b)
  PROVE  /\ Youngest' /\ Spaced'
         /\ \A k \in DOMAIN log : Copied(k) /\ Off(k) /\ log[k].body # log[i].body =>
              \A p \in DOMAIN surface' : log'[surface'[p]].body # log[k].body
<1>1. PICK e \in Event : e.op = "append" /\ e.body = log[i].body /\ AppendRow(e)
  BY DEF CopiesRow
<1>2. NewBody(e)
  BY <1>1 DEF NewBody, Off
<1>3. OldOrNew /\ AppendEvent(e)
  <3>1. \A p \in DOMAIN surface' : p \in DOMAIN surface \/ p = Len(surface) + 1
    BY <1>1, RowAdded DEF RowsTyped
  <3>2. /\ \A p \in DOMAIN surface : surface'[p] = surface[p]
        /\ surface'[Len(surface) + 1] = Len(log) + 1
    BY <1>1, RowAdded DEF RowsTyped
  <3> QED BY <1>1, <3>1, <3>2 DEF OldOrNew, AppendRow
<1> QED BY <1>1, <1>2, <1>3, ContentMove DEF OffStays

\* An undo whose run ends at the tail has every surface row of the turn in it.
LEMMA RunHoldsTurn ==
  ASSUME Sound, TailRun, agent = "idle", NEW t \in Nat, NEW range \in turnLogRange(log, t),
         NEW run \in trailingTurnRun(surface, TurnSeqs(range)), run[2] = Len(surface),
         NEW q \in DOMAIN surface, surface[q] \in range[1]..range[2], Copied(surface[q])
  PROVE  q \in run[1]..run[2]
<1> USE DEF Sound
<1> SUFFICES ASSUME q \notin run[1]..run[2] PROVE FALSE
  OBVIOUS
<1> DEFINE lo == run[1]
           hi == run[2]
           i == surface[q]
           g == surface[lo - 1]
<1>1. /\ run[1] \in DOMAIN surface /\ run[2] \in DOMAIN surface /\ run[1] <= run[2]
      /\ \A x \in run[1]..run[2] : surface[x] \in TurnSeqs(range)
      /\ run[1] > 1 => surface[run[1] - 1] \notin TurnSeqs(range)
      /\ run[1] \in Nat /\ run[2] \in Nat
  <2>1. run[1] \in DOMAIN surface => run[1] \in Nat
    BY DEF RowsTyped, LogTyped
  <2>2. run[2] \in DOMAIN surface => run[2] \in Nat
    BY DEF RowsTyped, LogTyped
  <2> QED BY <2>1, <2>2 DEF trailingTurnRun
<1>2. /\ Len(surface) \in Nat /\ DOMAIN surface = 1..Len(surface)
      /\ DOMAIN log = 1..Len(log) /\ Len(log) \in Nat
      /\ \A x \in DOMAIN surface : surface[x] \in DOMAIN log
  BY DEF RowsTyped, LogTyped
<1>3. /\ range[1] \in DOMAIN log /\ range[2] \in DOMAIN log /\ range[1] < range[2]
      /\ log[range[1]].type = "turn/start" /\ Silent(range[1] + 1, range[2])
  BY RangeFields DEF RowsTyped, TurnOrder
<1>4. i \in DOMAIN log /\ i \in Nat /\ range[1] < i /\ i <= range[2]
      /\ range[1] \in Nat /\ range[2] \in Nat
  <2>1. i # range[1]
    BY <1>3 DEF Copied, MessageTypes
  <2>2. range[1] \in Nat /\ range[2] \in Nat
    BY <1>2, <1>3
  <2> QED BY <1>2, <1>3, <2>1, <2>2
<1>5. log[i].op = "append" /\ log[i].type \in MessageTypes
  BY DEF Copied
<1>6. q < lo /\ q \in Nat /\ q >= 1
  BY <1>1, <1>2
<1>7. TailNode \in TurnSeqs(range)
  <2>1. hi \in lo..hi
    BY <1>1
  <2> QED BY <1>1, <2>1 DEF TailNode
<1>8. TailNode <= range[2] /\ TailNode \in Nat
  <2>1. TailNode \in range[1]..range[2]
    BY <1>7 DEF TurnSeqs, shadowedTurnNodes
  <2> QED BY <1>4, <2>1
<1>9. i \in TurnSeqs(range)
  <2>1. i \in {surface[x] : x \in DOMAIN surface}
    OBVIOUS
  <2>2. HeadIsSystem => i # surface[1]
    BY <1>5 DEF HeadIsSystem, MessageTypes
  <2> QED BY <2>1, <2>2 DEF TurnSeqs, shadowedTurnNodes
<1>10. lo > 1 /\ lo - 1 \in DOMAIN surface /\ g \notin TurnSeqs(range)
  <2>1. lo > 1
    BY <1>1, <1>6
  <2> QED BY <1>1, <1>2, <2>1
<1>11. q < lo - 1
  <2>1. q # lo - 1
    BY <1>9, <1>10
  <2> QED BY <1>1, <1>6, <2>1
<1>12. i < g /\ g \in Nat
  BY <1>2, <1>5, <1>10, <1>11 DEF RowsInv, Ordered
<1>13. g # surface[1]
  <2>1. lo - 1 # 1 /\ 1 \in DOMAIN surface
    BY <1>1, <1>2, <1>6, <1>11
  <2> QED BY <1>10, <2>1 DEF NodesDistinct
<1>14. g > range[2]
  <2>1. g \notin range[1]..range[2]
    <3>1. g \in {surface[x] : x \in DOMAIN surface}
      BY <1>10
    <3> QED BY <1>10, <1>13, <3>1 DEF TurnSeqs, shadowedTurnNodes
  <2> QED BY <1>4, <1>12, <2>1
<1>15. ~Apart(i, TailNode)
  <2>1. ASSUME NEW b \in DOMAIN log, i < b, b < TailNode, IsBoundary(b) PROVE FALSE
    <3>1. range[1] + 1 <= b /\ b < range[2]
      BY <1>2, <1>4, <1>8, <2>1
    <3> QED BY <1>3, <2>1, <3>1 DEF Silent
  <2> QED BY <2>1 DEF Apart
<1>16. ~Apart(TailNode, g)
  <2>1. TailSettled
    BY DEF TailSettled
  <2> QED BY <1>5, <1>10, <1>11, <1>15, <2>1 DEF TailRun
<1>17. TailNode < range[2] /\ IsBoundary(range[2])
  <2>1. IsBoundary(range[2])
    BY DEF turnLogRange, Ends, IsBoundary, BoundaryTypes
  <2>2. ~IsBoundary(TailNode)
    BY <1>1 DEF TailNode, RowsInv, SurfaceRows
  <2>3. TailNode # range[2]
    BY <2>1, <2>2
  <2> QED BY <1>4, <1>8, <2>1, <2>3
<1> QED BY <1>3, <1>14, <1>16, <1>17 DEF Apart

\* An undo whose run ends at the tail takes the whole content of the turn off.
LEMMA UndoClears ==
  ASSUME Sound, TailRun, Youngest, Spaced, agent = "idle", replay = NoReplay,
         NEW t \in Nat, NEW range \in turnLogRange(log, t),
         NEW run \in trailingTurnRun(surface, TurnSeqs(range)), run[2] = Len(surface),
         NEW e \in Event, Replaces(e, run[1], run[2]), e.body = 0,
         NEW i \in range[1]..range[2], Copied(i), NEW p \in DOMAIN surface'
  PROVE  log'[surface'[p]].body # log[i].body
<1> USE DEF Sound
<1> SUFFICES ASSUME log'[surface'[p]].body = log[i].body PROVE FALSE
  OBVIOUS
<1> DEFINE lo == run[1]
           hi == run[2]
           q == Moved(p, lo, hi)
           y == surface[q]
<1>1. /\ run[1] \in DOMAIN surface /\ run[2] \in DOMAIN surface /\ run[1] <= run[2]
      /\ \A x \in run[1]..run[2] : surface[x] \in TurnSeqs(range)
      /\ run[1] > 1 => surface[run[1] - 1] \notin TurnSeqs(range)
      /\ run[1] \in Nat /\ run[2] \in Nat
  <2>1. run[1] \in DOMAIN surface => run[1] \in Nat
    BY DEF RowsTyped, LogTyped
  <2>2. run[2] \in DOMAIN surface => run[2] \in Nat
    BY DEF RowsTyped, LogTyped
  <2> QED BY <2>1, <2>2 DEF trailingTurnRun
<1>2. /\ Len(surface) \in Nat /\ DOMAIN surface = 1..Len(surface)
      /\ DOMAIN log = 1..Len(log) /\ Len(log) \in Nat
      /\ \A x \in DOMAIN surface : surface[x] \in DOMAIN log
  BY DEF RowsTyped, LogTyped
<1>3. /\ range[1] \in DOMAIN log /\ range[2] \in DOMAIN log /\ range[1] < range[2]
      /\ log[range[1]].type = "turn/start" /\ Silent(range[1] + 1, range[2])
  BY RangeFields DEF RowsTyped, TurnOrder
<1>4. i \in DOMAIN log /\ i \in Nat /\ range[1] < i /\ i <= range[2]
      /\ range[1] \in Nat /\ range[2] \in Nat
  <2>1. i # range[1]
    BY <1>3 DEF Copied, MessageTypes
  <2>2. range[1] \in Nat /\ range[2] \in Nat
    BY <1>2, <1>3
  <2> QED BY <1>2, <1>3, <2>1, <2>2
<1>5. log[i].body # 0 /\ log[i].op = "append" /\ log[i].type \in MessageTypes
      /\ log[i].body <= i
  BY <1>4 DEF Copied, RowsInv, Bodies
<1>6. /\ AppendReplacement(e, lo, hi) /\ AppendEvent(e)
      /\ \A x \in DOMAIN log : log'[x] = log[x]
      /\ log'[Len(log) + 1] = e
  <2>1. AppendReplacement(e, lo, hi) /\ AppendEvent(e)
    BY DEF Replaces, AppendReplacement
  <2> QED BY <2>1, LogGrows DEF RowsTyped
<1>7. /\ surface'[lo] = Len(log) + 1
      /\ p # lo => /\ q \in DOMAIN surface /\ q \notin lo..hi /\ surface'[p] = y
  BY <1>1, <1>6, RowsReplaced DEF RowsTyped
<1>8. q \in DOMAIN surface /\ q \notin lo..hi /\ surface'[p] = y
  BY <1>5, <1>6, <1>7
<1> HIDE DEF q
<1>9. q < lo /\ q \in Nat /\ q >= 1
  BY <1>1, <1>2, <1>8
<1>10. y \in DOMAIN log /\ y \in Nat /\ log[y].body = log[i].body
  BY <1>2, <1>6, <1>8
<1>11. i <= y
  BY <1>4, <1>5, <1>8, <1>10 DEF Youngest
<1>12. log[y].op = "append"
  <2>1. log[y].op # "none" /\ log[y] \in Event
    BY <1>8, <1>10 DEF RowsInv, SurfaceRows, RowsTyped
  <2>2. log[y].op \in {"append", "replace", "none"}
    BY <2>1 DEF Event
  <2>3. ASSUME log[y].op = "replace" PROVE FALSE
    <3>1. log[y].body = y
      BY <1>5, <1>10, <2>3 DEF RowsInv, Bodies
    <3>2. y <= i
      BY <1>5, <1>10, <3>1
    <3>3. y = i
      BY <1>4, <1>10, <1>11, <3>2
    <3> QED BY <1>5, <2>3, <3>3
  <2> QED BY <2>1, <2>2, <2>3
<1>13. surface[lo] \in TurnSeqs(range) /\ TailNode \in TurnSeqs(range)
  <2>1. lo \in lo..hi /\ hi \in lo..hi
    BY <1>1
  <2> QED BY <1>1, <2>1 DEF TailNode
<1>14. surface[lo] <= range[2] /\ TailNode <= range[2] /\ TailNode \in Nat /\ surface[lo] \in Nat
  <2>1. surface[lo] \in range[1]..range[2] /\ TailNode \in range[1]..range[2]
    BY <1>13 DEF TurnSeqs, shadowedTurnNodes
  <2> QED BY <1>4, <2>1
<1>15. y < range[2]
  <2>1. y < surface[lo]
    BY <1>1, <1>8, <1>9, <1>12 DEF RowsInv, Ordered
  <2> QED BY <1>4, <1>10, <1>14, <2>1
<1>16. i = y
  <2>1. ASSUME i < y PROVE FALSE
    <3>1. Apart(i, y)
      BY <1>4, <1>5, <1>10, <1>12, <2>1 DEF Spaced
    <3>2. PICK b \in DOMAIN log : i < b /\ b < y /\ IsBoundary(b)
      BY <3>1 DEF Apart
    <3>3. range[1] + 1 <= b /\ b < range[2]
      BY <1>2, <1>4, <1>10, <1>15, <3>2
    <3> QED BY <1>3, <3>2, <3>3 DEF Silent
  <2> QED BY <1>4, <1>10, <1>11, <2>1
<1>17. q \in lo..hi
  BY <1>4, <1>8, <1>16, RunHoldsTurn
<1> QED BY <1>8, <1>17

LEMMA RowTail ==
  ASSUME RowsTyped, TailNode' = Len(log) + 1, NEW e \in Event, AppendEvent(e), ~isUndoTombstone(e)
  PROVE  UndoneIsOff'
<1>1. log'[Len(log) + 1] = e
  BY LogGrows DEF RowsTyped
<1>2. ~isUndoTombstone(log'[TailNode'])
  BY <1>1
<1> QED BY <1>2 DEF UndoneIsOff

LEMMA UndoneKept ==
  ASSUME Sound, Youngest, Spaced, UndoneIsOff, Plainly,
         log' = log \/ \E e \in Event : AppendEvent(e),
         surface' # <<>> => surface # <<>> /\ TailNode' = TailNode
  PROVE  UndoneIsOff'
<1> USE DEF Sound
<1> SUFFICES ASSUME surface' # <<>>, isUndoTombstone(log'[TailNode']) PROVE UndoneIsOff'
  BY DEF UndoneIsOff
<1>1. surface # <<>> /\ TailNode' = TailNode /\ TailNode \in DOMAIN log
  BY TailTyped
<1>2. /\ \A i \in DOMAIN log : log'[i] = log[i]
      /\ \A t \in Nat : turnLogRange(log, t) \subseteq turnLogRange(log', t)
  <2>1. CASE log' = log
    BY <2>1
  <2>2. ASSUME NEW e \in Event, AppendEvent(e)
        PROVE  /\ \A i \in DOMAIN log : log'[i] = log[i]
               /\ \A t \in Nat : turnLogRange(log, t) \subseteq turnLogRange(log', t)
    <3>1. \A i \in DOMAIN log : log'[i] = log[i]
      BY <2>2, LogGrows DEF RowsTyped
    <3>2. \A t \in Nat : \A r \in turnLogRange(log, t) : r \in turnLogRange(log', t)
      BY <2>2, RangeStays DEF RowsTyped
    <3> QED BY <3>1, <3>2
  <2> QED BY <2>1, <2>2
<1>3. log[TailNode].turn \in Nat
  <2>1. \A e \in Event : e.turn \in Nat
    BY DEF Event
  <2> QED BY <1>1, <2>1 DEF RowsTyped
<1>4. isUndoTombstone(log[TailNode])
  BY <1>1, <1>2
<1>5. PICK range \in turnLogRange(log, log[TailNode].turn) :
        \A i \in range[1]..range[2] : Copied(i) => Off(i)
  BY <1>1, <1>4 DEF UndoneIsOff
<1>6. range \in turnLogRange(log', log'[TailNode'].turn)
  BY <1>1, <1>2, <1>3
<1>7. \A i \in range[1]..range[2] : i \in DOMAIN log
  <2>1. range[1] \in DOMAIN log /\ range[2] \in DOMAIN log
    BY DEF turnLogRange, Starts, Ends
  <2>2. DOMAIN log = 1..Len(log) /\ Len(log) \in Nat
    BY DEF RowsTyped
  <2> QED BY <2>1, <2>2
<1>8. \A k \in DOMAIN log : Copied(k) /\ Off(k) =>
        \A p \in DOMAIN surface' : log'[surface'[p]].body # log[k].body
  BY PlainContent DEF RowsInv
<1>9. \A i \in range[1]..range[2] : Copied(i)' => Off(i)'
  <2> SUFFICES ASSUME NEW i \in range[1]..range[2], Copied(i)' PROVE Off(i)'
    OBVIOUS
  <2>1. i \in DOMAIN log /\ Copied(i) /\ log'[i] = log[i]
    BY <1>2, <1>7 DEF Copied
  <2> QED BY <1>5, <1>8, <2>1 DEF Off
<1> QED BY <1>6, <1>9 DEF UndoneIsOff

LEMMA UndoneIsOffNext ==
  ASSUME Sound, TailRun, Youngest, Spaced, UndoneIsOff, [Next]_vars
  PROVE  UndoneIsOff'
<1> USE DEF Sound
<1>0. /\ Len(log) \in Nat /\ DOMAIN log = 1..Len(log) /\ log \in Seq(Event)
      /\ turn \in Nat /\ replay.turn \in Nat
  <2>1. log \in Seq(Event) /\ turn \in Nat /\ replay.turn \in Nat
    BY DEF TypeInv, TypeOK
  <2> QED BY <2>1
<1>1. ASSUME NEW type \in BoundaryTypes, NEW t \in Nat,
             AppendEvent(Boundary(type, t)), surface' = surface
      PROVE  UndoneIsOff'
  <2>1. \E e \in Event : AppendEvent(e)
    BY <1>1, BoundaryFields
  <2>2. Plainly
    BY <1>1 DEF Plainly, AddsBoundary
  <2>3. surface' # <<>> => surface # <<>> /\ TailNode' = TailNode
    BY <1>1 DEF TailNode
  <2> QED BY <2>1, <2>2, <2>3, UndoneKept
<1>2. CASE TurnStart
  <2>1. turn + 1 \in Nat /\ "turn/start" \in BoundaryTypes
    BY <1>0 DEF BoundaryTypes
  <2> QED BY <1>1, <1>2, <2>1 DEF TurnStart
<1>3. CASE TurnEnd
  BY <1>0, <1>1, <1>3 DEF TurnEnd, BoundaryTypes
<1>4. CASE SystemPrompt \/ \E type \in MessageTypes : TurnRow(type)
  <2>1. PICK e \in Event : AppendRow(e) /\ e.op = "append"
    BY <1>4, AddedRow DEF AddsRow
  <2>2. AppendEvent(e) /\ TailNode' = Len(log) + 1 /\ ~isUndoTombstone(e)
    BY <2>1, RowAdded DEF AppendRow, RowsTyped, isUndoTombstone
  <2> QED BY <2>2, RowTail
<1>5. ASSUME NEW lo \in DOMAIN surface, NEW hi \in DOMAIN surface, NEW e \in Event,
             Replaces(e, lo, hi), hi = Len(surface) => Fresh(e)
      PROVE  UndoneIsOff'
  <2>1. lo <= hi /\ AppendReplacement(e, lo, hi) /\ AppendEvent(e)
    BY <1>5 DEF Replaces, AppendReplacement
  <2>2. CASE hi = Len(surface)
    <3>1. TailNode' = Len(log) + 1
      BY <2>1, <2>2, RowsReplaced DEF RowsTyped
    <3>2. ~isUndoTombstone(e)
      BY <1>0, <1>5, <2>2 DEF Fresh, isUndoTombstone
    <3> QED BY <2>1, <3>1, <3>2, RowTail
  <2>3. CASE hi # Len(surface)
    <3>1. TailNode' = TailNode /\ surface # <<>>
      BY <2>1, <2>3, RowsReplaced DEF RowsTyped, LogTyped
    <3>2. Plainly
      BY <1>5 DEF Plainly
    <3> QED BY <2>1, <3>1, <3>2, UndoneKept
  <2> QED BY <2>2, <2>3
<1>6. ASSUME NEW type \in {"user/message", "tool/result"},
             NEW lo \in DOMAIN surface, NEW hi \in DOMAIN surface, RewriteRows(type, lo, hi)
      PROVE  UndoneIsOff'
  <2>1. PICK e \in Event : Replaces(e, lo, hi) /\ Fresh(e)
    BY <1>6, Rewritten
  <2> QED BY <1>5, <2>1
<1>7. CASE Compact
  <2>1. PICK e \in Event, lo \in DOMAIN surface : Replaces(e, lo, Len(surface)) /\ Fresh(e)
    BY <1>7, Compacted
  <2> QED BY <1>5, <2>1 DEF Replaces
<1>8. ASSUME NEW m \in findAssistantMessages(log), performUndo(m) PROVE UndoneIsOff'
  <2>1. agent = "idle" /\ replay = NoReplay
    BY <1>8, Undone
  <2>2. PICK range \in turnLogRange(log, log[m].turn) :
          \E run \in trailingTurnRun(surface, TurnSeqs(range)) : \E e \in Event :
            Replaces(e, run[1], run[2]) /\ isUndoTombstone(e) /\ e.turn = log[m].turn
    BY <1>8, Undone
  <2>3. PICK run \in trailingTurnRun(surface, TurnSeqs(range)) : \E e \in Event :
            Replaces(e, run[1], run[2]) /\ isUndoTombstone(e) /\ e.turn = log[m].turn
    BY <2>2
  <2>4. PICK e \in Event : Replaces(e, run[1], run[2]) /\ isUndoTombstone(e) /\ e.turn = log[m].turn
    BY <2>3
  <2>5. /\ run[1] <= run[2] /\ run[1] \in DOMAIN surface /\ run[2] \in DOMAIN surface
        /\ AppendReplacement(e, run[1], run[2]) /\ AppendEvent(e)
    BY <2>4 DEF Replaces, AppendReplacement
  <2>6. CASE run[2] # Len(surface)
    BY <1>5, <2>4, <2>5, <2>6
  <2>7. CASE run[2] = Len(surface)
    <3>1. TailNode' = Len(log) + 1 /\ surface' # <<>>
      BY <2>5, <2>7, RowsReplaced DEF RowsTyped
    <3>2. log[m].turn \in Nat
      <4>1. m \in DOMAIN log /\ \A e2 \in Event : e2.turn \in Nat
        BY DEF findAssistantMessages, Event
      <4> QED BY <1>0, <4>1
    <3>3. log'[TailNode'] = e /\ \A i \in DOMAIN log : log'[i] = log[i]
      BY <2>5, <3>1, LogGrows DEF RowsTyped
    <3>4. range \in turnLogRange(log', log'[TailNode'].turn)
      BY <1>0, <2>4, <2>5, <3>2, <3>3, RangeStays
    <3>5. \A i \in range[1]..range[2] : Copied(i)' => Off(i)'
      <4> SUFFICES ASSUME NEW i \in range[1]..range[2], Copied(i)', NEW p \in DOMAIN surface'
                   PROVE  log'[surface'[p]].body # log'[i].body
        BY DEF Off
      <4>1. i \in DOMAIN log
        <5>1. range[1] \in DOMAIN log /\ range[2] \in DOMAIN log
          BY DEF turnLogRange, Starts, Ends
        <5> QED BY <1>0, <5>1
      <4>2. Copied(i) /\ log'[i] = log[i]
        BY <3>3, <4>1 DEF Copied
      <4>3. e.body = 0
        BY <2>4 DEF isUndoTombstone
      <4> QED BY <2>1, <2>4, <2>7, <3>2, <4>2, <4>3, UndoClears
    <3> QED BY <3>4, <3>5 DEF UndoneIsOff
  <2> QED BY <2>6, <2>7
<1>9. CASE RedoAppend
  <2>1. PICK i \in DOMAIN log :
          \/ IsBoundary(i) /\ AppendEvent(Boundary(log[i].type, replay.turn)) /\ UNCHANGED surface
          \/ CopiesRow(i)
    BY <1>9, CopiedStep
  <2>2. CASE CopiesRow(i)
    <3>1. PICK e \in Event : AppendRow(e) /\ e.op = "append"
      BY <2>2 DEF CopiesRow
    <3>2. AppendEvent(e) /\ TailNode' = Len(log) + 1 /\ ~isUndoTombstone(e)
      BY <3>1, RowAdded DEF AppendRow, RowsTyped, isUndoTombstone
    <3> QED BY <3>2, RowTail
  <2>3. CASE IsBoundary(i) /\ AppendEvent(Boundary(log[i].type, replay.turn)) /\ UNCHANGED surface
    BY <1>0, <1>1, <2>3 DEF IsBoundary
  <2> QED BY <2>1, <2>2, <2>3
<1>10. CASE RedoFail
  BY <1>0, <1>1, <1>10 DEF RedoFail, BoundaryTypes
<1>11. CASE RedoStart \/ RedoDone \/ RedoFailOpen \/ UNCHANGED vars
  <2>1. log' = log /\ surface' = surface
    BY <1>11 DEF RedoStart, RedoDone, RedoFailOpen, vars
  <2>2. Plainly /\ (surface' # <<>> => surface # <<>> /\ TailNode' = TailNode)
    BY <2>1 DEF Plainly, TailNode
  <2> QED BY <2>1, <2>2, UndoneKept
<1> QED BY <1>2, <1>3, <1>4, <1>6, <1>7, <1>8, <1>9, <1>10, <1>11 DEF Next, Harness, Handlers

\* A redo starts on content that is off the surface.
LEMMA RestStarts ==
  ASSUME Sound, UndoneIsOff, RedoStart
  PROVE  RestIsOff' /\ RestIsNew'
<1> USE DEF Sound
<1>1. PICK i \in RedoTarget : \E range \in turnLogRange(log, log[i].turn) :
        replay' = [tomb |-> i, turn |-> FakeBase + log[i].turn,
                   at |-> range[1], end |-> range[2]]
  BY DEF RedoStart
<1>2. PICK range \in turnLogRange(log, log[i].turn) :
        replay' = [tomb |-> i, turn |-> FakeBase + log[i].turn,
                   at |-> range[1], end |-> range[2]]
  BY <1>1
<1>3. log' = log /\ surface' = surface /\ replay = NoReplay /\ agent = "idle"
  BY DEF RedoStart, RedoTarget, TypeInv, TypeOK
<1>4. surface # <<>> /\ TailNode = i /\ isUndoTombstone(log[i]) /\ i \in DOMAIN log
  BY DEF RedoTarget, isSurfaceTail, findLastUndoTombstone, Tombstones, TailNode
<1>5. replay'.at = range[1] /\ replay'.end = range[2]
  BY <1>2
<1>6. log[i].turn \in Nat
  <2>1. \A e \in Event : e.turn \in Nat
    BY DEF Event
  <2> QED BY <1>4, <2>1 DEF RowsTyped
<1>7. \A k \in range[1]..range[2] : Copied(k) => Off(k)
  <2>1. PICK r \in turnLogRange(log, log[i].turn) : \A k \in r[1]..r[2] : Copied(k) => Off(k)
    BY <1>4 DEF UndoneIsOff
  <2>2. r = range
    BY <1>6, RangeUnique DEF RowsTyped
  <2> QED BY <2>1, <2>2
<1>8. RestIsOff'
  BY <1>3, <1>5, <1>7 DEF RestIsOff, Off, Copied
<1>9. /\ range[1] \in DOMAIN log /\ range[2] \in DOMAIN log /\ range[1] < range[2]
      /\ log[range[1]].type = "turn/start"
  BY <1>3, <1>6, RangeFields DEF RowsTyped, TurnOrder
<1>10. ~Silent(replay.at, replay.end)'
  <2>1. IsBoundary(range[1]) /\ range[1] <= range[1]
    BY <1>9 DEF IsBoundary, BoundaryTypes, RowsTyped
  <2> QED BY <1>3, <1>5, <1>9, <2>1 DEF Silent, IsBoundary
<1> QED BY <1>8, <1>10 DEF RestIsNew

LEMMA RestCopied ==
  ASSUME Sound, Youngest, Spaced, RestIsOff, RestIsNew, RedoAppend
  PROVE  Youngest' /\ Spaced' /\ RestIsOff' /\ RestIsNew'
<1> USE DEF Sound
<1>1. PICK i \in replay.at..replay.end :
           /\ i \in DOMAIN log /\ i \in Nat /\ hasReplayRole(log[i])
           /\ \A j \in replay.at..(i - 1) : ~hasReplayRole(log[j])
           /\ replay'.at = i + 1 /\ replay'.end = replay.end /\ replay'.turn = replay.turn
           /\ agent' = agent /\ replay # NoReplay /\ replay' # NoReplay
           /\ \/ IsBoundary(i) /\ AppendEvent(Boundary(log[i].type, replay.turn)) /\ UNCHANGED surface
              \/ CopiesRow(i)
  BY CopiedStep
<1>2. /\ replay.at \in Nat /\ replay.end \in DOMAIN log /\ replay.end \in Nat /\ replay.at # 0
      /\ replay.turn \in Nat
      /\ replay.at <= i /\ i <= replay.end
      /\ Len(log) \in Nat /\ DOMAIN log = 1..Len(log) /\ log \in Seq(Event)
  <2>1. /\ replay.at \in Nat /\ replay.end \in DOMAIN log /\ replay.at # 0 /\ replay.turn \in Nat
        /\ log \in Seq(Event)
    BY <1>1 DEF TypeInv, TypeOK, ReplayInLog
  <2> QED BY <1>1, <2>1
<1>3. \A k \in (i + 1)..replay.end : k \in replay.at..replay.end /\ k \in DOMAIN log /\ i < k
  BY <1>1, <1>2
<1>4. CASE IsBoundary(i) /\ AppendEvent(Boundary(log[i].type, replay.turn)) /\ UNCHANGED surface
  <2> DEFINE e == Boundary(log[i].type, replay.turn)
  <2>1. e \in Event /\ e.type \in BoundaryTypes /\ e.op = "none" /\ AppendEvent(e)
    BY <1>2, <1>4, BoundaryFields DEF IsBoundary, Boundary
  <2>2. Plainly
    BY <1>2, <1>4 DEF Plainly, AddsBoundary, IsBoundary
  <2>3. /\ Youngest' /\ Spaced'
        /\ \A k \in DOMAIN log : Copied(k) /\ Off(k) =>
             \A p \in DOMAIN surface' : log'[surface'[p]].body # log[k].body
    BY <2>2, PlainContent DEF RowsInv
  <2> HIDE DEF e
  <2>4. /\ DOMAIN log' = 1..(Len(log) + 1)
        /\ \A k \in DOMAIN log : log'[k] = log[k]
        /\ log'[Len(log) + 1] = e
    BY <2>1, LogGrows DEF RowsTyped
  <2>5. RestIsOff'
    <3> SUFFICES ASSUME NEW k \in (i + 1)..replay.end, Copied(k)' PROVE Off(k)'
      BY <1>1 DEF RestIsOff
    <3>1. k \in DOMAIN log /\ Copied(k) /\ log'[k] = log[k] /\ Off(k)
      BY <1>1, <1>3, <2>4 DEF RestIsOff, Copied
    <3> QED BY <2>3, <3>1 DEF Off
  <2>6. RestIsNew'
    <3> SUFFICES ASSUME NEW j \in DOMAIN log', log'[j].op = "append"
                 PROVE  \E b \in DOMAIN log' : b > j /\ log'[b].type \in BoundaryTypes
      BY DEF RestIsNew, IsBoundary
    <3>1. j # Len(log) + 1
      BY <2>1, <2>4
    <3>2. Len(log) + 1 \in DOMAIN log' /\ Len(log) + 1 > j
      BY <1>2, <2>4, <3>1
    <3> QED BY <2>1, <2>4, <3>2
  <2> QED BY <2>3, <2>5, <2>6
<1>5. CASE CopiesRow(i)
  <2>1. Copied(i) /\ log[i].op = "append"
    BY <1>5 DEF CopiesRow, Copied
  <2>2. RedoOrder
    BY <1>1 DEF TurnOrder
  <2>3. Silent(replay.at, replay.end)
    BY <1>1, <2>1, <2>2, CopiesInside
  <2>4. Off(i)
    BY <1>1, <2>1 DEF RestIsOff
  <2>5. \A j \in DOMAIN log : log[j].op = "append" /\ log[j].body = log[i].body =>
          \E b \in DOMAIN log : b > j /\ IsBoundary(b)
    BY <1>1, <2>1, <2>3 DEF RestIsNew
  <2>6. /\ Youngest' /\ Spaced'
        /\ \A k \in DOMAIN log : Copied(k) /\ Off(k) /\ log[k].body # log[i].body =>
             \A p \in DOMAIN surface' : log'[surface'[p]].body # log[k].body
    BY <1>1, <1>5, <2>4, <2>5, CopyContent DEF RowsInv
  <2>7. PICK e \in Event : e.op = "append" /\ e.body = log[i].body /\ AppendRow(e)
    BY <1>5 DEF CopiesRow
  <2>8. /\ DOMAIN log' = 1..(Len(log) + 1)
        /\ \A k \in DOMAIN log : log'[k] = log[k]
        /\ log'[Len(log) + 1] = e
    BY <2>7, LogGrows DEF RowsTyped, AppendRow
  <2>9. ASSUME NEW k \in (i + 1)..replay.end, Copied(k) PROVE log[k].body # log[i].body
    <3> SUFFICES ASSUME log[k].body = log[i].body PROVE FALSE
      OBVIOUS
    <3>1. Apart(i, k)
      BY <1>1, <1>3, <2>1, <2>9 DEF Spaced, Copied
    <3>2. PICK b \in DOMAIN log : i < b /\ b < k /\ IsBoundary(b)
      BY <3>1 DEF Apart
    <3>3. replay.at <= b /\ b < replay.end
      BY <1>1, <1>2, <3>2
    <3> QED BY <2>3, <3>2, <3>3 DEF Silent
  <2>10. RestIsOff'
    <3> SUFFICES ASSUME NEW k \in (i + 1)..replay.end, Copied(k)' PROVE Off(k)'
      BY <1>1 DEF RestIsOff
    <3>1. k \in DOMAIN log /\ Copied(k) /\ log'[k] = log[k] /\ Off(k)
      BY <1>1, <1>3, <2>8 DEF RestIsOff, Copied
    <3> QED BY <2>6, <2>9, <3>1 DEF Off
  <2>11. RestIsNew'
    <3> SUFFICES ASSUME NEW j \in DOMAIN log', NEW k \in (i + 1)..replay.end,
                        log'[j].op = "append", Copied(k)', log'[j].body = log'[k].body
                 PROVE  \E b \in DOMAIN log' : b > j /\ log'[b].type \in BoundaryTypes
      BY <1>1 DEF RestIsNew, IsBoundary
    <3>1. k \in DOMAIN log /\ k \in replay.at..replay.end /\ Copied(k) /\ log'[k] = log[k]
      BY <1>3, <2>8 DEF Copied
    <3>2. j # Len(log) + 1
      BY <2>7, <2>8, <2>9, <3>1
    <3>3. j \in DOMAIN log /\ log'[j] = log[j]
      BY <1>2, <2>8, <3>2
    <3>4. PICK b \in DOMAIN log : b > j /\ IsBoundary(b)
      BY <1>1, <2>3, <3>1, <3>3 DEF RestIsNew
    <3> QED BY <1>2, <2>8, <3>4 DEF IsBoundary
  <2> QED BY <2>6, <2>10, <2>11
<1> QED BY <1>1, <1>4, <1>5

LEMMA ContentNext ==
  ASSUME Sound, ContentInv, [Next]_vars
  PROVE  ContentInv'
<1> USE DEF Sound
<1>0. turn \in Nat /\ replay.turn \in Nat
  BY DEF TypeInv, TypeOK
<1>1. Opening' /\ TailRun' /\ UndoneIsOff'
  BY OpeningNext, TailRunNext, UndoneIsOffNext DEF ContentInv
<1> DEFINE Goal == Youngest' /\ Spaced' /\ RestIsOff' /\ RestIsNew'
<1> SUFFICES Goal
  BY <1>1 DEF ContentInv
<1>2. ASSUME Plainly, replay' = NoReplay PROVE Goal
  <2>1. Youngest' /\ Spaced'
    BY <1>2, PlainContent DEF RowsInv, ContentInv
  <2> QED BY <1>2, <2>1 DEF RestIsOff, RestIsNew
<1> HIDE DEF Goal
<1>3. CASE TurnStart \/ TurnEnd
  <2>1. turn + 1 \in Nat /\ "turn/start" \in BoundaryTypes /\ "turn/end" \in BoundaryTypes
    BY <1>0 DEF BoundaryTypes
  <2>2. Plainly /\ replay' = NoReplay
    BY <1>0, <1>3, <2>1 DEF TurnStart, TurnEnd, Plainly, AddsBoundary
  <2> QED BY <1>2, <2>2
<1>4. CASE SystemPrompt \/ \E type \in MessageTypes : TurnRow(type)
  BY <1>2, <1>4, AddedRow DEF Plainly
<1>5. ASSUME NEW type \in {"user/message", "tool/result"},
             NEW lo \in DOMAIN surface, NEW hi \in DOMAIN surface, RewriteRows(type, lo, hi)
      PROVE  Goal
  <2>1. replay' = NoReplay /\ \E e \in Event : Replaces(e, lo, hi)
    BY <1>5, Rewritten
  <2>2. Plainly
    BY <2>1 DEF Plainly
  <2> QED BY <1>2, <2>1, <2>2
<1>6. CASE Compact
  <2>1. replay' = NoReplay /\ \E e \in Event, lo \in DOMAIN surface : Replaces(e, lo, Len(surface))
    BY <1>6, Compacted
  <2>2. Plainly
    BY <2>1 DEF Plainly, Replaces
  <2> QED BY <1>2, <2>1, <2>2
<1>7. ASSUME NEW m \in findAssistantMessages(log), performUndo(m) PROVE Goal
  <2>1. PICK range \in turnLogRange(log, log[m].turn) :
          \E run \in trailingTurnRun(surface, TurnSeqs(range)) : \E e \in Event :
            Replaces(e, run[1], run[2])
    BY <1>7, Undone
  <2>2. Plainly
    BY <2>1 DEF Plainly, Replaces
  <2>3. replay' = NoReplay
    BY <1>7, Undone
  <2> QED BY <1>2, <2>2, <2>3
<1>8. CASE RedoStart
  <2>1. RestIsOff' /\ RestIsNew'
    BY <1>8, RestStarts DEF ContentInv
  <2>2. Plainly
    BY <1>8 DEF RedoStart, Plainly
  <2>3. Youngest' /\ Spaced'
    BY <2>2, PlainContent DEF RowsInv, ContentInv
  <2> QED BY <2>1, <2>3 DEF Goal
<1>9. CASE RedoAppend
  BY <1>9, RestCopied DEF ContentInv, Goal
<1>10. CASE RedoFail
  <2>1. Plainly /\ replay' = NoReplay
    BY <1>0, <1>10 DEF RedoFail, Plainly, AddsBoundary, BoundaryTypes
  <2> QED BY <1>2, <2>1
<1>11. CASE RedoDone \/ RedoFailOpen
  <2>1. Plainly /\ replay' = NoReplay
    BY <1>11 DEF RedoDone, RedoFailOpen, Plainly
  <2> QED BY <1>2, <2>1
<1>12. CASE UNCHANGED vars
  BY <1>12 DEF vars, Goal, ContentInv, Youngest, Spaced, RestIsOff, RestIsNew, Off, Copied,
     Apart, IsBoundary, Silent
<1> QED BY <1>3, <1>4, <1>5, <1>6, <1>7, <1>8, <1>9, <1>10, <1>11, <1>12
        DEF Next, Harness, Handlers

-----------------------------------------------------------------------------
LEMMA RowsInvariant == Spec => []RowsInv
<1>1. Init => RowsInv
  BY DEF Init, RowsInv, Bodies, SurfaceRows, Ordered
<1>2. TypeInv /\ TypeInv' /\ TurnsInv /\ RowsInv /\ [Next]_vars => RowsInv'
  <2> SUFFICES ASSUME TypeInv, TypeInv', TurnsInv, RowsInv, [Next]_vars PROVE RowsInv'
    OBVIOUS
  <2>1. RowsTyped /\ Steps
    BY NextSteps DEF RowsTyped, LogTyped, TypeInv, TypeOK, TurnsInv
  <2> QED BY <2>1, BodiesNext, SurfaceRowsNext, OrderedNext DEF RowsInv
<1> QED BY <1>1, <1>2, TypeInvariant, TurnsInvariant, PTL DEF Spec

LEMMA TurnOrderInvariant == Spec => []TurnOrder
<1>1. Init => TurnOrder
  BY DEF Init, TurnOrder, RangesSilent, Settled, OpenTurn, Reopens, TombTail, Starts, turnLogRange
<1>2. TypeInv /\ TypeInv' /\ TurnsInv /\ RowsInv /\ TurnOrder /\ [Next]_vars => TurnOrder'
  BY TurnOrderNext DEF RowsTyped, LogTyped, TypeInv, TypeOK, TurnsInv
<1> QED BY <1>1, <1>2, TypeInvariant, TurnsInvariant, RowsInvariant, PTL DEF Spec

LEMMA ContentInvariant == Spec => []ContentInv
<1>1. Init => ContentInv
  BY DEF Init, ContentInv, Opening, TailRun, Youngest, Spaced, UndoneIsOff, RestIsOff, RestIsNew
<1>2. /\ TypeInv /\ TurnsInv /\ TurnOrder /\ RowsInv /\ CitedInv /\ TypeInv'
      /\ ContentInv /\ [Next]_vars
      => ContentInv'
  <2> SUFFICES ASSUME TypeInv, TurnsInv, TurnOrder, RowsInv, CitedInv, TypeInv', ContentInv, [Next]_vars
               PROVE  ContentInv'
    OBVIOUS
  <2>1. Sound
    BY DEF Sound, RowsTyped, LogTyped, TypeInv, TypeOK, CitedInv, TurnsInv
  <2> QED BY <2>1, ContentNext
<1> QED BY <1>1, <1>2, TypeInvariant, TurnsInvariant, TurnOrderInvariant, RowsInvariant,
           CitedInvariant, PTL DEF Spec

\* The model never sees one content twice, whatever turns, rewrites,
\* compactions, undos and redos the session went through, and however many of
\* their appends it rejected: a redo copies a turn only while the turn's
\* content is off the surface (index.ts:101-242).
THEOREM NothingIsSeenTwice == Spec => []NoContentTwice
<1>1. TypeInv /\ CitedInv /\ ContentInv => NoContentTwice
  <2> SUFFICES ASSUME TypeInv, NodesDistinct, Youngest,
                      NEW p \in DOMAIN surface, NEW q \in DOMAIN surface,
                      log[surface[p]].body = log[surface[q]].body, log[surface[p]].body # 0
               PROVE  p = q
    BY DEF NoContentTwice, CitedInv, ContentInv
  <2>1. surface[p] \in DOMAIN log /\ surface[q] \in DOMAIN log /\ DOMAIN log \subseteq Nat
    BY DEF TypeInv, TypeOK
  <2>2. surface[p] <= surface[q] /\ surface[q] <= surface[p]
    BY <2>1 DEF Youngest
  <2>3. surface[p] = surface[q]
    BY <2>1, <2>2
  <2> QED BY <2>3 DEF NodesDistinct
<1> QED BY <1>1, TypeInvariant, CitedInvariant, ContentInvariant, PTL

-----------------------------------------------------------------------------
(* A redo restores what its undo removed.                                  *)

\* A turn/start and the turn/end that is the next boundary.
Pair(s, x) ==
  /\ s \in DOMAIN log /\ x \in DOMAIN log /\ s < x
  /\ log[s].type = "turn/start" /\ log[x].type = "turn/end" /\ Silent(s + 1, x)

\* The last boundary is a turn/start, at o.
LastStart(o) ==
  o \in DOMAIN log /\ log[o].type = "turn/start" /\ \A j \in DOMAIN log : j > o => ~IsBoundary(j)

OnSurface(i) == \E p \in DOMAIN surface : surface[p] = i

\* A redo has its fake turn open.
Inside == replay # NoReplay /\ replay.at <= replay.end /\ Silent(replay.at, replay.end)

\* The prompt a turn appends is the first row.
SystemHead ==
  \A p \in DOMAIN surface :
    log[surface[p]].op = "append" /\ log[surface[p]].type = "system/message" => p = 1

\* From a rewrite on, the surface holds only later rows of the turn of row i.
RewrittenSince(i, p) ==
  /\ log[surface[p]].op = "replace" /\ log[surface[p]].type \in MessageTypes
  /\ \A q \in DOMAIN surface : p <= q => i < surface[q] /\ ~Apart(i, surface[q])

Rewrote(i) == \E p \in DOMAIN surface : RewrittenSince(i, p)

\* The rows of the turn that runs, or of the fake turn a redo fills, are all on
\* the surface, but for those that the turn itself rewrote ...
OpenRows ==
  \A i \in DOMAIN log :
    Copied(i) /\ (\A b \in DOMAIN log : IsBoundary(b) => b < i) => OnSurface(i) \/ Rewrote(i)

\* ... and so are those of the turn the tail is in.
ClosedRows ==
  agent = "idle" /\ surface # <<>> =>
    \A s, x \in Nat : Pair(s, x) /\ s < TailNode /\ TailNode < x =>
      \A i \in DOMAIN log : s < i /\ i < x /\ Copied(i) => OnSurface(i) \/ Rewrote(i)

\* A tombstone at the tail is in no turn, and a turn that a redo left open has
\* a tombstone before it or its rows behind it.
TombOutside ==
  TombTail =>
    /\ \A s, x \in Nat : Pair(s, x) => ~(s < TailNode /\ TailNode < x)
    /\ agent = "idle" => \A o \in Nat : LastStart(o) => TailNode < o

OpenTomb ==
  agent = "idle" /\ surface # <<>> => \A o \in Nat : LastStart(o) => TailNode > o \/ TombTail

\* Until it opens its fake turn a redo has its tombstone at the tail.
TombFirst ==
  replay # NoReplay /\ replay.at <= replay.end /\ ~Inside => TombTail /\ TailNode = replay.tomb

PresentInv ==
  /\ SystemHead /\ (agent = "running" \/ Inside => OpenRows)
  /\ ClosedRows /\ TombOutside /\ OpenTomb /\ TombFirst

-----------------------------------------------------------------------------
\* What an event adds to the turns: a turn/start opens one, a turn/end closes
\* the one that was open.
LEMMA PairsGrow ==
  ASSUME log \in Seq(Event), NEW e \in Event, AppendEvent(e)
  PROVE  /\ \A s, x \in Nat : Pair(s, x)' =>
              \/ Pair(s, x)
              \/ x = Len(log) + 1 /\ e.type = "turn/end" /\ LastStart(s)
         /\ \A o \in Nat : LastStart(o)' =>
              \/ LastStart(o) /\ e.type \notin BoundaryTypes
              \/ o = Len(log) + 1 /\ e.type = "turn/start"
<1> DEFINE n == Len(log) + 1
<1>1. /\ Len(log) \in Nat /\ DOMAIN log = 1..Len(log) /\ DOMAIN log' = 1..n
      /\ \A i \in DOMAIN log : log'[i] = log[i]
      /\ log'[n] = e
  BY AppendedLog
<1>2. ASSUME NEW s \in Nat, NEW x \in Nat, Pair(s, x)', x # n PROVE Pair(s, x)
  <2>1. /\ s \in DOMAIN log' /\ x \in DOMAIN log' /\ s < x
        /\ log'[s].type = "turn/start" /\ log'[x].type = "turn/end"
        /\ \A j \in DOMAIN log' : s + 1 <= j /\ j < x => log'[j].type \notin BoundaryTypes
    BY <1>2 DEF Pair, Silent, IsBoundary
  <2>2. s \in DOMAIN log /\ x \in DOMAIN log
    BY <1>1, <1>2, <2>1
  <2>3. \A j \in DOMAIN log : s + 1 <= j /\ j < x => log[j].type \notin BoundaryTypes
    BY <1>1, <2>1
  <2> QED BY <1>1, <2>1, <2>2, <2>3 DEF Pair, Silent, IsBoundary
<1>3. ASSUME NEW s \in Nat, NEW x \in Nat, x = n, Pair(s, x)' PROVE e.type = "turn/end" /\ LastStart(s)
  <2>1. /\ s \in DOMAIN log' /\ s < x
        /\ log'[s].type = "turn/start" /\ log'[x].type = "turn/end"
        /\ \A j \in DOMAIN log' : s + 1 <= j /\ j < x => log'[j].type \notin BoundaryTypes
    BY <1>3 DEF Pair, Silent, IsBoundary
  <2>2. s \in DOMAIN log
    BY <1>1, <1>3, <2>1
  <2>3. \A j \in DOMAIN log : j > s => log[j].type \notin BoundaryTypes
    BY <1>1, <1>3, <2>1
  <2> QED BY <1>1, <1>3, <2>1, <2>2, <2>3 DEF LastStart, IsBoundary
<1>4. ASSUME NEW o \in Nat, LastStart(o)'
      PROVE  \/ LastStart(o) /\ e.type \notin BoundaryTypes
             \/ o = n /\ e.type = "turn/start"
  <2>1. /\ o \in DOMAIN log' /\ log'[o].type = "turn/start"
        /\ \A j \in DOMAIN log' : j > o => log'[j].type \notin BoundaryTypes
    BY <1>4 DEF LastStart, IsBoundary
  <2>2. CASE o = n
    BY <1>1, <2>1, <2>2
  <2>3. CASE o # n
    <3>1. o \in DOMAIN log /\ n > o /\ n \in DOMAIN log'
      BY <1>1, <2>1, <2>3
    <3>2. \A j \in DOMAIN log : j > o => log[j].type \notin BoundaryTypes
      BY <1>1, <2>1
    <3> QED BY <1>1, <2>1, <3>1, <3>2 DEF LastStart, IsBoundary
  <2> QED BY <2>2, <2>3
<1>5. \A s, x \in Nat : Pair(s, x)' => Pair(s, x) \/ (x = n /\ e.type = "turn/end" /\ LastStart(s))
  BY <1>2, <1>3
<1> QED BY <1>4, <1>5

LEMMA SystemHeadNext ==
  ASSUME Sound, SystemHead, [Next]_vars
  PROVE  SystemHead'
<1> USE DEF Sound
<1>0. /\ Len(log) \in Nat /\ DOMAIN log = 1..Len(log) /\ log \in Seq(Event)
      /\ \A p \in DOMAIN surface : surface[p] \in DOMAIN log
      /\ turn \in Nat /\ replay.turn \in Nat
  <2>1. turn \in Nat /\ replay.turn \in Nat
    BY DEF TypeInv, TypeOK
  <2> QED BY <2>1 DEF RowsTyped, LogTyped
<1>1. ASSUME surface' = surface, log' = log \/ \E e \in Event : AppendEvent(e) PROVE SystemHead'
  <2>1. \A i \in DOMAIN log : log'[i] = log[i]
    BY <1>0, <1>1, LogGrows
  <2> QED BY <1>0, <1>1, <2>1 DEF SystemHead
<1>2. ASSUME NEW e \in Event, AppendRow(e), e.type # "system/message" \/ surface = <<>>
      PROVE  SystemHead'
  <2>1. /\ DOMAIN surface' = 1..(Len(surface) + 1) /\ DOMAIN surface = 1..Len(surface)
        /\ Len(surface) \in Nat
        /\ \A p \in DOMAIN surface : surface'[p] = surface[p]
        /\ surface'[Len(surface) + 1] = Len(log) + 1
    BY <1>2, RowAdded DEF RowsTyped
  <2>2. (\A i \in DOMAIN log : log'[i] = log[i]) /\ log'[Len(log) + 1] = e
    BY <1>0, <1>2, LogGrows DEF AppendRow
  <2>3. ASSUME NEW p \in DOMAIN surface', log'[surface'[p]].op = "append",
               log'[surface'[p]].type = "system/message"
        PROVE  p = 1
    <3>1. CASE p \in DOMAIN surface
      BY <1>0, <2>1, <2>2, <2>3, <3>1 DEF SystemHead
    <3>2. CASE p = Len(surface) + 1
      <4>1. surface = <<>>
        BY <1>2, <2>1, <2>2, <2>3, <3>2
      <4> QED BY <3>2, <4>1
    <3> QED BY <2>1, <3>1, <3>2
  <2> QED BY <2>3 DEF SystemHead
<1>3. ASSUME NEW e \in Event, NEW lo, NEW hi, Replaces(e, lo, hi) PROVE SystemHead'
  <2>1. /\ lo \in DOMAIN surface /\ hi \in DOMAIN surface /\ lo <= hi
        /\ AppendReplacement(e, lo, hi) /\ AppendEvent(e) /\ e.op = "replace"
    BY <1>3 DEF Replaces, AppendReplacement
  <2>2. /\ surface'[lo] = Len(log) + 1
        /\ \A p \in DOMAIN surface' : p # lo =>
             /\ Moved(p, lo, hi) \in DOMAIN surface
             /\ surface'[p] = surface[Moved(p, lo, hi)]
             /\ Moved(p, lo, hi) \notin lo..hi
        /\ DOMAIN surface = 1..Len(surface) /\ Len(surface) \in Nat
    BY <2>1, RowsReplaced DEF RowsTyped
  <2>3. (\A i \in DOMAIN log : log'[i] = log[i]) /\ log'[Len(log) + 1] = e
    BY <1>0, <2>1, LogGrows
  <2>4. ASSUME NEW p \in DOMAIN surface', log'[surface'[p]].op = "append",
               log'[surface'[p]].type = "system/message"
        PROVE  p = 1
    <3>1. p # lo
      BY <2>1, <2>2, <2>3, <2>4
    <3>2. Moved(p, lo, hi) = 1
      BY <1>0, <2>2, <2>3, <2>4, <3>1 DEF SystemHead
    <3>3. p \in Nat /\ p >= 1
      <4>1. surface' \in Seq(DOMAIN log')
        BY DEF TypeInv, TypeOK
      <4>2. DOMAIN surface' = 1..Len(surface') /\ Len(surface') \in Nat
        BY <4>1
      <4> QED BY <4>2
    <3> QED BY <2>1, <2>2, <3>1, <3>2, <3>3 DEF Moved
  <2> QED BY <2>4 DEF SystemHead
<1>4. CASE TurnStart \/ TurnEnd \/ RedoFail
  <2>1. \E t \in Nat, type \in BoundaryTypes : AppendEvent(Boundary(type, t)) /\ surface' = surface
    <3>1. turn + 1 \in Nat /\ "turn/start" \in BoundaryTypes /\ "turn/end" \in BoundaryTypes
      BY <1>0 DEF BoundaryTypes
    <3> QED BY <1>0, <1>4, <3>1 DEF TurnStart, TurnEnd, RedoFail
  <2> QED BY <1>1, <2>1, BoundaryFields
<1>5. CASE SystemPrompt
  <2>1. \E e \in Event : AppendRow(e)
    BY <1>5, AddedRow DEF AddsRow
  <2>2. surface = <<>>
    BY <1>5 DEF SystemPrompt
  <2> QED BY <1>2, <2>1, <2>2
<1>6. ASSUME NEW type \in MessageTypes, TurnRow(type) PROVE SystemHead'
  <2> DEFINE e == Row(type, IF type = "user/message" THEN 0 ELSE turn, StepOf(type), Len(log) + 1)
  <2>1. AppendRow(e) /\ e.type = type
    BY <1>6 DEF TurnRow, Row
  <2> HIDE DEF e
  <2>2. e \in Event
    BY <2>1, AppendedEvent DEF AppendRow
  <2> QED BY <1>2, <2>1, <2>2 DEF MessageTypes
<1>7. ASSUME NEW type \in {"user/message", "tool/result"},
             NEW lo \in DOMAIN surface, NEW hi \in DOMAIN surface, RewriteRows(type, lo, hi)
      PROVE  SystemHead'
  BY <1>3, <1>7, Rewritten
<1>8. CASE Compact
  BY <1>3, <1>8, Compacted
<1>9. ASSUME NEW m \in findAssistantMessages(log), performUndo(m) PROVE SystemHead'
  BY <1>3, <1>9, Undone
<1>10. CASE RedoAppend
  <2>1. PICK i \in DOMAIN log :
          \/ IsBoundary(i) /\ AppendEvent(Boundary(log[i].type, replay.turn)) /\ UNCHANGED surface
          \/ CopiesRow(i)
    BY <1>10, CopiedStep
  <2>2. CASE CopiesRow(i)
    <3>1. PICK e \in Event : e.type = log[i].type /\ AppendRow(e)
      BY <2>2 DEF CopiesRow
    <3>2. e.type # "system/message"
      BY <2>2, <3>1 DEF CopiesRow, Copied, MessageTypes
    <3> QED BY <1>2, <3>1, <3>2
  <2>3. CASE IsBoundary(i) /\ AppendEvent(Boundary(log[i].type, replay.turn)) /\ UNCHANGED surface
    BY <1>0, <1>1, <2>3, BoundaryFields DEF IsBoundary
  <2> QED BY <2>1, <2>2, <2>3
<1>11. CASE RedoStart \/ RedoDone \/ RedoFailOpen \/ UNCHANGED vars
  BY <1>1, <1>11 DEF RedoStart, RedoDone, RedoFailOpen, vars
<1> QED BY <1>4, <1>5, <1>6, <1>7, <1>8, <1>9, <1>10, <1>11 DEF Next, Harness, Handlers

\* What the log and the surface hold, typed.
LEMMA Typed ==
  ASSUME Sound
  PROVE  /\ Len(log) \in Nat /\ DOMAIN log = 1..Len(log) /\ log \in Seq(Event)
         /\ \A p \in DOMAIN surface : surface[p] \in DOMAIN log
         /\ turn \in Nat /\ replay.turn \in Nat /\ agent \in {"idle", "running"}
         /\ replay.at \in Nat /\ replay.end \in Nat
         /\ surface # <<>> => TailNode \in DOMAIN log /\ TailNode \in Nat
<1>1. turn \in Nat /\ replay.turn \in Nat /\ agent \in {"idle", "running"}
      /\ replay.at \in Nat /\ replay.end \in Nat
  BY DEF Sound, TypeInv, TypeOK
<1>2. /\ Len(log) \in Nat /\ DOMAIN log = 1..Len(log) /\ log \in Seq(Event)
      /\ \A p \in DOMAIN surface : surface[p] \in DOMAIN log
  BY DEF Sound, RowsTyped, LogTyped
<1>3. surface # <<>> => TailNode \in DOMAIN log
  BY TailTyped DEF Sound
<1> QED BY <1>1, <1>2, <1>3

\* A new tail that is no boundary is behind every turn.
LEMMA TailIsNew ==
  ASSUME Sound, NEW e \in Event, AppendEvent(e), e.type \notin BoundaryTypes,
         TailNode' = Len(log) + 1
  PROVE  ClosedRows' /\ OpenTomb' /\ (~isUndoTombstone(e) => TombOutside')
<1>1. /\ Len(log) \in Nat /\ DOMAIN log = 1..Len(log) /\ DOMAIN log' = 1..(Len(log) + 1)
      /\ log'[Len(log) + 1] = e /\ log \in Seq(Event)
  BY Typed, AppendedLog
<1>2. \A s, x \in Nat : Pair(s, x)' => ~(TailNode' < x)
  BY <1>1 DEF Pair
<1>3. \A o \in Nat : LastStart(o)' => TailNode' > o
  <2>1. \A o \in Nat : LastStart(o)' => LastStart(o) \/ e.type = "turn/start"
    BY <1>1, PairsGrow
  <2>2. e.type # "turn/start"
    BY DEF BoundaryTypes
  <2> QED BY <1>1, <2>1, <2>2 DEF LastStart
<1>4. ~isUndoTombstone(e) => ~TombTail'
  BY <1>1 DEF TombTail
<1> QED BY <1>2, <1>3, <1>4 DEF ClosedRows, OpenTomb, TombOutside

\* While the log grows by one event and the surface stays, so does the rewrite.
LEMMA RewroteKept ==
  ASSUME RowsTyped, NEW e \in Event, AppendEvent(e), surface' = surface,
         NEW i \in DOMAIN log, OnSurface(i) \/ Rewrote(i)
  PROVE  OnSurface(i)' \/ Rewrote(i)'
<1>1. CASE OnSurface(i)
  BY <1>1 DEF OnSurface
<1>2. ASSUME NEW p \in DOMAIN surface, RewrittenSince(i, p) PROVE RewrittenSince(i, p)'
  <2>1. /\ \A j \in DOMAIN log : log'[j] = log[j] /\ j \in DOMAIN log'
        /\ \A k \in Nat, j \in DOMAIN log' : Apart(k, j)' <=> Apart(k, j)
        /\ i \in Nat
    BY LogGrows DEF RowsTyped
  <2>2. \A q \in DOMAIN surface : surface[q] \in DOMAIN log
    BY DEF RowsTyped, LogTyped
  <2>3. ASSUME NEW q \in DOMAIN surface, p <= q PROVE i < surface[q] /\ ~Apart(i, surface[q])'
    <3>1. i < surface[q] /\ ~Apart(i, surface[q])
      BY <1>2, <2>3 DEF RewrittenSince
    <3>2. PICK j \in DOMAIN log' : j = surface[q]
      BY <2>1, <2>2
    <3>3. ~Apart(i, j)'
      BY <2>1, <3>1, <3>2
    <3> QED BY <3>1, <3>2, <3>3 DEF Apart
  <2> QED BY <1>2, <2>1, <2>2, <2>3 DEF RewrittenSince
<1> QED BY <1>1, <1>2 DEF Rewrote

\* A turn/end closes a turn that has its rows on the surface, or one the tail,
\* a tombstone, is not in.
LEMMA EndRows ==
  ASSUME Sound, ClosedRows, TombOutside, NEW t \in Nat,
         AppendEvent(Boundary("turn/end", t)), surface' = surface, agent' = "idle",
         agent = "running" => TailSettled /\ ~TombTail,
         OpenRows \/ (agent = "idle" /\ TombTail)
  PROVE  ClosedRows' /\ TombOutside' /\ OpenTomb'
<1> USE DEF Sound
<1> DEFINE e == Boundary("turn/end", t)
<1>1. e \in Event /\ e.type = "turn/end" /\ e.type \in BoundaryTypes /\ AppendEvent(e)
  BY BoundaryFields DEF BoundaryTypes
<1> HIDE DEF e
<1>2. /\ Len(log) \in Nat /\ DOMAIN log = 1..Len(log) /\ DOMAIN log' = 1..(Len(log) + 1)
      /\ \A i \in DOMAIN log : log'[i] = log[i]
      /\ surface # <<>> => TailNode \in DOMAIN log /\ TailNode \in Nat
      /\ agent \in {"idle", "running"} /\ TailNode' = TailNode
  BY <1>1, Typed, AppendedLog DEF TailNode
<1>3. TombTail' => TombTail
  <2>1. AddsBoundary
    BY DEF AddsBoundary, BoundaryTypes
  <2> QED BY <2>1, TombTailKept DEF RowsInv
<1>4. /\ \A s, x \in Nat : Pair(s, x)' => Pair(s, x) \/ (x = Len(log) + 1 /\ LastStart(s))
      /\ \A o \in Nat : ~LastStart(o)'
  BY <1>1, Typed, PairsGrow
<1>5. ClosedRows'
  <2> SUFFICES ASSUME surface # <<>>, NEW s \in Nat, NEW x \in Nat, Pair(s, x)',
                      s < TailNode, TailNode < x,
                      NEW i \in DOMAIN log', s < i, i < x, Copied(i)'
               PROVE  OnSurface(i)' \/ Rewrote(i)'
    BY <1>2 DEF ClosedRows
  <2>1. i \in DOMAIN log /\ Copied(i) /\ i \in Nat
    <3>1. x \in DOMAIN log'
      BY DEF Pair
    <3>2. i \in DOMAIN log
      BY <1>2, <3>1
    <3> QED BY <1>2, <3>2 DEF Copied
  <2>2. CASE Pair(s, x)
    <3>1. agent = "idle"
      <4>1. IsBoundary(x) /\ x \in DOMAIN log
        BY <2>2 DEF Pair, IsBoundary, BoundaryTypes
      <4>2. ASSUME agent = "running" PROVE FALSE
        <5>1. x < TailNode
          BY <4>1, <4>2 DEF TailSettled
        <5> QED BY <1>2, <5>1
      <4> QED BY <1>2, <4>2
    <3> QED BY <1>1, <2>1, <2>2, <3>1, RewroteKept DEF ClosedRows
  <2>3. CASE LastStart(s)
    <3>1. OpenRows
      <4>1. ASSUME agent = "idle", TombTail PROVE FALSE
        <5>1. TailNode < s
          BY <2>3, <4>1 DEF TombOutside
        <5> QED BY <1>2, <5>1
      <4> QED BY <4>1
    <3>2. \A b \in DOMAIN log : IsBoundary(b) => b < i
      <4>1. \A b \in DOMAIN log : IsBoundary(b) => ~(b > s)
        BY <2>3 DEF LastStart
      <4> QED BY <1>2, <2>1, <4>1
    <3> QED BY <1>1, <2>1, <3>1, <3>2, RewroteKept DEF OpenRows
  <2> QED BY <1>4, <2>2, <2>3
<1>6. TombOutside'
  <2> SUFFICES ASSUME TombTail PROVE \A s, x \in Nat : Pair(s, x)' => ~(s < TailNode /\ TailNode < x)
    BY <1>2, <1>3, <1>4 DEF TombOutside
  <2> SUFFICES ASSUME NEW s \in Nat, LastStart(s), s < TailNode PROVE FALSE
    BY <1>4 DEF TombOutside
  <2>1. agent = "idle" /\ surface # <<>>
    BY <1>2 DEF TombTail
  <2>2. TailNode < s
    BY <2>1 DEF TombOutside
  <2> QED BY <1>2, <2>1, <2>2
<1> QED BY <1>4, <1>5, <1>6 DEF OpenTomb

\* A row outside the positions a replacement takes stays on the surface.
LEMMA KeptRow ==
  ASSUME LogTyped, NEW lo \in DOMAIN surface, NEW hi \in DOMAIN surface, lo <= hi,
         NEW e \in Event, AppendReplacement(e, lo, hi),
         NEW p \in DOMAIN surface, p \notin lo..hi
  PROVE  \E q \in DOMAIN surface' : surface'[q] = surface[p]
<1>1. surface' = Splice(surface, lo, hi, Len(log) + 1)
  BY DEF AppendReplacement
<1>2. /\ Len(surface) \in Nat /\ DOMAIN surface = 1..Len(surface)
      /\ lo \in Nat /\ hi \in Nat /\ p \in Nat
  BY DEF LogTyped
<1> DEFINE q == IF p < lo THEN p ELSE p - (hi - lo)
<1>3. q \in 1..(Len(surface) - (hi - lo)) /\ (q < lo <=> p < lo) /\ q # lo
      /\ (~(p < lo) => q + (hi - lo) = p)
  BY <1>2
<1> QED BY <1>1, <1>2, <1>3 DEF Splice

\* A replacement of rows before a rewrite leaves it and what follows it.
LEMMA RewroteBehind ==
  ASSUME RowsTyped, NEW lo \in DOMAIN surface, NEW hi \in DOMAIN surface, lo <= hi,
         NEW e \in Event, AppendReplacement(e, lo, hi), AppendEvent(e),
         NEW i \in DOMAIN log, NEW p \in DOMAIN surface, RewrittenSince(i, p),
         \A q \in DOMAIN surface : p <= q => q \notin lo..hi
  PROVE  Rewrote(i)'
<1> DEFINE d == hi - lo
<1>1. surface' = Splice(surface, lo, hi, Len(log) + 1)
  BY DEF AppendReplacement
<1>2. /\ Len(surface) \in Nat /\ DOMAIN surface = 1..Len(surface)
      /\ lo \in Nat /\ hi \in Nat /\ p \in Nat /\ i \in Nat
      /\ \A q \in DOMAIN surface : surface[q] \in DOMAIN log
  BY DEF RowsTyped, LogTyped
<1>3. hi < p
  <2>1. ASSUME p <= hi PROVE FALSE
    BY <1>2, <2>1
  <2> QED BY <1>2, <2>1
<1>4. /\ \A j \in DOMAIN log : log'[j] = log[j] /\ j \in DOMAIN log'
      /\ \A k \in Nat, j \in DOMAIN log' : Apart(k, j)' <=> Apart(k, j)
  BY LogGrows DEF RowsTyped
<1>5. DOMAIN surface' = 1..(Len(surface) - d) /\ d \in Nat /\ d < p
      /\ \A q \in DOMAIN surface' : p - d <= q => surface'[q] = surface[q + d]
  BY <1>1, <1>2, <1>3 DEF Splice
<1>6. p - d \in DOMAIN surface' /\ surface'[p - d] = surface[p]
  BY <1>2, <1>5
<1>7. ASSUME NEW q \in DOMAIN surface', p - d <= q
      PROVE  i < surface'[q] /\ ~Apart(i, surface[q])'
  <2>1. q + d \in DOMAIN surface /\ p <= q + d /\ surface'[q] = surface[q + d]
    BY <1>2, <1>5, <1>7
  <2>2. PICK j \in DOMAIN log' : j = surface'[q]
    BY <1>2, <1>4, <2>1
  <2>3. i < j /\ ~Apart(i, j)
    BY <2>1, <2>2 DEF RewrittenSince
  <2>4. ~Apart(i, j)'
    BY <1>2, <1>4, <2>3
  <2> QED BY <2>2, <2>3, <2>4 DEF Apart
<1>8. log'[surface'[p - d]] = log[surface[p]]
  BY <1>2, <1>4, <1>6
<1> QED BY <1>6, <1>7, <1>8 DEF Rewrote, RewrittenSince

\* An undo whose run does not end at the tail takes nothing off the tail's turn.
LEMMA UndoElsewhere ==
  ASSUME Sound, ClosedRows, agent = "idle", agent' = "idle",
         NEW t \in Nat, NEW range \in turnLogRange(log, t),
         NEW run \in trailingTurnRun(surface, TurnSeqs(range)), run[2] # Len(surface),
         NEW e \in Event, Replaces(e, run[1], run[2])
  PROVE  ClosedRows'
<1> USE DEF Sound
<1> DEFINE lo == run[1]
           hi == run[2]
<1>1. /\ lo \in DOMAIN surface /\ hi \in DOMAIN surface /\ lo <= hi
      /\ \A q \in lo..hi : surface[q] \in TurnSeqs(range)
      /\ \A q \in (hi + 1)..Len(surface) : surface[q] \notin TurnSeqs(range)
      /\ AppendReplacement(e, lo, hi) /\ AppendEvent(e) /\ e.type \notin BoundaryTypes
  BY DEF trailingTurnRun, Replaces, AppendReplacement, MessageTypes, BoundaryTypes
<1>2. /\ Len(log) \in Nat /\ DOMAIN log = 1..Len(log) /\ log \in Seq(Event)
      /\ \A p \in DOMAIN surface : surface[p] \in DOMAIN log
      /\ DOMAIN log' = 1..(Len(log) + 1) /\ \A i \in DOMAIN log : log'[i] = log[i]
  BY <1>1, Typed, AppendedLog
<1>3. /\ DOMAIN surface = 1..Len(surface) /\ Len(surface) \in Nat /\ surface # <<>>
      /\ TailNode' = TailNode
  BY <1>1, RowsReplaced DEF RowsTyped, LogTyped
<1>4. TailNode \in DOMAIN log /\ TailNode \in Nat /\ Len(surface) \in DOMAIN surface
  BY <1>2, <1>3, TailTyped
<1>5. Pair(range[1], range[2]) /\ range[1] \in Nat /\ range[2] \in Nat
  BY <1>2, RangeFields DEF TurnOrder, Pair
<1>6. TailNode \notin range[1]..range[2]
  <2>1. TailNode \notin TurnSeqs(range)
    BY <1>1, <1>3 DEF TailNode
  <2>2. TailNode # surface[1]
    <3>1. Len(surface) # 1 /\ 1 \in DOMAIN surface
      BY <1>1, <1>3
    <3> QED BY <1>4, <3>1 DEF NodesDistinct, TailNode
  <2>3. TailNode \in {surface[q] : q \in DOMAIN surface}
    BY <1>4 DEF TailNode
  <2> QED BY <2>1, <2>2, <2>3 DEF TurnSeqs, shadowedTurnNodes
<1> SUFFICES ASSUME NEW s \in Nat, NEW x \in Nat, Pair(s, x), s < TailNode, TailNode < x,
                    NEW i \in DOMAIN log, s < i, i < x, Copied(i)
             PROVE  OnSurface(i)' \/ Rewrote(i)'
  <2>1. \A s, x \in Nat : Pair(s, x)' => Pair(s, x)
    <3>1. \A s, x \in Nat : Pair(s, x)' =>
            Pair(s, x) \/ (x = Len(log) + 1 /\ e.type = "turn/end" /\ LastStart(s))
      BY <1>1, <1>2, PairsGrow
    <3> QED BY <1>1, <3>1 DEF BoundaryTypes
  <2>2. \A i \in DOMAIN log : Copied(i)' => Copied(i)
    BY <1>2 DEF Copied
  <2>3. ASSUME surface' # <<>>, NEW s \in Nat, NEW x \in Nat, Pair(s, x)', s < TailNode', TailNode' < x,
               NEW i \in DOMAIN log', s < i, i < x, Copied(i)'
        PROVE  OnSurface(i)' \/ Rewrote(i)'
    <3>1. Pair(s, x) /\ x \in DOMAIN log
      BY <2>1, <2>3 DEF Pair
    <3>2. i \in DOMAIN log
      BY <1>2, <2>3, <3>1
    <3> QED BY <1>3, <2>2, <2>3, <3>1, <3>2
  <2> QED BY <2>3 DEF ClosedRows
\* What lies between s and x is not in the range: the tail would be, too.
<1>7. ASSUME NEW p \in lo..hi, s < surface[p], surface[p] < x PROVE FALSE
  <2> DEFINE k == surface[p]
  <2>1. k \in range[1]..range[2] /\ p \in DOMAIN surface
    BY <1>1, <1>3 DEF TurnSeqs, shadowedTurnNodes
  <2>2. k \in Nat /\ ~IsBoundary(k)
    BY <1>2, <2>1 DEF RowsInv, SurfaceRows
  <2>3. /\ s \in DOMAIN log /\ x \in DOMAIN log /\ IsBoundary(s) /\ IsBoundary(x) /\ Silent(s + 1, x)
        /\ range[1] \in DOMAIN log /\ range[2] \in DOMAIN log
        /\ IsBoundary(range[1]) /\ IsBoundary(range[2]) /\ Silent(range[1] + 1, range[2])
    BY <1>5 DEF Pair, IsBoundary, BoundaryTypes
  <2> HIDE DEF k
  <2>4. range[1] < k /\ k < range[2] /\ s < k /\ k < x
    <3>1. k # range[1] /\ k # range[2]
      BY <2>2, <2>3
    <3>2. s < k /\ k < x
      BY <1>7 DEF k
    <3> QED BY <1>5, <2>1, <2>2, <3>1, <3>2
  <2>5. ~(s < range[1])
    <3>1. ASSUME s < range[1] PROVE FALSE
      <4>1. s + 1 <= range[1] /\ range[1] < x
        BY <1>5, <2>2, <2>4, <3>1
      <4> QED BY <2>3, <4>1 DEF Silent
    <3> QED BY <3>1
  <2>6. ~(range[2] < x)
    <3>1. ASSUME range[2] < x PROVE FALSE
      <4>1. s + 1 <= range[2]
        BY <1>5, <2>2, <2>4
      <4> QED BY <2>3, <3>1, <4>1 DEF Silent
    <3> QED BY <3>1
  <2>7. TailNode \in range[1]..range[2]
    BY <1>4, <1>5, <2>5, <2>6
  <2> QED BY <1>6, <2>7
<1>8. CASE OnSurface(i)
  <2>1. PICK p \in DOMAIN surface : surface[p] = i
    BY <1>8 DEF OnSurface
  <2>2. p \notin lo..hi
    BY <1>7, <2>1
  <2>3. \E q \in DOMAIN surface' : surface'[q] = surface[p]
    BY <1>1, <2>2, KeptRow DEF RowsTyped
  <2> QED BY <2>1, <2>3 DEF OnSurface
<1>9. CASE Rewrote(i)
  <2>1. PICK p \in DOMAIN surface : RewrittenSince(i, p)
    BY <1>9 DEF Rewrote
  <2>2. ASSUME NEW q \in DOMAIN surface, p <= q PROVE q \notin lo..hi
    <3>1. surface[q] \in Nat /\ i < surface[q] /\ ~Apart(i, surface[q])
      BY <1>2, <2>1, <2>2 DEF RewrittenSince
    <3>2. IsBoundary(x) /\ x \in DOMAIN log
      BY DEF Pair, IsBoundary, BoundaryTypes
    <3>3. ~IsBoundary(surface[q])
      BY <1>2 DEF RowsInv, SurfaceRows
    <3>4. surface[q] < x
      <4>1. surface[q] # x
        BY <3>2, <3>3
      <4>2. ~(x < surface[q])
        BY <3>1, <3>2 DEF Apart
      <4> QED BY <3>1, <4>1, <4>2
    <3>5. s < surface[q]
      BY <1>2, <3>1
    <3> QED BY <1>7, <3>4, <3>5
  <2> QED BY <1>1, <2>1, <2>2, RewroteBehind
<1> QED BY <1>3, <1>8, <1>9 DEF ClosedRows

\* A row at the tail leaves the rows of the open turn on the surface.
LEMMA RowOpen ==
  ASSUME Sound, OpenRows, NEW e \in Event, AppendRow(e)
  PROVE  OpenRows'
<1> USE DEF Sound
<1>1. /\ \A p \in DOMAIN surface : p \in DOMAIN surface' /\ surface'[p] = surface[p]
      /\ Len(surface) + 1 \in DOMAIN surface' /\ surface'[Len(surface) + 1] = Len(log) + 1
  <2>1. /\ Len(surface) \in Nat /\ DOMAIN surface = 1..Len(surface)
        /\ DOMAIN surface' = 1..(Len(surface) + 1)
        /\ \A p \in DOMAIN surface : surface'[p] = surface[p]
        /\ surface'[Len(surface) + 1] = Len(log) + 1
    BY RowAdded DEF RowsTyped
  <2> QED BY <2>1
<1>2. /\ Len(log) \in Nat /\ DOMAIN log = 1..Len(log) /\ DOMAIN log' = 1..(Len(log) + 1)
      /\ \A i \in DOMAIN log : log'[i] = log[i]
  BY Typed, AppendedLog DEF AppendRow
<1> SUFFICES ASSUME NEW i \in DOMAIN log', Copied(i)',
                    \A b \in DOMAIN log' : IsBoundary(b)' => b < i
             PROVE  OnSurface(i)' \/ Rewrote(i)'
  BY DEF OpenRows
<1>3. CASE i \in DOMAIN log
  <2>1. OnSurface(i) \/ Rewrote(i)
    BY <1>2, <1>3 DEF OpenRows, Copied, IsBoundary
  <2>2. CASE OnSurface(i)
    BY <1>1, <2>2 DEF OnSurface
  <2>3. ASSUME NEW p \in DOMAIN surface, RewrittenSince(i, p) PROVE Rewrote(i)'
    <3>1. /\ Len(surface) \in Nat /\ DOMAIN surface = 1..Len(surface)
          /\ DOMAIN surface' = 1..(Len(surface) + 1)
          /\ \A q \in DOMAIN surface : surface[q] \in DOMAIN log
      BY RowAdded DEF RowsTyped, LogTyped
    <3>2. \A k \in DOMAIN log' : ~Apart(i, k)'
      <4>1. \A b \in DOMAIN log' : log'[b].type \in BoundaryTypes => b < i
        BY DEF IsBoundary
      <4>2. \A b \in DOMAIN log' : b \in Nat
        BY <1>2
      <4> QED BY <1>2, <1>3, <4>1, <4>2 DEF Apart, IsBoundary
    <3>3. \A q \in DOMAIN surface' : p <= q => i < surface'[q] /\ surface'[q] \in DOMAIN log'
      BY <1>1, <1>2, <1>3, <2>3, <3>1 DEF RewrittenSince
    <3>4. p \in DOMAIN surface' /\ log'[surface'[p]] = log[surface[p]]
      BY <1>1, <1>2, <3>1
    <3>5. ASSUME NEW q \in DOMAIN surface', p <= q PROVE ~Apart(i, surface[q])'
      <4>1. PICK k \in DOMAIN log' : k = surface'[q]
        BY <3>3, <3>5
      <4>2. ~Apart(i, k)'
        BY <3>2
      <4> QED BY <4>1, <4>2 DEF Apart
    <3> QED BY <2>3, <3>3, <3>4, <3>5 DEF Rewrote, RewrittenSince
  <2> QED BY <2>1, <2>2, <2>3 DEF Rewrote
<1>4. CASE i = Len(log) + 1
  BY <1>1, <1>4 DEF OnSurface
<1> QED BY <1>2, <1>3, <1>4

\* A rewrite leaves the other rows of the open turn, and itself where it took one.
LEMMA RewriteOpen ==
  ASSUME Sound, OpenRows, NEW type \in {"user/message", "tool/result"},
         NEW lo \in DOMAIN surface, NEW hi \in DOMAIN surface, RewriteRows(type, lo, hi)
  PROVE  OpenRows'
<1> USE DEF Sound
<1> DEFINE d == hi - lo
<1>1. PICK e \in Event : Replaces(e, lo, hi) /\ e.type \in MessageTypes
  BY Rewritten
<1>2. /\ lo <= hi /\ AppendReplacement(e, lo, hi) /\ AppendEvent(e) /\ e.op = "replace"
      /\ e.type \in MessageTypes
  BY <1>1 DEF Replaces, AppendReplacement
<1>3. /\ Len(log) \in Nat /\ DOMAIN log = 1..Len(log) /\ DOMAIN log' = 1..(Len(log) + 1)
      /\ (\A i \in DOMAIN log : log'[i] = log[i]) /\ log'[Len(log) + 1] = e
  BY <1>2, Typed, AppendedLog
<1>4. /\ Len(surface) \in Nat /\ DOMAIN surface = 1..Len(surface) /\ lo \in Nat /\ hi \in Nat
      /\ \A q \in DOMAIN surface : surface[q] \in DOMAIN log
      /\ DOMAIN surface' = 1..(Len(surface) - d) /\ d \in Nat
      /\ surface'[lo] = Len(log) + 1 /\ lo \in DOMAIN surface'
      /\ \A q \in DOMAIN surface' : q < lo => surface'[q] = surface[q]
      /\ \A q \in DOMAIN surface' : q > lo => surface'[q] = surface[q + d]
  <2>1. surface' = Splice(surface, lo, hi, Len(log) + 1)
    BY <1>2 DEF AppendReplacement
  <2>2. /\ Len(surface) \in Nat /\ DOMAIN surface = 1..Len(surface) /\ lo \in Nat /\ hi \in Nat
        /\ \A q \in DOMAIN surface : surface[q] \in DOMAIN log
    BY DEF RowsTyped, LogTyped
  <2> QED BY <1>2, <2>1, <2>2 DEF Splice
<1> SUFFICES ASSUME NEW i \in DOMAIN log, log[i].op = "append", log[i].type \in MessageTypes,
                    OnSurface(i) \/ Rewrote(i),
                    \A b \in DOMAIN log' : log'[b].type \in BoundaryTypes => b < i
             PROVE  OnSurface(i)' \/ Rewrote(i)'
  <2> SUFFICES ASSUME NEW i \in DOMAIN log', Copied(i)',
                      \A b \in DOMAIN log' : IsBoundary(b)' => b < i
               PROVE  OnSurface(i)' \/ Rewrote(i)'
    BY DEF OpenRows
  <2>1. i \in DOMAIN log
    BY <1>2, <1>3 DEF Copied
  <2>2. OnSurface(i) \/ Rewrote(i)
    BY <1>3, <2>1 DEF OpenRows, Copied, IsBoundary
  <2> QED BY <1>3, <2>1, <2>2 DEF Copied, IsBoundary
<1>5. \A k \in DOMAIN log' : ~Apart(i, k)'
  <2>1. \A b \in DOMAIN log' : b \in Nat
    BY <1>3
  <2> QED BY <1>3, <2>1 DEF Apart, IsBoundary
<1>6. \A q \in DOMAIN surface' : surface'[q] \in DOMAIN log' /\ ~Apart(i, surface[q])'
  <2> SUFFICES ASSUME NEW q \in DOMAIN surface'
               PROVE  surface'[q] \in DOMAIN log' /\ ~Apart(i, surface[q])'
    OBVIOUS
  <2>1. PICK k \in DOMAIN log' : k = surface'[q]
    BY DEF TypeInv, TypeOK
  <2>2. ~Apart(i, k)'
    BY <1>5
  <2> QED BY <2>1, <2>2 DEF Apart
<1>7. ASSUME NEW p \in lo..hi, \A q \in DOMAIN surface : p < q => i < surface[q]
      PROVE  Rewrote(i)'
  <2>1. ASSUME NEW q \in DOMAIN surface', lo <= q PROVE i < surface'[q]
    <3>1. CASE q = lo
      BY <1>3, <1>4, <3>1
    <3>2. CASE q # lo
      <4>1. q > lo /\ q + d \in DOMAIN surface /\ p < q + d
        BY <1>4, <2>1, <3>2
      <4> QED BY <1>4, <1>7, <4>1
    <3> QED BY <3>1, <3>2
  <2> QED BY <1>2, <1>3, <1>4, <1>6, <2>1 DEF Rewrote, RewrittenSince
<1>8. CASE OnSurface(i)
  <2>1. PICK p \in DOMAIN surface : surface[p] = i
    BY <1>8 DEF OnSurface
  <2>2. CASE p \in lo..hi
    <3>1. \A q \in DOMAIN surface : p < q => i < surface[q]
      BY <2>1 DEF RowsInv, Ordered
    <3> QED BY <1>7, <2>2, <3>1
  <2>3. CASE p \notin lo..hi
    <3>1. \E q \in DOMAIN surface' : surface'[q] = surface[p]
      BY <1>2, <2>3, KeptRow DEF RowsTyped
    <3> QED BY <2>1, <3>1 DEF OnSurface
  <2> QED BY <2>2, <2>3
<1>9. CASE Rewrote(i)
  <2>1. PICK p \in DOMAIN surface : RewrittenSince(i, p)
    BY <1>9 DEF Rewrote
  <2>2. \A q \in DOMAIN surface : p <= q => i < surface[q]
    BY <2>1 DEF RewrittenSince
  <2>3. CASE p \in lo..hi
    BY <1>4, <1>7, <2>2, <2>3
  <2>4. CASE p > hi
    <3>1. \A q \in DOMAIN surface : p <= q => q \notin lo..hi
      BY <1>4, <2>4
    <3> QED BY <1>2, <2>1, <3>1, RewroteBehind
  <2>5. CASE p < lo
    <3>1. p \in DOMAIN surface' /\ log'[surface'[p]] = log[surface[p]]
      BY <1>3, <1>4, <2>5
    <3>2. ASSUME NEW q \in DOMAIN surface', p <= q PROVE i < surface'[q]
      <4>1. CASE q < lo
        BY <1>4, <2>2, <3>2, <4>1
      <4>2. CASE q = lo
        BY <1>3, <1>4, <4>2
      <4>3. CASE q > lo
        <5>1. q + d \in DOMAIN surface /\ p <= q + d
          BY <1>4, <3>2, <4>3
        <5> QED BY <1>4, <2>2, <4>3, <5>1
      <4> QED BY <1>4, <4>1, <4>2, <4>3
    <3> QED BY <1>6, <2>1, <3>1, <3>2 DEF Rewrote, RewrittenSince
  <2> QED BY <1>4, <2>3, <2>4, <2>5
<1> QED BY <1>8, <1>9

\* A turn/start: no row is in the turn yet.
LEMMA StartRows ==
  ASSUME Sound, NEW t \in Nat, AppendEvent(Boundary("turn/start", t)), surface' = surface
  PROVE  /\ OpenRows'
         /\ \A s, x \in Nat : Pair(s, x)' => Pair(s, x)
         /\ \A o \in Nat : LastStart(o)' => o = Len(log) + 1
         /\ TombTail' <=> TombTail
         /\ TailNode' = TailNode
<1> USE DEF Sound
<1> DEFINE e == Boundary("turn/start", t)
<1>1. e \in Event /\ e.type = "turn/start" /\ AppendEvent(e)
  BY BoundaryFields DEF BoundaryTypes
<1> HIDE DEF e
<1>2. /\ Len(log) \in Nat /\ DOMAIN log = 1..Len(log) /\ DOMAIN log' = 1..(Len(log) + 1)
      /\ (\A i \in DOMAIN log : log'[i] = log[i]) /\ log'[Len(log) + 1] = e
      /\ log \in Seq(Event)
      /\ surface # <<>> => TailNode \in DOMAIN log
  BY <1>1, Typed, AppendedLog
<1>3. OpenRows'
  <2> SUFFICES ASSUME NEW i \in DOMAIN log', Copied(i)',
                      \A b \in DOMAIN log' : log'[b].type \in BoundaryTypes => b < i
               PROVE  FALSE
    BY DEF OpenRows, IsBoundary
  <2>1. Len(log) + 1 < i
    BY <1>1, <1>2 DEF BoundaryTypes
  <2> QED BY <1>2, <2>1
<1>4. /\ \A s, x \in Nat : Pair(s, x)' => Pair(s, x) \/ e.type = "turn/end"
      /\ \A o \in Nat : LastStart(o)' =>
           (LastStart(o) /\ e.type \notin BoundaryTypes) \/ (o = Len(log) + 1 /\ e.type = "turn/start")
  BY <1>1, <1>2, PairsGrow
<1>5. e.type \in BoundaryTypes /\ e.type # "turn/end"
  BY <1>1 DEF BoundaryTypes
<1>6. TombTail' <=> TombTail
  BY <1>2 DEF TombTail, TailNode
<1> QED BY <1>3, <1>4, <1>5, <1>6 DEF TailNode

LEMMA PresentCopied ==
  ASSUME Sound, TailRun, PresentInv, RedoAppend
  PROVE  /\ agent' = "idle" /\ (Inside' => OpenRows')
         /\ ClosedRows' /\ TombOutside' /\ OpenTomb' /\ TombFirst'
<1> USE DEF Sound
<1>1. PICK i \in replay.at..replay.end :
           /\ i \in DOMAIN log /\ i \in Nat /\ hasReplayRole(log[i])
           /\ \A j \in replay.at..(i - 1) : ~hasReplayRole(log[j])
           /\ replay'.at = i + 1 /\ replay'.end = replay.end /\ replay'.turn = replay.turn
           /\ agent' = agent /\ replay'.tomb = replay.tomb /\ replay # NoReplay /\ replay' # NoReplay
           /\ \/ IsBoundary(i) /\ AppendEvent(Boundary(log[i].type, replay.turn)) /\ UNCHANGED surface
              \/ CopiesRow(i)
  BY CopiedStep
<1>2. /\ Len(log) \in Nat /\ DOMAIN log = 1..Len(log) /\ log \in Seq(Event)
      /\ replay.at \in Nat /\ replay.end \in Nat /\ replay.turn \in Nat
      /\ replay.at <= i /\ i <= replay.end /\ replay.at <= replay.end /\ replay.end \in DOMAIN log
      /\ surface # <<>> => TailNode \in DOMAIN log /\ TailNode \in Nat
  <2>1. replay.end \in DOMAIN log
    BY <1>1 DEF TypeInv, ReplayInLog
  <2>2. /\ Len(log) \in Nat /\ DOMAIN log = 1..Len(log) /\ log \in Seq(Event)
        /\ replay.at \in Nat /\ replay.end \in Nat /\ replay.turn \in Nat
        /\ surface # <<>> => TailNode \in DOMAIN log /\ TailNode \in Nat
    BY Typed
  <2> QED BY <1>1, <2>1, <2>2
<1>3. agent = "idle" /\ log[replay.end].type = "turn/end" /\ Silent(replay.at + 1, replay.end)
  <2>1. RedoOrder
    BY <1>1 DEF TurnOrder
  <2>2. Silent(replay.at, replay.end) => Silent(replay.at + 1, replay.end)
    BY <1>2 DEF Silent
  <2> QED BY <1>2, <2>1, <2>2 DEF RedoOrder
<1>4. \E e \in Event : AppendEvent(e)
  <2>1. CASE CopiesRow(i)
    BY <2>1 DEF CopiesRow, AppendRow
  <2>2. CASE IsBoundary(i) /\ AppendEvent(Boundary(log[i].type, replay.turn))
    BY <1>2, <2>2, BoundaryFields DEF IsBoundary
  <2> QED BY <1>1, <2>1, <2>2
<1>5. /\ DOMAIN log' = 1..(Len(log) + 1)
      /\ \A j \in DOMAIN log : log'[j] = log[j]
  BY <1>2, <1>4, AppendedLog
<1>6. TombFirst'
  <2> SUFFICES ASSUME i + 1 <= replay.end PROVE Inside'
    BY <1>1 DEF TombFirst
  <2>1. ASSUME NEW j \in DOMAIN log', i + 1 <= j, j < replay.end PROVE log'[j].type \notin BoundaryTypes
    <3>1. j \in DOMAIN log /\ replay.at + 1 <= j
      BY <1>2, <1>5, <2>1
    <3> QED BY <1>3, <1>5, <2>1, <3>1 DEF Silent, IsBoundary
  <2> QED BY <1>1, <2>1 DEF Inside, Silent, IsBoundary
<1>7. CASE log[i].type = "turn/start"
  <2>1. AppendEvent(Boundary("turn/start", replay.turn)) /\ surface' = surface
    BY <1>1, <1>7 DEF CopiesRow, Copied, MessageTypes
  <2>2. /\ OpenRows'
        /\ \A s, x \in Nat : Pair(s, x)' => Pair(s, x)
        /\ \A o \in Nat : LastStart(o)' => o = Len(log) + 1
        /\ TombTail' <=> TombTail
        /\ TailNode' = TailNode
    BY <1>2, <2>1, StartRows
  <2>3. TombTail /\ TailNode \in DOMAIN log
    <3>1. ~Inside
      <4>1. IsBoundary(i) /\ i # replay.end
        BY <1>3, <1>7 DEF IsBoundary, BoundaryTypes
      <4> QED BY <1>1, <1>2, <4>1 DEF Inside, Silent
    <3> QED BY <1>1, <1>2, <3>1 DEF PresentInv, TombFirst, TombTail
  <2>4. ClosedRows'
    <3>1. \A j \in DOMAIN log', x \in Nat : j < x /\ (\E s \in Nat : Pair(s, x)) => j \in DOMAIN log
      BY <1>2, <1>5 DEF Pair
    <3>2. \A j \in DOMAIN log : Copied(j)' => Copied(j)
      BY <1>5 DEF Copied
    <3>3. \A j \in DOMAIN log : OnSurface(j) \/ Rewrote(j) => OnSurface(j)' \/ Rewrote(j)'
      BY <1>2, <2>1, BoundaryFields, RewroteKept DEF BoundaryTypes
    <3> QED BY <1>1, <1>3, <2>1, <2>2, <3>1, <3>2, <3>3 DEF PresentInv, ClosedRows
  <2>5. TombOutside'
    BY <1>1, <1>2, <1>3, <2>1, <2>2, <2>3 DEF PresentInv, TombOutside
  <2> QED BY <1>1, <1>3, <1>6, <2>2, <2>3, <2>4, <2>5 DEF OpenTomb
<1>8. CASE log[i].type = "turn/end"
  <2>1. AppendEvent(Boundary("turn/end", replay.turn)) /\ surface' = surface
    BY <1>1, <1>8 DEF CopiesRow, Copied, MessageTypes
  <2>2. Silent(replay.at, replay.end)
    <3>1. CASE log[replay.at].type = "turn/start"
      <4>1. hasReplayRole(log[replay.at])
        BY <3>1 DEF hasReplayRole, BoundaryTypes
      <4>2. i = replay.at
        BY <1>1, <1>2, <4>1
      <4> QED BY <1>8, <3>1, <4>2
    <3> QED BY <1>1, <1>2, <3>1 DEF TurnOrder, RedoOrder
  <2>3. OpenRows
    BY <1>1, <1>2, <2>2 DEF PresentInv, Inside
  <2>4. ClosedRows' /\ TombOutside' /\ OpenTomb'
    BY <1>1, <1>2, <1>3, <2>1, <2>3, EndRows DEF PresentInv
  <2>5. ~Inside'
    <3>1. i = replay.end
      <4>1. IsBoundary(i)
        BY <1>8 DEF IsBoundary, BoundaryTypes
      <4> QED BY <1>1, <1>2, <2>2, <4>1 DEF Silent
    <3> QED BY <1>1, <1>2, <3>1 DEF Inside
  <2> QED BY <1>1, <1>3, <1>6, <2>4, <2>5
<1>9. CASE ~IsBoundary(i)
  <2>1. CopiesRow(i) /\ Copied(i)
    BY <1>1, <1>9 DEF CopiesRow
  <2>2. PICK e \in Event : e.op = "append" /\ e.type = log[i].type /\ AppendRow(e)
    BY <2>1 DEF CopiesRow
  <2>3. OpenRows
    <3>1. RedoOrder
      BY <1>1 DEF TurnOrder
    <3>2. Silent(replay.at, replay.end)
      BY <1>1, <2>1, <3>1, CopiesInside
    <3> QED BY <1>1, <1>2, <3>2 DEF PresentInv, Inside
  <2>4. OpenRows'
    BY <2>2, <2>3, RowOpen
  <2>5. /\ TailNode' = Len(log) + 1 /\ AppendEvent(e) /\ e.type \notin BoundaryTypes
        /\ ~isUndoTombstone(e)
    BY <1>9, <2>2, RowAdded DEF RowsTyped, AppendRow, IsBoundary, isUndoTombstone
  <2>6. ClosedRows' /\ OpenTomb' /\ TombOutside'
    BY <2>5, TailIsNew
  <2> QED BY <1>1, <1>3, <1>6, <2>4, <2>6
<1> QED BY <1>7, <1>8, <1>9 DEF IsBoundary, BoundaryTypes

\* Where a tombstone at the tail comes from: it was there, or an undo whose run
\* ends at the tail puts it there.
TombKept == TombTail /\ TailNode' = TailNode /\ log'[TailNode] = log[TailNode]

UndoAtTail(m, range, run, e) ==
  /\ run[2] = Len(surface) /\ Replaces(e, run[1], run[2])
  /\ isUndoTombstone(e) /\ e.turn = log[m].turn /\ e.cites = Cited(run[1], run[2])

LEMMA TombTailFrom ==
  ASSUME Sound, [Next]_vars, TombTail'
  PROVE  \/ TombKept
         \/ \E m \in findAssistantMessages(log) :
              /\ performUndo(m)
              /\ \E range \in turnLogRange(log, log[m].turn) :
                   \E run \in trailingTurnRun(surface, TurnSeqs(range)), e \in Event :
                     UndoAtTail(m, range, run, e)
<1> USE DEF Sound
<1> DEFINE Goal ==
      \/ TombKept
      \/ \E m \in findAssistantMessages(log) :
           /\ performUndo(m)
           /\ \E range \in turnLogRange(log, log[m].turn) :
                \E run \in trailingTurnRun(surface, TurnSeqs(range)), e \in Event :
                  UndoAtTail(m, range, run, e)
<1> SUFFICES Goal
  OBVIOUS
<1>0. turn \in Nat /\ replay.turn \in Nat
  BY Typed
<1>1. ASSUME \/ UNCHANGED <<log, surface>>
             \/ AddsBoundary
             \/ AddsRow
             \/ \E e \in Event, lo, hi \in DOMAIN surface :
                  Replaces(e, lo, hi) /\ (hi = Len(surface) => Fresh(e))
             \/ \E i \in DOMAIN log : CopiesRow(i)
      PROVE  Goal
  BY <1>1, TombTailKept DEF RowsInv, TombKept
<1>2. ASSUME NEW m \in findAssistantMessages(log), performUndo(m) PROVE Goal
  <2>1. PICK range \in turnLogRange(log, log[m].turn) :
          \E run \in trailingTurnRun(surface, TurnSeqs(range)) : \E e \in Event :
            /\ Replaces(e, run[1], run[2])
            /\ isUndoTombstone(e) /\ e.turn = log[m].turn
            /\ e.cites = Cited(run[1], run[2])
    BY <1>2, Undone
  <2>2. PICK run \in trailingTurnRun(surface, TurnSeqs(range)) : \E e \in Event :
            /\ Replaces(e, run[1], run[2])
            /\ isUndoTombstone(e) /\ e.turn = log[m].turn
            /\ e.cites = Cited(run[1], run[2])
    BY <2>1
  <2>3. PICK e \in Event :
            /\ Replaces(e, run[1], run[2])
            /\ isUndoTombstone(e) /\ e.turn = log[m].turn
            /\ e.cites = Cited(run[1], run[2])
    BY <2>2
  <2>4. CASE run[2] = Len(surface)
    BY <1>2, <2>3, <2>4 DEF UndoAtTail
  <2>5. CASE run[2] # Len(surface)
    <3>1. \E f \in Event, lo, hi \in DOMAIN surface :
            Replaces(f, lo, hi) /\ (hi = Len(surface) => Fresh(f))
      BY <2>3, <2>5 DEF Replaces
    <3> HIDE DEF Goal
    <3> QED BY <1>1, <3>1
  <2> QED BY <2>4, <2>5
<1> HIDE DEF Goal
<1>3. CASE TurnStart \/ TurnEnd \/ RedoFail
  <2>1. turn + 1 \in Nat /\ "turn/start" \in BoundaryTypes /\ "turn/end" \in BoundaryTypes
    BY <1>0 DEF BoundaryTypes
  <2>2. AddsBoundary
    BY <1>0, <1>3, <2>1 DEF TurnStart, TurnEnd, RedoFail, AddsBoundary
  <2> QED BY <1>1, <2>2
<1>4. CASE SystemPrompt \/ \E type \in MessageTypes : TurnRow(type)
  BY <1>1, <1>4, AddedRow
<1>5. ASSUME NEW type \in {"user/message", "tool/result"},
             NEW lo \in DOMAIN surface, NEW hi \in DOMAIN surface, RewriteRows(type, lo, hi)
      PROVE  Goal
  BY <1>1, <1>5, Rewritten
<1>6. CASE Compact
  <2>1. \E e \in Event, lo \in DOMAIN surface : Replaces(e, lo, Len(surface)) /\ Fresh(e)
    BY <1>6, Compacted
  <2>2. \E e \in Event, lo, hi \in DOMAIN surface :
          Replaces(e, lo, hi) /\ (hi = Len(surface) => Fresh(e))
    BY <2>1 DEF Replaces
  <2> QED BY <1>1, <2>2
<1>7. CASE RedoAppend
  <2>1. PICK i \in DOMAIN log :
          \/ IsBoundary(i) /\ AppendEvent(Boundary(log[i].type, replay.turn)) /\ UNCHANGED surface
          \/ CopiesRow(i)
    BY <1>7, CopiedStep
  <2>2. AddsBoundary \/ \E k \in DOMAIN log : CopiesRow(k)
    BY <1>0, <2>1 DEF AddsBoundary, IsBoundary
  <2> QED BY <1>1, <2>2
<1>8. CASE RedoStart \/ RedoDone \/ RedoFailOpen \/ UNCHANGED vars
  BY <1>1, <1>8 DEF RedoStart, RedoDone, RedoFailOpen, vars
<1> QED BY <1>2, <1>3, <1>4, <1>5, <1>6, <1>7, <1>8 DEF Next, Harness, Handlers

\* An undo: if a redo had left a turn open, the tail would be its tombstone or
\* one of its rows, and no undo takes those.
LEMMA PresentUndone ==
  ASSUME Sound, PresentInv, NEW m \in findAssistantMessages(log), performUndo(m)
  PROVE  ClosedRows' /\ TombOutside' /\ OpenTomb'
<1> USE DEF Sound
<1>1. agent = "idle" /\ agent' = "idle"
  BY Undone
<1>2. PICK range \in turnLogRange(log, log[m].turn) :
        \E run \in trailingTurnRun(surface, TurnSeqs(range)) : \E e \in Event :
          Replaces(e, run[1], run[2])
  BY Undone
<1>3. PICK run \in trailingTurnRun(surface, TurnSeqs(range)) : \E e \in Event :
          Replaces(e, run[1], run[2])
  BY <1>2
<1>4. PICK e \in Event : Replaces(e, run[1], run[2])
  BY <1>3
<1>5. /\ run[1] <= run[2] /\ run[1] \in DOMAIN surface /\ run[2] \in DOMAIN surface
      /\ AppendReplacement(e, run[1], run[2]) /\ AppendEvent(e) /\ e.type \notin BoundaryTypes
      /\ \A q \in run[1]..run[2] : surface[q] \in TurnSeqs(range)
  BY <1>4 DEF Replaces, AppendReplacement, MessageTypes, BoundaryTypes, trailingTurnRun
<1>6. /\ Len(log) \in Nat /\ DOMAIN log = 1..Len(log) /\ log \in Seq(Event)
      /\ surface # <<>> /\ TailNode \in DOMAIN log
      /\ Len(surface) \in Nat /\ DOMAIN surface = 1..Len(surface)
      /\ (\A i \in DOMAIN log : log'[i] = log[i]) /\ DOMAIN log' = 1..(Len(log) + 1)
  <2>1. surface # <<>> /\ Len(surface) \in Nat /\ DOMAIN surface = 1..Len(surface)
    BY <1>5 DEF RowsTyped, LogTyped
  <2>2. Len(log) \in Nat /\ DOMAIN log = 1..Len(log) /\ log \in Seq(Event)
    BY Typed
  <2>3. TailNode \in DOMAIN log
    BY <2>1, TailTyped
  <2> QED BY <1>5, <2>1, <2>2, <2>3, AppendedLog
<1>7. log[m].turn \in Nat
  <2>1. m \in DOMAIN log /\ \A f \in Event : f.turn \in Nat
    BY DEF findAssistantMessages, Event
  <2> QED BY <1>6, <2>1
<1>8. /\ \A s, x \in Nat : Pair(s, x)' => Pair(s, x)
      /\ \A o \in Nat : LastStart(o)' => LastStart(o)
  <2>1. e.type # "turn/end" /\ e.type # "turn/start"
    BY <1>5 DEF BoundaryTypes
  <2>2. /\ \A s, x \in Nat : Pair(s, x)' => Pair(s, x) \/ e.type = "turn/end"
        /\ \A o \in Nat : LastStart(o)' => LastStart(o) \/ e.type = "turn/start"
    BY <1>5, <1>6, PairsGrow
  <2> QED BY <2>1, <2>2
<1>9. CASE run[2] = Len(surface)
  <2>1. TailNode' = Len(log) + 1
    BY <1>5, <1>9, RowsReplaced DEF RowsTyped
  <2>2. ClosedRows' /\ OpenTomb'
    BY <1>5, <2>1, TailIsNew
  <2>3. Pair(range[1], range[2]) /\ range[1] < TailNode /\ TailNode < range[2]
        /\ range[1] \in Nat /\ range[2] \in Nat
    <3>1. Pair(range[1], range[2]) /\ IsBoundary(range[1]) /\ IsBoundary(range[2])
          /\ range[1] \in DOMAIN log /\ range[2] \in DOMAIN log
      BY <1>6, <1>7, RangeFields DEF TurnOrder, Pair, IsBoundary, BoundaryTypes
    <3>2. run[2] \in run[1]..run[2]
      BY <1>5, <1>6
    <3>3. TailNode \in range[1]..range[2]
      BY <1>5, <1>9, <3>2 DEF TailNode, TurnSeqs, shadowedTurnNodes
    <3>4. ~IsBoundary(TailNode)
      BY <1>5, <1>9 DEF TailNode, RowsInv, SurfaceRows
    <3>5. TailNode # range[1] /\ TailNode # range[2]
      BY <3>1, <3>4
    <3> QED BY <1>6, <3>1, <3>3, <3>5
  <2>4. ASSUME NEW o \in Nat, LastStart(o) PROVE FALSE
    <3>1. range[2] <= o
      <4>1. o \in DOMAIN log /\ range[2] \in DOMAIN log /\ IsBoundary(range[2])
        BY <2>3, <2>4 DEF LastStart, Pair, IsBoundary, BoundaryTypes
      <4> QED BY <1>6, <2>4, <4>1 DEF LastStart
    <3>2. ~(TailNode > o)
      BY <1>6, <2>3, <2>4, <3>1
    <3>3. TombTail
      BY <1>1, <1>6, <2>4, <3>2 DEF PresentInv, OpenTomb
    <3> QED BY <2>3, <3>3 DEF PresentInv, TombOutside
  <2>5. \A s, x \in Nat : Pair(s, x)' => ~(TailNode' < x)
    BY <1>6, <2>1 DEF Pair
  <2>6. TombOutside'
    BY <1>8, <2>4, <2>5 DEF TombOutside
  <2> QED BY <2>2, <2>6
<1>10. CASE run[2] # Len(surface)
  <2>1. ClosedRows'
    BY <1>1, <1>4, <1>7, <1>10, UndoElsewhere DEF PresentInv
  <2>2. TailNode' = TailNode /\ surface' # <<>>
    BY <1>5, <1>10, RowsReplaced DEF RowsTyped
  <2>3. TombTail' <=> TombTail
    BY <1>6, <2>2 DEF TombTail
  <2>4. TombOutside' /\ OpenTomb'
    BY <1>1, <1>6, <1>8, <2>2, <2>3 DEF PresentInv, TombOutside, OpenTomb
  <2> QED BY <2>1, <2>4
<1> QED BY <1>9, <1>10

LEMMA PresentNext ==
  ASSUME Sound, Opening, TailRun, PresentInv, [Next]_vars
  PROVE  PresentInv'
<1> USE DEF Sound
<1>0. turn \in Nat /\ replay.turn \in Nat /\ agent \in {"idle", "running"}
      /\ budget \in [Budgets -> Nat] /\ SystemHead'
  BY SystemHeadNext DEF PresentInv, TypeInv, TypeOK
<1>1. ASSUME replay' = NoReplay, agent' = "running" => OpenRows',
             ClosedRows', TombOutside', OpenTomb'
      PROVE  PresentInv'
  BY <1>0, <1>1 DEF PresentInv, Inside, TombFirst
<1>2. CASE TurnStart
  <2>1. /\ AppendEvent(Boundary("turn/start", turn + 1)) /\ surface' = surface /\ turn + 1 \in Nat
        /\ agent' = "running" /\ replay' = NoReplay
    BY <1>0, <1>2 DEF TurnStart
  <2>2. /\ OpenRows' /\ \A s, x \in Nat : Pair(s, x)' => Pair(s, x)
        /\ TombTail' <=> TombTail
        /\ TailNode' = TailNode
    BY <2>1, StartRows
  <2>3. ClosedRows' /\ OpenTomb'
    BY <2>1 DEF ClosedRows, OpenTomb
  <2>4. TombOutside'
    BY <2>1, <2>2 DEF PresentInv, TombOutside
  <2> QED BY <1>1, <2>1, <2>2, <2>3, <2>4
<1>3. CASE TurnEnd
  <2>1. /\ AppendEvent(Boundary("turn/end", turn)) /\ surface' = surface
        /\ agent = "running" /\ agent' = "idle" /\ replay' = NoReplay
        /\ budget["rows"] < MaxRows
    BY <1>3 DEF TurnEnd
  <2>2. TailSettled /\ ~TombTail /\ OpenRows
    BY <2>1 DEF Opening, TurnOrder, PresentInv
  <2>3. ClosedRows' /\ TombOutside' /\ OpenTomb'
    BY <1>0, <2>1, <2>2, EndRows DEF PresentInv
  <2> QED BY <1>1, <2>1, <2>3
<1>4. CASE SystemPrompt \/ \E type \in MessageTypes : TurnRow(type)
  <2>1. AddsRow /\ agent = "running" /\ replay = NoReplay /\ UNCHANGED <<agent, turn, replay>>
    BY <1>4, AddedRow
  <2>2. PICK e \in Event :
          e.op = "append" /\ e.type \in MessageTypes \cup {"system/message"} /\ AppendRow(e)
    BY <2>1 DEF AddsRow
  <2>3. /\ TailNode' = Len(log) + 1 /\ AppendEvent(e) /\ e.type \notin BoundaryTypes
        /\ ~isUndoTombstone(e)
    BY <2>2, RowAdded DEF RowsTyped, AppendRow, isUndoTombstone, BoundaryTypes, MessageTypes
  <2>4. ClosedRows' /\ OpenTomb' /\ TombOutside'
    BY <2>3, TailIsNew
  <2>5. OpenRows'
    BY <2>1, <2>2, RowOpen DEF PresentInv
  <2> QED BY <1>1, <2>1, <2>4, <2>5
<1>5. ASSUME NEW type \in {"user/message", "tool/result"},
             NEW lo \in DOMAIN surface, NEW hi \in DOMAIN surface, RewriteRows(type, lo, hi)
      PROVE  PresentInv'
  <2>1. agent = "running" /\ replay = NoReplay /\ UNCHANGED <<agent, turn, replay>>
    BY <1>5, Rewritten
  <2>2. OpenRows'
    BY <1>5, <2>1, RewriteOpen DEF PresentInv
  <2>3. ClosedRows' /\ OpenTomb'
    BY <2>1 DEF ClosedRows, OpenTomb
  <2>4. PICK e \in Event : Replaces(e, lo, hi) /\ Fresh(e)
    BY <1>5, Rewritten
  <2>5. \A s, x \in Nat : Pair(s, x)' => Pair(s, x)
    <3>1. AppendEvent(e) /\ e.type # "turn/end"
      BY <2>4 DEF Replaces, AppendReplacement, MessageTypes
    <3>2. log \in Seq(Event)
      BY Typed
    <3> QED BY <3>1, <3>2, PairsGrow
  <2>6. TombTail' => TombTail /\ TailNode' = TailNode
    <3>1. \E f \in Event, l, h \in DOMAIN surface : Replaces(f, l, h) /\ (h = Len(surface) => Fresh(f))
      BY <2>4
    <3> QED BY <3>1, TombTailKept DEF RowsInv
  <2>7. TombOutside'
    BY <2>1, <2>5, <2>6 DEF PresentInv, TombOutside
  <2> QED BY <1>1, <2>1, <2>2, <2>3, <2>7
<1>6. CASE Compact
  <2>1. agent = "idle" /\ replay = NoReplay /\ UNCHANGED <<agent, turn, replay>>
    BY <1>6, Compacted
  <2>2. PICK e \in Event, lo \in DOMAIN surface : Replaces(e, lo, Len(surface)) /\ Fresh(e)
    BY <1>6, Compacted
  <2>3. /\ AppendReplacement(e, lo, Len(surface)) /\ AppendEvent(e) /\ e.type \notin BoundaryTypes
        /\ lo <= Len(surface) /\ Len(surface) \in DOMAIN surface
    BY <2>2 DEF Replaces, AppendReplacement, MessageTypes, BoundaryTypes
  <2>4. TailNode' = Len(log) + 1
    BY <2>3, RowsReplaced DEF RowsTyped
  <2>5. ~isUndoTombstone(e)
    <3>1. Len(log) \in Nat
      BY Typed
    <3> QED BY <2>2, <3>1 DEF Fresh, isUndoTombstone
  <2>6. ClosedRows' /\ OpenTomb' /\ TombOutside'
    BY <2>3, <2>4, <2>5, TailIsNew
  <2> QED BY <1>1, <2>1, <2>6
<1>7. ASSUME NEW m \in findAssistantMessages(log), performUndo(m) PROVE PresentInv'
  <2>1. agent' = "idle" /\ replay' = NoReplay
    BY <1>7, Undone
  <2>2. ClosedRows' /\ TombOutside' /\ OpenTomb'
    BY <1>7, PresentUndone
  <2> QED BY <1>1, <2>1, <2>2
<1>8. CASE RedoAppend
  BY <1>0, <1>8, PresentCopied DEF PresentInv
<1>9. CASE RedoFail
  <2>1. /\ AppendEvent(Boundary("turn/end", replay.turn)) /\ surface' = surface
        /\ replay # NoReplay /\ replay' = NoReplay /\ agent' = agent /\ NextStep # {}
    BY <1>9 DEF RedoFail
  <2>2. agent = "idle"
    BY <2>1 DEF TurnOrder, RedoOrder
  <2>3. replay.at <= replay.end
    <3>1. replay.at \in Nat /\ replay.end \in Nat
      BY Typed
    <3> QED BY <2>1, <3>1 DEF NextStep
  <2>4. OpenRows \/ TombTail
    BY <2>1, <2>3 DEF PresentInv, TombFirst
  <2>5. ClosedRows' /\ TombOutside' /\ OpenTomb'
    BY <1>0, <2>1, <2>2, <2>4, EndRows DEF PresentInv
  <2> QED BY <1>1, <2>1, <2>2, <2>5
<1>10. ASSUME log' = log, surface' = surface, agent' = agent
       PROVE  /\ OpenRows => OpenRows'
              /\ ClosedRows' /\ TombOutside' /\ OpenTomb' /\ TailNode' = TailNode
              /\ TombTail' <=> TombTail
  BY <1>10 DEF PresentInv, OpenRows, ClosedRows, TombOutside, OpenTomb, Pair, LastStart, TailNode,
     TombTail, OnSurface, Rewrote, RewrittenSince, Apart, Copied, IsBoundary, Silent
<1>11. CASE RedoStart
  <2>1. log' = log /\ surface' = surface /\ agent' = agent /\ agent = "idle"
    BY <1>0, <1>11 DEF RedoStart, RedoTarget
  <2>2. PICK i \in RedoTarget : \E range \in turnLogRange(log, log[i].turn) :
          replay' = [tomb |-> i, turn |-> FakeBase + log[i].turn,
                     at |-> range[1], end |-> range[2]]
    BY <1>11 DEF RedoStart
  <2>3. PICK range \in turnLogRange(log, log[i].turn) :
          replay' = [tomb |-> i, turn |-> FakeBase + log[i].turn,
                     at |-> range[1], end |-> range[2]]
    BY <2>2
  <2>4. replay'.at = range[1] /\ replay'.end = range[2] /\ replay'.tomb = i
    BY <2>3
  <2>5. TombTail /\ TailNode = i
    BY <2>1 DEF RedoTarget, isSurfaceTail, findLastUndoTombstone, Tombstones, TailNode, TombTail
  <2>6. ~Inside'
    <3>1. range[1] \in DOMAIN log /\ range[1] < range[2] /\ log[range[1]].type \in BoundaryTypes
          /\ range[1] <= range[1]
      BY Typed DEF turnLogRange, Starts, BoundaryTypes
    <3> QED BY <2>1, <2>4, <3>1 DEF Inside, Silent, IsBoundary
  <2> QED BY <1>0, <1>10, <2>1, <2>4, <2>5, <2>6 DEF PresentInv, TombFirst
<1>12. CASE RedoDone \/ RedoFailOpen
  <2>1. log' = log /\ surface' = surface /\ agent' = agent /\ replay' = NoReplay
    BY <1>12 DEF RedoDone, RedoFailOpen
  <2> QED BY <1>1, <1>10, <2>1 DEF PresentInv
<1>13. CASE UNCHANGED vars
  <2>1. log' = log /\ surface' = surface /\ agent' = agent /\ replay' = replay
    BY <1>13 DEF vars
  <2>2. Inside' <=> Inside
    BY <2>1 DEF Inside, Silent, IsBoundary
  <2> QED BY <1>0, <1>10, <2>1, <2>2 DEF PresentInv, TombFirst
<1> QED BY <1>2, <1>3, <1>4, <1>5, <1>6, <1>7, <1>8, <1>9, <1>11, <1>12, <1>13
        DEF Next, Harness, Handlers

-----------------------------------------------------------------------------
\* What a redo copies.
CopyOf(e) == e.type \in MessageTypes /\ e.op = "append"

\* c holds no rewrite.
Whole(l, c) == \A k \in DOMAIN c : l[c[k]].op # "replace"

\* c lists the rows of the range that a redo copies, in their order.
CopiesOf(l, c, range) ==
  /\ \A k \in DOMAIN c : c[k] \in DOMAIN l /\ CopyOf(l[c[k]]) /\ range[1] <= c[k] /\ c[k] <= range[2]
  /\ \A k, n \in DOMAIN c : k < n => c[k] < c[n]
  /\ \A i \in DOMAIN l :
       range[1] <= i /\ i <= range[2] /\ CopyOf(l[i]) => \E k \in DOMAIN c : c[k] = i

\* The tombstone at the tail cites what a redo of it copies.
TailRestores ==
  TombTail /\ Whole(log, log[TailNode].cites) =>
    \E range \in turnLogRange(log, log[TailNode].turn) : CopiesOf(log, log[TailNode].cites, range)

\* The rows behind the tombstone i, at P, are copies of the first rows it cites,
\* and the range has the others left.
Restored(i, P) ==
  LET c == log[i].cites
      n == Len(surface) - P
  IN  /\ surface[P] = i /\ n <= Len(c)
      /\ \A k \in 1..n : log[surface[P + k]].body = log[c[k]].body
      /\ \A k \in DOMAIN c :
           c[k] \in DOMAIN log /\ Copied(c[k]) /\ c[k] <= replay.end /\ (k > n <=> replay.at <= c[k])
      /\ \A k, m \in DOMAIN c : k < m => c[k] < c[m]
      /\ \A k \in DOMAIN log :
           replay.at <= k /\ k <= replay.end /\ Copied(k) => \E m \in DOMAIN c : c[m] = k

RedoRows ==
  replay # NoReplay =>
    \E i \in DOMAIN log :
      /\ replay.tomb = i
      /\ Whole(log, log[i].cites) => \E P \in DOMAIN surface : Restored(i, P)

\* The run an undo at the tail takes, when it holds no rewrite.
LEMMA RunIsTurn ==
  ASSUME Sound, TailRun, PresentInv, agent = "idle", NEW t \in Nat,
         NEW range \in turnLogRange(log, t),
         NEW run \in trailingTurnRun(surface, TurnSeqs(range)), run[2] = Len(surface),
         \A p \in run[1]..run[2] : log[surface[p]].op # "replace"
  PROVE  CopiesOf(log, Cited(run[1], run[2]), range)
<1> USE DEF Sound
<1> DEFINE lo == run[1]
           hi == run[2]
           c == Cited(lo, hi)
<1>1. /\ lo \in DOMAIN surface /\ hi \in DOMAIN surface /\ lo <= hi
      /\ \A p \in lo..hi : surface[p] \in TurnSeqs(range)
  BY DEF trailingTurnRun
<1>2. /\ Len(surface) \in Nat /\ DOMAIN surface = 1..Len(surface) /\ lo \in Nat /\ hi \in Nat
      /\ 1 <= lo /\ hi <= Len(surface) /\ surface # <<>>
  BY <1>1 DEF RowsTyped, LogTyped
<1>3. /\ Len(log) \in Nat /\ DOMAIN log = 1..Len(log) /\ log \in Seq(Event)
      /\ \A p \in DOMAIN surface : surface[p] \in DOMAIN log
      /\ TailNode \in DOMAIN log /\ TailNode \in Nat
  BY <1>2, Typed
<1>4. /\ DOMAIN c = 1..(hi - lo + 1)
      /\ \A k \in 1..(hi - lo + 1) : c[k] = surface[lo + k - 1]
  BY <1>1, CitedProperties DEF RowsTyped
<1> HIDE DEF c
<1>5. Pair(range[1], range[2]) /\ range[1] \in Nat /\ range[2] \in Nat
      /\ IsBoundary(range[1]) /\ IsBoundary(range[2])
  BY <1>3, RangeFields DEF TurnOrder, Pair, IsBoundary, BoundaryTypes
<1>6. ASSUME NEW p \in lo..hi
      PROVE  /\ p \in DOMAIN surface /\ surface[p] \in DOMAIN log /\ Copied(surface[p])
             /\ range[1] <= surface[p] /\ surface[p] <= range[2]
  <2>1. p \in DOMAIN surface /\ surface[p] \in DOMAIN log /\ surface[p] \in Nat
    BY <1>2, <1>3
  <2>2. surface[p] \in range[1]..range[2] /\ (HeadIsSystem => surface[p] # surface[1])
    BY <1>1 DEF TurnSeqs, shadowedTurnNodes
  <2>3. log[surface[p]] \in Event /\ log[surface[p]].op # "none" /\ ~IsBoundary(surface[p])
    BY <1>3, <2>1 DEF RowsInv, SurfaceRows
  <2>4. log[surface[p]].op = "append" /\ log[surface[p]].type \in EventTypes
    BY <2>3 DEF Event
  <2>5. log[surface[p]].type # "system/message"
    <3>1. ASSUME log[surface[p]].type = "system/message" PROVE FALSE
      <4>1. p = 1
        BY <2>1, <2>4, <3>1 DEF PresentInv, SystemHead
      <4>2. HeadIsSystem
        BY <1>2, <3>1, <4>1 DEF HeadIsSystem
      <4> QED BY <2>2, <4>1, <4>2
    <3> QED BY <3>1
  <2>6. Copied(surface[p])
    BY <2>3, <2>4, <2>5 DEF Copied, EventTypes, IsBoundary
  <2> QED BY <1>5, <2>1, <2>2, <2>6
<1>7. ASSUME NEW k \in DOMAIN c
      PROVE  c[k] \in DOMAIN log /\ Copied(c[k]) /\ range[1] <= c[k] /\ c[k] <= range[2]
  <2>1. lo + k - 1 \in lo..hi /\ c[k] = surface[lo + k - 1]
    BY <1>2, <1>4
  <2> QED BY <1>6, <2>1
<1>8. ASSUME NEW k \in DOMAIN c, NEW n \in DOMAIN c, k < n PROVE c[k] < c[n]
  <2>1. k \in 1..(hi - lo + 1) /\ n \in 1..(hi - lo + 1) /\ k \in Nat /\ n \in Nat
    BY <1>2, <1>4
  <2>2. lo + k - 1 \in lo..hi /\ lo + n - 1 \in lo..hi /\ lo + k - 1 < lo + n - 1
    BY <1>2, <1>8, <2>1, SMTT(30)
  <2>3. c[k] = surface[lo + k - 1] /\ c[n] = surface[lo + n - 1]
    BY <1>4, <2>1
  <2> QED BY <1>6, <2>2, <2>3 DEF RowsInv, Ordered, Copied
<1>9. ASSUME NEW i \in DOMAIN log, range[1] <= i, i <= range[2], Copied(i)
      PROVE  \E k \in DOMAIN c : c[k] = i
  <2>1. range[1] < i /\ i < range[2] /\ i \in range[1]..range[2]
    <3>1. ~IsBoundary(i)
      BY <1>9 DEF Copied, IsBoundary, MessageTypes, BoundaryTypes
    <3>2. i # range[1] /\ i # range[2] /\ i \in Nat
      BY <1>3, <1>5, <3>1
    <3> QED BY <1>5, <1>9, <3>2
  <2>2. range[1] < TailNode /\ TailNode < range[2]
    <3>1. hi \in lo..hi
      BY <1>1, <1>2
    <3>2. range[1] <= TailNode /\ TailNode <= range[2] /\ Copied(TailNode)
      BY <1>6, <3>1 DEF TailNode
    <3>3. ~IsBoundary(TailNode)
      BY <3>2 DEF Copied, IsBoundary, MessageTypes, BoundaryTypes
    <3>4. TailNode # range[1] /\ TailNode # range[2]
      BY <1>5, <3>3
    <3> QED BY <1>3, <1>5, <3>2, <3>4
  <2>3. OnSurface(i)
    <3> SUFFICES ASSUME NEW p \in DOMAIN surface, RewrittenSince(i, p) PROVE FALSE
      BY <1>2, <1>5, <1>9, <2>1, <2>2 DEF PresentInv, ClosedRows, Rewrote
    <3>1. ASSUME NEW q \in DOMAIN surface, p <= q, q > 1 \/ ~HeadIsSystem
          PROVE  surface[q] \in TurnSeqs(range)
      <4>1. /\ surface[q] \in DOMAIN log /\ surface[q] \in Nat /\ i < surface[q]
            /\ ~Apart(i, surface[q]) /\ ~IsBoundary(surface[q])
        BY <1>3, <3>1 DEF RewrittenSince, RowsInv, SurfaceRows
      <4>2. range[2] \in DOMAIN log /\ surface[q] # range[2]
        BY <1>5, <4>1 DEF Pair
      <4>3. ~(range[2] < surface[q])
        BY <1>5, <2>1, <4>1, <4>2 DEF Apart
      <4>4. surface[q] \in range[1]..range[2]
        BY <1>3, <1>5, <2>1, <4>1, <4>2, <4>3
      <4>5. HeadIsSystem => surface[q] # surface[1]
        <5>1. 1 \in DOMAIN surface
          BY <1>2
        <5> QED BY <1>2, <3>1, <5>1 DEF NodesDistinct
      <4> QED BY <4>4, <4>5 DEF TurnSeqs, shadowedTurnNodes
    <3>2. p > 1 \/ ~HeadIsSystem
      <4>1. ASSUME p = 1 PROVE ~HeadIsSystem
        BY <4>1 DEF RewrittenSince, HeadIsSystem, MessageTypes
      <4> QED BY <1>2, <4>1
    <3>3. lo <= p
      <4>1. ASSUME p < lo PROVE FALSE
        <5>1. lo - 1 \in DOMAIN surface /\ p <= lo - 1 /\ lo > 1
          BY <1>1, <1>2, <4>1
        <5>2. surface[lo - 1] \notin TurnSeqs(range)
          BY <5>1 DEF trailingTurnRun
        <5>3. lo - 1 > 1 \/ ~HeadIsSystem
          BY <1>2, <3>2, <5>1
        <5> QED BY <3>1, <5>1, <5>2, <5>3
      <4> QED BY <1>2, <4>1
    <3>4. p \in lo..hi
      BY <1>2, <3>3
    <3> QED BY <3>4 DEF RewrittenSince
  <2>4. PICK q \in DOMAIN surface : surface[q] = i
    BY <2>3 DEF OnSurface
  <2>5. surface[q] \in range[1]..range[2] /\ Copied(surface[q])
    BY <1>9, <2>1, <2>4
  <2>6. q \in lo..hi
    BY <2>5, RunHoldsTurn
  <2>7. q - lo + 1 \in DOMAIN c /\ c[q - lo + 1] = surface[q]
    <3>1. q \in Nat /\ q - lo + 1 \in 1..(hi - lo + 1) /\ lo + (q - lo + 1) - 1 = q
      BY <1>2, <2>6
    <3> QED BY <1>4, <3>1
  <2> QED BY <2>4, <2>7
<1> QED BY <1>7, <1>8, <1>9 DEF CopiesOf, c, CopyOf, Copied

\* The log grows: what was listed stays listed.
LEMMA CopiesKept ==
  ASSUME log \in Seq(Event), log' = log \/ \E e \in Event : AppendEvent(e), CitesLogged,
         NEW i \in DOMAIN log, Whole(log', log[i].cites), log[i].turn \in Nat,
         Whole(log, log[i].cites) =>
           \E range \in turnLogRange(log, log[i].turn) : CopiesOf(log, log[i].cites, range)
  PROVE  \E range \in turnLogRange(log', log[i].turn) : CopiesOf(log', log[i].cites, range)
<1> DEFINE c == log[i].cites
<1>1. CASE log' = log
  BY <1>1
<1>2. ASSUME NEW e \in Event, AppendEvent(e)
      PROVE  \E range \in turnLogRange(log', log[i].turn) : CopiesOf(log', c, range)
  <2>1. /\ Len(log) \in Nat /\ DOMAIN log = 1..Len(log) /\ DOMAIN log' = 1..(Len(log) + 1)
        /\ \A j \in DOMAIN log : log'[j] = log[j]
    BY <1>2, AppendedLog
  <2>2. \A k \in DOMAIN c : c[k] \in DOMAIN log
    BY DEF CitesLogged
  <2>3. Whole(log, c)
    BY <2>1, <2>2 DEF Whole
  <2>4. PICK range \in turnLogRange(log, log[i].turn) : CopiesOf(log, c, range)
    BY <2>3
  <2>5. range \in turnLogRange(log', log[i].turn) /\ range[2] \in DOMAIN log
    BY <1>2, RangeStays DEF turnLogRange, Ends
  <2> HIDE DEF c
  <2>6. \A k \in DOMAIN c :
          c[k] \in DOMAIN log' /\ CopyOf(log'[c[k]]) /\ range[1] <= c[k] /\ c[k] <= range[2]
    BY <2>1, <2>2, <2>4 DEF CopiesOf
  <2>7. \A j \in DOMAIN log' :
          range[1] <= j /\ j <= range[2] /\ CopyOf(log'[j]) => \E k \in DOMAIN c : c[k] = j
    <3>1. \A j \in DOMAIN log' : j <= range[2] => j \in DOMAIN log
      BY <2>1, <2>5
    <3> QED BY <2>1, <2>4, <3>1 DEF CopiesOf
  <2> QED BY <2>4, <2>5, <2>6, <2>7 DEF CopiesOf
<1> QED BY <1>1, <1>2

LEMMA TailRestoresNext ==
  ASSUME Sound, CitesLogged, TailRun, PresentInv, TailRestores, [Next]_vars
  PROVE  TailRestores'
<1> USE DEF Sound
<1> SUFFICES ASSUME TombTail', Whole(log', log'[TailNode'].cites)
             PROVE  \E range \in turnLogRange(log', log'[TailNode'].turn) :
                      CopiesOf(log', log'[TailNode'].cites, range)
  BY DEF TailRestores
<1>1. /\ Len(log) \in Nat /\ DOMAIN log = 1..Len(log) /\ log \in Seq(Event)
      /\ surface # <<>> => TailNode \in DOMAIN log
      /\ \A i \in DOMAIN log : log[i].turn \in Nat
  <2>1. log \in Seq(Event)
    BY Typed
  <2>2. \A i \in DOMAIN log : log[i].turn \in Nat
    <3>1. \A f \in Event : f.turn \in Nat
      BY DEF Event
    <3>2. \A i \in DOMAIN log : log[i] \in Event
      BY <2>1
    <3> QED BY <3>1, <3>2
  <2> QED BY <2>1, <2>2, Typed
<1>2. CASE TombKept
  <2>1. log' = log \/ \E e \in Event : AppendEvent(e)
    <3>1. Steps
      BY NextSteps
    <3>2. CASE AddsBoundary
      BY <3>2, BoundaryFields DEF AddsBoundary
    <3> QED BY <3>1, <3>2 DEF Steps, AddsRow, CopiesRow, Replaces, AppendRow, AppendReplacement
  <2>2. PICK i \in DOMAIN log : i = TailNode
    BY <1>1, <1>2 DEF TombKept, TombTail
  <2>3. TombTail /\ TailNode' = i /\ log'[i] = log[i]
    BY <1>2, <2>2 DEF TombKept
  <2>4. Whole(log, log[i].cites) =>
          \E range \in turnLogRange(log, log[i].turn) : CopiesOf(log, log[i].cites, range)
    BY <2>2, <2>3 DEF TailRestores
  <2>5. Whole(log', log[i].cites)
    BY <2>3
  <2>6. \E range \in turnLogRange(log', log[i].turn) : CopiesOf(log', log[i].cites, range)
    BY <1>1, <2>1, <2>4, <2>5, CopiesKept
  <2> QED BY <2>3, <2>6
<1>3. ASSUME NEW m \in findAssistantMessages(log), performUndo(m),
             NEW range \in turnLogRange(log, log[m].turn),
             NEW run \in trailingTurnRun(surface, TurnSeqs(range)), NEW e \in Event,
             UndoAtTail(m, range, run, e)
      PROVE  \E r \in turnLogRange(log', log'[TailNode'].turn) :
               CopiesOf(log', log'[TailNode'].cites, r)
  <2> DEFINE c == Cited(run[1], run[2])
  <2>1. /\ run[2] = Len(surface) /\ AppendReplacement(e, run[1], run[2]) /\ AppendEvent(e)
        /\ e.turn = log[m].turn /\ e.cites = c
        /\ run[1] \in DOMAIN surface /\ run[2] \in DOMAIN surface /\ run[1] <= run[2]
    BY <1>3 DEF UndoAtTail, Replaces, AppendReplacement
  <2>2. TailNode' = Len(log) + 1
    BY <2>1, RowsReplaced DEF RowsTyped
  <2>3. /\ DOMAIN log' = 1..(Len(log) + 1) /\ log'[Len(log) + 1] = e
        /\ \A j \in DOMAIN log : log'[j] = log[j]
    BY <1>1, <2>1, AppendedLog
  <2>4. /\ DOMAIN c = 1..(run[2] - run[1] + 1)
        /\ \A k \in 1..(run[2] - run[1] + 1) : c[k] = surface[run[1] + k - 1]
    BY <2>1, CitedProperties DEF RowsTyped
  <2>5. run[1] \in Nat /\ run[2] \in Nat /\ run[1] >= 1
        /\ DOMAIN surface = 1..Len(surface) /\ Len(surface) \in Nat
    BY <2>1 DEF RowsTyped, LogTyped
  <2> HIDE DEF c
  <2>6. Whole(log', c)
    BY <2>1, <2>2, <2>3
  <2>7. \A k \in DOMAIN c : c[k] \in DOMAIN log
    <3>1. \A k \in 1..(run[2] - run[1] + 1) : run[1] + k - 1 \in DOMAIN surface
      BY <2>1, <2>5
    <3> QED BY <2>4, <3>1, Typed
  <2>8. Whole(log, c)
    BY <2>3, <2>6, <2>7 DEF Whole
  <2>9. \A p \in run[1]..run[2] : log[surface[p]].op # "replace"
    <3>1. ASSUME NEW p \in run[1]..run[2] PROVE log[surface[p]].op # "replace"
      <4>0. p \in Nat /\ run[1] <= p /\ p <= run[2]
        BY <2>5
      <4>1. p - run[1] + 1 \in 1..(run[2] - run[1] + 1) /\ run[1] + (p - run[1] + 1) - 1 = p
        BY <2>5, <4>0
      <4>2. p - run[1] + 1 \in DOMAIN c /\ c[p - run[1] + 1] = surface[p]
        BY <2>4, <4>1
      <4> QED BY <2>8, <4>2 DEF Whole
    <3> QED BY <3>1
  <2>10. m \in DOMAIN log /\ log[m].turn \in Nat
    BY <1>1 DEF findAssistantMessages
  <2>11. agent = "idle"
    BY <1>3, Undone
  <2>12. CopiesOf(log, c, range)
    BY <2>1, <2>9, <2>10, <2>11, RunIsTurn DEF c
  <2>13. range \in turnLogRange(log', log[m].turn) /\ range[2] \in DOMAIN log
    BY <1>1, <2>1, <2>10, RangeStays DEF turnLogRange, Ends
  <2>14. \A k \in DOMAIN c :
           c[k] \in DOMAIN log' /\ CopyOf(log'[c[k]]) /\ range[1] <= c[k] /\ c[k] <= range[2]
    BY <1>1, <2>3, <2>7, <2>12 DEF CopiesOf
  <2>15. \A j \in DOMAIN log' :
           range[1] <= j /\ j <= range[2] /\ CopyOf(log'[j]) => \E k \in DOMAIN c : c[k] = j
    <3>1. \A j \in DOMAIN log' : j <= range[2] => j \in DOMAIN log
      BY <1>1, <2>3, <2>13
    <3> QED BY <2>3, <2>12, <3>1 DEF CopiesOf
  <2>16. CopiesOf(log', c, range)
    BY <2>12, <2>14, <2>15 DEF CopiesOf
  <2> QED BY <2>1, <2>2, <2>3, <2>13, <2>16
<1> QED BY <1>2, <1>3, TombTailFrom

\* A step of the redo: the boundary it copies changes nothing, the row it
\* copies is the first of the rows left.
LEMMA RedoRowsCopied ==
  ASSUME Sound, CitesLogged, RedoRows, RedoAppend
  PROVE  RedoRows'
<1> USE DEF Sound
<1>1. PICK j \in replay.at..replay.end :
           /\ j \in DOMAIN log /\ j \in Nat /\ hasReplayRole(log[j])
           /\ \A x \in replay.at..(j - 1) : ~hasReplayRole(log[x])
           /\ replay'.at = j + 1 /\ replay'.end = replay.end
           /\ replay'.tomb = replay.tomb /\ replay # NoReplay
           /\ \/ IsBoundary(j) /\ AppendEvent(Boundary(log[j].type, replay.turn)) /\ UNCHANGED surface
              \/ CopiesRow(j)
  BY CopiedStep
<1>2. /\ Len(log) \in Nat /\ DOMAIN log = 1..Len(log) /\ log \in Seq(Event)
      /\ replay.at \in Nat /\ replay.end \in Nat /\ replay.turn \in Nat
      /\ replay.at <= j /\ j <= replay.end
  <2>1. /\ Len(log) \in Nat /\ DOMAIN log = 1..Len(log) /\ log \in Seq(Event)
        /\ replay.at \in Nat /\ replay.end \in Nat /\ replay.turn \in Nat
    BY Typed
  <2> QED BY <1>1, <2>1
<1>3. PICK i \in DOMAIN log :
        /\ replay.tomb = i
        /\ Whole(log, log[i].cites) => \E P \in DOMAIN surface : Restored(i, P)
  BY <1>1 DEF RedoRows
<1>4. PICK e \in Event :
        /\ AppendEvent(e)
        /\ \/ IsBoundary(j) /\ UNCHANGED surface
           \/ Copied(j) /\ AppendRow(e) /\ e.body = log[j].body
  <2>1. CASE CopiesRow(j)
    BY <2>1 DEF CopiesRow, AppendRow
  <2>2. CASE IsBoundary(j) /\ AppendEvent(Boundary(log[j].type, replay.turn)) /\ UNCHANGED surface
    BY <1>2, <2>2, BoundaryFields DEF IsBoundary
  <2> QED BY <1>1, <2>1, <2>2
<1>5. /\ DOMAIN log' = 1..(Len(log) + 1) /\ log'[Len(log) + 1] = e
      /\ \A x \in DOMAIN log : log'[x] = log[x]
  BY <1>2, <1>4, AppendedLog
<1> SUFFICES ASSUME Whole(log', log'[i].cites) PROVE \E P \in DOMAIN surface' : Restored(i, P)'
  BY <1>1, <1>2, <1>3, <1>5 DEF RedoRows
<1> DEFINE c == log[i].cites
<1>6. c \in Seq(Nat) /\ \A k \in DOMAIN c : c[k] \in DOMAIN log /\ c[k] \in Nat
  <2>1. \A f \in Event : f.cites \in Seq(Nat)
    BY DEF Event
  <2>2. log[i] \in Event
    BY <1>2
  <2>3. c \in Seq(Nat)
    BY <2>1, <2>2
  <2>4. \A k \in DOMAIN c : c[k] \in DOMAIN log
    BY DEF CitesLogged
  <2> QED BY <1>2, <2>3, <2>4
<1>7. Len(c) \in Nat /\ DOMAIN c = 1..Len(c)
  BY <1>6
<1>8. Whole(log, c) /\ log'[i].cites = c
  BY <1>5, <1>6 DEF Whole
<1>9. PICK P \in DOMAIN surface : Restored(i, P)
  BY <1>3, <1>8
<1> HIDE DEF c
<1>10. /\ Len(surface) \in Nat /\ DOMAIN surface = 1..Len(surface)
       /\ P \in Nat /\ P >= 1 /\ P <= Len(surface)
       /\ \A p \in DOMAIN surface : surface[p] \in DOMAIN log
  BY DEF RowsTyped, LogTyped
<1> DEFINE n == Len(surface) - P
<1>11. n \in Nat
  BY <1>10
<1>12. /\ surface[P] = i /\ n <= Len(c)
       /\ \A k \in 1..n : log[surface[P + k]].body = log[c[k]].body
       /\ \A k \in DOMAIN c : Copied(c[k]) /\ c[k] <= replay.end /\ (k > n <=> replay.at <= c[k])
       /\ \A k, m \in DOMAIN c : k < m => c[k] < c[m]
       /\ \A k \in DOMAIN log :
            replay.at <= k /\ k <= replay.end /\ Copied(k) => \E m \in DOMAIN c : c[m] = k
  BY <1>9 DEF Restored, c
<1> HIDE DEF n
<1>13. \A x \in Nat : replay.at <= x /\ Copied(x) => j <= x
  <2>1. \A x \in Nat : Copied(x) => hasReplayRole(log[x])
    BY DEF Copied, hasReplayRole
  <2> QED BY <1>1, <1>2, <2>1
<1>14. \A k \in DOMAIN log' :
         j + 1 <= k /\ k <= replay.end /\ (Copied(k))' => \E m \in DOMAIN c : c[m] = k
  <2>1. replay.end \in DOMAIN log
    BY <1>1 DEF TypeInv, ReplayInLog
  <2>2. \A k \in DOMAIN log' : k <= replay.end => k \in DOMAIN log
    BY <1>2, <1>5, <2>1
  <2>3. \A k \in DOMAIN log : j + 1 <= k => replay.at <= k
    BY <1>2
  <2> QED BY <1>5, <1>12, <2>2, <2>3 DEF Copied
<1>15. \A k \in DOMAIN c :
         /\ c[k] \in DOMAIN log' /\ log'[c[k]].type \in MessageTypes /\ log'[c[k]].op = "append"
         /\ log'[c[k]].body = log[c[k]].body
  BY <1>2, <1>5, <1>6, <1>12 DEF Copied
<1>16. CASE IsBoundary(j) /\ UNCHANGED surface
  <2>1. \A k \in DOMAIN c : replay.at <= c[k] <=> j + 1 <= c[k]
    <3>1. ASSUME NEW k \in DOMAIN c, replay.at <= c[k] PROVE j + 1 <= c[k]
      <4>1. c[k] \in Nat /\ Copied(c[k])
        BY <1>6, <1>12
      <4>2. c[k] # j
        BY <1>16, <4>1 DEF Copied, IsBoundary, MessageTypes, BoundaryTypes
      <4>3. j <= c[k]
        BY <1>13, <3>1, <4>1
      <4> QED BY <1>1, <4>1, <4>2, <4>3
    <3> QED BY <1>2, <1>6, <3>1
  <2>2. \A k \in 1..n : log'[surface[P + k]].body = log[surface[P + k]].body
    <3>1. \A k \in 1..n : P + k \in DOMAIN surface
      BY <1>10 DEF n
    <3> QED BY <1>5, <1>10, <3>1
  <2>3. Len(surface') - P = n
    BY <1>16 DEF n
  <2>4. \A k \in 1..n : k \in DOMAIN c
    BY <1>7, <1>11, <1>12
  <2>5. \A k \in 1..n : log'[surface'[P + k]].body = log'[c[k]].body
    BY <1>12, <1>15, <1>16, <2>2, <2>4
  <2>6. Restored(i, P)'
    BY <1>1, <1>8, <1>12, <1>14, <1>15, <1>16, <2>1, <2>3, <2>5 DEF Restored, Copied
  <2> QED BY <1>16, <2>6
<1>17. CASE Copied(j) /\ AppendRow(e) /\ e.body = log[j].body
  <2>1. /\ DOMAIN surface' = 1..(Len(surface) + 1) /\ Len(surface') = Len(surface) + 1
        /\ \A p \in DOMAIN surface : surface'[p] = surface[p]
        /\ surface'[Len(surface) + 1] = Len(log) + 1
    BY <1>17, RowAdded DEF RowsTyped
  <2>2. PICK m \in DOMAIN c : c[m] = j
    BY <1>1, <1>2, <1>12, <1>17
  <2>3. m > n /\ m \in Nat /\ m <= Len(c)
    BY <1>2, <1>7, <1>12, <2>2
  <2>4. n + 1 \in DOMAIN c /\ n + 1 > n
    BY <1>7, <1>11, <2>3
  <2>5. m = n + 1
    <3>1. ASSUME n + 1 < m PROVE FALSE
      <4>1. c[n + 1] < j /\ replay.at <= c[n + 1] /\ Copied(c[n + 1]) /\ c[n + 1] \in Nat
        BY <1>6, <1>12, <2>2, <2>4, <3>1
      <4>2. j <= c[n + 1]
        BY <1>13, <4>1
      <4> QED BY <1>1, <4>1, <4>2
    <3> QED BY <1>11, <2>3, <3>1
  <2>6. \A k \in DOMAIN c : k > n + 1 <=> j + 1 <= c[k]
    <3>1. ASSUME NEW k \in DOMAIN c, k > n + 1 PROVE j + 1 <= c[k]
      <4>1. c[m] < c[k] /\ c[k] \in Nat
        BY <1>6, <1>12, <2>5, <3>1
      <4> QED BY <1>1, <2>2, <4>1
    <3>2. ASSUME NEW k \in DOMAIN c, j + 1 <= c[k] PROVE k > n + 1
      <4>1. k \in Nat /\ c[k] \in Nat
        BY <1>6, <1>7
      <4>2. replay.at <= c[k] /\ c[k] # j
        BY <1>1, <1>2, <3>2, <4>1
      <4>3. k > n /\ k # m
        BY <1>12, <2>2, <4>2
      <4> QED BY <1>11, <2>5, <4>1, <4>3
    <3> QED BY <3>1, <3>2
  <2>7. Len(surface') - P = n + 1 /\ n + 1 <= Len(c) /\ P \in DOMAIN surface' /\ surface'[P] = i
    BY <1>7, <1>10, <1>12, <2>1, <2>4 DEF n
  <2>8. \A k \in 1..(n + 1) : log'[surface'[P + k]].body = log'[c[k]].body
    <3>1. ASSUME NEW k \in 1..n PROVE log'[surface'[P + k]].body = log'[c[k]].body
      <4>1. P + k \in DOMAIN surface /\ k \in DOMAIN c
        BY <1>7, <1>10, <1>11, <1>12 DEF n
      <4>2. log'[surface'[P + k]] = log[surface[P + k]]
        BY <1>5, <1>10, <2>1, <4>1
      <4> QED BY <1>12, <1>15, <4>1, <4>2
    <3>2. log'[surface'[P + (n + 1)]].body = log'[c[n + 1]].body
      <4>1. P + (n + 1) = Len(surface) + 1
        BY <1>10 DEF n
      <4>2. log'[surface'[P + (n + 1)]].body = log[j].body
        BY <1>5, <1>17, <2>1, <4>1
      <4> QED BY <1>15, <2>2, <2>4, <2>5, <4>2
    <3> QED BY <1>11, <3>1, <3>2
  <2>9. Restored(i, P)'
    BY <1>1, <1>8, <1>12, <1>14, <1>15, <2>6, <2>7, <2>8 DEF Restored, Copied
  <2> QED BY <2>7, <2>9
<1> QED BY <1>4, <1>16, <1>17

\* A redo starts at the tombstone of the tail, with all of its rows left.
LEMMA RedoRowsStart ==
  ASSUME Sound, CitesLogged, TailRestores, RedoStart
  PROVE  RedoRows'
<1> USE DEF Sound
<1>1. agent = "idle" /\ log' = log /\ surface' = surface
  BY Typed DEF RedoStart, RedoTarget
<1>2. PICK i \in RedoTarget : \E range \in turnLogRange(log, log[i].turn) :
        replay' = [tomb |-> i, turn |-> FakeBase + log[i].turn,
                   at |-> range[1], end |-> range[2]]
  BY DEF RedoStart
<1>3. PICK range \in turnLogRange(log, log[i].turn) :
        replay' = [tomb |-> i, turn |-> FakeBase + log[i].turn,
                   at |-> range[1], end |-> range[2]]
  BY <1>2
<1>4. replay'.at = range[1] /\ replay'.end = range[2] /\ replay'.tomb = i
  BY <1>3
<1>5. TombTail /\ TailNode = i /\ i \in DOMAIN log /\ surface # <<>>
  BY <1>1 DEF RedoTarget, isSurfaceTail, findLastUndoTombstone, Tombstones, TailNode, TombTail
<1>6. /\ Len(surface) \in Nat /\ Len(surface) \in DOMAIN surface /\ log \in Seq(Event)
      /\ surface[Len(surface)] = i
  BY <1>5, Typed, TailTyped DEF RowsTyped, LogTyped, TailNode
<1>7. ASSUME Whole(log, log[i].cites) PROVE Restored(i, Len(surface))'
  <2> DEFINE c == log[i].cites
  <2>1. PICK r \in turnLogRange(log, log[i].turn) : CopiesOf(log, c, r)
    BY <1>5, <1>7 DEF TailRestores
  <2>2. r = range
    BY <1>6, RangeUnique
  <2>3. /\ \A k \in DOMAIN c :
             c[k] \in DOMAIN log /\ Copied(c[k]) /\ range[1] <= c[k] /\ c[k] <= range[2]
        /\ \A k, n \in DOMAIN c : k < n => c[k] < c[n]
        /\ \A x \in DOMAIN log :
             range[1] <= x /\ x <= range[2] /\ Copied(x) => \E k \in DOMAIN c : c[k] = x
    BY <2>1, <2>2 DEF CopiesOf, CopyOf, Copied
  <2>4. c \in Seq(Nat)
    <3>1. \A f \in Event : f.cites \in Seq(Nat)
      BY DEF Event
    <3>2. log[i] \in Event
      BY <1>5, <1>6
    <3> QED BY <3>1, <3>2
  <2>5. Len(c) \in Nat /\ \A k \in DOMAIN c : k \in Nat /\ k > 0
    BY <2>4
  <2> DEFINE n == Len(surface') - Len(surface)
  <2>6. n = 0 /\ log'[i].cites = c
    BY <1>1, <1>6
  <2> HIDE DEF c
  <2>7. n <= Len(c) /\ 1..n = {} /\ \A k \in DOMAIN c : k > n
    BY <2>5, <2>6
  <2> HIDE DEF n
  <2> DEFINE P == Len(surface)
  <2>8. /\ surface'[P] = i /\ n <= Len(c)
        /\ \A k \in 1..n : log'[surface'[P + k]].body = log'[c[k]].body
        /\ \A k \in DOMAIN c :
             /\ c[k] \in DOMAIN log' /\ log'[c[k]].type \in MessageTypes /\ log'[c[k]].op = "append"
             /\ c[k] <= replay'.end /\ (k > n <=> replay'.at <= c[k])
        /\ \A k, m \in DOMAIN c : k < m => c[k] < c[m]
        /\ \A k \in DOMAIN log' :
             /\ replay'.at <= k /\ k <= replay'.end
             /\ log'[k].type \in MessageTypes /\ log'[k].op = "append"
             => \E m \in DOMAIN c : c[m] = k
    BY <1>1, <1>4, <1>6, <2>3, <2>7 DEF Copied
  <2>9. Len(surface') = Len(surface)
    BY <1>1
  <2> QED BY <2>6, <2>8, <2>9 DEF Restored, Copied, n
<1>8. Whole(log', log'[i].cites) => \E P \in DOMAIN surface' : Restored(i, P)'
  <2>1. Len(surface) \in Nat
    BY <1>6
  <2>2. PICK P \in DOMAIN surface : P = Len(surface)
    BY <1>6
  <2>3. Whole(log, log[i].cites) => Restored(i, P)'
    BY <1>1, <1>7, <2>2
  <2> QED BY <1>1, <2>3
<1> QED BY <1>1, <1>4, <1>5, <1>8 DEF RedoRows

LEMMA RedoRowsNext ==
  ASSUME Sound, CitesLogged, TailRestores, RedoRows, [Next]_vars
  PROVE  RedoRows'
<1> USE DEF Sound
<1>1. CASE replay' = NoReplay
  BY <1>1 DEF RedoRows
<1>2. CASE RedoStart
  BY <1>2, RedoRowsStart
<1>3. CASE RedoAppend
  BY <1>3, RedoRowsCopied
<1>4. CASE UNCHANGED vars
  BY <1>4 DEF vars, RedoRows, Restored, Whole, Copied
<1>5. ASSUME NEW m \in findAssistantMessages(log), performUndo(m) PROVE replay' = NoReplay
  BY <1>5 DEF performUndo
<1>6. CASE Harness
  BY <1>1, <1>6 DEF Harness, TurnStart, SystemPrompt, TurnEnd, Compact, TurnRow, RewriteRows
<1>7. CASE RedoDone \/ RedoFail \/ RedoFailOpen
  BY <1>1, <1>7 DEF RedoDone, RedoFail, RedoFailOpen
<1> QED BY <1>1, <1>2, <1>3, <1>4, <1>5, <1>6, <1>7 DEF Next, Handlers

LEMMA RedoInvariant == Spec => [](PresentInv /\ TailRestores /\ RedoRows)
<1> DEFINE Inv == PresentInv /\ TailRestores /\ RedoRows
<1>1. Init => Inv
  BY DEF Init, PresentInv, SystemHead, OpenRows, ClosedRows, TombOutside, OpenTomb, TombFirst,
     Inside, TombTail, TailRestores, RedoRows
<1>2. /\ TypeInv /\ TurnsInv /\ TurnOrder /\ RowsInv /\ CitedInv /\ TypeInv' /\ ContentInv
      /\ Inv /\ [Next]_vars
      => Inv'
  <2> SUFFICES ASSUME TypeInv, TurnsInv, TurnOrder, RowsInv, CitedInv, TypeInv', ContentInv,
                      Inv, [Next]_vars
               PROVE  Inv'
    OBVIOUS
  <2>1. Sound
    BY DEF Sound, RowsTyped, LogTyped, TypeInv, TypeOK, CitedInv, TurnsInv
  <2>2. Opening /\ TailRun /\ CitesLogged
    BY DEF ContentInv, CitedInv
  <2> QED BY <2>1, <2>2, PresentNext, TailRestoresNext, RedoRowsNext
<1> QED BY <1>1, <1>2, TypeInvariant, TurnsInvariant, TurnOrderInvariant, RowsInvariant,
           CitedInvariant, ContentInvariant, PTL DEF Spec

\* A redo that completes restores what its undo removed: behind the tombstone
\* come rows with the bodies of the rows it cites, all of them and in their
\* order (buildRedoAppendPlan, pure.ts; index.ts:154-242), unless a rewrite was
\* among them.
THEOREM RedoIsFaithful == Spec => RedoRestores
<1>1. ASSUME TypeInv, CitedInv, RedoRows, replay # NoReplay, NextStep = {}
      PROVE  \/ \E k \in DOMAIN log[replay.tomb].cites :
                  log[log[replay.tomb].cites[k]].op = "replace"
             \/ RestoredBy(replay.tomb)
  <2>1. PICK i \in DOMAIN log :
          /\ replay.tomb = i
          /\ Whole(log, log[i].cites) => \E P \in DOMAIN surface : Restored(i, P)
    BY <1>1 DEF RedoRows
  <2> SUFFICES ASSUME Whole(log, log[i].cites) PROVE RestoredBy(i)
    BY <2>1 DEF Whole
  <2>2. PICK P \in DOMAIN surface : Restored(i, P)
    BY <2>1
  <2> DEFINE c == log[i].cites
             n == Len(surface) - P
             at == CHOOSE p \in DOMAIN surface : surface[p] = i
  <2>3. /\ surface[P] = i /\ n <= Len(c)
        /\ \A k \in 1..n : log[surface[P + k]].body = log[c[k]].body
        /\ \A k \in DOMAIN c :
             c[k] \in DOMAIN log /\ Copied(c[k]) /\ c[k] <= replay.end /\ (k > n <=> replay.at <= c[k])
    BY <2>2 DEF Restored
  <2>4. at \in DOMAIN surface /\ surface[at] = i
    BY <2>3
  <2>5. at = P
    BY <1>1, <2>3, <2>4 DEF CitedInv, NodesDistinct
  <2>6. c \in Seq(Nat)
    <3>1. \A f \in Event : f.cites \in Seq(Nat)
      BY DEF Event
    <3>2. log[i] \in Event
      BY <1>1 DEF TypeInv, TypeOK
    <3> QED BY <3>1, <3>2
  <2>7. /\ Len(c) \in Nat /\ DOMAIN c = 1..Len(c) /\ Len(surface) \in Nat /\ P \in Nat
        /\ P <= Len(surface) /\ DOMAIN log \subseteq Nat
        /\ replay.at \in Nat /\ replay.end \in Nat
    BY <1>1, <2>6 DEF TypeInv, TypeOK
  <2> HIDE DEF c, at
  <2>8. n = Len(c)
    <3> SUFFICES ASSUME n < Len(c) PROVE FALSE
      BY <2>3, <2>7
    <3>1. n + 1 \in DOMAIN c /\ n + 1 > n
      BY <2>7
    <3>2. /\ c[n + 1] \in Nat /\ hasReplayRole(log[c[n + 1]])
          /\ replay.at <= c[n + 1] /\ c[n + 1] <= replay.end
      BY <2>3, <2>7, <3>1 DEF Copied, hasReplayRole
    <3> DEFINE role == {k \in replay.at..replay.end : hasReplayRole(log[k])}
    <3>3. role # {} /\ role \subseteq Nat
      BY <2>7, <3>2
    <3>4. PICK k \in role : \A j \in role : k <= j
      BY <3>3, LeastOf
    <3>5. k \in NextStep
      BY <2>7, <3>4 DEF NextStep
    <3> QED BY <1>1, <3>5
  <2>9. Len(surface) - at = Len(c) /\ \A k \in DOMAIN c : log[surface[at + k]].body = log[c[k]].body
    BY <2>3, <2>5, <2>7, <2>8
  <2> QED BY <2>9 DEF RestoredBy, c, at
<1>2. TypeInv /\ CitedInv /\ RedoRows /\ [Next]_vars =>
        [(replay # NoReplay /\ NextStep = {} /\ replay' = NoReplay)
         => \/ \E k \in DOMAIN log[replay.tomb].cites :
                 log[log[replay.tomb].cites[k]].op = "replace"
            \/ RestoredBy(replay.tomb)]_vars
  BY <1>1
<1> QED BY <1>2, TypeInvariant, CitedInvariant, RedoInvariant, PTL DEF Spec, RedoRestores

-----------------------------------------------------------------------------
(* The client over the host is still the host.                             *)

\* The client has received a prefix of the log, and what it asks to undo is a
\* message of the log.
ClientInv ==
  /\ window \in 0..Len(log) /\ clicks \in Nat
  /\ \A r \in requests :
       r.call = Redo \/ \E m \in findAssistantMessages(log) : r.call = UndoOf(m)

LEMMA LogMoves ==
  ASSUME TypeInv, [Next]_vars
  PROVE  /\ Len(log) \in Nat /\ Len(log') \in Nat /\ Len(log) <= Len(log')
         /\ findAssistantMessages(log) \subseteq findAssistantMessages(log')
<1>1. log \in Seq(Event)
  BY DEF TypeInv, TypeOK
<1>2. log' = log \/ \E e \in Event : log' = Append(log, e)
  BY StepIsMove DEF Move, Plain, Replacement, AppendRow, AppendReplacement, AppendEvent
<1> QED BY <1>1, <1>2 DEF findAssistantMessages

LEMMA ServedMessage ==
  ASSUME ClientInv, NEW r \in requests, r.call.verb = "undo"
  PROVE  r.call.message \in findAssistantMessages(log)
<1>1. CASE r.call = Redo
  BY <1>1 DEF Redo
<1>2. ASSUME NEW m \in findAssistantMessages(log), r.call = UndoOf(m)
      PROVE  r.call.message \in findAssistantMessages(log)
  BY <1>2 DEF UndoOf
<1> QED BY <1>1, <1>2 DEF ClientInv

\* Every step of the composition is a step of the host, or leaves it alone.
LEMMA ClientStep ==
  ASSUME ClientInv, [ClientNext]_<<vars, clientVars>>
  PROVE  [Next]_vars
<1>1. CASE ServeUndo
  <2>1. PICK r \in requests : r.call.verb = "undo" /\ performUndo(r.call.message)
    BY <1>1 DEF ServeUndo
  <2>2. r.call.message \in findAssistantMessages(log)
    BY <2>1, ServedMessage
  <2> QED BY <2>1, <2>2 DEF Next, Handlers
<1>2. CASE ServeRedo
  BY <1>2 DEF ServeRedo, Next, Handlers
<1>3. CASE Harness \/ Replaying
  BY <1>3 DEF Replaying, Next, Handlers
<1>4. CASE Receive \/ ClickUndo \/ ClickRedo \/ Reject \/ UNCHANGED <<vars, clientVars>>
  BY <1>4 DEF Receive, ClickUndo, ClickRedo, Send, Reject
<1> QED BY <1>1, <1>2, <1>3, <1>4 DEF ClientNext

LEMMA ClientInvNext ==
  ASSUME TypeInv, ClientInv, [ClientNext]_<<vars, clientVars>>
  PROVE  ClientInv'
<1>1. /\ Len(log) \in Nat /\ Len(log') \in Nat /\ Len(log) <= Len(log')
      /\ findAssistantMessages(log) \subseteq findAssistantMessages(log')
  BY ClientStep, LogMoves
<1>2. ASSUME window' \in 0..Len(log'), clicks' \in Nat, requests' \subseteq requests
      PROVE  ClientInv'
  BY <1>1, <1>2 DEF ClientInv
<1>3. window \in 0..Len(log') /\ clicks \in Nat
  BY <1>1 DEF ClientInv
<1>4. ASSUME NEW call, call = Redo \/ \E m \in findAssistantMessages(log) : call = UndoOf(m), Send(call)
      PROVE  ClientInv'
  <2>1. window' = window /\ clicks' \in Nat /\ log' = log
    BY <1>3, <1>4 DEF Send, vars
  <2>2. \A r \in requests' : r \in requests \/ r.call = call
    BY <1>4 DEF Send
  <2> QED BY <1>3, <1>4, <2>1, <2>2 DEF ClientInv
<1>5. CASE ClickUndo
  <2>1. PICK m \in DOMAIN View : UndoShown(View, m) /\ Send(UndoOf(m))
    BY <1>5 DEF ClickUndo
  <2>2. /\ log \in Seq(Event) /\ window \in 0..Len(log)
        /\ m \in findAssistantMessages(View)
    BY <2>1 DEF TypeInv, TypeOK, ClientInv, UndoShown
  <2>3. m \in findAssistantMessages(log)
    BY <2>2 DEF findAssistantMessages, View
  <2> QED BY <1>4, <2>1, <2>3
<1>6. CASE ClickRedo
  BY <1>4, <1>6 DEF ClickRedo
<1>7. CASE Receive
  BY <1>1, <1>2, <1>3, <1>7 DEF Receive, vars
<1>8. CASE ServeUndo \/ ServeRedo \/ Reject
  BY <1>2, <1>3, <1>8 DEF ServeUndo, ServeRedo, Reject
<1>9. CASE (Harness /\ UNCHANGED clientVars) \/ Replaying \/ UNCHANGED <<vars, clientVars>>
  BY <1>2, <1>3, <1>9 DEF Replaying, clientVars
<1> QED BY <1>5, <1>6, <1>7, <1>8, <1>9 DEF ClientNext

\* A client that lags behind the log, and requests that reach the host when
\* the session has moved on, take the session nowhere the host alone could not
\* take it: the composition implements Undo (client/undo-engine.ts over
\* index.ts), so every theorem about Undo is one about the composition.
THEOREM ClientIsUndo == ClientSpec => Spec
<1>1. ClientInit => Init /\ TypeInv /\ ClientInv
  <2> SUFFICES ASSUME ClientInit PROVE TypeInv /\ ClientInv
    BY DEF ClientInit
  <2>1. TypeInv
    BY TypeInit DEF ClientInit
  <2> QED BY <2>1 DEF ClientInit, Init, ClientInv
<1>2. TypeInv /\ ClientInv /\ [ClientNext]_<<vars, clientVars>> =>
        [Next]_vars /\ TypeInv' /\ ClientInv'
  BY ClientStep, TypeNext, ClientInvNext
<1> QED BY <1>1, <1>2, PTL DEF ClientSpec, Spec

-----------------------------------------------------------------------------
(* While the session rejects no append, every turn has a row.              *)

NoFault == budget["fault"] = MaxFaults

\* A row that a redo would copy comes after the last boundary.
HasRow == \E j \in DOMAIN log : Copied(j) /\ \A b \in DOMAIN log : IsBoundary(b) => b < j

Filled == \A s, x \in Nat : Pair(s, x) => \E k \in DOMAIN log : s < k /\ k < x /\ Copied(k)

Started == agent = "running" /\ budget["rows"] < MaxRows => HasRow

\* A redo has rows left to copy, or has copied one.
RestFilled ==
  replay # NoReplay =>
    \/ \E j \in replay.at..replay.end : Copied(j)
    \/ ~TombTail /\ (replay.at <= replay.end => HasRow)

\* A tombstone that waits for its redo is the last thing that happened.
TombLast ==
  agent = "idle" /\ replay = NoReplay /\ TombTail =>
    \A b \in DOMAIN log : IsBoundary(b) => b < TailNode

FillInv == Filled /\ Started /\ RestFilled /\ TombLast

LEMMA FilledKept ==
  ASSUME Sound, Filled, NEW e \in Event, AppendEvent(e), e.type # "turn/end" \/ HasRow
  PROVE  Filled'
<1>1. /\ Len(log) \in Nat /\ DOMAIN log = 1..Len(log) /\ DOMAIN log' = 1..(Len(log) + 1)
      /\ \A i \in DOMAIN log : log'[i] = log[i]
      /\ log \in Seq(Event)
  BY Typed, AppendedLog
<1>2. ASSUME NEW s \in Nat, NEW x \in Nat, Pair(s, x)'
      PROVE  \E k \in DOMAIN log : s < k /\ k < x /\ Copied(k)
  <2>1. Pair(s, x) \/ (x = Len(log) + 1 /\ e.type = "turn/end" /\ LastStart(s))
    BY <1>1, <1>2, PairsGrow
  <2>2. CASE Pair(s, x)
    BY <2>2 DEF Filled
  <2>3. CASE x = Len(log) + 1 /\ e.type = "turn/end" /\ LastStart(s)
    <3>1. PICK j \in DOMAIN log : Copied(j) /\ \A b \in DOMAIN log : IsBoundary(b) => b < j
      BY <2>3 DEF HasRow
    <3>2. s < j
      BY <2>3, <3>1 DEF LastStart, IsBoundary, BoundaryTypes
    <3> QED BY <1>1, <2>3, <3>1, <3>2
  <2> QED BY <2>1, <2>2, <2>3
<1>3. \A k \in DOMAIN log : k \in DOMAIN log' /\ (Copied(k) => log'[k].type \in MessageTypes /\ log'[k].op = "append")
  BY <1>1 DEF Copied
<1> QED BY <1>2, <1>3 DEF Filled, Copied

LEMMA HasRowKept ==
  ASSUME Sound, NEW e \in Event, AppendEvent(e), e.type \notin BoundaryTypes, HasRow \/ CopyOf(e)
  PROVE  HasRow'
<1>1. /\ Len(log) \in Nat /\ DOMAIN log = 1..Len(log) /\ DOMAIN log' = 1..(Len(log) + 1)
      /\ \A i \in DOMAIN log : log'[i] = log[i]
      /\ log'[Len(log) + 1] = e
  BY Typed, AppendedLog
<1>2. \A b \in DOMAIN log' :
        log'[b].type \in BoundaryTypes => b \in DOMAIN log /\ IsBoundary(b) /\ b < Len(log) + 1
  BY <1>1 DEF IsBoundary
<1>3. CASE CopyOf(e)
  <2>1. Len(log) + 1 \in DOMAIN log'
    BY <1>1
  <2>2. PICK j \in DOMAIN log' : j = Len(log) + 1
    BY <2>1
  <2> QED BY <1>1, <1>2, <1>3, <2>2 DEF HasRow, Copied, CopyOf, IsBoundary
<1>4. CASE HasRow
  <2>1. PICK j \in DOMAIN log : Copied(j) /\ \A b \in DOMAIN log : IsBoundary(b) => b < j
    BY <1>4 DEF HasRow
  <2>2. j \in DOMAIN log' /\ log'[j] = log[j]
    BY <1>1
  <2> QED BY <1>2, <2>1, <2>2 DEF HasRow, Copied, IsBoundary
<1> QED BY <1>3, <1>4

\* A replay that reads nothing else has no row left.
LEMMA NothingLeft ==
  ASSUME TypeInv, replay # NoReplay, NextStep = {}
  PROVE  \A j \in replay.at..replay.end : ~hasReplayRole(log[j])
<1> SUFFICES ASSUME NEW j \in replay.at..replay.end, hasReplayRole(log[j]) PROVE FALSE
  OBVIOUS
<1>1. replay.at \in Nat /\ replay.end \in Nat
  BY DEF TypeInv, TypeOK
<1> DEFINE role == {k \in replay.at..replay.end : hasReplayRole(log[k])}
<1>2. role # {} /\ role \subseteq Nat
  BY <1>1
<1>3. PICK k \in role : \A i \in role : k <= i
  BY <1>2, LeastOf
<1>4. k \in NextStep
  BY <1>1, <1>3 DEF NextStep
<1> QED BY <1>4

\* A redo that completes has put a row behind its tombstone.
LEMMA DoneTail ==
  ASSUME TypeInv, FillInv, RedoDone
  PROVE  ~TombTail
<1>1. replay # NoReplay /\ NextStep = {}
  BY DEF RedoDone
<1>2. \A j \in replay.at..replay.end : ~Copied(j)
  BY <1>1, NothingLeft DEF Copied, hasReplayRole
<1> QED BY <1>1, <1>2 DEF FillInv, RestFilled

LEMMA FillCopied ==
  ASSUME Sound, PresentInv, FillInv, RedoAppend
  PROVE  Filled' /\ RestFilled'
<1> USE DEF Sound
<1>1. PICK i \in replay.at..replay.end :
           /\ i \in DOMAIN log /\ i \in Nat /\ hasReplayRole(log[i])
           /\ \A j \in replay.at..(i - 1) : ~hasReplayRole(log[j])
           /\ replay'.at = i + 1 /\ replay'.end = replay.end
           /\ replay # NoReplay
           /\ \/ IsBoundary(i) /\ AppendEvent(Boundary(log[i].type, replay.turn)) /\ UNCHANGED surface
              \/ CopiesRow(i)
  BY CopiedStep
<1>2. /\ Len(log) \in Nat /\ DOMAIN log = 1..Len(log) /\ log \in Seq(Event)
      /\ replay.at \in Nat /\ replay.end \in Nat /\ replay.turn \in Nat
      /\ replay.at <= i /\ i <= replay.end /\ replay.at <= replay.end
      /\ replay.end \in DOMAIN log
  <2>1. replay.end \in DOMAIN log
    BY <1>1 DEF TypeInv, ReplayInLog
  <2>2. /\ Len(log) \in Nat /\ DOMAIN log = 1..Len(log) /\ log \in Seq(Event)
        /\ replay.at \in Nat /\ replay.end \in Nat /\ replay.turn \in Nat
    BY Typed
  <2> QED BY <1>1, <2>1, <2>2
<1>3. RedoOrder
  BY <1>1 DEF TurnOrder
<1>4. CASE CopiesRow(i)
  <2>1. PICK e \in Event : e.op = "append" /\ e.type = log[i].type /\ AppendRow(e)
    BY <1>4 DEF CopiesRow
  <2>2. CopyOf(e) /\ e.type \notin BoundaryTypes /\ AppendEvent(e) /\ e.type # "turn/end"
    BY <1>4, <2>1 DEF CopiesRow, Copied, CopyOf, AppendRow, MessageTypes, BoundaryTypes
  <2>3. Filled'
    BY <2>2, FilledKept DEF FillInv
  <2>4. HasRow'
    BY <2>2, HasRowKept
  <2>5. ~TombTail'
    <3>1. TailNode' = Len(log) + 1
      BY <2>1, RowAdded DEF RowsTyped
    <3>2. log'[Len(log) + 1] = e
      BY <1>2, <2>2, AppendedLog
    <3> QED BY <2>1, <3>1, <3>2 DEF TombTail, isUndoTombstone
  <2> QED BY <2>3, <2>4, <2>5 DEF RestFilled
<1>5. CASE IsBoundary(i) /\ AppendEvent(Boundary(log[i].type, replay.turn)) /\ UNCHANGED surface
  <2> DEFINE e == Boundary(log[i].type, replay.turn)
  <2>1. e \in Event /\ e.type = log[i].type /\ AppendEvent(e)
    BY <1>2, <1>5, BoundaryFields DEF IsBoundary
  <2> HIDE DEF e
  <2>2. /\ DOMAIN log' = 1..(Len(log) + 1)
        /\ \A j \in DOMAIN log : log'[j] = log[j]
    BY <1>2, <2>1, AppendedLog
  <2>3. CASE \E j \in replay.at..replay.end : Copied(j)
    <3>1. PICK j \in replay.at..replay.end : Copied(j)
      BY <2>3
    <3>2. hasReplayRole(log[j]) /\ j # i
      BY <1>5, <3>1 DEF Copied, hasReplayRole, IsBoundary, MessageTypes, BoundaryTypes
    <3>3. j \in Nat /\ i < j /\ j <= replay.end
      <4>1. ~(j \in replay.at..(i - 1))
        BY <1>1, <3>2
      <4> QED BY <1>1, <1>2, <3>1, <3>2, <4>1
    <3>4. j \in replay'.at..replay'.end /\ j \in DOMAIN log /\ log'[j] = log[j]
      BY <1>1, <1>2, <2>2, <3>3
    <3>5. e.type # "turn/end"
      <4>1. CASE log[i].type = "turn/end"
        <5>1. i # replay.end
          BY <3>3
        <5>2. Silent(replay.at + 1, replay.end)
          BY <1>2, <1>3 DEF RedoOrder, Silent
        <5>3. i = replay.at
          BY <1>1, <1>2, <1>5, <5>1, <5>2 DEF Silent
        <5>4. ~Silent(replay.at, replay.end)
          BY <1>1, <1>2, <1>5, <5>1, <5>3 DEF Silent
        <5> QED BY <1>2, <1>3, <4>1, <5>3, <5>4 DEF RedoOrder
      <4> QED BY <2>1, <4>1
    <3>6. Filled'
      BY <2>1, <3>5, FilledKept DEF FillInv
    <3>7. RestFilled'
      BY <3>1, <3>4 DEF RestFilled, Copied
    <3> QED BY <3>6, <3>7
  <2>4. CASE ~TombTail /\ HasRow
    <3>1. Filled'
      BY <2>1, <2>4, FilledKept DEF FillInv
    <3>2. ~TombTail'
      <4>1. surface # <<>> => TailNode \in DOMAIN log
        BY Typed
      <4>2. surface' = surface /\ TailNode' = TailNode
        BY <1>5 DEF TailNode
      <4> QED BY <2>2, <2>4, <4>1, <4>2 DEF TombTail
    <3>3. i = replay.end
      <4>1. Silent(replay.at, replay.end)
        BY <1>1, <1>2, <2>4 DEF PresentInv, TombFirst, Inside
      <4> QED BY <1>1, <1>2, <1>5, <4>1 DEF Silent
    <3>4. ~(replay'.at <= replay'.end)
      BY <1>1, <1>2, <3>3
    <3> QED BY <3>1, <3>2, <3>4 DEF RestFilled
  <2> QED BY <1>1, <1>2, <2>3, <2>4 DEF FillInv, RestFilled
<1> QED BY <1>1, <1>4, <1>5

LEMMA FillNext ==
  ASSUME Sound, PresentInv, FillInv, NoFault, NoFault', [Next]_vars
  PROVE  FillInv'
<1> USE DEF Sound
<1>0. /\ budget \in [Budgets -> Nat] /\ "rows" \in Budgets /\ "fault" \in Budgets
      /\ turn \in Nat /\ replay.turn \in Nat /\ agent \in {"idle", "running"} /\ MaxFaults \in Nat
      /\ Len(log) \in Nat /\ DOMAIN log = 1..Len(log) /\ log \in Seq(Event)
      /\ surface # <<>> => TailNode \in DOMAIN log
  BY Typed, BoundsAssumption DEF TypeInv, TypeOK, Budgets
<1>1. CASE TurnStart
  <2>1. /\ AppendEvent(Boundary("turn/start", turn + 1)) /\ turn + 1 \in Nat /\ "rows" \in DOMAIN budget
        /\ agent' = "running" /\ replay' = NoReplay /\ budget'["rows"] = MaxRows
    BY <1>0, <1>1 DEF TurnStart
  <2>2. Filled'
    <3>1. \E e \in Event : AppendEvent(e) /\ e.type # "turn/end"
      BY <2>1, BoundaryFields DEF BoundaryTypes
    <3> QED BY <3>1, FilledKept DEF FillInv
  <2>3. Started'
    <3>1. MaxRows \in Nat
      BY BoundsAssumption
    <3> QED BY <2>1, <3>1 DEF Started
  <2> QED BY <2>1, <2>2, <2>3 DEF FillInv, RestFilled, TombLast
<1>2. CASE TurnEnd
  <2>1. /\ AppendEvent(Boundary("turn/end", turn)) /\ surface' = surface
        /\ agent = "running" /\ agent' = "idle" /\ replay' = NoReplay /\ budget["rows"] < MaxRows
    BY <1>2 DEF TurnEnd
  <2>2. Filled'
    <3>1. HasRow
      BY <2>1 DEF FillInv, Started
    <3>2. \E e \in Event : AppendEvent(e)
      BY <1>0, <2>1, BoundaryFields DEF BoundaryTypes
    <3> QED BY <3>1, <3>2, FilledKept DEF FillInv
  <2>3. ~TombTail'
    <3>1. AddsBoundary
      BY <1>0, <2>1 DEF AddsBoundary, BoundaryTypes
    <3>2. ~TombTail
      BY <2>1 DEF TurnOrder
    <3> QED BY <3>1, <3>2, TombTailKept DEF RowsInv
  <2> QED BY <2>1, <2>2, <2>3 DEF FillInv, Started, RestFilled, TombLast
<1>3. CASE SystemPrompt
  <2>1. AddsRow /\ agent = "running" /\ UNCHANGED <<agent, turn, replay>> /\ replay = NoReplay
    BY <1>3, AddedRow
  <2>2. PICK e \in Event : AppendEvent(e) /\ e.type \notin BoundaryTypes /\ e.type # "turn/end"
    BY <2>1 DEF AddsRow, AppendRow, MessageTypes, BoundaryTypes
  <2>3. budget' = budget
    BY <1>3 DEF SystemPrompt
  <2>4. Filled' /\ (HasRow => HasRow')
    BY <2>2, FilledKept, HasRowKept DEF FillInv
  <2> QED BY <2>1, <2>3, <2>4 DEF FillInv, Started, RestFilled, TombLast
<1>4. ASSUME NEW type \in MessageTypes, TurnRow(type) PROVE FillInv'
  <2>1. agent = "running" /\ UNCHANGED <<agent, turn, replay>> /\ replay = NoReplay
    BY <1>4 DEF TurnRow
  <2> DEFINE e == Row(type, IF type = "user/message" THEN 0 ELSE turn, StepOf(type), Len(log) + 1)
  <2>2. AppendRow(e) /\ AppendEvent(e) /\ CopyOf(e) /\ e.type \notin BoundaryTypes /\ e.type # "turn/end"
    BY <1>4 DEF TurnRow, Row, AppendRow, CopyOf, MessageTypes, BoundaryTypes
  <2> HIDE DEF e
  <2>3. e \in Event
    BY <2>2, AppendedEvent
  <2>4. Filled' /\ HasRow'
    BY <2>2, <2>3, FilledKept, HasRowKept DEF FillInv
  <2> QED BY <2>1, <2>4 DEF FillInv, Started, RestFilled, TombLast
<1>5. ASSUME NEW type \in {"user/message", "tool/result"},
             NEW lo \in DOMAIN surface, NEW hi \in DOMAIN surface, RewriteRows(type, lo, hi)
      PROVE  FillInv'
  <2>1. agent = "running" /\ UNCHANGED <<agent, turn, replay>> /\ replay = NoReplay
    BY <1>5 DEF RewriteRows
  <2>2. PICK e \in Event : AppendEvent(e) /\ e.type \notin BoundaryTypes /\ e.type # "turn/end"
    BY <1>5, Rewritten DEF Replaces, AppendReplacement, MessageTypes, BoundaryTypes
  <2>3. budget'["rows"] = budget["rows"]
    BY <1>0, <1>5 DEF RewriteRows, Spend, Budgets
  <2>4. Filled' /\ (HasRow => HasRow')
    BY <2>2, FilledKept, HasRowKept DEF FillInv
  <2> QED BY <2>1, <2>3, <2>4 DEF FillInv, Started, RestFilled, TombLast
<1>6. ASSUME agent = "idle", UNCHANGED <<agent, turn, replay>>, replay = NoReplay,
             NEW e \in Event, AppendEvent(e), e.type \notin BoundaryTypes,
             TombTail' => TailNode' = Len(log) + 1 \/ TombKept
      PROVE  FillInv'
  <2>1. Filled'
    BY <1>6, FilledKept DEF FillInv, BoundaryTypes
  <2>2. TombLast'
    <3> SUFFICES ASSUME TombTail' PROVE \A b \in DOMAIN log' : log'[b].type \in BoundaryTypes => b < TailNode'
      BY DEF TombLast, IsBoundary
    <3>1. /\ DOMAIN log' = 1..(Len(log) + 1) /\ log'[Len(log) + 1] = e
          /\ \A i \in DOMAIN log : log'[i] = log[i]
      BY <1>0, <1>6, AppendedLog
    <3>2. \A b \in DOMAIN log' :
            log'[b].type \in BoundaryTypes => b \in DOMAIN log /\ IsBoundary(b) /\ b < Len(log) + 1
      BY <1>0, <1>6, <3>1 DEF IsBoundary
    <3>3. CASE TailNode' = Len(log) + 1
      BY <3>2, <3>3
    <3>4. CASE TombKept
      BY <1>6, <3>2, <3>4 DEF TombKept, FillInv, TombLast
    <3> QED BY <1>6, <3>3, <3>4
  <2> QED BY <1>6, <2>1, <2>2 DEF FillInv, Started, RestFilled
<1>7. CASE Compact
  <2>1. agent = "idle" /\ UNCHANGED <<agent, turn, replay>> /\ replay = NoReplay
    BY <1>7, Compacted
  <2>2. PICK e \in Event, lo \in DOMAIN surface : Replaces(e, lo, Len(surface))
    BY <1>7, Compacted
  <2>3. /\ AppendReplacement(e, lo, Len(surface)) /\ AppendEvent(e) /\ e.type \notin BoundaryTypes
        /\ lo <= Len(surface) /\ Len(surface) \in DOMAIN surface
    BY <2>2 DEF Replaces, AppendReplacement, MessageTypes, BoundaryTypes
  <2>4. TailNode' = Len(log) + 1
    BY <2>3, RowsReplaced DEF RowsTyped
  <2> QED BY <1>6, <2>1, <2>3, <2>4
<1>8. ASSUME NEW m \in findAssistantMessages(log), performUndo(m) PROVE FillInv'
  <2>1. agent = "idle" /\ UNCHANGED <<agent, turn, replay>> /\ replay = NoReplay
    BY <1>8, Undone
  <2>2. PICK range \in turnLogRange(log, log[m].turn) :
          \E run \in trailingTurnRun(surface, TurnSeqs(range)) : \E e \in Event :
            Replaces(e, run[1], run[2])
    BY <1>8, Undone
  <2>3. PICK run \in trailingTurnRun(surface, TurnSeqs(range)) : \E e \in Event :
          Replaces(e, run[1], run[2])
    BY <2>2
  <2>4. PICK e \in Event : Replaces(e, run[1], run[2])
    BY <2>3
  <2>5. /\ AppendReplacement(e, run[1], run[2]) /\ AppendEvent(e) /\ e.type \notin BoundaryTypes
        /\ run[1] <= run[2] /\ run[1] \in DOMAIN surface /\ run[2] \in DOMAIN surface
    BY <2>4 DEF Replaces, AppendReplacement, MessageTypes, BoundaryTypes
  <2>6. TombTail' => TailNode' = Len(log) + 1 \/ TombKept
    <3>1. \A i \in DOMAIN log : log'[i] = log[i]
      BY <1>0, <2>5, AppendedLog
    <3>2. TailNode' = Len(log) + 1 \/ (TailNode' = TailNode /\ surface # <<>>)
      BY <2>5, RowsReplaced DEF RowsTyped, LogTyped
    <3> QED BY <1>0, <3>1, <3>2 DEF TombKept, TombTail
  <2> QED BY <1>6, <2>1, <2>5, <2>6
<1>9. CASE RedoStart
  <2>1. /\ log' = log /\ surface' = surface /\ agent' = agent /\ agent = "idle"
    BY <1>0, <1>9 DEF RedoStart, RedoTarget
  <2>2. PICK i \in RedoTarget : \E range \in turnLogRange(log, log[i].turn) :
          replay' = [tomb |-> i, turn |-> FakeBase + log[i].turn,
                     at |-> range[1], end |-> range[2]]
    BY <1>9 DEF RedoStart
  <2>3. PICK range \in turnLogRange(log, log[i].turn) :
          replay' = [tomb |-> i, turn |-> FakeBase + log[i].turn,
                     at |-> range[1], end |-> range[2]]
    BY <2>2
  <2>4. replay'.at = range[1] /\ replay'.end = range[2] /\ log[i].turn \in Nat
    <3>1. i \in DOMAIN log
      BY <2>1 DEF RedoTarget, findLastUndoTombstone, Tombstones
    <3>2. \A f \in Event : f.turn \in Nat
      BY DEF Event
    <3>3. log[i] \in Event
      BY <1>0, <3>1
    <3> QED BY <2>3, <3>2, <3>3
  <2>5. Pair(range[1], range[2]) /\ range[1] \in Nat /\ range[2] \in Nat
    BY <1>0, <2>4, RangeFields DEF TurnOrder, Pair
  <2>6. PICK k \in DOMAIN log : range[1] < k /\ k < range[2] /\ Copied(k)
    BY <2>5 DEF FillInv, Filled
  <2>7. k \in replay'.at..replay'.end /\ log'[k] = log[k]
    BY <1>0, <2>1, <2>4, <2>5, <2>6
  <2>8. RestFilled'
    BY <2>6, <2>7 DEF RestFilled, Copied
  <2>9. Filled'
    BY <2>1 DEF FillInv, Filled, Pair, Copied, Silent, IsBoundary
  <2>10. replay' # NoReplay
    <3>1. range[1] < range[2]
      BY <2>5 DEF Pair
    <3>2. replay'.end # 0
      BY <2>4, <2>5, <3>1
    <3> QED BY <3>2 DEF NoReplay
  <2> QED BY <2>1, <2>8, <2>9, <2>10 DEF FillInv, Started, TombLast
<1>10. CASE RedoAppend
  <2>1. Filled' /\ RestFilled'
    BY <1>10, FillCopied
  <2>2. replay' # NoReplay /\ agent' = "idle"
    <3>1. replay' # NoReplay /\ agent' = agent
      BY <1>10, CopiedStep
    <3>2. agent = "idle"
      BY <1>10 DEF RedoAppend, TurnOrder, RedoOrder
    <3> QED BY <3>1, <3>2
  <2> QED BY <2>1, <2>2 DEF FillInv, Started, TombLast
<1>11. CASE RedoDone
  <2>1. log' = log /\ surface' = surface /\ agent' = agent /\ replay' = NoReplay /\ replay # NoReplay
        /\ NextStep = {} /\ agent = "idle"
    BY <1>11 DEF RedoDone, TurnOrder, RedoOrder
  <2>2. ~TombTail
    BY <1>11, DoneTail
  <2>3. Filled' /\ ~TombTail'
    BY <2>1, <2>2 DEF FillInv, Filled, Pair, Copied, Silent, IsBoundary, TombTail, TailNode
  <2> QED BY <2>1, <2>3 DEF FillInv, Started, RestFilled, TombLast
<1>12. CASE RedoFail \/ RedoFailOpen
  <2>1. budget'["fault"] # budget["fault"]
    BY <1>0, <1>12 DEF RedoFail, RedoFailOpen, Spend
  <2> QED BY <2>1 DEF NoFault
<1>13. CASE UNCHANGED vars
  BY <1>13 DEF vars, FillInv, Filled, Started, RestFilled, TombLast, HasRow, Pair, Copied, Silent,
     IsBoundary, TombTail, TailNode
<1> QED BY <1>1, <1>2, <1>3, <1>4, <1>5, <1>7, <1>8, <1>9, <1>10, <1>11, <1>12, <1>13
        DEF Next, Harness, Handlers

LEMMA NoFaultYet ==
  ASSUME TypeInv, budget["fault"] <= MaxFaults, NoFault', [Next]_vars
  PROVE  NoFault
<1>1. budget["fault"] \in Nat /\ MaxFaults \in Nat
  BY BoundsAssumption DEF TypeInv, TypeOK, Budgets
<1> QED BY <1>1, FaultsFall DEF NoFault

LEMMA FillInvariant == Spec => [](NoFault => FillInv)
<1>1. Init => FillInv
  BY DEF Init, FillInv, Filled, Started, RestFilled, TombLast, TombTail, Pair
<1>2. /\ TypeInv /\ TurnsInv /\ TurnOrder /\ RowsInv /\ CitedInv /\ TypeInv' /\ PresentInv
      /\ (NoFault => FillInv) /\ [Next]_vars
      => (NoFault => FillInv)'
  <2> SUFFICES ASSUME TypeInv, TurnsInv, TurnOrder, RowsInv, CitedInv, TypeInv', PresentInv,
                      NoFault => FillInv, [Next]_vars, NoFault'
               PROVE  FillInv'
    OBVIOUS
  <2>1. Sound
    BY DEF Sound, RowsTyped, LogTyped, TypeInv, TypeOK, CitedInv, TurnsInv
  <2>2. NoFault
    BY NoFaultYet DEF TurnsInv
  <2> QED BY <2>1, <2>2, FillNext
<1> QED BY <1>1, <1>2, TypeInvariant, TurnsInvariant, TurnOrderInvariant, RowsInvariant,
           CitedInvariant, RedoInvariant, PTL DEF Spec

-----------------------------------------------------------------------------
(* The redo that the host would accept is offered.                         *)

\* While no append was rejected, an up-to-date client offers every redo the
\* host would accept, in the tail row of the undone turn: no fake turn opens
\* behind a tombstone that is still the surface tail (undo-state.ts,
\* RedoAction.tsx; index.ts:154-205).
THEOREM RedoIsThere == ClientSpec => [](NoFault => RedoIsOffered)
<1>1. ASSUME TypeInv, FillInv, UpToDate, NEW i \in RedoTarget,
             NEW m \in findAssistantMessages(log), log[m].turn = log[i].turn
      PROVE  RedoShown(View, m)
  <2>1. View = log
    BY <1>1 DEF View, UpToDate, TypeInv, TypeOK
  <2>2. i \in Tombstones(log) /\ surface # <<>> /\ TailNode = i
    BY <1>1 DEF RedoTarget, findLastUndoTombstone, isSurfaceTail, TailNode
  <2>3. TombTail
    BY <2>2 DEF TombTail, Tombstones
  <2>4. \A b \in DOMAIN log : IsBoundary(b) => b < i
    BY <1>1, <2>2, <2>3 DEF UpToDate, FillInv, TombLast
  <2>5. ~redone(log, i)
    <3> SUFFICES ASSUME NEW s \in Starts(log, FakeBase + log[i].turn), s > i PROVE FALSE
      BY DEF redone
    <3>1. s \in DOMAIN log /\ i \in DOMAIN log /\ IsBoundary(s)
      BY <2>2 DEF Starts, IsBoundary, BoundaryTypes, Tombstones
    <3>2. s \in Nat /\ i \in Nat
      BY <1>1, <3>1 DEF TypeInv, TypeOK
    <3> QED BY <2>4, <3>1, <3>2
  <2> QED BY <1>1, <2>1, <2>2, <2>5 DEF RedoShown, undoneTurns
<1>2. TypeInv /\ (NoFault => FillInv) => (NoFault => RedoIsOffered)
  BY <1>1 DEF RedoIsOffered
<1> QED BY <1>2, ClientIsUndo, TypeInvariant, FillInvariant, PTL

-----------------------------------------------------------------------------
(* The tail message can be undone.                                         *)

IsStart(i) == log[i].type = "turn/start"

\* No turn is started twice, ...
StartedOnce == \A i, j \in DOMAIN log : IsStart(i) /\ IsStart(j) /\ log[i].turn = log[j].turn => i = j

\* ... the fake turn of a turn whose redo is still to come not even once.
TombUnstarted ==
  TombTail /\ (replay = NoReplay \/ (replay.at <= replay.end /\ IsStart(replay.at))) =>
    Starts(log, FakeBase + log[TailNode].turn) = {}

OnceInv == StartedOnce /\ TombUnstarted

\* Started turns are the agent's, or fake turns no new redo uses.
RealTurns ==
  turn <= MaxTurns /\ \A i \in DOMAIN log : IsStart(i) => log[i].turn <= turn \/ Spent(log[i].turn)

\* An assistant message is behind the start of its turn.
RowTurn ==
  \A m \in findAssistantMessages(log) : \E s \in DOMAIN log :
    s < m /\ IsStart(s) /\ log[s].turn = log[m].turn /\ Silent(s + 1, m)

\* Every turn/start is an old one.
OldStarts == \A i \in DOMAIN log' : log'[i].type = "turn/start" => i \in DOMAIN log

LEMMA QuietStarts ==
  ASSUME log \in Seq(Event), log' = log \/ \E e \in Event : AppendEvent(e) /\ e.type # "turn/start"
  PROVE  OldStarts /\ \A i \in DOMAIN log : i \in DOMAIN log' /\ log'[i] = log[i]
<1>1. CASE log' = log
  BY <1>1 DEF OldStarts
<1>2. ASSUME NEW e \in Event, AppendEvent(e), e.type # "turn/start"
      PROVE  OldStarts /\ \A i \in DOMAIN log : i \in DOMAIN log' /\ log'[i] = log[i]
  <2>1. /\ Len(log) \in Nat /\ DOMAIN log = 1..Len(log) /\ DOMAIN log' = 1..(Len(log) + 1)
        /\ \A i \in DOMAIN log : log'[i] = log[i]
        /\ log'[Len(log) + 1] = e
    BY <1>2, AppendedLog
  <2> QED BY <1>2, <2>1 DEF OldStarts
<1> QED BY <1>1, <1>2

\* A redo starts its fake turn first, while its tombstone is the tail.
RedoOpens ==
  /\ replay # NoReplay /\ replay.at <= replay.end /\ IsStart(replay.at) /\ ~Inside
  /\ AppendEvent(Boundary("turn/start", replay.turn)) /\ surface' = surface

LEMMA RedoStarts ==
  ASSUME Sound, RedoAppend
  PROVE  /\ OldStarts \/ RedoOpens
         /\ replay' # NoReplay
         /\ ~(replay'.at <= replay'.end /\ log'[replay'.at].type = "turn/start")
<1> USE DEF Sound
<1>1. PICK i \in replay.at..replay.end :
           /\ i \in DOMAIN log /\ i \in Nat /\ hasReplayRole(log[i])
           /\ \A j \in replay.at..(i - 1) : ~hasReplayRole(log[j])
           /\ replay'.at = i + 1 /\ replay'.end = replay.end
           /\ replay # NoReplay /\ replay' # NoReplay
           /\ \/ IsBoundary(i) /\ AppendEvent(Boundary(log[i].type, replay.turn)) /\ UNCHANGED surface
              \/ CopiesRow(i)
  BY CopiedStep
<1>2. /\ Len(log) \in Nat /\ DOMAIN log = 1..Len(log) /\ log \in Seq(Event)
      /\ replay.at \in Nat /\ replay.end \in Nat /\ replay.turn \in Nat
      /\ replay.at <= i /\ i <= replay.end /\ replay.at <= replay.end
      /\ replay.end \in DOMAIN log
  <2>1. replay.end \in DOMAIN log
    BY <1>1 DEF TypeInv, ReplayInLog
  <2>2. /\ Len(log) \in Nat /\ DOMAIN log = 1..Len(log) /\ log \in Seq(Event)
        /\ replay.at \in Nat /\ replay.end \in Nat /\ replay.turn \in Nat
    BY Typed
  <2> QED BY <1>1, <2>1, <2>2
<1>3. RedoOrder
  BY <1>1 DEF TurnOrder
<1>4. log[replay.end].type = "turn/end" /\ Silent(replay.at + 1, replay.end)
  BY <1>2, <1>3 DEF RedoOrder, Silent
<1>5. \A j \in DOMAIN log' : j \in DOMAIN log => log'[j] = log[j]
  <2>1. CASE \E e \in Event : AppendEvent(e)
    BY <1>2, <2>1, AppendedLog
  <2>2. CASE IsBoundary(i) /\ AppendEvent(Boundary(log[i].type, replay.turn))
    BY <1>2, <2>1, <2>2, BoundaryFields DEF IsBoundary
  <2>3. CASE CopiesRow(i)
    BY <2>1, <2>3 DEF CopiesRow, AppendRow
  <2> QED BY <1>1, <2>2, <2>3
<1>6. ASSUME i + 1 <= replay.end PROVE log'[i + 1].type # "turn/start"
  <2>1. i + 1 \in DOMAIN log
    BY <1>2, <1>6
  <2>2. i + 1 = replay.end \/ ~IsBoundary(i + 1)
    BY <1>2, <1>4, <1>6, <2>1 DEF Silent
  <2>3. log[i + 1].type # "turn/start"
    BY <1>4, <2>2 DEF IsBoundary, BoundaryTypes
  <2>4. i + 1 \in DOMAIN log'
    <3>1. CASE \E e \in Event : AppendEvent(e)
      BY <1>2, <2>1, <3>1, AppendedLog
    <3>2. CASE IsBoundary(i) /\ AppendEvent(Boundary(log[i].type, replay.turn))
      BY <1>2, <3>1, <3>2, BoundaryFields DEF IsBoundary
    <3>3. CASE CopiesRow(i)
      BY <3>1, <3>3 DEF CopiesRow, AppendRow
    <3> QED BY <1>1, <3>2, <3>3
  <2> QED BY <1>5, <2>1, <2>3, <2>4
<1>7. OldStarts \/ RedoOpens
  <2>1. CASE CopiesRow(i)
    <3>1. PICK e \in Event : e.type = log[i].type /\ AppendRow(e)
      BY <2>1 DEF CopiesRow
    <3>2. AppendEvent(e) /\ e.type # "turn/start"
      BY <2>1, <3>1 DEF CopiesRow, Copied, AppendRow, MessageTypes
    <3> QED BY <1>2, <3>2, QuietStarts
  <2>2. CASE IsBoundary(i) /\ AppendEvent(Boundary(log[i].type, replay.turn)) /\ UNCHANGED surface
    <3>1. CASE IsStart(i)
      <4>1. i # replay.end
        BY <1>4, <3>1 DEF IsStart
      <4>2. i = replay.at
        BY <1>2, <1>4, <2>2, <4>1 DEF Silent
      <4>3. i < replay.end
        BY <1>1, <1>2, <4>1
      <4>4. ~Silent(replay.at, replay.end)
        BY <1>1, <2>2, <4>2, <4>3 DEF Silent
      <4> QED BY <1>1, <1>2, <2>2, <3>1, <4>2, <4>4 DEF RedoOpens, IsStart, Inside
    <3>2. CASE ~IsStart(i)
      <4>1. PICK e \in Event : AppendEvent(e) /\ e.type = log[i].type
        BY <1>2, <2>2, BoundaryFields DEF IsBoundary
      <4> QED BY <1>2, <3>2, <4>1, QuietStarts DEF IsStart
    <3> QED BY <3>1, <3>2
  <2> QED BY <1>1, <2>1, <2>2
<1> QED BY <1>1, <1>2, <1>6, <1>7

\* A turn/start is the agent's, or a redo's.
LEMMA StartsAdded ==
  ASSUME Sound, [Next]_vars
  PROVE  /\ \A i \in DOMAIN log : i \in DOMAIN log' /\ log'[i] = log[i]
         /\ TurnStart \/ (RedoAppend /\ RedoOpens) \/ OldStarts
<1> USE DEF Sound
<1> DEFINE Goal == /\ \A i \in DOMAIN log : i \in DOMAIN log' /\ log'[i] = log[i]
                   /\ TurnStart \/ (RedoAppend /\ RedoOpens) \/ OldStarts
<1>0. turn \in Nat /\ replay.turn \in Nat /\ log \in Seq(Event)
  BY Typed
<1>1. \A i \in DOMAIN log : i \in DOMAIN log' /\ log'[i] = log[i]
  <2>1. Steps
    BY NextSteps
  <2>2. log' = log \/ \E e \in Event : AppendEvent(e)
    BY <2>1, TailMoves
  <2>3. ASSUME NEW e \in Event, AppendEvent(e)
        PROVE  \A i \in DOMAIN log : i \in DOMAIN log' /\ log'[i] = log[i]
    BY <1>0, <2>3, AppendedLog
  <2> QED BY <2>2, <2>3
<1>2. ASSUME log' = log \/ \E e \in Event : AppendEvent(e) /\ e.type # "turn/start" PROVE Goal
  BY <1>0, <1>1, <1>2, QuietStarts
<1>3. CASE TurnStart
  BY <1>1, <1>3
<1>4. CASE TurnEnd \/ RedoFail
  <2>1. \E t \in Nat : AppendEvent(Boundary("turn/end", t))
    BY <1>0, <1>4 DEF TurnEnd, RedoFail
  <2>2. PICK t \in Nat : AppendEvent(Boundary("turn/end", t))
    BY <2>1
  <2>3. Boundary("turn/end", t) \in Event /\ Boundary("turn/end", t).type = "turn/end"
    BY BoundaryFields DEF BoundaryTypes
  <2>4. \E e \in Event : AppendEvent(e) /\ e.type # "turn/start"
    BY <2>2, <2>3
  <2> QED BY <1>2, <2>4
<1>5. CASE RedoAppend
  BY <1>1, <1>5, RedoStarts
<1>6. CASE RedoStart \/ RedoDone \/ RedoFailOpen \/ UNCHANGED vars
  BY <1>2, <1>6 DEF RedoStart, RedoDone, RedoFailOpen, vars
<1>7. CASE \/ SystemPrompt \/ Compact
           \/ \E type \in MessageTypes : TurnRow(type)
           \/ \E type \in {"user/message", "tool/result"}, lo, hi \in DOMAIN surface :
                RewriteRows(type, lo, hi)
           \/ \E m \in findAssistantMessages(log) : performUndo(m)
  <2>1. QuietLog
    BY <1>7, RowsAreQuiet
  <2> QED BY <1>2, <2>1 DEF QuietLog, BoundaryTypes
<1> HIDE DEF Goal
<1> QED BY <1>3, <1>4, <1>5, <1>6, <1>7 DEF Next, Harness, Handlers

LEMMA RealTurnsNext ==
  ASSUME Sound, RealTurns, [Next]_vars
  PROVE  RealTurns'
<1> USE DEF Sound
<1>0. /\ Len(log) \in Nat /\ DOMAIN log = 1..Len(log) /\ log \in Seq(Event)
      /\ turn \in Nat /\ replay.turn \in Nat /\ MaxTurns \in Nat
  BY Typed, BoundsAssumption
<1>1. turn' \in Nat /\ turn <= turn' /\ turn' <= MaxTurns /\ (TurnStart => turn' = turn + 1)
  <2>1. CASE TurnStart
    BY <1>0, <2>1 DEF TurnStart
  <2>2. CASE UNCHANGED turn
    BY <1>0, <2>2 DEF RealTurns, TurnStart
  <2>3. UNCHANGED turn \/ TurnStart
    BY DEF Next, Harness, Handlers, vars, SystemPrompt, TurnEnd, Compact, TurnRow, RewriteRows,
       performUndo, RedoStart, RedoAppend, RedoDone, RedoFail, RedoFailOpen
  <2> QED BY <2>1, <2>2, <2>3
<1>2. ASSUME NEW i \in DOMAIN log', log'[i].type = "turn/start",
             NEW t, t = log'[i].turn, ~(t <= turn')
      PROVE  Spent(t)'
  <2>1. Steps
    BY NextSteps
  <2>2. CASE i \in DOMAIN log
    <3>1. log'[i] = log[i]
      BY <2>2, StartsAdded
    <3>2. t \in Nat
      <4>1. \A f \in Event : f.turn \in Nat
        BY DEF Event
      <4>2. log[i] \in Event
        BY <1>0, <2>2
      <4> QED BY <1>2, <3>1, <4>1, <4>2
    <3>3. ~(t <= turn)
      BY <1>0, <1>1, <1>2, <3>2
    <3>4. Spent(t)
      BY <1>2, <2>2, <3>1, <3>3 DEF RealTurns, IsStart
    <3> QED BY <2>1, <3>2, <3>4, SpentStays
  <2>3. ASSUME NEW u \in Nat, AppendEvent(Boundary("turn/start", u)), i \notin DOMAIN log PROVE t = u
    <3>1. Boundary("turn/start", u) \in Event /\ Boundary("turn/start", u).turn = u
      BY BoundaryFields DEF BoundaryTypes
    <3>2. i = Len(log) + 1 /\ log'[Len(log) + 1] = Boundary("turn/start", u)
      BY <1>0, <2>3, <3>1, AppendedLog
    <3> QED BY <1>2, <3>1, <3>2
  <2>4. CASE i \notin DOMAIN log /\ TurnStart
    <3>1. AppendEvent(Boundary("turn/start", turn + 1)) /\ turn + 1 \in Nat
      BY <1>0, <2>4 DEF TurnStart
    <3>2. t = turn + 1
      BY <2>3, <2>4, <3>1
    <3> QED BY <1>1, <1>2, <2>4, <3>2
  <2>5. CASE i \notin DOMAIN log /\ RedoOpens
    <3>1. t = replay.turn
      BY <1>0, <2>3, <2>5 DEF RedoOpens
    <3>2. Spent(t)
      BY <2>5, <3>1 DEF RedoOpens, TurnOrder, RedoOrder
    <3> QED BY <1>0, <2>1, <3>1, <3>2, SpentStays
  <2> QED BY <1>2, <2>2, <2>4, <2>5, StartsAdded DEF OldStarts
<1> QED BY <1>1, <1>2 DEF RealTurns, IsStart, Spent

LEMMA RowTurnKept ==
  ASSUME log \in Seq(Event), RowTurn,
         \/ log' = log
         \/ \E e \in Event : /\ AppendEvent(e)
                             /\ e.type = "assistant/message" /\ e.op = "append" => OpenTurn(e.turn)
  PROVE  RowTurn'
<1>1. CASE log' = log
  BY <1>1 DEF RowTurn, findAssistantMessages, IsStart, Silent, IsBoundary
<1>2. ASSUME NEW e \in Event, AppendEvent(e),
             e.type = "assistant/message" /\ e.op = "append" => OpenTurn(e.turn)
      PROVE  RowTurn'
  <2>1. /\ Len(log) \in Nat /\ DOMAIN log = 1..Len(log) /\ DOMAIN log' = 1..(Len(log) + 1)
        /\ \A i \in DOMAIN log : log'[i] = log[i]
        /\ log'[Len(log) + 1] = e
    BY <1>2, AppendedLog
  <2>2. ASSUME NEW m \in findAssistantMessages(log')
        PROVE  \E s \in DOMAIN log :
                 /\ s < m /\ IsStart(s) /\ log[s].turn = log'[m].turn
                 /\ \A j \in DOMAIN log : s + 1 <= j /\ j < m => ~IsBoundary(j)
    <3>1. m \in DOMAIN log' /\ log'[m].type = "assistant/message" /\ log'[m].op = "append"
      BY DEF findAssistantMessages
    <3>2. CASE m \in DOMAIN log
      <4>1. m \in findAssistantMessages(log) /\ log'[m] = log[m]
        BY <2>1, <3>1, <3>2 DEF findAssistantMessages
      <4> QED BY <4>1 DEF RowTurn, Silent
    <3>3. CASE m \notin DOMAIN log
      <4>1. m = Len(log) + 1 /\ log'[m] = e
        BY <2>1, <3>1, <3>3
      <4>2. PICK o \in Starts(log, e.turn) : \A j \in DOMAIN log : j > o => ~IsBoundary(j)
        BY <1>2, <3>1, <4>1 DEF OpenTurn
      <4>3. o \in DOMAIN log /\ IsStart(o) /\ log[o].turn = e.turn
        BY DEF Starts, IsStart
      <4>4. o < m /\ \A j \in DOMAIN log : o + 1 <= j => j > o
        BY <2>1, <4>1, <4>3
      <4> QED BY <4>1, <4>2, <4>3, <4>4
    <3> QED BY <3>2, <3>3
  <2>3. ASSUME NEW m \in findAssistantMessages(log')
        PROVE  \E s \in DOMAIN log' :
                 /\ s < m /\ log'[s].type = "turn/start" /\ log'[s].turn = log'[m].turn
                 /\ \A j \in DOMAIN log' : s + 1 <= j /\ j < m => log'[j].type \notin BoundaryTypes
    <3>1. PICK s \in DOMAIN log :
                 /\ s < m /\ IsStart(s) /\ log[s].turn = log'[m].turn
                 /\ \A j \in DOMAIN log : s + 1 <= j /\ j < m => ~IsBoundary(j)
      BY <2>2
    <3>2. \A j \in DOMAIN log' : j < m => j \in DOMAIN log
      BY <2>1 DEF findAssistantMessages
    <3> QED BY <2>1, <3>1, <3>2 DEF IsStart, IsBoundary
  <2> QED BY <2>3 DEF RowTurn, IsStart, Silent, IsBoundary
<1> QED BY <1>1, <1>2

\* No assistant message is added, ...
QuietAsst == log' = log \/ \E e \in Event : AppendEvent(e) /\ e.type # "assistant/message"

\* ... the agent adds one, ...
TurnAsst ==
  /\ agent = "running" /\ replay = NoReplay /\ UNCHANGED <<agent, turn, replay>> /\ Spend("rows")
  /\ \E e \in Event : /\ AppendRow(e) /\ e.type = "assistant/message" /\ e.op = "append"
                      /\ e.turn = turn /\ e.step = MaxRows - budget["rows"]

\* ... or a redo copies one.
CopyAsst ==
  \E i \in replay.at..replay.end :
    /\ replay # NoReplay /\ Silent(replay.at, replay.end)
    /\ i \in findAssistantMessages(log)
    /\ replay'.at = i + 1 /\ replay'.end = replay.end /\ replay'.turn = replay.turn
    /\ \E e \in Event : /\ AppendRow(e) /\ e.type = "assistant/message" /\ e.op = "append"
                        /\ e.turn = replay.turn /\ e.step = log[i].step

LEMMA AsstStep ==
  ASSUME Sound, [Next]_vars
  PROVE  QuietAsst \/ TurnAsst \/ (RedoAppend /\ CopyAsst)
<1> USE DEF Sound
<1>0. log \in Seq(Event) /\ turn \in Nat /\ replay.turn \in Nat
  BY Typed
<1>1. ASSUME NEW e, AppendEvent(e), e.type # "assistant/message" PROVE QuietAsst
  BY <1>1, AppendedEvent DEF QuietAsst
<1>2. CASE TurnStart \/ TurnEnd \/ RedoFail
  <2>1. \E type \in BoundaryTypes, t \in Nat : AppendEvent(Boundary(type, t))
    BY <1>0, <1>2 DEF TurnStart, TurnEnd, RedoFail, BoundaryTypes
  <2>2. \E e \in Event : AppendEvent(e) /\ e.type \in BoundaryTypes
    BY <2>1, BoundaryFields
  <2> QED BY <1>1, <2>2 DEF BoundaryTypes
<1>3. CASE RedoStart \/ RedoDone \/ RedoFailOpen \/ UNCHANGED vars
  BY <1>3 DEF RedoStart, RedoDone, RedoFailOpen, vars, QuietAsst
<1>4. CASE SystemPrompt
  <2> DEFINE e == Row("system/message", turn, 0, Len(log) + 1)
  <2>1. AppendEvent(e) /\ e.type = "system/message"
    BY <1>4 DEF SystemPrompt, AppendRow, Row
  <2> HIDE DEF e
  <2> QED BY <1>1, <2>1, AppendedEvent
<1>5. ASSUME NEW type \in MessageTypes, TurnRow(type) PROVE QuietAsst \/ TurnAsst
  <2> DEFINE e == Row(type, IF type = "user/message" THEN 0 ELSE turn, StepOf(type), Len(log) + 1)
  <2>1. /\ AppendRow(e) /\ AppendEvent(e) /\ e.type = type /\ e.op = "append"
        /\ type = "assistant/message" => e.turn = turn /\ e.step = MaxRows - budget["rows"]
    BY <1>5 DEF TurnRow, AppendRow, Row, StepOf
  <2> HIDE DEF e
  <2>2. e \in Event
    BY <2>1, AppendedEvent
  <2>3. CASE type # "assistant/message"
    BY <1>1, <2>1, <2>2, <2>3
  <2>4. CASE type = "assistant/message"
    BY <1>5, <2>1, <2>2, <2>4 DEF TurnRow, TurnAsst
  <2> QED BY <2>3, <2>4
<1>7. CASE Compact
  <2>1. \E e : AppendEvent(e) /\ e.type = "user/message"
    BY <1>7 DEF Compact, AppendReplacement, Rewrite
  <2> QED BY <1>1, <2>1
<1>8. ASSUME NEW type \in {"user/message", "tool/result"},
             NEW lo \in DOMAIN surface, NEW hi \in DOMAIN surface, RewriteRows(type, lo, hi)
      PROVE  QuietAsst
  <2>1. \E e : AppendEvent(e) /\ e.type = type
    BY <1>8 DEF RewriteRows, AppendReplacement, Rewrite
  <2> QED BY <1>1, <2>1
<1>9. ASSUME NEW m \in findAssistantMessages(log), performUndo(m) PROVE QuietAsst
  <2>1. \E e : AppendEvent(e) /\ isUndoTombstone(e)
    BY <1>9, Undone DEF Replaces, AppendReplacement
  <2> QED BY <1>1, <2>1 DEF isUndoTombstone
<1>10. CASE RedoAppend
  <2>1. PICK i \in replay.at..replay.end :
           /\ i \in DOMAIN log /\ \A j \in replay.at..(i - 1) : ~hasReplayRole(log[j])
           /\ replay'.at = i + 1 /\ replay'.end = replay.end /\ replay'.turn = replay.turn
           /\ replay # NoReplay
           /\ \/ IsBoundary(i) /\ AppendEvent(Boundary(log[i].type, replay.turn)) /\ UNCHANGED surface
              \/ CopiesRow(i)
    BY <1>10, CopiedStep
  <2>2. CASE IsBoundary(i) /\ AppendEvent(Boundary(log[i].type, replay.turn))
    <3>1. \E e \in Event : AppendEvent(e) /\ e.type \in BoundaryTypes
      BY <1>0, <2>2, BoundaryFields DEF IsBoundary
    <3> QED BY <1>1, <3>1 DEF BoundaryTypes
  <2>3. CASE CopiesRow(i)
    <3>1. PICK e \in Event :
            /\ e.type = log[i].type /\ e.step = log[i].step /\ e.op = "append"
            /\ (e.type # "user/message" => e.turn = replay.turn) /\ AppendRow(e)
      BY <2>3 DEF CopiesRow
    <3>2. RedoOrder /\ Copied(i)
      BY <2>1, <2>3 DEF TurnOrder, CopiesRow
    <3>3. Silent(replay.at, replay.end)
      BY <2>1, <3>2, CopiesInside
    <3>4. CASE e.type = "assistant/message"
      <4>1. i \in findAssistantMessages(log)
        BY <2>1, <3>1, <3>2, <3>4 DEF findAssistantMessages, Copied
      <4>2. CopyAsst
        BY <2>1, <3>1, <3>3, <3>4, <4>1 DEF CopyAsst
      <4> QED BY <1>10, <4>2
    <3>5. CASE e.type # "assistant/message"
      BY <1>1, <3>1, <3>5 DEF AppendRow
    <3> QED BY <3>4, <3>5
  <2> QED BY <2>1, <2>2, <2>3
<1> QED BY <1>2, <1>3, <1>4, <1>5, <1>7, <1>8, <1>9, <1>10 DEF Next, Harness, Handlers

LEMMA RowTurnNext ==
  ASSUME Sound, RowTurn, [Next]_vars
  PROVE  RowTurn'
<1> USE DEF Sound
<1>0. log \in Seq(Event)
  BY Typed
<1>1. CASE QuietAsst
  BY <1>0, <1>1, RowTurnKept DEF QuietAsst
<1>2. CASE TurnAsst
  <2>1. OpenTurn(turn)
    BY <1>2 DEF TurnAsst, TurnOrder
  <2>2. \E e \in Event : AppendEvent(e) /\ e.turn = turn
    BY <1>2 DEF TurnAsst, AppendRow
  <2> QED BY <1>0, <2>1, <2>2, RowTurnKept
<1>3. CASE CopyAsst
  <2>1. PICK i \in replay.at..replay.end : replay # NoReplay /\ Silent(replay.at, replay.end)
    BY <1>3 DEF CopyAsst
  <2>2. OpenTurn(replay.turn)
    <3>1. replay.at <= replay.end /\ replay.at \in DOMAIN log
      BY <2>1, Typed DEF TypeInv, ReplayInLog
    <3> QED BY <2>1, <3>1, Typed DEF TurnOrder, RedoOrder, Silent, IsBoundary, BoundaryTypes
  <2>3. \E e \in Event : AppendEvent(e) /\ e.turn = replay.turn
    BY <1>3 DEF CopyAsst, AppendRow
  <2> QED BY <1>0, <2>2, <2>3, RowTurnKept
<1> QED BY <1>1, <1>2, <1>3, AsstStep

\* No start of the agent's or of a spent turn is a start of fake turn t.
LEMMA FakeUnstarted ==
  ASSUME TypeInv, RealTurns, MaxTurns < FakeBase, NEW T \in Nat, NEW t \in Nat, t = FakeBase + T,
         ~Spent(t)
  PROVE  Starts(log, t) = {}
<1>1. MaxTurns \in Nat /\ FakeBase \in Nat /\ turn \in Nat
  BY BoundsAssumption, FakeBaseAssumption DEF TypeInv, TypeOK
<1>2. ~(t <= turn)
  BY <1>1 DEF RealTurns
<1> QED BY <1>2 DEF RealTurns, Starts, IsStart

\* A turn that an undo takes off the tail has not been replayed.
LEMMA UndoUnstarted ==
  ASSUME Sound, RealTurns, MaxTurns < FakeBase,
         NEW m \in findAssistantMessages(log), NEW range \in turnLogRange(log, log[m].turn),
         NEW run \in trailingTurnRun(surface, TurnSeqs(range)), NEW e \in Event,
         UndoAtTail(m, range, run, e)
  PROVE  /\ AppendEvent(e) /\ e.type = "system/message"
         /\ \E T \in Nat : T = log'[TailNode'].turn /\ Starts(log, FakeBase + T) = {}
<1> USE DEF Sound
<1>0. Len(log) \in Nat /\ log \in Seq(Event) /\ FakeBase \in Nat
  BY Typed, FakeBaseAssumption
<1>1. /\ run[2] = Len(surface) /\ run[1] \in DOMAIN surface /\ run[2] \in DOMAIN surface
      /\ run[1] <= run[2] /\ AppendReplacement(e, run[1], run[2]) /\ AppendEvent(e)
      /\ e.type = "system/message" /\ e.turn = log[m].turn
  BY DEF UndoAtTail, Replaces, AppendReplacement, isUndoTombstone
<1>2. TailNode' = Len(log) + 1 /\ log'[Len(log) + 1] = e
  BY <1>0, <1>1, RowsReplaced, AppendedLog DEF RowsTyped
<1>3. PICK T \in Nat : T = log[m].turn
  <2>1. \A f \in Event : f.turn \in Nat
    BY DEF Event
  <2> QED BY <1>0, <2>1 DEF findAssistantMessages
<1>4. PICK t \in Nat : t = FakeBase + T
  BY <1>0, <1>3
<1>5. ASSUME Spent(t) PROVE FALSE
  <2>1. PICK U \in Nat : t = FakeBase + U /\ \E r \in turnLogRange(log, U) : r[2] < TailNode
    BY <1>5 DEF Spent
  <2>2. U = T
    BY <1>0, <1>4, <2>1
  <2>3. range[2] < TailNode
    BY <1>0, <1>3, <2>1, <2>2, RangeUnique
  <2>4. run[2] \in run[1]..run[2]
    BY <1>1
  <2>5. TailNode \in TurnSeqs(range)
    BY <1>1, <2>4 DEF trailingTurnRun, TailNode
  <2>6. TailNode \in range[1]..range[2]
    BY <2>5 DEF TurnSeqs, shadowedTurnNodes
  <2>7. range[1] \in Nat /\ range[2] \in Nat
    BY <1>0 DEF turnLogRange, Starts, Ends
  <2> QED BY <2>3, <2>6, <2>7
<1>6. Starts(log, t) = {}
  BY <1>3, <1>4, <1>5, FakeUnstarted
<1> QED BY <1>1, <1>2, <1>3, <1>4, <1>6

LEMMA StartedOnceNext ==
  ASSUME Sound, PresentInv, OnceInv, RealTurns, MaxTurns < FakeBase, [Next]_vars
  PROVE  StartedOnce'
<1> USE DEF Sound
<1>0. /\ Len(log) \in Nat /\ DOMAIN log = 1..Len(log) /\ log \in Seq(Event)
      /\ turn \in Nat /\ replay.turn \in Nat /\ MaxTurns \in Nat /\ FakeBase \in Nat
  BY Typed, BoundsAssumption, FakeBaseAssumption
<1>1. \A i \in DOMAIN log : i \in DOMAIN log' /\ log'[i] = log[i]
  BY StartsAdded
<1>2. ASSUME NEW t \in Nat, AppendEvent(Boundary("turn/start", t)), Starts(log, t) = {}
      PROVE  StartedOnce'
  <2>1. Boundary("turn/start", t) \in Event /\ Boundary("turn/start", t).turn = t
    BY BoundaryFields DEF BoundaryTypes
  <2>2. \A i \in DOMAIN log' : i \in DOMAIN log \/ (i = Len(log) + 1 /\ log'[i].turn = t)
    BY <1>0, <1>2, <2>1, AppendedLog
  <2>3. \A i \in DOMAIN log : IsStart(i) => log[i].turn # t
    BY <1>2 DEF Starts, IsStart
  <2> QED BY <1>1, <2>2, <2>3 DEF OnceInv, StartedOnce, IsStart
<1>3. CASE TurnStart
  <2>1. turn < MaxTurns /\ AppendEvent(Boundary("turn/start", turn + 1))
    BY <1>3 DEF TurnStart
  <2>2. PICK t \in Nat : t = turn + 1
    BY <1>0
  <2>3. ~Spent(t)
    BY <1>0, <2>1, <2>2 DEF Spent
  <2>4. Starts(log, t) = {}
    BY <1>0, <2>2, <2>3 DEF RealTurns, Starts, IsStart
  <2> QED BY <1>2, <2>1, <2>2, <2>4
<1>4. CASE RedoOpens
  <2>1. TombTail
    BY <1>4 DEF RedoOpens, PresentInv, TombFirst
  <2>2. Starts(log, FakeBase + log[TailNode].turn) = {}
    BY <1>4, <2>1 DEF RedoOpens, OnceInv, TombUnstarted
  <2>3. log[TailNode].turn \in Nat
    <3>1. \A f \in Event : f.turn \in Nat
      BY DEF Event
    <3>2. log[TailNode] \in Event
      BY <1>0, <2>1, Typed DEF TombTail
    <3> QED BY <3>1, <3>2
  <2>4. FakeBase + log[TailNode].turn = replay.turn
    BY <1>0, <1>4, <2>1, <2>3 DEF RedoOpens, TurnOrder, RedoOrder, Reopens
  <2> QED BY <1>0, <1>2, <1>4, <2>2, <2>4 DEF RedoOpens
<1>5. CASE OldStarts
  BY <1>1, <1>5 DEF OldStarts, OnceInv, StartedOnce, IsStart
<1> QED BY <1>3, <1>4, <1>5, StartsAdded

LEMMA TombUnstartedNext ==
  ASSUME Sound, PresentInv, FillInv, OnceInv, RealTurns, MaxTurns < FakeBase,
         NoFault, NoFault', [Next]_vars
  PROVE  TombUnstarted'
<1> USE DEF Sound
<1>0. /\ Len(log) \in Nat /\ DOMAIN log = 1..Len(log) /\ log \in Seq(Event)
      /\ turn \in Nat /\ replay.turn \in Nat /\ MaxTurns \in Nat /\ FakeBase \in Nat
      /\ replay.at \in Nat /\ replay.end \in Nat /\ budget \in [Budgets -> Nat]
      /\ \A f \in Event : f.turn \in Nat
  BY Typed, BoundsAssumption, FakeBaseAssumption DEF TypeInv, TypeOK, Event
<1> SUFFICES ASSUME TombTail',
                    replay' = NoReplay \/ (replay'.at <= replay'.end /\ log'[replay'.at].type = "turn/start")
             PROVE  \A s \in DOMAIN log' :
                      log'[s].type = "turn/start" => log'[s].turn # FakeBase + log'[TailNode'].turn
  BY DEF TombUnstarted, Starts, IsStart
<1>1. \A i \in DOMAIN log : i \in DOMAIN log' /\ log'[i] = log[i]
  BY StartsAdded
<1>2. CASE TombKept
  <2>1. TombTail /\ TailNode' = TailNode /\ log'[TailNode] = log[TailNode]
    BY <1>2 DEF TombKept
  <2>2. PICK T \in Nat : T = log[TailNode].turn
    <3>1. log[TailNode] \in Event
      BY <1>0, <2>1, Typed DEF TombTail
    <3> QED BY <1>0, <3>1
  <2>3. ~RedoAppend /\ ~RedoDone /\ ~RedoFail /\ ~RedoFailOpen
    <3>1. ~RedoAppend
      BY RedoStarts
    <3>2. ~RedoDone
      BY <2>1, DoneTail
    <3>3. ASSUME RedoFail \/ RedoFailOpen PROVE FALSE
      <4>1. budget'["fault"] # budget["fault"]
        BY <1>0, <3>3 DEF RedoFail, RedoFailOpen, Spend, Budgets
      <4> QED BY <4>1 DEF NoFault
    <3> QED BY <3>1, <3>2, <3>3
  <2>4. replay = NoReplay \/ UNCHANGED vars
    BY <2>3 DEF Next, Harness, Handlers, TurnStart, SystemPrompt, TurnEnd, Compact, TurnRow,
       RewriteRows, performUndo, RedoStart
  <2>5. Starts(log, FakeBase + T) = {}
    <3>1. replay = NoReplay \/ (replay.at <= replay.end /\ IsStart(replay.at))
      BY <2>4 DEF vars, IsStart
    <3> QED BY <2>1, <2>2, <3>1 DEF OnceInv, TombUnstarted
  <2>6. CASE OldStarts
    BY <1>1, <2>1, <2>2, <2>5, <2>6 DEF OldStarts, Starts
  <2>7. CASE TurnStart
    <3>1. PICK t \in Nat : t = turn + 1
      BY <1>0
    <3>2. AppendEvent(Boundary("turn/start", t)) /\ t <= MaxTurns
      BY <1>0, <2>7, <3>1 DEF TurnStart
    <3>3. Boundary("turn/start", t) \in Event /\ Boundary("turn/start", t).turn = t
      BY BoundaryFields DEF BoundaryTypes
    <3>4. \A s \in DOMAIN log' : s \in DOMAIN log \/ log'[s].turn = t
      BY <1>0, <3>2, <3>3, AppendedLog
    <3>5. t # FakeBase + T
      BY <1>0, <2>2, <3>2
    <3> QED BY <1>1, <2>1, <2>2, <2>5, <3>4, <3>5 DEF Starts
  <2> QED BY <2>3, <2>6, <2>7, StartsAdded
<1>3. ASSUME NEW m \in findAssistantMessages(log), NEW range \in turnLogRange(log, log[m].turn),
             NEW run \in trailingTurnRun(surface, TurnSeqs(range)), NEW e \in Event,
             UndoAtTail(m, range, run, e)
      PROVE  \A s \in DOMAIN log' :
               log'[s].type = "turn/start" => log'[s].turn # FakeBase + log'[TailNode'].turn
  <2>1. /\ AppendEvent(e) /\ e.type = "system/message"
        /\ \E T \in Nat : T = log'[TailNode'].turn /\ Starts(log, FakeBase + T) = {}
    BY <1>3, UndoUnstarted
  <2>2. OldStarts
    BY <1>0, <2>1, QuietStarts
  <2> QED BY <1>1, <2>1, <2>2 DEF OldStarts, Starts
<1> QED BY <1>2, <1>3, TombTailFrom

\* Where a row of the turn is on the surface, there is a trailing run of them.
LEMMA RunExists ==
  ASSUME NEW nodes, Len(nodes) \in Nat, DOMAIN nodes = 1..Len(nodes), NEW S,
         NEW p \in DOMAIN nodes, nodes[p] \in S
  PROVE  trailingTurnRun(nodes, S) # {}
<1> DEFINE P == {q \in DOMAIN nodes : nodes[q] \in S}
<1>1. P \in SUBSET (0..Len(nodes)) /\ P # {}
  OBVIOUS
<1>2. PICK hi \in P : \A q \in P : q <= hi
  BY <1>1, GreatestOf
<1>3. hi \in Nat /\ hi \in DOMAIN nodes /\ nodes[hi] \in S /\ hi <= Len(nodes) /\ 1 <= hi
  OBVIOUS
<1> DEFINE Q == {0} \cup {q \in DOMAIN nodes : q < hi /\ nodes[q] \notin S}
<1>4. Q \in SUBSET (0..Len(nodes)) /\ Q # {}
  OBVIOUS
<1>5. PICK g \in Q : \A q \in Q : q <= g
  BY <1>4, GreatestOf
<1>6. g \in Nat /\ g < hi /\ (g > 0 => nodes[g] \notin S)
  BY <1>3
<1>7. \A q \in (g + 1)..hi : nodes[q] \in S
  <2> SUFFICES ASSUME NEW q \in (g + 1)..hi, nodes[q] \notin S PROVE FALSE
    OBVIOUS
  <2>1. q \in DOMAIN nodes /\ q # hi /\ q < hi /\ q \in Nat /\ g < q
    BY <1>3, <1>6
  <2>2. q \in Q
    BY <2>1
  <2> QED BY <1>5, <1>6, <2>1, <2>2
<1>8. \A q \in (hi + 1)..Len(nodes) : nodes[q] \notin S
  <2> SUFFICES ASSUME NEW q \in (hi + 1)..Len(nodes), nodes[q] \in S PROVE FALSE
    OBVIOUS
  <2>1. q \in P /\ q \in Nat /\ hi < q
    BY <1>3
  <2> QED BY <1>2, <1>3, <2>1
<1>9. /\ g + 1 \in DOMAIN nodes /\ g + 1 <= hi
      /\ g + 1 > 1 => nodes[(g + 1) - 1] \notin S
  BY <1>3, <1>6
<1>10. <<g + 1, hi>> \in trailingTurnRun(nodes, S)
  BY <1>3, <1>7, <1>8, <1>9 DEF trailingTurnRun
<1> QED BY <1>10

LEMMA TurnRowsInvariant == Spec => [](RealTurns /\ RowTurn)
<1>1. Init => RealTurns /\ RowTurn
  BY BoundsAssumption DEF Init, RealTurns, RowTurn, findAssistantMessages
<1>2. /\ TypeInv /\ TurnsInv /\ TurnOrder /\ RowsInv /\ CitedInv /\ TypeInv'
      /\ RealTurns /\ RowTurn /\ [Next]_vars
      => RealTurns' /\ RowTurn'
  <2> SUFFICES ASSUME TypeInv, TurnsInv, TurnOrder, RowsInv, CitedInv, TypeInv',
                      RealTurns, RowTurn, [Next]_vars
               PROVE  RealTurns' /\ RowTurn'
    OBVIOUS
  <2>1. Sound
    BY DEF Sound, RowsTyped, LogTyped, TypeInv, TypeOK, CitedInv, TurnsInv
  <2> QED BY <2>1, RealTurnsNext, RowTurnNext
<1> QED BY <1>1, <1>2, TypeInvariant, TurnsInvariant, TurnOrderInvariant, RowsInvariant,
           CitedInvariant, PTL DEF Spec

LEMMA OnceInvariant ==
  ASSUME MaxTurns < FakeBase
  PROVE  Spec => [](NoFault => OnceInv)
<1>1. Init => OnceInv
  BY DEF Init, OnceInv, StartedOnce, TombUnstarted, TombTail
<1>2. /\ TypeInv /\ TurnsInv /\ TurnOrder /\ RowsInv /\ CitedInv /\ TypeInv' /\ PresentInv
      /\ RealTurns /\ (NoFault => FillInv) /\ (NoFault => OnceInv) /\ [Next]_vars
      => (NoFault => OnceInv)'
  <2> SUFFICES ASSUME TypeInv, TurnsInv, TurnOrder, RowsInv, CitedInv, TypeInv', PresentInv,
                      RealTurns, NoFault => FillInv, NoFault => OnceInv, [Next]_vars, NoFault'
               PROVE  OnceInv'
    OBVIOUS
  <2>1. Sound
    BY DEF Sound, RowsTyped, LogTyped, TypeInv, TypeOK, CitedInv, TurnsInv
  <2>2. NoFault
    BY NoFaultYet DEF TurnsInv
  <2> QED BY <2>1, <2>2, StartedOnceNext, TombUnstartedNext DEF OnceInv
<1> QED BY <1>1, <1>2, TypeInvariant, TurnsInvariant, TurnOrderInvariant, RowsInvariant,
           CitedInvariant, RedoInvariant, FillInvariant, TurnRowsInvariant, PTL DEF Spec

\* While no append was rejected, the range of a message's turn holds it.
LEMMA TurnHolds ==
  ASSUME TypeInv, TurnsInv, RowTurn, OnceInv, NoFault, agent = "idle", replay = NoReplay,
         NEW m \in findAssistantMessages(log)
  PROVE  \E T \in Nat : T = log[m].turn /\ \E range \in turnLogRange(log, T) : m \in range[1]..range[2]
<1>1. /\ m \in DOMAIN log /\ log[m].type = "assistant/message" /\ log[m].op = "append"
      /\ DOMAIN log \subseteq Nat /\ log \in Seq(Event)
  BY DEF findAssistantMessages, TypeInv, TypeOK
<1>2. PICK T \in Nat : T = log[m].turn
  <2>1. \A f \in Event : f.turn \in Nat
    BY DEF Event
  <2> QED BY <1>1, <2>1
<1>3. PICK s \in DOMAIN log : s < m /\ IsStart(s) /\ log[s].turn = T /\ Silent(s + 1, m)
  BY <1>2 DEF RowTurn
<1>4. PICK j \in DOMAIN log :
        /\ j > s /\ log[j] = Boundary("turn/end", T)
        /\ \A k \in DOMAIN log : s < k /\ k < j => ~IsBoundary(k)
  <2>1. MaxFaults \in Nat /\ OneFault
    BY BoundsAssumption DEF NoFault, OneFault
  <2>2. Followed(s)
    BY <1>3, <2>1 DEF TurnsInv, Closed, IsStart
  <2> QED BY <1>3, <2>2 DEF Followed
<1>5. log[j].type = "turn/end" /\ log[j].turn = T
  BY <1>2, <1>4, BoundaryFields DEF BoundaryTypes
<1>6. m < j
  <2>1. j # m /\ IsBoundary(j)
    BY <1>1, <1>5 DEF IsBoundary, BoundaryTypes
  <2>2. ~(j < m)
    BY <1>1, <1>3, <1>4, <2>1 DEF Silent
  <2> QED BY <1>1, <2>1, <2>2
<1>7. s \in Starts(log, T) /\ j \in Ends(log, T)
  BY <1>3, <1>5 DEF Starts, Ends, IsStart
<1>8. PICK range \in turnLogRange(log, T) : TRUE
  BY <1>1, <1>4, <1>7, RangeExists
<1>9. /\ range[1] \in DOMAIN log /\ range[2] \in DOMAIN log /\ range[1] < range[2]
      /\ IsStart(range[1]) /\ log[range[1]].turn = T /\ log[range[2]].type = "turn/end"
  BY <1>8 DEF turnLogRange, Starts, Ends, IsStart
<1>10. range[1] = s
  BY <1>3, <1>9 DEF OnceInv, StartedOnce
<1>11. ~(range[2] < j)
  BY <1>4, <1>9, <1>10 DEF IsBoundary, BoundaryTypes
<1>12. m \in range[1]..range[2]
  BY <1>1, <1>3, <1>6, <1>9, <1>10, <1>11
<1> QED BY <1>2, <1>12

\* What is left of performUndo's checks when the turn is the tail turn.
LEMMA UndoAccepted ==
  ASSUME TypeInv, agent = "idle", NEW m \in findAssistantMessages(log),
         NEW T \in Nat, T = log[m].turn, NEW range \in turnLogRange(log, T),
         NEW k \in range[1]..range[2], OnSurface(k), log[k].type # "system/message",
         ~alreadyUndone(T), isSurfaceTailTurn(log, surface, T)
  PROVE  Undoable(m)
<1>1. PICK p \in DOMAIN surface : surface[p] = k
  BY DEF OnSurface
<1>2. k \in TurnSeqs(range)
  <2>1. k \in shadowedTurnNodes(surface, range)
    BY <1>1 DEF shadowedTurnNodes
  <2>2. HeadIsSystem => k # surface[1]
    BY DEF HeadIsSystem
  <2> QED BY <2>1, <2>2 DEF TurnSeqs
<1>3. PICK run \in trailingTurnRun(surface, TurnSeqs(range)) : TRUE
  <2>1. Len(surface) \in Nat /\ DOMAIN surface = 1..Len(surface)
    BY DEF TypeInv, TypeOK
  <2> QED BY <1>1, <1>2, <2>1, RunExists
<1>4. <<range, run>> \in UndoTarget(m)
  BY <1>3 DEF UndoTarget
<1> QED BY <1>4 DEF Undoable

\* While no append was rejected, the tail message can always be undone: its
\* turn has one closed range, no row behind it blocks the tail walk, and what
\* an earlier undo took off the surface does not make it look undone
\* (index.ts:101-152, isSurfaceTailTurn and trailingTurnRun in pure.ts).  Real
\* turn numbers stay below FakeBase, as FAKE_TURN_BASE has them.
THEOREM TailIsUndoable ==
  ASSUME MaxTurns < FakeBase
  PROVE  Spec => [](NoFault => TailUndoable)
<1>1. ASSUME TypeInv, TurnsInv, TurnOrder, UndoneIsOff, RowTurn, OnceInv, NoFault,
             agent = "idle", replay = NoReplay, NEW p \in DOMAIN surface,
             surface[p] \in findAssistantMessages(log),
             \A q \in (p + 1)..Len(surface) : isUndoTombstone(log[surface[q]])
      PROVE  Undoable(surface[p])
  <2>1. PICK m \in findAssistantMessages(log) : m = surface[p]
    BY <1>1
  <2>2. PICK T \in Nat : T = log[m].turn /\ \E range \in turnLogRange(log, T) : m \in range[1]..range[2]
    BY <1>1, TurnHolds
  <2>3. PICK range \in turnLogRange(log, T) : m \in range[1]..range[2]
    BY <2>2
  <2>4. ~alreadyUndone(T)
    <3> SUFFICES ASSUME surface # <<>>, isUndoTombstone(log[TailNode]), log[TailNode].turn = T
                 PROVE  FALSE
      BY DEF alreadyUndone, TailNode
    <3>1. PICK r \in turnLogRange(log, T) : \A i \in r[1]..r[2] : Copied(i) => Off(i)
      BY <1>1 DEF UndoneIsOff
    <3>2. r = range
      BY <1>1, RangeUnique DEF TypeInv, TypeOK
    <3>3. Copied(m)
      BY DEF Copied, MessageTypes, findAssistantMessages
    <3>4. Off(m)
      BY <2>3, <3>1, <3>2, <3>3
    <3> QED BY <2>1, <3>4 DEF Off
  <2>5. isSurfaceTailTurn(log, surface, T)
    <3>1. ~Peeled(log, surface[p], T)
      BY <2>1, <2>2 DEF Peeled, isUndoTombstone, isReplayedUserMessage, findAssistantMessages
    <3>2. \A q \in (p + 1)..Len(surface) : Peeled(log, surface[q], T)
      BY <1>1 DEF Peeled
    <3> QED BY <2>1, <2>3, <3>1, <3>2 DEF isSurfaceTailTurn
  <2>6. OnSurface(m) /\ log[m].type # "system/message"
    BY <2>1 DEF OnSurface, findAssistantMessages
  <2> QED BY <1>1, <2>1, <2>2, <2>3, <2>4, <2>5, <2>6, UndoAccepted
<1>2. /\ TypeInv /\ TurnsInv /\ TurnOrder /\ ContentInv /\ RowTurn /\ (NoFault => OnceInv)
      => (NoFault => TailUndoable)
  BY <1>1 DEF TailUndoable, ContentInv
<1> QED BY <1>2, TypeInvariant, TurnsInvariant, TurnOrderInvariant, ContentInvariant,
           TurnRowsInvariant, OnceInvariant, PTL

-----------------------------------------------------------------------------
(* The transcript the client shows is the model's context.                 *)

NoRewrite == budget["rewrite"] = MaxRewrites
NoCompact == budget["compact"] = MaxCompacts

Unspent == budget["rewrite"] <= MaxRewrites /\ budget["compact"] <= MaxCompacts

\* A rewrite takes row i off the surface; an undo does, and cites it.
RewritesRow(i) ==
  \E type \in {"user/message", "tool/result"}, lo, hi \in DOMAIN surface :
    RewriteRows(type, lo, hi) /\ \E p \in lo..hi : surface[p] = i

UndoesRow(i) ==
  \E m \in findAssistantMessages(log) : \E range \in turnLogRange(log, log[m].turn), e \in Event :
    /\ i \in range[1]..range[2]
    /\ AppendEvent(e) /\ isUndoTombstone(e) /\ e.turn = log[m].turn
    /\ \E k \in DOMAIN e.cites : e.cites[k] = i

LEMMA BudgetsFall ==
  ASSUME TypeInv, [Next]_vars
  PROVE  /\ \A b \in {"rewrite", "compact"} :
              budget[b] \in Nat /\ budget'[b] \in Nat /\ budget'[b] <= budget[b]
         /\ Compact => budget'["compact"] # budget["compact"]
         /\ \A i : RewritesRow(i) => budget'["rewrite"] # budget["rewrite"]
<1>1. /\ budget \in [Budgets -> Nat] /\ Budgets = {"rows", "undo", "replay", "rewrite", "compact", "fault"}
  BY DEF TypeInv, TypeOK, Budgets
<1> DEFINE Fall == \A b \in {"rewrite", "compact"} :
                     budget[b] \in Nat /\ budget'[b] \in Nat /\ budget'[b] <= budget[b]
<1>2. ASSUME NEW b \in Budgets, Spend(b) PROVE Fall
  BY <1>1, <1>2 DEF Spend
<1>3. ASSUME TurnStart \/ TurnEnd \/ RedoFailOpen PROVE Fall
  BY <1>1, <1>3, BoundsAssumption DEF TurnStart, TurnEnd, RedoFailOpen
<1>4. ASSUME UNCHANGED budget PROVE Fall
  BY <1>1, <1>4
<1>5. Fall
  <2> HIDE DEF Fall
  <2>1. CASE Harness
    BY <1>1, <1>2, <1>3, <1>4, <2>1
    DEF Harness, SystemPrompt, Compact, TurnRow, RewriteRows
  <2>2. CASE Handlers
    BY <1>1, <1>2, <1>3, <1>4, <2>2
    DEF Handlers, performUndo, RedoStart, RedoAppend, RedoDone, RedoFail
  <2> QED BY <1>4, <2>1, <2>2 DEF Next, vars
<1>6. Compact => budget'["compact"] # budget["compact"]
  BY <1>1 DEF Compact, Spend
<1>7. \A i : RewritesRow(i) => budget'["rewrite"] # budget["rewrite"]
  BY <1>1 DEF RewritesRow, RewriteRows, Spend
<1> QED BY <1>5, <1>6, <1>7

\* Row i is on the surface, and from it on only rows logged behind s are.
Trails(i, s) ==
  \E p \in DOMAIN surface : surface[p] = i /\ \A q \in DOMAIN surface : p <= q => s < surface[q]

\* An appended row is the last one of the surface.
LEMMA TrailAdded ==
  ASSUME Sound, NEW e \in Event, AppendRow(e), NEW s \in Nat, s <= Len(log)
  PROVE  /\ \A i \in DOMAIN log : Trails(i, s) => Trails(i, s)'
         /\ \A i : i = Len(log) + 1 => Trails(i, s)'
<1> USE DEF Sound
<1>0. Len(log) \in Nat /\ s < Len(log) + 1
  BY Typed
<1>1. /\ Len(surface) \in Nat /\ DOMAIN surface = 1..Len(surface)
      /\ DOMAIN surface' = 1..(Len(surface) + 1)
      /\ \A q \in DOMAIN surface : surface'[q] = surface[q]
      /\ surface'[Len(surface) + 1] = Len(log) + 1
  BY RowAdded DEF RowsTyped
<1>2. ASSUME NEW i \in DOMAIN log, Trails(i, s) PROVE Trails(i, s)'
  <2>1. PICK p \in DOMAIN surface : surface[p] = i /\ \A q \in DOMAIN surface : p <= q => s < surface[q]
    BY <1>2 DEF Trails
  <2>2. p \in DOMAIN surface' /\ surface'[p] = i
    BY <1>1, <2>1
  <2>3. ASSUME NEW q \in DOMAIN surface', p <= q PROVE s < surface'[q]
    BY <1>0, <1>1, <2>1, <2>3
  <2> QED BY <2>2, <2>3 DEF Trails
<1>3. ASSUME NEW i, i = Len(log) + 1 PROVE Trails(i, s)'
  <2>1. PICK p \in DOMAIN surface' : p = Len(surface) + 1 /\ surface'[p] = i
    BY <1>1, <1>3
  <2>2. ASSUME NEW q \in DOMAIN surface', p <= q PROVE s < surface'[q]
    BY <1>0, <1>1, <2>1, <2>2
  <2> QED BY <2>1, <2>2 DEF Trails
<1> QED BY <1>2, <1>3

\* A replacement keeps the rows outside of its range, and takes the place of the others.
LEMMA TrailReplaced ==
  ASSUME Sound, NEW e \in Event, NEW lo \in DOMAIN surface, NEW hi \in DOMAIN surface,
         Replaces(e, lo, hi), NEW s \in Nat, s <= Len(log), NEW i, NEW p \in DOMAIN surface,
         surface[p] = i, \A q \in DOMAIN surface : p <= q => s < surface[q]
  PROVE  /\ p \notin lo..hi => Trails(i, s)'
         /\ p \in lo..hi => \A k : k = Len(log) + 1 => Trails(k, s)'
<1> USE DEF Sound
<1>0. Len(log) \in Nat /\ s < Len(log) + 1
  BY Typed
<1>1. lo <= hi /\ AppendReplacement(e, lo, hi) /\ LogTyped
  BY DEF Replaces, RowsTyped
<1>2. /\ Len(surface) \in Nat /\ DOMAIN surface = 1..Len(surface)
      /\ lo \in Nat /\ hi \in Nat /\ p \in Nat
      /\ lo \in DOMAIN surface' /\ surface'[lo] = Len(log) + 1
      /\ \A x \in DOMAIN surface' : x # lo =>
           /\ Moved(x, lo, hi) \in DOMAIN surface
           /\ surface'[x] = surface[Moved(x, lo, hi)]
      /\ \A x, y \in DOMAIN surface' :
           x < y /\ x # lo /\ y # lo => Moved(x, lo, hi) < Moved(y, lo, hi)
  BY <1>1, RowsReplaced
<1>3. DOMAIN surface' = 1..(Len(surface) - (hi - lo))
  BY <1>1, <1>2 DEF AppendReplacement, Splice
<1>4. CASE p \notin lo..hi
  <2> DEFINE t == IF p < lo THEN p ELSE p - (hi - lo)
  <2>1. t \in DOMAIN surface' /\ t # lo /\ Moved(t, lo, hi) = p
    BY <1>1, <1>2, <1>3, <1>4 DEF Moved
  <2> HIDE DEF t
  <2>2. ASSUME NEW x \in DOMAIN surface', t <= x PROVE s < surface'[x]
    <3>1. CASE x = lo
      BY <1>0, <1>2, <3>1
    <3>2. CASE x # lo /\ x # t
      <4>1. t < x
        BY <1>2, <1>3, <2>1, <2>2, <3>2
      <4>2. p < Moved(x, lo, hi) /\ Moved(x, lo, hi) \in DOMAIN surface
        BY <1>2, <2>1, <3>2, <4>1
      <4> QED BY <1>2, <3>2, <4>2
    <3>3. CASE x = t
      BY <1>2, <2>1, <3>3
    <3> QED BY <3>1, <3>2, <3>3
  <2>3. surface'[t] = i
    BY <1>2, <2>1
  <2> QED BY <1>4, <2>1, <2>2, <2>3 DEF Trails
<1>5. CASE p \in lo..hi
  <2> SUFFICES ASSUME NEW k, k = Len(log) + 1 PROVE Trails(k, s)'
    BY <1>5
  <2>1. ASSUME NEW x \in DOMAIN surface', lo <= x PROVE s < surface'[x]
    <3>1. CASE x = lo
      BY <1>0, <1>2, <3>1
    <3>2. CASE x # lo
      <4>1. ~(x < lo) /\ x \in Nat
        BY <1>2, <1>3, <2>1
      <4>2. p <= Moved(x, lo, hi) /\ Moved(x, lo, hi) \in DOMAIN surface
        BY <1>1, <1>2, <1>5, <2>1, <3>2, <4>1 DEF Moved
      <4> QED BY <1>2, <3>2, <4>2
    <3> QED BY <3>1, <3>2
  <2> QED BY <1>2, <2>1 DEF Trails
<1> QED BY <1>4, <1>5

\* What is cited is each row of the range.
LEMMA CitedAt ==
  ASSUME LogTyped, NEW lo \in DOMAIN surface, NEW hi \in DOMAIN surface, NEW p \in lo..hi
  PROVE  \E k \in DOMAIN Cited(lo, hi) : Cited(lo, hi)[k] = surface[p]
<1>1. /\ surface \in Seq(DOMAIN log) /\ lo \in Nat /\ hi \in Nat /\ p \in Nat
      /\ 1 <= lo /\ hi <= Len(surface) /\ lo <= p /\ p <= hi
  BY DEF LogTyped
<1>2. p - lo + 1 \in DOMAIN Cited(lo, hi) /\ Cited(lo, hi)[p - lo + 1] = surface[p]
  BY <1>1 DEF Cited
<1> QED BY <1>2

\* A row keeps its trail, or leaves by a compaction, a rewrite or an undo.
LEMMA LeavesTrail ==
  ASSUME Sound, [Next]_vars, NEW i \in DOMAIN log, NEW s \in Nat, s <= Len(log), Trails(i, s)
  PROVE  Trails(i, s)' \/ Compact \/ RewritesRow(i) \/ UndoesRow(i)
<1> USE DEF Sound
<1>1. PICK p \in DOMAIN surface : surface[p] = i /\ \A q \in DOMAIN surface : p <= q => s < surface[q]
  BY DEF Trails
<1>2. CASE surface' = surface
  BY <1>2 DEF Trails
<1>3. ASSUME NEW e \in Event, AppendRow(e) PROVE Trails(i, s)'
  BY <1>3, TrailAdded
<1>4. ASSUME NEW e \in Event, NEW lo \in DOMAIN surface, NEW hi \in DOMAIN surface, Replaces(e, lo, hi),
             p \notin lo..hi
      PROVE  Trails(i, s)'
  BY <1>1, <1>4, TrailReplaced
<1>5. CASE Compact
  BY <1>5
<1>6. ASSUME NEW type \in {"user/message", "tool/result"},
             NEW lo \in DOMAIN surface, NEW hi \in DOMAIN surface, RewriteRows(type, lo, hi)
      PROVE  Trails(i, s)' \/ RewritesRow(i)
  <2>1. PICK e \in Event : Replaces(e, lo, hi)
    BY <1>6, Rewritten
  <2>2. CASE p \in lo..hi
    BY <1>1, <1>6, <2>2 DEF RewritesRow
  <2> QED BY <1>4, <2>1, <2>2
<1>7. ASSUME NEW m \in findAssistantMessages(log), performUndo(m)
      PROVE  Trails(i, s)' \/ UndoesRow(i)
  <2>1. PICK range \in turnLogRange(log, log[m].turn) :
          \E run \in trailingTurnRun(surface, TurnSeqs(range)) : \E e \in Event :
                /\ Replaces(e, run[1], run[2])
                /\ isUndoTombstone(e) /\ e.turn = log[m].turn
                /\ e.cites = Cited(run[1], run[2])
    BY <1>7, Undone
  <2>2. PICK run \in trailingTurnRun(surface, TurnSeqs(range)) : \E e \in Event :
                /\ Replaces(e, run[1], run[2])
                /\ isUndoTombstone(e) /\ e.turn = log[m].turn
                /\ e.cites = Cited(run[1], run[2])
    BY <2>1
  <2>3. PICK e \in Event :
                /\ Replaces(e, run[1], run[2])
                /\ isUndoTombstone(e) /\ e.turn = log[m].turn
                /\ e.cites = Cited(run[1], run[2])
    BY <2>2
  <2>4. run[1] \in DOMAIN surface /\ run[2] \in DOMAIN surface
    BY <2>3 DEF Replaces
  <2>5. CASE p \notin run[1]..run[2]
    BY <1>4, <2>3, <2>4, <2>5
  <2>6. CASE p \in run[1]..run[2]
    <3>1. i \in TurnSeqs(range)
      BY <1>1, <2>2, <2>6 DEF trailingTurnRun
    <3>2. i \in range[1]..range[2]
      BY <3>1 DEF TurnSeqs, shadowedTurnNodes
    <3>3. \E k \in DOMAIN e.cites : e.cites[k] = i
      BY <1>1, <2>3, <2>4, <2>6, CitedAt DEF RowsTyped
    <3>4. AppendEvent(e)
      BY <2>3 DEF Replaces, AppendReplacement
    <3> QED BY <2>3, <3>2, <3>3, <3>4 DEF UndoesRow
  <2> QED BY <2>5, <2>6
<1>8. CASE SystemPrompt \/ \E type \in MessageTypes : TurnRow(type)
  BY <1>3, <1>8, AddedRow DEF AddsRow
<1>9. CASE TurnStart \/ TurnEnd \/ RedoStart \/ RedoDone \/ RedoFail \/ RedoFailOpen \/ UNCHANGED vars
  BY <1>2, <1>9 DEF TurnStart, TurnEnd, RedoStart, RedoDone, RedoFail, RedoFailOpen, vars
<1>10. CASE RedoAppend
  BY <1>2, <1>3, <1>10, CopiedStep DEF CopiesRow
<1> QED BY <1>5, <1>6, <1>7, <1>8, <1>9, <1>10 DEF Next, Harness, Handlers

\* A row leaves the surface by a compaction, a rewrite or an undo.
LEMMA LeavesSurface ==
  ASSUME Sound, [Next]_vars, NEW i \in DOMAIN log, OnSurface(i)
  PROVE  OnSurface(i)' \/ Compact \/ RewritesRow(i) \/ UndoesRow(i)
<1>1. /\ Len(log) \in Nat /\ \A q \in DOMAIN surface : surface[q] \in DOMAIN log
      /\ \A k \in DOMAIN log : 0 < k
  BY DEF Sound, RowsTyped, LogTyped, TypeInv, TypeOK
<1>2. Trails(i, 0)
  BY <1>1 DEF Trails, OnSurface
<1>3. Trails(i, 0)' \/ Compact \/ RewritesRow(i) \/ UndoesRow(i)
  BY <1>1, <1>2, LeavesTrail
<1>4. Trails(i, 0)' => OnSurface(i)'
  BY DEF Trails, OnSurface
<1> QED BY <1>3, <1>4

\* A new event that is no boundary is a row of the surface.
LEMMA NewOnSurface ==
  ASSUME Sound, [Next]_vars, NEW i \in DOMAIN log', i \notin DOMAIN log,
         log'[i].type \notin BoundaryTypes
  PROVE  OnSurface(i)'
<1> USE DEF Sound
<1>0. Len(log) \in Nat /\ DOMAIN log = 1..Len(log) /\ log \in Seq(Event)
  BY Typed
<1>1. ASSUME NEW e \in Event, AppendEvent(e) PROVE i = Len(log) + 1 /\ log'[i] = e
  BY <1>0, <1>1, AppendedLog
<1>2. ASSUME NEW e \in Event, AppendRow(e) PROVE OnSurface(i)'
  <2>1. i = Len(log) + 1
    BY <1>1, <1>2 DEF AppendRow
  <2>2. Len(surface) + 1 \in DOMAIN surface' /\ surface'[Len(surface) + 1] = Len(log) + 1
    BY <1>2, RowAdded DEF RowsTyped
  <2> QED BY <2>1, <2>2 DEF OnSurface
<1>3. ASSUME NEW e \in Event, NEW lo \in DOMAIN surface, NEW hi \in DOMAIN surface, Replaces(e, lo, hi)
      PROVE  OnSurface(i)'
  <2>1. i = Len(log) + 1 /\ lo <= hi /\ AppendReplacement(e, lo, hi)
    BY <1>1, <1>3 DEF Replaces, AppendReplacement
  <2>2. lo \in DOMAIN surface' /\ surface'[lo] = Len(log) + 1
    BY <2>1, RowsReplaced DEF RowsTyped
  <2> QED BY <2>1, <2>2 DEF OnSurface
<1>4. ~AddsBoundary
  <2> SUFFICES ASSUME NEW type \in BoundaryTypes, NEW t \in Nat, AppendEvent(Boundary(type, t))
               PROVE  FALSE
    BY DEF AddsBoundary
  <2>1. Boundary(type, t) \in Event /\ Boundary(type, t).type \in BoundaryTypes
    BY BoundaryFields
  <2> QED BY <1>1, <2>1
<1>5. Steps
  BY NextSteps
<1> QED BY <1>2, <1>3, <1>4, <1>5 DEF Steps, AddsRow, CopiesRow

\* Every message row is on the surface or cited by a tombstone.
Accounted ==
  \A i \in DOMAIN log : log[i].type \in MessageTypes =>
    OnSurface(i) \/ \E j \in Tombstones(log) : \E k \in DOMAIN log[j].cites : log[j].cites[k] = i

LEMMA AccountedNext ==
  ASSUME Sound, Accounted, Unspent, [Next]_vars, NoRewrite', NoCompact'
  PROVE  Accounted'
<1> USE DEF Sound
<1>0. Len(log) \in Nat /\ DOMAIN log = 1..Len(log) /\ log \in Seq(Event)
      /\ \A j \in DOMAIN log : j \in DOMAIN log' /\ log'[j] = log[j]
  BY Typed, StartsAdded
<1> SUFFICES ASSUME NEW i \in DOMAIN log', log'[i].type \in MessageTypes, ~OnSurface(i)'
             PROVE  \E j \in DOMAIN log' :
                      isUndoTombstone(log'[j]) /\ \E k \in DOMAIN log'[j].cites : log'[j].cites[k] = i
  BY DEF Accounted, Tombstones
<1>1. i \in DOMAIN log
  BY NewOnSurface DEF MessageTypes, BoundaryTypes
<1>2. CASE OnSurface(i)
  <2>1. /\ ~Compact /\ ~RewritesRow(i)
    <3>1. MaxRewrites \in Nat /\ MaxCompacts \in Nat
      BY BoundsAssumption
    <3> QED BY <3>1, BudgetsFall DEF NoRewrite, NoCompact, Unspent
  <2>2. UndoesRow(i)
    BY <1>1, <1>2, <2>1, LeavesSurface
  <2>3. PICK e \in Event : AppendEvent(e) /\ isUndoTombstone(e) /\ \E k \in DOMAIN e.cites : e.cites[k] = i
    BY <2>2 DEF UndoesRow
  <2>4. Len(log) + 1 \in DOMAIN log' /\ log'[Len(log) + 1] = e
    BY <1>0, <2>3, AppendedLog
  <2> QED BY <2>3, <2>4
<1>3. CASE ~OnSurface(i)
  BY <1>0, <1>1, <1>3 DEF Accounted, Tombstones
<1> QED BY <1>2, <1>3

\* No two assistant messages have one turn and one step: not in a turn that
\* runs, ...
KeysDistinct ==
  \A i, j \in findAssistantMessages(log) :
    log[i].turn = log[j].turn /\ log[i].step = log[j].step => i = j

RunSteps ==
  agent = "running" =>
    \A m \in findAssistantMessages(log) :
      log[m].turn = turn => log[m].step < MaxRows - budget["rows"]

\* ... nor in a fake turn: it is empty while the tombstone is the tail, and
\* what a redo has left to copy has steps of its own.
TombRowless ==
  TombTail => \A m \in findAssistantMessages(log) : log[m].turn # FakeBase + log[TailNode].turn

RestKeys ==
  replay # NoReplay =>
    \A k \in replay.at..replay.end, m \in findAssistantMessages(log) :
      k \in findAssistantMessages(log) /\ log[m].turn = replay.turn => log[m].step # log[k].step

KeyInv == KeysDistinct /\ RunSteps /\ TombRowless /\ RestKeys

LEMMA AsstTyped ==
  ASSUME Sound
  PROVE  /\ Len(log) \in Nat /\ DOMAIN log = 1..Len(log) /\ log \in Seq(Event)
         /\ \A m \in findAssistantMessages(log) :
              /\ m \in DOMAIN log /\ m \in Nat /\ log[m].turn \in Nat /\ log[m].step \in Nat
<1>1. Len(log) \in Nat /\ DOMAIN log = 1..Len(log) /\ log \in Seq(Event)
  BY Typed
<1>2. \A f \in Event : f.turn \in Nat /\ f.step \in Nat
  BY DEF Event
<1> QED BY <1>1, <1>2 DEF findAssistantMessages

LEMMA QuietAssts ==
  ASSUME log \in Seq(Event), QuietAsst
  PROVE  /\ findAssistantMessages(log') = findAssistantMessages(log)
         /\ \A i \in DOMAIN log : log'[i] = log[i]
<1>1. CASE log' = log
  BY <1>1
<1>2. ASSUME NEW e \in Event, AppendEvent(e), e.type # "assistant/message"
      PROVE  /\ findAssistantMessages(log') = findAssistantMessages(log)
             /\ \A i \in DOMAIN log : log'[i] = log[i]
  <2>1. /\ Len(log) \in Nat /\ DOMAIN log = 1..Len(log) /\ DOMAIN log' = 1..(Len(log) + 1)
        /\ \A i \in DOMAIN log : log'[i] = log[i]
        /\ log'[Len(log) + 1] = e
    BY <1>2, AppendedLog
  <2>2. \A i \in DOMAIN log' : i \in DOMAIN log \/ log'[i] = e
    BY <2>1
  <2> QED BY <1>2, <2>1, <2>2 DEF findAssistantMessages
<1> QED BY <1>1, <1>2 DEF QuietAsst

LEMMA NewAssts ==
  ASSUME Sound, NEW e \in Event, AppendRow(e)
  PROVE  /\ \A m \in findAssistantMessages(log') :
              m \in findAssistantMessages(log) \/ (m = Len(log) + 1 /\ log'[m] = e)
         /\ \A i \in DOMAIN log : log'[i] = log[i]
         /\ TailNode' = Len(log) + 1 /\ log'[Len(log) + 1] = e
<1>1. /\ Len(log) \in Nat /\ DOMAIN log = 1..Len(log) /\ DOMAIN log' = 1..(Len(log) + 1)
      /\ \A i \in DOMAIN log : log'[i] = log[i]
      /\ log'[Len(log) + 1] = e
  BY Typed, AppendedLog DEF AppendRow
<1>2. \A i \in DOMAIN log' : i \in DOMAIN log \/ i = Len(log) + 1
  BY <1>1
<1>3. TailNode' = Len(log) + 1
  BY RowAdded DEF Sound, RowsTyped
<1> QED BY <1>1, <1>2, <1>3 DEF findAssistantMessages

\* With no boundary between them, two assistant messages are of one turn.
LEMMA SameTurn ==
  ASSUME Sound, RowTurn, NEW i \in findAssistantMessages(log), NEW k \in findAssistantMessages(log),
         i < k, Silent(i, k)
  PROVE  log[i].turn = log[k].turn
<1>1. PICK s \in DOMAIN log : s < i /\ IsStart(s) /\ log[s].turn = log[i].turn /\ Silent(s + 1, i)
  BY DEF RowTurn
<1>2. PICK x \in DOMAIN log : x < k /\ IsStart(x) /\ log[x].turn = log[k].turn /\ Silent(x + 1, k)
  BY DEF RowTurn
<1>3. IsBoundary(s) /\ IsBoundary(x)
  BY <1>1, <1>2 DEF IsStart, IsBoundary, BoundaryTypes
<1>4. i \in Nat /\ k \in Nat /\ s \in Nat /\ x \in Nat
  BY AsstTyped
<1>5. x < i
  BY <1>2, <1>3, <1>4 DEF Silent
<1>6. ~(s < x)
  BY <1>1, <1>3, <1>4, <1>5 DEF Silent
<1>7. ~(x < s)
  BY <1>1, <1>2, <1>3, <1>4 DEF Silent
<1> QED BY <1>1, <1>2, <1>4, <1>6, <1>7

LEMMA TombRowlessNext ==
  ASSUME Sound, RealTurns, RowTurn, KeyInv, MaxTurns < FakeBase, [Next]_vars
  PROVE  TombRowless'
<1> USE DEF Sound
<1>0. /\ Len(log) \in Nat /\ DOMAIN log = 1..Len(log) /\ log \in Seq(Event)
      /\ surface # <<>> => TailNode \in DOMAIN log
  BY Typed
<1> SUFFICES ASSUME TombTail'
             PROVE  \A m \in findAssistantMessages(log') :
                      log'[m].turn # FakeBase + log'[TailNode'].turn
  BY DEF TombRowless
<1>1. CASE QuietAsst
  <2>1. /\ findAssistantMessages(log') = findAssistantMessages(log)
        /\ \A m \in findAssistantMessages(log) : m \in DOMAIN log /\ log'[m] = log[m]
    BY <1>0, <1>1, QuietAssts DEF findAssistantMessages
  <2>2. CASE TombKept
    <3>1. TombTail /\ log'[TailNode'] = log[TailNode]
      BY <2>2 DEF TombKept
    <3> QED BY <2>1, <3>1 DEF KeyInv, TombRowless
  <2>3. ASSUME NEW m \in findAssistantMessages(log), NEW range \in turnLogRange(log, log[m].turn),
               NEW run \in trailingTurnRun(surface, TurnSeqs(range)), NEW e \in Event,
               UndoAtTail(m, range, run, e)
        PROVE  \A a \in findAssistantMessages(log') : log'[a].turn # FakeBase + log'[TailNode'].turn
    <3>1. PICK T \in Nat : T = log'[TailNode'].turn /\ Starts(log, FakeBase + T) = {}
      BY <2>3, UndoUnstarted
    <3>2. \A a \in findAssistantMessages(log) : log[a].turn # FakeBase + T
      BY <3>1 DEF RowTurn, Starts, IsStart
    <3> QED BY <2>1, <3>1, <3>2
  <2> QED BY <2>2, <2>3, TombTailFrom
<1>2. ASSUME NEW e \in Event, AppendRow(e), e.type = "assistant/message" PROVE FALSE
  <2>1. log'[TailNode'].type = "assistant/message"
    BY <1>2, NewAssts
  <2> QED BY <2>1 DEF TombTail, isUndoTombstone
<1> QED BY <1>1, <1>2, AsstStep DEF TurnAsst, CopyAsst

LEMMA RunStepsNext ==
  ASSUME Sound, RealTurns, RowTurn, KeyInv, MaxTurns < FakeBase, [Next]_vars
  PROVE  RunSteps'
<1> USE DEF Sound
<1>0. /\ budget \in [Budgets -> Nat] /\ "rows" \in Budgets /\ MaxRows \in Nat /\ log \in Seq(Event)
      /\ turn \in Nat /\ MaxTurns \in Nat /\ FakeBase \in Nat
  BY Typed, BoundsAssumption, FakeBaseAssumption DEF TypeInv, TypeOK, Budgets
<1> SUFFICES ASSUME agent' = "running"
             PROVE  \A m \in findAssistantMessages(log') :
                      log'[m].turn = turn' => log'[m].step < MaxRows - budget'["rows"]
  BY DEF RunSteps
<1>1. ASSUME QuietAsst
      PROVE  /\ findAssistantMessages(log') = findAssistantMessages(log)
             /\ \A m \in findAssistantMessages(log) : m \in DOMAIN log /\ log'[m] = log[m]
  BY <1>0, <1>1, QuietAssts DEF findAssistantMessages
<1>2. CASE TurnStart
  <2>1. turn' = turn + 1 /\ turn < MaxTurns /\ AppendEvent(Boundary("turn/start", turn + 1))
    BY <1>2 DEF TurnStart
  <2>2. QuietAsst
    <3>1. \E e \in Event : AppendEvent(e) /\ e.type = "turn/start"
      BY <1>0, <2>1, BoundaryFields DEF BoundaryTypes
    <3> QED BY <3>1 DEF QuietAsst
  <2>3. PICK t \in Nat : t = turn + 1
    BY <1>0
  <2>4. ~Spent(t)
    BY <1>0, <2>1, <2>3 DEF Spent
  <2>5. \A m \in findAssistantMessages(log) : log[m].turn # t
    BY <1>0, <2>3, <2>4 DEF RealTurns, RowTurn
  <2> QED BY <1>1, <2>1, <2>2, <2>3, <2>5
<1>3. CASE ~TurnStart /\ QuietAsst
  <2>1. agent = "running" /\ turn' = turn /\ ~TurnEnd
    BY <1>3 DEF Next, Harness, Handlers, vars, SystemPrompt, TurnEnd, Compact, TurnRow, RewriteRows,
       performUndo, RedoStart, RedoAppend, RedoDone, RedoFail, RedoFailOpen, TurnStart
  <2>2. budget'["rows"] <= budget["rows"] /\ budget'["rows"] \in Nat
    <3>1. ASSUME NEW b \in Budgets, Spend(b) PROVE budget'["rows"] <= budget["rows"] /\ budget'["rows"] \in Nat
      BY <1>0, <3>1 DEF Spend
    <3>2. CASE UNCHANGED budget
      BY <1>0, <3>2
    <3>3. CASE RedoFailOpen
      BY <1>0, <3>3 DEF RedoFailOpen, Budgets
    <3> QED BY <1>3, <2>1, <3>1, <3>2, <3>3
        DEF Budgets, Next, Harness, Handlers, vars, SystemPrompt, Compact, TurnRow, RewriteRows,
       performUndo, RedoStart, RedoAppend, RedoDone, RedoFail
  <2>3. \A m \in findAssistantMessages(log) :
          log[m].turn = turn => log[m].step < MaxRows - budget["rows"]
    BY <2>1 DEF KeyInv, RunSteps
  <2>4. ASSUME NEW m \in findAssistantMessages(log), log[m].turn = turn
        PROVE  log[m].step < MaxRows - budget'["rows"]
    BY <1>0, <2>2, <2>3, <2>4, AsstTyped
  <2> QED BY <1>1, <1>3, <2>1, <2>4
<1>4. CASE TurnAsst
  <2>1. /\ budget["rows"] > 0 /\ budget'["rows"] = budget["rows"] - 1 /\ turn' = turn
        /\ agent = "running"
    BY <1>0, <1>4 DEF TurnAsst, Spend
  <2>2. PICK e \in Event : AppendRow(e) /\ e.step = MaxRows - budget["rows"]
    BY <1>4 DEF TurnAsst
  <2>3. \A m \in findAssistantMessages(log') :
          m \in findAssistantMessages(log) \/ (m = Len(log) + 1 /\ log'[m] = e)
    BY <2>2, NewAssts
  <2>4. \A m \in findAssistantMessages(log) : log'[m] = log[m]
    BY <2>2, NewAssts, AsstTyped
  <2>5. \A m \in findAssistantMessages(log) :
          log[m].turn = turn => log[m].step < MaxRows - budget["rows"]
    BY <2>1 DEF KeyInv, RunSteps
  <2>6. ASSUME NEW m \in findAssistantMessages(log), log[m].turn = turn
        PROVE  log[m].step < MaxRows - budget'["rows"]
    BY <1>0, <2>1, <2>5, <2>6, AsstTyped
  <2>7. e.step < MaxRows - budget'["rows"]
    BY <1>0, <2>1, <2>2
  <2> QED BY <2>1, <2>3, <2>4, <2>6, <2>7
<1>5. CASE RedoAppend
  BY <1>5 DEF RedoAppend, TurnOrder, RedoOrder
<1> QED BY <1>2, <1>3, <1>4, <1>5, AsstStep

LEMMA KeysDistinctNext ==
  ASSUME Sound, KeyInv, [Next]_vars
  PROVE  KeysDistinct'
<1> USE DEF Sound
<1>0. log \in Seq(Event)
  BY Typed
<1>1. CASE QuietAsst
  <2>1. /\ findAssistantMessages(log') = findAssistantMessages(log)
        /\ \A m \in findAssistantMessages(log) : m \in DOMAIN log /\ log'[m] = log[m]
    BY <1>0, <1>1, QuietAssts DEF findAssistantMessages
  <2> QED BY <2>1 DEF KeyInv, KeysDistinct
<1>2. ASSUME NEW e \in Event, AppendRow(e),
             \A m \in findAssistantMessages(log) : log[m].turn # e.turn \/ log[m].step # e.step
      PROVE  KeysDistinct'
  <2>1. \A m \in findAssistantMessages(log') :
          m \in findAssistantMessages(log) \/ (m = Len(log) + 1 /\ log'[m] = e)
    BY <1>2, NewAssts
  <2>2. \A m \in findAssistantMessages(log) : log'[m] = log[m]
    BY <1>2, NewAssts, AsstTyped
  <2> QED BY <1>2, <2>1, <2>2 DEF KeyInv, KeysDistinct
<1>3. CASE TurnAsst
  <2>1. PICK e \in Event : AppendRow(e) /\ e.turn = turn /\ e.step = MaxRows - budget["rows"]
    BY <1>3 DEF TurnAsst
  <2>2. \A m \in findAssistantMessages(log) : log[m].turn = turn => log[m].step # e.step
    <3>1. budget["rows"] \in Nat /\ MaxRows \in Nat
      BY BoundsAssumption DEF TypeInv, TypeOK, Budgets
    <3>2. \A m \in findAssistantMessages(log) :
            log[m].turn = turn => log[m].step < MaxRows - budget["rows"]
      BY <1>3 DEF TurnAsst, KeyInv, RunSteps
    <3> QED BY <2>1, <3>1, <3>2, AsstTyped
  <2> QED BY <1>2, <2>1, <2>2
<1>4. CASE CopyAsst
  <2>1. PICK i \in replay.at..replay.end :
          /\ replay # NoReplay /\ i \in findAssistantMessages(log)
          /\ \E e \in Event : AppendRow(e) /\ e.turn = replay.turn /\ e.step = log[i].step
    BY <1>4 DEF CopyAsst
  <2>2. \A m \in findAssistantMessages(log) : log[m].turn = replay.turn => log[m].step # log[i].step
    BY <2>1 DEF KeyInv, RestKeys
  <2> QED BY <1>2, <2>1, <2>2
<1> QED BY <1>1, <1>3, <1>4, AsstStep

LEMMA RestKeysNext ==
  ASSUME Sound, RowTurn, KeyInv, [Next]_vars
  PROVE  RestKeys'
<1> USE DEF Sound
<1>0. log \in Seq(Event) /\ replay.at \in Nat /\ replay.end \in Nat
  BY Typed
<1> SUFFICES ASSUME replay' # NoReplay,
                    NEW k \in replay'.at..replay'.end, NEW m \in findAssistantMessages(log'),
                    k \in findAssistantMessages(log'), log'[m].turn = replay'.turn
             PROVE  log'[m].step # log'[k].step
  BY DEF RestKeys
<1>1. ASSUME QuietAsst
      PROVE  /\ findAssistantMessages(log') = findAssistantMessages(log)
             /\ \A a \in findAssistantMessages(log) : a \in DOMAIN log /\ log'[a] = log[a]
  BY <1>0, <1>1, QuietAssts DEF findAssistantMessages
<1>2. CASE RedoStart
  <2>1. PICK i \in RedoTarget : replay'.turn = FakeBase + log[i].turn
    BY <1>2 DEF RedoStart
  <2>2. TombTail /\ TailNode = i /\ log' = log
    BY <1>2, <2>1 DEF RedoStart, RedoTarget, findLastUndoTombstone, isSurfaceTail, TombTail, TailNode,
       Tombstones
  <2>3. \A a \in findAssistantMessages(log) : log[a].turn # FakeBase + log[TailNode].turn
    BY <2>2 DEF KeyInv, TombRowless
  <2> QED BY <2>1, <2>2, <2>3
<1>3. CASE UNCHANGED vars
  BY <1>3 DEF vars, KeyInv, RestKeys
<1>4. CASE RedoAppend /\ QuietAsst
  <2>1. PICK i \in replay.at..replay.end :
          i \in Nat /\ replay'.at = i + 1 /\ replay'.end = replay.end /\ replay'.turn = replay.turn
          /\ replay # NoReplay
    BY <1>4, CopiedStep
  <2>2. k \in replay.at..replay.end
    BY <1>0, <2>1
  <2> QED BY <1>1, <1>4, <2>1, <2>2 DEF KeyInv, RestKeys
<1>5. CASE CopyAsst
  <2>1. PICK i \in replay.at..replay.end :
          /\ replay # NoReplay /\ Silent(replay.at, replay.end) /\ i \in findAssistantMessages(log)
          /\ replay'.at = i + 1 /\ replay'.end = replay.end /\ replay'.turn = replay.turn
          /\ \E e \in Event : AppendRow(e) /\ e.step = log[i].step
    BY <1>5 DEF CopyAsst
  <2>2. PICK e \in Event : AppendRow(e) /\ e.step = log[i].step
    BY <2>1
  <2>3. \A a \in findAssistantMessages(log') :
          a \in findAssistantMessages(log) \/ (a = Len(log) + 1 /\ log'[a] = e)
    BY <2>2, NewAssts
  <2>4. \A a \in findAssistantMessages(log) : log'[a] = log[a]
    BY <2>2, NewAssts, AsstTyped
  <2>5. k \in replay.at..replay.end /\ k \in Nat /\ i \in Nat /\ i < k
    BY <1>0, <2>1, AsstTyped
  <2>6. k \in findAssistantMessages(log)
    <3>1. replay.end \in DOMAIN log
      BY <2>1 DEF TypeInv, ReplayInLog
    <3>2. k # Len(log) + 1
      BY <1>0, <2>5, <3>1
    <3> QED BY <2>3, <3>2
  <2>7. log[k].step # log[i].step
    <3>1. Silent(i, k)
      BY <1>0, <2>1, <2>5 DEF Silent
    <3>2. log[i].turn = log[k].turn
      BY <2>1, <2>5, <2>6, <3>1, SameTurn
    <3> QED BY <2>1, <2>5, <2>6, <3>2 DEF KeyInv, KeysDistinct
  <2>8. CASE m \in findAssistantMessages(log)
    BY <2>1, <2>4, <2>5, <2>6, <2>8 DEF KeyInv, RestKeys
  <2>9. CASE log'[m] = e
    BY <2>2, <2>4, <2>6, <2>7, <2>9
  <2> QED BY <2>3, <2>8, <2>9
<1>6. CASE ~RedoStart /\ ~RedoAppend /\ ~UNCHANGED vars
  <2>1. replay' = NoReplay
    BY <1>6 DEF Next, Harness, Handlers, SystemPrompt, TurnStart, TurnEnd, Compact, TurnRow,
       RewriteRows, performUndo, RedoDone, RedoFail, RedoFailOpen
  <2> QED BY <2>1
<1>7. CASE RedoAppend /\ TurnAsst
  BY <1>7 DEF RedoAppend, TurnAsst
<1> QED BY <1>2, <1>3, <1>4, <1>5, <1>6, <1>7, AsstStep

\* Assistant messages are appended, never put in the place of other rows.
AsstsAppended == \A i \in DOMAIN log : log[i].type = "assistant/message" => log[i].op = "append"

LEMMA AsstsAppendedNext ==
  ASSUME Sound, AsstsAppended, [Next]_vars
  PROVE  AsstsAppended'
<1>1. ASSUME NEW e \in Event, AppendEvent(e), e.type = "assistant/message" => e.op = "append"
      PROVE  AsstsAppended'
  <2>1. /\ Len(log) \in Nat /\ DOMAIN log = 1..Len(log) /\ DOMAIN log' = 1..(Len(log) + 1)
        /\ \A i \in DOMAIN log : log'[i] = log[i]
        /\ log'[Len(log) + 1] = e
    BY <1>1, Typed, AppendedLog
  <2>2. \A i \in DOMAIN log' : i \in DOMAIN log \/ log'[i] = e
    BY <2>1
  <2> QED BY <1>1, <2>1, <2>2 DEF AsstsAppended
<1>2. CASE log' = log
  BY <1>2 DEF AsstsAppended
<1> QED BY <1>1, <1>2, AsstStep DEF QuietAsst, TurnAsst, CopyAsst, AppendRow

LEMMA KeyInvariant ==
  ASSUME MaxTurns < FakeBase
  PROVE  Spec => [](KeyInv /\ AsstsAppended)
<1>1. Init => KeyInv /\ AsstsAppended
  BY DEF Init, KeyInv, KeysDistinct, RunSteps, TombRowless, RestKeys, AsstsAppended,
     findAssistantMessages, TombTail
<1>2. /\ TypeInv /\ TurnsInv /\ TurnOrder /\ RowsInv /\ CitedInv /\ TypeInv'
      /\ RealTurns /\ RowTurn /\ KeyInv /\ AsstsAppended /\ [Next]_vars
      => KeyInv' /\ AsstsAppended'
  <2> SUFFICES ASSUME TypeInv, TurnsInv, TurnOrder, RowsInv, CitedInv, TypeInv',
                      RealTurns, RowTurn, KeyInv, AsstsAppended, [Next]_vars
               PROVE  KeyInv' /\ AsstsAppended'
    OBVIOUS
  <2>1. Sound
    BY DEF Sound, RowsTyped, LogTyped, TypeInv, TypeOK, CitedInv, TurnsInv
  <2> QED BY <2>1, KeysDistinctNext, RunStepsNext, TombRowlessNext, RestKeysNext, AsstsAppendedNext
          DEF KeyInv
<1> QED BY <1>1, <1>2, TypeInvariant, TurnsInvariant, TurnOrderInvariant, RowsInvariant,
           CitedInvariant, TurnRowsInvariant, PTL DEF Spec

LEMMA AccountedInvariant == Spec => [](Unspent /\ (NoRewrite /\ NoCompact => Accounted))
<1>1. Init => Unspent /\ Accounted
  BY BoundsAssumption DEF Init, Unspent, Accounted, Budgets
<1>2. /\ TypeInv /\ TurnsInv /\ TurnOrder /\ RowsInv /\ CitedInv /\ TypeInv'
      /\ Unspent /\ (NoRewrite /\ NoCompact => Accounted) /\ [Next]_vars
      => Unspent' /\ (NoRewrite /\ NoCompact => Accounted)'
  <2> SUFFICES ASSUME TypeInv, TurnsInv, TurnOrder, RowsInv, CitedInv, TypeInv', Unspent,
                      NoRewrite /\ NoCompact => Accounted, [Next]_vars
               PROVE  Unspent' /\ (NoRewrite /\ NoCompact => Accounted)'
    OBVIOUS
  <2>1. Sound
    BY DEF Sound, RowsTyped, LogTyped, TypeInv, TypeOK, CitedInv, TurnsInv
  <2>2. Unspent' /\ (NoRewrite' => NoRewrite) /\ (NoCompact' => NoCompact)
    <3>1. MaxRewrites \in Nat /\ MaxCompacts \in Nat
      BY BoundsAssumption
    <3> QED BY <3>1, BudgetsFall DEF Unspent, NoRewrite, NoCompact
  <2> QED BY <2>1, <2>2, AccountedNext
<1> QED BY <1>1, <1>2, TypeInvariant, TurnsInvariant, TurnOrderInvariant, RowsInvariant,
           CitedInvariant, PTL DEF Spec

LEMMA HiddenKey ==
  ASSUME NEW l, NEW x
  PROVE  x \in hiddenKeys(l) <=>
           \E j \in Tombstones(l) : \E k \in DOMAIN l[j].cites :
             x = NodeKey(l[l[j].cites[k]], l[j].cites[k])
BY DEF hiddenKeys

\* The transcript is the model's context: until the agent rewrites or compacts
\* rows, the rows an up-to-date client leaves visible are those on the
\* surface, whatever undos and redos ran and whichever appends were rejected
\* (hiddenKeys in client/undo-state.ts; index.ts:101-242).
THEOREM TranscriptShowsContext ==
  ASSUME MaxTurns < FakeBase
  PROVE  ClientSpec => [](NoRewrite /\ NoCompact => TranscriptIsContext)
<1>1. ASSUME TypeInv, CitedInv, KeyInv, AsstsAppended, Accounted, UpToDate
      PROVE  TranscriptIsContext
  <2>1. View = log /\ \A p \in DOMAIN surface : surface[p] \in DOMAIN log
    BY <1>1 DEF View, UpToDate, TypeInv, TypeOK
  <2>2. ASSUME NEW i \in DOMAIN log, log[i].type \in MessageTypes,
               NodeKey(log[i], i) \notin hiddenKeys(log)
        PROVE  OnSurface(i)
    <3> SUFFICES ASSUME ~OnSurface(i) PROVE FALSE
      OBVIOUS
    <3>1. PICK j \in Tombstones(log) : \E k \in DOMAIN log[j].cites : log[j].cites[k] = i
      BY <1>1, <2>2 DEF Accounted
    <3> QED BY <2>2, <3>1, HiddenKey
  <2>3. ASSUME NEW i \in DOMAIN log, log[i].type \in MessageTypes, OnSurface(i),
               NodeKey(log[i], i) \in hiddenKeys(log)
        PROVE  FALSE
    <3>1. PICK j \in Tombstones(log) : \E k \in DOMAIN log[j].cites :
            NodeKey(log[i], i) = NodeKey(log[log[j].cites[k]], log[j].cites[k])
      BY <2>3, HiddenKey
    <3>2. PICK k \in DOMAIN log[j].cites :
            NodeKey(log[i], i) = NodeKey(log[log[j].cites[k]], log[j].cites[k])
      BY <3>1
    <3>3. PICK s \in DOMAIN log : s = log[j].cites[k]
      BY <1>1, <3>1, <3>2 DEF CitedInv, CitesLogged, Tombstones
    <3>4. i # s
      BY <1>1, <2>3, <3>1, <3>2, <3>3 DEF CitedInv, CitedStaysOff, OnSurface, Tombstones
    <3>5. NodeKey(log[i], i) = NodeKey(log[s], s)
      BY <3>2, <3>3
    <3>6. CASE log[i].type = "assistant/message" /\ log[s].type = "assistant/message"
      <4>1. i \in findAssistantMessages(log) /\ s \in findAssistantMessages(log)
        BY <1>1, <3>6 DEF AsstsAppended, findAssistantMessages
      <4>2. log[i].turn = log[s].turn /\ log[i].step = log[s].step
        BY <3>5, <3>6 DEF NodeKey
      <4> QED BY <1>1, <3>4, <4>1, <4>2 DEF KeyInv, KeysDistinct
    <3>7. CASE log[i].type # "assistant/message" /\ log[s].type # "assistant/message"
      BY <3>4, <3>5, <3>7 DEF NodeKey
    <3>8. CASE log[i].type = "assistant/message" /\ log[s].type # "assistant/message"
      BY <3>5, <3>8 DEF NodeKey
    <3>9. CASE log[i].type # "assistant/message" /\ log[s].type = "assistant/message"
      BY <3>5, <3>9 DEF NodeKey
    <3> QED BY <3>6, <3>7, <3>8, <3>9
  <2>4. {surface[p] : p \in {q \in DOMAIN surface : log[surface[q]].type \in MessageTypes}}
          = {i \in DOMAIN log : log[i].type \in MessageTypes /\ OnSurface(i)}
    BY <2>1 DEF OnSurface
  <2> QED BY <2>1, <2>2, <2>3, <2>4 DEF TranscriptIsContext
<1>2. /\ TypeInv /\ CitedInv /\ KeyInv /\ AsstsAppended /\ (NoRewrite /\ NoCompact => Accounted)
      => (NoRewrite /\ NoCompact => TranscriptIsContext)
  BY <1>1 DEF TranscriptIsContext
<1> QED BY <1>2, ClientIsUndo, TypeInvariant, CitedInvariant, KeyInvariant, AccountedInvariant, PTL

-----------------------------------------------------------------------------
(* The undo button is never dead.                                          *)

\* A row that no compaction put there is a tombstone, or behind the start of a turn.
RowsInTurn ==
  \A i \in DOMAIN log :
    ~IsBoundary(i) =>
      \/ isUndoTombstone(log[i])
      \/ \E s \in DOMAIN log : s < i /\ IsStart(s) /\ Silent(s + 1, i)

LastTurnStart(s) == s \in DOMAIN log /\ IsStart(s) /\ \A k \in DOMAIN log : IsStart(k) => k <= s

\* A context refresh or an in-turn compaction made in a real turn.
Refresh(k) ==
  /\ log[k].op = "replace" /\ log[k].type = "user/message" /\ log[k].turn = 0
  /\ ~isReplayedUserMessage(log, k)

\* The last turn is undone, or each answer it appended is on the surface or gave
\* way to a rewrite that the turn made, with rows of the turn alone behind it.
LastRows ==
  \A s \in DOMAIN log :
    LastTurnStart(s) =>
      \/ \E i \in Tombstones(log) : i > s /\ log[i].turn = log[s].turn
      \/ \A m \in findAssistantMessages(log) : m > s =>
           \E k \in DOMAIN log : (k = m \/ Refresh(k)) /\ k > s /\ Trails(k, s)

\* A row that is no tombstone is logged behind an open turn/start.
LEMMA RowStep ==
  ASSUME Sound, [Next]_vars
  PROVE  \/ Compact \/ log' = log
         \/ \E e \in Event :
              /\ AppendEvent(e)
              /\ \/ e.type \in BoundaryTypes \/ isUndoTombstone(e)
                 \/ \E o \in DOMAIN log : IsStart(o) /\ \A j \in DOMAIN log : j > o => ~IsBoundary(j)
<1> USE DEF Sound
<1> DEFINE Opened == \E o \in DOMAIN log : IsStart(o) /\ \A j \in DOMAIN log : j > o => ~IsBoundary(j)
<1>0. log \in Seq(Event) /\ turn \in Nat /\ replay.turn \in Nat
  BY Typed
<1>1. ASSUME NEW t, OpenTurn(t) PROVE Opened
  BY <1>1 DEF OpenTurn, Starts, IsStart
<1> HIDE DEF Opened
<1>2. CASE TurnStart \/ TurnEnd \/ RedoFail
  <2>1. \E type \in BoundaryTypes, t \in Nat : AppendEvent(Boundary(type, t))
    BY <1>0, <1>2 DEF TurnStart, TurnEnd, RedoFail, BoundaryTypes
  <2>2. \E e \in Event : AppendEvent(e) /\ e.type \in BoundaryTypes
    BY <2>1, BoundaryFields
  <2> QED BY <2>2
<1>3. CASE RedoStart \/ RedoDone \/ RedoFailOpen \/ UNCHANGED vars
  BY <1>3 DEF RedoStart, RedoDone, RedoFailOpen, vars
<1>4. CASE \/ SystemPrompt \/ \E type \in MessageTypes : TurnRow(type)
           \/ \E type \in {"user/message", "tool/result"}, lo, hi \in DOMAIN surface :
                RewriteRows(type, lo, hi)
  <2>1. agent = "running"
    BY <1>4 DEF SystemPrompt, TurnRow, RewriteRows
  <2>2. Opened
    BY <1>1, <2>1 DEF TurnOrder
  <2>3. QuietLog
    BY <1>4, RowsAreQuiet
  <2> QED BY <2>2, <2>3 DEF QuietLog, Opened
<1>5. ASSUME NEW m \in findAssistantMessages(log), performUndo(m)
      PROVE  \E e \in Event : AppendEvent(e) /\ isUndoTombstone(e)
  BY <1>5, Undone DEF Replaces, AppendReplacement
<1>6. CASE RedoAppend
  <2>1. PICK i \in replay.at..replay.end :
           /\ \A j \in replay.at..(i - 1) : ~hasReplayRole(log[j])
           /\ replay # NoReplay
           /\ \/ IsBoundary(i) /\ AppendEvent(Boundary(log[i].type, replay.turn)) /\ UNCHANGED surface
              \/ CopiesRow(i)
    BY <1>6, CopiedStep
  <2>2. CASE IsBoundary(i) /\ AppendEvent(Boundary(log[i].type, replay.turn))
    <3>1. \E e \in Event : AppendEvent(e) /\ e.type \in BoundaryTypes
      BY <1>0, <2>2, BoundaryFields DEF IsBoundary
    <3> QED BY <3>1
  <2>3. CASE CopiesRow(i)
    <3>1. Copied(i) /\ \E e \in Event : AppendEvent(e)
      BY <2>3 DEF CopiesRow, AppendRow
    <3>2. RedoOrder
      BY <2>1 DEF TurnOrder
    <3>3. Silent(replay.at, replay.end)
      BY <2>1, <3>1, <3>2, CopiesInside
    <3>4. replay.at <= replay.end /\ replay.at \in DOMAIN log
      BY <2>1, Typed DEF TypeInv, ReplayInLog
    <3>5. OpenTurn(replay.turn)
      BY <3>2, <3>3, <3>4, Typed DEF RedoOrder, Silent, IsBoundary, BoundaryTypes
    <3>6. Opened
      BY <1>1, <3>5
    <3> QED BY <3>1, <3>6 DEF Opened
  <2> QED BY <2>1, <2>2, <2>3
<1> QED BY <1>2, <1>3, <1>4, <1>5, <1>6 DEF Next, Harness, Handlers

LEMMA RowsInTurnNext ==
  ASSUME Sound, RowsInTurn, [Next]_vars, ~Compact
  PROVE  RowsInTurn'
<1> USE DEF Sound
<1>0. /\ Len(log) \in Nat /\ DOMAIN log = 1..Len(log) /\ log \in Seq(Event)
      /\ \A i \in DOMAIN log : i \in DOMAIN log' /\ log'[i] = log[i]
  BY Typed, StartsAdded
<1>1. CASE log' = log
  BY <1>1 DEF RowsInTurn, IsBoundary, IsStart, Silent
<1>2. ASSUME NEW e \in Event, AppendEvent(e),
             \/ e.type \in BoundaryTypes \/ isUndoTombstone(e)
             \/ \E o \in DOMAIN log : IsStart(o) /\ \A j \in DOMAIN log : j > o => ~IsBoundary(j)
      PROVE  RowsInTurn'
  <2>1. DOMAIN log' = 1..(Len(log) + 1) /\ log'[Len(log) + 1] = e
    BY <1>0, <1>2, AppendedLog
  <2>2. ASSUME NEW i \in DOMAIN log', NEW s \in DOMAIN log, s < i, IsStart(s),
               \A j \in DOMAIN log : s + 1 <= j /\ j < i => ~IsBoundary(j)
        PROVE  \E x \in DOMAIN log' : /\ x < i /\ log'[x].type = "turn/start"
                                      /\ \A j \in DOMAIN log' : x + 1 <= j /\ j < i =>
                                           log'[j].type \notin BoundaryTypes
    <3>1. \A j \in DOMAIN log' : j < i => j \in DOMAIN log
      BY <1>0, <2>1
    <3> QED BY <1>0, <2>2, <3>1 DEF IsStart, IsBoundary
  <2>3. ASSUME NEW i \in DOMAIN log', log'[i].type \notin BoundaryTypes, ~isUndoTombstone(log'[i])
        PROVE  \E x \in DOMAIN log' : /\ x < i /\ log'[x].type = "turn/start"
                                      /\ \A j \in DOMAIN log' : x + 1 <= j /\ j < i =>
                                           log'[j].type \notin BoundaryTypes
    <3>1. CASE i \in DOMAIN log
      <4>1. PICK s \in DOMAIN log : s < i /\ IsStart(s) /\ Silent(s + 1, i)
        BY <1>0, <2>3, <3>1 DEF RowsInTurn, IsBoundary
      <4> QED BY <2>2, <4>1 DEF Silent
    <3>2. CASE i = Len(log) + 1
      <4>1. PICK o \in DOMAIN log : IsStart(o) /\ \A j \in DOMAIN log : j > o => ~IsBoundary(j)
        BY <1>2, <2>1, <2>3, <3>2
      <4>2. o < i /\ \A j \in DOMAIN log : o + 1 <= j => j > o
        BY <1>0, <3>2
      <4> QED BY <2>2, <4>1, <4>2
    <3> QED BY <1>0, <2>1, <3>1, <3>2
  <2> QED BY <2>3 DEF RowsInTurn, IsBoundary, IsStart, Silent
<1> QED BY <1>1, <1>2, RowStep

\* An undo of another turn takes nothing that is logged behind the last turn/start.
LEMMA LastTurnKept ==
  ASSUME Sound, [Next]_vars, NEW s \in DOMAIN log, LastTurnStart(s),
         ~\E i \in DOMAIN log' : isUndoTombstone(log'[i]) /\ i > s /\ log'[i].turn = log'[s].turn,
         NEW j \in DOMAIN log, j > s
  PROVE  ~UndoesRow(j)
<1> USE DEF Sound
<1>0. /\ Len(log) \in Nat /\ DOMAIN log = 1..Len(log) /\ log \in Seq(Event)
      /\ \A i \in DOMAIN log : i \in DOMAIN log' /\ log'[i] = log[i]
  BY Typed, StartsAdded
<1>1. Len(log') \in Nat /\ DOMAIN log' = 1..Len(log') /\ \A i \in DOMAIN log' : i \in Nat
  BY DEF TypeInv, TypeOK
<1> SUFFICES ASSUME NEW m \in findAssistantMessages(log),
                    NEW range \in turnLogRange(log, log[m].turn), NEW e \in Event,
                    j \in range[1]..range[2],
                    AppendEvent(e), isUndoTombstone(e), e.turn = log[m].turn
             PROVE  FALSE
  BY DEF UndoesRow
<1>2. Len(log) + 1 \in DOMAIN log' /\ log'[Len(log) + 1] = e /\ Len(log) + 1 > s
  BY <1>0, AppendedLog
<1>3. log[m].turn # log[s].turn
  BY <1>0, <1>2
<1>4. PICK t \in Nat : t = log[m].turn
  BY AsstTyped
<1>5. /\ range[1] \in DOMAIN log /\ range[2] \in DOMAIN log
      /\ IsStart(range[1]) /\ log[range[1]].turn = t
  BY <1>4 DEF turnLogRange, Starts, Ends, IsStart
<1>6. Silent(range[1] + 1, range[2])
  BY <1>4 DEF TurnOrder, RangesSilent
<1>7. range[1] <= s /\ range[1] # s
  BY <1>3, <1>4, <1>5 DEF LastTurnStart
<1>8. range[1] + 1 <= s /\ s < range[2]
  BY <1>0, <1>1, <1>5, <1>7
<1> QED BY <1>6, <1>8 DEF Silent, IsStart, IsBoundary, BoundaryTypes, LastTurnStart

\* A rewrite that takes an answer, or a refresh, is a refresh.
LEMMA RefreshMade ==
  ASSUME Sound, RealTurns, MaxTurns < FakeBase, [Next]_vars,
         NEW j \in DOMAIN log, log[j].type # "tool/result", RewritesRow(j),
         NEW s \in DOMAIN log, Trails(j, s)
  PROVE  \E k \in DOMAIN log' : k > s /\ Refresh(k)' /\ Trails(k, s)'
<1> USE DEF Sound
<1>0. Len(log) \in Nat /\ DOMAIN log = 1..Len(log) /\ log \in Seq(Event) /\ turn \in Nat
  BY Typed
<1>n. PICK n \in Nat : n = Len(log) + 1
  BY <1>0
<1>1. PICK type \in {"user/message", "tool/result"}, lo \in DOMAIN surface, hi \in DOMAIN surface :
        RewriteRows(type, lo, hi) /\ \E p \in lo..hi : surface[p] = j
  BY DEF RewritesRow
<1>2. type = "user/message"
  <2>1. ASSUME type = "tool/result" PROVE FALSE
    <3>1. lo = hi /\ log[surface[lo]].type = "tool/result" /\ lo \in Nat
      BY <1>1, <2>1 DEF RewriteRows, RowsTyped, LogTyped
    <3>2. surface[lo] = j
      BY <1>1, <3>1
    <3> QED BY <3>1, <3>2
  <2> QED BY <2>1
<1>3. PICK e \in Event : Replaces(e, lo, hi) /\ AppendEvent(e) /\ e.op = "replace" /\ e.type = "user/message" /\ e.turn = 0
  <2> DEFINE f == Rewrite(type, 0, Len(log) + 1, Cited(lo, hi))
  <2>1. PICK e \in Event : Replaces(e, lo, hi)
    BY <1>1, Rewritten
  <2>2. AppendEvent(f)
    BY <1>1, <1>2 DEF RewriteRows, AppendReplacement
  <2>3. f.op = "replace" /\ f.type = "user/message" /\ f.turn = 0
    BY <1>2 DEF Rewrite
  <2> HIDE DEF f
  <2>4. f \in Event
    BY <2>2, AppendedEvent
  <2>5. AppendEvent(e)
    BY <2>1 DEF Replaces, AppendReplacement
  <2>6. e = f
    BY <1>0, <2>2, <2>4, <2>5, AppendedLog
  <2> QED BY <2>1, <2>3, <2>5, <2>6
<1>4. /\ DOMAIN log' = 1..n /\ log'[n] = e /\ \A i \in DOMAIN log : log'[i] = log[i]
  BY <1>0, <1>n, <1>3, AppendedLog
<1>5. PICK o \in DOMAIN log : /\ log[o].type = "turn/start" /\ log[o].turn = turn
                              /\ \A i \in DOMAIN log : i > o => ~IsBoundary(i)
  <2>1. agent = "running"
    BY <1>1 DEF RewriteRows
  <2> QED BY <2>1, RunningTurn DEF Starts
<1>6. ~isReplayedUserMessage(log', n)
  <2> SUFFICES ASSUME NEW i \in 1..(n - 1), log'[i].type = "turn/start", isFakeTurn(log'[i].turn),
                      \A k \in (i + 1)..(n - 1) : log'[k].type # "turn/start"
               PROVE  FALSE
    BY DEF isReplayedUserMessage
  <2>1. i \in DOMAIN log /\ IsBoundary(i)
    BY <1>0, <1>n, <1>4 DEF IsBoundary, BoundaryTypes
  <2>2. ~(i > o)
    BY <1>5, <2>1
  <2>3. ~(i < o)
    <3>1. o \in Nat /\ o <= n - 1
      BY <1>0, <1>n
    <3> QED BY <1>0, <1>n, <1>4, <1>5, <3>1
  <2>4. i = o
    BY <1>0, <2>1, <2>2, <2>3
  <2>5. MaxTurns \in Nat /\ FakeBase \in Nat
    BY BoundsAssumption, FakeBaseAssumption
  <2> QED BY <1>0, <1>4, <1>5, <2>4, <2>5 DEF RealTurns, isFakeTurn
<1>7. Trails(n, s)'
  <2>1. PICK p \in DOMAIN surface : surface[p] = j /\ \A q \in DOMAIN surface : p <= q => s < surface[q]
    BY DEF Trails
  <2>2. p \in lo..hi
    <3>1. PICK x \in lo..hi : surface[x] = j
      BY <1>1
    <3>2. x \in DOMAIN surface
      BY <3>1 DEF RowsTyped, LogTyped
    <3> QED BY <2>1, <3>1, <3>2 DEF NodesDistinct
  <2>3. s \in Nat /\ s <= Len(log)
    BY <1>0
  <2> QED BY <1>n, <1>3, <2>1, <2>2, <2>3, TrailReplaced
<1>8. Refresh(n)'
  BY <1>3, <1>4, <1>6 DEF Refresh
<1>9. n \in DOMAIN log' /\ n > s
  BY <1>0, <1>n, <1>4
<1> QED BY <1>7, <1>8, <1>9

LEMMA LastRowsNext ==
  ASSUME Sound, RealTurns, MaxTurns < FakeBase, LastRows, [Next]_vars, ~Compact
  PROVE  LastRows'
<1> USE DEF Sound
<1>0. /\ Len(log) \in Nat /\ DOMAIN log = 1..Len(log) /\ log \in Seq(Event)
      /\ \A i \in DOMAIN log : i \in DOMAIN log' /\ log'[i] = log[i]
  BY Typed, StartsAdded
<1>1. Len(log') \in Nat /\ DOMAIN log' = 1..Len(log') /\ \A i \in DOMAIN log' : i \in Nat
  BY DEF TypeInv, TypeOK
<1> DEFINE Tombed(s) == \E i \in DOMAIN log' : isUndoTombstone(log'[i]) /\ i > s /\ log'[i].turn = log'[s].turn
           Held(s, m) == \E k \in DOMAIN log' : (k = m \/ Refresh(k)') /\ k > s /\ Trails(k, s)'
<1> SUFFICES ASSUME NEW s \in DOMAIN log', log'[s].type = "turn/start",
                    \A k \in DOMAIN log' : log'[k].type = "turn/start" => k <= s,
                    ~Tombed(s),
                    NEW m \in findAssistantMessages(log'), m > s
             PROVE  Held(s, m)
  BY DEF LastRows, LastTurnStart, IsStart, Tombstones
<1>2. m \in DOMAIN log' /\ log'[m].type = "assistant/message"
  BY DEF findAssistantMessages
<1>3. CASE m \notin DOMAIN log
  <2>1. m \notin findAssistantMessages(log)
    BY <1>3 DEF findAssistantMessages
  <2>2. PICK e \in Event : AppendRow(e)
    BY <1>0, <2>1, AsstStep, QuietAssts DEF TurnAsst, CopyAsst
  <2>3. m = Len(log) + 1 /\ s \in Nat /\ s <= Len(log)
    BY <1>0, <1>1, <2>1, <2>2, NewAssts
  <2>4. Trails(m, s)'
    BY <2>2, <2>3, TrailAdded
  <2> QED BY <1>2, <2>4
<1>4. CASE m \in DOMAIN log
  <2>1. s \in DOMAIN log
    BY <1>0, <1>1, <1>4
  <2>2. LastTurnStart(s)
    BY <1>0, <2>1 DEF LastTurnStart, IsStart
  <2>3. m \in findAssistantMessages(log)
    BY <1>0, <1>4 DEF findAssistantMessages
  <2>4. PICK j \in DOMAIN log : (j = m \/ Refresh(j)) /\ j > s /\ Trails(j, s)
    <3>1. ~\E i \in Tombstones(log) : i > s /\ log[i].turn = log[s].turn
      BY <1>0, <2>1 DEF Tombstones
    <3> QED BY <2>1, <2>2, <2>3, <3>1 DEF LastRows
  <2>5. \/ Trails(j, s)'
        \/ \E k \in DOMAIN log' : k > s /\ Refresh(k)' /\ Trails(k, s)'
    <3>1. CASE RewritesRow(j)
      <4>1. log[j].type # "tool/result"
        BY <2>3, <2>4 DEF findAssistantMessages, Refresh
      <4> QED BY <2>1, <2>4, <3>1, <4>1, RefreshMade
    <3>2. CASE ~RewritesRow(j)
      <4>1. ~UndoesRow(j)
        BY <2>1, <2>2, <2>4, LastTurnKept
      <4>2. s \in Nat /\ s <= Len(log)
        BY <1>0, <2>1
      <4> QED BY <2>4, <3>2, <4>1, <4>2, LeavesTrail
    <3> QED BY <3>1, <3>2
  <2>6. ASSUME Refresh(j) PROVE Refresh(j)'
    <3>1. j \in DOMAIN log' /\ log'[j] = log[j] /\ j \in Nat
      BY <1>0
    <3>2. \A i \in 1..(j - 1) : i \in DOMAIN log /\ log'[i] = log[i]
      BY <1>0
    <3>3. ASSUME isReplayedUserMessage(log', j) PROVE isReplayedUserMessage(log, j)
      <4>1. PICK i \in 1..(j - 1) :
               /\ log'[i].type = "turn/start" /\ isFakeTurn(log'[i].turn)
               /\ \A x \in (i + 1)..(j - 1) : log'[x].type # "turn/start"
        BY <3>3 DEF isReplayedUserMessage
      <4>2. \A x \in (i + 1)..(j - 1) : x \in 1..(j - 1)
        BY <3>1
      <4> QED BY <3>1, <3>2, <3>3, <4>1, <4>2 DEF isReplayedUserMessage
    <3> QED BY <2>6, <3>1, <3>3 DEF Refresh
  <2> QED BY <1>0, <2>4, <2>5, <2>6
<1> QED BY <1>3, <1>4

LEMMA LastRowsInvariant ==
  ASSUME MaxTurns < FakeBase
  PROVE  Spec => [](NoCompact => RowsInTurn /\ LastRows)
<1>1. Init => RowsInTurn /\ LastRows
  BY DEF Init, RowsInTurn, LastRows
<1>2. /\ TypeInv /\ TurnsInv /\ TurnOrder /\ RowsInv /\ CitedInv /\ TypeInv' /\ RealTurns
      /\ Unspent /\ (NoCompact => RowsInTurn /\ LastRows) /\ [Next]_vars
      => (NoCompact => RowsInTurn /\ LastRows)'
  <2> SUFFICES ASSUME TypeInv, TurnsInv, TurnOrder, RowsInv, CitedInv, TypeInv', Unspent, RealTurns,
                      NoCompact => RowsInTurn /\ LastRows, [Next]_vars, NoCompact'
               PROVE  RowsInTurn' /\ LastRows'
    OBVIOUS
  <2>1. Sound
    BY DEF Sound, RowsTyped, LogTyped, TypeInv, TypeOK, CitedInv, TurnsInv
  <2>2. NoCompact
    BY BudgetsFall, BoundsAssumption DEF Unspent, NoCompact
  <2>3. ~Compact
    <3>1. budget["compact"] \in Nat /\ "compact" \in DOMAIN budget
      BY DEF TypeInv, TypeOK, Budgets
    <3> QED BY <2>2, <3>1 DEF Compact, Spend, NoCompact
  <2> QED BY <2>1, <2>2, <2>3, RowsInTurnNext, LastRowsNext
<1> QED BY <1>1, <1>2, TypeInvariant, TurnsInvariant, TurnOrderInvariant, RowsInvariant,
           CitedInvariant, AccountedInvariant, TurnRowsInvariant, PTL DEF Spec

\* While no append was rejected and nothing compacted, the undo button is never
\* dead: the host accepts the undo an up-to-date client offers, because the
\* last turn, when no tombstone of it waits for a redo, has its answers or a
\* rewrite that took their place on the surface and nothing of an earlier turn
\* behind them (UndoButton.tsx, undo-state.ts; index.ts:101-152).
THEOREM UndoIsHonest ==
  ASSUME MaxTurns < FakeBase
  PROVE  ClientSpec => [](NoFault /\ NoCompact => UndoButtonHonest)
<1>1. ASSUME TypeInv, TurnsInv, TurnOrder, RowsInv, FillInv, RowTurn, OnceInv, NoFault,
             RowsInTurn, LastRows, UpToDate, NEW m \in DOMAIN log, UndoShown(View, m)
      PROVE  Undoable(m)
  <2>1. /\ View = log /\ agent = "idle" /\ replay = NoReplay
        /\ DOMAIN log \subseteq Nat /\ DOMAIN surface = 1..Len(surface) /\ Len(surface) \in Nat
        /\ \A p \in DOMAIN surface : surface[p] \in DOMAIN log
    BY <1>1 DEF View, UpToDate, TypeInv, TypeOK
  <2>2. /\ m \in findAssistantMessages(log) /\ log[m].turn \notin undoneTurns(log)
        /\ lastTurn(log) = {log[m].turn} /\ Copied(m)
    BY <1>1, <2>1 DEF UndoShown, findAssistantMessages, Copied, MessageTypes
  <2>3. PICK T \in Nat : T = log[m].turn /\ \E range \in turnLogRange(log, T) : m \in range[1]..range[2]
    BY <1>1, <2>1, <2>2, TurnHolds
  <2>4. PICK range \in turnLogRange(log, T) : m \in range[1]..range[2]
    BY <2>3
  <2>5. PICK s \in DOMAIN log : s = range[1] /\ IsStart(s) /\ log[s].turn = T
    BY <2>4 DEF turnLogRange, Starts, IsStart
  <2>6. /\ range[2] \in DOMAIN log /\ IsBoundary(range[2]) /\ s < range[2] /\ s < m
    <3>1. s # m
      BY <2>2, <2>5 DEF IsStart, findAssistantMessages
    <3>2. range[2] \in DOMAIN log /\ IsBoundary(range[2]) /\ s < range[2]
      BY <2>4, <2>5 DEF turnLogRange, Ends, IsBoundary, BoundaryTypes
    <3> QED BY <2>1, <2>4, <2>5, <3>1, <3>2
  <2>7. LastTurnStart(s)
    <3>1. PICK j \in TurnStarts(log) : log[j].turn = T /\ \A k \in TurnStarts(log) : k <= j
      BY <2>2, <2>3 DEF lastTurn
    <3>2. j = s
      BY <1>1, <2>5, <3>1 DEF OnceInv, StartedOnce, TurnStarts, IsStart
    <3> QED BY <2>5, <3>1, <3>2 DEF LastTurnStart, TurnStarts, IsStart
  <2>8. ASSUME NEW i \in Tombstones(log), log[i].turn = T
        PROVE  \E x \in DOMAIN log : IsStart(x) /\ x > i
    <3>1. redone(log, i)
      BY <2>2, <2>3, <2>8 DEF undoneTurns
    <3> QED BY <3>1 DEF redone, Starts, IsStart
  <2>9. PICK n \in DOMAIN log : (n = m \/ Refresh(n)) /\ n > s /\ Trails(n, s)
    <3>1. ASSUME NEW i \in Tombstones(log), i > s, log[i].turn = T PROVE FALSE
      <4>1. PICK x \in DOMAIN log : IsStart(x) /\ x > i
        BY <2>8, <3>1
      <4>2. x <= s /\ i \in DOMAIN log
        BY <2>7, <4>1 DEF LastTurnStart, Tombstones
      <4> QED BY <2>1, <3>1, <4>1, <4>2
    <3> QED BY <1>1, <2>2, <2>5, <2>6, <2>7, <3>1 DEF LastRows
  <2>10. ~alreadyUndone(T)
    <3> SUFFICES ASSUME surface # <<>>, isUndoTombstone(log[TailNode]), log[TailNode].turn = T
                 PROVE  FALSE
      BY DEF alreadyUndone, TailNode
    <3>1. TombTail /\ TailNode \in Tombstones(log)
      BY <2>1 DEF TombTail, TailNode, Tombstones
    <3>2. PICK x \in DOMAIN log : IsStart(x) /\ x > TailNode
      BY <2>8, <3>1
    <3>3. IsBoundary(x) /\ TailNode \in DOMAIN log
      BY <3>1, <3>2 DEF IsBoundary, IsStart, BoundaryTypes, Tombstones
    <3>4. x < TailNode
      BY <1>1, <2>1, <3>1, <3>3 DEF FillInv, TombLast
    <3> QED BY <2>1, <3>2, <3>3, <3>4
  <2>11. ~Peeled(log, n, T) /\ log[n].type \in {"assistant/message", "user/message"}
    <3>1. CASE n = m
      BY <2>2, <2>3, <3>1
      DEF Peeled, isUndoTombstone, isReplayedUserMessage, findAssistantMessages
    <3>2. CASE Refresh(n)
      <4>1. ~isFakeTurn(log[n].turn)
        BY <3>2, BoundsAssumption, FakeBaseAssumption DEF Refresh, isFakeTurn
      <4> QED BY <3>2, <4>1 DEF Refresh, Peeled, isUndoTombstone
    <3> QED BY <2>9, <3>1, <3>2
  <2>12. ASSUME NEW i \in DOMAIN log, s < i, ~IsBoundary(i), ~isUndoTombstone(log[i])
         PROVE  i \in range[1]..range[2]
    <3>1. PICK x \in DOMAIN log : x < i /\ IsStart(x) /\ Silent(x + 1, i)
      BY <1>1, <2>12 DEF RowsInTurn
    <3>2. x <= s
      BY <2>7, <3>1 DEF LastTurnStart
    <3>3. ~(range[2] < i)
      <4>1. x + 1 <= range[2]
        BY <2>1, <2>6, <3>2
      <4> QED BY <2>6, <3>1, <4>1 DEF Silent
    <3> QED BY <2>1, <2>5, <2>6, <2>12, <3>3
  <2>13. n \in range[1]..range[2]
    <3>1. ~IsBoundary(n) /\ ~isUndoTombstone(log[n])
      BY <2>11 DEF IsBoundary, BoundaryTypes, isUndoTombstone
    <3> QED BY <2>9, <2>12, <3>1
  <2>14. isSurfaceTailTurn(log, surface, T)
    <3>1. PICK p \in DOMAIN surface :
            surface[p] = n /\ \A q \in DOMAIN surface : p <= q => s < surface[q]
      BY <2>9 DEF Trails
    <3> DEFINE Held == {q \in DOMAIN surface :
                          surface[q] \in range[1]..range[2] /\ ~Peeled(log, surface[q], T)}
    <3>2. p \in Held
      BY <2>11, <2>13, <3>1
    <3>3. Held \in SUBSET (0..Len(surface)) /\ Held # {}
      BY <2>1, <3>2
    <3>4. PICK last \in Held : \A q \in Held : q <= last
      BY <2>1, <3>3, GreatestOf
    <3>5. last \in DOMAIN surface /\ p <= last
      BY <3>2, <3>4
    <3>6. ASSUME NEW q \in (last + 1)..Len(surface), ~Peeled(log, surface[q], T) PROVE FALSE
      <4>1. q \in DOMAIN surface /\ p < q /\ ~(q <= last)
        BY <2>1, <3>5
      <4>2. PICK i \in DOMAIN log : i = surface[q] /\ s < i
        BY <2>1, <3>1, <4>1
      <4>3. i \notin range[1]..range[2]
        BY <3>4, <3>6, <4>1, <4>2
      <4>4. ~IsBoundary(i) /\ ~isUndoTombstone(log[i])
        BY <1>1, <3>6, <4>1, <4>2 DEF RowsInv, SurfaceRows, Peeled
      <4> QED BY <2>12, <4>2, <4>3, <4>4
    <3> QED BY <2>4, <3>4, <3>6 DEF isSurfaceTailTurn
  <2>15. OnSurface(n) /\ log[n].type # "system/message"
    BY <2>9, <2>11 DEF Trails, OnSurface
  <2> QED BY <1>1, <2>1, <2>2, <2>3, <2>4, <2>10, <2>13, <2>14, <2>15, UndoAccepted
<1>2. /\ TypeInv /\ TurnsInv /\ TurnOrder /\ RowsInv /\ RowTurn
      /\ (NoFault => FillInv) /\ (NoFault => OnceInv) /\ (NoCompact => RowsInTurn /\ LastRows)
      => (NoFault /\ NoCompact => UndoButtonHonest)
  BY <1>1 DEF UndoButtonHonest
<1> QED BY <1>2, ClientIsUndo, TypeInvariant, TurnsInvariant, TurnOrderInvariant, RowsInvariant,
           FillInvariant, TurnRowsInvariant, OnceInvariant, LastRowsInvariant, PTL

=============================================================================
