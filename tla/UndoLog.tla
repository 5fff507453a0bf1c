------------------------------ MODULE UndoLog ------------------------------
(***************************************************************************)
(* The vocabulary of dsh-undo: the events of a session log, the surface    *)
(* (the model-visible rows, a sequence of log positions), and the pure     *)
(* decisions plugins/undo/pure.ts takes over the two.  A log position      *)
(* stands for the event's seq; positions start at 1, seqs at 0.            *)
(*                                                                         *)
(* A lookup that may find nothing is the set of what it finds: {} is the   *)
(* code's undefined.                                                       *)
(***************************************************************************)
EXTENDS Naturals, Sequences

CONSTANT FakeBase   \* offset of replayed turn numbers

ASSUME FakeBaseAssumption == FakeBase \in Nat \ {0}

MessageTypes  == {"user/message", "assistant/message", "tool/result"}
BoundaryTypes == {"turn/start", "turn/end"}
EventTypes    == MessageTypes \cup BoundaryTypes \cup {"system/message"}

\* op: "append" and "replace" are surface operations, "none" is a log-only
\* event.  turn is 0 where the event carries no turn (user/message).  body is
\* the position of the row whose content the event carries, 0 for an empty
\* content: a redo copy keeps the body of the row it copies.  cites is
\* sourceEventSeqs of a replacement, in surface order.
Event == [type: EventTypes, turn: Nat, step: Nat,
          op: {"append", "replace", "none"}, body: Nat, cites: Seq(Nat)]

Boundary(type, t)      == [type |-> type, turn |-> t, step |-> 0,
                           op |-> "none", body |-> 0, cites |-> <<>>]
Row(type, t, step, b)  == [type |-> type, turn |-> t, step |-> step,
                           op |-> "append", body |-> b, cites |-> <<>>]
Rewrite(type, t, b, c) == [type |-> type, turn |-> t, step |-> 0,
                           op |-> "replace", body |-> b, cites |-> c]

isFakeTurn(t) == t >= FakeBase

isUndoTombstone(e) ==
  e.type = "system/message" /\ e.op = "replace" /\ e.body = 0

buildTombstoneAppend(t, step, shadowed) ==
  [type |-> "system/message", turn |-> t, step |-> step,
   op |-> "replace", body |-> 0, cites |-> shadowed]

Tombstones(log) == {i \in DOMAIN log : isUndoTombstone(log[i])}

Starts(log, t) == {i \in DOMAIN log : log[i].type = "turn/start" /\ log[i].turn = t}
Ends(log, t)   == {i \in DOMAIN log : log[i].type = "turn/end"   /\ log[i].turn = t}

\* The first turn/end of t that follows a turn/start of t, with the last
\* turn/start before it.
turnLogRange(log, t) ==
  {range \in Starts(log, t) \X Ends(log, t) :
     /\ range[1] < range[2]
     /\ \A e \in Ends(log, t)   : e < range[2] => \A s \in Starts(log, t) : e < s
     /\ \A s \in Starts(log, t) : s < range[2] => s <= range[1]}

\* The closest earlier turn/start of a user message opens a fake turn.
isReplayedUserMessage(log, i) ==
  /\ log[i].type = "user/message"
  /\ \E j \in 1..(i - 1) :
       /\ log[j].type = "turn/start" /\ isFakeTurn(log[j].turn)
       /\ \A k \in (j + 1)..(i - 1) : log[k].type # "turn/start"

\* Mutant of Peeled: the walk stops at a tombstone, so an undo cannot cascade.
PeeledNotTombstone(log, i, t) ==
  \/ isFakeTurn(log[i].turn) /\ log[i].turn # t
  \/ isReplayedUserMessage(log, i)

\* Rows the tail walk skips when it looks for the tail of turn t.
Peeled(log, i, t) ==
  \/ isUndoTombstone(log[i])
  \/ isFakeTurn(log[i].turn) /\ log[i].turn # t
  \/ isReplayedUserMessage(log, i)

isSurfaceTailTurn(log, nodes, t) ==
  \E range \in turnLogRange(log, t) : \E p \in DOMAIN nodes :
    /\ ~Peeled(log, nodes[p], t)
    /\ nodes[p] \in range[1]..range[2]
    /\ \A q \in (p + 1)..Len(nodes) : Peeled(log, nodes[q], t)

isSurfaceTail(nodes, i) == nodes # <<>> /\ nodes[Len(nodes)] = i

shadowedTurnNodes(nodes, range) ==
  {i \in {nodes[p] : p \in DOMAIN nodes} : i \in range[1]..range[2]}

trailingTurnRun(nodes, turnSeqs) ==
  {run \in (DOMAIN nodes) \X (DOMAIN nodes) :
     /\ run[1] <= run[2]
     /\ \A p \in run[1]..run[2] : nodes[p] \in turnSeqs
     /\ \A p \in (run[2] + 1)..Len(nodes) : nodes[p] \notin turnSeqs
     /\ run[1] > 1 => nodes[run[1] - 1] \notin turnSeqs}

\* The redo target is the last tombstone of the LOG, wherever it is on the surface.
findLastUndoTombstone(log) ==
  {i \in Tombstones(log) : \A j \in Tombstones(log) : j <= i}

findAssistantMessages(log) ==
  {i \in DOMAIN log : log[i].type = "assistant/message" /\ log[i].op = "append"}

\* The highest step of the turn's assistant messages, or 0.
lastStepOfTurn(log, range) ==
  LET steps == {0} \cup {log[i].step : i \in {j \in range[1]..range[2] :
                                            log[j].type = "assistant/message"}}
  IN  {n \in steps : \A m \in steps : m <= n}

\* Mutants of hasReplayRole: the plan forgets tool results; it copies rewrites.
hasReplayRoleNoTools(e) ==
  \/ e.type \in BoundaryTypes
  \/ e.type \in {"user/message", "assistant/message"} /\ e.op = "append"
hasReplayRoleAnyOp(e) == e.type \in BoundaryTypes \cup MessageTypes

\* What buildRedoAppendPlan makes a step of, and the step it makes.
hasReplayRole(e) ==
  \/ e.type \in BoundaryTypes
  \/ e.type \in MessageTypes /\ e.op = "append"

replayCopy(e, fakeTurn) ==
  [e EXCEPT !.turn  = IF e.type = "user/message" THEN 0 ELSE fakeTurn,
            !.cites = <<>>]

\* The surface fold of a replacement: positions lo..hi become the one node i.
Splice(nodes, lo, hi, i) ==
  [p \in 1..(Len(nodes) - (hi - lo)) |->
     IF p < lo THEN nodes[p] ELSE IF p = lo THEN i ELSE nodes[p + (hi - lo)]]
=============================================================================
