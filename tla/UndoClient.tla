----------------------------- MODULE UndoClient -----------------------------
(***************************************************************************)
(* The browser half of dsh-undo over the host half: the state one client   *)
(* derives from the events it has received (client/undo-state.ts), the two *)
(* buttons that read it (UndoButton.tsx, RedoAction.tsx) and the RPCs they *)
(* send (client/undo-engine.ts).  The client may lag behind the log, and a *)
(* request may be served after the session has moved on.                   *)
(***************************************************************************)
EXTENDS Undo

CONSTANT MaxClicks   \* requests the user sends

ASSUME MaxClicksAssumption == MaxClicks \in Nat

VARIABLES window,    \* how many events of the log the client has received
          requests,  \* undo and redo RPCs on their way to the host
          clicks     \* requests sent so far

clientVars == <<window, requests, clicks>>

Redo == [verb |-> "redo", message |-> 0]
UndoOf(m) == [verb |-> "undo", message |-> m]

-----------------------------------------------------------------------------
(* deriveUndoState over the received prefix view.                          *)

View == SubSeq(log, 1, window)

TurnStarts(view) == {i \in DOMAIN view : view[i].type = "turn/start"}

lastTurn(view) ==
  {view[i].turn : i \in {j \in TurnStarts(view) : \A k \in TurnStarts(view) : k <= j}}

\* No turn yet, or the last turn/start is followed by a turn/end of its turn.
idle(view) ==
  \A i \in TurnStarts(view) :
    (\A k \in TurnStarts(view) : k <= i) => \E e \in Ends(view, view[i].turn) : e > i

\* A replayed boundary of the tombstone's turn follows the tombstone.
redone(view, i) ==
  \E s \in Starts(view, FakeBase + view[i].turn) : s > i

\* Mutant of undoneTurns: an undo of a redone turn is not recognized.
undoneTurnsReal(view) ==
  {view[i].turn : i \in {j \in Tombstones(view) :
                           ~redone(view, j) /\ ~isFakeTurn(view[j].turn)}}

undoneTurns(view) ==
  {view[i].turn : i \in {j \in Tombstones(view) : ~redone(view, j)}}

\* The chat row an event renders under: an assistant row is keyed by its turn
\* and step, any other message by its own identity.
NodeKey(e, i) ==
  IF e.type = "assistant/message" THEN <<e.turn, e.step>> ELSE <<i>>

\* Mutant of hiddenKeys: a redone turn shows its original rows again.
hiddenKeysUndone(view) ==
  UNION {{NodeKey(view[s], s) : s \in {view[i].cites[k] : k \in DOMAIN view[i].cites}} :
           i \in {j \in Tombstones(view) : ~redone(view, j)}}

hiddenKeys(view) ==
  UNION {{NodeKey(view[s], s) : s \in {view[i].cites[k] : k \in DOMAIN view[i].cites}} :
           i \in Tombstones(view)}

\* Mutant of UndoShown: the button does not ask for the last turn.
UndoShownAnywhere(view, m) ==
  /\ m \in findAssistantMessages(view)
  /\ view[m].turn \notin undoneTurns(view)
  /\ idle(view)

UndoShown(view, m) ==
  /\ m \in findAssistantMessages(view)
  /\ view[m].turn \notin undoneTurns(view)
  /\ lastTurn(view) = {view[m].turn}
  /\ idle(view)

\* The redo entry sits in the turn-tail row of the message's turn.
RedoShown(view, m) ==
  /\ m \in findAssistantMessages(view)
  /\ view[m].turn \in undoneTurns(view)

-----------------------------------------------------------------------------
ClientInit == Init /\ window = 0 /\ requests = {} /\ clicks = 0

Receive ==
  /\ window < Len(log)
  /\ window' = Len(log)
  /\ UNCHANGED <<vars, requests, clicks>>

Send(r) ==
  /\ clicks < MaxClicks /\ clicks' = clicks + 1
  /\ requests' = requests \cup {[id |-> clicks, call |-> r]}
  /\ UNCHANGED <<vars, window>>

ClickUndo == \E m \in DOMAIN View : UndoShown(View, m) /\ Send(UndoOf(m))
ClickRedo == (\E m \in DOMAIN View : RedoShown(View, m)) /\ Send(Redo)

\* The host takes one request and accepts it ...
ServeUndo ==
  \E r \in requests :
    /\ r.call.verb = "undo" /\ performUndo(r.call.message)
    /\ requests' = requests \ {r}
    /\ UNCHANGED <<window, clicks>>

ServeRedo ==
  \E r \in requests :
    /\ r.call.verb = "redo" /\ RedoStart
    /\ requests' = requests \ {r}
    /\ UNCHANGED <<window, clicks>>

\* ... or rejects it, and nothing changes.
Reject ==
  \E r \in requests :
    /\ replay = NoReplay
    /\ IF r.call.verb = "undo" THEN ~Undoable(r.call.message) ELSE RedoTarget = {}
    /\ requests' = requests \ {r}
    /\ UNCHANGED <<vars, window, clicks>>

Replaying ==
  (RedoAppend \/ RedoDone \/ RedoFail \/ RedoFailOpen) /\ UNCHANGED clientVars

ClientNext ==
  \/ Harness /\ UNCHANGED clientVars
  \/ Replaying
  \/ Receive \/ ClickUndo \/ ClickRedo
  \/ ServeUndo \/ ServeRedo \/ Reject

ClientSpec == ClientInit /\ [][ClientNext]_<<vars, clientVars>>

-----------------------------------------------------------------------------
(* Properties.                                                             *)

UpToDate == window = Len(log) /\ agent = "idle" /\ replay = NoReplay

\* The transcript is the model's context: once the client is up to date, the
\* message rows it leaves visible are exactly those on the surface.  (Without
\* compaction, whose summary keeps the compacted rows visible.)
TranscriptIsContext ==
  UpToDate =>
    {i \in DOMAIN log : log[i].type \in MessageTypes /\ NodeKey(log[i], i) \notin hiddenKeys(View)}
      = {surface[p] : p \in {q \in DOMAIN surface : log[surface[q]].type \in MessageTypes}}

\* The undo button is never dead: what an up-to-date client offers, the host accepts.
UndoButtonHonest ==
  UpToDate => \A m \in DOMAIN log : UndoShown(View, m) => Undoable(m)

\* A redo the host would accept is offered in the tail row of its turn, when
\* that turn has an assistant message to carry the row.
RedoIsOffered ==
  UpToDate =>
    \A i \in RedoTarget : \A m \in findAssistantMessages(log) :
      log[m].turn = log[i].turn => RedoShown(View, m)

=============================================================================
