------------------------------ MODULE Messenger -----------------------------
(***************************************************************************)
(* dsh-session-messenger (plugins/session-messenger/index.ts and           *)
(* decision.ts): agents of one host relay messages to each other and the   *)
(* reply to a relay routes back when the turn that claimed it ends.        *)
(*                                                                         *)
(* The tool and the listeners are synchronous, so each is one action.  The *)
(* agent loop is the harness, modelled from what index.ts says of it: a    *)
(* followup goes to the next-turn inbox and wakes, a message is the sole   *)
(* ordinary message of its own turn.  Other plugins log context rows       *)
(* (user/message of another source) inside a turn, as dsh-memory does.     *)
(*                                                                         *)
(* A delivered message is known by its position in deliveries; 0 is input  *)
(* typed by a human, and hop 0 is hopOfLastUserMessage's undefined.        *)
(***************************************************************************)
EXTENDS Naturals, Sequences

CONSTANTS Sessions,
          Title,         \* Title[s]: the session's title
          Cwd,           \* Cwd[s]: its workspace
          MaxHops,       \* config.maxHops
          AutoWake,      \* config.autoWake
          MaxRelays,     \* bound: relays sent
          MaxInputs,     \* bound: human inputs
          MaxContexts,   \* bound: context rows logged inside turns
          MaxDisposals,  \* bound: sessions disposed
          MaxFaults      \* bound: replies the sender's agent throws at

ASSUME ConfigAssumption == MaxHops \in Nat \ {0} /\ AutoWake \in BOOLEAN
ASSUME BoundsAssumption ==
  {MaxRelays, MaxInputs, MaxContexts, MaxDisposals, MaxFaults} \subseteq Nat

VARIABLES agent,       \* agent[s]: "closed", "none" (listed, not live), "idle", "running"
          inbox,       \* inbox[s]: the next-turn inbox
          current,     \* current[s]: the message of s's running turn
          lastHop,     \* lastHop[s]: hop of the last user/message of s's log
          lastEnd,     \* reason of the latest turn/end
          watches,     \* the reply routes armed
          deliveries,  \* every message the plugin delivered
          budget       \* what the bounds still allow

vars == <<agent, inbox, current, lastHop, lastEnd, watches, deliveries, budget>>

Human   == 0
Reasons == {"completed", "max-tokens", "error", "other"}
Budgets == {"relay", "input", "context", "dispose", "fault"}

Message == [from: Sessions, to: Sessions, senderSessionId: Sessions,
            hop: Nat, re: Nat, depth: Nat]
Watch   == [id: Nat, sender: Sessions, target: Sessions, hop: Nat, seen: BOOLEAN]

Live(s)   == agent[s] \in {"idle", "running"}
Listed(s) == agent[s] # "closed"

Init ==
  /\ agent \in [Sessions -> {"none", "idle"}]
  /\ inbox = [s \in Sessions |-> <<>>]
  /\ current = [s \in Sessions |-> Human]
  /\ lastHop = [s \in Sessions |-> 0]
  /\ lastEnd = "none"
  /\ watches = {} /\ deliveries = <<>>
  /\ budget = [b \in Budgets |-> CASE b = "relay"   -> MaxRelays
                                   [] b = "input"   -> MaxInputs
                                   [] b = "context" -> MaxContexts
                                   [] b = "dispose" -> MaxDisposals
                                   [] b = "fault"   -> MaxFaults]

Spend(b) == budget[b] > 0 /\ budget' = [budget EXCEPT ![b] = @ - 1]

-----------------------------------------------------------------------------
(* decision.ts.                                                            *)

\* Mutant of nextHop: one delivery past the ceiling.
nextHopPast(hop) == {h \in {hop + 1} : h <= MaxHops + 1}

\* The hop of the next message of a chain; nothing past the ceiling.
nextHop(hop) == {h \in {hop + 1} : h <= MaxHops}

catalog(c) == {s \in Sessions : Listed(s) /\ Cwd[s] = Cwd[c]}

\* An exact id wins, then an exact title that is unique in the catalog; a
\* session never resolves to itself.
resolveTarget(to, self) ==
  LET byTitle == {s \in catalog(self) : Title[s] = to} IN
  IF to \in catalog(self) THEN {to} \ {self}
  ELSE {s \in byTitle \ {self} : byTitle = {s}}

\* Mutant of replyPolicy: a truncated turn does not reply.
replyPolicyStrict(reason) == reason \in {"completed", "error"}

replyPolicy(reason) == reason \in {"completed", "max-tokens", "error"}

planReply(reason, hop) == IF replyPolicy(reason) THEN nextHop(hop) ELSE {}

-----------------------------------------------------------------------------
(* The harness.                                                            *)

Attach(s) ==
  /\ agent[s] = "none"
  /\ agent' = [agent EXCEPT ![s] = "idle"]
  /\ UNCHANGED <<inbox, current, lastHop, lastEnd, watches, deliveries, budget>>

Input(s) ==
  /\ Live(s) /\ Spend("input")
  /\ inbox' = [inbox EXCEPT ![s] = Append(@, Human)]
  /\ UNCHANGED <<agent, current, lastHop, lastEnd, watches, deliveries>>

\* A message delivered with autoWake off is parked: it wakes nobody.
Wakes(m) == (m # Human /\ ~AutoWake) => deliveries[m].re = 0

\* Mutant of markSeen: the claim is not noticed.
markSeenNever(m) == watches

\* user/message listener: the logged message is a relay we watch.
markSeen(m) ==
  {IF w.id = m THEN [w EXCEPT !.seen = TRUE] ELSE w : w \in watches}

\* An idle agent that was woken takes the first message of its inbox; the new
\* turn logs it, and the listener sees it.
Claim(s) ==
  /\ agent[s] = "idle"
  /\ \E k \in DOMAIN inbox[s] : Wakes(inbox[s][k])
  /\ LET m == Head(inbox[s]) IN
       /\ current' = [current EXCEPT ![s] = m]
       /\ lastHop' = [lastHop EXCEPT ![s] = IF m = Human THEN 0 ELSE deliveries[m].hop]
       /\ watches' = markSeen(m)
  /\ agent' = [agent EXCEPT ![s] = "running"]
  /\ inbox' = [inbox EXCEPT ![s] = Tail(@)]
  /\ UNCHANGED <<lastEnd, deliveries, budget>>

\* Another plugin logs a context row inside the turn: it is now the log's last
\* user/message, and not a relay.
ContextRow(s) ==
  /\ agent[s] = "running" /\ Spend("context")
  /\ lastHop' = [lastHop EXCEPT ![s] = 0]
  /\ UNCHANGED <<agent, inbox, current, lastEnd, watches, deliveries>>

-----------------------------------------------------------------------------
(* index.ts.                                                               *)

\* followup or send: the message enters the inbox of its addressee.
Post(message) ==
  /\ deliveries' = Append(deliveries, message)
  /\ inbox' = [inbox EXCEPT ![message.to] = Append(@, Len(deliveries) + 1)]

\* How many deliveries lie between a message and the human input behind it.
DepthOf(m) == IF m = Human THEN 0 ELSE deliveries[m].depth

\* relay_message(to, ..), called by the running agent of session c.
Relay(c, to) ==
  /\ agent[c] = "running" /\ Spend("relay")
  /\ \E hop \in nextHop(lastHop[c]), t \in resolveTarget(to, c) :
       /\ Live(t)
       /\ Post([from |-> c, to |-> t, senderSessionId |-> c, hop |-> hop, re |-> 0,
                depth |-> DepthOf(current[c]) + 1])
       /\ watches' = watches \cup
            {[id |-> Len(deliveries) + 1, sender |-> c, target |-> t, hop |-> hop,
              seen |-> FALSE]}
  /\ UNCHANGED <<agent, current, lastHop, lastEnd>>

\* The reply of session s is posted, or there is none to post, or the sender's
\* agent throws and the listener contains it.
deliverReply(w, s, reason) ==
  LET plan == IF Live(w.sender) THEN planReply(reason, w.hop) ELSE {} IN
  \/ plan = {} /\ UNCHANGED <<deliveries, inbox, budget>>
  \/ /\ \E hop \in plan :
          Post([from |-> s, to |-> w.sender, senderSessionId |-> w.sender,
                hop |-> hop, re |-> w.id, depth |-> DepthOf(w.id) + 1])
     /\ UNCHANGED budget
  \/ plan # {} /\ Spend("fault") /\ UNCHANGED <<deliveries, inbox>>

\* Mutant of SeenBy: any session's turn end.
SeenByAnyone(s) == {w \in watches : w.seen}

SeenBy(s) == {w \in watches : w.target = s /\ w.seen}

\* The watches are a Map: the first in insertion order, which is id order.
FirstSeen(s) == {w \in SeenBy(s) : \A v \in SeenBy(s) : w.id <= v.id}

\* Mutant of Remaining: the watch is left in the map.
RemainingAll(w) == watches

Remaining(w) == watches \ {w}

\* The turn of s ends, and the turn/end listener runs.
TurnEnd(s, reason) ==
  /\ agent[s] = "running"
  /\ agent' = [agent EXCEPT ![s] = "idle"]
  /\ current' = [current EXCEPT ![s] = Human]
  /\ lastEnd' = reason
  /\ \/ FirstSeen(s) = {} /\ UNCHANGED <<watches, deliveries, inbox, budget>>
     \/ \E w \in FirstSeen(s) : watches' = Remaining(w) /\ deliverReply(w, s, reason)
  /\ UNCHANGED lastHop

\* Mutant of Targeting: the disposed session's watches as a sender are dropped.
TargetingSender(s) == {w \in watches : w.sender = s}

Targeting(s) == {w \in watches : w.target = s}

\* The session is disposed with its inbox, and its listener drops its watches.
Dispose(s) ==
  /\ Listed(s) /\ Spend("dispose")
  /\ agent' = [agent EXCEPT ![s] = "closed"]
  /\ inbox' = [inbox EXCEPT ![s] = <<>>]
  /\ current' = [current EXCEPT ![s] = Human]
  /\ watches' = watches \ Targeting(s)
  /\ UNCHANGED <<lastHop, lastEnd, deliveries>>

-----------------------------------------------------------------------------
Addresses == Sessions \cup {Title[s] : s \in Sessions}

Step(s) ==
  \/ Attach(s) \/ Input(s) \/ Claim(s) \/ ContextRow(s) \/ Dispose(s)
  \/ \E to \in Addresses : Relay(s, to)
  \/ \E reason \in Reasons : TurnEnd(s, reason)

Next == \E s \in Sessions : Step(s)

Spec == Init /\ [][Next]_vars

\* A woken agent claims its inbox, and every turn ends.
Fairness == \A s \in Sessions :
  WF_vars(Claim(s)) /\ WF_vars(\E reason \in Reasons : TurnEnd(s, reason))

FairSpec == Spec /\ Fairness

-----------------------------------------------------------------------------
(* Properties.                                                             *)

TypeOK ==
  /\ agent \in [Sessions -> {"closed", "none", "idle", "running"}]
  /\ inbox \in [Sessions -> Seq(0..Len(deliveries))]
  /\ current \in [Sessions -> 0..Len(deliveries)]
  /\ lastHop \in [Sessions -> 0..MaxHops]
  /\ lastEnd \in Reasons \cup {"none"}
  /\ watches \subseteq Watch
  /\ deliveries \in Seq(Message)
  /\ budget \in [Budgets -> Nat]

\* A relay is answered at most once.
OneReplyPerRelay ==
  \A i, j \in DOMAIN deliveries :
    deliveries[i].re = deliveries[j].re /\ deliveries[i].re # 0 => i = j

\* A reply goes back along its relay, to the session that asked from the one
\* that was asked, whoever else relayed in the meantime.
ReplyToAsker ==
  \A i \in DOMAIN deliveries :
    deliveries[i].re # 0 =>
      LET relay == deliveries[deliveries[i].re] IN
        /\ deliveries[i].re < i /\ relay.re = 0
        /\ deliveries[i].to = relay.from /\ deliveries[i].from = relay.to

\* A watch is owed: its relay waits in the target's inbox, or is the message of
\* the turn the target runs, and exactly then it has been seen.  So no watch
\* leaks, and a turn never has two.
WatchOwed ==
  \A w \in watches :
    IF w.seen THEN agent[w.target] = "running" /\ current[w.target] = w.id
    ELSE \E k \in DOMAIN inbox[w.target] : inbox[w.target][k] = w.id

\* The hop gate bounds the chain, relays and replies together: a human input
\* causes deliveries at most MaxHops deep, so two sessions never keep each
\* other busy.  A context row logged in a turn hides the relay that started it
\* and starts the count again, once for each row.
ChainBounded ==
  \A i \in DOMAIN deliveries :
    deliveries[i].depth <= MaxHops * (1 + MaxContexts - budget["context"])

Answered(r) == \E i \in DOMAIN deliveries : deliveries[i].re = r

\* A watch goes away with a reply, or for a reason the asker can be told: the
\* target is gone, the sender is gone, the chain is too deep, the turn ended
\* in a way that never replies, or the delivery threw.
AnsweredUnlessExcused ==
  [][\A w \in watches :
       (\A v \in watches' : v.id # w.id) =>
         \/ Answered(w.id)'
         \/ agent'[w.target] = "closed"
         \/ ~Live(w.sender)
         \/ w.hop = MaxHops
         \/ lastEnd' = "other"
         \/ budget'["fault"] < budget["fault"]]_vars

\* A relay is not owed for ever: it is answered or dropped.
RelayDischarged ==
  \A r \in 1..(2 * MaxRelays) :
    (\E w \in watches : w.id = r) ~> (\A w \in watches : w.id # r)

\* What a relay goes through is a request that is answered at most once.
Ledger == INSTANCE RelayLedger WITH
  asked   <- {i \in DOMAIN deliveries : deliveries[i].re = 0},
  answers <- {[reply |-> i, relay |-> deliveries[i].re] :
                i \in {j \in DOMAIN deliveries : deliveries[j].re # 0}},
  closed  <- {i \in DOMAIN deliveries :
                /\ deliveries[i].re = 0 /\ ~Answered(i)
                /\ \A w \in watches : w.id # i}

KeepsLedger == Ledger!Spec

-----------------------------------------------------------------------------
(* What the documentation says and the code does not do.                   *)

\* README: maxHops is the ceiling of a chain's depth.
MaxHopsIsCeiling == \A i \in DOMAIN deliveries : deliveries[i].depth <= MaxHops
=============================================================================
