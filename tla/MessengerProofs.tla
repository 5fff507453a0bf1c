--------------------------- MODULE MessengerProofs --------------------------
(***************************************************************************)
(* Proofs about Messenger, for every set of sessions and every bound.      *)
(*                                                                         *)
(* Routing carries what a reply needs of its watch, and the refinement of  *)
(* RelayLedger.  OwedInv adds where the relay of a watch is: in an inbox,  *)
(* or with the turn that claimed it.  DepthInv bounds how deep a chain is  *)
(* by the hop it was delivered at and the context rows that hid one.       *)
(***************************************************************************)
EXTENDS Messenger, SequenceTheorems, TLAPS

-----------------------------------------------------------------------------
(* The inductive invariant.                                                  *)

\* Every delivery passed the hop gate.
HopsBounded == \A i \in DOMAIN deliveries : deliveries[i].hop \in 1..MaxHops

\* A watch records an unanswered relay as it was delivered.
Routed(w) ==
  /\ w.id \in DOMAIN deliveries
  /\ deliveries[w.id].re = 0
  /\ deliveries[w.id].from = w.sender
  /\ deliveries[w.id].to = w.target
  /\ ~Answered(w.id)

Routes == \A w \in watches : Routed(w)

\* No relay has two watches.
OneWatch == \A v, w \in watches : v.id = w.id => v = w

Routing == HopsBounded /\ Routes /\ OneWatch /\ ReplyToAsker /\ OneReplyPerRelay

IInv == TypeOK /\ Routing

-----------------------------------------------------------------------------
(* Sequences and deliveries.                                                 *)

LEMMA SeqWiden ==
  ASSUME NEW S, NEW T, S \subseteq T, NEW q \in Seq(S)
  PROVE  q \in Seq(T)
<1>1. Len(q) \in Nat /\ q \in [1..Len(q) -> S]
  BY LenProperties
<1>2. q \in [1..Len(q) -> T]
  BY <1>1
<1> QED BY <1>1, <1>2, IsASeq

LEMMA Posted ==
  ASSUME TypeOK, NEW message \in Message, Post(message)
  PROVE  /\ deliveries' \in Seq(Message)
         /\ inbox' \in [Sessions -> Seq(0..Len(deliveries'))]
         /\ Len(deliveries) \in Nat
         /\ Len(deliveries') = Len(deliveries) + 1
         /\ DOMAIN deliveries = 1..Len(deliveries)
         /\ DOMAIN deliveries' = 1..(Len(deliveries) + 1)
         /\ \A i \in 1..Len(deliveries) : deliveries'[i] = deliveries[i]
         /\ deliveries'[Len(deliveries) + 1] = message
<1>1. /\ deliveries' \in Seq(Message)
      /\ Len(deliveries) \in Nat
      /\ Len(deliveries') = Len(deliveries) + 1
      /\ DOMAIN deliveries = 1..Len(deliveries)
      /\ DOMAIN deliveries' = 1..(Len(deliveries) + 1)
      /\ \A i \in 1..Len(deliveries) : deliveries'[i] = deliveries[i]
      /\ deliveries'[Len(deliveries) + 1] = message
  BY AppendProperties, LenProperties DEF Post, TypeOK
<1>2. ASSUME NEW s \in Sessions
      PROVE  /\ inbox[s] \in Seq(0..Len(deliveries'))
             /\ Append(inbox[s], Len(deliveries) + 1) \in Seq(0..Len(deliveries'))
  <2>1. inbox[s] \in Seq(0..Len(deliveries))
    BY DEF TypeOK
  <2>2. 0..Len(deliveries) \subseteq 0..Len(deliveries')
    BY <1>1
  <2>3. inbox[s] \in Seq(0..Len(deliveries'))
    BY <2>1, <2>2, SeqWiden
  <2>4. Len(deliveries) + 1 \in 0..Len(deliveries')
    BY <1>1
  <2> QED BY <2>3, <2>4, AppendProperties
<1>3. inbox' \in [Sessions -> Seq(0..Len(deliveries'))]
  BY <1>2 DEF Post, TypeOK
<1> QED BY <1>1, <1>3

LEMMA SpendType ==
  ASSUME TypeOK, NEW b \in Budgets, Spend(b)
  PROVE  budget' \in [Budgets -> Nat]
BY DEF TypeOK, Spend

\* A delivered message's depth and hop are what the type says.
LEMMA DepthType ==
  ASSUME TypeOK, NEW m \in 0..Len(deliveries)
  PROVE  DepthOf(m) \in Nat
<1>1. CASE m = Human
  BY <1>1 DEF DepthOf
<1>2. CASE m # Human
  <2>1. m \in DOMAIN deliveries
    BY <1>2, LenProperties DEF TypeOK, Human
  <2>2. deliveries[m] \in Message
    BY <2>1, ElementOfSeq, LenProperties DEF TypeOK
  <2> QED BY <1>2, <2>2 DEF DepthOf, Message
<1> QED BY <1>1, <1>2

\* What the gate lets through.
LEMMA HopGate ==
  ASSUME NEW hop \in Nat, NEW h \in nextHop(hop)
  PROVE  h \in Nat /\ h \in 1..MaxHops
BY ConfigAssumption DEF nextHop

LEMMA TargetIsOther ==
  ASSUME NEW c \in Sessions, NEW to, NEW t \in resolveTarget(to, c)
  PROVE  t \in Sessions /\ t # c
BY DEF resolveTarget, catalog

-----------------------------------------------------------------------------
(* The three ways a step may change the ledger of deliveries and watches.    *)

\* Nothing is delivered and every watch left is one there was.
KeepsWatches ==
  /\ deliveries' = deliveries
  /\ watches' \subseteq Watch
  /\ \A w \in watches' : \E v \in watches :
       v.id = w.id /\ v.sender = w.sender /\ v.target = w.target
  /\ \A v, w \in watches' : v.id = w.id => v = w

\* A relay is delivered and its watch armed.
AddsRelay ==
  \E message \in Message, w \in Watch :
    /\ Post(message)
    /\ message.re = 0 /\ message.hop \in 1..MaxHops
    /\ w.id = Len(deliveries) + 1
    /\ w.sender = message.from /\ w.target = message.to
    /\ watches' = watches \cup {w}

\* A reply is delivered and its watch removed.
AddsReply ==
  \E message \in Message, w \in watches :
    /\ Post(message)
    /\ message.re = w.id /\ message.hop \in 1..MaxHops
    /\ message.to = w.sender /\ message.from = w.target
    /\ watches' = watches \ {w}

Move == KeepsWatches \/ AddsRelay \/ AddsReply

LEMMA KeepsWatchesRouting ==
  ASSUME IInv, KeepsWatches
  PROVE  Routing'
<1>1. HopsBounded' /\ ReplyToAsker' /\ OneReplyPerRelay'
  BY DEF IInv, Routing, KeepsWatches, HopsBounded, ReplyToAsker, OneReplyPerRelay
<1>2. Routes'
  BY DEF IInv, Routing, KeepsWatches, Routes, Routed, Answered
<1>3. OneWatch'
  BY DEF KeepsWatches, OneWatch
<1> QED BY <1>1, <1>2, <1>3 DEF Routing

LEMMA AddsRelayRouting ==
  ASSUME IInv, AddsRelay
  PROVE  Routing' /\ watches' \subseteq Watch
<1>1. PICK message \in Message, w \in Watch :
        /\ Post(message)
        /\ message.re = 0 /\ message.hop \in 1..MaxHops
        /\ w.id = Len(deliveries) + 1
        /\ w.sender = message.from /\ w.target = message.to
        /\ watches' = watches \cup {w}
  BY DEF AddsRelay
<1>2. TypeOK
  BY DEF IInv
<1>3. /\ Len(deliveries) \in Nat
      /\ DOMAIN deliveries = 1..Len(deliveries)
      /\ DOMAIN deliveries' = 1..(Len(deliveries) + 1)
      /\ \A i \in 1..Len(deliveries) : deliveries'[i] = deliveries[i]
      /\ deliveries'[Len(deliveries) + 1] = message
  BY <1>1, <1>2, Posted
<1>4. \A i \in 1..Len(deliveries) : deliveries[i] \in Message
  BY <1>2, <1>3, ElementOfSeq DEF TypeOK
<1>5. HopsBounded'
  BY <1>1, <1>3 DEF HopsBounded, IInv, Routing
<1>6. \A i \in 1..Len(deliveries) : deliveries[i].re < i
  BY <1>3, <1>4 DEF IInv, Routing, ReplyToAsker, Message
<1>7. ReplyToAsker'
  BY <1>1, <1>3, <1>4, <1>6 DEF ReplyToAsker, IInv, Routing, Message
<1>8. OneReplyPerRelay'
  BY <1>1, <1>3, <1>4 DEF OneReplyPerRelay, IInv, Routing
<1>9. Routes'
  BY <1>1, <1>3, <1>6 DEF Routes, Routed, Answered, IInv, Routing
<1>10. OneWatch'
  BY <1>1, <1>3 DEF OneWatch, Routes, Routed, IInv, Routing
<1>11. watches' \subseteq Watch
  BY <1>1, <1>2 DEF TypeOK
<1> QED BY <1>5, <1>7, <1>8, <1>9, <1>10, <1>11 DEF Routing

LEMMA AddsReplyRouting ==
  ASSUME IInv, AddsReply
  PROVE  Routing' /\ watches' \subseteq Watch
<1>1. PICK message \in Message, w \in watches :
        /\ Post(message)
        /\ message.re = w.id /\ message.hop \in 1..MaxHops
        /\ message.to = w.sender /\ message.from = w.target
        /\ watches' = watches \ {w}
  BY DEF AddsReply
<1>2. TypeOK /\ Routed(w)
  BY DEF IInv, Routing, Routes
<1>3. /\ Len(deliveries) \in Nat
      /\ DOMAIN deliveries = 1..Len(deliveries)
      /\ DOMAIN deliveries' = 1..(Len(deliveries) + 1)
      /\ \A i \in 1..Len(deliveries) : deliveries'[i] = deliveries[i]
      /\ deliveries'[Len(deliveries) + 1] = message
  BY <1>1, <1>2, Posted
<1>4. \A i \in 1..Len(deliveries) : deliveries[i] \in Message
  BY <1>2, <1>3, ElementOfSeq DEF TypeOK
<1>5. HopsBounded'
  BY <1>1, <1>3 DEF HopsBounded, IInv, Routing
<1>6. ReplyToAsker'
  <2>1. \A i \in 1..Len(deliveries) : deliveries[i].re \in Nat /\ deliveries[i].re < i
    BY <1>3, <1>4 DEF IInv, Routing, ReplyToAsker, Message
  <2>2. SUFFICES ASSUME NEW i \in DOMAIN deliveries', deliveries'[i].re # 0
                 PROVE  LET relay == deliveries'[deliveries'[i].re] IN
                          /\ deliveries'[i].re < i /\ relay.re = 0
                          /\ deliveries'[i].to = relay.from
                          /\ deliveries'[i].from = relay.to
    BY DEF ReplyToAsker
  <2>3. CASE i \in 1..Len(deliveries)
    <3>1. deliveries'[i] = deliveries[i] /\ deliveries[i].re \in 1..Len(deliveries)
      BY <1>3, <2>1, <2>2, <2>3
    <3> QED BY <1>3, <2>2, <2>3, <3>1 DEF IInv, Routing, ReplyToAsker
  <2>4. CASE i = Len(deliveries) + 1
    BY <1>1, <1>2, <1>3, <2>4 DEF Routed
  <2> QED BY <1>3, <2>3, <2>4
<1>7. OneReplyPerRelay'
  BY <1>1, <1>2, <1>3 DEF OneReplyPerRelay, IInv, Routing, Routed, Answered
<1>8. Routes'
  BY <1>1, <1>3 DEF Routes, Routed, Answered, IInv, Routing, OneWatch
<1>9. OneWatch'
  BY <1>1 DEF OneWatch, IInv, Routing
<1>10. watches' \subseteq Watch
  BY <1>1, <1>2 DEF TypeOK
<1> QED BY <1>5, <1>6, <1>7, <1>8, <1>9, <1>10 DEF Routing

-----------------------------------------------------------------------------
(* Each action.                                                              *)

LEMMA QuietStep ==
  ASSUME IInv, NEW s \in Sessions, Attach(s) \/ Input(s) \/ ContextRow(s)
  PROVE  IInv' /\ Move
<1>1. KeepsWatches
  BY DEF KeepsWatches, Attach, Input, ContextRow, IInv, TypeOK, Routing, OneWatch
<1>2. TypeOK'
  <2>1. CASE Attach(s)
    BY <2>1 DEF IInv, TypeOK, Attach
  <2>2. CASE Input(s)
    <3>1. inbox[s] \in Seq(0..Len(deliveries)) /\ Human \in 0..Len(deliveries)
      BY LenProperties DEF IInv, TypeOK, Human
    <3>2. Append(inbox[s], Human) \in Seq(0..Len(deliveries))
      BY <3>1, AppendProperties
    <3> QED BY <2>2, <3>2, SpendType DEF IInv, TypeOK, Input, Budgets
  <2>3. CASE ContextRow(s)
    <3>1. budget' \in [Budgets -> Nat]
      BY <2>3, SpendType DEF IInv, ContextRow, Budgets
    <3>2. lastHop' \in [Sessions -> 0..MaxHops]
      BY <2>3, ConfigAssumption DEF IInv, TypeOK, ContextRow
    <3> QED BY <2>3, <3>1, <3>2 DEF IInv, TypeOK, ContextRow
  <2> QED BY <2>1, <2>2, <2>3
<1> QED BY <1>1, <1>2, KeepsWatchesRouting DEF IInv, Move

LEMMA ClaimStep ==
  ASSUME IInv, NEW s \in Sessions, Claim(s)
  PROVE  IInv' /\ Move
<1> DEFINE m == Head(inbox[s])
<1>1. /\ inbox[s] \in Seq(0..Len(deliveries)) /\ inbox[s] # <<>>
      /\ m \in 0..Len(deliveries)
      /\ Tail(inbox[s]) \in Seq(0..Len(deliveries))
  <2>1. inbox[s] \in Seq(0..Len(deliveries)) /\ inbox[s] # <<>>
    BY LenProperties DEF IInv, TypeOK, Claim
  <2> QED BY <2>1, HeadTailProperties
<1>2. (IF m = Human THEN 0 ELSE deliveries[m].hop) \in 0..MaxHops
  <2>1. CASE m = Human
    BY <2>1, ConfigAssumption
  <2>2. CASE m # Human
    <3>1. m \in DOMAIN deliveries
      BY <1>1, <2>2, LenProperties DEF IInv, TypeOK, Human
    <3>2. deliveries[m].hop \in 1..MaxHops
      BY <3>1 DEF IInv, Routing, HopsBounded
    <3> QED BY <2>2, <3>2, ConfigAssumption
  <2> QED BY <2>1, <2>2
<1>3. watches' = markSeen(m)
  BY DEF Claim
<1>4. ASSUME NEW w \in watches'
      PROVE  /\ w \in Watch
             /\ \E v \in watches :
                  /\ v.id = w.id /\ v.sender = w.sender /\ v.target = w.target
                  /\ w = IF v.id = m THEN [v EXCEPT !.seen = TRUE] ELSE v
  <2>1. PICK v \in watches : w = IF v.id = m THEN [v EXCEPT !.seen = TRUE] ELSE v
    BY <1>3 DEF markSeen
  <2>2. v \in Watch
    BY DEF IInv, TypeOK
  <2>3. /\ w \in Watch
        /\ v.id = w.id /\ v.sender = w.sender /\ v.target = w.target
    BY <2>1, <2>2 DEF Watch
  <2> QED BY <2>1, <2>3
<1>5. KeepsWatches
  <2>1. ASSUME NEW v \in watches', NEW w \in watches', v.id = w.id
        PROVE  v = w
    <3>1. PICK x \in watches :
            x.id = v.id /\ v = IF x.id = m THEN [x EXCEPT !.seen = TRUE] ELSE x
      BY <1>4
    <3>2. PICK y \in watches :
            y.id = w.id /\ w = IF y.id = m THEN [y EXCEPT !.seen = TRUE] ELSE y
      BY <1>4
    <3>3. x = y
      BY <2>1, <3>1, <3>2 DEF IInv, Routing, OneWatch
    <3> QED BY <3>1, <3>2, <3>3
  <2>2. deliveries' = deliveries
    BY DEF Claim
  <2> QED BY <1>4, <2>1, <2>2 DEF KeepsWatches
<1>6. TypeOK'
  BY <1>1, <1>2, <1>5 DEF IInv, TypeOK, Claim, KeepsWatches
<1> QED BY <1>5, <1>6, KeepsWatchesRouting DEF IInv, Move

LEMMA DisposeStep ==
  ASSUME IInv, NEW s \in Sessions, Dispose(s)
  PROVE  IInv' /\ Move
<1>1. KeepsWatches
  BY DEF KeepsWatches, Dispose, IInv, TypeOK, Routing, OneWatch
<1>2. <<>> \in Seq(0..Len(deliveries)) /\ Human \in 0..Len(deliveries)
  BY LenProperties, EmptySeq DEF IInv, TypeOK, Human
<1>3. TypeOK'
  BY <1>1, <1>2, SpendType DEF IInv, TypeOK, Dispose, Budgets, KeepsWatches
<1> QED BY <1>1, <1>3, KeepsWatchesRouting DEF IInv, Move

\* What is posted keeps the log's positions valid.
LEMMA CurrentStays ==
  ASSUME TypeOK, NEW message \in Message, Post(message)
  PROVE  \A m \in 0..Len(deliveries) : m \in 0..Len(deliveries')
BY Posted

LEMMA RelayStep ==
  ASSUME IInv, NEW s \in Sessions, NEW to, Relay(s, to)
  PROVE  IInv' /\ Move
<1>1. TypeOK
  BY DEF IInv
<1>2. PICK hop \in nextHop(lastHop[s]), t \in resolveTarget(to, s) :
        /\ Post([from |-> s, to |-> t, senderSessionId |-> s, hop |-> hop, re |-> 0,
                 depth |-> DepthOf(current[s]) + 1])
        /\ watches' = watches \cup
             {[id |-> Len(deliveries) + 1, sender |-> s, target |-> t, hop |-> hop,
               seen |-> FALSE]}
  BY DEF Relay
<1> DEFINE message == [from |-> s, to |-> t, senderSessionId |-> s, hop |-> hop,
                       re |-> 0, depth |-> DepthOf(current[s]) + 1]
           w == [id |-> Len(deliveries) + 1, sender |-> s, target |-> t,
                 hop |-> hop, seen |-> FALSE]
<1>3. hop \in Nat /\ hop \in 1..MaxHops
  <2>1. lastHop[s] \in Nat
    BY <1>1, ConfigAssumption DEF TypeOK
  <2> QED BY <2>1, HopGate
<1>4. t \in Sessions
  BY TargetIsOther
<1>5. DepthOf(current[s]) \in Nat
  BY <1>1, DepthType DEF TypeOK
<1>6. message \in Message
  BY <1>3, <1>4, <1>5 DEF Message
<1>7. w \in Watch
  BY <1>1, <1>3, <1>4, LenProperties DEF Watch, TypeOK
<1>8. AddsRelay
  <2>1. /\ Post(message)
        /\ message.re = 0 /\ message.hop \in 1..MaxHops
        /\ w.id = Len(deliveries) + 1
        /\ w.sender = message.from /\ w.target = message.to
        /\ watches' = watches \cup {w}
    BY <1>2, <1>3
  <2> QED BY <2>1, <1>6, <1>7 DEF AddsRelay
<1>9. Routing' /\ watches' \subseteq Watch
  BY <1>8, AddsRelayRouting
<1>10. TypeOK'
  <2>1. /\ deliveries' \in Seq(Message)
        /\ inbox' \in [Sessions -> Seq(0..Len(deliveries'))]
    BY <1>1, <1>2, <1>6, Posted
  <2>2. current' \in [Sessions -> 0..Len(deliveries')]
    BY <1>1, <1>2, <1>6, CurrentStays DEF Relay, TypeOK
  <2>3. budget' \in [Budgets -> Nat]
    BY <1>1, SpendType DEF Relay, Budgets
  <2> QED BY <1>1, <1>9, <2>1, <2>2, <2>3 DEF Relay, TypeOK
<1> QED BY <1>8, <1>9, <1>10 DEF IInv, Move

LEMMA TurnEndStep ==
  ASSUME IInv, NEW s \in Sessions, NEW reason \in Reasons, TurnEnd(s, reason)
  PROVE  IInv' /\ Move
<1>1. TypeOK
  BY DEF IInv
<1>2. Human \in 0..Len(deliveries)
  BY <1>1, LenProperties DEF TypeOK, Human
<1>3. CASE watches' \subseteq watches /\ UNCHANGED <<deliveries, inbox>>
           /\ budget' \in [Budgets -> Nat]
  <2>1. KeepsWatches
    BY <1>3 DEF KeepsWatches, IInv, TypeOK, Routing, OneWatch
  <2>2. TypeOK'
    BY <1>1, <1>2, <1>3, <2>1 DEF TypeOK, TurnEnd, KeepsWatches
  <2> QED BY <2>1, <2>2, KeepsWatchesRouting DEF IInv, Move
<1>4. ASSUME NEW w \in FirstSeen(s), watches' = Remaining(w), deliverReply(w, s, reason)
      PROVE  IInv' /\ Move
  <2>1. /\ w \in watches /\ w \in Watch /\ w.target = s
        /\ watches' = watches \ {w}
    BY <1>1, <1>4 DEF FirstSeen, SeenBy, Remaining, TypeOK
  <2>2. CASE UNCHANGED <<deliveries, inbox>> /\ budget' \in [Budgets -> Nat]
    BY <1>3, <2>1, <2>2
  <2>3. ASSUME NEW hop \in planReply(reason, w.hop), UNCHANGED budget,
               Post([from |-> s, to |-> w.sender, senderSessionId |-> w.sender,
                     hop |-> hop, re |-> w.id, depth |-> DepthOf(w.id) + 1])
        PROVE  IInv' /\ Move
    <3> DEFINE message == [from |-> s, to |-> w.sender,
                           senderSessionId |-> w.sender, hop |-> hop, re |-> w.id,
                           depth |-> DepthOf(w.id) + 1]
    <3>1. hop \in Nat /\ hop \in 1..MaxHops
      <4>1. hop \in nextHop(w.hop) /\ w.hop \in Nat
        BY <2>1, <2>3 DEF planReply, Watch
      <4> QED BY <4>1, HopGate
    <3>2. DepthOf(w.id) \in Nat
      <4>1. w.id \in 0..Len(deliveries)
        BY <1>1, <2>1, LenProperties DEF IInv, Routing, Routes, Routed, TypeOK
      <4> QED BY <4>1, <1>1, DepthType
    <3>3. message \in Message
      BY <2>1, <3>1, <3>2 DEF Message, Watch
    <3>4. Post(message)
      BY <2>3
    <3>5. AddsReply
      <4>1. /\ message.re = w.id /\ message.hop \in 1..MaxHops
            /\ message.to = w.sender /\ message.from = w.target
        BY <2>1, <3>1
      <4> QED BY <4>1, <2>1, <3>3, <3>4 DEF AddsReply
    <3>6. Routing' /\ watches' \subseteq Watch
      BY <3>5, AddsReplyRouting
    <3>7. /\ deliveries' \in Seq(Message)
          /\ inbox' \in [Sessions -> Seq(0..Len(deliveries'))]
      BY <1>1, <3>3, <3>4, Posted
    <3>8. current' \in [Sessions -> 0..Len(deliveries')]
      BY <1>1, <1>2, <3>3, <3>4, CurrentStays DEF TurnEnd, TypeOK
    <3>9. TypeOK'
      BY <1>1, <2>3, <3>6, <3>7, <3>8 DEF TurnEnd, TypeOK
    <3> QED BY <3>5, <3>6, <3>9 DEF IInv, Move
  <2>4. budget' \in [Budgets -> Nat] \/ ~(UNCHANGED budget \/ Spend("fault"))
    BY <1>1, SpendType DEF TypeOK, Budgets
  <2> QED BY <1>4, <2>2, <2>3, <2>4 DEF deliverReply
<1>5. CASE UNCHANGED <<watches, deliveries, inbox, budget>>
  BY <1>1, <1>3, <1>5 DEF TypeOK
<1> QED BY <1>4, <1>5 DEF TurnEnd

-----------------------------------------------------------------------------
(* The theorems.                                                             *)

LEMMA InitRouting == Init => IInv
<1> SUFFICES ASSUME Init PROVE IInv
  OBVIOUS
<1>1. budget \in [Budgets -> Nat]
  BY BoundsAssumption DEF Init, Budgets
<1>2. deliveries = <<>> /\ watches = {} /\ DOMAIN deliveries = {} /\ Len(deliveries) = 0
  BY DEF Init
<1>3. TypeOK
  <2>1. agent \in [Sessions -> {"closed", "none", "idle", "running"}]
    BY DEF Init
  <2>2. inbox \in [Sessions -> Seq(0..Len(deliveries))] /\ deliveries \in Seq(Message)
    BY <1>2, EmptySeq DEF Init
  <2>3. /\ current \in [Sessions -> 0..Len(deliveries)]
        /\ lastHop \in [Sessions -> 0..MaxHops]
    BY <1>2, ConfigAssumption DEF Init, Human
  <2> QED BY <1>1, <1>2, <2>1, <2>2, <2>3 DEF Init, TypeOK
<1>4. Routing
  BY <1>2 DEF Routing, HopsBounded, Routes, OneWatch, ReplyToAsker, OneReplyPerRelay
<1> QED BY <1>3, <1>4 DEF IInv

LEMMA StepRouting == IInv /\ [Next]_vars => IInv' /\ Move
<1> SUFFICES ASSUME IInv, [Next]_vars PROVE IInv' /\ Move
  OBVIOUS
<1>1. CASE UNCHANGED vars
  <2>1. IInv'
    BY <1>1 DEF vars, IInv, TypeOK, Routing, HopsBounded, Routes, Routed, Answered,
                OneWatch, ReplyToAsker, OneReplyPerRelay
  <2>2. KeepsWatches
    BY <1>1 DEF vars, KeepsWatches, IInv, TypeOK, Routing, OneWatch
  <2> QED BY <2>1, <2>2 DEF Move
<1>2. ASSUME NEW s \in Sessions, Step(s)
      PROVE  IInv' /\ Move
  BY <1>2, QuietStep, ClaimStep, DisposeStep, RelayStep, TurnEndStep DEF Step
<1> QED BY <1>1, <1>2 DEF Next

LEMMA Inductive == Spec => []IInv
BY InitRouting, StepRouting, PTL DEF Spec

\* Every session, inbox and delivery stays well typed, and no hop exceeds the
\* ceiling.
THEOREM TypeCorrect == Spec => []TypeOK
<1>1. IInv => TypeOK
  BY DEF IInv
<1> QED BY Inductive, <1>1, PTL

\* The turn/end listener answers no relay twice, whatever the sessions do.
THEOREM RepliesOnce == Spec => []OneReplyPerRelay
<1>1. IInv => OneReplyPerRelay
  BY DEF IInv, Routing
<1> QED BY Inductive, <1>1, PTL

\* A reply always goes from the session that was asked to the one that asked.
THEOREM RepliesReturn == Spec => []ReplyToAsker
<1>1. IInv => ReplyToAsker
  BY DEF IInv, Routing
<1> QED BY Inductive, <1>1, PTL

-----------------------------------------------------------------------------
(* A watch is owed.                                                          *)

\* An inbox holds human input and messages addressed to its session.
Queued ==
  \A s \in Sessions : \A k \in DOMAIN inbox[s] :
    inbox[s][k] # Human =>
      inbox[s][k] \in DOMAIN deliveries /\ deliveries[inbox[s][k]].to = s

OwedInv == IInv /\ Queued /\ WatchOwed

\* An inbox with a message put at its end.
LEMMA AppendInbox ==
  ASSUME NEW S, NEW q \in Seq(S), NEW m \in S
  PROVE  /\ DOMAIN Append(q, m) = 1..(Len(q) + 1) /\ DOMAIN q = 1..Len(q) /\ Len(q) \in Nat
         /\ \A k \in DOMAIN q : k \in DOMAIN Append(q, m) /\ Append(q, m)[k] = q[k]
         /\ Append(q, m)[Len(q) + 1] = m
BY AppendProperties, LenProperties

\* Its rest, once the first message is taken.
LEMMA TailInbox ==
  ASSUME NEW S, NEW q \in Seq(S), q # <<>>
  PROVE  /\ DOMAIN q = 1..Len(q) /\ Len(q) \in Nat /\ Head(q) = q[1]
         /\ DOMAIN Tail(q) = 1..(Len(q) - 1)
         /\ \A k \in 1..(Len(q) - 1) : Tail(q)[k] = q[k + 1]
BY HeadTailProperties, LenProperties

\* What a delivery does to the inboxes.
LEMMA PostedInbox ==
  ASSUME TypeOK, NEW message \in Message, Post(message)
  PROVE  /\ \A s \in Sessions : \A k \in DOMAIN inbox[s] :
              k \in DOMAIN inbox'[s] /\ inbox'[s][k] = inbox[s][k]
         /\ \A s \in Sessions : \A k \in DOMAIN inbox'[s] :
              \/ k \in DOMAIN inbox[s]
              \/ s = message.to /\ inbox'[s][k] = Len(deliveries) + 1
         /\ \E k \in DOMAIN inbox'[message.to] : inbox'[message.to][k] = Len(deliveries) + 1
<1> DEFINE to == message.to
           n == Len(deliveries) + 1
<1>1. /\ to \in Sessions /\ n \in Nat
      /\ \A s \in Sessions : inbox[s] \in Seq(Nat)
  <2>1. Len(deliveries) \in Nat
    BY Posted
  <2>2. 0..Len(deliveries) \subseteq Nat
    BY <2>1
  <2>3. \A s \in Sessions : inbox[s] \in Seq(Nat)
    BY <2>2, SeqWiden DEF TypeOK
  <2> QED BY <2>1, <2>3 DEF Message
<1>2. inbox' = [inbox EXCEPT ![to] = Append(inbox[to], n)] /\ DOMAIN inbox = Sessions
  BY DEF Post, TypeOK
<1> HIDE DEF to, n
<1>3. /\ inbox'[to] = Append(inbox[to], n)
      /\ \A s \in Sessions : s # to => inbox'[s] = inbox[s]
  BY <1>1, <1>2
<1>4. /\ DOMAIN inbox'[to] = 1..(Len(inbox[to]) + 1)
      /\ DOMAIN inbox[to] = 1..Len(inbox[to]) /\ Len(inbox[to]) \in Nat
      /\ \A k \in DOMAIN inbox[to] : k \in DOMAIN inbox'[to] /\ inbox'[to][k] = inbox[to][k]
      /\ inbox'[to][Len(inbox[to]) + 1] = n
  BY <1>1, <1>3, AppendInbox
<1>5. \A k \in DOMAIN inbox'[to] : k \in DOMAIN inbox[to] \/ inbox'[to][k] = n
  BY <1>4
<1>6. \E k \in DOMAIN inbox'[to] : inbox'[to][k] = n
  BY <1>4
<1> QED BY <1>3, <1>4, <1>5, <1>6 DEF to, n

\* A step that leaves deliveries and watches alone, and takes nothing out of an
\* inbox.
LEMMA QuietOwed ==
  ASSUME OwedInv, NEW s \in Sessions, Attach(s) \/ Input(s) \/ ContextRow(s)
  PROVE  Queued' /\ WatchOwed'
<1>1. TypeOK /\ Queued /\ WatchOwed
  BY DEF OwedInv, IInv
<1>2. UNCHANGED <<watches, deliveries, current>>
  BY DEF Attach, Input, ContextRow
<1>3. \A t \in Sessions : agent[t] = "running" => agent'[t] = "running"
  BY <1>1 DEF Attach, Input, ContextRow, TypeOK
<1>4. \A w \in watches : w.target \in Sessions
  BY <1>1 DEF TypeOK, Watch
<1>5. CASE UNCHANGED inbox
  BY <1>1, <1>2, <1>3, <1>4, <1>5 DEF Queued, WatchOwed
<1>6. CASE inbox' = [inbox EXCEPT ![s] = Append(@, Human)]
  <2>1. inbox[s] \in Seq(0..Len(deliveries)) /\ Human \in 0..Len(deliveries)
    BY <1>1, LenProperties DEF TypeOK, Human
  <2>2. /\ DOMAIN inbox'[s] = 1..(Len(inbox[s]) + 1)
        /\ DOMAIN inbox[s] = 1..Len(inbox[s]) /\ Len(inbox[s]) \in Nat
        /\ \A k \in DOMAIN inbox[s] : k \in DOMAIN inbox'[s] /\ inbox'[s][k] = inbox[s][k]
        /\ inbox'[s][Len(inbox[s]) + 1] = Human
    BY <1>1, <1>6, <2>1, AppendInbox DEF TypeOK
  <2>3. \A t \in Sessions : t # s => inbox'[t] = inbox[t]
    BY <1>1, <1>6 DEF TypeOK
  <2>4. Queued'
    <3>1. \A k \in DOMAIN inbox'[s] : inbox'[s][k] # Human => k \in DOMAIN inbox[s]
      BY <2>2
    <3> QED BY <1>1, <1>2, <2>2, <2>3, <3>1 DEF Queued
  <2>5. WatchOwed'
    BY <1>1, <1>2, <1>3, <1>4, <2>2, <2>3 DEF WatchOwed
  <2> QED BY <2>4, <2>5
<1> QED BY <1>5, <1>6 DEF Attach, Input, ContextRow

\* The message that is claimed is the one its watch waits for.
LEMMA ClaimOwed ==
  ASSUME OwedInv, NEW s \in Sessions, Claim(s)
  PROVE  Queued' /\ WatchOwed'
<1> DEFINE m == Head(inbox[s])
<1>1. /\ TypeOK /\ Queued /\ WatchOwed /\ Routes
      /\ inbox[s] \in Seq(0..Len(deliveries)) /\ inbox[s] # <<>>
  <2>1. TypeOK /\ Queued /\ WatchOwed /\ Routes
    BY DEF OwedInv, IInv, Routing
  <2>2. inbox[s] \in Seq(0..Len(deliveries)) /\ inbox[s] # <<>>
    BY <2>1, LenProperties DEF TypeOK, Claim
  <2> QED BY <2>1, <2>2
<1>2. /\ agent[s] = "idle" /\ agent' = [agent EXCEPT ![s] = "running"]
      /\ current' = [current EXCEPT ![s] = m] /\ watches' = markSeen(m)
      /\ inbox' = [inbox EXCEPT ![s] = Tail(inbox[s])] /\ UNCHANGED deliveries
  BY DEF Claim
<1>3. /\ DOMAIN agent = Sessions /\ DOMAIN current = Sessions /\ DOMAIN inbox = Sessions
      /\ inbox'[s] = Tail(inbox[s])
      /\ \A t \in Sessions : t # s => inbox'[t] = inbox[t]
  BY <1>1, <1>2 DEF TypeOK
<1>4. /\ DOMAIN inbox[s] = 1..Len(inbox[s]) /\ Len(inbox[s]) \in Nat /\ m = inbox[s][1]
      /\ DOMAIN inbox'[s] = 1..(Len(inbox[s]) - 1)
      /\ \A k \in 1..(Len(inbox[s]) - 1) : inbox'[s][k] = inbox[s][k + 1]
  BY <1>1, <1>3, TailInbox
<1>5. Queued'
  <2>1. \A k \in DOMAIN inbox'[s] : k + 1 \in DOMAIN inbox[s] /\ inbox'[s][k] = inbox[s][k + 1]
    BY <1>4
  <2> QED BY <1>1, <1>2, <1>3, <2>1 DEF Queued
<1>6. WatchOwed'
  <2> SUFFICES ASSUME NEW w \in watches'
               PROVE  IF w.seen THEN agent'[w.target] = "running" /\ current'[w.target] = w.id
                      ELSE \E k \in DOMAIN inbox'[w.target] : inbox'[w.target][k] = w.id
    BY DEF WatchOwed
  <2>1. PICK v \in watches : w = IF v.id = m THEN [v EXCEPT !.seen = TRUE] ELSE v
    BY <1>2 DEF markSeen
  <2>2. v \in Watch /\ v.target \in Sessions
    BY <1>1 DEF TypeOK, Watch
  <2>3. v.id \in DOMAIN deliveries /\ deliveries[v.id].to = v.target /\ v.id # Human
    BY <1>1, LenProperties DEF Routes, Routed, TypeOK, Human
  <2>4. CASE v.id = m
    <3>1. m # Human /\ 1 \in DOMAIN inbox[s]
      BY <1>1, <1>4, <2>3, <2>4, EmptySeq
    <3>2. deliveries[m].to = s
      BY <1>1, <1>4, <3>1 DEF Queued
    <3>3. w.seen /\ w.target = s /\ w.id = m
      BY <2>1, <2>2, <2>3, <2>4, <3>2 DEF Watch
    <3> QED BY <1>2, <1>3, <3>3
  <2>5. CASE v.id # m /\ w.seen
    <3>1. w = v /\ agent[v.target] = "running" /\ current[v.target] = v.id
      BY <1>1, <2>1, <2>5 DEF WatchOwed
    <3>2. v.target # s
      BY <1>2, <3>1
    <3>3. agent'[v.target] = agent[v.target] /\ current'[v.target] = current[v.target]
      BY <1>2, <1>3, <2>2, <3>2
    <3>4. w.seen /\ agent'[w.target] = "running" /\ current'[w.target] = w.id
      BY <2>5, <3>1, <3>3
    <3> QED BY <3>4
  <2>6. CASE v.id # m /\ ~w.seen
    <3>1. w = v
      BY <2>1, <2>6
    <3>2. PICK k \in DOMAIN inbox[v.target] : inbox[v.target][k] = v.id
      BY <1>1, <2>6, <3>1 DEF WatchOwed
    <3>3. CASE v.target # s
      <4>1. inbox'[v.target] = inbox[v.target]
        BY <1>3, <2>2, <3>3
      <4>2. \E j \in DOMAIN inbox'[w.target] : inbox'[w.target][j] = w.id
        BY <3>1, <3>2, <4>1
      <4> QED BY <2>6, <3>1, <4>2
    <3>4. CASE v.target = s
      <4>1. k # 1 /\ k - 1 \in 1..(Len(inbox[s]) - 1)
        BY <1>4, <2>6, <3>2, <3>4
      <4>2. inbox'[s][k - 1] = v.id /\ k - 1 \in DOMAIN inbox'[s]
        BY <1>4, <3>2, <3>4, <4>1
      <4>3. \E j \in DOMAIN inbox'[w.target] : inbox'[w.target][j] = w.id
        BY <3>1, <3>4, <4>2
      <4> QED BY <2>6, <3>1, <4>3
    <3> QED BY <3>3, <3>4
  <2> QED BY <2>4, <2>5, <2>6
<1> QED BY <1>5, <1>6

\* What a delivery keeps of the queues, and of the watches that stay.
LEMMA PostOwed ==
  ASSUME OwedInv, NEW message \in Message, Post(message)
  PROVE  /\ Queued'
         /\ \A w \in watches : ~w.seen =>
              \E k \in DOMAIN inbox'[w.target] : inbox'[w.target][k] = w.id
<1>1. TypeOK /\ Queued /\ WatchOwed /\ \A w \in watches : w.target \in Sessions
  BY DEF OwedInv, IInv, TypeOK, Watch
<1>2. /\ Len(deliveries) \in Nat
      /\ DOMAIN deliveries = 1..Len(deliveries)
      /\ DOMAIN deliveries' = 1..(Len(deliveries) + 1)
      /\ \A i \in 1..Len(deliveries) : deliveries'[i] = deliveries[i]
      /\ deliveries'[Len(deliveries) + 1] = message
  BY <1>1, Posted
<1>3. /\ \A s \in Sessions : \A k \in DOMAIN inbox[s] :
           k \in DOMAIN inbox'[s] /\ inbox'[s][k] = inbox[s][k]
      /\ \A s \in Sessions : \A k \in DOMAIN inbox'[s] :
           \/ k \in DOMAIN inbox[s]
           \/ s = message.to /\ inbox'[s][k] = Len(deliveries) + 1
  BY <1>1, PostedInbox
<1>4. Queued'
  <2> SUFFICES ASSUME NEW s \in Sessions, NEW k \in DOMAIN inbox'[s], inbox'[s][k] # Human
               PROVE  /\ inbox'[s][k] \in DOMAIN deliveries'
                      /\ deliveries'[inbox'[s][k]].to = s
    BY DEF Queued
  <2>1. CASE k \in DOMAIN inbox[s]
    <3>1. /\ inbox'[s][k] = inbox[s][k]
          /\ inbox[s][k] \in 1..Len(deliveries) /\ deliveries[inbox[s][k]].to = s
      BY <1>1, <1>2, <1>3, <2>1 DEF Queued
    <3> QED BY <1>2, <3>1
  <2>2. CASE s = message.to /\ inbox'[s][k] = Len(deliveries) + 1
    BY <1>2, <2>2
  <2> QED BY <1>3, <2>1, <2>2
<1> QED BY <1>1, <1>3, <1>4 DEF WatchOwed

LEMMA RelayOwed ==
  ASSUME OwedInv, NEW s \in Sessions, NEW to, Relay(s, to)
  PROVE  Queued' /\ WatchOwed'
<1>1. PICK hop \in nextHop(lastHop[s]), t \in resolveTarget(to, s) :
        /\ Post([from |-> s, to |-> t, senderSessionId |-> s, hop |-> hop, re |-> 0,
                 depth |-> DepthOf(current[s]) + 1])
        /\ watches' = watches \cup
             {[id |-> Len(deliveries) + 1, sender |-> s, target |-> t, hop |-> hop,
               seen |-> FALSE]}
  BY DEF Relay
<1> DEFINE message == [from |-> s, to |-> t, senderSessionId |-> s, hop |-> hop,
                       re |-> 0, depth |-> DepthOf(current[s]) + 1]
           w == [id |-> Len(deliveries) + 1, sender |-> s, target |-> t,
                 hop |-> hop, seen |-> FALSE]
<1>2. TypeOK /\ WatchOwed
  BY DEF OwedInv, IInv
<1>3. message \in Message
  <2>1. lastHop[s] \in Nat
    BY <1>2, ConfigAssumption DEF TypeOK
  <2>2. DepthOf(current[s]) \in Nat
    BY <1>2, DepthType DEF TypeOK
  <2> QED BY <2>1, <2>2, HopGate, TargetIsOther DEF Message
<1>4. /\ Queued'
      /\ \A v \in watches : ~v.seen =>
           \E k \in DOMAIN inbox'[v.target] : inbox'[v.target][k] = v.id
  BY <1>1, <1>3, PostOwed
<1>5. \E k \in DOMAIN inbox'[t] : inbox'[t][k] = Len(deliveries) + 1
  BY <1>1, <1>2, <1>3, PostedInbox
<1>6. UNCHANGED <<agent, current>> /\ watches' = watches \cup {w}
  BY <1>1 DEF Relay
<1>7. WatchOwed'
  <2> SUFFICES ASSUME NEW v \in watches'
               PROVE  IF v.seen THEN agent'[v.target] = "running" /\ current'[v.target] = v.id
                      ELSE \E k \in DOMAIN inbox'[v.target] : inbox'[v.target][k] = v.id
    BY DEF WatchOwed
  <2>1. CASE v = w
    BY <1>5, <2>1
  <2>2. CASE v \in watches
    BY <1>2, <1>4, <1>6, <2>2 DEF WatchOwed
  <2> QED BY <1>6, <2>1, <2>2
<1> QED BY <1>4, <1>7

\* The turn that ends had at most one watch, and it is gone.
LEMMA TurnEndOwed ==
  ASSUME OwedInv, NEW s \in Sessions, NEW reason \in Reasons, TurnEnd(s, reason)
  PROVE  Queued' /\ WatchOwed'
<1>1. TypeOK /\ Queued /\ WatchOwed /\ OneWatch /\ Routes
  BY DEF OwedInv, IInv, Routing
<1>2. /\ agent' = [agent EXCEPT ![s] = "idle"] /\ current' = [current EXCEPT ![s] = Human]
      /\ DOMAIN agent = Sessions /\ DOMAIN current = Sessions
  BY <1>1 DEF TurnEnd, TypeOK
<1>3. \A w \in watches : w.target \in Sessions /\ w.id \in Nat /\ w \in Watch
  BY <1>1 DEF TypeOK, Watch
<1>4. \A v, w \in SeenBy(s) : v = w
  BY <1>1 DEF SeenBy, WatchOwed, OneWatch
<1>5. \A w \in SeenBy(s) : w \in FirstSeen(s)
  BY <1>3, <1>4 DEF FirstSeen, SeenBy
<1>6. /\ watches' \subseteq watches
      /\ \A w \in watches' : ~(w.target = s /\ w.seen)
      /\ \/ UNCHANGED <<deliveries, inbox>>
         \/ \E message \in Message : Post(message)
  <2>1. CASE FirstSeen(s) = {} /\ UNCHANGED <<watches, deliveries, inbox, budget>>
    BY <1>5, <2>1 DEF SeenBy
  <2>2. ASSUME NEW w \in FirstSeen(s), watches' = Remaining(w), deliverReply(w, s, reason)
        PROVE  /\ watches' \subseteq watches
               /\ \A v \in watches' : ~(v.target = s /\ v.seen)
               /\ \/ UNCHANGED <<deliveries, inbox>>
                  \/ \E message \in Message : Post(message)
    <3>1. w \in watches /\ w \in SeenBy(s)
      BY DEF FirstSeen, SeenBy
    <3>2. \A v \in watches' : v \in watches /\ ~(v.target = s /\ v.seen)
      BY <1>4, <2>2, <3>1 DEF Remaining, SeenBy
    <3>3. ASSUME NEW hop \in planReply(reason, w.hop),
                 Post([from |-> s, to |-> w.sender, senderSessionId |-> w.sender,
                       hop |-> hop, re |-> w.id, depth |-> DepthOf(w.id) + 1])
          PROVE  \E message \in Message : Post(message)
      <4> DEFINE message == [from |-> s, to |-> w.sender, senderSessionId |-> w.sender,
                             hop |-> hop, re |-> w.id, depth |-> DepthOf(w.id) + 1]
      <4>1. hop \in Nat
        <5>1. hop \in nextHop(w.hop) /\ w.hop \in Nat
          BY <1>3, <3>1, <3>3 DEF planReply, Watch
        <5> QED BY <5>1, HopGate
      <4>2. DepthOf(w.id) \in Nat
        <5>1. w.id \in 0..Len(deliveries)
          BY <1>1, <3>1, LenProperties DEF Routes, Routed, TypeOK
        <5> QED BY <1>1, <5>1, DepthType
      <4>3. message \in Message
        BY <1>3, <3>1, <4>1, <4>2 DEF Message, Watch
      <4> QED BY <3>3, <4>3
    <3> QED BY <2>2, <3>2, <3>3 DEF deliverReply
  <2> QED BY <2>1, <2>2 DEF TurnEnd
<1>7. /\ Queued'
      /\ \A w \in watches : ~w.seen =>
           \E k \in DOMAIN inbox'[w.target] : inbox'[w.target][k] = w.id
  <2>1. CASE UNCHANGED <<deliveries, inbox>>
    BY <1>1, <2>1 DEF Queued, WatchOwed
  <2>2. CASE \E message \in Message : Post(message)
    BY <2>2, PostOwed
  <2> QED BY <1>6, <2>1, <2>2
<1>8. WatchOwed'
  <2> SUFFICES ASSUME NEW w \in watches'
               PROVE  IF w.seen THEN agent'[w.target] = "running" /\ current'[w.target] = w.id
                      ELSE \E k \in DOMAIN inbox'[w.target] : inbox'[w.target][k] = w.id
    BY DEF WatchOwed
  <2>1. w \in watches /\ (w.seen => w.target # s)
    BY <1>6
  <2> QED BY <1>1, <1>2, <1>3, <1>7, <2>1 DEF WatchOwed
<1> QED BY <1>7, <1>8

LEMMA DisposeOwed ==
  ASSUME OwedInv, NEW s \in Sessions, Dispose(s)
  PROVE  Queued' /\ WatchOwed'
<1>1. TypeOK /\ Queued /\ WatchOwed
  BY DEF OwedInv, IInv
<1>2. /\ \A t \in Sessions : t # s =>
           agent'[t] = agent[t] /\ current'[t] = current[t] /\ inbox'[t] = inbox[t]
      /\ inbox'[s] = <<>> /\ UNCHANGED deliveries
      /\ \A w \in watches' : w \in watches /\ w.target # s
  BY <1>1 DEF Dispose, Targeting, TypeOK
<1>3. \A w \in watches : w.target \in Sessions
  BY <1>1 DEF TypeOK, Watch
<1>4. Queued'
  BY <1>1, <1>2, EmptySeq DEF Queued
<1>5. WatchOwed'
  BY <1>1, <1>2, <1>3 DEF WatchOwed
<1> QED BY <1>4, <1>5

LEMMA OwedInductive == Spec => []OwedInv
<1>1. Init => OwedInv
  <2> SUFFICES ASSUME Init PROVE Queued /\ WatchOwed
    BY InitRouting DEF OwedInv
  <2>1. watches = {} /\ \A s \in Sessions : inbox[s] = <<>>
    BY DEF Init
  <2> QED BY <2>1, EmptySeq DEF Queued, WatchOwed
<1>2. OwedInv /\ [Next]_vars => OwedInv'
  <2> SUFFICES ASSUME OwedInv, [Next]_vars PROVE Queued' /\ WatchOwed'
    BY StepRouting DEF OwedInv
  <2>1. CASE UNCHANGED vars
    BY <2>1 DEF vars, OwedInv, Queued, WatchOwed
  <2>2. ASSUME NEW s \in Sessions, Step(s) PROVE Queued' /\ WatchOwed'
    BY <2>2, QuietOwed, ClaimOwed, RelayOwed, TurnEndOwed, DisposeOwed DEF Step
  <2> QED BY <2>1, <2>2 DEF Next
<1> QED BY <1>1, <1>2, PTL DEF Spec

\* A reply route never leaks: its relay waits in the target's inbox, or the
\* target's running turn claimed it (index.ts:318-399).
THEOREM NoWatchLeaks == Spec => []WatchOwed
<1>1. OwedInv => WatchOwed
  BY DEF OwedInv
<1> QED BY OwedInductive, <1>1, PTL

-----------------------------------------------------------------------------
(* The depth of a chain.                                                     *)

\* What the context rows logged so far may have added to the depth of a chain.
Slack == MaxHops * (MaxContexts - budget["context"])

\* A delivery is no deeper than its hop says, up to the slack.
DeliveriesDeep ==
  \A i \in DOMAIN deliveries : deliveries[i].depth <= deliveries[i].hop + Slack

\* Nor is the chain a running turn would extend.
TurnsDeep == \A s \in Sessions : DepthOf(current[s]) <= lastHop[s] + Slack

\* A watch remembers the hop its relay was delivered at.
WatchHops == \A w \in watches : w.hop = deliveries[w.id].hop

DepthInv ==
  budget["context"] <= MaxContexts /\ DeliveriesDeep /\ TurnsDeep /\ WatchHops

LEMMA SlackType ==
  ASSUME TypeOK, budget["context"] <= MaxContexts
  PROVE  Slack \in Nat /\ budget["context"] \in Nat
<1>1. budget["context"] \in Nat /\ MaxContexts \in Nat /\ MaxHops \in Nat
  BY BoundsAssumption, ConfigAssumption DEF TypeOK, Budgets
<1>2. MaxContexts - budget["context"] \in Nat
  BY <1>1
<1>3. \A a, b \in Nat : a * b \in Nat
  OBVIOUS
<1> QED BY <1>1, <1>2, <1>3 DEF Slack

\* A context row costs one whole chain.
LEMMA SlackGrows ==
  ASSUME TypeOK, budget["context"] <= MaxContexts, Spend("context")
  PROVE  Slack' = Slack + MaxHops /\ budget'["context"] <= MaxContexts
<1>1. budget["context"] \in Nat /\ MaxContexts \in Nat /\ MaxHops \in Nat
  BY BoundsAssumption, ConfigAssumption DEF TypeOK, Budgets
<1>2. budget'["context"] = budget["context"] - 1
  BY DEF Spend, TypeOK, Budgets
<1>3. \A h, m, b \in Nat : h * (m - (b - 1)) = h * (m - b) + h
  OBVIOUS
<1>4. MaxHops * (MaxContexts - (budget["context"] - 1))
        = MaxHops * (MaxContexts - budget["context"]) + MaxHops
  BY <1>1, <1>3
<1>5. Slack' = MaxHops * (MaxContexts - (budget["context"] - 1))
  BY <1>2 DEF Slack
<1>6. budget["context"] - 1 <= MaxContexts
  BY <1>1
<1> QED BY <1>2, <1>4, <1>5, <1>6 DEF Slack

\* A step that delivers nothing, logs no context row and starts no turn.
LEMMA StillDeep ==
  ASSUME IInv, DepthInv, UNCHANGED <<deliveries, lastHop>>,
         budget'["context"] = budget["context"],
         \A s \in Sessions : current'[s] \in {current[s], Human},
         \A w \in watches' : w \in watches
  PROVE  DepthInv'
<1>1. TypeOK /\ Slack \in Nat /\ Slack' = Slack
  BY SlackType DEF IInv, DepthInv, Slack
<1>2. DeliveriesDeep'
  BY <1>1 DEF DepthInv, DeliveriesDeep
<1>3. TurnsDeep'
  <2> SUFFICES ASSUME NEW s \in Sessions
               PROVE  DepthOf(current[s])' <= lastHop'[s] + Slack'
    BY DEF TurnsDeep
  <2>1. DepthOf(current[s])' \in {DepthOf(current[s]), 0}
    BY DEF DepthOf, Human
  <2>2. lastHop[s] \in Nat
    BY <1>1, ConfigAssumption DEF TypeOK
  <2> QED BY <1>1, <2>1, <2>2 DEF DepthInv, TurnsDeep
<1>4. WatchHops'
  BY DEF DepthInv, WatchHops
<1> QED BY <1>2, <1>3, <1>4 DEF DepthInv

\* What a delivery keeps, when it goes one deeper and one hop further.
LEMMA PostDeep ==
  ASSUME IInv, DepthInv, NEW message \in Message, Post(message),
         message.depth <= message.hop + Slack,
         budget'["context"] = budget["context"]
  PROVE  /\ DeliveriesDeep'
         /\ \A m \in 0..Len(deliveries) : DepthOf(m)' = DepthOf(m)
         /\ \A w \in watches : w.hop = deliveries'[w.id].hop
<1>1. TypeOK /\ Slack' = Slack
  BY DEF IInv, Slack
<1>2. /\ Len(deliveries) \in Nat
      /\ DOMAIN deliveries = 1..Len(deliveries)
      /\ DOMAIN deliveries' = 1..(Len(deliveries) + 1)
      /\ \A i \in 1..Len(deliveries) : deliveries'[i] = deliveries[i]
      /\ deliveries'[Len(deliveries) + 1] = message
  BY <1>1, Posted
<1>3. DeliveriesDeep'
  BY <1>1, <1>2 DEF DepthInv, DeliveriesDeep
<1>4. \A m \in 0..Len(deliveries) : DepthOf(m)' = DepthOf(m)
  BY <1>2 DEF DepthOf, Human
<1>5. \A w \in watches : w.hop = deliveries'[w.id].hop
  BY <1>2 DEF DepthInv, WatchHops, IInv, Routing, Routes, Routed
<1> QED BY <1>3, <1>4, <1>5

LEMMA ClaimDeep ==
  ASSUME IInv, DepthInv, NEW s \in Sessions, Claim(s)
  PROVE  DepthInv'
<1> DEFINE m == Head(inbox[s])
<1>1. TypeOK /\ Slack \in Nat /\ Slack' = Slack
  BY SlackType DEF IInv, DepthInv, Slack, Claim
<1>2. m \in 0..Len(deliveries)
  <2>1. inbox[s] \in Seq(0..Len(deliveries)) /\ inbox[s] # <<>>
    BY <1>1, LenProperties DEF TypeOK, Claim
  <2> QED BY <2>1, HeadTailProperties
<1>3. /\ UNCHANGED <<deliveries, budget>> /\ watches' = markSeen(m)
      /\ current' = [current EXCEPT ![s] = m]
      /\ lastHop' = [lastHop EXCEPT ![s] = IF m = Human THEN 0 ELSE deliveries[m].hop]
  BY DEF Claim
<1> HIDE DEF m
<1>4. DeliveriesDeep'
  BY <1>1, <1>3 DEF DepthInv, DeliveriesDeep
<1>5. TurnsDeep'
  <2> SUFFICES ASSUME NEW t \in Sessions
               PROVE  DepthOf(current[t])' <= lastHop'[t] + Slack'
    BY DEF TurnsDeep
  <2>1. CASE t # s
    <3>1. current'[t] = current[t] /\ lastHop'[t] = lastHop[t]
      BY <1>1, <1>3, <2>1 DEF TypeOK
    <3> QED BY <1>1, <1>3, <3>1 DEF DepthInv, TurnsDeep, DepthOf
  <2>2. CASE t = s
    <3>1. /\ current'[t] = m
          /\ lastHop'[t] = IF m = Human THEN 0 ELSE deliveries[m].hop
      BY <1>1, <1>3, <2>2 DEF TypeOK
    <3>2. CASE m = Human
      BY <1>1, <3>1, <3>2 DEF DepthOf
    <3>3. CASE m # Human
      <4>1. m \in DOMAIN deliveries
        BY <1>1, <1>2, <3>3, LenProperties DEF TypeOK, Human
      <4> QED BY <1>1, <1>3, <3>1, <3>3, <4>1 DEF DepthInv, DeliveriesDeep, DepthOf
    <3> QED BY <3>2, <3>3
  <2> QED BY <2>1, <2>2
<1>6. WatchHops'
  <2> SUFFICES ASSUME NEW w \in watches' PROVE w.hop = deliveries[w.id].hop
    BY <1>3 DEF WatchHops
  <2>1. PICK v \in watches : w = IF v.id = m THEN [v EXCEPT !.seen = TRUE] ELSE v
    BY <1>3 DEF markSeen
  <2>2. w.hop = v.hop /\ w.id = v.id
    BY <1>1, <2>1 DEF TypeOK, Watch
  <2> QED BY <2>2 DEF DepthInv, WatchHops
<1> QED BY <1>3, <1>4, <1>5, <1>6 DEF DepthInv

LEMMA ContextRowDeep ==
  ASSUME IInv, DepthInv, NEW s \in Sessions, ContextRow(s)
  PROVE  DepthInv'
<1>1. /\ TypeOK /\ Slack \in Nat /\ Slack' = Slack + MaxHops /\ MaxHops \in Nat
      /\ budget'["context"] <= MaxContexts
  BY SlackType, SlackGrows, ConfigAssumption DEF IInv, DepthInv, ContextRow
<1>2. UNCHANGED <<deliveries, watches, current>> /\ lastHop' = [lastHop EXCEPT ![s] = 0]
  BY DEF ContextRow
<1>3. \A i \in DOMAIN deliveries : deliveries[i].depth \in Nat /\ deliveries[i].hop \in Nat
  <2>1. \A i \in DOMAIN deliveries : deliveries[i] \in Message
    BY <1>1, ElementOfSeq, LenProperties DEF TypeOK
  <2> QED BY <2>1 DEF Message
<1>4. DeliveriesDeep'
  BY <1>1, <1>2, <1>3 DEF DepthInv, DeliveriesDeep
<1>5. TurnsDeep'
  <2> SUFFICES ASSUME NEW t \in Sessions
               PROVE  DepthOf(current[t])' <= lastHop'[t] + Slack'
    BY DEF TurnsDeep
  <2>1. DepthOf(current[t])' = DepthOf(current[t]) /\ DepthOf(current[t]) \in Nat
    BY <1>1, <1>2, DepthType DEF DepthOf, TypeOK
  <2>2. DepthOf(current[t]) <= lastHop[t] + Slack /\ lastHop[t] \in 0..MaxHops
    BY <1>1 DEF DepthInv, TurnsDeep, TypeOK
  <2>3. lastHop'[t] \in Nat
    BY <1>1, <1>2 DEF TypeOK
  <2> QED BY <1>1, <2>1, <2>2, <2>3
<1>6. WatchHops'
  BY <1>2 DEF DepthInv, WatchHops
<1> QED BY <1>1, <1>4, <1>5, <1>6 DEF DepthInv

LEMMA RelayDeep ==
  ASSUME IInv, DepthInv, NEW s \in Sessions, NEW to, Relay(s, to)
  PROVE  DepthInv'
<1>1. TypeOK /\ Slack \in Nat
  BY SlackType DEF IInv, DepthInv
<1>2. PICK hop \in nextHop(lastHop[s]), t \in resolveTarget(to, s) :
        /\ Post([from |-> s, to |-> t, senderSessionId |-> s, hop |-> hop, re |-> 0,
                 depth |-> DepthOf(current[s]) + 1])
        /\ watches' = watches \cup
             {[id |-> Len(deliveries) + 1, sender |-> s, target |-> t, hop |-> hop,
               seen |-> FALSE]}
  BY DEF Relay
<1> DEFINE message == [from |-> s, to |-> t, senderSessionId |-> s, hop |-> hop,
                       re |-> 0, depth |-> DepthOf(current[s]) + 1]
<1>3. lastHop[s] \in Nat /\ hop \in Nat /\ hop = lastHop[s] + 1
  BY <1>1, ConfigAssumption DEF TypeOK, nextHop
<1>4. DepthOf(current[s]) \in Nat /\ DepthOf(current[s]) <= lastHop[s] + Slack
  BY <1>1, DepthType DEF TypeOK, DepthInv, TurnsDeep
<1>5. message \in Message /\ message.depth <= message.hop + Slack
  <2>1. t \in Sessions
    BY TargetIsOther
  <2>2. DepthOf(current[s]) + 1 <= hop + Slack
    BY <1>1, <1>3, <1>4
  <2> QED BY <1>3, <1>4, <2>1, <2>2 DEF Message
<1>6. /\ budget'["context"] = budget["context"]
      /\ UNCHANGED <<lastHop, current>>
  BY <1>1 DEF Relay, Spend, TypeOK, Budgets
<1>7. /\ DeliveriesDeep'
      /\ \A m \in 0..Len(deliveries) : DepthOf(m)' = DepthOf(m)
      /\ \A w \in watches : w.hop = deliveries'[w.id].hop
  BY <1>2, <1>5, <1>6, PostDeep
<1>8. TurnsDeep'
  <2> SUFFICES ASSUME NEW u \in Sessions
               PROVE  DepthOf(current[u])' <= lastHop'[u] + Slack'
    BY DEF TurnsDeep
  <2>1. DepthOf(current[u])' = DepthOf(current[u])
    BY <1>1, <1>6, <1>7 DEF TypeOK, DepthOf
  <2> QED BY <1>6, <2>1 DEF DepthInv, TurnsDeep, Slack
<1>9. WatchHops'
  <2>1. deliveries'[Len(deliveries) + 1] = message
    BY <1>1, <1>2, <1>5, Posted
  <2> QED BY <1>2, <1>7, <2>1 DEF WatchHops
<1> QED BY <1>6, <1>7, <1>8, <1>9 DEF DepthInv

LEMMA TurnEndDeep ==
  ASSUME IInv, DepthInv, NEW s \in Sessions, NEW reason \in Reasons, TurnEnd(s, reason)
  PROVE  DepthInv'
<1>1. TypeOK /\ Slack \in Nat
  BY SlackType DEF IInv, DepthInv
<1>2. /\ \A t \in Sessions : current'[t] \in {current[t], Human}
      /\ UNCHANGED lastHop
  BY <1>1 DEF TurnEnd, TypeOK
<1>3. CASE /\ UNCHANGED deliveries /\ budget'["context"] = budget["context"]
           /\ \A w \in watches' : w \in watches
  BY <1>2, <1>3, StillDeep
<1>4. ASSUME NEW w \in FirstSeen(s), watches' = Remaining(w), deliverReply(w, s, reason)
      PROVE  DepthInv'
  <2>1. w \in watches /\ w \in Watch /\ \A v \in watches' : v \in watches
    BY <1>1, <1>4 DEF FirstSeen, SeenBy, Remaining, TypeOK
  <2>2. ASSUME NEW hop \in planReply(reason, w.hop), UNCHANGED budget,
               Post([from |-> s, to |-> w.sender, senderSessionId |-> w.sender,
                     hop |-> hop, re |-> w.id, depth |-> DepthOf(w.id) + 1])
        PROVE  DepthInv'
    <3> DEFINE message == [from |-> s, to |-> w.sender,
                           senderSessionId |-> w.sender, hop |-> hop, re |-> w.id,
                           depth |-> DepthOf(w.id) + 1]
    <3>1. w.hop \in Nat /\ hop \in Nat /\ hop = w.hop + 1
      BY <2>1, <2>2 DEF planReply, nextHop, Watch
    <3>2. /\ w.id \in DOMAIN deliveries /\ w.id \in 0..Len(deliveries) /\ w.id # Human
      BY <1>1, <2>1, LenProperties DEF IInv, Routing, Routes, Routed, TypeOK, Human
    <3>3. DepthOf(w.id) \in Nat /\ DepthOf(w.id) <= w.hop + Slack
      <4>1. DepthOf(w.id) = deliveries[w.id].depth /\ w.hop = deliveries[w.id].hop
        BY <2>1, <3>2 DEF DepthOf, DepthInv, WatchHops
      <4> QED BY <1>1, <3>2, <4>1, DepthType DEF DepthInv, DeliveriesDeep
    <3>4. message \in Message /\ message.depth <= message.hop + Slack
      <4>1. DepthOf(w.id) + 1 <= hop + Slack
        BY <1>1, <3>1, <3>3
      <4> QED BY <2>1, <3>1, <3>3, <4>1 DEF Message, Watch
    <3>5. /\ DeliveriesDeep'
          /\ \A m \in 0..Len(deliveries) : DepthOf(m)' = DepthOf(m)
          /\ \A v \in watches : v.hop = deliveries'[v.id].hop
      BY <2>2, <3>4, PostDeep
    <3>6. TurnsDeep'
      <4> SUFFICES ASSUME NEW u \in Sessions
                   PROVE  DepthOf(current[u])' <= lastHop'[u] + Slack'
        BY DEF TurnsDeep
      <4>1. DepthOf(current[u])' \in {DepthOf(current[u]), 0}
        BY <1>1, <1>2, <3>5 DEF TypeOK, DepthOf, Human
      <4>2. Slack' = Slack /\ lastHop[u] \in Nat
        BY <1>1, <2>2, ConfigAssumption DEF Slack, TypeOK
      <4> QED BY <1>1, <1>2, <4>1, <4>2 DEF DepthInv, TurnsDeep
    <3> QED BY <2>1, <2>2, <3>5, <3>6 DEF DepthInv, WatchHops
  <2>3. budget'["context"] = budget["context"] \/ ~(UNCHANGED budget \/ Spend("fault"))
    BY <1>1 DEF Spend, TypeOK, Budgets
  <2> QED BY <1>3, <1>4, <2>1, <2>2, <2>3 DEF deliverReply
<1> QED BY <1>3, <1>4 DEF TurnEnd

LEMMA DeepInductive == Spec => [](IInv /\ DepthInv)
<1>1. Init => IInv /\ DepthInv
  <2> SUFFICES ASSUME Init PROVE DepthInv
    BY InitRouting
  <2>1. TypeOK /\ budget["context"] = MaxContexts /\ MaxContexts \in Nat
    BY InitRouting, BoundsAssumption DEF IInv, Init, Budgets
  <2>2. Slack \in Nat
    BY <2>1, SlackType
  <2>3. deliveries = <<>> /\ watches = {} /\ DOMAIN deliveries = {}
    BY DEF Init
  <2>4. TurnsDeep
    <3> SUFFICES ASSUME NEW s \in Sessions
                 PROVE  DepthOf(current[s]) <= lastHop[s] + Slack
      BY DEF TurnsDeep
    <3>1. DepthOf(current[s]) = 0 /\ lastHop[s] \in Nat
      BY <2>1, ConfigAssumption DEF Init, TypeOK, DepthOf
    <3> QED BY <2>2, <3>1
  <2> QED BY <2>1, <2>3, <2>4 DEF DepthInv, DeliveriesDeep, WatchHops
<1>2. IInv /\ DepthInv /\ [Next]_vars => (IInv /\ DepthInv)'
  <2> SUFFICES ASSUME IInv, DepthInv, [Next]_vars PROVE DepthInv'
    BY StepRouting
  <2>1. CASE UNCHANGED vars
    BY <2>1, StillDeep DEF vars
  <2>2. ASSUME NEW s \in Sessions, Step(s) PROVE DepthInv'
    <3>1. CASE Attach(s) \/ Input(s) \/ Dispose(s)
      <4>1. /\ UNCHANGED <<deliveries, lastHop>>
            /\ \A t \in Sessions : current'[t] \in {current[t], Human}
            /\ \A w \in watches' : w \in watches
        BY <3>1 DEF Attach, Input, Dispose, IInv, TypeOK
      <4>2. budget'["context"] = budget["context"]
        BY <3>1 DEF Attach, Input, Dispose, Spend, IInv, TypeOK, Budgets
      <4> QED BY <4>1, <4>2, StillDeep
    <3> QED BY <2>2, <3>1, ClaimDeep, ContextRowDeep, RelayDeep, TurnEndDeep DEF Step
  <2> QED BY <2>1, <2>2 DEF Next
<1> QED BY <1>1, <1>2, PTL DEF Spec

\* The hop gate bounds how deep one human input is relayed, replies counted,
\* up to one more chain for each context row that hid a relay (decision.ts:81,
\* index.ts:296-316).
THEOREM ChainsEnd == Spec => []ChainBounded
<1>1. IInv /\ DepthInv => ChainBounded
  <2> SUFFICES ASSUME IInv, DepthInv, NEW i \in DOMAIN deliveries
               PROVE  deliveries[i].depth <= MaxHops * (1 + MaxContexts - budget["context"])
    BY DEF ChainBounded
  <2>1. /\ TypeOK /\ MaxHops \in Nat /\ MaxContexts \in Nat
        /\ budget["context"] \in Nat /\ Slack \in Nat
    BY BoundsAssumption, ConfigAssumption, SlackType DEF IInv, DepthInv
  <2>2. deliveries[i].depth \in Nat /\ deliveries[i].hop \in 1..MaxHops
    <3>1. deliveries[i] \in Message
      BY <2>1, ElementOfSeq, LenProperties DEF TypeOK
    <3> QED BY <3>1 DEF Message, IInv, Routing, HopsBounded
  <2>3. deliveries[i].depth <= deliveries[i].hop + Slack
    BY DEF DepthInv, DeliveriesDeep
  <2>4. deliveries[i].depth <= MaxHops + Slack
    BY <2>1, <2>2, <2>3
  <2>5. \A h, m, b \in Nat : h * (1 + m - b) = h + h * (m - b)
    OBVIOUS
  <2> QED BY <2>1, <2>4, <2>5 DEF Slack
<1> QED BY DeepInductive, <1>1, PTL

-----------------------------------------------------------------------------
(* What becomes of a watch.                                                  *)

\* Why a watch may go without a reply.
Excused(w) ==
  \/ Answered(w.id)'
  \/ agent'[w.target] = "closed"
  \/ ~Live(w.sender)
  \/ w.hop = MaxHops
  \/ lastEnd' = "other"
  \/ budget'["fault"] < budget["fault"]

LEMMA TurnEndExcused ==
  ASSUME IInv, WatchHops, NEW s \in Sessions, NEW reason \in Reasons, TurnEnd(s, reason),
         NEW w \in watches, \A v \in watches' : v.id # w.id
  PROVE  Excused(w)
<1>1. /\ TypeOK /\ w \in Watch /\ lastEnd' = reason
      /\ w.hop \in 1..MaxHops
  BY DEF TurnEnd, IInv, TypeOK, Routing, Routes, Routed, HopsBounded, WatchHops
<1>2. PICK v \in FirstSeen(s) : watches' = Remaining(v) /\ deliverReply(v, s, reason)
  BY DEF TurnEnd
<1>3. v = w
  BY <1>2 DEF Remaining
<1>4. CASE Live(w.sender) /\ planReply(reason, w.hop) = {}
  <2>1. CASE reason \in {"completed", "max-tokens", "error"}
    <3>1. nextHop(w.hop) = {}
      BY <1>4, <2>1 DEF planReply, replyPolicy
    <3>2. ~(w.hop + 1 <= MaxHops)
      BY <3>1 DEF nextHop
    <3>3. w.hop = MaxHops
      BY <1>1, <3>2, ConfigAssumption
    <3> QED BY <3>3 DEF Excused
  <2>2. CASE reason = "other"
    BY <1>1, <2>2 DEF Excused
  <2> QED BY <2>1, <2>2 DEF Reasons
<1>5. CASE \E hop \in planReply(reason, w.hop) :
             Post([from |-> s, to |-> w.sender, senderSessionId |-> w.sender,
                   hop |-> hop, re |-> w.id, depth |-> DepthOf(w.id) + 1])
  <2>1. PICK hop \in planReply(reason, w.hop) :
          Post([from |-> s, to |-> w.sender, senderSessionId |-> w.sender,
                hop |-> hop, re |-> w.id, depth |-> DepthOf(w.id) + 1])
    BY <1>5
  <2> DEFINE message == [from |-> s, to |-> w.sender, senderSessionId |-> w.sender,
                         hop |-> hop, re |-> w.id, depth |-> DepthOf(w.id) + 1]
  <2>2. message \in Message
    <3>1. hop \in Nat
      BY <1>1 DEF planReply, nextHop, Watch
    <3>2. w.id \in 0..Len(deliveries)
      BY <1>1, LenProperties DEF IInv, Routing, Routes, Routed, TypeOK
    <3> QED BY <1>1, <3>1, <3>2, DepthType DEF Message, Watch
  <2>3. /\ Len(deliveries) + 1 \in DOMAIN deliveries'
        /\ deliveries'[Len(deliveries) + 1] = message
    <3>1. /\ Len(deliveries) \in Nat /\ DOMAIN deliveries' = 1..(Len(deliveries) + 1)
          /\ deliveries'[Len(deliveries) + 1] = message
      BY <1>1, <2>1, <2>2, Posted
    <3> QED BY <3>1
  <2>4. Answered(w.id)'
    BY <2>3 DEF Answered
  <2> QED BY <2>4 DEF Excused
<1>6. CASE Spend("fault")
  BY <1>1, <1>6 DEF Excused, Spend, TypeOK, Budgets
<1> QED BY <1>2, <1>3, <1>4, <1>5, <1>6 DEF deliverReply, Excused

\* A relay's watch goes with its reply or for a reason the asker can be told,
\* never silently (index.ts:371-399).
THEOREM NothingGoesSilently == Spec => AnsweredUnlessExcused
<1>1. IInv /\ DepthInv /\ [Next]_vars =>
        [\A w \in watches : (\A v \in watches' : v.id # w.id) => Excused(w)]_vars
  <2> SUFFICES ASSUME IInv, DepthInv, Next, NEW w \in watches,
                      \A v \in watches' : v.id # w.id
               PROVE  Excused(w)
    OBVIOUS
  <2>1. PICK s \in Sessions : Step(s)
    BY DEF Next
  <2>2. CASE Dispose(s)
    <3>1. w.target = s
      BY <2>2 DEF Dispose, Targeting
    <3> QED BY <2>2, <3>1 DEF Dispose, Excused, IInv, TypeOK
  <2>3. CASE Claim(s)
    <3> DEFINE m == Head(inbox[s])
               v == IF w.id = m THEN [w EXCEPT !.seen = TRUE] ELSE w
    <3>1. v \in watches'
      BY <2>3 DEF Claim, markSeen
    <3>2. v.id = w.id
      BY DEF IInv, TypeOK, Watch
    <3> QED BY <3>1, <3>2
  <2>4. CASE \E reason \in Reasons : TurnEnd(s, reason)
    BY <2>4, TurnEndExcused DEF DepthInv
  <2>5. CASE Attach(s) \/ Input(s) \/ ContextRow(s) \/ \E to \in Addresses : Relay(s, to)
    BY <2>5 DEF Attach, Input, ContextRow, Relay
  <2> QED BY <2>1, <2>2, <2>3, <2>4, <2>5 DEF Step
<1> QED BY DeepInductive, <1>1, PTL DEF Spec, AnsweredUnlessExcused, Excused

-----------------------------------------------------------------------------
(* Messenger implements RelayLedger.                                         *)

\* The refinement mapping of Messenger's Ledger, by name.
Asked == {i \in DOMAIN deliveries : deliveries[i].re = 0}
Answers == {[reply |-> i, relay |-> deliveries[i].re] :
              i \in {j \in DOMAIN deliveries : deliveries[j].re # 0}}
Closed == {i \in DOMAIN deliveries :
             deliveries[i].re = 0 /\ ~Answered(i) /\ \A w \in watches : w.id # i}

LEMMA OwedIsOpen ==
  ASSUME IInv
  PROVE  \A r : r \in Ledger!Owed <=> r \in Asked /\ ~Answered(r) /\ r \notin Closed
<1>1. \A r \in Asked : r # 0
  BY LenProperties DEF IInv, TypeOK, Asked
<1>2. ASSUME NEW r \in Asked
      PROVE  r \in Ledger!Answered <=> Answered(r)
  <2>1. ASSUME Answered(r)
        PROVE  r \in Ledger!Answered
    <3>1. PICK i \in DOMAIN deliveries : deliveries[i].re = r
      BY <2>1 DEF Answered
    <3> DEFINE x == [reply |-> i, relay |-> deliveries[i].re]
    <3>2. x \in Answers /\ x.relay = r
      BY <1>1, <3>1 DEF Answers
    <3> QED BY <3>2 DEF Ledger!Answered, Answers
  <2>2. ASSUME r \in Ledger!Answered
        PROVE  Answered(r)
    <3>1. PICK x \in Answers : x.relay = r
      BY <2>2 DEF Ledger!Answered, Answers
    <3> QED BY <3>1 DEF Answers, Answered
  <2> QED BY <2>1, <2>2
<1> QED BY <1>2 DEF Ledger!Owed, Asked, Closed

LEMMA KeepsWatchesLedger ==
  ASSUME IInv, KeepsWatches
  PROVE  [Ledger!Next]_Ledger!ledger
<1> DEFINE Gone == {i \in Ledger!Owed : \A w \in watches' : w.id # i}
<1>1. Asked' = Asked /\ Answers' = Answers
  BY DEF KeepsWatches, Asked, Answers
<1>2. Closed' = Closed \cup Gone
  <2>1. \A i : (\A w \in watches : w.id # i) => (\A w \in watches' : w.id # i)
    BY DEF KeepsWatches
  <2>2. \A i : Answered(i)' <=> Answered(i)
    BY DEF KeepsWatches, Answered
  <2>3. \A i : i \in Closed' <=> i \in Asked /\ ~Answered(i) /\ \A w \in watches' : w.id # i
    BY <2>2 DEF KeepsWatches, Closed, Asked
  <2>4. \A i : i \in Closed <=> i \in Asked /\ ~Answered(i) /\ \A w \in watches : w.id # i
    BY DEF Closed, Asked
  <2>5. \A i : i \in Gone <=>
          /\ i \in Asked /\ ~Answered(i) /\ i \notin Closed
          /\ \A w \in watches' : w.id # i
    BY OwedIsOpen
  <2> HIDE DEF Gone
  <2> QED BY <2>1, <2>3, <2>4, <2>5
<1>3. CASE Gone = {}
  BY <1>1, <1>2, <1>3 DEF Ledger!ledger, Asked, Answers, Closed
<1>4. CASE Gone # {}
  <2>1. Ledger!Close(Gone)
    BY <1>1, <1>2, <1>4 DEF Ledger!Close, Asked, Answers, Closed
  <2>2. Gone \in SUBSET Ledger!Owed
    OBVIOUS
  <2>3. \E R \in SUBSET Ledger!Owed : Ledger!Close(R)
    <3> HIDE DEF Gone
    <3> QED BY <2>1, <2>2 DEF Ledger!Close
  <2> QED BY <2>3 DEF Ledger!Next
<1> QED BY <1>3, <1>4

LEMMA AddsRelayLedger ==
  ASSUME IInv, AddsRelay
  PROVE  [Ledger!Next]_Ledger!ledger
<1>1. PICK message \in Message, w \in Watch :
        /\ Post(message)
        /\ message.re = 0
        /\ w.id = Len(deliveries) + 1
        /\ watches' = watches \cup {w}
  BY DEF AddsRelay
<1> DEFINE r == Len(deliveries) + 1
<1>2. /\ Len(deliveries) \in Nat
      /\ DOMAIN deliveries = 1..Len(deliveries)
      /\ DOMAIN deliveries' = 1..r
      /\ \A i \in 1..Len(deliveries) : deliveries'[i] = deliveries[i]
      /\ deliveries'[r] = message
  BY <1>1, Posted DEF IInv
<1>3. \A i \in DOMAIN deliveries : deliveries[i].re < i /\ deliveries[i].re \in Nat
  <2>1. \A i \in 1..Len(deliveries) : deliveries[i] \in Message
    BY <1>2, ElementOfSeq DEF IInv, TypeOK
  <2> QED BY <1>2, <2>1 DEF IInv, Routing, ReplyToAsker, Message
<1>4. Asked' = Asked \cup {r} /\ r \notin Asked
  BY <1>1, <1>2 DEF Asked
<1>5. Answers' = Answers
  <2>1. {j \in DOMAIN deliveries' : deliveries'[j].re # 0}
          = {j \in DOMAIN deliveries : deliveries[j].re # 0}
    BY <1>1, <1>2
  <2> QED BY <1>2, <2>1 DEF Answers
<1>6. Closed' = Closed
  BY <1>1, <1>2 DEF Closed, Answered
<1>7. Ledger!Ask(r)
  BY <1>4, <1>5, <1>6 DEF Ledger!Ask, Asked, Answers, Closed
<1>8. \E x \in Asked' \ Asked : Ledger!Ask(x)
  <2>1. r \in Asked' \ Asked
    BY <1>4
  <2> HIDE DEF r
  <2> QED BY <1>7, <2>1 DEF Ledger!Ask
<1> QED BY <1>8 DEF Ledger!Next, Asked

LEMMA AddsReplyLedger ==
  ASSUME IInv, AddsReply
  PROVE  [Ledger!Next]_Ledger!ledger
<1>1. PICK message \in Message, w \in watches :
        /\ Post(message)
        /\ message.re = w.id
        /\ watches' = watches \ {w}
  BY DEF AddsReply
<1>2. /\ Len(deliveries) \in Nat
      /\ DOMAIN deliveries = 1..Len(deliveries)
      /\ DOMAIN deliveries' = 1..(Len(deliveries) + 1)
      /\ \A i \in 1..Len(deliveries) : deliveries'[i] = deliveries[i]
      /\ deliveries'[Len(deliveries) + 1] = message
  BY <1>1, Posted DEF IInv
<1>3. Routed(w) /\ w.id # 0
  BY <1>2 DEF IInv, Routing, Routes, Routed
<1>4. Asked' = Asked
  BY <1>1, <1>2, <1>3 DEF Asked
<1> DEFINE x == [reply |-> Len(deliveries) + 1, relay |-> w.id]
<1>5. Answers' = Answers \cup {x} /\ x \notin Answers
  <2>1. {j \in DOMAIN deliveries' : deliveries'[j].re # 0}
          = {j \in DOMAIN deliveries : deliveries[j].re # 0} \cup {Len(deliveries) + 1}
    BY <1>1, <1>2, <1>3
  <2>2. \A y : y \in Answers' <=>
          \E i \in {j \in DOMAIN deliveries : deliveries[j].re # 0}
                   \cup {Len(deliveries) + 1} :
            y = [reply |-> i, relay |-> deliveries'[i].re]
    BY <2>1 DEF Answers
  <2>3. \A i \in DOMAIN deliveries : deliveries'[i].re = deliveries[i].re
    BY <1>2
  <2>4. \A y : y \in Answers <=>
          \E i \in {j \in DOMAIN deliveries : deliveries[j].re # 0} :
            y = [reply |-> i, relay |-> deliveries[i].re]
    BY DEF Answers
  <2>5. x = [reply |-> Len(deliveries) + 1,
             relay |-> deliveries'[Len(deliveries) + 1].re]
    BY <1>1, <1>2
  <2>6. Answers' = Answers \cup {x}
    BY <2>2, <2>3, <2>4, <2>5
  <2>7. \A y \in Answers : y.reply \in DOMAIN deliveries
    BY <2>4
  <2>8. x.reply \notin DOMAIN deliveries
    BY <1>2
  <2> QED BY <2>6, <2>7, <2>8
<1>6. Closed' = Closed
  BY <1>1, <1>2, <1>3 DEF Closed, Answered, Routed, IInv, Routing, OneWatch
<1>7. w.id \in Ledger!Owed
  BY <1>3, OwedIsOpen DEF Routed, Asked, Closed
<1>8. Ledger!Answer(x)
  BY <1>4, <1>5, <1>6, <1>7 DEF Ledger!Answer, Asked, Answers, Closed
<1>9. \E y \in Answers' \ Answers : Ledger!Answer(y)
  <2>1. x \in Answers' \ Answers
    BY <1>5
  <2> HIDE DEF x
  <2> QED BY <1>8, <2>1 DEF Ledger!Answer
<1> QED BY <1>9 DEF Ledger!Next, Answers

\* The relays of the messenger go through the life of the abstract ledger: asked
\* once, then answered by one message or closed, and never touched again.
THEOREM ImplementsLedger == Spec => KeepsLedger
<1>1. Init => Ledger!Init
  BY DEF Init, Ledger!Init
<1>2. IInv /\ [Next]_vars => [Ledger!Next]_Ledger!ledger
  BY StepRouting, KeepsWatchesLedger, AddsRelayLedger, AddsReplyLedger DEF Move
<1> QED BY Inductive, <1>1, <1>2, PTL DEF Spec, KeepsLedger, Ledger!Spec
=============================================================================
