------------------------ MODULE NotificationsProofs ------------------------
(***************************************************************************)
(* Proofs about Notifications, for every set of sessions, interactions and *)
(* toggles and every number of lives, turns and visits.                    *)
(*                                                                         *)
(* What was announced is Old: a turn that has ended, or an interaction the *)
(* life has seen or an earlier life announced.  What a handler fires is    *)
(* not, so it was announced nowhere; what waits for a prompt or a native   *)
(* tool waits there once and has not been shown.                           *)
(***************************************************************************)
EXTENDS Notifications, FiniteSetTheorems, TLAPS

Old(l, what) ==
  /\ l \in 1..life
  /\ \/ what.kind \in Outcomes /\ what.n \in 1..turns
     \/ what \in Interactions /\ (l = life => what \in seen)

Heard(f) == \E x \in shown : x.life = f.life /\ x.what = f.what

\* Fires that wait, or were shown.
ShownInv  == \A x \in shown : x.n = 1 /\ Old(x.life, x.what)
OpenInv   == /\ \A r \in open : r.n = 1 /\ Old(r.life, r.what) /\ ~Heard(r)
             /\ \A q, r \in open : q.life = r.life => q = r
             /\ desktop => open = {}
NativeInv == /\ \A q \in native : q.n = 1 /\ Old(q.life, q.what) /\ ~Heard(q)
             /\ \A q, r \in native : q.life = r.life /\ q.what = r.what => q = r
             /\ ~desktop => native = {}

\* A life that has not asked is "unrequested", one that waits "requesting".
PermissionInv ==
  /\ DOMAIN permission = Lives
  /\ \A l \in Lives : permission[l] = "requesting" <=> \E r \in open : r.life = l
  /\ \A l \in Lives : permission[l] = "unrequested" => \A a \in asked : a.life # l
  /\ \A a, b \in asked : a.life = b.life => a = b
  /\ \A r \in open : \E a \in asked : a.what = r.what

WatchInv ==
  \A w \in watched : w = [life |-> w.life, session |-> w.session, n |-> 1] /\ w.life \in 1..life

SeenInv ==
  /\ seen \subseteq Interactions
  /\ pending \in [Sessions -> Interactions \cup {NoInteraction}]
  /\ \A s \in Sessions : pending[s] \in seen \cup {NoInteraction}

EmitInv == ShownInv /\ OpenInv /\ NativeInv /\ PermissionInv

IInv == life \in Lives /\ turns \in Nat /\ desktop \in BOOLEAN /\ WatchInv /\ SeenInv /\ EmitInv

-----------------------------------------------------------------------------
(* Emitting.                                                               *)

\* The first notification of something in a life is its first.
LEMMA PublishFirst ==
  ASSUME NEW f, f.n = 1, ~Heard(f)
  PROVE  Publish(f) = [life |-> f.life, what |-> f.what, n |-> 1]
<1>1. {x \in shown : x.life = f.life /\ x.what = f.what} = {}
  BY DEF Heard
<1>2. Cardinality({x \in shown : x.life = f.life /\ x.what = f.what}) = 0
  BY <1>1, FS_EmptySet
<1> QED BY <1>2 DEF Publish

Fresh(fires) ==
  \A f \in fires : f = [life |-> f.life, what |-> f.what, n |-> 1] /\ f.life \in 1..life /\ ~Old(f.life, f.what)

LEMMA FreshUnheard ==
  ASSUME IInv, NEW fires, Fresh(fires), NEW f \in fires
  PROVE  /\ f.n = 1 /\ f.life \in Lives /\ ~Heard(f)
         /\ \A r \in open \cup native : ~(r.life = f.life /\ r.what = f.what)
<1>1. f.n = 1 /\ f.life \in 1..life /\ ~Old(f.life, f.what)
  BY DEF Fresh
<1>2. f.life \in Lives
  BY <1>1, BoundAssumption DEF IInv, Lives
<1>3. ~Heard(f)
  BY <1>1 DEF IInv, EmitInv, ShownInv, Heard
<1>4. \A r \in open \cup native : ~(r.life = f.life /\ r.what = f.what)
  BY <1>1 DEF IInv, EmitInv, OpenInv, NativeInv
<1> QED BY <1>1, <1>2, <1>3, <1>4

\* A step after which old things are old still.
Grows == life' = life /\ desktop' = desktop /\ \A l, what : Old(l, what) => Old(l, what)'

LEMMA ApiStep ==
  ASSUME IInv, NEW fires, Fresh(fires), ~desktop, notifyWithApi(fires), Grows,
         \A f \in fires : Old(f.life, f.what)'
  PROVE  EmitInv'
<1> DEFINE askers == {l \in Lives : AsksWhen(l) /\ \E f \in fires : f.life = l}
           granted == {g \in fires : permission[g.life] = "granted"}
<1>1. PICK first \in [askers -> fires] :
        /\ \A l \in askers : first[l].life = l
        /\ open' = open \cup {first[l] : l \in askers}
        /\ asked' = asked \cup
             {[first[l] EXCEPT !.n = 1 + Cardinality({a \in asked : a.life = l})] : l \in askers}
  BY DEF notifyWithApi
<1> DEFINE Ask(l) == [first[l] EXCEPT !.n = 1 + Cardinality({a \in asked : a.life = l})]
<1>2. ASSUME NEW l \in askers PROVE Ask(l).life = l /\ Ask(l).what = first[l].what
  <2>1. first[l] = [life |-> first[l].life, what |-> first[l].what, n |-> 1] /\ first[l].life = l
    BY <1>1 DEF Fresh
  <2> QED BY <2>1
<1>3. asked' = asked \cup {Ask(l) : l \in askers}
  BY <1>1
<1> HIDE DEF Ask
<1>4. /\ shown' = shown \cup {Publish(f) : f \in granted}
      /\ permission' = [l \in Lives |-> IF l \in askers THEN "requesting" ELSE permission[l]]
      /\ native' = native
  BY DEF notifyWithApi
<1>5. \A f \in granted : Publish(f) = [life |-> f.life, what |-> f.what, n |-> 1]
  BY FreshUnheard, PublishFirst
<1>6. ShownInv'
  BY <1>4, <1>5 DEF IInv, EmitInv, ShownInv, Grows
<1>7. \A l \in askers : permission[l] = "unrequested"
  BY DEF AsksWhen
<1>8. \A r \in open : r.life \in Lives /\ permission[r.life] = "requesting"
  BY BoundAssumption DEF IInv, EmitInv, OpenInv, PermissionInv, Old, Lives
<1>9. OpenInv'
  <2>1. ASSUME NEW r \in open' PROVE r.n = 1 /\ Old(r.life, r.what)' /\ ~Heard(r)'
    <3>1. r.n = 1 /\ Old(r.life, r.what)' /\ ~Heard(r) /\ permission[r.life] # "granted"
      <4>1. CASE r \in open
        BY <1>8, <4>1 DEF IInv, EmitInv, OpenInv, Grows
      <4>2. CASE r \notin open
        <5>1. PICK l \in askers : r = first[l]
          BY <1>1, <4>2
        <5>2. r \in fires /\ r.life = l
          BY <1>1, <5>1
        <5> QED BY <1>7, <5>2, FreshUnheard
      <4> QED BY <4>1, <4>2
    <3>2. ASSUME NEW x \in shown', x.life = r.life, x.what = r.what PROVE FALSE
      <4>1. CASE x \in shown
        BY <3>1, <3>2, <4>1 DEF Heard
      <4>2. CASE x \notin shown
        BY <1>4, <1>5, <3>1, <3>2, <4>2
      <4> QED BY <4>1, <4>2
    <3> QED BY <3>1, <3>2 DEF Heard
  <2>2. ASSUME NEW q \in open', NEW r \in open', q.life = r.life PROVE q = r
    <3>1. \A p \in open' \ open : \E l \in askers : p = first[l] /\ p.life = l
      BY <1>1
    <3> QED BY <1>7, <1>8, <2>2, <3>1 DEF IInv, EmitInv, OpenInv
  <2> QED BY <2>1, <2>2 DEF OpenInv, Grows
<1>10. NativeInv'
  BY <1>4 DEF IInv, EmitInv, NativeInv, Grows
<1>11. PermissionInv'
  <2>1. DOMAIN permission' = Lives
    BY <1>4
  <2>2. ASSUME NEW l \in Lives PROVE permission'[l] = "requesting" <=> \E r \in open' : r.life = l
    BY <1>1, <1>4 DEF IInv, EmitInv, PermissionInv
  <2>3. ASSUME NEW l \in Lives, permission'[l] = "unrequested", NEW a \in asked' PROVE a.life # l
    <3>1. l \notin askers /\ permission[l] = "unrequested"
      BY <1>4, <2>3
    <3> QED BY <1>2, <1>3, <3>1 DEF IInv, EmitInv, PermissionInv
  <2>4. ASSUME NEW a \in asked', NEW b \in asked', a.life = b.life PROVE a = b
    <3>1. \A c \in asked' : c \in asked \/ (c.life \in askers /\ c = Ask(c.life))
      BY <1>2, <1>3
    <3>2. \A c \in asked : c.life \notin askers
      BY <1>7 DEF IInv, EmitInv, PermissionInv
    <3> QED BY <2>4, <3>1, <3>2 DEF IInv, EmitInv, PermissionInv
  <2>5. ASSUME NEW r \in open' PROVE \E a \in asked' : a.what = r.what
    <3>1. CASE r \in open
      BY <1>3, <3>1 DEF IInv, EmitInv, PermissionInv
    <3>2. CASE r \notin open
      <4>1. PICK l \in askers : r = first[l]
        BY <1>1, <3>2
      <4>2. Ask(l) \in asked' /\ Ask(l).what = r.what
        BY <1>2, <1>3, <4>1
      <4> QED BY <4>2
    <3> QED BY <3>1, <3>2
  <2> QED BY <2>1, <2>2, <2>3, <2>4, <2>5 DEF PermissionInv
<1> QED BY <1>6, <1>9, <1>10, <1>11 DEF EmitInv

LEMMA NativeStep ==
  ASSUME IInv, NEW fires, Fresh(fires), desktop, notifyNatively(fires), Grows,
         \A f \in fires : Old(f.life, f.what)'
  PROVE  EmitInv'
<1> DEFINE Call(f) == [life |-> f.life, what |-> f.what, n |-> f.n, tool |-> "terminal-notifier"]
<1>1. native' = native \cup {Call(f) : f \in fires} /\ UNCHANGED <<permission, asked, open, shown>>
  BY DEF notifyNatively
<1>2. ShownInv' /\ OpenInv' /\ PermissionInv'
  BY <1>1 DEF IInv, EmitInv, ShownInv, OpenInv, PermissionInv, Heard, Grows
<1>3. ASSUME NEW q \in native' PROVE q.n = 1 /\ Old(q.life, q.what)' /\ ~Heard(q)'
  <2>1. CASE q \in native
    BY <1>1, <2>1 DEF IInv, EmitInv, NativeInv, Heard, Grows
  <2>2. CASE q \notin native
    BY <1>1, <2>2, FreshUnheard DEF Heard
  <2> QED BY <2>1, <2>2
<1>4. ASSUME NEW q \in native', NEW r \in native', q.life = r.life, q.what = r.what PROVE q = r
  <2>1. \A p \in native' \ native : \E f \in fires : p = Call(f)
    BY <1>1
  <2>2. \A f \in fires : f.n = 1 /\ \A p \in native : ~(p.life = f.life /\ p.what = f.what)
    BY FreshUnheard
  <2>3. CASE q \in native /\ r \in native
    BY <1>4, <2>3 DEF IInv, EmitInv, NativeInv
  <2>4. CASE q \notin native \/ r \notin native
    BY <1>4, <2>1, <2>2, <2>4
  <2> QED BY <2>3, <2>4
<1>5. NativeInv'
  BY <1>3, <1>4 DEF NativeInv, Grows
<1> QED BY <1>2, <1>5 DEF EmitInv

LEMMA NotifyStep ==
  ASSUME IInv, NEW fires, Fresh(fires), notify(fires), Grows, \A f \in fires : Old(f.life, f.what)'
  PROVE  EmitInv'
<1>1. Eligible(fires) \subseteq fires
  BY DEF Eligible
<1>2. Fresh(Eligible(fires)) /\ \A f \in Eligible(fires) : Old(f.life, f.what)'
  BY <1>1 DEF Fresh
<1> QED BY <1>2, ApiStep, NativeStep DEF notify

\* A step that announces nothing.
LEMMA SilentStep ==
  ASSUME EmitInv, UNCHANGED emitter, desktop' = desktop, \A l, what : Old(l, what) => Old(l, what)'
  PROVE  EmitInv'
<1> USE DEF emitter
<1>1. ShownInv' /\ PermissionInv'
  BY DEF EmitInv, ShownInv, PermissionInv
<1>2. OpenInv' /\ NativeInv'
  BY DEF EmitInv, OpenInv, NativeInv, Heard
<1> QED BY <1>1, <1>2 DEF EmitInv

LEMMA OldKept ==
  ASSUME UNCHANGED <<life, turns, seen>>, NEW l, NEW what, Old(l, what)
  PROVE  Old(l, what)'
BY DEF Old

-----------------------------------------------------------------------------
(* Actions.                                                                *)

LEMMA SettlesStep ==
  ASSUME IInv, NEW r \in open, NEW answer \in {"granted", "denied"},
         RequestSettles(r, answer) \/ (RequestFails(r) /\ answer = "denied")
  PROVE  IInv'
<1>1. /\ open' = open \ {r} /\ permission' = [permission EXCEPT ![r.life] = answer]
      /\ shown' = shown \/ shown' = shown \cup {Publish(r)}
      /\ UNCHANGED <<life, watched, pending, seen, turns, desktop, asked, native>>
  BY DEF RequestSettles, RequestFails, user, answers
<1>2. Publish(r) = [life |-> r.life, what |-> r.what, n |-> 1]
  BY PublishFirst DEF IInv, EmitInv, OpenInv
<1>3. WatchInv' /\ SeenInv'
  BY <1>1 DEF IInv, WatchInv, SeenInv
<1>4. \A l, what : Old(l, what) => Old(l, what)'
  BY <1>1, OldKept
<1>5. ShownInv'
  BY <1>1, <1>2, <1>4 DEF IInv, EmitInv, ShownInv, OpenInv
<1>6. OpenInv'
  BY <1>1, <1>2, <1>4 DEF IInv, EmitInv, OpenInv, Heard
<1>7. NativeInv'
  BY <1>1, <1>4 DEF IInv, EmitInv, NativeInv, OpenInv
<1>8. PermissionInv'
  <2>1. r.life \in Lives
    BY BoundAssumption DEF IInv, EmitInv, OpenInv, Old, Lives
  <2>2. ASSUME NEW l \in Lives PROVE permission'[l] = "requesting" <=> \E q \in open' : q.life = l
    <3>1. CASE l = r.life
      BY <1>1, <2>1, <3>1 DEF IInv, EmitInv, PermissionInv, OpenInv
    <3>2. CASE l # r.life
      BY <1>1, <2>1, <3>2 DEF IInv, EmitInv, PermissionInv
    <3> QED BY <3>1, <3>2
  <2> QED BY <1>1, <2>1, <2>2 DEF IInv, EmitInv, PermissionInv
<1> QED BY <1>1, <1>3, <1>5, <1>6, <1>7, <1>8 DEF IInv, EmitInv

LEMMA DispatchStep ==
  ASSUME IInv, NEW request \in native, NEW ok \in BOOLEAN, dispatchNativeNotify(request, ok)
  PROVE  IInv'
<1> DEFINE next == [request EXCEPT !.tool = "osascript"]
<1>1. /\ native' = (native \ {request}) \cup Fallback(request, ok)
      /\ shown' = IF ok THEN shown \cup {Publish(request)} ELSE shown
      /\ UNCHANGED <<life, watched, pending, seen, turns, desktop, permission, asked, open>>
  BY DEF dispatchNativeNotify, user
<1>2. Publish(request) = [life |-> request.life, what |-> request.what, n |-> 1]
  BY PublishFirst DEF IInv, EmitInv, NativeInv
<1>3. WatchInv' /\ SeenInv' /\ PermissionInv'
  BY <1>1 DEF IInv, EmitInv, WatchInv, SeenInv, PermissionInv
<1>4. \A l, what : Old(l, what) => Old(l, what)'
  BY <1>1, OldKept
<1>5. ShownInv'
  BY <1>1, <1>2, <1>4 DEF IInv, EmitInv, ShownInv, NativeInv
<1>6. desktop /\ open = {}
  BY DEF IInv, EmitInv, NativeInv, OpenInv
<1>7. OpenInv'
  BY <1>1, <1>6 DEF OpenInv
<1>8. NativeInv'
  <2>1. next.life = request.life /\ next.what = request.what /\ next.n = request.n
    OBVIOUS
  <2> HIDE DEF next
  <2>2. ok => native' = native \ {request}
    BY <1>1 DEF Fallback
  <2>3. ~ok => native' \subseteq (native \ {request}) \cup {next} /\ shown' = shown
    BY <1>1 DEF Fallback, next
  <2>4. CASE ok
    <3>1. ASSUME NEW q \in native' PROVE q.n = 1 /\ Old(q.life, q.what)' /\ ~Heard(q)'
      <4>1. /\ q \in native /\ q.n = 1 /\ Old(q.life, q.what)' /\ ~Heard(q)
            /\ ~(q.life = request.life /\ q.what = request.what)
        BY <1>4, <2>2, <2>4 DEF IInv, EmitInv, NativeInv
      <4>2. \A x \in shown' : x \in shown \/ (x.life = request.life /\ x.what = request.what)
        BY <1>1, <1>2
      <4> QED BY <4>1, <4>2 DEF Heard
    <3> QED BY <1>1, <1>6, <2>2, <2>4, <3>1 DEF IInv, EmitInv, NativeInv
  <2>5. CASE ~ok
    <3>1. \A q \in native' : q.n = 1 /\ Old(q.life, q.what)' /\ ~Heard(q)'
      BY <1>1, <1>4, <2>1, <2>3, <2>5 DEF IInv, EmitInv, NativeInv, Heard
    <3>2. \A p, q \in native' : p.life = q.life /\ p.what = q.what => p = q
      BY <2>1, <2>3, <2>5 DEF IInv, EmitInv, NativeInv
    <3> QED BY <1>1, <1>6, <3>1, <3>2 DEF NativeInv
  <2> QED BY <2>4, <2>5
<1> QED BY <1>1, <1>3, <1>5, <1>7, <1>8 DEF IInv, EmitInv

LEMMA TurnStep ==
  ASSUME IInv, NEW s \in Sessions, NEW outcome \in Outcomes, TurnEnds(s, outcome)
  PROVE  IInv'
<1> DEFINE what == [kind |-> outcome, session |-> s, n |-> turns + 1]
           Fire(w) == [life |-> w.life, n |-> w.n, what |-> what]
           fires == IF outcome = "aborted" THEN {} ELSE {Fire(w) : w \in {v \in watched : v.session = s}}
<1>1. /\ turns' = turns + 1 /\ notify(fires) /\ turns \in Nat
      /\ UNCHANGED <<life, watched, pending, seen, desktop>>
  BY DEF TurnEnds, IInv
<1>2. life \in Nat
  BY DEF IInv, Lives
<1>3. WatchInv' /\ SeenInv'
  BY <1>1 DEF IInv, WatchInv, SeenInv
<1>4. Grows
  <2> SUFFICES ASSUME NEW l, NEW w, Old(l, w) PROVE Old(l, w)'
    BY <1>1 DEF Grows
  <2> QED BY <1>1 DEF Old
<1>5. \A f \in fires : \E w \in watched : f = Fire(w) /\ w.n = 1 /\ w.life \in 1..life
  BY DEF IInv, WatchInv
<1>6. \A l : ~Old(l, what)
  <2>1. what.kind = outcome /\ what.n = turns + 1 /\ what.n \notin 1..turns
    BY <1>1
  <2>2. what \notin Interactions
    <3>1. \A i \in Interactions : i.kind \notin Outcomes
      BY InteractionAssumption DEF Outcomes
    <3> QED BY <2>1, <3>1
  <2> QED BY <2>1, <2>2 DEF Old
<1>7. Fresh(fires)
  BY <1>5, <1>6 DEF Fresh
<1>8. ASSUME NEW f \in fires PROVE Old(f.life, f.what)'
  <2>1. f.life \in 1..life /\ f.what.kind \in Outcomes /\ f.what.n = turns + 1
    BY <1>5
  <2> QED BY <1>1, <2>1 DEF Old
<1> HIDE DEF fires
<1>9. EmitInv'
  BY <1>1, <1>4, <1>7, <1>8, NotifyStep
<1> QED BY <1>1, <1>3, <1>9 DEF IInv

LEMMA RowStep ==
  ASSUME IInv, NEW s \in Sessions, NEW i \in Interactions \cup {NoInteraction}, RowChanges(s, i)
  PROVE  IInv'
<1> DEFINE now == {pending'[t] : t \in Sessions}
           new == now \ (seen \cup {NoInteraction})
           fires == {[life |-> life, what |-> j, n |-> 1] : j \in {k \in new : k.kind # "other"}}
<1>1. /\ pending' = [pending EXCEPT ![s] = i] /\ seen' = seen \cup (now \ {NoInteraction}) /\ notify(fires)
      /\ UNCHANGED <<life, watched, turns, desktop>>
  BY DEF RowChanges, reconcileInteractions, MarkedSeen, user
<1>2. pending' \in [Sessions -> Interactions \cup {NoInteraction}]
  BY <1>1 DEF IInv, SeenInv
<1>3. now \subseteq Interactions \cup {NoInteraction}
  BY <1>2
<1>4. SeenInv' /\ WatchInv'
  BY <1>1, <1>2, <1>3 DEF IInv, SeenInv, WatchInv
<1>5. life \in Nat /\ life >= 1
  BY BoundAssumption DEF IInv, Lives
<1>6. Grows
  <2> SUFFICES ASSUME NEW l, NEW w, Old(l, w) PROVE Old(l, w)'
    BY <1>1 DEF Grows
  <2> QED BY <1>1 DEF Old
<1>7. ASSUME NEW f \in fires
      PROVE  /\ f = [life |-> f.life, what |-> f.what, n |-> 1] /\ f.life = life
             /\ f.what \in new /\ f.what \in Interactions
  BY <1>3
<1>8. \A j \in Interactions : j.kind \notin Outcomes
  BY InteractionAssumption DEF Outcomes
<1>9. Fresh(fires)
  BY <1>5, <1>7, <1>8 DEF Fresh, Old
<1>10. ASSUME NEW f \in fires PROVE Old(f.life, f.what)'
  BY <1>1, <1>5, <1>7 DEF Old
<1> HIDE DEF fires
<1>11. EmitInv'
  BY <1>1, <1>6, <1>9, <1>10, NotifyStep
<1> QED BY <1>1, <1>4, <1>11 DEF IInv

LEMMA SeenKept ==
  ASSUME IInv, UNCHANGED <<life, pending, seen, turns, desktop, emitter>>, WatchInv'
  PROVE  IInv'
<1>1. \A l, what : Old(l, what) => Old(l, what)'
  BY OldKept
<1>2. EmitInv'
  BY <1>1, SilentStep DEF IInv
<1> QED BY <1>2 DEF IInv, SeenInv

\* A reconciled subscription is the session's only one in its life.
LEMMA ReconcileStep ==
  ASSUME IInv, NEW l, NEW ids, NEW bound, watched' = reconcileSessions(l, ids, bound),
         life' \in Nat, life <= life', l \in 1..life'
  PROVE  WatchInv'
<1>1. ASSUME NEW w \in watched'
      PROVE  w \in watched \/ w = [life |-> l, session |-> w.session, n |-> 1]
  BY DEF reconcileSessions
<1>2. life \in Nat
  BY DEF IInv, Lives
<1> QED BY <1>1, <1>2 DEF IInv, WatchInv

LEMMA ReloadStep ==
  ASSUME IInv, Reload
  PROVE  IInv'
<1>1. /\ life < MaxLives /\ life' = life + 1 /\ seen' = {pending[s] : s \in Sessions} \ {NoInteraction}
      /\ UNCHANGED <<pending, turns, desktop, emitter>>
  BY DEF Reload, Seed, user
<1>2. life \in Nat /\ life' \in Lives /\ life' \in Nat
  BY <1>1, BoundAssumption DEF IInv, Lives
<1>3. PICK bound \in SUBSET Sessions : watched' = reconcileSessions(life + 1, bound, bound)
  BY DEF Reload
<1>4. WatchInv'
  BY <1>1, <1>2, <1>3, ReconcileStep
<1>5. SeenInv'
  BY <1>1 DEF IInv, SeenInv
<1>6. ASSUME NEW l, NEW what, Old(l, what) PROVE Old(l, what)'
  <2>1. l \in 1..life' /\ l # life'
    BY <1>1, <1>2, <1>6 DEF Old
  <2> QED BY <1>1, <1>6, <2>1 DEF Old
<1>7. EmitInv'
  BY <1>1, <1>6, SilentStep DEF IInv
<1> QED BY <1>1, <1>2, <1>4, <1>5, <1>7 DEF IInv

LEMMA NextStep == IInv /\ [Next]_vars => IInv'
<1> SUFFICES ASSUME IInv, [Next]_vars PROVE IInv'
  OBVIOUS
<1>1. CASE \E r \in open : RequestFails(r) \/ \E answer \in {"granted", "denied"} : RequestSettles(r, answer)
  BY <1>1, SettlesStep
<1>2. CASE \E request \in native, ok \in BOOLEAN : dispatchNativeNotify(request, ok)
  BY <1>2, DispatchStep
<1>3. CASE \E l \in Lives : ConfigFetched(l)
  <2>1. UNCHANGED <<life, pending, seen, turns, desktop, emitter, watched>>
    BY <1>3 DEF ConfigFetched, user
  <2>2. WatchInv'
    BY <2>1 DEF IInv, WatchInv
  <2> QED BY <2>1, <2>2, SeenKept
<1>4. CASE \E ids \in SUBSET Sessions : ListChanges(ids)
  <2>1. PICK ids \in SUBSET Sessions : ListChanges(ids)
    BY <1>4
  <2>2. PICK bound \in SUBSET ids : watched' = reconcileSessions(life, ids, bound)
    BY <2>1 DEF ListChanges
  <2>3. UNCHANGED <<life, pending, seen, turns, desktop, emitter>>
    BY <2>1 DEF ListChanges, user
  <2>4. life \in Nat /\ life \in 1..life
    BY BoundAssumption DEF IInv, Lives
  <2>5. WatchInv'
    BY <2>2, <2>3, <2>4, ReconcileStep
  <2> QED BY <2>3, <2>5, SeenKept
<1>5. CASE \E s \in Sessions : \/ \E outcome \in Outcomes : TurnEnds(s, outcome)
                               \/ \E i \in Interactions \cup {NoInteraction} : RowChanges(s, i)
  BY <1>5, TurnStep, RowStep
<1>6. CASE VisibilityChanges
  <2>1. UNCHANGED <<life, pending, seen, turns, desktop, emitter, watched>>
    BY <1>6 DEF VisibilityChanges
  <2>2. WatchInv'
    BY <2>1 DEF IInv, WatchInv
  <2> QED BY <2>1, <2>2, SeenKept
<1>7. CASE Reload
  BY <1>7, ReloadStep
<1>8. CASE UNCHANGED vars
  <2>1. UNCHANGED <<life, pending, seen, turns, desktop, emitter, watched>>
    BY <1>8 DEF vars, emitter
  <2>2. WatchInv'
    BY <2>1 DEF IInv, WatchInv
  <2> QED BY <2>1, <2>2, SeenKept
<1> QED BY <1>1, <1>2, <1>3, <1>4, <1>5, <1>6, <1>7, <1>8 DEF Next

LEMMA Invariance == Spec => []IInv
<1>1. Init => IInv
  <2> SUFFICES ASSUME Init PROVE IInv
    OBVIOUS
  <2>1. /\ life = 1 /\ turns = 0 /\ desktop \in BOOLEAN /\ seen = {} /\ pending \in [Sessions -> {NoInteraction}]
        /\ asked = {} /\ open = {} /\ native = {} /\ shown = {}
        /\ permission = [l \in Lives |-> "unrequested"]
    BY DEF Init
  <2>2. life \in Lives
    BY <2>1, BoundAssumption DEF Lives
  <2>3. WatchInv
    BY DEF Init, WatchInv
  <2>4. SeenInv
    BY <2>1 DEF SeenInv
  <2>5. EmitInv
    BY <2>1 DEF EmitInv, ShownInv, OpenInv, NativeInv, PermissionInv
  <2> QED BY <2>1, <2>2, <2>3, <2>4, <2>5 DEF IInv
<1> QED BY <1>1, NextStep, PTL DEF Spec

-----------------------------------------------------------------------------
(* Theorems.                                                               *)

\* No turn and no interaction is shown twice in a life of the plugin, whatever
\* comes and goes while a prompt is open or a native tool runs
\* (client/index.ts:205-330, index.ts:150-190).
THEOREM HeardOnce == Spec => []ShownOnce
<1>1. IInv => ShownOnce
  BY DEF IInv, EmitInv, ShownInv, ShownOnce
<1> QED BY <1>1, Invariance, PTL

\* A life asks for permission once, and waits exactly as long as its prompt is
\* open (client/index.ts:285-330).
THEOREM PermissionAskedOnce == Spec => []AskedOnce
<1>1. IInv => AskedOnce
  <2> SUFFICES ASSUME IInv, NEW l \in Lives
               PROVE  /\ Cardinality({a \in asked : a.life = l}) <= 1
                      /\ permission[l] = "requesting" <=> \E r \in open : r.life = l
    BY DEF AskedOnce
  <2> DEFINE mine == {a \in asked : a.life = l}
  <2>1. CASE mine = {}
    <3>1. Cardinality(mine) = 0
      BY <2>1, FS_EmptySet
    <3> QED BY <3>1 DEF IInv, EmitInv, PermissionInv
  <2>2. CASE mine # {}
    <3>1. PICK a \in mine : mine = {a}
      BY <2>2 DEF IInv, EmitInv, PermissionInv
    <3>2. Cardinality(mine) = 1
      BY <3>1, FS_Singleton
    <3> QED BY <3>2 DEF IInv, EmitInv, PermissionInv
  <2> QED BY <2>1, <2>2
<1> QED BY <1>1, Invariance, PTL

LEMMA NotifyAnnounces ==
  ASSUME IInv, NEW fires, Fresh(fires), notify(fires), NEW w \in Announced'
  PROVE  w \in Announced \/ \E f \in fires : w = f.what
<1> DEFINE some == Eligible(fires)
<1>1. some \subseteq fires
  BY DEF Eligible
<1>2. CASE desktop
  <2>1. notifyNatively(some)
    BY <1>2 DEF notify
  <2> QED BY <1>1, <2>1 DEF notifyNatively, Announced
<1>3. CASE ~desktop
  <2> DEFINE askers == {l \in Lives : AsksWhen(l) /\ \E f \in some : f.life = l}
  <2>1. notifyWithApi(some)
    BY <1>3 DEF notify
  <2>2. PICK first \in [askers -> some] :
          asked' = asked \cup
            {[first[l] EXCEPT !.n = 1 + Cardinality({a \in asked : a.life = l})] : l \in askers}
    BY <2>1 DEF notifyWithApi
  <2> DEFINE Ask(l) == [first[l] EXCEPT !.n = 1 + Cardinality({a \in asked : a.life = l})]
             granted == {g \in some : permission[g.life] = "granted"}
  <2>3. ASSUME NEW l \in askers
        PROVE  Ask(l).what = first[l].what /\ first[l] \in fires
    <3>1. first[l] \in fires
      BY <1>1
    <3>2. first[l] = [life |-> first[l].life, what |-> first[l].what, n |-> 1]
      BY <3>1 DEF Fresh
    <3> QED BY <3>1, <3>2
  <2>4. ASSUME NEW a \in asked' PROVE a \in asked \/ \E f \in fires : a.what = f.what
    <3>1. asked' = asked \cup {Ask(l) : l \in askers}
      BY <2>2
    <3> HIDE DEF Ask, askers
    <3> QED BY <2>3, <3>1
  <2>5. ASSUME NEW x \in shown' PROVE x \in shown \/ \E f \in fires : x.what = f.what
    <3>1. shown' = shown \cup {Publish(f) : f \in granted}
      BY <2>1 DEF notifyWithApi
    <3>2. \A f \in granted : f \in fires /\ Publish(f).what = f.what
      BY <1>1 DEF Publish
    <3> HIDE DEF granted
    <3> QED BY <3>1, <3>2
  <2>6. native' = native
    BY <2>1 DEF notifyWithApi
  <2> QED BY <2>4, <2>5, <2>6 DEF Announced
<1> QED BY <1>2, <1>3

\* What a handler fires has not been seen.
LEMMA FiresUnseen ==
  ASSUME IInv, NEW s \in Sessions,
         \/ \E outcome \in Outcomes : TurnEnds(s, outcome)
         \/ \E i \in Interactions \cup {NoInteraction} : RowChanges(s, i),
         NEW w \in Announced', w \notin Announced
  PROVE  w \notin seen
<1>1. ASSUME NEW outcome \in Outcomes, TurnEnds(s, outcome) PROVE w \notin seen
  <2> DEFINE what == [kind |-> outcome, session |-> s, n |-> turns + 1]
             Fire(v) == [life |-> v.life, n |-> v.n, what |-> what]
             fires == IF outcome = "aborted" THEN {} ELSE {Fire(v) : v \in {u \in watched : u.session = s}}
  <2>1. notify(fires)
    BY <1>1 DEF TurnEnds
  <2>2. what \notin Interactions
    <3>1. \A i \in Interactions : i.kind \notin Outcomes
      BY InteractionAssumption DEF Outcomes
    <3> QED BY <3>1
  <2>3. what.n \notin 1..turns
    BY DEF IInv
  <2>4. Fresh(fires)
    BY <2>2, <2>3 DEF Fresh, Old, IInv, WatchInv
  <2>5. \E f \in fires : w = f.what
    <3> HIDE DEF fires
    <3> QED BY <2>1, <2>4, NotifyAnnounces
  <2> QED BY <2>2, <2>5 DEF IInv, SeenInv
<1>2. ASSUME NEW i \in Interactions \cup {NoInteraction}, RowChanges(s, i) PROVE w \notin seen
  <2> DEFINE new == {pending'[t] : t \in Sessions} \ (seen \cup {NoInteraction})
             fires == {[life |-> life, what |-> j, n |-> 1] : j \in {k \in new : k.kind # "other"}}
  <2>1. notify(fires) /\ pending' = [pending EXCEPT ![s] = i]
    BY <1>2 DEF RowChanges, reconcileInteractions
  <2>2. new \subseteq Interactions
    BY <2>1 DEF IInv, SeenInv
  <2>3. life \in 1..life
    BY BoundAssumption DEF IInv, Lives
  <2>4. \A j \in new : j.kind \notin Outcomes /\ j \notin seen
    BY <2>2, InteractionAssumption DEF Outcomes
  <2>5. Fresh(fires)
    BY <2>3, <2>4 DEF Fresh, Old
  <2>6. \E f \in fires : w = f.what
    <3> HIDE DEF fires
    <3> QED BY <2>1, <2>5, NotifyAnnounces
  <2> QED BY <2>4, <2>6
<1> QED BY <1>1, <1>2

\* What waits, for a prompt or a native tool, has been announced.
LEMMA WaitsAnnounced ==
  ASSUME IInv, NEW f \in open \cup native
  PROVE  f.what \in Announced
BY DEF IInv, EmitInv, PermissionInv, Announced

\* Nothing is announced by a step that shows what waited.
LEMMA ShowsWaiting ==
  ASSUME IInv, NEW f \in open \cup native,
         shown' \in {shown, shown \cup {Publish(f)}},
         \A a \in asked' : a \in asked,
         \A q \in native' : q \in native \/ q.what = f.what
  PROVE  Announced' \subseteq Announced
<1>1. Publish(f).what = f.what
  BY DEF Publish
<1>2. f.what \in Announced
  BY WaitsAnnounced
<1>3. ASSUME NEW x \in asked' \cup native' \cup shown' PROVE x.what \in Announced
  <2>1. CASE x \in asked'
    BY <2>1 DEF Announced
  <2>2. CASE x \in native'
    BY <1>2, <2>2 DEF Announced
  <2>3. CASE x \in shown'
    <3> HIDE DEF Publish
    <3>1. x \in shown \/ x = Publish(f)
      BY <2>3
    <3> QED BY <1>1, <1>2, <3>1 DEF Announced
  <2> QED BY <2>1, <2>2, <2>3
<1> QED BY <1>3 DEF Announced

\* What is pending has been seen, and what was seen stays seen and silent
\* (client/index.ts:225-280).
THEOREM SeenStaysSilent == Spec => SeenIsSilent
<1> DEFINE Silent == /\ life' = life => seen \subseteq seen'
                     /\ {pending'[s] : s \in Sessions} \subseteq seen' \cup {NoInteraction}
                     /\ (Announced' \ Announced) \cap seen = {}
<1>1. ASSUME IInv, IInv', [Next]_vars PROVE [Silent]_vars
  <2>1. \A s \in Sessions : pending'[s] \in seen' \cup {NoInteraction}
    BY <1>1 DEF IInv, SeenInv
  <2>2. ASSUME UNCHANGED seen, Announced' \subseteq Announced PROVE Silent
    BY <2>1, <2>2
  <2>3. ASSUME UNCHANGED emitter PROVE Announced' \subseteq Announced
    BY <2>3 DEF emitter, Announced
  <2>4. ASSUME NEW r \in open, RequestFails(r) PROVE Silent
    <3>1. UNCHANGED seen /\ Announced' \subseteq Announced
      BY <2>4 DEF RequestFails, Announced
    <3> QED BY <2>2, <3>1
  <2>5. ASSUME NEW r \in open, NEW answer, RequestSettles(r, answer) PROVE Silent
    <3>1. UNCHANGED <<seen, asked, native>> /\ shown' \in {shown, shown \cup {Publish(r)}}
      BY <2>5 DEF RequestSettles
    <3>2. Announced' \subseteq Announced
      BY <1>1, <3>1, ShowsWaiting
    <3> QED BY <2>2, <3>1, <3>2
  <2>6. ASSUME NEW request \in native, NEW ok \in BOOLEAN, dispatchNativeNotify(request, ok) PROVE Silent
    <3>1. UNCHANGED <<seen, asked>> /\ shown' \in {shown, shown \cup {Publish(request)}}
      BY <2>6 DEF dispatchNativeNotify
    <3>2. ASSUME NEW q \in native' PROVE q \in native \/ q.what = request.what
      <4>1. q \in native \/ q \in Fallback(request, ok)
        BY <2>6, <3>2 DEF dispatchNativeNotify
      <4> DEFINE next == [request EXCEPT !.tool = "osascript"]
      <4>2. next.what = request.what
        OBVIOUS
      <4> HIDE DEF next
      <4>3. Fallback(request, ok) \subseteq {next}
        BY DEF Fallback, next
      <4> QED BY <4>1, <4>2, <4>3
    <3>3. Announced' \subseteq Announced
      BY <1>1, <3>1, <3>2, ShowsWaiting
    <3> QED BY <2>2, <3>1, <3>3
  <2>7. ASSUME NEW s \in Sessions,
               \/ \E outcome \in Outcomes : TurnEnds(s, outcome)
               \/ \E i \in Interactions \cup {NoInteraction} : RowChanges(s, i)
        PROVE  Silent
    <3>1. seen \subseteq seen'
      BY <2>7 DEF TurnEnds, RowChanges, reconcileInteractions, MarkedSeen
    <3>2. \A w \in Announced' : w \in Announced \/ w \notin seen
      BY <1>1, <2>7, FiresUnseen
    <3> QED BY <2>1, <3>1, <3>2
  <2>8. CASE Reload
    <3>1. life' # life /\ UNCHANGED emitter
      BY <1>1, <2>8 DEF Reload, IInv, Lives
    <3> QED BY <2>1, <2>3, <3>1
  <2>9. CASE (\E l \in Lives : ConfigFetched(l)) \/ (\E ids \in SUBSET Sessions : ListChanges(ids)) \/ VisibilityChanges
    <3>1. UNCHANGED <<seen, emitter>>
      BY <2>9 DEF ConfigFetched, ListChanges, VisibilityChanges
    <3> QED BY <2>2, <2>3, <3>1
  <2> HIDE DEF Silent
  <2> QED BY <1>1, <2>4, <2>5, <2>6, <2>7, <2>8, <2>9 DEF Next
<1> QED BY <1>1, Invariance, PTL DEF Spec, SeenIsSilent
=============================================================================
