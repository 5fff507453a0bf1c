--------------------------- MODULE Notifications ---------------------------
(***************************************************************************)
(* dsh-ui-notification (plugins/notification): the browser half, which     *)
(* watches the mirrored sessions for ended turns and the status rows for   *)
(* pending interactions, and the host half, which shows the notifications  *)
(* of a desktop shell with two native tools.                               *)
(*                                                                         *)
(* The mirrors, the tab's visibility, the browser's permission prompt and  *)
(* the native tools are the environment.  A handler runs to its end; the   *)
(* prompt, the config fetch and the native tools answer later.  The plugin *)
(* may be unloaded and loaded again: what its body keeps is kept per life. *)
(*                                                                         *)
(* What is announced is an ended turn [kind, session, n] or an interaction;*)
(* titles, bodies and chimes only render it.                               *)
(***************************************************************************)
EXTENDS Naturals, FiniteSets

CONSTANTS Sessions,
          Interactions,  \* [kind, session, n], n distinguishing their keys
          NoInteraction,
          Wanted,        \* the toggles the host is configured with
          MaxLives, MaxTurns, MaxVisits  \* bounds: loads of the plugin, ended
                                         \* turns, changes of visibility

Lives    == 1..MaxLives
Outcomes == {"completion", "error", "aborted"}
Turns    == [kind: Outcomes, session: Sessions, n: 1..MaxTurns]
Toggles  == {"completion", "error", "question", "approval"}

ASSUME InteractionAssumption ==
  /\ Interactions \subseteq [kind: {"question", "plan-review", "approval", "other"},
                             session: Sessions, n: Nat]
  /\ NoInteraction \notin Interactions
ASSUME WantedAssumption == Wanted \subseteq Toggles
ASSUME BoundAssumption == MaxLives \in Nat \ {0} /\ {MaxTurns, MaxVisits} \subseteq Nat

VARIABLES life,        \* the current life
          watched,     \* [life, session, n]: subscriptions to session windows
          pending,     \* pending[s]: the interaction its status row shows
          seen,        \* seenKeys of the current life
          turns,       \* turns ended so far
          hidden,      \* the tab is not visible
          visits,      \* changes of its visibility so far
          desktop,     \* the page runs in the desktop shell
          config,      \* config[l]: the toggles life l uses
          permission,  \* permission[l]: as life l knows it
          browser,     \* the user's answer, once given
          asked,       \* [life, what, n]: requestPermission calls
          open,        \* those not yet answered
          native,      \* [life, what, n, tool]: what the host is showing
          shown        \* [life, what, n]: the n-th notification of what

vars == <<life, watched, pending, seen, turns, hidden, visits, desktop,
          config, permission, browser, asked, open, native, shown>>

emitter == <<permission, asked, open, native, shown>>
answers == <<config, browser>>
user    == <<turns, hidden, visits, desktop>>

Init ==
  /\ life = 1
  /\ \E bound \in SUBSET Sessions : watched = {[life |-> 1, session |-> s, n |-> 1] : s \in bound}
  /\ pending \in [Sessions -> {NoInteraction}] /\ seen = {}
  /\ turns = 0 /\ hidden = TRUE /\ visits = 0
  /\ desktop \in BOOLEAN
  /\ config = [l \in Lives |-> Toggles]
  /\ permission = [l \in Lives |-> "unrequested"] /\ browser = "default"
  /\ asked = {} /\ open = {} /\ native = {} /\ shown = {}

-----------------------------------------------------------------------------
(* Emitting: a fire [life, what, n] is the n-th of its handler.            *)

\* A notification of something shown before in this life is one more of it.
Publish(f) ==
  [life |-> f.life, what |-> f.what,
   n |-> f.n + Cardinality({x \in shown : x.life = f.life /\ x.what = f.what})]

\* Mutant of AsksWhen: every trigger asks until there is an answer.
AsksUntilAnswered(l) == permission[l] \in {"unrequested", "requesting"}

\* notifyWithApi: permission is requested once.
AsksWhen(l) == permission[l] = "unrequested"

\* In a browser a fire is shown when permission is granted; the first one of a
\* life asks for it; every other is dropped.
notifyWithApi(fires) ==
  LET askers == {l \in Lives : AsksWhen(l) /\ \E f \in fires : f.life = l} IN
  /\ shown' = shown \cup {Publish(f) : f \in {g \in fires : permission[g.life] = "granted"}}
  /\ \E first \in [askers -> fires] :
       /\ \A l \in askers : first[l].life = l
       /\ open' = open \cup {first[l] : l \in askers}
       /\ asked' = asked \cup
            {[first[l] EXCEPT !.n = 1 + Cardinality({a \in asked : a.life = l})] : l \in askers}
  /\ permission' = [l \in Lives |-> IF l \in askers THEN "requesting" ELSE permission[l]]
  /\ UNCHANGED native

\* A desktop shell hands it to the host.
notifyNatively(fires) ==
  /\ native' = native \cup
       {[life |-> f.life, what |-> f.what, n |-> f.n, tool |-> "terminal-notifier"] : f \in fires}
  /\ UNCHANGED <<permission, asked, open, shown>>

\* shouldNotify and the toggle of the trigger; a plan review is a question.
Eligible(fires) ==
  LET ToggleOf(kind) == IF kind = "plan-review" THEN "question" ELSE kind
  IN  {f \in fires : hidden /\ ToggleOf(f.what.kind) \in config[f.life]}

notify(fires) ==
  IF desktop THEN notifyNatively(Eligible(fires)) ELSE notifyWithApi(Eligible(fires))

\* The prompt is answered; once the user has decided, always in the same way.
\* Only a granted request shows what it was made for.
RequestSettles(r, answer) ==
  /\ r \in open /\ (browser = "default" \/ answer = browser)
  /\ browser' = answer /\ open' = open \ {r}
  /\ permission' = [permission EXCEPT ![r.life] = answer]
  /\ shown' = IF answer = "granted" THEN shown \cup {Publish(r)} ELSE shown
  /\ UNCHANGED <<life, watched, pending, seen, user, config, asked, native>>

\* requestPermission throws.
RequestFails(r) ==
  /\ r \in open /\ open' = open \ {r}
  /\ permission' = [permission EXCEPT ![r.life] = "denied"]
  /\ UNCHANGED <<life, watched, pending, seen, user, answers, asked, native, shown>>

Fallback(request, ok) ==
  IF ~ok /\ request.tool = "terminal-notifier" THEN {[request EXCEPT !.tool = "osascript"]} ELSE {}

\* A native tool of the host's dispatchNativeNotify ends.
dispatchNativeNotify(request, ok) ==
  /\ request \in native
  /\ native' = (native \ {request}) \cup Fallback(request, ok)
  /\ shown' = IF ok THEN shown \cup {Publish(request)} ELSE shown
  /\ UNCHANGED <<life, watched, pending, seen, user, answers, permission, asked, open>>

ConfigFetched(l) ==
  /\ l <= life /\ config' = [config EXCEPT ![l] = Wanted]
  /\ UNCHANGED <<life, watched, pending, seen, user, browser, emitter>>

-----------------------------------------------------------------------------
(* Ended turns.                                                            *)

\* Mutant of reconcileSessions: a session that is watched is watched again.
reconcileSessionsAgain(l, ids, bound) ==
  {w \in watched : w.life # l \/ w.session \in ids} \cup
    {[life |-> l, session |-> s, n |-> 1 + Cardinality({w \in watched : w.life = l /\ w.session = s})] :
       s \in bound}

\* A session that left the list is no longer watched; one that is not watched
\* and has a binding gets one subscription.
reconcileSessions(l, ids, bound) ==
  {w \in watched : w.life # l \/ w.session \in ids} \cup
    {[life |-> l, session |-> s, n |-> 1] :
       s \in {t \in bound : ~\E w \in watched : w.life = l /\ w.session = t}}

\* The mirrored list is ids, those in bound with a binding; it notifies its
\* subscribers of another title too.
ListChanges(ids) ==
  /\ \E bound \in SUBSET ids : watched' = reconcileSessions(life, ids, bound)
  /\ UNCHANGED <<life, pending, seen, user, answers, emitter>>

\* onWindowChange, in every subscription to the session's window.
TurnEnds(s, outcome) ==
  /\ turns < MaxTurns /\ turns' = turns + 1
  /\ notify(IF outcome = "aborted" THEN {}
            ELSE {[life |-> w.life, n |-> w.n, what |-> [kind |-> outcome, session |-> s, n |-> turns + 1]] :
                    w \in {v \in watched : v.session = s}})
  /\ UNCHANGED <<life, watched, pending, seen, hidden, visits, desktop, answers>>

-----------------------------------------------------------------------------
(* Pending interactions.                                                   *)

\* Mutant of MarkedSeen: only what is pending now is remembered.
MarkedCurrent(rows) == {rows[s] : s \in Sessions} \ {NoInteraction}

MarkedSeen(rows) == seen \cup ({rows[s] : s \in Sessions} \ {NoInteraction})

\* The status rows change: interactions not seen before are marked and, in the
\* known domains, announced.
reconcileInteractions(rows) ==
  LET new == {rows[s] : s \in Sessions} \ (seen \cup {NoInteraction}) IN
  /\ seen' = MarkedSeen(rows)
  /\ notify({[life |-> life, what |-> i, n |-> 1] : i \in {j \in new : j.kind # "other"}})

\* A row shows another of its session's interactions, or none.
RowChanges(s, interaction) ==
  /\ interaction # pending[s] /\ (interaction # NoInteraction => interaction.session = s)
  /\ pending' = [pending EXCEPT ![s] = interaction]
  /\ reconcileInteractions(pending')
  /\ UNCHANGED <<life, watched, user, answers>>

-----------------------------------------------------------------------------
(* The tab and the plugin's life cycle.                                    *)

VisibilityChanges ==
  /\ visits < MaxVisits /\ visits' = visits + 1 /\ hidden' = ~hidden
  /\ UNCHANGED <<life, watched, pending, seen, turns, desktop, answers, emitter>>

\* What is pending at load is seen.
Seed == {pending[s] : s \in Sessions} \ {NoInteraction}

\* Unload and load again, with whatever list there is then.  The list and status
\* subscriptions are disposed; the subscriptions to session windows are not.
Reload ==
  /\ life < MaxLives /\ life' = life + 1
  /\ \E bound \in SUBSET Sessions : watched' = reconcileSessions(life + 1, bound, bound)
  /\ seen' = Seed
  /\ UNCHANGED <<pending, user, answers, emitter>>

Next ==
  \/ \E r \in open : RequestFails(r) \/ \E answer \in {"granted", "denied"} : RequestSettles(r, answer)
  \/ \E request \in native, ok \in BOOLEAN : dispatchNativeNotify(request, ok)
  \/ \E l \in Lives : ConfigFetched(l)
  \/ \E ids \in SUBSET Sessions : ListChanges(ids)
  \/ \E s \in Sessions : \/ \E outcome \in Outcomes : TurnEnds(s, outcome)
                         \/ \E i \in Interactions \cup {NoInteraction} : RowChanges(s, i)
  \/ VisibilityChanges
  \/ Reload

Spec == Init /\ [][Next]_vars

-----------------------------------------------------------------------------
(* Properties.                                                             *)

\* The user hears of a turn or an interaction once in a life of the plugin:
\* sessions come and go from the list, interactions hide one another in their
\* row and return, and a native tool that fails hands over to the other.
ShownOnce == \A x \in shown : x.n = 1

\* A life never asks for permission twice, however many triggers arrive while
\* the prompt is open, and knows the answer as soon as it is given.
AskedOnce ==
  \A l \in Lives :
    /\ Cardinality({a \in asked : a.life = l}) <= 1
    /\ permission[l] = "requesting" <=> \E r \in open : r.life = l

Announced == {x.what : x \in asked \cup native \cup shown}

\* What is pending has been seen, after a reload too, and seen interactions stay
\* seen and silent, those suppressed by a visible tab or dropped while the prompt
\* was open included.
SeenIsSilent ==
  [][/\ life' = life => seen \subseteq seen'
     /\ {pending'[s] : s \in Sessions} \subseteq seen' \cup {NoInteraction}
     /\ (Announced' \ Announced) \cap seen = {}]_vars
=============================================================================
