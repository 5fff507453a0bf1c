-------------------------- MODULE DelegationProofs --------------------------
(***************************************************************************)
(* Proofs about Delegations, for every set of sessions, calls and titles,  *)
(* every depth cap and every amount of output.                             *)
(*                                                                         *)
(* Btw: a call's handler and the header of its child are tied together by  *)
(* Handled, a predicate of one handler, so that a step of one call is shown *)
(* to keep it for that call (HandlerStep, ChildStep) and for the others.   *)
(* OcRun: the number of terminates is a function of the run's own signal   *)
(* and of whether the teardown began.                                      *)
(***************************************************************************)
EXTENDS Delegations, FiniteSetTheorems, TLAPS

-----------------------------------------------------------------------------
(* The inductive invariant of the calls.                                   *)

Wanted == [kind: {"default", "error", "mention", "title"}, session: Sessions \cup {NoSession},
           title: Titles \cup {NoTitle}]

Handler == [at: Awaits \cup {"idle", "done"}, parent: Sessions \cup {NoSession},
            want: Wanted, target: Sessions \cup {NoSession},
            aborted: BOOLEAN, answered: BOOLEAN,
            outcome: {"none", "error", "thrown", "success"}]

\* A handler under way asks for a session that exists, above the cap, and has not
\* answered; what it reads exists and is of its workspace; its child has a header
\* from the moment it was created and a handle until it is disposed.
Handled(i, c, handles, headers) ==
  /\ c.at \in Awaits =>
       /\ c.outcome \in {"none", "thrown"}
       /\ c.parent \in DOMAIN headers /\ headers[c.parent].depth < MAX_DELEGATION_DEPTH
  /\ c.outcome = "success" => ~c.aborted
  /\ c.target # NoSession =>
       /\ c.target \in DOMAIN headers /\ c.parent \in DOMAIN headers
       /\ headers[c.target].cwd = headers[c.parent].cwd
  /\ i \in handles <=> c.at \in {"running", "disposing"}
  /\ i \in DOMAIN headers => c.at \in {"running", "disposing", "done"}

\* The headers form a forest no deeper than the cap, one workspace a tree.
Headed ==
  /\ DOMAIN header \subseteq Sessions
  /\ \A s \in DOMAIN header :
       /\ header[s].depth \in Nat /\ header[s].depth <= MAX_DELEGATION_DEPTH
       /\ header[s].subagent =>
            header[s].parent \in DOMAIN header /\ header[s].cwd = header[header[s].parent].cwd

CallInv ==
  /\ call \in [Calls -> Handler]
  /\ live \subseteq Calls
  /\ Headed
  /\ \A i \in Calls : Handled(i, call[i], live, header)

-----------------------------------------------------------------------------
(* Handlers.                                                               *)

LEMMA InputTyped == Inputs \subseteq Wanted
<1> SUFFICES ASSUME NEW raw \in RawInput PROVE parseBtwInput(raw) \in Wanted
  BY DEF Inputs
<1>1. Default \in Wanted /\ Malformed \in Wanted
  BY DEF Default, Malformed, Wanted
<1>2. /\ raw.session \in Sessions \cup {NoSession}
      /\ raw.title \in Titles \cup {NoTitle}
  BY DEF RawInput
<1>3. [Default EXCEPT !.kind = "mention", !.session = raw.session] \in Wanted
  BY <1>2 DEF Default, Wanted
<1>4. [Default EXCEPT !.kind = "title", !.title = raw.title] \in Wanted
  BY <1>2 DEF Default, Wanted
<1> QED BY <1>1, <1>3, <1>4 DEF parseBtwInput

LEMMA NoCallTyped == NoCall \in Handler
BY DEF NoCall, Handler, Awaits, Default, Wanted

\* A handler's step changes its own record and, at most, its own handle.
LEMMA HandlerStep ==
  ASSUME CallInv, NEW i \in Calls, NEW c \in Handler,
         call' = [call EXCEPT ![i] = c], header' = header,
         live' \subseteq Calls, \A j \in Calls \ {i} : j \in live' <=> j \in live,
         Handled(i, c, live', header)
  PROVE  CallInv'
<1>1. call' \in [Calls -> Handler] /\ live' \subseteq Calls
  BY DEF CallInv
<1>2. Headed'
  BY DEF CallInv, Headed
<1>3. ASSUME NEW j \in Calls PROVE Handled(j, call'[j], live', header')
  <2>1. CASE j = i
    BY <2>1 DEF CallInv
  <2>2. CASE j # i
    <3>1. call'[j] = call[j] /\ Handled(j, call[j], live, header)
      BY <2>2 DEF CallInv
    <3>2. j \in live' <=> j \in live
      BY <2>2
    <3> QED BY <3>1, <3>2 DEF Handled
  <2> QED BY <2>1, <2>2
<1> QED BY <1>1, <1>2, <1>3 DEF CallInv

\* A handler that ends without an answer.
LEMMA LeavingStep ==
  ASSUME CallInv, NEW i \in Calls, call[i].at \in {"query", "titles", "surface", "label", "creating"},
         NEW outcome \in {"error", "thrown"}, Leaves(i, outcome),
         UNCHANGED <<header, live>>
  PROVE  CallInv'
<1> DEFINE c == [NoCall EXCEPT !.at = "done", !.outcome = outcome, !.aborted = call[i].aborted]
<1>1. call[i] \in Handler /\ Handled(i, call[i], live, header) /\ live \subseteq Calls
  BY DEF CallInv
<1>2. call[i].aborted \in BOOLEAN
  BY <1>1 DEF Handler
<1>3. c \in Handler /\ c.at = "done" /\ c.outcome = outcome /\ c.target = NoSession
  BY <1>2, NoCallTyped DEF Handler, NoCall
<1>4. Handled(i, c, live, header)
  BY <1>1, <1>3 DEF Handled, Awaits
<1>5. call' = [call EXCEPT ![i] = c]
  BY DEF Leaves
<1> QED BY <1>1, <1>3, <1>4, <1>5, HandlerStep

\* A step of a handler under way that stays under way, without an answer and
\* without a child: of its record, what it asks, what it reads, its place and
\* whether it is cancelled may change.
LEMMA WaitingStep ==
  ASSUME CallInv, NEW i \in Calls, call[i].at \in Awaits, NEW c \in Handler,
         call' = [call EXCEPT ![i] = c], UNCHANGED <<header, live>>,
         c.at = call[i].at \/ {c.at, call[i].at} \subseteq Awaits \ {"running", "disposing"},
         c.parent = call[i].parent, c.outcome = call[i].outcome,
         c.target = call[i].target \/ c.target = NoSession
         \/ (c.target \in DOMAIN header /\ header[c.target].cwd = header[c.parent].cwd)
  PROVE  CallInv'
<1>1. call[i] \in Handler /\ Handled(i, call[i], live, header) /\ live \subseteq Calls
  BY DEF CallInv
<1>2. Handled(i, c, live, header)
  BY <1>1 DEF Handled, Awaits
<1> QED BY <1>1, <1>2, HandlerStep

-----------------------------------------------------------------------------
(* Actions of a call.                                                      *)

LEMMA InvokeStep ==
  ASSUME CallInv, NEW i \in Calls, NEW parent \in Sessions, NEW want \in Inputs,
         NEW aborted \in BOOLEAN, NEW mounted \in BOOLEAN,
         Invoke(i, parent, want, aborted, mounted)
  PROVE  CallInv'
<1> DEFINE thrown == [NoCall EXCEPT !.at = "done", !.outcome = "thrown", !.aborted = TRUE]
           error == [NoCall EXCEPT !.at = "done", !.outcome = "error"]
           started == [[NoCall EXCEPT !.parent = parent, !.want = want] EXCEPT !.at = "query"]
           refused == want = Malformed \/ ~mounted \/ header[parent].depth >= MAX_DELEGATION_DEPTH
<1>1. /\ call[i].at = "idle" /\ parent \in DOMAIN header /\ UNCHANGED <<header, live>>
      /\ call' = [call EXCEPT ![i] = IF aborted THEN thrown ELSE IF refused THEN error ELSE started]
  BY DEF Invoke, Keeps
<1>2. call[i] \in Handler /\ Handled(i, call[i], live, header) /\ live \subseteq Calls
  BY DEF CallInv
<1>3. i \notin live /\ i \notin DOMAIN header
  BY <1>1, <1>2 DEF Handled
<1>4. CASE aborted
  <2>1. thrown \in Handler /\ thrown.at = "done" /\ thrown.outcome = "thrown" /\ thrown.target = NoSession
    BY NoCallTyped DEF Handler, NoCall
  <2>2. Handled(i, thrown, live, header)
    BY <1>3, <2>1 DEF Handled, Awaits
  <2> QED BY <1>1, <1>2, <1>4, <2>1, <2>2, HandlerStep
<1>5. CASE ~aborted /\ refused
  <2>1. error \in Handler /\ error.at = "done" /\ error.outcome = "error" /\ error.target = NoSession
    BY NoCallTyped DEF Handler, NoCall
  <2>2. Handled(i, error, live, header)
    BY <1>3, <2>1 DEF Handled, Awaits
  <2> QED BY <1>1, <1>2, <1>5, <2>1, <2>2, HandlerStep
<1>6. CASE ~aborted /\ ~refused
  <2>1. want \in Wanted /\ "query" \in Awaits
    BY InputTyped DEF Awaits
  <2>2. /\ started \in Handler /\ started.at = "query" /\ started.outcome = "none"
        /\ started.target = NoSession /\ started.parent = parent
    BY <2>1, NoCallTyped DEF Handler, NoCall
  <2>3. header[parent].depth < MAX_DELEGATION_DEPTH
    BY <1>1, <1>6, BtwAssumption DEF CallInv, Headed
  <2>4. Handled(i, started, live, header)
    BY <1>1, <1>3, <2>2, <2>3 DEF Handled, Awaits
  <2> QED BY <1>1, <1>2, <1>6, <2>2, <2>4, HandlerStep
<1> QED BY <1>4, <1>5, <1>6

\* The target a call settled on is there and of the caller's workspace.
LEMMA ReadsStep ==
  ASSUME CallInv, NEW i \in Calls, call[i].at \in {"query", "titles"},
         NEW target \in Sessions, target \in DOMAIN header, call[i].parent \in DOMAIN header,
         header[target].cwd = header[call[i].parent].cwd,
         Reads(i, target), UNCHANGED <<header, live>>
  PROVE  CallInv'
<1> DEFINE own == target = call[i].parent
           read == IF own THEN NoSession ELSE target
           next == IF own THEN "creating" ELSE "surface"
           c == [call[i] EXCEPT !.want = Default, !.target = read, !.at = next]
<1>1. call[i] \in Handler /\ call \in [Calls -> Handler]
  BY DEF CallInv
<1>2. call' = [call EXCEPT ![i] = c]
  BY <1>1 DEF Reads
<1>3. read \in Sessions \cup {NoSession} /\ next \in Awaits \ {"running", "disposing"} /\ Default \in Wanted
  BY DEF Awaits, Wanted, Default
<1>4. /\ c \in Handler /\ c.at = next /\ c.target = read
      /\ c.parent = call[i].parent /\ c.outcome = call[i].outcome
  BY <1>1, <1>3 DEF Handler
<1>5. {c.at, call[i].at} \subseteq Awaits \ {"running", "disposing"} /\ call[i].at \in Awaits
  BY <1>3, <1>4 DEF Awaits
<1> QED BY <1>2, <1>4, <1>5, WaitingStep

LEMMA GoesStep ==
  ASSUME CallInv, NEW i \in Calls, NEW at \in Awaits \ {"running", "disposing"},
         call[i].at \in Awaits \ {"running", "disposing"}, Goes(i, at), UNCHANGED <<header, live>>
  PROVE  CallInv'
<1> DEFINE c == [call[i] EXCEPT !.at = at]
<1>1. call[i] \in Handler /\ call \in [Calls -> Handler]
  BY DEF CallInv
<1>2. call' = [call EXCEPT ![i] = c]
  BY <1>1 DEF Goes
<1>3. /\ c \in Handler /\ c.at = at /\ c.target = call[i].target
      /\ c.parent = call[i].parent /\ c.outcome = call[i].outcome
  BY <1>1 DEF Handler
<1> QED BY <1>2, <1>3, WaitingStep

\* What a handler that waits relies on.
LEMMA Waiting ==
  ASSUME CallInv, NEW i \in Calls, call[i].at \in Awaits
  PROVE  /\ call[i] \in Handler /\ Handled(i, call[i], live, header)
         /\ call[i].parent \in DOMAIN header /\ DOMAIN header \subseteq Sessions
BY DEF CallInv, Handled, Headed

LEMMA QueryStep ==
  ASSUME CallInv, NEW i \in Calls, NEW ok \in BOOLEAN, QuerySettles(i, ok)
  PROVE  CallInv'
<1>1. call[i].at = "query" /\ UNCHANGED <<header, live>>
  BY DEF QuerySettles, Keeps
<1>2. /\ call[i].at \in Awaits \ {"running", "disposing"}
      /\ call[i].parent \in DOMAIN header /\ DOMAIN header \subseteq Sessions
  BY <1>1, Waiting DEF Awaits
<1>3. CASE ~ok
  <2>1. Leaves(i, "error") \/ Leaves(i, "thrown")
    BY <1>3 DEF QuerySettles, ThrowsIfAborted
  <2> QED BY <1>1, <2>1, LeavingStep
<1>4. CASE ok /\ call[i].want.kind = "default"
  <2>1. Reads(i, call[i].parent)
    BY <1>4 DEF QuerySettles
  <2> QED BY <1>1, <1>2, <2>1, ReadsStep
<1>5. CASE ok /\ call[i].want.kind = "mention"
  <2>1. CASE call[i].want.session \in inWorkspace(i)
    <3>1. Reads(i, call[i].want.session)
      BY <1>5, <2>1 DEF QuerySettles
    <3>2. /\ call[i].want.session \in DOMAIN header
          /\ header[call[i].want.session].cwd = header[call[i].parent].cwd
      BY <2>1 DEF inWorkspace
    <3> QED BY <1>1, <1>2, <3>1, <3>2, ReadsStep
  <2>2. CASE call[i].want.session \notin inWorkspace(i)
    <3>1. Leaves(i, "error")
      BY <1>5, <2>2 DEF QuerySettles
    <3> QED BY <1>1, <3>1, LeavingStep
  <2> QED BY <2>1, <2>2
<1>6. CASE ok /\ call[i].want.kind \notin {"default", "mention"}
  <2>1. Goes(i, "titles")
    BY <1>6 DEF QuerySettles
  <2>2. "titles" \in Awaits \ {"running", "disposing"}
    BY DEF Awaits
  <2> QED BY <1>1, <1>2, <2>1, <2>2, GoesStep
<1> QED BY <1>3, <1>4, <1>5, <1>6

LEMMA TitlesStep ==
  ASSUME CallInv, NEW i \in Calls, NEW ok \in BOOLEAN, NEW observed \in SUBSET Sessions,
         TitlesSettle(i, ok, observed)
  PROVE  CallInv'
<1> DEFINE matches == resolveTitleTarget(call[i].want.title, observed)
<1>1. call[i].at = "titles" /\ observed \subseteq addressable(i) /\ UNCHANGED <<header, live>>
  BY DEF TitlesSettle, Keeps
<1>2. call[i].parent \in DOMAIN header /\ DOMAIN header \subseteq Sessions
  BY <1>1, Waiting DEF Awaits
<1>3. CASE ok /\ Cardinality(matches) = 1
  <2> DEFINE target == CHOOSE s \in matches : TRUE
  <2>1. Reads(i, target)
    BY <1>3 DEF TitlesSettle
  <2>2. matches # {}
    BY <1>3, FS_EmptySet
  <2>3. target \in matches
    BY <2>2
  <2>4. target \in DOMAIN header /\ header[target].cwd = header[call[i].parent].cwd
    BY <1>1, <2>3 DEF resolveTitleTarget, addressable, inWorkspace
  <2> QED BY <1>1, <1>2, <2>1, <2>4, ReadsStep
<1>4. CASE ~(ok /\ Cardinality(matches) = 1)
  <2>1. Leaves(i, "error") \/ Leaves(i, "thrown")
    BY <1>4 DEF TitlesSettle
  <2> QED BY <1>1, <2>1, LeavingStep
<1> QED BY <1>3, <1>4

LEMMA SurfaceStep ==
  ASSUME CallInv, NEW i \in Calls, NEW ok \in BOOLEAN, SurfaceSettles(i, ok)
  PROVE  CallInv'
<1>1. call[i].at = "surface" /\ UNCHANGED <<header, live>>
  BY DEF SurfaceSettles, Keeps
<1>2. Leaves(i, "thrown") \/ Goes(i, "label")
  BY DEF SurfaceSettles, ThrowsIfAborted
<1>3. {call[i].at, "label"} \subseteq Awaits \ {"running", "disposing"}
  BY <1>1 DEF Awaits
<1> QED BY <1>1, <1>2, <1>3, LeavingStep, GoesStep

LEMMA LabelStep ==
  ASSUME CallInv, NEW i \in Calls, NEW ok \in BOOLEAN, LabelSettles(i, ok)
  PROVE  CallInv'
<1> DEFINE c == [call[i] EXCEPT !.target = NoSession, !.at = "creating"]
<1>1. call[i].at = "label" /\ UNCHANGED <<header, live>>
  BY DEF LabelSettles, Keeps
<1>2. CASE ok
  <2>1. call[i] \in Handler /\ call \in [Calls -> Handler]
    BY DEF CallInv
  <2>2. call' = [call EXCEPT ![i] = c]
    BY <1>2, <2>1 DEF LabelSettles
  <2>3. "creating" \in Awaits \ {"running", "disposing"} /\ call[i].at \in Awaits \ {"running", "disposing"}
    BY <1>1 DEF Awaits
  <2>4. /\ c \in Handler /\ c.at = "creating" /\ c.target = NoSession
        /\ c.parent = call[i].parent /\ c.outcome = call[i].outcome
    BY <2>1, <2>3 DEF Handler
  <2> QED BY <1>1, <2>2, <2>3, <2>4, WaitingStep
<1>3. CASE ~ok
  <2>1. Leaves(i, "thrown")
    BY <1>3 DEF LabelSettles
  <2> QED BY <1>1, <2>1, LeavingStep
<1> QED BY <1>2, <1>3

\* A child below the cap joins its parent's tree; no header changes.
LEMMA HeaderAdded ==
  ASSUME CallInv, NEW i \in Calls, call[i].at = "creating", NEW name \in Titles, ChildIsCreated(i, name)
  PROVE  /\ Headed' /\ i \notin DOMAIN header
         /\ DOMAIN header' = DOMAIN header \cup {i}
         /\ \A s \in DOMAIN header : header'[s] = header[s]
<1> DEFINE parent == call[i].parent
           new == [cwd |-> header[parent].cwd, parent |-> parent, subagent |-> TRUE,
                   depth |-> header[parent].depth + 1]
<1>1. /\ Handled(i, call[i], live, header) /\ call[i].at \in Awaits
      /\ DOMAIN header \subseteq Sessions
  BY DEF CallInv, Headed, Awaits
<1>2. parent \in DOMAIN header /\ header[parent].depth < MAX_DELEGATION_DEPTH /\ i \notin DOMAIN header
  BY <1>1 DEF Handled
<1>3. header' = [s \in DOMAIN header \cup {i} |-> IF s = i THEN new ELSE header[s]]
  BY DEF ChildIsCreated
<1>4. /\ DOMAIN header' = DOMAIN header \cup {i} /\ header'[i] = new
      /\ \A s \in DOMAIN header : header'[s] = header[s]
  BY <1>2, <1>3
<1>5. DOMAIN header' \subseteq Sessions
  BY <1>1, <1>4 DEF Sessions
<1>6. /\ header'[i].depth \in Nat /\ header'[i].depth <= MAX_DELEGATION_DEPTH
      /\ header'[i].parent \in DOMAIN header' /\ header'[i].cwd = header'[header'[i].parent].cwd
  BY <1>2, <1>4, BtwAssumption DEF CallInv, Headed
<1>7. ASSUME NEW s \in DOMAIN header
      PROVE  /\ header'[s].depth \in Nat /\ header'[s].depth <= MAX_DELEGATION_DEPTH
             /\ header'[s].subagent =>
                  header'[s].parent \in DOMAIN header' /\ header'[s].cwd = header'[header'[s].parent].cwd
  BY <1>4, <1>7 DEF CallInv, Headed
<1>8. Headed'
  BY <1>4, <1>5, <1>6, <1>7 DEF Headed
<1> QED BY <1>2, <1>4, <1>8

LEMMA CreateStep ==
  ASSUME CallInv, NEW i \in Calls, NEW ok \in BOOLEAN, NEW name \in Titles, CreateSettles(i, ok, name)
  PROVE  CallInv'
<1> DEFINE next == IF call[i].aborted THEN "disposing" ELSE "running"
           outcome == IF call[i].aborted THEN "thrown" ELSE "none"
           c == [call[i] EXCEPT !.at = next, !.outcome = outcome]
<1>1. call[i].at = "creating" /\ call[i].at \in Awaits
  BY DEF CreateSettles, Awaits
<1>2. CASE ~ok
  BY <1>1, <1>2, LeavingStep DEF CreateSettles
<1>3. CASE ok
  <2>1. call[i] \in Handler /\ call \in [Calls -> Handler] /\ live \subseteq Calls
    BY DEF CallInv
  <2>2. ChildIsCreated(i, name) /\ call' = [call EXCEPT ![i] = c]
    BY <1>3, <2>1 DEF CreateSettles
  <2>3. next \in Awaits /\ next \in {"running", "disposing"} /\ outcome \in {"none", "thrown"}
    BY DEF Awaits
  <2>4. /\ c \in Handler /\ c.at = next /\ c.outcome = outcome
        /\ c.target = call[i].target /\ c.parent = call[i].parent
    BY <2>1, <2>3 DEF Handler
  <2>5. /\ Headed' /\ DOMAIN header' = DOMAIN header \cup {i}
        /\ \A s \in DOMAIN header : header'[s] = header[s]
    BY <1>1, <2>2, HeaderAdded
  <2>6. call' \in [Calls -> Handler] /\ live' = live \cup {i} /\ live' \subseteq Calls
    BY <2>1, <2>2, <2>4 DEF ChildIsCreated
  <2>7. Handled(i, call'[i], live', header')
    <3>1. call'[i] = c /\ Handled(i, call[i], live, header)
      BY <2>1, <2>2 DEF CallInv
    <3> QED BY <1>1, <2>3, <2>4, <2>5, <2>6, <3>1 DEF Handled
  <2>8. ASSUME NEW j \in Calls, j # i PROVE Handled(j, call'[j], live', header')
    <3>1. call'[j] = call[j] /\ Handled(j, call[j], live, header)
      BY <2>1, <2>2, <2>8 DEF CallInv
    <3>2. (j \in live' <=> j \in live) /\ (j \in DOMAIN header' <=> j \in DOMAIN header)
      BY <2>5, <2>6, <2>8
    <3> QED BY <2>5, <3>1, <3>2 DEF Handled
  <2> QED BY <2>5, <2>6, <2>7, <2>8 DEF CallInv
<1> QED BY <1>2, <1>3

LEMMA RestsStep ==
  ASSUME CallInv, NEW i \in Calls, NEW ok \in BOOLEAN, NEW answered \in BOOLEAN,
         ChildRests(i, ok, answered)
  PROVE  CallInv'
<1> DEFINE outcome == IF ok /\ ~call[i].aborted THEN "none" ELSE "thrown"
           c == [call[i] EXCEPT !.at = "disposing", !.answered = answered, !.outcome = outcome]
<1>1. /\ call[i].at = "running" /\ call[i] \in Handler /\ call \in [Calls -> Handler] /\ live \subseteq Calls
      /\ Handled(i, call[i], live, header)
  BY DEF CallInv, ChildRests
<1>2. call' = [call EXCEPT ![i] = c] /\ UNCHANGED <<header, live>>
  BY <1>1 DEF ChildRests, Keeps
<1>3. "disposing" \in Awaits /\ "running" \in Awaits
  BY DEF Awaits
<1>4. /\ c \in Handler /\ c.at = "disposing" /\ c.outcome = outcome
      /\ c.target = call[i].target /\ c.parent = call[i].parent
  BY <1>1, <1>3 DEF Handler
<1>5. Handled(i, c, live, header)
  BY <1>1, <1>3, <1>4 DEF Handled
<1> QED BY <1>1, <1>2, <1>4, <1>5, HandlerStep

LEMMA DisposedStep ==
  ASSUME CallInv, NEW i \in Calls, NEW ok \in BOOLEAN, Disposed(i, ok)
  PROVE  CallInv'
<1> DEFINE outcome == IF ~ok \/ call[i].outcome = "thrown" THEN "thrown"
                      ELSE IF call[i].aborted \/ ~call[i].answered THEN "error" ELSE "success"
           c == [NoCall EXCEPT !.at = "done", !.outcome = outcome, !.aborted = call[i].aborted]
<1>1. call[i] \in Handler /\ live \subseteq Calls
  BY DEF CallInv
<1>2. call' = [call EXCEPT ![i] = c] /\ live' = live \ {i} /\ UNCHANGED header
  BY DEF Disposed, Leaves
<1>3. call[i].aborted \in BOOLEAN /\ outcome \in {"error", "thrown", "success"}
  BY <1>1 DEF Handler
<1>4. /\ c \in Handler /\ c.at = "done" /\ c.outcome = outcome /\ c.aborted = call[i].aborted
      /\ c.target = NoSession
  BY <1>3, NoCallTyped DEF Handler, NoCall
<1>5. c.outcome = "success" => ~c.aborted
  BY <1>4
<1>6. Handled(i, c, live', header)
  BY <1>2, <1>4, <1>5 DEF Handled, Awaits
<1> HIDE DEF c
<1> QED BY <1>1, <1>2, <1>4, <1>6, HandlerStep

LEMMA AbortStep ==
  ASSUME CallInv, NEW i \in Calls, Abort(i)
  PROVE  CallInv'
<1> DEFINE c == [call[i] EXCEPT !.aborted = TRUE]
<1>1. call[i] \in Handler /\ call \in [Calls -> Handler]
  BY DEF CallInv
<1>2. call[i].at \in Awaits /\ call' = [call EXCEPT ![i] = c] /\ UNCHANGED <<header, live>>
  BY <1>1 DEF Abort, Keeps
<1>3. /\ c \in Handler /\ c.at = call[i].at /\ c.target = call[i].target
      /\ c.parent = call[i].parent /\ c.outcome = call[i].outcome
  BY <1>1 DEF Handler
<1> QED BY <1>2, <1>3, WaitingStep

LEMMA CallQuiet ==
  ASSUME CallInv, UNCHANGED <<call, header, live>>
  PROVE  CallInv'
BY DEF CallInv, Headed

LEMMA CallNext == CallInv /\ BtwNext => CallInv'
<1> SUFFICES ASSUME CallInv, BtwNext PROVE CallInv'
  OBVIOUS
<1>1. CASE \E i \in Calls, parent \in Sessions, want \in Inputs, aborted, mounted \in BOOLEAN :
             Invoke(i, parent, want, aborted, mounted)
  BY <1>1, InvokeStep
<1>2. CASE \E i \in Calls, ok \in BOOLEAN :
             QuerySettles(i, ok) \/ SurfaceSettles(i, ok) \/ LabelSettles(i, ok) \/ Disposed(i, ok)
  BY <1>2, QueryStep, SurfaceStep, LabelStep, DisposedStep
<1>3. CASE \E i \in Calls, ok \in BOOLEAN, observed \in SUBSET Sessions : TitlesSettle(i, ok, observed)
  BY <1>3, TitlesStep
<1>4. CASE \E i \in Calls, ok \in BOOLEAN, name \in Titles : CreateSettles(i, ok, name)
  BY <1>4, CreateStep
<1>5. CASE \E i \in Calls, ok, answered \in BOOLEAN : ChildRests(i, ok, answered)
  BY <1>5, RestsStep
<1>6. CASE \E i \in Calls : Abort(i)
  BY <1>6, AbortStep
<1>7. CASE \E s \in Sessions, name \in Titles : Rename(s, name)
  BY <1>7, CallQuiet DEF Rename
<1> QED BY <1>1, <1>2, <1>3, <1>4, <1>5, <1>6, <1>7 DEF BtwNext

LEMMA CallInit == Init => CallInv
<1> SUFFICES ASSUME Init PROVE CallInv
  OBVIOUS
<1>1. call = [i \in Calls |-> NoCall] /\ live = {}
  BY DEF Init
<1>2. DOMAIN header = Roots /\ \A s \in Roots : header[s].depth = 0 /\ header[s].subagent = FALSE
  BY DEF Init
<1>3. call \in [Calls -> Handler] /\ live \subseteq Calls
  BY <1>1, NoCallTyped
<1>4. Headed
  BY <1>2, BtwAssumption DEF Headed, Sessions
<1>5. ASSUME NEW i \in Calls PROVE Handled(i, call[i], live, header)
  <2>1. call[i].at = "idle" /\ call[i].outcome = "none" /\ call[i].target = NoSession
    BY <1>1 DEF NoCall
  <2>2. i \notin DOMAIN header /\ i \notin live
    BY <1>1, <1>2, BtwAssumption
  <2> QED BY <2>1, <2>2 DEF Handled, Awaits
<1> QED BY <1>3, <1>4, <1>5 DEF CallInv

-----------------------------------------------------------------------------
(* The inductive invariant of the run.                                     *)

OcTyped ==
  /\ run \in {"unloaded", "ready", "published", "refused"}
  /\ child \in {"none", "running", "exited"}
  /\ runAbort \in BOOLEAN /\ listening \in BOOLEAN /\ attached \in BOOLEAN
  /\ terminates \in Nat /\ stderr \in Nat /\ lost \in Nat
  /\ result \in {"pending", "completed", "error", "aborted"}
  /\ dispose \in {"no", "exiting", "draining", "done"}

\* Before the teardown the child was terminated as often as the run was marked;
\* it begins with a mark and ends with the child.
OcInv ==
  /\ OcTyped
  /\ run # "published" => child = "none" /\ dispose = "no" /\ ~listening
  /\ dispose = "no" /\ runAbort => terminates = 1
  /\ dispose = "no" /\ ~runAbort => terminates = 0
  /\ dispose # "no" => runAbort /\ terminates = 2 /\ ~listening
  /\ dispose \in {"draining", "done"} => child = "exited"
  /\ dispose = "done" => stderr = 0 /\ result # "pending" /\ ~attached
  /\ child = "running" \/ stderr > 0 => attached
  /\ child = "none" => stderr = 0
  /\ lost = 0

LEMMA OcStart == OcInit => OcInv
<1> SUFFICES ASSUME OcInit PROVE OcInv
  OBVIOUS
<1>1. /\ runAbort \in BOOLEAN /\ listening \in BOOLEAN /\ attached \in BOOLEAN
      /\ ~runAbort /\ ~listening /\ ~attached
  BY Zenon DEF OcInit
<1>2. /\ run = "unloaded" /\ child = "none" /\ terminates = 0 /\ result = "pending"
      /\ stderr = 0 /\ lost = 0 /\ dispose = "no"
  BY DEF OcInit
<1> QED BY <1>1, <1>2 DEF OcInv, OcTyped

LEMMA OcStep == OcInv /\ OcNext => OcInv'
<1> SUFFICES ASSUME OcInv, OcNext PROVE OcInv'
  OBVIOUS
<1> USE DEF OcInv, OcTyped
<1>1. ASSUME NEW found, NEW grace, Load(found, grace) PROVE OcInv'
  BY <1>1 DEF Load
<1>2. ASSUME NEW workspace \in BOOLEAN, NEW aborted \in BOOLEAN, NEW spawned \in BOOLEAN,
             NEW prompt \in SUBSET {"text", "blank", "other"},
             startOcRun(workspace, aborted, prompt, spawned)
      PROVE OcInv'
  BY <1>2 DEF startOcRun
<1>3. CASE SignalAborts
  <2>1. /\ run = "published" /\ UNCHANGED <<run, child, result, stderr, lost, attached, dispose>>
        /\ listening => requestCancel
        /\ ~listening => UNCHANGED <<runAbort, terminates>>
    BY <1>3 DEF SignalAborts
  <2>2. listening' \in BOOLEAN /\ ~listening'
    BY <1>3, Zenon DEF SignalAborts
  <2>3. CASE listening
    <3>1. runAbort' \in BOOLEAN /\ runAbort'
      BY <2>1, <2>3, Zenon DEF requestCancel
    <3>2. terminates' = IF runAbort THEN terminates ELSE terminates + 1
      BY <2>1, <2>3 DEF requestCancel
    <3> QED BY <2>1, <2>2, <2>3, <3>1, <3>2
  <2>4. CASE ~listening
    BY <2>1, <2>2, <2>4
  <2> QED BY <2>3, <2>4
<1>4. CASE HandleCancels
  BY <1>4 DEF HandleCancels, requestCancel
<1>5. CASE DisposeStarts
  <2>1. /\ run = "published" /\ dispose = "no" /\ dispose' = "exiting"
        /\ UNCHANGED <<run, child, result, stderr, lost, attached>>
    BY <1>5 DEF DisposeStarts
  <2>2. /\ listening' \in BOOLEAN /\ ~listening'
        /\ runAbort' \in BOOLEAN /\ runAbort'
    BY <1>5, Zenon DEF DisposeStarts
  <2>3. terminates' = 2
    <3>1. terminates' = terminates + (IF runAbort THEN 1 ELSE 2)
      BY <1>5 DEF DisposeStarts
    <3> QED BY <2>1, <3>1
  <2> QED BY <2>1, <2>2, <2>3
<1>6. CASE ChildGone
  BY <1>6 DEF ChildGone
<1>7. CASE Detach
  <2>1. /\ dispose = "draining" /\ dispose' = "done" /\ ~Queued
        /\ UNCHANGED <<run, child, listening, runAbort, terminates, result, stderr, lost>>
    BY <1>7 DEF Detach
  <2>2. attached' \in BOOLEAN /\ ~attached'
    BY <1>7, Zenon DEF Detach
  <2>3. child = "exited" /\ stderr = 0 /\ result # "pending"
    BY <2>1 DEF Queued
  <2> QED BY <2>1, <2>2, <2>3
<1>8. CASE ChildWrites
  BY <1>8 DEF ChildWrites
<1>9. CASE onStderr
  BY <1>9 DEF onStderr
<1>10. CASE Settles
  BY <1>10 DEF Settles, Verdict
<1>11. ASSUME NEW how \in 0..2, ChildExits(how) PROVE OcInv'
  BY <1>11 DEF ChildExits
<1> QED BY <1>1, <1>2, <1>3, <1>4, <1>5, <1>6, <1>7, <1>8, <1>9, <1>10, <1>11 DEF OcNext

-----------------------------------------------------------------------------
(* Theorems.                                                               *)

LEMMA Invariance == DelegationSpec => [](CallInv /\ OcInv)
<1>1. DelegationInit => CallInv /\ OcInv
  BY CallInit, OcStart DEF DelegationInit
<1>2. CallInv /\ OcInv /\ [DelegationNext]_delegationVars => (CallInv /\ OcInv)'
  <2> SUFFICES ASSUME CallInv, OcInv, [DelegationNext]_delegationVars PROVE (CallInv /\ OcInv)'
    OBVIOUS
  <2>1. UNCHANGED ocVars => OcInv'
    BY DEF ocVars, OcInv, OcTyped
  <2>2. UNCHANGED btwVars => CallInv'
    BY CallQuiet DEF btwVars
  <2>3. CASE BtwNext /\ UNCHANGED ocVars
    BY <2>1, <2>3, CallNext
  <2>4. CASE OcNext /\ UNCHANGED btwVars
    BY <2>2, <2>4, OcStep
  <2>5. CASE UNCHANGED delegationVars
    BY <2>1, <2>2, <2>5 DEF delegationVars
  <2> QED BY <2>3, <2>4, <2>5 DEF DelegationNext
<1> QED BY <1>1, <1>2, PTL DEF DelegationSpec

\* Every /btw call that created a child holds its handle until it disposed it:
\* whichever await was cancelled or failed, no agent is left (index.ts:221-236).
THEOREM NoAgentLeft == DelegationSpec => []OwnedChild
<1>1. CallInv => OwnedChild
  BY DEF CallInv, Handled, OwnedChild
<1> QED BY <1>1, Invariance, PTL

\* A /btw call cancelled before it ended does not answer (index.ts:230-240).
THEOREM NoAnswerAfterCancel == DelegationSpec => []CancelledNeverAnswers
<1>1. CallInv => CancelledNeverAnswers
  BY DEF CallInv, Handled, CancelledNeverAnswers
<1> QED BY <1>1, Invariance, PTL

\* However many calls ask from one another's children, none goes below the depth
\* cap, and none reads from or creates in another workspace (index.ts:115-164).
THEOREM Confined == DelegationSpec => []Reach
<1>1. CallInv => Reach
  BY DEF CallInv, Handled, Headed, Reach
<1> QED BY <1>1, Invariance, PTL

\* A disposed OpenCode run is over: two terminates at most, the child gone, its
\* result there and its output forwarded (run.ts:275-328).
THEOREM QuietAfterDispose == DelegationSpec => []Quiescent
<1>1. OcInv => Quiescent
  BY DEF OcInv, OcTyped, Quiescent
<1> QED BY <1>1, Invariance, PTL
=============================================================================
