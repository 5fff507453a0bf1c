-------------------------------- MODULE Btw --------------------------------
(***************************************************************************)
(* The handler of /btw (plugins/btw/index.ts): a question is put to a child *)
(* agent with the caller's conversation, or a snapshot of another session  *)
(* of the same workspace, and may be cancelled at every await.             *)
(*                                                                         *)
(* A call is named by itself and so is the session of its child.  A header *)
(* outlives its agent: a user may open a finished child and ask from it.   *)
(***************************************************************************)
EXTENDS Naturals, FiniteSets

CONSTANTS
  Roots,          \* sessions there are without /btw
  Calls,          \* invocations of the command, and their children
  Cwd,            \* workspace of every root
  Titles,
  FirstTitle,     \* of every root
  NoTitle,
  NoSession,
  MAX_DELEGATION_DEPTH,
  MaxRenames      \* bound: changes of titles

ASSUME BtwAssumption ==
  /\ Roots \cap Calls = {} /\ NoSession \notin Roots \cup Calls
  /\ MAX_DELEGATION_DEPTH \in Nat \ {0}

VARIABLES
  call,     \* the handler of every invocation
  header,   \* headers of the sessions that exist
  live,     \* calls whose child has an agent handle
  title,    \* what every session is called
  renames

btwVars == <<call, header, live, title, renames>>

Sessions == Roots \cup Calls
Awaits == {"query", "titles", "surface", "label", "creating", "running", "disposing"}
Default == [kind |-> "default", session |-> NoSession, title |-> NoTitle]
Malformed == [Default EXCEPT !.kind = "error"]

\* Raw input: a mention (of no session: not canonical), a title before "::"
\* (or none, or a blank one), and whether there is anything else.
RawInput == [mentions: BOOLEAN, session: Sessions \cup {NoSession}, separator: BOOLEAN,
             title: Titles \cup {NoTitle}, text: BOOLEAN]

\* A mention wins, and a separator left beside it is part of the question.
parseBtwInput(raw) ==
  IF raw.mentions
  THEN IF raw.session = NoSession \/ ~(raw.text \/ raw.separator) THEN Malformed
       ELSE [Default EXCEPT !.kind = "mention", !.session = raw.session]
  ELSE IF raw.separator
       THEN IF raw.title = NoTitle \/ ~raw.text THEN Malformed
            ELSE [Default EXCEPT !.kind = "title", !.title = raw.title]
       ELSE IF raw.text THEN Default ELSE Malformed

Inputs == {parseBtwInput(raw) : raw \in RawInput}

NoCall == [at |-> "idle", parent |-> NoSession, want |-> Default, target |-> NoSession,
           aborted |-> FALSE, answered |-> FALSE, outcome |-> "none"]

Init ==
  /\ call = [i \in Calls |-> NoCall]
  /\ header = [s \in Roots |-> [cwd |-> Cwd[s], parent |-> NoSession, subagent |-> FALSE, depth |-> 0]]
  /\ live = {} /\ title = FirstTitle /\ renames = 0

\* The handler returns an error or a success, or it throws; its locals are gone.
Leaves(i, outcome) ==
  call' = [call EXCEPT ![i] = [NoCall EXCEPT !.at = "done", !.outcome = outcome, !.aborted = call[i].aborted]]
Goes(i, at) == call' = [call EXCEPT ![i].at = at]

\* signal.throwIfAborted
ThrowsIfAborted(i, next) == IF call[i].aborted THEN Leaves(i, "thrown") ELSE next

Keeps == UNCHANGED <<header, live, title, renames>>

\* Mutant of Invoke: a child may ask on.
InvokeUncapped(i, parent, want, aborted, mounted) ==
  /\ call[i].at = "idle" /\ parent \in DOMAIN header
  /\ LET started == [NoCall EXCEPT !.parent = parent, !.want = want]
     IN  call' = [call EXCEPT ![i] =
           IF aborted THEN [NoCall EXCEPT !.at = "done", !.outcome = "thrown", !.aborted = TRUE]
           ELSE IF want = Malformed \/ ~mounted
           THEN [NoCall EXCEPT !.at = "done", !.outcome = "error"]
           ELSE [started EXCEPT !.at = "query"]]
  /\ Keeps

\* Up to the first await: the input, the default model and the depth gate.
Invoke(i, parent, want, aborted, mounted) ==
  /\ call[i].at = "idle" /\ parent \in DOMAIN header
  /\ LET started == [NoCall EXCEPT !.parent = parent, !.want = want]
         refused == want = Malformed \/ ~mounted \/ header[parent].depth >= MAX_DELEGATION_DEPTH
     IN  call' = [call EXCEPT ![i] =
           IF aborted THEN [NoCall EXCEPT !.at = "done", !.outcome = "thrown", !.aborted = TRUE]
           ELSE IF refused THEN [NoCall EXCEPT !.at = "done", !.outcome = "error"]
           ELSE [started EXCEPT !.at = "query"]]
  /\ Keeps

\* The target is known: the caller's own conversation is at hand, another's
\* surface is read.
Reads(i, target) ==
  LET own == target = call[i].parent
  IN  call' = [call EXCEPT ![i].want = Default, ![i].target = IF own THEN NoSession ELSE target,
                           ![i].at = IF own THEN "creating" ELSE "surface"]

inWorkspace(i) == {s \in DOMAIN header : header[s].cwd = header[call[i].parent].cwd}

\* filterSessions settles.  It is not asked again whether the call was aborted.
QuerySettles(i, ok) ==
  /\ call[i].at = "query"
  /\ IF ~ok THEN ThrowsIfAborted(i, Leaves(i, "error"))
     ELSE CASE call[i].want.kind = "default" -> Reads(i, call[i].parent)
            [] call[i].want.kind = "mention" ->
                 IF call[i].want.session \in inWorkspace(i) THEN Reads(i, call[i].want.session)
                 ELSE Leaves(i, "error")
            [] OTHER -> Goes(i, "titles")
  /\ Keeps

\* Conversations a human sees.
addressable(i) == {s \in inWorkspace(i) : ~header[s].subagent}

\* The candidates that bear the title; only a single one is a target.
resolveTitleTarget(name, candidates) == {s \in candidates : title[s] = name}

\* readTitleSnapshots settles: some of its observations fail.
TitlesSettle(i, ok, observed) ==
  /\ call[i].at = "titles" /\ observed \subseteq addressable(i)
  /\ LET matches == resolveTitleTarget(call[i].want.title, observed)
     IN  IF ~ok THEN Leaves(i, "thrown")
         ELSE IF Cardinality(matches) = 1 THEN Reads(i, CHOOSE s \in matches : TRUE)
         ELSE Leaves(i, "error")
  /\ Keeps

\* readSurface settles, and then the read of the snapshot's title, whose
\* observation may fail without effect.
SurfaceSettles(i, ok) ==
  /\ call[i].at = "surface"
  /\ IF ok THEN ThrowsIfAborted(i, Goes(i, "label")) ELSE Leaves(i, "thrown")
  /\ Keeps

LabelSettles(i, ok) ==
  /\ call[i].at = "label"
  /\ IF ok THEN call' = [call EXCEPT ![i].target = NoSession, ![i].at = "creating"]
     ELSE Leaves(i, "thrown")
  /\ Keeps

\* agents.create settles: there is a session one level below the caller, and its
\* handle is the handler's to dispose.
ChildIsCreated(i, name) ==
  LET parent == call[i].parent
  IN  /\ header' = [s \in DOMAIN header \cup {i} |->
                      IF s = i THEN [cwd |-> header[parent].cwd, parent |-> parent, subagent |-> TRUE,
                                     depth |-> header[parent].depth + 1]
                      ELSE header[s]]
      /\ title' = [s \in DOMAIN title \cup {i} |-> IF s = i THEN name ELSE title[s]]
      /\ live' = live \cup {i}

\* Mutant of CreateSettles: the signal is looked at before the try.
CreateSettlesOutside(i, ok, name) ==
  /\ call[i].at = "creating"
  /\ IF ok THEN ChildIsCreated(i, name) /\ ThrowsIfAborted(i, Goes(i, "running"))
     ELSE Leaves(i, "thrown") /\ UNCHANGED <<header, title, live>>
  /\ UNCHANGED renames

\* Inside the try: an aborted call does not drive its child.
CreateSettles(i, ok, name) ==
  /\ call[i].at = "creating"
  /\ IF ok THEN /\ ChildIsCreated(i, name)
                /\ call' = [call EXCEPT ![i].at = IF call[i].aborted THEN "disposing" ELSE "running",
                                        ![i].outcome = IF call[i].aborted THEN "thrown" ELSE "none"]
     ELSE Leaves(i, "thrown") /\ UNCHANGED <<header, title, live>>
  /\ UNCHANGED renames

\* whenIdle settles: it is not told of the abort, which counts once the child
\* rests.  An exception is kept across the finally block.
ChildRests(i, ok, answered) ==
  /\ call[i].at = "running"
  /\ call' = [call EXCEPT ![i].at = "disposing",
                          ![i].answered = answered,
                          ![i].outcome = IF ok /\ ~call[i].aborted THEN "none" ELSE "thrown"]
  /\ Keeps

\* Mutant of Disposed: nobody looks at the signal again.
DisposedInTime(i, ok) ==
  /\ call[i].at = "disposing" /\ live' = live \ {i}
  /\ Leaves(i, IF ~ok \/ call[i].outcome = "thrown" THEN "thrown"
               ELSE IF ~call[i].answered THEN "error" ELSE "success")
  /\ UNCHANGED <<header, title, renames>>

\* dispose settles and the handler ends.  The host is assumed to have taken the
\* agent away also when it rejects the dispose, for nobody calls it again.
Disposed(i, ok) ==
  /\ call[i].at = "disposing" /\ live' = live \ {i}
  /\ Leaves(i, IF ~ok \/ call[i].outcome = "thrown" THEN "thrown"
               ELSE IF call[i].aborted \/ ~call[i].answered THEN "error" ELSE "success")
  /\ UNCHANGED <<header, title, renames>>

\* The user cancels.
Abort(i) ==
  /\ call[i].at \in Awaits /\ ~call[i].aborted
  /\ call' = [call EXCEPT ![i].aborted = TRUE]
  /\ Keeps

\* Sessions get new titles while titles are read.
Rename(s, name) ==
  /\ renames < MaxRenames /\ s \in DOMAIN title
  /\ title' = [title EXCEPT ![s] = name] /\ renames' = renames + 1
  /\ UNCHANGED <<call, header, live>>

BtwNext ==
  \/ \E i \in Calls, parent \in Sessions, want \in Inputs, aborted, mounted \in BOOLEAN :
       Invoke(i, parent, want, aborted, mounted)
  \/ \E i \in Calls, ok \in BOOLEAN :
       QuerySettles(i, ok) \/ SurfaceSettles(i, ok) \/ LabelSettles(i, ok) \/ Disposed(i, ok)
  \/ \E i \in Calls, ok \in BOOLEAN, observed \in SUBSET Sessions : TitlesSettle(i, ok, observed)
  \/ \E i \in Calls, ok \in BOOLEAN, name \in Titles : CreateSettles(i, ok, name)
  \/ \E i \in Calls, ok, answered \in BOOLEAN : ChildRests(i, ok, answered)
  \/ \E i \in Calls : Abort(i)
  \/ \E s \in Sessions, name \in Titles : Rename(s, name)

-----------------------------------------------------------------------------
(* Properties.                                                             *)

\* A child's handle is open while its call drives or disposes it, and no longer:
\* no cancelled, failed or finished call leaves an agent behind.
OwnedChild == \A i \in Calls : i \in live <=> call[i].at \in {"running", "disposing"}

\* A call cancelled before it ended never answers, at whichever await the cancel
\* came in: while the child was created, while it ran, while it was disposed.
CancelledNeverAnswers == \A i \in Calls : call[i].outcome = "success" => ~call[i].aborted

\* How far a call reaches.  Delegation ends at the depth cap, though headers
\* outlive their agents and are asked from again; what a call reads, though it was
\* addressed by a title that others bear or take meanwhile, is of the caller's
\* workspace, and so is its child.
Reach ==
  /\ \A s \in DOMAIN header :
       /\ header[s].depth <= MAX_DELEGATION_DEPTH
       /\ header[s].subagent => header[s].cwd = header[header[s].parent].cwd
  /\ \A i \in Calls : call[i].target # NoSession =>
       header[call[i].target].cwd = header[call[i].parent].cwd
=============================================================================
