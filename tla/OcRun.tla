------------------------------- MODULE OcRun -------------------------------
(***************************************************************************)
(* One run of the OpenCode CLI as a subagent (plugins/subagent-oc): spawn, *)
(* cancel, exit and dispose in any order.                                  *)
(*                                                                         *)
(* The subprocess service, settleRunResult and subprocessRunHandle belong  *)
(* to the host; they are modelled from their use here and by the tests.    *)
(***************************************************************************)
EXTENDS Naturals

CONSTANT MaxChunks   \* bound: what the child writes to stderr

ASSUME OcAssumption == MaxChunks \in Nat

VARIABLES
  run,        \* "unloaded", "ready" (a provider), "published", or "refused"
  child,      \* "none", "running" or "exited"
  exit,       \* how it exited: 0, 1 (another code or a signal), or 2 (done rejects)
  signalled,  \* the request's signal is aborted
  listening,  \* it is listened to
  runAbort,   \* the run's own signal is aborted
  terminates, \* calls of terminate
  result,     \* "pending", or the stop reason of the run
  stderr,     \* chunks written and not yet taken up
  lost,       \* chunks nobody forwarded
  attached,   \* the stderr listeners are
  dispose     \* "no", then the stages of the teardown, then "done"

ocVars == <<run, child, exit, signalled, listening, runAbort, terminates, result, stderr, lost,
            attached, dispose>>

OcInit ==
  /\ run = "unloaded" /\ child = "none" /\ exit = 0
  /\ signalled = FALSE /\ listening = FALSE /\ runAbort = FALSE
  /\ terminates = 0 /\ result = "pending"
  /\ stderr = 0 /\ lost = 0 /\ attached = FALSE /\ dispose = "no"

\* An absolute path is taken as it is, a name is looked up on PATH; what is found
\* must be executable.
resolveOcBinary(absolute, executable, onPath) == IF absolute THEN executable ELSE onPath

\* The plugin registers its provider, or fails to load: without a usable binary,
\* or with a dispose grace that is not positive or that no timer takes.
Load(found, grace) ==
  /\ run = "unloaded" /\ run' = IF found /\ grace = "usable" THEN "ready" ELSE "refused"
  /\ UNCHANGED <<child, exit, signalled, listening, runAbort, terminates, result, stderr, lost,
                 attached, dispose>>

\* The kinds of blocks a task has: text only, and not all of it blank.
textTask(prompt) == prompt \subseteq {"text", "blank"} /\ "text" \in prompt

\* A run is published when the parent has a workspace, the signal is not aborted,
\* the task is text and the spawn succeeds; otherwise start throws.
startOcRun(workspace, aborted, prompt, spawned) ==
  /\ run = "ready" /\ signalled' = aborted
  /\ IF workspace /\ ~aborted /\ textTask(prompt) /\ spawned
     THEN /\ run' = "published" /\ child' = "running"
          /\ attached' = TRUE /\ listening' = TRUE
     ELSE run' = "refused" /\ UNCHANGED <<child, attached, listening>>
  /\ UNCHANGED <<exit, runAbort, terminates, result, stderr, lost, dispose>>

\* The first cancel marks the run before it terminates the child.
requestCancel ==
  /\ runAbort' = TRUE
  /\ terminates' = IF runAbort THEN terminates ELSE terminates + 1

\* The request is aborted; a settled or disposed run no longer listens.
SignalAborts ==
  /\ run = "published" /\ ~signalled /\ signalled' = TRUE
  /\ IF listening THEN requestCancel /\ listening' = FALSE
     ELSE UNCHANGED <<runAbort, terminates, listening>>
  /\ UNCHANGED <<run, child, exit, result, stderr, lost, attached, dispose>>

\* The owner cancels the published run.
HandleCancels ==
  /\ run = "published" /\ dispose = "no" /\ requestCancel
  /\ UNCHANGED <<run, child, exit, signalled, listening, result, stderr, lost, attached, dispose>>

\* The child writes to stderr; what arrives is forwarded if somebody listens.
ChildWrites ==
  /\ child = "running" /\ stderr < MaxChunks /\ stderr' = stderr + 1
  /\ UNCHANGED <<run, child, exit, signalled, listening, runAbort, terminates, result, lost,
                 attached, dispose>>

onStderr ==
  /\ stderr > 0 /\ stderr' = stderr - 1
  /\ lost' = IF attached THEN lost ELSE lost + 1
  /\ UNCHANGED <<run, child, exit, signalled, listening, runAbort, terminates, result, attached,
                 dispose>>

\* The child exits of itself, or some time after terminate.
ChildExits(how) ==
  /\ child = "running" /\ child' = "exited" /\ exit' = how
  /\ UNCHANGED <<run, signalled, listening, runAbort, terminates, result, stderr, lost, attached,
                 dispose>>

Verdict == IF exit = 0 THEN "completed" ELSE "error"

\* Mutant of Settles: the exit of a cancelled child speaks for itself.
SettlesByExit ==
  /\ child = "exited" /\ result = "pending" /\ result' = Verdict /\ listening' = FALSE
  /\ UNCHANGED <<run, child, exit, signalled, runAbort, terminates, stderr, lost, attached, dispose>>

\* The attempt ends with done, and a cancelled run is aborted whatever it says.
Settles ==
  /\ child = "exited" /\ result = "pending"
  /\ result' = IF runAbort THEN "aborted" ELSE Verdict
  /\ listening' = FALSE
  /\ UNCHANGED <<run, child, exit, signalled, runAbort, terminates, stderr, lost, attached, dispose>>

\* The owner disposes the run, once: a cancel and the first step of the teardown,
\* a terminate of its own.
DisposeStarts ==
  /\ run = "published" /\ dispose = "no" /\ dispose' = "exiting"
  /\ listening' = FALSE /\ runAbort' = TRUE
  /\ terminates' = terminates + (IF runAbort THEN 1 ELSE 2)
  /\ UNCHANGED <<run, child, exit, signalled, result, stderr, lost, attached>>

\* Mutant of ChildGone: the teardown does not wait.
ChildGoneSoon ==
  /\ dispose = "exiting" /\ dispose' = "draining"
  /\ UNCHANGED <<run, child, exit, signalled, listening, runAbort, terminates, result, stderr, lost,
                 attached>>

\* waitForExit and done have settled.
ChildGone ==
  /\ dispose = "exiting" /\ child = "exited" /\ dispose' = "draining"
  /\ UNCHANGED <<run, child, exit, signalled, listening, runAbort, terminates, result, stderr, lost,
                 attached>>

\* setImmediate: the listeners go after the event loop has run what is queued, the
\* settling of a result whose child is gone included.  One setImmediate is enough
\* only if the subprocess service settles done when the child's streams have
\* closed, with what they held queued by then; that much is assumed of it.
Queued == stderr > 0 \/ (child = "exited" /\ result = "pending")

Detach ==
  /\ dispose = "draining" /\ ~Queued
  /\ dispose' = "done" /\ attached' = FALSE
  /\ UNCHANGED <<run, child, exit, signalled, listening, runAbort, terminates, result, stderr, lost>>

OcNext ==
  \/ \E absolute, executable, onPath \in BOOLEAN, grace \in {"usable", "not positive", "too long"} :
       Load(resolveOcBinary(absolute, executable, onPath), grace)
  \/ \E workspace, aborted, spawned \in BOOLEAN, prompt \in SUBSET {"text", "blank", "other"} :
       startOcRun(workspace, aborted, prompt, spawned)
  \/ SignalAborts \/ HandleCancels \/ DisposeStarts \/ ChildGone \/ Detach
  \/ ChildWrites \/ onStderr \/ Settles
  \/ \E how \in 0..2 : ChildExits(how)

\* A terminated child exits, by the last tier of its grace at the latest; the
\* event loop runs what is queued.
OcFairness ==
  /\ WF_ocVars(terminates > 0 /\ \E how \in 0..2 : ChildExits(how))
  /\ WF_ocVars(onStderr) /\ WF_ocVars(Settles) /\ WF_ocVars(ChildGone) /\ WF_ocVars(Detach)

-----------------------------------------------------------------------------
(* Properties.                                                             *)

\* A disposed run is quiet: its child is gone, its result is there, everything
\* the child wrote was forwarded, and nobody listens any more.  However often it
\* was cancelled, by whom and when, the child was terminated twice at most.
Quiescent ==
  /\ terminates <= 2
  /\ dispose = "done" =>
       /\ child = "exited" /\ result # "pending"
       /\ stderr = 0 /\ lost = 0 /\ ~attached /\ ~listening

\* A run cancelled before it settled ends as aborted, even if its child exits by
\* itself at the same time; and a dispose comes to its end.
CancelSettles ==
  /\ (runAbort /\ result = "pending") ~> (result = "aborted")
  /\ dispose # "no" ~> dispose = "done"
=============================================================================
