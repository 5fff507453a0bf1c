# A TLA+ model of dsh-me

dsh-me is a package of plugins for the DeepSeek harness (dsh). Each plugin has a
host half (node, one process, one JavaScript event loop) and most have a browser
half that folds the session log it is sent and calls the host over RPC. The
harness itself (agent loop, session log, surface, compaction, wire) is not in
this repository: it is modelled only as the plugins see it, and the map marks
those definitions external.

Paths below are relative to the repository; `undo/` stands for
`src/plugins/undo/` and so on.

## 1. Inventory

### The environment every plugin lives in

* **Session log and surface.** A session is an append-only log of events
  (`turn/start`, `turn/end`, `user/message`, `assistant/message`, `tool/result`,
  `system/message`, ...). The surface is the sequence of logged rows the model
  sees; an event's `surfaceOp` appends a row, or replaces a contiguous run of
  rows by the new one and cites them in `sourceEventSeqs`.
* **Agents.** A live agent is `idle` or `running` a turn; `followup` puts a message in
  its next-turn inbox and wakes it, `send(.., 'next-turn', false)` does not wake it.
* **Scheduling.** Host handlers run one after another; code between two `await`s is
  atomic, and everything may happen at an `await`. Browser halves see the log late.

### Components

| component | state | operations | talks to | what is hard | what makes it correct |
|---|---|---|---|---|---|
| undo host (`undo/index.ts`, `pure.ts`) | none of its own: the session's log and surface | `performUndo`, `performRedo` | session, agent | any sequence of undo, redo, new turns, rewrites and compactions; a redo rejected half way | a row is shadowed once and for good; nothing is shown twice; redo restores exactly what undo removed; the last turn can always be undone; the head survives |
| undo client (`undo/client/*`) | state derived from the events received; RPCs on their way | `deriveUndoState`, undo and redo buttons | undo host over RPC | lag, double clicks, stale rows | the transcript it leaves visible is the model's context; what it offers the host accepts |
| session messenger (`session-messenger/*`) | `watches`: relays whose reply is owed | `list_sessions`, `relay_message`, `session/event` and `session/disposed` listeners | agents and sessions of one workspace | relays and replies bouncing, busy targets, disposal, failing deliveries | at most one reply per relay, from the turn that claimed it; bounded chains |
| memory host (`memory/index.ts`, `store.ts`, `tools.ts`, `pure.ts`) | the sqlite table of notes and checkpoint groups; per-session refresh and tidy flags | harvest of checkpoints, `memory_write`, `memory_forget`, `/memory-tidy`, pre-step injection | compaction, sessions, other host processes | several processes on one table, crash between two statements, flags consumed before the work, an `await` between plan and append | groups are whole; a chain leaves one group; one row per session, of its own to see, pinned to its epoch; what was forgotten leaves it; no text is lost, and a quoted block is not shown again |
| reference host (`reference/index.ts`, `pure.ts`) | directories in the cache, markers in them | materialize on load and on each settings update | git, settings | concurrent materializations of one path, half-made clones, crashes | a marker tells the truth; a clone under way is left alone; the table is reached in the end |
| reference client (`reference/client/*`) | the draft, a save under way | edit, save, rename, remove | settings over RPC | two calls per rename, validation in two places | the form keeps what it is given |
| notification (`notification/*`) | browser: watched sessions, seen interactions, permission, config; host: none | reconcile, notify, permission request, native tool with fallback | sessions mirror, OS notifier | triggers while the prompt is open, interactions that hide one another, reloads | shown once; asked once; what was seen stays silent |
| peak-rate (`peak-rate/*`) | host: holidays, fetched years, fetch in flight; client: policy, retry counter and timer, date seen | fetch, RPC, retry, tick | holiday feed | partial fetches, year boundary, overtaking answers | one retry timer; the rule of the Beijing clock; host and badge catch up |
| btw (`btw/*`) | one handler per call, one child agent | read, create, drive, dispose | agents, sessions | abort and failure at every await | no child is left; a cancelled call does not answer; depth and workspace |
| subagent-oc (`subagent-oc/*`) | one child process per run | start, cancel, settle, dispose | subprocess service | abort, cancel, exit and dispose in any order | a cancelled run is aborted; a disposed run is quiet |
| caveman (`caveman/*`) | one mode in a flag file | set, read | file system, prompt | nothing concurrent within a host | a valid mode is read |
| rpc channel (`src/shared/*`) | none | dispatch, folds | HTTP | none: stateless | shape gate |

The memory client, btw client and package entries are rendering or wiring and are not
modelled (PROJECT.json says so one by one).

## 2. Modules

| module | what it is | extends |
|---|---|---|
| `UndoLog` | events, and the pure decisions of `undo/pure.ts` over log and surface | - |
| `Undo` | one live session under `performUndo` / `performRedo`, with the agent and its rewrites as environment | `UndoLog` |
| `UndoClient` | the browser half over it: lagging view, buttons, RPCs | `Undo` |
| `RelayLedger` | abstract: what the messenger promises of its relays | - |
| `Messenger` | the tools and listeners of `session-messenger/`, with agents and inboxes as environment | instantiates `RelayLedger` |
| `MemoryBlock` | which rows a session may be shown, and which of them the block shows | - |
| `Memory` | the table under several processes, harvest, tools, injection | `MemoryBlock` |
| `Lists` | the sum of a sequence, and the elements picked out of one | - |
| `MemoryText`, `BtwText`, `ReferenceEntry` | pure functions: summaries and echoes, snapshots, entries and drafts | `Lists` (the first two) |
| `Texts` | the inputs of those functions, and what they promise | `MemoryText`, `BtwText` (`ReferenceEntry` instantiated as `Entry`) |
| `References` | page, table, jobs and directories of `reference/` | - |
| `Notifications` | both halves of `notification/`, over several lives of the plugin | - |
| `PeakRate` | feed, host, RPC, client and badge of `peak-rate/` | - |
| `Btw`, `OcRun` | the two ways to delegate | - |
| `Delegations` | the two side by side | `Btw`, `OcRun` |
| `UndoProofs` | proofs about both halves of undo | `UndoClient`, `TLAPS` |
| `MessengerProofs`, `MemoryProofs`, `TextsProofs`, `NotificationsProofs`, `ReferencesProofs`, `PeakRateProofs`, `DelegationProofs` | proofs | the module they are about, `TLAPS` |
| `MC...` | instances for TLC | the module they instantiate |

### Undo: state and actions

`log` is the event log and `surface` the sequence of log positions the model sees
(positions count from 1, the code's seqs from 0). An event carries its type, turn,
step, surface operation, the rows it cites, and a `body`: the position of the row
whose content it carries, so that a redo copy and its original have the same body
and an empty content is 0. `agent` and `turn` are the loop's status and counter,
`replay` is a redo in progress, and `budget` holds the bounds.

`TurnStart`, `SystemPrompt`, `TurnRow`, `TurnEnd` are the agent's turn as the log
shows it; `RewriteRows` is every in-turn replacement the code's comments and
specs name (context refresh, tool-result rewrite, compaction inside a turn), over
any range behind the head, rows of the running turn included (`pure.ts:390-391`);
`Compact` is `/compact` between turns. `performUndo` is one action, because the
handler is synchronous between its first read and its append. `performRedo`
appends one event per step of its plan and each append may be rejected, so it is
`RedoStart`, one `RedoAppend` per step, then `RedoDone`, or `RedoFail` (the handler
closes the fake turn) or `RedoFailOpen` (that append is rejected as well); every
other action waits while `replay` is set, as the event loop does. Rejections that
change nothing are not actions of `Undo`; in `UndoClient` they are `Reject`,
because they take a request off the wire.

A lookup of the code that returns `undefined` is a set with at most one member
(`turnLogRange`, `trailingTurnRun`, `findLastUndoTombstone`, `lastStepOfTurn`), so
a guard and a result are one `\E`.

### UndoClient

`window` is the length of the log prefix the browser has folded, `requests` the RPCs
not yet served. `idle`, `undoneTurns`, `hiddenKeys` translate `deriveUndoState`;
`UndoShown` and `RedoShown` are the conditions under which the two buttons render.
A click is decided on the view and served later, on whatever the log has become.
A redo request carries no turn: the host picks the tombstone.

### Messenger

The tool and the two listeners contain no `await` between their first read and their
last write, so each is one action: `Relay` is `relay_message` (hop gate, address
resolution, live target, `followup`, watch), the `turn/end` half of the
`session/event` listener is part of `TurnEnd`, its `user/message` half (`markSeen`)
part of `Claim`, and the `session/disposed` listener is part of `Dispose`.
`list_sessions` only reads; its catalog is `catalog`. `deliveries` is every message the
plugin delivered, in order; a message is known by its place in it, and 0 is human
input. A delivery carries what the code writes (addressee, `senderSessionId`, hop)
and two things only the properties read: `re`, the relay it answers (0: none), and
`depth`, how many deliveries lie between it and the human input behind it.
`watches` is the code's map; its insertion order is the order of the ids.

The agent is the harness, as `index.ts` describes it: `followup` queues and wakes, a
message is the only ordinary message of its own turn, and a session without a live
agent is listed but cannot be delivered to. `ContextRow` stands for another plugin
logging a `user/message` of its own inside a turn, as dsh-memory does at a pre-step.
A session that is disposed does not come back in the model.

`RelayLedger` is the promise: a relay is asked once, then answered by one message or closed, and
never touched again. `Ledger` is the refinement mapping: a relay is closed when it has
neither a reply nor a watch.

### Memory

`rows` is the sqlite table, which every process shares; `lastId` its AUTOINCREMENT counter.
A harvest is four steps because it is four statements: the gate is read in the step
that delivers the checkpoint (`Compact`, or `Replay` after a resume), `insertCompaction`
is the transaction, `selectTargets` looks up the groups to replace and `markSuperseded`
updates those of them that are still stored and unmarked. `harvest[h]` is
what process `h` has under way; nothing else runs in that process meanwhile (`Free`), but
everything runs in the others, and `Crash` and `HarvestFails` may fall in between. `PreStep`
is the handler up to its `await next()`, `Enter` and `Reject` what comes after; between
them the session may be compacted or disposed. A session's log keeps what the plugin
reads of it: the kind of an event, what a memory row shows, what a checkpoint cites.
A pre-step whose plan throws, or whose replacement the session rejects, contains it (`InjectFails`)
after it has taken the refresh flag, and the row stays as it is. Two history variables say what a
refresh is for: `owed`, the rows the plugin promised to take out of a session's row, until a row shows the
block again (or the block is empty: the handler leaves the row, `index.ts:256`), and `lost`, the
sessions whose armed refresh such a failure used up, or a crash took.

`MemoryBlock` translates the two pools (visibility, budgets, the stop at the first entry
that does not fit) exactly; texts are sizes. What a pool admits is a set: an entry is in when it and
everything newer fit, which is the code's walk from the newest to the first that does not. The order in
which the admitted entries are written is left out, because the rows determine it.

### Texts

`Texts` has no system: its states are the inputs, grown line by line, and its
invariants say what the functions return. A line of a summary is one of the forms
the code tells apart (heading, bullet, fence, blank, the placeholder for "none", other; of a block also a
blank line, a fence and another with blanks behind them), a character of a snapshot is its byte width, a field of an entry is its form and where it has blanks. Widths
and overheads are scaled down in the run, so that five lines reach every splitter; the proofs take
them as they come. A text is cut by `Blocks`: a new block begins at each position of a set, which
is what the five loops of the harvest that collect lines or units into a current block do, each with its own
condition. `packChunks` begins a chunk where the header and the units since the chunk began would exceed the cap.

### References

`dir[a]` is the cache directory of an alias: absent, partial or whole, its branch, its
marker, and the job cloning into it. `materializeAll` runs each job up to its first git
command in the step that started it, as the code does; from there a job goes on
alone. A fetch or reset inside a clone under way is taken to fail and to leave it alone. `SaveDraft`,
`Unset` and `Set` are a save of the page, whose calls may be refused or throw; saves may overlap, since
the page waits for none, and `toggleAutoInclude` is one of them. `Restart` loses the jobs and leaves clones in any of the three states git may leave them in.

### Notifications

One state of the plugin's body per life (`config`, `permission`), because the code's
closures survive an unload; `seen` and `pending` are of the current life. A fire is
the n-th of its handler, so that two subscriptions to one window fire twice, and
what is shown carries its count: `ShownOnce` is that it is one.

### PeakRate

A year's holidays are known or not. `FetchSettles` is both documents of a fetch, `ServeConfig`
the endpoint, which starts a fetch when the year is missing and answers with what
it has, `Receive` the client after its `await`, in any order of answers. `Tick` is the badge's
interval at a date it has not seen. The rule is checked for every hour of a week.

### Delegations

`Btw` has one action per settling of an `await` of the handler, each with its failure;
`Abort` may come at any of them. A child's header outlives its agent and may be asked
from again, which is what the depth cap is for. A dispose that rejects (`btw/index.ts:232`) is assumed to have
taken the agent away all the same: the code does not try again. `OcRun` has one action per event a run can meet:
abort of the request, cancel, dispose, output, exit. `run.ts:325` waits for one `setImmediate` before it takes the
listeners off; `Detach` waits for everything queued, which is the same only if the subprocess service settles `done`
after the child's streams have closed. That is assumed of the host. The two share no variable, so
`DelegationNext` follows either one or the other; the interleavings of both would be the
product of independent behaviours.

## 3. Runs

`peak_rate` and `references` check deadlock: those systems never stop. In the others a
behaviour ends when its budgets are used up, and the check for deadlock is off.

| run | question | bounds |
|---|---|---|
| `undo_rewrites` | do citations, contents, the head and the closed log survive rewrites, compactions and rejected appends | 2 turns of at most 2 rows, 2 undos, 2 redos, a rewrite, a compaction, 2 faults (both appends of a failing redo) |
| `undo_client` | do the browser's two derived views agree with the host, with lag and duplicated clicks; is the tail undoable; does a redo restore exactly what its undo removed | 2 turns of at most 2 rows, 2 undos, 2 redos, 3 clicks |
| `messenger` | do replies go back along their relay; is a relay answered once, by the turn that claimed it, or closed; do watches leak; is a chain bounded; is every relay discharged for a good reason | 3 sessions (two of one title) in 2 workspaces, no auto wake, 2 relays under a ceiling of 2, 2 human inputs, 1 context row, 1 disposal, 1 delivery that throws |
| `memory` | whole groups, one group per chain, one own, pinned row per session, forgotten rows leave | 2 sessions of one workspace in 2 processes, 4 events of which at most 2 compactions and one each of write, forget, replay, crash, fault, dispose, turn; symmetric |
| `texts` | what the pure functions return | every summary and block of 5 lines, every conversation of 5 messages, 3 caps (one leaves no room for a truncation's marker), 3 budgets, every entry and draft of the forms in `MCTexts` |
| `notifications` | shown once, asked once, seen is silent | 1 session, 2 interactions that hide one another, 1 turn, 2 lives, hide-show-hide, browser and desktop shell |
| `references` | markers, clones, convergence | 2 aliases, 2 branches, 3 jobs at once, 2 saves (which may overlap) or removals, 1 crash |
| `peak_rate` | one timer, the rule, catching up | 3 years, 3 retries, 2 calls under way, 1 further mount, a window across midnight in Beijing |
| `delegations` | children, cancels, reach; a run's end | 2 calls from 3 sessions of 2 workspaces and from one another's children, 1 rename; 1 OpenCode run with 2 chunks queued |
| `messenger_context`, `memory_foreign`, `ref_override` | three sentences of the documentation, each refuted | the smallest that reach the counterexample |

Why these bounds are enough to be of interest. Undo: two rows are a turn's
first and last, each of three types; two turns are what a cascade or a stale
tombstone takes; replacement ranges are exhaustive over the surface. Messenger: a relay and one on
top of it reach the ceiling, and two watches with different senders may wait at one target.
Memory: two compactions of one session are a chain, one each of two sessions collide in their seqs,
and a replay under another cap after a crash is a group split in two ways; four events
are what a write, its injection, a forget and a compaction, or a failure in its place, take. References: three jobs are a clone
for an earlier pin, one for the current pin and one of the other alias; a toggle beside the two calls of a rename
would take a third edit, and is covered by the theorems only. Notifications:
the second interaction hides the first, which comes back. PeakRate: the third year
is fetched ahead in the second. Delegations: the second call asks from the first's child.

### Findings

Refuted by a run:

1. `hopOfLastUserMessage` reads the last `user/message` of the log. One context row after
   the claimed relay, as dsh-memory logs it, and the next relay starts again at hop 1: the
   ceiling that is to stop two sessions from bouncing no longer bounds the chain
   (`messenger_context`). With a bounded number of such rows the chain stays bounded accordingly
   (`ChainBounded`).
2. `detectSupersession` compares the seqs a checkpoint shadows, which count its own session's
   events, with the checkpoints of the whole workspace, and so retires another session's
   (`memory_foreign`).
3. An entry that asks for `missing-only` under a global `always` loses that field in
   `normalizeTable` and is refreshed anyway (`ref_override`).

Met while modelling, and not made a run:

* undo: a rewrite made during a turn can be shadowed with it (`pure.ts:200`), although the redo
  planner's comment rules that out; while a redone turn is the tail the turn below it is accepted for
  undo; after two undos in a row neither can be redone; a redo rejected behind its first append and
  retried opens the same fake turn twice (`pure.ts:38-41` says they never collide, `index.ts:229`):
  until the retry the redo entry is gone although the host would accept the redo, and after it the
  restored message cannot be undone, though the button offers it; after a `/compact` the undo button of
  the last turn stays and the host refuses it; the redo entry of an older turn stays on and replays a
  newer one.
* messenger: a reply that throws is lost, because the watch was deleted first; a reply's
  `senderSessionId` is its own recipient's (`index.ts:192`); `list_sessions` lists sessions
  without a live agent, which the README denies.
* memory: a pre-step that took the refresh flag and then fails to plan or to replace (`index.ts:437-463`, contained)
  leaves a row that shows what was forgotten with no refresh armed, until the session compacts, forgets or tidies
  again; the comment at 433-436 says the flag is consumed with the row "replaced, freshly appended, or
  already fresh" (`lost` is the exception in `ForgottenLeaves`); the group gate is read outside the transaction, so two processes can splice
  two groups of one seq (the exception in `GroupsWhole`), and a second session's checkpoint of
  the same seq is silently not stored; an empty block consumes the refresh flag (the
  exception in `owed`); a fence that contains bullets or blank lines may be cut by the splitters (the
  exception in `FencesStayWhole`), a chunk may exceed the cap by its header, and a section without a splitter
  exceeds it whole; the echo stripper leaves the dangling opener of a fence that had other content
  before the echo, and takes only what lies before the first fence of a quoted block that has one inside. Harvest may
take a quote out of the stripper's reach: a quoted section over the entry cap is stored under "## Project Memory
(cont. i/N)" (`pure.ts:302`), which `ECHO_HEADING_RE` (373) does not match; one with `## ` headings inside is stored in
pieces, of which the first has no closing tag; and a fenced one harvested with known headings leaves a fence
line. The doc at 426-441 says of such echoes that "each occurrence is removed". A group whose replaced ones were not
marked, because a statement failed or the process died, leaves them injected beside it.
* btw: a snapshot's tail keeps the prefix of its boundary line (`pure.ts:203`; the doc at 183-184 says
  the suffix), so a message in part at both ends shows one prefix twice and `omittedBytes`, the total less the
  bytes shown, is less than what is missing; `omittedMessages`, which 183-186 calls exact, is one too small when
  the head ends with a whole message, or is empty (`pure.ts:218-221`; `OmissionsCounted` says that it is
  never further off); `whenIdle` is not told of an abort, so a cancelled call waits for its child.
* notifications: the watchers of session windows survive an unload (`client/index.ts:219-223`; the doc of
  `apply` at 124-128 says all are disposed).
* references: pinning a branch on an unmarked checkout, unpinning, or changing the
  repository never clones again (`index.ts:26` says a branch change does); `always` with
  a new branch fails for ever, since the clone is of one branch; a crash leaves a partial directory that
  later runs take for whole; a rename whose second call is refused loses the entry.
* peak-rate: every fetch replaces the holidays while the set of fetched years only grows
  (`index.ts:184-185`), so a year fetched ahead may be lost and not fetched again for a while
  (`CatchUp` says of the current year that it is in the end marked, and of the badge that it has what the host has,
  not that the host has that year's dates).

## 4. Fairness

Undo, memory, notifications and `Btw` promise nothing eventually: every step starts
with a user, a model or a transport, so no fairness is assumed and no liveness claimed.

* `Messenger` (`FairSpec`, for `RelayDischarged`): an agent with a waking message in its inbox claims it
  (`followup` wakes, and the code relies on it) and every turn ends, for whatever
  reason. Nothing is assumed of humans, tool calls, disposals or faults.
* `PeakRate` (for `CatchUp`): days pass and timers run (weak); a fetch ends, at its timeout at the
  latest (weak); answers arrive (weak); the badge's interval is far shorter than a day, so a
  tick falls on some of the days that differ from the one it saw (strong); the feed answers for this year
  now and then, and not every call fails (strong): without either no retry could help.
* `References` (for `Converges`): a git command ends (weak) and, tried for ever, succeeds
  at times (strong); the page's calls return (weak); the table is materialized again and again,
  by later saves and loads, and a removal does not fail each time (strong). Nothing retries by
  itself in the code: that a later load or update does is what the last assumption says.
* `OcRun` (for `CancelSettles`): a terminated child exits, by the last tier of its grace at the
  latest, and the event loop runs what is queued (all weak). A child that nobody
  terminated may run for ever.

## 5. What is proved

Every theorem holds for every value of the constants under the module's named assumptions (bounds are
natural numbers, and what is said below). Each run's properties were checked by TLC before they were
proved, and so were the invariants the proofs add.

### The undo host (`UndoProofs`; the fake-turn offset is positive)

* `TypeCorrect`: `Spec => []TypeOK`. The inductive invariant adds that a replay in
  progress reads inside the log (`ReplayInLog`; otherwise `RedoAppend` could copy an
  event that does not exist) and that the rows left to a turn never exceed the
  allowance (otherwise a step number could be negative).
* `CitationsHold`: `Spec => []CitedForGood`. `CitedInv` adds that no row is
  on the surface twice and that citations point at logged rows: with the first, the
  rows a replacement leaves are not the ones it cites; with the second, a new row was never
  cited before.
* `HeadIsSafe`: `Spec => HeadSurvives`.
* `TurnsAreClosed`: `Spec => []LastTurnClosed`. The invariant (`TurnsInv`) is about the whole log: while
  at most one append was rejected, every `turn/start` is followed by its own `turn/end` with no boundary
  between them, except the one that runs or is being replayed.
* `NothingIsSeenTwice`: `Spec => []NoContentTwice`, with any number of rejected appends. `RowsInv`: an
  appended row has only younger rows behind it. `TurnOrder`: the range of a turn never closes over
  another turn, even if a redo was left open by two rejected appends, because the fake turn it left is
  `Spent` (no undo can offer its original again) or `Settled` (it cannot be replayed). `ContentInv`: of the
  rows with one content the surface holds the youngest, and the content of an undone turn is off the
  surface while its tombstone is the tail, which is when a redo may copy it.
* `RedoIsFaithful`: `Spec => RedoRestores`. One tombstone is followed from its undo to the end of its
  redo. `TailRestores`: while it is the tail and cites no rewrite, its citations are exactly what the
  range of its turn has to copy, in order. `RedoRows`: in the middle of a redo the rows behind it are the
  copies of the part that was read. Both rest on `PresentInv`: while a turn runs or is replayed, what it
  appended is on the surface, or a rewrite the turn made took its place with rows of the turn alone behind it,
  and no tombstone lies inside a range.

The argument of the first three is one. `StepIsMove` shows, action by action, that each
step does one of four things to log and surface: nothing; append an event
that cites nothing; append such an event as a new tail row; append one that
replaces a run of rows, behind the system head, and cites exactly that run. What is to be
proved is proved once per move. That performUndo is such a move rests on
`UndoTargetProperties`: the run it computes is a run of surface positions that
does not start at the head. The other three go action by action where the moves say too little.

### The undo client (`UndoProofs`)

`ClientIsUndo`: `ClientSpec => Spec`. However far the client lags, and whenever a request is served, the
composition is a behaviour of the host alone; its invariant is that what a request asks to undo is an
assistant message of the log. Every theorem about `Undo` is therefore one about the composition.

The four others say of what they hold. `NoFault`, `NoRewrite` and `NoCompact` mean that no append was
rejected, nothing rewritten, nothing compacted so far; TLC refutes each property when any one of
these hypotheses of its theorem is dropped, and with the bounds of `undo_client` they always hold. All but `RedoIsThere`
take `MaxTurns < FakeBase`: real turn numbers stay below `FAKE_TURN_BASE` (1 000 000), as `pure.ts:36-41`
has it.

* `RedoIsThere`: `ClientSpec => [](NoFault => RedoIsOffered)`. `FillInv`: every closed turn has a row to
  copy, so a redo that ended has put rows behind its tombstone, and a tombstone that is still the tail is
  the last thing that happened: no fake turn opened behind it, which is what the client looks for.
* `TailIsUndoable`: `Spec => [](NoFault => TailUndoable)`. `OnceInv`: no turn number is started twice, and
  the fake turn of a tombstone that waits for its redo not even once. With `RowTurn` (an assistant message
  is behind the start of its turn) the range an undo finds holds the message it was asked for. That it does
  not look undone already is `UndoneIsOff` of `ContentInv`.
* `TranscriptShowsContext`: `ClientSpec => [](NoRewrite /\ NoCompact => TranscriptIsContext)`, with any
  number of rejected appends. `Accounted`: a message row is on the surface or cited by a tombstone, so every
  row left visible is in the context. `KeyInv`: two assistant messages never share turn and step, so hiding
  a cited row hides no other. It holds through a redo that starts the same fake turn twice, because a fake turn
  has no assistant message yet while its tombstone is the tail, and only then can it be started.
* `UndoIsHonest`: `ClientSpec => [](NoFault /\ NoCompact => UndoButtonHonest)`. `LastRows`: the last turn is
  undone, or each answer it appended, or a rewrite in its place, is on the surface with only rows logged since the
  turn began behind it; `RowsInTurn`: every row is a tombstone or behind the start of a turn. So behind that row
  the walk meets only rows of its own turn and rows it skips.

### Messenger (`MessengerProofs`; `maxHops` is positive, as the plugin's config schema says, `autoWake` a Boolean)

* `TypeCorrect`: `Spec => []TypeOK`, with every hop within the ceiling.
* `RepliesOnce`: `Spec => []OneReplyPerRelay`.
* `RepliesReturn`: `Spec => []ReplyToAsker`.
* `ImplementsLedger`: `Spec => KeepsLedger`.
* `NoWatchLeaks`: `Spec => []WatchOwed`.
* `ChainsEnd`: `Spec => []ChainBounded`.
* `NothingGoesSilently`: `Spec => AnsweredUnlessExcused`.

`OneReplyPerRelay` is not inductive: that a reply is the first rests on what its watch
says. The inductive invariant adds that a watch records an unanswered relay exactly as it
was delivered (`Routes`), that no relay has two watches (`OneWatch`) and that every
delivery passed the gate (`HopsBounded`, which keeps `lastHop` typed). Every step is one
of three moves (`Move`): no delivery and no new watch, a relay with its watch, or a reply
that takes its watch away. The invariant is proved once per move, each action is shown to
be a move, and the moves are `Close` or a stutter, `Ask` and `Answer` of the ledger.

`WatchOwed` needs that an inbox holds only messages addressed to its session (`Queued`): then a relay that is
claimed is claimed by the target of its watch. `ChainBounded` follows from a slack that grows with each context
row: a delivery is at most as deep as its hop plus the ceiling once per context row so far (`DeliveriesDeep`),
and so is the chain a running turn would extend (`TurnsDeep`). `AnsweredUnlessExcused` is an action property:
each step that drops a watch is taken apart into answer, gone session, ceiling, unfinished turn or a
delivery that threw.

### Memory (`MemoryProofs`)

* `NeverTwoRows`: `Spec => []OneRowSurfaced`, and `RowIsPinned`: `Spec => PinnedRow`. The invariant ties the row
  on its way to the flags: while a pre-step waits, the session has no memory row and no refresh is
  armed; a refresh is armed only for a session that is owed something. It is preserved because the only
  steps that surface a memory row are `Enter`, which finds none, and a replacement, which takes
  the last one's place; a compaction only drops rows.
* `ForgetReachesTheRow`: `Spec => []ForgottenLeaves`. While a session's row shows something it is owed, its
  refresh is armed or `lost` (`PaidInv`), and only a contained failure or a crash puts a session into `lost`; a plan
  that the refresh forced shows nothing that was owed.
* `RowsAreRecorded`, `GroupsStayWhole` (`GroupsWhole`), `OneGroupPerChain` (`ChainIsOneGroup`), from one
  invariant of the table (`TInv`): every row is a note of its scope or a segment of a checkpoint in its session's
  log (`TableOK`); a harvest under way belongs to a logged checkpoint, and before its insert its process has
  stored no group of that seq (`HarvestOK`); all rows of a group are one whole splitting, superseded together,
  unless two processes stored groups of one seq (`GroupsInv`); while nothing failed or crashed, a newer group
  has marked what it replaces or is about to (`ChainInv`).
* `OnlyItsOwn`: `Spec => []NothingForeign`: the block is made of rows that the visibility fence let through
  (`BlockRows`), for every budget of the pools, and what is on the surface or on its way was such a block
  (`OwnInv`), whichever rows were stored or forgotten meanwhile.

### Texts (`TextsProofs`)

These hold for every text, conversation, entry, cap and budget, not for the small ones of the run. The module
assumes only what makes the inputs what the code reads: lines have widths and caps and budgets are numbers
(`SegmentAssumption`, which also says that a summary's lines have no blanks behind them, and
`SnapshotAssumption`), and `FormAssumption`, under which a stored entry has no blanks around
its texts. An entry written by hand may have some; editing it trims them, so for it
the round trip is not the identity.

The functions are folds and recursive functions, and an induction rule with an operator parameter is out of the
prover's reach. `UpToAll` takes its place: the numbers up to n of which something holds are a *set*; if
it contains 0 and is closed under successor it contains them all, by a least counterexample. A recursive
function is chosen by its equation, so for each one a function that satisfies it is built first
(`SumsExist`, `PickedExists`, `FlatsExist`, `BlocksExist`, `BeginsExist`), then shown to be the one chosen.

* `SegmentsAreSound`: `Spec => []SegmentsSound`, what harvest promises of a summary with a known heading (another
  stays one segment), with three exceptions the property names: a segment of one unit may exceed the cap by its header
  (or the marker of a truncation that has no room), of a truncated unit only the beginning is stored, and a
  fence with a bullet or a blank line inside may be torn. `BlocksAre`: the
  blocks of a text are its stretches between one cut and the next, so flattened they are the text
  (`BlocksFlat`), and a block that is dropped or trimmed loses only blank lines (`SolidKeeps`, `TrimKeeps`).
  That nothing is lost is then about concatenations. What maps one concatenation to another, as reading the lines
  of units, dropping blank ones and naming their heading do, can be applied before flattening or after
  (`FlatMap`); it is used once for each level: pieces in a block, blocks in a body, units in chunks, segments in
  sections. That segments fit is `RunFits`: in a chunk the next unit was measured against
  the same beginning. That fences stay whole is that an even number of fence lines lies before every
  cut (`ParagraphCuts`, `BulletCuts`, `FenceCuts`), so every block has an even number itself (`BlocksEven`).
* `SnapshotsAreSound`: `Spec => []SnapshotSound`: a snapshot fits, keeps no message whole at both ends or whole at one
  and in part at the other, and counts the messages it shows nothing of, or one less. A message may be in
  part at both ends, the same part. The head gets at most half of the budget rounded up and the tail
  at most half rounded down; what an end takes are sums of a stretch of the messages (`TotalWindow`), and if the two met
  in a message kept whole, everything would have fitted and nothing been truncated.
* `BlocksAreSound`: `Spec => []BlockSound`: a fence-free block quoted in one stored text is not shown again
  (`QuotesVanish`), nor is one that a summary quotes if it fits the cap and holds no heading, fence or closing tag
  (`HarvestedQuotesVanish`), and normalizing changes nothing but blank lines and trailing blanks outside fences
  (`BlockNormal`). Normalizing is followed over the prefixes of a text (`Normalized`):
  as many fence lines, the same content, the same last line, and nothing that would be dropped again. An echo is
  stripped by one pass, from the fence or the heading that begins it to the one that ends it
  (`EchoFenced`, `EchoBare`), and what is left is a fixpoint (`StripOnce`).
* `FormsRoundTrip`: `Spec => []FormRoundTrip`, by the forms a text may have, field by field.

### The others

`NotificationsProofs`, for every set of sessions, interactions and toggles: `HeardOnce`
(`ShownOnce`), `PermissionAskedOnce` (`AskedOnce`), `SeenStaysSilent` (`SeenIsSilent`). The invariant calls what
was announced old (`Old`): a turn that has ended, or an interaction the life has seen or an earlier
life announced. What a handler fires is not old, so nothing like it is open, native or
shown; what is open or native is there once, and has not been shown.

`ReferencesProofs`, for every set of aliases, branches and entries: `MarkersTell`
(`MarkIsTruth`), `ClonesAreOwned` (`OwnClone`). Neither is inductive: the invariant adds that at most one job
clones into a directory or has cloned into it without having marked it (`OneCloner`), and
that until then the directory has no marker (`Claims`). A removal needs a marker and a clone needs
an absent directory, so neither meets such a job.

`PeakRateProofs`: `RetryIsBounded` (`OneRetryTimer`), and `BeijingRule` (`PeakByBeijingClock`) for every set of valid
windows and every list of holidays: arithmetic, hour by hour of a week, from the validation of
the config (`WindowAssumption`).

`DelegationProofs`, for every set of sessions and calls and every depth cap: `NoAgentLeft`
(`OwnedChild`), `NoAnswerAfterCancel` (`CancelledNeverAnswers`), `Confined` (`Reach`), `QuietAfterDispose` (`Quiescent`). The
invariant has two halves: what a handler under way knows of its parent, target and child
(`Handled`), with the forest of headers (`Headed`), and for a run that the number of terminates
follows from its signal and the teardown (`OcInv`).

### Only model-checked

Liveness (`RelayDischarged`, `CatchUp`, `Converges`, `CancelSettles`), which is out of the prover's reach, and the
three refutations. Every other property of the runs is a theorem.

## 6. Not modelled

Of undo: the composer refill (an editor command), the hiding of DOM rows (the keys
are modelled, the CSS is not), retaining a session's surface in the browser cache,
copies of legacy plugin message kinds (`pure.ts` maps their source field),
`tool/call` and `step/*` events (never on the surface), crashes (the log is the only
state, and every append is durable or rejected).

Of the messenger: the texts and titles' fold, message ids, unloading the plugin (its
watches die with it), a disposed session that is resumed under its id, an agent that
runs synchronously inside `followup`, malformed hops (no code writes one).

Of memory: the schema's migration, `memory_list` and the page's endpoint (they only read), unloading
the plugin, and the block's wording. Of references: local entries' probes, the listing in the
prompt, the directory picker (one spawned dialog). Of notifications: titles, bodies, chimes, the
settings form. Of peak-rate: the parsing of the feed's documents beyond "published or not". Of btw and
subagent-oc: the child's prompt and the CLI's arguments.

Not modelled at all: the memory and btw clients and the package entries (rendering and wiring); the rpc
channel (a stateless gate); caveman, whose flag is one file, replaced by a rename and read as a whole:
sequential file access and prompt text, with no step of another actor in between.

## 7. Plan

All components with behaviour of their own are modelled, and every safety property the runs check is
proved. Left, in order of interest:

1. An abstract transcript (a stack of turns) that `Undo` without rewrites implements.
2. `UndoButtonHonest` after a compaction, under the weaker promise that holds there: the button is
   dead only for turns the compaction took.
