------------------------------- MODULE Memory -------------------------------
(***************************************************************************)
(* dsh-memory's host half (plugins/memory/index.ts, store.ts, tools.ts):   *)
(* the memories table, shared by every host process; the harvest of        *)
(* compaction checkpoints into it; the memory tools; and the injection of  *)
(* the assembled block into each session before a step.                    *)
(*                                                                         *)
(* A handler is atomic up to its SQL statements and its awaits.  A harvest *)
(* is gate (with the event), insert transaction, select, mark; another     *)
(* process may write in between, and a process may crash there.  A pre-    *)
(* step that wants to append its row awaits the other listeners first; it  *)
(* contains what its plan throws, and a rejected replacement.              *)
(*                                                                         *)
(* Sessions and compaction are the harness.  A session's log is reduced to *)
(* what the plugin reads of it; an event is known by its position, which   *)
(* plays the part of its seq.  A summary is two segments under a narrow    *)
(* entry cap and one under a wide one: a whole group has size 2.           *)
(***************************************************************************)
EXTENDS MemoryBlock

CONSTANTS Sessions, Hosts,
          Cwd,       \* Cwd[s]: the workspace of session s
          HostOf,    \* HostOf[s]: the process it lives in
          Budget     \* bound: Budget[b] for b in Budgets; "all" bounds them together

Events  == {"turn", "write", "forget", "compact", "replay", "crash", "fault", "dispose"}
Budgets == Events \cup {"all"}

ASSUME HostAssumption == HostOf \in [Sessions -> Hosts]
ASSUME NoOneAssumption ==
  NoOne \notin Sessions /\ \A s \in Sessions : Cwd[s] # NoOne
ASSUME BoundsAssumption == Budget \in [Budgets -> Nat]

VARIABLES log,        \* log[s]: the session's events
          surface,    \* surface[s]: its model-visible rows, as log positions
          agent,      \* agent[s]: "idle", "running" or "disposed"
          step,       \* step[s]: the row a pre-step waits to append
          rows,       \* the memories table
          lastId,     \* its AUTOINCREMENT counter
          harvest,    \* harvest[h]: the harvest in progress in process h
          cap,        \* cap[h]: its maxEntryChars, "wide" or "narrow"
          pending,    \* pendingRefresh of every process
          tidy,       \* tidyPending of every process
          owed,       \* owed[s]: rows the plugin promised to take out of s's
                      \* injected row; 0 when it promised to re-assemble it
          lost,       \* history: sessions whose armed refresh a contained
                      \* failure used up or a crash took, not made good since
          budget

vars == <<log, surface, agent, step, rows, lastId, harvest, cap, pending, tidy, owed, lost,
          budget>>

store   == <<rows, lastId>>
session == <<log, surface, agent, step>>
flags   == <<pending, tidy, owed, lost>>

NoRow     == [rows |-> {}, dropped |-> 0]
NoHarvest == [phase |-> "none", session |-> NoOne, seq |-> 0, by |-> 0, targets |-> {}]

Event(type, shows, cites) ==
  [type |-> type, shows |-> shows, cites |-> cites,
   time |-> IF type = "checkpoint" THEN lastId + 1 ELSE 0]

Text == Event("text", NoRow, {})

\* Every session runs its first turn.
Init ==
  /\ log = [s \in Sessions |-> <<[type |-> "text", shows |-> NoRow, cites |-> {}, time |-> 0]>>]
  /\ surface = [s \in Sessions |-> <<1>>]
  /\ agent = [s \in Sessions |-> "running"] /\ step = [s \in Sessions |-> NoRow]
  /\ rows = {} /\ lastId = 0
  /\ harvest = [h \in Hosts |-> NoHarvest] /\ cap = [h \in Hosts |-> "wide"]
  /\ pending = {} /\ tidy = {}
  /\ owed = [s \in Sessions |-> {}] /\ lost = {}
  /\ budget = Budget

Spend(b) ==
  /\ budget[b] > 0 /\ budget["all"] > 0
  /\ budget' = [budget EXCEPT ![b] = @ - 1, !["all"] = @ - 1]

\* Nothing else runs in a process between the statements of a harvest.
Free(s) == harvest[HostOf[s]] = NoHarvest

\* Append a row at the surface tail; replace surface positions 1..hi, or one.
AppendRow(s, e) ==
  /\ log' = [log EXCEPT ![s] = Append(@, e)]
  /\ surface' = [surface EXCEPT ![s] = Append(@, Len(log[s]) + 1)]

ReplaceRow(s, seq, e) ==
  /\ log' = [log EXCEPT ![s] = Append(@, e)]
  /\ surface' = [surface EXCEPT ![s] =
       [p \in DOMAIN @ |-> IF @[p] = seq THEN Len(log[s]) + 1 ELSE @[p]]]

-----------------------------------------------------------------------------
(* store.ts and pure.ts: the table.                                        *)

listActive(workspace, s) == {r \in rows : Visible(r, workspace, s)}

\* Mutant of Gate: only the unique index keeps a stored group.
GateOpen(s, seq) == TRUE

\* No row of the group is stored.
Gate(s, seq) == \A r \in rows : ~(r.workspace = Cwd[s] /\ r.seq = seq)

SegmentsOf(s) == IF cap[HostOf[s]] = "narrow" THEN 0..1 ELSE {0}

\* Mutant of detectSupersession: row ids are taken for event seqs.
detectSupersessionById(shadowed, active) ==
  {r.id : r \in {q \in active : q.kind = "compaction" /\ q.id \in shadowed}}

detectSupersession(shadowed, active) ==
  {r.id : r \in {q \in active : q.kind = "compaction" /\ q.seq \in shadowed}}

\* The checkpoint at seq is delivered to the listener: unless some row of its
\* group is stored, a harvest begins.
harvestCompaction(s, seq, gate) ==
  harvest' = [harvest EXCEPT ![HostOf[s]] =
    IF gate THEN [NoHarvest EXCEPT !.phase = "insert", !.session = s, !.seq = seq] ELSE @]

SegmentRow(s, seq, i, id) ==
  [id |-> id, workspace |-> Cwd[s], session |-> s, kind |-> "compaction", seq |-> seq,
   segment |-> i, size |-> 2 \div Cardinality(SegmentsOf(s)),
   time |-> log[s][seq].time, shadowed |-> log[s][seq].cites, supersededBy |-> 0]

\* INSERT OR IGNORE of every segment, in one transaction; only inserted rows
\* take an id.
insertCompaction(h) ==
  /\ harvest[h].phase = "insert"
  /\ LET s   == harvest[h].session
         seq == harvest[h].seq
         taken == {r.segment : r \in {q \in rows : q.workspace = Cwd[s] /\ q.seq = seq}}
         new == SegmentsOf(s) \ taken
         IdOf(i) == lastId + Cardinality({j \in new : j <= i})
     IN  /\ rows' = rows \cup {SegmentRow(s, seq, i, IdOf(i)) : i \in new}
         /\ lastId' = lastId + Cardinality(new)
         /\ harvest' = [harvest EXCEPT ![h] =
              IF new = {} THEN NoHarvest ELSE [@ EXCEPT !.phase = "select", !.by = lastId + 1]]
  /\ UNCHANGED <<session, flags, cap, budget>>

\* The checkpoints to replace are looked up; without any the harvest is over ...
selectTargets(h) ==
  /\ harvest[h].phase = "select"
  /\ LET s == harvest[h].session
         targets == detectSupersession(log[s][harvest[h].seq].cites, listActive(Cwd[s], s))
     IN  harvest' = [harvest EXCEPT ![h] =
           IF targets = {} THEN NoHarvest ELSE [@ EXCEPT !.phase = "mark", !.targets = targets]]
  /\ UNCHANGED <<session, store, flags, cap, budget>>

\* ... and those of them that are still stored, and that no other process has
\* marked meanwhile, leave the injection.
markSuperseded(h) ==
  /\ harvest[h].phase = "mark"
  /\ rows' = {IF r.id \in harvest[h].targets /\ r.supersededBy = 0
              THEN [r EXCEPT !.supersededBy = harvest[h].by] ELSE r : r \in rows}
  /\ harvest' = [harvest EXCEPT ![h] = NoHarvest]
  /\ UNCHANGED <<session, flags, lastId, cap, budget>>

\* A statement throws (the other process holds the lock too long): the
\* transaction rolls back, and the listener contains it.
HarvestFails(h) ==
  /\ harvest[h] # NoHarvest /\ Spend("fault")
  /\ harvest' = [harvest EXCEPT ![h] = NoHarvest]
  /\ UNCHANGED <<session, store, flags, cap>>

-----------------------------------------------------------------------------
(* The harness.                                                            *)

TurnStart(s) ==
  /\ Free(s) /\ agent[s] = "idle" /\ Spend("turn")
  /\ agent' = [agent EXCEPT ![s] = "running"]
  /\ AppendRow(s, Text)
  /\ UNCHANGED <<step, store, harvest, cap, flags>>

\* A compaction replaces the first rows of the surface by a checkpoint; its
\* metadata event precedes it, and both listeners of the log see them.
Compact(s, hi) ==
  /\ Free(s) /\ agent[s] # "disposed" /\ hi \in {Len(surface[s]) - 1, Len(surface[s])} \ {0}
  /\ Spend("compact")
  /\ LET n == Len(log[s])
         shadowed == {surface[s][p] : p \in 1..hi}
     IN  /\ log' = [log EXCEPT ![s] = @ \o
              <<Event("compaction/summary", NoRow, {}),
                Event("checkpoint", NoRow, shadowed \cup {n + 1})>>]
         /\ surface' = [surface EXCEPT ![s] = <<n + 2>> \o SubSeq(@, hi + 1, Len(@))]
         /\ harvestCompaction(s, n + 2, Gate(s, n + 2))
  /\ UNCHANGED <<agent, step, store, cap, flags>>

\* A resumed or restarted session delivers a logged checkpoint again.
Replay(s, seq) ==
  /\ Free(s) /\ agent[s] # "disposed" /\ log[s][seq].type = "checkpoint" /\ Spend("replay")
  /\ harvestCompaction(s, seq, Gate(s, seq))
  /\ UNCHANGED <<session, store, cap, flags>>

\* A process dies and comes back, perhaps with another entry cap: what it kept
\* in memory is gone.
Crash(h) ==
  LET lives(s) == HostOf[s] = h /\ agent[s] # "disposed" IN
  /\ Spend("crash")
  /\ harvest' = [harvest EXCEPT ![h] = NoHarvest]
  /\ \E c \in {"wide", "narrow"} : cap' = [cap EXCEPT ![h] = c]
  /\ agent' = [s \in Sessions |-> IF lives(s) THEN "idle" ELSE agent[s]]
  /\ step' = [s \in Sessions |-> IF lives(s) THEN NoRow ELSE step[s]]
  /\ pending' = {s \in pending : ~lives(s)} /\ tidy' = {s \in tidy : ~lives(s)}
  /\ lost' = lost \cup {s \in pending : lives(s)}
  /\ UNCHANGED <<log, surface, store, owed>>

-----------------------------------------------------------------------------
(* index.ts: injection.                                                    *)

MemoryRows(s) == {p \in DOMAIN surface[s] : log[s][surface[s][p]].type = "memory"}

\* Mutant of findLastMemoryRow: a row before the last checkpoint is not found.
findLastMemoryRowAfter(s) ==
  {surface[s][p] : p \in {q \in MemoryRows(s) :
     /\ \A r \in MemoryRows(s) : r <= q
     /\ \A i \in DOMAIN log[s] : log[s][i].type = "checkpoint" => surface[s][q] > i}}

findLastMemoryRow(s) ==
  {surface[s][p] : p \in {q \in MemoryRows(s) : \A r \in MemoryRows(s) : r <= q}}

sessionCompactedSince(s, seq) ==
  \E i \in (seq + 1)..Len(log[s]) : log[s][i].type = "compaction/summary"

\* What the block shows; its text, hence its digest, is a function of this.
Shown(block) ==
  LET Origin(r) == [id |-> r.id, kind |-> r.kind, workspace |-> r.workspace, session |-> r.session]
  IN  [rows |-> {Origin(r) : r \in block.notes \cup UNION {g.segments : g \in block.groups}},
       dropped |-> block.dropped]

BlockFor(s) == Shown(assembleMemoryBlock(listActive(Cwd[s], s), s))

\* Mutant of planMemoryInjection: the digest alone decides, no epoch pinning.
planUnpinned(s, forceRefresh) ==
  LET block == BlockFor(s) IN
  CASE block = NoRow -> {[kind |-> "none", seq |-> 0]}
    [] block # NoRow /\ findLastMemoryRow(s) = {} -> {[kind |-> "append", seq |-> 0]}
    [] OTHER -> {[kind |-> IF log[s][i].shows # block THEN "replace" ELSE "none", seq |-> i] :
                   i \in findLastMemoryRow(s)}

planMemoryInjection(s, forceRefresh) ==
  LET block == BlockFor(s) IN
  CASE block = NoRow -> {[kind |-> "none", seq |-> 0]}
    [] block # NoRow /\ findLastMemoryRow(s) = {} -> {[kind |-> "append", seq |-> 0]}
    [] OTHER -> {[kind |-> IF /\ log[s][i].shows # block
                              /\ forceRefresh \/ sessionCompactedSince(s, i)
                           THEN "replace" ELSE "none",
                  seq |-> i] : i \in findLastMemoryRow(s)}

\* The row shows the block (or there is nothing to show: an empty block leaves
\* the row, and voids what is owed).
Paid(s) == owed' = [owed EXCEPT ![s] = {}] /\ lost' = lost \ {s}

\* The row is as the plan wants it ...
Inject(s, plan) ==
  \/ /\ plan.kind = "none"
     /\ IF BlockFor(s) \in {NoRow} \cup {log[s][i].shows : i \in findLastMemoryRow(s)}
        THEN Paid(s)
        ELSE UNCHANGED <<owed, lost>>
     /\ UNCHANGED <<log, surface, step>>
  \/ /\ plan.kind = "append"
     /\ step' = [step EXCEPT ![s] = BlockFor(s)]
     /\ UNCHANGED <<log, surface, owed, lost>>
  \/ /\ plan.kind = "replace"
     /\ ReplaceRow(s, plan.seq, Event("memory", BlockFor(s), {plan.seq}))
     /\ Paid(s)
     /\ UNCHANGED step

\* ... or the plan throws, or the session rejects the replacement: a warning.
InjectFails(s) ==
  /\ Spend("fault")
  /\ lost' = lost \cup ({s} \cap pending)
  /\ UNCHANGED <<log, surface, step, owed>>

\* The pre-step handler up to its await.  The flag is consumed whatever comes
\* of it.
PreStep(s) ==
  /\ Free(s) /\ agent[s] = "running" /\ step[s] = NoRow
  /\ pending' = pending \ {s}
  /\ \/ \E plan \in planMemoryInjection(s, s \in pending) : Inject(s, plan) /\ UNCHANGED budget
     \/ InjectFails(s)
  /\ UNCHANGED <<agent, store, harvest, cap, tidy>>

\* The other listeners let the step enter, and the loop appends the row ...
Enter(s) ==
  /\ Free(s) /\ step[s] # NoRow
  /\ AppendRow(s, Event("memory", step[s], {}))
  /\ step' = [step EXCEPT ![s] = NoRow] /\ Paid(s)
  /\ UNCHANGED <<agent, store, harvest, cap, pending, tidy, budget>>

\* ... or they reject it.
Reject(s) ==
  /\ Free(s) /\ step[s] # NoRow
  /\ step' = [step EXCEPT ![s] = NoRow]
  /\ UNCHANGED <<log, surface, agent, store, harvest, cap, flags, budget>>

-----------------------------------------------------------------------------
(* tools.ts, the /memory-tidy command and the other listeners.             *)

Calls(s) == Free(s) /\ agent[s] = "running" /\ step[s] = NoRow

\* memory_write: a note of one of the three scopes.
memory_write(s, scope) ==
  /\ Calls(s) /\ Spend("write")
  /\ rows' = rows \cup
       {[id |-> lastId + 1, workspace |-> IF scope = "global" THEN NoOne ELSE Cwd[s],
         session |-> IF scope = "session" THEN s ELSE NoOne, kind |-> "manual", seq |-> 0,
         segment |-> 0, size |-> 1, time |-> lastId + 1, shadowed |-> {}, supersededBy |-> 0]}
  /\ lastId' = lastId + 1
  /\ UNCHANGED <<session, harvest, cap, flags>>

\* deleteMemory: a checkpoint goes with its whole group.
Deleted(target) ==
  IF target.kind = "compaction"
  THEN {r \in rows : r.kind = "compaction" /\ r.workspace = target.workspace /\ r.seq = target.seq}
  ELSE {target}

\* Mutant of onForget: it is not called.
onForgetNone(s) == pending' = pending

onForget(s) == pending' = pending \cup {s}

memory_forget(s, id) ==
  /\ Calls(s) /\ Spend("forget")
  /\ \E target \in {r \in rows : r.id = id /\ Visible(r, Cwd[s], s)} :
       /\ rows' = rows \ Deleted(target)
       /\ owed' = [owed EXCEPT ![s] = @ \cup {r.id : r \in Deleted(target)}]
  /\ onForget(s)
  /\ UNCHANGED <<session, lastId, harvest, cap, tidy, lost>>

\* /memory-tidy steers the agent: an idle one starts a turn, a running one
\* gets the prompt in its turn, also while a pre-step waits.
memory_tidy(s) ==
  /\ Free(s) /\ agent[s] # "disposed" /\ Spend("turn")
  /\ agent' = [agent EXCEPT ![s] = "running"]
  /\ AppendRow(s, Text)
  /\ tidy' = tidy \cup {s}
  /\ UNCHANGED <<step, store, harvest, cap, pending, owed, lost>>

\* Rows the session's injected row shows and its block no longer does.
Outdated(s) ==
  UNION {{r.id : r \in log[s][i].shows.rows \ BlockFor(s).rows} : i \in findLastMemoryRow(s)}

\* The end of a tidy turn arms the refresh.
TurnStopping(s) ==
  /\ Calls(s)
  /\ agent' = [agent EXCEPT ![s] = "idle"]
  /\ tidy' = tidy \ {s}
  /\ pending' = IF s \in tidy THEN pending \cup {s} ELSE pending
  /\ owed' = [owed EXCEPT ![s] = IF s \in tidy THEN @ \cup Outdated(s) \cup {0} ELSE @]
  /\ UNCHANGED <<log, surface, step, store, harvest, cap, lost, budget>>

\* session/disposed: the session's notes and flags go, its checkpoints stay.
Dispose(s) ==
  /\ Free(s) /\ agent[s] # "disposed" /\ Spend("dispose")
  /\ agent' = [agent EXCEPT ![s] = "disposed"] /\ step' = [step EXCEPT ![s] = NoRow]
  /\ rows' = {r \in rows : ~(r.kind = "manual" /\ r.session = s)}
  /\ pending' = pending \ {s} /\ tidy' = tidy \ {s}
  /\ Paid(s)
  /\ UNCHANGED <<log, surface, lastId, harvest, cap>>

-----------------------------------------------------------------------------
Scopes == {"global", "workspace", "session"}

Tools(s) ==
  \/ \E scope \in Scopes : memory_write(s, scope)
  \/ \E id \in 1..lastId : memory_forget(s, id)
  \/ memory_tidy(s)

Harness(s) ==
  \/ TurnStart(s) \/ TurnStopping(s) \/ Dispose(s)
  \/ \E hi \in DOMAIN surface[s] : Compact(s, hi)
  \/ \E seq \in DOMAIN log[s] : Replay(s, seq)

Process(h) ==
  insertCompaction(h) \/ selectTargets(h) \/ markSuperseded(h) \/ HarvestFails(h) \/ Crash(h)

Next ==
  \/ \E s \in Sessions : Tools(s) \/ Harness(s) \/ PreStep(s) \/ Enter(s) \/ Reject(s)
  \/ \E h \in Hosts : Process(h)

Spec == Init /\ [][Next]_vars

-----------------------------------------------------------------------------
(* Properties.                                                             *)

GroupOf(r) == {q \in rows : q.workspace = r.workspace /\ q.seq = r.seq}

\* One row for each segment of one splitting, and each has its size.
Whole(group) ==
  \E segments \in {{0}, 0..1} :
    /\ {q.segment : q \in group} = segments
    /\ \A q \in group : q.size = 2 \div Cardinality(segments)
    /\ \A p, q \in group : p.segment = q.segment => p = q

\* A checkpoint group is one splitting of one checkpoint, whole: replays under
\* another entry cap, forgets and crashes never behead it, nor splice two.  Only
\* two processes that harvest events of one seq at the same time can, since the
\* gate is outside the transaction.
GroupsWhole ==
  \A r \in rows : r.kind = "compaction" =>
    \/ /\ \A q \in GroupOf(r) : q.session = r.session /\ q.supersededBy = r.supersededBy
       /\ Whole(GroupOf(r))
    \/ \E q \in GroupOf(r) : HostOf[q.session] # HostOf[r.session]

\* Chained compactions leave one group: unless a statement failed or a process
\* died, a checkpoint stored after another one that it shadows replaces it.
ChainIsOneGroup ==
  (budget["fault"] = Budget["fault"] /\ budget["crash"] = Budget["crash"]) =>
    \A old, new \in rows :
      (/\ old.kind = "compaction" /\ new.kind = "compaction" /\ old.session = new.session
       /\ old.id < new.id /\ old.seq \in new.shadowed)
      => \/ old.supersededBy # 0
         \/ harvest[HostOf[new.session]].seq = new.seq

\* What is injected into a session is its own to see: nothing of another
\* workspace, no other session's notes, and not its own checkpoints, which are
\* on its surface already.
NothingForeign ==
  \A s \in Sessions : \A i \in DOMAIN log[s] : \A r \in log[s][i].shows.rows :
    /\ r.workspace \in {NoOne, Cwd[s]}
    /\ r.kind = "manual" => r.session \in {NoOne, s}
    /\ r.kind = "compaction" => r.session # s

\* The model never reads two memory rows, whatever is compacted, appended or
\* rejected while a pre-step waits.
OneRowSurfaced ==
  \A s \in Sessions : \A p, q \in MemoryRows(s) : p = q

\* What a session forgets, or a tidy turn drops, leaves its injected row at its
\* next pre-step: while its row still shows it, the refresh is armed, whatever is
\* appended, compacted or rejected by others meanwhile.  The refresh is only lost
\* to a failure that a pre-step contains after it took the flag, or to a crash:
\* then the row shows it until a later refresh or compaction.
ForgottenLeaves ==
  \A s \in Sessions : \A i \in findLastMemoryRow(s) :
    (\E r \in log[s][i].shows.rows : r.id \in owed[s]) => s \in pending \/ s \in lost

\* A row is pinned to its epoch: it is replaced in place only after the session
\* itself compacted since, or forgot or tidied and its pre-step has not run since.
\* What other sessions write, harvest or forget never touches it.
PinnedRow ==
  [][\A s \in Sessions : \A i \in findLastMemoryRow(s) :
       (/\ Len(log'[s]) = Len(log[s]) + 1
        /\ log'[s][Len(log'[s])].type = "memory" /\ i \in log'[s][Len(log'[s])].cites)
       => sessionCompactedSince(s, i) \/ (owed[s] # {} /\ s \in pending)]_vars

-----------------------------------------------------------------------------
(* What the documentation says and the code does not do; a run refutes it. *)

\* README: the old group a new summary shadows is marked.  A checkpoint is only
\* replaced by a later checkpoint of its own session.
ReplacedByOwnChain ==
  \A r, q \in rows : r.supersededBy = q.id => r.session = q.session
=============================================================================
