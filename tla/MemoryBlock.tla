----------------------------- MODULE MemoryBlock ----------------------------
(***************************************************************************)
(* The dual-pool assembly of dsh-memory's injected block                   *)
(* (plugins/memory/pure.ts) and the visibility fence of its store          *)
(* (store.ts), over rows of the memories table.                            *)
(*                                                                         *)
(* A row is a record [id, workspace, session, kind, seq, segment, size,    *)
(* time, shadowed, supersededBy]; NoOne is a NULL workspace or session and *)
(* 0 a NULL number.  A block is what it shows, [notes, groups, dropped]:   *)
(* its rendering is a function of these and of the rows' texts, whose      *)
(* order (notes by scope, then groups, newest first) the rows determine.   *)
(***************************************************************************)
EXTENDS Naturals, SequencesExt

CONSTANTS NoOne,
          MaxSummaries,        \* options.maxCompactionSummaries
          MaxCompactionChars,  \* options.maxCompactionChars
          MaxManualChars       \* options.maxManualChars

ASSUME BudgetAssumption == {MaxSummaries, MaxCompactionChars, MaxManualChars} \subseteq Nat

\* The empty text: nothing is injected.
NoBlock == [notes |-> {}, groups |-> {}, dropped |-> 0]

\* Mutant of Visible: every note of the workspace.
VisibleNotes(row, workspace, session) ==
  /\ row.supersededBy = 0
  /\ row.workspace = NoOne \/ row.workspace = workspace

\* VISIBILITY_WHERE.
Visible(row, workspace, session) ==
  /\ row.supersededBy = 0
  /\ \/ row.workspace = NoOne
     \/ row.kind = "compaction" /\ row.workspace = workspace
     \/ row.kind = "manual" /\ row.session = NoOne /\ row.workspace = workspace
     \/ row.kind = "manual" /\ row.session = session

\* What session s may be shown: its own checkpoints are still on its surface.
Eligible(rows, s) == {r \in rows : ~(r.kind = "compaction" /\ r.session = s)}

\* Array.sort is stable and listActive orders by (created_at DESC, id DESC).
Newer(a, b) == a.time > b.time \/ (a.time = b.time /\ a.id > b.id)

SizeOf(S) == MapThenSumSet(LAMBDA x : x.size, S)

\* x and what is newer.
UpTo(x, S) == {y \in S : y = x \/ Newer(y, x)}

\* Newest first, up to the first entry that does not fit.
Admit(S, entries, chars) ==
  {x \in S : Cardinality(UpTo(x, S)) <= entries /\ SizeOf(UpTo(x, S)) <= chars}

Notes(rows) == {r \in rows : r.kind = "manual"}

\* However many, within their characters.
AdmittedNotes(rows) == Admit(Notes(rows), Cardinality(rows), MaxManualChars)

\* Checkpoint groups are keyed by the event seq alone; of two groups of one
\* time, the one of the newest row was met first.
Group(rows, seq) ==
  LET segments == {r \in rows : r.kind = "compaction" /\ r.seq = seq}
      newest   == CHOOSE r \in segments : UpTo(r, segments) = {r}
  IN  [id |-> newest.id, time |-> newest.time, size |-> SizeOf(segments), segments |-> segments]

Groups(rows) == {Group(rows, r.seq) : r \in {q \in rows : q.kind = "compaction" /\ q.seq # 0}}

AdmittedGroups(rows) == Admit(Groups(rows), MaxSummaries, MaxCompactionChars)

\* The block for session s over the active rows it can see.
assembleMemoryBlock(active, s) ==
  LET rows == Eligible(active, s) IN
  IF rows = {} THEN NoBlock
  ELSE [notes   |-> AdmittedNotes(rows),
        groups  |-> AdmittedGroups(rows),
        dropped |-> Cardinality(Notes(rows) \ AdmittedNotes(rows))
                    + Cardinality(Groups(rows) \ AdmittedGroups(rows))]
=============================================================================
