----------------------------- MODULE References -----------------------------
(***************************************************************************)
(* dsh-reference (plugins/reference): the reference table, as the settings *)
(* page edits it, and the directories its git entries are cloned into.     *)
(* Whenever the table changes, and when the plugin loads, every git entry  *)
(* is materialized: a job each, which runs at once up to its first git     *)
(* command and goes on whenever that ends.  Nothing orders the jobs of     *)
(* successive changes.                                                     *)
(*                                                                         *)
(* A clone is shallow, hence of one branch: a directory is a checkout of a *)
(* branch, or a part of one, and may carry the marker a pinned clone gets. *)
(* What a fetch brings is left out: a reset that succeeds stays on the     *)
(* branch, for no other was cloned.                                        *)
(***************************************************************************)
EXTENDS Naturals, FiniteSets, Functions

CONSTANTS Aliases,
          Branches, DefaultBranch,
          NoBranch,             \* no pin, no marker
          Entries,              \* entries the page can save
          Tables,               \* tables the plugin may be loaded with
          MaxJobs, MaxEdits, MaxRestarts   \* bounds: jobs at once, saves and
                                           \* removals, crashes of the host

Pins    == Branches \cup {NoBranch}
Refresh == {"always", "missing-only"}
Missing == [kind |-> "none", branch |-> NoBranch, refresh |-> "missing-only"]
Absent  == [state |-> "absent", branch |-> NoBranch, mark |-> NoBranch, by |-> 0]

ASSUME BranchAssumption == DefaultBranch \in Branches /\ NoBranch \notin Branches
ASSUME EntryAssumption == Entries \subseteq [kind: {"local", "git"}, branch: Pins, refresh: Refresh]
ASSUME TableAssumption == Tables \subseteq [Aliases -> Entries \cup {Missing}]
ASSUME BoundAssumption == {MaxJobs, MaxEdits, MaxRestarts} \subseteq Nat

VARIABLES table,     \* table[alias]: its entry, refresh policy resolved, or Missing
          dir,       \* dir[alias]: <cacheDir>/<alias>, and the job cloning into it
          jobs,      \* materializations under way
          saves,     \* the page's saves under way
          edits, restarts

vars == <<table, dir, jobs, saves, edits, restarts>>

Ids == {j.id : j \in jobs}

-----------------------------------------------------------------------------
(* Materialization.                                                        *)

\* storedBranch: only a pinned clone has a marker.
storedBranch(d) == d.mark

\* Mutant of Mismatch: no marker counts as another branch.
MismatchOrUnmarked(entry, d) ==
  entry.refresh = "missing-only" /\ entry.branch # NoBranch /\ storedBranch(d) # entry.branch

\* The branch changed mid-life; without a marker nobody can tell.
Mismatch(entry, d) ==
  /\ entry.refresh = "missing-only" /\ entry.branch # NoBranch
  /\ storedBranch(d) \notin {NoBranch, entry.branch}

\* The git command a job gets to, if any.
FirstCommand(entry, d) ==
  IF d.state = "absent" \/ Mismatch(entry, d) THEN "clone"
  ELSE IF entry.refresh = "always" THEN "fetch" ELSE "none"

\* A checkout of another branch is removed; rm may fail half way, before or after
\* it reaches the marker.
Removed(entry, d) ==
  IF d.state # "absent" /\ Mismatch(entry, d)
  THEN {Absent, d, [d EXCEPT !.state = "partial", !.mark = NoBranch]} ELSE {d}

\* materializeAll: every git entry of the table gets a job, which stops here if
\* there is nothing to run or its removal failed.
materializeAll(entries) ==
  LET git == {a \in Aliases : entries[a].kind = "git"}
      Command(a) == FirstCommand(entries[a], dir[a])
      Running(left) == {a \in git : Command(a) # "none" /\ (Mismatch(entries[a], dir[a]) => left[a] = Absent)}
  IN  \E left \in [Aliases -> UNION {Removed(entries[a], dir[a]) : a \in git} \cup Range(dir)] :
        LET ids == CHOOSE f \in [Running(left) -> (1..MaxJobs) \ Ids] :
                     \A a, b \in Running(left) : f[a] = f[b] => a = b
        IN  /\ \A a \in Aliases : left[a] \in IF a \in git THEN Removed(entries[a], dir[a]) ELSE {dir[a]}
            /\ Cardinality(jobs) + Cardinality(git) <= MaxJobs
            /\ dir' = left
            /\ jobs' = jobs \cup
                 {[id |-> ids[a], alias |-> a, branch |-> entries[a].branch, at |-> Command(a)] :
                                    a \in Running(left)}

End(j) == jobs' = jobs \ {j}
Go(j, step) == jobs' = (jobs \ {j}) \cup {[j EXCEPT !.at = step]}

\* git clone makes its directory, or finds one that is not empty and gives up.
CloneStarts(j) ==
  /\ j.at = "clone"
  /\ IF dir[j.alias].state = "absent"
     THEN Go(j, "cloning") /\ dir' = [dir EXCEPT ![j.alias] = [Absent EXCEPT !.state = "partial", !.by = j.id]]
     ELSE End(j) /\ UNCHANGED dir
  /\ UNCHANGED <<table, saves, edits, restarts>>

\* git removes what a failed clone made.
CloneFails(j) ==
  /\ j.at \in {"clone", "cloning"} /\ End(j)
  /\ dir' = IF j.at = "clone" THEN dir ELSE [dir EXCEPT ![j.alias] = Absent]
  /\ UNCHANGED <<table, saves, edits, restarts>>

CloneSucceeds(j) ==
  LET branch == IF j.branch = NoBranch THEN DefaultBranch ELSE j.branch IN
  /\ j.at = "cloning" /\ Go(j, "cloned")
  /\ dir' = [dir EXCEPT ![j.alias] = [state |-> "whole", branch |-> branch, mark |-> NoBranch, by |-> 0]]
  /\ UNCHANGED <<table, saves, edits, restarts>>

\* Mutant of recordBranch: the table is read again when the clone has ended.
recordBranchNow(j, ok) ==
  /\ j.at = "cloned" /\ End(j)
  /\ dir' = IF ok /\ j.branch # NoBranch /\ dir[j.alias].state # "absent"
            THEN [dir EXCEPT ![j.alias].mark = table[j.alias].branch] ELSE dir
  /\ UNCHANGED <<table, saves, edits, restarts>>

\* recordBranch: a pinned clone is marked, unless the write fails or the directory
\* has gone.
recordBranch(j, ok) ==
  /\ j.at = "cloned" /\ End(j)
  /\ dir' = IF ok /\ j.branch # NoBranch /\ dir[j.alias].state # "absent"
            THEN [dir EXCEPT ![j.alias].mark = j.branch] ELSE dir
  /\ UNCHANGED <<table, saves, edits, restarts>>

\* fetch, then reset --hard to the branch or to HEAD; either may fail.
\* Inside a clone under way they fail, and are taken to leave it as it is.
RefreshEnds(j, ok) ==
  LET target == IF j.branch = NoBranch THEN DefaultBranch ELSE j.branch IN
  /\ j.at \in {"fetch", "reset"}
  /\ ok => /\ dir[j.alias].state = "whole"
           /\ j.at = "reset" => dir[j.alias].branch = target
  /\ IF ok /\ j.at = "fetch" THEN Go(j, "reset") ELSE End(j)
  /\ UNCHANGED <<table, dir, saves, edits, restarts>>

\* A volatile update that leaves the entries alone (another description, say), or
\* the plugin loads again.
Rematerialize ==
  materializeAll(table) /\ UNCHANGED <<table, saves, edits, restarts>>

-----------------------------------------------------------------------------
(* The page.                                                               *)

\* saveDraft: an alias another entry has is refused; then, but for a git draft, the
\* path is probed.  Renaming unsets the previous alias first.  Nothing orders two
\* saves.  toggleAutoInclude, too, is a save, of the entry the row shows.
SaveDraft(alias, entry, prev) ==
  /\ edits < MaxEdits /\ edits' = edits + 1
  /\ table[prev] # Missing \/ prev = alias
  /\ prev # alias => table[alias] = Missing
  /\ saves' = saves \cup
       {[at |-> IF prev = alias THEN "set" ELSE "unset", alias |-> alias, prev |-> prev, entry |-> entry]}
  /\ UNCHANGED <<table, dir, jobs, restarts>>

\* A refused mutation is logged and the save goes on.
Unset(s, accepted) ==
  /\ s.at = "unset" /\ saves' = (saves \ {s}) \cup {[s EXCEPT !.at = "set"]}
  /\ IF accepted
     THEN table' = [table EXCEPT ![s.prev] = Missing] /\ materializeAll(table')
     ELSE UNCHANGED <<table, dir, jobs>>
  /\ UNCHANGED <<edits, restarts>>

Set(s, accepted) ==
  /\ s.at = "set" /\ saves' = saves \ {s}
  /\ IF accepted
     THEN table' = [table EXCEPT ![s.alias] = s.entry] /\ materializeAll(table')
     ELSE UNCHANGED <<table, dir, jobs>>
  /\ UNCHANGED <<edits, restarts>>

\* The transport throws: the rest of the save is dropped.
SaveThrows(s) ==
  /\ saves' = saves \ {s}
  /\ UNCHANGED <<table, dir, jobs, edits, restarts>>

\* removeEntry: the directory stays.
Remove(alias) ==
  /\ edits < MaxEdits /\ edits' = edits + 1
  /\ table[alias] # Missing
  /\ table' = [table EXCEPT ![alias] = Missing]
  /\ materializeAll(table')
  /\ UNCHANGED <<saves, restarts>>

-----------------------------------------------------------------------------
\* The host dies with its jobs: a clone under way stays as it is, cleans up, or is
\* finished by the orphaned git.  It boots and materializes at the next action.
Restart ==
  /\ restarts < MaxRestarts /\ restarts' = restarts + 1
  /\ jobs' = {} /\ saves' = {}
  /\ \E left \in [Aliases -> {"partial", "absent", "whole"}] :
       dir' = [a \in Aliases |->
         IF dir[a].by = 0 THEN dir[a]
         ELSE LET j == CHOOSE k \in jobs : k.id = dir[a].by IN
           CASE left[a] = "partial" -> [dir[a] EXCEPT !.by = 0]
             [] left[a] = "absent"  -> Absent
             [] OTHER -> [state |-> "whole", mark |-> NoBranch, by |-> 0,
                          branch |-> IF j.branch = NoBranch THEN DefaultBranch ELSE j.branch]]
  /\ UNCHANGED <<table, edits>>

\* The plugin loads with the table it finds and an empty cache.
Init ==
  /\ table \in Tables /\ dir = [a \in Aliases |-> Absent]
  /\ jobs = {} /\ saves = {} /\ edits = 0 /\ restarts = 0

JobStep(j) ==
  \/ CloneStarts(j) \/ CloneFails(j) \/ CloneSucceeds(j)
  \/ \E ok \in BOOLEAN : recordBranch(j, ok) \/ RefreshEnds(j, ok)

PageStep ==
  \E s \in saves :
    \/ \E accepted \in BOOLEAN : Unset(s, accepted) \/ Set(s, accepted)
    \/ SaveThrows(s)

Next ==
  \/ \E j \in jobs : JobStep(j)
  \/ \E alias, prev \in Aliases, entry \in Entries : SaveDraft(alias, entry, prev)
  \/ PageStep
  \/ \E alias \in Aliases : Remove(alias)
  \/ Rematerialize
  \/ Restart

\* Git ends every command and now and then succeeds; the page's calls return; the
\* table is materialized again and again, by later saves and loads.
Fairness ==
  /\ \A id \in 1..MaxJobs : WF_vars(\E j \in jobs : j.id = id /\ JobStep(j))
  /\ \A a \in Aliases : /\ SF_vars(\E j \in jobs : j.alias = a /\ CloneStarts(j))
                         /\ SF_vars(\E j \in jobs : j.alias = a /\ CloneSucceeds(j))
  /\ \A a \in Aliases : SF_vars(Rematerialize /\ (Mismatch(table[a], dir[a]) => dir'[a] = Absent))
  /\ WF_vars(PageStep)

Spec == Init /\ [][Next]_vars /\ Fairness

-----------------------------------------------------------------------------
(* Properties.                                                             *)

\* A marker tells the branch of the checkout it lies in, whichever of the jobs on
\* that directory wrote it and whatever was removed, or crashed, in between: later
\* changes of branch are found by it.
MarkIsTruth == \A a \in Aliases : dir[a].mark # NoBranch => dir[a].branch = dir[a].mark

\* A clone under way looks like a clone that is there: nobody but its own job, or
\* a crash, removes or changes it.
OwnClone ==
  [][\A j \in jobs : j.at = "cloning" /\ j \in jobs' => dir'[j.alias] = dir[j.alias]]_vars

\* Once the table rests, every git entry ends up with a directory, and a pinned and
\* marked checkout ends up on its branch, though jobs for earlier pins are still
\* cloning when it is saved, clones fail, removals stop half way and the host
\* crashes in between.
Converges ==
  \A a \in Aliases :
    <>[](table[a].kind = "git" =>
           /\ dir[a].state # "absent"
           /\ (/\ table[a].refresh = "missing-only" /\ table[a].branch # NoBranch
               /\ dir[a].mark # NoBranch) => dir[a].branch = table[a].branch)
=============================================================================
