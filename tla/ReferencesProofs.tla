-------------------------- MODULE ReferencesProofs --------------------------
(***************************************************************************)
(* Proofs about References, for every set of aliases, branches and         *)
(* entries, and every number of jobs, edits and restarts.                  *)
(*                                                                         *)
(* The invariant behind both theorems: at most one job clones into a       *)
(* directory, or has cloned into it and not yet marked it, and until then  *)
(* the directory carries no marker.  A removal needs a marker, and a clone *)
(* an absent directory, so neither meets such a job.                       *)
(***************************************************************************)
EXTENDS References, TLAPS

DirShape(d) == d = [state |-> d.state, branch |-> d.branch, mark |-> d.mark, by |-> d.by]
JobShape(j) == j = [id |-> j.id, alias |-> j.alias, branch |-> j.branch, at |-> j.at]

Shapes ==
  /\ dir = [a \in Aliases |-> dir[a]]
  /\ \A a \in Aliases : DirShape(dir[a])
  /\ \A j \in jobs : JobShape(j) /\ j.alias \in Aliases

Cloning == {"cloning", "cloned"}

\* The directory of a job that clones, or has cloned.
Claimed(j, d) ==
  /\ j.at = "cloning" => d.state = "partial" /\ d.mark = NoBranch
  /\ j.at = "cloned" => /\ d.state = "whole" /\ d.mark = NoBranch
                        /\ d.branch = IF j.branch = NoBranch THEN DefaultBranch ELSE j.branch

Claims == \A j \in jobs : Claimed(j, dir[j.alias])

OneCloner ==
  \A j, k \in jobs : j.at \in Cloning /\ k.at \in Cloning /\ j.alias = k.alias => j = k

IInv == Shapes /\ Claims /\ OneCloner /\ MarkIsTruth

-----------------------------------------------------------------------------
(* Steps.                                                                  *)

\* What materializing does, whatever the table: a directory changes only if it
\* has a marker, and then it is gone, or what is left of it is unmarked; new jobs
\* have not begun to clone.
Materialized ==
  /\ DOMAIN dir' = Aliases
  /\ dir' = [a \in Aliases |-> dir'[a]]
  /\ \A a \in Aliases :
       \/ dir'[a] = dir[a]
       \/ dir[a].mark # NoBranch /\ DirShape(dir'[a]) /\ dir'[a].mark = NoBranch
  /\ jobs \subseteq jobs'
  /\ \A j \in jobs' \ jobs : JobShape(j) /\ j.alias \in Aliases /\ j.at \notin Cloning

LEMMA RemovedShape ==
  ASSUME BranchAssumption, NEW entry, NEW d, DirShape(d), NEW left \in Removed(entry, d)
  PROVE  left = d \/ (d.mark # NoBranch /\ DirShape(left) /\ left.mark = NoBranch)
<1>1. CASE Mismatch(entry, d)
  <2>1. d.mark # NoBranch
    BY <1>1 DEF Mismatch, storedBranch
  <2>2. DirShape(Absent) /\ Absent.mark = NoBranch
    BY DEF Absent, DirShape
  <2> DEFINE part == [d EXCEPT !.state = "partial", !.mark = NoBranch]
  <2>3. /\ d \in [state: {d.state}, branch: {d.branch}, mark: {d.mark}, by: {d.by}]
        /\ part \in [state: {"partial"}, branch: {d.branch}, mark: {NoBranch}, by: {d.by}]
    <3>1. d \in [state: {d.state}, branch: {d.branch}, mark: {d.mark}, by: {d.by}]
      BY DEF DirShape
    <3> QED BY <3>1
  <2>4. DirShape(part) /\ part.mark = NoBranch
    <3>1. PICK e : e = part
      OBVIOUS
    <3>2. e \in [state: {"partial"}, branch: {d.branch}, mark: {NoBranch}, by: {d.by}]
      BY <2>3, <3>1
    <3>3. DirShape(e) /\ e.mark = NoBranch
      BY <3>2 DEF DirShape
    <3> QED BY <3>1, <3>3
  <2>5. left \in {Absent, d, part}
    BY DEF Removed
  <2> QED BY <2>1, <2>2, <2>4, <2>5
<1>2. CASE ~Mismatch(entry, d)
  BY <1>2 DEF Removed
<1> QED BY <1>1, <1>2

LEMMA MaterializeShape ==
  ASSUME Shapes, NEW ACTION entries, materializeAll(entries)
  PROVE  Materialized
<1> DEFINE git == {a \in Aliases : entries[a].kind = "git"}
           Command(a) == FirstCommand(entries[a], dir[a])
           Running(left) == {a \in git : Command(a) # "none"
                                         /\ (Mismatch(entries[a], dir[a]) => left[a] = Absent)}
           Begun(ids, a) == [id |-> ids[a], alias |-> a, branch |-> entries[a].branch, at |-> Command(a)]
<1>1. PICK left \in [Aliases -> UNION {Removed(entries[a], dir[a]) : a \in git} \cup Range(dir)] :
        LET ids == CHOOSE f \in [Running(left) -> (1..MaxJobs) \ Ids] :
                     \A a, b \in Running(left) : f[a] = f[b] => a = b
        IN  /\ \A a \in Aliases : left[a] \in IF a \in git THEN Removed(entries[a], dir[a]) ELSE {dir[a]}
            /\ dir' = left
            /\ jobs' = jobs \cup {Begun(ids, a) : a \in Running(left)}
  BY DEF materializeAll
<1> DEFINE ids == CHOOSE f \in [Running(left) -> (1..MaxJobs) \ Ids] :
                    \A a, b \in Running(left) : f[a] = f[b] => a = b
<1>2. /\ \A a \in Aliases : left[a] \in IF a \in git THEN Removed(entries[a], dir[a]) ELSE {dir[a]}
      /\ dir' = left
      /\ jobs' = jobs \cup {Begun(ids, a) : a \in Running(left)}
  BY <1>1
<1> HIDE DEF ids
<1>3. DOMAIN dir' = Aliases /\ dir' = [a \in Aliases |-> dir'[a]]
  BY <1>2
<1>4. ASSUME NEW a \in Aliases
      PROVE  \/ dir'[a] = dir[a]
             \/ dir[a].mark # NoBranch /\ DirShape(dir'[a]) /\ dir'[a].mark = NoBranch
  <2>1. DirShape(dir[a])
    BY DEF Shapes
  <2>2. CASE a \in git
    <3>1. dir'[a] \in Removed(entries[a], dir[a])
      BY <1>2, <2>2
    <3> QED BY <2>1, <3>1, RemovedShape, BranchAssumption
  <2>3. CASE a \notin git
    BY <1>2, <2>3
  <2> QED BY <2>2, <2>3
<1>5. ASSUME NEW j \in jobs' \ jobs
      PROVE  JobShape(j) /\ j.alias \in Aliases /\ j.at \notin Cloning
  <2>1. PICK a \in Running(left) : j = Begun(ids, a)
    BY <1>2, <1>5
  <2>2. a \in Aliases /\ j.alias = a /\ j.at = Command(a) /\ JobShape(j)
    BY <2>1 DEF JobShape
  <2>3. Command(a) \in {"clone", "fetch", "none"}
    BY DEF FirstCommand
  <2> QED BY <2>2, <2>3 DEF Cloning
<1> QED BY <1>2, <1>3, <1>4, <1>5 DEF Materialized

LEMMA MaterializedStep ==
  ASSUME IInv, Materialized
  PROVE  IInv'
<1>1. Shapes'
  BY DEF IInv, Shapes, Materialized
<1>2. ASSUME NEW j \in jobs' PROVE Claimed(j, dir'[j.alias])
  <2>1. CASE j \in jobs
    <3>1. j.alias \in Aliases /\ Claimed(j, dir[j.alias])
      BY <2>1 DEF IInv, Shapes, Claims
    <3>2. CASE dir'[j.alias] = dir[j.alias]
      BY <3>1, <3>2
    <3>3. CASE dir'[j.alias] # dir[j.alias]
      BY <3>1, <3>3 DEF Materialized, Claimed
    <3> QED BY <3>2, <3>3
  <2>2. CASE j \notin jobs
    BY <2>2 DEF Materialized, Claimed, Cloning
  <2> QED BY <2>1, <2>2
<1>3. OneCloner'
  BY DEF IInv, OneCloner, Materialized
<1>4. MarkIsTruth'
  BY DEF IInv, MarkIsTruth, Materialized
<1> QED BY <1>1, <1>2, <1>3, <1>4 DEF IInv, Claims

\* A job goes on, or ends, and gives its directory at most another shape, which
\* its own claim and the marker allow; no other job claims that directory, unless
\* this one leaves it as it is.
LEMMA WorkStep ==
  ASSUME IInv, NEW j \in jobs, NEW d, DirShape(d), dir' = [dir EXCEPT ![j.alias] = d],
         NEW step, jobs' = jobs \ {j} \/ jobs' = (jobs \ {j}) \cup {[j EXCEPT !.at = step]},
         step \in Cloning => Claimed([j EXCEPT !.at = step], d) \/ jobs' = jobs \ {j},
         d.mark # NoBranch => d.branch = d.mark,
         d = dir[j.alias] \/ \A k \in jobs \ {j} : k.at \in Cloning => k.alias # j.alias,
         step \in Cloning => (\A k \in jobs \ {j} : k.at \in Cloning => k.alias # j.alias)
                             \/ jobs' = jobs \ {j}
  PROVE  IInv'
<1> DEFINE next == [j EXCEPT !.at = step]
<1>1. JobShape(j) /\ j.alias \in Aliases /\ \A k \in jobs : JobShape(k) /\ k.alias \in Aliases
  BY DEF IInv, Shapes
<1>2. next = [id |-> j.id, alias |-> j.alias, branch |-> j.branch, at |-> step]
  BY <1>1 DEF JobShape
<1>3. JobShape(next) /\ next.alias = j.alias /\ next.at = step /\ next.branch = j.branch
  BY <1>2 DEF JobShape
<1>4. /\ dir' = [a \in Aliases |-> dir'[a]] /\ dir'[j.alias] = d
      /\ \A a \in Aliases \ {j.alias} : dir'[a] = dir[a]
  BY <1>1 DEF IInv, Shapes
<1>5. \A k \in jobs' : k \in jobs \ {j} \/ (k = next /\ jobs' # jobs \ {j})
  BY <1>1
<1>6. Shapes'
  BY <1>1, <1>3, <1>4, <1>5 DEF IInv, Shapes
<1>7. ASSUME NEW k \in jobs' PROVE Claimed(k, dir'[k.alias])
  <2>1. CASE k \in jobs \ {j}
    <3>1. Claimed(k, dir[k.alias]) /\ k.alias \in Aliases
      BY <1>1, <2>1 DEF IInv, Claims
    <3>2. CASE k.at \notin Cloning
      BY <3>2 DEF Claimed, Cloning
    <3>3. CASE k.at \in Cloning
      <4>1. dir'[k.alias] = dir[k.alias]
        BY <1>1, <1>4, <2>1, <3>1, <3>3
      <4> QED BY <3>1, <4>1
    <3> QED BY <3>2, <3>3
  <2>2. CASE k = next /\ jobs' # jobs \ {j}
    <3>1. CASE step \in Cloning
      BY <1>3, <1>4, <2>2, <3>1
    <3>2. CASE step \notin Cloning
      BY <1>3, <2>2, <3>2 DEF Claimed, Cloning
    <3> QED BY <3>1, <3>2
  <2> QED BY <1>5, <2>1, <2>2
<1>8. OneCloner'
  <2> SUFFICES ASSUME NEW k \in jobs', NEW l \in jobs',
                      k.at \in Cloning, l.at \in Cloning, k.alias = l.alias
               PROVE  k = l
    BY DEF OneCloner
  <2>1. CASE k \in jobs \ {j} /\ l \in jobs \ {j}
    BY <2>1 DEF IInv, OneCloner
  <2>2. CASE k = next /\ l = next
    BY <2>2
  <2>3. CASE ((k = next /\ l \in jobs \ {j}) \/ (l = next /\ k \in jobs \ {j})) /\ jobs' # jobs \ {j}
    BY <1>3, <2>3
  <2>4. /\ k \in jobs \ {j} \/ (k = next /\ jobs' # jobs \ {j})
        /\ l \in jobs \ {j} \/ (l = next /\ jobs' # jobs \ {j})
    BY <1>5
  <2> QED BY <2>1, <2>2, <2>3, <2>4
<1>9. MarkIsTruth'
  BY <1>1, <1>4 DEF IInv, MarkIsTruth
<1> QED BY <1>6, <1>7, <1>8, <1>9 DEF IInv, Claims

\* What holds of a job and the directory it works on.
LEMMA AtWork ==
  ASSUME IInv, NEW j \in jobs
  PROVE  /\ j.alias \in Aliases /\ JobShape(j) /\ DirShape(dir[j.alias])
         /\ Claimed(j, dir[j.alias])
         /\ dir[j.alias].mark # NoBranch => dir[j.alias].branch = dir[j.alias].mark
         /\ dir = [dir EXCEPT ![j.alias] = dir[j.alias]]
         /\ j.at \in Cloning => \A k \in jobs \ {j} : k.at \in Cloning => k.alias # j.alias
<1>1. j.alias \in Aliases /\ JobShape(j)
  BY DEF IInv, Shapes
<1>2. Claimed(j, dir[j.alias])
  BY DEF IInv, Claims
<1>3. dir[j.alias].mark # NoBranch => dir[j.alias].branch = dir[j.alias].mark
  BY <1>1 DEF IInv, MarkIsTruth
<1>4. DirShape(dir[j.alias]) /\ dir = [dir EXCEPT ![j.alias] = dir[j.alias]]
  BY <1>1 DEF IInv, Shapes
<1>5. j.at \in Cloning => \A k \in jobs \ {j} : k.at \in Cloning => k.alias # j.alias
  BY DEF IInv, OneCloner
<1> QED BY <1>1, <1>2, <1>3, <1>4, <1>5

LEMMA ShapeOf ==
  ASSUME NEW s, NEW b, NEW m, NEW y, NEW d \in [state: {s}, branch: {b}, mark: {m}, by: {y}]
  PROVE  DirShape(d) /\ d.state = s /\ d.branch = b /\ d.mark = m
BY DEF DirShape

LEMMA InShape ==
  ASSUME NEW d, DirShape(d)
  PROVE  d \in [state: {d.state}, branch: {d.branch}, mark: {d.mark}, by: {d.by}]
BY DEF DirShape

\* A job that ends.
LEMMA EndStep ==
  ASSUME IInv, NEW j \in jobs, jobs' = jobs \ {j},
         NEW d, DirShape(d), dir' = [dir EXCEPT ![j.alias] = d],
         d.mark # NoBranch => d.branch = d.mark,
         d = dir[j.alias] \/ j.at \in Cloning
  PROVE  IInv'
<1>1. "ended" \notin Cloning
  BY DEF Cloning
<1>2. d = dir[j.alias] \/ \A k \in jobs \ {j} : k.at \in Cloning => k.alias # j.alias
  BY AtWork
<1> QED BY <1>1, <1>2, WorkStep

LEMMA CloneStartsStep ==
  ASSUME IInv, NEW j \in jobs, CloneStarts(j)
  PROVE  IInv'
<1> DEFINE d == [Absent EXCEPT !.state = "partial", !.by = j.id]
<1>1. CASE dir[j.alias].state = "absent"
  <2>1. jobs' = (jobs \ {j}) \cup {[j EXCEPT !.at = "cloning"]} /\ dir' = [dir EXCEPT ![j.alias] = d]
    BY <1>1 DEF CloneStarts, Go
  <2>2. d \in [state: {"partial"}, branch: {NoBranch}, mark: {NoBranch}, by: {j.id}]
    BY DEF Absent
  <2> HIDE DEF d
  <2>3. DirShape(d) /\ d.mark = NoBranch /\ d.state = "partial"
    BY <2>2, ShapeOf
  <2>4. [j EXCEPT !.at = "cloning"].at = "cloning"
    BY AtWork DEF JobShape
  <2>5. Claimed([j EXCEPT !.at = "cloning"], d)
    BY <2>3, <2>4 DEF Claimed
  <2>6. \A k \in jobs \ {j} : k.at \in Cloning => k.alias # j.alias
    <3> SUFFICES ASSUME NEW k \in jobs, k.at \in Cloning, k.alias = j.alias PROVE FALSE
      OBVIOUS
    <3>1. Claimed(k, dir[j.alias])
      BY AtWork
    <3> QED BY <1>1, <3>1 DEF Claimed, Cloning
  <2> QED BY <2>1, <2>3, <2>5, <2>6, WorkStep
<1>2. CASE dir[j.alias].state # "absent"
  <2>1. jobs' = jobs \ {j} /\ dir' = [dir EXCEPT ![j.alias] = dir[j.alias]]
    BY <1>2, AtWork DEF CloneStarts, End
  <2> QED BY <2>1, AtWork, EndStep
<1> QED BY <1>1, <1>2

LEMMA CloneFailsStep ==
  ASSUME IInv, NEW j \in jobs, CloneFails(j)
  PROVE  IInv'
<1>1. jobs' = jobs \ {j}
  BY DEF CloneFails, End
<1>2. CASE j.at = "clone"
  <2>1. dir' = [dir EXCEPT ![j.alias] = dir[j.alias]]
    BY <1>2, AtWork DEF CloneFails
  <2> QED BY <1>1, <2>1, AtWork, EndStep
<1>3. CASE j.at = "cloning"
  <2>1. dir' = [dir EXCEPT ![j.alias] = Absent]
    BY <1>3 DEF CloneFails
  <2>2. DirShape(Absent) /\ Absent.mark = NoBranch
    BY DEF Absent, DirShape
  <2> QED BY <1>1, <1>3, <2>1, <2>2, EndStep DEF Cloning
<1> QED BY <1>2, <1>3 DEF CloneFails

LEMMA CloneSucceedsStep ==
  ASSUME IInv, NEW j \in jobs, CloneSucceeds(j)
  PROVE  IInv'
<1> DEFINE branch == IF j.branch = NoBranch THEN DefaultBranch ELSE j.branch
           d == [state |-> "whole", branch |-> branch, mark |-> NoBranch, by |-> 0]
           next == [j EXCEPT !.at = "cloned"]
<1>1. /\ j.at = "cloning" /\ jobs' = (jobs \ {j}) \cup {next}
      /\ dir' = [dir EXCEPT ![j.alias] = d]
  BY DEF CloneSucceeds, Go
<1>2. DirShape(d) /\ d.mark = NoBranch /\ d.state = "whole" /\ d.branch = branch
  BY DEF DirShape
<1>3. next.at = "cloned" /\ next.branch = j.branch
  BY AtWork DEF JobShape
<1> HIDE DEF d
<1>4. Claimed(next, d)
  BY <1>2, <1>3 DEF Claimed
<1>5. \A k \in jobs \ {j} : k.at \in Cloning => k.alias # j.alias
  BY <1>1, AtWork DEF Cloning
<1> QED BY <1>1, <1>2, <1>4, <1>5, WorkStep

LEMMA RecordStep ==
  ASSUME IInv, NEW j \in jobs, NEW ok \in BOOLEAN, recordBranch(j, ok)
  PROVE  IInv'
<1> DEFINE old == dir[j.alias]
<1>1. j.at = "cloned" /\ jobs' = jobs \ {j}
  BY DEF recordBranch, End
<1>2. CASE ok /\ j.branch # NoBranch /\ old.state # "absent"
  <2> DEFINE d == [old EXCEPT !.mark = j.branch]
  <2>1. dir' = [dir EXCEPT ![j.alias] = d]
    BY <1>2, AtWork DEF recordBranch, IInv, Shapes
  <2>2. d \in [state: {old.state}, branch: {old.branch}, mark: {j.branch}, by: {old.by}]
    BY AtWork, InShape
  <2>3. DirShape(d) /\ d.mark = j.branch /\ d.branch = old.branch
    BY <2>2, ShapeOf
  <2>4. old.branch = j.branch
    BY <1>1, <1>2, AtWork DEF Claimed
  <2> HIDE DEF d
  <2> QED BY <1>1, <2>1, <2>3, <2>4, EndStep DEF Cloning
<1>3. CASE ~(ok /\ j.branch # NoBranch /\ old.state # "absent")
  <2>1. dir' = [dir EXCEPT ![j.alias] = dir[j.alias]]
    BY <1>3, AtWork DEF recordBranch
  <2> QED BY <1>1, <2>1, AtWork, EndStep
<1> QED BY <1>2, <1>3

LEMMA RefreshStep ==
  ASSUME IInv, NEW j \in jobs, NEW ok \in BOOLEAN, RefreshEnds(j, ok)
  PROVE  IInv'
<1>1. dir' = [dir EXCEPT ![j.alias] = dir[j.alias]]
  BY AtWork DEF RefreshEnds
<1>2. jobs' = jobs \ {j} \/ jobs' = (jobs \ {j}) \cup {[j EXCEPT !.at = "reset"]}
  BY DEF RefreshEnds, End, Go
<1>3. "reset" \notin Cloning
  BY DEF Cloning
<1>4. CASE jobs' = jobs \ {j}
  BY <1>1, <1>4, AtWork, EndStep
<1>5. CASE jobs' = (jobs \ {j}) \cup {[j EXCEPT !.at = "reset"]}
  <2>1. PICK d, step : d = dir[j.alias] /\ step = "reset"
    OBVIOUS
  <2>2. DirShape(d) /\ (d.mark # NoBranch => d.branch = d.mark) /\ dir' = [dir EXCEPT ![j.alias] = d]
    BY <1>1, <2>1, AtWork
  <2>3. jobs' = (jobs \ {j}) \cup {[j EXCEPT !.at = step]} /\ step \notin Cloning
    BY <1>3, <1>5, <2>1
  <2> QED BY <2>1, <2>2, <2>3, WorkStep
<1> QED BY <1>2, <1>4, <1>5

LEMMA JobSteps ==
  ASSUME IInv, NEW j \in jobs, JobStep(j)
  PROVE  IInv'
BY CloneStartsStep, CloneFailsStep, CloneSucceedsStep, RecordStep, RefreshStep DEF JobStep

LEMMA Quiet ==
  ASSUME IInv, UNCHANGED <<dir, jobs>>
  PROVE  IInv'
BY DEF IInv, Shapes, Claims, OneCloner, MarkIsTruth

LEMMA RestartStep ==
  ASSUME IInv, Restart
  PROVE  IInv'
<1> DEFINE K(a) == CHOOSE k \in jobs : k.id = dir[a].by
           branch(a) == IF K(a).branch = NoBranch THEN DefaultBranch ELSE K(a).branch
           whole(a) == [state |-> "whole", mark |-> NoBranch, by |-> 0, branch |-> branch(a)]
<1>1. PICK left \in [Aliases -> {"partial", "absent", "whole"}] :
        dir' = [a \in Aliases |->
          IF dir[a].by = 0 THEN dir[a]
          ELSE CASE left[a] = "partial" -> [dir[a] EXCEPT !.by = 0]
                 [] left[a] = "absent" -> Absent
                 [] OTHER -> whole(a)]
  BY DEF Restart
<1>2. jobs' = {}
  BY DEF Restart
<1>3. ASSUME NEW a \in Aliases
      PROVE  DirShape(dir'[a]) /\ (dir'[a].mark # NoBranch => dir'[a].branch = dir'[a].mark)
  <2>1. DirShape(dir[a]) /\ (dir[a].mark # NoBranch => dir[a].branch = dir[a].mark)
    BY DEF IInv, Shapes, MarkIsTruth
  <2>2. CASE dir'[a] = dir[a]
    BY <2>1, <2>2
  <2>3. CASE dir'[a] = [dir[a] EXCEPT !.by = 0]
    <3> DEFINE d == [dir[a] EXCEPT !.by = 0]
    <3>1. d \in [state: {dir[a].state}, branch: {dir[a].branch}, mark: {dir[a].mark}, by: {0}]
      BY <2>1, InShape
    <3> HIDE DEF d
    <3>2. DirShape(d) /\ d.branch = dir[a].branch /\ d.mark = dir[a].mark
      BY <3>1, ShapeOf
    <3> QED BY <2>1, <2>3, <3>2 DEF d
  <2>4. CASE dir'[a] = Absent
    BY <2>4 DEF Absent, DirShape
  <2>5. CASE dir'[a] = whole(a)
    BY <2>5 DEF DirShape
  <2>6. \/ dir'[a] = dir[a] \/ dir'[a] = [dir[a] EXCEPT !.by = 0]
        \/ dir'[a] = Absent \/ dir'[a] = whole(a)
    BY <1>1
  <2> QED BY <2>2, <2>3, <2>4, <2>5, <2>6
<1>4. dir' = [a \in Aliases |-> dir'[a]]
  BY <1>1
<1> QED BY <1>2, <1>3, <1>4 DEF IInv, Shapes, Claims, OneCloner, MarkIsTruth

\* The table an update leaves, whatever it is.
LEMMA MaterializeSteps ==
  ASSUME IInv,
         \/ Rematerialize
         \/ \E s \in saves, accepted \in BOOLEAN : Unset(s, accepted) \/ Set(s, accepted)
         \/ \E alias \in Aliases : Remove(alias)
  PROVE  Materialized \/ UNCHANGED <<dir, jobs>>
<1>1. Shapes
  BY DEF IInv
<1>2. CASE Rematerialize
  BY <1>1, <1>2, MaterializeShape DEF Rematerialize
<1>3. (\E s \in saves, accepted \in BOOLEAN : Unset(s, accepted) \/ Set(s, accepted))
        => materializeAll(table') \/ UNCHANGED <<dir, jobs>>
  BY DEF Unset, Set
<1>4. (\E alias \in Aliases : Remove(alias)) => materializeAll(table')
  BY DEF Remove
<1>5. materializeAll(table') => Materialized
  BY <1>1, MaterializeShape
<1> QED BY <1>2, <1>3, <1>4, <1>5

Edits ==
  \/ Rematerialize
  \/ \E s \in saves, accepted \in BOOLEAN : Unset(s, accepted) \/ Set(s, accepted)
  \/ \E alias \in Aliases : Remove(alias)

Idles ==
  \/ \E s \in saves : SaveThrows(s)
  \/ \E alias, prev \in Aliases, entry \in Entries : SaveDraft(alias, entry, prev)

LEMMA Split ==
  ASSUME Next
  PROVE  (\E j \in jobs : JobStep(j)) \/ Edits \/ UNCHANGED <<dir, jobs>> \/ Restart
<1>1. Idles => UNCHANGED <<dir, jobs>>
  BY DEF Idles, SaveThrows, SaveDraft
<1>2. (\E j \in jobs : JobStep(j)) \/ Edits \/ Idles \/ Restart
  BY DEF Next, PageStep, Edits, Idles
<1> QED BY <1>1, <1>2

LEMMA Invariance == Spec => []IInv
<1>1. Init => IInv
  <2> SUFFICES ASSUME Init PROVE IInv
    OBVIOUS
  <2>1. jobs = {} /\ dir = [a \in Aliases |-> Absent]
    BY DEF Init
  <2>2. DirShape(Absent) /\ Absent.mark = NoBranch
    BY DEF Absent, DirShape
  <2> QED BY <2>1, <2>2 DEF IInv, Shapes, Claims, OneCloner, MarkIsTruth
<1>2. IInv /\ [Next]_vars => IInv'
  <2> SUFFICES ASSUME IInv, [Next]_vars PROVE IInv'
    OBVIOUS
  <2>1. CASE \E j \in jobs : JobStep(j)
    BY <2>1, JobSteps
  <2>2. CASE Edits
    BY <2>2, MaterializeSteps, MaterializedStep, Quiet DEF Edits
  <2>3. CASE UNCHANGED <<dir, jobs>>
    BY <2>3, Quiet
  <2>4. CASE Restart
    BY <2>4, RestartStep
  <2>5. CASE UNCHANGED vars
    BY <2>5, Quiet DEF vars
  <2> QED BY <2>1, <2>2, <2>3, <2>4, <2>5, Split
<1> QED BY <1>1, <1>2, PTL DEF Spec

\* A marker names the branch its directory is a checkout of, whichever job wrote
\* it: a pin that changed is told from it (pure.ts:389-456, index.ts:223-262).
THEOREM MarkersTell == Spec => []MarkIsTruth
<1>1. IInv => MarkIsTruth
  BY DEF IInv
<1> QED BY <1>1, Invariance, PTL

\* Nobody touches the directory a job clones into but that job
\* (pure.ts:389-456).
THEOREM ClonesAreOwned == Spec => OwnClone
<1> DEFINE Left == \A j \in jobs : j.at = "cloning" /\ j \in jobs' => dir'[j.alias] = dir[j.alias]
<1>1. IInv /\ [Next]_vars => [Left]_vars
  <2> SUFFICES ASSUME IInv, Next, NEW j \in jobs, j.at = "cloning", j \in jobs'
               PROVE  dir'[j.alias] = dir[j.alias]
    OBVIOUS
  <2>1. /\ j.alias \in Aliases /\ dir[j.alias].mark = NoBranch /\ dir[j.alias].state = "partial"
        /\ \A k \in jobs \ {j} : k.at \in Cloning => k.alias # j.alias
    BY AtWork DEF Claimed, Cloning
  <2>2. ASSUME NEW k \in jobs, JobStep(k) PROVE dir'[j.alias] = dir[j.alias]
    <3>1. CASE CloneStarts(k)
      <4>1. dir' = dir \/ (k.alias # j.alias /\ \E d : dir' = [dir EXCEPT ![k.alias] = d])
        BY <2>1, <3>1 DEF CloneStarts
      <4> QED BY <2>1, <4>1 DEF IInv, Shapes
    <3>2. CASE k.at \in Cloning
      <4>1. dir' = dir \/ \E d : dir' = [dir EXCEPT ![k.alias] = d]
        <5>1. recordBranch(k, TRUE) \/ recordBranch(k, FALSE) =>
                dir' = dir \/ \E d : dir' = [dir EXCEPT ![k.alias] = d]
          BY DEF recordBranch
        <5> QED BY <2>2, <3>2, <5>1 DEF JobStep, CloneStarts, CloneFails, CloneSucceeds, RefreshEnds, Cloning
      <4>2. CASE k # j
        BY <2>1, <3>2, <4>1, <4>2 DEF IInv, Shapes
      <4>3. CASE k = j
        <5>1. jobs' = jobs \ {j} \/ jobs' = (jobs \ {j}) \cup {[j EXCEPT !.at = "cloned"]}
          BY <2>2, <4>3 DEF JobStep, CloneStarts, CloneFails, CloneSucceeds, recordBranch, RefreshEnds, End, Go
        <5>2. [j EXCEPT !.at = "cloned"] # j
          BY AtWork DEF JobShape
        <5> QED BY <5>1, <5>2
      <4> QED BY <4>2, <4>3
    <3>3. CASE ~CloneStarts(k) /\ k.at \notin Cloning
      BY <2>2, <3>3 DEF JobStep, CloneFails, CloneSucceeds, recordBranch, RefreshEnds, Cloning
    <3> QED BY <3>1, <3>2, <3>3
  <2>3. CASE Edits
    BY <2>1, <2>3, MaterializeSteps DEF Edits, Materialized
  <2>4. CASE Restart
    BY <2>4 DEF Restart
  <2> QED BY <2>2, <2>3, <2>4, Split
<1> QED BY <1>1, Invariance, PTL DEF Spec, OwnClone
=============================================================================
