---------------------------- MODULE MemoryProofs ----------------------------
(***************************************************************************)
(* Proofs about Memory, for every set of sessions and processes, every     *)
(* placement of sessions and every budget.                                 *)
(*                                                                         *)
(* A session has one memory row on its surface, and none while a pre-step  *)
(* waits to append one: the plan was an append, and nothing but the step   *)
(* itself surfaces such a row meanwhile.  A refresh is armed only for a    *)
(* session the plugin owes something, and never while it waits.            *)
(*                                                                         *)
(* While a row shows something that is owed, the refresh is armed, or was  *)
(* lost (PaidInv).  The table needs an invariant of its own, TInv:         *)
(* every row is a note or a segment of a checkpoint in its session's log,  *)
(* a harvest under way belongs to a checkpoint in the log, a stored group  *)
(* is one whole splitting of it, what a harvest is about to mark is of     *)
(* whole groups, and a newer group of a session has marked the ones it     *)
(* replaces, or has found them and is about to mark them.                  *)
(***************************************************************************)
EXTENDS Memory, FiniteSetTheorems, TLAPS

LogInv(s) ==
  /\ log[s] \in Seq(ToSet(log[s]))
  /\ surface[s] \in Seq(1..Len(log[s]))

\* One row, and none while one is on its way.
RowInv(s) ==
  /\ \A p, q \in MemoryRows(s) : p = q
  /\ step[s] # NoRow => MemoryRows(s) = {}

FlagInv(s) == s \in pending => owed[s] # {} /\ step[s] = NoRow

IInv ==
  /\ DOMAIN log = Sessions /\ DOMAIN surface = Sessions
  /\ DOMAIN step = Sessions /\ DOMAIN owed = Sessions
  /\ \A s \in Sessions : LogInv(s) /\ RowInv(s) /\ FlagInv(s)

-----------------------------------------------------------------------------
(* What a step does to a session's log and surface.                        *)

LEMMA AppendSeq ==
  ASSUME NEW q, q \in Seq(ToSet(q)), NEW e
  PROVE  /\ Append(q, e) \in Seq(ToSet(Append(q, e)))
         /\ Len(Append(q, e)) = Len(q) + 1
         /\ \A i \in 1..Len(q) : Append(q, e)[i] = q[i]
         /\ Append(q, e)[Len(q) + 1] = e
<1>1. /\ Append(q, e) \in Seq(ToSet(q) \cup {e})
      /\ Len(Append(q, e)) = Len(q) + 1
      /\ \A i \in 1..Len(q) : Append(q, e)[i] = q[i]
      /\ Append(q, e)[Len(q) + 1] = e
  OBVIOUS
<1> DEFINE r == Append(q, e)
           S == ToSet(q) \cup {e}
<1>2. r \in Seq(ToSet(r))
  <2>1. r \in Seq(S)
    BY <1>1
  <2> HIDE DEF r, S
  <2>2. Len(r) \in Nat /\ DOMAIN r = 1..Len(r) /\ r \in [1..Len(r) -> S]
    BY <2>1
  <2>3. r \in [1..Len(r) -> ToSet(r)]
    BY <2>2 DEF ToSet
  <2> QED BY <2>2, <2>3
<1> QED BY <1>1, <1>2

\* A row appended at the tail of the surface.
LEMMA AppendKeeps ==
  ASSUME NEW s \in Sessions, LogInv(s), DOMAIN log = Sessions, DOMAIN surface = Sessions,
         NEW e, AppendRow(s, e)
  PROVE  /\ LogInv(s)'
         /\ MemoryRows(s)' = MemoryRows(s) \cup (IF e.type = "memory" THEN {Len(surface[s]) + 1} ELSE {})
         /\ \A p \in MemoryRows(s) : log'[s][surface'[s][p]] = log[s][surface[s][p]]
<1>1. log'[s] = Append(log[s], e) /\ surface'[s] = Append(surface[s], Len(log[s]) + 1)
  BY DEF AppendRow
<1>2. log[s] \in Seq(ToSet(log[s])) /\ surface[s] \in Seq(1..Len(log[s])) /\ Len(log[s]) \in Nat
  BY DEF LogInv
<1>3. /\ log'[s] \in Seq(ToSet(log'[s]))
      /\ Len(log'[s]) = Len(log[s]) + 1
      /\ \A i \in 1..Len(log[s]) : log'[s][i] = log[s][i]
      /\ log'[s][Len(log[s]) + 1] = e
  BY <1>1, <1>2, AppendSeq
<1>4. surface'[s] \in Seq(1..Len(log'[s])) /\ Len(surface'[s]) = Len(surface[s]) + 1
  BY <1>1, <1>2, <1>3
<1>5. ASSUME NEW p \in 1..Len(surface[s])
      PROVE  surface'[s][p] = surface[s][p] /\ surface[s][p] \in 1..Len(log[s])
  <2> DEFINE q == surface[s]
             T == 1..Len(log[s])
  <2>1. q \in Seq(T) /\ p \in 1..Len(q) /\ surface'[s] = Append(q, Len(log[s]) + 1)
    BY <1>1, <1>2
  <2> HIDE DEF q, T
  <2>2. q[p] \in T /\ Append(q, Len(log[s]) + 1)[p] = q[p]
    BY <2>1
  <2> QED BY <2>1, <2>2 DEF q, T
<1>6. surface'[s][Len(surface[s]) + 1] = Len(log[s]) + 1 /\ Len(surface[s]) \in Nat
  BY <1>1, <1>2
<1>7. DOMAIN surface'[s] = 1..(Len(surface[s]) + 1) /\ DOMAIN surface[s] = 1..Len(surface[s])
  BY <1>2, <1>4
<1>8. MemoryRows(s)' = MemoryRows(s) \cup (IF e.type = "memory" THEN {Len(surface[s]) + 1} ELSE {})
  BY <1>3, <1>5, <1>6, <1>7 DEF MemoryRows
<1>9. \A p \in MemoryRows(s) : log'[s][surface'[s][p]] = log[s][surface[s][p]]
  BY <1>3, <1>5, <1>7 DEF MemoryRows
<1> QED BY <1>3, <1>4, <1>8, <1>9 DEF LogInv

\* The memory row replaced in place.
LEMMA ReplaceKeeps ==
  ASSUME NEW s \in Sessions, LogInv(s), DOMAIN log = Sessions, DOMAIN surface = Sessions,
         NEW i \in findLastMemoryRow(s), NEW e, ReplaceRow(s, i, e)
  PROVE  LogInv(s)' /\ MemoryRows(s)' \subseteq MemoryRows(s)
<1>1. /\ log'[s] = Append(log[s], e)
      /\ surface'[s] = [p \in DOMAIN surface[s] |-> IF surface[s][p] = i THEN Len(log[s]) + 1 ELSE surface[s][p]]
  BY DEF ReplaceRow
<1>2. log[s] \in Seq(ToSet(log[s])) /\ surface[s] \in Seq(1..Len(log[s])) /\ Len(log[s]) \in Nat
  BY DEF LogInv
<1>3. /\ log'[s] \in Seq(ToSet(log'[s]))
      /\ Len(log'[s]) = Len(log[s]) + 1
      /\ \A j \in 1..Len(log[s]) : log'[s][j] = log[s][j]
  BY <1>1, <1>2, AppendSeq
<1>4. DOMAIN surface[s] = 1..Len(surface[s]) /\ Len(surface[s]) \in Nat
      /\ \A p \in DOMAIN surface[s] : surface[s][p] \in 1..Len(log[s])
  BY <1>2
<1>5. surface'[s] \in [1..Len(surface[s]) -> 1..Len(log'[s])]
  BY <1>1, <1>2, <1>3, <1>4
<1>6. surface'[s] \in Seq(1..Len(log'[s]))
  BY <1>4, <1>5
<1>7. log[s][i].type = "memory"
  BY DEF findLastMemoryRow, MemoryRows
<1>8. MemoryRows(s)' \subseteq MemoryRows(s)
  <2>1. ASSUME NEW p \in MemoryRows(s)' PROVE p \in MemoryRows(s)
    <3>1. p \in DOMAIN surface[s] /\ log'[s][surface'[s][p]].type = "memory"
      BY <1>4, <1>5, <2>1 DEF MemoryRows
    <3>2. CASE surface[s][p] = i
      BY <1>7, <3>1, <3>2 DEF MemoryRows
    <3>3. CASE surface[s][p] # i
      <4>1. surface'[s][p] = surface[s][p] /\ surface[s][p] \in 1..Len(log[s])
        BY <1>1, <1>4, <3>1, <3>3
      <4> QED BY <1>3, <3>1, <4>1 DEF MemoryRows
    <3> QED BY <3>2, <3>3
  <2> QED BY <2>1
<1> QED BY <1>3, <1>6, <1>8 DEF LogInv

\* Two events are logged, and the checkpoint takes the place of the first rows.
LEMMA CompactKeeps ==
  ASSUME NEW s \in Sessions, LogInv(s), DOMAIN log = Sessions, DOMAIN surface = Sessions,
         NEW hi \in DOMAIN surface[s], Compact(s, hi)
  PROVE  /\ LogInv(s)'
         /\ Len(log'[s]) = Len(log[s]) + 2
         /\ \A j \in 1..Len(log[s]) : log'[s][j] = log[s][j]
         /\ log'[s][Len(log[s]) + 1] = Event("compaction/summary", NoRow, {})
         /\ log'[s][Len(log[s]) + 2] =
              Event("checkpoint", NoRow, {surface[s][p] : p \in 1..hi} \cup {Len(log[s]) + 1})
         /\ \A p \in MemoryRows(s)' :
              /\ p + hi - 1 \in MemoryRows(s) /\ p \in Nat
              /\ log'[s][surface'[s][p]] = log[s][surface[s][p + hi - 1]]
<1> DEFINE n == Len(log[s])
           e1 == Event("compaction/summary", NoRow, {})
           e2 == Event("checkpoint", NoRow, {surface[s][p] : p \in 1..hi} \cup {n + 1})
           once == Append(log[s], e1)
           twice == Append(once, e2)
           left == SubSeq(surface[s], hi + 1, Len(surface[s]))
<1>1. log'[s] = log[s] \o <<e1, e2>> /\ surface'[s] = <<n + 2>> \o left
  BY DEF Compact
<1>2. log[s] \in Seq(ToSet(log[s])) /\ surface[s] \in Seq(1..n) /\ n \in Nat
  BY DEF LogInv
<1>3. e2.type = "checkpoint"
  BY DEF Event
<1> HIDE DEF e1, e2
<1>4. /\ once \in Seq(ToSet(once)) /\ Len(once) = n + 1
      /\ \A j \in 1..n : once[j] = log[s][j]
      /\ once[n + 1] = e1
  BY <1>2, AppendSeq
<1>5. /\ twice \in Seq(ToSet(twice)) /\ Len(twice) = n + 2
      /\ \A j \in 1..n + 1 : twice[j] = once[j]
      /\ twice[n + 2] = e2
  <2> HIDE DEF once
  <2> QED BY <1>2, <1>4, AppendSeq
<1>6. log'[s] = twice
  <2>1. log[s] \o <<e1, e2>> = Append(Append(log[s], e1), e2)
    <3> DEFINE T == ToSet(log[s]) \cup {e1, e2}
    <3>1. log[s] \in Seq(T) /\ e1 \in T /\ e2 \in T
      BY <1>2
    <3> HIDE DEF T
    <3> QED BY <3>1
  <2> QED BY <1>1, <2>1
<1> HIDE DEF once, twice
<1>7. DOMAIN surface[s] = 1..Len(surface[s]) /\ Len(surface[s]) \in Nat /\ hi \in 1..Len(surface[s])
  BY <1>2
<1>8. /\ left \in Seq(1..n) /\ Len(left) = Len(surface[s]) - hi
      /\ \A p \in 1..Len(left) : left[p] = surface[s][p + hi] /\ left[p] \in 1..n
  <2> DEFINE q == surface[s]
             T == 1..n
  <2>1. q \in Seq(T) /\ hi \in 1..Len(q)
    BY <1>2, <1>7
  <2> HIDE DEF q, T
  <2>2. /\ SubSeq(q, hi + 1, Len(q)) \in Seq(T)
        /\ Len(SubSeq(q, hi + 1, Len(q))) = Len(q) - hi
        /\ \A p \in 1..Len(q) - hi : SubSeq(q, hi + 1, Len(q))[p] = q[p + hi]
    BY <2>1
  <2>3. \A p \in 1..Len(q) - hi : q[p + hi] \in T
    BY <2>1
  <2> QED BY <2>2, <2>3 DEF q, T
<1> HIDE DEF left
<1>9. /\ surface'[s] \in Seq(1..n + 2) /\ Len(surface'[s]) = Len(left) + 1
      /\ surface'[s][1] = n + 2
      /\ \A p \in 2..Len(left) + 1 : surface'[s][p] = left[p - 1]
  <2> DEFINE T == 1..n + 2
  <2>1. left \in Seq(T) /\ n + 2 \in T
    BY <1>2, <1>8
  <2> HIDE DEF T, n
  <2> QED BY <1>1, <2>1 DEF T
<1>10. LogInv(s)'
  BY <1>5, <1>6, <1>9 DEF LogInv
<1>11. ASSUME NEW p \in MemoryRows(s)'
       PROVE  /\ p + hi - 1 \in MemoryRows(s) /\ p \in Nat
              /\ log'[s][surface'[s][p]] = log[s][surface[s][p + hi - 1]]
  <2>1. p \in 1..Len(left) + 1 /\ twice[surface'[s][p]].type = "memory"
    BY <1>6, <1>8, <1>9, <1>11 DEF MemoryRows
  <2>2. p # 1
    BY <1>3, <1>5, <1>9, <2>1
  <2>3. p \in 2..Len(left) + 1 /\ p - 1 \in 1..Len(left)
    BY <1>7, <1>8, <2>1, <2>2
  <2>4. surface'[s][p] = surface[s][p + hi - 1] /\ surface'[s][p] \in 1..n
    <3>1. surface'[s][p] = left[p - 1]
      BY <1>9, <2>3
    <3>2. left[p - 1] = surface[s][(p - 1) + hi] /\ left[p - 1] \in 1..n
      BY <1>8, <2>3
    <3>3. (p - 1) + hi = p + hi - 1
      BY <1>7, <2>3
    <3> QED BY <3>1, <3>2, <3>3
  <2>5. /\ log[s][surface[s][p + hi - 1]].type = "memory"
        /\ twice[surface'[s][p]] = log[s][surface[s][p + hi - 1]]
    <3> DEFINE j == surface'[s][p]
    <3>1. j \in 1..n /\ n \in Nat /\ twice[j].type = "memory"
      BY <1>2, <2>1, <2>4
    <3> HIDE DEF j, n
    <3>2. j \in 1..n + 1
      BY <3>1
    <3>3. log[s][j].type = "memory" /\ twice[j] = log[s][j]
      BY <1>4, <1>5, <3>1, <3>2
    <3> QED BY <2>4, <3>3 DEF j
  <2>6. p + hi - 1 \in DOMAIN surface[s]
    BY <1>7, <1>8, <2>3
  <2> QED BY <1>6, <2>3, <2>5, <2>6 DEF MemoryRows
<1>12. \A j \in 1..n : log'[s][j] = log[s][j]
  <2>1. \A j \in 1..n : j \in 1..n + 1
    BY <1>2
  <2> QED BY <1>4, <1>5, <1>6, <2>1
<1>13. log'[s][n + 1] = e1 /\ log'[s][n + 2] = e2
  <2>1. n + 1 \in 1..n + 1 /\ twice[n + 2] = e2
    BY <1>2, <1>5
  <2>2. twice[n + 1] = once[n + 1]
    BY <1>5, <2>1
  <2> QED BY <1>4, <1>6, <2>1, <2>2
<1> QED BY <1>5, <1>6, <1>10, <1>11, <1>12, <1>13 DEF e1, e2

-----------------------------------------------------------------------------
(* The inductive invariant.                                                *)

Domains == /\ DOMAIN log = Sessions /\ DOMAIN surface = Sessions
           /\ DOMAIN step = Sessions /\ DOMAIN owed = Sessions

One(t) == LogInv(t) /\ RowInv(t) /\ FlagInv(t)

\* A session whose log and surface do not change has the same rows.
LEMMA SameRows ==
  ASSUME NEW t \in Sessions, LogInv(t), log'[t] = log[t], surface'[t] = surface[t]
  PROVE  LogInv(t)' /\ MemoryRows(t)' = MemoryRows(t)
BY DEF LogInv, MemoryRows

\* A session that lost its flag, or its pre-step, or kept both.
LEMMA Quieter ==
  ASSUME NEW t \in Sessions, One(t), log'[t] = log[t], surface'[t] = surface[t],
         step'[t] \in {step[t], NoRow},
         t \in pending' => t \in pending /\ owed'[t] = owed[t]
  PROVE  One(t)'
<1>1. LogInv(t)' /\ MemoryRows(t)' = MemoryRows(t)
  BY SameRows DEF One
<1> QED BY <1>1 DEF One, RowInv, FlagInv

\* Another session of a step that only concerns s.
LEMMA Others ==
  ASSUME Domains, NEW s, NEW t \in Sessions, t # s, One(t),
         log'[t] = log[t], surface'[t] = surface[t], step'[t] = step[t], owed'[t] = owed[t],
         t \in pending' => t \in pending
  PROVE  One(t)'
BY Quieter

\* A row that is not a memory row.
LEMMA TextStep ==
  ASSUME IInv, NEW s \in Sessions, AppendRow(s, Text), UNCHANGED <<step, pending, owed>>
  PROVE  IInv'
<1>1. Domains'
  BY DEF IInv, Domains, AppendRow
<1>2. LogInv(s)' /\ MemoryRows(s)' = MemoryRows(s)
  <2>1. Text.type # "memory"
    BY DEF Text, Event
  <2> QED BY <2>1, AppendKeeps DEF IInv
<1>3. One(s)'
  BY <1>2 DEF IInv, One, RowInv, FlagInv
<1>4. ASSUME NEW t \in Sessions, t # s PROVE One(t)'
  BY <1>4, Others DEF IInv, Domains, One, AppendRow
<1> QED BY <1>1, <1>3, <1>4 DEF IInv, Domains, One

LEMMA CompactStep ==
  ASSUME IInv, NEW s \in Sessions, NEW hi \in DOMAIN surface[s], Compact(s, hi)
  PROVE  IInv'
<1>1. UNCHANGED <<step, pending, owed>> /\ Domains'
  BY DEF IInv, Domains, Compact, flags
<1>2. /\ LogInv(s)'
      /\ \A p \in MemoryRows(s)' : p + hi - 1 \in MemoryRows(s) /\ p \in Nat
  BY CompactKeeps DEF IInv
<1>3. hi \in Nat
  BY DEF IInv, LogInv
<1>4. RowInv(s)'
  <2>1. ASSUME NEW p \in MemoryRows(s)', NEW q \in MemoryRows(s)' PROVE p = q
    <3>1. p + hi - 1 = q + hi - 1 /\ p \in Nat /\ q \in Nat
      BY <1>2, <2>1 DEF IInv, RowInv
    <3> QED BY <1>3, <3>1
  <2>2. step'[s] # NoRow => MemoryRows(s)' = {}
    BY <1>1, <1>2 DEF IInv, RowInv
  <2> QED BY <2>1, <2>2 DEF RowInv
<1>5. One(s)'
  BY <1>1, <1>2, <1>4 DEF IInv, One, FlagInv
<1>6. ASSUME NEW t \in Sessions, t # s PROVE One(t)'
  BY <1>1, <1>6, Others DEF IInv, Domains, One, Compact
<1> QED BY <1>1, <1>5, <1>6 DEF IInv, Domains, One

\* A plan names the row it replaces, and appends where there is none.
LEMMA Plans ==
  ASSUME NEW s, NEW force, NEW plan \in planMemoryInjection(s, force)
  PROVE  /\ plan.kind \in {"none", "append", "replace"}
         /\ plan.kind = "append" => findLastMemoryRow(s) = {}
         /\ plan.kind = "replace" =>
              plan.seq \in findLastMemoryRow(s) /\ (force \/ sessionCompactedSince(s, plan.seq))
<1> DEFINE block == BlockFor(s)
<1> HIDE DEF block
<1>1. planMemoryInjection(s, force) =
        CASE block = NoRow -> {[kind |-> "none", seq |-> 0]}
          [] block # NoRow /\ findLastMemoryRow(s) = {} -> {[kind |-> "append", seq |-> 0]}
          [] OTHER -> {[kind |-> IF /\ log[s][i].shows # block
                                    /\ force \/ sessionCompactedSince(s, i)
                                 THEN "replace" ELSE "none",
                        seq |-> i] : i \in findLastMemoryRow(s)}
  BY DEF planMemoryInjection, block
<1>2. CASE block = NoRow
  BY <1>1, <1>2
<1>3. CASE block # NoRow /\ findLastMemoryRow(s) = {}
  BY <1>1, <1>3
<1>4. CASE block # NoRow /\ findLastMemoryRow(s) # {}
  <2>1. PICK i \in findLastMemoryRow(s) :
          plan = [kind |-> IF /\ log[s][i].shows # block
                              /\ force \/ sessionCompactedSince(s, i)
                           THEN "replace" ELSE "none",
                  seq |-> i]
    BY <1>1, <1>4
  <2> QED BY <2>1
<1> QED BY <1>2, <1>3, <1>4

\* The last memory row is found whenever there is one.
LEMMA FindsTheRow ==
  ASSUME NEW s, LogInv(s), RowInv(s), findLastMemoryRow(s) = {}
  PROVE  MemoryRows(s) = {}
<1> SUFFICES ASSUME NEW p \in MemoryRows(s) PROVE FALSE
  OBVIOUS
<1>1. \A q, r \in MemoryRows(s) : q = r
  BY DEF RowInv
<1>2. SUFFICES \A r \in MemoryRows(s) : r <= p
  BY DEF findLastMemoryRow
<1>3. p \in Nat
  BY DEF LogInv, MemoryRows
<1> QED BY <1>1, <1>3

\* The outcomes of the handler before a step.
LEMMA PreStepPlan ==
  ASSUME IInv, NEW s \in Sessions, PreStep(s)
  PROVE  /\ step[s] = NoRow /\ pending' = pending \ {s}
         /\ DOMAIN owed' = Sessions /\ \A t \in Sessions : t # s => owed'[t] = owed[t]
         /\ \/ InjectFails(s)
            \/ \E plan \in planMemoryInjection(s, s \in pending) : Inject(s, plan) /\ UNCHANGED budget
<1>1. DOMAIN owed = Sessions
  BY DEF IInv
<1>2. ASSUME NEW plan, Inject(s, plan)
      PROVE  DOMAIN owed' = Sessions /\ \A t \in Sessions : t # s => owed'[t] = owed[t]
  BY <1>1, <1>2 DEF Inject, Paid
<1>3. CASE InjectFails(s)
  BY <1>1, <1>3 DEF PreStep, InjectFails
<1>4. CASE \E plan \in planMemoryInjection(s, s \in pending) : Inject(s, plan) /\ UNCHANGED budget
  BY <1>2, <1>4 DEF PreStep
<1> QED BY <1>3, <1>4 DEF PreStep

LEMMA PreStepStep ==
  ASSUME IInv, NEW s \in Sessions, PreStep(s)
  PROVE  IInv'
<1>1. /\ step[s] = NoRow /\ pending' = pending \ {s} /\ Domains /\ One(s)
      /\ DOMAIN owed' = Sessions /\ \A t \in Sessions : t # s => owed'[t] = owed[t]
  BY PreStepPlan DEF IInv, Domains, One
<1>2. SUFFICES Domains' /\ One(s)' /\ \A t \in Sessions : t # s => One(t)'
  BY DEF IInv, Domains, One
<1>3. ASSUME UNCHANGED <<log, surface, step>>
      PROVE  Domains' /\ One(s)' /\ \A t \in Sessions : t # s => One(t)'
  <2>1. One(s)'
    BY <1>1, <1>3, Quieter
  <2>2. ASSUME NEW t \in Sessions, t # s PROVE One(t)'
    BY <1>1, <1>3, <2>2, Others DEF IInv, One
  <2> QED BY <1>1, <1>3, <2>1, <2>2 DEF Domains
<1>4. CASE InjectFails(s)
  BY <1>3, <1>4 DEF InjectFails
<1>5. ASSUME NEW plan \in planMemoryInjection(s, s \in pending), Inject(s, plan)
      PROVE  Domains' /\ One(s)' /\ \A t \in Sessions : t # s => One(t)'
  <2>1. CASE plan.kind = "none"
    BY <1>3, <1>5, <2>1 DEF Inject
  <2>2. CASE plan.kind = "append"
    <3>1. UNCHANGED <<log, surface, owed>> /\ step' = [step EXCEPT ![s] = BlockFor(s)]
      BY <1>5, <2>2 DEF Inject
    <3>2. MemoryRows(s) = {}
      BY <1>1, <1>5, <2>2, Plans, FindsTheRow DEF One
    <3>3. LogInv(s)' /\ MemoryRows(s)' = MemoryRows(s)
      BY <1>1, <3>1, SameRows DEF One
    <3>4. One(s)'
      BY <1>1, <3>1, <3>2, <3>3 DEF One, RowInv, FlagInv
    <3>5. ASSUME NEW t \in Sessions, t # s PROVE One(t)'
      BY <1>1, <3>1, <3>5, Others DEF IInv, One, Domains
    <3> QED BY <1>1, <3>1, <3>4, <3>5 DEF Domains
  <2>3. CASE plan.kind = "replace"
    <3> DEFINE e == Event("memory", BlockFor(s), {plan.seq})
    <3>1. ReplaceRow(s, plan.seq, e) /\ UNCHANGED step
      BY <1>5, <2>3 DEF Inject
    <3>2. plan.seq \in findLastMemoryRow(s)
      BY <1>5, <2>3, Plans
    <3> HIDE DEF e
    <3>3. LogInv(s)' /\ MemoryRows(s)' \subseteq MemoryRows(s)
      BY <1>1, <3>1, <3>2, ReplaceKeeps DEF One, Domains
    <3>4. One(s)'
      BY <1>1, <3>1, <3>3 DEF One, RowInv, FlagInv
    <3>5. ASSUME NEW t \in Sessions, t # s PROVE One(t)'
      <4>1. log'[t] = log[t] /\ surface'[t] = surface[t]
        BY <1>1, <3>1, <3>5 DEF ReplaceRow, Domains
      <4> QED BY <1>1, <3>1, <3>5, <4>1, Others DEF IInv, One, Domains
    <3>6. Domains'
      BY <1>1, <3>1 DEF Domains, ReplaceRow
    <3> QED BY <3>4, <3>5, <3>6
  <2> QED BY <1>5, <2>1, <2>2, <2>3 DEF Inject
<1> QED BY <1>4, <1>5, PreStepPlan

LEMMA EnterStep ==
  ASSUME IInv, NEW s \in Sessions, Enter(s)
  PROVE  IInv'
<1> DEFINE e == Event("memory", step[s], {})
<1>1. /\ step[s] # NoRow /\ AppendRow(s, e) /\ pending' = pending
      /\ step' = [step EXCEPT ![s] = NoRow] /\ owed' = [owed EXCEPT ![s] = {}]
  BY DEF Enter, Paid
<1>2. Domains /\ One(s)
  BY DEF IInv, Domains, One
<1>3. e.type = "memory"
  BY DEF Event
<1> HIDE DEF e
<1>4. LogInv(s)' /\ MemoryRows(s)' = MemoryRows(s) \cup {Len(surface[s]) + 1}
  BY <1>1, <1>2, <1>3, AppendKeeps DEF One, Domains
<1>5. One(s)'
  BY <1>1, <1>2, <1>4 DEF One, RowInv, FlagInv, Domains
<1>6. ASSUME NEW t \in Sessions, t # s PROVE One(t)'
  BY <1>1, <1>2, <1>6, Others DEF IInv, One, Domains, AppendRow
<1>7. Domains'
  BY <1>1, <1>2 DEF Domains, AppendRow
<1> QED BY <1>5, <1>6, <1>7 DEF IInv, Domains, One

\* A forget arms the refresh for what it owes.
LEMMA ForgetStep ==
  ASSUME IInv, NEW s \in Sessions, NEW id, memory_forget(s, id)
  PROVE  IInv'
<1>1. PICK target \in rows : owed' = [owed EXCEPT ![s] = @ \cup {r.id : r \in Deleted(target)}]
  BY DEF memory_forget
<1>2. UNCHANGED <<log, surface, step>> /\ step[s] = NoRow /\ pending' = pending \cup {s}
  BY DEF memory_forget, session, Calls, onForget
<1>3. target \in Deleted(target)
  BY DEF Deleted
<1>4. Domains /\ One(s) /\ Domains'
  BY <1>1, <1>2 DEF IInv, Domains, One
<1>5. owed'[s] # {}
  BY <1>1, <1>3, <1>4 DEF Domains
<1>6. LogInv(s)' /\ MemoryRows(s)' = MemoryRows(s)
  BY <1>2, <1>4, SameRows DEF One
<1>7. One(s)'
  BY <1>2, <1>4, <1>5, <1>6 DEF One, RowInv, FlagInv
<1>8. ASSUME NEW t \in Sessions, t # s PROVE One(t)'
  BY <1>1, <1>2, <1>4, <1>8, Others DEF IInv, One, Domains
<1> QED BY <1>4, <1>7, <1>8 DEF IInv, Domains, One

\* The end of a tidy turn arms it for the promise to re-assemble.
LEMMA TurnStoppingStep ==
  ASSUME IInv, NEW s \in Sessions, TurnStopping(s)
  PROVE  IInv'
<1>1. /\ UNCHANGED <<log, surface, step>> /\ step[s] = NoRow
      /\ pending' = IF s \in tidy THEN pending \cup {s} ELSE pending
      /\ owed' = [owed EXCEPT ![s] = IF s \in tidy THEN @ \cup Outdated(s) \cup {0} ELSE @]
  BY DEF TurnStopping, Calls
<1>2. Domains /\ One(s) /\ Domains'
  BY <1>1 DEF IInv, Domains, One
<1>3. s \in pending' => owed'[s] # {}
  BY <1>1, <1>2 DEF One, FlagInv, Domains
<1>4. LogInv(s)' /\ MemoryRows(s)' = MemoryRows(s)
  BY <1>1, <1>2, SameRows DEF One
<1>5. One(s)'
  BY <1>1, <1>2, <1>3, <1>4 DEF One, RowInv, FlagInv
<1>6. ASSUME NEW t \in Sessions, t # s PROVE One(t)'
  BY <1>1, <1>2, <1>6, Others DEF IInv, One, Domains
<1> QED BY <1>2, <1>5, <1>6 DEF IInv, Domains, One

\* A step after which every session is where it was, but for a flag or a
\* pre-step that it lost.
LEMMA QuietStep ==
  ASSUME IInv, UNCHANGED <<log, surface>>, DOMAIN step' = Sessions, DOMAIN owed' = Sessions,
         \A t \in Sessions : step'[t] \in {step[t], NoRow},
         \A t \in Sessions : t \in pending' => t \in pending /\ owed'[t] = owed[t]
  PROVE  IInv'
BY Quieter DEF IInv, One

LEMMA NextStep == IInv /\ [Next]_vars => IInv'
<1> SUFFICES ASSUME IInv, [Next]_vars PROVE IInv'
  OBVIOUS
<1>1. ASSUME UNCHANGED <<session, flags>> PROVE IInv'
  BY <1>1, QuietStep DEF session, flags, IInv
<1>2. ASSUME NEW s \in Sessions, TurnStart(s) \/ memory_tidy(s) PROVE IInv'
  BY <1>2, TextStep DEF TurnStart, memory_tidy, flags
<1>3. ASSUME NEW s \in Sessions, NEW hi \in DOMAIN surface[s], Compact(s, hi) PROVE IInv'
  BY <1>3, CompactStep
<1>4. ASSUME NEW s \in Sessions, Reject(s) PROVE IInv'
  BY <1>4, QuietStep DEF Reject, flags, IInv
<1>5. ASSUME NEW s \in Sessions, Dispose(s) PROVE IInv'
  <2>1. /\ UNCHANGED <<log, surface>> /\ DOMAIN step' = Sessions /\ DOMAIN owed' = Sessions
        /\ \A t \in Sessions : step'[t] \in {step[t], NoRow}
        /\ \A t \in Sessions : t \in pending' => t \in pending /\ owed'[t] = owed[t]
    BY <1>5 DEF Dispose, Paid, IInv
  <2> QED BY <2>1, QuietStep
<1>6. ASSUME NEW h \in Hosts, Crash(h) PROVE IInv'
  <2>1. /\ UNCHANGED <<log, surface>> /\ DOMAIN step' = Sessions /\ DOMAIN owed' = Sessions
        /\ \A t \in Sessions : step'[t] \in {step[t], NoRow}
        /\ \A t \in Sessions : t \in pending' => t \in pending /\ owed'[t] = owed[t]
    BY <1>6 DEF Crash, IInv
  <2> QED BY <2>1, QuietStep
<1>7. ASSUME NEW h \in Hosts, ~Crash(h), Process(h) PROVE IInv'
  BY <1>1, <1>7 DEF Process, insertCompaction, selectTargets, markSuperseded, HarvestFails
<1>8. ASSUME NEW s \in Sessions,
             (\E scope \in Scopes : memory_write(s, scope)) \/ (\E seq \in DOMAIN log[s] : Replay(s, seq))
      PROVE  IInv'
  BY <1>1, <1>8 DEF memory_write, Replay
<1>9. CASE UNCHANGED vars
  BY <1>1, <1>9 DEF vars, session, flags
<1>10. ASSUME NEW s \in Sessions, Tools(s) PROVE IInv'
  BY <1>2, <1>8, <1>10, ForgetStep DEF Tools
<1>11. ASSUME NEW s \in Sessions, Harness(s) PROVE IInv'
  BY <1>2, <1>3, <1>5, <1>8, <1>11, TurnStoppingStep DEF Harness
<1>12. ASSUME NEW s \in Sessions, PreStep(s) \/ Enter(s) \/ Reject(s) PROVE IInv'
  BY <1>4, <1>12, PreStepStep, EnterStep
<1>13. ASSUME NEW h \in Hosts, Process(h) PROVE IInv'
  BY <1>6, <1>7, <1>13
<1> QED BY <1>9, <1>10, <1>11, <1>12, <1>13 DEF Next

LEMMA Invariance == Spec => []IInv
<1>1. Init => IInv
  <2> SUFFICES ASSUME Init PROVE IInv
    OBVIOUS
  <2> DEFINE first == [type |-> "text", shows |-> NoRow, cites |-> {}, time |-> 0]
  <2>1. /\ log = [s \in Sessions |-> <<first>>] /\ surface = [s \in Sessions |-> <<1>>]
        /\ step = [s \in Sessions |-> NoRow] /\ owed = [s \in Sessions |-> {}] /\ pending = {}
    BY DEF Init
  <2>2. first.type = "text"
    OBVIOUS
  <2> HIDE DEF first
  <2>3. ASSUME NEW s \in Sessions PROVE LogInv(s) /\ RowInv(s) /\ FlagInv(s)
    <3>1. log[s] = <<first>> /\ surface[s] = <<1>> /\ Len(log[s]) = 1
      BY <2>1
    <3>2. <<first>> \in Seq(ToSet(<<first>>)) /\ <<1>> \in Seq(1..1)
      <4>1. ToSet(<<first>>) = {first}
        BY DEF ToSet
      <4> QED BY <4>1
    <3>3. LogInv(s)
      BY <3>1, <3>2 DEF LogInv
    <3>4. MemoryRows(s) = {}
      BY <2>2, <3>1 DEF MemoryRows
    <3> QED BY <2>1, <3>3, <3>4 DEF RowInv, FlagInv
  <2> QED BY <2>1, <2>3 DEF IInv
<1> QED BY <1>1, NextStep, PTL DEF Spec

-----------------------------------------------------------------------------
(* Theorems.                                                               *)

\* The model never reads two memory rows, however compactions, forgets, crashes
\* and other listeners fall between a plan and the row it appends
\* (index.ts:430-480).
THEOREM NeverTwoRows == Spec => []OneRowSurfaced
<1>1. IInv => OneRowSurfaced
  BY DEF IInv, RowInv, OneRowSurfaced
<1> QED BY <1>1, Invariance, PTL

\* A row is replaced in place only for a reason of its own session: it compacted
\* since, or forgot or tidied (index.ts:430-460, pure.ts:540-600).
THEOREM RowIsPinned == Spec => PinnedRow
<1> DEFINE Replaced(s, i) ==
      /\ Len(log'[s]) = Len(log[s]) + 1
      /\ log'[s][Len(log'[s])].type = "memory" /\ i \in log'[s][Len(log'[s])].cites
<1>1. ASSUME IInv, [Next]_vars, NEW s \in Sessions, NEW i \in findLastMemoryRow(s), Replaced(s, i)
      PROVE  sessionCompactedSince(s, i) \/ (owed[s] # {} /\ s \in pending)
  <2>1. LogInv(s) /\ FlagInv(s) /\ DOMAIN log = Sessions /\ DOMAIN surface = Sessions /\ Len(log[s]) \in Nat
    BY <1>1 DEF IInv, LogInv
  <2>2. ASSUME NEW e, log'[s] = Append(log[s], e) PROVE e.type = "memory" /\ i \in e.cites
    BY <1>1, <2>1, <2>2, AppendSeq DEF LogInv
  <2>3. log'[s] # log[s]
    BY <1>1, <2>1
  <2>4. ASSUME NEW t \in Sessions, TurnStart(t) \/ memory_tidy(t) PROVE FALSE
    <3>1. AppendRow(t, Text)
      BY <2>4 DEF TurnStart, memory_tidy
    <3>2. log'[s] = Append(log[s], Text)
      BY <2>1, <2>3, <3>1 DEF AppendRow
    <3> QED BY <2>2, <3>2 DEF Text, Event
  <2>5. ASSUME NEW t \in Sessions, NEW hi \in DOMAIN surface[t], Compact(t, hi) PROVE FALSE
    <3>1. t = s
      BY <2>1, <2>3, <2>5 DEF Compact
    <3>2. Len(log'[s]) = Len(log[s]) + 2
      BY <2>1, <2>5, <3>1, CompactKeeps
    <3> QED BY <1>1, <2>1, <3>2
  <2>6. ASSUME NEW t \in Sessions, Enter(t) PROVE FALSE
    <3> DEFINE e == Event("memory", step[t], {})
    <3>1. AppendRow(t, e)
      BY <2>6 DEF Enter
    <3>2. log'[s] = Append(log[s], e)
      BY <2>1, <2>3, <3>1 DEF AppendRow
    <3>3. e.cites = {}
      BY DEF Event
    <3> QED BY <2>2, <3>2, <3>3
  <2>7. ASSUME NEW t \in Sessions, PreStep(t)
        PROVE  sessionCompactedSince(s, i) \/ (owed[s] # {} /\ s \in pending)
    <3>1. PICK plan \in planMemoryInjection(t, t \in pending) :
            plan.kind = "replace"
            /\ ReplaceRow(t, plan.seq, Event("memory", BlockFor(t), {plan.seq}))
      <4>1. UNCHANGED log \/ \E plan \in planMemoryInjection(t, t \in pending) :
              plan.kind = "replace" /\ ReplaceRow(t, plan.seq, Event("memory", BlockFor(t), {plan.seq}))
        <5>1. CASE InjectFails(t)
          BY <5>1 DEF InjectFails
        <5>2. ASSUME NEW plan, Inject(t, plan)
              PROVE  UNCHANGED log \/ (/\ plan.kind = "replace"
                       /\ ReplaceRow(t, plan.seq, Event("memory", BlockFor(t), {plan.seq})))
          BY <5>2 DEF Inject
        <5>3. InjectFails(t) \/ \E plan \in planMemoryInjection(t, t \in pending) : Inject(t, plan)
          BY <2>7 DEF PreStep
        <5>4. CASE \E plan \in planMemoryInjection(t, t \in pending) : Inject(t, plan)
          <6>1. PICK plan \in planMemoryInjection(t, t \in pending) : Inject(t, plan)
            BY <5>4
          <6> QED BY <5>2, <6>1
        <5> QED BY <5>1, <5>3, <5>4
      <4> QED BY <2>3, <4>1
    <3> DEFINE e == Event("memory", BlockFor(t), {plan.seq})
    <3>2. t = s /\ log'[s] = Append(log[s], e)
      BY <2>1, <2>3, <3>1 DEF ReplaceRow
    <3>3. e.cites = {plan.seq}
      BY DEF Event
    <3>4. i = plan.seq
      BY <2>2, <3>2, <3>3
    <3>5. s \in pending \/ sessionCompactedSince(s, i)
      <4>1. (t \in pending) \/ sessionCompactedSince(t, plan.seq)
        <5> DEFINE force == t \in pending
        <5>1. plan \in planMemoryInjection(t, force) /\ plan.kind = "replace"
          BY <3>1
        <5> HIDE DEF force
        <5>2. force \/ sessionCompactedSince(t, plan.seq)
          BY <5>1, Plans
        <5> QED BY <5>2 DEF force
      <4> QED BY <3>2, <3>4, <4>1
    <3> QED BY <2>1, <3>5 DEF FlagInv
  <2>8. ASSUME UNCHANGED log PROVE FALSE
    BY <2>3, <2>8
  <2>9. ASSUME NEW t \in Sessions, Tools(t) PROVE FALSE
    BY <2>4, <2>8, <2>9 DEF Tools, memory_write, memory_forget, session
  <2>10. ASSUME NEW t \in Sessions, Harness(t) PROVE FALSE
    BY <2>4, <2>5, <2>8, <2>10 DEF Harness, TurnStopping, Dispose, Replay, session
  <2>11. ASSUME NEW t \in Sessions, Reject(t) PROVE FALSE
    BY <2>8, <2>11 DEF Reject
  <2>12. ASSUME NEW h \in Hosts, Process(h) PROVE FALSE
    BY <2>8, <2>12 DEF Process, insertCompaction, selectTargets, markSuperseded, HarvestFails, Crash, session
  <2>13. CASE UNCHANGED vars
    BY <2>8, <2>13 DEF vars
  <2> QED BY <1>1, <2>6, <2>7, <2>9, <2>10, <2>11, <2>12, <2>13 DEF Next
<1>2. ASSUME IInv, [Next]_vars
      PROVE  [\A s \in Sessions : \A i \in findLastMemoryRow(s) :
                Replaced(s, i) => sessionCompactedSince(s, i) \/ (owed[s] # {} /\ s \in pending)]_vars
  BY <1>1, <1>2
<1> QED BY <1>2, Invariance, PTL DEF Spec, PinnedRow

-----------------------------------------------------------------------------
(* What a session forgets leaves its row.                                  *)

\* How a step may change one session's log and surface.
LogStep(t) ==
  \/ log'[t] = log[t] /\ surface'[t] = surface[t]
  \/ AppendRow(t, Text)
  \/ \E hi \in DOMAIN surface[t] : Compact(t, hi)
  \/ AppendRow(t, Event("memory", step[t], {})) /\ owed'[t] = {}
  \/ /\ \E i \in findLastMemoryRow(t) : ReplaceRow(t, i, Event("memory", BlockFor(t), {i}))
     /\ owed'[t] = {}

LEMMA LogSteps ==
  ASSUME IInv, [Next]_vars, NEW t \in Sessions
  PROVE  LogStep(t)
<1>1. DOMAIN log = Sessions /\ DOMAIN surface = Sessions /\ DOMAIN owed = Sessions
  BY DEF IInv
<1>2. CASE UNCHANGED <<log, surface>>
  BY <1>2 DEF LogStep
<1>3. ASSUME NEW s \in Sessions, NEW e, AppendRow(s, e), s # t PROVE LogStep(t)
  BY <1>1, <1>3 DEF AppendRow, LogStep
<1>4. ASSUME NEW s \in Sessions, TurnStart(s) \/ memory_tidy(s) PROVE LogStep(t)
  <2>1. AppendRow(s, Text)
    BY <1>4 DEF TurnStart, memory_tidy
  <2> QED BY <1>3, <2>1 DEF LogStep
<1>5. ASSUME NEW s \in Sessions, NEW hi \in DOMAIN surface[s], Compact(s, hi) PROVE LogStep(t)
  <2>1. CASE s = t
    BY <1>5, <2>1 DEF LogStep
  <2>2. CASE s # t
    BY <1>1, <1>5, <2>2 DEF LogStep, Compact
  <2> QED BY <2>1, <2>2
<1>6. ASSUME NEW s \in Sessions, Enter(s) PROVE LogStep(t)
  <2>1. AppendRow(s, Event("memory", step[s], {})) /\ owed'[s] = {}
    BY <1>1, <1>6 DEF Enter, Paid
  <2> QED BY <1>3, <2>1 DEF LogStep
<1>7. ASSUME NEW s \in Sessions, PreStep(s) PROVE LogStep(t)
  <2>1. \/ UNCHANGED <<log, surface>>
        \/ \E plan \in planMemoryInjection(s, s \in pending) :
             /\ plan.kind = "replace" /\ owed'[s] = {}
             /\ ReplaceRow(s, plan.seq, Event("memory", BlockFor(s), {plan.seq}))
    BY <1>1, <1>7, PreStepPlan DEF Inject, InjectFails, Paid
  <2>2. ASSUME NEW plan \in planMemoryInjection(s, s \in pending),
               plan.kind = "replace", owed'[s] = {},
               ReplaceRow(s, plan.seq, Event("memory", BlockFor(s), {plan.seq}))
        PROVE  LogStep(t)
    <3>1. plan.seq \in findLastMemoryRow(s)
      BY <2>2, Plans
    <3>2. CASE s = t
      BY <2>2, <3>1, <3>2 DEF LogStep
    <3>3. CASE s # t
      BY <1>1, <2>2, <3>3 DEF LogStep, ReplaceRow
    <3> QED BY <3>2, <3>3
  <2> QED BY <1>2, <2>1, <2>2
<1>8. ASSUME NEW s \in Sessions, Tools(s) PROVE LogStep(t)
  BY <1>2, <1>4, <1>8 DEF Tools, memory_write, memory_forget, session
<1>9. ASSUME NEW s \in Sessions, Harness(s) PROVE LogStep(t)
  BY <1>2, <1>4, <1>5, <1>9 DEF Harness, TurnStopping, Dispose, Replay, session
<1>10. ASSUME NEW s \in Sessions, Reject(s) PROVE LogStep(t)
  BY <1>2, <1>10 DEF Reject
<1>11. ASSUME NEW h \in Hosts, Process(h) PROVE LogStep(t)
  BY <1>2, <1>11 DEF Process, insertCompaction, selectTargets, markSuperseded, HarvestFails, Crash, session
<1>12. CASE UNCHANGED vars
  BY <1>2, <1>12 DEF vars
<1> QED BY <1>6, <1>7, <1>8, <1>9, <1>10, <1>11, <1>12 DEF Next

\* Every memory row there is was there.
Kept(t) ==
  \A p \in MemoryRows(t)' : \E q \in MemoryRows(t) :
    log'[t][surface'[t][p]] = log[t][surface[t][q]]

\* While the row shows what is owed, the refresh is armed, or was lost.
PaidInv(t) ==
  \A p \in MemoryRows(t) :
    (\E r \in log[t][surface[t][p]].shows.rows : r.id \in owed[t])
    => t \in pending \/ t \in lost

LEMMA RowsKept ==
  ASSUME IInv, [Next]_vars, NEW t \in Sessions
  PROVE  Kept(t) \/ owed'[t] = {}
<1>1. DOMAIN log = Sessions /\ DOMAIN surface = Sessions /\ LogInv(t)
  BY DEF IInv
<1>2. CASE log'[t] = log[t] /\ surface'[t] = surface[t]
  BY <1>2 DEF Kept, MemoryRows
<1>3. CASE AppendRow(t, Text)
  <2>1. Text.type # "memory"
    BY DEF Text, Event
  <2>2. /\ MemoryRows(t)' = MemoryRows(t)
        /\ \A p \in MemoryRows(t) : log'[t][surface'[t][p]] = log[t][surface[t][p]]
    BY <1>1, <1>3, <2>1, AppendKeeps
  <2> QED BY <2>2 DEF Kept
<1>4. ASSUME NEW hi \in DOMAIN surface[t], Compact(t, hi) PROVE Kept(t)
  BY <1>1, <1>4, CompactKeeps DEF Kept
<1> QED BY <1>2, <1>3, <1>4, LogSteps DEF LogStep

\* A forced plan does nothing only when there is nothing to do.
LEMMA ForcedPlans ==
  ASSUME NEW s, NEW plan \in planMemoryInjection(s, TRUE), plan.kind = "none"
  PROVE  BlockFor(s) \in {NoRow} \cup {log[s][i].shows : i \in findLastMemoryRow(s)}
<1> DEFINE block == BlockFor(s)
           plans == planMemoryInjection(s, TRUE)
<1> HIDE DEF block
<1>1. plan \in plans /\ plans =
        CASE block = NoRow -> {[kind |-> "none", seq |-> 0]}
          [] block # NoRow /\ findLastMemoryRow(s) = {} -> {[kind |-> "append", seq |-> 0]}
          [] OTHER -> {[kind |-> IF log[s][i].shows # block THEN "replace" ELSE "none",
                        seq |-> i] : i \in findLastMemoryRow(s)}
  BY DEF planMemoryInjection, block
<1> HIDE DEF plans
<1>2. CASE block = NoRow
  BY <1>2 DEF block
<1>3. CASE block # NoRow /\ findLastMemoryRow(s) = {}
  BY <1>1, <1>3
<1>4. CASE block # NoRow /\ findLastMemoryRow(s) # {}
  <2>1. PICK i \in findLastMemoryRow(s) :
          plan = [kind |-> IF log[s][i].shows # block THEN "replace" ELSE "none", seq |-> i]
    BY <1>1, <1>4
  <2>2. log[s][i].shows = block
    BY <2>1
  <2> QED BY <2>2 DEF block
<1> QED BY <1>2, <1>3, <1>4

\* What is owed grows only with the flag; the flag goes only when nothing is
\* owed any more, when there is no row, or when it is lost, and what is lost is
\* so until nothing is owed.
Settled(t) ==
  \/ t \in pending' \/ t \in lost' \/ owed'[t] = {} \/ MemoryRows(t)' = {}
  \/ t \notin pending /\ t \notin lost /\ owed'[t] = owed[t]

LEMMA Owing ==
  ASSUME IInv, [Next]_vars, NEW t \in Sessions
  PROVE  Settled(t)
<1>1. DOMAIN owed = Sessions /\ DOMAIN log = Sessions /\ DOMAIN surface = Sessions
  BY DEF IInv
<1>2. CASE owed'[t] = owed[t] /\ (t \in pending => t \in pending') /\ (t \in lost => t \in lost')
  BY <1>2 DEF Settled
<1>3. ASSUME NEW s \in Sessions, PreStep(s) PROVE Settled(t)
  <2>1. pending' = pending \ {s} /\ \A u \in Sessions : u # s => owed'[u] = owed[u]
    BY <1>3, PreStepPlan
  <2>2. CASE InjectFails(s)
    BY <1>2, <2>1, <2>2 DEF InjectFails, Settled
  <2>3. ASSUME NEW plan \in planMemoryInjection(s, s \in pending), Inject(s, plan)
        PROVE  Settled(t)
    <3>1. CASE t # s
      BY <1>2, <2>1, <2>3, <3>1 DEF Inject, Paid
    <3>2. CASE t = s /\ Paid(s)
      BY <1>1, <3>2 DEF Paid, Settled
    <3>3. CASE t = s /\ plan.kind = "none"
      <4>1. CASE s \in pending
        <5>1. plan \in planMemoryInjection(s, TRUE)
          <6>1. (s \in pending) = TRUE
            BY <4>1
          <6> QED BY <2>3, <6>1
        <5>2. BlockFor(s) \in {NoRow} \cup {log[s][i].shows : i \in findLastMemoryRow(s)}
          BY <3>3, <5>1, ForcedPlans
        <5>3. Paid(s)
          BY <2>3, <3>3, <5>2 DEF Inject
        <5> QED BY <3>2, <3>3, <5>3
      <4>2. CASE s \notin pending
        <5>1. Paid(s) \/ UNCHANGED <<owed, lost>>
          BY <2>3, <3>3 DEF Inject
        <5> QED BY <1>2, <2>1, <3>2, <3>3, <4>2, <5>1
      <4> QED BY <4>1, <4>2
    <3>4. CASE t = s /\ plan.kind = "append"
      <4>1. findLastMemoryRow(t) = {} /\ UNCHANGED <<log, surface>>
        BY <2>3, <3>4, Plans DEF Inject
      <4>2. MemoryRows(t) = {}
        BY <4>1, FindsTheRow DEF IInv
      <4>3. MemoryRows(t)' = MemoryRows(t)
        BY <4>1, SameRows DEF IInv
      <4> QED BY <4>2, <4>3 DEF Settled
    <3>5. CASE t = s /\ plan.kind = "replace"
      BY <2>3, <3>2, <3>5 DEF Inject
    <3> QED BY <2>3, <3>1, <3>3, <3>4, <3>5 DEF Inject
  <2> QED BY <1>3, <2>2, <2>3, PreStepPlan
<1>4. ASSUME NEW s \in Sessions, Enter(s) PROVE Settled(t)
  BY <1>1, <1>2, <1>4 DEF Enter, Paid, Settled
<1>5. ASSUME NEW s \in Sessions, Tools(s) PROVE Settled(t)
  <2>1. CASE \E id \in 1..lastId : memory_forget(s, id)
    <3>1. pending' = pending \cup {s} /\ lost' = lost /\ (t # s => owed'[t] = owed[t])
      BY <1>1, <2>1 DEF memory_forget, onForget
    <3> QED BY <1>2, <3>1 DEF Settled
  <2> QED BY <1>2, <1>5, <2>1 DEF Tools, memory_write, memory_tidy, flags
<1>6. ASSUME NEW s \in Sessions, Harness(s) PROVE Settled(t)
  <2>1. CASE TurnStopping(s)
    BY <1>1, <1>2, <2>1 DEF TurnStopping, Settled
  <2>2. CASE Dispose(s)
    BY <1>1, <1>2, <2>2 DEF Dispose, Paid, Settled
  <2> QED BY <1>2, <1>6, <2>1, <2>2 DEF Harness, TurnStart, Compact, Replay, flags
<1>7. ASSUME NEW s \in Sessions, Reject(s) PROVE Settled(t)
  BY <1>2, <1>7 DEF Reject, flags
<1>8. ASSUME NEW h \in Hosts, Process(h) PROVE Settled(t)
  <2>1. CASE Crash(h)
    BY <1>1, <1>2, <2>1 DEF Crash, Settled
  <2> QED BY <1>2, <1>8, <2>1 DEF Process, insertCompaction, selectTargets, markSuperseded,
         HarvestFails, flags
<1>9. CASE UNCHANGED vars
  BY <1>2, <1>9 DEF vars
<1>10. ASSUME Next PROVE Settled(t)
  BY <1>3, <1>4, <1>5, <1>6, <1>7, <1>8, <1>10 DEF Next
<1> QED BY <1>9, <1>10

\* What a forget takes away, or a tidy turn drops, leaves the row at the next
\* pre-step: while the row shows it, the refresh waits for that step, unless a
\* pre-step that took the flag failed and contained it (the plan threw, or the
\* replacement was rejected), or a crash took the flag (index.ts:430-481,
\* 509-524).
THEOREM ForgetReachesTheRow == Spec => []ForgottenLeaves
<1> DEFINE Paying == \A t \in Sessions : PaidInv(t)
<1>1. Init => Paying
  BY DEF Init, PaidInv
<1>2. IInv /\ Paying /\ [Next]_vars => Paying'
  <2> SUFFICES ASSUME IInv, Paying, [Next]_vars, NEW t \in Sessions PROVE PaidInv(t)'
    OBVIOUS
  <2>1. CASE t \in pending' \/ t \in lost' \/ owed'[t] = {} \/ MemoryRows(t)' = {}
    BY <2>1 DEF PaidInv
  <2>2. CASE Kept(t) /\ t \notin pending /\ t \notin lost /\ owed'[t] = owed[t]
    BY <2>2 DEF PaidInv, Kept
  <2> QED BY <2>1, <2>2, RowsKept, Owing DEF Settled
<1>3. Paying => ForgottenLeaves
  BY DEF PaidInv, ForgottenLeaves, findLastMemoryRow
<1>4. Spec => []Paying
  BY <1>1, <1>2, Invariance, PTL DEF Spec
<1> QED BY <1>3, <1>4, PTL

-----------------------------------------------------------------------------
(* The log.                                                                *)

\* A log only grows ...
Grows(t) ==
  \A i \in DOMAIN log[t] : i \in DOMAIN log'[t] /\ log'[t][i] = log[t][i]

\* ... by events that show nothing, the row a pre-step waits to append, or the
\* block of this moment.
Fresh(t) ==
  \A i \in DOMAIN log'[t] :
    \/ i \in DOMAIN log[t]
    \/ /\ log'[t][i].cites \in SUBSET Nat /\ log'[t][i].time \in Nat
       /\ log'[t][i].shows \in {NoRow, step[t], BlockFor(t)}

LEMMA AppendGrows ==
  ASSUME NEW t, LogInv(t), NEW e, log'[t] = Append(log[t], e)
  PROVE  Grows(t) /\ \A i \in DOMAIN log'[t] : i \in DOMAIN log[t] \/ log'[t][i] = e
<1> DEFINE n == Len(log[t])
<1>1. n \in Nat /\ DOMAIN log[t] = 1..n
  BY DEF LogInv
<1>2. /\ log'[t] \in Seq(ToSet(log'[t])) /\ Len(log'[t]) = n + 1
      /\ \A i \in 1..n : log'[t][i] = log[t][i]
      /\ log'[t][n + 1] = e
  BY AppendSeq DEF LogInv
<1>3. DOMAIN log'[t] = 1..(n + 1)
  BY <1>2
<1> HIDE DEF n
<1> QED BY <1>1, <1>2, <1>3 DEF Grows

LEMMA EventFields ==
  ASSUME NEW type, NEW shows, NEW cites, lastId \in Nat
  PROVE  /\ Event(type, shows, cites).shows = shows /\ Event(type, shows, cites).cites = cites
         /\ Event(type, shows, cites).time \in Nat
BY DEF Event

LEMMA Logged ==
  ASSUME IInv, lastId \in Nat, [Next]_vars, NEW t \in Sessions
  PROVE  Grows(t) /\ Fresh(t)
<1>1. DOMAIN log = Sessions /\ DOMAIN surface = Sessions /\ LogInv(t)
  BY DEF IInv
<1>2. CASE log'[t] = log[t]
  BY <1>2 DEF Grows, Fresh
<1>3. ASSUME NEW e, log'[t] = Append(log[t], e), e.cites \in SUBSET Nat, e.time \in Nat,
             e.shows \in {NoRow, step[t], BlockFor(t)}
      PROVE  Grows(t) /\ Fresh(t)
  BY <1>1, <1>3, AppendGrows DEF Fresh
<1>4. CASE AppendRow(t, Text)
  <2>1. log'[t] = Append(log[t], Text)
    BY <1>1, <1>4 DEF AppendRow
  <2> QED BY <1>3, <2>1, EventFields DEF Text
<1>5. CASE AppendRow(t, Event("memory", step[t], {}))
  <2>1. log'[t] = Append(log[t], Event("memory", step[t], {}))
    BY <1>1, <1>5 DEF AppendRow
  <2> QED BY <1>3, <2>1, EventFields
<1>6. ASSUME NEW i \in findLastMemoryRow(t), ReplaceRow(t, i, Event("memory", BlockFor(t), {i}))
      PROVE  Grows(t) /\ Fresh(t)
  <2>1. log'[t] = Append(log[t], Event("memory", BlockFor(t), {i}))
    BY <1>1, <1>6 DEF ReplaceRow
  <2>2. i \in Nat
    BY <1>1 DEF findLastMemoryRow, MemoryRows, LogInv
  <2> QED BY <1>3, <2>1, <2>2, EventFields
<1>7. ASSUME NEW hi \in DOMAIN surface[t], Compact(t, hi)
      PROVE  Grows(t) /\ Fresh(t)
  <2> DEFINE n == Len(log[t])
             cites == {surface[t][p] : p \in 1..hi} \cup {n + 1}
  <2>1. /\ n \in Nat /\ DOMAIN log[t] = 1..n
        /\ \A p \in DOMAIN surface[t] : surface[t][p] \in Nat
        /\ DOMAIN surface[t] = 1..Len(surface[t]) /\ Len(surface[t]) \in Nat
    BY <1>1 DEF LogInv
  <2>2. /\ log'[t] \in Seq(ToSet(log'[t])) /\ Len(log'[t]) = n + 2
        /\ \A j \in 1..n : log'[t][j] = log[t][j]
        /\ log'[t][n + 1] = Event("compaction/summary", NoRow, {})
        /\ log'[t][n + 2] = Event("checkpoint", NoRow, cites)
    BY <1>1, <1>7, CompactKeeps DEF LogInv
  <2>3. cites \in SUBSET Nat
    BY <2>1
  <2>4. DOMAIN log'[t] = 1..(n + 2)
    BY <2>1, <2>2
  <2> HIDE DEF n, cites
  <2>5. Grows(t)
    BY <2>1, <2>2, <2>4 DEF Grows
  <2>6. \A i \in 1..(n + 2) : i \in 1..n \/ i = n + 1 \/ i = n + 2
    BY <2>1
  <2>7. ASSUME NEW i \in {n + 1, n + 2}
        PROVE  /\ log'[t][i].cites \in SUBSET Nat /\ log'[t][i].time \in Nat
               /\ log'[t][i].shows = NoRow
    <3>1. CASE i = n + 1
      <4> DEFINE e == Event("compaction/summary", NoRow, {})
      <4>1. e.cites \in SUBSET Nat /\ e.time \in Nat /\ e.shows = NoRow
        BY EventFields
      <4> QED BY <2>2, <3>1, <4>1
    <3>2. CASE i = n + 2
      <4> DEFINE e == Event("checkpoint", NoRow, cites)
      <4>1. e.cites \in SUBSET Nat /\ e.time \in Nat /\ e.shows = NoRow
        BY <2>3, EventFields
      <4> QED BY <2>2, <3>2, <4>1
    <3> QED BY <3>1, <3>2
  <2> QED BY <2>1, <2>4, <2>5, <2>6, <2>7 DEF Fresh
<1> QED BY <1>2, <1>4, <1>5, <1>6, <1>7, LogSteps DEF LogStep

-----------------------------------------------------------------------------
(* The table and the harvests.                                             *)

Row == [id : Nat, workspace : {Cwd[s] : s \in Sessions} \cup {NoOne},
        session : Sessions \cup {NoOne}, kind : {"manual", "compaction"}, seq : Nat,
        segment : 0..1, size : 1..2, time : Nat, shadowed : SUBSET Nat, supersededBy : Nat]

\* A row says where it comes from.
Recorded(r) ==
  \/ /\ r.kind = "manual" /\ r.seq = 0
     /\ r.session # NoOne => r.session \in Sessions /\ r.workspace = Cwd[r.session]
  \/ /\ r.kind = "compaction" /\ r.session \in Sessions /\ r.workspace = Cwd[r.session]
     /\ r.seq \in DOMAIN log[r.session] /\ r.shadowed = log[r.session][r.seq].cites

\* Ids are never used twice.
TableOK ==
  /\ rows \in SUBSET Row /\ lastId \in Nat
  /\ \A r \in rows : r.id \in 1..lastId /\ Recorded(r)
  /\ \A q, r \in rows : q.id = r.id => q = r

Harvest == [phase : {"none", "insert", "select", "mark"}, session : Sessions \cup {NoOne},
            seq : Nat, by : Nat, targets : SUBSET Nat]

\* Two processes stored rows of one group.
Spliced(r) == \E q \in GroupOf(r) : HostOf[q.session] # HostOf[r.session]

\* What is to be marked is of whole groups.
TargetsWhole(targets) ==
  \A r \in rows :
    (r.kind = "compaction" /\ r.id \in targets)
    => Spliced(r) \/ \A q \in GroupOf(r) : q.id \in targets

\* The gate a harvest passed holds until its insert but for what other
\* processes insert.
HarvestOK(h) ==
  /\ harvest[h] \in Harvest
  /\ harvest[h].phase # "none" =>
       /\ harvest[h].session \in Sessions /\ HostOf[harvest[h].session] = h
       /\ harvest[h].seq \in DOMAIN log[harvest[h].session]
  /\ harvest[h].phase \in {"select", "mark"} => harvest[h].by # 0
  /\ harvest[h].targets \in SUBSET (1..lastId) /\ TargetsWhole(harvest[h].targets)
  /\ harvest[h].phase = "insert" =>
       \A r \in rows :
         (r.workspace = Cwd[harvest[h].session] /\ r.seq = harvest[h].seq)
         => HostOf[r.session] # h

EventsOK(t) ==
  \A i \in DOMAIN log[t] : log[t][i].cites \in SUBSET Nat /\ log[t][i].time \in Nat

BudgetOK == budget \in [Budgets -> Nat] /\ \A b \in Budgets : budget[b] <= Budget[b]

\* No statement failed and no process died.
Steady == budget["fault"] = Budget["fault"] /\ budget["crash"] = Budget["crash"]

\* The harvest of new is about to find old, or has found it and will mark it.
Marking(new, old) ==
  LET v == harvest[HostOf[new.session]] IN
  /\ v.session = new.session /\ v.seq = new.seq
  /\ v.phase = "select" \/ (v.phase = "mark" /\ old.id \in v.targets)

Replaces(new, old) ==
  /\ old.kind = "compaction" /\ new.kind = "compaction" /\ old.session = new.session
  /\ old.id < new.id /\ old.seq \in new.shadowed

ChainInv ==
  Steady => \A old, new \in rows : Replaces(new, old) => old.supersededBy # 0 \/ Marking(new, old)

\* One group, for one of its rows.
GroupOK(r) ==
  \/ /\ \A q \in GroupOf(r) : q.session = r.session /\ q.supersededBy = r.supersededBy
     /\ Whole(GroupOf(r))
  \/ Spliced(r)

GroupsInv == \A r \in rows : r.kind = "compaction" => GroupOK(r)

TInv ==
  /\ TableOK /\ BudgetOK /\ ChainInv /\ GroupsInv
  /\ DOMAIN harvest = Hosts /\ \A h \in Hosts : HarvestOK(h)
  /\ \A t \in Sessions : EventsOK(t)

\* The logs go on.
Onward == \A t \in Sessions : Grows(t) /\ EventsOK(t)'

BudgetFalls == budget' \in [Budgets -> Nat] /\ \A b \in Budgets : budget'[b] <= budget[b]

LEMMA SpendFalls ==
  ASSUME BudgetOK, NEW b \in Events, Spend(b)
  PROVE  BudgetFalls /\ budget'[b] < budget[b]
BY DEF BudgetOK, Spend, BudgetFalls, Budgets, Events

LEMMA BudgetSteps ==
  ASSUME BudgetOK, [Next]_vars
  PROVE  BudgetFalls
<1>1. CASE UNCHANGED budget
  BY <1>1 DEF BudgetOK, BudgetFalls
<1>2. ASSUME NEW b \in Events, Spend(b) PROVE BudgetFalls
  BY <1>2, SpendFalls
<1>3. /\ "turn" \in Events /\ "write" \in Events /\ "forget" \in Events /\ "compact" \in Events
      /\ "replay" \in Events /\ "crash" \in Events /\ "fault" \in Events /\ "dispose" \in Events
  BY DEF Events
<1>4. ASSUME NEW s \in Sessions, Tools(s) PROVE BudgetFalls
  BY <1>2, <1>3, <1>4 DEF Tools, memory_write, memory_forget, memory_tidy
<1>5. ASSUME NEW s \in Sessions, Harness(s) PROVE BudgetFalls
  BY <1>1, <1>2, <1>3, <1>5 DEF Harness, TurnStart, TurnStopping, Dispose, Compact, Replay
<1>6. ASSUME NEW s \in Sessions, PreStep(s) PROVE BudgetFalls
  <2>1. UNCHANGED budget \/ Spend("fault")
    BY <1>6 DEF PreStep, InjectFails
  <2> QED BY <1>1, <1>2, <1>3, <2>1
<1>7. ASSUME NEW s \in Sessions, Enter(s) \/ Reject(s) PROVE BudgetFalls
  BY <1>1, <1>7 DEF Enter, Reject
<1>8. ASSUME NEW h \in Hosts, Process(h) PROVE BudgetFalls
  BY <1>1, <1>2, <1>3, <1>8 DEF Process, insertCompaction, selectTargets, markSuperseded, HarvestFails, Crash
<1>9. ASSUME Next PROVE BudgetFalls
  BY <1>4, <1>5, <1>6, <1>7, <1>8, <1>9 DEF Next
<1> QED BY <1>1, <1>9 DEF vars

\* A step that inserts nothing: whole groups and notes may go, harvests may end
\* in a fault, and one may begin behind an open gate.
LEMMA TableKept ==
  ASSUME TInv, Onward, BudgetFalls, lastId' = lastId, rows' \subseteq rows,
         \A r \in rows' : r.kind = "compaction" => GroupOf(r) \subseteq rows',
         DOMAIN harvest' = Hosts, \A h \in Hosts : HarvestOK(h)',
         Steady' => \A old, new \in rows' :
           Replaces(new, old) /\ Marking(new, old) => old.supersededBy # 0 \/ Marking(new, old)'
  PROVE  TInv'
<1>1. TableOK'
  BY DEF TInv, TableOK, Recorded, Onward, Grows
<1>2. BudgetOK' /\ (Steady' => Steady)
  <2>1. Budget \in [Budgets -> Nat] /\ "fault" \in Budgets /\ "crash" \in Budgets
    BY BoundsAssumption DEF Budgets, Events
  <2> QED BY <2>1 DEF TInv, BudgetOK, BudgetFalls, Steady
<1>3. ChainInv'
  <2> SUFFICES ASSUME Steady', NEW old \in rows', NEW new \in rows', Replaces(new, old)
               PROVE  old.supersededBy # 0 \/ Marking(new, old)'
    BY DEF ChainInv, Replaces
  <2>1. old.supersededBy # 0 \/ Marking(new, old)
    BY <1>2 DEF TInv, ChainInv
  <2> QED BY <2>1
<1>4. GroupsInv'
  <2> SUFFICES ASSUME NEW r \in rows', r.kind = "compaction" PROVE GroupOK(r)'
    BY DEF GroupsInv
  <2>1. GroupOf(r)' = GroupOf(r)
    BY DEF GroupOf
  <2>2. GroupOK(r)
    BY DEF TInv, GroupsInv
  <2> QED BY <2>1, <2>2 DEF GroupOK, Spliced
<1> QED BY <1>1, <1>2, <1>3, <1>4 DEF TInv, Onward

\* No harvest.
LEMMA NothingToDo ==
  ASSUME NEW h \in Hosts, harvest'[h] = NoHarvest
  PROVE  HarvestOK(h)'
<1>1. NoHarvest \in Harvest /\ NoHarvest.phase = "none" /\ NoHarvest.targets = {}
  BY DEF NoHarvest, Harvest
<1> QED BY <1>1 DEF HarvestOK, TargetsWhole

\* A harvest that goes on, or that ends, over a table that lost rows.
LEMMA HarvestKept ==
  ASSUME TInv, Onward, rows' \subseteq rows, lastId' = lastId, NEW h \in Hosts,
         \A r \in rows' : r.kind = "compaction" => GroupOf(r) \subseteq rows',
         harvest'[h] \in {harvest[h], NoHarvest}
  PROVE  HarvestOK(h)'
<1>1. HarvestOK(h)
  BY DEF TInv
<1>2. CASE harvest'[h] = NoHarvest
  BY <1>2, NothingToDo
<1>3. CASE harvest'[h] = harvest[h]
  <2>1. TargetsWhole(harvest[h].targets)
    BY <1>1 DEF HarvestOK
  <2>2. \A r \in rows' : r.kind = "compaction" => GroupOf(r)' = GroupOf(r)
    BY DEF GroupOf
  <2>3. TargetsWhole(harvest[h].targets)'
    BY <1>3, <2>1, <2>2 DEF TargetsWhole, Spliced
  <2> QED BY <1>1, <1>3, <2>3 DEF HarvestOK, Onward, Grows
<1> QED BY <1>2, <1>3

LEMMA LogsGoOn ==
  ASSUME IInv, TInv, [Next]_vars
  PROVE  Onward
<1> SUFFICES ASSUME NEW t \in Sessions PROVE Grows(t) /\ EventsOK(t)'
  BY DEF Onward
<1>1. Grows(t) /\ Fresh(t) /\ EventsOK(t)
  BY Logged DEF TInv, TableOK
<1> QED BY <1>1 DEF Grows, Fresh, EventsOK

\* Nothing of the table nor of a harvest changes.
LEMMA StillTable ==
  ASSUME TInv, Onward, BudgetFalls, UNCHANGED <<store, harvest>>
  PROVE  TInv'
<1>1. lastId' = lastId /\ rows' = rows /\ harvest' = harvest
  BY DEF store
<1>2. \A r \in rows' : GroupOf(r) \subseteq rows'
  BY <1>1 DEF GroupOf
<1>3. \A h \in Hosts : HarvestOK(h)'
  BY <1>1, <1>2, HarvestKept DEF TInv
<1>4. \A old, new \in rows' : Marking(new, old) => Marking(new, old)'
  BY <1>1 DEF Marking
<1> QED BY <1>1, <1>2, <1>3, <1>4, TableKept DEF TInv

\* A statement fails, or the process dies.
LEMMA HarvestLost ==
  ASSUME TInv, Onward, BudgetFalls, NEW h \in Hosts, HarvestFails(h) \/ Crash(h)
  PROVE  TInv'
<1>1. /\ lastId' = lastId /\ rows' = rows
      /\ harvest' = [harvest EXCEPT ![h] = NoHarvest]
      /\ Spend("fault") \/ Spend("crash")
  BY DEF HarvestFails, Crash, store
<1>2. ~Steady'
  <2>1. "fault" \in Events /\ "crash" \in Events /\ Events \subseteq Budgets
    BY DEF Events, Budgets
  <2>2. budget'["fault"] < budget["fault"] \/ budget'["crash"] < budget["crash"]
    BY <1>1, <2>1, SpendFalls DEF TInv
  <2>3. /\ \A b \in Budgets : budget[b] <= Budget[b] /\ budget[b] \in Nat /\ Budget[b] \in Nat
        /\ \A b \in Budgets : budget'[b] \in Nat /\ budget'[b] <= budget[b]
    BY BoundsAssumption DEF TInv, BudgetOK, BudgetFalls
  <2> QED BY <2>1, <2>2, <2>3 DEF Steady
<1>3. \A r \in rows' : GroupOf(r) \subseteq rows'
  BY <1>1 DEF GroupOf
<1>4. DOMAIN harvest' = Hosts /\ \A g \in Hosts : harvest'[g] \in {harvest[g], NoHarvest}
  BY <1>1 DEF TInv
<1>5. \A g \in Hosts : HarvestOK(g)'
  BY <1>1, <1>3, <1>4, HarvestKept
<1> QED BY <1>1, <1>2, <1>3, <1>4, <1>5, TableKept

\* A checkpoint reaches the listener.
LEMMA HarvestBegins ==
  ASSUME TInv, Onward, BudgetFalls, NEW s \in Sessions, NEW seq \in DOMAIN log'[s],
         seq \in Nat, UNCHANGED store, Free(s), harvestCompaction(s, seq, Gate(s, seq))
  PROVE  TInv'
<1> DEFINE h == HostOf[s]
<1>1. /\ lastId' = lastId /\ rows' = rows /\ h \in Hosts /\ harvest[h] = NoHarvest
      /\ DOMAIN harvest' = Hosts /\ \A g \in Hosts : g # h => harvest'[g] = harvest[g]
      /\ \/ harvest'[h] = harvest[h]
         \/ /\ harvest'[h] = [NoHarvest EXCEPT !.phase = "insert", !.session = s, !.seq = seq]
            /\ Gate(s, seq)
  BY HostAssumption DEF TInv, store, Free, harvestCompaction
<1>2. \A r \in rows' : GroupOf(r) \subseteq rows'
  BY <1>1 DEF GroupOf
<1>3. \A g \in Hosts : harvest'[g] \in {harvest[g], NoHarvest} => HarvestOK(g)'
  BY <1>1, <1>2, HarvestKept
<1>4. ASSUME harvest'[h] = [NoHarvest EXCEPT !.phase = "insert", !.session = s, !.seq = seq],
             Gate(s, seq)
      PROVE  HarvestOK(h)'
  <2>1. /\ harvest'[h] \in Harvest /\ harvest'[h].phase = "insert" /\ harvest'[h].session = s
        /\ harvest'[h].seq = seq /\ harvest'[h].targets = {}
    <3> DEFINE v == [phase |-> "insert", session |-> s, seq |-> seq, by |-> 0, targets |-> {}]
    <3>1. harvest'[h] = v
      BY <1>4 DEF NoHarvest
    <3>2. v \in Harvest /\ v.phase = "insert" /\ v.session = s /\ v.seq = seq /\ v.targets = {}
      BY DEF Harvest
    <3> HIDE DEF v
    <3> QED BY <3>1, <3>2
  <2> QED BY <1>1, <1>4, <2>1 DEF HarvestOK, Gate, TargetsWhole
<1>5. \A g \in Hosts : HarvestOK(g)'
  BY <1>1, <1>3, <1>4
<1>6. ASSUME NEW old \in rows', NEW new \in rows', Replaces(new, old), Marking(new, old)
      PROVE  Marking(new, old)'
  <2>1. HostOf[new.session] \in Hosts
    BY <1>1, <1>6, HostAssumption DEF TInv, TableOK, Recorded, Replaces
  <2>2. HostOf[new.session] # h
    BY <1>1, <1>6 DEF Marking, NoHarvest
  <2> QED BY <1>1, <1>6, <2>1, <2>2 DEF Marking
<1> QED BY <1>1, <1>2, <1>5, <1>6, TableKept

\* What is stored of a checkpoint has a position in a log.
LEMMA CheckpointSeq ==
  ASSUME IInv, TInv
  PROVE  /\ \A r \in rows : r.kind = "compaction" => r.seq # 0
         /\ \A h \in Hosts : harvest[h].phase # "none" => harvest[h].seq # 0
<1>1. \A t \in Sessions : 0 \notin DOMAIN log[t]
  BY DEF IInv, LogInv
<1> QED BY <1>1 DEF TInv, TableOK, Recorded, HarvestOK

\* A forget takes a note or a whole group, a disposal only notes.
LEMMA RowsGo ==
  ASSUME IInv, TInv, Onward, BudgetFalls, NEW s \in Sessions,
         Dispose(s) \/ \E id \in 1..lastId : memory_forget(s, id)
  PROVE  TInv'
<1>1. lastId' = lastId /\ harvest' = harvest /\ rows' \subseteq rows
  BY DEF Dispose, memory_forget
<1>2. ASSUME NEW r \in rows', r.kind = "compaction", NEW q \in GroupOf(r) PROVE q \in rows'
  <2>1. r \in rows /\ q \in rows /\ q.workspace = r.workspace /\ q.seq = r.seq
    BY <1>1 DEF GroupOf
  <2>2. q.kind = "compaction"
    BY <1>2, <2>1, CheckpointSeq DEF TInv, TableOK, Recorded
  <2>3. CASE Dispose(s)
    BY <2>1, <2>2, <2>3 DEF Dispose
  <2>4. ASSUME NEW target \in rows, rows' = rows \ Deleted(target) PROVE q \in rows'
    BY <1>2, <2>1, <2>2, <2>4 DEF Deleted
  <2> QED BY <2>3, <2>4 DEF memory_forget
<1>3. \A r \in rows' : r.kind = "compaction" => GroupOf(r) \subseteq rows'
  BY <1>2
<1>4. \A h \in Hosts : HarvestOK(h)'
  BY <1>1, <1>3, HarvestKept
<1>5. \A old, new \in rows' : Marking(new, old) => Marking(new, old)'
  BY <1>1 DEF Marking
<1> QED BY <1>1, <1>3, <1>4, <1>5, TableKept DEF TInv

\* A new note belongs to no group.
LEMMA NoteStored ==
  ASSUME IInv, TInv, Onward, BudgetFalls, NEW s \in Sessions, NEW scope, memory_write(s, scope)
  PROVE  TInv'
<1> DEFINE n == [id |-> lastId + 1, workspace |-> IF scope = "global" THEN NoOne ELSE Cwd[s],
                 session |-> IF scope = "session" THEN s ELSE NoOne, kind |-> "manual",
                 seq |-> 0, segment |-> 0, size |-> 1, time |-> lastId + 1,
                 shadowed |-> {}, supersededBy |-> 0]
<1>1. rows' = rows \cup {n} /\ lastId' = lastId + 1 /\ harvest' = harvest
  BY DEF memory_write
<1>2. /\ n \in Row /\ n.id = lastId + 1 /\ n.kind = "manual" /\ n.seq = 0
      /\ n.session # NoOne => n.session = s /\ n.workspace = Cwd[s]
  BY DEF Row, TInv, TableOK
<1> HIDE DEF n
<1>3. TableOK'
  <2>1. rows' \in SUBSET Row /\ lastId' \in Nat /\ \A r \in rows' : r.id \in 1..lastId'
    BY <1>1, <1>2 DEF TInv, TableOK
  <2>2. \A r \in rows' : Recorded(r)'
    BY <1>1, <1>2 DEF TInv, TableOK, Recorded, Onward, Grows
  <2>3. \A q, r \in rows' : q.id = r.id => q = r
    BY <1>1, <1>2 DEF TInv, TableOK
  <2> QED BY <2>1, <2>2, <2>3 DEF TableOK
<1>4. BudgetOK' /\ (Steady' => Steady)
  <2>1. Budget \in [Budgets -> Nat] /\ "fault" \in Budgets /\ "crash" \in Budgets
    BY BoundsAssumption DEF Budgets, Events
  <2> QED BY <2>1 DEF TInv, BudgetOK, BudgetFalls, Steady
<1>5. ChainInv'
  BY <1>1, <1>2, <1>4 DEF TInv, ChainInv, Replaces, Marking
<1>6. GroupsInv'
  <2> SUFFICES ASSUME NEW r \in rows', r.kind = "compaction" PROVE GroupOK(r)'
    BY DEF GroupsInv
  <2>1. r \in rows /\ r.seq # 0
    BY <1>1, <1>2, CheckpointSeq
  <2>2. GroupOf(r)' = GroupOf(r)
    BY <1>1, <1>2, <2>1 DEF GroupOf
  <2>3. GroupOK(r)
    BY <2>1 DEF TInv, GroupsInv
  <2> QED BY <2>2, <2>3 DEF GroupOK, Spliced
<1>7. ASSUME NEW h \in Hosts PROVE HarvestOK(h)'
  <2>1. HarvestOK(h) /\ (harvest[h].phase = "insert" => harvest[h].seq # 0)
    BY CheckpointSeq DEF TInv
  <2>2. TargetsWhole(harvest[h].targets)'
    <3>1. TargetsWhole(harvest[h].targets) /\ harvest' = harvest
      BY <1>1, <2>1 DEF HarvestOK
    <3>2. ASSUME NEW r \in rows', r.kind = "compaction" PROVE r \in rows /\ GroupOf(r)' = GroupOf(r)
      <4>1. r \in rows /\ r.seq # 0
        BY <1>1, <1>2, <3>2, CheckpointSeq
      <4> QED BY <1>1, <1>2, <4>1 DEF GroupOf
    <3> QED BY <3>1, <3>2 DEF TargetsWhole, Spliced
  <2>3. harvest[h].targets \in SUBSET (1..lastId')
    BY <1>1, <2>1 DEF HarvestOK, TInv, TableOK
  <2> QED BY <1>1, <1>2, <2>1, <2>2, <2>3 DEF HarvestOK, Onward, Grows
<1> QED BY <1>1, <1>3, <1>4, <1>5, <1>6, <1>7 DEF TInv, Onward

LEMMA TwoSegments == {0, 1} = 0..1 /\ Cardinality({0, 1}) = 2
<1>1. IsFiniteSet({0}) /\ Cardinality({0}) = 1
  BY FS_Singleton
<1>2. {0, 1} = 0..1 /\ {0, 1} = {0} \cup {1} /\ 1 \notin {0}
  OBVIOUS
<1>3. Cardinality({0} \cup {1}) = Cardinality({0}) + 1
  BY <1>1, <1>2, FS_AddElement
<1> QED BY <1>1, <1>2, <1>3

\* The ids of one transaction: the count of the segments inserted so far.
LEMMA CountedIds ==
  ASSUME NEW new \in SUBSET (0..1)
  PROVE  /\ Cardinality(new) \in Nat
         /\ \A i \in new : Cardinality({j \in new : j <= i}) \in 1..Cardinality(new)
         /\ \A i, j \in new :
              Cardinality({k \in new : k <= i}) = Cardinality({k \in new : k <= j}) => i = j
<1>1. new \in {{}, {0}, {1}, {0, 1}}
  <2>1. \A x \in new : x = 0 \/ x = 1
    OBVIOUS
  <2> QED BY <2>1
<1>2. /\ Cardinality({}) = 0
      /\ \A x : Cardinality({x}) = 1
      /\ Cardinality({0, 1}) = 2
  BY TwoSegments, FS_EmptySet, FS_Singleton
<1>3. CASE new = {}
  BY <1>2, <1>3
<1>4. CASE new = {0}
  <2>1. {j \in new : j <= 0} = {0}
    BY <1>4
  <2> QED BY <1>2, <1>4, <2>1
<1>5. CASE new = {1}
  <2>1. {j \in new : j <= 1} = {1}
    BY <1>5
  <2> QED BY <1>2, <1>5, <2>1
<1>6. CASE new = {0, 1}
  <2>1. {j \in new : j <= 0} = {0} /\ {j \in new : j <= 1} = {0, 1}
    BY <1>6
  <2> QED BY <1>2, <1>6, <2>1
<1> QED BY <1>1, <1>3, <1>4, <1>5, <1>6

LEMMA Splittings ==
  ASSUME NEW s
  PROVE  /\ SegmentsOf(s) \in {{0}, 0..1}
         /\ 2 \div Cardinality(SegmentsOf(s)) \in 1..2
<1>1. Cardinality({0}) = 1 /\ Cardinality(0..1) = 2
  BY TwoSegments, FS_Singleton
<1>2. 2 \div 1 = 2 /\ 2 \div 2 = 1
  OBVIOUS
<1>3. CASE SegmentsOf(s) = {0}
  BY <1>1, <1>2, <1>3
<1>4. CASE SegmentsOf(s) = 0..1
  BY <1>1, <1>2, <1>4
<1> QED BY <1>3, <1>4 DEF SegmentsOf

\* What a transaction inserts.
Inserted(s, seq, new, added) ==
  /\ added \in SUBSET Row
  /\ \A r \in added :
       /\ r.kind = "compaction" /\ r.session = s /\ r.workspace = Cwd[s] /\ r.seq = seq
       /\ r.segment \in new /\ r.size = 2 \div Cardinality(SegmentsOf(s))
       /\ r.shadowed = log[s][seq].cites /\ r.supersededBy = 0
       /\ r.id \in (lastId + 1)..(lastId + Cardinality(new))
  /\ \A q, r \in added : q.id = r.id \/ q.segment = r.segment => q = r
  /\ \A i \in new : \E r \in added : r.segment = i

LEMMA Segments ==
  ASSUME lastId \in Nat, NEW s \in Sessions, NEW seq \in DOMAIN log[s], seq \in Nat, EventsOK(s),
         NEW new \in SUBSET SegmentsOf(s)
  PROVE  Inserted(s, seq, new,
           {SegmentRow(s, seq, i, lastId + Cardinality({j \in new : j <= i})) : i \in new})
<1> DEFINE Id(i) == lastId + Cardinality({j \in new : j <= i})
           added == {SegmentRow(s, seq, i, Id(i)) : i \in new}
<1>1. new \in SUBSET (0..1) /\ 2 \div Cardinality(SegmentsOf(s)) \in 1..2
  BY Splittings
<1>2. /\ Cardinality(new) \in Nat
      /\ \A i \in new : Id(i) \in Nat /\ Id(i) \in (lastId + 1)..(lastId + Cardinality(new))
      /\ \A i, j \in new : Id(i) = Id(j) => i = j
  <2>1. \A i \in new : Cardinality({j \in new : j <= i}) \in 1..Cardinality(new)
    BY <1>1, CountedIds
  <2>2. Cardinality(new) \in Nat
    BY <1>1, CountedIds
  <2>3. \A i, j \in new :
          Cardinality({k \in new : k <= i}) = Cardinality({k \in new : k <= j}) => i = j
    BY <1>1, CountedIds
  <2> QED BY <2>1, <2>2, <2>3
<1>3. log[s][seq].cites \in SUBSET Nat /\ log[s][seq].time \in Nat
  BY DEF EventsOK
<1> HIDE DEF Id
<1>4. ASSUME NEW i \in new
      PROVE  LET r == SegmentRow(s, seq, i, Id(i)) IN
               /\ r \in Row
               /\ r.kind = "compaction" /\ r.session = s /\ r.workspace = Cwd[s] /\ r.seq = seq
               /\ r.segment = i /\ r.size = 2 \div Cardinality(SegmentsOf(s))
               /\ r.shadowed = log[s][seq].cites /\ r.supersededBy = 0 /\ r.id = Id(i)
  BY <1>1, <1>2, <1>3 DEF SegmentRow, Row
<1>5. Inserted(s, seq, new, added)
  BY <1>2, <1>4 DEF Inserted
<1> QED BY <1>5 DEF Id

\* A checkpoint's segments are stored: whole, unless another process stored a
\* group of this seq in the meantime.
LEMMA GroupStored ==
  ASSUME IInv, TInv, Onward, BudgetFalls, NEW h \in Hosts, insertCompaction(h)
  PROVE  TInv'
<1> DEFINE s == harvest[h].session
           seq == harvest[h].seq
           taken == {r.segment : r \in {q \in rows : q.workspace = Cwd[s] /\ q.seq = seq}}
           new == SegmentsOf(s) \ taken
           added == {SegmentRow(s, seq, i, lastId + Cardinality({j \in new : j <= i})) : i \in new}
<1>1. /\ HarvestOK(h) /\ harvest[h].phase = "insert"
      /\ rows' = rows \cup added /\ lastId' = lastId + Cardinality(new)
      /\ harvest' = [harvest EXCEPT ![h] =
           IF new = {} THEN NoHarvest ELSE [@ EXCEPT !.phase = "select", !.by = lastId + 1]]
  BY DEF TInv, insertCompaction
<1>2. /\ s \in Sessions /\ HostOf[s] = h /\ seq \in DOMAIN log[s] /\ seq \in Nat /\ seq # 0
      /\ \A r \in rows : r.workspace = Cwd[s] /\ r.seq = seq => HostOf[r.session] # h
      /\ lastId \in Nat
  BY <1>1, CheckpointSeq DEF HarvestOK, Harvest, TInv, TableOK
<1>3. Inserted(s, seq, new, added) /\ Cardinality(new) \in Nat
  <2>1. EventsOK(s) /\ new \in SUBSET SegmentsOf(s) /\ new \in SUBSET (0..1)
    BY <1>2, Splittings DEF TInv
  <2> HIDE DEF s, seq, new
  <2>2. Cardinality(new) \in Nat
    BY <2>1, CountedIds
  <2>3. Inserted(s, seq, new,
          {SegmentRow(s, seq, i, lastId + Cardinality({j \in new : j <= i})) : i \in new})
    BY <1>2, <2>1, Segments
  <2> QED BY <2>2, <2>3
<1>4. /\ DOMAIN harvest' = Hosts /\ \A g \in Hosts : g # h => harvest'[g] = harvest[g]
      /\ new = {} => harvest'[h] = NoHarvest
      /\ new # {} => /\ harvest'[h] \in Harvest /\ harvest'[h].phase = "select"
                     /\ harvest'[h].session = s /\ harvest'[h].seq = seq
                     /\ harvest'[h].by = lastId + 1 /\ harvest'[h].targets = harvest[h].targets
  <2>1. harvest[h] \in Harvest /\ DOMAIN harvest = Hosts
    BY <1>1 DEF HarvestOK, TInv
  <2>2. lastId + 1 \in Nat
    BY <1>2
  <2>3. \A v \in Harvest, n \in Nat :
          LET w == [v EXCEPT !.phase = "select", !.by = n] IN
          /\ w \in Harvest /\ w.phase = "select" /\ w.by = n
          /\ w.session = v.session /\ w.seq = v.seq /\ w.targets = v.targets
    BY DEF Harvest
  <2> HIDE DEF new
  <2> QED BY <1>1, <2>1, <2>2, <2>3
<1>5. taken = {} <=> ~\E r \in rows : r.workspace = Cwd[s] /\ r.seq = seq
  OBVIOUS
<1>6. taken = {} => new = SegmentsOf(s)
  OBVIOUS
<1>7. new = {} => added = {}
  OBVIOUS
<1> HIDE DEF s, seq, taken, new, added
<1>8. TableOK'
  <2>1. rows' \in SUBSET Row /\ lastId' \in Nat /\ \A r \in rows' : r.id \in 1..lastId'
    BY <1>1, <1>2, <1>3 DEF TInv, TableOK, Inserted
  <2>2. ASSUME NEW r \in rows' PROVE Recorded(r)'
    <3>1. CASE r \in rows
      BY <3>1 DEF TInv, TableOK, Recorded, Onward, Grows
    <3>2. CASE r \in added
      BY <1>2, <1>3, <3>2 DEF Inserted, Recorded, Onward, Grows
    <3> QED BY <1>1, <3>1, <3>2
  <2>3. \A q, r \in rows' : q.id = r.id => q = r
    BY <1>1, <1>2, <1>3 DEF TInv, TableOK, Inserted
  <2> QED BY <2>1, <2>2, <2>3 DEF TableOK
<1>9. BudgetOK' /\ (Steady' => Steady)
  <2>1. Budget \in [Budgets -> Nat] /\ "fault" \in Budgets /\ "crash" \in Budgets
    BY BoundsAssumption DEF Budgets, Events
  <2> QED BY <2>1 DEF TInv, BudgetOK, BudgetFalls, Steady
<1>10. ChainInv'
  <2> SUFFICES ASSUME Steady', NEW old \in rows', NEW newer \in rows', Replaces(newer, old)
               PROVE  old.supersededBy # 0 \/ Marking(newer, old)'
    BY DEF ChainInv, Replaces
  <2>1. CASE newer \in added
    BY <1>2, <1>3, <1>4, <1>7, <2>1 DEF Inserted, Marking
  <2>2. CASE newer \in rows /\ old \in added
    BY <1>2, <1>3, <2>2 DEF Inserted, Replaces, TInv, TableOK
  <2>3. CASE newer \in rows /\ old \in rows
    <3>1. old.supersededBy # 0 \/ Marking(newer, old)
      BY <1>9, <2>3 DEF TInv, ChainInv
    <3>2. HostOf[newer.session] \in Hosts
      BY <2>3, HostAssumption DEF TInv, TableOK, Recorded, Replaces
    <3> QED BY <1>1, <1>4, <3>1, <3>2 DEF Marking
  <2> QED BY <1>1, <2>1, <2>2, <2>3
<1>11. GroupsInv'
  <2> SUFFICES ASSUME NEW r \in rows', r.kind = "compaction" PROVE GroupOK(r)'
    BY DEF GroupsInv
  <2>1. CASE ~(r.workspace = Cwd[s] /\ r.seq = seq)
    <3>1. r \in rows /\ GroupOf(r)' = GroupOf(r)
      BY <1>1, <1>3, <2>1 DEF Inserted, GroupOf
    <3>2. GroupOK(r)
      BY <3>1 DEF TInv, GroupsInv
    <3> QED BY <3>1, <3>2 DEF GroupOK, Spliced
  <2>2. CASE r.workspace = Cwd[s] /\ r.seq = seq /\ taken = {}
    <3>1. GroupOf(r)' = added
      BY <1>1, <1>3, <1>5, <2>2 DEF Inserted, GroupOf
    <3>2. r \in added
      BY <1>1, <1>5, <2>2
    <3>3. \A q \in added : q.session = r.session /\ q.supersededBy = r.supersededBy
      BY <1>3, <3>2 DEF Inserted
    <3>4. Whole(added)
      <4>1. SegmentsOf(s) \in {{0}, 0..1} /\ new = SegmentsOf(s)
        BY <1>6, <2>2, Splittings
      <4>2. {q.segment : q \in added} = SegmentsOf(s)
        BY <1>3, <4>1 DEF Inserted
      <4> QED BY <1>3, <4>1, <4>2 DEF Inserted, Whole
    <3> QED BY <3>1, <3>3, <3>4 DEF GroupOK
  <2>3. CASE r.workspace = Cwd[s] /\ r.seq = seq /\ taken # {} /\ new = {}
    <3>1. rows' = rows
      BY <1>1, <1>7, <2>3
    <3>2. GroupOf(r)' = GroupOf(r) /\ GroupOK(r)
      BY <3>1, <2>2 DEF GroupOf, TInv, GroupsInv
    <3> QED BY <3>2 DEF GroupOK, Spliced
  <2>4. CASE r.workspace = Cwd[s] /\ r.seq = seq /\ taken # {} /\ new # {}
    <3>1. PICK q \in rows : q.workspace = Cwd[s] /\ q.seq = seq
      BY <1>5, <2>4
    <3>2. PICK n \in added : TRUE
      BY <1>3, <2>4 DEF Inserted
    <3>3. q \in GroupOf(r)' /\ n \in GroupOf(r)'
      BY <1>1, <1>3, <2>4, <3>1, <3>2 DEF GroupOf, Inserted
    <3>4. HostOf[q.session] # h /\ HostOf[n.session] = h
      BY <1>2, <1>3, <3>1, <3>2 DEF Inserted
    <3>5. \E p \in GroupOf(r)' : HostOf[p.session] # HostOf[r.session]
      BY <3>3, <3>4
    <3> QED BY <3>5 DEF GroupOK, Spliced
  <2> QED BY <2>1, <2>2, <2>3, <2>4
<1>12. ASSUME NEW targets \in SUBSET (1..lastId), TargetsWhole(targets)
       PROVE  TargetsWhole(targets)' /\ targets \in SUBSET (1..lastId')
  <2>1. targets \in SUBSET (1..lastId')
    BY <1>1, <1>2, <1>3
  <2>2. ASSUME NEW r \in rows', r.kind = "compaction", r.id \in targets
        PROVE  Spliced(r)' \/ \A q \in GroupOf(r)' : q.id \in targets
    <3>1. r \in rows
      BY <1>1, <1>2, <1>3, <2>2 DEF Inserted
    <3>2. Spliced(r) \/ \A q \in GroupOf(r) : q.id \in targets
      BY <1>12, <2>2, <3>1 DEF TargetsWhole
    <3>3. GroupOf(r) \subseteq GroupOf(r)' /\ \A q \in GroupOf(r)' : q \in GroupOf(r) \/ q \in added
      BY <1>1 DEF GroupOf
    <3>4. CASE Spliced(r)
      BY <3>3, <3>4 DEF Spliced
    <3>5. CASE \A q \in GroupOf(r)' : q \in GroupOf(r)
      BY <3>2, <3>3, <3>4, <3>5
    <3>6. ASSUME NEW n \in added, n \in GroupOf(r)' PROVE Spliced(r)'
      <4>1. r.workspace = Cwd[s] /\ r.seq = seq /\ n.session = s
        BY <1>3, <3>6 DEF Inserted, GroupOf
      <4>2. HostOf[r.session] # h /\ HostOf[n.session] = h
        BY <1>2, <3>1, <4>1
      <4> QED BY <3>6, <4>2 DEF Spliced
    <3> QED BY <3>3, <3>5, <3>6
  <2> QED BY <2>1, <2>2 DEF TargetsWhole
<1>13. ASSUME NEW g \in Hosts PROVE HarvestOK(g)'
  <2>1. CASE g = h /\ new = {}
    BY <1>4, <2>1, NothingToDo
  <2>2. CASE g = h /\ new # {}
    <3>1. PICK T : T = harvest[h].targets
      OBVIOUS
    <3>2. T \in SUBSET (1..lastId') /\ TargetsWhole(T)'
      BY <1>1, <1>12, <3>1 DEF HarvestOK
    <3>3. harvest'[h].targets = T
      BY <1>4, <2>2, <3>1
    <3>4. harvest[h].targets' \in SUBSET (1..lastId') /\ TargetsWhole(harvest[h].targets)'
      BY <3>2, <3>3
    <3> QED BY <1>2, <1>4, <2>2, <3>4 DEF HarvestOK, Onward, Grows
  <2>3. CASE g # h
    <3>1. HarvestOK(g) /\ harvest'[g] = harvest[g]
      BY <1>4, <2>3 DEF TInv
    <3>2. \A r \in added : HostOf[r.session] # g
      BY <1>2, <1>3, <2>3 DEF Inserted
    <3>3. PICK T : T = harvest[g].targets
      OBVIOUS
    <3>4. T \in SUBSET (1..lastId') /\ TargetsWhole(T)'
      BY <1>12, <3>1, <3>3 DEF HarvestOK
    <3>5. harvest[g].targets' \in SUBSET (1..lastId') /\ TargetsWhole(harvest[g].targets)'
      BY <3>1, <3>3, <3>4
    <3> QED BY <1>1, <3>1, <3>2, <3>5 DEF HarvestOK, Onward, Grows
  <2> QED BY <2>1, <2>2, <2>3
<1> QED BY <1>4, <1>8, <1>9, <1>10, <1>11, <1>13 DEF TInv, Onward

\* What a checkpoint replaces is found, each group as one.
LEMMA TargetsFound ==
  ASSUME IInv, TInv, Onward, BudgetFalls, NEW h \in Hosts, selectTargets(h)
  PROVE  TInv'
<1> DEFINE s == harvest[h].session
           cites == log[s][harvest[h].seq].cites
           targets == detectSupersession(cites, listActive(Cwd[s], s))
           Hit(r) == /\ r.kind = "compaction" /\ r.supersededBy = 0
                     /\ r.workspace = Cwd[s] /\ r.seq \in cites
<1>1. /\ HarvestOK(h) /\ harvest[h].phase = "select" /\ s \in Sessions /\ HostOf[s] = h
      /\ rows' = rows /\ lastId' = lastId /\ DOMAIN harvest' = Hosts
      /\ \A g \in Hosts : g # h => harvest'[g] = harvest[g]
      /\ harvest'[h] = IF targets = {} THEN NoHarvest
                       ELSE [harvest[h] EXCEPT !.phase = "mark", !.targets = targets]
  BY DEF TInv, selectTargets, HarvestOK, Harvest, store
<1>2. /\ rows \in SUBSET Row /\ \A r \in rows : Recorded(r) /\ r.id \in 1..lastId
      /\ \A q, r \in rows : q.id = r.id => q = r
  BY DEF TInv, TableOK
<1>3. Cwd[s] # NoOne /\ \A t \in Sessions : Cwd[t] # NoOne
  BY <1>1, NoOneAssumption
<1>4. /\ \A r \in rows : r.id \in targets <=> Hit(r)
      /\ targets \in SUBSET (1..lastId)
  <2>1. ASSUME NEW r \in rows, r.kind = "compaction"
        PROVE  Visible(r, Cwd[s], s) <=> r.supersededBy = 0 /\ r.workspace = Cwd[s]
    BY <1>2, <1>3, <2>1 DEF Visible, Recorded
  <2> QED BY <1>2, <2>1 DEF detectSupersession, listActive
<1>5. PICK T : T = targets
  OBVIOUS
<1>6. /\ harvest'[h] = NoHarvest
         \/ (/\ harvest'[h] \in Harvest /\ harvest'[h].phase = "mark" /\ harvest'[h].targets = T
             /\ harvest'[h].session = harvest[h].session /\ harvest'[h].seq = harvest[h].seq
             /\ harvest'[h].by = harvest[h].by)
      /\ T # {} => harvest'[h] # NoHarvest
  <2> HIDE DEF targets
  <2>1. harvest[h] \in Harvest /\ T \in SUBSET Nat
    <3>1. T \in SUBSET (1..lastId) /\ lastId \in Nat
      BY <1>4, <1>5 DEF TInv, TableOK
    <3> QED BY <1>1, <3>1 DEF HarvestOK
  <2>2. \A v \in Harvest :
          LET w == [v EXCEPT !.phase = "mark", !.targets = T] IN
          /\ w \in Harvest /\ w.phase = "mark" /\ w.targets = T
          /\ w.session = v.session /\ w.seq = v.seq /\ w.by = v.by
    BY <2>1 DEF Harvest
  <2>3. NoHarvest.phase = "none"
    BY DEF NoHarvest
  <2>4. CASE T = {}
    BY <1>1, <1>5, <2>4
  <2>5. CASE T # {}
    <3>1. harvest'[h] = [harvest[h] EXCEPT !.phase = "mark", !.targets = T]
      BY <1>1, <1>5, <2>5
    <3> QED BY <2>1, <2>2, <2>3, <3>1
  <2> QED BY <2>4, <2>5
<1> HIDE DEF targets
<1>7. TargetsWhole(T)
  <2> SUFFICES ASSUME NEW r \in rows, r.kind = "compaction", r.id \in T
               PROVE  Spliced(r) \/ \A q \in GroupOf(r) : q.id \in T
    BY DEF TargetsWhole
  <2>1. Hit(r) /\ GroupOK(r)
    BY <1>4, <1>5 DEF TInv, GroupsInv
  <2>2. \A q \in GroupOf(r) : q \in rows /\ q.kind = "compaction" /\ q.workspace = r.workspace /\ q.seq = r.seq
    BY <1>2, CheckpointSeq DEF GroupOf, Recorded
  <2>3. CASE \A q \in GroupOf(r) : q.supersededBy = r.supersededBy
    BY <1>4, <1>5, <2>1, <2>2, <2>3
  <2> QED BY <2>1, <2>3 DEF GroupOK
<1>9. \A r \in rows' : GroupOf(r)' = GroupOf(r) /\ GroupOf(r) \subseteq rows'
  BY <1>1 DEF GroupOf
<1>10. ASSUME NEW g \in Hosts PROVE HarvestOK(g)'
  <2>1. CASE harvest'[g] \in {harvest[g], NoHarvest}
    BY <1>1, <1>9, <2>1, HarvestKept
  <2>2. CASE g = h /\ harvest'[h] # NoHarvest
    <3>1. TargetsWhole(T)'
      BY <1>1, <1>7, <1>9 DEF TargetsWhole, Spliced
    <3>2. TargetsWhole(harvest[h].targets)'
      BY <1>6, <2>2, <3>1
    <3> QED BY <1>1, <1>4, <1>5, <1>6, <2>2, <3>2 DEF HarvestOK, Onward, Grows
  <2> QED BY <1>1, <2>1, <2>2
<1>11. ASSUME NEW old \in rows', NEW new \in rows', Replaces(new, old), Marking(new, old)
       PROVE  old.supersededBy # 0 \/ Marking(new, old)'
  <2>1. HostOf[new.session] \in Hosts
    BY <1>1, <1>2, <1>11, HostAssumption DEF Recorded, Replaces
  <2>2. CASE HostOf[new.session] # h
    BY <1>1, <1>11, <2>1, <2>2 DEF Marking
  <2>3. CASE HostOf[new.session] = h /\ old.supersededBy = 0
    <3>1. new.session = s /\ new.seq = harvest[h].seq /\ new.shadowed = cites
      BY <1>1, <1>2, <1>11, <2>3 DEF Marking, Recorded, Replaces
    <3>2. Hit(old)
      BY <1>1, <1>2, <1>11, <2>3, <3>1 DEF Replaces, Recorded
    <3>3. old.id \in T
      BY <1>1, <1>4, <1>5, <3>2
    <3> QED BY <1>6, <2>3, <3>1, <3>3 DEF Marking
  <2> QED BY <2>2, <2>3
<1> QED BY <1>1, <1>9, <1>10, <1>11, TableKept

\* What was found is marked, each group as one.
LEMMA GroupsMarked ==
  ASSUME IInv, TInv, Onward, BudgetFalls, NEW h \in Hosts, markSuperseded(h)
  PROVE  TInv'
<1> DEFINE by == harvest[h].by
           targets == harvest[h].targets
           Hit(r) == r.id \in targets /\ r.supersededBy = 0
           M(r) == IF Hit(r) THEN [r EXCEPT !.supersededBy = by] ELSE r
<1>1. /\ HarvestOK(h) /\ harvest[h].phase = "mark"
      /\ by \in Nat /\ by # 0 /\ TargetsWhole(targets)
      /\ rows' = {M(r) : r \in rows} /\ lastId' = lastId
      /\ harvest' = [harvest EXCEPT ![h] = NoHarvest]
  BY DEF TInv, markSuperseded, HarvestOK, Harvest
<1>2. /\ rows \in SUBSET Row /\ \A r \in rows : Recorded(r) /\ r.id \in 1..lastId
      /\ \A q, r \in rows : q.id = r.id => q = r
  BY DEF TInv, TableOK
<1>5. ASSUME NEW r \in rows
      PROVE  /\ M(r) \in Row /\ M(r).id = r.id /\ M(r).workspace = r.workspace
             /\ M(r).session = r.session /\ M(r).kind = r.kind /\ M(r).seq = r.seq
             /\ M(r).segment = r.segment /\ M(r).size = r.size /\ M(r).shadowed = r.shadowed
             /\ M(r).supersededBy = IF Hit(r) THEN by ELSE r.supersededBy
  <2>1. r \in Row
    BY <1>2
  <2> HIDE DEF by, Hit
  <2> QED BY <1>1, <2>1 DEF Row
<1>6. /\ \A r \in rows : M(r) \in rows'
      /\ \A x \in rows' : \E r \in rows : x = M(r)
  BY <1>1
<1> HIDE DEF M, targets, by
<1>7. TableOK'
  <2>1. \A x \in rows' : x \in Row /\ x.id \in 1..lastId
    BY <1>2, <1>5, <1>6
  <2>2. \A x, y \in rows' : x.id = y.id => x = y
    BY <1>2, <1>5, <1>6
  <2>3. ASSUME NEW x \in rows' PROVE Recorded(x)'
    <3>1. PICK r \in rows : x = M(r)
      BY <1>6
    <3>2. /\ Recorded(r) /\ x.workspace = r.workspace /\ x.session = r.session
          /\ x.kind = r.kind /\ x.seq = r.seq /\ x.shadowed = r.shadowed
      BY <1>2, <1>5, <3>1
    <3> QED BY <3>2 DEF Recorded, Onward, Grows
  <2> QED BY <1>1, <2>1, <2>2, <2>3 DEF TableOK, TInv
<1>8. BudgetOK' /\ (Steady' => Steady)
  <2>1. Budget \in [Budgets -> Nat] /\ "fault" \in Budgets /\ "crash" \in Budgets
    BY BoundsAssumption DEF Budgets, Events
  <2> QED BY <2>1 DEF TInv, BudgetOK, BudgetFalls, Steady
<1>9. DOMAIN harvest' = Hosts /\ \A g \in Hosts : g # h => harvest'[g] = harvest[g]
  BY <1>1 DEF TInv
<1>10. ChainInv'
  <2> SUFFICES ASSUME Steady', NEW x \in rows', NEW y \in rows', Replaces(y, x)
               PROVE  x.supersededBy # 0 \/ Marking(y, x)'
    BY DEF ChainInv, Replaces
  <2>1. PICK old \in rows, new \in rows : x = M(old) /\ y = M(new)
    BY <1>6
  <2>2. Replaces(new, old) /\ y.session = new.session /\ y.seq = new.seq /\ x.id = old.id
    BY <1>5, <2>1 DEF Replaces
  <2>3. old.supersededBy # 0 \/ Marking(new, old)
    BY <1>8, <2>2 DEF TInv, ChainInv
  <2>4. HostOf[new.session] \in Hosts
    BY <1>2, <2>2, HostAssumption DEF Recorded, Replaces
  <2>5. CASE old.supersededBy # 0
    BY <1>5, <2>1, <2>5
  <2>6. CASE Marking(new, old) /\ HostOf[new.session] # h
    BY <1>9, <2>2, <2>4, <2>6 DEF Marking
  <2>7. CASE Marking(new, old) /\ HostOf[new.session] = h /\ old.supersededBy = 0
    <3>1. Hit(old)
      BY <1>1, <2>7 DEF Marking, targets
    <3> QED BY <1>1, <1>5, <2>1, <3>1
  <2> QED BY <2>3, <2>5, <2>6, <2>7
<1>11. GroupsInv'
  <2> SUFFICES ASSUME NEW x \in rows', x.kind = "compaction" PROVE GroupOK(x)'
    BY DEF GroupsInv
  <2>1. PICK r \in rows : x = M(r)
    BY <1>6
  <2>2. r.kind = "compaction" /\ GroupOK(r)
    BY <1>5, <2>1 DEF TInv, GroupsInv
  <2>3. /\ \A q \in GroupOf(r) : M(q) \in GroupOf(x)'
        /\ \A y \in GroupOf(x)' : \E q \in GroupOf(r) : y = M(q)
    BY <1>5, <1>6, <2>1 DEF GroupOf
  <2>4. GroupOf(r) \subseteq rows
    BY DEF GroupOf
  <2>5. CASE Spliced(r)
    <3>1. PICK q \in GroupOf(r) : HostOf[q.session] # HostOf[r.session]
      BY <2>5 DEF Spliced
    <3>2. M(q) \in GroupOf(x)' /\ M(q).session = q.session /\ x.session = r.session
      BY <1>5, <2>1, <2>3, <2>4, <3>1
    <3> QED BY <3>1, <3>2 DEF GroupOK, Spliced
  <2>6. CASE /\ \A q \in GroupOf(r) : q.session = r.session /\ q.supersededBy = r.supersededBy
             /\ Whole(GroupOf(r))
    <3>1. \A q \in GroupOf(r) : q.kind = "compaction" /\ GroupOf(q) = GroupOf(r)
      BY <1>2, <2>2, CheckpointSeq DEF GroupOf, Recorded
    <3>2. \A q \in GroupOf(r) : Hit(q) <=> Hit(r)
      <4>1. r \in GroupOf(r)
        BY DEF GroupOf
      <4>2. \A p, q \in GroupOf(r) : p.id \in targets => q.id \in targets
        BY <1>1, <2>4, <2>6, <3>1 DEF TargetsWhole, Spliced
      <4> QED BY <2>6, <4>1, <4>2
    <3>3. \A q \in GroupOf(r) : M(q).session = x.session /\ M(q).supersededBy = x.supersededBy
      BY <1>5, <2>1, <2>4, <2>6, <3>2
    <3>4. \A y \in GroupOf(x)' : y.session = x.session /\ y.supersededBy = x.supersededBy
      BY <2>3, <3>3
    <3>5. PICK segments \in {{0}, 0..1} :
            /\ {q.segment : q \in GroupOf(r)} = segments
            /\ \A q \in GroupOf(r) : q.size = 2 \div Cardinality(segments)
            /\ \A p, q \in GroupOf(r) : p.segment = q.segment => p = q
      BY <2>6 DEF Whole
    <3>6. \A q \in GroupOf(r) : M(q).segment = q.segment /\ M(q).size = q.size
      BY <1>5, <2>4
    <3>7. {y.segment : y \in GroupOf(x)'} = segments
      BY <2>3, <3>5, <3>6
    <3>8. \A y \in GroupOf(x)' : y.size = 2 \div Cardinality(segments)
      BY <2>3, <3>5, <3>6
    <3>9. \A y, z \in GroupOf(x)' : y.segment = z.segment => y = z
      BY <2>3, <3>5, <3>6
    <3>10. Whole(GroupOf(x))'
      BY <3>7, <3>8, <3>9 DEF Whole
    <3> QED BY <3>4, <3>10 DEF GroupOK
  <2> QED BY <2>2, <2>5, <2>6 DEF GroupOK
<1>12. ASSUME NEW g \in Hosts PROVE HarvestOK(g)'
  <2>1. CASE g = h
    BY <1>1, <2>1, NothingToDo DEF TInv
  <2>2. CASE g # h
    <3>1. HarvestOK(g) /\ harvest'[g] = harvest[g]
      BY <1>9, <2>2 DEF TInv
    <3>2. \A x \in rows' : \E r \in rows :
            x.workspace = r.workspace /\ x.seq = r.seq /\ x.session = r.session
      BY <1>5, <1>6
    <3>3. PICK T : T = harvest[g].targets
      OBVIOUS
    <3>4. TargetsWhole(T)'
      <4> SUFFICES ASSUME NEW x \in rows', x.kind = "compaction", x.id \in T
                   PROVE  Spliced(x)' \/ \A y \in GroupOf(x)' : y.id \in T
        BY DEF TargetsWhole
      <4>1. PICK r \in rows : x = M(r)
        BY <1>6
      <4>2. /\ \A q \in GroupOf(r) : M(q) \in GroupOf(x)' /\ q \in rows
            /\ \A y \in GroupOf(x)' : \E q \in GroupOf(r) : y = M(q)
        BY <1>5, <1>6, <4>1 DEF GroupOf
      <4>3. Spliced(r) \/ \A q \in GroupOf(r) : q.id \in T
        BY <1>5, <3>1, <3>3, <4>1 DEF HarvestOK, TargetsWhole
      <4>4. CASE Spliced(r)
        BY <1>5, <4>1, <4>2, <4>4 DEF Spliced
      <4>5. CASE \A q \in GroupOf(r) : q.id \in T
        BY <1>5, <4>2, <4>5
      <4> QED BY <4>3, <4>4, <4>5
    <3>5. TargetsWhole(harvest[g].targets)'
      BY <3>1, <3>3, <3>4
    <3> QED BY <1>1, <3>1, <3>2, <3>5 DEF HarvestOK, Onward, Grows
  <2> QED BY <2>1, <2>2
<1> QED BY <1>7, <1>8, <1>9, <1>10, <1>11, <1>12 DEF TInv, Onward

LEMMA TableNext == IInv /\ TInv /\ [Next]_vars => TInv'
<1> SUFFICES ASSUME IInv, TInv, [Next]_vars PROVE TInv'
  OBVIOUS
<1>1. Onward /\ BudgetFalls
  BY LogsGoOn, BudgetSteps DEF TInv
<1>2. CASE UNCHANGED <<store, harvest>>
  BY <1>1, <1>2, StillTable
<1>3. ASSUME NEW s \in Sessions, NEW hi \in DOMAIN surface[s], Compact(s, hi) PROVE TInv'
  <2> DEFINE seq == Len(log[s]) + 2
  <2>1. LogInv(s) /\ DOMAIN log = Sessions /\ DOMAIN surface = Sessions
    BY DEF IInv
  <2>2. LogInv(s)' /\ Len(log'[s]) = seq /\ Len(log[s]) \in Nat
    <3>1. LogInv(s)' /\ Len(log'[s]) = Len(log[s]) + 2
      BY <1>3, <2>1, CompactKeeps
    <3>2. Len(log[s]) \in Nat
      BY <2>1 DEF LogInv
    <3> QED BY <3>1, <3>2
  <2>3. seq \in Nat /\ seq \in DOMAIN log'[s]
    BY <2>2 DEF LogInv
  <2>4. UNCHANGED store /\ Free(s) /\ harvestCompaction(s, seq, Gate(s, seq))
    BY <1>3 DEF Compact
  <2> HIDE DEF seq
  <2> QED BY <1>1, <2>3, <2>4, HarvestBegins
<1>4. ASSUME NEW s \in Sessions, NEW seq \in DOMAIN log[s], Replay(s, seq) PROVE TInv'
  <2>1. seq \in DOMAIN log'[s] /\ seq \in Nat
    BY <1>4 DEF Replay, session, IInv, LogInv
  <2>2. UNCHANGED store /\ Free(s) /\ harvestCompaction(s, seq, Gate(s, seq))
    BY <1>4 DEF Replay
  <2> QED BY <1>1, <2>1, <2>2, HarvestBegins
<1>5. ASSUME NEW s \in Sessions, Tools(s) PROVE TInv'
  <2>1. CASE memory_tidy(s)
    BY <1>2, <2>1 DEF memory_tidy
  <2> QED BY <1>1, <1>5, <2>1, NoteStored, RowsGo DEF Tools
<1>6. ASSUME NEW s \in Sessions, Harness(s) PROVE TInv'
  <2>1. CASE TurnStart(s) \/ TurnStopping(s)
    BY <1>2, <2>1 DEF TurnStart, TurnStopping
  <2> QED BY <1>1, <1>3, <1>4, <1>6, <2>1, RowsGo DEF Harness
<1>7. ASSUME NEW s \in Sessions, PreStep(s) \/ Enter(s) \/ Reject(s) PROVE TInv'
  BY <1>2, <1>7 DEF PreStep, Enter, Reject
<1>8. ASSUME NEW h \in Hosts, Process(h) PROVE TInv'
  BY <1>1, <1>8, GroupStored, TargetsFound, GroupsMarked, HarvestLost DEF Process
<1>9. CASE UNCHANGED vars
  BY <1>2, <1>9 DEF vars, store
<1> QED BY <1>5, <1>6, <1>7, <1>8, <1>9 DEF Next

LEMMA TableInvariance == Spec => []TInv
<1>1. Init => TInv
  <2> SUFFICES ASSUME Init PROVE TInv
    OBVIOUS
  <2>1. TableOK /\ GroupsInv /\ ChainInv
    BY DEF Init, TableOK, GroupsInv, ChainInv
  <2>2. BudgetOK
    BY BoundsAssumption DEF Init, BudgetOK
  <2>3. DOMAIN harvest = Hosts /\ \A h \in Hosts : HarvestOK(h)
    BY DEF Init, HarvestOK, NoHarvest, Harvest, TargetsWhole
  <2>4. \A t \in Sessions : EventsOK(t)
    BY DEF Init, EventsOK
  <2> QED BY <2>1, <2>2, <2>3, <2>4 DEF TInv
<1> QED BY <1>1, TableNext, Invariance, PTL DEF Spec

\* Every row is a note of the global, a workspace's or a session's scope, or a
\* segment of a checkpoint in its session's log, with what the log says of it;
\* an id, once given, is never given again (store.ts:43-59, 95-156).
THEOREM RowsAreRecorded == Spec => []TableOK
<1>1. TInv => TableOK
  BY DEF TInv
<1> QED BY <1>1, TableInvariance, PTL

\* Groups stay whole under replays, another entry cap, forgets and crashes,
\* unless two processes stored groups of one seq (index.ts:322-361,
\* store.ts:119-156).
THEOREM GroupsStayWhole == Spec => []GroupsWhole
<1>1. TInv => GroupsWhole
  BY DEF TInv, GroupsInv, GroupOK, Spliced, GroupsWhole
<1> QED BY <1>1, TableInvariance, PTL

\* A chain of compactions leaves one active group, but for the moment between
\* a checkpoint's insert and its mark (index.ts:349-360, store.ts:159-166).
THEOREM OneGroupPerChain == Spec => []ChainIsOneGroup
<1>1. TInv => ChainIsOneGroup
  BY DEF TInv, ChainInv, ChainIsOneGroup, Steady, Replaces, Marking
<1> QED BY <1>1, TableInvariance, PTL

-----------------------------------------------------------------------------
(* What is shown.                                                          *)

\* What session t may be shown.
Own(t, shown) ==
  \A r \in shown.rows :
    /\ r.workspace \in {NoOne, Cwd[t]}
    /\ r.kind = "manual" => r.session \in {NoOne, t}
    /\ r.kind = "compaction" => r.session # t

OwnInv ==
  /\ DOMAIN step = Sessions
  /\ \A t \in Sessions : Own(t, step[t]) /\ \A i \in DOMAIN log[t] : Own(t, log[t][i].shows)

\* A block is made of rows the fence lets through.
LEMMA BlockRows ==
  ASSUME NEW active, NEW s
  PROVE  LET b == assembleMemoryBlock(active, s) IN
           b.notes \cup UNION {g.segments : g \in b.groups} \subseteq Eligible(active, s)
<1> DEFINE rs == Eligible(active, s)
           b == assembleMemoryBlock(active, s)
<1>1. AdmittedNotes(rs) \subseteq rs
  BY DEF AdmittedNotes, Admit, Notes
<1>2. AdmittedGroups(rs) \subseteq Groups(rs)
  BY DEF AdmittedGroups, Admit
<1>3. \A g \in Groups(rs) : g.segments \subseteq rs
  <2> HIDE DEF rs
  <2>1. \A seq : Group(rs, seq).segments = {r \in rs : r.kind = "compaction" /\ r.seq = seq}
    BY DEF Group
  <2> QED BY <2>1 DEF Groups
<1>4. CASE rs = {}
  BY <1>4 DEF assembleMemoryBlock, NoBlock
<1>5. CASE rs # {}
  <2>1. b.notes = AdmittedNotes(rs) /\ b.groups = AdmittedGroups(rs)
    BY <1>5 DEF assembleMemoryBlock
  <2> HIDE DEF b, rs
  <2> QED BY <1>1, <1>2, <1>3, <2>1 DEF b, rs
<1> QED BY <1>4, <1>5

LEMMA BlockIsOwn ==
  ASSUME TInv, NEW s \in Sessions
  PROVE  Own(s, BlockFor(s))
<1> DEFINE active == listActive(Cwd[s], s)
           b == assembleMemoryBlock(active, s)
           shown == b.notes \cup UNION {g.segments : g \in b.groups}
<1>1. shown \subseteq Eligible(active, s)
  BY BlockRows
<1>2. ASSUME NEW r \in Eligible(active, s)
      PROVE  /\ r.workspace \in {NoOne, Cwd[s]}
             /\ r.kind = "manual" => r.session \in {NoOne, s}
             /\ r.kind = "compaction" => r.session # s
  <2>1. r \in rows /\ Visible(r, Cwd[s], s) /\ ~(r.kind = "compaction" /\ r.session = s)
    BY <1>2 DEF Eligible, listActive
  <2>2. Recorded(r)
    BY <2>1 DEF TInv, TableOK
  <2> QED BY <2>1, <2>2, NoOneAssumption DEF Visible, Recorded
<1>3. BlockFor(s).rows =
        {[id |-> r.id, kind |-> r.kind, workspace |-> r.workspace, session |-> r.session] : r \in shown}
  BY DEF BlockFor, Shown
<1> HIDE DEF shown
<1> QED BY <1>1, <1>2, <1>3 DEF Own

\* What a pre-step waits to append is the block of its time.
LEMMA StepRows ==
  ASSUME IInv, [Next]_vars
  PROVE  /\ DOMAIN step' = Sessions
         /\ \A t \in Sessions : step'[t] \in {step[t], NoRow, BlockFor(t)}
<1>1. DOMAIN step = Sessions
  BY DEF IInv
<1>2. CASE UNCHANGED step
  BY <1>1, <1>2
<1>3. ASSUME NEW s \in Sessions, PreStep(s)
      PROVE  UNCHANGED step \/ step' = [step EXCEPT ![s] = BlockFor(s)]
  BY <1>3, PreStepPlan DEF Inject, InjectFails
<1>4. ASSUME NEW s \in Sessions, Enter(s) \/ Reject(s) \/ Dispose(s)
      PROVE  step' = [step EXCEPT ![s] = NoRow]
  BY <1>4 DEF Enter, Reject, Dispose
<1>5. ASSUME NEW h \in Hosts, Crash(h)
      PROVE  DOMAIN step' = Sessions /\ \A t \in Sessions : step'[t] \in {step[t], NoRow}
  BY <1>5 DEF Crash
<1>6. ASSUME NEW s \in Sessions, Tools(s) PROVE UNCHANGED step
  BY <1>6 DEF Tools, memory_write, memory_forget, memory_tidy, session
<1>7. ASSUME NEW s \in Sessions, Harness(s), ~Dispose(s) PROVE UNCHANGED step
  BY <1>7 DEF Harness, TurnStart, TurnStopping, Compact, Replay, session
<1>8. ASSUME NEW h \in Hosts, Process(h), ~Crash(h) PROVE UNCHANGED step
  BY <1>8 DEF Process, insertCompaction, selectTargets, markSuperseded, HarvestFails, session
<1>9. CASE UNCHANGED vars
  BY <1>2, <1>9 DEF vars
<1>10. CASE \E s \in Sessions : PreStep(s)
  BY <1>1, <1>3, <1>10
<1>11. CASE \E s \in Sessions : Enter(s) \/ Reject(s) \/ Dispose(s)
  BY <1>1, <1>4, <1>11
<1> QED BY <1>2, <1>5, <1>6, <1>7, <1>8, <1>9, <1>10, <1>11 DEF Next

\* Nothing foreign is ever injected, whichever process stored or forgot rows
\* while the step waited (store.ts:241-246, pure.ts:556-619).
THEOREM OnlyItsOwn == Spec => []NothingForeign
<1>1. Init => OwnInv
  BY DEF Init, OwnInv, Own, NoRow
<1>2. IInv /\ TInv /\ OwnInv /\ [Next]_vars => OwnInv'
  <2> SUFFICES ASSUME IInv, TInv, OwnInv, [Next]_vars, NEW t \in Sessions
               PROVE  Own(t, step'[t]) /\ \A i \in DOMAIN log'[t] : Own(t, log'[t][i].shows)
    BY StepRows DEF OwnInv, Own
  <2>1. Own(t, NoRow) /\ Own(t, BlockFor(t)) /\ Own(t, step[t])
    BY BlockIsOwn DEF Own, NoRow, OwnInv
  <2>2. step'[t] \in {step[t], NoRow, BlockFor(t)}
    BY StepRows
  <2>3. Grows(t) /\ Fresh(t)
    BY Logged DEF TInv, TableOK
  <2>4. ASSUME NEW i \in DOMAIN log'[t] PROVE Own(t, log'[t][i].shows)
    <3>1. CASE i \in DOMAIN log[t]
      BY <2>3, <3>1 DEF Grows, OwnInv
    <3>2. CASE i \notin DOMAIN log[t]
      BY <2>1, <2>3, <3>2 DEF Fresh
    <3> QED BY <3>1, <3>2
  <2> QED BY <2>1, <2>2, <2>4
<1>3. OwnInv => NothingForeign
  BY DEF OwnInv, Own, NothingForeign
<1>4. Spec => []OwnInv
  BY <1>1, <1>2, Invariance, TableInvariance, PTL DEF Spec
<1> QED BY <1>3, <1>4, PTL
=============================================================================
