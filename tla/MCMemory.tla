------------------------------ MODULE MCMemory ------------------------------
(* Instances of Memory for TLC: two sessions of one workspace, each in a     *)
(* process of its own, so that their statements interleave.                  *)
EXTENDS Memory, TLC

CONSTANTS a, b, h1, h2, w

MCCwd    == [s \in Sessions |-> w]
TwoHosts == a :> h1 @@ b :> h2

\* a and b, with their processes, are interchangeable.
Swap  == a :> b @@ b :> a @@ h1 :> h2 @@ h2 :> h1
Alike == {Swap, [x \in DOMAIN Swap |-> x]}

\* Two compactions and one of every other event, n of them together.
Bounds(n) == [x \in Budgets |-> CASE x = "compact" -> 2 [] x = "all" -> n [] OTHER -> 1]

MCBudget      == Bounds(4)
ForeignBudget == Bounds(2)
=============================================================================
