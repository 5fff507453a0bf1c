--------------------------- MODULE MCDelegations ---------------------------
(* Two calls, from two roots of one workspace and a third of another.      *)
EXTENDS Delegations, TLC

CONSTANTS a, b, c, i, j
MCTitle == a :> "t" @@ b :> "u" @@ c :> "t"
MCCwd == a :> "w" @@ b :> "w" @@ c :> "v"
=============================================================================
