---------------------------- MODULE MCMessenger -----------------------------
(* Instances of Messenger for TLC: three sessions, two of them with the same *)
(* title, one of which has a workspace of its own.                           *)
EXTENDS Messenger, TLC

CONSTANTS a, b, c

MCTitle  == a :> "x" @@ b :> "y" @@ c :> "y"
TwoRooms == a :> "w" @@ b :> "w" @@ c :> "v"
=============================================================================
