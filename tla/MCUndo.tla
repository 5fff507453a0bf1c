------------------------------- MODULE MCUndo -------------------------------
(* Bounded instances of Undo for TLC; the bounds are in the .cfg files.    *)
EXTENDS Undo, TLC
=============================================================================
