---------------------------- MODULE MCUndoClient ----------------------------
(* Bounded instances of UndoClient for TLC.                                *)
EXTENDS UndoClient, TLC
=============================================================================
