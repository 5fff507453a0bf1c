--------------------------- MODULE MCNotifications ---------------------------
(* Instances of Notifications for TLC: one session, whose row shows an       *)
(* approval over a question.                                                 *)
EXTENDS Notifications, TLC

CONSTANT a

MCInteractions ==
  {[kind |-> "plan-review", session |-> a, n |-> 1], [kind |-> "approval", session |-> a, n |-> 2]}
=============================================================================
