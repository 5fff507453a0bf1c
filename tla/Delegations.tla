---------------------------- MODULE Delegations ----------------------------
(***************************************************************************)
(* The two delegations of the package side by side: /btw calls and an      *)
(* OpenCode run.  They share no state, so a behaviour follows one of them. *)
(***************************************************************************)
EXTENDS Btw, OcRun

delegationVars == <<btwVars, ocVars>>

DelegationInit == Init /\ OcInit

DelegationNext ==
  \/ run = "unloaded" /\ BtwNext /\ UNCHANGED ocVars
  \/ (\A i \in Calls : call[i].at = "idle") /\ OcNext /\ UNCHANGED btwVars

DelegationSpec == DelegationInit /\ [][DelegationNext]_delegationVars /\ OcFairness
=============================================================================
