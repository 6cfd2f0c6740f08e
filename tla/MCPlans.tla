------------------------------- MODULE MCPlans -------------------------------
(***************************************************************************)
(* Small instances of plans for TLC.                                       *)
(***************************************************************************)
EXTENDS PlanProperties

=============================================================================
