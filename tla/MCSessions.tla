----------------------------- MODULE MCSessions -----------------------------
(***************************************************************************)
(* Small instances of sessions and login codes for TLC.  Requests and      *)
(* tokens are interchangeable.                                             *)
(***************************************************************************)
EXTENDS SessionProperties, TLC

Symmetry == Permutations(Workers) \cup Permutations(Jtis)
=============================================================================
