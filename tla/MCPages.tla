------------------------------- MODULE MCPages -------------------------------
(***************************************************************************)
(* Instances of Pages for TLC.                                             *)
(***************************************************************************)
EXTENDS Pages

MCStamps == 1 .. 6
=============================================================================
