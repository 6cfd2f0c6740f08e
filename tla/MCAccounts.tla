------------------------------ MODULE MCAccounts ------------------------------
(***************************************************************************)
(* Small instances of accounts for TLC.                                    *)
(***************************************************************************)
EXTENDS AccountProperties

CONSTANTS adm, usr, new, n1, n2, n3, p1

\* An administrator, a user, and an address without an account
MCFirst ==
  [e \in Emails |->
     [stored |-> e # new, name |-> IF e = adm THEN n1 ELSE n2, password |-> p1,
      active |-> TRUE, verified |-> TRUE, admin |-> e = adm]]

MCOwner == [k \in Codes |-> new]
=============================================================================
