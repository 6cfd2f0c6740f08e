------------------------------ MODULE MCBilling ------------------------------
(***************************************************************************)
(* Small instances of the subscription lifecycle for TLC.                  *)
(***************************************************************************)
EXTENDS BillingProperties, TLC

CONSTANTS u1, p1, p2, s1, s2, w1, w2

\* one user with one subscription; one user with two, on different plans
OneOwner  == s1 :> u1
OnePlan   == s1 :> p1
SameOwner == s1 :> u1 @@ s2 :> u1
TwoPlans  == s1 :> p1 @@ s2 :> p2

WorkerSymmetry == Permutations({w1, w2})

\* Exchanging the two subscriptions together with their plans leaves SameOwner
\* and TwoPlans as they are.
PairSymmetry == WorkerSymmetry \cup {s1 :> s2 @@ s2 :> s1 @@ p1 :> p2 @@ p2 :> p1}
=============================================================================
