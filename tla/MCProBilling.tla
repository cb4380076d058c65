---------------------------- MODULE MCProBilling -----------------------------
(***************************************************************************)
(* Instances of ProBilling for TLC: a buyer invited by a friend, plans of  *)
(* a few Stars, so that one Credit is a large part of the price.           *)
(***************************************************************************)
EXTENDS ProBilling, TLC

CONSTANTS buyer, friend, month

MCReferrer == (buyer :> friend) @@ (friend :> NoUser)
NobodyInvited == (buyer :> NoUser) @@ (friend :> NoUser)
MCInitialCredits == (buyer :> 2) @@ (friend :> 0)
OnePrice == month :> 4
OneLength == month :> 2

Symmetry == Permutations(Handlers) \cup Permutations(Charges)
=============================================================================
