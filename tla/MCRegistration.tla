--------------------------- MODULE MCRegistration ---------------------------
(***************************************************************************)
(* Registration for TLC: three accounts that may refer each other, two     *)
(* updates or requests at a time, one invite.                              *)
(***************************************************************************)
EXTENDS Registration, TLC

CONSTANTS a1, a2, a3, h1, h2

Symmetry == Permutations(Accounts) \cup Permutations(Handlers)
=============================================================================
