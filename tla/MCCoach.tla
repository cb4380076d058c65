------------------------------- MODULE MCCoach -------------------------------
(***************************************************************************)
(* Coach for TLC.  A session is compressed at two messages and keeps one,  *)
(* as the code does at sixteen and eight.                                  *)
(***************************************************************************)
EXTENDS Coach, TLC

Symmetry == Permutations(Questions) \cup Permutations(Uploads)
=============================================================================
