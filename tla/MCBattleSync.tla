---------------------------- MODULE MCBattleSync -----------------------------
(***************************************************************************)
(* BattleSync for TLC: a log of two battles out of up to three.            *)
(***************************************************************************)
EXTENDS BattleSync, TLC

Symmetry == Permutations(Handlers)
=============================================================================
