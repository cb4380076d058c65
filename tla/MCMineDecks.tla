----------------------------- MODULE MCMineDecks -----------------------------
(***************************************************************************)
(* Instances of MineDecks for TLC.                                         *)
(***************************************************************************)
EXTENDS MineDecks, TLC

Symmetry == Permutations(Handlers) \cup Permutations(Decks)
=============================================================================
