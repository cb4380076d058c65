--------------------------- MODULE MCMetaCollector ---------------------------
(***************************************************************************)
(* MetaCollector for TLC.  The user p1 plays a trophy battle, a league     *)
(* battle and a casual one, of which the log keeps two; p2 is in the       *)
(* rankings, and plays trophy battles, one of them below the minimum.      *)
(***************************************************************************)
EXTENDS MetaCollector, TLC

CONSTANTS p1, p2

BattleOwner == <<p1, p2, p1, p1, p2>>
BattleMode == <<"trophies", "trophies", "league", "casual", "trophies">>
BattleDeck == <<"d1", "d1", "d1", "d2", "d2">>
BattleDay == <<1, 1, 2, 2, 2>>
=============================================================================
