------------------------ MODULE MCBattlegroundQueue ------------------------
(***************************************************************************)
(* A small instance of BattlegroundQueue: two players of the Alliance, who *)
(* may queue as a party, and one of the Horde.                             *)
(***************************************************************************)
EXTENDS BattlegroundQueue

CONSTANTS a1, a2, h1

Symmetry == Permutations(AlliancePlayers)
=============================================================================
