------------------------------ MODULE MCTrade ------------------------------
(***************************************************************************)
(* A small instance of Trade: of the limited items x1, x2 and x3 a player  *)
(* can have two, so x1 and x2 pass the test of CanStoreItems one by one    *)
(* although b keeps x3; y1 is a plain item.                                *)
(***************************************************************************)
EXTENDS Trade, TLC

CONSTANTS a, b, x1, x2, x3, y1

MCCapacity == [p \in Player |-> IF p = a THEN 2 ELSE 3]
MCKind == [i \in Item |-> IF i = y1 THEN "plain" ELSE "limited"]
MCMaxCount == [k \in Kind |-> IF k = "limited" THEN 2 ELSE 4]
MCBindedNotWith == {}
MCStart == [i \in Item |-> IF i \in {x1, x2} THEN a ELSE b]
MCStartMoney == [p \in Player |-> IF p = a THEN 1 ELSE 0]

ItemSymmetry == Permutations({x1, x2})
=============================================================================
