--------------------------- MODULE MCAuctionHouse ---------------------------
(***************************************************************************)
(* One seller with a few units and two bidders: b1 can raise its own bid,  *)
(* buy out and take a COD, b2 has the gold for the start bid only, gets it *)
(* back when it is outbid, and is a game master.                           *)
(***************************************************************************)
EXTENDS AuctionHouse

CONSTANTS seller, b1, b2

MCStartGold == [p \in Players |-> CASE p = seller -> 2 [] p = b1 -> 5 [] OTHER -> 1]
MCStartUnits == [p \in Players |-> IF p = seller THEN 2 ELSE 0]

Cod(n) == [gold |-> 0, cod |-> n, withUnits |-> TRUE]
Gold(n) == [gold |-> n, cod |-> 0, withUnits |-> FALSE]

\* 3 is negative as an int32, 5 does not fit a uint32, and with 15 the sum of the
\* money and the cost wraps to 0 and the money is negative as an int64.
MCLetters == {Cod(1), Cod(3), Gold(1), Gold(5), Gold(15)}
MCCounts == {<<1>>, <<2>>, <<1, 1>>}

\* One letter whose COD is negative as an int32.
MCLargeCod == {Cod(3)}
=============================================================================
