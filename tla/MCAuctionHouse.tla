--------------------------- MODULE MCAuctionHouse ---------------------------
(* A small auction house for TLC: one seller, buyers with little money, a  *)
(* three-bit word (MaxInt32 = 3) so that the conversions wrap.             *)
EXTENDS AuctionHouseInvariant

CONSTANTS seller, buyer, stranger

(* The seller starts near the largest balance, so that a payment can       *)
(* overflow; a user outside Accounts has none.                             *)
MCInitialBalance == [u \in Accounts |-> IF u = seller THEN 2 ELSE 3]
=============================================================================
