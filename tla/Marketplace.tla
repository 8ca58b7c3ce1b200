----------------------------- MODULE Marketplace -----------------------------
(***************************************************************************)
(* What an auction house promises about its listings, whatever happens     *)
(* inside it: a listing is offered once, ends once, and is handed to one   *)
(* buyer, who alone is ever told that the purchase succeeded.  There are   *)
(* no threads, caches, transactions or crashes here; AuctionHouse is shown *)
(* to implement this module, with the `auctions' collection as the record  *)
(* of what was decided.                                                    *)
(***************************************************************************)
EXTENDS Naturals, Sequences

CONSTANTS Listings, Buyers, Nobody

VARIABLES
  status,    \* the decision about each listing
  holder,    \* who got it, or Nobody
  receipts   \* the buyers who were told that they got it, in order

market == <<status, holder, receipts>>

Endings == {"SOLD", "EXPIRED", "CANCELLED"}

Init ==
  /\ status = [l \in Listings |-> "NONE"]
  /\ holder = [l \in Listings |-> Nobody]
  /\ receipts = [l \in Listings |-> <<>>]

Offer(l) ==
  /\ status[l] = "NONE"
  /\ status' = [status EXCEPT ![l] = "ACTIVE"]
  /\ UNCHANGED <<holder, receipts>>

Sell(l, b) ==
  /\ status[l] = "ACTIVE"
  /\ status' = [status EXCEPT ![l] = "SOLD"]
  /\ holder' = [holder EXCEPT ![l] = b]
  /\ UNCHANGED receipts

Withdraw(l) ==
  /\ status[l] = "ACTIVE"
  /\ \E s \in Endings \ {"SOLD"} : status' = [status EXCEPT ![l] = s]
  /\ UNCHANGED <<holder, receipts>>

(* The buyer hears of the sale after it was decided, at most once; a crash *)
(* of the house may keep the news from the buyer for ever.                 *)
Confirm(l) ==
  /\ status[l] = "SOLD"
  /\ receipts[l] = <<>>
  /\ receipts' = [receipts EXCEPT ![l] = <<holder[l]>>]
  /\ UNCHANGED <<status, holder>>

Next ==
  \E l \in Listings :
    \/ Offer(l)
    \/ \E b \in Buyers : Sell(l, b)
    \/ Withdraw(l)
    \/ Confirm(l)

Spec == Init /\ [][Next]_market
=============================================================================
