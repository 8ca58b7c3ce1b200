----------------------- MODULE AuctionHouseInvariant ------------------------
(***************************************************************************)
(* The inductive invariants of AuctionHouse: why its safety properties     *)
(* hold at every step.  ProcessInv holds whatever fails; StoreInv needs a  *)
(* constructor that loads the whole collection ("load" is not among the    *)
(* Faults); MoneyInv holds whatever fails, BooksInv says what holds while  *)
(* nothing does.  TLC agrees with them on small instances, the modules of  *)
(* proofs prove them for every value of the constants.                     *)
(***************************************************************************)
EXTENDS AuctionHouse

Purchasing == {"check", "credit", "debit", "record", "finish"}

(* Whoever is inside holds mutex_ of the running object.                   *)
LockInv ==
  /\ mutex_ # NoThread => running
  /\ \A t \in Threads : call[t] # Idle => mutex_ = t
  /\ \A t \in Threads : call[t].pc = "idle" => call[t] = Idle

(* A listing is filed under its own id.                                    *)
FiledById == \A id \in Ids : auction_items_[id] = NoListing \/ auction_items_[id].id = id

(* What the call c relies on between its database calls: nobody else       *)
(* touches its listing; the price is a positive int32_t once the seller    *)
(* was paid; both were paid and charged before the sale is recorded; what  *)
(* is about to leave the indices has ended.                                *)
Sound(c) ==
  /\ c.pc \in Purchasing => c.id \in Ids /\ c.user \in Users
  /\ c.pc \in Purchasing \ {"finish"} => auction_items_[c.id].status = "ACTIVE"
  /\ c.pc \in {"credit", "debit", "record"} => auction_items_[c.id].price <= MaxInt32
  /\ c.pc \in {"debit", "record"} => auction_items_[c.id].price # 0 /\ credited[c.id] >= 1
  /\ c.pc = "record" => charged[c.id] >= 1
  /\ c.pc = "finish" => auction_items_[c.id].status # "ACTIVE"
  /\ c.pc = "expire" => /\ \A id \in c.todo : auction_items_[id].status = "ACTIVE"
                        /\ \A id \in c.done : auction_items_[id].status # "ACTIVE"

CallsSound == \A t \in Threads : Sound(call[t])

(* ProcessInv: the part that does not depend on what the constructor loads. *)
(* It is checked with partial loads and with every other failure.          *)
ProcessInv ==
  /\ TypeOK
  /\ LockInv
  /\ FiledById
  /\ CallsSound
  /\ IndicesLeadToListings
  /\ SoldIsPaid
  /\ SoldPriceInRange

-----------------------------------------------------------------------------
FreshIds == running => \A i \in DOMAIN auctions : auctions[i].id < next_auction_id_

SoldTo(id, u) == \E i \in Matching(id) : SoldDocument(i) /\ auctions[i].buyer = u

(* A sale is recorded in the collection before it is reported, once.       *)
Pending(c) == c.pc = "finish" => sales[c.id] = <<>> /\ SoldTo(c.id, c.user)
Reported   == \A id \in Ids : sales[id] # <<>> => Len(sales[id]) = 1 /\ SoldTo(id, sales[id][1])

(* StoreInv: how the collection, memory and the receipts agree, across     *)
(* failed writes, crashes and restarts that load everything.               *)
StoreInv ==
  /\ FreshIds
  /\ UniqueAuctionIds
  /\ MemoryNotBehindStore
  /\ \A t \in Threads : Pending(call[t])
  /\ Reported

-----------------------------------------------------------------------------
(* MoneyInv: the seller is paid before the buyer is charged, so between    *)
(* the two the accounts hold at least the price more than they started     *)
(* with, and never less at any other time, whatever fails.                 *)
Deposits == SumFunction(InitialBalance)

MoneyInv ==
  /\ SumFunction(balance) >= Deposits
  /\ \A t \in Threads : call[t].pc = "debit" =>
       SumFunction(balance) >= Deposits + auction_items_[call[t].id].price

-----------------------------------------------------------------------------
(* BooksInv: as long as nothing failed, a purchase that charged the buyer  *)
(* goes through, and the books say exactly how far each purchase got.      *)

Busy(id, pcs) == \E t \in Threads : call[t].id = id /\ call[t].pc \in pcs

(* What the check of the buyer established, until the buyer is charged.    *)
Solvent(c) ==
  /\ c.pc \in {"check", "credit", "debit"} => auction_items_[c.id].seller # c.user
  /\ c.pc \in {"credit", "debit"} =>
       c.user \in Accounts /\ balance[c.user] >= auction_items_[c.id].price

(* The collection and memory hold the same listings.                       *)
Mirrored ==
  /\ \A i \in DOMAIN auctions : auctions[i] = itemToBson(auction_items_[auctions[i].id])
  /\ \A id \in Ids : auction_items_[id] # NoListing => Matching(id) # {}

(* Payments, charges and sold listings are those of the sales reported and *)
(* of the purchase under way.                                              *)
Booked(id) ==
  /\ credited[id] = Len(sales[id]) + IF Busy(id, {"debit", "record", "finish"}) THEN 1 ELSE 0
  /\ charged[id]  = Len(sales[id]) + IF Busy(id, {"record", "finish"}) THEN 1 ELSE 0
  /\ auction_items_[id].status = "SOLD" <=> sales[id] # <<>> \/ Busy(id, {"finish"})

Untroubled == faults = 0 /\ crashes = 0

Books ==
  /\ ~running => auctions = <<>>
  /\ UniqueAuctionIds
  /\ FreshIds
  /\ Mirrored
  /\ \A id \in Ids : Booked(id)
  /\ \A t \in Threads : Solvent(call[t])

BooksInv == Untroubled => Books
=============================================================================
