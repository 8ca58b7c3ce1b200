---------------------------- MODULE AuctionHouse ----------------------------
(***************************************************************************)
(* The life of a listing and the money behind it: class AuctionHouse       *)
(* (src/AuctionHouse.cpp) on top of the MongoDB half of DatabaseManager    *)
(* (src/DatabaseManager.cpp).                                              *)
(*                                                                         *)
(* Worker threads call registerItem, purchaseItem, cancelListing and       *)
(* processExpiredItems; each holds mutex_ from entry to return.  The       *)
(* memory of the process (auction_items_, next_auction_id_, the indices)   *)
(* is lost in a crash and rebuilt by the constructor from the `auctions'   *)
(* collection.  A database call may fail without effect ("lost"), take     *)
(* effect and still report an error ("unacked"), or, in                    *)
(* updateAuctionItem, let an exception of the Redis client escape after    *)
(* the document was written ("thrown").                                    *)
(*                                                                         *)
(* A call that is refused before its first side effect changes no state    *)
(* and is left out: it is a stuttering step.                               *)
(***************************************************************************)
EXTENDS Integers, Sequences, FiniteSets, Functions

CONSTANTS
  Threads,         \* the worker threads that call into the auction house
  Users,           \* user ids, with or without a document in `users'
  Accounts,        \* the users that have a document in `users'
  InitialBalance,  \* the balance each account starts with
  Prices,          \* the prices clients ask for, any uint32_t
  MaxInt32,        \* 2^31 - 1, or the same for a narrower word
  ListingPeriod,   \* expiration_time - registration_time
  NoThread,        \* mutex_ is free
  NoUser,          \* buyer_id 0
  Faults,          \* which database calls may fail
  MaxId, MaxTime, MaxFaults, MaxCrashes   \* bounds of the instance

FaultKinds == {"insert", "item", "balance", "read", "redis", "load"}

ASSUME ConstantsOK ==
  /\ NoThread \notin Threads
  /\ NoUser \notin Users
  /\ Accounts \subseteq Users /\ IsFiniteSet(Accounts)
  /\ MaxInt32 \in Nat \ {0}
  /\ Prices \subseteq 0 .. 2 * MaxInt32 + 1
  /\ InitialBalance \in [Accounts -> 0 .. MaxInt32]
  /\ ListingPeriod \in Nat
  /\ Faults \subseteq FaultKinds
  /\ MaxId \in Nat /\ MaxTime \in Nat /\ MaxFaults \in Nat /\ MaxCrashes \in Nat

VARIABLES
  running,           \* an AuctionHouse object exists
  mutex_,            \* the thread inside the AuctionHouse, or NoThread
  call,              \* what each thread is doing inside the AuctionHouse
  auction_items_,    \* the listings in memory
  next_auction_id_,
  indexed,           \* ids held by item_type_index_ and price_index_
  auctions,          \* collection `auctions', in insertion order
  balance,           \* field `balance' of collection `users'
  now,               \* std::time
  sales,             \* history: who was told that a purchase succeeded
  credited, charged, \* history: payments to the seller, from a buyer
  faults, crashes    \* history: failures so far

memory  == <<auction_items_, next_auction_id_, indexed>>
history == <<sales, credited, charged>>
vars == <<running, mutex_, call, memory, auctions, balance, now, history,
          faults, crashes>>

Ids       == 1 .. MaxId
Status    == {"ACTIVE", "SOLD", "EXPIRED", "CANCELLED"}
NoListing == [id |-> 0, seller |-> NoUser, buyer |-> NoUser, price |-> 0,
              status |-> "NONE", expires |-> 0]
AuctionItem(prices) ==
  [id : Ids, seller : Users, buyer : Users \cup {NoUser}, price : prices,
   status : Status, expires : 0 .. MaxTime + ListingPeriod]
Items     == AuctionItem(0 .. 2 * MaxInt32 + 1)
Documents == AuctionItem(-MaxInt32 - 1 .. MaxInt32)
PC    == {"idle", "check", "credit", "debit", "record", "finish", "expire"}
Calls == [pc : PC, id : 0 .. MaxId, user : Users \cup {NoUser},
          todo : SUBSET Ids, done : SUBSET Ids]
Idle  == [pc |-> "idle", id |-> 0, user |-> NoUser, todo |-> {}, done |-> {}]

-----------------------------------------------------------------------------
(* The two's complement conversions of the code.                           *)

AsInt32(n)  == IF n > MaxInt32 THEN n - 2 * (MaxInt32 + 1) ELSE n
AsUint32(n) == IF n < 0 THEN n + 2 * (MaxInt32 + 1) ELSE n

itemToBson(item) == [item EXCEPT !.price = AsInt32(@)]
bsonToItem(doc)  == [doc EXCEPT !.price = AsUint32(@)]

-----------------------------------------------------------------------------
(* The database calls.  An operator named after a method takes the         *)
(* outcome o that the environment chose; the operator after it says        *)
(* whether the method then returns true.                                   *)

Fail(kind) == /\ kind \in Faults
              /\ faults < MaxFaults
              /\ faults' = faults + 1

Reply(kind, o) == \/ o = "ok" /\ UNCHANGED faults
                  \/ o \in {"lost", "unacked"} /\ Fail(kind)
                  \/ o = "thrown" /\ Fail("redis")

(* The documents that the filter {id: id} selects, and the one that        *)
(* update_one takes.                                                       *)
Matching(id) == {i \in DOMAIN auctions : auctions[i].id = id}
LatestDocument(id) == Len(auctions)               \* mutant: the filter is ignored
FirstMatch(id) == CHOOSE i \in Matching(id) : \A j \in Matching(id) : i <= j

saveAuctionItem(item, o) ==
  /\ Reply("insert", o)
  /\ auctions' = IF o = "lost" THEN auctions
                               ELSE Append(auctions, itemToBson(item))

updateAuctionItem(item, o) ==
  /\ Reply("item", o)
  /\ auctions' = IF o = "lost" \/ Matching(item.id) = {} THEN auctions
                 ELSE [auctions EXCEPT ![FirstMatch(item.id)] = itemToBson(item)]

ItemUpdateIgnored(item, o) == TRUE                \* mutant: the result is ignored
ItemUpdated(item, o) ==
  /\ o = "ok"
  /\ Matching(item.id) # {}
  /\ auctions[FirstMatch(item.id)] # itemToBson(item)   \* modified_count() = 1

NewBalance(u, amount) == AsInt32(balance[u] + amount)
BalanceUnchecked(u, amount) == u \in Accounts     \* mutant: no new_balance < 0 check
BalanceAllowed(u, amount) == u \in Accounts /\ NewBalance(u, amount) >= 0

updateUserBalance(u, amount, o) ==
  /\ Reply("balance", o)
  /\ balance' = IF BalanceAllowed(u, amount) /\ o # "lost"
                THEN [balance EXCEPT ![u] = NewBalance(u, amount)]
                ELSE balance

BalanceUpdateIgnored(u, amount, o) == TRUE        \* mutant: the result is ignored
BalanceUpdated(u, amount, o) ==
  /\ o = "ok"
  /\ BalanceAllowed(u, amount)
  /\ NewBalance(u, amount) # balance[u]                 \* modified_count() = 1

-----------------------------------------------------------------------------
Init ==
  /\ running = FALSE
  /\ mutex_ = NoThread
  /\ call = [t \in Threads |-> Idle]
  /\ auction_items_ = [id \in Ids |-> NoListing]
  /\ next_auction_id_ = 1
  /\ indexed = {}
  /\ auctions = <<>>
  /\ balance = InitialBalance
  /\ now = 0
  /\ sales = [id \in Ids |-> <<>>]
  /\ credited = [id \in Ids |-> 0]
  /\ charged = [id \in Ids |-> 0]
  /\ faults = 0
  /\ crashes = 0

(* Entering, moving on inside, and leaving a method that holds mutex_.     *)
Unlocked(t) == running /\ call[t] = Idle          \* mutant: no lock_guard
Free(t)     == running /\ mutex_ = NoThread /\ call[t] = Idle
Enter(t, c) == mutex_' = t /\ call' = [call EXCEPT ![t] = c]
Goto(t, pc) == UNCHANGED mutex_ /\ call' = [call EXCEPT ![t].pc = pc]
ReturnLocked(t) ==                                \* mutant: a path without unlock
  UNCHANGED mutex_ /\ call' = [call EXCEPT ![t] = Idle]
Return(t)   == mutex_' = NoThread /\ call' = [call EXCEPT ![t] = Idle]

(* updateIndices and removeFromIndices, on the type and the price index,   *)
(* which always hold the same ids.                                         *)
updateIndices(id) == indexed' = indexed \cup {id}
removeBuckets(ids) ==                             \* mutant: whole buckets are erased
  indexed' = IF ids = {} THEN indexed ELSE {}
removeFromIndices(ids) == indexed' = indexed \ ids

(* registerItem takes its id before it knows whether the insert succeeds.  *)
NextIdIfSaved(o) ==                               \* mutant: the id is kept on failure
  next_auction_id_' = IF o = "ok" THEN next_auction_id_ + 1 ELSE next_auction_id_
NextId(o) == next_auction_id_' = next_auction_id_ + 1

(* The constructor: loads every document, the later of two with one id     *)
(* replacing the earlier.  A cursor that fails after k documents is        *)
(* logged, and the constructor goes on with what it has.                   *)
Construct ==
  /\ ~running
  /\ \E k \in 0 .. Len(auctions) :
       LET last(id) == {i \in 1 .. k : /\ auctions[i].id = id
                                       /\ \A j \in i + 1 .. k : auctions[j].id # id}
       IN  /\ IF k = Len(auctions) THEN UNCHANGED faults ELSE Fail("load")
           /\ auction_items_' =
                [id \in Ids |-> IF last(id) = {} THEN NoListing
                                ELSE bsonToItem(auctions[CHOOSE i \in last(id) : TRUE])]
           /\ indexed' = {id \in Ids : \E i \in 1 .. k : /\ auctions[i].id = id
                                                         /\ auctions[i].status = "ACTIVE"}
           /\ \E n \in 1 .. MaxId + 1 :
                /\ \A i \in 1 .. k : auctions[i].id < n
                /\ n = 1 \/ \E i \in 1 .. k : auctions[i].id = n - 1
                /\ next_auction_id_' = n
  /\ running' = TRUE
  /\ UNCHANGED <<mutex_, call, auctions, balance, now, history, crashes>>

registerItem(t, seller, price) ==
  /\ Free(t)
  /\ next_auction_id_ \in Ids
  /\ LET id   == next_auction_id_
         item == [id |-> id, seller |-> seller, buyer |-> NoUser, price |-> price,
                  status |-> "ACTIVE", expires |-> now + ListingPeriod]
     IN  \E o \in {"ok", "lost", "unacked"} :
           /\ NextId(o)
           /\ saveAuctionItem(item, o)
           /\ auction_items_' = IF o = "ok" THEN [auction_items_ EXCEPT ![id] = item]
                                            ELSE auction_items_
           /\ IF o = "ok" THEN updateIndices(id) ELSE UNCHANGED indexed
  /\ UNCHANGED <<running, mutex_, call, balance, now, history, crashes>>

-----------------------------------------------------------------------------
(* purchaseItem, one action per database call.  Transaction::commit and    *)
(* Transaction::rollback change nothing in the database, so a failing path *)
(* just returns.                                                           *)

BeginPurchase(t, id, buyer) ==
  /\ Free(t)
  /\ auction_items_[id].status = "ACTIVE"
  /\ auction_items_[id].seller # buyer
  /\ Enter(t, [Idle EXCEPT !.pc = "check", !.id = id, !.user = buyer])
  /\ UNCHANGED <<running, memory, auctions, balance, now, history, faults, crashes>>

(* UserInfo::balance and the price are compared as unsigned words.         *)
CanPay(u, price) == u \in Accounts /\ AsUint32(balance[u]) >= price

CheckBuyer(t) ==
  /\ call[t].pc = "check"
  /\ LET price == auction_items_[call[t].id].price
     IN  \/ CanPay(call[t].user, price) /\ Goto(t, "credit") /\ UNCHANGED faults
         \/ ~CanPay(call[t].user, price) /\ Return(t) /\ UNCHANGED faults
         \/ Fail("read") /\ Return(t)
  /\ UNCHANGED <<running, memory, auctions, balance, now, history, crashes>>

CreditSeller(t) ==
  /\ call[t].pc = "credit"
  /\ LET item   == auction_items_[call[t].id]
         amount == AsInt32(item.price)
     IN  \E o \in {"ok", "lost", "unacked"} :
           /\ updateUserBalance(item.seller, amount, o)
           /\ IF BalanceUpdated(item.seller, amount, o) THEN Goto(t, "debit") ELSE Return(t)
           /\ credited' = IF balance' = balance THEN credited
                          ELSE [credited EXCEPT ![call[t].id] = @ + 1]
  /\ UNCHANGED <<running, memory, auctions, now, sales, charged, crashes>>

DebitBuyer(t) ==
  /\ call[t].pc = "debit"
  /\ LET payer  == call[t].user
         amount == - AsInt32(auction_items_[call[t].id].price)
     IN  \E o \in {"ok", "lost", "unacked"} :
           /\ updateUserBalance(payer, amount, o)
           /\ IF BalanceUpdated(payer, amount, o) THEN Goto(t, "record") ELSE Return(t)
           /\ charged' = IF balance' = balance THEN charged
                         ELSE [charged EXCEPT ![call[t].id] = @ + 1]
  /\ UNCHANGED <<running, memory, auctions, now, sales, credited, crashes>>

RecordSale(t) ==
  /\ call[t].pc = "record"
  /\ LET item == [auction_items_[call[t].id] EXCEPT !.status = "SOLD", !.buyer = call[t].user]
     IN  /\ auction_items_' = [auction_items_ EXCEPT ![item.id] = item]
         /\ \E o \in {"ok", "lost", "unacked", "thrown"} :
              /\ updateAuctionItem(item, o)
              /\ IF ItemUpdated(item, o) THEN Goto(t, "finish") ELSE Return(t)
  /\ UNCHANGED <<running, next_auction_id_, indexed, balance, now, history, crashes>>

FinishPurchase(t) ==
  /\ call[t].pc = "finish"
  /\ removeFromIndices({call[t].id})
  /\ sales' = [sales EXCEPT ![call[t].id] = Append(@, call[t].user)]
  /\ Return(t)
  /\ UNCHANGED <<running, auction_items_, next_auction_id_, auctions, balance, now,
                 credited, charged, faults, crashes>>

-----------------------------------------------------------------------------
cancelListing(t, id, seller) ==
  /\ Free(t)
  /\ auction_items_[id].status = "ACTIVE"
  /\ auction_items_[id].seller = seller
  /\ LET item == [auction_items_[id] EXCEPT !.status = "CANCELLED"]
     IN  /\ auction_items_' = [auction_items_ EXCEPT ![id] = item]
         /\ \E o \in {"ok", "lost", "unacked", "thrown"} :
              /\ updateAuctionItem(item, o)
              /\ removeFromIndices(IF ItemUpdated(item, o) THEN {id} ELSE {})
  /\ UNCHANGED <<running, mutex_, call, next_auction_id_, balance, now, history, crashes>>

(* processExpiredItems reads the clock once, then visits the listings in   *)
(* the order of an unordered_map.  An exception ends the loop, and the     *)
(* indices are then not cleaned.                                           *)
BeginExpiry(t) ==
  /\ Free(t)
  /\ Enter(t, [Idle EXCEPT !.pc = "expire",
                 !.todo = {id \in Ids : /\ auction_items_[id].status = "ACTIVE"
                                        /\ auction_items_[id].expires < now}])
  /\ UNCHANGED <<running, memory, auctions, balance, now, history, faults, crashes>>

ExpireOne(t, id) ==
  /\ call[t].pc = "expire"
  /\ id \in call[t].todo
  /\ LET item == [auction_items_[id] EXCEPT !.status = "EXPIRED"]
     IN  /\ auction_items_' = [auction_items_ EXCEPT ![id] = item]
         /\ \E o \in {"ok", "lost", "unacked", "thrown"} :
              /\ updateAuctionItem(item, o)
              /\ IF o = "thrown" THEN Return(t)
                 ELSE /\ UNCHANGED mutex_
                      /\ call' = [call EXCEPT ![t].todo = @ \ {id},
                                    ![t].done = IF ItemUpdated(item, o) THEN @ \cup {id} ELSE @]
  /\ UNCHANGED <<running, next_auction_id_, indexed, balance, now, history, crashes>>

FinishExpiry(t) ==
  /\ call[t].pc = "expire"
  /\ call[t].todo = {}
  /\ removeFromIndices(call[t].done)
  /\ Return(t)
  /\ UNCHANGED <<running, auction_items_, next_auction_id_, auctions, balance, now,
                 history, faults, crashes>>

-----------------------------------------------------------------------------
(* The environment: the wall clock, and the death of the process.          *)

Tick ==
  /\ now < MaxTime
  /\ now' = now + 1
  /\ UNCHANGED <<running, mutex_, call, memory, auctions, balance, history, faults, crashes>>

Crash ==
  /\ running
  /\ crashes < MaxCrashes
  /\ crashes' = crashes + 1
  /\ running' = FALSE
  /\ mutex_' = NoThread
  /\ call' = [t \in Threads |-> Idle]
  /\ auction_items_' = [id \in Ids |-> NoListing]
  /\ next_auction_id_' = 1
  /\ indexed' = {}
  /\ UNCHANGED <<auctions, balance, now, history, faults>>

Inside(t) ==
  \/ CheckBuyer(t)
  \/ CreditSeller(t)
  \/ DebitBuyer(t)
  \/ RecordSale(t)
  \/ FinishPurchase(t)
  \/ \E id \in Ids : ExpireOne(t, id)
  \/ FinishExpiry(t)

Called(t) ==
  \/ \E u \in Users, p \in Prices : registerItem(t, u, p)
  \/ \E id \in Ids, u \in Users : BeginPurchase(t, id, u)
  \/ \E id \in Ids, u \in Users : cancelListing(t, id, u)
  \/ BeginExpiry(t)

Next ==
  \/ Construct
  \/ \E t \in Threads : Called(t) \/ Inside(t)
  \/ Tick
  \/ Crash

Spec == Init /\ [][Next]_vars

(* A thread that is inside the auction house is scheduled again, and every *)
(* database call returns; nobody has to call, crash or restart.            *)
FairSpec == Spec /\ \A t \in Threads : WF_vars(Inside(t))

-----------------------------------------------------------------------------
(* Types: balances and stored prices are int32_t, prices in memory         *)
(* uint32_t; a balance the code wrote is never negative                    *)
(* (DatabaseManager::updateUserBalance refuses to store one).              *)
TypeOK ==
  /\ running \in BOOLEAN
  /\ mutex_ \in Threads \cup {NoThread}
  /\ call \in [Threads -> Calls]
  /\ auction_items_ \in [Ids -> Items \cup {NoListing}]
  /\ next_auction_id_ \in 1 .. MaxId + 1
  /\ indexed \subseteq Ids
  /\ auctions \in Seq(Documents)
  /\ balance \in [Accounts -> 0 .. MaxInt32]
  /\ now \in 0 .. MaxTime
  /\ sales \in [Ids -> Seq(Users)]
  /\ credited \in [Ids -> Nat]
  /\ charged \in [Ids -> Nat]
  /\ faults \in 0 .. MaxFaults
  /\ crashes \in 0 .. MaxCrashes

-----------------------------------------------------------------------------
(* What must hold.                                                         *)

Quiet == running /\ mutex_ = NoThread
SoldDocument(i) == auctions[i].status = "SOLD"

(* At most one purchaseItem call for a listing ever returns true, whatever *)
(* the interleaving of the callers, the failures and the restarts.         *)
OneSale == \A id \in Ids : Len(sales[id]) <= 1

(* A purchase that purchaseItem reported to its buyer is durable: from     *)
(* then on, across crashes, the collection says SOLD to that buyer, so     *)
(* that no restart can put the listing on sale again.                      *)
ReceiptIsDurable ==
  \A id \in Ids : \A n \in DOMAIN sales[id] :
    \E i \in Matching(id) : SoldDocument(i) /\ auctions[i].buyer = sales[id][n]

(* Goods are handed over only against payment: when the collection says    *)
(* SOLD, purchaseItem has paid the seller and charged the buyer for that   *)
(* listing, even if it failed later or the process died half way.          *)
SoldIsPaid ==
  \A i \in DOMAIN auctions : SoldDocument(i) =>
    credited[auctions[i].id] >= 1 /\ charged[auctions[i].id] >= 1

(* purchaseItem pays the seller before it charges the buyer, so a crash or *)
(* a failure between the two never takes money out of the system.          *)
NoMoneyDestroyed == SumFunction(balance) >= SumFunction(InitialBalance)

(* auction_items_ is never behind the collection: what the process offers  *)
(* as ACTIVE is ACTIVE in the collection, and where the two differ, memory *)
(* is the one that ended the listing (a failed updateAuctionItem).         *)
MemoryNotBehindStore ==
  \A id \in Ids : auction_items_[id] # NoListing =>
    \E i \in Matching(id) :
      \/ auctions[i] = itemToBson(auction_items_[id])
      \/ auctions[i].status = "ACTIVE" /\ auction_items_[id].status # "ACTIVE"

(* Every listing on sale can be found: it is in the type and the price     *)
(* index; and an index never leads to an id that is not in memory, for     *)
(* which searchItems would create an empty listing (operator[]).           *)
IndicesLeadToListings ==
  /\ \A id \in Ids : auction_items_[id].status = "ACTIVE" => id \in indexed
  /\ \A id \in indexed : auction_items_[id] # NoListing

(* Auction ids are unique in the collection: neither an insert that failed *)
(* after taking effect nor a restart makes registerItem use an id twice.   *)
UniqueAuctionIds ==
  \A i, j \in DOMAIN auctions : auctions[i].id = auctions[j].id => i = j

(* Only a price that is a positive int32_t ever changes hands: 0 fails in  *)
(* updateUserBalance (nothing is modified), 2^31 or more fails the         *)
(* balance check of purchaseItem.                                          *)
SoldPriceInRange ==
  \A i \in DOMAIN auctions : SoldDocument(i) => auctions[i].price \in 1 .. MaxInt32

(* Without failures purchaseItem is all or nothing: when no thread is      *)
(* inside, a listing was paid and charged exactly as often as its sale was *)
(* reported, and the collection agrees with memory.                        *)
BooksBalance ==
  Quiet /\ faults = 0 /\ crashes = 0 =>
    \A id \in Ids :
      /\ credited[id] = Len(sales[id])
      /\ charged[id] = Len(sales[id])
      /\ \A i \in Matching(id) : /\ SoldDocument(i) <=> sales[id] # <<>>
                                  /\ auctions[i] = itemToBson(auction_items_[id])

(* A listing that ended stays as it ended, across crashes and restarts: no *)
(* document of a SOLD, EXPIRED or CANCELLED listing is written again.      *)
EndedStaysEnded ==
  [][\A i \in DOMAIN auctions : auctions[i].status # "ACTIVE" =>
       i \in DOMAIN auctions' /\ auctions'[i] = auctions[i]]_vars

(* mutex_ is held by a lock_guard: whichever way a method ends, by return, *)
(* by failure or by exception, the lock is released.                       *)
LockReleased == \A t \in Threads : (mutex_ = t) ~> (mutex_ # t)

(* The collection, read as the record of a Marketplace: what was decided   *)
(* about each listing, and who got it.                                     *)
Decided(id, field, none) ==
  IF Matching(id) = {} THEN none ELSE auctions[FirstMatch(id)][field]

Market == INSTANCE Marketplace WITH
  Listings <- Ids,
  Buyers   <- Users,
  Nobody   <- NoUser,
  status   <- [id \in Ids |-> Decided(id, "status", "NONE")],
  holder   <- [id \in Ids |-> Decided(id, "buyer", NoUser)],
  receipts <- sales

(* The auction house, with its threads, lock, failing database calls,      *)
(* crashes and restarts, implements Marketplace: every step offers, sells, *)
(* withdraws or confirms one listing as Marketplace allows, or leaves what *)
(* was decided alone.                                                      *)
ImplementsMarketplace == Market!Spec

(* What the comments of Transaction and of purchaseItem promise: a failed  *)
(* purchase is rolled back, so that seller and buyer are paid and charged  *)
(* only for the sales that were reported.                                  *)
FailedPurchaseRolledBack ==
  Quiet /\ crashes = 0 =>
    \A id \in Ids : credited[id] = Len(sales[id]) /\ charged[id] = Len(sales[id])
=============================================================================
