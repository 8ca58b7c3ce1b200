---------------------- MODULE AuctionHouseStoreProofs -----------------------
(***************************************************************************)
(* Proofs that the auction house and its collection agree, across failed   *)
(* writes, exceptions, crashes and restarts, as long as a restart loads    *)
(* the whole collection ("load" is not among the Faults); and that it      *)
(* implements Marketplace.                                                 *)
(***************************************************************************)
EXTENDS AuctionHouseProofs

(* What a step may do to the documents of listings that ended: nothing.    *)
EndedKept ==
  \A i \in DOMAIN auctions : auctions[i].status # "ACTIVE" =>
    i \in DOMAIN auctions' /\ auctions'[i] = auctions[i]

(* A listing on sale in memory has one document, with the same content,    *)
(* which update_one finds; and no sale of it was ever reported.            *)
LEMMA OnSale ==
  ASSUME ProcessInv, StoreInv, NEW id \in Ids, auction_items_[id].status = "ACTIVE"
  PROVE  /\ auction_items_[id] \in Items
         /\ FirstMatch(id) \in DOMAIN auctions
         /\ Matching(id) = {FirstMatch(id)}
         /\ auctions[FirstMatch(id)] = itemToBson(auction_items_[id])
         /\ auctions[FirstMatch(id)].id = id
         /\ auctions[FirstMatch(id)].status = "ACTIVE"
         /\ sales[id] = <<>>
<1>1. auction_items_[id] \in Items /\ auction_items_[id] # NoListing
  BY DEF ProcessInv, TypeOK, NoListing
<1>2. PICK i \in Matching(id) : auctions[i] = itemToBson(auction_items_[id])
  BY <1>1 DEF StoreInv, MemoryNotBehindStore
<1>3. i \in DOMAIN auctions /\ auctions[i].id = id
  BY <1>2 DEF Matching
<1>4. Matching(id) = {i}
  BY <1>3 DEF Matching, StoreInv, UniqueAuctionIds
<1>5. FirstMatch(id) = i
  <2>1. i <= i
    BY <1>3 DEF ProcessInv, TypeOK
  <2> QED
    BY <1>4, <2>1 DEF FirstMatch
<1>6. auctions[i].status = "ACTIVE"
  BY <1>1, <1>2, ConversionFields
<1>7. sales[id] = <<>>
  BY <1>4, <1>6 DEF StoreInv, Reported, SoldTo, SoldDocument
<1> QED
  BY <1>1, <1>2, <1>3, <1>4, <1>5, <1>6, <1>7

(* A listing on sale ends, in memory and perhaps in the collection: only   *)
(* its own document may change, and that one was ACTIVE.                   *)
LEMMA EndsInStore ==
  ASSUME ProcessInv, StoreInv, NEW id \in Ids, NEW item \in Items, NEW o,
         auction_items_[id].status = "ACTIVE",
         item.id = id,
         item.status # "ACTIVE",
         auction_items_' = [auction_items_ EXCEPT ![id] = item],
         updateAuctionItem(item, o),
         UNCHANGED <<running, next_auction_id_, sales>>
  PROVE  /\ FreshIds' /\ UniqueAuctionIds' /\ MemoryNotBehindStore' /\ Reported'
         /\ EndedKept
         /\ auctions' \in {auctions, [auctions EXCEPT ![FirstMatch(id)] = itemToBson(item)]}
         /\ o = "ok" => auctions' = [auctions EXCEPT ![FirstMatch(id)] = itemToBson(item)]
<1> DEFINE i   == FirstMatch(id)
           doc == itemToBson(item)
<1>1. /\ i \in DOMAIN auctions
      /\ Matching(id) = {i}
      /\ auctions[i] = itemToBson(auction_items_[id])
      /\ auctions[i].id = id
      /\ auctions[i].status = "ACTIVE"
      /\ sales[id] = <<>>
  BY OnSale
<1>2. /\ auctions' \in {auctions, [auctions EXCEPT ![i] = doc]}
      /\ o = "ok" => auctions' = [auctions EXCEPT ![i] = doc]
  BY <1>1 DEF updateAuctionItem
<1>3. doc.id = id /\ doc.status = item.status
  BY ConversionFields
<1> HIDE DEF i, doc
<1>4. /\ DOMAIN auctions' = DOMAIN auctions
      /\ \A j \in DOMAIN auctions : /\ auctions'[j].id = auctions[j].id
                                    /\ j # i => auctions'[j] = auctions[j]
  BY <1>1, <1>2, <1>3
<1>5. \A x \in Ids : Matching(x)' = Matching(x)
  BY <1>4 DEF Matching
<1>6. FreshIds' /\ UniqueAuctionIds'
  BY <1>4 DEF StoreInv, FreshIds, UniqueAuctionIds
<1>7. \A x \in Ids : auction_items_'[x] = IF x = id THEN item ELSE auction_items_[x]
  BY DEF ProcessInv, TypeOK
<1>8. MemoryNotBehindStore'
  <2> SUFFICES ASSUME NEW x \in Ids, auction_items_'[x] # NoListing
               PROVE  \E j \in Matching(x)' :
                        \/ auctions'[j] = itemToBson(auction_items_'[x])
                        \/ auctions'[j].status = "ACTIVE" /\ auction_items_'[x].status # "ACTIVE"
    BY DEF MemoryNotBehindStore, itemToBson
  <2>1. CASE x = id
    <3>1. i \in Matching(x)' /\ auction_items_'[x] = item
      BY <1>1, <1>5, <1>7, <2>1
    <3>2. auctions'[i] = doc \/ auctions'[i].status = "ACTIVE"
      BY <1>1, <1>2
    <3> QED
      BY <3>1, <3>2 DEF doc
  <2>2. CASE x # id
    <3>1. auction_items_'[x] = auction_items_[x]
      BY <1>7, <2>2
    <3>2. PICK j \in Matching(x) :
            \/ auctions[j] = itemToBson(auction_items_[x])
            \/ auctions[j].status = "ACTIVE" /\ auction_items_[x].status # "ACTIVE"
      BY <3>1 DEF StoreInv, MemoryNotBehindStore
    <3>3. j # i /\ j \in DOMAIN auctions
      BY <1>1, <2>2, <3>2 DEF Matching
    <3> QED
      BY <1>4, <1>5, <3>1, <3>2, <3>3
  <2> QED
    BY <2>1, <2>2
<1>9. Reported'
  <2> SUFFICES ASSUME NEW x \in Ids, sales[x] # <<>>
               PROVE  Len(sales[x]) = 1 /\ SoldTo(x, sales[x][1])'
    BY DEF Reported, SoldTo, Matching, SoldDocument
  <2>1. PICK j \in Matching(x) : SoldDocument(j) /\ auctions[j].buyer = sales[x][1]
    BY DEF StoreInv, Reported, SoldTo
  <2>2. j # i /\ j \in DOMAIN auctions
    BY <1>1, <2>1 DEF Matching, SoldDocument
  <2> QED
    BY <1>4, <1>5, <2>1, <2>2 DEF StoreInv, Reported, SoldTo, SoldDocument
<1>10. EndedKept
  BY <1>1, <1>4 DEF EndedKept
<1> QED
  BY <1>2, <1>6, <1>8, <1>9, <1>10 DEF i, doc

(* A step that writes neither to the collection, nor to the listings, nor  *)
(* to the receipts, and in which no sale gets recorded.                    *)
LEMMA StoreUntouched ==
  ASSUME StoreInv,
         UNCHANGED <<running, auction_items_, next_auction_id_, auctions, sales>>,
         \A t \in Threads : call'[t].pc = "finish" => call'[t] = call[t]
  PROVE  StoreInv' /\ EndedKept
<1>1. FreshIds' /\ UniqueAuctionIds' /\ MemoryNotBehindStore' /\ Reported'
  BY DEF StoreInv, FreshIds, UniqueAuctionIds, MemoryNotBehindStore, Reported, SoldTo,
     Matching, SoldDocument, itemToBson
<1>2. \A t \in Threads : Pending(call[t])'
  BY DEF StoreInv, Pending, SoldTo, Matching, SoldDocument
<1>3. EndedKept
  BY DEF EndedKept
<1> QED
  BY <1>1, <1>2, <1>3 DEF StoreInv

LEMMA StoreInit == Init => StoreInv
<1> SUFFICES ASSUME Init PROVE StoreInv
  OBVIOUS
<1>1. FreshIds /\ UniqueAuctionIds /\ MemoryNotBehindStore /\ Reported
  BY DEF Init, FreshIds, UniqueAuctionIds, MemoryNotBehindStore, Reported
<1>2. \A t \in Threads : Pending(call[t])
  BY DEF Init, Pending, Idle
<1> QED
  BY <1>1, <1>2 DEF StoreInv

(* The steps of a purchase before the sale is recorded, and BeginExpiry,   *)
(* FinishExpiry and Tick: nothing that StoreInv relates is written.        *)
LEMMA StoreQuietSteps ==
  ASSUME ProcessInv, StoreInv, NEW t \in Threads,
         \/ \E id \in Ids, u \in Users : BeginPurchase(t, id, u)
         \/ CheckBuyer(t)
         \/ CreditSeller(t)
         \/ DebitBuyer(t)
         \/ BeginExpiry(t)
         \/ FinishExpiry(t)
  PROVE  StoreInv' /\ EndedKept
<1>1. UNCHANGED <<running, auction_items_, next_auction_id_, auctions, sales>>
  BY DEF BeginPurchase, CheckBuyer, CreditSeller, DebitBuyer, BeginExpiry, FinishExpiry,
     memory, history
<1>2. call \in [Threads -> Calls] /\ TypeOK /\ LockInv
  BY DEF ProcessInv, TypeOK
<1>3. call[t] # Idle \/ mutex_ = NoThread
  <2>1. call[t].pc # "idle" \/ mutex_ = NoThread
    BY DEF BeginPurchase, CheckBuyer, CreditSeller, DebitBuyer, BeginExpiry, FinishExpiry, Free
  <2> QED
    BY <2>1 DEF Idle
<1>4. \A s \in Threads \ {t} : call[s] = Idle
  BY <1>2, <1>3, Alone
<1>5. \/ \E id \in Ids, u \in Users :
           call' = [call EXCEPT ![t] = [Idle EXCEPT !.pc = "check", !.id = id, !.user = u]]
      \/ \E todo \in SUBSET Ids :
           call' = [call EXCEPT ![t] = [Idle EXCEPT !.pc = "expire", !.todo = todo]]
      \/ call' = [call EXCEPT ![t] = Idle]
      \/ \E pc \in {"credit", "debit", "record"} : call' = [call EXCEPT ![t].pc = pc]
  BY DEF BeginPurchase, CheckBuyer, CreditSeller, DebitBuyer, BeginExpiry, FinishExpiry, Enter,
     Goto, Return
<1>6. \A s \in Threads \ {t} : call'[s] = Idle
  BY <1>2, <1>4, <1>5
<1>7. call'[t].pc # "finish"
  <2>1. CASE \E pc \in {"credit", "debit", "record"} : call' = [call EXCEPT ![t].pc = pc]
    BY <1>2, <2>1 DEF Calls
  <2>2. CASE \E id \in Ids, u \in Users :
               call' = [call EXCEPT ![t] = [Idle EXCEPT !.pc = "check", !.id = id, !.user = u]]
    BY <1>2, <2>2 DEF Idle
  <2>3. CASE \E todo \in SUBSET Ids :
               call' = [call EXCEPT ![t] = [Idle EXCEPT !.pc = "expire", !.todo = todo]]
    BY <1>2, <2>3 DEF Idle
  <2>4. CASE call' = [call EXCEPT ![t] = Idle]
    BY <1>2, <2>4 DEF Idle
  <2> QED
    BY <1>5, <2>1, <2>2, <2>3, <2>4
<1>8. \A s \in Threads : call'[s].pc # "finish"
  BY <1>6, <1>7 DEF Idle
<1> QED
  BY <1>1, <1>8, StoreUntouched

LEMMA StoreTick ==
  ASSUME StoreInv, Tick
  PROVE  StoreInv' /\ EndedKept
  BY StoreUntouched DEF Tick, memory, history

LEMMA StoreRecordSale ==
  ASSUME ProcessInv, StoreInv, NEW t \in Threads, RecordSale(t)
  PROVE  StoreInv' /\ EndedKept
<1> DEFINE id   == call[t].id
           old  == auction_items_[id]
           item == [old EXCEPT !.status = "SOLD", !.buyer = call[t].user]
<1>1. /\ call[t] # Idle /\ call[t] \in Calls /\ id \in Ids /\ call[t].user \in Users
      /\ old.status = "ACTIVE"
  BY DEF RecordSale, Idle, ProcessInv, TypeOK, CallsSound, Sound, Purchasing
<1>2. old \in Items /\ old.id = id
  BY <1>1, OnSale, ConstantsOK DEF ProcessInv, FiledById, NoListing, Items, AuctionItem
<1>3. PICK sold \in Items : sold = item
  BY <1>1, <1>2 DEF Items, AuctionItem, Status
<1>4. sold.id = id /\ sold.status = "SOLD" /\ sold.buyer = call[t].user
  BY <1>2, <1>3 DEF Items, AuctionItem
<1>5. PICK o \in {"ok", "lost", "unacked", "thrown"} :
        /\ updateAuctionItem(sold, o)
        /\ IF ItemUpdated(sold, o) THEN Goto(t, "finish") ELSE Return(t)
  BY <1>3 DEF RecordSale
<1>6. /\ auction_items_' = [auction_items_ EXCEPT ![id] = sold]
      /\ UNCHANGED <<running, next_auction_id_, sales>>
  BY <1>3, <1>4 DEF RecordSale, history
<1>7. /\ FreshIds' /\ UniqueAuctionIds' /\ MemoryNotBehindStore' /\ Reported' /\ EndedKept
      /\ o = "ok" => auctions' = [auctions EXCEPT ![FirstMatch(id)] = itemToBson(sold)]
  BY <1>1, <1>4, <1>5, <1>6, EndsInStore
<1>8. \A s \in Threads : Pending(call[s])'
  <2>1. CASE Return(t)
    <3>1. \A s \in Threads : call'[s] = Idle
      BY <1>1, <2>1, Alone DEF Return, ProcessInv, TypeOK
    <3> QED
      BY <3>1 DEF Pending, Idle
  <2>2. CASE Goto(t, "finish") /\ o = "ok"
    <3>1. PICK c \in Calls : c = [call[t] EXCEPT !.pc = "finish"]
      BY <1>1 DEF Calls, PC
    <3>2. c.pc = "finish" /\ c.id = id /\ c.user = call[t].user
      BY <1>1, <3>1 DEF Calls
    <3>3. call' = [call EXCEPT ![t] = c]
      BY <2>2, <3>1 DEF Goto
    <3>4. \A s \in Threads : call'[s] = IF s = t THEN c ELSE Idle
      BY <1>1, <3>3, Alone DEF ProcessInv, TypeOK
    <3>5. sales'[id] = <<>> /\ FirstMatch(id) \in DOMAIN auctions
      BY <1>1, <1>6, OnSale
    <3>6. SoldTo(c.id, c.user)'
      <4>1. PICK i \in DOMAIN auctions' : auctions'[i] = itemToBson(sold)
        BY <1>7, <2>2, <3>5
      <4>2. /\ itemToBson(sold).id = id
            /\ itemToBson(sold).status = "SOLD"
            /\ itemToBson(sold).buyer = c.user
        BY <1>4, <3>2, ConversionFields
      <4>3. i \in Matching(c.id)' /\ SoldDocument(i)'
        BY <3>2, <4>1, <4>2 DEF Matching, SoldDocument
      <4> QED
        BY <4>1, <4>2, <4>3 DEF SoldTo
    <3> QED
      BY <3>2, <3>4, <3>5, <3>6 DEF Pending, Idle
  <2> QED
    BY <1>5, <2>1, <2>2 DEF ItemUpdated
<1> QED
  BY <1>7, <1>8 DEF StoreInv

LEMMA StoreFinishPurchase ==
  ASSUME ProcessInv, StoreInv, NEW t \in Threads, FinishPurchase(t)
  PROVE  StoreInv' /\ EndedKept
<1> DEFINE id == call[t].id
<1>1. /\ UNCHANGED <<running, auction_items_, next_auction_id_, auctions>>
      /\ sales' = [sales EXCEPT ![id] = Append(@, call[t].user)]
      /\ Return(t)
  BY DEF FinishPurchase
<1>2. /\ call[t] # Idle /\ id \in Ids /\ call[t].user \in Users
      /\ sales[id] = <<>> /\ SoldTo(id, call[t].user)
  BY DEF FinishPurchase, Idle, ProcessInv, CallsSound, Sound, Purchasing, StoreInv, Pending
<1>3. FreshIds' /\ UniqueAuctionIds' /\ MemoryNotBehindStore' /\ EndedKept
  BY <1>1 DEF StoreInv, FreshIds, UniqueAuctionIds, MemoryNotBehindStore, Matching, itemToBson,
     EndedKept
<1>4. \A s \in Threads : call'[s] = Idle
  BY <1>1, <1>2, Alone DEF Return, ProcessInv, TypeOK
<1>5. \A s \in Threads : Pending(call[s])'
  BY <1>4 DEF Pending, Idle
<1>6. \A x \in Ids : sales'[x] = IF x = id THEN <<call[t].user>> ELSE sales[x]
  BY <1>1, <1>2 DEF ProcessInv, TypeOK
<1>7. \A x \in Ids, u \in Users : SoldTo(x, u) => SoldTo(x, u)'
  BY <1>1 DEF SoldTo, Matching, SoldDocument
<1>8. Reported'
  <2> SUFFICES ASSUME NEW x \in Ids, sales'[x] # <<>>
               PROVE  Len(sales'[x]) = 1 /\ \E u \in Users : u = sales'[x][1] /\ SoldTo(x, u)'
    BY DEF Reported, SoldTo, Matching, SoldDocument
  <2>1. CASE x = id
    BY <1>2, <1>6, <1>7, <2>1
  <2>2. CASE x # id
    <3>1. sales[x] # <<>> /\ sales'[x] = sales[x] /\ sales[x] \in Seq(Users)
      BY <1>6, <2>2 DEF ProcessInv, TypeOK
    <3>2. Len(sales[x]) = 1 /\ SoldTo(x, sales[x][1])
      BY <3>1 DEF StoreInv, Reported
    <3> QED
      BY <1>7, <3>1, <3>2
  <2> QED
    BY <2>1, <2>2
<1> QED
  BY <1>3, <1>5, <1>8 DEF StoreInv

LEMMA StoreCancel ==
  ASSUME ProcessInv, StoreInv, NEW t \in Threads, NEW id \in Ids, NEW u \in Users,
         cancelListing(t, id, u)
  PROVE  StoreInv' /\ EndedKept
<1> DEFINE old  == auction_items_[id]
           item == [old EXCEPT !.status = "CANCELLED"]
<1>1. UNCHANGED <<running, mutex_, call, next_auction_id_, sales>>
      /\ mutex_ = NoThread /\ old.status = "ACTIVE"
  BY DEF cancelListing, history, Free
<1>2. old \in Items /\ old.id = id
  BY <1>1, OnSale, ConstantsOK DEF ProcessInv, FiledById, NoListing, Items, AuctionItem
<1>3. PICK ended \in Items : ended = item
  BY <1>2 DEF Items, AuctionItem, Status
<1>4. ended.id = id /\ ended.status = "CANCELLED"
  BY <1>2, <1>3 DEF Items, AuctionItem
<1>5. PICK o \in {"ok", "lost", "unacked", "thrown"} : updateAuctionItem(ended, o)
  BY <1>3 DEF cancelListing
<1>6. auction_items_' = [auction_items_ EXCEPT ![id] = ended]
  BY <1>3 DEF cancelListing
<1>7. FreshIds' /\ UniqueAuctionIds' /\ MemoryNotBehindStore' /\ Reported' /\ EndedKept
  BY <1>1, <1>4, <1>5, <1>6, EndsInStore
<1>8. \A s \in Threads : call'[s] = Idle
  BY <1>1, ConstantsOK DEF ConstantsOK, ProcessInv, LockInv
<1>9. \A s \in Threads : Pending(call[s])'
  BY <1>8 DEF Pending, Idle
<1> QED
  BY <1>7, <1>9 DEF StoreInv

LEMMA StoreExpireOne ==
  ASSUME ProcessInv, StoreInv, NEW t \in Threads, NEW id \in Ids, ExpireOne(t, id)
  PROVE  StoreInv' /\ EndedKept
<1> DEFINE old  == auction_items_[id]
           item == [old EXCEPT !.status = "EXPIRED"]
<1>1. UNCHANGED <<running, next_auction_id_, sales>>
  BY DEF ExpireOne, history
<1>2. /\ call[t] # Idle /\ call[t] \in Calls /\ call[t].pc = "expire"
      /\ old.status = "ACTIVE"
  BY DEF ExpireOne, Idle, ProcessInv, TypeOK, CallsSound, Sound
<1>3. old \in Items /\ old.id = id
  BY <1>2, OnSale, ConstantsOK DEF ProcessInv, FiledById, NoListing, Items, AuctionItem
<1>4. PICK ended \in Items : ended = item
  BY <1>3 DEF Items, AuctionItem, Status
<1>5. ended.id = id /\ ended.status = "EXPIRED"
  BY <1>3, <1>4 DEF Items, AuctionItem
<1>6. PICK o \in {"ok", "lost", "unacked", "thrown"} : updateAuctionItem(ended, o)
  BY <1>4 DEF ExpireOne
<1>7. auction_items_' = [auction_items_ EXCEPT ![id] = ended]
  BY <1>4 DEF ExpireOne
<1>8. FreshIds' /\ UniqueAuctionIds' /\ MemoryNotBehindStore' /\ Reported' /\ EndedKept
  BY <1>1, <1>2, <1>5, <1>6, <1>7, EndsInStore
<1>9. call' = [call EXCEPT ![t] = Idle] \/ \E a, b \in SUBSET Ids :
        call' = [call EXCEPT ![t] = [@ EXCEPT !.todo = a, !.done = b]]
  <2>1. call[t].todo \subseteq Ids /\ call[t].done \subseteq Ids
    BY <1>2 DEF Calls
  <2> DEFINE a == call[t].todo \ {id}
             b(x) == IF ItemUpdated(item, x) THEN call[t].done \cup {id} ELSE call[t].done
  <2>2. \/ call' = [call EXCEPT ![t] = Idle]
        \/ \E x \in {"ok", "lost", "unacked", "thrown"} :
             call' = [call EXCEPT ![t].todo = a, ![t].done = b(x)]
    BY DEF ExpireOne, Return
  <2>3. a \in SUBSET Ids /\ \A x : b(x) \in SUBSET Ids
    BY <2>1
  <2> HIDE DEF a, b
  <2> QED
    BY <2>2, <2>3
<1>10. \A s \in Threads : call'[s].pc # "finish"
  <2>1. \A s \in Threads \ {t} : call[s] = Idle
    BY <1>2, Alone DEF ProcessInv
  <2>2. \A s \in Threads \ {t} : call'[s] = Idle
    BY <1>9, <2>1 DEF ProcessInv, TypeOK
  <2>3. CASE call' = [call EXCEPT ![t] = Idle]
    BY <2>2, <2>3 DEF ProcessInv, TypeOK, Idle
  <2>4. CASE \E a, b \in SUBSET Ids :
               call' = [call EXCEPT ![t] = [@ EXCEPT !.todo = a, !.done = b]]
    <3>1. PICK a \in SUBSET Ids, b \in SUBSET Ids :
            call' = [call EXCEPT ![t] = [@ EXCEPT !.todo = a, !.done = b]]
      BY <2>4
    <3>2. [call[t] EXCEPT !.todo = a, !.done = b].pc = "expire"
      BY <1>2 DEF Calls
    <3>3. call'[t].pc = "expire"
      BY <3>1, <3>2 DEF ProcessInv, TypeOK
    <3> QED
      BY <2>2, <3>3 DEF Idle
  <2> QED
    BY <1>9, <2>3, <2>4
<1> QED
  BY <1>8, <1>10 DEF StoreInv, Pending

LEMMA StoreRegister ==
  ASSUME ProcessInv, StoreInv, NEW t \in Threads, NEW u \in Users, NEW p \in Prices,
         registerItem(t, u, p)
  PROVE  StoreInv' /\ EndedKept
<1> DEFINE id   == next_auction_id_
           item == [id |-> id, seller |-> u, buyer |-> NoUser, price |-> p,
                    status |-> "ACTIVE", expires |-> now + ListingPeriod]
           doc  == itemToBson(item)
<1>1. UNCHANGED <<running, mutex_, call, sales>> /\ mutex_ = NoThread /\ id \in Ids /\ running
      /\ next_auction_id_' = id + 1
  BY DEF registerItem, history, Free, NextId
<1>2. PICK o \in {"ok", "lost", "unacked"} :
        /\ saveAuctionItem(item, o)
        /\ auction_items_' = IF o = "ok" THEN [auction_items_ EXCEPT ![id] = item]
                                         ELSE auction_items_
  BY DEF registerItem
<1>3. item \in Items
  BY <1>1, ConstantsOK DEF ConstantsOK, ProcessInv, TypeOK, Items, AuctionItem, Status
<1>4. doc \in Documents /\ doc.id = id
  BY <1>3, ItemTypes, ConversionFields
<1>5. auctions \in Seq(Documents) /\ id \in Nat
  BY <1>1, ConstantsOK DEF ProcessInv, TypeOK, Ids, ConstantsOK
<1>6. /\ auctions' = auctions \/ auctions' = Append(auctions, doc)
      /\ o = "ok" => auctions' = Append(auctions, doc)
  BY <1>2 DEF saveAuctionItem
<1> HIDE DEF doc
<1>7. /\ DOMAIN auctions \subseteq DOMAIN auctions'
      /\ \A i \in DOMAIN auctions : auctions'[i] = auctions[i]
      /\ \A i \in DOMAIN auctions' \ DOMAIN auctions : i = Len(auctions) + 1 /\ auctions'[i] = doc
      /\ o = "ok" => Len(auctions) + 1 \in DOMAIN auctions'
  BY <1>5, <1>6, <1>4
<1>8. \A i \in DOMAIN auctions : auctions[i].id \in Ids /\ auctions[i].id < id
  BY <1>1, DocumentType DEF StoreInv, FreshIds, ProcessInv
<1>9. FreshIds' /\ UniqueAuctionIds'
  <2>1. FreshIds'
    BY <1>1, <1>4, <1>5, <1>7, <1>8, ConstantsOK DEF FreshIds, Ids, ConstantsOK
  <2>2. UniqueAuctionIds'
    BY <1>4, <1>5, <1>7, <1>8, ConstantsOK DEF StoreInv, UniqueAuctionIds, Ids, ConstantsOK
  <2> QED
    BY <2>1, <2>2
<1>10. \A x \in Ids : Matching(x) \subseteq Matching(x)'
  BY <1>7 DEF Matching
<1>11. MemoryNotBehindStore'
  <2> SUFFICES ASSUME NEW x \in Ids, auction_items_'[x] # NoListing
               PROVE  \E j \in Matching(x)' :
                        \/ auctions'[j] = itemToBson(auction_items_'[x])
                        \/ auctions'[j].status = "ACTIVE" /\ auction_items_'[x].status # "ACTIVE"
    BY DEF MemoryNotBehindStore, itemToBson
  <2>1. CASE x = id /\ o = "ok"
    <3>1. auction_items_'[x] = item
      BY <1>2, <2>1 DEF ProcessInv, TypeOK
    <3>2. Len(auctions) + 1 \in Matching(x)' /\ auctions'[Len(auctions) + 1] = doc
      BY <1>4, <1>5, <1>7, <2>1 DEF Matching
    <3> QED
      BY <3>1, <3>2 DEF doc
  <2>2. CASE ~(x = id /\ o = "ok")
    <3>1. auction_items_'[x] = auction_items_[x]
      BY <1>2, <2>2 DEF ProcessInv, TypeOK
    <3>2. PICK j \in Matching(x) :
            \/ auctions[j] = itemToBson(auction_items_[x])
            \/ auctions[j].status = "ACTIVE" /\ auction_items_[x].status # "ACTIVE"
      BY <3>1 DEF StoreInv, MemoryNotBehindStore
    <3>3. j \in DOMAIN auctions
      BY <3>2 DEF Matching
    <3> QED
      BY <1>7, <1>10, <3>1, <3>2, <3>3
  <2> QED
    BY <2>1, <2>2
<1>12. Reported'
  <2> SUFFICES ASSUME NEW x \in Ids, sales[x] # <<>>
               PROVE  Len(sales[x]) = 1 /\ SoldTo(x, sales[x][1])'
    BY <1>1 DEF Reported, SoldTo, Matching, SoldDocument
  <2>1. PICK j \in Matching(x) : SoldDocument(j) /\ auctions[j].buyer = sales[x][1]
    BY DEF StoreInv, Reported, SoldTo
  <2>2. j \in DOMAIN auctions
    BY <2>1 DEF Matching
  <2>3. j \in Matching(x)' /\ SoldDocument(j)' /\ auctions'[j].buyer = sales[x][1]
    BY <1>7, <1>10, <2>1, <2>2 DEF SoldDocument
  <2> QED
    BY <1>1, <2>3 DEF StoreInv, Reported, SoldTo
<1>13. \A s \in Threads : Pending(call[s])'
  <2>1. \A s \in Threads : call'[s] = Idle
    BY <1>1, ConstantsOK DEF ConstantsOK, ProcessInv, LockInv
  <2> QED
    BY <2>1 DEF Pending, Idle
<1> QED
  BY <1>7, <1>9, <1>11, <1>12, <1>13 DEF StoreInv, EndedKept

LEMMA StoreCrash ==
  ASSUME StoreInv, Crash
  PROVE  StoreInv' /\ EndedKept
<1>1. /\ UNCHANGED <<auctions, sales>>
      /\ ~running'
      /\ auction_items_' = [id \in Ids |-> NoListing]
      /\ call' = [t \in Threads |-> Idle]
  BY DEF Crash, history
<1>2. FreshIds' /\ UniqueAuctionIds' /\ MemoryNotBehindStore'
  BY <1>1 DEF StoreInv, FreshIds, UniqueAuctionIds, MemoryNotBehindStore
<1>3. Reported' /\ EndedKept
  BY <1>1 DEF StoreInv, Reported, SoldTo, Matching, SoldDocument, EndedKept
<1>4. \A t \in Threads : Pending(call[t])'
  BY <1>1 DEF Pending, Idle
<1> QED
  BY <1>2, <1>3, <1>4 DEF StoreInv

(* A constructor that reads every document: next_auction_id_ is past all   *)
(* of them, and memory holds what the collection says.                     *)
LEMMA StoreConstruct ==
  ASSUME "load" \notin Faults, ProcessInv, StoreInv, Construct
  PROVE  StoreInv' /\ EndedKept
<1> DEFINE k        == Len(auctions)
           last(id) == {i \in 1 .. k : /\ auctions[i].id = id
                                       /\ \A j \in i + 1 .. k : auctions[j].id # id}
<1>1. /\ auction_items_' =
           [id \in Ids |-> IF last(id) = {} THEN NoListing
                           ELSE bsonToItem(auctions[CHOOSE i \in last(id) : TRUE])]
      /\ \A i \in 1 .. k : auctions[i].id < next_auction_id_'
  BY DEF Construct, Fail
<1>2. UNCHANGED <<call, auctions, sales>> /\ DOMAIN auctions = 1 .. k /\ ~running
  BY DEF Construct, history, ProcessInv, TypeOK
<1>3. FreshIds' /\ UniqueAuctionIds' /\ EndedKept /\ Reported'
  BY <1>1, <1>2 DEF StoreInv, FreshIds, UniqueAuctionIds, EndedKept, Reported, SoldTo, Matching,
     SoldDocument
<1>4. \A t \in Threads : Pending(call[t])'
  BY <1>2 DEF StoreInv, Pending, SoldTo, Matching, SoldDocument
<1>5. MemoryNotBehindStore'
  <2> SUFFICES ASSUME NEW id \in Ids, auction_items_'[id] # NoListing
               PROVE  \E i \in Matching(id)' : auctions'[i] = itemToBson(auction_items_'[id])
    BY DEF MemoryNotBehindStore, itemToBson
  <2>1. last(id) # {} /\ auction_items_'[id] = bsonToItem(auctions[CHOOSE i \in last(id) : TRUE])
    BY <1>1
  <2>2. PICK i \in last(id) : auction_items_'[id] = bsonToItem(auctions[i])
    BY <2>1
  <2>3. i \in DOMAIN auctions /\ auctions[i].id = id /\ auctions[i] \in Documents
    BY <1>2, DocumentType DEF ProcessInv
  <2>4. i \in Matching(id)' /\ auctions'[i] = itemToBson(auction_items_'[id])
    BY <1>2, <2>2, <2>3, ItemTypes DEF Matching
  <2> QED
    BY <2>4
<1> QED
  BY <1>3, <1>4, <1>5 DEF StoreInv

-----------------------------------------------------------------------------
(* Every step keeps StoreInv and the documents of what ended.              *)
LEMMA StoreStep ==
  ASSUME "load" \notin Faults
  PROVE  ProcessInv /\ StoreInv /\ [Next]_vars => StoreInv' /\ EndedKept
<1> SUFFICES ASSUME ProcessInv, StoreInv, [Next]_vars PROVE StoreInv' /\ EndedKept
  OBVIOUS
<1>1. CASE Construct
  BY <1>1, StoreConstruct
<1>2. ASSUME NEW t \in Threads, Called(t)
      PROVE  StoreInv' /\ EndedKept
  BY <1>2, StoreRegister, StoreQuietSteps, StoreCancel DEF Called
<1>3. ASSUME NEW t \in Threads, Inside(t)
      PROVE  StoreInv' /\ EndedKept
  BY <1>3, StoreQuietSteps, StoreRecordSale, StoreFinishPurchase, StoreExpireOne DEF Inside
<1>4. CASE Tick
  BY <1>4, StoreTick
<1>5. CASE Crash
  BY <1>5, StoreCrash
<1>6. CASE UNCHANGED vars
  BY <1>6, StoreUntouched DEF vars, memory, history
<1> QED
  BY <1>1, <1>2, <1>3, <1>4, <1>5, <1>6 DEF Next

(* With complete loads, StoreInv holds in every behaviour.                 *)
THEOREM StoreInvariant ==
  ASSUME "load" \notin Faults
  PROVE  Spec => [](ProcessInv /\ StoreInv)
<1>1. Init => ProcessInv /\ StoreInv
  BY ProcessInit, StoreInit
<1>2. ProcessInv /\ StoreInv /\ [Next]_vars => (ProcessInv /\ StoreInv)'
  BY ProcessStep, StoreStep
<1> QED
  BY <1>1, <1>2, PTL DEF Spec

(* At most one purchase of a listing is ever reported to have succeeded,   *)
(* across every interleaving, failure, crash and restart.                  *)
THEOREM AtMostOneSale ==
  ASSUME "load" \notin Faults
  PROVE  Spec => []OneSale
<1>1. ProcessInv /\ StoreInv => OneSale
  <2> SUFFICES ASSUME StoreInv, NEW id \in Ids PROVE Len(sales[id]) <= 1
    BY DEF OneSale
  <2>1. CASE sales[id] = <<>>
    BY <2>1
  <2>2. CASE sales[id] # <<>>
    <3>1. Reported
      BY DEF StoreInv
    <3>2. Len(sales[id]) = 1
      BY <2>2, <3>1 DEF Reported
    <3> QED
      BY <3>2
  <2> QED
    BY <2>1, <2>2
<1> QED
  BY <1>1, StoreInvariant, PTL

(* A reported purchase stays in the collection, SOLD to that buyer.        *)
THEOREM ReceiptsDurable ==
  ASSUME "load" \notin Faults
  PROVE  Spec => []ReceiptIsDurable
<1>1. ProcessInv /\ StoreInv => ReceiptIsDurable
  <2> SUFFICES ASSUME ProcessInv, StoreInv, NEW id \in Ids, NEW n \in DOMAIN sales[id]
               PROVE  SoldTo(id, sales[id][n])
    BY DEF ReceiptIsDurable, SoldTo
  <2>1. sales[id] \in Seq(Users) /\ sales[id] # <<>>
    BY DEF ProcessInv, TypeOK
  <2>2. Len(sales[id]) = 1 /\ SoldTo(id, sales[id][1])
    BY <2>1 DEF StoreInv, Reported
  <2> QED
    BY <2>1, <2>2
<1> QED
  BY <1>1, StoreInvariant, PTL

(* registerItem never reuses an id that a document has.                    *)
THEOREM AuctionIdsUnique ==
  ASSUME "load" \notin Faults
  PROVE  Spec => []UniqueAuctionIds
<1>1. ProcessInv /\ StoreInv => UniqueAuctionIds
  BY DEF StoreInv
<1> QED
  BY <1>1, StoreInvariant, PTL

(* Memory is never behind the collection.                                  *)
THEOREM MemoryLeads ==
  ASSUME "load" \notin Faults
  PROVE  Spec => []MemoryNotBehindStore
<1>1. ProcessInv /\ StoreInv => MemoryNotBehindStore
  BY DEF StoreInv
<1> QED
  BY <1>1, StoreInvariant, PTL

(* No step writes the document of a listing that ended.                    *)
THEOREM EndedIsFinal ==
  ASSUME "load" \notin Faults
  PROVE  Spec => EndedStaysEnded
<1>1. ProcessInv /\ StoreInv /\ [Next]_vars =>
        [\A i \in DOMAIN auctions : auctions[i].status # "ACTIVE" =>
           i \in DOMAIN auctions' /\ auctions'[i] = auctions[i]]_vars
  BY StoreStep DEF EndedKept
<1> QED
  BY <1>1, StoreInvariant, PTL DEF Spec, EndedStaysEnded
-----------------------------------------------------------------------------
(***************************************************************************)
(* The auction house implements Marketplace, from the same invariants.     *)
(***************************************************************************)

(* The record that the collection keeps for a Marketplace.                 *)
Statuses == [id \in Ids |-> Decided(id, "status", "NONE")]
Holders  == [id \in Ids |-> Decided(id, "buyer", NoUser)]

LEMMA Record == Market!market = <<Statuses, Holders, sales>>
  BY DEF Market!market, Statuses, Holders

(* The record of a listing is what its document says.                      *)
RecordAgrees ==
  /\ \A i \in DOMAIN auctions : /\ auctions[i].id \in Ids
                                /\ Statuses[auctions[i].id] = auctions[i].status
                                /\ Holders[auctions[i].id] = auctions[i].buyer
  /\ \A id \in Ids : (\A i \in DOMAIN auctions : auctions[i].id # id) =>
       Statuses[id] = "NONE" /\ Holders[id] = NoUser

LEMMA RecordOfDocuments == TypeOK /\ UniqueAuctionIds => RecordAgrees
<1> SUFFICES ASSUME TypeOK, UniqueAuctionIds PROVE RecordAgrees
  OBVIOUS
<1>1. ASSUME NEW i \in DOMAIN auctions
      PROVE  /\ auctions[i].id \in Ids
             /\ Statuses[auctions[i].id] = auctions[i].status
             /\ Holders[auctions[i].id] = auctions[i].buyer
  <2> DEFINE id == auctions[i].id
  <2>1. id \in Ids
    BY DocumentType
  <2>2. Matching(id) = {i}
    BY DEF Matching, UniqueAuctionIds
  <2>3. FirstMatch(id) = i
    <3>1. i <= i
      BY DEF TypeOK
    <3> QED
      BY <2>2, <3>1 DEF FirstMatch
  <2> HIDE DEF id
  <2>4. Statuses[id] = auctions[i].status /\ Holders[id] = auctions[i].buyer
    BY <2>1, <2>2, <2>3 DEF Statuses, Holders, Decided
  <2> QED
    BY <2>1, <2>4 DEF id
<1>2. ASSUME NEW id \in Ids, \A i \in DOMAIN auctions : auctions[i].id # id
      PROVE  Statuses[id] = "NONE" /\ Holders[id] = NoUser
  <2>1. Matching(id) = {}
    BY <1>2 DEF Matching
  <2> QED
    BY <2>1 DEF Statuses, Holders, Decided
<1> QED
  BY <1>1, <1>2 DEF RecordAgrees

LEMMA RecordOfDocumentsNext == TypeOK' /\ UniqueAuctionIds' => RecordAgrees'
  BY RecordOfDocuments, PTL

(* One document is replaced by another with the same id.                   *)
LEMMA DocumentReplaced ==
  ASSUME RecordAgrees, RecordAgrees', NEW i \in DOMAIN auctions, NEW doc,
         doc.id = auctions[i].id, auctions \in Seq(Documents),
         auctions' = [auctions EXCEPT ![i] = doc]
  PROVE  /\ Statuses' = [Statuses EXCEPT ![doc.id] = doc.status]
         /\ Holders' = [Holders EXCEPT ![doc.id] = doc.buyer]
<1>1. /\ DOMAIN auctions' = DOMAIN auctions
      /\ auctions'[i] = doc
      /\ \A j \in DOMAIN auctions : j # i => auctions'[j] = auctions[j]
  OBVIOUS
<1>2. doc.id \in Ids
  BY DEF RecordAgrees
<1>3. ASSUME NEW x \in Ids
      PROVE  /\ Statuses'[x] = IF x = doc.id THEN doc.status ELSE Statuses[x]
             /\ Holders'[x] = IF x = doc.id THEN doc.buyer ELSE Holders[x]
  <2>1. CASE x = doc.id
    BY <1>1, <2>1 DEF RecordAgrees
  <2>2. CASE x # doc.id /\ \E j \in DOMAIN auctions : auctions[j].id = x
    <3>1. PICK j \in DOMAIN auctions : auctions[j].id = x /\ j # i
      BY <2>2
    <3>2. auctions'[j] = auctions[j] /\ j \in DOMAIN auctions'
      BY <1>1, <3>1
    <3> QED
      BY <2>2, <3>1, <3>2 DEF RecordAgrees
  <2>3. CASE x # doc.id /\ \A j \in DOMAIN auctions : auctions[j].id # x
    <3>1. \A j \in DOMAIN auctions' : auctions'[j].id # x
      BY <1>1, <2>3
    <3> QED
      BY <2>3, <3>1 DEF RecordAgrees
  <2> QED
    BY <2>1, <2>2, <2>3
<1>4. DOMAIN Statuses = Ids /\ DOMAIN Holders = Ids /\ DOMAIN Statuses' = Ids /\ DOMAIN Holders' = Ids
  BY DEF Statuses, Holders
<1>5. Statuses = [x \in Ids |-> Statuses[x]] /\ Statuses' = [x \in Ids |-> Statuses'[x]]
  BY DEF Statuses
<1>6. Holders = [x \in Ids |-> Holders[x]] /\ Holders' = [x \in Ids |-> Holders'[x]]
  BY DEF Holders
<1> QED
  BY <1>2, <1>3, <1>4, <1>5, <1>6
-----------------------------------------------------------------------------
(* A step that writes neither documents nor receipts is a stuttering step. *)
LEMMA Stutter ==
  ASSUME UNCHANGED <<auctions, sales>>
  PROVE  UNCHANGED Market!market
<1>1. UNCHANGED <<Statuses, Holders, sales>>
  BY DEF Statuses, Holders, Decided, FirstMatch, Matching
<1> QED
  BY <1>1 DEF Market!market, Statuses, Holders

(* A listing on sale ends, in memory and perhaps in the collection.        *)
LEMMA Ending ==
  ASSUME ProcessInv, StoreInv, ProcessInv', StoreInv',
         NEW id \in Ids, NEW item \in Items,
         auction_items_[id].status = "ACTIVE",
         item.id = id,
         \/ item.status = "SOLD" /\ item.buyer \in Users
         \/ item.status \in {"EXPIRED", "CANCELLED"} /\ item.buyer = auction_items_[id].buyer,
         auctions' \in {auctions, [auctions EXCEPT ![FirstMatch(id)] = itemToBson(item)]},
         UNCHANGED sales
  PROVE  [Market!Next]_(Market!market)
<1> DEFINE i   == FirstMatch(id)
           doc == itemToBson(item)
<1>1. CASE auctions' = auctions
  BY <1>1, Stutter
<1>2. CASE auctions' = [auctions EXCEPT ![i] = doc]
  <2>1. /\ i \in DOMAIN auctions
        /\ auctions[i].id = id
        /\ auctions[i].status = "ACTIVE"
        /\ auctions[i] = itemToBson(auction_items_[id])
        /\ auction_items_[id] \in Items
    BY OnSale
  <2>2. /\ doc.id = id /\ doc.status = item.status /\ doc.buyer = item.buyer
        /\ auctions[i].buyer = auction_items_[id].buyer
    BY <2>1, ConversionFields
  <2>3. RecordAgrees /\ RecordAgrees'
    BY RecordOfDocuments, RecordOfDocumentsNext DEF ProcessInv, StoreInv
  <2>4. Statuses[id] = "ACTIVE" /\ Holders[id] = auctions[i].buyer
    BY <2>1, <2>3 DEF RecordAgrees
  <2>5. auctions \in Seq(Documents)
    BY DEF ProcessInv, TypeOK
  <2> HIDE DEF i, doc
  <2>6. /\ Statuses' = [Statuses EXCEPT ![id] = item.status]
        /\ Holders' = [Holders EXCEPT ![id] = item.buyer]
    <3>1. doc.id = auctions[i].id /\ auctions' = [auctions EXCEPT ![i] = doc]
      BY <1>2, <2>1, <2>2
    <3>2. /\ Statuses' = [Statuses EXCEPT ![doc.id] = doc.status]
          /\ Holders' = [Holders EXCEPT ![doc.id] = doc.buyer]
      BY <2>1, <2>3, <2>5, <3>1, DocumentReplaced
    <3> QED
      BY <2>2, <3>2
  <2>7. CASE item.status = "SOLD" /\ item.buyer \in Users
    <3>1. Market!Sell(id, item.buyer)
      BY <2>4, <2>6, <2>7 DEF Market!Sell, Statuses, Holders
    <3> QED
      BY <2>7, <3>1 DEF Market!Next
  <2>8. CASE item.status \in {"EXPIRED", "CANCELLED"} /\ item.buyer = auction_items_[id].buyer
    <3>1. Holders' = Holders
      BY <2>2, <2>4, <2>6, <2>8 DEF Holders
    <3>2. Market!Withdraw(id)
      BY <2>4, <2>6, <2>8, <3>1 DEF Market!Withdraw, Market!Endings, Statuses, Holders
    <3> QED
      BY <3>2 DEF Market!Next
  <2> QED
    BY <2>7, <2>8
<1> QED
  BY <1>1, <1>2

LEMMA MarketRecordSale ==
  ASSUME ProcessInv, StoreInv, ProcessInv', StoreInv', NEW t \in Threads, RecordSale(t)
  PROVE  [Market!Next]_(Market!market)
<1> DEFINE id   == call[t].id
           old  == auction_items_[id]
           item == [old EXCEPT !.status = "SOLD", !.buyer = call[t].user]
<1>1. id \in Ids /\ call[t].user \in Users /\ old.status = "ACTIVE"
  BY DEF RecordSale, ProcessInv, CallsSound, Sound, Purchasing
<1>2. old \in Items /\ old.id = id
  BY <1>1, OnSale, ConstantsOK DEF ProcessInv, FiledById, NoListing, Items, AuctionItem
<1>3. PICK sold \in Items : sold = item
  BY <1>1, <1>2 DEF Items, AuctionItem, Status
<1>4. sold.id = id /\ sold.status = "SOLD" /\ sold.buyer = call[t].user
  BY <1>2, <1>3 DEF Items, AuctionItem
<1>5. auctions' \in {auctions, [auctions EXCEPT ![FirstMatch(id)] = itemToBson(sold)]}
  BY <1>3, <1>4 DEF RecordSale, updateAuctionItem
<1>6. UNCHANGED sales
  BY DEF RecordSale, history
<1> QED
  BY <1>1, <1>4, <1>5, <1>6, Ending

LEMMA MarketCancel ==
  ASSUME ProcessInv, StoreInv, ProcessInv', StoreInv',
         NEW t \in Threads, NEW id \in Ids, NEW u \in Users, cancelListing(t, id, u)
  PROVE  [Market!Next]_(Market!market)
<1> DEFINE old  == auction_items_[id]
           item == [old EXCEPT !.status = "CANCELLED"]
<1>1. old.status = "ACTIVE" /\ UNCHANGED sales
  BY DEF cancelListing, history
<1>2. old \in Items /\ old.id = id
  BY <1>1, OnSale, ConstantsOK DEF ProcessInv, FiledById, NoListing, Items, AuctionItem
<1>3. PICK ended \in Items : ended = item
  BY <1>2 DEF Items, AuctionItem, Status
<1>4. ended.id = id /\ ended.status = "CANCELLED" /\ ended.buyer = old.buyer
  BY <1>2, <1>3 DEF Items, AuctionItem
<1>5. auctions' \in {auctions, [auctions EXCEPT ![FirstMatch(id)] = itemToBson(ended)]}
  BY <1>3, <1>4 DEF cancelListing, updateAuctionItem
<1> QED
  BY <1>1, <1>4, <1>5, Ending

LEMMA MarketExpireOne ==
  ASSUME ProcessInv, StoreInv, ProcessInv', StoreInv',
         NEW t \in Threads, NEW id \in Ids, ExpireOne(t, id)
  PROVE  [Market!Next]_(Market!market)
<1> DEFINE old  == auction_items_[id]
           item == [old EXCEPT !.status = "EXPIRED"]
<1>1. old.status = "ACTIVE" /\ UNCHANGED sales
  BY DEF ExpireOne, history, ProcessInv, CallsSound, Sound
<1>2. old \in Items /\ old.id = id
  BY <1>1, OnSale, ConstantsOK DEF ProcessInv, FiledById, NoListing, Items, AuctionItem
<1>3. PICK ended \in Items : ended = item
  BY <1>2 DEF Items, AuctionItem, Status
<1>4. ended.id = id /\ ended.status = "EXPIRED" /\ ended.buyer = old.buyer
  BY <1>2, <1>3 DEF Items, AuctionItem
<1>5. auctions' \in {auctions, [auctions EXCEPT ![FirstMatch(id)] = itemToBson(ended)]}
  BY <1>3, <1>4 DEF ExpireOne, updateAuctionItem
<1> QED
  BY <1>1, <1>4, <1>5, Ending

(* The insert took effect, or not: the collection offers one new listing,  *)
(* or none.                                                                *)
LEMMA MarketRegister ==
  ASSUME ProcessInv, StoreInv, ProcessInv', StoreInv',
         NEW t \in Threads, NEW u \in Users, NEW p \in Prices, registerItem(t, u, p)
  PROVE  [Market!Next]_(Market!market)
<1> DEFINE id   == next_auction_id_
           item == [id |-> id, seller |-> u, buyer |-> NoUser, price |-> p,
                    status |-> "ACTIVE", expires |-> now + ListingPeriod]
           doc  == itemToBson(item)
<1>1. id \in Ids /\ running /\ UNCHANGED sales
  BY DEF registerItem, Free, history
<1>2. auctions' = auctions \/ auctions' = Append(auctions, doc)
  BY DEF registerItem, saveAuctionItem
<1>3. doc.id = id /\ doc.status = "ACTIVE" /\ doc.buyer = NoUser
  <2>1. item \in Items
    BY <1>1, ConstantsOK DEF ConstantsOK, ProcessInv, TypeOK, Items, AuctionItem, Status
  <2> QED
    BY <2>1, ConversionFields
<1> HIDE DEF doc
<1>4. CASE auctions' = auctions
  BY <1>1, <1>4, Stutter
<1>5. CASE auctions' = Append(auctions, doc)
  <2>1. RecordAgrees /\ RecordAgrees'
    BY RecordOfDocuments, RecordOfDocumentsNext DEF ProcessInv, StoreInv
  <2>2. auctions \in Seq(Documents)
    BY DEF ProcessInv, TypeOK
  <2>3. \A i \in DOMAIN auctions : auctions[i].id # id
    <3>1. \A i \in DOMAIN auctions : auctions[i].id \in Ids /\ auctions[i].id < id
      BY <1>1, DocumentType DEF StoreInv, FreshIds, ProcessInv
    <3> QED
      BY <3>1 DEF Ids
  <2>4. /\ \A i \in DOMAIN auctions : i \in DOMAIN auctions' /\ auctions'[i] = auctions[i]
        /\ Len(auctions) + 1 \in DOMAIN auctions' /\ auctions'[Len(auctions) + 1] = doc
        /\ \A i \in DOMAIN auctions' : i \in DOMAIN auctions \/ auctions'[i] = doc
    BY <1>5, <2>2
  <2>5. ASSUME NEW x \in Ids
        PROVE  /\ Statuses'[x] = IF x = id THEN "ACTIVE" ELSE Statuses[x]
               /\ Holders'[x] = Holders[x]
    <3>1. CASE x = id
      <4>1. Holders[x] = NoUser
        BY <2>1, <2>3, <3>1 DEF RecordAgrees
      <4>2. Statuses'[x] = "ACTIVE" /\ Holders'[x] = NoUser
        BY <1>3, <2>1, <2>4, <3>1 DEF RecordAgrees
      <4> QED
        BY <3>1, <4>1, <4>2
    <3>2. CASE x # id /\ \E i \in DOMAIN auctions : auctions[i].id = x
      <4>1. PICK i \in DOMAIN auctions : auctions[i].id = x
        BY <3>2
      <4>2. i \in DOMAIN auctions' /\ auctions'[i] = auctions[i]
        BY <2>4
      <4> QED
        BY <2>1, <3>2, <4>1, <4>2 DEF RecordAgrees
    <3>3. CASE x # id /\ \A i \in DOMAIN auctions : auctions[i].id # x
      <4>1. \A i \in DOMAIN auctions' : auctions'[i].id # x
        BY <1>3, <2>4, <3>3
      <4> QED
        BY <2>1, <3>3, <4>1 DEF RecordAgrees
    <3> QED
      BY <3>1, <3>2, <3>3
  <2>6. /\ DOMAIN Statuses = Ids /\ Statuses' = [x \in Ids |-> Statuses'[x]]
        /\ Holders = [x \in Ids |-> Holders[x]] /\ Holders' = [x \in Ids |-> Holders'[x]]
    BY DEF Statuses, Holders
  <2>7. Statuses' = [Statuses EXCEPT ![id] = "ACTIVE"] /\ Holders' = Holders
    BY <2>5, <2>6
  <2>8. Statuses[id] = "NONE"
    BY <1>1, <2>1, <2>3 DEF RecordAgrees
  <2>9. Market!Offer(id)
    BY <1>1, <2>7, <2>8 DEF Market!Offer, Statuses, Holders
  <2> QED
    BY <1>1, <2>9 DEF Market!Next
<1> QED
  BY <1>2, <1>4, <1>5

(* The buyer hears of the sale that RecordSale decided.                    *)
LEMMA MarketFinishPurchase ==
  ASSUME ProcessInv, StoreInv, NEW t \in Threads, FinishPurchase(t)
  PROVE  [Market!Next]_(Market!market)
<1> DEFINE id == call[t].id
           u  == call[t].user
<1>1. /\ id \in Ids /\ u \in Users /\ sales[id] = <<>> /\ SoldTo(id, u)
  BY DEF FinishPurchase, ProcessInv, CallsSound, Sound, Purchasing, StoreInv, Pending
<1>2. /\ UNCHANGED auctions
      /\ sales' = [sales EXCEPT ![id] = Append(@, u)]
  BY DEF FinishPurchase
<1>3. RecordAgrees
  BY RecordOfDocuments DEF ProcessInv, StoreInv
<1>4. Statuses[id] = "SOLD" /\ Holders[id] = u
  <2>1. PICK i \in Matching(id) : SoldDocument(i) /\ auctions[i].buyer = u
    BY <1>1 DEF SoldTo
  <2> QED
    BY <1>3, <2>1 DEF RecordAgrees, Matching, SoldDocument
<1>5. UNCHANGED <<Statuses, Holders>>
  BY <1>2 DEF Statuses, Holders, Decided, FirstMatch, Matching
<1>6. sales' = [sales EXCEPT ![id] = <<Holders[id]>>]
  <2>1. Append(sales[id], u) = <<u>>
    BY <1>1
  <2> QED
    BY <1>2, <1>4, <2>1
<1>7. Market!Confirm(id)
  BY <1>1, <1>4, <1>5, <1>6 DEF Market!Confirm, Statuses, Holders
<1> QED
  BY <1>1, <1>7 DEF Market!Next

-----------------------------------------------------------------------------
LEMMA MarketInit == Init => Market!Init
<1> SUFFICES ASSUME Init PROVE Market!Init
  OBVIOUS
<1>1. \A id \in Ids : Statuses[id] = "NONE" /\ Holders[id] = NoUser
  BY DEF Init, Statuses, Holders, Decided, Matching
<1>2. Statuses = [id \in Ids |-> "NONE"] /\ Holders = [id \in Ids |-> NoUser]
  BY <1>1 DEF Statuses, Holders
<1> QED
  BY <1>2 DEF Init, Market!Init, Statuses, Holders

LEMMA MarketStep ==
  ASSUME "load" \notin Faults
  PROVE  ProcessInv /\ StoreInv /\ (ProcessInv /\ StoreInv)' /\ [Next]_vars
           => [Market!Next]_(Market!market)
<1> SUFFICES ASSUME ProcessInv, StoreInv, ProcessInv', StoreInv', [Next]_vars
             PROVE  [Market!Next]_(Market!market)
  OBVIOUS
<1>1. CASE Construct \/ Tick \/ Crash \/ UNCHANGED vars
  BY <1>1, Stutter DEF Construct, Tick, Crash, vars, history
<1>2. ASSUME NEW t \in Threads, Called(t)
      PROVE  [Market!Next]_(Market!market)
  <2>1. CASE UNCHANGED <<auctions, sales>>
    BY <2>1, Stutter
  <2>2. CASE \E u \in Users, p \in Prices : registerItem(t, u, p)
    BY <2>2, MarketRegister
  <2>3. CASE \E id \in Ids, u \in Users : cancelListing(t, id, u)
    BY <2>3, MarketCancel
  <2> QED
    BY <1>2, <2>1, <2>2, <2>3 DEF Called, BeginPurchase, BeginExpiry, history
<1>3. ASSUME NEW t \in Threads, Inside(t)
      PROVE  [Market!Next]_(Market!market)
  <2>1. CASE UNCHANGED <<auctions, sales>>
    BY <2>1, Stutter
  <2>2. CASE RecordSale(t)
    BY <2>2, MarketRecordSale
  <2>3. CASE FinishPurchase(t)
    BY <2>3, MarketFinishPurchase
  <2>4. CASE \E id \in Ids : ExpireOne(t, id)
    BY <2>4, MarketExpireOne
  <2> QED
    BY <1>3, <2>1, <2>2, <2>3, <2>4
    DEF Inside, CheckBuyer, CreditSeller, DebitBuyer, FinishExpiry, history
<1> QED
  BY <1>1, <1>2, <1>3 DEF Next

(* The auction house implements Marketplace: threads, lock, memory,        *)
(* failing writes, crashes and restarts with complete loads show nothing   *)
(* but listings that are offered once, end once, and are handed to the one *)
(* buyer who is told so.                                                   *)
THEOREM HouseImplementsMarketplace ==
  ASSUME "load" \notin Faults
  PROVE  Spec => ImplementsMarketplace
<1>1. ProcessInv /\ StoreInv /\ (ProcessInv /\ StoreInv)' /\ [Next]_vars
        => [Market!Next]_(Market!market)
  BY MarketStep
<1> QED
  BY <1>1, MarketInit, StoreInvariant, PTL DEF Spec, ImplementsMarketplace, Market!Spec
=============================================================================
