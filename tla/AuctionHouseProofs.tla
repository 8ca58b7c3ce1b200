------------------------- MODULE AuctionHouseProofs -------------------------
(***************************************************************************)
(* Proofs about AuctionHouse, for every set of threads, users and prices,  *)
(* every word width and every bound.                                       *)
(***************************************************************************)
EXTENDS AuctionHouseInvariant, SequenceTheorems, WellFoundedInduction, TLAPS

-----------------------------------------------------------------------------
(* The ranges of the code's conversions, and that reading a price back     *)
(* from the collection loses nothing.                                      *)
LEMMA ConversionRange ==
  /\ \A n \in 0 .. 2 * MaxInt32 + 1 : AsInt32(n) \in -MaxInt32 - 1 .. MaxInt32
  /\ \A n \in -MaxInt32 - 1 .. MaxInt32 : /\ AsUint32(n) \in 0 .. 2 * MaxInt32 + 1
                                          /\ AsInt32(AsUint32(n)) = n
  /\ \A n \in 0 .. MaxInt32 : AsInt32(n) = n /\ AsUint32(n) = n
  BY ConstantsOK DEF ConstantsOK, AsInt32, AsUint32

(* A listing in memory becomes a document, a document a listing.           *)
LEMMA ItemTypes ==
  /\ \A item \in Items : itemToBson(item) \in Documents
  /\ \A doc \in Documents : bsonToItem(doc) \in Items /\ itemToBson(bsonToItem(doc)) = doc
  BY ConversionRange, ConstantsOK
     DEF ConstantsOK, itemToBson, bsonToItem, AuctionItem, Items, Documents

(* The conversions touch nothing but the price.                            *)
LEMMA ConversionFields ==
  /\ \A item \in Items : /\ itemToBson(item).id = item.id
                         /\ itemToBson(item).buyer = item.buyer
                         /\ itemToBson(item).status = item.status
                         /\ itemToBson(item).price = AsInt32(item.price)
  /\ \A doc \in Documents : /\ bsonToItem(doc).id = doc.id
                            /\ bsonToItem(doc).buyer = doc.buyer
                            /\ bsonToItem(doc).status = doc.status
                            /\ bsonToItem(doc).price = AsUint32(doc.price)
  BY DEF itemToBson, bsonToItem, Items, Documents, AuctionItem

-----------------------------------------------------------------------------
(* Overwriting at any place leaves a sequence a sequence.                  *)
LEMMA OverwriteType ==
  ASSUME NEW S, NEW s \in Seq(S), NEW i, NEW e \in S
  PROVE  [s EXCEPT ![i] = e] \in Seq(S)
<1>1. Len(s) \in Nat /\ s \in [1 .. Len(s) -> S]
  BY LenProperties
<1>2. [s EXCEPT ![i] = e] \in [1 .. Len(s) -> S]
  BY <1>1
<1> QED
  BY <1>1, <1>2, SeqDef

(* A non-empty set of places has a last one.                               *)
LEMMA Largest ==
  ASSUME NEW k \in Nat, NEW S \in SUBSET (0 .. k), S # {}
  PROVE  \E m \in S : \A j \in S : j <= m
<1> DEFINE T == {n \in Nat : k - n \in S}
<1>1. T \subseteq Nat /\ T # {}
  <2>1. PICK j \in S : TRUE
    OBVIOUS
  <2>2. j \in 0 .. k /\ k - j \in Nat /\ k - (k - j) = j
    OBVIOUS
  <2>3. k - j \in T
    BY <2>1, <2>2
  <2> QED
    BY <2>3
<1>2. PICK x \in T : \A y \in T : ~ (<<y, x>> \in OpToRel(<, Nat))
  BY <1>1, NatLessThanWellFounded, WFMin
<1>3. \A y \in T : ~ (y < x)
  BY <1>1, <1>2 DEF OpToRel
<1>4. ASSUME NEW j \in S PROVE j <= k - x
  <2>1. j \in 0 .. k /\ k - j \in Nat /\ k - (k - j) = j
    OBVIOUS
  <2>2. ~ (k - j < x)
    BY <1>3, <2>1
  <2> QED
    BY <1>1, <2>1, <2>2
<1>5. k - x \in S
  OBVIOUS
<1> QED
  BY <1>4, <1>5

(* What the database calls do to the types.                                *)
LEMMA ReplyType ==
  ASSUME TypeOK, NEW kind, NEW o, Reply(kind, o)
  PROVE  faults' \in 0 .. MaxFaults
  BY ConstantsOK DEF ConstantsOK, TypeOK, Reply, Fail

LEMMA UpdateItemType ==
  ASSUME TypeOK, NEW item \in Items, NEW o, updateAuctionItem(item, o)
  PROVE  auctions' \in Seq(Documents) /\ faults' \in 0 .. MaxFaults
<1>1. itemToBson(item) \in Documents
  BY ItemTypes
<1>2. auctions' \in Seq(Documents)
  <2>1. CASE UNCHANGED auctions
    BY <2>1 DEF TypeOK
  <2>2. CASE auctions' = [auctions EXCEPT ![FirstMatch(item.id)] = itemToBson(item)]
    BY <1>1, <2>2, OverwriteType DEF TypeOK
  <2> QED
    BY <2>1, <2>2 DEF updateAuctionItem
<1> QED
  BY <1>2, ReplyType DEF updateAuctionItem

LEMMA UpdateBalanceType ==
  ASSUME TypeOK, NEW u, NEW amount \in -MaxInt32 - 1 .. MaxInt32, NEW o,
         updateUserBalance(u, amount, o)
  PROVE  balance' \in [Accounts -> 0 .. MaxInt32] /\ faults' \in 0 .. MaxFaults
<1>1. BalanceAllowed(u, amount) => NewBalance(u, amount) \in 0 .. MaxInt32
  BY ConstantsOK DEF ConstantsOK, TypeOK, BalanceAllowed, NewBalance, AsInt32
<1>2. balance' \in [Accounts -> 0 .. MaxInt32]
  BY <1>1 DEF TypeOK, updateUserBalance
<1> QED
  BY <1>2, ReplyType DEF updateUserBalance

-----------------------------------------------------------------------------
(* Type correctness.                                                       *)
LEMMA IdleType == Idle \in Calls
  BY ConstantsOK DEF ConstantsOK, Idle, Calls, PC

LEMMA TypeInit == Init => TypeOK
<1>1. <<>> \in Seq(Documents) /\ <<>> \in Seq(Users)
  BY EmptySeq
<1>2. Init => /\ auctions \in Seq(Documents)
              /\ sales \in [Ids -> Seq(Users)]
              /\ call \in [Threads -> Calls]
  BY <1>1, IdleType DEF Init
<1>3. Init => running \in BOOLEAN /\ mutex_ \in Threads \cup {NoThread} /\ indexed \subseteq Ids
  BY DEF Init
<1>4. Init => /\ auction_items_ \in [Ids -> Items \cup {NoListing}]
              /\ balance \in [Accounts -> 0 .. MaxInt32]
              /\ credited \in [Ids -> Nat]
              /\ charged \in [Ids -> Nat]
  BY ConstantsOK DEF ConstantsOK, Init
<1>5. Init => /\ next_auction_id_ \in 1 .. MaxId + 1
              /\ now \in 0 .. MaxTime
              /\ faults \in 0 .. MaxFaults
              /\ crashes \in 0 .. MaxCrashes
  BY ConstantsOK DEF ConstantsOK, Init
<1> QED
  BY <1>2, <1>3, <1>4, <1>5 DEF TypeOK

LEMMA TypeConstruct == TypeOK /\ Construct => TypeOK'
<1> SUFFICES ASSUME TypeOK, Construct PROVE TypeOK'
  OBVIOUS
<1> PICK k \in 0 .. Len(auctions) :
      LET last(id) == {i \in 1 .. k : /\ auctions[i].id = id
                                      /\ \A j \in i + 1 .. k : auctions[j].id # id}
      IN  /\ IF k = Len(auctions) THEN UNCHANGED faults ELSE Fail("load")
          /\ auction_items_' =
               [id \in Ids |-> IF last(id) = {} THEN NoListing
                               ELSE bsonToItem(auctions[CHOOSE i \in last(id) : TRUE])]
          /\ indexed' = {id \in Ids : \E i \in 1 .. k : /\ auctions[i].id = id
                                                        /\ auctions[i].status = "ACTIVE"}
          /\ \E n \in 1 .. MaxId + 1 :
               /\ \A i \in 1 .. k : auctions[i].id < n
               /\ n = 1 \/ \E i \in 1 .. k : auctions[i].id = n - 1
               /\ next_auction_id_' = n
  BY DEF Construct
<1> DEFINE last(id) == {i \in 1 .. k : /\ auctions[i].id = id
                                       /\ \A j \in i + 1 .. k : auctions[j].id # id}
<1>1. \A i \in 1 .. k : auctions[i] \in Documents
  BY DEF TypeOK
<1>2. \A id \in Ids : last(id) # {} => (CHOOSE i \in last(id) : TRUE) \in 1 .. k
  OBVIOUS
<1>3. auction_items_' \in [Ids -> Items \cup {NoListing}]
  BY <1>1, <1>2, ItemTypes
<1>4. faults' \in 0 .. MaxFaults
  BY ConstantsOK DEF ConstantsOK, TypeOK, Fail
<1> QED
  BY <1>3, <1>4 DEF Construct, TypeOK, history

LEMMA TypeRegister ==
  ASSUME TypeOK, NEW t \in Threads, NEW u \in Users, NEW p \in Prices, registerItem(t, u, p)
  PROVE  TypeOK'
<1> DEFINE item == [id |-> next_auction_id_, seller |-> u, buyer |-> NoUser, price |-> p,
                    status |-> "ACTIVE", expires |-> now + ListingPeriod]
<1>1. item \in Items
  BY ConstantsOK DEF ConstantsOK, TypeOK, registerItem, Items, AuctionItem, Status
<1>2. PICK o \in {"ok", "lost", "unacked"} :
        /\ NextId(o)
        /\ saveAuctionItem(item, o)
        /\ auction_items_' = IF o = "ok" THEN [auction_items_ EXCEPT ![item.id] = item]
                                         ELSE auction_items_
        /\ IF o = "ok" THEN updateIndices(item.id) ELSE UNCHANGED indexed
  BY DEF registerItem
<1>3. auctions' \in Seq(Documents)
  BY <1>1, <1>2, ItemTypes DEF saveAuctionItem, TypeOK
<1>4. faults' \in 0 .. MaxFaults
  BY <1>2, ReplyType DEF saveAuctionItem
<1>5. next_auction_id_ \in Ids /\ next_auction_id_' \in 1 .. MaxId + 1
  BY <1>2, ConstantsOK DEF ConstantsOK, registerItem, NextId, Ids
<1>6. auction_items_' \in [Ids -> Items \cup {NoListing}] /\ indexed' \subseteq Ids
  BY <1>1, <1>2, <1>5 DEF TypeOK, updateIndices
<1> QED
  BY <1>3, <1>4, <1>5, <1>6 DEF registerItem, TypeOK, history

-----------------------------------------------------------------------------
(* The lock.  Whoever is inside is alone, and nobody is when mutex_ is free. *)
LEMMA Alone ==
  ASSUME LockInv, NEW t \in Threads, call[t] # Idle \/ mutex_ = NoThread
  PROVE  /\ \A s \in Threads \ {t} : call[s] = Idle
         /\ call[t] # Idle => running /\ mutex_ = t
  BY ConstantsOK DEF ConstantsOK, LockInv

(* A step of the thread that is inside, or that enters, moves it to c, a   *)
(* position that is sound for the next state.                              *)
LEMMA CallStep ==
  ASSUME TypeOK, LockInv, NEW t \in Threads, NEW c \in Calls,
         running /\ (call[t] # Idle \/ mutex_ = NoThread),
         running' = running,
         call' = [call EXCEPT ![t] = c],
         IF c = Idle THEN mutex_' = NoThread ELSE mutex_' = t /\ c.pc # "idle",
         Sound(c)'
  PROVE  /\ mutex_' \in Threads \cup {NoThread}
         /\ call' \in [Threads -> Calls]
         /\ LockInv'
         /\ CallsSound'
<1>1. \A s \in Threads \ {t} : call[s] = Idle
  BY Alone
<1>2. call' \in [Threads -> Calls] /\ \A s \in Threads : call'[s] = IF s = t THEN c ELSE Idle
  BY <1>1, IdleType DEF TypeOK
<1>3. LockInv'
  BY <1>2, ConstantsOK DEF LockInv, ConstantsOK
<1>4. \A s \in Threads : Sound(call[s])'
  <2> TAKE s \in Threads
  <2>1. CASE s = t
    BY <1>2, <2>1 DEF Sound
  <2>2. CASE s # t
    BY <1>2, <2>2 DEF Sound, Idle, Purchasing
  <2> QED
    BY <2>1, <2>2
<1> QED
  BY <1>2, <1>3, <1>4 DEF CallsSound

(* Leaving is always sound.                                                *)
LEMMA ReturnStep ==
  ASSUME TypeOK, LockInv, NEW t \in Threads, call[t] # Idle, running' = running, Return(t)
  PROVE  /\ mutex_' \in Threads \cup {NoThread}
         /\ call' \in [Threads -> Calls]
         /\ LockInv'
         /\ CallsSound'
<1>1. Sound(Idle)'
  BY DEF Sound, Idle, Purchasing
<1> QED
  BY <1>1, Alone, CallStep, IdleType DEF Return

(* Going on to pc changes nothing else of a thread's position.             *)
LEMMA GotoStep ==
  ASSUME TypeOK, LockInv, NEW t \in Threads, call[t] # Idle, running' = running,
         NEW pc \in PC \ {"idle"}, Goto(t, pc),
         \A c \in Calls : c = [call[t] EXCEPT !.pc = pc] => Sound(c)'
  PROVE  /\ mutex_' \in Threads \cup {NoThread}
         /\ call' \in [Threads -> Calls]
         /\ LockInv'
         /\ CallsSound'
<1>1. call[t] \in Calls
  BY DEF TypeOK
<1>2. PICK c \in Calls : c = [call[t] EXCEPT !.pc = pc]
  BY <1>1 DEF Calls
<1>3. c.pc = pc /\ c # Idle
  BY <1>1, <1>2 DEF Calls, Idle
<1>4. call' = [call EXCEPT ![t] = c] /\ mutex_' = t
  BY <1>2, Alone DEF Goto
<1> QED
  BY <1>2, <1>3, <1>4, Alone, CallStep

(* The amounts handed to updateUserBalance are int32_t.                    *)
LEMMA PriceType ==
  ASSUME TypeOK, NEW id \in Ids
  PROVE  /\ auction_items_[id].price \in 0 .. 2 * MaxInt32 + 1
         /\ AsInt32(auction_items_[id].price) \in -MaxInt32 - 1 .. MaxInt32
<1>1. auction_items_[id] \in Items \cup {NoListing}
  BY DEF TypeOK
<1>2. auction_items_[id].price \in 0 .. 2 * MaxInt32 + 1
  BY <1>1, ConstantsOK DEF ConstantsOK, Items, AuctionItem, NoListing
<1> QED
  BY <1>2, ConversionRange

LEMMA DocumentType ==
  ASSUME TypeOK, NEW i \in DOMAIN auctions
  PROVE  /\ auctions[i] \in Documents
         /\ auctions[i].id \in Ids
         /\ auctions[i].status \in Status
<1>1. auctions[i] \in Documents
  BY DEF TypeOK
<1> QED
  BY <1>1 DEF Documents, AuctionItem

(* A step that leaves the listings, the indices and the collection alone   *)
(* keeps what relates them.                                                *)
LEMMA ListingsUntouched ==
  ASSUME ProcessInv,
         UNCHANGED <<auction_items_, indexed, auctions>>,
         \A id \in Ids : credited'[id] >= credited[id] /\ charged'[id] >= charged[id],
         credited' \in [Ids -> Nat], charged' \in [Ids -> Nat]
  PROVE  FiledById' /\ IndicesLeadToListings' /\ SoldIsPaid' /\ SoldPriceInRange'
<1>1. FiledById' /\ IndicesLeadToListings'
  BY DEF ProcessInv, FiledById, IndicesLeadToListings
<1>2. \A i \in DOMAIN auctions : auctions[i].id \in Ids
  BY DocumentType DEF ProcessInv
<1>3. SoldIsPaid'
  BY <1>2 DEF ProcessInv, TypeOK, SoldIsPaid, SoldDocument
<1>4. SoldPriceInRange'
  BY DEF ProcessInv, SoldPriceInRange, SoldDocument
<1> QED
  BY <1>1, <1>3, <1>4

-----------------------------------------------------------------------------
(* ProcessInv, action by action.                                           *)
LEMMA ProcessInit == Init => ProcessInv
<1> SUFFICES ASSUME Init PROVE ProcessInv
  OBVIOUS
<1>1. LockInv
  BY DEF Init, LockInv, Idle
<1>2. FiledById /\ IndicesLeadToListings
  BY DEF Init, FiledById, IndicesLeadToListings, NoListing
<1>3. CallsSound
  BY DEF Init, CallsSound, Sound, Idle, Purchasing
<1>4. SoldIsPaid /\ SoldPriceInRange
  BY DEF Init, SoldIsPaid, SoldPriceInRange, SoldDocument
<1> QED
  BY <1>1, <1>2, <1>3, <1>4, TypeInit DEF ProcessInv

LEMMA ProcessBeginPurchase ==
  ASSUME ProcessInv, NEW t \in Threads, NEW id \in Ids, NEW u \in Users, BeginPurchase(t, id, u)
  PROVE  ProcessInv'
<1>1. PICK c \in Calls : c = [Idle EXCEPT !.pc = "check", !.id = id, !.user = u]
  <2>1. "check" \in PC /\ id \in 0 .. MaxId
    BY ConstantsOK DEF ConstantsOK, PC, Ids
  <2> QED
    BY <2>1, IdleType DEF Calls
<1>2. c.pc = "check" /\ c.id = id /\ c.user = u /\ c # Idle
  BY <1>1 DEF Idle
<1>3. UNCHANGED <<running, auction_items_, next_auction_id_, indexed, auctions, balance, now,
                  sales, credited, charged, faults, crashes>>
  BY DEF BeginPurchase, memory, history
<1>4. Sound(c)'
  BY <1>2, <1>3 DEF BeginPurchase, Sound, Purchasing
<1>5. /\ mutex_' \in Threads \cup {NoThread} /\ call' \in [Threads -> Calls]
      /\ LockInv' /\ CallsSound'
  BY <1>1, <1>2, <1>3, <1>4, CallStep DEF BeginPurchase, Enter, Free, ProcessInv
<1>6. TypeOK'
  BY <1>3, <1>5 DEF ProcessInv, TypeOK
<1>7. FiledById' /\ IndicesLeadToListings' /\ SoldIsPaid' /\ SoldPriceInRange'
  BY <1>3, ListingsUntouched DEF ProcessInv, TypeOK
<1> QED
  BY <1>5, <1>6, <1>7 DEF ProcessInv

LEMMA ProcessCheckBuyer ==
  ASSUME ProcessInv, NEW t \in Threads, CheckBuyer(t)
  PROVE  ProcessInv'
<1>1. UNCHANGED <<running, auction_items_, next_auction_id_, indexed, auctions, balance, now,
                  sales, credited, charged, crashes>>
  BY DEF CheckBuyer, memory, history
<1>2. call[t] # Idle /\ call[t].id \in Ids /\ call[t].user \in Users
      /\ auction_items_[call[t].id].status = "ACTIVE"
  BY DEF CheckBuyer, Idle, ProcessInv, CallsSound, Sound, Purchasing
<1>3. faults' \in 0 .. MaxFaults
  <2>1. UNCHANGED faults \/ Fail("read")
    BY DEF CheckBuyer
  <2> QED
    BY <2>1, ConstantsOK DEF Fail, ProcessInv, TypeOK, ConstantsOK
<1>4. /\ mutex_' \in Threads \cup {NoThread} /\ call' \in [Threads -> Calls]
      /\ LockInv' /\ CallsSound'
  <2>1. CASE Return(t)
    BY <1>1, <1>2, <2>1, ReturnStep DEF ProcessInv
  <2>2. CASE Goto(t, "credit") /\ CanPay(call[t].user, auction_items_[call[t].id].price)
    <3>1. auction_items_[call[t].id].price <= MaxInt32
      <4>1. balance[call[t].user] \in 0 .. MaxInt32
        BY <2>2 DEF CanPay, ProcessInv, TypeOK
      <4>2. AsUint32(balance[call[t].user]) <= MaxInt32
        BY <4>1, ConversionRange, ConstantsOK DEF ConstantsOK
      <4> QED
        BY <1>2, <2>2, <4>1, <4>2, PriceType, ConversionRange, ConstantsOK
           DEF CanPay, ProcessInv, ConstantsOK
    <3>2. ASSUME NEW c \in Calls, c = [call[t] EXCEPT !.pc = "credit"]
          PROVE  Sound(c)'
      <4>1. call[t] \in Calls
        BY DEF ProcessInv, TypeOK
      <4>2. c.pc = "credit" /\ c.id = call[t].id /\ c.user = call[t].user
        BY <3>2, <4>1 DEF Calls
      <4> QED
        BY <1>1, <1>2, <3>1, <4>2 DEF Sound, Purchasing
    <3> QED
      BY <1>1, <1>2, <2>2, <3>2, GotoStep DEF ProcessInv, PC
  <2> QED
    BY <2>1, <2>2 DEF CheckBuyer
<1>5. TypeOK'
  BY <1>1, <1>3, <1>4 DEF ProcessInv, TypeOK
<1>6. FiledById' /\ IndicesLeadToListings' /\ SoldIsPaid' /\ SoldPriceInRange'
  BY <1>1, ListingsUntouched DEF ProcessInv, TypeOK
<1> QED
  BY <1>4, <1>5, <1>6 DEF ProcessInv

LEMMA ProcessCreditSeller ==
  ASSUME ProcessInv, NEW t \in Threads, CreditSeller(t)
  PROVE  ProcessInv'
<1> DEFINE id     == call[t].id
           item   == auction_items_[id]
           amount == AsInt32(item.price)
<1>1. UNCHANGED <<running, auction_items_, next_auction_id_, indexed, auctions, now,
                  sales, charged, crashes>>
  BY DEF CreditSeller, memory, history
<1>2. /\ call[t] # Idle /\ id \in Ids /\ call[t].user \in Users
      /\ item.status = "ACTIVE" /\ item.price <= MaxInt32
  BY DEF CreditSeller, Idle, ProcessInv, CallsSound, Sound, Purchasing
<1>3. item.price \in 0 .. MaxInt32 /\ amount = item.price
  BY <1>2, PriceType, ConversionRange, ConstantsOK DEF ConstantsOK, ProcessInv
<1>4. PICK o \in {"ok", "lost", "unacked"} :
        /\ updateUserBalance(item.seller, amount, o)
        /\ IF BalanceUpdated(item.seller, amount, o) THEN Goto(t, "debit") ELSE Return(t)
        /\ credited' = IF balance' = balance THEN credited
                       ELSE [credited EXCEPT ![id] = @ + 1]
  BY DEF CreditSeller
<1>5. balance' \in [Accounts -> 0 .. MaxInt32] /\ faults' \in 0 .. MaxFaults
  BY <1>3, <1>4, UpdateBalanceType, ConstantsOK DEF ConstantsOK, ProcessInv
<1>6. credited' \in [Ids -> Nat] /\ \A x \in Ids : credited'[x] >= credited[x]
  <2>1. credited \in [Ids -> Nat]
    BY DEF ProcessInv, TypeOK
  <2>2. credited' = credited \/ credited' = [credited EXCEPT ![id] = @ + 1]
    BY <1>4
  <2> QED
    BY <2>1, <2>2
<1>7. /\ mutex_' \in Threads \cup {NoThread} /\ call' \in [Threads -> Calls]
      /\ LockInv' /\ CallsSound'
  <2>1. CASE Return(t)
    BY <1>1, <1>2, <2>1, ReturnStep DEF ProcessInv
  <2>2. CASE BalanceUpdated(item.seller, amount, o) /\ Goto(t, "debit")
    <3>1. item.price # 0 /\ balance' # balance
      <4>1. item.seller \in Accounts /\ balance[item.seller] \in 0 .. MaxInt32
        BY <2>2 DEF BalanceUpdated, BalanceAllowed, ProcessInv, TypeOK
      <4>2. NewBalance(item.seller, amount) # balance[item.seller]
        BY <2>2 DEF BalanceUpdated
      <4>3. balance' = [balance EXCEPT ![item.seller] = NewBalance(item.seller, amount)]
        BY <1>4, <2>2 DEF updateUserBalance, BalanceUpdated
      <4>4. balance' # balance
        BY <4>1, <4>2, <4>3 DEF ProcessInv, TypeOK
      <4> QED
        BY <1>3, <4>1, <4>2, <4>4, ConversionRange, ConstantsOK DEF NewBalance, ConstantsOK
    <3>2. credited'[id] >= 1
      BY <1>2, <1>4, <3>1 DEF ProcessInv, TypeOK
    <3>3. ASSUME NEW c \in Calls, c = [call[t] EXCEPT !.pc = "debit"]
          PROVE  Sound(c)'
      <4>1. call[t] \in Calls
        BY DEF ProcessInv, TypeOK
      <4>2. c.pc = "debit" /\ c.id = id /\ c.user = call[t].user
        BY <3>3, <4>1 DEF Calls
      <4> QED
        BY <1>1, <1>2, <3>1, <3>2, <4>2 DEF Sound, Purchasing
    <3> QED
      BY <1>1, <1>2, <2>2, <3>3, GotoStep DEF ProcessInv, PC
  <2> QED
    BY <1>4, <2>1, <2>2
<1>8. TypeOK'
  BY <1>1, <1>5, <1>6, <1>7 DEF ProcessInv, TypeOK
<1>9. FiledById' /\ IndicesLeadToListings' /\ SoldIsPaid' /\ SoldPriceInRange'
  BY <1>1, <1>6, ListingsUntouched DEF ProcessInv, TypeOK
<1> QED
  BY <1>7, <1>8, <1>9 DEF ProcessInv

LEMMA ProcessDebitBuyer ==
  ASSUME ProcessInv, NEW t \in Threads, DebitBuyer(t)
  PROVE  ProcessInv'
<1> DEFINE id     == call[t].id
           buyer  == call[t].user
           item   == auction_items_[id]
           amount == - AsInt32(item.price)
<1>1. UNCHANGED <<running, auction_items_, next_auction_id_, indexed, auctions, now,
                  sales, credited, crashes>>
  BY DEF DebitBuyer, memory, history
<1>2. /\ call[t] # Idle /\ id \in Ids /\ buyer \in Users
      /\ item.status = "ACTIVE" /\ item.price <= MaxInt32 /\ item.price # 0
      /\ credited[id] >= 1
  BY DEF DebitBuyer, Idle, ProcessInv, CallsSound, Sound, Purchasing
<1>3. item.price \in 0 .. MaxInt32 /\ amount = - item.price
  BY <1>2, PriceType, ConversionRange, ConstantsOK DEF ConstantsOK, ProcessInv
<1>4. PICK o \in {"ok", "lost", "unacked"} :
        /\ updateUserBalance(buyer, amount, o)
        /\ IF BalanceUpdated(buyer, amount, o) THEN Goto(t, "record") ELSE Return(t)
        /\ charged' = IF balance' = balance THEN charged
                      ELSE [charged EXCEPT ![id] = @ + 1]
  BY DEF DebitBuyer
<1>5. balance' \in [Accounts -> 0 .. MaxInt32] /\ faults' \in 0 .. MaxFaults
  BY <1>3, <1>4, UpdateBalanceType, ConstantsOK DEF ConstantsOK, ProcessInv
<1>6. charged' \in [Ids -> Nat] /\ \A x \in Ids : charged'[x] >= charged[x]
  <2>1. charged \in [Ids -> Nat]
    BY DEF ProcessInv, TypeOK
  <2>2. charged' = charged \/ charged' = [charged EXCEPT ![id] = @ + 1]
    BY <1>4
  <2> QED
    BY <2>1, <2>2
<1>7. /\ mutex_' \in Threads \cup {NoThread} /\ call' \in [Threads -> Calls]
      /\ LockInv' /\ CallsSound'
  <2>1. CASE Return(t)
    BY <1>1, <1>2, <2>1, ReturnStep DEF ProcessInv
  <2>2. CASE BalanceUpdated(buyer, amount, o) /\ Goto(t, "record")
    <3>1. balance' # balance
      <4>1. buyer \in Accounts /\ NewBalance(buyer, amount) # balance[buyer]
        BY <2>2 DEF BalanceUpdated, BalanceAllowed
      <4>2. balance' = [balance EXCEPT ![buyer] = NewBalance(buyer, amount)]
        BY <1>4, <2>2 DEF updateUserBalance, BalanceUpdated
      <4> QED
        BY <4>1, <4>2 DEF ProcessInv, TypeOK
    <3>2. charged'[id] >= 1
      BY <1>2, <1>4, <3>1 DEF ProcessInv, TypeOK
    <3>3. ASSUME NEW c \in Calls, c = [call[t] EXCEPT !.pc = "record"]
          PROVE  Sound(c)'
      <4>1. call[t] \in Calls
        BY DEF ProcessInv, TypeOK
      <4>2. c.pc = "record" /\ c.id = id /\ c.user = buyer
        BY <3>3, <4>1 DEF Calls
      <4> QED
        BY <1>1, <1>2, <3>2, <4>2 DEF Sound, Purchasing
    <3> QED
      BY <1>1, <1>2, <2>2, <3>3, GotoStep DEF ProcessInv, PC
  <2> QED
    BY <1>4, <2>1, <2>2
<1>8. TypeOK'
  BY <1>1, <1>5, <1>6, <1>7 DEF ProcessInv, TypeOK
<1>9. FiledById' /\ IndicesLeadToListings' /\ SoldIsPaid' /\ SoldPriceInRange'
  BY <1>1, <1>6, ListingsUntouched DEF ProcessInv, TypeOK
<1> QED
  BY <1>7, <1>8, <1>9 DEF ProcessInv

(* A listing that is on sale in memory ends there, and perhaps in the      *)
(* collection too.  A sale was paid for, in a price that fits.             *)
LEMMA ListingEnds ==
  ASSUME ProcessInv, NEW id \in Ids, NEW item \in Items, NEW o,
         auction_items_[id].status = "ACTIVE",
         item.id = id,
         item.status # "ACTIVE",
         item.status = "SOLD" => /\ credited[id] >= 1
                                 /\ charged[id] >= 1
                                 /\ item.price \in 1 .. MaxInt32,
         auction_items_' = [auction_items_ EXCEPT ![id] = item],
         updateAuctionItem(item, o),
         UNCHANGED <<credited, charged>>
  PROVE  /\ auction_items_' \in [Ids -> Items \cup {NoListing}]
         /\ auctions' \in Seq(Documents)
         /\ faults' \in 0 .. MaxFaults
         /\ FiledById' /\ SoldIsPaid' /\ SoldPriceInRange'
         /\ indexed' = indexed \/ indexed' = indexed \ {id} => IndicesLeadToListings'
<1>1. auction_items_' \in [Ids -> Items \cup {NoListing}]
  BY DEF ProcessInv, TypeOK
<1>2. auctions' \in Seq(Documents) /\ faults' \in 0 .. MaxFaults
  BY UpdateItemType DEF ProcessInv
<1>3. \A x \in Ids : auction_items_'[x] = IF x = id THEN item ELSE auction_items_[x]
  BY DEF ProcessInv, TypeOK
<1>4. FiledById'
  BY <1>3 DEF FiledById, ProcessInv
<1>5. ASSUME indexed' = indexed \/ indexed' = indexed \ {id}
      PROVE  IndicesLeadToListings'
  <2>1. item # NoListing
    BY ConstantsOK DEF NoListing, Items, AuctionItem, Ids, ConstantsOK
  <2> QED
    BY <1>3, <1>5, <2>1 DEF IndicesLeadToListings, ProcessInv, TypeOK
<1>6. \A i \in DOMAIN auctions' : \/ i \in DOMAIN auctions /\ auctions'[i] = auctions[i]
                                  \/ auctions'[i] = itemToBson(item)
  BY DEF updateAuctionItem, ProcessInv, TypeOK
<1>7. SoldIsPaid'
  BY <1>6, ConversionFields DEF SoldIsPaid, SoldDocument, ProcessInv
<1>8. SoldPriceInRange'
  <2>1. item.status = "SOLD" => AsInt32(item.price) \in 1 .. MaxInt32
    BY ConversionRange, ConstantsOK DEF ConstantsOK
  <2> QED
    BY <1>6, <2>1, ConversionFields DEF SoldPriceInRange, SoldDocument, ProcessInv
<1> QED
  BY <1>1, <1>2, <1>4, <1>5, <1>7, <1>8

LEMMA ProcessRecordSale ==
  ASSUME ProcessInv, NEW t \in Threads, RecordSale(t)
  PROVE  ProcessInv'
<1> DEFINE id   == call[t].id
           old  == auction_items_[id]
           item == [old EXCEPT !.status = "SOLD", !.buyer = call[t].user]
<1>1. UNCHANGED <<running, next_auction_id_, indexed, balance, now,
                  sales, credited, charged, crashes>>
  BY DEF RecordSale, history
<1>2. /\ call[t] # Idle /\ id \in Ids /\ call[t].user \in Users
      /\ old.status = "ACTIVE" /\ old.price <= MaxInt32 /\ old.price # 0
      /\ credited[id] >= 1 /\ charged[id] >= 1
  BY DEF RecordSale, Idle, ProcessInv, CallsSound, Sound, Purchasing
<1>3. old \in Items /\ old.id = id /\ old.price \in 1 .. MaxInt32
  <2>1. old \in Items \cup {NoListing} /\ old # NoListing
    BY <1>2 DEF ProcessInv, TypeOK, NoListing
  <2> QED
    BY <1>2, <2>1, PriceType, ConstantsOK DEF ProcessInv, FiledById, ConstantsOK
<1>4. PICK sold \in Items : sold = item
  BY <1>2, <1>3 DEF Items, AuctionItem, Status
<1>5. sold.id = id /\ sold.status = "SOLD" /\ sold.price \in 1 .. MaxInt32
  BY <1>3, <1>4 DEF Items, AuctionItem
<1>6. PICK o \in {"ok", "lost", "unacked", "thrown"} :
        /\ updateAuctionItem(sold, o)
        /\ IF ItemUpdated(sold, o) THEN Goto(t, "finish") ELSE Return(t)
  BY <1>4 DEF RecordSale
<1>7. auction_items_' = [auction_items_ EXCEPT ![id] = sold]
  BY <1>4, <1>5 DEF RecordSale
<1>8. /\ auction_items_' \in [Ids -> Items \cup {NoListing}]
      /\ auctions' \in Seq(Documents)
      /\ faults' \in 0 .. MaxFaults
      /\ FiledById' /\ SoldIsPaid' /\ SoldPriceInRange' /\ IndicesLeadToListings'
  BY <1>1, <1>2, <1>5, <1>6, <1>7, ListingEnds
<1>9. /\ mutex_' \in Threads \cup {NoThread} /\ call' \in [Threads -> Calls]
      /\ LockInv' /\ CallsSound'
  <2>1. CASE Return(t)
    BY <1>1, <1>2, <2>1, ReturnStep DEF ProcessInv
  <2>2. CASE Goto(t, "finish")
    <3>1. auction_items_'[id].status # "ACTIVE"
      BY <1>2, <1>5, <1>7 DEF ProcessInv, TypeOK
    <3>2. ASSUME NEW c \in Calls, c = [call[t] EXCEPT !.pc = "finish"]
          PROVE  Sound(c)'
      <4>1. call[t] \in Calls
        BY DEF ProcessInv, TypeOK
      <4>2. c.pc = "finish" /\ c.id = id /\ c.user = call[t].user
        BY <3>2, <4>1 DEF Calls
      <4> QED
        BY <1>2, <3>1, <4>2 DEF Sound, Purchasing
    <3> QED
      BY <1>1, <1>2, <2>2, <3>2, GotoStep DEF ProcessInv, PC
  <2> QED
    BY <1>6, <2>1, <2>2
<1>10. TypeOK'
  BY <1>1, <1>8, <1>9 DEF ProcessInv, TypeOK
<1> QED
  BY <1>8, <1>9, <1>10 DEF ProcessInv

LEMMA ProcessFinishPurchase ==
  ASSUME ProcessInv, NEW t \in Threads, FinishPurchase(t)
  PROVE  ProcessInv'
<1> DEFINE id == call[t].id
<1>1. UNCHANGED <<running, auction_items_, next_auction_id_, auctions, balance, now,
                  credited, charged, faults, crashes>>
  BY DEF FinishPurchase
<1>2. /\ call[t] # Idle /\ id \in Ids /\ call[t].user \in Users
      /\ auction_items_[id].status # "ACTIVE"
  BY DEF FinishPurchase, Idle, ProcessInv, CallsSound, Sound, Purchasing
<1>3. indexed' = indexed \ {id} /\ Return(t)
  BY DEF FinishPurchase, removeFromIndices
<1>4. sales' \in [Ids -> Seq(Users)]
  <2>1. sales \in [Ids -> Seq(Users)] /\ sales' = [sales EXCEPT ![id] = Append(@, call[t].user)]
    BY DEF FinishPurchase, ProcessInv, TypeOK
  <2>2. Append(sales[id], call[t].user) \in Seq(Users)
    BY <1>2, <2>1
  <2> QED
    BY <2>1, <2>2
<1>5. /\ mutex_' \in Threads \cup {NoThread} /\ call' \in [Threads -> Calls]
      /\ LockInv' /\ CallsSound'
  BY <1>1, <1>2, <1>3, ReturnStep DEF ProcessInv
<1>6. TypeOK'
  BY <1>1, <1>3, <1>4, <1>5 DEF ProcessInv, TypeOK
<1>7. FiledById' /\ IndicesLeadToListings'
  BY <1>1, <1>2, <1>3 DEF ProcessInv, FiledById, IndicesLeadToListings
<1>8. SoldIsPaid' /\ SoldPriceInRange'
  BY <1>1 DEF ProcessInv, SoldIsPaid, SoldPriceInRange, SoldDocument
<1> QED
  BY <1>5, <1>6, <1>7, <1>8 DEF ProcessInv

(* A step outside the lock's critical sections, with nobody inside.        *)
LEMMA NobodyInside ==
  ASSUME LockInv, mutex_ = NoThread, UNCHANGED <<running, mutex_, call>>
  PROVE  LockInv' /\ CallsSound'
<1>1. \A t \in Threads : call'[t] = Idle
  BY ConstantsOK DEF ConstantsOK, LockInv
<1>2. LockInv'
  BY DEF LockInv
<1> QED
  BY <1>1, <1>2 DEF CallsSound, Sound, Idle, Purchasing

LEMMA ProcessRegister ==
  ASSUME ProcessInv, NEW t \in Threads, NEW u \in Users, NEW p \in Prices, registerItem(t, u, p)
  PROVE  ProcessInv'
<1> DEFINE id   == next_auction_id_
           item == [id |-> id, seller |-> u, buyer |-> NoUser, price |-> p,
                    status |-> "ACTIVE", expires |-> now + ListingPeriod]
<1>1. TypeOK'
  BY TypeRegister DEF ProcessInv
<1>2. UNCHANGED <<running, mutex_, call, balance, now, sales, credited, charged, crashes>>
      /\ mutex_ = NoThread /\ id \in Ids
  BY DEF registerItem, history, Free
<1>3. LockInv' /\ CallsSound'
  BY <1>2, NobodyInside DEF ProcessInv
<1>4. PICK o \in {"ok", "lost", "unacked"} :
        /\ saveAuctionItem(item, o)
        /\ auction_items_' = IF o = "ok" THEN [auction_items_ EXCEPT ![id] = item]
                                         ELSE auction_items_
        /\ IF o = "ok" THEN updateIndices(id) ELSE UNCHANGED indexed
  BY DEF registerItem
<1>5. FiledById' /\ IndicesLeadToListings'
  <2>1. CASE o = "ok"
    <3>1. \A x \in Ids : auction_items_'[x] = IF x = id THEN item ELSE auction_items_[x]
      BY <1>4, <2>1 DEF ProcessInv, TypeOK
    <3>2. item # NoListing /\ item.id = id
      BY DEF NoListing
    <3>3. FiledById'
      BY <3>1, <3>2 DEF ProcessInv, FiledById
    <3>4. indexed' = indexed \cup {id} /\ indexed \subseteq Ids
      BY <1>4, <2>1 DEF updateIndices, ProcessInv, TypeOK
    <3>5. IndicesLeadToListings'
      BY <1>2, <3>1, <3>2, <3>4 DEF ProcessInv, IndicesLeadToListings
    <3> QED
      BY <3>3, <3>5
  <2>2. CASE o # "ok"
    BY <1>4, <2>2 DEF ProcessInv, FiledById, IndicesLeadToListings
  <2> QED
    BY <2>1, <2>2
<1>6. SoldIsPaid' /\ SoldPriceInRange'
  <2>1. item \in Items /\ item.status = "ACTIVE"
    BY <1>2, ConstantsOK DEF ConstantsOK, ProcessInv, TypeOK, Items, AuctionItem, Status
  <2>2. itemToBson(item) \in Documents /\ itemToBson(item).status = "ACTIVE"
    BY <2>1, ItemTypes, ConversionFields
  <2>3. auctions' = auctions \/ auctions' = Append(auctions, itemToBson(item))
    BY <1>4 DEF saveAuctionItem
  <2>4. \A i \in DOMAIN auctions' : \/ i \in DOMAIN auctions /\ auctions'[i] = auctions[i]
                                    \/ auctions'[i].status = "ACTIVE"
    <3>1. auctions \in Seq(Documents)
      BY DEF ProcessInv, TypeOK
    <3> QED
      BY <2>2, <2>3, <3>1
  <2> QED
    BY <1>2, <2>4 DEF SoldIsPaid, SoldPriceInRange, SoldDocument, ProcessInv
<1> QED
  BY <1>1, <1>3, <1>5, <1>6 DEF ProcessInv

LEMMA ProcessCancel ==
  ASSUME ProcessInv, NEW t \in Threads, NEW id \in Ids, NEW u \in Users, cancelListing(t, id, u)
  PROVE  ProcessInv'
<1> DEFINE old  == auction_items_[id]
           item == [old EXCEPT !.status = "CANCELLED"]
<1>1. UNCHANGED <<running, mutex_, call, next_auction_id_, balance, now, sales, credited,
                  charged, crashes>>
      /\ mutex_ = NoThread /\ old.status = "ACTIVE"
  BY DEF cancelListing, history, Free
<1>2. LockInv' /\ CallsSound'
  BY <1>1, NobodyInside DEF ProcessInv
<1>3. old \in Items /\ old.id = id
  BY <1>1, ConstantsOK DEF ProcessInv, TypeOK, FiledById, NoListing, ConstantsOK
<1>4. PICK ended \in Items : ended = item
  BY <1>3 DEF Items, AuctionItem, Status
<1>5. ended.id = id /\ ended.status = "CANCELLED"
  BY <1>3, <1>4 DEF Items, AuctionItem
<1>6. PICK o \in {"ok", "lost", "unacked", "thrown"} :
        /\ updateAuctionItem(ended, o)
        /\ removeFromIndices(IF ItemUpdated(ended, o) THEN {id} ELSE {})
  BY <1>4 DEF cancelListing
<1>7. auction_items_' = [auction_items_ EXCEPT ![id] = ended]
  BY <1>4 DEF cancelListing
<1>8. indexed' = indexed \/ indexed' = indexed \ {id}
  BY <1>6 DEF removeFromIndices
<1>9. /\ auction_items_' \in [Ids -> Items \cup {NoListing}]
      /\ auctions' \in Seq(Documents)
      /\ faults' \in 0 .. MaxFaults
      /\ FiledById' /\ SoldIsPaid' /\ SoldPriceInRange' /\ IndicesLeadToListings'
  BY <1>1, <1>5, <1>6, <1>7, <1>8, ListingEnds
<1>10. TypeOK'
  BY <1>1, <1>8, <1>9 DEF ProcessInv, TypeOK
<1> QED
  BY <1>2, <1>9, <1>10 DEF ProcessInv

LEMMA ProcessBeginExpiry ==
  ASSUME ProcessInv, NEW t \in Threads, BeginExpiry(t)
  PROVE  ProcessInv'
<1> DEFINE due == {id \in Ids : /\ auction_items_[id].status = "ACTIVE"
                                /\ auction_items_[id].expires < now}
<1>1. PICK c \in Calls : c = [Idle EXCEPT !.pc = "expire", !.todo = due]
  <2>1. "expire" \in PC /\ due \in SUBSET Ids
    BY DEF PC
  <2> QED
    BY <2>1, IdleType DEF Calls
<1>2. c.pc = "expire" /\ c.todo = due /\ c.done = {} /\ c # Idle
  BY <1>1 DEF Idle
<1>3. UNCHANGED <<running, auction_items_, next_auction_id_, indexed, auctions, balance, now,
                  sales, credited, charged, faults, crashes>>
  BY DEF BeginExpiry, memory, history
<1>4. Sound(c)'
  BY <1>2, <1>3 DEF Sound, Purchasing
<1>5. /\ mutex_' \in Threads \cup {NoThread} /\ call' \in [Threads -> Calls]
      /\ LockInv' /\ CallsSound'
  BY <1>1, <1>2, <1>3, <1>4, CallStep DEF BeginExpiry, Enter, Free, ProcessInv
<1>6. TypeOK'
  BY <1>3, <1>5 DEF ProcessInv, TypeOK
<1>7. FiledById' /\ IndicesLeadToListings' /\ SoldIsPaid' /\ SoldPriceInRange'
  BY <1>3, ListingsUntouched DEF ProcessInv, TypeOK
<1> QED
  BY <1>5, <1>6, <1>7 DEF ProcessInv

LEMMA ProcessExpireOne ==
  ASSUME ProcessInv, NEW t \in Threads, NEW id \in Ids, ExpireOne(t, id)
  PROVE  ProcessInv'
<1> DEFINE old  == auction_items_[id]
           item == [old EXCEPT !.status = "EXPIRED"]
<1>1. UNCHANGED <<running, next_auction_id_, indexed, balance, now, sales, credited,
                  charged, crashes>>
  BY DEF ExpireOne, history
<1>2. /\ call[t] # Idle /\ call[t] \in Calls /\ call[t].pc = "expire"
      /\ \A x \in call[t].todo : auction_items_[x].status = "ACTIVE"
      /\ \A x \in call[t].done : auction_items_[x].status # "ACTIVE"
      /\ old.status = "ACTIVE"
  BY DEF ExpireOne, Idle, ProcessInv, TypeOK, CallsSound, Sound
<1>3. old \in Items /\ old.id = id
  BY <1>2, ConstantsOK DEF ProcessInv, TypeOK, FiledById, NoListing, ConstantsOK
<1>4. PICK ended \in Items : ended = item
  BY <1>3 DEF Items, AuctionItem, Status
<1>5. ended.id = id /\ ended.status = "EXPIRED"
  BY <1>3, <1>4 DEF Items, AuctionItem
<1>6. PICK o \in {"ok", "lost", "unacked", "thrown"} :
        /\ updateAuctionItem(ended, o)
        /\ IF o = "thrown" THEN Return(t)
           ELSE /\ UNCHANGED mutex_
                /\ call' = [call EXCEPT ![t].todo = @ \ {id},
                              ![t].done = IF ItemUpdated(ended, o) THEN @ \cup {id} ELSE @]
  BY <1>4 DEF ExpireOne
<1>7. auction_items_' = [auction_items_ EXCEPT ![id] = ended]
  BY <1>4 DEF ExpireOne
<1>8. /\ auction_items_' \in [Ids -> Items \cup {NoListing}]
      /\ auctions' \in Seq(Documents)
      /\ faults' \in 0 .. MaxFaults
      /\ FiledById' /\ SoldIsPaid' /\ SoldPriceInRange' /\ IndicesLeadToListings'
  BY <1>1, <1>2, <1>5, <1>6, <1>7, ListingEnds
<1>9. /\ mutex_' \in Threads \cup {NoThread} /\ call' \in [Threads -> Calls]
      /\ LockInv' /\ CallsSound'
  <2>1. CASE Return(t)
    BY <1>1, <1>2, <2>1, ReturnStep DEF ProcessInv
  <2>2. CASE /\ UNCHANGED mutex_
             /\ call' = [call EXCEPT ![t].todo = @ \ {id},
                           ![t].done = IF ItemUpdated(ended, o) THEN @ \cup {id} ELSE @]
    <3> DEFINE done == IF ItemUpdated(ended, o) THEN call[t].done \cup {id} ELSE call[t].done
    <3>1. PICK c \in Calls : c = [call[t] EXCEPT !.todo = @ \ {id}, !.done = done]
      BY <1>2 DEF Calls
    <3>2. c.pc = "expire" /\ c.todo = call[t].todo \ {id} /\ c.done \subseteq call[t].done \cup {id}
      BY <1>2, <3>1 DEF Calls
    <3>3. call' = [call EXCEPT ![t] = c] /\ c # Idle
      BY <2>2, <3>1, <3>2 DEF Idle, ProcessInv, TypeOK
    <3>4. \A x \in Ids : auction_items_'[x] = IF x = id THEN ended ELSE auction_items_[x]
      BY <1>7 DEF ProcessInv, TypeOK
    <3>5. call[t].todo \subseteq Ids /\ call[t].done \subseteq Ids
      BY <1>2 DEF Calls
    <3>6. Sound(c)'
      BY <1>2, <1>5, <3>2, <3>4, <3>5 DEF Sound, Purchasing
    <3> QED
      BY <1>1, <1>2, <2>2, <3>2, <3>3, <3>6, Alone, CallStep DEF ProcessInv
  <2> QED
    BY <1>6, <2>1, <2>2
<1>10. TypeOK'
  BY <1>1, <1>8, <1>9 DEF ProcessInv, TypeOK
<1> QED
  BY <1>8, <1>9, <1>10 DEF ProcessInv

LEMMA ProcessFinishExpiry ==
  ASSUME ProcessInv, NEW t \in Threads, FinishExpiry(t)
  PROVE  ProcessInv'
<1>1. UNCHANGED <<running, auction_items_, next_auction_id_, auctions, balance, now,
                  sales, credited, charged, faults, crashes>>
  BY DEF FinishExpiry, history
<1>2. call[t] # Idle /\ \A id \in call[t].done : auction_items_[id].status # "ACTIVE"
  BY DEF FinishExpiry, Idle, ProcessInv, CallsSound, Sound
<1>3. indexed' = indexed \ call[t].done /\ Return(t)
  BY DEF FinishExpiry, removeFromIndices
<1>4. /\ mutex_' \in Threads \cup {NoThread} /\ call' \in [Threads -> Calls]
      /\ LockInv' /\ CallsSound'
  BY <1>1, <1>2, <1>3, ReturnStep DEF ProcessInv
<1>5. TypeOK'
  BY <1>1, <1>3, <1>4 DEF ProcessInv, TypeOK
<1>6. FiledById' /\ IndicesLeadToListings'
  BY <1>1, <1>2, <1>3 DEF ProcessInv, FiledById, IndicesLeadToListings
<1>7. SoldIsPaid' /\ SoldPriceInRange'
  BY <1>1 DEF ProcessInv, SoldIsPaid, SoldPriceInRange, SoldDocument
<1> QED
  BY <1>4, <1>5, <1>6, <1>7 DEF ProcessInv

LEMMA ProcessTick == ProcessInv /\ Tick => ProcessInv'
<1> SUFFICES ASSUME ProcessInv, Tick PROVE ProcessInv'
  OBVIOUS
<1>1. UNCHANGED <<running, mutex_, call, auction_items_, next_auction_id_, indexed, auctions,
                  balance, sales, credited, charged, faults, crashes>>
      /\ now' \in 0 .. MaxTime
  BY ConstantsOK DEF Tick, memory, history, ProcessInv, TypeOK, ConstantsOK
<1>2. TypeOK'
  BY <1>1 DEF ProcessInv, TypeOK
<1>3. LockInv' /\ CallsSound'
  BY <1>1 DEF ProcessInv, LockInv, CallsSound, Sound
<1>4. FiledById' /\ IndicesLeadToListings' /\ SoldIsPaid' /\ SoldPriceInRange'
  BY <1>1, ListingsUntouched DEF ProcessInv, TypeOK
<1> QED
  BY <1>2, <1>3, <1>4 DEF ProcessInv

LEMMA ProcessCrash == ProcessInv /\ Crash => ProcessInv'
<1> SUFFICES ASSUME ProcessInv, Crash PROVE ProcessInv'
  OBVIOUS
<1>1. /\ UNCHANGED <<auctions, balance, now, sales, credited, charged, faults>>
      /\ running' = FALSE /\ mutex_' = NoThread
      /\ call' = [t \in Threads |-> Idle]
      /\ auction_items_' = [id \in Ids |-> NoListing]
      /\ next_auction_id_' = 1 /\ indexed' = {}
      /\ crashes' \in 0 .. MaxCrashes
  BY ConstantsOK DEF Crash, history, ProcessInv, TypeOK, ConstantsOK
<1>2. TypeOK'
  <2>1. call' \in [Threads -> Calls] /\ auction_items_' \in [Ids -> Items \cup {NoListing}]
    BY <1>1, IdleType
  <2>2. next_auction_id_' \in 1 .. MaxId + 1
    BY <1>1, ConstantsOK DEF ConstantsOK
  <2> QED
    BY <1>1, <2>1, <2>2 DEF ProcessInv, TypeOK
<1>3. LockInv' /\ CallsSound'
  BY <1>1 DEF LockInv, CallsSound, Sound, Idle, Purchasing
<1>4. FiledById' /\ IndicesLeadToListings'
  BY <1>1 DEF FiledById, IndicesLeadToListings, NoListing
<1>5. SoldIsPaid' /\ SoldPriceInRange'
  BY <1>1 DEF ProcessInv, SoldIsPaid, SoldPriceInRange, SoldDocument
<1> QED
  BY <1>2, <1>3, <1>4, <1>5 DEF ProcessInv

(* The constructor, when it read the first k documents.                    *)
LEMMA ProcessConstruct == ProcessInv /\ Construct => ProcessInv'
<1> SUFFICES ASSUME ProcessInv, Construct PROVE ProcessInv'
  OBVIOUS
<1>1. PICK k \in 0 .. Len(auctions) :
        LET last(id) == {i \in 1 .. k : /\ auctions[i].id = id
                                        /\ \A j \in i + 1 .. k : auctions[j].id # id}
        IN  /\ auction_items_' =
                 [id \in Ids |-> IF last(id) = {} THEN NoListing
                                 ELSE bsonToItem(auctions[CHOOSE i \in last(id) : TRUE])]
            /\ indexed' = {id \in Ids : \E i \in 1 .. k : /\ auctions[i].id = id
                                                          /\ auctions[i].status = "ACTIVE"}
  BY DEF Construct
<1> DEFINE last(id)   == {i \in 1 .. k : /\ auctions[i].id = id
                                         /\ \A j \in i + 1 .. k : auctions[j].id # id}
           chosen(id) == CHOOSE i \in last(id) : TRUE
<1>2. TypeOK'
  BY TypeConstruct DEF ProcessInv
<1>3. /\ UNCHANGED <<mutex_, call, auctions, balance, now, sales, credited, charged, crashes>>
      /\ ~running /\ running'
  BY DEF Construct, history
<1>4. LockInv' /\ CallsSound'
  <2>1. mutex_ = NoThread
    BY <1>3 DEF ProcessInv, LockInv
  <2>2. \A t \in Threads : call'[t] = Idle
    BY <1>3, <2>1, ConstantsOK DEF ConstantsOK, ProcessInv, LockInv
  <2>3. LockInv'
    BY <1>3 DEF ProcessInv, LockInv
  <2> QED
    BY <2>2, <2>3 DEF CallsSound, Sound, Idle, Purchasing
<1>5. ASSUME NEW id \in Ids, last(id) # {}
      PROVE  /\ chosen(id) \in 1 .. k
             /\ auctions[chosen(id)].id = id
             /\ \A j \in chosen(id) + 1 .. k : auctions[j].id # id
             /\ auction_items_'[id] = bsonToItem(auctions[chosen(id)])
             /\ auction_items_'[id].id = id
             /\ auction_items_'[id].status = auctions[chosen(id)].status
             /\ auction_items_'[id] # NoListing
  <2>1. chosen(id) \in last(id)
    BY <1>5
  <2>2. chosen(id) \in DOMAIN auctions
    BY <2>1 DEF ProcessInv, TypeOK
  <2>3. auctions[chosen(id)] \in Documents
    BY <2>2, DocumentType DEF ProcessInv
  <2>4. auction_items_'[id] = bsonToItem(auctions[chosen(id)])
    BY <1>1, <1>5
  <2>5. auction_items_'[id].id = id /\ auction_items_'[id].status = auctions[chosen(id)].status
    BY <2>1, <2>3, <2>4, ConversionFields
  <2>6. auction_items_'[id] # NoListing
    BY <2>5, ConstantsOK DEF NoListing, Ids, ConstantsOK
  <2> QED
    BY <2>1, <2>4, <2>5, <2>6
<1>6. ASSUME NEW id \in Ids, last(id) = {}
      PROVE  auction_items_'[id] = NoListing
  BY <1>1, <1>6
<1>7. FiledById'
  BY <1>5, <1>6 DEF FiledById
<1>8. IndicesLeadToListings'
  <2>1. ASSUME NEW id \in Ids, auction_items_'[id].status = "ACTIVE"
        PROVE  id \in indexed'
    <3>1. last(id) # {}
      BY <1>6, <2>1 DEF NoListing
    <3>2. chosen(id) \in 1 .. k /\ auctions[chosen(id)].id = id
          /\ auctions[chosen(id)].status = "ACTIVE"
      BY <1>5, <2>1, <3>1
    <3>3. indexed' = {x \in Ids : \E i \in 1 .. k : /\ auctions[i].id = x
                                                   /\ auctions[i].status = "ACTIVE"}
      BY <1>1
    <3> HIDE DEF chosen
    <3> QED
      BY <3>2, <3>3
  <2>2. ASSUME NEW id \in indexed'
        PROVE  auction_items_'[id] # NoListing
    <3>1. id \in Ids /\ \E i \in 1 .. k : auctions[i].id = id
      BY <1>1, <2>2
    <3>2. last(id) # {}
      <4> DEFINE here == {i \in 1 .. k : auctions[i].id = id}
      <4>1. here \in SUBSET (0 .. k) /\ here # {} /\ k \in Nat
        <5>1. Len(auctions) \in Nat
          BY DEF ProcessInv, TypeOK
        <5> QED
          BY <3>1, <5>1
      <4>2. PICK i \in here : \A j \in here : j <= i
        BY <4>1, Largest
      <4>3. \A j \in i + 1 .. k : j \notin here
        BY <4>1, <4>2
      <4> QED
        BY <4>1, <4>2, <4>3
    <3> QED
      BY <1>5, <3>1, <3>2
  <2> QED
    BY <2>1, <2>2 DEF IndicesLeadToListings
<1>9. SoldIsPaid' /\ SoldPriceInRange'
  BY <1>3 DEF ProcessInv, SoldIsPaid, SoldPriceInRange, SoldDocument
<1> QED
  BY <1>2, <1>4, <1>7, <1>8, <1>9 DEF ProcessInv

-----------------------------------------------------------------------------
(* Every step keeps ProcessInv.                                            *)
LEMMA ProcessStep == ProcessInv /\ [Next]_vars => ProcessInv'
<1> SUFFICES ASSUME ProcessInv, [Next]_vars PROVE ProcessInv'
  OBVIOUS
<1>1. CASE Construct
  BY <1>1, ProcessConstruct
<1>2. ASSUME NEW t \in Threads, Called(t)
      PROVE  ProcessInv'
  BY <1>2, ProcessRegister, ProcessBeginPurchase, ProcessCancel, ProcessBeginExpiry DEF Called
<1>3. ASSUME NEW t \in Threads, Inside(t)
      PROVE  ProcessInv'
  BY <1>3, ProcessCheckBuyer, ProcessCreditSeller, ProcessDebitBuyer, ProcessRecordSale,
     ProcessFinishPurchase, ProcessExpireOne, ProcessFinishExpiry DEF Inside
<1>4. CASE Tick
  BY <1>4, ProcessTick
<1>5. CASE Crash
  BY <1>5, ProcessCrash
<1>6. CASE UNCHANGED vars
  BY <1>6 DEF vars, memory, history, ProcessInv, TypeOK, LockInv, FiledById, CallsSound, Sound,
     IndicesLeadToListings, SoldIsPaid, SoldPriceInRange, SoldDocument
<1> QED
  BY <1>1, <1>2, <1>3, <1>4, <1>5, <1>6 DEF Next

(* ProcessInv holds in every behaviour, whatever fails.                    *)
THEOREM ProcessInvariant == Spec => []ProcessInv
  BY ProcessInit, ProcessStep, PTL DEF Spec

(* Type correctness: balances stay non-negative int32_t, stored prices     *)
(* int32_t, prices in memory uint32_t, and no id is out of range.          *)
THEOREM TypeCorrect == Spec => []TypeOK
<1>1. ProcessInv => TypeOK
  BY DEF ProcessInv
<1> QED
  BY <1>1, ProcessInvariant, PTL

(* A document says SOLD only if purchaseItem paid the seller and charged   *)
(* the buyer, whatever failed in between.                                  *)
THEOREM NoSaleWithoutPayment == Spec => []SoldIsPaid
<1>1. ProcessInv => SoldIsPaid
  BY DEF ProcessInv
<1> QED
  BY <1>1, ProcessInvariant, PTL

(* Nothing is sold for 0, or for a price that int32_t cannot hold.         *)
THEOREM SoldPrices == Spec => []SoldPriceInRange
<1>1. ProcessInv => SoldPriceInRange
  BY DEF ProcessInv
<1> QED
  BY <1>1, ProcessInvariant, PTL

(* What is on sale is indexed, and an index leads to a listing.            *)
THEOREM IndicesSound == Spec => []IndicesLeadToListings
<1>1. ProcessInv => IndicesLeadToListings
  BY DEF ProcessInv
<1> QED
  BY <1>1, ProcessInvariant, PTL
=============================================================================
