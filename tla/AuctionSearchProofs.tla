------------------------- MODULE AuctionSearchProofs -------------------------
(***************************************************************************)
(* Proofs that searches are right: for any catalogue, searches, number of  *)
(* failures and restarts, what an index gives is what a look at every      *)
(* listing would give, and what the cache answers was asked for and is     *)
(* fresh.                                                                  *)
(***************************************************************************)
EXTENDS AuctionSearch, FiniteSetTheorems, TLAPS

Listings == [offer : Catalog, registered : Nat, status : {"ACTIVE", "ENDED"}]

(* The state that operations of AuctionSearch leave behind.                *)
Typed ==
  /\ now \in Nat /\ faults \in Nat /\ restarts \in Nat
  /\ next_auction_id_ \in 1 .. MaxId + 1
  /\ DOMAIN stored \subseteq Ids
  /\ \A id \in DOMAIN stored : stored[id] \in Listings
  /\ \A id \in DOMAIN auction_items_ : auction_items_[id] \in Listings
  /\ DOMAIN endedAt = DOMAIN auction_items_
  /\ \A id \in DOMAIN endedAt : endedAt[id] \in Nat \cup {Never}

(* Memory and collection: what is on sale in memory is on sale in the      *)
(* collection, where a listing that memory does not know never ends; and   *)
(* without failures they are the same.                                     *)
Agreed ==
  /\ \A id \in DOMAIN auction_items_ :
       /\ stored[id].offer = auction_items_[id].offer
       /\ stored[id].registered = auction_items_[id].registered
       /\ Active(id) => stored[id].status = "ACTIVE" /\ endedAt[id] = Never
  /\ \A id \in DOMAIN stored : id \notin DOMAIN auction_items_ => stored[id].status = "ACTIVE"
  /\ faults = 0 =>
       \A id \in DOMAIN stored :
         id \in DOMAIN auction_items_ /\ stored[id].status = auction_items_[id].status

(* Every listing on sale is filed under its own key: by type and price     *)
(* always, by seller unless the look-up of the seller's name failed, which *)
(* hides one listing a time, and by keyword until the first restart.       *)
Indexed ==
  \A id \in DOMAIN auction_items_ : Active(id) =>
    LET i == auction_items_[id].offer
    IN  /\ id \in Bucket(item_type_index_, i.type)
        /\ id \in Bucket(price_index_, i.price)
        /\ restarts = 0 => \A w \in Words[i.name] : id \in Bucket(keyword_index_, w)

Hidden ==
  {id \in DOMAIN auction_items_ :
     Active(id) /\ id \notin Bucket(seller_index_, auction_items_[id].offer.seller)}
FewHidden == Cardinality(Hidden) <= faults

(* Without failures the keyword index holds nothing else.                  *)
KeywordsExact ==
  faults = 0 =>
    \A w \in DOMAIN keyword_index_ : \A id \in keyword_index_[w] :
      Active(id) /\ w \in Words[auction_items_[id].offer.name]

(* A sequence of listings that match a search, in its order.               *)
Shown(ids, c) ==
  /\ ids \in Seq(DOMAIN auction_items_)
  /\ \A n \in DOMAIN ids : MatchesOffer(auction_items_[ids[n]].offer, c)
  /\ Sorted(ids, c)

(* Such a sequence for some search that reads like these characters.       *)
Asked(ids, chars) == \E c \in Criteria : Characters(c) = chars /\ Shown(ids, c)

(* A listing was on sale at a time.                                        *)
OnSaleAt(id, time) == endedAt[id] = Never \/ time <= endedAt[id]

(* A cached result matches a search that reads like the characters it is   *)
(* filed under, and was on sale when it was filed, TTL before it is        *)
(* dropped.                                                                *)
CacheTrue ==
  \A k \in DOMAIN cache :
    /\ Asked(cache[k].ids, k)
    /\ \A n \in DOMAIN cache[k].ids : OnSaleAt(cache[k].ids[n], cache[k].until - TTL)

(* An answer that is not from the cache matches its own search.            *)
AnswerTrue ==
  answer # NoAnswer =>
    /\ Asked(answer.ids, Characters(answer.to))
    /\ ~answer.cached => answer.to \in Criteria /\ Shown(answer.ids, answer.to)

SearchInv ==
  /\ Typed /\ TypeOK /\ Agreed /\ Indexed /\ FewHidden /\ KeywordsExact
  /\ CacheTrue /\ AnswerTrue

-----------------------------------------------------------------------------
(* A map from keys to sets of ids, of which none is empty.                 *)
IndexOver(ids, index) == \A k \in DOMAIN index : index[k] # {} /\ index[k] \subseteq ids

LEMMA Filed ==
  ASSUME NEW ids, NEW index, IndexOver(ids, index)
  PROVE  \A k : /\ k \in DOMAIN index <=> Bucket(index, k) # {}
                /\ Bucket(index, k) \subseteq ids
                /\ k \in DOMAIN index => Bucket(index, k) = index[k]
  BY DEF IndexOver, Bucket

LEMMA Inserted ==
  ASSUME NEW ids, NEW index, IndexOver(ids, index), NEW keys, NEW id
  PROVE  IndexOver(ids \cup {id}, Insert(index, keys, id))
  BY DEF IndexOver, Bucket, Insert

LEMMA Erased ==
  ASSUME NEW ids, NEW index, IndexOver(ids, index), NEW keys, NEW id
  PROVE  IndexOver(ids, Erase(index, keys, id))
  BY DEF IndexOver, Erase

LEMMA Rebuilt ==
  ASSUME NEW ids, NEW keyOf
  PROVE  /\ IndexOver(ids, Buckets(ids, keyOf))
         /\ \A id \in ids : id \in Bucket(Buckets(ids, keyOf), keyOf[id])
  BY DEF IndexOver, Bucket, Buckets

LEMMA Indices ==
  TypeOK <=>
    /\ DOMAIN auction_items_ \subseteq Ids
    /\ \A id \in DOMAIN auction_items_ : /\ auction_items_[id].offer \in Catalog
                                         /\ auction_items_[id].status \in {"ACTIVE", "ENDED"}
    /\ DOMAIN auction_items_ \subseteq DOMAIN stored
    /\ \A id \in DOMAIN stored : id < next_auction_id_
    /\ IndexOver(DOMAIN auction_items_, item_type_index_)
    /\ IndexOver(DOMAIN auction_items_, seller_index_)
    /\ IndexOver(DOMAIN auction_items_, price_index_)
    /\ IndexOver(DOMAIN auction_items_, keyword_index_)
    /\ \A k \in DOMAIN cache : cache[k].until \in now + 1 .. now + TTL
  BY DEF TypeOK, IndexOver

LEMMA IndicesNext == TypeOK' <=>
    /\ DOMAIN auction_items_' \subseteq Ids
    /\ \A id \in DOMAIN auction_items_' : /\ auction_items_'[id].offer \in Catalog
                                          /\ auction_items_'[id].status \in {"ACTIVE", "ENDED"}
    /\ DOMAIN auction_items_' \subseteq DOMAIN stored'
    /\ \A id \in DOMAIN stored' : id < next_auction_id_'
    /\ IndexOver(DOMAIN auction_items_', item_type_index_')
    /\ IndexOver(DOMAIN auction_items_', seller_index_')
    /\ IndexOver(DOMAIN auction_items_', price_index_')
    /\ IndexOver(DOMAIN auction_items_', keyword_index_')
    /\ \A k \in DOMAIN cache' : cache'[k].until \in now' + 1 .. now' + TTL
  BY DEF TypeOK, IndexOver

-----------------------------------------------------------------------------
(* No step forgets a listing or changes what it offers, and a listing ends *)
(* only now.                                                               *)
Kept ==
  \A id \in DOMAIN auction_items_ :
    /\ id \in DOMAIN auction_items_'
    /\ auction_items_'[id].offer = auction_items_[id].offer
    /\ auction_items_'[id].registered = auction_items_[id].registered
    /\ endedAt'[id] \in {endedAt[id], Never} \/ (endedAt[id] = Never /\ endedAt'[id] = now)

LEMMA KeyKept ==
  ASSUME Kept, NEW id \in DOMAIN auction_items_, NEW by
  PROVE  SortKey(id, by)' = SortKey(id, by)
  BY DEF Kept, SortKey

LEMMA SortedKept ==
  ASSUME Kept, NEW ids \in Seq(DOMAIN auction_items_), NEW c, Sorted(ids, c)
  PROVE  Sorted(ids, c)'
<1> SUFFICES ASSUME NEW m \in DOMAIN ids, NEW n \in DOMAIN ids, m < n
             PROVE  IF Descending(c) THEN SortKey(ids[m], c.by)' >= SortKey(ids[n], c.by)'
                                     ELSE SortKey(ids[m], c.by)' <= SortKey(ids[n], c.by)'
  BY DEF Sorted
<1>1. ids[m] \in DOMAIN auction_items_ /\ ids[n] \in DOMAIN auction_items_
  OBVIOUS
<1>2. /\ SortKey(ids[m], c.by)' = SortKey(ids[m], c.by)
      /\ SortKey(ids[n], c.by)' = SortKey(ids[n], c.by)
  BY <1>1, KeyKept
<1>3. IF Descending(c) THEN SortKey(ids[m], c.by) >= SortKey(ids[n], c.by)
                       ELSE SortKey(ids[m], c.by) <= SortKey(ids[n], c.by)
  BY DEF Sorted
<1> QED
  BY <1>2, <1>3

LEMMA ShownKept ==
  ASSUME Kept, NEW ids, NEW c, Shown(ids, c)
  PROVE  Shown(ids, c)'
<1>1. /\ ids \in Seq(DOMAIN auction_items_)
      /\ \A n \in DOMAIN ids : MatchesOffer(auction_items_[ids[n]].offer, c)
      /\ Sorted(ids, c)
  BY DEF Shown
<1>2. \A n \in DOMAIN ids : /\ ids[n] \in DOMAIN auction_items_
                            /\ ids[n] \in DOMAIN auction_items_'
                            /\ auction_items_'[ids[n]].offer = auction_items_[ids[n]].offer
  BY <1>1 DEF Kept
<1>3. ids \in Seq(DOMAIN auction_items_')
  BY <1>1 DEF Kept
<1>4. \A n \in DOMAIN ids : MatchesOffer(auction_items_'[ids[n]].offer, c)
  BY <1>1, <1>2
<1>5. Sorted(ids, c)'
  BY <1>1, SortedKept
<1> QED
  BY <1>3, <1>4, <1>5 DEF Shown

LEMMA AskedKept ==
  ASSUME Kept, NEW ids, NEW chars, Asked(ids, chars)
  PROVE  Asked(ids, chars)'
<1>1. PICK c \in Criteria : Characters(c) = chars /\ Shown(ids, c)
  BY DEF Asked
<1>2. Shown(ids, c)'
  BY <1>1, ShownKept
<1> QED
  BY <1>1, <1>2 DEF Asked

LEMMA CacheKept ==
  ASSUME Kept, Typed, TypeOK, CacheTrue, TTL \in Nat,
         \A k \in DOMAIN cache' : k \in DOMAIN cache /\ cache'[k] = cache[k]
  PROVE  CacheTrue'
<1> SUFFICES ASSUME NEW k \in DOMAIN cache', NEW ids, NEW until,
                    ids = cache'[k].ids, until = cache'[k].until
             PROVE  Asked(ids, k)' /\ \A n \in DOMAIN ids : OnSaleAt(ids[n], until - TTL)'
  BY DEF CacheTrue, Asked, Shown, OnSaleAt, Sorted, SortKey
<1>1. /\ k \in DOMAIN cache /\ ids = cache[k].ids /\ until = cache[k].until
  OBVIOUS
<1>2. /\ Asked(ids, k)
      /\ \A n \in DOMAIN ids : OnSaleAt(ids[n], until - TTL)
  BY <1>1 DEF CacheTrue
<1>3. until \in Int /\ now \in Nat /\ until - TTL <= now
  BY <1>1 DEF TypeOK, Typed
<1>4. Asked(ids, k)'
  BY <1>2, AskedKept
<1>5. ASSUME NEW n \in DOMAIN ids PROVE OnSaleAt(ids[n], until - TTL)'
  <2>1. ids[n] \in DOMAIN auction_items_
    BY <1>2 DEF Asked, Shown
  <2>2. OnSaleAt(ids[n], until - TTL)
    BY <1>2
  <2> QED
    BY <1>3, <2>1, <2>2 DEF OnSaleAt, Kept
<1> QED
  BY <1>4, <1>5

LEMMA AnswerKept ==
  ASSUME Kept, AnswerTrue, answer' = answer
  PROVE  AnswerTrue'
<1>1. PICK ids, c, chars : ids = answer.ids /\ c = answer.to /\ chars = Characters(answer.to)
  OBVIOUS
<1>2. CASE answer # NoAnswer
  <2>1. Asked(ids, chars)'
    BY <1>1, <1>2, AskedKept DEF AnswerTrue
  <2>2. ~answer.cached => c \in Criteria /\ Shown(ids, c)'
    BY <1>1, <1>2, ShownKept DEF AnswerTrue
  <2>3. chars = Characters(answer'.to)
    BY <1>1
  <2> QED
    BY <1>1, <2>1, <2>2, <2>3 DEF AnswerTrue
<1> QED
  BY <1>2 DEF AnswerTrue, NoAnswer

-----------------------------------------------------------------------------
(* There are finitely many listings, and few of them hidden.               *)
LEMMA ListingsFinite ==
  ASSUME Typed, TypeOK, NEW ids \in SUBSET DOMAIN auction_items_
  PROVE  IsFiniteSet(ids) /\ Cardinality(ids) \in Nat
<1>1. IsFiniteSet(1 .. MaxId)
  BY SearchConstantsOK, FS_Interval
<1>2. ids \subseteq 1 .. MaxId
  BY DEF TypeOK, Ids
<1> QED
  BY <1>1, <1>2, FS_Subset, FS_CardinalityType

LEMMA FewHiddenShrinks ==
  ASSUME Typed, TypeOK, FewHidden, NEW hidden \in SUBSET Hidden
  PROVE  Cardinality(hidden) \in Nat /\ Cardinality(hidden) <= faults
<1>1. Hidden \subseteq DOMAIN auction_items_
  BY DEF Hidden
<1>2. IsFiniteSet(Hidden) /\ Cardinality(Hidden) \in Nat
  BY <1>1, ListingsFinite
<1>3. Cardinality(hidden) \in Nat /\ Cardinality(hidden) <= Cardinality(Hidden)
  BY <1>2, FS_Subset, FS_CardinalityType
<1>4. faults \in Nat
  BY DEF Typed
<1> QED
  BY <1>2, <1>3, <1>4 DEF FewHidden

-----------------------------------------------------------------------------
(* One lemma per operation: it preserves the invariant.                    *)
IndicesKept == UNCHANGED <<auction_items_, indices, endedAt, restarts>>
FaultsGrow  == faults' \in Nat /\ faults <= faults'

LEMMA FilingKept ==
  ASSUME SearchInv, IndicesKept, FaultsGrow
  PROVE  Indexed' /\ FewHidden' /\ KeywordsExact'
<1>1. (faults' = 0 => faults = 0) /\ faults \in Nat /\ faults' \in Nat /\ faults <= faults'
  BY DEF FaultsGrow, SearchInv, Typed
<1>2. Indexed' /\ KeywordsExact'
  BY <1>1 DEF SearchInv, IndicesKept, indices, Indexed, KeywordsExact, Active, Bucket
<1>3. Hidden' = Hidden
  BY DEF IndicesKept, indices, Hidden, Active, Bucket
<1>4. Cardinality(Hidden) \in Nat /\ Cardinality(Hidden) <= faults
  BY FewHiddenShrinks DEF SearchInv
<1> QED
  BY <1>1, <1>2, <1>3, <1>4 DEF FewHidden

LEMMA RegisterKeeps ==
  ASSUME SearchInv, NEW i \in Catalog, registerItem(i)
  PROVE  SearchInv'
<1> USE SearchConstantsOK
<1> DEFINE id   == next_auction_id_
           item == [offer |-> i, registered |-> now, status |-> "ACTIVE"]
<1>1. /\ id \in Ids /\ id \in Nat /\ next_auction_id_' = id + 1
      /\ id \notin DOMAIN stored /\ id \notin DOMAIN auction_items_
      /\ item \in Listings /\ item.offer = i /\ item.status = "ACTIVE"
  BY DEF registerItem, SearchInv, Typed, TypeOK, Ids, Listings
<1>2. next_auction_id_' \in 1 .. MaxId + 1
  BY <1>1 DEF Ids
<1>3. UNCHANGED <<cache, now, answer, restarts>>
  BY DEF registerItem
<1>4. CASE /\ stored' = Put(stored, id, item)
           /\ auction_items_' = Put(auction_items_, id, item)
           /\ endedAt' = Put(endedAt, id, Never)
           /\ \E known \in BOOLEAN : NameSeller(known) /\ updateIndices(id, i, known)
           /\ keyword_index_' = Insert(keyword_index_, Words[i.name], id)
  <2>1. PICK known \in BOOLEAN : NameSeller(known) /\ updateIndices(id, i, known)
    BY <1>4
  <2>2. /\ faults \in Nat /\ faults' \in Nat /\ faults <= faults'
        /\ faults' = 0 => faults = 0 /\ known
    BY <2>1 DEF NameSeller, SearchInv, Typed
  <2> HIDE DEF id, item
  <2>3. /\ DOMAIN auction_items_' = DOMAIN auction_items_ \cup {id}
        /\ auction_items_'[id] = item
        /\ \A x \in DOMAIN auction_items_ : x # id /\ auction_items_'[x] = auction_items_[x]
    BY <1>1, <1>4 DEF Put
  <2>4. /\ DOMAIN stored' = DOMAIN stored \cup {id}
        /\ stored'[id] = item
        /\ \A x \in DOMAIN stored : x # id /\ stored'[x] = stored[x]
    BY <1>1, <1>4 DEF Put
  <2>5. /\ DOMAIN endedAt' = DOMAIN endedAt \cup {id}
        /\ endedAt'[id] = Never
        /\ \A x \in DOMAIN endedAt : x # id /\ endedAt'[x] = endedAt[x]
    BY <1>1, <1>4 DEF Put, SearchInv, Typed
  <2>6. Typed'
    BY <1>1, <1>2, <1>3, <2>2, <2>3, <2>4, <2>5 DEF SearchInv, Typed
  <2>7. /\ IndexOver(DOMAIN auction_items_, item_type_index_)
        /\ IndexOver(DOMAIN auction_items_, seller_index_)
        /\ IndexOver(DOMAIN auction_items_, price_index_)
        /\ IndexOver(DOMAIN auction_items_, keyword_index_)
    BY Indices DEF SearchInv
  <2>8. /\ item_type_index_' = Insert(item_type_index_, {i.type}, id)
        /\ price_index_' = Insert(price_index_, {i.price}, id)
        /\ \/ seller_index_' = seller_index_ /\ ~known
           \/ seller_index_' = Insert(seller_index_, {i.seller}, id)
    BY <2>1 DEF updateIndices
  <2>9. /\ IndexOver(DOMAIN auction_items_', item_type_index_')
        /\ IndexOver(DOMAIN auction_items_', price_index_')
        /\ IndexOver(DOMAIN auction_items_', keyword_index_')
    BY <1>4, <2>3, <2>7, <2>8, Inserted
  <2>10. IndexOver(DOMAIN auction_items_', seller_index_')
    <3>1. CASE seller_index_' = seller_index_
      BY <2>3, <2>7, <3>1 DEF IndexOver
    <3> QED
      BY <2>3, <2>7, <2>8, <3>1, Inserted
  <2>11. TypeOK'
    <3>1. \A x \in DOMAIN stored' : x < next_auction_id_'
      <4>1. \A x \in DOMAIN stored : x < id /\ x \in Int
        BY DEF SearchInv, TypeOK, Typed, Ids, id
      <4> QED
        BY <1>1, <2>4, <4>1
    <3>2. /\ DOMAIN auction_items_' \subseteq Ids
          /\ DOMAIN auction_items_' \subseteq DOMAIN stored'
      BY <1>1, <2>3, <2>4 DEF SearchInv, TypeOK
    <3>3. \A x \in DOMAIN auction_items_' : /\ auction_items_'[x].offer \in Catalog
                                            /\ auction_items_'[x].status \in {"ACTIVE", "ENDED"}
      BY <2>6 DEF Typed, Listings
    <3>4. \A k \in DOMAIN cache' : cache'[k].until \in now' + 1 .. now' + TTL
      BY <1>3 DEF SearchInv, TypeOK
    <3> QED
      BY <2>9, <2>10, <3>1, <3>2, <3>3, <3>4, IndicesNext
  <2>12. Agreed'
    <3>1. ASSUME NEW x \in DOMAIN auction_items_'
          PROVE  /\ stored'[x].offer = auction_items_'[x].offer
                 /\ stored'[x].registered = auction_items_'[x].registered
                 /\ auction_items_'[x].status = "ACTIVE" =>
                      stored'[x].status = "ACTIVE" /\ endedAt'[x] = Never
      BY <1>1, <2>3, <2>4, <2>5 DEF SearchInv, Agreed, Active, TypeOK, Typed
    <3>2. \A x \in DOMAIN stored' : x \notin DOMAIN auction_items_' => stored'[x].status = "ACTIVE"
      BY <1>1, <2>3, <2>4 DEF SearchInv, Agreed
    <3>3. ASSUME faults' = 0, NEW x \in DOMAIN stored'
          PROVE  x \in DOMAIN auction_items_' /\ stored'[x].status = auction_items_'[x].status
      BY <1>1, <2>2, <2>3, <2>4, <3>3 DEF SearchInv, Agreed
    <3> QED
      BY <3>1, <3>2, <3>3 DEF Agreed, Active
  <2>17. /\ \A k, x : x \in Bucket(item_type_index_', k) <=>
                        x \in Bucket(item_type_index_, k) \/ (k = i.type /\ x = id)
         /\ \A k, x : x \in Bucket(price_index_', k) <=>
                        x \in Bucket(price_index_, k) \/ (k = i.price /\ x = id)
         /\ \A k, x : x \in Bucket(keyword_index_', k) <=>
                        x \in Bucket(keyword_index_, k) \/ (k \in Words[i.name] /\ x = id)
    <3>1. \A k, x : x \in Bucket(item_type_index_', k) <=>
                       x \in Bucket(item_type_index_, k) \/ (k = i.type /\ x = id)
      BY <2>8 DEF Bucket, Insert
    <3>2. \A k, x : x \in Bucket(price_index_', k) <=>
                       x \in Bucket(price_index_, k) \/ (k = i.price /\ x = id)
      BY <2>8 DEF Bucket, Insert
    <3>3. \A k, x : x \in Bucket(keyword_index_', k) <=>
                       x \in Bucket(keyword_index_, k) \/ (k \in Words[i.name] /\ x = id)
      BY <1>4 DEF Bucket, Insert
    <3> QED
      BY <3>1, <3>2, <3>3
  <2>18. /\ known => \A k, x : x \in Bucket(seller_index_', k) <=>
                                  x \in Bucket(seller_index_, k) \/ (k = i.seller /\ x = id)
         /\ ~known => seller_index_' = seller_index_
    <3>1. CASE known
      <4>1. seller_index_' = Insert(seller_index_, {i.seller}, id)
        BY <2>1, <3>1 DEF updateIndices
      <4> QED
        BY <3>1, <4>1 DEF Bucket, Insert
    <3>2. CASE ~known
      BY <2>1, <3>2 DEF updateIndices
    <3> QED
      BY <3>1, <3>2
  <2>19. FewHidden'
    <3>1. \A x \in DOMAIN auction_items_ : \A k : x \in Bucket(seller_index_, k) => x \in Bucket(seller_index_', k)
      <4>1. CASE known
        BY <2>18, <4>1
      <4>2. CASE ~known
        BY <2>18, <4>2
      <4> QED
        BY <4>1, <4>2
    <3>2. Hidden' \subseteq Hidden \cup {id}
      BY <2>3, <3>1 DEF Hidden, Active
    <3>3. Cardinality(Hidden) \in Nat /\ Cardinality(Hidden) <= faults
      BY FewHiddenShrinks DEF SearchInv
    <3>4. IsFiniteSet(Hidden)
      <4>1. Hidden \subseteq DOMAIN auction_items_
        BY DEF Hidden
      <4> QED
        BY <4>1, ListingsFinite DEF SearchInv
    <3>5. CASE known
      <4>1. id \in Bucket(seller_index_', i.seller)
        BY <2>18, <3>5
      <4>2. id \notin Hidden'
        BY <1>1, <2>3, <4>1 DEF Hidden
      <4>3. Hidden' \subseteq Hidden
        BY <3>2, <4>2
      <4>4. Cardinality(Hidden') \in Nat /\ Cardinality(Hidden') <= faults
        BY <4>3, FewHiddenShrinks DEF SearchInv
      <4> QED
        BY <2>2, <4>4 DEF FewHidden
    <3>6. CASE ~known
      <4>1. faults' = faults + 1
        BY <2>1, <3>6 DEF NameSeller
      <4>2. /\ IsFiniteSet(Hidden \cup {id})
            /\ Cardinality(Hidden \cup {id}) \in {Cardinality(Hidden), Cardinality(Hidden) + 1}
        BY <3>4, FS_AddElement
      <4>3. Cardinality(Hidden') \in Nat /\ Cardinality(Hidden') <= Cardinality(Hidden \cup {id})
        BY <3>2, <4>2, FS_Subset, FS_CardinalityType
      <4>4. Cardinality(Hidden') <= faults + 1
        BY <2>2, <3>3, <4>2, <4>3
      <4> QED
        BY <4>1, <4>4 DEF FewHidden
    <3> QED
      BY <3>5, <3>6
  <2>13. Indexed'
    <3> SUFFICES ASSUME NEW x \in DOMAIN auction_items_', Active(x)'
                 PROVE  LET o == auction_items_'[x].offer
                        IN  /\ x \in Bucket(item_type_index_', o.type)
                            /\ x \in Bucket(price_index_', o.price)
                            /\ restarts' = 0 => \A w \in Words[o.name] : x \in Bucket(keyword_index_', w)
      BY DEF Indexed, Bucket
    <3>1. CASE x = id
      <4>1. auction_items_'[x].offer = i
        BY <1>1, <2>3, <3>1
      <4>2. x \in Bucket(item_type_index_', i.type) /\ x \in Bucket(price_index_', i.price)
        BY <2>17, <3>1
      <4>4. \A w \in Words[i.name] : x \in Bucket(keyword_index_', w)
        BY <2>17, <3>1
      <4> QED
        BY <4>1, <4>2, <4>4
    <3>2. CASE x # id
      <4>1. x \in DOMAIN auction_items_ /\ auction_items_'[x] = auction_items_[x] /\ Active(x)
        BY <2>3, <3>2 DEF Active
      <4> DEFINE o == auction_items_[x].offer
      <4>2. /\ x \in Bucket(item_type_index_, o.type)
            /\ x \in Bucket(price_index_, o.price)
            /\ restarts = 0 => \A w \in Words[o.name] : x \in Bucket(keyword_index_, w)
        BY <4>1 DEF SearchInv, Indexed
      <4> HIDE DEF o
      <4>3. x \in Bucket(item_type_index_', o.type) /\ x \in Bucket(price_index_', o.price)
        BY <2>17, <4>2
      <4>5. restarts' = 0 => \A w \in Words[o.name] : x \in Bucket(keyword_index_', w)
        BY <1>3, <2>17, <4>2
      <4> QED
        BY <4>1, <4>3, <4>5 DEF o
    <3> QED
      BY <3>1, <3>2
  <2>14. KeywordsExact'
    <3> SUFFICES ASSUME faults' = 0, NEW w \in DOMAIN keyword_index_', NEW x \in keyword_index_'[w]
                 PROVE  Active(x)' /\ w \in Words[auction_items_'[x].offer.name]
      BY DEF KeywordsExact
    <3>1. x \in Bucket(keyword_index_', w)
      BY DEF Bucket
    <3>2. CASE x = id /\ w \in Words[i.name]
      BY <1>1, <2>3, <3>2 DEF Active
    <3>3. CASE x \in Bucket(keyword_index_, w)
      <4>1. w \in DOMAIN keyword_index_ /\ x \in keyword_index_[w] /\ x \in DOMAIN auction_items_
        BY <2>7, <3>3, Filed
      <4>2. Active(x) /\ w \in Words[auction_items_[x].offer.name]
        BY <2>2, <4>1 DEF SearchInv, KeywordsExact
      <4> QED
        BY <2>3, <4>1, <4>2 DEF Active
    <3> QED
      BY <2>17, <3>1, <3>2, <3>3
  <2>15. Kept
    BY <2>3, <2>5 DEF Kept, SearchInv, Typed
  <2>16. CacheTrue' /\ AnswerTrue'
    BY <1>3, <2>15, CacheKept, AnswerKept DEF SearchInv
  <2> QED
    BY <2>6, <2>11, <2>12, <2>13, <2>14, <2>16, <2>19 DEF SearchInv
<1>5. CASE /\ stored' \in {stored, Put(stored, id, item)}
           /\ faults < MaxFaults /\ faults' = faults + 1
           /\ UNCHANGED <<auction_items_, endedAt, indices>>
  <2>1. FaultsGrow /\ faults' # 0
    BY <1>5 DEF FaultsGrow, SearchInv, Typed
  <2>2. Indexed' /\ FewHidden' /\ KeywordsExact'
    BY <1>3, <1>5, <2>1, FilingKept DEF IndicesKept
  <2> HIDE DEF id, item
  <2>3. /\ DOMAIN stored' \in {DOMAIN stored, DOMAIN stored \cup {id}}
        /\ id \in DOMAIN stored' => stored'[id] = item
        /\ \A x \in DOMAIN stored : x # id /\ stored'[x] = stored[x]
    <3>1. CASE stored' = stored
      BY <1>1, <3>1
    <3>2. CASE stored' = Put(stored, id, item)
      BY <1>1, <3>2 DEF Put
    <3> QED
      BY <1>5, <3>1, <3>2
  <2>4. Typed'
    BY <1>1, <1>2, <1>3, <1>5, <2>1, <2>3 DEF SearchInv, Typed, FaultsGrow
  <2>5. TypeOK'
    <3>1. \A x \in DOMAIN stored' : x < next_auction_id_'
      <4>1. \A x \in DOMAIN stored : x < id /\ x \in Int
        BY DEF SearchInv, TypeOK, Typed, Ids, id
      <4> QED
        BY <1>1, <2>3, <4>1
    <3>2. DOMAIN auction_items_' \subseteq DOMAIN stored'
      BY <1>5, <2>3 DEF SearchInv, TypeOK
    <3> QED
      BY <1>3, <1>5, <3>1, <3>2, Indices, IndicesNext DEF SearchInv, indices
  <2>6. Agreed'
    BY <1>1, <1>5, <2>1, <2>3 DEF SearchInv, Agreed, Active, TypeOK
  <2>7. Kept
    BY <1>5 DEF Kept
  <2>8. CacheTrue' /\ AnswerTrue'
    BY <1>3, <2>7, CacheKept, AnswerKept DEF SearchInv
  <2> QED
    BY <2>2, <2>4, <2>5, <2>6, <2>8 DEF SearchInv
<1> QED
  BY <1>4, <1>5 DEF registerItem

LEMMA EndKeeps ==
  ASSUME SearchInv, NEW id \in Ids, EndListing(id)
  PROVE  SearchInv'
<1> USE SearchConstantsOK
<1> DEFINE i == auction_items_[id].offer
<1>1. /\ id \in DOMAIN auction_items_ /\ id \in DOMAIN stored
      /\ auction_items_[id] \in Listings /\ stored[id] \in Listings
      /\ Active(id) /\ endedAt[id] = Never
      /\ stored[id].offer = i /\ stored[id].status = "ACTIVE"
      /\ stored[id].registered = auction_items_[id].registered
  BY DEF EndListing, SearchInv, Typed, TypeOK, Agreed, Active
<1>2. UNCHANGED <<next_auction_id_, cache, now, answer, restarts>>
  BY DEF EndListing
<1>3. /\ DOMAIN auction_items_' = DOMAIN auction_items_
      /\ auction_items_'[id].offer = i /\ auction_items_'[id].status = "ENDED"
      /\ auction_items_'[id] \in Listings
      /\ auction_items_'[id].registered = auction_items_[id].registered
      /\ \A x \in DOMAIN auction_items_ : x # id => auction_items_'[x] = auction_items_[x]
  BY <1>1 DEF EndListing, Listings
<1>4. /\ DOMAIN endedAt' = DOMAIN endedAt /\ endedAt'[id] = now
      /\ \A x \in DOMAIN endedAt : x # id => endedAt'[x] = endedAt[x]
  BY <1>1 DEF EndListing, SearchInv, Typed
<1>5. stored' = stored \/ stored' = [stored EXCEPT ![id].status = "ENDED"]
  BY DEF EndListing
<1>6. /\ DOMAIN stored' = DOMAIN stored
      /\ stored'[id] \in Listings /\ stored'[id].offer = i
      /\ stored'[id].registered = stored[id].registered
      /\ \A x \in DOMAIN stored : x # id => stored'[x] = stored[x]
  BY <1>1, <1>5 DEF Listings
<1>7. faults \in Nat /\ faults' \in Nat /\ faults <= faults'
  BY DEF EndListing, NameSeller, SearchInv, Typed
<1>8. \/ UNCHANGED indices /\ faults' # 0
      \/ /\ stored' = [stored EXCEPT ![id].status = "ENDED"]
         /\ \E known \in BOOLEAN : NameSeller(known) /\ removeFromIndices(id, i, known)
  BY <1>7 DEF EndListing, SearchInv, Typed
<1>9. stored'[id].status = "ENDED" \/ faults' # 0
  BY <1>1, <1>8 DEF Listings
<1> HIDE DEF i
<1>10. Typed'
  BY <1>2, <1>3, <1>4, <1>6, <1>7 DEF SearchInv, Typed
<1>11. /\ IndexOver(DOMAIN auction_items_, item_type_index_)
       /\ IndexOver(DOMAIN auction_items_, seller_index_)
       /\ IndexOver(DOMAIN auction_items_, price_index_)
       /\ IndexOver(DOMAIN auction_items_, keyword_index_)
  BY Indices DEF SearchInv
<1>12. \/ UNCHANGED indices /\ faults' # 0
       \/ /\ item_type_index_' = Erase(item_type_index_, {i.type}, id)
          /\ seller_index_' \in {seller_index_, Erase(seller_index_, {i.seller}, id)}
          /\ price_index_' = Erase(price_index_, {i.price}, id)
          /\ keyword_index_' = Erase(keyword_index_, DOMAIN keyword_index_, id)
  BY <1>8 DEF removeFromIndices
<1>13. /\ IndexOver(DOMAIN auction_items_', item_type_index_')
       /\ IndexOver(DOMAIN auction_items_', seller_index_')
       /\ IndexOver(DOMAIN auction_items_', price_index_')
       /\ IndexOver(DOMAIN auction_items_', keyword_index_')
  <2>1. CASE UNCHANGED indices
    BY <1>3, <1>11, <2>1 DEF indices
  <2>2. CASE /\ item_type_index_' = Erase(item_type_index_, {i.type}, id)
             /\ seller_index_' \in {seller_index_, Erase(seller_index_, {i.seller}, id)}
             /\ price_index_' = Erase(price_index_, {i.price}, id)
             /\ keyword_index_' = Erase(keyword_index_, DOMAIN keyword_index_, id)
    BY <1>3, <1>11, <2>2, Erased
  <2> QED
    BY <1>12, <2>1, <2>2
<1>14. TypeOK'
  <2>1. \A x \in DOMAIN auction_items_' : /\ auction_items_'[x].offer \in Catalog
                                          /\ auction_items_'[x].status \in {"ACTIVE", "ENDED"}
    BY <1>10 DEF Typed, Listings
  <2> QED
    BY <1>2, <1>3, <1>6, <1>13, <2>1, Indices, IndicesNext DEF SearchInv
<1>15. Agreed'
  <2>1. ASSUME NEW x \in DOMAIN auction_items_'
        PROVE  /\ stored'[x].offer = auction_items_'[x].offer
               /\ stored'[x].registered = auction_items_'[x].registered
               /\ auction_items_'[x].status = "ACTIVE" =>
                    stored'[x].status = "ACTIVE" /\ endedAt'[x] = Never
    BY <1>3, <1>4, <1>6 DEF SearchInv, Agreed, Active, TypeOK, Typed
  <2>2. \A x \in DOMAIN stored' : x \notin DOMAIN auction_items_' => stored'[x].status = "ACTIVE"
    BY <1>1, <1>3, <1>6 DEF SearchInv, Agreed
  <2>3. ASSUME faults' = 0, NEW x \in DOMAIN stored'
        PROVE  x \in DOMAIN auction_items_' /\ stored'[x].status = auction_items_'[x].status
    BY <1>3, <1>6, <1>7, <1>9, <2>3 DEF SearchInv, Agreed
  <2> QED
    BY <2>1, <2>2, <2>3 DEF Agreed, Active
<1>16. Indexed'
  <2> SUFFICES ASSUME NEW x \in DOMAIN auction_items_', Active(x)'
               PROVE  LET o == auction_items_'[x].offer
                      IN  /\ x \in Bucket(item_type_index_', o.type)
                          /\ x \in Bucket(price_index_', o.price)
                          /\ restarts' = 0 => \A w \in Words[o.name] : x \in Bucket(keyword_index_', w)
    BY DEF Indexed, Bucket
  <2>1. x # id /\ x \in DOMAIN auction_items_ /\ auction_items_'[x] = auction_items_[x] /\ Active(x)
    BY <1>3 DEF Active
  <2> DEFINE o == auction_items_[x].offer
  <2>2. /\ x \in Bucket(item_type_index_, o.type)
        /\ x \in Bucket(price_index_, o.price)
        /\ restarts = 0 => \A w \in Words[o.name] : x \in Bucket(keyword_index_, w)
    BY <2>1 DEF SearchInv, Indexed
  <2> HIDE DEF o
  <2>3. /\ x \in Bucket(item_type_index_', o.type)
        /\ x \in Bucket(price_index_', o.price)
        /\ restarts' = 0 => \A w \in Words[o.name] : x \in Bucket(keyword_index_', w)
    <3>1. CASE UNCHANGED indices
      BY <1>2, <1>7, <2>2, <3>1 DEF indices
    <3>2. CASE /\ item_type_index_' = Erase(item_type_index_, {i.type}, id)
               /\ seller_index_' \in {seller_index_, Erase(seller_index_, {i.seller}, id)}
               /\ price_index_' = Erase(price_index_, {i.price}, id)
               /\ keyword_index_' = Erase(keyword_index_, DOMAIN keyword_index_, id)
      <4>1. x \in Bucket(item_type_index_', o.type)
        BY <2>1, <2>2, <3>2 DEF Bucket, Erase
      <4>2. x \in Bucket(price_index_', o.price)
        BY <2>1, <2>2, <3>2 DEF Bucket, Erase
      <4>4. restarts' = 0 => \A w \in Words[o.name] : x \in Bucket(keyword_index_', w)
        BY <1>2, <2>1, <2>2, <3>2 DEF Bucket, Erase
      <4> QED
        BY <4>1, <4>2, <4>4
    <3> QED
      BY <1>12, <3>1, <3>2
  <2> QED
    BY <2>1, <2>3 DEF o
<1>17. KeywordsExact'
  <2> SUFFICES ASSUME faults' = 0, NEW w \in DOMAIN keyword_index_', NEW x \in keyword_index_'[w]
               PROVE  Active(x)' /\ w \in Words[auction_items_'[x].offer.name]
    BY DEF KeywordsExact
  <2>1. keyword_index_' = Erase(keyword_index_, DOMAIN keyword_index_, id)
    BY <1>12
  <2>2. w \in DOMAIN keyword_index_ /\ x \in keyword_index_[w] /\ x # id
    BY <2>1 DEF Erase
  <2>3. Active(x) /\ w \in Words[auction_items_[x].offer.name]
    BY <1>7, <2>2 DEF SearchInv, KeywordsExact
  <2>4. x \in DOMAIN auction_items_
    BY <1>11, <2>2 DEF IndexOver
  <2> QED
    BY <1>3, <2>2, <2>3, <2>4 DEF Active
<1>20. FewHidden'
  <2>1. \A x, k : x # id /\ x \in Bucket(seller_index_, k) => x \in Bucket(seller_index_', k)
    <3>1. CASE seller_index_' = seller_index_
      BY <3>1
    <3>2. CASE seller_index_' = Erase(seller_index_, {i.seller}, id)
      BY <3>2 DEF Bucket, Erase
    <3> QED
      BY <1>12, <3>1, <3>2 DEF indices
  <2>2. Hidden' \subseteq Hidden
    BY <1>3, <2>1 DEF Hidden, Active
  <2>3. Cardinality(Hidden') \in Nat /\ Cardinality(Hidden') <= faults
    BY <2>2, FewHiddenShrinks DEF SearchInv
  <2> QED
    BY <1>7, <2>3 DEF FewHidden
<1>18. Kept
  BY <1>1, <1>3, <1>4 DEF Kept, SearchInv, Typed, i
<1>19. CacheTrue' /\ AnswerTrue'
  BY <1>2, <1>18, CacheKept, AnswerKept DEF SearchInv
<1> QED
  BY <1>10, <1>14, <1>15, <1>16, <1>17, <1>19, <1>20 DEF SearchInv

-----------------------------------------------------------------------------
(* What a search answers.                                                  *)

(* A page is a stretch of the whole result.                                *)
Stretch(s, r, S) ==
  s \in Seq(S) /\ \E d \in Nat : \A n \in DOMAIN s : n + d \in DOMAIN r /\ s[n] = r[n + d]

LEMMA Paged ==
  ASSUME NEW S, NEW r \in Seq(S), NEW page \in Nat, NEW per \in Nat
  PROVE  Stretch(applyPagination(r, page, per), r, S)
<1>1. CASE r = <<>> \/ per = 0
  <2>1. applyPagination(r, page, per) = r
    BY <1>1 DEF applyPagination
  <2>2. \A n \in DOMAIN r : n + 0 = n
    OBVIOUS
  <2> QED
    BY <2>1, <2>2 DEF Stretch
<1>2. CASE ~ (r = <<>> \/ per = 0)
  <2> DEFINE p     == IF page < 1 THEN 1 ELSE page
             start == ((p - 1) * per) % (MaxUint32 + 1)
             stop  == IF start + per <= Len(r) THEN start + per ELSE Len(r)
  <2>1. applyPagination(r, page, per) =
          IF start >= Len(r) THEN <<>> ELSE SubSeq(r, start + 1, stop)
    BY <1>2 DEF applyPagination
  <2>2. start \in Nat
    <3>1. (p - 1) * per \in Int
      OBVIOUS
    <3>2. MaxUint32 + 1 \in Int /\ MaxUint32 + 1 > 0
      BY SearchConstantsOK
    <3>3. \A a, b \in Int : b > 0 => a % b \in Nat
      OBVIOUS
    <3> HIDE DEF p
    <3> QED
      BY <3>1, <3>2, <3>3
  <2> HIDE DEF start
  <2>3. CASE start >= Len(r)
    BY <2>1, <2>3 DEF Stretch
  <2>4. CASE start < Len(r)
    <3>1. stop \in Nat /\ stop <= Len(r) /\ start < stop
      BY <1>2, <2>2, <2>4
    <3> HIDE DEF stop
    <3>2. applyPagination(r, page, per) = SubSeq(r, start + 1, stop)
      <4>1. ~ (start >= Len(r))
        BY <2>2, <2>4
      <4> QED
        BY <2>1, <4>1, Zenon
    <3>3. /\ SubSeq(r, start + 1, stop) \in Seq(S)
          /\ DOMAIN SubSeq(r, start + 1, stop) = 1 .. stop - start
          /\ \A n \in 1 .. stop - start :
               n + start \in DOMAIN r /\ SubSeq(r, start + 1, stop)[n] = r[n + start]
      BY <2>2, <3>1
    <3> QED
      BY <2>2, <3>2, <3>3 DEF Stretch
  <2> QED
    BY <2>2, <2>3, <2>4
<1> QED
  BY <1>1, <1>2

LEMMA PageShown ==
  ASSUME NEW c, NEW r, Shown(r, c), c.page \in Nat, c.per \in Nat
  PROVE  /\ Shown(applyPagination(r, c.page, c.per), c)
         /\ \A n \in DOMAIN applyPagination(r, c.page, c.per) :
              \E m \in DOMAIN r : applyPagination(r, c.page, c.per)[n] = r[m]
<1>1. r \in Seq(DOMAIN auction_items_)
  BY DEF Shown
<1>2. PICK page : page = applyPagination(r, c.page, c.per)
  OBVIOUS
<1>3. PICK d \in Nat : /\ page \in Seq(DOMAIN auction_items_)
                       /\ \A n \in DOMAIN page : n + d \in DOMAIN r /\ page[n] = r[n + d]
  <2>1. Stretch(applyPagination(r, c.page, c.per), r, DOMAIN auction_items_)
    BY <1>1, Paged
  <2> QED
    BY <1>2, <2>1 DEF Stretch
<1>4. \A m, n \in DOMAIN page : m < n => m + d < n + d
  BY <1>3
<1>5. Sorted(page, c)
  <2>1. Sorted(r, c)
    BY DEF Shown
  <2> QED
    BY <1>3, <1>4, <2>1 DEF Sorted
<1>6. \A n \in DOMAIN page : MatchesOffer(auction_items_[page[n]].offer, c)
  BY <1>3 DEF Shown
<1> QED
  BY <1>2, <1>3, <1>5, <1>6 DEF Shown

(* The index that is chosen gives listings only.                           *)
LEMMA FoundKnown ==
  ASSUME TypeOK, NEW c
  PROVE  /\ Found(c) \subseteq DOMAIN auction_items_
         /\ \A id \in Found(c) : Active(id) /\ MatchesOffer(auction_items_[id].offer, c)
<1>1. /\ IndexOver(DOMAIN auction_items_, item_type_index_)
      /\ IndexOver(DOMAIN auction_items_, seller_index_)
      /\ IndexOver(DOMAIN auction_items_, price_index_)
      /\ IndexOver(DOMAIN auction_items_, keyword_index_)
  BY Indices
<1>2. BySeller(c) \subseteq DOMAIN auction_items_ /\ ByPrice(c) \subseteq DOMAIN auction_items_
  BY <1>1 DEF BySeller, ByPrice, Bucket, IndexOver
<1>3. UseKeyword(c) => keyword_index_[c.keyword] \subseteq DOMAIN auction_items_
  BY <1>1 DEF IndexOver, UseKeyword
<1>4. UseType(c) => item_type_index_[c.type] \subseteq DOMAIN auction_items_
  BY <1>1 DEF IndexOver, UseType
<1>5. Candidates(c) \subseteq DOMAIN auction_items_
  BY <1>2, <1>3, <1>4 DEF Candidates
<1> QED
  BY <1>5 DEF Found, matchesCriteria

(* What the filter and the sort leave is shown in order, and is on sale.   *)
LEMMA ResultShown ==
  ASSUME Typed, TypeOK, Agreed, NEW c, NEW results \in Filtered(c),
         NEW r \in sortResults(results, c)
  PROVE  Shown(r, c) /\ \A n \in DOMAIN r : endedAt[r[n]] = Never
<1>1. results \subseteq Found(c)
  BY DEF Filtered
<1>2. results \subseteq DOMAIN auction_items_
  BY <1>1, FoundKnown
<1>3. Cardinality(results) \in Nat
  BY <1>2, ListingsFinite
<1>4. r \in Seq(results) /\ Sorted(r, c)
  BY <1>3 DEF sortResults, SetToSeqs
<1>5. \A n \in DOMAIN r : r[n] \in Found(c) /\ r[n] \in DOMAIN auction_items_
  BY <1>1, <1>2, <1>4
<1>6. r \in Seq(DOMAIN auction_items_)
  BY <1>2, <1>4
<1> QED
  BY <1>4, <1>5, <1>6, FoundKnown DEF Shown, Agreed

-----------------------------------------------------------------------------
(* A step that changes the cache, the clock or the answer only.            *)
LEMMA MemoryKept ==
  ASSUME SearchInv, IndicesKept, FaultsGrow, UNCHANGED <<stored, next_auction_id_>>,
         now' \in Nat, \A k \in DOMAIN cache' : cache'[k].until \in now' + 1 .. now' + TTL
  PROVE  Typed' /\ TypeOK' /\ Agreed' /\ Indexed' /\ FewHidden' /\ KeywordsExact' /\ Kept
<1>1. Typed'
  BY DEF SearchInv, Typed, IndicesKept, FaultsGrow
<1>2. TypeOK'
  BY Indices, IndicesNext DEF SearchInv, IndicesKept, indices
<1>3. Agreed'
  BY DEF SearchInv, Typed, Agreed, Active, IndicesKept, FaultsGrow
<1>4. Kept
  BY DEF Kept, IndicesKept
<1> QED
  BY <1>1, <1>2, <1>3, <1>4, FilingKept

LEMMA TickKeeps ==
  ASSUME SearchInv, Tick
  PROVE  SearchInv'
<1>1. now' \in Nat /\ now' = now + 1 /\ FaultsGrow
  BY DEF Tick, SearchInv, Typed, FaultsGrow
<1>2. \A k \in DOMAIN cache' : k \in DOMAIN cache /\ cache'[k] = cache[k] /\ cache[k].until > now'
  BY DEF Tick
<1>3. \A k \in DOMAIN cache' : cache'[k].until \in now' + 1 .. now' + TTL
  BY <1>1, <1>2, SearchConstantsOK DEF SearchInv, Typed, TypeOK
<1>4. Typed' /\ TypeOK' /\ Agreed' /\ Indexed' /\ FewHidden' /\ KeywordsExact' /\ Kept
  BY <1>1, <1>3, MemoryKept DEF Tick, IndicesKept
<1>5. CacheTrue' /\ AnswerTrue'
  BY <1>2, <1>4, CacheKept, AnswerKept, SearchConstantsOK DEF SearchInv, Tick
<1> QED
  BY <1>4, <1>5 DEF SearchInv

LEMMA RunPastTheEndKeeps ==
  ASSUME SearchInv, NEW c \in Criteria, RunPastTheEnd(c)
  PROVE  SearchInv'
<1>1. /\ IndicesKept /\ FaultsGrow /\ now' \in Nat
      /\ \A k \in DOMAIN cache' : cache'[k].until \in now' + 1 .. now' + TTL
  BY DEF RunPastTheEnd, SearchInv, Typed, TypeOK, IndicesKept, FaultsGrow
<1>2. Typed' /\ TypeOK' /\ Agreed' /\ Indexed' /\ FewHidden' /\ KeywordsExact' /\ Kept
  BY <1>1, MemoryKept DEF RunPastTheEnd
<1>3. CacheTrue' /\ AnswerTrue'
  BY <1>2, CacheKept, AnswerKept, SearchConstantsOK DEF SearchInv, RunPastTheEnd
<1> QED
  BY <1>2, <1>3 DEF SearchInv

LEMMA AnswerFromCacheKeeps ==
  ASSUME SearchInv, NEW c \in Criteria, AnswerFromCache(c)
  PROVE  SearchInv'
<1>1. /\ IndicesKept /\ FaultsGrow /\ now' \in Nat
      /\ \A k \in DOMAIN cache' : cache'[k].until \in now' + 1 .. now' + TTL
  BY DEF AnswerFromCache, SearchInv, Typed, TypeOK, IndicesKept, FaultsGrow
<1>2. Typed' /\ TypeOK' /\ Agreed' /\ Indexed' /\ FewHidden' /\ KeywordsExact' /\ Kept
  BY <1>1, MemoryKept DEF AnswerFromCache
<1>3. CacheTrue'
  BY <1>2, CacheKept, SearchConstantsOK DEF SearchInv, AnswerFromCache
<1>4. AnswerTrue'
  <2>1. PICK ids : ids = cache[hash(c)].ids
    OBVIOUS
  <2>2. answer' = [to |-> c, ids |-> ids, cached |-> TRUE]
    BY <2>1 DEF AnswerFromCache
  <2>3. Asked(ids, Characters(c))
    BY <2>1 DEF AnswerFromCache, Cached, SearchInv, CacheTrue, hash
  <2>4. Asked(ids, Characters(c))'
    BY <1>2, <2>3, AskedKept
  <2> QED
    BY <2>2, <2>4 DEF AnswerTrue
<1> QED
  BY <1>2, <1>3, <1>4 DEF SearchInv

LEMMA AnswerFromIndicesKeeps ==
  ASSUME SearchInv, NEW c \in Criteria, AnswerFromIndices(c)
  PROVE  SearchInv'
<1> USE SearchConstantsOK
<1>0. PICK setFails \in BOOLEAN, results \in Filtered(c) :
        /\ faults' = faults + 1 \/ UNCHANGED faults
        /\ \E r \in sortResults(results, c) :
             /\ answer' = [to |-> c, ids |-> applyPagination(r, c.page, c.per), cached |-> FALSE]
             /\ cache' = IF isPopularSearch(c) /\ ~setFails
                         THEN Put(cache, hash(c), [ids |-> applyPagination(r, c.page, c.per),
                                                   until |-> now + TTL])
                         ELSE cache
  BY DEF AnswerFromIndices
<1>1. PICK r \in sortResults(results, c) :
        /\ answer' = [to |-> c, ids |-> applyPagination(r, c.page, c.per), cached |-> FALSE]
        /\ cache' = IF isPopularSearch(c) /\ ~setFails
                    THEN Put(cache, hash(c), [ids |-> applyPagination(r, c.page, c.per),
                                              until |-> now + TTL])
                    ELSE cache
  BY <1>0
<1>2. UNCHANGED <<auction_items_, stored, next_auction_id_, indices, now, endedAt, restarts>>
  BY DEF AnswerFromIndices
<1>3. Shown(r, c) /\ \A n \in DOMAIN r : endedAt[r[n]] = Never
  BY <1>1, ResultShown DEF SearchInv
<1>4. PICK page : page = applyPagination(r, c.page, c.per)
  OBVIOUS
<1>5. c.page \in Nat /\ c.per \in Nat
  OBVIOUS
<1>6. Shown(page, c) /\ \A n \in DOMAIN page : endedAt[page[n]] = Never
  BY <1>3, <1>4, <1>5, PageShown
<1>7. \A k \in DOMAIN cache' :
        \/ k \in DOMAIN cache /\ cache'[k] = cache[k]
        \/ k = hash(c) /\ cache'[k] = [ids |-> page, until |-> now + TTL]
  BY <1>1, <1>4 DEF Put
<1>8. /\ now \in Nat /\ now' = now
      /\ \A k \in DOMAIN cache' : cache'[k].until \in now' + 1 .. now' + TTL
  BY <1>2, <1>7 DEF SearchInv, Typed, TypeOK
<1>9. IndicesKept /\ FaultsGrow
  BY <1>0, <1>2 DEF SearchInv, Typed, IndicesKept, FaultsGrow
<1>10. Typed' /\ TypeOK' /\ Agreed' /\ Indexed' /\ FewHidden' /\ KeywordsExact' /\ Kept
  BY <1>2, <1>8, <1>9, MemoryKept
<1>11. Shown(page, c)'
  BY <1>6, <1>10, ShownKept
<1>14. Asked(page, Characters(c))'
  BY <1>11 DEF Asked
<1>12. AnswerTrue'
  <2>1. answer' = [to |-> c, ids |-> page, cached |-> FALSE]
    BY <1>1, <1>4
  <2> QED
    BY <1>11, <1>14, <2>1 DEF AnswerTrue
<1>13. CacheTrue'
  <2> SUFFICES ASSUME NEW k \in DOMAIN cache', NEW ids, NEW until,
                      ids = cache'[k].ids, until = cache'[k].until
               PROVE  Asked(ids, k)' /\ \A n \in DOMAIN ids : OnSaleAt(ids[n], until - TTL)'
    BY DEF CacheTrue, Asked, Shown, OnSaleAt, Sorted, SortKey
  <2>1. CASE k \in DOMAIN cache /\ cache'[k] = cache[k]
    <3>1. Asked(ids, k) /\ \A n \in DOMAIN ids : OnSaleAt(ids[n], until - TTL)
      BY <2>1 DEF SearchInv, CacheTrue
    <3> QED
      BY <1>2, <1>10, <3>1, AskedKept DEF OnSaleAt
  <2>2. CASE k = hash(c) /\ cache'[k] = [ids |-> page, until |-> now + TTL]
    <3>1. ids = page /\ k = Characters(c)
      BY <2>2 DEF hash
    <3> QED
      BY <1>2, <1>6, <1>14, <3>1 DEF OnSaleAt
  <2> QED
    BY <1>7, <2>1, <2>2
<1> QED
  BY <1>10, <1>12, <1>13 DEF SearchInv

-----------------------------------------------------------------------------
(* A non-empty set of naturals has a least element, and a largest one if   *)
(* it is bounded.                                                          *)
LEMMA Least ==
  ASSUME NEW T \in SUBSET Nat, T # {}
  PROVE  \E x \in T : \A y \in T : x <= y
<1>1. PICK x \in T : \A y \in T : ~ (<<y, x>> \in OpToRel(<, Nat))
  BY NatLessThanWellFounded, WFMin
<1>2. \A y \in T : ~ (y < x)
  BY <1>1 DEF OpToRel
<1> QED
  BY <1>2

LEMMA MaxIsLargest ==
  ASSUME NEW S \in SUBSET Nat, S # {}, NEW n \in Nat, \A y \in S : y <= n
  PROVE  Max(S) \in S /\ \A y \in S : y <= Max(S)
<1> DEFINE T == {u \in Nat : \A y \in S : y <= u}
<1>1. PICK x \in T : \A u \in T : x <= u
  BY Least
<1>2. x \in S
  <2> SUFFICES ASSUME x \notin S PROVE FALSE
    OBVIOUS
  <2>1. \A y \in S : y \in Nat /\ y < x
    OBVIOUS
  <2>2. x - 1 \in Nat /\ \A y \in S : y <= x - 1
    <3>1. PICK y \in S : TRUE
      OBVIOUS
    <3>2. x \in Nat /\ y \in Nat /\ y < x
      BY <2>1
    <3> QED
      BY <2>1, <3>2
  <2>3. x - 1 \in T
    BY <2>2
  <2> QED
    BY <1>1, <2>3
<1>3. x \in S /\ \A y \in S : x >= y
  BY <1>2
<1>4. Max(S) \in S /\ \A y \in S : Max(S) >= y
  BY <1>3 DEF Max
<1> QED
  BY <1>4

LEMMA RestartKeeps ==
  ASSUME SearchInv, Restart
  PROVE  SearchInv'
<1> USE SearchConstantsOK
<1> DEFINE live  == {id \in DOMAIN stored : stored[id].status = "ACTIVE"}
           offer == [id \in live |-> stored[id].offer]
<1>1. PICK known \in SUBSET live :
        /\ faults' = faults + Cardinality(live \ known)
        /\ seller_index_' = Buckets(known, [id \in live |-> offer[id].seller])
  BY DEF Restart
<1>2. /\ auction_items_' = stored
      /\ UNCHANGED <<stored, cache, now, answer>>
      /\ restarts' = restarts + 1
      /\ next_auction_id_' = 1 + Max({0} \cup DOMAIN stored)
      /\ endedAt' = [id \in DOMAIN stored |->
                       IF stored[id].status = "ACTIVE" THEN Never ELSE endedAt[id]]
      /\ item_type_index_' = Buckets(live, [id \in live |-> offer[id].type])
      /\ price_index_' = Buckets(live, [id \in live |-> offer[id].price])
      /\ keyword_index_' = Empty
  BY DEF Restart
<1>3. /\ Max({0} \cup DOMAIN stored) \in 0 .. MaxId
      /\ \A id \in DOMAIN stored : id <= Max({0} \cup DOMAIN stored)
  <2>1. /\ {0} \cup DOMAIN stored \in SUBSET Nat /\ {0} \cup DOMAIN stored # {}
        /\ \A y \in {0} \cup DOMAIN stored : y <= MaxId
    BY DEF SearchInv, Typed, Ids
  <2>2. /\ Max({0} \cup DOMAIN stored) \in {0} \cup DOMAIN stored
        /\ \A y \in {0} \cup DOMAIN stored : y <= Max({0} \cup DOMAIN stored)
    BY <2>1, MaxIsLargest
  <2>3. PICK m : m = Max({0} \cup DOMAIN stored)
    OBVIOUS
  <2>4. /\ m \in {0} \cup DOMAIN stored
        /\ \A y \in {0} \cup DOMAIN stored : y <= m
    BY <2>2, <2>3, Zenon
  <2>5. m \in 0 .. MaxId /\ \A id \in DOMAIN stored : id <= m
    BY <2>1, <2>4
  <2> QED
    BY <2>3, <2>5, Zenon
<1>4. /\ faults' \in Nat /\ faults <= faults' /\ (faults' = 0 => faults = 0 /\ known = live)
      /\ IsFiniteSet(live \ known) /\ Cardinality(live \ known) <= faults'
  <2>1. IsFiniteSet(1 .. MaxId) /\ live \ known \subseteq 1 .. MaxId
    BY FS_Interval DEF SearchInv, Typed, Ids
  <2>2. IsFiniteSet(live \ known)
    BY <2>1, FS_Subset
  <2>3. Cardinality(live \ known) \in Nat /\ (Cardinality(live \ known) = 0 => live \ known = {})
    BY <2>2, FS_CardinalityType, FS_EmptySet
  <2> HIDE DEF live, offer
  <2>4. faults \in Nat
    BY DEF SearchInv, Typed
  <2>5. faults' \in Nat /\ faults <= faults'
        /\ (faults' = 0 => faults = 0 /\ Cardinality(live \ known) = 0)
        /\ Cardinality(live \ known) <= faults'
    BY <1>1, <2>3, <2>4
  <2> QED
    BY <2>2, <2>3, <2>5
<1>5. /\ live \subseteq DOMAIN stored
      /\ \A id \in live : stored[id].status = "ACTIVE" /\ offer[id] = stored[id].offer
  OBVIOUS
<1>6. \A id \in DOMAIN stored : stored[id].status # "ACTIVE" =>
        id \in DOMAIN auction_items_ /\ endedAt[id] \in Nat \cup {Never}
  BY DEF SearchInv, Typed, Agreed
<1>7. /\ DOMAIN endedAt' = DOMAIN stored
      /\ \A id \in DOMAIN stored : /\ endedAt'[id] \in Nat \cup {Never}
                                   /\ stored[id].status = "ACTIVE" => endedAt'[id] = Never
                                   /\ endedAt'[id] \in {Never, endedAt[id]}
  BY <1>2, <1>6
<1>8. Typed'
  <2>1. restarts' \in Nat /\ now' \in Nat /\ next_auction_id_' \in 1 .. MaxId + 1
    BY <1>2, <1>3 DEF SearchInv, Typed
  <2> QED
    BY <1>2, <1>4, <1>7, <2>1 DEF SearchInv, Typed
<1>9. TypeOK'
  <2>1. /\ IndexOver(live, item_type_index_') /\ IndexOver(live, price_index_')
        /\ IndexOver(known, seller_index_')
    BY <1>1, <1>2, Rebuilt
  <2>2. IndexOver(DOMAIN stored, keyword_index_')
    BY <1>2 DEF Empty, IndexOver
  <2>3. /\ IndexOver(DOMAIN auction_items_', item_type_index_')
        /\ IndexOver(DOMAIN auction_items_', price_index_')
        /\ IndexOver(DOMAIN auction_items_', seller_index_')
        /\ IndexOver(DOMAIN auction_items_', keyword_index_')
    BY <1>2, <1>5, <2>1, <2>2 DEF IndexOver
  <2>4. \A id \in DOMAIN stored' : id < next_auction_id_'
    <3>1. PICK m : m = Max({0} \cup DOMAIN stored)
      OBVIOUS
    <3>2. next_auction_id_' = 1 + m
      BY <1>2, <3>1
    <3>4. m \in 0 .. MaxId /\ \A id \in DOMAIN stored : id <= m
      BY <1>3, <3>1, Zenon
    <3>3. \A id \in DOMAIN stored : id \in Nat
      BY DEF SearchInv, Typed, Ids
    <3> QED
      BY <1>2, <3>2, <3>3, <3>4
  <2>5. \A id \in DOMAIN auction_items_' : /\ auction_items_'[id].offer \in Catalog
                                           /\ auction_items_'[id].status \in {"ACTIVE", "ENDED"}
    BY <1>8 DEF Typed, Listings
  <2>6. \A k \in DOMAIN cache' : cache'[k].until \in now' + 1 .. now' + TTL
    BY <1>2 DEF SearchInv, TypeOK
  <2> QED
    BY <1>2, <2>3, <2>4, <2>5, <2>6, IndicesNext DEF SearchInv, Typed
<1>10. Agreed'
  BY <1>2, <1>7 DEF Agreed, Active
<1>11. Indexed'
  <2> SUFFICES ASSUME NEW x \in DOMAIN auction_items_', Active(x)'
               PROVE  LET o == auction_items_'[x].offer
                      IN  /\ x \in Bucket(item_type_index_', o.type)
                          /\ x \in Bucket(price_index_', o.price)
                          /\ restarts' = 0 => \A w \in Words[o.name] : x \in Bucket(keyword_index_', w)
    BY DEF Indexed, Bucket
  <2>1. x \in live /\ auction_items_'[x].offer = offer[x]
    BY <1>2 DEF Active
  <2> HIDE DEF live, offer
  <2>2. x \in Bucket(item_type_index_', offer[x].type)
    <3>1. [id \in live |-> offer[id].type][x] = offer[x].type
      BY <2>1
    <3> QED
      BY <1>2, <2>1, <3>1, Rebuilt
  <2>3. x \in Bucket(price_index_', offer[x].price)
    <3>1. [id \in live |-> offer[id].price][x] = offer[x].price
      BY <2>1
    <3> QED
      BY <1>2, <2>1, <3>1, Rebuilt
  <2>5. restarts' # 0
    BY <1>2 DEF SearchInv, Typed
  <2> QED
    BY <2>1, <2>2, <2>3, <2>5
<1>15. FewHidden'
  <2>1. Hidden' \subseteq live \ known
    <3> SUFFICES ASSUME NEW x \in Hidden' PROVE x \in live \ known
      OBVIOUS
    <3>1. x \in live /\ auction_items_'[x].offer = offer[x]
      BY <1>2 DEF Hidden, Active
    <3>2. x \notin Bucket(seller_index_', offer[x].seller)
      BY <3>1 DEF Hidden
    <3> HIDE DEF live, offer
    <3>3. x \in known => x \in Bucket(seller_index_', offer[x].seller)
      <4> DEFINE sellerOf == [id \in live |-> offer[id].seller]
      <4>1. sellerOf[x] = offer[x].seller
        BY <3>1
      <4>2. seller_index_' = Buckets(known, sellerOf)
        BY <1>1
      <4> HIDE DEF sellerOf
      <4> QED
        BY <4>1, <4>2, Rebuilt
    <3> QED
      BY <3>1, <3>2, <3>3
  <2> HIDE DEF live
  <2>2. Cardinality(Hidden') \in Nat /\ Cardinality(Hidden') <= Cardinality(live \ known)
    BY <1>4, <2>1, FS_Subset, FS_CardinalityType
  <2>3. Cardinality(live \ known) \in Nat
    BY <1>4, FS_CardinalityType
  <2> QED
    BY <1>4, <2>2, <2>3 DEF FewHidden
<1>12. KeywordsExact'
  BY <1>2 DEF KeywordsExact, Empty
<1>13. Kept
  <2>1. \A id \in DOMAIN auction_items_ : /\ id \in DOMAIN stored
                                         /\ stored[id].offer = auction_items_[id].offer
                                         /\ stored[id].registered = auction_items_[id].registered
    BY DEF SearchInv, TypeOK, Agreed
  <2> QED
    BY <1>2, <1>7, <2>1 DEF Kept
<1>14. CacheTrue' /\ AnswerTrue'
  BY <1>2, <1>13, CacheKept, AnswerKept DEF SearchInv
<1> QED
  BY <1>8, <1>9, <1>10, <1>11, <1>12, <1>14, <1>15 DEF SearchInv

-----------------------------------------------------------------------------
LEMMA SearchInit == Init => SearchInv
<1> SUFFICES ASSUME Init PROVE SearchInv
  OBVIOUS
<1>1. Typed
  BY SearchConstantsOK DEF Init, Typed, Empty
<1>2. TypeOK
  BY DEF Init, TypeOK, Empty
<1>3. Agreed /\ Indexed /\ KeywordsExact
  BY DEF Init, Agreed, Indexed, KeywordsExact, Empty
<1>4. CacheTrue /\ AnswerTrue
  BY DEF Init, CacheTrue, AnswerTrue, Empty
<1>5. FewHidden
  <2>1. Hidden = {} /\ faults = 0
    BY DEF Init, Hidden, Empty
  <2> QED
    BY <2>1, FS_EmptySet DEF FewHidden
<1> QED
  BY <1>1, <1>2, <1>3, <1>4, <1>5 DEF SearchInv

LEMMA SearchNext == SearchInv /\ [Next]_vars => SearchInv'
<1> SUFFICES ASSUME SearchInv, [Next]_vars PROVE SearchInv'
  OBVIOUS
<1>1. ASSUME NEW i \in Catalog, registerItem(i) PROVE SearchInv'
  BY <1>1, RegisterKeeps
<1>2. ASSUME NEW id \in Ids, EndListing(id) PROVE SearchInv'
  BY <1>2, EndKeeps
<1>3. ASSUME NEW c \in Criteria, searchItems(c) PROVE SearchInv'
  BY <1>3, AnswerFromCacheKeeps, AnswerFromIndicesKeeps, RunPastTheEndKeeps DEF searchItems
<1>4. CASE Restart
  BY <1>4, RestartKeeps
<1>5. CASE Tick
  BY <1>5, TickKeeps
<1>6. CASE UNCHANGED vars
  <2>1. /\ IndicesKept /\ FaultsGrow /\ now' \in Nat
        /\ \A k \in DOMAIN cache' : cache'[k].until \in now' + 1 .. now' + TTL
    BY <1>6 DEF vars, SearchInv, Typed, TypeOK, IndicesKept, FaultsGrow
  <2>2. Typed' /\ TypeOK' /\ Agreed' /\ Indexed' /\ FewHidden' /\ KeywordsExact' /\ Kept
    BY <1>6, <2>1, MemoryKept DEF vars
  <2>3. CacheTrue' /\ AnswerTrue'
    BY <1>6, <2>2, CacheKept, AnswerKept, SearchConstantsOK DEF SearchInv, vars
  <2> QED
    BY <2>2, <2>3 DEF SearchInv
<1> QED
  BY <1>1, <1>2, <1>3, <1>4, <1>5, <1>6 DEF Next

(* Memory, collection, indices and cache fit together, in every state that *)
(* operations and restarts lead to.                                        *)
THEOREM SearchInvariant == Spec => []SearchInv
  BY SearchInit, SearchNext, PTL DEF Spec

(* What the indices and the cache hold is well formed: ids of listings     *)
(* that memory knows, no empty bucket, and no cached result that outlives  *)
(* its time.                                                               *)
THEOREM SearchTypeCorrect == Spec => []TypeOK
<1>1. SearchInv => TypeOK
  BY DEF SearchInv
<1> QED
  BY <1>1, SearchInvariant, PTL

-----------------------------------------------------------------------------
(* Without failures nothing is hidden.                                     *)
LEMMA NoneHidden == SearchInv /\ faults = 0 => Hidden = {}
<1> SUFFICES ASSUME SearchInv, faults = 0 PROVE Hidden = {}
  OBVIOUS
<1>1. Cardinality(Hidden) \in Nat /\ Cardinality(Hidden) <= faults
  BY FewHiddenShrinks DEF SearchInv
<1>2. Hidden \subseteq DOMAIN auction_items_
  BY DEF Hidden
<1>3. IsFiniteSet(Hidden)
  BY <1>2, ListingsFinite DEF SearchInv
<1> QED
  BY <1>1, <1>3, FS_EmptySet

(* A listing that matches is among the candidates, if the index of         *)
(* keywords is not used and the index of sellers does not hide it.         *)
LEMMA MatchFound ==
  ASSUME SearchInv, NEW c, c.min \in Nat, c.max \in Nat, ~UseKeyword(c),
         NEW id \in DOMAIN auction_items_, matchesCriteria(id, c), c.seller = Unset \/ id \notin Hidden
  PROVE  id \in Found(c)
<1> DEFINE i == auction_items_[id].offer
<1>1. Active(id) /\ MatchesOffer(i, c)
  BY DEF matchesCriteria
<1>2. i \in Catalog /\ i.price \in Nat
  BY SearchConstantsOK DEF SearchInv, TypeOK
<1>3. /\ id \in Bucket(item_type_index_, i.type)
      /\ id \in Bucket(price_index_, i.price)
      /\ c.seller # Unset => id \in Bucket(seller_index_, i.seller)
  BY <1>1 DEF SearchInv, Indexed, Hidden
<1> HIDE DEF i
<1>4. UseType(c) => id \in item_type_index_[c.type]
  BY <1>1, <1>3 DEF UseType, MatchesOffer, Bucket
<1>5. UseSeller(c) => id \in BySeller(c)
  BY <1>1, <1>3 DEF UseSeller, BySeller, MatchesOffer
<1>6. UsePrice(c) => id \in ByPrice(c)
  <2> SUFFICES ASSUME UsePrice(c) PROVE id \in ByPrice(c)
    OBVIOUS
  <2>1. i.price \in DOMAIN price_index_ /\ id \in price_index_[i.price]
    BY <1>3 DEF Bucket
  <2>2. c.min <= i.price /\ i.price <= c.max
    BY <1>1, <1>2 DEF UsePrice, MatchesOffer
  <2> QED
    BY <2>1, <2>2 DEF ByPrice
<1>7. id \in Candidates(c)
  BY <1>1, <1>4, <1>5, <1>6 DEF Candidates
<1> QED
  BY <1>7 DEF Found

LEMMA FoundExact ==
  ASSUME SearchInv, NEW c, c.min \in Nat, c.max \in Nat, ~UseKeyword(c),
         c.seller = Unset \/ faults = 0
  PROVE  Found(c) = Reference(c)
<1>1. Found(c) \subseteq Reference(c)
  BY FoundKnown DEF SearchInv, Reference, matchesCriteria
<1>2. c.seller = Unset \/ Hidden = {}
  BY NoneHidden
<1>3. Reference(c) \subseteq Found(c)
  BY <1>2, MatchFound DEF Reference
<1> QED
  BY <1>1, <1>3

(* Whichever index a search without a keyword uses, it finds what a look   *)
(* at every listing would find, over any number of restarts and failures;  *)
(* a search by seller may miss one listing for each failed look-up.        *)
THEOREM SearchesMissNothing == Spec => []IndexedSearchExact
<1>1. SearchInv => IndexedSearchExact
  <2> SUFFICES ASSUME SearchInv, NEW c \in Probes, c.keyword = Unset
               PROVE  /\ c.seller = Unset => Reference(c) \ Found(c) = {}
                      /\ Cardinality(Reference(c) \ Found(c)) <= faults
    BY DEF IndexedSearchExact
  <2>1. ~UseKeyword(c) /\ c.min \in Nat /\ c.max \in Nat
    BY SearchConstantsOK DEF UseKeyword
  <2>2. c.seller = Unset => Reference(c) \ Found(c) = {}
    BY <2>1, FoundExact
  <2>3. Reference(c) \ Found(c) \subseteq Hidden
    BY <2>1, MatchFound DEF Reference
  <2>4. Cardinality(Reference(c) \ Found(c)) <= faults
    BY <2>3, FewHiddenShrinks DEF SearchInv
  <2> QED
    BY <2>2, <2>4
<1> QED
  BY <1>1, SearchInvariant, PTL

(* A listing is found under each word of its name, as long as the process  *)
(* that registered it runs, and after a restart as long as no new listing  *)
(* brings the word back into the keyword index.                            *)
THEOREM ListingsFoundByTheirWords == Spec => []OwnWordsFound
<1>1. SearchInv => OwnWordsFound
  <2> SUFFICES ASSUME SearchInv, NEW c \in Probes, NEW id \in DOMAIN auction_items_,
                      matchesCriteria(id, c),
                      c.keyword \in Words[auction_items_[id].offer.name],
                      restarts = 0 \/ c.keyword \notin DOMAIN keyword_index_,
                      c.seller = Unset \/ faults = 0
               PROVE  id \in Found(c)
    BY DEF OwnWordsFound
  <2>1. c.min \in Nat /\ c.max \in Nat
    BY SearchConstantsOK
  <2>2. CASE UseKeyword(c)
    <3>1. Active(id)
      BY DEF matchesCriteria
    <3>2. restarts = 0
      BY <2>2 DEF UseKeyword
    <3>3. id \in Bucket(keyword_index_, c.keyword)
      BY <3>1, <3>2 DEF SearchInv, Indexed
    <3> QED
      BY <2>2, <3>3 DEF Found, Candidates, UseKeyword, Bucket
  <2>3. CASE ~UseKeyword(c)
    BY <2>1, <2>3, MatchFound, NoneHidden
  <2> QED
    BY <2>2, <2>3
<1> QED
  BY <1>1, SearchInvariant, PTL

(* When the last listing of a word is gone, the word is looked for in      *)
(* every name again, as long as nothing failed.                            *)
THEOREM KeywordsFallBack == Spec => []KeywordFallback
<1>1. SearchInv => KeywordFallback
  <2> SUFFICES ASSUME SearchInv, NEW c \in Probes, faults = 0,
                      \A id \in DOMAIN auction_items_ :
                        Active(id) => c.keyword \notin Words[auction_items_[id].offer.name]
               PROVE  Found(c) = Reference(c)
    BY DEF KeywordFallback
  <2>1. c.min \in Nat /\ c.max \in Nat
    BY SearchConstantsOK
  <2>2. c.keyword \notin DOMAIN keyword_index_
    <3> SUFFICES ASSUME c.keyword \in DOMAIN keyword_index_ PROVE FALSE
      OBVIOUS
    <3>1. IndexOver(DOMAIN auction_items_, keyword_index_)
      BY Indices DEF SearchInv
    <3>2. PICK id \in keyword_index_[c.keyword] : id \in DOMAIN auction_items_
      BY <3>1 DEF IndexOver
    <3>3. Active(id) /\ c.keyword \in Words[auction_items_[id].offer.name]
      BY <3>2 DEF SearchInv, KeywordsExact
    <3> QED
      BY <3>2, <3>3
  <2> QED
    BY <2>1, <2>2, FoundExact DEF UseKeyword
<1> QED
  BY <1>1, SearchInvariant, PTL

-----------------------------------------------------------------------------
(* An answer has what was asked for, in the order asked for, whatever      *)
(* happened to the listings since; one from the cache has what some search *)
(* asked for whose characters are those of this one.                       *)
THEOREM AnswersFitTheirQuery == Spec => []AnswersMatchTheQuery
<1>1. SearchInv => AnswersMatchTheQuery
  <2> SUFFICES ASSUME SearchInv, answer # NoAnswer
               PROVE  \E c \in Criteria : /\ Characters(c) = Characters(answer.to)
                                          /\ ~answer.cached => c = answer.to
                                          /\ Answers(answer.ids, c)
    BY DEF AnswersMatchTheQuery
  <2>1. CASE answer.cached
    <3>1. PICK c \in Criteria : Characters(c) = Characters(answer.to) /\ Shown(answer.ids, c)
      BY DEF SearchInv, AnswerTrue, Asked
    <3> QED
      BY <2>1, <3>1 DEF Shown, Answers
  <2>2. CASE ~answer.cached
    BY <2>2 DEF SearchInv, AnswerTrue, Shown, Answers
  <2> QED
    BY <2>1, <2>2
<1> QED
  BY <1>1, SearchInvariant, PTL

(* An answer, cached or not, across restarts, holds only listings that     *)
(* were on sale less than TTL ago.                                         *)
THEOREM AnswersAreFresh == Spec => AnswersAtMostTTLOld
<1> DEFINE Fresh(c) ==
             answer' # answer /\ answer'.to = c =>
               \A n \in DOMAIN answer'.ids :
                 LET id == answer'.ids[n]
                 IN  endedAt[id] = Never \/ now - endedAt[id] < TTL
<1>1. SearchInv /\ [Next]_vars => [\A c \in Criteria : Fresh(c)]_vars
  <2> SUFFICES ASSUME SearchInv, Next, answer' # answer, NEW n \in DOMAIN answer'.ids
               PROVE  LET id == answer'.ids[n]
                      IN  endedAt[id] = Never \/ now - endedAt[id] < TTL
    OBVIOUS
  <2>1. PICK c \in Criteria : AnswerFromCache(c) \/ AnswerFromIndices(c)
    BY DEF Next, registerItem, EndListing, searchItems, RunPastTheEnd, Restart, Tick
  <2>2. CASE AnswerFromCache(c)
    <3>1. PICK ids, until : ids = cache[hash(c)].ids /\ until = cache[hash(c)].until
      OBVIOUS
    <3>2. answer'.ids = ids /\ hash(c) \in DOMAIN cache
      BY <2>2, <3>1 DEF AnswerFromCache, Cached
    <3>3. OnSaleAt(ids[n], until - TTL) /\ ids[n] \in DOMAIN endedAt
      BY <3>1, <3>2 DEF SearchInv, CacheTrue, Asked, Shown, Typed
    <3>4. until \in now + 1 .. now + TTL
      BY <3>1, <3>2 DEF SearchInv, TypeOK
    <3>5. now \in Nat /\ TTL \in Nat /\ endedAt[ids[n]] \in Nat \cup {Never}
      BY <3>3, SearchConstantsOK DEF SearchInv, Typed
    <3> QED
      BY <3>2, <3>3, <3>4, <3>5 DEF OnSaleAt
  <2>3. CASE AnswerFromIndices(c)
    <3>1. PICK results \in Filtered(c) :
            \E r \in sortResults(results, c) :
              answer' = [to |-> c, ids |-> applyPagination(r, c.page, c.per), cached |-> FALSE]
      BY <2>3 DEF AnswerFromIndices
    <3>2. PICK r \in sortResults(results, c) :
            answer' = [to |-> c, ids |-> applyPagination(r, c.page, c.per), cached |-> FALSE]
      BY <3>1
    <3>3. Shown(r, c) /\ \A m \in DOMAIN r : endedAt[r[m]] = Never
      BY <3>1, <3>2, ResultShown DEF SearchInv
    <3>4. c.page \in Nat /\ c.per \in Nat
      BY SearchConstantsOK
    <3>5. PICK page : page = applyPagination(r, c.page, c.per)
      OBVIOUS
    <3>6. answer'.ids = page /\ \E m \in DOMAIN r : page[n] = r[m]
      BY <3>2, <3>3, <3>4, <3>5, PageShown
    <3> QED
      BY <3>3, <3>6
  <2> QED
    BY <2>1, <2>2, <2>3
<1> QED
  BY <1>1, SearchInvariant, PTL DEF Spec, AnswersAtMostTTLOld

-----------------------------------------------------------------------------
(* Every finite set of ids can be put in order: take the largest last.     *)
InOrder(r) == \A m, n \in DOMAIN r : m < n => r[m] < r[n]

LEMMA IdsFinite ==
  ASSUME NEW S \in SUBSET (0 .. MaxId)
  PROVE  IsFiniteSet(S) /\ Cardinality(S) \in Nat
<1>1. IsFiniteSet(0 .. MaxId)
  BY SearchConstantsOK, FS_Interval
<1>2. IsFiniteSet(S)
  BY <1>1, FS_Subset
<1> QED
  BY <1>2, FS_CardinalityType

LEMMA OrderExtended ==
  ASSUME NEW S \in SUBSET (0 .. MaxId), NEW k \in Nat, Cardinality(S) = k + 1,
         \A R \in SUBSET (0 .. MaxId) : Cardinality(R) = k => \E r \in SetToSeqs(R) : InOrder(r)
  PROVE  \E r \in SetToSeqs(S) : InOrder(r)
<1>1. IsFiniteSet(S)
  BY IdsFinite
<1>2. S # {}
  BY <1>1, FS_EmptySet
<1>3. PICK m \in S : \A y \in S : y <= m
  <2>1. MaxId \in Nat /\ S \in SUBSET Nat /\ \A y \in S : y <= MaxId
    BY SearchConstantsOK
  <2>2. Max(S) \in S /\ \A y \in S : y <= Max(S)
    BY <1>2, <2>1, MaxIsLargest
  <2> QED
    BY <2>2
<1>4. Cardinality(S \ {m}) = k
  BY <1>1, <1>3, FS_RemoveElement
<1>5. PICK q \in SetToSeqs(S \ {m}) : InOrder(q)
  BY <1>4
<1>6. /\ q \in [1 .. k -> S \ {m}]
      /\ \A a, b \in 1 .. k : a # b => q[a] # q[b]
  BY <1>4, <1>5 DEF SetToSeqs
<1> DEFINE r == [n \in 1 .. k + 1 |-> IF n = k + 1 THEN m ELSE q[n]]
<1>7. /\ r \in [1 .. k + 1 -> S]
      /\ r[k + 1] = m
      /\ \A n \in 1 .. k : n \in 1 .. k + 1 /\ r[n] = q[n] /\ q[n] \in S /\ q[n] # m
      /\ \A n \in 1 .. k + 1 : n \in 1 .. k \/ n = k + 1
  BY <1>3, <1>6
<1> HIDE DEF r
<1>8. \A a, b \in 1 .. k + 1 : a # b => r[a] # r[b]
  BY <1>6, <1>7
<1>9. r \in SetToSeqs(S)
  BY <1>7, <1>8 DEF SetToSeqs
<1>10. InOrder(r)
  <2> SUFFICES ASSUME NEW a \in 1 .. k + 1, NEW b \in 1 .. k + 1, a < b PROVE r[a] < r[b]
    BY <1>7 DEF InOrder
  <2>1. a \in 1 .. k
    OBVIOUS
  <2>2. CASE b = k + 1
    <3>1. r[b] = m /\ r[a] \in S /\ r[a] # m
      BY <1>7, <2>1, <2>2
    <3>2. \A y \in S : y \in Int /\ m \in Int /\ (y # m => y < m)
      BY <1>3
    <3> QED
      BY <3>1, <3>2
  <2>3. CASE b \in 1 .. k
    BY <1>5, <1>6, <1>7, <2>1, <2>3 DEF InOrder
  <2> QED
    BY <1>7, <2>2, <2>3
<1> QED
  BY <1>9, <1>10

LEMMA OrderExists ==
  ASSUME NEW S \in SUBSET (0 .. MaxId)
  PROVE  \E r \in SetToSeqs(S) : InOrder(r)
<1> DEFINE Ordered(k) == \A R \in SUBSET (0 .. MaxId) :
                           Cardinality(R) = k => \E r \in SetToSeqs(R) : InOrder(r)
           T == {k \in Nat : ~Ordered(k)}
<1>1. Ordered(0)
  <2> SUFFICES ASSUME NEW R \in SUBSET (0 .. MaxId), Cardinality(R) = 0
               PROVE  \E r \in SetToSeqs(R) : InOrder(r)
    OBVIOUS
  <2> DEFINE r == [n \in 1 .. 0 |-> n]
  <2>1. r \in [1 .. Cardinality(R) -> R] /\ DOMAIN r = {}
    OBVIOUS
  <2>2. r \in SetToSeqs(R)
    BY <2>1 DEF SetToSeqs
  <2> QED
    BY <2>1, <2>2 DEF InOrder
<1>2. ASSUME NEW k \in Nat, Ordered(k) PROVE Ordered(k + 1)
  BY <1>2, OrderExtended
<1>3. T = {}
  <2> SUFFICES ASSUME T # {} PROVE FALSE
    OBVIOUS
  <2> HIDE DEF Ordered
  <2>1. PICK x \in T : \A y \in T : x <= y
    BY Least
  <2>2. x \in Nat /\ ~Ordered(x) /\ x # 0
    BY <1>1, <2>1
  <2>3. x - 1 \in Nat /\ (x - 1) + 1 = x /\ ~ (x <= x - 1)
    BY <2>2
  <2>4. Ordered(x - 1)
    BY <2>1, <2>3
  <2> QED
    BY <1>2, <2>2, <2>3, <2>4
<1>4. Cardinality(S) \in Nat
  BY IdsFinite
<1> QED
  BY <1>3, <1>4

(* The ids of a set, in order, are that set.                               *)
LEMMA InIdOrderLists ==
  ASSUME NEW S \in SUBSET (0 .. MaxId)
  PROVE  ToSet(InIdOrder(S)) = S
<1>1. IsFiniteSet(S)
  BY IdsFinite
<1>2. PICK c \in Nat : c = Cardinality(S)
  BY <1>1, FS_CardinalityType
<1>3. \E r \in SetToSeqs(S) : \A m, n \in DOMAIN r : m < n => r[m] < r[n]
  BY OrderExists DEF InOrder
<1>4. PICK r : r = InIdOrder(S)
  OBVIOUS
<1>5. r \in SetToSeqs(S)
  BY <1>3, <1>4 DEF InIdOrder
<1>6. r \in [1 .. c -> S] /\ \A a, b \in 1 .. c : a # b => r[a] # r[b]
  BY <1>2, <1>5 DEF SetToSeqs
<1>7. r \in Injection(1 .. c, S)
  BY <1>6 DEF Injection, IsInjective
<1>8. IsFiniteSet(1 .. c) /\ Cardinality(1 .. c) = c
  BY FS_Interval
<1>9. r \in Surjection(1 .. c, S)
  BY <1>1, <1>2, <1>7, <1>8, FS_Injection
<1>10. DOMAIN r = 1 .. c /\ \A x \in S : \E n \in 1 .. c : r[n] = x
  BY <1>6, <1>9 DEF Surjection
<1>11. ToSet(r) = S
  BY <1>6, <1>10 DEF ToSet
<1> QED
  BY <1>4, <1>11

(* The two ways to list a category agree: what is on sale in memory is     *)
(* listed under its type from the collection, which lists more only after  *)
(* a failed write; and a popular item is one of those.                     *)
THEOREM CategoriesAlwaysAgree == Spec => []CategoriesAgree
<1>1. SearchInv => CategoriesAgree
  <2> SUFFICES ASSUME SearchInv PROVE CategoriesAgree
    OBVIOUS
  <2> DEFINE onSale == {id \in DOMAIN auction_items_ : Active(id)}
             types  == {i.type : i \in Catalog}
             listed == [t \in types |-> ToSet(getItemsByCategory(t, 0))]
             active == {id \in DOMAIN stored : stored[id].status = "ACTIVE"}
             ofType(t) == {id \in DOMAIN stored :
                             stored[id].status = "ACTIVE" /\ stored[id].offer.type = t}
  <2>1. DOMAIN stored \in SUBSET (0 .. MaxId)
    BY DEF SearchInv, Typed, Ids
  <2>2. ASSUME NEW t PROVE ToSet(getItemsByCategory(t, 0)) = ofType(t)
    <3>1. ofType(t) \in SUBSET (0 .. MaxId)
      BY <2>1
    <3>2. getItemsByCategory(t, 0) = InIdOrder(ofType(t))
      BY DEF getItemsByCategory, First
    <3> HIDE DEF ofType
    <3> QED
      BY <3>1, <3>2, InIdOrderLists
  <2>3. \A t \in types : listed[t] = ofType(t)
    BY <2>2
  <2>4. \A id \in DOMAIN stored : stored[id].offer.type \in types
    BY DEF SearchInv, Typed, Listings
  <2>5. UNION {listed[t] : t \in DOMAIN listed} = active
    <3>1. DOMAIN listed = types
      OBVIOUS
    <3>2. \A t \in types : \A id : id \in listed[t] <=> id \in active /\ stored[id].offer.type = t
      BY <2>3
    <3>3. \A id \in active : id \in DOMAIN stored
      OBVIOUS
    <3> HIDE DEF listed, active
    <3>4. ASSUME NEW id \in UNION {listed[t] : t \in types} PROVE id \in active
      <4>1. PICK t \in types : id \in listed[t]
        OBVIOUS
      <4> QED
        BY <3>2, <4>1
    <3>5. ASSUME NEW id \in active PROVE id \in UNION {listed[t] : t \in types}
      <4>1. PICK t \in types : t = stored[id].offer.type
        BY <2>4, <3>3
      <4>2. id \in listed[t]
        BY <3>2, <4>1
      <4> QED
        BY <4>2
    <3> QED
      BY <3>1, <3>4, <3>5
  <2>6. \A id \in onSale : id \in listed[auction_items_[id].offer.type]
    <3> SUFFICES ASSUME NEW id \in onSale PROVE id \in listed[auction_items_[id].offer.type]
      OBVIOUS
    <3>1. /\ id \in DOMAIN stored /\ stored[id].status = "ACTIVE"
          /\ stored[id].offer = auction_items_[id].offer
      BY DEF SearchInv, TypeOK, Agreed
    <3>2. auction_items_[id].offer.type \in types
      BY <2>4, <3>1
    <3> HIDE DEF listed
    <3> QED
      BY <2>3, <3>1, <3>2
  <2>7. faults = 0 => active = onSale
    BY DEF SearchInv, TypeOK, Agreed, Active
  <2>8. ASSUME NEW r \in getPopularItems(1) PROVE ToSet(r) \subseteq active
    <3>1. PICK q \in SetToSeqs(active) : r = First(q, 1)
      BY DEF getPopularItems
    <3>2. Cardinality(active) \in Nat
      <4>1. active \in SUBSET (0 .. MaxId)
        BY <2>1
      <4> HIDE DEF active
      <4> QED
        BY <4>1, IdsFinite
    <3> HIDE DEF active
    <3>3. q \in Seq(active)
      BY <3>1, <3>2 DEF SetToSeqs
    <3>4. r \in Seq(active)
      BY <3>1, <3>3 DEF First
    <3> QED
      BY <3>4 DEF ToSet
  <2> QED
    BY <2>5, <2>6, <2>7, <2>8 DEF CategoriesAgree
<1> QED
  BY <1>1, SearchInvariant, PTL
=============================================================================
