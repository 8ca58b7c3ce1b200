---------------------------- MODULE AuctionSearch ----------------------------
(***************************************************************************)
(* How listings are found: the four indices of AuctionHouse, searchItems   *)
(* with its choice of index, filter, order and page                        *)
(* (src/AuctionHouse.cpp), and the search cache of DatabaseManager, a      *)
(* Redis entry per hash of the criteria (src/DatabaseManager.cpp).         *)
(*                                                                         *)
(* Every operation holds mutex_, so it is one step here; AuctionHouse      *)
(* models what happens inside a purchase.  Redis and the collection        *)
(* survive a restart, the indices do not.                                  *)
(***************************************************************************)
EXTENDS Integers, Sequences, FiniteSets, SequencesExt

CONSTANTS
  Catalog,    \* what sellers offer: records [name, type, seller, price]
  Rank,       \* Rank[name]: the place of a name in the order of strings
  Words,      \* Words[name]: the keywords indexItemKeywords files a name under
  Substrings, \* Substrings[name]: the keywords that are substrings of a name
  Criteria,   \* the searches that are asked
  Probes,     \* the searches whose result the invariants examine
  Chars,      \* Chars[s]: the characters of a keyword, a seller's name, sort_by, sort_order
  Unset,      \* an empty keyword or seller name
  MaxUint32,  \* 2^32 - 1, or the same for a narrower word
  TTL,        \* 300 seconds
  MaxId, MaxTime, MaxFaults, MaxRestarts  \* bounds of the instance

Ids    == 1 .. MaxId
Names  == DOMAIN Words

ASSUME SearchConstantsOK ==
  /\ MaxId \in Nat /\ MaxTime \in Nat /\ MaxFaults \in Nat /\ MaxRestarts \in Nat
  /\ TTL \in Nat \ {0} /\ MaxUint32 \in Nat
  /\ \A i \in Catalog : i.name \in Names /\ i.price \in 0 .. MaxUint32
  /\ Rank \in [Names -> Nat]
  /\ \A n \in Names : Words[n] \subseteq Substrings[n]
  /\ \A c \in Criteria \cup Probes : {c.min, c.max, c.type, c.page, c.per} \subseteq Nat

VARIABLES
  running,
  auction_items_,     \* id -> offer, registration_time and status, in memory
  stored,             \* the same in the collection
  next_auction_id_,
  item_type_index_, seller_index_, price_index_, keyword_index_,
  cache,              \* Redis: hash of the criteria -> results and expiry
  now,
  answer,             \* the last answer of searchItems
  endedAt,            \* history: when a listing ended in memory
  faults, restarts    \* history: failed database calls, restarts

indices == <<item_type_index_, seller_index_, price_index_, keyword_index_>>
vars == <<running, auction_items_, stored, next_auction_id_, indices, cache, now, answer,
          endedAt, faults, restarts>>

Empty    == [k \in {} |-> {}]
NoAnswer == [to |-> Unset, ids |-> <<>>, cached |-> FALSE]
Never    == -1

Init ==
  /\ running = TRUE
  /\ auction_items_ = Empty
  /\ stored = Empty
  /\ next_auction_id_ = 1
  /\ item_type_index_ = Empty
  /\ seller_index_ = Empty
  /\ price_index_ = Empty
  /\ keyword_index_ = Empty
  /\ cache = Empty
  /\ now = 0
  /\ answer = NoAnswer
  /\ endedAt = Empty
  /\ faults = 0
  /\ restarts = 0

-----------------------------------------------------------------------------
(* A std::map from keys to sets of ids.                                    *)

Put(f, k, v) == [x \in DOMAIN f \cup {k} |-> IF x = k THEN v ELSE f[x]]
Bucket(index, k) == IF k \in DOMAIN index THEN index[k] ELSE {}
InsertAlone(index, keys, id) ==                   \* mutant: a new id replaces the bucket
  [k \in DOMAIN index \cup keys |-> IF k \in keys THEN {id} ELSE index[k]]
Insert(index, keys, id) ==
  [k \in DOMAIN index \cup keys |->
     IF k \in keys THEN Bucket(index, k) \cup {id} ELSE index[k]]
EraseKeepingEmpty(index, keys, id) ==             \* mutant: empty buckets stay
  [k \in DOMAIN index |-> IF k \in keys THEN index[k] \ {id} ELSE index[k]]
Erase(index, keys, id) ==
  [k \in {x \in DOMAIN index : ~ (x \in keys /\ index[x] \subseteq {id})} |->
     IF k \in keys THEN index[k] \ {id} ELSE index[k]]

(* getUserInfo, which names the seller, may fail.                          *)
NameSeller(known) ==
  \/ known /\ UNCHANGED faults
  \/ ~known /\ faults < MaxFaults /\ faults' = faults + 1

updateIndices(id, i, known) ==
  /\ item_type_index_' = Insert(item_type_index_, {i.type}, id)
  /\ seller_index_' = IF known THEN Insert(seller_index_, {i.seller}, id) ELSE seller_index_
  /\ price_index_' = Insert(price_index_, {i.price}, id)

removeFromIndices(id, i, known) ==
  /\ item_type_index_' = Erase(item_type_index_, {i.type}, id)
  /\ seller_index_' = IF known THEN Erase(seller_index_, {i.seller}, id) ELSE seller_index_
  /\ price_index_' = Erase(price_index_, {i.price}, id)
  /\ keyword_index_' = Erase(keyword_index_, DOMAIN keyword_index_, id)

(* A registration whose insert fails uses up its id, and may leave a       *)
(* document that only a restart brings to light.                           *)
registerItem(i) ==
  /\ running
  /\ next_auction_id_ \in Ids
  /\ next_auction_id_' = next_auction_id_ + 1
  /\ LET id   == next_auction_id_
         item == [offer |-> i, registered |-> now, status |-> "ACTIVE"]
     IN  \/ /\ stored' = Put(stored, id, item)
            /\ auction_items_' = Put(auction_items_, id, item)
            /\ endedAt' = Put(endedAt, id, Never)
            /\ \E known \in BOOLEAN : NameSeller(known) /\ updateIndices(id, i, known)
            /\ keyword_index_' = Insert(keyword_index_, Words[i.name], id)
         \/ /\ stored' \in {stored, Put(stored, id, item)}
            /\ faults < MaxFaults /\ faults' = faults + 1
            /\ UNCHANGED <<auction_items_, endedAt, indices>>
  /\ UNCHANGED <<running, cache, now, answer, restarts>>

(* A purchase, a cancellation or an expiry, as far as searching sees it:   *)
(* memory is marked first; the indices are cleaned only if the collection  *)
(* was updated and nothing was thrown.                                     *)
EndListing(id) ==
  /\ running
  /\ id \in DOMAIN auction_items_
  /\ auction_items_[id].status = "ACTIVE"
  /\ auction_items_' = [auction_items_ EXCEPT ![id].status = "ENDED"]
  /\ endedAt' = [endedAt EXCEPT ![id] = now]
  /\ \/ /\ stored' = [stored EXCEPT ![id].status = "ENDED"]
        /\ \E known \in BOOLEAN :
             NameSeller(known) /\ removeFromIndices(id, auction_items_[id].offer, known)
     \/ /\ stored' \in {stored, [stored EXCEPT ![id].status = "ENDED"]}
        /\ faults < MaxFaults /\ faults' = faults + 1
        /\ UNCHANGED indices
  /\ UNCHANGED <<running, next_auction_id_, cache, now, answer, restarts>>

-----------------------------------------------------------------------------
(* searchItems.                                                            *)

(* SearchCriteria::hash takes one number after the other, a character like *)
(* any other: nothing says where a string ends.  It covers neither page    *)
(* nor items_per_page.                                                     *)
Characters(c) ==
  Chars[c.keyword] \o <<c.min, c.max, c.type>> \o Chars[c.seller] \o Chars[c.by] \o Chars[c.dir]
hashWithoutPrices(c) == Characters([c EXCEPT !.min = 0, !.max = 0])  \* mutant: prices are not hashed
hash(c) == Characters(c)

isPopularSearch(c) == c.keyword # Unset \/ c.type # 0

Active(id) == auction_items_[id].status = "ACTIVE"

MatchesOffer(i, c) ==
  /\ i.price >= c.min
  /\ c.max > 0 => i.price <= c.max
  /\ c.type # 0 => i.type = c.type
  /\ c.seller # Unset => i.seller = c.seller
  /\ c.keyword # Unset => c.keyword \in Substrings[i.name]

matchesCriteria(id, c) == Active(id) /\ MatchesOffer(auction_items_[id].offer, c)

(* The ids that the most selective usable index gives; with max_price      *)
(* below min_price the loop over price_index_ starts behind its end.       *)
BySeller(c) == Bucket(seller_index_, c.seller)
ByPrice(c)  == UNION {price_index_[p] : p \in {q \in DOMAIN price_index_ : c.min <= q /\ q <= c.max}}

UseKeyword(c) == c.keyword # Unset /\ c.keyword \in DOMAIN keyword_index_
UseType(c)    == ~UseKeyword(c) /\ c.type # 0 /\ c.type \in DOMAIN item_type_index_
UseSeller(c)  == ~UseKeyword(c) /\ ~UseType(c) /\ c.seller # Unset
UsePrice(c)   == ~UseKeyword(c) /\ ~UseType(c) /\ c.seller = Unset /\ c.max > 0

Candidates(c) ==
  IF UseKeyword(c) THEN keyword_index_[c.keyword]
  ELSE IF UseType(c) THEN item_type_index_[c.type]
  ELSE IF UseSeller(c) THEN BySeller(c)
  ELSE IF UsePrice(c) THEN ByPrice(c)
  ELSE {id \in DOMAIN auction_items_ : Active(id)}

RunsPastTheEnd(c) ==
  UsePrice(c) /\ \E p \in DOMAIN price_index_ : c.max < p /\ p < c.min

Found(c) == {id \in Candidates(c) : matchesCriteria(id, c)}

(* What the filter keeps: it asks for the seller's name once per listing,  *)
(* and drops a listing whose seller's name cannot be read.                 *)
Filtered(c) ==
  IF c.seller = Unset THEN {Found(c)} ELSE {Found(c) \ lost : lost \in SUBSET Found(c)}

(* Results come in the order of their ids, and stay so when sort_by is     *)
(* none of the three keys.  std::sort is not stable: any order of equal    *)
(* keys is a result.                                                       *)
SortKey(id, by) ==
  CASE by = "price" -> auction_items_[id].offer.price
    [] by = "time"  -> auction_items_[id].registered
    [] by = "name"  -> Rank[auction_items_[id].offer.name]
    [] OTHER        -> id
Descending(c) == c.dir = "desc" /\ c.by \in {"price", "time", "name"}

Sorted(r, c) ==
  \A m, n \in DOMAIN r : m < n =>
    LET x == SortKey(r[m], c.by)
        y == SortKey(r[n], c.by)
    IN  IF Descending(c) THEN x >= y ELSE x <= y
sortResults(ids, c) == {r \in SetToSeqs(ids) : Sorted(r, c)}

(* page and items_per_page are uint32_t, and so is their product.          *)
applyPagination(r, page, per) ==
  IF r = <<>> \/ per = 0 THEN r
  ELSE LET p     == IF page < 1 THEN 1 ELSE page
           start == ((p - 1) * per) % (MaxUint32 + 1)
       IN  IF start >= Len(r) THEN <<>>
           ELSE SubSeq(r, start + 1, IF start + per <= Len(r) THEN start + per ELSE Len(r))

Cached(c) == isPopularSearch(c) /\ hash(c) \in DOMAIN cache

AnswerFromCacheAndRenew(c) ==                     \* mutant: a hit renews the entry
  /\ Cached(c)
  /\ answer' = [to |-> c, ids |-> cache[hash(c)].ids, cached |-> TRUE]
  /\ cache' = [cache EXCEPT ![hash(c)].until = now + TTL]
  /\ UNCHANGED <<running, auction_items_, stored, next_auction_id_, indices, now, endedAt, faults, restarts>>
AnswerFromCache(c) ==
  /\ Cached(c)
  /\ answer' = [to |-> c, ids |-> cache[hash(c)].ids, cached |-> TRUE]
  /\ UNCHANGED <<running, auction_items_, stored, next_auction_id_, indices, cache, now, endedAt, faults, restarts>>

(* A Redis error while reading counts as a miss, while writing it is       *)
(* ignored.                                                                *)
AnswerFromIndices(c) ==
  /\ ~RunsPastTheEnd(c)
  /\ \E getFails, setFails \in BOOLEAN, results \in Filtered(c) :
       /\ getFails <=> Cached(c)
       /\ setFails => isPopularSearch(c)
       /\ IF getFails \/ setFails \/ results # Found(c)
          THEN faults < MaxFaults /\ faults' = faults + 1
          ELSE UNCHANGED faults
       /\ \E r \in sortResults(results, c) :
            LET page == applyPagination(r, c.page, c.per)
            IN  /\ answer' = [to |-> c, ids |-> page, cached |-> FALSE]
                /\ cache' = IF isPopularSearch(c) /\ ~setFails
                            THEN Put(cache, hash(c), [ids |-> page, until |-> now + TTL])
                            ELSE cache
  /\ UNCHANGED <<running, auction_items_, stored, next_auction_id_, indices, now, endedAt, restarts>>

(* Iterating a std::map past its end is undefined: the search never        *)
(* answers, and the process hangs with mutex_ held, or dies.               *)
RunPastTheEnd(c) ==
  /\ RunsPastTheEnd(c)
  /\ running' = FALSE
  /\ UNCHANGED <<auction_items_, stored, next_auction_id_, indices, cache, now, answer, endedAt, faults, restarts>>

searchItems(c) ==
  /\ running
  /\ AnswerFromCache(c) \/ AnswerFromIndices(c) \/ RunPastTheEnd(c)

-----------------------------------------------------------------------------
(* The listings that DatabaseManager reads from the collection, in which   *)
(* ids grow in the order of insertion; a limit of 0 is no limit.  No       *)
(* document has the field `views' that getPopularItems sorts by.           *)
InIdOrder(ids) == CHOOSE r \in SetToSeqs(ids) : \A m, n \in DOMAIN r : m < n => r[m] < r[n]
First(r, count) == IF count = 0 \/ count >= Len(r) THEN r ELSE SubSeq(r, 1, count)

CategoryOfAnyStatus(type, count) ==               \* mutant: the status is not in the filter
  First(InIdOrder({id \in DOMAIN stored : stored[id].offer.type = type}), count)
getItemsByCategory(type, count) ==
  First(InIdOrder({id \in DOMAIN stored :
                     stored[id].status = "ACTIVE" /\ stored[id].offer.type = type}), count)

getPopularItems(count) ==
  {First(r, count) : r \in SetToSeqs({id \in DOMAIN stored : stored[id].status = "ACTIVE"})}

-----------------------------------------------------------------------------
(* A restart: the constructor loads the collection and calls updateIndices *)
(* for each listing, but not indexItemKeywords.                            *)
Buckets(ids, keyOf) == [k \in {keyOf[id] : id \in ids} |-> {id \in ids : keyOf[id] = k}]

Restart ==
  /\ restarts < MaxRestarts
  /\ restarts' = restarts + 1
  /\ running' = TRUE
  /\ auction_items_' = stored
  /\ next_auction_id_' = 1 + Max({0} \cup DOMAIN stored)
  /\ endedAt' = [id \in DOMAIN stored |-> IF stored[id].status = "ACTIVE" THEN Never ELSE endedAt[id]]
  /\ LET live   == {id \in DOMAIN stored : stored[id].status = "ACTIVE"}
         offer  == [id \in live |-> stored[id].offer]
     IN  /\ item_type_index_' = Buckets(live, [id \in live |-> offer[id].type])
         /\ price_index_' = Buckets(live, [id \in live |-> offer[id].price])
         /\ \E known \in SUBSET live :
              /\ faults' = faults + Cardinality(live \ known)
              /\ faults' <= MaxFaults
              /\ seller_index_' = Buckets(known, [id \in live |-> offer[id].seller])
  /\ keyword_index_' = Empty
  /\ UNCHANGED <<stored, cache, now, answer>>

(* A second passes, and Redis drops what reached its time to live.         *)
Tick ==
  /\ now < MaxTime
  /\ now' = now + 1
  /\ cache' = [k \in {x \in DOMAIN cache : cache[x].until > now'} |-> cache[k]]
  /\ UNCHANGED <<running, auction_items_, stored, next_auction_id_, indices, answer, endedAt, faults, restarts>>

Next ==
  \/ \E i \in Catalog : registerItem(i)
  \/ \E id \in Ids : EndListing(id)
  \/ \E c \in Criteria : searchItems(c)
  \/ Restart
  \/ Tick

Spec == Init /\ [][Next]_vars

-----------------------------------------------------------------------------
TypeOK ==
  /\ DOMAIN auction_items_ \subseteq Ids
  /\ \A id \in DOMAIN auction_items_ : /\ auction_items_[id].offer \in Catalog
                                       /\ auction_items_[id].status \in {"ACTIVE", "ENDED"}
  /\ DOMAIN auction_items_ \subseteq DOMAIN stored
  /\ \A id \in DOMAIN stored : id < next_auction_id_
  /\ \A f \in {item_type_index_, seller_index_, price_index_, keyword_index_} :
       \A k \in DOMAIN f : f[k] # {} /\ f[k] \subseteq DOMAIN auction_items_
  /\ \A k \in DOMAIN cache : cache[k].until \in now + 1 .. now + TTL

Reference(c) == {id \in DOMAIN auction_items_ : matchesCriteria(id, c)}

(* Whichever index searchItems chooses, a search without a keyword misses  *)
(* nothing, across restarts and failed writes; a failed look-up of a       *)
(* seller's name hides one listing, from searches by seller only.          *)
IndexedSearchExact ==
  \A c \in Probes : c.keyword = Unset /\ ~RunsPastTheEnd(c) =>
    LET missed == Reference(c) \ Found(c)
    IN  /\ c.seller = Unset => missed = {}
        /\ Cardinality(missed) <= faults

(* A listing is found under each word of its name as long as the process   *)
(* that registered it runs, and after a restart as long as no later        *)
(* listing brings the word back into the keyword index.                    *)
OwnWordsFound ==
  \A c \in Probes, id \in DOMAIN auction_items_ :
    /\ c.keyword \in Words[auction_items_[id].offer.name]
    /\ matchesCriteria(id, c)
    /\ restarts = 0 \/ c.keyword \notin DOMAIN keyword_index_
    /\ c.seller = Unset \/ faults = 0
    => id \in Found(c)

(* A keyword that no indexed listing has as a word is looked for in every  *)
(* name: removing the last listing of a word brings the full search back.  *)
KeywordFallback ==
  \A c \in Probes :
    /\ c.keyword # Unset
    /\ \A id \in DOMAIN auction_items_ :
         Active(id) => c.keyword \notin Words[auction_items_[id].offer.name]
    /\ ~RunsPastTheEnd(c)
    /\ faults = 0
    => Found(c) = Reference(c)

(* The two ways to list a category agree: what AuctionHouse has on sale in *)
(* memory is what DatabaseManager lists from the collection, which lists   *)
(* more only after a write that failed; and a popular item is one of them. *)
CategoriesAgree ==
  LET onSale == {id \in DOMAIN auction_items_ : Active(id)}
      listed == [t \in {i.type : i \in Catalog} |-> ToSet(getItemsByCategory(t, 0))]
  IN  /\ \A id \in onSale : id \in listed[auction_items_[id].offer.type]
      /\ faults = 0 => UNION {listed[t] : t \in DOMAIN listed} = onSale
      /\ \A r \in getPopularItems(1) : ToSet(r) \subseteq UNION {listed[t] : t \in DOMAIN listed}

(* An answer, cached or not, across restarts, holds only listings that     *)
(* were on sale less than TTL ago.                                         *)
AnswersAtMostTTLOld ==
  [][\A c \in Criteria : answer' # answer /\ answer'.to = c =>
       \A n \in DOMAIN answer'.ids :
         LET id == answer'.ids[n]
         IN  endedAt[id] = Never \/ now - endedAt[id] < TTL]_vars

(* An answer has what was asked for, in the order asked for; one from the  *)
(* cache answers a question whose fields, written one after the other,     *)
(* read the same.                                                          *)
Answers(ids, c) ==
  /\ \A n \in DOMAIN ids : MatchesOffer(auction_items_[ids[n]].offer, c)
  /\ Sorted(ids, c)

AnswersMatchTheQuery ==
  answer # NoAnswer =>
    \E c \in Criteria : /\ Characters(c) = Characters(answer.to)
                        /\ ~answer.cached => c = answer.to
                        /\ Answers(answer.ids, c)

(* What the comments of SearchCriteria and applyPagination say: page is    *)
(* the number of the page, and past the last page there is nothing.        *)
PastTheLastPageNothing ==
  [][answer' # answer /\ answer'.to.per > 0 /\ answer'.to.page > 1
     /\ (answer'.to.page - 1) * answer'.to.per >= Cardinality(DOMAIN auction_items_)
     => answer'.ids = <<>>]_vars
=============================================================================
