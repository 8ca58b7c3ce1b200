--------------------------- MODULE MCAuctionSearch ---------------------------
(* A small catalogue for TLC: an iron sword and a swordfish, which has the *)
(* word only as a part, of two types, sellers and prices.                   *)
EXTENDS AuctionSearch

CONSTANTS iron, sword, ironSword, swordfish, lee, mrName

Offer(name, type, seller, price) == [name |-> name, type |-> type, seller |-> seller, price |-> price]
MCCatalog == {Offer(ironSword, 1, mrName, 1), Offer(swordfish, 2, lee, 2)}
MCNames == {ironSword, swordfish}
MCWords == [n \in MCNames |-> IF n = ironSword THEN {iron, sword, ironSword} ELSE {n}]
MCSubstrings == [n \in MCNames |-> IF n = swordfish THEN {sword, swordfish} ELSE MCWords[n]]
MCRank == [n \in MCNames |-> IF n = ironSword THEN 1 ELSE 2]

(* A syllable stands for its characters.                                   *)
MCChars ==
  [s \in {Unset, sword, lee, mrName, "", "price", "time", "name", "asc", "desc"} |->
     CASE s \in {Unset, ""} -> <<>>
       [] s = sword    -> <<101>>
       [] s = lee      -> <<102>>
       [] s = mrName   -> <<105>>
       [] s = "price"  -> <<103>>
       [] s = "time"   -> <<104>>
       [] s = "name"   -> <<105>>
       [] s = "asc"    -> <<106>>
       [] s = "desc"   -> <<107>>]

Search == [keyword |-> Unset, min |-> 0, max |-> 0, type |-> 0, seller |-> Unset,
           by |-> "price", dir |-> "asc", page |-> 1, per |-> 20]

(* Searches by every field, alone and with a keyword.                      *)
MCProbes ==
  {[Search EXCEPT !.keyword = k, !.type = f[1], !.seller = f[2]] :
     k \in {Unset, sword}, f \in {<<0, Unset>>, <<2, Unset>>, <<0, mrName>>}}
  \cup {[Search EXCEPT !.min = range[1], !.max = range[2]] : range \in {<<0, 1>>, <<2, 3>>}}

(* Two searches whose characters are the same, though one asks for an      *)
(* order by name, the other for a seller who is called that.               *)
ByName == [Search EXCEPT !.keyword = sword, !.by = "name", !.dir = "desc"]
SameCharacters == {ByName, [ByName EXCEPT !.seller = mrName, !.by = ""]}

(* Searches that share cache entries, or must not; the last has min above  *)
(* max.                                                                    *)
MCCriteria == SameCharacters \cup {[ByName EXCEPT !.min = 3, !.max = 1]}

(* Two pages of one search.                                                *)
PageCriteria == {[Search EXCEPT !.type = 2], [Search EXCEPT !.type = 2, !.page = 3, !.per = 1]}
=============================================================================
