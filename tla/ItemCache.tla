------------------------------ MODULE ItemCache ------------------------------
(***************************************************************************)
(* The cache of single listings in DatabaseManager                         *)
(* (src/DatabaseManager.cpp): getAuctionItem answers from the Redis key    *)
(* item:<id>, or from the collection, and then files what it read;         *)
(* updateAuctionItem and deleteAuctionItem write the collection and then   *)
(* remove the key.                                                         *)
(*                                                                         *)
(* Each call to Redis or MongoDB is one step, and the calls of different   *)
(* threads interleave: DatabaseManager has no lock.  Only updates exclude  *)
(* each other, because AuctionHouse makes them with mutex_ held.  Redis    *)
(* and the collection survive a crash.                                     *)
(*                                                                         *)
(* A document changes in one direction only: it is registered ACTIVE,      *)
(* ends, and may be deleted; auction ids are not used again.               *)
(***************************************************************************)
EXTENDS Naturals

CONSTANTS Threads, Listings, MaxFaults, MaxCrashes   \* the last two are bounds

ASSUME CacheConstantsOK == MaxFaults \in Nat /\ MaxCrashes \in Nat

VARIABLES
  redis_available_,  \* what the ping of the constructor found
  document,          \* collection `auctions'
  cached,            \* the keys item:<id> in Redis, "NONE" if there is none
  call,              \* what each thread is doing inside DatabaseManager
  missed,            \* history: why the key of a listing may be out of date
  faults, crashes    \* history: failures so far

vars == <<redis_available_, document, cached, call, missed, faults, crashes>>

Contents == {"ACTIVE", "ENDED"}
Idle  == [at |-> "idle", op |-> "none", id |-> "none", item |-> "NONE"]
Calls == [at : {"find", "fill", "del"}, op : {"get", "update", "delete"},
          id : Listings, item : Contents \cup {"NONE"}] \cup {Idle}
Causes == {"late fill", "unacked", "thrown", "crash", "offline"}

Init ==
  /\ redis_available_ \in BOOLEAN
  /\ document = [l \in Listings |-> "NONE"]
  /\ cached = [l \in Listings |-> "NONE"]
  /\ call = [t \in Threads |-> Idle]
  /\ missed = [l \in Listings |-> {}]
  /\ faults = 0
  /\ crashes = 0

-----------------------------------------------------------------------------
Return(t)  == call' = [call EXCEPT ![t] = Idle]
Goto(t, c) == call' = [call EXCEPT ![t] = c]
Fail == faults < MaxFaults /\ faults' = faults + 1

(* The key is removed, and with it every reason why it was out of date.    *)
Forget(l) == /\ cached' = [cached EXCEPT ![l] = "NONE"]
             /\ missed' = [missed EXCEPT ![l] = {}]
Blame(l, cause) == missed' = [missed EXCEPT ![l] = @ \cup {cause}]

(* saveAuctionItem does not touch the cache.                               *)
saveAuctionItem(l) ==
  /\ document[l] = "NONE"
  /\ document' = [document EXCEPT ![l] = "ACTIVE"]
  /\ UNCHANGED <<redis_available_, cached, call, missed, faults, crashes>>

-----------------------------------------------------------------------------
(* getAuctionItem.  Every exception is caught, and then answers nullopt.   *)

LookUp(t, l) ==
  /\ call[t] = Idle
  /\ \/ /\ redis_available_ /\ cached[l] # "NONE"
        /\ UNCHANGED <<call, faults>>                       \* answers cached[l]
     \/ /\ redis_available_ => cached[l] = "NONE"
        /\ Goto(t, [at |-> "find", op |-> "get", id |-> l, item |-> "NONE"])
        /\ UNCHANGED faults
     \/ redis_available_ /\ Fail /\ UNCHANGED call          \* answers nullopt
  /\ UNCHANGED <<redis_available_, document, cached, missed, crashes>>

FindOneAbsent(t) ==                               \* mutant: also files what is not there
  /\ call[t].at = "find"
  /\ redis_available_
  /\ Goto(t, [call[t] EXCEPT !.at = "fill", !.item = document[call[t].id]])
  /\ UNCHANGED <<redis_available_, document, cached, missed, faults, crashes>>
FindOne(t) ==
  /\ call[t].at = "find"
  /\ LET item == document[call[t].id]
     IN  \/ /\ item \in Contents /\ redis_available_
            /\ Goto(t, [call[t] EXCEPT !.at = "fill", !.item = item])
            /\ UNCHANGED faults
         \/ /\ item \in Contents => ~redis_available_
            /\ Return(t) /\ UNCHANGED faults
         \/ Fail /\ Return(t)
  /\ UNCHANGED <<redis_available_, document, cached, missed, crashes>>

(* setex replaces whatever the key holds by what this thread read.         *)
Refresh(l, item) ==
  /\ cached' = [cached EXCEPT ![l] = item]
  /\ missed' = [missed EXCEPT ![l] = IF item = document[l] THEN {} ELSE {"late fill"}]

Fill(t) ==
  /\ call[t].at = "fill"
  /\ \/ Refresh(call[t].id, call[t].item) /\ UNCHANGED faults
     \/ Fail /\ Refresh(call[t].id, call[t].item)           \* answers nullopt
     \/ Fail /\ UNCHANGED <<cached, missed>>                \* answers nullopt
  /\ Return(t)
  /\ UNCHANGED <<redis_available_, document, crashes>>
-----------------------------------------------------------------------------
(* updateAuctionItem and deleteAuctionItem: the write, then the del.  An   *)
(* exception of MongoDB ends the call between the two, also when the write *)
(* took effect; an exception of Redis escapes to the caller.               *)

Written(op, l) ==
  CASE op = "delete" -> "DELETED"
    [] document[l] = "ACTIVE" -> "ENDED"
    [] OTHER -> document[l]                                 \* nothing matches the filter

(* A process that found no Redis when it started never removes a key.      *)
NextAfterWriteReturns(t, op, l) == Return(t) /\ UNCHANGED missed   \* mutant: no del
NextAfterWrite(t, op, l) ==
  \/ /\ redis_available_
     /\ Goto(t, [at |-> "del", op |-> op, id |-> l, item |-> "NONE"])
     /\ UNCHANGED missed
  \/ ~redis_available_ /\ Return(t) /\ Blame(l, "offline")

Write(t, op, l) ==
  /\ call[t] = Idle
  /\ \/ /\ document' = [document EXCEPT ![l] = Written(op, l)]
        /\ NextAfterWrite(t, op, l)
        /\ UNCHANGED faults
     \/ /\ Fail /\ Return(t)
        /\ document' = [document EXCEPT ![l] = Written(op, l)]
        /\ Blame(l, "unacked")
     \/ Fail /\ Return(t) /\ UNCHANGED <<document, missed>>
  /\ UNCHANGED <<redis_available_, cached, crashes>>

Updating == \E t \in Threads : call[t].op = "update"
updateAuctionItem(t, l) == document[l] \in {"ACTIVE", "DELETED"} /\ ~Updating /\ Write(t, "update", l)
deleteAuctionItem(t, l) == document[l] # "NONE" /\ Write(t, "delete", l)

Del(t) ==
  /\ call[t].at = "del"
  /\ \/ Forget(call[t].id) /\ UNCHANGED faults
     \/ Fail /\ Forget(call[t].id)
     \/ Fail /\ Blame(call[t].id, "thrown") /\ UNCHANGED cached
  /\ Return(t)
  /\ UNCHANGED <<redis_available_, document, crashes>>

-----------------------------------------------------------------------------
(* Redis drops a key 300 seconds after its setex, or earlier when it needs *)
(* the memory; the process dies, and its successor looks for Redis again.  *)

ExpireNever(l) == FALSE /\ UNCHANGED vars         \* mutant: set without a time to live
Expire(l) ==
  /\ cached[l] # "NONE"
  /\ Forget(l)
  /\ UNCHANGED <<redis_available_, document, call, faults, crashes>>

Crash ==
  /\ crashes < MaxCrashes
  /\ crashes' = crashes + 1
  /\ redis_available_' \in BOOLEAN
  /\ call' = [t \in Threads |-> Idle]
  /\ missed' = [l \in Listings |->
       IF \E t \in Threads : call[t].at = "del" /\ call[t].id = l
       THEN missed[l] \cup {"crash"} ELSE missed[l]]
  /\ UNCHANGED <<document, cached, faults>>

Inside(t) == FindOne(t) \/ Fill(t) \/ Del(t)

Next ==
  \/ \E l \in Listings : saveAuctionItem(l) \/ Expire(l)
  \/ \E t \in Threads : Inside(t)
  \/ \E t \in Threads, l \in Listings :
       LookUp(t, l) \/ updateAuctionItem(t, l) \/ deleteAuctionItem(t, l)
  \/ Crash

Spec == Init /\ [][Next]_vars

(* Synchronous calls return, and Redis drops what has expired.             *)
FairSpec ==
  Spec /\ (\A t \in Threads : WF_vars(Inside(t))) /\ (\A l \in Listings : WF_vars(Expire(l)))

-----------------------------------------------------------------------------
TypeOK ==
  /\ redis_available_ \in BOOLEAN
  /\ document \in [Listings -> Contents \cup {"NONE", "DELETED"}]
  /\ cached \in [Listings -> Contents \cup {"NONE"}]
  /\ call \in [Threads -> Calls]
  /\ missed \in [Listings -> SUBSET Causes]
  /\ faults \in 0 .. MaxFaults
  /\ crashes \in 0 .. MaxCrashes

Stale(l) == cached[l] \notin {"NONE", document[l]}

(* The ways a key can say something else than the collection are these     *)
(* and no others: the writer has not come to its del yet, it failed or     *)
(* died before the del took effect, its process does without Redis, or a   *)
(* getAuctionItem that read before the write filed the listing after the   *)
(* del.                                                                    *)
StaleHasCause ==
  \A l \in Listings : Stale(l) =>
    \/ missed[l] # {}
    \/ \E t \in Threads : call[t].at = "del" /\ call[t].id = l

(* Whatever went wrong, and however many threads read in the meantime, the *)
(* key of a listing ends up telling what the collection says, for good.    *)
FreshAgain == \A l \in Listings : <>[]~Stale(l)
=============================================================================
