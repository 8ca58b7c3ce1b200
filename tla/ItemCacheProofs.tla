--------------------------- MODULE ItemCacheProofs ---------------------------
(***************************************************************************)
(* Proofs about ItemCache, for any number of threads, listings, failures   *)
(* and crashes.                                                            *)
(***************************************************************************)
EXTENDS ItemCache, TLAPS

(* A cause is added to what is known of one listing.                       *)
LEMMA BlameType ==
  ASSUME TypeOK, NEW l \in Listings, NEW cause \in Causes, Blame(l, cause)
  PROVE  missed' \in [Listings -> SUBSET Causes]
<1>1. missed[l] \cup {cause} \in SUBSET Causes
  BY DEF TypeOK
<1> QED
  BY <1>1 DEF Blame, TypeOK

(* A step of any thread keeps the types.                                   *)
LEMMA TypeStep == TypeOK /\ [Next]_vars => TypeOK'
<1> SUFFICES ASSUME TypeOK, [Next]_vars PROVE TypeOK'
  OBVIOUS
<1> USE CacheConstantsOK
<1>1. ASSUME NEW l \in Listings, saveAuctionItem(l) PROVE TypeOK'
  BY <1>1 DEF TypeOK, saveAuctionItem, Contents
<1>2. ASSUME NEW l \in Listings, Expire(l) PROVE TypeOK'
  BY <1>2 DEF TypeOK, Expire, Forget
<1>3. ASSUME NEW t \in Threads, FindOne(t) PROVE TypeOK'
  <2>1. call[t] \in Calls
    BY DEF TypeOK
  <2>2. Idle \in Calls
    BY DEF Calls
  <2>3. call' \in [Threads -> Calls]
    <3>1. CASE call' = [call EXCEPT ![t] = Idle]
      BY <3>1, <2>2 DEF TypeOK
    <3>2. CASE \E item \in Contents : call' = [call EXCEPT ![t] = [call[t] EXCEPT !.at = "fill", !.item = item]]
      <4>1. PICK item \in Contents : call' = [call EXCEPT ![t] = [call[t] EXCEPT !.at = "fill", !.item = item]]
        BY <3>2
      <4>2. call[t] # Idle
        BY <1>3 DEF FindOne, Idle
      <4>3. call[t] \in [at : {"find", "fill", "del"}, op : {"get", "update", "delete"},
                          id : Listings, item : Contents \cup {"NONE"}]
        BY <2>1, <4>2 DEF Calls
      <4>4. [call[t] EXCEPT !.at = "fill", !.item = item] \in Calls
        BY <4>3 DEF Calls
      <4> QED
        BY <4>1, <4>4 DEF TypeOK
    <3> QED BY <1>3, <3>1, <3>2 DEF FindOne, Return, Goto
  <2>4. faults' \in 0 .. MaxFaults
    BY <1>3 DEF FindOne, Fail, TypeOK
  <2> QED
    BY <1>3, <2>3, <2>4 DEF FindOne, TypeOK
<1>4. ASSUME NEW t \in Threads, Fill(t) PROVE TypeOK'
  <2>1. call[t] \in Calls /\ call[t].at = "fill"
    BY <1>4 DEF TypeOK, Fill
  <2>2. call[t].id \in Listings /\ call[t].item \in Contents \cup {"NONE"} /\ Idle \in Calls
    BY <2>1 DEF Calls, Idle
  <2>3. cached' \in [Listings -> Contents \cup {"NONE"}]
    BY <1>4, <2>2 DEF Fill, Refresh, TypeOK
  <2>5. {} \in SUBSET Causes /\ {"late fill"} \in SUBSET Causes
    BY DEF Causes
  <2>6. missed' \in [Listings -> SUBSET Causes]
    <3>1. CASE UNCHANGED missed
      BY <3>1 DEF TypeOK
    <3>2. CASE Refresh(call[t].id, call[t].item)
      BY <2>5, <3>2 DEF Refresh, TypeOK
    <3> QED
      BY <1>4, <3>1, <3>2 DEF Fill
  <2>4. faults' \in 0 .. MaxFaults /\ call' \in [Threads -> Calls]
    BY <1>4, <2>2 DEF Fill, Fail, Return, TypeOK
  <2> QED
    BY <1>4, <2>3, <2>4, <2>6 DEF Fill, TypeOK
<1>5. ASSUME NEW t \in Threads, Del(t) PROVE TypeOK'
  <2>1. call[t] \in Calls /\ call[t].at = "del"
    BY <1>5 DEF TypeOK, Del
  <2>2. call[t].id \in Listings /\ Idle \in Calls
    BY <2>1 DEF Calls, Idle
  <2>3. cached' \in [Listings -> Contents \cup {"NONE"}]
    BY <1>5, <2>2 DEF Del, Forget, TypeOK
  <2>5. "thrown" \in Causes /\ {} \in SUBSET Causes
    BY DEF Causes
  <2>6. missed' \in [Listings -> SUBSET Causes]
    BY <1>5, <2>2, <2>5, BlameType DEF Del, Forget, TypeOK
  <2>4. faults' \in 0 .. MaxFaults /\ call' \in [Threads -> Calls]
    BY <1>5, <2>2 DEF Del, Fail, Return, TypeOK
  <2> QED
    BY <1>5, <2>3, <2>4, <2>6 DEF Del, TypeOK
<1>6. ASSUME NEW t \in Threads, NEW l \in Listings, LookUp(t, l) PROVE TypeOK'
  <2>1. [at |-> "find", op |-> "get", id |-> l, item |-> "NONE"] \in Calls
    BY DEF Calls
  <2>2. faults' \in 0 .. MaxFaults /\ call' \in [Threads -> Calls]
    BY <1>6, <2>1 DEF LookUp, Fail, Goto, TypeOK
  <2> QED
    BY <1>6, <2>2 DEF LookUp, TypeOK
<1>7. ASSUME NEW t \in Threads, NEW l \in Listings, NEW op \in {"update", "delete"}, Write(t, op, l)
      PROVE  TypeOK'
  <2>1. [at |-> "del", op |-> op, id |-> l, item |-> "NONE"] \in Calls /\ Idle \in Calls
    BY DEF Calls
  <2>2. faults' \in 0 .. MaxFaults /\ call' \in [Threads -> Calls]
    BY <1>7, <2>1 DEF Write, NextAfterWrite, Fail, Return, Goto, TypeOK
  <2>3. Written(op, l) \in Contents \cup {"NONE", "DELETED"}
    BY DEF Written, TypeOK, Contents
  <2>4. document' \in [Listings -> Contents \cup {"NONE", "DELETED"}]
    BY <1>7, <2>3 DEF Write, TypeOK
  <2>5. missed' \in [Listings -> SUBSET Causes]
    <3>1. "offline" \in Causes /\ "unacked" \in Causes
      BY DEF Causes
    <3> QED
      BY <1>7, <3>1, BlameType DEF Write, NextAfterWrite, TypeOK
  <2> QED
    BY <1>7, <2>2, <2>4, <2>5 DEF Write, TypeOK
<1>8. ASSUME Crash PROVE TypeOK'
  <2>1. Idle \in Calls
    BY DEF Calls
  <2>2. \A l \in Listings : missed[l] \cup {"crash"} \in SUBSET Causes
    BY DEF TypeOK, Causes
  <2>3. missed' \in [Listings -> SUBSET Causes]
    BY <1>8, <2>2 DEF Crash, TypeOK
  <2> QED
    BY <1>8, <2>1, <2>3 DEF Crash, TypeOK
<1>9. CASE UNCHANGED vars
  BY <1>9 DEF vars, TypeOK
<1> QED
  BY <1>1, <1>2, <1>3, <1>4, <1>5, <1>6, <1>7, <1>8, <1>9
  DEF Next, Inside, updateAuctionItem, deleteAuctionItem

(* Every variable of the cache keeps its type; in particular a key never   *)
(* holds anything but a listing the collection had.                        *)
THEOREM TypeCorrect == Spec => []TypeOK
<1>1. Init => TypeOK
  <2>1. Idle \in Calls
    BY DEF Calls
  <2> QED
    BY <2>1, CacheConstantsOK DEF Init, TypeOK
<1> QED
  BY <1>1, TypeStep, PTL DEF Spec

-----------------------------------------------------------------------------
(* Why the key of listing k may be out of date.                            *)
Excused(k) == \/ missed[k] # {}
              \/ \E t \in Threads : call[t].at = "del" /\ call[t].id = k

(* Whoever has a reason for a stale key keeps it, or hands it to missed,   *)
(* or removes the key.                                                     *)
LEMMA StaleStep == TypeOK /\ StaleHasCause /\ [Next]_vars => StaleHasCause'
<1> SUFFICES ASSUME TypeOK, StaleHasCause, [Next]_vars, NEW k \in Listings, Stale(k)'
             PROVE  Excused(k)'
  BY DEF StaleHasCause, Excused
<1>a. Stale(k) => Excused(k)
  BY DEF StaleHasCause, Excused
<1>1. ASSUME NEW l \in Listings, saveAuctionItem(l) PROVE Excused(k)'
  BY <1>1, <1>a DEF saveAuctionItem, Stale, Excused, TypeOK
<1>2. ASSUME NEW l \in Listings, Expire(l) PROVE Excused(k)'
  BY <1>2, <1>a DEF Expire, Forget, Stale, Excused, TypeOK
<1>3. ASSUME NEW t \in Threads, call[t].at # "del", NEW c, Goto(t, c), UNCHANGED <<document, cached, missed>>
      PROVE  Excused(k)'
  BY <1>3, <1>a DEF Goto, Stale, Excused, TypeOK
<1>4. ASSUME NEW t \in Threads, FindOne(t) PROVE Excused(k)'
  BY <1>3, <1>4 DEF FindOne, Goto, Return
<1>5. ASSUME NEW t \in Threads, Fill(t) PROVE Excused(k)'
  <2>1. CASE UNCHANGED <<cached, missed>>
    BY <1>3, <1>5, <2>1 DEF Fill, Return, Goto
  <2>2. CASE Refresh(call[t].id, call[t].item)
    <3>1. CASE k = call[t].id
      BY <1>5, <2>2, <3>1 DEF Fill, Refresh, Stale, Excused, TypeOK
    <3>2. CASE k # call[t].id
      BY <1>5, <1>a, <2>2, <3>2 DEF Fill, Refresh, Return, Stale, Excused, TypeOK
    <3> QED
      BY <3>1, <3>2
  <2> QED
    BY <1>5, <2>1, <2>2 DEF Fill
<1>6. ASSUME NEW t \in Threads, Del(t) PROVE Excused(k)'
  <2>1. CASE k = call[t].id
    BY <1>6, <2>1 DEF Del, Forget, Blame, Stale, Excused, TypeOK
  <2>2. CASE k # call[t].id
    BY <1>6, <1>a, <2>2 DEF Del, Forget, Blame, Return, Stale, Excused, TypeOK
  <2> QED
    BY <2>1, <2>2
<1>7. ASSUME NEW t \in Threads, NEW l \in Listings, LookUp(t, l) PROVE Excused(k)'
  <2>1. CASE UNCHANGED call
    BY <1>7, <1>a, <2>1 DEF LookUp, Stale, Excused
  <2>2. CASE \E c : Goto(t, c)
    BY <1>3, <1>7, <2>2 DEF LookUp, Idle
  <2> QED
    BY <1>7, <2>1, <2>2 DEF LookUp
<1>8. ASSUME NEW t \in Threads, NEW l \in Listings, NEW op \in {"update", "delete"}, Write(t, op, l)
      PROVE  Excused(k)'
  <2>1. CASE k # l \/ UNCHANGED document
    <3>1. Stale(k)
      BY <1>8, <2>1 DEF Write, Stale, TypeOK
    <3>2. missed[k] # {} => missed'[k] # {}
      BY <1>8 DEF Write, NextAfterWrite, Blame, TypeOK
    <3>3. \A d \in Threads : call[d].at = "del" => call'[d] = call[d]
      BY <1>8 DEF Write, NextAfterWrite, Return, Goto, Idle, TypeOK
    <3> QED
      BY <1>a, <3>1, <3>2, <3>3 DEF Excused
  <2>2. CASE k = l /\ ~UNCHANGED document
    <3>1. CASE Goto(t, [at |-> "del", op |-> op, id |-> l, item |-> "NONE"])
      BY <2>2, <3>1 DEF Goto, Excused, TypeOK
    <3>2. CASE Blame(l, "offline") \/ Blame(l, "unacked")
      BY <2>2, <3>2 DEF Blame, Excused, TypeOK
    <3> QED
      BY <1>8, <2>2, <3>1, <3>2 DEF Write, NextAfterWrite
  <2> QED
    BY <2>1, <2>2
<1>9. ASSUME Crash PROVE Excused(k)'
  BY <1>9, <1>a DEF Crash, Stale, Excused, TypeOK
<1>10. CASE UNCHANGED vars
  BY <1>10, <1>a DEF vars, Stale, Excused
<1> QED
  BY <1>1, <1>2, <1>4, <1>5, <1>6, <1>7, <1>8, <1>9, <1>10
  DEF Next, Inside, updateAuctionItem, deleteAuctionItem

(* A cached listing differs from the collection only while its writer has  *)
(* not come to the del, or for one of the causes kept in missed, whatever  *)
(* the threads, failures and crashes.                                      *)
THEOREM StaleKeysExplained == Spec => []StaleHasCause
<1>1. Init => StaleHasCause
  BY DEF Init, StaleHasCause, Stale
<1> QED
  BY <1>1, TypeCorrect, StaleStep, PTL DEF Spec
=============================================================================
