----------------------- MODULE AuctionHouseMoneyProofs -----------------------
(***************************************************************************)
(* Proofs about the money behind the listings of AuctionHouse, for any     *)
(* threads, users, prices, failures and crashes: no failure and no crash   *)
(* takes money out of the system, and without failures the books balance.  *)
(***************************************************************************)
EXTENDS AuctionHouseProofs, FiniteSetTheorems

-----------------------------------------------------------------------------
(* Sums over a finite set of accounts.  Adding is the recursive function   *)
(* that SumFunctionOnSet stands for; it sums in the order that Pick gives. *)

Pick(s) == CHOOSE x \in s : TRUE
SumStep(g, f, s) == IF s = {} THEN 0 ELSE f[Pick(s)] + g[s \ {Pick(s)}]
Adding(f, S) == CHOOSE g : g = [s \in SUBSET S |-> SumStep(g, f, s)]
Upto(S, n) == {s \in SUBSET S : Cardinality(s) <= n}

LEMMA SumIsAdding == \A f, S : SumFunctionOnSet(f, S) = Adding(f, S)[S]
  BY DEF SumFunctionOnSet, FoldFunctionOnSet, MapThenFoldSet, Adding, SumStep, Pick

(* A set of natural numbers that is not empty has a least element.         *)
LEMMA Least ==
  ASSUME NEW T \in SUBSET Nat, T # {}
  PROVE  \E x \in T : \A y \in T : x <= y
<1>1. PICK x \in T : \A y \in T : ~ (<<y, x>> \in OpToRel(<, Nat))
  BY NatLessThanWellFounded, WFMin
<1>2. \A y \in T : ~ (y < x)
  BY <1>1 DEF OpToRel
<1> QED
  BY <1>2

(* What is left of a finite set without its Pick has one element less.     *)
LEMMA PickSmaller ==
  ASSUME NEW S, IsFiniteSet(S), NEW s \in SUBSET S
  PROVE  /\ Cardinality(s) \in Nat
         /\ Cardinality(s) = 0 <=> s = {}
         /\ s # {} => /\ Pick(s) \in s
                      /\ s \ {Pick(s)} \in SUBSET S
                      /\ Cardinality(s \ {Pick(s)}) = Cardinality(s) - 1
<1>1. IsFiniteSet(s)
  BY FS_Subset
<1>2. Cardinality(s) \in Nat /\ (Cardinality(s) = 0 <=> s = {})
  BY <1>1, FS_CardinalityType, FS_EmptySet
<1>3. s # {} => Pick(s) \in s
  BY DEF Pick
<1>4. s # {} => Cardinality(s \ {Pick(s)}) = Cardinality(s) - 1
  BY <1>1, <1>3, FS_RemoveElement
<1> QED
  BY <1>2, <1>3, <1>4

(* The recursion is well founded: on the subsets of up to n elements there *)
(* is a function that satisfies it, for every n.                           *)
LEMMA SumExistsUpto ==
  ASSUME NEW S, IsFiniteSet(S), NEW f, NEW n \in Nat
  PROVE  \E g : g = [s \in Upto(S, n) |-> SumStep(g, f, s)]
<1> DEFINE Has(k) == \E g : g = [s \in Upto(S, k) |-> SumStep(g, f, s)]
           T == {k \in Nat : ~Has(k)}
<1>1. SUFFICES ASSUME T # {} PROVE FALSE
  OBVIOUS
<1>2. PICK x \in T : \A y \in T : x <= y
  BY <1>1, Least
<1>3. CASE x = 0
  <2> DEFINE g == [s \in Upto(S, 0) |-> 0]
  <2>1. ASSUME NEW s \in Upto(S, 0) PROVE SumStep(g, f, s) = 0
    <3>1. s \in SUBSET S /\ Cardinality(s) <= 0
      BY DEF Upto
    <3>2. Cardinality(s) \in Nat /\ (Cardinality(s) = 0 <=> s = {})
      BY <3>1, PickSmaller
    <3> QED
      BY <3>1, <3>2 DEF SumStep
  <2>2. g = [s \in Upto(S, 0) |-> SumStep(g, f, s)]
    BY <2>1
  <2> QED
    BY <1>3, <2>2
<1>4. CASE x # 0
  <2>1. x - 1 \in Nat /\ Has(x - 1)
    <3>1. x - 1 \in Nat /\ ~(x <= x - 1)
      BY <1>4
    <3> QED
      BY <1>2, <3>1
  <2>2. PICK g : g = [s \in Upto(S, x - 1) |-> SumStep(g, f, s)]
    BY <2>1
  <2> DEFINE h == [s \in Upto(S, x) |-> SumStep(g, f, s)]
  <2>3. ASSUME NEW s \in Upto(S, x) PROVE SumStep(g, f, s) = SumStep(h, f, s)
    <3>1. CASE s = {}
      BY <3>1 DEF SumStep
    <3>2. CASE s # {}
      <4> DEFINE r == s \ {Pick(s)}
      <4>1. r \in Upto(S, x - 1) /\ r \in Upto(S, x)
        BY <3>2, PickSmaller DEF Upto
      <4> HIDE DEF r
      <4>2. g[r] = SumStep(g, f, r)
        BY <2>2, <4>1
      <4>3. h[r] = SumStep(g, f, r)
        BY <4>1
      <4> QED
        BY <3>2, <4>2, <4>3 DEF SumStep, r
    <3> QED
      BY <3>1, <3>2
  <2>4. h = [s \in Upto(S, x) |-> SumStep(h, f, s)]
    BY <2>3
  <2> QED
    BY <2>4
<1> QED
  BY <1>3, <1>4

LEMMA AddingDef ==
  ASSUME NEW S, IsFiniteSet(S), NEW f
  PROVE  Adding(f, S) = [s \in SUBSET S |-> SumStep(Adding(f, S), f, s)]
<1>1. Upto(S, Cardinality(S)) = SUBSET S
  BY FS_Subset DEF Upto
<1>2. Cardinality(S) \in Nat
  BY FS_CardinalityType
<1>3. \E g : g = [s \in Upto(S, Cardinality(S)) |-> SumStep(g, f, s)]
  BY <1>2, SumExistsUpto
<1>4. \E g : g = [s \in SUBSET S |-> SumStep(g, f, s)]
  BY <1>1, <1>3
<1> QED
  BY <1>4 DEF Adding

(* Two balances that differ in one account have sums that differ by as     *)
(* much.                                                                   *)
LEMMA AddingChanges ==
  ASSUME NEW S, IsFiniteSet(S), NEW f \in [S -> Int], NEW h \in [S -> Int], NEW u \in S,
         \A x \in S \ {u} : h[x] = f[x]
  PROVE  \A s \in SUBSET S :
           /\ Adding(f, S)[s] \in Int
           /\ Adding(h, S)[s] = Adding(f, S)[s] + (IF u \in s THEN h[u] - f[u] ELSE 0)
<1> DEFINE A == Adding(f, S)
           B == Adding(h, S)
           Good(s) == A[s] \in Int /\ B[s] = A[s] + (IF u \in s THEN h[u] - f[u] ELSE 0)
           T == {k \in Nat : \E s \in SUBSET S : Cardinality(s) = k /\ ~Good(s)}
<1>0. A = [s \in SUBSET S |-> SumStep(A, f, s)] /\ B = [s \in SUBSET S |-> SumStep(B, h, s)]
  BY AddingDef
<1> HIDE DEF A, B
<1>1. \A s \in SUBSET S : A[s] = SumStep(A, f, s) /\ B[s] = SumStep(B, h, s)
  <2> TAKE s \in SUBSET S
  <2> DEFINE a(x) == SumStep(A, f, x)
             b(x) == SumStep(B, h, x)
  <2>1. A = [x \in SUBSET S |-> a(x)] /\ B = [x \in SUBSET S |-> b(x)]
    BY <1>0
  <2> HIDE DEF a, b
  <2>2. A[s] = a(s) /\ B[s] = b(s)
    BY <2>1
  <2> QED
    BY <2>2 DEF a, b
<1>2. SUFFICES ASSUME T # {} PROVE FALSE
  BY PickSmaller DEF A, B
<1>3. PICK x \in T : \A y \in T : x <= y
  BY <1>2, Least
<1>4. PICK s \in SUBSET S : Cardinality(s) = x /\ ~Good(s)
  OBVIOUS
<1>5. s # {}
  <2>1. CASE s = {}
    <3>1. A[s] = 0 /\ B[s] = 0 /\ u \notin s
      BY <1>1, <2>1 DEF SumStep
    <3>2. Good(s)
      BY <3>1
    <3> QED
      BY <1>4, <3>2
  <2> QED
    BY <2>1
<1> DEFINE p == Pick(s)
           r == s \ {p}
<1>6. p \in s /\ p \in S /\ r \in SUBSET S /\ Cardinality(r) = x - 1 /\ x - 1 \in Nat
  <2>1. x \in Nat /\ Cardinality(s) \in Nat /\ Cardinality(s) # 0
    BY <1>4, <1>5, PickSmaller
  <2>2. p \in s /\ r \in SUBSET S /\ Cardinality(r) = Cardinality(s) - 1
    BY <1>5, PickSmaller
  <2> QED
    BY <1>4, <2>1, <2>2
<1>7. A[s] = f[p] + A[r] /\ B[s] = h[p] + B[r]
  BY <1>1, <1>5 DEF SumStep
<1> HIDE DEF p
<1>8. Good(r)
  <2>1. ~(x <= x - 1)
    BY <1>6
  <2> QED
    BY <1>3, <1>6, <2>1
<1>9. f[p] \in Int /\ h[p] \in Int /\ f[u] \in Int /\ h[u] \in Int
  BY <1>6
<1>10. CASE p = u
  <2>1. u \notin r /\ u \in s
    BY <1>6, <1>10
  <2>2. A[r] \in Int /\ B[r] = A[r]
    BY <1>8, <2>1
  <2>3. A[s] \in Int /\ B[s] = A[s] + (h[u] - f[u])
    BY <1>7, <1>9, <1>10, <2>2
  <2> QED
    BY <1>4, <2>1, <2>3
<1>11. CASE p # u
  <2>1. u \in r <=> u \in s
    BY <1>11
  <2>2. h[p] = f[p]
    BY <1>6, <1>11
  <2>3. A[s] \in Int /\ B[s] = A[s] + (IF u \in s THEN h[u] - f[u] ELSE 0)
    BY <1>7, <1>8, <1>9, <2>1, <2>2
  <2> QED
    BY <1>4, <2>3
<1> QED
  BY <1>10, <1>11

LEMMA SumChanges ==
  ASSUME NEW S, IsFiniteSet(S), NEW f \in [S -> Int], NEW u \in S, NEW v \in Int
  PROVE  /\ SumFunction(f) \in Int
         /\ SumFunction([f EXCEPT ![u] = v]) = SumFunction(f) + (v - f[u])
<1> DEFINE h == [f EXCEPT ![u] = v]
<1>1. /\ h \in [S -> Int] /\ h[u] = v /\ \A x \in S \ {u} : h[x] = f[x]
      /\ DOMAIN h = S /\ DOMAIN f = S
  OBVIOUS
<1> HIDE DEF h
<1>2. SumFunction(f) = Adding(f, S)[S] /\ SumFunction(h) = Adding(h, S)[S]
  BY <1>1, SumIsAdding DEF SumFunction
<1>3. S \in SUBSET S
  OBVIOUS
<1>4. /\ Adding(f, S)[S] \in Int
      /\ Adding(h, S)[S] = Adding(f, S)[S] + (IF u \in S THEN h[u] - f[u] ELSE 0)
  BY <1>1, <1>3, AddingChanges
<1> QED
  BY <1>1, <1>2, <1>4 DEF h

-----------------------------------------------------------------------------
(* Money moves by exactly the amount asked for, or not at all: the check   *)
(* new_balance < 0 also refuses a sum that does not fit an int32_t.        *)
LEMMA Payment ==
  ASSUME ProcessInv, NEW u, NEW amount \in -MaxInt32 - 1 .. MaxInt32, NEW o,
         updateUserBalance(u, amount, o)
  PROVE  \/ UNCHANGED balance /\ ~BalanceUpdated(u, amount, o)
         \/ /\ u \in Accounts
            /\ balance' = [balance EXCEPT ![u] = @ + amount]
            /\ SumFunction(balance') = SumFunction(balance) + amount
<1>1. CASE BalanceAllowed(u, amount)
  <2>1. u \in Accounts /\ balance \in [Accounts -> 0 .. MaxInt32] /\ balance[u] \in 0 .. MaxInt32
    BY <1>1 DEF BalanceAllowed, ProcessInv, TypeOK
  <2>2. NewBalance(u, amount) = balance[u] + amount
    BY <1>1, <2>1, ConstantsOK DEF ConstantsOK, BalanceAllowed, NewBalance, AsInt32
  <2>3. balance \in [Accounts -> Int] /\ balance[u] + amount \in Int /\ IsFiniteSet(Accounts)
    BY <2>1, ConstantsOK DEF ConstantsOK
  <2>4. SumFunction([balance EXCEPT ![u] = balance[u] + amount])
          = SumFunction(balance) + ((balance[u] + amount) - balance[u])
        /\ SumFunction(balance) \in Int
    BY <2>1, <2>3, SumChanges
  <2>5. SumFunction([balance EXCEPT ![u] = balance[u] + amount]) = SumFunction(balance) + amount
    BY <2>1, <2>4
  <2>6. CASE o = "lost"
    BY <2>6 DEF updateUserBalance, BalanceUpdated
  <2>7. CASE o # "lost"
    BY <1>1, <2>1, <2>2, <2>5, <2>7 DEF updateUserBalance
  <2> QED
    BY <2>6, <2>7
<1>2. CASE ~BalanceAllowed(u, amount)
  BY <1>2 DEF updateUserBalance, BalanceUpdated
<1> QED
  BY <1>1, <1>2

LEMMA SumsAreNumbers ==
  ASSUME TypeOK
  PROVE  SumFunction(balance) \in Int /\ Deposits \in Int
<1>1. PICK f \in [Accounts -> Int] : f = balance
  BY ConstantsOK DEF TypeOK, ConstantsOK
<1>2. PICK g \in [Accounts -> Int] : g = InitialBalance
  BY ConstantsOK DEF ConstantsOK
<1>3. IsFiniteSet(Accounts)
  BY ConstantsOK DEF ConstantsOK
<1>4. ASSUME NEW h \in [Accounts -> Int] PROVE SumFunction(h) \in Int
  <2>1. CASE Accounts = {}
    <3>1. SumFunction(h) = Adding(h, {})[{}] /\ {} \in SUBSET {}
      BY <2>1, SumIsAdding DEF SumFunction
    <3>2. IsFiniteSet({})
      BY FS_EmptySet
    <3>3. Adding(h, {}) = [s \in SUBSET {} |-> SumStep(Adding(h, {}), h, s)]
      BY <3>2, AddingDef
    <3> DEFINE A == Adding(h, {})
    <3> HIDE DEF A
    <3>4. A = [s \in SUBSET {} |-> SumStep(A, h, s)] => A[{}] = SumStep(A, h, {})
      OBVIOUS
    <3> QED
      BY <3>1, <3>3, <3>4 DEF A, SumStep
  <2>2. CASE Accounts # {}
    <3>1. PICK u \in Accounts : TRUE
      BY <2>2
    <3> QED
      BY <1>3, <3>1, SumChanges
  <2> QED
    BY <2>1, <2>2
<1> QED
  BY <1>1, <1>2, <1>4 DEF Deposits

-----------------------------------------------------------------------------
(* MoneyInv, action by action.                                             *)

(* A step that pays nobody keeps it, unless it enters "debit" or changes   *)
(* the price of the listing that is being debited.                         *)
LEMMA NobodyPaid ==
  ASSUME MoneyInv, UNCHANGED balance,
         \A t \in Threads : call'[t].pc = "debit" =>
           /\ call[t].pc = "debit"
           /\ auction_items_'[call'[t].id].price = auction_items_[call[t].id].price
  PROVE  MoneyInv'
  BY DEF MoneyInv, Deposits

LEMMA MoneyInit == Init => MoneyInv
<1> SUFFICES ASSUME Init PROVE MoneyInv
  OBVIOUS
<1>1. balance = InitialBalance /\ \A t \in Threads : call[t].pc = "idle"
  BY DEF Init, Idle
<1>2. SumFunction(balance) \in Int
  BY TypeInit, SumsAreNumbers
<1> QED
  BY <1>1, <1>2 DEF MoneyInv, Deposits

(* The steps that leave the balances alone.                                *)
LEMMA MoneyIdleSteps ==
  ASSUME ProcessInv, MoneyInv, NEW t \in Threads, Called(t) \/ Inside(t),
         UNCHANGED balance,
         \A s \in Threads : call'[s] = call[s] \/ call'[s].pc # "debit"
  PROVE  MoneyInv'
<1>1. ASSUME NEW s \in Threads, call'[s].pc = "debit"
      PROVE  /\ call[s] = call'[s] /\ call[s] # Idle
             /\ mutex_ = s
  <2>1. call[s] = call'[s] /\ call[s] # Idle
    BY <1>1 DEF Idle
  <2> QED
    BY <2>1 DEF ProcessInv, LockInv
<1>2. ASSUME NEW s \in Threads, call'[s].pc = "debit"
      PROVE  auction_items_'[call'[s].id].price = auction_items_[call[s].id].price
  <2>1. ~Called(t)
    BY <1>1, <1>2, ConstantsOK DEF ConstantsOK, Called, registerItem, BeginPurchase,
       cancelListing, BeginExpiry, Free
  <2>2. call[t].pc # "idle"
    BY <2>1 DEF Inside, CheckBuyer, CreditSeller, DebitBuyer, RecordSale, FinishPurchase,
       ExpireOne, FinishExpiry
  <2>3. s = t
    <3>1. call[t] # Idle
      BY <2>2 DEF Idle
    <3> QED
      BY <1>1, <1>2, <3>1 DEF ProcessInv, LockInv
  <2>4. DebitBuyer(t)
    BY <1>1, <1>2, <2>1, <2>3 DEF Inside, CheckBuyer, CreditSeller, RecordSale, FinishPurchase,
       ExpireOne, FinishExpiry
  <2> QED
    BY <1>1, <1>2, <2>3, <2>4 DEF DebitBuyer, memory
<1> QED
  BY <1>1, <1>2, NobodyPaid

LEMMA MoneyCreditSeller ==
  ASSUME ProcessInv, MoneyInv, NEW t \in Threads, CreditSeller(t)
  PROVE  MoneyInv'
<1> DEFINE id     == call[t].id
           item   == auction_items_[id]
           amount == AsInt32(item.price)
<1>1. /\ call[t] # Idle /\ id \in Ids /\ item.price <= MaxInt32 /\ UNCHANGED auction_items_
      /\ t \in DOMAIN call /\ call[t] \in Calls
  BY DEF CreditSeller, Idle, ProcessInv, CallsSound, Sound, Purchasing, memory, TypeOK
<1>2. item.price \in 0 .. MaxInt32 /\ amount = item.price /\ amount \in -MaxInt32 - 1 .. MaxInt32
  BY <1>1, PriceType, ConversionRange, ConstantsOK DEF ConstantsOK, ProcessInv
<1>3. PICK o \in {"ok", "lost", "unacked"} :
        /\ updateUserBalance(item.seller, amount, o)
        /\ IF BalanceUpdated(item.seller, amount, o) THEN Goto(t, "debit") ELSE Return(t)
  BY DEF CreditSeller
<1>4. SumFunction(balance) \in Int /\ Deposits \in Int
  BY SumsAreNumbers DEF ProcessInv
<1>5. \A s \in Threads \ {t} : call'[s] = call[s] /\ call[s] = Idle
  BY <1>1, <1>3, Alone DEF ProcessInv, Goto, Return, TypeOK
<1>6. call'[t] = Idle \/ (call'[t].pc = "debit" /\ call'[t].id = id)
  <2>1. Return(t) => call'[t] = Idle
    BY <1>1 DEF Return
  <2>2. Goto(t, "debit") => call'[t] = [call[t] EXCEPT !.pc = "debit"]
    BY <1>1 DEF Goto
  <2>3. [call[t] EXCEPT !.pc = "debit"].pc = "debit" /\ [call[t] EXCEPT !.pc = "debit"].id = id
    BY <1>1 DEF Calls
  <2> QED
    BY <1>3, <2>1, <2>2, <2>3
<1>7. CASE UNCHANGED balance /\ ~BalanceUpdated(item.seller, amount, o)
  <2>1. \A s \in Threads : call'[s].pc # "debit"
    BY <1>1, <1>3, <1>5, <1>7 DEF Return, Idle
  <2> QED
    BY <1>7, <2>1, NobodyPaid
<1>8. CASE SumFunction(balance') = SumFunction(balance) + amount
  <2>1. SumFunction(balance') >= Deposits + item.price
    BY <1>2, <1>4, <1>8 DEF MoneyInv
  <2>2. SumFunction(balance') >= Deposits
    BY <1>2, <1>4, <1>8 DEF MoneyInv
  <2>3. ASSUME NEW s \in Threads, call'[s].pc = "debit"
        PROVE  SumFunction(balance') >= Deposits + auction_items_'[call'[s].id].price
    <3>1. s = t /\ call'[s].id = id
      BY <1>5, <1>6, <2>3 DEF Idle
    <3> QED
      BY <1>1, <2>1, <3>1
  <2> QED
    BY <2>2, <2>3 DEF MoneyInv, Deposits
<1> QED
  BY <1>2, <1>3, <1>7, <1>8, Payment

LEMMA MoneyDebitBuyer ==
  ASSUME ProcessInv, MoneyInv, NEW t \in Threads, DebitBuyer(t)
  PROVE  MoneyInv'
<1> DEFINE id     == call[t].id
           item   == auction_items_[id]
           amount == - AsInt32(item.price)
<1>1. /\ call[t] # Idle /\ call[t].pc = "debit" /\ id \in Ids /\ item.price <= MaxInt32
      /\ t \in DOMAIN call /\ call[t] \in Calls
  BY DEF DebitBuyer, Idle, ProcessInv, CallsSound, Sound, Purchasing, TypeOK
<1>2. item.price \in 0 .. MaxInt32 /\ amount = - item.price /\ amount \in -MaxInt32 - 1 .. MaxInt32
  BY <1>1, PriceType, ConversionRange, ConstantsOK DEF ConstantsOK, ProcessInv
<1>3. PICK o \in {"ok", "lost", "unacked"} :
        /\ updateUserBalance(call[t].user, amount, o)
        /\ IF BalanceUpdated(call[t].user, amount, o) THEN Goto(t, "record") ELSE Return(t)
  BY DEF DebitBuyer
<1>4. SumFunction(balance) \in Int /\ Deposits \in Int
  BY SumsAreNumbers DEF ProcessInv
<1>5. SumFunction(balance) >= Deposits + item.price
  BY <1>1 DEF MoneyInv
<1>6. \A s \in Threads \ {t} : call'[s] = call[s] /\ call[s] = Idle
  BY <1>1, <1>3, Alone DEF ProcessInv, Goto, Return, TypeOK
<1>7. call'[t].pc # "debit"
  <2>1. Return(t) => call'[t] = Idle
    BY <1>1 DEF Return
  <2>2. Goto(t, "record") => call'[t] = [call[t] EXCEPT !.pc = "record"]
    BY <1>1 DEF Goto
  <2>3. [call[t] EXCEPT !.pc = "record"].pc = "record"
    BY <1>1 DEF Calls
  <2>4. call'[t] = Idle \/ call'[t].pc = "record"
    BY <1>3, <2>1, <2>2, <2>3
  <2> QED
    BY <2>4 DEF Idle
<1>8. \A s \in Threads : call'[s].pc # "debit"
  BY <1>6, <1>7 DEF Idle
<1>9. SumFunction(balance') >= Deposits
  <2>1. CASE UNCHANGED balance
    BY <2>1 DEF MoneyInv
  <2>2. CASE SumFunction(balance') = SumFunction(balance) + amount
    BY <1>2, <1>4, <1>5, <2>2
  <2> QED
    BY <1>2, <1>3, <2>1, <2>2, Payment
<1> QED
  BY <1>8, <1>9 DEF MoneyInv, Deposits

LEMMA MoneyStep == ProcessInv /\ MoneyInv /\ [Next]_vars => MoneyInv'
<1> SUFFICES ASSUME ProcessInv, MoneyInv, [Next]_vars PROVE MoneyInv'
  OBVIOUS
<1>1. ASSUME NEW t \in Threads, Called(t) \/ Inside(t)
      PROVE  MoneyInv'
  <2>1. CASE CreditSeller(t)
    BY <2>1, MoneyCreditSeller
  <2>2. CASE DebitBuyer(t)
    BY <2>2, MoneyDebitBuyer
  <2>3. CASE ~CreditSeller(t) /\ ~DebitBuyer(t)
    <3>1. UNCHANGED balance
      BY <1>1, <2>3 DEF Called, Inside, registerItem, BeginPurchase, cancelListing, BeginExpiry,
         CheckBuyer, RecordSale, FinishPurchase, ExpireOne, FinishExpiry
    <3>2. ASSUME NEW s \in Threads
          PROVE  call'[s] = call[s] \/ call'[s].pc # "debit"
      <4>0. call \in [Threads -> Calls] /\ call[t] \in Calls
        BY DEF ProcessInv, TypeOK
      <4>1. s # t => call'[s] = call[s]
        BY <1>1, <2>3, <4>0 DEF Called, Inside, registerItem, BeginPurchase, cancelListing,
           BeginExpiry, CheckBuyer, RecordSale, FinishPurchase, ExpireOne, FinishExpiry, Enter,
           Goto, Return
      <4>2. CASE Called(t)
        BY <4>0, <4>2 DEF Called, registerItem, BeginPurchase, cancelListing, BeginExpiry, Enter,
           Idle
      <4>3. CASE CheckBuyer(t)
        BY <4>0, <4>3 DEF CheckBuyer, Goto, Return, Idle, Calls
      <4>4. CASE RecordSale(t)
        BY <4>0, <4>4 DEF RecordSale, Goto, Return, Idle, Calls
      <4>5. CASE FinishPurchase(t) \/ FinishExpiry(t)
        BY <4>0, <4>5 DEF FinishPurchase, FinishExpiry, Return, Idle
      <4>6. ASSUME NEW id \in Ids, ExpireOne(t, id)
            PROVE  call'[s] = call[s] \/ call'[s].pc # "debit"
        <5>1. call[t].pc = "expire"
          BY <4>6 DEF ExpireOne
        <5>2. call'[t] = Idle \/ call'[t].pc = "expire"
          BY <4>0, <4>6, <5>1 DEF ExpireOne, Return, Calls
        <5> QED
          BY <4>1, <5>2 DEF Idle
      <4> QED
        BY <1>1, <2>3, <4>2, <4>3, <4>4, <4>5, <4>6 DEF Inside
    <3> QED
      BY <1>1, <3>1, <3>2, MoneyIdleSteps
  <2> QED
    BY <2>1, <2>2, <2>3
<1>2. CASE Construct
  <2>1. mutex_ = NoThread /\ UNCHANGED <<balance, call>>
    BY <1>2 DEF Construct, ProcessInv, LockInv
  <2>2. \A t \in Threads : call[t] = Idle
    BY <2>1, ConstantsOK DEF ConstantsOK, ProcessInv, LockInv
  <2> QED
    BY <2>1, <2>2, NobodyPaid DEF Idle
<1>3. CASE Tick \/ UNCHANGED vars
  <2>1. UNCHANGED <<balance, call, auction_items_>>
    BY <1>3 DEF Tick, vars, memory
  <2> QED
    BY <2>1, NobodyPaid
<1>4. CASE Crash
  <2>1. UNCHANGED balance /\ \A t \in Threads : call'[t].pc # "debit"
    BY <1>4 DEF Crash, Idle
  <2> QED
    BY <2>1, NobodyPaid
<1> QED
  BY <1>1, <1>2, <1>3, <1>4 DEF Next

(* Whatever fails and wherever the process dies, the accounts together     *)
(* never hold less than they started with.                                 *)
THEOREM MoneyIsKept == Spec => []NoMoneyDestroyed
<1>1. ProcessInv /\ MoneyInv => NoMoneyDestroyed
  BY DEF MoneyInv, Deposits, NoMoneyDestroyed
<1>2. Init => ProcessInv /\ MoneyInv
  BY ProcessInit, MoneyInit
<1>3. ProcessInv /\ MoneyInv /\ [Next]_vars => (ProcessInv /\ MoneyInv)'
  BY ProcessStep, MoneyStep
<1> QED
  BY <1>1, <1>2, <1>3, PTL DEF Spec

-----------------------------------------------------------------------------
(* BooksInv.                                                               *)

(* Before and after a step of the thread that is inside, or that enters,   *)
(* the others are idle: what is busy is what that thread is doing.         *)
LEMMA OnlyOneBusy ==
  ASSUME ProcessInv, NEW t \in Threads, call[t] # Idle \/ mutex_ = NoThread,
         NEW c \in Calls, call' = [call EXCEPT ![t] = c]
  PROVE  /\ call'[t] = c /\ \A s \in Threads \ {t} : call'[s] = Idle
         /\ \A id \in Ids, pcs \in SUBSET (PC \ {"idle"}) :
              /\ Busy(id, pcs) <=> call[t].id = id /\ call[t].pc \in pcs
              /\ Busy(id, pcs)' <=> c.id = id /\ c.pc \in pcs
<1>1. \A s \in Threads \ {t} : call[s] = Idle
  BY Alone DEF ProcessInv
<1>2. call'[t] = c /\ \A s \in Threads \ {t} : call'[s] = Idle
  BY <1>1 DEF ProcessInv, TypeOK
<1>3. \A pcs \in SUBSET (PC \ {"idle"}) : Idle.pc \notin pcs
  BY DEF Idle
<1>4. \A id \in Ids, pcs \in SUBSET (PC \ {"idle"}) :
        Busy(id, pcs) <=> call[t].id = id /\ call[t].pc \in pcs
  BY <1>1, <1>3 DEF Busy
<1>5. \A id \in Ids, pcs \in SUBSET (PC \ {"idle"}) :
        Busy(id, pcs)' <=> c.id = id /\ c.pc \in pcs
  BY <1>2, <1>3 DEF Busy
<1> QED
  BY <1>2, <1>4, <1>5

(* A thread that is in none of the steps that check, pay or charge has no  *)
(* claim on the balances.                                                  *)
LEMMA SolventElsewhere ==
  ASSUME NEW c, c.pc \notin {"check", "credit", "debit"}
  PROVE  Solvent(c)
  BY DEF Solvent

Paying == {"debit", "record", "finish"}

LEMMA PayingSteps ==
  Paying \in SUBSET (PC \ {"idle"}) /\ {"record", "finish"} \in SUBSET (PC \ {"idle"})
    /\ {"finish"} \in SUBSET (PC \ {"idle"})
  BY DEF Paying, PC

(* A step outside of Paying that changes neither listings nor money.       *)
LEMMA BooksUntouched ==
  ASSUME ProcessInv, Books, NEW t \in Threads, call[t] # Idle \/ mutex_ = NoThread,
         NEW c \in Calls, call' = [call EXCEPT ![t] = c],
         call[t].pc \notin Paying, c.pc \notin Paying, Solvent(c)',
         UNCHANGED <<running, auction_items_, next_auction_id_, auctions, sales, credited,
                     charged>>
  PROVE  Books'
<1>1. /\ call'[t] = c /\ \A s \in Threads \ {t} : call'[s] = Idle
      /\ \A id \in Ids, pcs \in SUBSET (PC \ {"idle"}) :
           /\ Busy(id, pcs) <=> call[t].id = id /\ call[t].pc \in pcs
           /\ Busy(id, pcs)' <=> c.id = id /\ c.pc \in pcs
  BY OnlyOneBusy
<1>2. ASSUME NEW id \in Ids
      PROVE  Booked(id)'
  <2>1. ~Busy(id, Paying) /\ ~Busy(id, {"record", "finish"}) /\ ~Busy(id, {"finish"})
        /\ ~Busy(id, Paying)' /\ ~Busy(id, {"record", "finish"})' /\ ~Busy(id, {"finish"})'
    BY <1>1, PayingSteps DEF Paying
  <2> QED
    BY <2>1 DEF Books, Booked, Paying
<1>3. ASSUME NEW s \in Threads
      PROVE  Solvent(call[s])'
  <2>1. CASE s = t
    BY <1>1, <2>1 DEF Solvent
  <2>2. CASE s # t
    BY <1>1, <2>2 DEF Solvent, Idle
  <2> QED
    BY <2>1, <2>2
<1>4. UniqueAuctionIds' /\ FreshIds' /\ Mirrored' /\ (~running' => auctions' = <<>>)
  BY DEF Books, UniqueAuctionIds, FreshIds, Mirrored, Matching
<1> QED
  BY <1>2, <1>3, <1>4 DEF Books

LEMMA BooksInit == Init => Books
<1> SUFFICES ASSUME Init PROVE Books
  OBVIOUS
<1>1. Len(<<>>) = 0 /\ DOMAIN <<>> = {}
  OBVIOUS
<1>2. \A id \in Ids : Booked(id)
  BY <1>1 DEF Init, Booked, Busy, Idle, NoListing
<1>3. \A t \in Threads : Solvent(call[t])
  BY DEF Init, Solvent, Idle
<1>4. ~running /\ auctions = <<>> /\ UniqueAuctionIds /\ FreshIds /\ Mirrored
  BY <1>1 DEF Init, UniqueAuctionIds, FreshIds, Mirrored
<1> QED
  BY <1>2, <1>3, <1>4 DEF Books

LEMMA BooksBeginPurchase ==
  ASSUME ProcessInv, Books, NEW t \in Threads, NEW id \in Ids, NEW u \in Users,
         BeginPurchase(t, id, u)
  PROVE  Books'
<1>1. PICK c \in Calls : c = [Idle EXCEPT !.pc = "check", !.id = id, !.user = u]
  <2>1. "check" \in PC /\ id \in 0 .. MaxId
    BY ConstantsOK DEF ConstantsOK, PC, Ids
  <2> QED
    BY <2>1, IdleType DEF Calls
<1>2. c.pc = "check" /\ c.id = id /\ c.user = u
  BY <1>1 DEF Idle
<1>3. /\ UNCHANGED <<running, auction_items_, next_auction_id_, auctions, sales, credited, charged>>
      /\ mutex_ = NoThread /\ call[t] = Idle /\ call' = [call EXCEPT ![t] = c]
      /\ auction_items_[id].seller # u
  BY <1>1 DEF BeginPurchase, Free, Enter, memory, history
<1>4. Solvent(c)'
  BY <1>2, <1>3 DEF Solvent
<1>5. call[t].pc \notin Paying /\ c.pc \notin Paying
  BY <1>2, <1>3 DEF Paying, Idle
<1> QED
  BY <1>3, <1>4, <1>5, BooksUntouched

LEMMA BooksCheckBuyer ==
  ASSUME ProcessInv, Books, NEW t \in Threads, CheckBuyer(t)
  PROVE  Books'
<1> DEFINE id == call[t].id
           u  == call[t].user
<1>1. /\ UNCHANGED <<running, auction_items_, next_auction_id_, auctions, balance, sales, credited,
                     charged>>
      /\ call[t].pc = "check" /\ call[t] # Idle /\ id \in Ids
      /\ call[t] \in Calls
      /\ auction_items_[id].seller # u
  BY DEF CheckBuyer, memory, history, Idle, Books, Solvent, ProcessInv, TypeOK, CallsSound, Sound,
     Purchasing
<1>2. CASE Return(t)
  <2>1. call' = [call EXCEPT ![t] = Idle] /\ Solvent(Idle)' /\ Idle.pc \notin Paying
    BY <1>2 DEF Return, Idle, Solvent, Paying
  <2> QED
    BY <1>1, <2>1, IdleType, BooksUntouched DEF Paying
<1>3. CASE CanPay(u, auction_items_[id].price) /\ Goto(t, "credit")
  <2>1. PICK c \in Calls : c = [call[t] EXCEPT !.pc = "credit"]
    BY <1>1 DEF Calls, PC
  <2>2. c.pc = "credit" /\ c.id = id /\ c.user = u
    BY <1>1, <2>1 DEF Calls
  <2>3. call' = [call EXCEPT ![t] = c]
    BY <1>3, <2>1 DEF Goto
  <2>4. u \in Accounts /\ balance[u] >= auction_items_[id].price
    <3>1. u \in Accounts /\ balance[u] \in 0 .. MaxInt32
      BY <1>3 DEF CanPay, ProcessInv, TypeOK
    <3> QED
      BY <1>3, <3>1, ConversionRange DEF CanPay
  <2>5. Solvent(c)'
    BY <1>1, <2>2, <2>4 DEF Solvent
  <2> QED
    BY <1>1, <2>2, <2>3, <2>5, BooksUntouched DEF Paying
<1> QED
  BY <1>2, <1>3 DEF CheckBuyer

LEMMA BooksExpirySteps ==
  ASSUME ProcessInv, Books, NEW t \in Threads, BeginExpiry(t) \/ FinishExpiry(t)
  PROVE  Books'
<1>1. UNCHANGED <<running, auction_items_, next_auction_id_, auctions, sales, credited, charged>>
  BY DEF BeginExpiry, FinishExpiry, memory, history
<1>2. CASE BeginExpiry(t)
  <2>1. PICK c : /\ c = [Idle EXCEPT !.pc = "expire",
                           !.todo = {id \in Ids : /\ auction_items_[id].status = "ACTIVE"
                                                  /\ auction_items_[id].expires < now}]
                 /\ call' = [call EXCEPT ![t] = c]
    BY <1>2 DEF BeginExpiry, Enter
  <2>2. c \in Calls
    BY <2>1, IdleType DEF Calls, PC
  <2>3. c.pc = "expire" /\ Solvent(c)'
    BY <2>1 DEF Idle, Solvent
  <2>4. mutex_ = NoThread /\ call[t].pc = "idle"
    BY <1>2 DEF BeginExpiry, Free, Idle
  <2> QED
    BY <1>1, <2>1, <2>2, <2>3, <2>4, BooksUntouched DEF Paying
<1>3. CASE FinishExpiry(t)
  <2>1. call' = [call EXCEPT ![t] = Idle] /\ Solvent(Idle)' /\ Idle.pc \notin Paying
        /\ call[t].pc = "expire" /\ call[t] # Idle
    BY <1>3 DEF FinishExpiry, Return, Idle, Solvent, Paying
  <2> QED
    BY <1>1, <2>1, IdleType, BooksUntouched DEF Paying
<1> QED
  BY <1>2, <1>3

(* Without a failure every database call answers "ok".                     *)
LEMMA CallsAnswer ==
  ASSUME faults = 0, faults' = 0, NEW kind, NEW o, Reply(kind, o)
  PROVE  o = "ok"
  BY DEF Reply, Fail

(* A payment that goes through moves the purchase on, and one that does    *)
(* not leaves it where a refused purchase ends.                            *)
LEMMA BooksCreditSeller ==
  ASSUME ProcessInv, Books, NEW t \in Threads, CreditSeller(t), faults = 0, faults' = 0
  PROVE  Books'
<1> DEFINE id     == call[t].id
           u      == call[t].user
           item   == auction_items_[id]
           amount == AsInt32(item.price)
<1>1. /\ UNCHANGED <<running, auction_items_, next_auction_id_, auctions, sales, charged>>
      /\ call[t].pc = "credit" /\ call[t] # Idle /\ id \in Ids /\ call[t] \in Calls
      /\ item.price <= MaxInt32
      /\ item.seller # u /\ u \in Accounts /\ balance[u] >= item.price
  BY DEF CreditSeller, memory, Idle, Books, Solvent, ProcessInv, TypeOK, CallsSound, Sound,
     Purchasing
<1>2. item.price \in 0 .. MaxInt32 /\ amount = item.price /\ amount \in -MaxInt32 - 1 .. MaxInt32
  BY <1>1, PriceType, ConversionRange, ConstantsOK DEF ConstantsOK, ProcessInv
<1>3. PICK o \in {"ok", "lost", "unacked"} :
        /\ updateUserBalance(item.seller, amount, o)
        /\ IF BalanceUpdated(item.seller, amount, o) THEN Goto(t, "debit") ELSE Return(t)
        /\ credited' = IF balance' = balance THEN credited
                       ELSE [credited EXCEPT ![id] = @ + 1]
  BY DEF CreditSeller
<1>4. o = "ok"
  BY <1>3, CallsAnswer DEF updateUserBalance
<1>5. CASE UNCHANGED balance
  <2>1. ~BalanceUpdated(item.seller, amount, o)
    BY <1>3, <1>5 DEF BalanceUpdated, updateUserBalance, ProcessInv, TypeOK, BalanceAllowed
  <2>2. UNCHANGED credited /\ call' = [call EXCEPT ![t] = Idle]
    BY <1>3, <1>5, <2>1 DEF Return
  <2>3. Solvent(Idle)' /\ Idle.pc \notin Paying
    BY DEF Solvent, Idle, Paying
  <2> QED
    BY <1>1, <2>2, <2>3, IdleType, BooksUntouched DEF Paying
<1>6. CASE balance' # balance
  <2>1. /\ balance' = [balance EXCEPT ![item.seller] = NewBalance(item.seller, amount)]
        /\ BalanceAllowed(item.seller, amount)
    BY <1>3, <1>6 DEF updateUserBalance
  <2>2. NewBalance(item.seller, amount) # balance[item.seller]
    BY <1>6, <2>1 DEF ProcessInv, TypeOK
  <2>3. Goto(t, "debit")
    BY <1>3, <1>4, <2>1, <2>2 DEF BalanceUpdated
  <2>4. PICK c \in Calls : c = [call[t] EXCEPT !.pc = "debit"]
    BY <1>1 DEF Calls, PC
  <2>5. c.pc = "debit" /\ c.id = id /\ c.user = u
    BY <1>1, <2>4 DEF Calls
  <2>6. call' = [call EXCEPT ![t] = c]
    BY <2>3, <2>4 DEF Goto
  <2>7. /\ call'[t] = c /\ \A s \in Threads \ {t} : call'[s] = Idle
        /\ \A x \in Ids, pcs \in SUBSET (PC \ {"idle"}) :
             /\ Busy(x, pcs) <=> call[t].id = x /\ call[t].pc \in pcs
             /\ Busy(x, pcs)' <=> c.id = x /\ c.pc \in pcs
    BY <1>1, <2>6, OnlyOneBusy
  <2>8. credited \in [Ids -> Nat] /\ credited' = [credited EXCEPT ![id] = @ + 1]
    BY <1>3, <1>6 DEF ProcessInv, TypeOK
  <2>9. ASSUME NEW x \in Ids PROVE Booked(x)'
    <3>1. ~Busy(x, Paying) /\ ~Busy(x, {"record", "finish"}) /\ ~Busy(x, {"finish"})
      BY <1>1, <2>7, PayingSteps DEF Paying
    <3>2. /\ Busy(x, Paying)' <=> x = id
          /\ ~Busy(x, {"record", "finish"})' /\ ~Busy(x, {"finish"})'
      BY <2>5, <2>7, PayingSteps DEF Paying
    <3>3. Len(sales[x]) \in Nat /\ Booked(x) /\ credited[x] \in Nat
      BY DEF ProcessInv, TypeOK, Books
    <3>4. credited'[x] = credited[x] + IF x = id THEN 1 ELSE 0
      BY <2>8
    <3>5. credited[x] = Len(sales[x]) /\ charged[x] = Len(sales[x])
          /\ (auction_items_[x].status = "SOLD" <=> sales[x] # <<>>)
      BY <3>1, <3>3 DEF Booked, Paying
    <3>6. credited'[x] = Len(sales[x]) + IF x = id THEN 1 ELSE 0
      BY <3>4, <3>5
    <3>7. /\ credited'[x] = Len(sales'[x]) + IF Busy(x, {"debit", "record", "finish"})' THEN 1 ELSE 0
      BY <1>1, <3>2, <3>6 DEF Paying
    <3>9. charged'[x]  = Len(sales'[x]) + IF Busy(x, {"record", "finish"})' THEN 1 ELSE 0
      BY <1>1, <3>2, <3>3, <3>5
    <3>10. auction_items_'[x].status = "SOLD" <=> sales'[x] # <<>> \/ Busy(x, {"finish"})'
      BY <1>1, <3>2, <3>5
    <3> QED
      BY <3>7, <3>9, <3>10 DEF Booked
  <2>10. Solvent(c)'
    <3>1. balance'[u] = balance[u]
      BY <1>1, <2>1 DEF ProcessInv, TypeOK
    <3> QED
      BY <1>1, <2>5, <3>1 DEF Solvent
  <2>11. ASSUME NEW s \in Threads PROVE Solvent(call[s])'
    <3>1. s # t => call'[s] = Idle
      BY <2>7
    <3> QED
      BY <2>7, <2>10, <3>1 DEF Solvent, Idle
  <2>12. UniqueAuctionIds' /\ FreshIds' /\ Mirrored' /\ (~running' => auctions' = <<>>)
    BY <1>1 DEF Books, UniqueAuctionIds, FreshIds, Mirrored, Matching
  <2> QED
    BY <2>9, <2>11, <2>12 DEF Books
<1> QED
  BY <1>5, <1>6

(* The buyer has the money and was not paid, so the charge goes through.   *)
LEMMA BooksDebitBuyer ==
  ASSUME ProcessInv, Books, NEW t \in Threads, DebitBuyer(t), faults = 0, faults' = 0
  PROVE  Books'
<1> DEFINE id     == call[t].id
           u      == call[t].user
           item   == auction_items_[id]
           amount == - AsInt32(item.price)
<1>1. /\ UNCHANGED <<running, auction_items_, next_auction_id_, auctions, sales, credited>>
      /\ call[t].pc = "debit" /\ call[t] # Idle /\ id \in Ids /\ call[t] \in Calls
      /\ item.price <= MaxInt32 /\ item.price # 0
      /\ u \in Accounts /\ balance[u] >= item.price
  BY DEF DebitBuyer, memory, Idle, Books, Solvent, ProcessInv, TypeOK, CallsSound, Sound,
     Purchasing
<1>2. item.price \in 1 .. MaxInt32 /\ amount = - item.price
  BY <1>1, PriceType, ConversionRange, ConstantsOK DEF ConstantsOK, ProcessInv
<1>3. PICK o \in {"ok", "lost", "unacked"} :
        /\ updateUserBalance(u, amount, o)
        /\ IF BalanceUpdated(u, amount, o) THEN Goto(t, "record") ELSE Return(t)
        /\ charged' = IF balance' = balance THEN charged
                      ELSE [charged EXCEPT ![id] = @ + 1]
  BY DEF DebitBuyer
<1>4. o = "ok"
  BY <1>3, CallsAnswer DEF updateUserBalance
<1>5. balance[u] \in 0 .. MaxInt32 /\ NewBalance(u, amount) = balance[u] - item.price
  <2>1. balance[u] \in 0 .. MaxInt32
    BY <1>1 DEF ProcessInv, TypeOK
  <2> QED
    BY <1>2, <2>1, ConstantsOK DEF NewBalance, AsInt32, ConstantsOK
<1>6. BalanceAllowed(u, amount) /\ NewBalance(u, amount) # balance[u]
  BY <1>1, <1>2, <1>5, ConstantsOK DEF BalanceAllowed, ConstantsOK
<1>7. Goto(t, "record") /\ balance' # balance
  <2>1. balance' = [balance EXCEPT ![u] = NewBalance(u, amount)]
    BY <1>3, <1>4, <1>6 DEF updateUserBalance
  <2>2. balance' # balance
    BY <1>1, <1>6, <2>1 DEF ProcessInv, TypeOK
  <2> QED
    BY <1>3, <1>4, <1>6, <2>2 DEF BalanceUpdated
<1>8. PICK c \in Calls : c = [call[t] EXCEPT !.pc = "record"]
  BY <1>1 DEF Calls, PC
<1>9. c.pc = "record" /\ c.id = id
  BY <1>1, <1>8 DEF Calls
<1>10. call' = [call EXCEPT ![t] = c]
  BY <1>7, <1>8 DEF Goto
<1>11. /\ call'[t] = c /\ \A s \in Threads \ {t} : call'[s] = Idle
       /\ \A x \in Ids, pcs \in SUBSET (PC \ {"idle"}) :
            /\ Busy(x, pcs) <=> call[t].id = x /\ call[t].pc \in pcs
            /\ Busy(x, pcs)' <=> c.id = x /\ c.pc \in pcs
  BY <1>1, <1>10, OnlyOneBusy
<1>12. charged \in [Ids -> Nat] /\ charged' = [charged EXCEPT ![id] = @ + 1]
  BY <1>3, <1>7 DEF ProcessInv, TypeOK
<1>13. ASSUME NEW x \in Ids PROVE Booked(x)'
  <2>1. (Busy(x, Paying) <=> x = id) /\ ~Busy(x, {"record", "finish"}) /\ ~Busy(x, {"finish"})
    BY <1>1, <1>11, PayingSteps DEF Paying
  <2>2. /\ Busy(x, Paying)' <=> x = id
        /\ Busy(x, {"record", "finish"})' <=> x = id
        /\ ~Busy(x, {"finish"})'
    BY <1>9, <1>11, PayingSteps DEF Paying
  <2>3. Len(sales[x]) \in Nat /\ Booked(x) /\ charged[x] \in Nat
    BY DEF ProcessInv, TypeOK, Books
  <2>4. charged'[x] = charged[x] + IF x = id THEN 1 ELSE 0
    BY <1>12
  <2>5. charged[x] = Len(sales[x])
    BY <2>1, <2>3 DEF Booked
  <2>6. charged'[x] = Len(sales[x]) + IF x = id THEN 1 ELSE 0
    BY <2>4, <2>5
  <2> QED
    BY <1>1, <2>1, <2>2, <2>3, <2>6 DEF Booked, Paying
<1>14. ASSUME NEW s \in Threads PROVE Solvent(call[s])'
  <2>1. s # t => call'[s] = Idle
    BY <1>11
  <2> QED
    BY <1>9, <1>11, <2>1 DEF Solvent, Idle
<1>15. UniqueAuctionIds' /\ FreshIds' /\ Mirrored' /\ (~running' => auctions' = <<>>)
  BY <1>1 DEF Books, UniqueAuctionIds, FreshIds, Mirrored, Matching
<1> QED
  BY <1>13, <1>14, <1>15 DEF Books

(* A listing is replaced in memory and in its one document.                *)
LEMMA UpdatesBoth ==
  ASSUME ProcessInv, Books, NEW id \in Ids, NEW item \in Items,
         auction_items_[id] # NoListing,
         item.id = id,
         auction_items_' = [auction_items_ EXCEPT ![id] = item],
         updateAuctionItem(item, "ok"),
         UNCHANGED <<running, next_auction_id_>>
  PROVE  /\ UniqueAuctionIds' /\ FreshIds' /\ Mirrored' /\ (~running' => auctions' = <<>>)
         /\ itemToBson(item) # itemToBson(auction_items_[id]) => ItemUpdated(item, "ok")
<1>1. PICK m \in DOMAIN auctions : auctions[m].id = id
  BY DEF Books, Mirrored, Matching
<1>2. \A j \in DOMAIN auctions : auctions[j].id = id <=> j = m
  BY <1>1 DEF Books, UniqueAuctionIds
<1>3. Matching(id) = {m} /\ FirstMatch(id) = m
  <2>1. Matching(id) = {m}
    BY <1>1, <1>2 DEF Matching
  <2>2. m <= m
    BY <1>1 DEF ProcessInv, TypeOK
  <2> QED
    BY <2>1, <2>2 DEF FirstMatch
<1>4. auctions[m] = itemToBson(auction_items_[id])
  BY <1>1 DEF Books, Mirrored
<1>5. auctions' = [auctions EXCEPT ![m] = itemToBson(item)]
  BY <1>3 DEF updateAuctionItem
<1>6. /\ DOMAIN auctions' = DOMAIN auctions
      /\ \A i \in DOMAIN auctions :
           auctions'[i] = IF i = m THEN itemToBson(item) ELSE auctions[i]
  BY <1>1, <1>5
<1>7. itemToBson(item).id = id
  BY ConversionFields
<1>8. \A i \in DOMAIN auctions : auctions'[i].id = auctions[i].id
  BY <1>1, <1>6, <1>7
<1>9. UniqueAuctionIds' /\ FreshIds'
  BY <1>6, <1>8 DEF Books, UniqueAuctionIds, FreshIds
<1>10. Mirrored'
  <2>1. \A x \in Ids : auction_items_'[x] = IF x = id THEN item ELSE auction_items_[x]
    BY DEF ProcessInv, TypeOK
  <2>2. ASSUME NEW i \in DOMAIN auctions
        PROVE  auctions'[i] = itemToBson(auction_items_'[auctions'[i].id])
    <3>1. CASE i = m
      BY <1>6, <1>7, <2>1, <3>1
    <3>2. CASE i # m
      <4>1. auctions'[i] = auctions[i] /\ auctions[i].id # id /\ auctions[i].id \in Ids
        BY <1>2, <1>6, <3>2, DocumentType DEF ProcessInv
      <4>2. auction_items_'[auctions'[i].id] = auction_items_[auctions[i].id]
        BY <2>1, <4>1
      <4> QED
        BY <4>1, <4>2 DEF Books, Mirrored
    <3> QED
      BY <3>1, <3>2
  <2>3. \A x \in Ids : Matching(x)' = Matching(x)
    BY <1>6, <1>8 DEF Matching
  <2>4. \A x \in Ids : auction_items_'[x] # NoListing => Matching(x)' # {}
    BY <1>3, <2>1, <2>3 DEF Books, Mirrored
  <2> QED
    BY <1>6, <2>2, <2>4 DEF Mirrored
<1>11. ~running' => auctions' = <<>>
  <2>1. running
    BY <1>1 DEF Books
  <2> QED
    BY <2>1
<1>12. itemToBson(item) # itemToBson(auction_items_[id]) => ItemUpdated(item, "ok")
  BY <1>3, <1>4 DEF ItemUpdated
<1> QED
  BY <1>9, <1>10, <1>11, <1>12

(* What is ACTIVE in memory is a listing.                                  *)
LEMMA ActiveListing ==
  ASSUME ProcessInv, NEW id \in Ids, auction_items_[id].status = "ACTIVE"
  PROVE  /\ auction_items_[id] \in Items
         /\ auction_items_[id] # NoListing
         /\ auction_items_[id].id = id
  BY DEF ProcessInv, TypeOK, FiledById, NoListing

LEMMA BooksRecordSale ==
  ASSUME ProcessInv, Books, NEW t \in Threads, RecordSale(t), faults = 0, faults' = 0
  PROVE  Books'
<1> DEFINE id  == call[t].id
           old == auction_items_[id]
<1>1. /\ UNCHANGED <<running, next_auction_id_, sales, credited, charged>>
      /\ call[t].pc = "record" /\ call[t] # Idle /\ id \in Ids /\ call[t] \in Calls
      /\ old.status = "ACTIVE" /\ call[t].user \in Users
  BY DEF RecordSale, history, Idle, ProcessInv, TypeOK, CallsSound, Sound, Purchasing
<1>2. old \in Items /\ old # NoListing /\ old.id = id
  BY <1>1, ActiveListing
<1>3. PICK sold \in Items : sold = [old EXCEPT !.status = "SOLD", !.buyer = call[t].user]
  BY <1>1, <1>2 DEF Items, AuctionItem, Status
<1>4. sold.id = id /\ sold.status = "SOLD"
  BY <1>2, <1>3 DEF Items, AuctionItem
<1>5. PICK o \in {"ok", "lost", "unacked", "thrown"} :
        /\ updateAuctionItem(sold, o)
        /\ IF ItemUpdated(sold, o) THEN Goto(t, "finish") ELSE Return(t)
  BY <1>3 DEF RecordSale
<1>6. o = "ok"
  BY <1>5, CallsAnswer DEF updateAuctionItem
<1>7. auction_items_' = [auction_items_ EXCEPT ![id] = sold]
  BY <1>3, <1>4 DEF RecordSale
<1>8. itemToBson(sold) # itemToBson(old)
  BY <1>1, <1>2, <1>4, ConversionFields
<1>9. /\ UniqueAuctionIds' /\ FreshIds' /\ Mirrored' /\ (~running' => auctions' = <<>>)
      /\ Goto(t, "finish")
  BY <1>1, <1>2, <1>4, <1>5, <1>6, <1>7, <1>8, UpdatesBoth
<1>10. PICK c \in Calls : c = [call[t] EXCEPT !.pc = "finish"]
  BY <1>1 DEF Calls, PC
<1>11. c.pc = "finish" /\ c.id = id
  BY <1>1, <1>10 DEF Calls
<1>12. call' = [call EXCEPT ![t] = c]
  BY <1>9, <1>10 DEF Goto
<1>13. /\ call'[t] = c /\ \A s \in Threads \ {t} : call'[s] = Idle
       /\ \A x \in Ids, pcs \in SUBSET (PC \ {"idle"}) :
            /\ Busy(x, pcs) <=> call[t].id = x /\ call[t].pc \in pcs
            /\ Busy(x, pcs)' <=> c.id = x /\ c.pc \in pcs
  BY <1>1, <1>12, OnlyOneBusy
<1>14. ASSUME NEW x \in Ids PROVE Booked(x)'
  <2>1. /\ Busy(x, Paying) <=> x = id
        /\ Busy(x, {"record", "finish"}) <=> x = id
        /\ ~Busy(x, {"finish"})
    BY <1>1, <1>13, PayingSteps DEF Paying
  <2>2. /\ Busy(x, Paying)' <=> x = id
        /\ Busy(x, {"record", "finish"})' <=> x = id
        /\ Busy(x, {"finish"})' <=> x = id
    BY <1>11, <1>13, PayingSteps DEF Paying
  <2>3. Booked(x)
    BY DEF Books
  <2>4. credited'[x] = Len(sales'[x]) + IF Busy(x, {"debit", "record", "finish"})' THEN 1 ELSE 0
    BY <1>1, <2>1, <2>2, <2>3 DEF Booked, Paying
  <2>5. charged'[x] = Len(sales'[x]) + IF Busy(x, {"record", "finish"})' THEN 1 ELSE 0
    BY <1>1, <2>1, <2>2, <2>3 DEF Booked
  <2>6. auction_items_'[x] = IF x = id THEN sold ELSE auction_items_[x]
    BY <1>7 DEF ProcessInv, TypeOK
  <2>7. auction_items_'[x].status = "SOLD" <=> sales'[x] # <<>> \/ Busy(x, {"finish"})'
    BY <1>1, <1>4, <2>1, <2>2, <2>3, <2>6 DEF Booked
  <2> QED
    BY <2>4, <2>5, <2>7 DEF Booked
<1>15. ASSUME NEW s \in Threads PROVE Solvent(call[s])'
  <2>1. s # t => call'[s] = Idle
    BY <1>13
  <2> QED
    BY <1>11, <1>13, <2>1 DEF Solvent, Idle
<1> QED
  BY <1>9, <1>14, <1>15 DEF Books

LEMMA BooksFinishPurchase ==
  ASSUME ProcessInv, Books, NEW t \in Threads, FinishPurchase(t)
  PROVE  Books'
<1> DEFINE id == call[t].id
<1>1. /\ UNCHANGED <<running, auction_items_, next_auction_id_, auctions, credited, charged>>
      /\ call[t].pc = "finish" /\ call[t] # Idle /\ id \in Ids /\ call[t].user \in Users
      /\ call' = [call EXCEPT ![t] = Idle]
      /\ sales' = [sales EXCEPT ![id] = Append(@, call[t].user)]
  BY DEF FinishPurchase, Return, Idle, ProcessInv, CallsSound, Sound, Purchasing
<1>2. /\ \A s \in Threads : call'[s] = Idle
      /\ \A x \in Ids, pcs \in SUBSET (PC \ {"idle"}) :
           /\ Busy(x, pcs) <=> call[t].id = x /\ call[t].pc \in pcs
           /\ Busy(x, pcs)' <=> Idle.id = x /\ Idle.pc \in pcs
  BY <1>1, IdleType, OnlyOneBusy
<1>3. ASSUME NEW x \in Ids PROVE Booked(x)'
  <2>1. /\ Busy(x, Paying) <=> x = id
        /\ Busy(x, {"record", "finish"}) <=> x = id
        /\ Busy(x, {"finish"}) <=> x = id
    BY <1>1, <1>2, PayingSteps DEF Paying
  <2>2. /\ ~Busy(x, Paying)'
        /\ ~Busy(x, {"record", "finish"})'
        /\ ~Busy(x, {"finish"})'
    BY <1>2, PayingSteps DEF Paying, Idle
  <2>3. Booked(x)
    BY DEF Books
  <2>4. sales[x] \in Seq(Users) /\ Len(sales[x]) \in Nat
    BY DEF ProcessInv, TypeOK
  <2>5. CASE x = id
    <3>1. sales'[x] = Append(sales[x], call[t].user)
      BY <1>1, <2>5 DEF ProcessInv, TypeOK
    <3>2. Len(sales'[x]) = Len(sales[x]) + 1 /\ sales'[x] # <<>>
      BY <1>1, <2>4, <3>1
    <3> QED
      BY <1>1, <2>1, <2>2, <2>3, <2>4, <2>5, <3>2 DEF Booked, Paying
  <2>6. CASE x # id
    <3>1. sales'[x] = sales[x]
      BY <1>1, <2>6 DEF ProcessInv, TypeOK
    <3> QED
      BY <1>1, <2>1, <2>2, <2>3, <2>6, <3>1 DEF Booked, Paying
  <2> QED
    BY <2>5, <2>6
<1>4. \A s \in Threads : Solvent(call[s])'
  BY <1>2 DEF Solvent, Idle
<1>5. UniqueAuctionIds' /\ FreshIds' /\ Mirrored' /\ (~running' => auctions' = <<>>)
  BY <1>1 DEF Books, UniqueAuctionIds, FreshIds, Mirrored, Matching
<1> QED
  BY <1>3, <1>4, <1>5 DEF Books

(* A listing that nobody is buying ends without a sale.                    *)
LEMMA BooksListingEnds ==
  ASSUME ProcessInv, Books, NEW t \in Threads, call[t] # Idle \/ mutex_ = NoThread,
         NEW c \in Calls, call' = [call EXCEPT ![t] = c],
         call[t].pc \notin Paying, c.pc \in {"idle", "expire"},
         NEW id \in Ids, NEW item \in Items,
         auction_items_[id].status = "ACTIVE", item.id = id,
         item.status \notin {"ACTIVE", "SOLD"},
         auction_items_' = [auction_items_ EXCEPT ![id] = item],
         updateAuctionItem(item, "ok"),
         UNCHANGED <<running, next_auction_id_, sales, credited, charged>>
  PROVE  Books'
<1>1. /\ call'[t] = c /\ \A s \in Threads \ {t} : call'[s] = Idle
      /\ \A x \in Ids, pcs \in SUBSET (PC \ {"idle"}) :
           /\ Busy(x, pcs) <=> call[t].id = x /\ call[t].pc \in pcs
           /\ Busy(x, pcs)' <=> c.id = x /\ c.pc \in pcs
  BY OnlyOneBusy
<1>2. auction_items_[id] # NoListing
  BY ActiveListing
<1>3. UniqueAuctionIds' /\ FreshIds' /\ Mirrored' /\ (~running' => auctions' = <<>>)
  BY <1>2, UpdatesBoth
<1>4. ASSUME NEW x \in Ids PROVE Booked(x)'
  <2>1. ~Busy(x, Paying) /\ ~Busy(x, {"record", "finish"}) /\ ~Busy(x, {"finish"})
        /\ ~Busy(x, Paying)' /\ ~Busy(x, {"record", "finish"})' /\ ~Busy(x, {"finish"})'
    BY <1>1, PayingSteps DEF Paying
  <2>2. Booked(x)
    BY DEF Books
  <2>3. auction_items_'[x] = IF x = id THEN item ELSE auction_items_[x]
    BY DEF ProcessInv, TypeOK
  <2>4. auction_items_'[x].status = "SOLD" <=> auction_items_[x].status = "SOLD"
    BY <2>3
  <2> QED
    BY <2>1, <2>2, <2>4 DEF Booked, Paying
<1>5. ASSUME NEW s \in Threads PROVE Solvent(call[s])'
  <2>1. s # t => call'[s] = Idle
    BY <1>1
  <2> QED
    BY <1>1, <2>1 DEF Solvent, Idle
<1> QED
  BY <1>3, <1>4, <1>5 DEF Books

LEMMA BooksCancel ==
  ASSUME ProcessInv, Books, NEW t \in Threads, NEW id \in Ids, NEW u \in Users,
         cancelListing(t, id, u), faults = 0, faults' = 0
  PROVE  Books'
<1>1. /\ UNCHANGED <<running, next_auction_id_, sales, credited, charged, call>>
      /\ mutex_ = NoThread /\ call[t] = Idle /\ auction_items_[id].status = "ACTIVE"
      /\ Idle.pc \notin Paying /\ Idle.pc = "idle"
  BY DEF cancelListing, Free, history, Idle, Paying
<1>2. PICK item \in Items : item = [auction_items_[id] EXCEPT !.status = "CANCELLED"]
  BY <1>1, ActiveListing DEF Items, AuctionItem, Status
<1>3. item.id = id /\ item.status = "CANCELLED"
  BY <1>1, <1>2, ActiveListing DEF Items, AuctionItem
<1>4. auction_items_' = [auction_items_ EXCEPT ![id] = item] /\ updateAuctionItem(item, "ok")
  BY <1>2, CallsAnswer DEF cancelListing, updateAuctionItem
<1>5. call' = [call EXCEPT ![t] = Idle]
  BY <1>1 DEF ProcessInv, TypeOK
<1> QED
  BY <1>1, <1>3, <1>4, <1>5, IdleType, BooksListingEnds

LEMMA BooksExpireOne ==
  ASSUME ProcessInv, Books, NEW t \in Threads, NEW id \in Ids, ExpireOne(t, id),
         faults = 0, faults' = 0
  PROVE  Books'
<1>1. /\ UNCHANGED <<running, next_auction_id_, sales, credited, charged>>
      /\ call[t].pc = "expire" /\ call[t] # Idle /\ call[t] \in Calls
      /\ auction_items_[id].status = "ACTIVE"
  BY DEF ExpireOne, history, Idle, ProcessInv, TypeOK, CallsSound, Sound
<1>2. PICK item \in Items : item = [auction_items_[id] EXCEPT !.status = "EXPIRED"]
  BY <1>1, ActiveListing DEF Items, AuctionItem, Status
<1>3. item.id = id /\ item.status = "EXPIRED"
  BY <1>1, <1>2, ActiveListing DEF Items, AuctionItem
<1>4. PICK o \in {"ok", "lost", "unacked", "thrown"} :
        /\ updateAuctionItem(item, o)
        /\ IF o = "thrown" THEN Return(t)
           ELSE /\ UNCHANGED mutex_
                /\ call' = [call EXCEPT ![t].todo = @ \ {id},
                              ![t].done = IF ItemUpdated(item, o) THEN @ \cup {id} ELSE @]
  BY <1>2 DEF ExpireOne
<1>5. o = "ok"
  BY <1>4, CallsAnswer DEF updateAuctionItem
<1>6. auction_items_' = [auction_items_ EXCEPT ![id] = item] /\ updateAuctionItem(item, "ok")
  BY <1>2, <1>4, <1>5 DEF ExpireOne
<1>7. PICK c : /\ c = [call[t] EXCEPT !.todo = @ \ {id},
                         !.done = IF ItemUpdated(item, o) THEN @ \cup {id} ELSE @]
               /\ call' = [call EXCEPT ![t] = c]
  BY <1>1, <1>4, <1>5 DEF ProcessInv, TypeOK
<1>8. c \in Calls /\ c.pc = "expire"
  <2>1. c.pc = "expire" /\ c.id = call[t].id /\ c.user = call[t].user
        /\ c.todo = call[t].todo \ {id}
        /\ c.done \in SUBSET Ids
    BY <1>1, <1>7 DEF Calls
  <2> QED
    BY <1>1, <1>7, <2>1 DEF Calls
<1> QED
  BY <1>1, <1>3, <1>6, <1>7, <1>8, BooksListingEnds DEF Paying

LEMMA BooksRegister ==
  ASSUME ProcessInv, Books, NEW t \in Threads, NEW u \in Users, NEW p \in Prices,
         registerItem(t, u, p), faults = 0, faults' = 0
  PROVE  Books'
<1> DEFINE id == next_auction_id_
<1>1. /\ UNCHANGED <<running, call, sales, credited, charged, balance>>
      /\ running /\ mutex_ = NoThread /\ call[t] = Idle /\ id \in Ids
  BY DEF registerItem, Free, history
<1>2. PICK item \in Items :
        item = [id |-> id, seller |-> u, buyer |-> NoUser, price |-> p,
                status |-> "ACTIVE", expires |-> now + ListingPeriod]
  <2>1. now + ListingPeriod \in 0 .. MaxTime + ListingPeriod /\ p \in 0 .. 2 * MaxInt32 + 1
    BY ConstantsOK DEF ConstantsOK, ProcessInv, TypeOK
  <2> QED
    BY <1>1, <2>1 DEF Items, AuctionItem, Status
<1>3. item.id = id /\ item.status = "ACTIVE" /\ itemToBson(item).id = id
  BY <1>2, ConversionFields
<1>4. PICK o \in {"ok", "lost", "unacked"} :
        /\ NextId(o)
        /\ saveAuctionItem(item, o)
        /\ auction_items_' = IF o = "ok" THEN [auction_items_ EXCEPT ![id] = item]
                                         ELSE auction_items_
  BY <1>2 DEF registerItem
<1>5. o = "ok"
  BY <1>4, CallsAnswer DEF saveAuctionItem
<1>6. /\ next_auction_id_' = id + 1
      /\ auctions' = Append(auctions, itemToBson(item))
      /\ auction_items_' = [auction_items_ EXCEPT ![id] = item]
  BY <1>4, <1>5 DEF NextId, saveAuctionItem
<1>7. auctions \in Seq(Documents) /\ Len(auctions) \in Nat /\ DOMAIN auctions = 1 .. Len(auctions)
  BY DEF ProcessInv, TypeOK
<1>8. /\ DOMAIN auctions' = 1 .. Len(auctions) + 1
      /\ auctions'[Len(auctions) + 1] = itemToBson(item)
      /\ \A i \in DOMAIN auctions : auctions'[i] = auctions[i]
  BY <1>6, <1>7, ItemTypes
<1>9. \A i \in DOMAIN auctions : auctions[i].id < id /\ auctions[i].id \in Ids
  BY <1>1, DocumentType DEF Books, FreshIds, ProcessInv
<1>10. auction_items_[id] = NoListing
  <2>1. Matching(id) = {}
    BY <1>1, <1>9 DEF Matching, Ids
  <2> QED
    BY <1>1, <2>1 DEF Books, Mirrored
<1>11. UniqueAuctionIds'
  <2>1. \A i \in DOMAIN auctions' : i \in DOMAIN auctions \/ i = Len(auctions) + 1
    BY <1>7, <1>8
  <2>2. \A i \in DOMAIN auctions : auctions'[i].id # auctions'[Len(auctions) + 1].id
    BY <1>1, <1>3, <1>8, <1>9 DEF Ids
  <2> QED
    BY <1>8, <2>1, <2>2 DEF Books, UniqueAuctionIds
<1>12. FreshIds'
  <2>1. \A i \in DOMAIN auctions' : i \in DOMAIN auctions \/ i = Len(auctions) + 1
    BY <1>7, <1>8
  <2> QED
    BY <1>1, <1>3, <1>6, <1>8, <1>9, <2>1 DEF FreshIds, Ids
<1>13. \A x \in Ids : auction_items_'[x] = IF x = id THEN item ELSE auction_items_[x]
  BY <1>6 DEF ProcessInv, TypeOK
<1>14. Mirrored'
  <2>1. \A i \in DOMAIN auctions' : i \in DOMAIN auctions \/ i = Len(auctions) + 1
    BY <1>7, <1>8
  <2>2. \A i \in DOMAIN auctions : auctions'[i] = itemToBson(auction_items_'[auctions'[i].id])
    <3> TAKE i \in DOMAIN auctions
    <3>1. auctions'[i] = auctions[i] /\ auctions[i].id # id /\ auctions[i].id \in Ids
      BY <1>1, <1>8, <1>9 DEF Ids
    <3>2. auction_items_'[auctions'[i].id] = auction_items_[auctions[i].id]
      BY <1>13, <3>1
    <3> QED
      BY <3>1, <3>2 DEF Books, Mirrored
  <2>3. auctions'[Len(auctions) + 1]
          = itemToBson(auction_items_'[auctions'[Len(auctions) + 1].id])
    BY <1>1, <1>3, <1>8, <1>13
  <2>4. ASSUME NEW x \in Ids, auction_items_'[x] # NoListing
        PROVE  Matching(x)' # {}
    <3>1. CASE x = id
      BY <1>3, <1>7, <1>8, <3>1 DEF Matching
    <3>2. CASE x # id
      <4>1. PICK i \in DOMAIN auctions : auctions[i].id = x
        BY <1>13, <2>4, <3>2 DEF Books, Mirrored, Matching
      <4> QED
        BY <1>7, <1>8, <4>1 DEF Matching
    <3> QED
      BY <3>1, <3>2
  <2> QED
    BY <2>1, <2>2, <2>3, <2>4 DEF Mirrored
<1>15. ASSUME NEW x \in Ids PROVE Booked(x)'
  <2>1. /\ Busy(x, {"debit", "record", "finish"})' <=> Busy(x, {"debit", "record", "finish"})
        /\ Busy(x, {"record", "finish"})' <=> Busy(x, {"record", "finish"})
        /\ Busy(x, {"finish"})' <=> Busy(x, {"finish"})
    BY <1>1 DEF Busy
  <2>2. auction_items_'[x].status = "SOLD" <=> auction_items_[x].status = "SOLD"
    BY <1>3, <1>10, <1>13 DEF NoListing
  <2> QED
    BY <1>1, <2>1, <2>2 DEF Books, Booked
<1>16. \A s \in Threads : Solvent(call[s])'
  <2>1. \A s \in Threads : call'[s] = Idle
    BY <1>1, Alone DEF ProcessInv
  <2> QED
    BY <2>1 DEF Solvent, Idle
<1> QED
  BY <1>1, <1>11, <1>12, <1>14, <1>15, <1>16 DEF Books

(* The first constructor finds an empty collection; there is no second one *)
(* without a crash.                                                        *)
LEMMA BooksConstruct ==
  ASSUME ProcessInv, Books, Construct
  PROVE  Books'
<1>1. auctions = <<>> /\ Len(<<>>) = 0 /\ DOMAIN <<>> = {} /\ 1 .. 0 = {}
  BY DEF Construct, Books
<1>2. /\ UNCHANGED <<call, auctions, sales, credited, charged>> /\ running'
      /\ mutex_ = NoThread
  BY DEF Construct, history, ProcessInv, LockInv
<1>3. auction_items_' = [id \in Ids |-> NoListing]
  <2>1. PICK k \in 0 .. Len(auctions) :
          LET last(id) == {i \in 1 .. k : /\ auctions[i].id = id
                                          /\ \A j \in i + 1 .. k : auctions[j].id # id}
          IN  auction_items_' =
                [id \in Ids |-> IF last(id) = {} THEN NoListing
                                ELSE bsonToItem(auctions[CHOOSE i \in last(id) : TRUE])]
    BY DEF Construct
  <2>2. k = 0
    BY <1>1, <2>1
  <2> QED
    BY <1>1, <2>1, <2>2
<1>4. \A s \in Threads : call[s] = Idle
  BY <1>2, ConstantsOK DEF ConstantsOK, ProcessInv, LockInv
<1>5. \A x \in Ids : auction_items_[x] = NoListing
  BY <1>1 DEF Books, Mirrored, Matching
<1>6. ASSUME NEW x \in Ids PROVE Booked(x)'
  <2>1. auction_items_'[x] = auction_items_[x]
    BY <1>3, <1>5
  <2>2. /\ Busy(x, {"debit", "record", "finish"})' <=> Busy(x, {"debit", "record", "finish"})
        /\ Busy(x, {"record", "finish"})' <=> Busy(x, {"record", "finish"})
        /\ Busy(x, {"finish"})' <=> Busy(x, {"finish"})
    BY <1>2 DEF Busy
  <2> QED
    BY <1>2, <2>1, <2>2 DEF Books, Booked
<1>7. \A s \in Threads : Solvent(call[s])'
  BY <1>2, <1>4 DEF Solvent, Idle
<1>8. UniqueAuctionIds' /\ FreshIds' /\ Mirrored'
  <2>1. DOMAIN auctions' = {}
    BY <1>1, <1>2
  <2> QED
    BY <1>3, <2>1 DEF UniqueAuctionIds, FreshIds, Mirrored
<1> QED
  BY <1>2, <1>6, <1>7, <1>8 DEF Books

LEMMA BooksTick ==
  ASSUME Books,
         UNCHANGED <<running, call, auction_items_, next_auction_id_, auctions, balance, sales,
                     credited, charged>>
  PROVE  Books'
<1>1. UniqueAuctionIds' /\ FreshIds' /\ Mirrored' /\ (~running' => auctions' = <<>>)
  BY DEF Books, UniqueAuctionIds, FreshIds, Mirrored, Matching
<1>2. ASSUME NEW x \in Ids PROVE Booked(x)'
  BY DEF Books, Booked, Busy
<1>3. ASSUME NEW s \in Threads PROVE Solvent(call[s])'
  BY DEF Books, Solvent
<1> QED
  BY <1>1, <1>2, <1>3 DEF Books

(* No step mends what went wrong: faults and crashes only grow.            *)
LEMMA TroubleStays ==
  ASSUME ProcessInv, [Next]_vars, Untroubled'
  PROVE  faults = 0 /\ crashes = 0 /\ faults' = 0 /\ ~Crash
<1>1. faults \in Nat /\ crashes \in Nat
  BY ConstantsOK DEF ProcessInv, TypeOK, ConstantsOK
<1>2. faults' = faults \/ faults' = faults + 1
  <2>1. \A kind, o : Reply(kind, o) => faults' = faults \/ faults' = faults + 1
    BY DEF Reply, Fail
  <2>2. ASSUME NEW t \in Threads, Called(t) PROVE faults' = faults \/ faults' = faults + 1
    BY <2>1, <2>2 DEF Called, registerItem, saveAuctionItem, BeginPurchase, cancelListing,
       updateAuctionItem, BeginExpiry
  <2>3. ASSUME NEW t \in Threads, Inside(t) PROVE faults' = faults \/ faults' = faults + 1
    <3>1. CheckBuyer(t) => faults' = faults \/ faults' = faults + 1
      BY DEF CheckBuyer, Fail
    <3>2. CreditSeller(t) \/ DebitBuyer(t) => faults' = faults \/ faults' = faults + 1
      BY <2>1 DEF CreditSeller, DebitBuyer, updateUserBalance
    <3>3. RecordSale(t) \/ (\E id \in Ids : ExpireOne(t, id))
            => faults' = faults \/ faults' = faults + 1
      BY <2>1 DEF RecordSale, ExpireOne, updateAuctionItem
    <3>4. FinishPurchase(t) \/ FinishExpiry(t) => faults' = faults
      BY DEF FinishPurchase, FinishExpiry
    <3> QED
      BY <2>3, <3>1, <3>2, <3>3, <3>4 DEF Inside
  <2>4. Construct => faults' = faults \/ faults' = faults + 1
    BY DEF Construct, Fail
  <2> QED
    BY <2>2, <2>3, <2>4 DEF Next, Tick, Crash, vars
<1>3. crashes' = crashes \/ (Crash /\ crashes' = crashes + 1)
  BY DEF Next, Called, Inside, Construct, registerItem, BeginPurchase, cancelListing, BeginExpiry,
     CheckBuyer, CreditSeller, DebitBuyer, RecordSale, FinishPurchase, ExpireOne, FinishExpiry,
     Tick, Crash, vars
<1> QED
  BY <1>1, <1>2, <1>3 DEF Untroubled, Crash

LEMMA BooksStep == ProcessInv /\ BooksInv /\ [Next]_vars => BooksInv'
<1> SUFFICES ASSUME ProcessInv, BooksInv, [Next]_vars, Untroubled' PROVE Books'
  BY DEF BooksInv
<1>1. faults = 0 /\ faults' = 0 /\ ~Crash /\ Books
  BY TroubleStays DEF BooksInv, Untroubled
<1>2. ASSUME NEW t \in Threads, Called(t) PROVE Books'
  BY <1>1, <1>2, BooksRegister, BooksBeginPurchase, BooksCancel, BooksExpirySteps DEF Called
<1>3. ASSUME NEW t \in Threads, Inside(t) PROVE Books'
  BY <1>1, <1>3, BooksCheckBuyer, BooksCreditSeller, BooksDebitBuyer, BooksRecordSale,
     BooksFinishPurchase, BooksExpireOne, BooksExpirySteps DEF Inside
<1>4. CASE Construct
  BY <1>1, <1>4, BooksConstruct
<1>5. CASE Tick \/ UNCHANGED vars
  <2>1. UNCHANGED <<running, call, auction_items_, next_auction_id_, auctions, balance, sales,
                    credited, charged>>
    BY <1>5 DEF Tick, vars, memory, history
  <2> QED
    BY <1>1, <2>1, BooksTick
<1> QED
  BY <1>1, <1>2, <1>3, <1>4, <1>5 DEF Next

(* As long as no database call failed and the process did not die, every   *)
(* listing was paid and charged exactly as often as its sale was reported, *)
(* and the collection says what memory says, whenever nobody is inside.    *)
THEOREM BooksAlwaysBalance == Spec => []BooksBalance
<1>1. ASSUME ProcessInv, BooksInv PROVE BooksBalance
  <2> SUFFICES ASSUME Quiet, faults = 0, crashes = 0, NEW id \in Ids
               PROVE  /\ credited[id] = Len(sales[id])
                      /\ charged[id] = Len(sales[id])
                      /\ \A i \in Matching(id) :
                           /\ SoldDocument(i) <=> sales[id] # <<>>
                           /\ auctions[i] = itemToBson(auction_items_[id])
    BY DEF BooksBalance
  <2>1. Books /\ Booked(id)
    BY <1>1 DEF BooksInv, Untroubled, Books
  <2>2. \A t \in Threads : call[t] = Idle
    BY <1>1, ConstantsOK DEF ConstantsOK, Quiet, ProcessInv, LockInv
  <2>3. /\ ~Busy(id, {"debit", "record", "finish"}) /\ ~Busy(id, {"record", "finish"})
        /\ ~Busy(id, {"finish"})
    BY <2>2 DEF Busy, Idle
  <2>4. Len(sales[id]) \in Nat
    BY <1>1 DEF ProcessInv, TypeOK
  <2>5. credited[id] = Len(sales[id]) /\ charged[id] = Len(sales[id])
        /\ (auction_items_[id].status = "SOLD" <=> sales[id] # <<>>)
    BY <2>1, <2>3, <2>4 DEF Booked
  <2>6. ASSUME NEW i \in Matching(id)
        PROVE  /\ SoldDocument(i) <=> sales[id] # <<>>
               /\ auctions[i] = itemToBson(auction_items_[id])
    <3>1. i \in DOMAIN auctions /\ auctions[i].id = id
      BY DEF Matching
    <3>2. auctions[i] = itemToBson(auction_items_[id])
      BY <2>1, <3>1 DEF Books, Mirrored
    <3>3. auctions[i].status = auction_items_[id].status
      BY <3>2 DEF itemToBson
    <3> QED
      BY <2>5, <3>2, <3>3 DEF SoldDocument
  <2> QED
    BY <2>5, <2>6
<1>2. Init => ProcessInv /\ BooksInv
  BY ProcessInit, BooksInit DEF BooksInv
<1>3. ProcessInv /\ BooksInv /\ [Next]_vars => (ProcessInv /\ BooksInv)'
  BY ProcessStep, BooksStep
<1> QED
  BY <1>1, <1>2, <1>3, PTL DEF Spec
=============================================================================
