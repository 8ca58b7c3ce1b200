------------------------ MODULE AuctionServiceProofs ------------------------
(***************************************************************************)
(* Proofs about AuctionService, for any sessions, scripts, listings and    *)
(* message sizes: trading changes nothing in what a session does.          *)
(***************************************************************************)
EXTENDS AuctionService, ClientSessionProofs, FiniteSetTheorems

(* A handler that has called the auction house and still has to reply is   *)
(* the handler of a message: every step of the service that touches a      *)
(* session is a step of ClientSession.                                     *)
LEMMA ServiceStep == [ServiceNext]_service => [Next]_vars
<1> SUFFICES ASSUME [ServiceNext]_service PROVE [Next]_vars
  OBVIOUS
<1>1. CASE Elsewhere
  BY <1>1 DEF Elsewhere
<1>2. ASSUME NEW s \in Sessions, Serve(s) PROVE [Next]_vars
  <2>1. CASE Alone(Write(s))
    BY <2>1 DEF Alone, Next
  <2>2. CASE Trade(s)
    BY <2>2 DEF Trade, handle_register_item, handle_purchase_item, handle_cancel_listing, CallHouse
  <2>3. CASE Answer(s)
    BY <2>3 DEF Answer, Next, Read
  <2>4. CASE \/ Alone(HeaderArrives(s)) \/ Alone(handle_read_header(s))
             \/ Alone(BodyArrives(s)) \/ Alone(ReadFails(s))
    BY <2>4 DEF Alone, Next, Read
  <2> QED
    BY <1>2, <2>1, <2>2, <2>3, <2>4 DEF Serve, ServeReads
<1>3. ASSUME NEW s \in Sessions, Alone(SendUnit(s)) \/ Alone(HangUp(s)) PROVE [Next]_vars
  BY <1>3 DEF Alone, Next
<1>4. CASE UNCHANGED service
  BY <1>4 DEF service
<1> QED
  BY <1>1, <1>2, <1>3, <1>4 DEF ServiceNext

(* The sessions of the service are sessions as ClientSession specifies     *)
(* them.                                                                   *)
THEOREM ServiceKeepsSessions == ServiceSpec => Spec
<1>1. ServiceInit => Init
  BY DEF ServiceInit
<1> QED
  BY <1>1, ServiceStep, PTL DEF ServiceSpec, Spec

(* What was proved of a session holds while it trades: one write at a      *)
(* time, the n-th reply for the n-th message, no trade before a login.     *)
THEOREM ServiceRepliesInOrder == ServiceSpec => [](OneWriteAtATime /\ RepliesInOrder /\ TradesFollowLogin)
  BY ServiceKeepsSessions, WritesSerialised, RepliesMatchRequests, LoginsFirst, PTL

(* A session that trades reads the messages of its client whole and in     *)
(* order, when no other session can change the length it read.             *)
THEOREM ServiceMessagesArriveWhole ==
  ASSUME LengthsUndisturbed
  PROVE  ServiceSpec => []MessagesWhole
<1>1. Spec => []MessagesWhole
  BY MessagesArriveWhole
<1> QED
  BY <1>1, ServiceKeepsSessions, PTL

-----------------------------------------------------------------------------
(* The trades of the sessions.  OutcomeAt(s, n) is what the auction house  *)
(* returned to the handler of the n-th message of s; the last one may be   *)
(* still to be answered.                                                   *)
Trades    == {"none", "register", "purchase", "cancel"}
Outcomes  == [trade : Trades, listing : Listings \cup {Nobody}, answer : {"none", "success", "error"}]
Decisions == {"NONE", "ACTIVE", "SOLD", "EXPIRED", "CANCELLED"}

Calls(s) == 1 .. Len(outcomes[s]) + 1
OutcomeAt(s, n) == IF n = Len(outcomes[s]) + 1 THEN outcome[s] ELSE outcomes[s][n]

RecordTypes ==
  /\ status \in [Listings -> Decisions]
  /\ holder \in [Listings -> {SessionUser, Nobody}]
  /\ seller \in [Listings -> {SessionUser, OtherUser, Nobody}]

OutcomeTypes ==
  /\ outcome \in [Sessions -> Outcomes]
  /\ outcomes \in [Sessions -> Seq(Outcomes)]
  /\ \A s \in Sessions : Len(outcomes[s]) = Len(processed[s])

(* The record keeps what an outcome o reports as a success.                *)
Kept(o) ==
  /\ o.trade # "none" => o.listing \in Listings /\ o.answer # "none"
  /\ o.answer = "success" =>
       /\ o.trade = "purchase" => status[o.listing] = "SOLD" /\ holder[o.listing] = SessionUser
       /\ o.trade = "register" => seller[o.listing] = SessionUser
       /\ o.trade = "cancel"   => status[o.listing] = "CANCELLED"

AllKept == \A s \in Sessions : \A n \in Calls(s) : Kept(OutcomeAt(s, n))

(* No reply claims a success that the auction house did not report.        *)
Truthful(o, reply) == reply.answer = "success" => o.answer # "error"
AllTruthful ==
  \A s \in Sessions : \A reply \in RepliesOf(s) :
    reply.to \in DOMAIN outcomes[s] /\ Truthful(outcomes[s][reply.to], reply)

(* Of all the handlers, at most one was told that it bought a listing.     *)
Bought(o, l) == o.trade = "purchase" /\ o.listing = l /\ o.answer = "success"
BoughtOnce ==
  \A l \in Listings : \A s, v \in Sessions : \A n \in Calls(s), m \in Calls(v) :
    Bought(OutcomeAt(s, n), l) /\ Bought(OutcomeAt(v, m), l) => s = v /\ n = m

TradeInv == RecordTypes /\ OutcomeTypes /\ AllKept /\ AllTruthful /\ BoughtOnce

(* What can happen to the record in one step.                              *)
RecordStep ==
  \/ UNCHANGED record
  \/ \E l \in Listings : Register(l) \/ Purchase(l) \/ Cancel(l) \/ ExpireListing(l)

LEMMA RecordStepTypes == RecordTypes /\ RecordStep => RecordTypes'
<1> SUFFICES ASSUME RecordTypes, RecordStep PROVE RecordTypes'
  OBVIOUS
<1>1. ASSUME NEW l \in Listings, Register(l) \/ Purchase(l) \/ Cancel(l) \/ ExpireListing(l)
      PROVE  RecordTypes'
  BY <1>1 DEF RecordTypes, Register, Purchase, Cancel, ExpireListing, Decisions
<1>2. CASE UNCHANGED record
  BY <1>2 DEF record, RecordTypes
<1> QED
  BY <1>1, <1>2 DEF RecordStep

(* Nothing that happens to the listings takes a reported success back.     *)
LEMMA KeptStable ==
  ASSUME RecordTypes, RecordStep, NEW o, Kept(o)
  PROVE  Kept(o)'
<1>1. ASSUME NEW l \in Listings, Register(l) PROVE Kept(o)'
  BY <1>1 DEF RecordTypes, Kept, Register
<1>2. ASSUME NEW l \in Listings, Purchase(l) PROVE Kept(o)'
  BY <1>2 DEF RecordTypes, Kept, Purchase
<1>3. ASSUME NEW l \in Listings, Cancel(l) \/ ExpireListing(l) PROVE Kept(o)'
  BY <1>3 DEF RecordTypes, Kept, Cancel, ExpireListing
<1>4. CASE UNCHANGED record
  BY <1>4 DEF record, Kept
<1> QED
  BY <1>1, <1>2, <1>3, <1>4 DEF RecordStep

-----------------------------------------------------------------------------
LEMMA TradeInit == ServiceInit => TradeInv
<1> SUFFICES ASSUME ServiceInit PROVE TradeInv
  OBVIOUS
<1>1. RecordTypes
  BY DEF ServiceInit, RecordTypes, Decisions
<1>2. NoTrade \in Outcomes /\ Kept(NoTrade) /\ NoTrade.answer = "none"
  BY DEF NoTrade, Outcomes, Trades, Kept
<1>3. OutcomeTypes
  BY <1>2 DEF ServiceInit, Init, OutcomeTypes
<1>4. \A s \in Sessions : /\ outcome[s] = NoTrade /\ Len(outcomes[s]) = 0
                          /\ Calls(s) = {1} /\ OutcomeAt(s, 1) = NoTrade
  BY DEF ServiceInit, Calls, OutcomeAt
<1>5. AllKept
  BY <1>2, <1>4 DEF AllKept
<1>6. AllTruthful
  BY DEF ServiceInit, Init, AllTruthful, RepliesOf, InQueue, Heard
<1>7. BoughtOnce
  BY <1>2, <1>4 DEF BoughtOnce, Bought
<1> QED
  BY <1>1, <1>3, <1>5, <1>6, <1>7 DEF TradeInv

(* Steps that leave the outcomes, and process no message.                  *)
LEMMA TradeUntouched ==
  ASSUME TradeInv, RecordStep, UNCHANGED <<outcome, outcomes, processed>>,
         \A s \in Sessions : RepliesOf(s)' \subseteq RepliesOf(s)
  PROVE  TradeInv'
<1>1. RecordTypes'
  BY RecordStepTypes DEF TradeInv
<1>2. OutcomeTypes'
  BY DEF TradeInv, OutcomeTypes
<1>3. \A s \in Sessions, n \in Nat : OutcomeAt(s, n)' = OutcomeAt(s, n)
  BY DEF OutcomeAt
<1>4. \A s \in Sessions : Calls(s)' = Calls(s) /\ Calls(s) \subseteq Nat
  BY DEF Calls
<1>5. AllKept'
  BY <1>3, <1>4, KeptStable DEF TradeInv, AllKept
<1>6. AllTruthful'
  BY DEF TradeInv, AllTruthful
<1>7. BoughtOnce'
  BY <1>3, <1>4 DEF TradeInv, BoughtOnce
<1> QED
  BY <1>1, <1>2, <1>5, <1>6, <1>7 DEF TradeInv

(* A call of the auction house: the handler of s gets the outcome o.       *)
LEMMA TradeCall ==
  ASSUME TradeInv, RecordStep, NEW s \in Sessions, NEW o \in Outcomes,
         outcome[s] = NoTrade, outcome' = [outcome EXCEPT ![s] = o],
         UNCHANGED <<vars, outcomes>>,
         Kept(o)',
         \A l \in Listings : Bought(o, l) => status[l] # "SOLD"
  PROVE  TradeInv'
<1>1. RecordTypes'
  BY RecordStepTypes DEF TradeInv
<1>2. UNCHANGED <<processed, write_queue_, received>>
  BY DEF vars, output
<1>3. OutcomeTypes'
  BY <1>2 DEF TradeInv, OutcomeTypes
<1>4. \A v \in Sessions : Calls(v)' = Calls(v) /\ Len(outcomes[v]) \in Nat
  BY DEF Calls, TradeInv, OutcomeTypes
<1>5. \A v \in Sessions : outcome'[v] = IF v = s THEN o ELSE outcome[v]
  BY DEF TradeInv, OutcomeTypes
<1>6. \A v \in Sessions, n \in Nat :
        OutcomeAt(v, n)' = IF v = s /\ n = Len(outcomes[s]) + 1 THEN o ELSE OutcomeAt(v, n)
  BY <1>5 DEF OutcomeAt
<1>7. \A v \in Sessions : Calls(v) \subseteq Nat
  BY DEF Calls
<1>8. AllKept'
  <2> SUFFICES ASSUME NEW v \in Sessions, NEW n \in Calls(v) PROVE Kept(OutcomeAt(v, n))'
    BY <1>4 DEF AllKept
  <2>1. CASE v = s /\ n = Len(outcomes[s]) + 1
    <3>1. OutcomeAt(v, n)' = o
      BY <1>6, <1>7, <2>1
    <3> QED
      BY <3>1 DEF Kept
  <2>2. CASE ~(v = s /\ n = Len(outcomes[s]) + 1)
    <3>1. OutcomeAt(v, n)' = OutcomeAt(v, n)
      BY <1>6, <1>7, <2>2
    <3>2. PICK x : x = OutcomeAt(v, n)
      OBVIOUS
    <3>3. Kept(x)
      BY <3>2 DEF TradeInv, AllKept
    <3>4. Kept(x)'
      BY <3>3, KeptStable DEF TradeInv
    <3> QED
      BY <3>1, <3>2, <3>4 DEF Kept
  <2> QED
    BY <2>1, <2>2
<1>9. AllTruthful'
  BY <1>2 DEF TradeInv, AllTruthful, RepliesOf, InQueue, Heard
<1>10. ASSUME NEW l \in Listings, NEW v \in Sessions, NEW w \in Sessions,
              NEW n \in Calls(v), NEW m \in Calls(w),
              Bought(OutcomeAt(v, n), l)', Bought(OutcomeAt(w, m), l)'
       PROVE  v = w /\ n = m
  <2>1. ASSUME NEW x \in Sessions, NEW k \in Calls(x), Bought(OutcomeAt(x, k), l)
        PROVE  status[l] = "SOLD"
    BY <2>1 DEF TradeInv, AllKept, Kept, Bought
  <2>2. CASE Bought(o, l)
    <3>1. ASSUME NEW x \in Sessions, NEW k \in Calls(x), Bought(OutcomeAt(x, k), l)'
          PROVE  x = s /\ k = Len(outcomes[s]) + 1
      <4>1. CASE ~(x = s /\ k = Len(outcomes[s]) + 1)
        <5>1. OutcomeAt(x, k)' = OutcomeAt(x, k)
          BY <1>6, <1>7, <4>1
        <5>2. Bought(OutcomeAt(x, k), l)
          BY <3>1, <5>1 DEF Bought
        <5> QED
          BY <2>1, <2>2, <5>2
      <4> QED
        BY <4>1
    <3> QED
      BY <1>10, <3>1
  <2>3. CASE ~Bought(o, l)
    <3>1. ASSUME NEW x \in Sessions, NEW k \in Calls(x), Bought(OutcomeAt(x, k), l)'
          PROVE  Bought(OutcomeAt(x, k), l)
      <4>1. CASE x = s /\ k = Len(outcomes[s]) + 1
        <5>1. OutcomeAt(x, k)' = o
          BY <1>6, <1>7, <4>1
        <5> QED
          BY <2>3, <3>1, <5>1 DEF Bought
      <4>2. CASE ~(x = s /\ k = Len(outcomes[s]) + 1)
        <5>1. OutcomeAt(x, k)' = OutcomeAt(x, k)
          BY <1>6, <1>7, <4>2
        <5> QED
          BY <3>1, <5>1 DEF Bought
      <4> QED
        BY <4>1, <4>2
    <3> QED
      BY <1>10, <3>1 DEF TradeInv, BoughtOnce
  <2> QED
    BY <2>2, <2>3
<1>11. BoughtOnce'
  BY <1>4, <1>10 DEF BoughtOnce
<1> QED
  BY <1>1, <1>3, <1>8, <1>9, <1>11 DEF TradeInv

LEMMA TradeCallHouse ==
  ASSUME TradeInv, NEW s \in Sessions, Trade(s)
  PROVE  TradeInv'
<1>1. ASSUME NEW l \in Listings, NEW trade \in Trades \ {"none"}, NEW answer \in {"success", "error"},
             outcome[s] = NoTrade,
             outcome' = [outcome EXCEPT ![s] = [trade |-> trade, listing |-> l, answer |-> answer]],
             UNCHANGED <<vars, outcomes>>,
             RecordStep,
             answer = "success" => CASE trade = "purchase" -> Purchase(l)
                                     [] trade = "register" -> Register(l)
                                     [] trade = "cancel"   -> Cancel(l)
      PROVE  TradeInv'
  <2>1. PICK o \in Outcomes : o = [trade |-> trade, listing |-> l, answer |-> answer]
    BY <1>1 DEF Outcomes
  <2>2. o.trade = trade /\ o.listing = l /\ o.answer = answer
    BY <2>1
  <2>3. Kept(o)'
    <3>1. answer = "success" /\ trade = "purchase" => status'[l] = "SOLD" /\ holder'[l] = SessionUser
      BY <1>1 DEF Purchase, TradeInv, RecordTypes
    <3>2. answer = "success" /\ trade = "register" => seller'[l] = SessionUser
      BY <1>1 DEF Register, TradeInv, RecordTypes
    <3>3. answer = "success" /\ trade = "cancel" => status'[l] = "CANCELLED"
      BY <1>1 DEF Cancel, TradeInv, RecordTypes
    <3> QED
      BY <1>1, <2>2, <3>1, <3>2, <3>3 DEF Kept
  <2>4. \A x \in Listings : Bought(o, x) => status[x] # "SOLD"
    BY <1>1, <2>2 DEF Bought, Purchase
  <2> QED
    BY <1>1, <2>1, <2>3, <2>4, TradeCall
<1>2. PICK l \in Listings : \/ handle_register_item(s, l)
                            \/ handle_purchase_item(s, l)
                            \/ handle_cancel_listing(s, l)
  BY DEF Trade
<1>3. CASE handle_register_item(s, l)
  <2>1. PICK answer \in {"success", "error"} :
          /\ outcome' = [outcome EXCEPT ![s] = [trade |-> "register", listing |-> l, answer |-> answer]]
          /\ Register(l) \/ (answer = "error" /\ UNCHANGED record)
    BY <1>3 DEF handle_register_item, CallHouse
  <2>2. outcome[s] = NoTrade /\ UNCHANGED <<vars, outcomes>>
    BY <1>3 DEF handle_register_item, CallHouse, Calling
  <2> QED
    BY <1>1, <2>1, <2>2 DEF RecordStep, Trades
<1>4. CASE handle_purchase_item(s, l)
  <2>1. PICK answer \in {"success", "error"} :
          /\ outcome' = [outcome EXCEPT ![s] = [trade |-> "purchase", listing |-> l, answer |-> answer]]
          /\ Purchase(l) \/ (answer = "error" /\ UNCHANGED record)
    BY <1>4 DEF handle_purchase_item, CallHouse
  <2>2. outcome[s] = NoTrade /\ UNCHANGED <<vars, outcomes>>
    BY <1>4 DEF handle_purchase_item, CallHouse, Calling
  <2> QED
    BY <1>1, <2>1, <2>2 DEF RecordStep, Trades
<1>5. CASE handle_cancel_listing(s, l)
  <2>1. PICK answer \in {"success", "error"} :
          /\ outcome' = [outcome EXCEPT ![s] = [trade |-> "cancel", listing |-> l, answer |-> answer]]
          /\ Cancel(l) \/ (answer = "error" /\ UNCHANGED record)
    BY <1>5 DEF handle_cancel_listing, CallHouse
  <2>2. outcome[s] = NoTrade /\ UNCHANGED <<vars, outcomes>>
    BY <1>5 DEF handle_cancel_listing, CallHouse, Calling
  <2> QED
    BY <1>1, <2>1, <2>2 DEF RecordStep, Trades
<1> QED
  BY <1>2, <1>3, <1>4, <1>5

(* The reply of a handler: its outcome joins those of the messages that    *)
(* were answered.                                                          *)
LEMMA TradeAnswer ==
  ASSUME TradeInv, SessionInv, NEW s \in Sessions, Answer(s)
  PROVE  TradeInv'
<1>1. /\ Len(processed'[s]) = Len(processed[s]) + 1
      /\ \A v \in Sessions \ {s} : processed'[v] = processed[v]
      /\ \A v \in Sessions \ {s} : RepliesOf(v)' \subseteq RepliesOf(v)
  BY ProcessAddsReply DEF Answer
<1>2. PICK reply \in Replies :
        /\ reply = write_queue_'[s][Len(write_queue_'[s])]
        /\ reply.to = Len(processed[s]) + 1
        /\ RepliesOf(s)' \subseteq RepliesOf(s) \cup {reply}
  BY ProcessAddsReply DEF Answer
<1>3. UNCHANGED record /\ UNCHANGED <<status, holder, seller>>
  BY DEF Answer, record
<1>4. NoTrade \in Outcomes /\ Kept(NoTrade)' /\ NoTrade.answer = "none"
  BY DEF NoTrade, Outcomes, Trades, Kept
<1>5. outcome[s] \in Outcomes /\ outcomes[s] \in Seq(Outcomes) /\ Len(outcomes[s]) = Len(processed[s])
      /\ outcome \in [Sessions -> Outcomes] /\ outcomes \in [Sessions -> Seq(Outcomes)]
  BY DEF TradeInv, OutcomeTypes
<1>6. PICK os : os = Append(outcomes[s], outcome[s])
  OBVIOUS
<1>7. /\ os \in Seq(Outcomes) /\ Len(os) = Len(outcomes[s]) + 1 /\ Len(outcomes[s]) \in Nat
      /\ os[Len(outcomes[s]) + 1] = outcome[s] /\ DOMAIN os = 1 .. Len(outcomes[s]) + 1
      /\ \A n \in 1 .. Len(outcomes[s]) : os[n] = outcomes[s][n]
  BY <1>5, <1>6, AppendedElements
<1>8. /\ outcomes' = [outcomes EXCEPT ![s] = os]
      /\ outcome' = [outcome EXCEPT ![s] = NoTrade]
  BY <1>6 DEF Answer
<1>9. \A v \in Sessions : /\ outcomes'[v] = IF v = s THEN os ELSE outcomes[v]
                          /\ outcome'[v] = IF v = s THEN NoTrade ELSE outcome[v]
  BY <1>5, <1>8
<1>10. RecordTypes'
  BY <1>3, RecordStepTypes DEF TradeInv, RecordStep
<1>11. OutcomeTypes'
  <2>1. outcome' \in [Sessions -> Outcomes] /\ outcomes' \in [Sessions -> Seq(Outcomes)]
    BY <1>4, <1>5, <1>7, <1>8
  <2>2. \A v \in Sessions : Len(outcomes'[v]) = Len(processed'[v])
    BY <1>1, <1>5, <1>7, <1>9 DEF TradeInv, OutcomeTypes
  <2> QED
    BY <2>1, <2>2 DEF OutcomeTypes
<1>12. \A v \in Sessions \ {s} : Calls(v)' = Calls(v)
  BY <1>9 DEF Calls
<1>13. \A v \in Sessions \ {s} : \A n \in Calls(v) : OutcomeAt(v, n)' = OutcomeAt(v, n)
  BY <1>9 DEF OutcomeAt
<1>14. PICK next \in Nat : next = Len(outcomes[s]) + 2
  BY <1>7
<1>15. /\ Calls(s)' = Calls(s) \cup {next} /\ OutcomeAt(s, next)' = NoTrade
       /\ \A v \in Sessions : Calls(v)' \subseteq Nat
  <2>1. Len(outcomes'[s]) + 1 = next
    BY <1>7, <1>9, <1>14
  <2>2. Calls(s)' = 1 .. next /\ Calls(s) = 1 .. Len(outcomes[s]) + 1
    BY <2>1 DEF Calls
  <2>3. OutcomeAt(s, next)' = NoTrade
    BY <1>9, <2>1 DEF OutcomeAt
  <2>4. \A v \in Sessions : Calls(v)' \subseteq Nat
    BY DEF Calls
  <2> QED
    BY <1>7, <1>14, <2>2, <2>3, <2>4
<1>16. ASSUME NEW n \in Calls(s) PROVE OutcomeAt(s, n)' = OutcomeAt(s, n)
  <2>1. n # Len(outcomes'[s]) + 1 /\ n \in 1 .. Len(outcomes[s]) + 1
    BY <1>7, <1>9 DEF Calls
  <2>2. OutcomeAt(s, n)' = os[n]
    BY <1>9, <2>1 DEF OutcomeAt
  <2>3. CASE n = Len(outcomes[s]) + 1
    BY <1>7, <2>2, <2>3 DEF OutcomeAt
  <2>4. CASE n \in 1 .. Len(outcomes[s])
    BY <1>7, <2>2, <2>4 DEF OutcomeAt
  <2> QED
    BY <1>7, <2>1, <2>3, <2>4
<1>17. ASSUME NEW v \in Sessions, NEW n \in Calls(v)'
       PROVE  \/ n \in Calls(v) /\ OutcomeAt(v, n)' = OutcomeAt(v, n)
              \/ OutcomeAt(v, n)' = NoTrade
  <2>1. CASE v # s
    BY <1>12, <1>13, <2>1
  <2>2. CASE v = s /\ n \in Calls(s)
    BY <1>16, <2>2
  <2>3. CASE v = s /\ n = next
    BY <1>15, <2>3
  <2> QED
    BY <1>15, <2>1, <2>2, <2>3
<1>18. AllKept'
  <2> SUFFICES ASSUME NEW v \in Sessions, NEW n \in Calls(v)' PROVE Kept(OutcomeAt(v, n))'
    BY DEF AllKept
  <2>1. CASE n \in Calls(v) /\ OutcomeAt(v, n)' = OutcomeAt(v, n)
    <3>1. Kept(OutcomeAt(v, n))
      BY <2>1 DEF TradeInv, AllKept
    <3> QED
      BY <1>3, <2>1, <3>1 DEF Kept
  <2>2. CASE OutcomeAt(v, n)' = NoTrade
    BY <1>4, <2>2 DEF Kept
  <2> QED
    BY <1>17, <2>1, <2>2
<1>19. BoughtOnce'
  <2> SUFFICES ASSUME NEW l \in Listings, NEW v \in Sessions, NEW w \in Sessions,
                      NEW n \in Calls(v)', NEW m \in Calls(w)',
                      Bought(OutcomeAt(v, n), l)', Bought(OutcomeAt(w, m), l)'
               PROVE  v = w /\ n = m
    BY DEF BoughtOnce
  <2>1. n \in Calls(v) /\ Bought(OutcomeAt(v, n), l)
    BY <1>4, <1>17 DEF Bought
  <2>2. m \in Calls(w) /\ Bought(OutcomeAt(w, m), l)
    BY <1>4, <1>17 DEF Bought
  <2> QED
    BY <2>1, <2>2 DEF TradeInv, BoughtOnce
<1>20. ASSUME NEW v \in Sessions, NEW r \in RepliesOf(v)'
       PROVE  r.to \in DOMAIN outcomes'[v] /\ Truthful(outcomes'[v][r.to], r)
  <2>1. CASE r \in RepliesOf(v)
    <3>1. r.to \in DOMAIN outcomes[v] /\ Truthful(outcomes[v][r.to], r)
      BY <2>1 DEF TradeInv, AllTruthful
    <3>2. CASE v = s
      <4>1. r.to \in 1 .. Len(outcomes[s])
        BY <1>5, <3>1, <3>2
      <4>2. r.to \in DOMAIN os /\ os[r.to] = outcomes[s][r.to]
        BY <1>7, <4>1
      <4> QED
        BY <1>9, <3>1, <3>2, <4>2
    <3>3. CASE v # s
      BY <1>9, <3>1, <3>3
    <3> QED
      BY <3>2, <3>3
  <2>2. CASE v = s /\ r = reply
    <3>1. r.to = Len(outcomes[s]) + 1 /\ r.to \in DOMAIN os /\ os[r.to] = outcome[s]
      BY <1>2, <1>5, <1>7, <2>2
    <3>2. r.answer = Last(write_queue_'[s]).answer
      BY <1>2, <2>2 DEF Last
    <3>3. outcome[s] # NoTrade => r.answer = outcome[s].answer
      BY <3>2 DEF Answer
    <3>4. Truthful(outcome[s], r)
      <4>1. CASE outcome[s] = NoTrade
        BY <1>4, <4>1 DEF Truthful
      <4>2. CASE outcome[s] # NoTrade
        BY <3>3, <4>2 DEF Truthful
      <4> QED
        BY <4>1, <4>2
    <3> QED
      BY <1>9, <2>2, <3>1, <3>4
  <2> QED
    BY <1>1, <1>2, <2>1, <2>2
<1>21. AllTruthful'
  BY <1>20 DEF AllTruthful
<1> QED
  BY <1>10, <1>11, <1>18, <1>19, <1>21 DEF TradeInv

LEMMA TradeStep == TradeInv /\ SessionInv /\ [ServiceNext]_service => TradeInv'
<1> SUFFICES ASSUME TradeInv, SessionInv, [ServiceNext]_service PROVE TradeInv'
  OBVIOUS
<1>1. ASSUME RecordStep, UNCHANGED <<outcome, outcomes, processed, write_queue_, received>>
      PROVE  TradeInv'
  <2>1. \A s \in Sessions : RepliesOf(s)' = RepliesOf(s)
    BY <1>1 DEF RepliesOf, InQueue, Heard
  <2> QED
    BY <1>1, <2>1, TradeUntouched
<1>2. CASE Elsewhere
  BY <1>1, <1>2 DEF Elsewhere, RecordStep, vars, output
<1>3. ASSUME NEW s \in Sessions, Alone(Write(s)) PROVE TradeInv'
  <2>1. UNCHANGED <<record, outcome, outcomes, processed>> /\ Write(s)
    BY <1>3 DEF Alone, Write, WriteCompletes, handle_write
  <2>2. \A v \in Sessions : RepliesOf(v)' \subseteq RepliesOf(v)
    BY <2>1, WriteKeepsReplies
  <2> QED
    BY <2>1, <2>2, TradeUntouched DEF RecordStep
<1>4. ASSUME NEW s \in Sessions, Trade(s) PROVE TradeInv'
  BY <1>4, TradeCallHouse
<1>5. ASSUME NEW s \in Sessions, Answer(s) PROVE TradeInv'
  BY <1>5, TradeAnswer
<1>6. ASSUME NEW s \in Sessions, \/ Alone(HeaderArrives(s)) \/ Alone(handle_read_header(s))
                                 \/ Alone(BodyArrives(s)) \/ Alone(ReadFails(s))
                                 \/ Alone(SendUnit(s)) \/ Alone(HangUp(s))
      PROVE  TradeInv'
  <2>1. UNCHANGED <<record, outcome, outcomes, processed, output>>
    BY <1>6 DEF Alone, HeaderArrives, handle_read_header, BodyArrives, ReadFails, SendUnit, HangUp
  <2> QED
    BY <1>1, <2>1 DEF RecordStep, output
<1>7. CASE UNCHANGED service
  BY <1>1, <1>7 DEF service, vars, output, RecordStep
<1> QED
  BY <1>2, <1>3, <1>4, <1>5, <1>6, <1>7 DEF ServiceNext, Serve, ServeReads

LEMMA TradeInvariant == ServiceSpec => [](TradeInv /\ SessionInv)
<1>1. ServiceSpec => []SessionInv
  BY ServiceKeepsSessions, SessionInvariant, PTL
<1> QED
  BY <1>1, TradeInit, TradeStep, PTL DEF ServiceSpec

(* A client that reads "success" has the listing, or has offered it, or    *)
(* has withdrawn it, whatever the other sessions do before it reads.       *)
THEOREM SuccessesRecorded == ServiceSpec => []SuccessIsRecorded
<1>1. ASSUME TradeInv, SessionInv PROVE SuccessIsRecorded
  <2> SUFFICES ASSUME NEW s \in Sessions, NEW n \in DOMAIN received[s],
                      received[s][n].reply.answer = "success"
               PROVE  LET told == outcomes[s][received[s][n].reply.to]
                      IN  CASE told.trade = "purchase" -> status[told.listing] = "SOLD"
                                                          /\ holder[told.listing] = SessionUser
                            [] told.trade = "register" -> seller[told.listing] = SessionUser
                            [] told.trade = "cancel"   -> status[told.listing] = "CANCELLED"
                            [] OTHER                   -> TRUE
    BY DEF SuccessIsRecorded
  <2> DEFINE reply == received[s][n].reply
             told  == outcomes[s][reply.to]
  <2>1. reply \in RepliesOf(s)
    BY DEF RepliesOf, Heard
  <2>2. reply.to \in DOMAIN outcomes[s] /\ told.answer # "error"
    BY <1>1, <2>1 DEF TradeInv, AllTruthful, Truthful
  <2>3. outcomes[s] \in Seq(Outcomes)
    BY <1>1 DEF TradeInv, OutcomeTypes
  <2>4. told \in Outcomes /\ reply.to \in 1 .. Len(outcomes[s]) /\ Len(outcomes[s]) \in Nat
    BY <2>2, <2>3
  <2>5. Kept(told)
    <3>1. reply.to \in Calls(s) /\ OutcomeAt(s, reply.to) = told
      BY <2>4 DEF Calls, OutcomeAt
    <3> QED
      BY <1>1, <3>1 DEF TradeInv, AllKept
  <2>6. told.trade # "none" => told.answer = "success"
    BY <2>2, <2>4, <2>5 DEF Kept, Outcomes
  <2> HIDE DEF told, reply
  <2>7. told.trade \in Trades
    BY <2>4 DEF Outcomes
  <2>8. CASE told.trade = "none"
    BY <2>8 DEF told, reply
  <2>9. CASE told.trade # "none"
    <3>1. /\ told.trade = "purchase" => status[told.listing] = "SOLD" /\ holder[told.listing] = SessionUser
          /\ told.trade = "register" => seller[told.listing] = SessionUser
          /\ told.trade = "cancel"   => status[told.listing] = "CANCELLED"
      BY <2>5, <2>6, <2>9 DEF Kept
    <3> QED
      BY <3>1 DEF told, reply
  <2> QED
    BY <2>8, <2>9
<1> QED
  BY <1>1, TradeInvariant, PTL

-----------------------------------------------------------------------------
(* The service as a Marketplace.                                           *)

(* Who heard of a purchase of l, and where.                                *)
HeardOf(l) == UNION {{s} \X Told(s, l) : s \in Sessions}
AllReceipts == [l \in Listings |-> Receipts(l)]

LEMMA HeardPairs ==
  ASSUME NEW l
  PROVE  /\ \A s \in Sessions : \A n \in Told(s, l) : <<s, n>> \in HeardOf(l)
         /\ \A x \in HeardOf(l) : \E s \in Sessions : \E n \in Told(s, l) : x = <<s, n>>
  BY DEF HeardOf

LEMMA ReceiptsOfOne ==
  ASSUME NEW l
  PROVE  /\ HeardOf(l) = {} => Receipts(l) = <<>>
         /\ \A x : HeardOf(l) = {x} => Receipts(l) = <<SessionUser>>
<1>1. Receipts(l) = [n \in 1 .. Cardinality(HeardOf(l)) |-> SessionUser]
  BY DEF Receipts, HeardOf
<1>2. Cardinality({}) = 0 /\ \A x : Cardinality({x}) = 1
  BY FS_EmptySet, FS_Singleton
<1>3. [n \in 1 .. 0 |-> SessionUser] = <<>> /\ [n \in 1 .. 1 |-> SessionUser] = <<SessionUser>>
  OBVIOUS
<1> DEFINE Heads == Cardinality(HeardOf(l))
<1>4. HeardOf(l) = {} => Heads = 0
  BY <1>2
<1>5. \A x : HeardOf(l) = {x} => Heads = 1
  BY <1>2
<1> HIDE DEF Heads
<1>6. Heads = 0 => [n \in 1 .. Heads |-> SessionUser] = <<>>
  BY <1>3
<1>7. Heads = 1 => [n \in 1 .. Heads |-> SessionUser] = <<SessionUser>>
  BY <1>3
<1>8. Receipts(l) = [n \in 1 .. Heads |-> SessionUser]
  BY <1>1 DEF Heads
<1> QED
  BY <1>4, <1>5, <1>6, <1>7, <1>8

LEMMA ReceiptsOfOneNext ==
  ASSUME NEW l
  PROVE  \A x : HeardOf(l)' = {x} => Receipts(l)' = <<SessionUser>>
<1>1. \A x : HeardOf(l) = {x} => Receipts(l) = <<SessionUser>>
  BY ReceiptsOfOne
<1>2. (\A x : HeardOf(l) = {x} => Receipts(l) = <<SessionUser>>)'
  BY <1>1, PTL
<1> QED
  BY <1>2

(* A client that was told of a purchase is the one whose handler made it.  *)
ToldBuyers ==
  \A l \in Listings : \A s \in Sessions : \A n \in Told(s, l) :
    n \in Calls(s) /\ Bought(OutcomeAt(s, n), l)

LEMMA ToldWasBought == TradeInv /\ SessionInv => ToldBuyers
<1> SUFFICES ASSUME TradeInv, SessionInv,
                    NEW l \in Listings, NEW s \in Sessions, NEW n \in Told(s, l)
             PROVE  n \in Calls(s) /\ Bought(OutcomeAt(s, n), l)
  BY DEF ToldBuyers
<1> DEFINE reply == received[s][n].reply
<1>1. /\ n \in DOMAIN received[s] /\ reply.answer = "success"
      /\ outcomes[s][reply.to].trade = "purchase" /\ outcomes[s][reply.to].listing = l
  BY DEF Told
<1>2. reply.to = n
  <2>1. received[s] \in Seq(Deliveries) /\ Delivered(received[s], Len(processed[s]))
    BY DEF SessionInv, OutputTypes, OrderInv, OrderOf, Ordered
  <2> QED
    BY <1>1, <2>1 DEF Delivered
<1>3. n \in DOMAIN outcomes[s] /\ outcomes[s][n].answer # "error"
  <2>1. reply \in RepliesOf(s)
    BY <1>1 DEF RepliesOf, Heard
  <2> QED
    BY <1>1, <1>2, <2>1 DEF TradeInv, AllTruthful, Truthful
<1>4. outcomes[s] \in Seq(Outcomes)
  BY DEF TradeInv, OutcomeTypes
<1>5. n \in 1 .. Len(outcomes[s]) /\ Len(outcomes[s]) \in Nat /\ outcomes[s][n] \in Outcomes
  BY <1>3, <1>4
<1>6. n \in Calls(s) /\ OutcomeAt(s, n) = outcomes[s][n]
  BY <1>5 DEF Calls, OutcomeAt
<1>7. outcomes[s][n].answer = "success"
  <2>1. Kept(outcomes[s][n])
    BY <1>6 DEF TradeInv, AllKept
  <2> QED
    BY <1>1, <1>2, <1>3, <1>5, <2>1 DEF Kept, Outcomes
<1> QED
  BY <1>1, <1>2, <1>6, <1>7 DEF Bought

LEMMA ToldWasBoughtNext == TradeInv' /\ SessionInv' => ToldBuyers'
  BY ToldWasBought, PTL

(* What was returned to a handler is not changed later.                    *)
LEMMA OutcomesKept ==
  ASSUME TradeInv, [ServiceNext]_service
  PROVE  \A s \in Sessions : \A k \in DOMAIN outcomes[s] : outcomes'[s][k] = outcomes[s][k]
<1>1. outcomes \in [Sessions -> Seq(Outcomes)] /\ outcome \in [Sessions -> Outcomes]
  BY DEF TradeInv, OutcomeTypes
<1>2. ASSUME NEW v \in Sessions, Answer(v), NEW s \in Sessions, NEW k \in DOMAIN outcomes[s]
      PROVE  outcomes'[s][k] = outcomes[s][k]
  <2>1. PICK os : os = Append(outcomes[v], outcome[v])
    OBVIOUS
  <2>2. \A j \in DOMAIN outcomes[v] : os[j] = outcomes[v][j]
    BY <1>1, <2>1, AppendedElements
  <2>3. outcomes'[s] = IF s = v THEN os ELSE outcomes[s]
    BY <1>1, <1>2, <2>1 DEF Answer
  <2> QED
    BY <2>2, <2>3
<1>3. UNCHANGED outcomes \/ \E v \in Sessions : Answer(v)
  BY DEF ServiceNext, Elsewhere, Serve, ServeReads, Alone, Trade, handle_register_item,
     handle_purchase_item, handle_cancel_listing, CallHouse, service
<1> QED
  BY <1>2, <1>3

(* Nobody hears anything: what the marketplace sees is the record.         *)
LEMMA NobodyHears ==
  ASSUME TradeInv, SessionInv, [ServiceNext]_service, UNCHANGED received
  PROVE  UNCHANGED AllReceipts
<1>1. \A s \in Sessions : \A n \in DOMAIN received[s] :
        outcomes'[s][received[s][n].reply.to] = outcomes[s][received[s][n].reply.to]
  <2> TAKE s \in Sessions
  <2> TAKE n \in DOMAIN received[s]
  <2>1. received[s][n].reply \in RepliesOf(s)
    BY DEF RepliesOf, Heard
  <2>2. received[s][n].reply.to \in DOMAIN outcomes[s]
    BY <2>1 DEF TradeInv, AllTruthful
  <2> QED
    BY <2>2, OutcomesKept
<1>2. \A l, s : s \in Sessions => Told(s, l)' = Told(s, l)
  BY <1>1 DEF Told
<1>3. \A l \in Listings : Receipts(l)' = Receipts(l)
  <2> TAKE l \in Listings
  <2>1. HeardOf(l)' = HeardOf(l)
    BY <1>2 DEF HeardOf
  <2> QED
    BY <2>1 DEF Receipts, HeardOf
<1> QED
  BY <1>3 DEF AllReceipts

(* One client hears one more reply.  If it is that a purchase succeeded,   *)
(* nobody had heard of a purchase of that listing.                         *)
LEMMA SomebodyHears ==
  ASSUME TradeInv, SessionInv, TradeInv', SessionInv', [ServiceNext]_service, UNCHANGED record,
         NEW s \in Sessions, NEW reply \in Replies, Delivers(s, reply)
  PROVE  \/ UNCHANGED AllReceipts
         \/ \E l \in Listings :
              /\ status[l] = "SOLD" /\ AllReceipts[l] = <<>>
              /\ AllReceipts' = [AllReceipts EXCEPT ![l] = <<holder[l]>>]
<1>1. PICK d \in Deliveries :
        d.reply = reply /\ received' = [received EXCEPT ![s] = Append(@, d)]
  <2>1. PICK framed \in BOOLEAN :
          received' = [received EXCEPT ![s] = Append(@, [reply |-> reply, framed |-> framed])]
    BY DEF Delivers
  <2>2. PICK d \in Deliveries : d = [reply |-> reply, framed |-> framed]
    BY DEF Deliveries
  <2> QED
    BY <2>1, <2>2
<1>2. PICK m \in Nat : m = Len(received[s]) + 1
  BY DEF SessionInv, OutputTypes
<1>3. PICK r : r = Append(received[s], d)
  OBVIOUS
<1>4. /\ DOMAIN r = DOMAIN received[s] \cup {m} /\ m \notin DOMAIN received[s] /\ r[m] = d
      /\ \A k \in DOMAIN received[s] : r[k] = received[s][k]
      /\ received'[s] = r /\ \A v \in Sessions \ {s} : received'[v] = received[v]
  BY <1>1, <1>2, <1>3, AppendedElements DEF SessionInv, OutputTypes
<1>5. ASSUME NEW v \in Sessions, NEW n \in DOMAIN received[v]
      PROVE  outcomes'[v][received[v][n].reply.to] = outcomes[v][received[v][n].reply.to]
  <2>1. received[v][n].reply \in RepliesOf(v)
    BY DEF RepliesOf, Heard
  <2>2. received[v][n].reply.to \in DOMAIN outcomes[v]
    BY <2>1 DEF TradeInv, AllTruthful
  <2> QED
    BY <2>2, OutcomesKept
<1>6. PICK told : told = outcomes'[s][reply.to]
  OBVIOUS
<1> DEFINE New(l) == reply.answer = "success" /\ told.trade = "purchase" /\ told.listing = l
<1>7. \A l : /\ \A v \in Sessions \ {s} : Told(v, l)' = Told(v, l)
             /\ Told(s, l)' = Told(s, l) \cup (IF New(l) THEN {m} ELSE {})
  <2> TAKE l
  <2>1. \A v \in Sessions \ {s} : Told(v, l)' = Told(v, l)
    BY <1>4, <1>5 DEF Told
  <2>2. Told(s, l)' = {n \in DOMAIN r : /\ r[n].reply.answer = "success"
                                        /\ outcomes'[s][r[n].reply.to].trade = "purchase"
                                        /\ outcomes'[s][r[n].reply.to].listing = l}
    BY <1>4 DEF Told
  <2>3. \A n \in DOMAIN received[s] : n \in Told(s, l)' <=> n \in Told(s, l)
    BY <1>4, <1>5, <2>2 DEF Told
  <2>4. m \in Told(s, l)' <=> New(l)
    BY <1>1, <1>4, <1>6, <2>2
  <2>5. Told(s, l) \subseteq DOMAIN received[s] /\ Told(s, l)' \subseteq DOMAIN received[s] \cup {m}
    BY <1>4, <2>2 DEF Told
  <2> QED
    BY <1>4, <2>1, <2>3, <2>4, <2>5
<1>8. ASSUME NEW l \in Listings, ~New(l)
      PROVE  Receipts(l)' = Receipts(l)
  <2>1. \A v \in Sessions : Told(v, l)' = Told(v, l)
    BY <1>7, <1>8
  <2>2. HeardOf(l)' = HeardOf(l)
    BY <2>1 DEF HeardOf
  <2> QED
    BY <2>2 DEF Receipts, HeardOf
<1>9. CASE \A l \in Listings : ~New(l)
  BY <1>8, <1>9 DEF AllReceipts
<1>10. CASE \E l \in Listings : New(l)
  <2>1. PICK l \in Listings : New(l)
    BY <1>10
  <2>2. \A x \in Listings \ {l} : ~New(x)
    BY <2>1
  <2> HIDE DEF New
  <2>3. m \in Told(s, l)' /\ m \notin Told(s, l)
    BY <1>4, <1>7, <2>1 DEF Told
  <2>4. ASSUME NEW v \in Sessions, NEW n \in Told(v, l)' PROVE v = s /\ n = m
    <3>1. ToldBuyers'
      BY ToldWasBoughtNext
    <3>2. n \in Calls(v)' /\ Bought(OutcomeAt(v, n), l)'
      BY <3>1 DEF ToldBuyers
    <3>3. m \in Calls(s)' /\ Bought(OutcomeAt(s, m), l)'
      BY <2>3, <3>1 DEF ToldBuyers
    <3>4. BoughtOnce'
      BY DEF TradeInv
    <3> QED
      BY <3>2, <3>3, <3>4 DEF BoughtOnce
  <2>5. HeardOf(l)' = {<<s, m>>}
    <3>1. <<s, m>> \in HeardOf(l)'
      BY <2>3 DEF HeardOf
    <3>2. \A x \in HeardOf(l)' : x = <<s, m>>
      BY <2>4 DEF HeardOf
    <3> QED
      BY <3>1, <3>2
  <2>6. HeardOf(l) = {}
    <3>1. ASSUME NEW v \in Sessions, NEW n \in Told(v, l) PROVE FALSE
      <4>1. n \in Told(v, l)'
        BY <1>7
      <4> QED
        BY <2>3, <2>4, <3>1, <4>1
    <3> QED
      BY <3>1 DEF HeardOf
  <2>7. Receipts(l) = <<>> /\ Receipts(l)' = <<SessionUser>>
    <3>1. Receipts(l) = <<>>
      BY <2>6, ReceiptsOfOne
    <3>2. \A x : HeardOf(l)' = {x} => Receipts(l)' = <<SessionUser>>
      BY ReceiptsOfOneNext
    <3> QED
      BY <2>5, <3>1, <3>2
  <2>8. status[l] = "SOLD" /\ holder[l] = SessionUser
    <3>1. m \in Calls(s)' /\ Bought(OutcomeAt(s, m), l)'
      BY <2>3, ToldWasBoughtNext DEF ToldBuyers
    <3>2. Kept(OutcomeAt(s, m))'
      BY <3>1 DEF TradeInv, AllKept
    <3>3. status'[l] = "SOLD" /\ holder'[l] = SessionUser
      BY <3>1, <3>2 DEF Kept, Bought
    <3> QED
      BY <3>3 DEF record
  <2>9. \A x \in Listings : Receipts(x)' = IF x = l THEN <<holder[l]>> ELSE Receipts(x)
    BY <1>8, <2>2, <2>7, <2>8
  <2>10. AllReceipts[l] = <<>> /\ AllReceipts' = [AllReceipts EXCEPT ![l] = <<holder[l]>>]
    BY <2>7, <2>9 DEF AllReceipts
  <2> QED
    BY <2>8, <2>10
<1> QED
  BY <1>9, <1>10

LEMMA MarketStutters ==
  ASSUME UNCHANGED AllReceipts, UNCHANGED <<status, holder>>
  PROVE  [House!Next]_(House!market)
  BY DEF House!market, AllReceipts

(* A change of the record is a move of the marketplace.                    *)
LEMMA MarketMoves ==
  ASSUME RecordTypes, RecordStep, UNCHANGED AllReceipts
  PROVE  [House!Next]_(House!market)
<1>1. ASSUME NEW l \in Listings, Register(l) PROVE House!Offer(l)
  BY <1>1 DEF Register, House!Offer, AllReceipts
<1>2. ASSUME NEW l \in Listings, Purchase(l) PROVE House!Sell(l, SessionUser)
  BY <1>2 DEF Purchase, House!Sell, AllReceipts
<1>3. ASSUME NEW l \in Listings, Cancel(l) \/ ExpireListing(l) PROVE House!Withdraw(l)
  <2>1. "CANCELLED" \in House!Endings \ {"SOLD"} /\ "EXPIRED" \in House!Endings \ {"SOLD"}
    BY DEF House!Endings
  <2> QED
    BY <1>3, <2>1 DEF Cancel, ExpireListing, House!Withdraw, AllReceipts
<1>4. CASE UNCHANGED record
  BY <1>4, MarketStutters DEF record
<1> QED
  BY <1>1, <1>2, <1>3, <1>4 DEF RecordStep, House!Next

LEMMA ServiceMarketStep ==
  TradeInv /\ SessionInv /\ (TradeInv /\ SessionInv)' /\ [ServiceNext]_service
    => [House!Next]_(House!market)
<1> SUFFICES ASSUME TradeInv, SessionInv, TradeInv', SessionInv', [ServiceNext]_service
             PROVE  [House!Next]_(House!market)
  OBVIOUS
<1>1. ASSUME RecordStep, UNCHANGED received PROVE [House!Next]_(House!market)
  BY <1>1, NobodyHears, MarketMoves DEF TradeInv
<1>2. ASSUME UNCHANGED record, NEW s \in Sessions, NEW reply \in Replies, Delivers(s, reply)
      PROVE  [House!Next]_(House!market)
  <2>1. CASE UNCHANGED AllReceipts
    BY <1>2, <2>1, MarketStutters DEF record
  <2>2. ASSUME NEW l \in Listings, status[l] = "SOLD", AllReceipts[l] = <<>>,
               AllReceipts' = [AllReceipts EXCEPT ![l] = <<holder[l]>>]
        PROVE  House!Confirm(l)
    BY <1>2, <2>2 DEF House!Confirm, AllReceipts, record
  <2> QED
    BY <1>2, <2>1, <2>2, SomebodyHears DEF House!Next
<1>3. CASE Elsewhere
  BY <1>1, <1>3 DEF Elsewhere, RecordStep, vars, output
<1>4. ASSUME NEW s \in Sessions, Alone(Write(s)) PROVE [House!Next]_(House!market)
  BY <1>1, <1>2, <1>4, WriteKeepsReplies DEF Alone, RecordStep
<1>5. ASSUME NEW s \in Sessions, Trade(s) PROVE [House!Next]_(House!market)
  BY <1>1, <1>5 DEF Trade, handle_register_item, handle_purchase_item, handle_cancel_listing,
     CallHouse, RecordStep, vars, output
<1>6. ASSUME NEW s \in Sessions, Answer(s) PROVE [House!Next]_(House!market)
  BY <1>1, <1>2, <1>6, ProcessAddsReply DEF Answer, RecordStep
<1>7. ASSUME NEW s \in Sessions, \/ Alone(HeaderArrives(s)) \/ Alone(handle_read_header(s))
                                 \/ Alone(BodyArrives(s)) \/ Alone(ReadFails(s))
                                 \/ Alone(SendUnit(s)) \/ Alone(HangUp(s))
      PROVE  [House!Next]_(House!market)
  <2>1. UNCHANGED <<record, received>>
    BY <1>7 DEF Alone, HeaderArrives, handle_read_header, BodyArrives, ReadFails, SendUnit, HangUp,
       output
  <2> QED
    BY <1>1, <2>1 DEF RecordStep
<1>8. CASE UNCHANGED service
  BY <1>1, <1>8 DEF service, vars, output, RecordStep
<1> QED
  BY <1>3, <1>4, <1>5, <1>6, <1>7, <1>8 DEF ServiceNext, Serve, ServeReads

(* Seen from its clients, the service is a Marketplace: whatever the       *)
(* interleaving of the sessions and wherever a connection fails, a listing *)
(* ends once, and of all clients at most one reads, at most once, that it  *)
(* bought it, after that was decided.                                      *)
THEOREM ServiceIsMarketplace == ServiceSpec => TradesFollowMarketplace
  BY TradeInvariant, ServiceMarketStep, PTL DEF ServiceSpec, TradesFollowMarketplace
=============================================================================
