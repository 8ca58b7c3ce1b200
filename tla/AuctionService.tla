---------------------------- MODULE AuctionService ----------------------------
(***************************************************************************)
(* The sessions and the auction house together: what a request that        *)
(* arrives on a ClientSession does to the listings, and what its client is *)
(* told (the handlers of src/ClientSession.cpp on top of AuctionHouse).    *)
(* Of the auction house it uses what Marketplace promises; AuctionHouse is *)
(* shown elsewhere to implement it.                                        *)
(*                                                                         *)
(* A handler calls the auction house and then sends its reply.  Between    *)
(* the two, other sessions trade, and the client may hang up.  The         *)
(* constant Sessions are the sessions modelled in full; what the others    *)
(* do to the listings is Elsewhere.                                        *)
(***************************************************************************)
EXTENDS ClientSession, SequencesExt

CONSTANTS
  Listings,
  Foreign,       \* listings the collection holds when the process starts
  SessionUser,   \* 1001, the user id handle_login gives to every session
  OtherUser,     \* the seller of the foreign listings
  Nobody

ASSUME ServiceConstantsOK ==
  /\ Foreign \subseteq Listings
  /\ Cardinality({SessionUser, OtherUser, Nobody}) = 3

VARIABLES
  status, holder, seller,  \* the record of the auction house
  outcome,                 \* what its call returned to a handler that is not done
  outcomes                 \* history: the outcome of each message that was processed

record  == <<status, holder, seller>>
service == <<vars, record, outcome, outcomes>>

(* The replies that told a client of its purchase of a listing.            *)
Told(s, l) ==
  {n \in DOMAIN received[s] : LET reply == received[s][n].reply
                              IN  /\ reply.answer = "success"
                                  /\ outcomes[s][reply.to].trade = "purchase"
                                  /\ outcomes[s][reply.to].listing = l}
Receipts(l) ==
  [n \in 1 .. Cardinality(UNION {{s} \X Told(s, l) : s \in Sessions}) |-> SessionUser]

House == INSTANCE Marketplace WITH
  Buyers   <- {SessionUser},
  receipts <- [l \in Listings |-> Receipts(l)]

NoTrade == [trade |-> "none", listing |-> Nobody, answer |-> "none"]

ServiceInit ==
  /\ Init
  /\ status = [l \in Listings |-> IF l \in Foreign THEN "ACTIVE" ELSE "NONE"]
  /\ holder = [l \in Listings |-> Nobody]
  /\ seller = [l \in Listings |-> IF l \in Foreign THEN OtherUser ELSE Nobody]
  /\ outcome = [s \in Sessions |-> NoTrade]
  /\ outcomes = [s \in Sessions |-> <<>>]

-----------------------------------------------------------------------------
(* What a call of the auction house decides.  Every session is user 1001,  *)
(* who can neither buy its own listing nor cancel another's.               *)

Register(l) ==
  /\ status[l] = "NONE"
  /\ status' = [status EXCEPT ![l] = "ACTIVE"]
  /\ seller' = [seller EXCEPT ![l] = SessionUser]
  /\ UNCHANGED holder

Purchase(l) ==
  /\ status[l] = "ACTIVE"
  /\ seller[l] # SessionUser
  /\ status' = [status EXCEPT ![l] = "SOLD"]
  /\ holder' = [holder EXCEPT ![l] = SessionUser]
  /\ UNCHANGED seller

CancelEnded(l) ==                                 \* mutant: the status is not checked
  /\ status[l] # "NONE"
  /\ seller[l] = SessionUser \/ status[l] = "SOLD"
  /\ status' = [status EXCEPT ![l] = "CANCELLED"]
  /\ UNCHANGED <<holder, seller>>
Cancel(l) ==
  /\ status[l] = "ACTIVE"
  /\ seller[l] = SessionUser
  /\ status' = [status EXCEPT ![l] = "CANCELLED"]
  /\ UNCHANGED <<holder, seller>>

ExpireListing(l) ==
  /\ status[l] = "ACTIVE"
  /\ status' = [status EXCEPT ![l] = "EXPIRED"]
  /\ UNCHANGED <<holder, seller>>

Elsewhere ==
  /\ \E l \in Listings : Register(l) \/ Purchase(l) \/ Cancel(l) \/ ExpireListing(l)
  /\ UNCHANGED <<vars, outcome, outcomes>>

-----------------------------------------------------------------------------
(* handle_register_item, handle_purchase_item and handle_cancel_listing.   *)
(* A call that takes effect may still report a failure (a write that was   *)
(* not acknowledged); one that reports success took effect.                *)

Calling(s) ==
  /\ reader[s] = "message"
  /\ KindOf(s) = "trade" /\ Reaches(s)
  /\ outcome[s] = NoTrade

CallHouseOptimistic(s, trade, l, Effect) ==       \* mutant: the result is not looked at
  /\ Calling(s)
  /\ \E answer \in {"success", "error"} :
       outcome' = [outcome EXCEPT ![s] = [trade |-> trade, listing |-> l, answer |-> answer]]
  /\ Effect \/ UNCHANGED record
  /\ UNCHANGED <<vars, outcomes>>
CallHouse(s, trade, l, Effect) ==
  /\ Calling(s)
  /\ \E answer \in {"success", "error"} :
       /\ outcome' = [outcome EXCEPT ![s] = [trade |-> trade, listing |-> l, answer |-> answer]]
       /\ Effect \/ (answer = "error" /\ UNCHANGED record)
  /\ UNCHANGED <<vars, outcomes>>

handle_register_item(s, l) == CallHouse(s, "register", l, Register(l))
handle_purchase_item(s, l) == CallHouse(s, "purchase", l, Purchase(l))
handle_cancel_listing(s, l) == CallHouse(s, "cancel", l, Cancel(l))

(* The reply says what the call returned; a trade that is refused before   *)
(* the call (no login, a missing field) has no outcome.                    *)
Answer(s) ==
  /\ process_message(s)
  /\ outcome[s] # NoTrade => Last(write_queue_'[s]).answer = outcome[s].answer
  /\ KindOf(s) = "trade" /\ outcome[s] = NoTrade => Last(write_queue_'[s]).answer = "error"
  /\ outcomes' = [outcomes EXCEPT ![s] = Append(@, outcome[s])]
  /\ outcome' = [outcome EXCEPT ![s] = NoTrade]
  /\ UNCHANGED record

Trade(s) ==
  \E l \in Listings : \/ handle_register_item(s, l)
                      \/ handle_purchase_item(s, l)
                      \/ handle_cancel_listing(s, l)

Alone(A) == A /\ UNCHANGED <<record, outcome, outcomes>>

ServeReads(s) ==
  \/ Alone(HeaderArrives(s))
  \/ Alone(handle_read_header(s))
  \/ Alone(BodyArrives(s))
  \/ Alone(ReadFails(s))
  \/ Trade(s)
  \/ Answer(s)

Serve(s) == Alone(Write(s)) \/ ServeReads(s)

ServiceNext ==
  \/ Elsewhere
  \/ \E s \in Sessions : Serve(s) \/ Alone(SendUnit(s)) \/ Alone(HangUp(s))

(* A session that has something to do is served: what has arrived is read, *)
(* worker threads run the handlers, the auction house returns from every   *)
(* call, and a client takes its replies or is found dead.  No client has   *)
(* to send anything, or to hang up.                                        *)
ServiceSpec ==
  /\ ServiceInit /\ [][ServiceNext]_service
  /\ \A s \in Sessions : WF_service(Serve(s))

-----------------------------------------------------------------------------
(* What clients are told agrees with the record, whatever other sessions   *)
(* do in the meantime: a client that reads "success" has the listing, or   *)
(* has offered it, or has withdrawn it, and nothing takes that back.       *)
SuccessIsRecorded ==
  \A s \in Sessions : \A n \in DOMAIN received[s] :
    LET told == outcomes[s][received[s][n].reply.to]
    IN  received[s][n].reply.answer = "success" =>
          CASE told.trade = "purchase" -> status[told.listing] = "SOLD" /\ holder[told.listing] = SessionUser
            [] told.trade = "register" -> seller[told.listing] = SessionUser
            [] told.trade = "cancel"   -> status[told.listing] = "CANCELLED"
            [] OTHER                   -> TRUE

(* Seen from the clients, the whole service is a Marketplace: a listing    *)
(* ends once, and the client that buys it reads so at most once, after it  *)
(* was decided, over connections that fail at any point.                   *)
TradesFollowMarketplace == [][House!Next]_(House!market)
=============================================================================
