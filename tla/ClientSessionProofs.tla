------------------------- MODULE ClientSessionProofs -------------------------
(***************************************************************************)
(* Proofs about ClientSession, for any number of sessions, scripts and     *)
(* message sizes: the hand-over between send and handle_write, and the     *)
(* order of the replies.                                                   *)
(***************************************************************************)
EXTENDS ClientSession, TLAPS

Replies    == [to : Nat, answer : {"success", "error"}]
AsyncWrite == [reply : Replies, state : {"pending", "written", "failed"}]
Deliveries == [reply : Replies, framed : BOOLEAN]
Units      == [msg : Nat, part : Nat]
Records    == [message : Seq(Units), kind : Kinds, reached : BOOLEAN]

OutputTypes ==
  /\ open \in [Sessions -> BOOLEAN]
  /\ write_queue_ \in [Sessions -> Seq(Replies)]
  /\ is_writing_ \in [Sessions -> BOOLEAN]
  /\ writes \in [Sessions -> Seq(AsyncWrite)]
  /\ received \in [Sessions -> Seq(Deliveries)]
  /\ message \in [Sessions -> Seq(Units)]
  /\ script \in [Sessions -> Scripts]
  /\ authenticated_ \in [Sessions -> BOOLEAN]
  /\ processed \in [Sessions -> Seq(Records)]

(* The queue q holds the replies to the last of the p messages that were   *)
(* processed, and the client got r, a prefix of all the replies.           *)
Queued(q, p)    == Len(q) <= p /\ \A k \in 1 .. Len(q) : q[k].to = p - Len(q) + k
Delivered(r, p) == Len(r) <= p /\ \A n \in 1 .. Len(r) : r[n].reply.to = n

(* A session that waits for its write w: the front of its queue, which the *)
(* client has once it is written.                                          *)
Writing(q, w, r, p, opened) ==
  /\ Len(w) = 1 /\ q # <<>> /\ w[1].reply = q[1]
  /\ opened => Len(r) = IF w[1].state = "written" THEN p - Len(q) + 1 ELSE p - Len(q)

(* A session that waits for nothing has nothing to write, or is closed.    *)
Resting(q, w, r, p, opened) ==
  w = <<>> /\ (opened => q = <<>> /\ Len(r) = p)

Ordered(q, w, r, p, writing, opened) ==
  /\ Queued(q, p)
  /\ Delivered(r, p)
  /\ IF writing THEN Writing(q, w, r, p, opened) ELSE Resting(q, w, r, p, opened)

OrderOf(s) ==
  Ordered(write_queue_[s], writes[s], received[s], Len(processed[s]), is_writing_[s], open[s])
OrderInv == \A s \in Sessions : OrderOf(s)

-----------------------------------------------------------------------------
(* The queue grows by the reply to the message that was just processed.    *)
LEMMA QueueGrows ==
  ASSUME NEW q \in Seq(Replies), NEW p \in Nat, Queued(q, p), NEW reply \in Replies,
         reply.to = p + 1
  PROVE  /\ Queued(Append(q, reply), p + 1) /\ Append(q, reply) \in Seq(Replies)
         /\ Len(Append(q, reply)) = Len(q) + 1 /\ Append(q, reply) # <<>>
         /\ q # <<>> => Append(q, reply)[1] = q[1]
<1> DEFINE a == Append(q, reply)
<1>1. a \in Seq(Replies) /\ Len(a) = Len(q) + 1 /\ Len(q) \in Nat
  OBVIOUS
<1>2. \A k \in 1 .. Len(q) : a[k] = q[k]
  OBVIOUS
<1>3. a[Len(q) + 1] = reply
  OBVIOUS
<1> HIDE DEF a
<1>4. ASSUME NEW k \in 1 .. Len(a) PROVE a[k].to = (p + 1) - Len(a) + k
  <2>1. CASE k \in 1 .. Len(q)
    <3>1. a[k] = q[k] /\ q[k].to = p - Len(q) + k
      BY <1>2, <2>1 DEF Queued
    <3>2. (p + 1) - Len(a) + k = p - Len(q) + k
      BY <1>1
    <3> QED
      BY <3>1, <3>2
  <2>2. CASE k = Len(q) + 1
    BY <1>1, <1>3, <2>2
  <2> QED
    BY <1>1, <2>1, <2>2
<1>5. Queued(a, p + 1)
  BY <1>1, <1>4 DEF Queued
<1>6. q # <<>> => 1 \in 1 .. Len(q)
  BY <1>1
<1>7. a # <<>>
  BY <1>1
<1> QED
  BY <1>1, <1>2, <1>5, <1>6, <1>7 DEF a

LEMMA QueueShrinks ==
  ASSUME NEW q \in Seq(Replies), NEW p \in Nat, Queued(q, p), q # <<>>
  PROVE  /\ Queued(Tail(q), p) /\ Tail(q) \in Seq(Replies)
         /\ Len(Tail(q)) = Len(q) - 1
BY DEF Queued

(* The client gets the reply at the front of the queue.                    *)
LEMMA FrontDelivered ==
  ASSUME NEW q \in Seq(Replies), NEW p \in Nat, NEW r \in Seq(Deliveries), NEW d \in Deliveries,
         Queued(q, p), Delivered(r, p), q # <<>>, Len(r) = p - Len(q), d.reply = q[1]
  PROVE  /\ Append(r, d) \in Seq(Deliveries) /\ Len(Append(r, d)) = p - Len(q) + 1
         /\ Delivered(Append(r, d), p)
<1> DEFINE a == Append(r, d)
<1>1. Len(q) \in Nat /\ Len(q) >= 1 /\ Len(q) <= p /\ q[1].to = p - Len(q) + 1
  BY DEF Queued
<1>2. a \in Seq(Deliveries) /\ Len(a) = Len(r) + 1 /\ a[Len(r) + 1] = d
  OBVIOUS
<1>3. \A n \in 1 .. Len(r) : a[n] = r[n]
  OBVIOUS
<1> HIDE DEF a
<1>4. ASSUME NEW n \in 1 .. Len(a) PROVE a[n].reply.to = n
  <2>1. CASE n \in 1 .. Len(r)
    BY <1>3, <2>1 DEF Delivered
  <2>2. CASE n = Len(r) + 1
    BY <1>1, <1>2, <2>2
  <2> QED
    BY <1>2, <2>1, <2>2
<1>5. Len(a) = p - Len(q) + 1 /\ Len(a) <= p
  BY <1>1, <1>2
<1> QED
  BY <1>2, <1>4, <1>5 DEF a, Delivered

(* An open session that starts to write a queue of which the client has    *)
(* nothing yet.                                                            *)
LEMMA WriteStarts ==
  ASSUME NEW q \in Seq(Replies), NEW p \in Nat, NEW r \in Seq(Deliveries), NEW opened \in BOOLEAN,
         Queued(q, p), Delivered(r, p), q # <<>>, opened => Len(r) = p - Len(q)
  PROVE  /\ opened => Ordered(q, <<[reply |-> q[1], state |-> "written"]>>,
                              Append(r, [reply |-> q[1], framed |-> TRUE]), p, TRUE, opened)
         /\ Ordered(q, <<[reply |-> q[1], state |-> "pending"]>>, r, p, TRUE, opened)
<1>1. Len(q) \in Nat /\ Len(q) >= 1 /\ q[1].to = p - Len(q) + 1 /\ q[1] \in Replies
  BY DEF Queued
<1>2. ASSUME opened
      PROVE  Delivered(Append(r, [reply |-> q[1], framed |-> TRUE]), p)
  <2>1. [reply |-> q[1], framed |-> TRUE] \in Deliveries
    BY <1>1 DEF Deliveries
  <2> QED
    BY <1>2, <2>1, FrontDelivered
<1>3. opened => Writing(q, <<[reply |-> q[1], state |-> "written"]>>,
                        Append(r, [reply |-> q[1], framed |-> TRUE]), p, opened)
  BY <1>1 DEF Writing, Deliveries
<1>4. Writing(q, <<[reply |-> q[1], state |-> "pending"]>>, r, p, opened)
  BY <1>1 DEF Writing
<1> QED
  BY <1>2, <1>3, <1>4 DEF Ordered

-----------------------------------------------------------------------------
(* The steps of a session s leave the other sessions alone.                *)
OutputOf(s) == <<write_queue_[s], writes[s], received[s], Len(processed[s]), is_writing_[s], open[s]>>

LEMMA OtherSessions ==
  ASSUME OrderInv, NEW s \in Sessions,
         \A v \in Sessions \ {s} : OutputOf(v)' = OutputOf(v),
         OrderOf(s)'
  PROVE  OrderInv'
<1>1. ASSUME NEW v \in Sessions, v # s PROVE OrderOf(v)'
  <2>1. OutputOf(v)' = OutputOf(v)
    BY <1>1
  <2>2. /\ write_queue_'[v] = write_queue_[v] /\ writes'[v] = writes[v]
        /\ received'[v] = received[v] /\ Len(processed'[v]) = Len(processed[v])
        /\ is_writing_'[v] = is_writing_[v] /\ open'[v] = open[v]
    BY <2>1 DEF OutputOf
  <2>3. OrderOf(v)
    BY DEF OrderInv
  <2> QED
    BY <2>2, <2>3 DEF OrderOf
<1> QED
  BY <1>1 DEF OrderInv

(* write() of a queue, with no other async_write outstanding.              *)
LEMMA WriteStep ==
  ASSUME OutputTypes, NEW s \in Sessions, NEW q \in Seq(Replies), NEW p \in Nat,
         Queued(q, p), Delivered(received[s], p), q # <<>>,
         open[s] => Len(received[s]) = p - Len(q),
         write(s, <<>>, q)
  PROVE  /\ Ordered(q, writes'[s], received'[s], p, is_writing_'[s], open[s])
         /\ is_writing_' \in [Sessions -> BOOLEAN]
         /\ writes' \in [Sessions -> Seq(AsyncWrite)]
         /\ received' \in [Sessions -> Seq(Deliveries)]
         /\ \A v \in Sessions \ {s} : UNCHANGED <<is_writing_[v], writes[v], received[v]>>
<1>1. q[1] = Head(q) /\ q[1] \in Replies /\ received[s] \in Seq(Deliveries) /\ open[s] \in BOOLEAN
  BY DEF OutputTypes
<1>2. /\ is_writing_' \in [Sessions -> BOOLEAN]
      /\ is_writing_'[s] = TRUE
      /\ \A v \in Sessions \ {s} : is_writing_'[v] = is_writing_[v]
  BY DEF write, OutputTypes
<1>3. CASE /\ open[s]
           /\ writes' = [writes EXCEPT ![s] = Append(<<>>, [reply |-> Head(q), state |-> "written"])]
           /\ received' = [received EXCEPT ![s] = Append(@, [reply |-> Head(q), framed |-> TRUE])]
  <2> DEFINE w == <<[reply |-> q[1], state |-> "written"]>>
             r == Append(received[s], [reply |-> q[1], framed |-> TRUE])
  <2>1. w \in Seq(AsyncWrite) /\ r \in Seq(Deliveries)
    BY <1>1 DEF AsyncWrite, Deliveries
  <2>2. Append(<<>>, [reply |-> Head(q), state |-> "written"]) = w
    BY <1>1
  <2>3. Ordered(q, w, r, p, TRUE, open[s])
    BY <1>1, <1>3, WriteStarts
  <2>4. writes' = [writes EXCEPT ![s] = w] /\ received' = [received EXCEPT ![s] = r]
    BY <1>1, <1>3, <2>2
  <2> HIDE DEF w, r
  <2>5. /\ writes' \in [Sessions -> Seq(AsyncWrite)] /\ received' \in [Sessions -> Seq(Deliveries)]
        /\ writes'[s] = w /\ received'[s] = r
        /\ \A v \in Sessions \ {s} : writes'[v] = writes[v] /\ received'[v] = received[v]
    BY <2>1, <2>4 DEF OutputTypes
  <2> QED
    BY <1>2, <2>3, <2>5
<1>4. CASE /\ writes' = [writes EXCEPT ![s] = Append(<<>>, [reply |-> Head(q), state |-> "pending"])]
           /\ UNCHANGED received
  <2> DEFINE w == <<[reply |-> q[1], state |-> "pending"]>>
  <2>1. w \in Seq(AsyncWrite)
    BY <1>1 DEF AsyncWrite
  <2>2. Append(<<>>, [reply |-> Head(q), state |-> "pending"]) = w
    BY <1>1
  <2>3. Ordered(q, w, received[s], p, TRUE, open[s])
    BY <1>1, WriteStarts
  <2>4. writes' = [writes EXCEPT ![s] = w] /\ received' = received
    BY <1>4, <2>2
  <2> HIDE DEF w
  <2>5. /\ writes' \in [Sessions -> Seq(AsyncWrite)] /\ received' \in [Sessions -> Seq(Deliveries)]
        /\ writes'[s] = w /\ received'[s] = received[s]
        /\ \A v \in Sessions \ {s} : writes'[v] = writes[v] /\ received'[v] = received[v]
    BY <2>1, <2>4 DEF OutputTypes
  <2> QED
    BY <1>2, <2>3, <2>5
<1> QED
  BY <1>3, <1>4 DEF write

-----------------------------------------------------------------------------
(* send() of the reply to the message that was just processed.             *)
LEMMA SendStep ==
  ASSUME OutputTypes, OrderInv, NEW s \in Sessions, NEW reply \in Replies,
         reply.to = Len(processed[s]) + 1,
         send(s, reply)
  PROVE  /\ Ordered(write_queue_'[s], writes'[s], received'[s], Len(processed[s]) + 1,
                    is_writing_'[s], open[s])
         /\ write_queue_' \in [Sessions -> Seq(Replies)]
         /\ is_writing_' \in [Sessions -> BOOLEAN]
         /\ writes' \in [Sessions -> Seq(AsyncWrite)]
         /\ received' \in [Sessions -> Seq(Deliveries)]
         /\ \A v \in Sessions \ {s} :
              UNCHANGED <<write_queue_[v], is_writing_[v], writes[v], received[v]>>
<1> DEFINE p == Len(processed[s])
           q == Append(write_queue_[s], reply)
<1>1. /\ write_queue_[s] \in Seq(Replies) /\ p \in Nat /\ writes[s] \in Seq(AsyncWrite)
      /\ received[s] \in Seq(Deliveries) /\ open[s] \in BOOLEAN /\ is_writing_[s] \in BOOLEAN
  BY DEF OutputTypes
<1>2. /\ Queued(write_queue_[s], p) /\ Delivered(received[s], p)
      /\ is_writing_[s] => Writing(write_queue_[s], writes[s], received[s], p, open[s])
      /\ ~is_writing_[s] => Resting(write_queue_[s], writes[s], received[s], p, open[s])
  BY DEF OrderInv, OrderOf, Ordered
<1>3. /\ Queued(q, p + 1) /\ q \in Seq(Replies)
      /\ Len(q) = Len(write_queue_[s]) + 1 /\ q # <<>>
      /\ write_queue_[s] # <<>> => q[1] = write_queue_[s][1]
  BY <1>1, <1>2, QueueGrows
<1>4. Delivered(received[s], p + 1) /\ Len(received[s]) \in Nat
  BY <1>1, <1>2 DEF Delivered
<1>5. /\ write_queue_' \in [Sessions -> Seq(Replies)] /\ write_queue_'[s] = q
      /\ \A v \in Sessions \ {s} : write_queue_'[v] = write_queue_[v]
  BY <1>3 DEF send, OutputTypes
<1>6. CASE is_writing_[s]
  <2>1. UNCHANGED <<is_writing_, writes, received>>
    BY <1>6 DEF send
  <2>2. Writing(q, writes[s], received[s], p + 1, open[s])
    <3> HIDE DEF p, q
    <3>1. (p + 1) - Len(q) = p - Len(write_queue_[s])
      BY <1>1, <1>3
    <3> QED
      BY <1>2, <1>3, <1>6, <3>1 DEF Writing
  <2>3. Ordered(q, writes[s], received[s], p + 1, is_writing_[s], open[s])
    BY <1>3, <1>4, <1>6, <2>2 DEF Ordered
  <2> QED
    BY <1>5, <2>1, <2>3 DEF OutputTypes
<1>7. CASE ~is_writing_[s]
  <2>1. writes[s] = <<>> /\ (open[s] => write_queue_[s] = <<>> /\ Len(received[s]) = p)
    BY <1>2, <1>7 DEF Resting
  <2>2. write(s, <<>>, q)
    BY <1>7, <2>1 DEF send
  <2>4. p \in Nat /\ p + 1 \in Nat
    BY <1>1
  <2> HIDE DEF q, p
  <2>3. open[s] => Len(received[s]) = (p + 1) - Len(q)
    <3>1. ASSUME open[s] PROVE Len(received[s]) = (p + 1) - Len(q)
      <4>1. Len(q) = 1 /\ Len(received[s]) = p
        BY <1>3, <2>1, <3>1
      <4>2. (p + 1) - 1 = p
        BY <2>4
      <4> QED
        BY <4>1, <4>2
    <3> QED
      BY <3>1
  <2>5. /\ Ordered(q, writes'[s], received'[s], p + 1, is_writing_'[s], open[s])
        /\ is_writing_' \in [Sessions -> BOOLEAN]
        /\ writes' \in [Sessions -> Seq(AsyncWrite)]
        /\ received' \in [Sessions -> Seq(Deliveries)]
        /\ \A v \in Sessions \ {s} : UNCHANGED <<is_writing_[v], writes[v], received[v]>>
    BY <1>3, <1>4, <2>2, <2>3, <2>4, WriteStep
  <2> QED
    BY <1>5, <2>5 DEF p
<1> QED
  BY <1>1, <1>6, <1>7

-----------------------------------------------------------------------------
(* What a processed message leaves in the history.                         *)
LEMMA RecordType ==
  ASSUME OutputTypes, NEW s \in Sessions
  PROVE  [message |-> message[s], kind |-> KindOf(s), reached |-> Reaches(s)] \in Records
<1>1. script[s] \in Seq(Messages)
  BY SessionConstantsOK DEF OutputTypes
<1>2. \A n \in DOMAIN script[s] : script[s][n] \in Messages
  BY <1>1
<1>3. KindOf(s) \in Kinds
  <2>1. CASE \E n \in DOMAIN script[s] : IsMessage(s, n) /\ script[s][n].size > 0
    <3>1. PICK n \in DOMAIN script[s] : n = CHOOSE m \in DOMAIN script[s] : IsMessage(s, m)
      BY <2>1
    <3>2. script[s][n] \in Messages
      BY <1>2
    <3>3. script[s][n].kind \in Kinds
      BY <3>2 DEF Messages
    <3> QED
      BY <2>1, <3>1, <3>3 DEF KindOf
  <2>2. CASE ~ \E n \in DOMAIN script[s] : IsMessage(s, n) /\ script[s][n].size > 0
    BY <2>2 DEF KindOf, Kinds
  <2> QED
    BY <2>1, <2>2
<1>4. Reaches(s) \in BOOLEAN
  BY DEF Reaches
<1>5. message[s] \in Seq(Units)
  BY DEF OutputTypes
<1> QED
  BY <1>3, <1>4, <1>5 DEF Records

LEMMA ProcessStep ==
  ASSUME OutputTypes, OrderInv, NEW s \in Sessions, process_message(s)
  PROVE  OutputTypes' /\ OrderInv'
<1> DEFINE record == [message |-> message[s], kind |-> KindOf(s), reached |-> Reaches(s)]
<1>1. record \in Records
  BY RecordType
<1>2. processed[s] \in Seq(Records)
  BY DEF OutputTypes
<1>3. processed' = [processed EXCEPT ![s] = Append(@, record)]
  BY DEF process_message
<1> HIDE DEF record
<1>4. /\ processed' \in [Sessions -> Seq(Records)]
      /\ Len(processed'[s]) = Len(processed[s]) + 1
      /\ \A v \in Sessions \ {s} : processed'[v] = processed[v]
  BY <1>1, <1>2, <1>3 DEF OutputTypes
<1>5. PICK a \in Answers(s) : send(s, [to |-> Len(processed'[s]), answer |-> a])
  BY DEF process_message
<1>6. a \in {"success", "error"}
  BY <1>5 DEF Answers
<1>7. PICK reply \in Replies : send(s, reply) /\ reply.to = Len(processed[s]) + 1
  <2>1. [to |-> Len(processed'[s]), answer |-> a] \in Replies
    BY <1>2, <1>4, <1>6 DEF Replies
  <2> QED
    BY <1>4, <1>5, <2>1
<1>8. /\ Ordered(write_queue_'[s], writes'[s], received'[s], Len(processed[s]) + 1,
                 is_writing_'[s], open[s])
      /\ write_queue_' \in [Sessions -> Seq(Replies)]
      /\ is_writing_' \in [Sessions -> BOOLEAN]
      /\ writes' \in [Sessions -> Seq(AsyncWrite)]
      /\ received' \in [Sessions -> Seq(Deliveries)]
      /\ \A v \in Sessions \ {s} :
           UNCHANGED <<write_queue_[v], is_writing_[v], writes[v], received[v]>>
  BY <1>7, SendStep
<1>9. UNCHANGED <<open, message, script>>
  BY DEF process_message, client
<1>10. authenticated_' \in [Sessions -> BOOLEAN]
  BY DEF process_message, OutputTypes
<1>11. OutputTypes'
  BY <1>4, <1>8, <1>9, <1>10 DEF OutputTypes
<1>12. OrderOf(s)'
  BY <1>4, <1>8, <1>9 DEF OrderOf
<1>13. \A v \in Sessions \ {s} : OutputOf(v)' = OutputOf(v)
  BY <1>4, <1>8, <1>9 DEF OutputOf
<1> QED
  BY <1>11, <1>12, <1>13, OtherSessions

-----------------------------------------------------------------------------
(* A pending write reaches the client, or fails.                           *)
LEMMA CompletionStep ==
  ASSUME OutputTypes, OrderInv, NEW s \in Sessions, NEW n \in DOMAIN writes[s], WriteCompletes(s, n)
  PROVE  OutputTypes' /\ OrderInv'
<1> DEFINE p == Len(processed[s])
           w == writes[s]
           q == write_queue_[s]
<1>1. /\ w \in Seq(AsyncWrite) /\ q \in Seq(Replies) /\ p \in Nat /\ received[s] \in Seq(Deliveries)
      /\ open[s] \in BOOLEAN
  BY DEF OutputTypes
<1>2. Queued(q, p) /\ Delivered(received[s], p) /\ is_writing_[s] /\ Writing(q, w, received[s], p, open[s])
  <2>1. w # <<>>
    OBVIOUS
  <2> QED
    BY <2>1 DEF OrderInv, OrderOf, Ordered, Resting
<1>3. n = 1 /\ Len(w) = 1 /\ w[1].state = "pending" /\ w[1] \in AsyncWrite /\ w[1].reply = q[1]
  BY <1>1, <1>2 DEF Writing, WriteCompletes
<1>4. UNCHANGED <<write_queue_, is_writing_, open, processed, message, script, authenticated_>>
  BY DEF WriteCompletes, client, input
<1>5. ASSUME NEW st \in {"written", "failed"}, writes' = [writes EXCEPT ![s][n].state = st]
      PROVE  /\ writes' \in [Sessions -> Seq(AsyncWrite)]
             /\ Len(writes'[s]) = 1 /\ writes'[s][1].reply = q[1] /\ writes'[s][1].state = st
             /\ \A v \in Sessions \ {s} : writes'[v] = writes[v]
  <2> DEFINE w1 == [w[1] EXCEPT !.state = st]
             w2 == [w EXCEPT ![1] = w1]
  <2>1. w1 \in AsyncWrite /\ w1.reply = q[1] /\ w1.state = st
    BY <1>3 DEF AsyncWrite
  <2> HIDE DEF w1
  <2>2. w2 \in Seq(AsyncWrite) /\ Len(w2) = 1 /\ w2[1] = w1
    BY <1>1, <1>3, <2>1
  <2>3. writes' = [writes EXCEPT ![s] = w2]
    BY <1>3, <1>5 DEF w1
  <2> HIDE DEF w2
  <2> QED
    BY <2>1, <2>2, <2>3 DEF OutputTypes
<1>6. CASE /\ open[s]
           /\ writes' = [writes EXCEPT ![s][n].state = "written"]
           /\ \E framed \in BOOLEAN :
                received' = [received EXCEPT ![s] = Append(@, [reply |-> w[n].reply, framed |-> framed])]
  <2>1. PICK framed \in BOOLEAN :
          received' = [received EXCEPT ![s] = Append(@, [reply |-> q[1], framed |-> framed])]
    BY <1>3, <1>6
  <2> DEFINE d == [reply |-> q[1], framed |-> framed]
             r == Append(received[s], d)
  <2>2. d \in Deliveries /\ d.reply = q[1]
    BY <1>3 DEF Deliveries, AsyncWrite
  <2> HIDE DEF d
  <2>3. q # <<>> /\ Len(received[s]) = p - Len(q)
    BY <1>2, <1>3, <1>6 DEF Writing
  <2>5. r \in Seq(Deliveries) /\ Len(r) = p - Len(q) + 1 /\ Delivered(r, p)
    BY <1>1, <1>2, <2>2, <2>3, FrontDelivered
  <2> HIDE DEF r
  <2>6. /\ received' \in [Sessions -> Seq(Deliveries)] /\ received'[s] = r
        /\ \A v \in Sessions \ {s} : received'[v] = received[v]
    BY <2>1, <2>5 DEF OutputTypes, d, r
  <2>7. OutputTypes'
    BY <1>4, <1>5, <1>6, <2>6 DEF OutputTypes
  <2>8. Writing(q, writes'[s], r, p, open[s])
    BY <1>5, <1>6, <2>3, <2>5 DEF Writing
  <2>9. OrderOf(s)'
    BY <1>2, <1>4, <2>5, <2>6, <2>8 DEF OrderOf, Ordered
  <2>10. \A v \in Sessions \ {s} : OutputOf(v)' = OutputOf(v)
    BY <1>4, <1>5, <1>6, <2>6 DEF OutputOf
  <2> QED
    BY <2>7, <2>9, <2>10, OtherSessions
<1>7. CASE writes' = [writes EXCEPT ![s][n].state = "failed"] /\ UNCHANGED received
  <2>1. OutputTypes'
    BY <1>4, <1>5, <1>7 DEF OutputTypes
  <2>2. Writing(q, writes'[s], received[s], p, open[s])
    BY <1>2, <1>3, <1>5, <1>7 DEF Writing
  <2>3. OrderOf(s)'
    BY <1>2, <1>4, <1>7, <2>2 DEF OrderOf, Ordered
  <2>4. \A v \in Sessions \ {s} : OutputOf(v)' = OutputOf(v)
    BY <1>4, <1>5, <1>7 DEF OutputOf
  <2> QED
    BY <2>1, <2>3, <2>4, OtherSessions
<1> QED
  BY <1>6, <1>7 DEF WriteCompletes

-----------------------------------------------------------------------------
(* handle_write without another write.                                     *)
LEMMA RestStep ==
  ASSUME OutputTypes, OrderInv, NEW s \in Sessions, NEW q \in Seq(Replies), NEW o \in BOOLEAN,
         Queued(q, Len(processed[s])), Delivered(received[s], Len(processed[s])),
         Resting(q, <<>>, received[s], Len(processed[s]), o),
         write_queue_' = [write_queue_ EXCEPT ![s] = q],
         open' = [open EXCEPT ![s] = o],
         Rest(s, <<>>),
         UNCHANGED <<processed, message, script, authenticated_>>
  PROVE  OutputTypes' /\ OrderInv'
<1>1. /\ write_queue_'[s] = q /\ open'[s] = o /\ is_writing_'[s] = FALSE /\ writes'[s] = <<>>
      /\ received' = received /\ processed' = processed
  BY DEF OutputTypes, Rest
<1>2. OutputTypes'
  <2>1. <<>> \in Seq(AsyncWrite)
    OBVIOUS
  <2> QED
    BY <2>1 DEF OutputTypes, Rest
<1>3. Ordered(q, <<>>, received[s], Len(processed[s]), FALSE, o)
  BY DEF Ordered
<1>4. OrderOf(s)'
  BY <1>1, <1>3 DEF OrderOf
<1>5. \A v \in Sessions \ {s} : OutputOf(v)' = OutputOf(v)
  BY DEF OutputOf, OutputTypes, Rest
<1> QED
  BY <1>2, <1>4, <1>5, OtherSessions

-----------------------------------------------------------------------------
(* handle_write goes on with the queue, or rests, or stops the session.    *)
LEMMA HandleWriteStep ==
  ASSUME OutputTypes, OrderInv, NEW s \in Sessions, NEW n \in DOMAIN writes[s], handle_write(s, n)
  PROVE  OutputTypes' /\ OrderInv'
<1> DEFINE p   == Len(processed[s])
           w   == writes[s]
           ops == SubSeq(w, 1, n - 1) \o SubSeq(w, n + 1, Len(w))
           q   == Tail(write_queue_[s])
<1>1. /\ w \in Seq(AsyncWrite) /\ write_queue_[s] \in Seq(Replies) /\ p \in Nat
      /\ received[s] \in Seq(Deliveries) /\ open[s] \in BOOLEAN
  BY DEF OutputTypes
<1>2. /\ Queued(write_queue_[s], p) /\ Delivered(received[s], p)
      /\ Writing(write_queue_[s], w, received[s], p, open[s])
  <2>1. w # <<>>
    OBVIOUS
  <2> QED
    BY <2>1 DEF OrderInv, OrderOf, Ordered, Resting
<1>3. n = 1 /\ Len(w) = 1 /\ write_queue_[s] # <<>>
  BY <1>1, <1>2 DEF Writing
<1>4. ops = <<>>
  <2>1. SubSeq(w, 1, n - 1) = <<>> /\ SubSeq(w, n + 1, Len(w)) = <<>>
    BY <1>1, <1>3
  <2> QED
    BY <2>1
<1>5. Queued(q, p) /\ q \in Seq(Replies) /\ Len(q) = Len(write_queue_[s]) - 1
  BY <1>1, <1>2, <1>3, QueueShrinks
<1>6. /\ write_queue_' = [write_queue_ EXCEPT ![s] = q]
      /\ UNCHANGED <<processed, message, script, authenticated_>>
  BY DEF handle_write, client, input
<1>9. p \in Nat /\ Len(write_queue_[s]) \in Nat
  BY <1>1
<1>7. CASE w[n].state = "written" /\ writeMore(s, ops, q) /\ UNCHANGED open
  <2>1. open[s] => Len(received[s]) = p - Len(q)
    <3> HIDE DEF p, q
    <3>1. ASSUME open[s] PROVE Len(received[s]) = p - Len(q)
      <4>1. Len(received[s]) = p - Len(write_queue_[s]) + 1
        BY <1>2, <1>3, <1>7, <3>1 DEF Writing
      <4> QED
        BY <1>5, <1>9, <4>1
    <3> QED
      BY <3>1
  <2>2. CASE q = <<>>
    <3>1. Rest(s, <<>>)
      BY <1>4, <1>7, <2>2 DEF writeMore
    <3>2. Resting(q, <<>>, received[s], p, open[s])
      <4>1. p - Len(<<>>) = p
        BY <1>9
      <4> HIDE DEF p, q
      <4> QED
        BY <2>1, <2>2, <4>1 DEF Resting
    <3>3. open' = [open EXCEPT ![s] = open[s]]
      BY <1>7 DEF OutputTypes
    <3> QED
      BY <1>1, <1>2, <1>5, <1>6, <3>1, <3>2, <3>3, RestStep
  <2>3. CASE q # <<>>
    <3>1. write(s, <<>>, q)
      BY <1>4, <1>7, <2>3 DEF writeMore
    <3> HIDE DEF q, p, ops, w
    <3>2. /\ Ordered(q, writes'[s], received'[s], p, is_writing_'[s], open[s])
          /\ is_writing_' \in [Sessions -> BOOLEAN]
          /\ writes' \in [Sessions -> Seq(AsyncWrite)]
          /\ received' \in [Sessions -> Seq(Deliveries)]
          /\ \A v \in Sessions \ {s} : UNCHANGED <<is_writing_[v], writes[v], received[v]>>
      BY <1>1, <1>2, <1>5, <2>1, <2>3, <3>1, WriteStep
    <3>3. UNCHANGED <<open, processed, message, script, authenticated_>>
      BY <1>7 DEF handle_write, client, input
    <3>4. OutputTypes'
      BY <1>5, <1>6, <3>2, <3>3 DEF OutputTypes
    <3>5. OrderOf(s)'
      <4>1. write_queue_'[s] = q
        BY <1>6 DEF OutputTypes
      <4> QED
        BY <3>2, <3>3, <4>1 DEF OrderOf, p
    <3>6. \A v \in Sessions \ {s} : OutputOf(v)' = OutputOf(v)
      BY <1>6, <3>2, <3>3 DEF OutputOf, OutputTypes
    <3> QED
      BY <3>4, <3>5, <3>6, OtherSessions
  <2> QED
    BY <2>2, <2>3
<1>8. CASE Rest(s, ops) /\ stop(s)
  <2>1. Rest(s, <<>>)
    BY <1>4, <1>8
  <2>2. Resting(q, <<>>, received[s], p, FALSE)
    BY DEF Resting
  <2>3. open' = [open EXCEPT ![s] = FALSE]
    BY <1>8 DEF stop
  <2> QED
    BY <1>2, <1>5, <1>6, <2>1, <2>2, <2>3, RestStep
<1> QED
  BY <1>7, <1>8 DEF handle_write

-----------------------------------------------------------------------------
(* The read chain never holds more than one message, and keeps nothing in  *)
(* read_buffer_; what is on the wire belongs to the client's messages.     *)
InputInv ==
  /\ current_message_size_ \in 0 .. MAX_MESSAGE_SIZE + 1
  /\ reader \in [Sessions -> {"header", "length", "body", "message", "ended"}]
  /\ need \in [Sessions -> 0 .. MAX_MESSAGE_SIZE]
  /\ hungUp \in [Sessions -> BOOLEAN]
  /\ sent \in [Sessions -> Units]
  /\ wire \in [Sessions -> Seq(Units)]
  /\ read_buffer_ = [s \in Sessions |-> <<>>]
  /\ \A s \in Sessions : /\ Len(message[s]) <= MAX_MESSAGE_SIZE
                         /\ \A k \in DOMAIN wire[s] : wire[s][k].msg \in DOMAIN script[s]

SessionInv == OutputTypes /\ OrderInv /\ InputInv

(* A step that leaves the replies alone, and may close the session.        *)
LEMMA OutputUntouched ==
  ASSUME OutputTypes, OrderInv, NEW s \in Sessions,
         UNCHANGED <<output, script, authenticated_, processed>>,
         open' \in {open, [open EXCEPT ![s] = FALSE]},
         message' \in [Sessions -> Seq(Units)]
  PROVE  OutputTypes' /\ OrderInv'
<1>1. UNCHANGED <<write_queue_, is_writing_, writes, received>>
  BY DEF output
<1>2. OutputTypes'
  BY <1>1 DEF OutputTypes
<1>3. ASSUME NEW v \in Sessions PROVE OrderOf(v)'
  <2>1. OrderOf(v) /\ open'[v] \in {open[v], FALSE}
    BY DEF OrderInv, OutputTypes
  <2>2. CASE open'[v] = open[v]
    BY <1>1, <2>1, <2>2 DEF OrderOf
  <2>3. CASE open'[v] = FALSE
    <3>1. Ordered(write_queue_[v], writes[v], received[v], Len(processed[v]), is_writing_[v], FALSE)
      BY <2>1 DEF OrderOf, Ordered, Writing, Resting
    <3> QED
      BY <1>1, <2>3, <3>1 DEF OrderOf
  <2> QED
    BY <2>1, <2>2, <2>3
<1> QED
  BY <1>2, <1>3 DEF OrderInv

LEMMA ScriptTypes ==
  ASSUME OutputTypes, NEW s \in Sessions, NEW n \in DOMAIN script[s]
  PROVE  script[s][n].size \in 0 .. MAX_MESSAGE_SIZE + 1 /\ n \in Nat
<1>1. script[s] \in Seq(Messages)
  BY SessionConstantsOK DEF OutputTypes
<1>2. script[s][n] \in Messages /\ n \in Nat
  BY <1>1
<1> QED
  BY <1>2 DEF Messages

LEMMA SendUnitStep ==
  ASSUME SessionInv, NEW s \in Sessions, SendUnit(s)
  PROVE  SessionInv'
<1>1. UNCHANGED <<current_message_size_, reader, need, hungUp, read_buffer_, message, script, open,
                  authenticated_, processed, output>>
  BY DEF SendUnit
<1>2. OutputTypes' /\ OrderInv'
  BY <1>1, OutputUntouched DEF SessionInv, OutputTypes
<1>3. sent[s] \in Units /\ wire[s] \in Seq(Units) /\ sent[s].msg \in DOMAIN script[s]
  BY DEF SendUnit, SessionInv, InputInv
<1>4. sent' \in [Sessions -> Units]
  <2>1. Unit(sent[s].msg, sent[s].part + 1) \in Units /\ Unit(sent[s].msg + 1, 0) \in Units
    BY <1>3 DEF Unit, Units
  <2> QED
    BY <2>1 DEF SendUnit, SessionInv, InputInv
<1>5. wire' = [wire EXCEPT ![s] = Append(wire[s], sent[s])]
  BY DEF SendUnit
<1>6. PICK u : u = Append(wire[s], sent[s])
  OBVIOUS
<1>7. u \in Seq(Units) /\ \A k \in DOMAIN u : u[k].msg \in DOMAIN script[s]
  <2>1. \A k \in DOMAIN wire[s] : wire[s][k].msg \in DOMAIN script[s]
    BY DEF SessionInv, InputInv
  <2> QED
    BY <1>3, <1>6, <2>1
<1>8. /\ wire' \in [Sessions -> Seq(Units)]
      /\ \A v \in Sessions : wire'[v] = IF v = s THEN u ELSE wire[v]
  BY <1>5, <1>6, <1>7 DEF SessionInv, InputInv
<1>9. InputInv'
  BY <1>1, <1>4, <1>7, <1>8 DEF SessionInv, InputInv
<1> QED
  BY <1>2, <1>9 DEF SessionInv

LEMMA HangUpStep ==
  ASSUME SessionInv, NEW s \in Sessions, HangUp(s)
  PROVE  SessionInv'
<1>1. UNCHANGED <<current_message_size_, sent, script, input, output, open, authenticated_, processed>>
  BY DEF HangUp
<1>2. OutputTypes' /\ OrderInv'
  BY <1>1, OutputUntouched DEF SessionInv, OutputTypes, input
<1>3. hungUp' \in [Sessions -> BOOLEAN]
  BY DEF HangUp, SessionInv, InputInv
<1>4. InputInv'
  BY <1>1, <1>3 DEF SessionInv, InputInv, input
<1> QED
  BY <1>2, <1>4 DEF SessionInv

LEMMA HeaderStep ==
  ASSUME SessionInv, NEW s \in Sessions, HeaderArrives(s)
  PROVE  SessionInv'
<1>1. UNCHANGED <<client, need, read_buffer_, message, output, open, authenticated_, processed>>
  BY DEF HeaderArrives
<1>2. OutputTypes' /\ OrderInv'
  BY <1>1, OutputUntouched DEF SessionInv, OutputTypes, client
<1>3. wire[s] \in Seq(Units) /\ wire[s] # <<>>
      /\ \A k \in DOMAIN wire[s] : wire[s][k].msg \in DOMAIN script[s]
  BY DEF HeaderArrives, SessionInv, InputInv
<1>4. current_message_size_' \in 0 .. MAX_MESSAGE_SIZE + 1
  <2>1. Head(wire[s]).msg \in DOMAIN script[s]
    BY <1>3
  <2>2. LengthIn(s, Head(wire[s])) \subseteq 0 .. MAX_MESSAGE_SIZE + 1
    BY <2>1, ScriptTypes DEF LengthIn, SessionInv
  <2> QED
    BY <2>2 DEF HeaderArrives
<1>5. PICK u : u = Tail(wire[s])
  OBVIOUS
<1>6. u \in Seq(Units) /\ \A k \in DOMAIN u : u[k].msg \in DOMAIN script[s]
  BY <1>3, <1>5
<1>7. /\ wire' \in [Sessions -> Seq(Units)]
      /\ \A v \in Sessions : wire'[v] = IF v = s THEN u ELSE wire[v]
  BY <1>5, <1>6 DEF HeaderArrives, SessionInv, InputInv
<1>8. reader' \in [Sessions -> {"header", "length", "body", "message", "ended"}]
  BY DEF HeaderArrives, SessionInv, InputInv
<1>9. InputInv'
  BY <1>1, <1>4, <1>6, <1>7, <1>8 DEF SessionInv, InputInv, client
<1> QED
  BY <1>2, <1>9 DEF SessionInv

LEMMA LengthStep ==
  ASSUME SessionInv, NEW s \in Sessions, handle_read_header(s)
  PROVE  SessionInv'
<1>1. UNCHANGED <<current_message_size_, client, wire, read_buffer_, message, output,
                  authenticated_, processed>>
  BY DEF handle_read_header
<1>2. open' \in {open, [open EXCEPT ![s] = FALSE]}
  BY DEF handle_read_header, stop
<1>3. OutputTypes' /\ OrderInv'
  BY <1>1, <1>2, OutputUntouched DEF SessionInv, OutputTypes, client
<1>4. /\ need' \in [Sessions -> 0 .. MAX_MESSAGE_SIZE]
      /\ reader' \in [Sessions -> {"header", "length", "body", "message", "ended"}]
  <2>1. current_message_size_ \in Nat /\ MAX_MESSAGE_SIZE \in Nat
    BY SessionConstantsOK DEF SessionInv, InputInv
  <2>2. /\ need \in [Sessions -> 0 .. MAX_MESSAGE_SIZE]
        /\ reader \in [Sessions -> {"header", "length", "body", "message", "ended"}]
    BY DEF SessionInv, InputInv
  <2>3. reader' \in [Sessions -> {"header", "length", "body", "message", "ended"}]
    BY <2>2 DEF handle_read_header
  <2>4. CASE UNCHANGED need
    BY <2>2, <2>3, <2>4
  <2>5. CASE /\ need' = [need EXCEPT ![s] = current_message_size_]
             /\ current_message_size_ <= MAX_MESSAGE_SIZE
    <3>1. current_message_size_ \in 0 .. MAX_MESSAGE_SIZE
      BY <2>1, <2>5
    <3>2. need' \in [Sessions -> 0 .. MAX_MESSAGE_SIZE]
      BY <2>2, <2>5, <3>1
    <3> QED
      BY <2>3, <3>2
  <2> QED
    BY <2>4, <2>5 DEF handle_read_header
<1>5. InputInv'
  BY <1>1, <1>4 DEF SessionInv, InputInv, client
<1> QED
  BY <1>3, <1>5 DEF SessionInv

(* The body that was waited for is the message; nothing is left over.      *)
LEMMA BodyStep ==
  ASSUME SessionInv, NEW s \in Sessions, BodyArrives(s)
  PROVE  SessionInv'
<1>1. UNCHANGED <<current_message_size_, client, need, output, open, authenticated_, processed>>
  BY DEF BodyArrives
<1>2. /\ need[s] \in Nat /\ need[s] <= MAX_MESSAGE_SIZE /\ wire[s] \in Seq(Units)
      /\ need[s] <= Len(wire[s]) /\ read_buffer_[s] = <<>>
      /\ \A k \in DOMAIN wire[s] : wire[s][k].msg \in DOMAIN script[s]
  BY SessionConstantsOK DEF BodyArrives, SessionInv, InputInv
<1> DEFINE body   == SubSeq(wire[s], 1, need[s])
           buffer == read_buffer_[s] \o body
<1>3. body \in Seq(Units) /\ Len(body) = need[s]
  BY <1>2
<1>4. buffer = body
  BY <1>2, <1>3
<1>5. SubSeq(buffer, 1, need[s]) = body
  BY <1>3, <1>4
<1>6. Consume(buffer, need[s]) = <<>>
  BY <1>2, <1>3, <1>4 DEF Consume
<1>7. /\ message' = [message EXCEPT ![s] = body]
      /\ read_buffer_' = [read_buffer_ EXCEPT ![s] = <<>>]
  BY <1>5, <1>6 DEF BodyArrives
<1> HIDE DEF body, buffer
<1>8. /\ message' \in [Sessions -> Seq(Units)]
      /\ \A v \in Sessions : Len(message'[v]) <= MAX_MESSAGE_SIZE
  BY <1>2, <1>3, <1>7 DEF SessionInv, OutputTypes, InputInv
<1>9. read_buffer_' = [v \in Sessions |-> <<>>]
  BY <1>7 DEF SessionInv, InputInv
<1>10. PICK u : u = SubSeq(wire[s], need[s] + 1, Len(wire[s]))
  OBVIOUS
<1>11. u \in Seq(Units) /\ \A k \in DOMAIN u : u[k].msg \in DOMAIN script[s]
  BY <1>2, <1>10
<1>12. /\ wire' \in [Sessions -> Seq(Units)]
       /\ \A v \in Sessions : wire'[v] = IF v = s THEN u ELSE wire[v]
  BY <1>10, <1>11 DEF BodyArrives, SessionInv, InputInv
<1>13. reader' \in [Sessions -> {"header", "length", "body", "message", "ended"}]
  BY DEF BodyArrives, SessionInv, InputInv
<1>14. OutputTypes' /\ OrderInv'
  BY <1>1, <1>8, OutputUntouched DEF SessionInv, client
<1>15. InputInv'
  BY <1>1, <1>8, <1>9, <1>11, <1>12, <1>13 DEF SessionInv, InputInv, client
<1> QED
  BY <1>14, <1>15 DEF SessionInv

LEMMA ReadFailsStep ==
  ASSUME SessionInv, NEW s \in Sessions, ReadFails(s)
  PROVE  SessionInv'
<1>1. UNCHANGED <<current_message_size_, client, wire, need, read_buffer_, message, output,
                  authenticated_, processed>>
  BY DEF ReadFails
<1>2. open' \in {open, [open EXCEPT ![s] = FALSE]}
  BY DEF ReadFails, stop
<1>3. OutputTypes' /\ OrderInv'
  BY <1>1, <1>2, OutputUntouched DEF SessionInv, OutputTypes, client
<1>4. reader' \in [Sessions -> {"header", "length", "body", "message", "ended"}]
  BY DEF ReadFails, SessionInv, InputInv
<1>5. InputInv'
  BY <1>1, <1>4 DEF SessionInv, InputInv, client
<1> QED
  BY <1>3, <1>5 DEF SessionInv

-----------------------------------------------------------------------------
LEMMA SessionInit == Init => SessionInv
<1> SUFFICES ASSUME Init PROVE SessionInv
  OBVIOUS
<1>1. OutputTypes
  BY DEF Init, OutputTypes
<1>2. ASSUME NEW s \in Sessions PROVE OrderOf(s)
  <2>1. /\ write_queue_[s] = <<>> /\ writes[s] = <<>> /\ received[s] = <<>> /\ processed[s] = <<>>
        /\ is_writing_[s] = FALSE
    BY <1>2 DEF Init
  <2>2. Queued(<<>>, Len(<<>>)) /\ Delivered(<<>>, Len(<<>>)) /\ Resting(<<>>, <<>>, <<>>, Len(<<>>), open[s])
    BY DEF Queued, Delivered, Resting
  <2> QED
    BY <2>1, <2>2 DEF OrderOf, Ordered
<1>3. InputInv
  <2>1. Unit(1, 0) \in Units
    BY DEF Unit, Units
  <2> QED
    BY <2>1, SessionConstantsOK DEF Init, InputInv
<1> QED
  BY <1>1, <1>2, <1>3 DEF SessionInv, OrderInv

LEMMA SessionStep == SessionInv /\ [Next]_vars => SessionInv'
<1> SUFFICES ASSUME SessionInv, [Next]_vars PROVE SessionInv'
  OBVIOUS
<1>1. ASSUME NEW s \in Sessions, Read(s) PROVE SessionInv'
  <2>1. CASE process_message(s)
    <3>1. OutputTypes' /\ OrderInv'
      BY <2>1, ProcessStep DEF SessionInv
    <3>2. InputInv'
      BY <2>1 DEF process_message, SessionInv, InputInv, client
    <3> QED
      BY <3>1, <3>2 DEF SessionInv
  <2> QED
    BY <1>1, <2>1, HeaderStep, LengthStep, BodyStep, ReadFailsStep DEF Read
<1>2. ASSUME NEW s \in Sessions, Write(s) PROVE SessionInv'
  <2>1. PICK n \in DOMAIN writes[s] : WriteCompletes(s, n) \/ handle_write(s, n)
    BY <1>2 DEF Write
  <2>2. OutputTypes' /\ OrderInv'
    BY <2>1, CompletionStep, HandleWriteStep DEF SessionInv
  <2>3. UNCHANGED <<current_message_size_, client, input>>
    BY <2>1 DEF WriteCompletes, handle_write
  <2>4. InputInv'
    BY <2>3 DEF SessionInv, InputInv, client, input
  <2> QED
    BY <2>2, <2>4 DEF SessionInv
<1>3. CASE UNCHANGED vars
  <2>1. InputInv' /\ OutputTypes'
    BY <1>3 DEF vars, client, input, output, SessionInv, InputInv, OutputTypes
  <2>2. \A s \in Sessions : OrderOf(s)'
    BY <1>3 DEF vars, output, SessionInv, OrderInv, OrderOf
  <2> QED
    BY <2>1, <2>2 DEF SessionInv, OrderInv
<1> QED
  BY <1>1, <1>2, <1>3, SendUnitStep, HangUpStep DEF Next

LEMMA SessionInvariant == Spec => []SessionInv
  BY SessionInit, SessionStep, PTL DEF Spec

(* Every variable of a session keeps its type; a message never exceeds the *)
(* limit, and nothing stays in read_buffer_ behind it.                     *)
THEOREM TypeCorrect == Spec => []TypeOK
<1>1. SessionInv => TypeOK
  <2> SUFFICES ASSUME SessionInv PROVE TypeOK
    OBVIOUS
  <2>1. \A s \in Sessions : read_buffer_[s] = <<>>
    BY DEF SessionInv, InputInv
  <2> QED
    BY <2>1 DEF SessionInv, InputInv, OutputTypes, TypeOK
<1> QED
  BY <1>1, SessionInvariant, PTL

(* At most one async_write is outstanding, for the front of the queue, and *)
(* no reply of an open session waits without one.                          *)
THEOREM WritesSerialised == Spec => []OneWriteAtATime
<1>1. SessionInv => OneWriteAtATime
  <2> SUFFICES ASSUME SessionInv, NEW s \in Sessions
               PROVE  /\ Len(writes[s]) <= 1
                      /\ is_writing_[s] <=> writes[s] # <<>>
                      /\ is_writing_[s] => write_queue_[s] # <<>> /\ writes[s][1].reply = Head(write_queue_[s])
                      /\ write_queue_[s] # <<>> => is_writing_[s] \/ ~open[s]
    BY DEF OneWriteAtATime
  <2>1. Ordered(write_queue_[s], writes[s], received[s], Len(processed[s]), is_writing_[s], open[s])
    BY DEF SessionInv, OrderInv, OrderOf
  <2>2. writes[s] \in Seq(AsyncWrite) /\ write_queue_[s] \in Seq(Replies) /\ is_writing_[s] \in BOOLEAN
    BY DEF SessionInv, OutputTypes
  <2>3. CASE is_writing_[s]
    <3>1. Len(writes[s]) = 1 /\ write_queue_[s] # <<>> /\ writes[s][1].reply = write_queue_[s][1]
      BY <2>1, <2>3 DEF Ordered, Writing
    <3>2. writes[s] # <<>> /\ Head(write_queue_[s]) = write_queue_[s][1]
      BY <2>2, <3>1
    <3> QED
      BY <2>3, <3>1, <3>2
  <2>4. CASE ~is_writing_[s]
    <3>1. writes[s] = <<>> /\ (open[s] => write_queue_[s] = <<>>)
      BY <2>1, <2>4 DEF Ordered, Resting
    <3> QED
      BY <2>4, <3>1
  <2> QED
    BY <2>3, <2>4
<1> QED
  BY <1>1, SessionInvariant, PTL

(* The n-th reply that a client gets answers its n-th processed message.   *)
THEOREM RepliesMatchRequests == Spec => []RepliesInOrder
<1>1. SessionInv => RepliesInOrder
  <2> SUFFICES ASSUME SessionInv, NEW s \in Sessions, NEW n \in DOMAIN received[s]
               PROVE  received[s][n].reply.to = n /\ n \in DOMAIN processed[s]
    BY DEF RepliesInOrder
  <2>1. received[s] \in Seq(Deliveries) /\ processed[s] \in Seq(Records)
    BY DEF SessionInv, OutputTypes
  <2>2. Delivered(received[s], Len(processed[s]))
    BY DEF SessionInv, OrderInv, OrderOf, Ordered
  <2> QED
    BY <2>1, <2>2 DEF Delivered
<1> QED
  BY <1>1, SessionInvariant, PTL

-----------------------------------------------------------------------------
(* What the history says of a session: who is authenticated logged in, and *)
(* each trade that reached the house came after a login.                   *)
LoginBefore(p, n) == \E m \in 1 .. n : p[m].kind = "login"
Traded(p) ==
  \A n \in 1 .. Len(p) : p[n].kind = "trade" /\ p[n].reached => LoginBefore(p, n - 1)
LoginInv ==
  \A s \in Sessions : /\ authenticated_[s] => LoginBefore(processed[s], Len(processed[s]))
                      /\ Traded(processed[s])

LEMMA HistoryGrows ==
  ASSUME NEW p \in Seq(Records), NEW d \in Records, NEW auth \in BOOLEAN,
         auth => LoginBefore(p, Len(p)), Traded(p),
         d.kind = "trade" /\ d.reached => auth
  PROVE  /\ auth \/ d.kind = "login" => LoginBefore(Append(p, d), Len(Append(p, d)))
         /\ Traded(Append(p, d))
<1> DEFINE a == Append(p, d)
<1>1. Len(p) \in Nat /\ Len(a) = Len(p) + 1 /\ a[Len(a)] = d
  OBVIOUS
<1>2. \A k \in 1 .. Len(p) : a[k] = p[k]
  OBVIOUS
<1> HIDE DEF a
<1>3. ASSUME NEW n \in 0 .. Len(p), LoginBefore(p, n) PROVE LoginBefore(a, n) /\ LoginBefore(a, Len(a))
  <2>1. PICK m \in 1 .. n : p[m].kind = "login"
    BY <1>3 DEF LoginBefore
  <2>2. m \in 1 .. Len(p) /\ m \in 1 .. Len(a)
    BY <1>1
  <2> QED
    BY <1>2, <2>1, <2>2 DEF LoginBefore
<1>4. auth \/ d.kind = "login" => LoginBefore(a, Len(a))
  <2>1. CASE auth
    BY <1>1, <1>3, <2>1
  <2>2. CASE d.kind = "login"
    <3>1. Len(a) \in 1 .. Len(a)
      BY <1>1
    <3> QED
      BY <1>1, <2>2, <3>1 DEF LoginBefore
  <2> QED
    BY <2>1, <2>2
<1>5. ASSUME NEW n \in 1 .. Len(a), a[n].kind = "trade", a[n].reached PROVE LoginBefore(a, n - 1)
  <2>1. CASE n \in 1 .. Len(p)
    <3>1. LoginBefore(p, n - 1)
      BY <1>2, <1>5, <2>1 DEF Traded
    <3>2. n - 1 \in 0 .. Len(p)
      BY <1>1, <2>1
    <3> QED
      BY <1>3, <3>1, <3>2
  <2>2. CASE n = Len(a)
    <3>1. LoginBefore(p, Len(p)) /\ Len(p) \in 0 .. Len(p) /\ n - 1 = Len(p)
      BY <1>1, <1>5, <2>2
    <3> QED
      BY <1>3, <3>1
  <2> QED
    BY <1>1, <2>1, <2>2
<1>6. Traded(a)
  BY <1>5 DEF Traded
<1> QED
  BY <1>4, <1>6 DEF a

LEMMA LoginStep ==
  ASSUME SessionInv, LoginInv, NEW s \in Sessions, process_message(s)
  PROVE  LoginInv'
<1> DEFINE d == [message |-> message[s], kind |-> KindOf(s), reached |-> Reaches(s)]
<1>1. d \in Records
  BY RecordType DEF SessionInv
<1>2. d.kind = "trade" /\ d.reached => authenticated_[s]
  BY DEF Reaches
<1>3. d.kind = KindOf(s)
  OBVIOUS
<1>4. /\ processed' = [processed EXCEPT ![s] = Append(processed[s], d)]
      /\ authenticated_' = [authenticated_ EXCEPT ![s] = authenticated_[s] \/ KindOf(s) = "login"]
  BY DEF process_message
<1> HIDE DEF d
<1>5. /\ authenticated_[s] \/ d.kind = "login"
           => LoginBefore(Append(processed[s], d), Len(Append(processed[s], d)))
      /\ Traded(Append(processed[s], d))
  <2>1. processed[s] \in Seq(Records) /\ authenticated_[s] \in BOOLEAN
    BY DEF SessionInv, OutputTypes
  <2>2. (authenticated_[s] => LoginBefore(processed[s], Len(processed[s]))) /\ Traded(processed[s])
    BY DEF LoginInv
  <2> QED
    BY <1>1, <1>2, <2>1, <2>2, HistoryGrows
<1>6. PICK p : p = Append(processed[s], d)
  OBVIOUS
<1>7. ASSUME NEW v \in Sessions
      PROVE  /\ authenticated_'[v] => LoginBefore(processed'[v], Len(processed'[v]))
             /\ Traded(processed'[v])
  <2>1. CASE v = s
    <3>1. processed'[v] = p /\ (authenticated_'[v] <=> authenticated_[s] \/ d.kind = "login")
      BY <1>3, <1>4, <1>6, <2>1 DEF SessionInv, OutputTypes
    <3> QED
      BY <1>5, <1>6, <3>1
  <2>2. CASE v # s
    <3>1. processed'[v] = processed[v] /\ authenticated_'[v] = authenticated_[v]
      BY <1>4, <2>2 DEF SessionInv, OutputTypes
    <3> QED
      BY <3>1 DEF LoginInv
  <2> QED
    BY <2>1, <2>2
<1> QED
  BY <1>7 DEF LoginInv

(* A trade that reached the house was sent on a session after a login on   *)
(* that session.                                                           *)
THEOREM LoginsFirst == Spec => []TradesFollowLogin
<1>1. Init => LoginInv
  BY DEF Init, LoginInv, Traded
<1>2. SessionInv /\ LoginInv /\ [Next]_vars => LoginInv'
  <2> SUFFICES ASSUME SessionInv, LoginInv, [Next]_vars PROVE LoginInv'
    OBVIOUS
  <2>1. ASSUME NEW s \in Sessions, process_message(s) PROVE LoginInv'
    BY <2>1, LoginStep
  <2>2. CASE UNCHANGED <<authenticated_, processed>>
    BY <2>2 DEF LoginInv
  <2>3. ASSUME NEW s \in Sessions, SendUnit(s) \/ HangUp(s) \/ HeaderArrives(s)
               \/ handle_read_header(s) \/ BodyArrives(s) \/ ReadFails(s)
        PROVE  UNCHANGED <<authenticated_, processed>>
    BY <2>3 DEF SendUnit, HangUp, HeaderArrives, handle_read_header, BodyArrives, ReadFails
  <2>4. ASSUME NEW s \in Sessions, Write(s) PROVE UNCHANGED <<authenticated_, processed>>
    BY <2>4 DEF Write, WriteCompletes, handle_write
  <2>5. CASE UNCHANGED vars
    BY <2>2, <2>5 DEF vars
  <2> QED
    BY <2>1, <2>2, <2>3, <2>4, <2>5 DEF Next, Read
<1>3. SessionInv /\ LoginInv => TradesFollowLogin
  <2> SUFFICES ASSUME SessionInv, LoginInv, NEW s \in Sessions, NEW n \in DOMAIN processed[s],
                      processed[s][n].kind = "trade", processed[s][n].reached
               PROVE  \E m \in 1 .. n - 1 : processed[s][m].kind = "login"
    BY DEF TradesFollowLogin
  <2>1. processed[s] \in Seq(Records)
    BY DEF SessionInv, OutputTypes
  <2>2. n \in 1 .. Len(processed[s])
    BY <2>1
  <2> QED
    BY <2>2 DEF LoginInv, Traded, LoginBefore
<1> QED
  BY <1>1, <1>2, <1>3, SessionInvariant, PTL DEF Spec

-----------------------------------------------------------------------------
(* The replies of a session, on their way or with the client.              *)
InQueue(s) == {write_queue_[s][k] : k \in DOMAIN write_queue_[s]}
Heard(s)   == {received[s][n].reply : n \in DOMAIN received[s]}
RepliesOf(s) == InQueue(s) \cup Heard(s)

(* A step hands at most one more reply to one client.                      *)
Delivers(s, reply) ==
  \E framed \in BOOLEAN :
    received' = [received EXCEPT ![s] = Append(@, [reply |-> reply, framed |-> framed])]

LEMMA AppendedElements ==
  ASSUME NEW S, NEW q \in Seq(S), NEW e \in S
  PROVE  /\ DOMAIN Append(q, e) = DOMAIN q \cup {Len(q) + 1} /\ Len(q) + 1 \notin DOMAIN q
         /\ Append(q, e)[Len(q) + 1] = e /\ Len(Append(q, e)) = Len(q) + 1
         /\ \A k \in DOMAIN q : Append(q, e)[k] = q[k]
  OBVIOUS

LEMMA DeliveredReplies ==
  ASSUME OutputTypes, NEW s \in Sessions, NEW reply \in Replies, Delivers(s, reply)
  PROVE  /\ Heard(s)' = Heard(s) \cup {reply}
         /\ \A v \in Sessions \ {s} : Heard(v)' = Heard(v)
<1>1. PICK framed \in BOOLEAN :
        received' = [received EXCEPT ![s] = Append(@, [reply |-> reply, framed |-> framed])]
  BY DEF Delivers
<1>2. PICK d \in Deliveries : d = [reply |-> reply, framed |-> framed]
  BY DEF Deliveries
<1>3. received[s] \in Seq(Deliveries)
  BY DEF OutputTypes
<1>4. PICK r : r = Append(received[s], d)
  OBVIOUS
<1>5. /\ DOMAIN r = DOMAIN received[s] \cup {Len(received[s]) + 1}
      /\ r[Len(received[s]) + 1] = d
      /\ \A k \in DOMAIN received[s] : r[k] = received[s][k]
  BY <1>3, <1>4, AppendedElements
<1>6. received'[s] = r /\ \A v \in Sessions \ {s} : received'[v] = received[v]
  BY <1>1, <1>2, <1>4 DEF OutputTypes
<1>7. {r[n].reply : n \in DOMAIN r} = {received[s][n].reply : n \in DOMAIN received[s]} \cup {d.reply}
  BY <1>5
<1> QED
  BY <1>2, <1>6, <1>7 DEF Heard

(* write() delivers the front of the queue, or nothing yet.                *)
LEMMA WriteDelivers ==
  ASSUME NEW s \in Sessions, NEW ops, NEW queue \in Seq(Replies), queue # <<>>,
         write(s, ops, queue)
  PROVE  UNCHANGED received \/ Delivers(s, queue[1])
<1>1. Head(queue) = queue[1]
  OBVIOUS
<1>2. CASE UNCHANGED received
  BY <1>2
<1>3. CASE received' = [received EXCEPT ![s] = Append(@, [reply |-> Head(queue), framed |-> TRUE])]
  BY <1>1, <1>3 DEF Delivers
<1> QED
  BY <1>2, <1>3 DEF write

(* The write chain delivers what is queued, and only removes from the      *)
(* queue.                                                                  *)
LEMMA WriteKeepsReplies ==
  ASSUME SessionInv, NEW s \in Sessions, Write(s)
  PROVE  /\ \A v \in Sessions : RepliesOf(v)' \subseteq RepliesOf(v)
         /\ UNCHANGED received \/ \E reply \in Replies : Delivers(s, reply)
<1>1. PICK n \in DOMAIN writes[s] : WriteCompletes(s, n) \/ handle_write(s, n)
  BY DEF Write
<1>2. /\ OutputTypes /\ write_queue_[s] \in Seq(Replies) /\ writes[s] \in Seq(AsyncWrite)
      /\ is_writing_[s] \in BOOLEAN
      /\ Ordered(write_queue_[s], writes[s], received[s], Len(processed[s]), is_writing_[s], open[s])
  BY DEF SessionInv, OutputTypes, OrderInv, OrderOf
<1>3. n = 1 /\ write_queue_[s] # <<>> /\ writes[s][n].reply = write_queue_[s][1]
  <2>1. writes[s] # <<>>
    BY <1>1
  <2>2. Writing(write_queue_[s], writes[s], received[s], Len(processed[s]), open[s])
    BY <1>2, <2>1 DEF Ordered, Resting
  <2>3. Len(writes[s]) = 1 /\ write_queue_[s] # <<>> /\ writes[s][1].reply = write_queue_[s][1]
    BY <2>2 DEF Writing
  <2>4. n = 1
    BY <1>1, <1>2, <2>3
  <2> QED
    BY <2>3, <2>4
<1>4. write_queue_[s][1] \in Replies /\ write_queue_[s][1] \in InQueue(s)
  <2>1. 1 \in DOMAIN write_queue_[s]
    BY <1>2, <1>3
  <2> QED
    BY <1>2, <2>1 DEF InQueue
<1>5. CASE WriteCompletes(s, n)
  <2>1. UNCHANGED write_queue_ /\ (UNCHANGED received \/ Delivers(s, write_queue_[s][1]))
    BY <1>3, <1>5 DEF WriteCompletes, Delivers
  <2>2. \A v \in Sessions : InQueue(v)' = InQueue(v)
    BY <2>1 DEF InQueue
  <2>3. CASE UNCHANGED received
    BY <2>2, <2>3 DEF RepliesOf, Heard
  <2>4. CASE Delivers(s, write_queue_[s][1])
    BY <1>2, <1>4, <2>2, <2>4, DeliveredReplies DEF RepliesOf
  <2> QED
    BY <2>1, <2>3, <2>4
<1>6. CASE handle_write(s, n)
  <2>1. PICK q : q = Tail(write_queue_[s])
    OBVIOUS
  <2>2. /\ q \in Seq(Replies) /\ Len(q) = Len(write_queue_[s]) - 1
        /\ \A k \in DOMAIN q : k + 1 \in DOMAIN write_queue_[s] /\ q[k] = write_queue_[s][k + 1]
    BY <1>2, <1>3, <2>1
  <2>3. write_queue_' = [write_queue_ EXCEPT ![s] = q]
    BY <1>6, <2>1 DEF handle_write
  <2>4. write_queue_'[s] = q /\ \A v \in Sessions \ {s} : write_queue_'[v] = write_queue_[v]
    BY <1>2, <2>3 DEF OutputTypes
  <2>5. \A v \in Sessions : InQueue(v)' \subseteq InQueue(v)
    <3>1. InQueue(s)' \subseteq InQueue(s)
      BY <2>2, <2>4 DEF InQueue
    <3>2. \A v \in Sessions \ {s} : InQueue(v)' = InQueue(v)
      BY <2>4 DEF InQueue
    <3> QED
      BY <3>1, <3>2
  <2>6. UNCHANGED received \/ (q # <<>> /\ Delivers(s, q[1]))
    <3>1. \A ops : writeMore(s, ops, q) => UNCHANGED received \/ (q # <<>> /\ Delivers(s, q[1]))
      BY <2>2, WriteDelivers DEF writeMore, Rest
    <3> QED
      BY <1>6, <2>1, <3>1 DEF handle_write, Rest
  <2>7. CASE UNCHANGED received
    BY <2>5, <2>7 DEF RepliesOf, Heard
  <2>8. CASE q # <<>> /\ Delivers(s, q[1])
    <3>1. 1 \in DOMAIN q
      BY <2>2, <2>8
    <3>2. q[1] \in Replies /\ q[1] \in InQueue(s)
      BY <2>2, <3>1 DEF InQueue
    <3> QED
      BY <1>2, <2>5, <2>8, <3>2, DeliveredReplies DEF RepliesOf
  <2> QED
    BY <2>6, <2>7, <2>8
<1> QED
  BY <1>1, <1>5, <1>6

(* process_message adds one reply, behind all the others, to the message   *)
(* that it processed.                                                      *)
LEMMA ProcessAddsReply ==
  ASSUME SessionInv, NEW s \in Sessions, process_message(s)
  PROVE  /\ Len(processed'[s]) = Len(processed[s]) + 1
         /\ \A v \in Sessions \ {s} : processed'[v] = processed[v]
         /\ \E reply \in Replies :
              /\ reply = write_queue_'[s][Len(write_queue_'[s])]
              /\ reply.to = Len(processed[s]) + 1
              /\ RepliesOf(s)' \subseteq RepliesOf(s) \cup {reply}
         /\ \A v \in Sessions \ {s} : RepliesOf(v)' \subseteq RepliesOf(v)
         /\ UNCHANGED received \/ \E reply \in Replies : Delivers(s, reply)
<1>1. PICK d \in Records : d = [message |-> message[s], kind |-> KindOf(s), reached |-> Reaches(s)]
  BY RecordType DEF SessionInv
<1>2. processed' = [processed EXCEPT ![s] = Append(processed[s], d)]
  BY <1>1 DEF process_message
<1>3. processed[s] \in Seq(Records) /\ processed \in [Sessions -> Seq(Records)]
  BY DEF SessionInv, OutputTypes
<1>4. /\ Len(processed'[s]) = Len(processed[s]) + 1 /\ Len(processed[s]) \in Nat
      /\ \A v \in Sessions \ {s} : processed'[v] = processed[v]
  <2>1. PICK p : p = Append(processed[s], d)
    OBVIOUS
  <2>2. Len(p) = Len(processed[s]) + 1 /\ Len(processed[s]) \in Nat
    BY <1>3, <2>1
  <2> QED
    BY <1>2, <1>3, <2>1, <2>2
<1>5. PICK a \in Answers(s) : send(s, [to |-> Len(processed'[s]), answer |-> a])
  BY DEF process_message
<1>6. PICK reply \in Replies : reply = [to |-> Len(processed'[s]), answer |-> a]
  <2>1. a \in {"success", "error"}
    BY DEF Answers
  <2>2. Len(processed'[s]) \in Nat
    BY <1>4
  <2> QED
    BY <2>1, <2>2 DEF Replies
<1>7. write_queue_[s] \in Seq(Replies) /\ OutputTypes /\ is_writing_[s] \in BOOLEAN
  BY DEF SessionInv, OutputTypes
<1>8. PICK q : q = Append(write_queue_[s], reply)
  OBVIOUS
<1>9. /\ q \in Seq(Replies) /\ q # <<>> /\ Len(q) = Len(write_queue_[s]) + 1 /\ q[Len(q)] = reply
      /\ {q[k] : k \in DOMAIN q} = InQueue(s) \cup {reply}
  <2>1. /\ DOMAIN q = DOMAIN write_queue_[s] \cup {Len(write_queue_[s]) + 1}
        /\ q[Len(write_queue_[s]) + 1] = reply /\ Len(q) = Len(write_queue_[s]) + 1
        /\ \A k \in DOMAIN write_queue_[s] : q[k] = write_queue_[s][k]
    BY <1>7, <1>8, AppendedElements
  <2>2. q \in Seq(Replies) /\ q # <<>>
    BY <1>7, <1>8
  <2>3. {q[k] : k \in DOMAIN q} = InQueue(s) \cup {reply}
    BY <2>1 DEF InQueue
  <2> QED
    BY <2>1, <2>2, <2>3
<1>10. /\ write_queue_'[s] = q
       /\ \A v \in Sessions \ {s} : write_queue_'[v] = write_queue_[v]
  BY <1>5, <1>6, <1>7, <1>8 DEF send, OutputTypes
<1>11. /\ InQueue(s)' = InQueue(s) \cup {reply}
       /\ \A v \in Sessions \ {s} : InQueue(v)' = InQueue(v)
  <2>1. InQueue(s)' = {q[k] : k \in DOMAIN q}
    BY <1>10 DEF InQueue
  <2>2. \A v \in Sessions \ {s} : InQueue(v)' = InQueue(v)
    BY <1>10 DEF InQueue
  <2> QED
    BY <1>9, <2>1, <2>2
<1>12. UNCHANGED received \/ Delivers(s, q[1])
  BY <1>5, <1>6, <1>8, <1>9, WriteDelivers DEF send
<1>13. q[1] \in Replies /\ q[1] \in InQueue(s) \cup {reply}
  <2>1. 1 \in DOMAIN q
    BY <1>9
  <2> QED
    BY <1>9, <2>1
<1>14. /\ Heard(s)' \subseteq Heard(s) \cup InQueue(s) \cup {reply}
       /\ \A v \in Sessions \ {s} : Heard(v)' = Heard(v)
  <2>1. CASE UNCHANGED received
    BY <2>1 DEF Heard
  <2>2. CASE Delivers(s, q[1])
    BY <1>7, <1>13, <2>2, DeliveredReplies
  <2> QED
    BY <1>12, <2>1, <2>2
<1>15. reply = write_queue_'[s][Len(write_queue_'[s])] /\ reply.to = Len(processed[s]) + 1
  BY <1>4, <1>6, <1>9, <1>10
<1>16. RepliesOf(s)' \subseteq RepliesOf(s) \cup {reply}
  BY <1>11, <1>14 DEF RepliesOf
<1>17. \A v \in Sessions \ {s} : RepliesOf(v)' \subseteq RepliesOf(v)
  BY <1>11, <1>14 DEF RepliesOf
<1> QED
  BY <1>4, <1>12, <1>13, <1>15, <1>16, <1>17

-----------------------------------------------------------------------------
(* The stream of a client, from the unit that the read chain takes next to *)
(* the unit that the client sends next.                                    *)
After(sc, u) == IF u.part < sc[u.msg].size THEN Unit(u.msg, u.part + 1) ELSE Unit(u.msg + 1, 0)

(* The units of messages follow each other: after a unit come the others   *)
(* of its message, and then the header of the next.                        *)
Runs(sc, w) ==
  /\ \A j \in 1 .. Len(w) : w[j].msg \in DOMAIN sc => w[j].part <= sc[w[j].msg].size
  /\ \A j, k \in 1 .. Len(w) : j < k =>
       /\ w[j].msg \in DOMAIN sc
       /\ w[j].part + (k - j) <= sc[w[j].msg].size => w[k] = Unit(w[j].msg, w[j].part + (k - j))
       /\ w[j].part + (k - j) = sc[w[j].msg].size + 1 => w[k] = Unit(w[j].msg + 1, 0)

Stream(s) == Append(wire[s], sent[s])

(* The message that a session works on, and the unit it reads next.        *)
Current(s) == Len(processed[s]) + 1
NextUnit(s) ==
  IF reader[s] = "header" THEN Unit(Current(s), 0)
  ELSE IF reader[s] = "message" THEN Unit(Current(s) + 1, 0)
  ELSE After(script[s], Unit(Current(s), 0))

Reading(s) ==
  /\ Runs(script[s], Stream(s))
  /\ Stream(s)[1] = NextUnit(s)
  /\ reader[s] # "header" => Current(s) \in DOMAIN script[s]
  /\ reader[s] = "length" => current_message_size_ = script[s][Current(s)].size
  /\ reader[s] = "body" => need[s] = script[s][Current(s)].size
  /\ reader[s] = "message" => message[s] = Body(Current(s), script[s][Current(s)].size)

WholeInv == (\A s \in Sessions : reader[s] # "ended" => Reading(s)) /\ MessagesWhole

(* No header of one session can change the length that another one read:   *)
(* there is one session, or all messages have the same length.             *)
LengthsUndisturbed ==
  \/ \A s, v \in Sessions : s = v
  \/ \E size \in Nat : \A sc \in Scripts : \A n \in DOMAIN sc : sc[n].size = size

LEMMA RunsExtend ==
  ASSUME NEW sc \in Seq(Messages), NEW w \in Seq(Units), w # <<>>, Runs(sc, w),
         w[Len(w)].msg \in DOMAIN sc
  PROVE  Runs(sc, Append(w, After(sc, w[Len(w)])))
<1> DEFINE last == w[Len(w)]
           a    == Append(w, After(sc, last))
<1>1. Len(w) \in Nat /\ Len(w) >= 1 /\ last \in Units
  OBVIOUS
<1>2. \A n \in DOMAIN sc : n \in Nat /\ sc[n].size \in Nat
  <2>1. \A n \in DOMAIN sc : n \in Nat /\ sc[n] \in Messages
    OBVIOUS
  <2>2. \A m \in Messages : m.size \in Nat
    BY SessionConstantsOK DEF Messages
  <2> QED
    BY <2>1, <2>2
<1>3. \A j \in 1 .. Len(w) : w[j] \in Units /\ w[j].msg \in Nat /\ w[j].part \in Nat
  <2>1. \A j \in 1 .. Len(w) : w[j] \in Units
    OBVIOUS
  <2>2. \A u \in Units : u.msg \in Nat /\ u.part \in Nat
    BY DEF Units
  <2> QED
    BY <2>1, <2>2
<1>4. last.msg \in DOMAIN sc /\ last.part <= sc[last.msg].size /\ last.part \in Nat /\ last.msg \in Nat
  BY <1>1, <1>3 DEF Runs
<1>5. After(sc, last) \in Units
  BY <1>2, <1>4 DEF After, Unit, Units
<1>6. /\ Len(a) = Len(w) + 1 /\ a[Len(w) + 1] = After(sc, last)
      /\ \A j \in 1 .. Len(w) : a[j] = w[j]
  BY <1>5
<1> HIDE DEF a, last
<1>7. ASSUME NEW j \in 1 .. Len(a), a[j].msg \in DOMAIN sc
      PROVE  a[j].part <= sc[a[j].msg].size
  <2>1. CASE j \in 1 .. Len(w)
    BY <1>6, <1>7, <2>1 DEF Runs
  <2>2. CASE j = Len(w) + 1
    <3>1. a[j] = After(sc, last)
      BY <1>6, <2>2
    <3>2. CASE last.part < sc[last.msg].size
      <4>1. a[j].msg = last.msg /\ a[j].part = last.part + 1
        BY <3>1, <3>2 DEF After, Unit
      <4> QED
        BY <1>2, <1>4, <3>2, <4>1
    <3>3. CASE ~ (last.part < sc[last.msg].size)
      <4>1. a[j].part = 0
        BY <3>1, <3>3 DEF After, Unit
      <4> QED
        BY <1>2, <1>7, <4>1
    <3> QED
      BY <3>2, <3>3
  <2> QED
    BY <1>1, <1>6, <2>1, <2>2
<1>8. ASSUME NEW j \in 1 .. Len(a), NEW k \in 1 .. Len(a), j < k
      PROVE  /\ a[j].msg \in DOMAIN sc
             /\ a[j].part + (k - j) <= sc[a[j].msg].size => a[k] = Unit(a[j].msg, a[j].part + (k - j))
             /\ a[j].part + (k - j) = sc[a[j].msg].size + 1 => a[k] = Unit(a[j].msg + 1, 0)
  <2>1. j \in 1 .. Len(w) /\ a[j] = w[j]
    BY <1>1, <1>6, <1>8
  <2>2. CASE k \in 1 .. Len(w)
    BY <1>6, <1>8, <2>1, <2>2 DEF Runs
  <2>3. CASE k = Len(w) + 1
    <3>1. a[k] = After(sc, last)
      BY <1>6, <2>3
    <3>2. w[j].msg \in DOMAIN sc
      <4>1. CASE j < Len(w)
        BY <1>1, <2>1, <4>1 DEF Runs
      <4>2. CASE j = Len(w)
        BY <4>2
      <4> QED
        BY <1>1, <2>1, <4>1, <4>2
    <3>3. PICK size \in Nat : size = sc[w[j].msg].size
      BY <1>2, <3>2
    <3>4. PICK part \in Nat, msg \in Nat : part = w[j].part /\ msg = w[j].msg
      BY <1>3, <2>1
    <3>5. part + (Len(w) - j) <= size => last = Unit(msg, part + (Len(w) - j))
      <4>1. CASE j < Len(w)
        BY <1>1, <2>1, <3>3, <3>4, <4>1 DEF Runs, last
      <4>2. CASE j = Len(w)
        <5>1. part + (Len(w) - j) = part
          BY <1>1, <4>2
        <5>2. last = Unit(msg, part)
          BY <1>3, <2>1, <3>4, <4>2 DEF last, Units, Unit
        <5> QED
          BY <5>1, <5>2
      <4> QED
        BY <1>1, <2>1, <4>1, <4>2
    <3>6. k - j = (Len(w) - j) + 1 /\ Len(w) - j \in Nat
      BY <1>1, <2>1, <2>3
    <3>7. PICK d \in Nat : d = Len(w) - j /\ k - j = d + 1
      BY <3>6
    <3>8. part + d <= size => last.msg = msg /\ last.part = part + d
      BY <3>5, <3>7 DEF Unit
    <3>9. ASSUME part + (d + 1) <= size PROVE a[k] = Unit(msg, part + (d + 1))
      <4>1. last.msg = msg /\ last.part = part + d /\ part + d < size
        BY <3>8, <3>9
      <4>2. After(sc, last) = Unit(msg, (part + d) + 1)
        BY <3>3, <3>4, <4>1 DEF After
      <4>3. (part + d) + 1 = part + (d + 1)
        OBVIOUS
      <4> QED
        BY <3>1, <4>2, <4>3
    <3>10. ASSUME part + (d + 1) = size + 1 PROVE a[k] = Unit(msg + 1, 0)
      <4>1. last.msg = msg /\ last.part = part + d /\ part + d = size
        BY <3>8, <3>10
      <4>2. ~ (last.part < sc[last.msg].size)
        BY <3>3, <3>4, <4>1
      <4>3. After(sc, last) = Unit(msg + 1, 0)
        BY <4>1, <4>2 DEF After
      <4> QED
        BY <3>1, <4>3
    <3> QED
      BY <2>1, <3>2, <3>3, <3>4, <3>7, <3>9, <3>10
  <2> QED
    BY <1>1, <1>6, <2>2, <2>3
<1>9. Runs(sc, a)
  BY <1>7, <1>8 DEF Runs
<1> QED
  BY <1>9 DEF a, last

(* What is left of a stream when its first units are taken.                *)
LEMMA RunsDrop ==
  ASSUME NEW sc, NEW w \in Seq(Units), Runs(sc, w), NEW d \in Nat, d < Len(w)
  PROVE  /\ Runs(sc, SubSeq(w, d + 1, Len(w)))
         /\ SubSeq(w, d + 1, Len(w))[1] = w[d + 1]
<1> DEFINE a == SubSeq(w, d + 1, Len(w))
<1>1. /\ a \in Seq(Units) /\ Len(w) \in Nat /\ Len(a) = Len(w) - d
      /\ \A j \in 1 .. Len(a) : j + d \in 1 .. Len(w) /\ a[j] = w[j + d]
  OBVIOUS
<1> HIDE DEF a
<1>2. \A j \in 1 .. Len(a) : a[j].msg \in DOMAIN sc => a[j].part <= sc[a[j].msg].size
  BY <1>1 DEF Runs
<1>3. Runs(sc, a)
  <2>1. ASSUME NEW j \in 1 .. Len(a), NEW k \in 1 .. Len(a), j < k
        PROVE  /\ a[j].msg \in DOMAIN sc
               /\ a[j].part + (k - j) <= sc[a[j].msg].size => a[k] = Unit(a[j].msg, a[j].part + (k - j))
               /\ a[j].part + (k - j) = sc[a[j].msg].size + 1 => a[k] = Unit(a[j].msg + 1, 0)
    <3>1. PICK x \in 1 .. Len(w), y \in 1 .. Len(w) : x = j + d /\ y = k + d
      BY <1>1
    <3>2. x < y /\ y - x = k - j
      BY <1>1, <2>1, <3>1
    <3>3. a[j] = w[x] /\ a[k] = w[y]
      BY <1>1, <3>1
    <3> QED
      BY <3>2, <3>3 DEF Runs
  <2> QED
    BY <1>2, <2>1 DEF Runs
<1>4. a[1] = w[d + 1]
  BY <1>1
<1> QED
  BY <1>3, <1>4 DEF a

(* A session of which a step of another one changes nothing.               *)
LEMMA OthersRead ==
  ASSUME NEW v \in Sessions, Reading(v), script' = script,
         reader'[v] = reader[v], wire'[v] = wire[v], sent'[v] = sent[v], need'[v] = need[v],
         message'[v] = message[v], Len(processed'[v]) = Len(processed[v]),
         reader[v] = "length" => current_message_size_' = current_message_size_
  PROVE  Reading(v)'
<1>1. Stream(v)' = Stream(v) /\ Current(v)' = Current(v) /\ NextUnit(v)' = NextUnit(v)
  BY DEF Stream, Current, NextUnit
<1>2. PICK w, n : w = Stream(v) /\ n = Current(v)
  OBVIOUS
<1> QED
  BY <1>1 DEF Reading

LEMMA StreamTypes ==
  ASSUME SessionInv, NEW s \in Sessions
  PROVE  /\ wire[s] \in Seq(Units) /\ sent[s] \in Units /\ script[s] \in Seq(Messages)
         /\ Stream(s) \in Seq(Units) /\ Len(Stream(s)) = Len(wire[s]) + 1
         /\ Stream(s)[Len(wire[s]) + 1] = sent[s]
         /\ \A k \in 1 .. Len(wire[s]) : Stream(s)[k] = wire[s][k]
         /\ Current(s) \in Nat
         /\ \A n \in DOMAIN script[s] : n \in Nat /\ script[s][n].size \in Nat
<1>1. wire[s] \in Seq(Units) /\ sent[s] \in Units /\ processed[s] \in Seq(Records)
  BY DEF SessionInv, InputInv, OutputTypes
<1>2. script[s] \in Seq(Messages)
  BY SessionConstantsOK DEF SessionInv, OutputTypes
<1>3. \A n \in DOMAIN script[s] : n \in Nat /\ script[s][n].size \in Nat
  BY ScriptTypes, SessionConstantsOK DEF SessionInv
<1>4. /\ Stream(s) \in Seq(Units) /\ Len(Stream(s)) = Len(wire[s]) + 1
      /\ Stream(s)[Len(wire[s]) + 1] = sent[s]
      /\ \A k \in 1 .. Len(wire[s]) : Stream(s)[k] = wire[s][k]
  BY <1>1 DEF Stream
<1> QED
  BY <1>1, <1>2, <1>3, <1>4 DEF Current

(* The client sends the next unit.                                         *)
LEMMA SendUnitReads ==
  ASSUME SessionInv, NEW s \in Sessions, Reading(s), SendUnit(s)
  PROVE  Reading(s)'
<1>1. PICK w : w = Stream(s)
  OBVIOUS
<1>2. PICK sc : sc = script[s]
  OBVIOUS
<1>3. /\ w \in Seq(Units) /\ Len(w) = Len(wire[s]) + 1 /\ w[Len(w)] = sent[s] /\ w # <<>>
      /\ sc \in Seq(Messages) /\ Len(wire[s]) \in Nat
  BY <1>1, <1>2, StreamTypes
<1>4. sent[s].msg \in DOMAIN sc
  BY <1>2 DEF SendUnit
<1>5. Runs(sc, Append(w, After(sc, sent[s])))
  BY <1>1, <1>2, <1>3, <1>4, RunsExtend DEF Reading
<1>6. wire'[s] = w /\ sent'[s] = After(sc, sent[s])
  BY <1>1, <1>2 DEF SendUnit, SessionInv, InputInv, After, Stream
<1>7. Stream(s)' = Append(w, After(sc, sent[s]))
  BY <1>6 DEF Stream
<1>8. Append(w, After(sc, sent[s]))[1] = w[1]
  <2>1. PICK u : u = After(sc, sent[s])
    OBVIOUS
  <2> QED
    BY <1>3, <2>1
<1>9. UNCHANGED <<current_message_size_, reader, need, message, script, processed>>
  BY DEF SendUnit
<1>10. NextUnit(s)' = NextUnit(s) /\ Current(s)' = Current(s)
  BY <1>9 DEF NextUnit, Current
<1>11. Runs(script[s], Stream(s))' /\ Stream(s)'[1] = NextUnit(s)'
  BY <1>1, <1>2, <1>5, <1>7, <1>8, <1>9, <1>10 DEF Reading
<1> QED
  BY <1>9, <1>10, <1>11 DEF Reading

(* The header of the next message is the next unit, and its length is what *)
(* is read.                                                                *)
LEMMA HeaderReads ==
  ASSUME SessionInv, NEW s \in Sessions, Reading(s), HeaderArrives(s)
  PROVE  /\ Reading(s)'
         /\ Current(s) \in DOMAIN script[s]
         /\ current_message_size_' = script[s][Current(s)].size
<1>1. PICK w : w = Stream(s)
  OBVIOUS
<1>2. PICK sc : sc = script[s]
  OBVIOUS
<1>3. PICK n \in Nat : n = Current(s)
  BY StreamTypes
<1>4. reader[s] = "header" /\ wire[s] # <<>> /\ wire[s] \in Seq(Units)
  BY StreamTypes DEF HeaderArrives
<1>5. /\ w \in Seq(Units) /\ Len(w) = Len(wire[s]) + 1 /\ Len(wire[s]) \in Nat /\ Len(wire[s]) >= 1
      /\ w[1] = wire[s][1] /\ wire[s][1] = Head(wire[s])
      /\ \A k \in DOMAIN sc : sc[k].size \in Nat
  BY <1>1, <1>2, <1>4, StreamTypes
<1>6. w[1] = Unit(n, 0) /\ Runs(sc, w)
  BY <1>1, <1>2, <1>3, <1>4 DEF Reading, NextUnit
<1>7. Head(wire[s]).part = 0 /\ Head(wire[s]).msg = n
  BY <1>5, <1>6 DEF Unit
<1>8. n \in DOMAIN sc
  BY <1>2, <1>4, <1>5, <1>7 DEF SessionInv, InputInv
<1>9. current_message_size_' = sc[n].size
  BY <1>2, <1>7 DEF HeaderArrives, LengthIn
<1>10. UNCHANGED <<script, sent, need, message, processed>>
  BY DEF HeaderArrives, client
<1>11. wire'[s] = Tail(wire[s]) /\ reader'[s] = "length"
  BY DEF HeaderArrives, SessionInv, InputInv
<1>12. Stream(s)' = SubSeq(w, 2, Len(w))
  <2>1. Stream(s)' = Append(Tail(wire[s]), sent[s])
    BY <1>10, <1>11 DEF Stream
  <2>2. PICK x, u : x = wire[s] /\ u = sent[s]
    OBVIOUS
  <2>3. w = Append(x, u) /\ x \in Seq(Units) /\ u \in Units /\ Len(x) >= 1
    BY <1>1, <1>5, <2>2, StreamTypes DEF Stream
  <2>4. Append(Tail(x), u) = SubSeq(Append(x, u), 2, Len(x) + 1)
    BY <2>3
  <2> QED
    BY <1>5, <2>1, <2>2, <2>3, <2>4
<1>13. Runs(sc, SubSeq(w, 2, Len(w))) /\ SubSeq(w, 2, Len(w))[1] = w[2]
  <2>1. 1 < Len(w) /\ 1 + 1 = 2
    BY <1>5
  <2> QED
    BY <1>5, <1>6, <2>1, RunsDrop
<1>14. w[2] = After(sc, Unit(n, 0))
  <2>1. w[1].msg = n /\ w[1].part = 0 /\ 1 \in 1 .. Len(w) /\ 2 \in 1 .. Len(w)
    BY <1>5, <1>6 DEF Unit
  <2>2. PICK size \in Nat : size = sc[n].size
    BY <1>5, <1>8
  <2>3. /\ 0 + (2 - 1) <= size => w[2] = Unit(n, 0 + (2 - 1))
        /\ 0 + (2 - 1) = size + 1 => w[2] = Unit(n + 1, 0)
    BY <1>6, <2>1, <2>2 DEF Runs
  <2>4. CASE 0 < size
    <3>1. w[2] = Unit(n, 0 + 1)
      BY <2>3, <2>4
    <3> QED
      BY <2>2, <2>4, <3>1 DEF After, Unit
  <2>5. CASE size = 0
    <3>1. w[2] = Unit(n + 1, 0)
      BY <2>3, <2>5
    <3>2. Unit(n, 0).part = 0 /\ Unit(n, 0).msg = n
      BY DEF Unit
    <3>3. ~ (0 < sc[n].size)
      BY <2>2, <2>5
    <3>4. After(sc, Unit(n, 0)) = Unit(n + 1, 0)
      BY <3>2, <3>3 DEF After
    <3> QED
      BY <3>1, <3>4
  <2> QED
    BY <2>4, <2>5
<1>15. Current(s)' = n /\ NextUnit(s)' = After(sc, Unit(n, 0))
  BY <1>2, <1>3, <1>10, <1>11 DEF Current, NextUnit
<1>16. Runs(script[s], Stream(s))' /\ Stream(s)'[1] = NextUnit(s)'
  BY <1>2, <1>10, <1>12, <1>13, <1>14, <1>15
<1>17. Reading(s)'
  BY <1>2, <1>8, <1>9, <1>10, <1>11, <1>15, <1>16 DEF Reading
<1> QED
  BY <1>2, <1>3, <1>8, <1>9, <1>17

(* The length is that of the message, or the session ends.                 *)
LEMMA LengthReads ==
  ASSUME SessionInv, NEW s \in Sessions, Reading(s), handle_read_header(s), reader'[s] # "ended"
  PROVE  Reading(s)'
<1>1. /\ reader[s] = "length" /\ reader'[s] = "body" /\ need'[s] = current_message_size_
      /\ UNCHANGED <<current_message_size_, script, sent, wire, message, processed>>
  BY DEF handle_read_header, client, SessionInv, InputInv
<1>2. Stream(s)' = Stream(s) /\ Current(s)' = Current(s) /\ NextUnit(s)' = NextUnit(s)
  BY <1>1 DEF Stream, Current, NextUnit
<1>3. current_message_size_ = script[s][Current(s)].size
  BY <1>1 DEF Reading
<1> QED
  BY <1>1, <1>2, <1>3 DEF Reading

(* What arrives as the body is the whole body of the message.              *)
LEMMA BodyReads ==
  ASSUME SessionInv, NEW s \in Sessions, Reading(s), BodyArrives(s)
  PROVE  Reading(s)'
<1>1. PICK w : w = Stream(s)
  OBVIOUS
<1>2. PICK sc : sc = script[s]
  OBVIOUS
<1>3. PICK n \in Nat : n = Current(s)
  BY StreamTypes
<1>4. /\ reader[s] = "body" /\ n \in DOMAIN sc /\ need[s] = sc[n].size
      /\ Runs(sc, w) /\ w[1] = After(sc, Unit(n, 0))
  BY <1>1, <1>2, <1>3 DEF BodyArrives, Reading, NextUnit
<1>5. PICK size \in Nat : size = sc[n].size
  BY <1>2, <1>4, StreamTypes
<1>6. PICK x, u : x = wire[s] /\ u = sent[s]
  OBVIOUS
<1>7. /\ x \in Seq(Units) /\ u \in Units /\ w = Append(x, u) /\ Len(x) \in Nat /\ size <= Len(x)
      /\ w \in Seq(Units) /\ Len(w) = Len(x) + 1
  BY <1>1, <1>4, <1>5, <1>6, StreamTypes DEF Stream, BodyArrives
<1>8. size > 0 => w[1] = Unit(n, 1)
  <2>1. Unit(n, 0).part = 0 /\ Unit(n, 0).msg = n
    BY DEF Unit
  <2> QED
    BY <1>4, <1>5, <2>1 DEF After
<1>9. size = 0 => w[1] = Unit(n + 1, 0)
  <2>1. Unit(n, 0).part = 0 /\ Unit(n, 0).msg = n
    BY DEF Unit
  <2>2. size = 0 => ~ (0 < sc[n].size)
    BY <1>5
  <2> QED
    BY <1>4, <2>1, <2>2 DEF After
<1>10. \A k \in 1 .. size : w[k] = Unit(n, k)
  <2> SUFFICES ASSUME NEW k \in 1 .. size PROVE w[k] = Unit(n, k)
    OBVIOUS
  <2>1. w[1].msg = n /\ w[1].part = 1 /\ w[1] = Unit(n, 1)
    BY <1>8 DEF Unit
  <2>2. CASE k = 1
    BY <2>1, <2>2
  <2>3. CASE k > 1
    <3>1. 1 \in 1 .. Len(w) /\ k \in 1 .. Len(w) /\ 1 < k
      BY <1>7, <2>3
    <3>2. 1 + (k - 1) <= size => w[k] = Unit(n, 1 + (k - 1))
      BY <1>4, <1>5, <2>1, <3>1 DEF Runs
    <3>3. 1 + (k - 1) = k
      OBVIOUS
    <3> QED
      BY <3>2, <3>3
  <2> QED
    BY <2>2, <2>3
<1>11. w[size + 1] = Unit(n + 1, 0)
  <2>1. CASE size = 0
    BY <1>9, <2>1
  <2>2. CASE size > 0
    <3>1. w[1].msg = n /\ w[1].part = 1
      BY <1>8, <2>2 DEF Unit
    <3>2. 1 \in 1 .. Len(w) /\ size + 1 \in 1 .. Len(w) /\ 1 < size + 1
      BY <1>7, <2>2
    <3>3. PICK j \in 1 .. Len(w), k \in 1 .. Len(w) : j = 1 /\ k = size + 1
      BY <3>2
    <3>4. w[j].part + (k - j) = size + 1 => w[k] = Unit(n + 1, 0)
      BY <1>4, <1>5, <3>1, <3>2, <3>3 DEF Runs
    <3>5. 1 + (k - j) = size + 1
      BY <3>3
    <3> QED
      BY <3>1, <3>3, <3>4, <3>5
  <2> QED
    BY <2>1, <2>2
<1> DEFINE body   == SubSeq(x, 1, size)
           buffer == read_buffer_[s] \o body
<1>12. body \in Seq(Units) /\ Len(body) = size /\ \A k \in 1 .. size : body[k] = w[k]
  BY <1>7
<1>13. read_buffer_[s] = <<>>
  BY DEF SessionInv, InputInv
<1>14. SubSeq(buffer, 1, size) = body
  <2>1. buffer = body
    BY <1>12, <1>13
  <2>2. SubSeq(body, 1, size) = body
    BY <1>12
  <2> QED
    BY <2>1, <2>2
<1>15. body = Body(n, size)
  <2> HIDE DEF body
  <2>1. body = [k \in 1 .. size |-> body[k]]
    BY <1>12
  <2> QED
    BY <1>10, <1>12, <2>1 DEF Body
<1>16. message'[s] = Body(n, size)
  <2>1. message' = [message EXCEPT ![s] = SubSeq(buffer, 1, size)]
    BY <1>4, <1>5, <1>6 DEF BodyArrives
  <2>2. message \in [Sessions -> Seq(Units)]
    BY DEF SessionInv, OutputTypes
  <2> HIDE DEF body, buffer
  <2> QED
    BY <1>14, <1>15, <2>1, <2>2
<1>17. UNCHANGED <<script, sent, processed>>
  BY DEF BodyArrives, client
<1>18. wire'[s] = SubSeq(x, size + 1, Len(x)) /\ reader'[s] = "message"
  BY <1>4, <1>5, <1>6 DEF BodyArrives, SessionInv, InputInv
<1>19. Stream(s)' = SubSeq(w, size + 1, Len(w))
  <2>1. Stream(s)' = Append(SubSeq(x, size + 1, Len(x)), u)
    BY <1>6, <1>17, <1>18 DEF Stream
  <2>2. Append(SubSeq(x, size + 1, Len(x)), u) = SubSeq(Append(x, u), size + 1, Len(x) + 1)
    BY <1>7
  <2> QED
    BY <1>7, <2>1, <2>2
<1>20. /\ Runs(sc, SubSeq(w, size + 1, Len(w)))
       /\ SubSeq(w, size + 1, Len(w))[1] = w[size + 1]
  <2>1. size < Len(w)
    BY <1>7
  <2> QED
    BY <1>4, <1>7, <2>1, RunsDrop
<1>21. Current(s)' = n /\ NextUnit(s)' = Unit(n + 1, 0)
  BY <1>3, <1>17, <1>18 DEF Current, NextUnit
<1>22. Runs(script[s], Stream(s))' /\ Stream(s)'[1] = NextUnit(s)'
  BY <1>2, <1>11, <1>17, <1>19, <1>20, <1>21
<1> QED
  BY <1>2, <1>4, <1>5, <1>16, <1>17, <1>18, <1>21, <1>22 DEF Reading

(* The message that was read goes into the history; the next header is     *)
(* the next unit.                                                          *)
LEMMA ProcessReads ==
  ASSUME SessionInv, MessagesWhole, NEW s \in Sessions, Reading(s), process_message(s)
  PROVE  Reading(s)' /\ MessagesWhole'
<1>1. PICK n \in Nat : n = Current(s)
  BY StreamTypes
<1>2. PICK record \in Records : record = [message |-> message[s], kind |-> KindOf(s), reached |-> Reaches(s)]
  BY RecordType DEF SessionInv
<1>3. processed' = [processed EXCEPT ![s] = Append(@, record)]
  BY <1>2 DEF process_message
<1>4. PICK p \in Seq(Records) : p = processed[s] /\ n = Len(p) + 1
  BY <1>1 DEF SessionInv, OutputTypes, Current
<1>5. PICK a : a = Append(p, record)
  OBVIOUS
<1>6. /\ Len(a) = n /\ a[n] = record /\ DOMAIN a = 1 .. n
      /\ \A k \in 1 .. Len(p) : a[k] = p[k] /\ k \in DOMAIN p
      /\ \A k \in 1 .. n : k = n \/ k \in 1 .. Len(p)
  BY <1>4, <1>5
<1>7. /\ processed'[s] = a
      /\ \A v \in Sessions : v # s => processed'[v] = processed[v]
  BY <1>3, <1>4, <1>5 DEF SessionInv, OutputTypes
<1>8. /\ reader[s] = "message" /\ reader'[s] = "header"
      /\ UNCHANGED <<script, sent, wire, message>>
  BY DEF process_message, client, SessionInv, InputInv
<1>9. n \in DOMAIN script[s] /\ message[s] = Body(n, script[s][n].size)
  BY <1>1, <1>8 DEF Reading
<1>10. Stream(s)' = Stream(s) /\ Current(s)' = n + 1
  BY <1>6, <1>7, <1>8 DEF Stream, Current
<1>11. NextUnit(s)' = Unit(n + 1, 0) /\ NextUnit(s) = Unit(n + 1, 0)
  BY <1>1, <1>8, <1>10 DEF NextUnit
<1>12. Reading(s)'
  BY <1>8, <1>10, <1>11 DEF Reading
<1>13. ASSUME NEW v \in Sessions, NEW k \in DOMAIN processed'[v]
       PROVE  k \in DOMAIN script[v] /\ processed'[v][k].message = Body(k, script[v][k].size)
  <2>1. CASE v # s
    BY <1>7, <2>1 DEF MessagesWhole
  <2>2. CASE v = s /\ k = n
    BY <1>2, <1>6, <1>7, <1>9, <2>2
  <2>3. CASE v = s /\ k \in 1 .. Len(p)
    BY <1>4, <1>6, <1>7, <2>3 DEF MessagesWhole
  <2> QED
    BY <1>6, <1>7, <2>1, <2>2, <2>3
<1> QED
  BY <1>8, <1>12, <1>13 DEF MessagesWhole

LEMMA WholeInit == Init => WholeInv
<1> SUFFICES ASSUME Init PROVE WholeInv
  OBVIOUS
<1>1. MessagesWhole
  BY DEF Init, MessagesWhole
<1>2. ASSUME NEW s \in Sessions PROVE Reading(s)
  <2>1. PICK sc \in Seq(Messages) : sc = script[s]
    BY SessionConstantsOK DEF Init
  <2>2. /\ wire[s] = <<>> /\ sent[s] = Unit(1, 0) /\ processed[s] = <<>> /\ reader[s] = "header"
    BY DEF Init
  <2>3. PICK u : u = Unit(1, 0)
    OBVIOUS
  <2>4. PICK w : w = Append(<<>>, u)
    OBVIOUS
  <2>5. Len(w) = 1 /\ w[1] = u /\ \A j \in 1 .. Len(w) : j = 1
    BY <2>4
  <2>6. \A n \in DOMAIN sc : 0 <= sc[n].size
    BY <2>1, ScriptTypes, SessionInit DEF SessionInv
  <2>7. u.part = 0
    BY <2>3 DEF Unit
  <2>8. Runs(sc, w)
    <3>1. \A j, k \in 1 .. Len(w) : ~ (j < k)
      BY <2>5
    <3> QED
      BY <2>5, <2>6, <2>7, <3>1 DEF Runs
  <2>9. Stream(s) = w /\ Current(s) = 1
    BY <2>2, <2>3, <2>4 DEF Stream, Current
  <2> QED
    BY <2>1, <2>2, <2>3, <2>5, <2>8, <2>9 DEF Reading, NextUnit
<1> QED
  BY <1>1, <1>2 DEF WholeInv

(* A step that processes nothing adds nothing to the history.              *)
LEMMA HistoryKept ==
  ASSUME MessagesWhole, UNCHANGED <<script, processed>>
  PROVE  MessagesWhole'
  BY DEF MessagesWhole

(* A header changes no length that another session read.                   *)
LEMMA LengthKept ==
  ASSUME LengthsUndisturbed, SessionInv, WholeInv, NEW s \in Sessions, HeaderArrives(s),
         NEW v \in Sessions, v # s, reader[v] = "length"
  PROVE  current_message_size_' = current_message_size_
<1>1. PICK size \in Nat : \A sc \in Scripts : \A n \in DOMAIN sc : sc[n].size = size
  BY DEF LengthsUndisturbed
<1>2. script[s] \in Scripts /\ script[v] \in Scripts
  BY DEF SessionInv, OutputTypes
<1>3. Reading(s) /\ Reading(v)
  BY DEF WholeInv, HeaderArrives
<1>4. Current(v) \in DOMAIN script[v] /\ current_message_size_ = script[v][Current(v)].size
  BY <1>3 DEF Reading
<1>5. Current(s) \in DOMAIN script[s] /\ current_message_size_' = script[s][Current(s)].size
  BY <1>3, HeaderReads
<1> QED
  BY <1>1, <1>2, <1>4, <1>5

LEMMA WholeStep ==
  ASSUME LengthsUndisturbed
  PROVE  SessionInv /\ WholeInv /\ [Next]_vars => WholeInv'
<1> SUFFICES ASSUME SessionInv, WholeInv, [Next]_vars PROVE WholeInv'
  OBVIOUS
<1> USE DEF WholeInv
<1>1. ASSUME NEW s \in Sessions, SendUnit(s) PROVE WholeInv'
  <2>1. ASSUME NEW v \in Sessions, reader'[v] # "ended" PROVE Reading(v)'
    <3>1. reader[v] # "ended"
      BY <1>1, <2>1 DEF SendUnit
    <3>2. CASE v = s
      BY <1>1, <3>1, <3>2, SendUnitReads
    <3>3. CASE v # s
      BY <1>1, <3>1, <3>3, OthersRead DEF SendUnit, SessionInv, InputInv
    <3> QED
      BY <3>2, <3>3
  <2> QED
    BY <1>1, <2>1, HistoryKept DEF SendUnit
<1>2. ASSUME NEW s \in Sessions, HeaderArrives(s) PROVE WholeInv'
  <2>1. ASSUME NEW v \in Sessions, reader'[v] # "ended" PROVE Reading(v)'
    <3>1. CASE v = s
      BY <1>2, <3>1, HeaderReads DEF HeaderArrives
    <3>2. CASE v # s
      <4>1. /\ reader'[v] = reader[v] /\ wire'[v] = wire[v]
            /\ UNCHANGED <<script, sent, need, message, processed>>
        BY <1>2, <3>2 DEF HeaderArrives, client, SessionInv, InputInv
      <4>2. reader[v] = "length" => current_message_size_' = current_message_size_
        BY <1>2, <3>2, LengthKept
      <4> QED
        BY <2>1, <4>1, <4>2, OthersRead
    <3> QED
      BY <3>1, <3>2
  <2> QED
    BY <1>2, <2>1, HistoryKept DEF HeaderArrives, client
<1>3. ASSUME NEW s \in Sessions, handle_read_header(s) PROVE WholeInv'
  <2>1. ASSUME NEW v \in Sessions, reader'[v] # "ended" PROVE Reading(v)'
    <3>1. CASE v = s
      BY <1>3, <2>1, <3>1, LengthReads DEF handle_read_header
    <3>2. CASE v # s
      <4>1. /\ reader'[v] = reader[v] /\ need'[v] = need[v]
            /\ UNCHANGED <<current_message_size_, script, sent, wire, message, processed>>
        BY <1>3, <3>2 DEF handle_read_header, client, SessionInv, InputInv
      <4> QED
        BY <2>1, <4>1, OthersRead
    <3> QED
      BY <3>1, <3>2
  <2> QED
    BY <1>3, <2>1, HistoryKept DEF handle_read_header, client
<1>4. ASSUME NEW s \in Sessions, BodyArrives(s) PROVE WholeInv'
  <2>1. ASSUME NEW v \in Sessions, reader'[v] # "ended" PROVE Reading(v)'
    <3>1. CASE v = s
      BY <1>4, <3>1, BodyReads DEF BodyArrives
    <3>2. CASE v # s
      <4>1. /\ reader'[v] = reader[v] /\ wire'[v] = wire[v] /\ message'[v] = message[v]
            /\ UNCHANGED <<current_message_size_, script, sent, need, processed>>
        BY <1>4, <3>2 DEF BodyArrives, client, SessionInv, InputInv, OutputTypes
      <4> QED
        BY <2>1, <4>1, OthersRead
    <3> QED
      BY <3>1, <3>2
  <2> QED
    BY <1>4, <2>1, HistoryKept DEF BodyArrives, client
<1>5. ASSUME NEW s \in Sessions, ReadFails(s) PROVE WholeInv'
  <2>1. ASSUME NEW v \in Sessions, reader'[v] # "ended" PROVE Reading(v)'
    <3>1. /\ reader'[v] = reader[v]
          /\ UNCHANGED <<current_message_size_, script, sent, wire, need, message, processed>>
      BY <1>5, <2>1 DEF ReadFails, client, SessionInv, InputInv
    <3> QED
      BY <2>1, <3>1, OthersRead
  <2> QED
    BY <1>5, <2>1, HistoryKept DEF ReadFails, client
<1>6. ASSUME NEW s \in Sessions, process_message(s) PROVE WholeInv'
  <2>1. Reading(s)' /\ MessagesWhole'
    BY <1>6, ProcessReads DEF process_message
  <2>2. ASSUME NEW v \in Sessions, v # s, reader'[v] # "ended" PROVE Reading(v)'
    <3>1. /\ reader'[v] = reader[v] /\ processed'[v] = processed[v]
          /\ UNCHANGED <<current_message_size_, script, sent, wire, need, message>>
      BY <1>6, <2>2 DEF process_message, client, SessionInv, InputInv, OutputTypes
    <3> QED
      BY <2>2, <3>1, OthersRead
  <2> QED
    BY <2>1, <2>2
<1>7. ASSUME UNCHANGED <<current_message_size_, script, sent, wire, reader, need, message, processed>>
      PROVE  WholeInv'
  <2>1. ASSUME NEW v \in Sessions, reader'[v] # "ended" PROVE Reading(v)'
    BY <1>7, <2>1, OthersRead
  <2> QED
    BY <1>7, <2>1, HistoryKept
<1>8. ASSUME NEW s \in Sessions, HangUp(s) PROVE WholeInv'
  BY <1>7, <1>8 DEF HangUp, input
<1>9. ASSUME NEW s \in Sessions, Write(s) PROVE WholeInv'
  <2>1. UNCHANGED <<current_message_size_, client, input, processed>>
    BY <1>9 DEF Write, WriteCompletes, handle_write
  <2> QED
    BY <1>7, <2>1 DEF client, input
<1>10. CASE UNCHANGED vars
  BY <1>7, <1>10 DEF vars, client, input
<1> QED
  BY <1>1, <1>2, <1>3, <1>4, <1>5, <1>6, <1>8, <1>9, <1>10 DEF Next, Read

(* What a session processes are the messages of its client, whole and in   *)
(* order, however they are cut on the wire and whatever the other chains   *)
(* do, as long as no header of another session can put a different length  *)
(* into the global current_message_size_.  Without that the property is    *)
(* false: a header that arrives between the two handlers of another read   *)
(* changes the length of that read.                                        *)
THEOREM MessagesArriveWhole ==
  ASSUME LengthsUndisturbed
  PROVE  Spec => []MessagesWhole
<1>1. SessionInv /\ WholeInv /\ [Next]_vars => WholeInv'
  BY WholeStep
<1>2. WholeInv => MessagesWhole
  BY DEF WholeInv
<1> QED
  BY <1>1, <1>2, WholeInit, SessionInvariant, PTL DEF Spec
=============================================================================
