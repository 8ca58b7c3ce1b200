---------------------------- MODULE ClientSession ----------------------------
(***************************************************************************)
(* The sessions of connected clients (src/ClientSession.cpp): the chain of *)
(* asynchronous reads that takes length-prefixed messages from a socket,   *)
(* process_message, and the queue of replies behind write_mutex_.          *)
(*                                                                         *)
(* Completion handlers run on any worker thread: the handlers of different *)
(* sessions interleave freely, and so do the read chain and the write      *)
(* chain of one session.  send and handle_write hold write_mutex_ and are  *)
(* one step each.  A unit of the stream stands for the four bytes of a     *)
(* header or for a piece of a body.                                        *)
(***************************************************************************)
EXTENDS Naturals, Sequences, FiniteSets

CONSTANTS
  Sessions,
  Scripts,           \* what a client may send: sequences of [kind, size]
  MAX_MESSAGE_SIZE   \* in units

Kinds    == {"login", "bad login", "search", "trade", "invalid"}
Messages == [kind : Kinds, size : 0 .. MAX_MESSAGE_SIZE + 1]

ASSUME SessionConstantsOK ==
  /\ MAX_MESSAGE_SIZE \in Nat
  /\ Scripts \subseteq Seq(Messages)
  /\ \A script \in Scripts : \A n \in DOMAIN script : script[n].size = 0 => script[n].kind = "invalid"

VARIABLES
  current_message_size_,  \* Protocol's global
  script, sent,           \* each client: its messages, the units it has sent
  hungUp,                 \* the client closed its side
  wire,                   \* units that arrived and are not read yet
  open,                   \* socket_.is_open()
  reader,                 \* where the read chain stands
  need,                   \* the units the body read waits for
  read_buffer_,
  message,                \* what handle_read_body took from the buffer
  authenticated_,
  write_queue_, is_writing_,
  writes,                 \* the async_writes that are outstanding
  received,               \* what the client got: replies and their lengths
  processed               \* history: the messages that were processed

client == <<script, sent, hungUp>>
input  == <<wire, reader, need, read_buffer_, message>>
output == <<write_queue_, is_writing_, writes, received>>
vars   == <<current_message_size_, client, input, output, open, authenticated_, processed>>

(* Unit k of message n, unit 0 being its header.                           *)
Unit(n, k) == [msg |-> n, part |-> k]
Body(n, size) == [k \in 1 .. size |-> Unit(n, k)]

Init ==
  /\ current_message_size_ = 0
  /\ script \in [Sessions -> Scripts]
  /\ sent = [s \in Sessions |-> Unit(1, 0)]
  /\ hungUp = [s \in Sessions |-> FALSE]
  /\ wire = [s \in Sessions |-> <<>>]
  /\ open = [s \in Sessions |-> TRUE]
  /\ reader = [s \in Sessions |-> "header"]
  /\ need = [s \in Sessions |-> 0]
  /\ read_buffer_ = [s \in Sessions |-> <<>>]
  /\ message = [s \in Sessions |-> <<>>]
  /\ authenticated_ = [s \in Sessions |-> FALSE]
  /\ write_queue_ = [s \in Sessions |-> <<>>]
  /\ is_writing_ = [s \in Sessions |-> FALSE]
  /\ writes = [s \in Sessions |-> <<>>]
  /\ received = [s \in Sessions |-> <<>>]
  /\ processed = [s \in Sessions |-> <<>>]

-----------------------------------------------------------------------------
(* The client sends its messages without waiting for replies, and may hang *)
(* up at any time; what it sent before still arrives.                      *)

SendUnit(s) ==
  /\ ~hungUp[s]
  /\ sent[s].msg \in DOMAIN script[s]
  /\ wire' = [wire EXCEPT ![s] = Append(@, sent[s])]
  /\ sent' = [sent EXCEPT ![s] = IF @.part < script[s][@.msg].size THEN Unit(@.msg, @.part + 1)
                                                                   ELSE Unit(@.msg + 1, 0)]
  /\ UNCHANGED <<current_message_size_, script, hungUp, reader, need, read_buffer_, message,
                 output, open, authenticated_, processed>>

HangUp(s) ==
  /\ ~hungUp[s]
  /\ hungUp' = [hungUp EXCEPT ![s] = TRUE]
  /\ UNCHANGED <<current_message_size_, script, sent, input, output, open, authenticated_, processed>>

-----------------------------------------------------------------------------
(* The read chain.                                                         *)

stopNothing(s) == UNCHANGED open                  \* mutant: the socket stays open
stop(s) == open' = [open EXCEPT ![s] = FALSE]

(* What four bytes read as a length mean: a header says the size of its    *)
(* message, a piece of a body anything.                                    *)
LengthIn(s, unit) ==
  IF unit.part = 0 THEN {script[s][unit.msg].size} ELSE 0 .. MAX_MESSAGE_SIZE + 1

(* async_read puts the four bytes straight into the global.                *)
HeaderArrives(s) ==
  /\ reader[s] = "header"
  /\ open[s]
  /\ wire[s] # <<>>
  /\ current_message_size_' \in LengthIn(s, Head(wire[s]))
  /\ wire' = [wire EXCEPT ![s] = Tail(@)]
  /\ reader' = [reader EXCEPT ![s] = "length"]
  /\ UNCHANGED <<client, need, read_buffer_, message, output, open, authenticated_, processed>>

handle_read_header(s) ==
  /\ reader[s] = "length"
  /\ \/ /\ current_message_size_ > MAX_MESSAGE_SIZE
        /\ stop(s)
        /\ reader' = [reader EXCEPT ![s] = "ended"]
        /\ UNCHANGED need
     \/ /\ current_message_size_ <= MAX_MESSAGE_SIZE
        /\ need' = [need EXCEPT ![s] = current_message_size_]
        /\ reader' = [reader EXCEPT ![s] = "body"]
        /\ UNCHANGED open
  /\ UNCHANGED <<current_message_size_, client, wire, read_buffer_, message, output,
                 authenticated_, processed>>

(* async_read appends the body to read_buffer_; handle_read_body takes the *)
(* message from its front and consumes it.                                 *)
ConsumeNothing(buffer, n) == buffer               \* mutant: read_buffer_.consume is missing
Consume(buffer, n) == SubSeq(buffer, n + 1, Len(buffer))

BodyArrives(s) ==
  /\ reader[s] = "body"
  /\ open[s]
  /\ Len(wire[s]) >= need[s]
  /\ LET buffer == read_buffer_[s] \o SubSeq(wire[s], 1, need[s])
     IN  /\ message' = [message EXCEPT ![s] = SubSeq(buffer, 1, need[s])]
         /\ read_buffer_' = [read_buffer_ EXCEPT ![s] = Consume(buffer, need[s])]
  /\ wire' = [wire EXCEPT ![s] = SubSeq(@, need[s] + 1, Len(@))]
  /\ reader' = [reader EXCEPT ![s] = "message"]
  /\ UNCHANGED <<current_message_size_, client, need, output, open, authenticated_, processed>>

(* A read that cannot complete: the socket was closed on this side, or the *)
(* client hung up before it sent enough.                                   *)
ReadFails(s) ==
  /\ \/ reader[s] = "header" /\ wire[s] = <<>>
     \/ reader[s] = "body" /\ Len(wire[s]) < need[s]
     \/ reader[s] \in {"header", "body"} /\ ~open[s]
  /\ hungUp[s] \/ ~open[s]
  /\ stop(s)
  /\ reader' = [reader EXCEPT ![s] = "ended"]
  /\ UNCHANGED <<current_message_size_, client, wire, need, read_buffer_, message, output,
                 authenticated_, processed>>

-----------------------------------------------------------------------------
(* Replies.                                                                *)

(* async_write is given the message, which stays in the queue, and the     *)
(* address of the local variable `length'.  What the socket takes at once  *)
(* has the right length; what it takes after write() returned has whatever *)
(* the stack then holds.                                                   *)
write(s, ops, queue) ==
  /\ is_writing_' = [is_writing_ EXCEPT ![s] = TRUE]
  /\ \/ /\ open[s]
        /\ writes' = [writes EXCEPT ![s] = Append(ops, [reply |-> Head(queue), state |-> "written"])]
        /\ received' = [received EXCEPT ![s] = Append(@, [reply |-> Head(queue), framed |-> TRUE])]
     \/ /\ writes' = [writes EXCEPT ![s] = Append(ops, [reply |-> Head(queue), state |-> "pending"])]
        /\ UNCHANGED received

sendUnchecked(s, reply) ==                        \* mutant: is_writing_ is not looked at
  LET queue == Append(write_queue_[s], reply)
  IN  write_queue_' = [write_queue_ EXCEPT ![s] = queue] /\ write(s, writes[s], queue)
send(s, reply) ==
  LET queue == Append(write_queue_[s], reply)
  IN  /\ write_queue_' = [write_queue_ EXCEPT ![s] = queue]
      /\ IF is_writing_[s] THEN UNCHANGED <<is_writing_, writes, received>>
                           ELSE write(s, writes[s], queue)

(* A pending write reaches the client, or fails on a dead connection.      *)
WriteCompletes(s, n) ==
  /\ writes[s][n].state = "pending"
  /\ \/ /\ open[s]
        /\ writes' = [writes EXCEPT ![s][n].state = "written"]
        /\ \E framed \in BOOLEAN :
             received' = [received EXCEPT ![s] = Append(@, [reply |-> writes[s][n].reply, framed |-> framed])]
     \/ /\ ~open[s] \/ hungUp[s]
        /\ writes' = [writes EXCEPT ![s][n].state = "failed"]
        /\ UNCHANGED received
  /\ UNCHANGED <<current_message_size_, client, input, write_queue_, is_writing_, open,
                 authenticated_, processed>>

Rest(s, ops) ==
  /\ is_writing_' = [is_writing_ EXCEPT ![s] = FALSE]
  /\ writes' = [writes EXCEPT ![s] = ops]
  /\ UNCHANGED received
writeNoMore(s, ops, queue) == Rest(s, ops)        \* mutant: the queue is not looked at again
writeMore(s, ops, queue) == IF queue = <<>> THEN Rest(s, ops) ELSE write(s, ops, queue)

handle_write(s, n) ==
  /\ writes[s][n].state # "pending"
  /\ write_queue_' = [write_queue_ EXCEPT ![s] = Tail(@)]
  /\ LET ops   == SubSeq(writes[s], 1, n - 1) \o SubSeq(writes[s], n + 1, Len(writes[s]))
         queue == Tail(write_queue_[s])
     IN  IF writes[s][n].state = "written" THEN writeMore(s, ops, queue) /\ UNCHANGED open
                                           ELSE Rest(s, ops) /\ stop(s)
  /\ UNCHANGED <<current_message_size_, client, input, authenticated_, processed>>

-----------------------------------------------------------------------------
(* process_message: every path sends exactly one reply, also after an      *)
(* exception.  What is not one whole message does not parse.               *)

IsMessage(s, n) == n \in DOMAIN script[s] /\ message[s] = Body(n, script[s][n].size)
KindOf(s) ==
  IF \E n \in DOMAIN script[s] : IsMessage(s, n) /\ script[s][n].size > 0
  THEN script[s][CHOOSE n \in DOMAIN script[s] : IsMessage(s, n)].kind
  ELSE "invalid"

(* Whether the auction house is called.  A call may succeed or not.        *)
ReachesUnchecked(s) == KindOf(s) \in {"search", "trade"}   \* mutant: authenticated_ is not checked
Reaches(s) == KindOf(s) = "search" \/ (KindOf(s) = "trade" /\ authenticated_[s])

Answers(s) ==
  CASE KindOf(s) = "login" -> {"success"}
    [] Reaches(s)          -> {"success", "error"}
    [] OTHER               -> {"error"}

process_message(s) ==
  /\ reader[s] = "message"
  /\ authenticated_' = [authenticated_ EXCEPT ![s] = @ \/ KindOf(s) = "login"]
  /\ processed' = [processed EXCEPT ![s] =
       Append(@, [message |-> message[s], kind |-> KindOf(s), reached |-> Reaches(s)])]
  /\ \E a \in Answers(s) : send(s, [to |-> Len(processed'[s]), answer |-> a])
  /\ reader' = [reader EXCEPT ![s] = "header"]
  /\ UNCHANGED <<current_message_size_, client, wire, need, read_buffer_, message, open>>

-----------------------------------------------------------------------------
Read(s) ==
  \/ HeaderArrives(s)
  \/ handle_read_header(s)
  \/ BodyArrives(s)
  \/ ReadFails(s)
  \/ process_message(s)

Write(s) == \E n \in DOMAIN writes[s] : WriteCompletes(s, n) \/ handle_write(s, n)

Next == \E s \in Sessions : SendUnit(s) \/ HangUp(s) \/ Read(s) \/ Write(s)

Spec == Init /\ [][Next]_vars

-----------------------------------------------------------------------------
TypeOK ==
  /\ current_message_size_ \in 0 .. MAX_MESSAGE_SIZE + 1
  /\ script \in [Sessions -> Scripts]
  /\ reader \in [Sessions -> {"header", "length", "body", "message", "ended"}]
  /\ need \in [Sessions -> 0 .. MAX_MESSAGE_SIZE]
  /\ \A s \in Sessions : /\ Len(message[s]) <= MAX_MESSAGE_SIZE
                         /\ read_buffer_[s] = <<>>
  /\ open \in [Sessions -> BOOLEAN] /\ hungUp \in [Sessions -> BOOLEAN]
  /\ authenticated_ \in [Sessions -> BOOLEAN]
  /\ is_writing_ \in [Sessions -> BOOLEAN]

(* The hand-over between send and handle_write: at most one async_write is *)
(* outstanding, for the front of the queue, exactly while is_writing_; a   *)
(* reply waits without a write only on a closed session.                   *)
OneWriteAtATime ==
  \A s \in Sessions :
    /\ Len(writes[s]) <= 1
    /\ is_writing_[s] <=> writes[s] # <<>>
    /\ is_writing_[s] => write_queue_[s] # <<>> /\ writes[s][1].reply = Head(write_queue_[s])
    /\ write_queue_[s] # <<>> => is_writing_[s] \/ ~open[s]

(* The client gets one reply per message that was processed, in the order  *)
(* of the messages, though it does not wait before it sends the next.      *)
RepliesInOrder ==
  \A s \in Sessions : \A n \in DOMAIN received[s] :
    received[s][n].reply.to = n /\ n \in DOMAIN processed[s]

(* What is processed are the messages of the client, whole and in order.   *)
MessagesWhole ==
  \A s \in Sessions : \A n \in DOMAIN processed[s] :
    /\ n \in DOMAIN script[s]
    /\ processed[s][n].message = Body(n, script[s][n].size)

(* Nothing is traded on a session before the client logged in on it.       *)
TradesFollowLogin ==
  \A s \in Sessions : \A n \in DOMAIN processed[s] :
    processed[s][n].kind = "trade" /\ processed[s][n].reached =>
      \E m \in 1 .. n - 1 : processed[s][m].kind = "login"

(* A message that arrived whole is answered, unless its session ends.      *)
EveryMessageAnswered ==
  \A s \in Sessions : \A n \in UNION {DOMAIN sc : sc \in Scripts} :
    (sent[s].msg > n) ~> (Len(received[s]) >= n \/ ~open[s] \/ hungUp[s])

(* When the client hangs up or the server closes the socket, both chains   *)
(* end, so that nothing keeps the session object alive.                    *)
SessionReleased ==
  \A s \in Sessions :
    (hungUp[s] \/ ~open[s]) ~> (~open[s] /\ reader[s] = "ended" /\ writes[s] = <<>>)

(* What the comment of write() says: header and message go out together,   *)
(* so that the length in front of a reply is the reply's.                  *)
RepliesFramed == \A s \in Sessions : \A n \in DOMAIN received[s] : received[s][n].framed
=============================================================================
