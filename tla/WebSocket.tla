------------------------------ MODULE WebSocket ------------------------------
(***************************************************************************)
(* One websocket of the server: crow::websocket::Connection, from the      *)
(* handshake to `delete this`, between                                     *)
(*                                                                         *)
(*   the client          frames as bytes on a TCP stream; it may vanish    *)
(*   crow's io thread    completion handlers and posted sends, one by one  *)
(*   response threads    post messages while jsonserver has the connection *)
(*                       among its users                                   *)
(*                                                                         *)
(* The object is the record `c`, its member functions are operators from   *)
(* records to records, and readOp / writeOp say which asynchronous         *)
(* operations that captured its `this` are outstanding.  The server sets   *)
(* no accept and no error handler and no maximum payload, and nothing ever *)
(* enters Crow::websockets_, so close() is called by handle_fragment only. *)
(* `heard` (what jsonserver was called with), `queued`, `past`, `tears`    *)
(* and `sent` are history.                                                 *)
(***************************************************************************)
EXTENDS Integers, Sequences, SequencesExt

CONSTANTS Scripts,       \* sequences of frames a client may send
          Replies,       \* sequences of the lengths of messages posted to it
          Bad,           \* messages at which the message handler throws
          BufferSize,    \* of buffer_: 4096
          MaxTears,      \* bound: how many reads of two bytes may bring one
          XorOf(_, _),     \* of two bytes
          None

Byte == 0 .. 255

(* WebSocketReadState: what is read next.                                  *)
Reading == {"MiniHeader", "Len16", "Len64", "Mask", "Payload"}

(* A frame of a client: its key is <<>> or four bytes, code the length     *)
(* encoding it chose (0 for the length itself).  A frame brings 255 bytes  *)
(* at most, longer messages come as fragments.                             *)
Frame == {f \in [fin : BOOLEAN, op : 0 .. 15, key : {<<>>} \cup [1 .. 4 -> Byte],
                 code : {0, 126, 127}, data : Seq(Byte)] :
            Len(f.data) <= IF f.code = 0 THEN 125 ELSE 255}

ASSUME ScriptsType == Scripts \subseteq Seq(Frame)
ASSUME BoundsType  == /\ BufferSize \in Nat \ {0} /\ MaxTears \in Nat
                      /\ Replies \subseteq Seq(Nat)
ASSUME XorType     == \A a, b \in Byte : XorOf(a, b) \in Byte
ASSUME XorUndone   == \A a, b \in Byte : XorOf(XorOf(a, b), b) = a
ASSUME NoneType    == None \notin Reading

VARIABLES c,        \* the connection object
          posted,   \* asio's queue: sends posted to the io thread
          taken,    \* how many of c.sending the network has taken
          inbound,  \* bytes of the client not yet read
          script,   \* what the client still wants to send
          gone,     \* has the client's end gone away?
          replies,  \* what the response threads still have to post
          past,     \* the frames the client has sent (history)
          tears,    \* reads that brought one byte of a frame's first two (history)
          sent      \* the buffers the network took (history)

vars == <<c, posted, taken, inbound, script, gone, replies, past, tears, sent>>

-----------------------------------------------------------------------------
(***************************************************************************)
(* Faults: forms that definitions below must not have.                     *)
(***************************************************************************)
MayDeleteReading(x)  == x.sending = <<>>          \* forgets is_reading
EndFragmentNever(x)  == x                         \* fragment_ not cleared
UnmaskedFromStart(x) == [i \in DOMAIN x.fragment |->
                           IF x.hasMask THEN XorOf(x.fragment[i], x.mask[1])
                           ELSE x.fragment[i]]
CloseHeardOnce(x)    == IF x.heard # <<>> /\ \E i \in DOMAIN x.heard : x.heard[i].on = "close"
                        THEN x ELSE [x EXCEPT !.heard = Append(@, [on |-> "close"])]
StartWriteAnyway(x)  == [x EXCEPT !.sending = x.writing, !.writing = <<>>,
                                  !.writeOp = TRUE]
LengthBytesCast(n)   == IF n < 126 THEN <<n>>     \* 65536 does not fit in 16 bits
                        ELSE IF n <= 65536 THEN <<126, (n \div 256) % 256, n % 256>>
                        ELSE <<127, 0, 0, 0, 0, 0, n \div 65536, (n \div 256) % 256, n % 256>>

-----------------------------------------------------------------------------
(* The bytes of a client's frame (RFC 6455, as drawn above the class).     *)
LengthOf(f) == Len(f.data) + (IF f.key = <<>> THEN 0 ELSE 128)
Masked(f)   == IF f.key = <<>> THEN f.data
               ELSE [i \in DOMAIN f.data |-> XorOf(f.data[i], f.key[((i - 1) % 4) + 1])]
Encoded(f) ==
  <<(IF f.fin THEN 128 ELSE 0) + f.op,
    IF f.code = 0 THEN LengthOf(f) ELSE f.code + LengthOf(f) - Len(f.data)>>
  \o (CASE f.code = 0   -> <<>>
        [] f.code = 126 -> <<0, Len(f.data)>>
        [] f.code = 127 -> <<0, 0, 0, 0, 0, 0, 0, Len(f.data)>>)
  \o f.key \o Masked(f)

(* build_header: the server's frames are final and have no mask.  The      *)
(* eight bytes of a long length are cut off one by one; the last one takes *)
(* what is left, which is a byte as long as n is a size_t.                 *)
LongBytes(n) ==
  LET b1 == n \div 256   b2 == b1 \div 256  b3 == b2 \div 256  b4 == b3 \div 256
      b5 == b4 \div 256  b6 == b5 \div 256  b7 == b6 \div 256
  IN  <<b7, b6 % 256, b5 % 256, b4 % 256, b3 % 256, b2 % 256, b1 % 256, n % 256>>
LengthBytes(n) ==
  IF n < 126 THEN <<n>>
  ELSE IF n < 65536 THEN <<126, n \div 256, n % 256>>
  ELSE <<127>> \o LongBytes(n)
build_header(op, size) == <<128 + op>> \o LengthBytes(size)

(* A buffer pair of write_buffers_: a header and its payload.              *)
Buffers(op, size) == [header |-> build_header(op, size), op |-> op, size |-> size]
Handshake         == [header |-> <<>>, op |-> 16, size |-> 0]

-----------------------------------------------------------------------------
(***************************************************************************)
(* The member functions.                                                   *)
(***************************************************************************)
New == [alive |-> TRUE, open |-> TRUE, state |-> "MiniHeader",
        header |-> <<0, 0>>, remaining |-> 0, hasMask |-> FALSE,
        mask |-> <<0, 0, 0, 0>>, fragment |-> <<>>, message |-> <<>>,
        isBinary |-> FALSE, isReading |-> FALSE, readOp |-> None,
        writeOp |-> FALSE, sending |-> <<>>, writing |-> <<>>,
        closeConnection |-> FALSE, sentClose |-> FALSE, recvClose |-> FALSE,
        closeCalled |-> FALSE, threw |-> FALSE, heard |-> <<>>, queued |-> <<>>]

Hear(x, call) == [x EXCEPT !.heard = Append(@, call)]

do_write(x) ==
  IF x.sending # <<>> THEN x
  ELSE [x EXCEPT !.sending = x.writing, !.writing = <<>>, !.writeOp = TRUE]

(* Two entries of write_buffers_, then do_write().                         *)
Enqueue(x, b) == do_write([x EXCEPT !.writing = Append(@, b),
                                    !.queued = Append(@, b)])

MayDelete(x) == x.sending = <<>> /\ ~x.isReading

CloseHeard(x) == Hear(x, [on |-> "close"])

check_destroy(x) ==
  LET y == IF x.closeCalled THEN x ELSE CloseHeard(x)
  IN  IF MayDelete(y) THEN [y EXCEPT !.alive = FALSE] ELSE y

(* The socket is shut down and closed, and no write is to go on.           *)
Shut(x) == [x EXCEPT !.open = FALSE, !.closeConnection = TRUE]

(* Starts the read that state_ calls for.  A frame without a mask has its  *)
(* payload read next.                                                      *)
do_read(x) ==
  IF x.sentClose /\ x.recvClose THEN check_destroy(Shut(x))
  ELSE LET state == IF x.state = "Mask" /\ ~x.hasMask THEN "Payload" ELSE x.state
       IN  [x EXCEPT !.isReading = TRUE, !.state = state, !.readOp = state]

(* close(), dispatched on the io thread itself: it runs at once.           *)
close(x, size) ==
  LET y == [x EXCEPT !.sentClose = TRUE]
      z == IF y.recvClose /\ ~y.closeCalled
           THEN CloseHeard([y EXCEPT !.closeCalled = TRUE]) ELSE y
  IN  Enqueue(z, Buffers(8, size))

is_FIN(x) == x.header[1] >= 128
opcode(x) == x.header[1] % 16

Unmasked(x) ==
  [i \in DOMAIN x.fragment |->
     IF x.hasMask THEN XorOf(x.fragment[i], x.mask[((i - 1) % 4) + 1])
     ELSE x.fragment[i]]

EndFragment(x) == [x EXCEPT !.fragment = <<>>]
EndMessage(x)  == [x EXCEPT !.message = <<>>]

(* A data frame.  An exception of the message handler leaves everything    *)
(* below: nothing is cleared and no read is started.                       *)
DataFragment(x) ==
  LET y == [x EXCEPT !.isBinary = IF opcode(x) = 0 THEN @ ELSE opcode(x) = 2,
                     !.message = @ \o x.fragment]
  IN  IF ~is_FIN(x) THEN y
      ELSE IF y.message \in Bad THEN [y EXCEPT !.threw = TRUE]
      ELSE EndMessage(Hear(y, [on |-> "message", data |-> y.message,
                               binary |-> y.isBinary]))

(* A close frame: echoed; on a second one everything ends here.            *)
CloseFragment(x) ==
  LET y == [x EXCEPT !.recvClose = TRUE]
  IN  IF ~x.sentClose THEN close(y, Len(x.fragment))
      ELSE check_destroy(LET z == Shut(y) IN
             IF z.closeCalled THEN z
             ELSE [CloseHeard(z) EXCEPT !.closeCalled = TRUE])

(* handle_fragment, and the read that follows it.                          *)
handle_fragment(x) ==
  LET y == [x EXCEPT !.fragment = Unmasked(x)]
      z == CASE opcode(y) \in {0, 1, 2} -> DataFragment(y)
             [] opcode(y) = 8           -> CloseFragment(y)
             [] OTHER                   -> y
  IN  IF z.threw \/ (x.sentClose /\ opcode(y) = 8) THEN z
      ELSE do_read([EndFragment(z) EXCEPT !.state = "MiniHeader"])

(* What a ping makes the io thread do later.                               *)
Pongs(x) == IF opcode(x) = 9 THEN <<Buffers(10, Len(x.fragment))>> ELSE <<>>

-----------------------------------------------------------------------------
(***************************************************************************)
(* The completions of reads.                                               *)
(***************************************************************************)
HeaderRead(x, bytes) ==
  LET h == IF Len(bytes) = 2 THEN bytes ELSE <<bytes[1], 0>>
      n == h[2] % 128
      y == [x EXCEPT !.isReading = FALSE, !.readOp = None, !.header = h,
                     !.hasMask = h[2] >= 128]
  IN  do_read(CASE n = 127 -> [y EXCEPT !.state = "Len64"]
                [] n = 126 -> [y EXCEPT !.state = "Len16"]
                [] OTHER   -> [y EXCEPT !.state = "Mask", !.remaining = n])

(* ntohs, or two times ntohl: the most significant byte comes first.       *)
Short(b) == b[1] * 256 + b[2]
Long(b)  == ((((((b[1] * 256 + b[2]) * 256 + b[3]) * 256 + b[4]) * 256 + b[5])
              * 256 + b[6]) * 256 + b[7]) * 256 + b[8]

LengthRead(x, bytes) ==
  do_read([x EXCEPT !.isReading = FALSE, !.readOp = None, !.state = "Mask",
                    !.remaining = IF x.readOp = "Len16" THEN Short(bytes)
                                  ELSE Long(bytes)])

MaskRead(x, bytes) ==
  do_read([x EXCEPT !.isReading = FALSE, !.readOp = None, !.mask = bytes,
                    !.state = "Payload"])

PayloadRead(x, bytes) ==
  LET y == [x EXCEPT !.isReading = FALSE, !.readOp = None,
                     !.fragment = @ \o bytes, !.remaining = @ - Len(bytes)]
  IN  IF y.remaining = 0 THEN handle_fragment(y) ELSE do_read(y)

(* Fault: is_reading is left set.                                          *)
ReadFailedReading(x) == check_destroy(Shut([x EXCEPT !.readOp = None]))

ReadFailed(x) ==
  check_destroy(Shut([x EXCEPT !.isReading = FALSE, !.readOp = None]))

(* How many bytes the outstanding read may complete with.                  *)
Amounts ==
  CASE c.readOp = "MiniHeader" -> IF tears < MaxTears THEN {1, 2} ELSE {2}
    [] c.readOp = "Len16"      -> {2}
    [] c.readOp = "Len64"      -> {8}
    [] c.readOp = "Mask"       -> {4}
    [] c.readOp = "Payload"    -> IF c.remaining = 0 THEN {0}
                                  ELSE {n \in 1 .. BufferSize : n <= c.remaining}
    [] OTHER                   -> {}

Completed(x, bytes) ==
  CASE x.readOp = "MiniHeader"        -> HeaderRead(x, bytes)
    [] x.readOp \in {"Len16", "Len64"} -> LengthRead(x, bytes)
    [] x.readOp = "Mask"              -> MaskRead(x, bytes)
    [] x.readOp = "Payload"           -> PayloadRead(x, bytes)

(* The pong that a completed ping posts.                                   *)
PostedBy(x, bytes) ==
  IF x.readOp = "Payload" /\ x.remaining = Len(bytes)
  THEN Pongs([x EXCEPT !.fragment = @ \o bytes]) ELSE <<>>

(* Fault: sending_buffers_ is not cleared.                                 *)
WrittenKept(x, ok) ==
  LET y == [x EXCEPT !.writeOp = FALSE]
  IN  IF ok /\ ~x.closeConnection THEN y ELSE check_destroy([y EXCEPT !.closeConnection = TRUE])

(* The completion of a write.                                              *)
Written(x, ok) ==
  LET y == [x EXCEPT !.sending = <<>>, !.writeOp = FALSE]
  IN  IF ok /\ ~x.closeConnection
      THEN [(IF y.writing = <<>> THEN y ELSE do_write(y)) EXCEPT !.closeConnection = x.sentClose]
      ELSE check_destroy([y EXCEPT !.closeConnection = TRUE])

-----------------------------------------------------------------------------
(* The constructor and start(): handshake, open handler, first read.       *)
Init ==
  /\ c = do_read(Hear(do_write([New EXCEPT !.writing = <<Handshake>>,
                                           !.queued = <<Handshake>>]),
                      [on |-> "open"]))
  /\ posted = <<>>
  /\ taken = 0
  /\ inbound = <<>>
  /\ script \in Scripts
  /\ gone = FALSE
  /\ replies \in Replies
  /\ past = <<>>
  /\ tears = 0
  /\ sent = <<>>

(* A client sends once it has the answer to its handshake.                 *)
ClientSends ==
  /\ ~gone /\ script # <<>>
  /\ sent # <<>>
  /\ inbound' = inbound \o Encoded(Head(script))
  /\ past' = Append(past, Head(script))
  /\ script' = Tail(script)
  /\ UNCHANGED <<c, posted, taken, gone, replies, tears, sent>>

ClientVanishes ==
  /\ ~gone
  /\ gone' = TRUE
  /\ UNCHANGED <<c, posted, taken, inbound, script, replies, past, tears, sent>>

(* A read completes; after a reset it may still complete with data.        *)
ReadDone ==
  /\ c.readOp # None
  /\ \E n \in Amounts :
       /\ n <= Len(inbound)
       /\ c' = Completed(c, SubSeq(inbound, 1, n))
       /\ posted' = posted \o PostedBy(c, SubSeq(inbound, 1, n))
       /\ inbound' = SubSeq(inbound, n + 1, Len(inbound))
       /\ tears' = IF c.readOp = "MiniHeader" /\ n = 1 THEN tears + 1 ELSE tears
  /\ UNCHANGED <<taken, script, gone, replies, past, sent>>

ReadError ==
  /\ c.readOp # None
  /\ gone
  /\ c' = ReadFailed(c)
  /\ UNCHANGED <<posted, taken, inbound, script, gone, replies, past, tears, sent>>

(* The network takes the next buffers of the write, while there is one.    *)
Transmit ==
  /\ c.writeOp /\ c.open /\ ~gone
  /\ taken < Len(c.sending)
  /\ taken' = taken + 1
  /\ sent' = Append(sent, c.sending[taken + 1])
  /\ UNCHANGED <<c, posted, inbound, script, gone, replies, past, tears>>

WriteDone ==
  /\ c.writeOp
  /\ taken = Len(c.sending)
  /\ c' = Written(c, TRUE)
  /\ taken' = 0
  /\ UNCHANGED <<posted, inbound, script, gone, replies, past, tears, sent>>

WriteError ==
  /\ c.writeOp
  /\ gone \/ ~c.open
  /\ c' = Written(c, FALSE)
  /\ taken' = 0
  /\ UNCHANGED <<posted, inbound, script, gone, replies, past, tears, sent>>

(* jsonserver has the connection among its users.                          *)
IsUser == /\ c.heard # <<>>
          /\ \A i \in DOMAIN c.heard : c.heard[i].on # "close"

(* send_text() of a response thread, under mtx_connections.                *)
Post ==
  /\ IsUser
  /\ replies # <<>>
  /\ posted' = Append(posted, Buffers(1, Head(replies)))
  /\ replies' = Tail(replies)
  /\ UNCHANGED <<c, taken, inbound, script, gone, past, tears, sent>>

(* The io thread runs the next posted send; WeakWrappedMessage drops it    *)
(* when the object is gone.                                                *)
RunPosted ==
  /\ posted # <<>>
  /\ c' = IF c.alive THEN Enqueue(c, Head(posted)) ELSE c
  /\ posted' = Tail(posted)
  /\ UNCHANGED <<taken, inbound, script, gone, replies, past, tears, sent>>

IoThread == ReadDone \/ ReadError \/ WriteDone \/ WriteError \/ RunPosted

Next == ClientSends \/ ClientVanishes \/ Post \/ Transmit \/ IoThread

Spec == Init /\ [][Next]_vars

(***************************************************************************)
(* Fairness: the io thread gets round to every completion it has, whatever *)
(* else it is busy with, and the network takes what is written.  A client  *)
(* owes nothing.                                                           *)
(***************************************************************************)
Fairness == /\ WF_vars(ReadDone) /\ WF_vars(ReadError)
            /\ WF_vars(WriteDone) /\ WF_vars(WriteError)
            /\ WF_vars(RunPosted) /\ WF_vars(Transmit)

FairSpec == Spec /\ Fairness

-----------------------------------------------------------------------------
Data    == Seq(Byte)
Buffer  == [header : Seq(Nat), op : 0 .. 16, size : Nat]
Call    == [on : {"open", "close"}]
             \cup [on : {"message"}, data : Data, binary : BOOLEAN]

Object == [alive : BOOLEAN, open : BOOLEAN, state : Reading,
           header : [1 .. 2 -> Byte], remaining : Nat, hasMask : BOOLEAN,
           mask : [1 .. 4 -> Byte], fragment : Data, message : Data,
           isBinary : BOOLEAN, isReading : BOOLEAN,
           readOp : Reading \cup {None}, writeOp : BOOLEAN,
           sending : Seq(Buffer), writing : Seq(Buffer),
           closeConnection : BOOLEAN, sentClose : BOOLEAN,
           recvClose : BOOLEAN, closeCalled : BOOLEAN, threw : BOOLEAN,
           heard : Seq(Call), queued : Seq(Buffer)]

(* The types; a write is outstanding while there are buffers to send.      *)
TypeOK == /\ c \in Object
          /\ c.writeOp <=> c.sending # <<>>
          /\ posted \in Seq(Buffer) /\ sent \in Seq(Buffer)
          /\ taken \in 0 .. Len(c.sending)
          /\ inbound \in Seq(Byte)
          /\ script \in Seq(Frame) /\ past \in Seq(Frame)
          /\ gone \in BOOLEAN /\ tears \in Nat
          /\ replies \in Seq(Nat)

-----------------------------------------------------------------------------
(* check_destroy() deletes the object under its own feet: whatever reads,  *)
(* writes, errors and posted sends still race, no operation that captured  *)
(* `this` is outstanding then.                                             *)
NoUseAfterDelete == ~c.alive => c.readOp = None /\ ~c.writeOp

(* What one more frame adds: a control frame nothing, a data frame its     *)
(* part of a message, and a final one the message itself.                  *)
Silence == [data |-> <<>>, binary |-> FALSE, messages |-> <<>>]

Saying(acc, f) ==
  IF f.op > 2 THEN acc
  ELSE LET data   == acc.data \o f.data
           binary == IF f.op = 0 THEN acc.binary ELSE f.op = 2
       IN  [data     |-> IF f.fin THEN <<>> ELSE data,
            binary   |-> binary,
            messages |-> IF f.fin
                         THEN Append(acc.messages, [on |-> "message", data |-> data,
                                                    binary |-> binary])
                         ELSE acc.messages]

(* What the frames sent so far say: the messages, put together from their  *)
(* fragments, whatever control frames come in between.                     *)
Account(frames) ==
  LET account[n \in 0 .. Len(frames)] ==
        IF n = 0 THEN Silence ELSE Saying(account[n - 1], frames[n])
  IN  account

Said(frames) == Account(frames)[Len(frames)].messages

(* The messages among the calls of the handlers.                           *)
MessagesOf(calls) ==
  LET given[n \in 0 .. Len(calls)] ==
        IF n = 0 THEN <<>>
        ELSE IF calls[n].on = "message" THEN Append(given[n - 1], calls[n])
        ELSE given[n - 1]
  IN  given[Len(calls)]

Given == MessagesOf(c.heard)

(* The message handler is called with the messages the client sent, in     *)
(* order, whole and unmasked, until a read brings one of the two bytes it  *)
(* asks for, of which async_read_some need not bring more ("asio bug?",    *)
(* crow_all.h:7890, 7905): the frames after that are not found.            *)
DeliveredIsSent == tears > 0 \/ IsPrefix(Given, Said(past))

(* What reaches the client is what was queued, in the order it was queued, *)
(* through the two buffers that are swapped while writes are in flight.    *)
RepliesInOrder == IsPrefix(sent, c.queued)

(* A client that reads a header as RFC 6455 has it finds the size of the   *)
(* payload that follows, at the borders between the encodings too.         *)
SizeIn(h) ==
  CASE h[2] = 126 -> Short(SubSeq(h, 3, 4))
    [] h[2] = 127 -> Long(SubSeq(h, 3, 10))
    [] OTHER      -> h[2]

SizesReadable == \A i \in DOMAIN sent :
                   sent[i] # Handshake => SizeIn(sent[i].header) = sent[i].size

(* What jsonserver may take for granted of a connection.                   *)
Life == INSTANCE ConnectionLife WITH
  life  <- IF ~c.alive THEN "freed"
           ELSE IF Last(c.heard).on = "close" THEN "closed" ELSE "live",
  calls <- Len(c.heard)

LifeSpec == Life!Spec

(* A client that stays and whose messages the server can read has them all *)
(* handled in the end, if no read of a frame's first two bytes brings one. *)
AllDelivered == script = <<>> ~> Given = Said(past) \/ gone \/ c.threw \/ tears > 0

(* The object of a client that has closed or gone away is freed in the     *)
(* end, unless the message handler threw, after which nothing is read.     *)
Freed == gone \/ c.recvClose ~> ~c.alive \/ c.threw
=============================================================================
