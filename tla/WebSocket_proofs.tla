--------------------------- MODULE WebSocket_proofs ---------------------------
(***************************************************************************)
(* Proofs about WebSocket: a connection that deletes itself leaves no      *)
(* operation behind that captured its `this`; its types; what reaches the  *)
(* client; what jsonserver is told of the connection; and which messages   *)
(* it is given.                                                            *)
(*                                                                         *)
(* For the deletion: is_reading is set whenever a read is outstanding, and *)
(* sending_buffers_ is not empty whenever a write is, since do_write() is  *)
(* called with something to write only (Held).  check_destroy() deletes    *)
(* only when both are clear, and a deleted object is not touched again.    *)
(*                                                                         *)
(* For the messages: as long as a read is outstanding, the object holds of *)
(* the frame it is reading what has been read, and the bytes still to come *)
(* begin with the rest of it (Follows).                                    *)
(***************************************************************************)
EXTENDS WebSocket, Iteration_proofs, SequenceTheorems, TLAPS

Fields == {"alive", "open", "state", "header", "remaining", "hasMask", "mask",
           "fragment", "message", "isBinary", "isReading", "readOp", "writeOp",
           "sending", "writing", "closeConnection", "sentClose", "recvClose",
           "closeCalled", "threw", "heard", "queued"}

IsSequence(s) == \E S : s \in Seq(S)

(* The flags tell of the outstanding operations.                           *)
Held(x) == /\ Fields \subseteq DOMAIN x
           /\ IsSequence(x.writing)
           /\ x.readOp # None => x.isReading
           /\ x.writeOp => x.sending # <<>>

Unhurt(x) == Held(x) /\ (~x.alive => x.readOp = None /\ ~x.writeOp)

IInv == Unhurt(c)

-----------------------------------------------------------------------------
(* A sequence with one element more.                                       *)
LEMMA Appended ==
  ASSUME NEW s, NEW e, IsSequence(s)
  PROVE  IsSequence(Append(s, e)) /\ Append(s, e) # <<>>
<1>1. PICK S : s \in Seq(S)
  BY DEF IsSequence
<1> DEFINE T == S \cup {e}
<1>2. s \in Seq(T) /\ e \in T
  BY <1>1
<1> HIDE DEF T
<1>3. Append(s, e) \in Seq(T) /\ Len(Append(s, e)) = Len(s) + 1 /\ Len(s) \in Nat
  BY <1>2
<1>4. Append(s, e) # <<>>
  BY <1>3
<1> QED
  BY <1>3, <1>4 DEF IsSequence

(* The empty sequence is one.                                              *)
LEMMA EmptyIsSequence == IsSequence(<<>>)
<1>1. <<>> \in Seq({})
  OBVIOUS
<1> QED
  BY <1>1 DEF IsSequence

(* A write that is started has something to send.                          *)
LEMMA DoWrite ==
  ASSUME NEW x, Held(x), x.alive, x.writing # <<>>
  PROVE  Held(do_write(x)) /\ do_write(x).alive
  BY EmptyIsSequence DEF Held, Fields, do_write

(* The flags tell of the outstanding operations after each member          *)
(* function: queueing,                                                     *)
LEMMA EnqueueHolds ==
  ASSUME NEW x, NEW b, Held(x), x.alive
  PROVE  Held(Enqueue(x, b)) /\ Enqueue(x, b).alive
<1> DEFINE y == [x EXCEPT !.writing = Append(@, b), !.queued = Append(@, b)]
<1>1. Held(y) /\ y.alive
  BY Appended DEF Held, Fields
<1>2. y.writing # <<>>
  BY Appended DEF Held, Fields
<1>3. Enqueue(x, b) = do_write(y)
  BY DEF Enqueue
<1> HIDE DEF y
<1> QED
  BY <1>1, <1>2, <1>3, DoWrite

(* check_destroy(),                                                        *)
LEMMA CheckDestroy ==
  ASSUME NEW x, Held(x), x.alive
  PROVE  Unhurt(check_destroy(x))
<1> DEFINE y == IF x.closeCalled THEN x ELSE CloseHeard(x)
<1>1. Held(y) /\ y.alive
  BY DEF Held, Fields, CloseHeard, Hear
<1>2. check_destroy(x) = IF MayDelete(y) THEN [y EXCEPT !.alive = FALSE] ELSE y
  BY DEF check_destroy
<1> HIDE DEF y
<1>3. CASE MayDelete(y)
  BY <1>1, <1>2, <1>3 DEF Unhurt, Held, Fields, MayDelete
<1>4. CASE ~MayDelete(y)
  BY <1>1, <1>2, <1>4 DEF Unhurt
<1> QED
  BY <1>3, <1>4

(* do_read(),                                                              *)
LEMMA DoRead ==
  ASSUME NEW x, Held(x), x.alive
  PROVE  Unhurt(do_read(x))
<1>1. CASE x.sentClose /\ x.recvClose
  <2>1. Held(Shut(x)) /\ Shut(x).alive
    BY DEF Held, Fields, Shut
  <2> QED
    BY <1>1, <2>1, CheckDestroy DEF do_read
<1>2. CASE ~(x.sentClose /\ x.recvClose)
  BY <1>2 DEF do_read, Unhurt, Held, Fields
<1> QED
  BY <1>1, <1>2

(* close(),                                                                *)
LEMMA Close ==
  ASSUME NEW x, NEW size, Held(x), x.alive
  PROVE  Held(close(x, size)) /\ close(x, size).alive
<1> DEFINE y == [x EXCEPT !.sentClose = TRUE]
           z == IF y.recvClose /\ ~y.closeCalled
                THEN CloseHeard([y EXCEPT !.closeCalled = TRUE]) ELSE y
<1>1. Held(y) /\ y.alive
  BY DEF Held, Fields
<1> HIDE DEF y
<1>2. Held(z) /\ z.alive
  BY <1>1 DEF Held, Fields, CloseHeard, Hear
<1>3. close(x, size) = Enqueue(z, Buffers(8, size))
  BY DEF close, y
<1> HIDE DEF z
<1> QED
  BY <1>2, <1>3, EnqueueHolds

(* a data frame,                                                           *)
LEMMA DataFragmentHolds ==
  ASSUME NEW x, Held(x), x.alive
  PROVE  Held(DataFragment(x)) /\ DataFragment(x).alive
<1> DEFINE y == [x EXCEPT !.isBinary = IF opcode(x) = 0 THEN @ ELSE opcode(x) = 2,
                          !.message = @ \o x.fragment]
           m == [on |-> "message", data |-> y.message, binary |-> y.isBinary]
<1>1. Held(y) /\ y.alive
  BY DEF Held, Fields
<1>2. \/ DataFragment(x) = y
      \/ DataFragment(x) = [y EXCEPT !.threw = TRUE]
      \/ DataFragment(x) = EndMessage(Hear(y, m))
  BY DEF DataFragment
<1> HIDE DEF y, m
<1> QED
  BY <1>1, <1>2 DEF Held, Fields, EndMessage, Hear

(* The object may be gone after a second close frame only; then its        *)
(* fragment is left as it is and nothing is read.                          *)
LEMMA CloseFragmentHolds ==
  ASSUME NEW x, Held(x), x.alive
  PROVE  /\ Unhurt(CloseFragment(x))
         /\ ~x.sentClose => CloseFragment(x).alive
<1> DEFINE y == [x EXCEPT !.recvClose = TRUE]
           z == Shut(y)
           w == IF z.closeCalled THEN z ELSE [CloseHeard(z) EXCEPT !.closeCalled = TRUE]
<1>1. Held(y) /\ y.alive
  BY DEF Held, Fields
<1>2. CASE ~x.sentClose
  <2>1. CloseFragment(x) = close(y, Len(x.fragment))
    BY <1>2 DEF CloseFragment
  <2> HIDE DEF y
  <2> QED
    BY <1>1, <2>1, Close DEF Unhurt
<1>3. CASE x.sentClose
  <2>1. CloseFragment(x) = check_destroy(w)
    BY <1>3 DEF CloseFragment
  <2> HIDE DEF y
  <2>2. Held(z) /\ z.alive
    BY <1>1 DEF Shut, Held, Fields
  <2> HIDE DEF z
  <2>3. Held(w) /\ w.alive
    BY <2>2 DEF Held, Fields, CloseHeard, Hear
  <2> HIDE DEF w
  <2> QED
    BY <1>3, <2>1, <2>3, CheckDestroy
<1> QED
  BY <1>2, <1>3

(* handle_fragment(),                                                      *)
LEMMA HandleFragment ==
  ASSUME NEW x, Held(x), x.alive
  PROVE  Unhurt(handle_fragment(x))
<1> DEFINE y == [x EXCEPT !.fragment = Unmasked(x)]
           z == CASE opcode(y) \in {0, 1, 2} -> DataFragment(y)
                  [] opcode(y) = 8           -> CloseFragment(y)
                  [] OTHER                   -> y
           stops == z.threw \/ (x.sentClose /\ opcode(y) = 8)
<1>1. Held(y) /\ y.alive /\ y.sentClose = x.sentClose
  BY DEF Held, Fields
<1>2. handle_fragment(x) = IF stops THEN z
                           ELSE do_read([EndFragment(z) EXCEPT !.state = "MiniHeader"])
  BY DEF handle_fragment
<1>3. Unhurt(z) /\ (~stops => z.alive)
  <2> HIDE DEF y
  <2>1. CASE opcode(y) \in {0, 1, 2}
    BY <1>1, <2>1, DataFragmentHolds DEF Unhurt
  <2>2. CASE opcode(y) = 8
    <3>1. z = CloseFragment(y)
      BY <2>2
    <3> QED
      BY <1>1, <2>2, <3>1, CloseFragmentHolds
  <2>3. CASE opcode(y) \notin {0, 1, 2} /\ opcode(y) # 8
    BY <1>1, <2>3 DEF Unhurt
  <2> QED
    BY <2>1, <2>2, <2>3
<1>4. ASSUME ~stops
      PROVE  Unhurt(do_read([EndFragment(z) EXCEPT !.state = "MiniHeader"]))
  <2> DEFINE w == [EndFragment(z) EXCEPT !.state = "MiniHeader"]
  <2> HIDE DEF z
  <2>1. Held(w) /\ w.alive
    BY <1>3, <1>4 DEF Unhurt, Held, Fields, EndFragment
  <2>2. Unhurt(do_read(w))
    <3> HIDE DEF w
    <3> QED
      BY <2>1, DoRead
  <2> QED
    BY <2>2
<1> HIDE DEF stops, z
<1> QED
  BY <1>2, <1>3, <1>4

-----------------------------------------------------------------------------
(* A read completion finds the object alive: it is outstanding.            *)
LEMMA CompletedHolds ==
  ASSUME NEW x, NEW bytes, Held(x), x.alive, x.readOp \in Reading
  PROVE  Unhurt(Completed(x, bytes))
<1>1. CASE x.readOp = "MiniHeader"
  <2> DEFINE h == IF Len(bytes) = 2 THEN bytes ELSE <<bytes[1], 0>>
             n == h[2] % 128
             y == [x EXCEPT !.isReading = FALSE, !.readOp = None, !.header = h,
                            !.hasMask = h[2] >= 128]
             z == CASE n = 127 -> [y EXCEPT !.state = "Len64"]
                    [] n = 126 -> [y EXCEPT !.state = "Len16"]
                    [] OTHER   -> [y EXCEPT !.state = "Mask", !.remaining = n]
  <2>1. Completed(x, bytes) = do_read(z)
    BY <1>1 DEF Completed, HeaderRead
  <2>2. Held(y) /\ y.alive
    BY DEF Held, Fields
  <2> HIDE DEF y, n
  <2>3. \/ z = [y EXCEPT !.state = "Len64"]
        \/ z = [y EXCEPT !.state = "Len16"]
        \/ z = [y EXCEPT !.state = "Mask", !.remaining = n]
    OBVIOUS
  <2> HIDE DEF z
  <2>4. Held(z) /\ z.alive
    BY <2>2, <2>3 DEF Held, Fields
  <2> QED
    BY <2>1, <2>4, DoRead
<1>2. CASE x.readOp \in {"Len16", "Len64"}
  <2> DEFINE n == IF x.readOp = "Len16" THEN Short(bytes) ELSE Long(bytes)
             y == [x EXCEPT !.isReading = FALSE, !.readOp = None, !.state = "Mask",
                            !.remaining = n]
  <2>1. Completed(x, bytes) = do_read(y)
    BY <1>2 DEF Completed, LengthRead
  <2> HIDE DEF n
  <2>2. Held(y) /\ y.alive
    BY DEF Held, Fields
  <2> HIDE DEF y
  <2> QED
    BY <2>1, <2>2, DoRead
<1>3. CASE x.readOp = "Mask"
  <2> DEFINE y == [x EXCEPT !.isReading = FALSE, !.readOp = None, !.mask = bytes,
                            !.state = "Payload"]
  <2>1. Completed(x, bytes) = do_read(y)
    BY <1>3 DEF Completed, MaskRead
  <2>2. Held(y) /\ y.alive
    BY DEF Held, Fields
  <2> QED
    BY <2>1, <2>2, DoRead
<1>4. CASE x.readOp = "Payload"
  <2> DEFINE y == [x EXCEPT !.isReading = FALSE, !.readOp = None,
                            !.fragment = @ \o bytes, !.remaining = @ - Len(bytes)]
  <2>1. Completed(x, bytes) = IF y.remaining = 0 THEN handle_fragment(y) ELSE do_read(y)
    BY <1>4 DEF Completed, PayloadRead
  <2>2. Held(y) /\ y.alive
    BY DEF Held, Fields
  <2> HIDE DEF y
  <2> QED
    BY <2>1, <2>2, DoRead, HandleFragment
<1> QED
  BY <1>1, <1>2, <1>3, <1>4 DEF Reading

(* a read that fails,                                                      *)
LEMMA ReadFailedHolds ==
  ASSUME NEW x, Held(x), x.alive
  PROVE  Unhurt(ReadFailed(x))
<1> DEFINE y == Shut([x EXCEPT !.isReading = FALSE, !.readOp = None])
<1>1. Held(y) /\ y.alive
  BY DEF Shut, Held, Fields
<1>2. ReadFailed(x) = check_destroy(y)
  BY DEF ReadFailed
<1> HIDE DEF y
<1> QED
  BY <1>1, <1>2, CheckDestroy

(* and the completion of a write.                                          *)
LEMMA WrittenHolds ==
  ASSUME NEW x, NEW ok, Held(x), x.alive
  PROVE  Unhurt(Written(x, ok))
<1> DEFINE y == [x EXCEPT !.sending = <<>>, !.writeOp = FALSE]
           z == IF y.writing = <<>> THEN y ELSE do_write(y)
           w == [y EXCEPT !.closeConnection = TRUE]
<1>1. Held(y) /\ y.alive
  BY DEF Held, Fields
<1>2. Written(x, ok) = IF ok /\ ~x.closeConnection
                       THEN [z EXCEPT !.closeConnection = x.sentClose]
                       ELSE check_destroy(w)
  BY DEF Written
<1> HIDE DEF y
<1>3. Held(z) /\ z.alive
  BY <1>1, DoWrite
<1>4. Held(w) /\ w.alive
  BY <1>1 DEF Held, Fields
<1> HIDE DEF z, w
<1>5. Unhurt([z EXCEPT !.closeConnection = x.sentClose])
  BY <1>3 DEF Unhurt, Held, Fields
<1>6. Unhurt(check_destroy(w))
  BY <1>4, CheckDestroy
<1> QED
  BY <1>2, <1>5, <1>6

-----------------------------------------------------------------------------
(* They do at the start ...                                                *)
LEMMA InitUnhurt == Init => IInv
<1> SUFFICES ASSUME Init PROVE IInv
  OBVIOUS
<1> DEFINE x == [New EXCEPT !.writing = <<Handshake>>, !.queued = <<Handshake>>]
           y == do_write(x)
           z == Hear(y, [on |-> "open"])
<1>1. Held(x) /\ x.alive /\ x.writing # <<>>
  <2>1. IsSequence(<<Handshake>>)
    <3>1. <<Handshake>> \in Seq({Handshake})
      OBVIOUS
    <3> QED
      BY <3>1 DEF IsSequence
  <2> QED
    BY <2>1 DEF Held, Fields, New
<1>2. c = do_read(z)
  BY DEF Init
<1> HIDE DEF x
<1>3. Held(y) /\ y.alive
  BY <1>1, DoWrite
<1> HIDE DEF y
<1>4. Held(z) /\ z.alive
  BY <1>3 DEF Held, Fields, Hear
<1> HIDE DEF z
<1> QED
  BY <1>2, <1>4, DoRead DEF IInv

(* ... and after each step.                                                *)
LEMMA NextUnhurt == IInv /\ [Next]_vars => IInv'
<1> SUFFICES ASSUME IInv, [Next]_vars PROVE IInv'
  OBVIOUS
<1> USE DEF IInv
<1>1. CASE ClientSends
  BY <1>1 DEF ClientSends
<1>2. CASE ClientVanishes
  BY <1>2 DEF ClientVanishes
<1>3. CASE Post
  BY <1>3 DEF Post
<1>4. CASE Transmit
  BY <1>4 DEF Transmit
<1>5. CASE ReadDone
  <2>1. PICK n \in Amounts : c' = Completed(c, SubSeq(inbound, 1, n))
    BY <1>5 DEF ReadDone
  <2>2. c.readOp # None
    BY <1>5 DEF ReadDone
  <2>3. Held(c) /\ c.alive
    BY <2>2 DEF Unhurt
  <2>4. c.readOp \in Reading
    BY <2>1 DEF Amounts, Reading
  <2> QED
    BY <2>1, <2>3, <2>4, CompletedHolds
<1>6. CASE ReadError
  BY <1>6, ReadFailedHolds DEF ReadError, Unhurt
<1>7. CASE WriteDone
  BY <1>7, WrittenHolds DEF WriteDone, Unhurt
<1>8. CASE WriteError
  BY <1>8, WrittenHolds DEF WriteError, Unhurt
<1>9. CASE RunPosted
  BY <1>9, EnqueueHolds DEF RunPosted, Unhurt
<1>10. CASE UNCHANGED vars
  BY <1>10 DEF vars
<1> QED
  BY <1>1, <1>2, <1>3, <1>4, <1>5, <1>6, <1>7, <1>8, <1>9, <1>10
  DEF Next, IoThread

(* Whatever reads, writes, errors and posted sends race with the deletion  *)
(* of a connection, none of them touches it afterwards.                    *)
THEOREM FreedIsUntouched == Spec => []NoUseAfterDelete
<1>1. IInv => NoUseAfterDelete
  BY DEF IInv, Unhurt, NoUseAfterDelete
<1> QED
  BY <1>1, InitUnhurt, NextUnhurt, PTL DEF Spec

-----------------------------------------------------------------------------
(***************************************************************************)
(* The buffers.  A member function leaves queued buffers where they are    *)
(* (Same), or appends to them and perhaps starts the write that was not    *)
(* under way (Moved); and the completion of a write swaps the two queues.  *)
(* So while the connection is open, what was sent, what is left of the     *)
(* write under way and what waits behind it are, in this order, what was   *)
(* queued (Order).                                                         *)
(*                                                                         *)
(* The handlers.  Once close() was called no read is outstanding any more  *)
(* (Signed), so that a step calls one handler at most (Told), and nothing  *)
(* is heard between the last close and the deletion.                       *)
(***************************************************************************)

(* What send_data_impl and start() put into write_buffers_.                *)
Sendable == {Handshake} \cup {Buffers(op, size) : op \in 0 .. 15, size \in Nat}

(* Object with these buffers in its queues.                                *)
Connection ==
  [alive : BOOLEAN, open : BOOLEAN, state : Reading,
   header : [1 .. 2 -> Byte], remaining : Nat, hasMask : BOOLEAN,
   mask : [1 .. 4 -> Byte], fragment : Data, message : Data,
   isBinary : BOOLEAN, isReading : BOOLEAN,
   readOp : Reading \cup {None}, writeOp : BOOLEAN,
   sending : Seq(Sendable), writing : Seq(Sendable),
   closeConnection : BOOLEAN, sentClose : BOOLEAN,
   recvClose : BOOLEAN, closeCalled : BOOLEAN, threw : BOOLEAN,
   heard : Seq(Call), queued : Seq(Sendable)]

Typed(x) == x \in Connection /\ (x.writeOp <=> x.sending # <<>>)

(* The queues stay as they are; a closed socket stays closed.              *)
Same(x, y) == /\ y.open => x.open
              /\ y.sending = x.sending
              /\ y.writing = x.writing
              /\ y.queued = x.queued

(* More is queued, behind what waits; it is sent when nothing was.         *)
Moved(x, y) ==
  /\ y.open => x.open
  /\ \E d \in Seq(Sendable) :
       /\ y.queued = x.queued \o d
       /\ \/ y.sending = x.sending /\ y.writing = x.writing \o d
          \/ x.sending = <<>> /\ y.sending = x.writing \o d /\ y.writing = <<>>

-----------------------------------------------------------------------------
(* Queues that stay as they are have moved by nothing.                     *)
LEMMA SameIsMoved ==
  ASSUME NEW x, NEW y, Typed(x), Same(x, y)
  PROVE  Moved(x, y)
<1>1. /\ x.queued \o <<>> = x.queued /\ x.writing \o <<>> = x.writing
      /\ <<>> \in Seq(Sendable)
  <2>1. x.queued \in Seq(Sendable) /\ x.writing \in Seq(Sendable)
    BY DEF Typed, Connection
  <2> QED
    BY <2>1, ConcatEmptySeq
<1> QED
  BY <1>1 DEF Same, Moved

(* Two steps that leave the queues are one ...                             *)
LEMMA SameSame ==
  ASSUME NEW x, NEW y, NEW z, Same(x, y), Same(y, z)
  PROVE  Same(x, z)
  BY DEF Same

(* ... and one that leaves them changes nothing about another, before it   *)
(* ...                                                                     *)
LEMMA SameMoved ==
  ASSUME NEW x, NEW y, NEW z, Same(x, y), Moved(y, z)
  PROVE  Moved(x, z)
  BY DEF Same, Moved

(* ... or after it.                                                        *)
LEMMA MovedSame ==
  ASSUME NEW x, NEW y, NEW z, Moved(x, y), Same(y, z)
  PROVE  Moved(x, z)
  BY DEF Same, Moved

-----------------------------------------------------------------------------
(* Bytes behind bytes are bytes.                                           *)
LEMMA ByteConcat ==
  ASSUME NEW s \in Seq(Byte), NEW t \in Seq(Byte)
  PROVE  s \o t \in Seq(Byte)
  OBVIOUS

(* The types are kept, and the queues left alone, by a call of a handler,  *)
LEMMA HearTyped ==
  ASSUME NEW x, NEW call \in Call, Typed(x)
  PROVE  Typed(Hear(x, call)) /\ Same(x, Hear(x, call))
<1>1. Append(x.heard, call) \in Seq(Call)
  BY DEF Typed, Connection
<1> QED
  BY <1>1 DEF Typed, Hear, Connection, Same

(* by one of onclose,                                                      *)
LEMMA CloseHeardTyped ==
  ASSUME NEW x, Typed(x)
  PROVE  Typed(CloseHeard(x)) /\ Same(x, CloseHeard(x))
<1>1. [on |-> "close"] \in Call
  BY DEF Call
<1> QED
  BY <1>1, HearTyped DEF CloseHeard

(* and by closing the socket.                                              *)
LEMMA ShutTyped ==
  ASSUME NEW x, Typed(x)
  PROVE  Typed(Shut(x)) /\ Same(x, Shut(x))
  BY DEF Typed, Shut, Connection, Same

(* A write is begun with something to write only.                          *)
LEMMA DoWriteTyped ==
  ASSUME NEW x, Typed(x), x.writing # <<>>, x.sending = <<>>
  PROVE  /\ Typed(do_write(x))
         /\ do_write(x).open = x.open /\ do_write(x).queued = x.queued
         /\ do_write(x).sending = x.writing /\ do_write(x).writing = <<>>
<1>1. do_write(x) = [x EXCEPT !.sending = x.writing, !.writing = <<>>, !.writeOp = TRUE]
  BY DEF do_write
<1>2. x \in Connection
  BY DEF Typed
<1>3. Typed(do_write(x))
  BY DEF Typed, do_write, Connection
<1>4. /\ do_write(x).open = x.open /\ do_write(x).queued = x.queued
      /\ do_write(x).sending = x.writing /\ do_write(x).writing = <<>>
  BY <1>1, <1>2 DEF Connection
<1> QED
  BY <1>3, <1>4

(* Queueing moves the queues.                                              *)
LEMMA EnqueueTyped ==
  ASSUME NEW x, NEW b \in Sendable, Typed(x)
  PROVE  Typed(Enqueue(x, b)) /\ Moved(x, Enqueue(x, b))
<1> DEFINE y == [x EXCEPT !.writing = Append(@, b), !.queued = Append(@, b)]
<1>1. /\ x.writing \in Seq(Sendable) /\ x.queued \in Seq(Sendable)
      /\ x.sending \in Seq(Sendable)
  BY DEF Typed, Connection
<1>2. /\ Append(x.writing, b) \in Seq(Sendable) /\ Append(x.writing, b) # <<>>
      /\ Append(x.queued, b) \in Seq(Sendable)
      /\ Append(x.writing, b) = x.writing \o <<b>>
      /\ Append(x.queued, b) = x.queued \o <<b>>
      /\ <<b>> \in Seq(Sendable)
  BY <1>1, AppendIsConcat
<1>3. /\ Typed(y) /\ y.open = x.open /\ y.sending = x.sending
      /\ y.writing = x.writing \o <<b>> /\ y.queued = x.queued \o <<b>>
      /\ y.writing # <<>>
  BY <1>2 DEF Typed, Connection
<1>4. Enqueue(x, b) = do_write(y)
  BY DEF Enqueue
<1> HIDE DEF y
<1>5. CASE x.sending # <<>>
  <2>1. do_write(y) = y
    BY <1>3, <1>5 DEF do_write
  <2> QED
    BY <1>2, <1>3, <1>4, <2>1 DEF Moved
<1>6. CASE x.sending = <<>>
  <2>1. /\ Typed(do_write(y))
        /\ do_write(y).open = y.open /\ do_write(y).queued = y.queued
        /\ do_write(y).sending = y.writing /\ do_write(y).writing = <<>>
    BY <1>3, <1>6, DoWriteTyped
  <2>2. Moved(x, do_write(y))
    BY <1>2, <1>3, <1>6, <2>1 DEF Moved
  <2> QED
    BY <1>4, <2>1, <2>2
<1> QED
  BY <1>5, <1>6

(* Deletion leaves them alone,                                             *)
LEMMA CheckDestroyTyped ==
  ASSUME NEW x, Typed(x)
  PROVE  Typed(check_destroy(x)) /\ Same(x, check_destroy(x))
<1> DEFINE y == IF x.closeCalled THEN x ELSE CloseHeard(x)
<1>1. Typed(y) /\ Same(x, y)
  BY CloseHeardTyped DEF Same
<1>2. check_destroy(x) = IF MayDelete(y) THEN [y EXCEPT !.alive = FALSE] ELSE y
  BY DEF check_destroy
<1> HIDE DEF y
<1>3. Typed([y EXCEPT !.alive = FALSE]) /\ Same(y, [y EXCEPT !.alive = FALSE])
  BY <1>1 DEF Typed, Connection, Same
<1> QED
  BY <1>1, <1>2, <1>3, SameSame

(* so does starting a read;                                                *)
LEMMA DoReadTyped ==
  ASSUME NEW x, Typed(x)
  PROVE  Typed(do_read(x)) /\ Same(x, do_read(x))
<1>1. CASE x.sentClose /\ x.recvClose
  <2>1. do_read(x) = check_destroy(Shut(x))
    BY <1>1 DEF do_read
  <2>2. Typed(Shut(x)) /\ Same(x, Shut(x))
    BY ShutTyped
  <2> QED
    BY <2>1, <2>2, CheckDestroyTyped, SameSame
<1>2. CASE ~(x.sentClose /\ x.recvClose)
  <2> DEFINE state == IF x.state = "Mask" /\ ~x.hasMask THEN "Payload" ELSE x.state
  <2>1. do_read(x) = [x EXCEPT !.isReading = TRUE, !.state = state, !.readOp = state]
    BY <1>2 DEF do_read
  <2>2. state \in Reading
    BY DEF Typed, Connection, Reading
  <2> HIDE DEF state
  <2> QED
    BY <2>1, <2>2 DEF Typed, Connection, Same
<1> QED
  BY <1>1, <1>2

(* close() queues the close frame.                                         *)
LEMMA CloseTyped ==
  ASSUME NEW x, NEW size \in Nat, Typed(x)
  PROVE  Typed(close(x, size)) /\ Moved(x, close(x, size))
<1> DEFINE y == [x EXCEPT !.sentClose = TRUE]
           z == IF y.recvClose /\ ~y.closeCalled
                THEN CloseHeard([y EXCEPT !.closeCalled = TRUE]) ELSE y
<1>1. Typed(y) /\ Same(x, y)
  BY DEF Typed, Connection, Same
<1>2. close(x, size) = Enqueue(z, Buffers(8, size))
  BY DEF close
<1>3. Buffers(8, size) \in Sendable
  BY DEF Sendable
<1> HIDE DEF y
<1>4. Typed([y EXCEPT !.closeCalled = TRUE]) /\ Same(y, [y EXCEPT !.closeCalled = TRUE])
  BY <1>1 DEF Typed, Connection, Same
<1>5. Typed(z) /\ Same(x, z)
  BY <1>1, <1>4, CloseHeardTyped, SameSame
<1> HIDE DEF z
<1> QED
  BY <1>2, <1>3, <1>5, EnqueueTyped, SameMoved

-----------------------------------------------------------------------------
(* What is taken from the header is in range.                              *)
LEMMA HeaderBytes ==
  ASSUME NEW x, Typed(x)
  PROVE  opcode(x) \in 0 .. 15 /\ is_FIN(x) \in BOOLEAN
<1>1. x.header[1] \in 0 .. 255
  BY DEF Typed, Connection, Byte
<1> QED
  BY <1>1 DEF opcode, is_FIN

(* Unmasking makes bytes of bytes.                                         *)
LEMMA UnmaskedTyped ==
  ASSUME NEW x, Typed(x)
  PROVE  Unmasked(x) \in Seq(Byte)
<1>1. /\ x.fragment \in Seq(Byte) /\ x.mask \in [1 .. 4 -> Byte]
  BY DEF Typed, Connection, Data
<1>2. /\ Len(x.fragment) \in Nat /\ DOMAIN x.fragment = 1 .. Len(x.fragment)
      /\ \A i \in 1 .. Len(x.fragment) : x.fragment[i] \in Byte
  BY <1>1
<1>3. \A i \in 1 .. Len(x.fragment) :
        (IF x.hasMask THEN XorOf(x.fragment[i], x.mask[((i - 1) % 4) + 1])
         ELSE x.fragment[i]) \in Byte
  <2> TAKE i \in 1 .. Len(x.fragment)
  <2>1. ((i - 1) % 4) + 1 \in 1 .. 4
    BY <1>2
  <2>2. x.mask[((i - 1) % 4) + 1] \in Byte
    BY <1>1, <2>1
  <2> QED
    BY <1>2, <2>2, XorType
<1>4. Unmasked(x) \in [1 .. Len(x.fragment) -> Byte]
  BY <1>2, <1>3 DEF Unmasked
<1> QED
  BY <1>2, <1>4, SeqDef

(* A data frame leaves the queues alone,                                   *)
LEMMA DataFragmentTyped ==
  ASSUME NEW x, Typed(x)
  PROVE  Typed(DataFragment(x)) /\ Same(x, DataFragment(x))
<1> DEFINE y == [x EXCEPT !.isBinary = IF opcode(x) = 0 THEN @ ELSE opcode(x) = 2,
                          !.message = @ \o x.fragment]
           m == [on |-> "message", data |-> y.message, binary |-> y.isBinary]
           h == Hear(y, m)
<1>1. x.message \o x.fragment \in Data /\ x.isBinary \in BOOLEAN
  BY DEF Typed, Connection, Data
<1>2. Typed(y) /\ Same(x, y)
  BY <1>1 DEF Typed, Connection, Same
<1>3. \/ DataFragment(x) = y
      \/ DataFragment(x) = [y EXCEPT !.threw = TRUE]
      \/ DataFragment(x) = EndMessage(h)
  BY DEF DataFragment
<1> HIDE DEF y
<1>4. m \in Call
  <2>1. y.message \in Data /\ y.isBinary \in BOOLEAN
    BY <1>2 DEF Typed, Connection
  <2> QED
    BY <2>1 DEF Call
<1> HIDE DEF m
<1>5. Typed(h) /\ Same(y, h)
  BY <1>2, <1>4, HearTyped
<1> HIDE DEF h
<1>6. Typed(EndMessage(h)) /\ Same(h, EndMessage(h))
  <2>1. <<>> \in Data
    BY DEF Data
  <2> QED
    BY <1>5, <2>1 DEF Typed, Connection, Same, EndMessage
<1>7. Typed([y EXCEPT !.threw = TRUE]) /\ Same(y, [y EXCEPT !.threw = TRUE])
  BY <1>2 DEF Typed, Connection, Same
<1>8. Same(x, h)
  BY <1>2, <1>5, SameSame
<1>9. Same(x, EndMessage(h)) /\ Same(x, [y EXCEPT !.threw = TRUE])
  BY <1>2, <1>6, <1>7, <1>8, SameSame
<1> QED
  BY <1>2, <1>3, <1>6, <1>7, <1>9

(* a close frame may be echoed,                                            *)
LEMMA CloseFragmentTyped ==
  ASSUME NEW x, Typed(x)
  PROVE  Typed(CloseFragment(x)) /\ Moved(x, CloseFragment(x))
<1> DEFINE y == [x EXCEPT !.recvClose = TRUE]
           z == Shut(y)
           v == CloseHeard(z)
           w == IF z.closeCalled THEN z ELSE [v EXCEPT !.closeCalled = TRUE]
<1>1. Typed(y) /\ Same(x, y)
  BY DEF Typed, Connection, Same
<1>2. CASE ~x.sentClose
  <2>1. CloseFragment(x) = close(y, Len(x.fragment))
    BY <1>2 DEF CloseFragment
  <2>2. Len(x.fragment) \in Nat
    BY DEF Typed, Connection, Data
  <2> HIDE DEF y
  <2> QED
    BY <1>1, <2>1, <2>2, CloseTyped, SameMoved
<1>3. CASE x.sentClose
  <2>1. CloseFragment(x) = check_destroy(w)
    BY <1>3 DEF CloseFragment
  <2> HIDE DEF y
  <2>2. Typed(z) /\ Same(x, z)
    BY <1>1, ShutTyped, SameSame
  <2> HIDE DEF z
  <2>3. Typed(v) /\ Same(x, v)
    BY <2>2, CloseHeardTyped, SameSame
  <2> HIDE DEF v
  <2>4. Typed([v EXCEPT !.closeCalled = TRUE]) /\ Same(v, [v EXCEPT !.closeCalled = TRUE])
    BY <2>3 DEF Typed, Connection, Same
  <2>5. Typed(w) /\ Same(x, w)
    BY <2>2, <2>3, <2>4, SameSame
  <2> HIDE DEF w
  <2>6. Typed(check_destroy(w)) /\ Same(x, check_destroy(w))
    BY <2>5, CheckDestroyTyped, SameSame
  <2> QED
    BY <2>1, <2>6, SameIsMoved
<1> QED
  BY <1>2, <1>3

(* so handle_fragment() moves them, too.                                   *)
LEMMA HandleFragmentTyped ==
  ASSUME NEW x, Typed(x)
  PROVE  Typed(handle_fragment(x)) /\ Moved(x, handle_fragment(x))
<1> DEFINE y == [x EXCEPT !.fragment = Unmasked(x)]
           z == CASE opcode(y) \in {0, 1, 2} -> DataFragment(y)
                  [] opcode(y) = 8           -> CloseFragment(y)
                  [] OTHER                   -> y
           v == [EndFragment(z) EXCEPT !.state = "MiniHeader"]
           stops == z.threw \/ (x.sentClose /\ opcode(y) = 8)
<1>1. Typed(y) /\ Same(x, y)
  BY UnmaskedTyped DEF Typed, Connection, Same, Data
<1>2. handle_fragment(x) = IF stops THEN z ELSE do_read(v)
  BY DEF handle_fragment
<1> HIDE DEF y
<1>3. Typed(z) /\ Moved(y, z)
  <2>1. CASE opcode(y) \in {0, 1, 2}
    BY <1>1, <2>1, DataFragmentTyped, SameIsMoved
  <2>2. CASE opcode(y) = 8
    <3>1. z = CloseFragment(y)
      BY <2>2
    <3> QED
      BY <1>1, <3>1, CloseFragmentTyped
  <2>3. CASE opcode(y) \notin {0, 1, 2} /\ opcode(y) # 8
    <3>1. Same(y, y)
      BY DEF Same
    <3> QED
      BY <1>1, <2>3, <3>1, SameIsMoved
  <2> QED
    BY <2>1, <2>2, <2>3
<1> HIDE DEF z
<1>4. Typed(v) /\ Same(z, v)
  <2>1. <<>> \in Data /\ "MiniHeader" \in Reading
    BY DEF Data, Reading
  <2> QED
    BY <1>3, <2>1 DEF Typed, Connection, Same, EndFragment
<1> HIDE DEF v
<1>5. Typed(do_read(v)) /\ Same(z, do_read(v))
  BY <1>4, DoReadTyped, SameSame
<1> HIDE DEF stops
<1> QED
  BY <1>1, <1>2, <1>3, <1>5, SameMoved, MovedSame

-----------------------------------------------------------------------------
(* What a read may complete with.                                          *)
Amount(x, n) ==
  /\ x.readOp \in Reading
  /\ x.readOp = "MiniHeader" => n \in {1, 2}
  /\ x.readOp = "Len16" => n = 2
  /\ x.readOp = "Len64" => n = 8
  /\ x.readOp = "Mask" => n = 4
  /\ x.readOp = "Payload" => n \in 0 .. x.remaining

(* One byte more behind a number.                                          *)
LEMMA NatHorner == \A m, n \in Nat : m * 256 + n \in Nat
  OBVIOUS

(* Bytes are numbers.                                                      *)
LEMMA BytesAreNat == \A n \in Byte : n \in Nat /\ n % 128 \in Nat
  BY DEF Byte

(* ntohs and ntohl read numbers.                                           *)
LEMMA Numbers ==
  ASSUME NEW b \in Seq(Byte)
  PROVE  /\ Len(b) = 2 => Short(b) \in Nat
         /\ Len(b) = 8 => Long(b) \in Nat
<1>1. \A i \in 1 .. Len(b) : b[i] \in Nat
  <2> TAKE i \in 1 .. Len(b)
  <2>1. b[i] \in Byte
    OBVIOUS
  <2> QED
    BY <2>1, BytesAreNat
<1>2. CASE Len(b) = 2
  BY <1>1, <1>2 DEF Short
<1>3. CASE Len(b) = 8
  <2>1. b[1] \in Nat /\ b[2] \in Nat /\ b[3] \in Nat /\ b[4] \in Nat
        /\ b[5] \in Nat /\ b[6] \in Nat /\ b[7] \in Nat /\ b[8] \in Nat
    BY <1>1, <1>3
  <2>2. b[1] * 256 + b[2] \in Nat
    BY <2>1, NatHorner
  <2>3. (b[1] * 256 + b[2]) * 256 + b[3] \in Nat
    BY <2>1, <2>2, NatHorner
  <2>4. ((b[1] * 256 + b[2]) * 256 + b[3]) * 256 + b[4] \in Nat
    BY <2>1, <2>3, NatHorner
  <2>5. (((b[1] * 256 + b[2]) * 256 + b[3]) * 256 + b[4]) * 256 + b[5] \in Nat
    BY <2>1, <2>4, NatHorner
  <2>6. ((((b[1] * 256 + b[2]) * 256 + b[3]) * 256 + b[4]) * 256 + b[5])
          * 256 + b[6] \in Nat
    BY <2>1, <2>5, NatHorner
  <2>7. (((((b[1] * 256 + b[2]) * 256 + b[3]) * 256 + b[4]) * 256 + b[5])
          * 256 + b[6]) * 256 + b[7] \in Nat
    BY <2>1, <2>6, NatHorner
  <2> QED
    <3> DEFINE m == (((((b[1] * 256 + b[2]) * 256 + b[3]) * 256 + b[4]) * 256 + b[5])
                       * 256 + b[6]) * 256 + b[7]
    <3>1. Long(b) = m * 256 + b[8]
      BY DEF Long
    <3>2. m \in Nat
      BY <2>7
    <3> HIDE DEF m
    <3>3. Long(b) \in Nat
      BY <2>1, <3>1, <3>2, NatHorner
    <3> QED
      BY <1>3, <3>3
<1> QED
  BY <1>2, <1>3

(* The two bytes of a header; the second is 0 when it did not come.        *)
LEMMA HeaderPair ==
  ASSUME NEW bytes \in Seq(Byte), Len(bytes) \in {1, 2}
  PROVE  LET h == IF Len(bytes) = 2 THEN bytes ELSE <<bytes[1], 0>>
         IN  h \in [1 .. 2 -> Byte] /\ h[2] % 128 \in Nat /\ (h[2] >= 128) \in BOOLEAN
<1> DEFINE h == IF Len(bytes) = 2 THEN bytes ELSE <<bytes[1], 0>>
<1>1. h \in [1 .. 2 -> Byte]
  <2>1. CASE Len(bytes) = 2
    BY <2>1
  <2>2. CASE Len(bytes) = 1
    <3>1. bytes[1] \in Byte
      BY <2>2
    <3>2. 0 \in Byte
      BY DEF Byte
    <3> QED
      BY <2>2, <3>1, <3>2
  <2> QED
    BY <2>1, <2>2
<1>2. h[2] \in Byte
  BY <1>1
<1>3. h[2] % 128 \in Nat
  BY <1>2, BytesAreNat
<1>4. (h[2] >= 128) \in BOOLEAN
  OBVIOUS
<1> QED
  BY <1>1, <1>3, <1>4

(* The completion of a read keeps the types and moves the queues,          *)
LEMMA CompletedTyped ==
  ASSUME NEW x, NEW bytes \in Seq(Byte), Typed(x), Amount(x, Len(bytes))
  PROVE  Typed(Completed(x, bytes)) /\ Moved(x, Completed(x, bytes))
<1> DEFINE h == IF Len(bytes) = 2 THEN bytes ELSE <<bytes[1], 0>>
           n == h[2] % 128
           r == [x EXCEPT !.isReading = FALSE, !.readOp = None]
<1>1. Typed(r) /\ Same(x, r)
  BY DEF Typed, Connection, Same
<1>2. CASE x.readOp = "MiniHeader"
  <2> DEFINE b == h[2] >= 128
             y == [x EXCEPT !.isReading = FALSE, !.readOp = None, !.header = h,
                            !.hasMask = b]
             z == CASE n = 127 -> [y EXCEPT !.state = "Len64"]
                    [] n = 126 -> [y EXCEPT !.state = "Len16"]
                    [] OTHER   -> [y EXCEPT !.state = "Mask", !.remaining = n]
  <2>1. Completed(x, bytes) = do_read(z)
    BY <1>2 DEF Completed, HeaderRead
  <2>2. h \in [1 .. 2 -> Byte] /\ n \in Nat /\ b \in BOOLEAN
    BY <1>2, HeaderPair DEF Amount
  <2> HIDE DEF h, n, b
  <2>3. Typed(y) /\ Same(x, y)
    BY <2>2 DEF Typed, Connection, Same
  <2> HIDE DEF y
  <2>4. \/ z = [y EXCEPT !.state = "Len64"]
        \/ z = [y EXCEPT !.state = "Len16"]
        \/ z = [y EXCEPT !.state = "Mask", !.remaining = n]
    OBVIOUS
  <2> HIDE DEF z
  <2>5. {"Len64", "Len16", "Mask"} \subseteq Reading
    BY DEF Reading
  <2>6. Typed(z) /\ Same(y, z)
    BY <2>2, <2>3, <2>4, <2>5 DEF Typed, Connection, Same
  <2> QED
    BY <2>1, <2>3, <2>6, DoReadTyped, SameSame, SameIsMoved
<1>3. CASE x.readOp \in {"Len16", "Len64"}
  <2> DEFINE k == IF x.readOp = "Len16" THEN Short(bytes) ELSE Long(bytes)
             y == [x EXCEPT !.isReading = FALSE, !.readOp = None, !.state = "Mask",
                            !.remaining = k]
  <2>1. Completed(x, bytes) = do_read(y)
    BY <1>3 DEF Completed, LengthRead
  <2>2. k \in Nat
    BY <1>3, Numbers DEF Amount
  <2>3. "Mask" \in Reading
    BY DEF Reading
  <2> HIDE DEF k
  <2>4. Typed(y) /\ Same(x, y)
    BY <2>2, <2>3 DEF Typed, Connection, Same
  <2> HIDE DEF y
  <2> QED
    BY <2>1, <2>4, DoReadTyped, SameSame, SameIsMoved
<1>4. CASE x.readOp = "Mask"
  <2> DEFINE y == [x EXCEPT !.isReading = FALSE, !.readOp = None, !.mask = bytes,
                            !.state = "Payload"]
  <2>1. Completed(x, bytes) = do_read(y)
    BY <1>4 DEF Completed, MaskRead
  <2>2. bytes \in [1 .. 4 -> Byte]
    <3>1. Len(bytes) = 4
      BY <1>4 DEF Amount
    <3> QED
      BY <3>1
  <2>3. "Payload" \in Reading
    BY DEF Reading
  <2>4. Typed(y) /\ Same(x, y)
    BY <2>2, <2>3 DEF Typed, Connection, Same
  <2> HIDE DEF y
  <2> QED
    BY <2>1, <2>4, DoReadTyped, SameSame, SameIsMoved
<1>5. CASE x.readOp = "Payload"
  <2> DEFINE y == [x EXCEPT !.isReading = FALSE, !.readOp = None,
                            !.fragment = @ \o bytes, !.remaining = @ - Len(bytes)]
  <2>1. Completed(x, bytes) = IF y.remaining = 0 THEN handle_fragment(y) ELSE do_read(y)
    BY <1>5 DEF Completed, PayloadRead
  <2>2. x.remaining - Len(bytes) \in Nat
    BY <1>5 DEF Amount, Typed, Connection
  <2>3. x.fragment \o bytes \in Data
    BY DEF Data, Typed, Connection
  <2>4. Typed(y) /\ Same(x, y)
    BY <2>2, <2>3 DEF Typed, Connection, Same
  <2> HIDE DEF y
  <2>5. Typed(do_read(y)) /\ Moved(y, do_read(y))
    BY <2>4, DoReadTyped, SameIsMoved
  <2>6. Typed(handle_fragment(y)) /\ Moved(y, handle_fragment(y))
    BY <2>4, HandleFragmentTyped
  <2> QED
    BY <2>1, <2>4, <2>5, <2>6, SameMoved
<1> QED
  BY <1>2, <1>3, <1>4, <1>5 DEF Amount, Reading

(* a read that fails leaves them.                                          *)
LEMMA ReadFailedTyped ==
  ASSUME NEW x, Typed(x)
  PROVE  Typed(ReadFailed(x)) /\ Same(x, ReadFailed(x))
<1> DEFINE r == [x EXCEPT !.isReading = FALSE, !.readOp = None]
<1>1. Typed(r) /\ Same(x, r)
  BY DEF Typed, Connection, Same
<1>2. ReadFailed(x) = check_destroy(Shut(r))
  BY DEF ReadFailed
<1> HIDE DEF r
<1> QED
  BY <1>1, <1>2, ShutTyped, CheckDestroyTyped, SameSame

(* A write that has been taken makes room for what waits.                  *)
LEMMA WrittenTyped ==
  ASSUME NEW x, NEW ok, Typed(x)
  PROVE  /\ Typed(Written(x, ok))
         /\ Written(x, ok).open => x.open
         /\ Written(x, ok).queued = x.queued
         /\ \/ Written(x, ok).sending = x.writing /\ Written(x, ok).writing = <<>>
            \/ Written(x, ok).sending = <<>> /\ Written(x, ok).writing = x.writing
<1> DEFINE y == [x EXCEPT !.sending = <<>>, !.writeOp = FALSE]
           z == IF y.writing = <<>> THEN y ELSE do_write(y)
           w == [y EXCEPT !.closeConnection = TRUE]
           v == [z EXCEPT !.closeConnection = x.sentClose]
<1>1. /\ Typed(y) /\ y.open = x.open /\ y.queued = x.queued
      /\ y.sending = <<>> /\ y.writing = x.writing
  <2>1. x \in Connection
    BY DEF Typed
  <2>2. <<>> \in Seq(Sendable)
    OBVIOUS
  <2>3. y \in Connection
    BY <2>1, <2>2 DEF Connection
  <2> QED
    BY <2>1, <2>3 DEF Typed, Connection
<1>2. Written(x, ok) = IF ok /\ ~x.closeConnection THEN v ELSE check_destroy(w)
  BY DEF Written
<1> HIDE DEF y
<1>3. /\ Typed(z) /\ z.open = x.open /\ z.queued = x.queued
      /\ \/ z.sending = x.writing /\ z.writing = <<>>
         \/ z.sending = <<>> /\ z.writing = x.writing
  <2>1. CASE y.writing = <<>>
    BY <1>1, <2>1
  <2>2. CASE y.writing # <<>>
    BY <1>1, <2>2, DoWriteTyped
  <2> QED
    BY <2>1, <2>2
<1>4. Typed(w) /\ Same(y, w)
  BY <1>1 DEF Typed, Connection, Same
<1> HIDE DEF w
<1>5. Typed(check_destroy(w)) /\ Same(y, check_destroy(w))
  BY <1>4, CheckDestroyTyped, SameSame
<1> HIDE DEF z
<1>6. Typed(v) /\ Same(z, v)
  BY <1>3 DEF Typed, Connection, Same
<1> HIDE DEF v
<1>7. CASE ok /\ ~x.closeConnection
  BY <1>2, <1>3, <1>6, <1>7 DEF Same
<1>8. CASE ~(ok /\ ~x.closeConnection)
  BY <1>1, <1>2, <1>5, <1>8 DEF Same
<1> QED
  BY <1>7, <1>8

-----------------------------------------------------------------------------
(* A frame of a client is bytes.                                           *)
LEMMA EncodedBytes ==
  ASSUME NEW f \in Frame
  PROVE  Encoded(f) \in Seq(Byte)
<1> DEFINE first == (IF f.fin THEN 128 ELSE 0) + f.op
           second == IF f.code = 0 THEN LengthOf(f)
                     ELSE f.code + LengthOf(f) - Len(f.data)
           n == Len(f.data)
           size == CASE f.code = 0   -> <<>>
                     [] f.code = 126 -> <<0, n>>
                     [] f.code = 127 -> <<0, 0, 0, 0, 0, 0, 0, n>>
<1>1. /\ f.fin \in BOOLEAN /\ f.op \in 0 .. 15 /\ f.code \in {0, 126, 127}
      /\ f.key \in {<<>>} \cup [1 .. 4 -> Byte] /\ f.data \in Seq(Byte)
      /\ n <= IF f.code = 0 THEN 125 ELSE 255
  BY DEF Frame
<1>2. n \in Nat /\ n <= 255 /\ (f.code = 0 => n <= 125)
  <2>1. n \in Nat
    BY <1>1
  <2>2. n <= IF f.code = 0 THEN 125 ELSE 255
    BY <1>1
  <2> HIDE DEF n
  <2> QED
    BY <2>1, <2>2
<1>3. f.key \in Seq(Byte)
  <2>1. CASE f.key = <<>>
    BY <2>1
  <2>2. CASE f.key \in [1 .. 4 -> Byte]
    BY <2>2, SeqDef
  <2> QED
    BY <1>1, <2>1, <2>2
<1>4. Masked(f) \in Seq(Byte)
  <2>1. CASE f.key = <<>>
    BY <1>1, <2>1 DEF Masked
  <2>2. CASE f.key # <<>>
    <3>1. f.key \in [1 .. 4 -> Byte]
      BY <1>1, <2>2
    <3>2. n \in Nat /\ DOMAIN f.data = 1 .. n /\ \A i \in 1 .. n : f.data[i] \in Byte
      BY <1>1
    <3>3. \A i \in 1 .. n : XorOf(f.data[i], f.key[((i - 1) % 4) + 1]) \in Byte
      <4> TAKE i \in 1 .. n
      <4>1. ((i - 1) % 4) + 1 \in 1 .. 4
        BY <3>2
      <4>2. f.key[((i - 1) % 4) + 1] \in Byte
        BY <3>1, <4>1
      <4> QED
        BY <3>2, <4>2, XorType
    <3>4. Masked(f) \in [1 .. n -> Byte]
      BY <2>2, <3>2, <3>3 DEF Masked
    <3> QED
      BY <3>2, <3>4, SeqDef
  <2> QED
    BY <2>1, <2>2
<1>5. first \in Byte /\ second \in Byte /\ n \in Byte /\ 0 \in Byte
  <2> DEFINE l == LengthOf(f)
             code == f.code
             op == f.op
             unmasked == f.key = <<>>
  <2>1. first = (IF f.fin THEN 128 ELSE 0) + op /\ op \in 0 .. 15
    BY <1>1
  <2>2. l = n + (IF unmasked THEN 0 ELSE 128)
    BY DEF LengthOf
  <2>3. second = IF code = 0 THEN l ELSE code + l - n
    OBVIOUS
  <2>4. code \in {0, 126, 127}
    BY <1>1
  <2>5. n \in Nat /\ n <= 255 /\ (code = 0 => n <= 125)
    BY <1>2
  <2> HIDE DEF first, second, n, l, code, op, unmasked
  <2>6. second \in 0 .. 255 /\ n \in 0 .. 255
    BY <2>2, <2>3, <2>4, <2>5
  <2>7. first \in 0 .. 255
    BY <2>1
  <2> QED
    BY <2>6, <2>7 DEF Byte
<1>6. Encoded(f) = <<first, second>> \o size \o f.key \o Masked(f)
  BY DEF Encoded
<1> HIDE DEF first, second, n
<1>7. size \in Seq(Byte)
  <2>1. CASE f.code = 0
    BY <2>1
  <2>2. CASE f.code = 126
    BY <1>5, <2>2
  <2>3. CASE f.code = 127
    BY <1>5, <2>3
  <2> QED
    BY <1>1, <2>1, <2>2, <2>3
<1>8. <<first, second>> \in Seq(Byte)
  BY <1>5
<1> HIDE DEF size
<1>9. <<first, second>> \o size \in Seq(Byte)
  BY <1>7, <1>8, ByteConcat
<1>10. <<first, second>> \o size \o f.key \in Seq(Byte)
  BY <1>3, <1>9, ByteConcat
<1> QED
  BY <1>4, <1>6, <1>10, ByteConcat

-----------------------------------------------------------------------------
(* TypeOK, with what is known of the buffers.                              *)
Traffic == /\ Typed(c)
           /\ posted \in Seq(Sendable) /\ sent \in Seq(Sendable)
           /\ taken \in 0 .. Len(c.sending)
           /\ inbound \in Seq(Byte)
           /\ script \in Seq(Frame) /\ past \in Seq(Frame)
           /\ gone \in BOOLEAN /\ tears \in Nat
           /\ replies \in Seq(Nat)

(* What the network has not taken yet.                                     *)
Rest == SubSeq(c.sending, taken + 1, Len(c.sending)) \o c.writing

Order == /\ IsPrefix(sent, c.queued)
         /\ c.open /\ ~gone => c.queued = sent \o Rest

(* The eight bytes of a length are numbers.                                *)
LEMMA LongBytesAreNumbers ==
  ASSUME NEW n \in Nat
  PROVE  LongBytes(n) \in Seq(Nat) /\ Len(LongBytes(n)) = 8
<1>1. \A m \in Nat : m \div 256 \in Nat /\ m % 256 \in Nat
  OBVIOUS
<1> DEFINE b1 == n \div 256  b2 == b1 \div 256  b3 == b2 \div 256
           b4 == b3 \div 256  b5 == b4 \div 256  b6 == b5 \div 256
           b7 == b6 \div 256
<1>2. LongBytes(n) = <<b7, b6 % 256, b5 % 256, b4 % 256, b3 % 256,
                          b2 % 256, b1 % 256, n % 256>>
  BY DEF LongBytes
<1>3. b1 \in Nat
  BY <1>1
<1> HIDE DEF b1
<1>4. b2 \in Nat
  BY <1>1, <1>3
<1> HIDE DEF b2
<1>5. b3 \in Nat
  BY <1>1, <1>4
<1> HIDE DEF b3
<1>6. b4 \in Nat
  BY <1>1, <1>5
<1> HIDE DEF b4
<1>7. b5 \in Nat
  BY <1>1, <1>6
<1> HIDE DEF b5
<1>8. b6 \in Nat
  BY <1>1, <1>7
<1> HIDE DEF b6
<1>9. b7 \in Nat
  BY <1>1, <1>8
<1> HIDE DEF b7
<1>10. /\ b6 % 256 \in Nat /\ b5 % 256 \in Nat /\ b4 % 256 \in Nat
      /\ b3 % 256 \in Nat /\ b2 % 256 \in Nat /\ b1 % 256 \in Nat
      /\ n % 256 \in Nat
  BY <1>1, <1>3, <1>4, <1>5, <1>6, <1>7, <1>8
<1> QED
  BY <1>2, <1>9, <1>10

(* What is sent are buffers.                                               *)
LEMMA SendableBuffers == Sendable \subseteq Buffer
<1> SUFFICES ASSUME NEW b \in Sendable PROVE b \in Buffer
  OBVIOUS
<1>1. CASE b = Handshake
  BY <1>1 DEF Handshake, Buffer
<1>2. ASSUME NEW op \in 0 .. 15, NEW size \in Nat, b = Buffers(op, size)
      PROVE  b \in Buffer
  <2>1. LengthBytes(size) \in Seq(Nat)
    <3>1. CASE size < 126
      BY <3>1 DEF LengthBytes
    <3>2. CASE size >= 126 /\ size < 65536
      <4>1. size \div 256 \in Nat /\ size % 256 \in Nat
        OBVIOUS
      <4>2. LengthBytes(size) = <<126, size \div 256, size % 256>>
        BY <3>2 DEF LengthBytes
      <4> QED
        BY <4>1, <4>2
    <3>3. CASE size >= 65536
      <4>1. LongBytes(size) \in Seq(Nat)
        BY LongBytesAreNumbers
      <4>2. LengthBytes(size) = <<127>> \o LongBytes(size)
        BY <3>3 DEF LengthBytes
      <4>3. <<127>> \in Seq(Nat)
        OBVIOUS
      <4> QED
        BY <4>1, <4>2, <4>3, ConcatProperties
    <3> QED
      BY <3>1, <3>2, <3>3
  <2>2. <<128 + op>> \in Seq(Nat)
    OBVIOUS
  <2>3. build_header(op, size) \in Seq(Nat)
    BY <2>1, <2>2, ConcatProperties DEF build_header
  <2> QED
    BY <1>2, <2>3 DEF Buffers, Buffer
<1> QED
  BY <1>1, <1>2 DEF Sendable

(* The types that are kept are those of TypeOK.                            *)
LEMMA TrafficTypes == Traffic => TypeOK
<1> SUFFICES ASSUME Traffic PROVE TypeOK
  OBVIOUS
<1>1. \A s \in Seq(Sendable) : s \in Seq(Buffer)
  <2> SUFFICES ASSUME NEW s \in Seq(Sendable) PROVE s \in Seq(Buffer)
    OBVIOUS
  <2>1. s \in [1 .. Len(s) -> Sendable] /\ Len(s) \in Nat
    OBVIOUS
  <2>2. s \in [1 .. Len(s) -> Buffer]
    BY <2>1, SendableBuffers
  <2> QED
    BY <2>1, <2>2, SeqDef
<1>2. c \in Object
  BY <1>1 DEF Traffic, Typed, Connection, Object
<1> QED
  BY <1>1, <1>2 DEF Traffic, Typed, TypeOK

-----------------------------------------------------------------------------
(* A sequence is a prefix of what it is continued to ...                   *)
LEMMA PrefixOfConcat ==
  ASSUME NEW S, NEW s \in Seq(S), NEW t \in Seq(S)
  PROVE  IsPrefix(s, s \o t)
<1>1. Len(s \o t) = Len(s) + Len(t) /\ Len(s) \in Nat /\ Len(t) \in Nat
  BY ConcatProperties
<1>2. SubSeq(s \o t, 1, Len(s)) = SubSeq(s, 1, Len(s))
  <2>1. CASE Len(s) = 0
    BY <2>1, SubSeqEmpty
  <2>2. CASE Len(s) # 0
    <3>1. 1 \in 1 .. Len(s) /\ Len(s) \in 1 .. Len(s)
      BY <1>1, <2>2
    <3> QED
      BY <3>1, SubSeqOfConcat1
  <2> QED
    BY <2>1, <2>2
<1> QED
  BY <1>1, <1>2 DEF IsPrefix

(* ... and stays one of what that is continued to.                         *)
LEMMA PrefixGrows ==
  ASSUME NEW S, NEW s \in Seq(S), NEW t \in Seq(S), NEW d \in Seq(S), IsPrefix(s, t)
  PROVE  IsPrefix(s, t \o d)
<1>1. /\ Len(t \o d) = Len(t) + Len(d) /\ Len(s) \in Nat /\ Len(t) \in Nat
      /\ Len(d) \in Nat /\ Len(s) <= Len(t)
  BY ConcatProperties DEF IsPrefix
<1>2. SubSeq(t \o d, 1, Len(s)) = SubSeq(t, 1, Len(s))
  <2>1. CASE Len(s) = 0
    BY <2>1, SubSeqEmpty
  <2>2. CASE Len(s) # 0
    <3>1. 1 \in 1 .. Len(t) /\ Len(s) \in 1 .. Len(t)
      BY <1>1, <2>2
    <3> QED
      BY <3>1, SubSeqOfConcat1
  <2> QED
    BY <2>1, <2>2
<1> QED
  BY <1>1, <1>2 DEF IsPrefix

(* What is left after n buffers were taken of the write of x.              *)
RestOf(x, n) == SubSeq(x.sending, n + 1, Len(x.sending)) \o x.writing

(* What the network has not taken is a list of buffers.                    *)
LEMMA RestIsSequence ==
  ASSUME NEW x, Typed(x), NEW n \in 0 .. Len(x.sending)
  PROVE  /\ SubSeq(x.sending, n + 1, Len(x.sending)) \in Seq(Sendable)
         /\ RestOf(x, n) \in Seq(Sendable)
<1>1. x.sending \in Seq(Sendable) /\ x.writing \in Seq(Sendable)
  BY DEF Typed, Connection
<1>2. SubSeq(x.sending, n + 1, Len(x.sending)) \in Seq(Sendable)
  <2> DEFINE s == x.sending
  <2>1. s \in Seq(Sendable) /\ Len(s) \in Nat /\ n \in 0 .. Len(s)
    BY <1>1
  <2> HIDE DEF s
  <2>2. \A i \in n + 1 .. Len(s) : s[i] \in Sendable
    BY <2>1
  <2>3. n + 1 \in Int /\ Len(s) \in Int
    BY <2>1
  <2>4. SubSeq(s, n + 1, Len(s)) \in Seq(Sendable)
    BY <2>2, <2>3, SubSeqProperties
  <2> QED
    BY <2>4 DEF s
<1> QED
  BY <1>1, <1>2, ConcatProperties DEF RestOf

(* More buffers queued come behind the rest.                               *)
LEMMA MovedKeepsOrder ==
  ASSUME NEW x, NEW y, Typed(x), Typed(y), Moved(x, y),
         NEW n \in 0 .. Len(x.sending), NEW s \in Seq(Sendable),
         IsPrefix(s, x.queued)
  PROVE  /\ n \in 0 .. Len(y.sending)
         /\ IsPrefix(s, y.queued)
         /\ x.queued = s \o RestOf(x, n) => y.queued = s \o RestOf(y, n)
<1>1. PICK d \in Seq(Sendable) :
        /\ y.queued = x.queued \o d
        /\ \/ y.sending = x.sending /\ y.writing = x.writing \o d
           \/ x.sending = <<>> /\ y.sending = x.writing \o d /\ y.writing = <<>>
  BY DEF Moved
<1>2. /\ x.sending \in Seq(Sendable) /\ x.writing \in Seq(Sendable)
      /\ x.queued \in Seq(Sendable) /\ y.sending \in Seq(Sendable)
  BY DEF Typed, Connection
<1>3. IsPrefix(s, y.queued)
  BY <1>1, <1>2, PrefixGrows
<1>4. n \in 0 .. Len(y.sending)
  <2>1. Len(x.sending) \in Nat /\ Len(y.sending) \in Nat
    BY <1>2
  <2>2. CASE y.sending = x.sending
    BY <2>2
  <2>3. CASE x.sending = <<>>
    <3>1. n = 0
      BY <2>3
    <3> QED
      BY <2>1, <3>1
  <2> QED
    BY <1>1, <2>2, <2>3
<1>5. RestOf(x, n) \in Seq(Sendable)
  BY RestIsSequence
<1>6. RestOf(y, n) = RestOf(x, n) \o d
  <2>1. CASE y.sending = x.sending /\ y.writing = x.writing \o d
    <3>1. SubSeq(x.sending, n + 1, Len(x.sending)) \in Seq(Sendable)
      BY RestIsSequence
    <3> DEFINE r == SubSeq(x.sending, n + 1, Len(x.sending))
               w == x.writing
    <3>2. RestOf(y, n) = r \o (w \o d) /\ RestOf(x, n) = r \o w
      BY <2>1 DEF RestOf
    <3>3. r \in Seq(Sendable) /\ w \in Seq(Sendable)
      BY <1>2, <3>1
    <3> HIDE DEF r, w
    <3> QED
      BY <3>2, <3>3, ConcatAssociative
  <2>2. CASE x.sending = <<>> /\ y.sending = x.writing \o d /\ y.writing = <<>>
    <3> DEFINE w == x.writing \o d
    <3>1. n = 0 /\ w \in Seq(Sendable)
      BY <1>2, <2>2, ConcatProperties
    <3>2. SubSeq(x.sending, 1, Len(x.sending)) = <<>>
      BY <2>2, SubSeqEmpty
    <3>3. RestOf(x, n) = x.writing
      <4>1. n + 1 = 1
        BY <3>1
      <4>2. RestOf(x, n) = <<>> \o x.writing
        BY <3>2, <4>1 DEF RestOf
      <4> QED
        BY <1>2, <4>2, ConcatEmptySeq
    <3>4. RestOf(y, n) = SubSeq(w, 1, Len(w)) \o <<>>
      BY <2>2, <3>1 DEF RestOf
    <3> HIDE DEF w
    <3>5. RestOf(y, n) = w
      BY <3>1, <3>4, SubSeqFull, ConcatEmptySeq
    <3> QED
      BY <3>3, <3>5 DEF w
  <2> QED
    BY <1>1, <2>1, <2>2
<1>7. ASSUME x.queued = s \o RestOf(x, n)
      PROVE  y.queued = s \o RestOf(y, n)
  BY <1>1, <1>5, <1>6, <1>7, ConcatAssociative
<1> QED
  BY <1>3, <1>4, <1>7

(* A buffer taken by the network was the next.                             *)
LEMMA TakenKeepsOrder ==
  ASSUME NEW x, Typed(x), NEW n \in 0 .. Len(x.sending) - 1, NEW s \in Seq(Sendable),
         x.queued = s \o RestOf(x, n)
  PROVE  /\ Append(s, x.sending[n + 1]) \in Seq(Sendable)
         /\ IsPrefix(Append(s, x.sending[n + 1]), x.queued)
         /\ x.queued = Append(s, x.sending[n + 1]) \o RestOf(x, n + 1)
<1> DEFINE b == x.sending
           e == b[n + 1]
           r == SubSeq(b, n + 2, Len(b))
           w == x.writing
<1>1. b \in Seq(Sendable) /\ w \in Seq(Sendable) /\ Len(b) \in Nat /\ n \in 0 .. Len(b) - 1
  BY DEF Typed, Connection
<1>2. RestOf(x, n + 1) = r \o w
  <2>1. (n + 1) + 1 = n + 2
    BY <1>1
  <2> QED
    BY <2>1 DEF RestOf
<1>3. RestOf(x, n) = SubSeq(b, n + 1, Len(b)) \o w
  BY DEF RestOf
<1>4. RestOf(x, n + 1) \in Seq(Sendable) /\ r \in Seq(Sendable)
  <2>1. n + 1 \in 0 .. Len(x.sending) /\ (n + 1) + 1 = n + 2
    BY <1>1
  <2> QED
    BY <2>1, RestIsSequence
<1> HIDE DEF b, w
<1>5. e \in Sendable
  BY <1>1
<1>6. SubSeq(b, n + 1, Len(b)) = <<e>> \o r
  <2>1. n + 1 \in 1 .. Len(b) /\ Len(b) \in (n + 1) .. Len(b) /\ (n + 1) + 1 = n + 2
    BY <1>1
  <2>2. SubSeq(b, n + 1, Len(b)) = <<b[n + 1]>> \o SubSeq(b, (n + 1) + 1, Len(b))
    BY <1>1, <2>1, SubSeqRecursiveFirst
  <2> QED
    BY <2>1, <2>2
<1> HIDE DEF e, r
<1>7. <<e>> \in Seq(Sendable) /\ Append(s, e) = s \o <<e>> /\ Append(s, e) \in Seq(Sendable)
  BY <1>5, AppendIsConcat
<1>8. RestOf(x, n) = <<e>> \o (r \o w)
  <2>1. RestOf(x, n) = (<<e>> \o r) \o w
    BY <1>3, <1>6
  <2>2. (<<e>> \o r) \o w = <<e>> \o (r \o w)
    <3>1. <<e>> \in Seq(Sendable) /\ r \in Seq(Sendable) /\ w \in Seq(Sendable)
      BY <1>1, <1>4, <1>7
    <3> QED
      BY <3>1, ConcatAssociative
  <2> QED
    BY <2>1, <2>2
<1>9. x.queued = Append(s, e) \o RestOf(x, n + 1)
  <2> DEFINE t == r \o w
  <2>1. t \in Seq(Sendable)
    BY <1>2, <1>4
  <2>2. x.queued = s \o (<<e>> \o t)
    BY <1>8
  <2>3. RestOf(x, n + 1) = t
    BY <1>2
  <2> HIDE DEF t
  <2> QED
    BY <1>7, <2>1, <2>2, <2>3, ConcatAssociative
<1>10. IsPrefix(Append(s, e), x.queued)
  BY <1>4, <1>7, <1>9, PrefixOfConcat
<1> QED
  BY <1>7, <1>9, <1>10 DEF e, b

-----------------------------------------------------------------------------
(* Types and order hold at the start ...                                   *)
LEMMA InitTraffic == Init => Traffic /\ Order
<1> SUFFICES ASSUME Init PROVE Traffic /\ Order
  OBVIOUS
<1> DEFINE x == [New EXCEPT !.writing = <<Handshake>>, !.queued = <<Handshake>>]
           y == do_write(x)
           z == Hear(y, [on |-> "open"])
<1>1. <<Handshake>> \in Seq(Sendable) /\ <<Handshake>> # <<>>
  <2>1. Handshake \in Sendable
    BY DEF Sendable
  <2> QED
    BY <2>1
<1>2. /\ Typed(x) /\ x.sending = <<>> /\ x.writing = <<Handshake>>
      /\ x.queued = <<Handshake>>
  <2>1. New \in Connection
    <3>1. <<0, 0>> \in [1 .. 2 -> Byte] /\ <<0, 0, 0, 0>> \in [1 .. 4 -> Byte]
      BY DEF Byte
    <3>2. "MiniHeader" \in Reading /\ <<>> \in Data
      BY DEF Reading, Data
    <3> QED
      BY <3>1, <3>2 DEF New, Connection
  <2>2. x \in Connection
    BY <1>1, <2>1 DEF Connection
  <2> QED
    BY <2>1, <2>2 DEF New, Typed
<1>3. c = do_read(z)
  BY DEF Init
<1> HIDE DEF x
<1>4. /\ Typed(y) /\ y.queued = <<Handshake>>
      /\ y.sending = <<Handshake>> /\ y.writing = <<>>
  BY <1>1, <1>2, DoWriteTyped
<1> HIDE DEF y
<1>5. Typed(z) /\ Same(y, z)
  <2>1. [on |-> "open"] \in Call
    BY DEF Call
  <2> QED
    BY <1>4, <2>1, HearTyped
<1> HIDE DEF z
<1>6. Typed(c) /\ Same(y, c)
  BY <1>3, <1>5, DoReadTyped, SameSame
<1>7. /\ c.queued = <<Handshake>> /\ c.sending = <<Handshake>> /\ c.writing = <<>>
  BY <1>4, <1>6 DEF Same
<1>8. Traffic
  <2>1. script \in Seq(Frame) /\ replies \in Seq(Nat)
    BY ScriptsType, BoundsType DEF Init
  <2>2. /\ posted = <<>> /\ inbound = <<>> /\ past = <<>> /\ sent = <<>>
        /\ gone = FALSE /\ tears = 0
    BY DEF Init
  <2> QED
    <3>1. 0 \in 0 .. Len(<<Handshake>>)
      OBVIOUS
    <3>2. taken \in 0 .. Len(c.sending)
      BY <1>7, <3>1 DEF Init
    <3> QED
      BY <1>6, <2>1, <2>2, <3>2, EmptySeq DEF Traffic
<1>9. Order
  <2> DEFINE h == <<Handshake>>
  <2>1. Rest = SubSeq(h, 1, Len(h)) \o <<>>
    <3>1. taken + 1 = 1
      BY DEF Init
    <3> QED
      BY <1>7, <3>1 DEF Rest
  <2>2. h \in Seq(Sendable)
    BY <1>1
  <2>3. c.queued = h /\ sent = <<>>
    BY <1>7 DEF Init
  <2> HIDE DEF h
  <2>4. Rest = h
    BY <2>1, <2>2, SubSeqFull, ConcatEmptySeq
  <2>5. <<>> \o h = h /\ <<>> \in Seq(Sendable)
    BY <2>2, ConcatEmptySeq
  <2>6. IsPrefix(<<>>, <<>> \o h)
    BY <2>2, <2>5, PrefixOfConcat
  <2> QED
    BY <2>3, <2>4, <2>5, <2>6 DEF Order
<1> QED
  BY <1>8, <1>9

(* A step that queues at most, and leaves the network alone.               *)
LEMMA MovedTraffic ==
  ASSUME Traffic, Order, Typed(c'), Moved(c, c'),
         UNCHANGED <<taken, sent, script, past, replies>>,
         gone' \in BOOLEAN, gone => gone', tears' \in Nat,
         posted' \in Seq(Sendable), inbound' \in Seq(Byte)
  PROVE  Traffic' /\ Order'
<1>1. /\ taken \in 0 .. Len(c'.sending)
      /\ IsPrefix(sent, c'.queued)
      /\ c.queued = sent \o RestOf(c, taken) => c'.queued = sent \o RestOf(c', taken)
  BY MovedKeepsOrder DEF Traffic, Order
<1>2. c'.open => c.open
  BY DEF Moved
<1>3. Rest = RestOf(c, taken) /\ Rest' = RestOf(c', taken)
  BY DEF Rest, RestOf
<1>4. Traffic'
  BY <1>1 DEF Traffic
<1>5. Order'
  BY <1>1, <1>2, <1>3 DEF Order
<1> QED
  BY <1>4, <1>5

(* A completed write starts the next one.                                  *)
LEMMA WrittenTraffic ==
  ASSUME Traffic, Order, NEW ok \in BOOLEAN, c' = Written(c, ok), taken' = 0,
         UNCHANGED <<posted, inbound, script, gone, replies, past, tears, sent>>,
         taken = Len(c.sending) \/ gone \/ ~c.open
  PROVE  Traffic' /\ Order'
<1>1. /\ Typed(c')
      /\ c'.open => c.open
      /\ c'.queued = c.queued
      /\ \/ c'.sending = c.writing /\ c'.writing = <<>>
         \/ c'.sending = <<>> /\ c'.writing = c.writing
  BY WrittenTyped DEF Traffic
<1>2. /\ c.sending \in Seq(Sendable) /\ c.writing \in Seq(Sendable)
      /\ c'.sending \in Seq(Sendable)
  BY <1>1 DEF Traffic, Typed, Connection
<1>3. Traffic'
  <2>1. 0 \in 0 .. Len(c'.sending)
    BY <1>2
  <2> QED
    BY <1>1, <2>1 DEF Traffic
<1>4. Rest' = c.writing
  <2> DEFINE w == c.writing
  <2>1. w \in Seq(Sendable)
    BY <1>2
  <2>2. Rest' = SubSeq(c'.sending, 1, Len(c'.sending)) \o c'.writing
    BY DEF Rest
  <2>3. CASE c'.sending = c.writing /\ c'.writing = <<>>
    <3>1. Rest' = SubSeq(w, 1, Len(w)) \o <<>>
      BY <2>2, <2>3
    <3> HIDE DEF w
    <3>2. Rest' = w
      BY <2>1, <3>1, SubSeqFull, ConcatEmptySeq
    <3> QED
      BY <3>2 DEF w
  <2>4. CASE c'.sending = <<>> /\ c'.writing = c.writing
    <3>1. SubSeq(<<>>, 1, 0) = <<>>
      BY SubSeqEmpty
    <3>2. Rest' = <<>> \o w
      BY <2>2, <2>4, <3>1
    <3> HIDE DEF w
    <3>3. Rest' = w
      BY <2>1, <3>2, ConcatEmptySeq
    <3> QED
      BY <3>3 DEF w
  <2> QED
    BY <1>1, <2>3, <2>4
<1>5. ASSUME taken = Len(c.sending)
      PROVE  Rest = c.writing
  <2>1. taken + 1 > Len(c.sending) /\ taken + 1 \in Int /\ Len(c.sending) \in Int
    BY <1>2, <1>5
  <2>2. SubSeq(c.sending, taken + 1, Len(c.sending)) = <<>>
    BY <2>1, SubSeqEmpty
  <2> QED
    BY <1>2, <2>2, ConcatEmptySeq DEF Rest
<1>6. Order'
  BY <1>1, <1>4, <1>5 DEF Order
<1> QED
  BY <1>3, <1>6

(* What a read completes with: as many bytes as it may have.               *)
LEMMA AmountsRead ==
  Traffic => \A n \in Amounts : n <= Len(inbound) =>
               /\ SubSeq(inbound, 1, n) \in Seq(Byte)
               /\ Amount(c, Len(SubSeq(inbound, 1, n)))
               /\ SubSeq(inbound, n + 1, Len(inbound)) \in Seq(Byte)
<1> DEFINE Bytes(n) == SubSeq(inbound, 1, n)
<1> SUFFICES ASSUME Traffic, NEW n \in Amounts, n <= Len(inbound)
             PROVE  /\ Bytes(n) \in Seq(Byte) /\ Amount(c, Len(Bytes(n)))
                    /\ SubSeq(inbound, n + 1, Len(inbound)) \in Seq(Byte)
  OBVIOUS
<1>1. n \in Nat /\ Amount(c, n)
  <2>1. c.remaining \in Nat
    BY DEF Traffic, Typed, Connection
  <2>2. CASE c.readOp = "MiniHeader"
    BY <2>2 DEF Amounts, Amount, Reading
  <2>3. CASE c.readOp \in {"Len16", "Len64", "Mask"}
    BY <2>3 DEF Amounts, Amount, Reading
  <2>4. CASE c.readOp = "Payload"
    <3>1. n \in IF c.remaining = 0 THEN {0}
                ELSE {m \in 1 .. BufferSize : m <= c.remaining}
      BY <2>4 DEF Amounts
    <3>2. n \in 0 .. c.remaining
      BY <2>1, <3>1, BoundsType
    <3> QED
      BY <2>4, <3>2 DEF Amount, Reading
  <2>5. c.readOp \in {"MiniHeader", "Len16", "Len64", "Mask", "Payload"}
    BY DEF Amounts
  <2> QED
    BY <2>2, <2>3, <2>4, <2>5
<1>2. /\ inbound \in Seq(Byte) /\ Len(inbound) \in Nat
      /\ \A i \in 1 .. Len(inbound) : inbound[i] \in Byte
  BY DEF Traffic
<1>3. Bytes(n) \in Seq(Byte) /\ Len(Bytes(n)) = n
  <2>1. \A i \in 1 .. n : inbound[i] \in Byte
    BY <1>1, <1>2
  <2>2. Bytes(n) \in Seq(Byte) /\ Len(Bytes(n)) = IF 1 <= n THEN n - 1 + 1 ELSE 0
    BY <1>1, <2>1, SubSeqProperties
  <2> QED
    BY <1>1, <2>2
<1>4. SubSeq(inbound, n + 1, Len(inbound)) \in Seq(Byte)
  <2>1. \A i \in n + 1 .. Len(inbound) : inbound[i] \in Byte
    BY <1>1, <1>2
  <2>2. n + 1 \in Int /\ Len(inbound) \in Int
    BY <1>1, <1>2
  <2> QED
    BY <2>1, <2>2, SubSeqProperties
<1> QED
  BY <1>1, <1>3, <1>4

(* ... and after each step.                                                *)
LEMMA NextTraffic == Traffic /\ Order /\ [Next]_vars => Traffic' /\ Order'
<1> SUFFICES ASSUME Traffic, Order, [Next]_vars
             PROVE  Traffic' /\ Order'
  OBVIOUS
<1>1. Same(c, c)
  BY DEF Same
<1>2. Moved(c, c)
  BY <1>1, SameIsMoved DEF Traffic
<1>3. CASE ClientSends
  <2>1. /\ inbound' = inbound \o Encoded(Head(script))
        /\ past' = Append(past, Head(script)) /\ script' = Tail(script)
        /\ script # <<>>
        /\ UNCHANGED <<c, posted, taken, gone, replies, tears, sent>>
    BY <1>3 DEF ClientSends
  <2>2. Head(script) \in Frame /\ Tail(script) \in Seq(Frame)
    BY <2>1, HeadTailProperties DEF Traffic
  <2>3. Encoded(Head(script)) \in Seq(Byte)
    BY <2>2, EncodedBytes
  <2>4. inbound' \in Seq(Byte)
    BY <2>1, <2>3, ByteConcat DEF Traffic
  <2>5. past' \in Seq(Frame)
    BY <2>1, <2>2 DEF Traffic
  <2>6. Traffic'
    BY <2>1, <2>2, <2>4, <2>5 DEF Traffic
  <2>7. Order'
    BY <2>1 DEF Order, Rest
  <2> QED
    BY <2>6, <2>7
<1>4. CASE ClientVanishes
  BY <1>2, <1>4, MovedTraffic DEF ClientVanishes, Traffic
<1>5. CASE Post
  <2>1. /\ posted' = Append(posted, Buffers(1, Head(replies)))
        /\ replies' = Tail(replies) /\ replies # <<>>
        /\ UNCHANGED <<c, taken, inbound, script, gone, past, tears, sent>>
    BY <1>5 DEF Post
  <2>2. Head(replies) \in Nat /\ Tail(replies) \in Seq(Nat)
    BY <2>1, HeadTailProperties DEF Traffic
  <2>3. Buffers(1, Head(replies)) \in Sendable
    BY <2>2 DEF Sendable
  <2>4. posted' \in Seq(Sendable)
    BY <2>1, <2>3 DEF Traffic
  <2>5. Traffic'
    BY <2>1, <2>2, <2>4 DEF Traffic
  <2>6. Order'
    BY <2>1 DEF Order, Rest
  <2> QED
    BY <2>5, <2>6
<1>6. CASE Transmit
  <2>1. /\ c.open /\ ~gone /\ taken < Len(c.sending) /\ taken' = taken + 1
        /\ sent' = Append(sent, c.sending[taken + 1])
        /\ UNCHANGED <<c, posted, inbound, script, gone, replies, past, tears>>
    BY <1>6 DEF Transmit
  <2>2. Len(c.sending) \in Nat
    BY DEF Traffic, Typed, Connection
  <2>3. taken \in 0 .. Len(c.sending) - 1 /\ taken' \in 0 .. Len(c.sending)
    BY <2>1, <2>2 DEF Traffic
  <2>4. c.queued = sent \o RestOf(c, taken)
    BY <2>1 DEF Order, Rest, RestOf
  <2>5. /\ sent' \in Seq(Sendable)
        /\ IsPrefix(sent', c.queued)
        /\ c.queued = sent' \o RestOf(c, taken')
    BY <2>1, <2>3, <2>4, TakenKeepsOrder DEF Traffic
  <2>6. Rest' = RestOf(c, taken')
    BY <2>1 DEF Rest, RestOf
  <2> QED
    BY <2>1, <2>3, <2>5, <2>6 DEF Traffic, Order
<1>7. CASE ReadDone
  <2> DEFINE Bytes(n) == SubSeq(inbound, 1, n)
  <2>1. \E n \in Amounts :
          /\ n <= Len(inbound)
          /\ c' = Completed(c, Bytes(n))
          /\ posted' = posted \o PostedBy(c, Bytes(n))
          /\ inbound' = SubSeq(inbound, n + 1, Len(inbound))
    BY <1>7 DEF ReadDone
  <2>2. UNCHANGED <<taken, script, gone, replies, past, sent>>
    BY <1>7 DEF ReadDone
  <2>3. \A n \in Amounts : n <= Len(inbound) =>
          /\ Bytes(n) \in Seq(Byte) /\ Amount(c, Len(Bytes(n)))
          /\ SubSeq(inbound, n + 1, Len(inbound)) \in Seq(Byte)
    BY AmountsRead
  <2>4. ASSUME NEW bytes \in Seq(Byte)
        PROVE  PostedBy(c, bytes) \in Seq(Sendable)
    <3> DEFINE x == [c EXCEPT !.fragment = @ \o bytes]
    <3>1. Typed(c)
      BY DEF Traffic
    <3>2. Len(x.fragment) \in Nat
      <4>1. c.fragment \in Seq(Byte)
        BY <3>1 DEF Typed, Connection, Data
      <4>2. x.fragment = c.fragment \o bytes
        BY <3>1 DEF Typed, Connection
      <4> QED
        BY <4>1, <4>2, ByteConcat
    <3>3. Buffers(10, Len(x.fragment)) \in Sendable
      BY <3>2 DEF Sendable
    <3>4. Pongs(x) \in Seq(Sendable)
      BY <3>3 DEF Pongs
    <3> HIDE DEF x
    <3>5. PostedBy(c, bytes) = <<>> \/ PostedBy(c, bytes) = Pongs(x)
      BY DEF PostedBy, x
    <3>6. <<>> \in Seq(Sendable)
      OBVIOUS
    <3> QED
      BY <3>4, <3>5, <3>6
  <2>5. Typed(c') /\ Moved(c, c') /\ inbound' \in Seq(Byte) /\ posted' \in Seq(Sendable)
    <3>1. \A n \in Amounts : n <= Len(inbound) =>
            /\ Typed(Completed(c, Bytes(n))) /\ Moved(c, Completed(c, Bytes(n)))
            /\ posted \o PostedBy(c, Bytes(n)) \in Seq(Sendable)
            /\ SubSeq(inbound, n + 1, Len(inbound)) \in Seq(Byte)
      <4> SUFFICES ASSUME NEW n \in Amounts, n <= Len(inbound)
                   PROVE  /\ Typed(Completed(c, Bytes(n))) /\ Moved(c, Completed(c, Bytes(n)))
                          /\ posted \o PostedBy(c, Bytes(n)) \in Seq(Sendable)
                          /\ SubSeq(inbound, n + 1, Len(inbound)) \in Seq(Byte)
        OBVIOUS
      <4>1. /\ Bytes(n) \in Seq(Byte) /\ Amount(c, Len(Bytes(n)))
            /\ SubSeq(inbound, n + 1, Len(inbound)) \in Seq(Byte)
        BY <2>3
      <4> HIDE DEF Bytes
      <4>2. PostedBy(c, Bytes(n)) \in Seq(Sendable)
        BY <2>4, <4>1
      <4>3. posted \o PostedBy(c, Bytes(n)) \in Seq(Sendable)
        BY <4>2, ConcatProperties DEF Traffic
      <4>4. Typed(Completed(c, Bytes(n))) /\ Moved(c, Completed(c, Bytes(n)))
        BY <4>1, CompletedTyped DEF Traffic
      <4> QED
        BY <4>1, <4>3, <4>4
    <3> HIDE DEF Bytes
    <3> QED
      BY <2>1, <3>1
  <2>6. tears' \in Nat
    BY <1>7 DEF ReadDone, Traffic
  <2> QED
    BY <2>2, <2>5, <2>6, MovedTraffic DEF Traffic
<1>8. CASE ReadError
  <2>1. c' = ReadFailed(c)
    BY <1>8 DEF ReadError
  <2>2. Typed(c') /\ Same(c, c')
    BY <2>1, ReadFailedTyped DEF Traffic
  <2>3. Moved(c, c')
    BY <2>2, SameIsMoved DEF Traffic
  <2> QED
    BY <1>8, <2>2, <2>3, MovedTraffic DEF ReadError, Traffic
<1>9. CASE WriteDone
  BY <1>9, WrittenTraffic DEF WriteDone
<1>10. CASE WriteError
  BY <1>10, WrittenTraffic DEF WriteError
<1>11. CASE RunPosted
  <2>1. /\ posted # <<>> /\ posted' = Tail(posted)
        /\ c' = IF c.alive THEN Enqueue(c, Head(posted)) ELSE c
        /\ UNCHANGED <<taken, inbound, script, gone, replies, past, tears, sent>>
    BY <1>11 DEF RunPosted
  <2>2. Head(posted) \in Sendable /\ Tail(posted) \in Seq(Sendable)
    BY <2>1, HeadTailProperties DEF Traffic
  <2>3. Typed(Enqueue(c, Head(posted))) /\ Moved(c, Enqueue(c, Head(posted)))
    BY <2>2, EnqueueTyped DEF Traffic
  <2>4. Typed(c') /\ Moved(c, c')
    BY <1>2, <2>1, <2>3 DEF Traffic
  <2> QED
    BY <2>1, <2>2, <2>4, MovedTraffic DEF Traffic
<1>12. CASE UNCHANGED vars
  BY <1>2, <1>12, MovedTraffic DEF vars, Traffic
<1> QED
  BY <1>3, <1>4, <1>5, <1>6, <1>7, <1>8, <1>9, <1>10, <1>11, <1>12
  DEF Next, IoThread

-----------------------------------------------------------------------------
(* Every field of the connection and every queue keeps its type, and       *)
(* do_write() has a write outstanding exactly while sending_buffers_ is    *)
(* not empty.                                                              *)
THEOREM ConnectionIsTyped == Spec => []TypeOK
<1> QED
  BY InitTraffic, NextTraffic, TrafficTypes, PTL DEF Spec

(* Through write_buffers_ and sending_buffers_, swapped while writes are   *)
(* in flight, the client gets what was queued, in the order it was queued. *)
THEOREM NothingOvertakes == Spec => []RepliesInOrder
<1>1. Order => RepliesInOrder
  BY DEF Order, RepliesInOrder
<1> QED
  BY <1>1, InitTraffic, NextTraffic, PTL DEF Spec

-----------------------------------------------------------------------------
(* A number is what division leaves of it.                                 *)
LEMMA Divided == \A n \in Nat : n \div 256 \in Nat /\ (n \div 256) * 256 + (n % 256) = n
  OBVIOUS

(* The eight bytes of a long length, read again.                           *)
LEMMA LongIsRead ==
  ASSUME NEW n \in Nat, NEW b, \A i \in 1 .. 8 : b[i] = LongBytes(n)[i]
  PROVE  Long(b) = n
<1> DEFINE b1 == n \div 256   b2 == b1 \div 256  b3 == b2 \div 256
           b4 == b3 \div 256  b5 == b4 \div 256  b6 == b5 \div 256
           b7 == b6 \div 256
<1>1. LongBytes(n) = <<b7, b6 % 256, b5 % 256, b4 % 256, b3 % 256,
                       b2 % 256, b1 % 256, n % 256>>
  BY DEF LongBytes
<1>2. b1 \in Nat /\ b1 * 256 + (n % 256) = n
  BY Divided
<1> HIDE DEF b1
<1>3. b2 \in Nat /\ b2 * 256 + (b1 % 256) = b1
  BY <1>2, Divided
<1> HIDE DEF b2
<1>4. b3 \in Nat /\ b3 * 256 + (b2 % 256) = b2
  BY <1>3, Divided
<1> HIDE DEF b3
<1>5. b4 \in Nat /\ b4 * 256 + (b3 % 256) = b3
  BY <1>4, Divided
<1> HIDE DEF b4
<1>6. b5 \in Nat /\ b5 * 256 + (b4 % 256) = b4
  BY <1>5, Divided
<1> HIDE DEF b5
<1>7. b6 \in Nat /\ b6 * 256 + (b5 % 256) = b5
  BY <1>6, Divided
<1> HIDE DEF b6
<1>8. b7 \in Nat /\ b7 * 256 + (b6 % 256) = b6
  BY <1>7, Divided
<1> HIDE DEF b7
<1>9. /\ b[1] = b7 /\ b[2] = b6 % 256 /\ b[3] = b5 % 256 /\ b[4] = b4 % 256
      /\ b[5] = b3 % 256 /\ b[6] = b2 % 256 /\ b[7] = b1 % 256 /\ b[8] = n % 256
  <2> DEFINE l == LongBytes(n)
  <2>1. /\ l[1] = b7 /\ l[2] = b6 % 256 /\ l[3] = b5 % 256 /\ l[4] = b4 % 256
        /\ l[5] = b3 % 256 /\ l[6] = b2 % 256 /\ l[7] = b1 % 256 /\ l[8] = n % 256
    BY <1>1
  <2>2. \A i \in 1 .. 8 : b[i] = l[i]
    OBVIOUS
  <2> HIDE DEF l
  <2>3. /\ b[1] = l[1] /\ b[2] = l[2] /\ b[3] = l[3] /\ b[4] = l[4]
        /\ b[5] = l[5] /\ b[6] = l[6] /\ b[7] = l[7] /\ b[8] = l[8]
    BY <2>2
  <2> QED
    BY <2>1, <2>3
<1>10. Long(b) = ((((((b7 * 256 + (b6 % 256)) * 256 + (b5 % 256)) * 256 + (b4 % 256)) * 256
                    + (b3 % 256)) * 256 + (b2 % 256)) * 256 + (b1 % 256)) * 256 + (n % 256)
  BY <1>9 DEF Long
<1>11. Long(b) = (((((b6 * 256 + (b5 % 256)) * 256 + (b4 % 256)) * 256
                    + (b3 % 256)) * 256 + (b2 % 256)) * 256 + (b1 % 256)) * 256 + (n % 256)
  BY <1>8, <1>10
<1>12. Long(b) = (((b4 * 256 + (b3 % 256)) * 256 + (b2 % 256)) * 256 + (b1 % 256)) * 256 + (n % 256)
  BY <1>6, <1>7, <1>11
<1>13. Long(b) = (b2 * 256 + (b1 % 256)) * 256 + (n % 256)
  BY <1>4, <1>5, <1>12
<1> QED
  BY <1>2, <1>3, <1>13

(* A header has the length of its payload behind the first byte.           *)
LEMMA HeaderIsRead ==
  ASSUME NEW op \in 0 .. 15, NEW size \in Nat
  PROVE  SizeIn(build_header(op, size)) = size
<1> DEFINE l == LengthBytes(size)
           h == build_header(op, size)
<1>1. h = <<128 + op>> \o l
  BY DEF build_header
<1>2. ASSUME l \in Seq(Nat)
      PROVE  /\ Len(h) = Len(l) + 1
             /\ \A i \in 1 .. Len(l) : h[i + 1] = l[i]
             /\ \A i \in 2 .. Len(l) + 1 : h[i] = l[i - 1]
  <2> DEFINE f == <<128 + op>>
  <2>1. f \in Seq(Nat) /\ Len(f) = 1 /\ Len(l) \in Nat
    BY <1>2
  <2> HIDE DEF f
  <2>2. /\ Len(f \o l) = 1 + Len(l)
        /\ \A i \in 1 .. 1 + Len(l) :
             (f \o l)[i] = IF i <= 1 THEN f[i] ELSE l[i - 1]
    <3> HIDE DEF l
    <3>1. /\ Len(f \o l) = Len(f) + Len(l)
          /\ \A i \in 1 .. Len(f) + Len(l) :
               (f \o l)[i] = IF i <= Len(f) THEN f[i] ELSE l[i - Len(f)]
      BY <1>2, <2>1, ConcatProperties
    <3> QED
      BY <2>1, <3>1
  <2>3. h = f \o l
    BY <1>1 DEF f
  <2> HIDE DEF h, l
  <2>4. \A i \in 2 .. Len(l) + 1 : h[i] = l[i - 1]
    BY <2>1, <2>2, <2>3
  <2>5. \A i \in 1 .. Len(l) : h[i + 1] = l[i]
    <3> TAKE i \in 1 .. Len(l)
    <3>1. i + 1 \in 2 .. Len(l) + 1 /\ (i + 1) - 1 = i
      BY <2>1
    <3> QED
      BY <2>4, <3>1
  <2> QED
    BY <2>1, <2>2, <2>3, <2>4, <2>5
<1>3. CASE size < 126
  <2>1. l = <<size>>
    BY <1>3 DEF LengthBytes
  <2>2. l \in Seq(Nat) /\ Len(l) = 1 /\ l[1] = size
    BY <2>1
  <2>3. h[2] = size
    BY <1>2, <2>2
  <2> QED
    BY <1>3, <2>3 DEF SizeIn
<1>4. CASE size >= 126 /\ size < 65536
  <2>1. l = <<126, size \div 256, size % 256>>
    BY <1>4 DEF LengthBytes
  <2>2. size \div 256 \in Nat /\ size % 256 \in Nat
    OBVIOUS
  <2>3. /\ l \in Seq(Nat) /\ Len(l) = 3
        /\ l[1] = 126 /\ l[2] = size \div 256 /\ l[3] = size % 256
    BY <2>1, <2>2
  <2>4. h[2] = 126 /\ h[3] = size \div 256 /\ h[4] = size % 256
    BY <1>2, <2>3
  <2>5. SubSeq(h, 3, 4)[1] = h[3] /\ SubSeq(h, 3, 4)[2] = h[4]
    <3>1. \A i \in 3 .. 4 : h[i] \in Nat
      BY <2>2, <2>4
    <3>2. \A i \in 1 .. 4 - 3 + 1 : SubSeq(h, 3, 4)[i] = h[3 + i - 1]
      <4> HIDE DEF h
      <4> QED
        BY <3>1, SubSeqProperties
    <3> QED
      BY <3>2
  <2>6. SizeIn(h) = Short(SubSeq(h, 3, 4))
    BY <2>4 DEF SizeIn
  <2>7. Short(SubSeq(h, 3, 4)) = (size \div 256) * 256 + (size % 256)
    BY <2>4, <2>5 DEF Short
  <2> QED
    BY <2>6, <2>7, Divided
<1>5. CASE size >= 65536
  <2> DEFINE b == LongBytes(size)
  <2>1. l = <<127>> \o b
    BY <1>5 DEF LengthBytes
  <2>2. b \in Seq(Nat) /\ Len(b) = 8
    BY LongBytesAreNumbers
  <2>3. <<127>> \in Seq(Nat) /\ Len(<<127>>) = 1
    OBVIOUS
  <2> HIDE DEF b, h
  <2>4. /\ l \in Seq(Nat) /\ Len(l) = 1 + 8
        /\ \A i \in 1 .. 9 : l[i] = IF i <= 1 THEN <<127>>[i] ELSE b[i - 1]
    <3> HIDE DEF l
    <3>1. /\ <<127>> \o b \in Seq(Nat)
          /\ Len(<<127>> \o b) = Len(<<127>>) + Len(b)
          /\ \A i \in 1 .. Len(<<127>>) + Len(b) :
               (<<127>> \o b)[i] = IF i <= Len(<<127>>) THEN <<127>>[i]
                                   ELSE b[i - Len(<<127>>)]
      BY <2>2, <2>3, ConcatProperties
    <3>2. Len(<<127>>) + Len(b) = 9
      BY <2>2, <2>3
    <3> QED
      BY <2>1, <2>3, <3>1, <3>2
  <2>5. l[1] = 127 /\ \A i \in 1 .. 8 : l[i + 1] = b[i]
    <3> HIDE DEF l
    <3> QED
      BY <2>4
  <2>6. h[2] = 127 /\ \A i \in 3 .. 10 : h[i] = b[i - 2]
    <3>1. /\ \A i \in 1 .. 9 : h[i + 1] = l[i]
          /\ \A i \in 2 .. 10 : h[i] = l[i - 1]
      BY <1>2, <2>4
    <3> HIDE DEF l
    <3>2. h[2] = l[1]
      BY <3>1
    <3>3. ASSUME NEW i \in 3 .. 10
          PROVE  h[i] = b[i - 2]
      <4>1. h[i] = l[i - 1] /\ i - 2 \in 1 .. 8 /\ (i - 2) + 1 = i - 1
        BY <3>1
      <4> QED
        BY <2>5, <4>1
    <3> QED
      BY <2>5, <3>2, <3>3
  <2>7. \A i \in 1 .. 8 : SubSeq(h, 3, 10)[i] = b[i]
    <3>1. \A i \in 3 .. 10 : h[i] \in Nat
      <4> TAKE i \in 3 .. 10
      <4>1. i - 2 \in 1 .. Len(b)
        BY <2>2
      <4>2. b[i - 2] \in Nat
        BY <2>2, <4>1, ElementOfSeq
      <4> QED
        BY <2>6, <4>2
    <3>2. \A i \in 1 .. 10 - 3 + 1 : SubSeq(h, 3, 10)[i] = h[3 + i - 1]
      BY <3>1, SubSeqProperties
    <3> TAKE i \in 1 .. 8
    <3>3. 3 + i - 1 \in 3 .. 10 /\ (3 + i - 1) - 2 = i
      OBVIOUS
    <3> QED
      BY <2>6, <3>2, <3>3
  <2>8. Long(SubSeq(h, 3, 10)) = size
    BY <2>7, LongIsRead DEF b
  <2>9. SizeIn(h) = Long(SubSeq(h, 3, 10))
    BY <2>6 DEF SizeIn
  <2> QED
    BY <2>8, <2>9 DEF h
<1> QED
  BY <1>3, <1>4, <1>5

(* A client that reads a header as RFC 6455 has it finds the size of the   *)
(* payload behind it, whatever the size: build_header and ntohs, ntohl are *)
(* inverses at the borders between the three encodings too.                *)
THEOREM HeadersTellSizes == Spec => []SizesReadable
<1>1. Traffic => SizesReadable
  <2> SUFFICES ASSUME Traffic, NEW i \in DOMAIN sent, sent[i] # Handshake
               PROVE  SizeIn(sent[i].header) = sent[i].size
    BY DEF SizesReadable
  <2>1. sent[i] \in Sendable
    BY DEF Traffic
  <2>2. \E op \in 0 .. 15, size \in Nat : sent[i] = Buffers(op, size)
    BY <2>1 DEF Sendable
  <2>3. \A op \in 0 .. 15, size \in Nat :
          SizeIn(Buffers(op, size).header) = Buffers(op, size).size
    BY HeaderIsRead DEF Buffers
  <2> QED
    BY <2>2, <2>3
<1> QED
  BY <1>1, InitTraffic, NextTraffic, PTL DEF Spec

-----------------------------------------------------------------------------
(***************************************************************************)
(* The refinement of ConnectionLife.  close() sets has_sent_close_ and     *)
(* calls the close handler, has_recv_close_ being set, and no read is      *)
(* started after that (Signed); so a message is never the last thing       *)
(* jsonserver heard of an object that deletes itself.  A step calls one    *)
(* handler at most (Told).                                                 *)
(***************************************************************************)
Signed(x) ==
  /\ x.heard # <<>>
  /\ x.sentClose => x.closeCalled
  /\ x.closeCalled => /\ x.sentClose /\ x.recvClose
                      /\ x.readOp = None
                      /\ Last(x.heard).on = "close"

Told(x, y) ==
  \/ y.alive /\ y.heard = x.heard
  \/ y.alive /\ \E m \in Call : m.on = "message" /\ y.heard = Append(x.heard, m)
  \/ y.heard = Append(x.heard, [on |-> "close"])
  \/ ~y.alive /\ Last(x.heard).on = "close" /\ y.heard = x.heard

(* No handler is called, nothing is closed.                                *)
Like(x, y) == /\ y.alive = x.alive /\ y.heard = x.heard
              /\ y.sentClose = x.sentClose /\ y.recvClose = x.recvClose
              /\ y.closeCalled = x.closeCalled /\ y.readOp = x.readOp

(* Neither side has sent a close that was handled.                         *)
Quiet(x) == x.alive /\ x.heard # <<>> /\ ~x.sentClose /\ ~x.closeCalled

(* The last call of a handler is the one that was appended.                *)
LEMMA LastHeard ==
  ASSUME NEW x, Typed(x), NEW call \in Call
  PROVE  /\ Append(x.heard, call) # <<>>
         /\ Last(Append(x.heard, call)) = call
         /\ Len(Append(x.heard, call)) = Len(x.heard) + 1
  BY DEF Typed, Connection, Last

(* onclose is a call.                                                      *)
LEMMA CloseIsCall == [on |-> "close"] \in Call
  BY DEF Call

(* Queueing calls no handler.                                              *)
LEMMA EnqueueLike ==
  ASSUME NEW x, NEW b, Typed(x)
  PROVE  Like(x, Enqueue(x, b))
  BY DEF Typed, Connection, Enqueue, do_write, Like

(* check_destroy() calls onclose unless close() did.                       *)
LEMMA CheckDestroyTold ==
  ASSUME NEW x, Typed(x), x.alive, x.closeCalled => Last(x.heard).on = "close"
  PROVE  LET y == check_destroy(x)
         IN  /\ Told(x, y) /\ (x.closeCalled => y.heard = x.heard)
             /\ ~x.closeCalled => y.heard = Append(x.heard, [on |-> "close"])
             /\ y.sentClose = x.sentClose /\ y.recvClose = x.recvClose
             /\ y.closeCalled = x.closeCalled /\ y.readOp = x.readOp
<1> DEFINE y == IF x.closeCalled THEN x ELSE CloseHeard(x)
           z == check_destroy(x)
<1>1. z = IF MayDelete(y) THEN [y EXCEPT !.alive = FALSE] ELSE y
  BY DEF check_destroy
<1>2. /\ Typed(y) /\ y.alive
      /\ y.heard = IF x.closeCalled THEN x.heard ELSE Append(x.heard, [on |-> "close"])
      /\ y.sentClose = x.sentClose /\ y.recvClose = x.recvClose
      /\ y.closeCalled = x.closeCalled /\ y.readOp = x.readOp
  <2>1. CASE x.closeCalled
    BY <2>1
  <2>2. CASE ~x.closeCalled
    <3>1. Typed(CloseHeard(x))
      BY CloseHeardTyped
    <3>2. y = [x EXCEPT !.heard = Append(@, [on |-> "close"])]
      BY <2>2 DEF CloseHeard, Hear
    <3>3. x \in Connection
      BY DEF Typed
    <3> QED
      BY <2>2, <3>1, <3>2, <3>3 DEF Connection
  <2> QED
    BY <2>1, <2>2
<1> HIDE DEF y, z
<1>3. /\ z.heard = y.heard
      /\ z.sentClose = y.sentClose /\ z.recvClose = y.recvClose
      /\ z.closeCalled = y.closeCalled /\ z.readOp = y.readOp
      /\ z.alive \in BOOLEAN
  <2>1. y \in Connection
    BY <1>2 DEF Typed
  <2> QED
    BY <1>1, <2>1 DEF Connection
<1> QED
  BY <1>2, <1>3 DEF Told, z

(* On an open connection do_read() calls no handler.                       *)
LEMMA DoReadQuiet ==
  ASSUME NEW x, Typed(x), Quiet(x)
  PROVE  Quiet(do_read(x)) /\ do_read(x).heard = x.heard
  BY DEF Typed, Connection, Quiet, do_read

(* A read of a connection that closes: it may be deleted at once.          *)
LEMMA DoReadClosed ==
  ASSUME NEW x, Typed(x), x.alive, Signed(x), x.closeCalled
  PROVE  Signed(do_read(x)) /\ do_read(x).heard = x.heard
<1> DEFINE y == Shut(x)
<1>1. do_read(x) = check_destroy(y)
  BY DEF do_read, Signed
<1>2. Typed(y) /\ Like(x, y)
  BY ShutTyped DEF Typed, Connection, Shut, Like
<1> HIDE DEF y
<1>3. y.alive /\ y.closeCalled /\ Last(y.heard).on = "close"
  BY <1>2 DEF Like, Signed
<1>4. /\ check_destroy(y).heard = y.heard
      /\ check_destroy(y).sentClose = y.sentClose
      /\ check_destroy(y).recvClose = y.recvClose
      /\ check_destroy(y).closeCalled = y.closeCalled
      /\ check_destroy(y).readOp = y.readOp
  BY <1>2, <1>3, CheckDestroyTold
<1> QED
  BY <1>1, <1>2, <1>4 DEF Like, Signed

(* The answer to a close frame, the first of the connection.               *)
LEMMA CloseFragmentTold ==
  ASSUME NEW x, Typed(x), Quiet(x), x.readOp = None
  PROVE  LET y == CloseFragment(x)
         IN  /\ y.alive /\ Signed(y) /\ y.closeCalled
             /\ y.heard = Append(x.heard, [on |-> "close"])
<1> DEFINE r == [x EXCEPT !.recvClose = TRUE]
           s == [r EXCEPT !.sentClose = TRUE]
           t == [s EXCEPT !.closeCalled = TRUE]
           z == CloseHeard(t)
           b == Buffers(8, Len(x.fragment))
           y == CloseFragment(x)
<1>1. x \in Connection /\ ~x.sentClose /\ ~x.closeCalled
  BY DEF Typed, Quiet
<1>2. /\ Typed(t) /\ t.alive /\ t.sentClose /\ t.recvClose /\ t.closeCalled
      /\ t.readOp = None /\ t.heard = x.heard
      /\ s.recvClose /\ ~s.closeCalled
  <2>1. /\ t \in Connection /\ t.writeOp = x.writeOp /\ t.sending = x.sending
    BY <1>1 DEF Connection
  <2>2. /\ t.alive /\ t.sentClose /\ t.recvClose /\ t.closeCalled
        /\ t.readOp = None /\ t.heard = x.heard
        /\ s.recvClose /\ ~s.closeCalled
    BY <1>1 DEF Connection, Quiet
  <2> QED
    BY <2>1, <2>2 DEF Typed
<1>3. y = Enqueue(z, b)
  BY <1>1, <1>2 DEF CloseFragment, close
<1> HIDE DEF t, s, r, b
<1>4. z = [t EXCEPT !.heard = Append(@, [on |-> "close"])]
  BY DEF CloseHeard, Hear
<1>5. Typed(z)
  BY <1>2, CloseHeardTyped
<1>6. /\ z.alive /\ z.sentClose /\ z.recvClose /\ z.closeCalled
      /\ z.readOp = None /\ z.heard = Append(x.heard, [on |-> "close"])
  BY <1>2, <1>4 DEF Typed, Connection
<1> HIDE DEF z
<1>7. Like(z, y)
  BY <1>3, <1>5, EnqueueLike
<1>8. /\ Append(x.heard, [on |-> "close"]) # <<>>
      /\ Last(Append(x.heard, [on |-> "close"])).on = "close"
  BY LastHeard, CloseIsCall
<1> HIDE DEF y
<1>9. /\ y.alive /\ Signed(y) /\ y.closeCalled
      /\ y.heard = Append(x.heard, [on |-> "close"])
  BY <1>6, <1>7, <1>8 DEF Like, Signed
<1> QED
  BY <1>9 DEF y

(* A data frame makes one message at most.                                 *)
LEMMA DataFragmentTold ==
  ASSUME NEW x, Typed(x), Quiet(x)
  PROVE  /\ Quiet(DataFragment(x))
         /\ Told(x, DataFragment(x))
<1> DEFINE y == [x EXCEPT !.isBinary = IF opcode(x) = 0 THEN @ ELSE opcode(x) = 2,
                          !.message = @ \o x.fragment]
           m == [on |-> "message", data |-> y.message, binary |-> y.isBinary]
           h == Hear(y, m)
<1>1. x.message \o x.fragment \in Data /\ x.isBinary \in BOOLEAN
  BY DEF Typed, Connection, Data
<1>2. Typed(y) /\ Quiet(y) /\ y.heard = x.heard
  BY <1>1 DEF Typed, Connection, Quiet
<1>3. \/ DataFragment(x) = y
      \/ DataFragment(x) = [y EXCEPT !.threw = TRUE]
      \/ DataFragment(x) = EndMessage(h)
  BY DEF DataFragment
<1> HIDE DEF y
<1>4. m \in Call /\ m.on = "message"
  <2>1. y.message \in Data /\ y.isBinary \in BOOLEAN
    BY <1>2 DEF Typed, Connection
  <2> QED
    BY <2>1 DEF Call
<1> HIDE DEF m
<1>5. Append(y.heard, m) # <<>>
  BY <1>2, <1>4, LastHeard
<1>6. Quiet(EndMessage(h)) /\ EndMessage(h).heard = Append(x.heard, m)
  BY <1>2, <1>5 DEF Typed, Connection, Quiet, EndMessage, Hear
<1>7. Quiet([y EXCEPT !.threw = TRUE]) /\ [y EXCEPT !.threw = TRUE].heard = x.heard
  BY <1>2 DEF Typed, Connection, Quiet
<1> HIDE DEF h
<1> QED
  BY <1>2, <1>3, <1>4, <1>6, <1>7 DEF Quiet, Told

(* An open connection has told all it should.                              *)
LEMMA QuietIsSigned == \A x : Quiet(x) => Signed(x)
  BY DEF Quiet, Signed

(* handle_fragment() makes one call at most, and none behind onclose,      *)
LEMMA HandleFragmentTold ==
  ASSUME NEW x, Typed(x), Quiet(x), x.readOp = None
  PROVE  Signed(handle_fragment(x)) /\ Told(x, handle_fragment(x))
<1> DEFINE y == [x EXCEPT !.fragment = Unmasked(x)]
           z == CASE opcode(y) \in {0, 1, 2} -> DataFragment(y)
                  [] opcode(y) = 8           -> CloseFragment(y)
                  [] OTHER                   -> y
           v == [EndFragment(z) EXCEPT !.state = "MiniHeader"]
           stops == z.threw \/ (x.sentClose /\ opcode(y) = 8)
<1>1. Typed(y) /\ Quiet(y) /\ y.readOp = None /\ y.heard = x.heard
  BY UnmaskedTyped DEF Typed, Connection, Data, Quiet
<1>2. handle_fragment(x) = IF stops THEN z ELSE do_read(v)
  BY DEF handle_fragment
<1> HIDE DEF y
<1>3. /\ Typed(z) /\ z.alive /\ Told(x, z)
      /\ \/ Quiet(z)
         \/ /\ Signed(z) /\ z.closeCalled
            /\ z.heard = Append(x.heard, [on |-> "close"])
  <2>1. CASE opcode(y) \in {0, 1, 2}
    <3>1. z = DataFragment(y)
      BY <2>1
    <3> HIDE DEF z
    <3>2. Typed(z) /\ Quiet(z) /\ Told(y, z)
      BY <1>1, <3>1, DataFragmentTyped, DataFragmentTold
    <3>3. Told(x, z)
      BY <1>1, <3>2 DEF Told
    <3>4. z.alive
      BY <3>2 DEF Quiet
    <3> QED
      BY <3>2, <3>3, <3>4
  <2>2. CASE opcode(y) = 8
    <3>1. z = CloseFragment(y)
      BY <2>2
    <3> HIDE DEF z
    <3>2. Typed(z)
      BY <1>1, <3>1, CloseFragmentTyped
    <3>3. /\ z.alive /\ Signed(z) /\ z.closeCalled
          /\ z.heard = Append(x.heard, [on |-> "close"])
      BY <1>1, <3>1, CloseFragmentTold
    <3> QED
      BY <3>2, <3>3 DEF Told
  <2>3. CASE opcode(y) \notin {0, 1, 2} /\ opcode(y) # 8
    <3>1. z = y
      BY <2>3
    <3> HIDE DEF z
    <3>2. z.alive
      BY <1>1, <3>1 DEF Quiet
    <3>3. Told(x, z)
      BY <1>1, <3>1, <3>2 DEF Told
    <3> QED
      BY <1>1, <3>1, <3>2, <3>3
  <2> QED
    BY <2>1, <2>2, <2>3
<1> HIDE DEF z
<1>4. Typed(v) /\ Like(z, v)
  <2>1. <<>> \in Data /\ "MiniHeader" \in Reading
    BY DEF Data, Reading
  <2> QED
    BY <1>3, <2>1 DEF Typed, Connection, Like, EndFragment
<1> HIDE DEF v
<1>5. Signed(do_read(v)) /\ Told(x, do_read(v))
  <2>1. CASE Quiet(z)
    <3>1. Quiet(v) /\ v.heard = z.heard
      BY <1>4, <2>1 DEF Like, Quiet
    <3>2. Quiet(do_read(v)) /\ do_read(v).heard = z.heard
      BY <1>4, <3>1, DoReadQuiet
    <3>3. Told(x, do_read(v))
      BY <1>3, <2>1, <3>2 DEF Told, Quiet
    <3> QED
      BY <3>2, <3>3, QuietIsSigned
  <2>2. CASE Signed(z) /\ z.closeCalled /\ z.heard = Append(x.heard, [on |-> "close"])
    <3>1. v.alive /\ Signed(v) /\ v.closeCalled /\ v.heard = z.heard
      BY <1>3, <1>4, <2>2 DEF Like, Signed
    <3>2. Signed(do_read(v)) /\ do_read(v).heard = z.heard
      BY <1>4, <3>1, DoReadClosed
    <3> QED
      BY <2>2, <3>2 DEF Told
  <2> QED
    BY <1>3, <2>1, <2>2
<1>6. Signed(z)
  BY <1>3, QuietIsSigned
<1> HIDE DEF stops
<1> QED
  BY <1>2, <1>3, <1>5, <1>6

(* A completed read finds a connection that has not closed.                *)
LEMMA CompletedTold ==
  ASSUME NEW x, NEW bytes \in Seq(Byte), Typed(x), Amount(x, Len(bytes)),
         x.alive, Signed(x)
  PROVE  Signed(Completed(x, bytes)) /\ Told(x, Completed(x, bytes))
<1>1. x.readOp # None
  BY NoneType DEF Amount
<1>2. Quiet(x)
  BY <1>1 DEF Quiet, Signed
<1>3. ASSUME NEW y, Typed(y), Quiet(y), y.heard = x.heard, Completed(x, bytes) = do_read(y)
      PROVE  Signed(Completed(x, bytes)) /\ Told(x, Completed(x, bytes))
  <2>1. Quiet(do_read(y)) /\ do_read(y).heard = x.heard
    BY <1>3, DoReadQuiet
  <2> QED
    BY <1>3, <2>1, QuietIsSigned DEF Told, Quiet
<1>4. CASE x.readOp = "MiniHeader"
  <2> DEFINE h == IF Len(bytes) = 2 THEN bytes ELSE <<bytes[1], 0>>
             n == h[2] % 128
             b == h[2] >= 128
             y == [x EXCEPT !.isReading = FALSE, !.readOp = None, !.header = h,
                            !.hasMask = b]
             z == CASE n = 127 -> [y EXCEPT !.state = "Len64"]
                    [] n = 126 -> [y EXCEPT !.state = "Len16"]
                    [] OTHER   -> [y EXCEPT !.state = "Mask", !.remaining = n]
  <2>1. Completed(x, bytes) = do_read(z)
    BY <1>4 DEF Completed, HeaderRead
  <2>2. h \in [1 .. 2 -> Byte] /\ n \in Nat /\ b \in BOOLEAN
    BY <1>4, HeaderPair DEF Amount
  <2> HIDE DEF h, n, b
  <2>3. Typed(y) /\ Quiet(y) /\ y.heard = x.heard
    BY <1>2, <2>2 DEF Typed, Connection, Quiet
  <2> HIDE DEF y
  <2>4. \/ z = [y EXCEPT !.state = "Len64"]
        \/ z = [y EXCEPT !.state = "Len16"]
        \/ z = [y EXCEPT !.state = "Mask", !.remaining = n]
    OBVIOUS
  <2> HIDE DEF z
  <2>5. {"Len64", "Len16", "Mask"} \subseteq Reading
    BY DEF Reading
  <2>6. Typed(z) /\ z.heard = y.heard /\ z.alive = y.alive
        /\ z.sentClose = y.sentClose /\ z.closeCalled = y.closeCalled
    <3>1. y \in Connection
      BY <2>3 DEF Typed
    <3>2. CASE z = [y EXCEPT !.state = "Len64"]
      BY <2>3, <2>5, <3>1, <3>2 DEF Typed, Connection
    <3>3. CASE z = [y EXCEPT !.state = "Len16"]
      BY <2>3, <2>5, <3>1, <3>3 DEF Typed, Connection
    <3>4. CASE z = [y EXCEPT !.state = "Mask", !.remaining = n]
      BY <2>2, <2>3, <2>5, <3>1, <3>4 DEF Typed, Connection
    <3> QED
      BY <2>4, <3>2, <3>3, <3>4
  <2>7. Quiet(z) /\ z.heard = x.heard
    BY <2>3, <2>6 DEF Quiet
  <2> QED
    BY <1>3, <2>1, <2>6, <2>7
<1>5. CASE x.readOp \in {"Len16", "Len64"}
  <2> DEFINE k == IF x.readOp = "Len16" THEN Short(bytes) ELSE Long(bytes)
             y == [x EXCEPT !.isReading = FALSE, !.readOp = None, !.state = "Mask",
                            !.remaining = k]
  <2>1. Completed(x, bytes) = do_read(y)
    BY <1>5 DEF Completed, LengthRead
  <2>2. k \in Nat
    BY <1>5, Numbers DEF Amount
  <2>3. "Mask" \in Reading
    BY DEF Reading
  <2> HIDE DEF k
  <2>4. Typed(y) /\ Quiet(y) /\ y.heard = x.heard
    BY <1>2, <2>2, <2>3 DEF Typed, Connection, Quiet
  <2> HIDE DEF y
  <2> QED
    BY <1>3, <2>1, <2>4
<1>6. CASE x.readOp = "Mask"
  <2> DEFINE y == [x EXCEPT !.isReading = FALSE, !.readOp = None, !.mask = bytes,
                            !.state = "Payload"]
  <2>1. Completed(x, bytes) = do_read(y)
    BY <1>6 DEF Completed, MaskRead
  <2>2. bytes \in [1 .. 4 -> Byte]
    <3>1. Len(bytes) = 4
      BY <1>6 DEF Amount
    <3> QED
      BY <3>1
  <2>3. "Payload" \in Reading
    BY DEF Reading
  <2>4. Typed(y) /\ Quiet(y) /\ y.heard = x.heard
    BY <1>2, <2>2, <2>3 DEF Typed, Connection, Quiet
  <2> HIDE DEF y
  <2> QED
    BY <1>3, <2>1, <2>4
<1>7. CASE x.readOp = "Payload"
  <2> DEFINE y == [x EXCEPT !.isReading = FALSE, !.readOp = None,
                            !.fragment = @ \o bytes, !.remaining = @ - Len(bytes)]
  <2>1. Completed(x, bytes) = IF y.remaining = 0 THEN handle_fragment(y) ELSE do_read(y)
    BY <1>7 DEF Completed, PayloadRead
  <2>2. x.remaining - Len(bytes) \in Nat
    BY <1>7 DEF Amount, Typed, Connection
  <2>3. x.fragment \o bytes \in Data
    BY DEF Data, Typed, Connection
  <2>4. Typed(y) /\ Quiet(y) /\ y.heard = x.heard /\ y.readOp = None
    BY <1>2, <2>2, <2>3 DEF Typed, Connection, Quiet
  <2> HIDE DEF y
  <2>5. Signed(handle_fragment(y)) /\ Told(x, handle_fragment(y))
    BY <2>4, HandleFragmentTold DEF Told
  <2> QED
    BY <1>3, <2>1, <2>4, <2>5
<1> QED
  BY <1>4, <1>5, <1>6, <1>7 DEF Amount, Reading

(* so does a read that fails,                                              *)
LEMMA ReadFailedTold ==
  ASSUME NEW x, Typed(x), x.alive, Signed(x), x.readOp # None
  PROVE  Signed(ReadFailed(x)) /\ Told(x, ReadFailed(x))
<1> DEFINE r == [x EXCEPT !.isReading = FALSE, !.readOp = None]
           y == Shut(r)
<1>1. Typed(y) /\ Quiet(y) /\ y.heard = x.heard
  BY DEF Typed, Connection, Quiet, Signed, Shut
<1>2. ReadFailed(x) = check_destroy(y)
  BY DEF ReadFailed
<1> HIDE DEF y
<1>3. /\ check_destroy(y).heard = Append(x.heard, [on |-> "close"])
      /\ check_destroy(y).sentClose = y.sentClose
      /\ check_destroy(y).closeCalled = y.closeCalled
  BY <1>1, CheckDestroyTold DEF Quiet
<1>4. Append(x.heard, [on |-> "close"]) # <<>>
  BY LastHeard, CloseIsCall
<1> QED
  BY <1>1, <1>2, <1>3, <1>4 DEF Quiet, Signed, Told

(* and the completion of a write.                                          *)
LEMMA WrittenTold ==
  ASSUME NEW x, NEW ok, Typed(x), x.alive, Signed(x)
  PROVE  Signed(Written(x, ok)) /\ Told(x, Written(x, ok))
<1> DEFINE y == [x EXCEPT !.sending = <<>>, !.writeOp = FALSE]
           z == IF y.writing = <<>> THEN y ELSE do_write(y)
           w == [y EXCEPT !.closeConnection = TRUE]
           v == [z EXCEPT !.closeConnection = x.sentClose]
<1>1. Typed(y) /\ Like(x, y)
  <2>1. x \in Connection /\ <<>> \in Seq(Sendable)
    BY DEF Typed
  <2>2. y \in Connection
    BY <2>1 DEF Connection
  <2> QED
    BY <2>1, <2>2 DEF Typed, Connection, Like
<1>2. Written(x, ok) = IF ok /\ ~x.closeConnection THEN v ELSE check_destroy(w)
  BY DEF Written
<1>3. y.sending = <<>>
  BY DEF Typed, Connection
<1> HIDE DEF y
<1>4. Typed(z) /\ Like(x, z)
  <2>1. CASE y.writing = <<>>
    BY <1>1, <2>1
  <2>2. CASE y.writing # <<>>
    <3>1. do_write(y) = [y EXCEPT !.sending = y.writing, !.writing = <<>>, !.writeOp = TRUE]
      BY <1>3 DEF do_write
    <3>2. Like(y, do_write(y))
      BY <1>1, <3>1 DEF Typed, Connection, Like
    <3>3. Typed(do_write(y))
      BY <1>1, <1>3, <2>2, DoWriteTyped
    <3> QED
      BY <1>1, <2>2, <3>2, <3>3 DEF Like
  <2> QED
    BY <2>1, <2>2
<1>5. Typed(w) /\ Like(x, w)
  BY <1>1 DEF Typed, Connection, Like
<1> HIDE DEF z, w
<1>6. Like(x, v)
  BY <1>4 DEF Typed, Connection, Like
<1> HIDE DEF v
<1>7. Signed(v) /\ Told(x, v)
  BY <1>6 DEF Like, Signed, Told
<1>8. Signed(check_destroy(w)) /\ Told(x, check_destroy(w))
  <2>1. w.alive /\ (w.closeCalled => Last(w.heard).on = "close")
    BY <1>5 DEF Like, Signed
  <2> DEFINE d == check_destroy(w)
  <2>2. /\ Told(w, d) /\ (w.closeCalled => d.heard = w.heard)
        /\ ~w.closeCalled => d.heard = Append(w.heard, [on |-> "close"])
        /\ d.sentClose = w.sentClose /\ d.recvClose = w.recvClose
        /\ d.closeCalled = w.closeCalled /\ d.readOp = w.readOp
    BY <1>5, <2>1, CheckDestroyTold
  <2>3. Append(w.heard, [on |-> "close"]) # <<>>
    BY <1>5, LastHeard, CloseIsCall
  <2> HIDE DEF d
  <2>4. Signed(d) /\ Told(x, d)
    BY <1>5, <2>2, <2>3 DEF Like, Signed, Told
  <2> QED
    BY <2>4 DEF d
<1> QED
  BY <1>2, <1>7, <1>8

(* The objects a step may touch are alive, and have not closed if a read   *)
(* is outstanding.                                                         *)
LInv == IInv /\ Traffic /\ Order /\ Signed(c)

(* At the start onopen has been called.                                    *)
LEMMA InitSigned == Init => Signed(c) /\ c.alive /\ c.heard = <<[on |-> "open"]>>
<1> SUFFICES ASSUME Init PROVE Signed(c) /\ c.alive /\ c.heard = <<[on |-> "open"]>>
  OBVIOUS
<1>1. c = do_read(Hear(do_write([New EXCEPT !.writing = <<Handshake>>,
                                            !.queued = <<Handshake>>]),
                       [on |-> "open"]))
  BY DEF Init
<1>2. /\ c.alive /\ ~c.sentClose /\ ~c.closeCalled /\ c.heard = <<[on |-> "open"]>>
  BY <1>1 DEF do_read, Hear, do_write, New
<1> QED
  BY <1>2 DEF Signed

(* What a step does to the connection jsonserver knows of.                 *)
LEMMA NextTold == LInv /\ [Next]_vars => Signed(c)' /\ (c' = c \/ (c.alive /\ Told(c, c')))
<1> SUFFICES ASSUME LInv, [Next]_vars
             PROVE  Signed(c)' /\ (c' = c \/ (c.alive /\ Told(c, c')))
  OBVIOUS
<1>1. /\ Typed(c) /\ Signed(c)
      /\ c.readOp # None => c.alive
      /\ c.writeOp => c.alive
  BY DEF LInv, Traffic, IInv, Unhurt
<1>2. CASE UNCHANGED c
  BY <1>1, <1>2
<1>3. CASE ReadDone
  <2>1. /\ c.readOp # None
        /\ \E n \in Amounts : n <= Len(inbound) /\ c' = Completed(c, SubSeq(inbound, 1, n))
    BY <1>3 DEF ReadDone
  <2>2. \A n \in Amounts : n <= Len(inbound) =>
          /\ SubSeq(inbound, 1, n) \in Seq(Byte)
          /\ Amount(c, Len(SubSeq(inbound, 1, n)))
    BY AmountsRead DEF LInv
  <2>3. \A n \in Amounts : n <= Len(inbound) =>
          /\ Signed(Completed(c, SubSeq(inbound, 1, n)))
          /\ Told(c, Completed(c, SubSeq(inbound, 1, n)))
    BY <1>1, <2>1, <2>2, CompletedTold
  <2> QED
    BY <1>1, <2>1, <2>3
<1>4. CASE ReadError
  BY <1>1, <1>4, ReadFailedTold DEF ReadError
<1>5. CASE WriteDone
  BY <1>1, <1>5, WrittenTold DEF WriteDone
<1>6. CASE WriteError
  BY <1>1, <1>6, WrittenTold DEF WriteError
<1>7. CASE RunPosted
  <2>1. c' = IF c.alive THEN Enqueue(c, Head(posted)) ELSE c
    BY <1>7 DEF RunPosted
  <2>2. Like(c, Enqueue(c, Head(posted)))
    BY <1>1, EnqueueLike
  <2>3. CASE c.alive
    <3>1. Like(c, c')
      BY <2>1, <2>2, <2>3
    <3> QED
      BY <1>1, <2>3, <3>1 DEF Like, Signed, Told
  <2>4. CASE ~c.alive
    BY <1>1, <2>1, <2>4
  <2> QED
    BY <2>3, <2>4
<1> QED
  BY <1>2, <1>3, <1>4, <1>5, <1>6, <1>7
  DEF Next, IoThread, ClientSends, ClientVanishes, Post, Transmit, vars

(* The calls of the handlers as ConnectionLife has them.                   *)
LEMMA LifeStep ==
  LInv /\ Typed(c') /\ (c' = c \/ (c.alive /\ Told(c, c'))) => [Life!Next]_(Life!vars)
<1> SUFFICES ASSUME LInv, Typed(c'), c' = c \/ (c.alive /\ Told(c, c'))
             PROVE  [Life!Next]_(Life!vars)
  OBVIOUS
<1> DEFINE life == IF ~c.alive THEN "freed"
                   ELSE IF Last(c.heard).on = "close" THEN "closed" ELSE "live"
           calls == Len(c.heard)
<1>1. CASE c' = c
  BY <1>1 DEF Life!vars
<1>2. CASE c.alive /\ c'.alive /\ c'.heard = c.heard
  BY <1>2 DEF Life!vars
<1>3. CASE /\ c.alive /\ c'.alive
           /\ \E m \in Call : m.on = "message" /\ c'.heard = Append(c.heard, m)
  <2>1. Last(c'.heard).on = "message" /\ Len(c'.heard) = Len(c.heard) + 1
    BY <1>3, LastHeard DEF LInv, Traffic
  <2>2. life' = "live" /\ calls' = calls + 1 /\ life # "freed"
    BY <1>3, <2>1
  <2> QED
    BY <2>2 DEF Life!Next, Life!Message
<1>4. CASE c.alive /\ c'.heard = Append(c.heard, [on |-> "close"])
  <2>1. Last(c'.heard).on = "close" /\ Len(c'.heard) = Len(c.heard) + 1
    BY <1>4, LastHeard, CloseIsCall DEF LInv, Traffic
  <2>2. life' \in {"closed", "freed"} /\ calls' = calls + 1 /\ life # "freed"
    BY <1>4, <2>1
  <2> QED
    BY <2>2 DEF Life!Next, Life!Close
<1>5. CASE c.alive /\ ~c'.alive /\ Last(c.heard).on = "close" /\ c'.heard = c.heard
  <2>1. life = "closed" /\ life' = "freed" /\ calls' = calls
    BY <1>5
  <2> QED
    BY <2>1 DEF Life!Next, Life!Free
<1> QED
  BY <1>1, <1>2, <1>3, <1>4, <1>5 DEF Told

(* So it is the start of a life.                                           *)
LEMMA LifeInit == Init => Life!Init
<1> SUFFICES ASSUME Init PROVE Life!Init
  OBVIOUS
<1>1. c.alive /\ c.heard = <<[on |-> "open"]>>
  BY InitSigned
<1>2. Last(c.heard).on = "open" /\ Len(c.heard) = 1
  BY <1>1 DEF Last
<1> QED
  BY <1>1, <1>2 DEF Life!Init

(* The invariants together hold always.                                    *)
LEMMA LInvHolds == Spec => []LInv
<1>1. Init => LInv
  BY InitUnhurt, InitTraffic, InitSigned DEF LInv
<1>2. LInv /\ [Next]_vars => LInv'
  BY NextUnhurt, NextTraffic, NextTold DEF LInv
<1> QED
  BY <1>1, <1>2, PTL DEF Spec

(* To jsonserver, which keeps a connection's address from onopen to        *)
(* onclose, the websocket is what ConnectionLife says: no handler is       *)
(* called for a deleted object, one at a time, and the last call before    *)
(* the deletion is onclose.                                                *)
THEOREM WebSocketIsALife == Spec => LifeSpec
<1>1. LInv /\ LInv' /\ [Next]_vars => [Life!Next]_(Life!vars)
  BY NextTold, LifeStep DEF LInv, Traffic
<1> QED
  BY <1>1, LifeInit, LInvHolds, PTL DEF Spec, LifeSpec, Life!Spec

-----------------------------------------------------------------------------
(***************************************************************************)
(* What the client said.  Account(s)[k] is what k of the frames say: the   *)
(* part of a message that is not over yet, its kind, and the messages.     *)
(***************************************************************************)
Accounts == [data : Data, binary : BOOLEAN, messages : Seq(Call)]

Accounted(t, s) == /\ t \in [0 .. Len(s) -> Accounts]
                   /\ t[0] = Silence
                   /\ \A i \in 1 .. Len(s) : t[i] = Saying(t[i - 1], s[i])

(* A frame leaves the messages as they are or adds one.                    *)
LEMMA SayingTyped ==
  ASSUME NEW a \in Accounts, NEW f \in Frame
  PROVE  /\ Saying(a, f) \in Accounts
         /\ IsPrefix(a.messages, Saying(a, f).messages)
<1> DEFINE data   == a.data \o f.data
           binary == IF f.op = 0 THEN a.binary ELSE f.op = 2
           call   == [on |-> "message", data |-> data, binary |-> binary]
<1>1. /\ a.data \in Seq(Byte) /\ a.binary \in BOOLEAN /\ a.messages \in Seq(Call)
      /\ f.data \in Seq(Byte) /\ f.fin \in BOOLEAN /\ f.op \in 0 .. 15
  BY DEF Accounts, Frame, Data
<1>2. data \in Data /\ binary \in BOOLEAN
  BY <1>1, ByteConcat DEF Data
<1>3. Saying(a, f) = IF f.op > 2 THEN a
                     ELSE [data     |-> IF f.fin THEN <<>> ELSE data,
                           binary   |-> binary,
                           messages |-> IF f.fin THEN Append(a.messages, call) ELSE a.messages]
  BY DEF Saying
<1>4. call \in Call
  BY <1>2 DEF Call
<1> HIDE DEF data, binary, call
<1>5. /\ Append(a.messages, call) \in Seq(Call)
      /\ Append(a.messages, call) = a.messages \o <<call>> /\ <<call>> \in Seq(Call)
  BY <1>1, <1>4, AppendProperties, AppendIsConcat
<1>6. IsPrefix(a.messages, Append(a.messages, call))
  BY <1>1, <1>5, PrefixOfConcat
<1>7. IsPrefix(a.messages, a.messages)
  <2>1. a.messages \o <<>> = a.messages /\ <<>> \in Seq(Call)
    BY <1>1, ConcatEmptySeq
  <2> QED BY <1>1, <2>1, PrefixOfConcat
<1>8. <<>> \in Data
  BY DEF Data
<1>9. CASE f.op > 2
  BY <1>3, <1>7, <1>9
<1>10. CASE ~(f.op > 2)
  <2>1. /\ Saying(a, f) \in Accounts
        /\ Saying(a, f).messages = IF f.fin THEN Append(a.messages, call) ELSE a.messages
    BY <1>1, <1>2, <1>3, <1>5, <1>8, <1>10 DEF Accounts
  <2> QED BY <1>1, <1>6, <1>7, <2>1
<1> QED
  BY <1>9, <1>10

(* Before the first frame nothing has been said.                           *)
LEMMA SilenceTyped == Silence \in Accounts
<1>1. <<>> \in Data /\ <<>> \in Seq(Call) /\ FALSE \in BOOLEAN
  BY DEF Data
<1> QED
  BY <1>1 DEF Silence, Accounts

(* The account of the frames exists, and has the types it should.          *)
LEMMA AccountIs ==
  ASSUME NEW s \in Seq(Frame)
  PROVE  Accounted(Account(s), s)
<1> DEFINE N == Len(s)
           F == [p \in Accounts \X (1 .. N) |-> Saying(p[1], s[p[2]])]
           G == [i \in 0 .. N |-> Accounts]
           Is(t) == t = [n \in 0 .. N |-> IF n = 0 THEN Silence ELSE Saying(t[n - 1], s[n])]
           account == CHOOSE t : Is(t)
<1>0. N \in Nat /\ (\A i \in 1 .. N : s[i] \in Frame /\ i - 1 \in 0 .. N) /\ 0 \in 0 .. N
  OBVIOUS
<1>1. ASSUME NEW i \in 1 .. N, NEW a \in Accounts
      PROVE  F[<<a, i>>] = Saying(a, s[i]) /\ F[<<a, i>>] \in Accounts
  <2>1. F[<<a, i>>] = Saying(a, s[i])
    OBVIOUS
  <2> QED BY <2>1, <1>0, SayingTyped
<1>2. PICK t \in [0 .. N -> Accounts] : Iterated(t, N, Silence, F)
  <2>1. G \in [0 .. N -> SUBSET Accounts] /\ \A i \in 0 .. N : G[i] = Accounts
    OBVIOUS
  <2> HIDE DEF F, N, G
  <2>2. Silence \in G[0]
    BY <1>0, <2>1, SilenceTyped
  <2>3. \A i \in 1 .. N : \A a \in G[i - 1] : F[<<a, i>>] \in G[i]
    <3> TAKE i \in 1 .. N
    <3>1. i \in 0 .. N /\ i - 1 \in 0 .. N BY <1>0
    <3> QED BY <1>1, <2>1, <3>1
  <2> QED BY <1>0, <2>1, <2>2, <2>3, IterationExists
<1>3. Is(t)
  <2>1. \A i \in 1 .. N : t[i] = Saying(t[i - 1], s[i])
    <3> HIDE DEF F, N
    <3> TAKE i \in 1 .. N
    <3>1. t[i - 1] \in Accounts BY <1>0, <1>2
    <3> QED BY <1>1, <1>2, <3>1 DEF Iterated
  <2>2. t[0] = Silence
    BY <1>2 DEF Iterated
  <2> QED BY <1>0, <1>2, <2>1, <2>2
<1>4. Is(account)
  <2> HIDE DEF Is
  <2> QED BY <1>3
<1>5. /\ DOMAIN account = 0 .. N /\ account[0] = Silence
      /\ \A i \in 1 .. N : account[i] = Saying(account[i - 1], s[i])
  <2> HIDE DEF account
  <2> QED BY <1>0, <1>4
<1>6. 0 .. N \subseteq {i \in 0 .. N : account[i] \in Accounts}
  <2> DEFINE P == {i \in 0 .. N : account[i] \in Accounts}
  <2> HIDE DEF account, F
  <2>1. 0 \in P
    BY <1>0, <1>5, SilenceTyped
  <2>2. ASSUME NEW i \in 1 .. N, i - 1 \in P PROVE i \in P
    <3>1. account[i - 1] \in Accounts /\ s[i] \in Frame /\ i \in 0 .. N
      BY <1>0, <2>2
    <3>2. Saying(account[i - 1], s[i]) \in Accounts
      BY <3>1, SayingTyped
    <3> QED BY <1>5, <3>1, <3>2
  <2> HIDE DEF P
  <2>3. 0 .. N \subseteq P
    BY <1>0, <2>1, <2>2, InductionTo
  <2> QED BY <2>3 DEF P
<1>7. account = [i \in 0 .. N |-> account[i]]
  <2> HIDE DEF account
  <2> QED BY <1>4
<1>8. account \in [0 .. N -> Accounts]
  <2> HIDE DEF account
  <2> QED BY <1>6, <1>7
<1>9. Account(s) = account
  BY DEF Account
<1> QED
  <2> HIDE DEF account
  <2> QED BY <1>5, <1>8, <1>9 DEF Accounted

(* What frames say does not change when more follow.                       *)
LEMMA AccountGrows ==
  ASSUME NEW s \in Seq(Frame), NEW f \in Frame
  PROVE  \A i \in 0 .. Len(s) : Account(Append(s, f))[i] = Account(s)[i]
<1> DEFINE P == {i \in 0 .. Len(s) : Account(Append(s, f))[i] = Account(s)[i]}
<1>1. /\ Append(s, f) \in Seq(Frame) /\ Len(Append(s, f)) = Len(s) + 1 /\ Len(s) \in Nat
      /\ \A i \in 1 .. Len(s) : Append(s, f)[i] = s[i]
  BY AppendProperties
<1>2. Accounted(Account(s), s) /\ Accounted(Account(Append(s, f)), Append(s, f))
  BY <1>1, AccountIs
<1>3. 0 \in P
  BY <1>1, <1>2 DEF Accounted
<1>4. ASSUME NEW i \in 1 .. Len(s), i - 1 \in P PROVE i \in P
  <2>1. i \in 1 .. Len(Append(s, f))
    BY <1>1
  <2> QED BY <1>1, <1>2, <1>4, <2>1 DEF Accounted
<1> HIDE DEF P
<1>5. 0 .. Len(s) \subseteq P
  BY <1>1, <1>3, <1>4, InductionTo
<1> QED
  BY <1>5 DEF P

(* A prefix of a prefix is one of the whole.                               *)
LEMMA PrefixOfPrefix ==
  ASSUME NEW S, NEW s \in Seq(S), NEW t \in Seq(S), NEW u \in Seq(S),
         IsPrefix(s, t), IsPrefix(t, u)
  PROVE  IsPrefix(s, u)
<1>1. Len(s) \in Nat /\ Len(t) \in Nat /\ Len(u) \in Nat
  OBVIOUS
<1> QED
  BY <1>1 DEF IsPrefix

(* The messages of the first frames are the first of the messages.         *)
LEMMA SaidSoFar ==
  ASSUME NEW s \in Seq(Frame), NEW k \in 0 .. Len(s)
  PROVE  IsPrefix(Account(s)[k].messages, Said(s))
<1> DEFINE m == [i \in 0 .. Len(s) |-> Account(s)[i].messages]
           P == {i \in 0 .. Len(s) : k <= i => IsPrefix(m[k], m[i])}
<1>1. Accounted(Account(s), s) /\ Len(s) \in Nat
  BY AccountIs
<1>2. \A i \in 0 .. Len(s) : m[i] \in Seq(Call)
  BY <1>1 DEF Accounted, Accounts
<1>3. \A i \in 1 .. Len(s) : IsPrefix(m[i - 1], m[i])
  <2> TAKE i \in 1 .. Len(s)
  <2>1. i - 1 \in 0 .. Len(s) /\ i \in 0 .. Len(s) /\ s[i] \in Frame
    BY <1>1
  <2>2. Account(s)[i - 1] \in Accounts /\ Account(s)[i] = Saying(Account(s)[i - 1], s[i])
    BY <1>1, <2>1 DEF Accounted
  <2>3. IsPrefix(Account(s)[i - 1].messages, Account(s)[i].messages)
    BY <2>1, <2>2, SayingTyped
  <2> QED BY <2>1, <2>3
<1> HIDE DEF m
<1>4. IsPrefix(m[k], m[k])
  <2>1. m[k] \o <<>> = m[k] /\ <<>> \in Seq(Call) /\ m[k] \in Seq(Call)
    BY <1>2, ConcatEmptySeq
  <2> QED BY <2>1, PrefixOfConcat
<1>5. 0 \in P
  <2>1. 0 \in 0 .. Len(s) /\ (k <= 0 => k = 0)
    BY <1>1
  <2> QED BY <1>4, <2>1
<1>6. ASSUME NEW i \in 1 .. Len(s), i - 1 \in P PROVE i \in P
  <2>0. i \in 0 .. Len(s) /\ i - 1 \in 0 .. Len(s)
    BY <1>1
  <2>1. CASE k <= i - 1
    <3>1. IsPrefix(m[k], m[i - 1])
      BY <1>6, <2>1
    <3> QED BY <1>2, <1>3, <2>0, <3>1, PrefixOfPrefix
  <2>2. CASE k = i
    BY <1>4, <2>0, <2>2
  <2>3. CASE ~(k <= i)
    BY <2>0, <2>3
  <2>4. k <= i - 1 \/ k = i \/ ~(k <= i)
    BY <1>1, <2>0
  <2> QED BY <2>1, <2>2, <2>3, <2>4
<1> HIDE DEF P
<1>7. 0 .. Len(s) \subseteq P
  BY <1>1, <1>5, <1>6, InductionTo
<1>8. Len(s) \in P
  BY <1>1, <1>7
<1>9. IsPrefix(m[k], m[Len(s)])
  BY <1>1, <1>8 DEF P
<1> QED
  BY <1>1, <1>9 DEF m, Said

-----------------------------------------------------------------------------
(***************************************************************************)
(* What jsonserver was given: a call of the message handler adds a         *)
(* message, any other call none.                                           *)
(***************************************************************************)
Chosen(m, call) == IF call.on = "message" THEN Append(m, call) ELSE m

Choosing(t, s) == /\ t \in [0 .. Len(s) -> Seq(Call)]
                  /\ t[0] = <<>>
                  /\ \A i \in 1 .. Len(s) : t[i] = Chosen(t[i - 1], s[i])

(* The messages among the calls are chosen one call after the other.       *)
LEMMA MessagesAre ==
  ASSUME NEW s \in Seq(Call)
  PROVE  \E t : Choosing(t, s) /\ MessagesOf(s) = t[Len(s)]
<1> DEFINE N == Len(s)
           M == Seq(Call)
           F == [p \in M \X (1 .. N) |-> Chosen(p[1], s[p[2]])]
           G == [i \in 0 .. N |-> M]
           Is(t) == t = [n \in 0 .. N |-> IF n = 0 THEN <<>>
                                          ELSE IF s[n].on = "message" THEN Append(t[n - 1], s[n])
                                          ELSE t[n - 1]]
           given == CHOOSE t : Is(t)
<1>0. N \in Nat /\ (\A i \in 1 .. N : s[i] \in Call /\ i - 1 \in 0 .. N) /\ 0 \in 0 .. N
  OBVIOUS
<1>t. /\ <<>> \in M
      /\ \A m \in M, call \in Call : Chosen(m, call) \in M
  BY AppendProperties DEF Chosen
<1>1. ASSUME NEW i \in 1 .. N, NEW m \in M
      PROVE  F[<<m, i>>] = Chosen(m, s[i]) /\ F[<<m, i>>] \in M
  <2>1. F[<<m, i>>] = Chosen(m, s[i])
    OBVIOUS
  <2> HIDE DEF F, M
  <2> QED BY <2>1, <1>0, <1>t
<1> HIDE DEF M
<1>2. PICK t \in [0 .. N -> M] : Iterated(t, N, <<>>, F)
  <2>1. G \in [0 .. N -> SUBSET M] /\ \A i \in 0 .. N : G[i] = M
    OBVIOUS
  <2> HIDE DEF F, N, G
  <2>2. <<>> \in G[0]
    BY <1>0, <2>1, <1>t
  <2>3. \A i \in 1 .. N : \A a \in G[i - 1] : F[<<a, i>>] \in G[i]
    <3> TAKE i \in 1 .. N
    <3>1. i \in 0 .. N /\ i - 1 \in 0 .. N BY <1>0
    <3> QED BY <1>1, <2>1, <3>1
  <2> QED BY <1>0, <2>1, <2>2, <2>3, IterationExists
<1>3. Is(t)
  <2>1. \A i \in 1 .. N : t[i] = Chosen(t[i - 1], s[i])
    <3> HIDE DEF F, N
    <3> TAKE i \in 1 .. N
    <3>1. t[i - 1] \in M BY <1>0, <1>2
    <3> QED BY <1>1, <1>2, <3>1 DEF Iterated
  <2>2. t[0] = <<>>
    BY <1>2 DEF Iterated
  <2>3. \A i \in 1 .. N : t[i] = IF s[i].on = "message" THEN Append(t[i - 1], s[i])
                                  ELSE t[i - 1]
    <3> HIDE DEF F, N
    <3> QED BY <2>1 DEF Chosen
  <2>4. t = [n \in 0 .. N |-> t[n]]
    BY <1>2
  <2>5. \A n \in 0 .. N : n # 0 => n \in 1 .. N
    BY <1>0
  <2> HIDE DEF F, N
  <2> QED BY <2>2, <2>3, <2>4, <2>5
<1>4. Is(given)
  <2> HIDE DEF Is
  <2> QED BY <1>3
<1>5. /\ given[0] = <<>>
      /\ \A i \in 1 .. N : given[i] = Chosen(given[i - 1], s[i])
  <2> HIDE DEF given, F
  <2>1. \A n \in 0 .. N : given[n] = IF n = 0 THEN <<>>
                                    ELSE IF s[n].on = "message" THEN Append(given[n - 1], s[n])
                                    ELSE given[n - 1]
    BY <1>4
  <2>2. \A n \in 1 .. N : n # 0 /\ n \in 0 .. N
    BY <1>0
  <2> HIDE DEF N, Is
  <2> QED BY <1>0, <2>1, <2>2 DEF Chosen
<1>6. 0 .. N \subseteq {i \in 0 .. N : given[i] \in M}
  <2> DEFINE P == {i \in 0 .. N : given[i] \in M}
  <2> HIDE DEF given, F
  <2>1. 0 \in P
    BY <1>0, <1>5, <1>t
  <2>2. ASSUME NEW i \in 1 .. N, i - 1 \in P PROVE i \in P
    BY <1>0, <1>5, <2>2, <1>t
  <2> HIDE DEF P
  <2>3. 0 .. N \subseteq P
    BY <1>0, <2>1, <2>2, InductionTo
  <2> QED BY <2>3 DEF P
<1>7. given = [i \in 0 .. N |-> given[i]]
  <2> HIDE DEF given
  <2> QED BY <1>4
<1>8. given \in [0 .. N -> M]
  <2> HIDE DEF given
  <2> QED BY <1>6, <1>7
<1>9. MessagesOf(s) = given[Len(s)]
  BY DEF MessagesOf
<1>10. Choosing(given, s)
  <2> HIDE DEF given
  <2> QED BY <1>5, <1>8 DEF Choosing, M
<1> HIDE DEF given
<1> QED
  BY <1>9, <1>10

(* One call more adds the message it is, or nothing.                       *)
LEMMA OneMoreCall ==
  ASSUME NEW s \in Seq(Call), NEW call \in Call
  PROVE  /\ MessagesOf(Append(s, call)) = Chosen(MessagesOf(s), call)
         /\ MessagesOf(s) \in Seq(Call)
<1> DEFINE u == Append(s, call)
<1>1. /\ u \in Seq(Call) /\ Len(u) = Len(s) + 1 /\ Len(s) \in Nat
      /\ u[Len(u)] = call /\ \A i \in 1 .. Len(s) : u[i] = s[i]
  BY AppendProperties
<1> HIDE DEF u
<1>2. PICK t : Choosing(t, s) /\ MessagesOf(s) = t[Len(s)]
  BY MessagesAre
<1>3. PICK v : Choosing(v, u) /\ MessagesOf(u) = v[Len(u)]
  BY <1>1, MessagesAre
<1> DEFINE P == {i \in 0 .. Len(s) : v[i] = t[i]}
<1>4. 0 \in P
  BY <1>1, <1>2, <1>3 DEF Choosing
<1>5. ASSUME NEW i \in 1 .. Len(s), i - 1 \in P PROVE i \in P
  <2>1. i \in 1 .. Len(u)
    BY <1>1
  <2> QED BY <1>1, <1>2, <1>3, <1>5, <2>1 DEF Choosing
<1> HIDE DEF P
<1>6. 0 .. Len(s) \subseteq P
  BY <1>1, <1>4, <1>5, InductionTo
<1>7. v[Len(s)] = t[Len(s)]
  BY <1>1, <1>6 DEF P
<1>8. v[Len(u)] = Chosen(v[Len(u) - 1], u[Len(u)]) /\ Len(u) - 1 = Len(s)
  BY <1>1, <1>3 DEF Choosing
<1>9. t[Len(s)] \in Seq(Call)
  BY <1>1, <1>2 DEF Choosing
<1> QED
  BY <1>1, <1>2, <1>3, <1>7, <1>8, <1>9 DEF u

(* Without a call there is no message.                                     *)
LEMMA NoCallNoMessage == MessagesOf(<<>>) = <<>>
<1>1. <<>> \in Seq(Call) /\ Len(<<>>) = 0
  OBVIOUS
<1>2. PICK t : Choosing(t, <<>>) /\ MessagesOf(<<>>) = t[0]
  BY <1>1, MessagesAre
<1> QED
  BY <1>2 DEF Choosing

-----------------------------------------------------------------------------
(* Bytes are put together in any order of brackets.                        *)
LEMMA BytesAssociate ==
  ASSUME NEW s \in Seq(Byte), NEW t \in Seq(Byte), NEW u \in Seq(Byte)
  PROVE  (s \o t) \o u = s \o (t \o u)
  BY ConcatAssociative

(* The same for the five parts of a frame with what follows it.            *)
LEMMA FiveParts ==
  ASSUME NEW h \in Seq(Byte), NEW z \in Seq(Byte), NEW k \in Seq(Byte), NEW m \in Seq(Byte),
         NEW r \in Seq(Byte)
  PROVE  (((h \o z) \o k) \o m) \o r = h \o (z \o (k \o (m \o r)))
<1>1. ASSUME NEW s \in Seq(Byte) PROVE ((s \o k) \o m) \o r = s \o (k \o (m \o r))
  <2>1. s \o k \in Seq(Byte)
    BY ByteConcat
  <2>2. m \o r \in Seq(Byte)
    BY ByteConcat
  <2>3. ASSUME NEW t \in Seq(Byte) PROVE (t \o m) \o r = t \o (m \o r)
    BY BytesAssociate
  <2>4. ASSUME NEW t \in Seq(Byte) PROVE (s \o k) \o t = s \o (k \o t)
    BY BytesAssociate
  <2> QED BY <2>1, <2>2, <2>3, <2>4
<1>2. h \o z \in Seq(Byte)
  BY ByteConcat
<1>3. ASSUME NEW t \in Seq(Byte) PROVE (h \o z) \o t = h \o (z \o t)
  BY BytesAssociate
<1>4. k \o (m \o r) \in Seq(Byte)
  <2>1. m \o r \in Seq(Byte)
    BY ByteConcat
  <2> QED BY <2>1, ByteConcat
<1> QED
  BY <1>1, <1>2, <1>3, <1>4

(* What stands behind the same bytes is the same if the whole is.          *)
LEMMA BytesCancel ==
  ASSUME NEW s \in Seq(Byte), NEW t \in Seq(Byte), NEW u \in Seq(Byte), s \o t = s \o u
  PROVE  t = u
<1> HIDE DEF Byte
<1>1. \A x, y, z \in Seq(Byte) : x \o y = x \o z => y = z
  BY ConcatSimplifications
<1> QED
  BY <1>1

-----------------------------------------------------------------------------
(***************************************************************************)
(* What is still to be read: the bytes of the frames after the k-th.       *)
(***************************************************************************)
Coming(s, k, b) ==
  \E later \in [k .. Len(s) -> Seq(Byte)] :
    /\ later[k] = b
    /\ later[Len(s)] = <<>>
    /\ \A i \in k .. Len(s) - 1 : later[i] = Encoded(s[i + 1]) \o later[i + 1]

(* If frames are still to come the bytes begin with the next of them.      *)
LEMMA ComingNext ==
  ASSUME NEW s \in Seq(Frame), NEW k \in 0 .. Len(s) - 1, NEW b, Coming(s, k, b)
  PROVE  \E rest \in Seq(Byte) : b = Encoded(s[k + 1]) \o rest /\ Coming(s, k + 1, rest)
<1>1. PICK later \in [k .. Len(s) -> Seq(Byte)] :
        /\ later[k] = b
        /\ later[Len(s)] = <<>>
        /\ \A i \in k .. Len(s) - 1 : later[i] = Encoded(s[i + 1]) \o later[i + 1]
  BY DEF Coming
<1>2. /\ Len(s) \in Nat /\ k \in k .. Len(s) - 1 /\ k + 1 \in k .. Len(s)
      /\ \A i \in k + 1 .. Len(s) : i \in k .. Len(s)
      /\ \A i \in k + 1 .. Len(s) - 1 : i \in k .. Len(s) - 1 /\ i + 1 \in k + 1 .. Len(s)
      /\ \A i \in k + 1 .. Len(s) - 1 : i \in k + 1 .. Len(s)
      /\ Len(s) \in k + 1 .. Len(s) /\ k + 1 \in k + 1 .. Len(s)
  OBVIOUS
<1> DEFINE after == [i \in k + 1 .. Len(s) |-> later[i]]
<1>3. after \in [k + 1 .. Len(s) -> Seq(Byte)]
  BY <1>2
<1>4. /\ after[k + 1] = later[k + 1] /\ after[Len(s)] = <<>>
      /\ \A i \in k + 1 .. Len(s) - 1 : after[i] = Encoded(s[i + 1]) \o after[i + 1]
  BY <1>1, <1>2
<1> HIDE DEF after
<1>5. Coming(s, k + 1, later[k + 1])
  BY <1>3, <1>4 DEF Coming
<1> QED
  BY <1>1, <1>2, <1>5

(* Behind the last frame there are no bytes.                               *)
LEMMA ComingLast ==
  ASSUME NEW s \in Seq(Frame), NEW b, Coming(s, Len(s), b)
  PROVE  b = <<>>
  BY DEF Coming

(* One frame more puts its bytes behind all others.                        *)
LEMMA ComingMore ==
  ASSUME NEW s \in Seq(Frame), NEW k \in 0 .. Len(s), NEW b, Coming(s, k, b),
         NEW f \in Frame
  PROVE  Coming(Append(s, f), k, b \o Encoded(f))
<1>1. PICK later \in [k .. Len(s) -> Seq(Byte)] :
        /\ later[k] = b
        /\ later[Len(s)] = <<>>
        /\ \A i \in k .. Len(s) - 1 : later[i] = Encoded(s[i + 1]) \o later[i + 1]
  BY DEF Coming
<1> DEFINE u == Append(s, f)
           n == Len(s)
           e == Encoded(f)
           after == [i \in k .. n + 1 |-> IF i = n + 1 THEN <<>> ELSE later[i] \o e]
<1>2. /\ u \in Seq(Frame) /\ Len(u) = n + 1 /\ n \in Nat /\ u[n + 1] = f
      /\ \A i \in 1 .. n : u[i] = s[i]
  BY AppendProperties
<1>3. e \in Seq(Byte)
  BY EncodedBytes
<1>4. /\ k \in Nat /\ k <= n /\ n + 1 \in k .. n + 1 /\ k \in k .. n + 1 /\ k # n + 1
      /\ \A i \in k .. n + 1 : i # n + 1 => i \in k .. n
      /\ \A i \in k .. n : /\ i \in k .. n + 1 /\ i + 1 \in k .. n + 1 /\ i # n + 1
                           /\ i # n => i \in k .. n - 1 /\ i + 1 \in 1 .. n /\ i + 1 # n + 1
                                       /\ i + 1 \in k .. n
  BY <1>2
<1> HIDE DEF u, n, e
<1>5. after \in [k .. n + 1 -> Seq(Byte)]
  <2>1. ASSUME NEW i \in k .. n + 1
        PROVE  (IF i = n + 1 THEN <<>> ELSE later[i] \o e) \in Seq(Byte)
    <3>1. CASE i = n + 1
      BY <3>1
    <3>2. CASE i # n + 1
      <4>1. later[i] \in Seq(Byte)
        BY <1>4, <3>2 DEF n
      <4> QED BY <1>3, <3>2, <4>1, ByteConcat
    <3> QED BY <3>1, <3>2
  <2> QED BY <2>1
<1>6. after[k] = b \o e /\ after[n + 1] = <<>>
  BY <1>1, <1>4
<1>7. ASSUME NEW i \in k .. n
      PROVE  after[i] = Encoded(u[i + 1]) \o after[i + 1]
  <2>1. after[i] = later[i] \o e
    BY <1>4
  <2>2. CASE i = n
    <3>1. later[i] = <<>> /\ after[i + 1] = <<>> /\ u[i + 1] = f
      BY <1>1, <1>2, <1>4, <2>2 DEF n
    <3>2. <<>> \o e = e /\ e \o <<>> = e
      BY <1>3, ConcatEmptySeq
    <3> QED BY <2>1, <3>1, <3>2 DEF e
  <2>3. CASE i # n
    <3>1. i \in k .. n - 1 /\ i + 1 \in 1 .. n /\ i + 1 # n + 1 /\ i + 1 \in k .. n /\ i + 1 \in k .. n + 1
      BY <1>4, <2>3
    <3>2. later[i] = Encoded(s[i + 1]) \o later[i + 1] /\ u[i + 1] = s[i + 1]
      BY <1>1, <1>2, <3>1 DEF n
    <3>3. after[i + 1] = later[i + 1] \o e
      BY <3>1
    <3>4. s[i + 1] \in Frame /\ later[i + 1] \in Seq(Byte)
      BY <3>1 DEF n
    <3>5. Encoded(s[i + 1]) \in Seq(Byte)
      BY <3>4, EncodedBytes
    <3> HIDE DEF after
    <3>6. (Encoded(s[i + 1]) \o later[i + 1]) \o e = Encoded(s[i + 1]) \o (later[i + 1] \o e)
      BY <1>3, <3>4, <3>5, BytesAssociate
    <3> QED BY <2>1, <3>2, <3>3, <3>6
  <2> QED BY <2>2, <2>3
<1> HIDE DEF after
<1>8. (n + 1) - 1 = n
  BY <1>2
<1> QED
  <2>1. Coming(u, k, b \o e)
    BY <1>2, <1>5, <1>6, <1>7, <1>8 DEF Coming
  <2> QED BY <2>1 DEF u, e

(* Without a frame nothing is to be read.                                  *)
LEMMA NothingComing == Coming(<<>>, 0, <<>>)
<1> DEFINE later == [i \in 0 .. 0 |-> <<>>]
<1>1. later \in [0 .. 0 -> Seq(Byte)] /\ later[0] = <<>> /\ Len(<<>>) = 0
  OBVIOUS
<1> HIDE DEF later
<1> QED
  BY <1>1 DEF Coming

-----------------------------------------------------------------------------
(* A read takes what was written first.                                    *)
LEMMA SplitAt ==
  ASSUME NEW p \in Seq(Byte), NEW q \in Seq(Byte), NEW s \in Seq(Byte), NEW r \in Seq(Byte),
         p \o q = s \o r, Len(p) = Len(s)
  PROVE  p = s /\ q = r
<1>1. Len(p) \in Nat /\ Len(q) \in Nat /\ Len(s) \in Nat /\ Len(r) \in Nat
  OBVIOUS
<1>2. p = s
  <2>1. \A i \in 1 .. Len(p) : p[i] = (p \o q)[i] /\ s[i] = (s \o r)[i]
    BY <1>1, ConcatProperties
  <2> QED BY <1>1, <2>1, SeqEqual
<1> QED
  BY <1>2, BytesCancel

(* The parts of a frame.                                                   *)
HeaderOf(f) == <<(IF f.fin THEN 128 ELSE 0) + f.op,
                 IF f.code = 0 THEN LengthOf(f) ELSE f.code + LengthOf(f) - Len(f.data)>>
SizeOf(f)   == CASE f.code = 0   -> <<>>
                 [] f.code = 126 -> <<0, Len(f.data)>>
                 [] f.code = 127 -> <<0, 0, 0, 0, 0, 0, 0, Len(f.data)>>

(* The fields of a frame.                                                  *)
LEMMA FrameParts ==
  ASSUME NEW f \in Frame
  PROVE  /\ f.fin \in BOOLEAN /\ f.op \in 0 .. 15 /\ f.code \in {0, 126, 127}
         /\ f.key \in {<<>>} \cup [1 .. 4 -> Byte] /\ f.data \in Seq(Byte)
         /\ Len(f.data) \in 0 .. 255
         /\ f.code = 0 => Len(f.data) <= 125
         /\ f.key \in Seq(Byte)
         /\ f.key # <<>> => Len(f.key) = 4
<1>1. /\ f.fin \in BOOLEAN /\ f.op \in 0 .. 15 /\ f.code \in {0, 126, 127}
      /\ f.key \in {<<>>} \cup [1 .. 4 -> Byte] /\ f.data \in Seq(Byte)
      /\ Len(f.data) <= IF f.code = 0 THEN 125 ELSE 255
  BY DEF Frame
<1>2. Len(f.data) \in Nat
  BY <1>1
<1>3. f.key \in Seq(Byte) /\ (f.key # <<>> => Len(f.key) = 4)
  <2>1. CASE f.key = <<>>
    BY <2>1
  <2>2. CASE f.key \in [1 .. 4 -> Byte]
    <3>1. f.key \in Seq(Byte)
      BY <2>2, SeqDef
    <3>2. DOMAIN f.key = 1 .. 4
      BY <2>2
    <3> QED
      <4> DEFINE n == Len(f.key)
      <4>1. n \in Nat /\ 1 .. n = 1 .. 4
        <5>1. n \in Nat
          BY <3>1
        <5>2. DOMAIN f.key = 1 .. n
          BY <3>1, LenProperties
        <5> QED BY <3>2, <5>1, <5>2
      <4> HIDE DEF n
      <4>2. n = 4
        <5>1. 4 \in 1 .. n /\ 5 \notin 1 .. n
          BY <4>1
        <5> QED BY <4>1, <5>1
      <4> QED BY <3>1, <4>2 DEF n
  <2> QED
    BY <1>1, <2>1, <2>2
<1> DEFINE n == Len(f.data)
<1>4. n \in Nat /\ n <= IF f.code = 0 THEN 125 ELSE 255
  BY <1>1, <1>2
<1> HIDE DEF n
<1>5. n \in 0 .. 255 /\ (f.code = 0 => n <= 125)
  BY <1>1, <1>4
<1> QED
  BY <1>1, <1>3, <1>5 DEF n

(* Masking makes bytes of bytes, as many.                                  *)
LEMMA MaskedBytes ==
  ASSUME NEW f \in Frame
  PROVE  Masked(f) \in Seq(Byte) /\ Len(Masked(f)) = Len(f.data)
<1>1. f.key \in {<<>>} \cup [1 .. 4 -> Byte] /\ f.data \in Seq(Byte)
  BY FrameParts
<1> DEFINE n == Len(f.data)
<1>2. n \in Nat /\ DOMAIN f.data = 1 .. n /\ \A i \in 1 .. n : f.data[i] \in Byte
  BY <1>1
<1>3. CASE f.key = <<>>
  BY <1>1, <1>3 DEF Masked
<1>4. CASE f.key # <<>>
  <2>1. \A i \in 1 .. n : XorOf(f.data[i], f.key[((i - 1) % 4) + 1]) \in Byte
    <3> TAKE i \in 1 .. n
    <3>1. ((i - 1) % 4) + 1 \in 1 .. 4
      BY <1>2
    <3>2. f.key[((i - 1) % 4) + 1] \in Byte
      BY <1>1, <1>4, <3>1
    <3> QED
      BY <1>2, <3>2, XorType
  <2>2. Masked(f) \in [1 .. n -> Byte]
    BY <1>2, <1>4, <2>1 DEF Masked
  <2> QED
    BY <1>2, <2>2, SeqDef
<1> QED
  BY <1>3, <1>4

(* What HeaderRead takes from the two bytes of a header is what went into  *)
(* them.                                                                   *)
LEMMA HeaderNumbers ==
  ASSUME NEW f \in Frame
  PROVE  /\ HeaderOf(f) \in [1 .. 2 -> Byte] /\ HeaderOf(f) \in Seq(Byte) /\ Len(HeaderOf(f)) = 2
         /\ HeaderOf(f)[1] >= 128 <=> f.fin
         /\ HeaderOf(f)[1] % 16 = f.op
         /\ HeaderOf(f)[2] >= 128 <=> f.key # <<>>
         /\ HeaderOf(f)[2] % 128 = IF f.code = 0 THEN Len(f.data) ELSE f.code
<1> DEFINE first == (IF f.fin THEN 128 ELSE 0) + f.op
           second == IF f.code = 0 THEN LengthOf(f) ELSE f.code + LengthOf(f) - Len(f.data)
<1>1. /\ f.fin \in BOOLEAN /\ f.op \in 0 .. 15 /\ f.code \in {0, 126, 127}
      /\ Len(f.data) \in 0 .. 255 /\ (f.code = 0 => Len(f.data) <= 125)
  BY FrameParts
<1>2. first \in 0 .. 255 /\ (first >= 128 <=> f.fin) /\ first % 16 = f.op
  <2>1. CASE f.fin
    BY <1>1, <2>1
  <2>2. CASE ~f.fin
    <3> DEFINE op == f.op
    <3>1. first = op /\ op \in 0 .. 15
      BY <1>1, <2>2
    <3> HIDE DEF first, op
    <3>2. first \in 0 .. 255 /\ ~(first >= 128) /\ first % 16 = op
      BY <3>1
    <3> QED BY <2>2, <3>2 DEF op
  <2> QED BY <2>1, <2>2
<1>3. /\ second \in 0 .. 255
      /\ second >= 128 <=> f.key # <<>>
      /\ second % 128 = IF f.code = 0 THEN Len(f.data) ELSE f.code
  <2> DEFINE n == Len(f.data)
             code == f.code
             unmasked == f.key = <<>>
             l == LengthOf(f)
  <2>1. /\ code \in {0, 126, 127} /\ n \in 0 .. 255 /\ (code = 0 => n <= 125)
        /\ l = n + (IF unmasked THEN 0 ELSE 128)
        /\ second = IF code = 0 THEN l ELSE code + l - n
    BY <1>1 DEF LengthOf
  <2> SUFFICES /\ second \in 0 .. 255
               /\ second >= 128 <=> ~unmasked
               /\ second % 128 = IF code = 0 THEN n ELSE code
    OBVIOUS
  <2> HIDE DEF second, n, code, unmasked, l
  <2> QED BY <2>1
<1>4. HeaderOf(f) = <<first, second>>
  BY DEF HeaderOf
<1> HIDE DEF first, second
<1>5. HeaderOf(f)[1] = first /\ HeaderOf(f)[2] = second
  BY <1>4
<1>6. /\ HeaderOf(f) \in [1 .. 2 -> Byte] /\ HeaderOf(f) \in Seq(Byte)
      /\ Len(HeaderOf(f)) = 2
  <2>1. first \in Byte /\ second \in Byte
    BY <1>2, <1>3 DEF Byte
  <2> QED BY <1>4, <2>1
<1> QED
  BY <1>2, <1>3, <1>5, <1>6

(* An encoded length is read back by ntohs or ntohl.                       *)
LEMMA SizeBytes ==
  ASSUME NEW f \in Frame
  PROVE  /\ SizeOf(f) \in Seq(Byte)
         /\ f.code = 0 => SizeOf(f) = <<>>
         /\ f.code = 126 => Len(SizeOf(f)) = 2 /\ Short(SizeOf(f)) = Len(f.data)
         /\ f.code = 127 => Len(SizeOf(f)) = 8 /\ Long(SizeOf(f)) = Len(f.data)
<1> DEFINE n == Len(f.data)
<1>1. f.code \in {0, 126, 127} /\ n \in 0 .. 255
  BY FrameParts
<1>2. 0 \in Byte /\ n \in Byte
  BY <1>1 DEF Byte
<1>3. CASE f.code = 0
  BY <1>3 DEF SizeOf
<1>4. CASE f.code = 126
  <2>1. SizeOf(f) = <<0, n>>
    BY <1>4 DEF SizeOf
  <2> HIDE DEF n
  <2> QED BY <1>1, <1>2, <1>4, <2>1 DEF Short, n
<1>5. CASE f.code = 127
  <2>1. SizeOf(f) = <<0, 0, 0, 0, 0, 0, 0, n>>
    BY <1>5 DEF SizeOf
  <2> HIDE DEF n
  <2>2. SizeOf(f) \in Seq(Byte) /\ Len(SizeOf(f)) = 8
    BY <1>2, <2>1
  <2>3. Long(SizeOf(f)) = n
    BY <1>1, <2>1 DEF Long
  <2> QED BY <1>5, <2>2, <2>3 DEF n
<1> QED
  BY <1>1, <1>3, <1>4, <1>5

(* A frame in front of more: its header first, its payload last.           *)
LEMMA FrameFirst ==
  ASSUME NEW f \in Frame, NEW rest \in Seq(Byte)
  PROVE  /\ Encoded(f) \o rest = HeaderOf(f) \o (SizeOf(f) \o (f.key \o (Masked(f) \o rest)))
         /\ Masked(f) \o rest \in Seq(Byte)
         /\ f.key \o (Masked(f) \o rest) \in Seq(Byte)
         /\ SizeOf(f) \o (f.key \o (Masked(f) \o rest)) \in Seq(Byte)
<1> DEFINE h == HeaderOf(f)  z == SizeOf(f)  k == f.key  m == Masked(f)
<1>1. h \in Seq(Byte) /\ z \in Seq(Byte) /\ k \in Seq(Byte) /\ m \in Seq(Byte)
  BY HeaderNumbers, SizeBytes, FrameParts, MaskedBytes
<1>2. Encoded(f) = ((h \o z) \o k) \o m
  BY DEF Encoded, HeaderOf, SizeOf
<1> HIDE DEF h, z, k, m
<1>3. /\ h \o z \in Seq(Byte) /\ (h \o z) \o k \in Seq(Byte)
      /\ m \o rest \in Seq(Byte) /\ k \o (m \o rest) \in Seq(Byte)
      /\ z \o (k \o (m \o rest)) \in Seq(Byte)
  BY <1>1, ByteConcat
<1>7. Encoded(f) \o rest = h \o (z \o (k \o (m \o rest)))
  <2>1. (((h \o z) \o k) \o m) \o rest = h \o (z \o (k \o (m \o rest)))
    <3>1. \A q, t, u, v, r \in Seq(Byte) :
            (((q \o t) \o u) \o v) \o r = q \o (t \o (u \o (v \o r)))
      BY FiveParts
    <3>2. \A u, v, r \in Seq(Byte) :
            (((h \o z) \o u) \o v) \o r = h \o (z \o (u \o (v \o r)))
      BY <1>1, <3>1
    <3> QED BY <1>1, <3>2
  <2> QED BY <1>2, <2>1
<1> QED
  BY <1>3, <1>7 DEF h, z, k, m

-----------------------------------------------------------------------------
(***************************************************************************)
(* What a step leaves alone of a frame that is being read.                 *)
(***************************************************************************)
Carried(x, y) == /\ y.header = x.header       /\ y.remaining = x.remaining
                 /\ y.hasMask = x.hasMask     /\ y.mask = x.mask
                 /\ y.fragment = x.fragment   /\ y.message = x.message
                 /\ y.isBinary = x.isBinary

(* No message is given; the read goes on as it was, or no more.            *)
Aside(x, y) == /\ MessagesOf(y.heard) = MessagesOf(x.heard)
               /\ Carried(x, y) /\ y.state = x.state
               /\ y.readOp # None => y.readOp = x.readOp

(* Two such steps are one.                                                 *)
LEMMA AsideAside ==
  ASSUME NEW x, NEW y, NEW z, Aside(x, y), Aside(y, z)
  PROVE  Aside(x, z)
  BY DEF Aside, Carried

(* onclose is no message.                                                  *)
LEMMA CloseIsNoMessage ==
  ASSUME NEW x, Typed(x)
  PROVE  Aside(x, CloseHeard(x))
<1>1. x.heard \in Seq(Call) /\ [on |-> "close"] \in Call
  BY CloseIsCall DEF Typed, Connection
<1>2. MessagesOf(Append(x.heard, [on |-> "close"])) = MessagesOf(x.heard)
  BY <1>1, OneMoreCall DEF Chosen
<1> QED
  BY <1>2 DEF Typed, Connection, CloseHeard, Hear, Aside, Carried

(* Deletion leaves the reading alone ...                                   *)
LEMMA CheckDestroyAside ==
  ASSUME NEW x, Typed(x)
  PROVE  Aside(x, check_destroy(x))
<1> DEFINE y == IF x.closeCalled THEN x ELSE CloseHeard(x)
<1>1. Typed(y) /\ Aside(x, y)
  BY CloseHeardTyped, CloseIsNoMessage DEF Aside, Carried
<1>2. check_destroy(x) = IF MayDelete(y) THEN [y EXCEPT !.alive = FALSE] ELSE y
  BY DEF check_destroy
<1> HIDE DEF y
<1>3. Aside(y, [y EXCEPT !.alive = FALSE])
  BY <1>1 DEF Typed, Connection, Aside, Carried
<1> QED
  BY <1>1, <1>2, <1>3, AsideAside

(* ... so does closing the socket,                                         *)
LEMMA ShutAside ==
  ASSUME NEW x, Typed(x)
  PROVE  Aside(x, Shut(x))
  BY DEF Typed, Connection, Shut, Aside, Carried

(* ... queueing something to send,                                         *)
LEMMA EnqueueAside ==
  ASSUME NEW x, NEW b, Typed(x)
  PROVE  Aside(x, Enqueue(x, b))
  BY DEF Typed, Connection, Enqueue, do_write, Aside, Carried

(* ... close(),                                                            *)
LEMMA CloseAside ==
  ASSUME NEW x, NEW size \in Nat, Typed(x)
  PROVE  Aside(x, close(x, size))
<1> DEFINE y == [x EXCEPT !.sentClose = TRUE]
           v == [y EXCEPT !.closeCalled = TRUE]
           z == IF y.recvClose /\ ~y.closeCalled THEN CloseHeard(v) ELSE y
<1>1. Typed(y) /\ Aside(x, y)
  BY DEF Typed, Connection, Aside, Carried
<1>2. close(x, size) = Enqueue(z, Buffers(8, size))
  BY DEF close
<1> HIDE DEF y
<1>3. Typed(v) /\ Aside(y, v)
  BY <1>1 DEF Typed, Connection, Aside, Carried
<1> HIDE DEF v
<1>4. Typed(z) /\ Aside(x, z)
  BY <1>1, <1>3, CloseHeardTyped, CloseIsNoMessage, AsideAside
<1> HIDE DEF z
<1> QED
  BY <1>2, <1>4, EnqueueAside, AsideAside

(* ... a close frame,                                                      *)
LEMMA CloseFragmentAside ==
  ASSUME NEW x, Typed(x)
  PROVE  Aside(x, CloseFragment(x))
<1> DEFINE y == [x EXCEPT !.recvClose = TRUE]
           z == Shut(y)
           v == CloseHeard(z)
           w == IF z.closeCalled THEN z ELSE [v EXCEPT !.closeCalled = TRUE]
<1>1. Typed(y) /\ Aside(x, y)
  BY DEF Typed, Connection, Aside, Carried
<1>2. CASE ~x.sentClose
  <2>1. CloseFragment(x) = close(y, Len(x.fragment))
    BY <1>2 DEF CloseFragment
  <2>2. Len(x.fragment) \in Nat
    BY DEF Typed, Connection, Data
  <2> HIDE DEF y
  <2> QED
    BY <1>1, <2>1, <2>2, CloseAside, AsideAside
<1>3. CASE x.sentClose
  <2>1. CloseFragment(x) = check_destroy(w)
    BY <1>3 DEF CloseFragment
  <2> HIDE DEF y
  <2>2. Typed(z) /\ Aside(x, z)
    BY <1>1, ShutTyped, ShutAside, AsideAside
  <2> HIDE DEF z
  <2>3. Typed(v) /\ Aside(x, v)
    BY <2>2, CloseHeardTyped, CloseIsNoMessage, AsideAside
  <2> HIDE DEF v
  <2>4. Typed([v EXCEPT !.closeCalled = TRUE]) /\ Aside(v, [v EXCEPT !.closeCalled = TRUE])
    BY <2>3 DEF Typed, Connection, Aside, Carried
  <2>5. Typed(w) /\ Aside(x, w)
    BY <2>2, <2>3, <2>4, AsideAside
  <2> HIDE DEF w
  <2> QED
    BY <2>1, <2>5, CheckDestroyAside, AsideAside
<1> QED
  BY <1>2, <1>3

(* ... a read that fails,                                                  *)
LEMMA ReadFailedAside ==
  ASSUME NEW x, Typed(x)
  PROVE  Aside(x, ReadFailed(x))
<1> DEFINE r == [x EXCEPT !.isReading = FALSE, !.readOp = None]
           y == Shut(r)
<1>1. Typed(r) /\ Aside(x, r)
  BY DEF Typed, Connection, Aside, Carried
<1>2. ReadFailed(x) = check_destroy(y)
  BY DEF ReadFailed
<1> HIDE DEF r
<1>3. Typed(y) /\ Aside(x, y)
  BY <1>1, ShutTyped, ShutAside, AsideAside
<1> HIDE DEF y
<1> QED
  BY <1>2, <1>3, CheckDestroyAside, AsideAside

(* ... and the completion of a write.                                      *)
LEMMA WrittenAside ==
  ASSUME NEW x, NEW ok, Typed(x)
  PROVE  Aside(x, Written(x, ok))
<1> DEFINE y == [x EXCEPT !.sending = <<>>, !.writeOp = FALSE]
           z == IF y.writing = <<>> THEN y ELSE do_write(y)
           w == [y EXCEPT !.closeConnection = TRUE]
           v == [z EXCEPT !.closeConnection = x.sentClose]
<1>1. Typed(y) /\ Aside(x, y) /\ y.sending = <<>>
  <2>1. x \in Connection /\ <<>> \in Seq(Sendable)
    BY DEF Typed
  <2> QED
    BY <2>1 DEF Typed, Connection, Aside, Carried
<1>2. Written(x, ok) = IF ok /\ ~x.closeConnection THEN v ELSE check_destroy(w)
  BY DEF Written
<1> HIDE DEF y
<1>3. Typed(z) /\ Aside(y, z)
  <2>1. CASE y.writing = <<>>
    BY <1>1, <2>1 DEF Aside, Carried
  <2>2. CASE y.writing # <<>>
    <3>1. Typed(do_write(y))
      BY <1>1, <2>2, DoWriteTyped
    <3>2. Aside(y, do_write(y))
      BY <1>1 DEF do_write, Typed, Connection, Aside, Carried
    <3> QED BY <2>2, <3>1, <3>2
  <2> QED BY <2>1, <2>2
<1>4. Typed(w) /\ Aside(y, w)
  BY <1>1 DEF Typed, Connection, Aside, Carried
<1> HIDE DEF w
<1>5. Aside(y, check_destroy(w))
  BY <1>4, CheckDestroyAside, AsideAside
<1> HIDE DEF z
<1>6. Aside(z, v)
  BY <1>3 DEF Typed, Connection, Aside, Carried
<1> HIDE DEF v
<1> QED
  BY <1>1, <1>2, <1>3, <1>5, <1>6, AsideAside

(* A read is begun, of what state_ says, unless the connection closes.     *)
LEMMA DoReadBegins ==
  ASSUME NEW x, Typed(x), x.readOp = None
  PROVE  /\ MessagesOf(do_read(x).heard) = MessagesOf(x.heard)
         /\ do_read(x).readOp # None =>
              /\ do_read(x).readOp = IF x.state = "Mask" /\ ~x.hasMask THEN "Payload" ELSE x.state
              /\ do_read(x).state = do_read(x).readOp
              /\ Carried(x, do_read(x))
<1>1. CASE x.sentClose /\ x.recvClose
  <2>1. do_read(x) = check_destroy(Shut(x))
    BY <1>1 DEF do_read
  <2>2. Typed(Shut(x)) /\ Aside(x, Shut(x))
    BY ShutTyped, ShutAside
  <2>3. Aside(x, do_read(x))
    BY <2>1, <2>2, CheckDestroyAside, AsideAside
  <2> QED
    BY <2>3 DEF Aside
<1>2. CASE ~(x.sentClose /\ x.recvClose)
  <2> DEFINE state == IF x.state = "Mask" /\ ~x.hasMask THEN "Payload" ELSE x.state
  <2>1. do_read(x) = [x EXCEPT !.isReading = TRUE, !.state = state, !.readOp = state]
    BY <1>2 DEF do_read
  <2> QED
    BY <2>1 DEF Typed, Connection, Carried
<1> QED
  BY <1>1, <1>2

-----------------------------------------------------------------------------
(***************************************************************************)
(* Where the reading has got to.  k frames are over; of the next one, f,   *)
(* the parts up to the one that is being read are in the object, and the   *)
(* bytes that are there begin with what is left of it.                     *)
(***************************************************************************)
Flagged(x, f) == /\ is_FIN(x) <=> f.fin
                 /\ opcode(x) = f.op
                 /\ x.hasMask <=> f.key # <<>>

AtSize(x, f, b, rest) ==
  /\ f.code = IF x.readOp = "Len16" THEN 126 ELSE 127
  /\ x.fragment = <<>>
  /\ b = SizeOf(f) \o (f.key \o (Masked(f) \o rest))

AtKey(x, f, b, rest) ==
  /\ x.remaining = Len(f.data)
  /\ x.fragment = <<>>
  /\ b = f.key \o (Masked(f) \o rest)

AtPayload(x, f, b, rest) ==
  /\ f.key # <<>> => x.mask = f.key
  /\ x.remaining + Len(x.fragment) = Len(f.data)
  /\ x.fragment \o b = Masked(f) \o rest

Inside(x, f, b, rest) ==
  /\ Flagged(x, f)
  /\ x.readOp \in {"Len16", "Len64"} => AtSize(x, f, b, rest)
  /\ x.readOp = "Mask"               => f.key # <<>> /\ AtKey(x, f, b, rest)
  /\ x.readOp = "Payload"            => AtPayload(x, f, b, rest)

(* The part of a message that is not over is what the k frames say.        *)
Reads(x, b, s, k) ==
  /\ x.state = x.readOp
  /\ x.message = Account(s)[k].data
  /\ x.isBinary = Account(s)[k].binary
  /\ x.readOp = "MiniHeader" => x.fragment = <<>> /\ Coming(s, k, b)
  /\ x.readOp # "MiniHeader" =>
       /\ k < Len(s)
       /\ \E rest \in Seq(Byte) : Coming(s, k + 1, rest) /\ Inside(x, s[k + 1], b, rest)

FollowsAt(x, b, s, k) == /\ MessagesOf(x.heard) = Account(s)[k].messages
                         /\ x.readOp # None => Reads(x, b, s, k)

Follows(x, b, s) == \E k \in 0 .. Len(s) : FollowsAt(x, b, s, k)

(* What leaves the reading alone keeps it in step with the client.         *)
LEMMA AsideFollows ==
  ASSUME NEW x, NEW y, NEW b, NEW s, Follows(x, b, s), Aside(x, y)
  PROVE  Follows(y, b, s)
<1>1. PICK k \in 0 .. Len(s) : FollowsAt(x, b, s, k)
  BY DEF Follows
<1>2. MessagesOf(y.heard) = Account(s)[k].messages
  BY <1>1 DEF Aside, FollowsAt
<1>3. ASSUME y.readOp # None PROVE Reads(y, b, s, k)
  <2>1. y.readOp = x.readOp /\ y.state = x.state /\ Carried(x, y) /\ Reads(x, b, s, k)
    BY <1>1, <1>3 DEF Aside, FollowsAt
  <2>2. ASSUME NEW f, NEW rest, Inside(x, f, b, rest) PROVE Inside(y, f, b, rest)
    BY <2>1, <2>2 DEF Carried, Inside, Flagged, is_FIN, opcode, AtSize, AtKey, AtPayload
  <2> QED
    BY <2>1, <2>2 DEF Reads, Carried
<1> QED
  BY <1>2, <1>3 DEF Follows, FollowsAt

(* A frame that the client sends comes behind all others.                  *)
LEMMA BehindAll ==
  ASSUME NEW x, Typed(x), NEW b \in Seq(Byte), NEW rest \in Seq(Byte), NEW e \in Seq(Byte),
         NEW f \in Frame, Inside(x, f, b, rest)
  PROVE  Inside(x, f, b \o e, rest \o e)
<1> DEFINE k == f.key  m == Masked(f)  z == SizeOf(f)  g == x.fragment
<1>1. k \in Seq(Byte) /\ m \in Seq(Byte) /\ z \in Seq(Byte) /\ g \in Seq(Byte)
  BY FrameParts, MaskedBytes, SizeBytes DEF Typed, Connection, Data
<1>2. m \o rest \in Seq(Byte) /\ k \o (m \o rest) \in Seq(Byte)
  BY FrameFirst
<1> HIDE DEF k, m, z, g
<1>a. \A q, t \in Seq(Byte) : (q \o t) \o e = q \o (t \o e)
  BY BytesAssociate
<1>3. (m \o rest) \o e = m \o (rest \o e)
  BY <1>1, <1>a
<1>4. (k \o (m \o rest)) \o e = k \o (m \o (rest \o e))
  <2> DEFINE t == m \o rest
  <2>1. t \in Seq(Byte) BY <1>2
  <2> HIDE DEF t
  <2>2. (k \o t) \o e = k \o (t \o e)
    BY <1>1, <2>1, <1>a
  <2> QED BY <2>2, <1>3 DEF t
<1>5. (z \o (k \o (m \o rest))) \o e = z \o (k \o (m \o (rest \o e)))
  <2> DEFINE t == k \o (m \o rest)
  <2>1. t \in Seq(Byte) BY <1>2
  <2> HIDE DEF t
  <2>2. (z \o t) \o e = z \o (t \o e)
    BY <1>1, <2>1, <1>a
  <2> QED BY <2>2, <1>4 DEF t
<1>6. (g \o b) \o e = g \o (b \o e)
  BY <1>1, <1>a
<1>7. AtSize(x, f, b, rest) => AtSize(x, f, b \o e, rest \o e)
  BY <1>5 DEF AtSize, k, m, z
<1>8. AtKey(x, f, b, rest) => AtKey(x, f, b \o e, rest \o e)
  BY <1>4 DEF AtKey, k, m
<1>9. AtPayload(x, f, b, rest) => AtPayload(x, f, b \o e, rest \o e)
  BY <1>3, <1>6 DEF AtPayload, g, m
<1> QED
  BY <1>7, <1>8, <1>9 DEF Inside

(* So does a frame that the client sends.                                  *)
LEMMA SentFollows ==
  ASSUME NEW x, Typed(x), NEW b \in Seq(Byte), NEW s \in Seq(Frame), NEW f \in Frame,
         Follows(x, b, s)
  PROVE  Follows(x, b \o Encoded(f), Append(s, f))
<1> DEFINE u == Append(s, f)  e == Encoded(f)
<1>1. PICK k \in 0 .. Len(s) : FollowsAt(x, b, s, k)
  BY DEF Follows
<1>2. /\ u \in Seq(Frame) /\ Len(u) = Len(s) + 1 /\ Len(s) \in Nat
      /\ \A i \in 1 .. Len(s) : u[i] = s[i]
  BY AppendProperties
<1>3. Account(u)[k] = Account(s)[k]
  BY AccountGrows
<1>4. e \in Seq(Byte)
  BY EncodedBytes
<1>5. \A i \in 0 .. Len(s) : \A t : Coming(s, i, t) => Coming(u, i, t \o e)
  BY ComingMore
<1> HIDE DEF u, e
<1>6. k \in 0 .. Len(u)
  BY <1>2
<1>7. ASSUME x.readOp # None PROVE Reads(x, b \o e, u, k)
  <2>1. Reads(x, b, s, k)
    BY <1>1, <1>7 DEF FollowsAt
  <2>2. CASE x.readOp = "MiniHeader"
    BY <1>3, <1>5, <2>1, <2>2 DEF Reads
  <2>3. CASE x.readOp # "MiniHeader"
    <3>1. PICK rest \in Seq(Byte) : Coming(s, k + 1, rest) /\ Inside(x, s[k + 1], b, rest)
      BY <2>1, <2>3 DEF Reads
    <3>2. k < Len(s) /\ k + 1 \in 1 .. Len(s) /\ k + 1 \in 0 .. Len(s)
      BY <1>2, <2>1, <2>3 DEF Reads
    <3>3. u[k + 1] = s[k + 1] /\ s[k + 1] \in Frame
      BY <1>2, <3>2
    <3>4. rest \o e \in Seq(Byte) /\ Coming(u, k + 1, rest \o e)
      BY <1>4, <1>5, <3>1, <3>2, ByteConcat
    <3>5. Inside(x, u[k + 1], b \o e, rest \o e)
      BY <1>4, <3>1, <3>3, BehindAll
    <3>6. k < Len(u)
      BY <1>2, <3>2
    <3> QED
      BY <1>3, <2>1, <2>3, <3>4, <3>5, <3>6 DEF Reads
  <2> QED BY <2>2, <2>3
<1>8. Follows(x, b \o e, u)
  BY <1>1, <1>3, <1>6, <1>7 DEF Follows, FollowsAt
<1> QED
  BY <1>8 DEF u, e

-----------------------------------------------------------------------------
(* After the length comes the key, or the payload when there is none.      *)
LEMMA KeyOrPayload ==
  ASSUME NEW x, Typed(x), x.readOp = None, x.state = "Mask",
         NEW f \in Frame, NEW b, NEW rest \in Seq(Byte), Flagged(x, f),
         AtKey(x, f, b, rest)
  PROVE  LET y == do_read(x)
         IN  y.readOp # None => y.readOp # "MiniHeader" /\ Inside(y, f, b, rest)
<1> DEFINE y == do_read(x)
<1> SUFFICES ASSUME y.readOp # None
             PROVE  y.readOp # "MiniHeader" /\ Inside(y, f, b, rest)
  OBVIOUS
<1>1. /\ y.readOp = IF x.state = "Mask" /\ ~x.hasMask THEN "Payload" ELSE x.state
      /\ Carried(x, y)
  BY DoReadBegins
<1> HIDE DEF y
<1>2. Flagged(y, f) /\ (x.hasMask <=> f.key # <<>>)
  BY <1>1 DEF Flagged, Carried, is_FIN, opcode
<1>3. CASE x.hasMask
  <2>1. y.readOp = "Mask"
    BY <1>1, <1>3
  <2>2. AtKey(y, f, b, rest)
    BY <1>1 DEF AtKey, Carried
  <2> QED
    BY <1>2, <1>3, <2>1, <2>2 DEF Inside
<1>4. CASE ~x.hasMask
  <2>1. y.readOp = "Payload"
    BY <1>1, <1>4
  <2>2. f.key = <<>>
    BY <1>2, <1>4
  <2>3. Masked(f) \o rest \in Seq(Byte)
    BY FrameFirst
  <2>4. <<>> \o (Masked(f) \o rest) = Masked(f) \o rest
    BY <2>3, ConcatEmptySeq
  <2>5. y.fragment = <<>> /\ y.remaining = Len(f.data) /\ b = Masked(f) \o rest
    BY <1>1, <2>2, <2>4 DEF AtKey, Carried
  <2>6. y.remaining + Len(y.fragment) = Len(f.data)
    <3>1. Len(f.data) \in Nat /\ Len(<<>>) = 0
      BY FrameParts
    <3> QED BY <2>5, <3>1
  <2>7. AtPayload(y, f, b, rest)
    BY <2>2, <2>4, <2>5, <2>6 DEF AtPayload
  <2> QED
    BY <1>2, <2>1, <2>7 DEF Inside
<1> QED
  BY <1>3, <1>4

(* The header.                                                             *)
LEMMA HeaderFollows ==
  ASSUME NEW x, Typed(x), x.readOp = "MiniHeader", NEW s \in Seq(Frame),
         NEW k \in 0 .. Len(s), NEW bytes \in Seq(Byte), NEW b \in Seq(Byte),
         Len(bytes) = 2, FollowsAt(x, bytes \o b, s, k)
  PROVE  FollowsAt(Completed(x, bytes), b, s, k)
<1> DEFINE f == s[k + 1]
<1>0. Reads(x, bytes \o b, s, k) /\ MessagesOf(x.heard) = Account(s)[k].messages
  BY NoneType DEF FollowsAt, Reading
<1>1. Coming(s, k, bytes \o b) /\ x.fragment = <<>>
  BY <1>0 DEF Reads
<1>2. k \in 0 .. Len(s) - 1
  <2>1. Len(bytes \o b) # 0
    BY ConcatProperties
  <2>2. bytes \o b # <<>>
    BY <2>1
  <2>3. k # Len(s)
    BY <1>1, <2>2, ComingLast
  <2> QED BY <2>3
<1>3. PICK rest \in Seq(Byte) : bytes \o b = Encoded(f) \o rest /\ Coming(s, k + 1, rest)
  BY <1>1, <1>2, ComingNext
<1>4. f \in Frame
  BY <1>2
<1> HIDE DEF f
<1> DEFINE tail == f.key \o (Masked(f) \o rest)
<1>5. tail \in Seq(Byte) /\ SizeOf(f) \o tail \in Seq(Byte)
      /\ bytes \o b = HeaderOf(f) \o (SizeOf(f) \o tail)
  BY <1>3, <1>4, FrameFirst
<1> HIDE DEF tail
<1>6. bytes = HeaderOf(f) /\ b = SizeOf(f) \o tail
  <2>1. HeaderOf(f) \in Seq(Byte) /\ Len(HeaderOf(f)) = 2
    BY <1>4, HeaderNumbers
  <2> DEFINE r == SizeOf(f) \o tail  h == HeaderOf(f)
  <2>2. r \in Seq(Byte) /\ h \in Seq(Byte) /\ Len(h) = 2 /\ bytes \o b = h \o r
    BY <1>5, <2>1
  <2> HIDE DEF r, h
  <2>3. bytes = h /\ b = r
    BY <2>2, SplitAt
  <2> QED BY <2>3 DEF r, h
<1> DEFINE n == bytes[2] % 128
           y == [x EXCEPT !.isReading = FALSE, !.readOp = None, !.header = bytes,
                          !.hasMask = bytes[2] >= 128]
           z == CASE n = 127 -> [y EXCEPT !.state = "Len64"]
                  [] n = 126 -> [y EXCEPT !.state = "Len16"]
                  [] OTHER   -> [y EXCEPT !.state = "Mask", !.remaining = n]
<1>7. Completed(x, bytes) = do_read(z)
  BY DEF Completed, HeaderRead
<1>8. /\ bytes \in [1 .. 2 -> Byte] /\ (bytes[2] >= 128) \in BOOLEAN
      /\ bytes[1] >= 128 <=> f.fin
      /\ bytes[1] % 16 = f.op
      /\ bytes[2] >= 128 <=> f.key # <<>>
      /\ n = IF f.code = 0 THEN Len(f.data) ELSE f.code
  BY <1>4, <1>6, HeaderNumbers
<1>9. f.code \in {0, 126, 127} /\ Len(f.data) \in Nat /\ (f.code = 0 => Len(f.data) <= 125)
  BY <1>4, FrameParts
<1>10. /\ Typed(y) /\ y.readOp = None /\ y.heard = x.heard /\ y.fragment = <<>>
       /\ y.message = x.message /\ y.isBinary = x.isBinary
       /\ y.header = bytes /\ y.hasMask = (bytes[2] >= 128)
  BY <1>1, <1>8 DEF Typed, Connection
<1>11. n \in Nat
  BY <1>8, <1>9
<1> HIDE DEF y, n
<1>12. /\ Typed(z) /\ z.readOp = None /\ z.heard = x.heard /\ z.fragment = <<>>
       /\ z.message = x.message /\ z.isBinary = x.isBinary
       /\ z.header = bytes /\ z.hasMask = (bytes[2] >= 128)
       /\ n = 127 => z.state = "Len64"
       /\ n = 126 => z.state = "Len16"
       /\ n \notin {126, 127} => z.state = "Mask" /\ z.remaining = n
  <2>1. CASE n = 127
    <3>1. z = [y EXCEPT !.state = "Len64"]
      BY <2>1
    <3> HIDE DEF z
    <3>2. /\ Typed(z) /\ z.readOp = None /\ z.heard = x.heard /\ z.fragment = <<>>
          /\ z.message = x.message /\ z.isBinary = x.isBinary
          /\ z.header = bytes /\ z.hasMask = (bytes[2] >= 128)
          /\ z.state = "Len64"
      BY <1>10, <3>1 DEF Typed, Connection, Reading
    <3>3. n = 127 /\ n # 126 /\ ~(n \notin {126, 127})
      BY <2>1
    <3> QED BY <3>2, <3>3
  <2>2. CASE n = 126
    <3>1. z = [y EXCEPT !.state = "Len16"]
      BY <2>2
    <3> HIDE DEF z
    <3>2. /\ Typed(z) /\ z.readOp = None /\ z.heard = x.heard /\ z.fragment = <<>>
          /\ z.message = x.message /\ z.isBinary = x.isBinary
          /\ z.header = bytes /\ z.hasMask = (bytes[2] >= 128)
          /\ z.state = "Len16"
      BY <1>10, <3>1 DEF Typed, Connection, Reading
    <3>3. n = 126 /\ n # 127 /\ ~(n \notin {126, 127})
      BY <2>2
    <3> QED BY <3>2, <3>3
  <2>3. CASE n \notin {126, 127}
    <3>1. z = [y EXCEPT !.state = "Mask", !.remaining = n]
      BY <2>3
    <3> HIDE DEF z
    <3> QED BY <1>10, <1>11, <2>3, <3>1 DEF Typed, Connection, Reading
  <2> QED BY <2>1, <2>2, <2>3
<1> HIDE DEF z
<1>13. Flagged(z, f)
  BY <1>8, <1>12 DEF Flagged, is_FIN, opcode
<1> DEFINE d == do_read(z)
<1>14. /\ MessagesOf(d.heard) = MessagesOf(x.heard)
       /\ d.readOp # None =>
            /\ d.readOp = IF z.state = "Mask" /\ ~z.hasMask THEN "Payload" ELSE z.state
            /\ d.state = d.readOp
            /\ Carried(z, d)
  BY <1>12, DoReadBegins
<1>15. ASSUME d.readOp # None
       PROVE  d.readOp # "MiniHeader" /\ Inside(d, f, b, rest)
  <2>1. CASE f.code = 0
    <3>1. SizeOf(f) = <<>>
      BY <1>4, <2>1, SizeBytes
    <3>2. b = tail
      BY <1>5, <1>6, <3>1, ConcatEmptySeq
    <3>3. n = Len(f.data) /\ n \notin {126, 127}
      <4> DEFINE l == Len(f.data)
      <4>1. l \in Nat /\ l <= 125 /\ n = l
        BY <1>8, <1>9, <2>1
      <4> HIDE DEF l
      <4>2. n \notin {126, 127}
        BY <4>1
      <4> QED BY <4>1, <4>2 DEF l
    <3>4. AtKey(z, f, b, rest)
      BY <1>12, <3>2, <3>3 DEF AtKey, tail
    <3>5. z.state = "Mask" /\ z.readOp = None /\ Typed(z)
      BY <1>12, <3>3
    <3> QED BY <1>4, <1>13, <1>15, <3>4, <3>5, KeyOrPayload
  <2>2. CASE f.code # 0
    <3>1. n = f.code /\ f.code \in {126, 127}
      BY <1>8, <1>9, <2>2
    <3>2. d.readOp = IF f.code = 126 THEN "Len16" ELSE "Len64"
      BY <1>12, <1>14, <1>15, <3>1
    <3>3. Carried(z, d)
      BY <1>14, <1>15
    <3> HIDE DEF d
    <3>4. AtSize(d, f, b, rest)
      BY <1>6, <1>12, <3>1, <3>2, <3>3 DEF AtSize, Carried, tail
    <3>5. Flagged(d, f)
      BY <1>13, <3>3 DEF Flagged, Carried, is_FIN, opcode
    <3> QED BY <3>1, <3>2, <3>4, <3>5 DEF Inside
  <2> QED BY <2>1, <2>2
<1> HIDE DEF d
<1>16. ASSUME d.readOp # None PROVE Reads(d, b, s, k)
  <2>1. d.message = Account(s)[k].data /\ d.isBinary = Account(s)[k].binary
    BY <1>0, <1>12, <1>14, <1>16 DEF Reads, Carried
  <2> QED
    BY <1>2, <1>3, <1>14, <1>15, <1>16, <2>1 DEF Reads, f
<1> QED
  BY <1>0, <1>7, <1>14, <1>16 DEF FollowsAt, d

(* The length.                                                             *)
LEMMA LengthFollows ==
  ASSUME NEW x, Typed(x), x.readOp \in {"Len16", "Len64"}, NEW s \in Seq(Frame),
         NEW k \in 0 .. Len(s), NEW bytes \in Seq(Byte), NEW b \in Seq(Byte),
         Len(bytes) = IF x.readOp = "Len16" THEN 2 ELSE 8,
         FollowsAt(x, bytes \o b, s, k)
  PROVE  FollowsAt(Completed(x, bytes), b, s, k)
<1> DEFINE f == s[k + 1]
<1>0. Reads(x, bytes \o b, s, k) /\ MessagesOf(x.heard) = Account(s)[k].messages
  BY NoneType DEF FollowsAt, Reading
<1>1. PICK rest \in Seq(Byte) : Coming(s, k + 1, rest) /\ Inside(x, f, bytes \o b, rest)
  BY <1>0 DEF Reads
<1>2. k < Len(s) /\ f \in Frame
  BY <1>0 DEF Reads
<1> HIDE DEF f
<1> DEFINE tail == f.key \o (Masked(f) \o rest)
<1>3. AtSize(x, f, bytes \o b, rest) /\ Flagged(x, f)
  BY <1>1 DEF Inside
<1>4. /\ f.code = IF x.readOp = "Len16" THEN 126 ELSE 127
      /\ x.fragment = <<>> /\ bytes \o b = SizeOf(f) \o tail
  BY <1>3 DEF AtSize
<1>5. tail \in Seq(Byte)
  BY <1>2, FrameFirst
<1> HIDE DEF tail
<1> DEFINE m == IF x.readOp = "Len16" THEN Short(bytes) ELSE Long(bytes)
<1>6. b = tail /\ m = Len(f.data)
  <2> DEFINE z == SizeOf(f)
  <2>1. /\ z \in Seq(Byte) /\ Len(z) = Len(bytes)
        /\ IF x.readOp = "Len16" THEN Short(z) = Len(f.data) ELSE Long(z) = Len(f.data)
    BY <1>2, <1>4, SizeBytes
  <2> HIDE DEF z
  <2>2. bytes \o b = z \o tail
    BY <1>4 DEF z
  <2>3. bytes = z /\ b = tail
    BY <1>5, <2>1, <2>2, SplitAt
  <2> QED BY <2>1, <2>3
<1> DEFINE y == [x EXCEPT !.isReading = FALSE, !.readOp = None, !.state = "Mask",
                          !.remaining = m]
<1>7. Completed(x, bytes) = do_read(y)
  BY DEF Completed, LengthRead
<1>8. Len(f.data) \in Nat
  BY <1>2, FrameParts
<1> HIDE DEF m
<1>9. /\ Typed(y) /\ y.readOp = None /\ y.heard = x.heard /\ y.fragment = <<>>
      /\ y.message = x.message /\ y.isBinary = x.isBinary /\ y.state = "Mask"
      /\ y.header = x.header /\ y.hasMask = x.hasMask /\ y.remaining = Len(f.data)
  BY <1>4, <1>6, <1>8 DEF Typed, Connection, Reading
<1> HIDE DEF y
<1>10. Flagged(y, f) /\ AtKey(y, f, b, rest)
  BY <1>3, <1>6, <1>9 DEF Flagged, is_FIN, opcode, AtKey, tail
<1> DEFINE d == do_read(y)
<1>11. /\ MessagesOf(d.heard) = MessagesOf(x.heard)
       /\ d.readOp # None => d.state = d.readOp /\ Carried(y, d)
  BY <1>9, DoReadBegins
<1>12. d.readOp # None => d.readOp # "MiniHeader" /\ Inside(d, f, b, rest)
  BY <1>2, <1>9, <1>10, KeyOrPayload
<1> HIDE DEF d
<1>13. ASSUME d.readOp # None PROVE Reads(d, b, s, k)
  <2>1. d.message = Account(s)[k].data /\ d.isBinary = Account(s)[k].binary
    BY <1>0, <1>9, <1>11, <1>13 DEF Reads, Carried
  <2> QED
    BY <1>1, <1>2, <1>11, <1>12, <1>13, <2>1 DEF Reads, f
<1> QED
  BY <1>0, <1>7, <1>11, <1>13 DEF FollowsAt, d

(* The key.                                                                *)
LEMMA MaskFollows ==
  ASSUME NEW x, Typed(x), x.readOp = "Mask", NEW s \in Seq(Frame),
         NEW k \in 0 .. Len(s), NEW bytes \in Seq(Byte), NEW b \in Seq(Byte),
         Len(bytes) = 4, FollowsAt(x, bytes \o b, s, k)
  PROVE  FollowsAt(Completed(x, bytes), b, s, k)
<1> DEFINE f == s[k + 1]
<1>0. Reads(x, bytes \o b, s, k) /\ MessagesOf(x.heard) = Account(s)[k].messages
  BY NoneType DEF FollowsAt, Reading
<1>1. PICK rest \in Seq(Byte) : Coming(s, k + 1, rest) /\ Inside(x, f, bytes \o b, rest)
  BY <1>0 DEF Reads
<1>2. k < Len(s) /\ f \in Frame
  BY <1>0 DEF Reads
<1> HIDE DEF f
<1> DEFINE r == Masked(f) \o rest
<1>3. /\ Flagged(x, f) /\ f.key # <<>> /\ x.remaining = Len(f.data) /\ x.fragment = <<>>
      /\ bytes \o b = f.key \o r
  BY <1>1 DEF Inside, AtKey
<1>4. r \in Seq(Byte) /\ f.key \in Seq(Byte) /\ Len(f.key) = 4 /\ Len(f.data) \in Nat
  <2>1. r \in Seq(Byte)
    BY <1>2, FrameFirst
  <2> HIDE DEF r
  <2>2. f.key \in Seq(Byte) /\ Len(f.key) = 4 /\ Len(f.data) \in 0 .. 255
    BY <1>2, <1>3, FrameParts
  <2>3. Len(f.data) \in Nat
    BY <2>2
  <2> QED BY <2>1, <2>2, <2>3
<1> HIDE DEF r
<1>5. bytes = f.key /\ b = r
  BY <1>3, <1>4, SplitAt
<1> DEFINE y == [x EXCEPT !.isReading = FALSE, !.readOp = None, !.mask = bytes,
                          !.state = "Payload"]
<1>6. Completed(x, bytes) = do_read(y)
  BY DEF Completed, MaskRead
<1>7. bytes \in [1 .. 4 -> Byte]
  <2>1. bytes \in [1 .. Len(bytes) -> Byte]
    BY LenProperties
  <2> QED BY <2>1
<1>8. /\ Typed(y) /\ y.readOp = None /\ y.heard = x.heard /\ y.fragment = <<>>
      /\ y.message = x.message /\ y.isBinary = x.isBinary /\ y.state = "Payload"
      /\ y.header = x.header /\ y.hasMask = x.hasMask /\ y.remaining = Len(f.data)
      /\ y.mask = f.key
  BY <1>3, <1>5, <1>7 DEF Typed, Connection, Reading
<1> HIDE DEF y
<1> DEFINE d == do_read(y)
<1>9. /\ MessagesOf(d.heard) = MessagesOf(x.heard)
      /\ d.readOp # None => d.readOp = "Payload" /\ d.state = d.readOp /\ Carried(y, d)
  BY <1>8, DoReadBegins
<1> HIDE DEF d
<1>10. ASSUME d.readOp # None PROVE Reads(d, b, s, k)
  <2>1. d.message = Account(s)[k].data /\ d.isBinary = Account(s)[k].binary
    BY <1>0, <1>8, <1>9, <1>10 DEF Reads, Carried
  <2>2. Flagged(d, f)
    BY <1>3, <1>8, <1>9, <1>10 DEF Flagged, is_FIN, opcode, Carried
  <2>3. d.fragment = <<>> /\ d.remaining = Len(f.data) /\ d.mask = f.key
    BY <1>8, <1>9, <1>10 DEF Carried
  <2>4. <<>> \o b = r
    BY <1>4, <1>5, ConcatEmptySeq
  <2>5. d.remaining + Len(d.fragment) = Len(f.data)
    <3>1. Len(<<>>) = 0
      OBVIOUS
    <3> QED BY <1>4, <2>3, <3>1
  <2>6. AtPayload(d, f, b, rest)
    BY <2>3, <2>4, <2>5 DEF AtPayload, r
  <2>7. Inside(d, f, b, rest) /\ d.readOp # "MiniHeader"
    BY <1>9, <1>10, <2>2, <2>6 DEF Inside
  <2> QED
    BY <1>1, <1>2, <1>9, <1>10, <2>1, <2>7 DEF Reads, f
<1> QED
  BY <1>0, <1>6, <1>9, <1>10 DEF FollowsAt, d

-----------------------------------------------------------------------------
(* The key that masked the payload unmasks it.                             *)
LEMMA UnmaskedIsData ==
  ASSUME NEW x, Typed(x), NEW f \in Frame, Flagged(x, f), f.key # <<>> => x.mask = f.key,
         x.fragment = Masked(f)
  PROVE  Unmasked(x) = f.data
<1> DEFINE k(i) == ((i - 1) % 4) + 1
<1>1. f.key \in {<<>>} \cup [1 .. 4 -> Byte] /\ f.data \in Seq(Byte)
  BY FrameParts
<1>2. /\ Len(f.data) \in Nat /\ DOMAIN f.data = 1 .. Len(f.data)
      /\ \A i \in DOMAIN f.data : f.data[i] \in Byte
      /\ f.data = [i \in DOMAIN f.data |-> f.data[i]]
  <2>1. f.data \in [1 .. Len(f.data) -> Byte]
    BY <1>1, LenProperties
  <2> QED BY <1>1, <2>1
<1>3. CASE f.key = <<>>
  <2>1. ~x.hasMask /\ x.fragment = f.data
    BY <1>3 DEF Flagged, Masked
  <2> QED
    BY <1>2, <2>1 DEF Unmasked
<1>4. CASE f.key # <<>>
  <2>1. x.hasMask /\ x.mask = f.key
    BY <1>4 DEF Flagged
  <2>2. x.fragment = [i \in DOMAIN f.data |-> XorOf(f.data[i], f.key[k(i)])]
    BY <1>4 DEF Masked
  <2>3. Unmasked(x) = [i \in DOMAIN f.data |-> XorOf(x.fragment[i], f.key[k(i)])]
    BY <2>1, <2>2 DEF Unmasked
  <2>4. ASSUME NEW i \in DOMAIN f.data
        PROVE  XorOf(x.fragment[i], f.key[k(i)]) = f.data[i]
    <3>1. k(i) \in 1 .. 4
      BY <1>2
    <3>2. f.key[k(i)] \in Byte /\ f.data[i] \in Byte
      BY <1>1, <1>2, <1>4, <3>1
    <3> HIDE DEF k
    <3>3. x.fragment[i] = XorOf(f.data[i], f.key[k(i)])
      BY <2>2
    <3> QED
      BY <3>2, <3>3, XorUndone
  <2> HIDE DEF k
  <2> QED
    BY <1>2, <2>3, <2>4
<1> QED
  BY <1>3, <1>4

(* A part of a message is added to it; the last one makes the handler be   *)
(* called, unless it throws.                                               *)
LEMMA DataFragmentSays ==
  ASSUME NEW y, Typed(y), y.readOp = None, NEW f \in Frame, y.fragment = f.data,
         Flagged(y, f), f.op \in {0, 1, 2}, NEW acc, y.message = acc.data,
         y.isBinary = acc.binary, MessagesOf(y.heard) = acc.messages
  PROVE  /\ DataFragment(y).readOp = None
         /\ \/ /\ DataFragment(y).threw
               /\ MessagesOf(DataFragment(y).heard) = acc.messages
            \/ /\ MessagesOf(DataFragment(y).heard) = Saying(acc, f).messages
               /\ DataFragment(y).message = Saying(acc, f).data
               /\ DataFragment(y).isBinary = Saying(acc, f).binary
<1> DEFINE data == acc.data \o f.data
           binary == IF f.op = 0 THEN acc.binary ELSE f.op = 2
           call == [on |-> "message", data |-> data, binary |-> binary]
           z == [y EXCEPT !.isBinary = IF opcode(y) = 0 THEN @ ELSE opcode(y) = 2,
                          !.message = @ \o y.fragment]
<1>1. ~(f.op > 2) /\ opcode(y) = f.op /\ (is_FIN(y) <=> f.fin)
  BY DEF Flagged
<1>2. data \in Data /\ binary \in BOOLEAN
  <2>1. acc.data \in Seq(Byte) /\ f.data \in Seq(Byte) /\ acc.binary \in BOOLEAN
    BY FrameParts DEF Typed, Connection, Data
  <2>2. data \in Seq(Byte)
    BY <2>1, ByteConcat
  <2> QED BY <2>1, <2>2 DEF Data
<1>3. Saying(acc, f) = [data     |-> IF f.fin THEN <<>> ELSE data,
                        binary   |-> binary,
                        messages |-> IF f.fin THEN Append(acc.messages, call)
                                     ELSE acc.messages]
  BY <1>1 DEF Saying
<1>4. /\ DOMAIN z = DOMAIN y /\ z.message = data /\ z.isBinary = binary
      /\ z.heard = y.heard /\ z.readOp = None
      /\ Typed(z)
  BY <1>1, <1>2 DEF Typed, Connection
<1>5. DataFragment(y) = IF ~is_FIN(y) THEN z
                        ELSE IF z.message \in Bad THEN [z EXCEPT !.threw = TRUE]
                        ELSE EndMessage(Hear(z, [on |-> "message", data |-> z.message,
                                                 binary |-> z.isBinary]))
  BY DEF DataFragment
<1> HIDE DEF z, data, binary
<1>6. call \in Call
  BY <1>2 DEF Call
<1>7. CASE ~f.fin
  BY <1>1, <1>3, <1>4, <1>5, <1>7
<1>8. CASE f.fin /\ z.message \in Bad
  <2>1. DataFragment(y) = [z EXCEPT !.threw = TRUE]
    BY <1>1, <1>5, <1>8
  <2> QED
    BY <1>4, <2>1 DEF Typed, Connection
<1>9. CASE f.fin /\ z.message \notin Bad
  <2>1. DataFragment(y) = EndMessage(Hear(z, call))
    BY <1>1, <1>4, <1>5, <1>9
  <2>2. MessagesOf(Append(z.heard, call)) = Append(acc.messages, call)
    <3>1. z.heard \in Seq(Call) /\ call.on = "message"
      BY <1>4 DEF Typed, Connection
    <3> HIDE DEF call
    <3> QED BY <1>4, <1>6, <3>1, OneMoreCall DEF Chosen
  <2> HIDE DEF call
  <2>3. /\ DataFragment(y).readOp = None
        /\ DataFragment(y).heard = Append(z.heard, call)
        /\ DataFragment(y).message = <<>>
        /\ DataFragment(y).isBinary = binary
    BY <1>4, <2>1 DEF Typed, Connection, EndMessage, Hear
  <2> QED
    BY <1>3, <1>9, <2>2, <2>3
<1> QED
  BY <1>7, <1>8, <1>9

(* A frame that is whole.                                                  *)
LEMMA FragmentFollows ==
  ASSUME NEW x, Typed(x), x.readOp = None, NEW s \in Seq(Frame), NEW k \in 0 .. Len(s),
         k < Len(s), NEW rest \in Seq(Byte), Coming(s, k + 1, rest), Flagged(x, s[k + 1]),
         s[k + 1].key # <<>> => x.mask = s[k + 1].key, x.fragment = Masked(s[k + 1]),
         x.message = Account(s)[k].data, x.isBinary = Account(s)[k].binary,
         MessagesOf(x.heard) = Account(s)[k].messages
  PROVE  Follows(handle_fragment(x), rest, s)
<1> DEFINE f == s[k + 1]
           acc == Account(s)[k]
           next == Account(s)[k + 1]
           y == [x EXCEPT !.fragment = Unmasked(x)]
           z == CASE opcode(y) \in {0, 1, 2} -> DataFragment(y)
                  [] opcode(y) = 8           -> CloseFragment(y)
                  [] OTHER                   -> y
           v == [EndFragment(z) EXCEPT !.state = "MiniHeader"]
           stops == z.threw \/ (x.sentClose /\ opcode(y) = 8)
<1>1. k + 1 \in 0 .. Len(s) /\ k + 1 \in 1 .. Len(s) /\ f \in Frame /\ k \in 0 .. Len(s)
  OBVIOUS
<1>2. next = Saying(acc, f)
  <2>1. Accounted(Account(s), s)
    BY AccountIs
  <2> DEFINE i == k + 1
  <2>2. i \in 1 .. Len(s) /\ i - 1 = k
    BY <1>1
  <2> HIDE DEF i
  <2>3. Account(s)[i] = Saying(Account(s)[i - 1], s[i])
    BY <2>1, <2>2 DEF Accounted
  <2> QED BY <2>2, <2>3 DEF i
<1>3. Unmasked(x) = f.data /\ f.data \in Data
  BY <1>1, UnmaskedIsData, FrameParts DEF Data
<1>4. /\ Typed(y) /\ y.readOp = None /\ y.fragment = f.data /\ Flagged(y, f)
      /\ y.message = acc.data /\ y.isBinary = acc.binary
      /\ MessagesOf(y.heard) = acc.messages
  BY <1>3 DEF Typed, Connection, Flagged, is_FIN, opcode
<1>5. handle_fragment(x) = IF stops THEN z ELSE do_read(v)
  BY DEF handle_fragment
<1>6. opcode(y) = f.op /\ f.op \in 0 .. 15
  BY <1>1, <1>4, FrameParts DEF Flagged
<1> HIDE DEF y, f, acc, next
<1>7. /\ Typed(z) /\ z.readOp = None
      /\ \/ z.threw /\ MessagesOf(z.heard) = acc.messages
         \/ /\ MessagesOf(z.heard) = next.messages
            /\ z.message = next.data /\ z.isBinary = next.binary
  <2>1. CASE f.op \in {0, 1, 2}
    <3>1. z = DataFragment(y)
      BY <1>6, <2>1
    <3> HIDE DEF z
    <3>2. Typed(z)
      BY <1>4, <3>1, DataFragmentTyped
    <3> QED
      BY <1>1, <1>2, <1>4, <2>1, <3>1, <3>2, DataFragmentSays
  <2>2. CASE f.op \notin {0, 1, 2}
    <3>1. f.op > 2
      BY <1>6, <2>2
    <3>2. next = acc
      BY <1>2, <3>1 DEF Saying
    <3>3. z = IF opcode(y) = 8 THEN CloseFragment(y) ELSE y
      BY <1>6, <2>2
    <3> HIDE DEF z
    <3>4. Typed(CloseFragment(y)) /\ Aside(y, CloseFragment(y))
      BY <1>4, CloseFragmentTyped, CloseFragmentAside
    <3>5. Aside(y, y)
      BY DEF Aside, Carried
    <3>6. Typed(z) /\ Aside(y, z)
      BY <1>4, <3>3, <3>4, <3>5
    <3> QED
      BY <1>4, <3>2, <3>6 DEF Aside, Carried
  <2> QED BY <2>1, <2>2
<1> HIDE DEF z
<1>8. CASE stops
  <2>1. handle_fragment(x) = z
    BY <1>5, <1>8
  <2>2. FollowsAt(z, rest, s, k) \/ FollowsAt(z, rest, s, k + 1)
    BY <1>7 DEF FollowsAt, acc, next
  <2> QED
    BY <1>1, <2>1, <2>2 DEF Follows
<1>9. CASE ~stops
  <2>1. handle_fragment(x) = do_read(v)
    BY <1>5, <1>9
  <2>2. /\ MessagesOf(z.heard) = next.messages
        /\ z.message = next.data /\ z.isBinary = next.binary
    BY <1>7, <1>9
  <2>3. /\ Typed(v) /\ v.readOp = None /\ v.heard = z.heard /\ v.fragment = <<>>
        /\ v.message = z.message /\ v.isBinary = z.isBinary /\ v.state = "MiniHeader"
    <3>1. <<>> \in Data /\ "MiniHeader" \in Reading
      BY DEF Data, Reading
    <3> QED
      BY <1>7, <3>1 DEF Typed, Connection, EndFragment
  <2> HIDE DEF v
  <2> DEFINE d == do_read(v)
  <2>4. /\ MessagesOf(d.heard) = MessagesOf(v.heard)
        /\ d.readOp # None => d.readOp = "MiniHeader" /\ d.state = d.readOp /\ Carried(v, d)
    BY <2>3, DoReadBegins
  <2> HIDE DEF d
  <2>5. ASSUME d.readOp # None PROVE Reads(d, rest, s, k + 1)
    BY <2>2, <2>3, <2>4, <2>5 DEF Reads, Carried, next
  <2>6. FollowsAt(d, rest, s, k + 1)
    BY <2>2, <2>3, <2>4, <2>5 DEF FollowsAt, next
  <2> QED
    BY <1>1, <2>1, <2>6 DEF Follows, d
<1> QED
  BY <1>8, <1>9

(* The payload, or a part of it.                                           *)
LEMMA PayloadFollows ==
  ASSUME NEW x, Typed(x), x.readOp = "Payload", NEW s \in Seq(Frame),
         NEW k \in 0 .. Len(s), NEW bytes \in Seq(Byte), NEW b \in Seq(Byte),
         Len(bytes) <= x.remaining, FollowsAt(x, bytes \o b, s, k)
  PROVE  Follows(Completed(x, bytes), b, s)
<1> DEFINE f == s[k + 1]
<1>0. Reads(x, bytes \o b, s, k) /\ MessagesOf(x.heard) = Account(s)[k].messages
  BY NoneType DEF FollowsAt, Reading
<1>1. PICK rest \in Seq(Byte) : Coming(s, k + 1, rest) /\ Inside(x, f, bytes \o b, rest)
  BY <1>0 DEF Reads
<1>2. k < Len(s) /\ f \in Frame
  BY <1>0 DEF Reads
<1> HIDE DEF f
<1>3. /\ Flagged(x, f) /\ (f.key # <<>> => x.mask = f.key)
      /\ x.remaining + Len(x.fragment) = Len(f.data)
      /\ x.fragment \o (bytes \o b) = Masked(f) \o rest
  BY <1>1 DEF Inside, AtPayload
<1> DEFINE g == x.fragment \o bytes
           left == x.remaining - Len(bytes)
           y == [x EXCEPT !.isReading = FALSE, !.readOp = None,
                          !.fragment = g, !.remaining = left]
<1>4. Completed(x, bytes) = IF y.remaining = 0 THEN handle_fragment(y) ELSE do_read(y)
  BY DEF Completed, PayloadRead
<1>5. x.fragment \in Seq(Byte) /\ x.remaining \in Nat
  BY DEF Typed, Connection, Data
<1>6. g \in Seq(Byte) /\ Len(g) = Len(x.fragment) + Len(bytes) /\ left \in Nat
  BY <1>5, ConcatProperties
<1>7. g \o b = Masked(f) \o rest
  <2>1. g \o b = x.fragment \o (bytes \o b)
    BY <1>5, BytesAssociate
  <2> QED BY <1>3, <2>1
<1>8. left + Len(g) = Len(f.data)
  <2>1. Len(x.fragment) \in Nat /\ Len(bytes) \in Nat
    BY <1>5
  <2> QED BY <1>3, <1>5, <1>6, <2>1
<1> HIDE DEF g, left
<1>9. /\ Typed(y) /\ y.readOp = None /\ y.heard = x.heard /\ y.fragment = g
      /\ y.remaining = left /\ y.message = x.message /\ y.isBinary = x.isBinary
      /\ y.header = x.header /\ y.hasMask = x.hasMask /\ y.mask = x.mask
      /\ y.state = x.state
  BY <1>6 DEF Typed, Connection, Data
<1> HIDE DEF y
<1>10. Flagged(y, f) /\ (f.key # <<>> => y.mask = f.key)
  BY <1>3, <1>9 DEF Flagged, is_FIN, opcode
<1>11. /\ y.message = Account(s)[k].data /\ y.isBinary = Account(s)[k].binary
       /\ MessagesOf(y.heard) = Account(s)[k].messages
  BY <1>0, <1>9 DEF Reads
<1>12. CASE left = 0
  <2>1. Masked(f) \in Seq(Byte) /\ Len(Masked(f)) = Len(f.data)
    BY <1>2, MaskedBytes
  <2>2. Len(g) = Len(f.data)
    <3>1. Len(g) \in Nat
      BY <1>6
    <3> QED BY <1>8, <1>12, <3>1
  <2> DEFINE m == Masked(f)
  <2>3. m \in Seq(Byte) /\ Len(m) = Len(g) /\ g \o b = m \o rest
    BY <1>7, <2>1, <2>2
  <2> HIDE DEF m
  <2>4. g = m /\ b = rest
    BY <1>6, <2>3, SplitAt
  <2>5. Follows(handle_fragment(y), rest, s)
    BY <1>1, <1>2, <1>9, <1>10, <1>11, <2>4, FragmentFollows DEF f, m
  <2> QED
    BY <1>4, <1>9, <1>12, <2>4, <2>5
<1>13. CASE left # 0
  <2>1. Completed(x, bytes) = do_read(y)
    BY <1>4, <1>9, <1>13
  <2>2. y.state = "Payload"
    BY <1>0, <1>9 DEF Reads
  <2> DEFINE d == do_read(y)
  <2>3. /\ MessagesOf(d.heard) = MessagesOf(y.heard)
        /\ d.readOp # None => d.readOp = "Payload" /\ d.state = d.readOp /\ Carried(y, d)
    BY <1>9, <2>2, DoReadBegins
  <2> HIDE DEF d
  <2>4. ASSUME d.readOp # None PROVE Reads(d, b, s, k)
    <3>1. d.message = Account(s)[k].data /\ d.isBinary = Account(s)[k].binary
      BY <1>11, <2>3, <2>4 DEF Carried
    <3>2. Flagged(d, f)
      BY <1>10, <2>3, <2>4 DEF Flagged, is_FIN, opcode, Carried
    <3>3. AtPayload(d, f, b, rest)
      BY <1>7, <1>8, <1>9, <1>10, <2>3, <2>4 DEF AtPayload, Carried
    <3>4. Inside(d, f, b, rest) /\ d.readOp # "MiniHeader"
      BY <2>3, <2>4, <3>2, <3>3 DEF Inside
    <3> QED
      BY <1>1, <1>2, <2>3, <2>4, <3>1, <3>4 DEF Reads, f
  <2>5. FollowsAt(d, b, s, k)
    BY <1>11, <2>3, <2>4 DEF FollowsAt
  <2> QED
    BY <2>1, <2>5 DEF Follows, d
<1> QED
  BY <1>12, <1>13

-----------------------------------------------------------------------------
(* Whatever is read next, its completion follows what the client sent.     *)
LEMMA CompletedFollows ==
  ASSUME NEW x, Typed(x), NEW s \in Seq(Frame), NEW bytes \in Seq(Byte), NEW b \in Seq(Byte),
         Amount(x, Len(bytes)), x.readOp = "MiniHeader" => Len(bytes) = 2,
         Follows(x, bytes \o b, s)
  PROVE  Follows(Completed(x, bytes), b, s)
<1>1. PICK k \in 0 .. Len(s) : FollowsAt(x, bytes \o b, s, k)
  BY DEF Follows
<1>2. x.readOp \in {"MiniHeader", "Len16", "Len64", "Mask", "Payload"}
  BY DEF Amount, Reading
<1>3. CASE x.readOp = "MiniHeader"
  <2>1. FollowsAt(Completed(x, bytes), b, s, k)
    BY <1>1, <1>3, HeaderFollows
  <2> QED BY <2>1 DEF Follows
<1>4. CASE x.readOp \in {"Len16", "Len64"}
  <2>1. Len(bytes) = IF x.readOp = "Len16" THEN 2 ELSE 8
    BY <1>4 DEF Amount
  <2>2. FollowsAt(Completed(x, bytes), b, s, k)
    BY <1>1, <1>4, <2>1, LengthFollows
  <2> QED BY <2>2 DEF Follows
<1>5. CASE x.readOp = "Mask"
  <2>1. Len(bytes) = 4
    BY <1>5 DEF Amount
  <2>2. FollowsAt(Completed(x, bytes), b, s, k)
    BY <1>1, <1>5, <2>1, MaskFollows
  <2> QED BY <2>2 DEF Follows
<1>6. CASE x.readOp = "Payload"
  <2>1. Len(bytes) <= x.remaining
    <3>1. x.remaining \in Nat /\ Len(bytes) \in 0 .. x.remaining
      BY <1>6 DEF Amount, Typed, Connection
    <3> QED BY <3>1
  <2> QED BY <1>1, <1>6, <2>1, PayloadFollows
<1> QED
  BY <1>2, <1>3, <1>4, <1>5, <1>6

(* A read takes the first of the bytes that wait.                          *)
LEMMA TakenFirst ==
  ASSUME NEW s \in Seq(Byte), NEW n \in 0 .. Len(s)
  PROVE  SubSeq(s, 1, n) \o SubSeq(s, n + 1, Len(s)) = s
<1> DEFINE m == Len(s)  one == 1
<1>1. /\ m \in Nat /\ one = 1 /\ one \in 1 .. m + 1 /\ n \in one - 1 .. m /\ m \in n .. m
      /\ m = Len(s)
  OBVIOUS
<1> HIDE DEF m, one
<1>2. SubSeq(s, one, n) \o SubSeq(s, n + 1, m) = SubSeq(s, one, m)
  BY <1>1, ConcatAdjacentSubSeq
<1> QED
  BY <1>1, <1>2, SubSeqFull

-----------------------------------------------------------------------------
Following == tears = 0 => Follows(c, inbound, past)

(* At the start nothing has been sent and nothing read.                    *)
LEMMA InitFollowing == Init => Following
<1> SUFFICES ASSUME Init PROVE Following
  OBVIOUS
<1> DEFINE x == [New EXCEPT !.writing = <<Handshake>>, !.queued = <<Handshake>>]
           y == do_write(x)
           z == Hear(y, [on |-> "open"])
<1>1. c = do_read(z) /\ inbound = <<>> /\ past = <<>>
  BY DEF Init
<1>2. /\ z.sentClose = FALSE /\ z.state = "MiniHeader" /\ z.fragment = <<>>
      /\ z.message = <<>> /\ z.isBinary = FALSE
      /\ z.heard = Append(<<>>, [on |-> "open"])
      /\ DOMAIN z = DOMAIN New
  BY DEF New, Hear, do_write
<1> HIDE DEF x, y, z
<1>3. c = [z EXCEPT !.isReading = TRUE, !.state = "MiniHeader", !.readOp = "MiniHeader"]
  BY <1>1, <1>2 DEF do_read
<1>4. /\ c.state = "MiniHeader" /\ c.readOp = "MiniHeader" /\ c.fragment = <<>>
      /\ c.message = <<>> /\ c.isBinary = FALSE /\ c.heard = Append(<<>>, [on |-> "open"])
  BY <1>2, <1>3 DEF New
<1>5. MessagesOf(c.heard) = <<>>
  <2>1. [on |-> "open"] \in Call /\ <<>> \in Seq(Call)
    BY DEF Call
  <2>2. MessagesOf(Append(<<>>, [on |-> "open"])) = MessagesOf(<<>>)
    BY <2>1, OneMoreCall DEF Chosen
  <2> QED BY <1>4, <2>2, NoCallNoMessage
<1>6. past \in Seq(Frame) /\ Len(past) = 0 /\ 0 \in 0 .. Len(past)
  BY <1>1
<1>7. Account(past)[0] = Silence
  BY <1>6, AccountIs DEF Accounted
<1>8. Coming(past, 0, inbound)
  BY <1>1, NothingComing
<1>9. Reads(c, inbound, past, 0)
  <2>1. Account(past)[0].data = <<>> /\ Account(past)[0].binary = FALSE
    BY <1>7 DEF Silence
  <2> QED
    BY <1>4, <1>8, <2>1 DEF Reads
<1> QED
  BY <1>5, <1>6, <1>7, <1>9 DEF Following, Follows, FollowsAt, Silence

(* Each step leaves the reading where the client's frames have it.         *)
LEMMA NextFollowing == Traffic /\ Following /\ [Next]_vars => Following'
<1> SUFFICES ASSUME Traffic, Following, [Next]_vars, tears' = 0
             PROVE  Follows(c', inbound', past')
  BY DEF Following
<1>0. Typed(c) /\ inbound \in Seq(Byte) /\ past \in Seq(Frame)
  BY DEF Traffic
<1>1. Follows(c, inbound, past)
  <2>1. tears = 0 \/ ReadDone
    BY DEF Next, IoThread, vars, ClientSends, ClientVanishes, Post, Transmit, ReadError,
           WriteDone, WriteError, RunPosted
  <2>2. ReadDone => tears' = tears \/ tears' = tears + 1
    BY DEF ReadDone
  <2>3. tears = 0
    BY <2>1, <2>2 DEF Traffic
  <2> QED BY <2>3 DEF Following
<1>3. ASSUME UNCHANGED <<inbound, past>>, Aside(c, c') PROVE Follows(c', inbound', past')
  <2>1. Follows(c', inbound, past)
    BY <1>1, <1>3, AsideFollows
  <2> QED BY <1>3, <2>1
<1>4. ASSUME UNCHANGED <<c, inbound, past>> PROVE Follows(c', inbound', past')
  BY <1>1, <1>4
<1>5. CASE ClientSends
  <2>1. /\ inbound' = inbound \o Encoded(Head(script)) /\ past' = Append(past, Head(script))
        /\ script # <<>> /\ c' = c
    BY <1>5 DEF ClientSends
  <2>2. Head(script) \in Frame
    BY <2>1, HeadTailProperties DEF Traffic
  <2>3. Follows(c, inbound \o Encoded(Head(script)), Append(past, Head(script)))
    BY <1>0, <1>1, <2>2, SentFollows
  <2> QED BY <2>1, <2>3
<1>6. CASE ReadDone
  <2>1. PICK n \in Amounts :
          /\ n <= Len(inbound)
          /\ c' = Completed(c, SubSeq(inbound, 1, n))
          /\ inbound' = SubSeq(inbound, n + 1, Len(inbound))
          /\ tears' = IF c.readOp = "MiniHeader" /\ n = 1 THEN tears + 1 ELSE tears
    BY <1>6 DEF ReadDone
  <2>2. past' = past
    BY <1>6 DEF ReadDone
  <2> DEFINE bytes == SubSeq(inbound, 1, n)
             b == SubSeq(inbound, n + 1, Len(inbound))
  <2>3. bytes \in Seq(Byte) /\ Amount(c, Len(bytes)) /\ b \in Seq(Byte)
    BY <2>1, AmountsRead
  <2>4. n \in 0 .. Len(inbound)
    <3>1. n \in Nat
      <4>1. CASE c.readOp = "Payload"
        BY <4>1 DEF Amounts
      <4>2. CASE c.readOp # "Payload"
        BY <4>2 DEF Amounts
      <4> QED BY <4>1, <4>2
    <3>2. Len(inbound) \in Nat
      BY <1>0
    <3> QED BY <2>1, <3>1, <3>2
  <2>5. bytes \o b = inbound
    BY <1>0, <2>4, TakenFirst
  <2>6. c.readOp = "MiniHeader" => Len(bytes) = 2
    <3>1. c.readOp = "MiniHeader" => n = 2
      <4>1. c.readOp = "MiniHeader" => n \in {1, 2}
        BY DEF Amounts
      <4>2. ~(c.readOp = "MiniHeader" /\ n = 1)
        BY <2>1 DEF Traffic
      <4> QED BY <4>1, <4>2
    <3>2. Len(bytes) = IF 1 <= n THEN n - 1 + 1 ELSE 0
      <4>1. \A i \in 1 .. n : inbound[i] \in Byte
        BY <1>0, <2>4
      <4> QED BY <2>4, <4>1, SubSeqProperties
    <3> QED BY <3>1, <3>2
  <2>7. c' = Completed(c, bytes) /\ inbound' = b
    BY <2>1
  <2> HIDE DEF bytes, b
  <2>8. Follows(c, bytes \o b, past)
    BY <1>1, <2>5
  <2>9. Follows(Completed(c, bytes), b, past)
    BY <1>0, <2>3, <2>6, <2>8, CompletedFollows
  <2> QED BY <2>2, <2>7, <2>9
<1>7. CASE ReadError
  BY <1>0, <1>3, <1>7, ReadFailedAside DEF ReadError
<1>8. CASE WriteDone
  BY <1>0, <1>3, <1>8, WrittenAside DEF WriteDone
<1>9. CASE WriteError
  BY <1>0, <1>3, <1>9, WrittenAside DEF WriteError
<1>10. CASE RunPosted
  <2>1. c' = Enqueue(c, Head(posted)) \/ c' = c
    BY <1>10 DEF RunPosted
  <2>2. UNCHANGED <<inbound, past>>
    BY <1>10 DEF RunPosted
  <2>3. Aside(c, Enqueue(c, Head(posted)))
    BY <1>0, EnqueueAside
  <2> QED BY <1>3, <1>4, <2>1, <2>2, <2>3
<1>11. CASE ClientVanishes \/ Post \/ Transmit \/ UNCHANGED vars
  BY <1>4, <1>11 DEF ClientVanishes, Post, Transmit, vars
<1> QED
  BY <1>5, <1>6, <1>7, <1>8, <1>9, <1>10, <1>11 DEF Next, IoThread

(* jsonserver's message handler is called with the messages the client     *)
(* sent, in the order it sent them, whole and unmasked, however the reads  *)
(* cut the stream, until a read of a header brings one of its two bytes.   *)
THEOREM DeliveredAsSent == Spec => []DeliveredIsSent
<1>1. Traffic /\ Following => DeliveredIsSent
  <2> SUFFICES ASSUME Traffic, Following, ~(tears > 0) PROVE IsPrefix(Given, Said(past))
    BY DEF DeliveredIsSent
  <2>1. past \in Seq(Frame)
    BY DEF Traffic
  <2>2. PICK k \in 0 .. Len(past) : FollowsAt(c, inbound, past, k)
    <3>1. tears = 0
      BY DEF Traffic
    <3> QED BY <3>1 DEF Following, Follows
  <2>3. Given = Account(past)[k].messages
    BY <2>2 DEF Given, FollowsAt
  <2>4. IsPrefix(Account(past)[k].messages, Said(past))
    BY <2>1, SaidSoFar
  <2> QED BY <2>3, <2>4
<1>2. Init => Traffic /\ Order /\ Following
  BY InitTraffic, InitFollowing
<1>3. Traffic /\ Order /\ Following /\ [Next]_vars => Traffic' /\ Order' /\ Following'
  BY NextTraffic, NextFollowing
<1> QED
  BY <1>1, <1>2, <1>3, PTL DEF Spec
==============================================================================
