-------------------------- MODULE JsonServer_proofs --------------------------
(***************************************************************************)
(* Theorems about JsonServer, for every number of connections, io threads, *)
(* response threads, names, key lists and requests.                        *)
(***************************************************************************)
EXTENDS JsonServer, FiniteSetTheorems, SequenceTheorems, TLAPS

-----------------------------------------------------------------------------
(* What a handler or the server thread holds where it is: a connection,    *)
(* and the request it is about to push, or to put back.                    *)
HandlersHold ==
  \A t \in IoThreads : /\ io[t].op # "idle" => io[t].conn \in Addr
                       /\ io[t].op = "read" => io[t].request \in Request
ServerHolds  == server.pc = "put back" => server.hand \in Request

Typing == TypeOK /\ HandlersHold /\ ServerHolds

(* What ends has one of the reasons.                                       *)
LEMMA EndType ==
  ASSUME NEW ids \in SUBSET Nat, NEW why \in Reasons,
         DOMAIN ended \subseteq Nat,
         \A id \in DOMAIN ended : ended[id] \in Reasons
  PROVE  /\ DOMAIN End(ids, why) \subseteq Nat
         /\ \A id \in DOMAIN End(ids, why) : End(ids, why)[id] \in Reasons
BY DEF End

(* The messages that a queue stands for are numbers.                       *)
LEMMA IdsOfType ==
  ASSUME NEW q \in Seq(Request)
  PROVE  IdsOf(q) \subseteq Nat
<1>1. SUFFICES ASSUME NEW i \in DOMAIN q, NEW x \in q[i].ids
               PROVE  x \in Nat
  BY DEF IdsOf
<1>2. q[i] \in Request
  BY ElementOfSeq
<1>. QED  BY <1>2 DEF Request

(* Merging two requests makes a request.                                   *)
LEMMA MergedType ==
  ASSUME NEW first \in Request \cup {None}, NEW r \in Request
  PROVE  Merged(first, r) \in Request
<1>1. CASE first = None
  BY <1>1 DEF Merged
<1>2. CASE first # None
  <2>1. first.keys \o r.keys \in Seq(Keys)
    BY <1>2, ConcatProperties DEF Request
  <2>2. first.ids \cup r.ids \in SUBSET Nat
    BY <1>2 DEF Request
  <2>. QED  BY <1>2, <2>1, <2>2 DEF Merged, Request
<1>. QED  BY <1>1, <1>2

(* The types hold at the start.                                            *)
LEMMA InitTyping == Init => Typing
BY NoneIsNone, EmptySeq
   DEF Init, Typing, TypeOK, HandlersHold, ServerHolds, ObjectTypes,
       HandlerTypes, LockTypes, QueueTypes, ServerTypes, HistoryTypes,
       IdleHandler, HandlerOps, Reasons

(* What onclose leaves of a queue is a queue.                              *)
LEMMA PurgeType ==
  ASSUME NEW q \in Seq(Request), NEW a \in Addr, NEW left,
         IsPurgeOf(left, q, a)
  PROVE  left \in Seq(Request)
<1>. DEFINE stay == {i \in DOMAIN q : ~BelongsTo(q[i], a)}
            n    == Cardinality(stay)
<1>1. PICK f \in [1 .. n -> stay] : left = [i \in DOMAIN f |-> q[f[i]]]
  BY DEF IsPurgeOf
<1>2. n \in Nat
  <2>1. DOMAIN q = 1 .. Len(q) /\ Len(q) \in Nat
    BY LenProperties
  <2>2. IsFiniteSet(DOMAIN q)
    BY <2>1, FS_Interval
  <2>3. IsFiniteSet(stay)
    BY <2>2, FS_Subset
  <2>. QED  BY <2>3, FS_CardinalityType
<1>3. \A i \in 1 .. n : q[f[i]] \in Request
  BY <1>1, ElementOfSeq
<1>4. left = [i \in 1 .. n |-> q[f[i]]]
  BY <1>1
<1>. QED  BY <1>2, <1>3, <1>4, IsASeq

(* Whatever comes of an unlocked push_front is a queue.                    *)
LEMMA PushFrontType ==
  ASSUME pendingReadRequests \in Seq(Request), NEW r \in Request,
         NEW q \in PushFrontOutcomes(r)
  PROVE  /\ q \in Seq(Request)
         /\ WithFront(r) \in Seq(Request)
<1>1. <<r>> \in Seq(Request)
  OBVIOUS
<1>2. WithFront(r) \in Seq(Request)
  BY <1>1, ConcatProperties DEF WithFront
<1>3. Len(WithFront(r)) \in Nat
  BY <1>2, LenProperties
<1>4. SubSeq(WithFront(r), 1, Len(WithFront(r)) - 1) \in Seq(Request)
  <2>1. \A i \in 1 .. Len(WithFront(r)) - 1 : WithFront(r)[i] \in Request
    BY <1>2, <1>3, ElementOfSeq
  <2>. QED  BY <1>3, <2>1, SubSeqProperties
<1>. QED  BY <1>2, <1>4 DEF PushFrontOutcomes

(* A queue has requests in front of and behind each of its requests.       *)
LEMMA PoppedType ==
  ASSUME pendingReadRequests \in Seq(Request),
         NEW i \in DOMAIN pendingReadRequests
  PROVE  /\ pendingReadRequests[i] \in Request
         /\ SubSeq(pendingReadRequests, i + 1, Len(pendingReadRequests))
              \in Seq(Request)
         /\ SubSeq(pendingReadRequests, 1, i - 1) \in Seq(Request)
<1>. DEFINE q == pendingReadRequests
<1>1. q \in [1 .. Len(q) -> Request] /\ Len(q) \in Nat /\ i \in 1 .. Len(q)
  BY LenProperties
<1>2. SubSeq(q, i + 1, Len(q)) \in Seq(Request)
  BY <1>1, SubSeqProperties
<1>3. SubSeq(q, 1, i - 1) \in Seq(Request)
  BY <1>1, SubSeqProperties
<1>. QED  BY <1>1, <1>2, <1>3

-----------------------------------------------------------------------------
(* What io is after a handler goes on, or starts, or returns.              *)
LEMMA HandlerMoves ==
  ASSUME HandlerTypes, HandlersHold, NEW t \in IoThreads,
         \/ Return(t)
         \/ \E a \in Addr, op \in HandlerOps \ {"read"} :
              io' = [io EXCEPT ![t] = Handler(op, a)]
  PROVE  HandlerTypes' /\ HandlersHold'
BY DEF HandlerTypes, HandlersHold, Return, IdleHandler, Handler, HandlerOps

(* A handler that goes on to its next step holds what it held.             *)
LEMMA HandlerGoesOn ==
  ASSUME HandlerTypes, HandlersHold, NEW t \in IoThreads, io[t].op # "idle",
         NEW op \in HandlerOps \ {"read"}, Goto(t, op)
  PROVE  HandlerTypes' /\ HandlersHold'
<1>1. io[t].conn \in Addr
  BY DEF HandlersHold
<1>. QED  BY <1>1, HandlerMoves DEF Goto

-----------------------------------------------------------------------------
(* Each step keeps the types.  First the io threads.                       *)
LEMMA HandlerTyping ==
  ASSUME Typing, NEW t \in IoThreads, FromClient(t) \/ InHandler(t)
  PROVE  Typing'
<1>. USE DEF Typing, TypeOK
<1>1. ASSUME NEW a \in Addr, Accept(t, a)
      PROVE  Typing'
  <2>1. HandlerTypes' /\ HandlersHold'
    BY <1>1, HandlerMoves DEF Accept, HandlerOps
  <2>2. ObjectTypes'
    BY <1>1 DEF Accept, ObjectTypes, userVars
  <2>. QED
    BY <1>1, <2>1, <2>2
       DEF Accept, LockTypes, QueueTypes, ServerTypes, HistoryTypes,
           ServerHolds, userVars, readVars, serverVars, responseVars
<1>2. ASSUME NEW a \in Addr, NEW keys \in KeyLists, ReceiveRead(t, a, keys)
      PROVE  Typing'
  <2>. DEFINE entry == [conn |-> a, session |-> session[a], keys |-> keys]
              r     == [conn |-> a, keys |-> keys, receiveTime |-> Len(log) + 1,
                        ids |-> {Len(log) + 1}]
  <2>1. keys \in Seq(Keys) /\ Len(log) \in Nat
    BY KeyListsType, LenProperties DEF HistoryTypes
  <2>2. entry \in [conn : Addr, session : Nat, keys : Seq(Keys)]
    BY <2>1 DEF ObjectTypes
  <2>3. HistoryTypes'
    BY <1>2, <2>2, AppendProperties DEF ReceiveRead, HistoryTypes
  <2>4. r \in Request
    BY <2>1 DEF Request
  <2>5. HandlerTypes' /\ HandlersHold'
    BY <1>2, <2>4 DEF ReceiveRead, HandlerTypes, HandlersHold, HandlerOps
  <2>. QED
    BY <1>2, <2>3, <2>5
       DEF ReceiveRead, ObjectTypes, LockTypes, QueueTypes, ServerTypes,
           ServerHolds, objectVars, userVars, readVars, serverVars,
           responseVars
<1>3. ASSUME NEW a \in Addr, ReceiveWrite(t, a) \/ Close(t, a)
      PROVE  Typing'
  <2>1. HandlerTypes' /\ HandlersHold'
    BY <1>3, HandlerMoves DEF ReceiveWrite, Close, HandlerOps
  <2>. QED
    BY <1>3, <2>1
       DEF ReceiveWrite, Close, ObjectTypes, LockTypes, QueueTypes,
           ServerTypes, HistoryTypes, ServerHolds, objectVars, userVars,
           readVars, serverVars, responseVars
<1>4. ASSUME NEW a \in Addr, Destroy(t, a)
      PROVE  Typing'
  BY <1>4
     DEF Destroy, ObjectTypes, HandlerTypes, HandlersHold, LockTypes,
         QueueTypes, ServerTypes, HistoryTypes, ServerHolds, userVars,
         readVars, serverVars, responseVars
<1>5. ASSUME AddConnection(t)
      PROVE  Typing'
  <2>1. HandlerTypes' /\ HandlersHold'
    BY <1>5, HandlerMoves DEF AddConnection
  <2>2. ObjectTypes'
    BY <1>5 DEF AddConnection, Doing, ObjectTypes, HandlersHold, objectVars
  <2>. QED
    BY <1>5, <2>1, <2>2
       DEF AddConnection, LockTypes, QueueTypes, ServerTypes, HistoryTypes,
           ServerHolds, readVars, serverVars, responseVars
<1>6. ASSUME AddPendingReadRequest(t)
      PROVE  Typing'
  <2>1. HandlerTypes' /\ HandlersHold'
    BY <1>6, HandlerGoesOn DEF AddPendingReadRequest, Doing, HandlerOps
  <2>2. io[t].request \in Request
    BY <1>6 DEF AddPendingReadRequest, Doing, HandlersHold
  <2>3. QueueTypes'
    BY <1>6, <2>2, AppendProperties
       DEF AddPendingReadRequest, QueueTypes, responseVars
  <2>. QED
    BY <1>6, <2>1, <2>3
       DEF AddPendingReadRequest, ObjectTypes, LockTypes, ServerTypes,
           HistoryTypes, ServerHolds, objectVars, userVars, serverVars
<1>7. ASSUME FinishAddPendingReadRequest(t) \/ SendWriteResponse(t)
      PROVE  Typing'
  <2>1. HandlerTypes' /\ HandlersHold'
    BY <1>7, HandlerMoves DEF FinishAddPendingReadRequest, SendWriteResponse
  <2>. QED
    BY <1>7, <2>1
       DEF FinishAddPendingReadRequest, SendWriteResponse, UnlockReads,
           ObjectTypes, LockTypes, QueueTypes, ServerTypes, HistoryTypes,
           ServerHolds, objectVars, userVars, serverVars, responseVars
<1>8. ASSUME WriteSymbolValue(t) \/ RemoveConnection(t)
      PROVE  Typing'
  <2>1. HandlerTypes' /\ HandlersHold'
    BY <1>8, HandlerGoesOn
       DEF WriteSymbolValue, RemoveConnection, Doing, HandlerOps
  <2>. QED
    BY <1>8, <2>1
       DEF WriteSymbolValue, RemoveConnection, ObjectTypes, LockTypes,
           QueueTypes, ServerTypes, HistoryTypes, ServerHolds, objectVars,
           userVars, readVars, serverVars, responseVars
<1>9. ASSUME PurgeRequests(t)
      PROVE  Typing'
  <2>. DEFINE a      == io[t].conn
              q      == pendingReadRequests
              purged == {i \in DOMAIN q : BelongsTo(q[i], a)}
              ids    == UNION {q[i].ids : i \in purged}
  <2>1. HandlerTypes' /\ HandlersHold'
    BY <1>9, HandlerGoesOn DEF PurgeRequests, Doing, HandlerOps
  <2>2. a \in Addr
    BY <1>9 DEF PurgeRequests, Doing, HandlersHold
  <2>3. QueueTypes'
    BY <1>9, <2>2, PurgeType DEF PurgeRequests, QueueTypes, responseVars
  <2>4. ids \in SUBSET Nat
    <3>1. IdsOf(q) \subseteq Nat
      BY IdsOfType DEF QueueTypes
    <3>. QED  BY <3>1 DEF IdsOf
  <2>5. HistoryTypes'
    <3>1. ended' = End(ids, "purged")
      BY <1>9 DEF PurgeRequests
    <3>2. "purged" \in Reasons
      BY DEF Reasons
    <3>. QED  BY <1>9, <2>4, <3>1, <3>2, EndType DEF PurgeRequests, HistoryTypes
  <2>. QED
    BY <1>9, <2>1, <2>3, <2>5
       DEF PurgeRequests, Unregister, ObjectTypes, LockTypes, ServerTypes,
           ServerHolds, objectVars, serverVars
<1>10. ASSUME FinishRemoveConnection(t)
       PROVE  Typing'
  <2>1. HandlerTypes' /\ HandlersHold'
    BY <1>10, HandlerMoves DEF FinishRemoveConnection
  <2>. QED
    BY <1>10, <2>1
       DEF FinishRemoveConnection, UnlockReads, ObjectTypes, LockTypes,
           QueueTypes, ServerTypes, HistoryTypes, ServerHolds, serverVars,
           responseVars
<1>. QED
  BY <1>1, <1>2, <1>3, <1>4, <1>5, <1>6, <1>7, <1>8, <1>9, <1>10
     DEF FromClient, InHandler

(* The server thread.                                                      *)
LEMMA ServerTyping ==
  ASSUME Typing, ServerThread
  PROVE  Typing'
<1>. USE DEF Typing, TypeOK
<1>. DEFINE q == pendingReadRequests
<1>0. q \in Seq(Request)
  BY DEF QueueTypes
<1>1. ASSUME NEW i \in DOMAIN q, TakesRequestAt(i)
      PROVE  /\ q[i] \in Request
             /\ q' \in Seq(Request)
             /\ DOMAIN ended' \subseteq Nat
             /\ \A id \in DOMAIN ended' : ended'[id] \in Reasons
  <2>. DEFINE old == SubSeq(q, 1, i - 1)
  <2>1. IdsOf(old) \subseteq Nat
    BY <1>0, PoppedType, IdsOfType
  <2>2. ended' = End(IdsOf(old), "expired")
    BY <1>1 DEF TakesRequestAt
  <2>3. "expired" \in Reasons
    BY DEF Reasons
  <2>4. /\ DOMAIN ended' \subseteq Nat
        /\ \A id \in DOMAIN ended' : ended'[id] \in Reasons
    BY <2>1, <2>2, <2>3, EndType DEF HistoryTypes
  <2>. QED  BY <1>0, <1>1, <2>4, PoppedType DEF TakesRequestAt
<1>2. ASSUME MergeRequest
      PROVE  Typing'
  <2>1. PICK i \in DOMAIN q :
          /\ TakesRequestAt(i)
          /\ variables' = variables \cup {q[i].keys[k] : k \in DOMAIN q[i].keys}
          /\ currentRequest' = [currentRequest EXCEPT ![q[i].conn] =
                                  Merged(currentRequest[q[i].conn], q[i])]
    BY <1>2 DEF MergeRequest
  <2>2. q[i] \in Request /\ q[i].conn \in Addr /\ q[i].keys \in Seq(Keys)
    BY <1>1, <2>1 DEF Request
  <2>3. \A k \in DOMAIN q[i].keys : q[i].keys[k] \in Keys
    BY <2>2, LenProperties
  <2>4. Merged(currentRequest[q[i].conn], q[i]) \in Request
    BY <2>2, MergedType DEF ServerTypes
  <2>5. ServerTypes'
    <3>1. server' = server
      BY <1>2 DEF MergeRequest
    <3>2. variables' \subseteq Keys
      BY <2>1, <2>3 DEF ServerTypes
    <3>3. currentRequest' \in [Addr -> Request \cup {None}]
      BY <2>1, <2>4 DEF ServerTypes
    <3>. QED  BY <3>1, <3>2, <3>3 DEF ServerTypes
  <2>6. QueueTypes' /\ HistoryTypes'
    BY <1>1, <1>2, <2>1
       DEF MergeRequest, QueueTypes, HistoryTypes, responseVars
  <2>. QED
    BY <1>2, <2>5, <2>6
       DEF MergeRequest, AtServer, ObjectTypes, HandlerTypes, HandlersHold,
           LockTypes, ServerHolds, objectVars, userVars
<1>3. ASSUME RejectRequest
      PROVE  Typing'
  <2>1. PICK i \in DOMAIN q :
          TakesRequestAt(i) /\ server' = [pc |-> "put back", hand |-> q[i]]
    BY <1>3 DEF RejectRequest
  <2>2. ServerTypes' /\ ServerHolds'
    BY <1>1, <1>3, <2>1 DEF RejectRequest, ServerTypes, ServerHolds
  <2>3. QueueTypes' /\ HistoryTypes'
    BY <1>1, <1>3, <2>1
       DEF RejectRequest, QueueTypes, HistoryTypes, responseVars
  <2>. QED
    BY <1>3, <2>2, <2>3
       DEF RejectRequest, ObjectTypes, HandlerTypes, HandlersHold, LockTypes,
           objectVars, userVars
<1>4. ASSUME EndCollect
      PROVE  Typing'
  <2>1. HistoryTypes'
    <3>1. ended' = End(IdsOf(q), "expired") /\ "expired" \in Reasons
      BY <1>4 DEF EndCollect, Reasons
    <3>. QED
      BY <1>0, <1>4, <3>1, IdsOfType, EndType DEF EndCollect, HistoryTypes
  <2>2. QueueTypes'
    BY <1>4, EmptySeq DEF EndCollect, QueueTypes, responseVars
  <2>. QED
    BY <1>4, <2>1, <2>2
       DEF EndCollect, Proceed, ObjectTypes, HandlerTypes, HandlersHold,
           LockTypes, ServerTypes, ServerHolds, objectVars, userVars
<1>5. ASSUME PutBack
      PROVE  Typing'
  <2>. DEFINE whole == WithFront(server.hand)
  <2>1. server.hand \in Request
    BY <1>5 DEF PutBack, AtServer, ServerHolds
  <2>2. whole \in PushFrontOutcomes(server.hand)
    BY DEF PushFrontOutcomes
  <2>3. q' \in PushFrontOutcomes(server.hand)
    BY <1>5, <2>2 DEF PutBack
  <2>4. whole \in Seq(Request) /\ q' \in Seq(Request)
    BY <1>0, <2>1, <2>2, <2>3, PushFrontType
  <2>5. HistoryTypes'
    <3>1. IdsOf(whole) \ IdsOf(q') \in SUBSET Nat
      BY <2>4, IdsOfType
    <3>2. ended' = End(IdsOf(whole) \ IdsOf(q'), "lost") /\ "lost" \in Reasons
      BY <1>5 DEF PutBack, Reasons
    <3>. QED  BY <1>5, <3>1, <3>2, EndType DEF PutBack, HistoryTypes
  <2>. QED
    BY <1>5, <2>4, <2>5
       DEF PutBack, Proceed, ObjectTypes, HandlerTypes, HandlersHold,
           LockTypes, QueueTypes, ServerTypes, ServerHolds, objectVars,
           userVars, responseVars
<1>6. ASSUME Consolidate
      PROVE  Typing'
  <2>1. BatchedIds \in SUBSET Nat
    <3>1. \A a \in Batched : currentRequest[a] \in Request
      BY DEF Batched, ServerTypes
    <3>2. \A a \in Batched : currentRequest[a].ids \subseteq Nat
      BY <3>1 DEF Request
    <3>. QED  BY <3>2 DEF BatchedIds
  <2>2. HistoryTypes'
    <3>1. CASE variables = {}
      <4>1. ended' = End(BatchedIds, "no keys") /\ "no keys" \in Reasons
        BY <1>6, <3>1 DEF Consolidate, Reasons
      <4>. QED  BY <1>6, <2>1, <4>1, EndType DEF Consolidate, HistoryTypes
    <3>2. CASE variables # {}
      BY <1>6, <3>2 DEF Consolidate, HistoryTypes
    <3>. QED  BY <3>1, <3>2
  <2>3. ServerTypes' /\ ServerHolds'
    <3>1. CASE variables = {}
      <4>1. /\ currentRequest' = [a \in Addr |-> None]
            /\ server' = [pc |-> "collect", hand |-> None]
            /\ variables' = variables
        BY <1>6, <3>1 DEF Consolidate, Proceed
      <4>. QED  BY <4>1 DEF ServerTypes, ServerHolds
    <3>2. CASE variables # {}
      <4>1. /\ variables' \subseteq variables
            /\ server' = [pc |-> "read", hand |-> None]
            /\ currentRequest' = currentRequest
        BY <1>6, <3>2 DEF Consolidate, Consolidated, Proceed
      <4>. QED  BY <4>1 DEF ServerTypes, ServerHolds
    <3>. QED  BY <3>1, <3>2
  <2>. QED
    BY <1>6, <2>2, <2>3
       DEF Consolidate, ObjectTypes, HandlerTypes, HandlersHold, LockTypes,
           QueueTypes, objectVars, userVars, readVars, responseVars
<1>7. ASSUME ReadVariables
      PROVE  Typing'
  BY <1>7
     DEF ReadVariables, Proceed, ObjectTypes, HandlerTypes, HandlersHold,
         LockTypes, QueueTypes, ServerTypes, ServerHolds, HistoryTypes,
         objectVars, userVars, readVars, responseVars
<1>8. ASSUME QueueResponses
      PROVE  Typing'
  <2>. DEFINE n == Cardinality(Batched)
  <2>1. PICK order \in [1 .. n -> Batched] :
          pendingResponse' = pendingResponse
            \o [i \in DOMAIN order |-> currentRequest[order[i]]]
    BY <1>8 DEF QueueResponses
  <2>2. \A i \in DOMAIN order : currentRequest[order[i]] \in Request
    BY DEF Batched, ServerTypes
  <2>3. [i \in DOMAIN order |-> currentRequest[order[i]]] \in Seq(Request)
    <3>1. n \in Nat
      BY AddrFinite, FS_Subset, FS_CardinalityType DEF Batched
    <3>. QED  BY <2>2, <3>1
  <2>4. QueueTypes'
    BY <1>8, <2>1, <2>3, ConcatProperties DEF QueueResponses, QueueTypes, readVars
  <2>. QED
    BY <1>8, <2>4
       DEF QueueResponses, Proceed, ObjectTypes, HandlerTypes, HandlersHold,
           LockTypes, ServerTypes, ServerHolds, HistoryTypes, objectVars,
           userVars, readVars
<1>. QED
  BY <1>2, <1>3, <1>4, <1>5, <1>6, <1>7, <1>8 DEF ServerThread

(* The response threads, and time.                                         *)
LEMMA ResponseTyping ==
  ASSUME Typing, NEW p \in Responders, ResponseThread(p)
  PROVE  Typing'
<1>. USE DEF Typing, TypeOK
<1>1. ASSUME TakeResponse(p)
      PROVE  Typing'
  <2>1. QueueTypes'
    BY <1>1, HeadTailProperties DEF TakeResponse, QueueTypes, readVars
  <2>. QED
    BY <1>1, <2>1
       DEF TakeResponse, ObjectTypes, HandlerTypes, HandlersHold, LockTypes,
           ServerTypes, ServerHolds, HistoryTypes, objectVars, userVars,
           readVars, serverVars
<1>2. ASSUME SendResponse(p)
      PROVE  Typing'
  <2>1. response[p] \in Request
    BY <1>2 DEF SendResponse, QueueTypes
  <2>2. QueueTypes'
    BY <1>2 DEF SendResponse, QueueTypes, readVars
  <2>3. HistoryTypes'
    <3>. DEFINE r     == response[p]
                given == [conn |-> r.conn, session |-> session[r.conn],
                          keys |-> r.keys, ids |-> r.ids]
    <3>1. CASE IsUser(r.conn)
      <4>1. given \in [conn : Addr, session : Nat, keys : Seq(Keys),
                       ids : SUBSET Nat]
        BY <2>1 DEF Request, ObjectTypes
      <4>. QED
        <5>1. /\ answers' = Append(answers, given)
              /\ UNCHANGED <<horizon, log, ended>>
          BY <1>2, <3>1 DEF SendResponse
        <5>. QED  BY <4>1, <5>1, AppendProperties DEF HistoryTypes
    <3>2. CASE ~IsUser(r.conn)
      <4>1. r.ids \in SUBSET Nat /\ "no user" \in Reasons
        BY <2>1 DEF Request, Reasons
      <4>2. ended' = End(r.ids, "no user")
        BY <1>2, <3>2 DEF SendResponse
      <4>. QED
        BY <1>2, <3>2, <4>1, <4>2, EndType DEF SendResponse, HistoryTypes
    <3>. QED  BY <3>1, <3>2
  <2>. QED
    BY <1>2, <2>2, <2>3
       DEF SendResponse, ObjectTypes, HandlerTypes, HandlersHold, LockTypes,
           ServerTypes, ServerHolds, objectVars, userVars, readVars,
           serverVars
<1>. QED  BY <1>1, <1>2 DEF ResponseThread

(* Each step keeps the types.                                              *)
LEMMA TypingStep == Typing /\ [Next]_vars => Typing'
<1>. SUFFICES ASSUME Typing, [Next]_vars
              PROVE  Typing'
  OBVIOUS
<1>1. CASE Tick
  <2>1. HistoryTypes'
    BY <1>1 DEF Tick, Later, Typing, TypeOK, HistoryTypes
  <2>. QED
    BY <1>1, <2>1
       DEF Tick, Typing, TypeOK, ObjectTypes, HandlerTypes, HandlersHold,
           LockTypes, QueueTypes, ServerTypes, ServerHolds, objectVars,
           userVars, readVars, serverVars, responseVars
<1>2. CASE UNCHANGED vars
  BY <1>2
     DEF vars, Typing, TypeOK, ObjectTypes, HandlerTypes, HandlersHold,
         LockTypes, QueueTypes, ServerTypes, ServerHolds, HistoryTypes,
         objectVars, userVars, readVars, serverVars, responseVars
<1>. QED
  BY <1>1, <1>2, HandlerTyping, ServerTyping, ResponseTyping DEF Next

(* The variables keep their types: no handler pushes, and the server       *)
(* thread puts back, anything but a request.                               *)
THEOREM TypeCorrect == Spec => []TypeOK
<1>1. Spec => []Typing
  BY InitTyping, TypingStep, PTL DEF Spec
<1>. QED  BY <1>1, PTL DEF Typing

-----------------------------------------------------------------------------
(* UsersAreAlive is not inductive by itself: it needs that a handler works *)
(* on an object of its own thread, and that an object whose removal is     *)
(* under way or over is not registered again.                              *)
OwnObject    == \A t \in IoThreads : io[t].op # "idle" =>
                  home[io[t].conn] = t /\ Alive(io[t].conn)
OpeningIsNew == \A t \in IoThreads :
                  io[t].op = "open" => object[io[t].conn] = "open"
PurgedIsGone == \A t \in IoThreads :
                  io[t].op = "purging" => io[t].conn \notin users
UsersAreOpen == \A a \in users : object[a] = "open"

Registration == OwnObject /\ OpeningIsNew /\ PurgedIsGone /\ UsersAreOpen

(* At the start no connection is registered.                               *)
LEMMA InitRegistration == Init => Registration
BY DEF Init, Registration, OwnObject, OpeningIsNew, PurgedIsGone,
       UsersAreOpen, IdleHandler

(* The server and the response threads change nothing of it.               *)
LEMMA RegistrationFrame ==
  ASSUME Registration, UNCHANGED <<objectVars, users, io>>
  PROVE  Registration'
BY DEF Registration, OwnObject, OpeningIsNew, PurgedIsGone, UsersAreOpen,
       Alive, objectVars

(* Each step of an io thread keeps those and only those registered that    *)
(* are open.                                                               *)
LEMMA HandlerRegistration ==
  ASSUME Typing, Registration, NEW t \in IoThreads,
         FromClient(t) \/ InHandler(t)
  PROVE  Registration'
<1>. USE DEF Registration, OwnObject, OpeningIsNew, PurgedIsGone,
             UsersAreOpen, Alive
<1>0. /\ io \in [IoThreads -> [op : HandlerOps, conn : Addr \cup {None},
                               request : Request \cup {None}]]
      /\ object \in [Addr -> {"free", "open", "closed"}]
      /\ home \in [Addr -> IoThreads \cup {None}]
      /\ users \subseteq Addr
      /\ \A u \in IoThreads : io[u].op # "idle" => io[u].conn \in Addr
  BY DEF Typing, TypeOK, HandlerTypes, ObjectTypes, HandlersHold
<1>1. ASSUME NEW a \in Addr, Accept(t, a)
      PROVE  Registration'
  <2>1. /\ io' = [io EXCEPT ![t] = Handler("open", a)]
        /\ object' = [object EXCEPT ![a] = "open"]
        /\ home' = [home EXCEPT ![a] = t]
        /\ users' = users /\ object[a] = "free"
    BY <1>1 DEF Accept, userVars
  <2>2. \A u \in IoThreads : io[u].op # "idle" => io[u].conn # a
    BY <2>1
  <2>. QED  BY <1>0, <2>1, <2>2 DEF Handler
<1>2. ASSUME NEW a \in Addr, \/ \E keys \in KeyLists : ReceiveRead(t, a, keys)
                             \/ ReceiveWrite(t, a) \/ Close(t, a)
      PROVE  Registration'
  <2>1. /\ io'[t].op \in {"read", "write", "close"} /\ io'[t].conn = a
        /\ \A u \in IoThreads \ {t} : io'[u] = io[u]
        /\ object[a] # "free" /\ home[a] = t
        /\ UNCHANGED <<object, home, users>>
    <3>1. \E h : /\ io' = [io EXCEPT ![t] = h] /\ h.conn = a
                 /\ h.op \in {"read", "write", "close"}
      <4>1. CASE ReceiveWrite(t, a)
        <5>. DEFINE h == Handler("write", a)
        <5>1. io' = [io EXCEPT ![t] = h]
          BY <4>1 DEF ReceiveWrite
        <5>2. h.conn = a /\ h.op \in {"write", "close"}
          BY DEF Handler
        <5>. QED  BY <5>1, <5>2
      <4>2. CASE Close(t, a)
        <5>. DEFINE h == Handler("close", a)
        <5>1. io' = [io EXCEPT ![t] = h]
          BY <4>2 DEF Close
        <5>2. h.conn = a /\ h.op \in {"write", "close"}
          BY DEF Handler
        <5>. QED  BY <5>1, <5>2
      <4>3. CASE \E keys \in KeyLists : ReceiveRead(t, a, keys)
        <5>1. PICK keys \in KeyLists : ReceiveRead(t, a, keys)
          BY <4>3
        <5>. DEFINE h == [op |-> "read", conn |-> a,
                          request |-> [conn |-> a, keys |-> keys,
                                       receiveTime |-> Len(log) + 1,
                                       ids |-> {Len(log) + 1}]]
        <5>2. io' = [io EXCEPT ![t] = h]
          BY <5>1 DEF ReceiveRead
        <5>3. h.conn = a /\ h.op = "read"
          OBVIOUS
        <5>. QED  BY <5>2, <5>3
      <4>. QED  BY <1>2, <4>1, <4>2, <4>3
    <3>2. /\ object[a] # "free" /\ home[a] = t
          /\ UNCHANGED <<object, home, users>>
      BY <1>2 DEF ReceiveRead, ReceiveWrite, Close, objectVars, userVars
    <3>. QED  BY <1>0, <3>1, <3>2
  <2>. QED  BY <1>0, <2>1
<1>3. ASSUME NEW a \in Addr, Destroy(t, a)
      PROVE  Registration'
  <2>1. /\ object' = [object EXCEPT ![a] = "free"]
        /\ home' = [home EXCEPT ![a] = None]
        /\ io[t].op = "idle" /\ home[a] = t /\ object[a] = "closed"
        /\ UNCHANGED <<users, io>>
    BY <1>3 DEF Destroy, Doing, userVars
  <2>2. \A u \in IoThreads : io[u].op # "idle" => io[u].conn # a
    BY <2>1
  <2>. QED  BY <1>0, <2>1, <2>2
<1>4. ASSUME AddConnection(t)
      PROVE  Registration'
  <2>1. /\ users' = users \cup {io[t].conn}
        /\ io' = [io EXCEPT ![t] = IdleHandler]
        /\ io[t].op = "open"
        /\ UNCHANGED <<object, home>>
    BY <1>4 DEF AddConnection, Doing, Return, objectVars
  <2>2. \A u \in IoThreads \ {t} : io[u].op # "idle" => io[u].conn # io[t].conn
    BY <2>1
  <2>. QED  BY <1>0, <2>1, <2>2 DEF IdleHandler
<1>5. ASSUME \/ FinishAddPendingReadRequest(t) \/ SendWriteResponse(t)
      PROVE  Registration'
  <2>1. io' = [io EXCEPT ![t] = IdleHandler] /\ UNCHANGED <<object, home, users>>
    BY <1>5 DEF FinishAddPendingReadRequest, SendWriteResponse, Return,
                objectVars, userVars
  <2>. QED  BY <1>0, <2>1 DEF IdleHandler
<1>6. ASSUME \/ AddPendingReadRequest(t) \/ WriteSymbolValue(t)
             \/ RemoveConnection(t)
      PROVE  Registration'
  <2>1. /\ io'[t].op \in {"pushing", "writing", "removing"}
        /\ io'[t].conn = io[t].conn /\ io[t].op # "idle"
        /\ \A u \in IoThreads \ {t} : io'[u] = io[u]
        /\ UNCHANGED <<object, home, users>>
    BY <1>0, <1>6
       DEF AddPendingReadRequest, WriteSymbolValue, RemoveConnection, Doing,
           Goto, Handler, objectVars, userVars
  <2>. QED  BY <1>0, <2>1
<1>7. ASSUME PurgeRequests(t)
      PROVE  Registration'
  <2>1. /\ io' = [io EXCEPT ![t] = Handler("purging", io[t].conn)]
        /\ users' = users \ {io[t].conn} /\ io[t].op = "removing"
        /\ UNCHANGED <<object, home>>
    BY <1>7 DEF PurgeRequests, Doing, Goto, Unregister, objectVars
  <2>. QED  BY <1>0, <2>1 DEF Handler
<1>8. ASSUME FinishRemoveConnection(t)
      PROVE  Registration'
  <2>. DEFINE a == io[t].conn
  <2>1. /\ io' = [io EXCEPT ![t] = IdleHandler]
        /\ io[t].op = "purging" /\ users' = users
        /\ \E new \in {"free", "closed"} : object' = [object EXCEPT ![a] = new]
        /\ home' = [home EXCEPT ![a] = None] \/ home' = home
    BY <1>8 DEF FinishRemoveConnection, Doing, Return
  <2>2. a \in Addr /\ a \notin users /\ home[a] = t
    BY <1>0, <2>1
  <2>3. \A u \in IoThreads \ {t} : io[u].op # "idle" => io[u].conn # a
    BY <2>2
  <2>. QED  BY <1>0, <2>1, <2>2, <2>3 DEF IdleHandler
<1>. QED
  BY <1>1, <1>2, <1>3, <1>4, <1>5, <1>6, <1>7, <1>8 DEF FromClient, InHandler

(* So does every other step, which changes nothing of it.                  *)
LEMMA RegistrationStep == Typing /\ Registration /\ [Next]_vars => Registration'
<1>. SUFFICES ASSUME Typing, Registration, [Next]_vars
              PROVE  Registration'
  OBVIOUS
<1>1. CASE ServerThread
  BY <1>1, RegistrationFrame
     DEF ServerThread, MergeRequest, RejectRequest, EndCollect, PutBack,
         Consolidate, ReadVariables, QueueResponses, userVars
<1>2. CASE Tick \/ UNCHANGED vars
  BY <1>2, RegistrationFrame DEF Tick, vars, userVars
<1>3. CASE \E p \in Responders : ResponseThread(p)
  BY <1>3, RegistrationFrame
     DEF ResponseThread, TakeResponse, SendResponse, userVars
<1>. QED  BY <1>1, <1>2, <1>3, HandlerRegistration DEF Next

(* sendResponse finds in `users` only connections whose object is there:   *)
(* however closes, re-opened addresses and sends interleave, it never      *)
(* dereferences a freed one.                                               *)
THEOREM NoSendToFreedConnection == Spec => []UsersAreAlive
<1>1. Spec => [](Typing /\ Registration)
  BY InitTyping, TypingStep, InitRegistration, RegistrationStep, PTL DEF Spec
<1>2. Registration => UsersAreAlive
  BY DEF Registration, UsersAreOpen, UsersAreAlive, Alive
<1>. QED  BY <1>1, <1>2, PTL

-----------------------------------------------------------------------------
(* A name that is left out of the read has a topmost name above it in the  *)
(* set, and that one stays.                                                *)
LEMMA TopmostStays ==
  ASSUME NEW names \in SUBSET Keys, NEW k \in Nested(names)
  PROVE  \E top \in Consolidated(names) : <<k, top>> \in Child
<1>. DEFINE above == {p \in names : <<k, p>> \in Child}
<1>1. above # {} /\ above \in SUBSET Keys
  BY DEF Nested
<1>2. PICK top \in above : \A p \in above : <<top, p>> \notin Child
  BY <1>1, ChildWellFounded
<1>3. ASSUME NEW p \in names, <<top, p>> \in Child
      PROVE  FALSE
  <2>1. p \in above
    <3>1. k \in Keys /\ top \in Keys /\ p \in Keys
      BY DEF Nested
    <3>. QED  BY <1>3, <3>1, ChildTransitive
  <2>. QED  BY <1>2, <1>3, <2>1
<1>4. top \in Consolidated(names)
  BY <1>3 DEF Consolidated, Nested
<1>. QED  BY <1>4

(* So the read covers each name of the set that no name above it spoils.   *)
LEMMA ConsolidatedCovers ==
  ASSUME NEW names \in SUBSET Keys, NEW k \in names,
         \A p \in names : <<k, p>> \in Child => <<k, p>> \in Brings
  PROVE  Covers(Consolidated(names), k)
<1>1. CASE k \notin Nested(names)
  BY <1>1 DEF Covers, Consolidated
<1>2. CASE k \in Nested(names)
  BY <1>2, TopmostStays DEF Covers, Consolidated
<1>. QED  BY <1>1, <1>2

(* While the batch grows its names are those in `variables`; from the      *)
(* consolidation on they are covered by them.                              *)
NamesOf(r) == {r.keys[k] : k \in DOMAIN r.keys}

BatchGrows == server.pc \in {"collect", "put back", "consolidate"} =>
                variables = BatchNames

BatchInv == BatchGrows /\ BatchIsRead

(* At the start there is no batch.                                         *)
LEMMA InitBatch == Init => BatchInv
BY DEF Init, BatchInv, BatchGrows, BatchIsRead, BatchNames, Batched

(* A merged request asks for the names of both.                            *)
LEMMA MergedNames ==
  ASSUME NEW first \in Request \cup {None}, NEW r \in Request
  PROVE  NamesOf(Merged(first, r)) =
           (IF first = None THEN {} ELSE NamesOf(first)) \cup NamesOf(r)
<1>1. CASE first = None
  BY <1>1 DEF Merged
<1>2. CASE first # None
  <2>1. first.keys \in Seq(Keys) /\ r.keys \in Seq(Keys)
    BY <1>2 DEF Request
  <2>2. Merged(first, r).keys = first.keys \o r.keys
    BY <1>2 DEF Merged, Request
  <2>3. Range(first.keys \o r.keys) = Range(first.keys) \cup Range(r.keys)
    BY <2>1, RangeConcatenation
  <2>. QED  BY <1>2, <2>2, <2>3 DEF NamesOf, Range
<1>. QED  BY <1>1, <1>2

(* Each step keeps the batch read as a whole.                              *)
LEMMA BatchStep == Typing /\ BatchInv /\ [Next]_vars => BatchInv'
<1>. SUFFICES ASSUME Typing, BatchInv, [Next]_vars
              PROVE  BatchInv'
  OBVIOUS
<1>0. ServerTypes
  BY DEF Typing, TypeOK
<1>00. ASSUME UNCHANGED currentRequest
       PROVE  UNCHANGED BatchNames
  BY <1>00 DEF BatchNames, Batched
<1>1. CASE UNCHANGED serverVars
  <2>1. UNCHANGED <<server, variables, currentRequest>>
    BY <1>1 DEF serverVars
  <2>. QED  BY <1>00, <2>1 DEF BatchInv, BatchGrows, BatchIsRead, Covers
<1>2. CASE MergeRequest
  <2>1. PICK i \in DOMAIN pendingReadRequests :
          /\ variables' = variables \cup NamesOf(pendingReadRequests[i])
          /\ currentRequest' =
               [currentRequest EXCEPT ![pendingReadRequests[i].conn] =
                  Merged(currentRequest[pendingReadRequests[i].conn],
                         pendingReadRequests[i])]
    BY <1>2 DEF MergeRequest, NamesOf
  <2>. DEFINE r == pendingReadRequests[i]
              c == r.conn
  <2>2. r \in Request /\ c \in Addr
    BY PoppedType DEF Typing, TypeOK, QueueTypes, Request
  <2>3. server.pc = "collect" /\ server' = server
    BY <1>2 DEF MergeRequest, AtServer
  <2>4. /\ currentRequest'[c] = Merged(currentRequest[c], r)
        /\ \A a \in Addr \ {c} : currentRequest'[a] = currentRequest[a]
    BY <1>0, <2>1, <2>2 DEF ServerTypes
  <2>5. /\ currentRequest'[c] # None
        /\ NamesOf(currentRequest'[c]) =
             (IF currentRequest[c] = None THEN {} ELSE NamesOf(currentRequest[c]))
               \cup NamesOf(r)
    <3>1. currentRequest[c] \in Request \cup {None}
      BY <1>0, <2>2 DEF ServerTypes
    <3>2. Merged(currentRequest[c], r) # None
      <4>1. Merged(currentRequest[c], r) \in Request
        BY <2>2, <3>1, MergedType
      <4>. QED  BY <4>1, NoneIsNoRequest
    <3>. QED  BY <2>2, <2>4, <3>1, <3>2, MergedNames
  <2>6. Batched' = Batched \cup {c}
    BY <2>2, <2>4, <2>5 DEF Batched
  <2>7. BatchNames' = BatchNames \cup NamesOf(r)
    <3>1. BatchNames' = UNION {NamesOf(currentRequest'[a]) : a \in Batched'}
      BY DEF BatchNames, NamesOf
    <3>2. BatchNames = UNION {NamesOf(currentRequest[a]) : a \in Batched}
      BY DEF BatchNames, NamesOf
    <3>3. \A a \in Batched' : a = c \/ a \in Batched \ {c}
      BY <2>6
    <3>4. \A a \in Batched \ {c} : NamesOf(currentRequest'[a]) = NamesOf(currentRequest[a])
      BY <2>4 DEF Batched
    <3>5. c \in Batched <=> currentRequest[c] # None
      BY <2>2 DEF Batched
    <3>. QED  BY <2>5, <2>6, <3>1, <3>2, <3>3, <3>4, <3>5
  <2>. QED  BY <2>1, <2>3, <2>7 DEF BatchInv, BatchGrows, BatchIsRead
<1>3. CASE RejectRequest \/ EndCollect \/ PutBack
  <2>1. /\ server.pc \in {"collect", "put back"}
        /\ server'.pc \in {"put back", "consolidate"}
        /\ UNCHANGED <<variables, currentRequest>>
    <3>1. CASE RejectRequest
      <4>1. PICK r : server' = [pc |-> "put back", hand |-> r]
        BY <3>1 DEF RejectRequest
      <4>2. server.pc = "collect" /\ UNCHANGED <<variables, currentRequest>>
        BY <3>1 DEF RejectRequest, AtServer
      <4>. QED  BY <4>1, <4>2
    <3>2. CASE EndCollect
      BY <3>2 DEF EndCollect, AtServer, Proceed
    <3>3. CASE PutBack
      BY <3>3 DEF PutBack, AtServer, Proceed
    <3>. QED  BY <1>3, <3>1, <3>2, <3>3
  <2>. QED
    BY <1>00, <2>1 DEF BatchInv, BatchGrows, BatchIsRead
<1>4. CASE Consolidate
  <2>1. CASE variables = {}
    <3>1. Batched' = {} /\ variables' = {}
      BY <1>4, <2>1 DEF Consolidate, Batched
    <3>. QED  BY <3>1 DEF BatchInv, BatchGrows, BatchIsRead, BatchNames
  <2>2. CASE variables # {}
    <3>1. /\ server.pc = "consolidate" /\ server'.pc = "read"
          /\ variables' = Consolidated(variables)
          /\ currentRequest' = currentRequest
      <4>1. /\ server' = [pc |-> "read", hand |-> None]
            /\ variables' = Consolidated(variables)
            /\ currentRequest' = currentRequest
        BY <1>4, <2>2 DEF Consolidate, Proceed
      <4>. QED  BY <1>4, <4>1 DEF Consolidate, AtServer
    <3>2. ASSUME NEW k \in BatchNames,
                 \A p \in BatchNames : <<k, p>> \in Child => <<k, p>> \in Brings
          PROVE  Covers(variables', k)
      <4>1. variables = BatchNames /\ variables \in SUBSET Keys
        BY <1>0, <3>1 DEF BatchInv, BatchGrows, ServerTypes
      <4>. QED  BY <3>1, <3>2, <4>1, ConsolidatedCovers
    <3>3. \A k \in BatchNames :
            (\A p \in BatchNames : <<k, p>> \in Child => <<k, p>> \in Brings)
              => Covers(variables', k)
      BY <3>2
    <3>. QED
      BY <1>00, <3>1, <3>3 DEF BatchInv, BatchGrows, BatchIsRead, Covers
  <2>. QED  BY <2>1, <2>2
<1>5. CASE ReadVariables
  <2>1. /\ server.pc = "read" /\ server'.pc = "respond"
        /\ UNCHANGED <<variables, currentRequest>>
    BY <1>5 DEF ReadVariables, AtServer, Proceed
  <2>. QED  BY <1>00, <2>1 DEF BatchInv, BatchGrows, BatchIsRead, Covers
<1>6. CASE QueueResponses
  <2>1. Batched' = {} /\ variables' = {}
    BY <1>6 DEF QueueResponses, Batched
  <2>. QED  BY <2>1 DEF BatchInv, BatchGrows, BatchIsRead, BatchNames
<1>7. ASSUME NEW t \in IoThreads, FromClient(t) \/ InHandler(t)
      PROVE  UNCHANGED serverVars
  BY <1>7
     DEF FromClient, InHandler, Accept, AddConnection, ReceiveRead,
         AddPendingReadRequest, FinishAddPendingReadRequest, ReceiveWrite,
         WriteSymbolValue, SendWriteResponse, Close, RemoveConnection,
         PurgeRequests, FinishRemoveConnection, Destroy, serverVars
<1>8. ASSUME \/ \E p \in Responders : ResponseThread(p)
             \/ Tick \/ UNCHANGED vars
      PROVE  UNCHANGED serverVars
  BY <1>8 DEF ResponseThread, TakeResponse, SendResponse, Tick, vars, serverVars
<1>. QED
  BY <1>1, <1>2, <1>3, <1>4, <1>5, <1>6, <1>7, <1>8 DEF Next, ServerThread

(* Of the names that the requests of a batch ask for, the PLC read brings  *)
(* each that stands below no other one of them, or only below those that   *)
(* bring it.                                                               *)
THEOREM NoNameLeftOut == Spec => []BatchIsRead
<1>1. Spec => [](Typing /\ BatchInv)
  BY InitTyping, TypingStep, InitBatch, BatchStep, PTL DEF Spec
<1>. QED  BY <1>1, PTL DEF BatchInv

-----------------------------------------------------------------------------
(***************************************************************************)
(* What the requests carry: wherever one is, it asks for the names of the  *)
(* messages it stands for and for no other, whatever it was merged with;   *)
(* and none is given up without a cause.                                   *)
(***************************************************************************)

(* A request, or a response: the messages it stands for were received,     *)
(* from its connection, and its names are theirs.                          *)
Sound(received, r) ==
  /\ r.ids # {}
  /\ r.ids \subseteq DOMAIN received
  /\ \A id \in r.ids : received[id].conn = r.conn
  /\ NamesOf(r) = UNION {NamesOf(received[id]) : id \in r.ids}

(* Until it is merged a request stands for the one message whose time it   *)
(* has.                                                                    *)
Single(r) == r.ids = {r.receiveTime}

(* The same for every place that a request can be in.                      *)
HandlersSound ==
  \A t \in IoThreads : io[t].request # None =>
    /\ io[t].op = "read" /\ io[t].request.conn = io[t].conn
    /\ Sound(log, io[t].request) /\ Single(io[t].request)
PendingSound  == \A i \in DOMAIN pendingReadRequests :
                   Sound(log, pendingReadRequests[i]) /\ Single(pendingReadRequests[i])
HandSound     == server.hand # None =>
                   /\ server.pc = "put back"
                   /\ Sound(log, server.hand) /\ Single(server.hand)
BatchSound    == \A a \in Batched :
                   Sound(log, currentRequest[a]) /\ currentRequest[a].conn = a
QueueSound    == \A i \in DOMAIN pendingResponse : Sound(log, pendingResponse[i])
ResponseSound == \A p \in Responders : response[p] # None => Sound(log, response[p])
AnswersSound  == \A i \in DOMAIN answers : Sound(log, answers[i])

Soundness == /\ HandlersSound /\ PendingSound /\ HandSound /\ BatchSound
             /\ QueueSound /\ ResponseSound /\ AnswersSound

(* At the start there is no request.                                       *)
LEMMA InitSoundness == Init => Soundness
BY DEF Init, Soundness, HandlersSound, PendingSound, HandSound, BatchSound,
       QueueSound, ResponseSound, AnswersSound, IdleHandler, Batched

(* The log only grows, so what is sound stays so.                          *)
LEMMA SoundStays ==
  ASSUME Typing, [Next]_vars
  PROVE  /\ \A r : Sound(log, r) => Sound(log', r)
         /\ DOMAIN log \subseteq DOMAIN log'
         /\ \A id \in DOMAIN log : log'[id] = log[id]
<1>1. CASE UNCHANGED log
  BY <1>1 DEF Sound
<1>2. ASSUME NEW entry \in [conn : Addr, session : Nat, keys : Seq(Keys)],
             log' = Append(log, entry)
      PROVE  /\ DOMAIN log \subseteq DOMAIN log'
             /\ \A id \in DOMAIN log : log'[id] = log[id]
  <2>. DEFINE Entry == [conn : Addr, session : Nat, keys : Seq(Keys)]
  <2>1. log \in Seq(Entry) /\ log' \in Seq(Entry)
    BY <1>2, AppendProperties DEF Typing, TypeOK, HistoryTypes
  <2>2. /\ DOMAIN log = 1 .. Len(log) /\ DOMAIN log' = 1 .. Len(log')
        /\ Len(log) \in Nat
    BY <2>1, LenProperties
  <2>3. /\ Len(log') = Len(log) + 1
        /\ \A id \in 1 .. Len(log) : log'[id] = log[id]
    BY <1>2, <2>1, AppendProperties
  <2>. QED  BY <2>2, <2>3
<1>3. ASSUME /\ DOMAIN log \subseteq DOMAIN log'
             /\ \A id \in DOMAIN log : log'[id] = log[id]
      PROVE  \A r : Sound(log, r) => Sound(log', r)
  <2>1. SUFFICES ASSUME NEW r, Sound(log, r)
                 PROVE  Sound(log', r)
    OBVIOUS
  <2>2. \A id \in r.ids : id \in DOMAIN log /\ log'[id] = log[id]
    BY <1>3, <2>1 DEF Sound
  <2>3. {NamesOf(log'[id]) : id \in r.ids} = {NamesOf(log[id]) : id \in r.ids}
    BY <2>2
  <2>. QED  BY <1>3, <2>1, <2>2, <2>3 DEF Sound, NamesOf
<1>4. ASSUME NEW t \in IoThreads, NEW a \in Addr, NEW keys \in KeyLists,
             ReceiveRead(t, a, keys)
      PROVE  \E entry \in [conn : Addr, session : Nat, keys : Seq(Keys)] :
               log' = Append(log, entry)
  <2>. DEFINE entry == [conn |-> a, session |-> session[a], keys |-> keys]
  <2>1. entry \in [conn : Addr, session : Nat, keys : Seq(Keys)]
    BY KeyListsType DEF Typing, TypeOK, ObjectTypes
  <2>2. log' = Append(log, entry)
    BY <1>4 DEF ReceiveRead
  <2>. QED  BY <2>1, <2>2
<1>5. ASSUME NEW t \in IoThreads, FromClient(t) \/ InHandler(t)
      PROVE  \/ UNCHANGED log
             \/ \E a \in Addr, keys \in KeyLists : ReceiveRead(t, a, keys)
  BY <1>5
     DEF FromClient, InHandler, Accept, AddConnection, AddPendingReadRequest,
         FinishAddPendingReadRequest, ReceiveWrite, WriteSymbolValue,
         SendWriteResponse, Close, RemoveConnection, PurgeRequests,
         FinishRemoveConnection, Destroy
<1>6. ASSUME ServerThread
      PROVE  UNCHANGED log
  BY <1>6
     DEF ServerThread, MergeRequest, RejectRequest, EndCollect, PutBack,
         Consolidate, ReadVariables, QueueResponses
<1>7. ASSUME \/ \E p \in Responders : ResponseThread(p)
             \/ Tick \/ UNCHANGED vars
      PROVE  UNCHANGED log
  BY <1>7 DEF ResponseThread, TakeResponse, SendResponse, Tick, vars
<1>8. \/ UNCHANGED log
      \/ \E entry \in [conn : Addr, session : Nat, keys : Seq(Keys)] :
           log' = Append(log, entry)
  BY <1>4, <1>5, <1>6, <1>7 DEF Next
<1>. QED  BY <1>1, <1>2, <1>3, <1>8

(* A merged request stands for the messages of both, of one connection.    *)
LEMMA MergedSound ==
  ASSUME NEW first \in Request \cup {None}, NEW r \in Request,
         Sound(log, r), first # None => Sound(log, first) /\ first.conn = r.conn
  PROVE  Sound(log, Merged(first, r)) /\ Merged(first, r).conn = r.conn
<1>1. CASE first = None
  BY <1>1 DEF Merged
<1>2. CASE first # None
  <2>. DEFINE m == Merged(first, r)
  <2>1. m.ids = first.ids \cup r.ids /\ m.conn = r.conn
    BY <1>2 DEF Merged, Request
  <2>2. NamesOf(m) = NamesOf(first) \cup NamesOf(r)
    BY <1>2, MergedNames
  <2>. QED  BY <1>2, <2>1, <2>2 DEF Sound
<1>. QED  BY <1>1, <1>2

(* What stands in a handler, step by step.                                 *)
LEMMA HandlerSoundness ==
  ASSUME Typing, Soundness, [Next]_vars, NEW t \in IoThreads,
         FromClient(t) \/ InHandler(t)
  PROVE  Soundness'
<1>. USE DEF Soundness
<1>0. /\ io \in [IoThreads -> [op : HandlerOps, conn : Addr \cup {None},
                               request : Request \cup {None}]]
      /\ pendingReadRequests \in Seq(Request)
  BY DEF Typing, TypeOK, HandlerTypes, QueueTypes
<1>s. \A r : Sound(log, r) => Sound(log', r)
  BY SoundStays
<1>1. ASSUME UNCHANGED <<serverVars, responseVars, answers>>
      PROVE  HandSound' /\ BatchSound' /\ QueueSound' /\ ResponseSound'
               /\ AnswersSound'
  BY <1>1, <1>s
     DEF serverVars, responseVars, HandSound, BatchSound, Batched, QueueSound,
         ResponseSound, AnswersSound
<1>2. ASSUME \E h : io' = [io EXCEPT ![t] = h] /\ h.request = None
      PROVE  HandlersSound'
  BY <1>0, <1>2, <1>s DEF HandlersSound
<1>3. ASSUME UNCHANGED pendingReadRequests
      PROVE  PendingSound'
  BY <1>3, <1>s DEF PendingSound
<1>4. ASSUME NEW a \in Addr, NEW keys \in KeyLists, ReceiveRead(t, a, keys)
      PROVE  Soundness'
  <2>. DEFINE n     == Len(log) + 1
              r     == [conn |-> a, keys |-> keys, receiveTime |-> n, ids |-> {n}]
              entry == [conn |-> a, session |-> session[a], keys |-> keys]
              Entry == [conn : Addr, session : Nat, keys : Seq(Keys)]
  <2>1. log' = Append(log, entry) /\ io' = [io EXCEPT ![t] =
          [op |-> "read", conn |-> a, request |-> r]]
    BY <1>4 DEF ReceiveRead
  <2>2. entry \in Entry /\ log \in Seq(Entry)
    BY KeyListsType DEF Typing, TypeOK, ObjectTypes, HistoryTypes
  <2>3. log' \in Seq(Entry) /\ Len(log') = n /\ log'[n] = entry /\ n \in Nat \ {0}
    BY <2>1, <2>2, AppendProperties, LenProperties
  <2>4. n \in DOMAIN log'
    BY <2>3, LenProperties
  <2>5. Sound(log', r) /\ Single(r)
    BY <2>3, <2>4 DEF Sound, Single, NamesOf
  <2>6. HandlersSound'
    BY <1>0, <1>s, <2>1, <2>5 DEF HandlersSound, Single
  <2>. QED  BY <1>1, <1>3, <1>4, <2>6 DEF ReceiveRead, readVars
<1>5. ASSUME AddPendingReadRequest(t)
      PROVE  Soundness'
  <2>. DEFINE r == io[t].request
              q == pendingReadRequests
  <2>1. r \in Request /\ r # None
    BY <1>5, NoneIsNoRequest
       DEF AddPendingReadRequest, Doing, Typing, HandlersHold
  <2>2. Sound(log', r) /\ Single(r)
    BY <1>s, <2>1 DEF HandlersSound
  <2>3. q' = Append(q, r)
    BY <1>5 DEF AddPendingReadRequest
  <2>4. ASSUME NEW i \in DOMAIN q'
        PROVE  q'[i] = r \/ \E j \in DOMAIN q : q'[i] = q[j]
    <3>1. /\ q' \in Seq(Request) /\ Len(q') = Len(q) + 1
          /\ \A j \in 1 .. Len(q) : q'[j] = q[j]
          /\ q'[Len(q) + 1] = r
      BY <1>0, <2>1, <2>3, AppendProperties
    <3>. QED  BY <1>0, <2>4, <3>1, LenProperties
  <2>5. PendingSound'
    BY <1>s, <2>2, <2>4 DEF PendingSound, Single
  <2>6. HandlersSound'
    <3>1. io' = [io EXCEPT ![t] = Handler("pushing", io[t].conn)]
      BY <1>5 DEF AddPendingReadRequest, Goto
    <3>2. Handler("pushing", io[t].conn).request = None
      BY DEF Handler
    <3>. QED  BY <1>2, <3>1, <3>2
  <2>. QED  BY <1>1, <1>5, <2>5, <2>6 DEF AddPendingReadRequest
<1>6. ASSUME PurgeRequests(t)
      PROVE  Soundness'
  <2>. DEFINE a == io[t].conn
              q == pendingReadRequests
  <2>1. IsPurgeOf(q', q, a)
    BY <1>6 DEF PurgeRequests
  <2>2. \A i \in DOMAIN q' : \E j \in DOMAIN q : q'[i] = q[j]
    BY <2>1 DEF IsPurgeOf
  <2>3. PendingSound'
    BY <1>s, <2>2 DEF PendingSound, Single
  <2>4. HandlersSound'
    <3>1. io' = [io EXCEPT ![t] = Handler("purging", io[t].conn)]
      BY <1>6 DEF PurgeRequests, Goto
    <3>2. Handler("purging", io[t].conn).request = None
      BY DEF Handler
    <3>. QED  BY <1>2, <3>1, <3>2
  <2>. QED  BY <1>1, <1>6, <2>3, <2>4 DEF PurgeRequests
<1>7. ASSUME \/ \E a \in Addr : Accept(t, a) \/ ReceiveWrite(t, a) \/ Close(t, a)
             \/ AddConnection(t) \/ FinishAddPendingReadRequest(t)
             \/ WriteSymbolValue(t) \/ SendWriteResponse(t)
             \/ RemoveConnection(t) \/ FinishRemoveConnection(t)
      PROVE  Soundness'
  <2>1. \E h : io' = [io EXCEPT ![t] = h] /\ h.request = None
    <3>1. IdleHandler.request = None /\ \A op, a : Handler(op, a).request = None
      BY DEF IdleHandler, Handler
    <3>2. io' = [io EXCEPT ![t] = IdleHandler]
            \/ \E op, a : io' = [io EXCEPT ![t] = Handler(op, a)]
      BY <1>7
         DEF Accept, AddConnection, FinishAddPendingReadRequest, ReceiveWrite,
             WriteSymbolValue, SendWriteResponse, Close, RemoveConnection,
             FinishRemoveConnection, Return, Goto
    <3>. QED  BY <3>1, <3>2
  <2>2. UNCHANGED <<pendingReadRequests, serverVars, responseVars, answers>>
    BY <1>7
       DEF Accept, AddConnection, FinishAddPendingReadRequest, ReceiveWrite,
           WriteSymbolValue, SendWriteResponse, Close, RemoveConnection,
           FinishRemoveConnection, readVars
  <2>. QED  BY <1>1, <1>2, <1>3, <2>1, <2>2
<1>8. ASSUME NEW a \in Addr, Destroy(t, a)
      PROVE  Soundness'
  <2>1. HandlersSound'
    BY <1>8, <1>s DEF Destroy, HandlersSound, Single
  <2>. QED  BY <1>1, <1>3, <1>8, <2>1 DEF Destroy, readVars
<1>. QED
  BY <1>4, <1>5, <1>6, <1>7, <1>8 DEF FromClient, InHandler

(* The server thread keeps what each request stands for,                   *)
LEMMA ServerSoundness ==
  ASSUME Typing, Soundness, [Next]_vars, ServerThread
  PROVE  Soundness'
<1>. USE DEF Soundness
<1>. DEFINE q == pendingReadRequests
<1>0. /\ q \in Seq(Request)
      /\ pendingResponse \in Seq(Request)
      /\ currentRequest \in [Addr -> Request \cup {None}]
  BY DEF Typing, TypeOK, ServerTypes, QueueTypes
<1>s. \A r : Sound(log, r) => Sound(log', r)
  BY SoundStays
<1>1. UNCHANGED <<io, response, answers>>
  BY DEF ServerThread, MergeRequest, RejectRequest, EndCollect, PutBack,
         Consolidate, ReadVariables, QueueResponses, responseVars
<1>2. HandlersSound' /\ ResponseSound' /\ AnswersSound'
  BY <1>1, <1>s DEF HandlersSound, ResponseSound, AnswersSound, Single
<1>3. ASSUME NEW i \in DOMAIN q, TakesRequestAt(i)
      PROVE  /\ q[i] \in Request /\ Sound(log', q[i]) /\ Single(q[i])
             /\ PendingSound'
  <2>1. q' = SubSeq(q, i + 1, Len(q))
    BY <1>3 DEF TakesRequestAt
  <2>2. ASSUME NEW k \in DOMAIN q'
        PROVE  \E j \in DOMAIN q : q'[k] = q[j]
    <3>. DEFINE n == Len(q)
    <3>1. q \in [1 .. n -> Request] /\ n \in Nat /\ i \in 1 .. n
      BY <1>0, LenProperties
    <3>2. /\ SubSeq(q, i + 1, n) \in Seq(Request)
          /\ Len(SubSeq(q, i + 1, n)) = n - i
          /\ \A m \in 1 .. n - (i + 1) + 1 :
               SubSeq(q, i + 1, n)[m] = q[(i + 1) + m - 1]
      BY <3>1, SubSeqProperties
    <3>3. k \in 1 .. n - i
      BY <2>1, <2>2, <3>2, LenProperties
    <3>. HIDE DEF n
    <3>4. q'[k] = q[i + k] /\ i + k \in 1 .. n
      BY <2>1, <3>1, <3>2, <3>3 DEF n
    <3>. QED  BY <3>1, <3>4
  <2>. QED  BY <1>0, <1>s, <2>2, PoppedType DEF PendingSound, Single
<1>4. ASSUME MergeRequest
      PROVE  Soundness'
  <2>1. PICK i \in DOMAIN q :
          /\ TakesRequestAt(i)
          /\ currentRequest' = [currentRequest EXCEPT ![q[i].conn] =
                                  Merged(currentRequest[q[i].conn], q[i])]
    BY <1>4 DEF MergeRequest
  <2>. DEFINE a == q[i].conn
              first == currentRequest[a]
  <2>2. PendingSound' /\ q[i] \in Request /\ Sound(log, q[i]) /\ a \in Addr
    BY <1>3, <2>1 DEF PendingSound, Request
  <2>3. first \in Request \cup {None}
          /\ (first # None => Sound(log, first) /\ first.conn = a)
    BY <1>0, <2>2 DEF BatchSound, Batched
  <2>4. Sound(log, Merged(first, q[i])) /\ Merged(first, q[i]).conn = a
    BY <2>2, <2>3, MergedSound
  <2>5. BatchSound'
    BY <1>0, <1>s, <2>1, <2>2, <2>4 DEF BatchSound, Batched
  <2>6. HandSound' /\ QueueSound'
    BY <1>4, <1>s
       DEF MergeRequest, AtServer, HandSound, QueueSound, responseVars
  <2>. QED  BY <1>2, <2>2, <2>5, <2>6
<1>5. ASSUME RejectRequest
      PROVE  Soundness'
  <2>1. PICK i \in DOMAIN q :
          TakesRequestAt(i) /\ server' = [pc |-> "put back", hand |-> q[i]]
    BY <1>5 DEF RejectRequest
  <2>2. HandSound' /\ PendingSound'
    BY <1>3, <2>1 DEF HandSound, Single
  <2>3. BatchSound' /\ QueueSound'
    BY <1>5, <1>s
       DEF RejectRequest, BatchSound, Batched, QueueSound, responseVars
  <2>. QED  BY <1>2, <2>2, <2>3
<1>6. ASSUME EndCollect
      PROVE  Soundness'
  <2>1. PendingSound'
    BY <1>6 DEF EndCollect, PendingSound
  <2>2. HandSound' /\ BatchSound' /\ QueueSound'
    BY <1>6, <1>s
       DEF EndCollect, Proceed, HandSound, BatchSound, Batched, QueueSound,
           responseVars
  <2>. QED  BY <1>2, <2>1, <2>2
<1>7. ASSUME PutBack
      PROVE  Soundness'
  <2>. DEFINE r     == server.hand
              whole == WithFront(r)
  <2>1. r \in Request /\ r # None
    BY <1>7, NoneIsNoRequest DEF PutBack, AtServer, Typing, ServerHolds
  <2>2. Sound(log', r) /\ Single(r)
    BY <1>s, <2>1 DEF HandSound
  <2>3. /\ whole \in Seq(Request) /\ Len(whole) = 1 + Len(q) /\ whole[1] = r
        /\ \A k \in 1 .. 1 + Len(q) : k # 1 => whole[k] = q[k - 1]
    <3>1. <<r>> \in Seq(Request) /\ Len(<<r>>) = 1 /\ <<r>>[1] = r
      BY <2>1
    <3>2. Len(q) \in Nat
      BY <1>0, LenProperties
    <3>. QED  BY <1>0, <3>1, <3>2, ConcatProperties DEF WithFront
  <2>4. ASSUME NEW k \in DOMAIN q'
        PROVE  q'[k] = r \/ \E j \in DOMAIN q : q'[k] = q[j]
    <3>1. q' = whole \/ q' = SubSeq(whole, 1, Len(whole) - 1)
      BY <1>7 DEF PutBack, PushFrontOutcomes
    <3>2. Len(q) \in Nat /\ DOMAIN q = 1 .. Len(q)
      BY <1>0, LenProperties
    <3>3. k \in 1 .. 1 + Len(q) /\ q'[k] = whole[k]
      <4>1. CASE q' = whole
        BY <2>3, <2>4, <4>1, LenProperties
      <4>2. CASE q' = SubSeq(whole, 1, Len(whole) - 1)
        <5>1. \A m \in 1 .. Len(whole) - 1 : whole[m] \in Request
          BY <2>3, <3>2, ElementOfSeq
        <5>2. /\ q' \in Seq(Request)
              /\ Len(q') = IF 1 <= Len(whole) - 1 THEN Len(whole) - 1 - 1 + 1 ELSE 0
              /\ \A m \in 1 .. Len(whole) - 1 - 1 + 1 : q'[m] = whole[1 + m - 1]
          BY <2>3, <3>2, <4>2, <5>1, SubSeqProperties
        <5>3. k \in 1 .. Len(q)
          BY <2>3, <2>4, <3>2, <5>2, LenProperties
        <5>. QED  BY <2>3, <3>2, <5>2, <5>3
      <4>. QED  BY <3>1, <4>1, <4>2
    <3>. QED  BY <2>3, <3>2, <3>3
  <2>5. PendingSound'
    BY <1>s, <2>2, <2>4 DEF PendingSound, Single
  <2>6. HandSound' /\ BatchSound' /\ QueueSound'
    BY <1>7, <1>s
       DEF PutBack, Proceed, HandSound, BatchSound, Batched, QueueSound,
           responseVars
  <2>. QED  BY <1>2, <2>5, <2>6
<1>8. ASSUME Consolidate \/ ReadVariables
      PROVE  Soundness'
  <2>1. PendingSound' /\ QueueSound'
    BY <1>8, <1>s
       DEF Consolidate, ReadVariables, PendingSound, QueueSound, Single,
           readVars, responseVars
  <2>2. HandSound' /\ BatchSound'
    <3>1. \E pc : server' = [pc |-> pc, hand |-> None]
      BY <1>8 DEF Consolidate, ReadVariables, Proceed
    <3>2. \/ currentRequest' = currentRequest
          \/ currentRequest' = [a \in Addr |-> None]
      BY <1>8 DEF Consolidate, ReadVariables
    <3>3. server'.hand = None
      BY <3>1
    <3>. QED  BY <1>s, <3>2, <3>3 DEF HandSound, BatchSound, Batched
  <2>. QED  BY <1>2, <2>1, <2>2
<1>9. ASSUME QueueResponses
      PROVE  Soundness'
  <2>. DEFINE n == Cardinality(Batched)
  <2>1. PICK order \in [1 .. n -> Batched] :
          pendingResponse' = pendingResponse
            \o [i \in DOMAIN order |-> currentRequest[order[i]]]
    BY <1>9 DEF QueueResponses
  <2>. DEFINE new == [i \in DOMAIN order |-> currentRequest[order[i]]]
  <2>2. n \in Nat
    BY AddrFinite, FS_Subset, FS_CardinalityType DEF Batched
  <2>3. /\ new \in Seq(Request) /\ Len(new) = n
        /\ \A i \in 1 .. n : Sound(log', new[i])
    <3>1. \A i \in 1 .. n : new[i] \in Request
      BY <1>0 DEF Batched
    <3>2. new \in Seq(Request) /\ Len(new) = n
      BY <2>2, <3>1
    <3>. QED  BY <1>s, <3>2 DEF BatchSound
  <2>4. QueueSound'
    <3>. DEFINE m == Len(pendingResponse)
    <3>1. m \in Nat /\ DOMAIN pendingResponse = 1 .. m
      BY <1>0, LenProperties
    <3>2. /\ pendingResponse' \in Seq(Request)
          /\ Len(pendingResponse') = m + n
          /\ \A i \in 1 .. m + n : pendingResponse'[i] =
               IF i <= m THEN pendingResponse[i] ELSE new[i - m]
      BY <1>0, <2>1, <2>3, ConcatProperties
    <3>. HIDE DEF m, n, new
    <3>3. ASSUME NEW i \in 1 .. m + n
          PROVE  Sound(log', pendingResponse'[i])
      <4>1. CASE i <= m
        BY <1>s, <3>1, <3>2, <3>3, <4>1 DEF QueueSound
      <4>2. CASE ~(i <= m)
        <5>1. i - m \in 1 .. n
          BY <2>2, <3>1, <3>3, <4>2
        <5>. QED  BY <2>3, <3>2, <3>3, <4>2, <5>1
      <4>. QED  BY <4>1, <4>2
    <3>4. DOMAIN pendingResponse' = 1 .. m + n
      BY <3>2, LenProperties
    <3>. QED  BY <3>3, <3>4 DEF QueueSound
  <2>5. PendingSound' /\ HandSound' /\ BatchSound'
    BY <1>9, <1>s
       DEF QueueResponses, Proceed, PendingSound, HandSound, BatchSound,
           Batched, Single, readVars
  <2>. QED  BY <1>2, <2>4, <2>5
<1>. QED
  BY <1>4, <1>5, <1>6, <1>7, <1>8, <1>9 DEF ServerThread

(* so do the response threads,                                             *)
LEMMA ResponseSoundness ==
  ASSUME Typing, Soundness, [Next]_vars,
         NEW p \in Responders, ResponseThread(p)
  PROVE  Soundness'
<1>. USE DEF Soundness
<1>0. /\ pendingResponse \in Seq(Request)
      /\ response \in [Responders -> Request \cup {None}]
      /\ answers \in Seq([conn : Addr, session : Nat, keys : Seq(Keys),
                          ids : SUBSET Nat])
  BY DEF Typing, TypeOK, QueueTypes, HistoryTypes
<1>s. \A r : Sound(log, r) => Sound(log', r)
  BY SoundStays
<1>1. UNCHANGED <<io, readVars, serverVars>>
  BY DEF ResponseThread, TakeResponse, SendResponse
<1>2. HandlersSound' /\ PendingSound' /\ HandSound' /\ BatchSound'
  BY <1>1, <1>s
     DEF HandlersSound, PendingSound, HandSound, BatchSound, Batched, Single,
         readVars, serverVars
<1>3. ASSUME TakeResponse(p)
      PROVE  Soundness'
  <2>. DEFINE q == pendingResponse
  <2>1. /\ q # <<>> /\ q' = Tail(q)
        /\ response' = [response EXCEPT ![p] = Head(q)]
    BY <1>3 DEF TakeResponse
  <2>2. /\ Len(q) \in Nat \ {0} /\ DOMAIN q = 1 .. Len(q) /\ Head(q) = q[1]
        /\ \A i \in DOMAIN q' : i + 1 \in DOMAIN q /\ q'[i] = q[i + 1]
    <3>1. Len(q) \in Nat \ {0} /\ DOMAIN q = 1 .. Len(q) /\ Head(q) = q[1]
      BY <1>0, <2>1, LenProperties, EmptySeq
    <3>2. /\ q' \in Seq(Request) /\ Len(q') = Len(q) - 1
          /\ \A i \in 1 .. Len(q') : q'[i] = q[i + 1]
      BY <1>0, <2>1, HeadTailProperties
    <3>3. DOMAIN q' = 1 .. Len(q')
      BY <3>2, LenProperties
    <3>. QED  BY <3>1, <3>2, <3>3
  <2>3. QueueSound'
    BY <1>s, <2>2 DEF QueueSound
  <2>4. Sound(log', Head(q))
    BY <1>s, <2>2 DEF QueueSound
  <2>5. ResponseSound'
    BY <1>0, <1>s, <2>1, <2>4 DEF ResponseSound
  <2>6. AnswersSound'
    BY <1>3, <1>s DEF TakeResponse, AnswersSound
  <2>. QED  BY <1>2, <2>3, <2>5, <2>6
<1>4. ASSUME SendResponse(p)
      PROVE  Soundness'
  <2>. DEFINE r     == response[p]
              given == [conn |-> r.conn, session |-> session[r.conn],
                        keys |-> r.keys, ids |-> r.ids]
              Given == [conn : Addr, session : Nat, keys : Seq(Keys),
                        ids : SUBSET Nat]
  <2>1. r # None /\ r \in Request /\ response' = [response EXCEPT ![p] = None]
    BY <1>0, <1>4 DEF SendResponse
  <2>2. ResponseSound'
    BY <1>0, <1>s, <2>1 DEF ResponseSound
  <2>3. QueueSound'
    BY <1>4, <1>s DEF SendResponse, QueueSound
  <2>4. AnswersSound'
    <3>1. CASE UNCHANGED answers
      BY <1>s, <3>1 DEF AnswersSound
    <3>2. CASE answers' = Append(answers, given)
      <4>1. Sound(log', given)
        <5>1. Sound(log', r)
          BY <1>s, <2>1 DEF ResponseSound
        <5>. QED  BY <5>1 DEF Sound, NamesOf
      <4>2. given \in Given
        BY <2>1 DEF Request, Typing, TypeOK, ObjectTypes
      <4>3. /\ answers' \in Seq(Given) /\ Len(answers') = Len(answers) + 1
            /\ \A i \in 1 .. Len(answers) : answers'[i] = answers[i]
            /\ answers'[Len(answers) + 1] = given
        BY <1>0, <3>2, <4>2, AppendProperties
      <4>4. /\ DOMAIN answers = 1 .. Len(answers) /\ Len(answers) \in Nat
            /\ DOMAIN answers' = 1 .. Len(answers')
        BY <1>0, <4>3, LenProperties
      <4>5. ASSUME NEW i \in DOMAIN answers'
            PROVE  Sound(log', answers'[i])
        <5>1. CASE i = Len(answers) + 1
          BY <4>1, <4>3, <5>1
        <5>2. CASE i # Len(answers) + 1
          BY <1>s, <4>3, <4>4, <4>5, <5>2 DEF AnswersSound
        <5>. QED  BY <5>1, <5>2
      <4>. QED  BY <4>5 DEF AnswersSound
    <3>. QED  BY <1>4, <3>1, <3>2 DEF SendResponse
  <2>. QED  BY <1>2, <2>2, <2>3, <2>4
<1>. QED  BY <1>3, <1>4 DEF ResponseThread

(* and so does each step.                                                  *)
LEMMA SoundnessStep == Typing /\ Soundness /\ [Next]_vars => Soundness'
<1>. SUFFICES ASSUME Typing, Soundness, [Next]_vars
              PROVE  Soundness'
  OBVIOUS
<1>1. CASE Tick \/ UNCHANGED vars
  <2>1. UNCHANGED <<io, readVars, serverVars, responseVars, log, answers>>
    BY <1>1 DEF Tick, vars
  <2>. QED
    BY <2>1
       DEF Soundness, HandlersSound, PendingSound, HandSound, BatchSound,
           Batched, QueueSound, ResponseSound, AnswersSound, Single, readVars,
           serverVars, responseVars
<1>. QED
  BY <1>1, HandlerSoundness, ServerSoundness, ResponseSoundness DEF Next

(* However a request was queued, put back and merged with others, the      *)
(* response that answers it holds all its names, and no name of anyone     *)
(* else but of those it was merged with, which are of its connection.      *)
THEOREM AnswersAreComplete == Spec => []AnswersComplete
<1>1. Spec => [](Typing /\ Soundness)
  BY InitTyping, TypingStep, InitSoundness, SoundnessStep, PTL DEF Spec
<1>2. AnswersSound => AnswersComplete
  BY DEF AnswersSound, AnswersComplete, Sound, NamesOf
<1>. QED  BY <1>1, <1>2, PTL DEF Soundness

-----------------------------------------------------------------------------
(* DroppedForCause is about `users` and `session` as they are now, so it   *)
(* needs that a connection which is gone does not come back: a message     *)
(* never has a later session than its address, and while a connection is   *)
(* being opened nothing was received from it.                              *)
SessionsPast  == \A id \in DOMAIN log : log[id].session <= session[log[id].conn]
OpeningUnread == \A t \in IoThreads : io[t].op = "open" =>
                   \A id \in DOMAIN log : log[id].conn = io[t].conn =>
                     log[id].session < session[log[id].conn]

(* The cause, and that it is of a message that was received.               *)
Cause(id, why) ==
  /\ id \in DOMAIN log
  /\ why = "expired" => id <= horizon
  /\ why = "no keys" => log[id].keys = <<>>
  /\ why \in {"purged", "no user"} => ~Registered(id)

Causes == \A id \in DOMAIN ended : Cause(id, ended[id])

Excuses == SessionsPast /\ OpeningUnread /\ Causes

(* At the start no request has been given up.                              *)
LEMMA InitExcuses == Init => Excuses
BY DEF Init, Excuses, SessionsPast, OpeningUnread, Causes, IdleHandler

(* What a step does to the sessions, to the users, and to who is opening.  *)
LEMMA SessionsStep ==
  ASSUME Typing, Registration, SessionsPast, OpeningUnread, [Next]_vars
  PROVE  /\ SessionsPast' /\ OpeningUnread'
         /\ \A id \in DOMAIN log : ~Registered(id) => ~Registered(id)'
         /\ horizon' >= horizon
<1>. USE DEF SessionsPast, OpeningUnread, Registered
<1>0. /\ io \in [IoThreads -> [op : HandlerOps, conn : Addr \cup {None},
                               request : Request \cup {None}]]
      /\ session \in [Addr -> Nat] /\ users \subseteq Addr
      /\ log \in Seq([conn : Addr, session : Nat, keys : Seq(Keys)])
      /\ horizon \in Nat
  BY DEF Typing, TypeOK, HandlerTypes, ObjectTypes, HistoryTypes
<1>l. /\ DOMAIN log \subseteq DOMAIN log'
      /\ \A id \in DOMAIN log : log'[id] = log[id]
  BY SoundStays
<1>e. \A id \in DOMAIN log : log[id].conn \in Addr /\ log[id].session \in Nat
                             /\ session[log[id].conn] \in Nat
  <2>1. ASSUME NEW id \in DOMAIN log
        PROVE  log[id] \in [conn : Addr, session : Nat, keys : Seq(Keys)]
    BY <1>0, <2>1, LenProperties, ElementOfSeq
  <2>. QED  BY <1>0, <2>1
<1>1. ASSUME UNCHANGED <<session, log>>, horizon' >= horizon, users' \subseteq users,
             \A t \in IoThreads : io'[t].op = "open" => io'[t] = io[t]
      PROVE  /\ SessionsPast' /\ OpeningUnread'
             /\ \A id \in DOMAIN log : ~Registered(id) => ~Registered(id)'
             /\ horizon' >= horizon
  BY <1>1
<1>2. ASSUME NEW t \in IoThreads, NEW a \in Addr, Accept(t, a)
      PROVE  /\ SessionsPast' /\ OpeningUnread'
             /\ \A id \in DOMAIN log : ~Registered(id) => ~Registered(id)'
             /\ horizon' >= horizon
  <2>1. /\ session' = [session EXCEPT ![a] = @ + 1] /\ UNCHANGED <<users, log, horizon>>
        /\ io' = [io EXCEPT ![t] = Handler("open", a)]
        /\ object[a] = "free"
    BY <1>2 DEF Accept, userVars
  <2>2. io'[t].conn = a /\ \A u \in IoThreads : u # t => io'[u] = io[u]
    BY <1>0, <2>1 DEF Handler
  <2>3. a \notin users
    BY <2>1 DEF Registration, UsersAreOpen
  <2>4. \A id \in DOMAIN log :
          /\ log[id].conn = a => session'[a] = session[a] + 1
          /\ log[id].conn # a => session'[log[id].conn] = session[log[id].conn]
    BY <1>0, <1>e, <2>1
  <2>5. session[a] \in Nat
    BY <1>0
  <2>6. SessionsPast' /\ horizon' >= horizon
    BY <1>0, <1>e, <2>1, <2>4, <2>5
  <2>7. OpeningUnread'
    BY <1>e, <2>1, <2>2, <2>4, <2>5
  <2>8. \A id \in DOMAIN log : ~Registered(id) => ~Registered(id)'
    BY <1>e, <2>1, <2>3, <2>4
  <2>. QED  BY <2>6, <2>7, <2>8
<1>3. ASSUME NEW t \in IoThreads, NEW a \in Addr, NEW keys \in KeyLists,
             ReceiveRead(t, a, keys)
      PROVE  /\ SessionsPast' /\ OpeningUnread'
             /\ \A id \in DOMAIN log : ~Registered(id) => ~Registered(id)'
             /\ horizon' >= horizon
  <2>. DEFINE entry == [conn |-> a, session |-> session[a], keys |-> keys]
              Entry == [conn : Addr, session : Nat, keys : Seq(Keys)]
              n     == Len(log) + 1
  <2>1. /\ log' = Append(log, entry) /\ UNCHANGED <<users, session, horizon>>
        /\ home[a] = t
        /\ \E h : io' = [io EXCEPT ![t] = h] /\ h.op = "read"
    <3>. DEFINE h == [op |-> "read", conn |-> a,
                      request |-> [conn |-> a, keys |-> keys,
                                   receiveTime |-> n, ids |-> {n}]]
    <3>1. io' = [io EXCEPT ![t] = h] /\ h.op = "read"
      BY <1>3 DEF ReceiveRead
    <3>. QED  BY <1>3, <3>1 DEF ReceiveRead, objectVars, userVars
  <2>2. entry \in Entry
    BY <1>0, KeyListsType
  <2>3. \A id \in DOMAIN log' : id \in DOMAIN log \/ log'[id] = entry
    <3>1. log' \in Seq(Entry) /\ Len(log') = n /\ log'[n] = entry
      BY <1>0, <2>1, <2>2, AppendProperties
    <3>2. /\ DOMAIN log' = 1 .. n /\ DOMAIN log = 1 .. Len(log)
          /\ Len(log) \in Nat
      BY <1>0, <3>1, LenProperties
    <3>. QED  BY <3>1, <3>2
  <2>4. \A u \in IoThreads : io'[u].op = "open" =>
          io'[u] = io[u] /\ io[u].conn # a
    BY <1>0, <2>1 DEF Registration, OwnObject
  <2>5. session[a] \in Nat
    BY <1>0
  <2>6. SessionsPast'
    BY <1>l, <2>1, <2>3, <2>5
  <2>7. OpeningUnread'
    BY <1>l, <2>1, <2>3, <2>4
  <2>. QED  BY <1>0, <1>l, <2>1, <2>6, <2>7
<1>4. ASSUME NEW t \in IoThreads, AddConnection(t)
      PROVE  /\ SessionsPast' /\ OpeningUnread'
             /\ \A id \in DOMAIN log : ~Registered(id) => ~Registered(id)'
             /\ horizon' >= horizon
  <2>1. /\ users' = users \cup {io[t].conn} /\ io[t].op = "open"
        /\ io' = [io EXCEPT ![t] = IdleHandler]
        /\ UNCHANGED <<session, log, horizon>>
    BY <1>4 DEF AddConnection, Doing, Return, objectVars
  <2>2. \A u \in IoThreads : io'[u].op = "open" => io'[u] = io[u]
    BY <1>0, <2>1 DEF IdleHandler
  <2>3. \A id \in DOMAIN log : log[id].conn = io[t].conn =>
          log[id].session # session[log[id].conn]
    BY <1>e, <2>1
  <2>4. \A id \in DOMAIN log : ~Registered(id) => ~Registered(id)'
    BY <2>1, <2>3
  <2>5. SessionsPast' /\ horizon' >= horizon
    BY <1>0, <2>1
  <2>6. OpeningUnread'
    BY <2>1, <2>2
  <2>. QED  BY <2>4, <2>5, <2>6
<1>5. ASSUME NEW t \in IoThreads,
             \/ AddPendingReadRequest(t) \/ FinishAddPendingReadRequest(t)
             \/ \E a \in Addr : ReceiveWrite(t, a) \/ Close(t, a) \/ Destroy(t, a)
             \/ WriteSymbolValue(t) \/ SendWriteResponse(t)
             \/ RemoveConnection(t) \/ PurgeRequests(t)
             \/ FinishRemoveConnection(t)
      PROVE  /\ SessionsPast' /\ OpeningUnread'
             /\ \A id \in DOMAIN log : ~Registered(id) => ~Registered(id)'
             /\ horizon' >= horizon
  <2>1. /\ UNCHANGED <<session, log, horizon>> /\ users' \subseteq users
    BY <1>5
       DEF AddPendingReadRequest, FinishAddPendingReadRequest, ReceiveWrite,
           WriteSymbolValue, SendWriteResponse, Close, RemoveConnection,
           PurgeRequests, Unregister, FinishRemoveConnection, Destroy,
           objectVars, userVars
  <2>2. \/ io' = io \/ io' = [io EXCEPT ![t] = IdleHandler]
        \/ \E c, op : op # "open" /\ io' = [io EXCEPT ![t] = Handler(op, c)]
    BY <1>5
       DEF AddPendingReadRequest, FinishAddPendingReadRequest, ReceiveWrite,
           WriteSymbolValue, SendWriteResponse, Close, RemoveConnection,
           PurgeRequests, FinishRemoveConnection, Destroy, Goto, Return
  <2>3. \A u \in IoThreads : io'[u].op = "open" => io'[u] = io[u]
    BY <1>0, <2>2 DEF IdleHandler, Handler
  <2>4. horizon' >= horizon
    BY <1>0, <2>1
  <2>. QED  BY <1>1, <2>1, <2>3, <2>4
<1>6. ASSUME \/ ServerThread \/ (\E p \in Responders : ResponseThread(p))
             \/ Tick \/ UNCHANGED vars
      PROVE  /\ SessionsPast' /\ OpeningUnread'
             /\ \A id \in DOMAIN log : ~Registered(id) => ~Registered(id)'
             /\ horizon' >= horizon
  <2>1. UNCHANGED <<session, log, users, io>>
    BY <1>6
       DEF ServerThread, MergeRequest, RejectRequest, EndCollect, PutBack,
           Consolidate, ReadVariables, QueueResponses, ResponseThread,
           TakeResponse, SendResponse, Tick, vars, objectVars, userVars
  <2>2. horizon' = horizon \/ horizon' = horizon + 1
    BY <1>6
       DEF ServerThread, MergeRequest, RejectRequest, EndCollect, PutBack,
           Consolidate, ReadVariables, QueueResponses, ResponseThread,
           TakeResponse, SendResponse, Tick, Later, vars
  <2>. QED  BY <1>0, <1>1, <2>1, <2>2
<1>. QED
  BY <1>2, <1>3, <1>4, <1>5, <1>6 DEF Next, FromClient, InHandler

(* A reason for giving up a request stays one.                             *)
LEMMA CausesStay ==
  ASSUME Typing, Registration, SessionsPast, OpeningUnread, [Next]_vars
  PROVE  \A id, why : Cause(id, why) => Cause(id, why)'
<1>1. SUFFICES ASSUME NEW id, NEW why, Cause(id, why)
               PROVE  Cause(id, why)'
  OBVIOUS
<1>2. id \in DOMAIN log' /\ log'[id] = log[id]
  BY <1>1, SoundStays DEF Cause
<1>3. ~Registered(id) => ~Registered(id)'
  BY <1>1, SessionsStep DEF Cause
<1>4. id <= horizon => id <= horizon'
  <2>1. horizon \in Nat /\ horizon' \in Nat /\ id \in Nat
    <3>1. Typing'
      BY TypingStep
    <3>2. DOMAIN log = 1 .. Len(log) /\ Len(log) \in Nat
      BY LenProperties DEF Typing, TypeOK, HistoryTypes
    <3>3. horizon \in Nat /\ horizon' \in Nat
      BY <3>1 DEF Typing, TypeOK, HistoryTypes
    <3>4. id \in Nat
      <4>1. id \in DOMAIN log
        BY <1>1 DEF Cause
      <4>. QED  BY <3>2, <4>1
    <3>. QED  BY <3>3, <3>4
  <2>. QED  BY <2>1, SessionsStep
<1>. QED  BY <1>1, <1>2, <1>3, <1>4 DEF Cause

(* The requests that a step gives up have a cause, so all have.            *)
LEMMA EndWithCause ==
  ASSUME Causes, \A id, why : Cause(id, why) => Cause(id, why)',
         \/ UNCHANGED ended
         \/ \E ids, why : /\ ended' = End(ids, why)
                          /\ \A id \in ids : Cause(id, why)'
  PROVE  Causes'
BY DEF Causes, End

(* Each step gives up requests for a reason only.                          *)
LEMMA CausesStep ==
  ASSUME Typing, Registration, Soundness, BatchInv, Excuses, [Next]_vars
  PROVE  Causes'
<1>. DEFINE q == pendingReadRequests
<1>0. /\ q \in Seq(Request)
      /\ io \in [IoThreads -> [op : HandlerOps, conn : Addr \cup {None},
                               request : Request \cup {None}]]
      /\ log \in Seq([conn : Addr, session : Nat, keys : Seq(Keys)])
      /\ horizon \in Nat
  BY DEF Typing, TypeOK, HandlerTypes, QueueTypes, HistoryTypes
<1>s. \A id, why : Cause(id, why) => Cause(id, why)'
  BY CausesStay DEF Excuses
<1>u. UNCHANGED ended => Causes'
  BY <1>s, EndWithCause DEF Excuses
<1>1. ASSUME NEW j \in DOMAIN q, Old(q[j]), NEW id \in q[j].ids
      PROVE  Cause(id, "expired")
  <2>1. id = q[j].receiveTime /\ id \in DOMAIN log
    BY <1>1 DEF Soundness, PendingSound, Sound, Single
  <2>. QED  BY <1>1, <2>1 DEF Old, Cause
<1>2. ASSUME NEW i \in DOMAIN q, TakesRequestAt(i)
      PROVE  Causes'
  <2>. DEFINE old == SubSeq(q, 1, i - 1)
  <2>1. ended' = End(IdsOf(old), "expired")
          /\ \A j \in 1 .. i - 1 : Old(q[j])
    BY <1>2 DEF TakesRequestAt
  <2>2. ASSUME NEW k \in DOMAIN old
        PROVE  k \in DOMAIN q /\ old[k] = q[k] /\ Old(q[k])
    <3>1. q \in [1 .. Len(q) -> Request] /\ Len(q) \in Nat /\ i \in 1 .. Len(q)
      BY <1>0, LenProperties
    <3>2. old \in Seq(Request) /\ Len(old) = i - 1
            /\ \A m \in 1 .. i - 1 : old[m] = q[m]
      BY <3>1, SubSeqProperties
    <3>3. k \in 1 .. i - 1
      BY <2>2, <3>2, LenProperties
    <3>. QED  BY <2>1, <3>1, <3>2, <3>3
  <2>3. \A id \in IdsOf(old) : Cause(id, "expired")'
    BY <1>1, <1>s, <2>2 DEF IdsOf
  <2>. QED  BY <1>s, <2>1, <2>3, EndWithCause DEF Excuses
<1>3. ASSUME EndCollect
      PROVE  Causes'
  <2>1. /\ ended' = End(IdsOf(q), "expired")
        /\ \A i \in DOMAIN q : Old(q[i])
    BY <1>3 DEF EndCollect
  <2>2. \A id \in IdsOf(q) : Cause(id, "expired")'
    BY <1>1, <1>s, <2>1 DEF IdsOf
  <2>. QED  BY <1>s, <2>1, <2>2, EndWithCause DEF Excuses
<1>4. ASSUME PutBack
      PROVE  Causes'
  <2>. DEFINE whole == WithFront(server.hand)
              lost  == IdsOf(whole) \ IdsOf(q')
  <2>1. ended' = End(lost, "lost")
    BY <1>4 DEF PutBack
  <2>2. server.hand \in Request /\ server.hand # None
    BY <1>4, NoneIsNoRequest DEF PutBack, AtServer, Typing, ServerHolds
  <2>3. ASSUME NEW id \in IdsOf(whole)
        PROVE  id \in server.hand.ids \/ \E j \in DOMAIN q : id \in q[j].ids
    <3>1. PICK k \in DOMAIN whole : id \in whole[k].ids
      BY <2>3 DEF IdsOf
    <3>2. <<server.hand>> \in Seq(Request) /\ Len(<<server.hand>>) = 1
            /\ <<server.hand>>[1] = server.hand
      BY <2>2
    <3>3. Len(q) \in Nat /\ DOMAIN q = 1 .. Len(q)
      BY <1>0, LenProperties
    <3>4. /\ whole \in Seq(Request) /\ Len(whole) = 1 + Len(q)
          /\ whole[1] = server.hand
          /\ \A m \in 1 .. 1 + Len(q) : m # 1 => whole[m] = q[m - 1]
      BY <1>0, <3>2, <3>3, ConcatProperties DEF WithFront
    <3>5. k \in 1 .. 1 + Len(q)
      BY <3>1, <3>4, LenProperties
    <3>. QED  BY <3>1, <3>3, <3>4, <3>5
  <2>4. \A id \in lost : id \in DOMAIN log
    BY <2>2, <2>3 DEF Soundness, HandSound, PendingSound, Sound
  <2>5. \A id \in lost : Cause(id, "lost")'
    <3>1. \A id \in lost : Cause(id, "lost")
      BY <2>4 DEF Cause
    <3>. QED  BY <1>s, <3>1
  <2>. QED  BY <1>s, <2>1, <2>5, EndWithCause DEF Excuses
<1>5. ASSUME Consolidate
      PROVE  Causes'
  <2>1. CASE variables # {}
    BY <1>5, <1>u, <2>1 DEF Consolidate
  <2>2. CASE variables = {}
    <3>1. ended' = End(BatchedIds, "no keys") /\ server.pc = "consolidate"
      BY <1>5, <2>2 DEF Consolidate, AtServer
    <3>2. ASSUME NEW id \in BatchedIds
          PROVE  Cause(id, "no keys")
      <4>1. PICK a \in Batched : id \in currentRequest[a].ids
        BY DEF BatchedIds
      <4>2. NamesOf(currentRequest[a]) = {}
        <5>1. NamesOf(currentRequest[a]) \subseteq BatchNames
          BY DEF BatchNames, NamesOf
        <5>. QED  BY <2>2, <3>1, <5>1 DEF BatchInv, BatchGrows
      <4>3. id \in DOMAIN log /\ NamesOf(log[id]) = {}
        BY <4>1, <4>2 DEF Soundness, BatchSound, Sound
      <4>4. log[id].keys \in Seq(Keys)
        <5>. DEFINE Entry == [conn : Addr, session : Nat, keys : Seq(Keys)]
        <5>1. log \in [1 .. Len(log) -> Entry]
          BY <1>0, LenProperties
        <5>2. log[id] \in Entry
          BY <4>3, <5>1
        <5>. QED  BY <5>2
      <4>5. Len(log[id].keys) = 0
        <5>1. /\ Len(log[id].keys) \in Nat
              /\ DOMAIN log[id].keys = 1 .. Len(log[id].keys)
          BY <4>4, LenProperties
        <5>2. 1 \notin DOMAIN log[id].keys
          BY <4>3 DEF NamesOf
        <5>. QED  BY <5>1, <5>2
      <4>6. log[id].keys = <<>>
        BY <4>4, <4>5, EmptySeq
      <4>. QED  BY <4>3, <4>6 DEF Cause
    <3>. QED  BY <1>s, <3>1, <3>2, EndWithCause DEF Excuses
  <2>. QED  BY <2>1, <2>2
<1>6. ASSUME NEW t \in IoThreads, PurgeRequests(t)
      PROVE  Causes'
  <2>. DEFINE a      == io[t].conn
              purged == {i \in DOMAIN q : BelongsTo(q[i], a)}
              ids    == UNION {q[i].ids : i \in purged}
  <2>1. ended' = End(ids, "purged") /\ users' = users \ {a} /\ log' = log
    BY <1>6 DEF PurgeRequests, Unregister
  <2>2. ASSUME NEW id \in ids
        PROVE  Cause(id, "purged")'
    <3>1. PICK i \in DOMAIN q : q[i].conn = a /\ id \in q[i].ids
      BY DEF BelongsTo
    <3>2. id \in DOMAIN log /\ log[id].conn = a
      BY <3>1 DEF Soundness, PendingSound, Sound
    <3>. QED  BY <2>1, <3>2 DEF Cause, Registered
  <2>. QED  BY <1>s, <2>1, <2>2, EndWithCause DEF Excuses
<1>7. ASSUME NEW p \in Responders, SendResponse(p)
      PROVE  Causes'
  <2>. DEFINE r == response[p]
  <2>1. CASE UNCHANGED ended
    BY <1>u, <2>1
  <2>2. CASE ended' = End(r.ids, "no user") /\ r.conn \notin users
    <3>1. r # None /\ UNCHANGED <<users, log>>
      BY <1>7 DEF SendResponse, userVars
    <3>2. ASSUME NEW id \in r.ids
          PROVE  Cause(id, "no user")'
      <4>1. id \in DOMAIN log /\ log[id].conn = r.conn
        BY <3>1 DEF Soundness, ResponseSound, Sound
      <4>. QED  BY <2>2, <3>1, <4>1 DEF Cause, Registered
    <3>. QED  BY <1>s, <2>2, <3>2, EndWithCause DEF Excuses
  <2>. QED  BY <1>7, <2>1, <2>2 DEF SendResponse, IsUser
<1>8. ASSUME NEW t \in IoThreads, FromClient(t) \/ InHandler(t)
      PROVE  PurgeRequests(t) \/ UNCHANGED ended
  BY <1>8
     DEF FromClient, InHandler, Accept, ReceiveRead, ReceiveWrite, Close,
         Destroy, AddConnection, AddPendingReadRequest,
         FinishAddPendingReadRequest, WriteSymbolValue, SendWriteResponse,
         RemoveConnection, FinishRemoveConnection
<1>9. ASSUME ServerThread
      PROVE  Causes'
  <2>1. CASE MergeRequest \/ RejectRequest
    BY <1>2, <2>1 DEF MergeRequest, RejectRequest
  <2>2. CASE ReadVariables \/ QueueResponses
    BY <1>u, <2>2 DEF ReadVariables, QueueResponses
  <2>. QED  BY <1>3, <1>4, <1>5, <1>9, <2>1, <2>2 DEF ServerThread
<1>10. ASSUME NEW p \in Responders, ResponseThread(p)
       PROVE  SendResponse(p) \/ UNCHANGED ended
  BY <1>10 DEF ResponseThread, TakeResponse
<1>11. ASSUME Tick \/ UNCHANGED vars
       PROVE  UNCHANGED ended
  BY <1>11 DEF Tick, vars
<1>. QED
  BY <1>u, <1>6, <1>7, <1>8, <1>9, <1>10, <1>11 DEF Next

(* Each step keeps this, with what it rests on.                            *)
LEMMA ExcusesStep ==
  Typing /\ Registration /\ Soundness /\ BatchInv /\ Excuses /\ [Next]_vars
    => Excuses'
BY SessionsStep, CausesStep DEF Excuses

(* Whatever the order of closes, purges, merges and re-opened addresses,   *)
(* a request is given up only when it is over 3 s old, asks for nothing,   *)
(* or comes from a connection that is not registered any more - and a      *)
(* connection that is opened at the same address later does not change     *)
(* that.                                                                   *)
THEOREM DropsHaveACause == Spec => []DroppedForCause
<1>1. Spec => [](Typing /\ Registration /\ Soundness /\ BatchInv /\ Excuses)
  BY InitTyping, TypingStep, InitRegistration, RegistrationStep,
     InitSoundness, SoundnessStep, InitBatch, BatchStep, InitExcuses,
     ExcusesStep, PTL DEF Spec
<1>2. Excuses => DroppedForCause
  BY DEF Excuses, Causes, Cause, DroppedForCause
<1>. QED  BY <1>1, <1>2, PTL
=============================================================================
