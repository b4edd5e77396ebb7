----------------------------- MODULE JsonServer -----------------------------
(***************************************************************************)
(* The request pipeline of class jsonserver (src/LuxServer/src/jsonserver):*)
(*                                                                         *)
(*   crow's io threads   accept connections, receive messages, run the     *)
(*                       onopen / onmessage / onclose handlers             *)
(*   the server thread   takes pending read requests, merges them into one *)
(*                       batch, reads the PLC, queues the responses        *)
(*   response threads    take a queued response, send it to its connection *)
(*                                                                         *)
(* They share `users`, the deques pendingReadRequests and pendingResponse, *)
(* and the mutexes mtx_connections and mtx_pendingReadRequests.  Sections  *)
(* of mtx_pendingResponse never wait for anything inside, so each is a     *)
(* part of one step and that mutex has no variable.                        *)
(*                                                                         *)
(* A connection is known to the code by the ADDRESS of its crow object     *)
(* only.  The ghost variable `session` counts the objects that have lived  *)
(* at an address, so that properties can tell them apart; no action reads  *)
(* it except to bound it.  `log`, `answers`, `ended` and the field `ids`   *)
(* of a request are history too.                                           *)
(***************************************************************************)
EXTENDS KeyTree, Integers, Sequences

CONSTANTS Addr,         \* addresses at which connection objects are allocated
          IoThreads,    \* crow's io threads
          Responders,   \* the response threads (5 in start())
          KeyLists,     \* the key lists clients put in a read message
          Brings,       \* <<k, p>>: the value of k is stored when p is read
          MaxBatch,     \* 500 in handlePendingRequests()
          MaxRequests,  \* bound on the number of read messages received
          MaxSessions,  \* bound on the connections made at one address
          None          \* no thread, no request

ASSUME KeyListsType == KeyLists \subseteq Seq(Keys)
ASSUME BringsType   == Brings \subseteq Child
ASSUME BoundsType   == /\ MaxBatch \in Nat \ {0}
                       /\ MaxRequests \in Nat
                       /\ MaxSessions \in Nat
ASSUME AddrFinite   == IsFiniteSet(Addr)
ASSUME NoneIsNone   == None \notin Addr \cup IoThreads \cup Responders

VARIABLES object,     \* per address: is there a connection object, is it closed
          home,       \* per address: the io thread its object is bound to
          session,    \* per address: how many objects have lived there (ghost)
          users,      \* the registered connections
          io,         \* per io thread: the handler it is running
          mtxConnections, mtxPendingReadRequests,    \* their holder, or None
          pendingReadRequests, pendingResponse,
          server,     \* the server thread: where it is, the request in its hand
          variables,      \* handlePendingRequests: names the batch asks for
          currentRequest, \* handlePendingRequests: per connection, or None
          response,   \* per response thread: the request in its hand, or None
          horizon,    \* requests received up to this one are older than 3 s
          log,        \* every read request received (history)
          answers,    \* every response sent (history)
          ended       \* requests that will not be answered, and why (history)

objectVars   == <<object, home, session>>
userVars     == <<users, mtxConnections>>
readVars     == <<mtxPendingReadRequests, pendingReadRequests>>
serverVars   == <<server, variables, currentRequest>>
responseVars == <<pendingResponse, response>>
vars == <<objectVars, userVars, io, readVars, serverVars, responseVars,
          horizon, log, answers, ended>>

-----------------------------------------------------------------------------
(***************************************************************************)
(* Faults: forms that definitions below must not have.  Each breaks a      *)
(* property of this module; nothing in the specification uses them.        *)
(***************************************************************************)
OldNever(r)           == FALSE                   \* the age check is left out
OldTooSoon(r)         == r.receiveTime <= horizon + 1
LaterOnWallClock(time) == time - 1               \* a clock that is set back
UnlockForgotten       == UNCHANGED mtxPendingReadRequests
IsUserUnchecked(a)    == TRUE                    \* sends to whom it holds
UnregisterForgotten(a) == UNCHANGED users
BelongsToAny(r, a)    == TRUE                    \* purges every connection's
WithBack(r)           == Append(pendingReadRequests, r)
MergedReplaces(first, r)   == r                  \* the earlier request is lost
MergedForgetsKeys(first, r) ==
  IF first = None THEN r ELSE [first EXCEPT !.ids = @ \cup r.ids]

-----------------------------------------------------------------------------
(* jsonRequest.  receiveTime is the position of the request in `log`; a    *)
(* request that others were merged into keeps its own.                     *)
Request == [conn : Addr, keys : Seq(Keys), receiveTime : Nat,
            ids : SUBSET Nat]

ASSUME NoneIsNoRequest == None \notin Request

IdleHandler == [op |-> "idle", conn |-> None, request |-> None]

Handler(op, a)   == [op |-> op, conn |-> a, request |-> None]
Doing(t, op)     == io[t].op = op
Goto(t, op)      == io' = [io EXCEPT ![t] = Handler(op, io[t].conn)]
Return(t)        == io' = [io EXCEPT ![t] = IdleHandler]
Alive(a)         == object[a] # "free"

Old(r)           == r.receiveTime <= horizon
Later(time)      == time + 1
UnlockReads      == mtxPendingReadRequests' = None
IsUser(a)        == a \in users
Unregister(a)    == users' = users \ {a}
BelongsTo(r, a)  == r.conn = a
WithFront(r)     == <<r>> \o pendingReadRequests

IdsOf(requests)  == UNION {requests[i].ids : i \in DOMAIN requests}
End(ids, why)    == [i \in DOMAIN ended \cup ids |->
                       IF i \in ids THEN why ELSE ended[i]]

(* A read of `names` stores the value of k: asked for itself, or parsed out*)
(* of a structure.  What stands below a name that is no variable, such as  *)
(* that of a program, or in an array, is not (see AdsDataSource).          *)
Covers(names, k) == k \in names \/ \E p \in names : <<k, p>> \in Brings

Batched          == {a \in Addr : currentRequest[a] # None}
BatchedIds       == UNION {currentRequest[a].ids : a \in Batched}

(* deque::push_front while another thread is inside a push_back or an      *)
(* erase of the same deque: nothing goes wrong, or one of the two updates  *)
(* of the element count is lost and with it the last element.              *)
PushFrontOutcomes(r) ==
  LET whole == WithFront(r)
  IN  {whole, SubSeq(whole, 1, Len(whole) - 1)}

(* What is left of q without the requests of connection a, in order.  `f`  *)
(* lists the positions that stay.                                          *)
IsPurgeOf(left, q, a) ==
  LET stay == {i \in DOMAIN q : ~BelongsTo(q[i], a)}
  IN  \E f \in [1 .. Cardinality(stay) -> stay] :
        /\ \A i, j \in DOMAIN f : i < j => f[i] < f[j]
        /\ left = [i \in DOMAIN f |-> q[f[i]]]

Init ==
  /\ object = [a \in Addr |-> "free"]
  /\ home = [a \in Addr |-> None]
  /\ session = [a \in Addr |-> 0]
  /\ users = {}
  /\ io = [t \in IoThreads |-> IdleHandler]
  /\ mtxConnections = None
  /\ mtxPendingReadRequests = None
  /\ pendingReadRequests = <<>>
  /\ pendingResponse = <<>>
  /\ server = [pc |-> "collect", hand |-> None]
  /\ variables = {}
  /\ currentRequest = [a \in Addr |-> None]
  /\ response = [p \in Responders |-> None]
  /\ horizon = 0
  /\ log = <<>>
  /\ answers = <<>>
  /\ ended = <<>>

-----------------------------------------------------------------------------
(***************************************************************************)
(* The io threads.  A handler of a connection runs on the thread the       *)
(* object is bound to, so a thread that waits for a mutex in one handler   *)
(* serves none of its other connections.                                   *)
(***************************************************************************)

(* crow accepts a websocket: a new object, at an address that is free.     *)
Accept(t, a) ==
  /\ Doing(t, "idle")
  /\ object[a] = "free"
  /\ session[a] < MaxSessions
  /\ object' = [object EXCEPT ![a] = "open"]
  /\ home' = [home EXCEPT ![a] = t]
  /\ session' = [session EXCEPT ![a] = @ + 1]
  /\ io' = [io EXCEPT ![t] = Handler("open", a)]
  /\ UNCHANGED <<userVars, readVars, serverVars, responseVars, horizon, log,
                 answers, ended>>

AddConnection(t) ==
  /\ Doing(t, "open")
  /\ mtxConnections = None
  /\ users' = users \cup {io[t].conn}
  /\ Return(t)
  /\ UNCHANGED <<objectVars, mtxConnections, readVars, serverVars,
                 responseVars, horizon, log, answers, ended>>

(* onmessage, "read": the request with its time, before any mutex.         *)
ReceiveRead(t, a, keys) ==
  /\ Doing(t, "idle")
  /\ Alive(a) /\ home[a] = t
  /\ Len(log) < MaxRequests
  /\ log' = Append(log, [conn |-> a, session |-> session[a], keys |-> keys])
  /\ io' = [io EXCEPT ![t] =
              [op |-> "read", conn |-> a,
               request |-> [conn |-> a, keys |-> keys,
                            receiveTime |-> Len(log) + 1,
                            ids |-> {Len(log) + 1}]]]
  /\ UNCHANGED <<objectVars, userVars, readVars, serverVars, responseVars,
                 horizon, answers, ended>>

AddPendingReadRequest(t) ==
  /\ Doing(t, "read")
  /\ mtxPendingReadRequests = None
  /\ mtxPendingReadRequests' = t
  /\ pendingReadRequests' = Append(pendingReadRequests, io[t].request)
  /\ Goto(t, "pushing")
  /\ UNCHANGED <<objectVars, userVars, serverVars, responseVars, horizon,
                 log, answers, ended>>

FinishAddPendingReadRequest(t) ==
  /\ Doing(t, "pushing")
  /\ UnlockReads
  /\ Return(t)
  /\ UNCHANGED <<objectVars, userVars, pendingReadRequests, serverVars,
                 responseVars, horizon, log, answers, ended>>

(* onmessage, "write": the data source writes, and the answer is sent,     *)
(* under mtx_pendingReadRequests.                                          *)
ReceiveWrite(t, a) ==
  /\ Doing(t, "idle")
  /\ Alive(a) /\ home[a] = t
  /\ io' = [io EXCEPT ![t] = Handler("write", a)]
  /\ UNCHANGED <<objectVars, userVars, readVars, serverVars, responseVars,
                 horizon, log, answers, ended>>

WriteSymbolValue(t) ==
  /\ Doing(t, "write")
  /\ mtxPendingReadRequests = None
  /\ mtxPendingReadRequests' = t
  /\ Goto(t, "writing")
  /\ UNCHANGED <<objectVars, userVars, pendingReadRequests, serverVars,
                 responseVars, horizon, log, answers, ended>>

SendWriteResponse(t) ==
  /\ Doing(t, "writing")
  /\ UnlockReads
  /\ Return(t)
  /\ UNCHANGED <<objectVars, userVars, pendingReadRequests, serverVars,
                 responseVars, horizon, log, answers, ended>>

(* crow runs the close handler: on a close frame, or on an error, and then *)
(* once more when the object of a failed write ends its read too.          *)
Close(t, a) ==
  /\ Doing(t, "idle")
  /\ Alive(a) /\ home[a] = t
  /\ io' = [io EXCEPT ![t] = Handler("close", a)]
  /\ UNCHANGED <<objectVars, userVars, readVars, serverVars, responseVars,
                 horizon, log, answers, ended>>

RemoveConnection(t) ==
  /\ Doing(t, "close")
  /\ mtxConnections = None
  /\ mtxConnections' = t
  /\ Goto(t, "removing")
  /\ UNCHANGED <<objectVars, users, readVars, serverVars, responseVars,
                 horizon, log, answers, ended>>

PurgeRequests(t) ==
  LET a      == io[t].conn
      purged == {i \in DOMAIN pendingReadRequests :
                   BelongsTo(pendingReadRequests[i], a)}
  IN  /\ Doing(t, "removing")
      /\ mtxPendingReadRequests = None
      /\ mtxPendingReadRequests' = t
      /\ IsPurgeOf(pendingReadRequests', pendingReadRequests, a)
      /\ ended' = End(UNION {pendingReadRequests[i].ids : i \in purged},
                      "purged")
      /\ Unregister(a)
      /\ Goto(t, "purging")
      /\ UNCHANGED <<objectVars, mtxConnections, serverVars, responseVars,
                     horizon, log, answers>>

(* Both mutexes are released.  The object is destroyed, or stays while a   *)
(* read of its socket is outstanding and may still deliver messages.       *)
FinishRemoveConnection(t) ==
  LET a == io[t].conn
  IN  /\ Doing(t, "purging")
      /\ UnlockReads
      /\ mtxConnections' = None
      /\ Return(t)
      /\ \/ object' = [object EXCEPT ![a] = "free"]
            /\ home' = [home EXCEPT ![a] = None]
         \/ object' = [object EXCEPT ![a] = "closed"]
            /\ UNCHANGED home
      /\ UNCHANGED <<session, users, pendingReadRequests, serverVars,
                     responseVars, horizon, log, answers, ended>>

(* check_destroy() of an object whose close handler has run.               *)
Destroy(t, a) ==
  /\ Doing(t, "idle")
  /\ object[a] = "closed" /\ home[a] = t
  /\ object' = [object EXCEPT ![a] = "free"]
  /\ home' = [home EXCEPT ![a] = None]
  /\ UNCHANGED <<session, userVars, io, readVars, serverVars, responseVars,
                 horizon, log, answers, ended>>

-----------------------------------------------------------------------------
(***************************************************************************)
(* The server thread.                                                      *)
(***************************************************************************)
AtServer(pc) == server.pc = pc
Proceed(pc)  == server' = [pc |-> pc, hand |-> None]

(* getPendingReadRequest takes the request at i: those before it are old   *)
(* and are thrown out.                                                     *)
TakesRequestAt(i) ==
  /\ mtxPendingReadRequests = None
  /\ i \in DOMAIN pendingReadRequests
  /\ ~Old(pendingReadRequests[i])
  /\ \A j \in 1 .. i - 1 : Old(pendingReadRequests[j])
  /\ pendingReadRequests' =
       SubSeq(pendingReadRequests, i + 1, Len(pendingReadRequests))
  /\ ended' = End(IdsOf(SubSeq(pendingReadRequests, 1, i - 1)), "expired")

Fits(r) == Len(r.keys) + Cardinality(variables) < MaxBatch

(* The request is the first of its connection in this batch, or its keys   *)
(* are added to those of the first.                                        *)
Merged(first, r) ==
  IF first = None
  THEN r
  ELSE [first EXCEPT !.keys = @ \o r.keys, !.ids = @ \cup r.ids]

MergeRequest ==
  /\ AtServer("collect")
  /\ \E i \in DOMAIN pendingReadRequests :
       LET r == pendingReadRequests[i]
       IN  /\ TakesRequestAt(i)
           /\ Fits(r)
           /\ variables' = variables \cup {r.keys[k] : k \in DOMAIN r.keys}
           /\ currentRequest' = [currentRequest EXCEPT ![r.conn] =
                                   Merged(currentRequest[r.conn], r)]
  /\ UNCHANGED <<objectVars, userVars, io, mtxPendingReadRequests, server,
                 responseVars, horizon, log, answers>>

RejectRequest ==
  /\ AtServer("collect")
  /\ \E i \in DOMAIN pendingReadRequests :
       LET r == pendingReadRequests[i]
       IN  /\ TakesRequestAt(i)
           /\ ~Fits(r)
           /\ server' = [pc |-> "put back", hand |-> r]
  /\ UNCHANGED <<objectVars, userVars, io, mtxPendingReadRequests, variables,
                 currentRequest, responseVars, horizon, log, answers>>

(* No request that is not too old is left.  With nothing collected either, *)
(* the thread goes round for nothing: it never waits for a request.        *)
EndCollect ==
  /\ AtServer("collect")
  /\ mtxPendingReadRequests = None
  /\ \A i \in DOMAIN pendingReadRequests : Old(pendingReadRequests[i])
  /\ pendingReadRequests' = <<>>
  /\ ended' = End(IdsOf(pendingReadRequests), "expired")
  /\ Proceed("consolidate")
  /\ UNCHANGED <<objectVars, userVars, io, mtxPendingReadRequests, variables,
                 currentRequest, responseVars, horizon, log, answers>>

(* "No room, put it back": the deque is changed without its mutex.         *)
PutBack ==
  LET whole == WithFront(server.hand)
      racer == mtxPendingReadRequests
      race  == racer # None /\ io[racer].op \in {"pushing", "purging"}
  IN  /\ AtServer("put back")
      /\ pendingReadRequests' \in IF race THEN PushFrontOutcomes(server.hand)
                                          ELSE {whole}
      /\ ended' = End(IdsOf(whole) \ IdsOf(pendingReadRequests'), "lost")
      /\ Proceed("consolidate")
      /\ UNCHANGED <<objectVars, userVars, io, mtxPendingReadRequests,
                     variables, currentRequest, responseVars, horizon, log,
                     answers>>

(* Child names are removed.  With no name left nothing is read, and the    *)
(* requests collected go with the locals of this call.                     *)
Consolidate ==
  /\ AtServer("consolidate")
  /\ IF variables = {}
     THEN /\ ended' = End(BatchedIds, "no keys")
          /\ currentRequest' = [a \in Addr |-> None]
          /\ Proceed("collect")
          /\ UNCHANGED variables
     ELSE /\ variables' = Consolidated(variables)
          /\ Proceed("read")
          /\ UNCHANGED <<currentRequest, ended>>
  /\ UNCHANGED <<objectVars, userVars, io, readVars, responseVars, horizon,
                 log, answers>>

(* The data source reads the names from the PLC into its cache.            *)
ReadVariables ==
  /\ AtServer("read")
  /\ Proceed("respond")
  /\ UNCHANGED <<objectVars, userVars, io, readVars, variables,
                 currentRequest, responseVars, horizon, log, answers, ended>>

(* One response per connection, in the order of an unordered_map.          *)
QueueResponses ==
  /\ AtServer("respond")
  /\ \E order \in [1 .. Cardinality(Batched) -> Batched] :
       /\ \A i, j \in DOMAIN order : order[i] = order[j] => i = j
       /\ pendingResponse' =
            pendingResponse \o [i \in DOMAIN order |-> currentRequest[order[i]]]
  /\ variables' = {}
  /\ currentRequest' = [a \in Addr |-> None]
  /\ Proceed("collect")
  /\ UNCHANGED <<objectVars, userVars, io, readVars, response, horizon, log,
                 answers, ended>>

-----------------------------------------------------------------------------
(***************************************************************************)
(* The response threads.                                                   *)
(***************************************************************************)
TakeResponse(p) ==
  /\ response[p] = None
  /\ pendingResponse # <<>>
  /\ response' = [response EXCEPT ![p] = Head(pendingResponse)]
  /\ pendingResponse' = Tail(pendingResponse)
  /\ UNCHANGED <<objectVars, userVars, io, readVars, serverVars, horizon,
                 log, answers, ended>>

(* Under mtx_connections: only to a connection that is in the user list.   *)
SendResponse(p) ==
  LET r == response[p]
  IN  /\ r # None
      /\ mtxConnections = None
      /\ IF IsUser(r.conn)
         THEN /\ answers' = Append(answers,
                              [conn |-> r.conn, session |-> session[r.conn],
                               keys |-> r.keys, ids |-> r.ids])
              /\ UNCHANGED ended
         ELSE /\ ended' = End(r.ids, "no user")
              /\ UNCHANGED answers
      /\ response' = [response EXCEPT ![p] = None]
      /\ UNCHANGED <<objectVars, userVars, io, readVars, serverVars,
                     pendingResponse, horizon, log>>

(* Time passes: the oldest request that is not yet too old becomes so.     *)
Tick ==
  /\ horizon < Len(log)
  /\ horizon' = Later(horizon)
  /\ UNCHANGED <<objectVars, userVars, io, readVars, serverVars,
                 responseVars, log, answers, ended>>

-----------------------------------------------------------------------------
FromClient(t) == \E a \in Addr : \/ Accept(t, a)
                                 \/ \E keys \in KeyLists : ReceiveRead(t, a, keys)
                                 \/ ReceiveWrite(t, a)
                                 \/ Close(t, a)
                                 \/ Destroy(t, a)

InHandler(t) == \/ AddConnection(t)
                \/ AddPendingReadRequest(t) \/ FinishAddPendingReadRequest(t)
                \/ WriteSymbolValue(t) \/ SendWriteResponse(t)
                \/ RemoveConnection(t) \/ PurgeRequests(t)
                \/ FinishRemoveConnection(t)

ServerThread == \/ MergeRequest \/ RejectRequest \/ EndCollect \/ PutBack
                \/ Consolidate \/ ReadVariables \/ QueueResponses

ResponseThread(p) == TakeResponse(p) \/ SendResponse(p)

Next == \/ \E t \in IoThreads : FromClient(t) \/ InHandler(t)
        \/ ServerThread
        \/ \E p \in Responders : ResponseThread(p)
        \/ Tick

Spec == Init /\ [][Next]_vars

(***************************************************************************)
(* Fairness.  No thread stops for good: each loops or returns to crow's    *)
(* worker loop, and one that waits for a mutex that is free again and      *)
(* again gets it in the end (strong fairness, as other threads may keep    *)
(* taking and releasing it).  Time passes.  Clients owe nothing.           *)
(***************************************************************************)
Fairness == /\ \A t \in IoThreads : SF_vars(InHandler(t))
            /\ SF_vars(ServerThread)
            /\ \A p \in Responders : SF_vars(ResponseThread(p))
            /\ WF_vars(Tick)

FairSpec == Spec /\ Fairness

-----------------------------------------------------------------------------
HandlerOps == {"idle", "open", "read", "pushing", "write", "writing", "close",
               "removing", "purging"}
Reasons    == {"purged", "expired", "lost", "no keys", "no user"}

(* The values every variable ranges over.                                  *)
ObjectTypes == /\ object \in [Addr -> {"free", "open", "closed"}]
               /\ home \in [Addr -> IoThreads \cup {None}]
               /\ session \in [Addr -> Nat]
               /\ users \subseteq Addr

HandlerTypes == io \in [IoThreads -> [op : HandlerOps, conn : Addr \cup {None},
                                      request : Request \cup {None}]]

LockTypes == /\ mtxConnections \in IoThreads \cup {None}
             /\ mtxPendingReadRequests \in IoThreads \cup {None}

QueueTypes == /\ pendingReadRequests \in Seq(Request)
              /\ pendingResponse \in Seq(Request)
              /\ response \in [Responders -> Request \cup {None}]

ServerTypes == /\ server \in [pc : {"collect", "put back", "consolidate",
                                    "read", "respond"},
                              hand : Request \cup {None}]
               /\ variables \subseteq Keys
               /\ currentRequest \in [Addr -> Request \cup {None}]

HistoryTypes == /\ horizon \in Nat
                /\ log \in Seq([conn : Addr, session : Nat, keys : Seq(Keys)])
                /\ answers \in Seq([conn : Addr, session : Nat,
                                    keys : Seq(Keys), ids : SUBSET Nat])
                /\ DOMAIN ended \subseteq Nat
                /\ \A id \in DOMAIN ended : ended[id] \in Reasons

TypeOK == /\ ObjectTypes /\ HandlerTypes /\ LockTypes
          /\ QueueTypes /\ ServerTypes /\ HistoryTypes

-----------------------------------------------------------------------------
(* Whatever the order of handlers, closes and sends, a registered          *)
(* connection is an object that exists: sendResponse, which dereferences   *)
(* what it finds in `users`, never touches a freed connection.             *)
UsersAreAlive == \A a \in users : Alive(a)

(* Every place a request received can be in.                               *)
Holders(id) ==
  {<<"handler", t>> : t \in {u \in IoThreads :
      io[u].request # None /\ id \in io[u].request.ids}}
  \cup {<<"pending", i>> : i \in {j \in DOMAIN pendingReadRequests :
      id \in pendingReadRequests[j].ids}}
  \cup {<<"hand", x>> : x \in {y \in {server.hand} :
      y # None /\ id \in y.ids}}
  \cup {<<"batch", a>> : a \in {b \in Batched : id \in currentRequest[b].ids}}
  \cup {<<"queued", i>> : i \in {j \in DOMAIN pendingResponse :
      id \in pendingResponse[j].ids}}
  \cup {<<"responder", p>> : p \in {q \in Responders :
      response[q] # None /\ id \in response[q].ids}}
  \cup {<<"answer", i>> : i \in {j \in DOMAIN answers : id \in answers[j].ids}}
  \cup {<<"ended", i>> : i \in DOMAIN ended \cap {id}}

(* A read request is never duplicated, never answered twice, never both    *)
(* dropped and answered, and never vanishes without one of the reasons:    *)
(* it is in exactly one place from its receipt on.                         *)
OnePlace == \A id \in DOMAIN log : Cardinality(Holders(id)) = 1

Registered(id) == /\ log[id].conn \in users
                  /\ log[id].session = session[log[id].conn]

(* The pipeline gives a request up only for a cause: it was over 3 s old,  *)
(* it named no variable, its connection is not registered any more, or it  *)
(* fell to the unlocked push_front.                                        *)
DroppedForCause ==
  \A id \in DOMAIN ended :
    CASE ended[id] = "expired" -> id <= horizon
      [] ended[id] = "no keys" -> log[id].keys = <<>>
      [] ended[id] \in {"purged", "no user"} -> ~Registered(id)
      [] OTHER -> TRUE

(* A response holds the names of every request it answers, those of the    *)
(* requests that were merged into an earlier one too, and no other name.   *)
AnswersComplete ==
  \A i \in DOMAIN answers :
    LET given == {answers[i].keys[k] : k \in DOMAIN answers[i].keys}
        wanted(id) == {log[id].keys[k] : k \in DOMAIN log[id].keys}
    IN  /\ given = UNION {wanted(id) : id \in answers[i].ids}
        /\ \A id \in answers[i].ids : log[id].conn = answers[i].conn

(* Of the names that the requests of a batch ask for, the PLC read brings  *)
(* each, however they were merged and whichever members were left out of   *)
(* it; but not those below a name, asked for by whomever in the batch, that*)
(* does not bring them: they were left out as well.                        *)
BatchNames == UNION {{currentRequest[a].keys[k] : k \in DOMAIN currentRequest[a].keys} :
                       a \in Batched}

BatchIsRead ==
  server.pc \in {"read", "respond"} =>
    \A k \in BatchNames :
      (\A p \in BatchNames : <<k, p>> \in Child => <<k, p>> \in Brings)
        => Covers(variables, k)

(* The requests of one connection keep the order they were received in     *)
(* until their responses are queued, through merging and putting back.     *)
Line(a) ==
  pendingResponse
    \o (IF currentRequest[a] = None THEN <<>> ELSE <<currentRequest[a]>>)
    \o (IF server.hand = None THEN <<>> ELSE <<server.hand>>)
    \o pendingReadRequests

InOrder ==
  \A a \in Addr : \A i, j \in DOMAIN Line(a) :
    i < j /\ Line(a)[i].conn = a /\ Line(a)[j].conn = a =>
      \A x \in Line(a)[i].ids, y \in Line(a)[j].ids : x < y

(* "Check that the connection is still in the user list"                   *)
(* (jsonserver.cpp:289): a response goes to the connection that asked.     *)
RoutedToOwner ==
  \A i \in DOMAIN answers : \A id \in answers[i].ids :
    log[id].session = answers[i].session

(* "No room, put it back" (jsonserver.cpp:213): a request that does not    *)
(* fit stays pending, and putting it back loses no other.                  *)
NothingLost == \A id \in DOMAIN ended : ended[id] # "lost"

-----------------------------------------------------------------------------
Answered == UNION {answers[i].ids : i \in DOMAIN answers}

(* Every read request received is answered or given up in the end: none    *)
(* waits for ever, not even behind one that never fits in a batch.         *)
Settled == \A id \in 1 .. MaxRequests :
             Len(log) >= id ~> id \in Answered \cup DOMAIN ended

(* Every handler comes back to crow's loop: nobody waits for a mutex that  *)
(* is never released, whatever the two are taken for.                      *)
HandlersReturn == \A t \in IoThreads : io[t].op # "idle" ~> io[t].op = "idle"

(* The pipeline implements the abstract read service.                      *)
Service == INSTANCE ReadService WITH
  Address   <- Addr,
  Sessions  <- 1 .. MaxSessions,
  Names     <- KeyLists,
  Most      <- MaxRequests,
  asked     <- log,
  connected <- {<<a, session[a]>> : a \in users},
  aged      <- horizon,
  outcome   <- [id \in Answered \cup DOMAIN ended |->
                  IF id \in Answered THEN "answered"
                  ELSE IF ended[id] = "lost" THEN "lost" ELSE "given up"]

ServiceSpec == Service!Spec
=============================================================================
