----------------------------- MODULE HttpServer -----------------------------
(***************************************************************************)
(* crow::Server and crow::Connection as the server runs them: one acceptor *)
(* thread, Workers io threads with a task_timer each, one shared object    *)
(* per connection, which lives as long as a handler or a timer task holds  *)
(* it, until its socket is moved into a websocket or closed.               *)
(*                                                                         *)
(* A request is a record, and on the wire a few tokens: its request line,  *)
(* its headers, its end.  A read completes with any number of the tokens   *)
(* that have come.  A client asks again when it has its answer, and the    *)
(* write completion of that answer runs before the read that brings the    *)
(* next request; a request line comes in one read.  The routes are those   *)
(* of jsonserver::start and Crow::validate: GET / for websockets and       *)
(* GET /static/...  No handler keeps a response open, no middleware is     *)
(* used.  A file goes out in blocking writes: to a client that has stopped *)
(* taking what is sent (`stalled`) they may last as long as it stays, and  *)
(* hold the worker that runs them (`held`).                                *)
(* `answers` (what reached the client) and `robbed` are history.           *)
(***************************************************************************)
EXTENDS Integers, Sequences, FiniteSets, SequencesExt

CONSTANTS NWorkers,  \* io threads: concurrency - 1
          NConns,    \* connections, numbered in the order they are accepted
          Plans,     \* what clients ask: for each that connects, a sequence
          Timeout    \* of a connection, in ticks

Request == [method : {"GET", "HEAD", "OPTIONS", "POST"},
            target : {"root", "file", "missing", "none"},
            version : {10, 11}, connection : {"", "close", "keep-alive"},
            host : BOOLEAN, upgrade : {"", "websocket", "h2", "other"},
            expect : BOOLEAN]

ASSUME SizesType   == /\ NWorkers \in Nat \ {0} /\ NConns \in Nat \ {0}
                      /\ Timeout \in Nat
ASSUME PlansType   == \A p \in Plans : p \in Seq(Seq(Request)) /\ Len(p) <= NConns

Workers == 1 .. NWorkers
Conns   == 1 .. NConns
None    == [method |-> "none"]

VARIABLES conn,      \* the connection objects
          timer,     \* the task_timer of each worker
          load,      \* task_queue_length_pool_
          held,      \* the connection whose file a worker cannot get rid of, or 0
          client,    \* the other ends
          answers,   \* the responses each client has got
          robbed     \* connections whose deadline another one cancelled

vars == <<conn, timer, load, held, client, answers, robbed>>

-----------------------------------------------------------------------------
(***************************************************************************)
(* Faults: forms that definitions below must not have.                     *)
(***************************************************************************)
NotCancelled(s)      == s
SameIdAgain(s)       == [s EXCEPT !.x.id = s.highest + 1,
                                  !.tasks = @ \cup {[id |-> s.highest + 1, conn |-> s.x.self,
                                                     left |-> Timeout]}]
ScheduledThenCancelled(s) == [s EXCEPT !.highest = @ + 1, !.x.id = s.highest + 1]
ParserStaysComplete(x) == [x EXCEPT !.at = "start", !.req = None]
ResStays(x)          == x
LongestQueue(queues) == CHOOSE w \in Workers : \A v \in Workers : queues[w] >= queues[v]

-----------------------------------------------------------------------------
(***************************************************************************)
(* A handler of a connection, x, on its worker: what it reads and changes. *)
(* `out` are responses written by blocking calls.                          *)
(***************************************************************************)
System(c) == [x |-> conn[c], tasks |-> timer[conn[c].worker].tasks,
              highest |-> timer[conn[c].worker].highest,
              out |-> <<>>, robbed |-> {}, threw |-> FALSE]

(* task_timer::cancel, by id.                                              *)
cancel_deadline_timer(s) ==
  LET mine == {t \in s.tasks : t.id = s.x.id}
  IN  [s EXCEPT !.tasks = @ \ mine,
                !.robbed = {t.conn : t \in mine} \ {s.x.self}]

(* task_timer::schedule.                                                   *)
Schedule(s) ==
  [s EXCEPT !.highest = @ + 1, !.x.id = s.highest + 1,
            !.tasks = @ \cup {[id |-> s.highest + 1, conn |-> s.x.self,
                               left |-> Timeout]}]

start_deadline(s) == Schedule(cancel_deadline_timer(s))

do_read(s)    == [s EXCEPT !.x.reading = TRUE]
CloseSocket(s) == [s EXCEPT !.x.open = FALSE]

(* HTTPParser::clear and response::clear: skip_body stays.                 *)
ParserCleared(x) == [x EXCEPT !.at = IF @ = "error" THEN @ ELSE "start",
                              !.complete = FALSE, !.req = None]
ResCleared(x)    == [x EXCEPT !.code = 200, !.file = FALSE, !.completed = FALSE]

-----------------------------------------------------------------------------
(***************************************************************************)
(* The routes.  A code of 0 is a rule that will handle the request.        *)
(***************************************************************************)
handle_initial(r) ==
  IF r.target = "none" THEN 404
  ELSE CASE r.method \in {"GET", "HEAD"} -> 0
         [] r.method = "OPTIONS"         -> 204
         [] OTHER                        -> 405

(* response::end, without the handler that it calls.                       *)
end(x) == [x EXCEPT !.completed = TRUE]

(* What is sent.  After skip_body emptied the body and wrote its length    *)
(* down as 0, a file and the text of an error are sent all the same: the   *)
(* client does not find the end of the response.                           *)
Response(x) == [code |-> x.code, framed |-> ~x.skip \/ x.code = 204]

do_write_general(s) == [s EXCEPT !.x.writes = Append(@, Response(s.x))]

(* The file goes out in blocking writes, the first of which throws when    *)
(* the client is gone; Router::handle makes that a 500 nobody sends.       *)
do_write_static(s, lost) ==
  IF lost = "write"
  THEN [s EXCEPT !.x = [@ EXCEPT !.code = 500, !.file = FALSE, !.completed = TRUE]]
  ELSE [s EXCEPT !.out = Append(@, Response(s.x)),
                 !.x = ResCleared(ParserCleared(
                         IF s.x.closeAfter THEN [s.x EXCEPT !.open = FALSE] ELSE s.x))]

complete_request(s, lost) ==
  IF s.x.file THEN do_write_static(s, lost) ELSE do_write_general(s)

(* on_url: with no rule the answer is sent and the parser is told that the *)
(* stream ends, in the middle of a request line.                           *)
handle_url(s, r) ==
  LET code == handle_initial(r)
      y    == [s.x EXCEPT !.req = r, !.skip = @ \/ (r.method = "HEAD" /\ code = 0)]
  IN  IF code = 0 THEN [s EXCEPT !.x = [y EXCEPT !.at = "line"]]
      ELSE do_write_general([s EXCEPT !.x = [end(y) EXCEPT !.code = code, !.at = "error"]])

(* on_headers_complete.                                                    *)
handle_header(s) ==
  [s EXCEPT !.x.at = "head",
            !.x.writes = IF s.x.req.expect /\ s.x.req.version = 11
                         THEN Append(@, [code |-> 100, framed |-> TRUE]) ELSE @]

(* Router::handle_upgrade: the websocket rule takes the socket, and closes *)
(* it unless a websocket is asked for; other rules set a 404 and end it,   *)
(* which sends nothing.                                                    *)
handle_upgrade(s) ==
  IF s.x.req.target = "root" /\ s.x.req.method = "GET"
  THEN [s EXCEPT !.x = [@ EXCEPT !.open = FALSE,
                                 !.upgraded = (s.x.req.upgrade = "websocket")]]
  ELSE [s EXCEPT !.x = [end(s.x) EXCEPT !.code = IF s.x.req.method = "GET" THEN 404 ELSE 405]]

(* The handlers of the two rules.                                          *)
handle_rule(x) ==
  CASE x.req.target = "file" -> [end(x) EXCEPT !.file = TRUE, !.code = 200]
    [] OTHER                 -> [end(x) EXCEPT !.code = 404]

close_connection(r) == CASE r.version = 10 -> r.connection # "keep-alive"
                         [] r.version = 11 -> r.connection = "close"

(* on_message_complete.  remote_endpoint() throws when the peer is lost.   *)
handle(s, lost) ==
  LET r == s.x.req
      y == [s.x EXCEPT !.complete = TRUE, !.closeAfter = close_connection(r)]
      t == [cancel_deadline_timer(s) EXCEPT !.x = y]
  IN  IF lost = "peer"
      THEN [cancel_deadline_timer(s) EXCEPT !.x.complete = TRUE, !.threw = TRUE]
      ELSE IF r.version = 11 /\ ~r.host
      THEN complete_request([t EXCEPT !.x.code = 400], lost)
      ELSE IF r.version = 11 /\ r.upgrade \in {"websocket", "other"}
      THEN handle_upgrade([t EXCEPT !.x.closeAfter = TRUE])
      ELSE complete_request(IF y.completed THEN t ELSE [t EXCEPT !.x = handle_rule(y)], lost)

(* http_parser_execute on one token.                                       *)
Parsed(s, token, lost) ==
  IF s.threw \/ s.x.at = "error" THEN s
  ELSE CASE token.part = "line" /\ s.x.at = "start" -> handle_url(s, token.of)
         [] token.part = "head" /\ s.x.at = "line"  -> handle_header(s)
         [] token.part = "end"  /\ s.x.at = "head"  -> handle(s, lost)
         [] OTHER                                   -> [s EXCEPT !.x.at = "error"]

(* The tokens of a read, one after the other: no more than a request has.  *)
Fed(s, tokens, i, lost) ==
  IF i \in DOMAIN tokens THEN Parsed(s, tokens[i], lost) ELSE s

feed(s, tokens, lost) ==
  IF s.x.complete THEN s
  ELSE Fed(Fed(Fed(s, tokens, 1, lost), tokens, 2, lost), tokens, 3, lost)

(* The completion of a read feeds the parser; an exception leaves the rest *)
(* of the handler out.                                                     *)
Received(c, n, lost) ==
  feed([System(c) EXCEPT !.x.reading = FALSE], SubSeq(client[c].inbound, 1, n), lost)

ReadCompleted(s) ==
  IF s.threw THEN s
  ELSE IF s.x.at = "error" \/ ~s.x.open THEN CloseSocket(cancel_deadline_timer(s))
  ELSE IF s.x.closeAfter THEN cancel_deadline_timer(s)
  ELSE do_read(start_deadline(s))

ReadFailed(s) == CloseSocket(cancel_deadline_timer([s EXCEPT !.x.reading = FALSE]))

WriteCompleted(s, ok) ==
  LET y == ResCleared(ParserCleared([s.x EXCEPT !.writes = Tail(@)]))
  IN  [s EXCEPT !.x = IF ok /\ y.closeAfter THEN [y EXCEPT !.open = FALSE] ELSE y]

-----------------------------------------------------------------------------
New(c, w) == [self |-> c, worker |-> w, stage |-> "waiting", open |-> TRUE,
              upgraded |-> FALSE, id |-> 0, reading |-> FALSE, writes |-> <<>>,
              closeAfter |-> FALSE, at |-> "start", complete |-> FALSE,
              req |-> None, code |-> 200, file |-> FALSE, completed |-> FALSE,
              skip |-> FALSE]

Unused == [New(1, 1) EXCEPT !.stage = "none", !.open = FALSE]

(* The first of the workers with the shortest queue.  The end of a         *)
(* connection does not make a queue shorter.                               *)
pick_io_service_idx(queues) ==
  CHOOSE w \in Workers : \A v \in Workers : \/ queues[w] < queues[v]
                                          \/ (queues[w] = queues[v] /\ w <= v)

(* do_accept makes the object of the next connection beforehand.           *)
do_accept(conns, queues, c) ==
  IF c \in Conns
  THEN LET w == pick_io_service_idx(queues)
       IN  /\ conn' = [conns EXCEPT ![c] = New(c, w)]
           /\ load' = [queues EXCEPT ![w] = @ + 1]
  ELSE conn' = conns /\ load' = queues

Held(x, tasks) == \/ x.stage \in {"waiting", "posted"}
                  \/ x.reading \/ x.writes # <<>>
                  \/ \E t \in tasks : t.conn = x.self

(* An object that nothing holds is destroyed, and its socket closed.       *)
Released(x, tasks) ==
  IF x.stage = "none" \/ Held(x, tasks) THEN x
  ELSE [x EXCEPT !.stage = "released", !.open = FALSE]

(* What a handler of c leaves behind.                                      *)
Leave(c, handled) ==
  \E s \in {handled} :
    /\ conn' = [conn EXCEPT ![c] = Released(s.x, s.tasks)]
    /\ timer' = [timer EXCEPT ![s.x.worker] = [tasks |-> s.tasks, highest |-> s.highest]]
    /\ answers' = [answers EXCEPT ![c] = @ \o s.out]
    /\ robbed' = robbed \cup s.robbed

Init ==
  /\ conn = [c \in Conns |-> IF c = 1 THEN New(1, 1) ELSE Unused]
  /\ timer = [w \in Workers |-> [tasks |-> {}, highest |-> 0]]
  /\ load = [w \in Workers |-> IF w = 1 THEN 1 ELSE 0]
  /\ \E p \in Plans :
       client = [c \in DOMAIN p |-> [script |-> p[c], past |-> <<>>, whole |-> TRUE,
                                 inbound |-> <<>>, gone |-> FALSE, stalled |-> FALSE]]
  /\ held = [w \in Workers |-> 0]
  /\ answers = [c \in Conns |-> <<>>]
  /\ robbed = {}

(* The acceptor's completion: post start() and accept the next.            *)
Accept(c) ==
  /\ c \in DOMAIN client /\ conn[c].stage = "waiting"
  /\ do_accept([conn EXCEPT ![c].stage = "posted"], load, c + 1)
  /\ UNCHANGED <<timer, held, client, answers, robbed>>

(* Accepting fails: the queue gets its place back, and another object is   *)
(* made in place of this one.                                              *)
AcceptFails(c) ==
  /\ conn[c].stage = "waiting"
  /\ do_accept(conn, [load EXCEPT ![conn[c].worker] = @ - 1], c)
  /\ UNCHANGED <<timer, held, client, answers, robbed>>

(* The worker of c runs handlers, and is not inside a blocking write.      *)
Free(c) == held[conn[c].worker] = 0

start(c) ==
  /\ conn[c].stage = "posted" /\ Free(c)
  /\ LET s == start_deadline(System(c))
     IN  Leave(c, do_read([s EXCEPT !.x = ParserCleared([@ EXCEPT !.stage = "live"])]))
  /\ UNCHANGED <<load, held, client>>

(* How the peer may be found lost while its request is handled, or while   *)
(* a file is sent to it.                                                   *)
Losses(c) == IF ~conn[c].open THEN {"peer"}
             ELSE IF ~client[c].gone THEN {"no"}
             ELSE IF Free(c) THEN {"no", "peer", "write"} ELSE {"no", "write"}

(* A blocking write comes to its end when the client is gone.              *)
ReadDone(c) ==
  /\ conn[c].reading
  /\ Free(c) \/ (held[conn[c].worker] = c /\ client[c].gone)
  /\ \E n \in 1 .. Len(client[c].inbound), lost \in Losses(c) :
       /\ ~Free(c) => n = Len(client[c].inbound)
       /\ \E s \in {Received(c, n, lost)} : Leave(c, ReadCompleted(s))
       /\ client' = [client EXCEPT ![c].inbound = SubSeq(@, n + 1, Len(@))]
  /\ held' = [held EXCEPT ![conn[c].worker] = 0]
  /\ UNCHANGED load

(* The handler of a read comes to a file that its client does not take.    *)
(* What it has done till then no one can see before it goes on.            *)
WriteBlocks(c) ==
  /\ conn[c].reading /\ conn[c].open /\ Free(c)
  /\ client[c].stalled /\ ~client[c].gone
  /\ Received(c, Len(client[c].inbound), "no").out # <<>>
  /\ held' = [held EXCEPT ![conn[c].worker] = c]
  /\ UNCHANGED <<conn, timer, load, client, answers, robbed>>

ReadError(c) ==
  /\ conn[c].reading /\ Free(c)
  /\ client[c].gone \/ ~conn[c].open
  /\ Leave(c, ReadFailed(System(c)))
  /\ UNCHANGED <<load, held, client>>

(* A write that the socket took before it was closed completes as well.    *)
WriteDone(c) ==
  /\ conn[c].writes # <<>> /\ Free(c)
  /\ ~client[c].gone
  /\ LET r == Head(conn[c].writes)
     IN  Leave(c, [WriteCompleted(System(c), TRUE) EXCEPT
                     !.out = IF r.code = 100 THEN <<>> ELSE <<r>>])
  /\ UNCHANGED <<load, held, client>>

WriteError(c) ==
  /\ conn[c].writes # <<>> /\ Free(c)
  /\ client[c].gone \/ ~conn[c].open
  /\ Leave(c, WriteCompleted(System(c), FALSE))
  /\ UNCHANGED <<load, held, client>>

(* tick_handler and process_tasks, once a second.                          *)
Tick(w) ==
  LET due  == {t \in timer[w].tasks : t.left = 0}
      rest == {[t EXCEPT !.left = @ - 1] : t \in timer[w].tasks \ due}
      shut == {t.conn : t \in due}
  IN  /\ held[w] = 0
      /\ timer' = [timer EXCEPT ![w] = [tasks |-> rest,
                                        highest |-> IF rest = {} THEN 0 ELSE @.highest]]
      /\ conn' = [c \in Conns |-> IF c \in shut
                                  THEN Released([conn[c] EXCEPT !.open = FALSE], rest)
                                  ELSE conn[c]]
      /\ UNCHANGED <<load, held, client, answers, robbed>>

Tokens(r) == <<[part |-> "line", of |-> r], [part |-> "head", of |-> r],
               [part |-> "end", of |-> r]>>

(* A client may leave its request unfinished, and then asks no more.       *)
ClientAsks(c) ==
  /\ conn[c].stage \notin {"none", "waiting"}
  /\ client[c].script # <<>> /\ client[c].whole /\ ~client[c].gone
  /\ conn[c].writes = <<>> /\ Len(answers[c]) = Len(client[c].past)
  /\ LET tokens == Tokens(Head(client[c].script))
     IN  \E n \in DOMAIN tokens :
           client' = [client EXCEPT ![c].past = Append(@, tokens[1].of),
                                    ![c].script = Tail(@),
                                    ![c].inbound = SubSeq(tokens, 1, n),
                                    ![c].whole = n = Len(tokens)]
  /\ UNCHANGED <<conn, timer, load, held, answers, robbed>>

(* A client stays and takes no more of what is sent to it.  (One that has  *)
(* asked nothing is sent nothing.)                                         *)
ClientStalls(c) ==
  /\ conn[c].stage \notin {"none", "waiting"} /\ client[c].past # <<>>
  /\ ~client[c].gone /\ ~client[c].stalled
  /\ client' = [client EXCEPT ![c].stalled = TRUE]
  /\ UNCHANGED <<conn, timer, load, held, answers, robbed>>

ClientVanishes(c) ==
  /\ conn[c].stage \notin {"none", "waiting"} /\ ~client[c].gone
  /\ client' = [client EXCEPT ![c].gone = TRUE, ![c].stalled = FALSE]
  /\ UNCHANGED <<conn, timer, load, held, answers, robbed>>

Client(c) == ClientAsks(c) \/ ClientStalls(c) \/ ClientVanishes(c)
Worker(c) == \/ start(c) \/ ReadDone(c) \/ WriteBlocks(c) \/ ReadError(c)
             \/ WriteDone(c) \/ WriteError(c)

Next == \/ \E c \in Conns : Accept(c) \/ AcceptFails(c) \/ Client(c) \/ Worker(c)
        \/ \E w \in Workers : Tick(w)

Spec == Init /\ [][Next]_vars

(***************************************************************************)
(* Fairness: an io thread that is not inside a blocking write gets round   *)
(* to each completion and each tick.  Clients owe nothing: one may be      *)
(* silent for ever, or take nothing of what is sent to it.                 *)
(***************************************************************************)
Fairness ==
  /\ \A c \in Conns : /\ WF_vars(start(c))
                      /\ WF_vars(ReadDone(c) \/ WriteBlocks(c) \/ ReadError(c))
                      /\ WF_vars((WriteDone(c) /\ ~client[c].stalled) \/ WriteError(c))
  /\ \A w \in Workers : WF_vars(Tick(w))

FairSpec == Spec /\ Fairness

-----------------------------------------------------------------------------
Codes  == {200, 204, 400, 404, 405, 500}
Answer == [code : {100} \cup Codes, framed : BOOLEAN]
Token  == [part : {"line", "head", "end"}, of : Request]
Task   == [id : Nat, conn : Conns, left : 0 .. Timeout]
Timer  == [tasks : SUBSET Task, highest : Nat]
Object == [self : Conns, worker : Workers,
           stage : {"none", "waiting", "posted", "live", "released"},
           open : BOOLEAN, upgraded : BOOLEAN, id : Nat,
           reading : BOOLEAN, writes : Seq(Answer),
           closeAfter : BOOLEAN, at : {"start", "line", "head", "error"},
           complete : BOOLEAN, req : Request \cup {None}, code : Codes,
           file : BOOLEAN, completed : BOOLEAN, skip : BOOLEAN]
Peer   == [script : Seq(Request), past : Seq(Request), whole : BOOLEAN,
           inbound : Seq(Token), gone : BOOLEAN, stalled : BOOLEAN]

TypeOK ==
  /\ conn \in [Conns -> Object]
  /\ timer \in [Workers -> Timer]
  /\ \A w \in Workers : \A t \in timer[w].tasks : t.id \in 1 .. timer[w].highest
  /\ load \in [Workers -> Nat]
  /\ held \in [Workers -> {0} \cup Conns]
  /\ DOMAIN client \subseteq Conns
  /\ \A c \in DOMAIN client : client[c] \in Peer /\ Len(client[c].inbound) <= 3
  /\ answers \in [Conns -> Seq(Answer)]
  /\ robbed \subseteq Conns

-----------------------------------------------------------------------------
(* What a request should be answered with.                                 *)
Expected(r) ==
  CASE r.target = "none"                                         -> 404
    [] r.target # "none" /\ r.method = "OPTIONS"                 -> 204
    [] r.target # "none" /\ r.method = "POST"                    -> 405
    [] r.target # "none" /\ r.method \in {"GET", "HEAD"}         ->
         IF r.version = 11 /\ ~r.host THEN 400
         ELSE IF r.target = "file" THEN 200 ELSE 404

(* Nothing that one request leaves in the parser or in the response shows  *)
(* in the answer to a later one, except what a HEAD request leaves.        *)
AnswersRight ==
  \A c \in Conns : \A i \in DOMAIN answers[c] :
    /\ i <= Len(client[c].past)
    /\ answers[c][i].code = Expected(client[c].past[i])
    /\ answers[c][i].framed \/ \E j \in 1 .. i : client[c].past[j].method = "HEAD"

(* A connection that waits for its client has answered all it was asked.   *)
NothingSwallowed ==
  \A c \in Conns :
    conn[c].reading /\ conn[c].open /\ conn[c].writes = <<>>
      /\ client[c].whole /\ client[c].inbound = <<>> /\ ~client[c].gone
    => Len(answers[c]) = Len(client[c].past)

(* A deadline runs only while a read of its connection is outstanding, on  *)
(* the connection's own worker and under the id that it remembers, so that *)
(* it can still be cancelled, and never for a socket that has become a     *)
(* websocket's.  (The answer to the request before may still be on its     *)
(* way meanwhile, and is lost to a client that takes it too slowly.)       *)
DeadlineWhileReading ==
  \A w \in Workers : \A t \in timer[w].tasks :
    /\ conn[t.conn].worker = w /\ conn[t.conn].id = t.id
    /\ conn[t.conn].reading /\ ~conn[t.conn].upgraded

(* No worker is given two connections more than another.                   *)
Balanced == \A v, w \in Workers : load[v] <= load[w] + 1

(* "Set the connection timeout in seconds (default is 5)"                  *)
(* (crow_all.h:13443): while the server waits for a client, a deadline     *)
(* runs.                                                                   *)
DeadlineArmed ==
  \A c \in Conns : conn[c].reading /\ conn[c].open =>
                     \E t \in timer[conn[c].worker].tasks : t.conn = c

(* What the end of a connection may wait for without an end: a worker that *)
(* is inside a blocking write, and a client that does not take the answer  *)
(* after which its socket will be closed, when no deadline runs any more.  *)
Stuck(c) ==
  \/ held[conn[c].worker] # 0
  \/ /\ conn[c].writes # <<>> /\ conn[c].open /\ ~conn[c].reading
     /\ client[c].stalled

(* A connection that was accepted ends, and its object is destroyed, its   *)
(* socket closed or handed over, even if its client says nothing for ever: *)
(* unless some client that stays takes no more of what is sent to it, at   *)
(* the other end of this connection or of one whose file its worker sends, *)
(* or another connection cancelled its deadline.                           *)
Ends == \A c \in Conns :
          \/ conn[c].stage = "posted" ~> conn[c].stage = "released" \/ c \in robbed
          \/ <>[]Stuck(c)
=============================================================================
