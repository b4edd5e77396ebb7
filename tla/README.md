# Verification of the Loupe UX JSON server

TLA+ specifications of the server under `src/src/LuxServer`, model-checked with
TLC and proved about with TLAPS. Source paths below are relative to
`src/src/LuxServer/src` unless they start with `src/`; `crow` is
`src/src/LuxServer/include/crow_all.h`, the web framework the server is built on.

## 1. The system

The server stands between Lux clients (web pages) and a Beckhoff PLC. Clients
connect by websocket and send `read` and `write` messages; the server turns them
into ADS requests to the PLC.

    client --http, then ws--> crow io thread --pendingReadRequests--> server thread --ADS--> PLC
                                   |                                       |
                                   | users (register, purge)               | pendingResponse
                                   v                                       v
                              mtx_connections  <---- send under lock --- 5 response threads

### Components

| component | source | state | operations |
|---|---|---|---|
| main | `server/server.cpp` | configuration, address of the PLC | configuration, connection loop, upload of the tables, start |
| HTTP server | `crow` 12420-13340 | connection objects, timers, queue lengths per io thread | accept, start, read, handle, write, deadline |
| HTTP parser | `crow` 5500-7400, 8349-8520 | `http_parser` and crow's record of the request | `http_parser_execute`, callbacks, `feed`, `clear` |
| routes | `crow` 11129-12100 | the trie | `add`, `optimize`, `find` |
| websocket | `crow` 7656-8300 | one object per websocket | handshake, frames, close, sends, `check_destroy` |
| JSON | `crow` 2330-4288 | none | `load`, `rvalue`, `wvalue`, `dump` |
| request pipeline | `jsonserver/jsonserver.{cpp,h}` | `users`, `pendingReadRequests`, `pendingResponse`, three mutexes, `dataSources` | open, close and message handlers; `serverThread` (`handlePendingRequests`); `responseThread` (`sendResponse`) |
| ADS data source | `DataSource/ADS/DataSource.{cpp,h}` | connection parameters, handles, `propertyReads` | connect and upload, read one or many names, write, get a handle |
| ADS symbol and value cache | `DataSource/ADS/DataSource_impl.{cpp,h}`, `DataParser.h` | `symbolInfo`, `symbolData`, `ready` | `findInfo`, `cacheSymbolInfo`, `getMemberInfo`, `parseBuffer`, `encodeBuffer`, `findValue` |
| ADS symbol and type tables | `DataSource/ADS/SymbolParser.{cpp,h}` | the uploaded tables, constant | `Symbol`, `GetTypeByName`, `SubSymbolCount/Info/Entry` |
| value codec | `DataSource/ADS/DataParser.cpp` | none | `encode`, `parse` by type code |
| utilities | `utils/util.{cpp,h}` | none | `toLower`, `split`, `splitVarName`, files, timestamps |
| sim data source, examples, build files | `DataSource/sim`, `src/example`, CMake, workflow | none | not part of the server's behaviour |

### How they interact

* **Threads.** `main` ends in crow's `run()` with its acceptor and io threads;
  `start()` adds one server thread and 5 response threads. None of them is ever
  stopped. A connection stays with the io thread it was given when it was accepted.
* **From HTTP to websocket.** An HTTP connection whose request asks for an upgrade of
  `/` gives its socket to a websocket object, and is destroyed. The websocket owns
  itself and ends in `delete this`.
* **Handlers.** The websocket calls `onopen`, `onmessage` and `onclose` of the
  pipeline on its io thread. The pipeline knows it by its address from the first to the
  last of these calls, and calls `send_text` from response threads, which
  posts to the io thread.
* **Shared state.** `users` under `mtx_connections`; `pendingReadRequests` under
  `mtx_pendingReadRequests`, with the one exception of the put-back in
  `handlePendingRequests` (`jsonserver.cpp:214`); `pendingResponse` under
  `mtx_pendingResponse`. The data source has no lock of its own: the server
  thread reads into it, the response threads copy out of it, and the io threads
  write through it under `mtx_pendingReadRequests`.
* **Calls.** `onmessage` of a write holds `mtx_pendingReadRequests` across a PLC
  round trip. `removeConnection` takes `mtx_connections`, then
  `mtx_pendingReadRequests`. `sendResponse` holds `mtx_connections` while it sends.

### What is hard

* a close between any two steps of a request of the same connection, and the
  allocation of the next connection at the same address;
* merging, rejecting and putting back requests over several rounds, with a
  3 s age limit that is checked only when a request is taken;
* the unlocked put-back; lock order and locks held across calls;
* a websocket that deletes itself while reads, writes and posted sends race;
* timers whose ids are given out again, and parsers and responses that are reused for
  the next request of a connection;
* reads that end anywhere in a request, a frame or a name;
* the data source's caches, shared without a lock, filled on demand, never
  invalidated, and changed by lookups;
* sums of sub-requests whose results are matched to names by position.

`PROJECT.json` lists each hazard with the line where it bites.

### What makes each component correct

* **main, connection**: the address of the PLC is that of the configuration, as a whole;
  the data source serves only tables that were uploaded (it does not: `readInfo` goes
  by the result of the first of its three calls, `DataSource_impl.cpp:120`).
* **HTTP server**: each request is answered for itself, whatever earlier ones
  left behind; every connection ends (not when a client holds its io thread by taking
  no more of a file); a deadline runs whenever the server waits for a client (it does not:
  finding 3), and only while it reads; connections are spread evenly.
* **parser, routes, JSON, codec**: the result does not depend on how the input was
  cut, and is that of a definition of it that works in another way.
* **websocket**: nothing touches the object after its deletion; messages are
  delivered whole and in order, sends go out in order; it ends when it should.
* **pipeline**: no request vanishes, is answered twice or is answered after it
  was given up; it is given up only for a cause; every request settles; answers
  hold every name asked for, in the connection's order up to the response queue;
  nothing is sent to a freed object or to another client; no handler hangs; leaving
  a name out of a batch because of the name above it does not lose its value (it may:
  findings 11 and 12).
* **symbol cache**: the address, size and type cached for a name are those of
  that name in the uploaded tables, for any order of requests; a name that does
  not exist leaves no trace in the ones that do.
* **value cache**: what `getSymbolValue(n)` returns after a read that covers `n`
  is the value read; reading or asking for one name does not spoil another.
* **ADS read and write**: the result of a sub-request goes to the name it was
  sent for; a failed name does not disturb the others; handles are requested once.

## 2. The modules

| module | models | kind |
|---|---|---|
| `KeyTree` | variable names, parent/child names, the consolidation of a batch | operators, with assumptions |
| `JsonServer` | the request pipeline and the part of crow it meets | detailed specification |
| `ReadService` | what the pipeline promises about a read request | abstract specification |
| `MCJsonServer` | instances for TLC | model |
| `JsonServer_proofs`, `JsonServerPlaces_proofs` | theorems: users, batches, answers and drops; places, order and the refinement | proofs |
| `ConnectionLife` | what a websocket object is to the pipeline | abstract specification |
| `WebSocket` | one websocket, from handshake to `delete this` | detailed specification |
| `MCWebSocket`, `WebSocket_proofs` | instances for TLC; theorems | model, proofs |
| `HttpServer`, `MCHttpServer` | acceptor, io threads, timers, HTTP connections | detailed specification, model |
| `HttpServer_proofs`, `HttpServerAnswers_proofs` | theorems: types, deadlines, loads; answers | proofs |
| `HttpParser`, `HttpMessages` | the HTTP parser; requests, and what they should be read as | operators |
| `Router` | the trie of routes, its optimisation, its search | operators |
| `Json` | reading, converting and printing JSON | operators |
| `DataParser` | written values into PLC memory and back | operators |
| `SymbolTables` | the type table and what `getMemberInfo` makes of it | operators |
| `MCText` | all small inputs for the five above, and reference definitions | model |
| `Spelling` | names as sequences of components | operators |
| `PlcProgram` | the variables of a PLC program as the uploaded tables describe them | operators, with assumptions |
| `SymbolCache` | the tree `symbolInfo` and what `findInfo` makes of it | operators |
| `ValueTree` | the tree `symbolData`, with the side effects of crow's `operator[]` | operators |
| `AdsDataSource` | reads, writes and copies of values by the three kinds of threads | detailed specification |
| `Startup` | `main`, and `AdsDataSource` from then on | composition |
| `Startup_proofs`, `StartupAnswers_proofs` | theorems: types, addresses, the caches, writes; answers | proofs |
| `Iteration_proofs` | induction, and that functions defined by recursion on numbers exist, for `WebSocket_proofs` and `Startup_proofs` | proofs |
| `MCAdsDataSource` | parts of one PLC program, configurations | model |

How they are joined: `HttpServer` ends a connection where `WebSocket` begins it
(`upgraded`); `WebSocket` is shown to be a `ConnectionLife`, which is all that
`JsonServer` relies on in `Accept`, `AddConnection`, `Close` and `Destroy`; `JsonServer`
takes the data source's reads and writes as steps, into which `AdsDataSource` looks;
`AdsDataSource` goes by `SymbolCache` and `PlcProgram`, which `SymbolTables` shows to be
what the code computes from the tables (`CacheIsTables`).

### JsonServer

One action per step between two points where another thread can be noticed. A
critical section in which nothing else can interfere is one step; one that is
visible from outside (because it spans a call, takes a second mutex or races with
the put-back) is a first step that takes the lock and a later one that releases it.

| variable | code |
|---|---|
| `object`, `home` | the crow connection objects by address; the io thread each is bound to |
| `session` | ghost: how many objects have lived at an address |
| `users`, `mtxConnections` | `users`, `mtx_connections` |
| `io` | per io thread, the handler it runs and how far it is |
| `pendingReadRequests`, `mtxPendingReadRequests` | the same |
| `server`, `variables`, `currentRequest` | position and locals of `handlePendingRequests` |
| `pendingResponse`, `response` | the queue, and per response thread the request it has taken |
| `horizon` | the clock: requests up to this one are older than 3 s |
| `log`, `answers`, `ended` | history: received, answered, given up and why |

| actions | code |
|---|---|
| `Accept`, `AddConnection` | crow's accept; `onopen` |
| `ReceiveRead`, `AddPendingReadRequest`, `FinishAddPendingReadRequest` | `onmessage` of a read |
| `ReceiveWrite`, `WriteSymbolValue`, `SendWriteResponse` | `onmessage` of a write |
| `Close`, `RemoveConnection`, `PurgeRequests`, `FinishRemoveConnection`, `Destroy` | `onclose`, then crow's destruction of the object |
| `MergeRequest`, `RejectRequest`, `EndCollect`, `PutBack` | the collecting loop of `handlePendingRequests` with `getPendingReadRequest` inlined |
| `Consolidate`, `ReadVariables`, `QueueResponses` | the rest of `handlePendingRequests` |
| `TakeResponse`, `SendResponse` | `responseThread`, `sendResponse` |
| `Tick` | time: the oldest request not yet over 3 s old becomes so |

Choices worth knowing:

* *Names* are opaque; what the code looks at is whether one name is another
  followed by `.` or `[`. That relation is the constant `Child`, with the three
  facts strings give it (it is on the names, transitive, well-founded) as assumptions.
* *Time* is an order: `receiveTime` is a request's position in `log`, and `Tick`
  moves the horizon of the 3 s check past one request. Any number of requests can
  age between any two steps, none un-ages (`steady_clock`).
* *The put-back* is a data race when an io thread is inside a `push_back` or an
  `erase` of the same deque. The model allows two outcomes, that of the sequential
  call and one in which one of the two updates of the element count is lost (the
  documented compiler's deque keeps a plain count). Worse outcomes of the race
  (a torn block map) are not modelled.
* *Addresses* are reused: `Accept` takes any free one, as an allocator may.
* `pendingWriteRequests` is never filled and `stop()` is never called: neither is
  modelled. Messages are well formed and carry their `data`.
* `send_text` posts to the connection's io thread; delivery after that is crow's.

### ReadService

For each request: asked, then exactly one of answered (with others of the same
address, while that address is connected), given up for a reason (too old, empty,
not connected any more) or lost. No threads, queues or locks. `JsonServer`
implements it (`ServiceSpec`): `connected` is the set of registered sessions,
`outcome` joins `answers` and `ended`.

### ConnectionLife and WebSocket

`ConnectionLife` says what a holder of a connection's address may rely on: handlers are
called while the object exists, perhaps a message after a close and a close more than
once; the last call before it is freed is a close. `JsonServer` assumes no more.

In `WebSocket` the object is one record, `c`. Its member functions are operators that
take a record and return one, named as in the code. `readOp` and `writeOp` say which
asynchronous operations that captured `this` are outstanding; their completions,
successful or not, and the sends posted by response threads are the actions of the io
thread.

| variable | code |
|---|---|
| `c` | the object: `state_`, `mini_header_`, `remaining_length_`, `mask_`, `fragment_`, `message_`, the buffers and flags; with `heard` and `queued`, the history of handler calls and buffers |
| `posted` | handlers posted to the io thread by `send_text` |
| `taken`, `sent` | how many of the buffers of the write the network has taken; history |
| `inbound`, `script`, `past`, `gone` | the client: bytes under way, what it will send, has sent, and whether it is gone |
| `replies` | what the response threads will send |
| `tears` | history: reads of a header that brought one of its two bytes |

| actions | code |
|---|---|
| `ReadDone`, `ReadError` | the completions of `do_read`, one case of `state_` each, with `handle_fragment` |
| `WriteDone`, `WriteError` | the completion of `do_write` |
| `Post`, `RunPosted` | `send_text` from a response thread, and its run on the io thread |
| `Transmit`, `ClientSends`, `ClientVanishes` | network and client |

* The server sets no accept handler, no error handler and no maximum payload, and does
  not call `close()` itself, so the branches for these do not exist.
* A payload comes in reads of 1 to `BufferSize` bytes (4096 in the code). The two
  header bytes of a frame are read with one `async_read_some`; when it brings one of
  them only, a debug build throws ("asio bug?", `crow:7905`) and any other takes the
  missing one for 0. The stream is read out of step from there on. `tears`
  counts such reads: until the first one what is delivered is what was sent, and after it
  the object must still not be touched after its deletion, and be freed.
* An exception of the message handler leaves `handle_fragment` and the completion
  handler: no read is started any more (`Bad`).

### HttpServer

One shared object per connection, alive while a handler or a timer task holds it.
Connections are numbered in the order they are accepted. A handler is an operator on what it
can change: its object, its io thread's `task_timer`, and what it writes at once.

| variable | code |
|---|---|
| `conn` | `crow::Connection`, with its parser, `req_`, `res`, flags and `task_id_` |
| `timer` | per io thread, `task_timer`: tasks with the ticks left, `highest_id_` |
| `load` | `task_queue_length_pool_` |
| `held` | per io thread, the connection whose file it is sending to a client that does not take it |
| `client` | the other end: what it will ask, has asked, tokens under way, gone, taking no more (`stalled`) |
| `answers`, `robbed` | history: responses received; connections whose deadline another one cancelled |

| actions | code |
|---|---|
| `Accept`, `AcceptFails`, `start` | `Server::do_accept`, its completion with an error, `Connection::start` on its io thread |
| `ReadDone`, `ReadError` | the completion of `do_read`, with `handle_url`, `handle_header` and `handle` |
| `WriteBlocks` | the same, inside a blocking write of `do_write_static` |
| `WriteDone`, `WriteError` | the completion of `do_write` |
| `Tick` | `tick_handler` with `process_tasks` |
| `ClientAsks`, `ClientStalls`, `ClientVanishes` | clients |

* A request is three tokens (its line, its headers, its end), and a read brings any
  number of them, of one request at most. A client asks again when it has its answer. That a request line is
  cut by a read is left to `HttpParser` (finding 4).
* The routes are those of `jsonserver::start` and `Crow::validate`: `/`, a websocket,
  and `/static/...`.
* A file is sent with blocking writes, after the deadline was cancelled
  (`crow:12774`, 12785). To a client that takes it this is one step. When the client has
  stopped taking what is sent the io thread may stay inside them (`WriteBlocks`): it runs no
  handler and no tick till the client is gone, when the write fails and the
  handler goes on (`ReadDone`).
* Accepting may fail at any time; the object made for the connection is then given up, its
  place in the queue is taken back and another one is made (`crow:13235-13243`).
* `Server::stop`, which nothing calls, middleware, TLS and header texts are left out.

### The algorithms on texts: Json, DataParser, HttpParser, Router, SymbolTables

Each is the code's algorithm on sequences of symbols. A symbol is a character, or what
the code treats alike: one letter of no meaning, the rest of a word that is compared
letter by letter. Left out: `<double>` parameters and blueprints in `Router`, lenient
parsing and 27 of 33 methods in `HttpParser`, binary floating point in `Json` and
`DataParser`. `MCText` holds reference definitions that work in another way: a grammar by
splitting (`LoadIsJson`), the composition of messages (`HttpMessages`), matching by
position (`FoundRightly`), the tree of a type (`CacheIsTables`).

`SymbolTables` has the type table as the PLC uploads it: an entry has sub-items, or
dimensions and a base type, or neither. Every type has an entry, and no sub-item has
sub-items of its own.

### AdsDataSource

It looks inside the steps that `JsonServer` takes whole (`ReadVariables`,
`WriteSymbolValue`, and the copying of `SendResponse`). `JsonServer` says in which
order requests are batched and answered; here a batch is any set of pending
requests and a response thread takes any that is done, which allows more. A
thread's step ends where another one can come in: at a call to the PLC, between
two values stored, inside an assignment (`operator=` resets the node first),
between two values copied. The requests for handles of one read are one step
with the lookups around them.

| variable | code |
|---|---|
| `parsedSymbols` | the member of that name: which of the tables were uploaded |
| `memory` | the PLC: how often a cell was given a value, by its program or a write |
| `symbolInfo`, `symbolData`, `propertyReads` | the same |
| `pending`, `queue` | requests before and after the read of their batch |
| `server` | position and locals of `readSymbolValue` and `parseBuffer` |
| `response` | per response thread its request and the values copied |
| `writer` | position and locals of `writeSymbolValue` |

| actions | code |
|---|---|
| `PlcCycle` | the PLC program gives every variable a new value |
| `Ask` | a read request arrives |
| `StartRead`, `SumRead`, `StoreNext`, `ParseLeaf`, `AssignValue` | `readSymbolValue` of a list of names with `parseBuffer` |
| `QueueBatch`, `TakeResponse`, `SendResponse` | their counterparts in `JsonServer` |
| `GetSymbolValue` | `getSymbolValue`, once per key |
| `StartWrite`, `SumWrite` | `writeSymbolValue` with `gatherBaseTypeNames` and `encodeBuffer` |
| `NothingPending` | `handlePendingRequests` without requests |

Choices worth knowing:

* *A value* is the cell it was read from and how often that cell had been given
  one. So a value out of place and a value out of date both show.
* *A name* is the sequence of components that `splitVarName` makes of it. Letter
  case and "is a prefix of the string" are the constants `Lower` and `Begins`;
  `PlcName` is what the PLC itself calls a variable (subscripts from the declared lower
  bound). `ToLower` is the identity, because the body of `toLower` is commented out.
* *Array elements*: the position of an element in a list of values is the
  order of an `unordered_map` in the code and the constant `Slot` here; `Index` is
  the position it should have.
* *Undefined behaviour*: the type of an entry made for a name that does not exist
  is not initialised, so it is parsed or not. The last command of a sum write
  with a name that could not be encoded was never filled in, so it changes any
  cell or none. A node that another thread has removed keeps nothing
  that is assigned to it. What an `unordered_map` does when it
  grows under a reader is not modelled.

### Startup

`main` reads a configuration (or none), sets the address of the PLC, and tries to connect
and to upload the tables until that succeeds (`ReadInfo`, `NoPlcConnection`,
`TryAgain`); then its threads run (`Serve`, the steps of `AdsDataSource`). Its
specification, `ServerSpec`, is the one that is checked. A net id is a sequence of
`NetIdParts` parts up to `MaxPart`, ports are below `Ports` (6, 255 and 65536 in the code).
An upload that fails after the first call (`MayFail`) leaves an empty table or ends the
process: the code goes on with whatever is in its buffers.

## 3. The runs

| run | instance | shows |
|---|---|---|
| `pipeline` | 2 addresses, 2 io and 2 response threads, 2 requests, batch of 3 | types; every request in exactly one place; given up only for a cause |
| `reuse` | 1 address used by 2 connections, 2 io threads, 1 response thread, 3 requests with parents, members and duplicates, batch of 4 | sends only to live objects; order; complete answers; leaving names out of a batch loses none but those below a name that does not bring them; the pipeline implements `ReadService` |
| `progress` | 2 addresses, one on each of 2 io threads, 1 response thread, 2 requests, the first of them too big for any batch | every request settles, every handler returns, while two handlers and the server thread compete for the mutexes |
| `misroute` | 1 address used twice | violation, finding 1 |
| `putback` | 2 addresses, 3 requests | violation, finding 2 |
| `websocket` | 4 clients' frames, 2 series of replies, one read of a header that may bring one byte | nothing touches a deleted object; messages delivered whole and in order until such a read; replies in order, with readable sizes; everything sent is delivered; the object is freed; it is a `ConnectionLife` |
| `http` | 3 connections, 2 io threads, 16 series of requests | answers are those of their requests; no request is swallowed; deadlines run only while reading; connections balanced; every connection ends, but for those that a client which takes nothing holds up |
| `deadline` | 2 silent clients on 1 io thread | violation, finding 3 |
| `text` | all small inputs | what the algorithms compute is what their reference definitions say |
| `cuturl` | the HTTP requests of `text` | violation, finding 4 |
| `values` | configurations; an upload of the tables that may fail; a structure with two properties (one without a getter) and a structure in it, a variable, a name that does not exist; 2 requests, 1 write, 1 PLC cycle, 1 response thread | the address is whole; cached addresses are right; a structure counted as complete is; a property that cannot be read is dropped from the reads; properties lengthen a read by no more than there are; answers are of a moment after the request; writes change what they name |
| `answers` | a program with eight of the findings in it, asked for one after the other | violation, findings 5 to 12 |

*Bounds of the pipeline.* `MaxRequests` bounds the read messages, `MaxSessions` the
connections at one address; nothing else is bounded. Two requests on one connection show
merging, a third one put-back and reordering; two sessions at one address show reuse; two
threads of a kind show every race, since no step involves three threads of a kind.
`MaxBatch` 3 or 4 stands for 500: a list that fits alone, one that does not
fit behind another and one that never fits all occur. `Symmetry` permutes
addresses and threads, which no expression tells apart; it is not used with liveness.
`progress` fixes in its place which of the two connections is on which io thread, and that the
list which never fits is asked for first (`DealtSpec`): that one is what everything else waits
for. With one address the second io thread would be idle; with two a
handler can close its connection, holding one mutex and waiting for the other, while the
other handler holds that across a PLC write.

*Bounds of the websocket.* The scripts have a fragmented message with a ping inside, all
three length encodings, frames without a mask, an empty message, a message that
makes the handler throw, and one or no close. `BufferSize` 2 makes a payload of 3 take two
reads or more. Replies have lengths on both sides of the borders at 126 and 65536.
`MaxTears` 1 allows one read of a header to bring a single byte, the first or any later one:
what follows is read out of step, which is where the properties about messages end;
a second one would only put it out of step again.

*Bounds of the HTTP server.* Three connections are what it takes for two on one of two io
threads; `Timeout` 1 separates a deadline that has come from one that has not. The
series of requests meet every answer and every way a connection ends. No number of
ticks is bounded. Accepting may fail any number of times. In one series
the first connection asks for a file and the others are silent: the third, which is on
the same io thread, is held up when that file is not taken.

*Bounds of the texts.* JSON: all texts up to 6 or 7 symbols over four alphabets, nesting
limit 3 (10000 in the code). Written values: -40 to 40 for integers of 2, 3, 4 and 5
bits, so that every border of every type is passed; strings up to 4 for a size of 3. HTTP:
each method, target and header of `HttpMessages` alone, pairs of a few, and these with
each one symbol replaced by any of 15, in reads of 1, 7 and 60 symbols; a header limit of 55
symbols and lengths up to 31. URLs: all up to 6 symbols, for the server's rules and for
six rules that compete. Types: 606, numbers in structures and arrays in structures and
arrays, with empty dimensions, and structures of arrays of structures.

*Bounds of the data source.* `MaxRequests`, `MaxWrites` and `MaxStamp` bound the requests,
the write messages and the PLC cycles. Two requests are what it takes for one to be stored
while the other is copied, and for the second lookup of a name; one cycle and
one write tell an old value from a new one. A second response thread would only
copy as the first does. The program of `values` has one of each thing the code treats
differently, arrays excepted: those are in `answers`, and the properties say
where they leave arrays out.

*Deadlock* is not checked in `websocket`, `http`, `deadline`, `text` and `cuturl`: a
connection that has ended, and an input that has been read, do nothing more.

*Fairness.*
* `JsonServer`: strong fairness of each io thread's steps inside a
  handler, of the server thread and of each response thread: each is an endless
  loop of a running thread, and what can disable its next step again and again is
  only a mutex that others keep taking, which a waiting thread gets in the end.
  Weak fairness of `Tick`: time passes.
* `WebSocket`: weak fairness of each completion, of posted sends and of the network: an
  io thread runs each handler it has, and TCP delivers or fails.
* `HttpServer`: weak fairness of `start`, of the completion of a read, of the timer's ticks, and
  of the completion of a write while the client takes what is sent. An io thread inside a
  blocking write runs none of these, and nothing makes it come out while the client
  stays. `Ends` says what that costs: a connection may go on for ever while its io thread is
  held, or when its socket is to be closed after an answer that its client does not take, with
  no deadline left (`Stuck`). It ends in every other case.

Clients owe nothing in any of them: none need connect, close, send, or (`HttpServer`)
take what is sent to it.

Each property comes with a fault in the code's definitions that breaks it (the
"Faults" sections of the modules; `mutants` in `PROJECT.json`).

### Findings

1. `misroute`: `sendResponse` checks that the *address* is registered. A request
   already merged or queued survives its connection's close; if the next
   connection object is allocated at that address and registered before the send,
   it receives an answer to a request it never made (`jsonserver.cpp:290`).
2. `putback`: line 214 changes `pendingReadRequests` without its mutex. While an io
   thread is inside `push_back` or `erase`, a request can vanish.
3. `deadline`: `task_timer` starts its ids from 1 again when no task is left
   (`crow:2275`). A connection whose deadline has come still has its id, and cancels
   with it the deadline another connection got since. That one is never closed, if
   its client stays silent.
4. `cuturl`: `on_url` takes each part of a URL that a read brings for the whole
   (`crow:8366`), so a target that is cut by a read may be answered 404, or keep its query.

`answers` shows eight ways in which a client is not told the value of a variable, all in one
behaviour. A client asks for the nine lists of `Script` one after the other (two lists
for finding 6). `SomeAnswerFresh` says that of the eight variables of `Witnesses` at least one
is not answered wrong, so it fails only where all eight are, and holds as soon as any one
of the eight is answered with its value. Each has a part of the program of its
own in `MCAdsDataSource`, in brackets:

5. `toLower` does nothing (`utils/util.cpp:14`): names in another letter
   case than the symbol table are not found [`CaseNode`].
6. `findInfo` makes an entry before it knows whether the name exists
   (`DataSource_impl.cpp:217`). A request for `c.oops` turns the variable `c` into a
   structure: it is answered as an object, and cannot be written any more, for all
   clients until a restart [`MisspeltNode`].
7. `Symbol(name)` takes the first symbol that begins the name
   (`SymbolParser.cpp:191`). `MAIN.MyFubI` of the example PLC program is hidden
   by `MAIN.MyFub` [`PrefixNode`].
8. Below an element of an array the index is missing from the cached
   address (`DataSource_impl.cpp:84`): `a[1].v` is answered with the value of
   `a[0].v`, and written there [`ElementNode`].
9. Elements are called by their number from 0, whatever the declared bounds
   (`SymbolParser.cpp:332`): `b[1]` of an array from 1 is answered with `b[2]`
   [`SubscriptNode`].
10. An array asked for as a whole is answered in the order of an `unordered_map`
    (`DataSource_impl.cpp:174`) [`WholeNode`, with the order `Backwards`].
11. An element asked for in one batch with its array empties the list of the array's
    values, and is answered null (`DataSource_impl.cpp:237`, `jsonserver.cpp:229`)
    [`BatchNode`].
12. A name is left out of the read when what stands before a dot or a bracket in it is
    asked for in the same batch, variable or not (`jsonserver.cpp:229`): `MAIN.v` is not
    read when `MAIN`, a program, is asked for too [`ProgramNode`].
A ninth is seen in the source and shown by no run: `readInfo` reports the result of the first
of its three calls (`DataSource_impl.cpp:120`), so that a failed upload leaves an empty table,
and the server answers null for what exists. The model has it (`MayFail`), `values` takes
its steps, and `PlainAnswersFresh` leaves a server without its tables out.

`PlainAnswersFresh` says that answers are fresh with these cases left out,
so `values` shows that there is no other one in its instance, and the theorem
`PlainAnswersAreFresh` that there is none at all.
(It also leaves out a variable when any client asks for a name below it, for one above it
that is no variable, or for one in another spelling.) It and `SomeAnswerFresh` leave out requests
whose sum read failed as a whole: those are answered from what an earlier read left.

## 4. The proofs

Every theorem holds for all values of the constants under the assumptions named here. Each
rests on an inductive invariant: the property itself is seldom one. A proof has a step
for each action, and lemmas for what several actions do. What a handler leaves of a record
is stated about records alone, and then applied to the object of the state.

### JsonServer

Assumed: names as in `KeyTree` (`Child` is on the names, transitive and well-founded), bounds that
are natural numbers, a finite set of addresses, `None` and the other absent values
distinct from what they stand in for (`NoneIsNoRequest`, ...).

| theorem | states | invariant |
|---|---|---|
| `TypeCorrect` | `TypeOK` | itself |
| `NoSendToFreedConnection` | `UsersAreAlive` | `Registration` |
| `NoNameLeftOut` | `BatchIsRead` | `BatchInv`: before consolidation `variables` holds every name of every request collected |
| `AnswersAreComplete` | `AnswersComplete` | `Soundness`: each request object anywhere has the names that were received |
| `DropsHaveACause` | `DroppedForCause` | `Excuses`: a drop's cause still holds, because an address' sessions only grow and nothing is received from a connection whose open handler runs |
| `EachInOnePlace` | `OnePlace` | `Placement`: the places that can hold a request are disjoint and without repetition, stage by stage of the handler, the batch and the response |
| `RequestsKeepTheirOrder` | `InOrder` | `Placement` with the order of each list |
| `PipelineIsAService` | `ServiceSpec` | all of these, and that sessions only grow |

* `Registration` says why destroying an object is safe: its close handler has
  unregistered it. A handler in progress belongs to an object of its own thread, an object
  whose open handler runs is new, one whose purge is done is not registered, and a registered
  object is open or in a close handler that has not purged yet.
* `NoNameLeftOut` uses the lemma `ConsolidatedCovers`: a name removed stands below one that
  stays, by well-foundedness and transitivity of `Child`. That the one which stays brings the
  value of the one removed (`Brings`) is true of structures, and not of programs
  and arrays; the property says so, and covers only names that everything above them in the
  batch brings (findings 11 and 12 are the others).
* How many names a read asks for is not bounded by 500: `readSymbolValue` adds the properties
  after the limit was kept (`DataSource.cpp:184-188`). `NothingReadTwice` bounds by what.
* `OnePlace` holds with the race of the put-back in it (finding 2): a request that it loses
  is recorded as given up, "lost", and is nowhere else.
* `PipelineIsAService` maps each action to a step of `ReadService` or a stutter; `Outcome` says
  what a step does to `answers` and `ended`. `ReadService` has no fairness, so
  this is the whole refinement; that requests settle is the run `progress`.

### WebSocket

Assumed: `NoneType`, the bounds of a frame's fields, the range of the mask function (`XorType`),
and that masking twice with the same byte gives back what was masked (`XorUndone`).

| theorem | states | invariant |
|---|---|---|
| `FreedIsUntouched` | `NoUseAfterDelete` | `Held`: `isReading` is set while a read is outstanding and `sending` is not empty while a write is; `check_destroy` deletes only when both are clear |
| `ConnectionIsTyped` | `TypeOK` | itself |
| `NothingOvertakes` | `RepliesInOrder` | `Order`: what was sent, is being written, waits and is posted is together what was asked for, in that order |
| `HeadersTellSizes` | `SizesReadable` | each buffer written comes from `send_text` or a control frame |
| `WebSocketIsALife` | `LifeSpec` | `Signed`, `Told`: which handlers have been called, by the flags of the object |
| `DeliveredAsSent` | `DeliveredIsSent` | `Following`: object and bytes under way are in step with what the client has sent |

* `Account(frames)[k]` is what the first `k` frames of a client say: the messages they complete,
  and the part of a message they leave unfinished. `Following` has a `k` such that the message
  handler has been called with the messages of `Account(past)[k]` and, while a read is
  outstanding, `message` and `isBinary` are its unfinished part. Before a header (`Coming`) the
  unread bytes are those of the frames after the `k`-th; further on (`Inside`) the object holds
  what it has read of the next frame, and the unread bytes begin with the rest of it. There is
  one lemma for each case of `state_` (`HeaderFollows`, `LengthFollows`, `MaskFollows`,
  `PayloadFollows`), and one for `handle_fragment` (`FragmentFollows`).
* A read that brings one byte of a header leaves the object out of step with the stream
  (`crow:7890`): `Following` is about the time before the first one (`tears = 0`). With frames
  of at most 255 bytes (`Frame`) the theorem says that this is the only way in which the
  handler can be called with what was not sent.
* When no read is outstanding (after an exception, an error or a close frame) `Following` says
  nothing of the stream: what was delivered up to then stays as sent.

### HttpServer

Assumed: `SizesType`, `PlansType`: numbers of connections, threads and ticks are natural
numbers, there is a connection and a thread, and clients ask sequences of the model's requests.

| theorem | states | invariant |
|---|---|---|
| `ServerIsTyped` | `TypeOK` | `Served` |
| `DeadlinesOnlyWhileReading` | `DeadlineWhileReading` | `Served` |
| `WorkersAreBalanced` | `Balanced` | `Level`, with `Served`: the worker that the connection waited for is counted with has no fewer than any other, and no more without it |
| `AnswersAreRight` | `AnswersRight` | `Exchanging` |
| `NothingIsSwallowed` | `NothingSwallowed` | `Exchanging` |

* `Served` adds to the types what each object is between handlers (`Sound`, `Placed`): one
  that was upgraded is not open, one that is gone holds no operation, and those not yet
  accepted are unused; with `DeadlineWhileReading`. What a handler sees and
  leaves (`Good`) is a lemma for each part of a handler.
* `Exchanging` says that a client has one question open at most. The tokens under
  way are the rest of it, the parser is at the stage that the rest leaves (idle, after
  the line, after the headers, answering), and `req_` and `res` hold what came before
  it, nothing of an earlier request. A body is skipped for HEAD only.

### AdsDataSource and Startup

The theorems are about `ServerSpec`: the server from its start on, with any outcome of the
upload of the tables. Assumed about the PLC program: the variables and their members are a
finite tree whose roots are the symbols (`NodeIsTree`), places are natural numbers, what is
a property, an array and so on (`NodeAttributes`), no two variables share their memory
(`CellsApart`); about names: requests and messages are lists of names (`ListsOfNames`), and
a string that begins one that begins a third begins the third (`BeginsComposes`).

| theorem | states | invariant |
|---|---|---|
| `AddressIsWhole` | `AddressWhole` | `Addressed`: until it is configured the address is the local one |
| `SourceIsTyped` | `TypeOK` | `SourceSound` |
| `AddressesAreRight` | `AddressesRight` | `SourceSound` |
| `CompleteAreWhole` | `CompleteIsWhole` | `SourceSound` |
| `RefusedAreDropped` | `RefusedIsDropped` | `SourceSound` |
| `NothingReadTwice` | `EachReadOnce` | itself, with `SourceSound` |
| `WritesAreNamed` | `WritesOnlyNamed` | `WriteSound`, with `SourceSound` |
| `PlainAnswersAreFresh` | `PlainAnswersFresh` | `AnswersFollowed`, with `SourceSound` and `WriteSound` |

* `SourceSound` has a part for each piece of state. The symbol cache (`SoundCache`): each
  entry has those on the way to it, the addresses are those that `cacheSymbolInfo` computes,
  and a complete entry has its members. The value cache (`Shaped`): nothing stands below a
  value. `ReadsKnown`: a property to be read with every batch is known and has not been
  refused. `ServerPlaced`: what a read has looked up is in the cache as long as the read
  goes on, while io threads look up names of their own. It is this that makes
  `RefusedIsDropped` hold: a refusal is noted for a name that the list loses in the same step.
* `AddressesAreRight` has two halves: a cached address is the sum of places that
  `getMemberInfo` adds up, whichever lookup filled it in (`SourceSound`); and this sum is the
  address in the PLC, except below an element of an array (`CachedIsAddress`).
* `WriteSound`: nothing is cached before the tables are there; a name that has been looked up
  and has members in the program has one in the cache (`Noted`), so that what `encodeBuffer`
  takes for a variable is one; a command that waits to be sent is for a name of its message.
* `AnswersFollowed` follows each plain variable `m` (`Followed`) from the lookup of a name
  above it to the copy. No entry of the symbol cache is below `m`, and once a name above it
  has been found `m` has an entry (`Clear`, `Aiming`); no list is above `m` in the value cache
  (`Clean`). For each request of the batch that asks for `m` a command reads it at the right
  address (`Covered`); a command that reads it and has been gone through has stored it
  (`StoredSo`), and what is assigned to its place is its own value (`Stepping`). What is read
  is no older than the requests (`Timely`), so each request that waits for its answer finds in
  the tree what it may be given (`Answerable`), and what was copied is that (`ToldSo`).
  Between the server thread's steps the response threads walk the same tree, and io threads
  the same symbol cache: `Keeps` says that no lookup of a client's name and no assignment
  but `m`'s own changes the node of `m`. `m` may be found null, and is
  answered null, only between the two halves of its own assignment (`Shown`).
* The caches are built by recursive functions along a name or a list of names. That
  such a function exists (`IterationExists` of `Iteration_proofs`) is an induction over numbers, for which
  `Induction` and `InductionTo` restate the library's theorem without its operator parameter; an
  invariant of each kind of lookup is then carried along the list (`LookedIsIn`,
  `WalkIsShaped`).

### Only model-checked

* `Settled`, `HandlersReturn`, `AllDelivered`, `Freed`, `Ends`: liveness, which needs
  fairness and ENABLED.
* The properties of `MCText`: they compare recursive algorithms with reference definitions on
  every small input, and what a recursive definition computes for every input is an induction
  over data.
* `SomeAnswerFresh` and the other properties of runs that find a counterexample: they are false.

## 5. Not modelled, and the plan

Not modelled:

* malformed messages and exceptions in the pipeline's handlers; the network below
  a websocket's bytes;
* worse effects of data races than a lost element or node;
* a PLC whose program is replaced while the server runs: handles and addresses stay
  cached for good (`DataSource.cpp:371`);
* the statuses of a sum write, which are only printed;
* REAL, LREAL and WSTRING values, and numbers of JSON as binary floating point;
* the cutting of the uploaded tables into entries, a byte format;
* `crow`'s middleware, blueprints, TLS, compression, SHA-1 and `stop`, which the server
  does not use or which have no state;
* the simulated data source, a stub that is never created; the vendored headers of the ADS
  library; the example HMI and PLC program; build files.

Each safety invariant and action property of a passing run is stated by a theorem, but for
those of `MCText`. `Account` and `MessagesOf` of `WebSocket` are recursive functions on the
numbers up to a length, whose step depends on the one before only: about these the proofs
can reason with `Iteration_proofs`. The parsers and the trie of `MCText` recurse on trees and
texts with exceptions among their results; this is what the plan has left.
