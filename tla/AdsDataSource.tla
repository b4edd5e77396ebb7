--------------------------- MODULE AdsDataSource ----------------------------
(***************************************************************************)
(* The ADS data source (src/LuxServer/src/DataSource/ADS) between the      *)
(* threads that share it without a lock:                                   *)
(*                                                                         *)
(*   the server thread    reads the names of a batch with one sum read and *)
(*                        stores the values name by name                   *)
(*   response threads     copy the values of a request's names             *)
(*   an io thread         writes the names of a message with one sum write *)
(*                        (one at a time, under mtx_pendingReadRequests)   *)
(*                                                                         *)
(* Their steps end where another thread's effect can come in: at a call to *)
(* the PLC, between two values stored, between two values copied.          *)
(*                                                                         *)
(* JsonServer gives the order in which requests are batched and answered;  *)
(* here a batch is any set of the requests pending, and a response thread  *)
(* takes any request that is done.                                         *)
(***************************************************************************)
EXTENDS SymbolCache, ValueTree

CONSTANTS KeyLists,     \* the key lists of read messages
          Messages,     \* the name lists of write messages
          Large,        \* structures of more than 8 bytes
          Index,        \* component of an array element |-> key of its number
          Responders,
          MaxRequests,  \* bound on the read requests
          MaxWrites,    \* bound on the write messages
          MaxStamp,     \* bound on the cycles of the PLC program
          None

ASSUME ListsOfNames ==
  /\ \A list \in KeyLists \cup Messages : list \in Seq(Seq(DOMAIN Lower) \ {<<>>})
  /\ Large \subseteq Node

VARIABLES parsedSymbols, \* which tables were uploaded: Startup
          memory,        \* the PLC: per cell or property, how often it was given a value
          symbolInfo, symbolData, propertyReads,
          pending,       \* read requests received
          queue,         \* requests whose batch has been read
          server,        \* the server thread in readSymbolValue
          response,      \* per response thread: its request and what it copied
          writer,        \* the io thread in writeSymbolValue
          asked, wrote   \* how many requests and messages there were

cacheVars == <<symbolInfo, symbolData, propertyReads>>
dataVars == <<memory, cacheVars, pending, queue, server, response, writer, asked,
              wrote>>
vars == <<parsedSymbols, dataVars>>

Stored == Cell \cup Property

(* A request knows what the PLC held when it came (history), and whether   *)
(* the PLC refused the read of its batch (history).                        *)
Request(keys) == [keys |-> keys, since |-> memory, failed |-> FALSE]

(* The names of a batch, and the relation the pipeline goes by.            *)
ClientNames == UNION {ToSet(list) : list \in KeyLists}
Keys == INSTANCE KeyTree WITH
          Keys <- ClientNames,
          Child <- {kp \in ClientNames \X ClientNames : Below(kp[1], kp[2])}

IdleServer == [pc |-> "idle", batch |-> {}, commands |-> <<>>, at |-> 1,
               pdata |-> 1, buffer |-> <<>>, leaves |-> {}, path |-> <<>>,
               value |-> NoCell]
IdleWriter == [pc |-> "idle", names |-> <<>>, commands |-> <<>>, garbage |-> 0]

Init ==
  /\ memory = [c \in Stored |-> 0]
  /\ symbolInfo = <<>>
  /\ symbolData = EmptyTree
  /\ propertyReads = <<>>
  /\ pending = {}
  /\ queue = {}
  /\ server = IdleServer
  /\ response = [p \in Responders |-> None]
  /\ writer = IdleWriter
  /\ asked = 0
  /\ wrote = 0

-----------------------------------------------------------------------------
(***************************************************************************)
(* The PLC program and the clients.                                        *)
(***************************************************************************)
(* A cycle of the PLC program gives every variable a new value.            *)
PlcCycle ==
  /\ \A c \in Stored : memory[c] < MaxStamp
  /\ memory' = [c \in Stored |-> memory[c] + 1]
  /\ UNCHANGED <<cacheVars, pending, queue, server, response, writer, asked,
                 wrote>>

Ask(keys) ==
  /\ asked < MaxRequests
  /\ asked' = asked + 1
  /\ pending' = pending \cup {Request(keys)}
  /\ UNCHANGED <<memory, cacheVars, queue, server, response, writer, wrote>>

-----------------------------------------------------------------------------
(* The elements of s that are in S, in their order.                        *)
Among(s, S) ==
  LET chosen[i \in 0 .. Len(s)] ==
        IF i = 0 THEN <<>>
        ELSE IF s[i] \in S THEN Append(chosen[i - 1], s[i]) ELSE chosen[i - 1]
  IN  chosen[Len(s)]

(* Faults: see the definitions of nearly the same name.                    *)
DataAfterFailure(pdata, status) == IF status = "ok" THEN pdata + 1 ELSE pdata
StillAsked(n)                   == propertyReads
WithEveryProperty(names)        == names \o propertyReads

(* getSymbolHandle, for a property that has no handle; the PLC may refuse. *)
LacksHandle(info, n) == n \in Property /\ info[n].found /\ ~info[n].handle

Granted(info, n, granted) ==
  LET found == FindInfo(parsedSymbols, info, n)
  IN  IF LacksHandle(found, n) /\ n \in granted
      THEN [found EXCEPT ![n].handle = TRUE]
      ELSE found

Looked(info, names, granted) ==
  LET known[i \in 0 .. Len(names)] ==
        IF i = 0 THEN info ELSE Granted(known[i - 1], names[i], granted)
  IN  known[Len(names)]

(* ADS sub-commands: a property by its handle, the rest by address.  To    *)
(* write a property without a handle, the place the PLC reports for it is  *)
(* taken for an address.                                                   *)
ByHandle(info, n)  == [name |-> n, by |-> "handle", valid |-> info[n].handle, address |-> 0]
ByAddress(info, n) == [name |-> n, by |-> "address", valid |-> info[n].found,
                       address |-> info[n].address]

ReadCommand(info, n)  == IF n \in Property /\ info[n].found THEN ByHandle(info, n)
                                                            ELSE ByAddress(info, n)
WriteCommand(info, n) == IF info[n].handle THEN ByHandle(info, n) ELSE ByAddress(info, n)

CellsAt(address) == {c \in Cell : Address[c] = address}

(* The answer of the PLC to a sub-command of a read: 0, 1796, another.     *)
Status(c) == IF ~c.valid THEN "error"
             ELSE IF c.by = "handle" /\ c.name \in NoGetter THEN "no getter"
             ELSE "ok"

-----------------------------------------------------------------------------
(***************************************************************************)
(* The server thread: readSymbolValue with a list of names.                *)
(***************************************************************************)
AtServer(pc) == server.pc = pc

(* handlePendingRequests goes round for nothing.                           *)
NothingPending == AtServer("idle") /\ pending = {} /\ UNCHANGED vars

(* The properties seen in structures are read with every batch.            *)
WithProperties(names) ==
  LET all[i \in 0 .. Len(propertyReads)] ==
        IF i = 0 THEN names
        ELSE IF propertyReads[i] \in ToSet(all[i - 1]) THEN all[i - 1]
        ELSE Append(all[i - 1], propertyReads[i])
  IN  all[Len(propertyReads)]

StartRead ==
  /\ AtServer("idle")
  /\ \E batch \in (SUBSET pending) \ {{}} :
     \E order \in SetToSeqs(Keys!Consolidated(UNION {ToSet(r.keys) : r \in batch})),
        granted \in SUBSET Property :
       LET names == WithProperties(order)
           info  == Looked(symbolInfo, names, granted)
       IN  /\ granted \subseteq ToSet(names)
           /\ symbolInfo' = info
           /\ pending' = pending \ batch
           /\ server' = [IdleServer EXCEPT
                           !.pc = "read", !.batch = batch,
                           !.commands = [i \in DOMAIN names |-> ReadCommand(info, names[i])]]
  /\ UNCHANGED <<memory, symbolData, propertyReads, queue, response, writer,
                 asked, wrote>>

(* The sum read, which the PLC answers at one moment or refuses as a whole.*)
SumRead ==
  /\ AtServer("read")
  /\ \/ server' = [server EXCEPT !.pc = "store", !.buffer = memory]
     \/ server' = [server EXCEPT
                     !.pc = "done",
                     !.batch = {[r EXCEPT !.failed = TRUE] : r \in server.batch}]
  /\ UNCHANGED <<memory, cacheVars, pending, queue, response, writer, asked,
                 wrote>>

(* Where parseBuffer puts values: the cached entries below n that have no  *)
(* entries below them.                                                     *)
Leaves(info, n) ==
  {r \in DOMAIN info : (r = n \/ Below(r, n)) /\ MemberCount(info, r) = 0}

NextData(pdata, status) == pdata + 1
WithoutRead(n)          == Among(propertyReads, ToSet(propertyReads) \ {n})

(* The next name of the list: its result, its place in the value cache.    *)
StoreNext ==
  /\ AtServer("store")
  /\ server.at <= Len(server.commands)
  /\ LET n      == server.commands[server.at].name
         status == Status(server.commands[server.at])
         info   == FindInfo(parsedSymbols, symbolInfo, n)
         tree   == FindValue(symbolData, n)
     IN  CASE status = "ok" ->
                /\ symbolInfo' = info
                /\ symbolData' = tree
                /\ server' = [server EXCEPT !.pc = "parse", !.leaves = Leaves(info, n)]
                /\ UNCHANGED propertyReads
           [] status = "no getter" ->
                /\ symbolInfo' = [info EXCEPT ![n].readFail = TRUE]
                /\ symbolData' = SetNode(tree, ToLower(n), Null)
                /\ propertyReads' = WithoutRead(n)
                /\ server' = [server EXCEPT !.at = @ + 1, !.pdata = NextData(@, status)]
           [] OTHER ->
                /\ symbolInfo' = info
                /\ symbolData' = tree
                /\ server' = [server EXCEPT !.at = @ + 1, !.pdata = NextData(@, status)]
                /\ UNCHANGED propertyReads
  /\ UNCHANGED <<memory, pending, queue, response, writer, asked, wrote>>

(* What the buffer holds for the member r of n.                            *)
ValueAt(n, r) ==
  LET source == server.commands[server.pdata]
      cells  == CellsAt(source.address + Address[r] - Address[n])
  IN  IF r \notin Node THEN NoCell
      ELSE IF source.by = "handle"
      THEN [cell |-> source.name, stamp |-> server.buffer[source.name]]
      ELSE IF cells = {} THEN NoCell      \* bytes of no member
      ELSE LET c == CHOOSE x \in cells : TRUE
           IN  [cell |-> c, stamp |-> server.buffer[c]]

(* parseBuffer clears what it has no value for: a property that failed     *)
(* before or has no handle yet.  An entry that a request for a name that   *)
(* does not exist has made has an uninitialised type: it may have a value  *)
(* (of no cell) or not.                                                    *)
HasValue(r) == r \in Property => symbolInfo[r].handle /\ ~symbolInfo[r].readFail

MayHaveValue(r) == IF r \in Node THEN {HasValue(r)} ELSE BOOLEAN

AwaitsHandle(r) == /\ r \in Property
                   /\ ~symbolInfo[r].readFail /\ ~symbolInfo[r].handle

NextLeaf(now) ==
  IF now.leaves # {} THEN [now EXCEPT !.pc = "parse"]
  ELSE [now EXCEPT !.pc = "store", !.at = @ + 1, !.pdata = NextData(@, "ok")]

(* One leaf, in any order.  A value is assigned in two steps: wvalue's     *)
(* operator= first resets the node to null.                                *)
ParseLeaf ==
  /\ AtServer("parse")
  /\ LET n == server.commands[server.at].name
     IN  \E r \in server.leaves : \E parsed \in MayHaveValue(r) :
           /\ symbolData' = SetNode(ReachMember(symbolData, n, r), DataPath(n, r), Null)
           /\ propertyReads' = IF AwaitsHandle(r) THEN Append(propertyReads, r)
                                                  ELSE propertyReads
           /\ server' = IF parsed
                        THEN [server EXCEPT !.pc = "assign", !.leaves = @ \ {r},
                                            !.path = DataPath(n, r),
                                            !.value = ValueAt(n, r)]
                        ELSE NextLeaf([server EXCEPT !.leaves = @ \ {r}])
  /\ UNCHANGED <<memory, symbolInfo, pending, queue, response, writer, asked,
                 wrote>>

(* A response thread may have emptied the tree above the node meanwhile;   *)
(* what it has put below the node cannot be seen any more.                 *)
AssignValue ==
  /\ AtServer("assign")
  /\ symbolData' = IF server.path \in DOMAIN symbolData
                   THEN SetNode(symbolData, server.path, Number(server.value))
                   ELSE symbolData
  /\ server' = NextLeaf([server EXCEPT !.path = <<>>, !.value = NoCell])
  /\ UNCHANGED <<memory, symbolInfo, propertyReads, pending, queue, response,
                 writer, asked, wrote>>

(* handlePendingRequests queues the responses of the batch.                *)
QueueBatch ==
  /\ \/ AtServer("done")
     \/ AtServer("store") /\ server.at > Len(server.commands)
  /\ queue' = queue \cup server.batch
  /\ server' = IdleServer
  /\ UNCHANGED <<memory, cacheVars, pending, response, writer, asked, wrote>>

-----------------------------------------------------------------------------
(***************************************************************************)
(* The response threads: sendResponse copies the values of the keys one    *)
(* after the other.  A lookup is not read-only: see ValueTree.             *)
(***************************************************************************)
TakeResponse(p) ==
  /\ response[p] = None
  /\ \E r \in queue :
       /\ queue' = queue \ {r}
       /\ response' = [response EXCEPT ![p] = [request |-> r, got |-> <<>>]]
  /\ UNCHANGED <<memory, cacheVars, pending, server, writer, asked, wrote>>

NextKey(p) == response[p].request.keys[Len(response[p].got) + 1]

(* `blank` is history: the node that is just being assigned.               *)
GetSymbolValue(p) ==
  /\ response[p] # None
  /\ Len(response[p].got) < Len(response[p].request.keys)
  /\ symbolData' = FindValue(symbolData, NextKey(p))
  /\ response' = [response EXCEPT ![p].got =
                    Append(@, [value |-> Copy(symbolData', ToLower(NextKey(p))),
                               blank |-> server.path])]
  /\ UNCHANGED <<memory, symbolInfo, propertyReads, pending, queue, server,
                 writer, asked, wrote>>

SendResponse(p) ==
  /\ response[p] # None
  /\ Len(response[p].got) = Len(response[p].request.keys)
  /\ response' = [response EXCEPT ![p] = None]
  /\ UNCHANGED <<memory, cacheVars, pending, queue, server, writer, asked,
                 wrote>>

-----------------------------------------------------------------------------
(***************************************************************************)
(* The io thread: writeSymbolValue.                                        *)
(***************************************************************************)

(* A fault: what has members is encoded too.                               *)
EncodedAll(info, names) == names

(* gatherBaseTypeNames leaves out names it cannot write: those without a   *)
(* size, which nobody has found, and large structures given as one value.  *)
Gathered(info, message) ==
  Among(message, {n \in ToSet(message) : info[n].found /\ n \notin Large})

(* encodeBuffer fails for what has members.  The room for the command is   *)
(* there all the same, at the end, and is sent as it was allocated.        *)
Encoded(info, names) == Among(names, {n \in ToSet(names) : MemberCount(info, n) = 0})

(* Until the sum write.  A value that is no number throws: nothing is sent.*)
StartWrite ==
  /\ writer.pc = "idle"
  /\ wrote < MaxWrites
  /\ wrote' = wrote + 1
  /\ \E message \in Messages : \E granted \in SUBSET (Property \cap ToSet(message)) :
       LET info     == Looked(symbolInfo, message, granted)
           gathered == Gathered(info, message)
           encoded  == Encoded(info, gathered)
       IN  /\ symbolInfo' = info
           /\ \/ writer' = [pc |-> "write", names |-> message,
                             commands |-> [i \in DOMAIN encoded |-> WriteCommand(info, encoded[i])],
                             garbage |-> Len(gathered) - Len(encoded)]
              \/ UNCHANGED writer
  /\ UNCHANGED <<memory, symbolData, propertyReads, pending, queue, server,
                 response, asked>>

Target(c) == IF c.by = "handle" THEN (IF c.valid THEN {c.name} ELSE {})
             ELSE CellsAt(c.address)

(* The PLC applies the commands that it does not refuse.  What an unfilled *)
(* one holds, its address and its length, is not known.                    *)
SumWrite ==
  /\ writer.pc = "write"
  /\ writer' = IdleWriter
  /\ \E spoilt \in SUBSET Cell :
       /\ writer.garbage = 0 => spoilt = {}
       /\ \E applied \in SUBSET ToSet(writer.commands) :
            LET targets == spoilt \cup UNION {Target(c) : c \in applied}
            IN  memory' = [c \in Stored |-> IF c \in targets THEN memory[c] + 1
                                                             ELSE memory[c]]
  /\ UNCHANGED <<cacheVars, pending, queue, server, response, asked, wrote>>

-----------------------------------------------------------------------------
ServerThread == \/ NothingPending \/ StartRead \/ SumRead \/ StoreNext
                \/ ParseLeaf \/ AssignValue \/ QueueBatch

ResponseThread(p) == TakeResponse(p) \/ GetSymbolValue(p) \/ SendResponse(p)

Next == /\ \/ PlcCycle
           \/ \E keys \in KeyLists : Ask(keys)
           \/ ServerThread
           \/ \E p \in Responders : ResponseThread(p)
           \/ StartWrite \/ SumWrite
        /\ UNCHANGED parsedSymbols

-----------------------------------------------------------------------------
Requests == [keys : KeyLists, since : [Stored -> Nat], failed : BOOLEAN]

(* The types; an entry of the symbol cache has entries on the way to it,   *)
(* and what has children in the value cache is an object or a list.        *)
TypeOK ==
  /\ parsedSymbols \in [symbols : BOOLEAN, datatypes : BOOLEAN]
  /\ memory \in [Stored -> Nat]
  /\ \A n \in DOMAIN symbolInfo :
       /\ n # <<>> /\ symbolInfo[n].address \in Nat
       /\ \A i \in DOMAIN n : SubSeq(n, 1, i) \in DOMAIN symbolInfo
  /\ \A q \in DOMAIN symbolData :
       q # <<>> => /\ Front(q) \in DOMAIN symbolData
                   /\ symbolData[Front(q)].kind \in {"object", "list"}
  /\ ToSet(propertyReads) \subseteq Property
  /\ pending \subseteq Requests /\ queue \subseteq Requests
  /\ server.batch \subseteq Requests
  /\ server.pc \in {"idle", "read", "store", "parse", "assign", "done"}
  /\ \A p \in Responders : response[p] # None => response[p].request \in Requests

-----------------------------------------------------------------------------
SymbolOf(n)  == CHOOSE s \in ToSet(Symbols) : IsPrefix(s, n)
InElement(n) == \E i \in 2 .. Len(n) - 1 : SubSeq(n, 1, i - 1) \in Array

(* The cached address of a name is where the PLC has it, in whatever order *)
(* the names have been asked for.  (Not so below an element of an array.)  *)
AddressesRight ==
  \A n \in DOMAIN symbolInfo :
    symbolInfo[n].found /\ ~InElement(n) => symbolInfo[n].address = Address[n]

(* An entry that counts as complete, and is not looked up again, has an    *)
(* entry for every member, so a structure is stored with all of them.      *)
CompleteIsWhole ==
  \A n \in DOMAIN symbolInfo : symbolInfo[n].cacheComplete =>
    \A d \in Node : Below(d, n) => d \in DOMAIN symbolInfo /\ symbolInfo[d].found

(* A property that has no getter is not asked for with every batch for     *)
(* ever.                                                                   *)
RefusedIsDropped ==
  \A i \in DOMAIN propertyReads : ~symbolInfo[propertyReads[i]].readFail

(* The properties that are added to a batch lengthen the read of the PLC by*)
(* no more than there are: nothing is asked for twice, though a property   *)
(* may be in the list many times, or be asked for by a client as well, and *)
(* nothing but names of the batch and properties is.                       *)
EachReadOnce ==
  \A i \in DOMAIN server.commands :
    LET n == server.commands[i].name
    IN  /\ \A j \in DOMAIN server.commands : server.commands[j].name = n => i = j
        /\ n \in Property \/ \E r \in server.batch : n \in ToSet(r.keys)

(* The value of the cell m in the copy made for the key k: that of m, and  *)
(* no older than the request; or null, while it is just being assigned.    *)
InAnswer(k, m) ==
  [i \in 1 .. Len(m) - Len(k) |->
     LET e == SubSeq(m, 1, Len(k) + i)
     IN  IF Front(e) \in Array THEN Index[Last(e)] ELSE Last(e)]

FreshIn(entry, k, m, since) ==
  LET rel == InAnswer(k, m)
  IN  /\ rel \in DOMAIN entry.value
      /\ LET node == entry.value[rel]
         IN  \/ /\ node.kind = "number"
                /\ node.value.cell = m
                /\ node.value.stamp >= since[m]
             \/ node.kind = "null" /\ entry.blank = DataPath(k, m)

(* k names the cell m or what it is part of.                               *)
Names(k, m) ==
  LET named == SubSeq(m, 1, Len(k))
  IN  Len(k) <= Len(m) /\ named \in Node /\ SameName(k, named)

Fresh(m) ==
  \A p \in Responders :
    response[p] # None /\ ~response[p].request.failed =>
      \A i \in DOMAIN response[p].got :
        LET k == response[p].request.keys[i]
        IN  Names(k, m) => FreshIn(response[p].got[i], k, m, response[p].request.since)

(* An answer holds the value of each variable it names, of a moment after  *)
(* the request was made: of those variables that the code does this for, if*)
(* it has both tables.  They are those that are no part of an array or a   *)
(* property, whose symbol comes before all symbols whose names begin       *)
(* theirs, below which no client has asked for a member that does not      *)
(* exist, and which clients write as the PLC does, asking for nothing above*)
(* the variable or a part of it.                                           *)
Named == ClientNames \cup UNION {ToSet(message) : message \in Messages}

Plain(m) ==
  /\ \A a \in Array \cup Property : ~IsPrefix(a, m)
  /\ Symbols[Min(SymbolsFor(m))] = SymbolOf(m)
  /\ \A n \in Named : /\ ~Below(n, m)
                      /\ Names(n, m) => IsPrefix(n, m)
                      /\ IsPrefix(n, m) => n \in Node

PlainAnswersFresh ==
  parsedSymbols = WholeTables => \A m \in Cell : Plain(m) => Fresh(m)

(* A write message whose names are all encoded changes the variables it    *)
(* names; no other changes but where a command is aimed wrong: one for what*)
(* is below an element of an array, or for a property that the PLC gave no *)
(* handle for.  (A name that has members and is given one value is not     *)
(* encoded, and its command is sent with whatever it holds.  A server that *)
(* has no type table takes such a name for one without members.)           *)
AimedWrong(c) == InElement(c.name) \/ (c.name \in Property /\ c.by = "address")

Meant(cell) ==
  \/ cell \in ToSet(writer.names)
  \/ \E c \in ToSet(writer.commands) : AimedWrong(c) /\ cell \in Target(c)

WritesOnlyNamed ==
  [][SumWrite /\ parsedSymbols.datatypes /\ writer.garbage = 0 =>
       \A cell \in Stored : memory'[cell] # memory[cell] => Meant(cell)]_vars
=============================================================================
