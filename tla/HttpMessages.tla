---------------------------- MODULE HttpMessages ----------------------------
(***************************************************************************)
(* Requests as a client composes them, the bytes of each, and the request  *)
(* that ought to be handed over: the reference for HttpParser.             *)
(***************************************************************************)
EXTENDS HttpParser, FiniteSetsExt

Connection == <<"c", "o", "n", "n", "ection">>
Proxy      == <<"p", "roxy-connection">>
Length     == <<"c", "o", "n", "t", "ent-length">>
Encoding   == <<"t", "ransfer-encoding">>
Upgrade    == <<"u", "pgrade">>

Keep    == <<"k", "eep-alive">>
Close   == <<"c", "lose">>
Chunked == <<"c", "hunked">>

Fields == {<<Connection, Keep>>, <<Connection, Close>>, <<Connection, <<"a">>>>,
           <<Connection, Close \o <<"sp">>>>, <<Connection, Close \o <<"a">>>>,
           <<Proxy, Keep>>, <<Connection \o <<"a">>, Close>>, <<<<"c", "o", "a">>, Keep>>,
           <<Length, <<"0">>>>, <<Length, <<"1", "sp">>>>, <<Length, <<"1", "2">>>>,
           <<Length, <<"1", "1", "1">>>>, <<Length, <<"a">>>>,
           <<Encoding, Chunked>>, <<Encoding, <<"a", ",", "sp">> \o Chunked>>,
           <<Encoding, Chunked \o <<",", "a">>>>, <<Upgrade, <<"a">>>>,
           <<<<"a">>, <<>>>>, <<<<"a">>, <<"a", "cr", "lf", "sp", "a">>>>,
           <<<<"a">>, [i \in 1 .. 60 |-> "a"]>>}

Root     == <<"/">>
Static   == <<"/", "a", "/", "a">>
Query    == <<"?", "a", "?">>
Targets  == {Root, Static, Root \o Query, Static \o Query, <<"/", "a">>, <<"*">>, <<":">>,
             <<"a", ":", "/", "/", "a", "@", "a", "/">>, <<"a", "@", "a", "@">>}

(* version is the digit after "1.", or "none" in HTTP/0.9.                 *)
Simple == [method |-> "GET", target |-> Root, version |-> "1", headers |-> <<>>,
           trailers |-> <<>>, newline |-> <<"cr", "lf">>]

Requests ==
  [method : DOMAIN MethodStrings, target : Targets, version : {"0", "1", "none"},
   headers : {<<>>}, trailers : {<<>>}, newline : {<<"cr", "lf">>, <<"lf">>}]
  \cup [method : {"GET"}, target : {Root}, version : {"0", "1"},
        headers : {<<f>> : f \in Fields} \cup {<<f, g>> : f, g \in Fields},
        trailers : {<<<<<<"a">>, <<"a">>>>>>}, newline : {<<"cr", "lf">>}]

Few == {[Simple EXCEPT !.target = t, !.headers = h] :
          t \in {Root, Static \o Query},
          h \in {<<>>, <<<<Length, <<"1">>>>, <<Connection, Close>>>>, <<<<Encoding, Chunked>>>>}}

-----------------------------------------------------------------------------
(***************************************************************************)
(* The bytes of a request.                                                 *)
(***************************************************************************)
Line(m) == MethodStrings[m.method] \o <<"sp">> \o m.target
           \o (IF m.version = "none" THEN <<>>
               ELSE <<"sp", "H", "T", "T", "P", "/", "1", ".", m.version>>) \o m.newline
Lines(fields, newline) ==
  FlattenSeq([i \in DOMAIN fields |-> fields[i][1] \o <<":", "sp">> \o fields[i][2] \o newline])
  \o newline
Head0(m) == Line(m) \o Lines(m.headers, m.newline)

Values(m, name) == {m.headers[i][2] : i \in {j \in DOMAIN m.headers : m.headers[j][1] = name}}

IsChunked(m) == \E v \in Values(m, Encoding) : v[Len(v)] = "hunked"
Chunks       == <<<<"2", "cr", "lf", "a", "1", "cr", "lf">>,
                  <<"1", ";", "a", "cr", "lf", "cr", "cr", "lf">>, <<"0", "cr", "lf">>>>

(* Whole numbers of two symbols or fewer, blanks after them.               *)
NumberOf(v) == LET d == SelectSeq(v, LAMBDA c : c # "sp")
               IN  IF Len(d) = 1 THEN Num[d[1]] ELSE 10 * Num[d[1]] + Num[d[2]]
IsLength(v) == v # <<>> /\ (\A i \in DOMAIN v : v[i] \in DOMAIN Num \cup {"sp"}) /\ Len(v) <= 2
LengthOf(m) == LET vs == {v \in Values(m, Length) : IsLength(v)}
               IN  IF vs = {} THEN 0 ELSE NumberOf(CHOOSE v \in vs : TRUE)

(* After an upgrade the bytes are another protocol's.                      *)
Body(m) == IF Values(m, Upgrade) # {} THEN <<>>
           ELSE IF IsChunked(m) THEN FlattenSeq(Chunks) \o Lines(m.trailers, <<"cr", "lf">>)
           ELSE [i \in 1 .. LengthOf(m) |-> IF i = 2 THEN "lf" ELSE "a"]
Bytes(m) == Head0(m) \o Body(m)

(* Where a read that ends cuts the target in two.                          *)
InTarget(m) == LET before == Len(MethodStrings[m.method]) + 1
               IN  before + 1 .. before + Len(m.target) - 1

-----------------------------------------------------------------------------
(***************************************************************************)
(* What is to be handed over.  A header without a value is left out unless *)
(* it is the last.  A length or an encoding must leave no doubt where the  *)
(* request ends.                                                           *)
(***************************************************************************)
Path(m) == IF "?" \in {m.target[i] : i \in DOMAIN m.target}
           THEN SubSeq(m.target, 1, (CHOOSE i \in DOMAIN m.target :
                  m.target[i] = "?" /\ \A j \in 1 .. i - 1 : m.target[j] # "?") - 1)
           ELSE m.target

Named(m, name) == \E i \in DOMAIN m.headers : m.headers[i][1] = name
Lengths(m) == Cardinality({i \in DOMAIN m.headers : m.headers[i][1] = Length})

Accepted(m) ==
  /\ m.method = "GET" /\ (Path(m) = Root \/ File(Path(m)))
  /\ Len(Head0(m)) <= MaxHeaderSize
  /\ Lengths(m) <= 1 /\ \A v \in Values(m, Length) : IsLength(v)
  /\ Named(m, Encoding) => (IsChunked(m) \/ Named(m, Upgrade)) /\ ~Named(m, Length)

Says(m, v) == \E w \in Values(m, Connection) \cup Values(m, Proxy) :
                SelectSeq(w, LAMBDA c : c # "sp") = v

Request(m) ==
  [method |-> m.method, raw_url |-> m.target, url |-> Path(m),
   headers |-> LET kept == {i \in DOMAIN m.headers : m.headers[i][2] # <<>> \/ i = Len(m.headers)}
               IN  [i \in 1 .. Cardinality(kept) |->
                      LET h == m.headers[IF Cardinality(kept) = Len(m.headers) THEN i
                                         ELSE Max(kept)]
                      IN  <<h[1], SelectSeq(h[2], LAMBDA c : c \notin {"cr", "lf"})>>],
   body |-> IF IsChunked(m) /\ ~Named(m, Upgrade) THEN <<"a", "1", "cr">> ELSE Body(m),
   major |-> IF m.version = "none" THEN 0 ELSE 1,
   minor |-> IF m.version = "none" THEN 9 ELSE Num[m.version],
   keep_alive |-> m.version = "1" \/ (m.version = "0" /\ Says(m, Keep)),
   close_connection |-> \/ m.version = "1" /\ Says(m, Close)
                        \/ m.version = "0" /\ ~Says(m, Keep),
   upgrade |-> Named(m, Upgrade)]
=============================================================================
