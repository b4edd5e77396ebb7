----------------------------- MODULE HttpParser -----------------------------
(***************************************************************************)
(* http_parser_execute and the callbacks of crow::HTTPParser: what a read  *)
(* of some bytes does to the parser of a connection.                       *)
(*                                                                         *)
(* A byte is a symbol; the rest of a word that the parser compares letter  *)
(* by letter is one symbol ("eep-alive" after "k"), "a" is any letter of   *)
(* no meaning, "ctl" a byte that no header may hold.  Methods are the six  *)
(* below, out of 33.  A parser is a record; `mark` says what the symbols   *)
(* of `buf` are part of, in this read.  `handed` are the requests that     *)
(* were handed over, `broken` whether an assert() of the source failed,    *)
(* `stopped` that the rest of a read is not looked at.                     *)
(***************************************************************************)
EXTENDS Integers, Sequences, SequencesExt, FiniteSets

CONSTANTS MaxHeaderSize,  \* of a request line with its headers, in symbols
          MaxLength       \* 2^64 - 1, which also stands for no length

ASSUME ParserLimits == MaxHeaderSize \in Nat /\ MaxLength \in Nat /\ MaxLength > 16

MethodStrings == [GET |-> <<"G", "E", "T">>, POST |-> <<"P", "O", "S", "T">>,
                  PUT |-> <<"P", "U", "T">>, PURGE |-> <<"P", "U", "R", "G", "E">>,
                  CONNECT |-> <<"C", "O", "N", "N", "E", "C", "T">>,
                  COPY |-> <<"C", "O", "P", "Y">>]
FirstMethod   == [G |-> "GET", P |-> "POST", C |-> "CONNECT"]
OtherMethod(method, index, ch) ==
  CASE <<method, index, ch>> = <<"POST", 1, "U">>    -> "PUT"
    [] <<method, index, ch>> = <<"PUT", 2, "R">>     -> "PURGE"
    [] <<method, index, ch>> = <<"CONNECT", 2, "P">> -> "COPY"
    [] OTHER                                         -> "none"

Num     == [d \in {"0", "1", "2"} |-> CASE d = "0" -> 0 [] d = "1" -> 1 [] d = "2" -> 2]
Hex     == [d \in DOMAIN Num \cup {"c"} |-> IF d = "c" THEN 12 ELSE Num[d]]
Alpha   == {"a", "c", "o", "n", "t", "p", "u", "k", "G", "E", "T", "P", "O", "S", "U", "R",
            "C", "N", "Y", "H"}
Token   == Alpha \cup DOMAIN Num \cup
           {".", "*", "ection", "ent-length", "roxy-connection", "ransfer-encoding",
            "pgrade", "eep-alive", "lose", "hunked"}
UrlChar == Alpha \cup DOMAIN Num \cup {"/", ":", "@", ".", "*", ",", ";"}
UserInfo == UrlChar \ {"/", "@"}

NoRequest == [method |-> "GET", raw_url |-> <<>>, url |-> <<>>, headers |-> <<>>,
              body |-> <<>>, major |-> 1, minor |-> 0, keep_alive |-> FALSE,
              close_connection |-> FALSE, upgrade |-> FALSE]

http_parser_init ==
  [state |-> "s_start_req", header_state |-> "h_general", flags |-> {}, method |-> "GET",
   index |-> 0, uses_transfer_encoding |-> FALSE, nread |-> 0, content_length |-> 0,
   qs_point |-> 0, major |-> 0, minor |-> 0, errno |-> "OK", upgrade |-> FALSE,
   mark |-> "none", url_start |-> FALSE, buf |-> <<>>, stopped |-> FALSE, broken |-> FALSE,
   building |-> 0, field |-> <<>>, value |-> <<>>, message_complete |-> FALSE,
   req |-> NoRequest, handed |-> <<>>]

-----------------------------------------------------------------------------
(***************************************************************************)
(* Faults.                                                                 *)
(***************************************************************************)
MarksAllButValues(p) ==
  [p EXCEPT !.buf = <<>>, !.url_start = FALSE, !.stopped = FALSE,
            !.mark = IF p.state = "s_header_field" THEN "header_field"
                     ELSE IF p.state \in {"s_req_path", "s_req_query_string"} THEN "url" ELSE "none"]
LastIsAChunk(p) == [p EXCEPT !.nread = 0, !.state = "s_chunk_data"]

-----------------------------------------------------------------------------
Fail(p, e)  == [p EXCEPT !.errno = e]
Goto(p, s)  == [p EXCEPT !.state = s]
Break(p, b) == [p EXCEPT !.broken = @ \/ b]      \* assert(~b)

Mark(p, m) == IF p.mark = m THEN p ELSE [Break(p, p.mark # "none") EXCEPT !.mark = m]

(***************************************************************************)
(* Callbacks.  routed(url) and at_once(req) are the connection's: whether  *)
(* a URL has a route ("/" and "/static/..." for a GET), and whether        *)
(* handle() has cleared the parser on return (a file has been sent).       *)
(***************************************************************************)
File(url)         == Len(url) > 3 /\ SubSeq(url, 1, 3) = <<"/", "a", "/">>
routed(req, url)  == req.method = "GET" /\ (url = <<"/">> \/ File(url))
at_once(req)      == File(req.url) /\ ~req.upgrade

(* No pointer into a read is as small as the length of a URL.              *)
Beyond == 1000

(* HTTPParser::clear.                                                      *)
clear(p) == [p EXCEPT !.req = NoRequest, !.field = <<>>, !.value = <<>>, !.building = 0,
                      !.qs_point = 0, !.message_complete = FALSE, !.state = "s_start_req"]

(* A URL without a route is answered, and done() finds the parser in a     *)
(* state where a stream must not end.                                      *)
on_url(p) ==
  LET raw == p.req.raw_url \o p.buf
      url == IF p.qs_point # 0 /\ p.qs_point < Len(raw) THEN SubSeq(raw, 1, p.qs_point) ELSE raw
  IN  [p EXCEPT !.req.raw_url = raw, !.req.url = url,
                !.errno = IF routed(p.req, url) THEN @ ELSE "INVALID_EOF_STATE"]

on_header_field(p) ==
  IF p.building = 1 THEN [p EXCEPT !.field = @ \o p.buf]
  ELSE [p EXCEPT !.req.headers = IF p.value # <<>> THEN Append(@, <<p.field, p.value>>) ELSE @,
                 !.field = p.buf, !.building = 1,
                 !.value = <<>>]

on_header_value(p) ==
  [p EXCEPT !.value = IF p.building = 0 THEN @ \o p.buf ELSE p.buf, !.building = 0]

(* ... with set_connection_parameters().                                   *)
on_headers_complete(p) ==
  LET version == <<p.major, p.minor>>
  IN  [p EXCEPT !.req = [@ EXCEPT
          !.headers = IF p.field # <<>> THEN Append(@, <<p.field, p.value>>) ELSE @,
          !.major = p.major, !.minor = p.minor, !.upgrade = p.upgrade,
          !.keep_alive = version = <<1, 1>> \/ (version = <<1, 0>> /\ "keep-alive" \in p.flags),
          !.close_connection = \/ version = <<1, 1>> /\ "close" \in p.flags
                               \/ version = <<1, 0>> /\ "keep-alive" \notin p.flags],
        !.field = <<>>, !.value = <<>>]

on_body(p) == [p EXCEPT !.req.body = @ \o p.buf]

on_message_complete(p) ==
  LET q == [p EXCEPT !.message_complete = TRUE, !.handed = Append(@, p.req)]
  IN  IF at_once(p.req) THEN clear(q) ELSE q

(* CROW_CALLBACK_DATA, with the symbols from the mark to here.             *)
Data(p) ==
  LET q == CASE p.mark = "url"          -> on_url(p)
             [] p.mark = "header_field" -> on_header_field(p)
             [] p.mark = "header_value" -> on_header_value(p)
             [] p.mark = "body"         -> on_body(p)
             [] p.mark = "none"         -> p
  IN  [q EXCEPT !.mark = "none", !.buf = <<>>]

-----------------------------------------------------------------------------
(***************************************************************************)
(* The request line.                                                       *)
(***************************************************************************)
StartRequest(p, ch) ==
  LET q == [p EXCEPT !.flags = {}, !.uses_transfer_encoding = FALSE, !.content_length = MaxLength]
  IN  IF ch \in {"cr", "lf"} THEN p
      ELSE IF ch \notin DOMAIN FirstMethod THEN Fail(q, "INVALID_METHOD")
      ELSE [q EXCEPT !.method = FirstMethod[ch], !.index = 1, !.state = "s_req_method"]

Method(p, ch) ==
  LET matcher == MethodStrings[p.method]
      other   == OtherMethod(p.method, p.index, ch)
      q == IF p.index < Len(matcher) /\ ch = matcher[p.index + 1] THEN p
           ELSE IF p.index = Len(matcher) /\ ch = "sp" THEN Goto(p, "s_req_spaces_before_url")
           ELSE IF other # "none" THEN [p EXCEPT !.method = other]
           ELSE Fail(p, "INVALID_METHOD")
  IN  IF q.errno # "OK" THEN q ELSE [q EXCEPT !.index = @ + 1, !.req.method = q.method]

parse_url_char(s, ch) ==
  CASE s = "s_req_spaces_before_url" /\ ch \in {"/", "*"}  -> "s_req_path"
    [] s = "s_req_spaces_before_url" /\ ch \in Alpha       -> "s_req_schema"
    [] s = "s_req_schema" /\ ch \in Alpha                  -> s
    [] s = "s_req_schema" /\ ch = ":"                      -> "s_req_schema_slash"
    [] s = "s_req_schema_slash" /\ ch = "/"                -> "s_req_schema_slash_slash"
    [] s = "s_req_schema_slash_slash" /\ ch = "/"          -> "s_req_server_start"
    [] s \in {"s_req_server", "s_req_server_start", "s_req_server_with_at"} ->
         CASE ch = "/"          -> "s_req_path"
           [] ch = "?"          -> "s_req_query_string_start"
           [] ch = "@"          -> IF s = "s_req_server_with_at" THEN "s_dead"
                                   ELSE "s_req_server_with_at"
           [] ch \in UserInfo   -> "s_req_server"
           [] OTHER             -> "s_dead"
    [] s = "s_req_path" /\ ch \in UrlChar                  -> s
    [] s = "s_req_path" /\ ch = "?"                        -> "s_req_query_string_start"
    [] s \in {"s_req_query_string", "s_req_query_string_start"} /\ ch \in UrlChar \cup {"?"} ->
         "s_req_query_string"
    [] OTHER                                               -> "s_dead"

UrlStates == {"s_req_schema", "s_req_schema_slash", "s_req_schema_slash_slash",
              "s_req_server_start", "s_req_server", "s_req_server_with_at", "s_req_path",
              "s_req_query_string_start", "s_req_query_string"}
NoSpaceYet == {"s_req_schema", "s_req_schema_slash", "s_req_schema_slash_slash",
               "s_req_server_start"}

(* p - url_mark is told from url_start_mark, which no later read sets.     *)
UrlByte(p, ch) ==
  LET s == parse_url_char(p.state, ch)
  IN  IF s = "s_dead" THEN Fail(Goto(p, s), "INVALID_URL")
      ELSE [p EXCEPT !.state = s,
                     !.qs_point = IF s # "s_req_query_string_start" THEN @
                                  ELSE IF p.url_start THEN Len(p.buf) ELSE Beyond]

BeforeUrl(p, ch) ==
  LET q == [Mark(p, "url") EXCEPT !.url_start = TRUE,
                                  !.state = IF p.method = "CONNECT" THEN "s_req_server_start" ELSE @]
  IN  IF ch = "sp" THEN p ELSE UrlByte(q, ch)

(* A line that ends after the URL is HTTP/0.9.                             *)
Url(p, ch) ==
  CASE ch = "sp" /\ p.state \notin NoSpaceYet -> Data(Goto(p, "s_req_http_start"))
    [] ch \in {"cr", "lf"} /\ p.state \notin NoSpaceYet ->
         IF p.method # "GET" THEN Fail(Goto(p, "s_dead"), "INVALID_VERSION")
         ELSE Data([p EXCEPT !.major = 0, !.minor = 9,
                             !.state = IF ch = "cr" THEN "s_req_line_almost_done"
                                       ELSE "s_header_field_start"])
    [] OTHER -> UrlByte(p, ch)

(* States in which one symbol is expected, the state it leads to, and the  *)
(* error of another.                                                       *)
Expected == [s_req_http_H    |-> <<"T", "s_req_http_HT", "STRICT">>,
             s_req_http_HT   |-> <<"T", "s_req_http_HTT", "STRICT">>,
             s_req_http_HTT  |-> <<"P", "s_req_http_HTTP", "STRICT">>,
             s_req_http_HTTP |-> <<"/", "s_req_http_major", "STRICT">>,
             s_req_http_dot  |-> <<".", "s_req_http_minor", "INVALID_VERSION">>,
             s_req_line_almost_done |-> <<"lf", "s_header_field_start", "LF_EXPECTED">>,
             s_header_almost_done   |-> <<"lf", "s_header_value_lws", "LF_EXPECTED">>,
             s_header_value_discard_ws_almost_done |->
               <<"lf", "s_header_value_discard_lws", "STRICT">>]

OneByte(p, ch) ==
  LET e == Expected[p.state]
  IN  IF ch = e[1] THEN Goto(p, e[2]) ELSE Fail(p, e[3])

Version(p, ch) ==
  CASE p.state = "s_req_http_start" /\ ch = "sp"         -> p
    [] p.state = "s_req_http_start" /\ ch = "H"          -> Goto(p, "s_req_http_H")
    [] p.state = "s_req_http_start" /\ ch \notin {"sp", "H"} -> Fail(p, "INVALID_CONSTANT")
    [] p.state = "s_req_http_major" /\ ch \in DOMAIN Num ->
         [p EXCEPT !.major = Num[ch], !.state = "s_req_http_dot"]
    [] p.state = "s_req_http_minor" /\ ch \in DOMAIN Num ->
         [p EXCEPT !.minor = Num[ch], !.state = "s_req_http_end"]
    [] p.state = "s_req_http_end" /\ ch = "cr"           -> Goto(p, "s_req_line_almost_done")
    [] p.state = "s_req_http_end" /\ ch = "lf"           -> Goto(p, "s_header_field_start")
    [] OTHER                                             -> Fail(p, "INVALID_VERSION")

-----------------------------------------------------------------------------
(***************************************************************************)
(* Headers: names and values are matched as they come.                     *)
(***************************************************************************)
FieldStart(ch) == CASE ch \in {"c", "C"} -> "h_C"
                    [] ch \in {"p", "P"} -> "h_matching_proxy_connection"
                    [] ch \in {"t", "T"} -> "h_matching_transfer_encoding"
                    [] ch \in {"u", "U"} -> "h_matching_upgrade"
                    [] OTHER             -> "h_general"

FieldMatch(h, ch) ==
  CASE h = "h_C"   /\ ch \in {"o", "O"} -> "h_CO"
    [] h = "h_CO"  /\ ch \in {"n", "N"} -> "h_CON"
    [] h = "h_CON" /\ ch \in {"n", "N"} -> "h_matching_connection"
    [] h = "h_CON" /\ ch \in {"t", "T"} -> "h_matching_content_length"
    [] h = "h_matching_connection"        /\ ch = "ection"           -> "h_connection"
    [] h = "h_matching_proxy_connection"  /\ ch = "roxy-connection"  -> "h_connection"
    [] h = "h_matching_content_length"    /\ ch = "ent-length"       -> "h_content_length"
    [] h = "h_matching_transfer_encoding" /\ ch = "ransfer-encoding" -> "h_transfer_encoding"
    [] h = "h_matching_upgrade"           /\ ch = "pgrade"           -> "h_upgrade"
    [] OTHER -> "h_general"

(* s_header_field_start and s_header_field.                                *)
FieldByte(p, ch) ==
  LET h == IF p.state = "s_header_field_start" THEN FieldStart(ch) ELSE FieldMatch(p.header_state, ch)
  IN  IF ch = ":" /\ p.state = "s_header_field" THEN Data(Goto(p, "s_header_value_discard_ws"))
      ELSE IF ch \notin Token THEN Fail(p, "INVALID_HEADER_TOKEN")
      ELSE [Mark(p, "header_field") EXCEPT
              !.state = "s_header_field", !.header_state = h,
              !.uses_transfer_encoding = @ \/ h = "h_transfer_encoding"]

(* s_header_value_start.                                                   *)
ValueStart(p, ch) ==
  LET q == [Mark(p, "header_value") EXCEPT !.state = "s_header_value"]
      h == p.header_state
  IN  CASE h = "h_upgrade" ->
             [q EXCEPT !.flags = @ \cup {"upgrade"}, !.header_state = "h_general"]
        [] h = "h_transfer_encoding" ->
             [q EXCEPT !.header_state = IF ch = "c" THEN "h_matching_transfer_encoding_chunked"
                                        ELSE "h_matching_transfer_encoding_token"]
        [] h \in {"h_matching_transfer_encoding_token_start", "h_content_length_ws"} -> q
        [] h = "h_content_length" ->
             IF ch \notin DOMAIN Num THEN Fail(q, "INVALID_CONTENT_LENGTH")
             ELSE IF "contentlength" \in q.flags THEN Fail(q, "UNEXPECTED_CONTENT_LENGTH")
             ELSE [q EXCEPT !.flags = @ \cup {"contentlength"}, !.content_length = Num[ch],
                            !.header_state = "h_content_length_num"]
        [] h = "h_connection" ->
             [q EXCEPT !.header_state = CASE ch = "k"  -> "h_matching_connection_keep_alive"
                                          [] ch = "c"  -> "h_matching_connection_close"
                                          [] ch = "sp" -> @
                                          [] OTHER     -> "h_general"]
        [] OTHER -> [q EXCEPT !.header_state = "h_general"]

ValueMatch(h, ch) ==
  CASE h = "h_matching_transfer_encoding_token_start" ->
         CASE ch = "c"     -> "h_matching_transfer_encoding_chunked"
           [] ch = "sp"    -> h
           [] ch \in Token \ {"c"} -> "h_matching_transfer_encoding_token"
           [] OTHER        -> "h_general"
    [] h = "h_matching_transfer_encoding_chunked" ->
         IF ch = "hunked" THEN "h_transfer_encoding_chunked" ELSE "h_matching_transfer_encoding_token"
    [] h = "h_matching_transfer_encoding_token" ->
         IF ch = "," THEN "h_matching_transfer_encoding_token_start" ELSE h
    [] h = "h_matching_connection_keep_alive" ->
         IF ch = "eep-alive" THEN "h_connection_keep_alive" ELSE "h_general"
    [] h = "h_matching_connection_close" ->
         IF ch = "lose" THEN "h_connection_close" ELSE "h_general"
    [] h = "h_transfer_encoding_chunked" ->
         IF ch = "sp" THEN h ELSE "h_matching_transfer_encoding_token"
    [] h \in {"h_connection_keep_alive", "h_connection_close"} ->
         IF ch = "sp" THEN h ELSE "h_general"
    [] OTHER -> "h_general"

LengthByte(p, ch) ==
  CASE ch = "sp" -> [p EXCEPT !.header_state = "h_content_length_ws"]
    [] ch \in DOMAIN Num /\ p.header_state = "h_content_length_num"
         /\ p.content_length <= (MaxLength - 10) \div 10 ->
         [p EXCEPT !.content_length = @ * 10 + Num[ch]]
    [] OTHER -> Fail(p, "INVALID_CONTENT_LENGTH")

ValueByte(p, ch) ==
  CASE ch = "cr"  -> Data(Goto(p, "s_header_almost_done"))
    [] ch = "ctl" -> Fail(p, "INVALID_HEADER_TOKEN")
    [] ch \notin {"cr", "ctl"} ->
         IF p.header_state \in {"h_content_length_num", "h_content_length_ws"} THEN LengthByte(p, ch)
         ELSE [Break(p, p.header_state \in {"h_connection", "h_transfer_encoding"}) EXCEPT
                 !.header_state = ValueMatch(@, ch)]

(* s_header_value_lws, when the header goes on in the next line, and when  *)
(* it is finished.                                                         *)
Folded(p) == [p EXCEPT !.state = "s_header_value_start",
                       !.header_state = IF @ = "h_content_length_num" THEN "h_content_length_ws" ELSE @]
FlagOf(h) == CASE h = "h_connection_keep_alive"     -> {"keep-alive"}
               [] h = "h_connection_close"          -> {"close"}
               [] h = "h_transfer_encoding_chunked" -> {"chunked"}
               [] OTHER                             -> {}
HeaderDone(p) == [p EXCEPT !.flags = @ \cup FlagOf(p.header_state), !.state = "s_header_field_start"]
EmptyValue(p) == Data(Goto(Mark(p, "header_value"), "s_header_field_start"))

-----------------------------------------------------------------------------
(***************************************************************************)
(* The end of the headers, and the body.                                   *)
(***************************************************************************)
headers_done(p) ==
  LET q == [p EXCEPT !.nread = 0]
  IN  CASE p.upgrade -> [on_message_complete(q) EXCEPT !.stopped = TRUE]
        [] ~p.upgrade /\ "chunked" \in p.flags -> Goto(q, "s_chunk_size_start")
        [] ~p.upgrade /\ "chunked" \notin p.flags ->
             IF p.uses_transfer_encoding THEN Fail(q, "INVALID_TRANSFER_ENCODING")
             ELSE IF p.content_length \in {0, MaxLength} THEN on_message_complete(q)
             ELSE Goto(q, "s_body_identity")

HeadersAlmostDone(p, ch) ==
  LET q == [p EXCEPT !.state = "s_headers_done",
                     !.upgrade = "upgrade" \in p.flags \/ p.method = "CONNECT"]
  IN  CASE ch # "lf" -> Fail(p, "STRICT")
        [] ch = "lf" /\ "trailing" \in p.flags -> on_message_complete(p)
        [] ch = "lf" /\ "trailing" \notin p.flags ->
             IF p.uses_transfer_encoding /\ "contentlength" \in p.flags
             THEN Fail(p, "UNEXPECTED_CONTENT_LENGTH")
             ELSE headers_done(on_headers_complete(q))

BodyByte(p, ch) ==
  LET q == [Break(Mark(p, "body"), p.content_length \in {0, MaxLength}) EXCEPT
              !.content_length = @ - 1]
  IN  IF q.content_length # 0 THEN q
      ELSE on_message_complete(Goto(Data([q EXCEPT !.buf = Append(@, ch)]), "s_message_done"))

ChunkSize(p, ch) ==
  CASE p.state = "s_chunk_size_start" /\ ch \in DOMAIN Hex ->
         [Break(p, p.nread # 1) EXCEPT !.content_length = Hex[ch], !.state = "s_chunk_size"]
    [] p.state = "s_chunk_size" /\ ch \in DOMAIN Hex ->
         IF p.content_length <= (MaxLength - 16) \div 16
         THEN [p EXCEPT !.content_length = @ * 16 + Hex[ch]]
         ELSE Fail(p, "INVALID_CONTENT_LENGTH")
    [] p.state = "s_chunk_size" /\ ch \in {";", "sp"}   -> Goto(p, "s_chunk_parameters")
    [] p.state \in {"s_chunk_size", "s_chunk_parameters"} /\ ch = "cr" ->
         Goto(p, "s_chunk_size_almost_done")
    [] p.state = "s_chunk_parameters" /\ ch # "cr"      -> p
    [] OTHER -> Fail(p, "INVALID_CHUNK_SIZE")

ChunkSizeDone(p) ==
  IF p.content_length = 0
  THEN [p EXCEPT !.nread = 0, !.flags = @ \cup {"trailing"}, !.state = "s_header_field_start"]
  ELSE [p EXCEPT !.nread = 0, !.state = "s_chunk_data"]

ChunkByte(p) ==
  LET q == [Break(Mark(p, "body"), p.content_length \in {0, MaxLength}) EXCEPT
              !.content_length = @ - 1]
  IN  IF q.content_length = 0 THEN Goto(q, "s_chunk_data_almost_done") ELSE q

ChunkDone(p) == [p EXCEPT !.nread = 0, !.state = "s_chunk_size_start"]

ChunkEnd(p, ch) ==
  CASE p.state = "s_chunk_size_almost_done" /\ ch = "lf" -> ChunkSizeDone(p)
    [] p.state = "s_chunk_data_almost_done" /\ ch = "cr" ->
         Data([Break(p, p.content_length # 0) EXCEPT !.state = "s_chunk_data_done"])
    [] p.state = "s_chunk_data_done" /\ ch = "lf"        -> ChunkDone(p)
    [] OTHER                                             -> Fail(p, "STRICT")

-----------------------------------------------------------------------------
BodyStates == {"s_chunk_data", "s_chunk_data_almost_done", "s_chunk_data_done",
               "s_body_identity", "s_message_done"}
Headers    == {"s_header_value_discard_ws", "s_header_value_discard_lws", "s_header_value_lws",
               "s_header_value", "s_header_field_start", "s_header_field"}

(* The transition of one symbol, and CROW_REEXECUTE: a symbol that ends    *)
(* one thing may begin the next.                                           *)
HeaderByte(p, ch) ==
  CASE p.state = "s_header_field_start" ->
         IF ch = "cr" THEN Goto(p, "s_headers_almost_done")
         ELSE IF ch = "lf" THEN HeadersAlmostDone(Goto(p, "s_headers_almost_done"), ch)
         ELSE FieldByte(p, ch)
    [] p.state = "s_header_field"            -> FieldByte(p, ch)
    [] p.state = "s_header_value_discard_ws" ->
         CASE ch = "sp" -> p
           [] ch = "cr" -> Goto(p, "s_header_value_discard_ws_almost_done")
           [] ch = "lf" -> Goto(p, "s_header_value_discard_lws")
           [] OTHER     -> ValueStart(p, ch)
    [] p.state = "s_header_value" ->
         IF ch = "lf" THEN OneByte(Data(Goto(p, "s_header_almost_done")), ch) ELSE ValueByte(p, ch)

AfterLine(p, ch) ==
  CASE p.state = "s_header_value_lws" /\ ch = "sp"    -> ValueStart(Folded(p), ch)
    [] p.state = "s_header_value_lws" /\ ch # "sp"    -> HeaderByte(HeaderDone(p), ch)
    [] p.state = "s_header_value_discard_lws" /\ ch = "sp" -> Goto(p, "s_header_value_discard_ws")
    [] p.state = "s_header_value_discard_lws" /\ ch # "sp" -> HeaderByte(EmptyValue(p), ch)

Transition(p, ch) ==
  CASE p.state = "s_start_req"              -> StartRequest(p, ch)
    [] p.state = "s_req_method"             -> Method(p, ch)
    [] p.state = "s_req_spaces_before_url"  -> BeforeUrl(p, ch)
    [] p.state \in UrlStates                -> Url(p, ch)
    [] p.state \in DOMAIN Expected          -> OneByte(p, ch)
    [] p.state \in {"s_req_http_start", "s_req_http_major", "s_req_http_minor", "s_req_http_end"} ->
         Version(p, ch)
    [] p.state \in {"s_header_value_lws", "s_header_value_discard_lws"} -> AfterLine(p, ch)
    [] p.state \in Headers \ {"s_header_value_lws", "s_header_value_discard_lws"} -> HeaderByte(p, ch)
    [] p.state = "s_headers_almost_done"    -> HeadersAlmostDone(p, ch)
    [] p.state = "s_headers_done"           -> IF ch = "lf" THEN headers_done(p) ELSE Fail(p, "STRICT")
    [] p.state = "s_body_identity"          -> BodyByte(p, ch)
    [] p.state = "s_message_done"           -> on_message_complete(p)
    [] p.state \in {"s_chunk_size_start", "s_chunk_size", "s_chunk_parameters"} -> ChunkSize(p, ch)
    [] p.state = "s_chunk_data"             -> ChunkByte(p)
    [] OTHER                                -> ChunkEnd(p, ch)

(* CROW_COUNT_HEADER_SIZE comes first; a symbol under a mark is kept.      *)
Step(p, ch) ==
  LET q == IF p.state \in BodyStates THEN p ELSE [p EXCEPT !.nread = @ + 1]
      r == Transition(q, ch)
  IN  IF p.errno # "OK" \/ p.stopped THEN p
      ELSE IF q.nread > MaxHeaderSize THEN Fail(q, "HEADER_OVERFLOW")
      ELSE IF r.mark # "none" THEN [r EXCEPT !.buf = Append(@, ch)] ELSE r

(* Marks are local to a read: they are set again where it begins within    *)
(* something, and what they mark is handed over where it ends.             *)
ReadBegins(p) ==
  [p EXCEPT !.buf = <<>>, !.url_start = FALSE, !.stopped = FALSE,
            !.mark = CASE p.state = "s_header_field" -> "header_field"
                       [] p.state = "s_header_value" -> "header_value"
                       [] p.state \in UrlStates      -> "url"
                       [] OTHER                      -> "none"]

http_parser_execute(p, bytes) ==
  LET after[i \in 0 .. Len(bytes)] == IF i = 0 THEN ReadBegins(p) ELSE Step(after[i - 1], bytes[i])
      q == after[Len(bytes)]
  IN  IF q.errno = "OK" /\ ~q.stopped THEN Data(q) ELSE q

(* False, for the connection to be closed, when it does not come to the    *)
(* end of the read.                                                        *)
feed(p, bytes) == IF p.message_complete THEN p ELSE http_parser_execute(p, bytes)
=============================================================================
