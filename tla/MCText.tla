------------------------------- MODULE MCText -------------------------------
(***************************************************************************)
(* The pure algorithms on all small inputs: every text over one of a few   *)
(* alphabets up to a length, one symbol more in each step, every written   *)
(* value and every type of a set, and every request of a set, read by read.*)
(* What the code computes is compared with a definition of its result that *)
(* works in another way.                                                   *)
(***************************************************************************)
EXTENDS Json, DataParser, HttpMessages, Router, SymbolTables

VARIABLE input

Texts == {[over |-> {"[", "]", ",", "1", "ws"}, upTo |-> 6],
          [over |-> {"{", "}", ":", ",", "quote", "1"}, upTo |-> 7],
          [over |-> {"0", "1", ".", "-", "+", "e"}, upTo |-> 6],
          [over |-> {"quote", "bslash", "u", "n", "h0022", "h0001", "true"}, upTo |-> 6]}

Cells == [type : DOMAIN Sizes,
          text : [is : {"number"}, n : -40 .. 40, rest : {"", ".7"}] \cup {[is |-> "word"]}]
         \cup [type : {"BOOL"}, text : [is : {"number"}, n : {0, 1, 2}, rest : {"", ".7"}]
                                         \cup [is : {"true", "word"}]]
         \cup [type : {"STRING"}, text : [is : {"word"}, chars : UNION {[1 .. n -> {"a", "b"}] : n \in 0 .. 4}]]

MCBits(size) == CASE size = 1 -> 2 [] size = 2 -> 3 [] size = 4 -> 4 [] size = 8 -> 5

StringSize == 3

(* A connection: the requests on it, their bytes, how many of them have    *)
(* been read, and whether a read has ended within a target.  A request     *)
(* comes before the one before it is answered only where the answer is     *)
(* sent at once.  Some streams have one symbol replaced by another.        *)
Stream(requests, bytes, whole) ==
  [kind |-> "http", requests |-> requests, bytes |-> bytes, whole |-> whole, read |-> 0,
   p |-> http_parser_init, cut |-> FALSE]

Bytes2(m, n) == Bytes(m) \o Bytes(n)
Symbols      == {"sp", "cr", "lf", ":", "?", "a", "c", "0", "1", "P", "/", "@", ",", ";", "ctl"}

Streams == {Stream(<<m>>, Bytes(m), TRUE) : m \in Requests}
           \cup {Stream(<<m, n>>, Bytes2(m, n), TRUE) : m, n \in Few}
           \cup UNION {{Stream(<<m>>, [Bytes(m) EXCEPT ![i] = s], FALSE) :
                          i \in DOMAIN Bytes(m), s \in Symbols} : m \in Few}

(* The rules of the server, and rules that compete.                        *)
ServerRules    == <<<<"/">>, <<"/", "a", "/", "<path>">>>>
CompetingRules == <<<<"/", "a", "/">>, <<"/", "<int>">>, <<"/", "a", "<string>", "/", "1">>,
                    <<"/", "a", "/", "<uint>">>, <<"/", "<string>">>, <<"/", "a", "1">>>>
RuleSets == {ServerRules, CompetingRules}
Tries    == [rules \in RuleSets |-> TrieOf(rules)]

(* Types: numbers, structures with a member whose name begins another's    *)
(* name, arrays, and these in one another; and the table that has them.  A *)
(* member of a structure lies at an even place behind the one before.      *)
Numbers              == {[is |-> "number", size |-> n] : n \in {1, 2}}
Structs(types)       == [is : {"struct"}, of : types \X types]
Arrays(dims, types)  == [is : {"array"}, dims : dims, of : types]
Dimensions           == {<<0>>, <<1>>, <<3>>, <<2, 2>>, <<1, 2>>, <<2, 0>>, <<2, 1, 2>>}

Flat    == Numbers \cup Structs(Numbers) \cup Arrays(Dimensions, Numbers)
Nested  == Structs(Flat) \cup Arrays(Dimensions, Flat)
Tables  == Arrays({<<0>>, <<2>>}, Structs(Numbers))
Types   == Flat \cup Nested \cup Structs(Tables)

Even(n) == n + (n % 2)
RECURSIVE SizeOf(_)
SizeOf(t) == CASE t.is = "number" -> t.size
               [] t.is = "struct" -> Even(SizeOf(t.of[1])) + Even(SizeOf(t.of[2]))
               [] t.is = "array"  -> Count(t.dims) * SizeOf(t.of)

MemberNames == <<"a", "ab">>
MCBegins    == {<<"a", "ab">>}
MCDataTypes ==
  [t \in Types \cup Tables |->
     [size |-> SizeOf(t),
      subItems |-> IF t.is # "struct" THEN <<>>
                   ELSE [i \in 1 .. 2 |-> [name |-> MemberNames[i], type |-> t.of[i],
                                           size |-> SizeOf(t.of[i]),
                                           offs |-> IF i = 1 THEN 0 ELSE Even(SizeOf(t.of[1]))]],
      dims |-> IF t.is = "array" THEN t.dims ELSE <<>>,
      type |-> IF t.is = "array" THEN t.of ELSE t]]

Init == \/ input \in [kind : {"text"}, alphabet : Texts, text : {<<>>}]
        \/ input \in [kind : {"cell"}, cell : Cells]
        \/ input \in Streams
        \/ input \in [kind : {"url"}, rules : RuleSets, text : {<<>>},
                     alphabet : {[over |-> {"/", "a", "1", "+"}, upTo |-> 6]}]
        \/ input \in [kind : {"type"}, type : Types]

Type == /\ input.kind \in {"text", "url"}
        /\ Len(input.text) < input.alphabet.upTo
        /\ \E s \in input.alphabet.over : input' = [input EXCEPT !.text = Append(@, s)]

ReadSizes == {1, 7, 60}

Waits(in)  == Len(in.requests) = 2 /\ ~File(Path(in.requests[1]))
UpTo(in)   == IF Waits(in) /\ in.read < Len(Bytes(in.requests[1])) THEN Len(Bytes(in.requests[1]))
              ELSE Len(in.bytes)
Cut(in, i) == \E k \in DOMAIN in.requests :
                LET before == IF k = 2 THEN Len(Bytes(in.requests[1])) ELSE 0
                IN  i - before \in InTarget(in.requests[k])

Receive == /\ input.kind = "http"
           /\ input.p.errno = "OK" /\ ~input.p.message_complete
           /\ \E n \in ReadSizes :
                LET to == Min({input.read + n, UpTo(input)})
                IN  /\ to > input.read
                    /\ input' = [input EXCEPT !.read = to, !.cut = @ \/ Cut(input, to),
                                   !.p = feed(@, SubSeq(input.bytes, input.read + 1, to))]

(* The answer is written.                                                  *)
Answered == /\ input.kind = "http"
            /\ input.p.errno = "OK" /\ input.p.message_complete /\ ~input.p.stopped
            /\ input' = [input EXCEPT !.p = clear(@)]

Next == Type \/ Receive \/ Answered

Spec == Init /\ [][Next]_input

-----------------------------------------------------------------------------
(***************************************************************************)
(* The grammar of RFC 8259, by splitting a text; and where crow's numbers  *)
(* and strings are not those of the grammar.                               *)
(***************************************************************************)
Between(s, i, j) == SubSeq(s, i, j)
Inner(s)         == SubSeq(s, 2, Len(s) - 1)
Enclosed(s, a, b) == Len(s) >= 2 /\ s[1] = a /\ s[Len(s)] = b

RECURSIVE Trim(_)
Trim(s) == IF s # <<>> /\ Head(s) = "ws" THEN Trim(Tail(s))
           ELSE IF s # <<>> /\ Last(s) = "ws" THEN Trim(Front(s)) ELSE s

Digits(s)  == s # <<>> /\ \A i \in DOMAIN s : s[i] \in Digit
IntPart(s) == s = <<"0">> \/ (Digits(s) /\ s[1] # "0")
Exponent(s) == /\ s # <<>> /\ s[1] = "e"
               /\ \/ Digits(Tail(s))
                  \/ Len(s) > 1 /\ s[2] \in {"+", "-"} /\ Digits(SubSeq(s, 3, Len(s)))
Fraction(s) == s # <<>> /\ s[1] = "." /\ Digits(Tail(s))

IsNumber(s) ==
  LET m == IF s # <<>> /\ s[1] = "-" THEN Tail(s) ELSE s
  IN  \E i \in 0 .. Len(m) : \E j \in i .. Len(m) :
        /\ IntPart(SubSeq(m, 1, i))
        /\ j = i \/ Fraction(SubSeq(m, i + 1, j))
        /\ j = Len(m) \/ Exponent(SubSeq(m, j + 1, Len(m)))

(* No digit need follow a point or the sign of an exponent, and 0e1 is     *)
(* refused.                                                                *)
Bare(s, i) == /\ \/ s[i] = "."
                 \/ i > 1 /\ s[i] \in {"+", "-"} /\ s[i - 1] = "e"
              /\ i = Len(s) \/ s[i + 1] \notin Digit
Filled(s) == FlattenSeq([i \in DOMAIN s |-> IF Bare(s, i) THEN <<s[i], "1">> ELSE <<s[i]>>])
ZeroExponent(s) == \E i \in {1, 2} : Len(s) > i /\ s[i] = "0" /\ s[i + 1] = "e"
                                       /\ (i = 1 \/ s[1] = "-")
IsCrowNumber(s) == IsNumber(Filled(s)) /\ ~ZeroExponent(s)

RECURSIVE StringBody(_)
StringBody(s) ==
  \/ s = <<>>
  \/ s[1] \notin {"quote", "bslash"} /\ StringBody(Tail(s))
  \/ Len(s) >= 2 /\ s[1] = "bslash" /\ s[2] \in Escapes /\ StringBody(SubSeq(s, 3, Len(s)))
  \/ Len(s) >= 3 /\ s[1] = "bslash" /\ s[2] = "u" /\ s[3] \in DOMAIN HexOf
       /\ StringBody(SubSeq(s, 4, Len(s)))
IsString(s) == Enclosed(s, "quote", "quote") /\ StringBody(Inner(s))

RECURSIVE IsValue(_, _), AreElements(_, _), AreMembers(_, _)
IsMember(s, levels) == \E i \in DOMAIN s :
  s[i] = ":" /\ IsString(Trim(SubSeq(s, 1, i - 1))) /\ IsValue(SubSeq(s, i + 1, Len(s)), levels)
AreElements(s, levels) ==
  \/ IsValue(s, levels)
  \/ \E i \in DOMAIN s : s[i] = "," /\ IsValue(SubSeq(s, 1, i - 1), levels)
                                   /\ AreElements(SubSeq(s, i + 1, Len(s)), levels)
AreMembers(s, levels) ==
  \/ IsMember(s, levels)
  \/ \E i \in DOMAIN s : s[i] = "," /\ IsMember(SubSeq(s, 1, i - 1), levels)
                                   /\ AreMembers(SubSeq(s, i + 1, Len(s)), levels)
IsValue(s, levels) ==
  LET x == Trim(s)
  IN  \/ x = <<"true">> \/ IsString(x) \/ IsCrowNumber(x)
      \/ levels > 0 /\ Enclosed(x, "[", "]") /\
           (Trim(Inner(x)) = <<>> \/ AreElements(Inner(x), levels - 1))
      \/ levels > 0 /\ Enclosed(x, "{", "}") /\
           (Trim(Inner(x)) = <<>> \/ AreMembers(Inner(x), levels - 1))

-----------------------------------------------------------------------------
(* load() takes JSON, nested as deep as half of max_depth, and nothing     *)
(* else, but for the numbers named above.                                  *)
LoadIsJson ==
  input.kind = "text" =>
    (load(input.text).ok <=> IsValue(input.text, (MaxDepth + 1) \div 2))

(* What is loaded and dumped again loads as the same value: escapes are    *)
(* undone once, and whatever a client writes as a name comes back as the   *)
(* key of its answer.                                                      *)
RoundTrip ==
  input.kind = "text" /\ load(input.text).ok =>
    LET w == wvalue(load(input.text).value)
    IN  load(dump(w)).ok /\ load(dump(w)).value = w

(* dump() of a floating point number drops the zeros at its end, but one   *)
(* after the point, and nothing else.                                      *)
RECURSIVE WithoutZeros(_)
WithoutZeros(s) == IF Last(s) = "0" /\ s[Len(s) - 1] # "." THEN WithoutZeros(Front(s)) ELSE s
Printed(s) == \E i \in 2 .. Len(s) - 1 : /\ IntPart(SubSeq(s, 1, i - 1)) /\ s[i] = "."
                                         /\ Digits(SubSeq(s, i + 1, Len(s)))
ZerosDropped ==
  input.kind = "text" /\ Printed(input.text) => dump_double(input.text) = WithoutZeros(input.text)

(* A value in the range of its variable is read back as it was written; a  *)
(* string has to leave room for its NUL.                                   *)
InRange(t, n) ==
  IF t \in DOMAIN Signed THEN n \in -(2 ^ (Bits(Sizes[t]) - 1)) .. 2 ^ (Bits(Sizes[t]) - 1) - 1
  ELSE n \in 0 .. 2 ^ Bits(Sizes[t]) - 1

Around(memory) == memory \o <<Fill, Nul>>

ReadBack ==
  input.kind = "cell" =>
    LET t    == input.cell.type
        text == input.cell.text
        e    == encode(t, text, StringSize)
    IN  CASE t \in DOMAIN Sizes ->
               text.is = "number" /\ InRange(t, text.n)
                 => e.result = "stored" /\ parse(t, e.memory) = text.n
          [] t = "BOOL"         -> parse(t, e.memory) <=> text \in {[is |-> "true"],
                                     [is |-> "number", n |-> 1, rest |-> ""]}
          [] t = "STRING"       -> Len(text.chars) < StringSize
                                     => parse(t, Around(e.memory)) = text.chars

-----------------------------------------------------------------------------
(* What is handed over of a stream of whole requests: each once, as it was *)
(* written, when all of it has come; nothing from a request that is not    *)
(* accepted on.                                                            *)
Complete(in) == {k \in DOMAIN in.requests :
                   Len(FlattenSeq([i \in 1 .. k |-> Bytes(in.requests[i])])) <= in.read}
Refused(in)  == {k \in DOMAIN in.requests : ~Accepted(in.requests[k])}
Due(in)      == {k \in Complete(in) : \A j \in Refused(in) : k < j}

DeliveredAsWritten(in) ==
  /\ in.p.handed = [k \in 1 .. Cardinality(Due(in)) |-> Request(in.requests[k])]
  /\ in.read = Len(in.bytes) => (in.p.errno = "OK" <=> Refused(in) = {})

(* However a stream is cut into reads, the requests are handed over as     *)
(* they were written, unless a read ends within the target of one.         *)
ReadAsWritten ==
  input.kind = "http" /\ input.whole /\ ~input.cut => DeliveredAsWritten(input)

(* "It will be called arbitrarally many times for each string. E.g. you    *)
(* might get 10 callbacks for "on_url" each providing just a few           *)
(* characters more data." (crow_all.h:5528)                                *)
HoweverCut == input.kind = "http" /\ input.whole => DeliveredAsWritten(input)

(* No assert() of the parser fails, whatever one symbol becomes.           *)
AssertsHold == input.kind = "http" => ~input.p.broken

-----------------------------------------------------------------------------
(* Whether a URL is one of a rule: a parameter ends where it can go no     *)
(* further.                                                                *)
IsParam(param, s, after) ==
  CASE param = "<path>"   -> after = <<>>
    [] param = "<string>" -> "/" \notin ToSet(s) /\ (after = <<>> \/ after[1] = "/")
    [] param \in {"<int>", "<uint>"} ->
         LET digits == IF s[1] = "+" THEN Tail(s) ELSE s
         IN  /\ digits # <<>> /\ Len(digits) <= MaxDigits
             /\ ToSet(digits) \subseteq Digits10
             /\ after = <<>> \/ after[1] \notin Digits10

RECURSIVE Matches(_, _)
Matches(rule, url) ==
  IF rule = <<>> THEN url = <<>>
  ELSE \E n \in DOMAIN url :
         LET after == SubSeq(url, n + 1, Len(url))
         IN  /\ IF Head(rule) \in ParamTraits THEN IsParam(Head(rule), SubSeq(url, 1, n), after)
                ELSE n = 1 /\ url[1] = Head(rule)
             /\ Matches(Tail(rule), after)

Matching(rules, url) ==
  {FirstRule + i - 1 : i \in {j \in DOMAIN rules : Matches(rules[j], url)}}
  \cup {Redirect : i \in {j \in DOMAIN rules : Len(rules[j]) > 1 /\ Last(rules[j]) = "/"
                                               /\ Matches(Front(rules[j]), url)}}

RECURSIVE With(_, _)
With(rule, params) ==
  IF rule = <<>> THEN <<>>
  ELSE IF Head(rule) \in ParamTraits THEN Head(params) \o With(Tail(rule), Tail(params))
  ELSE <<Head(rule)>> \o With(Tail(rule), params)

(* A URL finds the first rule that it is one of, with the parameters that  *)
(* make it so, whatever the trie has been optimised to.                    *)
FoundRightly ==
  input.kind = "url" =>
    LET rules    == input.rules
        found    == find(input.text, Tries[rules], 1, <<>>)
        matching == Matching(rules, input.text)
    IN  IF matching = {} THEN found.rule_index = 0
        ELSE /\ found.rule_index = Min(matching)
             /\ found.rule_index # Redirect =>
                  With(rules[found.rule_index - FirstRule + 1], found.params) = input.text
-----------------------------------------------------------------------------
(* The variable v of a type, as a tree of names: the type of a member, and *)
(* its place in what it is a member of.                                    *)
Variable == <<"v">>
Inside(t) == CASE t.is = "number" -> <<>>
               [] t.is = "struct" -> [i \in 1 .. 2 |-> MemberNames[i]]
               [] t.is = "array"  -> SubSeq(Subscripts, 1, Count(t.dims))
MemberType(t, i)  == IF t.is = "struct" THEN t.of[i] ELSE t.of
MemberPlace(t, i) == IF t.is = "array" THEN (i - 1) * SizeOf(t.of)
                     ELSE IF i = 1 THEN 0 ELSE Even(SizeOf(t.of[1]))

RECURSIVE TreeOf(_, _, _)
TreeOf(name, t, place) ==
  {[name |-> name, type |-> t, place |-> place]}
  \cup UNION {TreeOf(Append(name, Inside(t)[i]), MemberType(t, i), MemberPlace(t, i)) :
                i \in DOMAIN Inside(t)}

NodesOf(tree)     == {x.name : x \in tree}
NodeIn(tree, n)   == CHOOSE x \in tree : x.name = n
PlacesOf(tree)    == [n \in NodesOf(tree) |-> NodeIn(tree, n).place]
ArraysIn(tree)    == {x.name : x \in {y \in tree : y.type.is = "array"}}

Cache(tree) == INSTANCE SymbolCache WITH
  Node <- NodesOf(tree), Symbols <- <<Variable>>, Array <- ArraysIn(tree),
  Property <- {}, NoGetter <- {}, Place <- PlacesOf(tree),
  PlcName <- <<>>, Lower <- <<>>

(* SymbolCache, which AdsDataSource goes by, says of a name what the code  *)
(* makes of the tables for it: which members get an entry, what addresses  *)
(* they get, and whether the entry is complete; and the entry of a member  *)
(* holds its place in its parent, by which parseBuffer goes, and its size. *)
CacheIsTables ==
  input.kind = "type" =>
    LET tree == TreeOf(Variable, input.type, 7)
    IN  \A n \in NodesOf(tree) \cup {Append(x, "a") : x \in NodesOf(tree)} :
          LET cached == Cache(tree)!CacheSymbolInfo(Cache(tree)!WholeTables, <<>>, n, Variable)
          IN  CachedOf(n, [name |-> Variable, type |-> input.type, iOffs |-> 7,
                           size |-> SizeOf(input.type)])
              = {[name |-> m, gOffset |-> cached[m].address,
                  cacheComplete |-> cached[m].cacheComplete,
                  offset |-> IF m = Variable THEN 0 ELSE NodeIn(tree, m).place,
                  size |-> SizeOf(NodeIn(tree, m).type),
                  isArray |-> m \in ArraysIn(tree)] : m \in DOMAIN cached}
=============================================================================
