---------------------- MODULE HttpServerAnswers_proofs ----------------------
(***************************************************************************)
(* More proofs about HttpServer: every answer is the right one, and no     *)
(* request is swallowed.                                                   *)
(*                                                                         *)
(* The argument: a client has at most one question open (Exchange).  While *)
(* it has, either everything that can still come of it has come (Dead,     *)
(* Broken), or the parser stands where the tokens read have brought it and *)
(* the rest of them is still to be read, or the last of what is written is *)
(* the answer (Asked).  And when it has none, the parser and the response  *)
(* are as new, except for skip_body: so the next answer is right whatever  *)
(* came before, but may not be framed after a HEAD.                        *)
(***************************************************************************)
EXTENDS HttpServer_proofs

(* What a request has left in the parser and in the response: nothing.     *)
Fresh(x) == ~x.complete /\ ~x.completed /\ ~x.file /\ x.code = 200
Idle(x)  == Fresh(x) /\ x.at = "start"

Interim     == [code |-> 100, framed |-> TRUE]
Interims(x) == \A i \in DOMAIN x.writes : x.writes[i].code = 100

HeadAmong(past, n) == \E j \in 1 .. n : past[j].method = "HEAD"

(* r is the answer to the i-th of what was asked.                          *)
Right(r, past, i) == r.code = Expected(past[i]) /\ (r.framed \/ HeadAmong(past, i))

(* Nothing more will be read, and nothing but interim answers is written.  *)
Dead(x) == ~x.reading /\ x.stage \in {"live", "released"} /\ Interims(x)

Broken(x, p) == (p.gone \/ ~x.open) /\ p.inbound = <<>> /\ Interims(x)

(* The tokens of q after the first k, as far as they were sent.            *)
Rest(p, q, k) == /\ Len(p.inbound) <= 3 - k
                 /\ \A i \in DOMAIN p.inbound : p.inbound[i] = Tokens(q)[k + i]
                 /\ p.whole => k + Len(p.inbound) = 3

Routed(x, q) == x.req = q /\ handle_initial(q) = 0

(* The parser is at the end of q's request line, or of its headers.        *)
AfterUrl(x, q)    == x.at = "line" /\ Fresh(x) /\ Routed(x, q) /\ x.writes = <<>>
AfterHeader(x, q) == x.at = "head" /\ Fresh(x) /\ Routed(x, q)
                     /\ x.writes \in {<<>>, <<Interim>>}

(* The last of what is written is the answer to q, the n-th.               *)
Final(x, past, n) ==
  \E r \in Answer : /\ x.writes = <<r>> \/ x.writes = <<Interim, r>>
                    /\ r.code # 100 /\ Right(r, past, n)

Answering(x, p, n) == Final(x, p.past, n) /\ (x.reading => p.inbound = <<>>)

Asked(x, p, n) ==
  LET q == p.past[n]
  IN  \/ Dead(x) \/ Broken(x, p)
      \/ Idle(x) /\ x.writes = <<>> /\ Rest(p, q, 0)
      \/ AfterUrl(x, q) /\ Rest(p, q, 1)
      \/ AfterHeader(x, q) /\ Rest(p, q, 2)
      \/ Idle(x) /\ x.writes = <<>> /\ Rest(p, q, 2)
      \/ Answering(x, p, n)

Exchange(x, p, A) ==
  LET n == Len(p.past)
  IN  /\ x.at = "error" => ~x.reading
      /\ x.stage \in {"none", "waiting"} => n = 0 /\ p.inbound = <<>>
      /\ x.skip => HeadAmong(p.past, n)
      /\ \A i \in DOMAIN A : i <= n /\ Right(A[i], p.past, i)
      /\ \/ Len(A) = n /\ (Dead(x) \/ (Idle(x) /\ Interims(x) /\ p.inbound = <<>>))
         \/ Len(A) + 1 = n /\ Asked(x, p, n)

Exchanges == \A c \in Conns : IF c \in DOMAIN client
                              THEN Exchange(conn[c], client[c], answers[c])
                              ELSE answers[c] = <<>>

Exchanging == Served /\ Exchanges

-----------------------------------------------------------------------------
(* The answer that handle_initial or the rule gives is the expected one.   *)
LEMMA ExpectedCodes ==
  ASSUME NEW q \in Request
  PROVE  /\ handle_initial(q) # 0 => Expected(q) = handle_initial(q)
         /\ handle_initial(q) = 0 => Expected(q) = CodeOf(q)
         /\ handle_initial(q) # 100 /\ CodeOf(q) # 100
<1>1. q.method \in {"GET", "HEAD", "OPTIONS", "POST"}
  BY DEF Request
<1>2. CASE q.target = "none"
  BY <1>2 DEF handle_initial, Expected, CodeOf
<1>3. CASE q.target # "none" /\ q.method \in {"GET", "HEAD"}
  BY <1>3 DEF handle_initial, Expected, CodeOf
<1>4. CASE q.target # "none" /\ q.method = "OPTIONS"
  BY <1>4 DEF handle_initial, Expected, CodeOf
<1>5. CASE q.target # "none" /\ q.method = "POST"
  BY <1>5 DEF handle_initial, Expected, CodeOf
<1> QED
  BY <1>1, <1>2, <1>3, <1>4, <1>5

(* Answers keep being right as more is asked.                              *)
LEMMA MoreAsked ==
  ASSUME NEW past \in Seq(Request), NEW r \in Request, NEW a, NEW i \in 1 .. Len(past)
  PROVE  /\ Right(a, past, i) => Right(a, Append(past, r), i)
         /\ HeadAmong(past, i) => HeadAmong(Append(past, r), i)
<1>1. \A j \in 1 .. i : Append(past, r)[j] = past[j]
  <2> SUFFICES ASSUME NEW j \in 1 .. i PROVE Append(past, r)[j] = past[j]
    OBVIOUS
  <2>1. j \in 1 .. Len(past) /\ Len(past) \in Nat
    OBVIOUS
  <2> QED BY <2>1
<1>2. HeadAmong(past, i) => HeadAmong(Append(past, r), i)
  BY <1>1 DEF HeadAmong
<1>3. Expected(Append(past, r)[i]) = Expected(past[i])
  BY <1>1
<1> QED
  BY <1>2, <1>3 DEF Right

(* A HEAD among the first requests is among more of them.                  *)
LEMMA MoreHeads ==
  ASSUME NEW past, NEW m \in Nat, NEW n \in Nat, m <= n, HeadAmong(past, m)
  PROVE  HeadAmong(past, n)
BY DEF HeadAmong

-----------------------------------------------------------------------------
(***************************************************************************)
(* The tokens of the n-th request, q, one after the other.                 *)
(***************************************************************************)
Written(s, past, n) == Final(s.x, past, n) /\ s.out = <<>>

(* The answer went out, and the connection is as new.                      *)
Delivered(s, past, n) ==
  /\ Idle(s.x) /\ Interims(s.x)
  /\ \E r \in Answer : s.out = <<r>> /\ r.code # 100 /\ Right(r, past, n)

(* No answer comes: an exception, a socket that is closed or handed over,  *)
(* a request that broke off, or a client that is gone.                     *)
GivenUp(s, lost) ==
  /\ Interims(s.x) /\ s.out = <<>>
  /\ s.threw \/ s.x.closeAfter \/ s.x.at = "error" \/ lost = "write"

Phase(s, past, n, lost, k) ==
  /\ ~s.x.reading /\ (s.x.skip => HeadAmong(past, n))
  /\ \/ k = 0 /\ Idle(s.x) /\ s.x.writes = <<>> /\ s.out = <<>> /\ ~s.threw
     \/ k = 1 /\ AfterUrl(s.x, past[n]) /\ s.out = <<>> /\ ~s.threw
     \/ k = 2 /\ AfterHeader(s.x, past[n]) /\ s.out = <<>> /\ ~s.threw
     \/ k \in {1, 2, 3} /\ s.x.at = "error" /\ Written(s, past, n)
     \/ k = 3 /\ \/ Written(s, past, n)
                 \/ Delivered(s, past, n)
                 \/ GivenUp(s, lost)

(* The parser goes through a request part by part: its target,             *)
LEMMA ParsedUrl ==
  ASSUME NEW s, NEW c, NEW w, NEW g, NEW T, Good(s, c, w, g, T), NEW lost,
         NEW past \in Seq(Request), NEW n \in 1 .. Len(past), n = Len(past),
         Phase(s, past, n, lost, 0)
  PROVE  Phase(Parsed(s, Tokens(past[n])[1], lost), past, n, lost, 1)
<1> DEFINE q == past[n]
           t == Tokens(q)[1]
           u == Parsed(s, t, lost)
           h == handle_initial(q)
           b == (h = 0)
<1>1. q \in Request /\ t.part = "line" /\ t.of = q
  BY DEF Tokens
<1>2. Idle(s.x) /\ s.x.writes = <<>> /\ s.out = <<>> /\ ~s.threw /\ ~s.x.reading
      /\ (s.x.skip => HeadAmong(past, n))
  BY DEF Phase
<1>3. u = handle_url(s, q)
  BY <1>1, <1>2 DEF Parsed, Idle
<1> HIDE DEF u, h, q
<1>4. /\ Good(u, c, w, g, T)
      /\ u.out = s.out /\ u.threw = s.threw
      /\ u.x.reading = s.x.reading /\ u.x.open = s.x.open
      /\ u.x.skip = (s.x.skip \/ (q.method = "HEAD" /\ h = 0))
      /\ h = 0 =>
           /\ u.x.at = "line" /\ u.x.req = q /\ u.x.writes = s.x.writes
           /\ u.x.complete = s.x.complete /\ u.x.completed = s.x.completed
           /\ u.x.file = s.x.file /\ u.x.code = s.x.code
      /\ h # 0 =>
           /\ u.x.at = "error"
           /\ u.x.writes = Append(s.x.writes, [code |-> h, framed |-> ~u.x.skip \/ h = 204])
  BY <1>1, <1>3, UrlHandled DEF h
<1>5. q.method = "HEAD" => HeadAmong(past, n)
  BY DEF HeadAmong, q
<1>6. u.x.skip => HeadAmong(past, n)
  BY <1>2, <1>4, <1>5
<1>7. ~u.x.reading /\ u.out = <<>> /\ ~u.threw
  BY <1>2, <1>4
<1>8. CASE h = 0
  <2>1. AfterUrl(u.x, q)
    BY <1>2, <1>4, <1>8 DEF AfterUrl, Fresh, Routed, Idle, h
  <2> QED
    BY <1>6, <1>7, <2>1 DEF Phase, u, q
<1>9. CASE h # 0
  <2> DEFINE r == [code |-> h, framed |-> ~u.x.skip \/ h = 204]
  <2>1. h \in Codes /\ Expected(q) = h /\ h # 100
    BY <1>1, <1>9, Routes, ExpectedCodes DEF h
  <2>2. r \in Answer /\ r.code = h /\ (r.framed \/ u.x.skip)
    BY <2>1 DEF Answer
  <2>3. Right(r, past, n)
    BY <1>6, <2>1, <2>2 DEF Right, q
  <2>4. u.x.writes = <<r>>
    BY <1>2, <1>4, <1>9
  <2>5. r.code # 100
    BY <2>1, <2>2
  <2> HIDE DEF r
  <2>6. Written(u, past, n)
    BY <1>7, <2>2, <2>3, <2>4, <2>5 DEF Written, Final
  <2> QED
    BY <1>4, <1>6, <1>7, <1>9, <2>6 DEF Phase, u, q
<1> QED
  BY <1>8, <1>9

(* its header fields,                                                      *)
LEMMA ParsedHeader ==
  ASSUME NEW s, NEW c, NEW w, NEW g, NEW T, Good(s, c, w, g, T), NEW lost,
         NEW past \in Seq(Request), NEW n \in 1 .. Len(past),
         Phase(s, past, n, lost, 1)
  PROVE  Phase(Parsed(s, Tokens(past[n])[2], lost), past, n, lost, 2)
<1> DEFINE q == past[n]
           t == Tokens(q)[2]
           u == Parsed(s, t, lost)
<1>1. t.part = "head"
  BY DEF Tokens
<1>2. CASE s.x.at = "error" /\ Written(s, past, n)
  <2>1. u = s
    BY <1>2 DEF Parsed
  <2> QED BY <1>2, <2>1 DEF Phase
<1>3. CASE AfterUrl(s.x, q) /\ s.out = <<>> /\ ~s.threw
  <2>1. u = handle_header(s) /\ s.x.at = "line"
    BY <1>1, <1>3 DEF Parsed, AfterUrl
  <2> HIDE DEF u
  <2>2. /\ u.out = s.out /\ u.threw = s.threw
        /\ u.x.reading = s.x.reading /\ u.x.open = s.x.open /\ u.x.skip = s.x.skip
        /\ u.x.at = "head" /\ u.x.req = s.x.req
        /\ u.x.complete = s.x.complete /\ u.x.completed = s.x.completed
        /\ u.x.file = s.x.file /\ u.x.code = s.x.code
        /\ \/ u.x.writes = s.x.writes
           \/ u.x.writes = Append(s.x.writes, [code |-> 100, framed |-> TRUE])
    BY <2>1, HeaderHandled
  <2>3. u.x.writes \in {<<>>, <<Interim>>}
    <3>1. \A a : Append(<<>>, a) = <<a>>
      OBVIOUS
    <3>2. u.x.writes = <<>> \/ u.x.writes = Append(<<>>, Interim)
      BY <1>3, <2>2 DEF AfterUrl, Interim
    <3> QED BY <3>1, <3>2
  <2>4. AfterHeader(u.x, q)
    BY <1>3, <2>2, <2>3 DEF AfterUrl, AfterHeader, Fresh, Routed
  <2>5. ~u.x.reading /\ (u.x.skip => HeadAmong(past, n)) /\ u.out = <<>> /\ ~u.threw
    BY <1>3, <2>2 DEF Phase
  <2> QED
    BY <2>4, <2>5 DEF Phase, u
<1> QED
  BY <1>2, <1>3 DEF Phase

(* A list of two.                                                          *)
LEMMA SecondAppended ==
  ASSUME NEW S, NEW a \in S, NEW b \in S
  PROVE  Append(<<b>>, a) = <<b, a>>
<1> DEFINE l == Append(<<b>>, a)
           m == <<b, a>>
<1>1. <<b>> \in Seq(S) /\ Len(<<b>>) = 1
  OBVIOUS
<1>2. l \in Seq(S) /\ Len(l) = 2 /\ l[1] = b /\ l[2] = a
  BY <1>1
<1>3. m \in Seq(S) /\ Len(m) = 2 /\ m[1] = b /\ m[2] = a
  OBVIOUS
<1> HIDE DEF l, m
<1>4. \A i \in 1 .. 2 : l[i] = m[i]
  BY <1>2, <1>3
<1>5. l = m
  BY <1>2, <1>3, <1>4, SeqEqual
<1> QED
  BY <1>5 DEF l, m

(* and its end, with which it is handled.                                  *)
LEMMA ParsedEnd ==
  ASSUME NEW s, NEW c, NEW w, NEW g, NEW T, Good(s, c, w, g, T), NEW lost,
         NEW past \in Seq(Request), NEW n \in 1 .. Len(past),
         Phase(s, past, n, lost, 2)
  PROVE  Phase(Parsed(s, Tokens(past[n])[3], lost), past, n, lost, 3)
<1> DEFINE q == past[n]
           t == Tokens(q)[3]
           u == Parsed(s, t, lost)
<1>1. t.part = "end" /\ q \in Request
  BY DEF Tokens
<1>2. CASE s.x.at = "error" /\ Written(s, past, n)
  <2>1. u = s
    BY <1>2 DEF Parsed
  <2> QED BY <1>2, <2>1 DEF Phase
<1>3. CASE AfterHeader(s.x, q) /\ s.out = <<>> /\ ~s.threw
  <2>1. u = handle(s, lost) /\ s.x.at = "head"
    BY <1>1, <1>3 DEF Parsed, AfterHeader
  <2> HIDE DEF u
  <2>2. s.x.req = q /\ handle_initial(q) = 0 /\ ~s.x.completed
        /\ s.x.writes \in {<<>>, <<Interim>>}
    BY <1>3 DEF AfterHeader, Fresh, Routed
  <2> HIDE DEF q
  <2>3. \/ Kept(s, u) /\ u.threw
        \/ Failed(s, u) /\ lost = "write"
        \/ Failed(s, u) /\ u.x.closeAfter
        \/ Sent(s, u, CodeOf(q))
    BY <1>3, <2>1, <2>2, RequestHandled
  <2>4. ~s.x.reading /\ (s.x.skip => HeadAmong(past, n))
    BY DEF Phase
  <2>5. Interims(s.x)
    <3>1. Interim.code = 100
      BY DEF Interim
    <3> HIDE DEF Interim
    <3> QED BY <2>2, <3>1 DEF Interims
  <2>6. CASE Kept(s, u) /\ (u.threw \/ lost = "write" \/ u.x.closeAfter)
    <3>1. ~u.x.reading /\ (u.x.skip => HeadAmong(past, n)) /\ Interims(u.x) /\ u.out = <<>>
      BY <1>3, <2>4, <2>5, <2>6 DEF Kept, Interims
    <3> QED BY <2>6, <3>1 DEF Phase, GivenUp, u, q
  <2>7. CASE Sent(s, u, CodeOf(q))
    <3> DEFINE k == CodeOf(q)
               r == [code |-> k, framed |-> ~s.x.skip \/ k = 204]
    <3>1. k \in Codes /\ Expected(q) = k /\ k # 100
      BY <1>1, <2>2, ExpectedCodes DEF CodeOf, Codes, q
    <3>2. r \in Answer /\ r.code = k /\ (r.framed \/ s.x.skip)
      BY <3>1 DEF Answer
    <3>3. Right(r, past, n) /\ r.code # 100
      BY <2>4, <3>1, <3>2 DEF Right, q
    <3>4. /\ ~u.x.reading /\ u.x.skip = s.x.skip
          /\ \/ u.x.writes = Append(s.x.writes, r) /\ u.out = s.out
             \/ /\ u.x.writes = s.x.writes /\ u.out = Append(s.out, r)
                /\ ~u.x.complete /\ ~u.x.completed /\ ~u.x.file /\ u.x.code = 200
                /\ u.x.at = "start"
      BY <2>1, <2>4, <2>7 DEF Sent
    <3> HIDE DEF r
    <3>5. CASE u.x.writes = Append(s.x.writes, r) /\ u.out = s.out
      <4>1. Append(<<>>, r) = <<r>> /\ Append(<<Interim>>, r) = <<Interim, r>>
        <5>1. Interim \in Answer
          BY DEF Interim, Answer
        <5> QED BY <3>2, <5>1, SecondAppended
      <4>2. u.x.writes = <<r>> \/ u.x.writes = <<Interim, r>>
        BY <2>2, <3>5, <4>1
      <4>3. Written(u, past, n)
        BY <1>3, <3>2, <3>3, <3>5, <4>2 DEF Written, Final
      <4> QED BY <2>4, <3>4, <4>3 DEF Phase, u, q
    <3>6. CASE u.x.writes # Append(s.x.writes, r) \/ u.out # s.out
      <4>1. u.out = <<r>>
        BY <1>3, <3>4, <3>6
      <4>2. Idle(u.x) /\ Interims(u.x)
        BY <2>5, <3>4, <3>6 DEF Idle, Fresh, Interims
      <4>3. Delivered(u, past, n)
        BY <3>2, <3>3, <4>1, <4>2 DEF Delivered
      <4> QED BY <2>4, <3>4, <4>3 DEF Phase, u, q
    <3> QED BY <3>5, <3>6
  <2> QED
    BY <2>3, <2>6, <2>7 DEF Failed
<1> QED
  BY <1>2, <1>3 DEF Phase

(* After an interim answer cleared the parser, the end of the request is   *)
(* the start of one that is none.                                          *)
LEMMA ParsedEndAfresh ==
  ASSUME NEW s, NEW c, NEW w, NEW g, NEW T, Good(s, c, w, g, T), NEW lost,
         NEW past \in Seq(Request), NEW n \in 1 .. Len(past),
         Phase(s, past, n, lost, 0)
  PROVE  Phase(Parsed(s, Tokens(past[n])[3], lost), past, n, lost, 3)
<1> DEFINE t == Tokens(past[n])[3]
           u == Parsed(s, t, lost)
           y == [s.x EXCEPT !.at = "error"]
<1>1. t.part = "end"
  BY DEF Tokens
<1>2. Idle(s.x) /\ s.x.writes = <<>> /\ s.out = <<>> /\ ~s.threw /\ ~s.x.reading
      /\ (s.x.skip => HeadAmong(past, n))
  BY DEF Phase
<1>3. s \in Sys /\ s.x \in Object
  BY ObjectOfGood
<1>4. u = [s EXCEPT !.x = y]
  BY <1>1, <1>2, <1>3 DEF Parsed, Idle, Sys
<1> HIDE DEF u
<1>5. y.at = "error" /\ y.writes = s.x.writes /\ y.skip = s.x.skip /\ y.reading = s.x.reading
  BY <1>3 DEF Object
<1> HIDE DEF y
<1>6. u.x = y /\ u.out = s.out
  BY <1>3, <1>4 DEF Sys
<1>7. GivenUp(u, lost)
  BY <1>2, <1>5, <1>6 DEF GivenUp, Interims
<1> QED
  BY <1>2, <1>5, <1>6, <1>7 DEF Phase, u

(* One part more keeps the rest of the connection good.                    *)
LEMMA OnePhaseOn ==
  ASSUME NEW s, NEW c, NEW w, NEW g, NEW T, Good(s, c, w, g, T), NEW lost,
         NEW past \in Seq(Request), NEW n \in 1 .. Len(past), n = Len(past),
         NEW k \in 0 .. 2, Phase(s, past, n, lost, k)
  PROVE  LET u == Parsed(s, Tokens(past[n])[k + 1], lost)
         IN  Good(u, c, w, g, T) /\ Phase(u, past, n, lost, k + 1)
<1>1. Tokens(past[n])[k + 1] \in Token
  <2>1. past[n] \in Request
    OBVIOUS
  <2>2. CASE k = 0
    BY <2>1, <2>2 DEF Tokens, Token
  <2>3. CASE k = 1
    BY <2>1, <2>3 DEF Tokens, Token
  <2>4. CASE k = 2
    BY <2>1, <2>4 DEF Tokens, Token
  <2> QED BY <2>2, <2>3, <2>4
<1>2. Good(Parsed(s, Tokens(past[n])[k + 1], lost), c, w, g, T)
  BY <1>1, TokenParsed
<1>3. CASE k = 0
  BY <1>2, <1>3, ParsedUrl
<1>4. CASE k = 1
  BY <1>2, <1>4, ParsedHeader
<1>5. CASE k = 2
  BY <1>2, <1>5, ParsedEnd
<1> QED
  BY <1>3, <1>4, <1>5

(* A read of m tokens takes the parser m tokens further.                   *)
LEMMA PhaseFed ==
  ASSUME NEW s, NEW c, NEW w, NEW g, NEW T, Good(s, c, w, g, T), NEW lost,
         NEW past \in Seq(Request), NEW n \in 1 .. Len(past), n = Len(past),
         NEW k \in 0 .. 2, Phase(s, past, n, lost, k), ~s.x.complete,
         NEW tokens \in Seq(Token), NEW m \in 1 .. 3 - k, Len(tokens) = m,
         \A i \in 1 .. m : tokens[i] = Tokens(past[n])[k + i]
  PROVE  Phase(feed(s, tokens, lost), past, n, lost, k + m)
<1> DEFINE Far(u, i) == /\ Good(u, c, w, g, T)
                        /\ Phase(u, past, n, lost, IF i <= m THEN k + i ELSE k + m)
<1>1. DOMAIN tokens = 1 .. m
  OBVIOUS
<1>2. ASSUME NEW i \in 1 .. 3, NEW u, Far(u, i - 1)
      PROVE  Far(Fed(u, tokens, i, lost), i)
  <2>1. CASE i <= m
    <3> DEFINE j == k + (i - 1)
    <3>1. j \in 0 .. 2 /\ j + 1 = k + i /\ i - 1 <= m /\ i \in 1 .. m
      BY <2>1
    <3>2. Good(u, c, w, g, T) /\ Phase(u, past, n, lost, j)
      BY <1>2, <3>1
    <3>3. Fed(u, tokens, i, lost) = Parsed(u, Tokens(past[n])[j + 1], lost)
      BY <1>1, <3>1 DEF Fed
    <3> DEFINE v == Parsed(u, Tokens(past[n])[j + 1], lost)
    <3>4. Good(v, c, w, g, T) /\ Phase(v, past, n, lost, j + 1)
      <4> HIDE DEF j
      <4> QED BY <3>1, <3>2, OnePhaseOn
    <3> HIDE DEF v
    <3>5. Far(v, i)
      BY <2>1, <3>1, <3>4
    <3> QED
      BY <3>3, <3>5 DEF v
  <2>2. CASE i > m
    <3>1. Fed(u, tokens, i, lost) = u
      BY <1>1, <2>2 DEF Fed
    <3>2. (IF i - 1 <= m THEN k + (i - 1) ELSE k + m) = k + m
          /\ (IF i <= m THEN k + i ELSE k + m) = k + m
      BY <2>2
    <3>3. Far(u, i)
      BY <1>2, <3>2
    <3> QED BY <3>1, <3>3
  <2> QED BY <2>1, <2>2
<1>3. Far(s, 0)
  OBVIOUS
<1> DEFINE a == Fed(s, tokens, 1, lost)
           b == Fed(a, tokens, 2, lost)
           d == Fed(b, tokens, 3, lost)
<1>4. feed(s, tokens, lost) = d
  BY DEF feed
<1> HIDE DEF Far
<1>5. Far(a, 1)
  BY <1>2, <1>3
<1> HIDE DEF a
<1>6. Far(b, 2)
  BY <1>2, <1>5
<1> HIDE DEF b
<1>7. Far(d, 3)
  BY <1>2, <1>6
<1> HIDE DEF d
<1>8. (IF 3 <= m THEN k + 3 ELSE k + m) = k + m
  OBVIOUS
<1> QED
  BY <1>4, <1>7, <1>8 DEF Far

(* A parser that is idle again may still get the end of a request.         *)
LEMMA EndFed ==
  ASSUME NEW s, NEW c, NEW w, NEW g, NEW T, Good(s, c, w, g, T), NEW lost,
         NEW past \in Seq(Request), NEW n \in 1 .. Len(past), n = Len(past),
         Phase(s, past, n, lost, 0), ~s.x.complete,
         NEW tokens \in Seq(Token), Len(tokens) = 1, tokens[1] = Tokens(past[n])[3]
  PROVE  Phase(feed(s, tokens, lost), past, n, lost, 3)
<1>1. DOMAIN tokens = {1}
  OBVIOUS
<1> DEFINE u == Parsed(s, Tokens(past[n])[3], lost)
<1>2. Fed(s, tokens, 1, lost) = u
  BY <1>1 DEF Fed
<1>3. \A v : Fed(v, tokens, 2, lost) = v /\ Fed(v, tokens, 3, lost) = v
  BY <1>1 DEF Fed
<1>4. feed(s, tokens, lost) = u
  BY <1>2, <1>3 DEF feed
<1> QED
  BY <1>4, ParsedEndAfresh

-----------------------------------------------------------------------------
(* What the handler of the read leaves in the object.                      *)
Ended(t, y) ==
  /\ y.stage \in {"live", "released"}
  /\ y.at = t.x.at /\ y.complete = t.x.complete /\ y.req = t.x.req
  /\ y.code = t.x.code /\ y.file = t.x.file /\ y.completed = t.x.completed
  /\ y.writes = t.x.writes /\ y.skip = t.x.skip
  /\ y.reading => t.x.reading \/ (~t.threw /\ t.x.at # "error" /\ ~t.x.closeAfter)

(* One more answer: it is right, and those before it stay.                 *)
LEMMA OneMore ==
  ASSUME NEW A \in Seq(Answer), NEW past, NEW r \in Answer,
         \A i \in DOMAIN A : i <= Len(A) + 1 /\ Right(A[i], past, i),
         Right(r, past, Len(A) + 1)
  PROVE  /\ Len(A \o <<r>>) = Len(A) + 1
         /\ \A i \in DOMAIN (A \o <<r>>) : i <= Len(A) + 1 /\ Right((A \o <<r>>)[i], past, i)
<1> DEFINE B == A \o <<r>>
           m == Len(A)
<1>1. <<r>> \in Seq(Answer) /\ Len(<<r>>) = 1 /\ <<r>>[1] = r
  OBVIOUS
<1>2. /\ B \in Seq(Answer) /\ Len(B) = m + 1 /\ m \in Nat
      /\ \A i \in 1 .. m : B[i] = A[i]
      /\ B[m + 1] = r
  BY <1>1, ConcatProperties
<1>3. DOMAIN B = 1 .. m + 1 /\ DOMAIN A = 1 .. m
  BY <1>2
<1> HIDE DEF B, m
<1>4. ASSUME NEW i \in 1 .. m + 1 PROVE i <= m + 1 /\ Right(B[i], past, i)
  <2>1. CASE i \in 1 .. m
    <3>1. B[i] = A[i] /\ i \in DOMAIN A
      BY <1>2, <1>3, <2>1
    <3>2. Right(A[i], past, i)
      BY <3>1
    <3> QED BY <3>1, <3>2
  <2>2. CASE i = m + 1
    <3>1. Right(r, past, m + 1)
      BY DEF m
    <3> QED BY <1>2, <2>2, <3>1
  <2> QED BY <1>2, <2>1, <2>2
<1> QED
  BY <1>2, <1>3, <1>4 DEF B, m

(* No further answers.                                                     *)
LEMMA NoneMore ==
  ASSUME NEW A \in Seq(Answer)
  PROVE  A \o <<>> = A
BY ConcatEmptySeq

(* Between two requests the answers are those of the requests so far.      *)
LEMMA PhaseEnds ==
  ASSUME NEW t, NEW past \in Seq(Request), NEW n \in 1 .. Len(past), n = Len(past),
         NEW lost, NEW k \in 1 .. 3, Phase(t, past, n, lost, k),
         NEW p \in Peer, p.past = past, Rest(p, past[n], k), lost = "write" => p.gone,
         NEW A \in Seq(Answer), Len(A) + 1 = n,
         \A i \in DOMAIN A : i <= n /\ Right(A[i], past, i),
         NEW y, Ended(t, y)
  PROVE  Exchange(y, p, A \o t.out)
<1> DEFINE q == past[n]
           B == A \o t.out
<1>1. /\ y.at = "error" => ~y.reading
      /\ y.stage \notin {"none", "waiting"}
      /\ y.skip => HeadAmong(past, n)
      /\ y.reading => ~t.threw /\ t.x.at # "error" /\ ~t.x.closeAfter
  BY DEF Ended, Phase
<1>2. ASSUME B = A, Asked(y, p, n)
      PROVE  Exchange(y, p, B)
  BY <1>1, <1>2 DEF Exchange
<1>3. CASE k = 1 /\ AfterUrl(t.x, q) /\ t.out = <<>>
  <2>1. AfterUrl(y, q)
    BY <1>3 DEF AfterUrl, Fresh, Routed, Ended
  <2>2. Asked(y, p, n)
    BY <1>3, <2>1 DEF Asked
  <2>3. B = A
    BY <1>3, NoneMore
  <2> QED BY <1>2, <2>2, <2>3
<1>4. CASE k = 2 /\ AfterHeader(t.x, q) /\ t.out = <<>>
  <2>1. AfterHeader(y, q)
    BY <1>4 DEF AfterHeader, Fresh, Routed, Ended
  <2>2. Asked(y, p, n)
    BY <1>4, <2>1 DEF Asked
  <2>3. B = A
    BY <1>4, NoneMore
  <2> QED BY <1>2, <2>2, <2>3
<1>5. p.inbound \in Seq(Token)
  BY DEF Peer
<1>6. k = 3 => p.inbound = <<>>
  <2>1. k = 3 => Len(p.inbound) <= 0
    BY DEF Rest
  <2> QED BY <1>5, <2>1
<1>7. CASE Written(t, past, n) /\ (t.x.at = "error" \/ k = 3)
  <2>1. Final(y, past, n)
    BY <1>7 DEF Written, Final, Ended
  <2>2. y.reading => p.inbound = <<>>
    BY <1>1, <1>6, <1>7
  <2>3. Asked(y, p, n)
    BY <2>1, <2>2 DEF Asked, Answering
  <2>4. B = A
    BY <1>7, NoneMore DEF Written
  <2> QED BY <1>2, <2>3, <2>4
<1>8. CASE k = 3 /\ Delivered(t, past, n)
  <2>1. PICK r \in Answer : t.out = <<r>> /\ r.code # 100 /\ Right(r, past, n)
    BY <1>8 DEF Delivered
  <2>2. Len(A) \in Nat
    OBVIOUS
  <2>3. Len(B) = n /\ \A i \in DOMAIN B : i <= n /\ Right(B[i], past, i)
    BY <2>1, OneMore
  <2>4. Idle(y) /\ Interims(y)
    BY <1>8 DEF Delivered, Idle, Fresh, Interims, Ended
  <2> HIDE DEF B
  <2> QED
    <3>1. Exchange(y, p, B)
      BY <1>1, <1>6, <1>8, <2>3, <2>4 DEF Exchange
    <3> QED BY <3>1 DEF B
<1>9. CASE k = 3 /\ GivenUp(t, lost)
  <2>1. Interims(y)
    BY <1>9 DEF GivenUp, Interims, Ended
  <2>2. ~y.reading \/ p.gone
    BY <1>1, <1>9 DEF GivenUp
  <2>3. Dead(y) \/ Broken(y, p)
    BY <1>6, <1>9, <2>1, <2>2 DEF Dead, Broken, Ended
  <2>4. Asked(y, p, n)
    BY <2>3 DEF Asked
  <2>5. B = A
    BY <1>9, NoneMore DEF GivenUp
  <2> QED BY <1>2, <2>4, <2>5
<1> QED
  BY <1>3, <1>4, <1>7, <1>8, <1>9 DEF Phase

-----------------------------------------------------------------------------
(* What a handler of c leaves is c's affair alone.                         *)
LEMMA OthersExchange ==
  ASSUME Exchanging, NEW c \in DOMAIN client,
         conn' \in [Conns -> Object], \A d \in Conns : d # c => conn'[d] = conn[d],
         \A d \in Conns : d # c => answers'[d] = answers[d],
         DOMAIN client' = DOMAIN client,
         \A d \in DOMAIN client : d # c => client'[d] = client[d],
         Exchange(conn[c], client[c], answers[c])'
  PROVE  Exchanges'
<1> SUFFICES ASSUME NEW d \in Conns
             PROVE  IF d \in DOMAIN client' THEN Exchange(conn'[d], client'[d], answers'[d])
                                            ELSE answers'[d] = <<>>
  BY DEF Exchanges
<1>1. IF d \in DOMAIN client THEN Exchange(conn[d], client[d], answers[d])
                             ELSE answers[d] = <<>>
  BY DEF Exchanging, Exchanges
<1> QED
  BY <1>1

-----------------------------------------------------------------------------
(* The object that a handler of c leaves, and its answers.                 *)
LEMMA LeftIs ==
  ASSUME Served, NEW c \in Conns, conn[c].stage \in {"posted", "live"},
         NEW u, Good(u, c, conn[c].worker, "live", timer[conn[c].worker].tasks), Left(c, u)
  PROVE  /\ c \in DOMAIN client /\ client[c] \in Peer /\ answers[c] \in Seq(Answer)
         /\ conn[c] \in Object
         /\ answers'[c] = answers[c] \o u.out
         /\ conn' \in [Conns -> Object]
         /\ \A d \in Conns : d # c => conn'[d] = conn[d] /\ answers'[d] = answers[d]
         /\ LET y == conn'[c]
                x == u.x
            IN  /\ y \in Object
                /\ y.stage \in {"live", "released"}
                /\ y.at = x.at /\ y.complete = x.complete /\ y.req = x.req
                /\ y.code = x.code /\ y.file = x.file /\ y.completed = x.completed
                /\ y.writes = x.writes /\ y.skip = x.skip /\ y.reading = x.reading
                /\ y.open => x.open
<1> DEFINE y == Released(u.x, u.tasks)
<1>1. u.x \in Object /\ Sound(u.x) /\ u.x.stage = "live"
  BY ObjectOfGood
<1>2. /\ y \in Object
      /\ y.stage \in {"live", "released"}
      /\ y.at = u.x.at /\ y.complete = u.x.complete /\ y.req = u.x.req
      /\ y.code = u.x.code /\ y.file = u.x.file /\ y.completed = u.x.completed
      /\ y.writes = u.x.writes /\ y.skip = u.x.skip /\ y.reading = u.x.reading
      /\ y.open => u.x.open
  BY <1>1, ReleasedIs
<1>3. conn \in [Conns -> Object] /\ answers \in [Conns -> Seq(Answer)]
  BY DEF Served, TypeOK
<1>4. conn' = [conn EXCEPT ![c] = y] /\ answers' = [answers EXCEPT ![c] = @ \o u.out]
  BY DEF Left
<1>5. c \in DOMAIN client /\ client[c] \in Peer
  BY DEF Served, TypeOK, Objects, Placed
<1> HIDE DEF y
<1>6. conn'[c] = y /\ \A d \in Conns : d # c => conn'[d] = conn[d]
  BY <1>3, <1>4
<1>7. answers'[c] = answers[c] \o u.out /\ \A d \in Conns : d # c => answers'[d] = answers[d]
  BY <1>3, <1>4
<1>8. conn' \in [Conns -> Object]
  BY <1>2, <1>3, <1>4
<1> QED
  BY <1>2, <1>3, <1>5, <1>6, <1>7, <1>8

(* A read of the m tokens leaves p2 of the peer p.                         *)
Brings(p, p2, m, tokens) ==
  /\ p2.past = p.past /\ p2.whole = p.whole /\ p2.gone = p.gone
  /\ m \in 1 .. Len(p.inbound) /\ tokens \in Seq(Token) /\ Len(tokens) = m
  /\ \A i \in 1 .. m : tokens[i] = p.inbound[i]
  /\ Len(p2.inbound) = Len(p.inbound) - m
  /\ \A i \in 1 .. Len(p2.inbound) : p2.inbound[i] = p.inbound[m + i]

(* What is left of the request then.                                       *)
LEMMA RestShrinks ==
  ASSUME NEW p \in Peer, NEW p2 \in Peer, NEW m, NEW tokens, Brings(p, p2, m, tokens),
         NEW q, NEW k \in 0 .. 2, Rest(p, q, k)
  PROVE  /\ m \in 1 .. 3 - k /\ k + m \in 1 .. 3 /\ Rest(p2, q, k + m)
         /\ \A i \in 1 .. m : tokens[i] = Tokens(q)[k + i]
<1> DEFINE l == Len(p.inbound)
           l2 == Len(p2.inbound)
<1>0. /\ p2.whole = p.whole /\ m \in 1 .. l /\ l2 = l - m
      /\ \A i \in 1 .. m : tokens[i] = p.inbound[i]
      /\ \A i \in 1 .. l2 : p2.inbound[i] = p.inbound[m + i]
  BY DEF Brings
<1>1. /\ p.inbound \in Seq(Token) /\ p2.inbound \in Seq(Token)
      /\ p.whole \in BOOLEAN
  BY DEF Peer
<1>2. l \in Nat /\ l2 \in Nat /\ DOMAIN p.inbound = 1 .. l /\ DOMAIN p2.inbound = 1 .. l2
  BY <1>1
<1>3. \A i \in 1 .. l : p.inbound[i] = Tokens(q)[k + i]
  BY <1>2 DEF Rest
<1>4. l <= 3 - k
  BY DEF Rest
<1>5. p.whole => k + l = 3
  BY DEF Rest
<1>6. m \in 1 .. l /\ l2 = l - m
  BY <1>0
<1> HIDE DEF l, l2
<1>7. m \in 1 .. 3 - k /\ k + m \in 1 .. 3 /\ l2 <= 3 - (k + m)
  BY <1>2, <1>4, <1>6
<1>8. p2.whole => (k + m) + l2 = 3
  BY <1>0, <1>2, <1>5, <1>6
<1>9. \A i \in 1 .. m : tokens[i] = Tokens(q)[k + i]
  <2> SUFFICES ASSUME NEW i \in 1 .. m PROVE tokens[i] = Tokens(q)[k + i]
    OBVIOUS
  <2>1. i \in 1 .. l
    BY <1>2, <1>6
  <2> QED BY <1>0, <1>3, <2>1
<1>10. \A i \in 1 .. l2 : p2.inbound[i] = Tokens(q)[(k + m) + i]
  <2> SUFFICES ASSUME NEW i \in 1 .. l2 PROVE p2.inbound[i] = Tokens(q)[(k + m) + i]
    OBVIOUS
  <2>1. m + i \in 1 .. l /\ k + (m + i) = (k + m) + i
    BY <1>2, <1>6
  <2>2. p2.inbound[i] = p.inbound[m + i]
    BY <1>0 DEF l2
  <2>3. p.inbound[m + i] = Tokens(q)[k + (m + i)]
    BY <1>3, <2>1
  <2> QED BY <2>1, <2>2, <2>3
<1>11. Rest(p2, q, k + m)
  BY <1>2, <1>7, <1>8, <1>10 DEF Rest, l2
<1> QED
  BY <1>7, <1>9, <1>11

(* Where the parser stands when the tokens q has left are still to come.   *)
Due(x, p, q) ==
  \/ Idle(x) /\ x.writes = <<>> /\ Rest(p, q, 0)
  \/ AfterUrl(x, q) /\ Rest(p, q, 1)
  \/ AfterHeader(x, q) /\ Rest(p, q, 2)
  \/ Idle(x) /\ x.writes = <<>> /\ Rest(p, q, 2)

(* A read that brings m tokens takes the exchange further.                 *)
LEMMA ReadExchange ==
  ASSUME NEW s, NEW c, NEW w, NEW g, NEW T, Good(s, c, w, g, T), NEW lost,
         ~s.x.reading, s.out = <<>>, ~s.threw,
         NEW past \in Seq(Request), NEW n \in 1 .. Len(past), n = Len(past),
         s.x.skip => HeadAmong(past, n),
         NEW p \in Peer, NEW p2 \in Peer, p.past = past,
         NEW m, NEW tokens, Brings(p, p2, m, tokens),
         lost = "write" => p2.gone, Due(s.x, p, past[n]),
         NEW A \in Seq(Answer), Len(A) + 1 = n,
         \A i \in DOMAIN A : i <= n /\ Right(A[i], past, i),
         NEW y, Ended(feed(s, tokens, lost), y)
  PROVE  Exchange(y, p2, A \o feed(s, tokens, lost).out)
<1> DEFINE q == past[n]
           t == feed(s, tokens, lost)
           Goal == Exchange(y, p2, A \o t.out)
<1> SUFFICES Goal
  OBVIOUS
<1>0. p2.past = past /\ tokens \in Seq(Token) /\ Len(tokens) = m
  BY DEF Brings
<1>1. ASSUME NEW k \in 1 .. 3, Phase(t, past, n, lost, k), Rest(p2, q, k)
      PROVE  Goal
  <2>1. Ended(t, y)
    OBVIOUS
  <2> HIDE DEF t
  <2> QED BY <1>0, <1>1, <2>1, PhaseEnds
<1> HIDE DEF q, Goal, t
<1>2. \A k \in 0 .. 2 :
        Rest(p, q, k) => /\ m \in 1 .. 3 - k /\ k + m \in 1 .. 3 /\ Rest(p2, q, k + m)
                         /\ \A i \in 1 .. m : tokens[i] = Tokens(q)[k + i]
  <2> SUFFICES ASSUME NEW k \in 0 .. 2, Rest(p, q, k)
               PROVE  /\ m \in 1 .. 3 - k /\ k + m \in 1 .. 3 /\ Rest(p2, q, k + m)
                      /\ \A i \in 1 .. m : tokens[i] = Tokens(q)[k + i]
    OBVIOUS
  <2> QED BY RestShrinks
<1>3. ASSUME NEW k \in 0 .. 2, Rest(p, q, k), Phase(s, past, n, lost, k), ~s.x.complete
      PROVE  Goal
  <2>1. /\ m \in 1 .. 3 - k /\ k + m \in 1 .. 3 /\ Rest(p2, q, k + m)
        /\ \A i \in 1 .. m : tokens[i] = Tokens(q)[k + i]
    BY <1>2, <1>3
  <2>2. Phase(feed(s, tokens, lost), past, n, lost, k + m)
    BY <1>0, <1>3, <2>1, PhaseFed DEF q
  <2> DEFINE j == k + m
  <2>3. j \in 1 .. 3 /\ Phase(t, past, n, lost, j) /\ Rest(p2, q, j)
    BY <2>1, <2>2 DEF t
  <2> HIDE DEF j
  <2> QED BY <1>1, <2>3
<1>4. 0 \in 0 .. 2 /\ 1 \in 0 .. 2 /\ 2 \in 0 .. 2 /\ 3 \in 1 .. 3
  OBVIOUS
<1>5. CASE Idle(s.x) /\ s.x.writes = <<>> /\ Rest(p, q, 0)
  <2>1. Phase(s, past, n, lost, 0) /\ ~s.x.complete
    BY <1>5 DEF Phase, Idle, Fresh
  <2> QED BY <1>3, <1>4, <1>5, <2>1
<1>6. CASE AfterUrl(s.x, q) /\ Rest(p, q, 1)
  <2>1. Phase(s, past, n, lost, 1) /\ ~s.x.complete
    BY <1>6 DEF Phase, AfterUrl, Fresh, q
  <2> QED BY <1>3, <1>4, <1>6, <2>1
<1>7. CASE AfterHeader(s.x, q) /\ Rest(p, q, 2)
  <2>1. Phase(s, past, n, lost, 2) /\ ~s.x.complete
    BY <1>7 DEF Phase, AfterHeader, Fresh, q
  <2> QED BY <1>3, <1>4, <1>7, <2>1
<1>8. CASE Idle(s.x) /\ s.x.writes = <<>> /\ Rest(p, q, 2)
  <2>1. Phase(s, past, n, lost, 0) /\ ~s.x.complete
    BY <1>8 DEF Phase, Idle, Fresh
  <2>2. m \in 1 .. 3 - 2 /\ Rest(p2, q, 2 + m)
        /\ \A i \in 1 .. m : tokens[i] = Tokens(q)[2 + i]
    BY <1>2, <1>4, <1>8
  <2>3. m = 1
    BY <2>2
  <2>4. Rest(p2, q, 3) /\ tokens[1] = Tokens(q)[3]
    BY <2>2, <2>3
  <2>5. Phase(t, past, n, lost, 3)
    BY <1>0, <2>1, <2>3, <2>4, EndFed DEF q, t
  <2> QED BY <1>1, <1>4, <2>4, <2>5
<1> QED
  BY <1>5, <1>6, <1>7, <1>8 DEF Due, q

(* The exchange goes on rightly through a read,                            *)
LEMMA ReadDoneExchange ==
  ASSUME Exchanging, NEW c \in Conns, ReadDone(c)
  PROVE  Exchanges'
<1> DEFINE x == conn[c]
           p == client[c]
           A == answers[c]
           n == Len(p.past)
           q == p.past[n]
           w == x.worker
           T == timer[w].tasks
<1>1. Served /\ x.reading /\ x.stage = "live" /\ c \in DOMAIN client
  BY ReadersAreLive DEF Exchanging, ReadDone
<1>2. PICK m \in 1 .. Len(p.inbound), lost \in Losses(c) :
        /\ \E h \in {Received(c, m, lost)} : Leave(c, ReadCompleted(h))
        /\ client' = [client EXCEPT ![c].inbound = SubSeq(@, m + 1, Len(@))]
  BY DEF ReadDone
<1> DEFINE tokens == SubSeq(p.inbound, 1, m)
           rest == SubSeq(p.inbound, m + 1, Len(p.inbound))
           p2 == [p EXCEPT !.inbound = rest]
           s == [System(c) EXCEPT !.x.reading = FALSE]
           t == feed(s, tokens, lost)
<1>3. PICK u : u = ReadCompleted(t) /\ Left(c, u)
  <2>1. Received(c, m, lost) = t
    BY DEF Received
  <2> HIDE DEF t
  <2> QED BY <1>2, <2>1 DEF Leave, Left
<1>4. /\ tokens \in Seq(Token) /\ Len(tokens) = m /\ \A i \in 1 .. m : tokens[i] = p.inbound[i]
      /\ rest \in Seq(Token) /\ Len(rest) = Len(p.inbound) - m
      /\ \A i \in 1 .. Len(rest) : rest[i] = p.inbound[m + i]
      /\ p2 \in Peer /\ Len(p.inbound) <= 3
  BY <1>1, InboundShrinks
<1>5. p \in Peer /\ x \in Object
  BY <1>1 DEF Served, TypeOK
<1>6. p.inbound \in Seq(Token) /\ p.past \in Seq(Request) /\ p.inbound # <<>>
  BY <1>5 DEF Peer
<1>7. n \in Nat
  BY <1>6
<1> HIDE DEF tokens, rest
<1>8. p2.inbound = rest /\ p2.past = p.past /\ p2.whole = p.whole /\ p2.gone = p.gone
  BY <1>5 DEF Peer
<1>9. client'[c] = p2 /\ DOMAIN client' = DOMAIN client
      /\ \A d \in DOMAIN client : d # c => client'[d] = client[d]
  BY <1>1, <1>2 DEF rest
<1> HIDE DEF p2
<1>10. Good(System(c), c, w, "live", T) /\ System(c).x = x /\ System(c).out = <<>>
       /\ ~System(c).threw
  BY <1>1, SystemGood
<1>11. Good(s, c, w, "live", T) /\ s.x = [x EXCEPT !.reading = FALSE] /\ s.out = <<>> /\ ~s.threw
  BY <1>10, ReadingSet
<1>12. /\ Good(t, c, w, "live", T) /\ Good(u, c, w, "live", T) /\ Settled(t, u)
       /\ u.x.reading => t.x.reading \/ (~t.threw /\ t.x.at # "error" /\ ~t.x.closeAfter)
  BY <1>3, <1>4, <1>10, ReadEnds
<1>13. /\ Left(c, u) /\ x.stage \in {"posted", "live"} /\ Served
       /\ Good(u, c, conn[c].worker, "live", timer[conn[c].worker].tasks)
  <2> HIDE DEF t, s
  <2> QED BY <1>1, <1>3, <1>12
<1>14. /\ A \in Seq(Answer) /\ answers'[c] = A \o u.out
       /\ conn' \in [Conns -> Object]
       /\ \A d \in Conns : d # c => conn'[d] = conn[d] /\ answers'[d] = answers[d]
       /\ conn'[c].stage \in {"live", "released"}
       /\ conn'[c].at = u.x.at /\ conn'[c].complete = u.x.complete /\ conn'[c].req = u.x.req
       /\ conn'[c].code = u.x.code /\ conn'[c].file = u.x.file
       /\ conn'[c].completed = u.x.completed /\ conn'[c].writes = u.x.writes
       /\ conn'[c].skip = u.x.skip /\ conn'[c].reading = u.x.reading
  <2> HIDE DEF t, s, w, T
  <2>1. conn[c].stage \in {"posted", "live"}
    BY <1>13
  <2> QED BY <1>13, <2>1, LeftIs, ZenonT(30)
<1>15. /\ s.x.at = x.at /\ s.x.complete = x.complete /\ s.x.req = x.req
       /\ s.x.code = x.code /\ s.x.file = x.file /\ s.x.completed = x.completed
       /\ s.x.writes = x.writes /\ s.x.skip = x.skip /\ ~s.x.reading
  BY <1>5, <1>11 DEF Object
<1> HIDE DEF s, w, T
<1>16. Exchange(x, p, A)
  BY <1>1 DEF Exchanging, Exchanges
<1>17. Len(A) + 1 = n /\ Asked(x, p, n) /\ (x.skip => HeadAmong(p.past, n))
       /\ \A i \in DOMAIN A : i <= n /\ Right(A[i], p.past, i)
  BY <1>1, <1>6, <1>16 DEF Exchange, Dead
<1>18. Len(A) \in Nat /\ n \in 1 .. n
  <2>1. Len(A) \in Nat
    BY <1>14
  <2> HIDE DEF n, A
  <2> QED BY <1>7, <1>17, <2>1
<1>19. Due(x, p, q)
  BY <1>1, <1>6, <1>17 DEF Asked, Dead, Broken, Answering, Due
<1>20. Due(s.x, p, q)
  <2>1. /\ Idle(x) => Idle(s.x)
        /\ AfterUrl(x, q) => AfterUrl(s.x, q)
        /\ AfterHeader(x, q) => AfterHeader(s.x, q)
        /\ s.x.writes = x.writes
    BY <1>15 DEF Idle, AfterUrl, AfterHeader, Fresh, Routed
  <2> HIDE DEF x, p, q
  <2> QED BY <1>19, <2>1 DEF Due
<1>21. lost = "write" => p2.gone
  BY <1>8 DEF Losses
<1> HIDE DEF t
<1>22. u.x.reading => t.x.reading \/ (~t.threw /\ t.x.at # "error" /\ ~t.x.closeAfter)
  BY <1>12
<1>23. Ended(t, conn'[c])
  BY <1>12, <1>14, <1>22 DEF Ended, Settled
<1>24. Ended(feed(s, tokens, lost), conn'[c])
  BY <1>23 DEF t
<1>25. Brings(p, p2, m, tokens) /\ p2 \in Peer
  BY <1>4, <1>8 DEF Brings
<1>26. Good(s, c, w, "live", T) /\ (s.x.skip => HeadAmong(p.past, n)) /\ n = Len(p.past)
       /\ n \in 1 .. Len(p.past)
  BY <1>11, <1>15, <1>17, <1>18
<1>28. PICK y : y = conn'[c]
  OBVIOUS
<1> HIDE DEF n, p, A, x, q
<1>29. Exchange(y, p2, A \o feed(s, tokens, lost).out)
  <2> DEFINE past == p.past
  <2>1. Due(s.x, p, past[n]) /\ past \in Seq(Request) /\ n \in 1 .. Len(past)
        /\ n = Len(past) /\ p.past = past /\ (s.x.skip => HeadAmong(past, n))
        /\ \A i \in DOMAIN A : i <= n /\ Right(A[i], past, i)
    BY <1>6, <1>17, <1>20, <1>26 DEF q
  <2> HIDE DEF past
  <2>2. Ended(feed(s, tokens, lost), y) /\ A \in Seq(Answer) /\ Len(A) + 1 = n
    BY <1>14, <1>17, <1>24, <1>28
  <2>3. p \in Peer /\ p2 \in Peer
    BY <1>4, <1>5
  <2> QED
    BY <1>11, <1>15, <1>21, <1>25, <1>26, <2>1, <2>2, <2>3, ReadExchange
<1>30. answers'[c] = A \o feed(s, tokens, lost).out
  BY <1>12, <1>14 DEF Settled, t
<1>31. Exchange(conn'[c], client'[c], answers'[c])
  BY <1>9, <1>28, <1>29, <1>30
<1> QED
  BY <1>1, <1>9, <1>14, <1>31, OthersExchange

-----------------------------------------------------------------------------
(***************************************************************************)
(* The other steps.  First what each does to an exchange: x is the object  *)
(* before it and y after it, p the peer, A the answers it has.             *)
(***************************************************************************)
On(y) == y.stage \in {"live", "released"}

(* The first read begins.                                                  *)
LEMMA ExchangeBegins ==
  ASSUME NEW x, NEW y, NEW p \in Peer, NEW A \in Seq(Answer), Exchange(x, p, A),
         x.stage = "posted", x.open, x.at = "start", x.writes = <<>>,
         Idle(y), y.writes = <<>>, ~y.skip, On(y)
  PROVE  Exchange(y, p, A)
<1> DEFINE n == Len(p.past)
<1>1. /\ \A i \in DOMAIN A : i <= n /\ Right(A[i], p.past, i)
      /\ \/ Len(A) = n /\ (Dead(x) \/ (Idle(x) /\ Interims(x) /\ p.inbound = <<>>))
         \/ Len(A) + 1 = n /\ Asked(x, p, n)
  BY DEF Exchange
<1>2. ~Dead(x) /\ Interims(y) /\ y.at # "error" /\ y.stage \notin {"none", "waiting"}
  BY DEF Dead, Interims, Idle, On
<1>3. ~Final(x, p.past, n)
  BY DEF Final
<1>4. Asked(x, p, n) => Asked(y, p, n)
  BY <1>2, <1>3 DEF Asked, Broken, AfterUrl, AfterHeader, Answering
<1> QED
  BY <1>1, <1>2, <1>4 DEF Exchange

(* Nothing is read any more.                                               *)
LEMMA ExchangeMuted ==
  ASSUME NEW x, NEW y, NEW p \in Peer, NEW A \in Seq(Answer), Exchange(x, p, A),
         On(x), On(y), ~y.reading, y.writes = x.writes, y.skip = x.skip
  PROVE  Exchange(y, p, A)
<1> DEFINE n == Len(p.past)
<1>1. /\ \A i \in DOMAIN A : i <= n /\ Right(A[i], p.past, i)
      /\ x.skip => HeadAmong(p.past, n)
      /\ \/ Len(A) = n /\ (Dead(x) \/ (Idle(x) /\ Interims(x) /\ p.inbound = <<>>))
         \/ Len(A) + 1 = n /\ Asked(x, p, n)
  BY DEF Exchange
<1>2. Interims(x) => Dead(y)
  BY DEF Interims, Dead, On
<1>3. /\ x.writes = <<>> => Interims(x)
      /\ x.writes = <<Interim>> => Interims(x)
  BY DEF Interims, Interim
<1>4. Asked(x, p, n) => Interims(x) \/ Final(x, p.past, n)
  BY <1>3 DEF Asked, Dead, Broken, AfterUrl, AfterHeader, Answering
<1>5. Final(x, p.past, n) => Answering(y, p, n)
  BY DEF Final, Answering
<1>6. Asked(x, p, n) => Asked(y, p, n)
  BY <1>2, <1>4, <1>5 DEF Asked
<1>7. Dead(x) \/ (Idle(x) /\ Interims(x) /\ p.inbound = <<>>) => Dead(y)
  BY <1>2 DEF Dead
<1>8. y.stage \notin {"none", "waiting"}
  BY DEF On
<1> QED
  BY <1>1, <1>6, <1>7, <1>8 DEF Exchange

(* The first of what is written has gone out, as o, or is given up.        *)
LEMMA ExchangeWrites ==
  ASSUME NEW x \in Object, NEW y, NEW p \in Peer, NEW A \in Seq(Answer), Exchange(x, p, A),
         x.writes # <<>>, On(x), On(y), Fresh(y), y.writes = Tail(x.writes),
         y.at = (IF x.at = "error" THEN "error" ELSE "start"),
         y.reading = x.reading, y.skip = x.skip, y.open => x.open,
         NEW o, \/ o = (IF Head(x.writes).code = 100 THEN <<>> ELSE <<Head(x.writes)>>)
                \/ o = <<>> /\ (p.gone \/ ~x.open)
  PROVE  Exchange(y, p, A \o o)
<1> DEFINE n == Len(p.past)
<1>1. /\ x.at = "error" => ~x.reading
      /\ \A i \in DOMAIN A : i <= n /\ Right(A[i], p.past, i)
      /\ x.skip => HeadAmong(p.past, n)
      /\ \/ Len(A) = n /\ (Dead(x) \/ (Idle(x) /\ Interims(x) /\ p.inbound = <<>>))
         \/ Len(A) + 1 = n /\ Asked(x, p, n)
  BY DEF Exchange
<1>2. /\ y.at = "error" => ~y.reading
      /\ y.stage \notin {"none", "waiting"}
      /\ y.skip => HeadAmong(p.past, n)
  BY <1>1 DEF On
<1>3. ASSUME Interims(x)
      PROVE  o = <<>> /\ Interims(y)
  <2>1. x.writes \in Seq(Answer)
    BY DEF Object
  <2> DEFINE l == x.writes
  <2>2. l \in Seq(Answer) /\ l # <<>>
    BY <2>1
  <2>3. \A i \in DOMAIN l : l[i].code = 100
    BY <1>3 DEF Interims
  <2> HIDE DEF l
  <2>4. 1 \in DOMAIN l /\ Head(l) = l[1] /\ Len(l) \in Nat /\ DOMAIN l = 1 .. Len(l)
    BY <2>2
  <2>5. DOMAIN Tail(l) = 1 .. Len(l) - 1 /\ \A i \in 1 .. Len(l) - 1 : Tail(l)[i] = l[i + 1]
    BY <2>2
  <2>6. Head(l).code = 100
    BY <2>3, <2>4
  <2>7. \A i \in DOMAIN Tail(l) : Tail(l)[i].code = 100
    BY <2>3, <2>4, <2>5
  <2> QED BY <2>6, <2>7 DEF l, Interims
<1>4. A \o <<>> = A
  BY NoneMore
<1>5. CASE Len(A) = n
  <2>1. Interims(x) /\ (Dead(x) \/ (Idle(x) /\ p.inbound = <<>>))
    BY <1>1, <1>5 DEF Dead
  <2>2. Dead(y) \/ (Idle(y) /\ Interims(y) /\ p.inbound = <<>>)
    BY <1>3, <2>1 DEF Dead, Idle, On
  <2>3. A \o o = A
    BY <1>3, <1>4, <2>1
  <2> QED BY <1>1, <1>2, <1>5, <2>2, <2>3 DEF Exchange
<1>6. ASSUME Len(A) + 1 = n, Interims(x), Asked(y, p, n)
      PROVE  Exchange(y, p, A \o o)
  <2>1. A \o o = A
    BY <1>3, <1>4, <1>6
  <2> QED BY <1>1, <1>2, <1>6, <2>1 DEF Exchange
<1>7. CASE Len(A) + 1 = n /\ (Dead(x) \/ Broken(x, p))
  <2>1. Interims(x)
    BY <1>7 DEF Dead, Broken
  <2>2. Dead(y) \/ Broken(y, p)
    BY <1>3, <1>7, <2>1 DEF Dead, Broken, On
  <2> QED BY <1>6, <1>7, <2>1, <2>2 DEF Asked
<1>8. CASE Len(A) + 1 = n /\ AfterHeader(x, p.past[n]) /\ Rest(p, p.past[n], 2)
  <2>1. x.writes = <<Interim>>
    BY <1>8 DEF AfterHeader
  <2>2. Interims(x) /\ Tail(x.writes) = <<>>
    BY <2>1 DEF Interims, Interim
  <2>3. Idle(y)
    BY <1>8 DEF AfterHeader, Idle
  <2> QED BY <1>6, <1>8, <2>2, <2>3 DEF Asked
<1>9. CASE Len(A) + 1 = n /\ Answering(x, p, n)
  <2>1. PICK r \in Answer : /\ x.writes = <<r>> \/ x.writes = <<Interim, r>>
                            /\ r.code # 100 /\ Right(r, p.past, n)
    BY <1>9 DEF Answering, Final
  <2>2. CASE x.writes = <<Interim, r>>
    <3>1. Head(x.writes) = Interim /\ Tail(x.writes) = <<r>>
      BY <2>2
    <3>2. o = <<>>
      BY <3>1 DEF Interim
    <3>3. Answering(y, p, n)
      BY <1>9, <2>1, <3>1 DEF Answering, Final
    <3> QED BY <1>1, <1>2, <1>4, <1>9, <3>2, <3>3 DEF Exchange, Asked
  <2>3. CASE x.writes = <<r>>
    <3>1. Head(x.writes) = r /\ Tail(x.writes) = <<>>
      BY <2>3
    <3>2. Interims(y)
      BY <3>1 DEF Interims
    <3>3. x.reading => p.inbound = <<>> /\ x.at # "error"
      BY <1>1, <1>9 DEF Answering
    <3>4. CASE o = <<r>>
      <4>1. Len(A) \in Nat
        OBVIOUS
      <4>2. Len(A \o o) = n
            /\ \A i \in DOMAIN (A \o o) : i <= n /\ Right((A \o o)[i], p.past, i)
        BY <1>1, <1>9, <2>1, <3>4, OneMore
      <4>3. Dead(y) \/ (Idle(y) /\ Interims(y) /\ p.inbound = <<>>)
        BY <3>2, <3>3 DEF Dead, Idle, On
      <4> QED BY <1>2, <4>2, <4>3 DEF Exchange
    <3>5. CASE o = <<>> /\ (p.gone \/ ~x.open)
      <4>1. Dead(y) \/ Broken(y, p)
        BY <3>2, <3>3, <3>5 DEF Dead, Broken, On
      <4> QED BY <1>1, <1>2, <1>4, <1>9, <3>5, <4>1 DEF Exchange, Asked
    <3> QED BY <2>1, <3>1, <3>4, <3>5
  <2> QED BY <2>1, <2>2, <2>3
<1> QED
  BY <1>1, <1>5, <1>7, <1>8, <1>9 DEF Asked, AfterUrl

(* A socket is closed.                                                     *)
LEMMA ExchangeCloses ==
  ASSUME NEW x \in Object, NEW p \in Peer, NEW A \in Seq(Answer), Exchange(x, p, A)
  PROVE  Exchange([x EXCEPT !.open = FALSE], p, A)
<1> DEFINE n == Len(p.past)
           q == p.past[n]
           y == [x EXCEPT !.open = FALSE]
<1>1. /\ y.at = x.at /\ y.reading = x.reading /\ y.stage = x.stage /\ y.skip = x.skip
      /\ y.writes = x.writes /\ y.complete = x.complete /\ y.completed = x.completed
      /\ y.file = x.file /\ y.code = x.code /\ y.req = x.req /\ ~y.open
  BY DEF Object
<1> HIDE DEF y
<1>2. /\ Dead(x) => Dead(y)
      /\ Idle(x) => Idle(y)
      /\ Interims(x) => Interims(y)
      /\ Broken(x, p) => Broken(y, p)
      /\ AfterUrl(x, q) => AfterUrl(y, q)
      /\ AfterHeader(x, q) => AfterHeader(y, q)
      /\ Answering(x, p, n) => Answering(y, p, n)
  BY <1>1 DEF Dead, Idle, Fresh, Interims, Broken, AfterUrl, AfterHeader, Routed, Answering, Final
<1> QED
  BY <1>1, <1>2 DEF Exchange, Asked, y

(* A client that has all its answers asks again.                           *)
LEMMA ExchangeAsks ==
  ASSUME NEW x, NEW p \in Peer, NEW p2 \in Peer, NEW A \in Seq(Answer), Exchange(x, p, A),
         x.writes = <<>>, x.stage \notin {"none", "waiting"}, Len(A) = Len(p.past),
         NEW r \in Request, p2.past = Append(p.past, r),
         NEW k \in 1 .. 3, p2.whole = (k = 3), Len(p2.inbound) = k,
         \A i \in 1 .. k : p2.inbound[i] = Tokens(r)[i]
  PROVE  Exchange(x, p2, A)
<1> DEFINE n == Len(p.past)
           past == p.past
           past2 == Append(past, r)
<1>1. past \in Seq(Request) /\ p2.inbound \in Seq(Token)
  BY DEF Peer
<1>2. n \in Nat /\ Len(past2) = n + 1 /\ past2[n + 1] = r
  BY <1>1
<1>3. /\ x.at = "error" => ~x.reading
      /\ x.skip => HeadAmong(past, n)
      /\ \A i \in DOMAIN A : i <= n /\ Right(A[i], past, i)
      /\ Dead(x) \/ Idle(x)
  <2>1. Len(A) + 1 # n
    BY <1>2
  <2> QED BY <2>1 DEF Exchange
<1>4. DOMAIN A = 1 .. n
  OBVIOUS
<1> DEFINE m == n + 1
<1>5. m = Len(past2) /\ past2[m] = r /\ Len(A) + 1 = m
  BY <1>2
<1>6. x.skip => HeadAmong(past2, m)
  <2>1. ASSUME x.skip PROVE HeadAmong(past2, m)
    <3>1. PICK j \in 1 .. n : past[j].method = "HEAD"
      BY <1>3, <2>1 DEF HeadAmong
    <3>2. n \in 1 .. Len(past) /\ n = Len(past)
      BY <1>2, <3>1
    <3>3. HeadAmong(past, n)
      BY <1>3, <2>1
    <3> HIDE DEF n, past
    <3>4. HeadAmong(Append(past, r), n)
      BY <1>1, <3>2, <3>3, MoreAsked DEF past
    <3> QED BY <1>2, <3>4, MoreHeads
  <2> QED BY <2>1
<1>7. ASSUME NEW i \in DOMAIN A PROVE i <= m /\ Right(A[i], past2, i)
  <2>1. i \in 1 .. n /\ i \in 1 .. Len(past) /\ i <= m
    BY <1>2, <1>4
  <2>2. Right(A[i], past, i)
    BY <1>3
  <2> HIDE DEF past, n
  <2>3. Right(A[i], Append(past, r), i)
    BY <1>1, <2>1, <2>2, MoreAsked DEF past
  <2> QED BY <2>1, <2>3
<1>8. Rest(p2, r, 0)
  <2>1. DOMAIN p2.inbound = 1 .. k
    BY <1>1
  <2>2. k <= 3 - 0 /\ (k = 3 => 0 + k = 3) /\ \A i \in 1 .. k : 0 + i = i
    OBVIOUS
  <2>3. \A i \in 1 .. k : p2.inbound[i] = Tokens(r)[0 + i]
    BY <2>2
  <2> QED BY <2>1, <2>2, <2>3 DEF Rest
<1>9. Asked(x, p2, m)
  <2>1. p2.past[m] = r
    BY <1>5
  <2> HIDE DEF m
  <2> QED BY <1>3, <1>8, <2>1 DEF Asked
<1> HIDE DEF m
<1> QED
  BY <1>3, <1>5, <1>6, <1>7, <1>9 DEF Exchange

(* A client is gone.                                                       *)
LEMMA ExchangeEnds ==
  ASSUME NEW x, NEW p, NEW p2, NEW A, Exchange(x, p, A),
         p2.past = p.past, p2.inbound = p.inbound, p2.whole = p.whole, p.gone => p2.gone
  PROVE  Exchange(x, p2, A)
<1> DEFINE n == Len(p.past)
           q == p.past[n]
<1>1. \A k : Rest(p, q, k) => Rest(p2, q, k)
  BY DEF Rest
<1>2. Broken(x, p) => Broken(x, p2)
  BY DEF Broken
<1>3. Answering(x, p, n) => Answering(x, p2, n)
  BY DEF Answering
<1>4. Asked(x, p, n) => Asked(x, p2, n)
  BY <1>1, <1>2, <1>3 DEF Asked
<1> QED
  BY <1>4 DEF Exchange

-----------------------------------------------------------------------------
(* The steps.                                                              *)
LEMMA StartExchange ==
  ASSUME Exchanging, NEW c \in Conns, start(c)
  PROVE  Exchanges'
<1>1. conn[c].stage = "posted" /\ Leave(c, Begun(c)) /\ UNCHANGED client /\ Served
  BY DEF start, Begun, Exchanging
<1>2. PICK u : u = Begun(c) /\ Left(c, u)
  BY <1>1 DEF Leave, Left
<1>3. /\ Good(u, c, conn[c].worker, "live", timer[conn[c].worker].tasks) /\ u.out = <<>>
      /\ u.x.at = "start" /\ u.x.writes = <<>> /\ ~u.x.skip /\ Idle(u.x)
  BY <1>1, <1>2, BeginEnds DEF Idle, Fresh
<1>4. /\ c \in DOMAIN client /\ client[c] \in Peer /\ answers[c] \in Seq(Answer)
      /\ answers'[c] = answers[c] \o u.out
      /\ conn' \in [Conns -> Object]
      /\ \A d \in Conns : d # c => conn'[d] = conn[d] /\ answers'[d] = answers[d]
      /\ On(conn'[c])
      /\ conn'[c].at = u.x.at /\ conn'[c].complete = u.x.complete
      /\ conn'[c].code = u.x.code /\ conn'[c].file = u.x.file
      /\ conn'[c].completed = u.x.completed /\ conn'[c].writes = u.x.writes
      /\ conn'[c].skip = u.x.skip
  <2>1. conn[c].stage \in {"posted", "live"}
    BY <1>1
  <2> QED BY <1>1, <1>2, <1>3, <2>1, LeftIs, ZenonT(30) DEF On
<1>5. Idle(conn'[c]) /\ conn'[c].writes = <<>> /\ ~conn'[c].skip
  BY <1>3, <1>4 DEF Idle, Fresh
<1>6. conn[c].open /\ conn[c].at = "start" /\ conn[c].writes = <<>>
  <2> DEFINE g == "posted"
  <2>1. conn[c] = [New(c, conn[c].worker) EXCEPT !.stage = g]
    BY <1>1 DEF Served, Objects, Placed
  <2> HIDE DEF g
  <2> QED BY <2>1 DEF New
<1>7. Exchange(conn[c], client[c], answers[c])
  BY <1>4 DEF Exchanging, Exchanges
<1>8. answers'[c] = answers[c]
  BY <1>3, <1>4, NoneMore
<1>9. PICK x, y : x = conn[c] /\ y = conn'[c]
  OBVIOUS
<1>10. Exchange(y, client[c], answers[c])
  BY <1>1, <1>4, <1>5, <1>6, <1>7, <1>9, ExchangeBegins
<1> QED
  BY <1>1, <1>4, <1>8, <1>9, <1>10, OthersExchange

(* a read that fails,                                                      *)
LEMMA ReadErrorExchange ==
  ASSUME Exchanging, NEW c \in Conns, ReadError(c)
  PROVE  Exchanges'
<1>1. conn[c].reading /\ Leave(c, ReadFailed(System(c))) /\ UNCHANGED client /\ Served
  BY DEF ReadError, Exchanging
<1>2. conn[c].stage = "live"
  BY <1>1, ReadersAreLive
<1>3. PICK u : u = ReadFailed(System(c)) /\ Left(c, u)
  BY <1>1 DEF Leave, Left
<1>4. /\ Good(System(c), c, conn[c].worker, "live", timer[conn[c].worker].tasks)
      /\ System(c).x = conn[c] /\ System(c).out = <<>>
  BY <1>1, <1>2, SystemGood
<1>5. /\ Good(u, c, conn[c].worker, "live", timer[conn[c].worker].tasks)
      /\ ~u.x.reading /\ u.out = <<>> /\ u.x.writes = conn[c].writes
      /\ u.x.skip = conn[c].skip
  BY <1>3, <1>4, ReadFails
<1>6. /\ c \in DOMAIN client /\ client[c] \in Peer /\ answers[c] \in Seq(Answer)
      /\ answers'[c] = answers[c] \o u.out
      /\ conn' \in [Conns -> Object]
      /\ \A d \in Conns : d # c => conn'[d] = conn[d] /\ answers'[d] = answers[d]
      /\ On(conn'[c]) /\ conn'[c].writes = u.x.writes
      /\ conn'[c].skip = u.x.skip /\ conn'[c].reading = u.x.reading
  <2>1. conn[c].stage \in {"posted", "live"}
    BY <1>2
  <2> QED BY <1>1, <1>3, <1>5, <2>1, LeftIs, ZenonT(30) DEF On
<1>7. Exchange(conn[c], client[c], answers[c])
  BY <1>6 DEF Exchanging, Exchanges
<1>8. answers'[c] = answers[c]
  BY <1>5, <1>6, NoneMore
<1>9. PICK x, y : x = conn[c] /\ y = conn'[c]
  OBVIOUS
<1>10. On(x)
  BY <1>2, <1>9 DEF On
<1>11. Exchange(y, client[c], answers[c])
  BY <1>5, <1>6, <1>7, <1>9, <1>10, ExchangeMuted
<1> QED
  BY <1>1, <1>6, <1>8, <1>9, <1>11, OthersExchange

(* a write, done or not,                                                   *)
LEMMA WriteExchange ==
  ASSUME Exchanging, NEW c \in Conns, conn[c].writes # <<>>, NEW ok,
         NEW o \in Seq(Answer), o = Brought(c) \/ (o = <<>> /\ (client[c].gone \/ ~conn[c].open)),
         NEW u, u = [WriteCompleted(System(c), ok) EXCEPT !.out = o], Left(c, u),
         UNCHANGED client
  PROVE  Exchanges'
<1>1. Served /\ conn[c].stage = "live"
  BY ReadersAreLive DEF Exchanging
<1>2. /\ Good(System(c), c, conn[c].worker, "live", timer[conn[c].worker].tasks)
      /\ System(c).x = conn[c]
  BY <1>1, SystemGood
<1> DEFINE v == WriteCompleted(System(c), ok)
<1>3. /\ Good(u, c, conn[c].worker, "live", timer[conn[c].worker].tasks)
      /\ u.x = v.x /\ u.out = o
  BY <1>1, WriteArmed
<1>4. /\ u.x.reading = conn[c].reading /\ u.x.skip = conn[c].skip
      /\ u.x.open => conn[c].open
      /\ u.x.writes = Tail(conn[c].writes)
      /\ ~u.x.complete /\ ~u.x.completed /\ ~u.x.file /\ u.x.code = 200
      /\ u.x.at = IF conn[c].at = "error" THEN "error" ELSE "start"
  BY <1>2, <1>3, WriteEnds
<1> HIDE DEF v
<1>5. /\ c \in DOMAIN client /\ client[c] \in Peer /\ answers[c] \in Seq(Answer)
      /\ answers'[c] = answers[c] \o u.out
      /\ conn' \in [Conns -> Object] /\ conn[c] \in Object
      /\ \A d \in Conns : d # c => conn'[d] = conn[d] /\ answers'[d] = answers[d]
      /\ On(conn'[c])
      /\ conn'[c].at = u.x.at /\ conn'[c].complete = u.x.complete
      /\ conn'[c].code = u.x.code /\ conn'[c].file = u.x.file
      /\ conn'[c].completed = u.x.completed /\ conn'[c].writes = u.x.writes
      /\ conn'[c].skip = u.x.skip /\ conn'[c].reading = u.x.reading
      /\ conn'[c].open => u.x.open
  <2>1. conn[c].stage \in {"posted", "live"}
    BY <1>1
  <2> QED BY <1>1, <1>3, <2>1, LeftIs, ZenonT(30) DEF On
<1>6. Exchange(conn[c], client[c], answers[c])
  BY <1>5 DEF Exchanging, Exchanges
<1>7. PICK x, y, p, A : x = conn[c] /\ y = conn'[c] /\ p = client[c] /\ A = answers[c]
  OBVIOUS
<1>8. On(x) /\ Fresh(y) /\ y.writes = Tail(x.writes) /\ y.reading = x.reading
      /\ y.skip = x.skip /\ (y.open => x.open) /\ x.writes # <<>>
      /\ y.at = (IF x.at = "error" THEN "error" ELSE "start")
  BY <1>1, <1>4, <1>5, <1>7 DEF On, Fresh
<1>9. \/ o = (IF Head(x.writes).code = 100 THEN <<>> ELSE <<Head(x.writes)>>)
      \/ o = <<>> /\ (p.gone \/ ~x.open)
  BY <1>7 DEF Brought
<1>10. Exchange(y, p, A \o o)
  <2>1. x \in Object /\ p \in Peer /\ A \in Seq(Answer) /\ Exchange(x, p, A) /\ On(y)
    BY <1>5, <1>6, <1>7
  <2> QED BY <1>8, <1>9, <2>1, ExchangeWrites
<1> QED
  BY <1>3, <1>5, <1>7, <1>10, OthersExchange

(* and so the two completions of writes,                                   *)
LEMMA WritesExchange ==
  ASSUME Exchanging, NEW c \in Conns, WriteDone(c) \/ WriteError(c)
  PROVE  Exchanges'
<1>1. CASE WriteDone(c)
  <2>1. conn[c].writes # <<>> /\ UNCHANGED client
    BY <1>1, WriteDoneIs DEF Exchanging
  <2>2. PICK o : o = Brought(c)
    OBVIOUS
  <2>3. PICK u : u = [WriteCompleted(System(c), TRUE) EXCEPT !.out = o] /\ Left(c, u)
    BY <1>1, <2>2, WriteDoneIs DEF Exchanging
  <2>4. o \in Seq(Answer)
    BY <2>1, <2>2, BroughtTyped DEF Exchanging
  <2> QED BY <2>1, <2>2, <2>3, <2>4, WriteExchange
<1>2. CASE WriteError(c)
  <2>1. conn[c].writes # <<>> /\ UNCHANGED client /\ (client[c].gone \/ ~conn[c].open)
    BY <1>2, WriteErrorIs DEF Exchanging
  <2>2. PICK o : o = <<>>
    OBVIOUS
  <2>3. PICK u : u = [WriteCompleted(System(c), FALSE) EXCEPT !.out = o] /\ Left(c, u)
    BY <1>2, <2>2, WriteErrorIs DEF Exchanging
  <2>4. o \in Seq(Answer)
    BY <2>2
  <2> QED BY <2>1, <2>2, <2>3, <2>4, WriteExchange
<1> QED
  BY <1>1, <1>2

(* a new connection,                                                       *)
LEMMA AcceptExchange ==
  ASSUME Exchanging, NEW c \in Conns, Accept(c)
  PROVE  Exchanges'
<1>1. Served /\ conn \in [Conns -> Object] /\ answers \in [Conns -> Seq(Answer)]
      /\ \A d \in DOMAIN client : client[d] \in Peer
  BY DEF Exchanging, Served, TypeOK
<1>2. /\ c \in DOMAIN client /\ conn[c].stage = "waiting"
      /\ UNCHANGED <<client, answers>>
      /\ conn'[c] = [conn[c] EXCEPT !.stage = "posted"]
      /\ \A d \in Conns : d \notin {c, c + 1} => conn'[d] = conn[d]
      /\ c + 1 \in Conns => /\ conn[c + 1] = Unused
                            /\ conn'[c + 1] = New(c + 1, pick_io_service_idx(load))
  BY <1>1, AcceptIs
<1>3. ASSUME NEW x \in Object, NEW y, NEW p \in Peer, NEW A \in Seq(Answer),
             Exchange(x, p, A), x.stage \in {"none", "waiting"},
             Idle(y), y.writes = <<>>, ~y.skip
      PROVE  Exchange(y, p, A)
  <2>1. Len(p.past) = 0 /\ p.inbound = <<>> /\ ~Dead(x)
    BY <1>3 DEF Exchange, Dead
  <2>2. Len(A) = 0
    BY <1>3, <2>1 DEF Exchange
  <2>3. Interims(y) /\ y.at # "error"
    BY <1>3 DEF Interims, Idle
  <2>4. DOMAIN A = {}
    BY <2>2
  <2> QED BY <1>3, <2>1, <2>2, <2>3, <2>4 DEF Exchange
<1>4. Exchange(conn'[c], client[c], answers[c])
  <2> DEFINE g == "posted"
             y == [conn[c] EXCEPT !.stage = g]
  <2>1. Exchange(conn[c], client[c], answers[c]) /\ conn[c] \in Object
        /\ client[c] \in Peer /\ answers[c] \in Seq(Answer)
    BY <1>1, <1>2 DEF Exchanging, Exchanges
  <2>2. conn[c] = [New(c, conn[c].worker) EXCEPT !.stage = "waiting"]
    BY <1>1, <1>2 DEF Served, Objects, Placed
  <2>3. /\ conn[c].at = "start" /\ ~conn[c].complete /\ ~conn[c].completed /\ ~conn[c].file
        /\ conn[c].code = 200 /\ conn[c].writes = <<>> /\ ~conn[c].skip
    BY <2>2 DEF New
  <2>4. y.at = conn[c].at /\ y.complete = conn[c].complete /\ y.completed = conn[c].completed
        /\ y.file = conn[c].file /\ y.code = conn[c].code /\ y.writes = conn[c].writes
        /\ y.skip = conn[c].skip
    BY <2>1 DEF Object
  <2> HIDE DEF y
  <2>5. Idle(y) /\ y.writes = <<>> /\ ~y.skip
    BY <2>3, <2>4 DEF Idle, Fresh
  <2>6. Exchange(y, client[c], answers[c])
    BY <1>2, <1>3, <2>1, <2>5
  <2> QED BY <1>2, <2>6 DEF y
<1>5. ASSUME c + 1 \in Conns, c + 1 \in DOMAIN client
      PROVE  Exchange(conn'[c + 1], client[c + 1], answers[c + 1])
  <2>1. Exchange(conn[c + 1], client[c + 1], answers[c + 1]) /\ conn[c + 1] \in Object
        /\ client[c + 1] \in Peer /\ answers[c + 1] \in Seq(Answer)
    BY <1>1, <1>5 DEF Exchanging, Exchanges
  <2>2. conn[c + 1].stage = "none"
    BY <1>2, <1>5, UnusedIs
  <2> DEFINE y == New(c + 1, pick_io_service_idx(load))
  <2>3. Idle(y) /\ y.writes = <<>> /\ ~y.skip
    BY NewIs DEF Idle, Fresh
  <2> HIDE DEF y
  <2>4. Exchange(y, client[c + 1], answers[c + 1])
    BY <1>3, <2>1, <2>2, <2>3
  <2> QED BY <1>2, <1>5, <2>4 DEF y
<1> SUFFICES ASSUME NEW d \in Conns
             PROVE  IF d \in DOMAIN client' THEN Exchange(conn'[d], client'[d], answers'[d])
                                            ELSE answers'[d] = <<>>
  BY DEF Exchanges
<1>6. IF d \in DOMAIN client THEN Exchange(conn[d], client[d], answers[d])
                             ELSE answers[d] = <<>>
  BY DEF Exchanging, Exchanges
<1>7. CASE d = c
  BY <1>2, <1>4, <1>7
<1>8. CASE d = c + 1
  BY <1>2, <1>5, <1>6, <1>8
<1>9. CASE d \notin {c, c + 1}
  BY <1>2, <1>6, <1>9
<1> QED
  BY <1>7, <1>8, <1>9

(* an object made anew for a connection that was not accepted,             *)
LEMMA AcceptFailsExchange ==
  ASSUME Exchanging, NEW c \in Conns, AcceptFails(c)
  PROVE  Exchanges'
<1> DEFINE w == pick_io_service_idx([load EXCEPT ![conn[c].worker] = @ - 1])
           y == New(c, w)
<1>1. Served /\ conn \in [Conns -> Object]
  BY DEF Exchanging, Served, TypeOK
<1>2. /\ conn[c].stage = "waiting" /\ UNCHANGED <<client, answers>>
      /\ conn' = [conn EXCEPT ![c] = y]
  BY <1>1, AcceptFailsIs
<1> HIDE DEF w
<1>3. conn[c] = New(c, conn[c].worker)
  <2> DEFINE n == New(c, conn[c].worker)
  <2>1. conn[c] \in Object /\ conn[c] = [n EXCEPT !.stage = "waiting"]
    BY <1>1, <1>2 DEF Served, Objects, Placed
  <2>2. n \in Object /\ n.stage = "waiting"
    <3>1. conn[c].worker \in Workers
      BY <2>1 DEF Object
    <3> QED BY <3>1, NewTyped
  <2>3. [n EXCEPT !.stage = n.stage] = n
    BY <2>2, SameStage
  <2> HIDE DEF n
  <2> QED BY <2>1, <2>2, <2>3 DEF n
<1>4. /\ y.at = conn[c].at /\ y.complete = conn[c].complete /\ y.req = conn[c].req
      /\ y.code = conn[c].code /\ y.file = conn[c].file /\ y.completed = conn[c].completed
      /\ y.writes = conn[c].writes /\ y.skip = conn[c].skip /\ y.reading = conn[c].reading
      /\ y.stage = conn[c].stage /\ y.open = conn[c].open
      /\ y.closeAfter = conn[c].closeAfter /\ y.upgraded = conn[c].upgraded
  <2>1. ASSUME NEW k, NEW x, x = New(c, k)
        PROVE  /\ y.at = x.at /\ y.complete = x.complete /\ y.req = x.req
               /\ y.code = x.code /\ y.file = x.file /\ y.completed = x.completed
               /\ y.writes = x.writes /\ y.skip = x.skip /\ y.reading = x.reading
               /\ y.stage = x.stage /\ y.open = x.open
               /\ y.closeAfter = x.closeAfter /\ y.upgraded = x.upgraded
    BY <2>1 DEF New
  <2> HIDE DEF y
  <2> QED BY <1>3, <2>1
<1> HIDE DEF y
<1> SUFFICES ASSUME NEW d \in Conns
             PROVE  IF d \in DOMAIN client' THEN Exchange(conn'[d], client'[d], answers'[d])
                                            ELSE answers'[d] = <<>>
  BY DEF Exchanges
<1>5. IF d \in DOMAIN client THEN Exchange(conn[d], client[d], answers[d])
                             ELSE answers[d] = <<>>
  BY DEF Exchanging, Exchanges
<1>6. CASE d # c
  BY <1>1, <1>2, <1>5, <1>6
<1>7. CASE d = c
  <2>1. conn'[c] = y
    BY <1>1, <1>2
  <2>2. ASSUME Exchange(conn[c], client[c], answers[c])
        PROVE  Exchange(y, client[c], answers[c])
    BY <1>2, <1>4, <2>2 DEF Exchange, Idle, Fresh, Interims, Dead, Asked, Broken, Answering,
                            Final, AfterUrl, AfterHeader, Routed
  <2> QED BY <1>2, <1>5, <1>7, <2>1, <2>2
<1> QED
  BY <1>6, <1>7

(* a tick of the timers,                                                   *)
LEMMA TickExchange ==
  ASSUME Exchanging, NEW w \in Workers, Tick(w)
  PROVE  Exchanges'
<1>1. Served /\ conn \in [Conns -> Object] /\ answers \in [Conns -> Seq(Answer)]
      /\ \A d \in DOMAIN client : client[d] \in Peer
  BY DEF Exchanging, Served, TypeOK
<1>2. /\ UNCHANGED <<client, answers>>
      /\ \A c \in Conns :
           conn'[c] = conn[c] \/ conn'[c] = [conn[c] EXCEPT !.open = FALSE]
  BY <1>1, TickIs
<1> SUFFICES ASSUME NEW d \in Conns
             PROVE  IF d \in DOMAIN client' THEN Exchange(conn'[d], client'[d], answers'[d])
                                            ELSE answers'[d] = <<>>
  BY DEF Exchanges
<1>3. IF d \in DOMAIN client THEN Exchange(conn[d], client[d], answers[d])
                             ELSE answers[d] = <<>>
  BY DEF Exchanging, Exchanges
<1>4. CASE conn'[d] = conn[d]
  BY <1>2, <1>3, <1>4
<1>5. CASE conn'[d] = [conn[d] EXCEPT !.open = FALSE] /\ d \in DOMAIN client
  <2>1. conn[d] \in Object /\ client[d] \in Peer /\ answers[d] \in Seq(Answer)
    BY <1>1, <1>5
  <2>2. Exchange([conn[d] EXCEPT !.open = FALSE], client[d], answers[d])
    BY <1>3, <1>5, <2>1, ExchangeCloses
  <2> QED BY <1>2, <1>5, <2>2
<1> QED
  BY <1>2, <1>3, <1>4, <1>5

(* and what the client does.                                               *)
LEMMA ClientExchange ==
  ASSUME Exchanging, NEW c \in Conns, Client(c)
  PROVE  Exchanges'
<1>1. Served /\ c \in DOMAIN client
  BY AskersAreClients DEF Exchanging
<1>2. /\ Exchange(conn[c], client[c], answers[c]) /\ client[c] \in Peer
      /\ answers[c] \in Seq(Answer) /\ conn \in [Conns -> Object]
  BY <1>1 DEF Exchanging, Exchanges, Served, TypeOK
<1>3. CASE ClientAsks(c)
  <2>1. /\ conn[c].writes = <<>> /\ Len(answers[c]) = Len(client[c].past)
        /\ conn[c].stage \notin {"none", "waiting"}
        /\ UNCHANGED <<conn, answers>> /\ DOMAIN client' = DOMAIN client
        /\ \A d \in DOMAIN client : d # c => client'[d] = client[d]
    BY <1>1, <1>3, ClientAsksIs
  <2>2. PICK r \in Request, k \in 1 .. 3 :
          /\ client'[c] \in Peer
          /\ client'[c].past = Append(client[c].past, r)
          /\ client'[c].whole = (k = 3) /\ Len(client'[c].inbound) = k
          /\ \A i \in 1 .. k : client'[c].inbound[i] = Tokens(r)[i]
    BY <1>1, <1>3, ClientAsksIs
  <2>3. PICK p2 : p2 = client'[c]
    OBVIOUS
  <2>4. Exchange(conn[c], p2, answers[c])
    BY <1>2, <2>1, <2>2, <2>3, ExchangeAsks
  <2> QED BY <1>1, <1>2, <2>1, <2>3, <2>4, OthersExchange
<1>5. CASE ClientStalls(c)
  <2>1. /\ UNCHANGED <<conn, answers>> /\ DOMAIN client' = DOMAIN client
        /\ \A d \in DOMAIN client : d # c => client'[d] = client[d]
        /\ client'[c].gone = client[c].gone /\ client'[c].whole = client[c].whole
        /\ client'[c].past = client[c].past /\ client'[c].inbound = client[c].inbound
    BY <1>1, <1>5, ClientStallsIs
  <2>2. PICK p2 : p2 = client'[c]
    OBVIOUS
  <2>3. Exchange(conn[c], p2, answers[c])
    BY <1>2, <2>1, <2>2, ExchangeEnds
  <2> QED BY <1>1, <1>2, <2>1, <2>2, <2>3, OthersExchange
<1>4. CASE ClientVanishes(c)
  <2>1. /\ UNCHANGED <<conn, answers>> /\ DOMAIN client' = DOMAIN client
        /\ \A d \in DOMAIN client : d # c => client'[d] = client[d]
        /\ client'[c].gone /\ client'[c].whole = client[c].whole
        /\ client'[c].past = client[c].past /\ client'[c].inbound = client[c].inbound
    BY <1>1, <1>4, ClientVanishesIs
  <2>2. PICK p2 : p2 = client'[c]
    OBVIOUS
  <2>3. Exchange(conn[c], p2, answers[c])
    BY <1>2, <2>1, <2>2, ExchangeEnds
  <2> QED BY <1>1, <1>2, <2>1, <2>2, <2>3, OthersExchange
<1> QED
  BY <1>3, <1>4, <1>5 DEF Client

-----------------------------------------------------------------------------
(* At the start there is no connection.                                    *)
LEMMA InitExchanges == Init => Exchanges
<1> SUFFICES ASSUME Init PROVE Exchanges
  OBVIOUS
<1>1. \A d \in Conns : answers[d] = <<>> /\ conn[d] = IF d = 1 THEN New(1, 1) ELSE Unused
  BY DEF Init
<1>2. \A d \in DOMAIN client : client[d].past = <<>> /\ client[d].inbound = <<>>
  BY DEF Init
<1> SUFFICES ASSUME NEW d \in Conns, d \in DOMAIN client
             PROVE  Exchange(conn[d], client[d], answers[d])
  BY <1>1 DEF Exchanges
<1>3. Idle(conn[d]) /\ conn[d].writes = <<>> /\ ~conn[d].skip
  BY <1>1, NewIs, UnusedIs DEF Idle, Fresh
<1>4. Interims(conn[d]) /\ conn[d].at # "error"
  BY <1>3 DEF Interims, Idle
<1>5. Len(client[d].past) = 0 /\ client[d].inbound = <<>> /\ answers[d] = <<>>
  BY <1>1, <1>2
<1> QED
  BY <1>3, <1>4, <1>5 DEF Exchange

(* No step ends an exchange in another way.                                *)
LEMMA StepExchanges ==
  ASSUME Exchanging, [Next]_vars
  PROVE  Exchanges'
<1>1. CASE UNCHANGED vars
  BY <1>1 DEF vars, Exchanging, Exchanges
<1>2. ASSUME NEW c \in Conns, Accept(c) \/ AcceptFails(c)
      PROVE  Exchanges'
  BY <1>2, AcceptExchange, AcceptFailsExchange
<1>3. ASSUME NEW c \in Conns, Client(c)
      PROVE  Exchanges'
  BY <1>3, ClientExchange
<1>4. ASSUME NEW c \in Conns, Worker(c)
      PROVE  Exchanges'
  <2>1. CASE start(c)
    BY <2>1, StartExchange
  <2>2. CASE ReadDone(c)
    BY <2>2, ReadDoneExchange
  <2>3. CASE ReadError(c)
    BY <2>3, ReadErrorExchange
  <2>4. CASE WriteDone(c) \/ WriteError(c)
    BY <2>4, WritesExchange
  <2>5. CASE WriteBlocks(c)
    BY <2>5 DEF WriteBlocks, Exchanging, Exchanges
  <2> QED BY <1>4, <2>1, <2>2, <2>3, <2>4, <2>5 DEF Worker
<1>5. ASSUME NEW w \in Workers, Tick(w)
      PROVE  Exchanges'
  BY <1>5, TickExchange
<1> QED
  BY <1>1, <1>2, <1>3, <1>4, <1>5 DEF Next

(* Every exchange is as Exchange says, at any time.                        *)
THEOREM AlwaysExchanging == Spec => []Exchanging
<1>1. Exchanging /\ [Next]_vars => Exchanging'
  BY StepServed, StepExchanges DEF Exchanging
<1>2. Init => Exchanging
  BY InitServed, InitExchanges DEF Exchanging
<1> QED
  BY <1>1, <1>2, PTL DEF Spec

(* What one request leaves in the parser or in the response never shows in *)
(* the answer to a later one: every answer has the code that its request   *)
(* calls for and, unless a HEAD was among the requests, can be framed.     *)
THEOREM AnswersAreRight == Spec => []AnswersRight
<1>1. Exchanging => AnswersRight
  <2> SUFFICES ASSUME Exchanging, NEW c \in Conns, NEW i \in DOMAIN answers[c]
               PROVE  /\ i <= Len(client[c].past)
                      /\ answers[c][i].code = Expected(client[c].past[i])
                      /\ answers[c][i].framed
                         \/ \E j \in 1 .. i : client[c].past[j].method = "HEAD"
    BY DEF AnswersRight
  <2>1. c \in DOMAIN client
    BY DEF Exchanging, Exchanges
  <2>2. Exchange(conn[c], client[c], answers[c])
    BY <2>1 DEF Exchanging, Exchanges
  <2>3. i <= Len(client[c].past) /\ Right(answers[c][i], client[c].past, i)
    BY <2>2 DEF Exchange
  <2> QED BY <2>3 DEF Right, HeadAmong
<1> QED
  BY <1>1, AlwaysExchanging, PTL

(* A connection that waits for its client, which is there and has sent all *)
(* of its request, has answered all it was asked.                          *)
THEOREM NothingIsSwallowed == Spec => []NothingSwallowed
<1>1. Exchanging => NothingSwallowed
  <2> SUFFICES ASSUME Exchanging, NEW c \in Conns,
                      conn[c].reading, conn[c].open, conn[c].writes = <<>>,
                      client[c].whole, client[c].inbound = <<>>, ~client[c].gone
               PROVE  Len(answers[c]) = Len(client[c].past)
    BY DEF NothingSwallowed
  <2>1. c \in DOMAIN client
    BY ReadersAreLive DEF Exchanging
  <2>2. Exchange(conn[c], client[c], answers[c])
    BY <2>1 DEF Exchanging, Exchanges
  <2> DEFINE n == Len(client[c].past)
             q == client[c].past[n]
  <2>3. ~Dead(conn[c]) /\ ~Broken(conn[c], client[c]) /\ ~Answering(conn[c], client[c], n)
    BY DEF Dead, Broken, Answering, Final
  <2>4. ~Rest(client[c], q, 0) /\ ~Rest(client[c], q, 1) /\ ~Rest(client[c], q, 2)
    BY DEF Rest
  <2> HIDE DEF n
  <2>5. ~Asked(conn[c], client[c], n)
    BY <2>3, <2>4 DEF Asked
  <2> QED BY <2>2, <2>5 DEF Exchange, n
<1> QED
  BY <1>1, AlwaysExchanging, PTL
=============================================================================
