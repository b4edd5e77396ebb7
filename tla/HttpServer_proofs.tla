------------------------- MODULE HttpServer_proofs -------------------------
(***************************************************************************)
(* Proofs about HttpServer: its types, the deadlines and the balance of    *)
(* the workers.                                                            *)
(*                                                                         *)
(* The argument: whatever a handler does, the tasks of its own connection  *)
(* that are left bear the id that the connection remembers (Good), since   *)
(* ids of one timer rise until the timer is empty; every handler that ends *)
(* the wait for the client cancels by that id, and the one that waits on   *)
(* arms one more (Armed).  An id of a timer emptied meanwhile may cancel   *)
(* another connection's task, but never leave one running.                 *)
(***************************************************************************)
EXTENDS HttpServer, SequenceTheorems, WellFoundedInduction, TLAPS

-----------------------------------------------------------------------------
(* The worker that pick_io_service_idx picks is one, and the least loaded. *)
LEMMA LeastExists ==
  ASSUME NEW T, T \subseteq Nat, T # {}
  PROVE  \E m \in T : \A n \in T : m <= n
<1> DEFINE Below == OpToRel(<, Nat)
<1>1. \A n, m \in Nat : n < m => <<n, m>> \in Below
  BY DEF OpToRel
<1>2. IsWellFoundedOn(Below, Nat)
  BY NatLessThanWellFounded, Zenon
<1> HIDE DEF Below
<1>3. PICK m \in T : \A n \in T : ~ (<<n, m>> \in Below)
  BY <1>2, WFMin, Zenon
<1>4. \A n \in T : ~ (n < m)
  BY <1>1, <1>3
<1> QED
  BY <1>3, <1>4

(* The worker that is picked has the fewest connections.                   *)
LEMMA PickIsLeast ==
  ASSUME NEW q \in [Workers -> Nat]
  PROVE  /\ pick_io_service_idx(q) \in Workers
         /\ \A v \in Workers : q[pick_io_service_idx(q)] <= q[v]
<1> DEFINE Loads == {q[w] : w \in Workers}
           Best(m) == {w \in Workers : q[w] = m}
<1>1. 1 \in Workers /\ Workers \subseteq Nat
  BY SizesType DEF Workers
<1>2. Loads \subseteq Nat /\ Loads # {}
  BY <1>1
<1>3. PICK m \in Loads : \A n \in Loads : m <= n
  <2> HIDE DEF Loads
  <2> QED BY <1>2, LeastExists
<1>4. Best(m) \subseteq Nat /\ Best(m) # {}
  BY <1>1, <1>3
<1>5. PICK w \in Best(m) : \A v \in Best(m) : w <= v
  <2> HIDE DEF Best
  <2> QED BY <1>4, LeastExists
<1>6. w \in Workers /\ \A v \in Workers : q[w] < q[v] \/ (q[w] = q[v] /\ w <= v)
  <2> SUFFICES ASSUME NEW v \in Workers
               PROVE  q[w] < q[v] \/ (q[w] = q[v] /\ w <= v)
    BY <1>5
  <2>1. q[w] = m /\ m <= q[v] /\ q[v] \in Nat /\ m \in Nat
    BY <1>2, <1>3, <1>5
  <2>2. q[v] = m => w <= v
    BY <1>5
  <2> QED
    BY <2>1, <2>2
<1>7. /\ pick_io_service_idx(q) \in Workers
      /\ \A v \in Workers : q[pick_io_service_idx(q)] < q[v]
                             \/ (q[pick_io_service_idx(q)] = q[v] /\ pick_io_service_idx(q) <= v)
  BY <1>6 DEF pick_io_service_idx
<1> QED
  BY <1>7

-----------------------------------------------------------------------------
(***************************************************************************)
(* What a handler sees and leaves: c is the connection, w its worker, g    *)
(* its stage, T the tasks that others had when the handler began.          *)
(***************************************************************************)
Sys == [x : Object, tasks : SUBSET Task, highest : Nat, out : Seq(Answer),
        robbed : SUBSET Conns, threw : BOOLEAN]

Sound(x) == /\ x.upgraded => ~x.open
            /\ x.at \in {"line", "head"} => x.req \in Request

(* No task of this connection is left.                                     *)
Disarmed(s) == \A t \in s.tasks : t.conn # s.x.self

Clock(s, T) ==
  \A t \in s.tasks : /\ t.id \in 1 .. s.highest
                     /\ t.conn = s.x.self => t.id = s.x.id
                     /\ t.conn = s.x.self \/ t \in T

At(x, c, w, g) == x.self = c /\ x.worker = w /\ x.stage = g

Good(s, c, w, g, T) == /\ s \in Sys
                       /\ At(s.x, c, w, g)
                       /\ Clock(s, T)
                       /\ Sound(s.x)
                       /\ s.threw => Disarmed(s)

(* Changes of the connection's fields alone keep a system good.            *)
LEMMA FieldsAndStageChange ==
  ASSUME NEW s, NEW c, NEW w, NEW g, NEW T, Good(s, c, w, g, T), NEW h,
         NEW y \in Object, At(y, c, w, h), y.id = s.x.id, Sound(y)
  PROVE  Good([s EXCEPT !.x = y], c, w, h, T)
<1>1. s \in Sys
  BY DEF Good
<1>2. [s EXCEPT !.x = y] \in Sys
  BY <1>1 DEF Sys
<1> QED
  BY <1>1, <1>2 DEF Good, At, Clock, Disarmed, Sys

(* Changes of the connection's fields that leave its deadline alone keep a *)
(* system good ...                                                         *)
LEMMA FieldsChange ==
  ASSUME NEW s, NEW c, NEW w, NEW g, NEW T, Good(s, c, w, g, T),
         NEW y \in Object, At(y, c, w, g), y.id = s.x.id, Sound(y)
  PROVE  Good([s EXCEPT !.x = y], c, w, g, T)
BY FieldsAndStageChange

(* ... so does what it writes.                                             *)
LEMMA OutSet ==
  ASSUME NEW s, NEW c, NEW w, NEW g, NEW T, Good(s, c, w, g, T),
         NEW o \in Seq(Answer)
  PROVE  LET u == [s EXCEPT !.out = o]
         IN  Good(u, c, w, g, T) /\ u.x = s.x /\ u.tasks = s.tasks /\ u.out = o
<1> DEFINE u == [s EXCEPT !.out = o]
<1>1. s \in Sys
  BY DEF Good
<1>2. u \in Sys
  BY <1>1 DEF Sys
<1>3. /\ u.x = s.x /\ u.tasks = s.tasks /\ u.highest = s.highest
      /\ u.threw = s.threw /\ u.out = o
  BY <1>1 DEF Sys
<1> QED
  BY <1>2, <1>3 DEF Good, Clock, Disarmed

(* What a good system consists of.                                         *)
LEMMA ObjectOfGood ==
  ASSUME NEW s, NEW c, NEW w, NEW g, NEW T, Good(s, c, w, g, T)
  PROVE  /\ s \in Sys /\ s.x \in Object /\ s.tasks \in SUBSET Task
         /\ s.highest \in Nat /\ s.out \in Seq(Answer)
         /\ s.robbed \in SUBSET Conns /\ s.threw \in BOOLEAN
         /\ s.x.self = c /\ s.x.worker = w /\ s.x.stage = g
         /\ Sound(s.x)
  BY DEF Good, Sys, At

-----------------------------------------------------------------------------
(* Whatever id it goes by, cancel leaves no task of this connection.       *)
LEMMA CancelDisarms ==
  ASSUME NEW s, NEW c, NEW w, NEW g, NEW T, Good(s, c, w, g, T)
  PROVE  /\ Good(cancel_deadline_timer(s), c, w, g, T)
         /\ Disarmed(cancel_deadline_timer(s))
         /\ cancel_deadline_timer(s).x = s.x
         /\ cancel_deadline_timer(s).out = s.out
         /\ cancel_deadline_timer(s).threw = s.threw
         /\ cancel_deadline_timer(s).highest = s.highest
<1> DEFINE mine == {t \in s.tasks : t.id = s.x.id}
           rob  == {t.conn : t \in mine} \ {s.x.self}
           r == cancel_deadline_timer(s)
<1>1. s \in Sys /\ s.tasks \in SUBSET Task
  BY ObjectOfGood
<1>2. rob \subseteq Conns
  BY <1>1 DEF Task
<1>3. r = [s EXCEPT !.tasks = @ \ mine, !.robbed = rob]
  BY DEF cancel_deadline_timer
<1>4. s.tasks \ mine \in SUBSET Task
  BY <1>1
<1>5. \A t \in s.tasks \ mine : t \in s.tasks /\ t.id # s.x.id
  OBVIOUS
<1> HIDE DEF mine, rob, r
<1>6. r \in Sys
  BY <1>1, <1>2, <1>3, <1>4 DEF Sys
<1>7. /\ r.x = s.x /\ r.tasks = s.tasks \ mine /\ r.out = s.out
      /\ r.threw = s.threw /\ r.highest = s.highest
  BY <1>1, <1>3 DEF Sys
<1>8. Disarmed(r)
  BY <1>5, <1>7 DEF Disarmed, Good, Clock
<1>9. Clock(r, T)
  BY <1>5, <1>7 DEF Good, Clock
<1>10. Good(r, c, w, g, T)
  BY <1>6, <1>7, <1>8, <1>9 DEF Good
<1> QED
  BY <1>7, <1>8, <1>10 DEF r

(* The deadline armed afresh is the connection's only one.                 *)
LEMMA DeadlineStarts ==
  ASSUME NEW s, NEW c, NEW w, NEW g, NEW T, Good(s, c, w, g, T), ~s.threw
  PROVE  /\ Good(start_deadline(s), c, w, g, T)
         /\ start_deadline(s).x = [s.x EXCEPT !.id = s.highest + 1]
         /\ start_deadline(s).out = s.out
         /\ start_deadline(s).threw = s.threw
<1> DEFINE u == cancel_deadline_timer(s)
           new == [id |-> u.highest + 1, conn |-> u.x.self, left |-> Timeout]
           tasks == u.tasks \cup {new}
           y == [u.x EXCEPT !.id = u.highest + 1]
           r == start_deadline(s)
<1>1. Good(u, c, w, g, T) /\ Disarmed(u) /\ u.x = s.x /\ u.out = s.out
      /\ u.threw = s.threw /\ u.highest = s.highest
  BY CancelDisarms
<1>2. u \in Sys /\ u.tasks \in SUBSET Task /\ u.highest \in Nat /\ u.x \in Object
      /\ u.x.self = c /\ u.x.worker = w /\ u.x.stage = g /\ Sound(u.x)
  <2> HIDE DEF u
  <2> QED BY <1>1, ObjectOfGood
<1>3. r = [u EXCEPT !.highest = @ + 1, !.x.id = u.highest + 1, !.tasks = tasks]
  BY DEF start_deadline, Schedule
<1> HIDE DEF u, r
<1>4. u.x.self \in Conns /\ new \in Task
  BY <1>2, SizesType DEF Task, Object
<1>5. tasks \in SUBSET Task /\ y \in Object
  BY <1>2, <1>4 DEF Object
<1>6. r \in Sys /\ r.x = y /\ r.tasks = tasks /\ r.highest = u.highest + 1
      /\ r.out = u.out /\ r.threw = u.threw
  <2> DEFINE h == u.highest + 1
  <2>1. r = [u EXCEPT !.highest = h, !.x = y, !.tasks = tasks]
    BY <1>2, <1>3 DEF Sys
  <2>2. h \in Nat
    BY <1>2
  <2> HIDE DEF tasks, new, y, h
  <2>3. r \in Sys
    BY <1>2, <2>1, <2>2, <1>5 DEF Sys
  <2>4. r.x = y /\ r.tasks = tasks /\ r.highest = h /\ r.out = u.out /\ r.threw = u.threw
    BY <1>2, <2>1 DEF Sys
  <2> QED BY <2>3, <2>4 DEF h
<1>7. /\ y.self = c /\ y.worker = w /\ y.stage = g /\ y.id = u.highest + 1 /\ Sound(y)
  BY <1>2 DEF Object, Sound
<1>8. Clock(r, T)
  <2> SUFFICES ASSUME NEW t \in tasks
               PROVE  /\ t.id \in 1 .. u.highest + 1
                      /\ t.conn = c => t.id = u.highest + 1
                      /\ t.conn = c \/ t \in T
    BY <1>6, <1>7 DEF Clock
  <2>1. CASE t = new
    BY <1>2, <2>1
  <2>2. CASE t \in u.tasks
    <3>1. t.id \in 1 .. u.highest /\ (t.conn = c \/ t \in T) /\ t.conn # c
      BY <1>1, <1>2, <2>2 DEF Good, Clock, Disarmed
    <3> QED BY <1>2, <3>1
  <2> QED BY <2>1, <2>2
<1>9. Good(r, c, w, g, T)
  <2> HIDE DEF tasks, y
  <2> QED BY <1>1, <1>6, <1>7, <1>8 DEF Good, At
<1> QED
  BY <1>1, <1>6, <1>9 DEF r

-----------------------------------------------------------------------------
(* What is written is an answer.                                           *)
LEMMA ResponseTyped ==
  ASSUME NEW x \in Object
  PROVE  Response(x) \in Answer
<1>1. x.code \in Codes /\ x.skip \in BOOLEAN
  BY DEF Object
<1> QED
  BY <1>1 DEF Response, Answer

(* do_write_general queues the response.                                   *)
LEMMA GeneralWrites ==
  ASSUME NEW s, NEW c, NEW w, NEW g, NEW T, Good(s, c, w, g, T)
  PROVE  /\ Good(do_write_general(s), c, w, g, T)
         /\ do_write_general(s).x = [s.x EXCEPT !.writes = Append(s.x.writes, Response(s.x))]
         /\ do_write_general(s).out = s.out
         /\ do_write_general(s).threw = s.threw
<1> DEFINE ws == Append(s.x.writes, Response(s.x))
           y == [s.x EXCEPT !.writes = ws]
<1>1. s \in Sys /\ s.x \in Object /\ At(s.x, c, w, g) /\ Sound(s.x)
  BY ObjectOfGood DEF At
<1>2. Response(s.x) \in Answer /\ s.x.writes \in Seq(Answer)
  BY <1>1, ResponseTyped DEF Object
<1>3. ws \in Seq(Answer)
  BY <1>2
<1>4. do_write_general(s) = [s EXCEPT !.x = y]
  BY <1>1 DEF do_write_general, Sys
<1> HIDE DEF ws
<1>5. y \in Object
  BY <1>1, <1>3 DEF Object
<1>6. y.id = s.x.id /\ At(y, c, w, g) /\ Sound(y)
  BY <1>1 DEF Object, At, Sound
<1> HIDE DEF y
<1>7. Good([s EXCEPT !.x = y], c, w, g, T)
  BY <1>5, <1>6, FieldsChange
<1>8. [s EXCEPT !.x = y].x = y /\ [s EXCEPT !.x = y].out = s.out
      /\ [s EXCEPT !.x = y].threw = s.threw
  BY <1>1 DEF Sys
<1> QED
  BY <1>4, <1>7, <1>8 DEF y, ws

-----------------------------------------------------------------------------
(* Clearing the parser and the response.                                   *)
LEMMA ClearedTyped ==
  ASSUME NEW x \in Object, NEW c, NEW w, NEW g, At(x, c, w, g), Sound(x)
  PROVE  LET y == ResCleared(ParserCleared(x))
         IN  /\ y \in Object /\ At(y, c, w, g) /\ Sound(y)
             /\ y = [x EXCEPT !.at = IF x.at = "error" THEN "error" ELSE "start",
                              !.complete = FALSE, !.req = None, !.code = 200,
                              !.file = FALSE, !.completed = FALSE]
<1> DEFINE a == IF x.at = "error" THEN "error" ELSE "start"
           y == [x EXCEPT !.at = a, !.complete = FALSE, !.req = None, !.code = 200,
                          !.file = FALSE, !.completed = FALSE]
<1>1. ResCleared(ParserCleared(x)) = y
  BY DEF ResCleared, ParserCleared, Object
<1>2. a \in {"start", "error"}
  OBVIOUS
<1> HIDE DEF a
<1>3. y \in Object
  <2> DEFINE k == 200
             q == None
  <2>1. k \in Codes /\ q \in Request \cup {None}
    BY DEF Codes
  <2> HIDE DEF k, q
  <2>2. [x EXCEPT !.at = a, !.complete = FALSE, !.req = q, !.code = k,
                  !.file = FALSE, !.completed = FALSE] \in Object
    BY <1>2, <2>1 DEF Object
  <2> QED BY <2>2 DEF k, q
<1>4. At(y, c, w, g) /\ Sound(y)
  BY <1>2 DEF Object, At, Sound
<1> HIDE DEF y
<1>5. y \in Object /\ At(y, c, w, g) /\ Sound(y)
  BY <1>3, <1>4
<1> QED
  BY <1>1, <1>5 DEF y, a

-----------------------------------------------------------------------------
(* A file that is sent, and one whose client is gone.                      *)
StaticSent(s) ==
  [s EXCEPT !.out = Append(s.out, Response(s.x)),
            !.x = [s.x EXCEPT !.open = s.x.open /\ ~s.x.closeAfter,
                              !.at = IF s.x.at = "error" THEN "error" ELSE "start",
                              !.complete = FALSE, !.req = None, !.code = 200,
                              !.file = FALSE, !.completed = FALSE]]

StaticFailed(s) ==
  [s EXCEPT !.x = [s.x EXCEPT !.code = 500, !.file = FALSE, !.completed = TRUE]]

(* do_write_static sends a file, or fails.                                 *)
LEMMA StaticWrites ==
  ASSUME NEW s, NEW c, NEW w, NEW g, NEW T, Good(s, c, w, g, T), NEW lost
  PROVE  /\ Good(do_write_static(s, lost), c, w, g, T)
         /\ do_write_static(s, lost) = IF lost = "write" THEN StaticFailed(s)
                                                         ELSE StaticSent(s)
<1>1. s \in Sys /\ s.x \in Object /\ At(s.x, c, w, g) /\ Sound(s.x)
  BY ObjectOfGood DEF At
<1>2. CASE lost = "write"
  <2> DEFINE y == [s.x EXCEPT !.code = 500, !.file = FALSE, !.completed = TRUE]
  <2>1. do_write_static(s, lost) = [s EXCEPT !.x = y] /\ StaticFailed(s) = [s EXCEPT !.x = y]
    BY <1>1, <1>2 DEF do_write_static, StaticFailed, Sys
  <2> DEFINE k == 500
  <2>0. k \in Codes
    BY DEF Codes
  <2> HIDE DEF k
  <2>3. [s.x EXCEPT !.code = k, !.file = FALSE, !.completed = TRUE] \in Object
    BY <1>1, <2>0 DEF Object
  <2>4. y \in Object
    BY <2>3 DEF k
  <2>5. y.id = s.x.id /\ At(y, c, w, g) /\ Sound(y)
    BY <1>1 DEF Object, At, Sound
  <2>2. y \in Object /\ y.id = s.x.id /\ At(y, c, w, g) /\ Sound(y)
    BY <2>4, <2>5
  <2> HIDE DEF y
  <2>6. Good([s EXCEPT !.x = y], c, w, g, T)
    BY <2>2, FieldsChange
  <2> QED
    BY <1>2, <2>1, <2>6
<1>3. CASE lost # "write"
  <2> DEFINE o == s.x.open /\ ~s.x.closeAfter
             z == [s.x EXCEPT !.open = o]
             a == IF s.x.at = "error" THEN "error" ELSE "start"
             y == [s.x EXCEPT !.open = o, !.at = a,
                              !.complete = FALSE, !.req = None, !.code = 200,
                              !.file = FALSE, !.completed = FALSE]
             u == Append(s.out, Response(s.x))
             v == [s EXCEPT !.x = y]
  <2>1. (IF s.x.closeAfter THEN [s.x EXCEPT !.open = FALSE] ELSE s.x) = z
    BY <1>1 DEF Object
  <2>2. do_write_static(s, lost) = [s EXCEPT !.out = u, !.x = ResCleared(ParserCleared(z))]
    BY <1>1, <1>3, <2>1 DEF do_write_static, Sys
  <2>3. o \in BOOLEAN
    OBVIOUS
  <2> HIDE DEF o
  <2>4. z \in Object /\ At(z, c, w, g) /\ z.id = s.x.id /\ z.at = s.x.at
    BY <1>1, <2>3 DEF Object, At
  <2>5. Sound(z)
    BY <1>1, <2>3 DEF Object, Sound, o
  <2>6. /\ ResCleared(ParserCleared(z)) \in Object
        /\ At(ResCleared(ParserCleared(z)), c, w, g)
        /\ Sound(ResCleared(ParserCleared(z)))
        /\ ResCleared(ParserCleared(z)) =
             [z EXCEPT !.at = IF z.at = "error" THEN "error" ELSE "start",
                       !.complete = FALSE, !.req = None, !.code = 200,
                       !.file = FALSE, !.completed = FALSE]
    <3> HIDE DEF z
    <3> QED BY <2>4, <2>5, ClearedTyped
  <2>7. ResCleared(ParserCleared(z)) = y
    BY <1>1, <2>4, <2>6 DEF Object
  <2>8. y \in Object /\ At(y, c, w, g) /\ Sound(y) /\ y.id = s.x.id
    <3>1. y.id = s.x.id
      BY <1>1 DEF Object
    <3> QED BY <2>6, <2>7, <3>1
  <2>9. do_write_static(s, lost) = [s EXCEPT !.out = u, !.x = y] /\ StaticSent(s) = [s EXCEPT !.out = u, !.x = y]
    BY <1>1, <2>2, <2>7 DEF StaticSent, Sys, o
  <2> HIDE DEF y
  <2>10. Good(v, c, w, g, T)
    BY <2>8, FieldsChange
  <2>11. u \in Seq(Answer)
    <3>1. Response(s.x) \in Answer /\ s.out \in Seq(Answer)
      BY <1>1, ResponseTyped DEF Sys
    <3> QED BY <3>1
  <2> HIDE DEF u
  <2>12. [s EXCEPT !.out = u, !.x = y] = [v EXCEPT !.out = u]
    BY <1>1 DEF Sys
  <2> HIDE DEF v
  <2>13. Good([v EXCEPT !.out = u], c, w, g, T)
    BY <2>10, <2>11, OutSet
  <2> QED
    BY <1>3, <2>9, <2>12, <2>13
<1> QED
  BY <1>2, <1>3

-----------------------------------------------------------------------------
(* What the callbacks of the parser do to the connection.                  *)
LEMMA Routes ==
  ASSUME NEW r \in Request
  PROVE  handle_initial(r) = 0 \/ handle_initial(r) \in Codes
<1>1. CASE r.target = "none"
  BY <1>1 DEF handle_initial, Codes
<1>2. CASE r.target # "none" /\ r.method \in {"GET", "HEAD"}
  BY <1>2 DEF handle_initial
<1>3. CASE r.target # "none" /\ r.method = "OPTIONS"
  BY <1>3 DEF handle_initial, Codes
<1>4. CASE r.target # "none" /\ r.method \notin {"GET", "HEAD", "OPTIONS"}
  BY <1>4 DEF handle_initial, Codes
<1> QED
  BY <1>1, <1>2, <1>3, <1>4

(* handle_url routes a request; one without a route is answered.           *)
LEMMA UrlHandled ==
  ASSUME NEW s, NEW c, NEW w, NEW g, NEW T, Good(s, c, w, g, T), NEW r \in Request
  PROVE  LET u == handle_url(s, r)
             x == s.x
             y == u.x
         IN  /\ Good(u, c, w, g, T)
             /\ u.out = s.out /\ u.threw = s.threw
             /\ y.reading = x.reading /\ y.open = x.open
             /\ y.skip = (x.skip \/ (r.method = "HEAD" /\ handle_initial(r) = 0))
             /\ handle_initial(r) = 0 =>
                  /\ y.at = "line" /\ y.req = r /\ y.writes = x.writes
                  /\ y.complete = x.complete /\ y.completed = x.completed
                  /\ y.file = x.file /\ y.code = x.code
             /\ handle_initial(r) # 0 =>
                  /\ y.at = "error"
                  /\ y.writes = Append(x.writes, [code |-> handle_initial(r),
                                  framed |-> ~y.skip \/ handle_initial(r) = 204])
<1> DEFINE u == handle_url(s, r)
           code == handle_initial(r)
           skip == s.x.skip \/ (r.method = "HEAD" /\ code = 0)
<1>1. s \in Sys /\ s.x \in Object /\ At(s.x, c, w, g) /\ Sound(s.x)
  BY ObjectOfGood DEF At
<1>2. skip \in BOOLEAN /\ (code = 0 \/ code \in Codes) /\ r \in Request \cup {None}
  BY Routes
<1>3. CASE code = 0
  <2> DEFINE y == [s.x EXCEPT !.req = r, !.skip = skip, !.at = "line"]
  <2>1. u = [s EXCEPT !.x = y]
    BY <1>1, <1>3 DEF handle_url, Object
  <2> HIDE DEF skip
  <2>2. y \in Object
    BY <1>1, <1>2 DEF Object
  <2>3. y.id = s.x.id /\ At(y, c, w, g) /\ Sound(y)
    BY <1>1 DEF Object, At, Sound
  <2>4. /\ y.reading = s.x.reading /\ y.open = s.x.open /\ y.skip = skip
        /\ y.at = "line" /\ y.req = r /\ y.writes = s.x.writes
        /\ y.complete = s.x.complete /\ y.completed = s.x.completed
        /\ y.file = s.x.file /\ y.code = s.x.code
    BY <1>1 DEF Object
  <2> HIDE DEF y
  <2>5. Good([s EXCEPT !.x = y], c, w, g, T)
    BY <2>2, <2>3, FieldsChange
  <2>6. /\ [s EXCEPT !.x = y].x = y /\ [s EXCEPT !.x = y].out = s.out
        /\ [s EXCEPT !.x = y].threw = s.threw
    BY <1>1 DEF Sys
  <2> HIDE DEF u, code
  <2>7. u.x = y /\ u.out = s.out /\ u.threw = s.threw /\ Good(u, c, w, g, T)
    BY <2>1, <2>5, <2>6
  <2> QED
    BY <1>3, <2>4, <2>7 DEF u, code, skip
<1>4. CASE code # 0
  <2> DEFINE z == [s.x EXCEPT !.req = r, !.skip = skip, !.completed = TRUE,
                              !.code = code, !.at = "error"]
             v == [s EXCEPT !.x = z]
  <2>1. u = do_write_general(v)
    BY <1>1, <1>4 DEF handle_url, end, Object
  <2> HIDE DEF skip
  <2>2. z \in Object
    <3>1. code \in Codes
      BY <1>2, <1>4
    <3> HIDE DEF code
    <3> QED BY <1>1, <1>2, <3>1 DEF Object
  <2>3. z.id = s.x.id /\ At(z, c, w, g) /\ Sound(z)
    <3> HIDE DEF code
    <3> QED BY <1>1 DEF Object, At, Sound
  <2>4. /\ z.reading = s.x.reading /\ z.open = s.x.open /\ z.skip = skip
        /\ z.at = "error" /\ z.writes = s.x.writes /\ z.code = code
    <3> HIDE DEF code
    <3> QED BY <1>1 DEF Object
  <2> HIDE DEF z
  <2>5. Good(v, c, w, g, T)
    BY <2>2, <2>3, FieldsChange
  <2>6. v.x = z /\ v.out = s.out /\ v.threw = s.threw
    BY <1>1 DEF Sys
  <2> HIDE DEF u, v, code
  <2>7. /\ Good(do_write_general(v), c, w, g, T)
        /\ do_write_general(v).x = [v.x EXCEPT !.writes = Append(v.x.writes, Response(v.x))]
        /\ do_write_general(v).out = v.out
        /\ do_write_general(v).threw = v.threw
    BY <2>5, GeneralWrites
  <2>8. u.x = [z EXCEPT !.writes = Append(s.x.writes, Response(z))]
    BY <2>1, <2>4, <2>6, <2>7
  <2>9. /\ u.x.reading = s.x.reading /\ u.x.open = s.x.open /\ u.x.skip = skip
        /\ u.x.at = "error" /\ u.x.writes = Append(s.x.writes, Response(z))
    BY <2>2, <2>4, <2>8 DEF Object
  <2>10. Response(z) = [code |-> code, framed |-> ~skip \/ code = 204]
    BY <2>4 DEF Response
  <2> QED
    BY <1>4, <2>1, <2>6, <2>7, <2>9, <2>10 DEF u, code, skip
<1> QED
  BY <1>3, <1>4 DEF u, code

(* handle_header may queue the interim answer.                             *)
LEMMA HeaderHandled ==
  ASSUME NEW s, NEW c, NEW w, NEW g, NEW T, Good(s, c, w, g, T), s.x.at = "line"
  PROVE  LET u == handle_header(s)
             x == s.x
             y == u.x
         IN  /\ Good(u, c, w, g, T)
             /\ u.out = s.out /\ u.threw = s.threw
             /\ y.reading = x.reading /\ y.open = x.open /\ y.skip = x.skip
             /\ y.at = "head" /\ y.req = x.req
             /\ y.complete = x.complete /\ y.completed = x.completed
             /\ y.file = x.file /\ y.code = x.code
             /\ \/ y.writes = x.writes
                \/ y.writes = Append(x.writes, [code |-> 100, framed |-> TRUE])
<1> DEFINE ws == IF s.x.req.expect /\ s.x.req.version = 11
                 THEN Append(s.x.writes, [code |-> 100, framed |-> TRUE]) ELSE s.x.writes
           y == [s.x EXCEPT !.at = "head", !.writes = ws]
           u == handle_header(s)
<1>1. s \in Sys /\ s.x \in Object /\ At(s.x, c, w, g) /\ Sound(s.x)
  BY ObjectOfGood DEF At
<1>2. u = [s EXCEPT !.x = y]
  BY <1>1 DEF handle_header, Sys
<1>3. ws \in Seq(Answer)
  <2>1. [code |-> 100, framed |-> TRUE] \in Answer /\ s.x.writes \in Seq(Answer)
    BY <1>1 DEF Answer, Object
  <2> QED BY <2>1
<1>4. \/ ws = s.x.writes
      \/ ws = Append(s.x.writes, [code |-> 100, framed |-> TRUE])
  OBVIOUS
<1> HIDE DEF ws
<1>5. y \in Object
  BY <1>1, <1>3 DEF Object
<1>6. y.id = s.x.id /\ At(y, c, w, g) /\ Sound(y)
  BY <1>1 DEF Object, At, Sound
<1>7. /\ y.reading = s.x.reading /\ y.open = s.x.open /\ y.skip = s.x.skip
      /\ y.at = "head" /\ y.req = s.x.req /\ y.writes = ws
      /\ y.complete = s.x.complete /\ y.completed = s.x.completed
      /\ y.file = s.x.file /\ y.code = s.x.code
  BY <1>1 DEF Object
<1> HIDE DEF y
<1>8. Good([s EXCEPT !.x = y], c, w, g, T)
  BY <1>5, <1>6, FieldsChange
<1>9. /\ [s EXCEPT !.x = y].x = y /\ [s EXCEPT !.x = y].out = s.out
      /\ [s EXCEPT !.x = y].threw = s.threw
  BY <1>1 DEF Sys
<1> HIDE DEF u
<1>10. u.x = y /\ u.out = s.out /\ u.threw = s.threw /\ Good(u, c, w, g, T)
  BY <1>2, <1>8, <1>9
<1> QED
  BY <1>4, <1>7, <1>10 DEF u

-----------------------------------------------------------------------------
(* A rule that takes the socket hands it on or closes it; the others       *)
(* leave an answer that is not sent.                                       *)
LEMMA UpgradeHandled ==
  ASSUME NEW s, NEW c, NEW w, NEW g, NEW T, Good(s, c, w, g, T)
  PROVE  LET u == handle_upgrade(s)
             x == s.x
             y == u.x
         IN  /\ Good(u, c, w, g, T)
             /\ u.out = s.out /\ u.threw = s.threw
             /\ y.reading = x.reading /\ y.skip = x.skip
             /\ y.writes = x.writes /\ y.closeAfter = x.closeAfter
<1> DEFINE u == handle_upgrade(s)
           k == IF s.x.req.method = "GET" THEN 404 ELSE 405
           up == (s.x.req.upgrade = "websocket")
           y == IF s.x.req.target = "root" /\ s.x.req.method = "GET"
                THEN [s.x EXCEPT !.open = FALSE, !.upgraded = up]
                ELSE [s.x EXCEPT !.completed = TRUE, !.code = k]
<1>1. s \in Sys /\ s.x \in Object /\ At(s.x, c, w, g) /\ Sound(s.x)
  BY ObjectOfGood DEF At
<1>2. u = [s EXCEPT !.x = y]
  BY <1>1 DEF handle_upgrade, end, Sys
<1>3. k \in Codes /\ up \in BOOLEAN
  BY DEF Codes
<1> HIDE DEF k, up, u
<1>4. y \in Object
  BY <1>1, <1>3 DEF Object
<1>5. y.id = s.x.id /\ At(y, c, w, g) /\ Sound(y)
  BY <1>1 DEF Object, At, Sound
<1>6. /\ y.reading = s.x.reading /\ y.skip = s.x.skip
      /\ y.writes = s.x.writes /\ y.closeAfter = s.x.closeAfter
  BY <1>1 DEF Object
<1> HIDE DEF y
<1>7. Good([s EXCEPT !.x = y], c, w, g, T)
  BY <1>4, <1>5, FieldsChange
<1>8. /\ [s EXCEPT !.x = y].x = y /\ [s EXCEPT !.x = y].out = s.out
      /\ [s EXCEPT !.x = y].threw = s.threw
  BY <1>1 DEF Sys
<1>9. u.x = y /\ u.out = s.out /\ u.threw = s.threw /\ Good(u, c, w, g, T)
  BY <1>2, <1>7, <1>8
<1> QED
  BY <1>6, <1>9 DEF u

(* What the handler of a rule leaves in the response.                      *)
LEMMA RuleHandled ==
  ASSUME NEW x \in Object, NEW c, NEW w, NEW g, At(x, c, w, g), Sound(x)
  PROVE  LET y == handle_rule(x)
             file == x.req.target = "file"
         IN  /\ y \in Object /\ At(y, c, w, g) /\ Sound(y) /\ y.id = x.id
             /\ y.file = (x.file \/ file) /\ y.code = IF file THEN 200 ELSE 404
             /\ y.reading = x.reading /\ y.open = x.open /\ y.skip = x.skip
             /\ y.writes = x.writes /\ y.closeAfter = x.closeAfter
             /\ y.complete = x.complete /\ y.at = x.at
<1> DEFINE found == 200
           none == 404
           y == IF x.req.target = "file"
                THEN [x EXCEPT !.completed = TRUE, !.file = TRUE, !.code = found]
                ELSE [x EXCEPT !.completed = TRUE, !.code = none]
<1>0. x \in Object
  OBVIOUS
<1>1. handle_rule(x) = y
  BY <1>0 DEF handle_rule, end, Object
<1>2. found \in Codes /\ none \in Codes
  BY DEF Codes
<1> HIDE DEF found, none
<1>3. y \in Object
  BY <1>0, <1>2 DEF Object
<1>4. /\ At(y, c, w, g) /\ Sound(y) /\ y.id = x.id
      /\ y.file = (x.file \/ x.req.target = "file")
      /\ y.code = IF x.req.target = "file" THEN found ELSE none
      /\ y.reading = x.reading /\ y.open = x.open /\ y.skip = x.skip
      /\ y.writes = x.writes /\ y.closeAfter = x.closeAfter
      /\ y.complete = x.complete /\ y.at = x.at
  BY <1>0, <1>2 DEF Object, At, Sound
<1> HIDE DEF y
<1> QED
  BY <1>1, <1>3, <1>4 DEF found, none

(* An answer is queued, or a file goes out, or its client is gone.         *)
Sent(s, u, k) ==
  LET x == s.x
      y == u.x
      answer == [code |-> k, framed |-> ~x.skip \/ k = 204]
  IN  /\ u.threw = s.threw /\ y.reading = x.reading /\ y.skip = x.skip
      /\ \/ y.writes = Append(x.writes, answer) /\ u.out = s.out
         \/ /\ y.writes = x.writes /\ u.out = Append(s.out, answer)
            /\ ~y.complete /\ ~y.completed /\ ~y.file /\ y.code = 200
            /\ y.at = IF x.at = "error" THEN "error" ELSE "start"

Kept(s, u) == /\ u.x.reading = s.x.reading /\ u.x.skip = s.x.skip
              /\ u.x.writes = s.x.writes /\ u.out = s.out

Failed(s, u) == Kept(s, u) /\ u.threw = s.threw

(* complete_request sends the response, or fails with a lost write.        *)
LEMMA RequestCompleted ==
  ASSUME NEW s, NEW c, NEW w, NEW g, NEW T, Good(s, c, w, g, T), NEW lost
  PROVE  LET u == complete_request(s, lost)
         IN  /\ Good(u, c, w, g, T)
             /\ Sent(s, u, s.x.code) \/ (lost = "write" /\ Failed(s, u))
<1> DEFINE u == complete_request(s, lost)
           a == [code |-> s.x.code, framed |-> ~s.x.skip \/ s.x.code = 204]
<1>1. s \in Sys /\ s.x \in Object /\ At(s.x, c, w, g) /\ Sound(s.x)
  BY ObjectOfGood DEF At
<1>2. Response(s.x) = a
  BY DEF Response
<1> HIDE DEF a
<1>3. CASE ~s.x.file
  <2> DEFINE v == do_write_general(s)
  <2>1. u = v
    BY <1>3 DEF complete_request
  <2>2. /\ Good(v, c, w, g, T)
        /\ v.x = [s.x EXCEPT !.writes = Append(s.x.writes, a)]
        /\ v.out = s.out /\ v.threw = s.threw
    BY <1>2, GeneralWrites
  <2> HIDE DEF u, v
  <2>3. /\ v.x.reading = s.x.reading /\ v.x.skip = s.x.skip
        /\ v.x.writes = Append(s.x.writes, a)
    BY <1>1, <2>2 DEF Object
  <2>4. Sent(s, v, s.x.code)
    BY <2>2, <2>3 DEF Sent, a
  <2> QED
    BY <2>1, <2>2, <2>4 DEF u
<1>4. CASE s.x.file /\ lost = "write"
  <2> DEFINE v == do_write_static(s, lost)
  <2>1. u = v
    BY <1>4 DEF complete_request
  <2>2. Good(v, c, w, g, T) /\ v = StaticFailed(s)
    BY <1>4, StaticWrites
  <2> HIDE DEF u, v
  <2>3. Failed(s, v)
    BY <1>1, <2>2 DEF Failed, Kept, StaticFailed, Sys, Object
  <2> QED
    BY <1>4, <2>1, <2>2, <2>3 DEF u
<1>5. CASE s.x.file /\ lost # "write"
  <2> DEFINE v == do_write_static(s, lost)
             z == [s.x EXCEPT !.open = s.x.open /\ ~s.x.closeAfter,
                              !.at = IF s.x.at = "error" THEN "error" ELSE "start",
                              !.complete = FALSE, !.req = None, !.code = 200,
                              !.file = FALSE, !.completed = FALSE]
  <2>1. u = v
    BY <1>5 DEF complete_request
  <2>2. Good(v, c, w, g, T) /\ v = StaticSent(s)
    BY <1>5, StaticWrites
  <2> HIDE DEF u, v
  <2>3. v = [s EXCEPT !.out = Append(s.out, a), !.x = z]
    BY <1>2, <2>2 DEF StaticSent
  <2>4. /\ z.reading = s.x.reading /\ z.skip = s.x.skip /\ z.writes = s.x.writes
        /\ ~z.complete /\ ~z.completed /\ ~z.file /\ z.code = 200
        /\ z.at = IF s.x.at = "error" THEN "error" ELSE "start"
    BY <1>1 DEF Object
  <2> HIDE DEF z
  <2>5. v.x = z /\ v.out = Append(s.out, a) /\ v.threw = s.threw
    BY <1>1, <2>3 DEF Sys
  <2>6. Sent(s, v, s.x.code)
    BY <1>5, <2>4, <2>5 DEF Sent, a
  <2> QED
    BY <2>1, <2>2, <2>6 DEF u
<1> QED
  BY <1>3, <1>4, <1>5 DEF u

-----------------------------------------------------------------------------
(* The code a request is answered with by its rule, or for want of a Host. *)
CodeOf(r) == IF r.version = 11 /\ ~r.host THEN 400
             ELSE IF r.target = "file" THEN 200 ELSE 404

(* handle answers a request with the code that it calls for, unless it     *)
(* throws or ends.                                                         *)
LEMMA RequestHandled ==
  ASSUME NEW s, NEW c, NEW w, NEW g, NEW T, Good(s, c, w, g, T), NEW lost,
         s.x.at = "head", ~s.threw
  PROVE  LET u == handle(s, lost)
         IN  /\ Good(u, c, w, g, T)
             /\ ~s.x.completed =>
                  \/ Kept(s, u) /\ u.threw
                  \/ Failed(s, u) /\ lost = "write"
                  \/ Failed(s, u) /\ u.x.closeAfter
                  \/ Sent(s, u, CodeOf(s.x.req))
<1> DEFINE u == handle(s, lost)
           r == s.x.req
           after == close_connection(r)
           y == [s.x EXCEPT !.complete = TRUE, !.closeAfter = after]
           d == cancel_deadline_timer(s)
           t == [d EXCEPT !.x = y]
<1>1. s \in Sys /\ s.x \in Object /\ At(s.x, c, w, g) /\ Sound(s.x)
  BY ObjectOfGood DEF At
<1>2. r \in Request
  BY <1>1 DEF Sound
<1>3. after \in BOOLEAN
  <2>1. r.version \in {10, 11}
    BY <1>2 DEF Request
  <2> HIDE DEF r
  <2> QED BY <2>1 DEF close_connection
<1>4. Good(d, c, w, g, T) /\ Disarmed(d) /\ d.x = s.x /\ d.out = s.out
      /\ d.threw = s.threw
  BY CancelDisarms
<1> HIDE DEF after, d
<1>5. y \in Object /\ At(y, c, w, g) /\ Sound(y) /\ y.id = s.x.id
  <2>1. y \in Object
    BY <1>1, <1>3 DEF Object
  <2>2. At(y, c, w, g) /\ Sound(y) /\ y.id = s.x.id
    BY <1>1 DEF Object, At, Sound
  <2> QED BY <2>1, <2>2
<1>6. /\ y.at = "head" /\ y.complete /\ y.closeAfter = after /\ y.req = r
      /\ y.reading = s.x.reading /\ y.skip = s.x.skip /\ y.writes = s.x.writes
      /\ y.open = s.x.open /\ y.code = s.x.code /\ y.file = s.x.file
      /\ y.completed = s.x.completed
  BY <1>1, <1>3 DEF Object
<1>7. d \in Sys
  BY <1>4 DEF Good
<1>8. Good(t, c, w, g, T) /\ t.x = y /\ t.out = s.out /\ t.threw = s.threw /\ t \in Sys
  <2> HIDE DEF y
  <2>1. Good(t, c, w, g, T)
    BY <1>4, <1>5, FieldsChange
  <2>2. t.x = y /\ t.out = s.out /\ t.threw = s.threw
    BY <1>4, <1>7 DEF Sys
  <2> QED BY <2>1, <2>2 DEF Good
<1>9. /\ lost = "peer" => u = [d EXCEPT !.x.complete = TRUE, !.threw = TRUE]
      /\ lost # "peer" /\ r.version = 11 /\ ~r.host =>
           u = complete_request([t EXCEPT !.x.code = 400], lost)
      /\ lost # "peer" /\ ~(r.version = 11 /\ ~r.host) =>
           IF r.version = 11 /\ r.upgrade \in {"websocket", "other"}
           THEN u = handle_upgrade([t EXCEPT !.x.closeAfter = TRUE])
           ELSE u = complete_request(IF y.completed THEN t ELSE [t EXCEPT !.x = handle_rule(y)], lost)
  BY DEF handle, after, d
<1> HIDE DEF u, t, y, r
<1>10. CASE lost = "peer"
  <2> DEFINE z == [s.x EXCEPT !.complete = TRUE]
             v == [d EXCEPT !.x = z]
  <2>1. z \in Object /\ At(z, c, w, g) /\ Sound(z) /\ z.id = s.x.id
    <3>1. z \in Object
      BY <1>1 DEF Object
    <3>2. At(z, c, w, g) /\ Sound(z) /\ z.id = s.x.id
      BY <1>1 DEF Object, At, Sound
    <3> QED BY <3>1, <3>2
  <2>2. z.reading = s.x.reading /\ z.skip = s.x.skip /\ z.writes = s.x.writes
    BY <1>1 DEF Object
  <2>3. u = [v EXCEPT !.threw = TRUE]
    BY <1>4, <1>7, <1>9, <1>10 DEF Sys
  <2> HIDE DEF z
  <2>4. Good(v, c, w, g, T)
    BY <1>4, <2>1, FieldsChange
  <2>5. v \in Sys /\ v.x = z /\ v.out = s.out /\ v.tasks = d.tasks
    BY <1>4, <1>7, <2>4 DEF Sys, Good
  <2> HIDE DEF v
  <2>6. u \in Sys /\ u.x = z /\ u.out = s.out /\ u.tasks = d.tasks
        /\ u.highest = v.highest /\ u.threw
    BY <2>3, <2>5 DEF Sys
  <2>7. Disarmed(u)
    BY <1>1, <1>4, <2>1, <2>6 DEF Disarmed, At
  <2>8. Good(u, c, w, g, T)
    BY <2>4, <2>5, <2>6, <2>7 DEF Good, Clock
  <2>9. Kept(s, u)
    BY <2>2, <2>6 DEF Kept
  <2> QED
    BY <2>6, <2>8, <2>9 DEF u
<1>11. CASE lost # "peer" /\ r.version = 11 /\ ~r.host
  <2> DEFINE k == 400
             z == [y EXCEPT !.code = k]
             v == [t EXCEPT !.x = z]
  <2>1. k \in Codes
    BY DEF Codes
  <2>2. [t EXCEPT !.x.code = 400] = v
    BY <1>8 DEF Sys
  <2> HIDE DEF k
  <2>3. z \in Object /\ At(z, c, w, g) /\ Sound(z) /\ z.id = y.id
    <3>1. z \in Object
      BY <1>5, <2>1 DEF Object
    <3>2. At(z, c, w, g) /\ Sound(z) /\ z.id = y.id
      BY <1>5 DEF Object, At, Sound
    <3> QED BY <3>1, <3>2
  <2>4. /\ z.reading = s.x.reading /\ z.skip = s.x.skip /\ z.writes = s.x.writes
        /\ z.at = "head" /\ z.code = k
    BY <1>5, <1>6 DEF Object
  <2> HIDE DEF z
  <2>5. Good(v, c, w, g, T) /\ v.x = z /\ v.out = s.out /\ v.threw = s.threw
    <3>1. Good(v, c, w, g, T)
      BY <1>8, <2>3, FieldsChange
    <3>2. v.x = z /\ v.out = s.out /\ v.threw = s.threw
      BY <1>8 DEF Sys
    <3> QED BY <3>1, <3>2
  <2> HIDE DEF v
  <2>6. u = complete_request(v, lost)
    BY <1>9, <1>11, <2>2
  <2>7. /\ Good(u, c, w, g, T)
        /\ Sent(v, u, z.code) \/ (lost = "write" /\ Failed(v, u))
    BY <2>5, <2>6, RequestCompleted
  <2>8. Failed(v, u) => Failed(s, u)
    BY <2>4, <2>5 DEF Failed, Kept
  <2>9. Sent(v, u, z.code) => Sent(s, u, 400)
    <3>1. Sent(v, u, z.code) => Sent(s, u, k)
      BY <2>4, <2>5 DEF Sent
    <3> QED BY <3>1 DEF k
  <2>10. CodeOf(s.x.req) = 400
    BY <1>11 DEF CodeOf, r
  <2> QED
    BY <2>7, <2>8, <2>9, <2>10 DEF u
<1>12. CASE /\ lost # "peer" /\ ~(r.version = 11 /\ ~r.host)
            /\ r.version = 11 /\ r.upgrade \in {"websocket", "other"}
  <2> DEFINE z == [y EXCEPT !.closeAfter = TRUE]
             v == [t EXCEPT !.x = z]
  <2>1. [t EXCEPT !.x.closeAfter = TRUE] = v
    BY <1>8 DEF Sys
  <2>2. z \in Object /\ At(z, c, w, g) /\ Sound(z) /\ z.id = y.id
    <3>1. z \in Object
      BY <1>5 DEF Object
    <3>2. At(z, c, w, g) /\ Sound(z) /\ z.id = y.id
      BY <1>5 DEF Object, At, Sound
    <3> QED BY <3>1, <3>2
  <2>3. /\ z.reading = s.x.reading /\ z.skip = s.x.skip /\ z.writes = s.x.writes
        /\ z.closeAfter
    BY <1>5, <1>6 DEF Object
  <2> HIDE DEF z
  <2>4. Good(v, c, w, g, T) /\ v.x = z /\ v.out = s.out /\ v.threw = s.threw
    <3>1. Good(v, c, w, g, T)
      BY <1>8, <2>2, FieldsChange
    <3>2. v.x = z /\ v.out = s.out /\ v.threw = s.threw
      BY <1>8 DEF Sys
    <3> QED BY <3>1, <3>2
  <2> HIDE DEF v
  <2>5. u = handle_upgrade(v)
    BY <1>9, <1>12, <2>1
  <2>6. /\ Good(u, c, w, g, T)
        /\ u.out = v.out /\ u.threw = v.threw
        /\ u.x.reading = z.reading /\ u.x.skip = z.skip
        /\ u.x.writes = z.writes /\ u.x.closeAfter = z.closeAfter
    BY <2>4, <2>5, UpgradeHandled
  <2>7. Failed(s, u) /\ u.x.closeAfter
    BY <2>3, <2>4, <2>6 DEF Failed, Kept
  <2> QED
    BY <2>6, <2>7 DEF u
<1>13. CASE /\ lost # "peer" /\ ~(r.version = 11 /\ ~r.host)
            /\ ~(r.version = 11 /\ r.upgrade \in {"websocket", "other"})
  <2> DEFINE z == handle_rule(y)
             v == [t EXCEPT !.x = z]
  <2>1. CASE s.x.completed
    <3>1. u = complete_request(t, lost)
      BY <1>6, <1>9, <1>13, <2>1
    <3>2. Good(u, c, w, g, T)
      BY <1>8, <3>1, RequestCompleted
    <3> QED
      BY <2>1, <3>2 DEF u
  <2>2. CASE ~s.x.completed
    <3>1. u = complete_request(v, lost)
      BY <1>6, <1>9, <1>13, <2>2
    <3>2. /\ z \in Object /\ At(z, c, w, g) /\ Sound(z) /\ z.id = y.id
          /\ z.code = IF r.target = "file" THEN 200 ELSE 404
          /\ z.reading = s.x.reading /\ z.skip = s.x.skip
          /\ z.writes = s.x.writes /\ z.at = "head"
      BY <1>5, <1>6, RuleHandled
    <3>3. z.code = CodeOf(s.x.req)
      BY <1>13, <3>2 DEF CodeOf, r
    <3> HIDE DEF z
    <3>4. Good(v, c, w, g, T) /\ v.x = z /\ v.out = s.out /\ v.threw = s.threw
      <4>1. Good(v, c, w, g, T)
        BY <1>5, <1>8, <3>2, FieldsChange
      <4>2. v.x = z /\ v.out = s.out /\ v.threw = s.threw
        BY <1>8 DEF Sys
      <4> QED BY <4>1, <4>2
    <3> HIDE DEF v
    <3>5. /\ Good(u, c, w, g, T)
          /\ Sent(v, u, z.code) \/ (lost = "write" /\ Failed(v, u))
      BY <3>1, <3>4, RequestCompleted
    <3>6. Failed(v, u) => Failed(s, u)
      BY <3>2, <3>4 DEF Failed, Kept
    <3>7. Sent(v, u, z.code) => Sent(s, u, z.code)
      BY <3>2, <3>4 DEF Sent
    <3> QED
      BY <3>3, <3>5, <3>6, <3>7 DEF u
  <2> QED
    BY <2>1, <2>2
<1> QED
  BY <1>10, <1>11, <1>12, <1>13

-----------------------------------------------------------------------------
(* The parser, token by token.                                             *)
LEMMA TokenParsed ==
  ASSUME NEW s, NEW c, NEW w, NEW g, NEW T, Good(s, c, w, g, T),
         NEW token \in Token, NEW lost
  PROVE  Good(Parsed(s, token, lost), c, w, g, T)
<1> DEFINE u == Parsed(s, token, lost)
<1>1. s \in Sys /\ s.x \in Object /\ At(s.x, c, w, g) /\ Sound(s.x)
  BY ObjectOfGood DEF At
<1>2. token.of \in Request
  BY DEF Token
<1>3. CASE s.threw \/ s.x.at = "error"
  BY <1>3 DEF Parsed
<1>4. CASE ~s.threw /\ token.part = "line" /\ s.x.at = "start"
  <2>1. u = handle_url(s, token.of)
    BY <1>4 DEF Parsed
  <2> HIDE DEF u
  <2> QED BY <1>2, <2>1, UrlHandled DEF u
<1>5. CASE ~s.threw /\ token.part = "head" /\ s.x.at = "line"
  <2>1. u = handle_header(s)
    BY <1>5 DEF Parsed
  <2> HIDE DEF u
  <2> QED BY <1>5, <2>1, HeaderHandled DEF u
<1>6. CASE ~s.threw /\ token.part = "end" /\ s.x.at = "head"
  <2>1. u = handle(s, lost)
    BY <1>6 DEF Parsed
  <2> HIDE DEF u
  <2> QED BY <1>6, <2>1, RequestHandled DEF u
<1>7. CASE /\ ~(s.threw \/ s.x.at = "error")
           /\ ~(token.part = "line" /\ s.x.at = "start")
           /\ ~(token.part = "head" /\ s.x.at = "line")
           /\ ~(token.part = "end" /\ s.x.at = "head")
  <2> DEFINE y == [s.x EXCEPT !.at = "error"]
  <2>1. u = [s EXCEPT !.x = y]
    BY <1>1, <1>7 DEF Parsed, Sys
  <2>2. y \in Object
    BY <1>1 DEF Object
  <2>3. At(y, c, w, g) /\ Sound(y) /\ y.id = s.x.id
    BY <1>1 DEF Object, At, Sound
  <2> HIDE DEF u, y
  <2>4. Good([s EXCEPT !.x = y], c, w, g, T)
    BY <2>2, <2>3, FieldsChange
  <2> QED BY <2>1, <2>4 DEF u
<1> QED
  BY <1>3, <1>4, <1>5, <1>6, <1>7

(* A read goes through the parser token by token.                          *)
LEMMA ReadFed ==
  ASSUME NEW s, NEW c, NEW w, NEW g, NEW T, Good(s, c, w, g, T),
         NEW tokens \in Seq(Token), NEW lost
  PROVE  Good(feed(s, tokens, lost), c, w, g, T)
<1>1. ASSUME NEW u, Good(u, c, w, g, T), NEW i
      PROVE  Good(Fed(u, tokens, i, lost), c, w, g, T)
  <2>1. CASE i \in DOMAIN tokens
    <3>1. tokens[i] \in Token
      BY <2>1
    <3>2. Fed(u, tokens, i, lost) = Parsed(u, tokens[i], lost)
      BY <2>1 DEF Fed
    <3> QED BY <1>1, <3>1, <3>2, TokenParsed
  <2>2. CASE i \notin DOMAIN tokens
    BY <1>1, <2>2 DEF Fed
  <2> QED BY <2>1, <2>2
<1> DEFINE f(i, u) == Fed(u, tokens, i, lost)
<1>2. Good(f(1, s), c, w, g, T)
  BY <1>1
<1>3. Good(f(2, f(1, s)), c, w, g, T)
  <2> DEFINE a == f(1, s)
  <2>1. Good(a, c, w, g, T)
    BY <1>2
  <2> HIDE DEF a
  <2>2. Good(f(2, a), c, w, g, T)
    BY <1>1, <2>1
  <2> QED BY <2>2 DEF a
<1>4. Good(f(3, f(2, f(1, s))), c, w, g, T)
  <2> DEFINE a == f(2, f(1, s))
  <2>1. Good(a, c, w, g, T)
    BY <1>3
  <2> HIDE DEF a
  <2>2. Good(f(3, a), c, w, g, T)
    BY <1>1, <2>1
  <2> QED BY <2>2 DEF a
<1> QED
  BY <1>4 DEF feed

-----------------------------------------------------------------------------
(* A completion handler leaves a deadline only with a read outstanding.    *)
Armed(s) == Disarmed(s) \/ (s.x.reading /\ ~s.x.upgraded)

(* Closing the socket changes nothing else.                                *)
LEMMA SocketCloses ==
  ASSUME NEW s, NEW c, NEW w, NEW g, NEW T, Good(s, c, w, g, T)
  PROVE  LET u == CloseSocket(s)
         IN  /\ Good(u, c, w, g, T)
             /\ u.x = [s.x EXCEPT !.open = FALSE] /\ u.tasks = s.tasks
             /\ u.out = s.out /\ u.threw = s.threw
<1> DEFINE y == [s.x EXCEPT !.open = FALSE]
           u == CloseSocket(s)
<1>1. s \in Sys /\ s.x \in Object /\ At(s.x, c, w, g) /\ Sound(s.x)
  BY ObjectOfGood DEF At
<1>2. u = [s EXCEPT !.x = y]
  BY <1>1 DEF CloseSocket, Sys
<1>3. y \in Object
  BY <1>1 DEF Object
<1>4. At(y, c, w, g) /\ Sound(y) /\ y.id = s.x.id
  BY <1>1 DEF Object, At, Sound
<1> HIDE DEF y, u
<1>5. Good([s EXCEPT !.x = y], c, w, g, T)
  BY <1>3, <1>4, FieldsChange
<1>6. /\ [s EXCEPT !.x = y].x = y /\ [s EXCEPT !.x = y].tasks = s.tasks
      /\ [s EXCEPT !.x = y].out = s.out /\ [s EXCEPT !.x = y].threw = s.threw
  BY <1>1 DEF Sys
<1> QED
  BY <1>2, <1>5, <1>6 DEF u, y

(* Nor does setting is_reading.                                            *)
LEMMA ReadingSet ==
  ASSUME NEW s, NEW c, NEW w, NEW g, NEW T, Good(s, c, w, g, T), NEW b \in BOOLEAN
  PROVE  LET u == [s EXCEPT !.x.reading = b]
         IN  /\ Good(u, c, w, g, T)
             /\ u.x = [s.x EXCEPT !.reading = b] /\ u.tasks = s.tasks
             /\ u.out = s.out /\ u.threw = s.threw
<1> DEFINE y == [s.x EXCEPT !.reading = b]
           u == [s EXCEPT !.x.reading = b]
<1>1. s \in Sys /\ s.x \in Object /\ At(s.x, c, w, g) /\ Sound(s.x)
  BY ObjectOfGood DEF At
<1>2. u = [s EXCEPT !.x = y]
  BY <1>1 DEF Sys
<1>3. y \in Object
  BY <1>1 DEF Object
<1>4. At(y, c, w, g) /\ Sound(y) /\ y.id = s.x.id
  BY <1>1 DEF Object, At, Sound
<1> HIDE DEF y, u
<1>5. Good([s EXCEPT !.x = y], c, w, g, T)
  BY <1>3, <1>4, FieldsChange
<1>6. /\ [s EXCEPT !.x = y].x = y /\ [s EXCEPT !.x = y].tasks = s.tasks
      /\ [s EXCEPT !.x = y].out = s.out /\ [s EXCEPT !.x = y].threw = s.threw
  BY <1>1 DEF Sys
<1> QED
  BY <1>2, <1>5, <1>6 DEF u, y

(* What a handler that is done has changed of the connection at most.      *)
Settled(t, u) ==
  /\ u.out = t.out /\ u.threw = t.threw
  /\ u.x.at = t.x.at /\ u.x.complete = t.x.complete /\ u.x.req = t.x.req
  /\ u.x.code = t.x.code /\ u.x.file = t.x.file /\ u.x.completed = t.x.completed
  /\ u.x.writes = t.x.writes /\ u.x.skip = t.x.skip
  /\ u.x.open => t.x.open

(* The completion of a read: what was read is handled, and another read    *)
(* started or not.                                                         *)
LEMMA ReadEnds ==
  ASSUME NEW s, NEW c, NEW w, NEW g, NEW T, Good(s, c, w, g, T),
         NEW tokens \in Seq(Token), NEW lost
  PROVE  LET t == feed([s EXCEPT !.x.reading = FALSE], tokens, lost)
             u == ReadCompleted(t)
         IN  /\ Good(t, c, w, g, T) /\ Good(u, c, w, g, T)
             /\ Armed(u) /\ Settled(t, u)
             /\ u.x.reading => \/ t.x.reading
                               \/ ~t.threw /\ t.x.at # "error" /\ ~t.x.closeAfter
<1> DEFINE v == [s EXCEPT !.x.reading = FALSE]
           t == feed(v, tokens, lost)
           u == ReadCompleted(t)
<1>1. Good(v, c, w, g, T)
  BY ReadingSet
<1>2. Good(t, c, w, g, T)
  <2> HIDE DEF v
  <2> QED BY <1>1, ReadFed
<1>3. u = IF t.threw THEN t
          ELSE IF t.x.at = "error" \/ ~t.x.open THEN CloseSocket(cancel_deadline_timer(t))
          ELSE IF t.x.closeAfter THEN cancel_deadline_timer(t)
          ELSE do_read(start_deadline(t))
  BY DEF ReadCompleted
<1> HIDE DEF t, u
<1>4. t \in Sys /\ t.x \in Object /\ Sound(t.x)
  BY <1>2, ObjectOfGood
<1> DEFINE d == cancel_deadline_timer(t)
<1>5. Good(d, c, w, g, T) /\ Disarmed(d) /\ d.x = t.x /\ d.out = t.out /\ d.threw = t.threw
  BY <1>2, CancelDisarms
<1> HIDE DEF d
<1>6. CASE t.threw
  <2>1. Disarmed(t)
    BY <1>2, <1>6 DEF Good
  <2> QED
    BY <1>2, <1>3, <1>6, <2>1 DEF Armed, Settled, t, u
<1>7. CASE ~t.threw /\ (t.x.at = "error" \/ ~t.x.open)
  <2>1. u = CloseSocket(d)
    BY <1>3, <1>7 DEF d
  <2>2. Good(u, c, w, g, T) /\ u.x = [t.x EXCEPT !.open = FALSE]
        /\ u.tasks = d.tasks /\ u.out = t.out /\ u.threw = t.threw
    BY <1>5, <2>1, SocketCloses
  <2>3. Settled(t, u) /\ u.x.reading = t.x.reading /\ u.x.self = t.x.self
    BY <1>4, <2>2 DEF Settled, Object
  <2>4. Armed(u)
    BY <1>5, <2>2, <2>3 DEF Armed, Disarmed
  <2> QED
    BY <1>2, <2>2, <2>3, <2>4 DEF t, u
<1>8. CASE ~t.threw /\ t.x.at # "error" /\ t.x.open /\ t.x.closeAfter
  <2>1. u = d
    BY <1>3, <1>8 DEF d
  <2>2. Armed(u) /\ Settled(t, u) /\ u.x.reading = t.x.reading
    BY <1>5, <2>1 DEF Armed, Settled
  <2> QED
    BY <1>2, <1>5, <2>1, <2>2 DEF t, u
<1>9. CASE ~t.threw /\ t.x.at # "error" /\ t.x.open /\ ~t.x.closeAfter
  <2> DEFINE a == start_deadline(t)
  <2>1. u = [a EXCEPT !.x.reading = TRUE]
    BY <1>3, <1>9 DEF do_read
  <2>2. Good(a, c, w, g, T) /\ a.x = [t.x EXCEPT !.id = t.highest + 1]
        /\ a.out = t.out /\ a.threw = t.threw
    BY <1>2, <1>9, DeadlineStarts
  <2> HIDE DEF a
  <2>3. Good(u, c, w, g, T) /\ u.x = [a.x EXCEPT !.reading = TRUE]
        /\ u.out = a.out /\ u.threw = a.threw
    BY <2>1, <2>2, ReadingSet
  <2> DEFINE h == t.highest + 1
  <2> HIDE DEF h
  <2>4. a.x = [t.x EXCEPT !.id = h]
    BY <2>2 DEF h
  <2>5. u.x.reading /\ u.x.upgraded = t.x.upgraded /\ Settled(t, u)
    BY <1>4, <2>2, <2>3, <2>4 DEF Settled, Object
  <2>6. ~u.x.upgraded
    BY <1>4, <1>9, <2>5 DEF Sound
  <2> QED
    BY <1>2, <1>9, <2>3, <2>5, <2>6 DEF Armed, t, u
<1> QED
  BY <1>6, <1>7, <1>8, <1>9

(* A read that fails closes the socket.                                    *)
LEMMA ReadFails ==
  ASSUME NEW s, NEW c, NEW w, NEW g, NEW T, Good(s, c, w, g, T)
  PROVE  LET u == ReadFailed(s)
         IN  /\ Good(u, c, w, g, T) /\ Armed(u)
             /\ ~u.x.reading /\ ~u.x.open /\ u.out = s.out /\ u.x.writes = s.x.writes
             /\ u.x.skip = s.x.skip /\ u.x.at = s.x.at
<1> DEFINE v == [s EXCEPT !.x.reading = FALSE]
           d == cancel_deadline_timer(v)
           u == ReadFailed(s)
<1>1. Good(v, c, w, g, T) /\ v.x = [s.x EXCEPT !.reading = FALSE] /\ v.out = s.out
  BY ReadingSet
<1>2. s.x \in Object
  BY ObjectOfGood
<1>3. u = CloseSocket(d)
  BY DEF ReadFailed
<1> HIDE DEF v, u
<1>4. Good(d, c, w, g, T) /\ Disarmed(d) /\ d.x = v.x /\ d.out = v.out
  BY <1>1, CancelDisarms
<1> HIDE DEF d
<1>5. Good(u, c, w, g, T) /\ u.x = [d.x EXCEPT !.open = FALSE]
      /\ u.tasks = d.tasks /\ u.out = d.out
  BY <1>3, <1>4, SocketCloses
<1>6. /\ ~u.x.reading /\ ~u.x.open /\ u.out = s.out /\ u.x.writes = s.x.writes
      /\ u.x.skip = s.x.skip /\ u.x.at = s.x.at /\ u.x.self = d.x.self
  BY <1>1, <1>2, <1>4, <1>5 DEF Object
<1>7. Armed(u)
  BY <1>4, <1>5, <1>6 DEF Armed, Disarmed
<1> QED
  BY <1>5, <1>6, <1>7 DEF u

(* A completed write: the parser and the response start anew.              *)
LEMMA WriteEnds ==
  ASSUME NEW s, NEW c, NEW w, NEW g, NEW T, Good(s, c, w, g, T), s.x.writes # <<>>,
         NEW ok
  PROVE  LET u == WriteCompleted(s, ok)
             x == s.x
             y == u.x
         IN  /\ Good(u, c, w, g, T) /\ u.tasks = s.tasks /\ u.out = s.out
             /\ y.reading = x.reading /\ y.upgraded = x.upgraded /\ y.skip = x.skip
             /\ y.open => x.open
             /\ y.writes = Tail(x.writes)
             /\ ~y.complete /\ ~y.completed /\ ~y.file /\ y.code = 200
             /\ y.at = IF x.at = "error" THEN "error" ELSE "start"
<1> DEFINE ws == Tail(s.x.writes)
           z == [s.x EXCEPT !.writes = ws]
           y == ResCleared(ParserCleared(z))
           y2 == IF ok /\ y.closeAfter THEN [y EXCEPT !.open = FALSE] ELSE y
           u == WriteCompleted(s, ok)
<1>1. s \in Sys /\ s.x \in Object /\ At(s.x, c, w, g) /\ Sound(s.x)
  BY ObjectOfGood DEF At
<1>2. s.x.writes \in Seq(Answer)
  BY <1>1 DEF Object
<1>3. ws \in Seq(Answer)
  BY <1>2
<1>4. u = [s EXCEPT !.x = y2]
  BY <1>1 DEF WriteCompleted, Sys
<1> HIDE DEF ws, u
<1>5. z \in Object
  BY <1>1, <1>3 DEF Object
<1>6. At(z, c, w, g) /\ Sound(z)
  BY <1>1 DEF Object, At, Sound
<1>7. /\ z.id = s.x.id /\ z.reading = s.x.reading /\ z.upgraded = s.x.upgraded
      /\ z.skip = s.x.skip /\ z.open = s.x.open /\ z.writes = ws /\ z.at = s.x.at
  BY <1>1 DEF Object
<1> HIDE DEF z
<1>8. /\ y \in Object /\ At(y, c, w, g) /\ Sound(y)
      /\ y = [z EXCEPT !.at = IF z.at = "error" THEN "error" ELSE "start",
                       !.complete = FALSE, !.req = None, !.code = 200,
                       !.file = FALSE, !.completed = FALSE]
  BY <1>5, <1>6, ClearedTyped
<1> HIDE DEF y
<1>9. /\ y.id = z.id /\ y.reading = z.reading /\ y.upgraded = z.upgraded
      /\ y.skip = z.skip /\ y.open = z.open /\ y.writes = z.writes
      /\ ~y.complete /\ ~y.completed /\ ~y.file /\ y.code = 200
      /\ y.at = IF z.at = "error" THEN "error" ELSE "start"
  BY <1>5, <1>8 DEF Object
<1>10. /\ y2 \in Object /\ y2.id = y.id /\ y2.reading = y.reading
       /\ y2.upgraded = y.upgraded /\ y2.skip = y.skip /\ y2.writes = y.writes
       /\ ~y2.complete /\ ~y2.completed /\ ~y2.file /\ y2.code = 200 /\ y2.at = y.at
       /\ y2.open => y.open
  <2>1. CASE ok /\ y.closeAfter
    <3>1. y2 = [y EXCEPT !.open = FALSE]
      BY <2>1
    <3> HIDE DEF y2
    <3>2. y \in Object
      BY <1>8
    <3>3. y2 \in Object
      BY <3>1, <3>2 DEF Object
    <3> QED
      BY <1>9, <3>1, <3>2, <3>3 DEF Object
  <2>2. CASE ~(ok /\ y.closeAfter)
    BY <1>8, <1>9, <2>2
  <2> QED BY <2>1, <2>2
<1>11. At(y2, c, w, g) /\ Sound(y2)
  BY <1>8 DEF Object, At, Sound
<1> HIDE DEF y2
<1>12. Good([s EXCEPT !.x = y2], c, w, g, T)
  BY <1>7, <1>9, <1>10, <1>11, FieldsChange
<1>13. /\ [s EXCEPT !.x = y2].x = y2 /\ [s EXCEPT !.x = y2].tasks = s.tasks
       /\ [s EXCEPT !.x = y2].out = s.out
  BY <1>1 DEF Sys
<1> QED
  BY <1>4, <1>7, <1>9, <1>10, <1>12, <1>13 DEF u, ws

-----------------------------------------------------------------------------
(***************************************************************************)
(* The inductive invariant.  Connections are accepted in order, and one    *)
(* that was destroyed holds nothing.                                       *)
(***************************************************************************)
Placed(x, c) ==
  /\ x.stage # "none" => x.self = c
  /\ x.stage \notin {"none", "waiting"} => c \in DOMAIN client
  /\ x.stage # "live" => ~x.reading /\ x.writes = <<>>
  /\ x.stage = "none" => x = Unused
  /\ x.stage \in {"waiting", "posted"} => x = [New(c, x.worker) EXCEPT !.stage = x.stage]
  /\ x.stage = "waiting" => \A d \in Conns : d > c => conn[d].stage = "none"

Objects == \A c \in Conns : Sound(conn[c]) /\ Placed(conn[c], c)

(* The connection that is waited for has its place in a queue.             *)
Queued == \A c \in Conns : conn[c].stage = "waiting" => load[conn[c].worker] > 0

Served == TypeOK /\ Objects /\ Queued /\ DeadlineWhileReading

(* A new connection object is one ...                                      *)
LEMMA NewTyped ==
  ASSUME NEW c \in Conns, NEW w \in Workers
  PROVE  /\ New(c, w) \in Object /\ Sound(New(c, w))
         /\ New(c, w).stage = "waiting"
<1> DEFINE k == 200
           q == None
           i == 0
           b == <<>>
           y == [self |-> c, worker |-> w, stage |-> "waiting", open |-> TRUE,
                 upgraded |-> FALSE, id |-> i, reading |-> FALSE, writes |-> b,
                 closeAfter |-> FALSE, at |-> "start", complete |-> FALSE,
                 req |-> q, code |-> k, file |-> FALSE, completed |-> FALSE,
                 skip |-> FALSE]
<1>1. k \in Codes /\ q \in Request \cup {None} /\ i \in Nat /\ b \in Seq(Answer)
  BY DEF Codes
<1>2. New(c, w) = y
  BY DEF New
<1> HIDE DEF k, q, i, b
<1>3. y \in Object
  BY <1>1 DEF Object
<1>4. Sound(y) /\ y.stage = "waiting"
  BY DEF Sound
<1> QED
  BY <1>2, <1>3, <1>4

(* ... and these are its fields.                                           *)
LEMMA NewIs ==
  ASSUME NEW c, NEW w
  PROVE  LET x == New(c, w)
         IN  /\ x.self = c /\ x.worker = w /\ x.stage = "waiting" /\ x.open
             /\ ~x.upgraded /\ ~x.reading /\ x.writes = <<>> /\ x.at = "start"
             /\ ~x.complete /\ ~x.completed /\ ~x.file /\ x.code = 200 /\ ~x.skip
BY DEF New

(* The fields of a number that no connection has ...                       *)
LEMMA UnusedIs ==
  /\ Unused.stage = "none" /\ ~Unused.reading /\ Unused.writes = <<>>
  /\ ~Unused.upgraded /\ Unused.at = "start"
  /\ ~Unused.complete /\ ~Unused.completed /\ ~Unused.file /\ Unused.code = 200
  /\ ~Unused.skip
BY DEF Unused, New

(* ... which is an object too.                                             *)
LEMMA UnusedTyped == Unused \in Object /\ Sound(Unused)
<1> DEFINE n == New(1, 1)
<1>1. 1 \in Conns /\ 1 \in Workers
  BY SizesType DEF Conns, Workers
<1>2. n \in Object
  BY <1>1, NewTyped
<1>3. Unused = [n EXCEPT !.stage = "none", !.open = FALSE]
  BY DEF Unused
<1> HIDE DEF n
<1>4. Unused \in Object
  BY <1>2, <1>3 DEF Object
<1> QED
  BY <1>4, UnusedIs DEF Sound

(* To leave the stage is to leave the object.                              *)
LEMMA SameStage ==
  ASSUME NEW x \in Object
  PROVE  [x EXCEPT !.stage = x.stage] = x
BY DEF Object

-----------------------------------------------------------------------------
(* The invariant holds at the start.                                       *)
LEMMA InitServed == Init => Served
<1> SUFFICES ASSUME Init PROVE Served
  OBVIOUS
<1>1. 1 \in Conns /\ 1 \in Workers /\ Conns \subseteq Nat
  BY SizesType DEF Conns, Workers
<1>2. PICK p \in Plans :
        client = [c \in DOMAIN p |-> [script |-> p[c], past |-> <<>>, whole |-> TRUE,
                                      inbound |-> <<>>, gone |-> FALSE, stalled |-> FALSE]]
  BY DEF Init
<1>3. \A c \in Conns : conn[c] = (IF c = 1 THEN New(1, 1) ELSE Unused)
  BY DEF Init
<1>4. New(1, 1) \in Object /\ Sound(New(1, 1)) /\ New(1, 1).stage = "waiting"
  BY <1>1, NewTyped
<1>5. conn \in [Conns -> Object]
  <2>1. conn = [c \in Conns |-> IF c = 1 THEN New(1, 1) ELSE Unused]
    BY DEF Init
  <2> QED BY <1>4, <2>1, UnusedTyped
<1>6. timer \in [Workers -> Timer] /\ \A w \in Workers : timer[w].tasks = {}
  BY DEF Init, Timer
<1>7. DOMAIN client \subseteq Conns
  <2>1. p \in Seq(Seq(Request)) /\ Len(p) <= NConns
    BY <1>2, PlansType
  <2>2. DOMAIN p \subseteq 1 .. NConns
    BY <2>1, SizesType
  <2> QED BY <1>2, <2>2 DEF Conns
<1>8. \A c \in DOMAIN client : client[c] \in Peer /\ Len(client[c].inbound) <= 3
  <2> SUFFICES ASSUME NEW c \in DOMAIN p
               PROVE  client[c] \in Peer /\ Len(client[c].inbound) <= 3
    BY <1>2
  <2>1. client[c] = [script |-> p[c], past |-> <<>>, whole |-> TRUE,
                     inbound |-> <<>>, gone |-> FALSE, stalled |-> FALSE]
    BY <1>2
  <2>2. p[c] \in Seq(Request)
    BY <1>2, PlansType
  <2> QED BY <2>1, <2>2 DEF Peer
<1>9. TypeOK
  <2>1. load \in [Workers -> Nat]
    BY DEF Init
  <2>2. /\ answers \in [Conns -> Seq(Answer)] /\ robbed \subseteq Conns
        /\ held \in [Workers -> {0} \cup Conns]
    BY DEF Init
  <2> QED BY <1>5, <1>6, <1>7, <1>8, <2>1, <2>2 DEF TypeOK
<1>10. Objects
  <2> SUFFICES ASSUME NEW c \in Conns PROVE Sound(conn[c]) /\ Placed(conn[c], c)
    BY DEF Objects
  <2>1. CASE c = 1
    <3>1. conn[c] = New(1, 1)
      BY <1>3, <2>1
    <3>2. New(1, 1) = [New(1, 1) EXCEPT !.stage = "waiting"]
      BY <1>4, SameStage
    <3>3. \A d \in Conns : d > 1 => conn[d].stage = "none"
      BY <1>1, <1>3, UnusedIs
    <3> QED BY <1>4, <2>1, <3>1, <3>2, <3>3, NewIs DEF Placed
  <2>2. CASE c # 1
    <3>1. conn[c] = Unused
      BY <1>3, <2>2
    <3> QED BY <3>1, UnusedIs, UnusedTyped DEF Placed
  <2> QED BY <2>1, <2>2
<1>11. DeadlineWhileReading
  BY <1>6 DEF DeadlineWhileReading
<1>12. Queued
  <2>1. \A c \in Conns : conn[c].stage = "waiting" => conn[c].worker = 1
    BY <1>3, NewIs, UnusedIs
  <2>2. load[1] = 1
    BY <1>1 DEF Init
  <2> QED BY <2>1, <2>2 DEF Queued
<1> QED
  BY <1>9, <1>10, <1>11, <1>12 DEF Served

-----------------------------------------------------------------------------
(* A handler begins with what its connection has.                          *)
LEMMA SystemGood ==
  ASSUME Served, NEW c \in Conns, conn[c].stage \notin {"none", "waiting"}
  PROVE  /\ Good(System(c), c, conn[c].worker, conn[c].stage, timer[conn[c].worker].tasks)
         /\ System(c).x = conn[c] /\ System(c).out = <<>> /\ ~System(c).threw
         /\ System(c).tasks = timer[conn[c].worker].tasks
<1> DEFINE s == System(c)
           w == conn[c].worker
<1>1. conn[c] \in Object /\ Sound(conn[c]) /\ conn[c].self = c
  BY DEF Served, TypeOK, Objects, Placed
<1>2. w \in Workers
  BY <1>1 DEF Object
<1>3. timer[w] \in Timer /\ \A t \in timer[w].tasks : t.id \in 1 .. timer[w].highest
  BY <1>2 DEF Served, TypeOK
<1>4. s = [x |-> conn[c], tasks |-> timer[w].tasks, highest |-> timer[w].highest,
           out |-> <<>>, robbed |-> {}, threw |-> FALSE]
  BY DEF System
<1>5. \A t \in timer[w].tasks : t.conn = c => t.id = conn[c].id
  BY <1>2 DEF Served, DeadlineWhileReading
<1> HIDE DEF s, w
<1>6. timer[w].tasks \in SUBSET Task /\ timer[w].highest \in Nat
  BY <1>3 DEF Timer
<1>7. s \in Sys
  BY <1>1, <1>4, <1>6 DEF Sys
<1>8. s.x = conn[c] /\ s.out = <<>> /\ ~s.threw /\ s.tasks = timer[w].tasks
      /\ s.highest = timer[w].highest
  BY <1>4
<1>9. Clock(s, timer[w].tasks)
  BY <1>1, <1>3, <1>5, <1>8 DEF Clock
<1> QED
  BY <1>1, <1>7, <1>8, <1>9 DEF Good, At, s, w

(* An object that nothing holds has nothing under way.                     *)
LEMMA ReleasedIs ==
  ASSUME NEW x \in Object, Sound(x), x.stage = "live", NEW tasks
  PROVE  LET y == Released(x, tasks)
         IN  /\ y \in Object /\ Sound(y)
             /\ y.stage \in {"live", "released"}
             /\ y.stage # "live" => ~y.reading /\ y.writes = <<>>
             /\ y.self = x.self /\ y.worker = x.worker /\ y.id = x.id
             /\ y.reading = x.reading /\ y.writes = x.writes /\ y.upgraded = x.upgraded
             /\ y.at = x.at /\ y.complete = x.complete /\ y.completed = x.completed
             /\ y.file = x.file /\ y.code = x.code /\ y.skip = x.skip /\ y.req = x.req
             /\ y.open => x.open
<1>0. x \in Object
  OBVIOUS
<1> DEFINE y == Released(x, tasks)
<1>1. CASE Held(x, tasks)
  <2>1. y = x
    BY <1>1 DEF Released
  <2> QED BY <2>1
<1>2. CASE ~Held(x, tasks)
  <2>1. y = [x EXCEPT !.stage = "released", !.open = FALSE]
    BY <1>2 DEF Released
  <2>2. ~x.reading /\ x.writes = <<>>
    BY <1>2 DEF Held
  <2> HIDE DEF y
  <2>3. y \in Object
    BY <1>0, <2>1 DEF Object
  <2>4. Sound(y)
    BY <1>0, <2>1 DEF Object, Sound
  <2> QED
    BY <1>0, <2>1, <2>2, <2>3, <2>4 DEF Object, y
<1> QED
  BY <1>1, <1>2

(* What a handler of c leaves keeps the invariant.                         *)
Left(c, s) ==
  /\ conn' = [conn EXCEPT ![c] = Released(s.x, s.tasks)]
  /\ timer' = [timer EXCEPT ![s.x.worker] = [tasks |-> s.tasks, highest |-> s.highest]]
  /\ answers' = [answers EXCEPT ![c] = @ \o s.out]
  /\ robbed' = robbed \cup s.robbed

(* A worker that has done with a file, or never had one, keeps `held` one  *)
(* of connections.                                                         *)
LEMMA HeldStays ==
  ASSUME Served
  PROVE  /\ held \in [Workers -> {0} \cup Conns]
         /\ \A w, k : k \in {0} \cup Conns => [held EXCEPT ![w] = k] \in [Workers -> {0} \cup Conns]
BY DEF Served, TypeOK

(* It is kept by a handler that leaves a good system behind.               *)
LEMMA LeftKeeps ==
  ASSUME Served, NEW c \in Conns, conn[c].stage \in {"posted", "live"},
         NEW s, Good(s, c, conn[c].worker, "live", timer[conn[c].worker].tasks),
         Armed(s), Left(c, s),
         DOMAIN client' = DOMAIN client,
         \A d \in DOMAIN client : client'[d] \in Peer /\ Len(client'[d].inbound) <= 3,
         UNCHANGED load, held' \in [Workers -> {0} \cup Conns]
  PROVE  Served' /\ conn'[c].stage # "waiting"
<1> DEFINE w == conn[c].worker
           y == Released(s.x, s.tasks)
           tm == [tasks |-> s.tasks, highest |-> s.highest]
<1>1. s \in Sys /\ s.x \in Object /\ s.tasks \in SUBSET Task
      /\ s.highest \in Nat /\ s.out \in Seq(Answer)
      /\ s.robbed \in SUBSET Conns /\ Sound(s.x)
      /\ s.x.self = c /\ s.x.worker = w /\ s.x.stage = "live"
  BY ObjectOfGood
<1>2. conn \in [Conns -> Object] /\ timer \in [Workers -> Timer] /\ w \in Workers
  <2>1. conn \in [Conns -> Object] /\ timer \in [Workers -> Timer]
    BY DEF Served, TypeOK
  <2>2. conn[c] \in Object
    BY <2>1
  <2> QED BY <2>1, <2>2 DEF Object
<1>3. /\ y \in Object /\ Sound(y)
      /\ y.stage \in {"live", "released"}
      /\ y.stage # "live" => ~y.reading /\ y.writes = <<>>
      /\ y.self = c /\ y.worker = w /\ y.id = s.x.id
      /\ y.reading = s.x.reading /\ y.upgraded = s.x.upgraded
  BY <1>1, ReleasedIs
<1>4. /\ conn' = [conn EXCEPT ![c] = y]
      /\ timer' = [timer EXCEPT ![w] = tm]
      /\ answers' = [answers EXCEPT ![c] = @ \o s.out]
      /\ robbed' = robbed \cup s.robbed
  BY <1>1 DEF Left
<1>5. Clock(s, timer[w].tasks)
  BY DEF Good
<1> HIDE DEF y, w
<1>6. conn'[c] = y /\ \A d \in Conns : d # c => conn'[d] = conn[d]
  BY <1>2, <1>4
<1>7. /\ timer'[w].tasks = s.tasks /\ timer'[w].highest = s.highest
      /\ \A v \in Workers : v # w => timer'[v] = timer[v]
  BY <1>2, <1>4
<1>8. TypeOK'
  <2>1. conn' \in [Conns -> Object]
    BY <1>2, <1>3, <1>4
  <2>2. timer' \in [Workers -> Timer]
    <3>1. tm \in Timer
      BY <1>1 DEF Timer
    <3> HIDE DEF tm
    <3> QED BY <1>2, <1>4, <3>1
  <2>3. \A v \in Workers : \A t \in timer'[v].tasks : t.id \in 1 .. timer'[v].highest
    <3>1. \A t \in s.tasks : t.id \in 1 .. s.highest
      BY <1>5 DEF Clock
    <3> QED BY <1>7, <3>1 DEF Served, TypeOK
  <2>4. answers' \in [Conns -> Seq(Answer)]
    <3>1. answers \in [Conns -> Seq(Answer)]
      BY DEF Served, TypeOK
    <3>2. answers[c] \o s.out \in Seq(Answer)
      BY <1>1, <3>1
    <3> QED BY <1>4, <3>1, <3>2
  <2>5. robbed' \subseteq Conns /\ load' \in [Workers -> Nat]
        /\ DOMAIN client' \subseteq Conns
    BY <1>1, <1>4 DEF Served, TypeOK
  <2>6. \A d \in DOMAIN client' : client'[d] \in Peer /\ Len(client'[d].inbound) <= 3
    OBVIOUS
  <2> QED
    BY <2>1, <2>2, <2>3, <2>4, <2>5, <2>6 DEF TypeOK
<1>9. Objects'
  <2> SUFFICES ASSUME NEW d \in Conns PROVE (Sound(conn[d]) /\ Placed(conn[d], d))'
    BY DEF Objects
  <2>0. c \in DOMAIN client
    BY DEF Served, Objects, Placed
  <2>1. CASE d = c
    BY <1>3, <1>6, <2>0, <2>1 DEF Placed, Sound
  <2>2. CASE d # c
    <3>1. Sound(conn[d]) /\ Placed(conn[d], d) /\ conn'[d] = conn[d]
      BY <1>6, <2>2 DEF Served, Objects
    <3>2. ASSUME conn[d].stage = "waiting", NEW e \in Conns, e > d
          PROVE  conn'[e].stage = "none"
      <4>1. conn[e].stage = "none"
        BY <3>1, <3>2 DEF Placed
      <4>2. e # c
        BY <4>1
      <4> QED BY <1>6, <4>1, <4>2
    <3> QED BY <3>1, <3>2 DEF Placed, Sound
  <2> QED BY <2>1, <2>2
<1>10. DeadlineWhileReading'
  <2> SUFFICES ASSUME NEW v \in Workers, NEW t \in timer'[v].tasks
               PROVE  /\ conn'[t.conn].worker = v /\ conn'[t.conn].id = t.id
                      /\ conn'[t.conn].reading /\ ~conn'[t.conn].upgraded
    BY DEF DeadlineWhileReading
  <2>1. \A u \in Workers : \A r \in timer[u].tasks :
            /\ r.conn \in Conns
            /\ conn[r.conn].worker = u /\ conn[r.conn].id = r.id
            /\ conn[r.conn].reading /\ ~conn[r.conn].upgraded
    BY <1>2 DEF Served, DeadlineWhileReading, Timer, Task
  <2>2. CASE v = w /\ t.conn = c
    <3>1. t \in s.tasks
      BY <1>7, <2>2
    <3>2. t.id = s.x.id
      BY <1>1, <1>5, <2>2, <3>1 DEF Clock
    <3>3. s.x.reading /\ ~s.x.upgraded
      BY <1>1, <2>2, <3>1 DEF Armed, Disarmed
    <3> QED BY <1>3, <1>6, <2>2, <3>2, <3>3
  <2>3. CASE v = w /\ t.conn # c
    <3>1. t \in timer[w].tasks
      BY <1>1, <1>5, <1>7, <2>3 DEF Clock
    <3> QED BY <1>2, <1>6, <2>1, <2>3, <3>1
  <2>4. CASE v # w
    <3>1. t \in timer[v].tasks
      BY <1>7, <2>4
    <3>2. t.conn # c
      BY <1>2, <2>1, <2>4, <3>1 DEF w
    <3> QED BY <1>6, <2>1, <3>1, <3>2
  <2> QED BY <2>2, <2>3, <2>4
<1>11. Queued'
  BY <1>3, <1>6 DEF Served, Queued
<1> QED
  BY <1>3, <1>6, <1>8, <1>9, <1>10, <1>11 DEF Served

-----------------------------------------------------------------------------
(* The first read of a connection, with the first deadline.                *)
Begun(c) ==
  LET s == start_deadline(System(c))
  IN  do_read([s EXCEPT !.x = ParserCleared([@ EXCEPT !.stage = "live"])])

(* start() leaves a good one, with a read outstanding.                     *)
LEMMA BeginEnds ==
  ASSUME Served, NEW c \in Conns, conn[c].stage = "posted"
  PROVE  LET u == Begun(c)
         IN  /\ Good(u, c, conn[c].worker, "live", timer[conn[c].worker].tasks)
             /\ Armed(u) /\ u.out = <<>>
             /\ u.x.reading /\ u.x.at = "start" /\ u.x.writes = <<>> /\ ~u.x.skip
             /\ ~u.x.complete /\ ~u.x.completed /\ ~u.x.file /\ u.x.code = 200
<1> DEFINE w == conn[c].worker
           T == timer[w].tasks
           a == start_deadline(System(c))
           h == System(c).highest + 1
           q == None
           z == [a.x EXCEPT !.stage = "live"]
           y == [z EXCEPT !.at = "start", !.complete = FALSE, !.req = q]
           v == [a EXCEPT !.x = y]
           u == Begun(c)
<1>1. /\ Good(System(c), c, w, "posted", T)
      /\ System(c).x = conn[c] /\ System(c).out = <<>> /\ ~System(c).threw
  BY SystemGood
<1>2. Good(a, c, w, "posted", T) /\ a.x = [conn[c] EXCEPT !.id = h]
      /\ a.out = <<>> /\ a.threw = System(c).threw
  BY <1>1, DeadlineStarts
<1>3. conn[c] \in Object /\ h \in Nat
  BY <1>1, ObjectOfGood
<1>4. conn[c] = [New(c, w) EXCEPT !.stage = "posted"]
  BY DEF Served, Objects, Placed
<1>5. /\ conn[c].at = "start" /\ conn[c].writes = <<>> /\ ~conn[c].skip
      /\ ~conn[c].complete /\ ~conn[c].completed /\ ~conn[c].file /\ conn[c].code = 200
      /\ ~conn[c].upgraded
  BY <1>4 DEF New
<1>6. q \in Request \cup {None}
  OBVIOUS
<1> HIDE DEF h
<1>7. a.x \in Object /\ a \in Sys /\ a.x.self = c /\ a.x.worker = w
  <2>1. Good(a, c, w, "posted", T)
    BY <1>2
  <2> HIDE DEF a, w, T
  <2> QED BY <2>1, ObjectOfGood
<1>8. /\ a.x.at = "start" /\ a.x.writes = <<>> /\ ~a.x.skip
      /\ ~a.x.complete /\ ~a.x.completed /\ ~a.x.file /\ a.x.code = 200
      /\ ~a.x.upgraded
  BY <1>2, <1>3, <1>5 DEF Object
<1> HIDE DEF a, q
<1>9. z \in Object /\ z.at = "start"
  BY <1>7, <1>8 DEF Object
<1>10. /\ z.self = c /\ z.worker = w /\ z.stage = "live" /\ z.id = a.x.id
       /\ z.writes = <<>> /\ ~z.skip /\ ~z.completed /\ ~z.file /\ z.code = 200
       /\ ~z.upgraded
  BY <1>7, <1>8 DEF Object
<1> HIDE DEF z
<1>11. ParserCleared(z) = y
  BY <1>9 DEF ParserCleared, q
<1>12. y \in Object
  BY <1>6, <1>9 DEF Object
<1>13. /\ At(y, c, w, "live") /\ Sound(y) /\ y.id = a.x.id
       /\ y.writes = <<>> /\ ~y.skip /\ ~y.completed /\ ~y.file /\ y.code = 200
       /\ ~y.complete /\ y.at = "start" /\ ~y.upgraded
  BY <1>9, <1>10 DEF Object, At, Sound
<1> HIDE DEF y
<1>14. Good(v, c, w, "live", T)
  BY <1>2, <1>12, <1>13, FieldsAndStageChange
<1>15. v.x = y /\ v.out = <<>>
  BY <1>2, <1>7 DEF Sys
<1>16. u = [v EXCEPT !.x.reading = TRUE]
  <2>1. [a EXCEPT !.x = ParserCleared([@ EXCEPT !.stage = "live"])] = v
    BY <1>7, <1>11 DEF z, Sys
  <2> HIDE DEF v
  <2>2. u = do_read([a EXCEPT !.x = ParserCleared([@ EXCEPT !.stage = "live"])])
    BY DEF Begun, a
  <2> QED BY <2>1, <2>2 DEF do_read
<1> HIDE DEF u, v, T, w
<1>17. Good(u, c, w, "live", T) /\ u.x = [y EXCEPT !.reading = TRUE] /\ u.out = <<>>
  BY <1>14, <1>15, <1>16, ReadingSet
<1>18. /\ u.x.reading /\ u.x.at = "start" /\ u.x.writes = <<>> /\ ~u.x.skip
       /\ ~u.x.complete /\ ~u.x.completed /\ ~u.x.file /\ u.x.code = 200
       /\ ~u.x.upgraded
  BY <1>12, <1>13, <1>17 DEF Object
<1> QED
  BY <1>17, <1>18 DEF Armed, u, w, T

-----------------------------------------------------------------------------
(* The steps of a connection.                                              *)
LEMMA StartServed ==
  ASSUME Served, NEW c \in Conns, start(c)
  PROVE  Served' /\ conn'[c].stage # "waiting"
<1>1. conn[c].stage = "posted" /\ Leave(c, Begun(c)) /\ UNCHANGED <<load, held, client>>
  BY DEF start, Begun
<1>2. PICK u : u = Begun(c) /\ Left(c, u)
  BY <1>1 DEF Leave, Left
<1>3. Good(u, c, conn[c].worker, "live", timer[conn[c].worker].tasks) /\ Armed(u)
  BY <1>1, <1>2, BeginEnds
<1>4. /\ DOMAIN client' = DOMAIN client
      /\ \A d \in DOMAIN client : client'[d] \in Peer /\ Len(client'[d].inbound) <= 3
  BY <1>1 DEF Served, TypeOK
<1> QED
  BY <1>1, <1>2, <1>3, <1>4, HeldStays, LeftKeeps

(* Only a live connection reads or writes.                                 *)
LEMMA ReadersAreLive ==
  ASSUME Served, NEW c \in Conns, conn[c].reading \/ conn[c].writes # <<>>
  PROVE  conn[c].stage = "live" /\ c \in DOMAIN client
BY DEF Served, Objects, Placed

(* What a read takes from the bytes that wait, and what it leaves.         *)
LEMMA InboundShrinks ==
  ASSUME Served, NEW c \in DOMAIN client, NEW n \in 1 .. Len(client[c].inbound)
  PROVE  LET p == client[c]
             r == SubSeq(p.inbound, n + 1, Len(p.inbound))
             t == SubSeq(p.inbound, 1, n)
         IN  /\ t \in Seq(Token) /\ Len(t) = n /\ \A i \in 1 .. n : t[i] = p.inbound[i]
             /\ r \in Seq(Token) /\ Len(r) = Len(p.inbound) - n
             /\ \A i \in 1 .. Len(r) : r[i] = p.inbound[n + i]
             /\ [p EXCEPT !.inbound = r] \in Peer /\ Len(p.inbound) <= 3
<1> DEFINE p == client[c]
           m == Len(p.inbound)
           r == SubSeq(p.inbound, n + 1, m)
           t == SubSeq(p.inbound, 1, n)
<1>1. p \in Peer /\ m <= 3
  BY DEF Served, TypeOK
<1>2. p.inbound \in Seq(Token)
  BY <1>1 DEF Peer
<1>3. m \in Nat /\ n \in 1 .. m /\ DOMAIN p.inbound = 1 .. m
  BY <1>2
<1>4. t \in Seq(Token) /\ Len(t) = n /\ \A i \in 1 .. n : t[i] = p.inbound[i]
  <2>1. \A i \in 1 .. n : p.inbound[i] \in Token
    BY <1>2, <1>3
  <2> QED BY <1>2, <1>3, <2>1, SubSeqProperties
<1>5. r \in Seq(Token) /\ Len(r) = m - n
      /\ \A i \in 1 .. Len(r) : r[i] = p.inbound[n + i]
  <2>1. n + 1 \in 1 .. m + 1 /\ m - n \in Nat
    BY <1>3
  <2>2. r \in Seq(Token) /\ Len(r) = m - n
    BY <1>2, <1>3
  <2>3. \A i \in 1 .. m - n : r[i] = p.inbound[n + i]
    BY <1>2, <1>3
  <2> QED BY <2>2, <2>3
<1> HIDE DEF r, t
<1>6. [p EXCEPT !.inbound = r] \in Peer
  BY <1>1, <1>5 DEF Peer
<1> QED
  BY <1>1, <1>4, <1>5, <1>6 DEF r, t

(* The invariant is kept by the completion of a read,                      *)
LEMMA ReadDoneServed ==
  ASSUME Served, NEW c \in Conns, ReadDone(c)
  PROVE  Served' /\ conn'[c].stage # "waiting"
<1>1. conn[c].reading /\ UNCHANGED load /\ held' = [held EXCEPT ![conn[c].worker] = 0]
  BY DEF ReadDone
<1>2. conn[c].stage = "live" /\ c \in DOMAIN client
  BY <1>1, ReadersAreLive
<1>3. PICK n \in 1 .. Len(client[c].inbound), lost \in Losses(c) :
        /\ \E s \in {Received(c, n, lost)} : Leave(c, ReadCompleted(s))
        /\ client' = [client EXCEPT ![c].inbound = SubSeq(@, n + 1, Len(@))]
  BY DEF ReadDone
<1> DEFINE tokens == SubSeq(client[c].inbound, 1, n)
           rest == SubSeq(client[c].inbound, n + 1, Len(client[c].inbound))
           received == feed([System(c) EXCEPT !.x.reading = FALSE], tokens, lost)
<1>4. PICK u : u = ReadCompleted(received) /\ Left(c, u)
  <2>1. Received(c, n, lost) = received
    BY DEF Received
  <2> HIDE DEF received
  <2> QED BY <1>3, <2>1 DEF Leave, Left
<1>5. /\ tokens \in Seq(Token)
      /\ [client[c] EXCEPT !.inbound = rest] \in Peer /\ Len(rest) <= 3
  <2>1. /\ tokens \in Seq(Token) /\ [client[c] EXCEPT !.inbound = rest] \in Peer
        /\ Len(rest) = Len(client[c].inbound) - n /\ Len(client[c].inbound) <= 3
        /\ rest \in Seq(Token)
    BY <1>2, InboundShrinks
  <2>2. Len(rest) \in Nat /\ Len(client[c].inbound) \in Nat
    <3>1. client[c].inbound \in Seq(Token)
      BY <1>2 DEF Served, TypeOK, Peer
    <3> HIDE DEF rest
    <3> QED BY <2>1, <3>1
  <2> HIDE DEF rest, tokens
  <2>3. n \in Nat
    OBVIOUS
  <2> QED BY <2>1, <2>2, <2>3
<1>6. client' = [client EXCEPT ![c] = [client[c] EXCEPT !.inbound = rest]]
  BY <1>3
<1>7. /\ DOMAIN client' = DOMAIN client
      /\ \A d \in DOMAIN client : client'[d] \in Peer /\ Len(client'[d].inbound) <= 3
  <2> DEFINE p == [client[c] EXCEPT !.inbound = rest]
  <2>1. p.inbound = rest
    <3>1. client[c] \in Peer
      BY <1>2 DEF Served, TypeOK
    <3> HIDE DEF rest
    <3> QED BY <3>1 DEF Peer
  <2> HIDE DEF rest, p
  <2>2. p \in Peer /\ Len(p.inbound) <= 3
    BY <1>5, <2>1 DEF p
  <2>3. client' = [client EXCEPT ![c] = p]
    BY <1>6 DEF p
  <2>4. \A d \in DOMAIN client : client[d] \in Peer /\ Len(client[d].inbound) <= 3
    BY DEF Served, TypeOK
  <2> QED BY <1>2, <2>2, <2>3, <2>4
<1> HIDE DEF tokens
<1>8. Good(System(c), c, conn[c].worker, "live", timer[conn[c].worker].tasks)
  BY <1>2, SystemGood
<1>9. Good(u, c, conn[c].worker, "live", timer[conn[c].worker].tasks) /\ Armed(u)
  BY <1>4, <1>5, <1>8, ReadEnds
<1> QED
  BY <1>1, <1>2, <1>4, <1>7, <1>9, HeldStays, LeftKeeps

(* by a file that its client does not take,                                *)
LEMMA BlocksServed ==
  ASSUME Served, NEW c \in Conns, WriteBlocks(c)
  PROVE  Served' /\ conn'[c].stage # "waiting"
<1>1. /\ UNCHANGED <<conn, timer, load, client, answers, robbed>>
      /\ held' = [held EXCEPT ![conn[c].worker] = c]
  BY DEF WriteBlocks
<1>2. held' \in [Workers -> {0} \cup Conns]
  BY <1>1, HeldStays
<1>3. TypeOK' /\ Objects' /\ Queued' /\ DeadlineWhileReading'
  BY <1>1, <1>2 DEF Served, TypeOK, Objects, Placed, Queued, Sound, DeadlineWhileReading
<1>4. conn[c].reading
  BY DEF WriteBlocks
<1> QED
  BY <1>1, <1>3, <1>4, ReadersAreLive DEF Served

(* by a read that fails,                                                   *)
LEMMA ReadErrorServed ==
  ASSUME Served, NEW c \in Conns, ReadError(c)
  PROVE  Served' /\ conn'[c].stage # "waiting"
<1>1. conn[c].reading /\ Leave(c, ReadFailed(System(c))) /\ UNCHANGED <<load, held, client>>
  BY DEF ReadError
<1>2. conn[c].stage = "live"
  BY <1>1, ReadersAreLive
<1>3. PICK u : u = ReadFailed(System(c)) /\ Left(c, u)
  BY <1>1 DEF Leave, Left
<1>4. Good(System(c), c, conn[c].worker, "live", timer[conn[c].worker].tasks)
  BY <1>2, SystemGood
<1>5. Good(u, c, conn[c].worker, "live", timer[conn[c].worker].tasks) /\ Armed(u)
  BY <1>3, <1>4, ReadFails
<1>6. /\ DOMAIN client' = DOMAIN client
      /\ \A d \in DOMAIN client : client'[d] \in Peer /\ Len(client'[d].inbound) <= 3
  BY <1>1 DEF Served, TypeOK
<1> QED
  BY <1>1, <1>2, <1>3, <1>5, <1>6, HeldStays, LeftKeeps

(* A deadline that ran before the write completed runs on.                 *)
LEMMA WriteArmed ==
  ASSUME Served, NEW c \in Conns, conn[c].writes # <<>>, NEW ok, NEW o \in Seq(Answer)
  PROVE  LET u == [WriteCompleted(System(c), ok) EXCEPT !.out = o]
         IN  /\ Good(u, c, conn[c].worker, "live", timer[conn[c].worker].tasks)
             /\ Armed(u) /\ u.x = WriteCompleted(System(c), ok).x /\ u.out = o
<1> DEFINE s == System(c)
           w == conn[c].worker
           T == timer[w].tasks
           v == WriteCompleted(s, ok)
           u == [v EXCEPT !.out = o]
<1>1. conn[c].stage = "live"
  BY ReadersAreLive
<1>2. Good(s, c, w, "live", T) /\ s.x = conn[c] /\ s.tasks = T
  BY <1>1, SystemGood
<1>3. conn[c] \in Object
  BY DEF Served, TypeOK
<1>4. w \in Workers
  BY <1>3 DEF Object
<1>5. \A t \in T : t.conn = c => conn[c].reading /\ ~conn[c].upgraded
  BY <1>4 DEF Served, DeadlineWhileReading
<1> HIDE DEF s, w, T
<1>6. /\ Good(v, c, w, "live", T) /\ v.tasks = s.tasks
      /\ v.x.reading = s.x.reading /\ v.x.upgraded = s.x.upgraded
  BY <1>2, WriteEnds
<1> HIDE DEF v
<1>7. Good(u, c, w, "live", T) /\ u.x = v.x /\ u.tasks = v.tasks /\ u.out = o
  BY <1>6, OutSet
<1> HIDE DEF u
<1>8. u.x.self = c
  BY <1>7, ObjectOfGood
<1>9. Armed(u)
  BY <1>2, <1>5, <1>6, <1>7, <1>8 DEF Armed, Disarmed
<1> QED
  BY <1>7, <1>9 DEF s, w, T, u, v

(* by the completion of a write.                                           *)
LEMMA WriteServed ==
  ASSUME Served, NEW c \in Conns, conn[c].writes # <<>>, NEW ok, NEW o \in Seq(Answer),
         NEW u, u = [WriteCompleted(System(c), ok) EXCEPT !.out = o], Left(c, u),
         UNCHANGED <<load, held, client>>
  PROVE  Served' /\ conn'[c].stage # "waiting"
<1>1. conn[c].stage = "live"
  BY ReadersAreLive
<1>2. Good(u, c, conn[c].worker, "live", timer[conn[c].worker].tasks) /\ Armed(u)
  BY WriteArmed
<1>3. /\ DOMAIN client' = DOMAIN client
      /\ \A d \in DOMAIN client : client'[d] \in Peer /\ Len(client'[d].inbound) <= 3
  BY DEF Served, TypeOK
<1> QED
  BY <1>1, <1>2, <1>3, HeldStays, LeftKeeps

(* The answer that a write brings, unless it was an interim one.           *)
Brought(c) == LET r == Head(conn[c].writes) IN IF r.code = 100 THEN <<>> ELSE <<r>>

(* What a write brings to the client are answers.                          *)
LEMMA BroughtTyped ==
  ASSUME Served, NEW c \in Conns, conn[c].writes # <<>>
  PROVE  Brought(c) \in Seq(Answer) /\ Head(conn[c].writes) \in Answer
<1>1. conn[c] \in Object
  BY DEF Served, TypeOK
<1>2. conn[c].writes \in Seq(Answer)
  BY <1>1 DEF Object
<1>3. Head(conn[c].writes) \in Answer
  BY <1>2
<1> QED
  BY <1>3 DEF Brought

(* The two completions of a write in these terms:                          *)
LEMMA WriteDoneIs ==
  ASSUME Served, NEW c \in Conns, WriteDone(c)
  PROVE  /\ conn[c].writes # <<>>
         /\ \E u : /\ u = [WriteCompleted(System(c), TRUE) EXCEPT !.out = Brought(c)]
                   /\ Left(c, u)
         /\ UNCHANGED <<load, held, client>>
BY DEF WriteDone, Leave, Left, Brought

(* the second brings nothing.                                              *)
LEMMA WriteErrorIs ==
  ASSUME Served, NEW c \in Conns, WriteError(c)
  PROVE  /\ conn[c].writes # <<>>
         /\ \E u : /\ u = [WriteCompleted(System(c), FALSE) EXCEPT !.out = <<>>]
                   /\ Left(c, u)
         /\ UNCHANGED <<load, held, client>>
         /\ client[c].gone \/ ~conn[c].open
<1>1. /\ conn[c].writes # <<>> /\ UNCHANGED <<load, held, client>>
      /\ client[c].gone \/ ~conn[c].open
      /\ Leave(c, WriteCompleted(System(c), FALSE))
  BY DEF WriteError
<1> DEFINE s == System(c)
           v == WriteCompleted(s, FALSE)
<1>2. conn[c].stage = "live"
  BY <1>1, ReadersAreLive
<1>3. Good(s, c, conn[c].worker, "live", timer[conn[c].worker].tasks)
      /\ s.out = <<>> /\ s.x = conn[c]
  BY <1>2, SystemGood
<1> HIDE DEF s
<1>4. Good(v, c, conn[c].worker, "live", timer[conn[c].worker].tasks) /\ v.out = s.out
  <2>1. s.x.writes # <<>>
    BY <1>1, <1>3
  <2>2. ASSUME NEW ok
        PROVE  LET x == WriteCompleted(s, ok)
               IN  /\ Good(x, c, conn[c].worker, "live", timer[conn[c].worker].tasks)
                   /\ x.out = s.out
    BY <1>3, <2>1, WriteEnds
  <2> QED BY <2>2
<1> HIDE DEF v
<1>5. v \in Sys /\ v.out = <<>>
  BY <1>3, <1>4 DEF Good
<1>6. v = [v EXCEPT !.out = <<>>]
  BY <1>5 DEF Sys
<1>7. \E u : u = v /\ Left(c, u)
  BY <1>1 DEF Leave, Left, v, s
<1> QED
  BY <1>1, <1>6, <1>7 DEF v, s

(* So the invariant is kept by both,                                       *)
LEMMA WritesServed ==
  ASSUME Served, NEW c \in Conns, WriteDone(c) \/ WriteError(c)
  PROVE  Served' /\ conn'[c].stage # "waiting"
<1>1. CASE WriteDone(c)
  <2>1. conn[c].writes # <<>> /\ UNCHANGED <<load, held, client>>
    BY <1>1, WriteDoneIs
  <2>2. PICK o : o = Brought(c)
    OBVIOUS
  <2>3. PICK u : u = [WriteCompleted(System(c), TRUE) EXCEPT !.out = o] /\ Left(c, u)
    BY <1>1, <2>2, WriteDoneIs
  <2>4. o \in Seq(Answer)
    BY <2>1, <2>2, BroughtTyped
  <2> QED BY <2>1, <2>3, <2>4, WriteServed
<1>2. CASE WriteError(c)
  <2>1. conn[c].writes # <<>> /\ UNCHANGED <<load, held, client>>
    BY <1>2, WriteErrorIs
  <2>2. PICK u : u = [WriteCompleted(System(c), FALSE) EXCEPT !.out = <<>>] /\ Left(c, u)
    BY <1>2, WriteErrorIs
  <2>3. <<>> \in Seq(Answer)
    OBVIOUS
  <2> QED BY <2>1, <2>2, <2>3, WriteServed
<1> QED
  BY <1>1, <1>2

-----------------------------------------------------------------------------
(* The acceptor posts start() and makes the next object.                   *)
LEMMA AcceptIs ==
  ASSUME Served, NEW c \in Conns, Accept(c)
  PROVE  /\ c \in DOMAIN client /\ conn[c].stage = "waiting"
         /\ UNCHANGED <<timer, held, client, answers, robbed>>
         /\ conn'[c] = [conn[c] EXCEPT !.stage = "posted"]
         /\ \A d \in Conns : d \notin {c, c + 1} => conn'[d] = conn[d]
         /\ c + 1 \in Conns => /\ conn[c + 1] = Unused
                               /\ conn'[c + 1] = New(c + 1, pick_io_service_idx(load))
         /\ conn' \in [Conns -> Object]
         /\ load' = (IF c + 1 \in Conns THEN [load EXCEPT ![pick_io_service_idx(load)] = @ + 1]
                                         ELSE load)
<1> DEFINE z == [conn[c] EXCEPT !.stage = "posted"]
           m == [conn EXCEPT ![c] = z]
           n == New(c + 1, pick_io_service_idx(load))
<1>1. /\ c \in DOMAIN client /\ conn[c].stage = "waiting"
      /\ UNCHANGED <<timer, held, client, answers, robbed>>
      /\ conn' = (IF c + 1 \in Conns
                  THEN [[conn EXCEPT ![c].stage = "posted"] EXCEPT ![c + 1] = n]
                  ELSE [conn EXCEPT ![c].stage = "posted"])
      /\ load' = (IF c + 1 \in Conns THEN [load EXCEPT ![pick_io_service_idx(load)] = @ + 1]
                                      ELSE load)
  BY DEF Accept, do_accept
<1>2. conn \in [Conns -> Object] /\ load \in [Workers -> Nat]
  BY DEF Served, TypeOK
<1>3. z \in Object
  <2>1. conn[c] \in Object
    BY <1>2
  <2> QED BY <2>1 DEF Object
<1>4. [conn EXCEPT ![c].stage = "posted"] = m
  OBVIOUS
<1> HIDE DEF z
<1>5. m \in [Conns -> Object] /\ m[c] = z /\ \A d \in Conns : d # c => m[d] = conn[d]
  BY <1>2, <1>3
<1> HIDE DEF m
<1>6. CASE c + 1 \in Conns
  <2>1. n \in Object
    BY <1>2, <1>6, PickIsLeast, NewTyped
  <2>2. conn' = [m EXCEPT ![c + 1] = n]
    BY <1>1, <1>4, <1>6
  <2>3. c + 1 # c /\ c + 1 > c
    BY SizesType DEF Conns
  <2>4. conn[c + 1] = Unused
    <3>1. conn[c + 1].stage = "none"
      BY <1>1, <1>6, <2>3 DEF Served, Objects, Placed
    <3> QED BY <1>6, <3>1 DEF Served, Objects, Placed
  <2> HIDE DEF n
  <2>5. /\ conn' \in [Conns -> Object] /\ conn'[c] = z /\ conn'[c + 1] = n
        /\ \A d \in Conns : d \notin {c, c + 1} => conn'[d] = conn[d]
    BY <1>5, <1>6, <2>1, <2>2, <2>3
  <2> QED
    BY <1>1, <2>4, <2>5 DEF n, z
<1>7. CASE c + 1 \notin Conns
  <2>1. conn' = m
    BY <1>1, <1>4, <1>7
  <2> QED
    BY <1>1, <1>5, <1>7, <2>1 DEF z
<1> QED
  BY <1>6, <1>7

(* No two connections are waited for.                                      *)
LEMMA OneWaits ==
  ASSUME Served, NEW c \in Conns, conn[c].stage = "waiting",
         NEW d \in Conns, conn[d].stage = "waiting"
  PROVE  d = c
<1>1. c \in Nat /\ d \in Nat
  BY SizesType DEF Conns
<1>2. ~(d > c) /\ ~(c > d)
  BY DEF Served, Objects, Placed
<1> QED
  BY <1>1, <1>2

(* by a new connection,                                                    *)
LEMMA AcceptServed ==
  ASSUME Served, NEW c \in Conns, Accept(c)
  PROVE  Served'
<1>1. /\ c \in DOMAIN client /\ conn[c].stage = "waiting"
      /\ UNCHANGED <<timer, held, client, answers, robbed>>
      /\ conn'[c] = [conn[c] EXCEPT !.stage = "posted"]
      /\ \A d \in Conns : d \notin {c, c + 1} => conn'[d] = conn[d]
      /\ c + 1 \in Conns => /\ conn[c + 1] = Unused
                            /\ conn'[c + 1] = New(c + 1, pick_io_service_idx(load))
      /\ conn' \in [Conns -> Object]
      /\ load' = (IF c + 1 \in Conns THEN [load EXCEPT ![pick_io_service_idx(load)] = @ + 1]
                                      ELSE load)
  BY AcceptIs
<1>2. conn \in [Conns -> Object] /\ load \in [Workers -> Nat]
      /\ pick_io_service_idx(load) \in Workers
  BY PickIsLeast DEF Served, TypeOK
<1>3. c \in Nat /\ Conns \subseteq Nat
  BY SizesType DEF Conns
<1>4. TypeOK'
  <2>1. load' \in [Workers -> Nat]
    BY <1>1, <1>2
  <2> QED BY <1>1, <2>1 DEF Served, TypeOK
<1>5. conn[c] = [New(c, conn[c].worker) EXCEPT !.stage = "waiting"] /\ conn[c] \in Object
      /\ conn[c].self = c /\ Sound(conn[c])
      /\ ~conn[c].reading /\ conn[c].writes = <<>>
  BY <1>1, <1>2 DEF Served, Objects, Placed
<1>6. /\ conn'[c].stage = "posted" /\ conn'[c].self = c /\ Sound(conn'[c])
      /\ ~conn'[c].reading /\ conn'[c].writes = <<>> /\ conn'[c].worker = conn[c].worker
  BY <1>1, <1>5 DEF Object, Sound
<1>7. conn'[c] = [New(c, conn'[c].worker) EXCEPT !.stage = conn'[c].stage]
  <2> DEFINE n == New(c, conn[c].worker)
  <2>1. n \in Object
    <3>1. conn[c].worker \in Workers
      BY <1>5 DEF Object
    <3> QED BY <3>1, NewTyped
  <2>2. conn[c] = [n EXCEPT !.stage = "waiting"] /\ conn'[c] = [conn[c] EXCEPT !.stage = "posted"]
    BY <1>1, <1>5
  <2> HIDE DEF n
  <2>3. conn'[c] = [n EXCEPT !.stage = "posted"]
    BY <2>1, <2>2 DEF Object
  <2> QED BY <1>6, <2>3 DEF n
<1>8. Objects'
  <2> SUFFICES ASSUME NEW d \in Conns PROVE (Sound(conn[d]) /\ Placed(conn[d], d))'
    BY DEF Objects
  <2>1. CASE d = c
    BY <1>1, <1>6, <1>7, <2>1 DEF Placed, Sound
  <2>2. CASE d = c + 1
    <3>1. conn'[d] = New(d, pick_io_service_idx(load))
      BY <1>1, <2>2
    <3>2. conn'[d] \in Object /\ Sound(conn'[d]) /\ conn'[d].stage = "waiting"
      BY <1>2, <3>1, NewTyped
    <3>3. /\ conn'[d].self = d /\ conn'[d].worker = pick_io_service_idx(load)
          /\ ~conn'[d].reading /\ conn'[d].writes = <<>>
      BY <3>1, NewIs
    <3>4. conn'[d] = [New(d, conn'[d].worker) EXCEPT !.stage = conn'[d].stage]
      BY <3>1, <3>2, <3>3, SameStage
    <3>5. \A e \in Conns : e > d => conn'[e].stage = "none"
      <4> SUFFICES ASSUME NEW e \in Conns, e > d PROVE conn'[e].stage = "none"
        OBVIOUS
      <4>1. e > c /\ e \notin {c, c + 1}
        BY <1>3, <2>2
      <4>2. conn[e].stage = "none"
        BY <1>1, <4>1 DEF Served, Objects, Placed
      <4> QED BY <1>1, <4>1, <4>2
    <3> QED BY <3>2, <3>3, <3>4, <3>5 DEF Placed, Sound
  <2>3. CASE d \notin {c, c + 1}
    <3>1. conn'[d] = conn[d] /\ Sound(conn[d]) /\ Placed(conn[d], d)
      BY <1>1, <2>3 DEF Served, Objects
    <3>2. conn[d].stage # "waiting"
      <4>1. CASE d < c
        BY <1>1, <1>3, <4>1 DEF Served, Objects, Placed
      <4>2. CASE d > c
        BY <1>1, <1>3, <4>2 DEF Served, Objects, Placed
      <4> QED BY <1>3, <2>3, <4>1, <4>2
    <3> QED BY <1>1, <3>1, <3>2 DEF Placed, Sound
  <2> QED BY <2>1, <2>2, <2>3
<1>9. DeadlineWhileReading'
  <2> SUFFICES ASSUME NEW v \in Workers, NEW t \in timer[v].tasks
               PROVE  /\ conn'[t.conn].worker = v /\ conn'[t.conn].id = t.id
                      /\ conn'[t.conn].reading /\ ~conn'[t.conn].upgraded
    BY <1>1 DEF DeadlineWhileReading
  <2>1. /\ t.conn \in Conns
        /\ conn[t.conn].worker = v /\ conn[t.conn].id = t.id
        /\ conn[t.conn].reading /\ ~conn[t.conn].upgraded
    BY DEF Served, TypeOK, DeadlineWhileReading, Timer, Task
  <2>2. t.conn \notin {c, c + 1}
    BY <1>1, <1>5, <2>1, UnusedIs
  <2> QED BY <1>1, <2>1, <2>2
<1>10. Queued'
  <2> SUFFICES ASSUME NEW d \in Conns, conn'[d].stage = "waiting"
               PROVE  load'[conn'[d].worker] > 0
    BY DEF Queued
  <2>1. d # c
    BY <1>6
  <2>2. CASE d = c + 1
    <3>1. conn'[d].worker = pick_io_service_idx(load)
      BY <1>1, <2>2, NewIs
    <3>2. load' = [load EXCEPT ![pick_io_service_idx(load)] = @ + 1]
      BY <1>1, <2>2
    <3>3. load[pick_io_service_idx(load)] \in Nat
      BY <1>2
    <3> QED BY <1>2, <3>1, <3>2, <3>3
  <2>3. CASE d # c + 1
    <3>1. conn[d].stage = "waiting"
      BY <1>1, <2>1, <2>3
    <3>2. d = c
      BY <1>1, <1>3, <3>1, OneWaits
    <3> QED BY <2>1, <3>2
  <2> QED BY <2>2, <2>3
<1> QED
  BY <1>4, <1>8, <1>9, <1>10 DEF Served

(* An acceptor that fails makes another object in place of the one that    *)
(* waited.                                                                 *)
LEMMA AcceptFailsIs ==
  ASSUME Served, NEW c \in Conns, AcceptFails(c)
  PROVE  LET freed == [load EXCEPT ![conn[c].worker] = @ - 1]
             w == pick_io_service_idx(freed)
         IN  /\ conn[c].stage = "waiting"
             /\ UNCHANGED <<timer, held, client, answers, robbed>>
             /\ freed \in [Workers -> Nat] /\ w \in Workers
             /\ \A v \in Workers : freed[w] <= freed[v]
             /\ conn[c].worker \in Workers
             /\ conn' = [conn EXCEPT ![c] = New(c, w)]
             /\ load' = [freed EXCEPT ![w] = @ + 1]
<1> DEFINE freed == [load EXCEPT ![conn[c].worker] = @ - 1]
<1>1. /\ conn[c].stage = "waiting"
      /\ UNCHANGED <<timer, held, client, answers, robbed>>
      /\ conn' = [conn EXCEPT ![c] = New(c, pick_io_service_idx(freed))]
      /\ load' = [freed EXCEPT ![pick_io_service_idx(freed)] = @ + 1]
  BY DEF AcceptFails, do_accept
<1>2. conn[c] \in Object /\ load \in [Workers -> Nat] /\ load[conn[c].worker] > 0
  BY <1>1 DEF Served, TypeOK, Queued
<1>3. conn[c].worker \in Workers
  BY <1>2 DEF Object
<1>4. freed \in [Workers -> Nat]
  <2>1. load[conn[c].worker] - 1 \in Nat
    BY <1>2, <1>3
  <2> QED BY <1>2, <1>3, <2>1
<1> HIDE DEF freed
<1>5. /\ pick_io_service_idx(freed) \in Workers
      /\ \A v \in Workers : freed[pick_io_service_idx(freed)] <= freed[v]
  BY <1>4, PickIsLeast
<1> QED
  BY <1>1, <1>3, <1>4, <1>5 DEF freed

(* The invariant is kept.                                                  *)
LEMMA AcceptFailsServed ==
  ASSUME Served, NEW c \in Conns, AcceptFails(c)
  PROVE  Served'
<1> DEFINE freed == [load EXCEPT ![conn[c].worker] = @ - 1]
           w == pick_io_service_idx(freed)
           n == New(c, w)
<1>1. /\ conn[c].stage = "waiting"
      /\ UNCHANGED <<timer, held, client, answers, robbed>>
      /\ freed \in [Workers -> Nat] /\ w \in Workers
      /\ conn' = [conn EXCEPT ![c] = n]
      /\ load' = [freed EXCEPT ![w] = @ + 1]
  BY AcceptFailsIs
<1> HIDE DEF freed, w
<1>2. conn \in [Conns -> Object]
  BY DEF Served, TypeOK
<1>3. n \in Object /\ Sound(n) /\ n.stage = "waiting"
  BY <1>1, NewTyped
<1>4. n.self = c /\ n.worker = w /\ ~n.reading /\ n.writes = <<>>
  BY NewIs
<1>5. n = [New(c, n.worker) EXCEPT !.stage = n.stage]
  BY <1>3, <1>4, SameStage
<1> HIDE DEF n
<1>6. conn'[c] = n /\ \A d \in Conns : d # c => conn'[d] = conn[d]
  BY <1>1, <1>2
<1>7. TypeOK'
  <2>1. conn' \in [Conns -> Object]
    BY <1>1, <1>2, <1>3
  <2>2. load' \in [Workers -> Nat]
    BY <1>1
  <2> QED BY <1>1, <2>1, <2>2 DEF Served, TypeOK
<1>8. Objects'
  <2> SUFFICES ASSUME NEW d \in Conns PROVE (Sound(conn[d]) /\ Placed(conn[d], d))'
    BY DEF Objects
  <2>1. Sound(conn[d]) /\ Placed(conn[d], d) /\ Placed(conn[c], c)
    BY DEF Served, Objects
  <2>2. \A e \in Conns : conn'[e].stage = conn[e].stage
    BY <1>1, <1>3, <1>6
  <2>3. CASE d = c
    BY <1>1, <1>3, <1>4, <1>5, <1>6, <2>1, <2>2, <2>3 DEF Placed, Sound
  <2>4. CASE d # c
    BY <1>1, <1>6, <2>1, <2>2, <2>4 DEF Placed, Sound
  <2> QED BY <2>3, <2>4
<1>9. Queued'
  <2> SUFFICES ASSUME NEW d \in Conns, conn'[d].stage = "waiting"
               PROVE  load'[conn'[d].worker] > 0
    BY DEF Queued
  <2>1. conn[d].stage = "waiting"
    BY <1>1, <1>6
  <2>2. d = c
    BY <1>1, <2>1, OneWaits
  <2>3. freed[w] \in Nat
    BY <1>1
  <2> QED BY <1>1, <1>4, <1>6, <2>2, <2>3
<1>10. DeadlineWhileReading'
  <2> SUFFICES ASSUME NEW v \in Workers, NEW t \in timer[v].tasks
               PROVE  /\ conn'[t.conn].worker = v /\ conn'[t.conn].id = t.id
                      /\ conn'[t.conn].reading /\ ~conn'[t.conn].upgraded
    BY <1>1 DEF DeadlineWhileReading
  <2>1. /\ t.conn \in Conns
        /\ conn[t.conn].worker = v /\ conn[t.conn].id = t.id
        /\ conn[t.conn].reading /\ ~conn[t.conn].upgraded
    BY DEF Served, TypeOK, DeadlineWhileReading, Timer, Task
  <2>2. t.conn # c
    BY <1>1, <2>1 DEF Served, Objects, Placed
  <2> QED BY <1>6, <2>1, <2>2
<1> QED
  BY <1>7, <1>8, <1>9, <1>10 DEF Served

-----------------------------------------------------------------------------
(* A deadline that expires shuts a socket that is being read.              *)
LEMMA TickIs ==
  ASSUME Served, NEW w \in Workers, Tick(w)
  PROVE  /\ UNCHANGED <<load, held, client, answers, robbed>>
         /\ \A c \in Conns :
              conn'[c] = conn[c] \/ (conn[c].reading /\ conn'[c] = [conn[c] EXCEPT !.open = FALSE])
         /\ conn' \in [Conns -> Object]
<1> DEFINE due  == {t \in timer[w].tasks : t.left = 0}
           rest == {[t EXCEPT !.left = @ - 1] : t \in timer[w].tasks \ due}
           shut == {t.conn : t \in due}
<1>1. /\ conn' = [c \in Conns |-> IF c \in shut
                                  THEN Released([conn[c] EXCEPT !.open = FALSE], rest)
                                  ELSE conn[c]]
      /\ UNCHANGED <<load, held, client, answers, robbed>>
  BY DEF Tick
<1>2. conn \in [Conns -> Object]
  BY DEF Served, TypeOK
<1>3. \A c \in shut : conn[c].reading
  BY DEF Served, DeadlineWhileReading
<1> HIDE DEF rest, shut
<1>4. ASSUME NEW c \in Conns
      PROVE  conn'[c] = conn[c] \/ (conn[c].reading /\ conn'[c] = [conn[c] EXCEPT !.open = FALSE])
  <2>1. CASE c \in shut
    <3> DEFINE y == [conn[c] EXCEPT !.open = FALSE]
    <3>1. conn[c].reading /\ conn[c] \in Object
      BY <1>2, <1>3, <2>1
    <3>2. y.reading
      BY <3>1 DEF Object
    <3>3. conn'[c] = Released(y, rest)
      BY <1>1, <2>1
    <3> HIDE DEF y
    <3>4. conn'[c] = y
      BY <3>2, <3>3 DEF Released, Held
    <3> QED BY <3>1, <3>4 DEF y
  <2>2. CASE c \notin shut
    BY <1>1, <2>2
  <2> QED BY <2>1, <2>2
<1>5. \A c \in Conns : conn'[c] \in Object
  <2> SUFFICES ASSUME NEW c \in Conns PROVE conn'[c] \in Object
    OBVIOUS
  <2>1. conn[c] \in Object
    BY <1>2
  <2>2. [conn[c] EXCEPT !.open = FALSE] \in Object
    BY <2>1 DEF Object
  <2> QED BY <1>4, <2>1, <2>2
<1>6. conn' = [c \in Conns |-> conn'[c]]
  BY <1>1
<1> QED
  BY <1>1, <1>4, <1>5, <1>6

(* and by a tick of the timers.                                            *)
LEMMA TickServed ==
  ASSUME Served, NEW w \in Workers, Tick(w)
  PROVE  Served'
<1> DEFINE due  == {t \in timer[w].tasks : t.left = 0}
           rest == {[t EXCEPT !.left = @ - 1] : t \in timer[w].tasks \ due}
           high == IF rest = {} THEN 0 ELSE timer[w].highest
           tm == [tasks |-> rest, highest |-> high]
<1>1. /\ UNCHANGED <<load, held, client, answers, robbed>>
      /\ \A c \in Conns :
           conn'[c] = conn[c] \/ (conn[c].reading /\ conn'[c] = [conn[c] EXCEPT !.open = FALSE])
      /\ conn' \in [Conns -> Object]
  BY TickIs
<1>2. timer \in [Workers -> Timer] /\ conn \in [Conns -> Object]
  BY DEF Served, TypeOK
<1>3. timer' = [timer EXCEPT ![w] = tm]
  BY <1>2 DEF Tick
<1>4. timer[w].tasks \in SUBSET Task /\ timer[w].highest \in Nat
      /\ \A t \in timer[w].tasks : t.id \in 1 .. timer[w].highest
  <2>1. timer[w] \in Timer
    BY <1>2
  <2> QED BY <2>1 DEF Served, TypeOK, Timer
<1>5. \A r \in rest : /\ r \in Task
                      /\ \E t \in timer[w].tasks : r.id = t.id /\ r.conn = t.conn
  <2> SUFFICES ASSUME NEW t \in timer[w].tasks \ due
               PROVE  LET r == [t EXCEPT !.left = @ - 1]
                      IN  r \in Task /\ r.id = t.id /\ r.conn = t.conn
    OBVIOUS
  <2> DEFINE k == t.left - 1
  <2>1. t \in Task
    BY <1>4
  <2>2. k \in 0 .. Timeout
    BY <2>1, SizesType DEF Task
  <2>3. [t EXCEPT !.left = @ - 1] = [t EXCEPT !.left = k]
    OBVIOUS
  <2> HIDE DEF k
  <2>4. [t EXCEPT !.left = k] \in Task
    BY <2>1, <2>2 DEF Task
  <2>5. [t EXCEPT !.left = k].id = t.id /\ [t EXCEPT !.left = k].conn = t.conn
    BY <2>1 DEF Task
  <2> QED BY <2>3, <2>4, <2>5
<1> HIDE DEF rest
<1>6. tm \in Timer /\ \A r \in rest : r.id \in 1 .. high
  <2>1. rest \in SUBSET Task
    BY <1>5
  <2>2. high \in Nat
    BY <1>4
  <2>3. \A r \in rest : r.id \in 1 .. high
    BY <1>4, <1>5
  <2> HIDE DEF high
  <2> QED BY <2>1, <2>2, <2>3 DEF Timer
<1>7. tm.tasks = rest /\ tm.highest = high
  OBVIOUS
<1> HIDE DEF tm, high
<1>8. timer' \in [Workers -> Timer] /\ timer'[w] = tm
      /\ \A v \in Workers : v # w => timer'[v] = timer[v]
  BY <1>2, <1>3, <1>6
<1>9. TypeOK'
  <2>1. \A v \in Workers : \A t \in timer'[v].tasks : t.id \in 1 .. timer'[v].highest
    BY <1>6, <1>7, <1>8 DEF Served, TypeOK
  <2> QED BY <1>1, <1>8, <2>1 DEF Served, TypeOK
<1>10. ASSUME NEW c \in Conns
       PROVE  LET x == conn[c]
                  y == conn'[c]
              IN  /\ y.self = x.self /\ y.worker = x.worker /\ y.id = x.id
                  /\ y.stage = x.stage /\ y.reading = x.reading /\ y.writes = x.writes
                  /\ y.upgraded = x.upgraded /\ y.at = x.at /\ y.req = x.req
                  /\ y.open => x.open
                  /\ x.stage # "live" => y = x
  <2>1. conn[c] \in Object /\ (conn[c].reading => conn[c].stage = "live")
    BY <1>2 DEF Served, Objects, Placed
  <2>2. CASE conn'[c] = conn[c]
    BY <2>2
  <2>3. CASE conn[c].reading /\ conn'[c] = [conn[c] EXCEPT !.open = FALSE]
    BY <2>1, <2>3 DEF Object
  <2> QED BY <1>1, <2>2, <2>3
<1>11. Objects'
  <2> SUFFICES ASSUME NEW d \in Conns PROVE (Sound(conn[d]) /\ Placed(conn[d], d))'
    BY DEF Objects
  <2>1. Sound(conn[d]) /\ Placed(conn[d], d)
    BY DEF Served, Objects
  <2>2. Sound(conn[d])'
    BY <1>10, <2>1 DEF Sound
  <2>3. Placed(conn[d], d)'
    <3>1. conn[d].stage # "live" => conn'[d] = conn[d]
      BY <1>10
    <3>2. client' = client /\ \A e \in Conns : conn'[e].stage = conn[e].stage
      BY <1>1, <1>10
    <3>3. conn'[d].self = conn[d].self /\ conn'[d].stage = conn[d].stage
      BY <1>10
    <3> QED BY <2>1, <3>1, <3>2, <3>3 DEF Placed
  <2> QED BY <2>2, <2>3
<1>12. DeadlineWhileReading'
  <2> SUFFICES ASSUME NEW v \in Workers, NEW t \in timer'[v].tasks
               PROVE  /\ conn'[t.conn].worker = v /\ conn'[t.conn].id = t.id
                      /\ conn'[t.conn].reading /\ ~conn'[t.conn].upgraded
    BY DEF DeadlineWhileReading
  <2>1. \E r \in timer[v].tasks : t.id = r.id /\ t.conn = r.conn
    BY <1>5, <1>7, <1>8
  <2>2. /\ t.conn \in Conns
        /\ conn[t.conn].worker = v /\ conn[t.conn].id = t.id
        /\ conn[t.conn].reading /\ ~conn[t.conn].upgraded
    BY <1>2, <2>1 DEF Served, DeadlineWhileReading, Timer, Task
  <2> QED BY <1>10, <2>2
<1>13. Queued'
  BY <1>1, <1>10 DEF Served, Queued
<1> QED
  BY <1>9, <1>11, <1>12, <1>13 DEF Served

-----------------------------------------------------------------------------
(* What a client does leaves the server alone.                             *)
LEMMA TokensAre ==
  ASSUME NEW r \in Request, NEW n \in 1 .. 3
  PROVE  LET t == SubSeq(Tokens(r), 1, n)
         IN  /\ t \in Seq(Token) /\ Len(t) = n
             /\ \A i \in 1 .. n : t[i] = Tokens(r)[i]
             /\ Tokens(r)[1].of = r /\ Len(Tokens(r)) = 3
<1>1. Tokens(r) \in Seq(Token) /\ Len(Tokens(r)) = 3 /\ Tokens(r)[1].of = r
  BY DEF Tokens, Token
<1> DEFINE q == Tokens(r)
<1> HIDE DEF q
<1>2. q \in Seq(Token) /\ Len(q) = 3
  BY <1>1 DEF q
<1>3. SubSeq(q, 1, n) \in Seq(Token) /\ Len(SubSeq(q, 1, n)) = n
      /\ \A i \in 1 .. n : SubSeq(q, 1, n)[i] = q[i]
  <2>1. \A i \in 1 .. n : q[i] \in Token
    BY <1>2
  <2> QED BY <1>2, <2>1, SubSeqProperties
<1> QED
  BY <1>1, <1>3 DEF q

(* A client asks when it has all its answers.                              *)
LEMMA ClientAsksIs ==
  ASSUME Served, NEW c \in Conns, c \in DOMAIN client, ClientAsks(c)
  PROVE  /\ conn[c].writes = <<>> /\ Len(answers[c]) = Len(client[c].past)
         /\ conn[c].stage \notin {"none", "waiting"}
         /\ UNCHANGED <<conn, timer, load, held, answers, robbed>>
         /\ \E r \in Request, n \in 1 .. 3 :
              LET p == client[c]
                  q == client'[c]
              IN  /\ q \in Peer
                  /\ q.past = Append(p.past, r) /\ q.gone = p.gone
                  /\ q.whole = (n = 3) /\ Len(q.inbound) = n
                  /\ \A i \in 1 .. n : q.inbound[i] = Tokens(r)[i]
         /\ DOMAIN client' = DOMAIN client
         /\ \A d \in DOMAIN client : d # c => client'[d] = client[d]
<1> DEFINE p == client[c]
           r == Head(p.script)
<1>1. p \in Peer
  BY DEF Served, TypeOK
<1>2. /\ conn[c].writes = <<>> /\ Len(answers[c]) = Len(p.past)
      /\ p.script # <<>>
      /\ conn[c].stage \notin {"none", "waiting"}
      /\ UNCHANGED <<conn, timer, load, held, answers, robbed>>
  BY DEF ClientAsks
<1>3. PICK n \in DOMAIN Tokens(r) :
           client' = [client EXCEPT ![c].past = Append(@, Tokens(r)[1].of),
                                    ![c].script = Tail(@),
                                    ![c].inbound = SubSeq(Tokens(r), 1, n),
                                    ![c].whole = n = Len(Tokens(r))]
  BY DEF ClientAsks
<1>4. p.script \in Seq(Request) /\ p.past \in Seq(Request)
  BY <1>1 DEF Peer
<1>5. r \in Request /\ Tail(p.script) \in Seq(Request)
  BY <1>2, <1>4
<1>6. n \in 1 .. 3
  BY DEF Tokens
<1> DEFINE t == SubSeq(Tokens(r), 1, n)
           ts == Tail(p.script)
           a == Append(p.past, r)
           b == (n = 3)
           q == [p EXCEPT !.past = a, !.script = ts, !.inbound = t, !.whole = b]
<1> HIDE DEF r
<1>7. /\ t \in Seq(Token) /\ Len(t) = n
      /\ \A i \in 1 .. n : t[i] = Tokens(r)[i]
      /\ Tokens(r)[1].of = r /\ Len(Tokens(r)) = 3
  BY <1>5, <1>6, TokensAre
<1>8. a \in Seq(Request) /\ b \in BOOLEAN
  BY <1>4, <1>5
<1>9. client' = [client EXCEPT ![c] = q]
  BY <1>1, <1>3, <1>7 DEF Peer
<1> HIDE DEF t, ts, a, b
<1>10. q \in Peer
  BY <1>1, <1>5, <1>7, <1>8 DEF Peer, ts
<1>11. q.past = a /\ q.inbound = t /\ q.whole = b /\ q.gone = p.gone
  BY <1>1 DEF Peer
<1> HIDE DEF q
<1>12. client'[c] = q /\ DOMAIN client' = DOMAIN client
       /\ \A d \in DOMAIN client : d # c => client'[d] = client[d]
  BY <1>9
<1>13. /\ client'[c] \in Peer
       /\ client'[c].past = Append(p.past, r) /\ client'[c].gone = p.gone
       /\ client'[c].whole = (n = 3) /\ Len(client'[c].inbound) = n
       /\ \A i \in 1 .. n : client'[c].inbound[i] = Tokens(r)[i]
  BY <1>7, <1>10, <1>11, <1>12 DEF a, b
<1> QED
  BY <1>2, <1>5, <1>6, <1>12, <1>13

(* A client that vanishes leaves what it sent.                             *)
LEMMA ClientVanishesIs ==
  ASSUME Served, NEW c \in Conns, c \in DOMAIN client, ClientVanishes(c)
  PROVE  /\ UNCHANGED <<conn, timer, load, held, answers, robbed>>
         /\ client' = [client EXCEPT ![c] = [client[c] EXCEPT !.gone = TRUE, !.stalled = FALSE]]
         /\ client'[c] \in Peer /\ client'[c].gone
         /\ client'[c].past = client[c].past /\ client'[c].inbound = client[c].inbound
         /\ client'[c].whole = client[c].whole
         /\ DOMAIN client' = DOMAIN client
         /\ \A d \in DOMAIN client : d # c => client'[d] = client[d]
<1> DEFINE q == [client[c] EXCEPT !.gone = TRUE, !.stalled = FALSE]
<1>1. client[c] \in Peer
  BY DEF Served, TypeOK
<1>2. /\ UNCHANGED <<conn, timer, load, held, answers, robbed>>
      /\ client' = [client EXCEPT ![c] = q]
  BY DEF ClientVanishes
<1>3. q \in Peer
  BY <1>1 DEF Peer
<1>4. q.gone /\ q.past = client[c].past /\ q.inbound = client[c].inbound
      /\ q.whole = client[c].whole
  BY <1>1 DEF Peer
<1> HIDE DEF q
<1>5. client'[c] = q /\ DOMAIN client' = DOMAIN client
      /\ \A d \in DOMAIN client : d # c => client'[d] = client[d]
  BY <1>2
<1> QED
  BY <1>2, <1>3, <1>4, <1>5 DEF q

(* So does one that takes no more.                                         *)
LEMMA ClientStallsIs ==
  ASSUME Served, NEW c \in Conns, c \in DOMAIN client, ClientStalls(c)
  PROVE  /\ UNCHANGED <<conn, timer, load, held, answers, robbed>>
         /\ client' = [client EXCEPT ![c] = [client[c] EXCEPT !.stalled = TRUE]]
         /\ client'[c] \in Peer /\ client'[c].gone = client[c].gone
         /\ client'[c].past = client[c].past /\ client'[c].inbound = client[c].inbound
         /\ client'[c].whole = client[c].whole
         /\ DOMAIN client' = DOMAIN client
         /\ \A d \in DOMAIN client : d # c => client'[d] = client[d]
<1> DEFINE q == [client[c] EXCEPT !.stalled = TRUE]
<1>1. client[c] \in Peer
  BY DEF Served, TypeOK
<1>2. /\ UNCHANGED <<conn, timer, load, held, answers, robbed>>
      /\ client' = [client EXCEPT ![c] = q]
  BY DEF ClientStalls
<1>3. q \in Peer
  BY <1>1 DEF Peer
<1>4. q.gone = client[c].gone /\ q.past = client[c].past /\ q.inbound = client[c].inbound
      /\ q.whole = client[c].whole
  BY <1>1 DEF Peer
<1> HIDE DEF q
<1>5. client'[c] = q /\ DOMAIN client' = DOMAIN client
      /\ \A d \in DOMAIN client : d # c => client'[d] = client[d]
  BY <1>2
<1> QED
  BY <1>2, <1>3, <1>4, <1>5 DEF q

(* Only a client of the server asks or vanishes.                           *)
LEMMA AskersAreClients ==
  ASSUME Served, NEW c \in Conns, Client(c)
  PROVE  c \in DOMAIN client
BY DEF Served, Objects, Placed, Client, ClientAsks, ClientStalls, ClientVanishes

(* What clients do keeps the invariant.                                    *)
LEMMA ClientServed ==
  ASSUME Served, NEW c \in Conns, Client(c)
  PROVE  Served'
<1>1. c \in DOMAIN client
  BY AskersAreClients
<1>2. /\ UNCHANGED <<conn, timer, load, held, answers, robbed>>
      /\ client'[c] \in Peer /\ Len(client'[c].inbound) <= 3
      /\ DOMAIN client' = DOMAIN client
      /\ \A d \in DOMAIN client : d # c => client'[d] = client[d]
  <2>1. CASE ClientAsks(c)
    <3>1. \E n \in 1 .. 3 : client'[c] \in Peer /\ Len(client'[c].inbound) = n
      BY <1>1, <2>1, ClientAsksIs
    <3> QED BY <1>1, <2>1, <3>1, ClientAsksIs
  <2>2. CASE ClientVanishes(c)
    <3>1. Len(client[c].inbound) <= 3
      BY <1>1 DEF Served, TypeOK
    <3> QED BY <1>1, <2>2, <3>1, ClientVanishesIs
  <2>3. CASE ClientStalls(c)
    <3>1. Len(client[c].inbound) <= 3
      BY <1>1 DEF Served, TypeOK
    <3> QED BY <1>1, <2>3, <3>1, ClientStallsIs
  <2> QED BY <2>1, <2>2, <2>3 DEF Client
<1>3. TypeOK'
  BY <1>2 DEF Served, TypeOK
<1>4. Objects' /\ Queued' /\ DeadlineWhileReading'
  BY <1>2 DEF Served, Objects, Placed, Queued, Sound, DeadlineWhileReading
<1> QED
  BY <1>3, <1>4 DEF Served

-----------------------------------------------------------------------------
(* No completion breaks the invariant, or has a connection wait again.     *)
LEMMA WorkerServes ==
  ASSUME Served, NEW c \in Conns, Worker(c)
  PROVE  Served' /\ conn'[c].stage # "waiting"
<1>1. CASE start(c)
  BY <1>1, StartServed
<1>2. CASE ReadDone(c)
  BY <1>2, ReadDoneServed
<1>3. CASE ReadError(c)
  BY <1>3, ReadErrorServed
<1>4. CASE WriteDone(c) \/ WriteError(c)
  BY <1>4, WritesServed
<1>5. CASE WriteBlocks(c)
  BY <1>5, BlocksServed
<1> QED
  BY <1>1, <1>2, <1>3, <1>4, <1>5 DEF Worker

(* No step breaks the invariant.                                           *)
LEMMA StepServed ==
  ASSUME Served, [Next]_vars
  PROVE  Served'
<1>1. CASE UNCHANGED vars
  BY <1>1 DEF vars, Served, TypeOK, Objects, Placed, Queued, Sound, DeadlineWhileReading
<1>2. ASSUME NEW c \in Conns, Accept(c) \/ AcceptFails(c)
      PROVE  Served'
  BY <1>2, AcceptServed, AcceptFailsServed
<1>3. ASSUME NEW c \in Conns, Client(c)
      PROVE  Served'
  BY <1>3, ClientServed
<1>4. ASSUME NEW c \in Conns, Worker(c)
      PROVE  Served'
  BY <1>4, WorkerServes
<1>5. ASSUME NEW w \in Workers, Tick(w)
      PROVE  Served'
  BY <1>5, TickServed
<1> QED
  BY <1>1, <1>2, <1>3, <1>4, <1>5 DEF Next

(* So it holds always.                                                     *)
THEOREM AlwaysServed == Spec => []Served
<1>1. Served /\ [Next]_vars => Served'
  BY StepServed
<1> QED
  BY InitServed, <1>1, PTL DEF Spec

(* The server's variables keep their types, the connections the fields of  *)
(* connections that were accepted or not, read or not, and every id in the *)
(* timers is one that the timer gave out (TypeOK).                         *)
THEOREM ServerIsTyped == Spec => []TypeOK
<1>1. Served => TypeOK
  BY DEF Served
<1> QED
  BY AlwaysServed, <1>1, PTL

(* crow_all.h:12944-12964, 12506-12582: a deadline runs only while the     *)
(* server reads from its connection, on that connection's worker and under *)
(* the id that it remembers, though ids are given out anew when a timer    *)
(* has become empty, and never on a socket that a websocket has taken.     *)
THEOREM DeadlinesOnlyWhileReading == Spec => []DeadlineWhileReading
<1>1. Served => DeadlineWhileReading
  BY DEF Served
<1> QED
  BY AlwaysServed, <1>1, PTL

-----------------------------------------------------------------------------
(* The worker that the connection waited for is counted with has no fewer  *)
(* connections than any other, and without it no more.                     *)
Level == /\ Balanced
         /\ \A c \in Conns : conn[c].stage = "waiting" =>
              \A v \in Workers : LET w == conn[c].worker
                                 IN  load[v] <= load[w] /\ load[w] <= load[v] + 1

(* One more in the shortest of queues that are level keeps them level.     *)
LEMMA PickedStaysLevel ==
  ASSUME NEW q \in [Workers -> Nat], \A v, w \in Workers : q[v] <= q[w] + 1,
         NEW p \in Workers, \A v \in Workers : q[p] <= q[v]
  PROVE  LET r == [q EXCEPT ![p] = @ + 1]
         IN  /\ \A v, w \in Workers : r[v] <= r[w] + 1
             /\ \A v \in Workers : r[v] <= r[p] /\ r[p] <= r[v] + 1
<1> DEFINE r == [q EXCEPT ![p] = @ + 1]
<1>1. \A v \in Workers : r[v] = (IF v = p THEN q[v] + 1 ELSE q[v]) /\ q[v] \in Nat
  OBVIOUS
<1> HIDE DEF r
<1>2. ASSUME NEW v \in Workers, NEW w \in Workers
      PROVE  r[v] <= r[w] + 1
  <2>1. q[v] <= q[w] + 1 /\ q[p] <= q[w] /\ q[p] <= q[v] /\ q[v] \in Nat /\ q[w] \in Nat
        /\ q[p] \in Nat
    OBVIOUS
  <2>2. r[v] = (IF v = p THEN q[v] + 1 ELSE q[v]) /\ r[w] = (IF w = p THEN q[w] + 1 ELSE q[w])
    BY <1>1
  <2> QED BY <2>1, <2>2
<1>3. ASSUME NEW v \in Workers
      PROVE  r[v] <= r[p] /\ r[p] <= r[v] + 1
  <2>1. q[v] <= q[p] + 1 /\ q[p] <= q[v] /\ q[v] \in Nat /\ q[p] \in Nat
    OBVIOUS
  <2>2. r[p] = q[p] + 1 /\ r[v] = (IF v = p THEN q[v] + 1 ELSE q[v])
    BY <1>1
  <2> QED BY <2>1, <2>2
<1> QED
  BY <1>2, <1>3 DEF r

(* A new connection keeps the queues level,                                *)
LEMMA AcceptLevel ==
  ASSUME Served, Level, NEW c \in Conns, Accept(c)
  PROVE  Level'
<1> DEFINE p == pick_io_service_idx(load)
<1>1. /\ conn[c].stage = "waiting"
      /\ conn'[c] = [conn[c] EXCEPT !.stage = "posted"]
      /\ \A d \in Conns : d \notin {c, c + 1} => conn'[d] = conn[d]
      /\ c + 1 \in Conns => conn'[c + 1] = New(c + 1, p)
      /\ load' = (IF c + 1 \in Conns THEN [load EXCEPT ![p] = @ + 1] ELSE load)
  BY AcceptIs
<1>2. load \in [Workers -> Nat] /\ conn[c] \in Object
      /\ \A v, w \in Workers : load[v] <= load[w] + 1
  BY DEF Served, TypeOK, Level, Balanced
<1>3. p \in Workers /\ \A v \in Workers : load[p] <= load[v]
  BY <1>2, PickIsLeast
<1> HIDE DEF p
<1>4. /\ \A v, w \in Workers : load'[v] <= load'[w] + 1
      /\ c + 1 \in Conns => \A v \in Workers : load'[v] <= load'[p] /\ load'[p] <= load'[v] + 1
  BY <1>1, <1>2, <1>3, PickedStaysLevel
<1>5. ASSUME NEW d \in Conns, conn'[d].stage = "waiting"
      PROVE  d = c + 1 /\ conn'[d].worker = p
  <2>1. d # c
    <3>1. conn'[c].stage = "posted"
      BY <1>1, <1>2 DEF Object
    <3> QED BY <1>5, <3>1
  <2>2. d = c + 1
    <3> SUFFICES ASSUME d # c + 1 PROVE FALSE
      OBVIOUS
    <3>1. conn[d].stage = "waiting"
      BY <1>1, <1>5, <2>1
    <3> QED BY <1>1, <2>1, <3>1, OneWaits
  <2>3. New(c + 1, p).worker = p
    BY NewIs
  <2> QED BY <1>1, <1>5, <2>2, <2>3
<1> QED
  BY <1>4, <1>5 DEF Level, Balanced

(* and so does an acceptor that fails.                                     *)
LEMMA AcceptFailsLevel ==
  ASSUME Served, Level, NEW c \in Conns, AcceptFails(c)
  PROVE  Level'
<1> DEFINE freed == [load EXCEPT ![conn[c].worker] = @ - 1]
           p == pick_io_service_idx(freed)
           u == conn[c].worker
<1>1. /\ conn[c].stage = "waiting" /\ freed \in [Workers -> Nat] /\ p \in Workers
      /\ \A v \in Workers : freed[p] <= freed[v]
      /\ u \in Workers
      /\ conn' = [conn EXCEPT ![c] = New(c, p)]
      /\ load' = [freed EXCEPT ![p] = @ + 1]
  BY AcceptFailsIs
<1>2. /\ load \in [Workers -> Nat] /\ conn \in [Conns -> Object]
      /\ \A v, w \in Workers : load[v] <= load[w] + 1
      /\ \A v \in Workers : load[v] <= load[u] /\ load[u] <= load[v] + 1
  BY <1>1 DEF Served, TypeOK, Level, Balanced
<1>3. \A v \in Workers : freed[v] = IF v = u THEN load[v] - 1 ELSE load[v]
  BY <1>1, <1>2
<1> HIDE DEF freed, p, u
<1>4. ASSUME NEW v \in Workers, NEW w \in Workers
      PROVE  freed[v] <= freed[w] + 1
  <2>1. /\ load[v] <= load[w] + 1 /\ load[v] <= load[u] /\ load[u] <= load[w] + 1
        /\ load[v] \in Nat /\ load[w] \in Nat /\ load[u] \in Nat
    BY <1>1, <1>2
  <2>2. freed[v] = (IF v = u THEN load[v] - 1 ELSE load[v])
        /\ freed[w] = (IF w = u THEN load[w] - 1 ELSE load[w])
    BY <1>3
  <2> QED BY <2>1, <2>2
<1>5. /\ \A v, w \in Workers : load'[v] <= load'[w] + 1
      /\ \A v \in Workers : load'[v] <= load'[p] /\ load'[p] <= load'[v] + 1
  BY <1>1, <1>4, PickedStaysLevel
<1>6. ASSUME NEW d \in Conns, conn'[d].stage = "waiting"
      PROVE  conn'[d].worker = p
  <2>1. CASE d = c
    BY <1>1, <1>2, <2>1, NewIs
  <2>2. CASE d # c
    <3>1. conn[d].stage = "waiting"
      BY <1>1, <1>2, <1>6, <2>2
    <3> QED BY <1>1, <2>2, <3>1, OneWaits
  <2> QED BY <2>1, <2>2
<1> QED
  BY <1>5, <1>6 DEF Level, Balanced

(* No other step touches a queue, or the connection that is waited for.    *)
LEMMA OthersWait ==
  ASSUME Served, [Next]_vars, \A c \in Conns : ~Accept(c) /\ ~AcceptFails(c)
  PROVE  /\ UNCHANGED load
         /\ \A d \in Conns : conn'[d].stage = "waiting" =>
               conn[d].stage = "waiting" /\ conn'[d].worker = conn[d].worker
<1>1. CASE UNCHANGED vars
  BY <1>1 DEF vars
<1>2. ASSUME NEW c \in Conns, Client(c)
      PROVE  UNCHANGED <<conn, load>>
  BY <1>2 DEF Client, ClientAsks, ClientStalls, ClientVanishes
<1>3. ASSUME NEW c \in Conns, Worker(c)
      PROVE  /\ UNCHANGED load
             /\ \A d \in Conns : d # c => conn'[d] = conn[d]
             /\ conn'[c].stage # "waiting"
  <2>1. UNCHANGED load /\ \A d \in Conns : d # c => conn'[d] = conn[d]
    <3>1. conn \in [Conns -> Object]
      BY DEF Served, TypeOK
    <3>2. ASSUME NEW h, Leave(c, h)
          PROVE  \A d \in Conns : d # c => conn'[d] = conn[d]
      <4>1. PICK u : conn' = [conn EXCEPT ![c] = Released(u.x, u.tasks)]
        BY <3>2 DEF Leave
      <4> QED BY <3>1, <4>1
    <3>3. CASE WriteBlocks(c)
      BY <3>3 DEF WriteBlocks
    <3>4. CASE start(c) \/ ReadError(c) \/ WriteDone(c) \/ WriteError(c)
      <4>1. UNCHANGED load /\ \E h : Leave(c, h)
        BY <3>4, Zenon DEF start, ReadError, WriteDone, WriteError
      <4> QED BY <3>2, <4>1
    <3>5. CASE ReadDone(c)
      <4>1. UNCHANGED load /\ \E h : Leave(c, h)
        BY <3>5, Zenon DEF ReadDone
      <4> QED BY <3>2, <4>1
    <3> QED BY <1>3, <3>3, <3>4, <3>5 DEF Worker
  <2>2. conn'[c].stage # "waiting"
    BY <1>3, WorkerServes
  <2> QED BY <2>1, <2>2
<1>4. ASSUME NEW w \in Workers, Tick(w)
      PROVE  /\ UNCHANGED load
             /\ \A d \in Conns : conn'[d].stage = conn[d].stage
                                 /\ conn'[d].worker = conn[d].worker
  <2>1. /\ UNCHANGED load /\ conn \in [Conns -> Object]
        /\ \A c \in Conns : conn'[c] = conn[c] \/ conn'[c] = [conn[c] EXCEPT !.open = FALSE]
    BY <1>4, TickIs DEF Served, TypeOK
  <2> SUFFICES ASSUME NEW d \in Conns
               PROVE  conn'[d].stage = conn[d].stage /\ conn'[d].worker = conn[d].worker
    BY <2>1
  <2>2. conn[d] \in Object
    BY <2>1
  <2> QED BY <2>1, <2>2 DEF Object
<1> QED
  <2>1. CASE \E c \in Conns : Client(c)
    BY <1>2, <2>1
  <2>2. CASE \E c \in Conns : Worker(c)
    BY <1>3, <2>2
  <2>3. CASE \E w \in Workers : Tick(w)
    BY <1>4, <2>3
  <2> QED BY <1>1, <2>1, <2>2, <2>3 DEF Next

(* pick_io_service_idx and do_accept (crow_all.h:13198, 13214): picking    *)
(* the first of the shortest queues, no worker is given two connections    *)
(* more than another, for every number of workers and connections and      *)
(* however often accepting fails.                                          *)
THEOREM WorkersAreBalanced == Spec => []Balanced
<1>1. Init => Level
  <2> SUFFICES ASSUME Init PROVE Level
    OBVIOUS
  <2>1. \A w \in Workers : load[w] = IF w = 1 THEN 1 ELSE 0
    BY DEF Init
  <2>2. \A c \in Conns : conn[c].stage = "waiting" => conn[c].worker = 1
    <3>1. \A c \in Conns : conn[c] = IF c = 1 THEN New(1, 1) ELSE Unused
      BY DEF Init
    <3> QED BY <3>1, NewIs, UnusedIs
  <2>3. 1 \in Workers
    BY SizesType DEF Workers
  <2> QED BY <2>1, <2>2, <2>3 DEF Level, Balanced
<1>2. Served /\ Level /\ [Next]_vars => Level'
  <2> SUFFICES ASSUME Served, Level, [Next]_vars PROVE Level'
    OBVIOUS
  <2>1. CASE \E c \in Conns : Accept(c) \/ AcceptFails(c)
    BY <2>1, AcceptLevel, AcceptFailsLevel
  <2>2. CASE \A c \in Conns : ~Accept(c) /\ ~AcceptFails(c)
    <3>1. /\ UNCHANGED load
          /\ \A d \in Conns : conn'[d].stage = "waiting" =>
                conn[d].stage = "waiting" /\ conn'[d].worker = conn[d].worker
      BY <2>2, OthersWait
    <3> QED BY <3>1 DEF Level, Balanced
  <2> QED BY <2>1, <2>2
<1>3. Level => Balanced
  BY DEF Level
<1> QED
  BY AlwaysServed, <1>1, <1>2, <1>3, PTL DEF Spec
=============================================================================
