----------------------- MODULE JsonServerPlaces_proofs -----------------------
(***************************************************************************)
(* Theorems about where the requests of JsonServer are: each in one place, *)
(* and those of a connection in the order they were received.  In the end: *)
(* the pipeline implements the abstract service of ReadService, every step *)
(* of it is a step of the service, or changes nothing that the service's   *)
(* clients can tell.                                                       *)
(***************************************************************************)
EXTENDS JsonServer_proofs

-----------------------------------------------------------------------------
(* Two requests that stand for different messages; and, of one connection, *)
(* for messages of which the first's came earlier.                         *)
Apart(r, s)  == r.ids \cap s.ids = {}
Before(r, s) == r.conn = s.conn => \A x \in r.ids, y \in s.ids : x < y

(* A queue of such requests, and a family of them with a request for some  *)
(* of its indices.                                                         *)
Lined(q)    == \A i, j \in DOMAIN q :
                 i < j => Apart(q[i], q[j]) /\ Before(q[i], q[j])
Separate(f) == \A x, y \in DOMAIN f :
                 x # y /\ f[x] # None /\ f[y] # None => Apart(f[x], f[y])

Elements(q) == {q[i] : i \in DOMAIN q}
Members(f)  == {f[x] : x \in DOMAIN f} \ {None}
IdsIn(f)    == UNION {r.ids : r \in Members(f)}

(***************************************************************************)
(* Families.                                                               *)
(***************************************************************************)
LEMMA FamilyGrows ==
  ASSUME NEW D, NEW f \in [D -> Request \cup {None}], NEW x \in D,
         NEW m \in Request, NEW g, g = [f EXCEPT ![x] = m], Separate(f),
         f[x] # None => f[x].ids \subseteq m.ids,
         \A id \in m.ids \cap IdsIn(f) : f[x] # None /\ id \in f[x].ids
  PROVE  IdsIn(g) = IdsIn(f) \cup m.ids /\ Separate(g)
<1>1. /\ DOMAIN f = D /\ DOMAIN g = D /\ g[x] = m /\ m # None
      /\ \A y \in D : y # x => g[y] = f[y]
  BY NoneIsNoRequest
<1>2. IdsIn(g) = IdsIn(f) \cup m.ids
  <2>1. ASSUME NEW id \in IdsIn(g)
        PROVE  id \in IdsIn(f) \cup m.ids
    <3>1. PICK y \in D : g[y] # None /\ id \in g[y].ids
      BY <1>1 DEF IdsIn, Members
    <3>. QED  BY <1>1, <3>1 DEF IdsIn, Members
  <2>2. ASSUME NEW id \in IdsIn(f)
        PROVE  id \in IdsIn(g)
    <3>1. PICK y \in D : f[y] # None /\ id \in f[y].ids
      BY <1>1, <2>2 DEF IdsIn, Members
    <3>2. g[y] # None /\ id \in g[y].ids
      BY <1>1, <3>1
    <3>. QED  BY <1>1, <3>2 DEF IdsIn, Members
  <2>3. m.ids \subseteq IdsIn(g)
    BY <1>1 DEF IdsIn, Members
  <2>. QED  BY <2>1, <2>2, <2>3
<1>3. Separate(g)
  <2>1. ASSUME NEW y \in D, y # x, f[y] # None
        PROVE  Apart(m, f[y])
    <3>1. f[y].ids \subseteq IdsIn(f)
      BY <1>1, <2>1 DEF IdsIn, Members
    <3>2. f[x] # None => Apart(f[x], f[y])
      BY <1>1, <2>1 DEF Separate
    <3>. QED  BY <3>1, <3>2 DEF Apart
  <2>2. \A r, s : Apart(r, s) => Apart(s, r)
    BY DEF Apart
  <2>. QED  BY <1>1, <2>1, <2>2 DEF Separate
<1>. QED  BY <1>2, <1>3

(* A request that is taken from a family.                                  *)
LEMMA FamilyLoses ==
  ASSUME NEW D, NEW f \in [D -> Request \cup {None}], NEW x \in D,
         f[x] # None, NEW g, g = [f EXCEPT ![x] = None], Separate(f)
  PROVE  /\ IdsIn(g) = IdsIn(f) \ f[x].ids
         /\ Separate(g)
         /\ f[x].ids \subseteq IdsIn(f)
<1>1. /\ DOMAIN f = D /\ DOMAIN g = D /\ g[x] = None
      /\ \A y \in D : y # x => g[y] = f[y]
  OBVIOUS
<1>2. f[x].ids \subseteq IdsIn(f)
  BY <1>1 DEF IdsIn, Members
<1>3. IdsIn(g) = IdsIn(f) \ f[x].ids
  <2>1. ASSUME NEW id \in IdsIn(g)
        PROVE  id \in IdsIn(f) /\ id \notin f[x].ids
    <3>1. PICK y \in D : g[y] # None /\ id \in g[y].ids
      BY <1>1 DEF IdsIn, Members
    <3>2. y # x /\ f[y] # None /\ id \in f[y].ids
      BY <1>1, <3>1
    <3>3. Apart(f[y], f[x])
      BY <1>1, <3>2 DEF Separate
    <3>. QED  BY <1>1, <3>2, <3>3 DEF IdsIn, Members, Apart
  <2>2. ASSUME NEW id \in IdsIn(f), id \notin f[x].ids
        PROVE  id \in IdsIn(g)
    <3>1. PICK y \in D : f[y] # None /\ id \in f[y].ids
      BY <1>1 DEF IdsIn, Members
    <3>2. g[y] # None /\ id \in g[y].ids
      BY <1>1, <2>2, <3>1
    <3>. QED  BY <1>1, <3>2 DEF IdsIn, Members
  <2>. QED  BY <2>1, <2>2
<1>4. Separate(g)
  BY <1>1 DEF Separate
<1>. QED  BY <1>2, <1>3, <1>4

(* A family without requests.                                              *)
LEMMA FamilyEmpty ==
  ASSUME NEW D
  PROVE  IdsIn([x \in D |-> None]) = {} /\ Separate([x \in D |-> None])
BY DEF IdsIn, Members, Separate

(***************************************************************************)
(* Queues.                                                                 *)
(***************************************************************************)
LEMMA IdsOfElements == \A q : IdsOf(q) = UNION {r.ids : r \in Elements(q)}
BY DEF IdsOf, Elements

(* A part of a queue, in its order.                                        *)
LEMMA PartLined ==
  ASSUME NEW q \in Seq(Request), NEW s, NEW g \in [DOMAIN s -> DOMAIN q],
         \A i, j \in DOMAIN s : i < j => g[i] < g[j],
         \A i \in DOMAIN s : s[i] = q[g[i]],
         Lined(q)
  PROVE  Lined(s)
BY DEF Lined

(* In a queue, requests at different places are apart.                     *)
LEMMA LinedApart ==
  ASSUME NEW q \in Seq(Request), Lined(q),
         NEW i \in DOMAIN q, NEW j \in DOMAIN q, i # j
  PROVE  Apart(q[i], q[j])
<1>1. i \in Nat /\ j \in Nat
  BY LenProperties
<1>2. i < j \/ j < i
  BY <1>1
<1>. QED  BY <1>2 DEF Lined, Apart

(* The request at i is taken out, those before it are dropped.             *)
LEMMA QueuePopped ==
  ASSUME NEW q \in Seq(Request), Lined(q), NEW i \in DOMAIN q
  PROVE  LET old  == SubSeq(q, 1, i - 1)
             rest == SubSeq(q, i + 1, Len(q))
         IN  /\ Lined(rest)
             /\ IdsOf(q) = IdsOf(old) \cup q[i].ids \cup IdsOf(rest)
             /\ IdsOf(old) \cap q[i].ids = {}
             /\ IdsOf(old) \cap IdsOf(rest) = {}
             /\ q[i].ids \cap IdsOf(rest) = {}
             /\ Elements(rest) \subseteq Elements(q)
             /\ \A r \in Elements(rest) : Before(q[i], r)
<1>. DEFINE n    == Len(q)
            old  == SubSeq(q, 1, i - 1)
            rest == SubSeq(q, i + 1, n)
<1>1. q \in [1 .. n -> Request] /\ n \in Nat /\ i \in 1 .. n /\ DOMAIN q = 1 .. n
  BY LenProperties
<1>2. /\ DOMAIN old = 1 .. i - 1
      /\ \A k \in 1 .. i - 1 : old[k] = q[k]
  <2>1. old \in Seq(Request) /\ Len(old) = i - 1
          /\ \A m \in 1 .. i - 1 : old[m] = q[m]
    BY <1>1, SubSeqProperties
  <2>. QED  BY <2>1, LenProperties
<1>3. /\ DOMAIN rest = 1 .. n - i
      /\ \A k \in 1 .. n - i : rest[k] = q[i + k]
  <2>1. /\ rest \in Seq(Request)
        /\ Len(rest) = n - i
        /\ \A m \in 1 .. n - (i + 1) + 1 : rest[m] = q[(i + 1) + m - 1]
    BY <1>1, SubSeqProperties
  <2>2. DOMAIN rest = 1 .. n - i
    BY <2>1, LenProperties
  <2>. HIDE DEF n, rest
  <2>3. ASSUME NEW k \in 1 .. n - i
        PROVE  rest[k] = q[i + k]
    <3>1. k \in 1 .. n - (i + 1) + 1 /\ (i + 1) + k - 1 = i + k
      BY <1>1, <2>3
    <3>. QED  BY <2>1, <3>1
  <2>. QED  BY <2>2, <2>3
<1>. HIDE DEF n, old, rest
<1>4. \A k \in DOMAIN old : k \in DOMAIN q /\ k < i /\ old[k] = q[k]
  BY <1>1, <1>2
<1>5. \A k \in DOMAIN rest : /\ i + k \in DOMAIN q /\ i < i + k
                             /\ rest[k] = q[i + k]
  BY <1>1, <1>3
<1>6. Lined(rest)
  <2>. DEFINE g == [k \in DOMAIN rest |-> i + k]
  <2>1. g \in [DOMAIN rest -> DOMAIN q]
    BY <1>5
  <2>2. \A j, k \in DOMAIN rest : j < k => g[j] < g[k]
    BY <1>1, <1>3
  <2>. QED  BY <1>5, <2>1, <2>2, PartLined
<1>7. IdsOf(q) = IdsOf(old) \cup q[i].ids \cup IdsOf(rest)
  <2>1. IdsOf(old) \subseteq IdsOf(q) /\ IdsOf(rest) \subseteq IdsOf(q)
          /\ q[i].ids \subseteq IdsOf(q)
    BY <1>4, <1>5 DEF IdsOf
  <2>2. ASSUME NEW j \in DOMAIN q
        PROVE  q[j].ids \subseteq IdsOf(old) \cup q[i].ids \cup IdsOf(rest)
    <3>1. CASE j < i
      <4>1. j \in DOMAIN old /\ old[j] = q[j]
        BY <1>1, <1>2, <3>1
      <4>. QED  BY <4>1 DEF IdsOf
    <3>2. CASE j > i
      <4>1. j - i \in DOMAIN rest /\ rest[j - i] = q[j]
        BY <1>1, <1>3, <3>2
      <4>. QED  BY <4>1 DEF IdsOf
    <3>3. CASE j = i
      BY <3>3
    <3>. QED  BY <1>1, <3>1, <3>2, <3>3
  <2>. QED  BY <2>1, <2>2 DEF IdsOf
<1>8. \A k \in DOMAIN old : Apart(old[k], q[i])
  BY <1>4 DEF Lined
<1>9. \A k \in DOMAIN rest : Apart(q[i], rest[k]) /\ Before(q[i], rest[k])
  BY <1>5 DEF Lined
<1>10. ASSUME NEW j \in DOMAIN old, NEW k \in DOMAIN rest
       PROVE  Apart(old[j], rest[k])
  <2>1. j \in DOMAIN q /\ i + k \in DOMAIN q /\ j # i + k
    BY <1>1, <1>2, <1>4, <1>5
  <2>. QED  BY <1>4, <1>5, <2>1, LinedApart
<1>11. /\ IdsOf(old) \cap q[i].ids = {}
       /\ IdsOf(old) \cap IdsOf(rest) = {}
       /\ q[i].ids \cap IdsOf(rest) = {}
  BY <1>8, <1>9, <1>10 DEF IdsOf, Apart
<1>12. /\ Elements(rest) \subseteq Elements(q)
       /\ \A r \in Elements(rest) : Before(q[i], r)
  BY <1>5, <1>9 DEF Elements
<1>. QED  BY <1>6, <1>7, <1>11, <1>12 DEF old, rest, n

(* An injection between finite sets of the same size reaches every element *)
(* of the second.                                                          *)
LEMMA Enumeration ==
  ASSUME NEW S, IsFiniteSet(S), NEW f \in [1 .. Cardinality(S) -> S],
         \A i, j \in 1 .. Cardinality(S) : f[i] = f[j] => i = j
  PROVE  \A x \in S : \E i \in 1 .. Cardinality(S) : f[i] = x
<1>. DEFINE n == Cardinality(S)
<1>1. n \in Nat
  BY FS_CardinalityType
<1>2. Cardinality(1 .. n) = n
  BY <1>1, FS_Interval
<1>3. f \in Injection(1 .. n, S)
  BY DEF Injection, IsInjective
<1>4. f \in Surjection(1 .. n, S)
  BY <1>2, <1>3, FS_Injection
<1>. QED  BY <1>4 DEF Surjection

(* What onclose leaves of a queue.                                         *)
LEMMA QueuePurged ==
  ASSUME NEW q \in Seq(Request), Lined(q), NEW left, NEW a,
         IsPurgeOf(left, q, a)
  PROVE  /\ Lined(left)
         /\ IdsOf(left) = IdsOf(q) \ UNION {q[i].ids : i \in
                             {j \in DOMAIN q : BelongsTo(q[j], a)}}
         /\ Elements(left) \subseteq Elements(q)
<1>. DEFINE stay == {i \in DOMAIN q : ~BelongsTo(q[i], a)}
            go   == {j \in DOMAIN q : BelongsTo(q[j], a)}
            n    == Cardinality(stay)
<1>1. PICK f \in [1 .. n -> stay] :
        /\ \A i, j \in DOMAIN f : i < j => f[i] < f[j]
        /\ left = [i \in DOMAIN f |-> q[f[i]]]
  BY DEF IsPurgeOf
<1>2. DOMAIN q = 1 .. Len(q) /\ Len(q) \in Nat
  BY LenProperties
<1>3. IsFiniteSet(stay) /\ n \in Nat
  <2>1. IsFiniteSet(DOMAIN q)
    BY <1>2, FS_Interval
  <2>2. IsFiniteSet(stay)
    BY <2>1, FS_Subset
  <2>. QED  BY <2>2, FS_CardinalityType
<1>4. \A i, j \in 1 .. n : f[i] = f[j] => i = j
  <2>1. ASSUME NEW i \in 1 .. n, NEW j \in 1 .. n, f[i] = f[j], i # j
        PROVE  FALSE
    <3>1. i < j \/ j < i
      BY <1>3, <2>1
    <3>2. f[i] < f[j] \/ f[j] < f[i]
      BY <1>1, <3>1
    <3>3. f[i] \in Nat
      BY <1>2
    <3>. QED  BY <2>1, <3>2, <3>3
  <2>. QED  BY <2>1
<1>5. \A x \in stay : \E i \in 1 .. n : f[i] = x
  BY <1>3, <1>4, Enumeration
<1>6. DOMAIN left = 1 .. n /\ \A i \in 1 .. n : left[i] = q[f[i]] /\ f[i] \in stay
  BY <1>1
<1>. HIDE DEF n
<1>7. Lined(left)
  <2>1. f \in [DOMAIN left -> DOMAIN q]
    BY <1>6
  <2>. QED  BY <1>1, <1>6, <2>1, PartLined
<1>8. Elements(left) \subseteq Elements(q)
  BY <1>6 DEF Elements
<1>9. ASSUME NEW id \in IdsOf(left)
      PROVE  id \in IdsOf(q) /\ \A j \in go : id \notin q[j].ids
  <2>1. PICK i \in stay : id \in q[i].ids
    BY <1>6 DEF IdsOf
  <2>2. \A j \in go : Apart(q[i], q[j])
    BY LinedApart
  <2>. QED  BY <2>1, <2>2 DEF IdsOf, Apart
<1>10. ASSUME NEW id \in IdsOf(q), \A j \in go : id \notin q[j].ids
       PROVE  id \in IdsOf(left)
  <2>1. PICK i \in DOMAIN q : id \in q[i].ids
    BY DEF IdsOf
  <2>2. i \in stay
    BY <1>10, <2>1
  <2>. QED  BY <1>5, <1>6, <2>1, <2>2 DEF IdsOf
<1>11. IdsOf(left) = IdsOf(q) \ UNION {q[j].ids : j \in go}
  BY <1>9, <1>10
<1>. QED  BY <1>7, <1>8, <1>11

(* Two queues, one behind the other.                                       *)
LEMMA QueueJoined ==
  ASSUME NEW p \in Seq(Request), NEW q \in Seq(Request), Lined(p), Lined(q),
         \A r \in Elements(p), s \in Elements(q) : Apart(r, s) /\ Before(r, s)
  PROVE  /\ Lined(p \o q)
         /\ IdsOf(p \o q) = IdsOf(p) \cup IdsOf(q)
         /\ Elements(p \o q) = Elements(p) \cup Elements(q)
<1>. DEFINE m == Len(p)
            n == Len(q)
            w == p \o q
<1>1. m \in Nat /\ n \in Nat /\ DOMAIN p = 1 .. m /\ DOMAIN q = 1 .. n
  BY LenProperties
<1>2. /\ w \in Seq(Request) /\ Len(w) = m + n
      /\ \A i \in 1 .. m + n : w[i] = IF i <= m THEN p[i] ELSE q[i - m]
  BY ConcatProperties
<1>3. DOMAIN w = 1 .. m + n
  BY <1>2, LenProperties
<1>4. Elements(w) = Elements(p) \cup Elements(q)
  <2>1. Range(p \o q) = Range(p) \cup Range(q)
    BY RangeConcatenation
  <2>. QED  BY <2>1 DEF Range, Elements
<1>. HIDE DEF m, n, w
<1>5. ASSUME NEW i \in DOMAIN w, NEW j \in DOMAIN w, i < j
      PROVE  Apart(w[i], w[j]) /\ Before(w[i], w[j])
  <2>1. CASE j <= m
    <3>1. i \in DOMAIN p /\ j \in DOMAIN p /\ w[i] = p[i] /\ w[j] = p[j]
      BY <1>1, <1>2, <1>3, <1>5, <2>1
    <3>. QED  BY <1>5, <3>1 DEF Lined
  <2>2. CASE i <= m /\ ~(j <= m)
    <3>1. i \in DOMAIN p /\ j - m \in DOMAIN q /\ w[i] = p[i] /\ w[j] = q[j - m]
      BY <1>1, <1>2, <1>3, <1>5, <2>2
    <3>. QED  BY <3>1 DEF Elements
  <2>3. CASE ~(i <= m)
    <3>1. /\ i - m \in DOMAIN q /\ j - m \in DOMAIN q /\ i - m < j - m
          /\ w[i] = q[i - m] /\ w[j] = q[j - m]
      BY <1>1, <1>2, <1>3, <1>5, <2>3
    <3>. QED  BY <3>1 DEF Lined
  <2>. QED  BY <1>1, <1>3, <2>1, <2>2, <2>3
<1>6. IdsOf(w) = IdsOf(p) \cup IdsOf(q)
  BY <1>4, IdsOfElements
<1>. QED  BY <1>4, <1>5, <1>6 DEF Lined, w

(* A queue of one request.                                                 *)
LEMMA OneLined ==
  ASSUME NEW r \in Request
  PROVE  /\ <<r>> \in Seq(Request) /\ Lined(<<r>>)
         /\ IdsOf(<<r>>) = r.ids /\ Elements(<<r>>) = {r}
<1>1. /\ <<r>> \in Seq(Request) /\ DOMAIN <<r>> = {1} /\ <<r>>[1] = r
  OBVIOUS
<1>2. IdsOf(<<r>>) = r.ids /\ Elements(<<r>>) = {r}
  BY <1>1 DEF IdsOf, Elements
<1>3. Lined(<<r>>)
  BY <1>1 DEF Lined
<1>. QED  BY <1>1, <1>2, <1>3

(* A queue without its last element, or without its first.                 *)
LEMMA QueueCut ==
  ASSUME NEW q \in Seq(Request), Lined(q), q # <<>>
  PROVE  /\ LET cut == SubSeq(q, 1, Len(q) - 1)
             IN  /\ Lined(cut) /\ Elements(cut) \subseteq Elements(q)
                 /\ IdsOf(q) \ IdsOf(cut) = q[Len(q)].ids
                 /\ IdsOf(cut) \subseteq IdsOf(q)
         /\ /\ Lined(Tail(q)) /\ Elements(Tail(q)) \subseteq Elements(q)
            /\ Head(q) \in Elements(q)
            /\ IdsOf(Tail(q)) = IdsOf(q) \ Head(q).ids
            /\ Head(q).ids \subseteq IdsOf(q)
<1>. DEFINE n   == Len(q)
            cut == SubSeq(q, 1, n - 1)
<1>1. n \in Nat \ {0} /\ DOMAIN q = 1 .. n /\ q \in [1 .. n -> Request]
  BY LenProperties, EmptySeq
<1>2. /\ DOMAIN cut = 1 .. n - 1
      /\ \A k \in 1 .. n - 1 : cut[k] = q[k]
  <2>1. cut \in Seq(Request) /\ Len(cut) = n - 1
          /\ \A m \in 1 .. n - 1 : cut[m] = q[m]
    BY <1>1, SubSeqProperties
  <2>. QED  BY <2>1, LenProperties
<1>3. /\ DOMAIN Tail(q) = 1 .. n - 1 /\ Head(q) = q[1]
      /\ \A k \in 1 .. n - 1 : Tail(q)[k] = q[k + 1]
  <2>1. /\ Tail(q) \in Seq(Request) /\ Len(Tail(q)) = n - 1
        /\ \A i \in 1 .. Len(Tail(q)) : Tail(q)[i] = q[i + 1]
    BY HeadTailProperties
  <2>. QED  BY <2>1, LenProperties
<1>. HIDE DEF n
<1>4. /\ Lined(cut) /\ Elements(cut) \subseteq Elements(q)
      /\ IdsOf(q) \ IdsOf(cut) = q[n].ids /\ IdsOf(cut) \subseteq IdsOf(q)
  <2>1. \A k \in DOMAIN cut : k \in DOMAIN q /\ cut[k] = q[k] /\ k # n
    BY <1>1, <1>2
  <2>2. \A k \in DOMAIN q : k = n \/ k \in DOMAIN cut
    BY <1>1, <1>2
  <2>. HIDE DEF cut
  <2>3. Lined(cut)
    BY <2>1 DEF Lined
  <2>4. \A k \in DOMAIN cut : Apart(q[k], q[n])
    BY <1>1, <2>1, LinedApart
  <2>5. n \in DOMAIN q
    BY <1>1
  <2>. QED  BY <2>1, <2>2, <2>3, <2>4, <2>5 DEF IdsOf, Elements, Apart
<1>5. /\ Lined(Tail(q)) /\ Elements(Tail(q)) \subseteq Elements(q)
      /\ Head(q) \in Elements(q)
      /\ IdsOf(Tail(q)) = IdsOf(q) \ Head(q).ids
      /\ Head(q).ids \subseteq IdsOf(q)
  <2>1. \A k \in DOMAIN Tail(q) : k + 1 \in DOMAIN q /\ Tail(q)[k] = q[k + 1]
          /\ k + 1 # 1
    BY <1>1, <1>3
  <2>2. ASSUME NEW k \in DOMAIN q, k # 1
        PROVE  \E j \in DOMAIN Tail(q) : q[k] = Tail(q)[j]
    <3>1. k - 1 \in DOMAIN Tail(q) /\ Tail(q)[k - 1] = q[(k - 1) + 1]
            /\ (k - 1) + 1 = k
      BY <1>1, <1>3, <2>2
    <3>. QED  BY <3>1
  <2>3. Lined(Tail(q))
    <3>. DEFINE g == [k \in DOMAIN Tail(q) |-> k + 1]
    <3>1. g \in [DOMAIN Tail(q) -> DOMAIN q]
      BY <2>1
    <3>2. \A j, k \in DOMAIN Tail(q) : j < k => g[j] < g[k]
      BY <1>1, <1>3
    <3>. QED  BY <2>1, <3>1, <3>2, PartLined
  <2>4. 1 \in DOMAIN q
    BY <1>1
  <2>5. \A k \in DOMAIN q : k # 1 => Apart(q[k], q[1])
    BY <2>4, LinedApart
  <2>6. \A k \in DOMAIN Tail(q) : Apart(Tail(q)[k], q[1])
    BY <2>1, <2>5
  <2>7. Elements(Tail(q)) \subseteq Elements(q) /\ Head(q) \in Elements(q)
    BY <1>3, <2>1, <2>4 DEF Elements
  <2>8. IdsOf(Tail(q)) \subseteq IdsOf(q) /\ Head(q).ids \subseteq IdsOf(q)
    BY <1>3, <2>1, <2>4 DEF IdsOf
  <2>9. IdsOf(Tail(q)) \cap Head(q).ids = {}
    BY <1>3, <2>6 DEF IdsOf, Apart
  <2>10. IdsOf(q) \subseteq IdsOf(Tail(q)) \cup Head(q).ids
    <3>1. ASSUME NEW k \in DOMAIN q
          PROVE  q[k].ids \subseteq IdsOf(Tail(q)) \cup Head(q).ids
      BY <1>3, <2>2 DEF IdsOf
    <3>. QED  BY <3>1 DEF IdsOf
  <2>. QED  BY <2>3, <2>7, <2>8, <2>9, <2>10
<1>. QED  BY <1>4, <1>5 DEF n, cut

-----------------------------------------------------------------------------
(* Where the messages are that requests stand for.                         *)
HandlerRequest == [t \in IoThreads |-> io[t].request]
Hand           == {server.hand} \ {None}

Places == {"handler", "pending", "hand", "batch", "queued", "responder",
           "answer", "ended"}

Held == [handler   |-> IdsIn(HandlerRequest),
         pending   |-> IdsOf(pendingReadRequests),
         hand      |-> UNION {r.ids : r \in Hand},
         batch     |-> IdsIn(currentRequest),
         queued    |-> IdsOf(pendingResponse),
         responder |-> IdsIn(response),
         answer    |-> IdsOf(answers),
         ended     |-> DOMAIN ended]

Partition(held, all) ==
  /\ \A k \in Places : held[k] \subseteq all
  /\ \A id \in all : \E k \in Places : id \in held[k]
  /\ \A j, k \in Places : j # k => held[j] \cap held[k] = {}

(* What three places held they hold still, in other shares.                *)
LEMMA Reshared ==
  ASSUME NEW f, NEW g, NEW all, Partition(f, all),
         NEW a \in Places, NEW b \in Places, NEW c \in Places,
         a # b, a # c, b # c,
         \A k \in Places \ {a, b, c} : g[k] = f[k],
         g[a] \cup g[b] \cup g[c] = f[a] \cup f[b] \cup f[c],
         g[a] \cap g[b] = {}, g[a] \cap g[c] = {}, g[b] \cap g[c] = {}
  PROVE  Partition(g, all)
<1>1. \A k \in Places : g[k] \subseteq all
  BY DEF Partition
<1>2. ASSUME NEW id \in all
      PROVE  \E k \in Places : id \in g[k]
  <2>1. PICK k \in Places : id \in f[k]
    BY DEF Partition
  <2>2. CASE k \in {a, b, c}
    BY <2>1, <2>2
  <2>3. CASE k \notin {a, b, c}
    BY <2>1, <2>3
  <2>. QED  BY <2>2, <2>3
<1>3. ASSUME NEW j \in Places, NEW k \in Places, j # k, j \notin {a, b, c}
      PROVE  g[j] \cap g[k] = {}
  <2>1. g[j] = f[j]
    BY <1>3
  <2>2. \A i \in Places : i # j => f[j] \cap f[i] = {}
    BY DEF Partition
  <2>3. CASE k \in {a, b, c}
    BY <1>3, <2>1, <2>2, <2>3
  <2>4. CASE k \notin {a, b, c}
    BY <1>3, <2>1, <2>2, <2>4
  <2>. QED  BY <2>3, <2>4
<1>4. ASSUME NEW j \in {a, b, c}, NEW k \in {a, b, c}, j # k
      PROVE  g[j] \cap g[k] = {}
  BY <1>4
<1>5. ASSUME NEW j \in Places, NEW k \in Places, j # k
      PROVE  g[j] \cap g[k] = {}
  <2>1. CASE j \notin {a, b, c}
    BY <1>3, <1>5, <2>1
  <2>2. CASE k \notin {a, b, c}
    BY <1>3, <1>5, <2>2
  <2>. QED  BY <1>4, <1>5, <2>1, <2>2
<1>. QED  BY <1>1, <1>2, <1>5 DEF Partition

(* Every message received is in one place only, ...                        *)
Placed == Partition(Held, DOMAIN log)

(* ... and in one request of that place.                                   *)
Apartness == /\ Separate(HandlerRequest)
             /\ Separate(currentRequest)
             /\ Separate(response)
             /\ Lined(pendingReadRequests)
             /\ Lined(pendingResponse)
             /\ \A i, j \in DOMAIN answers : i # j => Apart(answers[i], answers[j])

(* The requests of a connection go through these places in this order.     *)
Ordered(S, T) == \A r \in S, s \in T : Before(r, s)

Stages ==
  /\ Ordered(Elements(pendingResponse), Members(currentRequest))
  /\ Ordered(Elements(pendingResponse), Hand)
  /\ Ordered(Elements(pendingResponse), Elements(pendingReadRequests))
  /\ Ordered(Elements(pendingResponse), Members(HandlerRequest))
  /\ Ordered(Members(currentRequest), Hand)
  /\ Ordered(Members(currentRequest), Elements(pendingReadRequests))
  /\ Ordered(Members(currentRequest), Members(HandlerRequest))
  /\ Ordered(Hand, Elements(pendingReadRequests))
  /\ Ordered(Hand, Members(HandlerRequest))
  /\ Ordered(Elements(pendingReadRequests), Members(HandlerRequest))

Placement == Placed /\ Apartness /\ Stages

(* The messages that are held in each of the places, before and after a    *)
(* step.                                                                   *)
LEMMA HeldIs ==
  /\ /\ Held["handler"] = IdsIn(HandlerRequest)
     /\ Held["pending"] = IdsOf(pendingReadRequests)
     /\ Held["hand"] = UNION {r.ids : r \in Hand}
     /\ Held["batch"] = IdsIn(currentRequest)
     /\ Held["queued"] = IdsOf(pendingResponse)
     /\ Held["responder"] = IdsIn(response)
     /\ Held["answer"] = IdsOf(answers)
     /\ Held["ended"] = DOMAIN ended
  /\ /\ Held'["handler"] = IdsIn(HandlerRequest')
     /\ Held'["pending"] = IdsOf(pendingReadRequests')
     /\ Held'["hand"] = UNION {r.ids : r \in Hand'}
     /\ Held'["batch"] = IdsIn(currentRequest')
     /\ Held'["queued"] = IdsOf(pendingResponse')
     /\ Held'["responder"] = IdsIn(response')
     /\ Held'["answer"] = IdsOf(answers')
     /\ Held'["ended"] = DOMAIN ended'
BY DEF Held

(* At the start no place holds anything.                                   *)
LEMMA InitPlacement == Init => Placement
<1>. SUFFICES ASSUME Init
              PROVE  Placement
  OBVIOUS
<1>1. /\ HandlerRequest = [t \in IoThreads |-> None]
      /\ Hand = {} /\ pendingReadRequests = <<>> /\ pendingResponse = <<>>
      /\ currentRequest = [a \in Addr |-> None]
      /\ response = [p \in Responders |-> None]
      /\ answers = <<>> /\ ended = <<>> /\ log = <<>>
  BY DEF Init, HandlerRequest, Hand, IdleHandler
<1>2. IdsOf(<<>>) = {} /\ Lined(<<>>) /\ Elements(<<>>) = {}
  BY DEF IdsOf, Lined, Elements
<1>3. \A k \in Places : Held[k] = {}
  BY <1>1, <1>2, FamilyEmpty, HeldIs DEF Places
<1>4. Placed
  BY <1>1, <1>3 DEF Placed, Partition
<1>5. Apartness
  BY <1>1, <1>2, FamilyEmpty DEF Apartness
<1>6. Stages
  BY <1>1, <1>2 DEF Stages, Ordered, Members
<1>. QED  BY <1>4, <1>5, <1>6 DEF Placement

(* Places that are left alone hold what they held.                         *)
LEMMA PlacementFrame ==
  ASSUME Placement,
         UNCHANGED <<HandlerRequest, pendingReadRequests, Hand, currentRequest,
                     pendingResponse, response, answers, ended, log>>
  PROVE  Placement'
<1>1. \A k \in Places : Held'[k] = Held[k]
  BY HeldIs DEF Places
<1>2. Placed'
  BY <1>1 DEF Placement, Placed, Partition
<1>3. Apartness' /\ Stages'
  BY DEF Placement, Apartness, Stages
<1>. QED  BY <1>2, <1>3 DEF Placement

(* Only a handler of a read message holds a request, and two handlers are  *)
(* never of the same connection.                                           *)
LEMMA HandlersApart ==
  ASSUME Typing, Registration, Soundness
  PROVE  /\ HandlerRequest \in [IoThreads -> Request \cup {None}]
         /\ \A t \in IoThreads : /\ HandlerRequest[t] = io[t].request
                                 /\ io[t].op # "read" => io[t].request = None
         /\ \A t, u \in IoThreads :
              t # u /\ HandlerRequest[t] # None /\ HandlerRequest[u] # None
                => HandlerRequest[t].conn # HandlerRequest[u].conn
<1>1. io \in [IoThreads -> [op : HandlerOps, conn : Addr \cup {None},
                            request : Request \cup {None}]]
  BY DEF Typing, TypeOK, HandlerTypes
<1>2. \A t \in IoThreads : io[t].request # None =>
        /\ io[t].op = "read" /\ io[t].request.conn = io[t].conn
        /\ home[io[t].request.conn] = t
  BY DEF Soundness, HandlersSound, Registration, OwnObject
<1>. QED  BY <1>1, <1>2 DEF HandlerRequest

(* Each message stays in one place through the steps of an io thread,      *)
LEMMA HandlerPlacement ==
  ASSUME Typing, Registration, Soundness, Placement, [Next]_vars,
         NEW t \in IoThreads, FromClient(t) \/ InHandler(t)
  PROVE  Placement'
<1>. DEFINE q == pendingReadRequests
            H == HandlerRequest
<1>0. /\ q \in Seq(Request) /\ Lined(q)
      /\ io \in [IoThreads -> [op : HandlerOps, conn : Addr \cup {None},
                               request : Request \cup {None}]]
  BY DEF Typing, TypeOK, QueueTypes, HandlerTypes, Placement, Apartness
<1>1. /\ H \in [IoThreads -> Request \cup {None}]
      /\ \A u \in IoThreads : H[u] = io[u].request
      /\ io[t].op # "read" => H[t] = None
  BY HandlersApart
<1>2. ASSUME \E h : io' = [io EXCEPT ![t] = h] /\ h.request = None
      PROVE  H' = [H EXCEPT ![t] = None]
  BY <1>0, <1>2 DEF HandlerRequest
<1>3. ASSUME \/ \E a \in Addr : \/ Accept(t, a) \/ ReceiveWrite(t, a)
                                \/ Close(t, a) \/ Destroy(t, a)
             \/ AddConnection(t) \/ FinishAddPendingReadRequest(t)
             \/ WriteSymbolValue(t) \/ SendWriteResponse(t)
             \/ RemoveConnection(t) \/ FinishRemoveConnection(t)
      PROVE  Placement'
  <2>1. io' = io \/ (io[t].op # "read" /\ H' = [H EXCEPT ![t] = None])
    <3>1. IdleHandler.request = None /\ \A op, a : Handler(op, a).request = None
      BY DEF IdleHandler, Handler
    <3>2. \/ io' = io
          \/ io[t].op # "read" /\ io' = [io EXCEPT ![t] = IdleHandler]
          \/ io[t].op # "read" /\ \E op, a : io' = [io EXCEPT ![t] = Handler(op, a)]
      BY <1>3
         DEF Accept, AddConnection, FinishAddPendingReadRequest, ReceiveWrite,
             WriteSymbolValue, SendWriteResponse, Close, RemoveConnection,
             FinishRemoveConnection, Destroy, Doing, Return, Goto
    <3>. QED  BY <1>2, <3>1, <3>2
  <2>2. H' = H
    <3>1. CASE io' = io
      BY <3>1 DEF HandlerRequest
    <3>2. CASE io[t].op # "read" /\ H' = [H EXCEPT ![t] = None]
      <4>. HIDE DEF H
      <4>. QED  BY <1>1, <3>2
    <3>. QED  BY <2>1, <3>1, <3>2
  <2>3. UNCHANGED <<q, serverVars, responseVars, answers, ended, log>>
    BY <1>3
       DEF Accept, AddConnection, FinishAddPendingReadRequest, ReceiveWrite,
           WriteSymbolValue, SendWriteResponse, Close, RemoveConnection,
           FinishRemoveConnection, Destroy, readVars
  <2>. QED
    BY <2>2, <2>3, PlacementFrame DEF serverVars, responseVars, Hand
<1>4. ASSUME NEW a \in Addr, NEW keys \in KeyLists, ReceiveRead(t, a, keys)
      PROVE  Placement'
  <2>. DEFINE n     == Len(log) + 1
              r     == [conn |-> a, keys |-> keys, receiveTime |-> n, ids |-> {n}]
              entry == [conn |-> a, session |-> session[a], keys |-> keys]
              Entry == [conn : Addr, session : Nat, keys : Seq(Keys)]
  <2>1. /\ log' = Append(log, entry) /\ io[t].op = "idle"
        /\ io' = [io EXCEPT ![t] = [op |-> "read", conn |-> a, request |-> r]]
        /\ UNCHANGED <<q, serverVars, responseVars, answers, ended>>
    BY <1>4 DEF ReceiveRead, Doing, readVars
  <2>2. DOMAIN log = 1 .. Len(log) /\ Len(log) \in Nat /\ DOMAIN log' = 1 .. n
    <3>1. entry \in Entry /\ log \in Seq(Entry)
      BY KeyListsType DEF Typing, TypeOK, ObjectTypes, HistoryTypes
    <3>2. log' \in Seq(Entry) /\ Len(log') = n
      BY <2>1, <3>1, AppendProperties
    <3>. QED  BY <3>1, <3>2, LenProperties
  <2>3. r \in Request /\ r # None
    BY <2>2, KeyListsType, NoneIsNoRequest DEF Request
  <2>4. H' = [H EXCEPT ![t] = r] /\ H[t] = None
    BY <1>0, <1>1, <2>1 DEF HandlerRequest
  <2>5. \A k \in Places : n \notin Held[k]
    BY <2>2 DEF Placement, Placed, Partition
  <2>6. IdsIn(H') = IdsIn(H) \cup {n} /\ Separate(H')
    <3>1. /\ \A id \in r.ids \cap IdsIn(H) : H[t] # None /\ id \in H[t].ids
          /\ H[t] # None => H[t].ids \subseteq r.ids
      BY <2>4, <2>5, HeldIs DEF Places
    <3>2. Separate(H)
      BY DEF Placement, Apartness
    <3>3. H \in [IoThreads -> Request \cup {None}] /\ r \in Request
      BY <1>1, <2>3
    <3>4. H' = [H EXCEPT ![t] = r]
      BY <2>4
    <3>5. IdsIn(H') = IdsIn(H) \cup r.ids /\ Separate(H')
      <4>. HIDE DEF r, H
      <4>. QED  BY <3>1, <3>2, <3>3, <3>4, FamilyGrows, Zenon
    <3>. QED  BY <3>5
  <2>7. UNCHANGED <<Hand, currentRequest, pendingResponse, response>>
    BY <2>1 DEF Hand, serverVars, responseVars
  <2>8. Placed'
    <3>1. /\ Held'["handler"] = Held["handler"] \cup {n}
          /\ \A k \in Places : k # "handler" => Held'[k] = Held[k]
      BY <2>1, <2>6, <2>7, HeldIs DEF Places
    <3>2. /\ \A k \in Places : Held[k] \subseteq DOMAIN log
          /\ \A id \in DOMAIN log : \E k \in Places : id \in Held[k]
          /\ \A j, k \in Places : j # k => Held[j] \cap Held[k] = {}
      BY DEF Placement, Placed, Partition
    <3>3. DOMAIN log' = DOMAIN log \cup {n}
      BY <2>2
    <3>4. "handler" \in Places
      BY DEF Places
    <3>5. \A k \in Places : Held'[k] \subseteq DOMAIN log'
      BY <3>1, <3>2, <3>3
    <3>6. \A id \in DOMAIN log' : \E k \in Places : id \in Held'[k]
      BY <3>1, <3>2, <3>3, <3>4
    <3>7. \A j, k \in Places : j # k => Held'[j] \cap Held'[k] = {}
      BY <2>5, <3>1, <3>2
    <3>. QED  BY <3>5, <3>6, <3>7 DEF Placed, Partition
  <2>9. Apartness'
    BY <2>1, <2>6, <2>7 DEF Placement, Apartness
  <2>10. Stages'
    <3>1. ASSUME NEW s, Sound(log, s)
          PROVE  Before(s, r)
      BY <2>2, <3>1 DEF Sound, Before
    <3>2. /\ \A s \in Elements(pendingResponse) : Sound(log, s)
          /\ \A s \in Members(currentRequest) : Sound(log, s)
          /\ \A s \in Hand : Sound(log, s)
          /\ \A s \in Elements(q) : Sound(log, s)
      <4>1. DOMAIN currentRequest = Addr
        BY DEF Typing, TypeOK, ServerTypes
      <4>. QED
        BY <4>1
           DEF Soundness, QueueSound, BatchSound, Batched, HandSound, Hand,
               PendingSound, Elements, Members
    <3>3. Members(H') \subseteq Members(H) \cup {r}
      BY <1>1, <2>4 DEF Members
    <3>4. ASSUME NEW S, Ordered(S, Members(H)), \A s \in S : Sound(log, s)
          PROVE  Ordered(S, Members(H'))
      BY <3>1, <3>3, <3>4 DEF Ordered
    <3>5. /\ Ordered(Elements(pendingResponse), Members(H)')
          /\ Ordered(Members(currentRequest), Members(H)')
          /\ Ordered(Hand, Members(H)')
          /\ Ordered(Elements(q), Members(H)')
      <4>. HIDE DEF H, q, r
      <4>. QED  BY <3>2, <3>4 DEF Placement, Stages, H, q
    <3>. QED  BY <2>1, <2>7, <3>5 DEF Placement, Stages
  <2>. QED  BY <2>8, <2>9, <2>10 DEF Placement
<1>5. ASSUME AddPendingReadRequest(t)
      PROVE  Placement'
  <2>. DEFINE r == io[t].request
  <2>1. /\ q' = Append(q, r) /\ io[t].op = "read"
        /\ UNCHANGED <<serverVars, responseVars, answers, ended, log>>
    BY <1>5 DEF AddPendingReadRequest, Doing
  <2>2. r \in Request /\ r # None /\ H[t] = r
    BY <1>1, <2>1, NoneIsNoRequest DEF Typing, HandlersHold
  <2>3. H' = [H EXCEPT ![t] = None]
    <3>1. io' = [io EXCEPT ![t] = Handler("pushing", io[t].conn)]
      BY <1>5 DEF AddPendingReadRequest, Goto
    <3>2. Handler("pushing", io[t].conn).request = None
      BY DEF Handler
    <3>. QED  BY <1>2, <3>1, <3>2
  <2>4. IdsIn(H') = IdsIn(H) \ r.ids /\ Separate(H') /\ r.ids \subseteq IdsIn(H)
    <3>1. Separate(H)
      BY DEF Placement, Apartness
    <3>2. H \in [IoThreads -> Request \cup {None}]
      BY <1>1
    <3>3. H[t] # None /\ H[t].ids = r.ids
      BY <2>2
    <3>. HIDE DEF H, r
    <3>. QED  BY <2>3, <3>1, <3>2, <3>3, FamilyLoses, Zenon
  <2>5. UNCHANGED <<Hand, currentRequest, pendingResponse, response>>
    BY <2>1 DEF Hand, serverVars, responseVars
  <2>6. IdsIn(H) \cap IdsOf(q) = {}
    BY HeldIs DEF Placement, Placed, Partition, Places
  <2>7. /\ Lined(q') /\ IdsOf(q') = IdsOf(q) \cup r.ids
        /\ Elements(q') = Elements(q) \cup {r}
    <3>1. q' = q \o <<r>>
      BY <1>0, <2>1, <2>2, AppendIsConcat
    <3>2. r \in Members(H)
      BY <1>1, <2>2 DEF Members
    <3>3. \A s \in Elements(q), x \in Elements(<<r>>) : Apart(s, x) /\ Before(s, x)
      <4>1. \A s \in Elements(q) : Before(s, r)
        BY <3>2 DEF Placement, Stages, Ordered
      <4>2. \A s \in Elements(q) : s.ids \subseteq IdsOf(q)
        BY IdsOfElements
      <4>. QED  BY <2>2, <2>4, <2>6, <4>1, <4>2, OneLined DEF Apart
    <3>4. /\ <<r>> \in Seq(Request) /\ Lined(<<r>>)
          /\ IdsOf(<<r>>) = r.ids /\ Elements(<<r>>) = {r}
      BY <2>2, OneLined
    <3>. QED  BY <1>0, <3>1, <3>3, <3>4, QueueJoined
  <2>8. Placed'
    <3>1. /\ Held'["handler"] = Held["handler"] \ r.ids
          /\ Held'["pending"] = Held["pending"] \cup r.ids
          /\ r.ids \subseteq Held["handler"]
          /\ \A k \in Places \ {"handler", "pending", "ended"} : Held'[k] = Held[k]
          /\ Held'["ended"] = Held["ended"]
      BY <2>1, <2>4, <2>5, <2>7, HeldIs DEF Places
    <3>. DEFINE f == Held
                g == Held'
    <3>2. Partition(f, DOMAIN log)
      BY DEF Placement, Placed
    <3>3. /\ f["handler"] \cap f["pending"] = {}
          /\ f["handler"] \cap f["ended"] = {}
          /\ f["pending"] \cap f["ended"] = {}
      BY <3>2 DEF Partition, Places
    <3>4. /\ g["handler"] \cup g["pending"] \cup g["ended"] =
               f["handler"] \cup f["pending"] \cup f["ended"]
          /\ g["handler"] \cap g["pending"] = {}
          /\ g["handler"] \cap g["ended"] = {}
          /\ g["pending"] \cap g["ended"] = {}
      BY <3>1, <3>3
    <3>5. Partition(g, DOMAIN log)
      <4>. HIDE DEF f, g
      <4>1. "handler" \in Places /\ "pending" \in Places /\ "ended" \in Places
        BY DEF Places
      <4>2. \A k \in Places \ {"handler", "pending", "ended"} : g[k] = f[k]
        BY <3>1 DEF f, g
      <4>. QED  BY <3>2, <3>4, <4>1, <4>2, Reshared
    <3>. QED  BY <2>1, <3>5 DEF Placed
  <2>9. Apartness'
    BY <2>1, <2>4, <2>5, <2>7 DEF Placement, Apartness
  <2>10. Stages'
    <3>1. Members(H') \subseteq Members(H) /\ r \in Members(H)
      BY <1>1, <2>2, <2>3 DEF Members
    <3>2. \A s \in Members(H') : Before(r, s)
      <4>1. ASSUME NEW u \in IoThreads, u # t, H[u] # None
            PROVE  Before(r, H[u])
        BY <2>2, <4>1, HandlersApart DEF Before
      <4>. QED  BY <1>1, <2>3, <4>1 DEF Members
    <3>3. Ordered(Elements(q'), Members(H'))
      BY <2>7, <3>1, <3>2 DEF Placement, Stages, Ordered
    <3>4. \A S : Ordered(S, Elements(q)) /\ Ordered(S, Members(H)) =>
                   Ordered(S, Elements(q')) /\ Ordered(S, Members(H'))
      BY <2>7, <3>1 DEF Ordered
    <3>. QED  BY <2>5, <3>3, <3>4 DEF Placement, Stages
  <2>. QED  BY <2>8, <2>9, <2>10 DEF Placement
<1>6. ASSUME PurgeRequests(t)
      PROVE  Placement'
  <2>. DEFINE a   == io[t].conn
              ids == UNION {q[i].ids : i \in {j \in DOMAIN q : BelongsTo(q[j], a)}}
  <2>1. /\ IsPurgeOf(q', q, a) /\ ended' = End(ids, "purged")
        /\ io[t].op # "read"
        /\ UNCHANGED <<serverVars, responseVars, answers, log>>
    BY <1>6 DEF PurgeRequests, Doing
  <2>2. /\ Lined(q') /\ IdsOf(q') = IdsOf(q) \ ids
        /\ Elements(q') \subseteq Elements(q)
    BY <1>0, <2>1, QueuePurged
  <2>3. ids \subseteq IdsOf(q)
    BY DEF IdsOf
  <2>4. H' = H
    <3>1. io' = [io EXCEPT ![t] = Handler("purging", io[t].conn)]
      BY <1>6 DEF PurgeRequests, Goto
    <3>2. Handler("purging", io[t].conn).request = None
      BY DEF Handler
    <3>3. H' = [H EXCEPT ![t] = None]
      BY <1>2, <3>1, <3>2
    <3>4. H[t] = None
      BY <1>1, <2>1
    <3>. HIDE DEF H
    <3>. QED  BY <1>1, <3>3, <3>4
  <2>5. UNCHANGED <<Hand, currentRequest, pendingResponse, response>>
    BY <2>1 DEF Hand, serverVars, responseVars
  <2>6. DOMAIN ended' = DOMAIN ended \cup ids
    BY <2>1 DEF End
  <2>7. Placed'
    <3>. DEFINE f == Held
                g == Held'
    <3>1. /\ g["pending"] = f["pending"] \ ids
          /\ g["ended"] = f["ended"] \cup ids
          /\ ids \subseteq f["pending"]
          /\ \A k \in Places \ {"handler", "pending", "ended"} : g[k] = f[k]
          /\ g["handler"] = f["handler"]
      <4>. HIDE DEF ids, q, H
      <4>. QED
        BY <2>1, <2>2, <2>3, <2>4, <2>5, <2>6, HeldIs DEF Places, q, H
    <3>2. Partition(f, DOMAIN log)
      BY DEF Placement, Placed
    <3>3. /\ f["handler"] \cap f["pending"] = {}
          /\ f["handler"] \cap f["ended"] = {}
          /\ f["pending"] \cap f["ended"] = {}
      BY <3>2 DEF Partition, Places
    <3>. HIDE DEF f, g
    <3>4. /\ g["handler"] \cup g["pending"] \cup g["ended"] =
               f["handler"] \cup f["pending"] \cup f["ended"]
          /\ g["handler"] \cap g["pending"] = {}
          /\ g["handler"] \cap g["ended"] = {}
          /\ g["pending"] \cap g["ended"] = {}
      BY <3>1, <3>3
    <3>5. "handler" \in Places /\ "pending" \in Places /\ "ended" \in Places
      BY DEF Places
    <3>6. Partition(g, DOMAIN log)
      BY <3>1, <3>2, <3>4, <3>5, Reshared
    <3>. QED  BY <2>1, <3>6 DEF Placed, g
  <2>8. Apartness' /\ Stages'
    BY <2>1, <2>2, <2>4, <2>5 DEF Placement, Apartness, Stages, Ordered
  <2>. QED  BY <2>7, <2>8 DEF Placement
<1>. QED
  BY <1>3, <1>4, <1>5, <1>6 DEF FromClient, InHandler

-----------------------------------------------------------------------------
(* A merged request comes before, and after, what both of its parts do.    *)
LEMMA MergedBefore ==
  ASSUME NEW first \in Request \cup {None}, NEW r \in Request,
         first # None => first.conn = r.conn
  PROVE  /\ Merged(first, r) \in Request
         /\ Merged(first, r).ids =
              (IF first = None THEN {} ELSE first.ids) \cup r.ids
         /\ \A s : Before(s, r) /\ (first # None => Before(s, first))
                     => Before(s, Merged(first, r))
         /\ \A s : Before(r, s) /\ (first # None => Before(first, s))
                     => Before(Merged(first, r), s)
<1>1. Merged(first, r) \in Request
  BY MergedType
<1>2. CASE first = None
  BY <1>1, <1>2 DEF Merged
<1>3. CASE first # None
  <2>. DEFINE m == Merged(first, r)
  <2>1. m.conn = r.conn /\ m.ids = first.ids \cup r.ids
    BY <1>3 DEF Merged, Request
  <2>. HIDE DEF m
  <2>2. \A s : Before(s, r) /\ Before(s, first) => Before(s, m)
    BY <1>3, <2>1 DEF Before
  <2>3. \A s : Before(r, s) /\ Before(first, s) => Before(m, s)
    BY <1>3, <2>1 DEF Before
  <2>. QED  BY <1>1, <1>3, <2>1, <2>2, <2>3 DEF m
<1>. QED  BY <1>2, <1>3

(* A request is taken from the queue: what that leaves of it.              *)
LEMMA TakenPlaces ==
  ASSUME Typing, Placement, NEW i \in DOMAIN pendingReadRequests,
         TakesRequestAt(i)
  PROVE  LET q == pendingReadRequests
         IN  /\ q[i] \in Request /\ q[i] # None /\ q[i] \in Elements(q)
             /\ Lined(q')
             /\ Elements(q') \subseteq Elements(q)
             /\ \A s \in Elements(q') : Before(q[i], s)
             /\ q[i].ids \subseteq IdsOf(q)
             /\ \E old : /\ DOMAIN ended' = DOMAIN ended \cup old
                         /\ IdsOf(q) = old \cup q[i].ids \cup IdsOf(q')
                         /\ old \cap q[i].ids = {}
                         /\ old \cap IdsOf(q') = {}
                         /\ q[i].ids \cap IdsOf(q') = {}
<1>. DEFINE q   == pendingReadRequests
            old == IdsOf(SubSeq(q, 1, i - 1))
<1>1. q \in Seq(Request) /\ Lined(q)
  BY DEF Typing, TypeOK, QueueTypes, Placement, Apartness
<1>2. q[i] \in Request /\ q[i] # None /\ q[i] \in Elements(q)
  BY <1>1, PoppedType, NoneIsNoRequest DEF Elements
<1>3. q' = SubSeq(q, i + 1, Len(q)) /\ ended' = End(old, "expired")
  BY DEF TakesRequestAt
<1>4. DOMAIN ended' = DOMAIN ended \cup old
  BY <1>3 DEF End
<1>5. /\ Lined(q')
      /\ IdsOf(q) = old \cup q[i].ids \cup IdsOf(q')
      /\ old \cap q[i].ids = {}
      /\ old \cap IdsOf(q') = {}
      /\ q[i].ids \cap IdsOf(q') = {}
      /\ Elements(q') \subseteq Elements(q)
      /\ \A r \in Elements(q') : Before(q[i], r)
  BY <1>1, <1>3, QueuePopped
<1>. HIDE DEF old, q
<1>6. \E x : /\ DOMAIN ended' = DOMAIN ended \cup x
             /\ IdsOf(q) = x \cup q[i].ids \cup IdsOf(q')
             /\ x \cap q[i].ids = {}
             /\ x \cap IdsOf(q') = {}
             /\ q[i].ids \cap IdsOf(q') = {}
  BY <1>4, <1>5
<1>7. q[i].ids \subseteq IdsOf(q)
  BY <1>5
<1>. QED  BY <1>2, <1>5, <1>6, <1>7 DEF q

(* through merging,                                                        *)
LEMMA MergePlacement ==
  ASSUME Typing, Soundness, Placement, MergeRequest
  PROVE  Placement'
<1>. DEFINE q == pendingReadRequests
            C == currentRequest
<1>1. PICK i \in DOMAIN q :
        /\ TakesRequestAt(i)
        /\ C' = [C EXCEPT ![q[i].conn] = Merged(C[q[i].conn], q[i])]
  BY DEF MergeRequest
<1>. DEFINE r     == q[i]
            a     == r.conn
            first == C[a]
            m     == Merged(first, r)
<1>2. /\ UNCHANGED <<HandlerRequest, Hand, pendingResponse, response, answers, log>>
      /\ Hand = {}
  BY DEF MergeRequest, AtServer, HandlerRequest, Hand, responseVars,
         Soundness, HandSound
<1>3. PICK old :
        /\ DOMAIN ended' = DOMAIN ended \cup old
        /\ IdsOf(q) = old \cup r.ids \cup IdsOf(q')
        /\ old \cap r.ids = {} /\ old \cap IdsOf(q') = {}
        /\ r.ids \cap IdsOf(q') = {}
  BY <1>1, TakenPlaces
<1>4. /\ r \in Request /\ r \in Elements(q) /\ r.ids \subseteq IdsOf(q)
      /\ Lined(q') /\ Elements(q') \subseteq Elements(q)
      /\ \A s \in Elements(q') : Before(r, s)
  BY <1>1, TakenPlaces
<1>5. C \in [Addr -> Request \cup {None}] /\ a \in Addr
  BY <1>4 DEF Typing, TypeOK, ServerTypes, Request
<1>6. first \in Request \cup {None} /\ (first # None => first.conn = a)
  BY <1>5 DEF Soundness, BatchSound, Batched
<1>7. /\ m \in Request
      /\ m.ids = (IF first = None THEN {} ELSE first.ids) \cup r.ids
      /\ \A s : Before(s, r) /\ (first # None => Before(s, first)) => Before(s, m)
      /\ \A s : Before(r, s) /\ (first # None => Before(first, s)) => Before(m, s)
  BY <1>4, <1>6, MergedBefore
<1>8. IdsIn(C) \cap IdsOf(q) = {}
  BY HeldIs DEF Placement, Placed, Partition, Places
<1>9. first # None => first \in Members(C)
  BY <1>5 DEF Members
<1>10. first # None => first.ids \subseteq IdsIn(C)
  BY <1>9 DEF IdsIn
<1>11. IdsIn(C') = IdsIn(C) \cup r.ids /\ Separate(C')
  <2>1. /\ \A id \in m.ids \cap IdsIn(C) : C[a] # None /\ id \in C[a].ids
        /\ C[a] # None => C[a].ids \subseteq m.ids
    BY <1>4, <1>7, <1>8
  <2>2. Separate(C)
    BY DEF Placement, Apartness
  <2>3. C' = [C EXCEPT ![a] = m]
    BY <1>1
  <2>4. IdsIn(C') = IdsIn(C) \cup m.ids /\ Separate(C')
    <3>1. C \in [Addr -> Request \cup {None}] /\ a \in Addr /\ m \in Request
      BY <1>5, <1>7
    <3>. HIDE DEF m, C, a
    <3>. QED  BY <2>1, <2>2, <2>3, <3>1, FamilyGrows, Zenon
  <2>. QED  BY <1>7, <1>10, <2>4
<1>12. Placed'
  <2>. DEFINE f == Held
              g == Held'
  <2>1. /\ g["pending"] = IdsOf(q') /\ f["pending"] = IdsOf(q)
        /\ g["batch"] = f["batch"] \cup r.ids
        /\ g["ended"] = f["ended"] \cup old
        /\ \A k \in Places \ {"pending", "batch", "ended"} : g[k] = f[k]
    <3>. HIDE DEF r, q, C
    <3>. QED  BY <1>2, <1>3, <1>11, HeldIs DEF Places, q, C
  <2>2. Partition(f, DOMAIN log)
    BY DEF Placement, Placed
  <2>3. /\ f["pending"] \cap f["batch"] = {}
        /\ f["pending"] \cap f["ended"] = {}
        /\ f["batch"] \cap f["ended"] = {}
    BY <2>2 DEF Partition, Places
  <2>. HIDE DEF f, g
  <2>4. /\ g["pending"] \cup g["batch"] \cup g["ended"] =
             f["pending"] \cup f["batch"] \cup f["ended"]
        /\ g["pending"] \cap g["batch"] = {}
        /\ g["pending"] \cap g["ended"] = {}
        /\ g["batch"] \cap g["ended"] = {}
    BY <1>3, <2>1, <2>3
  <2>5. "pending" \in Places /\ "batch" \in Places /\ "ended" \in Places
    BY DEF Places
  <2>6. Partition(g, DOMAIN log)
    BY <2>1, <2>2, <2>4, <2>5, Reshared
  <2>. QED  BY <1>2, <2>6 DEF Placed, g
<1>13. Apartness'
  BY <1>2, <1>4, <1>11 DEF Placement, Apartness
<1>14. Stages'
  <2>1. Members(C') \subseteq Members(C) \cup {m}
    BY <1>1, <1>5 DEF Members
  <2>2. \A S : Ordered(S, Elements(q)) => Ordered(S, Elements(q'))
    BY <1>4 DEF Ordered
  <2>3. \A S : Ordered(Elements(q), S) => Ordered(Elements(q'), S)
    BY <1>4 DEF Ordered
  <2>4. \A S : Ordered(S, Members(C)) /\ Ordered(S, Elements(q))
                 => Ordered(S, Members(C'))
    <3>1. SUFFICES ASSUME NEW S, Ordered(S, Members(C)), Ordered(S, Elements(q)),
                          NEW s \in S
                   PROVE  Before(s, m)
      BY <2>1 DEF Ordered
    <3>. QED  BY <1>4, <1>7, <1>9, <3>1 DEF Ordered
  <2>5. Ordered(Members(C'), Members(HandlerRequest))
    <3>1. SUFFICES ASSUME NEW s \in Members(HandlerRequest)
                   PROVE  Before(m, s)
      BY <2>1 DEF Ordered, Placement, Stages
    <3>. QED  BY <1>4, <1>7, <1>9 DEF Ordered, Placement, Stages
  <2>6. Ordered(Members(C'), Elements(q'))
    <3>1. SUFFICES ASSUME NEW s \in Elements(q')
                   PROVE  Before(m, s)
      BY <1>4, <2>1 DEF Ordered, Placement, Stages
    <3>. QED  BY <1>4, <1>7, <1>9 DEF Ordered, Placement, Stages
  <2>7. \A S : Ordered(S, {}) /\ Ordered({}, S)
    BY DEF Ordered
  <2>. QED
    BY <1>2, <2>2, <2>3, <2>4, <2>5, <2>6, <2>7 DEF Placement, Stages
<1>. QED  BY <1>12, <1>13, <1>14 DEF Placement

(* through a request that is dropped,                                      *)
LEMMA RejectPlacement ==
  ASSUME Typing, Soundness, Placement, RejectRequest
  PROVE  Placement'
<1>. DEFINE q == pendingReadRequests
<1>1. PICK i \in DOMAIN q :
        TakesRequestAt(i) /\ server' = [pc |-> "put back", hand |-> q[i]]
  BY DEF RejectRequest
<1>. DEFINE r == q[i]
<1>2. PICK old :
        /\ DOMAIN ended' = DOMAIN ended \cup old
        /\ IdsOf(q) = old \cup r.ids \cup IdsOf(q')
        /\ old \cap r.ids = {} /\ old \cap IdsOf(q') = {}
        /\ r.ids \cap IdsOf(q') = {}
  BY <1>1, TakenPlaces
<1>3. /\ r # None /\ r \in Elements(q)
      /\ Lined(q') /\ Elements(q') \subseteq Elements(q)
      /\ \A s \in Elements(q') : Before(r, s)
  BY <1>1, TakenPlaces
<1>4. /\ UNCHANGED <<HandlerRequest, currentRequest, pendingResponse, response,
                     answers, log>>
      /\ Hand = {} /\ Hand' = {r}
  <2>1. Hand = {}
    BY DEF RejectRequest, AtServer, Hand, Soundness, HandSound
  <2>2. Hand' = {r}
    BY <1>1, <1>3 DEF Hand
  <2>. QED  BY <2>1, <2>2 DEF RejectRequest, HandlerRequest, responseVars
<1>. HIDE DEF r, q
<1>5. Placed'
  <2>. DEFINE f == Held
              g == Held'
  <2>1. /\ g["pending"] = IdsOf(q') /\ f["pending"] = IdsOf(q)
        /\ g["hand"] = r.ids /\ f["hand"] = {}
        /\ g["ended"] = f["ended"] \cup old
        /\ \A k \in Places \ {"pending", "hand", "ended"} : g[k] = f[k]
    BY <1>2, <1>4, HeldIs DEF Places, q
  <2>2. Partition(f, DOMAIN log)
    BY DEF Placement, Placed
  <2>3. f["pending"] \cap f["ended"] = {}
    BY <2>2 DEF Partition, Places
  <2>. HIDE DEF f, g
  <2>4. /\ g["pending"] \cup g["hand"] \cup g["ended"] =
             f["pending"] \cup f["hand"] \cup f["ended"]
        /\ g["pending"] \cap g["hand"] = {}
        /\ g["pending"] \cap g["ended"] = {}
        /\ g["hand"] \cap g["ended"] = {}
    BY <1>2, <2>1, <2>3
  <2>5. "pending" \in Places /\ "hand" \in Places /\ "ended" \in Places
    BY DEF Places
  <2>6. Partition(g, DOMAIN log)
    BY <2>1, <2>2, <2>4, <2>5, Reshared
  <2>. QED  BY <1>4, <2>6 DEF Placed, g
<1>6. Apartness' /\ Stages'
  BY <1>3, <1>4 DEF Placement, Apartness, Stages, Ordered, q
<1>. QED  BY <1>5, <1>6 DEF Placement

(* through the end of the loop that collects a batch,                      *)
LEMMA EndCollectPlacement ==
  ASSUME Typing, Soundness, Placement, EndCollect
  PROVE  Placement'
<1>. DEFINE q == pendingReadRequests
<1>1. /\ UNCHANGED <<HandlerRequest, currentRequest, pendingResponse, response,
                     answers, log>>
      /\ q' = <<>> /\ DOMAIN ended' = DOMAIN ended \cup IdsOf(q)
      /\ Hand = {} /\ Hand' = {}
  <2>1. Hand = {}
    BY DEF EndCollect, AtServer, Hand, Soundness, HandSound
  <2>. QED
    BY <2>1 DEF EndCollect, End, Proceed, Hand, HandlerRequest, responseVars
<1>2. IdsOf(q') = {} /\ Lined(q') /\ Elements(q') = {}
  BY <1>1 DEF IdsOf, Lined, Elements
<1>. HIDE DEF q
<1>3. Placed'
  <2>. DEFINE f == Held
              g == Held'
  <2>1. /\ g["pending"] = {}
        /\ g["ended"] = f["ended"] \cup f["pending"]
        /\ g["hand"] = f["hand"]
        /\ \A k \in Places \ {"pending", "hand", "ended"} : g[k] = f[k]
    BY <1>1, <1>2, HeldIs DEF Places, q
  <2>2. Partition(f, DOMAIN log)
    BY DEF Placement, Placed
  <2>3. f["pending"] \cap f["hand"] = {} /\ f["hand"] \cap f["ended"] = {}
    BY <2>2 DEF Partition, Places
  <2>. HIDE DEF f, g
  <2>4. /\ g["pending"] \cup g["hand"] \cup g["ended"] =
             f["pending"] \cup f["hand"] \cup f["ended"]
        /\ g["pending"] \cap g["hand"] = {}
        /\ g["pending"] \cap g["ended"] = {}
        /\ g["hand"] \cap g["ended"] = {}
    BY <2>1, <2>3
  <2>5. "pending" \in Places /\ "hand" \in Places /\ "ended" \in Places
    BY DEF Places
  <2>6. Partition(g, DOMAIN log)
    BY <2>1, <2>2, <2>4, <2>5, Reshared
  <2>. QED  BY <1>1, <2>6 DEF Placed, g
<1>4. Apartness' /\ Stages'
  BY <1>1, <1>2 DEF Placement, Apartness, Stages, Ordered, q
<1>. QED  BY <1>3, <1>4 DEF Placement

(* The request in the server's hand, in front of those pending.            *)
LEMMA FrontLined ==
  ASSUME Typing, Placement, server.hand # None
  PROVE  LET r == server.hand
             q == pendingReadRequests
         IN  /\ r \in Request /\ Hand = {r}
             /\ WithFront(r) \in Seq(Request) /\ Lined(WithFront(r))
             /\ WithFront(r) # <<>>
             /\ IdsOf(WithFront(r)) = r.ids \cup IdsOf(q)
             /\ Elements(WithFront(r)) = {r} \cup Elements(q)
<1>. DEFINE q     == pendingReadRequests
            r     == server.hand
            whole == WithFront(r)
<1>1. q \in Seq(Request) /\ Lined(q)
  BY DEF Typing, TypeOK, QueueTypes, Placement, Apartness
<1>2. r \in Request /\ Hand = {r}
  BY DEF Typing, TypeOK, ServerTypes, Hand
<1>3. r.ids \cap IdsOf(q) = {}
  BY <1>2, HeldIs DEF Placement, Placed, Partition, Places
<1>4. /\ whole \in Seq(Request) /\ Lined(whole) /\ whole # <<>>
      /\ IdsOf(whole) = r.ids \cup IdsOf(q)
      /\ Elements(whole) = {r} \cup Elements(q)
  <2>1. /\ <<r>> \in Seq(Request) /\ Lined(<<r>>)
        /\ IdsOf(<<r>>) = r.ids /\ Elements(<<r>>) = {r}
    BY <1>2, OneLined
  <2>2. \A x \in Elements(<<r>>), s \in Elements(q) : Apart(x, s) /\ Before(x, s)
    <3>1. \A s \in Elements(q) : Before(r, s)
      BY <1>2 DEF Placement, Stages, Ordered
    <3>2. \A s \in Elements(q) : s.ids \subseteq IdsOf(q)
      BY IdsOfElements
    <3>. QED  BY <1>3, <2>1, <3>1, <3>2 DEF Apart
  <2>3. whole = <<r>> \o q
    BY DEF WithFront
  <2>4. /\ Lined(<<r>> \o q) /\ IdsOf(<<r>> \o q) = r.ids \cup IdsOf(q)
        /\ Elements(<<r>> \o q) = {r} \cup Elements(q)
    BY <1>1, <2>1, <2>2, QueueJoined
  <2>5. whole \in Seq(Request)
    BY <1>1, <2>1, <2>3, ConcatProperties
  <2>6. whole # <<>>
    <3>1. r \in Elements(whole)
      BY <2>3, <2>4
    <3>. QED  BY <3>1 DEF Elements
  <2>. QED  BY <2>3, <2>4, <2>5, <2>6
<1>. QED  BY <1>2, <1>4

(* through putting back what did not fit,                                  *)
LEMMA PutBackPlacement ==
  ASSUME Typing, Soundness, Placement, PutBack
  PROVE  Placement'
<1>. DEFINE q     == pendingReadRequests
            r     == server.hand
            whole == WithFront(r)
<1>1. r \in Request /\ Hand = {r}
  BY NoneIsNoRequest DEF PutBack, AtServer, Typing, ServerHolds, Hand
<1>2. /\ UNCHANGED <<HandlerRequest, currentRequest, pendingResponse, response,
                     answers, log>>
      /\ Hand' = {}
      /\ q' = whole \/ q' = SubSeq(whole, 1, Len(whole) - 1)
      /\ DOMAIN ended' = DOMAIN ended \cup (IdsOf(whole) \ IdsOf(q'))
  BY DEF PutBack, PushFrontOutcomes, Proceed, End, Hand, HandlerRequest,
         responseVars
<1>3. /\ whole \in Seq(Request) /\ Lined(whole) /\ whole # <<>>
      /\ IdsOf(whole) = r.ids \cup IdsOf(q)
      /\ Elements(whole) = {r} \cup Elements(q)
  BY <1>1, NoneIsNoRequest, FrontLined
<1>4. /\ Lined(q') /\ Elements(q') \subseteq {r} \cup Elements(q)
      /\ IdsOf(q') \subseteq IdsOf(whole)
  <2>1. LET cut == SubSeq(whole, 1, Len(whole) - 1)
        IN  /\ Lined(cut) /\ Elements(cut) \subseteq Elements(whole)
            /\ IdsOf(cut) \subseteq IdsOf(whole)
    <3>. HIDE DEF whole
    <3>. QED  BY <1>3, QueueCut
  <2>. QED  BY <1>2, <1>3, <2>1
<1>. HIDE DEF whole, r, q
<1>5. Placed'
  <2>. DEFINE f == Held
              g == Held'
  <2>1. /\ g["pending"] = IdsOf(q') /\ f["pending"] = IdsOf(q)
        /\ g["hand"] = {} /\ f["hand"] = r.ids
        /\ g["ended"] = f["ended"] \cup (IdsOf(whole) \ IdsOf(q'))
        /\ \A k \in Places \ {"pending", "hand", "ended"} : g[k] = f[k]
    BY <1>1, <1>2, HeldIs DEF Places, q
  <2>2. Partition(f, DOMAIN log)
    BY DEF Placement, Placed
  <2>3. f["pending"] \cap f["ended"] = {} /\ f["hand"] \cap f["ended"] = {}
    BY <2>2 DEF Partition, Places
  <2>. HIDE DEF f, g
  <2>4. /\ g["pending"] \cup g["hand"] \cup g["ended"] =
             f["pending"] \cup f["hand"] \cup f["ended"]
        /\ g["pending"] \cap g["hand"] = {}
        /\ g["pending"] \cap g["ended"] = {}
        /\ g["hand"] \cap g["ended"] = {}
    BY <1>3, <1>4, <2>1, <2>3
  <2>5. "pending" \in Places /\ "hand" \in Places /\ "ended" \in Places
    BY DEF Places
  <2>6. Partition(g, DOMAIN log)
    BY <2>1, <2>2, <2>4, <2>5, Reshared
  <2>. QED  BY <1>2, <2>6 DEF Placed, g
<1>6. Apartness' /\ Stages'
  <2>1. r \in Hand
    BY <1>1
  <2>. QED
    BY <1>2, <1>4, <2>1 DEF Placement, Apartness, Stages, Ordered, q
<1>. QED  BY <1>5, <1>6 DEF Placement

(* through reading,                                                        *)
LEMMA ConsolidatePlacement ==
  ASSUME Typing, Soundness, Placement, Consolidate \/ ReadVariables
  PROVE  Placement'
<1>1. /\ UNCHANGED <<HandlerRequest, pendingReadRequests, pendingResponse,
                     response, answers, log>>
      /\ Hand = {} /\ Hand' = {}
  <2>1. Hand = {}
    BY DEF Consolidate, ReadVariables, AtServer, Hand, Soundness, HandSound
  <2>2. \E pc : server' = [pc |-> pc, hand |-> None]
    BY DEF Consolidate, ReadVariables, Proceed
  <2>3. Hand' = {}
    BY <2>2 DEF Hand
  <2>. QED
    BY <2>1, <2>3
       DEF Consolidate, ReadVariables, HandlerRequest, readVars, responseVars
<1>2. CASE UNCHANGED <<currentRequest, ended>>
  BY <1>1, <1>2, PlacementFrame
<1>3. CASE /\ currentRequest' = [a \in Addr |-> None]
           /\ ended' = End(BatchedIds, "no keys")
  <2>1. BatchedIds = IdsIn(currentRequest)
    BY DEF BatchedIds, Batched, IdsIn, Members, Typing, TypeOK, ServerTypes
  <2>2. DOMAIN ended' = DOMAIN ended \cup IdsIn(currentRequest)
    BY <1>3, <2>1 DEF End
  <2>3. /\ IdsIn(currentRequest') = {} /\ Separate(currentRequest')
        /\ Members(currentRequest') = {}
    BY <1>3, FamilyEmpty DEF Members
  <2>4. Placed'
    <3>. DEFINE f == Held
                g == Held'
    <3>1. /\ g["batch"] = {}
          /\ g["ended"] = f["ended"] \cup f["batch"]
          /\ g["hand"] = f["hand"]
          /\ \A k \in Places \ {"batch", "hand", "ended"} : g[k] = f[k]
      BY <1>1, <2>2, <2>3, HeldIs DEF Places
    <3>2. Partition(f, DOMAIN log)
      BY DEF Placement, Placed
    <3>3. f["batch"] \cap f["hand"] = {} /\ f["hand"] \cap f["ended"] = {}
      BY <3>2 DEF Partition, Places
    <3>. HIDE DEF f, g
    <3>4. /\ g["batch"] \cup g["hand"] \cup g["ended"] =
               f["batch"] \cup f["hand"] \cup f["ended"]
          /\ g["batch"] \cap g["hand"] = {}
          /\ g["batch"] \cap g["ended"] = {}
          /\ g["hand"] \cap g["ended"] = {}
      BY <3>1, <3>3
    <3>5. "batch" \in Places /\ "hand" \in Places /\ "ended" \in Places
      BY DEF Places
    <3>6. Partition(g, DOMAIN log)
      BY <3>1, <3>2, <3>4, <3>5, Reshared
    <3>. QED  BY <1>1, <3>6 DEF Placed, g
  <2>5. Apartness' /\ Stages'
    BY <1>1, <2>3 DEF Placement, Apartness, Stages, Ordered
  <2>. QED  BY <2>4, <2>5 DEF Placement
<1>. QED  BY <1>2, <1>3 DEF Consolidate, ReadVariables

(* The responses of a batch, one per connection, are a queue of what the   *)
(* batch held.                                                             *)
LEMMA BatchLined ==
  ASSUME Typing, Soundness, Placement,
         NEW order \in [1 .. Cardinality(Batched) -> Batched],
         \A i, j \in DOMAIN order : order[i] = order[j] => i = j,
         NEW new, new = [i \in DOMAIN order |-> currentRequest[order[i]]]
  PROVE  /\ new \in Seq(Request) /\ Lined(new)
         /\ IdsOf(new) = IdsIn(currentRequest)
         /\ Elements(new) = Members(currentRequest)
<1>. DEFINE n == Cardinality(Batched)
<1>1. IsFiniteSet(Batched) /\ n \in Nat
  <2>1. Batched \subseteq Addr
    BY DEF Batched
  <2>. QED  BY <2>1, AddrFinite, FS_Subset, FS_CardinalityType
<1>2. /\ currentRequest \in [Addr -> Request \cup {None}]
      /\ Separate(currentRequest)
      /\ \A a \in Batched : /\ a \in Addr /\ currentRequest[a] \in Request
                            /\ currentRequest[a] # None
                            /\ currentRequest[a].conn = a
  BY DEF Typing, TypeOK, ServerTypes, Batched, Placement, Apartness,
         Soundness, BatchSound
<1>3. \A a \in Batched : \E i \in 1 .. n : order[i] = a
  <2>1. \A i, j \in 1 .. n : order[i] = order[j] => i = j
    OBVIOUS
  <2>. QED  BY <1>1, <2>1, Enumeration
<1>4. DOMAIN new = 1 .. n /\ \A i \in 1 .. n : /\ order[i] \in Batched
                                               /\ new[i] = currentRequest[order[i]]
  OBVIOUS
<1>5. new \in Seq(Request)
  <2>1. \A i \in 1 .. n : new[i] \in Request
    BY <1>2, <1>4
  <2>. QED  BY <1>1, <2>1, IsASeq
<1>6. Lined(new)
  <2>1. ASSUME NEW i \in 1 .. n, NEW j \in 1 .. n, i < j
        PROVE  Apart(new[i], new[j]) /\ Before(new[i], new[j])
    <3>1. order[i] # order[j]
      BY <1>1, <2>1
    <3>2. Apart(new[i], new[j])
      BY <1>2, <1>4, <3>1 DEF Separate
    <3>3. new[i].conn # new[j].conn
      BY <1>2, <1>4, <3>1
    <3>. QED  BY <3>2, <3>3 DEF Before
  <2>. QED  BY <1>4, <2>1 DEF Lined
<1>7. Elements(new) = Members(currentRequest)
  <2>1. \A i \in DOMAIN new : new[i] \in Members(currentRequest)
    BY <1>2, <1>4 DEF Members
  <2>2. ASSUME NEW a \in Addr, currentRequest[a] # None
        PROVE  currentRequest[a] \in Elements(new)
    <3>1. a \in Batched
      BY <2>2 DEF Batched
    <3>2. PICK i \in 1 .. n : order[i] = a
      BY <1>3, <3>1
    <3>. QED  BY <1>4, <3>2 DEF Elements
  <2>3. Elements(new) \subseteq Members(currentRequest)
    BY <2>1 DEF Elements
  <2>4. Members(currentRequest) \subseteq Elements(new)
    BY <1>2, <2>2 DEF Members
  <2>. QED  BY <2>3, <2>4
<1>8. IdsOf(new) = IdsIn(currentRequest)
  BY <1>7, IdsOfElements DEF IdsIn
<1>. QED  BY <1>5, <1>6, <1>7, <1>8

(* through queueing the responses,                                         *)
LEMMA QueueResponsesPlacement ==
  ASSUME Typing, Soundness, Placement, QueueResponses
  PROVE  Placement'
<1>. DEFINE w == pendingResponse
            C == currentRequest
<1>1. /\ UNCHANGED <<HandlerRequest, pendingReadRequests, response, answers,
                     ended, log>>
      /\ C' = [a \in Addr |-> None]
      /\ Hand = {} /\ Hand' = {}
  <2>1. Hand = {}
    BY DEF QueueResponses, AtServer, Hand, Soundness, HandSound
  <2>. QED  BY <2>1 DEF QueueResponses, Proceed, Hand, HandlerRequest, readVars
<1>2. /\ w \in Seq(Request) /\ Lined(w)
      /\ Ordered(Elements(w), Members(C))
      /\ IdsOf(w) \cap IdsIn(C) = {}
  BY HeldIs
     DEF Typing, TypeOK, QueueTypes, Placement, Apartness, Stages, Placed,
         Partition, Places
<1>3. PICK order \in [1 .. Cardinality(Batched) -> Batched] :
        /\ \A i, j \in DOMAIN order : order[i] = order[j] => i = j
        /\ w' = w \o [i \in DOMAIN order |-> C[order[i]]]
  BY DEF QueueResponses
<1>. DEFINE new == [i \in DOMAIN order |-> C[order[i]]]
<1>4. /\ new \in Seq(Request) /\ Lined(new)
      /\ IdsOf(new) = IdsIn(C) /\ Elements(new) = Members(C)
  BY <1>3, BatchLined
<1>5. /\ Lined(w') /\ IdsOf(w') = IdsOf(w) \cup IdsIn(C)
      /\ Elements(w') = Elements(w) \cup Members(C)
  <2>1. \A r \in Elements(w), s \in Elements(new) : Apart(r, s) /\ Before(r, s)
    <3>1. \A r \in Elements(w) : r.ids \subseteq IdsOf(w)
      BY IdsOfElements
    <3>2. \A s \in Members(C) : s.ids \subseteq IdsIn(C)
      BY DEF IdsIn
    <3>. QED  BY <1>2, <1>4, <3>1, <3>2 DEF Ordered, Apart
  <2>2. w' = w \o new
    BY <1>3
  <2>. HIDE DEF w, new, C
  <2>. QED  BY <1>2, <1>4, <2>1, <2>2, QueueJoined
<1>6. IdsIn(C') = {} /\ Separate(C') /\ Members(C') = {}
  BY <1>1, FamilyEmpty DEF Members
<1>. HIDE DEF w, C
<1>7. Placed'
  <2>. DEFINE f == Held
              g == Held'
  <2>1. /\ g["batch"] = {}
        /\ g["queued"] = f["queued"] \cup f["batch"]
        /\ g["ended"] = f["ended"]
        /\ \A k \in Places \ {"batch", "queued", "ended"} : g[k] = f[k]
    BY <1>1, <1>5, <1>6, HeldIs DEF Places, w, C
  <2>2. Partition(f, DOMAIN log)
    BY DEF Placement, Placed
  <2>3. f["queued"] \cap f["ended"] = {} /\ f["batch"] \cap f["ended"] = {}
    BY <2>2 DEF Partition, Places
  <2>. HIDE DEF f, g
  <2>4. /\ g["batch"] \cup g["queued"] \cup g["ended"] =
             f["batch"] \cup f["queued"] \cup f["ended"]
        /\ g["batch"] \cap g["queued"] = {}
        /\ g["batch"] \cap g["ended"] = {}
        /\ g["queued"] \cap g["ended"] = {}
    BY <2>1, <2>3
  <2>5. "batch" \in Places /\ "queued" \in Places /\ "ended" \in Places
    BY DEF Places
  <2>6. Partition(g, DOMAIN log)
    BY <2>1, <2>2, <2>4, <2>5, Reshared
  <2>. QED  BY <1>1, <2>6 DEF Placed, g
<1>8. Apartness' /\ Stages'
  BY <1>1, <1>5, <1>6 DEF Placement, Apartness, Stages, Ordered, w, C
<1>. QED  BY <1>7, <1>8 DEF Placement

-----------------------------------------------------------------------------
(* One more response, to the request r.                                    *)
LEMMA AnswersGrow ==
  ASSUME Typing, NEW r \in Request,
         answers' = Append(answers, [conn |-> r.conn,
                                     session |-> session[r.conn],
                                     keys |-> r.keys, ids |-> r.ids])
  PROVE  LET n == Len(answers)
         IN  /\ n \in Nat /\ DOMAIN answers = 1 .. n
             /\ DOMAIN answers' = 1 .. n + 1
             /\ answers'[n + 1].ids = r.ids
             /\ \A i \in 1 .. n : answers'[i] = answers[i]
             /\ IdsOf(answers') = IdsOf(answers) \cup r.ids
<1>. DEFINE n      == Len(answers)
            x      == [conn |-> r.conn, session |-> session[r.conn],
                       keys |-> r.keys, ids |-> r.ids]
            Answer == [conn : Addr, session : Nat, keys : Seq(Keys),
                       ids : SUBSET Nat]
<1>1. answers \in Seq(Answer) /\ x \in Answer /\ x.ids = r.ids
  BY DEF Request, Typing, TypeOK, ObjectTypes, HistoryTypes
<1>2. /\ n \in Nat /\ DOMAIN answers = 1 .. n
      /\ DOMAIN answers' = 1 .. n + 1
      /\ answers'[n + 1] = x
      /\ \A i \in 1 .. n : answers'[i] = answers[i]
  BY <1>1, AppendProperties, LenProperties
<1>. HIDE DEF n, x
<1>3. IdsOf(answers') = IdsOf(answers) \cup r.ids
  <2>1. \A i \in 1 .. n + 1 : i \in 1 .. n \/ i = n + 1
    BY <1>2
  <2>2. n + 1 \in 1 .. n + 1 /\ 1 .. n \subseteq 1 .. n + 1
    BY <1>2
  <2>3. /\ IdsOf(answers) = UNION {answers[i].ids : i \in 1 .. n}
        /\ IdsOf(answers') = UNION {answers'[i].ids : i \in 1 .. n + 1}
    BY <1>2 DEF IdsOf
  <2>4. answers'[n + 1].ids = r.ids
    BY <1>1, <1>2
  <2>. QED  BY <1>2, <2>1, <2>2, <2>3, <2>4
<1>. QED  BY <1>1, <1>2, <1>3 DEF n

(* through the steps of a response thread,                                 *)
LEMMA ResponsePlacement ==
  ASSUME Typing, Soundness, Placement, NEW p \in Responders, ResponseThread(p)
  PROVE  Placement'
<1>. DEFINE w == pendingResponse
            R == response
<1>1. /\ w \in Seq(Request) /\ Lined(w)
      /\ R \in [Responders -> Request \cup {None}] /\ Separate(R)
      /\ IdsOf(w) \cap IdsIn(R) = {}
  BY HeldIs
     DEF Typing, TypeOK, QueueTypes, Placement, Apartness, Placed, Partition,
         Places
<1>2. /\ UNCHANGED <<HandlerRequest, pendingReadRequests, Hand, currentRequest,
                     log>>
  BY DEF ResponseThread, TakeResponse, SendResponse, HandlerRequest, Hand,
         readVars, serverVars
<1>3. ASSUME TakeResponse(p)
      PROVE  Placement'
  <2>. DEFINE r == Head(w)
  <2>1. /\ R[p] = None /\ w # <<>> /\ R' = [R EXCEPT ![p] = r] /\ w' = Tail(w)
        /\ UNCHANGED <<answers, ended>>
    BY <1>3 DEF TakeResponse
  <2>2. /\ Lined(w') /\ Elements(w') \subseteq Elements(w) /\ r \in Elements(w)
        /\ IdsOf(w') = IdsOf(w) \ r.ids /\ r.ids \subseteq IdsOf(w)
    BY <1>1, <2>1, QueueCut
  <2>3. r \in Request
    BY <1>1, <2>1, HeadTailProperties
  <2>4. IdsIn(R') = IdsIn(R) \cup r.ids /\ Separate(R')
    <3>1. /\ \A id \in r.ids \cap IdsIn(R) : R[p] # None /\ id \in R[p].ids
          /\ R[p] # None => R[p].ids \subseteq r.ids
      BY <1>1, <2>1, <2>2
    <3>2. R \in [Responders -> Request \cup {None}] /\ Separate(R)
      BY <1>1
    <3>3. R' = [R EXCEPT ![p] = r]
      BY <2>1
    <3>. HIDE DEF r, R
    <3>. QED  BY <2>3, <3>1, <3>2, <3>3, FamilyGrows, Zenon
  <2>. HIDE DEF r, R, w
  <2>5. Placed'
    <3>. DEFINE f == Held
                g == Held'
    <3>1. /\ g["queued"] = f["queued"] \ r.ids
          /\ g["responder"] = f["responder"] \cup r.ids
          /\ r.ids \subseteq f["queued"]
          /\ g["ended"] = f["ended"]
          /\ \A k \in Places \ {"queued", "responder", "ended"} : g[k] = f[k]
      BY <1>2, <2>1, <2>2, <2>4, HeldIs DEF Places, w, R
    <3>2. Partition(f, DOMAIN log)
      BY DEF Placement, Placed
    <3>3. /\ f["queued"] \cap f["responder"] = {}
          /\ f["queued"] \cap f["ended"] = {}
          /\ f["responder"] \cap f["ended"] = {}
      BY <3>2 DEF Partition, Places
    <3>. HIDE DEF f, g
    <3>4. /\ g["queued"] \cup g["responder"] \cup g["ended"] =
               f["queued"] \cup f["responder"] \cup f["ended"]
          /\ g["queued"] \cap g["responder"] = {}
          /\ g["queued"] \cap g["ended"] = {}
          /\ g["responder"] \cap g["ended"] = {}
      BY <3>1, <3>3
    <3>5. "queued" \in Places /\ "responder" \in Places /\ "ended" \in Places
      BY DEF Places
    <3>6. Partition(g, DOMAIN log)
      BY <3>1, <3>2, <3>4, <3>5, Reshared
    <3>. QED  BY <1>2, <3>6 DEF Placed, g
  <2>6. Apartness' /\ Stages'
    BY <1>2, <2>1, <2>2, <2>4 DEF Placement, Apartness, Stages, Ordered, w, R
  <2>. QED  BY <2>5, <2>6 DEF Placement
<1>4. ASSUME SendResponse(p)
      PROVE  Placement'
  <2>. DEFINE r == R[p]
              x == [conn |-> r.conn, session |-> session[r.conn],
                    keys |-> r.keys, ids |-> r.ids]
  <2>1. /\ r # None /\ R' = [R EXCEPT ![p] = None] /\ w' = w
        /\ \/ answers' = Append(answers, x) /\ UNCHANGED ended
           \/ ended' = End(r.ids, "no user") /\ UNCHANGED answers
    BY <1>4 DEF SendResponse
  <2>2. IdsIn(R') = IdsIn(R) \ r.ids /\ Separate(R') /\ r.ids \subseteq IdsIn(R)
    <3>1. R \in [Responders -> Request \cup {None}] /\ Separate(R) /\ R[p] # None
            /\ R' = [R EXCEPT ![p] = None] /\ r = R[p]
      BY <1>1, <2>1
    <3>. HIDE DEF R, r
    <3>. QED  BY <3>1, FamilyLoses, Zenon
  <2>3. IdsIn(R) \cap IdsOf(answers) = {} /\ IdsIn(R) \cap DOMAIN ended = {}
          /\ IdsOf(answers) \cap DOMAIN ended = {}
    BY HeldIs DEF Placement, Placed, Partition, Places
  <2>4. /\ \/ IdsOf(answers') = IdsOf(answers) \cup r.ids /\ UNCHANGED ended
           \/ DOMAIN ended' = DOMAIN ended \cup r.ids /\ UNCHANGED answers
        /\ \A i, j \in DOMAIN answers' : i # j => Apart(answers'[i], answers'[j])
    <3>1. CASE answers' = Append(answers, x) /\ UNCHANGED ended
      <4>. DEFINE n == Len(answers)
      <4>1. /\ n \in Nat /\ DOMAIN answers = 1 .. n
            /\ DOMAIN answers' = 1 .. n + 1
            /\ answers'[n + 1].ids = r.ids
            /\ \A i \in 1 .. n : answers'[i] = answers[i]
            /\ IdsOf(answers') = IdsOf(answers) \cup r.ids
        BY <1>1, <2>1, <3>1, AnswersGrow
      <4>. HIDE DEF n, x, r, R
      <4>2. \A i \in 1 .. n : Apart(answers[i], answers'[n + 1])
                              /\ Apart(answers'[n + 1], answers[i])
        BY <2>2, <2>3, <4>1 DEF IdsOf, Apart
      <4>3. ASSUME NEW i \in DOMAIN answers', NEW j \in DOMAIN answers', i # j
            PROVE  Apart(answers'[i], answers'[j])
        <5>1. CASE i \in 1 .. n /\ j \in 1 .. n
          BY <4>1, <4>3, <5>1 DEF Placement, Apartness
        <5>2. CASE i \in 1 .. n /\ j = n + 1
          BY <4>1, <4>2, <5>2
        <5>3. CASE i = n + 1 /\ j \in 1 .. n
          BY <4>1, <4>2, <5>3
        <5>. QED  BY <4>1, <4>3, <5>1, <5>2, <5>3
      <4>. QED  BY <3>1, <4>1, <4>3
    <3>2. CASE ended' = End(r.ids, "no user") /\ UNCHANGED answers
      BY <3>2 DEF End, Placement, Apartness
    <3>. QED  BY <2>1, <3>1, <3>2
  <2>. HIDE DEF r, R, w, x
  <2>5. Placed'
    <3>. DEFINE f == Held
                g == Held'
    <3>1. /\ g["responder"] = f["responder"] \ r.ids
          /\ r.ids \subseteq f["responder"]
          /\ \/ g["answer"] = f["answer"] \cup r.ids /\ g["ended"] = f["ended"]
             \/ g["ended"] = f["ended"] \cup r.ids /\ g["answer"] = f["answer"]
          /\ \A k \in Places \ {"responder", "answer", "ended"} : g[k] = f[k]
      BY <1>2, <2>1, <2>2, <2>4, HeldIs DEF Places, w, R
    <3>2. Partition(f, DOMAIN log)
      BY DEF Placement, Placed
    <3>3. /\ f["responder"] \cap f["answer"] = {}
          /\ f["responder"] \cap f["ended"] = {}
          /\ f["answer"] \cap f["ended"] = {}
      BY <3>2 DEF Partition, Places
    <3>. HIDE DEF f, g
    <3>4. /\ g["responder"] \cup g["answer"] \cup g["ended"] =
               f["responder"] \cup f["answer"] \cup f["ended"]
          /\ g["responder"] \cap g["answer"] = {}
          /\ g["responder"] \cap g["ended"] = {}
          /\ g["answer"] \cap g["ended"] = {}
      BY <3>1, <3>3
    <3>5. "responder" \in Places /\ "answer" \in Places /\ "ended" \in Places
      BY DEF Places
    <3>6. Partition(g, DOMAIN log)
      BY <3>1, <3>2, <3>4, <3>5, Reshared
    <3>. QED  BY <1>2, <3>6 DEF Placed, g
  <2>6. Apartness' /\ Stages'
    BY <1>2, <2>1, <2>2, <2>4 DEF Placement, Apartness, Stages, w, R
  <2>. QED  BY <2>5, <2>6 DEF Placement
<1>. QED  BY <1>3, <1>4 DEF ResponseThread

(* and so through each step.                                               *)
LEMMA PlacementStep ==
  Typing /\ Registration /\ Soundness /\ Placement /\ [Next]_vars => Placement'
<1>. SUFFICES ASSUME Typing, Registration, Soundness, Placement, [Next]_vars
              PROVE  Placement'
  OBVIOUS
<1>1. CASE Tick \/ UNCHANGED vars
  <2>1. UNCHANGED <<HandlerRequest, pendingReadRequests, Hand, currentRequest,
                    pendingResponse, response, answers, ended, log>>
    BY <1>1 DEF Tick, vars, readVars, serverVars, responseVars, HandlerRequest, Hand
  <2>. QED  BY <2>1, PlacementFrame
<1>2. CASE ServerThread
  BY <1>2, MergePlacement, RejectPlacement, EndCollectPlacement,
     PutBackPlacement, ConsolidatePlacement, QueueResponsesPlacement
     DEF ServerThread
<1>3. CASE \E p \in Responders : ResponseThread(p)
  BY <1>3, ResponsePlacement
<1>. QED  BY <1>1, <1>2, <1>3, HandlerPlacement DEF Next

(* So it always is.                                                        *)
LEMMA PlacementHolds == Spec => [](Typing /\ Soundness /\ Placement)
BY InitTyping, TypingStep, InitRegistration, RegistrationStep, InitSoundness,
   SoundnessStep, InitPlacement, PlacementStep, PTL DEF Spec

(* The holders of a message, place by place.                               *)
HoldersAt(id) ==
  [handler   |-> {<<"handler", t>> : t \in {u \in IoThreads :
                    io[u].request # None /\ id \in io[u].request.ids}},
   pending   |-> {<<"pending", i>> : i \in {j \in DOMAIN pendingReadRequests :
                    id \in pendingReadRequests[j].ids}},
   hand      |-> {<<"hand", x>> : x \in {y \in {server.hand} :
                    y # None /\ id \in y.ids}},
   batch     |-> {<<"batch", a>> : a \in {b \in Batched :
                    id \in currentRequest[b].ids}},
   queued    |-> {<<"queued", i>> : i \in {j \in DOMAIN pendingResponse :
                    id \in pendingResponse[j].ids}},
   responder |-> {<<"responder", p>> : p \in {q \in Responders :
                    response[q] # None /\ id \in response[q].ids}},
   answer    |-> {<<"answer", i>> : i \in {j \in DOMAIN answers :
                    id \in answers[j].ids}},
   ended     |-> {<<"ended", i>> : i \in DOMAIN ended \cap {id}}]

(* Who holds a message holds it in one of the places.                      *)
LEMMA HoldersSplit ==
  \A id : /\ \A k \in Places : HoldersAt(id)[k] \subseteq Holders(id)
          /\ \A h \in Holders(id) : \E k \in Places : h \in HoldersAt(id)[k]
<1>. SUFFICES ASSUME NEW id
              PROVE  /\ \A k \in Places : HoldersAt(id)[k] \subseteq Holders(id)
                     /\ \A h \in Holders(id) :
                          \E k \in Places : h \in HoldersAt(id)[k]
  OBVIOUS
<1>. DEFINE P == HoldersAt(id)
<1>1. Holders(id) = P["handler"] \cup P["pending"] \cup P["hand"]
                      \cup P["batch"] \cup P["queued"] \cup P["responder"]
                      \cup P["answer"] \cup P["ended"]
  BY DEF Holders, HoldersAt
<1>. HIDE DEF P
<1>2. (\A k \in Places : P[k] \subseteq Holders(id))
        /\ \A h \in Holders(id) : \E k \in Places : h \in P[k]
  BY <1>1 DEF Places
<1>. QED  BY <1>2 DEF P

(* A place that holds a message has one holder for it, any other none.     *)
LEMMA OneHolder ==
  ASSUME Typing, Placement, NEW id
  PROVE  \A k \in Places :
           /\ HoldersAt(id)[k] # {} <=> id \in Held[k]
           /\ \A g, h \in HoldersAt(id)[k] : g = h
<1>. DEFINE P == HoldersAt(id)
            Once(k) == /\ P[k] # {} <=> id \in Held[k]
                       /\ \A g, h \in P[k] : g = h
<1>1. Once("handler")
  <2>1. P["handler"] = {<<"handler", t>> : t \in {u \in IoThreads :
                    io[u].request # None /\ id \in io[u].request.ids}}
    BY DEF HoldersAt
  <2>2. \A t \in IoThreads : HandlerRequest[t] = io[t].request
    BY DEF HandlerRequest
  <2>3. \A t, u \in IoThreads : t # u /\ HandlerRequest[t] # None
            /\ HandlerRequest[u] # None => Apart(HandlerRequest[t], HandlerRequest[u])
    BY DEF Placement, Apartness, Separate, HandlerRequest
  <2>4. id \in Held["handler"] <=>
          \E t \in IoThreads : io[t].request # None /\ id \in io[t].request.ids
    BY <2>2, HeldIs DEF IdsIn, Members, HandlerRequest
  <2>. QED  BY <2>1, <2>2, <2>3, <2>4 DEF Apart
<1>2. Once("pending")
  <2>1. P["pending"] = {<<"pending", i>> : i \in {j \in DOMAIN pendingReadRequests :
                          id \in pendingReadRequests[j].ids}}
    BY DEF HoldersAt
  <2>2. \A i, j \in DOMAIN pendingReadRequests :
          i # j => Apart(pendingReadRequests[i], pendingReadRequests[j])
    BY LinedApart DEF Typing, TypeOK, QueueTypes, Placement, Apartness
  <2>3. id \in Held["pending"] <=> \E i \in DOMAIN pendingReadRequests : id \in pendingReadRequests[i].ids
    BY HeldIs DEF IdsOf
  <2>. QED  BY <2>1, <2>2, <2>3 DEF Apart
<1>3. Once("hand")
  <2>1. P["hand"] = {<<"hand", x>> : x \in {y \in {server.hand} :
                       y # None /\ id \in y.ids}}
    BY DEF HoldersAt
  <2>2. id \in Held["hand"] <=> server.hand # None /\ id \in server.hand.ids
    BY HeldIs DEF Hand
  <2>. QED  BY <2>1, <2>2
<1>4. Once("batch")
  <2>1. P["batch"] = {<<"batch", a>> : a \in {b \in Batched :
                        id \in currentRequest[b].ids}}
    BY DEF HoldersAt
  <2>2. DOMAIN currentRequest = Addr
    BY DEF Typing, TypeOK, ServerTypes
  <2>3. \A a, b \in Batched : a # b => Apart(currentRequest[a], currentRequest[b])
    BY <2>2 DEF Placement, Apartness, Separate, Batched
  <2>4. id \in Held["batch"] <=> \E a \in Batched : id \in currentRequest[a].ids
    BY <2>2, HeldIs DEF IdsIn, Members, Batched
  <2>. QED  BY <2>1, <2>3, <2>4 DEF Apart
<1>5. Once("queued")
  <2>1. P["queued"] = {<<"queued", i>> : i \in {j \in DOMAIN pendingResponse :
                         id \in pendingResponse[j].ids}}
    BY DEF HoldersAt
  <2>2. \A i, j \in DOMAIN pendingResponse :
          i # j => Apart(pendingResponse[i], pendingResponse[j])
    BY LinedApart DEF Typing, TypeOK, QueueTypes, Placement, Apartness
  <2>3. id \in Held["queued"] <=> \E i \in DOMAIN pendingResponse : id \in pendingResponse[i].ids
    BY HeldIs DEF IdsOf
  <2>. QED  BY <2>1, <2>2, <2>3 DEF Apart
<1>6. Once("responder")
  <2>1. P["responder"] = {<<"responder", p>> : p \in {q \in Responders :
                            response[q] # None /\ id \in response[q].ids}}
    BY DEF HoldersAt
  <2>2. DOMAIN response = Responders
    BY DEF Typing, TypeOK, QueueTypes
  <2>3. \A p, q \in Responders : p # q /\ response[p] # None
            /\ response[q] # None => Apart(response[p], response[q])
    BY <2>2 DEF Placement, Apartness, Separate
  <2>4. id \in Held["responder"] <=>
          \E p \in Responders : response[p] # None /\ id \in response[p].ids
    BY <2>2, HeldIs DEF IdsIn, Members
  <2>. QED  BY <2>1, <2>3, <2>4 DEF Apart
<1>7. Once("answer")
  <2>1. P["answer"] = {<<"answer", i>> : i \in {j \in DOMAIN answers :
                         id \in answers[j].ids}}
    BY DEF HoldersAt
  <2>2. \A i, j \in DOMAIN answers : i # j => Apart(answers[i], answers[j])
    BY DEF Placement, Apartness
  <2>3. id \in Held["answer"] <=> \E i \in DOMAIN answers : id \in answers[i].ids
    BY HeldIs DEF IdsOf
  <2>. QED  BY <2>1, <2>2, <2>3 DEF Apart
<1>8. Once("ended")
  <2>1. P["ended"] = {<<"ended", i>> : i \in DOMAIN ended \cap {id}}
    BY DEF HoldersAt
  <2>2. id \in Held["ended"] <=> id \in DOMAIN ended
    BY HeldIs
  <2>. QED  BY <2>1, <2>2
<1>. HIDE DEF P
<1>9. \A k \in Places : Once(k)
  BY <1>1, <1>2, <1>3, <1>4, <1>5, <1>6, <1>7, <1>8 DEF Places
<1>. QED  BY <1>9 DEF P

(* From its receipt on, a read request is in exactly one place: no         *)
(* interleaving of handlers, batches, put-backs, closes and sends answers  *)
(* one twice, drops one that is answered, or forgets one.                  *)
THEOREM EachInOnePlace == Spec => []OnePlace
<1>1. Typing /\ Placement => OnePlace
  <2>1. SUFFICES ASSUME Typing, Placement, NEW id \in DOMAIN log
                 PROVE  Cardinality(Holders(id)) = 1
    BY DEF OnePlace
  <2>2. PICK k \in Places : id \in Held[k]
    BY <2>1 DEF Placement, Placed, Partition
  <2>3. \A j \in Places : j # k => id \notin Held[j]
    BY <2>1, <2>2 DEF Placement, Placed, Partition
  <2>4. \E h \in HoldersAt(id)[k] : Holders(id) = {h}
    <3>. DEFINE P == HoldersAt(id)
    <3>1. \A j \in Places : /\ P[j] # {} <=> id \in Held[j]
                            /\ \A g, h \in P[j] : g = h
      BY <2>1, OneHolder
    <3>2. /\ \A j \in Places : P[j] \subseteq Holders(id)
          /\ \A h \in Holders(id) : \E j \in Places : h \in P[j]
      BY HoldersSplit
    <3>. HIDE DEF P
    <3>3. \E h \in P[k] : Holders(id) = {h}
      BY <2>2, <2>3, <3>1, <3>2
    <3>. QED  BY <3>3 DEF P
  <2>. QED  BY <2>4, FS_Singleton
<1>. QED  BY <1>1, PlacementHolds, PTL

-----------------------------------------------------------------------------
(* The line of a connection is the queue of its stages.                    *)
LEMMA StagesJoined ==
  ASSUME NEW p \in Seq(Request), NEW q \in Seq(Request), Lined(p), Lined(q),
         Ordered(Elements(p), Elements(q)), IdsOf(p) \cap IdsOf(q) = {}
  PROVE  /\ p \o q \in Seq(Request) /\ Lined(p \o q)
         /\ IdsOf(p \o q) = IdsOf(p) \cup IdsOf(q)
         /\ Elements(p \o q) = Elements(p) \cup Elements(q)
<1>1. \A r \in Elements(p), s \in Elements(q) : Apart(r, s) /\ Before(r, s)
  BY IdsOfElements DEF Ordered, Apart
<1>. QED  BY <1>1, QueueJoined, ConcatProperties

(* The requests of a connection, place behind place, are in the order they *)
(* came in.                                                                *)
LEMMA LineIsLined ==
  ASSUME Typing, Placement, NEW a \in Addr
  PROVE  Lined(Line(a))
<1>. DEFINE w == pendingResponse
            c == IF currentRequest[a] = None THEN <<>> ELSE <<currentRequest[a]>>
            h == IF server.hand = None THEN <<>> ELSE <<server.hand>>
            q == pendingReadRequests
<1>0. <<>> \in Seq(Request) /\ Lined(<<>>) /\ IdsOf(<<>>) = {} /\ Elements(<<>>) = {}
  BY DEF Lined, IdsOf, Elements
<1>1. w \in Seq(Request) /\ q \in Seq(Request) /\ Lined(w) /\ Lined(q)
  BY DEF Typing, TypeOK, QueueTypes, Placement, Apartness
<1>2. /\ c \in Seq(Request) /\ Lined(c) /\ Elements(c) \subseteq Members(currentRequest)
      /\ IdsOf(c) \subseteq Held["batch"]
  <2>1. currentRequest \in [Addr -> Request \cup {None}]
    BY DEF Typing, TypeOK, ServerTypes
  <2>2. CASE currentRequest[a] = None
    BY <1>0, <2>2
  <2>3. CASE currentRequest[a] # None
    <3>1. currentRequest[a] \in Request /\ currentRequest[a] \in Members(currentRequest)
      BY <2>1, <2>3 DEF Members
    <3>2. currentRequest[a].ids \subseteq Held["batch"]
      BY <3>1, HeldIs DEF IdsIn
    <3>. QED  BY <2>3, <3>1, <3>2, OneLined
  <2>. QED  BY <2>2, <2>3
<1>3. /\ h \in Seq(Request) /\ Lined(h) /\ Elements(h) = Hand
      /\ IdsOf(h) = Held["hand"]
  <2>1. server.hand \in Request \cup {None}
    BY DEF Typing, TypeOK, ServerTypes
  <2>2. CASE server.hand = None
    BY <1>0, <2>2, HeldIs DEF Hand
  <2>3. CASE server.hand # None
    BY <2>1, <2>3, HeldIs, OneLined DEF Hand
  <2>. QED  BY <2>2, <2>3
<1>4. IdsOf(w) = Held["queued"] /\ IdsOf(q) = Held["pending"]
  BY HeldIs
<1>5. /\ Held["queued"] \cap Held["batch"] = {}
      /\ Held["queued"] \cap Held["hand"] = {}
      /\ Held["queued"] \cap Held["pending"] = {}
      /\ Held["batch"] \cap Held["hand"] = {}
      /\ Held["batch"] \cap Held["pending"] = {}
      /\ Held["hand"] \cap Held["pending"] = {}
  BY DEF Placement, Placed, Partition, Places
<1>6. /\ Ordered(Elements(w), Elements(c)) /\ Ordered(Elements(w), Elements(h))
      /\ Ordered(Elements(w), Elements(q)) /\ Ordered(Elements(c), Elements(h))
      /\ Ordered(Elements(c), Elements(q)) /\ Ordered(Elements(h), Elements(q))
  BY <1>2, <1>3 DEF Placement, Stages, Ordered
<1>7. Line(a) = ((w \o c) \o h) \o q
  BY DEF Line
<1>. HIDE DEF w, c, h, q
<1>8. /\ w \o c \in Seq(Request) /\ Lined(w \o c)
      /\ IdsOf(w \o c) = IdsOf(w) \cup IdsOf(c)
      /\ Elements(w \o c) = Elements(w) \cup Elements(c)
  BY <1>1, <1>2, <1>4, <1>5, <1>6, StagesJoined
<1>9. /\ (w \o c) \o h \in Seq(Request) /\ Lined((w \o c) \o h)
      /\ IdsOf((w \o c) \o h) = IdsOf(w) \cup IdsOf(c) \cup IdsOf(h)
      /\ Elements((w \o c) \o h) = Elements(w) \cup Elements(c) \cup Elements(h)
  <2>1. /\ Ordered(Elements(w \o c), Elements(h))
        /\ IdsOf(w \o c) \cap IdsOf(h) = {}
    BY <1>2, <1>3, <1>4, <1>5, <1>6, <1>8 DEF Ordered
  <2>. QED  BY <1>3, <1>8, <2>1, StagesJoined
<1>10. Lined(((w \o c) \o h) \o q)
  <2>1. /\ Ordered(Elements((w \o c) \o h), Elements(q))
        /\ IdsOf((w \o c) \o h) \cap IdsOf(q) = {}
    BY <1>2, <1>3, <1>4, <1>5, <1>6, <1>9 DEF Ordered
  <2>. QED  BY <1>1, <1>9, <2>1, StagesJoined
<1>. QED  BY <1>7, <1>10

(* Merging keeps the first request of a connection and putting back puts   *)
(* it in front: up to the queue of the responses, the requests of one      *)
(* connection stay in the order they were received in.                     *)
THEOREM RequestsKeepTheirOrder == Spec => []InOrder
<1>1. Typing /\ Placement => InOrder
  <2>1. SUFFICES ASSUME Typing, Placement, NEW a \in Addr
                 PROVE  \A i, j \in DOMAIN Line(a) :
                          i < j /\ Line(a)[i].conn = a /\ Line(a)[j].conn = a =>
                            \A x \in Line(a)[i].ids, y \in Line(a)[j].ids : x < y
    BY DEF InOrder
  <2>2. Lined(Line(a))
    BY <2>1, LineIsLined
  <2>. QED  BY <2>2 DEF Lined, Before
<1>. QED  BY <1>1, PlacementHolds, PTL

-----------------------------------------------------------------------------
(* What the service's variables stand for, and how requests get outcomes.  *)
Connected == {<<a, session[a]>> : a \in users}
Outcome   == [id \in Answered \cup DOMAIN ended |->
                IF id \in Answered THEN "answered"
                ELSE IF ended[id] = "lost" THEN "lost" ELSE "given up"]
Settles(ids, how) == Outcome' = [i \in DOMAIN Outcome \cup ids |->
                                   IF i \in ids THEN how ELSE Outcome[i]]
Unsettled == DOMAIN log \ (Answered \cup DOMAIN ended)

(* The session of a connection is one of those the service knows.          *)
SessionsInBounds == \A a \in Addr : /\ session[a] <= MaxSessions
                                    /\ Alive(a) => session[a] >= 1

(***************************************************************************)
(* The service's actions, on what its variables stand for.                 *)
(***************************************************************************)
LEMMA ServiceInit == Init => Service!Init
BY DEF Init, Service!Init, Answered

(* What changes nothing of this is no step of the service.                 *)
LEMMA ServiceStutters ==
  ASSUME UNCHANGED <<users, session, log, horizon, answers, ended>>
  PROVE  UNCHANGED Service!vars
BY DEF Service!vars, Answered

(* A registered connection: Connect.                                       *)
LEMMA ServiceConnects ==
  ASSUME NEW a \in Addr, session[a] \in 1 .. MaxSessions,
         users' = users \cup {a},
         UNCHANGED <<session, log, horizon, answers, ended>>
  PROVE  Service!Next
<1>1. Connected' = Connected \cup {<<a, session[a]>>}
  BY DEF Connected
<1>. QED
  BY <1>1 DEF Service!Next, Service!Connect, Connected, Answered

(* A message received: Ask.                                                *)
LEMMA ServiceAsks ==
  ASSUME Typing, NEW a \in Addr, NEW keys \in KeyLists,
         session[a] \in 1 .. MaxSessions, Len(log) < MaxRequests,
         log' = Append(log, [conn |-> a, session |-> session[a], keys |-> keys]),
         UNCHANGED <<users, session, horizon, answers, ended>>
  PROVE  Service!Next
BY DEF Service!Next, Service!Ask, Answered

(* Three seconds over: Age.                                                *)
LEMMA ServiceAges ==
  ASSUME horizon < Len(log), horizon' = horizon + 1,
         UNCHANGED <<users, session, log, answers, ended>>
  PROVE  Service!Next
BY DEF Service!Next, Service!Age, Answered

(* What ends gets its outcome.                                             *)
LEMMA EndSettles ==
  ASSUME NEW ids, NEW why, ids \cap Answered = {}, ended' = End(ids, why),
         UNCHANGED answers
  PROVE  Settles(ids, IF why = "lost" THEN "lost" ELSE "given up")
<1>1. Answered' = Answered
  BY DEF Answered
<1>2. /\ DOMAIN ended' = DOMAIN ended \cup ids
      /\ \A i \in DOMAIN ended' : ended'[i] = IF i \in ids THEN why ELSE ended[i]
  BY DEF End
<1>. QED  BY <1>1, <1>2 DEF Settles, Outcome

(* Requests given up for a reason: GiveUp.                                 *)
LEMMA ServiceGivesUp ==
  ASSUME Causes', NEW ids \in SUBSET Unsettled, NEW why, why \in Reasons \ {"lost"},
         ended' = End(ids, why), users' \subseteq users,
         UNCHANGED <<session, log, horizon, answers>>
  PROVE  Service!Next
<1>1. Settles(ids, "given up")
  BY EndSettles DEF Unsettled, Reasons
<1>2. Connected' \in SUBSET Connected
  BY DEF Connected
<1>3. ASSUME NEW id \in ids
      PROVE  Service!Excused(id, Connected')
  <2>1. Cause(id, why)'
    BY DEF Causes, End
  <2>2. CASE why = "expired"
    BY <2>1, <2>2 DEF Cause, Service!Excused
  <2>3. CASE why = "no keys"
    BY <2>1, <2>3 DEF Cause, Service!Excused
  <2>4. CASE why \in {"purged", "no user"}
    BY <2>1, <2>4
       DEF Cause, Registered, Service!Excused, Service!Caller, Connected
  <2>. QED  BY <2>2, <2>3, <2>4 DEF Reasons
<1>4. ids \in SUBSET Service!Open
  BY DEF Service!Open, Unsettled
<1>5. Service!Settle(ids, "given up")
  BY <1>1 DEF Service!Settle, Settles, Outcome
<1>. QED
  BY <1>2, <1>3, <1>4, <1>5 DEF Service!Next, Service!GiveUp, Connected

(* A request lost to the unlocked push_front: Lose.                        *)
LEMMA ServiceLoses ==
  ASSUME NEW id \in Unsettled, ended' = End({id}, "lost"),
         UNCHANGED <<users, session, log, horizon, answers>>
  PROVE  Service!Next
<1>1. Settles({id}, "lost")
  BY EndSettles DEF Unsettled
<1>2. id \in Service!Open
  BY DEF Service!Open, Unsettled
<1>. QED
  BY <1>1, <1>2
     DEF Service!Next, Service!Lose, Service!Settle, Settles, Outcome

(* A response sent: Answer.                                                *)
LEMMA ServiceAnswers ==
  ASSUME NEW ids \in SUBSET Unsettled, ids # {}, NEW a \in users, a \in Addr,
         \A id \in ids : log[id].conn = a, Answered' = Answered \cup ids,
         UNCHANGED <<users, session, log, horizon, ended>>
  PROVE  Service!Next
<1>1. Settles(ids, "answered")
  BY DEF Settles, Outcome
<1>2. ids \in SUBSET Service!Open
  BY DEF Service!Open, Unsettled
<1>3. \E c \in {<<b, session[b]>> : b \in users} : c[1] = a
  <2>1. <<a, session[a]>> \in {<<b, session[b]>> : b \in users}
    OBVIOUS
  <2>2. <<a, session[a]>>[1] = a
    OBVIOUS
  <2>. QED  BY <2>1, <2>2
<1>4. Service!Settle(ids, "answered")
  BY <1>1 DEF Service!Settle, Settles, Outcome
<1>5. Service!Answer
  BY <1>2, <1>3, <1>4 DEF Service!Answer
<1>. QED  BY <1>5 DEF Service!Next

-----------------------------------------------------------------------------
(* At the start no connection has had a session.                           *)
LEMMA InitSessionsInBounds == Init => SessionsInBounds
BY BoundsType DEF Init, SessionsInBounds, Alive

(* Each step keeps the sessions in bounds.                                 *)
LEMMA SessionsInBoundsStep ==
  Typing /\ Registration /\ SessionsInBounds /\ [Next]_vars => SessionsInBounds'
<1>. SUFFICES ASSUME Typing, Registration, SessionsInBounds, [Next]_vars
              PROVE  SessionsInBounds'
  OBVIOUS
<1>. USE DEF SessionsInBounds, Alive
<1>0. /\ object \in [Addr -> {"free", "open", "closed"}]
      /\ session \in [Addr -> Nat] /\ MaxSessions \in Nat
  BY BoundsType DEF Typing, TypeOK, ObjectTypes
<1>1. CASE UNCHANGED objectVars
  BY <1>1 DEF objectVars
<1>2. ASSUME NEW t \in IoThreads, NEW a \in Addr, Accept(t, a)
      PROVE  SessionsInBounds'
  <2>1. /\ session' = [session EXCEPT ![a] = @ + 1]
        /\ session[a] < MaxSessions /\ session[a] \in Nat
        /\ object' = [object EXCEPT ![a] = "open"]
    BY <1>0, <1>2 DEF Accept
  <2>. QED  BY <1>0, <2>1
<1>3. ASSUME NEW t \in IoThreads, FinishRemoveConnection(t)
      PROVE  SessionsInBounds'
  <2>1. /\ UNCHANGED session /\ io[t].op # "idle"
        /\ \/ object' = [object EXCEPT ![io[t].conn] = "free"]
           \/ object' = [object EXCEPT ![io[t].conn] = "closed"]
    BY <1>3 DEF FinishRemoveConnection, Doing
  <2>2. object[io[t].conn] # "free"
    BY <2>1 DEF Registration, OwnObject
  <2>3. \A a \in Addr : object'[a] # "free" => object[a] # "free"
    BY <1>0, <2>1, <2>2
  <2>. QED  BY <2>1, <2>3
<1>4. ASSUME NEW t \in IoThreads, NEW a \in Addr, Destroy(t, a)
      PROVE  SessionsInBounds'
  <2>1. UNCHANGED session /\ object' = [object EXCEPT ![a] = "free"]
    BY <1>4 DEF Destroy
  <2>. QED  BY <1>0, <2>1
<1>5. ASSUME NEW t \in IoThreads,
             \/ \E a \in Addr, keys \in KeyLists : ReceiveRead(t, a, keys)
             \/ \E a \in Addr : ReceiveWrite(t, a) \/ Close(t, a)
             \/ AddConnection(t) \/ AddPendingReadRequest(t)
             \/ FinishAddPendingReadRequest(t) \/ WriteSymbolValue(t)
             \/ SendWriteResponse(t) \/ RemoveConnection(t) \/ PurgeRequests(t)
      PROVE  UNCHANGED objectVars
  BY <1>5
     DEF ReceiveRead, ReceiveWrite, Close, AddConnection, AddPendingReadRequest,
         FinishAddPendingReadRequest, WriteSymbolValue, SendWriteResponse,
         RemoveConnection, PurgeRequests
<1>6. ASSUME \/ ServerThread \/ \E p \in Responders : ResponseThread(p)
             \/ Tick \/ UNCHANGED vars
      PROVE  UNCHANGED objectVars
  BY <1>6
     DEF ServerThread, MergeRequest, RejectRequest, EndCollect, PutBack,
         Consolidate, ReadVariables, QueueResponses, ResponseThread,
         TakeResponse, SendResponse, Tick, vars
<1>. QED
  BY <1>1, <1>2, <1>3, <1>4, <1>5, <1>6 DEF Next, FromClient, InHandler

(* What is held in the pipeline has no outcome yet.                        *)
LEMMA HeldIsUnsettled ==
  ASSUME Placement, NEW k \in Places \ {"answer", "ended"}
  PROVE  Held[k] \in SUBSET Unsettled
<1>1. Answered = Held["answer"] /\ DOMAIN ended = Held["ended"]
  BY HeldIs DEF Answered, IdsOf
<1>2. "answer" \in Places /\ "ended" \in Places
  BY DEF Places
<1>. QED
  BY <1>1, <1>2 DEF Unsettled, Placement, Placed, Partition

(* A step of an io thread is one of the service, or none.                  *)
LEMMA HandlerService ==
  ASSUME Typing, Registration, SessionsInBounds, Placement, Causes',
         NEW t \in IoThreads, FromClient(t) \/ InHandler(t)
  PROVE  Service!Next \/ UNCHANGED Service!vars
<1>0. \A a \in Addr : Alive(a) => session[a] \in 1 .. MaxSessions
  BY BoundsType DEF Typing, TypeOK, ObjectTypes, SessionsInBounds
<1>1. ASSUME NEW a \in Addr, Accept(t, a)
      PROVE  UNCHANGED Service!vars
  <2>1. /\ a \notin users /\ users \subseteq Addr
        /\ session \in [Addr -> Nat] /\ session' = [session EXCEPT ![a] = @ + 1]
        /\ UNCHANGED <<users, log, horizon, answers, ended>>
    BY <1>1
       DEF Accept, Registration, UsersAreOpen, Typing, TypeOK, ObjectTypes,
           userVars
  <2>2. \A b \in users : session'[b] = session[b]
    BY <2>1
  <2>3. Connected' = Connected
    BY <2>1, <2>2 DEF Connected
  <2>. QED  BY <2>1, <2>3 DEF Service!vars, Answered, Connected
<1>2. ASSUME AddConnection(t)
      PROVE  Service!Next
  <2>1. /\ users' = users \cup {io[t].conn} /\ io[t].op = "open"
        /\ UNCHANGED <<session, log, horizon, answers, ended>>
    BY <1>2 DEF AddConnection, Doing, objectVars
  <2>2. Alive(io[t].conn) /\ io[t].conn \in Addr
    BY <2>1, NoneIsNone
       DEF Registration, OwnObject, Typing, HandlersHold
  <2>. QED  BY <1>0, <2>1, <2>2, ServiceConnects
<1>3. ASSUME NEW a \in Addr, NEW keys \in KeyLists, ReceiveRead(t, a, keys)
      PROVE  Service!Next
  <2>1. /\ Alive(a) /\ Len(log) < MaxRequests
        /\ log' = Append(log, [conn |-> a, session |-> session[a], keys |-> keys])
        /\ UNCHANGED <<users, session, horizon, answers, ended>>
    BY <1>3 DEF ReceiveRead, objectVars, userVars
  <2>. QED  BY <1>0, <2>1, ServiceAsks
<1>4. ASSUME PurgeRequests(t)
      PROVE  Service!Next
  <2>. DEFINE q   == pendingReadRequests
              ids == UNION {q[i].ids :
                       i \in {j \in DOMAIN q : BelongsTo(q[j], io[t].conn)}}
  <2>1. /\ ended' = End(ids, "purged") /\ users' \subseteq users
        /\ UNCHANGED <<session, log, horizon, answers>>
    BY <1>4 DEF PurgeRequests, Unregister, objectVars
  <2>2. ids \subseteq Held["pending"]
    BY HeldIs DEF IdsOf
  <2>3. ids \in SUBSET Unsettled
    BY <2>2, HeldIsUnsettled DEF Places
  <2>. HIDE DEF ids
  <2>. QED  BY <2>1, <2>3, ServiceGivesUp DEF Reasons
<1>5. ASSUME \/ AddPendingReadRequest(t) \/ FinishAddPendingReadRequest(t)
             \/ \E a \in Addr : ReceiveWrite(t, a) \/ Close(t, a) \/ Destroy(t, a)
             \/ WriteSymbolValue(t) \/ SendWriteResponse(t)
             \/ RemoveConnection(t) \/ FinishRemoveConnection(t)
      PROVE  UNCHANGED Service!vars
  <2>1. UNCHANGED <<users, session, log, horizon, answers, ended>>
    BY <1>5
       DEF AddPendingReadRequest, FinishAddPendingReadRequest, ReceiveWrite,
           Close, Destroy, WriteSymbolValue, SendWriteResponse,
           RemoveConnection, FinishRemoveConnection, objectVars, userVars
  <2>. QED  BY <2>1, ServiceStutters
<1>. QED
  BY <1>1, <1>2, <1>3, <1>4, <1>5 DEF FromClient, InHandler

(* So is one of the server thread,                                         *)
LEMMA ServerService ==
  ASSUME Typing, Soundness, Placement, Causes', ServerThread
  PROVE  Service!Next \/ UNCHANGED Service!vars
<1>. DEFINE q == pendingReadRequests
<1>0. q \in Seq(Request)
  BY DEF Typing, TypeOK, QueueTypes
<1>1. UNCHANGED <<users, session, log, horizon, answers>>
  BY DEF ServerThread, MergeRequest, RejectRequest, EndCollect, PutBack,
         Consolidate, ReadVariables, QueueResponses, objectVars, userVars
<1>2. ASSUME NEW ids, ids \subseteq IdsOf(q), ended' = End(ids, "expired")
      PROVE  Service!Next
  <2>1. ids \in SUBSET Unsettled
    BY <1>2, HeldIs, HeldIsUnsettled DEF Places
  <2>. QED  BY <1>1, <1>2, <2>1, ServiceGivesUp DEF Reasons
<1>3. ASSUME MergeRequest \/ RejectRequest
      PROVE  Service!Next
  <2>1. PICK i \in DOMAIN q :
          ended' = End(IdsOf(SubSeq(q, 1, i - 1)), "expired")
    BY <1>3 DEF MergeRequest, RejectRequest, TakesRequestAt
  <2>2. IdsOf(SubSeq(q, 1, i - 1)) \subseteq IdsOf(q)
    BY <1>0, QueuePopped DEF Placement, Apartness
  <2>. QED  BY <1>2, <2>1, <2>2
<1>4. ASSUME EndCollect
      PROVE  Service!Next
  BY <1>2, <1>4 DEF EndCollect
<1>5. ASSUME PutBack
      PROVE  Service!Next \/ UNCHANGED Service!vars
  <2>. DEFINE r     == server.hand
              whole == WithFront(r)
              n     == Len(whole)
  <2>1. /\ q' = whole \/ q' = SubSeq(whole, 1, n - 1)
        /\ ended' = End(IdsOf(whole) \ IdsOf(q'), "lost")
    BY <1>5 DEF PutBack, PushFrontOutcomes
  <2>2. /\ server.hand # None /\ Sound(log, r) /\ Single(r)
        /\ \A j \in DOMAIN q : Single(q[j])
    BY <1>5, NoneIsNoRequest
       DEF PutBack, AtServer, Typing, ServerHolds, Soundness, HandSound,
           PendingSound
  <2>3. /\ whole \in Seq(Request) /\ Lined(whole) /\ whole # <<>>
        /\ IdsOf(whole) = r.ids \cup IdsOf(q)
        /\ Elements(whole) = {r} \cup Elements(q)
        /\ Hand = {r}
    BY <2>2, FrontLined
  <2>. HIDE DEF whole, r
  <2>4. CASE q' = whole
    <3>1. ended' = End({}, "lost")
      BY <2>1, <2>4
    <3>2. Settles({}, "lost")
      BY <1>1, <3>1, EndSettles
    <3>3. Outcome' = Outcome
      BY <3>2 DEF Settles, Outcome
    <3>. QED  BY <1>1, <3>3 DEF Service!vars, Outcome
  <2>5. CASE q' = SubSeq(whole, 1, n - 1)
    <3>1. IdsOf(whole) \ IdsOf(q') = whole[n].ids
      BY <2>3, <2>5, QueueCut
    <3>2. whole[n] \in Elements(whole) /\ whole[n].ids \subseteq IdsOf(whole)
      <4>1. n \in DOMAIN whole
        BY <2>3, LenProperties, EmptySeq
      <4>. QED  BY <4>1 DEF Elements, IdsOf
    <3>3. \E id : whole[n].ids = {id}
      <4>1. \A x \in Elements(whole) : Single(x)
        BY <2>2, <2>3 DEF Elements
      <4>. QED  BY <3>2, <4>1 DEF Single
    <3>4. PICK id : whole[n].ids = {id}
      BY <3>3
    <3>5. id \in Unsettled
      <4>1. id \in Held["hand"] \/ id \in Held["pending"]
        BY <2>3, <3>2, <3>4, HeldIs
      <4>. QED  BY <4>1, HeldIsUnsettled DEF Places
    <3>. QED  BY <1>1, <2>1, <3>1, <3>4, <3>5, ServiceLoses
  <2>. QED  BY <2>1, <2>4, <2>5
<1>6. ASSUME Consolidate
      PROVE  Service!Next \/ UNCHANGED Service!vars
  <2>1. BatchedIds = Held["batch"]
    <3>1. BatchedIds = IdsIn(currentRequest)
      BY DEF BatchedIds, Batched, IdsIn, Members, Typing, TypeOK, ServerTypes
    <3>. QED  BY <3>1, HeldIs
  <2>2. CASE ended' = End(BatchedIds, "no keys")
    <3>1. BatchedIds \in SUBSET Unsettled
      BY <2>1, HeldIsUnsettled DEF Places
    <3>. HIDE DEF q
    <3>. QED  BY <1>1, <2>2, <3>1, ServiceGivesUp DEF Reasons
  <2>3. CASE UNCHANGED ended
    BY <1>1, <2>3, ServiceStutters
  <2>. QED  BY <1>6, <2>2, <2>3 DEF Consolidate
<1>7. ASSUME ReadVariables \/ QueueResponses
      PROVE  UNCHANGED Service!vars
  BY <1>1, <1>7, ServiceStutters DEF ReadVariables, QueueResponses
<1>. QED
  BY <1>3, <1>4, <1>5, <1>6, <1>7 DEF ServerThread

(* of a response thread,                                                   *)
LEMMA ResponseService ==
  ASSUME Typing, Soundness, Placement, Causes',
         NEW p \in Responders, ResponseThread(p)
  PROVE  Service!Next \/ UNCHANGED Service!vars
<1>1. UNCHANGED <<users, session, log, horizon>>
  BY DEF ResponseThread, TakeResponse, SendResponse, objectVars, userVars
<1>2. ASSUME TakeResponse(p)
      PROVE  UNCHANGED Service!vars
  BY <1>1, <1>2, ServiceStutters DEF TakeResponse
<1>3. ASSUME SendResponse(p)
      PROVE  Service!Next
  <2>. DEFINE r == response[p]
  <2>1. r \in Request /\ Sound(log, r)
    BY <1>3
       DEF SendResponse, Typing, TypeOK, QueueTypes, Soundness, ResponseSound
  <2>2. r.ids \in SUBSET Unsettled
    <3>1. r.ids \subseteq Held["responder"]
      <4>1. r \in Members(response)
        BY <1>3 DEF SendResponse, Members, Typing, TypeOK, QueueTypes
      <4>2. r.ids \subseteq IdsIn(response)
        BY <4>1 DEF IdsIn
      <4>. QED  BY <4>2, HeldIs
    <3>. QED  BY <3>1, HeldIsUnsettled DEF Places
  <2>3. CASE IsUser(r.conn)
    <3>1. /\ answers' = Append(answers, [conn |-> r.conn,
                                        session |-> session[r.conn],
                                        keys |-> r.keys, ids |-> r.ids])
          /\ UNCHANGED ended
      BY <1>3, <2>3 DEF SendResponse
    <3>2. Answered' = Answered \cup r.ids
      BY <2>1, <3>1, AnswersGrow DEF Answered, IdsOf
    <3>3. /\ r.conn \in users /\ r.conn \in Addr /\ r.ids # {}
          /\ \A id \in r.ids : log[id].conn = r.conn
      BY <2>1, <2>3 DEF IsUser, Request, Sound
    <3>. HIDE DEF r
    <3>. QED  BY <1>1, <2>2, <3>1, <3>2, <3>3, ServiceAnswers
  <2>4. CASE ~IsUser(r.conn)
    <3>1. ended' = End(r.ids, "no user") /\ UNCHANGED answers
      BY <1>3, <2>4 DEF SendResponse
    <3>. HIDE DEF r
    <3>. QED  BY <1>1, <2>2, <3>1, ServiceGivesUp DEF Reasons
  <2>. QED  BY <2>3, <2>4
<1>. QED  BY <1>2, <1>3 DEF ResponseThread

(* and any other.                                                          *)
LEMMA ServiceStep ==
  Typing /\ Registration /\ SessionsInBounds /\ Soundness /\ Placement
    /\ Causes' /\ [Next]_vars => [Service!Next]_(Service!vars)
<1>. SUFFICES ASSUME Typing, Registration, SessionsInBounds, Soundness,
                     Placement, Causes', [Next]_vars
              PROVE  [Service!Next]_(Service!vars)
  OBVIOUS
<1>1. CASE Tick
  BY <1>1, ServiceAges DEF Tick, Later, objectVars, userVars
<1>2. CASE UNCHANGED vars
  BY <1>2, ServiceStutters DEF vars, objectVars, userVars
<1>. QED
  BY <1>1, <1>2, HandlerService, ServerService, ResponseService DEF Next

(* A client may rely on the service with no thread, queue or mutex in it:  *)
(* the pipeline gives each request one outcome, once, answers only while   *)
(* the address has a connection, and gives up only with an excuse.         *)
THEOREM PipelineIsAService == Spec => ServiceSpec
<1>1. Spec => [](/\ Typing /\ Registration /\ SessionsInBounds /\ Soundness
                 /\ Placement /\ Excuses)
  BY InitTyping, TypingStep, InitRegistration, RegistrationStep,
     InitSessionsInBounds, SessionsInBoundsStep, InitSoundness, SoundnessStep,
     InitPlacement, PlacementStep, InitBatch, BatchStep, InitExcuses,
     ExcusesStep, PTL DEF Spec
<1>2. Excuses' => Causes'
  BY DEF Excuses
<1>. QED
  BY <1>1, <1>2, ServiceInit, ServiceStep, PTL
     DEF Spec, ServiceSpec, Service!Spec
==============================================================================
