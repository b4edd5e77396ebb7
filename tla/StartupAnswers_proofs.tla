------------------------ MODULE StartupAnswers_proofs ------------------------
(***************************************************************************)
(* A theorem about the server from its start on (Startup): the value that  *)
(* an answer holds for a plain variable is that of the variable, at a      *)
(* moment after the request was made.                                      *)
(*                                                                         *)
(* The proof follows one such variable m:                                  *)
(*                                                                         *)
(*   names, paths      what is on the way to m, and where m is stored      *)
(*   the value cache   lookups and assignments that leave m's node alone   *)
(*   the symbol cache  what is known of m once a name above it is looked up*)
(*   the steps         requests, commands, buffer, leaves, copies          *)
(***************************************************************************)
EXTENDS Startup_proofs

-----------------------------------------------------------------------------
(***************************************************************************)
(* Names on the way to a variable.                                         *)
(***************************************************************************)
LEMMA PrefixesAre ==
  ASSUME NEW S, NEW p \in Seq(S), NEW m \in Seq(S)
  PROVE  /\ IsPrefix(p, m) <=> Len(p) <= Len(m) /\ p = SubSeq(m, 1, Len(p))
         /\ IsPrefix(p, m) <=> p = m \/ Below(m, p)
<1>0. /\ SubSeq(p, 1, Len(p)) = p /\ SubSeq(m, 1, Len(m)) = m
      /\ Len(p) \in Nat /\ Len(m) \in Nat
  BY SubSeqFull
<1>1. IsPrefix(p, m) <=> Len(p) <= Len(m) /\ p = SubSeq(m, 1, Len(p))
  BY <1>0 DEF IsPrefix
<1>2. IsPrefix(p, m) <=> p = m \/ Below(m, p)
  BY <1>0, <1>1 DEF Below, IsStrictPrefix
<1> QED
  BY <1>1, <1>2

(* What is on the way to a part of a name is on the way to the name.       *)
LEMMA PrefixComposes ==
  ASSUME NEW S, NEW p \in Seq(S), NEW q \in Seq(S), NEW m \in Seq(S),
         IsPrefix(p, q), IsPrefix(q, m)
  PROVE  IsPrefix(p, m)
<1>0. /\ Len(p) \in Nat /\ Len(q) \in Nat /\ Len(m) \in Nat
      /\ Len(p) <= Len(q) /\ p = SubSeq(q, 1, Len(p))
      /\ Len(q) <= Len(m) /\ q = SubSeq(m, 1, Len(q))
  BY PrefixesAre
<1>1. Len(q) \in 0 .. Len(m) /\ Len(p) \in 0 .. Len(q)
  BY <1>0
<1>2. SubSeq(SubSeq(m, 1, Len(q)), 1, Len(p)) = SubSeq(m, 1, Len(p))
  BY <1>1, PrefixOfPrefix
<1>3. Len(p) <= Len(m) /\ p = SubSeq(m, 1, Len(p))
  BY <1>0, <1>2
<1> QED
  BY <1>3, PrefixesAre

(* Two names on the way to m: one is on the way to the other.              *)
LEMMA PrefixesCompare ==
  ASSUME NEW S, NEW p \in Seq(S), NEW q \in Seq(S), NEW m \in Seq(S),
         IsPrefix(p, m), IsPrefix(q, m), Len(p) <= Len(q)
  PROVE  IsPrefix(p, q)
<1>0. /\ Len(p) \in Nat /\ Len(q) \in Nat /\ Len(m) \in Nat
      /\ Len(p) <= Len(m) /\ p = SubSeq(m, 1, Len(p))
      /\ Len(q) <= Len(m) /\ q = SubSeq(m, 1, Len(q))
  BY PrefixesAre
<1>1. Len(q) \in 0 .. Len(m) /\ Len(p) \in 0 .. Len(q)
  BY <1>0
<1>2. SubSeq(SubSeq(m, 1, Len(q)), 1, Len(p)) = SubSeq(m, 1, Len(p))
  BY <1>1, PrefixOfPrefix
<1>3. p = SubSeq(q, 1, Len(p))
  BY <1>0, <1>2
<1> QED
  BY <1>3, PrefixesAre

(* The first k components of a name are on the way to it.                  *)
LEMMA PrefixOfItself ==
  ASSUME NEW S, NEW m \in Seq(S), NEW k \in 0 .. Len(m)
  PROVE  IsPrefix(SubSeq(m, 1, k), m)
<1> DEFINE p == SubSeq(m, 1, k)
<1>1. p \in Seq(S) /\ Len(p) = k
  BY PrefixIs
<1>2. p = SubSeq(m, 1, Len(p)) /\ Len(p) <= Len(m)
  BY <1>1
<1> HIDE DEF p
<1> QED
  BY <1>1, <1>2, PrefixesAre DEF p

(* The variables whose answers are followed: they are in no array and no   *)
(* property.                                                               *)
Apart(m) == m \in Name /\ \A a \in Array \cup Property : ~IsPrefix(a, m)

(* A path into the value cache has the components of the looked up name,   *)
(* and below it the keys that parseBuffer makes of its members.            *)
LEMMA DataPathWithin ==
  ASSUME NEW n \in Name, NEW r \in Name, r = n \/ Below(r, n)
  PROVE  /\ DataPath(n, r) \in Seq(Key) /\ Len(DataPath(n, r)) = Len(r) /\ Len(n) <= Len(r)
         /\ \A i \in 1 .. Len(n) : DataPath(n, r)[i] = r[i]
         /\ \A i \in Len(n) + 1 .. Len(r) : DataPath(n, r)[i] = MemberKey(SubSeq(r, 1, i))
<1> DEFINE k == Len(r) - Len(n)
           rest == [i \in 1 .. k |-> MemberKey(SubSeq(r, 1, Len(n) + i))]
           path == DataPath(n, r)
<1>0. /\ n \in Seq(DOMAIN Lower) /\ r \in Seq(DOMAIN Lower) /\ n \in Seq(Key)
      /\ Len(n) \in Nat \ {0} /\ Len(r) \in Nat \ {0}
  BY NamesAreKeys
<1>1. k \in Nat /\ Len(n) <= Len(r) /\ n = SubSeq(r, 1, Len(n))
  <2>1. SubSeq(r, 1, Len(r)) = r
    BY <1>0, SubSeqFull
  <2> QED BY <2>1, <1>0, BelowIs
<1>2. path \in Seq(Key)
  BY DataPathIs
<1>3. path = n \o rest
  BY DEF DataPath, ToLower
<1>4. Len(rest) = k
  BY <1>1
<1>5. /\ Len(path) = Len(n) + k
      /\ \A i \in 1 .. Len(n) : path[i] = n[i]
      /\ \A i \in Len(n) + 1 .. Len(n) + k : path[i] = rest[i - Len(n)]
  <2> DEFINE S == DOMAIN Lower \cup {rest[i] : i \in 1 .. k}
  <2>1. rest \in Seq(S)
    <3>1. \A i \in 1 .. k : rest[i] \in S
      OBVIOUS
    <3>2. rest \in [1 .. k -> S]
      <4>1. \A f : f = [i \in 1 .. k |-> f[i]] /\ (\A i \in 1 .. k : f[i] \in S)
                     => f \in [1 .. k -> S]
        OBVIOUS
      <4>2. rest = [i \in 1 .. k |-> rest[i]]
        OBVIOUS
      <4> HIDE DEF rest, S
      <4> QED BY <3>1, <4>1, <4>2
    <3> HIDE DEF rest, S, k
    <3> QED BY <3>2, <1>1, SeqDef
  <2>2. n \in Seq(S)
    BY <1>0, SeqMonotonic
  <2> HIDE DEF rest, k, S, path
  <2>3. /\ Len(n \o rest) = Len(n) + Len(rest)
        /\ \A i \in 1 .. Len(n) + Len(rest) :
             (n \o rest)[i] = IF i <= Len(n) THEN n[i] ELSE rest[i - Len(n)]
    BY <2>1, <2>2, ConcatProperties
  <2> QED BY <2>3, <1>3, <1>4, <1>0, <1>1
<1>6. \A i \in 1 .. Len(n) : n[i] = r[i]
  <2>1. Len(n) \in 0 .. Len(r)
    BY <1>0, <1>1
  <2>2. \A i \in 1 .. Len(n) : SubSeq(r, 1, Len(n))[i] = r[i]
    BY <2>1, <1>0, PrefixIs
  <2> QED BY <2>2, <1>1
<1>7. \A i \in Len(n) + 1 .. Len(r) : rest[i - Len(n)] = MemberKey(SubSeq(r, 1, i))
  <2> SUFFICES ASSUME NEW i \in Len(n) + 1 .. Len(r)
               PROVE  rest[i - Len(n)] = MemberKey(SubSeq(r, 1, i))
    OBVIOUS
  <2>1. i - Len(n) \in 1 .. k /\ Len(n) + (i - Len(n)) = i
    BY <1>0
  <2> QED BY <2>1
<1>8. Len(n) + k = Len(r)
  BY <1>0
<1> HIDE DEF rest, k, path
<1> QED
  BY <1>1, <1>2, <1>5, <1>6, <1>7, <1>8 DEF path

(* Outside arrays the key of a member is its component.                    *)
LEMMA MemberKeyIs ==
  ASSUME NEW r \in Name, NEW i \in 1 .. Len(r)
  PROVE  SubSeq(r, 1, i - 1) \notin Array => MemberKey(SubSeq(r, 1, i)) = r[i]
<1>0. r \in Seq(DOMAIN Lower) /\ Len(r) \in Nat \ {0} /\ i \in 0 .. Len(r) /\ i - 1 \in 0 .. i
  BY NamesAreKeys
<1> DEFINE p == SubSeq(r, 1, i)
<1>1. Len(p) = i /\ p[i] = r[i]
  <2>1. i \in 1 .. i
    BY <1>0
  <2> QED BY <2>1, <1>0, PrefixIs
<1>2. SubSeq(p, 1, i - 1) = SubSeq(r, 1, i - 1)
  BY <1>0, PrefixOfPrefix
<1> HIDE DEF p
<1>3. Front(p) = SubSeq(r, 1, i - 1) /\ Last(p) = r[i]
  BY <1>1, <1>2 DEF Front, Last
<1> QED
  BY <1>3 DEF MemberKey, p

(* As long as a path in the value cache leads towards a variable in no     *)
(* array, it goes by the names themselves.                                 *)
LEMMA DataPathNear ==
  ASSUME NEW m, Apart(m), NEW n \in Name, NEW r \in Name, r = n \/ Below(r, n)
  PROVE  \A k \in 0 .. Len(r) :
           IsPrefix(SubSeq(DataPath(n, r), 1, k), m)
             => SubSeq(DataPath(n, r), 1, k) = SubSeq(r, 1, k)
<1> DEFINE path == DataPath(n, r)
           Near(k) == IsPrefix(SubSeq(path, 1, k), m) => SubSeq(path, 1, k) = SubSeq(r, 1, k)
           P == {k \in 0 .. Len(r) : Near(k)}
<1>0. /\ m \in Seq(Key) /\ r \in Seq(Key) /\ path \in Seq(Key)
      /\ Len(r) \in Nat /\ Len(n) \in Nat /\ Len(path) = Len(r)
      /\ \A i \in 1 .. Len(n) : path[i] = r[i]
      /\ \A i \in Len(n) + 1 .. Len(r) : path[i] = MemberKey(SubSeq(r, 1, i))
  BY NamesAreKeys, DataPathWithin DEF Apart
<1> HIDE DEF path
<1>1. 0 \in P
  <2>1. SubSeq(path, 1, 0) = <<>> /\ SubSeq(r, 1, 0) = <<>>
    BY <1>0, SubSeqEmpty
  <2> QED BY <2>1, <1>0
<1>2. ASSUME NEW k \in 1 .. Len(r), k - 1 \in P PROVE k \in P
  <2> SUFFICES ASSUME IsPrefix(SubSeq(path, 1, k), m)
               PROVE  SubSeq(path, 1, k) = SubSeq(r, 1, k)
    BY <1>0
  <2>0. k \in 1 .. Len(path) /\ k \in 0 .. Len(path) /\ k - 1 \in 0 .. k /\ k - 1 \in 0 .. Len(path)
    BY <1>0
  <2>1. IsPrefix(SubSeq(path, 1, k - 1), SubSeq(path, 1, k))
    <3> DEFINE q == SubSeq(path, 1, k)
    <3>1. q \in Seq(Key) /\ Len(q) = k
      BY <2>0, <1>0, PrefixIs
    <3>2. SubSeq(q, 1, k - 1) = SubSeq(path, 1, k - 1)
      BY <2>0, <1>0, PrefixOfPrefix
    <3> HIDE DEF q
    <3>3. k - 1 \in 0 .. Len(q)
      BY <3>1, <2>0
    <3>4. IsPrefix(SubSeq(q, 1, k - 1), q)
      <4> DEFINE j == k - 1
      <4> HIDE DEF j
      <4>1. j \in 0 .. Len(q)
        BY <3>3 DEF j
      <4>2. IsPrefix(SubSeq(q, 1, j), q)
        BY <4>1, <3>1, PrefixOfItself
      <4> QED BY <4>2 DEF j
    <3> QED BY <3>2, <3>4 DEF q
  <2>2. IsPrefix(SubSeq(path, 1, k - 1), m)
    <3>1. SubSeq(path, 1, k) \in Seq(Key)
      BY <2>0, <1>0, PrefixIs
    <3>2. SubSeq(path, 1, k - 1) \in Seq(Key)
      <4> DEFINE j == k - 1
      <4> HIDE DEF j
      <4>1. j \in 0 .. Len(path)
        BY <2>0 DEF j
      <4>2. SubSeq(path, 1, j) \in Seq(Key)
        BY <4>1, <1>0, PrefixIs
      <4> QED BY <4>2 DEF j
    <3> QED BY <3>1, <3>2, <2>1, <1>0, PrefixComposes
  <2>3. SubSeq(path, 1, k - 1) = SubSeq(r, 1, k - 1)
    BY <2>2, <1>2
  <2>4. path[k] = r[k]
    <3>1. CASE k <= Len(n)
      BY <3>1, <1>0
    <3>2. CASE k > Len(n)
      <4>1. path[k] = MemberKey(SubSeq(r, 1, k))
        BY <3>2, <1>0
      <4>2. SubSeq(r, 1, k - 1) \notin Array
        BY <2>2, <2>3 DEF Apart
      <4> QED BY <4>1, <4>2, MemberKeyIs
    <3> QED BY <3>1, <3>2, <1>0
  <2>5. /\ Append(SubSeq(path, 1, k - 1), path[k]) = SubSeq(path, 1, k)
        /\ Append(SubSeq(r, 1, k - 1), r[k]) = SubSeq(r, 1, k)
    BY <2>0, <1>0, PrefixStep
  <2> QED BY <2>3, <2>4, <2>5
<1>3. 0 .. Len(r) \subseteq P
  <2> HIDE DEF P
  <2> QED BY <1>0, <1>1, <1>2, InductionTo
<1>4. \A k \in 0 .. Len(r) : Near(k)
  BY <1>3
<1> QED
  BY <1>4 DEF path

(* A plain variable is stored where its name says.                         *)
LEMMA DataPathToSelf ==
  ASSUME NEW m, Apart(m), NEW n \in Name, IsPrefix(n, m)
  PROVE  DataPath(n, m) = m
<1>0. /\ m \in Name /\ m \in Seq(DOMAIN Lower) /\ n \in Seq(DOMAIN Lower) /\ m \in Seq(Key)
      /\ Len(m) \in Nat
  BY NamesAreKeys DEF Apart
<1>1. m = n \/ Below(m, n)
  BY <1>0, PrefixesAre
<1> DEFINE path == DataPath(n, m)
<1>2. /\ path \in Seq(Key) /\ Len(path) = Len(m) /\ Len(n) \in Nat
      /\ \A i \in 1 .. Len(n) : path[i] = m[i]
      /\ \A i \in Len(n) + 1 .. Len(m) : path[i] = MemberKey(SubSeq(m, 1, i))
  BY <1>0, <1>1, DataPathWithin
<1> HIDE DEF path
<1>3. ASSUME NEW i \in Len(n) + 1 .. Len(m) PROVE path[i] = m[i]
  <2> DEFINE j == i - 1
  <2>1. i \in 1 .. Len(m) /\ j \in 0 .. Len(m)
    BY <1>0, <1>2
  <2> HIDE DEF j
  <2>2. IsPrefix(SubSeq(m, 1, j), m)
    BY <2>1, <1>0, PrefixOfItself
  <2>3. SubSeq(m, 1, i - 1) \notin Array
    BY <2>2 DEF j, Apart
  <2> QED BY <2>1, <2>3, <1>0, <1>2, MemberKeyIs
<1>4. \A i \in 1 .. Len(m) : path[i] = m[i]
  BY <1>0, <1>2, <1>3
<1>5. path = m
  BY <1>0, <1>2, <1>4, SeqEqual
<1> QED
  BY <1>5 DEF path

(* A path of the value cache that meets the way to such a variable.        *)
LEMMA DataPathMeets ==
  ASSUME NEW m, Apart(m), NEW n \in Name, NEW r \in Name, r = n \/ Below(r, n), ~Below(r, m)
  PROVE  /\ IsPrefix(m, DataPath(n, r)) => r = m
         /\ IsPrefix(DataPath(n, r), m) => DataPath(n, r) = r
         /\ \A i \in Len(n) + 1 .. Len(r) :
              SubSeq(r, 1, i - 1) \in Array => ~IsPrefix(SubSeq(DataPath(n, r), 1, i - 1), m)
<1> DEFINE path == DataPath(n, r)
<1>0. /\ m \in Seq(DOMAIN Lower) /\ m \in Seq(Key) /\ r \in Seq(DOMAIN Lower)
      /\ r \in Seq(Key) /\ path \in Seq(Key)
      /\ Len(m) \in Nat /\ Len(r) \in Nat /\ Len(path) = Len(r) /\ Len(n) \in Nat
  BY NamesAreKeys, DataPathWithin DEF Apart
<1>1. \A k \in 0 .. Len(r) : IsPrefix(SubSeq(path, 1, k), m) => SubSeq(path, 1, k) = SubSeq(r, 1, k)
  BY DataPathNear
<1> HIDE DEF path
<1>2. ASSUME IsPrefix(m, path) PROVE r = m
  <2>1. Len(m) <= Len(path) /\ m = SubSeq(path, 1, Len(m))
    BY <1>0, <1>2, PrefixesAre
  <2>2. IsPrefix(m, m)
    BY <1>0 DEF IsPrefix
  <2>3. m = SubSeq(r, 1, Len(m)) /\ Len(m) <= Len(r)
    <3>1. Len(m) \in 0 .. Len(r)
      BY <2>1, <1>0
    <3>2. IsPrefix(SubSeq(path, 1, Len(m)), m)
      BY <2>1, <2>2
    <3>3. SubSeq(path, 1, Len(m)) = SubSeq(r, 1, Len(m))
      BY <3>1, <3>2, <1>1
    <3> QED BY <3>1, <3>3, <2>1, <1>0
  <2>4. IsPrefix(m, r)
    BY <2>3, <1>0, PrefixesAre
  <2> QED BY <2>4, <1>0, PrefixesAre
<1>3. ASSUME IsPrefix(path, m) PROVE path = r
  <2>1. SubSeq(path, 1, Len(r)) = path /\ SubSeq(r, 1, Len(r)) = r
    <3>1. SubSeq(path, 1, Len(path)) = path /\ SubSeq(r, 1, Len(r)) = r
      BY <1>0, SubSeqFull
    <3> QED BY <3>1, <1>0
  <2>2. Len(r) \in 0 .. Len(r)
    BY <1>0
  <2>4. IsPrefix(SubSeq(path, 1, Len(r)), m)
    BY <2>1, <1>3
  <2>3. SubSeq(path, 1, Len(r)) = SubSeq(r, 1, Len(r))
    BY <2>2, <2>4, <1>1
  <2> QED BY <2>1, <2>3
<1>4. ASSUME NEW i \in Len(n) + 1 .. Len(r), SubSeq(r, 1, i - 1) \in Array,
             IsPrefix(SubSeq(path, 1, i - 1), m)
      PROVE  FALSE
  <2>1. i - 1 \in 0 .. Len(r)
    BY <1>0
  <2>2. SubSeq(path, 1, i - 1) = SubSeq(r, 1, i - 1)
    BY <2>1, <1>1, <1>4
  <2> QED BY <2>2, <1>4 DEF Apart
<1> QED
  BY <1>2, <1>3, <1>4 DEF path

-----------------------------------------------------------------------------
(***************************************************************************)
(* The place of a variable m in the value cache.  There is no list above   *)
(* it; so a walk along a path that ends neither above nor below m changes  *)
(* neither that nor what stands at m.                                      *)
(***************************************************************************)
Clean(tree, m) == \A q \in DOMAIN tree : IsStrictPrefix(q, m) => tree[q].kind # "list"

Keeps(tree, new, m) == m \in DOMAIN tree => m \in DOMAIN new /\ new[m] = tree[m]

(* What is above a node in the value cache is an object or a list.         *)
LEMMA HoldingAbove ==
  ASSUME NEW tree, Shaped(tree), NEW q \in DOMAIN tree, NEW p \in Seq(Key), IsStrictPrefix(p, q)
  PROVE  p \in DOMAIN tree /\ Holding(tree[p])
<1>0. /\ q \in Seq(Key) /\ Len(q) \in Nat /\ Len(p) \in Nat
      /\ \A x \in DOMAIN tree : x # <<>> => Front(x) \in DOMAIN tree /\ Holding(tree[Front(x)])
  BY DEF Shaped
<1>1. Len(p) < Len(q) /\ p = SubSeq(q, 1, Len(p))
  BY <1>0, BelowIs DEF Below
<1> DEFINE Up(k) == /\ SubSeq(q, 1, Len(q) - k) \in DOMAIN tree
                    /\ k > 0 => Holding(tree[SubSeq(q, 1, Len(q) - k)])
           P == {k \in 0 .. Len(q) : Up(k)}
<1>2. 0 \in P
  <2>1. SubSeq(q, 1, Len(q)) = q /\ Len(q) - 0 = Len(q)
    BY <1>0, SubSeqFull
  <2>2. Up(0)
    <3>1. SubSeq(q, 1, Len(q) - 0) = q
      BY <2>1
    <3>2. SubSeq(q, 1, Len(q) - 0) \in DOMAIN tree
      BY <3>1
    <3>3. ~(0 > 0)
      OBVIOUS
    <3> QED BY <3>2, <3>3
  <2> HIDE DEF Up
  <2>3. 0 \in 0 .. Len(q)
    BY <1>0
  <2> QED BY <2>2, <2>3
<1>3. ASSUME NEW k \in 1 .. Len(q), k - 1 \in P PROVE k \in P
  <2> DEFINE j == Len(q) - k
             x == SubSeq(q, 1, j + 1)
  <2>1. j + 1 \in 0 .. Len(q) /\ j \in 0 .. j + 1 /\ Len(q) - (k - 1) = j + 1
    BY <1>0
  <2>2. x \in DOMAIN tree
    BY <2>1, <1>3
  <2> HIDE DEF j
  <2>3. x \in Seq(Key) /\ Len(x) = j + 1
    BY <2>1, <1>0, PrefixIs
  <2>4. SubSeq(x, 1, j) = SubSeq(q, 1, j)
    BY <2>1, <1>0, PrefixOfPrefix
  <2> HIDE DEF x
  <2>5. Front(x) = SubSeq(q, 1, j) /\ x # <<>>
    BY <2>1, <2>3, <2>4 DEF Front
  <2>6. SubSeq(q, 1, j) \in DOMAIN tree /\ Holding(tree[SubSeq(q, 1, j)])
    BY <2>2, <2>5, <1>0
  <2> QED BY <2>6 DEF j
<1>4. 0 .. Len(q) \subseteq P
  <2> HIDE DEF P
  <2> QED BY <1>0, <1>2, <1>3, InductionTo
<1> DEFINE k == Len(q) - Len(p)
<1>5. k \in 0 .. Len(q) /\ k > 0 /\ Len(q) - k = Len(p)
  BY <1>0, <1>1
<1> HIDE DEF k
<1>6. Up(k)
  BY <1>4, <1>5
<1> QED
  BY <1>1, <1>5, <1>6

(* Assigning another node, not one above m, leaves that of m.              *)
LEMMA SetNodeKeeps ==
  ASSUME NEW tree, NEW m, Clean(tree, m), NEW p \in DOMAIN tree, NEW node, p # m
  PROVE  /\ m \notin DOMAIN tree \/ ~IsStrictPrefix(p, m) => Keeps(tree, SetNode(tree, p, node), m)
         /\ (IsStrictPrefix(p, m) => node.kind # "list") => Clean(SetNode(tree, p, node), m)
<1> DEFINE new  == SetNode(tree, p, node)
           Kept == {x \in DOMAIN tree : ~IsStrictPrefix(p, x)}
<1>1. /\ DOMAIN new = Kept \cup {p} /\ new[p] = node
      /\ \A q \in Kept : q # p => new[q] = tree[q]
  BY DEF SetNode
<1> HIDE DEF new
<1>2. m \notin DOMAIN tree \/ ~IsStrictPrefix(p, m) => Keeps(tree, new, m)
  BY <1>1 DEF Keeps
<1>3. (IsStrictPrefix(p, m) => node.kind # "list") => Clean(new, m)
  BY <1>1 DEF Clean
<1> QED
  BY <1>2, <1>3 DEF new

(* So does adding a node, which is null at first.                          *)
LEMMA AddNodeKeeps ==
  ASSUME NEW tree, NEW m, Clean(tree, m), NEW p
  PROVE  Keeps(tree, AddNode(tree, p), m) /\ Clean(AddNode(tree, p), m)
<1> DEFINE new == AddNode(tree, p)
<1>1. /\ DOMAIN new = DOMAIN tree \cup {p}
      /\ \A q \in DOMAIN tree : new[q] = tree[q]
      /\ p \notin DOMAIN tree => new[p] = Null
  BY DEF AddNode
<1> HIDE DEF new
<1>2. Null.kind # "list"
  BY DEF Null
<1>3. Clean(new, m)
  BY <1>1, <1>2 DEF Clean
<1>4. Keeps(tree, new, m)
  BY <1>1 DEF Keeps
<1> QED
  BY <1>3, <1>4 DEF new

(* Two such steps leave it, too.                                           *)
LEMMA KeepsComposes ==
  ASSUME NEW a, NEW b, NEW c, NEW m, Keeps(a, b, m), Keeps(b, c, m)
  PROVE  Keeps(a, c, m)
BY DEF Keeps

(* One operator[] on the way to a name that is not below m leaves m's      *)
(* node, and makes no list above m.                                        *)
LEMMA StepKeeps ==
  ASSUME NEW tree, Shaped(tree), NEW m \in Seq(Key), Clean(tree, m), NEW p \in DOMAIN tree,
         NEW kind \in {"object", "list"}, NEW key,
         p # m, IsStrictPrefix(p, m) => kind = "object"
  PROVE  Keeps(tree, Step(tree, p, kind, key), m) /\ Clean(Step(tree, p, kind, key), m)
<1> DEFINE held == IF tree[p].kind = kind THEN tree ELSE SetNode(tree, p, Holder(kind))
           new  == AddNode(held, Append(p, key))
<1>1. Keeps(tree, held, m) /\ Clean(held, m)
  <2>1. CASE tree[p].kind = kind
    BY <2>1 DEF Keeps
  <2>2. CASE tree[p].kind # kind
    <3>1. held = SetNode(tree, p, Holder(kind))
      BY <2>2
    <3>2. IsStrictPrefix(p, m) => Holder(kind).kind # "list"
      BY DEF Holder
    <3>3. m \notin DOMAIN tree \/ ~IsStrictPrefix(p, m)
      <4> SUFFICES ASSUME m \in DOMAIN tree, IsStrictPrefix(p, m) PROVE FALSE
        OBVIOUS
      <4>1. p \in Seq(Key)
        BY DEF Shaped
      <4>2. tree[p].kind \in {"object", "list"}
        BY <4>1, HoldingAbove DEF Holding
      <4>3. tree[p].kind # "list"
        BY DEF Clean
      <4> QED BY <4>2, <4>3, <2>2
    <3> HIDE DEF held
    <3>4. PICK node : node = Holder(kind)
      OBVIOUS
    <3>5. held = SetNode(tree, p, node) /\ (IsStrictPrefix(p, m) => node.kind # "list")
      BY <3>1, <3>2, <3>4
    <3> QED BY <3>3, <3>5, SetNodeKeeps
  <2> QED BY <2>1, <2>2
<1> HIDE DEF held
<1>2. Keeps(held, new, m) /\ Clean(new, m)
  BY <1>1, AddNodeKeeps
<1>3. Step(tree, p, kind, key) = new
  BY DEF Step, held
<1> HIDE DEF new
<1> QED
  BY <1>1, <1>2, <1>3, KeepsComposes

Stepped(tree, path, lists, i) ==
  Step(tree, SubSeq(path, 1, i - 1), IF i \in lists THEN "list" ELSE "object", path[i])

(* A walk stays in what each of its steps stays in.                        *)
LEMMA WalkIsIn ==
  ASSUME NEW tree, NEW path, Len(path) \in Nat, NEW lists, NEW U,
         NEW G \in [0 .. Len(path) -> SUBSET U], tree \in G[0],
         \A i \in 1 .. Len(path) : \A x \in G[i - 1] : Stepped(x, path, lists, i) \in G[i]
  PROVE  Walk(tree, path, lists) \in G[Len(path)]
<1> DEFINE N == Len(path)
           E(t, i) == Stepped(t, path, lists, i)
           F == [x \in U \X (1 .. N) |-> E(x[1], x[2])]
           Is(f) == f = [i \in 0 .. N |-> IF i = 0 THEN tree ELSE E(f[i - 1], i)]
           walked == CHOOSE f : Is(f)
<1>0. N \in Nat /\ G \in [0 .. N -> SUBSET U] /\ \A i \in 1 .. N : i - 1 \in 0 .. N
  OBVIOUS
<1>1. ASSUME NEW i \in 1 .. N, NEW x \in G[i - 1]
      PROVE  F[<<x, i>>] = E(x, i) /\ F[<<x, i>>] \in G[i]
  <2>1. x \in U
    BY <1>0
  <2>2. F[<<x, i>>] = E(x, i)
    BY <2>1
  <2> QED BY <2>2
<1>2. PICK f \in [0 .. N -> U] : Iterated(f, N, tree, F) /\ \A i \in 0 .. N : f[i] \in G[i]
  <2> HIDE DEF F, N
  <2>1. \A i \in 1 .. N : \A x \in G[i - 1] : F[<<x, i>>] \in G[i]
    BY <1>1
  <2> QED BY <1>0, <2>1, IterationExists
<1>3. Is(f)
  <2>1. \A i \in 1 .. N : f[i] = E(f[i - 1], i)
    <3> HIDE DEF F, N
    <3> QED BY <1>0, <1>1, <1>2 DEF Iterated
  <2>2. f[0] = tree
    BY <1>2 DEF Iterated
  <2> HIDE DEF E
  <2> QED BY <1>0, <1>2, <2>1, <2>2
<1>4. Is(walked)
  <2> HIDE DEF Is
  <2> QED BY <1>3
<1>5. 0 .. N \subseteq {i \in 0 .. N : walked[i] \in G[i]}
  <2> DEFINE P == {i \in 0 .. N : walked[i] \in G[i]}
  <2>0. walked[0] = tree /\ \A i \in 1 .. N : walked[i] = E(walked[i - 1], i)
    <3> HIDE DEF walked
    <3> QED BY <1>0, <1>4
  <2> HIDE DEF walked, F
  <2>1. 0 \in P
    BY <2>0, <1>0
  <2>2. ASSUME NEW i \in 1 .. N, i - 1 \in P PROVE i \in P
    <3>1. walked[i - 1] \in G[i - 1] /\ i \in 0 .. N
      BY <2>2
    <3> QED BY <3>1, <2>0
  <2> HIDE DEF P
  <2>3. 0 .. N \subseteq P
    BY <2>1, <2>2, <1>0, InductionTo
  <2> QED BY <2>3 DEF P
<1>6. walked[N] \in G[N]
  <2> HIDE DEF walked
  <2> QED BY <1>0, <1>5
<1>7. Walk(tree, path, lists) = walked[N]
  BY DEF Walk, E, Stepped
<1> QED
  <2> HIDE DEF walked
  <2> QED BY <1>6, <1>7

(* The trees with nodes of R.                                              *)
Trees(R) == {t \in UNION {[D -> R] : D \in SUBSET Seq(Key)} : Shaped(t)}

(* Well formed trees are in Trees(R) if their nodes are in R.              *)
LEMMA TreesAre ==
  ASSUME NEW R, NEW t
  PROVE  t \in Trees(R) <=> Shaped(t) /\ \A q \in DOMAIN t : t[q] \in R
<1>1. ASSUME t \in Trees(R) PROVE Shaped(t) /\ \A q \in DOMAIN t : t[q] \in R
  <2>1. PICK D \in SUBSET Seq(Key) : t \in [D -> R]
    BY <1>1 DEF Trees
  <2> QED BY <2>1, <1>1 DEF Trees
<1>2. ASSUME Shaped(t), \A q \in DOMAIN t : t[q] \in R PROVE t \in Trees(R)
  <2>1. t \in [DOMAIN t -> R] /\ DOMAIN t \in SUBSET Seq(Key)
    BY <1>2 DEF Shaped
  <2> QED BY <2>1, <1>2 DEF Trees
<1> QED
  BY <1>1, <1>2

(* One operator[] makes a tree of a tree, with the three kinds of new      *)
(* nodes.                                                                  *)
LEMMA StepIsInTrees ==
  ASSUME NEW R, {Null, Holder("object"), Holder("list")} \subseteq R, NEW t \in Trees(R),
         NEW p \in DOMAIN t, NEW kind \in {"object", "list"}, NEW key \in Key
  PROVE  Step(t, p, kind, key) \in Trees(R) /\ Append(p, key) \in DOMAIN Step(t, p, kind, key)
<1> DEFINE new == Step(t, p, kind, key)
<1>1. Shaped(t) /\ \A q \in DOMAIN t : t[q] \in R
  BY TreesAre
<1>2. /\ Shaped(new) /\ Append(p, key) \in DOMAIN new
      /\ \A q \in DOMAIN new : new[q] \in {Null, Holder("object"), Holder("list")}
                               \/ (q \in DOMAIN t /\ new[q] = t[q])
  BY <1>1, StepIsShaped
<1> HIDE DEF new
<1>3. \A q \in DOMAIN new : new[q] \in R
  BY <1>1, <1>2
<1>4. new \in Trees(R)
  BY <1>2, <1>3, TreesAre
<1> QED
  BY <1>2, <1>4 DEF new

(* A whole lookup leaves m's node and makes no list above m.               *)
LEMMA WalkKeeps ==
  ASSUME NEW tree, Shaped(tree), NEW m \in Seq(Key), Clean(tree, m),
         NEW path \in Seq(Key), ~IsStrictPrefix(m, path), NEW lists,
         \A i \in 1 .. Len(path) : i \in lists => ~IsPrefix(SubSeq(path, 1, i - 1), m)
  PROVE  Keeps(tree, Walk(tree, path, lists), m) /\ Clean(Walk(tree, path, lists), m)
<1> DEFINE N == Len(path)
           R == {tree[q] : q \in DOMAIN tree} \cup {Null, Holder("object"), Holder("list")}
           U == Trees(R)
           Up(t, i) == /\ t \in U /\ SubSeq(path, 1, i) \in DOMAIN t
                       /\ Clean(t, m) /\ Keeps(tree, t, m)
           G == [i \in 0 .. N |-> {t \in U : Up(t, i)}]
<1>0. /\ N \in Nat /\ \A i \in 1 .. N : path[i] \in Key
      /\ SubSeq(path, 1, 0) = <<>> /\ SubSeq(path, 1, N) = path
  BY SubSeqEmpty, SubSeqFull
<1>1. tree \in U /\ Up(tree, 0)
  <2>1. \A q \in DOMAIN tree : tree[q] \in R
    OBVIOUS
  <2> HIDE DEF R
  <2>2. tree \in U
    BY <2>1, TreesAre
  <2> QED BY <1>0, <2>2 DEF Keeps, Shaped
<1>2. ASSUME NEW i \in 1 .. N, NEW t, Up(t, i - 1)
      PROVE  Up(Stepped(t, path, lists, i), i)
  <2> DEFINE p == SubSeq(path, 1, i - 1)
             kind == IF i \in lists THEN "list" ELSE "object"
             new == Step(t, p, kind, path[i])
  <2>0. i - 1 \in 0 .. N /\ i - 1 < N
    BY <1>0
  <2>1. /\ t \in U /\ p \in DOMAIN t /\ kind \in {"object", "list"} /\ path[i] \in Key
        /\ Shaped(t) /\ Clean(t, m)
    <3> HIDE DEF R
    <3> QED BY <1>0, <1>2, TreesAre
  <2>2. p # m
    <3>1. Len(p) = i - 1 /\ p \in Seq(Key)
      <4> DEFINE j == i - 1
      <4>1. j \in 0 .. Len(path)
        BY <2>0
      <4> HIDE DEF j
      <4>2. SubSeq(path, 1, j) \in Seq(Key) /\ Len(SubSeq(path, 1, j)) = j
        BY <4>1, PrefixIs
      <4> QED BY <4>2 DEF j
    <3>2. SubSeq(path, 1, Len(p)) = p /\ Len(p) < Len(path)
      BY <3>1, <2>0
    <3>3. IsStrictPrefix(p, path)
      <4> HIDE DEF p
      <4> QED BY <3>1, <3>2, BelowIs DEF Below
    <3> QED BY <3>3
  <2>3. IsStrictPrefix(p, m) => kind = "object"
    BY DEF IsStrictPrefix
  <2>4. Append(p, path[i]) = SubSeq(path, 1, i)
    BY <1>0, PrefixStep
  <2>5. Stepped(t, path, lists, i) = new
    BY DEF Stepped
  <2> HIDE DEF p, kind
  <2>6. new \in U /\ Append(p, path[i]) \in DOMAIN new
    <3>1. {Null, Holder("object"), Holder("list")} \subseteq R
      OBVIOUS
    <3> HIDE DEF R
    <3> QED BY <3>1, <2>1, StepIsInTrees
  <2>7. Keeps(t, new, m) /\ Clean(new, m)
    BY <2>1, <2>2, <2>3, StepKeeps
  <2> HIDE DEF new, U
  <2>8. Keeps(tree, new, m)
    BY <1>2, <2>7, KeepsComposes
  <2> QED BY <2>4, <2>5, <2>6, <2>7, <2>8
<1> HIDE DEF U, R
<1>3. \A i \in 0 .. N : \A t : t \in G[i] <=> t \in U /\ Up(t, i)
  OBVIOUS
<1>4. G \in [0 .. N -> SUBSET U]
  OBVIOUS
<1>5. \A t, i : Up(t, i) => t \in U
  OBVIOUS
<1> HIDE DEF G, Up
<1>6. tree \in G[0]
  BY <1>0, <1>1, <1>3
<1>7. \A i \in 1 .. N : \A x \in G[i - 1] : Stepped(x, path, lists, i) \in G[i]
  <2> SUFFICES ASSUME NEW i \in 1 .. N, NEW x \in G[i - 1]
               PROVE  Stepped(x, path, lists, i) \in G[i]
    OBVIOUS
  <2>1. i - 1 \in 0 .. N /\ i \in 0 .. N
    BY <1>0
  <2>2. Up(x, i - 1)
    BY <2>1, <1>3
  <2>3. Up(Stepped(x, path, lists, i), i)
    BY <2>2, <1>2
  <2> QED BY <2>1, <2>3, <1>3, <1>5
<1>8. Walk(tree, path, lists) \in G[N]
  BY <1>0, <1>4, <1>6, <1>7, WalkIsIn
<1>9. Up(Walk(tree, path, lists), N)
  BY <1>0, <1>3, <1>8
<1> QED
  BY <1>9 DEF Up

-----------------------------------------------------------------------------
(***************************************************************************)
(* What the symbol cache says of a plain variable, once a part of its name *)
(* has been looked up: it has an entry, and so has the part.               *)
(***************************************************************************)
LEMMA SymbolAbove ==
  ASSUME NEW n \in Node
  PROVE  \E s : IsSymbol(s) /\ IsPrefix(s, n)
<1> DEFINE Has(x) == \E s : IsSymbol(s) /\ IsPrefix(s, x)
           Up(k) == \A x \in Node : Len(x) <= k => Has(x)
           P == {k \in 0 .. Len(n) : Up(k)}
<1>0. \A x \in Node : /\ x \in Seq(DOMAIN Lower) /\ x # <<>> /\ Len(x) \in Nat \ {0}
                      /\ ~IsSymbol(x) => Front(x) \in Node
  BY NodeNames, NamesAreKeys
<1>1. 0 \in P
  BY <1>0
<1>2. ASSUME NEW k \in 1 .. Len(n), k - 1 \in P PROVE k \in P
  <2> SUFFICES ASSUME NEW x \in Node, Len(x) <= k PROVE Has(x)
    BY <1>0
  <2>1. CASE IsSymbol(x)
    <3>1. IsPrefix(x, x)
      BY <1>0, PrefixesAre
    <3> QED BY <2>1, <3>1
  <2>2. CASE ~IsSymbol(x)
    <3>1. Front(x) \in Node /\ Len(Front(x)) = Len(x) - 1
      BY <1>0, <2>2, Fronts
    <3>2. PICK s : IsSymbol(s) /\ IsPrefix(s, Front(x))
      BY <3>1, <1>2, <1>0
    <3>3. IsPrefix(Front(x), x)
      <4> DEFINE j == Len(x) - 1
      <4>1. j \in 0 .. Len(x)
        BY <1>0
      <4> HIDE DEF j
      <4>2. IsPrefix(SubSeq(x, 1, j), x)
        BY <4>1, <1>0, PrefixOfItself
      <4> QED BY <4>2 DEF j, Front
    <3>4. s \in Seq(DOMAIN Lower)
      BY <3>2, <1>0, SymbolsAreNodes
    <3>5. IsPrefix(s, x)
      BY <3>1, <3>2, <3>3, <3>4, <1>0, PrefixComposes
    <3> QED BY <3>2, <3>5
  <2> QED BY <2>1, <2>2
<1>3. 0 .. Len(n) \subseteq P
  <2> HIDE DEF P
  <2> QED BY <1>0, <1>1, <1>2, InductionTo
<1> QED
  BY <1>0, <1>3

(* What it takes for a name to be on the way to a plain variable.          *)
LEMMA PlainIs ==
  ASSUME NEW m \in Cell, Plain(m)
  PROVE  /\ m \in Node /\ m \in Name /\ m \notin Property /\ Apart(m)
         /\ \A d \in Node : ~Below(d, m)
         /\ \A n \in Named : ~Below(n, m) /\ (Names(n, m) => IsPrefix(n, m))
                             /\ (IsPrefix(n, m) => n \in Node)
         /\ \A n \in Property : ~IsPrefix(n, m) /\ ~Below(n, m)
<1>1. m \in Node /\ m \notin Property /\ \A d \in Node : ~Below(d, m)
  BY DEF Cell
<1>2. m \in Name
  BY <1>1, NodeNames
<1> QED
  BY <1>1, <1>2, PropertyIsName DEF Plain, Apart

(* A lookup of n, on the way to a plain variable m, starts at the right    *)
(* symbol and takes in m.                                                  *)
LEMMA PlainReaches ==
  ASSUME NEW m \in Cell, Plain(m), NEW n \in Node, IsPrefix(n, m)
  PROVE  /\ SymbolsFor(n) # {} /\ Reached(n)
         /\ m = SymbolFor(n) \/ Below(m, SymbolFor(n))
         /\ n = SymbolFor(n) \/ Below(n, SymbolFor(n))
         /\ Related(m, n) /\ Related(n, n)
<1>0. /\ m \in Node /\ m \in Name /\ n \in Name
      /\ m \in Seq(DOMAIN Lower) /\ n \in Seq(DOMAIN Lower)
  BY PlainIs, NodeNames, NamesAreKeys
<1>1. ASSUME NEW s, IsSymbol(s), IsPrefix(s, m)
      PROVE  /\ s \in Name /\ s \in Seq(DOMAIN Lower) /\ StartsWith(m, s)
             /\ m = s \/ Below(m, s)
             /\ SymbolsFor(m) # {}
  <2>1. s \in Name /\ s \in Seq(DOMAIN Lower)
    BY <1>1, SymbolsAreNodes, NodeNames, NamesAreKeys
  <2>2. m = s \/ Below(m, s)
    BY <2>1, <1>0, <1>1, PrefixesAre
  <2>3. StartsWith(m, s)
    BY <2>1, <2>2, <1>0, BelowStarts
  <2>4. PICK i \in DOMAIN Symbols : s = Symbols[i]
    BY <1>1 DEF IsSymbol, ToSet
  <2>5. i \in SymbolsFor(m)
    BY <2>3, <2>4 DEF SymbolsFor, ToLower
  <2> QED BY <2>1, <2>2, <2>3, <2>5
<1>2. PICK s : IsSymbol(s) /\ IsPrefix(s, n)
  BY SymbolAbove
<1>3. s \in Seq(DOMAIN Lower) /\ s \in Name
  BY <1>2, SymbolsAreNodes, NodeNames, NamesAreKeys
<1>4. IsPrefix(s, m)
  BY <1>0, <1>2, <1>3, PrefixComposes
<1>5. IsSymbol(SymbolOf(m)) /\ IsPrefix(SymbolOf(m), m)
  BY <1>2, <1>4 DEF SymbolOf, IsSymbol
<1> DEFINE t == SymbolOf(m)
<1>6. t \in Seq(DOMAIN Lower) /\ t \in Name
  BY <1>5, <1>1
<1>7. s = t
  <2> HIDE DEF t
  <2>0. IsSymbol(t) /\ IsPrefix(t, m)
    BY <1>5 DEF t
  <2>1. Len(s) \in Nat /\ Len(t) \in Nat
    BY <1>3, <1>6
  <2>2. IsPrefix(s, t) \/ IsPrefix(t, s)
    BY <2>0, <2>1, <1>0, <1>3, <1>4, <1>6, PrefixesCompare
  <2>3. s = t \/ Below(t, s) \/ Below(s, t)
    BY <2>2, <1>3, <1>6, PrefixesAre
  <2> QED BY <2>0, <2>3, <1>2, NodeIsTree DEF Below, IsSymbol
<1>8. SymbolFor(m) = s
  BY <1>7 DEF Plain, SymbolFor
<1>9. SymbolsFor(m) # {}
  BY <1>2, <1>4, <1>1
<1>10. n = s \/ Below(n, s)
  BY <1>0, <1>2, <1>3, PrefixesAre
<1>11. m = n \/ Below(m, n)
  BY <1>0, PrefixesAre
<1>12. StartsWith(m, n)
  BY <1>0, <1>11, BelowStarts
<1>13. Reached(n)
  BY <1>0, <1>8, <1>9, <1>10, <1>12, OnTheWayIsReached
<1>14. SymbolsFor(n) # {} /\ (n = SymbolFor(n) \/ Below(n, SymbolFor(n)))
  BY <1>13 DEF Reached
<1>15. m = SymbolFor(n) \/ Below(m, SymbolFor(n))
  <2>1. SymbolFor(n) \in Name
    BY <1>0, <1>14, SymbolForIs
  <2> QED BY <2>1, <1>0, <1>11, <1>14, BelowBelow
<1>16. Related(m, n) /\ Related(n, n)
  <2>1. StartsWith(n, n)
    BY <1>0, BelowStarts
  <2> QED BY <2>1, <1>12 DEF Related
<1> QED
  BY <1>13, <1>14, <1>15, <1>16

(* No entry is below m, and what is not looked up again has been found.    *)
Clear(info, m) ==
  \A n \in DOMAIN info : /\ ~Below(n, m)
                         /\ info[n].cacheComplete => info[n].found

(* The entries that were found stay.                                       *)
Grows(info, new) ==
  \A n \in DOMAIN info : n \in DOMAIN new /\ (info[n].found => new[n].found)

(* The entries of n, on the way to m, and of m.                            *)
Finds(info, n, m) ==
  IsPrefix(n, m) /\ n \in Node => n \in DOMAIN info /\ info[n].found /\ m \in DOMAIN info

(* Growth is transitive, and keeps what was found.                         *)
LEMMA GrowsComposes ==
  /\ \A a, b, c : Grows(a, b) /\ Grows(b, c) => Grows(a, c)
  /\ \A a, b, n, m : Grows(a, b) /\ Finds(a, n, m) => Finds(b, n, m)
  /\ \A a : Grows(a, a)
BY DEF Grows, Finds

(* The entries made for an unknown name are not below m.                   *)
LEMMA MadeIsClear ==
  ASSUME NEW m \in Name, NEW info, Clear(info, m), NEW n \in Name, ~Below(n, m)
  PROVE  Clear(Made(info, n), m) /\ Grows(info, Made(info, n))
<1> DEFINE new == Made(info, n)
           within == {SubSeq(n, 1, i) : i \in DOMAIN n}
<1>1. /\ DOMAIN new = DOMAIN info \cup within
      /\ \A x \in DOMAIN info : new[x] = info[x]
      /\ \A x \in within : x \notin DOMAIN info => new[x] = Unknown
  BY DEF Made
<1>2. ASSUME NEW x \in within PROVE ~Below(x, m)
  <2> SUFFICES ASSUME Below(x, m) PROVE FALSE
    OBVIOUS
  <2>1. PICK i \in DOMAIN n : x = SubSeq(n, 1, i)
    OBVIOUS
  <2>2. n \in Seq(DOMAIN Lower) /\ Len(n) \in Nat /\ i \in 1 .. Len(n) /\ i \in 0 .. Len(n)
    BY NamesAreKeys
  <2>3. x \in Seq(DOMAIN Lower) /\ Len(x) = i
    BY <2>1, <2>2, PrefixIs
  <2>4. IsPrefix(x, n)
    BY <2>1, <2>2, PrefixOfItself
  <2>5. n = x \/ Below(n, x)
    BY <2>2, <2>3, <2>4, PrefixesAre
  <2>6. x \in Name
    BY <2>2, <2>3 DEF Name
  <2> QED BY <2>5, <2>6, BelowBelow
<1> HIDE DEF new, within
<1>3. Unknown.cacheComplete = FALSE
  BY DEF Unknown
<1>4. Clear(new, m)
  BY <1>1, <1>2, <1>3 DEF Clear
<1>5. Grows(info, new)
  BY <1>1 DEF Grows
<1> QED
  BY <1>4, <1>5 DEF new

(* Setting another flag of an entry changes nothing of this.               *)
LEMMA FlagIsClear ==
  ASSUME NEW m, NEW info, Clear(info, m), NEW n \in DOMAIN info, NEW e,
         e.found = info[n].found, e.cacheComplete = info[n].cacheComplete
  PROVE  Clear([info EXCEPT ![n] = e], m) /\ Grows(info, [info EXCEPT ![n] = e])
BY DEF Clear, Grows

(* cacheSymbolInfo makes no entry below a variable, and loses none.        *)
LEMMA CachedIsClear ==
  ASSUME NEW m \in Cell, NEW info, SoundCache(info), Clear(info, m), NEW n \in Name,
         NEW s, IsSymbol(s)
  PROVE  LET new == CacheSymbolInfo(WholeTables, info, n, s)
         IN  /\ Clear(new, m) /\ Grows(info, new)
             /\ \A v \in Node : (v = s \/ Below(v, s)) /\ Related(v, n)
                                  => v \in DOMAIN new /\ new[v].found
<1> DEFINE new == CacheSymbolInfo(WholeTables, info, n, s)
           visited == {s} \cup {v \in Node : WholeTables.datatypes /\ Below(v, s) /\ Related(v, n)}
           made == Made(info, s)
           Old(v) == IF v \in DOMAIN info THEN info[v] ELSE Unknown
<1>0. s \in Node /\ s \in Name /\ m \in Name /\ \A v \in Node : ~Below(v, m)
  BY SymbolsAreNodes, NodeNames DEF Cell
<1>1. Clear(made, m) /\ Grows(info, made)
  BY <1>0, MadeIsClear
<1>2. /\ DOMAIN new = DOMAIN made \cup visited
      /\ \A v \in visited : new[v] = [Old(v) EXCEPT !.found = TRUE, !.address = CachedAddress(v),
                                        !.cacheComplete = WholeTables.datatypes /\ NothingSkipped(v, n)]
      /\ \A v \in DOMAIN made : v \notin visited => new[v] = made[v]
  BY DEF CacheSymbolInfo
<1>3. \A v \in visited : Old(v) \in Entry
  <2>1. Unknown \in Entry
    BY DEF Unknown, Entry
  <2>2. \A v \in DOMAIN info : info[v] \in Entry
    BY CacheIs DEF SoundCache
  <2> QED BY <2>1, <2>2
<1> HIDE DEF Old, made
<1>4. ASSUME NEW v \in visited PROVE new[v].found = TRUE
  <2> DEFINE e == Old(v)
  <2>1. e \in Entry
    BY <1>3
  <2>2. new[v] = [e EXCEPT !.found = TRUE, !.address = CachedAddress(v),
                    !.cacheComplete = WholeTables.datatypes /\ NothingSkipped(v, n)]
    BY <1>2
  <2> HIDE DEF e, new, visited
  <2>3. DOMAIN e = {"found", "address", "cacheComplete", "notFound", "handle", "readFail"}
    BY <2>1 DEF Entry
  <2> QED BY <2>2, <2>3
<1>5. visited \subseteq Node
  BY <1>0
<1>6. \A v \in Node : (v = s \/ Below(v, s)) /\ Related(v, n) => v \in visited
  BY DEF WholeTables
<1> HIDE DEF new, visited
<1>7. Clear(new, m)
  BY <1>0, <1>1, <1>2, <1>4, <1>5 DEF Clear
<1>8. Grows(info, new)
  BY <1>1, <1>2, <1>4 DEF Grows
<1>9. \A v \in Node : (v = s \/ Below(v, s)) /\ Related(v, n) => v \in DOMAIN new /\ new[v].found
  BY <1>2, <1>4, <1>6
<1> QED
  BY <1>7, <1>8, <1>9 DEF new

(* findInfo of a name on the way to m finds it, and m with it.             *)
LEMMA FindInfoIsClear ==
  ASSUME NEW m \in Cell, Plain(m), NEW info, SoundCache(info), Noted(WholeTables, info),
         Clear(info, m), NEW n \in Name, ~Below(n, m)
  PROVE  LET new == FindInfo(WholeTables, info, n)
         IN  Clear(new, m) /\ Grows(info, new) /\ Finds(new, n, m)
<1> DEFINE made == Made(info, n)
           hits == SymbolsFor(n)
           new  == FindInfo(WholeTables, info, n)
<1>0. WholeTables.symbols = TRUE /\ m \in Name /\ m \in Node
  BY PlainIs DEF WholeTables
<1>1. /\ SoundCache(made) /\ n \in DOMAIN made
      /\ Noted(WholeTables, made)
      /\ Clear(made, m) /\ Grows(info, made)
  BY <1>0, MadeIsSound, MadeIsNoted, MadeIsClear
<1>2. ASSUME IsPrefix(n, m), n \in Node
      PROVE  /\ hits # {} /\ ~made[n].notFound
             /\ m = n \/ Below(m, n)
  <2>1. hits # {}
    BY <1>2, PlainReaches
  <2>2. ~made[n].notFound
    BY <2>1, <1>0, <1>1 DEF Noted
  <2>3. m \in Seq(DOMAIN Lower) /\ n \in Seq(DOMAIN Lower)
    BY <1>0, NamesAreKeys
  <2>4. m = n \/ Below(m, n)
    BY <2>3, <1>2, PrefixesAre
  <2> QED BY <2>1, <2>2, <2>4
<1>3. CASE made[n].cacheComplete \/ made[n].notFound
  <2>1. new = made
    BY <1>3 DEF FindInfo
  <2>2. Finds(made, n, m)
    BY <1>0, <1>1, <1>2, <1>3 DEF Clear, Finds, SoundCache, Entire
  <2> QED BY <2>1, <2>2, <1>1
<1>4. CASE ~(made[n].cacheComplete \/ made[n].notFound) /\ hits = {}
  <2> DEFINE e == [made[n] EXCEPT !.notFound = TRUE]
  <2>1. new = [made EXCEPT ![n] = e]
    BY <1>0, <1>4 DEF FindInfo
  <2>2. e.found = made[n].found /\ e.cacheComplete = made[n].cacheComplete
    <3>1. made[n] \in Entry
      BY <1>1, CacheIs DEF SoundCache
    <3> QED BY <3>1 DEF Entry
  <2> HIDE DEF made, e, new
  <2>3. Clear(new, m) /\ Grows(made, new)
    BY <1>1, <2>1, <2>2, FlagIsClear
  <2>4. Finds(new, n, m)
    BY <1>2, <1>4 DEF Finds
  <2> QED BY <1>1, <2>3, <2>4, GrowsComposes DEF new
<1>5. CASE ~(made[n].cacheComplete \/ made[n].notFound) /\ hits # {}
  <2> DEFINE s == SymbolFor(n)
  <2>1. new = CacheSymbolInfo(WholeTables, made, n, s)
    BY <1>0, <1>5 DEF FindInfo, SymbolFor
  <2>2. IsSymbol(s)
    BY <1>5, SymbolForIs
  <2> HIDE DEF made, new, s
  <2>3. /\ Clear(new, m) /\ Grows(made, new)
        /\ \A v \in Node : (v = s \/ Below(v, s)) /\ Related(v, n)
                             => v \in DOMAIN new /\ new[v].found
    BY <1>1, <2>1, <2>2, CachedIsClear
  <2>4. Finds(new, n, m)
    <3> SUFFICES ASSUME IsPrefix(n, m), n \in Node
                 PROVE  n \in DOMAIN new /\ new[n].found /\ m \in DOMAIN new
      BY DEF Finds
    <3>1. /\ m = s \/ Below(m, s)
          /\ n = s \/ Below(n, s)
          /\ Related(m, n) /\ Related(n, n)
      BY PlainReaches DEF s
    <3> QED BY <3>1, <2>3, <1>0
  <2> QED BY <1>1, <2>3, <2>4, GrowsComposes DEF new
<1> QED
  BY <1>3, <1>4, <1>5

(* The same with the handle that may be asked for.                         *)
LEMMA GrantedIsClear ==
  ASSUME NEW m \in Cell, Plain(m), NEW info, SoundCache(info), Noted(WholeTables, info),
         Clear(info, m), NEW n \in Name, ~Below(n, m), NEW granted,
         parsedSymbols = WholeTables
  PROVE  LET new == Granted(info, n, granted)
         IN  Clear(new, m) /\ Grows(info, new) /\ Finds(new, n, m)
<1> DEFINE found == FindInfo(WholeTables, info, n)
           new   == Granted(info, n, granted)
<1>1. /\ SoundCache(found) /\ n \in DOMAIN found
      /\ Clear(found, m) /\ Grows(info, found) /\ Finds(found, n, m)
  <2>1. WholeTables \in Tables
    BY DEF WholeTables, Tables
  <2>2. SoundCache(found) /\ n \in DOMAIN found
    BY <2>1, FindInfoIsSound
  <2> QED BY <2>2, FindInfoIsClear
<1>2. new = found \/ new = [found EXCEPT ![n].handle = TRUE]
  BY DEF Granted
<1>3. CASE new = found
  BY <1>1, <1>3
<1>4. CASE new = [found EXCEPT ![n].handle = TRUE]
  <2> DEFINE e == [found[n] EXCEPT !.handle = TRUE]
  <2>1. new = [found EXCEPT ![n] = e]
    BY <1>4
  <2>2. e.found = found[n].found /\ e.cacheComplete = found[n].cacheComplete
    <3>1. found[n] \in Entry
      BY <1>1, CacheIs DEF SoundCache
    <3> QED BY <3>1 DEF Entry
  <2> HIDE DEF found, e, new
  <2>3. PICK flagged : flagged = e
    OBVIOUS
  <2>4. Clear([found EXCEPT ![n] = flagged], m) /\ Grows(found, [found EXCEPT ![n] = flagged])
    BY <1>1, <2>2, <2>3, FlagIsClear
  <2>5. PICK flag : flag = new
    OBVIOUS
  <2>6. Clear(flag, m) /\ Grows(found, flag)
    BY <2>1, <2>3, <2>4, <2>5
  <2>7. Grows(info, flag) /\ Finds(flag, n, m)
    BY <2>6, <1>1, GrowsComposes
  <2> QED BY <2>5, <2>6, <2>7 DEF new
<1> QED
  BY <1>2, <1>3, <1>4

(* The same for a list of names, all of which are found in the end.        *)
LEMMA LookedIsClear ==
  ASSUME NEW m \in Cell, Plain(m), NEW info, SoundCache(info), Noted(WholeTables, info),
         Clear(info, m), NEW names \in Seq(Name), \A n \in ToSet(names) : ~Below(n, m),
         NEW granted, parsedSymbols = WholeTables
  PROVE  LET new == Looked(info, names, granted)
         IN  Clear(new, m) /\ Grows(info, new) /\ \A n \in ToSet(names) : Finds(new, n, m)
<1> DEFINE U == {c \in Caches : /\ SoundCache(c) /\ Noted(WholeTables, c)
                                /\ Clear(c, m) /\ Grows(info, c)}
           G == [i \in 0 .. Len(names) |-> {c \in U : \A j \in 1 .. i : Finds(c, names[j], m)}]
<1>0. /\ Len(names) \in Nat
      /\ \A i \in 1 .. Len(names) : names[i] \in Name /\ ~Below(names[i], m)
      /\ parsedSymbols \in Tables
  <2>1. \A i \in 1 .. Len(names) : names[i] \in ToSet(names)
    BY DEF ToSet
  <2>2. WholeTables \in Tables
    BY DEF WholeTables, Tables
  <2> QED BY <2>1, <2>2
<1>1. info \in U
  BY GrowsComposes DEF SoundCache
<1>2. ASSUME NEW c \in U, NEW n \in Name, ~Below(n, m)
      PROVE  LET new == Granted(c, n, granted)
             IN  new \in U /\ Grows(c, new) /\ Finds(new, n, m)
  <2>1. SoundCache(c) /\ Noted(WholeTables, c) /\ Clear(c, m) /\ Grows(info, c)
    OBVIOUS
  <2> DEFINE new == Granted(c, n, granted)
  <2>2. SoundCache(new)
    BY <2>1, <1>0, GrantedIsSound
  <2>3. Noted(WholeTables, new)
    <3>1. Noted(parsedSymbols, c)
      BY <2>1
    <3>2. Noted(parsedSymbols, new)
      BY <3>1, <2>1, <1>0, GrantedIsNoted
    <3> QED BY <3>2
  <2>4. Clear(new, m) /\ Grows(c, new) /\ Finds(new, n, m)
    BY <2>1, <1>2, GrantedIsClear
  <2> HIDE DEF new
  <2>5. PICK x : x = new
    OBVIOUS
  <2>6. Grows(info, x)
    BY <2>1, <2>4, <2>5, GrowsComposes
  <2>7. new \in U
    BY <2>2, <2>3, <2>4, <2>5, <2>6 DEF SoundCache
  <2> QED BY <2>4, <2>7 DEF new
<1> HIDE DEF U
<1>4. \A i \in 0 .. Len(names) : G[i] = {c \in U : \A j \in 1 .. i : Finds(c, names[j], m)}
  OBVIOUS
<1>5. G \in [0 .. Len(names) -> SUBSET U] /\ info \in G[0]
  BY <1>0, <1>1
<1> HIDE DEF G
<1>6. \A i \in 1 .. Len(names) : \A c \in G[i - 1] : Granted(c, names[i], granted) \in G[i]
  <2> SUFFICES ASSUME NEW i \in 1 .. Len(names), NEW c \in G[i - 1]
               PROVE  Granted(c, names[i], granted) \in G[i]
    OBVIOUS
  <2>1. c \in U /\ names[i] \in Name /\ ~Below(names[i], m)
        /\ \A j \in 1 .. i - 1 : Finds(c, names[j], m)
    BY <1>0, <1>4
  <2>2. PICK new : new = Granted(c, names[i], granted)
    OBVIOUS
  <2>3. new \in U /\ Grows(c, new) /\ Finds(new, names[i], m)
    BY <2>1, <2>2, <1>2
  <2>4. \A j \in 1 .. i - 1 : Finds(new, names[j], m)
    BY <2>1, <2>3, GrowsComposes
  <2>5. \A j \in 1 .. i : Finds(new, names[j], m)
    <3>1. \A j \in 1 .. i : j \in 1 .. i - 1 \/ j = i
      BY <1>0
    <3> QED BY <3>1, <2>3, <2>4
  <2>6. i \in 0 .. Len(names)
    BY <1>0
  <2> QED BY <2>2, <2>3, <2>5, <2>6, <1>4
<1>7. Looked(info, names, granted) \in G[Len(names)]
  BY <1>5, <1>6, LookedIsIn
<1>8. PICK new : new = Looked(info, names, granted)
  OBVIOUS
<1>9. new \in U /\ \A j \in 1 .. Len(names) : Finds(new, names[j], m)
  <2>1. Len(names) \in 0 .. Len(names)
    BY <1>0
  <2> QED BY <2>1, <1>4, <1>7, <1>8
<1>10. \A n \in ToSet(names) : Finds(new, n, m)
  BY <1>9 DEF ToSet
<1>11. Clear(new, m) /\ Grows(info, new)
  BY <1>9 DEF U
<1> QED
  BY <1>8, <1>10, <1>11

-----------------------------------------------------------------------------
(***************************************************************************)
(* The steps of the threads, as far as a plain variable m is concerned.    *)
(***************************************************************************)
(* m's value is in the tree, and no older than stamp; or it has just been  *)
(* reset, because it is the one that is being assigned.                    *)
Shown(tree, path, m, stamp) ==
  /\ m \in DOMAIN tree
  /\ \/ /\ tree[m].kind = "number"
        /\ tree[m].value.cell = m
        /\ tree[m].value.stamp \in Nat /\ tree[m].value.stamp >= stamp
     \/ tree[m].kind = "null" /\ path = m

(* What is shown stays as long as the node does.                           *)
LEMMA ShownKept ==
  ASSUME NEW tree, NEW new, NEW m, Keeps(tree, new, m), NEW path, NEW next,
         path = m => next = m, NEW stamp, Shown(tree, path, m, stamp)
  PROVE  Shown(new, next, m, stamp)
BY DEF Keeps, Shown

(* A value that is not older than b is not older than what came before b.  *)
LEMMA ShownLonger ==
  ASSUME NEW tree, NEW path, NEW m, NEW a \in Nat, NEW b \in Nat, a <= b,
         Shown(tree, path, m, b)
  PROVE  Shown(tree, path, m, a)
BY DEF Shown

(* Looking up a client's name, which is not below m, leaves m's node.      *)
LEMMA NameWalkKeeps ==
  ASSUME NEW m, Apart(m), NEW tree, Shaped(tree), Clean(tree, m), NEW n \in Name, ~Below(n, m)
  PROVE  /\ Keeps(tree, FindValue(tree, n), m) /\ Clean(FindValue(tree, n), m)
         /\ Shaped(FindValue(tree, n)) /\ n \in DOMAIN FindValue(tree, n)
<1>1. n \in Seq(Key) /\ m \in Seq(Key)
  BY NamesAreKeys DEF Apart
<1>2. ~IsStrictPrefix(m, n)
  BY DEF Below
<1>3. FindValue(tree, n) = Walk(tree, n, {})
  BY DEF FindValue, ToLower
<1>4. Keeps(tree, Walk(tree, n, {}), m) /\ Clean(Walk(tree, n, {}), m)
  BY <1>1, <1>2, WalkKeeps
<1>5. Shaped(FindValue(tree, n)) /\ n \in DOMAIN FindValue(tree, n)
  BY ValueLookedUp DEF ToLower
<1> QED
  BY <1>3, <1>4, <1>5

(* The place of a leaf r of n, to be parsed, and m.                        *)
LEMMA LeafPlace ==
  ASSUME NEW m, Apart(m), NEW n \in Name, NEW r \in Name, r = n \/ Below(r, n),
         ~Below(r, m), ~IsStrictPrefix(r, m)
  PROVE  /\ DataPath(n, r) = m <=> r = m
         /\ ~IsStrictPrefix(DataPath(n, r), m) /\ ~IsStrictPrefix(m, DataPath(n, r))
<1> DEFINE path == DataPath(n, r)
<1>0. /\ m \in Name /\ m \in Seq(Key) /\ n \in Seq(DOMAIN Lower) /\ r \in Seq(DOMAIN Lower)
      /\ m \in Seq(DOMAIN Lower) /\ path \in Seq(Key)
  BY NamesAreKeys, DataPathIs DEF Apart
<1>1. IsPrefix(m, path) => r = m
  BY DataPathMeets
<1>2. IsPrefix(path, m) => path = r
  BY DataPathMeets
<1>3. r = m => path = m
  <2>1. IsPrefix(n, r)
    BY <1>0, PrefixesAre
  <2> QED BY <2>1, DataPathToSelf
<1> HIDE DEF path
<1>4. path = m => r = m
  <2>1. IsPrefix(m, m)
    BY <1>0, PrefixesAre
  <2> QED BY <2>1, <1>1
<1>5. ~IsStrictPrefix(path, m)
  <2> SUFFICES ASSUME IsStrictPrefix(path, m) PROVE FALSE
    OBVIOUS
  <2>1. IsPrefix(path, m)
    BY <1>0, PrefixesAre DEF Below
  <2> QED BY <2>1, <1>2
<1>6. ~IsStrictPrefix(m, path)
  <2> SUFFICES ASSUME IsStrictPrefix(m, path) PROVE FALSE
    OBVIOUS
  <2>1. IsPrefix(m, path)
    BY <1>0, PrefixesAre DEF Below
  <2>2. path = m
    BY <2>1, <1>1, <1>3
  <2> QED BY <2>2 DEF IsStrictPrefix
<1> QED
  BY <1>3, <1>4, <1>5, <1>6 DEF path

(* Resetting a leaf leaves m's node unless the leaf is m.                  *)
LEMMA LeafKeeps ==
  ASSUME NEW m, Apart(m), NEW tree, Shaped(tree), Clean(tree, m),
         NEW n \in Name, NEW r \in Name, r = n \/ Below(r, n),
         ~Below(r, m), ~IsStrictPrefix(r, m)
  PROVE  LET new == SetNode(ReachMember(tree, n, r), DataPath(n, r), Null)
         IN  /\ Clean(new, m)
             /\ r # m => Keeps(tree, new, m)
             /\ r = m => m \in DOMAIN new /\ new[m] = Null
<1> DEFINE path  == DataPath(n, r)
           lists == {i \in Len(n) + 1 .. Len(r) : SubSeq(r, 1, i - 1) \in Array}
           t     == ReachMember(tree, n, r)
           new   == SetNode(t, path, Null)
<1>0. m \in Seq(Key) /\ path \in Seq(Key)
  BY NamesAreKeys, DataPathIs DEF Apart
<1>1. (path = m <=> r = m) /\ ~IsStrictPrefix(path, m) /\ ~IsStrictPrefix(m, path)
  BY LeafPlace
<1>2. \A i \in 1 .. Len(path) : i \in lists => ~IsPrefix(SubSeq(path, 1, i - 1), m)
  BY DataPathMeets
<1>3. t = Walk(tree, path, lists)
  BY DEF ReachMember
<1> HIDE DEF path, lists, t
<1>4. /\ Keeps(tree, t, m) /\ Clean(t, m)
      /\ Shaped(t) /\ path \in DOMAIN t
  BY <1>0, <1>1, <1>2, <1>3, WalkKeeps, WalkIsShaped
<1>5. Clean(new, m) /\ (path # m => Keeps(t, new, m))
  <2>1. CASE path # m
    <3>1. PICK node : node = Null
      OBVIOUS
    <3>2. Clean(SetNode(t, path, node), m) /\ Keeps(t, SetNode(t, path, node), m)
      BY <2>1, <1>1, <1>4, SetNodeKeeps
    <3> QED BY <3>1, <3>2
  <2>2. CASE path = m
    <3>1. \A q \in DOMAIN new : q # m => q \in DOMAIN t /\ new[q] = t[q]
      BY <2>2 DEF SetNode
    <3>2. \A q : IsStrictPrefix(q, m) => q # m
      BY DEF IsStrictPrefix
    <3> QED BY <3>1, <3>2, <2>2, <1>4 DEF Clean
  <2> QED BY <2>1, <2>2
<1>6. path \in DOMAIN new /\ new[path] = Null
  BY DEF SetNode
<1> HIDE DEF new
<1>7. r # m => Keeps(tree, new, m)
  BY <1>1, <1>4, <1>5, KeepsComposes
<1> QED
  BY <1>1, <1>5, <1>6, <1>7 DEF new, t, path

-----------------------------------------------------------------------------
(***************************************************************************)
(* The invariant about m.  A request asks for m if it names m or what m is *)
(* part of.                                                                *)
(***************************************************************************)
Asks(r, m) == \E k \in ToSet(r.keys) : IsPrefix(k, m)

(* The names of commands; one that reads m reads it at the right address.  *)
Reads(c, m) == c = [name |-> c.name, by |-> "address", valid |-> TRUE,
                    address |-> Address[c.name]]

Aiming(info, commands, m) ==
  \A i \in 1 .. Len(commands) :
    /\ commands[i].name \in Named \cup Property
    /\ IsPrefix(commands[i].name, m) => Reads(commands[i], m) /\ m \in DOMAIN info

(* Who asks for m has a command that reads it.                             *)
Covered(now, m) ==
  \A r \in now.batch : Asks(r, m) =>
    \E i \in 1 .. Len(now.commands) : IsPrefix(now.commands[i].name, m)

(* The value being assigned is that of its place.                          *)
Stepping(tree, now, m) ==
  /\ now.pdata = now.at
  /\ now.pc = "read" => now.at = 1
  /\ now.pc # "assign" => now.path = <<>>
  /\ now.pc = "assign" => /\ ~IsStrictPrefix(now.path, m)
                          /\ now.path = m => /\ m \in DOMAIN tree
                                             /\ now.value = [cell |-> m, stamp |-> now.buffer[m]]
  /\ now.pc \in {"parse", "assign"} => \A r \in now.leaves : ~IsStrictPrefix(r, m)
  /\ now.pc = "done" => \A r \in now.batch : r.failed

Busy(now) == now.pc \in {"store", "parse", "assign"}

(* The commands that read m, and have been gone through, have stored it.   *)
Passed(now, i, m) == i < now.at \/ (i = now.at /\ now.pc # "store" /\ m \notin now.leaves)

StoredSo(tree, now, m) ==
  Busy(now) => \A i \in 1 .. Len(now.commands) :
    IsPrefix(now.commands[i].name, m) /\ Passed(now, i, m)
      => Shown(tree, now.path, m, now.buffer[m])

(* The requests that are, or will be, answered from the tree.              *)
Awaiting(done, taken) ==
  done \cup {taken[p].request : p \in {q \in Responders : taken[q] # None}}

(* What was read is not older than the requests.                           *)
Timely(mem, asking, now, awaited, m) ==
  /\ \A r \in asking \cup now.batch \cup awaited : r.since[m] <= mem[m]
  /\ Busy(now) => /\ now.buffer[m] \in Nat
                  /\ \A r \in now.batch \cup awaited : r.since[m] <= now.buffer[m]

Answerable(tree, path, awaited, m) ==
  \A r \in awaited : Asks(r, m) /\ ~r.failed => Shown(tree, path, m, r.since[m])

ToldSo(taken, m) ==
  \A p \in Responders : taken[p] # None /\ ~taken[p].request.failed =>
    \A i \in 1 .. Len(taken[p].got) :
      IsPrefix(taken[p].request.keys[i], m)
        => FreshIn(taken[p].got[i], taken[p].request.keys[i], m, taken[p].request.since)

Followed(m) ==
  /\ Clear(symbolInfo, m) /\ Aiming(symbolInfo, server.commands, m)
  /\ Clean(symbolData, m)
  /\ Covered(server, m)
  /\ Stepping(symbolData, server, m)
  /\ StoredSo(symbolData, server, m)
  /\ Timely(memory, pending, server, Awaiting(queue, response), m)
  /\ Answerable(symbolData, server.path, Awaiting(queue, response), m)
  /\ ToldSo(response, m)

(* What the steps go by.                                                   *)
Following(m) ==
  /\ SourceSound /\ Noted(parsedSymbols, symbolInfo)
  /\ parsedSymbols = WholeTables
  /\ Followed(m)

(* The times that requests keep, and those of the PLC, are numbers.        *)
LEMMA Requested ==
  ASSUME SourceSound, NEW m \in Stored
  PROVE  /\ memory[m] \in Nat
         /\ \A r \in pending \cup server.batch \cup Awaiting(queue, response) :
              r \in Requests /\ r.since[m] \in Nat /\ r.keys \in KeyLists
<1>1. memory[m] \in Nat
  BY DEF SourceSound, CachesSound
<1>2. \A r \in pending \cup server.batch \cup Awaiting(queue, response) : r \in Requests
  BY DEF SourceSound, RequestsKept, ServerPlaced, ResponsesPlaced, ResponsePlaced, Awaiting
<1>3. \A r \in Requests : r.since[m] \in Nat /\ r.keys \in KeyLists
  BY DEF Requests
<1> QED
  BY <1>1, <1>2, <1>3

(* A cycle only makes the values of the PLC newer.                         *)
LEMMA FollowPlcCycle ==
  ASSUME NEW m \in Cell, Plain(m), Following(m), PlcCycle, UNCHANGED parsedSymbols
  PROVE  Followed(m)'
<1>1. m \in Stored
  BY DEF Stored
<1>2. /\ UNCHANGED <<symbolInfo, symbolData, pending, queue, server, response>>
      /\ memory' = [c \in Stored |-> memory[c] + 1]
  BY DEF PlcCycle, cacheVars
<1>3. memory'[m] = memory[m] + 1
  BY <1>1, <1>2
<1> DEFINE awaited == Awaiting(queue, response)
<1>4. PICK mem, new, waiting : mem = memory /\ new = memory' /\ waiting = awaited
  OBVIOUS
<1>5. /\ mem[m] \in Nat /\ new[m] = mem[m] + 1
      /\ \A r \in pending \cup server.batch \cup waiting : r.since[m] \in Nat
  BY <1>1, <1>3, <1>4, Requested DEF Following
<1>6. Timely(mem, pending, server, waiting, m)
  BY <1>4 DEF Following, Followed
<1>7. Timely(new, pending, server, waiting, m)
  BY <1>5, <1>6 DEF Timely
<1> QED
  BY <1>2, <1>4, <1>7 DEF Following, Followed

(* A new request asks for nothing older than what the PLC has now.         *)
LEMMA FollowAsk ==
  ASSUME NEW m \in Cell, Plain(m), Following(m), NEW keys \in KeyLists, Ask(keys),
         UNCHANGED parsedSymbols
  PROVE  Followed(m)'
<1>1. m \in Stored
  BY DEF Stored
<1>2. /\ UNCHANGED <<symbolInfo, symbolData, memory, queue, server, response>>
      /\ pending' = pending \cup {Request(keys)}
  BY DEF Ask, cacheVars
<1>3. memory[m] \in Nat
  BY <1>1, Requested DEF Following
<1>4. Request(keys).since[m] <= memory[m]
  BY <1>3 DEF Request
<1>5. Timely(memory, pending, server, Awaiting(queue, response), m)
  BY DEF Following, Followed
<1>6. Timely(memory, pending', server, Awaiting(queue, response), m)
  <2>1. PICK req, awaited : req = Request(keys) /\ awaited = Awaiting(queue, response)
    OBVIOUS
  <2>2. req.since[m] <= memory[m] /\ pending' = pending \cup {req}
    BY <1>2, <1>4, <2>1
  <2> QED BY <2>1, <2>2, <1>5 DEF Timely
<1> QED
  BY <1>2, <1>6 DEF Following, Followed

(* Of the names asked for on the way to m, the shortest is read.           *)
LEMMA ShortestIsLeft ==
  ASSUME NEW m \in Name, NEW wanted, wanted \subseteq Name,
         NEW k \in wanted, IsPrefix(k, m)
  PROVE  \E x \in Keys!Consolidated(wanted) : IsPrefix(x, m)
<1> DEFINE lengths == {Len(x) : x \in {y \in wanted : IsPrefix(y, m)}}
<1>0. /\ m \in Seq(DOMAIN Lower)
      /\ \A x \in wanted : x \in Seq(DOMAIN Lower) /\ Len(x) \in Nat
  BY NamesAreKeys
<1>1. lengths \subseteq Nat /\ lengths # {}
  BY <1>0
<1>2. PICK x \in wanted : IsPrefix(x, m) /\ \A y \in lengths : Len(x) <= y
  <2>1. Min(lengths) \in lengths /\ \A y \in lengths : Min(lengths) <= y
    <3> HIDE DEF lengths
    <3> QED BY <1>1, MinIsLeast
  <2> QED BY <2>1
<1>3. ASSUME NEW p \in wanted, <<x, p>> \in {kp \in ClientNames \X ClientNames : Below(kp[1], kp[2])}
      PROVE  FALSE
  <2>1. Below(x, p)
    BY <1>3
  <2>2. Len(p) < Len(x) /\ IsPrefix(p, x)
    BY <2>1, <1>0, BelowIs, PrefixesAre
  <2>3. IsPrefix(p, m)
    BY <2>2, <1>0, <1>2, PrefixComposes
  <2>4. Len(p) \in lengths
    BY <2>3
  <2> HIDE DEF lengths
  <2> QED BY <2>2, <2>4, <1>0, <1>2
<1>4. x \in Keys!Consolidated(wanted)
  BY <1>3 DEF Keys!Consolidated, Keys!Nested
<1> QED
  BY <1>2, <1>4

(* On the way to a plain variable the cached addresses are right.          *)
LEMMA PlainAddress ==
  ASSUME NEW m, Apart(m), NEW n \in Node, IsPrefix(n, m)
  PROVE  CachedAddress(n) = Address[n] /\ n \notin Property
<1>0. /\ n \in Name /\ n \in Seq(DOMAIN Lower) /\ Len(n) \in Nat
      /\ m \in Seq(DOMAIN Lower)
  BY NodeNames, NamesAreKeys DEF Apart
<1>1. ~InElement(n)
  <2> SUFFICES ASSUME NEW i \in 2 .. Len(n) - 1, SubSeq(n, 1, i - 1) \in Array PROVE FALSE
    BY DEF InElement
  <2> DEFINE j == i - 1
  <2>1. j \in 0 .. Len(n)
    BY <1>0
  <2> HIDE DEF j
  <2>2. SubSeq(n, 1, j) \in Seq(DOMAIN Lower) /\ IsPrefix(SubSeq(n, 1, j), n)
    BY <2>1, <1>0, PrefixIs, PrefixOfItself
  <2>3. IsPrefix(SubSeq(n, 1, j), m)
    BY <2>2, <1>0, PrefixComposes
  <2> QED BY <2>3 DEF j, Apart
<1> QED
  BY <1>1, CachedIsAddress DEF Apart

(* A batch asks for names of clients.                                      *)
LEMMA NamesWanted ==
  ASSUME NEW batch, batch \subseteq Requests
  PROVE  /\ UNION {ToSet(r.keys) : r \in batch} \subseteq Named
         /\ UNION {ToSet(r.keys) : r \in batch} \subseteq Name
         /\ \A r \in batch : ToSet(r.keys) \subseteq UNION {ToSet(s.keys) : s \in batch}
<1>1. \A r \in batch : r.keys \in KeyLists /\ r.keys \in Seq(Name)
  BY KeyListsAre DEF Requests
<1>2. \A r \in batch : ToSet(r.keys) \subseteq ClientNames /\ ToSet(r.keys) \subseteq Name
  BY <1>1 DEF ClientNames, ToSet
<1> QED
  BY <1>2 DEF Named

(* After the lookups of a batch or a message, each name that is on the way *)
(* to m is found, and m with it.                                           *)
LEMMA NamesLooked ==
  ASSUME NEW m \in Cell, Plain(m), Following(m), NEW names \in Seq(Name),
         ToSet(names) \subseteq Named \cup Property, NEW granted
  PROVE  LET info == Looked(symbolInfo, names, granted)
         IN  /\ SoundCache(info) /\ Clear(info, m) /\ Grows(symbolInfo, info)
             /\ \A n \in ToSet(names) : Finds(info, n, m)
<1>1. PICK old : old = symbolInfo
  OBVIOUS
<1>2. /\ SoundCache(old) /\ Noted(WholeTables, old) /\ Clear(old, m)
      /\ parsedSymbols = WholeTables /\ parsedSymbols \in Tables
  BY <1>1 DEF Following, Followed, SourceSound, CachesSound
<1>3. \A n \in ToSet(names) : ~Below(n, m)
  BY PlainIs
<1> DEFINE info == Looked(old, names, granted)
<1>4. SoundCache(info)
  BY <1>2, LookedIsSound
<1>5. Clear(info, m) /\ Grows(old, info) /\ \A n \in ToSet(names) : Finds(info, n, m)
  BY <1>2, <1>3, LookedIsClear
<1> HIDE DEF info
<1> QED
  BY <1>1, <1>4, <1>5 DEF info

(* The commands of a batch cover m for each request that asks for it.      *)
LEMMA FollowStartRead ==
  ASSUME NEW m \in Cell, Plain(m), Following(m), StartRead, UNCHANGED parsedSymbols
  PROVE  Followed(m)'
<1>0. /\ UNCHANGED <<memory, symbolData, queue, response>>
      /\ server.pc = "idle"
  BY DEF StartRead, AtServer
<1>1. PICK batch \in SUBSET pending, names \in Seq(Name), granted \in SUBSET Property :
        /\ ToSet(names) \subseteq (UNION {ToSet(r.keys) : r \in batch}) \cup Property
        /\ Keys!Consolidated(UNION {ToSet(r.keys) : r \in batch}) \subseteq ToSet(names)
        /\ symbolInfo' = Looked(symbolInfo, names, granted)
        /\ pending' = pending \ batch
        /\ server' = [IdleServer EXCEPT
                       !.pc = "read", !.batch = batch,
                       !.commands = [i \in DOMAIN names |->
                                       ReadCommand(symbolInfo', names[i])]]
  BY StartReadLooks DEF Following
<1>2. batch \subseteq Requests
  BY DEF Following, SourceSound, RequestsKept
<1> DEFINE wanted == UNION {ToSet(r.keys) : r \in batch}
<1>3. /\ wanted \subseteq Named /\ wanted \subseteq Name
      /\ \A r \in batch : ToSet(r.keys) \subseteq wanted
  BY <1>2, NamesWanted
<1> HIDE DEF wanted
<1>4. ToSet(names) \subseteq Named \cup Property /\ Keys!Consolidated(wanted) \subseteq ToSet(names)
  BY <1>1, <1>3 DEF wanted
<1>5. PICK info : info = symbolInfo'
  OBVIOUS
<1>6. /\ SoundCache(info) /\ Clear(info, m)
      /\ \A n \in ToSet(names) : Finds(info, n, m)
  <2>1. info = Looked(symbolInfo, names, granted)
    BY <1>1, <1>5
  <2> QED BY <2>1, <1>4, NamesLooked
<1> DEFINE commands == [i \in DOMAIN names |-> ReadCommand(info, names[i])]
<1>7. Len(names) \in Nat /\ DOMAIN names = 1 .. Len(names)
  OBVIOUS
<1>8. /\ server' = [IdleServer EXCEPT !.pc = "read", !.batch = batch, !.commands = commands]
      /\ Len(commands) = Len(names)
      /\ \A i \in 1 .. Len(names) : commands[i] = ReadCommand(info, names[i])
  <2>1. Len(commands) = Len(names)
    BY <1>7
  <2> QED BY <2>1, <1>1, <1>5, <1>7
<1>9. \A i \in 1 .. Len(names) : names[i] \in ToSet(names) /\ commands[i].name = names[i]
  BY <1>7, <1>8 DEF ReadCommand, ByHandle, ByAddress, ToSet
<1> HIDE DEF commands
<1>10. Aiming(info, commands, m)
  <2> SUFFICES ASSUME NEW i \in 1 .. Len(names), IsPrefix(names[i], m)
               PROVE  Reads(commands[i], m) /\ m \in DOMAIN info
    BY <1>4, <1>8, <1>9 DEF Aiming
  <2>1. PICK n : n = names[i]
    OBVIOUS
  <2>2. n \in ToSet(names) /\ IsPrefix(n, m) /\ commands[i] = ReadCommand(info, n) /\ commands[i].name = n
    BY <2>1, <1>8, <1>9
  <2>3. n \in Node
    BY <2>2, <1>4, PlainIs
  <2>4. n \in DOMAIN info /\ info[n].found /\ m \in DOMAIN info
    BY <2>2, <2>3, <1>6 DEF Finds
  <2>5. n \notin Property /\ info[n].address = Address[n] /\ info[n] \in Entry
    <3>1. Apart(m)
      BY PlainIs
    <3>2. CachedAddress(n) = Address[n] /\ n \notin Property
      BY <3>1, <2>2, <2>3, PlainAddress
    <3> QED BY <3>2, <2>4, <1>6, CacheIs DEF SoundCache, Located
  <2>6. info[n].found = TRUE
    BY <2>4, <2>5 DEF Entry
  <2>7. commands[i] = [name |-> n, by |-> "address", valid |-> TRUE, address |-> Address[n]]
    BY <2>2, <2>5, <2>6 DEF ReadCommand, ByAddress
  <2> QED BY <2>2, <2>4, <2>7 DEF Reads
<1>11. /\ server'.pc = "read" /\ server'.batch = batch /\ server'.commands = commands
       /\ server'.at = 1 /\ server'.pdata = 1 /\ server'.path = <<>>
  BY <1>8 DEF IdleServer
<1>12. Covered(server', m)
  <2> SUFFICES ASSUME NEW r \in batch, Asks(r, m)
               PROVE  \E i \in 1 .. Len(names) : IsPrefix(commands[i].name, m)
    BY <1>8, <1>11 DEF Covered
  <2>1. PICK k \in wanted : IsPrefix(k, m)
    BY <1>3 DEF Asks
  <2>2. m \in Name
    BY PlainIs
  <2>3. PICK x \in ToSet(names) : IsPrefix(x, m)
    BY <2>1, <2>2, <1>3, <1>4, ShortestIsLeft
  <2>4. PICK i \in 1 .. Len(names) : x = names[i]
    BY <1>7 DEF ToSet
  <2> QED BY <2>3, <2>4, <1>9
<1>13. Stepping(symbolData', server', m) /\ StoredSo(symbolData', server', m)
  BY <1>11 DEF Stepping, StoredSo, Busy
<1>14. Timely(memory, pending', server', Awaiting(queue, response), m)
  <2>1. Timely(memory, pending, server, Awaiting(queue, response), m)
    BY DEF Following, Followed
  <2>2. \A r \in pending' \cup server'.batch : r \in pending
    BY <1>1, <1>11
  <2> QED BY <2>1, <2>2, <1>11 DEF Timely, Busy
<1>15. server.path = <<>>
  BY <1>0 DEF Following, Followed, Stepping
<1>16. /\ Clean(symbolData, m) /\ ToldSo(response, m)
       /\ Answerable(symbolData, server.path, Awaiting(queue, response), m)
  BY DEF Following, Followed
<1>17. Clear(symbolInfo', m) /\ Aiming(symbolInfo', server'.commands, m)
  BY <1>5, <1>6, <1>10, <1>11
<1>18. Answerable(symbolData, server'.path, Awaiting(queue, response), m)
  BY <1>11, <1>15, <1>16
<1> QED
  BY <1>0, <1>12, <1>13, <1>14, <1>16, <1>17, <1>18 DEF Followed

(* What can be answered stays so as long as m's node does.                 *)
LEMMA AnswerableKept ==
  ASSUME NEW tree, NEW new, NEW m, Keeps(tree, new, m), NEW path, NEW next,
         path = m => next = m, NEW awaited, Answerable(tree, path, awaited, m)
  PROVE  Answerable(new, next, awaited, m)
BY ShownKept DEF Answerable

(* The PLC answers with values of now, or the requests are marked as       *)
(* failed.                                                                 *)
LEMMA FollowSumRead ==
  ASSUME NEW m \in Cell, Plain(m), Following(m), SumRead, UNCHANGED parsedSymbols
  PROVE  Followed(m)'
<1>0. /\ UNCHANGED <<memory, symbolInfo, symbolData, pending, queue, response>>
      /\ server.pc = "read"
  BY DEF SumRead, AtServer, cacheVars
<1>1. m \in Stored
  BY DEF Stored
<1>2. /\ Clear(symbolInfo, m) /\ Aiming(symbolInfo, server.commands, m)
      /\ Clean(symbolData, m) /\ Covered(server, m) /\ Stepping(symbolData, server, m)
      /\ Timely(memory, pending, server, Awaiting(queue, response), m)
      /\ Answerable(symbolData, server.path, Awaiting(queue, response), m)
      /\ ToldSo(response, m)
  BY DEF Following, Followed
<1>3. /\ memory[m] \in Nat
      /\ server.batch \subseteq Requests
      /\ DOMAIN server = {"pc", "batch", "commands", "at", "pdata", "buffer",
                          "leaves", "path", "value"}
  BY <1>1, Requested, IdleIsPlaced DEF Following, SourceSound, ServerPlaced
<1>4. server.path = <<>> /\ server.at = 1 /\ server.pdata = 1
  BY <1>0, <1>2 DEF Stepping
<1>5. CASE server' = [server EXCEPT !.pc = "store", !.buffer = memory]
  <2>1. /\ server'.pc = "store" /\ server'.buffer = memory /\ server'.batch = server.batch
        /\ server'.commands = server.commands /\ server'.at = 1 /\ server'.pdata = 1
        /\ server'.path = <<>>
    BY <1>3, <1>4, <1>5
  <2>2. Covered(server', m)
    BY <2>1, <1>2 DEF Covered
  <2>3. Stepping(symbolData, server', m)
    BY <2>1 DEF Stepping
  <2>4. StoredSo(symbolData, server', m)
    BY <2>1 DEF StoredSo, Passed
  <2>5. Timely(memory, pending, server', Awaiting(queue, response), m)
    BY <2>1, <1>2, <1>3 DEF Timely
  <2> QED BY <1>0, <1>2, <1>4, <2>1, <2>2, <2>3, <2>4, <2>5 DEF Followed
<1>6. CASE server' = [server EXCEPT
                        !.pc = "done",
                        !.batch = {[r EXCEPT !.failed = TRUE] : r \in server.batch}]
  <2>1. /\ server'.pc = "done"
        /\ server'.batch = {[r EXCEPT !.failed = TRUE] : r \in server.batch}
        /\ server'.commands = server.commands /\ server'.at = 1 /\ server'.pdata = 1
        /\ server'.path = <<>>
    BY <1>3, <1>4, <1>6
  <2>2. \A r \in server'.batch : r.failed /\ \E s \in server.batch : r.keys = s.keys /\ r.since = s.since
    <3> SUFFICES ASSUME NEW s \in server.batch, NEW r, r = [s EXCEPT !.failed = TRUE]
                 PROVE  r.failed /\ r.keys = s.keys /\ r.since = s.since
      BY <2>1
    <3>1. DOMAIN s = {"keys", "since", "failed"}
      BY <1>3 DEF Requests
    <3> QED BY <3>1
  <2>3. Covered(server', m)
    BY <2>1, <2>2, <1>2 DEF Covered, Asks
  <2>4. Stepping(symbolData, server', m)
    BY <2>1, <2>2 DEF Stepping
  <2>5. StoredSo(symbolData, server', m)
    BY <2>1 DEF StoredSo, Busy
  <2>6. Timely(memory, pending, server', Awaiting(queue, response), m)
    BY <2>1, <2>2, <1>2 DEF Timely, Busy
  <2> QED BY <1>0, <1>2, <1>4, <2>1, <2>3, <2>4, <2>5, <2>6 DEF Followed
<1> QED
  BY <1>5, <1>6 DEF SumRead

(* When all commands have been gone through, each request of the batch     *)
(* that asks for m can be answered.                                        *)
LEMMA FollowQueueBatch ==
  ASSUME NEW m \in Cell, Plain(m), Following(m), QueueBatch, UNCHANGED parsedSymbols
  PROVE  Followed(m)'
<1>0. /\ UNCHANGED <<memory, symbolInfo, symbolData, pending, response>>
      /\ queue' = queue \cup server.batch /\ server' = IdleServer
      /\ server.pc = "done" \/ (server.pc = "store" /\ server.at > Len(server.commands))
  BY DEF QueueBatch, AtServer, cacheVars
<1>1. m \in Stored
  BY DEF Stored
<1>2. /\ Clear(symbolInfo, m) /\ Clean(symbolData, m)
      /\ Covered(server, m) /\ Stepping(symbolData, server, m) /\ StoredSo(symbolData, server, m)
      /\ Timely(memory, pending, server, Awaiting(queue, response), m)
      /\ Answerable(symbolData, server.path, Awaiting(queue, response), m)
      /\ ToldSo(response, m)
  BY DEF Following, Followed
<1>3. /\ server.path = <<>>
      /\ server.at \in Nat /\ Len(server.commands) \in Nat
  BY <1>0, <1>2 DEF Stepping, Following, SourceSound, ServerPlaced, Commands
<1>4. \A r \in server.batch : r.since[m] \in Nat
  BY <1>1, Requested DEF Following
<1>5. Awaiting(queue', response) = Awaiting(queue, response) \cup server.batch
  BY <1>0 DEF Awaiting
<1>6. ASSUME NEW r \in server.batch, Asks(r, m), ~r.failed
      PROVE  Shown(symbolData, <<>>, m, r.since[m])
  <2>1. server.pc = "store" /\ server.at > Len(server.commands)
    BY <1>0, <1>2, <1>6 DEF Stepping
  <2>2. PICK i \in 1 .. Len(server.commands) : IsPrefix(server.commands[i].name, m)
    BY <1>2, <1>6 DEF Covered
  <2>3. i < server.at
    BY <2>1, <2>2, <1>3
  <2>4. Shown(symbolData, <<>>, m, server.buffer[m])
    BY <2>1, <2>2, <2>3, <1>2, <1>3 DEF StoredSo, Busy, Passed
  <2>5. server.buffer[m] \in Nat /\ r.since[m] <= server.buffer[m]
    BY <2>1, <1>2, <1>6 DEF Timely, Busy
  <2>6. PICK tree, a, b : tree = symbolData /\ a = r.since[m] /\ b = server.buffer[m]
    OBVIOUS
  <2>7. a \in Nat /\ b \in Nat /\ a <= b /\ Shown(tree, <<>>, m, b)
    BY <2>4, <2>5, <2>6, <1>4
  <2>8. Shown(tree, <<>>, m, a)
    BY <2>7, ShownLonger
  <2> QED BY <2>6, <2>8
<1>7. Answerable(symbolData, <<>>, Awaiting(queue', response), m)
  BY <1>2, <1>3, <1>5, <1>6 DEF Answerable
<1>8. /\ IdleServer.path = <<>> /\ IdleServer.pc = "idle" /\ IdleServer.batch = {}
      /\ IdleServer.commands = <<>> /\ IdleServer.at = 1 /\ IdleServer.pdata = 1
  BY DEF IdleServer
<1>9. /\ Aiming(symbolInfo, IdleServer.commands, m) /\ Covered(IdleServer, m)
      /\ Stepping(symbolData, IdleServer, m) /\ StoredSo(symbolData, IdleServer, m)
  BY <1>8 DEF Aiming, Covered, Stepping, StoredSo, Busy
<1>10. Timely(memory, pending, IdleServer, Awaiting(queue', response), m)
  BY <1>2, <1>5, <1>8 DEF Timely, Busy
<1> QED
  BY <1>0, <1>2, <1>7, <1>8, <1>9, <1>10 DEF Followed

(* The entries of n to be parsed: m is one, if n is on the way to it; none *)
(* is above m.                                                             *)
LEMMA LeavesToward ==
  ASSUME NEW m \in Cell, Plain(m), NEW info, SoundCache(info), Clear(info, m),
         IsFiniteSet(DOMAIN info), NEW n \in Name, IsPrefix(n, m) => m \in DOMAIN info
  PROVE  /\ \A r \in Leaves(info, n) : ~IsStrictPrefix(r, m)
         /\ IsPrefix(n, m) => m \in Leaves(info, n)
<1>0. /\ m \in Name /\ m \in Seq(DOMAIN Lower) /\ n \in Seq(DOMAIN Lower)
      /\ \A r \in DOMAIN info : r \in Name /\ r \in Seq(DOMAIN Lower)
  BY PlainIs, NamesAreKeys, CacheIs DEF SoundCache
<1>1. ASSUME NEW r \in Leaves(info, n), IsStrictPrefix(r, m) PROVE FALSE
  <2>1. r \in DOMAIN info /\ (r = n \/ Below(r, n)) /\ MemberCount(info, r) = 0
    BY <1>1 DEF Leaves
  <2>2. IsPrefix(r, m)
    BY <1>0, <1>1, <2>1, PrefixesAre DEF Below
  <2>3. IsPrefix(n, r)
    BY <1>0, <2>1, PrefixesAre
  <2>4. m \in DOMAIN info
    BY <1>0, <2>1, <2>2, <2>3, PrefixComposes
  <2> DEFINE S == {x \in DOMAIN info : Below(x, r)}
  <2>5. m \in S
    BY <2>4, <1>1 DEF Below
  <2>6. IsFiniteSet(S)
    BY FS_Subset
  <2>7. Cardinality(S) = 0
    BY <2>1 DEF MemberCount
  <2> HIDE DEF S
  <2> QED BY <2>5, <2>6, <2>7, FS_EmptySet
<1>2. ASSUME IsPrefix(n, m) PROVE m \in Leaves(info, n)
  <2>1. m \in DOMAIN info
    BY <1>2
  <2>2. m = n \/ Below(m, n)
    BY <1>0, <1>2, PrefixesAre
  <2>3. {x \in DOMAIN info : Below(x, m)} = {}
    BY DEF Clear
  <2>4. MemberCount(info, m) = 0
    BY <2>3, FS_EmptySet DEF MemberCount
  <2> QED BY <2>1, <2>2, <2>4 DEF Leaves
<1> QED
  BY <1>1, <1>2

(* The next command: m is among its leaves if it reads m; a command that   *)
(* failed does not read m.                                                 *)
LEMMA FollowStoreNext ==
  ASSUME NEW m \in Cell, Plain(m), Following(m), StoreNext, UNCHANGED parsedSymbols
  PROVE  Followed(m)'
<1>0. /\ UNCHANGED <<memory, pending, queue, response>>
      /\ server.pc = "store" /\ server.at <= Len(server.commands)
  BY DEF StoreNext, AtServer
<1>1. /\ Clear(symbolInfo, m) /\ Aiming(symbolInfo, server.commands, m)
      /\ Clean(symbolData, m) /\ Covered(server, m)
      /\ Stepping(symbolData, server, m) /\ StoredSo(symbolData, server, m)
      /\ Timely(memory, pending, server, Awaiting(queue, response), m)
      /\ Answerable(symbolData, server.path, Awaiting(queue, response), m)
      /\ ToldSo(response, m)
      /\ SourceSound /\ parsedSymbols = WholeTables /\ Noted(WholeTables, symbolInfo)
  BY DEF Following, Followed
<1>2. /\ DOMAIN server = {"pc", "batch", "commands", "at", "pdata", "buffer",
                          "leaves", "path", "value"}
      /\ server.at \in Nat \ {0} /\ Len(server.commands) \in Nat
      /\ server.at \in 1 .. Len(server.commands)
  BY <1>0, <1>1, IdleIsPlaced DEF SourceSound, ServerPlaced, Commands
<1>3. PICK c, n, info, tree :
        /\ c = server.commands[server.at] /\ n = c.name
        /\ info = FindInfo(WholeTables, symbolInfo, n)
        /\ tree = FindValue(symbolData, n)
  OBVIOUS
<1>4. /\ n \in Name /\ n \in Named \cup Property
      /\ IsPrefix(n, m) => Reads(c, m) /\ m \in DOMAIN symbolInfo
      /\ ~Below(n, m) /\ Apart(m) /\ m \in Name
  <2>1. n \in Name
    BY <1>0, <1>1, <1>3, StoredName
  <2>2. n \in Named \cup Property /\ (IsPrefix(n, m) => Reads(c, m) /\ m \in DOMAIN symbolInfo)
    BY <1>1, <1>2, <1>3 DEF Aiming
  <2> QED BY <2>1, <2>2, PlainIs
<1>5. /\ SoundCache(info) /\ IsFiniteSet(DOMAIN info) /\ n \in DOMAIN info
      /\ Clear(info, m) /\ Grows(symbolInfo, info)
  <2>1. PICK old : old = symbolInfo
    OBVIOUS
  <2>2. SoundCache(old) /\ Noted(WholeTables, old) /\ Clear(old, m) /\ WholeTables \in Tables
    BY <1>1, <2>1 DEF SourceSound, CachesSound
  <2>3. SoundCache(FindInfo(WholeTables, old, n)) /\ n \in DOMAIN FindInfo(WholeTables, old, n)
    BY <2>2, <1>4, FindInfoIsSound
  <2>4. Noted(WholeTables, FindInfo(WholeTables, old, n))
    BY <2>2, <1>4, FindInfoIsNoted
  <2>5. Clear(FindInfo(WholeTables, old, n), m) /\ Grows(old, FindInfo(WholeTables, old, n))
    BY <2>2, <1>4, FindInfoIsClear
  <2> QED BY <2>1, <2>3, <2>4, <2>5, <1>3 DEF Noted
<1>6. Shaped(tree) /\ n \in DOMAIN tree /\ Clean(tree, m) /\ Keeps(symbolData, tree, m)
  <2>1. PICK old : old = symbolData
    OBVIOUS
  <2>2. Shaped(old) /\ Clean(old, m)
    BY <1>1, <2>1 DEF SourceSound, CachesSound
  <2>3. /\ Keeps(old, FindValue(old, n), m) /\ Clean(FindValue(old, n), m)
        /\ Shaped(FindValue(old, n)) /\ n \in DOMAIN FindValue(old, n)
    BY <2>2, <1>4, NameWalkKeeps
  <2> QED BY <2>1, <2>3, <1>3
<1>7. \/ /\ Status(c) = "ok"
         /\ symbolInfo' = info /\ symbolData' = tree
         /\ server' = [server EXCEPT !.pc = "parse", !.leaves = Leaves(info, n)]
      \/ /\ Status(c) = "no getter"
         /\ symbolInfo' = [info EXCEPT ![n].readFail = TRUE]
         /\ symbolData' = SetNode(tree, n, Null)
         /\ server' = [server EXCEPT !.at = @ + 1, !.pdata = @ + 1]
      \/ /\ Status(c) # "ok"
         /\ symbolInfo' = info /\ symbolData' = tree
         /\ server' = [server EXCEPT !.at = @ + 1, !.pdata = @ + 1]
  BY <1>1, <1>3 DEF StoreNext, NextData, ToLower
<1>8. /\ Clear(symbolInfo', m) /\ Grows(symbolInfo, symbolInfo')
  <2>1. CASE symbolInfo' = info
    BY <2>1, <1>5
  <2>2. CASE symbolInfo' = [info EXCEPT ![n].readFail = TRUE]
    <3> DEFINE e == [info[n] EXCEPT !.readFail = TRUE]
    <3>1. info[n] \in Entry
      BY <1>5, CacheIs DEF SoundCache
    <3>2. e.found = info[n].found /\ e.cacheComplete = info[n].cacheComplete
      BY <3>1 DEF Entry
    <3>3. symbolInfo' = [info EXCEPT ![n] = e]
      BY <2>2
    <3> HIDE DEF e
    <3>4. Clear([info EXCEPT ![n] = e], m) /\ Grows(info, [info EXCEPT ![n] = e])
      BY <3>2, <1>5, FlagIsClear
    <3>5. PICK old, new : old = symbolInfo /\ new = symbolInfo'
      OBVIOUS
    <3>6. Clear(new, m) /\ Grows(old, new)
      BY <3>3, <3>4, <3>5, <1>5, GrowsComposes
    <3> QED BY <3>5, <3>6
  <2> QED BY <2>1, <2>2, <1>7
<1>9. Clean(symbolData', m) /\ Keeps(symbolData, symbolData', m)
  <2>1. CASE symbolData' = tree
    BY <2>1, <1>6
  <2>2. CASE Status(c) = "no getter" /\ symbolData' = SetNode(tree, n, Null)
    <3>1. ~IsPrefix(n, m)
      BY <2>2, <1>3, NodeAttributes, PlainIs DEF Status
    <3>2. m \in Seq(DOMAIN Lower) /\ n \in Seq(DOMAIN Lower)
      BY <1>4, NamesAreKeys
    <3>3. n # m /\ ~IsStrictPrefix(n, m)
      BY <3>1, <3>2, PrefixesAre DEF Below
    <3>4. PICK null : null = Null
      OBVIOUS
    <3>5. Clean(SetNode(tree, n, null), m) /\ Keeps(tree, SetNode(tree, n, null), m)
      BY <3>3, <1>6, SetNodeKeeps
    <3>6. PICK old, new : old = symbolData /\ new = symbolData'
      OBVIOUS
    <3>7. Clean(new, m) /\ Keeps(old, new, m)
      BY <2>2, <3>4, <3>5, <3>6, <1>6, KeepsComposes
    <3> QED BY <3>6, <3>7
  <2> QED BY <2>1, <2>2, <1>7
<1>10. server.path = <<>> /\ server.pdata = server.at
  BY <1>0, <1>1 DEF Stepping
<1>11. ASSUME NEW i \in 1 .. Len(server.commands), IsPrefix(server.commands[i].name, m),
              i < server.at
       PROVE  Shown(symbolData', <<>>, m, server.buffer[m])
  <2>1. Shown(symbolData, <<>>, m, server.buffer[m])
    BY <1>0, <1>1, <1>10, <1>11 DEF StoredSo, Busy, Passed
  <2>2. PICK old, new, stamp : old = symbolData /\ new = symbolData' /\ stamp = server.buffer[m]
    OBVIOUS
  <2>3. Shown(new, <<>>, m, stamp)
    BY <2>1, <2>2, <1>9, ShownKept
  <2> QED BY <2>2, <2>3
<1>12. Answerable(symbolData', <<>>, Awaiting(queue, response), m)
  <2>1. PICK old, new, awaited : /\ old = symbolData /\ new = symbolData'
                                 /\ awaited = Awaiting(queue, response)
    OBVIOUS
  <2>2. Answerable(old, <<>>, awaited, m) /\ Keeps(old, new, m)
    BY <2>1, <1>1, <1>9, <1>10
  <2>3. Answerable(new, <<>>, awaited, m)
    BY <2>2, AnswerableKept
  <2> QED BY <2>1, <2>3
<1>13. Aiming(symbolInfo', server.commands, m)
  BY <1>1, <1>8 DEF Aiming, Grows
<1>14. /\ server'.batch = server.batch /\ server'.commands = server.commands
       /\ server'.buffer = server.buffer /\ server'.path = <<>>
       /\ server'.pc \in {"store", "parse"}
  BY <1>0, <1>2, <1>7, <1>10
<1>15. Covered(server', m) /\ Timely(memory, pending, server', Awaiting(queue, response), m)
  BY <1>0, <1>1, <1>14 DEF Covered, Timely, Busy
<1>16. Stepping(symbolData', server', m) /\ StoredSo(symbolData', server', m)
  <2>1. CASE Status(c) = "ok" /\ server' = [server EXCEPT !.pc = "parse", !.leaves = Leaves(info, n)]
    <3>1. /\ server'.pc = "parse" /\ server'.leaves = Leaves(info, n)
          /\ server'.at = server.at /\ server'.pdata = server.pdata
      BY <2>1, <1>2
    <3>2. IsPrefix(n, m) => m \in DOMAIN info
      BY <1>4, <1>5 DEF Grows
    <3>3. /\ \A r \in Leaves(info, n) : ~IsStrictPrefix(r, m)
          /\ IsPrefix(n, m) => m \in Leaves(info, n)
      BY <3>2, <1>4, <1>5, LeavesToward
    <3>4. Stepping(symbolData', server', m)
      BY <3>1, <3>3, <1>10, <1>14 DEF Stepping
    <3>5. StoredSo(symbolData', server', m)
      <4> SUFFICES ASSUME NEW i \in 1 .. Len(server.commands),
                          IsPrefix(server.commands[i].name, m), Passed(server', i, m)
                   PROVE  Shown(symbolData', <<>>, m, server.buffer[m])
        BY <1>14 DEF StoredSo
      <4>1. i < server.at \/ (i = server.at /\ m \notin Leaves(info, n))
        BY <3>1 DEF Passed
      <4>2. i < server.at
        BY <4>1, <3>3, <1>3
      <4> QED BY <4>2, <1>11
    <3> QED BY <3>4, <3>5
  <2>2. CASE Status(c) # "ok" /\ server' = [server EXCEPT !.at = @ + 1, !.pdata = @ + 1]
    <3>1. /\ server'.pc = "store"
          /\ server'.at = server.at + 1 /\ server'.pdata = server.pdata + 1
      BY <2>2, <1>0, <1>2
    <3>2. Stepping(symbolData', server', m)
      BY <3>1, <1>10, <1>14 DEF Stepping
    <3>3. ~IsPrefix(n, m)
      <4>1. Reads(c, m) => c.valid = TRUE /\ c.by = "address"
        BY DEF Reads
      <4> QED BY <4>1, <2>2, <1>4 DEF Status
    <3>4. StoredSo(symbolData', server', m)
      <4> SUFFICES ASSUME NEW i \in 1 .. Len(server.commands),
                          IsPrefix(server.commands[i].name, m), Passed(server', i, m)
                   PROVE  Shown(symbolData', <<>>, m, server.buffer[m])
        BY <1>14 DEF StoredSo
      <4>1. i < server.at + 1
        BY <3>1 DEF Passed
      <4>2. i < server.at
        BY <4>1, <3>3, <1>2, <1>3
      <4> QED BY <4>2, <1>11
    <3> QED BY <3>2, <3>4
  <2> QED BY <2>1, <2>2, <1>7
<1> QED
  BY <1>0, <1>1, <1>8, <1>9, <1>12, <1>13, <1>14, <1>15, <1>16 DEF Followed

(* The commands up to the present one that read m, and need not store it   *)
(* any more, have stored it.                                               *)
StoredHere(tree, now, m) ==
  \A i \in 1 .. Len(now.commands) :
    IsPrefix(now.commands[i].name, m) /\ (i < now.at \/ (i = now.at /\ m \notin now.leaves))
      => Shown(tree, <<>>, m, now.buffer[m])

(* When a leaf other than m is done, or m with its value in the tree.      *)
LEMMA NextLeafKeeps ==
  ASSUME NEW m, NEW now, DOMAIN now = DOMAIN IdleServer, NEW tree,
         now.pc \in {"parse", "assign"}, now.at \in Nat, now.pdata = now.at,
         now.path = <<>>, Len(now.commands) \in Nat,
         \A r \in now.leaves : ~IsStrictPrefix(r, m),
         StoredHere(tree, now, m)
  PROVE  /\ Stepping(tree, NextLeaf(now), m) /\ StoredSo(tree, NextLeaf(now), m)
         /\ NextLeaf(now).batch = now.batch /\ NextLeaf(now).commands = now.commands
         /\ NextLeaf(now).buffer = now.buffer /\ NextLeaf(now).path = <<>>
         /\ NextLeaf(now).pc \in {"store", "parse"}
<1> DEFINE next == NextLeaf(now)
<1>0. DOMAIN now = {"pc", "batch", "commands", "at", "pdata", "buffer", "leaves", "path", "value"}
  BY IdleIsPlaced
<1>1. /\ next.batch = now.batch /\ next.commands = now.commands
      /\ next.buffer = now.buffer /\ next.path = <<>> /\ next.pc \in {"store", "parse"}
      /\ \/ /\ next.pc = "parse" /\ next.at = now.at /\ next.pdata = now.pdata
            /\ next.leaves = now.leaves
         \/ /\ next.pc = "store" /\ next.at = now.at + 1 /\ next.pdata = now.pdata + 1
            /\ now.leaves = {}
  <2>1. CASE now.leaves # {}
    <3>1. next = [now EXCEPT !.pc = "parse"]
      BY <2>1 DEF NextLeaf
    <3> HIDE DEF next
    <3> QED BY <3>1, <1>0
  <2>2. CASE now.leaves = {}
    <3>1. next = [now EXCEPT !.pc = "store", !.at = @ + 1, !.pdata = @ + 1]
      BY <2>2 DEF NextLeaf, NextData
    <3> HIDE DEF next
    <3> QED BY <3>1, <2>2, <1>0
  <2> QED BY <2>1, <2>2
<1> HIDE DEF next
<1>2. Stepping(tree, next, m)
  BY <1>1 DEF Stepping
<1>3. StoredSo(tree, next, m)
  <2> SUFFICES ASSUME NEW i \in 1 .. Len(now.commands),
                      IsPrefix(now.commands[i].name, m), Passed(next, i, m)
               PROVE  Shown(tree, <<>>, m, now.buffer[m])
    BY <1>1 DEF StoredSo
  <2>1. i < now.at \/ (i = now.at /\ m \notin now.leaves)
    BY <1>1 DEF Passed
  <2> QED BY <2>1 DEF StoredHere
<1> QED
  BY <1>1, <1>2, <1>3 DEF next

(* What the buffer holds for m, in the answer to a name on the way to it.  *)
LEMMA ValueOfPlain ==
  ASSUME NEW m \in Cell, server.pdata = server.at,
         NEW n, n = server.commands[server.at].name, n \in Node,
         Reads(server.commands[server.at], m)
  PROVE  ValueAt(n, m) = [cell |-> m, stamp |-> server.buffer[m]]
<1>1. m \in Node /\ Address[m] \in Nat /\ Address[n] \in Nat
  BY AddressIs DEF Cell
<1> DEFINE source == server.commands[server.pdata]
           cells  == CellsAt(source.address + Address[m] - Address[n])
<1>2. source.by = "address" /\ source.address = Address[n]
  <2>1. source = [name |-> source.name, by |-> "address", valid |-> TRUE,
                  address |-> Address[source.name]]
    BY DEF Reads
  <2> HIDE DEF source
  <2>2. source.by = "address" /\ source.address = Address[source.name]
    BY <2>1
  <2> QED BY <2>2 DEF source
<1>3. source.address + Address[m] - Address[n] = Address[m]
  BY <1>1, <1>2
<1>4. cells = {m}
  BY <1>3, CellsApart DEF CellsAt
<1>5. (CHOOSE x \in cells : TRUE) = m
  BY <1>4
<1> HIDE DEF source, cells
<1>6. ValueAt(n, m) = LET c == CHOOSE x \in cells : TRUE
                      IN  [cell |-> c, stamp |-> server.buffer[c]]
  BY <1>1, <1>2, <1>4 DEF ValueAt, source, cells
<1> QED
  BY <1>5, <1>6

(* One leaf: the lookup and the reset leave m's node, or it is m's turn.   *)
LEMMA FollowParseLeaf ==
  ASSUME NEW m \in Cell, Plain(m), Following(m), ParseLeaf, UNCHANGED parsedSymbols
  PROVE  Followed(m)'
<1>0. UNCHANGED <<memory, symbolInfo, pending, queue, response>> /\ server.pc = "parse"
  BY DEF ParseLeaf, AtServer
<1>1. /\ Clear(symbolInfo, m) /\ Aiming(symbolInfo, server.commands, m)
      /\ Clean(symbolData, m) /\ Covered(server, m)
      /\ Stepping(symbolData, server, m) /\ StoredSo(symbolData, server, m)
      /\ Timely(memory, pending, server, Awaiting(queue, response), m)
      /\ Answerable(symbolData, server.path, Awaiting(queue, response), m)
      /\ ToldSo(response, m)
      /\ SourceSound /\ Apart(m) /\ m \in Name /\ m \notin Property /\ m \in Node
  BY PlainIs DEF Following, Followed
<1>2. /\ DOMAIN server = {"pc", "batch", "commands", "at", "pdata", "buffer",
                          "leaves", "path", "value"}
      /\ DOMAIN server = DOMAIN IdleServer
      /\ server.at \in Nat \ {0} /\ Len(server.commands) \in Nat
      /\ server.at \in 1 .. Len(server.commands)
      /\ LeavesOf(symbolInfo, server.leaves, server.commands[server.at].name)
  BY <1>0, <1>1, IdleIsPlaced DEF SourceSound, ServerPlaced, Commands
<1>3. PICK n : n = server.commands[server.at].name
  OBVIOUS
<1>4. PICK r \in server.leaves : \E parsed \in MayHaveValue(r) :
        /\ symbolData' = SetNode(ReachMember(symbolData, n, r), DataPath(n, r), Null)
        /\ server' = IF parsed
                     THEN [server EXCEPT !.pc = "assign", !.leaves = @ \ {r},
                                         !.path = DataPath(n, r),
                                         !.value = ValueAt(n, r)]
                     ELSE NextLeaf([server EXCEPT !.leaves = @ \ {r}])
  BY <1>3 DEF ParseLeaf
<1>5. PICK parsed \in MayHaveValue(r) :
        /\ symbolData' = SetNode(ReachMember(symbolData, n, r), DataPath(n, r), Null)
        /\ server' = IF parsed
                     THEN [server EXCEPT !.pc = "assign", !.leaves = @ \ {r},
                                         !.path = DataPath(n, r),
                                         !.value = ValueAt(n, r)]
                     ELSE NextLeaf([server EXCEPT !.leaves = @ \ {r}])
  BY <1>4
<1>6. n \in Name /\ n \in Named \cup Property /\ (IsPrefix(n, m) => Reads(server.commands[server.at], m))
  <2>1. n \in Name
    BY <1>1, <1>2, <1>3, StoredName
  <2> QED BY <2>1, <1>1, <1>2, <1>3 DEF Aiming
<1>7. r \in Name /\ (r = n \/ Below(r, n)) /\ ~Below(r, m) /\ ~IsStrictPrefix(r, m)
  <2>1. r \in DOMAIN symbolInfo /\ (r = n \/ Below(r, n))
    BY <1>2, <1>3 DEF LeavesOf
  <2>2. r \in Name
    BY <2>1, <1>1, CacheIs DEF SourceSound, CachesSound, SoundCache
  <2> QED BY <2>1, <2>2, <1>0, <1>1 DEF Clear, Stepping
<1>8. /\ Clean(symbolData', m)
      /\ r # m => Keeps(symbolData, symbolData', m)
      /\ r = m => m \in DOMAIN symbolData' /\ symbolData'[m] = Null
  <2>1. PICK old, new : old = symbolData /\ new = SetNode(ReachMember(old, n, r), DataPath(n, r), Null)
    OBVIOUS
  <2>2. Shaped(old) /\ Clean(old, m)
    BY <1>1, <2>1 DEF SourceSound, CachesSound
  <2>3. /\ Clean(new, m)
        /\ r # m => Keeps(old, new, m)
        /\ r = m => m \in DOMAIN new /\ new[m] = Null
    BY <2>1, <2>2, <1>1, <1>6, <1>7, LeafKeeps
  <2> QED BY <2>1, <2>3, <1>5
<1>9. /\ DataPath(n, r) = m <=> r = m
      /\ ~IsStrictPrefix(DataPath(n, r), m)
  BY <1>1, <1>6, <1>7, LeafPlace
<1>10. server.path = <<>> /\ server.pdata = server.at /\ m # <<>>
       /\ \A x \in server.leaves : ~IsStrictPrefix(x, m)
  BY <1>0, <1>1, NamesAreKeys DEF Stepping
<1>11. ASSUME /\ server'.batch = server.batch /\ server'.commands = server.commands
              /\ server'.buffer = server.buffer
              /\ server'.pc \in {"store", "parse", "assign"}
              /\ Stepping(symbolData', server', m) /\ StoredSo(symbolData', server', m)
              /\ Answerable(symbolData', server'.path, Awaiting(queue, response), m)
       PROVE  Followed(m)'
  <2>1. Covered(server', m) /\ Timely(memory, pending, server', Awaiting(queue, response), m)
    BY <1>0, <1>1, <1>11 DEF Covered, Timely, Busy
  <2> QED BY <2>1, <1>0, <1>1, <1>8, <1>11 DEF Followed
<1>12. CASE r = m
  <2>1. /\ server'.pc = "assign" /\ server'.leaves = server.leaves \ {m} /\ server'.path = m
        /\ server'.value = ValueAt(n, m) /\ server'.at = server.at /\ server'.pdata = server.pdata
        /\ server'.batch = server.batch /\ server'.commands = server.commands
        /\ server'.buffer = server.buffer
    <3>1. parsed = TRUE
      BY <1>1, <1>12 DEF MayHaveValue, HasValue
    <3> QED BY <3>1, <1>2, <1>5, <1>9, <1>12
  <2>2. IsPrefix(n, m) /\ n \in Node
    <3>1. m \in Seq(DOMAIN Lower) /\ n \in Seq(DOMAIN Lower)
      BY <1>1, <1>6, NamesAreKeys
    <3>2. IsPrefix(n, m)
      BY <3>1, <1>7, <1>12, PrefixesAre
    <3> QED BY <3>2, <1>6, PlainIs
  <2>3. ValueAt(n, m) = [cell |-> m, stamp |-> server.buffer[m]]
    BY <2>2, <1>3, <1>6, <1>10, ValueOfPlain
  <2>4. \A s : Shown(symbolData', m, m, s)
    BY <1>8, <1>12 DEF Shown, Null
  <2>5. Stepping(symbolData', server', m)
    BY <2>1, <2>3, <1>8, <1>9, <1>10, <1>12 DEF Stepping
  <2>6. StoredSo(symbolData', server', m)
    BY <2>1, <2>4 DEF StoredSo
  <2>7. Answerable(symbolData', server'.path, Awaiting(queue, response), m)
    BY <2>1, <2>4 DEF Answerable
  <2> QED BY <2>1, <2>5, <2>6, <2>7, <1>11
<1>13. CASE r # m
  <2>1. Keeps(symbolData, symbolData', m)
    BY <1>8, <1>13
  <2>2. ASSUME NEW next PROVE Answerable(symbolData', next, Awaiting(queue, response), m)
    <3>1. PICK old, new, awaited : /\ old = symbolData /\ new = symbolData'
                                   /\ awaited = Awaiting(queue, response)
      OBVIOUS
    <3>2. Answerable(old, <<>>, awaited, m) /\ Keeps(old, new, m)
      BY <3>1, <2>1, <1>1, <1>10
    <3>3. Answerable(new, next, awaited, m)
      BY <3>2, <1>10, AnswerableKept
    <3> QED BY <3>1, <3>3
  <2>3. ASSUME NEW i \in 1 .. Len(server.commands), IsPrefix(server.commands[i].name, m),
               i < server.at \/ (i = server.at /\ m \notin server.leaves \ {r}), NEW next
        PROVE  Shown(symbolData', next, m, server.buffer[m])
    <3>1. Passed(server, i, m)
      BY <2>3, <1>0, <1>13 DEF Passed
    <3>2. Shown(symbolData, <<>>, m, server.buffer[m])
      BY <3>1, <2>3, <1>0, <1>1, <1>10 DEF StoredSo, Busy
    <3>3. PICK old, new, stamp : old = symbolData /\ new = symbolData' /\ stamp = server.buffer[m]
      OBVIOUS
    <3>4. Shown(new, next, m, stamp)
      BY <3>2, <3>3, <2>1, <1>10, ShownKept
    <3> QED BY <3>3, <3>4
  <2>4. CASE parsed
    <3>1. /\ server'.pc = "assign" /\ server'.leaves = server.leaves \ {r}
          /\ server'.path = DataPath(n, r)
          /\ server'.at = server.at /\ server'.pdata = server.pdata
          /\ server'.batch = server.batch /\ server'.commands = server.commands
          /\ server'.buffer = server.buffer
      BY <2>4, <1>2, <1>5
    <3>2. Stepping(symbolData', server', m)
      BY <3>1, <1>9, <1>10, <1>13 DEF Stepping
    <3>3. StoredSo(symbolData', server', m)
      BY <3>1, <2>3 DEF StoredSo, Passed
    <3> QED BY <3>1, <3>2, <3>3, <2>2, <1>11
  <2>5. CASE ~parsed
    <3> DEFINE now == [server EXCEPT !.leaves = @ \ {r}]
    <3>1. /\ now.pc = "parse" /\ now.leaves = server.leaves \ {r} /\ now.path = <<>>
          /\ now.at = server.at /\ now.pdata = server.pdata
          /\ now.batch = server.batch /\ now.commands = server.commands
          /\ now.buffer = server.buffer /\ DOMAIN now = DOMAIN IdleServer
      BY <1>0, <1>2, <1>10
    <3>2. server' = NextLeaf(now)
      BY <2>5, <1>5
    <3> HIDE DEF now
    <3>3. PICK nw, new : nw = now /\ new = symbolData'
      OBVIOUS
    <3>4. /\ nw.at \in Nat /\ nw.pdata = nw.at /\ Len(nw.commands) \in Nat
          /\ \A x \in nw.leaves : ~IsStrictPrefix(x, m)
      BY <3>1, <3>3, <1>2, <1>10
    <3>5. StoredHere(new, nw, m)
      BY <3>1, <3>3, <2>3 DEF StoredHere
    <3>6. nw.pc \in {"parse", "assign"} /\ nw.path = <<>> /\ DOMAIN nw = DOMAIN IdleServer
      BY <3>1, <3>3
    <3>7. /\ Stepping(new, NextLeaf(nw), m) /\ StoredSo(new, NextLeaf(nw), m)
          /\ NextLeaf(nw).batch = nw.batch /\ NextLeaf(nw).commands = nw.commands
          /\ NextLeaf(nw).buffer = nw.buffer /\ NextLeaf(nw).path = <<>>
          /\ NextLeaf(nw).pc \in {"store", "parse"}
      BY <3>4, <3>5, <3>6, NextLeafKeeps
    <3> QED BY <3>1, <3>2, <3>3, <3>7, <2>2, <1>11
  <2> QED BY <2>4, <2>5
<1> QED
  BY <1>12, <1>13

(* A value is assigned to its own place: after m's turn m is shown again.  *)
LEMMA FollowAssignValue ==
  ASSUME NEW m \in Cell, Plain(m), Following(m), AssignValue, UNCHANGED parsedSymbols
  PROVE  Followed(m)'
<1>0. UNCHANGED <<memory, symbolInfo, pending, queue, response>> /\ server.pc = "assign"
  BY DEF AssignValue, AtServer
<1>1. /\ Clear(symbolInfo, m) /\ Aiming(symbolInfo, server.commands, m)
      /\ Clean(symbolData, m) /\ Covered(server, m)
      /\ Stepping(symbolData, server, m) /\ StoredSo(symbolData, server, m)
      /\ Timely(memory, pending, server, Awaiting(queue, response), m)
      /\ Answerable(symbolData, server.path, Awaiting(queue, response), m)
      /\ ToldSo(response, m)
      /\ SourceSound /\ m \in Stored
  BY DEF Following, Followed, Stored
<1>2. /\ DOMAIN server = {"pc", "batch", "commands", "at", "pdata", "buffer",
                          "leaves", "path", "value"}
      /\ DOMAIN server = DOMAIN IdleServer
      /\ server.at \in Nat \ {0} /\ Len(server.commands) \in Nat
  BY <1>1, IdleIsPlaced DEF SourceSound, ServerPlaced, Commands
<1>3. /\ server.pdata = server.at /\ ~IsStrictPrefix(server.path, m)
      /\ server.path = m => /\ m \in DOMAIN symbolData
                            /\ server.value = [cell |-> m, stamp |-> server.buffer[m]]
      /\ \A x \in server.leaves : ~IsStrictPrefix(x, m)
      /\ server.buffer[m] \in Nat
      /\ \A r \in Awaiting(queue, response) : r.since[m] <= server.buffer[m]
  BY <1>0, <1>1 DEF Stepping, Timely, Busy
<1>4. /\ symbolData' = IF server.path \in DOMAIN symbolData
                       THEN SetNode(symbolData, server.path, Number(server.value))
                       ELSE symbolData
      /\ server' = NextLeaf([server EXCEPT !.path = <<>>, !.value = NoCell])
  BY DEF AssignValue
<1>5. PICK old, new, awaited, path, stamp, node :
        /\ old = symbolData /\ new = symbolData' /\ awaited = Awaiting(queue, response)
        /\ path = server.path /\ stamp = server.buffer[m] /\ node = Number(server.value)
  OBVIOUS
<1>6. /\ new = (IF path \in DOMAIN old THEN SetNode(old, path, node) ELSE old)
      /\ Clean(old, m) /\ ~IsStrictPrefix(path, m)
      /\ Answerable(old, path, awaited, m)
  BY <1>1, <1>3, <1>4, <1>5
(* Whatever was shown still is, without the help of the node assigned.     *)
<1>7. /\ Clean(new, m)
      /\ path # m => Keeps(old, new, m)
      /\ path = m => Shown(new, <<>>, m, stamp)
  <2>1. CASE path # m
    <3>1. path \in DOMAIN old =>
            Clean(SetNode(old, path, node), m) /\ Keeps(old, SetNode(old, path, node), m)
      BY <2>1, <1>6, SetNodeKeeps
    <3>2. Keeps(old, old, m)
      BY DEF Keeps
    <3> QED BY <2>1, <3>1, <3>2, <1>6
  <2>2. CASE path = m
    <3>1. new = SetNode(old, m, node) /\ node = Number([cell |-> m, stamp |-> stamp])
      BY <2>2, <1>3, <1>5, <1>6
    <3>2. m \in DOMAIN new /\ new[m] = node
      BY <3>1 DEF SetNode
    <3>3. \A q \in DOMAIN new : q # m => q \in DOMAIN old /\ new[q] = old[q]
      BY <3>1 DEF SetNode
    <3>4. \A q : IsStrictPrefix(q, m) => q # m
      BY DEF IsStrictPrefix
    <3>5. Clean(new, m)
      BY <3>3, <3>4, <1>6 DEF Clean
    <3>6. node.kind = "number" /\ node.value.cell = m /\ node.value.stamp = stamp
      BY <3>1 DEF Number
    <3>7. Shown(new, <<>>, m, stamp)
      BY <3>2, <3>6, <1>3, <1>5 DEF Shown
    <3> QED BY <2>2, <3>5, <3>7
  <2> QED BY <2>1, <2>2
<1>8. ASSUME NEW s \in Nat, s <= stamp, Shown(old, path, m, s)
      PROVE  Shown(new, <<>>, m, s)
  <2>1. CASE path # m
    BY <2>1, <1>7, <1>8, ShownKept
  <2>2. CASE path = m
    <3>1. stamp \in Nat /\ Shown(new, <<>>, m, stamp)
      BY <2>2, <1>3, <1>5, <1>7
    <3> QED BY <3>1, <1>8, ShownLonger
  <2> QED BY <2>1, <2>2
<1>9. Answerable(new, <<>>, awaited, m)
  <2>1. \A r \in awaited : r.since[m] \in Nat /\ r.since[m] <= stamp
    BY <1>1, <1>3, <1>5, Requested
  <2> QED BY <2>1, <1>6, <1>8 DEF Answerable
<1> DEFINE now == [server EXCEPT !.path = <<>>, !.value = NoCell]
<1>10. /\ now.pc = "assign" /\ now.leaves = server.leaves /\ now.path = <<>>
       /\ now.at = server.at /\ now.pdata = server.pdata
       /\ now.batch = server.batch /\ now.commands = server.commands
       /\ now.buffer = server.buffer /\ DOMAIN now = DOMAIN IdleServer
  BY <1>0, <1>2
<1>11. server' = NextLeaf(now)
  BY <1>4
<1> HIDE DEF now
<1>12. PICK nw : nw = now
  OBVIOUS
<1>13. /\ nw.at \in Nat /\ nw.pdata = nw.at /\ Len(nw.commands) \in Nat
       /\ \A x \in nw.leaves : ~IsStrictPrefix(x, m)
       /\ nw.pc \in {"parse", "assign"} /\ nw.path = <<>> /\ DOMAIN nw = DOMAIN IdleServer
       /\ nw.buffer[m] = stamp
  BY <1>2, <1>3, <1>5, <1>10, <1>12
<1>14. StoredHere(new, nw, m)
  <2> SUFFICES ASSUME NEW i \in 1 .. Len(server.commands), IsPrefix(server.commands[i].name, m),
                      i < server.at \/ (i = server.at /\ m \notin server.leaves)
               PROVE  Shown(new, <<>>, m, stamp)
    BY <1>10, <1>12, <1>13 DEF StoredHere
  <2>1. Passed(server, i, m)
    BY <1>0 DEF Passed
  <2>2. Shown(old, path, m, stamp)
    BY <2>1, <1>0, <1>1, <1>5 DEF StoredSo, Busy
  <2>3. stamp \in Nat /\ stamp <= stamp
    BY <1>3, <1>5
  <2> QED BY <2>2, <2>3, <1>8
<1>15. /\ Stepping(new, NextLeaf(nw), m) /\ StoredSo(new, NextLeaf(nw), m)
       /\ NextLeaf(nw).batch = nw.batch /\ NextLeaf(nw).commands = nw.commands
       /\ NextLeaf(nw).buffer = nw.buffer /\ NextLeaf(nw).path = <<>>
       /\ NextLeaf(nw).pc \in {"store", "parse"}
  BY <1>13, <1>14, NextLeafKeeps
<1>16. /\ server'.batch = server.batch /\ server'.commands = server.commands
       /\ server'.buffer = server.buffer /\ server'.path = <<>>
       /\ server'.pc \in {"store", "parse"}
       /\ Stepping(symbolData', server', m) /\ StoredSo(symbolData', server', m)
  BY <1>5, <1>10, <1>11, <1>12, <1>15
<1>17. Covered(server', m) /\ Timely(memory, pending, server', Awaiting(queue, response), m)
  BY <1>0, <1>1, <1>16 DEF Covered, Timely, Busy
<1>18. Clean(symbolData', m) /\ Answerable(symbolData', server'.path, Awaiting(queue, response), m)
  BY <1>5, <1>7, <1>9, <1>16
<1> QED
  BY <1>0, <1>1, <1>16, <1>17, <1>18 DEF Followed

-----------------------------------------------------------------------------
(* The copy made for a name on the way to m has m's node where m is.       *)
LEMMA CopyHolds ==
  ASSUME NEW m, Apart(m), NEW k \in Name, IsPrefix(k, m), NEW tree, NEW path, NEW since,
         Shown(tree, path, m, since[m])
  PROVE  FreshIn([value |-> Copy(tree, k), blank |-> path], k, m, since)
<1> DEFINE rel   == InAnswer(k, m)
           entry == [value |-> Copy(tree, k), blank |-> path]
           rest  == SubSeq(m, Len(k) + 1, Len(m))
<1>0. /\ m \in Seq(DOMAIN Lower) /\ k \in Seq(DOMAIN Lower)
      /\ Len(m) \in Nat /\ Len(k) \in Nat
      /\ Len(k) <= Len(m) /\ k = SubSeq(m, 1, Len(k))
  BY NamesAreKeys, PrefixesAre DEF Apart
<1>1. rel = rest
  <2>1. \A i \in 1 .. Len(m) - Len(k) :
          /\ Front(SubSeq(m, 1, Len(k) + i)) \notin Array
          /\ Last(SubSeq(m, 1, Len(k) + i)) = m[Len(k) + i]
    <3> SUFFICES ASSUME NEW i \in 1 .. Len(m) - Len(k)
                 PROVE  /\ Front(SubSeq(m, 1, Len(k) + i)) \notin Array
                        /\ Last(SubSeq(m, 1, Len(k) + i)) = m[Len(k) + i]
      OBVIOUS
    <3> DEFINE l == Len(k) + i
               j == l - 1
               e == SubSeq(m, 1, l)
    <3>1. l \in 1 .. Len(m) /\ l \in 0 .. Len(m) /\ j \in 0 .. l /\ j \in 0 .. Len(m) /\ l \in 1 .. l
      BY <1>0
    <3> HIDE DEF l
    <3>2. Len(e) = l /\ e[l] = m[l]
      BY <3>1, <1>0, PrefixIs
    <3>3. SubSeq(e, 1, j) = SubSeq(m, 1, j)
      <4> HIDE DEF j
      <4> QED BY <3>1, <1>0, PrefixOfPrefix
    <3>4. IsPrefix(SubSeq(m, 1, j), m)
      <4> HIDE DEF j
      <4> QED BY <3>1, <1>0, PrefixOfItself
    <3> HIDE DEF e
    <3>5. Front(e) = SubSeq(m, 1, j) /\ Last(e) = m[l]
      BY <3>2, <3>3 DEF Front, Last
    <3>6. Front(e) \notin Array
      BY <3>4, <3>5 DEF Apart
    <3> QED BY <3>5, <3>6 DEF e, l
  <2>2. rel = [i \in 1 .. Len(m) - Len(k) |-> m[Len(k) + i]]
    BY <2>1 DEF InAnswer
  <2>3. /\ rest \in Seq(DOMAIN Lower) /\ Len(rest) = Len(m) - Len(k)
        /\ \A i \in 1 .. Len(m) - Len(k) : rest[i] = m[Len(k) + i]
    <3> DEFINE a == Len(k) + 1
               b == Len(m)
    <3>1. a \in Int /\ b \in Int /\ \A i \in a .. b : m[i] \in DOMAIN Lower
      BY <1>0, ElementOfSeq
    <3>2. /\ b - a + 1 = Len(m) - Len(k) /\ (IF a <= b THEN b - a + 1 ELSE 0) = Len(m) - Len(k)
          /\ \A i \in 1 .. Len(m) - Len(k) : a + i - 1 = Len(k) + i
      BY <1>0
    <3> HIDE DEF a, b
    <3>3. /\ SubSeq(m, a, b) \in Seq(DOMAIN Lower)
          /\ Len(SubSeq(m, a, b)) = IF a <= b THEN b - a + 1 ELSE 0
          /\ \A i \in 1 .. b - a + 1 : SubSeq(m, a, b)[i] = m[a + i - 1]
      BY <3>1, SubSeqProperties
    <3> QED BY <3>2, <3>3 DEF a, b
  <2> HIDE DEF rel, rest
  <2>4. DOMAIN rest = 1 .. Len(m) - Len(k) /\ rest = [i \in DOMAIN rest |-> rest[i]]
    BY <2>3, LenProperties
  <2> QED BY <2>2, <2>3, <2>4
<1>2. k \o rest = m
  <2> DEFINE l == Len(k)
             n == Len(m)
  <2>1. 1 \in 1 .. Len(m) + 1 /\ l \in 1 - 1 .. Len(m) /\ n \in l .. Len(m)
    BY <1>0
  <2>2. SubSeq(m, 1, n) = m
    BY <1>0, SubSeqFull
  <2> HIDE DEF l, n
  <2>3. SubSeq(m, 1, l) \o SubSeq(m, l + 1, n) = SubSeq(m, 1, n)
    BY <2>1, <1>0, ConcatAdjacentSubSeq
  <2>4. k = SubSeq(m, 1, l) /\ rest = SubSeq(m, l + 1, n)
    BY <1>0 DEF l, n
  <2> HIDE DEF rest
  <2> QED BY <2>2, <2>3, <2>4
<1>3. rest \in DOMAIN Copy(tree, k) /\ Copy(tree, k)[rest] = tree[m]
  <2>1. m \in {q \in DOMAIN tree : IsPrefix(k, q)}
    BY DEF Shown
  <2>2. rest \in {SubSeq(q, Len(k) + 1, Len(q)) : q \in {x \in DOMAIN tree : IsPrefix(k, x)}}
    BY <2>1
  <2> HIDE DEF rest
  <2> QED BY <2>2, <1>2 DEF Copy
<1>4. DataPath(k, m) = m
  BY DataPathToSelf
<1> HIDE DEF rel, rest
<1>5. entry.value = Copy(tree, k) /\ entry.blank = path
  OBVIOUS
<1> HIDE DEF entry
<1>6. FreshIn(entry, k, m, since)
  BY <1>1, <1>3, <1>4, <1>5 DEF FreshIn, Shown, rel
<1> QED
  BY <1>6 DEF entry

-----------------------------------------------------------------------------
(* The response threads.                                                   *)
LEMMA FewerAwaiting ==
  ASSUME NEW m, NEW tree, NEW now, NEW mem, NEW asking, NEW path,
         NEW more, NEW awaited, awaited \subseteq more
  PROVE  /\ Timely(mem, asking, now, more, m) => Timely(mem, asking, now, awaited, m)
         /\ Answerable(tree, path, more, m) => Answerable(tree, path, awaited, m)
BY DEF Timely, Answerable

(* A response thread takes a request, which goes on waiting for its        *)
(* answer.                                                                 *)
LEMMA FollowTakeResponse ==
  ASSUME NEW m \in Cell, Plain(m), Following(m), NEW p \in Responders, TakeResponse(p),
         UNCHANGED parsedSymbols
  PROVE  Followed(m)'
<1>0. UNCHANGED <<memory, symbolInfo, symbolData, pending, server>>
  BY DEF TakeResponse, cacheVars
<1>1. PICK r \in queue : /\ queue' = queue \ {r}
                         /\ response' = [response EXCEPT ![p] = [request |-> r, got |-> <<>>]]
  BY DEF TakeResponse
<1>2. DOMAIN response = Responders
  BY DEF Following, SourceSound, ResponsesPlaced
<1>3. PICK taken : taken = [request |-> r, got |-> <<>>]
  OBVIOUS
<1>4. /\ response'[p] = taken /\ taken.request = r /\ Len(taken.got) = 0
      /\ \A q \in Responders \ {p} : response'[q] = response[q]
  BY <1>1, <1>2, <1>3
<1>5. Awaiting(queue', response') \subseteq Awaiting(queue, response)
  BY <1>1, <1>4 DEF Awaiting
<1>6. ToldSo(response', m)
  BY <1>4 DEF ToldSo, Following, Followed
<1>7. /\ Timely(memory, pending, server, Awaiting(queue', response'), m)
      /\ Answerable(symbolData, server.path, Awaiting(queue', response'), m)
  <2>1. PICK tree, path, mem, more, awaited :
          /\ tree = symbolData /\ path = server.path /\ mem = memory
          /\ more = Awaiting(queue, response) /\ awaited = Awaiting(queue', response')
    OBVIOUS
  <2>2. /\ Timely(mem, pending, server, more, m) /\ Answerable(tree, path, more, m)
        /\ awaited \subseteq more
    BY <2>1, <1>5 DEF Following, Followed
  <2>3. Timely(mem, pending, server, awaited, m) /\ Answerable(tree, path, awaited, m)
    BY <2>2, FewerAwaiting
  <2> QED BY <2>1, <2>3
<1> QED
  BY <1>0, <1>6, <1>7 DEF Following, Followed

(* An answer is sent: one request less waits.                              *)
LEMMA FollowSendResponse ==
  ASSUME NEW m \in Cell, Plain(m), Following(m), NEW p \in Responders, SendResponse(p),
         UNCHANGED parsedSymbols
  PROVE  Followed(m)'
<1>0. /\ UNCHANGED <<memory, symbolInfo, symbolData, pending, queue, server>>
      /\ response' = [response EXCEPT ![p] = None]
  BY DEF SendResponse, cacheVars
<1>1. DOMAIN response = Responders
  BY DEF Following, SourceSound, ResponsesPlaced
<1>2. response'[p] = None /\ \A q \in Responders \ {p} : response'[q] = response[q]
  BY <1>0, <1>1
<1>3. Awaiting(queue, response') \subseteq Awaiting(queue, response)
  BY <1>2 DEF Awaiting
<1>4. ToldSo(response', m)
  BY <1>2 DEF ToldSo, Following, Followed
<1>5. /\ Timely(memory, pending, server, Awaiting(queue, response'), m)
      /\ Answerable(symbolData, server.path, Awaiting(queue, response'), m)
  <2>1. PICK tree, path, mem, more, awaited :
          /\ tree = symbolData /\ path = server.path /\ mem = memory
          /\ more = Awaiting(queue, response) /\ awaited = Awaiting(queue, response')
    OBVIOUS
  <2>2. /\ Timely(mem, pending, server, more, m) /\ Answerable(tree, path, more, m)
        /\ awaited \subseteq more
    BY <2>1, <1>3 DEF Following, Followed
  <2>3. Timely(mem, pending, server, awaited, m) /\ Answerable(tree, path, awaited, m)
    BY <2>2, FewerAwaiting
  <2> QED BY <2>1, <2>3
<1> QED
  BY <1>0, <1>4, <1>5 DEF Following, Followed

(* What is copied for a key on the way to m shows m as the tree does.      *)
LEMMA FollowGetSymbolValue ==
  ASSUME NEW m \in Cell, Plain(m), Following(m), NEW p \in Responders, GetSymbolValue(p),
         UNCHANGED parsedSymbols
  PROVE  Followed(m)'
<1>0. UNCHANGED <<memory, symbolInfo, pending, queue, server>>
  BY DEF GetSymbolValue
<1>1. PICK taken, keys, key : /\ taken = response[p] /\ keys = taken.request.keys
                              /\ key = NextKey(p)
  OBVIOUS
<1>2. PICK tree, new, path : tree = symbolData /\ new = symbolData' /\ path = server.path
  OBVIOUS
<1>3. PICK entry : entry = [value |-> Copy(new, key), blank |-> path]
  OBVIOUS
<1>4. /\ taken # None /\ Len(taken.got) < Len(keys)
      /\ new = FindValue(tree, key)
      /\ key = keys[Len(taken.got) + 1]
      /\ response' = [response EXCEPT ![p].got = Append(@, entry)]
  BY <1>1, <1>2, <1>3 DEF GetSymbolValue, NextKey, ToLower
<1>5. ResponsePlaced(taken) /\ DOMAIN response = Responders
  BY <1>1 DEF Following, SourceSound, ResponsesPlaced
<1>6. /\ taken.request \in Requests /\ keys \in KeyLists /\ keys \in Seq(Name)
      /\ DOMAIN taken = {"request", "got"}
  BY <1>1, <1>4, <1>5, KeyListsAre DEF ResponsePlaced, Requests
<1>7. PICK S : taken.got \in Seq(S)
  BY <1>4, <1>5 DEF ResponsePlaced
<1>8. /\ Len(taken.got) \in Nat /\ Len(keys) \in Nat
      /\ Len(taken.got) + 1 \in 1 .. Len(keys)
  BY <1>4, <1>6, <1>7
<1>9. key \in ToSet(keys) /\ key \in Name /\ key \in Named
  <2>1. key \in ToSet(keys) /\ key \in Name
    BY <1>4, <1>6, <1>8, ElementOfSeq DEF ToSet
  <2>2. ToSet(keys) \subseteq ClientNames
    BY <1>6 DEF ClientNames
  <2> QED BY <2>1, <2>2 DEF Named
<1>10. ~Below(key, m) /\ Apart(m)
  BY <1>9, PlainIs
<1>11. Shaped(tree) /\ Clean(tree, m) /\ Answerable(tree, path, Awaiting(queue, response), m)
  BY <1>2 DEF Following, Followed, SourceSound, CachesSound
<1>12. Keeps(tree, new, m) /\ Clean(new, m)
  BY <1>4, <1>9, <1>10, <1>11, NameWalkKeeps
<1>13. PICK awaited : awaited = Awaiting(queue, response)
  OBVIOUS
<1>14. Answerable(new, path, awaited, m)
  BY <1>11, <1>12, <1>13, AnswerableKept
<1>15. PICK next : next = [taken EXCEPT !.got = Append(taken.got, entry)]
  OBVIOUS
<1>16. /\ response'[p] = next
       /\ next.request = taken.request /\ next.got = Append(taken.got, entry)
       /\ \A q \in Responders \ {p} : response'[q] = response[q]
  BY <1>1, <1>4, <1>5, <1>6, <1>15
<1>17. /\ Len(next.got) = Len(taken.got) + 1 /\ next.got[Len(taken.got) + 1] = entry
       /\ \A i \in 1 .. Len(taken.got) : next.got[i] = taken.got[i]
  <2>1. taken.got \in Seq(S \cup {entry})
    BY <1>7, SeqMonotonic
  <2>2. /\ Len(Append(taken.got, entry)) = Len(taken.got) + 1
        /\ \A i \in 1 .. Len(taken.got) : Append(taken.got, entry)[i] = taken.got[i]
        /\ Append(taken.got, entry)[Len(taken.got) + 1] = entry
    BY <2>1, AppendProperties
  <2> QED BY <2>2, <1>16
<1>18. Awaiting(queue, response') \subseteq awaited
  BY <1>1, <1>4, <1>13, <1>16 DEF Awaiting
<1>19. ToldSo(response', m)
  <2>1. taken.request \in awaited
    BY <1>1, <1>4, <1>13 DEF Awaiting
  <2>2. ASSUME ~taken.request.failed, IsPrefix(key, m)
        PROVE  FreshIn(entry, key, m, taken.request.since)
    <3>1. Asks(taken.request, m)
      BY <2>2, <1>1, <1>9 DEF Asks
    <3>2. PICK since : since = taken.request.since
      OBVIOUS
    <3>3. Shown(new, path, m, since[m])
      BY <2>1, <2>2, <3>1, <3>2, <1>14 DEF Answerable
    <3>4. FreshIn([value |-> Copy(new, key), blank |-> path], key, m, since)
      BY <2>2, <3>3, <1>9, <1>10, CopyHolds
    <3> QED BY <3>2, <3>4, <1>3
  <2>3. ASSUME ~next.request.failed, NEW i \in 1 .. Len(next.got),
               IsPrefix(next.request.keys[i], m)
        PROVE  FreshIn(next.got[i], next.request.keys[i], m, next.request.since)
    <3>1. CASE i = Len(taken.got) + 1
      <4>1. next.got[i] = entry /\ next.request.keys[i] = key
        BY <3>1, <1>1, <1>4, <1>16, <1>17
      <4> QED BY <4>1, <2>2, <2>3, <1>16
    <3>2. CASE i # Len(taken.got) + 1
      <4>1. i \in 1 .. Len(taken.got)
        BY <3>2, <1>8, <1>17
      <4>2. next.got[i] = taken.got[i] /\ next.request = taken.request
        BY <4>1, <1>16, <1>17
      <4>3. ToldSo(response, m)
        BY DEF Following, Followed
      <4> QED BY <4>1, <4>2, <4>3, <2>3, <1>1, <1>4 DEF ToldSo
    <3> QED BY <3>1, <3>2
  <2>4. ToldSo(response, m)
    BY DEF Following, Followed
  <2> QED BY <2>3, <2>4, <1>16 DEF ToldSo
<1>20. /\ Timely(memory, pending, server, Awaiting(queue, response'), m)
       /\ Answerable(new, path, Awaiting(queue, response'), m)
  <2>1. PICK mem, fewer : mem = memory /\ fewer = Awaiting(queue, response')
    OBVIOUS
  <2>2. Timely(mem, pending, server, awaited, m) /\ fewer \subseteq awaited
    BY <2>1, <1>13, <1>18 DEF Following, Followed
  <2>3. Timely(mem, pending, server, fewer, m) /\ Answerable(new, path, fewer, m)
    BY <2>2, <1>14, FewerAwaiting
  <2> QED BY <2>1, <2>3
<1>21. Stepping(new, server, m) /\ StoredSo(new, server, m)
  <2>1. Stepping(tree, server, m) /\ StoredSo(tree, server, m)
    BY <1>2 DEF Following, Followed
  <2>2. m \in DOMAIN tree => m \in DOMAIN new
    BY <1>12 DEF Keeps
  <2>3. Stepping(new, server, m)
    BY <2>1, <2>2 DEF Stepping
  <2>4. \A at, stamp : Shown(tree, at, m, stamp) => Shown(new, at, m, stamp)
    BY <1>12, ShownKept
  <2>5. StoredSo(new, server, m)
    BY <2>1, <2>4 DEF StoredSo
  <2> QED BY <2>3, <2>5
<1> QED
  BY <1>0, <1>2, <1>12, <1>19, <1>20, <1>21 DEF Following, Followed

-----------------------------------------------------------------------------
(* The writes.                                                             *)
LEMMA FollowStartWrite ==
  ASSUME NEW m \in Cell, Plain(m), Following(m), StartWrite, UNCHANGED parsedSymbols
  PROVE  Followed(m)'
<1>0. UNCHANGED <<memory, symbolData, pending, queue, server, response>>
  BY DEF StartWrite
<1>1. PICK message \in Messages : \E granted : symbolInfo' = Looked(symbolInfo, message, granted)
  BY DEF StartWrite
<1>2. PICK granted : symbolInfo' = Looked(symbolInfo, message, granted)
  BY <1>1
<1>3. message \in Seq(Name) /\ ToSet(message) \subseteq Named \cup Property
  BY KeyListsAre DEF Named
<1>4. PICK old, new : old = symbolInfo /\ new = symbolInfo'
  OBVIOUS
<1>5. Clear(new, m) /\ Grows(old, new)
  <2>1. /\ Clear(Looked(symbolInfo, message, granted), m)
        /\ Grows(symbolInfo, Looked(symbolInfo, message, granted))
    BY <1>3, NamesLooked
  <2> QED BY <2>1, <1>2, <1>4
<1>6. Aiming(new, server.commands, m)
  BY <1>4, <1>5 DEF Following, Followed, Aiming, Grows
<1> QED
  BY <1>0, <1>4, <1>5, <1>6 DEF Following, Followed

(* A write only makes the values of the PLC newer.                         *)
LEMMA FollowSumWrite ==
  ASSUME NEW m \in Cell, Plain(m), Following(m), SumWrite, UNCHANGED parsedSymbols
  PROVE  Followed(m)'
<1>0. UNCHANGED <<symbolInfo, symbolData, pending, queue, server, response>>
  BY DEF SumWrite, cacheVars
<1>1. PICK targets : memory' = [c \in Stored |-> IF c \in targets THEN memory[c] + 1
                                                                 ELSE memory[c]]
  BY DEF SumWrite
<1>2. m \in Stored
  BY DEF Stored
<1>3. PICK mem, new, waiting : mem = memory /\ new = memory' /\ waiting = Awaiting(queue, response)
  OBVIOUS
<1>4. /\ mem[m] \in Nat /\ new[m] \in {mem[m], mem[m] + 1}
      /\ \A r \in pending \cup server.batch \cup waiting : r.since[m] \in Nat
  BY <1>1, <1>2, <1>3, Requested DEF Following
<1>5. Timely(mem, pending, server, waiting, m)
  BY <1>3 DEF Following, Followed
<1>6. Timely(new, pending, server, waiting, m)
  BY <1>4, <1>5 DEF Timely
<1> QED
  BY <1>0, <1>3, <1>6 DEF Following, Followed

-----------------------------------------------------------------------------
(* Nothing that m's values depend on changes.                              *)
LEMMA FollowSame ==
  ASSUME NEW m, Followed(m), UNCHANGED dataVars
  PROVE  Followed(m)'
BY DEF dataVars, cacheVars, Followed

(* Every step of the threads.                                              *)
LEMMA FollowNext ==
  ASSUME NEW m \in Cell, Plain(m), Following(m), Next
  PROVE  Followed(m)'
<1>0. UNCHANGED parsedSymbols
  BY DEF Next
<1>1. CASE PlcCycle
  BY <1>0, <1>1, FollowPlcCycle
<1>2. CASE \E keys \in KeyLists : Ask(keys)
  BY <1>0, <1>2, FollowAsk
<1>3. CASE ServerThread
  <2>1. CASE NothingPending
    BY <2>1, FollowSame DEF NothingPending, vars, Following
  <2>2. CASE StartRead
    BY <1>0, <2>2, FollowStartRead
  <2>3. CASE SumRead
    BY <1>0, <2>3, FollowSumRead
  <2>4. CASE StoreNext
    BY <1>0, <2>4, FollowStoreNext
  <2>5. CASE ParseLeaf
    BY <1>0, <2>5, FollowParseLeaf
  <2>6. CASE AssignValue
    BY <1>0, <2>6, FollowAssignValue
  <2>7. CASE QueueBatch
    BY <1>0, <2>7, FollowQueueBatch
  <2> QED
    BY <1>3, <2>1, <2>2, <2>3, <2>4, <2>5, <2>6, <2>7 DEF ServerThread
<1>4. CASE \E p \in Responders : ResponseThread(p)
  <2>1. PICK p \in Responders : ResponseThread(p)
    BY <1>4
  <2>2. CASE TakeResponse(p)
    BY <1>0, <2>2, FollowTakeResponse
  <2>3. CASE GetSymbolValue(p)
    BY <1>0, <2>3, FollowGetSymbolValue
  <2>4. CASE SendResponse(p)
    BY <1>0, <2>4, FollowSendResponse
  <2> QED
    BY <2>1, <2>2, <2>3, <2>4 DEF ResponseThread
<1>5. CASE StartWrite
  BY <1>0, <1>5, FollowStartWrite
<1>6. CASE SumWrite
  BY <1>0, <1>6, FollowSumWrite
<1> QED
  BY <1>1, <1>2, <1>3, <1>4, <1>5, <1>6 DEF Next

(* Before the first request there is nothing to follow.                    *)
LEMMA FollowInit ==
  ASSUME Init, NEW m
  PROVE  Followed(m)
<1>0. /\ symbolInfo = <<>> /\ symbolData = EmptyTree /\ pending = {} /\ queue = {}
      /\ server = IdleServer /\ response = [p \in Responders |-> None]
  BY DEF Init
<1>1. /\ IdleServer.path = <<>> /\ IdleServer.pc = "idle" /\ IdleServer.batch = {}
      /\ IdleServer.commands = <<>> /\ IdleServer.at = 1 /\ IdleServer.pdata = 1
  BY DEF IdleServer
<1>2. Len(<<>>) = 0 /\ DOMAIN <<>> = {}
  OBVIOUS
<1>3. Clear(<<>>, m) /\ Aiming(<<>>, <<>>, m)
  BY <1>2 DEF Clear, Aiming
<1>4. Clean(EmptyTree, m)
  BY DEF Clean, EmptyTree, Holder
<1>5. Covered(IdleServer, m) /\ Stepping(EmptyTree, IdleServer, m) /\ StoredSo(EmptyTree, IdleServer, m)
  BY <1>1 DEF Covered, Stepping, StoredSo, Busy
<1>6. Awaiting(queue, response) = {}
  BY <1>0 DEF Awaiting
<1>7. Timely(memory, {}, IdleServer, {}, m) /\ Answerable(EmptyTree, <<>>, {}, m)
  BY <1>1 DEF Timely, Answerable, Busy
<1>8. ToldSo(response, m)
  BY <1>0 DEF ToldSo
<1> QED
  BY <1>0, <1>1, <1>3, <1>4, <1>5, <1>6, <1>7, <1>8 DEF Followed

-----------------------------------------------------------------------------
(***************************************************************************)
(* The inductive invariant: nothing is shared before the tables are there; *)
(* from then on, if they are whole, every plain variable is followed.      *)
(***************************************************************************)
AnswersFollowed ==
  /\ main \in {"configure", "connect", "sleep"} => Init
  /\ parsedSymbols = WholeTables => \A m \in Cell : Plain(m) => Followed(m)

(* The invariant holds at the start ...                                    *)
LEMMA InitAnswersFollowed == ServerInit => AnswersFollowed
BY FollowInit DEF ServerInit, AnswersFollowed

(* ... and after every step of the server.                                 *)
LEMMA StepAnswersFollowed ==
  ASSUME SourceSound, WriteSound, AnswersFollowed, [ServerNext]_serverVars
  PROVE  AnswersFollowed'
<1>1. CASE Serve
  <2>1. Next /\ main = "serve" /\ main' = main /\ parsedSymbols' = parsedSymbols
    BY <1>1 DEF Serve, Next
  <2>2. ASSUME parsedSymbols' = WholeTables, NEW m \in Cell, Plain(m)
        PROVE  Followed(m)'
    <3>1. Following(m)
      BY <2>1, <2>2 DEF AnswersFollowed, WriteSound, Following
    <3> QED BY <2>1, <2>2, <3>1, FollowNext
  <2> QED BY <2>1, <2>2 DEF AnswersFollowed
<1>2. CASE ReadInfo
  <2>1. Init /\ UNCHANGED dataVars /\ main' \in {"serve", "ended"}
    BY <1>2 DEF ReadInfo, AnswersFollowed
  <2>2. \A m : Followed(m)'
    <3> TAKE m
    <3>1. Followed(m)
      BY <2>1, FollowInit
    <3> QED BY <2>1, <3>1, FollowSame
  <2> QED BY <2>1, <2>2 DEF AnswersFollowed
<1>3. CASE UNCHANGED vars /\ (main' \in {"configure", "connect", "sleep"}
                                => main \in {"configure", "connect", "sleep"})
  <2>1. UNCHANGED dataVars /\ UNCHANGED parsedSymbols
    BY <1>3 DEF vars
  <2>2. \A m : Followed(m) => Followed(m)'
    BY <2>1, FollowSame
  <2>3. Init => Init'
    BY <2>1 DEF Init, dataVars, cacheVars
  <2> QED BY <2>1, <2>2, <2>3, <1>3 DEF AnswersFollowed
<1>4. \/ Serve \/ ReadInfo
      \/ UNCHANGED vars /\ (main' \in {"configure", "connect", "sleep"}
                              => main \in {"configure", "connect", "sleep"})
  BY DEF ServerNext, ReadConfiguration, NoPlcConnection, TryAgain, Ended, serverVars
<1> QED
  BY <1>1, <1>2, <1>3, <1>4

(* A key that names m, as the PLC or a client writes it, is on its way.    *)
LEMMA FollowedIsFresh ==
  ASSUME SourceSound, NEW m \in Cell, Plain(m), Followed(m)
  PROVE  Fresh(m)
<1> SUFFICES ASSUME NEW p \in Responders, response[p] # None, ~response[p].request.failed,
                    NEW i \in DOMAIN response[p].got,
                    Names(response[p].request.keys[i], m)
             PROVE  FreshIn(response[p].got[i], response[p].request.keys[i], m,
                            response[p].request.since)
  BY DEF Fresh
<1>1. PICK taken, keys : taken = response[p] /\ keys = taken.request.keys
  OBVIOUS
<1>2. ResponsePlaced(taken) /\ taken # None
  BY <1>1 DEF SourceSound, ResponsesPlaced
<1>3. keys \in KeyLists /\ keys \in Seq(Name) /\ Len(taken.got) <= Len(keys)
  BY <1>1, <1>2, KeyListsAre DEF ResponsePlaced, Requests
<1>4. PICK S : taken.got \in Seq(S)
  BY <1>2 DEF ResponsePlaced
<1>5. i \in 1 .. Len(taken.got) /\ i \in 1 .. Len(keys)
  BY <1>1, <1>3, <1>4
<1>6. keys[i] \in Named
  <2>1. keys[i] \in ToSet(keys)
    BY <1>3, <1>5 DEF ToSet
  <2>2. ToSet(keys) \subseteq ClientNames
    BY <1>3 DEF ClientNames
  <2> QED BY <2>1, <2>2 DEF Named
<1>7. IsPrefix(keys[i], m)
  BY <1>1, <1>6, PlainIs
<1> QED
  BY <1>1, <1>5, <1>7 DEF Followed, ToldSo

(* "If everything has been set up correctly, the Lux client will be able to*)
(* read and write variables located on the TwinCAT PLC": whenever the      *)
(* server has both tables, an answer that holds a plain variable holds its *)
(* value, of a moment after the request was made; whatever the threads do  *)
(* in between, and however many requests, writes and cycles there are.     *)
THEOREM PlainAnswersAreFresh == ServerSpec => []PlainAnswersFresh
<1>1. SourceSound /\ AnswersFollowed => PlainAnswersFresh
  BY FollowedIsFresh DEF AnswersFollowed, PlainAnswersFresh
<1>2. SourceSound /\ WriteSound /\ AnswersFollowed /\ [ServerNext]_serverVars => AnswersFollowed'
  BY StepAnswersFollowed
<1> QED
  BY <1>1, <1>2, InitAnswersFollowed, AlwaysSound, AlwaysWriteSound, PTL DEF ServerSpec

=============================================================================
