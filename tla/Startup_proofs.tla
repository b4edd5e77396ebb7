---------------------------- MODULE Startup_proofs ----------------------------
(***************************************************************************)
(* Proofs about the server from its start on (Startup): what its caches    *)
(* hold and answers carry, the names it writes, and the address it talks to.*)
(***************************************************************************)
EXTENDS Startup, Iteration_proofs, SequenceTheorems, FiniteSetTheorems, TLAPS

-----------------------------------------------------------------------------
(***************************************************************************)
(* Names, and the addresses of the nodes: Address is what the PLC has,     *)
(* CachedAddress what getMemberInfo adds up.  Both follow the tree.        *)
(***************************************************************************)
Name == Seq(DOMAIN Lower) \ {<<>>}

(* The first k components of a name.                                       *)
LEMMA PrefixIs ==
  ASSUME NEW S, NEW n \in Seq(S), NEW k \in 0 .. Len(n)
  PROVE  /\ SubSeq(n, 1, k) \in Seq(S) /\ Len(SubSeq(n, 1, k)) = k
         /\ \A i \in 1 .. k : SubSeq(n, 1, k)[i] = n[i]
<1>1. k \in Int /\ 1 \in Int /\ \A i \in 1 .. k : n[i] \in S
  BY ElementOfSeq
<1>2. /\ SubSeq(n, 1, k) \in Seq(S)
      /\ Len(SubSeq(n, 1, k)) = IF 1 <= k THEN k - 1 + 1 ELSE 0
      /\ \A i \in 1 .. k - 1 + 1 : SubSeq(n, 1, k)[i] = n[1 + i - 1]
  BY <1>1, SubSeqProperties
<1> QED
  BY <1>2

(* All components of a name but the last, and the last.                    *)
LEMMA Fronts ==
  ASSUME NEW S, NEW n \in Seq(S), n # <<>>
  PROVE  /\ Len(n) \in Nat \ {0}
         /\ Front(n) \in Seq(S) /\ Len(Front(n)) = Len(n) - 1
         /\ \A i \in 1 .. Len(n) - 1 : Front(n)[i] = n[i]
         /\ Last(n) \in S
<1>1. Len(n) \in Nat \ {0} /\ Len(n) - 1 \in 0 .. Len(n) /\ Len(n) \in 1 .. Len(n)
  BY EmptySeq
<1>2. Last(n) \in S
  BY <1>1, ElementOfSeq DEF Last
<1> DEFINE k == Len(n) - 1
<1> HIDE DEF k
<1>3. /\ SubSeq(n, 1, k) \in Seq(S) /\ Len(SubSeq(n, 1, k)) = k
      /\ \A i \in 1 .. k : SubSeq(n, 1, k)[i] = n[i]
  <2>1. k \in 0 .. Len(n) BY <1>1 DEF k
  <2> QED BY <2>1, PrefixIs
<1> QED
  BY <1>1, <1>2, <1>3 DEF Front, k

(* The nodes of the program are names, and what is above one is one.       *)
LEMMA NodeNames ==
  ASSUME NEW n \in Node
  PROVE  /\ n \in Name
         /\ ~IsSymbol(n) => Front(n) \in Node
BY NodeIsTree DEF Name, IsSymbol

TreeSum(g, A, B, k) ==
  \A n \in Node : Len(n) <= k =>
    g[n] = IF IsSymbol(n) THEN A[n] ELSE g[Front(n)] + B[n]

(* A sum along the way down the tree is determined by what it adds up ...  *)
LEMMA TreeSumUnique ==
  ASSUME NEW A, NEW B, NEW k \in Nat, NEW g, NEW h,
         TreeSum(g, A, B, k), TreeSum(h, A, B, k)
  PROVE  \A n \in Node : Len(n) <= k => g[n] = h[n]
<1> DEFINE P == {i \in 0 .. k : \A n \in Node : Len(n) <= i => g[n] = h[n]}
<1>0. \A n \in Node : /\ Len(n) \in Nat \ {0}
                      /\ ~IsSymbol(n) => Front(n) \in Node /\ Len(Front(n)) = Len(n) - 1
  BY NodeNames, Fronts DEF Name
<1>1. 0 \in P
  BY <1>0
<1>2. ASSUME NEW i \in 1 .. k, i - 1 \in P PROVE i \in P
  <2>1. ASSUME NEW n \in Node, Len(n) <= i PROVE g[n] = h[n]
    <3>1. CASE IsSymbol(n) BY <3>1, <2>1, <1>0 DEF TreeSum
    <3>2. CASE ~IsSymbol(n)
      <4>1. g[Front(n)] = h[Front(n)] BY <3>2, <2>1, <1>2, <1>0
      <4> QED BY <4>1, <3>2, <2>1, <1>0 DEF TreeSum
    <3> QED BY <3>1, <3>2
  <2> QED BY <2>1
<1>3. k \in P
  <2> HIDE DEF P
  <2> QED BY <1>1, <1>2, InductionTo
<1> QED
  BY <1>3

(* ... it exists down to any depth ...                                     *)
LEMMA TreeSumUpTo ==
  ASSUME NEW A \in [Node -> Nat], NEW B \in [Node -> Nat], NEW k \in Nat
  PROVE  \E g \in [Node -> Nat] : TreeSum(g, A, B, k)
<1> DEFINE P == {i \in Nat : \E g \in [Node -> Nat] : TreeSum(g, A, B, i)}
<1>0. \A n \in Node : /\ Len(n) \in Nat \ {0}
                      /\ ~IsSymbol(n) => Front(n) \in Node /\ Len(Front(n)) = Len(n) - 1
  BY NodeNames, Fronts DEF Name
<1>1. 0 \in P
  BY <1>0 DEF TreeSum
<1>2. ASSUME NEW i \in Nat, i \in P PROVE i + 1 \in P
  <2>1. PICK h \in [Node -> Nat] : TreeSum(h, A, B, i)
    BY <1>2
  <2> DEFINE Next1(n) == IF IsSymbol(n) THEN A[n] ELSE h[Front(n)] + B[n]
             g == [n \in Node |-> IF Len(n) <= i THEN h[n] ELSE Next1(n)]
  <2>2. \A n \in Node : Next1(n) \in Nat
    BY <1>0
  <2>3. g \in [Node -> Nat]
    <3> HIDE DEF Next1
    <3> QED BY <2>2
  <2>4. ASSUME NEW n \in Node, Len(n) <= i + 1
        PROVE  g[n] = IF IsSymbol(n) THEN A[n] ELSE g[Front(n)] + B[n]
    <3>1. ~IsSymbol(n) => g[Front(n)] = h[Front(n)]
      BY <1>0, <2>4
    <3>2. g[n] = Next1(n)
      BY <2>1, <1>0 DEF TreeSum
    <3> QED BY <3>1, <3>2
  <2>5. TreeSum(g, A, B, i + 1)
    <3> HIDE DEF g
    <3> QED BY <2>4 DEF TreeSum
  <2> HIDE DEF g
  <2> QED BY <2>3, <2>5
<1>3. k \in P
  <2> HIDE DEF P
  <2> QED BY <1>1, <1>2, Induction
<1> QED
  BY <1>3

(* ... and for the whole tree.                                             *)
LEMMA TreeSumExists ==
  ASSUME NEW A \in [Node -> Nat], NEW B \in [Node -> Nat]
  PROVE  \E g \in [Node -> Nat] :
           g = [n \in Node |-> IF IsSymbol(n) THEN A[n] ELSE g[Front(n)] + B[n]]
<1> DEFINE Up(k) == CHOOSE g \in [Node -> Nat] : TreeSum(g, A, B, k)
           g == [n \in Node |-> Up(Len(n))[n]]
<1>0. \A n \in Node : /\ Len(n) \in Nat \ {0}
                      /\ ~IsSymbol(n) => Front(n) \in Node /\ Len(Front(n)) = Len(n) - 1
  BY NodeNames, Fronts DEF Name
<1>1. \A k \in Nat : Up(k) \in [Node -> Nat] /\ TreeSum(Up(k), A, B, k)
  BY TreeSumUpTo
<1> HIDE DEF Up
<1>2. g \in [Node -> Nat]
  BY <1>0, <1>1
<1>3. ASSUME NEW n \in Node
      PROVE  g[n] = IF IsSymbol(n) THEN A[n] ELSE g[Front(n)] + B[n]
  <2>1. Up(Len(n))[n] = IF IsSymbol(n) THEN A[n] ELSE Up(Len(n))[Front(n)] + B[n]
    BY <1>0, <1>1 DEF TreeSum
  <2>2. ASSUME ~IsSymbol(n)
        PROVE  Up(Len(n))[Front(n)] = Up(Len(Front(n)))[Front(n)]
    <3> DEFINE m == Front(n)
    <3>1. m \in Node /\ Len(m) \in Nat /\ Len(m) <= Len(n)
      BY <1>0, <2>2
    <3>2. TreeSum(Up(Len(n)), A, B, Len(m)) /\ TreeSum(Up(Len(m)), A, B, Len(m))
      <4>1. TreeSum(Up(Len(n)), A, B, Len(n)) /\ TreeSum(Up(Len(m)), A, B, Len(m))
        BY <1>0, <1>1, <3>1
      <4> QED BY <4>1, <3>1, <1>0 DEF TreeSum
    <3> HIDE DEF m
    <3>3. Up(Len(n))[m] = Up(Len(m))[m]
      BY <3>1, <3>2, TreeSumUnique
    <3> QED BY <3>3 DEF m
  <2> QED
    BY <2>1, <2>2, <1>0
<1> QED
  <2>1. g = [n \in Node |-> IF IsSymbol(n) THEN A[n] ELSE g[Front(n)] + B[n]]
    <3> HIDE DEF g
    <3> QED BY <1>2, <1>3
  <2> HIDE DEF g
  <2> QED BY <1>2, <2>1

(* The PLC's addresses are such sums: a variable is at its place in what   *)
(* it is in.                                                               *)
LEMMA AddressIs ==
  /\ Address \in [Node -> Nat]
  /\ \A n \in Node : Address[n] = IF IsSymbol(n) THEN Place[n]
                                  ELSE Address[Front(n)] + Place[n]
<1> DEFINE Is(g) == g = [n \in Node |-> IF IsSymbol(n) THEN Place[n]
                                        ELSE g[Front(n)] + Place[n]]
<1>1. \E g \in [Node -> Nat] : Is(g)
  BY TreeSumExists, NodeAttributes
<1>2. Address = CHOOSE g : Is(g)
  BY DEF Address
<1>3. Is(Address)
  BY <1>1, <1>2
<1>4. \A g, h : Is(g) /\ Is(h) => g = h
  <2> SUFFICES ASSUME NEW g, NEW h, Is(g), Is(h) PROVE g = h
    OBVIOUS
  <2>0. \A n \in Node : Len(n) \in Nat
    BY NodeNames, Fronts DEF Name
  <2>1. DOMAIN g = Node /\ DOMAIN h = Node /\ g = [n \in Node |-> g[n]]
        /\ h = [n \in Node |-> h[n]]
    OBVIOUS
  <2>2. \A k \in Nat : TreeSum(g, Place, Place, k) /\ TreeSum(h, Place, Place, k)
    BY DEF TreeSum
  <2> HIDE DEF Is
  <2>3. ASSUME NEW n \in Node PROVE g[n] = h[n]
    <3>1. \A m \in Node : Len(m) <= Len(n) => g[m] = h[m]
      BY <2>0, <2>2, TreeSumUnique
    <3> QED BY <3>1, <2>0
  <2> QED BY <2>1, <2>3
<1>5. Address \in [Node -> Nat]
  <2> HIDE DEF Is
  <2> QED BY <1>1, <1>3, <1>4
<1> QED
  BY <1>3, <1>5

(* So is what getMemberInfo adds up, with what it passes down.             *)
LEMMA MemberBaseIs ==
  /\ MemberBase \in [Node -> Nat]
  /\ \A n \in Node : MemberBase[n] = IF IsSymbol(n) THEN Place[n]
                                     ELSE MemberBase[Front(n)] + PassedDown(n)
<1> DEFINE B == [n \in Node |-> PassedDown(n)]
           Is(g) == g = [n \in Node |-> IF IsSymbol(n) THEN Place[n]
                                        ELSE g[Front(n)] + PassedDown(n)]
<1>b. \A n \in Node : B[n] = PassedDown(n)
  OBVIOUS
<1>0. B \in [Node -> Nat]
  BY NodeAttributes DEF PassedDown
<1>1. \E g \in [Node -> Nat] : Is(g)
  <2>1. \E g \in [Node -> Nat] :
          g = [n \in Node |-> IF IsSymbol(n) THEN Place[n] ELSE g[Front(n)] + B[n]]
    <3> HIDE DEF B
    <3> QED BY <1>0, TreeSumExists, NodeAttributes
  <2> QED BY <2>1
<1>2. MemberBase = CHOOSE g : Is(g)
  BY DEF MemberBase
<1>3. Is(MemberBase)
  BY <1>1, <1>2
<1>4. \A g, h : Is(g) /\ Is(h) => g = h
  <2> SUFFICES ASSUME NEW g, NEW h, Is(g), Is(h) PROVE g = h
    OBVIOUS
  <2>0. \A n \in Node : Len(n) \in Nat
    BY NodeNames, Fronts DEF Name
  <2>1. DOMAIN g = Node /\ DOMAIN h = Node /\ g = [n \in Node |-> g[n]]
        /\ h = [n \in Node |-> h[n]]
    OBVIOUS
  <2>2. \A k \in Nat : TreeSum(g, Place, B, k) /\ TreeSum(h, Place, B, k)
    BY DEF TreeSum
  <2> HIDE DEF Is, B
  <2>3. ASSUME NEW n \in Node PROVE g[n] = h[n]
    <3>1. \A m \in Node : Len(m) <= Len(n) => g[m] = h[m]
      BY <2>0, <2>2, TreeSumUnique
    <3> QED BY <3>1, <2>0
  <2> QED BY <2>1, <2>3
<1>5. MemberBase \in [Node -> Nat]
  <2> HIDE DEF Is
  <2> QED BY <1>1, <1>3, <1>4
<1> QED
  BY <1>3, <1>5

(* What is on the way to something on the way is on the way.               *)
LEMMA PrefixOfPrefix ==
  ASSUME NEW S, NEW n \in Seq(S), NEW k \in 0 .. Len(n), NEW j \in 0 .. k
  PROVE  SubSeq(SubSeq(n, 1, k), 1, j) = SubSeq(n, 1, j)
<1> DEFINE m == SubSeq(n, 1, k)
<1>1. m \in Seq(S) /\ Len(m) = k /\ \A i \in 1 .. k : m[i] = n[i]
  BY PrefixIs
<1> HIDE DEF m
<1>2. j \in 0 .. Len(m) /\ j \in 0 .. Len(n)
  BY <1>1
<1>3. /\ SubSeq(m, 1, j) \in Seq(S) /\ Len(SubSeq(m, 1, j)) = j
      /\ \A i \in 1 .. j : SubSeq(m, 1, j)[i] = m[i]
  BY <1>1, <1>2, PrefixIs
<1>4. /\ SubSeq(n, 1, j) \in Seq(S) /\ Len(SubSeq(n, 1, j)) = j
      /\ \A i \in 1 .. j : SubSeq(n, 1, j)[i] = n[i]
  BY <1>2, PrefixIs
<1>5. \A i \in 1 .. j : SubSeq(m, 1, j)[i] = SubSeq(n, 1, j)[i]
  BY <1>1, <1>3, <1>4
<1>6. SubSeq(m, 1, j) = SubSeq(n, 1, j)
  BY <1>3, <1>4, <1>5, SeqEqual
<1> QED
  BY <1>6 DEF m

(* Outside arrays getMemberInfo adds up the PLC's addresses.               *)
LEMMA BaseIsAddress ==
  ASSUME NEW n \in Node, \A j \in 1 .. Len(n) - 1 : SubSeq(n, 1, j) \notin Array
  PROVE  MemberBase[n] = Address[n]
<1> DEFINE Outside(m) == \A j \in 1 .. Len(m) - 1 : SubSeq(m, 1, j) \notin Array
           P == {k \in Nat : \A m \in Node : Len(m) <= k /\ Outside(m)
                                             => MemberBase[m] = Address[m]}
<1>0. \A m \in Node : /\ m \in Seq(DOMAIN Lower) /\ Len(m) \in Nat \ {0}
                      /\ ~IsSymbol(m) => Front(m) \in Node /\ Len(Front(m)) = Len(m) - 1
  BY NodeNames, Fronts DEF Name
<1>1. 0 \in P
  BY <1>0
<1>2. ASSUME NEW k \in Nat, k \in P PROVE k + 1 \in P
  <2> SUFFICES ASSUME NEW m \in Node, Len(m) <= k + 1, Outside(m)
               PROVE  MemberBase[m] = Address[m]
    OBVIOUS
  <2>1. CASE IsSymbol(m)
    BY <2>1, AddressIs, MemberBaseIs
  <2>2. CASE ~IsSymbol(m)
    <3> DEFINE f == Front(m)
    <3>1. f \in Node /\ Len(f) = Len(m) - 1 /\ Len(f) <= k /\ Len(f) \in Nat \ {0}
      BY <1>0, <2>2
    <3>2. \A j \in 1 .. Len(f) : SubSeq(f, 1, j) = SubSeq(m, 1, j)
      BY <3>1, <1>0, PrefixOfPrefix DEF Front
    <3>3. f \notin Array
      <4>1. Len(f) \in 1 .. Len(m) - 1 /\ f = SubSeq(m, 1, Len(f))
        BY <3>1 DEF Front
      <4> QED BY <4>1
    <3>4. Outside(f)
      <4> SUFFICES ASSUME NEW j \in 1 .. Len(f) - 1 PROVE SubSeq(f, 1, j) \notin Array
        OBVIOUS
      <4>1. j \in 1 .. Len(f) /\ j \in 1 .. Len(m) - 1
        BY <3>1
      <4>2. SubSeq(f, 1, j) = SubSeq(m, 1, j)
        BY <4>1, <3>2
      <4>3. SubSeq(m, 1, j) \notin Array
        BY <4>1
      <4> QED BY <4>2, <4>3
    <3> HIDE DEF f
    <3>5. MemberBase[f] = Address[f]
      BY <3>1, <3>4, <1>2
    <3> QED BY <3>3, <3>5, <2>2, AddressIs, MemberBaseIs DEF PassedDown, f
  <2> QED BY <2>1, <2>2
<1>3. Nat \subseteq P
  <2> HIDE DEF P
  <2> QED BY <1>1, <1>2, Induction
<1>4. Len(n) \in P /\ Outside(n)
  BY <1>0, <1>3
<1> QED
  BY <1>4

(* So a cached address is right, except below an element of an array.      *)
LEMMA CachedIsAddress ==
  ASSUME NEW n \in Node
  PROVE  /\ CachedAddress(n) \in Nat
         /\ ~InElement(n) => CachedAddress(n) = Address[n]
<1>0. /\ n \in Seq(DOMAIN Lower) /\ Len(n) \in Nat \ {0}
      /\ ~IsSymbol(n) => Front(n) \in Node /\ Len(Front(n)) = Len(n) - 1
  BY NodeNames, Fronts DEF Name
<1>1. CachedAddress(n) \in Nat
  BY <1>0, MemberBaseIs, NodeAttributes DEF CachedAddress
<1>2. ASSUME ~InElement(n) PROVE CachedAddress(n) = Address[n]
  <2>1. CASE IsSymbol(n)
    BY <2>1, AddressIs DEF CachedAddress
  <2>2. CASE ~IsSymbol(n)
    <3> DEFINE f == Front(n)
    <3>1. f \in Node /\ Len(f) = Len(n) - 1
      BY <1>0, <2>2
    <3>2. ASSUME NEW j \in 1 .. Len(f) - 1 PROVE SubSeq(f, 1, j) \notin Array
      <4>1. SubSeq(f, 1, j) = SubSeq(n, 1, j)
        BY <3>1, <1>0, PrefixOfPrefix DEF Front
      <4>2. j + 1 \in 2 .. Len(n) - 1 /\ (j + 1) - 1 = j
        BY <3>1, <1>0
      <4> QED BY <4>1, <4>2, <1>2 DEF InElement
    <3>3. MemberBase[f] = Address[f]
      BY <3>1, <3>2, BaseIsAddress
    <3> QED BY <3>3, <2>2, AddressIs DEF CachedAddress
  <2> QED BY <2>1, <2>2
<1> QED
  BY <1>1, <1>2

-----------------------------------------------------------------------------
(***************************************************************************)
(* Names below names.                                                      *)
(***************************************************************************)
LEMMA BelowIs ==
  ASSUME NEW S, NEW p \in Seq(S), NEW m \in Seq(S)
  PROVE  Below(m, p) <=> Len(p) < Len(m) /\ p = SubSeq(m, 1, Len(p))
<1>1. SubSeq(p, 1, Len(p)) = p /\ SubSeq(m, 1, Len(m)) = m
  BY SubSeqFull
<1>2. Len(p) \in Nat /\ Len(m) \in Nat
  OBVIOUS
<1>3. ASSUME Len(p) < Len(m), p = SubSeq(m, 1, Len(p)) PROVE p # m
  BY <1>3
<1>4. ASSUME Below(m, p) PROVE Len(p) < Len(m) /\ p = SubSeq(m, 1, Len(p))
  BY <1>1, <1>2, <1>4 DEF Below, IsStrictPrefix, IsPrefix
<1> QED
  BY <1>1, <1>2, <1>3, <1>4 DEF Below, IsStrictPrefix, IsPrefix

(* The symbols of the table are nodes.                                     *)
LEMMA SymbolsAreNodes ==
  /\ \A i \in DOMAIN Symbols : Symbols[i] \in Node /\ IsSymbol(Symbols[i])
  /\ \A s : IsSymbol(s) => s \in Node
  /\ DOMAIN Symbols \subseteq Nat
BY NodeIsTree DEF IsSymbol, ToSet

(* What is on the way from a symbol down to a node is a node.              *)
LEMMA BelowSymbol ==
  ASSUME NEW s, IsSymbol(s), NEW m \in Node, Below(m, s),
         NEW i \in Len(s) .. Len(m)
  PROVE  SubSeq(m, 1, i) \in Node
<1>0. /\ s \in Node /\ s \in Seq(DOMAIN Lower) /\ m \in Seq(DOMAIN Lower)
      /\ Len(s) \in Nat \ {0} /\ Len(m) \in Nat
  BY SymbolsAreNodes, NodeNames, Fronts DEF Name
<1>1. Len(s) < Len(m) /\ s = SubSeq(m, 1, Len(s))
  BY <1>0, BelowIs
<1> DEFINE N == Len(m) - Len(s)
           P == {k \in 0 .. N : SubSeq(m, 1, Len(m) - k) \in Node}
<1>2. 0 \in P
  <2>1. SubSeq(m, 1, Len(m) - 0) = m
    BY <1>0, SubSeqFull
  <2>2. 0 \in 0 .. N
    BY <1>0, <1>1
  <2> QED BY <2>1, <2>2
<1>3. ASSUME NEW k \in 1 .. N, k - 1 \in P PROVE k \in P
  <2> DEFINE j == Len(m) - k
             q == SubSeq(m, 1, j + 1)
  <2>1. /\ q \in Node /\ q \in Seq(DOMAIN Lower) /\ Len(q) = j + 1
        /\ j \in Nat /\ Len(s) < j + 1 /\ j + 1 <= Len(m)
    <3>1. Len(m) - (k - 1) = j + 1 /\ j \in Nat /\ Len(s) < j + 1 /\ j + 1 <= Len(m)
      BY <1>0, <1>1
    <3> HIDE DEF j
    <3>2. q \in Seq(DOMAIN Lower) /\ Len(q) = j + 1
      BY <3>1, <1>0, PrefixIs
    <3> QED BY <3>1, <3>2, <1>3
  <2> HIDE DEF q, j
  <2>2. Below(q, s)
    <3>1. SubSeq(q, 1, Len(s)) = SubSeq(m, 1, Len(s))
      BY <2>1, <1>0, PrefixOfPrefix DEF q
    <3> QED BY <3>1, <2>1, <1>0, <1>1, BelowIs
  <2>3. ~IsSymbol(q)
    BY <2>2, NodeIsTree DEF Below, IsSymbol
  <2>4. Front(q) = SubSeq(m, 1, j)
    <3>1. SubSeq(q, 1, j) = SubSeq(m, 1, j)
      BY <2>1, <1>0, PrefixOfPrefix DEF q
    <3> QED BY <3>1, <2>1 DEF Front
  <2>5. SubSeq(m, 1, j) \in Node
    BY <2>1, <2>3, <2>4, NodeNames
  <2> QED BY <2>5 DEF j
<1>4. 0 .. N \subseteq P
  <2>1. N \in Nat BY <1>0, <1>1
  <2> HIDE DEF P, N
  <2> QED BY <2>1, <1>2, <1>3, InductionTo
<1>5. Len(m) - i \in 0 .. N /\ Len(m) - (Len(m) - i) = i
  BY <1>0
<1> QED
  BY <1>4, <1>5

(* Names with the same first components have the same of fewer.            *)
LEMMA SamePrefixes ==
  ASSUME NEW S, NEW m \in Seq(S), NEW n \in Seq(S),
         NEW k, k \in 0 .. Len(m), k \in 0 .. Len(n), SubSeq(m, 1, k) = SubSeq(n, 1, k)
  PROVE  \A j \in 0 .. k : SubSeq(m, 1, j) = SubSeq(n, 1, j)
<1>1. ASSUME NEW j \in 0 .. k PROVE SubSeq(m, 1, j) = SubSeq(n, 1, j)
  <2>1. SubSeq(SubSeq(m, 1, k), 1, j) = SubSeq(m, 1, j)
    BY PrefixOfPrefix
  <2>2. SubSeq(SubSeq(n, 1, k), 1, j) = SubSeq(n, 1, j)
    BY PrefixOfPrefix
  <2> QED BY <2>1, <2>2
<1> QED
  BY <1>1

(* What is on the way to a name's relative is its relative.                *)
LEMMA RelatedPrefix ==
  ASSUME NEW m \in Name, NEW n \in Name, Related(m, n), NEW i \in 1 .. Len(m)
  PROVE  Related(SubSeq(m, 1, i), n)
<1> DEFINE p == SubSeq(m, 1, i)
<1>0. /\ m \in Seq(DOMAIN Lower) /\ n \in Seq(DOMAIN Lower)
      /\ Len(m) \in Nat \ {0} /\ Len(n) \in Nat \ {0}
  BY Fronts DEF Name
<1>1. /\ p \in Seq(DOMAIN Lower) /\ Len(p) = i
      /\ \A j \in 1 .. i : p[j] = m[j]
      /\ \A j \in 0 .. i : SubSeq(p, 1, j) = SubSeq(m, 1, j)
  BY <1>0, PrefixIs, PrefixOfPrefix
<1> HIDE DEF p
<1>2. CASE i = Len(m)
  BY <1>0, <1>2, SubSeqFull DEF p
<1>3. CASE i < Len(m) /\ StartsWith(m, n)
  <2>1. Len(n) <= Len(m) /\ SubSeq(m, 1, Len(n) - 1) = SubSeq(n, 1, Len(n) - 1)
    BY <1>3 DEF StartsWith, Front
  <2>2. CASE Len(n) <= i
    <3>1. SubSeq(p, 1, Len(n) - 1) = SubSeq(m, 1, Len(n) - 1) /\ p[Len(n)] = m[Len(n)]
      BY <2>2, <1>0, <1>1
    <3>2. StartsWith(p, n)
      BY <3>1, <2>2, <1>1, <1>3 DEF StartsWith
    <3> QED BY <3>2 DEF Related, p
  <2>3. CASE i < Len(n)
    <3>1. \A j \in 0 .. Len(n) - 1 : SubSeq(m, 1, j) = SubSeq(n, 1, j)
      <4>1. Len(n) - 1 \in 0 .. Len(m) /\ Len(n) - 1 \in 0 .. Len(n)
        BY <1>0, <2>1
      <4> QED BY <4>1, <2>1, <1>0, SamePrefixes
    <3>2. p = SubSeq(n, 1, i) /\ SubSeq(n, 1, i - 1) = SubSeq(p, 1, i - 1)
      <4>1. i \in 0 .. Len(n) - 1 /\ i - 1 \in 0 .. Len(n) - 1 /\ i - 1 \in 0 .. i
        BY <2>3, <1>0
      <4>2. p = SubSeq(m, 1, i)
        BY DEF p
      <4> QED BY <4>1, <4>2, <3>1, <1>1
    <3>3. p[i] = n[i]
      <4>1. i \in 0 .. Len(n) /\ i \in 1 .. i BY <2>3, <1>0
      <4>2. SubSeq(n, 1, i)[i] = n[i] BY <4>1, <1>0, PrefixIs
      <4> QED BY <4>2, <3>2
    <3>4. StartsWith(n, p)
      BY <3>2, <3>3, <2>3, <1>0, <1>1 DEF StartsWith, Front, Last
    <3> QED BY <3>4 DEF Related, p
  <2> QED BY <2>2, <2>3, <1>0
<1>4. CASE i < Len(m) /\ StartsWith(n, m)
  <2>1. Len(m) <= Len(n) /\ SubSeq(n, 1, Len(m) - 1) = SubSeq(m, 1, Len(m) - 1)
    BY <1>4 DEF StartsWith, Front
  <2>2. \A j \in 0 .. Len(m) - 1 : SubSeq(m, 1, j) = SubSeq(n, 1, j)
    <3>1. Len(m) - 1 \in 0 .. Len(m) /\ Len(m) - 1 \in 0 .. Len(n)
      BY <1>0, <2>1
    <3> QED BY <3>1, <2>1, <1>0, SamePrefixes
  <2>3. p = SubSeq(n, 1, i) /\ SubSeq(n, 1, i - 1) = SubSeq(p, 1, i - 1)
    <3>1. i \in 0 .. Len(m) - 1 /\ i - 1 \in 0 .. Len(m) - 1 /\ i - 1 \in 0 .. i
      BY <1>4, <1>0
    <3>2. p = SubSeq(m, 1, i)
      BY DEF p
    <3> QED BY <3>1, <3>2, <2>2, <1>1
  <2>4. p[i] = n[i]
    <3>1. i \in 0 .. Len(n) /\ i \in 1 .. i BY <1>4, <2>1, <1>0
    <3>2. SubSeq(n, 1, i)[i] = n[i] BY <3>1, <1>0, PrefixIs
    <3> QED BY <3>2, <2>3
  <2>5. StartsWith(n, p)
    BY <2>1, <2>3, <2>4, <1>4, <1>0, <1>1 DEF StartsWith, Front, Last
  <2> QED BY <2>5 DEF Related, p
<1> QED
  BY <1>2, <1>3, <1>4, <1>0 DEF Related

-----------------------------------------------------------------------------
(***************************************************************************)
(* The symbol cache.  Whatever is looked up, entries have the entries on   *)
(* the way to them; what counts as found is a node of the program, at the  *)
(* address that getMemberInfo adds up for it; and what counts as complete  *)
(* has all its members.  A lookup changes neither whether a read of a      *)
(* property has failed nor what exists already.                            *)
(***************************************************************************)
Entry == [found : BOOLEAN, address : Nat, cacheComplete : BOOLEAN,
          notFound : BOOLEAN, handle : BOOLEAN, readFail : BOOLEAN]

Caches == UNION {[D -> Entry] : D \in SUBSET Name}

Rooted(info)  == \A n \in DOMAIN info : \A i \in DOMAIN n : SubSeq(n, 1, i) \in DOMAIN info
Located(info) == \A n \in DOMAIN info : info[n].found =>
                   n \in Node /\ info[n].address = CachedAddress(n)
Entire(info)  == \A n \in DOMAIN info : info[n].cacheComplete =>
                   \A d \in Node : Below(d, n) => d \in DOMAIN info /\ info[d].found

SoundCache(info) == info \in Caches /\ Rooted(info) /\ Located(info) /\ Entire(info)

Extends(info, new) == \A n \in DOMAIN info : /\ n \in DOMAIN new
                                             /\ info[n].readFail = new[n].readFail

(* A symbol cache is a function from names to entries.                     *)
LEMMA CacheIs ==
  ASSUME NEW info
  PROVE  info \in Caches <=> /\ info = [n \in DOMAIN info |-> info[n]]
                             /\ \A n \in DOMAIN info : n \in Name /\ info[n] \in Entry
<1>1. ASSUME info \in Caches
      PROVE  /\ info = [n \in DOMAIN info |-> info[n]]
             /\ \A n \in DOMAIN info : n \in Name /\ info[n] \in Entry
  <2>1. PICK D \in SUBSET Name : info \in [D -> Entry]
    BY <1>1 DEF Caches
  <2> QED BY <2>1
<1>2. ASSUME /\ info = [n \in DOMAIN info |-> info[n]]
             /\ \A n \in DOMAIN info : n \in Name /\ info[n] \in Entry
      PROVE  info \in Caches
  <2>1. info \in [DOMAIN info -> Entry] /\ DOMAIN info \in SUBSET Name
    BY <1>2
  <2> QED BY <2>1 DEF Caches
<1> QED
  BY <1>1, <1>2

(* The cache starts sound.                                                 *)
LEMMA EmptyCacheIsSound == SoundCache(<<>>)
<1>1. DOMAIN <<>> = {}
  OBVIOUS
<1>2. <<>> \in [{} -> Entry]
  BY <1>1
<1> QED
  BY <1>1, <1>2 DEF SoundCache, Caches, Rooted, Located, Entire

(* The entries that findInfo makes for a name keep it sound ...            *)
LEMMA MadeIsSound ==
  ASSUME NEW info, SoundCache(info), NEW n \in Name
  PROVE  /\ SoundCache(Made(info, n)) /\ Extends(info, Made(info, n))
         /\ n \in DOMAIN Made(info, n)
<1> DEFINE P == {SubSeq(n, 1, i) : i \in DOMAIN n}
           made == Made(info, n)
<1>0. n \in Seq(DOMAIN Lower) /\ Len(n) \in Nat \ {0} /\ DOMAIN n = 1 .. Len(n)
  BY Fronts DEF Name
<1>1. /\ DOMAIN made = DOMAIN info \cup P
      /\ made = [m \in DOMAIN made |-> made[m]]
      /\ \A m \in DOMAIN made : made[m] = IF m \in DOMAIN info THEN info[m] ELSE Unknown
  BY DEF Made
<1>2. /\ info \in Caches /\ Rooted(info) /\ Located(info) /\ Entire(info)
      /\ \A m \in DOMAIN info : m \in Name /\ info[m] \in Entry
  BY CacheIs DEF SoundCache
<1>3. \A i \in DOMAIN n : /\ SubSeq(n, 1, i) \in Name
                          /\ DOMAIN SubSeq(n, 1, i) = 1 .. i
                          /\ \A j \in 1 .. i : SubSeq(SubSeq(n, 1, i), 1, j) \in P
  <2> TAKE i \in DOMAIN n
  <2>1. /\ SubSeq(n, 1, i) \in Seq(DOMAIN Lower) /\ Len(SubSeq(n, 1, i)) = i
        /\ \A j \in 0 .. i : SubSeq(SubSeq(n, 1, i), 1, j) = SubSeq(n, 1, j)
    BY <1>0, PrefixIs, PrefixOfPrefix
  <2>2. SubSeq(n, 1, i) # <<>>
    BY <2>1, <1>0
  <2>3. \A j \in 1 .. i : j \in DOMAIN n /\ j \in 0 .. i
    BY <1>0
  <2>4. \A j \in 1 .. i : SubSeq(SubSeq(n, 1, i), 1, j) \in P
    BY <2>1, <2>3
  <2>5. DOMAIN SubSeq(n, 1, i) = 1 .. i
    BY <2>1, LenProperties
  <2> QED BY <2>1, <2>2, <2>4, <2>5 DEF Name
<1> HIDE DEF made, P
<1>4. Unknown \in Entry /\ ~Unknown.found /\ ~Unknown.cacheComplete
  BY DEF Unknown, Entry
<1>5. \A m \in P : m \in Name /\ \A i \in DOMAIN m : SubSeq(m, 1, i) \in P
  BY <1>3 DEF P
<1>6. made \in Caches
  BY <1>1, <1>2, <1>4, <1>5, CacheIs
<1>7. Rooted(made)
  BY <1>1, <1>2, <1>5 DEF Rooted
<1>8. Located(made)
  BY <1>1, <1>2, <1>4 DEF Located
<1>9. Entire(made)
  BY <1>1, <1>2, <1>4 DEF Entire
<1>10. n \in P
  <2>1. Len(n) \in DOMAIN n /\ SubSeq(n, 1, Len(n)) = n
    BY <1>0, SubSeqFull
  <2> QED BY <2>1 DEF P
<1>11. Extends(info, made)
  BY <1>1 DEF Extends
<1> QED
  BY <1>6, <1>7, <1>8, <1>9, <1>10, <1>11, <1>1 DEF SoundCache, made

(* ... so does what cacheSymbolInfo fills in ...                           *)
LEMMA CachedIsSound ==
  ASSUME NEW tables, tables.datatypes \in BOOLEAN,
         NEW info, SoundCache(info), NEW n \in Name, NEW s, IsSymbol(s)
  PROVE  /\ SoundCache(CacheSymbolInfo(tables, info, n, s))
         /\ Extends(info, CacheSymbolInfo(tables, info, n, s))
<1> DEFINE base == Made(info, s)
           visited == {s} \cup {m \in Node : tables.datatypes /\ Below(m, s) /\ Related(m, n)}
           complete(m) == tables.datatypes /\ NothingSkipped(m, n)
           new == CacheSymbolInfo(tables, info, n, s)
<1>0. s \in Node /\ s \in Name /\ s \in Seq(DOMAIN Lower) /\ Len(s) \in Nat \ {0}
  BY SymbolsAreNodes, NodeNames, Fronts DEF Name
<1>1. SoundCache(base) /\ Extends(info, base) /\ s \in DOMAIN base
  BY <1>0, MadeIsSound
<1>2. /\ base \in Caches /\ Rooted(base) /\ Located(base) /\ Entire(base)
      /\ \A m \in DOMAIN base : m \in Name /\ base[m] \in Entry
      /\ \A m \in DOMAIN info : m \in Name /\ info[m] \in Entry
      /\ \A m \in DOMAIN info : m \in DOMAIN base /\ base[m] = info[m]
  <2>1. \A m \in DOMAIN info : m \in DOMAIN base /\ base[m] = info[m]
    BY DEF Made
  <2> QED BY <1>1, <2>1, CacheIs DEF SoundCache
<1>3. /\ visited \subseteq Node /\ visited \subseteq Name
      /\ \A m \in visited : m = s \/ (tables.datatypes /\ Below(m, s) /\ Related(m, n))
  BY <1>0, NodeNames
<1>4. /\ DOMAIN new = DOMAIN base \cup visited
      /\ new = [m \in DOMAIN new |-> new[m]]
      /\ \A m \in DOMAIN new : m \notin visited => new[m] = base[m]
      /\ \A m \in visited :
           new[m] = [(IF m \in DOMAIN info THEN info[m] ELSE Unknown) EXCEPT
                       !.found = TRUE, !.address = CachedAddress(m),
                       !.cacheComplete = complete(m)]
  BY DEF CacheSymbolInfo
<1>c. \A m : complete(m) \in BOOLEAN
  BY DEF NothingSkipped
<1>5. \A m \in visited : /\ new[m] \in Entry /\ new[m].found
                         /\ new[m].address = CachedAddress(m)
                         /\ new[m].cacheComplete = complete(m)
                         /\ m \in DOMAIN info => new[m].readFail = info[m].readFail
  <2> TAKE m \in visited
  <2> DEFINE old == IF m \in DOMAIN info THEN info[m] ELSE Unknown
  <2>1. old \in Entry /\ (m \in DOMAIN info => old = info[m])
    BY <1>2 DEF Unknown, Entry
  <2>2. CachedAddress(m) \in Nat /\ complete(m) \in BOOLEAN
    BY <1>3, <1>c, CachedIsAddress
  <2>3. new[m] = [old EXCEPT !.found = TRUE, !.address = CachedAddress(m),
                             !.cacheComplete = complete(m)]
    BY <1>4
  <2> HIDE DEF old, complete, new, visited, base
  <2> QED BY <2>1, <2>2, <2>3 DEF Entry
<1>6. \A m \in DOMAIN new : m \in Name /\ new[m] \in Entry
  <2> HIDE DEF new, visited, base
  <2> QED BY <1>2, <1>3, <1>4, <1>5
<1>7. new \in Caches
  <2> HIDE DEF new, visited, base
  <2> QED BY <1>4, <1>6, CacheIs
<1>8. Rooted(new)
  <2>1. ASSUME NEW m \in visited, NEW i \in DOMAIN m
        PROVE  SubSeq(m, 1, i) \in DOMAIN base \cup visited
    <3>0. m \in Seq(DOMAIN Lower) /\ Len(m) \in Nat \ {0} /\ i \in 1 .. Len(m) /\ m \in Node
      BY <1>3, Fronts DEF Name
    <3>1. CASE m = s
      BY <3>1, <1>1, <1>2 DEF Rooted
    <3>2. CASE m # s /\ i <= Len(s)
      <4>1. Len(s) < Len(m) /\ s = SubSeq(m, 1, Len(s))
        BY <3>0, <3>2, <1>0, <1>3, BelowIs
      <4>2. SubSeq(m, 1, i) = SubSeq(s, 1, i) /\ i \in DOMAIN s
        BY <4>1, <3>0, <3>2, <1>0, PrefixOfPrefix
      <4> QED BY <4>2, <1>1, <1>2 DEF Rooted
    <3>3. CASE m # s /\ i > Len(s)
      <4>1. /\ Below(m, s) /\ Related(m, n) /\ tables.datatypes
            /\ Len(s) < Len(m) /\ s = SubSeq(m, 1, Len(s))
        BY <3>0, <3>3, <1>0, <1>3, BelowIs
      <4>2. SubSeq(m, 1, i) \in Node
        <5>1. i \in Len(s) .. Len(m)
          BY <3>0, <3>3, <1>0
        <5> QED BY <5>1, <4>1, <3>0, BelowSymbol
      <4>3. Below(SubSeq(m, 1, i), s)
        <5>1. /\ SubSeq(m, 1, i) \in Seq(DOMAIN Lower) /\ Len(SubSeq(m, 1, i)) = i
              /\ SubSeq(SubSeq(m, 1, i), 1, Len(s)) = SubSeq(m, 1, Len(s))
          BY <3>0, <3>3, <1>0, PrefixIs, PrefixOfPrefix
        <5> QED BY <5>1, <4>1, <3>3, <1>0, BelowIs
      <4>4. Related(SubSeq(m, 1, i), n)
        <5>1. m \in Name BY <1>3
        <5> QED BY <5>1, <4>1, <3>0, RelatedPrefix
      <4> QED BY <4>1, <4>2, <4>3, <4>4
    <3> QED BY <3>0, <3>1, <3>2, <3>3, <1>0
  <2> HIDE DEF new, visited, base
  <2> QED BY <2>1, <1>2, <1>4 DEF Rooted
<1>9. Located(new)
  <2> HIDE DEF new, visited, base
  <2> QED BY <1>2, <1>3, <1>4, <1>5 DEF Located
<1>10. Entire(new)
  <2>1. ASSUME NEW m \in visited, complete(m), NEW d \in Node, Below(d, m)
        PROVE  d \in visited
    <3>0. /\ m \in Seq(DOMAIN Lower) /\ Len(m) \in Nat
          /\ d \in Seq(DOMAIN Lower) /\ Len(d) \in Nat
      BY <1>3, NodeNames DEF Name
    <3>1. Related(d, n) /\ tables.datatypes
      BY <2>1 DEF NothingSkipped
    <3>2. Below(d, s)
      <4>1. CASE m = s BY <4>1, <2>1
      <4>2. CASE Below(m, s)
        <5>1. Len(s) < Len(m) /\ s = SubSeq(m, 1, Len(s))
          BY <4>2, <3>0, <1>0, BelowIs
        <5>2. Len(m) < Len(d) /\ m = SubSeq(d, 1, Len(m))
          BY <2>1, <3>0, BelowIs
        <5>3. SubSeq(SubSeq(d, 1, Len(m)), 1, Len(s)) = SubSeq(d, 1, Len(s))
          BY <5>1, <5>2, <3>0, <1>0, PrefixOfPrefix
        <5> QED BY <5>1, <5>2, <5>3, <3>0, <1>0, BelowIs
      <4> QED BY <4>1, <4>2, <1>3
    <3> QED BY <3>1, <3>2
  <2> HIDE DEF new, visited, base, complete
  <2>2. \A d \in DOMAIN base : base[d].found => new[d].found
    BY <1>4, <1>5
  <2>3. \A m \in DOMAIN new : new[m].cacheComplete =>
          \A d \in Node : Below(d, m) => d \in DOMAIN new /\ new[d].found
    BY <2>1, <2>2, <1>2, <1>4, <1>5 DEF Entire
  <2> QED BY <2>3 DEF Entire
<1>11. Extends(info, new)
  <2> HIDE DEF new, visited, base
  <2> QED BY <1>2, <1>4, <1>5 DEF Extends
<1> QED
  BY <1>7, <1>8, <1>9, <1>10, <1>11 DEF SoundCache

(* A change of an entry's flags.                                           *)
LEMMA FlagKeepsSound ==
  ASSUME NEW info, SoundCache(info), NEW n \in DOMAIN info, NEW e \in Entry,
         e.found = info[n].found, e.address = info[n].address,
         e.cacheComplete = info[n].cacheComplete
  PROVE  /\ SoundCache([info EXCEPT ![n] = e])
         /\ e.readFail = info[n].readFail => Extends(info, [info EXCEPT ![n] = e])
<1> DEFINE new == [info EXCEPT ![n] = e]
<1>1. /\ info = [m \in DOMAIN info |-> info[m]] /\ info \in Caches
      /\ \A m \in DOMAIN info : m \in Name /\ info[m] \in Entry
      /\ Rooted(info) /\ Located(info) /\ Entire(info)
  BY CacheIs DEF SoundCache
<1>2. /\ DOMAIN new = DOMAIN info
      /\ new = [m \in DOMAIN new |-> new[m]]
      /\ \A m \in DOMAIN info : new[m] = IF m = n THEN e ELSE info[m]
  BY <1>1
<1> HIDE DEF new
<1>3. new \in Caches
  BY <1>1, <1>2, CacheIs
<1>4. Rooted(new)
  BY <1>1, <1>2 DEF Rooted
<1>5. Located(new)
  BY <1>1, <1>2 DEF Located
<1>6. Entire(new)
  BY <1>1, <1>2 DEF Entire
<1> QED
  BY <1>2, <1>3, <1>4, <1>5, <1>6 DEF SoundCache, Extends, new

(* The least of a set of numbers is what is least in it.                   *)
LEMMA MinIs ==
  ASSUME NEW T, T \subseteq Nat, NEW x \in T, \A y \in T : x <= y
  PROVE  Min(T) = x
<1> DEFINE z == CHOOSE w \in T : \A y \in T : w <= y
<1>1. z \in T /\ \A y \in T : z <= y
  OBVIOUS
<1>2. z = Min(T)
  BY DEF Min
<1> HIDE DEF z
<1>3. z <= x /\ x <= z /\ z \in Nat /\ x \in Nat
  BY <1>1
<1> QED
  BY <1>2, <1>3

(* A set of numbers that is not empty has one.                             *)
LEMMA MinIsLeast ==
  ASSUME NEW T, T \subseteq Nat, T # {}
  PROVE  Min(T) \in T /\ \A y \in T : Min(T) <= y
<1>1. PICK x \in T : \A y \in T : <<y, x>> \notin OpToRel(<, Nat)
  BY NatLessThanWellFounded, WFMin
<1>2. ASSUME NEW y \in T PROVE x <= y
  <2>1. SUFFICES ASSUME y < x PROVE FALSE
    OBVIOUS
  <2>2. <<y, x>> \in OpToRel(<, Nat)
    BY <2>1 DEF OpToRel
  <2> QED BY <1>1, <2>2
<1>3. Min(T) = x
  BY <1>2, MinIs
<1> QED
  BY <1>2, <1>3

Tables == [symbols : BOOLEAN, datatypes : BOOLEAN]

(* ... and findInfo as a whole,                                            *)
LEMMA FindInfoIsSound ==
  ASSUME NEW tables \in Tables, NEW info, SoundCache(info), NEW n \in Name
  PROVE  /\ SoundCache(FindInfo(tables, info, n)) /\ Extends(info, FindInfo(tables, info, n))
         /\ n \in DOMAIN FindInfo(tables, info, n)
<1> DEFINE made == Made(info, n)
           hits == IF tables.symbols THEN SymbolsFor(n) ELSE {}
           new  == FindInfo(tables, info, n)
<1>1. SoundCache(made) /\ Extends(info, made) /\ n \in DOMAIN made
  BY MadeIsSound
<1>2. \A m \in DOMAIN made : m \in Name /\ made[m] \in Entry
  BY <1>1, CacheIs DEF SoundCache
<1>3. CASE made[n].cacheComplete \/ made[n].notFound
  <2>1. new = made
    BY <1>3 DEF FindInfo
  <2> QED BY <2>1, <1>1
<1>4. CASE ~(made[n].cacheComplete \/ made[n].notFound) /\ hits = {}
  <2> DEFINE e == [made[n] EXCEPT !.notFound = TRUE]
  <2>1. new = [made EXCEPT ![n] = e]
    BY <1>4 DEF FindInfo
  <2>2. /\ e \in Entry /\ e.found = made[n].found /\ e.address = made[n].address
        /\ e.cacheComplete = made[n].cacheComplete /\ e.readFail = made[n].readFail
    BY <1>1, <1>2 DEF Entry
  <2> HIDE DEF made, e, new
  <2>3. SoundCache(new) /\ Extends(made, new)
    BY <1>1, <2>1, <2>2, FlagKeepsSound
  <2>4. DOMAIN new = DOMAIN made
    BY <2>1
  <2> QED BY <1>1, <2>3, <2>4 DEF Extends, new
<1>5. CASE ~(made[n].cacheComplete \/ made[n].notFound) /\ hits # {}
  <2> DEFINE s == Symbols[Min(hits)]
  <2>1. new = CacheSymbolInfo(tables, made, n, s)
    BY <1>5 DEF FindInfo
  <2>2. hits \subseteq DOMAIN Symbols
    BY DEF SymbolsFor
  <2>3. IsSymbol(s)
    <3> HIDE DEF hits
    <3> QED BY <2>2, <1>5, MinIsLeast, SymbolsAreNodes
  <2>4. SoundCache(new) /\ Extends(made, new)
    <3> HIDE DEF made, s, new
    <3>1. tables.datatypes \in BOOLEAN
      BY DEF Tables
    <3> QED BY <3>1, <1>1, <2>1, <2>3, CachedIsSound
  <2> HIDE DEF made, new
  <2> QED BY <1>1, <2>4 DEF Extends, new
<1> QED
  BY <1>3, <1>4, <1>5

(* ... with the handle that may be asked for then,                         *)
LEMMA GrantedIsSound ==
  ASSUME NEW info, SoundCache(info), NEW n \in Name, NEW granted,
         parsedSymbols \in Tables
  PROVE  /\ SoundCache(Granted(info, n, granted)) /\ Extends(info, Granted(info, n, granted))
         /\ n \in DOMAIN Granted(info, n, granted)
<1> DEFINE found == FindInfo(parsedSymbols, info, n)
           new   == Granted(info, n, granted)
<1>1. SoundCache(found) /\ Extends(info, found) /\ n \in DOMAIN found
  BY FindInfoIsSound
<1>2. found[n] \in Entry
  BY <1>1, CacheIs DEF SoundCache
<1>3. CASE new = found
  BY <1>1, <1>3
<1>4. CASE new = [found EXCEPT ![n].handle = TRUE]
  <2> DEFINE e == [found[n] EXCEPT !.handle = TRUE]
  <2>1. new = [found EXCEPT ![n] = e]
    BY <1>4
  <2>2. /\ e \in Entry /\ e.found = found[n].found /\ e.address = found[n].address
        /\ e.cacheComplete = found[n].cacheComplete /\ e.readFail = found[n].readFail
    BY <1>2 DEF Entry
  <2> HIDE DEF found, e, new
  <2>3. SoundCache(new) /\ Extends(found, new) /\ DOMAIN new = DOMAIN found
    BY <1>1, <2>1, <2>2, FlagKeepsSound
  <2> QED BY <1>1, <2>3 DEF Extends, new
<1> QED
  BY <1>3, <1>4 DEF Granted

(* A lookup of names one after the other stays in what each one stays in.  *)
LEMMA LookedIsIn ==
  ASSUME NEW info, NEW names \in Seq(Name), NEW granted, NEW U,
         NEW G \in [0 .. Len(names) -> SUBSET U], info \in G[0],
         \A i \in 1 .. Len(names) : \A x \in G[i - 1] : Granted(x, names[i], granted) \in G[i]
  PROVE  Looked(info, names, granted) \in G[Len(names)]
<1> DEFINE N == Len(names)
           F == [x \in U \X (1 .. N) |-> Granted(x[1], names[x[2]], granted)]
           Is(f) == f = [i \in 0 .. N |-> IF i = 0 THEN info
                                          ELSE Granted(f[i - 1], names[i], granted)]
           known == CHOOSE f : Is(f)
<1>0. N \in Nat /\ G \in [0 .. N -> SUBSET U] /\ \A i \in 1 .. N : i - 1 \in 0 .. N
  OBVIOUS
<1>1. ASSUME NEW i \in 1 .. N, NEW x \in G[i - 1]
      PROVE  F[<<x, i>>] = Granted(x, names[i], granted) /\ F[<<x, i>>] \in G[i]
  <2>1. x \in U
    BY <1>0
  <2>2. F[<<x, i>>] = Granted(x, names[i], granted)
    BY <2>1
  <2> QED BY <2>2
<1>2. PICK f \in [0 .. N -> U] : Iterated(f, N, info, F) /\ \A i \in 0 .. N : f[i] \in G[i]
  <2> HIDE DEF F, N
  <2>1. \A i \in 1 .. N : \A x \in G[i - 1] : F[<<x, i>>] \in G[i]
    BY <1>1
  <2> QED BY <1>0, <2>1, IterationExists
<1>3. Is(f)
  <2>1. \A i \in 1 .. N : f[i] = Granted(f[i - 1], names[i], granted)
    <3> HIDE DEF F, N
    <3> QED BY <1>0, <1>1, <1>2 DEF Iterated
  <2>2. f[0] = info
    BY <1>2 DEF Iterated
  <2> QED BY <1>0, <1>2, <2>1, <2>2
<1>4. Is(known)
  <2> HIDE DEF Is
  <2> QED BY <1>3
<1>5. 0 .. N \subseteq {i \in 0 .. N : known[i] \in G[i]}
  <2> DEFINE P == {i \in 0 .. N : known[i] \in G[i]}
  <2>0. known[0] = info /\ \A i \in 1 .. N : known[i] = Granted(known[i - 1], names[i], granted)
    <3> HIDE DEF known
    <3> QED BY <1>0, <1>4
  <2> HIDE DEF known, F
  <2>1. 0 \in P
    BY <2>0, <1>0
  <2>2. ASSUME NEW i \in 1 .. N, i - 1 \in P PROVE i \in P
    <3>1. known[i - 1] \in G[i - 1] /\ i \in 0 .. N
      BY <2>2
    <3> QED BY <3>1, <2>0
  <2> HIDE DEF P
  <2>3. 0 .. N \subseteq P
    BY <2>1, <2>2, <1>0, InductionTo
  <2> QED BY <2>3 DEF P
<1>6. known[N] \in G[N]
  <2> HIDE DEF known
  <2> QED BY <1>0, <1>5
<1>7. Looked(info, names, granted) = known[N]
  BY DEF Looked
<1> QED
  <2> HIDE DEF known
  <2> QED BY <1>6, <1>7

(* ... for a whole list of names.                                          *)
LEMMA LookedIsSound ==
  ASSUME NEW info, SoundCache(info), NEW names \in Seq(Name), NEW granted,
         parsedSymbols \in Tables
  PROVE  SoundCache(Looked(info, names, granted)) /\ Extends(info, Looked(info, names, granted))
<1> DEFINE U == {c \in Caches : SoundCache(c) /\ Extends(info, c)}
           G == [i \in 0 .. Len(names) |-> U]
<1>0. Len(names) \in Nat /\ \A i \in 1 .. Len(names) : names[i] \in Name
  OBVIOUS
<1>1. info \in U
  BY DEF SoundCache, Extends
<1>2. ASSUME NEW i \in 1 .. Len(names), NEW x \in U
      PROVE  Granted(x, names[i], granted) \in U
  <2> DEFINE y == Granted(x, names[i], granted)
  <2>1. SoundCache(y) /\ Extends(x, y)
    BY <1>0, GrantedIsSound
  <2> HIDE DEF y
  <2>2. y \in U
    BY <2>1 DEF SoundCache, Extends
  <2> QED BY <2>2 DEF y
<1> HIDE DEF U
<1>3. \A i \in 0 .. Len(names) : G[i] = U
  OBVIOUS
<1>4. G \in [0 .. Len(names) -> SUBSET U] /\ info \in G[0]
  BY <1>0, <1>1
<1> HIDE DEF G
<1>5. \A i \in 1 .. Len(names) : \A x \in G[i - 1] : Granted(x, names[i], granted) \in G[i]
  <2> SUFFICES ASSUME NEW i \in 1 .. Len(names), NEW x \in G[i - 1]
               PROVE  Granted(x, names[i], granted) \in G[i]
    OBVIOUS
  <2>1. x \in U /\ G[i] = U
    BY <1>0, <1>3
  <2> QED BY <2>1, <1>2
<1>6. Looked(info, names, granted) \in G[Len(names)]
  BY <1>4, <1>5, LookedIsIn
<1>7. Looked(info, names, granted) \in U
  BY <1>0, <1>3, <1>6
<1> QED
  BY <1>7 DEF U

-----------------------------------------------------------------------------
(***************************************************************************)
(* The value cache.  It has the nodes on the way to each node, and those   *)
(* are objects or lists.                                                   *)
(***************************************************************************)
Key == DOMAIN Lower \cup {Slot[c] : c \in DOMAIN Lower}

Holding(node) == node.kind \in {"object", "list"}

Shaped(tree) ==
  /\ tree = [q \in DOMAIN tree |-> tree[q]]
  /\ DOMAIN tree \subseteq Seq(Key) /\ <<>> \in DOMAIN tree
  /\ \A q \in DOMAIN tree : q # <<>> => Front(q) \in DOMAIN tree /\ Holding(tree[Front(q)])

(* The value cache starts well formed.                                     *)
LEMMA EmptyTreeIsShaped == Shaped(EmptyTree)
BY DEF EmptyTree, Shaped

(* One key behind a path.                                                  *)
LEMMA AppendedIs ==
  ASSUME NEW S, NEW p \in Seq(S), NEW e \in S
  PROVE  /\ Append(p, e) \in Seq(S) /\ Append(p, e) # <<>>
         /\ Front(Append(p, e)) = p
<1> DEFINE a == Append(p, e)
<1>1. /\ a \in Seq(S) /\ Len(a) = Len(p) + 1 /\ Len(p) \in Nat
      /\ \A i \in 1 .. Len(p) : a[i] = p[i]
  BY AppendProperties
<1> HIDE DEF a
<1>2. a # <<>> /\ Len(a) - 1 = Len(p) /\ Len(p) \in 0 .. Len(a)
  BY <1>1
<1>3. /\ SubSeq(a, 1, Len(p)) \in Seq(S) /\ Len(SubSeq(a, 1, Len(p))) = Len(p)
      /\ \A i \in 1 .. Len(p) : SubSeq(a, 1, Len(p))[i] = a[i]
  BY <1>1, <1>2, PrefixIs
<1>4. SubSeq(a, 1, Len(p)) = p
  BY <1>1, <1>3, SeqEqual
<1> QED
  BY <1>1, <1>2, <1>4 DEF a, Front

(* A path is walked key by key.                                            *)
LEMMA PrefixStep ==
  ASSUME NEW S, NEW s \in Seq(S), NEW i \in 1 .. Len(s)
  PROVE  Append(SubSeq(s, 1, i - 1), s[i]) = SubSeq(s, 1, i)
<1> DEFINE p == SubSeq(s, 1, i - 1)
           q == SubSeq(s, 1, i)
           a == Append(p, s[i])
<1>0. Len(s) \in Nat /\ i - 1 \in 0 .. Len(s) /\ i \in 0 .. Len(s)
  OBVIOUS
<1>1. p \in Seq(S) /\ Len(p) = i - 1 /\ \A j \in 1 .. i - 1 : p[j] = s[j]
  <2> DEFINE k == i - 1
  <2>0. k \in 0 .. Len(s) BY <1>0
  <2> HIDE DEF k
  <2>1. /\ SubSeq(s, 1, k) \in Seq(S) /\ Len(SubSeq(s, 1, k)) = k
        /\ \A j \in 1 .. k : SubSeq(s, 1, k)[j] = s[j]
    BY <2>0, PrefixIs
  <2> QED BY <2>1 DEF k
<1>2. q \in Seq(S) /\ Len(q) = i /\ \A j \in 1 .. i : q[j] = s[j]
  BY <1>0, PrefixIs
<1> HIDE DEF p, q
<1>3. s[i] \in S
  BY ElementOfSeq
<1>4. /\ a \in Seq(S) /\ Len(a) = Len(p) + 1 /\ a[Len(p) + 1] = s[i]
      /\ \A j \in 1 .. Len(p) : a[j] = p[j]
  BY <1>1, <1>3, AppendProperties
<1> HIDE DEF a
<1>5. Len(a) = Len(q) /\ \A j \in 1 .. Len(a) : a[j] = q[j]
  <2>1. Len(a) = i /\ Len(q) = i /\ i \in Nat /\ Len(p) + 1 = i
    BY <1>0, <1>1, <1>2, <1>4
  <2>2. ASSUME NEW j \in 1 .. i PROVE a[j] = q[j]
    <3>1. CASE j = i
      <4>0. i \in 1 .. i BY <2>1
      <4>1. a[i] = s[i] BY <2>1, <1>4
      <4>2. q[i] = s[i] BY <4>0, <1>2
      <4> QED BY <4>1, <4>2, <3>1
    <3>2. CASE j # i
      <4>1. j \in 1 .. i - 1 /\ j \in 1 .. Len(p) BY <2>1, <3>2
      <4>2. a[j] = p[j] /\ p[j] = s[j] BY <4>1, <1>1, <1>4
      <4>3. q[j] = s[j] BY <1>2
      <4> QED BY <4>2, <4>3
    <3> QED BY <3>1, <3>2
  <2> QED BY <2>1, <2>2
<1>6. a = q
  BY <1>2, <1>4, <1>5, SeqEqual
<1> QED
  BY <1>6 DEF a, p, q

(* Assigning a node keeps the value cache well formed ...                  *)
LEMMA NodeSet ==
  ASSUME NEW tree, Shaped(tree), NEW p \in DOMAIN tree, NEW node
  PROVE  /\ Shaped(SetNode(tree, p, node))
         /\ p \in DOMAIN SetNode(tree, p, node)
         /\ SetNode(tree, p, node)[p] = node
         /\ \A q \in DOMAIN SetNode(tree, p, node) :
              SetNode(tree, p, node)[q] = node
              \/ (q \in DOMAIN tree /\ SetNode(tree, p, node)[q] = tree[q])
<1> DEFINE new == SetNode(tree, p, node)
           Kept == {x \in DOMAIN tree : ~IsStrictPrefix(p, x)}
<1>0. /\ DOMAIN tree \subseteq Seq(Key) /\ p \in Seq(Key) /\ <<>> \in DOMAIN tree
      /\ \A q \in DOMAIN tree : q # <<>> => Front(q) \in DOMAIN tree /\ Holding(tree[Front(q)])
  BY DEF Shaped
<1>1. /\ DOMAIN new = Kept \cup {p} /\ new = [q \in DOMAIN new |-> new[q]]
      /\ new[p] = node /\ \A q \in Kept : q # p => new[q] = tree[q]
  BY DEF SetNode
<1>2. ASSUME NEW q \in Seq(Key), q # <<>>, Front(q) = p \/ IsStrictPrefix(p, Front(q))
      PROVE  IsStrictPrefix(p, q)
  <2>1. /\ Len(q) \in Nat \ {0} /\ Front(q) \in Seq(Key) /\ Len(Front(q)) = Len(q) - 1
        /\ Len(p) \in Nat
    BY <1>2, <1>0, Fronts
  <2>2. CASE Front(q) = p
    <3>1. Len(p) < Len(q) /\ p = SubSeq(q, 1, Len(p))
      BY <2>1, <2>2 DEF Front
    <3> QED BY <3>1, <1>0, BelowIs DEF Below
  <2>3. CASE IsStrictPrefix(p, Front(q))
    <3>1. Len(p) < Len(Front(q)) /\ p = SubSeq(Front(q), 1, Len(p))
      BY <2>1, <2>3, <1>0, BelowIs DEF Below
    <3>2. SubSeq(Front(q), 1, Len(p)) = SubSeq(q, 1, Len(p))
      <4>1. Len(q) - 1 \in 0 .. Len(q) /\ Len(p) \in 0 .. Len(q) - 1
        BY <2>1, <3>1
      <4> QED BY <4>1, PrefixOfPrefix DEF Front
    <3>3. Len(p) < Len(q) /\ p = SubSeq(q, 1, Len(p))
      BY <3>1, <3>2, <2>1
    <3> QED BY <3>3, <1>0, BelowIs DEF Below
  <2> QED BY <2>2, <2>3, <1>2
<1>3. ~IsStrictPrefix(p, p)
  BY DEF IsStrictPrefix
<1>4. \A q \in DOMAIN new : q \in Kept /\ q \in DOMAIN tree /\ q \in Seq(Key)
  BY <1>0, <1>1, <1>3
<1> HIDE DEF new
<1>5. ASSUME NEW q \in DOMAIN new, q # <<>>
      PROVE  Front(q) \in DOMAIN new /\ Holding(new[Front(q)])
  <2>1. Front(q) \in DOMAIN tree /\ Holding(tree[Front(q)]) /\ ~IsStrictPrefix(p, q)
    BY <1>0, <1>4, <1>5
  <2>2. Front(q) # p /\ ~IsStrictPrefix(p, Front(q))
    BY <1>2, <1>4, <1>5, <2>1
  <2> QED BY <2>1, <2>2, <1>1
<1>6. <<>> \in DOMAIN new
  <2>1. ~IsStrictPrefix(p, <<>>)
    <3>1. <<>> \in Seq(Key) /\ Len(<<>>) = 0 /\ Len(p) \in Nat BY <1>0
    <3> QED BY <3>1, <1>0, BelowIs DEF Below
  <2> QED BY <2>1, <1>0, <1>1
<1>7. Shaped(new)
  BY <1>0, <1>1, <1>4, <1>5, <1>6 DEF Shaped
<1> QED
  BY <1>1, <1>4, <1>7 DEF new

(* ... so does adding one where members may be ...                         *)
LEMMA NodeAdded ==
  ASSUME NEW tree, Shaped(tree), NEW p \in DOMAIN tree, Holding(tree[p]), NEW key \in Key
  PROVE  /\ Shaped(AddNode(tree, Append(p, key)))
         /\ Append(p, key) \in DOMAIN AddNode(tree, Append(p, key))
         /\ \A q \in DOMAIN AddNode(tree, Append(p, key)) :
              AddNode(tree, Append(p, key))[q] = Null
              \/ (q \in DOMAIN tree /\ AddNode(tree, Append(p, key))[q] = tree[q])
<1> DEFINE a == Append(p, key)
           new == AddNode(tree, a)
<1>0. /\ DOMAIN tree \subseteq Seq(Key) /\ p \in Seq(Key) /\ <<>> \in DOMAIN tree
      /\ \A q \in DOMAIN tree : q # <<>> => Front(q) \in DOMAIN tree /\ Holding(tree[Front(q)])
  BY DEF Shaped
<1>1. a \in Seq(Key) /\ a # <<>> /\ Front(a) = p
  BY <1>0, AppendedIs
<1> HIDE DEF a
<1>2. /\ DOMAIN new = DOMAIN tree \cup {a} /\ new = [q \in DOMAIN new |-> new[q]]
      /\ \A q \in DOMAIN tree : new[q] = tree[q]
      /\ a \notin DOMAIN tree => new[a] = Null
  BY DEF AddNode
<1> HIDE DEF new
<1>3. Shaped(new)
  BY <1>0, <1>1, <1>2 DEF Shaped
<1> QED
  BY <1>2, <1>3 DEF a, new

(* ... one operator[] ...                                                  *)
LEMMA StepIsShaped ==
  ASSUME NEW tree, Shaped(tree), NEW p \in DOMAIN tree, NEW kind \in {"object", "list"},
         NEW key \in Key
  PROVE  /\ Shaped(Step(tree, p, kind, key))
         /\ Append(p, key) \in DOMAIN Step(tree, p, kind, key)
         /\ \A q \in DOMAIN Step(tree, p, kind, key) :
              Step(tree, p, kind, key)[q] \in {Null, Holder("object"), Holder("list")}
              \/ (q \in DOMAIN tree /\ Step(tree, p, kind, key)[q] = tree[q])
<1> DEFINE held == IF tree[p].kind = kind THEN tree ELSE SetNode(tree, p, Holder(kind))
           new  == AddNode(held, Append(p, key))
<1>1. /\ Shaped(held) /\ p \in DOMAIN held /\ Holding(held[p])
      /\ \A q \in DOMAIN held : held[q] = Holder(kind) \/ (q \in DOMAIN tree /\ held[q] = tree[q])
  <2>1. CASE tree[p].kind = kind
    BY <2>1 DEF Holding
  <2>2. CASE tree[p].kind # kind
    <3>1. Holding(Holder(kind))
      BY DEF Holding, Holder
    <3>2. held = SetNode(tree, p, Holder(kind))
      BY <2>2
    <3> HIDE DEF held
    <3> QED BY <3>1, <3>2, NodeSet
  <2> QED BY <2>1, <2>2
<1> HIDE DEF held
<1>2. /\ Shaped(new) /\ Append(p, key) \in DOMAIN new
      /\ \A q \in DOMAIN new : new[q] = Null \/ (q \in DOMAIN held /\ new[q] = held[q])
  BY <1>1, NodeAdded
<1>3. Step(tree, p, kind, key) = new
  BY DEF Step, held
<1> HIDE DEF new
<1>4. kind = "object" \/ kind = "list"
  OBVIOUS
<1> QED
  BY <1>1, <1>2, <1>3, <1>4

(* ... and all of those that a path takes.                                 *)
LEMMA WalkIsShaped ==
  ASSUME NEW tree, Shaped(tree), NEW path \in Seq(Key), NEW lists
  PROVE  Shaped(Walk(tree, path, lists)) /\ path \in DOMAIN Walk(tree, path, lists)
<1> DEFINE N == Len(path)
           Old == {tree[q] : q \in DOMAIN tree}
           R == Old \cup {Null, Holder("object"), Holder("list")}
           U == UNION {[D -> R] : D \in SUBSET Seq(Key)}
           E(t, i) == Step(t, SubSeq(path, 1, i - 1),
                           IF i \in lists THEN "list" ELSE "object", path[i])
           F == [x \in U \X (1 .. N) |-> E(x[1], x[2])]
           Up(t, i) == t \in U /\ Shaped(t) /\ SubSeq(path, 1, i) \in DOMAIN t
           G == [i \in 0 .. N |-> {t \in U : Up(t, i)}]
           Is(f) == f = [i \in 0 .. N |-> IF i = 0 THEN tree ELSE E(f[i - 1], i)]
           walked == CHOOSE f : Is(f)
<1>0. /\ N \in Nat /\ \A i \in 1 .. N : path[i] \in Key
      /\ SubSeq(path, 1, 0) = <<>> /\ SubSeq(path, 1, N) = path
  BY SubSeqEmpty, SubSeqFull
<1>1. Up(tree, 0)
  <2>1. tree \in [DOMAIN tree -> R] /\ DOMAIN tree \in SUBSET Seq(Key)
    BY DEF Shaped
  <2>2. tree \in U
    <3> HIDE DEF R
    <3> QED BY <2>1
  <2> QED BY <1>0, <2>2 DEF Shaped
<1>2. ASSUME NEW i \in 1 .. N, NEW t, Up(t, i - 1)
      PROVE  Up(E(t, i), i) /\ F[<<t, i>>] = E(t, i)
  <2> DEFINE p == SubSeq(path, 1, i - 1)
             kind == IF i \in lists THEN "list" ELSE "object"
             new == Step(t, p, kind, path[i])
  <2>1. t \in U /\ Shaped(t) /\ p \in DOMAIN t /\ kind \in {"object", "list"}
        /\ path[i] \in Key
    BY <1>0, <1>2
  <2>2. PICK D \in SUBSET Seq(Key) : t \in [D -> R]
    <3> HIDE DEF R
    <3> QED BY <2>1
  <2> HIDE DEF p, kind
  <2>3. /\ Shaped(new) /\ Append(p, path[i]) \in DOMAIN new
        /\ \A q \in DOMAIN new :
             new[q] \in {Null, Holder("object"), Holder("list")}
             \/ (q \in DOMAIN t /\ new[q] = t[q])
    BY <2>1, StepIsShaped
  <2>4. Append(p, path[i]) = SubSeq(path, 1, i)
    BY <1>0, PrefixStep DEF p
  <2> HIDE DEF new
  <2>5. new \in U
    <3>1. \A q \in DOMAIN t : t[q] \in R
      <4> HIDE DEF R
      <4> QED BY <2>2
    <3>2. \A q \in DOMAIN new : new[q] \in R
      <4> HIDE DEF Old
      <4> QED BY <2>3, <3>1
    <3>3. new \in [DOMAIN new -> R] /\ DOMAIN new \in SUBSET Seq(Key)
      <4> HIDE DEF R
      <4> QED BY <3>2, <2>3 DEF Shaped
    <3> HIDE DEF R
    <3> QED BY <3>3
  <2>6. E(t, i) = new
    BY DEF new, p, kind
  <2>7. F[<<t, i>>] = E(t, i)
    <3> HIDE DEF E, U
    <3> QED BY <2>1
  <2> HIDE DEF U
  <2> QED BY <2>3, <2>4, <2>5, <2>6, <2>7
<1> HIDE DEF E, U, R
<1>3. PICK f \in [0 .. N -> U] : Iterated(f, N, tree, F) /\ \A i \in 0 .. N : f[i] \in G[i]
  <2>1. \A i \in 0 .. N : \A t : t \in G[i] <=> Up(t, i)
    OBVIOUS
  <2>2. G \in [0 .. N -> SUBSET U]
    OBVIOUS
  <2> HIDE DEF F, G, Up, N
  <2>3. tree \in G[0]
    BY <1>0, <1>1, <2>1
  <2>4. ASSUME NEW i \in 1 .. N, NEW x \in G[i - 1] PROVE F[<<x, i>>] \in G[i]
    <3>1. Up(x, i - 1) /\ i \in 0 .. N
      BY <2>1, <1>0
    <3> QED BY <3>1, <2>1, <1>2
  <2> QED BY <1>0, <2>2, <2>3, <2>4, IterationExists
<1>4. Is(f)
  <2>1. \A i \in 0 .. N : Up(f[i], i)
    BY <1>3
  <2>2. ASSUME NEW i \in 1 .. N PROVE f[i] = E(f[i - 1], i)
    <3> HIDE DEF F, Up, N
    <3>1. Up(f[i - 1], i - 1)
      BY <2>1, <1>0
    <3> QED BY <3>1, <1>2, <1>3 DEF Iterated
  <2>3. f[0] = tree
    BY <1>3 DEF Iterated
  <2> QED BY <1>0, <1>3, <2>2, <2>3
<1>5. Is(walked)
  <2> HIDE DEF Is
  <2> QED BY <1>4
<1>6. Up(walked[N], N)
  <2> DEFINE P == {i \in 0 .. N : Up(walked[i], i)}
  <2>0. walked[0] = tree /\ \A i \in 1 .. N : walked[i] = E(walked[i - 1], i)
    <3> HIDE DEF walked
    <3> QED BY <1>0, <1>5
  <2> HIDE DEF walked, F, Up
  <2>1. 0 \in P
    BY <2>0, <1>0, <1>1
  <2>2. ASSUME NEW i \in 1 .. N, i - 1 \in P PROVE i \in P
    <3>1. Up(walked[i - 1], i - 1)
      BY <2>2
    <3>2. Up(E(walked[i - 1], i), i)
      BY <3>1, <1>2
    <3> QED BY <3>2, <2>0
  <2> HIDE DEF P
  <2>3. 0 .. N \subseteq P
    BY <2>1, <2>2, <1>0, InductionTo
  <2> QED BY <2>3, <1>0 DEF P
<1>7. Walk(tree, path, lists) = walked[N]
  BY DEF Walk, E
<1> QED
  <2> HIDE DEF walked
  <2> QED BY <1>0, <1>6, <1>7

(* The components of a name are keys of the value cache.                   *)
LEMMA NamesAreKeys ==
  ASSUME NEW n \in Name
  PROVE  n \in Seq(DOMAIN Lower) /\ n \in Seq(Key) /\ Len(n) \in Nat \ {0} /\ n # <<>>
<1>1. n \in Seq(DOMAIN Lower) /\ Len(n) \in Nat \ {0} /\ n # <<>>
  BY Fronts DEF Name
<1>2. DOMAIN Lower \subseteq Key
  BY DEF Key
<1> QED
  BY <1>1, <1>2, SeqMonotonic

(* The path that a name is looked up by has keys only.                     *)
LEMMA DataPathIs ==
  ASSUME NEW n \in Name, NEW r \in Name, r = n \/ Below(r, n)
  PROVE  DataPath(n, r) \in Seq(Key) /\ DataPath(n, r) # <<>>
<1> DEFINE k == Len(r) - Len(n)
           rest == [i \in 1 .. k |-> MemberKey(SubSeq(r, 1, Len(n) + i))]
<1>0. /\ n \in Seq(DOMAIN Lower) /\ r \in Seq(DOMAIN Lower) /\ n \in Seq(Key)
      /\ Len(n) \in Nat \ {0} /\ Len(r) \in Nat \ {0}
  BY NamesAreKeys
<1>1. k \in Nat
  BY <1>0, BelowIs
<1>2. ASSUME NEW i \in 1 .. k PROVE MemberKey(SubSeq(r, 1, Len(n) + i)) \in Key
  <2> DEFINE j == Len(n) + i
             m == SubSeq(r, 1, j)
  <2>1. j \in 0 .. Len(r) /\ j > 0
    BY <1>0
  <2> HIDE DEF j
  <2>2. m \in Seq(DOMAIN Lower) /\ Len(m) = j
    BY <2>1, <1>0, PrefixIs
  <2>3. m # <<>>
    BY <2>1, <2>2
  <2> HIDE DEF m
  <2>4. Last(m) \in DOMAIN Lower
    BY <2>2, <2>3, Fronts
  <2> QED BY <2>4 DEF MemberKey, Key, m, j
<1>3. rest \in Seq(Key)
  <2> HIDE DEF k
  <2> QED BY <1>1, <1>2, IsASeq
<1> HIDE DEF rest
<1>4. n \o rest \in Seq(Key) /\ Len(n \o rest) = Len(n) + Len(rest) /\ Len(rest) \in Nat
  BY <1>0, <1>3
<1>5. DataPath(n, r) = n \o rest
  BY DEF DataPath, ToLower, rest, k
<1>6. n \o rest # <<>>
  BY <1>0, <1>4
<1> QED
  BY <1>4, <1>5, <1>6

-----------------------------------------------------------------------------
(* A list with one element more.                                           *)
LEMMA ToSetAppended ==
  ASSUME NEW T, NEW t \in Seq(T), NEW e \in T
  PROVE  ToSet(Append(t, e)) = ToSet(t) \cup {e} /\ Append(t, e) \in Seq(T)
<1>1. /\ Len(Append(t, e)) = Len(t) + 1 /\ Len(t) \in Nat
      /\ DOMAIN Append(t, e) = 1 .. Len(t) + 1 /\ DOMAIN t = 1 .. Len(t)
      /\ Append(t, e)[Len(t) + 1] = e
      /\ \A j \in 1 .. Len(t) : Append(t, e)[j] = t[j]
  BY AppendProperties
<1>2. 1 .. Len(t) + 1 = (1 .. Len(t)) \cup {Len(t) + 1}
  BY <1>1
<1>3. Append(t, e) \in Seq(T)
  OBVIOUS
<1> QED
  BY <1>1, <1>2, <1>3 DEF ToSet

(* Among picks elements: all that are in S, and no others.                 *)
LEMMA AmongIs ==
  ASSUME NEW T, NEW s \in Seq(T), NEW S
  PROVE  /\ Among(s, S) \in Seq(T)
         /\ ToSet(Among(s, S)) = ToSet(s) \cap S
<1> DEFINE N == Len(s)
           U == Seq(T)
           E(t, i) == IF s[i] \in S THEN Append(t, s[i]) ELSE t
           F == [x \in U \X (1 .. N) |-> E(x[1], x[2])]
           First(i) == {s[j] : j \in 1 .. i}
           Up(t, i) == t \in U /\ ToSet(t) = First(i) \cap S
           G == [i \in 0 .. N |-> {t \in U : Up(t, i)}]
           Is(f) == f = [i \in 0 .. N |-> IF i = 0 THEN <<>> ELSE E(f[i - 1], i)]
           chosen == CHOOSE f : Is(f)
<1>0. N \in Nat /\ \A i \in 1 .. N : s[i] \in T
  BY ElementOfSeq
<1>1. Up(<<>>, 0)
  BY DEF ToSet
<1>2. ASSUME NEW i \in 1 .. N, NEW t, Up(t, i - 1)
      PROVE  Up(E(t, i), i) /\ F[<<t, i>>] = E(t, i)
  <2>1. t \in Seq(T) /\ s[i] \in T
    BY <1>0, <1>2
  <2>2. First(i) = First(i - 1) \cup {s[i]}
    <3>1. 1 .. i = (1 .. i - 1) \cup {i} OBVIOUS
    <3> QED BY <3>1
  <2>3. ToSet(Append(t, s[i])) = ToSet(t) \cup {s[i]} /\ Append(t, s[i]) \in Seq(T)
    BY <2>1, ToSetAppended
  <2>4. ToSet(t) = First(i - 1) \cap S
    BY <1>2
  <2> HIDE DEF First
  <2>5. ToSet(E(t, i)) = First(i) \cap S /\ E(t, i) \in Seq(T)
    <3>1. CASE s[i] \in S
      BY <3>1, <2>2, <2>3, <2>4
    <3>2. CASE s[i] \notin S
      BY <3>2, <2>1, <2>2, <2>4
    <3> QED BY <3>1, <3>2
  <2>6. F[<<t, i>>] = E(t, i)
    <3> HIDE DEF E
    <3> QED BY <2>1
  <2> QED BY <2>5, <2>6
<1> HIDE DEF E, U, First
<1>3. PICK f \in [0 .. N -> U] : Iterated(f, N, <<>>, F) /\ \A i \in 0 .. N : f[i] \in G[i]
  <2>1. \A i \in 0 .. N : \A t : t \in G[i] <=> Up(t, i)
    OBVIOUS
  <2>2. G \in [0 .. N -> SUBSET U]
    OBVIOUS
  <2> HIDE DEF F, G, Up, N
  <2>3. <<>> \in G[0]
    BY <1>0, <1>1, <2>1
  <2>4. ASSUME NEW i \in 1 .. N, NEW x \in G[i - 1] PROVE F[<<x, i>>] \in G[i]
    <3>1. Up(x, i - 1) /\ i \in 0 .. N
      BY <2>1, <1>0
    <3> QED BY <3>1, <2>1, <1>2
  <2> QED BY <1>0, <2>2, <2>3, <2>4, IterationExists
<1>4. Is(f)
  <2>1. \A i \in 0 .. N : Up(f[i], i)
    BY <1>3
  <2>2. ASSUME NEW i \in 1 .. N PROVE f[i] = E(f[i - 1], i)
    <3> HIDE DEF F, Up, N
    <3>1. Up(f[i - 1], i - 1)
      BY <2>1, <1>0
    <3> QED BY <3>1, <1>2, <1>3 DEF Iterated
  <2>3. f[0] = <<>>
    BY <1>3 DEF Iterated
  <2> QED BY <1>0, <1>3, <2>2, <2>3
<1>5. Is(chosen)
  <2> HIDE DEF Is
  <2> QED BY <1>4
<1>6. Up(chosen[N], N)
  <2> DEFINE P == {i \in 0 .. N : Up(chosen[i], i)}
  <2>0. chosen[0] = <<>> /\ \A i \in 1 .. N : chosen[i] = E(chosen[i - 1], i)
    <3> HIDE DEF chosen
    <3> QED BY <1>0, <1>5
  <2> HIDE DEF chosen, F, Up
  <2>1. 0 \in P
    BY <2>0, <1>0, <1>1
  <2>2. ASSUME NEW i \in 1 .. N, i - 1 \in P PROVE i \in P
    <3>1. Up(chosen[i - 1], i - 1)
      BY <2>2
    <3>2. Up(E(chosen[i - 1], i), i)
      BY <3>1, <1>2
    <3> QED BY <3>2, <2>0
  <2> HIDE DEF P
  <2>3. 0 .. N \subseteq P
    BY <2>1, <2>2, <1>0, InductionTo
  <2> QED BY <2>3, <1>0 DEF P
<1>7. Among(s, S) = chosen[N]
  BY DEF Among, E
<1>8. First(N) = ToSet(s)
  BY DEF First, ToSet
<1> QED
  <2> HIDE DEF chosen
  <2> QED BY <1>6, <1>7, <1>8 DEF U

(* A list that holds nothing twice, and goes on so with what it has not.   *)
OnceEach(s) == \A i, j \in DOMAIN s : s[i] = s[j] => i = j

LEMMA OnceAppended ==
  ASSUME NEW T, NEW s \in Seq(T), NEW e \in T \ ToSet(s), OnceEach(s)
  PROVE  OnceEach(Append(s, e))
<1>1. /\ Len(s) \in Nat /\ DOMAIN s = 1 .. Len(s)
      /\ DOMAIN Append(s, e) = 1 .. Len(s) + 1
      /\ Append(s, e)[Len(s) + 1] = e
      /\ \A i \in 1 .. Len(s) : Append(s, e)[i] = s[i] /\ s[i] # e
  BY DEF ToSet
<1>2. \A i \in 1 .. Len(s) + 1 : i = Len(s) + 1 \/ i \in 1 .. Len(s)
  BY <1>1
<1> QED
  BY <1>1, <1>2 DEF OnceEach

(* The names of a batch and the properties: names still.                   *)
LEMMA WithPropertiesIs ==
  ASSUME NEW T, NEW names \in Seq(T), propertyReads \in Seq(T)
  PROVE  /\ WithProperties(names) \in Seq(T)
         /\ OnceEach(names) => OnceEach(WithProperties(names))
         /\ ToSet(names) \subseteq ToSet(WithProperties(names))
         /\ ToSet(WithProperties(names)) \subseteq ToSet(names) \cup ToSet(propertyReads)
<1>0. PICK reads : reads = propertyReads
  OBVIOUS
<1> DEFINE N == Len(propertyReads)
           Kept(t) == /\ ToSet(names) \subseteq ToSet(t)
                      /\ ToSet(t) \subseteq ToSet(names) \cup ToSet(reads)
                      /\ OnceEach(names) => OnceEach(t)
           U == {t \in Seq(T) : Kept(t)}
           E(t, i) == IF propertyReads[i] \in ToSet(t) THEN t ELSE Append(t, propertyReads[i])
           Is(f) == f = [i \in 0 .. N |-> IF i = 0 THEN names ELSE E(f[i - 1], i)]
           all == CHOOSE f : Is(f)
<1> DEFINE F == [x \in U \X (1 .. N) |-> IF reads[x[2]] \in ToSet(x[1]) THEN x[1]
                                         ELSE Append(x[1], reads[x[2]])]
           G == [i \in 0 .. N |-> U]
<1>1. /\ N \in Nat /\ names \in U
      /\ \A i \in 1 .. N : propertyReads[i] \in T /\ propertyReads[i] \in ToSet(reads)
  BY <1>0, ElementOfSeq DEF ToSet
<1>2. ASSUME NEW i \in 1 .. N, NEW t \in U
      PROVE  E(t, i) \in U /\ F[<<t, i>>] = E(t, i)
  <2>1. E(t, i) \in U
    <3>1. PICK e : e = propertyReads[i]
      OBVIOUS
    <3>2. e \in T /\ e \in ToSet(reads) /\ t \in Seq(T)
      BY <3>1, <1>1
    <3>3. ToSet(Append(t, e)) = ToSet(t) \cup {e} /\ Append(t, e) \in Seq(T)
      BY <3>2, ToSetAppended
    <3>4. e \notin ToSet(t) => Append(t, e) \in U
      BY <3>2, <3>3, OnceAppended
    <3> QED BY <3>1, <3>4
  <2>2. F[<<t, i>>] = E(t, i)
    BY <1>0
  <2> QED BY <2>1, <2>2
<1> HIDE DEF E
<1>3. PICK f \in [0 .. N -> U] : Iterated(f, N, names, F)
  <2>1. \A i \in 0 .. N : G[i] = U
    OBVIOUS
  <2>2. G \in [0 .. N -> SUBSET U]
    OBVIOUS
  <2>3. PICK M, H, FF, UU, nn : M = N /\ H = G /\ FF = F /\ UU = U /\ nn = names
    OBVIOUS
  <2> HIDE DEF F, G, U, N, E
  <2>4. /\ M \in Nat /\ H \in [0 .. M -> SUBSET UU] /\ nn \in H[0]
        /\ \A i \in 1 .. M : \A x \in H[i - 1] : FF[<<x, i>>] \in H[i]
    <3>1. M \in Nat /\ H \in [0 .. M -> SUBSET UU] /\ nn \in H[0]
      BY <1>1, <2>1, <2>2, <2>3
    <3>2. ASSUME NEW i \in 1 .. M, NEW x \in H[i - 1] PROVE FF[<<x, i>>] \in H[i]
      <4>1. i \in 1 .. N /\ H[i - 1] = U /\ H[i] = U
        BY <2>1, <2>3, <1>1
      <4> QED BY <4>1, <1>2, <2>3
    <3> QED BY <3>1, <3>2
  <2> QED BY <2>3, <2>4, IterationExists
<1>4. Is(f)
  <2>1. f[0] = names /\ \A i \in 1 .. N : f[i - 1] \in U /\ f[i] = F[<<f[i - 1], i>>]
    <3> HIDE DEF U, F, N
    <3>1. f[0] = names /\ \A i \in 1 .. N : f[i] = F[<<f[i - 1], i>>]
      BY <1>3 DEF Iterated
    <3>2. ASSUME NEW i \in 1 .. N PROVE f[i - 1] \in U
      <4>1. i - 1 \in 0 .. N
        BY <1>1
      <4> QED BY <4>1, <1>3
    <3> QED BY <3>1, <3>2
  <2>2. \A i \in 1 .. N : f[i] = E(f[i - 1], i)
    <3> HIDE DEF U, F, E
    <3> QED BY <2>1, <1>2
  <2>3. DOMAIN f = 0 .. N
    <3> HIDE DEF U, F, N
    <3> QED BY <1>3
  <2>4. f = [i \in 0 .. N |-> IF i = 0 THEN names ELSE E(f[i - 1], i)]
    <3> HIDE DEF U, F
    <3> QED BY <1>1, <2>1, <2>2, <2>3
  <2> QED BY <2>4
<1>5. Is(all)
  <2> HIDE DEF Is
  <2> QED BY <1>4
<1>6. all[N] \in U
  <2> DEFINE P == {i \in 0 .. N : all[i] \in U}
  <2>0. all[0] = names /\ \A i \in 1 .. N : all[i] = E(all[i - 1], i)
    <3> HIDE DEF all
    <3>1. all = [i \in 0 .. N |-> IF i = 0 THEN names ELSE E(all[i - 1], i)]
      BY <1>5
    <3>2. 0 \in 0 .. N /\ \A i \in 1 .. N : i \in 0 .. N /\ i # 0
      BY <1>1
    <3> HIDE DEF N
    <3>3. all[0] = names
      BY <3>1, <3>2
    <3>4. ASSUME NEW i \in 1 .. N PROVE all[i] = E(all[i - 1], i)
      <4>1. i \in 0 .. N /\ i # 0
        BY <3>2
      <4> QED BY <4>1, <3>1
    <3> QED BY <3>3, <3>4
  <2> HIDE DEF all, F, E
  <2>1. 0 \in P
    BY <2>0, <1>1
  <2>2. ASSUME NEW i \in 1 .. N, i - 1 \in P PROVE i \in P
    <3>1. all[i - 1] \in U
      BY <2>2
    <3>2. E(all[i - 1], i) \in U
      BY <3>1, <1>2
    <3> QED BY <3>2, <2>0
  <2>3. 0 .. N \subseteq P
    <3>1. PICK Q, M : Q = P /\ M = N
      OBVIOUS
    <3> HIDE DEF P, N
    <3>2. M \in Nat /\ 0 \in Q /\ \A i \in 1 .. M : i - 1 \in Q => i \in Q
      BY <3>1, <2>1, <2>2, <1>1
    <3> QED BY <3>1, <3>2, InductionTo
  <2> QED BY <2>3, <1>1
<1>7. WithProperties(names) = all[N]
  BY DEF WithProperties, E
<1> QED
  <2> HIDE DEF all
  <2>1. WithProperties(names) \in U
    BY <1>6, <1>7
  <2> QED BY <2>1, <1>0

(* A function on a finite set has finitely many values.                    *)
LEMMA RangeIsFinite ==
  ASSUME NEW S, IsFiniteSet(S), NEW T, NEW f \in [S -> T]
  PROVE  IsFiniteSet({f[x] : x \in S})
<1> DEFINE R == {f[x] : x \in S}
<1>1. f \in Surjection(S, R)
  BY DEF Surjection
<1> HIDE DEF R
<1>2. IsFiniteSet(R)
  BY <1>1, FS_Surjection
<1> QED
  BY <1>2 DEF R

(* A list has finitely many elements.                                      *)
LEMMA ListIsFinite ==
  ASSUME NEW T, NEW s \in Seq(T)
  PROVE  IsFiniteSet(ToSet(s)) /\ ToSet(s) \subseteq T
<1>1. IsFiniteSet(1 .. Len(s))
  BY FS_Interval
<1>2. s \in [1 .. Len(s) -> T] /\ DOMAIN s = 1 .. Len(s)
  OBVIOUS
<1> QED
  BY <1>1, <1>2, RangeIsFinite DEF ToSet

(* What the requests of a batch ask for.                                   *)
LEMMA BatchNames ==
  ASSUME NEW batch, IsFiniteSet(batch), \A r \in batch : r.keys \in Seq(Name)
  PROVE  /\ IsFiniteSet(UNION {ToSet(r.keys) : r \in batch})
         /\ UNION {ToSet(r.keys) : r \in batch} \subseteq Name
<1> DEFINE f == [r \in batch |-> ToSet(r.keys)]
           R == {f[r] : r \in batch}
<1>1. \A r \in batch : f[r] = ToSet(r.keys) /\ IsFiniteSet(f[r]) /\ f[r] \subseteq Name
  BY ListIsFinite
<1>2. f \in [batch -> SUBSET Name] /\ R = {ToSet(r.keys) : r \in batch}
  BY <1>1
<1> HIDE DEF f
<1>3. IsFiniteSet(R)
  BY <1>2, RangeIsFinite
<1>4. \A x \in R : IsFiniteSet(x) /\ x \subseteq Name
  BY <1>1
<1> HIDE DEF R
<1>5. IsFiniteSet(UNION R) /\ UNION R \subseteq Name
  BY <1>3, <1>4, FS_UNION
<1> QED
  BY <1>2, <1>5

(* Putting a finite set into an order makes a list of it.                  *)
LEMMA OrderIsList ==
  ASSUME NEW T, NEW S, IsFiniteSet(S), S \subseteq T, NEW order \in SetToSeqs(S)
  PROVE  order \in Seq(T) /\ ToSet(order) = S /\ OnceEach(order)
<1>1. Cardinality(S) \in Nat
  BY FS_CardinalityType
<1>2. order \in [1 .. Cardinality(S) -> S]
  BY DEF SetToSeqs
<1>3. order \in [1 .. Cardinality(S) -> T]
  BY <1>2
<1>4. order \in Seq(T)
  BY <1>1, <1>3, SeqDef
<1> DEFINE D == 1 .. Cardinality(S)
<1>5. order \in Injection(D, S)
  BY <1>2 DEF SetToSeqs, Injection, IsInjective
<1>6. Cardinality(D) = Cardinality(S)
  BY <1>1, FS_Interval
<1>7. order \in Surjection(D, S)
  <2> HIDE DEF D
  <2> QED BY <1>5, <1>6, FS_Injection
<1>8. DOMAIN order = D /\ OnceEach(order)
  BY <1>2 DEF SetToSeqs, OnceEach
<1>9. ToSet(order) = S
  <2> HIDE DEF D
  <2> QED BY <1>2, <1>7, <1>8 DEF Surjection, ToSet
<1> QED
  BY <1>4, <1>8, <1>9

-----------------------------------------------------------------------------
(***************************************************************************)
(* The inductive invariant of the data source, in parts: the two caches;   *)
(* the properties to be read; the requests; the server thread; the         *)
(* response threads.                                                       *)
(***************************************************************************)
CachesSound ==
  /\ parsedSymbols \in Tables
  /\ memory \in [Stored -> Nat]
  /\ SoundCache(symbolInfo)
  /\ Shaped(symbolData)

ReadsKnown(reads, info) ==
  /\ reads \in Seq(Property)
  /\ \A i \in DOMAIN reads : reads[i] \in DOMAIN info /\ ~info[reads[i]].readFail

RequestsKept ==
  /\ pending \subseteq Requests /\ IsFiniteSet(pending)
  /\ queue \subseteq Requests

Commands(commands) ==
  /\ Len(commands) \in Nat
  /\ \A i \in 1 .. Len(commands) : commands[i].name \in Name

(* A leaf that is being parsed is the name whose turn it is, or below it.  *)
LeavesOf(info, leaves, n) ==
  \A r \in leaves : r \in DOMAIN info /\ (r = n \/ Below(r, n))

ServerPlaced(now, info) ==
  /\ DOMAIN now = DOMAIN IdleServer
  /\ now.pc \in {"idle", "read", "store", "parse", "assign", "done"}
  /\ now.batch \subseteq Requests
  /\ Commands(now.commands)
  /\ now.at \in Nat \ {0}
  /\ now.pc \in {"parse", "assign"} =>
       /\ now.at <= Len(now.commands)
       /\ LeavesOf(info, now.leaves, now.commands[now.at].name)

ResponsePlaced(taken) ==
  taken # None =>
    /\ DOMAIN taken = {"request", "got"}
    /\ taken.request \in Requests
    /\ \E S : taken.got \in Seq(S)
    /\ Len(taken.got) <= Len(taken.request.keys)

ResponsesPlaced ==
  /\ DOMAIN response = Responders
  /\ \A p \in Responders : ResponsePlaced(response[p])

SourceSound ==
  /\ CachesSound
  /\ ReadsKnown(propertyReads, symbolInfo)
  /\ RequestsKept
  /\ ServerPlaced(server, symbolInfo)
  /\ ResponsesPlaced

-----------------------------------------------------------------------------
(* Clients ask for names.                                                  *)
LEMMA KeyListsAre ==
  /\ \A list \in KeyLists \cup Messages : list \in Seq(Name)
  /\ \A r \in Requests : r.keys \in Seq(Name)
BY ListsOfNames DEF Requests, Name

(* Properties are nodes, and so names.                                     *)
LEMMA PropertyIsName == Property \subseteq Node /\ Property \subseteq Name
BY NodeAttributes, NodeNames

(* A server thread that reads nothing has nothing to look up.              *)
LEMMA IdleIsPlaced ==
  ASSUME NEW info
  PROVE  /\ ServerPlaced(IdleServer, info)
         /\ DOMAIN IdleServer = {"pc", "batch", "commands", "at", "pdata", "buffer",
                                 "leaves", "path", "value"}
<1>1. Len(<<>>) = 0
  OBVIOUS
<1> QED
  BY <1>1 DEF ServerPlaced, IdleServer, Commands

(* What is known stays known when the symbol cache grows.                  *)
LEMMA GrownReads ==
  ASSUME NEW reads, NEW info, NEW new, ReadsKnown(reads, info), Extends(info, new)
  PROVE  ReadsKnown(reads, new)
BY DEF ReadsKnown, Extends

(* What a read has looked up stays in a cache that only grows.             *)
LEMMA GrownPlace ==
  ASSUME NEW now, NEW info, NEW new, ServerPlaced(now, info), Extends(info, new)
  PROVE  ServerPlaced(now, new)
BY DEF ServerPlaced, LeavesOf, Extends

(* The leaves that parseBuffer goes to are cached, at or below the name of *)
(* the command.                                                            *)
LEMMA LeavesAre ==
  ASSUME NEW info, NEW n
  PROVE  LeavesOf(info, Leaves(info, n), n)
BY DEF LeavesOf, Leaves

(* Going on to the next leaf keeps this.                                   *)
LEMMA NextLeafIsPlaced ==
  ASSUME NEW now, NEW info, ServerPlaced(now, info), now.pc \in {"parse", "assign"}
  PROVE  ServerPlaced(NextLeaf(now), info)
<1>0. /\ DOMAIN now = {"pc", "batch", "commands", "at", "pdata", "buffer",
                       "leaves", "path", "value"}
      /\ now.batch \subseteq Requests /\ Commands(now.commands) /\ now.at \in Nat \ {0}
      /\ now.at <= Len(now.commands)
      /\ LeavesOf(info, now.leaves, now.commands[now.at].name)
  BY IdleIsPlaced DEF ServerPlaced
<1>1. CASE now.leaves # {}
  <2>1. NextLeaf(now) = [now EXCEPT !.pc = "parse"]
    BY <1>1 DEF NextLeaf
  <2> QED BY <1>0, <2>1, IdleIsPlaced DEF ServerPlaced
<1>2. CASE now.leaves = {}
  <2>1. NextLeaf(now) = [now EXCEPT !.pc = "store", !.at = @ + 1, !.pdata = NextData(@, "ok")]
    BY <1>2 DEF NextLeaf
  <2> QED BY <1>0, <2>1, IdleIsPlaced DEF ServerPlaced
<1> QED
  BY <1>1, <1>2

(* Nothing but the place of one thread, or the requests, changes.          *)
LEMMA SameCaches ==
  ASSUME SourceSound, UNCHANGED <<parsedSymbols, memory, cacheVars>>
  PROVE  CachesSound' /\ ReadsKnown(propertyReads, symbolInfo)'
BY DEF SourceSound, CachesSound, cacheVars

(* What is left alone of the responses is as it was.                       *)
LEMMA SameResponses ==
  ASSUME SourceSound, UNCHANGED response
  PROVE  ResponsesPlaced'
BY DEF SourceSound, ResponsesPlaced

-----------------------------------------------------------------------------
(* The invariant is kept by each step: a cycle of the PLC,                 *)
LEMMA StepPlcCycle ==
  ASSUME SourceSound, PlcCycle, UNCHANGED parsedSymbols
  PROVE  SourceSound'
<1>1. memory' \in [Stored -> Nat]
  BY DEF PlcCycle, SourceSound, CachesSound
<1> QED
  BY <1>1 DEF PlcCycle, SourceSound, CachesSound, RequestsKept, ResponsesPlaced, cacheVars

(* a request,                                                              *)
LEMMA StepAsk ==
  ASSUME SourceSound, NEW keys \in KeyLists, Ask(keys), UNCHANGED parsedSymbols
  PROVE  SourceSound'
<1>1. UNCHANGED <<parsedSymbols, memory, cacheVars, queue, server, response>>
  BY DEF Ask
<1>2. pending' = pending \cup {Request(keys)}
  BY DEF Ask
<1>3. Request(keys) \in Requests
  BY DEF Request, Requests, SourceSound, CachesSound
<1>4. RequestsKept'
  <2>1. IsFiniteSet(pending \cup {Request(keys)})
    <3>1. PICK x, S : x = Request(keys) /\ S = pending
      OBVIOUS
    <3>2. IsFiniteSet(S)
      BY <3>1 DEF SourceSound, RequestsKept
    <3> QED BY <3>1, <3>2, FS_AddElement
  <2> QED BY <1>1, <1>2, <1>3, <2>1 DEF SourceSound, RequestsKept
<1> QED
  BY <1>1, <1>4, SameCaches, SameResponses DEF SourceSound, cacheVars

(* The names of a batch are looked up.                                     *)
LEMMA StartReadLooks ==
  ASSUME SourceSound, StartRead
  PROVE  \E batch \in SUBSET pending, names \in Seq(Name), granted \in SUBSET Property :
           /\ ToSet(names) \subseteq (UNION {ToSet(r.keys) : r \in batch}) \cup Property
           /\ Keys!Consolidated(UNION {ToSet(r.keys) : r \in batch}) \subseteq ToSet(names)
           /\ OnceEach(names)
           /\ symbolInfo' = Looked(symbolInfo, names, granted)
           /\ pending' = pending \ batch
           /\ server' = [IdleServer EXCEPT
                          !.pc = "read", !.batch = batch,
                          !.commands = [i \in DOMAIN names |->
                                          ReadCommand(symbolInfo', names[i])]]
<1>1. PICK batch \in (SUBSET pending) \ {{}} :
      \E order \in SetToSeqs(Keys!Consolidated(UNION {ToSet(r.keys) : r \in batch})),
         granted \in SUBSET Property :
        LET names == WithProperties(order)
            info  == Looked(symbolInfo, names, granted)
        IN  /\ symbolInfo' = info
            /\ pending' = pending \ batch
            /\ server' = [IdleServer EXCEPT
                           !.pc = "read", !.batch = batch,
                           !.commands = [i \in DOMAIN names |-> ReadCommand(info, names[i])]]
  BY DEF StartRead
<1>2. PICK order \in SetToSeqs(Keys!Consolidated(UNION {ToSet(r.keys) : r \in batch})),
           granted \in SUBSET Property :
        LET names == WithProperties(order)
            info  == Looked(symbolInfo, names, granted)
        IN  /\ symbolInfo' = info
            /\ pending' = pending \ batch
            /\ server' = [IdleServer EXCEPT
                           !.pc = "read", !.batch = batch,
                           !.commands = [i \in DOMAIN names |-> ReadCommand(info, names[i])]]
  BY <1>1
<1>3. PICK names, info : names = WithProperties(order) /\ info = Looked(symbolInfo, names, granted)
  OBVIOUS
<1>4. /\ symbolInfo' = info
      /\ pending' = pending \ batch
      /\ server' = [IdleServer EXCEPT
                     !.pc = "read", !.batch = batch,
                     !.commands = [i \in DOMAIN names |-> ReadCommand(info, names[i])]]
  BY <1>2, <1>3
<1>5. IsFiniteSet(batch) /\ batch \subseteq Requests
  BY FS_Subset DEF SourceSound, RequestsKept
<1>6. /\ order \in Seq(Name) /\ OnceEach(order)
      /\ ToSet(order) = Keys!Consolidated(UNION {ToSet(r.keys) : r \in batch})
  <2>1. \A r \in batch : r.keys \in Seq(Name)
    BY <1>5, KeyListsAre
  <2> DEFINE all == UNION {ToSet(r.keys) : r \in batch}
             left == Keys!Consolidated(all)
  <2>2. IsFiniteSet(all) /\ all \subseteq Name
    BY <1>5, <2>1, BatchNames
  <2>3. left \subseteq all
    BY DEF Keys!Consolidated
  <2>4. order \in SetToSeqs(left)
    OBVIOUS
  <2> HIDE DEF all, left
  <2>5. IsFiniteSet(left) /\ left \subseteq Name
    BY <2>2, <2>3, FS_Subset
  <2>6. order \in Seq(Name) /\ ToSet(order) = left /\ OnceEach(order)
    BY <2>4, <2>5, OrderIsList
  <2> QED BY <2>6 DEF left, all
<1>7. /\ names \in Seq(Name) /\ OnceEach(names)
      /\ ToSet(order) \subseteq ToSet(names) /\ ToSet(names) \subseteq ToSet(order) \cup Property
  <2>1. propertyReads \in Seq(Name) /\ ToSet(propertyReads) \subseteq Property
    <3>1. PICK reads : reads = propertyReads
      OBVIOUS
    <3>2. reads \in Seq(Property)
      BY <3>1 DEF SourceSound, ReadsKnown
    <3>3. ToSet(reads) \subseteq Property
      BY <3>2 DEF ToSet
    <3> QED BY <3>1, <3>2, <3>3, PropertyIsName, SeqMonotonic
  <2>2. /\ WithProperties(order) \in Seq(Name) /\ OnceEach(WithProperties(order))
        /\ ToSet(order) \subseteq ToSet(WithProperties(order))
        /\ ToSet(WithProperties(order)) \subseteq ToSet(order) \cup ToSet(propertyReads)
    BY <2>1, <1>6, WithPropertiesIs
  <2> QED BY <2>1, <2>2, <1>3
<1>8. ToSet(order) \subseteq UNION {ToSet(r.keys) : r \in batch}
  BY <1>6 DEF Keys!Consolidated
<1>9. /\ ToSet(names) \subseteq (UNION {ToSet(r.keys) : r \in batch}) \cup Property
      /\ Keys!Consolidated(UNION {ToSet(r.keys) : r \in batch}) \subseteq ToSet(names)
  BY <1>6, <1>7, <1>8
<1> QED
  BY <1>3, <1>4, <1>7, <1>9

(* the lookups of a batch,                                                 *)
LEMMA StepStartRead ==
  ASSUME SourceSound, StartRead, UNCHANGED parsedSymbols
  PROVE  SourceSound'
<1>0. UNCHANGED <<parsedSymbols, memory, symbolData, propertyReads, queue, response>>
  BY DEF StartRead
<1>1. PICK batch \in SUBSET pending, names \in Seq(Name), granted \in SUBSET Property :
        /\ symbolInfo' = Looked(symbolInfo, names, granted)
        /\ pending' = pending \ batch
        /\ server' = [IdleServer EXCEPT
                       !.pc = "read", !.batch = batch,
                       !.commands = [i \in DOMAIN names |->
                                       ReadCommand(symbolInfo', names[i])]]
  BY StartReadLooks
<1>3. PICK info : info = Looked(symbolInfo, names, granted)
  OBVIOUS
<1>4. /\ symbolInfo' = info
      /\ pending' = pending \ batch
      /\ server' = [IdleServer EXCEPT
                     !.pc = "read", !.batch = batch,
                     !.commands = [i \in DOMAIN names |-> ReadCommand(info, names[i])]]
  BY <1>1, <1>3
<1>5. IsFiniteSet(batch) /\ batch \subseteq Requests
  BY FS_Subset DEF SourceSound, RequestsKept
<1>8. SoundCache(info) /\ Extends(symbolInfo, info)
  <2>1. PICK old : old = symbolInfo
    OBVIOUS
  <2>2. SoundCache(old) /\ parsedSymbols \in Tables
    BY <2>1 DEF SourceSound, CachesSound
  <2> QED BY <2>1, <2>2, <1>3, LookedIsSound
<1>9. CachesSound'
  BY <1>0, <1>4, <1>8 DEF SourceSound, CachesSound
<1>10. ReadsKnown(propertyReads, symbolInfo)'
  <2>1. ReadsKnown(propertyReads, info)
    BY <1>8, GrownReads DEF SourceSound
  <2> QED BY <2>1, <1>0, <1>4
<1>11. RequestsKept'
  <2>1. IsFiniteSet(pending \ batch)
    BY FS_Difference DEF SourceSound, RequestsKept
  <2> QED BY <2>1, <1>0, <1>4 DEF SourceSound, RequestsKept
<1>12. ServerPlaced(server, symbolInfo)'
  <2> DEFINE commands == [i \in DOMAIN names |-> ReadCommand(info, names[i])]
  <2>1. \A i \in DOMAIN names : ReadCommand(info, names[i]).name = names[i]
    BY DEF ReadCommand, ByHandle, ByAddress
  <2>2. Commands(commands)
    <3>1. DOMAIN names = 1 .. Len(names) /\ Len(names) \in Nat
      OBVIOUS
    <3>2. Len(commands) = Len(names)
      BY <3>1
    <3>3. \A i \in 1 .. Len(names) : commands[i].name = names[i] /\ names[i] \in Name
      BY <3>1, <2>1
    <3> HIDE DEF commands
    <3> QED BY <3>1, <3>2, <3>3 DEF Commands
  <2> HIDE DEF commands
  <2>3. server' = [IdleServer EXCEPT !.pc = "read", !.batch = batch, !.commands = commands]
    BY <1>4 DEF commands
  <2> QED BY <2>2, <2>3, <1>5, IdleIsPlaced DEF ServerPlaced
<1>13. ResponsesPlaced'
  BY <1>0, SameResponses
<1> QED
  BY <1>9, <1>10, <1>11, <1>12, <1>13 DEF SourceSound

(* the answer of the PLC,                                                  *)
LEMMA StepSumRead ==
  ASSUME SourceSound, SumRead, UNCHANGED parsedSymbols
  PROVE  SourceSound'
<1>1. UNCHANGED <<parsedSymbols, memory, cacheVars, pending, queue, response>>
  BY DEF SumRead
<1>2. ServerPlaced(server, symbolInfo) /\ symbolInfo' = symbolInfo
  BY <1>1 DEF SourceSound, cacheVars
<1>3. ServerPlaced(server, symbolInfo)'
  <2>1. CASE server' = [server EXCEPT !.pc = "store", !.buffer = memory]
    BY <2>1, <1>2, IdleIsPlaced DEF ServerPlaced
  <2>2. CASE server' = [server EXCEPT
                          !.pc = "done",
                          !.batch = {[r EXCEPT !.failed = TRUE] : r \in server.batch}]
    <3>1. \A r \in Requests : [r EXCEPT !.failed = TRUE] \in Requests
      BY DEF Requests
    <3>2. {[r EXCEPT !.failed = TRUE] : r \in server.batch} \subseteq Requests
      BY <3>1, <1>2 DEF ServerPlaced
    <3> QED BY <2>2, <3>2, <1>2, IdleIsPlaced DEF ServerPlaced
  <2> QED BY <2>1, <2>2 DEF SumRead
<1> QED
  BY <1>1, <1>3, SameCaches, SameResponses DEF SourceSound, RequestsKept

(* the batch handed on to the response threads.                            *)
LEMMA StepQueueBatch ==
  ASSUME SourceSound, QueueBatch, UNCHANGED parsedSymbols
  PROVE  SourceSound'
<1>1. UNCHANGED <<parsedSymbols, memory, cacheVars, pending, response>>
  BY DEF QueueBatch
<1>2. queue' = queue \cup server.batch /\ server' = IdleServer
  BY DEF QueueBatch
<1>3. RequestsKept'
  BY <1>1, <1>2 DEF SourceSound, RequestsKept, ServerPlaced
<1>4. ServerPlaced(server, symbolInfo)'
  BY <1>2, IdleIsPlaced
<1> QED
  BY <1>1, <1>3, <1>4, SameCaches, SameResponses DEF SourceSound

-----------------------------------------------------------------------------
(* A command is for a name.                                                *)
LEMMA StoredName ==
  ASSUME SourceSound, server.at <= Len(server.commands)
  PROVE  server.commands[server.at].name \in Name
BY DEF SourceSound, ServerPlaced, Commands

(* A lookup keeps the symbol cache sound.                                  *)
LEMMA NamesLookedUp ==
  ASSUME SourceSound, NEW n \in Name
  PROVE  /\ SoundCache(FindInfo(parsedSymbols, symbolInfo, n))
         /\ Extends(symbolInfo, FindInfo(parsedSymbols, symbolInfo, n))
         /\ n \in DOMAIN FindInfo(parsedSymbols, symbolInfo, n)
<1>1. PICK tables, info : tables = parsedSymbols /\ info = symbolInfo
  OBVIOUS
<1>2. tables \in Tables /\ SoundCache(info)
  BY <1>1 DEF SourceSound, CachesSound
<1>3. /\ SoundCache(FindInfo(tables, info, n)) /\ Extends(info, FindInfo(tables, info, n))
      /\ n \in DOMAIN FindInfo(tables, info, n)
  BY <1>2, FindInfoIsSound
<1> QED
  BY <1>1, <1>3

(* A lookup keeps the value cache well formed.                             *)
LEMMA ValueLookedUp ==
  ASSUME NEW tree, Shaped(tree), NEW n \in Name
  PROVE  Shaped(FindValue(tree, n)) /\ ToLower(n) \in DOMAIN FindValue(tree, n)
<1>1. n \in Seq(Key)
  BY NamesAreKeys
<1> QED
  BY <1>1, WalkIsShaped DEF FindValue, ToLower

(* The invariant is kept by the next command,                              *)
LEMMA StepStoreNext ==
  ASSUME SourceSound, StoreNext, UNCHANGED parsedSymbols
  PROVE  SourceSound'
<1>0. /\ UNCHANGED <<parsedSymbols, memory, pending, queue, response>>
      /\ server.pc = "store" /\ server.at <= Len(server.commands)
  BY DEF StoreNext, AtServer
<1>1. PICK n : n = server.commands[server.at].name
  OBVIOUS
<1>2. PICK status : status = Status(server.commands[server.at])
  OBVIOUS
<1>3. PICK info : info = FindInfo(parsedSymbols, symbolInfo, n)
  OBVIOUS
<1>4. PICK tree : tree = FindValue(symbolData, n)
  OBVIOUS
<1>5. n \in Name
  BY <1>0, <1>1, StoredName
<1>6. /\ SoundCache(info) /\ Extends(symbolInfo, info) /\ n \in DOMAIN info
      /\ info[n] \in Entry
  <2>1. SoundCache(info) /\ Extends(symbolInfo, info) /\ n \in DOMAIN info
    BY <1>3, <1>5, NamesLookedUp
  <2> QED BY <2>1, CacheIs DEF SoundCache
<1>7. Shaped(tree) /\ ToLower(n) \in DOMAIN tree
  <2>1. PICK old : old = symbolData
    OBVIOUS
  <2>2. Shaped(old)
    BY <2>1 DEF SourceSound, CachesSound
  <2> QED BY <2>1, <2>2, <1>4, <1>5, ValueLookedUp
<1>8. /\ status = "ok" =>
             /\ symbolInfo' = info /\ symbolData' = tree /\ propertyReads' = propertyReads
             /\ server' = [server EXCEPT !.pc = "parse", !.leaves = Leaves(info, n)]
      /\ status = "no getter" =>
             /\ symbolInfo' = [info EXCEPT ![n].readFail = TRUE]
             /\ symbolData' = SetNode(tree, ToLower(n), Null)
             /\ propertyReads' = WithoutRead(n)
             /\ server' = [server EXCEPT !.at = @ + 1, !.pdata = NextData(@, status)]
      /\ status \notin {"ok", "no getter"} =>
             /\ symbolInfo' = info /\ symbolData' = tree /\ propertyReads' = propertyReads
             /\ server' = [server EXCEPT !.at = @ + 1, !.pdata = NextData(@, status)]
  BY <1>1, <1>2, <1>3, <1>4 DEF StoreNext
<1>9. RequestsKept' /\ ResponsesPlaced'
  BY <1>0, SameResponses DEF SourceSound, RequestsKept
<1>10. ServerPlaced(server, info) /\ ReadsKnown(propertyReads, info)
  BY <1>6, GrownPlace, GrownReads DEF SourceSound
<1>11. parsedSymbols' \in Tables /\ memory' \in [Stored -> Nat]
  BY <1>0 DEF SourceSound, CachesSound
<1>12. ASSUME server' = [server EXCEPT !.at = @ + 1, !.pdata = NextData(@, status)],
              NEW new
       PROVE  ServerPlaced(server', new)
  BY <1>0, <1>10, <1>12, IdleIsPlaced DEF ServerPlaced
<1>13. CASE status = "ok"
  <2>1. /\ symbolInfo' = info /\ symbolData' = tree /\ propertyReads' = propertyReads
        /\ server' = [server EXCEPT !.pc = "parse", !.leaves = Leaves(info, n)]
    BY <1>8, <1>13
  <2>2. CachesSound'
    BY <2>1, <1>6, <1>7, <1>11 DEF CachesSound
  <2>3. ServerPlaced(server', info)
    <3>1. LeavesOf(info, Leaves(info, n), n)
      BY LeavesAre
    <3> QED BY <2>1, <3>1, <1>0, <1>1, <1>10, IdleIsPlaced DEF ServerPlaced
  <2> QED BY <2>1, <2>2, <2>3, <1>9, <1>10 DEF SourceSound
<1>14. CASE status = "no getter"
  <2> DEFINE e == [info[n] EXCEPT !.readFail = TRUE]
             new == [info EXCEPT ![n] = e]
  <2>1. /\ symbolInfo' = new
        /\ symbolData' = SetNode(tree, ToLower(n), Null)
        /\ propertyReads' = WithoutRead(n)
        /\ server' = [server EXCEPT !.at = @ + 1, !.pdata = NextData(@, status)]
    BY <1>8, <1>14
  <2>2. /\ e \in Entry /\ e.found = info[n].found /\ e.address = info[n].address
        /\ e.cacheComplete = info[n].cacheComplete
    BY <1>6 DEF Entry
  <2>3. DOMAIN new = DOMAIN info /\ \A m \in DOMAIN info : m # n => new[m] = info[m]
    OBVIOUS
  <2> HIDE DEF e
  <2>4. SoundCache(new)
    BY <2>2, <1>6, FlagKeepsSound
  <2> HIDE DEF new
  <2>5. Shaped(SetNode(tree, ToLower(n), Null))
    BY <1>7, NodeSet
  <2>6. ReadsKnown(WithoutRead(n), new)
    <3>1. PICK reads : reads = propertyReads
      OBVIOUS
    <3>2. ReadsKnown(reads, info)
      BY <3>1, <1>10
    <3> DEFINE left == Among(reads, ToSet(reads) \ {n})
    <3>3. left \in Seq(Property) /\ ToSet(left) = ToSet(reads) \cap (ToSet(reads) \ {n})
      BY <3>2, AmongIs DEF ReadsKnown
    <3>4. WithoutRead(n) = left
      BY <3>1 DEF WithoutRead
    <3> HIDE DEF left
    <3>5. \A i \in DOMAIN left : left[i] # n /\ \E j \in DOMAIN reads : left[i] = reads[j]
      BY <3>3 DEF ToSet
    <3>6. \A i \in DOMAIN left : left[i] \in DOMAIN new /\ ~new[left[i]].readFail
      BY <3>2, <3>5, <2>3 DEF ReadsKnown
    <3> QED BY <3>3, <3>4, <3>6 DEF ReadsKnown
  <2>7. CachesSound'
    BY <2>1, <2>4, <2>5, <1>11 DEF CachesSound
  <2>8. ServerPlaced(server', new)
    BY <2>1, <1>12
  <2> QED BY <2>1, <2>6, <2>7, <2>8, <1>9 DEF SourceSound
<1>15. CASE status # "ok" /\ status # "no getter"
  <2>1. /\ symbolInfo' = info /\ symbolData' = tree /\ propertyReads' = propertyReads
        /\ server' = [server EXCEPT !.at = @ + 1, !.pdata = NextData(@, status)]
    BY <1>8, <1>15
  <2>2. CachesSound'
    BY <2>1, <1>6, <1>7, <1>11 DEF CachesSound
  <2>3. ServerPlaced(server', info)
    BY <2>1, <1>12
  <2> QED BY <2>1, <2>2, <2>3, <1>9, <1>10 DEF SourceSound
<1> QED
  BY <1>13, <1>14, <1>15

(* by a leaf that is looked up,                                            *)
LEMMA StepParseLeaf ==
  ASSUME SourceSound, ParseLeaf, UNCHANGED parsedSymbols
  PROVE  SourceSound'
<1>0. /\ UNCHANGED <<parsedSymbols, memory, symbolInfo, pending, queue, response>>
      /\ server.pc = "parse"
  BY DEF ParseLeaf, AtServer
<1>1. PICK n : n = server.commands[server.at].name
  OBVIOUS
<1>2. PICK r \in server.leaves : \E parsed \in MayHaveValue(r) :
        /\ symbolData' = SetNode(ReachMember(symbolData, n, r), DataPath(n, r), Null)
        /\ propertyReads' = IF AwaitsHandle(r) THEN Append(propertyReads, r)
                                               ELSE propertyReads
        /\ server' = IF parsed
                     THEN [server EXCEPT !.pc = "assign", !.leaves = @ \ {r},
                                         !.path = DataPath(n, r),
                                         !.value = ValueAt(n, r)]
                     ELSE NextLeaf([server EXCEPT !.leaves = @ \ {r}])
  BY <1>1 DEF ParseLeaf
<1>p. PICK parsed :
        server' = IF parsed
                  THEN [server EXCEPT !.pc = "assign", !.leaves = @ \ {r},
                                      !.path = DataPath(n, r), !.value = ValueAt(n, r)]
                  ELSE NextLeaf([server EXCEPT !.leaves = @ \ {r}])
  BY <1>2
<1>3. /\ ServerPlaced(server, symbolInfo) /\ server.at <= Len(server.commands)
      /\ LeavesOf(symbolInfo, server.leaves, n)
  BY <1>0, <1>1 DEF SourceSound, ServerPlaced
<1>4. n \in Name /\ r \in Name /\ r \in DOMAIN symbolInfo /\ (r = n \/ Below(r, n))
  <2>1. n \in Name
    BY <1>1, <1>3, StoredName
  <2>2. r \in DOMAIN symbolInfo /\ (r = n \/ Below(r, n))
    BY <1>2, <1>3 DEF LeavesOf
  <2>3. r \in Name
    <3>1. PICK info : info = symbolInfo
      OBVIOUS
    <3>2. info \in Caches
      BY <3>1 DEF SourceSound, CachesSound, SoundCache
    <3> QED BY <3>1, <3>2, <2>2, CacheIs
  <2> QED BY <2>1, <2>2, <2>3
<1>5. Shaped(symbolData')
  <2>1. PICK tree : tree = symbolData
    OBVIOUS
  <2>2. Shaped(tree) /\ DataPath(n, r) \in Seq(Key)
    BY <2>1, <1>4, DataPathIs DEF SourceSound, CachesSound
  <2>3. Shaped(ReachMember(tree, n, r)) /\ DataPath(n, r) \in DOMAIN ReachMember(tree, n, r)
    BY <2>2, WalkIsShaped DEF ReachMember
  <2>4. Shaped(SetNode(ReachMember(tree, n, r), DataPath(n, r), Null))
    BY <2>3, NodeSet
  <2> QED BY <2>1, <2>4, <1>2
<1>6. CachesSound'
  BY <1>0, <1>5 DEF SourceSound, CachesSound
<1>7. ReadsKnown(propertyReads, symbolInfo)'
  <2>1. PICK reads, info : reads = propertyReads /\ info = symbolInfo
    OBVIOUS
  <2>2. ReadsKnown(reads, info) /\ reads \in Seq(Property)
    BY <2>1 DEF SourceSound, ReadsKnown
  <2>3. ASSUME r \in Property, ~info[r].readFail
        PROVE  ReadsKnown(Append(reads, r), info)
    <3> DEFINE more == Append(reads, r)
    <3>1. more \in Seq(Property)
      BY <2>2, <2>3
    <3>2. \A i \in DOMAIN more : more[i] = r \/ (i \in DOMAIN reads /\ more[i] = reads[i])
      <4>1. /\ DOMAIN more = 1 .. Len(reads) + 1 /\ DOMAIN reads = 1 .. Len(reads)
            /\ more[Len(reads) + 1] = r /\ Len(reads) \in Nat
            /\ \A i \in 1 .. Len(reads) : more[i] = reads[i]
        BY <2>2, <2>3, AppendProperties
      <4> HIDE DEF more
      <4> QED BY <4>1
    <3> HIDE DEF more
    <3>3. r \in DOMAIN info
      BY <1>4, <2>1
    <3> QED BY <3>1, <3>2, <3>3, <2>2, <2>3 DEF ReadsKnown, more
  <2>4. ReadsKnown(propertyReads', info)
    <3>1. CASE AwaitsHandle(r)
      BY <3>1, <2>1, <2>3, <1>2 DEF AwaitsHandle
    <3>2. CASE ~AwaitsHandle(r)
      BY <3>2, <2>1, <2>2, <1>2
    <3> QED BY <3>1, <3>2
  <2> QED BY <2>1, <2>4, <1>0
<1>8. ServerPlaced(server, symbolInfo)'
  <2>1. PICK now : now = [server EXCEPT !.leaves = @ \ {r}]
    OBVIOUS
  <2>2. ServerPlaced(now, symbolInfo) /\ now.pc = "parse"
    BY <2>1, <1>0, <1>3, IdleIsPlaced DEF ServerPlaced, LeavesOf
  <2>3. CASE parsed
    <3>1. PICK path, value : path = DataPath(n, r) /\ value = ValueAt(n, r)
      OBVIOUS
    <3>2. server' = [server EXCEPT !.pc = "assign", !.leaves = @ \ {r},
                                   !.path = path, !.value = value]
      BY <2>3, <3>1, <1>p
    <3>3. ServerPlaced(server', symbolInfo)
      BY <3>2, <1>0, <1>3, IdleIsPlaced DEF ServerPlaced, LeavesOf
    <3> QED BY <3>3, <1>0
  <2>4. CASE ~parsed
    <3>1. server' = NextLeaf(now)
      BY <2>1, <2>4, <1>p
    <3>2. ServerPlaced(NextLeaf(now), symbolInfo)
      BY <2>2, NextLeafIsPlaced
    <3> QED BY <3>1, <3>2, <1>0
  <2> QED BY <2>3, <2>4
<1>9. RequestsKept' /\ ResponsesPlaced'
  BY <1>0, SameResponses DEF SourceSound, RequestsKept
<1> QED
  BY <1>6, <1>7, <1>8, <1>9 DEF SourceSound

(* by a leaf that is assigned,                                             *)
LEMMA StepAssignValue ==
  ASSUME SourceSound, AssignValue, UNCHANGED parsedSymbols
  PROVE  SourceSound'
<1>0. /\ UNCHANGED <<parsedSymbols, memory, symbolInfo, propertyReads, pending, queue, response>>
      /\ server.pc = "assign"
  BY DEF AssignValue, AtServer
<1>1. Shaped(symbolData')
  <2>1. PICK tree, path, value :
          tree = symbolData /\ path = server.path /\ value = Number(server.value)
    OBVIOUS
  <2>2. Shaped(tree)
    BY <2>1 DEF SourceSound, CachesSound
  <2>3. path \in DOMAIN tree => Shaped(SetNode(tree, path, value))
    BY <2>2, NodeSet
  <2> QED BY <2>1, <2>2, <2>3 DEF AssignValue
<1>2. ServerPlaced(server, symbolInfo)'
  <2>1. PICK now : now = [server EXCEPT !.path = <<>>, !.value = NoCell]
    OBVIOUS
  <2>2. ServerPlaced(now, symbolInfo) /\ now.pc = "assign"
    BY <2>1, <1>0, IdleIsPlaced DEF SourceSound, ServerPlaced
  <2>3. server' = NextLeaf(now)
    BY <2>1 DEF AssignValue
  <2> QED BY <2>2, <2>3, <1>0, NextLeafIsPlaced
<1>3. CachesSound' /\ ReadsKnown(propertyReads, symbolInfo)'
  BY <1>0, <1>1 DEF SourceSound, CachesSound
<1> QED
  BY <1>0, <1>2, <1>3, SameResponses DEF SourceSound, RequestsKept

-----------------------------------------------------------------------------
(* by a response thread that takes a request,                              *)
LEMMA StepTakeResponse ==
  ASSUME SourceSound, NEW p \in Responders, TakeResponse(p), UNCHANGED parsedSymbols
  PROVE  SourceSound'
<1>0. UNCHANGED <<parsedSymbols, memory, cacheVars, pending, server>>
  BY DEF TakeResponse
<1>1. PICK r \in queue : /\ queue' = queue \ {r}
                         /\ response' = [response EXCEPT ![p] = [request |-> r, got |-> <<>>]]
  BY DEF TakeResponse
<1>2. r \in Requests /\ r.keys \in Seq(Name)
  BY KeyListsAre DEF SourceSound, RequestsKept
<1>3. ResponsePlaced([request |-> r, got |-> <<>>])
  <2>1. <<>> \in Seq({}) /\ Len(<<>>) = 0 /\ Len(r.keys) \in Nat
    BY <1>2
  <2> QED BY <2>1, <1>2 DEF ResponsePlaced
<1>4. ResponsesPlaced'
  BY <1>1, <1>3 DEF SourceSound, ResponsesPlaced
<1>5. RequestsKept'
  BY <1>0, <1>1 DEF SourceSound, RequestsKept
<1> QED
  BY <1>0, <1>4, <1>5, SameCaches DEF SourceSound, cacheVars

(* copies a value,                                                         *)
LEMMA StepGetSymbolValue ==
  ASSUME SourceSound, NEW p \in Responders, GetSymbolValue(p), UNCHANGED parsedSymbols
  PROVE  SourceSound'
<1>0. UNCHANGED <<parsedSymbols, memory, symbolInfo, propertyReads, pending, queue, server>>
  BY DEF GetSymbolValue
<1>1. PICK taken : taken = response[p]
  OBVIOUS
<1>2. /\ taken # None /\ Len(taken.got) < Len(taken.request.keys)
      /\ symbolData' = FindValue(symbolData, NextKey(p))
  BY <1>1 DEF GetSymbolValue
<1>3. PICK v : response' = [response EXCEPT ![p].got = Append(@, v)]
  BY DEF GetSymbolValue
<1>4. ResponsePlaced(taken) /\ DOMAIN response = Responders
  BY <1>1 DEF SourceSound, ResponsesPlaced
<1>5. PICK S : taken.got \in Seq(S)
  BY <1>2, <1>4 DEF ResponsePlaced
<1>6. taken.request.keys \in Seq(Name)
  BY <1>2, <1>4, KeyListsAre DEF ResponsePlaced
<1>7. NextKey(p) \in Name
  <2>1. Len(taken.got) + 1 \in 1 .. Len(taken.request.keys)
    BY <1>2, <1>5, <1>6
  <2>2. taken.request.keys[Len(taken.got) + 1] \in Name
    BY <2>1, <1>6, ElementOfSeq
  <2> QED BY <2>2, <1>1 DEF NextKey
<1>8. Shaped(symbolData')
  <2>1. PICK tree, n : tree = symbolData /\ n = NextKey(p)
    OBVIOUS
  <2>2. Shaped(tree) /\ n \in Name
    BY <2>1, <1>7 DEF SourceSound, CachesSound
  <2> QED BY <2>1, <2>2, <1>2, ValueLookedUp
<1>9. ResponsePlaced([taken EXCEPT !.got = Append(@, v)])
  <2> DEFINE got == Append(taken.got, v)
  <2>1. taken.got \in Seq(S \cup {v})
    BY <1>5, SeqMonotonic
  <2>2. got \in Seq(S \cup {v}) /\ Len(got) = Len(taken.got) + 1
    BY <2>1, AppendProperties
  <2>3. Len(got) <= Len(taken.request.keys)
    BY <2>2, <1>2, <1>5, <1>6
  <2> HIDE DEF got
  <2>4. \E T : got \in Seq(T)
    BY <2>2
  <2>5. DOMAIN taken = {"request", "got"} /\ taken.request \in Requests
    BY <1>2, <1>4 DEF ResponsePlaced
  <2>6. PICK new : new = [taken EXCEPT !.got = got]
    OBVIOUS
  <2>7. DOMAIN new = {"request", "got"} /\ new.request = taken.request /\ new.got = got
    BY <2>5, <2>6
  <2>8. ResponsePlaced(new)
    BY <2>3, <2>4, <2>5, <2>7 DEF ResponsePlaced
  <2> QED BY <2>6, <2>8 DEF got
<1>10. ResponsesPlaced'
  <2>1. response' = [response EXCEPT ![p] = [taken EXCEPT !.got = Append(@, v)]]
    BY <1>1, <1>3
  <2>2. PICK new : new = [taken EXCEPT !.got = Append(@, v)]
    OBVIOUS
  <2> QED BY <2>1, <2>2, <1>9 DEF SourceSound, ResponsesPlaced
<1>11. CachesSound' /\ ReadsKnown(propertyReads, symbolInfo)'
  BY <1>0, <1>8 DEF SourceSound, CachesSound
<1> QED
  BY <1>0, <1>10, <1>11 DEF SourceSound, RequestsKept

(* or sends,                                                               *)
LEMMA StepSendResponse ==
  ASSUME SourceSound, NEW p \in Responders, SendResponse(p), UNCHANGED parsedSymbols
  PROVE  SourceSound'
<1>0. UNCHANGED <<parsedSymbols, memory, cacheVars, pending, queue, server>>
  BY DEF SendResponse
<1>1. ResponsesPlaced'
  <2>1. ResponsePlaced(None)
    BY DEF ResponsePlaced
  <2> QED BY <2>1 DEF SendResponse, SourceSound, ResponsesPlaced
<1> QED
  BY <1>0, <1>1, SameCaches DEF SourceSound, RequestsKept, cacheVars

-----------------------------------------------------------------------------
(* by the lookups of a write,                                              *)
LEMMA StepStartWrite ==
  ASSUME SourceSound, StartWrite, UNCHANGED parsedSymbols
  PROVE  SourceSound'
<1>0. UNCHANGED <<parsedSymbols, memory, symbolData, propertyReads, pending, queue, server,
                  response>>
  BY DEF StartWrite
<1>1. PICK message \in Messages : \E granted : symbolInfo' = Looked(symbolInfo, message, granted)
  BY DEF StartWrite
<1>g. PICK granted :
        symbolInfo' = Looked(symbolInfo, message, granted)
  BY <1>1
<1>2. SoundCache(symbolInfo') /\ Extends(symbolInfo, symbolInfo')
  <2>1. PICK old : old = symbolInfo
    OBVIOUS
  <2>2. SoundCache(old) /\ parsedSymbols \in Tables /\ message \in Seq(Name)
    BY <2>1, KeyListsAre DEF SourceSound, CachesSound
  <2>3. SoundCache(Looked(old, message, granted)) /\ Extends(old, Looked(old, message, granted))
    BY <2>2, LookedIsSound
  <2> QED BY <2>1, <2>3, <1>g
<1>3. CachesSound'
  BY <1>0, <1>2 DEF SourceSound, CachesSound
<1>4. ReadsKnown(propertyReads, symbolInfo') /\ ServerPlaced(server, symbolInfo')
  BY <1>2, GrownReads, GrownPlace DEF SourceSound
<1> QED
  BY <1>0, <1>3, <1>4, SameResponses DEF SourceSound, RequestsKept

(* and by the write.                                                       *)
LEMMA StepSumWrite ==
  ASSUME SourceSound, SumWrite, UNCHANGED parsedSymbols
  PROVE  SourceSound'
<1>0. UNCHANGED <<parsedSymbols, cacheVars, pending, queue, server, response>>
  BY DEF SumWrite
<1>1. PICK targets : memory' = [c \in Stored |-> IF c \in targets THEN memory[c] + 1
                                                                 ELSE memory[c]]
  BY DEF SumWrite
<1>2. memory' \in [Stored -> Nat]
  BY <1>1 DEF SourceSound, CachesSound
<1>3. CachesSound' /\ ReadsKnown(propertyReads, symbolInfo)'
  BY <1>0, <1>2 DEF SourceSound, CachesSound, cacheVars
<1> QED
  BY <1>0, <1>3, SameResponses DEF SourceSound, RequestsKept, cacheVars

-----------------------------------------------------------------------------
(* The invariant holds at the start ...                                    *)
LEMMA InitSound == ServerInit => SourceSound
<1> SUFFICES ASSUME ServerInit PROVE SourceSound
  OBVIOUS
<1>1. parsedSymbols \in Tables
  BY DEF ServerInit, StartupInit, Tables
<1>2. /\ memory = [c \in Stored |-> 0] /\ symbolInfo = <<>> /\ symbolData = EmptyTree
      /\ propertyReads = <<>> /\ pending = {} /\ queue = {}
      /\ server = IdleServer /\ response = [p \in Responders |-> None]
  BY DEF ServerInit, Init
<1>3. CachesSound
  BY <1>1, <1>2, EmptyCacheIsSound, EmptyTreeIsShaped DEF CachesSound
<1>4. ReadsKnown(<<>>, <<>>)
  BY DEF ReadsKnown
<1>5. RequestsKept
  BY <1>2, FS_EmptySet DEF RequestsKept
<1>6. ResponsesPlaced
  BY <1>2 DEF ResponsesPlaced, ResponsePlaced
<1> QED
  BY <1>2, <1>3, <1>4, <1>5, <1>6, IdleIsPlaced DEF SourceSound

(* A step of the threads, once the server serves.                          *)
LEMMA StepNext ==
  ASSUME SourceSound, Next
  PROVE  SourceSound'
<1>0. UNCHANGED parsedSymbols
  BY DEF Next
<1>1. CASE PlcCycle
  BY <1>0, <1>1, StepPlcCycle
<1>2. CASE \E keys \in KeyLists : Ask(keys)
  BY <1>0, <1>2, StepAsk
<1>3. CASE ServerThread
  <2>1. CASE NothingPending
    BY <2>1 DEF NothingPending, vars, dataVars, SourceSound, CachesSound, RequestsKept,
                ResponsesPlaced, cacheVars
  <2>2. CASE StartRead
    BY <1>0, <2>2, StepStartRead
  <2>3. CASE SumRead
    BY <1>0, <2>3, StepSumRead
  <2>4. CASE StoreNext
    BY <1>0, <2>4, StepStoreNext
  <2>5. CASE ParseLeaf
    BY <1>0, <2>5, StepParseLeaf
  <2>6. CASE AssignValue
    BY <1>0, <2>6, StepAssignValue
  <2>7. CASE QueueBatch
    BY <1>0, <2>7, StepQueueBatch
  <2> QED
    BY <1>3, <2>1, <2>2, <2>3, <2>4, <2>5, <2>6, <2>7 DEF ServerThread
<1>4. CASE \E p \in Responders : ResponseThread(p)
  <2>1. PICK p \in Responders : ResponseThread(p)
    BY <1>4
  <2>2. CASE TakeResponse(p)
    BY <1>0, <2>2, StepTakeResponse
  <2>3. CASE GetSymbolValue(p)
    BY <1>0, <2>3, StepGetSymbolValue
  <2>4. CASE SendResponse(p)
    BY <1>0, <2>4, StepSendResponse
  <2> QED
    BY <2>1, <2>2, <2>3, <2>4 DEF ResponseThread
<1>5. CASE StartWrite
  BY <1>0, <1>5, StepStartWrite
<1>6. CASE SumWrite
  BY <1>0, <1>6, StepSumWrite
<1> QED
  BY <1>1, <1>2, <1>3, <1>4, <1>5, <1>6 DEF Next

(* Nothing that the threads share changes before.                          *)
LEMMA SameData ==
  ASSUME SourceSound, UNCHANGED dataVars, parsedSymbols' \in Tables
  PROVE  SourceSound'
BY DEF dataVars, SourceSound, CachesSound, RequestsKept, ResponsesPlaced, cacheVars

(* ... after every step of the server ...                                  *)
LEMMA StepSound ==
  ASSUME SourceSound, [ServerNext]_serverVars
  PROVE  SourceSound'
<1>0. parsedSymbols \in Tables
  BY DEF SourceSound, CachesSound
<1>1. CASE UNCHANGED vars
  BY <1>0, <1>1, SameData DEF vars
<1>2. CASE ReadInfo
  <2>1. UNCHANGED dataVars
    BY <1>2 DEF ReadInfo
  <2>2. parsedSymbols' \in Tables
    <3>1. \/ UNCHANGED parsedSymbols
          \/ \E failed : parsedSymbols' = [symbols   |-> "symbols" \notin failed,
                                           datatypes |-> "datatypes" \notin failed]
      BY <1>2 DEF ReadInfo
    <3>2. \A failed : [symbols   |-> "symbols" \notin failed,
                       datatypes |-> "datatypes" \notin failed] \in Tables
      BY DEF Tables
    <3> QED BY <3>1, <3>2, <1>0
  <2> QED BY <2>1, <2>2, SameData
<1>3. CASE Serve
  BY <1>3, StepNext DEF Serve
<1> QED
  BY <1>1, <1>2, <1>3
  DEF ServerNext, ReadConfiguration, NoPlcConnection, TryAgain, Ended, serverVars

(* ... and so always.                                                      *)
LEMMA AlwaysSound == ServerSpec => []SourceSound
BY InitSound, StepSound, PTL DEF ServerSpec

-----------------------------------------------------------------------------
(* It says that the types are right.                                       *)
LEMMA SoundIsTyped == SourceSound => TypeOK
<1> SUFFICES ASSUME SourceSound PROVE TypeOK
  OBVIOUS
<1>1. PICK info, tree : info = symbolInfo /\ tree = symbolData
  OBVIOUS
<1>2. \A n \in DOMAIN info :
        /\ n # <<>> /\ info[n].address \in Nat
        /\ \A i \in DOMAIN n : SubSeq(n, 1, i) \in DOMAIN info
  <2>1. info \in Caches /\ Rooted(info)
    BY <1>1 DEF SourceSound, CachesSound, SoundCache
  <2>2. \A n \in DOMAIN info : n \in Name /\ info[n] \in Entry
    BY <2>1, CacheIs
  <2> QED BY <2>1, <2>2 DEF Rooted, Name, Entry
<1>3. \A q \in DOMAIN tree :
        q # <<>> => Front(q) \in DOMAIN tree /\ tree[Front(q)].kind \in {"object", "list"}
  BY <1>1 DEF SourceSound, CachesSound, Shaped, Holding
<1>4. ToSet(propertyReads) \subseteq Property
  BY DEF SourceSound, ReadsKnown, ToSet
<1>5. \A p \in Responders : response[p] # None => response[p].request \in Requests
  BY DEF SourceSound, ResponsesPlaced, ResponsePlaced
<1>6. /\ parsedSymbols \in [symbols : BOOLEAN, datatypes : BOOLEAN]
      /\ memory \in [Stored -> Nat]
      /\ pending \subseteq Requests /\ queue \subseteq Requests
      /\ server.batch \subseteq Requests
      /\ server.pc \in {"idle", "read", "store", "parse", "assign", "done"}
  BY DEF SourceSound, CachesSound, Tables, RequestsKept, ServerPlaced
<1>7. /\ \A n \in DOMAIN symbolInfo :
           /\ n # <<>> /\ symbolInfo[n].address \in Nat
           /\ \A i \in DOMAIN n : SubSeq(n, 1, i) \in DOMAIN symbolInfo
      /\ \A q \in DOMAIN symbolData :
           q # <<>> => /\ Front(q) \in DOMAIN symbolData
                       /\ symbolData[Front(q)].kind \in {"object", "list"}
  BY <1>1, <1>2, <1>3
<1> QED
  BY <1>4, <1>5, <1>6, <1>7 DEF TypeOK

(* DataSource_impl.h:24-95, DataSource.cpp:142-298: whatever the threads   *)
(* do in what order, the two caches stay trees, with an entry on the way   *)
(* to each entry, a value only where there is nothing below, and requests  *)
(* are only passed on.                                                     *)
THEOREM SourceIsTyped == ServerSpec => []TypeOK
BY AlwaysSound, SoundIsTyped, PTL

(* getMemberInfo and populateSymbolInfo (SymbolParser.cpp): the address    *)
(* that a name is read and written at is where the PLC has it, whichever   *)
(* names were asked for before, with whichever tables; except below an     *)
(* element of an array.                                                    *)
THEOREM AddressesAreRight == ServerSpec => []AddressesRight
<1>1. ASSUME SourceSound PROVE AddressesRight
  <2>1. \A n \in DOMAIN symbolInfo : symbolInfo[n].found =>
          n \in Node /\ symbolInfo[n].address = CachedAddress(n)
    BY <1>1 DEF SourceSound, CachesSound, SoundCache, Located
  <2>2. \A n \in Node : ~InElement(n) => CachedAddress(n) = Address[n]
    BY CachedIsAddress
  <2> QED BY <2>1, <2>2 DEF AddressesRight
<1> QED
  BY <1>1, AlwaysSound, PTL

(* cacheSymbolInfo and getMemberInfo: a name that counts as complete, so   *)
(* that it is never looked up again, has an entry for all its members,     *)
(* though names are cached in any order and a lookup takes in only the     *)
(* members on the way to its name.                                         *)
THEOREM CompleteAreWhole == ServerSpec => []CompleteIsWhole
<1>1. ASSUME SourceSound PROVE CompleteIsWhole
  BY <1>1 DEF SourceSound, CachesSound, SoundCache, Entire, CompleteIsWhole
<1> QED
  BY <1>1, AlwaysSound, PTL

(* readSymbolValue and parseBuffer share propertyReads and the flag        *)
(* readFail: a property whose read the PLC has refused for good is in no   *)
(* later batch.                                                            *)
THEOREM RefusedAreDropped == ServerSpec => []RefusedIsDropped
<1>1. ASSUME SourceSound PROVE RefusedIsDropped
  BY <1>1 DEF SourceSound, ReadsKnown, RefusedIsDropped
<1> QED
  BY <1>1, AlwaysSound, PTL

(* The sum read that is going on asks for nothing twice, and for nothing   *)
(* but names of its batch and properties: at the start there is none,      *)
LEMMA InitReadOnce == ServerInit => EachReadOnce
<1>1. DOMAIN (<<>>) = {}
  OBVIOUS
<1> QED
  BY <1>1 DEF ServerInit, Init, IdleServer, EachReadOnce

(* StartRead makes such a list,                                            *)
LEMMA StartReadOnce ==
  ASSUME SourceSound, StartRead
  PROVE  EachReadOnce'
<1>1. PICK batch \in SUBSET pending, names \in Seq(Name), granted \in SUBSET Property :
        /\ ToSet(names) \subseteq (UNION {ToSet(r.keys) : r \in batch}) \cup Property
        /\ OnceEach(names)
        /\ server' = [IdleServer EXCEPT
                       !.pc = "read", !.batch = batch,
                       !.commands = [i \in DOMAIN names |->
                                       ReadCommand(symbolInfo', names[i])]]
  BY StartReadLooks
<1>2. PICK info : info = symbolInfo'
  OBVIOUS
<1> DEFINE commands == [i \in DOMAIN names |-> ReadCommand(info, names[i])]
<1>3. /\ DOMAIN commands = DOMAIN names
      /\ \A i \in DOMAIN names : commands[i].name = names[i]
  BY DEF ReadCommand, ByHandle, ByAddress
<1>4. server'.commands = commands /\ server'.batch = batch
  BY <1>1, <1>2, IdleIsPlaced
<1> HIDE DEF commands
<1>5. \A i \in DOMAIN names : names[i] \in ToSet(names)
  BY DEF ToSet
<1>6. ASSUME NEW i \in DOMAIN names
      PROVE  /\ \A j \in DOMAIN names : names[j] = names[i] => i = j
             /\ names[i] \in Property \/ \E r \in batch : names[i] \in ToSet(r.keys)
  BY <1>1, <1>5 DEF OnceEach
<1> QED
  BY <1>3, <1>4, <1>6 DEF EachReadOnce

(* and every other step keeps the list and the names of the batch, or ends *)
(* the read.                                                               *)
LEMMA ServerThreadKeepsList ==
  ASSUME SourceSound, ServerThread
  PROVE  \/ StartRead
         \/ server' = IdleServer
         \/ /\ server'.commands = server.commands
            /\ server'.batch \in {server.batch, {[r EXCEPT !.failed = TRUE] : r \in server.batch}}
<1>0. DOMAIN server = {"pc", "batch", "commands", "at", "pdata", "buffer", "leaves", "path",
                       "value"}
  BY IdleIsPlaced DEF SourceSound, ServerPlaced
<1>1. CASE NothingPending
  BY <1>1 DEF NothingPending, vars, dataVars
<1>2. CASE SumRead
  BY <1>0, <1>2 DEF SumRead
<1>3. CASE StoreNext
  <2>1. \/ server' = [server EXCEPT !.pc = "parse", !.leaves = server'.leaves]
        \/ server' = [server EXCEPT !.at = @ + 1, !.pdata = server'.pdata]
    BY <1>0, <1>3 DEF StoreNext
  <2> QED BY <1>0, <2>1
<1>4. ASSUME NEW now, DOMAIN now = DOMAIN server
      PROVE  NextLeaf(now).commands = now.commands /\ NextLeaf(now).batch = now.batch
  BY <1>0, <1>4 DEF NextLeaf
<1>5. CASE ParseLeaf
  <2>1. PICK r : \/ server' = [server EXCEPT !.pc = "assign", !.leaves = @ \ {r},
                                            !.path = server'.path, !.value = server'.value]
                 \/ server' = NextLeaf([server EXCEPT !.leaves = @ \ {r}])
    BY <1>0, <1>5 DEF ParseLeaf
  <2>2. CASE server' = NextLeaf([server EXCEPT !.leaves = @ \ {r}])
    <3> DEFINE now == [server EXCEPT !.leaves = @ \ {r}]
    <3>1. DOMAIN now = DOMAIN server /\ now.commands = server.commands
            /\ now.batch = server.batch
      BY <1>0
    <3> HIDE DEF now
    <3>2. server' = NextLeaf(now)
      BY <2>2 DEF now
    <3> QED BY <1>4, <3>1, <3>2
  <2> QED BY <1>0, <2>1, <2>2
<1>6. CASE AssignValue
  <2> DEFINE now == [server EXCEPT !.path = <<>>, !.value = NoCell]
  <2>1. DOMAIN now = DOMAIN server /\ now.commands = server.commands
          /\ now.batch = server.batch
    BY <1>0
  <2>2. server' = NextLeaf(now)
    BY <1>6 DEF AssignValue
  <2> HIDE DEF now
  <2> QED BY <1>4, <2>1, <2>2
<1>7. CASE QueueBatch
  BY <1>7 DEF QueueBatch
<1> QED
  BY <1>1, <1>2, <1>3, <1>5, <1>6, <1>7 DEF ServerThread

(* So each step keeps it.                                                  *)
LEMMA StepReadOnce ==
  ASSUME SourceSound, EachReadOnce, [ServerNext]_serverVars
  PROVE  EachReadOnce'
<1>1. CASE UNCHANGED server
  BY <1>1 DEF EachReadOnce
<1>2. CASE Next /\ ServerThread
  <2>1. CASE StartRead
    BY <2>1, StartReadOnce
  <2>2. CASE server' = IdleServer
    BY <2>2 DEF IdleServer, EachReadOnce
  <2>3. CASE /\ server'.commands = server.commands
             /\ server'.batch \in {server.batch,
                                   {[r EXCEPT !.failed = TRUE] : r \in server.batch}}
    <3>1. \A r \in server.batch : [r EXCEPT !.failed = TRUE].keys = r.keys
      BY DEF SourceSound, ServerPlaced, Requests
    <3>2. \A r \in server.batch : \E q \in server'.batch : q.keys = r.keys
      BY <2>3, <3>1
    <3> QED BY <2>3, <3>2 DEF EachReadOnce
  <2> QED BY <1>2, <2>1, <2>2, <2>3, ServerThreadKeepsList
<1>3. UNCHANGED server \/ (Next /\ ServerThread)
  BY DEF ServerNext, ReadConfiguration, ReadInfo, NoPlcConnection, TryAgain, Serve, Ended,
         serverVars, vars, dataVars, Next, PlcCycle, Ask, ResponseThread, TakeResponse,
         GetSymbolValue, SendResponse, StartWrite, SumWrite
<1> QED
  BY <1>1, <1>2, <1>3

(* readSymbolValue (DataSource.cpp:184-188) adds the properties after the  *)
(* pipeline has limited the names: it asks the PLC for no name twice and   *)
(* for nothing but names of the batch and properties, so for no more than  *)
(* the limit and the number of properties.                                 *)
THEOREM NothingReadTwice == ServerSpec => []EachReadOnce
BY InitReadOnce, StepReadOnce, AlwaysSound, PTL DEF ServerSpec

-----------------------------------------------------------------------------
(***************************************************************************)
(* Which symbol is taken for a name, and what is then cached.              *)
(***************************************************************************)
LEMMA StartsWithComposes ==
  ASSUME NEW a \in Name, NEW b \in Name, NEW c \in Name, StartsWith(a, b), StartsWith(b, c)
  PROVE  StartsWith(a, c)
<1>0. /\ a \in Seq(DOMAIN Lower) /\ Len(a) \in Nat \ {0}
      /\ b \in Seq(DOMAIN Lower) /\ Len(b) \in Nat \ {0}
      /\ c \in Seq(DOMAIN Lower) /\ Len(c) \in Nat \ {0}
  BY NamesAreKeys
<1>1. /\ Len(b) <= Len(a) /\ SubSeq(a, 1, Len(b) - 1) = SubSeq(b, 1, Len(b) - 1)
      /\ a[Len(b)] = b[Len(b)] \/ <<b[Len(b)], a[Len(b)]>> \in Begins
  BY DEF StartsWith, Front, Last
<1>2. /\ Len(c) <= Len(b) /\ SubSeq(b, 1, Len(c) - 1) = SubSeq(c, 1, Len(c) - 1)
      /\ b[Len(c)] = c[Len(c)] \/ <<c[Len(c)], b[Len(c)]>> \in Begins
  BY DEF StartsWith, Front, Last
<1>3. \A j \in 0 .. Len(b) - 1 : SubSeq(a, 1, j) = SubSeq(b, 1, j)
  <2>1. Len(b) - 1 \in 0 .. Len(a) /\ Len(b) - 1 \in 0 .. Len(b)
    BY <1>0, <1>1
  <2> QED BY <2>1, <1>0, <1>1, SamePrefixes
<1>4. SubSeq(a, 1, Len(c) - 1) = SubSeq(c, 1, Len(c) - 1)
  <2>1. Len(c) - 1 \in 0 .. Len(b) - 1
    BY <1>0, <1>2
  <2> QED BY <2>1, <1>2, <1>3
<1>5. a[Len(c)] = c[Len(c)] \/ <<c[Len(c)], a[Len(c)]>> \in Begins
  <2>1. CASE Len(c) = Len(b)
    <3>1. ASSUME <<c[Len(c)], b[Len(b)]>> \in Begins, <<b[Len(b)], a[Len(b)]>> \in Begins
          PROVE  <<c[Len(c)], a[Len(b)]>> \in Begins
      BY <3>1, BeginsComposes
    <3> QED BY <2>1, <3>1, <1>1, <1>2
  <2>2. CASE Len(c) < Len(b)
    <3>1. Len(c) \in 0 .. Len(b) - 1 /\ Len(c) \in 1 .. Len(c)
          /\ Len(c) \in 0 .. Len(a) /\ Len(c) \in 0 .. Len(b)
      BY <2>2, <1>0, <1>1
    <3>2. SubSeq(a, 1, Len(c))[Len(c)] = a[Len(c)] /\ SubSeq(b, 1, Len(c))[Len(c)] = b[Len(c)]
      BY <3>1, <1>0, PrefixIs
    <3>3. a[Len(c)] = b[Len(c)]
      BY <3>1, <3>2, <1>3
    <3> QED BY <3>3, <1>2
  <2> QED BY <2>1, <2>2, <1>0, <1>2
<1>6. Len(c) <= Len(a)
  BY <1>0, <1>1, <1>2
<1> QED
  BY <1>4, <1>5, <1>6 DEF StartsWith, Front, Last

(* A name below another begins with it.                                    *)
LEMMA BelowStarts ==
  ASSUME NEW m \in Name, NEW s \in Name, m = s \/ Below(m, s)
  PROVE  StartsWith(m, s)
<1>0. /\ m \in Seq(DOMAIN Lower) /\ Len(m) \in Nat \ {0}
      /\ s \in Seq(DOMAIN Lower) /\ Len(s) \in Nat \ {0}
  BY NamesAreKeys
<1>1. Len(s) <= Len(m) /\ SubSeq(m, 1, Len(s)) = s
  <2>1. SubSeq(m, 1, Len(m)) = m
    BY <1>0, SubSeqFull
  <2> QED BY <2>1, <1>0, BelowIs
<1>2. SubSeq(m, 1, Len(s) - 1) = SubSeq(s, 1, Len(s) - 1)
  <2>1. Len(s) \in 0 .. Len(m) /\ Len(s) - 1 \in 0 .. Len(s)
    BY <1>0, <1>1
  <2> QED BY <2>1, <1>0, <1>1, PrefixOfPrefix
<1>3. m[Len(s)] = s[Len(s)]
  <2>1. Len(s) \in 0 .. Len(m) /\ Len(s) \in 1 .. Len(s)
    BY <1>0, <1>1
  <2> QED BY <2>1, <1>0, <1>1, PrefixIs
<1> QED
  BY <1>1, <1>2, <1>3 DEF StartsWith, Front, Last

(* What is below what is below is below.                                   *)
LEMMA BelowBelow ==
  ASSUME NEW d \in Name, NEW m \in Name, NEW s \in Name, Below(d, m), m = s \/ Below(m, s)
  PROVE  Below(d, s)
<1>0. /\ m \in Seq(DOMAIN Lower) /\ Len(m) \in Nat \ {0}
      /\ d \in Seq(DOMAIN Lower) /\ Len(d) \in Nat \ {0}
      /\ s \in Seq(DOMAIN Lower) /\ Len(s) \in Nat \ {0}
  BY NamesAreKeys
<1>1. CASE Below(m, s)
  <2>1. Len(s) < Len(m) /\ s = SubSeq(m, 1, Len(s))
    BY <1>0, <1>1, BelowIs
  <2>2. Len(m) < Len(d) /\ m = SubSeq(d, 1, Len(m))
    BY <1>0, BelowIs
  <2>3. SubSeq(SubSeq(d, 1, Len(m)), 1, Len(s)) = SubSeq(d, 1, Len(s))
    BY <2>1, <2>2, <1>0, PrefixOfPrefix
  <2> QED BY <2>1, <2>2, <2>3, <1>0, BelowIs
<1> QED
  BY <1>1

(* The symbol taken for n is n or above it.                                *)
SymbolFor(n) == Symbols[Min(SymbolsFor(n))]
Reached(n)   == SymbolsFor(n) # {} /\ (n = SymbolFor(n) \/ Below(n, SymbolFor(n)))

(* The symbol that a name is taken to: the first in the table that it      *)
(* begins with.                                                            *)
LEMMA SymbolForIs ==
  ASSUME NEW n \in Name, SymbolsFor(n) # {}
  PROVE  /\ IsSymbol(SymbolFor(n)) /\ SymbolFor(n) \in Node /\ SymbolFor(n) \in Name
         /\ StartsWith(n, SymbolFor(n))
         /\ Min(SymbolsFor(n)) \in SymbolsFor(n)
         /\ \A j \in SymbolsFor(n) : Min(SymbolsFor(n)) <= j
<1>1. SymbolsFor(n) \subseteq Nat
  BY SymbolsAreNodes DEF SymbolsFor
<1>2. /\ Min(SymbolsFor(n)) \in SymbolsFor(n)
      /\ \A j \in SymbolsFor(n) : Min(SymbolsFor(n)) <= j
  BY <1>1, MinIsLeast
<1>3. IsSymbol(SymbolFor(n)) /\ SymbolFor(n) \in Node /\ StartsWith(n, SymbolFor(n))
  BY <1>2, SymbolsAreNodes DEF SymbolsFor, SymbolFor, ToLower
<1> QED
  BY <1>2, <1>3, NodeNames

(* On the way to n from the symbol taken for it, that symbol is the one to *)
(* be taken.                                                               *)
LEMMA OnTheWayIsReached ==
  ASSUME NEW n \in Name, SymbolsFor(n) # {}, NEW m \in Name,
         m = SymbolFor(n) \/ Below(m, SymbolFor(n)), StartsWith(n, m)
  PROVE  Reached(m)
<1> DEFINE k == Min(SymbolsFor(n))
<1>1. /\ SymbolFor(n) \in Name /\ k \in SymbolsFor(n) /\ \A j \in SymbolsFor(n) : k <= j
      /\ SymbolFor(n) = Symbols[k]
  BY SymbolForIs DEF SymbolFor
<1> HIDE DEF k
<1>2. k \in SymbolsFor(m)
  <2>1. StartsWith(m, SymbolFor(n))
    BY <1>1, BelowStarts
  <2> QED BY <1>1, <2>1 DEF SymbolsFor, ToLower
<1>3. \A j \in SymbolsFor(m) : k <= j
  <2> SUFFICES ASSUME NEW j \in SymbolsFor(m) PROVE j \in SymbolsFor(n)
    BY <1>1
  <2>1. j \in DOMAIN Symbols /\ StartsWith(m, Symbols[j])
    BY DEF SymbolsFor, ToLower
  <2>2. Symbols[j] \in Name
    BY <2>1, SymbolsAreNodes, NodeNames
  <2>3. StartsWith(n, Symbols[j])
    BY <2>1, <2>2, StartsWithComposes
  <2> QED BY <2>1, <2>3 DEF SymbolsFor, ToLower
<1>4. SymbolsFor(m) \subseteq Nat
  BY SymbolsAreNodes DEF SymbolsFor
<1>5. SymbolFor(m) = SymbolFor(n)
  <2>1. Min(SymbolsFor(m)) = k
    BY <1>2, <1>3, <1>4, MinIs
  <2> QED BY <2>1, <1>1 DEF SymbolFor
<1> QED
  BY <1>2, <1>5 DEF Reached

-----------------------------------------------------------------------------
(***************************************************************************)
(* What tells a name with members from one without.  A name that the cache *)
(* knows has an entry for one of its members, if it has any: all of them   *)
(* were cached with it when it was asked for, or when a name was asked for *)
(* that it begins with.  A name that is only on the way to another may     *)
(* have no entry below it, until it is asked for itself.                   *)
(***************************************************************************)
Noticed(info, n) == (\E d \in Node : Below(d, n)) => \E m \in DOMAIN info : Below(m, n)

Noted(tables, info) ==
  /\ IsFiniteSet(DOMAIN info)
  /\ \A n \in DOMAIN info : info[n].found => tables.symbols
  /\ \A n \in DOMAIN info : info[n].notFound /\ tables.symbols => SymbolsFor(n) = {}
  /\ \A n \in DOMAIN info :
       info[n].found /\ tables.datatypes /\ ~Reached(n) => Noticed(info, n)

(* Entries stay.                                                           *)
Longer(info, new) == DOMAIN info \subseteq DOMAIN new

(* What has been noticed stays so.                                         *)
LEMMA StillNoticed ==
  ASSUME NEW info, NEW new, Longer(info, new), NEW n, Noticed(info, n)
  PROVE  Noticed(new, n)
BY DEF Longer, Noticed

(* In an empty cache there is nothing to note.                             *)
LEMMA EmptyIsNoted ==
  ASSUME NEW tables PROVE Noted(tables, <<>>)
<1>1. DOMAIN <<>> = {}
  OBVIOUS
<1> QED
  BY <1>1, FS_EmptySet DEF Noted

(* Entries made for a name claim nothing about the program.                *)
LEMMA MadeIsNoted ==
  ASSUME NEW tables, NEW info, Noted(tables, info), NEW n \in Name
  PROVE  Noted(tables, Made(info, n)) /\ Longer(info, Made(info, n))
<1> DEFINE P == {SubSeq(n, 1, i) : i \in DOMAIN n}
           made == Made(info, n)
<1>1. /\ DOMAIN made = DOMAIN info \cup P
      /\ \A m \in DOMAIN info : made[m] = info[m]
      /\ \A m \in DOMAIN made : m \in DOMAIN info \/ made[m] = Unknown
  BY DEF Made
<1>2. IsFiniteSet(P)
  <2>1. DOMAIN n = 1 .. Len(n) /\ Len(n) \in Nat
    BY NamesAreKeys
  <2> DEFINE D == DOMAIN n
             f == [i \in D |-> SubSeq(n, 1, i)]
  <2>2. IsFiniteSet(D)
    BY <2>1, FS_Interval
  <2>3. f \in [D -> P] /\ P = {f[i] : i \in D}
    OBVIOUS
  <2> HIDE DEF f, P, D
  <2>4. \A g \in [D -> P] : IsFiniteSet({g[i] : i \in D})
    BY <2>2, RangeIsFinite
  <2> QED BY <2>3, <2>4
<1> HIDE DEF P, made
<1>3. IsFiniteSet(DOMAIN made)
  <2>1. IsFiniteSet(DOMAIN info)
    BY DEF Noted
  <2> QED BY <1>1, <1>2, <2>1, FS_Union
<1>4. ~Unknown.found /\ ~Unknown.notFound
  BY DEF Unknown
<1>5. Longer(info, made)
  BY <1>1 DEF Longer
<1>6. \A m \in DOMAIN info : Noticed(info, m) => Noticed(made, m)
  BY <1>5, StillNoticed
<1> QED
  BY <1>1, <1>3, <1>4, <1>5, <1>6 DEF Noted, made

(* Nor does another flag of an entry, unless it is notFound.               *)
LEMMA FlagIsNoted ==
  ASSUME NEW tables, NEW info, Noted(tables, info), NEW n \in DOMAIN info, NEW e,
         e.found = info[n].found,
         e.notFound /\ tables.symbols => info[n].notFound \/ SymbolsFor(n) = {}
  PROVE  Noted(tables, [info EXCEPT ![n] = e]) /\ Longer(info, [info EXCEPT ![n] = e])
<1> DEFINE new == [info EXCEPT ![n] = e]
<1>1. /\ DOMAIN new = DOMAIN info
      /\ \A m \in DOMAIN info : new[m] = IF m = n THEN e ELSE info[m]
  OBVIOUS
<1> HIDE DEF new
<1>2. Longer(info, new)
  BY <1>1 DEF Longer
<1>3. \A m \in DOMAIN info : Noticed(info, m) => Noticed(new, m)
  BY <1>2, StillNoticed
<1> QED
  BY <1>1, <1>2, <1>3 DEF Noted, new

(* cacheSymbolInfo notices that a name has members.                        *)
LEMMA CachedIsNoted ==
  ASSUME NEW tables, NEW info, Noted(tables, info), NEW n \in Name,
         tables.symbols, SymbolsFor(n) # {}
  PROVE  LET new == CacheSymbolInfo(tables, info, n, SymbolFor(n))
         IN  /\ Noted(tables, new) /\ Longer(info, new)
             /\ tables.datatypes /\ Reached(n) => Noticed(new, n)
<1> DEFINE s == SymbolFor(n)
           base == Made(info, s)
           visited == {s} \cup {m \in Node : tables.datatypes /\ Below(m, s) /\ Related(m, n)}
           new == CacheSymbolInfo(tables, info, n, s)
<1>0. s \in Node /\ s \in Name /\ StartsWith(n, s)
  BY SymbolForIs
<1>1. Noted(tables, base) /\ Longer(info, base)
  BY <1>0, MadeIsNoted
<1>2. /\ visited \subseteq Node /\ visited \subseteq Name
      /\ \A m \in visited : m = s \/ (tables.datatypes /\ Below(m, s) /\ Related(m, n))
      /\ \A m \in Node : tables.datatypes /\ Below(m, s) /\ Related(m, n) => m \in visited
  BY <1>0, NodeNames
<1>3. /\ DOMAIN new = DOMAIN base \cup visited
      /\ \A m \in DOMAIN new : m \notin visited => new[m] = base[m]
  BY DEF CacheSymbolInfo
<1>4. /\ \A m \in visited : new[m].notFound => m \in DOMAIN info /\ info[m].notFound
  <2> SUFFICES ASSUME NEW m \in visited, new[m].notFound
               PROVE  m \in DOMAIN info /\ info[m].notFound
    OBVIOUS
  <2> DEFINE old == IF m \in DOMAIN info THEN info[m] ELSE Unknown
  <2>1. PICK x, y : new[m] = [old EXCEPT !.found = TRUE, !.address = x, !.cacheComplete = y]
    BY <1>3 DEF CacheSymbolInfo
  <2>2. CASE m \in DOMAIN info
    <3>1. PICK o : o = info[m]
      OBVIOUS
    <3>2. [o EXCEPT !.found = TRUE, !.address = x, !.cacheComplete = y].notFound
      BY <2>1, <2>2, <3>1
    <3>3. o.notFound
      BY <3>2
    <3> QED BY <2>2, <3>1, <3>3
  <2>3. CASE m \notin DOMAIN info
    BY <2>1, <2>3 DEF Unknown
  <2> QED BY <2>2, <2>3
<1> HIDE DEF new, base, visited, s
<1>5. IsFiniteSet(DOMAIN new)
  <2>1. IsFiniteSet(DOMAIN base) /\ IsFiniteSet(visited)
    BY <1>1, <1>2, NodeIsTree, FS_Subset DEF Noted
  <2> QED BY <2>1, <1>3, FS_Union
<1>6. Longer(info, new) /\ Longer(base, new)
  BY <1>1, <1>3 DEF Longer
<1>7. ASSUME NEW m \in Name, StartsWith(m, n), m = s \/ Below(m, s), tables.datatypes
      PROVE  Noticed(new, m)
  <2> SUFFICES ASSUME NEW d \in Node, Below(d, m) PROVE d \in DOMAIN new
    BY DEF Noticed
  <2>1. d \in Name
    BY NodeNames
  <2>2. StartsWith(d, n)
    BY <2>1, <1>7, BelowStarts, StartsWithComposes
  <2>3. Below(d, s)
    BY <2>1, <1>0, <1>7, BelowBelow
  <2> QED BY <2>2, <2>3, <1>2, <1>3, <1>7 DEF Related
<1>8. ASSUME NEW m \in DOMAIN new, new[m].found, tables.datatypes, ~Reached(m)
      PROVE  Noticed(new, m)
  <2>1. CASE m \notin visited
    <3>1. Noticed(base, m)
      BY <2>1, <1>1, <1>3, <1>8 DEF Noted
    <3> QED BY <3>1, <1>6, StillNoticed
  <2>2. CASE m \in visited
    <3>1. m \in Name /\ (m = s \/ Below(m, s)) /\ (StartsWith(m, n) \/ StartsWith(n, m))
      BY <2>2, <1>0, <1>2 DEF Related
    <3>2. ~StartsWith(n, m)
      BY <3>1, <1>8, OnTheWayIsReached DEF s
    <3> QED BY <3>1, <3>2, <1>7, <1>8
  <2> QED BY <2>1, <2>2
<1>9. ASSUME NEW m \in DOMAIN new, new[m].notFound
      PROVE  SymbolsFor(m) = {}
  <2>1. CASE m \notin visited
    BY <2>1, <1>1, <1>3, <1>9 DEF Noted
  <2>2. CASE m \in visited
    BY <2>2, <1>4, <1>9 DEF Noted
  <2> QED BY <2>1, <2>2
<1>10. Noted(tables, new)
  BY <1>5, <1>8, <1>9 DEF Noted
<1>11. ASSUME tables.datatypes, Reached(n)
       PROVE  Noticed(new, n)
  <2>1. n = s \/ Below(n, s)
    BY <1>11 DEF Reached, s
  <2>2. StartsWith(n, n)
    BY BelowStarts
  <2> QED BY <2>1, <2>2, <1>7, <1>11
<1> QED
  BY <1>6, <1>10, <1>11 DEF new, s

(* So does findInfo, once the tables are there,                            *)
LEMMA FindInfoIsNoted ==
  ASSUME NEW tables \in Tables, NEW info, SoundCache(info), Noted(tables, info), NEW n \in Name
  PROVE  LET new == FindInfo(tables, info, n)
         IN  /\ Noted(tables, new) /\ Longer(info, new)
             /\ tables.symbols /\ tables.datatypes /\ Reached(n) => Noticed(new, n)
<1> DEFINE made == Made(info, n)
           hits == IF tables.symbols THEN SymbolsFor(n) ELSE {}
           new  == FindInfo(tables, info, n)
<1>1. /\ SoundCache(made) /\ n \in DOMAIN made
      /\ Noted(tables, made) /\ Longer(info, made)
  BY MadeIsSound, MadeIsNoted
<1>2. ASSUME Reached(n), tables.symbols
      PROVE  hits # {} /\ ~made[n].notFound
  BY <1>1, <1>2 DEF Reached, Noted
<1>3. CASE made[n].cacheComplete \/ made[n].notFound
  <2>1. new = made
    BY <1>3 DEF FindInfo
  <2>2. ASSUME made[n].cacheComplete PROVE Noticed(made, n)
    BY <1>1, <2>2 DEF SoundCache, Entire, Noticed
  <2> QED BY <2>1, <2>2, <1>1, <1>2, <1>3
<1>4. CASE ~(made[n].cacheComplete \/ made[n].notFound) /\ hits = {}
  <2> DEFINE e == [made[n] EXCEPT !.notFound = TRUE]
  <2>1. new = [made EXCEPT ![n] = e]
    BY <1>4 DEF FindInfo
  <2>2. e.found = made[n].found /\ (tables.symbols => SymbolsFor(n) = {})
    <3>1. made[n] \in Entry
      BY <1>1, CacheIs DEF SoundCache
    <3> QED BY <3>1, <1>4 DEF Entry
  <2> HIDE DEF made, e, new
  <2>3. Noted(tables, new) /\ Longer(made, new)
    BY <1>1, <2>1, <2>2, FlagIsNoted
  <2> QED BY <1>1, <1>2, <1>4, <2>3 DEF Longer, new
<1>5. CASE ~(made[n].cacheComplete \/ made[n].notFound) /\ hits # {}
  <2>1. new = CacheSymbolInfo(tables, made, n, SymbolFor(n))
    BY <1>5 DEF FindInfo, SymbolFor
  <2>2. tables.symbols /\ SymbolsFor(n) # {}
    BY <1>5
  <2> HIDE DEF made, new
  <2>3. /\ Noted(tables, new) /\ Longer(made, new)
        /\ tables.datatypes /\ Reached(n) => Noticed(new, n)
    BY <1>1, <2>1, <2>2, CachedIsNoted
  <2> QED BY <1>1, <2>3 DEF Longer, new
<1> QED
  BY <1>3, <1>4, <1>5

(* with the handle that may be asked for,                                  *)
LEMMA GrantedIsNoted ==
  ASSUME NEW info, SoundCache(info), NEW n \in Name, NEW granted,
         parsedSymbols \in Tables, Noted(parsedSymbols, info)
  PROVE  LET new == Granted(info, n, granted)
         IN  /\ Noted(parsedSymbols, new) /\ Longer(info, new)
             /\ parsedSymbols.symbols /\ parsedSymbols.datatypes /\ Reached(n) => Noticed(new, n)
<1> DEFINE found == FindInfo(parsedSymbols, info, n)
           new   == Granted(info, n, granted)
<1>1. /\ SoundCache(found) /\ n \in DOMAIN found
      /\ Noted(parsedSymbols, found) /\ Longer(info, found)
      /\ parsedSymbols.symbols /\ parsedSymbols.datatypes /\ Reached(n) => Noticed(found, n)
  <2>1. PICK tables : tables = parsedSymbols
    OBVIOUS
  <2>2. tables \in Tables /\ Noted(tables, info)
    BY <2>1
  <2>3. /\ SoundCache(FindInfo(tables, info, n)) /\ n \in DOMAIN FindInfo(tables, info, n)
    BY <2>2, FindInfoIsSound
  <2>4. /\ Noted(tables, FindInfo(tables, info, n)) /\ Longer(info, FindInfo(tables, info, n))
        /\ tables.symbols /\ tables.datatypes /\ Reached(n)
             => Noticed(FindInfo(tables, info, n), n)
    BY <2>2, FindInfoIsNoted
  <2> QED BY <2>1, <2>3, <2>4
<1>2. found[n] \in Entry
  BY <1>1, CacheIs DEF SoundCache
<1>3. CASE new = found
  BY <1>1, <1>3
<1>4. CASE new = [found EXCEPT ![n].handle = TRUE]
  <2> DEFINE e == [found[n] EXCEPT !.handle = TRUE]
  <2>1. new = [found EXCEPT ![n] = e]
    BY <1>4
  <2>2. e.found = found[n].found /\ e.notFound = found[n].notFound
    BY <1>2 DEF Entry
  <2> HIDE DEF found, e, new
  <2>3. PICK old, flagged, tables : old = found /\ flagged = e /\ tables = parsedSymbols
    OBVIOUS
  <2>4. Noted(tables, [old EXCEPT ![n] = flagged]) /\ Longer(old, [old EXCEPT ![n] = flagged])
    BY <1>1, <2>2, <2>3, FlagIsNoted
  <2>5. Noted(parsedSymbols, new) /\ Longer(found, new)
    BY <2>1, <2>3, <2>4
  <2>6. Noticed(found, n) => Noticed(new, n)
    BY <2>5, StillNoticed
  <2> QED BY <1>1, <2>5, <2>6 DEF Longer, new
<1> QED
  BY <1>3, <1>4 DEF Granted

(* for each name of a list.                                                *)
LEMMA LookedIsNoted ==
  ASSUME NEW info, SoundCache(info), NEW names \in Seq(Name), NEW granted,
         parsedSymbols \in Tables, Noted(parsedSymbols, info)
  PROVE  LET new == Looked(info, names, granted)
         IN  /\ Noted(parsedSymbols, new)
             /\ \A n \in ToSet(names) :
                  /\ n \in DOMAIN new
                  /\ new[n].found /\ parsedSymbols.datatypes => Noticed(new, n)
<1>t. PICK tables : tables = parsedSymbols
  OBVIOUS
<1> DEFINE Known(c, n) == /\ n \in DOMAIN c
                          /\ tables.symbols /\ tables.datatypes /\ Reached(n) => Noticed(c, n)
           U == {c \in Caches : SoundCache(c) /\ Noted(tables, c)}
           G == [i \in 0 .. Len(names) |-> {c \in U : \A j \in 1 .. i : Known(c, names[j])}]
<1>0. Len(names) \in Nat /\ \A i \in 1 .. Len(names) : names[i] \in Name
  OBVIOUS
<1>1. info \in U
  BY <1>t DEF SoundCache
<1>2. ASSUME NEW c \in U, NEW n \in Name
      PROVE  LET new == Granted(c, n, granted)
             IN  new \in U /\ Longer(c, new) /\ Known(new, n)
  <2>1. SoundCache(c) /\ Noted(parsedSymbols, c)
    BY <1>t
  <2> DEFINE new == Granted(c, n, granted)
  <2>2. SoundCache(new) /\ n \in DOMAIN new
    BY <2>1, GrantedIsSound
  <2>3. /\ Noted(parsedSymbols, new) /\ Longer(c, new)
        /\ parsedSymbols.symbols /\ parsedSymbols.datatypes /\ Reached(n) => Noticed(new, n)
    BY <2>1, GrantedIsNoted
  <2> HIDE DEF new
  <2>4. new \in U
    BY <2>2, <2>3, <1>t DEF SoundCache
  <2> QED BY <2>2, <2>3, <2>4, <1>t DEF new
<1>3. ASSUME NEW c, NEW new, Longer(c, new), NEW n, Known(c, n)
      PROVE  Known(new, n)
  BY <1>3, StillNoticed DEF Longer
<1> HIDE DEF Known, U
<1>4. \A i \in 0 .. Len(names) : G[i] = {c \in U : \A j \in 1 .. i : Known(c, names[j])}
  OBVIOUS
<1>5. G \in [0 .. Len(names) -> SUBSET U] /\ info \in G[0]
  BY <1>0, <1>1
<1> HIDE DEF G
<1>6. \A i \in 1 .. Len(names) : \A c \in G[i - 1] : Granted(c, names[i], granted) \in G[i]
  <2> SUFFICES ASSUME NEW i \in 1 .. Len(names), NEW c \in G[i - 1]
               PROVE  Granted(c, names[i], granted) \in G[i]
    OBVIOUS
  <2>1. c \in U /\ names[i] \in Name /\ \A j \in 1 .. i - 1 : Known(c, names[j])
    BY <1>0, <1>4
  <2> DEFINE new == Granted(c, names[i], granted)
  <2>2. new \in U /\ Longer(c, new) /\ Known(new, names[i])
    BY <2>1, <1>2
  <2> HIDE DEF new
  <2>3. \A j \in 1 .. i : Known(new, names[j])
    <3> SUFFICES ASSUME NEW j \in 1 .. i PROVE Known(new, names[j])
      OBVIOUS
    <3>1. CASE j = i
      BY <3>1, <2>2
    <3>2. CASE j \in 1 .. i - 1
      BY <3>2, <2>1, <2>2, <1>3
    <3> QED BY <3>1, <3>2
  <2> QED BY <2>2, <2>3, <1>4, <1>0 DEF new
<1> DEFINE new == Looked(info, names, granted)
<1>7. new \in G[Len(names)]
  BY <1>5, <1>6, LookedIsIn
<1> HIDE DEF new
<1>8. new \in U /\ \A j \in 1 .. Len(names) : Known(new, names[j])
  BY <1>0, <1>4, <1>7
<1>9. Noted(tables, new)
  BY <1>8 DEF U
<1>10. ASSUME NEW n \in ToSet(names)
       PROVE  /\ n \in DOMAIN new
              /\ new[n].found /\ tables.datatypes => Noticed(new, n)
  <2>1. Known(new, n)
    BY <1>8 DEF ToSet
  <2> QED BY <2>1, <1>9 DEF Known, Noted
<1> QED
  BY <1>9, <1>10, <1>t DEF new

-----------------------------------------------------------------------------
(***************************************************************************)
(* The inductive invariant of the writes: the tables are there before      *)
(* anything is cached; the cache tells names with members from others; a   *)
(* command that is about to be sent is for a name of the message, and goes *)
(* by handle or to the place of that name.                                 *)
(***************************************************************************)
Aimed(c) ==
  /\ c.name \in ToSet(writer.names)
  /\ c.by \in {"handle", "address"}
  /\ \/ c.by = "handle"
     \/ parsedSymbols.datatypes /\ c.name \notin Property =>
          c.name \in Cell /\ c.address = CachedAddress(c.name)

WriteSound ==
  /\ main \in {"configure", "connect", "sleep"} => symbolInfo = <<>> /\ writer.pc = "idle"
  /\ Noted(parsedSymbols, symbolInfo)
  /\ writer.pc = "write" => \A c \in ToSet(writer.commands) : Aimed(c)

(* Each step leaves the symbol cache true to the program ...               *)
LEMMA StepNoted ==
  ASSUME SourceSound, Noted(parsedSymbols, symbolInfo), Next
  PROVE  Noted(parsedSymbols, symbolInfo)'
<1>0. PICK info, tables : info = symbolInfo /\ tables = parsedSymbols
  OBVIOUS
<1>1. /\ parsedSymbols' = parsedSymbols /\ tables \in Tables
      /\ SoundCache(info) /\ Noted(tables, info)
  BY <1>0 DEF Next, SourceSound, CachesSound
<1>2. CASE symbolInfo' = symbolInfo
  BY <1>0, <1>1, <1>2
<1>3. ASSUME NEW names \in Seq(Name), NEW granted,
             symbolInfo' = Looked(symbolInfo, names, granted)
      PROVE  Noted(parsedSymbols, symbolInfo)'
  <2>1. parsedSymbols \in Tables /\ Noted(parsedSymbols, info)
    BY <1>0, <1>1
  <2>2. Noted(parsedSymbols, Looked(info, names, granted))
    BY <2>1, <1>1, LookedIsNoted
  <2> QED BY <2>2, <1>0, <1>1, <1>3
<1>4. CASE StartRead
  <2>1. PICK names \in Seq(Name), granted \in SUBSET Property :
          symbolInfo' = Looked(symbolInfo, names, granted)
    BY <1>4, StartReadLooks
  <2> QED BY <2>1, <1>3
<1>5. CASE StartWrite
  <2>1. PICK message \in Messages : \E granted : symbolInfo' = Looked(symbolInfo, message, granted)
    BY <1>5 DEF StartWrite
  <2>2. PICK granted : symbolInfo' = Looked(symbolInfo, message, granted)
    BY <2>1
  <2>3. message \in Seq(Name)
    BY KeyListsAre
  <2> QED BY <2>2, <2>3, <1>3
<1>6. CASE StoreNext
  <2>1. PICK n : n = server.commands[server.at].name
    OBVIOUS
  <2>2. n \in Name
    BY <2>1, <1>6, StoredName DEF StoreNext
  <2> DEFINE found == FindInfo(tables, info, n)
  <2>3. /\ SoundCache(found) /\ n \in DOMAIN found /\ Noted(tables, found)
    BY <2>2, <1>1, FindInfoIsSound, FindInfoIsNoted
  <2>4. \/ symbolInfo' = found
        \/ symbolInfo' = [found EXCEPT ![n].readFail = TRUE]
    BY <2>1, <1>0, <1>6 DEF StoreNext
  <2>5. Noted(tables, [found EXCEPT ![n].readFail = TRUE])
    <3> DEFINE e == [found[n] EXCEPT !.readFail = TRUE]
    <3>1. found[n] \in Entry
      BY <2>3, CacheIs DEF SoundCache
    <3>2. e.found = found[n].found /\ e.notFound = found[n].notFound
      BY <3>1 DEF Entry
    <3> HIDE DEF e, found
    <3>3. Noted(tables, [found EXCEPT ![n] = e])
      BY <3>2, <2>3, FlagIsNoted
    <3> QED BY <3>3 DEF e
  <2> HIDE DEF found
  <2> QED BY <2>3, <2>4, <2>5, <1>0, <1>1
<1>7. \/ StartRead \/ StartWrite \/ StoreNext \/ symbolInfo' = symbolInfo
  BY DEF Next, ServerThread, ResponseThread, PlcCycle, Ask, NothingPending, SumRead, ParseLeaf,
         AssignValue, QueueBatch, TakeResponse, GetSymbolValue, SendResponse, SumWrite,
         cacheVars, vars, dataVars
<1> QED
  BY <1>2, <1>4, <1>5, <1>6, <1>7

(* What has no members in the cache has none, once it has been looked up.  *)
LEMMA MemberlessIsCell ==
  ASSUME NEW info, SoundCache(info), IsFiniteSet(DOMAIN info), NEW n \in DOMAIN info,
         info[n].found, MemberCount(info, n) = 0, Noticed(info, n), n \notin Property
  PROVE  n \in Cell
<1>1. n \in Node
  BY DEF SoundCache, Located
<1>2. {m \in DOMAIN info : Below(m, n)} = {}
  <2> DEFINE S == {m \in DOMAIN info : Below(m, n)}
  <2>1. IsFiniteSet(S)
    BY FS_Subset
  <2>2. Cardinality(S) = 0
    BY DEF MemberCount
  <2> HIDE DEF S
  <2>3. S = {}
    BY <2>1, <2>2, FS_EmptySet
  <2> QED BY <2>3 DEF S
<1> QED
  BY <1>1, <1>2 DEF Noticed, Cell

(* ... and the commands of a write at names of its message.                *)
LEMMA StepAimed ==
  ASSUME SourceSound, WriteSound, Next
  PROVE  writer'.pc = "write" => \A c \in ToSet(writer'.commands) : Aimed(c)'
<1>0. parsedSymbols' = parsedSymbols
  BY DEF Next
<1>1. CASE writer' = writer
  BY <1>0, <1>1 DEF WriteSound, Aimed
<1>2. CASE writer' = IdleWriter
  BY <1>2 DEF IdleWriter
<1>3. CASE StartWrite /\ writer' # writer
  <2>1. PICK message \in Messages : \E granted \in SUBSET (Property \cap ToSet(message)) :
          LET info     == Looked(symbolInfo, message, granted)
              gathered == Gathered(info, message)
              encoded  == Encoded(info, gathered)
          IN  writer' = [pc |-> "write", names |-> message,
                         commands |-> [i \in DOMAIN encoded |-> WriteCommand(info, encoded[i])],
                         garbage |-> Len(gathered) - Len(encoded)]
    BY <1>3 DEF StartWrite
  <2>2. PICK granted :
          LET info     == Looked(symbolInfo, message, granted)
              gathered == Gathered(info, message)
              encoded  == Encoded(info, gathered)
          IN  writer' = [pc |-> "write", names |-> message,
                         commands |-> [i \in DOMAIN encoded |-> WriteCommand(info, encoded[i])],
                         garbage |-> Len(gathered) - Len(encoded)]
    BY <2>1
  <2>3. PICK info : info = Looked(symbolInfo, message, granted)
    OBVIOUS
  <2>4. PICK gathered : gathered = Gathered(info, message)
    OBVIOUS
  <2>5. PICK encoded : encoded = Encoded(info, gathered)
    OBVIOUS
  <2>6. /\ writer'.names = message
        /\ writer'.commands = [i \in DOMAIN encoded |-> WriteCommand(info, encoded[i])]
    BY <2>2, <2>3, <2>4, <2>5
  <2>7. message \in Seq(Name)
    BY KeyListsAre
  <2>8. /\ SoundCache(info) /\ Noted(parsedSymbols, info)
        /\ \A n \in ToSet(message) :
             n \in DOMAIN info /\ (info[n].found /\ parsedSymbols.datatypes => Noticed(info, n))
    <3>1. PICK old : old = symbolInfo
      OBVIOUS
    <3>2. SoundCache(old) /\ parsedSymbols \in Tables /\ Noted(parsedSymbols, old)
      BY <3>1 DEF SourceSound, CachesSound, WriteSound
    <3> DEFINE new == Looked(old, message, granted)
    <3>3. SoundCache(new)
      BY <3>2, <2>7, LookedIsSound
    <3>4. /\ Noted(parsedSymbols, new)
          /\ \A n \in ToSet(message) :
               /\ n \in DOMAIN new
               /\ new[n].found /\ parsedSymbols.datatypes => Noticed(new, n)
      BY <3>2, <2>7, LookedIsNoted
    <3>5. info = new
      BY <3>1, <2>3
    <3> HIDE DEF new
    <3> QED BY <3>3, <3>4, <3>5
  <2>9. gathered \in Seq(Name) /\ ToSet(gathered) \subseteq {n \in ToSet(message) : info[n].found}
    <3> DEFINE S == {n \in ToSet(message) : info[n].found /\ n \notin Large}
    <3>1. S \subseteq {n \in ToSet(message) : info[n].found}
      OBVIOUS
    <3>2. gathered = Among(message, S)
      BY <2>4 DEF Gathered
    <3> HIDE DEF S
    <3>3. gathered \in Seq(Name) /\ ToSet(gathered) = ToSet(message) \cap S
      BY <3>2, <2>7, AmongIs
    <3> QED BY <3>1, <3>3
  <2>10. ToSet(encoded) \subseteq {n \in ToSet(gathered) : MemberCount(info, n) = 0}
    <3> DEFINE S == {n \in ToSet(gathered) : MemberCount(info, n) = 0}
    <3>1. encoded = Among(gathered, S)
      BY <2>5 DEF Encoded
    <3> HIDE DEF S
    <3>2. ToSet(encoded) = ToSet(gathered) \cap S
      BY <3>1, <2>9, AmongIs
    <3> QED BY <3>2 DEF S
  <2>11. ASSUME NEW i \in DOMAIN encoded
         PROVE  Aimed(WriteCommand(info, encoded[i]))'
    <3>1. PICK n : n = encoded[i]
      OBVIOUS
    <3>2. n \in ToSet(message) /\ info[n].found /\ MemberCount(info, n) = 0
      <4>1. n \in ToSet(encoded)
        BY <3>1 DEF ToSet
      <4> QED BY <4>1, <2>9, <2>10
    <3>3. PICK c : c = WriteCommand(info, n)
      OBVIOUS
    <3>4. /\ c.name = n
          /\ c.by = "handle" \/ (c.by = "address" /\ c.address = info[n].address)
      BY <3>3 DEF WriteCommand, ByHandle, ByAddress
    <3>5. info[n].address = CachedAddress(n)
      BY <2>8, <3>2 DEF SoundCache, Located
    <3>6. parsedSymbols.datatypes /\ n \notin Property => n \in Cell
      BY <2>8, <3>2, MemberlessIsCell DEF Noted
    <3>7. n \in ToSet(writer'.names)
      BY <2>6, <3>2
    <3>8. Aimed(c)'
      BY <3>4, <3>5, <3>6, <3>7, <1>0 DEF Aimed
    <3> QED BY <3>1, <3>3, <3>8
  <2>12. ASSUME NEW c \in ToSet(writer'.commands) PROVE Aimed(c)'
    <3>1. PICK i \in DOMAIN encoded : c = WriteCommand(info, encoded[i])
      <4>1. PICK commands : commands = writer'.commands
        OBVIOUS
      <4>2. PICK i \in DOMAIN commands : c = commands[i]
        BY <4>1 DEF ToSet
      <4>3. DOMAIN commands = DOMAIN encoded /\ commands[i] = WriteCommand(info, encoded[i])
        BY <4>1, <4>2, <2>6
      <4> QED BY <4>2, <4>3
    <3> QED BY <3>1, <2>11
  <2> QED BY <2>12
<1>4. StartWrite \/ writer' \in {writer, IdleWriter}
  BY DEF Next, ServerThread, ResponseThread, PlcCycle, Ask, NothingPending, StartRead, SumRead,
         StoreNext, ParseLeaf, AssignValue, QueueBatch, TakeResponse, GetSymbolValue,
         SendResponse, SumWrite, vars, dataVars
<1> QED
  BY <1>1, <1>2, <1>3, <1>4

(* The invariant holds at the start ...                                    *)
LEMMA InitWriteSound == ServerInit => WriteSound
<1> SUFFICES ASSUME ServerInit PROVE WriteSound
  OBVIOUS
<1>1. symbolInfo = <<>> /\ writer = IdleWriter
  BY DEF ServerInit, Init
<1>2. Noted(parsedSymbols, symbolInfo)
  BY <1>1, EmptyIsNoted
<1> QED
  BY <1>1, <1>2 DEF WriteSound, IdleWriter

(* ... after every step ...                                                *)
LEMMA StepWriteSound ==
  ASSUME SourceSound, WriteSound, [ServerNext]_serverVars
  PROVE  WriteSound'
<1>1. CASE Serve
  <2>1. Next /\ main = "serve" /\ main' = main
    BY <1>1 DEF Serve
  <2>2. Noted(parsedSymbols, symbolInfo)'
    BY <2>1, StepNoted DEF WriteSound
  <2>3. writer'.pc = "write" => \A c \in ToSet(writer'.commands) : Aimed(c)'
    BY <2>1, StepAimed
  <2> QED BY <2>1, <2>2, <2>3 DEF WriteSound
<1>2. CASE ReadInfo
  <2>1. /\ symbolInfo' = <<>> /\ writer' = writer /\ writer.pc = "idle"
        /\ main' \in {"serve", "ended"}
    BY <1>2 DEF ReadInfo, dataVars, cacheVars, WriteSound
  <2>2. Noted(parsedSymbols, symbolInfo)'
    BY <2>1, EmptyIsNoted
  <2> QED BY <2>1, <2>2 DEF WriteSound
<1>3. CASE UNCHANGED vars /\ (main' \in {"configure", "connect", "sleep"}
                                => main \in {"configure", "connect", "sleep"})
  <2>1. UNCHANGED <<parsedSymbols, symbolInfo, writer>>
    BY <1>3 DEF vars, dataVars, cacheVars
  <2> QED BY <2>1, <1>3 DEF WriteSound, Aimed
<1>4. \/ Serve \/ ReadInfo
      \/ UNCHANGED vars /\ (main' \in {"configure", "connect", "sleep"}
                              => main \in {"configure", "connect", "sleep"})
  BY DEF ServerNext, ReadConfiguration, NoPlcConnection, TryAgain, Ended, serverVars
<1> QED
  BY <1>1, <1>2, <1>3, <1>4

(* ... and so always.                                                      *)
LEMMA AlwaysWriteSound == ServerSpec => []WriteSound
BY InitWriteSound, StepWriteSound, AlwaysSound, PTL DEF ServerSpec

(* What a sum write changes, of a message all of whose names are encoded.  *)
LEMMA SumWriteAims ==
  ASSUME WriteSound, SumWrite, parsedSymbols.datatypes, writer.garbage = 0
  PROVE  \A m \in Stored : memory'[m] # memory[m] => Meant(m)
<1>1. PICK applied \in SUBSET ToSet(writer.commands) :
        memory' = [m \in Stored |-> IF m \in {} \cup UNION {Target(c) : c \in applied}
                                    THEN memory[m] + 1 ELSE memory[m]]
  <2>1. PICK spoilt \in SUBSET Cell :
          /\ spoilt = {}
          /\ \E applied \in SUBSET ToSet(writer.commands) :
               memory' = [m \in Stored |->
                            IF m \in spoilt \cup UNION {Target(c) : c \in applied}
                            THEN memory[m] + 1 ELSE memory[m]]
    BY DEF SumWrite
  <2> QED BY <2>1
<1>2. ASSUME NEW c \in ToSet(writer.commands), NEW m \in Target(c)
      PROVE  Meant(m)
  <2>1. CASE AimedWrong(c)
    BY <2>1 DEF Meant
  <2>2. CASE ~AimedWrong(c)
    <3>1. Aimed(c)
      BY DEF WriteSound, SumWrite
    <3>2. c.name \in ToSet(writer.names) /\ ~InElement(c.name)
      BY <2>2, <3>1 DEF Aimed, AimedWrong
    <3>3. CASE c.by = "handle"
      BY <3>2, <3>3 DEF Target, Meant
    <3>4. CASE c.by # "handle"
      <4>1. c \in ToSet(writer.commands) /\ c.by \in {"handle", "address"}
        BY <3>1 DEF Aimed
      <4>2. c.name \notin Property
        BY <2>2, <3>4, <4>1 DEF AimedWrong
      <4>3. c.name \in Cell /\ c.address = CachedAddress(c.name)
        BY <3>1, <3>4, <4>2 DEF Aimed
      <4>4. c.name \in Node /\ c.address = Address[c.name]
        BY <4>3, <3>2, CachedIsAddress DEF Cell
      <4>5. m \in Cell /\ Address[m] = c.address
        BY <3>4 DEF Target, CellsAt
      <4>6. m = c.name
        BY <4>3, <4>4, <4>5, CellsApart
      <4> QED BY <4>6, <3>2 DEF Meant
    <3> QED BY <3>3, <3>4
  <2> QED BY <2>1, <2>2
<1> QED
  BY <1>1, <1>2

(* writeSymbolValue (DataSource.cpp:299-432): a write message all of whose *)
(* names are encoded changes the variables that it names and no others,    *)
(* whatever the other threads cache and read meanwhile, but for the cells  *)
(* that a command for what is below an element of an array, or for a       *)
(* property without a handle, goes to instead.                             *)
THEOREM WritesAreNamed == ServerSpec => WritesOnlyNamed
<1>1. ASSUME WriteSound
      PROVE  [SumWrite /\ parsedSymbols.datatypes /\ writer.garbage = 0 =>
                \A cell \in Stored : memory'[cell] # memory[cell] => Meant(cell)]_vars
  BY <1>1, SumWriteAims
<1> QED
  BY <1>1, AlwaysWriteSound, PTL DEF WritesOnlyNamed

-----------------------------------------------------------------------------
(* Before the configuration is read the address is the local one.          *)
Addressed == AddressWhole /\ (main = "configure" => pAddr = DefaultAddr)

(* No step of the server mixes two addresses: reading the configuration    *)
(* takes its address or leaves the local one, no other step touches it.    *)
LEMMA StepAddressed ==
  ASSUME Addressed, [ServerNext]_serverVars
  PROVE  Addressed'
<1>1. CASE ReadConfiguration
  <2>1. pAddr = DefaultAddr /\ main' \in {"ended", "connect"}
    BY <1>1 DEF Addressed, ReadConfiguration
  <2>2. \/ pAddr' = pAddr
        \/ pAddr' = setPlcCommunicationParameters(pAddr, cfg'.netID, cfg'.port)
    BY <1>1 DEF ReadConfiguration
  <2>3. \/ pAddr' = DefaultAddr
        \/ pAddr' = [netId |-> cfg'.netID, port |-> cfg'.port % Ports]
    BY <2>1, <2>2 DEF setPlcCommunicationParameters
  <2> QED
    BY <2>1, <2>3 DEF Addressed, AddressWhole
<1>2. CASE ReadInfo
  BY <1>2 DEF Addressed, AddressWhole, ReadInfo
<1>3. CASE NoPlcConnection
  BY <1>3 DEF Addressed, AddressWhole, NoPlcConnection
<1>4. CASE TryAgain
  BY <1>4 DEF Addressed, AddressWhole, TryAgain
<1>5. CASE Serve
  BY <1>5 DEF Addressed, AddressWhole, Serve
<1>6. CASE UNCHANGED serverVars
  BY <1>6 DEF Addressed, AddressWhole, serverVars
<1> QED
  BY <1>1, <1>2, <1>3, <1>4, <1>5, <1>6 DEF ServerNext, Ended

(* setPlcCommunicationParameters (DataSource.cpp:34-79): whatever the      *)
(* configuration says, the server talks to the PLC that it names as a      *)
(* whole, or to the local one, never to an address mixed of both.          *)
THEOREM AddressIsWhole == ServerSpec => []AddressWhole
<1>1. ServerInit => Addressed
  BY DEF ServerInit, StartupInit, Addressed, AddressWhole
<1>2. Addressed /\ [ServerNext]_serverVars => Addressed'
  BY StepAddressed
<1>3. Addressed => AddressWhole
  BY DEF Addressed
<1> QED
  BY <1>1, <1>2, <1>3, PTL DEF ServerSpec

=============================================================================
