----------------------------- MODULE SymbolCache -----------------------------
(***************************************************************************)
(* The cache of symbol information of adsdatasrc_impl: what findInfo makes *)
(* of the tree symbolInfo.  A cache is a function from the names that have *)
(* an entry in the tree.                                                   *)
(***************************************************************************)
EXTENDS PlcProgram

(* symbolMetadata.  `found` says that populateSymbolInfo has filled it in  *)
(* (size, type and flags come with it), `handle` that there is one.        *)
Unknown == [found |-> FALSE, address |-> 0, cacheComplete |-> FALSE,
            notFound |-> FALSE, handle |-> FALSE, readFail |-> FALSE]

(* operator[] makes the entry and those above it.                          *)
Made(info, n) ==
  [m \in DOMAIN info \cup {SubSeq(n, 1, i) : i \in DOMAIN n} |->
     IF m \in DOMAIN info THEN info[m] ELSE Unknown]

MemberCount(info, n) == Cardinality({m \in DOMAIN info : Below(m, n)})

-----------------------------------------------------------------------------
(* Faults: see the definitions of nearly the same name.                    *)
NothingPassedDown(n) == 0
SkipsUnnoticed(m, n) == TRUE

(* What getMemberInfo adds to the offset it passes down to the members of  *)
(* n: the place of n in a structure; nothing for an element of an array,   *)
(* whose data type entry is the array's own.                               *)
PassedDown(n) == IF Front(n) \in Array THEN 0 ELSE Place[n]

MemberBase[n \in Node] ==
  IF IsSymbol(n) THEN Place[n] ELSE MemberBase[Front(n)] + PassedDown(n)

(* gOffset                                                                 *)
CachedAddress(n) ==
  IF IsSymbol(n) THEN Place[n] ELSE MemberBase[Front(n)] + Place[n]

(* Members are cached on the way to the name asked for and below it.       *)
Related(m, n) == StartsWith(m, n) \/ StartsWith(n, m)

(* getMemberInfo has skipped nothing below m.                              *)
NothingSkipped(m, n) == \A d \in Node : Below(d, m) => Related(d, n)

(* Which of the two tables the server has.                                 *)
WholeTables == [symbols |-> TRUE, datatypes |-> TRUE]

(* cacheSymbolInfo(n), with s the symbol that it takes for n.              *)
CacheSymbolInfo(tables, info, n, s) ==
  LET visited == {s} \cup {m \in Node : tables.datatypes /\ Below(m, s) /\ Related(m, n)}
  IN  [m \in DOMAIN Made(info, s) \cup visited |->
         IF m \in visited
         THEN [(IF m \in DOMAIN info THEN info[m] ELSE Unknown) EXCEPT
                 !.found = TRUE,
                 !.address = CachedAddress(m),
                 !.cacheComplete = tables.datatypes /\ NothingSkipped(m, n)]
         ELSE Made(info, s)[m]]

(* Symbol(name): the first in the table that the name starts with.         *)
SymbolsFor(n) ==
  {i \in DOMAIN Symbols : StartsWith(ToLower(n), ToLower(Symbols[i]))}

FindInfo(tables, info, n) ==
  LET made == Made(info, n)
      hits == IF tables.symbols THEN SymbolsFor(n) ELSE {}
  IN  IF made[n].cacheComplete \/ made[n].notFound THEN made
      ELSE IF hits = {} THEN [made EXCEPT ![n].notFound = TRUE]
      ELSE CacheSymbolInfo(tables, made, n, Symbols[Min(hits)])
==============================================================================
