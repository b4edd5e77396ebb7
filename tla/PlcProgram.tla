----------------------------- MODULE PlcProgram -----------------------------
(***************************************************************************)
(* The variables of the PLC program, as the symbol and data type tables    *)
(* that the server uploads describe them: SymbolTables derives the tree.   *)
(***************************************************************************)
EXTENDS Spelling

CONSTANTS Node,       \* the variables and their members, by full name
          Symbols,    \* the symbol table: the variables, in the PLC's order
          Array,      \* the nodes that are arrays, whose members are elements
          Property,   \* members that are code of the PLC and have no memory
          NoGetter,   \* properties that cannot be read
          Place,      \* node |-> where it lies in its parent; a variable's address
          PlcName,    \* node |-> its name to the PLC, with the subscripts declared
          Lower       \* component |-> the same in lower case, for every component

ASSUME NodeIsTree ==
  /\ IsFiniteSet(Node)
  /\ Node \subseteq Seq(DOMAIN Lower) \ {<<>>}
  /\ Symbols \in Seq(Node)
  /\ \A n \in Node : n \in ToSet(Symbols) \/ Front(n) \in Node
  /\ \A v, w \in ToSet(Symbols) : ~IsStrictPrefix(v, w)

ASSUME NodeAttributes ==
  /\ Place \in [Node -> Nat]
  /\ \A n \in Node : PlcName[n] \in Seq(DOMAIN Lower) /\ Len(PlcName[n]) = Len(n)
  /\ Array \subseteq Node
  /\ Property \subseteq Node \ ToSet(Symbols)
  /\ NoGetter \subseteq Property
  /\ \A c \in DOMAIN Lower : Lower[c] \in DOMAIN Lower /\ Lower[Lower[c]] = Lower[c]

-----------------------------------------------------------------------------
IsSymbol(n)   == n \in ToSet(Symbols)
Below(n, p)   == IsStrictPrefix(p, n)

(* The PLC understands the name n to be the node m; it ignores letter case.*)
SameName(n, m) ==
  [i \in DOMAIN n |-> Lower[n[i]]] = [i \in DOMAIN m |-> Lower[PlcName[m][i]]]

(* Where a node lies in the memory of the PLC.                             *)
Address[n \in Node] ==
  IF IsSymbol(n) THEN Place[n] ELSE Address[Front(n)] + Place[n]

(* The memory cells: what has no members and is not a property.            *)
Cell == {n \in Node \ Property : \A m \in Node : ~Below(m, n)}

(* No two variables share their memory.                                    *)
ASSUME CellsApart == \A c, d \in Cell : Address[c] = Address[d] => c = d
=============================================================================
