---------------------------- MODULE SymbolTables ----------------------------
(***************************************************************************)
(* The data type table that the PLC uploads, and what getMemberInfo makes  *)
(* of it: the members of a variable with their places.                     *)
(*                                                                         *)
(* An entry of the table has a size and either sub-items, for a structure, *)
(* or the numbers of elements per dimension and the type of the elements,  *)
(* for an array, or neither.  Every type has an entry, and no sub-item has *)
(* sub-items of its own, as in the tables of TwinCAT 3.                    *)
(***************************************************************************)
EXTENDS Spelling, FiniteSetsExt

CONSTANT DataTypes    \* type |-> its entry

Subscripts == <<"[0]", "[1]", "[2]", "[3]">>

GetTypeByName(type) == DataTypes[type]

Count(dims) == FoldLeft(LAMBDA n, elements : n * elements, 1, dims)

SubSymbolCount(entry) ==
  IF entry.subItems # <<>> THEN Len(entry.subItems)
  ELSE IF entry.dims # <<>> THEN Count(entry.dims) ELSE 0

(* A fault: the size of what the first dimension counts.                   *)
SizeOfRow(entry) == entry.size \div Max({1, entry.dims[1]})

BaseSize(entry) ==
  FoldRight(LAMBDA elements, size : IF elements = 0 THEN size ELSE size \div elements,
            entry.dims, entry.size)

(* An element is called by its number, whatever its subscripts are.        *)
SubSymbolInfo(entry, sub) ==
  IF entry.subItems # <<>> THEN entry.subItems[sub + 1]
  ELSE [name |-> Subscripts[sub + 1], offs |-> sub * BaseSize(entry),
        size |-> BaseSize(entry), type |-> entry.type]

(* SEntry.offs: that of the sub-item, or the entry's own, of the array.    *)
SubSymbolEntryOffs(entry, sub) ==
  IF entry.subItems # <<>> THEN entry.subItems[sub + 1].offs ELSE 0

-----------------------------------------------------------------------------
Metadata(fullname, gOffset, info, complete) ==
  [name |-> fullname, gOffset |-> gOffset, offset |-> info.offs, size |-> info.size,
   isArray |-> GetTypeByName(info.type).dims # <<>>, cacheComplete |-> complete]

(* The members on the way to the target and below it; whether none was     *)
(* skipped.                                                                *)
RECURSIVE getMemberInfo(_, _, _, _)
getMemberInfo(target, entry, prefix, offset) ==
  LET subs        == 0 .. SubSymbolCount(entry) - 1
      fullname(i) == Append(prefix, SubSymbolInfo(entry, i).name)
      visited     == {i \in subs : \/ StartsWith(fullname(i), target)
                                   \/ StartsWith(target, fullname(i))}
      below       == [i \in visited |->
                        getMemberInfo(target, GetTypeByName(SubSymbolInfo(entry, i).type),
                                      fullname(i), offset + SubSymbolEntryOffs(entry, i))]
  IN  [members |-> UNION {below[i].members : i \in visited}
                   \cup {LET info == SubSymbolInfo(entry, i)
                         IN  Metadata(fullname(i), offset + info.offs, info, below[i].complete)
                         : i \in visited},
       complete |-> visited = subs /\ \A i \in visited : below[i].complete]

(* cacheSymbolInfo, for a target that starts with the symbol's name.       *)
CachedOf(target, symbol) ==
  LET found == getMemberInfo(target, GetTypeByName(symbol.type), symbol.name, symbol.iOffs)
  IN  found.members
      \cup {Metadata(symbol.name, symbol.iOffs,
                     [offs |-> 0, size |-> symbol.size, type |-> symbol.type], found.complete)}
=============================================================================
