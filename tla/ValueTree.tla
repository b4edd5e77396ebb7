----------------------------- MODULE ValueTree ------------------------------
(***************************************************************************)
(* The value cache symbolData of adsdatasrc_impl, a crow::json::wvalue.  A *)
(* tree is a function from the paths of its nodes, the root being <<>>.    *)
(*                                                                         *)
(* crow's operator[] is no mere lookup: it makes the node it is applied to *)
(* an object (a list, for a number), empties it if it was anything else,   *)
(* and adds a null child if there is none.                                 *)
(***************************************************************************)
EXTENDS PlcProgram

CONSTANT Slot    \* component of an array element |-> key of its place in the map
                 \* that parseBuffer goes through, which is an unordered_map

NoCell        == [cell |-> <<>>, stamp |-> 0]
Null          == [kind |-> "null", value |-> NoCell]
Number(value) == [kind |-> "number", value |-> value]
Holder(kind)  == [kind |-> kind, value |-> NoCell]    \* "object" or "list"

EmptyTree == [p \in {<<>>} |-> Holder("object")]

(* The tree with the node at p replaced, and nothing below it.             *)
SetNode(tree, p, node) ==
  [q \in {x \in DOMAIN tree : ~IsStrictPrefix(p, x)} \cup {p} |->
     IF q = p THEN node ELSE tree[q]]

(* The tree with a node at p, null if there was none.                      *)
AddNode(tree, p) ==
  [q \in DOMAIN tree \cup {p} |-> IF q \in DOMAIN tree THEN tree[q] ELSE Null]

(* A fault: the child is added to whatever the node is.                    *)
StepOntoValue(tree, p, kind, key) == AddNode(tree, Append(p, key))

Step(tree, p, kind, key) ==
  AddNode(IF tree[p].kind = kind THEN tree ELSE SetNode(tree, p, Holder(kind)),
          Append(p, key))

(* Goes from the root along path; at the places in `lists` by number.      *)
Walk(tree, path, lists) ==
  LET walked[i \in 0 .. Len(path)] ==
        IF i = 0 THEN tree
        ELSE Step(walked[i - 1], SubSeq(path, 1, i - 1),
                  IF i \in lists THEN "list" ELSE "object", path[i])
  IN  walked[Len(path)]

(* findValue: an index "[i]" is the key of a member.                       *)
FindValue(tree, n) == Walk(tree, ToLower(n), {})

(* parseBuffer goes on from there to a member r of n, and by number into   *)
(* arrays.                                                                 *)
MemberKey(m) == IF Front(m) \in Array THEN Slot[Last(m)] ELSE Last(m)

DataPath(n, r) ==
  ToLower(n) \o [i \in 1 .. Len(r) - Len(n) |-> MemberKey(SubSeq(r, 1, Len(n) + i))]

ReachMember(tree, n, r) ==
  Walk(tree, DataPath(n, r), {i \in Len(n) + 1 .. Len(r) : SubSeq(r, 1, i - 1) \in Array})

(* A copy of the value at p.                                               *)
Copy(tree, p) ==
  LET below == {q \in DOMAIN tree : IsPrefix(p, q)}
      paths == {SubSeq(q, Len(p) + 1, Len(q)) : q \in below}
  IN  [rel \in paths |-> tree[p \o rel]]
=============================================================================
