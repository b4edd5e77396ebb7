------------------------------- MODULE Router -------------------------------
(***************************************************************************)
(* crow::Router's rules for one method: the trie that they are put in, its *)
(* optimisation, and the search for the rule of a URL.                     *)
(*                                                                         *)
(* A rule is a sequence of characters and parameters, a URL a sequence of  *)
(* characters.  <double> is left out, and blueprints, of which the server  *)
(* has none.                                                               *)
(***************************************************************************)
EXTENDS Integers, SequencesExt, FiniteSetsExt

CONSTANTS Digits10,   \* the characters that are digits
          MaxDigits   \* of a number that strtoll and strtoull do not refuse

RULE_SPECIAL_REDIRECT_SLASH == 1
Redirect == RULE_SPECIAL_REDIRECT_SLASH
FirstRule == 2     \* rules(2): 0 and 1 are taken

ParamTraits == {"<int>", "<uint>", "<string>", "<path>"}

NewNode == [rule_index |-> 0, key |-> <<>>, param |-> "none", children |-> <<>>]

(* Fault: a rule that is the beginning of another is swallowed.            *)
SimpleWithRule(node) ==
  /\ Len(node.children) < 2 /\ node.param = "none"
  /\ \A i \in DOMAIN node.children : node.children[i].param = "none"

-----------------------------------------------------------------------------
(***************************************************************************)
(* Building the trie: every node has a key of one character, or is a       *)
(* parameter.                                                              *)
(***************************************************************************)
IsFor(node, piece) == IF piece \in ParamTraits THEN node.param = piece ELSE node.key = <<piece>>

ChildFor(piece) == IF piece \in ParamTraits THEN [NewNode EXCEPT !.param = piece]
                   ELSE [NewNode EXCEPT !.key = <<piece>>]

(* (No two rules end in the same node: that throws.)                       *)
RECURSIVE add(_, _, _)
add(node, rule, rule_index) ==
  IF rule = <<>> THEN [node EXCEPT !.rule_index = rule_index]
  ELSE LET known == SelectInSeq(node.children, LAMBDA x : IsFor(x, Head(rule)))
       IN  IF known = 0
           THEN [node EXCEPT !.children =
                   Append(@, add(ChildFor(Head(rule)), Tail(rule), rule_index))]
           ELSE [node EXCEPT !.children[known] = add(@, Tail(rule), rule_index)]

(* "/about" is redirected to a rule "/about/".                             *)
internal_add_rule_object(head, rule, rule_index) ==
  LET added == add(head, rule, rule_index)
  IN  IF Len(rule) > 1 /\ Last(rule) = "/" THEN add(added, Front(rule), Redirect) ELSE added

IsSimpleNode(node) ==
  /\ node.rule_index = 0
  /\ Len(node.children) < 2 /\ node.param = "none"
  /\ \A i \in DOMAIN node.children : node.children[i].param = "none"

(* A node that is nothing but the way to its child takes it in.            *)
RECURSIVE optimizeNode(_)
optimizeNode(node) ==
  IF node.children = <<>> THEN node
  ELSE IF IsSimpleNode(node)
  THEN LET child == node.children[1]
       IN  optimizeNode([child EXCEPT !.key = node.key \o @])
  ELSE [node EXCEPT !.children = [i \in DOMAIN @ |-> optimizeNode(@[i])]]

optimize(head) == [head EXCEPT !.children = [i \in DOMAIN @ |-> optimizeNode(@[i])]]

(* Crow::validate.                                                         *)
TrieOf(rules) ==
  optimize(FoldLeft(LAMBDA head, i : internal_add_rule_object(head, rules[i], FirstRule + i - 1),
                    NewNode, [i \in DOMAIN rules |-> i]))

-----------------------------------------------------------------------------
(***************************************************************************)
(* Finding.  How far a parameter reaches from pos, 0 if it is not there.   *)
(***************************************************************************)
RunEnd(url, pos, chars) ==
  CHOOSE e \in pos .. Len(url) + 1 :
    /\ \A i \in pos .. e - 1 : url[i] \in chars
    /\ e = Len(url) + 1 \/ url[e] \notin chars

Number(url, pos, signs) ==
  LET from == IF url[pos] \in signs THEN pos + 1 ELSE pos
      to   == RunEnd(url, from, Digits10)
  IN  IF to = from \/ to - from > MaxDigits THEN 0 ELSE to

ParamEnd(param, url, pos) ==
  CASE param = "<int>"    -> Number(url, pos, {"+", "-"})
    [] param = "<uint>"   -> Number(url, pos, {"+"})
    [] param = "<string>" -> LET to == RunEnd(url, pos, {url[i] : i \in DOMAIN url} \ {"/"})
                             IN  IF to = pos THEN 0 ELSE to
    [] param = "<path>"   -> Len(url) + 1

FragmentEnd(key, url, pos) ==
  IF IsPrefix(key, SubSeq(url, pos, Len(url))) THEN pos + Len(key) ELSE 0

Reached(child, url, pos) ==
  IF child.param = "none" THEN FragmentEnd(child.key, url, pos) ELSE ParamEnd(child.param, url, pos)

NotFound == [rule_index |-> 0, params |-> <<>>]

(* Every way is tried; the rule with the least index counts.  Parameters,  *)
(* kept by type in the code, are one sequence here.                        *)
RECURSIVE find(_, _, _, _)
find(url, node, pos, params) ==
  IF pos = Len(url) + 1 THEN [rule_index |-> node.rule_index, params |-> params]
  ELSE LET tried   == {i \in DOMAIN node.children : Reached(node.children[i], url, pos) # 0}
           results == {LET child == node.children[i]
                           to    == Reached(child, url, pos)
                       IN  find(url, child, to,
                                IF child.param = "none" THEN params
                                ELSE Append(params, SubSeq(url, pos, to - 1))) : i \in tried}
           found   == {r \in results : r.rule_index # 0}
       IN  IF found = {} THEN NotFound
           ELSE CHOOSE r \in found : \A x \in found : r.rule_index <= x.rule_index
=============================================================================
