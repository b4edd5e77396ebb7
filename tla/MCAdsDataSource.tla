-------------------------- MODULE MCAdsDataSource ---------------------------
(***************************************************************************)
(* Instances of the server's main part for TLC: parts of one PLC program,  *)
(*                                                                         *)
(*   S : STRUCT y : INT; PROPERTY p, q; g : STRUCT z : INT END END         *)
(*   c, fub, fubi : INT                                                    *)
(*   a : ARRAY [0..1] OF STRUCT v : INT END                                *)
(*   b : ARRAY [1..2] OF INT;  d, e : ARRAY [0..1] OF INT                  *)
(*   M : a program, which is no symbol, with v : INT                       *)
(***************************************************************************)
EXTENDS Startup

MCLower == [c \in {"s", "y", "p", "q", "g", "z", "c", "fub", "fubi", "a", "v",
                   "b", "d", "e", "[0]", "[1]", "[2]", "oops", "M"} |-> c] @@ ("S" :> "s")

MCBegins == {<<"fub", "fubi">>}

(* In whatever order the map has the elements; the order of insertion, for *)
(* one, is backwards when the last was asked for first.                    *)
MCIndex   == "[0]" :> "0" @@ "[1]" :> "1"
Backwards == "[0]" :> "1" @@ "[1]" :> "0"

AllPlaces ==
  <<"S">> :> 0 @@ <<"S", "y">> :> 1 @@ <<"S", "p">> :> 0 @@ <<"S", "q">> :> 0
  @@ <<"S", "g">> :> 2 @@ <<"S", "g", "z">> :> 0
  @@ <<"c">> :> 20 @@ <<"fub">> :> 30 @@ <<"fubi">> :> 31
  @@ <<"a">> :> 40 @@ <<"a", "[0]">> :> 0 @@ <<"a", "[1]">> :> 1
  @@ <<"a", "[0]", "v">> :> 0 @@ <<"a", "[1]", "v">> :> 0
  @@ <<"b">> :> 50 @@ <<"b", "[0]">> :> 0 @@ <<"b", "[1]">> :> 1
  @@ <<"d">> :> 60 @@ <<"d", "[0]">> :> 0 @@ <<"d", "[1]">> :> 1
  @@ <<"e">> :> 80 @@ <<"e", "[0]">> :> 0 @@ <<"e", "[1]">> :> 1
  @@ <<"M", "v">> :> 70

MCPlace == [n \in Node |-> AllPlaces[n]]

MCPlcName == [n \in Node |-> CASE n = <<"b", "[0]">> -> <<"b", "[1]">>
                               [] n = <<"b", "[1]">> -> <<"b", "[2]">>
                               [] OTHER              -> n]

MCProperty == {<<"S", "p">>, <<"S", "q">>} \cap Node
MCNoGetter == {<<"S", "q">>} \cap Node
MCArray    == {<<"a">>, <<"b">>, <<"d">>, <<"e">>} \cap Node
MCLarge    == {<<"S">>} \cap Node

(* A structure with members, properties and a structure; a variable; names *)
(* that do not exist.                                                      *)
TreeNode     == {<<"S">>, <<"S", "p">>, <<"S", "q">>, <<"S", "g">>, <<"S", "g", "z">>,
                 <<"c">>}
TreeSymbols  == <<<<"S">>, <<"c">>>>
TreeLists    == {<<<<"S">>>>, <<<<"oops">>, <<"S", "g">>>>, <<<<"S", "p">>>>}
TreeMessages == {<<<<"S", "g", "z">>, <<"c">>>>, <<<<"S", "g">>, <<"S", "q">>>>}

(* Eight programs of one to three nodes, in one: what is asked for of each *)
(* in the comment.                                                         *)
CaseNode      == {<<"S">>, <<"S", "y">>}       \* a structure, in lower case
MisspeltNode  == {<<"c">>}                     \* a member it does not have, itself
PrefixNode    == {<<"fub">>, <<"fubi">>}       \* the longer of the two names
ElementNode   == {<<"a">>, <<"a", "[0]">>, <<"a", "[1]">>, <<"a", "[0]", "v">>,
                  <<"a", "[1]", "v">>}         \* a member of its second element
SubscriptNode == {<<"b">>, <<"b", "[0]">>, <<"b", "[1]">>}    \* the first element
WholeNode     == {<<"d">>, <<"d", "[0]">>, <<"d", "[1]">>}    \* the array
BatchNode     == {<<"e">>, <<"e", "[0]">>, <<"e", "[1]">>}    \* an element and it
ProgramNode   == {<<"M", "v">>}                \* the variable and the program

AnswersNode    == CaseNode \cup MisspeltNode \cup PrefixNode \cup ElementNode
                  \cup SubscriptNode \cup WholeNode \cup BatchNode \cup ProgramNode
AnswersSymbols == <<<<"S">>, <<"c">>, <<"fub">>, <<"fubi">>, <<"a">>, <<"b">>, <<"d">>,
                    <<"e">>, <<"M", "v">>>>

(* One client asks for them, for one list when it has the answer to the    *)
(* last.  Its answers are kept: that to the n-th list by responder n.      *)
Script == <<<<<<"s", "y">>>>, <<<<"c", "oops">>>>, <<<<"c">>>>, <<<<"fubi">>>>,
            <<<<"a", "[1]", "v">>>>, <<<<"b", "[1]">>>>, <<<<"d">>>>,
            <<<<"e", "[1]">>, <<"e">>>>, <<<<"M">>, <<"M", "v">>>>>>
AnswersLists == ToSet(Script)
Responses    == DOMAIN Script

Copied(p) == response[p] # None /\ Len(response[p].got) = Len(Script[p])

ScriptNext ==
  /\ ServerNext
  /\ \A p \in Responders :
       /\ response[p] # None => response'[p] # None
       /\ response'[p] # None => p <= asked
  /\ asked' # asked => /\ pending' = {Request(Script[asked'])}
                       /\ \A p \in 1 .. asked : Copied(p)
ScriptSpec == ServerInit /\ [][ScriptNext]_serverVars

(* The variables of which the answers should hold the values, with the list*)
(* and the key of it that stand for them; the first element of b is b[1].  *)
Witnesses == {[list |-> 1, key |-> 1, cell |-> <<"S", "y">>],
              [list |-> 3, key |-> 1, cell |-> <<"c">>],
              [list |-> 4, key |-> 1, cell |-> <<"fubi">>],
              [list |-> 5, key |-> 1, cell |-> <<"a", "[1]", "v">>],
              [list |-> 6, key |-> 1, cell |-> <<"b", "[0]">>],
              [list |-> 7, key |-> 1, cell |-> <<"d", "[0]">>],
              [list |-> 8, key |-> 1, cell |-> <<"e", "[1]">>],
              [list |-> 9, key |-> 2, cell |-> <<"M", "v">>]}

AnsweredWrong(w) ==
  /\ Copied(w.list)
  /\ LET taken == response[w.list]
     IN  /\ ~taken.request.failed
         /\ Names(taken.request.keys[w.key], w.cell)
         /\ ~FreshIn(taken.got[w.key], taken.request.keys[w.key], w.cell,
                     taken.request.since)

(* "If everything has been set up correctly, the Lux client will be able   *)
(* to read and write variables located on the TwinCAT PLC"                 *)
(* (src/README.md:96).  If that were so no answer would lack the value of a*)
(* variable that it names.  This asks for much less: of the eight, not all *)
(* are answered wrong.                                                     *)
SomeAnswerFresh == \E w \in Witnesses : ~AnsweredWrong(w)

NoMessages == {}

(* Configuration files, for net ids of two parts up to 3 and ports up to 7.*)
File(serverType, netID, port) == [serverType |-> serverType, netID |-> netID, port |-> port]
MCDefaultAddr    == [netId |-> <<0, 1>>, port |-> 3]
MCPlcAddrs       == {[netId |-> <<1, 2>>, port |-> 5]}
MCConfigurations ==
  {None, File("SIM", <<1, 2>>, 5)}
  \cup {File("ADS", netID, 5) :
          netID \in {<<1, 2>>, <<1, 4>>, <<2, None>>, <<1>>, <<1, 2, 3>>}}
  \cup {File("ADS", <<1, 2>>, 14)}
NoFailure        == {}
==============================================================================
