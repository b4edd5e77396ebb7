---------------------------- MODULE MCJsonServer ----------------------------
(***************************************************************************)
(* Instances of JsonServer for TLC.  The names are a program, which is no  *)
(* variable, a structure in it, one of its members, a member of that, and  *)
(* a name that has nothing to do with them.                                *)
(***************************************************************************)
EXTENDS JsonServer, Functions, TLC

CONSTANTS program, struct, member, leaf, other

MCKeys   == {program, struct, member, leaf, other}
MCBrings == {<<member, struct>>, <<leaf, member>>, <<leaf, struct>>}
MCChild  == MCBrings \cup {<<k, program>> : k \in {struct, member, leaf}}

(* With MaxBatch = 3: requests that merge, that merge with a parent, that  *)
(* do not fit behind another one, and one without names.                   *)
MCKeyLists == {<<struct>>, <<member, other>>, <<>>}

(* With MaxBatch = 4: parents and members that come in different requests, *)
(* and a list with a duplicate, which counts twice against the room, of a  *)
(* name that takes the others out of the read and brings none of them.     *)
BigKeyLists == {<<leaf, struct>>, <<member>>, <<program, program>>}

(* With MaxBatch = 3, a list that never fits and one that does.            *)
ProgressList     == <<<<leaf, member, struct>>, <<other>>>>
ProgressKeyLists == Range(ProgressList)

(* Two connections on two io threads, as crow deals them out: one each.    *)
(* A liveness check allows no symmetry: which has which is fixed instead.  *)
(* The list that never fits is asked for first, by whomever.               *)
Dealt == CHOOSE thread \in [Addr -> IoThreads] :
           \A a, b \in Addr : a # b => thread[a] # thread[b]

DealtNext == /\ Next
             /\ \A a \in Addr : home'[a] \in {None, Dealt[a]}
             /\ \A id \in DOMAIN log' : log'[id].keys = ProgressList[id]
DealtSpec == Init /\ [][DealtNext]_vars /\ Fairness

Symmetry == Permutations(Addr) \cup Permutations(IoThreads)
              \cup Permutations(Responders)
=============================================================================
