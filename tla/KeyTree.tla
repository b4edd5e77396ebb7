------------------------------- MODULE KeyTree -------------------------------
(***************************************************************************)
(* The variable names clients ask for, and the consolidation that          *)
(* jsonserver::handlePendingRequests applies to a set of them before it    *)
(* asks the PLC: a name is left out of the PLC read when another one, which*)
(* it continues with '.' or '[', is asked for too.  Whether that other name*)
(* is one of a variable is not looked at.                                  *)
(*                                                                         *)
(* A name is an opaque value.  All the code looks at is whether one name   *)
(* is another followed by '.' or '[', which is the relation Child.         *)
(***************************************************************************)
EXTENDS FiniteSets

CONSTANTS Keys,     \* the names that clients may ask for
          Child     \* <<k, p>>: k is p followed by '.' or '[' and more

(***************************************************************************)
(* What "k starts with p and goes on with '.' or '['" has for any strings: *)
(* it composes, and no name is shorter than all names (lengths decrease    *)
(* along it).                                                              *)
(***************************************************************************)
ASSUME ChildType == Child \subseteq Keys \X Keys

ASSUME ChildTransitive ==
  \A k, p, q \in Keys : <<k, p>> \in Child /\ <<p, q>> \in Child
                        => <<k, q>> \in Child

ASSUME ChildWellFounded ==
  \A S \in SUBSET Keys :
    S # {} => \E top \in S : \A p \in S : <<top, p>> \notin Child

-----------------------------------------------------------------------------
(* A fault: the structures are left out instead of their members.          *)
NestedParents(names) == {p \in names : \E k \in names : <<k, p>> \in Child}

(* The names that stand below another name of the same set: keysToRemove.  *)
Nested(names) == {k \in names : \E p \in names : <<k, p>> \in Child}

(* The names that are left for the PLC read.                               *)
Consolidated(names) == names \ Nested(names)
=============================================================================
