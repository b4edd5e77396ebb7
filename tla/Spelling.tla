------------------------------ MODULE Spelling ------------------------------
(***************************************************************************)
(* Names of variables.  A name is the sequence of components that          *)
(* splitVarName cuts it into: "a[0].v" is <<"a", "[0]", "v">>.  Components *)
(* are opaque; what the code looks at in their spelling is `Begins`.       *)
(***************************************************************************)
EXTENDS Integers, SequencesExt

CONSTANT Begins      \* <<c, d>>: the string d is c and more

ASSUME BeginsComposes ==
  \A b, c \in Begins : b[2] = c[1] => <<b[1], c[2]>> \in Begins

(* toLower: the line that did it is commented out.                         *)
ToLower(n) == n

(* The string n starts with the string s.                                  *)
StartsWith(n, s) ==
  /\ Len(s) <= Len(n)
  /\ SubSeq(n, 1, Len(s) - 1) = Front(s)
  /\ n[Len(s)] = Last(s) \/ <<Last(s), n[Len(s)]>> \in Begins
=============================================================================
