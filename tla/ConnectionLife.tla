--------------------------- MODULE ConnectionLife ---------------------------
(***************************************************************************)
(* What a crow connection object is to jsonserver, which keeps its address *)
(* from onopen to onclose: handlers are called while it exists, perhaps a  *)
(* message after a close and a close more than once; and before it is      *)
(* freed the last call is a close, so that jsonserver has forgotten it.    *)
(***************************************************************************)
EXTENDS Integers

VARIABLES life,   \* "live", "closed" (the last call was onclose), "freed"
          calls   \* how many handler calls there were

vars == <<life, calls>>

Init == life = "live" /\ calls = 1

Message == /\ life # "freed"
           /\ life' = "live"
           /\ calls' = calls + 1

(* A close may free the object at once.                                    *)
Close == /\ life # "freed"
         /\ life' \in {"closed", "freed"}
         /\ calls' = calls + 1

Free == /\ life = "closed"
        /\ life' = "freed"
        /\ calls' = calls

Next == Message \/ Close \/ Free

Spec == Init /\ [][Next]_vars
=============================================================================
