----------------------------- MODULE ReadService -----------------------------
(***************************************************************************)
(* What the request pipeline promises its clients about read requests,     *)
(* with no thread, queue or mutex: a request gets one outcome, once.  It   *)
(* is answered, together with other requests of its address, while that    *)
(* address has a connection; or it is given up, for one of three reasons;  *)
(* or it is lost, which the pipeline does allow (JsonServer!NothingLost).  *)
(***************************************************************************)
EXTENDS Integers, Sequences

CONSTANTS Address, Sessions,  \* a connection is a session of an address
          Names,
          Most                \* bound on the requests asked

VARIABLES asked,      \* every request: its address, session and names
          connected,  \* the <<address, session>> that are connected
          aged,       \* requests up to this one are too old to be read
          outcome     \* request |-> what became of it

vars == <<asked, connected, aged, outcome>>

Open        == DOMAIN asked \ DOMAIN outcome
Caller(id)  == <<asked[id].conn, asked[id].session>>
Settle(ids, how) ==
  outcome' = [i \in DOMAIN outcome \cup ids |->
                IF i \in ids THEN how ELSE outcome[i]]

(* A request may be given up when it is too old, when it asks for nothing, *)
(* or when the connection that made it is not (or no longer) there.        *)
Excused(id, clients) == \/ id <= aged
                        \/ asked[id].keys = <<>>
                        \/ Caller(id) \notin clients

Init == /\ asked = <<>>
        /\ connected = {}
        /\ aged = 0
        /\ outcome = <<>>

Connect == /\ \E a \in Address, n \in Sessions : connected' = connected \cup {<<a, n>>}
           /\ UNCHANGED <<asked, aged, outcome>>

Ask == /\ Len(asked) < Most
       /\ \E a \in Address, n \in Sessions, names \in Names :
            asked' = Append(asked, [conn |-> a, session |-> n, keys |-> names])
       /\ UNCHANGED <<connected, aged, outcome>>

Answer == /\ \E ids \in (SUBSET Open) \ {{}}, a \in Address :
               /\ \A id \in ids : asked[id].conn = a
               /\ \E c \in connected : c[1] = a
               /\ Settle(ids, "answered")
          /\ UNCHANGED <<asked, connected, aged>>

(* A connection may end in the same step, and excuse its requests.         *)
GiveUp == /\ connected' \in SUBSET connected
          /\ \E ids \in SUBSET Open :
               /\ \A id \in ids : Excused(id, connected')
               /\ Settle(ids, "given up")
          /\ UNCHANGED <<asked, aged>>

Lose == /\ \E id \in Open : Settle({id}, "lost")
        /\ UNCHANGED <<asked, connected, aged>>

Age == /\ aged < Len(asked)
       /\ aged' = aged + 1
       /\ UNCHANGED <<asked, connected, outcome>>

Next == Connect \/ Ask \/ Answer \/ GiveUp \/ Lose \/ Age

Spec == Init /\ [][Next]_vars
=============================================================================
