----------------------------- MODULE MCWebSocket -----------------------------
(***************************************************************************)
(* Instances of WebSocket for TLC: what a client may send.  Lengths are    *)
(* short; the longer encodings of them take the same way through do_read.  *)
(***************************************************************************)
EXTENDS WebSocket, Bitwise

XorTable    == [p \in Byte \X Byte |-> p[1] ^^ p[2]]
MCXor(a, b) == XorTable[<<a, b>>]

MCFrame(fin, op, code, data) ==
  [fin |-> fin, op |-> op, key |-> <<1, 2, 4, 8 + op>>, code |-> code,
   data |-> data]

Text(data)    == MCFrame(TRUE, 1, 0, data)
First(data)   == MCFrame(FALSE, 1, 0, data)
More(data)    == MCFrame(FALSE, 0, 126, data)
End(data)     == MCFrame(TRUE, 0, 127, data)
Ping(data)    == MCFrame(TRUE, 9, 0, data)
Bye           == MCFrame(TRUE, 8, 0, <<>>)
Bare(op, data) == [fin |-> TRUE, op |-> op, key |-> <<>>, code |-> 0, data |-> data]

Poison == <<9>>
MCBad  == {Poison}

(* A fragmented message with a ping inside; frames without a mask; an      *)
(* empty message; one that the message handler cannot read.                *)
MCScripts == {<<First(<<5, 6, 7>>), Ping(<<3>>), End(<<5>>), Bye>>,
              <<Bare(2, <<5>>), Text(<<>>), Bare(10, <<>>), Bye>>,
              <<Text(<<5>>), Text(Poison), Text(<<6>>)>>,
              <<First(<<5>>), More(<<6>>), End(<<>>), Text(<<7>>)>>}
(* Lengths on both sides of the borders between the encodings.             *)
MCReplies == {<<126, 65536>>, <<125, 65535>>}
==============================================================================
