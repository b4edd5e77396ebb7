----------------------------- MODULE DataParser -----------------------------
(***************************************************************************)
(* dataType_member_base::encode and parse: the text of a written value     *)
(* into the memory of a PLC variable, and back into a JSON value.          *)
(*                                                                         *)
(* A numeric text is its integer and whether more follows it ("12abc",     *)
(* "1.7": std::stoi stops there); any other text is a name or a sequence   *)
(* of characters.  Memory is a number below 2^w for a numeric type, and a  *)
(* sequence of characters, the neighbour's after the variable's, for a     *)
(* STRING.  The widths of 1, 2, 4 and 8 bytes are constants, so that small *)
(* ones can be checked; floating point types are left out.                 *)
(***************************************************************************)
EXTENDS Integers, Sequences

CONSTANT Bits(_)        \* of a size in bytes: 8 * size
CONSTANTS Nul, Fill     \* the NUL character, and a neighbour's

ASSUME BitsType == /\ \A size \in {1, 2, 4, 8} : Bits(size) \in Nat \ {0}
                   /\ Bits(1) < Bits(2) /\ Bits(2) < Bits(4) /\ Bits(4) < Bits(8)

(* The integer types: their size, whether they are signed, and the         *)
(* function that reads the text, of an int, a long (32 bits on Windows) or *)
(* a long long.                                                            *)
Signed   == [INT |-> 2, DINT |-> 4, INT8 |-> 1, LINT |-> 8]
Unsigned == [UINT8 |-> 1, UINT |-> 2, UDINT |-> 4, ULINT |-> 8,
             STRUCT1 |-> 1, STRUCT2 |-> 2, STRUCT4 |-> 4, STRUCT8 |-> 8]
Sizes    == [t \in DOMAIN Signed \cup DOMAIN Unsigned |->
               IF t \in DOMAIN Signed THEN Signed[t] ELSE Unsigned[t]]

(* Faults.                                                                 *)
SignBitOfShort(t, raw)  == IF t \in DOMAIN Signed /\ raw >= 2 ^ (Bits(2) - 1)
                           THEN raw - 2 ^ Bits(2) ELSE raw

Throws      == [result |-> "throws"]
Unsupported == [result |-> "unsupported"]
Stored(raw) == [result |-> "stored", memory |-> raw]

(* stoi, stol, stoll: out of the range of their type they throw.           *)
(* stoul, stoull: a minus negates modulo the width.                        *)
StoSigned(n, size)   == n \in -(2 ^ (Bits(size) - 1)) .. 2 ^ (Bits(size) - 1) - 1
StoUnsigned(n, size) == n \in -(2 ^ Bits(size) - 1) .. 2 ^ Bits(size) - 1

Converts(t, n) ==
  CASE Sizes[t] \in {1, 2}                          -> StoSigned(n, 4)
    [] t \in DOMAIN Signed /\ Sizes[t] \in {4, 8}   -> StoSigned(n, Sizes[t])
    [] t \in DOMAIN Unsigned /\ Sizes[t] \in {4, 8} -> StoUnsigned(n, Sizes[t])

(* strncpy pads with NULs and writes none where the text fills the size.   *)
strncpy(text, size) == [i \in 1 .. size |-> IF i <= Len(text) THEN text[i] ELSE Nul]

encode(t, text, size) ==
  CASE t \in DOMAIN Sizes /\ text.is = "number" ->
         IF Converts(t, text.n) THEN Stored(text.n % 2 ^ Bits(Sizes[t])) ELSE Throws
    [] t \in DOMAIN Sizes /\ text.is # "number" -> Throws
    [] t = "BOOL"   -> Stored(IF text.is = "true" \/ (text.is = "number" /\ text.n = 1 /\ text.rest = "")
                              THEN 1 ELSE 0)
    [] t = "STRING" -> IF size > 0 THEN Stored(strncpy(text.chars, size)) ELSE Stored(<<>>)
    [] OTHER        -> Unsupported

(* A signed type has its top bit as its sign.                              *)
Value(t, raw) == IF t \in DOMAIN Signed /\ raw >= 2 ^ (Bits(Sizes[t]) - 1)
                 THEN raw - 2 ^ Bits(Sizes[t]) ELSE raw

(* A STRING is read up to the first NUL, wherever that is.                 *)
UpToNul(memory) ==
  LET ends == {i \in DOMAIN memory : memory[i] = Nul}
  IN  IF ends = {} THEN memory
      ELSE SubSeq(memory, 1, (CHOOSE i \in ends : \A j \in ends : i <= j) - 1)

parse(t, memory) ==
  CASE t \in DOMAIN Sizes -> Value(t, memory)
    [] t = "BOOL"         -> memory # 0
    [] t = "STRING"       -> UpToNul(memory)
=============================================================================
