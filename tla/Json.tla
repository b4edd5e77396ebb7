-------------------------------- MODULE Json --------------------------------
(***************************************************************************)
(* crow::json as jsonserver uses it: load() of a client's message, access  *)
(* to an rvalue, conversion to a wvalue and dump() of an answer.           *)
(*                                                                         *)
(* A text is a sequence of symbols, most of them one character; "true"     *)
(* stands for the three words, "h000a" and the like for four hex digits,   *)
(* "1" for every digit but 0, "ctl" for a control character without an     *)
(* escape of its own.  A value is a pair of its type and a sequence: the   *)
(* symbols of a number, the characters of a string, the elements of a list *)
(* or the <<key, value>> pairs of an object.  Positions replace `data`.    *)
(***************************************************************************)
EXTENDS Integers, Sequences, SequencesExt, FiniteSets

CONSTANT MaxDepth        \* of decode_list and decode_object: 10000

ASSUME DepthType == MaxDepth \in Nat

End == "end of text"
At(text, i) == IF i \in DOMAIN text THEN text[i] ELSE End

Escapes  == {"quote", "bslash", "slash", "n"}     \* after a backslash
Digit    == {"0", "1"}
HexOf    == [h000a |-> "newline", h0022 |-> "quote", h00e9 |-> "eacute",
             h0001 |-> "ctl"]

-----------------------------------------------------------------------------
(***************************************************************************)
(* Faults: forms that definitions below must not have.                     *)
(***************************************************************************)
StepFrom(t0, t1, tp, tm, ts, te) ==
  [c \in {"0", "1", ".", "-", "+", "e"} |->
     CASE c = "0" -> t0 [] c = "1" -> t1 [] c = "." -> tp
       [] c = "-" -> tm [] c = "+" -> ts [] c = "e" -> te]

NumberStepLeadingZero ==      \* ZeroFirst goes on to Digits
  StepFrom(<<2, 2, 3, 3, 4, 6, 6>>, <<3, 3, 3, 3, 4, 6, 6>>, <<7, 7, 4, 4, 7, 7, 7>>,
           <<1, 7, 7, 7, 7, 6, 7>>, <<7, 7, 7, 7, 7, 6, 7>>, <<7, 7, 7, 5, 5, 7, 7>>)
EscapedNoBackslash(c) == CASE c = "quote"   -> <<"bslash", "quote">>
                           [] c = "newline" -> <<"bslash", "n">>
                           [] c = "ctl"     -> <<"bslash", "u", "h0001">>
                           [] OTHER         -> <<c>>
PointOnly(text, i)  == i + 1

-----------------------------------------------------------------------------
(***************************************************************************)
(* load()                                                                  *)
(***************************************************************************)
Failed(i)      == [ok |-> FALSE, next |-> i, value |-> <<"Null", <<>>>>]
Read(i, value) == [ok |-> TRUE, next |-> i, value |-> value]

RECURSIVE ws_skip(_, _)
ws_skip(text, i) == IF At(text, i) = "ws" THEN ws_skip(text, i + 1) ELSE i

(* decode_string: where the closing quote is, 0 if there is none.          *)
RECURSIVE StringEnd(_, _)
StringEnd(text, i) ==
  CASE At(text, i) = End      -> 0
    [] At(text, i) = "quote"  -> i
    [] At(text, i) = "bslash" ->
         IF At(text, i + 1) = "u"
         THEN IF At(text, i + 2) \in DOMAIN HexOf THEN StringEnd(text, i + 3) ELSE 0
         ELSE IF At(text, i + 1) \in Escapes THEN StringEnd(text, i + 2) ELSE 0
    [] OTHER                  -> StringEnd(text, i + 1)

(* unescape(), which s() runs the first time it is called.                 *)
RECURSIVE unescape(_)
unescape(s) ==
  IF s = <<>> THEN <<>>
  ELSE IF s[1] # "bslash" THEN <<s[1]>> \o unescape(Tail(s))
  ELSE IF s[2] = "u" THEN <<HexOf[s[3]]>> \o unescape(SubSeq(s, 4, Len(s)))
  ELSE <<IF s[2] = "n" THEN "newline" ELSE s[2]>> \o unescape(SubSeq(s, 3, Len(s)))

decode_string(text, i) ==
  LET e == IF At(text, i) = "quote" THEN StringEnd(text, i + 1) ELSE 0
  IN  IF e = 0 THEN Failed(i)
      ELSE Read(e + 1, <<"String", unescape(SubSeq(text, i + 1, e - 1))>>)

(* decode_number: the states are Minus, AfterMinus, ZeroFirst, Digits,     *)
(* DigitsAfterPoints, E, DigitsAfterE and Invalid, 0 to 7.                 *)
NumberStep ==
  StepFrom(<<2, 2, 7, 3, 4, 6, 6>>, <<3, 3, 7, 3, 4, 6, 6>>, <<7, 7, 4, 4, 7, 7, 7>>,
           <<1, 7, 7, 7, 7, 6, 7>>, <<7, 7, 7, 7, 7, 6, 7>>, <<7, 7, 7, 5, 5, 7, 7>>)

RECURSIVE NumberFrom(_, _, _, _)
NumberFrom(text, start, i, state) ==
  IF state = 7 THEN Failed(i)
  ELSE IF At(text, i) \in DOMAIN NumberStep
  THEN NumberFrom(text, start, i + 1, NumberStep[At(text, i)][state + 1])
  ELSE IF state \in {2, 3, 4, 6} THEN Read(i, <<"Number", SubSeq(text, start, i - 1)>>)
  ELSE Failed(i)

decode_number(text, i) == NumberFrom(text, i, i, 0)

(* What decode_list expects at i, after the bracket or a comma.            *)
AfterComma(text, i) == "value"
AfterOpen(text, i)  == IF At(text, i) = "]" THEN "]" ELSE "value"

RECURSIVE decode_value(_, _, _), Elements(_, _, _, _), Members(_, _, _, _)

decode_list(text, i, depth) ==
  IF depth > MaxDepth THEN Failed(i)
  ELSE LET j == ws_skip(text, i + 1)
       IN  IF AfterOpen(text, j) = "]" THEN Read(j + 1, <<"List", <<>>>>)
           ELSE Elements(text, j, depth, <<>>)

Elements(text, i, depth, done) ==
  LET v    == decode_value(text, i, depth + 1)
      j    == ws_skip(text, v.next)
      list == Append(done, v.value)
      k    == ws_skip(text, j + 1)
  IN  CASE ~v.ok             -> Failed(i)
        [] v.ok /\ At(text, j) = "]" -> Read(j + 1, <<"List", list>>)
        [] v.ok /\ At(text, j) = "," -> IF AfterComma(text, k) = "]"
                                        THEN Read(k + 1, <<"List", list>>)
                                        ELSE Elements(text, k, depth, list)
        [] OTHER             -> Failed(j)

decode_object(text, i, depth) ==
  IF depth > MaxDepth THEN Failed(i)
  ELSE LET j == ws_skip(text, i + 1)
       IN  IF At(text, j) = "}" THEN Read(j + 1, <<"Object", <<>>>>)
           ELSE Members(text, j, depth, <<>>)

Members(text, i, depth, done) ==
  LET key   == decode_string(text, i)
      colon == ws_skip(text, key.next)
      v     == decode_value(text, ws_skip(text, colon + 1), depth + 1)
      j     == ws_skip(text, v.next)
      obj   == Append(done, <<key.value[2], v.value>>)
  IN  IF ~key.ok \/ At(text, colon) # ":" THEN Failed(i)
      ELSE IF ~v.ok THEN Failed(colon)
      ELSE CASE At(text, j) = "}" -> Read(j + 1, <<"Object", obj>>)
             [] At(text, j) = "," -> Members(text, ws_skip(text, j + 1), depth, obj)
             [] OTHER             -> Failed(j)

decode_value(text, i, depth) ==
  CASE At(text, i) = "["     -> decode_list(text, i, depth + 1)
    [] At(text, i) = "{"     -> decode_object(text, i, depth + 1)
    [] At(text, i) = "quote" -> decode_string(text, i)
    [] At(text, i) = "true"  -> Read(i + 1, <<"True", <<>>>>)
    [] OTHER                 -> decode_number(text, i)

load(text) ==
  LET v == decode_value(text, ws_skip(text, 1), 0)
      j == ws_skip(text, v.next)
  IN  IF v.ok /\ At(text, j) = End THEN v ELSE Failed(j)

-----------------------------------------------------------------------------
(***************************************************************************)
(* wvalue(const rvalue&), and dump().                                      *)
(***************************************************************************)
(* emplace() keeps the first of the members that have the same key.        *)
FirstOfKey(pairs) ==
  SelectSeq([i \in DOMAIN pairs |-> <<i, pairs[i]>>],
            LAMBDA p : \A j \in 1 .. p[1] - 1 : pairs[j][1] # p[2][1])

RECURSIVE wvalue(_)
wvalue(v) ==
  CASE v[1] = "List"   -> <<"List", [i \in DOMAIN v[2] |-> wvalue(v[2][i])]>>
    [] v[1] = "Object" -> <<"Object", LET kept == FirstOfKey(v[2])
                                      IN  [i \in DOMAIN kept |->
                                             <<kept[i][2][1], wvalue(kept[i][2][2])>>]>>
    [] OTHER           -> v

Escaped(c) == CASE c = "quote"   -> <<"bslash", "quote">>
                [] c = "bslash"  -> <<"bslash", "bslash">>
                [] c = "newline" -> <<"bslash", "n">>
                [] c = "ctl"     -> <<"bslash", "u", "h0001">>
                [] OTHER         -> <<c>>

escape(s)      == FlattenSeq([i \in DOMAIN s |-> Escaped(s[i])])
dump_string(s) == <<"quote">> \o escape(s) \o <<"quote">>

(* Elements with commas between them.                                      *)
Joined(parts) == FlattenSeq([i \in DOMAIN parts |->
                               IF i = 1 THEN parts[i] ELSE <<",">> \o parts[i]])

RECURSIVE dump(_)
dump(v) ==
  CASE v[1] = "True"   -> <<"true">>
    [] v[1] = "Number" -> v[2]
    [] v[1] = "String" -> dump_string(v[2])
    [] v[1] = "List"   -> <<"[">> \o Joined([i \in DOMAIN v[2] |-> dump(v[2][i])]) \o <<"]">>
    [] v[1] = "Object" -> <<"{">> \o Joined([i \in DOMAIN v[2] |->
                            dump_string(v[2][i][1]) \o <<":">> \o dump(v[2][i][2])]) \o <<"}">>

(* A floating point number, as printf's %f has it, without the zeros at    *)
(* its end: the states are start, decp and zero; o is the first of the     *)
(* zeros seen last, 0 if there is none.                                    *)
AfterPoint(text, i) == IF At(text, i + 1) = "0" THEN i + 2 ELSE i + 1

RECURSIVE CutFrom(_, _, _, _)
CutFrom(text, i, state, o) ==
  CASE At(text, i) = End                      -> o
    [] At(text, i) # End /\ state = "start"   ->
         IF text[i] = "." THEN CutFrom(text, AfterPoint(text, i), "decp", o)
         ELSE CutFrom(text, i + 1, "start", o)
    [] At(text, i) # End /\ state = "decp"    ->
         IF text[i] = "0" THEN CutFrom(text, i + 1, "zero", i)
         ELSE CutFrom(text, i + 1, "decp", o)
    [] At(text, i) # End /\ state = "zero"    ->
         IF text[i] # "0" THEN CutFrom(text, i + 1, "decp", 0)
         ELSE CutFrom(text, i + 1, "zero", o)

dump_double(text) == LET o == CutFrom(text, 1, "start", 0)
                     IN  IF o = 0 THEN text ELSE SubSeq(text, 1, o - 1)
=============================================================================
