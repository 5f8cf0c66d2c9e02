----------------------------- MODULE CharClass -----------------------------
(***************************************************************************)
(* What generate.c makes of a character class: a list of tests, one for    *)
(* each character or range, in the two generators of classes.              *)
(*                                                                         *)
(* A class is the sequence of bytes that the parser has left of it, in     *)
(* which a backslash still takes away the meaning of what follows.  The    *)
(* code of a class is a record: width says how many bytes a character may  *)
(* have ("byte" or "utf8"), takes whether the code is no test but always   *)
(* takes the character or always fails, neg whether the tests tell what is *)
(* not in the class, and well whether the C text of the condition is one.  *)
(***************************************************************************)
EXTENDS PegText

Dash  == 45
Caret == 94

Code(width, takes, neg, tests, well) ==
  [width |-> width, takes |-> takes, neg |-> neg, tests |-> tests, well |-> well]

Negated(v) == Len(v) > 1 /\ v[1] = Caret

(* The tests of generate_matching_charclass_code from start on.            *)
AsciiTests(v, start) ==
  LET tests[i \in start .. Len(v) + 1] ==
        LET k == IF v[i] = Backslash /\ i < Len(v) THEN i + 1 ELSE i
        IN IF i > Len(v) THEN <<>>
           ELSE IF k + 2 <= Len(v) /\ v[k + 1] = Dash THEN <<<<v[k], v[k + 2]>>>> \o tests[k + 3]
           ELSE <<<<v[k], v[k]>>>> \o tests[k + 1]
  IN tests[start]

(* A class of one byte, and a negated one of one byte, are compared with   *)
(* that byte, and a class that is one range of plain bytes is tested at    *)
(* once; the others go through the loop.                                   *)
generate_matching_charclass_code(v) ==
  LET first == IF Negated(v) THEN 2 ELSE 1
      OneRange == first + 2 = Len(v) /\ v[first] # Backslash /\ v[first + 1] = Dash
  IN IF v = <<>> THEN Code("byte", "never", FALSE, <<>>, TRUE)
     ELSE Code("byte", "tested", Negated(v),
               IF first = Len(v) THEN <<<<v[first], v[first]>>>>
               ELSE IF OneRange THEN <<<<v[first], v[first + 2]>>>>
               ELSE AsciiTests(v, first), TRUE)

(* Mutant: the backslash before the end of a range is that end.            *)
PlainEnd(v, i, open) == v[i] = Backslash /\ i < Len(v) /\ ~open

EscapedAt(v, i, open) == v[i] = Backslash /\ i < Len(v)

(* The tests of generate_matching_utf8_charclass_code from start on, and   *)
(* whether a range is left open; open says that a dash has been read       *)
(* behind u0, r in the code.                                               *)
Utf8Tests(v, start) ==
  LET from[i \in Nat, u0 \in Nat, open \in BOOLEAN] ==
        LET k == IF EscapedAt(v, i, open) THEN i + 1 ELSE i
            ch == utf8_to_utf32(v, k)
            next == k + ch.n
            rest == from[next, 0, FALSE]
        IN IF i > Len(v) THEN [tests |-> <<>>, open |-> open]
           ELSE IF ~open /\ Byte(v, next) = Dash THEN from[next + 1, ch.u, TRUE]
           ELSE [rest EXCEPT !.tests = <<<<IF open THEN u0 ELSE ch.u, ch.u>>>> \o @]
  IN from[start, 0, FALSE]

(* A test that is followed by more of the class ends in "||": when that    *)
(* rest is an open range, nothing follows the "||", or nothing stands      *)
(* between the parentheses.                                                *)
generate_matching_utf8_charclass_code(v) ==
  LET neg == v # <<>> /\ v[1] = Caret
      t == Utf8Tests(v, IF neg THEN 2 ELSE 1)
  IN IF v = <<>> THEN Code("utf8", "never", FALSE, <<>>, TRUE)
     ELSE IF v = <<Caret>> THEN Code("utf8", "any", FALSE, <<>>, TRUE)
     ELSE Code("utf8", "tested", neg, t.tests, ~t.open)

(* A dot.                                                                  *)
AnyByte == Code("byte", "any", FALSE, <<>>, TRUE)
AnyUtf8 == Code("utf8", "any", FALSE, <<>>, TRUE)

-----------------------------------------------------------------------------
(* How the generated code takes a character at i of its input: the number  *)
(* of bytes it moves on, 0 when it fails.  A byte is a char, which is      *)
(* signed where packcc is built and run.                                   *)
Signed(b) == IF b > 127 THEN b - 256 ELSE b
InTests(code, u) ==
  \E k \in DOMAIN code.tests :
    IF code.width = "byte"
    THEN Signed(code.tests[k][1]) <= Signed(u) /\ Signed(u) <= Signed(code.tests[k][2])
    ELSE code.tests[k][1] <= u /\ u <= code.tests[k][2]

Takes(code, input, i) ==
  LET ch == IF code.width = "utf8" THEN pcc_get_char_as_utf32(input, i)
            ELSE [n |-> IF i \in DOMAIN input THEN 1 ELSE 0, u |-> Byte(input, i)]
  IN CASE code.takes = "never" -> 0
       [] code.takes = "any"   -> ch.n
       [] OTHER -> IF ch.n > 0 /\ InTests(code, ch.u) # code.neg THEN ch.n ELSE 0
=============================================================================
