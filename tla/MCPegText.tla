----------------------------- MODULE MCPegText -----------------------------
(***************************************************************************)
(* Calls of the functions of PegText and CharClass, one in every behaviour, *)
(* with arguments from small sets that hold the values on both sides of    *)
(* each boundary of the code.                                              *)
(***************************************************************************)
EXTENDS CharClass, FiniteSets

CONSTANTS Calls,   \* records of a function's name, f, and its argument, arg
          Width    \* how many bits a size_t has

Bytes  == 1 .. 255     \* those of a C string
Units  == 0 .. 65535   \* those of UTF-16

(* Numbers are digits, and paths may be of any characters.                 *)
ASSUME WidthAssumption == Width \in Nat
ASSUME CallsAssumption ==
  \A c \in Calls :
    /\ c.f = "number" => c.arg \in Seq(0 .. 9)
    /\ c.f \in {"bytes", "raw", "utf8"} => c.arg \in Seq(Bytes)
    /\ c.f = "units" => c.arg \in Seq(Units)
    /\ c.f = "names" => \A path \in {c.arg.iname, c.arg.oname} : path \in Seq({path[k] : k \in DOMAIN path})

VARIABLES call, returned, result
vars == <<call, returned, result>>

Strings(S, n) == UNION {[1 .. k -> S] : k \in 0 .. n}
Joint(ps) == LET upto[k \in 0 .. Len(ps)] == IF k = 0 THEN <<>> ELSE upto[k - 1] \o ps[k] IN upto[Len(ps)]
Mapped(s, Op(_)) == [k \in DOMAIN s |-> Op(s[k])]

(* Escape sequences for bytes and for units of UTF-16.                     *)
EscapedBytes(s) == Joint(Mapped(s, escape_character))
EscapedUnit(v)  == <<Backslash, LetterU, HexDigit(v \div 4096), HexDigit((v \div 256) % 16),
                     HexDigit((v \div 16) % 16), HexDigit(v % 16)>>
EscapedUnits(s) == Joint(Mapped(s, EscapedUnit))

(* A class as the parser leaves it, from the pieces of its text.           *)
Class(ps) == unescape_string(Joint(ps), TRUE).out

Result(f, arg) ==
  CASE f = "number" -> string_to_size_t(Width, arg)
    [] f = "block"  -> write_code_block(arg, 2)
    [] f = "bytes"  -> unescape_string(EscapedBytes(arg), FALSE)
    [] f = "units"  -> unescape_string(EscapedUnits(arg), FALSE)
    [] f = "raw"    -> unescape_string(arg, FALSE)
    [] f = "utf8"   -> is_valid_utf8_string(arg)
    [] f = "class"  -> [ascii |-> generate_matching_charclass_code(Class(arg)),
                        utf8 |-> generate_matching_utf8_charclass_code(Class(arg))]
    [] f = "names"  -> [source |-> OutputName(arg.iname, arg.oname, "c"),
                        header |-> OutputName(arg.iname, arg.oname, "h")]

Init == call \in Calls /\ returned = FALSE /\ result = <<>>
Return == ~returned /\ returned' = TRUE /\ result' = Result(call.f, call.arg) /\ UNCHANGED call
Spec == Init /\ [][Return]_vars

Returned(f) == returned /\ call.f = f

-----------------------------------------------------------------------------
(* Arguments.                                                              *)

CallsOf(f, S) == {[f |-> f, arg |-> s] : s \in S}

Units16 == {0, 127, 128, 2047, 2048, 55295, 55296, 56319, 56320, 57343, 57344, 65535}
RawBytes == {Backslash, LetterU, LetterX, 48, 100, 110, 13, 10}
HighUnit == <<Backslash, LetterU, 100, 56, 51, 100>>   \* \ud83d
LowUnit  == <<Backslash, LetterU, 100, 101, 48, 48>>   \* \ude00
CutOff   == {HighUnit \o t : t \in Strings(RawBytes, 3)}
            \cup {t \o u : t \in Strings(RawBytes, 2), u \in {HighUnit, LowUnit, HighUnit \o LowUnit}}

LongUtf8 ==
  {<<c, d, e, f>> : c \in {239, 240, 244, 247}, d \in {127, 128, 143, 144, 191}, e \in {128, 191, 192}, f \in {65, 128, 191}}
Utf8Bytes == {1, 127, 128, 159, 160, 191, 192, 193, 194, 223, 224, 237, 239, 240, 247, 248, 255}

ClassPieces == {<<97>>, <<99>>, <<Dash>>, <<Caret>>, <<195, 169>>,
                <<Backslash, Dash>>, <<Backslash, Caret>>, <<Backslash, Backslash>>}

AllCalls ==
  CallsOf("number", Strings(0 .. 9, 3) \ {<<>>})
  \cup CallsOf("block", Strings({" ", "\t", "\n", "\r", "x"}, 6))
  \cup CallsOf("bytes", Strings(1 .. 255, 1) \cup Strings({Backslash, 48, 110, 195, 169}, 3))
  \cup CallsOf("units", Strings(Units16, 3))
  \cup CallsOf("raw", Strings(RawBytes, 4) \cup CutOff)
  \cup CallsOf("utf8", Strings(Utf8Bytes, 3) \cup LongUtf8)
  \cup CallsOf("class", Strings(ClassPieces, 4))
  \cup CallsOf("names", [iname : Strings({"a", ".", "/"}, 5), oname : {<<>>}]
                        \cup [iname : Strings({"a", ".", "/"}, 2), oname : Strings({"b", ".", "/"}, 3)])
-----------------------------------------------------------------------------
Value(s) == LET v[k \in 0 .. Len(s)] == IF k = 0 THEN 0 ELSE 10 * v[k - 1] + s[k] IN v[Len(s)]

(* The number of a back-reference $n that fits in size_t is read as it is   *)
(* written, and not refused, but for the last value of size_t: that is      *)
(* VOID_VALUE, which says that there is no number (string_to_size_t).       *)
FittingNumbersExact ==
  Returned("number") /\ Value(call.arg) < 2 ^ Width - 1 => result = Value(call.arg)

(* A code block is written with its lines in place: one beyond the first   *)
(* keeps its distance from the leftmost of them, with tabs as wide as on   *)
(* a screen, blank ends of lines are dropped and blank lines kept, except  *)
(* a last one; the assertion that no line starts left of the leftmost      *)
(* holds (write_code_block).                                               *)
CodeBlocksKept ==
  LET s == call.arg
      Ends(i) == s[i] = "\n" \/ (s[i] = "\r" /\ (i < Len(s) => s[i + 1] # "\n"))
      ends == {i \in DOMAIN s : Ends(i)}
      starts == {1} \cup {i + 1 : i \in ends}
      stop(i) == IF \E j \in ends : i <= j THEN CHOOSE j \in ends : i <= j /\ \A k \in ends : k < i \/ j <= k
                 ELSE Len(s)
      ink(i) == {j \in i .. stop(i) : s[j] = "x"}
      first(i) == CHOOSE j \in ink(i) : \A k \in ink(i) : j <= k
      last(i) == CHOOSE j \in ink(i) : \A k \in ink(i) : j >= k
      column(i) == LET c[j \in i - 1 .. Len(s)] ==
                         IF j < i THEN 0
                         ELSE IF s[j] = "\t" THEN 8 * (c[j - 1] \div 8) + 8 ELSE c[j - 1] + 1
                   IN c[first(i) - 1]
      later == {i \in starts : i > 1 /\ ink(i) # {}}
      margin == CHOOSE m \in {column(i) : i \in later} : \A i \in later : m <= column(i)
      text(i) == SubSeq(s, first(i), last(i)) \o <<"\n">>
      written(i) == IF ink(i) = {} THEN IF i = 1 \/ stop(i) = Len(s) THEN <<>> ELSE <<"\n">>
                    ELSE Repeat(" ", 2 + (IF i = 1 THEN 0 ELSE column(i) - margin)) \o text(i)
      all[i \in 0 .. Len(s)] == IF i = 0 THEN <<>> ELSE all[i - 1] \o (IF i \in starts THEN written(i) ELSE <<>>)
  IN Returned("block") => result = all[Len(s)]

(* The code points of units of UTF-16, where no surrogate is alone.        *)
Paired(s) ==
  \A k \in DOMAIN s : /\ s[k] \in 55296 .. 56319 => k < Len(s) /\ s[k + 1] \in 56320 .. 57343
                      /\ s[k] \in 56320 .. 57343 => k > 1 /\ s[k - 1] \in 55296 .. 56319
CodePoints(s) ==
  LET point(k) == IF s[k] \in 55296 .. 56319 THEN <<65536 + (s[k] - 55296) * 1024 + s[k + 1] - 56320>>
                  ELSE IF s[k] \in 56320 .. 57343 THEN <<>> ELSE <<s[k]>>
  IN Joint([k \in DOMAIN s |-> point(k)])

(* The characters of a string of UTF-8, as a generated parser reads them   *)
(* one after the other; -1 where it finds none.                            *)
Characters(s) ==
  LET from[i \in 1 .. Len(s) + 1] ==
        IF i > Len(s) THEN <<>>
        ELSE LET ch == pcc_get_char_as_utf32(s, i) IN IF ch.n = 0 THEN <<-1>> ELSE <<ch.u>> \o from[i + ch.n]
  IN from[1]

(* What an escape sequence says is what ends up in the grammar: a byte     *)
(* written by escape_character comes back, units of UTF-16 become the       *)
(* code points that the generated parser will read, and a surrogate that    *)
(* has no partner is refused (unescape_string).  This leaves out what is    *)
(* read of a string with unit 0, which ends there.                          *)
EscapesRead ==
  /\ Returned("bytes") => result.ok /\ result.out = call.arg
  /\ Returned("units") =>
       /\ result.ok = Paired(call.arg)
       /\ result.ok /\ (\A k \in DOMAIN call.arg : call.arg[k] # 0) => Characters(result.out) = CodePoints(call.arg)

(* Text is unescaped in its own memory: the loop neither reads past the    *)
(* end of the string nor writes what it has still to read, for every       *)
(* string that is accepted, and however an escape sequence of another is   *)
(* cut off.  This leaves out refused strings that end right behind the     *)
(* digits of a surrogate: if it is that one which has no partner, the loop *)
(* does.                                                                   *)
EndsInSurrogate(s) ==
  LET n == Len(s) IN
  /\ n >= 6 /\ SubSeq(s, n - 5, n - 4) = <<Backslash, LetterU>> /\ HexDigits(s, n - 3, 4) = 4
  /\ HexNumber(s, n - 3, 4) \in 55296 .. 57343
StaysInside(s) == result.inside \/ (~result.ok /\ EndsInSurrogate(s))
UnescapeInside ==
  /\ Returned("raw")   => StaysInside(call.arg)
  /\ Returned("units") => StaysInside(EscapedUnits(call.arg))

(* What packcc accepts as UTF-8 in a grammar is what the parsers it writes *)
(* accept in their input: the validator takes a string exactly if a parser *)
(* that reads one character after the other, and stays where it finds none, *)
(* comes to its end; and then each of them is the shortest encoding of a   *)
(* code point, which the decoder of packcc reads as the same one, and      *)
(* which a dot takes whole.                                                *)
DecodersAgree ==
  LET s == call.arg
      place[k \in 0 .. Len(s)] ==
        IF k = 0 THEN 1 ELSE LET i == place[k - 1] IN i + pcc_get_char_as_utf32(s, i).n
  IN Returned("utf8") =>
       /\ result <=> place[Len(s)] = Len(s) + 1
       /\ \A k \in 0 .. Len(s) :
            LET i == place[k]
                ch == pcc_get_char_as_utf32(s, i)
            IN result /\ i \in DOMAIN s => /\ SubSeq(s, i, i + ch.n - 1) = Encoded(ch.u)
                                          /\ utf8_to_utf32(s, i) = ch
                                          /\ Takes(AnyUtf8, s, i) = ch.n

(* What README.md says of a class, in the pieces of its text: a caret in   *)
(* front negates it, a dash between two characters makes a range of them.  *)
Piece(ps, k) == LET p == ps[k] IN IF p[1] = Backslash THEN p[2] ELSE utf8_to_utf32(p, 1).u
Negative(ps) == ps # <<>> /\ ps[1] = <<Caret>>
RangeAt(ps, k) == k + 2 <= Len(ps) /\ ps[k + 1] = <<Dash>>
Begins(ps) ==
  LET b[k \in 1 .. Len(ps) + 1] ==
        \/ k = IF Negative(ps) THEN 2 ELSE 1
        \/ k > 1 /\ b[k - 1] /\ ~RangeAt(ps, k - 1)
        \/ k > 3 /\ b[k - 3] /\ RangeAt(ps, k - 3)
  IN {k \in DOMAIN ps : b[k]}
InClass(ps, u) ==
  LET in == \E k \in Begins(ps) : IF RangeAt(ps, k) THEN Piece(ps, k) <= u /\ u <= Piece(ps, k + 2)
                                  ELSE u = Piece(ps, k)
  IN ps # <<>> /\ in # Negative(ps)

IsAscii(ps) == <<195, 169>> \notin {ps[k] : k \in DOMAIN ps}
EscapedEnd(ps) == \E k \in Begins(ps) : RangeAt(ps, k) /\ ps[k + 2][1] = Backslash
Texts == {<<45>>, <<92>>, <<94>>, <<97>>, <<98>>, <<99>>, <<195, 169>>, <<195, 168>>, <<240, 159, 152, 128>>}

(* A class matches the characters that its text names, whole, and neither  *)
(* a broken one nor the end of the input; with --ascii it matches the same *)
(* ASCII text.  This leaves out the classes that the generators do not     *)
(* agree on: [^], ranges that end in an escape, and, for UTF-8, a dash at  *)
(* the end.                                                                *)
ClassesAgree ==
  LET ps == call.arg IN
  Returned("class") =>
    /\ result.utf8.well =>
         /\ \A t \in Texts : Takes(result.utf8, t, 1) = IF InClass(ps, Characters(t)[1]) THEN Len(t) ELSE 0
         /\ \A t \in {<<>>, <<195>>, <<169>>, <<195, 65>>} : Takes(result.utf8, t, 1) = 0
    /\ IsAscii(ps) /\ ~EscapedEnd(ps) /\ ps # <<<<Caret>>>> =>
         \A t \in Texts : Len(t) = 1 => (Takes(result.ascii, t, 1) = 1) = InClass(ps, t[1])

(* The source and the header never get the same name, whatever the         *)
(* grammar or -o is called.  Of the grammar's own path, an extension of    *)
(* the file gives way, if it has one, and nothing else: a dot in the name  *)
(* of a directory begins none.  What -o says is kept whole                 *)
(* (create_context).                                                       *)
OutputNames ==
  LET o == call.arg.oname
      path == IF call.arg.iname # <<>> THEN call.arg.iname ELSE <<"-">>
      Extension(k) == /\ k < Len(path) /\ path[k + 1] = "."
                      /\ \A m \in k + 2 .. Len(path) : path[m] \notin {".", "/", "\\", ":"}
      From(p, k) == /\ result.source = SubSeq(p, 1, k) \o <<".", "c">>
                    /\ result.header = SubSeq(p, 1, k) \o <<".", "h">>
  IN Returned("names") =>
       /\ result.source # result.header
       /\ o # <<>> => From(o, Len(o))
       /\ o = <<>> => \E k \in 0 .. Len(path) :
            From(path, k) /\ (Extension(k) \/ (k = Len(path) /\ \A m \in 0 .. k : ~Extension(m)))
=============================================================================
