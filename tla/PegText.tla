------------------------------ MODULE PegText ------------------------------
(***************************************************************************)
(* The functions on text of util.c, with what generate.c writes of UTF-8   *)
(* and of character classes into the parsers it makes.                     *)
(*                                                                         *)
(* A C string is the sequence of its bytes before the terminating zero,    *)
(* and reading behind its end gives zero.  Masks and shifts are remainders *)
(* and products of powers of two.  In a code block, whose bytes matter     *)
(* only as blanks and line ends, characters are strings of length one.     *)
(***************************************************************************)
EXTENDS Naturals, Integers, Sequences

VOID == -1   \* VOID_VALUE

Byte(s, i) == IF i \in DOMAIN s THEN s[i] ELSE 0
Repeat(ch, n) == [k \in 1 .. n |-> ch]

(* Mutant: the last decade of size_t is refused.                           *)
RefusesEarly(w, s) ==
  LET N == (2 ^ w - 1) \div 10
      n[i \in 0 .. Len(s)] ==
        IF i = 0 THEN 0 ELSE IF n[i - 1] = VOID \/ n[i - 1] >= N THEN VOID ELSE s[i] + 10 * n[i - 1]
  IN n[Len(s)] % (2 ^ w)

(* string_to_size_t of a string of digits, where size_t has w bits and     *)
(* VOID_VALUE, which it returns when it gives up, is the last of its       *)
(* values.                                                                 *)
string_to_size_t(w, s) ==
  LET N == (2 ^ w - 1) \div 10
      M == (2 ^ w - 1) - 10 * N
      n[i \in 0 .. Len(s)] ==
        IF i = 0 THEN 0
        ELSE IF n[i - 1] = VOID \/ (n[i - 1] >= N /\ s[i] > M) THEN VOID
        ELSE (s[i] + 10 * n[i - 1]) % (2 ^ w)
  IN n[Len(s)] % (2 ^ w)

-----------------------------------------------------------------------------
(* Code blocks.                                                            *)

(* \f stands for \v as well, which has no notation here.                  *)
Spaces == {" ", "\f", "\t"}

(* Where the text of the line that begins at start ends, and where the     *)
(* next line begins (none: VOID) as far as the first i characters show.    *)
(* Positions count from 0, as in the code.                                 *)
find_first_trailing_space(s, start) ==
  LET eol(i) == IF s[i] = "\r" /\ i < Len(s) /\ s[i + 1] = "\n" THEN i + 1 ELSE i
      seen[i \in start .. Len(s)] ==
        IF i = start THEN [j |-> start, next |-> VOID]
        ELSE LET t == seen[i - 1]
             IN IF t.next # VOID \/ s[i] \in Spaces THEN t
                ELSE IF s[i] \in {"\n", "\r"} THEN [t EXCEPT !.next = eol(i)]
                ELSE [t EXCEPT !.j = i]
      line == seen[Len(s)]
  IN IF line.next = VOID THEN [line EXCEPT !.next = Len(s)] ELSE line

(* Mutant: a tab is eight spaces wherever it stands.                       *)
EightSpaces(n) == n + 8

TabStop(n) == ((n + 8) \div 8) * 8

(* The columns that the spaces from start on, before end, fill, and where *)
(* they end.                                                               *)
count_indent_spaces(s, start, end) ==
  LET filled[i \in start .. end] ==
        IF i = start THEN [n |-> 0, next |-> start]
        ELSE LET t == filled[i - 1]
             IN IF t.next < i - 1 \/ s[i] \notin Spaces THEN t
                ELSE [n |-> IF s[i] = "\t" THEN TabStop(t.n) ELSE t.n + 1, next |-> i]
  IN filled[end]

(* The least indentation of the lines from start on, VOID if all are blank. *)
LeastIndent(s, start) ==
  LET least[i \in start .. Len(s)] ==
        LET t == find_first_trailing_space(s, i)
            l == count_indent_spaces(s, i, t.j).n
            m == least[t.next]
        IN IF i = Len(s) THEN VOID
           ELSE IF i < t.j /\ (m = VOID \/ m > l) THEN l ELSE m
  IN least[start]

Line(s, i, j, indent) == Repeat(" ", indent) \o SubSeq(s, i + 1, j) \o <<"\n">>

(* The lines from start on, m columns to the left; "assert" for a line     *)
(* that has fewer.                                                         *)
BlockLines(s, start, m, indent) ==
  LET lines[i \in start .. Len(s)] ==
        LET t == find_first_trailing_space(s, i)
            l == count_indent_spaces(s, i, t.j)
            line == IF i < t.j
                    THEN IF l.n >= m THEN Line(s, l.next, t.j, l.n - m + indent) ELSE <<"assert">>
                    ELSE IF t.next < Len(s) THEN <<"\n">> ELSE <<>>
        IN IF i = Len(s) THEN <<>> ELSE line \o lines[t.next]
  IN lines[start]

write_code_block(s, indent) ==
  LET t == find_first_trailing_space(s, 0)
      i == count_indent_spaces(s, 0, t.j).next
  IN (IF i < t.j THEN Line(s, i, t.j, indent) ELSE <<>>)
     \o BlockLines(s, t.next, LeastIndent(s, t.next), indent)

-----------------------------------------------------------------------------
(* UTF-8.                                                                  *)

Continues(c) == c \div 64 = 2   \* (c & 0xc0) == 0x80
(* How many bytes a character has that begins with c, 0 if none does.      *)
LengthBy(c) ==
  IF c < 128 THEN 1 ELSE IF c \div 32 = 6 THEN 2 ELSE IF c \div 16 = 14 THEN 3
  ELSE IF c \div 8 = 30 THEN 4 ELSE 0
LeadBits(c, n) == IF n = 1 THEN c ELSE c % (2 ^ (7 - n))

(* Mutant: a character may be longer than it need be.                      *)
AnyLength(u, n) == u <= 1114111

(* u needs n bytes, and is a code point.                                   *)
NeedsLength(u, n) ==
  CASE n = 1 -> TRUE [] n = 2 -> u >= 128 [] n = 3 -> u >= 2048 [] n = 4 -> u >= 65536 /\ u <= 1114111

(* The scan of is_valid_utf8_string: of a character of n bytes, k are      *)
(* still to come, and u are its bits so far.                               *)
Between == [ok |-> TRUE, n |-> 0, k |-> 0, u |-> 0]
Refused == [ok |-> FALSE, n |-> 0, k |-> 0, u |-> 0]
Begun(c) ==
  LET n == LengthBy(c)
  IN IF n = 0 THEN Refused ELSE [ok |-> TRUE, n |-> n, k |-> n - 1, u |-> LeadBits(c, n)]
Continued(st, c) ==
  LET u == 64 * st.u + (c % 64)
  IN IF ~Continues(c) \/ (st.k = 1 /\ ~NeedsLength(u, st.n)) THEN Refused
     ELSE [ok |-> TRUE, n |-> st.n, k |-> st.k - 1, u |-> u]
Scanned(st, c) == IF ~st.ok THEN Refused ELSE IF st.k = 0 THEN Begun(c) ELSE Continued(st, c)

is_valid_utf8_string(s) ==
  LET scan[i \in 0 .. Len(s)] == IF i = 0 THEN Between ELSE Scanned(scan[i - 1], s[i])
  IN scan[Len(s)].ok /\ scan[Len(s)].k = 0

(* The bits of the n bytes at i.                                           *)
Gather(s, i, n) ==
  LET u[k \in 1 .. n] == IF k = 1 THEN LeadBits(Byte(s, i), n) ELSE 64 * u[k - 1] + (Byte(s, i + k - 1) % 64)
  IN u[n]

(* The character at i of a string that has been checked.                   *)
utf8_to_utf32(s, i) ==
  LET c == Byte(s, i)
      n == IF c = 0 THEN 0 ELSE IF LengthBy(c) = 0 THEN 1 ELSE LengthBy(c)
  IN [n |-> n, u |-> IF n = 0 THEN 0 ELSE IF LengthBy(c) = 0 THEN c ELSE Gather(s, i, n)]

(* pcc_get_char_as_utf32 of a generated parser, at i of its input; n is 0  *)
(* where there is no character.                                            *)
pcc_get_char_as_utf32(input, i) ==
  LET n == LengthBy(Byte(input, i))
      there == i \in DOMAIN input /\ n > 0 /\ i + n - 1 <= Len(input)
      good == \A k \in 1 .. n - 1 : Continues(input[i + k])
  IN IF there /\ good /\ NeedsLength(Gather(input, i, n), n) THEN [n |-> n, u |-> Gather(input, i, n)]
     ELSE [n |-> 0, u |-> 0]

(* The bytes that unescape_string makes of code point u.                   *)
Encoded(u) ==
  IF u < 128 THEN <<u>>
  ELSE IF u < 2048 THEN <<192 + u \div 64, 128 + (u % 64)>>
  ELSE IF u < 65536 THEN <<224 + u \div 4096, 128 + ((u \div 64) % 64), 128 + (u % 64)>>
  ELSE <<240 + u \div 262144, 128 + ((u \div 4096) % 64), 128 + ((u \div 64) % 64), 128 + (u % 64)>>

-----------------------------------------------------------------------------
(* Escape sequences.  Bytes are named by the characters of ASCII.          *)

Backslash == 92
LetterX   == 120
LetterU   == 117

(* What e behind a backslash stands for, if it is one byte.                *)
Simple(e) ==
  CASE e = 39 -> 39 [] e = 34 -> 34 [] e = 48 -> 0 [] e = 97 -> 7 [] e = 98 -> 8 [] e = 102 -> 12
    [] e = 110 -> 10 [] e = 114 -> 13 [] e = 116 -> 9 [] e = 118 -> 11 [] OTHER -> VOID

HexValue(c) ==
  IF c \in 48 .. 57 THEN c - 48 ELSE IF c \in 97 .. 102 THEN c - 87
  ELSE IF c \in 65 .. 70 THEN c - 55 ELSE VOID

(* How many of the max bytes at i are hexadecimal digits in a row, and     *)
(* what the n digits at i are worth.                                       *)
HexDigits(s, i, max) ==
  CHOOSE n \in 0 .. max : /\ \A k \in 0 .. n - 1 : HexValue(Byte(s, i + k)) # VOID
                          /\ n < max => HexValue(Byte(s, i + n)) = VOID
HexNumber(s, i, n) ==
  LET v[k \in 0 .. n] == IF k = 0 THEN 0 ELSE 16 * v[k - 1] + HexValue(s[i + k - 1]) IN v[n]

HighSurrogate(v) == v \div 1024 = 54
LowSurrogate(v)  == v \div 1024 = 55

(* The code point of the four digits at i, or of two surrogates, the       *)
(* second escaped like the first.                                          *)
PairAt(s, i) == /\ Byte(s, i + 4) = Backslash /\ Byte(s, i + 5) = LetterU
                /\ HexDigits(s, i + 6, 4) = 4 /\ LowSurrogate(HexNumber(s, i + 6, 4))
CodePoint(s, i) ==
  LET v == HexNumber(s, i, 4)
  IN IF ~HighSurrogate(v) THEN v
     ELSE ((v % 1024) + 64) * 1024 + (HexNumber(s, i + 6, 4) % 1024)
Surrogates(s, i) == HighSurrogate(HexNumber(s, i, 4))

(* The state of the loop of unescape_string: i is the next byte to read,   *)
(* out what has been written in its place, ok the result b so far; end     *)
(* says that the function has returned.                                    *)
Went(st, i, bytes) == [st EXCEPT !.i = i, !.out = @ \o bytes]
Failed(st)         == [st EXCEPT !.ok = FALSE]
Ended(st)          == [st EXCEPT !.ok = FALSE, !.end = TRUE]

(* Mutant: the end of the string is not looked for.                        *)
KeptRunning(st, s, n, missing) ==
  Failed(Went(st, st.i + n + 3, [k \in 1 .. n + 3 |-> Byte(s, st.i + k - 1)]))

(* The escape sequence at st.i is kept as it is, with its n good digits    *)
(* and the byte behind them, be it the terminating zero.  Only where a     *)
(* digit is missing does the code look for the zero.                       *)
Kept(st, s, n, missing) ==
  LET bytes == [k \in 1 .. n + 3 |-> Byte(s, st.i + k - 1)]
  IN IF missing /\ bytes[n + 3] = 0 THEN Ended(Went(st, st.i + n + 2, SubSeq(bytes, 1, n + 2)))
     ELSE Failed(Went(st, st.i + n + 3, bytes))

EscapeX(st, s) ==
  LET n == HexDigits(s, st.i + 2, 2)
  IN IF n = 2 THEN Went(st, st.i + 4, <<HexNumber(s, st.i + 2, 2)>>) ELSE Kept(st, s, n, TRUE)

(* Mutant: half of a pair of surrogates is a character.                    *)
EscapeHalf(st, s) ==
  LET d == st.i + 2
      n == HexDigits(s, d, 4)
  IN IF n < 4 THEN Kept(st, s, n, TRUE) ELSE Went(st, d + 4, Encoded(HexNumber(s, d, 4)))

EscapeU(st, s) ==
  LET d == st.i + 2
      n == HexDigits(s, d, 4)
  IN IF n < 4 THEN Kept(st, s, n, TRUE)
     ELSE IF LowSurrogate(HexNumber(s, d, 4)) \/ (Surrogates(s, d) /\ ~PairAt(s, d))
     THEN Kept(st, s, n, FALSE)
     ELSE Went(st, IF Surrogates(s, d) THEN d + 10 ELSE d + 4, Encoded(CodePoint(s, d)))

UnescapeStep(st, s, cls) ==
  LET c == Byte(s, st.i)
      e == Byte(s, st.i + 1)
  IN IF c # Backslash THEN Went(st, st.i + 1, <<c>>)
     ELSE IF e = 0 THEN Ended(Went(st, st.i + 1, <<Backslash>>))
     ELSE CASE Simple(e) # VOID -> Went(st, st.i + 2, <<Simple(e)>>)
            [] e = LetterX      -> EscapeX(st, s)
            [] e = LetterU      -> EscapeU(st, s)
            [] e = 10           -> Went(st, st.i + 2, <<>>)
            [] e = 13           -> Went(st, IF Byte(s, st.i + 2) = 10 THEN st.i + 3 ELSE st.i + 2, <<>>)
            [] e = Backslash    -> Went(st, st.i + 2, IF cls THEN <<Backslash, Backslash>> ELSE <<Backslash>>)
            [] OTHER            -> Went(st, st.i + 2, <<Backslash, e>>)

(* The loop has read and written no further than the terminating zero of  *)
(* s, and never written what it was still to read.                         *)
Within(st, s) == st.i <= Len(s) + 1 /\ Len(st.out) < st.i

(* What is left of bytes for one who reads a C string: those before the    *)
(* first zero.                                                             *)
UpToZero(s) ==
  SubSeq(s, 1, CHOOSE n \in 0 .. Len(s) : (\A k \in 1 .. n : s[k] # 0) /\ (n < Len(s) => s[n + 1] = 0))

(* No round reads less than one byte, so that there are Len(s) at most.    *)
unescape_string(s, cls) ==
  LET after[k \in 0 .. Len(s)] ==
        IF k = 0 THEN [i |-> 1, out |-> <<>>, ok |-> TRUE, end |-> FALSE]
        ELSE LET st == after[k - 1]
             IN IF st.end \/ ~Within(st, s) \/ st.i > Len(s) THEN st ELSE UnescapeStep(st, s, cls)
      last == after[Len(s)]
  IN [ok |-> last.ok, out |-> UpToZero(last.out), inside |-> Within(last, s)]

(* The byte that stands for v < 16.                                        *)
HexDigit(v) == IF v < 10 THEN 48 + v ELSE 87 + v

escape_character(ch) ==
  IF ch = Backslash THEN <<Backslash, Backslash>>
  ELSE IF \E e \in 1 .. 255 : Simple(e) = ch
  THEN <<Backslash, CHOOSE e \in 1 .. 255 : Simple(e) = ch>>
  ELSE IF ch \in 32 .. 126 THEN <<ch>>
  ELSE <<Backslash, LetterX, HexDigit(ch \div 16), HexDigit(ch % 16)>>

-----------------------------------------------------------------------------
(* The names of the output files; a path is a sequence of characters.      *)

Parting == {"/", "\\", ":"}

(* Where the extension of a path begins: at its last dot, if no directory  *)
(* follows it.                                                             *)
extract_fileext(path) ==
  LET ends == {i \in DOMAIN path : path[i] \in Parting \cup {"."}}
      last == CHOOSE i \in ends : \A j \in ends : j <= i
  IN IF ends # {} /\ path[last] = "." THEN last ELSE Len(path) + 1

(* Mutant: the last dot, wherever it is.                                   *)
AfterLastDot(path, ext) ==
  LET dots == {i \in DOMAIN path : path[i] = "."}
  IN (IF dots = {} THEN path ELSE SubSeq(path, 1, (CHOOSE i \in dots : \A j \in dots : j <= i) - 1))
     \o <<".", ext>>

replace_fileext(path, ext) == SubSeq(path, 1, extract_fileext(path) - 1) \o <<".", ext>>
add_fileext(path, ext)     == path \o <<".", ext>>

(* create_context's names of the source and the header, for the input and  *)
(* the option -o.                                                          *)
OutputName(iname, oname, ext) ==
  LET path == IF iname # <<>> THEN iname ELSE <<"-">>
  IN IF oname # <<>> THEN add_fileext(oname, ext) ELSE replace_fileext(path, ext)
=============================================================================
