------------------------------ MODULE PegLexer ------------------------------
(***************************************************************************)
(* The matchers of match.c over the input buffer of context_t.             *)
(*                                                                         *)
(* A context is a record.  Of the file, txt is the part read so far and    *)
(* still to be read; what has been committed lies before bufpos, and       *)
(* bufcur counts from there.  Reading ahead (refill_buffer) fetches        *)
(* characters and changes nothing else, so that a context knows the whole  *)
(* file.  A character is a string of length one, and a directive's name is *)
(* one symbol.                                                             *)
(*                                                                         *)
(* A matcher takes a context to the context behind what it matches, and to *)
(* the context itself when it fails: every match takes a character.        *)
(***************************************************************************)
EXTENDS Naturals, Integers, Sequences

CR == "\r"
LF == "\n"

Blanks  == {" ", "\t", "\f"}
Letters == {"a", "b", "c", "d", "r", "_"}
Digits  == {"0", "1", "2", "9.."}   \* the last one for a long run of digits

Here(c)        == c.bufpos + c.bufcur
Peek(c)        == IF Here(c) < Len(c.txt) THEN c.txt[Here(c) + 1] ELSE "eof"
Slice(b, c)    == SubSeq(c.txt, Here(b) + 1, Here(c))
Matched(b, c)  == b.bufcur # c.bufcur
Err(c)         == [c EXCEPT !.errnum = @ + 1]
column_number(c) == c.bufpos + c.bufcur - c.linepos

(* The first of the matches cs of context c that is one, as with C's ||.   *)
FirstOf(c, cs) ==
  IF \E k \in DOMAIN cs : Matched(c, cs[k])
  THEN cs[CHOOSE k \in DOMAIN cs : Matched(c, cs[k]) /\ \A m \in 1 .. k - 1 : ~Matched(c, cs[m])]
  ELSE c

(* A buffer whose first bufcur characters have been dropped.               *)
commit_buffer(c) == [c EXCEPT !.bufpos = @ + c.bufcur, !.bufcur = 0]

-----------------------------------------------------------------------------
match_eof(c)              == Peek(c) = "eof"
match_character_any(c)    == IF match_eof(c) THEN c ELSE [c EXCEPT !.bufcur = @ + 1]
match_character_set(c, S) == IF Peek(c) \in S THEN match_character_any(c) ELSE c
match_character(c, ch)    == match_character_set(c, {ch})
match_string(c, w) ==
  IF /\ Here(c) + Len(w) <= Len(c.txt)
     /\ SubSeq(c.txt, Here(c) + 1, Here(c) + Len(w)) = w
  THEN [c EXCEPT !.bufcur = @ + Len(w)]
  ELSE c

LineEnded(c) == [c EXCEPT !.linenum = @ + 1, !.linepos = Here(c)]

match_eol(c) ==
  IF Peek(c) = LF THEN LineEnded(match_character_any(c))
  ELSE IF Peek(c) = CR THEN LineEnded(match_character(match_character_any(c), LF))
  ELSE c

(* while (match...) ;                                                      *)
RECURSIVE Many(_, _)
Many(c, S) == LET d == match_character_set(c, S) IN IF Matched(c, d) THEN Many(d, S) ELSE c

match_number(c) == Many(c, Digits)
match_identifier(c) ==
  LET d == match_character_set(c, Letters) IN IF Matched(c, d) THEN Many(d, Letters \cup Digits) ELSE c

-----------------------------------------------------------------------------
(* To the end of the line; to the first end of a line that no backslash    *)
(* continues; to the string right.                                         *)
RECURSIVE ToLineEnd(_)
ToLineEnd(c) ==
  IF match_eof(c) \/ Matched(c, match_eol(c)) THEN match_eol(c) ELSE ToLineEnd(match_character_any(c))

RECURSIVE ToUncontinued(_)
ToUncontinued(c) ==
  LET d == match_eol(c) IN
  IF match_eof(c) THEN c
  ELSE IF ~Matched(c, d) THEN ToUncontinued(match_character_any(c))
  ELSE IF c.txt[Here(c)] # "\\" THEN d ELSE ToUncontinued(d)

RECURSIVE ToRight(_, _)
ToRight(c, right) ==
  LET d == match_string(c, right) IN
  IF Matched(c, d) THEN d
  ELSE IF match_eof(c) THEN Err(c)      \* Premature EOF
  ELSE ToRight(FirstOf(c, <<match_eol(c), match_character_any(c)>>), right)

(* The rest of a quotation: a backslash takes the next character, or the   *)
(* next end of line, along; any other end of line ends the quotation.      *)
RECURSIVE ToQuote(_, _)
ToQuote(c, right) ==
  LET d == match_character(c, right)
      e == match_character(c, "\\")
  IN IF Matched(c, d) THEN d
     ELSE IF match_eof(c) THEN Err(c)   \* Premature EOF
     ELSE IF Matched(c, e) THEN ToQuote(FirstOf(e, <<match_eol(e), match_character_any(e)>>), right)
     ELSE IF Matched(c, match_eol(c)) THEN Err(match_eol(c))  \* Premature EOL
     ELSE ToQuote(match_character_any(c), right)

Opened(c, left, rest(_)) == LET d == match_string(c, left) IN IF Matched(c, d) THEN rest(d) ELSE c

match_section_line_(c, head)             == Opened(c, head, ToLineEnd)
match_section_line_continuable_(c, head) == Opened(c, head, ToUncontinued)
match_section_block_(c, left, right)     == Opened(c, left, LAMBDA d : ToRight(d, right))
match_quotation_(c, left, right)         == Opened(c, <<left>>, LAMBDA d : ToQuote(d, right))

match_directive_c(c)      == match_section_line_continuable_(c, <<"#">>)
match_comment(c)          == match_section_line_(c, <<"#">>)
match_comment_c(c)        == match_section_block_(c, <<"/", "*">>, <<"*", "/">>)
match_comment_cxx(c)      == match_section_line_(c, <<"/", "/">>)
match_quotation_single(c) == match_quotation_(c, "'", "'")
match_quotation_double(c) == match_quotation_(c, "\"", "\"")
match_character_class(c)  == match_quotation_(c, "[", "]")
match_footer_start(c)     == match_string(c, <<"%", "%">>)

(* Mutant: a comment is not blank.                                         *)
RECURSIVE BlanksOnly(_)
BlanksOnly(c) ==
  LET d == FirstOf(c, <<match_character_set(c, Blanks), match_eol(c)>>)
  IN IF Matched(c, d) THEN BlanksOnly(d) ELSE c

RECURSIVE match_spaces(_)
match_spaces(c) ==
  LET d == FirstOf(c, <<match_character_set(c, Blanks), match_eol(c), match_comment(c)>>)
  IN IF Matched(c, d) THEN match_spaces(d) ELSE c

(* The rest of a code block, depth braces deep.  A dollar sign becomes an  *)
(* underscore in the buffer itself.                                        *)
RECURSIVE ToBrace(_, _)
ToBrace(c, depth) ==
  LET skipped == FirstOf(c, <<match_directive_c(c), match_comment_c(c), match_comment_cxx(c),
                              match_quotation_single(c), match_quotation_double(c)>>)
      next == FirstOf(c, <<match_eol(c), match_character_any(c)>>)
  IN IF match_eof(c) THEN Err(c)        \* Premature EOF
     ELSE IF Matched(c, skipped) THEN ToBrace(skipped, depth)
     ELSE CASE Peek(c) = "{" -> ToBrace(next, depth + 1)
            [] Peek(c) = "}" -> IF depth = 1 THEN next ELSE ToBrace(next, depth - 1)
            [] Peek(c) = "$" -> ToBrace([next EXCEPT !.txt[Here(next)] = "_"], depth)
            [] OTHER -> ToBrace(next, depth)

match_code_block(c) == Opened(c, <<"{">>, LAMBDA d : ToBrace(d, 1))
=============================================================================
