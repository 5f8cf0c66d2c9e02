------------------------------ MODULE PegParser -----------------------------
(***************************************************************************)
(* The recursive-descent parser of the PEG notation in parse.c, with the   *)
(* nodes it creates and destroys (node.c).                                 *)
(*                                                                         *)
(* Nodes live on a heap that only grows; a node is known by its index, 0   *)
(* being the null pointer, and the destroyed ones are the set dead, so     *)
(* that a pointer that outlives its node shows.  The field nodes of a node *)
(* holds its children, the one of an expr or those of a node array.  How   *)
(* often a rule is referred to, its field ref, is kept in RuleHash.        *)
(*                                                                         *)
(* A parsing function takes the context where it starts and the rule being *)
(* parsed to a result: the context it leaves and a node, or NULL.          *)
(***************************************************************************)
EXTENDS PegLexer, FiniteSets

NULL == 0
VOID == -1   \* VOID_VALUE
Huge == "9.."   \* a run of digits beyond the range of size_t

Range1(seq) == {seq[k] : k \in DOMAIN seq}

(***************************************************************************)
(* Contexts.  faults collects the uses of memory that C leaves undefined:  *)
(* "stale", a destroyed node read; "double", one destroyed again;          *)
(* "length", a length below zero, which size_t wraps.                      *)
(***************************************************************************)
NewContext(txt, ascii) ==
  [txt |-> txt, bufpos |-> 0, bufcur |-> 0, linenum |-> 0, linepos |-> 0, errnum |-> 0,
   ascii |-> ascii, heap |-> <<>>, dead |-> {}, faults |-> {}, utf8 |-> FALSE]

ErrIf(b, c)   == IF b THEN Err(c) ELSE c
FaultIf(b, f, c) == IF b THEN [c EXCEPT !.faults = @ \cup {f}] ELSE c

Result(c, n)  == [c |-> c, n |-> n]

create_node(c, node) == Result([c EXCEPT !.heap = Append(@, node)], Len(c.heap) + 1)

Leaf(type)       == [type |-> type, nodes |-> <<>>]
Parent(type, ns) == [type |-> type, nodes |-> ns]

(* A node and all below it.                                                *)
RECURSIVE Tree(_, _)
Tree(h, n) == {n} \cup UNION {Tree(h, m) : m \in Range1(h[n].nodes)}

destroy_node(c, n) ==
  IF n = NULL THEN c
  ELSE LET t == Tree(c.heap, n)
       IN FaultIf(t \cap c.dead # {}, "double", [c EXCEPT !.dead = @ \cup t])

(* Mutant: the place of the current line is not restored.                  *)
RewoundOnTheLine(b, c) == [c EXCEPT !.bufcur = b.bufcur, !.linenum = b.linenum]

(* Back to where the context was b.                                        *)
Rewound(b, c) ==
  [c EXCEPT !.bufcur = b.bufcur, !.linenum = b.linenum,
            !.linepos = c.bufpos + b.bufcur - column_number(b)]

(* EXCEPTION: destroy the node under construction, and back.               *)
Exception(b, c, n) == Result(Rewound(b, destroy_node(c, n)), NULL)

-----------------------------------------------------------------------------
RECURSIVE parse_primary(_, _)
RECURSIVE parse_term(_, _)
RECURSIVE parse_sequence(_, _)
RECURSIVE parse_expression(_, _)
RECURSIVE MoreTerms(_, _, _, _)
RECURSIVE MoreSequences(_, _, _, _)

(* The text between the first and the last character of what lies between  *)
(* b and c: its length is c - b - 2, also when the end of the file has cut *)
(* the last character off.                                                 *)
Inside(b, c) == SubSeq(c.txt, Here(b) + 2, Here(c) - 1)
CutShort(b, c) == Here(c) - Here(b) < 2

(* A literal with an escape sequence that unescape_string refuses, or with *)
(* what is_valid_utf8_string does.                                         *)
IllegalEscape(v) == "badescape" \in Range1(v)
InvalidUtf8(c, v) == ~c.ascii /\ "badbyte" \in Range1(v)

Literal(b, c, type) ==
  LET v == Inside(b, c)
      d == ErrIf(InvalidUtf8(c, v), ErrIf(IllegalEscape(v), FaultIf(CutShort(b, c), "length", c)))
      e == [d EXCEPT !.utf8 = @ \/ (type = "charclass" /\ ~c.ascii /\ v # <<>>)]
  IN create_node(e, [type |-> type, nodes |-> <<>>, value |-> v])

(* string_to_size_t, for numbers that fit and one that does not.           *)
RECURSIVE NumberOf(_)
NumberOf(s) ==
  IF s = <<>> THEN 0
  ELSE IF Huge \in Range1(s) THEN VOID
  ELSE 10 * NumberOf(SubSeq(s, 1, Len(s) - 1))
       + (CASE s[Len(s)] = "0" -> 0 [] s[Len(s)] = "1" -> 1 [] s[Len(s)] = "2" -> 2)

(* Mutant: the variables of the rule are counted, not looked up.           *)
NextVariable(c, r, var) == Len(c.heap[r].vars)

(* The index of variable var in rule r: that of its first use.             *)
VariableIndex(c, r, var) ==
  LET vs == c.heap[r].vars
      same == {i \in DOMAIN vs : c.heap[vs[i]].var = var}
  IN IF same = {} THEN Len(vs) ELSE (CHOOSE i \in same : \A j \in same : i <= j) - 1

(* The variables that the search for var reads include a destroyed one.    *)
ReadsStale(c, r, var) ==
  LET vs == c.heap[r].vars
  IN \E i \in DOMAIN vs : i <= VariableIndex(c, r, var) + 1 /\ vs[i] \in c.dead

(* A reference with a variable: the first one with it is kept in the rule. *)
NamedReference(c, ref, r) ==
  LET i == VariableIndex(c, r, ref.var)
      n == create_node(FaultIf(ReadsStale(c, r, ref.var), "stale", ErrIf(ref.var[1] = "_", c)),
                       [ref EXCEPT !.index = i])
  IN IF i < Len(c.heap[r].vars) THEN n
     ELSE Result([n.c EXCEPT !.heap[r].vars = Append(@, n.n)], n.n)

(* A reference to the identifier between g and h.                          *)
ReferenceTo(b, g, h, var, r) ==
  LET c == match_spaces(h)
      ref == [type |-> "reference", nodes |-> <<>>, var |-> var, index |-> VOID,
              name |-> Slice(g, h), rule |-> NULL,
              place |-> [line |-> b.linenum, col |-> column_number(b)]]
  IN IF ~Matched(g, h) \/ Matched(c, match_string(c, <<"<", "-">>)) THEN Exception(b, c, NULL)
     ELSE IF var = <<>> THEN create_node(c, ref)
     ELSE NamedReference(c, ref, r)

(* identifier (':' identifier)?, not before an arrow; d is behind the first *)
(* identifier.                                                             *)
ParseReference(b, d, r) ==
  LET e == match_spaces(d)
      f == match_character(e, ":")
      g == match_spaces(f)
  IN IF Matched(e, f) THEN ReferenceTo(b, g, match_identifier(g), Slice(b, d), r)
     ELSE ReferenceTo(b, b, d, <<>>, r)

(* '$' number; d is behind the dollar sign.                                *)
ParseExpand(b, d) ==
  LET p == match_spaces(d)
      q == match_number(p)
      k == NumberOf(Slice(p, q))
      expand(c, i) == create_node(c, [type |-> "expand", nodes |-> <<>>, index |-> i])
  IN IF ~Matched(p, q) THEN Exception(b, q, NULL)
     ELSE IF k = VOID THEN expand(Err(match_spaces(q)), VOID)
     ELSE IF k = 0 \/ Peek(p) = "0" THEN expand(Err(match_spaces(q)), 0)
     ELSE expand(match_spaces(q), k - 1)

CodeAdded(n, r) == Result([n.c EXCEPT !.heap[r].codes = Append(@, n.n)], n.n)

(* A code block becomes an action, or the error action of node expr; b is  *)
(* before its brace, d behind it.                                          *)
NewCode(b, d, r, type, expr) ==
  CodeAdded(create_node(FaultIf(CutShort(b, d), "length", match_spaces(d)),
                        [type |-> type, nodes |-> expr, value |-> Inside(b, d),
                         index |-> Len(d.heap[r].codes), vars |-> <<>>, capts |-> <<>>]), r)

(* A capture that fails takes itself and those inside off the rule's list. *)
CaptureDropped(c, r, n) ==
  [c EXCEPT !.heap[r].capts = SubSeq(@, 1, c.heap[n].index)]

-----------------------------------------------------------------------------
(* A node and the blanks behind it.                                        *)
Spaced(e) == Result(match_spaces(e.c), e.n)

(* e and the closing parenthesis.                                          *)
Parenthesized(b, e) ==
  LET d == match_character(e.c, ")")
  IN IF e.n = NULL \/ ~Matched(e.c, d) THEN Exception(b, e.c, e.n)
     ELSE Result(match_spaces(d), e.n)

ParseParenthesis(b, r) == Parenthesized(b, parse_expression(match_spaces(match_character_any(b)), r))

(* Capture node n with what it captures, e, and the closing bracket.       *)
Captured(b, n, e, r) ==
  LET c == IF e.n = NULL THEN e.c ELSE [e.c EXCEPT !.heap[n].nodes = <<e.n>>]
      d == match_character(c, ">")
  IN IF e.n = NULL \/ ~Matched(c, d) THEN Exception(b, CaptureDropped(c, r, n), n)
     ELSE Result(match_spaces(d), n)

CaptureFrom(b, new, r) ==
  Captured(b, new.n, parse_expression([new.c EXCEPT !.heap[r].capts = Append(@, new.n)], r), r)

ParseCapture(b, r) ==
  CaptureFrom(b, create_node(match_spaces(match_character_any(b)),
                   [type |-> "capture", nodes |-> <<>>, index |-> Len(b.heap[r].capts)]), r)

(* The first character tells what it is.                                   *)
parse_primary(b, r) ==
  LET ch == Peek(b)
      any == match_character_any(b)
  IN CASE ch \in Letters -> ParseReference(b, match_identifier(b), r)
       [] ch = "("       -> ParseParenthesis(b, r)
       [] ch = "<"       -> ParseCapture(b, r)
       [] ch = "$"       -> ParseExpand(b, any)
       [] ch = "."       -> create_node([match_spaces(any) EXCEPT !.utf8 = @ \/ ~b.ascii],
                                        [type |-> "charclass", nodes |-> <<>>, value |-> <<"any">>])
       [] ch = "["       -> Spaced(Literal(b, match_character_class(b), "charclass"))
       [] ch = "'"       -> Spaced(Literal(b, match_quotation_single(b), "string"))
       [] ch = "\""      -> Spaced(Literal(b, match_quotation_double(b), "string"))
       [] ch = "{"       -> NewCode(b, match_code_block(b), r, "action", <<>>)
       [] OTHER          -> Exception(b, b, NULL)

(* Mutant: the operand of a failed term is not destroyed.                  *)
Leaked(b, c, n) == Result(Rewound(b, c), NULL)

(* A term that fails behind its operand n.                                 *)
TermFailed(b, c, n) == Exception(b, c, n)

(* n, or a node of type that has it as its operand.                        *)
Wrapped(c, n, type) == IF type = "none" THEN Result(c, n) ELSE create_node(c, Parent(type, <<n>>))

Repeated(e) ==
  LET u == match_character_set(e.c, {"*", "+", "?"})
  IN IF Matched(e.c, u) THEN Wrapped(match_spaces(u), e.n, Peek(e.c)) ELSE e

ErrorCode(b, n, w, d, r) ==
  IF Matched(w, d) THEN NewCode(w, d, r, "error", <<n>>) ELSE TermFailed(b, w, n)

(* The operand p, or what a tilde and a code block make of it.             *)
WithErrorAction(b, p, r) ==
  LET v == match_character(p.c, "~")
      w == match_spaces(v)
  IN IF Matched(p.c, v) THEN ErrorCode(b, p.n, w, match_code_block(w), r) ELSE p

Prefixed(b, t, q) == IF Matched(b, t) THEN Wrapped(q.c, q.n, Peek(b)) ELSE q

TermOf(b, t, e, r) ==
  IF e.n = NULL THEN Exception(b, e.c, NULL)
  ELSE WithErrorAction(b, Prefixed(b, t, Repeated(e)), r)

parse_term(b, r) ==
  LET t == match_character_set(b, {"&", "!"})
  IN TermOf(b, t, parse_primary(IF Matched(b, t) THEN match_spaces(t) ELSE b, r), r)

(* One node alone, or several below one of their own.  That one is made    *)
(* when the second is there; here, where it makes no difference, at the    *)
(* end.                                                                    *)
Together(c, type, ns) == IF Len(ns) = 1 THEN Result(c, ns[1]) ELSE create_node(c, Parent(type, ns))

(* The terms ns and those from t on.                                       *)
WithTerm(b, ns, t, r) ==
  IF t.n # NULL THEN MoreTerms(b, t.c, Append(ns, t.n), r)
  ELSE IF ns = <<>> THEN Exception(b, t.c, NULL)
  ELSE Together(t.c, "sequence", ns)

MoreTerms(b, c, ns, r) == WithTerm(b, ns, parse_term(c, r), r)

parse_sequence(b, r) == MoreTerms(b, b, <<>>, r)

(* The sequences ns and those from s on.  When one fails, those before it  *)
(* are destroyed.                                                          *)
WithSequence(b, ns, s, r) ==
  LET d == match_character(s.c, "/")
      dropped == create_node(s.c, Parent("alternate", ns))
  IN IF s.n = NULL
     THEN IF ns = <<>> THEN Exception(b, s.c, NULL) ELSE Exception(b, dropped.c, dropped.n)
     ELSE IF Matched(s.c, d) THEN MoreSequences(b, match_spaces(d), Append(ns, s.n), r)
     ELSE Together(s.c, "alternate", Append(ns, s.n))

MoreSequences(b, c, ns, r) == WithSequence(b, ns, parse_sequence(c, r), r)

parse_expression(b, r) == MoreSequences(b, b, <<>>, r)

RuleOf(b, n, e) ==
  IF e.n = NULL THEN Exception(b, e.c, n) ELSE Result([e.c EXCEPT !.heap[n].nodes = <<e.n>>], n)

parse_rule(b) ==
  LET p == match_identifier(b)
      q == match_spaces(p)
      d == match_string(q, <<"<", "-">>)
      new == create_node(match_spaces(d),
               [type |-> "rule", nodes |-> <<>>, name |-> Slice(b, p),
                vars |-> <<>>, capts |-> <<>>, codes |-> <<>>,
                place |-> [line |-> b.linenum, col |-> column_number(b)]])
  IN IF ~Matched(b, p) \/ ~Matched(q, d) THEN Exception(b, q, NULL)
     ELSE RuleOf(b, new.n, parse_expression(new.c, new.n))
=============================================================================
