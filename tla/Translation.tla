---------------------------- MODULE Translation ----------------------------
(***************************************************************************)
(* A run of packcc from the grammar's text to the output files: parse() in *)
(* parse.c, the linking and verification in context.c, and the frame of    *)
(* generate() in generate.c as main() calls them.                          *)
(*                                                                         *)
(* The steps of main() and the table of rules are those of Packcc, with    *)
(* what the text of a grammar makes of them.  What generate() writes of    *)
(* the rules is the subject of PackGenerate; here the files are followed   *)
(* from their opening to their closing or removal, and the footer          *)
(* character by character.                                                 *)
(***************************************************************************)
EXTENDS PegParser, Packcc

CONSTANTS
  Inputs,      \* the runs: the text of a grammar and whether -a is given
  BufferMax    \* ctx->buffer.max

ASSUME BufferAssumption == BufferMax \in Nat /\ BufferMax > 1

VARIABLES
  input,    \* the member of Inputs
  rules,    \* ctx->rules
  loud,     \* b of parse(): an illegal rule is still to be reported
  texts,    \* ctx->esource, eheader, source and header, as the blocks they hold
  strs,     \* ctx->vtype, atype and prefix, <<>> for none given
  todo,     \* references that are still to be linked
  footer    \* what has been copied behind the code

progVars  == <<phase, ctx, rules, loud, texts, strs, todo, checked, files, footer, status>>
transVars == <<input, progVars, hashVars>>

Init ==
  /\ input \in Inputs
  /\ ctx = NewContext(input.txt, input.ascii)
  /\ PackccInit
  /\ rules = <<>> /\ loud = TRUE
  /\ texts = [o \in {"esource", "eheader", "source", "header"} |-> <<>>]
  /\ strs = [o \in {"vtype", "atype", "prefix"} |-> <<>>]
  /\ todo = <<>> /\ footer = <<>>

Quiet == UNCHANGED <<input, ctx, rules, loud, texts, strs, todo, footer>>

-----------------------------------------------------------------------------
(* The directives.                                                         *)

IncludeOf(d) ==
  CASE d = "%earlysource" -> <<"esource">>
    [] d = "%earlyheader" -> <<"eheader">>
    [] d = "%earlycommon" -> <<"esource", "eheader">>
    [] d = "%source"      -> <<"source">>
    [] d = "%header"      -> <<"header">>
    [] d = "%common"      -> <<"source", "header">>
    [] OTHER              -> <<>>

StringOf(d) ==
  CASE d = "%value" -> "vtype" [] d = "%auxil" -> "atype" [] d = "%prefix" -> "prefix" [] OTHER -> ""

(* What comes before the first directive or rule.                          *)
Start ==
  /\ phase = "start"
  /\ phase' = "rules" /\ ctx' = match_spaces(ctx)
  /\ UNCHANGED <<input, rules, loud, texts, strs, todo, checked, files, footer, status, hashVars>>

AtItem == phase = "rules" /\ ~match_eof(ctx) /\ ~Matched(ctx, match_footer_start(ctx))

(* parse_directive_include_.  A block that the end of the file has cut off *)
(* behind its brace has the length -1: there is no memory for it.          *)
Include ==
  LET outs == IncludeOf(Peek(ctx))
      b == match_spaces(match_character_any(ctx))
      d == match_code_block(b)
  IN /\ AtItem /\ outs # <<>>
     /\ IF Matched(b, d) /\ CutShort(b, d)
        THEN Exit(3) /\ ctx' = d /\ UNCHANGED texts
        ELSE /\ UNCHANGED <<phase, status>>
             /\ ctx' = commit_buffer(IF Matched(b, d) THEN match_spaces(d) ELSE Err(b))
             /\ texts' = [o \in DOMAIN texts |-> IF Matched(b, d) /\ o \in Range1(outs)
                                                 THEN Append(texts[o], Inside(b, d)) ELSE texts[o]]
     /\ loud' = TRUE
     /\ UNCHANGED <<input, rules, strs, todo, checked, files, footer, hashVars>>

Blank(ch)     == ch \in Blanks \cup {LF, CR}
Filled(v)     == \E k \in DOMAIN v : ~Blank(v[k])
Identifier(v) == v # <<>> /\ v[1] \in Letters /\ Range1(v) \subseteq Letters \cup Digits

(* Without the blanks at both ends.                                        *)
Stripped(v) ==
  LET inked == {k \in DOMAIN v : ~Blank(v[k])}
  IN IF inked = {} THEN <<>>
     ELSE SubSeq(v, CHOOSE k \in inked : \A m \in inked : k <= m,
                    CHOOSE k \in inked : \A m \in inked : k >= m)

(* parse_directive_string_                                                 *)
StringDirective ==
  LET o == StringOf(Peek(ctx))
      b == match_spaces(match_character_any(ctx))
      d == FirstOf(b, <<match_quotation_single(b), match_quotation_double(b)>>)
      v == Inside(b, d)
      s == Stripped(v)
      empty == ~Filled(s)
      wrong == IF o = "prefix" THEN ~empty /\ ~Identifier(s) ELSE s = <<"void">>
      twice == strs[o] # <<>>
      c == FaultIf(CutShort(b, d), "length", match_spaces(d))
  IN /\ AtItem /\ o # ""
     /\ IF Matched(b, d)
        THEN /\ ctx' = commit_buffer(ErrIf(IllegalEscape(v), ErrIf(empty, ErrIf(wrong, ErrIf(twice, c)))))
             /\ strs' = IF empty \/ wrong \/ twice THEN strs ELSE [strs EXCEPT ![o] = s]
        ELSE ctx' = commit_buffer(Err(b)) /\ UNCHANGED strs
     /\ loud' = TRUE
     /\ UNCHANGED <<input, phase, rules, texts, todo, checked, files, footer, status, hashVars>>

BadDirective ==
  LET d == Err(match_character(ctx, "%"))
  IN /\ AtItem /\ Peek(ctx) = "%"
     /\ ctx' = commit_buffer(match_spaces(match_identifier(d)))
     /\ loud' = TRUE
     /\ UNCHANGED <<input, phase, rules, texts, strs, todo, checked, files, footer, status, hashVars>>

-----------------------------------------------------------------------------
(* The rules.                                                              *)

AtRule == AtItem /\ IncludeOf(Peek(ctx)) = <<>> /\ StringOf(Peek(ctx)) = "" /\ Peek(ctx) # "%"

Rule ==
  LET r == parse_rule(ctx)
  IN /\ AtRule /\ r.n # NULL
     /\ ctx' = commit_buffer(r.c) /\ rules' = Append(rules, r.n) /\ loud' = TRUE
     /\ AddRule(r.c.heap[r.n].name)
     /\ UNCHANGED <<input, phase, texts, strs, todo, checked, files, footer, status>>

(* Mutant: what starts no rule is passed over only if it is an identifier  *)
(* or blank.                                                               *)
SkippedWords(c) == FirstOf(c, <<match_identifier(c), match_spaces(c)>>)

(* Where the search for the next rule goes on.                             *)
Skipped(c) == FirstOf(c, <<match_identifier(c), match_spaces(c), match_character_any(c)>>)

(* What cannot be a rule is reported once, and passed over.                *)
BadRule ==
  LET r == parse_rule(ctx)
      c == [ErrIf(loud, r.c) EXCEPT !.linenum = ctx.linenum,
                                    !.linepos = Here(ctx) - column_number(ctx)]
  IN /\ AtRule /\ r.n = NULL
     /\ ctx' = Skipped(c) /\ loud' = FALSE
     /\ UNCHANGED <<input, phase, rules, texts, strs, todo, checked, files, footer, status, hashVars>>

(* The references below node n, in the order of link_references.           *)
RECURSIVE References(_, _)
References(h, n) ==
  IF h[n].type = "reference" THEN <<n>>
  ELSE LET below[k \in 0 .. Len(h[n].nodes)] ==
             IF k = 0 THEN <<>> ELSE below[k - 1] \o References(h, h[n].nodes[k])
       IN below[Len(h[n].nodes)]

(* The end of the rules: the table is made.                                *)
EndOfRules ==
  LET h == ctx.heap
      all[k \in 0 .. Len(rules)] == IF k = 0 THEN <<>> ELSE all[k - 1] \o References(h, rules[k])
  IN /\ phase = "rules" /\ ~AtItem
     /\ phase' = "link" /\ ctx' = commit_buffer(match_footer_start(ctx))
     /\ todo' = all[Len(rules)]
     /\ MakeTable
     /\ UNCHANGED <<input, rules, loud, texts, strs, checked, files, footer, status>>

ProbeTable == phase = "link" /\ Probe /\ UNCHANGED <<input, progVars>>

LinkReference ==
  /\ phase = "link" /\ todo # <<>>
  /\ Lookup(ctx.heap[Head(todo)].name)
  /\ UNCHANGED <<input, progVars>>

(* Mutant: the reference is linked and not counted.                        *)
LinkedUncounted ==
  /\ phase = "link" /\ stage = "answer"
  /\ stage' = "ready"
  /\ ctx' = IF found = 0 THEN Err(ctx) ELSE [ctx EXCEPT !.heap[Head(todo)].rule = rules[found]]
  /\ todo' = Tail(todo)
  /\ UNCHANGED <<input, phase, rules, loud, texts, strs, checked, files, footer, status>>
  /\ UNCHANGED <<names, refs, slots, entry, sought, steps, found>>

Linked ==
  /\ phase = "link" /\ Count
  /\ ctx' = IF found = 0 THEN Err(ctx) ELSE [ctx EXCEPT !.heap[Head(todo)].rule = rules[found]]
  /\ todo' = Tail(todo)
  /\ UNCHANGED <<input, phase, rules, loud, texts, strs, checked, files, footer, status>>

(* Rules that are not used, or not the first of their name.                *)
CheckUses ==
  /\ phase = "link" /\ stage = "ready" /\ todo = <<>>
  /\ phase' = "verify"
  /\ ctx' = [ctx EXCEPT !.errnum = @ + Cardinality(Misused)]
  /\ UNCHANGED <<input, rules, loud, texts, strs, todo, checked, files, footer, status, hashVars>>

-----------------------------------------------------------------------------
(* verify_variables and verify_captures.  Both take a context, a node and  *)
(* an array of the nodes seen before it to the context and the array       *)
(* behind it; an action and an error action keep what they are given.      *)

Seen(c, v) == [c |-> c, v |-> v]

Has(h, v, n) == \E k \in DOMAIN v : h[v[k]].index = h[n].index

(* v and those of w's elements that are not there yet.                     *)
RECURSIVE Merged(_, _, _)
Merged(h, v, w) ==
  IF w = <<>> THEN v
  ELSE Merged(h, IF Has(h, v, Head(w)) THEN v ELSE Append(v, Head(w)), Tail(w))

Added(what, h, v, w) == IF what = "variables" THEN Merged(h, v, w) ELSE v \o w

RECURSIVE verify_variables(_, _, _)
RECURSIVE verify_captures(_, _, _)
Verified(what, c, n, v) ==
  IF what = "variables" THEN verify_variables(c, n, v) ELSE verify_captures(c, n, v)

(* The operand, or one element after the other.                            *)
RECURSIVE InOrder(_, _, _, _)
InOrder(what, c, ns, v) ==
  IF ns = <<>> THEN Seen(c, v)
  ELSE LET s == Verified(what, c, Head(ns), v) IN InOrder(what, s.c, Tail(ns), s.v)

(* Mutant: every branch also starts with what the branches before it saw.  *)
RECURSIVE BranchesShare(_, _, _, _, _)
BranchesShare(what, c, ns, start, v) ==
  IF ns = <<>> THEN Seen(c, v)
  ELSE LET s == Verified(what, c, Head(ns), v) IN BranchesShare(what, s.c, Tail(ns), start, s.v)

(* Every branch starts with start; v collects what they add to it.         *)
RECURSIVE Branches(_, _, _, _, _)
Branches(what, c, ns, start, v) ==
  IF ns = <<>> THEN Seen(c, v)
  ELSE LET s == Verified(what, c, Head(ns), start)
           new == SubSeq(s.v, Len(start) + 1, Len(s.v))
       IN Branches(what, s.c, Tail(ns), start, Added(what, s.c.heap, v, new))

Below(what, c, n, v) ==
  IF c.heap[n].type = "alternate" THEN Branches(what, c, c.heap[n].nodes, v, v)
  ELSE InOrder(what, c, c.heap[n].nodes, v)

verify_variables(c, n, v) ==
  LET node == c.heap[n]
  IN IF node.type = "reference"
     THEN Seen(c, IF node.index = VOID \/ Has(c.heap, v, n) THEN v ELSE Append(v, n))
     ELSE Below("variables",
                IF node.type \in {"action", "error"} THEN [c EXCEPT !.heap[n].vars = v] ELSE c, n, v)

verify_captures(c, n, v) ==
  LET node == c.heap[n]
      s == Below("captures",
                 IF node.type \in {"action", "error"} THEN [c EXCEPT !.heap[n].capts = v] ELSE c, n, v)
  IN CASE node.type = "capture" -> Seen(s.c, Append(s.v, n))
       [] node.type = "expand"  -> Seen(ErrIf(node.index # VOID /\ ~Has(c.heap, v, n), c), v)
       [] OTHER                 -> s

VerifyRule ==
  LET expr == ctx.heap[rules[checked + 1]].nodes[1]
  IN /\ phase = "verify" /\ checked < Len(rules)
     /\ ctx' = verify_captures(verify_variables(ctx, expr, <<>>).c, expr, <<>>).c
     /\ checked' = checked + 1
     /\ UNCHANGED <<input, phase, rules, loud, texts, strs, todo, files, footer, status, hashVars>>

-----------------------------------------------------------------------------
(* generate()                                                              *)

(* The code is written; a line end behind the "%%" is not copied, but what *)
(* follows is set off by one.                                              *)
WriteCode ==
  LET c == match_eol(ctx)
  IN /\ CodeWritten
     /\ ctx' = commit_buffer(c)
     /\ footer' = IF match_eof(c) THEN <<>> ELSE <<LF>>
     /\ UNCHANGED <<input, rules, loud, texts, strs, todo>>

(* write_text                                                              *)
Written(s) ==
  LET out[k \in 0 .. Len(s)] ==
        IF k = 0 THEN <<>>
        ELSE IF s[k] = CR THEN Append(out[k - 1], LF)
        ELSE IF s[k] = LF /\ k > 1 /\ s[k - 1] = CR THEN out[k - 1]
        ELSE Append(out[k - 1], s[k])
  IN out[Len(s)]

Buffered == LET left == Len(ctx.txt) - Here(ctx)
            IN SubSeq(ctx.txt, Here(ctx) + 1, Here(ctx) + (IF left < BufferMax THEN left ELSE BufferMax))

(* Mutant: the whole buffer is written.                                    *)
CopyAll ==
  /\ phase = "footer" /\ Buffered # <<>>
  /\ footer' = footer \o Written(Buffered)
  /\ ctx' = commit_buffer([ctx EXCEPT !.bufcur = Len(Buffered)])
  /\ UNCHANGED <<input, phase, rules, loud, texts, strs, todo, checked, files, status, hashVars>>

(* A carriage return at the end of the buffer waits for what follows it.   *)
CopyFooter ==
  LET n == IF Buffered[Len(Buffered)] = CR THEN Len(Buffered) - 1 ELSE Len(Buffered)
  IN /\ phase = "footer" /\ Buffered # <<>>
     /\ footer' = footer \o Written(SubSeq(Buffered, 1, n))
     /\ ctx' = commit_buffer([ctx EXCEPT !.bufcur = n])
     /\ UNCHANGED <<input, phase, rules, loud, texts, strs, todo, checked, files, status, hashVars>>

(* destroy_context, from the last rule to the first, and the exit status.  *)
DestroyContext ==
  LET after[k \in 1 .. Len(rules) + 1] ==
        IF k > Len(rules) THEN ctx ELSE destroy_node(after[k + 1], rules[k])
  IN /\ Finish
     /\ ctx' = after[1]
     /\ UNCHANGED <<input, rules, loud, texts, strs, todo, footer>>

-----------------------------------------------------------------------------
Parse  == Start \/ Include \/ StringDirective \/ BadDirective \/ Rule \/ BadRule \/ EndOfRules
Link   == ProbeTable \/ LinkReference \/ Linked \/ CheckUses
Verify == VerifyRule \/ (Parsed /\ Quiet)
Generate ==
  \/ (OpenFile /\ Quiet)
  \/ WriteCode \/ CopyFooter
  \/ (Buffered = <<>> /\ CloseFiles /\ Quiet)

Work  == Parse \/ Link \/ Verify \/ Generate \/ DestroyContext
Ended == phase = "exit" /\ UNCHANGED transVars

Next == Work \/ (FileError /\ Quiet) \/ Ended

(* One thread, which the system goes on running; no file need ever fail.   *)
Spec == Init /\ [][Next]_transVars /\ WF_transVars(Work)

-----------------------------------------------------------------------------
(* Properties.                                                             *)

InTrees == UNION {Tree(ctx.heap, rules[k]) : k \in DOMAIN rules}
OfType(S, types) == {n \in S : ctx.heap[n].type \in types}

(* The lists hold nodes, and nothing is linked, verified or written before *)
(* its turn.                                                               *)
TypeOK ==
  /\ phase \in Phases /\ status \in {-1, 0, 2, 3, 10} /\ (phase = "exit" <=> status # -1)
  /\ ctx.bufpos + ctx.bufcur <= Len(ctx.txt) /\ ctx.errnum \in Nat
  /\ \A k \in DOMAIN rules : ctx.heap[rules[k]].type = "rule"
  /\ names = [k \in DOMAIN rules |-> ctx.heap[rules[k]].name]
  /\ \A k \in DOMAIN todo : ctx.heap[todo[k]].type = "reference"
  /\ checked \in 0 .. Len(rules)
  /\ \A f \in DOMAIN files : files[f] \in {"old", "open", "whole", "none"}
  /\ footer # <<>> => phase \in {"footer", "end", "exit"}

(* Where the line that holds the character behind the first k begins, and  *)
(* how many lines come before it: a CR LF ends one line.                   *)
LineEnds(k) ==
  LET t == ctx.txt
  IN {i \in 1 .. k : t[i] = LF \/ (t[i] = CR /\ (i = Len(t) \/ t[i + 1] # LF))}
LineStart(k) == IF LineEnds(k) = {} THEN 0 ELSE CHOOSE i \in LineEnds(k) : \A j \in LineEnds(k) : j <= i

(* The text v stands where place says.                                     *)
Reads(place, v) ==
  \E k \in 0 .. Len(ctx.txt) - Len(v) :
    /\ SubSeq(ctx.txt, k + 1, k + Len(v)) = v
    /\ place = [line |-> Cardinality(LineEnds(k)), col |-> k - LineStart(k)]

(* However the parser of the grammar has gone back over lines, it knows the *)
(* line and the column where it goes on, so that no column is ever negative *)
(* (the assertion of column_number), and the places it has given to rules  *)
(* and references for later messages are where they stand (linenum and     *)
(* linepos, restored by every EXCEPTION of parse.c).                       *)
PlacesTrue ==
  /\ phase \in Phases \ {"footer", "end", "exit"} =>
       ctx.linenum = Cardinality(LineEnds(Here(ctx))) /\ ctx.linepos = LineStart(Here(ctx))
  /\ \A n \in OfType(InTrees, {"rule"}) : Reads(ctx.heap[n].place, ctx.heap[n].name)
  /\ \A n \in OfType(InTrees, {"reference"}) :
       Reads(ctx.heap[n].place, IF ctx.heap[n].index = VOID THEN ctx.heap[n].name ELSE ctx.heap[n].var)

(* An array of a rule is the nodes of some types in the rule's tree, in    *)
(* the order of their indices.                                             *)
Lists(array, T) == Range1(array) = T /\ \A k \in DOMAIN array : ctx.heap[array[k]].index = k - 1

(* When code is generated, no pointer that the parser has left behind is   *)
(* to a destroyed node, nothing has been read beyond its end, and the rules *)
(* are as the generator takes them: the captures and the codes of a rule   *)
(* are those of its tree by index, its variables are distinct and each use *)
(* has the index of its variable, and every reference is linked to the     *)
(* rule of its name, which has been counted (parse.c keeps vars, capts and *)
(* codes while it destroys and goes back).                                 *)
AcceptedWhole ==
  phase \in {"open", "write", "footer"} =>
    /\ ctx.faults = {} /\ InTrees \cap ctx.dead = {}
    /\ \A k \in DOMAIN rules :
         LET h == ctx.heap
             r == h[rules[k]]
             T == Tree(h, rules[k])
             uses == {n \in OfType(T, {"reference"}) : h[n].index # VOID}
         IN /\ Lists(r.capts, OfType(T, {"capture"})) /\ Lists(r.codes, OfType(T, {"action", "error"}))
            /\ Range1(r.vars) \subseteq uses
            /\ \A i, j \in DOMAIN r.vars : h[r.vars[i]].var = h[r.vars[j]].var => i = j
            /\ \A n \in uses : h[r.vars[h[n].index + 1]].var = h[n].var
            /\ \A n \in OfType(T, {"reference"}) : h[h[n].rule].name = h[n].name
            /\ refs[k] = Cardinality({n \in OfType(InTrees, {"reference"}) : h[n].rule = rules[k]})

(* The nodes below n with the way to each.                                 *)
RECURSIVE Ways(_)
Ways(n) ==
  LET ns == ctx.heap[n].nodes
  IN {<<n>>} \cup UNION {{<<n, k>> \o w : w \in Ways(ns[k])} : k \in DOMAIN ns}
At(w) == w[Len(w)]

(* What w leads to is matched before what x leads to: they part at a node  *)
(* whose elements are matched one after the other.                         *)
Precedes(w, x) ==
  \E k \in DOMAIN w \cap DOMAIN x :
    /\ SubSeq(w, 1, k - 1) = SubSeq(x, 1, k - 1)
    /\ k % 2 = 0 /\ w[k] < x[k] /\ ctx.heap[w[k - 1]].type # "alternate"

Indices(ns) == {ctx.heap[n].index : n \in ns}

(* An action sees the variables and captures that may have been set when   *)
(* it is reached, each once: those in front of it, but for those of other  *)
(* branches; and a capture that is expanded is one of those                *)
(* (verify_variables and verify_captures, which share and cut arrays from  *)
(* branch to branch).                                                      *)
ActionsSee ==
  phase \in {"open", "write", "footer"} =>
    \A k \in DOMAIN rules :
      LET W == Ways(rules[k])
          Before(x, type) == {n \in {At(w) : w \in {v \in W : Precedes(v, x)}} :
                                ctx.heap[n].type = type /\ ctx.heap[n].index # VOID}
          Distinct(v) == Cardinality(Indices(Range1(v))) = Len(v)
      IN \A x \in W :
           LET n == ctx.heap[At(x)]
           IN /\ n.type \in {"action", "error"} =>
                   /\ Indices(Range1(n.vars)) = Indices(Before(x, "reference")) /\ Distinct(n.vars)
                   /\ Indices(Range1(n.capts)) = Indices(Before(x, "capture")) /\ Distinct(n.capts)
              /\ n.type = "expand" => n.index \in Indices(Before(x, "capture"))

(* A run that comes to its end has destroyed every node it ever created,   *)
(* those of abandoned attempts included, and none of them twice.           *)
NodesFreed ==
  /\ "double" \notin ctx.faults
  /\ status \in {0, 10} => ctx.dead = DOMAIN ctx.heap

(* packcc on a text is one of the runs that Packcc leaves open: what the    *)
(* parser of the notation does on its ways forward and back changes        *)
(* nothing else, and no error that was found is ever forgotten.            *)
ImplementsPackcc == PackccSpec

(* A run ends: in a grammar's text nothing is skipped without moving on,   *)
(* the table is searched to an end and the footer is copied to its end,    *)
(* unless the text ends in a carriage return.                              *)
EndsInCR == input.txt # <<>> /\ input.txt[Len(input.txt)] = CR
Terminates == (phase = "start" /\ ~EndsInCR) ~> (phase = "exit")

(* Every run ends, whatever the footer's last line end is (README.md:332:  *)
(* the text behind the "%%" is copied as it is).                           *)
FooterEnds == (phase = "start") ~> (phase = "exit")
=============================================================================
