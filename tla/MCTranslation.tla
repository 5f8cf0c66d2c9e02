--------------------------- MODULE MCTranslation ---------------------------
(***************************************************************************)
(* Texts for Translation: the printed form of every small expression, and  *)
(* hand-written pieces, right and wrong, in every order.                   *)
(***************************************************************************)
EXTENDS Translation

CONSTANTS Trees, Separators, Pieces, MaxPieces, Feet

-----------------------------------------------------------------------------
(* Expressions as records, in the terms of the parser's nodes.             *)
Ref(name)       == [type |-> "reference", var |-> <<>>, name |-> name]
Var(var, name)  == [type |-> "reference", var |-> var, name |-> name]
Lit(type, v)    == [type |-> type, value |-> v]
Node(type, es)  == [type |-> type, nodes |-> es]
Code(type, v, es) == [type |-> type, value |-> v, nodes |-> es]

Leaves == {Ref(<<"r">>), Var(<<"b">>, <<"r">>), Lit("string", <<"c">>), Lit("charclass", <<"d">>),
           Lit("charclass", <<"any">>), Code("action", <<"a">>, <<>>)}
Over(e) == {Node(t, <<e>>) : t \in {"*", "+", "?", "&", "!", "capture"}} \cup {Code("error", <<"a">>, <<e>>)}
Pairs(S, T) == {Node(t, <<e, f>>) : t \in {"sequence", "alternate"}, e \in S, f \in T}

Few == {Ref(<<"r">>), Lit("string", <<"c">>)}
Low == Leaves \cup UNION {Over(e) : e \in Leaves} \cup Pairs(Leaves, Leaves)
FewLow == Few \cup UNION {Over(e) : e \in Few} \cup Pairs(Few, Few)
SmallTrees == Low \cup UNION {Over(e) : e \in Low} \cup Pairs(Few, FewLow) \cup Pairs(FewLow, Few)

(* How closely an expression binds.                                        *)
Level(e) ==
  CASE e.type = "alternate" -> 0
    [] e.type = "sequence"  -> 1
    [] e.type = "error"     -> 2
    [] e.type \in {"&", "!"} -> 3
    [] e.type \in {"*", "+", "?"} -> 4
    [] OTHER -> 5

(* e as an operand that binds at least as closely as level, with sep where *)
(* there may be blanks.                                                    *)
RECURSIVE PrintAt(_, _, _)
PrintAt(e, level, sep) ==
  LET operand(k, l) == PrintAt(e.nodes[k], l, sep)
      code(v) == <<"{">> \o v \o <<"}">> \o sep
      text == CASE e.type = "reference" ->
                     (IF e.var = <<>> THEN <<>> ELSE e.var \o sep \o <<":">> \o sep) \o e.name \o sep
                [] e.type = "string"    -> <<"'">> \o e.value \o <<"'">> \o sep
                [] e.type = "charclass" ->
                     (IF e.value = <<"any">> THEN <<".">> ELSE <<"[">> \o e.value \o <<"]">>) \o sep
                [] e.type = "action"    -> code(e.value)
                [] e.type = "capture"   -> <<"<">> \o sep \o operand(1, 0) \o <<">">> \o sep
                [] e.type = "error"     -> operand(1, 3) \o <<"~">> \o sep \o code(e.value)
                [] e.type \in {"&", "!"} -> <<e.type>> \o sep \o operand(1, 4)
                [] e.type \in {"*", "+", "?"} -> operand(1, 5) \o <<e.type>> \o sep
                [] e.type = "sequence"  -> operand(1, 2) \o operand(2, 2)
                [] e.type = "alternate" -> operand(1, 1) \o <<"/">> \o sep \o operand(2, 1)
  IN IF Level(e) >= level THEN text ELSE <<"(">> \o sep \o text \o <<")">> \o sep

(* The node n of the parser as such a record.                              *)
RECURSIVE Shape(_)
Shape(n) ==
  LET node == ctx.heap[n]
      below == [k \in DOMAIN node.nodes |-> Shape(node.nodes[k])]
  IN CASE node.type = "reference" ->
            [type |-> node.type, var |-> node.var, name |-> node.name]
       [] node.type \in {"string", "charclass"} -> Lit(node.type, node.value)
       [] node.type \in {"action", "error"} -> Code(node.type, node.value, below)
       [] OTHER -> Node(node.type, below)

NoTree == [type |-> "none"]
PrintedInputs ==
  {[txt |-> <<"r">> \o sep \o <<"<", "-">> \o sep \o PrintAt(e, 0, sep),
    ascii |-> FALSE, foot |-> <<>>, tree |-> e] : e \in Trees, sep \in Separators}

-----------------------------------------------------------------------------
(* Pieces in every order.                                                  *)
Sequences == UNION {[1 .. k -> Pieces] : k \in 0 .. MaxPieces}
Joint(ps) == LET upto[k \in 0 .. Len(ps)] == IF k = 0 THEN <<>> ELSE upto[k - 1] \o ps[k] IN upto[Len(ps)]
PieceInputs ==
  {[txt |-> Joint(ps), ascii |-> FALSE, foot |-> <<>>, tree |-> NoTree] : ps \in Sequences}

(* A small grammar with a footer.                                          *)
FootInputs ==
  {[txt |-> <<"r", "<", "-", "'", "c", "'", LF, "%", "%">> \o f, ascii |-> TRUE, foot |-> f,
    tree |-> NoTree] : f \in Feet}

AllInputs == PrintedInputs \cup PieceInputs \cup FootInputs

GrammarPieces ==
  { <<"r", " ", "<", "-", " ", "a", LF>>,
    <<"a", "<", "-", "b", ":", "a", CR, LF, "c", ":", "b", " ", "b", ":", "r", "{", "$", "}">>,
    <<"b", LF, "<", "-", "<", "'", "c", "'", "/", "<", ".", ">", "{", "}", ">", "$", "2", "{", "}", "/", "{", "}">>,
    <<"a", "b", "<", "-", "(", "<", "a", ">", "/", "<", "b", ">", "$", "1", ")", "~", "{", "}", " ">>,
    <<"c", "<", "-", "d", ":", "a", "/", "d", ":", "b", "/", "c", ":", "r", "{", "}", "#", LF>>,
    <<"r", "<", "-", "'", "c", "'", "(", "a", CR>>,
    <<"a", "<", "-", "b", "~", LF, "<", "b", ":", "a", LF>>,
    <<"%common", "{", "'", "}", "'", "}">>, <<"%source", " ", "{">>, <<"%header", LF, "a">>,
    <<"%prefix", "'", "a", "1", "'">>, <<"%prefix", "\"", "1", "\"">>, <<"%value", "'", " ", "void", "'">>,
    <<"%value", "'">>, <<"%auxil", "'", " ", "'">>, <<"%", "a", " ">>,
    <<"[", "\\", "]", "badbyte", "]">>, <<"?", CR, LF>>, <<"%", "%">> }

FootTexts == UNION {[1 .. k -> {"a", CR, LF}] : k \in 0 .. 5}
WellEnded == {f \in FootTexts : f = <<>> \/ f[Len(f)] # CR}
LoneEnded == FootTexts \ WellEnded

Words == UNION {[1 .. k -> {"r", "a", "b", "c", "d"}] : k \in 1 .. 3}

(* A hash that tells only the first letters apart, and not r from a.       *)
FirstLetter(n) == CASE n[1] \in {"r", "a"} -> 3 [] n[1] = "b" -> 4 [] OTHER -> 12

(* populate_bits(len * 4) + 1: the least power of two above len * 4.       *)
PowerAbove(len) == CHOOSE p \in {2 ^ k : k \in 0 .. 8} : p > 4 * len /\ p <= 8 * len + 1

Seps == {<<" ">>, <<CR, LF>>, <<"#", "(", LF>>}
-----------------------------------------------------------------------------
(* Spec, with the part of its fairness that is about parsing and verifying *)
(* written out, since TLC takes too long to find out whether such a step   *)
(* is enabled.  It is, and changes the context, unless the search for the  *)
(* next rule does not move on.                                             *)
Costly == phase \in {"rules", "verify"}
Busy   == Costly /\ (AtItem => Matched(ctx, Skipped(ctx)))
MCSpec ==
  /\ Init /\ [][Next]_transVars
  /\ WF_transVars(~Costly /\ Work)
  /\ []<>~Busy \/ []<><<Costly /\ Work>>_transVars

-----------------------------------------------------------------------------
(* The parser of the grammar makes of the text of an expression that very  *)
(* expression: the operators bind as README.md says, blanks, line ends and *)
(* comments between them make no difference, and no attempt that has been  *)
(* given up leaves anything in the tree.                                   *)
ParsesBack ==
  phase \in {"link", "verify", "open"} /\ input.tree # NoTree =>
    Len(rules) = 1 /\ Shape(ctx.heap[rules[1]].nodes[1]) = input.tree

(* What follows the "%%" is copied as if it had been read at once: where   *)
(* the buffer ends does not show, not even between CR and LF (generate).   *)
FooterVerbatim ==
  status = 0 /\ input \in FootInputs =>
    LET c == match_eol(NewContext(input.foot, FALSE))
        rest == SubSeq(input.foot, c.bufcur + 1, Len(input.foot))
    IN footer = IF rest = <<>> THEN <<>> ELSE <<LF>> \o Written(rest)
=============================================================================
