---------------------------- MODULE PegSemantics ----------------------------
(***************************************************************************)
(* What a grammar means: the reference the generated parser is checked     *)
(* against.  Parsing expressions are read as the README's syntax section   *)
(* describes them, with no memo table, no labels and no LR bookkeeping.  A *)
(* rule that may call itself where it started (the set recursive) is read  *)
(* as a bounded left recursion: the longest of the matches obtained by     *)
(* letting the inner call fail, then match what the outer call matched,    *)
(* and so on.                                                              *)
(*                                                                         *)
(* An expression is a record as in PackGenerate; positions count the       *)
(* characters of the whole input before them.  A result holds the position *)
(* reached, the actions matched on the way in order, and what has been set: *)
(* the captures, the variables and $$.  A value is named for the action    *)
(* that stored it; of a value that the README does not define, the default *)
(* of $$ and a variable whose rule stored nothing, nothing is said.        *)
(***************************************************************************)
EXTENDS Integers, Sequences, TLC

Undefined == [act |-> -1, start |-> 0, end |-> 0]
NothingSet == [capts |-> <<>>, vars |-> <<>>, out |-> Undefined]

Failure == [ok |-> FALSE, pos |-> 0, acts |-> <<>>, set |-> NothingSet]
Success(i, acts, k) == [ok |-> TRUE, pos |-> i, acts |-> acts, set |-> k]

(* t: the input and the grammar; s: where the rule started; i: where we     *)
(* are; k: what has been set; lr: the left recursions under way.            *)
RECURSIVE Eval(_, _, _, _, _, _)
RECURSIVE EvalSequence(_, _, _, _, _, _)
RECURSIVE EvalAlternatives(_, _, _, _, _, _)
RECURSIVE Repeat(_, _, _, _, _, _, _, _)
RECURSIVE Grow(_, _, _, _, _)

(* Rule r at i: its seed if it is under way at i, else the longest growth.  *)
Grow(t, r, i, lr, seed) ==
  LET m == Eval(t, t.grammar[r], i, i, NothingSet, (<<r, i>> :> seed) @@ lr)
  IN IF m.ok /\ (seed.ok => m.pos > seed.pos) THEN Grow(t, r, i, lr, m) ELSE seed

EvalRule(t, r, i, lr) ==
  IF r \notin t.recursive THEN Eval(t, t.grammar[r], i, i, NothingSet, lr)
  ELSE IF <<r, i>> \in DOMAIN lr THEN lr[<<r, i>>]
  ELSE Grow(t, r, i, lr, Failure)

Text(t, from, n) == SubSeq(t.input, from + 1, from + n)

Matches(t, pat, i) == /\ i + Len(pat) <= Len(t.input)
                      /\ \A j \in DOMAIN pat : t.input[i + j] \in pat[j]

(* More occurrences of e after n of them; one that consumes nothing ends    *)
(* the repetition and does not count.                                       *)
Repeat(t, e, s, i, k, lr, n, acts) ==
  LET m == IF n = e.max THEN Failure ELSE Eval(t, e.expr, s, i, k, lr) IN
  IF ~ m.ok THEN IF n < e.min THEN Failure ELSE Success(i, acts, k)
  ELSE IF m.pos = i THEN IF n < e.min THEN Failure ELSE Success(i, acts \o m.acts, m.set)
  ELSE Repeat(t, e, s, m.pos, m.set, lr, n + 1, acts \o m.acts)

(* e? takes an occurrence that consumes nothing.                            *)
Optional(t, e, s, i, k, lr) ==
  LET m == Eval(t, e.expr, s, i, k, lr) IN IF m.ok THEN m ELSE Success(i, <<>>, k)

EvalSequence(t, nodes, s, i, k, lr) ==
  IF nodes = <<>> THEN Success(i, <<>>, k)
  ELSE LET m == Eval(t, nodes[1], s, i, k, lr) IN
       IF ~ m.ok THEN Failure
       ELSE LET rest == EvalSequence(t, Tail(nodes), s, m.pos, m.set, lr)
            IN IF rest.ok THEN [rest EXCEPT !.acts = m.acts \o @] ELSE Failure

EvalAlternatives(t, nodes, s, i, k, lr) ==
  IF nodes = <<>> THEN Failure
  ELSE LET m == Eval(t, nodes[1], s, i, k, lr)
       IN IF m.ok THEN m ELSE EvalAlternatives(t, Tail(nodes), s, i, k, lr)

EvalPredicate(t, e, s, i, k, lr) ==
  IF Eval(t, e.expr, s, i, k, lr).ok = ~ e.neg THEN Success(i, <<>>, k) ELSE Failure

EvalCapture(t, e, s, i, k, lr) ==
  LET m == Eval(t, e.expr, s, i, k, lr)
  IN IF m.ok THEN [m EXCEPT !.set.capts = (e.index :> Text(t, i, m.pos - i)) @@ @] ELSE Failure

EvalExpand(t, e, i, k) ==
  LET c == IF e.index \in DOMAIN k.capts THEN k.capts[e.index] ELSE <<>>
  IN IF i + Len(c) <= Len(t.input) /\ Text(t, i, Len(c)) = c
     THEN Success(i + Len(c), <<>>, k) ELSE Failure

EvalReference(t, e, i, k, lr) ==
  LET m == EvalRule(t, e.rule, i, lr)
  IN IF ~ m.ok THEN Failure
     ELSE Success(m.pos, m.acts, IF e.var = 0 THEN k ELSE [k EXCEPT !.vars = (e.var :> m.set.out) @@ @])

EvalAction(e, s, i, k) ==
  LET vars == [v \in e.vars |-> IF v \in DOMAIN k.vars THEN k.vars[v] ELSE Undefined]
  IN Success(i, <<[act |-> e.index, start |-> s, end |-> i, vars |-> vars, out |-> k.out]>>,
             [k EXCEPT !.out = [act |-> e.index, start |-> s, end |-> i]])

Eval(t, e, s, i, k, lr) ==
  CASE e.type = "reference" -> EvalReference(t, e, i, k, lr)
    [] e.type = "string"    -> IF Matches(t, e.pat, i) THEN Success(i + Len(e.pat), <<>>, k)
                               ELSE Failure
    [] e.type = "charclass" -> IF Matches(t, <<e.set>>, i) THEN Success(i + 1, <<>>, k)
                               ELSE Failure
    [] e.type = "quantity"  -> IF e.max = 1 THEN Optional(t, e, s, i, k, lr)
                               ELSE Repeat(t, e, s, i, k, lr, 0, <<>>)
    [] e.type = "predicate" -> EvalPredicate(t, e, s, i, k, lr)
    [] e.type = "sequence"  -> EvalSequence(t, e.nodes, s, i, k, lr)
    [] e.type = "alternate" -> EvalAlternatives(t, e.nodes, s, i, k, lr)
    [] e.type = "capture"   -> EvalCapture(t, e, s, i, k, lr)
    [] e.type = "expand"    -> EvalExpand(t, e, i, k)
    [] e.type = "action"    -> EvalAction(e, s, i, k)
    [] e.type = "error"     -> Eval(t, e.expr, s, i, k, lr)

(* What rule r matches at position i of the input.                          *)
Meaning(g, recursive, in, r, i) ==
  EvalRule([grammar |-> g, recursive |-> recursive, input |-> in], r, i, <<>>)
=============================================================================
