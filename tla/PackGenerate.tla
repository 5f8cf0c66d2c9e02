---------------------------- MODULE PackGenerate ----------------------------
(***************************************************************************)
(* The code generator: what PackCC's generate_*_code functions emit for a  *)
(* parsing expression.  The C text is abstracted to a list of instructions *)
(* and the labels are the generator's own (its counter gen->label); a C    *)
(* for loop is written with the jumps that it stands for.  PackratParser   *)
(* executes the instructions.                                              *)
(*                                                                         *)
(* An expression is a record with the fields of its node_t.  A string and  *)
(* a character class are a sequence of sets of characters, one set for     *)
(* each character they match.  Of the captures and the variables that an   *)
(* action may read, capts and vars are those that its C code does read;    *)
(* variables count from 1, and 0 is a reference without one.               *)
(***************************************************************************)
EXTENDS RuleFunction, Integers, FiniteSets

(* code_reach_t: can the code that follows be reached, can onfail?          *)
BOTH           == "both"
ALWAYS_SUCCEED == "always_succeed"
ALWAYS_FAIL    == "always_fail"

(* Labels: L(n) is L%04d; the others stand for the ends of C statements.    *)
L(n)       == <<"L", n>>
Loop(n)    == <<"loop", n>>
Break(n)   == <<"break", n>>
Enough(n)  == <<"enough", n>>

(* The variables p and n of the C block opened under label k.               *)
Saved(k)   == <<"saved", k>>
Before(k)  == <<"before", k>>

(* Instructions, beside Label(l) and Save(v).                               *)
Goto(l)          == [op |-> "goto", l |-> l]
Match(pat, l)    == [op |-> "match", pat |-> pat, l |-> l]
Call(e, l)       == [op |-> "apply", rule |-> e.rule, var |-> e.var, l |-> l]
Restore(v)       == [op |-> "restore", v |-> v]
Zero(v)          == [op |-> "zero", v |-> v]
Under(v, k, l)   == [op |-> "under", v |-> v, k |-> k, l |-> l]   \* i < k, or else jump
Still(v, l)      == [op |-> "still", v |-> v, l |-> l]
Count(v, l)      == [op |-> "count", v |-> v, l |-> l]
Capture(k, v)    == [op |-> "capture", k |-> k, v |-> v]
Expand(k, l)     == [op |-> "expand", k |-> k, l |-> l]
Action(e)        == [op |-> "action", k |-> e.index, capts |-> e.capts, vars |-> e.vars]
ErrorAction(e)   == [op |-> "error", k |-> e.index, capts |-> e.capts, vars |-> e.vars]
ReturnChunk      == [op |-> "chunk"]
ReturnNull       == [op |-> "null"]

If(b, code)      == IF b THEN code ELSE <<>>

-----------------------------------------------------------------------------
(* What generate_code writes for a node: the code, its reach, and           *)
(* gen->label behind it.  In EmitX(e, onfail, n, b), n is gen->label before *)
(* the node, and b what the operand has become; the operand of a node that  *)
(* opens a block is called with the next label, n + 1, as its onfail.       *)
Out(code, reach, n) == [code |-> code, reach |-> reach, label |-> n]

EmitString(e, onfail, n) ==
  IF e.pat = <<>> THEN Out(<<>>, ALWAYS_SUCCEED, n)
  ELSE Out(<<Match(e.pat, onfail)>>, BOTH, n)

EmitCharclass(e, onfail, n) ==
  IF e.set = {} THEN Out(<<Goto(onfail)>>, ALWAYS_FAIL, n)
  ELSE Out(<<Match(<<e.set>>, onfail)>>, BOTH, n)

(* Mutant: off by one.                                                      *)
BeforeLoopIfMany(e, l) == If(e.min > 1, <<Save(Before(l))>>)

(* What a repetition that needs an occurrence saves before its loop.        *)
BeforeLoop(e, l) == If(e.min > 0, <<Save(Before(l))>>)

(* Mutant: an occurrence that fails does not end the loop.                  *)
OnceMoreForEver(e, l, b) ==
  <<Save(Saved(l))>> \o b.code
  \o <<Still(Saved(l), Break(l)), Count(Saved(l), Loop(l))>>
  \o If(b.reach # ALWAYS_SUCCEED, <<Label(L(l)), Restore(Saved(l)), Goto(Loop(l))>>)

(* The body of the loop, from the test of i on; b is the code of an         *)
(* occurrence.                                                              *)
OnceMore(e, l, b) ==
  If(e.max > 0, <<Under(Saved(l), e.max, Break(l))>>)
  \o <<Save(Saved(l))>> \o b.code
  \o <<Still(Saved(l), Break(l)), Count(Saved(l), Loop(l))>>
  \o If(b.reach # ALWAYS_SUCCEED, <<Label(L(l)), Restore(Saved(l)), Goto(Break(l))>>)

(* What follows the loop of a repetition that needs an occurrence.          *)
BehindLoop(e, onfail, l) ==
  If(e.min > 0, <<Under(Saved(l), e.min, Enough(l)),
                  Restore(Before(l)), Goto(onfail), Label(Enough(l))>>)

EmitRepetition(e, onfail, n, b) ==
  LET l == n + 1
  IN Out(BeforeLoop(e, l) \o <<Zero(Saved(l)), Label(Loop(l))>> \o OnceMore(e, l, b)
         \o <<Label(Break(l))>> \o BehindLoop(e, onfail, l),
         IF e.min = 0 THEN ALWAYS_SUCCEED
         ELSE IF b.reach = ALWAYS_FAIL THEN ALWAYS_FAIL ELSE BOTH,
         b.label)

EmitOption(e, onfail, n, b) ==
  LET l == n + 1
      m == b.label + 1
  IN IF b.reach = ALWAYS_SUCCEED
     THEN Out(<<Save(Saved(l))>> \o b.code, ALWAYS_SUCCEED, b.label)
     ELSE Out(<<Save(Saved(l))>> \o b.code
              \o <<Goto(L(m)), Label(L(l)), Restore(Saved(l)), Label(L(m))>>,
              ALWAYS_SUCCEED, m)

Repeats(e) == e.max > 1 \/ e.max < 0
Once(e)    == e.max = 1 /\ e.min > 0
EmitQuantity(e, onfail, n, b) ==
  IF Repeats(e) THEN EmitRepetition(e, onfail, n, b)
  ELSE IF Once(e) THEN b ELSE EmitOption(e, onfail, n, b)

NotNegated(reach) == reach   \* mutant
Negated(reach) == IF reach = ALWAYS_SUCCEED THEN ALWAYS_FAIL
                  ELSE IF reach = ALWAYS_FAIL THEN ALWAYS_SUCCEED ELSE BOTH

(* Mutants: the failure of the operand is handled only when it may also     *)
(* succeed; it leaves what the operand consumed consumed.                   *)
EmitNotUnlabelled(e, onfail, n, b) ==
  LET l == n + 1
  IN Out(<<Save(Saved(l))>> \o b.code
         \o If(b.reach # ALWAYS_FAIL, <<Restore(Saved(l)), Goto(onfail)>>)
         \o If(b.reach = BOTH, <<Label(L(l)), Restore(Saved(l))>>),
         Negated(b.reach), b.label)
EmitNotForgetful(e, onfail, n, b) ==
  LET l == n + 1
  IN Out(b.code \o If(b.reach # ALWAYS_FAIL, <<Goto(onfail)>>)
         \o If(b.reach # ALWAYS_SUCCEED, <<Label(L(l))>>),
         Negated(b.reach), b.label)

EmitNot(e, onfail, n, b) ==
  LET l == n + 1
  IN Out(<<Save(Saved(l))>> \o b.code
         \o If(b.reach # ALWAYS_FAIL, <<Restore(Saved(l)), Goto(onfail)>>)
         \o If(b.reach # ALWAYS_SUCCEED, <<Label(L(l)), Restore(Saved(l))>>),
         Negated(b.reach), b.label)

EmitAnd(e, onfail, n, b) ==
  LET l == n + 1
      m == n + 2
  IN Out(<<Save(Saved(l))>> \o b.code
         \o If(b.reach # ALWAYS_FAIL, <<Restore(Saved(l))>>)
         \o If(b.reach = BOTH, <<Goto(L(m))>>)
         \o If(b.reach # ALWAYS_SUCCEED, <<Label(L(l)), Restore(Saved(l)), Goto(onfail)>>)
         \o If(b.reach = BOTH, <<Label(L(m))>>),
         b.reach, b.label)

EmitCapture(e, onfail, n, b) ==
  LET v == <<"capture", e.index>>
  IN Out(<<Save(v)>> \o b.code \o <<Capture(e.index, v)>>, b.reach, b.label)

EmitError(e, onfail, n, b) ==
  LET l == n + 1
      m == n + 2
  IN Out(b.code \o <<Goto(L(m)), Label(L(l)), ErrorAction(e), Goto(onfail), Label(L(m))>>,
         b.reach, b.label)

(* The loop of a sequence, with a the code of the elements in front of b.   *)
(* What follows an element that always fails is left out as unreachable.    *)
EmitElement(a, b) ==
  Out(a.code \o b.code, IF b.reach = ALWAYS_SUCCEED THEN a.reach ELSE b.reach, b.label)

(* The loop of alternatives, with a the code in front of alternative b; m   *)
(* labels the end, v is the saved state of the block.  What follows an      *)
(* alternative that always succeeds is left out.                            *)
EmitAlternative(a, b, last, onfail, m) ==
  LET l == a.label + 1
      taken == BOTH \in {a.reach, b.reach}
  IN Out(a.code \o b.code
         \o If(b.reach = BOTH, <<Goto(L(m))>>)
         \o If(b.reach # ALWAYS_SUCCEED, <<Label(L(l)), Restore(Saved(m))>>)
         \o If(b.reach # ALWAYS_SUCCEED /\ last, <<Goto(onfail)>>)
         \o If(taken /\ (last \/ b.reach = ALWAYS_SUCCEED), <<Label(L(m))>>),
         IF b.reach = ALWAYS_FAIL THEN a.reach ELSE b.reach, b.label)

-----------------------------------------------------------------------------
(* Calls of generate_code.  A call has the node, onfail and gen->label as   *)
(* it was given them, how many calls for operands have returned to it, and  *)
(* what it has written.                                                     *)

(* What is written before the first operand, all there is of a leaf.        *)
Opening(e, onfail, n) ==
  CASE e.type = "reference" -> Out(<<Call(e, onfail)>>, BOTH, n)
    [] e.type = "string"    -> EmitString(e, onfail, n)
    [] e.type = "charclass" -> EmitCharclass(e, onfail, n)
    [] e.type = "expand"    -> Out(<<Expand(e.index, onfail)>>, BOTH, n)
    [] e.type = "action"    -> Out(<<Action(e)>>, ALWAYS_SUCCEED, n)
    [] e.type = "alternate" -> Out(<<Save(Saved(n + 1))>>, ALWAYS_FAIL, n + 1)
    [] OTHER                -> Out(<<>>, ALWAYS_SUCCEED, n)

generate_code(e, onfail, n) ==
  [node |-> e, onfail |-> onfail, n |-> n, k |-> 0, out |-> Opening(e, onfail, n)]

(* Whether call c goes on with a call for an operand, and for which.        *)
GoesOn(c) ==
  CASE c.node.type = "sequence"  -> c.k < Len(c.node.nodes) /\ c.out.reach # ALWAYS_FAIL
    [] c.node.type = "alternate" -> c.k < Len(c.node.nodes) /\ c.out.reach # ALWAYS_SUCCEED
    [] c.node.type = "quantity"  -> c.k = 0 /\ c.node.max # 0
    [] c.node.type \in {"predicate", "capture", "error"} -> c.k = 0
    [] OTHER -> FALSE

Operand(c) ==
  LET e == c.node
      l == c.out.label + 1
  IN CASE e.type = "sequence"  -> generate_code(e.nodes[c.k + 1], c.onfail, c.out.label)
       [] e.type = "alternate" -> generate_code(e.nodes[c.k + 1], L(l), l)
       [] e.type = "quantity"  -> IF Once(e) THEN generate_code(e.expr, c.onfail, c.n)
                                  ELSE generate_code(e.expr, L(l), l)
       [] e.type = "predicate" -> generate_code(e.expr, L(l), IF e.neg THEN l ELSE l + 1)
       [] e.type = "capture"   -> generate_code(e.expr, c.onfail, c.n)
       [] e.type = "error"     -> generate_code(e.expr, L(l), l + 1)

(* What call c has written when its operand has become b.                   *)
Written(c, b) ==
  LET e == c.node IN
  CASE e.type = "sequence"  -> EmitElement(c.out, b)
    [] e.type = "alternate" -> EmitAlternative(c.out, b, c.k + 1 = Len(e.nodes), c.onfail, c.n + 1)
    [] e.type = "quantity"  -> EmitQuantity(e, c.onfail, c.n, b)
    [] e.type = "predicate" -> IF e.neg THEN EmitNot(e, c.onfail, c.n, b) ELSE EmitAnd(e, c.onfail, c.n, b)
    [] e.type = "capture"   -> EmitCapture(e, c.onfail, c.n, b)
    [] e.type = "error"     -> EmitError(e, c.onfail, c.n, b)

Continued(c, b) ==
  [node |-> c.node, onfail |-> c.onfail, n |-> c.n, k |-> c.k + 1, out |-> Written(c, b)]

(* The body of pcc_evaluate_rule_*, for what has been written for its       *)
(* expression with onfail L0000.  That label, the failing exit, is left out *)
(* when the expression is said to always succeed.                           *)
EvaluateRule(out) ==
  out.code \o <<ReturnChunk>>
  \o If(out.reach # ALWAYS_SUCCEED, <<Label(L(0)), ReturnNull>>)
=============================================================================
