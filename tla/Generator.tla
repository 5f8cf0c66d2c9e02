----------------------------- MODULE Generator -----------------------------
(***************************************************************************)
(* The code generator at work on one rule: generate_code calls itself for  *)
(* the operands of a node, and what it writes for them ends up in what it  *)
(* writes for the node.  A behaviour is the generation of one rule's code, *)
(* call by call, for an expression that may nest as deeply as it likes.    *)
(***************************************************************************)
EXTENDS PackGenerate

CONSTANT Expressions   \* the nodes that may occur, with all that is below them

OperandTypes == {"quantity", "predicate", "capture", "error"}
LeafTypes    == {"reference", "string", "charclass", "expand", "action"}

(* What the parser makes of an expression: it has no quantity but *, +, ?,  *)
(* and no alternate or sequence of nothing.                                 *)
ASSUME ExpressionsAssumption ==
  \A e \in Expressions :
    /\ e.type \in OperandTypes \cup LeafTypes \cup {"sequence", "alternate"}
    /\ e.type \in OperandTypes => e.expr \in Expressions
    /\ e.type \in {"sequence", "alternate"} => e.nodes \in Seq(Expressions) /\ e.nodes # <<>>
    /\ e.type = "quantity" => <<e.min, e.max>> \in {<<0, -1>>, <<1, -1>>, <<0, 1>>}
    /\ e.type = "predicate" => e.neg \in BOOLEAN

VARIABLES calls,   \* the calls of generate_code that are running, the last one innermost
          rule     \* what the call for the whole expression has written
gvars == <<calls, rule>>

Unwritten == Out(<<>>, BOTH, 0)

Init == /\ \E e \in Expressions : calls = <<generate_code(e, L(0), 0)>>
        /\ rule = Unwritten

Innermost == calls[Len(calls)]

(* A call for the next operand.                                            *)
Descend ==
  /\ calls # <<>> /\ GoesOn(Innermost)
  /\ calls' = Append(calls, Operand(Innermost))
  /\ UNCHANGED rule

(* The innermost call returns to the one that has called it.               *)
Return ==
  /\ Len(calls) > 1 /\ ~GoesOn(Innermost)
  /\ LET m == Len(calls) - 1
     IN calls' = Append(SubSeq(calls, 1, m - 1), Continued(calls[m], Innermost.out))
  /\ UNCHANGED rule

(* The first call returns to generate.                                     *)
Finish ==
  /\ Len(calls) = 1 /\ ~GoesOn(Innermost)
  /\ calls' = <<>> /\ rule' = Innermost.out

Next == Descend \/ Return \/ Finish
Spec == Init /\ [][Next]_gvars
=============================================================================
