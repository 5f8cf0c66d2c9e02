---------------------------- MODULE RuleFunction ----------------------------
(***************************************************************************)
(* The C function of a rule as a compiler sees it: where control may go in *)
(* its code, and what makes the code acceptable.  PackratParser executes   *)
(* such functions, the generator writes them.                              *)
(***************************************************************************)
EXTENDS Naturals, Sequences

(* Where control goes from an instruction: to the next one, and behind the  *)
(* labels that it names.                                                    *)
Jumps(ins) == IF ins.op \in {"match", "expand", "apply", "goto", "under", "still", "count"}
              THEN {ins.l} ELSE {}
Label(l)         == [op |-> "label", l |-> l]
Save(v)          == [op |-> "save", v |-> v]
Behind(code, l)  == 1 + CHOOSE i \in DOMAIN code : code[i] = Label(l)
Onward(code, i)  ==
  {j \in {i + 1} : code[i].op \notin {"goto", "count", "chunk", "null"}}
  \cup {Behind(code, l) : l \in Jumps(code[i])}

(* A variable p, n is set at j and in scope up to e: nothing enters the     *)
(* block from elsewhere.                                                    *)
InScope(code, j, e) ==
  \A i \in DOMAIN code : \A t \in Onward(code, i) : t \in j + 1 .. e => i \in j .. e

(* What the C compiler asks of the code of a rule, a sequence that is not   *)
(* empty: gotos have labels, control does not run off the end, references   *)
(* name rules, variables are set before they are used.                      *)
Compiles(code, rules) ==
  /\ Len(code) \in Nat \ {0} /\ DOMAIN code = 1 .. Len(code)
  /\ \A i \in DOMAIN code :
       /\ \A l \in Jumps(code[i]) : \E j \in DOMAIN code : code[j] = Label(l)
       /\ Onward(code, i) \subseteq DOMAIN code
       /\ code[i].op = "apply" => code[i].rule \in rules
       /\ code[i].op \in {"restore", "still", "capture"} =>
            \E j \in DOMAIN code : code[j] = Save(code[i].v)
              /\ \E e \in DOMAIN code : i \in j + 1 .. e /\ InScope(code, j, e)
=============================================================================
