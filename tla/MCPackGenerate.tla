--------------------------- MODULE MCPackGenerate ---------------------------
(***************************************************************************)
(* The code generator over every expression up to a nesting depth, and the *)
(* properties of the code that it writes.                                  *)
(***************************************************************************)
EXTENDS Generator, PegExpressions

(* Expressions that nest up to k deep.  Of the operands of each reach one   *)
(* nests deepest, and is what stands beside an operand that nests.          *)
Partners == {Lit(<<>>), Lit(<<"x">>), Class({})}
Others   == {Ref("r"), Act(1), Exp(0)}
Around(E) == {e : e \in E \cup Unary(E) \cup {Err(2, e) : e \in E}
                            \cup Binary(E, Partners) \cup Binary(Partners, E)}
Nested2 == Around(Partners \cup Others)
Nested3 == Around(Nested2)
Nested4 == {e : e \in Nested3 \cup Around(Around(Around(Partners)))}
UpTo3   == Nested3
UpTo4   == Nested4

-----------------------------------------------------------------------------
(* The control flow of generated code.  A point is a place and the loops    *)
(* that have counted an occurrence; a match, an application and a test of   *)
(* the position may go either way, a test for one occurrence (the parser    *)
(* knows no other minimum) goes as counted.                                 *)
Labelled(code, l) == {i \in DOMAIN code : code[i] = Label(l)}

Leap == {"goto", "count", "chunk", "null"}
Steps(code, x) ==
  LET ins == code[x.at]
      next == IF ins.op \in Leap \/ (ins.op = "under" /\ ins.v \in x.counted)
              THEN {} ELSE {x.at + 1}
      jump == IF ins.op = "under" /\ ins.v \notin x.counted THEN {}
              ELSE UNION {Labelled(code, l) : l \in Jumps(ins)}
      counted == CASE ins.op = "zero"  -> x.counted \ {ins.v}
                   [] ins.op = "count" -> x.counted \cup {ins.v}
                   [] OTHER            -> x.counted
  IN {[at |-> i, counted |-> counted] : i \in next \cup jump}

Points == [at : Nat, counted : SUBSET ({"saved"} \X Nat)]
Start  == [at |-> 1, counted |-> {}]

(* The points S and those to which one step leads from them, but for those  *)
(* at one of the places cut.                                                *)
Further(code, cut, S) ==
  S \cup UNION {Steps(code, x) : x \in {y \in S : y.at \in DOMAIN code \ cut}}

(* The places that control reaches from the start without passing one of    *)
(* cut: round by round, until nothing is new.                               *)
ReachedFromStart(code, cut) ==
  LET counts == {i \in DOMAIN code : code[i].op = "count"}
      rounds == (Len(code) + 1) * Cardinality(SUBSET counts)
      from[k \in 0 .. rounds] ==
        [S \in SUBSET Points |->
           LET T == Further(code, cut, S)
           IN IF T = S \/ k = 0 THEN S ELSE from[k - 1][T]]
  IN {x.at : x \in from[rounds][{Start}]}

(* The position and thunk count of block v, and the counter of loop v.      *)
Counter(v) == <<"i", v>>
Sets(ins) == CASE ins.op = "save" -> {ins.v}
               [] ins.op = "zero" -> {Counter(ins.v)}
               [] OTHER           -> {}
Uses(ins) == CASE ins.op \in {"restore", "still", "capture"} -> {ins.v}
               [] ins.op \in {"under", "count"}              -> {Counter(ins.v)}
               [] OTHER                                      -> {}

Done == calls = <<>>
Code == EvaluateRule(rule)

(* A label is defined once, and where a goto names one.                     *)
Resolves(code) ==
  /\ \A i, j \in DOMAIN code : i # j /\ code[i].op = "label" => code[i] # code[j]
  /\ \A i \in DOMAIN code : \A l \in Jumps(code[i]) : \E j \in DOMAIN code : code[j] = Label(l)

(* The C compiler takes the function of a rule: every label that a goto     *)
(* names is defined in it, once, wherever there are error actions           *)
(* (generate_code, and generate for the failing exit).                      *)
ErrorsAnywhere == Done => Resolves(Code)

(* The rules that expressions refer to, which verify_context has found.     *)
References == {e \in Expressions : e.type = "reference"}
RulesNamed == {e.rule : e \in References}

(* In rules in which no error action follows an element that always         *)
(* succeeds, which nothing ever leads to.                                   *)
ErrorsReached(code) ==
  \A i \in DOMAIN code : code[i].op = "error" => \E j \in DOMAIN code : code[i - 1].l \in Jumps(code[j])

(* For those, labels resolve, and the function is what PackratParser        *)
(* assumes: control does not run off its end, and a position or thunk count *)
(* is used in a block that is entered only at its declaration.              *)
FunctionCompiles ==
  Done /\ ErrorsReached(Code) => Resolves(Code) /\ Compiles(Code, RulesNamed)

(* What generate_code returns about reach is true of the code it wrote: the *)
(* end of code that always fails is never reached, so that the callers may  *)
(* omit what would follow.  (Of code that always succeeds, FunctionCompiles *)
(* says it: the callers then omit the label of the failing exit.)           *)
ReachHonest ==
  Done /\ rule.reach = ALWAYS_FAIL => Len(rule.code) + 1 \notin ReachedFromStart(rule.code, {})

(* No goto enters a block past its declarations: the position, thunk count  *)
(* and loop counter a place uses were set on every path that leads to it.   *)
SetBeforeUse ==
  Done => \A i \in DOMAIN Code : \A v \in Uses(Code[i]) :
            LET sets == {j \in DOMAIN Code : v \in Sets(Code[j])}
            IN i \notin ReachedFromStart(Code, sets)
=============================================================================
