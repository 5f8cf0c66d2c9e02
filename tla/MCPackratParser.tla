--------------------------- MODULE MCPackratParser --------------------------
(***************************************************************************)
(* Generated parsers for small grammars, compared with what PegSemantics   *)
(* says the grammars mean.                                                 *)
(***************************************************************************)
EXTENDS ThunkActions, PegExpressions, SequencesExt

Gen == INSTANCE PackGenerate
Peg == INSTANCE PegSemantics

CONSTANTS rs, ra, rb   \* rules, called s, a and b in comments

(* What a call of generate_code has written when it returns, and the code   *)
(* of a rule whose body is e.                                               *)
RECURSIVE Generated(_)
Generated(c) == IF Gen!GoesOn(c) THEN Generated(Gen!Continued(c, Generated(Gen!Operand(c)))) ELSE c.out
Compiled(e)  == Gen!EvaluateRule(Generated(Gen!generate_code(e, Gen!L(0), 0)))

(* A grammar compiled; only the rules of lr may be left-recursive in it.    *)
(* It reads every input of up to size characters.                           *)
Program(g, lr, size) ==
  [grammar |-> g, recursive |-> lr, size |-> size, code |-> [r \in Rules |-> Compiled(g[r])]]
Grammar2(e, f)    == [r \in Rules |-> IF r = rs THEN e ELSE f]
Grammar3(e, f, g) == [r \in Rules |-> IF r = rs THEN e ELSE IF r = ra THEN f ELSE g]

Alphabet == {"x", "y"}
Dot      == Class(Alphabet)
X        == Lit(<<"x">>)
Y        == Lit(<<"y">>)
Z        == Lit(<<"z">>)

Words(n)    == UNION {[1 .. k -> Alphabet] : k \in 0 .. n}
WordsUpTo2  == Words(2)
WordsUpTo3  == Words(3)
WordsUpTo4  == Words(4)

-----------------------------------------------------------------------------
(* Every expression of one operator over the leaves, and of a sequence or  *)
(* an alternative with such an operand, as the body of s.                  *)
Leaves == {Lit(<<>>), X, Lit(<<"x", "y">>), Dot, Class({}), Ref(ra), Act(1)}
Exprs  == Leaves \cup Unary(Leaves) \cup Unary(Binary(Leaves, Leaves))
          \cup Binary(Unary(Leaves), Leaves)
ExprPrograms ==
  {Program(Grammar2(e, Alt2(Seq2(X, Act(2)), Lit(<<"y", "y">>))), {}, 2) : e \in Exprs}

(* Grammars with unbounded look-ahead, and the README's examples of actions, *)
(* error actions and captures in small.                                     *)
PackratPrograms ==
  {Program(g, {}, 4) : g \in
    {Grammar2(Alt3(Seq2(Ref(ra), X), Seq2(Ref(ra), Y), Ref(ra)),
              Alt2(Seq3(X, Ref(rs), Act(1)), Seq2(Dot, Act(2)))),
     Grammar2(Seq3(Not(Seq2(Ref(ra), Ref(ra))), And(Ref(ra)), Star(Ref(ra))),
              Alt2(Seq3(Dot, Act(1), Ref(rs)), Seq2(X, Act(2)))),
     Grammar2(Seq3(Capt(0, Star(X)), Y, Seq3(Exp(0), Act(1), Ref(ra))),
              Star(Seq2(Dot, Act(2)))),
     Grammar2(Seq2(Star(Alt2(Err(1, Seq2(Ref(ra), Y)), Seq2(Ref(ra), X))), Act(2)),
              Alt2(Err(3, Seq2(X, Plus(X))), Capt(0, Dot))),
     Grammar2(Alt2(Seq3(Plus(X), Act(1), Y), Seq3(Plus(X), Act(2), Opt(Seq2(Y, Ref(ra))))),
              Err(3, Plus(Seq2(Opt(Ref(rs)), Y))))}}

(* Every pair of bodies u v / w, where s may be left-recursive and a not    *)
(* through s; a has a seed.                                                 *)
LrBodies(S, T) == {Alt2(Seq2(e, f), g) : e, f \in S, g \in T}
DirectPrograms ==
  {Program(Grammar2(e, f), {rs, ra}, 3) :
     e \in LrBodies({X, Y, Ref(rs), Ref(ra)}, {X, Y, Ref(rs), Ref(ra)}),
     f \in LrBodies({X, Y, Ref(ra)}, {X, Y})}

(* Captures in attempts that are given up, repeated or only looked at, read *)
(* by actions and error actions behind them.                                *)
Attempts ==
  {Star(Alt2(Seq2(Capt(0, Plus(X)), Y), Dot)),
   Alt2(Seq2(Capt(0, Plus(Dot)), Y), Star(X)),
   Star(Seq2(Capt(0, Seq2(Dot, Opt(X))), Reading(Act(2), {0}))),
   Seq2(And(Capt(0, Star(X))), Not(Seq2(Capt(0, Dot), Y))),
   Star(Seq2(Capt(0, Dot), Alt2(Reading(Err(2, X), {0}), Y)))}
CapturePrograms ==
  {Program(Grammar2(Seq3(e, Reading(Act(1), {0}), Ref(ra)),
                    Alt2(Seq3(Ref(ra), Capt(0, Plus(X)), Reading(Act(3), {0})), Capt(1, Opt(Y)))), {ra}, 3) :
     e \in Attempts}

(* Variables: a direct left recursion, one variable for several attempts   *)
(* and places, look-ahead that leaves answers behind, results changed by    *)
(* one action after the other.                                             *)
ValuePrograms ==
  {Program(Grammar2(e, f), {rs}, 4) :
    <<e, f>> \in
    {<<Alt2(Seq2(Seq3(Named(1, rs), X, Named(2, ra)), Using(Act(1), {1, 2})),
            Seq2(Named(2, ra), Using(Act(2), {2}))),
       Alt2(Seq2(Y, Act(3)), Seq2(Dot, Act(4)))>>,
     <<Seq2(Star(Alt2(Seq3(Named(1, ra), Using(Act(1), {1}), X),
                      Seq3(Named(1, ra), Named(1, ra), Using(Act(2), {1})))), Using(Act(3), {1})),
       Seq2(Dot, Act(4))>>,
     <<Alt2(Seq3(Named(1, ra), And(Seq2(Named(1, ra), Named(2, rs))),
                 Seq2(Named(2, rs), Using(Act(1), {1, 2}))),
            Seq2(Named(1, ra), Using(Act(2), {1}))),
       Alt2(Seq3(X, Named(1, ra), Using(Act(3), {1})), Seq2(Y, Act(4)))>>,
     <<Seq3(Named(1, ra), Using(Act(1), {1}), Plus(Seq2(Named(2, ra), Using(Act(2), {1, 2})))),
       Seq3(Dot, Act(3), Seq2(Opt(X), Act(4)))>>}}

AllPrograms == ExprPrograms \cup PackratPrograms \cup DirectPrograms \cup CapturePrograms \cup ValuePrograms

(* s <- 'x' a / 'x';  a <- 'x' s / 'y'                                      *)
DriftPrograms  == {Program(Grammar2(Alt2(Seq2(X, Ref(ra)), X), Alt2(Seq2(X, Ref(rs)), Y)), {}, 2)}

(* s <- a 'x' / b 'y';  a <- b 'x' / 'y';  b <- a 'z'                       *)
IndirectPrograms ==
  {Program(Grammar3(Alt2(Seq2(Ref(ra), X), Seq2(Ref(rb), Y)),
                    Alt2(Seq2(Ref(rb), X), Y),
                    Seq2(Ref(ra), Z)), {ra, rb}, 3)}
IndirectInputs == {<<"y", "z", "y">>}

(* s <- a 'x' / 'y';  a <- s 'z' / a 'x' / 'x'                              *)
ReentryPrograms ==
  {Program(Grammar2(Alt2(Seq2(Ref(ra), X), Y),
                    Alt3(Seq2(Ref(rs), Z), Seq2(Ref(ra), X), X)), {rs, ra}, 2)}

(* s <- (< . > ('x' ~{ 2, which reads $1 })?)* { 1, which reads $1 }        *)
StringPrograms ==
  {Program(Grammar2(Seq2(Star(Seq2(Capt(0, Dot), Opt(Reading(Err(2, X), {0})))), Reading(Act(1), {0})), X), {}, 2)}

(* s <- a;  a <- 'x' { 1 } s { 2, which reads $$ } / 'y' { 3 }              *)
ResultPrograms ==
  {Program(Grammar2(Ref(ra), Alt2(Seq3(X, Act(1), Seq2(Ref(rs), Act(2))), Seq2(Y, Act(3)))), {}, 2)}

MCInit == ParserInit /\ inlen <= prog.size
MCSpec == MCInit /\ [][ParserNext]_<<vars, pvars>> /\ WF_<<vars, pvars>>(ParserNext)

-----------------------------------------------------------------------------
(* Properties.                                                             *)

Plain == prog.recursive = {}   \* the grammar has no left recursion

Means(r, i)    == Peg!Meaning(prog.grammar, prog.recursive, input, r, i)
Undefined      == Peg!Undefined
Absolute(acts) == [i \in DOMAIN acts |->
                    [act |-> acts[i].act, start |-> acts[i].start + pos, end |-> acts[i].end + pos]]

(* An answer of pcc_apply_rule, a chunk or null with the chunk's contents c  *)
(* and the input position p behind it, is what rule r matches at i: success *)
(* or failure, how much of the input, and the actions of the match, in      *)
(* order, each once, on its text.                                           *)
AnswerMeans(chunk, c, p, r, i) ==
  LET m == Means(r, i) IN
  /\ m.ok = (chunk # None)
  /\ m.ok => p = m.pos /\ Absolute(Actions(c)) = [k \in DOMAIN m.acts |-> StoredBy(m.acts[k])]

ParseAnswered == ctl = "ret" /\ frames = <<>>

(* The first call of pcc_parse matches the start rule as the grammar says.  *)
FirstCallAgrees == ParseAnswered /\ pos = 0 => AnswerMeans(ans, given, Here, Start, 0)

(* So does every later call, from where the one before it stopped.          *)
EveryCallAgrees == ParseAnswered => AnswerMeans(ans, given, Here, Start, pos)

(* In a grammar without left recursion, every result in the memo table is   *)
(* what its rule matches at its index.                                      *)
MemoSound ==
  Plain /\ pos = 0 => \A i \in Index, r \in Rules :
    Memoized(i, r) => AnswerMeans(memo[i][r].chunk, made[i][r], memo[i][r].pos, r, i)

(* An error action is not repeated for one failure of its element.          *)
ErrorActions == [k \in DOMAIN errors |-> Actions(errors[k])[1]]
ErrorsOnce   == Plain => IsInjective(Absolute(ErrorActions))

(* A growth head is made for a rule that is left-recursive in the grammar,  *)
(* and only such a rule; a direct recursion involves no other rule.  So     *)
(* OncePerPlace is about every grammar without left recursion, and no rule  *)
(* that grows directly is evaluated more often than GrowthBounded says.     *)
HeadsMeant ==
  \A i \in Index, r \in Rules : heads[i][r] # None =>
    r \in prog.recursive /\ heads[i][r].invol.set = {}

(* A rule is not evaluated again inside its own re-evaluation at the same   *)
(* place, which would never end.                                            *)
NotReentered ==
  \A j, k \in DOMAIN frames :
    j < k /\ frames[j].mode = "hold" /\ frames[k].mode = "hold"
      => <<frames[j].at, frames[j].rule>> # <<frames[k].at, frames[k].rule>>

(* The actions and error actions that the last call of pcc_parse has run or *)
(* is about to run.                                                         *)
Performed == ToSet(ErrorActions) \cup (IF ParseAnswered /\ ans # None THEN ToSet(Actions(given)) ELSE {})

(* The operands of e; whether action k is in it; what it captures as k.     *)
Parts(e) == CASE e.type \in {"sequence", "alternate"} -> ToSet(e.nodes)
              [] e.type \in {"quantity", "predicate", "capture", "error"} -> {e.expr}
              [] OTHER -> {}
RECURSIVE Performs(_, _)
Performs(e, k) == (e.type \in {"action", "error"} /\ e.index = k) \/ \E f \in Parts(e) : Performs(f, k)
RECURSIVE Captured(_, _)
Captured(e, k) == {f \in Parts(e) : e.type = "capture" /\ e.index = k}
                  \cup UNION {Captured(f, k) : f \in Parts(e)}

(* An action's capture k has been matched, as a whole, from i to j.         *)
CapturedFrom(act, k, i, j) ==
  \E r \in Rules : /\ Performs(prog.grammar[r], act)
                   /\ \E e \in Captured(prog.grammar[r], k) :
                        LET t == [grammar |-> prog.grammar, recursive |-> prog.recursive, input |-> input]
                            m == Peg!Eval(t, e, i, i, Peg!NothingSet, <<>>)
                        IN m.ok /\ m.pos = j

(* Whatever attempts have been given up and repeated since, and whatever    *)
(* has been committed before, $ns and $ne, the two ends of a capture that   *)
(* an action reads, are those of one match of its element in the input,     *)
(* behind the start of the action's own rule.  Its string $n is             *)
(* StringsCurrent's.                                                        *)
CapturesWhole ==
  \A a \in Performed : \A k \in DOMAIN a.capts :
    LET c == a.capts[k] IN
    <<c.start, c.end>> # <<0, 0>> => a.start <= c.start /\ CapturedFrom(a.act, k, pos + c.start, pos + c.end)

(* What an action reads in $n is the text between $ns and $ne: "The string  *)
(* of the captured text", of which README.md says that it is "discarded     *)
(* immediately after evaluation of the action".                             *)
StringsCurrent ==
  \A a \in Performed : \A k \in DOMAIN a.capts :
    LET c == a.capts[k] IN c.string # None => c.string = SubSeq(input, pos + c.start + 1, pos + c.end)

(* The actions of the first call, as the parser performs them and as the   *)
(* grammar means them, and the references without a variable.               *)
Done     == Actions(given)
Meant    == Means(Start, 0).acts
RECURSIVE Unnamed(_)
Unnamed(e) == (e.type = "reference" /\ e.var = 0) \/ \E f \in Parts(e) : Unnamed(f)

SameResults(i) == Meant[i].out # Undefined => Done[i].out = Meant[i].out

(* Actions are performed when all is matched, through pointers into the    *)
(* chunks: what one reads in a variable is the result of the rule that the *)
(* variable was last given to in the match that stands, whatever was       *)
(* matched and given up, grown or recalled before; and in $$ it finds what *)
(* the action before it in its rule has stored, if every rule's result is  *)
(* asked for.                                                              *)
ValuesAgree ==
  ParseAnswered /\ pos = 0 /\ ans # None => \A i \in DOMAIN Done \cap DOMAIN Meant :
    /\ \A v \in DOMAIN Done[i].vars :
         Meant[i].vars[v] # Undefined => Done[i].vars[v] = Meant[i].vars[v]
    /\ (\A r \in Rules : ~ Unnamed(prog.grammar[r])) => SameResults(i)

(* An action finds in $$ what the action before it in its rule has stored. *)
ResultsKept == ParseAnswered /\ pos = 0 /\ ans # None => \A i \in DOMAIN Done \cap DOMAIN Meant : SameResults(i)

(* Every call of pcc_parse returns.                                         *)
EveryCallReturns == (ctl = "body") ~> (ctl \in {"idle", "exit"})
=============================================================================
