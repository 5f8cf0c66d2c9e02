--------------------------- MODULE PegExpressions ---------------------------
(***************************************************************************)
(* Parsing expressions as the parser of PackCC builds them: records with   *)
(* the fields of node_t.  The MC modules write their grammars with these.  *)
(***************************************************************************)
EXTENDS Integers, Sequences

Lit(pat)      == [type |-> "string", pat |-> [i \in DOMAIN pat |-> {pat[i]}]]
Class(cs)     == [type |-> "charclass", set |-> cs]
Ref(r)        == [type |-> "reference", rule |-> r, var |-> 0]
Named(v, r)   == [type |-> "reference", rule |-> r, var |-> v]   \* variable v, from 1
Star(e)       == [type |-> "quantity", min |-> 0, max |-> -1, expr |-> e]
Plus(e)       == [type |-> "quantity", min |-> 1, max |-> -1, expr |-> e]
Opt(e)        == [type |-> "quantity", min |-> 0, max |-> 1, expr |-> e]
And(e)        == [type |-> "predicate", neg |-> FALSE, expr |-> e]
Not(e)        == [type |-> "predicate", neg |-> TRUE, expr |-> e]
Seq2(e, f)    == [type |-> "sequence", nodes |-> <<e, f>>]
Seq3(e, f, g) == [type |-> "sequence", nodes |-> <<e, f, g>>]
Alt2(e, f)    == [type |-> "alternate", nodes |-> <<e, f>>]
Alt3(e, f, g) == [type |-> "alternate", nodes |-> <<e, f, g>>]
Capt(k, e)    == [type |-> "capture", index |-> k, expr |-> e]
Exp(k)        == [type |-> "expand", index |-> k]
Act(k)        == [type |-> "action", index |-> k, capts |-> {}, vars |-> {}]
Err(k, e)     == [type |-> "error", index |-> k, capts |-> {}, vars |-> {}, expr |-> e]
Reading(e, K) == [e EXCEPT !.capts = K]   \* the code of e reads the captures K
Using(e, V)   == [e EXCEPT !.vars = V]    \* the code of e reads the variables V

(* All expressions of one operator over the expressions of S (and T).       *)
Unary(S) == {Star(e) : e \in S} \cup {Plus(e) : e \in S} \cup {Opt(e) : e \in S}
            \cup {And(e) : e \in S} \cup {Not(e) : e \in S} \cup {Capt(0, e) : e \in S}
Binary(S, T) == {Seq2(e, f) : e \in S, f \in T} \cup {Alt2(e, f) : e \in S, f \in T}
=============================================================================
