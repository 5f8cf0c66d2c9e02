---------------------------- MODULE ThunkActions ----------------------------
(***************************************************************************)
(* Performing a chunk: what pcc_do_action makes of the thunks, captures and *)
(* values that a parser of PackratParser has left in it.                    *)
(***************************************************************************)
EXTENDS PackratParser

(* A value is named for the action that stored it.  A variable is not       *)
(* initialised until a rule has matched for it.                             *)
Unwritten   == [act |-> -1, start |-> 0, end |-> 0]
StoredBy(a) == [act |-> a.act, start |-> a.start, end |-> a.end]
ValueOf(values, v) == IF v \in DOMAIN values THEN values[v] ELSE Unwritten

(* pcc_do_action on a chunk: the actions run, in order, with what they find *)
(* in the captures, the variables and $$.  $$ is the variable of the        *)
(* reference; the references that have none share one static variable,      *)
(* null.  An action stores its result in $$.  s: the actions run so far and *)
(* these two.  A chunk that is performed twice starts afresh here.          *)
RECURSIVE pcc_do_action(_, _, _)
pcc_do_action(chunk, named, s) ==
  LET leaf(d, t) ==
        LET a == [act |-> t.act, start |-> t.start, end |-> t.end,
                  capts |-> [k \in t.capts |-> CaptureOf(chunk.capts, k)],
                  vars  |-> [v \in t.vars |-> ValueOf(d.values, v)],
                  out   |-> IF named THEN d.out ELSE d.null]
        IN IF named THEN [d EXCEPT !.acts = Append(@, a), !.out = StoredBy(a)]
           ELSE [d EXCEPT !.acts = Append(@, a), !.null = StoredBy(a)]
      node(d, t) ==
        LET c == pcc_do_action(t.chunk, t.var # 0, [d EXCEPT !.out = ValueOf(d.values, t.var)])
        IN [d EXCEPT !.acts = c.acts, !.null = c.null,
                     !.values = IF t.var = 0 THEN @ ELSE [@ EXCEPT ![t.var] = c.out]]
      done[n \in 0 .. Len(chunk.thunks)] ==
        IF n = 0 THEN [acts |-> s.acts, out |-> s.out, null |-> s.null, values |-> chunk.values]
        ELSE LET t == chunk.thunks[n]
             IN IF t.type = "leaf" THEN leaf(done[n - 1], t) ELSE node(done[n - 1], t)
  IN done[Len(chunk.thunks)]

Actions(chunk) == pcc_do_action(chunk, TRUE, [acts |-> <<>>, out |-> Zeroed, null |-> Zeroed]).acts
=============================================================================
