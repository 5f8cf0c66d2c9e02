---------------------------- MODULE PackratMemo -----------------------------
(***************************************************************************)
(* What packrat parsing promises of results, whatever the grammar and the  *)
(* way in which left recursion is resolved: once it is known what a rule   *)
(* yields at a place, that stays, but for a match that grows; and a call   *)
(* of pcc_parse hands on what is known behind the text that it consumes.   *)
(***************************************************************************)
EXTENDS Integers

CONSTANTS
  Rules,     \* the rules
  Places,    \* the indices of the table
  Outcomes,  \* what a rule may yield: records [match, end]
  None       \* nothing is known; or, as a match: the rule fails

VARIABLES
  known,     \* known[i][r]: what rule r yields at index i
  seen,      \* how much of the input has been read
  start      \* how much of it has been consumed by calls of pcc_parse

vars == <<known, seen, start>>

Init ==
  /\ known = [i \in Places |-> [r \in Rules |-> None]]
  /\ seen = 0 /\ start = 0

Read ==
  /\ seen' > seen
  /\ UNCHANGED <<known, start>>

(* The entry of r at i is all that changes.                                 *)
Only(i, r) ==
  /\ known'[i][r] \in Outcomes
  /\ known'[i][r].end \in i .. seen
  /\ known' = [known EXCEPT ![i][r] = known'[i][r]]

Settle(i, r) ==
  /\ known[i][r] = None /\ known'[i][r] # None
  /\ Only(i, r)

(* A failure is final, and a match gives way only to a longer one.          *)
Grow(i, r) ==
  /\ known[i][r] # None /\ known[i][r].match # None
  /\ known'[i][r] # None /\ known'[i][r].match # None
  /\ known'[i][r].end > known[i][r].end
  /\ Only(i, r)

Learn ==
  /\ UNCHANGED <<seen, start>>
  /\ known' # known
  /\ \E i \in Places, r \in Rules : Settle(i, r) \/ Grow(i, r)

(* b is a, but that the pointers into consumed text are gone.               *)
Same(a, b) ==
  IF a = None THEN b = None
  ELSE b # None /\ b.end = a.end /\ (b.match = None <=> a.match = None)

(* n characters are consumed; where nothing is left, one more is read.      *)
Consume(n) ==
  /\ start' = start + n
  /\ start' <= seen
  /\ seen' = seen \/ (start' = seen /\ seen' = seen + 1)
  /\ \A i \in Places, r \in Rules :
       IF i + n \in Places THEN Same(known[i + n][r], known'[i][r]) ELSE known'[i][r] = None

Next ==
  \/ Read
  \/ Learn
  \/ \E n \in 1 .. seen - start : Consume(n)

Spec == Init /\ [][Next]_vars
=============================================================================
