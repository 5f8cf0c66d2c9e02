-------------------------- MODULE GeneratorProofs --------------------------
(***************************************************************************)
(* Proofs about the code generator: what the code of a rule that it has    *)
(* written is like, for every expression, of any size and nesting.         *)
(***************************************************************************)
EXTENDS MCPackGenerate, RoundProofs, SequenceTheorems, FiniteSetTheorems, TLAPS

-----------------------------------------------------------------------------
(* Instructions.                                                           *)

Labels   == {"L", "loop", "break", "enough"} \X Nat
Counters == {Saved(j) : j \in Nat}
Slots    == Counters \cup {Before(j) : j \in Nat}
            \cup {<<"capture", e.index>> : e \in Expressions}
Jumping ==
  {Label(l) : l \in Labels}
  \cup {Goto(l) : l \in Labels}
  \cup {Call(e, l) : e \in References, l \in Labels}
  \cup {Match(e.pat, l) : e \in Expressions, l \in Labels}
  \cup {Match(<<e.set>>, l) : e \in Expressions, l \in Labels}
  \cup {Expand(e.index, l) : e \in Expressions, l \in Labels}
Counting ==
  {Zero(v) : v \in Counters}
  \cup {Under(v, k, l) : v \in Counters, k \in Nat, l \in Labels}
  \cup {Still(v, l) : v \in Counters, l \in Labels}
  \cup {Count(Saved(j), Loop(j)) : j \in Nat}
Saving ==
  {Save(v) : v \in Slots}
  \cup {Restore(v) : v \in Slots}
  \cup {Capture(e.index, <<"capture", e.index>>) : e \in Expressions}
Ending ==
  {Action(e) : e \in Expressions}
  \cup {ErrorAction(e) : e \in Expressions}
  \cup {ReturnChunk, ReturnNull}
Instructions == Jumping \cup Counting \cup Saving \cup Ending

Shaped(x) ==
  /\ x.op = "label" => x.l \in Labels /\ x = Label(x.l)
  /\ Jumps(x) \subseteq Labels
  /\ x.op = "count" => \E j \in Nat : x = Count(Saved(j), Loop(j))
  /\ x.op = "zero" => x.v \in Counters
  /\ x.op = "save" => x = Save(x.v)
  /\ x.op = "apply" => x.rule \in RulesNamed
  /\ x.op \in {"restore", "still", "capture"} => x.v \in Slots

LEMMA InstructionShape == \A x \in Instructions : Shaped(x)
<1>0. \A j \in Nat : Loop(j) \in Labels
  BY DEF Loop, Labels
<1>1. ASSUME NEW x \in Jumping PROVE Shaped(x)
  <2>1. CASE x \in {Label(l) : l \in Labels}
    BY <1>0, <2>1 DEF Shaped, Jumps, Label
  <2>2. CASE x \in {Goto(l) : l \in Labels}
    BY <1>0, <2>2 DEF Shaped, Jumps, Goto
  <2>3. CASE x \in {Call(e, l) : e \in References, l \in Labels}
    BY <1>0, <2>3 DEF Shaped, Jumps, Call, RulesNamed
  <2>4. CASE x \in {Match(e.pat, l) : e \in Expressions, l \in Labels}
    BY <1>0, <2>4 DEF Shaped, Jumps, Match
  <2>5. CASE x \in {Match(<<e.set>>, l) : e \in Expressions, l \in Labels}
    BY <1>0, <2>5 DEF Shaped, Jumps, Match
  <2>6. CASE x \in {Expand(e.index, l) : e \in Expressions, l \in Labels}
    BY <1>0, <2>6 DEF Shaped, Jumps, Expand
  <2> QED BY <1>1, <2>1, <2>2, <2>3, <2>4, <2>5, <2>6 DEF Jumping
<1>2. ASSUME NEW x \in Counting PROVE Shaped(x)
  <2>1. CASE x \in {Zero(v) : v \in Counters}
    BY <1>0, <2>1 DEF Shaped, Jumps, Zero
  <2>2. CASE x \in {Under(v, k, l) : v \in Counters, k \in Nat, l \in Labels}
    BY <1>0, <2>2 DEF Shaped, Jumps, Under
  <2>3. CASE x \in {Still(v, l) : v \in Counters, l \in Labels}
    BY <1>0, <2>3 DEF Shaped, Jumps, Still, Slots
  <2>4. CASE x \in {Count(Saved(j), Loop(j)) : j \in Nat}
    BY <1>0, <2>4 DEF Shaped, Jumps, Count
  <2> QED BY <1>2, <2>1, <2>2, <2>3, <2>4 DEF Counting
<1>3. ASSUME NEW x \in Saving PROVE Shaped(x)
  <2>1. CASE x \in {Save(v) : v \in Slots}
    BY <1>0, <2>1 DEF Shaped, Jumps, Save
  <2>2. CASE x \in {Restore(v) : v \in Slots}
    BY <1>0, <2>2 DEF Shaped, Jumps, Restore
  <2>3. CASE x \in {Capture(e.index, <<"capture", e.index>>) : e \in Expressions}
    BY <1>0, <2>3 DEF Shaped, Jumps, Capture, Slots
  <2> QED BY <1>3, <2>1, <2>2, <2>3 DEF Saving
<1>4. ASSUME NEW x \in Ending PROVE Shaped(x)
  <2>1. CASE x \in {Action(e) : e \in Expressions}
    BY <1>0, <2>1 DEF Shaped, Jumps, Action
  <2>2. CASE x \in {ErrorAction(e) : e \in Expressions}
    BY <1>0, <2>2 DEF Shaped, Jumps, ErrorAction
  <2>3. CASE x \in {ReturnChunk, ReturnNull}
    BY <1>0, <2>3 DEF Shaped, Jumps, ReturnChunk, ReturnNull
  <2> QED BY <1>4, <2>1, <2>2, <2>3 DEF Ending
<1> QED BY <1>1, <1>2, <1>3, <1>4 DEF Instructions

-----------------------------------------------------------------------------
(* Pieces of code.                                                         *)

(* The labels that code defines, those that it jumps to, those behind which *)
(* it has an error action, and the slots that it uses.                      *)
Defined(code)  == {code[i].l : i \in {i \in DOMAIN code : code[i].op = "label"}}
Targets(code)  == UNION {Jumps(code[i]) : i \in DOMAIN code}
Handlers(code) == {code[i - 1].l : i \in {i \in DOMAIN code : code[i].op = "error"}}

DefinedOnce(code) ==
  \A i, j \in DOMAIN code : i # j /\ code[i].op = "label" => code[i] # code[j]

(* A use of v at place i is in a block from s to t, which begins by setting *)
(* v and is entered there only; its labels are among K.                     *)
InBlock(code, i, v, s, t, K) ==
  /\ s < i /\ i <= t /\ t <= Len(code)
  /\ v \in Sets(code[s])
  /\ \A y \in s + 1 .. t : code[y].op = "label" =>
       /\ code[y].l \in K
       /\ \A x \in DOMAIN code \ (s .. t) : code[y].l \notin Jumps(code[x])

(* All uses are in blocks, but for those of the slots V.                    *)
Blocked(code, V, K) ==
  \A i \in DOMAIN code : \A v \in Uses(code[i]) \ V :
    \E s, t \in DOMAIN code : InBlock(code, i, v, s, t, K)

(* A piece of code that defines D, jumps to T, has error actions behind H,  *)
(* leaves the uses of V to a block around it and has blocks with labels K.  *)
Piece(code, D, T, H, V, K) ==
  /\ code \in Seq(Instructions)
  /\ Defined(code) = D /\ Targets(code) = T /\ Handlers(code) = H
  /\ H \subseteq D
  /\ code # <<>> => code[1].op # "error"
  /\ DefinedOnce(code)
  /\ Blocked(code, V, K)

LEMMA EmptyPiece == Piece(<<>>, {}, {}, {}, {}, {})
  BY DEF Piece, Defined, Targets, Handlers, DefinedOnce, Blocked

(* An instruction alone.                                                   *)
LEMMA OnePiece ==
  ASSUME NEW x \in Instructions, x.op # "error"
  PROVE  Piece(<<x>>, IF x.op = "label" THEN {x.l} ELSE {}, Jumps(x), {}, Uses(x), {})
<1> DEFINE c == <<x>>
<1>1. c \in Seq(Instructions) /\ Len(c) = 1 /\ DOMAIN c = {1} /\ c[1] = x
  OBVIOUS
<1> HIDE DEF c
<1>2. Defined(c) = IF x.op = "label" THEN {x.l} ELSE {}
  BY <1>1 DEF Defined
<1>3. Targets(c) = Jumps(x)
  BY <1>1 DEF Targets
<1>4. Handlers(c) = {}
  BY <1>1 DEF Handlers
<1>5. DefinedOnce(c)
  BY <1>1 DEF DefinedOnce
<1>6. Blocked(c, Uses(x), {})
  BY <1>1 DEF Blocked
<1>7. Piece(c, IF x.op = "label" THEN {x.l} ELSE {}, Jumps(x), {}, Uses(x), {})
  BY <1>1, <1>2, <1>3, <1>4, <1>5, <1>6 DEF Piece
<1> QED BY <1>7 DEF c

(* An error action behind its label.                                       *)
LEMMA ErrorPiece ==
  ASSUME NEW l \in Labels, NEW e \in Expressions
  PROVE  Piece(<<Label(l), ErrorAction(e)>>, {l}, {}, {l}, {}, {})
<1> DEFINE c == <<Label(l), ErrorAction(e)>>
<1>1. Label(l) \in Instructions /\ ErrorAction(e) \in Instructions
  BY DEF Instructions, Jumping, Ending
<1>2. /\ Label(l).op = "label" /\ Label(l).l = l /\ ErrorAction(e).op = "error"
      /\ Jumps(Label(l)) = {} /\ Jumps(ErrorAction(e)) = {}
      /\ Uses(Label(l)) = {} /\ Uses(ErrorAction(e)) = {}
  BY DEF Label, ErrorAction, Jumps, Uses
<1>3. c \in Seq(Instructions) /\ DOMAIN c = {1, 2} /\ c[1] = Label(l) /\ c[2] = ErrorAction(e)
  BY <1>1
<1> HIDE DEF c
<1>4. Defined(c) = {l}
  BY <1>2, <1>3 DEF Defined
<1>5. Targets(c) = {}
  BY <1>2, <1>3 DEF Targets
<1>6. Handlers(c) = {l}
  BY <1>2, <1>3 DEF Handlers
<1>7. DefinedOnce(c)
  BY <1>2, <1>3 DEF DefinedOnce
<1>8. Blocked(c, {}, {})
  BY <1>2, <1>3 DEF Blocked
<1>9. Piece(c, {l}, {}, {l}, {}, {})
  BY <1>2, <1>3, <1>4, <1>5, <1>6, <1>7, <1>8 DEF Piece
<1> QED BY <1>9 DEF c

(* The places of one piece behind another.                                 *)
Follows(c, a, b) ==
  /\ c \in Seq(Instructions) /\ Len(c) = Len(a) + Len(b)
  /\ \A i \in 1 .. Len(a) : i \in DOMAIN c /\ c[i] = a[i]
  /\ \A i \in 1 .. Len(b) : Len(a) + i \in DOMAIN c /\ c[Len(a) + i] = b[i]
  /\ \A k \in DOMAIN c : k \in 1 .. Len(a) \/ \E i \in 1 .. Len(b) : k = Len(a) + i

LEMMA JoinPlaces ==
  ASSUME NEW a \in Seq(Instructions), NEW b \in Seq(Instructions)
  PROVE  Follows(a \o b, a, b)
<1> DEFINE c == a \o b
           m == Len(a)
           n == Len(b)
<1>1. m \in Nat /\ n \in Nat
  OBVIOUS
<1>2. /\ c \in Seq(Instructions) /\ Len(c) = m + n
      /\ \A i \in 1 .. m + n : c[i] = IF i <= m THEN a[i] ELSE b[i - m]
  BY ConcatProperties
<1>3. DOMAIN c = 1 .. m + n
  BY <1>2
<1> HIDE DEF c, m, n
<1>4. ASSUME NEW i \in 1 .. m PROVE i \in DOMAIN c /\ c[i] = a[i]
  BY <1>1, <1>2, <1>3
<1>5. ASSUME NEW i \in 1 .. n PROVE m + i \in DOMAIN c /\ c[m + i] = b[i]
  <2>1. m + i \in 1 .. m + n /\ ~ (m + i <= m) /\ (m + i) - m = i
    BY <1>1
  <2> QED BY <1>2, <1>3, <2>1
<1>6. ASSUME NEW k \in DOMAIN c, k \notin 1 .. m PROVE \E i \in 1 .. n : k = m + i
  <2>1. k - m \in 1 .. n /\ k = m + (k - m)
    BY <1>1, <1>3, <1>6
  <2> QED BY <2>1
<1> QED BY <1>2, <1>4, <1>5, <1>6 DEF Follows, c, m, n

LEMMA JoinPieces ==
  ASSUME NEW a, NEW D1, NEW T1, NEW H1, NEW V1, NEW K1, Piece(a, D1, T1, H1, V1, K1),
         NEW b, NEW D2, NEW T2, NEW H2, NEW V2, NEW K2, Piece(b, D2, T2, H2, V2, K2),
         D1 \cap D2 = {}, T1 \cap K2 = {}, T2 \cap K1 = {}
  PROVE  Piece(a \o b, D1 \cup D2, T1 \cup T2, H1 \cup H2, V1 \cup V2, K1 \cup K2)
<1> DEFINE c == a \o b
           m == Len(a)
<1>1. a \in Seq(Instructions) /\ b \in Seq(Instructions)
  BY DEF Piece
<1>2. Follows(c, a, b)
  BY <1>1, JoinPlaces
<1>3. m \in Nat /\ Len(b) \in Nat /\ DOMAIN a = 1 .. m /\ DOMAIN b = 1 .. Len(b)
  BY <1>1
<1> HIDE DEF c, m
<1>4. /\ c \in Seq(Instructions) /\ Len(c) = m + Len(b) /\ DOMAIN c = 1 .. m + Len(b)
      /\ \A i \in DOMAIN a : i \in DOMAIN c /\ c[i] = a[i]
      /\ \A i \in DOMAIN b : m + i \in DOMAIN c /\ c[m + i] = b[i]
      /\ \A k \in DOMAIN c : k \in DOMAIN a \/ \E i \in DOMAIN b : k = m + i
  <2>1. /\ c \in Seq(Instructions) /\ Len(c) = m + Len(b)
        /\ \A i \in 1 .. m : i \in DOMAIN c /\ c[i] = a[i]
        /\ \A i \in 1 .. Len(b) : m + i \in DOMAIN c /\ c[m + i] = b[i]
        /\ \A k \in DOMAIN c : k \in 1 .. m \/ \E i \in 1 .. Len(b) : k = m + i
    BY <1>2 DEF Follows, m
  <2>2. DOMAIN c = 1 .. Len(c)
    BY <2>1
  <2> QED BY <1>3, <2>1, <2>2
<1>5. Defined(c) = D1 \cup D2
  <2>1. Defined(a) = D1 /\ Defined(b) = D2
    BY DEF Piece
  <2>2. Defined(c) \subseteq Defined(a) \cup Defined(b)
    BY <1>4 DEF Defined
  <2>3. Defined(a) \subseteq Defined(c) /\ Defined(b) \subseteq Defined(c)
    BY <1>4 DEF Defined
  <2> QED BY <2>1, <2>2, <2>3
<1>6. Targets(c) = T1 \cup T2
  <2>1. Targets(a) = T1 /\ Targets(b) = T2
    BY DEF Piece
  <2>2. Targets(c) \subseteq Targets(a) \cup Targets(b)
    BY <1>4 DEF Targets
  <2>3. Targets(a) \subseteq Targets(c) /\ Targets(b) \subseteq Targets(c)
    BY <1>4 DEF Targets
  <2> QED BY <2>1, <2>2, <2>3
<1>7. /\ \A i \in DOMAIN a : a[i].op = "error" => i - 1 \in DOMAIN a
      /\ \A i \in DOMAIN b : b[i].op = "error" => i - 1 \in DOMAIN b
  BY <1>3 DEF Piece
<1>8. Handlers(c) = H1 \cup H2
  <2>1. Handlers(a) = H1 /\ Handlers(b) = H2
    BY DEF Piece
  <2>2. ASSUME NEW i \in DOMAIN a, a[i].op = "error" PROVE c[i] = a[i] /\ c[i - 1] = a[i - 1]
    BY <1>4, <1>7, <2>2
  <2>3. ASSUME NEW i \in DOMAIN b, b[i].op = "error"
        PROVE  c[m + i] = b[i] /\ c[(m + i) - 1] = b[i - 1]
    <3>1. (m + i) - 1 = m + (i - 1)
      BY <1>3
    <3> QED BY <1>4, <1>7, <2>3, <3>1
  <2>4. Handlers(a) \subseteq Handlers(c)
    BY <1>4, <2>2 DEF Handlers
  <2>5. Handlers(b) \subseteq Handlers(c)
    BY <1>4, <2>3 DEF Handlers
  <2>6. Handlers(c) \subseteq Handlers(a) \cup Handlers(b)
    <3>1. ASSUME NEW k \in DOMAIN c, c[k].op = "error"
          PROVE  c[k - 1].l \in Handlers(a) \cup Handlers(b)
      <4>1. CASE k \in DOMAIN a
        BY <1>4, <2>2, <3>1, <4>1 DEF Handlers
      <4>2. CASE \E i \in DOMAIN b : k = m + i
        BY <1>4, <2>3, <3>1, <4>2 DEF Handlers
      <4> QED BY <1>4, <4>1, <4>2
    <3> QED BY <3>1 DEF Handlers
  <2> QED BY <2>1, <2>4, <2>5, <2>6
<1>9. DefinedOnce(c)
  <2>1. DefinedOnce(a) /\ DefinedOnce(b)
    BY DEF Piece
  <2>2. ASSUME NEW x \in Instructions, x.op = "label" PROVE x = Label(x.l)
    BY <2>2, InstructionShape DEF Shaped
  <2>3. ASSUME NEW i \in DOMAIN a, NEW j \in DOMAIN b,
               a[i].op = "label" \/ b[j].op = "label", a[i] = b[j]
        PROVE  FALSE
    <3>1. a[i].l \in D1
      BY <2>3 DEF Piece, Defined
    <3>2. b[j].l \in D2
      BY <2>3 DEF Piece, Defined
    <3> QED BY <2>3, <3>1, <3>2
  <2>4. ASSUME NEW k \in DOMAIN c, NEW h \in DOMAIN c, k # h, c[k].op = "label", c[k] = c[h]
        PROVE  FALSE
    <3>1. CASE k \in DOMAIN a /\ h \in DOMAIN a
      BY <1>4, <2>1, <2>4, <3>1 DEF DefinedOnce
    <3>2. CASE k \in DOMAIN a /\ \E i \in DOMAIN b : h = m + i
      BY <1>4, <2>3, <2>4, <3>2
    <3>3. CASE h \in DOMAIN a /\ \E i \in DOMAIN b : k = m + i
      BY <1>4, <2>3, <2>4, <3>3
    <3>4. CASE (\E i \in DOMAIN b : k = m + i) /\ (\E i \in DOMAIN b : h = m + i)
      <4>1. PICK i \in DOMAIN b, j \in DOMAIN b : k = m + i /\ h = m + j
        BY <3>4
      <4> QED BY <1>4, <2>1, <2>4, <4>1 DEF DefinedOnce
    <3> QED BY <1>4, <3>1, <3>2, <3>3, <3>4
  <2> QED BY <2>4 DEF DefinedOnce
<1>10. c # <<>> => c[1].op # "error"
  <2>1. CASE a = <<>>
    BY <1>3, <1>4, <2>1 DEF Piece, m
  <2>2. CASE a # <<>>
    BY <1>3, <1>4, <2>2 DEF Piece, m
  <2> QED BY <2>1, <2>2
<1>11. Blocked(c, V1 \cup V2, K1 \cup K2)
  <2>1. /\ Blocked(a, V1, K1) /\ Blocked(b, V2, K2)
        /\ \A j \in DOMAIN a : Jumps(a[j]) \subseteq T1
        /\ \A j \in DOMAIN b : Jumps(b[j]) \subseteq T2
    BY DEF Piece, Targets
  <2>2. ASSUME NEW i \in DOMAIN a, NEW v \in Uses(a[i]) \ V1
        PROVE  \E s, t \in DOMAIN c : InBlock(c, i, v, s, t, K1 \cup K2)
    <3>1. PICK s \in DOMAIN a, t \in DOMAIN a : InBlock(a, i, v, s, t, K1)
      BY <2>1, <2>2 DEF Blocked
    <3>2. ASSUME NEW y \in s + 1 .. t, c[y].op = "label"
          PROVE  /\ c[y].l \in K1
                 /\ \A x \in DOMAIN c \ (s .. t) : c[y].l \notin Jumps(c[x])
      <4>1. y \in DOMAIN a /\ c[y] = a[y]
        BY <1>3, <1>4, <3>1 DEF InBlock
      <4>2. /\ a[y].l \in K1
            /\ \A x \in DOMAIN a \ (s .. t) : a[y].l \notin Jumps(a[x])
        BY <3>1, <3>2, <4>1 DEF InBlock
      <4>3. ASSUME NEW x \in DOMAIN c \ (s .. t) PROVE a[y].l \notin Jumps(c[x])
        <5>1. CASE x \in DOMAIN a
          BY <1>4, <4>2, <5>1
        <5>2. CASE \E j \in DOMAIN b : x = m + j
          BY <1>4, <2>1, <4>2, <5>2
        <5> QED BY <1>4, <5>1, <5>2
      <4> QED BY <4>1, <4>2, <4>3
    <3>3. s \in DOMAIN c /\ t \in DOMAIN c /\ c[s] = a[s] /\ t <= Len(c)
      BY <1>3, <1>4
    <3>4. InBlock(c, i, v, s, t, K1 \cup K2)
      BY <3>1, <3>2, <3>3 DEF InBlock
    <3> QED BY <3>3, <3>4
  <2>3. ASSUME NEW i \in DOMAIN b, NEW v \in Uses(b[i]) \ V2
        PROVE  \E s, t \in DOMAIN c : InBlock(c, m + i, v, s, t, K1 \cup K2)
    <3>1. PICK s \in DOMAIN b, t \in DOMAIN b : InBlock(b, i, v, s, t, K2)
      BY <2>1, <2>3 DEF Blocked
    <3>2. ASSUME NEW y \in (m + s) + 1 .. m + t, c[y].op = "label"
          PROVE  /\ c[y].l \in K2
                 /\ \A x \in DOMAIN c \ (m + s .. m + t) : c[y].l \notin Jumps(c[x])
      <4> DEFINE z == y - m
      <4>1. z \in s + 1 .. t /\ z \in DOMAIN b /\ y = m + z
        BY <1>3, <3>1 DEF InBlock
      <4> HIDE DEF z
      <4>2. c[y] = b[z]
        BY <1>4, <4>1
      <4>3. /\ b[z].l \in K2
            /\ \A x \in DOMAIN b \ (s .. t) : b[z].l \notin Jumps(b[x])
        BY <3>1, <3>2, <4>1, <4>2 DEF InBlock
      <4>4. ASSUME NEW x \in DOMAIN c \ (m + s .. m + t) PROVE b[z].l \notin Jumps(c[x])
        <5>1. CASE x \in DOMAIN a
          BY <1>4, <2>1, <4>3, <5>1
        <5>2. CASE \E j \in DOMAIN b : x = m + j
          <6>1. PICK j \in DOMAIN b : x = m + j
            BY <5>2
          <6>2. j \notin s .. t
            BY <1>3, <6>1
          <6> QED BY <1>4, <4>3, <6>1, <6>2
        <5> QED BY <1>4, <5>1, <5>2
      <4> QED BY <4>2, <4>3, <4>4
    <3>3. m + s \in DOMAIN c /\ m + t \in DOMAIN c /\ c[m + s] = b[s] /\ m + t <= Len(c)
      BY <1>3, <1>4
    <3>4. m + s < m + i /\ m + i <= m + t /\ v \in Sets(b[s])
      BY <1>3, <3>1 DEF InBlock
    <3>5. InBlock(c, m + i, v, m + s, m + t, K1 \cup K2)
      BY <3>2, <3>3, <3>4 DEF InBlock
    <3> QED BY <3>3, <3>5
  <2>4. ASSUME NEW k \in DOMAIN c, NEW v \in Uses(c[k]) \ (V1 \cup V2)
        PROVE  \E s, t \in DOMAIN c : InBlock(c, k, v, s, t, K1 \cup K2)
    <3>1. CASE k \in DOMAIN a
      BY <1>4, <2>2, <2>4, <3>1
    <3>2. CASE \E i \in DOMAIN b : k = m + i
      <4>1. PICK i \in DOMAIN b : k = m + i
        BY <3>2
      <4>2. v \in Uses(b[i]) \ V2
        BY <1>4, <2>4, <4>1
      <4> QED BY <2>3, <4>1, <4>2
    <3> QED BY <1>4, <3>1, <3>2
  <2> QED BY <2>4 DEF Blocked
<1>12. H1 \cup H2 \subseteq D1 \cup D2
  BY DEF Piece
<1> QED BY <1>4, <1>5, <1>6, <1>8, <1>9, <1>10, <1>11, <1>12 DEF Piece, c

(* The same, for pieces of which the first has no blocks, or the second.   *)
LEMMA JoinOpen ==
  ASSUME NEW a, NEW D1, NEW T1, NEW H1, NEW V1, NEW K1, Piece(a, D1, T1, H1, V1, K1),
         NEW b, NEW D2, NEW T2, NEW V2, Piece(b, D2, T2, {}, V2, {}),
         D1 \cap D2 = {}, T2 \cap K1 = {}
  PROVE  Piece(a \o b, D1 \cup D2, T1 \cup T2, H1, V1 \cup V2, K1)
<1>1. Piece(a \o b, D1 \cup D2, T1 \cup T2, H1 \cup {}, V1 \cup V2, K1 \cup {})
  <2>1. T1 \cap {} = {}
    OBVIOUS
  <2> QED BY <2>1, JoinPieces
<1>2. H1 \cup {} = H1 /\ K1 \cup {} = K1
  OBVIOUS
<1> QED BY <1>1, <1>2

LEMMA JoinBehind ==
  ASSUME NEW a, NEW V1, Piece(a, {}, {}, {}, V1, {}),
         NEW b, NEW D2, NEW T2, NEW H2, NEW V2, NEW K2, Piece(b, D2, T2, H2, V2, K2)
  PROVE  Piece(a \o b, D2, T2, H2, V1 \cup V2, K2)
<1>1. {} \cap D2 = {} /\ {} \cap K2 = {} /\ T2 \cap {} = {}
  OBVIOUS
<1>2. Piece(a \o b, {} \cup D2, {} \cup T2, {} \cup H2, V1 \cup V2, {} \cup K2)
  BY <1>1, JoinPieces
<1>3. {} \cup D2 = D2 /\ {} \cup T2 = T2 /\ {} \cup H2 = H2 /\ {} \cup K2 = K2
  OBVIOUS
<1> QED BY <1>2, <1>3

(* The place s, in front of which there is nothing to jump or to use        *)
(* anything, opens a block with all that follows.                           *)
LEMMA ClosePiece ==
  ASSUME NEW code, NEW D, NEW T, NEW H, NEW V, NEW K, Piece(code, D, T, H, V, K),
         NEW s \in DOMAIN code, \A x \in 1 .. s : Jumps(code[x]) = {} /\ Uses(code[x]) = {}
  PROVE  Piece(code, D, T, H, V \ Sets(code[s]), K \cup D)
<1>1. code \in Seq(Instructions) /\ DOMAIN code = 1 .. Len(code) /\ Len(code) \in Nat
  BY DEF Piece
<1>2. ASSUME NEW i \in DOMAIN code, NEW v \in Uses(code[i]), v \in Sets(code[s])
      PROVE  InBlock(code, i, v, s, Len(code), K \cup D)
  <2>1. s < i /\ i <= Len(code)
    BY <1>1, <1>2
  <2>2. ASSUME NEW y \in s + 1 .. Len(code), code[y].op = "label" PROVE code[y].l \in D
    BY <1>1, <2>2 DEF Piece, Defined
  <2>3. ASSUME NEW x \in DOMAIN code \ (s .. Len(code)) PROVE Jumps(code[x]) = {}
    BY <1>1
  <2> QED BY <1>1, <1>2, <2>1, <2>2, <2>3 DEF InBlock
<1>3. ASSUME NEW i \in DOMAIN code, NEW v \in Uses(code[i]) \ V
      PROVE  \E p, t \in DOMAIN code : InBlock(code, i, v, p, t, K \cup D)
  <2>1. PICK p \in DOMAIN code, t \in DOMAIN code : InBlock(code, i, v, p, t, K)
    BY <1>3 DEF Piece, Blocked
  <2>2. InBlock(code, i, v, p, t, K \cup D)
    BY <2>1 DEF InBlock
  <2> QED BY <2>2
<1>4. Blocked(code, V \ Sets(code[s]), K \cup D)
  <2>1. ASSUME NEW i \in DOMAIN code, NEW v \in Uses(code[i]) \ (V \ Sets(code[s]))
        PROVE  \E p, t \in DOMAIN code : InBlock(code, i, v, p, t, K \cup D)
    <3>1. CASE v \in Sets(code[s])
      <4>1. Len(code) \in DOMAIN code
        BY <1>1
      <4> QED BY <1>2, <3>1, <4>1
    <3>2. CASE v \notin Sets(code[s])
      BY <1>3, <3>2
    <3> QED BY <3>1, <3>2
  <2> QED BY <2>1 DEF Blocked
<1> QED BY <1>4 DEF Piece

(* Blocks with labels K may be said to have more.                          *)
LEMMA WidenPiece ==
  ASSUME NEW code, NEW D, NEW T, NEW H, NEW V, NEW K, Piece(code, D, T, H, V, K),
         NEW W, V \subseteq W, NEW M, K \subseteq M
  PROVE  Piece(code, D, T, H, W, M)
<1>1. ASSUME NEW i \in DOMAIN code, NEW v \in Uses(code[i]) \ W
      PROVE  \E s, t \in DOMAIN code : InBlock(code, i, v, s, t, M)
  <2>1. PICK s \in DOMAIN code, t \in DOMAIN code : InBlock(code, i, v, s, t, K)
    BY <1>1 DEF Piece, Blocked
  <2>2. InBlock(code, i, v, s, t, M)
    BY <2>1 DEF InBlock
  <2> QED BY <2>2
<1> QED BY <1>1 DEF Piece, Blocked

-----------------------------------------------------------------------------
(* Pieces of a few instructions.                                           *)

(* Instruction x defines D, jumps to T, uses V and sets W.                  *)
Traits(x, D, T, V, W) ==
  /\ x \in Instructions /\ x.op # "error"
  /\ D = IF x.op = "label" THEN {x.l} ELSE {}
  /\ T = Jumps(x) /\ V = Uses(x) /\ W = Sets(x)

LEMMA InstructionTraits ==
  /\ \A l \in Labels : Traits(Label(l), {l}, {}, {}, {})
  /\ \A l \in Labels : Traits(Goto(l), {}, {l}, {}, {})
  /\ \A v \in Slots : Traits(Save(v), {}, {}, {}, {v})
  /\ \A v \in Slots : Traits(Restore(v), {}, {}, {v}, {})
  /\ \A v \in Counters : Traits(Zero(v), {}, {}, {}, {Counter(v)})
  /\ \A v \in Counters, k \in Nat, l \in Labels : Traits(Under(v, k, l), {}, {l}, {Counter(v)}, {})
  /\ \A v \in Counters, l \in Labels : Traits(Still(v, l), {}, {l}, {v}, {})
  /\ \A j \in Nat : Traits(Count(Saved(j), Loop(j)), {}, {Loop(j)}, {Counter(Saved(j))}, {})
  /\ \A e \in Expressions : /\ <<"capture", e.index>> \in Slots
                           /\ Traits(Capture(e.index, <<"capture", e.index>>),
                                     {}, {}, {<<"capture", e.index>>}, {})
<1>1. ASSUME NEW l \in Labels PROVE Traits(Label(l), {l}, {}, {}, {})
  BY DEF Traits, Instructions, Jumping, Jumps, Uses, Sets, Label
<1>2. ASSUME NEW l \in Labels PROVE Traits(Goto(l), {}, {l}, {}, {})
  BY DEF Traits, Instructions, Jumping, Jumps, Uses, Sets, Goto
<1>3. ASSUME NEW v \in Slots PROVE Traits(Save(v), {}, {}, {}, {v})
  BY DEF Traits, Instructions, Saving, Jumps, Uses, Sets, Save
<1>4. ASSUME NEW v \in Slots PROVE Traits(Restore(v), {}, {}, {v}, {})
  BY DEF Traits, Instructions, Saving, Jumps, Uses, Sets, Restore
<1>5. ASSUME NEW v \in Counters PROVE Traits(Zero(v), {}, {}, {}, {Counter(v)})
  BY DEF Traits, Instructions, Counting, Jumps, Uses, Sets, Zero
<1>6. ASSUME NEW v \in Counters, NEW k \in Nat, NEW l \in Labels
      PROVE  Traits(Under(v, k, l), {}, {l}, {Counter(v)}, {})
  BY DEF Traits, Instructions, Counting, Jumps, Uses, Sets, Under
<1>7. ASSUME NEW v \in Counters, NEW l \in Labels PROVE Traits(Still(v, l), {}, {l}, {v}, {})
  BY DEF Traits, Instructions, Counting, Jumps, Uses, Sets, Still
<1>8. ASSUME NEW j \in Nat PROVE Traits(Count(Saved(j), Loop(j)), {}, {Loop(j)}, {Counter(Saved(j))}, {})
  BY DEF Traits, Instructions, Counting, Jumps, Uses, Sets, Count
<1>9. ASSUME NEW e \in Expressions
      PROVE  /\ <<"capture", e.index>> \in Slots
             /\ Traits(Capture(e.index, <<"capture", e.index>>), {}, {}, {<<"capture", e.index>>}, {})
  BY DEF Traits, Instructions, Saving, Slots, Jumps, Uses, Sets, Capture
<1> QED BY <1>1, <1>2, <1>3, <1>4, <1>5, <1>6, <1>7, <1>8, <1>9

LEMMA SinglePiece ==
  ASSUME NEW x, NEW D, NEW T, NEW V, NEW W, Traits(x, D, T, V, W)
  PROVE  Piece(<<x>>, D, T, {}, V, {})
<1>1. Piece(<<x>>, IF x.op = "label" THEN {x.l} ELSE {}, Jumps(x), {}, Uses(x), {})
  BY OnePiece DEF Traits
<1> QED BY <1>1 DEF Traits

(* One more instruction.                                                   *)
LEMMA LongerPiece ==
  ASSUME NEW a, NEW D1, NEW T1, NEW H1, NEW V1, Piece(a, D1, T1, H1, V1, {}),
         NEW x, NEW D2, NEW T2, NEW V2, NEW W2, Traits(x, D2, T2, V2, W2), D1 \cap D2 = {}
  PROVE  Piece(a \o <<x>>, D1 \cup D2, T1 \cup T2, H1, V1 \cup V2, {})
<1>1. Piece(<<x>>, D2, T2, {}, V2, {})
  BY SinglePiece
<1>2. Piece(a \o <<x>>, D1 \cup D2, T1 \cup T2, H1 \cup {}, V1 \cup V2, {} \cup {})
  BY <1>1, JoinPieces
<1> QED BY <1>2

LEMMA LiteralIs ==
  ASSUME NEW S, NEW s \in Seq(S), NEW t \in Seq(S), NEW x \in S,
         Len(t) = Len(s) + 1, \A i \in 1 .. Len(s) : t[i] = s[i], t[Len(s) + 1] = x
  PROVE  t = s \o <<x>>
<1> DEFINE u == s \o <<x>>
<1>1. <<x>> \in Seq(S) /\ Len(<<x>>) = 1 /\ <<x>>[1] = x
  OBVIOUS
<1>2. /\ u \in Seq(S) /\ Len(u) = Len(s) + 1
      /\ \A i \in 1 .. Len(s) + 1 : u[i] = IF i <= Len(s) THEN s[i] ELSE <<x>>[i - Len(s)]
  BY <1>1, ConcatProperties
<1> HIDE DEF u
<1>3. \A i \in 1 .. Len(s) + 1 : t[i] = u[i]
  <2>1. ASSUME NEW i \in 1 .. Len(s) PROVE t[i] = u[i]
    BY <1>2
  <2>2. u[Len(s) + 1] = x
    BY <1>1, <1>2
  <2> QED BY <2>1, <2>2
<1>4. t = u
  BY <1>2, <1>3, SeqEqual
<1> QED BY <1>4 DEF u

LEMMA TwoLiterals ==
  ASSUME NEW a, NEW b
  PROVE  <<a, b>> = <<a>> \o <<b>>
<1> DEFINE S == {a, b}
           s == <<a>>
           t == <<a, b>>
<1>1. /\ s \in Seq(S) /\ t \in Seq(S) /\ Len(s) = 1 /\ Len(t) = 2 /\ b \in S
      /\ \A i \in 1 .. 1 : t[i] = s[i]
      /\ t[1 + 1] = b
  OBVIOUS
<1> HIDE DEF S, s, t
<1>2. /\ s \in Seq(S) /\ t \in Seq(S) /\ b \in S
      /\ Len(t) = Len(s) + 1 /\ (\A i \in 1 .. Len(s) : t[i] = s[i]) /\ t[Len(s) + 1] = b
  BY <1>1
<1>3. t = s \o <<b>>
  BY <1>2, LiteralIs, Zenon
<1> QED BY <1>3 DEF s, t

LEMMA ThreeLiterals ==
  ASSUME NEW a, NEW b, NEW c
  PROVE  <<a, b, c>> = <<a, b>> \o <<c>>
<1> DEFINE S == {a, b, c}
           s == <<a, b>>
           t == <<a, b, c>>
<1>1. /\ s \in Seq(S) /\ t \in Seq(S) /\ Len(s) = 2 /\ Len(t) = 3 /\ c \in S
      /\ \A i \in 1 .. 2 : t[i] = s[i]
      /\ t[2 + 1] = c
  OBVIOUS
<1> HIDE DEF S, s, t
<1>2. /\ s \in Seq(S) /\ t \in Seq(S) /\ c \in S
      /\ Len(t) = Len(s) + 1 /\ (\A i \in 1 .. Len(s) : t[i] = s[i]) /\ t[Len(s) + 1] = c
  BY <1>1
<1>3. t = s \o <<c>>
  BY <1>2, LiteralIs, Zenon
<1> QED BY <1>3 DEF s, t

LEMMA FourLiterals ==
  ASSUME NEW a, NEW b, NEW c, NEW d
  PROVE  <<a, b, c, d>> = <<a, b, c>> \o <<d>>
<1> DEFINE S == {a, b, c, d}
           s == <<a, b, c>>
           t == <<a, b, c, d>>
<1>1. /\ s \in Seq(S) /\ t \in Seq(S) /\ Len(s) = 3 /\ Len(t) = 4 /\ d \in S
      /\ \A i \in 1 .. 3 : t[i] = s[i]
      /\ t[3 + 1] = d
  OBVIOUS
<1> HIDE DEF S, s, t
<1>2. /\ s \in Seq(S) /\ t \in Seq(S) /\ d \in S
      /\ Len(t) = Len(s) + 1 /\ (\A i \in 1 .. Len(s) : t[i] = s[i]) /\ t[Len(s) + 1] = d
  BY <1>1
<1>3. t = s \o <<d>>
  BY <1>2, LiteralIs, Zenon
<1> QED BY <1>3 DEF s, t

LEMMA TwoPiece ==
  ASSUME NEW x, NEW D1, NEW T1, NEW V1, NEW W1, Traits(x, D1, T1, V1, W1),
         NEW y, NEW D2, NEW T2, NEW V2, NEW W2, Traits(y, D2, T2, V2, W2), D1 \cap D2 = {}
  PROVE  Piece(<<x, y>>, D1 \cup D2, T1 \cup T2, {}, V1 \cup V2, {})
<1>1. Piece(<<x>>, D1, T1, {}, V1, {})
  BY SinglePiece
<1>2. Piece(<<x>> \o <<y>>, D1 \cup D2, T1 \cup T2, {}, V1 \cup V2, {})
  BY <1>1, LongerPiece
<1>3. <<x, y>> = <<x>> \o <<y>>
  BY TwoLiterals
<1> QED BY <1>2, <1>3

LEMMA ThreePiece ==
  ASSUME NEW x, NEW D1, NEW T1, NEW V1, NEW W1, Traits(x, D1, T1, V1, W1),
         NEW y, NEW D2, NEW T2, NEW V2, NEW W2, Traits(y, D2, T2, V2, W2), D1 \cap D2 = {},
         NEW z, NEW D3, NEW T3, NEW V3, NEW W3, Traits(z, D3, T3, V3, W3),
         (D1 \cup D2) \cap D3 = {}
  PROVE  Piece(<<x, y, z>>, (D1 \cup D2) \cup D3, (T1 \cup T2) \cup T3, {},
               (V1 \cup V2) \cup V3, {})
<1>1. Piece(<<x, y>>, D1 \cup D2, T1 \cup T2, {}, V1 \cup V2, {})
  BY TwoPiece
<1>2. Piece(<<x, y>> \o <<z>>, (D1 \cup D2) \cup D3, (T1 \cup T2) \cup T3, {},
            (V1 \cup V2) \cup V3, {})
  BY <1>1, LongerPiece
<1>3. <<x, y, z>> = <<x, y>> \o <<z>>
  BY ThreeLiterals
<1> QED BY <1>2, <1>3

LEMMA FourPiece ==
  ASSUME NEW x, NEW D1, NEW T1, NEW V1, NEW W1, Traits(x, D1, T1, V1, W1),
         NEW y, NEW D2, NEW T2, NEW V2, NEW W2, Traits(y, D2, T2, V2, W2), D1 \cap D2 = {},
         NEW z, NEW D3, NEW T3, NEW V3, NEW W3, Traits(z, D3, T3, V3, W3),
         (D1 \cup D2) \cap D3 = {},
         NEW u, NEW D4, NEW T4, NEW V4, NEW W4, Traits(u, D4, T4, V4, W4),
         ((D1 \cup D2) \cup D3) \cap D4 = {}
  PROVE  Piece(<<x, y, z, u>>, ((D1 \cup D2) \cup D3) \cup D4, ((T1 \cup T2) \cup T3) \cup T4,
               {}, ((V1 \cup V2) \cup V3) \cup V4, {})
<1>1. Piece(<<x, y, z>>, (D1 \cup D2) \cup D3, (T1 \cup T2) \cup T3, {}, (V1 \cup V2) \cup V3, {})
  BY ThreePiece
<1>2. Piece(<<x, y, z>> \o <<u>>, ((D1 \cup D2) \cup D3) \cup D4, ((T1 \cup T2) \cup T3) \cup T4,
            {}, ((V1 \cup V2) \cup V3) \cup V4, {})
  BY <1>1, LongerPiece
<1>3. <<x, y, z, u>> = <<x, y, z>> \o <<u>>
  BY FourLiterals
<1> QED BY <1>2, <1>3

(* Code that is written only if q.                                         *)
Where(q, S) == IF q THEN S ELSE {}

LEMMA IfPiece ==
  ASSUME NEW q \in BOOLEAN, NEW code, NEW D, NEW T, NEW V, Piece(code, D, T, {}, V, {})
  PROVE  Piece(If(q, code), Where(q, D), Where(q, T), {}, V, {})
<1>1. CASE q
  BY <1>1 DEF If, Where
<1>2. CASE ~ q
  <2>1. Piece(<<>>, {}, {}, {}, V, {})
    BY EmptyPiece, WidenPiece
  <2> QED BY <1>2, <2>1 DEF If, Where
<1> QED BY <1>1, <1>2

(* Nothing joined to nothing.                                              *)
LEMMA Nothing ==
  ASSUME NEW S
  PROVE  /\ S \cup {} = S /\ {} \cup S = S /\ S \cup S = S
         /\ S \cap {} = {} /\ {} \cap S = {} /\ \A q : Where(q, {}) = {}
  BY DEF Where

LEMMA IfOne ==
  ASSUME NEW q \in BOOLEAN, NEW x, NEW D, NEW T, NEW V, NEW W, Traits(x, D, T, V, W)
  PROVE  /\ D = {} => Piece(If(q, <<x>>), {}, Where(q, T), {}, V, {})
         /\ T = {} => Piece(If(q, <<x>>), Where(q, D), {}, {}, V, {})
<1>1. Piece(<<x>>, D, T, {}, V, {})
  BY SinglePiece
<1>2. Piece(If(q, <<x>>), Where(q, D), Where(q, T), {}, V, {})
  BY <1>1, IfPiece
<1> QED BY <1>2, Nothing

(* Code that begins with p, and leaves the uses of V to it.                 *)
Opened(code, p, V, D, T, H, M) ==
  /\ Piece(code, D, T, H, V, M)
  /\ Len(p) <= Len(code) /\ \A i \in 1 .. Len(p) : code[i] = p[i]

LEMMA OpenedStart ==
  ASSUME NEW p, NEW D1, Piece(p, D1, {}, {}, {}, {}),
         NEW b, NEW D2, NEW T, NEW H, NEW W, NEW M, Piece(b, D2, T, H, W, M),
         NEW V, W \subseteq V, D1 \cap D2 = {}
  PROVE  Opened(p \o b, p, V, D1 \cup D2, T, H, M)
<1> DEFINE c == p \o b
<1>1. Piece(c, D1 \cup D2, T, H, V, M)
  <2>1. {} \cap M = {} /\ T \cap {} = {}
    OBVIOUS
  <2>2. Piece(c, D1 \cup D2, {} \cup T, {} \cup H, {} \cup W, {} \cup M)
    BY <2>1, JoinPieces
  <2>3. Piece(c, D1 \cup D2, T, H, W, M)
    BY <2>2, Nothing
  <2>4. M \subseteq M
    OBVIOUS
  <2> QED BY <2>3, <2>4, WidenPiece
<1>2. Follows(c, p, b) /\ Len(p) \in Nat /\ Len(b) \in Nat
  BY JoinPlaces DEF Piece
<1> HIDE DEF c
<1>3. Opened(c, p, V, D1 \cup D2, T, H, M)
  BY <1>1, <1>2 DEF Opened, Follows
<1> QED BY <1>3 DEF c

LEMMA OpenedJoin ==
  ASSUME NEW a, NEW p, NEW V, NEW D1, NEW T1, NEW H, NEW M, Opened(a, p, V, D1, T1, H, M),
         NEW b, NEW D2, NEW T2, NEW W, Piece(b, D2, T2, {}, W, {}), W \subseteq V,
         D1 \cap D2 = {}, T2 \cap M = {}, Len(p) \in Nat
  PROVE  Opened(a \o b, p, V, D1 \cup D2, T1 \cup T2, H, M)
<1> DEFINE c == a \o b
<1>1. Piece(c, D1 \cup D2, T1 \cup T2, H, V, M)
  <2>1. Piece(c, D1 \cup D2, T1 \cup T2, H, V \cup W, M)
    BY JoinOpen DEF Opened
  <2>2. V \cup W = V
    OBVIOUS
  <2> QED BY <2>1, <2>2
<1>2. Follows(c, a, b) /\ Len(a) \in Nat /\ Len(b) \in Nat
  BY JoinPlaces DEF Piece, Opened
<1> HIDE DEF c
<1>3. Len(p) <= Len(c) /\ \A i \in 1 .. Len(p) : c[i] = p[i]
  BY <1>2 DEF Opened, Follows
<1>4. Opened(c, p, V, D1 \cup D2, T1 \cup T2, H, M)
  BY <1>1, <1>3 DEF Opened
<1> QED BY <1>4 DEF c

LEMMA OpenedAppend ==
  ASSUME NEW a, NEW p, NEW V, NEW D1, NEW T1, NEW H1, NEW M1, Opened(a, p, V, D1, T1, H1, M1),
         NEW b, NEW D2, NEW T2, NEW H2, NEW M2, Piece(b, D2, T2, H2, {}, M2),
         D1 \cap D2 = {}, T1 \cap M2 = {}, T2 \cap M1 = {}, Len(p) \in Nat
  PROVE  Opened(a \o b, p, V, D1 \cup D2, T1 \cup T2, H1 \cup H2, M1 \cup M2)
<1> DEFINE c == a \o b
<1>1. Piece(c, D1 \cup D2, T1 \cup T2, H1 \cup H2, V, M1 \cup M2)
  <2>1. Piece(c, D1 \cup D2, T1 \cup T2, H1 \cup H2, V \cup {}, M1 \cup M2)
    BY JoinPieces DEF Opened
  <2> QED BY <2>1, Nothing
<1>2. Follows(c, a, b) /\ Len(a) \in Nat /\ Len(b) \in Nat
  BY JoinPlaces DEF Piece, Opened
<1> HIDE DEF c
<1>3. Len(p) <= Len(c) /\ \A i \in 1 .. Len(p) : c[i] = p[i]
  BY <1>2 DEF Opened, Follows
<1>4. Opened(c, p, V, D1 \cup D2, T1 \cup T2, H1 \cup H2, M1 \cup M2)
  BY <1>1, <1>3 DEF Opened
<1> QED BY <1>4 DEF c

(* A block of one slot.                                                    *)
LEMMA SaveStart ==
  ASSUME NEW v \in Slots, NEW b, NEW D, NEW T, NEW H, NEW M, Piece(b, D, T, H, {}, M)
  PROVE  Opened(<<Save(v)>> \o b, <<Save(v)>>, {v}, D, T, H, M) /\ Len(<<Save(v)>>) \in Nat
<1>1. Piece(<<Save(v)>>, {}, {}, {}, {}, {})
  BY InstructionTraits, SinglePiece
<1>2. Len(<<Save(v)>>) \in Nat
  OBVIOUS
<1>3. {} \subseteq {v} /\ {} \cap D = {}
  OBVIOUS
<1>4. Opened(<<Save(v)>> \o b, <<Save(v)>>, {v}, {} \cup D, T, H, M)
  BY <1>1, <1>3, OpenedStart
<1> QED BY <1>2, <1>4, Nothing

LEMMA SaveCloses ==
  ASSUME NEW v \in Slots, NEW code, NEW V, NEW D, NEW T, NEW H, NEW M,
         Opened(code, <<Save(v)>>, V, D, T, H, M)
  PROVE  Piece(code, D, T, H, V \ {v}, M \cup D)
<1>1. Jumps(Save(v)) = {} /\ Uses(Save(v)) = {} /\ Sets(Save(v)) = {v}
  BY InstructionTraits DEF Traits
<1>2. Len(<<Save(v)>>) = 1 /\ <<Save(v)>>[1] = Save(v)
  OBVIOUS
<1>3. Piece(code, D, T, H, V, M) /\ 1 <= Len(code) /\ code[1] = Save(v)
  BY <1>2 DEF Opened
<1>4. 1 \in DOMAIN code
  BY <1>3 DEF Piece
<1>5. \A x \in 1 .. 1 : Jumps(code[x]) = {} /\ Uses(code[x]) = {}
  BY <1>1, <1>3
<1>6. Piece(code, D, T, H, V \ Sets(code[1]), M \cup D)
  BY <1>3, <1>4, <1>5, ClosePiece
<1> QED BY <1>1, <1>3, <1>6

LEMMA SaveClosed ==
  ASSUME NEW v \in Slots, NEW code, NEW D, NEW T, NEW H, NEW M,
         Opened(code, <<Save(v)>>, {v}, D, T, H, M)
  PROVE  Piece(code, D, T, H, {}, M \cup D)
<1>1. Piece(code, D, T, H, {v} \ {v}, M \cup D)
  BY SaveCloses
<1>2. {v} \ {v} = {}
  OBVIOUS
<1> QED BY <1>1, <1>2

-----------------------------------------------------------------------------
(* What generate_code writes for a node that it is given n and onfail.     *)

Reaches   == {BOTH, ALWAYS_SUCCEED, ALWAYS_FAIL}
Onfails(n) == {L(k) : k \in 0 .. n}

(* The labels with a number from n + 1 to m.                               *)
Own(n, m) == {"L", "loop", "break", "enough"} \X (n + 1 .. m)

LEMMA OwnLabels ==
  /\ \A n, m \in Nat : Own(n, m) \subseteq Labels
  /\ \A n, m, j \in Nat : /\ L(j) \in Own(n, m) <=> j \in n + 1 .. m
                          /\ Loop(j) \in Own(n, m) <=> j \in n + 1 .. m
                          /\ Break(j) \in Own(n, m) <=> j \in n + 1 .. m
                          /\ Enough(j) \in Own(n, m) <=> j \in n + 1 .. m
  /\ \A n, m, i, j \in Nat : i <= n /\ m <= j => Own(n, m) \subseteq Own(i, j)
  /\ \A n, m, i, j \in Nat : m <= i => Own(n, m) \cap Own(i, j) = {}
  BY SMTT(30) DEF Own, Labels, L, Loop, Break, Enough

LEMMA LabelsDiffer ==
  /\ \A i, j \in Nat : L(i) = L(j) => i = j
  /\ \A j \in Nat : L(j) \in Labels /\ Loop(j) \in Labels /\ Break(j) \in Labels /\ Enough(j) \in Labels
  /\ \A i, j \in Nat : L(i) # Loop(j) /\ L(i) # Break(j) /\ L(i) # Enough(j)
  /\ \A i, j \in Nat : Loop(i) # Break(j) /\ Loop(i) # Enough(j) /\ Break(i) # Enough(j)
  BY DEF Labels, L, Loop, Break, Enough

LEMMA SlotsDiffer ==
  /\ \A j \in Nat : Saved(j) \in Counters /\ Saved(j) \in Slots /\ Before(j) \in Slots
  /\ \A i, j \in Nat : Saved(i) # Before(j) /\ (Saved(i) = Saved(j) => i = j)
  BY DEF Slots, Counters, Saved, Before

LEMMA CounterDiffers == /\ \A v, j : Counter(v) # Before(j)
                        /\ \A v : Counter(v) \notin Slots
  BY DEF Counter, Before, Slots, Counters, Saved

LEMMA ReachesDiffer ==
  /\ BOTH # ALWAYS_SUCCEED /\ BOTH # ALWAYS_FAIL /\ ALWAYS_SUCCEED # ALWAYS_FAIL
  /\ BOTH \in Reaches /\ ALWAYS_SUCCEED \in Reaches /\ ALWAYS_FAIL \in Reaches
  BY DEF Reaches, BOTH, ALWAYS_SUCCEED, ALWAYS_FAIL

(* The labels of a node's code are its own; it jumps to those, and to       *)
(* onfail.  If each of its error actions is jumped to, it jumps to no label *)
(* that it does not define but onfail, and not to onfail when it succeeds.  *)
Resolved(D, T, H, reach, onfail) ==
  H \subseteq T => /\ T \subseteq D \cup {onfail}
                   /\ reach = ALWAYS_SUCCEED => onfail \notin T
Sound(o, onfail, n) ==
  LET D == Defined(o.code)
      T == Targets(o.code)
      H == Handlers(o.code)
  IN /\ o.label \in Nat /\ n <= o.label /\ o.reach \in Reaches
     /\ Piece(o.code, D, T, H, {}, Own(n, o.label))
     /\ D \subseteq Own(n, o.label) /\ T \subseteq Own(n, o.label) \cup {onfail}
     /\ Resolved(D, T, H, o.reach, onfail)

LEMMA SoundBy ==
  ASSUME NEW n \in Nat, NEW onfail, NEW m \in Nat, n <= m, NEW reach \in Reaches, NEW code,
         NEW D, NEW T, NEW H, NEW K, Piece(code, D, T, H, {}, K),
         D \subseteq Own(n, m), K \subseteq Own(n, m), T \subseteq Own(n, m) \cup {onfail},
         Resolved(D, T, H, reach, onfail)
  PROVE  Sound(Out(code, reach, m), onfail, n)
<1> DEFINE o == Out(code, reach, m)
<1>1. o.code = code /\ o.reach = reach /\ o.label = m
  BY DEF Out
<1>2. Defined(code) = D /\ Targets(code) = T /\ Handlers(code) = H
  BY DEF Piece
<1>3. Piece(code, D, T, H, {}, Own(n, m))
  BY WidenPiece
<1> HIDE DEF o
<1>4. Sound(o, onfail, n)
  BY <1>1, <1>2, <1>3, Zenon DEF Sound
<1> QED BY <1>4 DEF o

(* The operand of a block with label l.                                    *)
LEMMA BlockOperand ==
  ASSUME NEW n \in Nat, NEW onfail \in Onfails(n), NEW l \in Nat, NEW h \in Nat, n < l, l <= h,
         NEW b, Sound(b, L(l), h)
  PROVE  \E D, T, H :
           /\ Piece(b.code, D, T, H, {}, Own(h, b.label))
           /\ b.label \in Nat /\ h <= b.label /\ b.reach \in Reaches
           /\ D \subseteq Own(h, b.label) /\ H \subseteq D /\ T \subseteq Own(h, b.label) \cup {L(l)}
           /\ Resolved(D, T, H, b.reach, L(l))
           /\ L(l) \notin Own(h, b.label) /\ onfail \notin Own(h, b.label) /\ onfail # L(l)
<1> DEFINE D == Defined(b.code)
           T == Targets(b.code)
           H == Handlers(b.code)
<1>1. /\ b.label \in Nat /\ h <= b.label /\ b.reach \in Reaches
      /\ Piece(b.code, D, T, H, {}, Own(h, b.label))
      /\ D \subseteq Own(h, b.label) /\ T \subseteq Own(h, b.label) \cup {L(l)}
      /\ Resolved(D, T, H, b.reach, L(l))
  BY DEF Sound
<1>2. H \subseteq D
  BY <1>1 DEF Piece
<1> HIDE DEF D, T, H
<1>3. PICK k \in 0 .. n : onfail = L(k)
  BY DEF Onfails
<1>4. L(l) \notin Own(h, b.label) /\ L(k) \notin Own(h, b.label)
  BY <1>1, OwnLabels
<1>5. L(k) # L(l)
  BY LabelsDiffer
<1> QED BY <1>1, <1>2, <1>3, <1>4, <1>5

LEMMA EmitNotSound ==
  ASSUME NEW e \in Expressions, NEW n \in Nat, NEW onfail \in Onfails(n),
         NEW b, Sound(b, L(n + 1), n + 1)
  PROVE  Sound(EmitNot(e, onfail, n, b), onfail, n)
<1> DEFINE l == n + 1
           s == Saved(l)
           m == b.label
           c1 == <<Save(s)>>
           c3 == If(b.reach # ALWAYS_FAIL, <<Restore(s), Goto(onfail)>>)
           c4 == If(b.reach # ALWAYS_SUCCEED, <<Label(L(l)), Restore(s)>>)
           code == ((c1 \o b.code) \o c3) \o c4
<1>1. l \in Nat /\ n < l /\ onfail \in Labels /\ L(l) \in Labels /\ s \in Slots
  BY LabelsDiffer, SlotsDiffer DEF Onfails
<1>2. EmitNot(e, onfail, n, b) = Out(code, Negated(b.reach), m)
  BY DEF EmitNot
<1> HIDE DEF l, s, m
<1>3. PICK D, T, H :
        /\ Piece(b.code, D, T, H, {}, Own(l, m))
        /\ m \in Nat /\ l <= m /\ b.reach \in Reaches
        /\ D \subseteq Own(l, m) /\ H \subseteq D /\ T \subseteq Own(l, m) \cup {L(l)}
        /\ Resolved(D, T, H, b.reach, L(l))
        /\ L(l) \notin Own(l, m) /\ onfail \notin Own(l, m) /\ onfail # L(l)
  <2>1. l <= l /\ Sound(b, L(l), l)
    BY <1>1 DEF l
  <2> QED BY <1>1, <2>1, BlockOperand DEF m
<1>5. Piece(c3, Where(b.reach # ALWAYS_FAIL, {}), Where(b.reach # ALWAYS_FAIL, {onfail}), {}, {s}, {})
  <2>1. Traits(Restore(s), {}, {}, {s}, {}) /\ Traits(Goto(onfail), {}, {onfail}, {}, {})
    BY <1>1, InstructionTraits
  <2>2. Piece(<<Restore(s), Goto(onfail)>>, {} \cup {}, {} \cup {onfail}, {}, {s} \cup {}, {})
    BY <2>1, TwoPiece
  <2> QED BY <2>2, IfPiece
<1>6. Piece(c4, Where(b.reach # ALWAYS_SUCCEED, {L(l)}), {}, {}, {s}, {})
  <2>1. Traits(Restore(s), {}, {}, {s}, {}) /\ Traits(Label(L(l)), {L(l)}, {}, {}, {})
    BY <1>1, InstructionTraits
  <2>2. Piece(<<Label(L(l)), Restore(s)>>, {L(l)} \cup {}, {} \cup {}, {}, {} \cup {s}, {})
    BY <2>1, TwoPiece
  <2>3. Piece(c4, Where(b.reach # ALWAYS_SUCCEED, {L(l)}), Where(b.reach # ALWAYS_SUCCEED, {}), {}, {s}, {})
    BY <2>2, IfPiece
  <2> QED BY <2>3 DEF Where
<1> DEFINE E3 == Where(b.reach # ALWAYS_FAIL, {onfail})
           D4 == Where(b.reach # ALWAYS_SUCCEED, {L(l)})
           M  == Own(l, m)
<1>7. E3 \subseteq {onfail} /\ D4 \subseteq {L(l)} /\ E3 \cap M = {} /\ D \cap D4 = {}
  BY <1>3 DEF Where
<1>8. Opened(code, c1, {s}, D \cup D4, T \cup E3, H, M)
  <2> USE DEF M
  <2>1. Opened(c1 \o b.code, c1, {s}, D, T, H, M) /\ Len(c1) \in Nat
    BY <1>1, <1>3, SaveStart
  <2> HIDE DEF c1, c3, c4, E3, D4, M
  <2>2. Opened((c1 \o b.code) \o c3, c1, {s}, D \cup {}, T \cup E3, H, M)
    <3>1. Where(b.reach # ALWAYS_FAIL, {}) = {} /\ D \cap {} = {}
      BY DEF Where
    <3>2. Piece(c3, {}, E3, {}, {s}, {})
      BY <1>5, <3>1 DEF E3
    <3> QED BY <1>7, <2>1, <3>1, <3>2, OpenedJoin
  <2>3. D \cup {} = D /\ (T \cup E3) \cup {} = T \cup E3 /\ {} \cap M = {}
    OBVIOUS
  <2>4. Opened(code, c1, {s}, D \cup D4, (T \cup E3) \cup {}, H, M)
    BY <1>6, <1>7, <2>1, <2>2, <2>3, OpenedJoin DEF D4
  <2> QED BY <2>3, <2>4
<1>10. Piece(code, D \cup D4, T \cup E3, H, {}, M \cup (D \cup D4))
  BY <1>1, <1>8, SaveClosed
<1>11. M \subseteq Own(n, m) /\ L(l) \in Own(n, m) /\ n <= m
  BY <1>1, <1>3, OwnLabels
<1>12. Resolved(D \cup D4, T \cup E3, H, Negated(b.reach), onfail)
  BY <1>3, <1>7, ReachesDiffer DEF Resolved, Negated, Where
<1>13. Negated(b.reach) \in Reaches
  BY <1>3 DEF Negated, Reaches
<1> HIDE DEF code, E3, D4, M
<1>14. /\ D \cup D4 \subseteq Own(n, m) /\ M \cup (D \cup D4) \subseteq Own(n, m)
       /\ T \cup E3 \subseteq Own(n, m) \cup {onfail}
  BY <1>3, <1>7, <1>11 DEF M
<1> QED BY <1>2, <1>3, <1>10, <1>11, <1>12, <1>13, <1>14, SoundBy

LEMMA EmitAndSound ==
  ASSUME NEW e \in Expressions, NEW n \in Nat, NEW onfail \in Onfails(n),
         NEW b, Sound(b, L(n + 1), n + 2)
  PROVE  Sound(EmitAnd(e, onfail, n, b), onfail, n)
<1> DEFINE l == n + 1
           k == n + 2
           s == Saved(l)
           m == b.label
           c1 == <<Save(s)>>
           c3 == If(b.reach # ALWAYS_FAIL, <<Restore(s)>>)
           c4 == If(b.reach = BOTH, <<Goto(L(k))>>)
           c5 == If(b.reach # ALWAYS_SUCCEED, <<Label(L(l)), Restore(s), Goto(onfail)>>)
           c6 == If(b.reach = BOTH, <<Label(L(k))>>)
           code == ((((c1 \o b.code) \o c3) \o c4) \o c5) \o c6
           E4 == Where(b.reach = BOTH, {L(k)})
           E5 == Where(b.reach # ALWAYS_SUCCEED, {onfail})
           D5 == Where(b.reach # ALWAYS_SUCCEED, {L(l)})
           M  == Own(k, m)
<1>1. /\ l \in Nat /\ k \in Nat /\ n < l /\ l < k /\ onfail \in Labels
      /\ L(l) \in Labels /\ L(k) \in Labels /\ s \in Slots /\ L(l) # L(k)
  BY LabelsDiffer, SlotsDiffer DEF Onfails
<1>2. EmitAnd(e, onfail, n, b) = Out(code, b.reach, m)
  BY DEF EmitAnd
<1> HIDE DEF l, k, s, m
<1>3. PICK D, T, H :
        /\ Piece(b.code, D, T, H, {}, Own(k, m))
        /\ m \in Nat /\ k <= m /\ b.reach \in Reaches
        /\ D \subseteq Own(k, m) /\ H \subseteq D /\ T \subseteq Own(k, m) \cup {L(l)}
        /\ Resolved(D, T, H, b.reach, L(l))
        /\ L(l) \notin Own(k, m) /\ onfail \notin Own(k, m) /\ onfail # L(l)
  <2>1. l <= k /\ Sound(b, L(l), k)
    BY <1>1 DEF l, k
  <2> QED BY <1>1, <2>1, BlockOperand DEF m
<1>4. onfail # L(k) /\ L(k) \notin M
  <2>1. PICK i \in 0 .. n : onfail = L(i)
    BY DEF Onfails
  <2> QED BY <1>1, <1>3, <2>1, LabelsDiffer, OwnLabels
<1>5. /\ Traits(Restore(s), {}, {}, {s}, {}) /\ Traits(Goto(onfail), {}, {onfail}, {}, {})
      /\ Traits(Goto(L(k)), {}, {L(k)}, {}, {}) /\ Traits(Label(L(k)), {L(k)}, {}, {}, {})
      /\ Traits(Label(L(l)), {L(l)}, {}, {}, {})
  BY <1>1, InstructionTraits
<1>6. Piece(c3, {}, {}, {}, {s}, {})
  <2>1. Piece(c3, {}, Where(b.reach # ALWAYS_FAIL, {}), {}, {s}, {})
    BY <1>5, IfOne
  <2> QED BY <2>1, Nothing
<1>7. Piece(c4, {}, E4, {}, {}, {})
  BY <1>5, IfOne
<1>8. Piece(c5, D5, E5, {}, {s}, {})
  <2>1. ({L(l)} \cup {}) \cap {} = {} /\ {L(l)} \cap {} = {}
    OBVIOUS
  <2>2. Piece(<<Label(L(l)), Restore(s), Goto(onfail)>>, ({L(l)} \cup {}) \cup {},
              ({} \cup {}) \cup {onfail}, {}, ({} \cup {s}) \cup {}, {})
    BY <1>5, <2>1, ThreePiece
  <2>3. Piece(<<Label(L(l)), Restore(s), Goto(onfail)>>, {L(l)}, {onfail}, {}, {s}, {})
    BY <2>2, Nothing
  <2> QED BY <2>3, IfPiece
<1>9. Piece(c6, E4, {}, {}, {}, {})
  BY <1>5, IfOne
<1>10. /\ E4 \subseteq {L(k)} /\ E5 \subseteq {onfail} /\ D5 \subseteq {L(l)}
       /\ E4 \cap M = {} /\ E5 \cap M = {} /\ D \cap D5 = {} /\ (D \cup D5) \cap E4 = {}
  BY <1>1, <1>3, <1>4 DEF Where
<1>11. Opened(code, c1, {s}, (D \cup D5) \cup E4, (T \cup E4) \cup E5, H, M)
  <2>1. Opened(c1 \o b.code, c1, {s}, D, T, H, M) /\ Len(c1) \in Nat
    BY <1>1, <1>3, SaveStart
  <2> HIDE DEF c1, c3, c4, c5, c6, E4, E5, D5, M
  <2>2. Opened((c1 \o b.code) \o c3, c1, {s}, D \cup {}, T \cup {}, H, M)
    BY <1>6, <2>1, OpenedJoin, Nothing
  <2>3. Opened(((c1 \o b.code) \o c3) \o c4, c1, {s}, D \cup {}, T \cup E4, H, M)
    BY <1>7, <1>10, <2>1, <2>2, OpenedJoin, Nothing
  <2>4. Opened((((c1 \o b.code) \o c3) \o c4) \o c5, c1, {s}, D \cup D5, (T \cup E4) \cup E5, H, M)
    BY <1>8, <1>10, <2>1, <2>3, OpenedJoin, Nothing
  <2>5. Opened(code, c1, {s}, (D \cup D5) \cup E4, ((T \cup E4) \cup E5) \cup {}, H, M)
    BY <1>9, <1>10, <2>1, <2>4, OpenedJoin, Nothing
  <2> QED BY <2>5, Nothing
<1>12. Piece(code, (D \cup D5) \cup E4, (T \cup E4) \cup E5, H, {}, M \cup ((D \cup D5) \cup E4))
  BY <1>1, <1>11, SaveClosed
<1>13. M \subseteq Own(n, m) /\ L(l) \in Own(n, m) /\ L(k) \in Own(n, m) /\ n <= m
  BY <1>1, <1>3, OwnLabels
<1>14. Resolved((D \cup D5) \cup E4, (T \cup E4) \cup E5, H, b.reach, onfail)
  BY <1>3, <1>4, <1>10, ReachesDiffer DEF Resolved, Where, Reaches
<1> HIDE DEF code, E4, E5, D5, M
<1>15. /\ (D \cup D5) \cup E4 \subseteq Own(n, m)
       /\ M \cup ((D \cup D5) \cup E4) \subseteq Own(n, m)
       /\ (T \cup E4) \cup E5 \subseteq Own(n, m) \cup {onfail}
  BY <1>3, <1>10, <1>13 DEF M
<1> QED BY <1>2, <1>3, <1>12, <1>13, <1>14, <1>15, SoundBy

LEMMA EmitOptionSound ==
  ASSUME NEW e \in Expressions, NEW n \in Nat, NEW onfail \in Onfails(n),
         NEW b, Sound(b, L(n + 1), n + 1)
  PROVE  Sound(EmitOption(e, onfail, n, b), onfail, n)
<1> DEFINE l == n + 1
           s == Saved(l)
           m == b.label
           k == m + 1
           c1 == <<Save(s)>>
           c3 == <<Goto(L(k)), Label(L(l)), Restore(s), Label(L(k))>>
           M  == Own(l, m)
<1>1. l \in Nat /\ n < l /\ onfail \in Labels /\ L(l) \in Labels /\ s \in Slots
  BY LabelsDiffer, SlotsDiffer DEF Onfails
<1>2. EmitOption(e, onfail, n, b) =
        IF b.reach = ALWAYS_SUCCEED THEN Out(c1 \o b.code, ALWAYS_SUCCEED, m)
        ELSE Out((c1 \o b.code) \o c3, ALWAYS_SUCCEED, k)
  BY DEF EmitOption
<1> HIDE DEF l, s, m
<1>3. PICK D, T, H :
        /\ Piece(b.code, D, T, H, {}, Own(l, m))
        /\ m \in Nat /\ l <= m /\ b.reach \in Reaches
        /\ D \subseteq Own(l, m) /\ H \subseteq D /\ T \subseteq Own(l, m) \cup {L(l)}
        /\ Resolved(D, T, H, b.reach, L(l))
        /\ L(l) \notin Own(l, m) /\ onfail \notin Own(l, m) /\ onfail # L(l)
  <2>1. l <= l /\ Sound(b, L(l), l)
    BY <1>1 DEF l
  <2> QED BY <1>1, <2>1, BlockOperand DEF m
<1>4. Opened(c1 \o b.code, c1, {s}, D, T, H, M) /\ Len(c1) \in Nat
  BY <1>1, <1>3, SaveStart
<1>5. M \subseteq Own(n, m) /\ L(l) \in Own(n, m) /\ n <= m /\ ALWAYS_SUCCEED \in Reaches
  BY <1>1, <1>3, OwnLabels, ReachesDiffer
<1> HIDE DEF c1
<1>6. CASE b.reach = ALWAYS_SUCCEED
  <2>1. Piece(c1 \o b.code, D, T, H, {}, M \cup D)
    BY <1>1, <1>4, SaveClosed DEF c1
  <2>2. Resolved(D, T, H, ALWAYS_SUCCEED, onfail)
    BY <1>3, <1>6 DEF Resolved
  <2>3. /\ D \subseteq Own(n, m) /\ M \cup D \subseteq Own(n, m)
        /\ T \subseteq Own(n, m) \cup {onfail}
    BY <1>3, <1>5
  <2>4. Sound(Out(c1 \o b.code, ALWAYS_SUCCEED, m), onfail, n)
    BY <1>3, <1>5, <2>1, <2>2, <2>3, SoundBy
  <2> QED BY <1>2, <1>6, <2>4
<1>7. CASE b.reach # ALWAYS_SUCCEED
  <2>1. /\ k \in Nat /\ l < k /\ L(k) \in Labels /\ L(l) # L(k) /\ onfail # L(k) /\ L(k) \notin M
        /\ Own(n, m) \subseteq Own(n, k) /\ L(k) \in Own(n, k) /\ n <= k
    <3>1. PICK i \in 0 .. n : onfail = L(i)
      BY DEF Onfails
    <3> QED BY <1>1, <1>3, <3>1, LabelsDiffer, OwnLabels
  <2> HIDE DEF k
  <2>2. Piece(c3, {L(l), L(k)}, {L(k)}, {}, {s}, {})
    <3>1. /\ Traits(Restore(s), {}, {}, {s}, {}) /\ Traits(Goto(L(k)), {}, {L(k)}, {}, {})
          /\ Traits(Label(L(k)), {L(k)}, {}, {}, {}) /\ Traits(Label(L(l)), {L(l)}, {}, {}, {})
      BY <1>1, <2>1, InstructionTraits
    <3>2. /\ {} \cap {L(l)} = {} /\ ({} \cup {L(l)}) \cap {} = {}
          /\ (({} \cup {L(l)}) \cup {}) \cap {L(k)} = {}
      BY <2>1
    <3>3. Piece(c3, (({} \cup {L(l)}) \cup {}) \cup {L(k)}, (({L(k)} \cup {}) \cup {}) \cup {}, {},
                (({} \cup {}) \cup {s}) \cup {}, {})
      BY <3>1, <3>2, FourPiece
    <3>4. (({} \cup {L(l)}) \cup {}) \cup {L(k)} = {L(l), L(k)}
      OBVIOUS
    <3> QED BY <3>3, <3>4, Nothing
  <2>3. D \cap {L(l), L(k)} = {} /\ {L(k)} \cap M = {}
    BY <1>3, <2>1
  <2>4. Opened((c1 \o b.code) \o c3, c1, {s}, D \cup {L(l), L(k)}, T \cup {L(k)}, H, M)
    <3> HIDE DEF c3, M
    <3> QED BY <1>4, <2>2, <2>3, OpenedJoin
  <2>5. Piece((c1 \o b.code) \o c3, D \cup {L(l), L(k)}, T \cup {L(k)}, H, {},
              M \cup (D \cup {L(l), L(k)}))
    BY <1>1, <2>4, SaveClosed DEF c1
  <2>6. Resolved(D \cup {L(l), L(k)}, T \cup {L(k)}, H, ALWAYS_SUCCEED, onfail)
    BY <1>3, <2>1 DEF Resolved
  <2>7. /\ D \cup {L(l), L(k)} \subseteq Own(n, k)
        /\ M \cup (D \cup {L(l), L(k)}) \subseteq Own(n, k)
        /\ T \cup {L(k)} \subseteq Own(n, k) \cup {onfail}
    BY <1>3, <1>5, <2>1
  <2>8. Sound(Out((c1 \o b.code) \o c3, ALWAYS_SUCCEED, k), onfail, n)
    BY <1>5, <2>1, <2>5, <2>6, <2>7, SoundBy
  <2> QED BY <1>2, <1>7, <2>8
<1> QED BY <1>6, <1>7

(* The operand of a node that hands on what it was given itself.           *)
LEMMA SameOperand ==
  ASSUME NEW n \in Nat, NEW onfail \in Onfails(n), NEW b, Sound(b, onfail, n)
  PROVE  \E D, T, H :
           /\ Piece(b.code, D, T, H, {}, Own(n, b.label))
           /\ b.label \in Nat /\ n <= b.label /\ b.reach \in Reaches
           /\ D \subseteq Own(n, b.label) /\ H \subseteq D
           /\ T \subseteq Own(n, b.label) \cup {onfail} /\ onfail \notin Own(n, b.label)
           /\ Resolved(D, T, H, b.reach, onfail)
<1> DEFINE D == Defined(b.code)
           T == Targets(b.code)
           H == Handlers(b.code)
<1>1. /\ b.label \in Nat /\ n <= b.label /\ b.reach \in Reaches
      /\ Piece(b.code, D, T, H, {}, Own(n, b.label))
      /\ D \subseteq Own(n, b.label) /\ T \subseteq Own(n, b.label) \cup {onfail}
      /\ Resolved(D, T, H, b.reach, onfail)
  BY DEF Sound
<1>2. H \subseteq D
  BY <1>1 DEF Piece
<1> HIDE DEF D, T, H
<1>3. PICK k \in 0 .. n : onfail = L(k)
  BY DEF Onfails
<1>4. onfail \notin Own(n, b.label)
  BY <1>1, <1>3, OwnLabels
<1> QED BY <1>1, <1>2, <1>4

LEMMA EmitCaptureSound ==
  ASSUME NEW e \in Expressions, NEW n \in Nat, NEW onfail \in Onfails(n),
         NEW b, Sound(b, onfail, n)
  PROVE  Sound(EmitCapture(e, onfail, n, b), onfail, n)
<1> DEFINE v == <<"capture", e.index>>
           m == b.label
           c1 == <<Save(v)>>
           c3 == <<Capture(e.index, v)>>
           code == (c1 \o b.code) \o c3
           M == Own(n, m)
<1>1. EmitCapture(e, onfail, n, b) = Out(code, b.reach, m)
  BY DEF EmitCapture
<1>2. PICK D, T, H :
        /\ Piece(b.code, D, T, H, {}, M)
        /\ m \in Nat /\ n <= m /\ b.reach \in Reaches
        /\ D \subseteq M /\ H \subseteq D /\ T \subseteq M \cup {onfail} /\ onfail \notin M
        /\ Resolved(D, T, H, b.reach, onfail)
  BY SameOperand
<1>3. v \in Slots /\ Traits(Capture(e.index, v), {}, {}, {v}, {})
  BY InstructionTraits
<1>4. Piece(c3, {}, {}, {}, {v}, {})
  BY <1>3, SinglePiece
<1> HIDE DEF v
<1>5. Opened(c1 \o b.code, c1, {v}, D, T, H, M) /\ Len(c1) \in Nat
  BY <1>2, <1>3, SaveStart
<1>6. Opened(code, c1, {v}, D \cup {}, T \cup {}, H, M)
  <2> HIDE DEF c1, c3, M
  <2> QED BY <1>4, <1>5, Nothing, OpenedJoin
<1>7. Opened(code, c1, {v}, D, T, H, M)
  BY <1>6, Nothing
<1>8. Piece(code, D, T, H, {}, M \cup D)
  BY <1>3, <1>7, SaveClosed
<1>9. M \cup D \subseteq M
  BY <1>2
<1> HIDE DEF code
<1> QED BY <1>1, <1>2, <1>8, <1>9, SoundBy

LEMMA FiveLiterals ==
  ASSUME NEW a, NEW b, NEW c, NEW d, NEW f
  PROVE  <<a, b, c, d, f>> = (<<a>> \o <<b, c>>) \o <<d, f>>
<1> DEFINE S == {a, b, c, d, f}
           x == <<a>> \o <<b, c>>
           u == x \o <<d, f>>
           t == <<a, b, c, d, f>>
<1>1. <<a>> \in Seq(S) /\ <<b, c>> \in Seq(S) /\ <<d, f>> \in Seq(S) /\ t \in Seq(S) /\ Len(t) = 5
  OBVIOUS
<1> HIDE DEF S
<1>2. x \in Seq(S) /\ Len(x) = 3 /\ x[1] = a /\ x[2] = b /\ x[3] = c
  <2>1. \A i \in 1 .. Len(<<a>>) + Len(<<b, c>>) :
          x[i] = IF i <= Len(<<a>>) THEN <<a>>[i] ELSE <<b, c>>[i - Len(<<a>>)]
    BY <1>1, ConcatProperties
  <2>2. x \in Seq(S) /\ Len(x) = Len(<<a>>) + Len(<<b, c>>)
    BY <1>1, ConcatProperties
  <2> HIDE DEF x
  <2> QED BY <2>1, <2>2
<1> HIDE DEF x
<1>3. /\ u \in Seq(S) /\ Len(u) = 5 /\ u[1] = a /\ u[2] = b /\ u[3] = c /\ u[4] = d /\ u[5] = f
  <2> DEFINE y == <<d, f>>
  <2>1. y \in Seq(S) /\ Len(y) = 2 /\ y[1] = d /\ y[2] = f
    BY <1>1
  <2>2. u = x \o y
    OBVIOUS
  <2> HIDE DEF u, y
  <2>3. /\ u \in Seq(S) /\ Len(u) = Len(x) + Len(y)
        /\ \A i \in 1 .. Len(x) + Len(y) : u[i] = IF i <= Len(x) THEN x[i] ELSE y[i - Len(x)]
    BY <1>2, <2>1, <2>2, ConcatProperties, Zenon
  <2> QED BY <1>2, <2>1, <2>3
<1> HIDE DEF u
<1>4. \A i \in 1 .. 5 : t[i] = u[i]
  BY <1>3
<1> HIDE DEF t
<1>5. t = u
  BY <1>1, <1>3, <1>4, SeqEqual
<1> QED BY <1>5 DEF t, u, x

LEMMA EmitErrorSound ==
  ASSUME NEW e \in Expressions, NEW n \in Nat, NEW onfail \in Onfails(n),
         NEW b, Sound(b, L(n + 1), n + 2)
  PROVE  Sound(EmitError(e, onfail, n, b), onfail, n)
<1> DEFINE l == n + 1
           k == n + 2
           m == b.label
           c1 == <<Goto(L(k))>>
           c2 == <<Label(L(l)), ErrorAction(e)>>
           c3 == <<Goto(onfail), Label(L(k))>>
           c  == (c1 \o c2) \o c3
           M  == Own(k, m)
<1>1. /\ l \in Nat /\ k \in Nat /\ n < l /\ l < k /\ onfail \in Labels
      /\ L(l) \in Labels /\ L(k) \in Labels /\ L(l) # L(k)
  BY LabelsDiffer DEF Onfails
<1>2. EmitError(e, onfail, n, b) = Out(b.code \o c, b.reach, m)
  <2>1. <<Goto(L(k)), Label(L(l)), ErrorAction(e), Goto(onfail), Label(L(k))>> = c
    BY FiveLiterals
  <2>2. EmitError(e, onfail, n, b) =
          Out(b.code \o <<Goto(L(k)), Label(L(l)), ErrorAction(e), Goto(onfail), Label(L(k))>>,
              b.reach, m)
    BY DEF EmitError
  <2> HIDE DEF c
  <2> QED BY <2>1, <2>2
<1> HIDE DEF l, k, m
<1>3. PICK D, T, H :
        /\ Piece(b.code, D, T, H, {}, Own(k, m))
        /\ m \in Nat /\ k <= m /\ b.reach \in Reaches
        /\ D \subseteq Own(k, m) /\ H \subseteq D /\ T \subseteq Own(k, m) \cup {L(l)}
        /\ Resolved(D, T, H, b.reach, L(l))
        /\ L(l) \notin Own(k, m) /\ onfail \notin Own(k, m) /\ onfail # L(l)
  <2>1. l <= k /\ Sound(b, L(l), k)
    BY <1>1 DEF l, k
  <2> QED BY <1>1, <2>1, BlockOperand DEF m
<1>4. onfail # L(k) /\ L(k) \notin M
  <2>1. PICK i \in 0 .. n : onfail = L(i)
    BY DEF Onfails
  <2> QED BY <1>1, <1>3, <2>1, LabelsDiffer, OwnLabels
<1>5. Piece(c1, {}, {L(k)}, {}, {}, {}) /\ Piece(c2, {L(l)}, {}, {L(l)}, {}, {})
  BY <1>1, InstructionTraits, SinglePiece, ErrorPiece
<1>6. Piece(c3, {L(k)}, {onfail}, {}, {}, {})
  <2>1. Traits(Goto(onfail), {}, {onfail}, {}, {}) /\ Traits(Label(L(k)), {L(k)}, {}, {}, {})
    BY <1>1, InstructionTraits
  <2>2. Piece(c3, {} \cup {L(k)}, {onfail} \cup {}, {}, {} \cup {}, {})
    BY <2>1, TwoPiece, Nothing
  <2> QED BY <2>2, Nothing
<1>7. Piece(c, {L(l), L(k)}, {L(k), onfail}, {L(l)}, {}, {})
  <2> HIDE DEF c1, c2, c3
  <2>1. Piece(c1 \o c2, {} \cup {L(l)}, {L(k)} \cup {}, {} \cup {L(l)}, {} \cup {}, {} \cup {})
    BY <1>5, JoinPieces, Nothing
  <2>2. {L(l)} \cap {L(k)} = {} /\ {L(l)} \cup {L(k)} = {L(l), L(k)}
        /\ {L(k)} \cup {onfail} = {L(k), onfail}
    BY <1>1
  <2>3. Piece(c1 \o c2, {L(l)}, {L(k)}, {L(l)}, {}, {})
    BY <2>1, Nothing
  <2>4. Piece(c, {L(l)} \cup {L(k)}, {L(k)} \cup {onfail}, {L(l)}, {} \cup {}, {})
    BY <1>6, <2>2, <2>3, JoinOpen, Nothing
  <2> QED BY <2>2, <2>4, Nothing
<1> HIDE DEF c
<1>8. Piece(b.code \o c, D \cup {L(l), L(k)}, T \cup {L(k), onfail}, H \cup {L(l)}, {}, M)
  <2>1. D \cap {L(l), L(k)} = {} /\ {L(k), onfail} \cap M = {}
    BY <1>3, <1>4
  <2>2. Piece(b.code \o c, D \cup {L(l), L(k)}, T \cup {L(k), onfail}, H \cup {L(l)}, {} \cup {},
              M \cup {})
    BY <1>3, <1>7, <2>1, JoinPieces, Nothing
  <2> QED BY <2>2, Nothing
<1>9. M \subseteq Own(n, m) /\ L(l) \in Own(n, m) /\ L(k) \in Own(n, m) /\ n <= m
  BY <1>1, <1>3, OwnLabels
<1>10. Resolved(D \cup {L(l), L(k)}, T \cup {L(k), onfail}, H \cup {L(l)}, b.reach, onfail)
  BY <1>1, <1>3, <1>4 DEF Resolved
<1>11. D \cup {L(l), L(k)} \subseteq Own(n, m) /\ T \cup {L(k), onfail} \subseteq Own(n, m) \cup {onfail}
  BY <1>3, <1>9
<1> QED BY <1>2, <1>3, <1>8, <1>9, <1>10, <1>11, SoundBy

(* What is written before the first operand of a node but an alternate.    *)
LEMMA OpeningSound ==
  ASSUME NEW e \in Expressions, NEW n \in Nat, NEW onfail \in Onfails(n), e.type # "alternate"
  PROVE  Sound(Opening(e, onfail, n), onfail, n)
<1>1. onfail \in Labels /\ n <= n /\ {} \subseteq Own(n, n) /\ {onfail} \subseteq Own(n, n) \cup {onfail}
      /\ {} \subseteq Own(n, n) \cup {onfail}
  BY LabelsDiffer DEF Onfails
<1>2. ASSUME NEW reach \in Reaches PROVE Sound(Out(<<>>, reach, n), onfail, n)
  <2>1. Resolved({}, {}, {}, reach, onfail)
    BY DEF Resolved
  <2> QED BY <1>1, <2>1, EmptyPiece, SoundBy
<1>3. ASSUME NEW x \in Instructions, x.op \notin {"error", "label"}, Uses(x) = {},
             Jumps(x) \subseteq {onfail},
             NEW reach \in Reaches, Jumps(x) # {} => reach # ALWAYS_SUCCEED
      PROVE  Sound(Out(<<x>>, reach, n), onfail, n)
  <2>1. Piece(<<x>>, {}, Jumps(x), {}, {}, {})
    BY <1>3, OnePiece
  <2>2. Resolved({}, Jumps(x), {}, reach, onfail)
    BY <1>3 DEF Resolved
  <2>3. Jumps(x) \subseteq Own(n, n) \cup {onfail}
    BY <1>3
  <2> QED BY <1>1, <2>1, <2>2, <2>3, SoundBy
<1>4. CASE e.type = "reference"
  <2>1. Call(e, onfail) \in Instructions
    BY <1>1, <1>4 DEF Instructions, Jumping, References
  <2>2. Sound(Out(<<Call(e, onfail)>>, BOTH, n), onfail, n)
    BY <1>3, <2>1, ReachesDiffer DEF Call, Jumps, Uses
  <2> QED BY <1>4, <2>2 DEF Opening
<1>5. CASE e.type = "string"
  <2>1. Match(e.pat, onfail) \in Instructions
    BY <1>1 DEF Instructions, Jumping
  <2>2. Sound(Out(<<Match(e.pat, onfail)>>, BOTH, n), onfail, n)
    BY <1>3, <2>1, ReachesDiffer DEF Match, Jumps, Uses
  <2> QED BY <1>2, <1>5, <2>2, ReachesDiffer DEF Opening, EmitString
<1>6. CASE e.type = "charclass"
  <2>1. Match(<<e.set>>, onfail) \in Instructions /\ Goto(onfail) \in Instructions
    BY <1>1 DEF Instructions, Jumping
  <2>2. Sound(Out(<<Match(<<e.set>>, onfail)>>, BOTH, n), onfail, n)
    BY <1>3, <2>1, ReachesDiffer DEF Match, Jumps, Uses
  <2>3. Sound(Out(<<Goto(onfail)>>, ALWAYS_FAIL, n), onfail, n)
    BY <1>3, <2>1, ReachesDiffer DEF Goto, Jumps, Uses
  <2> QED BY <1>6, <2>2, <2>3 DEF Opening, EmitCharclass
<1>7. CASE e.type = "expand"
  <2>1. Expand(e.index, onfail) \in Instructions
    BY <1>1 DEF Instructions, Jumping
  <2>2. Sound(Out(<<Expand(e.index, onfail)>>, BOTH, n), onfail, n)
    BY <1>3, <2>1, ReachesDiffer DEF Expand, Jumps, Uses
  <2> QED BY <1>7, <2>2 DEF Opening
<1>8. CASE e.type = "action"
  <2>1. Action(e) \in Instructions
    BY <1>1 DEF Instructions, Ending
  <2>2. Sound(Out(<<Action(e)>>, ALWAYS_SUCCEED, n), onfail, n)
    BY <1>3, <2>1, ReachesDiffer DEF Action, Jumps, Uses
  <2> QED BY <1>8, <2>2 DEF Opening
<1>9. CASE e.type \notin {"reference", "string", "charclass", "expand", "action"}
  <2>1. Opening(e, onfail, n) = Out(<<>>, ALWAYS_SUCCEED, n)
    BY <1>9 DEF Opening
  <2> QED BY <1>2, <2>1, ReachesDiffer
<1> QED BY <1>4, <1>5, <1>6, <1>7, <1>8, <1>9

LEMMA EmitElementSound ==
  ASSUME NEW n \in Nat, NEW onfail \in Onfails(n),
         NEW a, Sound(a, onfail, n), a.reach # ALWAYS_FAIL, NEW b, Sound(b, onfail, a.label)
  PROVE  Sound(EmitElement(a, b), onfail, n)
<1> DEFINE k == a.label
           m == b.label
           reach == IF b.reach = ALWAYS_SUCCEED THEN a.reach ELSE b.reach
<1>1. PICK D1, T1, H1 :
        /\ Piece(a.code, D1, T1, H1, {}, Own(n, k))
        /\ k \in Nat /\ n <= k /\ a.reach \in Reaches
        /\ D1 \subseteq Own(n, k) /\ H1 \subseteq D1
        /\ T1 \subseteq Own(n, k) \cup {onfail} /\ onfail \notin Own(n, k)
        /\ Resolved(D1, T1, H1, a.reach, onfail)
  BY SameOperand
<1>2. onfail \in Onfails(k)
  BY <1>1 DEF Onfails
<1>3. PICK D2, T2, H2 :
        /\ Piece(b.code, D2, T2, H2, {}, Own(k, m))
        /\ m \in Nat /\ k <= m /\ b.reach \in Reaches
        /\ D2 \subseteq Own(k, m) /\ H2 \subseteq D2
        /\ T2 \subseteq Own(k, m) \cup {onfail} /\ onfail \notin Own(k, m)
        /\ Resolved(D2, T2, H2, b.reach, onfail)
  BY <1>1, <1>2, SameOperand
<1>4. EmitElement(a, b) = Out(a.code \o b.code, reach, m)
  BY DEF EmitElement
<1>5. /\ Own(n, k) \cap Own(k, m) = {} /\ Own(n, k) \subseteq Own(n, m) /\ Own(k, m) \subseteq Own(n, m)
      /\ n <= m
  BY <1>1, <1>3, OwnLabels
<1>6. D1 \cap D2 = {} /\ T1 \cap Own(k, m) = {} /\ T2 \cap Own(n, k) = {}
      /\ D1 \cap T2 = {} /\ D2 \cap T1 = {}
  BY <1>1, <1>3, <1>5
<1>7. Piece(a.code \o b.code, D1 \cup D2, T1 \cup T2, H1 \cup H2, {} \cup {}, Own(n, k) \cup Own(k, m))
  BY <1>1, <1>3, <1>6, JoinPieces
<1>8. Piece(a.code \o b.code, D1 \cup D2, T1 \cup T2, H1 \cup H2, {}, Own(n, k) \cup Own(k, m))
  BY <1>7, Nothing
<1>9. Resolved(D1 \cup D2, T1 \cup T2, H1 \cup H2, reach, onfail)
  BY <1>1, <1>3, <1>6 DEF Resolved
<1>10. /\ reach \in Reaches /\ D1 \cup D2 \subseteq Own(n, m)
       /\ Own(n, k) \cup Own(k, m) \subseteq Own(n, m)
       /\ T1 \cup T2 \subseteq Own(n, m) \cup {onfail}
  BY <1>1, <1>3, <1>5
<1> HIDE DEF reach
<1> QED BY <1>3, <1>4, <1>5, <1>8, <1>9, <1>10, SoundBy

(* What an alternate has written when it goes on with an alternative.      *)
Begin(v) == <<Save(v)>>
Trying(o, n) ==
  LET D == Defined(o.code)
      T == Targets(o.code)
      H == Handlers(o.code)
      v == Saved(n + 1)
  IN /\ o.label \in Nat /\ n + 1 <= o.label /\ o.reach \in {BOTH, ALWAYS_FAIL}
     /\ Opened(o.code, Begin(v), {v}, D, T, H, Own(n + 1, o.label))
     /\ D \subseteq Own(n + 1, o.label) /\ T \subseteq Own(n + 1, o.label) \cup {L(n + 1)}
     /\ o.reach = ALWAYS_FAIL => L(n + 1) \notin T
     /\ H \subseteq T => T \subseteq D \cup {L(n + 1)}

LEMMA TryingBy ==
  ASSUME NEW n \in Nat, NEW k, k = n + 1, NEW v, v = Saved(k),
         NEW m \in Nat, k <= m, NEW reach \in {BOTH, ALWAYS_FAIL}, NEW code,
         NEW D, NEW T, NEW H, NEW M, Opened(code, Begin(v), {v}, D, T, H, M), M \subseteq Own(k, m),
         D \subseteq Own(k, m), T \subseteq Own(k, m) \cup {L(k)},
         reach = ALWAYS_FAIL => L(k) \notin T, H \subseteq T => T \subseteq D \cup {L(k)}
  PROVE  Trying(Out(code, reach, m), n)
<1> DEFINE o == Out(code, reach, m)
<1>1. o.code = code /\ o.reach = reach /\ o.label = m
  BY DEF Out
<1>2. Defined(code) = D /\ Targets(code) = T /\ Handlers(code) = H
  BY DEF Opened, Piece
<1>3. Opened(code, Begin(v), {v}, D, T, H, Own(k, m))
  <2>1. Piece(code, D, T, H, {v}, Own(k, m))
    BY WidenPiece DEF Opened
  <2> QED BY <2>1 DEF Opened
<1> HIDE DEF o
<1>4. Trying(o, n)
  BY <1>1, <1>2, <1>3 DEF Trying
<1> QED BY <1>4 DEF o

LEMMA OpeningTrying ==
  ASSUME NEW n \in Nat
  PROVE  Trying(Out(<<Save(Saved(n + 1))>>, ALWAYS_FAIL, n + 1), n)
<1> DEFINE k == n + 1
           v == Saved(k)
           c == Begin(v)
<1>1. k \in Nat /\ k <= k /\ k = n + 1 /\ v = Saved(k) /\ c = <<Save(v)>>
  BY DEF Begin
<1> HIDE DEF k, v
<1>2. v \in Slots
  BY <1>1, SlotsDiffer
<1>3. Piece(c, {}, {}, {}, {}, {})
  BY <1>2, InstructionTraits, SinglePiece DEF Begin
<1>4. Piece(c, {}, {}, {}, {v}, {})
  <2>1. {} \subseteq {v} /\ {} \subseteq {}
    OBVIOUS
  <2> QED BY <1>3, <2>1, WidenPiece
<1>5. Opened(c, c, {v}, {}, {}, {}, {})
  BY <1>4 DEF Opened
<1>6. /\ {} \subseteq Own(k, k) /\ {} \subseteq Own(k, k) \cup {L(k)} /\ {} \subseteq {} \cup {L(k)}
      /\ L(k) \notin {} /\ {} \subseteq {}
  OBVIOUS
<1>7. Trying(Out(c, ALWAYS_FAIL, k), n)
  <2>1. ALWAYS_FAIL \in {BOTH, ALWAYS_FAIL} /\ k \in Nat /\ k <= k
    BY <1>1
  <2>2. Opened(c, Begin(v), {v}, {}, {}, {}, {})
    BY <1>1, <1>5
  <2> HIDE DEF k, v
  <2>3. \A D, T, H, M : (/\ Opened(c, Begin(v), {v}, D, T, H, M) /\ M \subseteq Own(k, k)
                        /\ D \subseteq Own(k, k) /\ T \subseteq Own(k, k) \cup {L(k)}
                        /\ L(k) \notin T /\ T \subseteq D \cup {L(k)})
                       => Trying(Out(c, ALWAYS_FAIL, k), n)
    BY <1>1, <2>1, TryingBy, ZenonT(60)
  <2> QED BY <1>6, <2>2, <2>3
<1> QED BY <1>1, <1>7

LEMMA AlternativeCode ==
  ASSUME NEW n \in Nat, NEW onfail \in Onfails(n), NEW last \in BOOLEAN,
         NEW a, Trying(a, n), NEW b, Sound(b, L(a.label + 1), a.label + 1)
  PROVE  /\ last \/ b.reach = ALWAYS_SUCCEED => Sound(EmitAlternative(a, b, last, onfail, n + 1), onfail, n)
         /\ ~ last /\ b.reach # ALWAYS_SUCCEED => Trying(EmitAlternative(a, b, last, onfail, n + 1), n)
<1> DEFINE k == n + 1
           g == a.label
           l == g + 1
           m == b.label
           v == Saved(k)
           taken == BOTH \in {a.reach, b.reach}
           reach == IF b.reach = ALWAYS_FAIL THEN a.reach ELSE b.reach
           p  == <<Save(v)>>
           c3 == If(b.reach = BOTH, <<Goto(L(k))>>)
           c4 == If(b.reach # ALWAYS_SUCCEED, <<Label(L(l)), Restore(v)>>)
           c5 == If(b.reach # ALWAYS_SUCCEED /\ last, <<Goto(onfail)>>)
           c6 == If(taken /\ (last \/ b.reach = ALWAYS_SUCCEED), <<Label(L(k))>>)
           code == ((((a.code \o b.code) \o c3) \o c4) \o c5) \o c6
           E3 == Where(b.reach = BOTH, {L(k)})
           D4 == Where(b.reach # ALWAYS_SUCCEED, {L(l)})
           E5 == Where(b.reach # ALWAYS_SUCCEED /\ last, {onfail})
           D6 == Where(taken /\ (last \/ b.reach = ALWAYS_SUCCEED), {L(k)})
<1>1. EmitAlternative(a, b, last, onfail, n + 1) = Out(code, reach, m)
  BY DEF EmitAlternative
<1>2. k \in Nat /\ n < k /\ onfail \in Labels /\ L(k) \in Labels /\ v \in Slots
  BY LabelsDiffer, SlotsDiffer DEF Onfails
<1>3. PICK D1, T1, H1 :
        /\ g \in Nat /\ k <= g /\ a.reach \in {BOTH, ALWAYS_FAIL}
        /\ Opened(a.code, p, {v}, D1, T1, H1, Own(k, g)) /\ H1 \subseteq D1
        /\ D1 \subseteq Own(k, g) /\ T1 \subseteq Own(k, g) \cup {L(k)}
        /\ a.reach = ALWAYS_FAIL => L(k) \notin T1
        /\ H1 \subseteq T1 => T1 \subseteq D1 \cup {L(k)}
  <2> DEFINE D == Defined(a.code)
             T == Targets(a.code)
             H == Handlers(a.code)
  <2>1. /\ g \in Nat /\ k <= g /\ a.reach \in {BOTH, ALWAYS_FAIL}
        /\ Opened(a.code, p, {v}, D, T, H, Own(k, g))
        /\ D \subseteq Own(k, g) /\ T \subseteq Own(k, g) \cup {L(k)}
        /\ a.reach = ALWAYS_FAIL => L(k) \notin T
        /\ H \subseteq T => T \subseteq D \cup {L(k)}
    BY DEF Trying, Begin
  <2> HIDE DEF D, T, H, k, g, v, p
  <2>2. H \subseteq D
    BY <2>1 DEF Opened, Piece
  <2> QED BY <2>1, <2>2
<1>4. l \in Nat /\ n < l /\ k < l /\ g < l /\ L(l) \in Labels
  BY <1>2, <1>3, LabelsDiffer
<1>5. PICK D2, T2, H2 :
        /\ Piece(b.code, D2, T2, H2, {}, Own(l, m))
        /\ m \in Nat /\ l <= m /\ b.reach \in Reaches
        /\ D2 \subseteq Own(l, m) /\ H2 \subseteq D2 /\ T2 \subseteq Own(l, m) \cup {L(l)}
        /\ Resolved(D2, T2, H2, b.reach, L(l))
        /\ L(l) \notin Own(l, m) /\ onfail \notin Own(l, m) /\ onfail # L(l)
  <2>1. l <= l /\ Sound(b, L(l), l)
    BY <1>4
  <2> HIDE DEF l
  <2> QED BY <1>4, <2>1, BlockOperand
<1> HIDE DEF k, g, l, m, v
<1> DEFINE M1 == Own(k, g)
           M2 == Own(l, m)
<1>6. /\ L(k) # L(l) /\ onfail # L(k) /\ onfail \notin M1 /\ L(l) \notin M1 /\ L(k) \notin M1
      /\ L(k) \notin M2 /\ M1 \cap M2 = {}
  <2>1. PICK i \in 0 .. n : onfail = L(i)
    BY DEF Onfails
  <2> QED BY <1>2, <1>3, <1>4, <1>5, <2>1, LabelsDiffer, OwnLabels
<1>7. /\ D1 \cap D2 = {} /\ T1 \cap M2 = {} /\ T2 \cap M1 = {}
      /\ E3 \subseteq {L(k)} /\ D4 \subseteq {L(l)} /\ E5 \subseteq {onfail} /\ D6 \subseteq {L(k)}
      /\ E3 \cap (M1 \cup M2) = {} /\ E5 \cap (M1 \cup M2) = {}
      /\ (D1 \cup D2) \cap D4 = {} /\ ((D1 \cup D2) \cup D4) \cap D6 = {}
  BY <1>3, <1>5, <1>6 DEF Where
<1>8. /\ Piece(c3, {}, E3, {}, {}, {}) /\ Piece(c5, {}, E5, {}, {}, {})
      /\ Piece(c6, D6, {}, {}, {}, {})
  <2>1. /\ Traits(Goto(L(k)), {}, {L(k)}, {}, {}) /\ Traits(Goto(onfail), {}, {onfail}, {}, {})
        /\ Traits(Label(L(k)), {L(k)}, {}, {}, {})
    BY <1>2, InstructionTraits
  <2> QED BY <2>1, IfOne
<1>9. Piece(c4, D4, {}, {}, {v}, {})
  <2>1. Traits(Restore(v), {}, {}, {v}, {}) /\ Traits(Label(L(l)), {L(l)}, {}, {}, {})
    BY <1>2, <1>4, InstructionTraits
  <2>2. Piece(<<Label(L(l)), Restore(v)>>, {L(l)} \cup {}, {} \cup {}, {}, {} \cup {v}, {})
    BY <2>1, TwoPiece, Nothing
  <2>3. Piece(<<Label(L(l)), Restore(v)>>, {L(l)}, {}, {}, {v}, {})
    BY <2>2, Nothing
  <2>4. Piece(c4, D4, Where(b.reach # ALWAYS_SUCCEED, {}), {}, {v}, {})
    BY <2>3, IfPiece
  <2> QED BY <2>4, Nothing
<1> DEFINE D == ((D1 \cup D2) \cup D4) \cup D6
           T == ((T1 \cup T2) \cup E3) \cup E5
           H == H1 \cup H2
           M == M1 \cup M2
<1>10. Opened(code, p, {v}, D, T, H, M)
  <2>0. Len(p) \in Nat
    OBVIOUS
  <2> HIDE DEF p, c3, c4, c5, c6, E3, D4, E5, D6
  <2>1. Opened(a.code \o b.code, p, {v}, D1 \cup D2, T1 \cup T2, H, M)
    BY <1>3, <1>5, <1>7, <2>0, OpenedAppend
  <2> HIDE DEF M, H
  <2>2. E3 \cap M = {} /\ E5 \cap M = {} /\ {} \subseteq {v}
    BY <1>7 DEF M
  <2>3. Opened((a.code \o b.code) \o c3, p, {v}, (D1 \cup D2) \cup {}, (T1 \cup T2) \cup E3, H, M)
    BY <1>8, <2>0, <2>1, <2>2, OpenedJoin, Nothing
  <2>4. Opened((a.code \o b.code) \o c3, p, {v}, D1 \cup D2, (T1 \cup T2) \cup E3, H, M)
    BY <2>3, Nothing
  <2>5. Opened(((a.code \o b.code) \o c3) \o c4, p, {v}, (D1 \cup D2) \cup D4,
               ((T1 \cup T2) \cup E3) \cup {}, H, M)
    BY <1>7, <1>9, <2>0, <2>4, OpenedJoin, Nothing
  <2>6. Opened(((a.code \o b.code) \o c3) \o c4, p, {v}, (D1 \cup D2) \cup D4,
               (T1 \cup T2) \cup E3, H, M)
    BY <2>5, Nothing
  <2>7. Opened((((a.code \o b.code) \o c3) \o c4) \o c5, p, {v}, ((D1 \cup D2) \cup D4) \cup {}, T, H, M)
    BY <1>8, <2>0, <2>2, <2>6, OpenedJoin, Nothing
  <2>8. Opened((((a.code \o b.code) \o c3) \o c4) \o c5, p, {v}, (D1 \cup D2) \cup D4, T, H, M)
    BY <2>7, Nothing
  <2>9. Opened(code, p, {v}, D, T \cup {}, H, M)
    BY <1>7, <1>8, <2>0, <2>2, <2>8, OpenedJoin, Nothing
  <2> QED BY <2>9, Nothing
<1>11. /\ M1 \subseteq Own(k, m) /\ M2 \subseteq Own(k, m) /\ L(l) \in Own(k, m) /\ k <= m
       /\ Own(k, m) \subseteq Own(n, m) /\ L(k) \in Own(n, m) /\ n <= m
  BY <1>2, <1>3, <1>4, <1>5, OwnLabels
(* The error actions of each alternative are reached from inside of it.    *)
<1>12. H \subseteq T => H1 \subseteq T1 /\ H2 \subseteq T2
  <2> HIDE DEF E3, E5, M1, M2
  <2>1. H1 \subseteq M1 /\ H2 \subseteq M2
    BY <1>3, <1>5 DEF M1, M2
  <2>2. E3 \cap M1 = {} /\ E5 \cap M1 = {} /\ E3 \cap M2 = {} /\ E5 \cap M2 = {}
    BY <1>7
  <2> QED BY <1>7, <2>1, <2>2
<1>13. CASE last \/ b.reach = ALWAYS_SUCCEED
  <2>1. Piece(code, D, T, H, {}, M \cup D)
    BY <1>2, <1>10, SaveClosed
  <2>2. reach \in Reaches
    BY <1>3, <1>5 DEF Reaches
  <2>3. Resolved(D, T, H, reach, onfail)
    <3>1. SUFFICES ASSUME H \subseteq T
                   PROVE  T \subseteq D \cup {onfail} /\ (reach = ALWAYS_SUCCEED => onfail \notin T)
      BY DEF Resolved
    <3>2. T1 \subseteq D1 \cup {L(k)} /\ T2 \subseteq D2 \cup D4
      BY <1>3, <1>5, <1>12, <3>1 DEF Resolved, Where
    <3>3. L(k) \in T1 \cup E3 => D6 = {L(k)}
      BY <1>3, <1>13 DEF Where
    <3>4. T \subseteq D \cup {onfail}
      BY <1>7, <3>2, <3>3
    <3>5. ASSUME reach = ALWAYS_SUCCEED PROVE onfail \notin T
      <4>1. E5 = {}
        BY <1>3, <3>5, ReachesDiffer DEF Where
      <4> QED BY <1>3, <1>5, <1>6, <1>7, <4>1
    <3> QED BY <3>4, <3>5
  <2> HIDE DEF code, E3, D4, E5, D6, M1, M2, reach
  <2>4. D \subseteq Own(n, m) /\ M \cup D \subseteq Own(n, m) /\ T \subseteq Own(n, m) \cup {onfail}
    BY <1>3, <1>5, <1>7, <1>11 DEF M1, M2
  <2> HIDE DEF D, T, H, M
  <2>5. Sound(Out(code, reach, m), onfail, n)
    BY <1>5, <1>11, <2>1, <2>2, <2>3, <2>4, SoundBy
  <2> QED BY <1>1, <1>13, <2>5
<1>14. CASE ~ last /\ b.reach # ALWAYS_SUCCEED
  <2>1. D6 = {} /\ E5 = {} /\ D4 = {L(l)}
    BY <1>14 DEF Where
  <2>2. reach \in {BOTH, ALWAYS_FAIL}
    BY <1>3, <1>5, <1>14 DEF Reaches
  <2>3. ASSUME reach = ALWAYS_FAIL PROVE L(k) \notin T
    <3>1. a.reach = ALWAYS_FAIL /\ E3 = {}
      BY <1>3, <2>3, ReachesDiffer DEF Where
    <3> QED BY <1>3, <1>5, <1>6, <2>1, <3>1
  <2>4. ASSUME H \subseteq T PROVE T \subseteq D \cup {L(k)}
    <3>1. T1 \subseteq D1 \cup {L(k)} /\ T2 \subseteq D2 \cup D4
      BY <1>3, <1>5, <1>12, <2>1, <2>4 DEF Resolved
    <3> QED BY <1>7, <2>1, <3>1
  <2> HIDE DEF code, E3, D4, E5, D6, M1, M2, reach
  <2>5. D \subseteq Own(k, m) /\ M \subseteq Own(k, m) /\ T \subseteq Own(k, m) \cup {L(k)}
    BY <1>3, <1>5, <1>7, <1>11, <2>1 DEF M1, M2
  <2> HIDE DEF D, T, H, M
  <2>6. Trying(Out(code, reach, m), n)
    <3> HIDE DEF p
    <3>1. k = n + 1 /\ v = Saved(k) /\ Opened(code, Begin(v), {v}, D, T, H, M)
      BY <1>10 DEF k, v, p, Begin
    <3> QED BY <1>5, <1>11, <2>2, <2>3, <2>4, <2>5, <3>1, TryingBy
  <2> QED BY <1>1, <1>14, <2>6
<1> QED BY <1>13, <1>14
(* The body of a loop without an upper limit.                              *)
LEMMA OnceMorePiece ==
  ASSUME NEW e, e.max = -1, NEW l \in Nat, NEW b, NEW q, q <=> b.reach # ALWAYS_SUCCEED,
         NEW D, NEW T, NEW H, NEW M, Piece(b.code, D, T, H, {}, M),
         L(l) \notin D, {Loop(l), Break(l)} \cap M = {}
  PROVE  Piece(OnceMore(e, l, b), D \cup Where(q, {L(l)}),
               (T \cup {Break(l), Loop(l)}) \cup Where(q, {Break(l)}),
               H, {Counter(Saved(l))}, M \cup (D \cup Where(q, {L(l)})))
<1> DEFINE s  == Saved(l)
           z  == Counter(s)
           V  == {s, z}
           c1 == <<Save(s)>>
           c3 == <<Still(s, Break(l)), Count(s, Loop(l))>>
           c4 == <<Label(L(l)), Restore(s), Goto(Break(l))>>
           c5 == If(b.reach # ALWAYS_SUCCEED, c4)
           code == ((c1 \o b.code) \o c3) \o c5
<1>1. s \in Counters /\ s \in Slots /\ L(l) \in Labels /\ Loop(l) \in Labels /\ Break(l) \in Labels
  BY LabelsDiffer, SlotsDiffer
<1>2. /\ Traits(Restore(s), {}, {}, {s}, {})
      /\ Traits(Still(s, Break(l)), {}, {Break(l)}, {s}, {})
      /\ Traits(Count(s, Loop(l)), {}, {Loop(l)}, {z}, {})
      /\ Traits(Label(L(l)), {L(l)}, {}, {}, {}) /\ Traits(Goto(Break(l)), {}, {Break(l)}, {}, {})
  BY <1>1, InstructionTraits
<1>3. OnceMore(e, l, b) = code
  <2>1. <<Save(s)>> \in Seq({Save(s)})
    OBVIOUS
  <2>2. <<>> \o <<Save(s)>> = <<Save(s)>>
    BY <2>1
  <2>3. If(e.max > 0, <<Under(s, e.max, Break(l))>>) = <<>>
    BY DEF If
  <2> QED BY <2>2, <2>3 DEF OnceMore
<1>4. Opened(c1 \o b.code, c1, V, D, T, H, M) /\ Len(c1) \in Nat
  <2>1. Opened(c1 \o b.code, c1, {s}, D, T, H, M) /\ Len(c1) \in Nat
    BY <1>1, SaveStart
  <2>2. {s} \subseteq V /\ M \subseteq M
    OBVIOUS
  <2> HIDE DEF V, c1
  <2>3. Piece(c1 \o b.code, D, T, H, V, M)
    BY <2>1, <2>2, WidenPiece DEF Opened
  <2> QED BY <2>1, <2>3 DEF Opened
<1>5. Piece(c3, {}, {Break(l), Loop(l)}, {}, V, {})
  <2>1. Piece(c3, {} \cup {}, {Break(l)} \cup {Loop(l)}, {}, {s} \cup {z}, {})
    BY <1>2, TwoPiece, Nothing
  <2>2. {Break(l)} \cup {Loop(l)} = {Break(l), Loop(l)} /\ {s} \cup {z} = V
    OBVIOUS
  <2> HIDE DEF V
  <2> QED BY <2>1, <2>2, Nothing
<1>6. Piece(c4, {L(l)}, {Break(l)}, {}, {s}, {})
  <2>1. ({L(l)} \cup {}) \cap {} = {} /\ {L(l)} \cap {} = {}
    OBVIOUS
  <2>2. Piece(c4, ({L(l)} \cup {}) \cup {}, ({} \cup {}) \cup {Break(l)}, {},
              ({} \cup {s}) \cup {}, {})
    BY <1>2, <2>1, ThreePiece
  <2> QED BY <2>2, Nothing
<1> DEFINE D5 == Where(q, {L(l)})
           T5 == Where(q, {Break(l)})
           T3 == {Break(l), Loop(l)}
<1>7. Piece(c5, D5, T5, {}, {s}, {})
  <2>1. Piece(c5, Where(b.reach # ALWAYS_SUCCEED, {L(l)}), Where(b.reach # ALWAYS_SUCCEED, {Break(l)}),
              {}, {s}, {})
    BY <1>6, IfPiece
  <2> QED BY <2>1 DEF Where
<1>8. D \cap D5 = {} /\ T5 \cap M = {} /\ T3 \cap M = {} /\ D \cap {} = {} /\ {s} \subseteq V /\ V \subseteq V
  BY DEF Where
<1> HIDE DEF c1, c3, c4, c5, D5, T5, T3, V
<1>9. Opened((c1 \o b.code) \o c3, c1, V, D \cup {}, T \cup T3, H, M)
  BY <1>4, <1>5, <1>8, OpenedJoin DEF T3
<1>10. Opened((c1 \o b.code) \o c3, c1, V, D, T \cup T3, H, M)
  BY <1>9, Nothing
<1>11. Opened(code, c1, V, D \cup D5, (T \cup T3) \cup T5, H, M)
  BY <1>4, <1>7, <1>8, <1>10, OpenedJoin
<1> HIDE DEF code
<1>12. Piece(code, D \cup D5, (T \cup T3) \cup T5, H, V \ {s}, M \cup (D \cup D5))
  BY <1>1, <1>11, SaveCloses DEF c1
<1>13. Piece(code, D \cup D5, (T \cup T3) \cup T5, H, {z}, M \cup (D \cup D5))
  <2>1. V \ {s} \subseteq {z} /\ M \cup (D \cup D5) \subseteq M \cup (D \cup D5)
    BY DEF V
  <2> QED BY <1>12, <2>1, WidenPiece
<1> QED BY <1>3, <1>13 DEF D5, T5, T3, s, z

(* What precedes a loop: it sets the variables of the block, first of all. *)
LoopStart(q, l) == If(q, <<Save(Before(l))>>) \o <<Zero(Saved(l)), Label(Loop(l))>>
LoopPlace(q)    == IF q THEN 2 ELSE 1

LEMMA BeforeLoopPiece ==
  ASSUME NEW q \in BOOLEAN, NEW l \in Nat
  PROVE  /\ Piece(LoopStart(q, l), {Loop(l)}, {}, {}, {}, {})
         /\ Len(LoopStart(q, l)) \in Nat /\ LoopPlace(q) <= Len(LoopStart(q, l))
         /\ LoopStart(q, l)[LoopPlace(q)] = Zero(Saved(l))
         /\ q => LoopStart(q, l)[1] = Save(Before(l))
<1> DEFINE s  == Saved(l)
           c1 == If(q, <<Save(Before(l))>>)
           c2 == <<Zero(s), Label(Loop(l))>>
           w == LoopPlace(q)
<1>1. s \in Counters /\ Before(l) \in Slots /\ Loop(l) \in Labels
  BY LabelsDiffer, SlotsDiffer
<1>2. /\ Traits(Save(Before(l)), {}, {}, {}, {Before(l)}) /\ Traits(Zero(s), {}, {}, {}, {Counter(s)})
      /\ Traits(Label(Loop(l)), {Loop(l)}, {}, {}, {})
  BY <1>1, InstructionTraits
<1>3. Piece(c1, {}, {}, {}, {}, {})
  <2>1. Piece(c1, {}, Where(q, {}), {}, {}, {})
    BY <1>2, IfOne
  <2> QED BY <2>1, Nothing
<1>4. Piece(c2, {Loop(l)}, {}, {}, {}, {})
  <2>1. Piece(c2, {} \cup {Loop(l)}, {} \cup {}, {}, {} \cup {}, {})
    BY <1>2, TwoPiece, Nothing
  <2> QED BY <2>1, Nothing
<1>5. Piece(c1 \o c2, {Loop(l)}, {}, {}, {}, {})
  <2>1. Piece(c1 \o c2, {Loop(l)}, {}, {}, {} \cup {}, {})
    BY <1>3, <1>4, JoinBehind
  <2> QED BY <2>1, Nothing
<1>6. Follows(c1 \o c2, c1, c2) /\ Len(c1 \o c2) \in Nat
  <2> HIDE DEF c1, c2
  <2>1. c1 \in Seq(Instructions) /\ c2 \in Seq(Instructions) /\ c1 \o c2 \in Seq(Instructions)
    BY <1>3, <1>4, <1>5 DEF Piece
  <2> QED BY <2>1, JoinPlaces
<1>7. Len(c2) = 2 /\ c2[1] = Zero(s)
  OBVIOUS
<1> DEFINE p == c1 \o c2
<1>0. LoopStart(q, l) = p
  BY DEF LoopStart
<1>8. CASE q
  <2>1. Len(c1) = 1 /\ c1[1] = Save(Before(l)) /\ w = 2
    BY <1>8 DEF If, LoopPlace
  <2> HIDE DEF c1, c2, w
  <2>2. Len(c1 \o c2) = 3 /\ (c1 \o c2)[1] = Save(Before(l)) /\ (c1 \o c2)[2] = Zero(s)
    BY <1>6, <1>7, <2>1 DEF Follows
  <2>3. LoopPlace(q) = 2
    BY <2>1 DEF w
  <2>4. p = c1 \o c2
    OBVIOUS
  <2> HIDE DEF p, s
  <2>5. Len(p) = 3 /\ p[1] = Save(Before(l)) /\ p[2] = Zero(s) /\ Piece(p, {Loop(l)}, {}, {}, {}, {})
    BY <1>5, <2>2, <2>4
  <2>6. /\ Piece(LoopStart(q, l), {Loop(l)}, {}, {}, {}, {})
        /\ Len(LoopStart(q, l)) = 3 /\ LoopStart(q, l)[2] = Zero(Saved(l))
        /\ LoopStart(q, l)[1] = Save(Before(l))
    BY <1>0, <2>5 DEF s
  <2>7. Len(LoopStart(q, l)) \in Nat /\ 2 <= Len(LoopStart(q, l))
    BY <2>6
  <2> QED BY <1>8, <2>3, <2>6, <2>7
<1>9. CASE ~ q
  <2>1. Len(c1) = 0 /\ w = 1
    BY <1>9 DEF If, LoopPlace
  <2> HIDE DEF c1, c2, w
  <2>2. Len(c1 \o c2) = 2 /\ (c1 \o c2)[1] = Zero(s)
    BY <1>6, <1>7, <2>1 DEF Follows
  <2>3. LoopPlace(q) = 1
    BY <2>1 DEF w
  <2>4. p = c1 \o c2
    OBVIOUS
  <2> HIDE DEF p, s
  <2>5. Len(p) = 2 /\ p[1] = Zero(s) /\ Piece(p, {Loop(l)}, {}, {}, {}, {})
    BY <1>5, <2>2, <2>4
  <2> QED BY <1>0, <1>9, <2>3, <2>5 DEF s
<1> QED BY <1>8, <1>9

(* What follows a loop that needs an occurrence.                           *)
LEMMA BehindLoopPiece ==
  ASSUME NEW e, NEW q \in BOOLEAN, q <=> e.min > 0, e.min \in Nat, NEW n \in Nat,
         NEW onfail \in Onfails(n), NEW l \in Nat
  PROVE  Piece(BehindLoop(e, onfail, l), Where(q, {Enough(l)}), Where(q, {Enough(l), onfail}), {},
               Where(q, {Counter(Saved(l)), Before(l)}), {})
<1> DEFINE s  == Saved(l)
           z  == Counter(s)
           x  == Before(l)
           c  == <<Under(s, e.min, Enough(l)), Restore(x), Goto(onfail), Label(Enough(l))>>
<1>1. s \in Counters /\ x \in Slots /\ onfail \in Labels /\ Enough(l) \in Labels
  BY LabelsDiffer, SlotsDiffer DEF Onfails
<1>2. /\ Traits(Under(s, e.min, Enough(l)), {}, {Enough(l)}, {z}, {})
      /\ Traits(Restore(x), {}, {}, {x}, {}) /\ Traits(Goto(onfail), {}, {onfail}, {}, {})
      /\ Traits(Label(Enough(l)), {Enough(l)}, {}, {}, {})
  BY <1>1, InstructionTraits
<1>3. BehindLoop(e, onfail, l) = If(q, c)
  BY DEF BehindLoop
<1>4. Piece(c, {Enough(l)}, {Enough(l), onfail}, {}, {z, x}, {})
  <2>1. /\ {} \cap {} = {} /\ ({} \cup {}) \cap {} = {}
        /\ (({} \cup {}) \cup {}) \cap {Enough(l)} = {}
    OBVIOUS
  <2>2. Piece(c, (({} \cup {}) \cup {}) \cup {Enough(l)}, (({Enough(l)} \cup {}) \cup {onfail}) \cup {},
              {}, (({z} \cup {x}) \cup {}) \cup {}, {})
    BY <1>2, <2>1, FourPiece
  <2>3. ({Enough(l)} \cup {}) \cup {onfail} = {Enough(l), onfail} /\ {z} \cup {x} = {z, x}
    OBVIOUS
  <2> QED BY <2>2, <2>3, Nothing
<1>5. CASE q
  BY <1>3, <1>4, <1>5 DEF If, Where
<1>6. CASE ~ q
  BY <1>3, <1>6, EmptyPiece DEF If, Where
<1> QED BY <1>5, <1>6

LEMMA EmitRepetitionSound ==
  ASSUME NEW e \in Expressions, e.max = -1, e.min \in {0, 1},
         NEW n \in Nat, NEW onfail \in Onfails(n), NEW b, Sound(b, L(n + 1), n + 1)
  PROVE  Sound(EmitRepetition(e, onfail, n, b), onfail, n)
<1> DEFINE l == n + 1
           m == b.label
           s == Saved(l)
           z == Counter(s)
           x == Before(l)
           q == e.min > 0
           M == Own(l, m)
           p == LoopStart(q, l)
           w == LoopPlace(q)
           c2 == OnceMore(e, l, b)
           c3 == <<Label(Break(l))>>
           c4 == BehindLoop(e, onfail, l)
           code == ((p \o c2) \o c3) \o c4
           reach == IF e.min = 0 THEN ALWAYS_SUCCEED
                    ELSE IF b.reach = ALWAYS_FAIL THEN ALWAYS_FAIL ELSE BOTH
           D5 == Where(b.reach # ALWAYS_SUCCEED, {L(l)})
           T5 == Where(b.reach # ALWAYS_SUCCEED, {Break(l)})
           D4 == Where(q, {Enough(l)})
           T4 == Where(q, {Enough(l), onfail})
           V4 == Where(q, {z, x})
           V  == {z} \cup Where(q, {x})
<1>1. /\ l \in Nat /\ n < l /\ onfail \in Labels
      /\ L(l) \in Labels /\ Loop(l) \in Labels /\ Break(l) \in Labels
      /\ s \in Counters /\ s \in Slots /\ x \in Slots /\ z # x
  BY LabelsDiffer, SlotsDiffer, CounterDiffers DEF Onfails
<1>2. EmitRepetition(e, onfail, n, b) = Out(code, reach, m)
  BY DEF EmitRepetition, BeforeLoop, LoopStart
<1>3. Sound(b, L(l), l) /\ l <= l /\ q \in BOOLEAN
  BY <1>1
<1> HIDE DEF l
<1>4. PICK D, T, H :
        /\ Piece(b.code, D, T, H, {}, Own(l, m))
        /\ m \in Nat /\ l <= m /\ b.reach \in Reaches
        /\ D \subseteq Own(l, m) /\ H \subseteq D /\ T \subseteq Own(l, m) \cup {L(l)}
        /\ Resolved(D, T, H, b.reach, L(l))
        /\ L(l) \notin Own(l, m) /\ onfail \notin Own(l, m) /\ onfail # L(l)
  BY <1>1, <1>3, BlockOperand
<1> DEFINE D2 == D \cup D5
           T2 == (T \cup {Break(l), Loop(l)}) \cup T5
           N  == M \cup D2
<1>5. /\ {L(l), Loop(l), Break(l), Enough(l), onfail} \cap M = {}
      /\ {L(l), Loop(l), Break(l), Enough(l)} \subseteq Own(n, m) /\ M \subseteq Own(n, m) /\ n <= m
      /\ onfail \notin {L(l), Loop(l), Break(l), Enough(l)}
  <2>1. PICK i \in 0 .. n : onfail = L(i)
    BY DEF Onfails
  <2>2. /\ L(l) \notin M /\ Loop(l) \notin M /\ Break(l) \notin M /\ Enough(l) \notin M
        /\ L(l) \in Own(n, m) /\ Loop(l) \in Own(n, m) /\ Break(l) \in Own(n, m)
        /\ Enough(l) \in Own(n, m) /\ M \subseteq Own(n, m) /\ n <= m
    BY <1>1, <1>4, OwnLabels
  <2>3. onfail # Loop(l) /\ onfail # Break(l) /\ onfail # Enough(l)
    BY <1>1, <2>1, LabelsDiffer
  <2> QED BY <1>4, <2>2, <2>3
<1>6. Piece(p, {Loop(l)}, {}, {}, {}, {})
      /\ Len(p) \in Nat /\ w <= Len(p) /\ p[w] = Zero(s) /\ (q => p[1] = Save(x))
  <2> HIDE DEF q
  <2> QED BY <1>1, <1>3, BeforeLoopPiece
<1>7. Piece(c2, D2, T2, H, {z}, N)
  <2> DEFINE r == b.reach # ALWAYS_SUCCEED
  <2>1. L(l) \notin D /\ {Loop(l), Break(l)} \cap M = {} /\ (r <=> b.reach # ALWAYS_SUCCEED)
    BY <1>4, <1>5
  <2> HIDE DEF M, r
  <2>2. Piece(b.code, D, T, H, {}, M)
    BY <1>4 DEF M
  <2>3. Piece(c2, D \cup Where(r, {L(l)}),
              (T \cup {Break(l), Loop(l)}) \cup Where(r, {Break(l)}),
              H, {Counter(Saved(l))}, M \cup (D \cup Where(r, {L(l)})))
    BY <1>1, <2>1, <2>2, OnceMorePiece
  <2> QED BY <2>3 DEF r
<1>8. Piece(c3, {Break(l)}, {}, {}, {}, {})
  BY <1>1, InstructionTraits, SinglePiece
<1>9. Piece(c4, D4, T4, {}, V4, {})
  <2>1. e.min \in Nat /\ (q <=> e.min > 0)
    OBVIOUS
  <2> QED BY <1>1, <1>3, <2>1, BehindLoopPiece
<1>10. /\ {Loop(l)} \cap D2 = {} /\ ({Loop(l)} \cup D2) \cap {Break(l)} = {}
       /\ (({Loop(l)} \cup D2) \cup {Break(l)}) \cap D4 = {} /\ T4 \cap N = {} /\ {} \cap N = {}
       /\ {z} \subseteq V /\ V4 \subseteq V /\ {} \subseteq V
  BY <1>1, <1>4, <1>5, LabelsDiffer DEF Where
<1> DEFINE D9 == (({Loop(l)} \cup D2) \cup {Break(l)}) \cup D4
           T9 == T2 \cup T4
<1>11. Opened(code, p, V, D9, T9, H, N)
  <2> HIDE DEF p, c2, c3, c4, D2, T2, D4, T4, V4, V, N
  <2>1. Opened(p \o c2, p, V, {Loop(l)} \cup D2, T2, H, N)
    BY <1>6, <1>7, <1>10, OpenedStart
  <2>2. Opened((p \o c2) \o c3, p, V, ({Loop(l)} \cup D2) \cup {Break(l)}, T2 \cup {}, H, N)
    BY <1>6, <1>8, <1>10, <2>1, OpenedJoin
  <2>3. Opened((p \o c2) \o c3, p, V, ({Loop(l)} \cup D2) \cup {Break(l)}, T2, H, N)
    BY <2>2, Nothing
  <2> QED BY <1>6, <1>9, <1>10, <2>3, OpenedJoin
<1>12. Piece(code, D9, T9, H, {}, (N \cup D9) \cup D9)
  <2> HIDE DEF p, c2, c3, c4, code, D9, T9, N
  <2>1. Piece(code, D9, T9, H, V, N) /\ code \in Seq(Instructions)
        /\ Len(p) <= Len(code) /\ \A i \in 1 .. Len(p) : code[i] = p[i]
    BY <1>11 DEF Opened, Piece
  <2>2. w \in DOMAIN code /\ 1 \in DOMAIN code /\ code[w] = Zero(s) /\ (q => code[1] = Save(x))
    <3>1. w \in {1, 2}
      BY DEF LoopPlace
    <3> HIDE DEF w, q
    <3>2. w \in 1 .. Len(p) /\ 1 \in 1 .. Len(p) /\ w \in 1 .. Len(code) /\ 1 \in 1 .. Len(code)
      BY <1>6, <2>1, <3>1
    <3>3. code[w] = p[w] /\ code[1] = p[1]
      BY <2>1, <3>2
    <3> QED BY <1>6, <2>1, <3>2, <3>3
  <2>3. /\ Jumps(Zero(s)) = {} /\ Uses(Zero(s)) = {} /\ Sets(Zero(s)) = {z}
        /\ Jumps(Save(x)) = {} /\ Uses(Save(x)) = {} /\ Sets(Save(x)) = {x}
    BY <1>1, InstructionTraits DEF Traits
  <2>4. \A y \in 1 .. w : Jumps(code[y]) = {} /\ Uses(code[y]) = {}
    <3>1. \A y \in 1 .. w : y = w \/ (q /\ y = 1)
      BY DEF w, LoopPlace
    <3> HIDE DEF w
    <3> QED BY <2>2, <2>3, <3>1
  <2>5. Piece(code, D9, T9, H, V \ {z}, N \cup D9)
    <3> HIDE DEF w
    <3>1. Piece(code, D9, T9, H, V \ Sets(code[w]), N \cup D9)
      BY <2>1, <2>2, <2>4, ClosePiece
    <3> QED BY <2>2, <2>3, <3>1
  <2>6. V \ {z} = Where(q, {x})
    BY <1>1 DEF Where
  <2>7. Piece(code, D9, T9, H, Where(q, {x}), N \cup D9)
    BY <2>5, <2>6
  <2>8. CASE q
    <3>1. \A y \in 1 .. 1 : Jumps(code[y]) = {} /\ Uses(code[y]) = {}
      BY <2>2, <2>3, <2>8
    <3>2. Piece(code, D9, T9, H, Where(q, {x}) \ Sets(code[1]), (N \cup D9) \cup D9)
      BY <2>2, <2>7, <3>1, ClosePiece
    <3>3. Where(q, {x}) \ Sets(code[1]) = {}
      BY <2>2, <2>3, <2>8 DEF Where
    <3> QED BY <3>2, <3>3
  <2>9. CASE ~ q
    <3>1. Where(q, {x}) = {} /\ (N \cup D9) \cup D9 = N \cup D9
      BY <2>9 DEF Where
    <3> QED BY <2>7, <3>1
  <2> QED BY <2>8, <2>9
<1>13. Resolved(D9, T9, H, reach, onfail)
  <2>1. SUFFICES ASSUME H \subseteq T9
                 PROVE  T9 \subseteq D9 \cup {onfail} /\ (reach = ALWAYS_SUCCEED => onfail \notin T9)
    BY DEF Resolved
  <2>2. T4 \subseteq {Enough(l), onfail} /\ T5 \subseteq {Break(l)}
        /\ T4 \subseteq D4 \cup {onfail} /\ (~ q => T4 = {})
    BY DEF Where
  <2>3. H \subseteq T
    BY <1>4, <1>5, <2>1, <2>2
  <2>4. T \subseteq D \cup D5
    BY <1>4, <2>3 DEF Resolved, Where
  <2>5. reach = ALWAYS_SUCCEED => ~ q
    BY ReachesDiffer
  <2> QED BY <1>4, <1>5, <2>2, <2>4, <2>5
<1>14. reach \in Reaches /\ D9 \subseteq Own(n, m) /\ (N \cup D9) \cup D9 \subseteq Own(n, m)
       /\ T9 \subseteq Own(n, m) \cup {onfail}
  <2>1. D5 \subseteq {L(l)} /\ T5 \subseteq {Break(l)} /\ D4 \subseteq {Enough(l)}
        /\ T4 \subseteq {Enough(l), onfail}
    BY DEF Where
  <2>2. reach \in Reaches
    BY ReachesDiffer
  <2> QED BY <1>4, <1>5, <2>1, <2>2
<1> HIDE DEF code, D9, T9, reach, N
<1> DEFINE K == (N \cup D9) \cup D9
<1>15. Piece(code, D9, T9, H, {}, K) /\ K \subseteq Own(n, m)
  BY <1>12, <1>14
<1> HIDE DEF K
<1> QED BY <1>2, <1>4, <1>5, <1>13, <1>14, <1>15, SoundBy

-----------------------------------------------------------------------------
(* The calls of generate_code.                                             *)

Outs  == [code : Seq(Instructions), reach : Reaches, label : Nat]
Calls == [node : Expressions, onfail : Labels, n : Nat, k : Nat, out : Outs]

(* What call c has written: an alternate that goes on has left its block    *)
(* open, a node with one operand has written nothing before that.           *)
Fits(c) ==
  /\ c \in Calls /\ c.onfail \in Onfails(c.n)
  /\ c.node.type \in {"sequence", "alternate"} => c.k <= Len(c.node.nodes)
  /\ c.node.type \in OperandTypes /\ c.k = 0 => c.out.label = c.n
  /\ c.node.type = "alternate" /\ GoesOn(c) => Trying(c.out, c.n)
  /\ c.node.type # "alternate" \/ ~ GoesOn(c) => Sound(c.out, c.onfail, c.n)

LEMMA OutFields ==
  ASSUME NEW code, NEW reach, NEW m
  PROVE  /\ Out(code, reach, m).code = code /\ Out(code, reach, m).reach = reach
         /\ Out(code, reach, m).label = m
  BY DEF Out

LEMMA SoundOuts ==
  ASSUME NEW o, o = Out(o.code, o.reach, o.label), NEW n, NEW onfail,
         Sound(o, onfail, n) \/ Trying(o, n)
  PROVE  o \in Outs
<1>1. o.code \in Seq(Instructions) /\ o.reach \in Reaches /\ o.label \in Nat
  BY DEF Sound, Trying, Piece, Opened, Reaches
<1> QED BY <1>1 DEF Out, Outs

LEMMA GenerateFits ==
  ASSUME NEW e \in Expressions, NEW n \in Nat, NEW onfail \in Onfails(n)
  PROVE  Fits(generate_code(e, onfail, n))
<1> DEFINE c == generate_code(e, onfail, n)
           o == Opening(e, onfail, n)
<1>1. c.node = e /\ c.onfail = onfail /\ c.n = n /\ c.k = 0 /\ c.out = o
  BY DEF generate_code
<1>2. onfail \in Labels
  BY LabelsDiffer DEF Onfails
<1>3. o = Out(o.code, o.reach, o.label)
  <2>1. \E code, reach, m : o = Out(code, reach, m)
    BY DEF Opening, EmitString, EmitCharclass
  <2> HIDE DEF o
  <2>2. PICK code, reach, m : o = Out(code, reach, m)
    BY <2>1
  <2>3. o.code = code /\ o.reach = reach /\ o.label = m
    BY <2>2, OutFields
  <2> QED BY <2>2, <2>3
<1>4. CASE e.type = "alternate"
  <2>1. o = Out(<<Save(Saved(n + 1))>>, ALWAYS_FAIL, n + 1)
    BY <1>4 DEF Opening
  <2>2. Trying(o, n)
    BY <2>1, OpeningTrying
  <2>3. e.nodes \in Seq(Expressions) /\ e.nodes # <<>>
    BY <1>4, ExpressionsAssumption
  <2>4. Len(e.nodes) \in Nat /\ 0 < Len(e.nodes)
    BY <2>3
  <2>5. o.reach = ALWAYS_FAIL
    BY <2>1, OutFields
  <2> HIDE DEF o
  <2>6. GoesOn(c)
    <3> HIDE DEF c
    <3> QED BY <1>1, <1>4, <2>4, <2>5, ReachesDiffer DEF GoesOn
  <2>7. o \in Outs
    BY <1>3, <2>2, SoundOuts
  <2>8. c \in Calls
    BY <1>2, <2>7 DEF generate_code, Calls, o
  <2> HIDE DEF c
  <2>9. /\ c.node.type = "alternate" /\ c.onfail \in Onfails(c.n) /\ c.k <= Len(c.node.nodes)
        /\ Trying(c.out, c.n)
    BY <1>1, <1>4, <2>2, <2>4
  <2>10. c.node.type \notin OperandTypes
    BY <2>9 DEF OperandTypes
  <2>11. Fits(c)
    BY <2>6, <2>8, <2>9, <2>10 DEF Fits
  <2> QED BY <2>11 DEF c
<1>5. CASE e.type # "alternate"
  <2>1. Sound(o, onfail, n)
    BY <1>5, OpeningSound
  <2>2. o \in Outs
    <3> HIDE DEF o
    <3> QED BY <1>3, <2>1, SoundOuts
  <2>3. c \in Calls
    BY <1>2, <2>2 DEF generate_code, Calls
  <2>4. e.type \in OperandTypes => o.label = n
    BY OutFields DEF OperandTypes, Opening
  <2>5. e.type = "sequence" => 0 <= Len(e.nodes)
    BY ExpressionsAssumption
  <2> HIDE DEF c, o
  <2>6. /\ c.node.type # "alternate" /\ c.onfail \in Onfails(c.n)
        /\ c.node.type = "sequence" => c.k <= Len(c.node.nodes)
        /\ c.node.type \in OperandTypes => c.out.label = c.n
        /\ Sound(c.out, c.onfail, c.n)
    BY <1>1, <1>5, <2>1, <2>4, <2>5
  <2>7. Fits(c)
    BY <2>3, <2>6 DEF Fits
  <2> QED BY <2>7 DEF c
<1> QED BY <1>4, <1>5

(* What a call that goes on calls generate_code with.                      *)
LEMMA OperandCall ==
  ASSUME NEW c, Fits(c), GoesOn(c)
  PROVE  \E e \in Expressions, n \in Nat : \E onfail \in Onfails(n) :
           Operand(c) = generate_code(e, onfail, n)
<1>1. /\ c.node \in Expressions /\ c.n \in Nat /\ c.k \in Nat /\ c.onfail \in Onfails(c.n)
      /\ c.out.label \in Nat /\ c.n <= c.out.label
  BY DEF Fits, Calls, Outs, Sound, Trying
<1> DEFINE e == c.node
           l == c.out.label + 1
<1>2. /\ l \in Nat /\ l + 1 \in Nat /\ L(l) \in Onfails(l) /\ L(l) \in Onfails(l + 1)
      /\ c.onfail \in Onfails(c.out.label)
  BY <1>1 DEF Onfails
<1> HIDE DEF l
<1>3. CASE e.type \in {"sequence", "alternate"}
  <2>1. e.nodes \in Seq(Expressions) /\ c.k < Len(e.nodes)
    BY <1>1, <1>3, ExpressionsAssumption DEF GoesOn
  <2>2. e.nodes[c.k + 1] \in Expressions
    BY <1>1, <2>1
  <2>3. CASE e.type = "sequence"
    <3>1. Operand(c) = generate_code(e.nodes[c.k + 1], c.onfail, c.out.label)
      BY <2>3 DEF Operand
    <3> QED BY <1>1, <1>2, <2>2, <3>1
  <2>4. CASE e.type = "alternate"
    <3>1. Operand(c) = generate_code(e.nodes[c.k + 1], L(l), l)
      BY <2>4 DEF Operand, l
    <3> QED BY <1>1, <1>2, <2>2, <3>1
  <2> QED BY <1>3, <2>3, <2>4
<1>4. CASE e.type \in OperandTypes
  <2>1. e.expr \in Expressions
    BY <1>1, <1>4, ExpressionsAssumption
  <2>2. CASE e.type = "quantity"
    <3>1. Operand(c) = IF Once(e) THEN generate_code(e.expr, c.onfail, c.n)
                       ELSE generate_code(e.expr, L(l), l)
      BY <2>2 DEF Operand, l
    <3> QED BY <1>1, <1>2, <2>1, <3>1
  <2>3. CASE e.type = "predicate"
    <3>1. Operand(c) = generate_code(e.expr, L(l), IF e.neg THEN l ELSE l + 1)
      BY <2>3 DEF Operand, l
    <3> QED BY <1>1, <1>2, <2>1, <3>1
  <2>4. CASE e.type = "capture"
    <3>1. Operand(c) = generate_code(e.expr, c.onfail, c.n)
      BY <2>4 DEF Operand
    <3> QED BY <1>1, <1>2, <2>1, <3>1
  <2>5. CASE e.type = "error"
    <3>1. Operand(c) = generate_code(e.expr, L(l), l + 1)
      BY <2>5 DEF Operand, l
    <3> QED BY <1>1, <1>2, <2>1, <3>1
  <2> QED BY <1>4, <2>2, <2>3, <2>4, <2>5 DEF OperandTypes
<1> QED BY <1>3, <1>4 DEF GoesOn, OperandTypes

(* A call goes on with what has come of its operand.                       *)
LEMMA WrittenSound ==
  ASSUME NEW c, Fits(c), GoesOn(c), NEW b,
         Sound(b, Operand(c).onfail, Operand(c).n), c.node.type # "alternate"
  PROVE  Sound(Written(c, b), c.onfail, c.n)
<1> DEFINE e == c.node
           n == c.n
           onfail == c.onfail
           a == c.out
           l == a.label + 1
<1>1. e \in Expressions /\ n \in Nat /\ c.k \in Nat /\ onfail \in Onfails(n) /\ Sound(a, onfail, n)
  BY DEF Fits, Calls
<1>2. \A x, f, g : generate_code(x, f, g).onfail = f /\ generate_code(x, f, g).n = g
  BY DEF generate_code
<1>3. CASE e.type = "sequence"
  <2>1. a.reach # ALWAYS_FAIL
    BY <1>3 DEF GoesOn
  <2>2. Operand(c) = generate_code(e.nodes[c.k + 1], onfail, a.label)
    BY <1>3 DEF Operand
  <2>3. Sound(b, onfail, a.label)
    BY <1>2, <2>2
  <2>4. Written(c, b) = EmitElement(a, b)
    BY <1>3 DEF Written
  <2> QED BY <1>1, <2>1, <2>3, <2>4, EmitElementSound
<1>4. CASE e.type \in OperandTypes
  <2>1. l = n + 1 /\ l + 1 = n + 2
    <3>1. c.k = 0
      BY <1>4 DEF GoesOn, OperandTypes
    <3> QED BY <1>1, <1>4, <3>1 DEF Fits
  <2>2. CASE e.type = "quantity"
    <3>1. <<e.min, e.max>> \in {<<0, -1>>, <<1, -1>>, <<0, 1>>}
      BY <1>1, <2>2, ExpressionsAssumption
    <3>2. (e.min \in {0, 1} /\ e.max = -1) \/ (e.min = 0 /\ e.max = 1)
      BY <3>1
    <3>3. ~ Once(e)
      BY <3>2 DEF Once
    <3>4. Operand(c) = generate_code(e.expr, L(l), l)
      BY <2>2, <3>3 DEF Operand
    <3>5. Sound(b, L(n + 1), n + 1)
      BY <1>2, <2>1, <3>4
    <3>6. Written(c, b) = EmitQuantity(e, onfail, n, b)
      BY <2>2 DEF Written
    <3>7. CASE e.min \in {0, 1} /\ e.max = -1
      <4>1. Repeats(e)
        BY <3>7 DEF Repeats
      <4>2. Written(c, b) = EmitRepetition(e, onfail, n, b)
        BY <3>6, <4>1 DEF EmitQuantity
      <4> QED BY <1>1, <3>5, <3>7, <4>2, EmitRepetitionSound
    <3>8. CASE e.min = 0 /\ e.max = 1
      <4>1. ~ Repeats(e)
        BY <3>8 DEF Repeats
      <4>2. Written(c, b) = EmitOption(e, onfail, n, b)
        BY <3>3, <3>6, <4>1 DEF EmitQuantity
      <4> QED BY <1>1, <3>5, <4>2, EmitOptionSound
    <3> QED BY <3>2, <3>7, <3>8
  <2>3. CASE e.type = "predicate"
    <3>1. Operand(c) = generate_code(e.expr, L(l), IF e.neg THEN l ELSE l + 1)
      BY <2>3 DEF Operand
    <3>2. Written(c, b) = IF e.neg THEN EmitNot(e, onfail, n, b) ELSE EmitAnd(e, onfail, n, b)
      BY <2>3 DEF Written
    <3>3. CASE e.neg
      <4>1. Sound(b, L(n + 1), n + 1) /\ Written(c, b) = EmitNot(e, onfail, n, b)
        BY <1>2, <2>1, <3>1, <3>2, <3>3
      <4> QED BY <1>1, <4>1, EmitNotSound
    <3>4. CASE ~ e.neg
      <4>1. Sound(b, L(n + 1), n + 2) /\ Written(c, b) = EmitAnd(e, onfail, n, b)
        BY <1>2, <2>1, <3>1, <3>2, <3>4
      <4> QED BY <1>1, <4>1, EmitAndSound
    <3> QED BY <3>3, <3>4
  <2>4. CASE e.type = "capture"
    <3>1. Operand(c) = generate_code(e.expr, onfail, n)
      BY <2>4 DEF Operand
    <3>2. Sound(b, onfail, n)
      BY <1>2, <3>1
    <3>3. Written(c, b) = EmitCapture(e, onfail, n, b)
      BY <2>4 DEF Written
    <3> QED BY <1>1, <3>2, <3>3, EmitCaptureSound
  <2>5. CASE e.type = "error"
    <3>1. Operand(c) = generate_code(e.expr, L(l), l + 1)
      BY <2>5 DEF Operand
    <3>2. Sound(b, L(n + 1), n + 2)
      BY <1>2, <2>1, <3>1
    <3>3. Written(c, b) = EmitError(e, onfail, n, b)
      BY <2>5 DEF Written
    <3> QED BY <1>1, <3>2, <3>3, EmitErrorSound
  <2> QED BY <1>4, <2>2, <2>3, <2>4, <2>5 DEF OperandTypes
<1> QED BY <1>3, <1>4 DEF GoesOn, OperandTypes

LEMMA WrittenTried ==
  ASSUME NEW c, Fits(c), GoesOn(c), NEW b,
         Sound(b, Operand(c).onfail, Operand(c).n), c.node.type = "alternate"
  PROVE  LET d == Continued(c, b)
         IN (GoesOn(d) => Trying(d.out, c.n)) /\ (~ GoesOn(d) => Sound(d.out, c.onfail, c.n))
<1> DEFINE e == c.node
           n == c.n
           a == c.out
           l == a.label + 1
           last == c.k + 1 = Len(e.nodes)
           o == EmitAlternative(a, b, last, c.onfail, n + 1)
           d == Continued(c, b)
<1>1. /\ e \in Expressions /\ n \in Nat /\ c.k \in Nat /\ c.onfail \in Onfails(n) /\ Trying(a, n)
      /\ last \in BOOLEAN
  BY DEF Fits, Calls
<1>2. c.k < Len(e.nodes) /\ Len(e.nodes) \in Nat
  BY <1>1, ExpressionsAssumption DEF GoesOn
<1>3. Operand(c) = generate_code(e.nodes[c.k + 1], L(l), l)
  BY DEF Operand
<1>4. Sound(b, L(l), l)
  BY <1>3 DEF generate_code
<1>5. Written(c, b) = o
  BY DEF Written
<1>6. d.node = e /\ d.k = c.k + 1 /\ d.out = o
  BY <1>5 DEF Continued
<1>7. /\ last \/ b.reach = ALWAYS_SUCCEED => Sound(o, c.onfail, n)
      /\ ~ last /\ b.reach # ALWAYS_SUCCEED => Trying(o, n)
  BY <1>1, <1>4, AlternativeCode
<1> HIDE DEF o, d
<1>8. GoesOn(d) <=> c.k + 1 < Len(e.nodes) /\ o.reach # ALWAYS_SUCCEED
  BY <1>6 DEF GoesOn
<1>9. GoesOn(d) => ~ last /\ b.reach # ALWAYS_SUCCEED
  <2>1. b.reach = ALWAYS_SUCCEED => o.reach = ALWAYS_SUCCEED
    BY ReachesDiffer, OutFields DEF EmitAlternative, o
  <2> QED BY <1>1, <1>2, <1>8, <2>1
<1>10. ~ GoesOn(d) => last \/ b.reach = ALWAYS_SUCCEED
  <2>1. ASSUME ~ last, b.reach # ALWAYS_SUCCEED PROVE GoesOn(d)
    <3>1. Trying(o, n)
      BY <1>7, <2>1
    <3>2. o.reach # ALWAYS_SUCCEED
      BY <3>1, ReachesDiffer DEF Trying
    <3> QED BY <1>1, <1>2, <1>8, <2>1, <3>2
  <2> QED BY <2>1
<1> QED BY <1>6, <1>7, <1>9, <1>10 DEF d

LEMMA ContinuedFits ==
  ASSUME NEW c, Fits(c), GoesOn(c), NEW b,
         b \in Outs, Sound(b, Operand(c).onfail, Operand(c).n)
  PROVE  Fits(Continued(c, b))
<1> DEFINE d == Continued(c, b)
           o == Written(c, b)
<1>1. /\ c.node \in Expressions /\ c.onfail \in Labels /\ c.n \in Nat /\ c.k \in Nat
      /\ c.onfail \in Onfails(c.n)
  BY DEF Fits, Calls
<1>2. d.node = c.node /\ d.onfail = c.onfail /\ d.n = c.n /\ d.k = c.k + 1 /\ d.out = o
  BY DEF Continued
<1>3. o = Out(o.code, o.reach, o.label)
  <2>1. b = Out(b.code, b.reach, b.label)
    BY DEF Outs, Out
  <2>2. \E code, reach, m : o = Out(code, reach, m)
    BY <2>1 DEF Written, GoesOn, EmitElement, EmitAlternative, EmitQuantity, EmitRepetition,
                EmitOption, EmitNot, EmitAnd, EmitCapture, EmitError
  <2> HIDE DEF o
  <2>3. PICK code, reach, m : o = Out(code, reach, m)
    BY <2>2
  <2>4. o.code = code /\ o.reach = reach /\ o.label = m
    BY <2>3, OutFields
  <2> QED BY <2>3, <2>4
<1>4. /\ c.node.type = "alternate" /\ GoesOn(d) => Trying(o, c.n)
      /\ c.node.type # "alternate" \/ ~ GoesOn(d) => Sound(o, c.onfail, c.n)
  <2>1. CASE c.node.type = "alternate"
    BY <1>2, <2>1, WrittenTried
  <2>2. CASE c.node.type # "alternate"
    BY <2>2, WrittenSound
  <2> QED BY <2>1, <2>2
<1>5. o \in Outs
  <2> HIDE DEF o
  <2> QED BY <1>3, <1>4, SoundOuts
<1>6. d \in Calls
  BY <1>1, <1>5 DEF Continued, Calls
<1>7. c.node.type \in {"sequence", "alternate"} => d.k <= Len(c.node.nodes)
  <2>1. c.node.type \in {"sequence", "alternate"} => c.node.nodes \in Seq(Expressions) /\ c.k < Len(c.node.nodes)
    BY <1>1, ExpressionsAssumption DEF GoesOn
  <2> QED BY <1>1, <1>2, <2>1
<1>8. d.k # 0
  BY <1>1, <1>2
<1> HIDE DEF d, o
<1>9. Fits(d)
  BY <1>1, <1>2, <1>4, <1>6, <1>7, <1>8 DEF Fits
<1> QED BY <1>9 DEF d

(* The inductive invariant: a call but the last waits for what it has       *)
(* called, the first is that for the rule, and when all have returned the   *)
(* rule has what that has written.                                          *)
Generating ==
  /\ calls \in Seq(Calls)
  /\ \A i \in 1 .. Len(calls) : Fits(calls[i])
  /\ \A i \in 1 .. Len(calls) - 1 :
       /\ GoesOn(calls[i])
       /\ calls[i + 1].onfail = Operand(calls[i]).onfail /\ calls[i + 1].n = Operand(calls[i]).n
  /\ calls # <<>> => calls[1].onfail = L(0) /\ calls[1].n = 0
  /\ calls = <<>> => Sound(rule, L(0), 0)

LEMMA InitGenerating == Init => Generating
<1> SUFFICES ASSUME Init PROVE Generating
  OBVIOUS
<1>1. PICK e \in Expressions : calls = <<generate_code(e, L(0), 0)>>
  BY DEF Init
<1> DEFINE c == generate_code(e, L(0), 0)
<1>2. Fits(c)
  <2>1. L(0) \in Onfails(0)
    BY DEF Onfails
  <2> QED BY <2>1, GenerateFits
<1>3. c \in Calls /\ c.onfail = L(0) /\ c.n = 0
  BY <1>2 DEF Fits, generate_code
<1> HIDE DEF c
<1>4. calls \in Seq(Calls) /\ Len(calls) = 1 /\ calls[1] = c /\ calls # <<>>
  BY <1>1, <1>3 DEF c
<1> QED BY <1>2, <1>3, <1>4 DEF Generating

LEMMA DescendGenerating == Generating /\ Descend => Generating'
<1> SUFFICES ASSUME Generating, Descend PROVE Generating'
  OBVIOUS
<1> DEFINE n == Len(calls)
           c == calls[n]
           d == Operand(c)
<1>1. calls \in Seq(Calls) /\ n \in Nat /\ n > 0 /\ GoesOn(c) /\ Fits(c)
  BY DEF Generating, Descend, Innermost
<1>2. Fits(d) /\ d \in Calls
  <2>1. PICK e \in Expressions, k \in Nat : \E onfail \in Onfails(k) : d = generate_code(e, onfail, k)
    BY <1>1, OperandCall
  <2>2. Fits(d)
    BY <2>1, GenerateFits
  <2> QED BY <2>2 DEF Fits
<1>3. calls' = Append(calls, d)
  BY DEF Descend, Innermost
<1> HIDE DEF d
<1>4. /\ calls' \in Seq(Calls) /\ Len(calls') = n + 1 /\ calls'[n + 1] = d
      /\ \A i \in 1 .. n : calls'[i] = calls[i]
  BY <1>1, <1>2, <1>3
<1>5. calls' # <<>>
  BY <1>1, <1>4
<1>6. \A i \in 1 .. n + 1 : Fits(calls'[i])
  BY <1>1, <1>2, <1>4 DEF Generating
<1>7. \A i \in 1 .. n :
        /\ GoesOn(calls'[i])
        /\ calls'[i + 1].onfail = Operand(calls'[i]).onfail /\ calls'[i + 1].n = Operand(calls'[i]).n
  <2> TAKE i \in 1 .. n
  <2>1. CASE i = n
    BY <1>1, <1>4, <2>1 DEF d
  <2>2. CASE i < n
    BY <1>1, <1>4, <2>2 DEF Generating
  <2> QED BY <1>1, <2>1, <2>2
<1>8. calls'[1].onfail = L(0) /\ calls'[1].n = 0
  BY <1>1, <1>4 DEF Generating
<1> HIDE DEF n
<1>9. n + 1 - 1 = n
  BY <1>1
<1> QED BY <1>1, <1>4, <1>5, <1>6, <1>7, <1>8, <1>9 DEF Generating

LEMMA ReturnGenerating == Generating /\ Return => Generating'
<1> SUFFICES ASSUME Generating, Return PROVE Generating'
  OBVIOUS
<1> DEFINE n == Len(calls)
           m == n - 1
           c == calls[m]
           b == calls[n]
           d == Continued(c, b.out)
<1>1. /\ calls \in Seq(Calls) /\ n \in Nat /\ n > 1 /\ m \in Nat /\ m >= 1 /\ m + 1 = n
      /\ ~ GoesOn(b) /\ Fits(b) /\ Fits(c) /\ GoesOn(c)
      /\ b.onfail = Operand(c).onfail /\ b.n = Operand(c).n
  BY DEF Generating, Return, Innermost
<1>2. Sound(b.out, Operand(c).onfail, Operand(c).n) /\ b.out \in Outs
  BY <1>1 DEF Fits, Calls
<1>3. Fits(d) /\ d \in Calls /\ d.onfail = c.onfail /\ d.n = c.n
  <2>1. Fits(d)
    BY <1>1, <1>2, ContinuedFits
  <2> QED BY <2>1 DEF Fits, Continued
<1>4. calls' = Append(SubSeq(calls, 1, m - 1), d)
  BY DEF Return, Innermost
<1> HIDE DEF d, m, n
<1>5. /\ calls' \in Seq(Calls) /\ Len(calls') = m /\ calls'[m] = d
      /\ \A i \in 1 .. m - 1 : calls'[i] = calls[i]
  <2> DEFINE s == SubSeq(calls, 1, m - 1)
  <2>1. s \in Seq(Calls) /\ Len(s) = m - 1 /\ \A i \in 1 .. m - 1 : s[i] = calls[i]
    BY <1>1 DEF n, m
  <2> HIDE DEF s
  <2>2. calls' = Append(s, d)
    BY <1>4 DEF s
  <2>3. /\ calls' \in Seq(Calls) /\ Len(calls') = Len(s) + 1 /\ calls'[Len(s) + 1] = d
        /\ \A i \in 1 .. Len(s) : calls'[i] = s[i]
    BY <1>3, <2>1, <2>2
  <2>4. Len(s) + 1 = m
    BY <1>1, <2>1
  <2> QED BY <2>1, <2>3, <2>4
<1>6. calls' # <<>>
  BY <1>1, <1>5
<1>7. \A i \in 1 .. m : Fits(calls'[i])
  BY <1>1, <1>3, <1>5 DEF Generating, n
<1>8. \A i \in 1 .. m - 1 :
        /\ GoesOn(calls'[i])
        /\ calls'[i + 1].onfail = Operand(calls'[i]).onfail /\ calls'[i + 1].n = Operand(calls'[i]).n
  <2> TAKE i \in 1 .. m - 1
  <2>1. /\ i \in 1 .. Len(calls) - 1 /\ calls'[i] = calls[i] /\ i + 1 \in 1 .. m
        /\ GoesOn(calls[i])
        /\ calls[i + 1].onfail = Operand(calls[i]).onfail /\ calls[i + 1].n = Operand(calls[i]).n
    BY <1>1, <1>5 DEF Generating, n
  <2>2. CASE i = m - 1
    <3>1. i + 1 = m
      BY <1>1, <2>2
    <3> QED BY <1>3, <1>5, <2>1, <3>1
  <2>3. CASE i < m - 1
    BY <1>1, <1>5, <2>1, <2>3
  <2> QED BY <1>1, <2>2, <2>3
<1>9. calls'[1].onfail = L(0) /\ calls'[1].n = 0
  <2>1. calls[1].onfail = L(0) /\ calls[1].n = 0
    BY <1>1 DEF Generating, n
  <2>2. CASE m = 1
    BY <1>1, <1>3, <1>5, <2>1, <2>2
  <2>3. CASE m > 1
    BY <1>1, <1>5, <2>1, <2>3
  <2> QED BY <1>1, <2>2, <2>3
<1> QED BY <1>5, <1>6, <1>7, <1>8, <1>9 DEF Generating

LEMMA FinishGenerating == Generating /\ Finish => Generating'
<1> SUFFICES ASSUME Generating, Finish PROVE Generating'
  OBVIOUS
<1>1. /\ calls \in Seq(Calls) /\ Len(calls) = 1 /\ ~ GoesOn(calls[1]) /\ Fits(calls[1])
      /\ calls[1].onfail = L(0) /\ calls[1].n = 0 /\ rule' = calls[1].out /\ calls' = <<>>
  BY DEF Generating, Finish, Innermost
<1>2. Sound(rule', L(0), 0)
  BY <1>1 DEF Fits
<1> QED BY <1>1, <1>2 DEF Generating

(* What has been written while the generator works on a rule, and when it   *)
(* is done, is sound code.                                                  *)
THEOREM GeneratingInvariant == Spec => []Generating
<1>1. Generating /\ [Next]_gvars => Generating'
  <2> SUFFICES ASSUME Generating, [Next]_gvars PROVE Generating'
    OBVIOUS
  <2>1. CASE UNCHANGED gvars
    BY <2>1 DEF Generating, gvars
  <2> QED BY <2>1, DescendGenerating, ReturnGenerating, FinishGenerating DEF Next
<1> QED BY <1>1, InitGenerating, PTL DEF Spec

-----------------------------------------------------------------------------
(* The code of a rule.                                                     *)

LEMMA RuleCode ==
  ASSUME NEW o, Sound(o, L(0), 0)
  PROVE  \E D, T, H, K :
           /\ Piece(EvaluateRule(o), D, T, H, {}, K)
           /\ H \subseteq T => T \subseteq D
<1> DEFINE D  == Defined(o.code)
           T  == Targets(o.code)
           H  == Handlers(o.code)
           K  == Own(0, o.label)
           q  == o.reach # ALWAYS_SUCCEED
           D3 == Where(q, {L(0)})
           c2 == <<ReturnChunk>>
           c3 == If(q, <<Label(L(0)), ReturnNull>>)
<1>1. /\ Piece(o.code, D, T, H, {}, K) /\ o.label \in Nat
      /\ D \subseteq K /\ Resolved(D, T, H, o.reach, L(0))
  BY DEF Sound
<1>2. L(0) \in Labels /\ L(0) \notin K
  BY <1>1, OwnLabels, LabelsDiffer
<1>3. /\ Traits(ReturnChunk, {}, {}, {}, {}) /\ Traits(ReturnNull, {}, {}, {}, {})
      /\ Traits(Label(L(0)), {L(0)}, {}, {}, {})
  <2>1. ReturnChunk \in Instructions /\ ReturnNull \in Instructions
    BY DEF Instructions, Ending
  <2>2. Traits(ReturnChunk, {}, {}, {}, {}) /\ Traits(ReturnNull, {}, {}, {}, {})
    BY <2>1 DEF Traits, ReturnChunk, ReturnNull, Jumps, Uses, Sets
  <2> QED BY <1>2, <2>2, InstructionTraits
<1>4. Piece(c2, {}, {}, {}, {}, {})
  BY <1>3, SinglePiece
<1>5. Piece(c3, D3, {}, {}, {}, {})
  <2>1. Piece(<<Label(L(0)), ReturnNull>>, {L(0)} \cup {}, {} \cup {}, {}, {} \cup {}, {})
    BY <1>3, TwoPiece, Nothing
  <2>2. Piece(<<Label(L(0)), ReturnNull>>, {L(0)}, {}, {}, {}, {})
    BY <2>1, Nothing
  <2>3. Piece(c3, D3, Where(q, {}), {}, {}, {})
    BY <2>2, IfPiece
  <2> QED BY <2>3, Nothing
<1>6. D \cap D3 = {} /\ Resolved(D, T, H, o.reach, L(0)) /\ (q => D3 = {L(0)})
  BY <1>1, <1>2 DEF Where
<1> HIDE DEF D, T, H, K, c2, c3, D3
<1>7. Piece(o.code \o c2, D, T, H, {}, K)
  <2>1. Piece(o.code \o c2, D \cup {}, T \cup {}, H, {} \cup {}, K)
    BY <1>1, <1>4, JoinOpen, Nothing
  <2> QED BY <2>1, Nothing
<1>8. Piece((o.code \o c2) \o c3, D \cup D3, T, H, {}, K)
  <2>1. Piece((o.code \o c2) \o c3, D \cup D3, T \cup {}, H, {} \cup {}, K)
    BY <1>5, <1>6, <1>7, JoinOpen, Nothing
  <2> QED BY <2>1, Nothing
<1>9. H \subseteq T => T \subseteq D \cup D3
  BY <1>6 DEF Resolved
<1>10. EvaluateRule(o) = (o.code \o c2) \o c3
  BY DEF EvaluateRule, c2, c3
<1> QED BY <1>8, <1>9, <1>10

LEMMA PieceResolves ==
  ASSUME NEW code, NEW D, NEW T, NEW H, NEW K, Piece(code, D, T, H, {}, K),
         H \subseteq T => T \subseteq D, ErrorsReached(code)
  PROVE  Resolves(code)
<1>1. code \in Seq(Instructions) /\ \A i \in DOMAIN code : code[i] \in Instructions /\ Shaped(code[i])
  BY InstructionShape DEF Piece
<1>2. H \subseteq T
  BY DEF ErrorsReached, Piece, Handlers, Targets
<1>3. ASSUME NEW i \in DOMAIN code, NEW l \in Jumps(code[i])
      PROVE  \E j \in DOMAIN code : code[j] = Label(l)
  <2>1. l \in D
    BY <1>2 DEF Piece, Targets
  <2>2. PICK j \in DOMAIN code : code[j].op = "label" /\ code[j].l = l
    BY <2>1 DEF Piece, Defined
  <2> QED BY <1>1, <2>2 DEF Shaped
<1>4. DefinedOnce(code)
  BY DEF Piece
<1> QED BY <1>3, <1>4 DEF Resolves, DefinedOnce

(* The last instruction of a rule returns.                                 *)
LEMMA RuleReturns ==
  ASSUME NEW o, o.code \in Seq(Instructions)
  PROVE  /\ EvaluateRule(o) \in Seq(Instructions) /\ Len(EvaluateRule(o)) > 0
         /\ EvaluateRule(o)[Len(EvaluateRule(o))].op \in {"chunk", "null"}
<1> DEFINE c2 == <<ReturnChunk>>
           c3 == If(o.reach # ALWAYS_SUCCEED, <<Label(L(0)), ReturnNull>>)
           a  == o.code \o c2
           c  == a \o c3
<1>1. ReturnChunk \in Instructions /\ ReturnNull \in Instructions /\ Label(L(0)) \in Instructions
  BY LabelsDiffer DEF Instructions, Ending, Jumping
<1>2. c2 \in Seq(Instructions) /\ Len(c2) = 1 /\ c2[1].op = "chunk"
  BY <1>1 DEF ReturnChunk
<1>3. c3 \in Seq(Instructions) /\ (c3 = <<>> \/ (Len(c3) = 2 /\ c3[2].op = "null"))
  <2> DEFINE d == <<Label(L(0)), ReturnNull>>
  <2>1. d \in Seq(Instructions) /\ Len(d) = 2 /\ d[2] = ReturnNull
    BY <1>1
  <2>2. c3 = d \/ c3 = <<>>
    BY DEF If
  <2>3. ReturnNull.op = "null" /\ <<>> \in Seq(Instructions)
    BY DEF ReturnNull
  <2> HIDE DEF d, c3
  <2> QED BY <2>1, <2>2, <2>3
<1>4. EvaluateRule(o) = c
  BY DEF EvaluateRule
<1> HIDE DEF c2, c3
<1>5. Follows(a, o.code, c2) /\ a \in Seq(Instructions)
  BY <1>2, JoinPlaces
<1>6. Len(a) \in Nat /\ Len(a) > 0 /\ a[Len(a)].op = "chunk"
  BY <1>2, <1>5 DEF Follows
<1> HIDE DEF a
<1>7. Follows(c, a, c3)
  BY <1>3, <1>5, JoinPlaces
<1>8. CASE c3 = <<>>
  <2>1. Len(c3) = 0
    BY <1>8
  <2>2. Len(c) = Len(a) /\ c[Len(a)] = a[Len(a)] /\ c \in Seq(Instructions)
    BY <1>6, <1>7, <2>1 DEF Follows
  <2> HIDE DEF c
  <2> QED BY <1>4, <1>6, <2>2
<1>9. CASE Len(c3) = 2 /\ c3[2].op = "null"
  <2>1. Len(c) = Len(a) + 2 /\ c[Len(a) + 2] = c3[2] /\ c \in Seq(Instructions)
    BY <1>6, <1>7, <1>9 DEF Follows
  <2> HIDE DEF c
  <2> QED BY <1>4, <1>6, <1>9, <2>1
<1> QED BY <1>3, <1>8, <1>9

(* Where a goto leads.                                                     *)
LEMMA BehindLabel ==
  ASSUME NEW code, NEW l, \E k \in DOMAIN code : code[k] = Label(l)
  PROVE  \E k \in DOMAIN code : Behind(code, l) = 1 + k /\ code[k] = Label(l)
  BY DEF Behind

(* A block that begins with a save is a scope.                             *)
LEMMA BlockScope ==
  ASSUME NEW code \in Seq(Instructions), Resolves(code),
         NEW i \in DOMAIN code, NEW v, NEW K, NEW s \in DOMAIN code, NEW t \in DOMAIN code,
         InBlock(code, i, v, s, t, K), code[s].op = "save"
  PROVE  i \in s + 1 .. t /\ InScope(code, s, t)
<1>1. DOMAIN code = 1 .. Len(code) /\ Len(code) \in Nat /\ s < i /\ i <= t
  BY DEF InBlock
<1>2. ASSUME NEW x \in DOMAIN code, NEW y \in Onward(code, x), y \in s + 1 .. t
      PROVE  x \in s .. t
  <2>1. y = x + 1 \/ \E l \in Jumps(code[x]) : y = Behind(code, l)
    BY <1>2 DEF Onward
  <2>2. CASE y = x + 1
    BY <1>1, <1>2, <2>2
  <2>3. CASE \E l \in Jumps(code[x]) : y = Behind(code, l)
    <3>1. PICK l \in Jumps(code[x]) : y = Behind(code, l)
      BY <2>3
    <3>2. \E k \in DOMAIN code : code[k] = Label(l)
      BY <3>1 DEF Resolves
    <3>3. PICK k \in DOMAIN code : y = 1 + k /\ code[k] = Label(l)
      BY <3>1, <3>2, BehindLabel
    <3>4. code[k].op = "label" /\ code[k].l = l /\ k # s
      BY <3>3 DEF Label
    <3>5. k \in s + 1 .. t
      BY <1>1, <1>2, <3>3, <3>4
    <3>6. \A z \in DOMAIN code \ (s .. t) : l \notin Jumps(code[z])
      BY <3>4, <3>5 DEF InBlock
    <3> QED BY <3>1, <3>6
  <2> QED BY <2>1, <2>2, <2>3
<1>3. i \in s + 1 .. t
  BY <1>1
<1> QED BY <1>2, <1>3 DEF InScope

LEMMA RuleCompiles ==
  ASSUME NEW o, Sound(o, L(0), 0), ErrorsReached(EvaluateRule(o))
  PROVE  Resolves(EvaluateRule(o)) /\ Compiles(EvaluateRule(o), RulesNamed)
<1> DEFINE code == EvaluateRule(o)
<1>1. PICK D, T, H, K : Piece(code, D, T, H, {}, K) /\ (H \subseteq T => T \subseteq D)
  BY RuleCode
<1>2. Resolves(code)
  BY <1>1, PieceResolves
<1>3. code \in Seq(Instructions) /\ Len(code) > 0 /\ code[Len(code)].op \in {"chunk", "null"}
  BY RuleReturns DEF Sound, Piece
<1> HIDE DEF code
<1>4. /\ Len(code) \in Nat \ {0} /\ DOMAIN code = 1 .. Len(code)
      /\ \A i \in DOMAIN code : Shaped(code[i])
  BY <1>3, InstructionShape
<1>5. ASSUME NEW i \in DOMAIN code, NEW l \in Jumps(code[i])
      PROVE  \E j \in DOMAIN code : code[j] = Label(l)
  BY <1>2 DEF Resolves
<1>6. ASSUME NEW i \in DOMAIN code PROVE Onward(code, i) \subseteq DOMAIN code
  <2>1. code[i].op \notin {"goto", "count", "chunk", "null"} => i + 1 \in DOMAIN code
    BY <1>3, <1>4
  <2>2. ASSUME NEW l \in Jumps(code[i]) PROVE Behind(code, l) \in DOMAIN code
    <3>1. PICK k \in DOMAIN code : Behind(code, l) = 1 + k /\ code[k] = Label(l)
      BY <1>5, BehindLabel
    <3>2. k # Len(code)
      BY <1>3, <3>1 DEF Label
    <3> QED BY <1>4, <3>1, <3>2
  <2> QED BY <2>1, <2>2 DEF Onward
<1>7. ASSUME NEW i \in DOMAIN code, code[i].op \in {"restore", "still", "capture"}
      PROVE  \E j \in DOMAIN code : code[j] = Save(code[i].v)
               /\ \E e \in DOMAIN code : i \in j + 1 .. e /\ InScope(code, j, e)
  <2> DEFINE v == code[i].v
  <2>1. v \in Uses(code[i]) /\ v \in Slots
    BY <1>4, <1>7 DEF Uses, Shaped
  <2>2. PICK s \in DOMAIN code, t \in DOMAIN code : InBlock(code, i, v, s, t, K)
    BY <1>1, <2>1 DEF Piece, Blocked
  <2>3. v \in Sets(code[s])
    BY <2>2 DEF InBlock
  <2>4. code[s].op = "save" /\ code[s].v = v
    BY <2>1, <2>3, CounterDiffers DEF Sets
  <2>5. code[s] = Save(v)
    BY <1>4, <2>4 DEF Shaped
  <2>6. i \in s + 1 .. t /\ InScope(code, s, t)
    BY <1>2, <1>3, <2>2, <2>4, BlockScope
  <2> QED BY <2>5, <2>6
<1>8. \A i \in DOMAIN code : code[i].op = "apply" => code[i].rule \in RulesNamed
  BY <1>4 DEF Shaped
<1>9. Compiles(code, RulesNamed)
  BY <1>4, <1>5, <1>6, <1>7, <1>8 DEF Compiles
<1> QED BY <1>2, <1>9 DEF code

(* The function of every rule in which each error action is jumped to      *)
(* compiles, however its expression nests (generate_code, and generate for *)
(* the exits): a label is defined once, and defined if a goto names it,    *)
(* control does not run off the end, and no goto enters a block behind the *)
(* declarations of a position or thunk count that is used there.           *)
THEOREM GeneratorFunctionCompiles == Spec => []FunctionCompiles
<1>1. Generating => FunctionCompiles
  <2> SUFFICES ASSUME Generating, Done, ErrorsReached(Code)
               PROVE  Resolves(Code) /\ Compiles(Code, RulesNamed)
    BY DEF FunctionCompiles
  <2>1. Sound(rule, L(0), 0)
    BY DEF Generating, Done
  <2> QED BY <2>1, RuleCompiles DEF Code
<1> QED BY <1>1, GeneratingInvariant, PTL

-----------------------------------------------------------------------------
(* The places that control reaches.                                        *)

LEMMA StepsPoints ==
  ASSUME NEW code \in Seq(Instructions), NEW x \in Points, x.at \in DOMAIN code
  PROVE  Steps(code, x) \subseteq Points
<1> DEFINE ins == code[x.at]
           next == IF ins.op \in Leap \/ (ins.op = "under" /\ ins.v \in x.counted)
                   THEN {} ELSE {x.at + 1}
           jump == IF ins.op = "under" /\ ins.v \notin x.counted THEN {}
                   ELSE UNION {Labelled(code, l) : l \in Jumps(ins)}
           counted == CASE ins.op = "zero"  -> x.counted \ {ins.v}
                        [] ins.op = "count" -> x.counted \cup {ins.v}
                        [] OTHER            -> x.counted
           Slot == {"saved"} \X Nat
<1>1. Steps(code, x) = {[at |-> i, counted |-> counted] : i \in next \cup jump}
  BY DEF Steps
<1>2. x.at \in Nat /\ x.counted \subseteq Slot /\ Shaped(ins)
  BY InstructionShape DEF Points
<1>3. next \subseteq Nat
  BY <1>2
<1>4. jump \subseteq Nat
  <2>1. \A l : Labelled(code, l) \subseteq Nat
    BY DEF Labelled
  <2> QED BY <2>1
<1>5. counted \subseteq Slot
  <2>1. CASE ins.op = "count"
    <3>1. PICK j \in Nat : ins = Count(Saved(j), Loop(j))
      BY <1>2, <2>1 DEF Shaped
    <3>2. ins.v = Saved(j)
      BY <3>1 DEF Count
    <3>3. ins.v \in Slot
      BY <3>2 DEF Saved
    <3> QED BY <1>2, <2>1, <3>3
  <2>2. CASE ins.op # "count"
    BY <1>2, <2>2
  <2> QED BY <2>1, <2>2
<1> HIDE DEF next, jump, counted
<1> QED BY <1>1, <1>3, <1>4, <1>5 DEF Points

LEMMA FurtherPoints ==
  ASSUME NEW code \in Seq(Instructions), NEW cut, NEW S, S \subseteq Points
  PROVE  Further(code, cut, S) \subseteq Points
<1>1. ASSUME NEW x \in S, x.at \in DOMAIN code \ cut PROVE Steps(code, x) \subseteq Points
  BY <1>1, StepsPoints
<1> QED BY <1>1 DEF Further

(* Control stays in every set of points that has the start and, but for the *)
(* points at a place cut, has all to which one step leads.                  *)
Closed(code, cut, I) ==
  /\ I \subseteq Points /\ Start \in I
  /\ \A x \in I : x.at \in DOMAIN code \ cut => Steps(code, x) \subseteq I

LEMMA ReachedIn ==
  ASSUME NEW code \in Seq(Instructions), NEW cut, NEW I, Closed(code, cut, I)
  PROVE  \A i \in ReachedFromStart(code, cut) : \E x \in I : x.at = i
<1> DEFINE counts == {i \in DOMAIN code : code[i].op = "count"}
           N == (Len(code) + 1) * Cardinality(SUBSET counts)
           Y == SUBSET Points
           X == [Y -> Y]
           T(S) == Further(code, cut, S)
           a == [S \in Y |-> S]
           Round(g) == [S \in Y |-> IF T(S) = S THEN S ELSE g[T(S)]]
           F == [g \in X |-> [k \in Nat |-> Round(g)]]
           Rounds(f) == f = [k \in 0 .. N |->
                               [S \in Y |-> IF T(S) = S \/ k = 0 THEN S ELSE f[k - 1][T(S)]]]
           from == CHOOSE f : Rounds(f)
<1>1. ReachedFromStart(code, cut) = {x.at : x \in from[N][{Start}]}
  BY DEF ReachedFromStart
<1>2. N \in Nat
  <2>1. IsFiniteSet(1 .. Len(code))
    BY FS_Interval
  <2>2. IsFiniteSet(counts)
    <3>1. counts \in SUBSET (1 .. Len(code))
      OBVIOUS
    <3> HIDE DEF counts
    <3> QED BY <2>1, <3>1, FS_Subset
  <2> HIDE DEF counts
  <2>3. Cardinality(SUBSET counts) \in Nat
    BY <2>2, FS_SUBSET, FS_CardinalityType
  <2>4. \A p, r \in Nat : p * r \in Nat
    OBVIOUS
  <2>5. Len(code) + 1 \in Nat
    OBVIOUS
  <2> QED BY <2>3, <2>4, <2>5
<1>3. \A S \in Y : T(S) \in Y
  BY FurtherPoints
<1>4. \A S \in Y : S \subseteq I => T(S) \subseteq I
  BY DEF Closed, Further
<1> HIDE DEF N, T
<1>5. F \in [X -> [Nat -> X]]
  <2>1. ASSUME NEW g \in X PROVE Round(g) \in X
    BY <1>3
  <2> HIDE DEF Round, X
  <2> QED BY <2>1
<1>6. a \in X
  OBVIOUS
<1>7. \A g \in X, k \in Nat : F[g][k] = Round(g)
  <2> HIDE DEF Round, X
  <2> QED OBVIOUS
<1> HIDE DEF F, a
<1>8. PICK f \in [0 .. N -> X] : Iterates(f, N, a, F)
  <2> HIDE DEF X
  <2> QED BY <1>2, <1>5, <1>6, RecursionExists
<1>9. Rounds(f)
  <2>1. ASSUME NEW k \in 0 .. N
        PROVE  f[k] = [S \in Y |-> IF T(S) = S \/ k = 0 THEN S ELSE f[k - 1][T(S)]]
    <3>1. CASE k = 0
      <4>1. f[k] = a
        BY <1>8, <3>1 DEF Iterates
      <4> QED BY <3>1, <4>1 DEF a
    <3>2. CASE k # 0
      <4>1. k \in 1 .. N /\ k \in Nat /\ f[k - 1] \in X
        <5> HIDE DEF X
        <5> QED BY <1>2, <3>2
      <4>2. f[k] = F[f[k - 1]][k]
        BY <1>8, <4>1 DEF Iterates
      <4>3. f[k] = Round(f[k - 1])
        <5> HIDE DEF X, Round
        <5> QED BY <1>7, <4>1, <4>2
      <4> QED BY <3>2, <4>3
    <3> QED BY <3>1, <3>2
  <2>2. f = [k \in 0 .. N |-> f[k]]
    OBVIOUS
  <2> QED BY <2>1, <2>2
<1>10. Rounds(from)
  <2> HIDE DEF Rounds
  <2> QED BY <1>9
<1> HIDE DEF from
<1>11. \A k \in 0 .. N : \A S \in Y :
         from[k][S] = IF T(S) = S \/ k = 0 THEN S ELSE from[k - 1][T(S)]
  <2> HIDE DEF Y
  <2> TAKE k \in 0 .. N
  <2>1. from[k] = [S \in Y |-> IF T(S) = S \/ k = 0 THEN S ELSE from[k - 1][T(S)]]
    BY <1>10, Zenon
  <2> QED BY <2>1
<1> HIDE DEF Rounds
<1> DEFINE J == {k \in Nat : k <= N => \A S \in Y : S \subseteq I => from[k][S] \subseteq I}
<1>12. 0 \in J
  <2>1. \A S \in Y : from[0][S] = S
    BY <1>2, <1>11
  <2> QED BY <2>1
<1>13. ASSUME NEW k \in Nat, k \in J PROVE k + 1 \in J
  <2>1. ASSUME k + 1 <= N, NEW S \in Y, S \subseteq I PROVE from[k + 1][S] \subseteq I
    <3>1. k + 1 \in 0 .. N /\ k <= N /\ (k + 1) - 1 = k /\ k + 1 # 0
      BY <1>2, <2>1
    <3>2. from[k + 1][S] = IF T(S) = S THEN S ELSE from[k][T(S)]
      BY <1>11, <3>1
    <3>3. from[k][T(S)] \subseteq I
      BY <1>3, <1>4, <1>13, <2>1, <3>1
    <3> QED BY <2>1, <3>2, <3>3
  <2> QED BY <2>1
<1>14. N \in J
  <2> HIDE DEF J
  <2>1. Nat \subseteq J
    BY <1>12, <1>13, SetInduction
  <2> QED BY <1>2, <2>1
<1>15. {Start} \in Y /\ {Start} \subseteq I
  BY DEF Closed
<1>16. from[N][{Start}] \subseteq I
  BY <1>2, <1>14, <1>15
<1> QED BY <1>1, <1>16

LEMMA PieceSets ==
  ASSUME NEW code, NEW D, NEW T, NEW H, NEW K, Piece(code, D, T, H, {}, K),
         NEW i \in DOMAIN code, NEW v \in Uses(code[i])
  PROVE  i \notin ReachedFromStart(code, {j \in DOMAIN code : v \in Sets(code[j])})
<1> DEFINE cut == {j \in DOMAIN code : v \in Sets(code[j])}
<1>1. PICK s, t \in DOMAIN code : InBlock(code, i, v, s, t, K)
  BY DEF Piece, Blocked
<1>2. code \in Seq(Instructions) /\ DOMAIN code = 1 .. Len(code) /\ Len(code) \in Nat
  BY DEF Piece
<1> DEFINE I == {x \in Points : x.at \notin s + 1 .. t}
<1>3. Start \in I
  BY <1>2 DEF Start, Points
<1>4. ASSUME NEW x \in I, x.at \in DOMAIN code \ cut PROVE Steps(code, x) \subseteq I
  <2>1. x.at \notin s .. t /\ x.at \in Nat
    BY <1>1, <1>2, <1>4 DEF InBlock
  <2>2. ASSUME NEW y \in Steps(code, x) PROVE y.at \notin s + 1 .. t
    <3>1. y.at = x.at + 1 \/ \E l \in Jumps(code[x.at]) : y.at \in Labelled(code, l)
      BY DEF Steps
    <3>2. CASE y.at = x.at + 1
      BY <1>2, <2>1, <3>2
    <3>3. CASE \E l \in Jumps(code[x.at]) : y.at \in Labelled(code, l)
      <4>1. PICK l \in Jumps(code[x.at]) : y.at \in Labelled(code, l)
        BY <3>3
      <4>2. code[y.at].op = "label" /\ code[y.at].l = l
        BY <4>1 DEF Labelled, Label
      <4>3. x.at \in DOMAIN code \ (s .. t)
        BY <1>4, <2>1
      <4> QED BY <1>1, <4>1, <4>2, <4>3 DEF InBlock
    <3> QED BY <3>1, <3>2, <3>3
  <2>3. Steps(code, x) \subseteq Points
    BY <1>2, <1>4, StepsPoints
  <2> QED BY <2>2, <2>3
<1>5. Closed(code, cut, I)
  BY <1>3, <1>4 DEF Closed
<1>6. \A x \in I : x.at # i
  BY <1>1, <1>2 DEF InBlock
<1> HIDE DEF I, cut
<1>7. i \notin ReachedFromStart(code, cut)
  BY <1>2, <1>5, <1>6, ReachedIn
<1> QED BY <1>7 DEF cut

(* No goto in the code of a rule enters a block behind its declarations     *)
(* (the braces that generate_code writes around the code of a node): the    *)
(* saved position, thunk count and loop counter that a place uses have been *)
(* set on every path that leads to it, however the expression nests.        *)
THEOREM GeneratorSetsBeforeUse == Spec => []SetBeforeUse
<1>1. Generating => SetBeforeUse
  <2> SUFFICES ASSUME Generating, Done, NEW i \in DOMAIN Code, NEW v \in Uses(Code[i])
               PROVE  i \notin ReachedFromStart(Code, {j \in DOMAIN Code : v \in Sets(Code[j])})
    BY DEF SetBeforeUse
  <2>1. Sound(rule, L(0), 0)
    BY DEF Generating, Done
  <2>2. PICK D, T, H, K : Piece(Code, D, T, H, {}, K)
    BY <2>1, RuleCode DEF Code
  <2> HIDE DEF Code
  <2> QED BY <2>2, PieceSets
<1> QED BY <1>1, GeneratingInvariant, PTL

-----------------------------------------------------------------------------
(* Code that always fails.  What may have been counted at a place is an     *)
(* assertion about it, and at a label of every place that jumps to it.      *)

Counteds == SUBSET ({"saved"} \X Nat)
Asserted == [Labels -> SUBSET Counteds]

(* What instruction x does where c has been counted: it may go on with the  *)
(* next, or jump, and what it counts.                                       *)
Falls(x, c) == ~ (x.op \in Leap \/ (x.op = "under" /\ x.v \in c))
Leads(x, c) == IF x.op = "under" /\ x.v \notin c THEN {} ELSE Jumps(x)
After(x, c) == CASE x.op = "zero"  -> c \ {x.v}
                 [] x.op = "count" -> c \cup {x.v}
                 [] OTHER          -> c

(* A is true in front of x and B behind it, with J at the labels.           *)
Keeps(x, A, B, J) ==
  /\ \A c \in A : /\ Falls(x, c) => After(x, c) \in B
                  /\ \A l \in Leads(x, c) : After(x, c) \in J[l]
  /\ x.op = "label" => J[x.l] \subseteq A

(* Code that is entered with P can be left at its end only with Q.          *)
Flow(code, P, Q, J) ==
  \E I \in [1 .. Len(code) + 1 -> SUBSET Counteds] :
    /\ P \subseteq I[1] /\ I[Len(code) + 1] \subseteq Q
    /\ \A i \in 1 .. Len(code) : Keeps(code[i], I[i], I[i + 1], J)

LEMMA FlowNothing ==
  ASSUME NEW P \in SUBSET Counteds, NEW J
  PROVE  Flow(<<>>, P, P, J)
<1>1. [i \in 1 .. 1 |-> P] \in [1 .. 1 -> SUBSET Counteds]
  OBVIOUS
<1>2. Len(<<>>) = 0 /\ 0 + 1 = 1 /\ [i \in 1 .. 1 |-> P][1] = P /\ \A i \in 1 .. 0 : FALSE
  OBVIOUS
<1> QED BY <1>1, <1>2 DEF Flow

LEMMA FlowOne ==
  ASSUME NEW x \in Instructions, NEW A \in SUBSET Counteds, NEW B \in SUBSET Counteds, NEW J,
         Keeps(x, A, B, J)
  PROVE  /\ Flow(<<x>>, A, B, J) /\ Flow(<<x>>, {}, B, J)
<1> DEFINE I == [i \in 1 .. 2 |-> IF i = 1 THEN A ELSE B]
<1>1. I \in [1 .. 2 -> SUBSET Counteds] /\ I[1] = A /\ I[2] = B
  OBVIOUS
<1>2. Len(<<x>>) = 1 /\ <<x>>[1] = x /\ 1 + 1 = 2
  OBVIOUS
<1> HIDE DEF I
<1>3. \A i \in 1 .. 1 : Keeps(<<x>>[i], I[i], I[i + 1], J)
  BY <1>1, <1>2
<1>4. {} \subseteq A /\ A \subseteq A /\ B \subseteq B
  OBVIOUS
<1> QED BY <1>1, <1>2, <1>3, <1>4 DEF Flow

LEMMA FlowJoin ==
  ASSUME NEW a \in Seq(Instructions), NEW b \in Seq(Instructions), NEW J,
         NEW P, NEW Q, NEW R, Flow(a, P, Q, J), Flow(b, Q, R, J)
  PROVE  Flow(a \o b, P, R, J)
<1> DEFINE n == Len(a)
           m == Len(b)
           c == a \o b
<1>1. PICK I1 \in [1 .. n + 1 -> SUBSET Counteds] :
        /\ P \subseteq I1[1] /\ I1[n + 1] \subseteq Q
        /\ \A i \in 1 .. n : Keeps(a[i], I1[i], I1[i + 1], J)
  BY DEF Flow
<1>2. PICK I2 \in [1 .. m + 1 -> SUBSET Counteds] :
        /\ Q \subseteq I2[1] /\ I2[m + 1] \subseteq R
        /\ \A i \in 1 .. m : Keeps(b[i], I2[i], I2[i + 1], J)
  BY DEF Flow
<1>3. n \in Nat /\ m \in Nat /\ Follows(c, a, b) /\ Len(c) = n + m
  BY JoinPlaces DEF Follows
<1> DEFINE I == [i \in 1 .. n + m + 1 |-> IF i <= n THEN I1[i] ELSE I2[i - n]]
<1> HIDE DEF n, m, c
<1>4. \A i \in 1 .. n + m + 1 : /\ i <= n => i \in 1 .. n + 1
                                /\ ~ (i <= n) => i - n \in 1 .. m + 1
  BY <1>3
<1>5. I \in [1 .. n + m + 1 -> SUBSET Counteds]
  BY <1>1, <1>2, <1>4
<1>6. \A i \in 1 .. n : I[i] = I1[i]
  BY <1>3
<1>7. \A i \in 1 .. m + 1 : I[n + i] = I2[i]
  BY <1>3
<1> HIDE DEF I
<1>8. P \subseteq I[1]
  <2>1. CASE n = 0
    <3>1. I[1] = I2[1]
      BY <1>3, <1>7, <2>1
    <3> QED BY <1>1, <1>2, <2>1, <3>1
  <2>2. CASE n # 0
    BY <1>1, <1>3, <1>6, <2>2
  <2> QED BY <2>1, <2>2
<1>9. I[n + m + 1] \subseteq R
  BY <1>2, <1>3, <1>7
<1>10. ASSUME NEW k \in 1 .. n + m PROVE Keeps(c[k], I[k], I[k + 1], J)
  <2>1. CASE k <= n
    <3>1. k \in 1 .. n /\ c[k] = a[k] /\ I[k] = I1[k] /\ Keeps(a[k], I1[k], I1[k + 1], J)
      <4>1. k \in 1 .. n
        BY <1>3, <2>1
      <4> QED BY <1>1, <1>3, <1>6, <4>1 DEF Follows, n
    <3>2. I1[k + 1] \subseteq I[k + 1]
      <4>1. CASE k = n
        <5>1. I[k + 1] = I2[1]
          BY <1>3, <1>7, <4>1
        <5> QED BY <1>1, <1>2, <4>1, <5>1
      <4>2. CASE k # n
        <5>1. k + 1 \in 1 .. n
          BY <1>3, <2>1, <4>2
        <5> QED BY <1>6, <5>1
      <4> QED BY <4>1, <4>2
    <3> QED BY <3>1, <3>2 DEF Keeps
  <2>2. CASE ~ (k <= n)
    <3>1. k - n \in 1 .. m /\ n + (k - n) = k /\ n + (k - n + 1) = k + 1 /\ k - n + 1 \in 1 .. m + 1
          /\ k - n \in 1 .. m + 1
      BY <1>3, <2>2
    <3>2. c[k] = b[k - n]
      BY <1>3, <3>1 DEF Follows, n, m
    <3>3. I[k] = I2[k - n] /\ I[k + 1] = I2[k - n + 1]
      BY <1>7, <3>1
    <3> QED BY <1>2, <3>1, <3>2, <3>3
  <2> QED BY <2>1, <2>2
<1>11. Flow(c, P, R, J)
  <2>1. Len(c) + 1 = n + m + 1
    BY <1>3
  <2>2. /\ I \in [1 .. Len(c) + 1 -> SUBSET Counteds]
        /\ P \subseteq I[1] /\ I[Len(c) + 1] \subseteq R
        /\ \A i \in 1 .. Len(c) : Keeps(c[i], I[i], I[i + 1], J)
    BY <1>3, <1>5, <1>8, <1>9, <1>10, <2>1
  <2> QED BY <2>2 DEF Flow
<1> QED BY <1>11 DEF c

LEMMA AfterCounted ==
  ASSUME NEW x \in Instructions, NEW c \in Counteds
  PROVE  After(x, c) \in Counteds
<1>1. CASE x.op = "count"
  <2>1. PICK j \in Nat : x = Count(Saved(j), Loop(j))
    BY <1>1, InstructionShape DEF Shaped
  <2>2. x.v \in {"saved"} \X Nat
    BY <2>1 DEF Count, Saved
  <2> QED BY <1>1, <2>2 DEF After, Counteds
<1>2. CASE x.op # "count"
  BY <1>2 DEF After, Counteds
<1> QED BY <1>1, <1>2

(* Nothing is said of the code, or of where it jumps to.                   *)
LEMMA FlowAny ==
  ASSUME NEW code \in Seq(Instructions), NEW J \in Asserted, \A l \in Targets(code) : J[l] = Counteds
  PROVE  Flow(code, Counteds, Counteds, J)
<1> DEFINE I == [i \in 1 .. Len(code) + 1 |-> Counteds]
<1>1. I \in [1 .. Len(code) + 1 -> SUBSET Counteds]
  OBVIOUS
<1>2. \A i \in 1 .. Len(code) + 1 : I[i] = Counteds
  OBVIOUS
<1>3. 1 \in 1 .. Len(code) + 1 /\ Len(code) + 1 \in 1 .. Len(code) + 1
      /\ \A i \in 1 .. Len(code) : i \in 1 .. Len(code) + 1 /\ i + 1 \in 1 .. Len(code) + 1
  OBVIOUS
<1> HIDE DEF I
<1>4. ASSUME NEW i \in 1 .. Len(code) PROVE Keeps(code[i], I[i], I[i + 1], J)
  <2>1. code[i] \in Instructions /\ i \in DOMAIN code
    OBVIOUS
  <2>2. \A c \in Counteds : After(code[i], c) \in Counteds
    BY <2>1, AfterCounted
  <2>3. \A c : Leads(code[i], c) \subseteq Jumps(code[i])
    BY DEF Leads
  <2>4. \A l \in Jumps(code[i]) : J[l] = Counteds
    BY <2>1 DEF Targets
  <2>5. code[i].op = "label" => J[code[i].l] \subseteq Counteds
    BY <2>1, InstructionShape DEF Shaped, Asserted
  <2>6. I[i] = Counteds /\ I[i + 1] = Counteds
    BY <1>2, <1>3
  <2> QED BY <2>2, <2>3, <2>4, <2>5, <2>6 DEF Keeps
<1> QED BY <1>1, <1>2, <1>3, <1>4 DEF Flow

(* Code that leaves N true can be entered with N, and jumps with N then.    *)
LEMMA FlowNarrow ==
  ASSUME NEW code \in Seq(Instructions), NEW J \in Asserted, NEW K \in Asserted,
         NEW N \in SUBSET Counteds, NEW Q, Flow(code, Counteds, Q, J),
         \A i \in DOMAIN code : \A c \in N : After(code[i], c) \in N,
         \A l \in Defined(code) : K[l] = J[l] \cap N,
         \A l \in Targets(code) \ Defined(code) : N \subseteq K[l]
  PROVE  Flow(code, N, Q, K)
<1>1. PICK I \in [1 .. Len(code) + 1 -> SUBSET Counteds] :
        /\ Counteds \subseteq I[1] /\ I[Len(code) + 1] \subseteq Q
        /\ \A i \in 1 .. Len(code) : Keeps(code[i], I[i], I[i + 1], J)
  BY DEF Flow
<1> DEFINE M == [i \in 1 .. Len(code) + 1 |-> I[i] \cap N]
<1>2. M \in [1 .. Len(code) + 1 -> SUBSET Counteds]
  OBVIOUS
<1>3. \A i \in 1 .. Len(code) + 1 : M[i] = I[i] \cap N
  OBVIOUS
<1>4. 1 \in 1 .. Len(code) + 1 /\ Len(code) + 1 \in 1 .. Len(code) + 1
      /\ \A i \in 1 .. Len(code) : i \in 1 .. Len(code) + 1 /\ i + 1 \in 1 .. Len(code) + 1
  OBVIOUS
<1> HIDE DEF M
<1>5. ASSUME NEW i \in 1 .. Len(code) PROVE Keeps(code[i], M[i], M[i + 1], K)
  <2>1. i \in DOMAIN code /\ M[i] = I[i] \cap N /\ M[i + 1] = I[i + 1] \cap N
        /\ Keeps(code[i], I[i], I[i + 1], J)
    BY <1>1, <1>3, <1>4
  <2>2. ASSUME NEW c \in M[i], NEW l \in Leads(code[i], c) PROVE After(code[i], c) \in K[l]
    <3>1. After(code[i], c) \in N /\ After(code[i], c) \in J[l]
      BY <2>1 DEF Keeps
    <3>2. l \in Targets(code)
      BY <2>1 DEF Targets, Leads
    <3>3. CASE l \in Defined(code)
      BY <3>1, <3>3
    <3>4. CASE l \notin Defined(code)
      BY <3>1, <3>2, <3>4
    <3> QED BY <3>3, <3>4
  <2>3. ASSUME NEW c \in M[i], Falls(code[i], c) PROVE After(code[i], c) \in M[i + 1]
    BY <2>1, <2>3 DEF Keeps
  <2>4. ASSUME code[i].op = "label" PROVE K[code[i].l] \subseteq M[i]
    <3>1. code[i].l \in Defined(code)
      BY <2>1, <2>4 DEF Defined
    <3> QED BY <2>1, <2>4, <3>1 DEF Keeps
  <2> QED BY <2>2, <2>3, <2>4 DEF Keeps
<1>6. N \subseteq M[1] /\ M[Len(code) + 1] \subseteq Q
  BY <1>1, <1>3, <1>4
<1> QED BY <1>2, <1>5, <1>6 DEF Flow

(* What the instructions keep true.                                        *)
LEMMA InstructionKeeps ==
  ASSUME NEW J \in Asserted
  PROVE  /\ \A l \in Labels : \A A : J[l] \subseteq A => Keeps(Label(l), A, A, J)
         /\ \A l \in Labels : \A A : A \subseteq J[l] => Keeps(Goto(l), A, {}, J)
         /\ \A v, A : Keeps(Save(v), A, A, J) /\ Keeps(Restore(v), A, A, J)
         /\ \A e, A : Keeps(ErrorAction(e), A, A, J)
         /\ \A v : Keeps(Zero(v), Counteds, {c \in Counteds : v \notin c}, J)
         /\ \A v, k, l : Keeps(Under(v, k, l), {c \in Counteds : v \notin c},
                               {c \in Counteds : v \notin c}, J)
         /\ \A x : x.op # "label" => Keeps(x, {}, {}, J)
<1>1. \A l \in Labels : \A A : J[l] \subseteq A => Keeps(Label(l), A, A, J)
  BY DEF Label, Keeps, Falls, Leads, After, Jumps, Leap
<1>2. \A l \in Labels : \A A : A \subseteq J[l] => Keeps(Goto(l), A, {}, J)
  BY DEF Goto, Keeps, Falls, Leads, After, Jumps, Leap
<1>3. \A v, A : Keeps(Save(v), A, A, J) /\ Keeps(Restore(v), A, A, J)
  BY DEF Save, Restore, Keeps, Falls, Leads, After, Jumps, Leap
<1>4. \A e, A : Keeps(ErrorAction(e), A, A, J)
  BY DEF ErrorAction, Keeps, Falls, Leads, After, Jumps, Leap
<1>5. \A v : Keeps(Zero(v), Counteds, {c \in Counteds : v \notin c}, J)
  BY DEF Zero, Keeps, Falls, Leads, After, Jumps, Leap, Counteds
<1>6. \A v, k, l : Keeps(Under(v, k, l), {c \in Counteds : v \notin c},
                         {c \in Counteds : v \notin c}, J)
  BY DEF Under, Keeps, Falls, Leads, After, Jumps, Leap
<1>7. \A x : x.op # "label" => Keeps(x, {}, {}, J)
  BY DEF Keeps
<1> QED BY <1>1, <1>2, <1>3, <1>4, <1>5, <1>6, <1>7

(* The end of code that always fails is not reached.                       *)
Trapped(code) == \E J \in Asserted : Flow(code, Counteds, {}, J)

LEMMA TrappedNotReached ==
  ASSUME NEW code \in Seq(Instructions), Trapped(code)
  PROVE  Len(code) + 1 \notin ReachedFromStart(code, {})
<1>1. PICK J \in Asserted : Flow(code, Counteds, {}, J)
  BY DEF Trapped
<1>2. PICK I \in [1 .. Len(code) + 1 -> SUBSET Counteds] :
        /\ Counteds \subseteq I[1] /\ I[Len(code) + 1] \subseteq {}
        /\ \A i \in 1 .. Len(code) : Keeps(code[i], I[i], I[i + 1], J)
  BY <1>1 DEF Flow
<1> DEFINE R == {x \in Points : x.at \in 1 .. Len(code) + 1 /\ x.counted \in I[x.at]}
<1>3. Start \in R
  BY <1>2 DEF Start, Points, Counteds
<1>4. ASSUME NEW x \in R, x.at \in DOMAIN code \ {} PROVE Steps(code, x) \subseteq R
  <2>1. /\ x.at \in 1 .. Len(code) /\ x.counted \in I[x.at]
        /\ Keeps(code[x.at], I[x.at], I[x.at + 1], J)
    BY <1>2, <1>4
  <2>2. Steps(code, x) \subseteq Points
    BY <1>4, StepsPoints
  <2>3. ASSUME NEW y \in Steps(code, x)
        PROVE  y.at \in 1 .. Len(code) + 1 /\ y.counted \in I[y.at]
    <3>1. /\ y.counted = After(code[x.at], x.counted)
          /\ \/ y.at = x.at + 1 /\ Falls(code[x.at], x.counted)
             \/ \E l \in Leads(code[x.at], x.counted) : y.at \in Labelled(code, l)
      <4> DEFINE ins == code[x.at]
                 next == IF ins.op \in Leap \/ (ins.op = "under" /\ ins.v \in x.counted)
                         THEN {} ELSE {x.at + 1}
                 jump == IF ins.op = "under" /\ ins.v \notin x.counted THEN {}
                         ELSE UNION {Labelled(code, l) : l \in Jumps(ins)}
                 counted == CASE ins.op = "zero"  -> x.counted \ {ins.v}
                              [] ins.op = "count" -> x.counted \cup {ins.v}
                              [] OTHER            -> x.counted
      <4>1. Steps(code, x) = {[at |-> i, counted |-> counted] : i \in next \cup jump}
        BY DEF Steps
      <4>2. counted = After(ins, x.counted)
        BY DEF After
      <4>3. \A i \in next : i = x.at + 1 /\ Falls(ins, x.counted)
        BY DEF Falls
      <4>4. \A i \in jump : \E l \in Leads(ins, x.counted) : i \in Labelled(code, l)
        BY DEF Leads
      <4> HIDE DEF ins, next, jump, counted
      <4>5. y.counted = counted /\ y.at \in next \cup jump
        BY <4>1
      <4> QED BY <4>2, <4>3, <4>4, <4>5 DEF ins
    <3>2. CASE y.at = x.at + 1 /\ Falls(code[x.at], x.counted)
      BY <2>1, <3>1, <3>2 DEF Keeps
    <3>3. CASE \E l \in Leads(code[x.at], x.counted) : y.at \in Labelled(code, l)
      <4>1. PICK l \in Leads(code[x.at], x.counted) : y.at \in Labelled(code, l)
        BY <3>3
      <4>2. y.counted \in J[l]
        BY <2>1, <3>1, <4>1 DEF Keeps
      <4>3. y.at \in 1 .. Len(code) /\ code[y.at].op = "label" /\ code[y.at].l = l
        BY <4>1 DEF Labelled, Label
      <4>4. J[l] \subseteq I[y.at]
        BY <1>2, <4>3 DEF Keeps
      <4> QED BY <4>2, <4>3, <4>4
    <3> QED BY <3>1, <3>2, <3>3
  <2> QED BY <2>2, <2>3
<1>5. Closed(code, {}, R)
  BY <1>3, <1>4 DEF Closed
<1>6. \A x \in R : x.at # Len(code) + 1
  BY <1>2
<1> HIDE DEF R
<1> QED BY <1>5, <1>6, ReachedIn

LEMMA FlowLiterals ==
  ASSUME NEW x \in Instructions, NEW y \in Instructions, NEW J, NEW P, NEW Q, NEW R,
         Flow(<<x>>, P, Q, J), Flow(<<y>>, Q, R, J)
  PROVE  /\ Flow(<<x, y>>, P, R, J)
         /\ \A z \in Instructions : \A S : Flow(<<z>>, R, S, J) => Flow(<<x, y, z>>, P, S, J)
         /\ \A z, u \in Instructions : \A S, T :
              Flow(<<z>>, R, S, J) /\ Flow(<<u>>, S, T, J) => Flow(<<x, y, z, u>>, P, T, J)
<1>1. \A z \in Instructions : <<z>> \in Seq(Instructions)
  OBVIOUS
<1>2. <<x, y>> \in Seq(Instructions) /\ \A z \in Instructions : <<x, y, z>> \in Seq(Instructions)
  OBVIOUS
<1>3. Flow(<<x, y>>, P, R, J)
  <2>1. <<x, y>> = <<x>> \o <<y>>
    BY TwoLiterals
  <2>2. Flow(<<x>> \o <<y>>, P, R, J)
    BY <1>1, FlowJoin
  <2> QED BY <2>1, <2>2
<1>4. ASSUME NEW z \in Instructions, NEW S, Flow(<<z>>, R, S, J) PROVE Flow(<<x, y, z>>, P, S, J)
  <2>1. <<x, y, z>> = <<x, y>> \o <<z>>
    BY ThreeLiterals
  <2>2. Flow(<<x, y>> \o <<z>>, P, S, J)
    BY <1>1, <1>2, <1>3, <1>4, FlowJoin
  <2> QED BY <2>1, <2>2
<1>5. ASSUME NEW z \in Instructions, NEW u \in Instructions, NEW S, NEW T,
             Flow(<<z>>, R, S, J), Flow(<<u>>, S, T, J)
      PROVE  Flow(<<x, y, z, u>>, P, T, J)
  <2>1. <<x, y, z, u>> = <<x, y, z>> \o <<u>>
    BY FourLiterals
  <2>2. Flow(<<x, y, z>>, P, S, J)
    BY <1>4, <1>5
  <2>3. Flow(<<x, y, z>> \o <<u>>, P, T, J)
    BY <1>1, <1>2, <1>5, <2>2, FlowJoin
  <2> QED BY <2>1, <2>3
<1> QED BY <1>3, <1>4, <1>5

Everywhere == [l \in Labels |-> Counteds]

LEMMA EndsInGoto ==
  ASSUME NEW a \in Seq(Instructions), NEW l \in Labels
  PROVE  /\ Everywhere \in Asserted /\ Flow(a, Counteds, Counteds, Everywhere)
         /\ Flow(a \o <<Goto(l)>>, Counteds, {}, Everywhere)
         /\ Flow(<<Goto(l)>>, Counteds, {}, Everywhere)
<1>1. Everywhere \in Asserted /\ \A k \in Labels : Everywhere[k] = Counteds
  BY DEF Everywhere, Asserted
<1>2. Targets(a) \subseteq Labels
  BY InstructionShape DEF Shaped, Targets
<1> HIDE DEF Everywhere
<1>3. Flow(a, Counteds, Counteds, Everywhere)
  BY <1>1, <1>2, FlowAny
<1>4. Goto(l) \in Instructions
  BY DEF Instructions, Jumping
<1>5. Flow(<<Goto(l)>>, Counteds, {}, Everywhere)
  <2>1. Counteds \subseteq Everywhere[l]
    BY <1>1
  <2>2. Keeps(Goto(l), Counteds, {}, Everywhere)
    BY <1>1, <2>1, InstructionKeeps
  <2>3. Counteds \in SUBSET Counteds /\ {} \in SUBSET Counteds
    OBVIOUS
  <2> QED BY <1>4, <2>2, <2>3, FlowOne
<1>6. <<Goto(l)>> \in Seq(Instructions)
  BY <1>4
<1> QED BY <1>1, <1>3, <1>5, <1>6, FlowJoin

(* Trapped code as a part of other code, which says K of the labels that    *)
(* are not its own.                                                         *)
LEMMA TrappedWithin ==
  ASSUME NEW code \in Seq(Instructions), Trapped(code),
         NEW N \in SUBSET Counteds, NEW K \in Asserted,
         \A i \in DOMAIN code : \A c \in N : After(code[i], c) \in N,
         \A l \in Targets(code) \ Defined(code) : N \subseteq K[l]
  PROVE  \E J \in Asserted : /\ Flow(code, N, {}, J)
                             /\ \A l \in Labels \ Defined(code) : J[l] = K[l]
<1>1. PICK J \in Asserted : Flow(code, Counteds, {}, J)
  BY DEF Trapped
<1> DEFINE M == [l \in Labels |-> IF l \in Defined(code) THEN J[l] \cap N ELSE K[l]]
<1>2. M \in Asserted
  BY DEF Asserted
<1>3. Defined(code) \subseteq Labels /\ Targets(code) \subseteq Labels
  BY InstructionShape DEF Shaped, Defined, Targets
<1>4. \A l \in Labels : M[l] = IF l \in Defined(code) THEN J[l] \cap N ELSE K[l]
  OBVIOUS
<1> HIDE DEF M
<1>5. \A l \in Defined(code) : M[l] = J[l] \cap N
  BY <1>3, <1>4
<1>6. \A l \in Targets(code) \ Defined(code) : N \subseteq M[l]
  BY <1>3, <1>4
<1>7. Flow(code, N, {}, M)
  BY <1>1, <1>2, <1>5, <1>6, FlowNarrow
<1> QED BY <1>2, <1>4, <1>7

(* An operand that always fails, without more being said.                  *)
LEMMA TrappedOperand ==
  ASSUME NEW code \in Seq(Instructions), Trapped(code), NEW K \in Asserted,
         \A l \in Targets(code) \ Defined(code) : K[l] = Counteds
  PROVE  \E J \in Asserted : /\ Flow(code, Counteds, {}, J)
                             /\ \A l \in Labels \ Defined(code) : J[l] = K[l]
<1>1. \A i \in DOMAIN code : \A c \in Counteds : After(code[i], c) \in Counteds
  <2>1. \A i \in DOMAIN code : code[i] \in Instructions
    OBVIOUS
  <2> QED BY <2>1, AfterCounted
<1>2. Counteds \in SUBSET Counteds /\ \A l \in Targets(code) \ Defined(code) : Counteds \subseteq K[l]
  OBVIOUS
<1> QED BY <1>1, <1>2, TrappedWithin

Honest(o) == o.reach = ALWAYS_FAIL => Trapped(o.code)

LEMMA OpeningHonest ==
  ASSUME NEW e \in Expressions, NEW n, NEW onfail \in Labels, e.type # "alternate"
  PROVE  Honest(Opening(e, onfail, n))
<1>1. CASE e.type = "charclass" /\ e.set = {}
  <2>1. Opening(e, onfail, n) = Out(<<Goto(onfail)>>, ALWAYS_FAIL, n)
    BY <1>1 DEF Opening, EmitCharclass
  <2>2. <<>> \in Seq(Instructions)
    OBVIOUS
  <2>3. Trapped(<<Goto(onfail)>>)
    BY <2>2, EndsInGoto DEF Trapped
  <2> QED BY <2>1, <2>3, OutFields DEF Honest
<1>2. CASE ~ (e.type = "charclass" /\ e.set = {})
  <2>1. Opening(e, onfail, n).reach # ALWAYS_FAIL
    BY <1>2, OutFields, ReachesDiffer DEF Opening, EmitString, EmitCharclass
  <2> QED BY <2>1 DEF Honest
<1> QED BY <1>1, <1>2

LEMMA EmitNotHonest ==
  ASSUME NEW e, NEW n \in Nat, NEW onfail \in Labels,
         NEW b, b.code \in Seq(Instructions), b.reach \in Reaches
  PROVE  Honest(EmitNot(e, onfail, n, b))
<1> DEFINE s  == Saved(n + 1)
           c1 == <<Save(s)>>
           c3 == <<Restore(s), Goto(onfail)>>
           o  == EmitNot(e, onfail, n, b)
<1>1. SUFFICES ASSUME o.reach = ALWAYS_FAIL PROVE Trapped(o.code)
  BY DEF Honest
<1>2. b.reach = ALWAYS_SUCCEED
  BY <1>1, OutFields, ReachesDiffer DEF EmitNot, Negated, Reaches
<1>3. o.code = ((c1 \o b.code) \o c3) \o <<>>
  BY <1>2, ReachesDiffer DEF EmitNot, If, Out
<1>4. Save(s) \in Instructions /\ Restore(s) \in Instructions /\ Goto(onfail) \in Instructions
  BY SlotsDiffer, InstructionTraits DEF Traits
<1> HIDE DEF s, o
<1>5. /\ c1 \o b.code \in Seq(Instructions) /\ c3 \in Seq(Instructions)
      /\ <<Restore(s)>> \in Seq(Instructions) /\ <<>> \in Seq(Instructions)
      /\ (c1 \o b.code) \o c3 \in Seq(Instructions)
  BY <1>4
<1>6. c3 = <<Restore(s)>> \o <<Goto(onfail)>>
  BY TwoLiterals
<1> HIDE DEF c1, c3
<1>7. Flow((c1 \o b.code) \o c3, Counteds, {}, Everywhere)
  <2>1. Flow(c1 \o b.code, Counteds, Counteds, Everywhere) /\ Flow(c3, Counteds, {}, Everywhere)
    BY <1>5, <1>6, EndsInGoto
  <2> QED BY <1>5, <2>1, FlowJoin
<1>8. Flow(<<>>, {}, {}, Everywhere)
  <2>1. {} \in SUBSET Counteds
    OBVIOUS
  <2> QED BY <2>1, FlowNothing
<1>9. Flow(o.code, Counteds, {}, Everywhere)
  BY <1>3, <1>5, <1>7, <1>8, FlowJoin
<1> QED BY <1>5, <1>9, EndsInGoto DEF Trapped

LEMMA EmitAndHonest ==
  ASSUME NEW e, NEW n \in Nat, NEW onfail \in Labels,
         NEW b, b.code \in Seq(Instructions), b.reach \in Reaches
  PROVE  Honest(EmitAnd(e, onfail, n, b))
<1> DEFINE s  == Saved(n + 1)
           l  == L(n + 1)
           c1 == <<Save(s)>>
           c5 == <<Label(l), Restore(s), Goto(onfail)>>
           o  == EmitAnd(e, onfail, n, b)
<1>1. SUFFICES ASSUME o.reach = ALWAYS_FAIL PROVE Trapped(o.code)
  BY DEF Honest
<1>2. b.reach = ALWAYS_FAIL
  BY <1>1, OutFields DEF EmitAnd
<1>3. o.code = ((((c1 \o b.code) \o <<>>) \o <<>>) \o c5) \o <<>>
  BY <1>2, ReachesDiffer DEF EmitAnd, If, Out
<1>4. /\ Save(s) \in Instructions /\ Restore(s) \in Instructions /\ Goto(onfail) \in Instructions
      /\ Label(l) \in Instructions
  BY SlotsDiffer, LabelsDiffer, InstructionTraits DEF Traits
<1> HIDE DEF s, l, o
<1> DEFINE a == ((c1 \o b.code) \o <<>>) \o <<>>
<1>5. /\ a \in Seq(Instructions) /\ c5 \in Seq(Instructions)
      /\ <<Label(l), Restore(s)>> \in Seq(Instructions) /\ <<>> \in Seq(Instructions)
      /\ a \o c5 \in Seq(Instructions)
  BY <1>4
<1>6. c5 = <<Label(l), Restore(s)>> \o <<Goto(onfail)>>
  BY ThreeLiterals
<1>7. o.code = (a \o c5) \o <<>>
  BY <1>3
<1> HIDE DEF a, c5
<1>8. Flow(a \o c5, Counteds, {}, Everywhere)
  <2>1. Flow(a, Counteds, Counteds, Everywhere) /\ Flow(c5, Counteds, {}, Everywhere)
    BY <1>5, <1>6, EndsInGoto
  <2> QED BY <1>5, <2>1, FlowJoin
<1>9. Flow(<<>>, {}, {}, Everywhere)
  <2>1. {} \in SUBSET Counteds
    OBVIOUS
  <2> QED BY <2>1, FlowNothing
<1>10. Flow(o.code, Counteds, {}, Everywhere)
  BY <1>5, <1>7, <1>8, <1>9, FlowJoin
<1> QED BY <1>5, <1>10, EndsInGoto DEF Trapped

LEMMA EmitAlternativeHonest ==
  ASSUME NEW n \in Nat, NEW onfail \in Labels,
         NEW a, a.code \in Seq(Instructions), a.label \in Nat, a.reach \in {BOTH, ALWAYS_FAIL},
         NEW b, b.code \in Seq(Instructions), b.reach \in Reaches
  PROVE  Honest(EmitAlternative(a, b, TRUE, onfail, n + 1))
<1> DEFINE s  == Saved(n + 1)
           l  == L(a.label + 1)
           c4 == <<Label(l), Restore(s)>>
           c5 == <<Goto(onfail)>>
           o  == EmitAlternative(a, b, TRUE, onfail, n + 1)
<1>1. SUFFICES ASSUME o.reach = ALWAYS_FAIL PROVE Trapped(o.code)
  BY DEF Honest
<1>2. a.reach = ALWAYS_FAIL /\ b.reach = ALWAYS_FAIL
  BY <1>1, OutFields, ReachesDiffer DEF EmitAlternative
<1>3. o.code = ((((a.code \o b.code) \o <<>>) \o c4) \o c5) \o <<>>
  <2>1. b.reach # BOTH /\ b.reach # ALWAYS_SUCCEED /\ BOTH \notin {a.reach, b.reach}
    BY <1>2, ReachesDiffer
  <2> QED BY <2>1 DEF EmitAlternative, If, Out
<1>4. Restore(s) \in Instructions /\ Goto(onfail) \in Instructions /\ Label(l) \in Instructions
  <2>1. s \in Slots /\ l \in Labels
    BY SlotsDiffer, LabelsDiffer
  <2> HIDE DEF s, l
  <2> QED BY <2>1, InstructionTraits DEF Traits
<1> HIDE DEF s, l, o
<1> DEFINE d == ((a.code \o b.code) \o <<>>) \o c4
<1>5. d \in Seq(Instructions) /\ <<>> \in Seq(Instructions) /\ d \o c5 \in Seq(Instructions)
  BY <1>4
<1>6. o.code = (d \o c5) \o <<>>
  BY <1>3
<1> HIDE DEF d
<1>7. Flow(d \o c5, Counteds, {}, Everywhere)
  BY <1>5, EndsInGoto
<1>8. Flow(<<>>, {}, {}, Everywhere)
  <2>1. {} \in SUBSET Counteds
    OBVIOUS
  <2> QED BY <2>1, FlowNothing
<1>9. Flow(o.code, Counteds, {}, Everywhere)
  BY <1>5, <1>6, <1>7, <1>8, FlowJoin
<1> QED BY <1>5, <1>9, EndsInGoto DEF Trapped

LEMMA EmitElementHonest ==
  ASSUME NEW n \in Nat, NEW onfail \in Onfails(n),
         NEW a, Sound(a, onfail, n), a.reach # ALWAYS_FAIL,
         NEW b, Sound(b, onfail, a.label), Honest(b)
  PROVE  Honest(EmitElement(a, b))
<1> DEFINE o == EmitElement(a, b)
<1>1. SUFFICES ASSUME o.reach = ALWAYS_FAIL PROVE Trapped(o.code)
  BY DEF Honest
<1>2. b.reach = ALWAYS_FAIL /\ o.code = a.code \o b.code
  BY <1>1 DEF EmitElement, Out
<1>3. Trapped(b.code)
  BY <1>2 DEF Honest
<1>4. /\ a.code \in Seq(Instructions) /\ b.code \in Seq(Instructions)
      /\ a.label \in Nat /\ n <= a.label /\ b.label \in Nat
      /\ Targets(a.code) \subseteq Own(n, a.label) \cup {onfail}
      /\ Defined(b.code) \subseteq Own(a.label, b.label)
  BY DEF Sound, Piece
<1>5. Targets(a.code) \cap Defined(b.code) = {}
  <2>1. PICK i \in 0 .. n : onfail = L(i)
    BY DEF Onfails
  <2>2. onfail \notin Own(a.label, b.label) /\ Own(n, a.label) \cap Own(a.label, b.label) = {}
    BY <1>4, <2>1, OwnLabels
  <2> QED BY <1>4, <2>2
<1>6. /\ Everywhere \in Asserted /\ \A l \in Labels : Everywhere[l] = Counteds
      /\ Targets(a.code) \subseteq Labels /\ Targets(b.code) \subseteq Labels
  BY <1>4, InstructionShape DEF Everywhere, Asserted, Shaped, Targets
<1>7. PICK J \in Asserted : /\ Flow(b.code, Counteds, {}, J)
                            /\ \A l \in Labels \ Defined(b.code) : J[l] = Everywhere[l]
  BY <1>3, <1>4, <1>6, TrappedOperand
<1>8. Flow(a.code, Counteds, Counteds, J)
  BY <1>4, <1>5, <1>6, <1>7, FlowAny
<1>9. Flow(a.code \o b.code, Counteds, {}, J)
  BY <1>4, <1>7, <1>8, FlowJoin
<1> QED BY <1>2, <1>9 DEF Trapped

LEMMA EmitCaptureHonest ==
  ASSUME NEW e \in Expressions, NEW n, NEW onfail,
         NEW b, b.code \in Seq(Instructions), Honest(b)
  PROVE  Honest(EmitCapture(e, onfail, n, b))
<1> DEFINE v  == <<"capture", e.index>>
           c1 == <<Save(v)>>
           c3 == <<Capture(e.index, v)>>
           o  == EmitCapture(e, onfail, n, b)
<1>1. SUFFICES ASSUME o.reach = ALWAYS_FAIL PROVE Trapped(o.code)
  BY DEF Honest
<1>2. b.reach = ALWAYS_FAIL /\ o.code = (c1 \o b.code) \o c3
  BY <1>1 DEF EmitCapture, Out
<1>3. Save(v) \in Instructions /\ Capture(e.index, v) \in Instructions
  BY InstructionTraits DEF Traits
<1>4. Capture(e.index, v).op # "label"
  BY DEF Capture
<1> HIDE DEF o, v
<1>5. /\ c1 \in Seq(Instructions) /\ c3 \in Seq(Instructions) /\ c1 \o b.code \in Seq(Instructions)
  BY <1>3
<1>6. Everywhere \in Asserted /\ \A l \in Labels : Everywhere[l] = Counteds
  BY DEF Everywhere, Asserted
<1>7. Targets(b.code) \subseteq Labels
  BY InstructionShape DEF Shaped, Targets
<1>8. PICK J \in Asserted : Flow(b.code, Counteds, {}, J)
  BY <1>2 DEF Honest, Trapped
<1>9. Flow(c1, Counteds, Counteds, J) /\ Flow(c3, {}, {}, J)
  <2>1. Keeps(Save(v), Counteds, Counteds, J) /\ Keeps(Capture(e.index, v), {}, {}, J)
    BY <1>4, InstructionKeeps
  <2>2. Counteds \in SUBSET Counteds /\ {} \in SUBSET Counteds
    OBVIOUS
  <2> QED BY <1>3, <2>1, <2>2, FlowOne
<1> HIDE DEF c1, c3
<1>10. Flow(c1 \o b.code, Counteds, {}, J)
  BY <1>5, <1>8, <1>9, FlowJoin
<1>11. Flow((c1 \o b.code) \o c3, Counteds, {}, J)
  BY <1>5, <1>9, <1>10, FlowJoin
<1> QED BY <1>2, <1>11 DEF Trapped

LEMMA EmitErrorHonest ==
  ASSUME NEW e \in Expressions, NEW n \in Nat, NEW onfail \in Onfails(n),
         NEW b, Sound(b, L(n + 1), n + 2), Honest(b)
  PROVE  Honest(EmitError(e, onfail, n, b))
<1> DEFINE l == n + 1
           k == n + 2
           m == b.label
           c1 == <<Goto(L(k))>>
           c2 == <<Label(L(l)), ErrorAction(e)>>
           c3 == <<Goto(onfail), Label(L(k))>>
           o == EmitError(e, onfail, n, b)
           K == [j \in Labels |-> IF j = L(k) THEN {} ELSE Counteds]
<1>1. SUFFICES ASSUME o.reach = ALWAYS_FAIL PROVE Trapped(o.code)
  BY DEF Honest
<1>2. b.reach = ALWAYS_FAIL /\ o.code = b.code \o ((c1 \o c2) \o c3)
  <2>1. <<Goto(L(k)), Label(L(l)), ErrorAction(e), Goto(onfail), Label(L(k))>> = (c1 \o c2) \o c3
    BY FiveLiterals
  <2>2. o = Out(b.code \o <<Goto(L(k)), Label(L(l)), ErrorAction(e), Goto(onfail), Label(L(k))>>,
                b.reach, m)
    BY DEF EmitError
  <2> DEFINE d == <<Goto(L(k)), Label(L(l)), ErrorAction(e), Goto(onfail), Label(L(k))>>
             h == (c1 \o c2) \o c3
  <2>3. d = h /\ o = Out(b.code \o d, b.reach, m)
    BY <2>1, <2>2
  <2> HIDE DEF o, d, h
  <2>4. o.reach = b.reach /\ o.code = b.code \o d
    BY <2>3 DEF Out
  <2>5. b.reach = ALWAYS_FAIL /\ o.code = b.code \o h
    BY <1>1, <2>3, <2>4
  <2> QED BY <2>5 DEF h
<1>3. /\ l \in Nat /\ k \in Nat /\ l # k /\ l <= k /\ onfail \in Labels
      /\ L(l) \in Labels /\ L(k) \in Labels /\ L(l) # L(k)
  BY LabelsDiffer DEF Onfails
<1>4. /\ b.code \in Seq(Instructions) /\ m \in Nat /\ k <= m
      /\ Defined(b.code) \subseteq Own(k, m) /\ Targets(b.code) \subseteq Own(k, m) \cup {L(l)}
  BY DEF Sound, Piece
<1> HIDE DEF l, k, m, o
<1>5. /\ L(k) \notin Own(k, m) /\ L(l) \notin Own(k, m)
      /\ onfail \notin Own(k, m) /\ onfail # L(k)
  <2>1. PICK i \in 0 .. n : onfail = L(i)
    BY DEF Onfails
  <2>2. i \in Nat /\ i # k /\ i <= k
    BY DEF k
  <2> QED BY <1>3, <1>4, <2>1, <2>2, LabelsDiffer, OwnLabels
<1>6. /\ K \in Asserted /\ K[L(k)] = {} /\ \A j \in Labels : j # L(k) => K[j] = Counteds
  BY <1>3 DEF Asserted
<1> HIDE DEF K
<1>7. \A j \in Targets(b.code) \ Defined(b.code) : K[j] = Counteds
  <2>1. Targets(b.code) \subseteq Labels
    BY <1>4, InstructionShape DEF Shaped, Targets
  <2> QED BY <1>3, <1>4, <1>5, <1>6, <2>1
<1>8. PICK J \in Asserted : /\ Flow(b.code, Counteds, {}, J)
                            /\ \A j \in Labels \ Defined(b.code) : J[j] = K[j]
  BY <1>2, <1>4, <1>6, <1>7, TrappedOperand DEF Honest
<1>9. J[L(k)] = {} /\ J[L(l)] = Counteds /\ J[onfail] = Counteds
  BY <1>3, <1>4, <1>5, <1>6, <1>8
<1>10. /\ Goto(L(k)) \in Instructions /\ Label(L(l)) \in Instructions /\ ErrorAction(e) \in Instructions
       /\ Goto(onfail) \in Instructions /\ Label(L(k)) \in Instructions
  BY <1>3, InstructionTraits DEF Traits, Instructions, Ending
<1>11. /\ Counteds \in SUBSET Counteds /\ {} \in SUBSET Counteds /\ {} \subseteq J[L(k)]
       /\ Goto(L(k)).op # "label"
  BY DEF Goto
<1>12. Flow(c1, {}, {}, J)
  <2>1. Keeps(Goto(L(k)), {}, {}, J)
    BY <1>11, InstructionKeeps
  <2> QED BY <1>10, <1>11, <2>1, FlowOne
<1>13. Flow(c2, {}, Counteds, J)
  <2>1. Keeps(Label(L(l)), Counteds, Counteds, J) /\ Keeps(ErrorAction(e), Counteds, Counteds, J)
    BY <1>3, <1>9, InstructionKeeps
  <2>2. Flow(<<Label(L(l))>>, {}, Counteds, J) /\ Flow(<<ErrorAction(e)>>, Counteds, Counteds, J)
    BY <1>10, <1>11, <2>1, FlowOne
  <2> QED BY <1>10, <2>2, FlowLiterals
<1>14. Flow(c3, Counteds, {}, J)
  <2>1. Counteds \subseteq J[onfail] /\ J[L(k)] \subseteq {}
    BY <1>9
  <2>2. Keeps(Goto(onfail), Counteds, {}, J) /\ Keeps(Label(L(k)), {}, {}, J)
    BY <1>3, <2>1, InstructionKeeps
  <2>3. Flow(<<Goto(onfail)>>, Counteds, {}, J) /\ Flow(<<Label(L(k))>>, {}, {}, J)
    BY <1>10, <1>11, <2>2, FlowOne
  <2> QED BY <1>10, <2>3, FlowLiterals
<1>15. /\ c1 \in Seq(Instructions) /\ c2 \in Seq(Instructions) /\ c3 \in Seq(Instructions)
       /\ c1 \o c2 \in Seq(Instructions) /\ (c1 \o c2) \o c3 \in Seq(Instructions)
  BY <1>10
<1> HIDE DEF c1, c2, c3
<1>16. Flow((c1 \o c2) \o c3, {}, {}, J)
  <2>1. Flow(c1 \o c2, {}, Counteds, J)
    BY <1>12, <1>13, <1>15, FlowJoin
  <2> QED BY <1>14, <1>15, <2>1, FlowJoin
<1>17. Flow(b.code \o ((c1 \o c2) \o c3), Counteds, {}, J)
  BY <1>4, <1>8, <1>15, <1>16, FlowJoin
<1> QED BY <1>2, <1>17 DEF Trapped

(* In front of a loop nothing has been counted by it; an operand that       *)
(* always fails counts for none but its own loops.                          *)
LEMMA OperandCounts ==
  ASSUME NEW l \in Nat, NEW m \in Nat, NEW code \in Seq(Instructions),
         Targets(code) \subseteq Own(l, m) \cup {L(l)},
         NEW i \in DOMAIN code, NEW c \in Counteds, Saved(l) \notin c
  PROVE  Saved(l) \notin After(code[i], c)
<1>1. CASE code[i].op = "count"
  <2>1. PICK j \in Nat : code[i] = Count(Saved(j), Loop(j))
    BY <1>1, InstructionShape DEF Shaped
  <2>2. Loop(j) \in Targets(code)
    BY <2>1 DEF Targets, Jumps, Count
  <2>3. Loop(j) \in Own(l, m)
    BY <2>2, LabelsDiffer
  <2>4. j # l
    BY <2>3, OwnLabels
  <2>5. After(code[i], c) = c \cup {Saved(j)}
    BY <2>1 DEF After, Count
  <2> QED BY <2>4, <2>5, SlotsDiffer
<1>2. CASE code[i].op # "count"
  BY <1>2 DEF After
<1> QED BY <1>1, <1>2

LEMMA EmitRepetitionHonest ==
  ASSUME NEW e \in Expressions, e.max = -1, e.min \in {0, 1},
         NEW n \in Nat, NEW onfail \in Onfails(n), NEW b, Sound(b, L(n + 1), n + 1), Honest(b)
  PROVE  Honest(EmitRepetition(e, onfail, n, b))
<1> DEFINE l == n + 1
           m == b.label
           s == Saved(l)
           x == Before(l)
           p1 == <<Save(x)>>
           p2 == <<Zero(s), Label(Loop(l))>>
           o1 == <<Save(s)>>
           o2 == <<Still(s, Break(l)), Count(s, Loop(l))>>
           o3 == <<Label(L(l)), Restore(s), Goto(Break(l))>>
           c3 == <<Label(Break(l))>>
           c4 == <<Under(s, e.min, Enough(l)), Restore(x), Goto(onfail), Label(Enough(l))>>
           c2 == ((o1 \o b.code) \o o2) \o o3
           o == EmitRepetition(e, onfail, n, b)
           N == {c \in Counteds : s \notin c}
           K == [j \in Labels |-> IF j = Enough(l) THEN {}
                                  ELSE IF j \in {L(l), Break(l), Loop(l)} THEN N ELSE Counteds]
<1>1. SUFFICES ASSUME o.reach = ALWAYS_FAIL PROVE Trapped(o.code)
  BY DEF Honest
<1>2. /\ b.reach = ALWAYS_FAIL /\ e.min > 0
      /\ o.code = (((p1 \o p2) \o c2) \o c3) \o c4
  <2>1. o.reach = IF e.min = 0 THEN ALWAYS_SUCCEED
                  ELSE IF b.reach = ALWAYS_FAIL THEN ALWAYS_FAIL ELSE BOTH
    BY DEF EmitRepetition, Out
  <2>2. b.reach = ALWAYS_FAIL /\ e.min > 0
    <3> HIDE DEF o
    <3> QED BY <1>1, <2>1, ReachesDiffer
  <2>3. BeforeLoop(e, l) = p1 /\ BehindLoop(e, onfail, l) = c4
    BY <2>2 DEF BeforeLoop, BehindLoop, If
  <2>4. OnceMore(e, l, b) = c2
    <3>1. <<>> \o o1 = o1
      OBVIOUS
    <3>2. If(e.max > 0, <<Under(s, e.max, Break(l))>>) = <<>>
      BY DEF If
    <3>3. If(b.reach # ALWAYS_SUCCEED, o3) = o3
      BY <2>2, ReachesDiffer DEF If
    <3>4. OnceMore(e, l, b) =
            (((If(e.max > 0, <<Under(s, e.max, Break(l))>>) \o o1) \o b.code) \o o2)
            \o If(b.reach # ALWAYS_SUCCEED, o3)
      BY DEF OnceMore
    <3> HIDE DEF o1, o2, o3
    <3> QED BY <3>1, <3>2, <3>3, <3>4
  <2>5. o.code = (((BeforeLoop(e, l) \o p2) \o OnceMore(e, l, b)) \o c3) \o BehindLoop(e, onfail, l)
    BY DEF EmitRepetition, Out
  <2> HIDE DEF o, p1, p2, c2, c3, c4
  <2> QED BY <2>2, <2>3, <2>4, <2>5
<1>3. /\ l \in Nat /\ onfail \in Labels /\ L(l) \in Labels /\ Loop(l) \in Labels
      /\ Break(l) \in Labels /\ Enough(l) \in Labels
      /\ s \in Counters /\ s \in Slots /\ x \in Slots
      /\ Enough(l) \notin {L(l), Break(l), Loop(l)}
  BY LabelsDiffer, SlotsDiffer DEF Onfails
<1>4. /\ b.code \in Seq(Instructions) /\ m \in Nat /\ l <= m
      /\ Defined(b.code) \subseteq Own(l, m) /\ Targets(b.code) \subseteq Own(l, m) \cup {L(l)}
  BY DEF Sound, Piece
<1>5. /\ {L(l), Break(l), Loop(l), Enough(l), onfail} \cap Own(l, m) = {}
      /\ onfail \notin {L(l), Break(l), Loop(l), Enough(l)}
  <2>1. PICK i \in 0 .. n : onfail = L(i)
    BY DEF Onfails
  <2>2. i \in Nat /\ i # l /\ i <= l
    OBVIOUS
  <2> HIDE DEF l, m
  <2>3. onfail # L(l) /\ onfail # Break(l) /\ onfail # Loop(l) /\ onfail # Enough(l)
    BY <1>3, <2>1, <2>2, LabelsDiffer
  <2>4. /\ L(l) \notin Own(l, m) /\ Break(l) \notin Own(l, m) /\ Loop(l) \notin Own(l, m)
        /\ Enough(l) \notin Own(l, m) /\ onfail \notin Own(l, m)
    BY <1>3, <1>4, <2>1, <2>2, OwnLabels
  <2> QED BY <2>3, <2>4
<1> HIDE DEF l, m, o
<1>6. /\ K \in Asserted /\ K[Enough(l)] = {} /\ K[L(l)] = N /\ K[Break(l)] = N /\ K[Loop(l)] = N
      /\ \A j \in Labels : j \notin {L(l), Break(l), Loop(l), Enough(l)} => K[j] = Counteds
      /\ \A j \in Labels : j # Enough(l) => N \subseteq K[j]
  BY <1>3 DEF Asserted
<1> HIDE DEF K
<1>7. PICK J \in Asserted : /\ Flow(b.code, N, {}, J)
                            /\ \A j \in Labels \ Defined(b.code) : J[j] = K[j]
  <2>1. \A j \in Targets(b.code) \ Defined(b.code) : N \subseteq K[j]
    <3>1. Targets(b.code) \subseteq Labels
      BY <1>4, InstructionShape DEF Shaped, Targets
    <3>2. Enough(l) \notin Targets(b.code)
      BY <1>3, <1>4, <1>5
    <3> QED BY <1>6, <3>1, <3>2
  <2>2. \A i \in DOMAIN b.code : \A c \in N : After(b.code[i], c) \in N
    <3>1. \A i \in DOMAIN b.code : b.code[i] \in Instructions
      BY <1>4
    <3> QED BY <1>3, <1>4, <3>1, AfterCounted, OperandCounts
  <2>3. N \in SUBSET Counteds
    OBVIOUS
  <2>4. Trapped(b.code)
    BY <1>2 DEF Honest
  <2> HIDE DEF N
  <2> QED BY <1>4, <1>6, <2>1, <2>2, <2>3, <2>4, TrappedWithin
<1>8. /\ J[Enough(l)] = {} /\ J[L(l)] = N /\ J[Break(l)] = N /\ J[Loop(l)] = N
      /\ J[onfail] = Counteds
  BY <1>3, <1>4, <1>5, <1>6, <1>7
<1>9. /\ Keeps(Zero(s), Counteds, N, J) /\ Keeps(Under(s, e.min, Enough(l)), N, N, J)
      /\ Counteds \in SUBSET Counteds /\ {} \in SUBSET Counteds /\ N \in SUBSET Counteds
  BY InstructionKeeps
<1>10. /\ Still(s, Break(l)).op # "label" /\ Count(s, Loop(l)).op # "label"
  BY DEF Still, Count
<1>11. /\ Save(x) \in Instructions /\ Zero(s) \in Instructions /\ Label(Loop(l)) \in Instructions
       /\ Save(s) \in Instructions /\ Still(s, Break(l)) \in Instructions
       /\ Count(s, Loop(l)) \in Instructions /\ Label(L(l)) \in Instructions
       /\ Restore(s) \in Instructions /\ Goto(Break(l)) \in Instructions
       /\ Label(Break(l)) \in Instructions /\ Under(s, e.min, Enough(l)) \in Instructions
       /\ Restore(x) \in Instructions /\ Goto(onfail) \in Instructions
       /\ Label(Enough(l)) \in Instructions
  <2>1. e.min \in Nat
    OBVIOUS
  <2> QED BY <1>3, <2>1, InstructionTraits DEF Traits
<1> HIDE DEF N
<1>12. N \subseteq Counteds
  BY <1>9
<1>13. Flow(p1, Counteds, Counteds, J)
  <2>1. Keeps(Save(x), Counteds, Counteds, J)
    BY InstructionKeeps
  <2> QED BY <1>9, <1>11, <2>1, FlowOne
<1>14. Flow(p2, Counteds, N, J)
  <2>1. Keeps(Label(Loop(l)), N, N, J)
    BY <1>3, <1>8, InstructionKeeps
  <2>2. Flow(<<Zero(s)>>, Counteds, N, J) /\ Flow(<<Label(Loop(l))>>, N, N, J)
    BY <1>9, <1>11, <2>1, FlowOne
  <2> QED BY <1>11, <2>2, FlowLiterals
<1>15. Flow(o1, N, N, J)
  <2>1. Keeps(Save(s), N, N, J)
    BY InstructionKeeps
  <2> QED BY <1>9, <1>11, <2>1, FlowOne
<1>16. Flow(o2, {}, {}, J)
  <2>1. Keeps(Still(s, Break(l)), {}, {}, J) /\ Keeps(Count(s, Loop(l)), {}, {}, J)
    BY <1>10, InstructionKeeps
  <2>2. Flow(<<Still(s, Break(l))>>, {}, {}, J) /\ Flow(<<Count(s, Loop(l))>>, {}, {}, J)
    BY <1>9, <1>11, <2>1, FlowOne
  <2> QED BY <1>11, <2>2, FlowLiterals
<1>17. Flow(o3, {}, {}, J)
  <2>1. /\ Keeps(Label(L(l)), N, N, J) /\ Keeps(Restore(s), N, N, J)
        /\ Keeps(Goto(Break(l)), N, {}, J)
    BY <1>3, <1>8, InstructionKeeps
  <2>2. /\ Flow(<<Label(L(l))>>, {}, N, J) /\ Flow(<<Restore(s)>>, N, N, J)
        /\ Flow(<<Goto(Break(l))>>, N, {}, J)
    BY <1>9, <1>11, <2>1, FlowOne
  <2> QED BY <1>11, <2>2, FlowLiterals
<1>18. Flow(c3, {}, N, J)
  <2>1. Keeps(Label(Break(l)), N, N, J)
    BY <1>3, <1>8, InstructionKeeps
  <2> QED BY <1>9, <1>11, <2>1, FlowOne
<1>19. Flow(c4, N, {}, J)
  <2>1. /\ Keeps(Restore(x), N, N, J) /\ Keeps(Goto(onfail), N, {}, J)
        /\ Keeps(Label(Enough(l)), {}, {}, J)
    BY <1>3, <1>8, <1>12, InstructionKeeps
  <2>2. /\ Flow(<<Under(s, e.min, Enough(l))>>, N, N, J) /\ Flow(<<Restore(x)>>, N, N, J)
        /\ Flow(<<Goto(onfail)>>, N, {}, J) /\ Flow(<<Label(Enough(l))>>, {}, {}, J)
    BY <1>9, <1>11, <2>1, FlowOne
  <2> QED BY <1>11, <2>2, FlowLiterals
<1>20. /\ p1 \in Seq(Instructions) /\ p2 \in Seq(Instructions) /\ o1 \in Seq(Instructions)
       /\ o2 \in Seq(Instructions) /\ o3 \in Seq(Instructions) /\ c3 \in Seq(Instructions)
       /\ c4 \in Seq(Instructions)
  BY <1>11
<1> HIDE DEF p1, p2, o1, o2, o3, c3, c4
<1>21. /\ p1 \o p2 \in Seq(Instructions) /\ o1 \o b.code \in Seq(Instructions)
       /\ (o1 \o b.code) \o o2 \in Seq(Instructions) /\ c2 \in Seq(Instructions)
  BY <1>4, <1>20
<1>22. Flow(c2, N, {}, J)
  <2>1. Flow(o1 \o b.code, N, {}, J)
    BY <1>4, <1>7, <1>15, <1>20, FlowJoin
  <2>2. Flow((o1 \o b.code) \o o2, N, {}, J)
    BY <1>16, <1>20, <1>21, <2>1, FlowJoin
  <2> QED BY <1>17, <1>20, <1>21, <2>2, FlowJoin
<1>23. Flow(p1 \o p2, Counteds, N, J)
  BY <1>13, <1>14, <1>20, FlowJoin
<1> HIDE DEF c2
<1>24. (p1 \o p2) \o c2 \in Seq(Instructions) /\ ((p1 \o p2) \o c2) \o c3 \in Seq(Instructions)
  BY <1>20, <1>21
<1>25. Flow((p1 \o p2) \o c2, Counteds, {}, J)
  BY <1>21, <1>22, <1>23, FlowJoin
<1>26. Flow(((p1 \o p2) \o c2) \o c3, Counteds, N, J)
  BY <1>18, <1>20, <1>24, <1>25, FlowJoin
<1>27. Flow((((p1 \o p2) \o c2) \o c3) \o c4, Counteds, {}, J)
  BY <1>19, <1>20, <1>24, <1>26, FlowJoin
<1> QED BY <1>2, <1>27 DEF Trapped

(* What generate_code tells its caller about reach is true, of the code     *)
(* that it writes for every type of node.                                   *)
LEMMA AlternateHonest ==
  ASSUME NEW c, Fits(c), GoesOn(c), c.node.type = "alternate",
         NEW b, Sound(b, Operand(c).onfail, Operand(c).n)
  PROVE  GoesOn(Continued(c, b)) \/ Honest(Written(c, b))
<1> DEFINE e == c.node
           a == c.out
           last == c.k + 1 = Len(e.nodes)
           o == EmitAlternative(a, b, last, c.onfail, c.n + 1)
           d == Continued(c, b)
<1>1. /\ e \in Expressions /\ c.n \in Nat /\ c.k \in Nat /\ c.onfail \in Labels /\ Trying(a, c.n)
      /\ b.code \in Seq(Instructions) /\ b.reach \in Reaches
  BY DEF Fits, Calls, Sound, Piece
<1>2. c.k < Len(e.nodes) /\ Len(e.nodes) \in Nat
  BY <1>1, ExpressionsAssumption DEF GoesOn
<1>3. Written(c, b) = o
  BY DEF Written
<1>4. d.node = e /\ d.k = c.k + 1 /\ d.out = o
  BY <1>3 DEF Continued
<1>5. a.code \in Seq(Instructions) /\ a.label \in Nat /\ a.reach \in {BOTH, ALWAYS_FAIL}
  BY <1>1 DEF Trying, Opened, Piece
<1> HIDE DEF d
<1>6. CASE last
  <2>1. o = EmitAlternative(a, b, TRUE, c.onfail, c.n + 1)
    BY <1>6
  <2> HIDE DEF o
  <2> QED BY <1>1, <1>3, <1>5, <2>1, EmitAlternativeHonest
<1>7. CASE ~ last
  <2>1. c.k + 1 < Len(e.nodes)
    BY <1>1, <1>2, <1>7
  <2> HIDE DEF o
  <2>2. o.reach # ALWAYS_SUCCEED => GoesOn(d)
    BY <1>4, <2>1 DEF GoesOn
  <2>3. o.reach = ALWAYS_SUCCEED => Honest(o)
    BY ReachesDiffer DEF Honest
  <2> QED BY <1>3, <2>2, <2>3 DEF d
<1> QED BY <1>6, <1>7

LEMMA WrittenHonest ==
  ASSUME NEW c, Fits(c), GoesOn(c), c.node.type # "alternate",
         NEW b, Sound(b, Operand(c).onfail, Operand(c).n), Honest(b)
  PROVE  Honest(Written(c, b))
<1> DEFINE e == c.node
           n == c.n
           onfail == c.onfail
           a == c.out
           l == a.label + 1
<1>1. /\ e \in Expressions /\ n \in Nat /\ c.k \in Nat /\ onfail \in Onfails(n) /\ Sound(a, onfail, n)
      /\ onfail \in Labels /\ b.code \in Seq(Instructions) /\ b.reach \in Reaches
  BY DEF Fits, Calls, Sound, Piece
<1>2. \A x, f, g : generate_code(x, f, g).onfail = f /\ generate_code(x, f, g).n = g
  BY DEF generate_code
<1>3. CASE e.type = "sequence"
  <2>1. a.reach # ALWAYS_FAIL
    BY <1>3 DEF GoesOn
  <2>2. Operand(c) = generate_code(e.nodes[c.k + 1], onfail, a.label)
    BY <1>3 DEF Operand
  <2>3. Sound(b, onfail, a.label)
    BY <1>2, <2>2
  <2>4. Written(c, b) = EmitElement(a, b)
    BY <1>3 DEF Written
  <2> QED BY <1>1, <2>1, <2>3, <2>4, EmitElementHonest
<1>4. CASE e.type \in OperandTypes
  <2>1. l = n + 1 /\ l + 1 = n + 2
    <3>1. c.k = 0
      BY <1>4 DEF GoesOn, OperandTypes
    <3> QED BY <1>1, <1>4, <3>1 DEF Fits
  <2>2. CASE e.type = "quantity"
    <3>1. <<e.min, e.max>> \in {<<0, -1>>, <<1, -1>>, <<0, 1>>}
      BY <1>1, <2>2, ExpressionsAssumption
    <3>2. (e.min \in {0, 1} /\ e.max = -1) \/ (e.min = 0 /\ e.max = 1)
      BY <3>1
    <3>3. ~ Once(e)
      BY <3>2 DEF Once
    <3>4. Operand(c) = generate_code(e.expr, L(l), l)
      BY <2>2, <3>3 DEF Operand
    <3>5. Sound(b, L(n + 1), n + 1)
      BY <1>2, <2>1, <3>4
    <3>6. Written(c, b) = EmitQuantity(e, onfail, n, b)
      BY <2>2 DEF Written
    <3>7. CASE e.min \in {0, 1} /\ e.max = -1
      <4>1. Repeats(e)
        BY <3>7 DEF Repeats
      <4>2. Written(c, b) = EmitRepetition(e, onfail, n, b)
        BY <3>6, <4>1 DEF EmitQuantity
      <4> QED BY <1>1, <3>5, <3>7, <4>2, EmitRepetitionHonest
    <3>8. CASE e.min = 0 /\ e.max = 1
      <4>1. ~ Repeats(e)
        BY <3>8 DEF Repeats
      <4>2. Written(c, b) = EmitOption(e, onfail, n, b)
        BY <3>3, <3>6, <4>1 DEF EmitQuantity
      <4>3. EmitOption(e, onfail, n, b).reach = ALWAYS_SUCCEED
        BY DEF EmitOption, Out
      <4> QED BY <4>2, <4>3, ReachesDiffer DEF Honest
    <3> QED BY <3>2, <3>7, <3>8
  <2>3. CASE e.type = "predicate"
    <3>1. Written(c, b) = IF e.neg THEN EmitNot(e, onfail, n, b) ELSE EmitAnd(e, onfail, n, b)
      BY <2>3 DEF Written
    <3> QED BY <1>1, <3>1, EmitNotHonest, EmitAndHonest
  <2>4. CASE e.type = "capture"
    <3>1. Written(c, b) = EmitCapture(e, onfail, n, b)
      BY <2>4 DEF Written
    <3> QED BY <1>1, <3>1, EmitCaptureHonest
  <2>5. CASE e.type = "error"
    <3>1. Operand(c) = generate_code(e.expr, L(l), l + 1)
      BY <2>5 DEF Operand
    <3>2. Sound(b, L(n + 1), n + 2)
      BY <1>2, <2>1, <3>1
    <3>3. Written(c, b) = EmitError(e, onfail, n, b)
      BY <2>5 DEF Written
    <3> QED BY <1>1, <3>2, <3>3, EmitErrorHonest
  <2> QED BY <1>4, <2>2, <2>3, <2>4, <2>5 DEF OperandTypes
<1> QED BY <1>3, <1>4 DEF GoesOn, OperandTypes

(* A call that has something to return to its caller tells the truth; an    *)
(* alternate has not, while it goes on.                                     *)
Truthful(c) == (c.node.type = "alternate" /\ GoesOn(c)) \/ Honest(c.out)

LEMMA GenerateTruthful ==
  ASSUME NEW e \in Expressions, NEW n \in Nat, NEW onfail \in Onfails(n)
  PROVE  Truthful(generate_code(e, onfail, n))
<1> DEFINE c == generate_code(e, onfail, n)
           o == Opening(e, onfail, n)
<1>1. c.node = e /\ c.onfail = onfail /\ c.n = n /\ c.k = 0 /\ c.out = o /\ onfail \in Labels
  BY LabelsDiffer DEF generate_code, Onfails
<1>2. CASE e.type # "alternate"
  <2>1. Honest(o)
    BY <1>1, <1>2, OpeningHonest
  <2> HIDE DEF c, o
  <2>2. Truthful(c)
    BY <1>1, <2>1 DEF Truthful
  <2> QED BY <2>2 DEF c
<1>3. CASE e.type = "alternate"
  <2>1. o.reach = ALWAYS_FAIL
    BY <1>3, OutFields DEF Opening
  <2>2. Len(e.nodes) \in Nat /\ 0 < Len(e.nodes)
    BY <1>3, ExpressionsAssumption
  <2> HIDE DEF c, o
  <2>3. GoesOn(c)
    BY <1>1, <1>3, <2>1, <2>2, ReachesDiffer DEF GoesOn
  <2>4. Truthful(c)
    BY <1>1, <1>3, <2>3 DEF Truthful
  <2> QED BY <2>4 DEF c
<1> QED BY <1>2, <1>3

LEMMA ContinuedTruthful ==
  ASSUME NEW c, Fits(c), GoesOn(c), NEW b, Sound(b, Operand(c).onfail, Operand(c).n), Honest(b)
  PROVE  Truthful(Continued(c, b))
<1> DEFINE d == Continued(c, b)
<1>1. d.node = c.node /\ d.out = Written(c, b)
  BY DEF Continued
<1>2. (c.node.type = "alternate" /\ GoesOn(d)) \/ Honest(Written(c, b))
  BY AlternateHonest, WrittenHonest
<1> HIDE DEF d
<1>3. Truthful(d)
  BY <1>1, <1>2 DEF Truthful
<1> QED BY <1>3 DEF d

HonestlyGenerating ==
  /\ Generating
  /\ \A i \in 1 .. Len(calls) : Truthful(calls[i])
  /\ calls = <<>> => Honest(rule)

LEMMA InitHonest == Init => HonestlyGenerating
<1> SUFFICES ASSUME Init PROVE HonestlyGenerating
  OBVIOUS
<1>1. PICK e \in Expressions : calls = <<generate_code(e, L(0), 0)>>
  BY DEF Init
<1> DEFINE c == generate_code(e, L(0), 0)
<1>2. Truthful(c)
  <2>1. L(0) \in Onfails(0)
    BY DEF Onfails
  <2> QED BY <2>1, GenerateTruthful
<1> HIDE DEF c
<1>3. Len(calls) = 1 /\ calls[1] = c /\ calls # <<>>
  BY <1>1 DEF c
<1> QED BY <1>2, <1>3, InitGenerating DEF HonestlyGenerating

LEMMA DescendHonest == HonestlyGenerating /\ Descend => HonestlyGenerating'
<1> SUFFICES ASSUME HonestlyGenerating, Descend PROVE HonestlyGenerating'
  OBVIOUS
<1> DEFINE n == Len(calls)
           c == calls[n]
           d == Operand(c)
<1>1. /\ Generating /\ calls \in Seq(Calls) /\ n \in Nat /\ n > 0 /\ GoesOn(c) /\ Fits(c)
      /\ Generating'
  BY DescendGenerating DEF HonestlyGenerating, Generating, Descend, Innermost
<1>2. Truthful(d)
  BY <1>1, OperandCall, GenerateTruthful
<1>3. calls' = Append(calls, d) /\ calls' \in Seq(Calls)
  BY <1>1 DEF Descend, Innermost, Generating
<1> HIDE DEF d
<1>4. /\ Len(calls') = n + 1 /\ calls'[n + 1] = d /\ \A i \in 1 .. n : calls'[i] = calls[i]
  BY <1>1, <1>3
<1>5. calls' # <<>>
  BY <1>1, <1>4
<1>6. \A i \in 1 .. n + 1 : Truthful(calls'[i])
  BY <1>1, <1>2, <1>4 DEF HonestlyGenerating
<1> QED BY <1>1, <1>4, <1>5, <1>6 DEF HonestlyGenerating

LEMMA ReturnHonest == HonestlyGenerating /\ Return => HonestlyGenerating'
<1> SUFFICES ASSUME HonestlyGenerating, Return PROVE HonestlyGenerating'
  OBVIOUS
<1> DEFINE n == Len(calls)
           m == n - 1
           c == calls[m]
           b == calls[n]
           d == Continued(c, b.out)
<1>1. /\ Generating /\ calls \in Seq(Calls) /\ n \in Nat /\ n > 1 /\ m \in Nat /\ m >= 1 /\ m + 1 = n
      /\ ~ GoesOn(b) /\ Fits(b) /\ Truthful(b) /\ Fits(c) /\ GoesOn(c)
      /\ b.onfail = Operand(c).onfail /\ b.n = Operand(c).n
      /\ Generating'
  BY ReturnGenerating DEF HonestlyGenerating, Generating, Return, Innermost
<1>2. Sound(b.out, Operand(c).onfail, Operand(c).n) /\ Honest(b.out)
  BY <1>1 DEF Fits, Truthful
<1>3. Truthful(d)
  BY <1>1, <1>2, ContinuedTruthful
<1>4. calls' = Append(SubSeq(calls, 1, m - 1), d)
  BY DEF Return, Innermost
<1> HIDE DEF d, m, n
<1>5. Len(calls') = m /\ calls'[m] = d /\ \A i \in 1 .. m - 1 : calls'[i] = calls[i]
  <2> DEFINE s == SubSeq(calls, 1, m - 1)
  <2>1. s \in Seq(Calls) /\ Len(s) = m - 1 /\ \A i \in 1 .. m - 1 : s[i] = calls[i]
    BY <1>1 DEF n, m
  <2> HIDE DEF s
  <2>2. calls' = Append(s, d)
    BY <1>4 DEF s
  <2>3. calls' \in Seq(Calls)
    BY <1>1 DEF Generating
  <2>4. /\ Len(calls') = Len(s) + 1 /\ calls'[Len(s) + 1] = d
        /\ \A i \in 1 .. Len(s) : calls'[i] = s[i]
    BY <2>1, <2>2
  <2>5. Len(s) + 1 = m
    BY <1>1, <2>1
  <2> QED BY <2>1, <2>4, <2>5
<1>6. calls' # <<>>
  BY <1>1, <1>5
<1>7. \A i \in 1 .. m : Truthful(calls'[i])
  BY <1>1, <1>3, <1>5 DEF HonestlyGenerating, n
<1> QED BY <1>1, <1>5, <1>6, <1>7 DEF HonestlyGenerating

LEMMA FinishHonest == HonestlyGenerating /\ Finish => HonestlyGenerating'
<1> SUFFICES ASSUME HonestlyGenerating, Finish PROVE HonestlyGenerating'
  OBVIOUS
<1>1. /\ Generating' /\ Truthful(calls[1]) /\ ~ GoesOn(calls[1])
      /\ rule' = calls[1].out /\ calls' = <<>>
  BY FinishGenerating DEF HonestlyGenerating, Generating, Finish, Innermost
<1>2. Honest(rule')
  BY <1>1 DEF Truthful
<1>3. \A i \in 1 .. Len(calls') : FALSE
  BY <1>1
<1> QED BY <1>1, <1>2, <1>3 DEF HonestlyGenerating

(* Control never comes to the end of code that generate_code says always    *)
(* fails: what the callers leave out behind it is not missed.               *)
THEOREM GeneratorReachHonest == Spec => []ReachHonest
<1>1. HonestlyGenerating /\ [Next]_gvars => HonestlyGenerating'
  <2> SUFFICES ASSUME HonestlyGenerating, [Next]_gvars PROVE HonestlyGenerating'
    OBVIOUS
  <2>1. CASE UNCHANGED gvars
    BY <2>1 DEF HonestlyGenerating, Generating, gvars
  <2> QED BY <2>1, DescendHonest, ReturnHonest, FinishHonest DEF Next
<1>2. HonestlyGenerating => ReachHonest
  <2> SUFFICES ASSUME HonestlyGenerating, Done, rule.reach = ALWAYS_FAIL
               PROVE  Len(rule.code) + 1 \notin ReachedFromStart(rule.code, {})
    BY DEF ReachHonest
  <2>1. Sound(rule, L(0), 0) /\ Trapped(rule.code)
    BY DEF HonestlyGenerating, Generating, Done, Honest
  <2>2. rule.code \in Seq(Instructions)
    BY <2>1 DEF Sound, Piece
  <2> QED BY <2>1, <2>2, TrappedNotReached
<1> QED BY <1>1, <1>2, InitHonest, PTL DEF Spec
=============================================================================
