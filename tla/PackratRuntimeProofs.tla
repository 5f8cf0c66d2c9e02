------------------------ MODULE PackratRuntimeProofs ------------------------
(***************************************************************************)
(* Proofs about PackratRuntime, for every grammar, every input and every   *)
(* depth: the safety invariants that MCPackratRuntime checks on a small    *)
(* instance.                                                               *)
(***************************************************************************)
EXTENDS PackratRuntime, SequenceTheorems, TLAPS

-----------------------------------------------------------------------------
(* Sequences: pushing and popping.                                         *)

(* What Append leaves in a sequence.                                        *)
LEMMA Pushed ==
  ASSUME NEW S, NEW q \in Seq(S), NEW e \in S
  PROVE  /\ Append(q, e) \in Seq(S)
         /\ Len(Append(q, e)) = Len(q) + 1
         /\ \A i \in 1 .. Len(q) : Append(q, e)[i] = q[i]
         /\ Append(q, e)[Len(q) + 1] = e
  OBVIOUS

(* What a pop leaves in a sequence that is not empty.                       *)
LEMMA Popped ==
  ASSUME NEW S, NEW q \in Seq(S), Len(q) > 0
  PROVE  /\ SubSeq(q, 1, Len(q) - 1) \in Seq(S)
         /\ Len(SubSeq(q, 1, Len(q) - 1)) = Len(q) - 1
         /\ \A i \in 1 .. Len(q) - 1 : SubSeq(q, 1, Len(q) - 1)[i] = q[i]
<1>1. Len(q) \in Nat /\ \A i \in 1 .. Len(q) - 1 : q[i] \in S
  OBVIOUS
<1> DEFINE n == Len(q) - 1
<1>2. n \in Int /\ 1 \in Int /\ \A i \in 1 .. n : q[i] \in S
  BY <1>1
<1> HIDE DEF n
<1>3. /\ SubSeq(q, 1, n) \in Seq(S)
      /\ Len(SubSeq(q, 1, n)) = IF 1 <= n THEN n - 1 + 1 ELSE 0
      /\ \A i \in 1 .. n - 1 + 1 : SubSeq(q, 1, n)[i] = q[1 + i - 1]
  BY <1>2, SubSeqProperties
<1>4. n = Len(q) - 1
  BY DEF n
<1> QED BY <1>1, <1>3, <1>4

-----------------------------------------------------------------------------
(* The LR stack against the active calls.                                  *)

Bracketed(stack, calls) ==
  \E m \in [1 .. Len(stack) -> 1 .. Len(calls)] : Brackets(m, stack, calls)

Entry(f) == [at |-> f.at, rule |-> f.rule]

(* A first evaluation pushes its entry.                                     *)
LEMMA BracketsPush ==
  ASSUME NEW stack \in Seq(LrEntry), NEW calls \in Seq(Frame), NEW f \in Frame,
         Bracketed(stack, calls), f.mode = "seed"
  PROVE  Bracketed(Append(stack, Entry(f)), Append(calls, f))
<1> DEFINE S == Append(stack, Entry(f))
           C == Append(calls, f)
<1>1. PICK m \in [1 .. Len(stack) -> 1 .. Len(calls)] : Brackets(m, stack, calls)
  BY DEF Bracketed
<1>2. Entry(f) \in LrEntry
  BY DEF Entry, LrEntry, Frame
<1>3. /\ Len(S) = Len(stack) + 1 /\ S[Len(stack) + 1] = Entry(f)
      /\ \A i \in 1 .. Len(stack) : S[i] = stack[i]
  BY <1>2, Pushed
<1>4. /\ Len(C) = Len(calls) + 1 /\ C[Len(calls) + 1] = f
      /\ \A i \in 1 .. Len(calls) : C[i] = calls[i]
  BY Pushed
<1>5. Len(stack) \in Nat /\ Len(calls) \in Nat
  OBVIOUS
<1> HIDE DEF S, C
<1> DEFINE n == [j \in 1 .. Len(S) |-> IF j = Len(S) THEN Len(C) ELSE m[j]]
<1>6. n \in [1 .. Len(S) -> 1 .. Len(C)]
  BY <1>3, <1>4, <1>5
<1>7. /\ n[Len(stack) + 1] = Len(calls) + 1
      /\ \A j \in 1 .. Len(stack) : n[j] = m[j] /\ m[j] \in 1 .. Len(calls)
  <2>1. Len(stack) + 1 \in 1 .. Len(S) /\ 1 .. Len(stack) \subseteq 1 .. Len(S)
    BY ONLY <1>3, <1>5
  <2>2. \A j \in 1 .. Len(stack) : j # Len(S)
    BY ONLY <1>3, <1>5
  <2> QED BY <2>1, <2>2, <1>3, <1>4
<1> HIDE DEF n
<1>8. Brackets(n, S, C)
  <2>1. ASSUME NEW i \in 1 .. Len(S), NEW j \in 1 .. Len(S), i < j
        PROVE  n[i] < n[j]
    <3>1. i \in 1 .. Len(stack)
      BY <2>1, <1>3, <1>5
    <3>2. CASE j = Len(stack) + 1
      BY <3>1, <3>2, <1>7, <1>5
    <3>3. CASE j \in 1 .. Len(stack)
      BY <2>1, <3>1, <3>3, <1>1, <1>7 DEF Brackets
    <3> QED BY <3>2, <3>3, <1>3, <1>5
  <2>2. ASSUME NEW j \in 1 .. Len(S)
        PROVE  C[n[j]].mode = "seed" /\ S[j] = [at |-> C[n[j]].at, rule |-> C[n[j]].rule]
    <3>1. CASE j = Len(stack) + 1
      BY <3>1, <1>3, <1>4, <1>7, f.mode = "seed" DEF Entry
    <3>2. CASE j \in 1 .. Len(stack)
      <4>1. C[n[j]] = calls[m[j]] /\ S[j] = stack[j]
        BY <3>2, <1>3, <1>4, <1>7
      <4> QED BY <3>2, <4>1, <1>1 DEF Brackets
    <3> QED BY <3>1, <3>2, <1>3, <1>5
  <2>3. ASSUME NEW k \in 1 .. Len(C), C[k].mode = "seed"
        PROVE  \E j \in 1 .. Len(S) : n[j] = k
    <3>1. CASE k = Len(C)
      BY <3>1, <1>3, <1>4, <1>5, <1>7
    <3>2. CASE k # Len(C)
      <4>1. k \in 1 .. Len(calls) /\ calls[k].mode = "seed"
        BY <3>2, <2>3, <1>4, <1>5
      <4>2. PICK j \in 1 .. Len(stack) : m[j] = k
        BY <4>1, <1>1 DEF Brackets
      <4>3. j \in 1 .. Len(S) /\ n[j] = k
        BY <4>2, <1>3, <1>5, <1>7
      <4> QED BY <4>3
    <3> QED BY <3>1, <3>2
  <2> QED BY <2>1, <2>2, <2>3 DEF Brackets
<1> QED BY <1>6, <1>8 DEF Bracketed, S, C

(* The first evaluations of one list of calls are those of another.         *)
SameSeed(f, g) == g.mode = "seed" /\ g.at = f.at /\ g.rule = f.rule
SameSeeds(K, calls, other) ==
  /\ \A k \in K : calls[k].mode = "seed" =>
       k \in 1 .. Len(other) /\ SameSeed(calls[k], other[k])
  /\ \A k \in 1 .. Len(other) : other[k].mode = "seed" => k \in K /\ calls[k].mode = "seed"

(* What happens to other calls leaves the stack as it should be.            *)
LEMMA BracketsKeep ==
  ASSUME NEW stack \in Seq(LrEntry), NEW calls \in Seq(Frame), NEW other \in Seq(Frame),
         Bracketed(stack, calls), SameSeeds(1 .. Len(calls), calls, other)
  PROVE  Bracketed(stack, other)
<1>1. PICK m \in [1 .. Len(stack) -> 1 .. Len(calls)] : Brackets(m, stack, calls)
  BY DEF Bracketed
<1>2. ASSUME NEW j \in 1 .. Len(stack)
      PROVE  /\ m[j] \in 1 .. Len(other)
             /\ SameSeed(calls[m[j]], other[m[j]])
  BY <1>1 DEF Brackets, SameSeeds
<1>3. m \in [1 .. Len(stack) -> 1 .. Len(other)]
  BY <1>2
<1>4. Brackets(m, stack, other)
  <2>1. \A i, j \in 1 .. Len(stack) : i < j => m[i] < m[j]
    BY <1>1 DEF Brackets
  <2>2. ASSUME NEW j \in 1 .. Len(stack)
        PROVE  /\ other[m[j]].mode = "seed"
               /\ stack[j] = [at |-> other[m[j]].at, rule |-> other[m[j]].rule]
    BY <1>1, <1>2 DEF Brackets, SameSeed
  <2>3. ASSUME NEW k \in 1 .. Len(other), other[k].mode = "seed"
        PROVE  \E j \in 1 .. Len(stack) : m[j] = k
    BY <1>1, <2>3 DEF Brackets, SameSeeds
  <2> QED BY <2>1, <2>2, <2>3 DEF Brackets
<1> QED BY <1>3, <1>4 DEF Bracketed

(* When the top call ends its first evaluation, the entry on top of the     *)
(* stack is its own, and popping it is right.                               *)
LEMMA BracketsPop ==
  ASSUME NEW stack \in Seq(LrEntry), NEW calls \in Seq(Frame), NEW other \in Seq(Frame),
         Bracketed(stack, calls), Len(calls) > 0, calls[Len(calls)].mode = "seed",
         SameSeeds(1 .. Len(calls) - 1, calls, other)
  PROVE  /\ Len(stack) > 0
         /\ Bracketed(SubSeq(stack, 1, Len(stack) - 1), other)
<1>1. PICK m \in [1 .. Len(stack) -> 1 .. Len(calls)] : Brackets(m, stack, calls)
  BY DEF Bracketed
<1>2. Len(stack) \in Nat /\ Len(calls) \in Nat
  OBVIOUS
<1>3. PICK t \in 1 .. Len(stack) : m[t] = Len(calls)
  BY <1>1, <1>2 DEF Brackets
<1>4. t = Len(stack)
  <2>1. ASSUME t < Len(stack) PROVE FALSE
    <3>1. m[t] < m[Len(stack)] /\ m[Len(stack)] \in 1 .. Len(calls)
      BY <2>1, <1>1, <1>2 DEF Brackets
    <3> QED BY <3>1, <1>3, <1>2
  <2> QED BY <2>1, <1>2
<1> DEFINE S == SubSeq(stack, 1, Len(stack) - 1)
<1>5. /\ Len(stack) > 0
      /\ Len(S) \in Nat /\ Len(S) = Len(stack) - 1
      /\ \A i \in 1 .. Len(stack) - 1 : S[i] = stack[i]
  BY <1>2, <1>3, Popped
<1>a. 1 .. Len(S) = 1 .. Len(stack) - 1
  BY <1>5
<1> HIDE DEF S
<1>6. ASSUME NEW j \in 1 .. Len(S)
      PROVE  /\ j \in 1 .. Len(stack) /\ S[j] = stack[j]
             /\ m[j] \in 1 .. Len(other)
             /\ SameSeed(calls[m[j]], other[m[j]])
  <2>1. j \in 1 .. Len(stack) /\ j < Len(stack) /\ S[j] = stack[j]
    BY <1>2, <1>5, <1>a
  <2>2. m[j] < Len(calls)
    BY <2>1, <1>1, <1>3, <1>4 DEF Brackets
  <2>3. m[j] \in 1 .. Len(calls)
    BY <2>1
  <2>4. m[j] \in 1 .. Len(calls) - 1
    BY <2>2, <2>3, <1>2
  <2>5. calls[m[j]].mode = "seed"
    BY <2>1, <1>1 DEF Brackets
  <2> QED BY <2>1, <2>4, <2>5 DEF SameSeeds
<1> DEFINE n == [j \in 1 .. Len(S) |-> m[j]]
<1>7. n \in [1 .. Len(S) -> 1 .. Len(other)] /\ \A j \in 1 .. Len(S) : n[j] = m[j]
  BY <1>6
<1> HIDE DEF n
<1>8. Brackets(n, S, other)
  <2>1. \A i, j \in 1 .. Len(S) : i < j => n[i] < n[j]
    BY <1>1, <1>6, <1>7 DEF Brackets
  <2>2. ASSUME NEW j \in 1 .. Len(S)
        PROVE  /\ other[n[j]].mode = "seed"
               /\ S[j] = [at |-> other[n[j]].at, rule |-> other[n[j]].rule]
    <3>1. SameSeed(calls[m[j]], other[m[j]]) /\ n[j] = m[j]
      BY <1>6, <1>7
    <3>2. S[j] = [at |-> calls[m[j]].at, rule |-> calls[m[j]].rule]
      BY <1>1, <1>6 DEF Brackets
    <3> QED BY <3>1, <3>2 DEF SameSeed
  <2>3. ASSUME NEW k \in 1 .. Len(other), other[k].mode = "seed"
        PROVE  \E j \in 1 .. Len(S) : n[j] = k
    <3>1. k \in 1 .. Len(calls) /\ k < Len(calls) /\ calls[k].mode = "seed"
      BY <2>3, <1>2 DEF SameSeeds
    <3>2. PICK j \in 1 .. Len(stack) : m[j] = k
      BY <3>1, <1>1 DEF Brackets
    <3>3. j # Len(stack)
      BY <3>1, <3>2, <1>3, <1>4
    <3>4. j \in 1 .. Len(S) /\ n[j] = k
      BY <3>2, <3>3, <1>2, <1>5, <1>7, <1>a
    <3> QED BY <3>4
  <2> QED BY <2>1, <2>2, <2>3 DEF Brackets
<1> QED BY <1>5, <1>7, <1>8 DEF Bracketed, S

-----------------------------------------------------------------------------
(* The inductive invariant.  Its parts are stated of a memo table m, head   *)
(* objects hs, the position p of the buffer and the current place, so that  *)
(* the lemmas can speak of the state before a step and of that after it.    *)

(* h is none, or a live head that belongs to index i or to a later one.     *)
HeadFrom(hs, h, i)  == h # None => h.at \in Index /\ i <= h.at /\ hs[h.at][h.rule] # None

(* c is none, or a chunk kept at index i that points to live chunks only.   *)
RefsFrom(S, i)      == \A j \in S : j \in Index /\ i <= j
ChunkFrom(c, i)     == c # None => c.at = i /\ RefsFrom(c.refs, i)

(* a may be the answer at index i while end is the end of the buffer.       *)
SlotOK(hs, a, i, end) ==
  a # None => /\ i <= a.pos /\ a.pos <= end
              /\ HeadFrom(hs, a.head, i)
              /\ ChunkFrom(a.chunk, i)

Slots(m, hs, hd, end) ==
  \A i \in Index : /\ HeadFrom(hs, hd[i], i)
                   /\ \A r \in Rules : SlotOK(hs, m[i][r], i, end)

(* What an active call f may rely on.                                       *)
Occupies(f) == f.mode \in {"seed", "grow"}
HasAnswer(m, f) ==
  LET a == m[f.at][f.rule] IN
  /\ Occupies(f) => a # None
  /\ f.mode = "seed" => a.type = "LR" /\ a.chunk = None
  /\ f.mode = "grow" => a.type = "CHUNK" /\ a.chunk # None
CallOK(m, hs, f, p, here) ==
  /\ p <= f.at /\ f.at <= here
  /\ RefsFrom(f.refs, f.at)
  /\ HasAnswer(m, f)
  /\ f.mode = "grow" => f.head # None
  /\ HeadFrom(hs, f.head, f.at)

(* Calls nest forwards, and no two of them own the same answer.             *)
Nested(calls) ==
  \A j, k \in 1 .. Len(calls) : j < k =>
    /\ calls[j].at <= calls[k].at
    /\ Occupies(calls[j]) /\ Occupies(calls[k]) => Entry(calls[j]) # Entry(calls[k])
Calls(m, hs, calls, p, here) ==
  /\ \A k \in 1 .. Len(calls) : CallOK(m, hs, calls[k], p, here)
  /\ Nested(calls)

(* The calls whose heads are installed.                                     *)
Scoped(hd, calls) ==
  \A i \in Index : hd[i] # None =>
    \E k \in 1 .. Len(calls) : calls[k].mode = "grow" /\ calls[k].at = i

(* c may be returned to the calls that are left.                            *)
AnswerOK(c, calls) ==
  c # None => /\ c.at \in Index /\ RefsFrom(c.refs, c.at)
              /\ calls # <<>> => calls[Len(calls)].at <= c.at

Control ==
  /\ ctl \in {"idle", "exit"} => frames = <<>>
  /\ ctl = "body" => frames # <<>>
  /\ ctl # "ret" => ans = None

IInv ==
  /\ TypeOK
  /\ cur <= buf /\ pos + buf <= inlen
  /\ Control
  /\ Slots(memo, heads, head, pos + buf)
  /\ Calls(memo, heads, frames, pos, Here)
  /\ Scoped(head, frames)
  /\ AnswerOK(ans, frames)
  /\ Bracketed(lrstack, frames)

-----------------------------------------------------------------------------
(* What one store changes, and what survives it.                           *)

Table(D) == [Index -> [Rules -> D]]
Memos    == Table(Answer \cup {None})
Objects  == Table(LrHead \cup {None})

Put(m, i, r, d) == [m EXCEPT ![i][r] = d]

(* Storing in a table.                                                      *)
LEMMA Stored ==
  ASSUME NEW D, NEW m \in Table(D), NEW i \in Index, NEW r \in Rules, NEW d \in D
  PROVE  /\ Put(m, i, r, d) \in Table(D)
         /\ Put(m, i, r, d)[i][r] = d
         /\ \A j \in Index, q \in Rules :
              j # i \/ q # r => Put(m, i, r, d)[j][q] = m[j][q]
  BY DEF Table, Put

(* No head object is dropped.                                               *)
HeadsStay(hs, gs) == \A i \in Index, r \in Rules : hs[i][r] # None => gs[i][r] # None

(* A head that is live stays so.                                            *)
LEMMA HeadFromStays ==
  ASSUME NEW hs, NEW gs, HeadsStay(hs, gs), NEW h \in HeadId \cup {None}, NEW i, HeadFrom(hs, h, i)
  PROVE  HeadFrom(gs, h, i)
  BY DEF HeadsStay, HeadFrom, HeadId

(* An answer stays right when the buffer grows and no head is dropped.      *)
LEMMA SlotStays ==
  ASSUME NEW hs, NEW gs, HeadsStay(hs, gs), NEW a \in Answer \cup {None},
         NEW i, NEW m \in Int, NEW n \in Int, m <= n, SlotOK(hs, a, i, m)
  PROVE  SlotOK(gs, a, i, n)
<1> SUFFICES ASSUME a # None PROVE SlotOK(gs, a, i, n)
  BY DEF SlotOK
<1>1. a.head \in HeadId \cup {None} /\ a.pos \in Int
  BY DEF Answer, Index
<1>2. HeadFrom(gs, a.head, i)
  BY <1>1, HeadFromStays DEF SlotOK
<1> QED BY <1>1, <1>2 DEF SlotOK

(* A call stays right when its own answer keeps its kind.                   *)
SameKind(m, n, f) ==
  LET a == m[f.at][f.rule]
      b == n[f.at][f.rule]
  IN a # None => b # None /\ b.type = a.type /\ b.chunk = a.chunk

(* Such a call may rely on what it relied on.                               *)
LEMMA CallStays ==
  ASSUME NEW m, NEW n, NEW hs, NEW gs, HeadsStay(hs, gs), NEW f \in Frame,
         NEW p, NEW x, NEW y, CallOK(m, hs, f, p, x), f.at <= y,
         Occupies(f) => SameKind(m, n, f)
  PROVE  CallOK(n, gs, f, p, y)
<1>1. f.head \in HeadId \cup {None}
  BY DEF Frame
<1>2. HeadFrom(gs, f.head, f.at)
  BY <1>1, HeadFromStays DEF CallOK
<1>3. HasAnswer(n, f)
  BY DEF CallOK, HasAnswer, SameKind, Occupies
<1> QED BY <1>2, <1>3 DEF CallOK

(* Calls after a push.                                                      *)
LEMMA CallsPush ==
  ASSUME NEW m, NEW hs, NEW calls \in Seq(Frame), NEW p, NEW x, NEW f \in Frame,
         \A k \in 1 .. Len(calls) : CallOK(m, hs, calls[k], p, x),
         Nested(calls), CallOK(m, hs, f, p, x),
         \A k \in 1 .. Len(calls) :
           /\ calls[k].at <= f.at
           /\ Occupies(calls[k]) /\ Occupies(f) => Entry(calls[k]) # Entry(f)
  PROVE  Calls(m, hs, Append(calls, f), p, x)
<1> DEFINE C == Append(calls, f)
<1>1. /\ Len(calls) \in Nat /\ Len(C) = Len(calls) + 1 /\ C[Len(calls) + 1] = f
      /\ \A k \in 1 .. Len(calls) : C[k] = calls[k]
  BY Pushed
<1> HIDE DEF C
<1>2. ASSUME NEW k \in 1 .. Len(C) PROVE k \in 1 .. Len(calls) \/ k = Len(calls) + 1
  BY <1>1
<1>3. ASSUME NEW k \in 1 .. Len(C) PROVE CallOK(m, hs, C[k], p, x)
  BY <1>1, <1>2
<1>4. ASSUME NEW j \in 1 .. Len(C), NEW k \in 1 .. Len(C), j < k
      PROVE  /\ C[j].at <= C[k].at
             /\ Occupies(C[j]) /\ Occupies(C[k]) => Entry(C[j]) # Entry(C[k])
  <2>1. j \in 1 .. Len(calls) /\ C[j] = calls[j]
    BY <1>1, <1>4
  <2>2. CASE k \in 1 .. Len(calls)
    <3>1. C[k] = calls[k]
      BY <2>2, <1>1
    <3> QED BY <2>1, <2>2, <3>1, <1>4 DEF Nested
  <2>3. CASE k = Len(calls) + 1
    <3>1. C[k] = f
      BY <2>3, <1>1
    <3> QED BY <2>1, <3>1
  <2> QED BY <2>2, <2>3, <1>2
<1>5. Nested(C)
  BY <1>4 DEF Nested
<1> QED BY <1>3, <1>5 DEF Calls, C

(* Calls after a pop.                                                       *)
LEMMA CallsPop ==
  ASSUME NEW m, NEW hs, NEW calls \in Seq(Frame), Len(calls) > 0, NEW p, NEW x,
         \A k \in 1 .. Len(calls) - 1 : CallOK(m, hs, calls[k], p, x),
         Nested(calls)
  PROVE  Calls(m, hs, SubSeq(calls, 1, Len(calls) - 1), p, x)
<1> DEFINE C == SubSeq(calls, 1, Len(calls) - 1)
<1>1. /\ Len(calls) \in Nat /\ Len(C) = Len(calls) - 1
      /\ \A k \in 1 .. Len(calls) - 1 : C[k] = calls[k]
  BY Popped
<1>2. 1 .. Len(C) = 1 .. Len(calls) - 1 /\ 1 .. Len(calls) - 1 \subseteq 1 .. Len(calls)
  BY <1>1
<1> HIDE DEF C
<1>3. \A k \in 1 .. Len(C) : CallOK(m, hs, C[k], p, x)
  BY <1>1, <1>2
<1>4. Nested(C)
  BY <1>1, <1>2 DEF Nested
<1> QED BY <1>3, <1>4 DEF Calls, C

(* Storing a head object.                                                   *)
LEMMA HeadStored ==
  ASSUME NEW hs \in Objects, NEW i \in Index, NEW r \in Rules, NEW d \in LrHead
  PROVE  /\ Put(hs, i, r, d) \in Objects
         /\ HeadsStay(hs, Put(hs, i, r, d))
         /\ Put(hs, i, r, d)[i][r] # None
<1>1. d # None /\ d \in LrHead \cup {None}
  BY NoneAssumption
<1>2. /\ Put(hs, i, r, d) \in Objects
      /\ Put(hs, i, r, d)[i][r] = d
      /\ \A j \in Index, q \in Rules :
           j # i \/ q # r => Put(hs, i, r, d)[j][q] = hs[j][q]
  BY <1>1, Stored DEF Objects
<1> QED BY <1>1, <1>2 DEF HeadsStay

(* Heads stay in scope when no growing call ends.                           *)
LEMMA ScopedStays ==
  ASSUME NEW hd, NEW calls, NEW other, Scoped(hd, calls),
         \A k \in 1 .. Len(calls) : calls[k].mode = "grow" =>
           k \in 1 .. Len(other) /\ other[k].mode = "grow" /\ other[k].at = calls[k].at
  PROVE  Scoped(hd, other)
  BY DEF Scoped

(* The places a state speaks of.                                            *)
LEMMA Places ==
  ASSUME IInv
  PROVE  /\ MaxInput \in Nat /\ inlen \in 0 .. MaxInput
         /\ pos \in Nat /\ cur \in Nat /\ buf \in Nat
         /\ cur <= buf /\ pos + buf <= inlen
         /\ Here \in Index /\ Here \in Nat /\ pos <= Here /\ Here <= pos + buf
  BY BoundsAssumption DEF IInv, TypeOK, Here, Index

(* Every active call, wherever the state before the step is used.           *)
LEMMA EachCall ==
  ASSUME IInv, NEW k \in 1 .. Len(frames)
  PROVE  /\ frames[k] \in Frame /\ CallOK(memo, heads, frames[k], pos, Here)
         /\ frames[k].at \in Index /\ frames[k].rule \in Rules
         /\ frames[k].at \in Nat /\ frames[k].at <= Here
<1>1. frames[k] \in Frame /\ CallOK(memo, heads, frames[k], pos, Here)
  BY DEF IInv, TypeOK, Calls
<1>2. frames[k].at <= Here
  BY <1>1 DEF CallOK
<1> QED BY <1>1, <1>2, BoundsAssumption DEF Frame, Index

(* The call on top of the stack of calls.                                   *)
LEMMA TopCall ==
  ASSUME IInv, frames # <<>>
  PROVE  /\ Len(frames) \in Nat /\ Len(frames) > 0 /\ Len(frames) \in 1 .. Len(frames)
         /\ Top \in Frame /\ Top = frames[Len(frames)]
         /\ CallOK(memo, heads, Top, pos, Here)
         /\ \A k \in 1 .. Len(frames) : frames[k] \in Frame /\ frames[k].at <= Top.at
<1>1. frames \in Seq(Frame) /\ Len(frames) \in Nat /\ Len(frames) > 0
  BY DEF IInv, TypeOK
<1>2. Len(frames) \in 1 .. Len(frames) /\ \A k \in 1 .. Len(frames) : frames[k] \in Frame
  BY <1>1
<1>3. Nested(frames) /\ CallOK(memo, heads, Top, pos, Here)
  BY <1>2 DEF IInv, Calls, Top
<1>4. ASSUME NEW k \in 1 .. Len(frames) PROVE frames[k].at <= Top.at
  <2>1. CASE k = Len(frames)
    BY <2>1, <1>2 DEF Top, Frame, Index
  <2>2. CASE k < Len(frames)
    BY <2>2, <1>2, <1>3 DEF Nested, Top
  <2> QED BY <2>1, <2>2, <1>1
<1> QED BY <1>1, <1>2, <1>3, <1>4 DEF Top

(* Every answer and installed head, when no head is dropped and the buffer  *)
(* does not shrink.                                                         *)
LEMMA SlotsStay ==
  ASSUME IInv, HeadsStay(heads, heads'), (pos + buf)' \in Int, pos + buf <= (pos + buf)'
  PROVE  Slots(memo, heads', head, (pos + buf)')
<1>1. ASSUME NEW i \in Index PROVE HeadFrom(heads', head[i], i)
  <2>1. head[i] \in HeadId \cup {None} /\ HeadFrom(heads, head[i], i)
    BY DEF IInv, TypeOK, Slots
  <2> QED BY <2>1, HeadFromStays
<1>2. ASSUME NEW i \in Index, NEW r \in Rules PROVE SlotOK(heads', memo[i][r], i, (pos + buf)')
  <2>1. memo[i][r] \in Answer \cup {None} /\ SlotOK(heads, memo[i][r], i, pos + buf)
    BY DEF IInv, TypeOK, Slots
  <2>2. pos + buf \in Int
    BY Places
  <2> QED BY <2>1, <2>2, SlotStays
<1> QED BY <1>1, <1>2 DEF Slots

-----------------------------------------------------------------------------
(* The steps of pcc_apply_rule before rule(ctx).                           *)

(* A rule that is not tried while a seed grows leaves all but the result.   *)
LEMMA ApplyBlockedStep ==
  ASSUME IInv, NEW r \in Rules, ApplyBlocked(r)
  PROVE  IInv'
<1> USE DEF ApplyBlocked, Answering, tvars
<1>1. TypeOK'
  BY DEF IInv, TypeOK
<1>2. Control' /\ AnswerOK(ans, frames)'
  BY DEF Control, AnswerOK
<1>3. Here' = Here
  BY DEF Here
<1> QED BY <1>1, <1>2, <1>3 DEF IInv

(* A recalled result moves the position to where the result ends.           *)
LEMMA RecallChunkStep ==
  ASSUME IInv, NEW r \in Rules, RecallChunk(r)
  PROVE  IInv'
<1> DEFINE a == memo[Here][r]
<1> USE DEF RecallChunk, Answering, tvars
<1>1. /\ a \in Answer /\ SlotOK(heads, a, Here, pos + buf)
      /\ a.pos \in Nat /\ Here <= a.pos /\ a.pos <= pos + buf
      /\ a.chunk \in Chunk \cup {None} /\ ChunkFrom(a.chunk, Here)
  <2>1. a \in Answer
    BY Places DEF IInv, TypeOK
  <2>2. SlotOK(heads, a, Here, pos + buf)
    BY Places DEF IInv, Slots
  <2> QED BY <2>1, <2>2, Places DEF SlotOK, Answer, Index
<1>2. cur' = a.pos - pos /\ ans' = a.chunk /\ Here' = a.pos
  BY <1>1, Places DEF Here
<1>3. cur' \in Index /\ cur' <= buf'
  BY <1>1, <1>2, Places DEF Index
<1>4. TypeOK'
  BY <1>1, <1>2, <1>3 DEF IInv, TypeOK
<1>5. Control'
  BY DEF Control, IInv
<1>6. Calls(memo, heads, frames, pos, Here)'
  <2>1. ASSUME NEW k \in 1 .. Len(frames) PROVE CallOK(memo, heads, frames[k], pos, Here')
    <3>1. frames[k] \in Frame /\ CallOK(memo, heads, frames[k], pos, Here)
      BY DEF IInv, TypeOK, Calls
    <3>2. frames[k].at <= Here'
      BY <3>1, <1>1, <1>2, Places DEF CallOK, Frame, Index
    <3> QED BY <3>1, <3>2 DEF CallOK
  <2> QED BY <2>1 DEF Calls, IInv
<1>7. AnswerOK(ans, frames)'
  <2>1. CASE frames = <<>>
    BY <2>1, <1>1, <1>2, Places DEF AnswerOK, ChunkFrom
  <2>2. CASE frames # <<>>
    <3>1. Top.at <= Here /\ Top = frames[Len(frames)]
      BY <2>2, TopCall DEF CallOK
    <3> QED BY <3>1, <1>1, <1>2, Places DEF AnswerOK, ChunkFrom
  <2> QED BY <2>1, <2>2
<1> QED BY <1>3, <1>4, <1>5, <1>6, <1>7 DEF IInv

(* A first evaluation pushes a call, its LR entry and its LR answer.        *)
LEMMA ApplyFreshStep ==
  ASSUME IInv, NEW r \in Rules, ctl # "ret", ApplyFresh(r)
  PROVE  IInv'
<1> DEFINE f == [at |-> Here, rule |-> r, mode |-> "seed", head |-> None, refs |-> {}]
<1> USE DEF ApplyFresh
<1>1. f \in Frame /\ Entry(f) \in LrEntry /\ LrAnswer(Here) \in Answer
  BY Places DEF Frame, Entry, LrEntry, LrAnswer, Answer
<1>2. /\ frames' = Append(frames, f) /\ frames \in Seq(Frame)
      /\ lrstack' = Append(lrstack, Entry(f)) /\ lrstack \in Seq(LrEntry)
  BY DEF PushFrame, Entry, IInv, TypeOK
<1>3. /\ frames' \in Seq(Frame) /\ lrstack' \in Seq(LrEntry)
      /\ Len(frames') = Len(frames) + 1 /\ Len(frames) \in Nat
      /\ \A k \in 1 .. Len(frames) : frames'[k] = frames[k]
  BY <1>1, <1>2, Pushed
<1>4. /\ memo \in Memos /\ memo' \in Memos
      /\ memo'[Here][r] = LrAnswer(Here)
      /\ \A j \in Index, q \in Rules : j # Here \/ q # r => memo'[j][q] = memo[j][q]
  <2>1. memo \in Memos
    BY DEF IInv, TypeOK, Memos, Table
  <2>2. memo' = Put(memo, Here, r, LrAnswer(Here)) /\ LrAnswer(Here) \in Answer \cup {None}
    BY <1>1 DEF Put
  <2>3. Here \in Index
    BY Places
  <2> HIDE DEF ApplyFresh
  <2> QED BY <2>1, <2>2, <2>3, Stored DEF Memos
<1>5. LrAnswer(Here) # None
  BY <1>1, NoneAssumption
<1>6. Here' = Here /\ frames' # <<>>
  BY <1>3 DEF Here
<1>7. TypeOK' /\ Control' /\ AnswerOK(ans, frames)'
  <2>1. ans = None
    BY DEF IInv, Control
  <2>2. TypeOK'
    BY <1>3, <1>4 DEF IInv, TypeOK, Memos, Table
  <2> QED BY <2>1, <2>2, <1>6 DEF Control, AnswerOK
<1>8. Slots(memo, heads, head, pos + buf)'
  <2>1. ASSUME NEW j \in Index, NEW q \in Rules PROVE SlotOK(heads, memo'[j][q], j, pos + buf)
    <3>1. CASE j = Here /\ q = r
      BY <3>1, <1>4, Places DEF SlotOK, LrAnswer, HeadFrom, ChunkFrom
    <3>2. CASE j # Here \/ q # r
      BY <3>2, <1>4 DEF IInv, Slots
    <3> QED BY <3>1, <3>2
  <2>2. \A j \in Index : HeadFrom(heads, head[j], j)
    BY DEF IInv, Slots
  <2> QED BY <2>1, <2>2 DEF Slots
<1>9. Calls(memo, heads, frames, pos, Here)'
  <2>1. ASSUME NEW k \in 1 .. Len(frames)
        PROVE  /\ CallOK(memo', heads, frames[k], pos, Here)
               /\ frames[k].at <= f.at
               /\ Occupies(frames[k]) => Entry(frames[k]) # Entry(f)
    <3>1. Occupies(frames[k]) => memo[frames[k].at][frames[k].rule] # None
      BY EachCall DEF CallOK, HasAnswer
    <3>2. Occupies(frames[k]) => frames[k].at # Here \/ frames[k].rule # r
      BY <3>1
    <3>3. Occupies(frames[k]) => SameKind(memo, memo', frames[k])
      BY <3>1, <3>2, <1>4, EachCall DEF SameKind
    <3>4. HeadsStay(heads, heads)
      BY DEF HeadsStay
    <3>5. CallOK(memo', heads, frames[k], pos, Here)
      BY <3>3, <3>4, EachCall, CallStays
    <3>6. Occupies(frames[k]) => Entry(frames[k]) # Entry(f)
      BY <3>2 DEF Entry
    <3> QED BY <3>5, <3>6, EachCall
  <2>2. CallOK(memo', heads, f, pos, Here)
    BY <1>4, <1>5, Places DEF CallOK, HasAnswer, RefsFrom, HeadFrom, LrAnswer, Occupies
  <2>3. Nested(frames)
    BY DEF IInv, Calls
  <2>4. Calls(memo', heads, Append(frames, f), pos, Here)
    BY <2>1, <2>2, <2>3, <1>1, <1>2, CallsPush
  <2> QED BY <2>4, <1>2, <1>6
<1>10. Scoped(head, frames)'
  <2>1. \A k \in 1 .. Len(frames) : k \in 1 .. Len(frames') /\ frames'[k] = frames[k]
    BY <1>3
  <2>2. Scoped(head, frames')
    BY <2>1, ScopedStays DEF IInv
  <2> QED BY <2>2
<1>11. Bracketed(lrstack, frames)'
  BY <1>1, <1>2, BracketsPush DEF IInv
<1> QED BY <1>7, <1>8, <1>9, <1>10, <1>11 DEF IInv

(* An involved rule evaluated afresh pushes a call without an LR entry.     *)
LEMMA ApplyInvolvedStep ==
  ASSUME IInv, NEW r \in Rules, ctl # "ret", ApplyInvolved(r)
  PROVE  IInv'
<1> DEFINE h == head[Here]
           d == [heads[h.at][h.rule] EXCEPT !.eval = RuleSetRemove(@, r)]
           f == [at |-> Here, rule |-> r, mode |-> "hold", head |-> None, refs |-> {}]
<1> USE DEF ApplyInvolved
<1>1. h \in HeadId /\ h.at \in Index /\ h.rule \in Rules /\ heads[h.at][h.rule] \in LrHead
  <2>1. h # None /\ h \in HeadId
    BY Places DEF ToEvaluate, Growing, IInv, TypeOK
  <2>2. h.at \in Index /\ heads[h.at][h.rule] # None
    BY <2>1, Places DEF IInv, Slots, HeadFrom
  <2> QED BY <2>1, <2>2 DEF HeadId, IInv, TypeOK
<1>2. d \in LrHead
  BY <1>1 DEF LrHead, RuleSet, RuleSetRemove
<1>3. heads' = Put(heads, h.at, h.rule, d) /\ heads \in Objects
  BY <1>1 DEF IInv, TypeOK, Objects, Table, Put
<1>4. heads' \in Objects /\ HeadsStay(heads, heads')
  <2> HIDE DEF h, d, ApplyInvolved
  <2> QED BY <1>1, <1>2, <1>3, HeadStored
<1>5. f \in Frame
  BY Places DEF Frame
<1>6. frames' = Append(frames, f) /\ frames \in Seq(Frame)
  BY DEF PushFrame, IInv, TypeOK
<1>7. /\ frames' \in Seq(Frame)
      /\ Len(frames') = Len(frames) + 1 /\ Len(frames) \in Nat /\ frames'[Len(frames) + 1] = f
      /\ \A k \in 1 .. Len(frames) : frames'[k] = frames[k]
  BY <1>5, <1>6, Pushed
<1>8. Here' = Here /\ frames' # <<>>
  BY <1>7 DEF Here
<1>9. TypeOK' /\ Control' /\ AnswerOK(ans, frames)'
  <2>1. ans = None
    BY DEF IInv, Control
  <2>2. TypeOK'
    BY <1>4, <1>7 DEF IInv, TypeOK, Objects, Table
  <2> QED BY <2>1, <2>2, <1>8 DEF Control, AnswerOK
<1>10. Slots(memo, heads, head, pos + buf)'
  <2>1. (pos + buf)' \in Int /\ pos + buf <= (pos + buf)'
    BY Places
  <2> QED BY <2>1, <1>4, SlotsStay
<1>11. Calls(memo, heads, frames, pos, Here)'
  <2>1. ASSUME NEW k \in 1 .. Len(frames)
        PROVE  CallOK(memo, heads', frames[k], pos, Here) /\ frames[k].at <= f.at
    <3>1. SameKind(memo, memo, frames[k])
      BY DEF SameKind
    <3> QED BY <3>1, <1>4, EachCall, CallStays
  <2>2. CallOK(memo, heads', f, pos, Here) /\ ~ Occupies(f)
    BY Places DEF CallOK, HasAnswer, RefsFrom, HeadFrom, Occupies
  <2>3. Nested(frames)
    BY DEF IInv, Calls
  <2>4. Calls(memo, heads', Append(frames, f), pos, Here)
    BY <2>1, <2>2, <2>3, <1>5, <1>6, CallsPush
  <2> QED BY <2>4, <1>6, <1>8
<1>12. Scoped(head, frames)'
  <2>1. \A k \in 1 .. Len(frames) : k \in 1 .. Len(frames') /\ frames'[k] = frames[k]
    BY <1>7
  <2>2. Scoped(head, frames')
    BY <2>1, ScopedStays DEF IInv
  <2> QED BY <2>2
<1>13. Bracketed(lrstack, frames)'
  <2>1. SameSeeds(1 .. Len(frames), frames, frames')
    BY <1>7 DEF SameSeeds, SameSeed
  <2> QED BY <2>1, <1>7, BracketsKeep DEF IInv, TypeOK
<1> QED BY <1>9, <1>10, <1>11, <1>12, <1>13 DEF IInv

(* An entry of the LR stack has its LR answer, not yet a seed.              *)
LEMMA StackEntry ==
  ASSUME IInv, NEW j \in 1 .. Len(lrstack)
  PROVE  LET e == lrstack[j] IN
         /\ e.at \in Index /\ e.rule \in Rules /\ e.at <= Here
         /\ memo[e.at][e.rule] # None /\ memo[e.at][e.rule].type = "LR"
<1>1. PICK m \in [1 .. Len(lrstack) -> 1 .. Len(frames)] : Brackets(m, lrstack, frames)
  BY DEF IInv, Bracketed
<1>2. /\ m[j] \in 1 .. Len(frames)
      /\ frames[m[j]].mode = "seed"
      /\ lrstack[j] = [at |-> frames[m[j]].at, rule |-> frames[m[j]].rule]
  BY <1>1 DEF Brackets
<1>3. HasAnswer(memo, frames[m[j]])
  BY <1>2, EachCall DEF CallOK
<1> QED BY <1>2, <1>3, EachCall DEF HasAnswer, Occupies

(* The answer that is recalled.                                             *)
LEMMA Recalled ==
  ASSUME IInv, NEW r \in Rules, memo[Here][r] # None
  PROVE  LET a == memo[Here][r] IN
         /\ a \in Answer /\ SlotOK(heads, a, Here, pos + buf)
         /\ a.pos \in Nat /\ Here <= a.pos /\ a.pos <= pos + buf
         /\ a.chunk \in Chunk \cup {None} /\ ChunkFrom(a.chunk, Here)
         /\ a.head \in HeadId \cup {None} /\ HeadFrom(heads, a.head, Here)
<1> DEFINE a == memo[Here][r]
<1>1. a \in Answer
  BY Places DEF IInv, TypeOK
<1>2. SlotOK(heads, a, Here, pos + buf)
  BY Places DEF IInv, Slots
<1> QED BY <1>1, <1>2, Places DEF SlotOK, Answer, Index

(* Marking the LR entries creates at most one head, and changes the heads   *)
(* of LR answers only.                                                      *)
LEMMA RecallLRMarks ==
  ASSUME IInv, NEW r \in Rules, RecallLR(r)
  PROVE  /\ memo' \in Memos /\ heads' \in Objects /\ HeadsStay(heads, heads')
         /\ \A i \in Index, q \in Rules :
              /\ IF memo[i][q] = None THEN memo'[i][q] = None
                 ELSE /\ memo'[i][q] # None
                      /\ memo'[i][q].type = memo[i][q].type
                      /\ memo'[i][q].chunk = memo[i][q].chunk
                      /\ memo'[i][q].pos = memo[i][q].pos
              /\ SlotOK(heads', memo'[i][q], i, pos + buf)
<1> DEFINE a == memo[Here][r]
           h == IF a.head = None THEN [at |-> Here, rule |-> r] ELSE a.head
           old == IF a.head = None THEN [invol |-> EmptyRuleSet, eval |-> EmptyRuleSet]
                  ELSE heads[h.at][h.rule]
           Walked(k, i, q) ==
             \/ i = Here /\ q = r
             \/ \E j \in k + 1 .. Len(lrstack) : lrstack[j] = [at |-> i, rule |-> q]
<1>1. a # None /\ a.type = "LR"
  BY DEF RecallLR
<1>2. PICK k \in 0 .. Len(lrstack) :
        /\ memo' = [i \in Index |-> [q \in Rules |->
                     IF Walked(k, i, q) THEN [memo[i][q] EXCEPT !.head = h] ELSE memo[i][q]]]
        /\ \E t \in Joined(old.invol, k) :
             heads' = [heads EXCEPT ![h.at][h.rule] = [old EXCEPT !.invol = t]]
  BY DEF RecallLR
<1>3. PICK t \in Joined(old.invol, k) :
        heads' = [heads EXCEPT ![h.at][h.rule] = [old EXCEPT !.invol = t]]
  BY <1>2
<1> DEFINE d == [old EXCEPT !.invol = t]
<1>4. a.head \in HeadId \cup {None} /\ HeadFrom(heads, a.head, Here)
  BY <1>1, Recalled
<1>5. h \in HeadId /\ h.at \in Index /\ h.at \in Nat /\ Here <= h.at /\ h.rule \in Rules
  <2>1. CASE a.head = None
    BY <2>1, Places DEF HeadId, Place
  <2>2. CASE a.head # None
    BY <2>2, <1>4, BoundsAssumption DEF HeadFrom, HeadId, Index
  <2> QED BY <2>1, <2>2
<1>6. old \in LrHead
  <2>1. CASE a.head = None
    BY <2>1 DEF LrHead, RuleSet, EmptyRuleSet
  <2>2. CASE a.head # None
    <3>1. heads[h.at][h.rule] # None
      BY <2>2, <1>4 DEF HeadFrom
    <3> QED BY <2>2, <3>1, <1>5 DEF IInv, TypeOK
  <2> QED BY <2>1, <2>2
<1>7. d \in LrHead
  BY <1>6 DEF LrHead, Joined
<1>8. heads' = Put(heads, h.at, h.rule, d) /\ heads \in Objects
  BY <1>3 DEF IInv, TypeOK, Objects, Table, Put
<1> HIDE DEF a, h, old, d
<1>9. heads' \in Objects /\ HeadsStay(heads, heads') /\ heads'[h.at][h.rule] # None
  BY <1>5, <1>7, <1>8, HeadStored
<1>10. ASSUME NEW i \in Index, NEW q \in Rules, Walked(k, i, q)
       PROVE  /\ memo[i][q] \in Answer /\ memo[i][q].type = "LR" /\ i <= Here
              /\ memo'[i][q] = [memo[i][q] EXCEPT !.head = h]
  <2>1. memo[i][q] # None /\ memo[i][q].type = "LR" /\ i <= Here
    <3>1. CASE i = Here /\ q = r
      BY <3>1, <1>1, Places DEF a
    <3>2. CASE \E j \in k + 1 .. Len(lrstack) : lrstack[j] = [at |-> i, rule |-> q]
      <4>1. PICK j \in k + 1 .. Len(lrstack) : lrstack[j] = [at |-> i, rule |-> q]
        BY <3>2
      <4>2. j \in 1 .. Len(lrstack)
        BY DEF IInv, TypeOK
      <4> QED BY <4>1, <4>2, StackEntry
    <3> QED BY <3>1, <3>2, <1>10
  <2>2. memo[i][q] \in Answer
    BY <2>1 DEF IInv, TypeOK
  <2> QED BY <1>2, <1>10, <2>1, <2>2
<1>11. ASSUME NEW i \in Index, NEW q \in Rules, ~ Walked(k, i, q)
       PROVE  memo'[i][q] = memo[i][q]
  BY <1>2, <1>11
<1> HIDE DEF Walked
<1>12. ASSUME NEW i \in Index, NEW q \in Rules
       PROVE  /\ memo[i][q] \in Answer \cup {None} /\ memo'[i][q] \in Answer \cup {None}
              /\ IF memo[i][q] = None THEN memo'[i][q] = None
                 ELSE /\ memo'[i][q] # None
                      /\ memo'[i][q].type = memo[i][q].type
                      /\ memo'[i][q].chunk = memo[i][q].chunk
                      /\ memo'[i][q].pos = memo[i][q].pos
              /\ SlotOK(heads', memo'[i][q], i, pos + buf)
  <2>1. /\ memo[i][q] \in Answer \cup {None} /\ SlotOK(heads, memo[i][q], i, pos + buf)
        /\ pos + buf \in Int
    BY Places DEF IInv, TypeOK, Slots
  <2>2. SlotOK(heads', memo[i][q], i, pos + buf)
    BY <2>1, <1>9, SlotStays
  <2>3. CASE Walked(k, i, q)
    <3>1. /\ memo[i][q] \in Answer /\ memo[i][q].type = "LR" /\ i <= Here
          /\ memo'[i][q] = [memo[i][q] EXCEPT !.head = h]
      BY <2>3, <1>10
    <3>2. memo'[i][q] \in Answer
      BY <3>1, <1>5 DEF Answer
    <3>3. memo'[i][q] # None /\ memo[i][q] # None
      BY <3>1, <3>2, NoneAssumption
    <3>4. /\ memo'[i][q].type = memo[i][q].type /\ memo'[i][q].chunk = memo[i][q].chunk
          /\ memo'[i][q].pos = memo[i][q].pos /\ memo'[i][q].head = h
      BY <3>1 DEF Answer
    <3>5. i \in Nat /\ i <= h.at
      BY <3>1, <1>5, Places DEF Index
    <3>6. HeadFrom(heads', h, i)
      BY <3>5, <1>5, <1>9 DEF HeadFrom
    <3>7. SlotOK(heads', memo'[i][q], i, pos + buf)
      BY <2>2, <3>3, <3>4, <3>6 DEF SlotOK
    <3> QED BY <2>1, <3>2, <3>3, <3>4, <3>7
  <2>4. CASE ~ Walked(k, i, q)
    BY <2>1, <2>2, <2>4, <1>11
  <2> QED BY <2>3, <2>4
<1>13. memo' \in Memos
  BY <1>2, <1>12 DEF Memos, Table
<1> QED BY <1>9, <1>12, <1>13

(* Recalling an LR answer answers with its seed.                            *)
LEMMA RecallLRStep ==
  ASSUME IInv, NEW r \in Rules, RecallLR(r)
  PROVE  IInv'
<1> DEFINE a == memo[Here][r]
<1>1. /\ a # None /\ a.type = "LR" /\ cur' = a.pos - pos
      /\ ctl' = "ret" /\ ans' = a.chunk
      /\ UNCHANGED <<inlen, pos, buf, head, lrstack, frames>>
  BY DEF RecallLR, Answering
<1>2. /\ a \in Answer /\ SlotOK(heads, a, Here, pos + buf)
      /\ a.pos \in Nat /\ Here <= a.pos /\ a.pos <= pos + buf
      /\ a.chunk \in Chunk \cup {None} /\ ChunkFrom(a.chunk, Here)
  BY <1>1, Recalled
<1> HIDE DEF a
<1>3. /\ memo' \in Memos /\ heads' \in Objects /\ HeadsStay(heads, heads')
      /\ \A i \in Index, q \in Rules :
           /\ IF memo[i][q] = None THEN memo'[i][q] = None
              ELSE /\ memo'[i][q] # None
                   /\ memo'[i][q].type = memo[i][q].type
                   /\ memo'[i][q].chunk = memo[i][q].chunk
                   /\ memo'[i][q].pos = memo[i][q].pos
           /\ SlotOK(heads', memo'[i][q], i, pos + buf)
  BY RecallLRMarks
<1>4. Here' = a.pos /\ cur' \in Index /\ cur' <= buf'
  BY <1>1, <1>2, Places DEF Here, Index
<1>5. TypeOK' /\ Control'
  <2>1. TypeOK'
    BY <1>1, <1>2, <1>3, <1>4 DEF IInv, TypeOK, Memos, Objects, Table
  <2> QED BY <2>1, <1>1 DEF Control, IInv
<1>6. Slots(memo, heads, head, pos + buf)'
  <2>1. ASSUME NEW i \in Index PROVE HeadFrom(heads', head[i], i)
    <3>1. head[i] \in HeadId \cup {None} /\ HeadFrom(heads, head[i], i)
      BY DEF IInv, TypeOK, Slots
    <3> QED BY <3>1, <1>3, HeadFromStays
  <2> QED BY <2>1, <1>1, <1>3 DEF Slots
<1>7. Calls(memo, heads, frames, pos, Here)'
  <2>1. ASSUME NEW c \in 1 .. Len(frames) PROVE CallOK(memo', heads', frames[c], pos, a.pos)
    <3>1. SameKind(memo, memo', frames[c])
      BY <1>3, EachCall DEF SameKind
    <3>2. frames[c].at <= a.pos
      BY <1>2, EachCall, Places
    <3> QED BY <3>1, <3>2, <1>3, EachCall, CallStays
  <2> QED BY <2>1, <1>1, <1>4 DEF Calls, IInv
<1>8. AnswerOK(ans, frames)'
  <2>1. CASE frames = <<>>
    BY <2>1, <1>1, <1>2, Places DEF AnswerOK, ChunkFrom
  <2>2. CASE frames # <<>>
    <3>1. Top.at <= Here /\ Top = frames[Len(frames)]
      BY <2>2, TopCall DEF CallOK
    <3> QED BY <3>1, <1>1, <1>2, Places DEF AnswerOK, ChunkFrom
  <2> QED BY <2>1, <2>2
<1> QED BY <1>1, <1>4, <1>5, <1>6, <1>7, <1>8, Places DEF IInv

(* pcc_apply_rule up to its answer or to rule(ctx).                         *)
LEMMA ApplyStep ==
  ASSUME IInv, NEW r \in Rules, ctl # "ret", Apply(r)
  PROVE  IInv'
  BY ApplyBlockedStep, ApplyInvolvedStep, RecallChunkStep, RecallLRStep, ApplyFreshStep DEF Apply

-----------------------------------------------------------------------------
(* The steps that a rule body takes, and its return.                       *)

(* What a body may return fits the call that returns it.                    *)
LEMMA ResultFits ==
  ASSUME IInv, frames # <<>>, NEW c \in Results(Top)
  PROVE  c \in Chunk \cup {None} /\ ChunkFrom(c, Top.at)
<1>1. Top \in Frame /\ RefsFrom(Top.refs, Top.at)
  BY TopCall DEF CallOK
<1>2. CASE c = None
  BY <1>2 DEF ChunkFrom
<1>3. CASE c # None
  <2>1. c = NewChunk(Top)
    BY <1>3 DEF Results
  <2> QED BY <1>1, <2>1 DEF NewChunk, Chunk, Frame, Place, ChunkFrom
<1> QED BY <1>2, <1>3

(* Two calls that own answers own different ones.                           *)
LEMMA OwnedApart ==
  ASSUME IInv, frames # <<>>, Occupies(Top), NEW k \in 1 .. Len(frames) - 1, Occupies(frames[k])
  PROVE  frames[k].at # Top.at \/ frames[k].rule # Top.rule
<1>1. k \in 1 .. Len(frames) /\ Len(frames) \in 1 .. Len(frames) /\ k < Len(frames)
  BY TopCall
<1>2. Entry(frames[k]) # Entry(Top)
  BY <1>1, TopCall DEF IInv, Calls, Nested
<1> QED BY <1>2 DEF Entry

(* The top call stores its answer b.                                        *)
LEMMA StoreTop ==
  ASSUME IInv, frames # <<>>, Occupies(Top), NEW b \in Answer, Store(Top, b),
         HeadsStay(heads, heads'), SlotOK(heads', b, Top.at, pos + buf)
  PROVE  /\ memo' \in Memos /\ memo'[Top.at][Top.rule] = b /\ b # None
         /\ \A i \in Index, q \in Rules : SlotOK(heads', memo'[i][q], i, pos + buf)
         /\ \A k \in 1 .. Len(frames) - 1 : Occupies(frames[k]) => SameKind(memo, memo', frames[k])
<1>1. /\ memo \in Memos /\ Top.at \in Index /\ Top.rule \in Rules
      /\ b \in Answer \cup {None} /\ b # None
      /\ memo' = Put(memo, Top.at, Top.rule, b)
  BY TopCall, NoneAssumption DEF IInv, TypeOK, Memos, Table, Frame, Store, Put
<1>2. /\ memo' \in Memos /\ memo'[Top.at][Top.rule] = b
      /\ \A j \in Index, q \in Rules :
           j # Top.at \/ q # Top.rule => memo'[j][q] = memo[j][q]
  BY <1>1, Stored DEF Memos
<1>3. ASSUME NEW i \in Index, NEW q \in Rules
      PROVE  SlotOK(heads', memo'[i][q], i, pos + buf)
  <2>1. CASE i = Top.at /\ q = Top.rule
    BY <2>1, <1>2
  <2>2. CASE i # Top.at \/ q # Top.rule
    <3>1. /\ memo[i][q] \in Answer \cup {None} /\ SlotOK(heads, memo[i][q], i, pos + buf)
          /\ pos + buf \in Int
      BY Places DEF IInv, TypeOK, Slots
    <3>2. SlotOK(heads', memo[i][q], i, pos + buf)
      BY <3>1, SlotStays
    <3> QED BY <3>2, <2>2, <1>2
  <2> QED BY <2>1, <2>2
<1>4. ASSUME NEW k \in 1 .. Len(frames) - 1, Occupies(frames[k])
      PROVE  SameKind(memo, memo', frames[k])
  <2>1. k \in 1 .. Len(frames)
    BY TopCall
  <2>2. memo'[frames[k].at][frames[k].rule] = memo[frames[k].at][frames[k].rule]
    BY <2>1, <1>2, <1>4, OwnedApart, EachCall
  <2> QED BY <2>2 DEF SameKind
<1> QED BY <1>1, <1>2, <1>3, <1>4

(* The calls below the top one, when the current place is not before it.    *)
LEMMA LowerCalls ==
  ASSUME IInv, frames # <<>>, HeadsStay(heads, heads'), NEW y \in Int, Top.at <= y,
         \A k \in 1 .. Len(frames) - 1 : Occupies(frames[k]) => SameKind(memo, memo', frames[k])
  PROVE  \A k \in 1 .. Len(frames) - 1 : CallOK(memo', heads', frames[k], pos, y)
<1> SUFFICES ASSUME NEW k \in 1 .. Len(frames) - 1
             PROVE  CallOK(memo', heads', frames[k], pos, y)
  OBVIOUS
<1>1. k \in 1 .. Len(frames)
  BY TopCall
<1>2. frames[k].at <= y
  <2>1. frames[k].at <= Top.at /\ frames[k].at \in Nat /\ Top.at \in Nat
    BY <1>1, TopCall, EachCall
  <2> QED BY <2>1
<1> QED BY <1>1, <1>2, EachCall, CallStays

(* The top call ends with answer c.                                         *)
LEMMA PopTop ==
  ASSUME IInv, frames # <<>>, PopFrame, pos' = pos, Here' \in Int, Top.at <= Here',
         \A k \in 1 .. Len(frames) - 1 : CallOK(memo', heads', frames[k], pos, Here'),
         NEW c \in Chunk \cup {None}, ChunkFrom(c, Top.at)
  PROVE  /\ frames' \in Seq(Frame)
         /\ Len(frames') = Len(frames) - 1
         /\ \A k \in 1 .. Len(frames) - 1 : frames'[k] = frames[k]
         /\ Calls(memo, heads, frames, pos, Here)'
         /\ AnswerOK(c, frames')
<1>1. frames \in Seq(Frame) /\ Len(frames) > 0 /\ Len(frames) \in Nat
  BY TopCall DEF IInv, TypeOK
<1>2. frames' = SubSeq(frames, 1, Len(frames) - 1)
  BY DEF PopFrame
<1>3. /\ frames' \in Seq(Frame) /\ Len(frames') = Len(frames) - 1
      /\ \A k \in 1 .. Len(frames) - 1 : frames'[k] = frames[k]
  BY <1>1, <1>2, Popped
<1>4. Calls(memo, heads, frames, pos, Here)'
  <2>1. Nested(frames)
    BY DEF IInv, Calls
  <2>2. Calls(memo', heads', SubSeq(frames, 1, Len(frames) - 1), pos, Here')
    BY <1>1, <2>1, CallsPop
  <2> QED BY <2>2, <1>2
<1>5. AnswerOK(c, frames')
  <2>1. Top.at \in Index /\ Top.at \in Nat
    BY TopCall, EachCall
  <2>2. ASSUME frames' # <<>> PROVE frames'[Len(frames')].at <= Top.at
    <3>1. Len(frames') \in 1 .. Len(frames) - 1
      BY <2>2, <1>1, <1>3
    <3> QED BY <3>1, <1>3, <1>1, TopCall
  <2> QED BY <2>1, <2>2 DEF AnswerOK, ChunkFrom
<1> QED BY <1>3, <1>4, <1>5

(* A body reads and backtracks between its own start and the end of input.  *)
LEMMA ScanStep ==
  ASSUME IInv, NEW c \in Index, NEW b \in Index, Scan(c, b)
  PROVE  IInv'
<1> USE DEF Scan, tvars
<1>1. frames # <<>>
  BY DEF InBody, IInv, Control
<1>2. /\ cur' = c /\ buf' = b /\ pos' = pos /\ inlen' = inlen
      /\ buf <= b /\ pos + b <= inlen /\ Top.at <= pos + c /\ c <= b
      /\ c \in Nat /\ b \in Nat /\ Top.at \in Nat
  <2>1. Top.at \in Nat /\ c \in Nat /\ b \in Nat
    BY <1>1, TopCall, EachCall, BoundsAssumption DEF Index
  <2>2. c \in Top.at - pos .. b /\ b \in buf .. inlen - pos
    OBVIOUS
  <2> HIDE DEF Scan
  <2>3. buf <= b /\ pos + b <= inlen /\ Top.at <= pos + c /\ c <= b
    BY <2>1, <2>2, Places
  <2> QED BY <2>1, <2>3 DEF Scan
<1>3. Here' = pos + c
  BY <1>2 DEF Here
<1>4. TypeOK' /\ Control' /\ AnswerOK(ans, frames)' /\ Bracketed(lrstack, frames)'
  BY DEF IInv, TypeOK, Control
<1>5. HeadsStay(heads, heads')
  BY DEF HeadsStay
<1>6. Slots(memo, heads, head, pos + buf)'
  <2>1. (pos + buf)' \in Int /\ pos + buf <= (pos + buf)'
    BY <1>2, Places
  <2> QED BY <2>1, <1>5, SlotsStay
<1>7. Calls(memo, heads, frames, pos, Here)'
  <2>1. ASSUME NEW k \in 1 .. Len(frames) PROVE CallOK(memo, heads, frames[k], pos, pos + c)
    <3>1. frames[k].at <= pos + c
      <4>1. frames[k].at <= Top.at /\ frames[k].at \in Nat
        BY <1>1, TopCall, EachCall
      <4>2. Top.at \in Nat /\ pos \in Nat /\ c \in Nat /\ Top.at <= pos + c
        BY <1>2, Places
      <4> HIDE DEF Scan
      <4> QED BY ONLY <4>1, <4>2
    <3>2. SameKind(memo, memo, frames[k])
      BY DEF SameKind
    <3> QED BY <3>1, <3>2, <1>5, EachCall, CallStays
  <2> QED BY <2>1, <1>3 DEF Calls, IInv
<1> QED BY <1>2, <1>4, <1>6, <1>7, Places DEF IInv

(* A fresh evaluation of an involved rule stores nothing.                   *)
LEMMA ReturnHeldStep ==
  ASSUME IInv, NEW c \in Results(Top), ReturnHeld(c)
  PROVE  IInv'
<1> USE DEF ReturnHeld, Answering, tvars
<1>1. frames # <<>>
  BY DEF InBody, IInv, Control
<1>2. c \in Chunk \cup {None} /\ ChunkFrom(c, Top.at)
  BY <1>1, ResultFits
<1>3. Here' = Here /\ HeadsStay(heads, heads')
  BY DEF Here, HeadsStay
<1>4. Here \in Int /\ Top.at <= Here
  BY <1>1, TopCall, Places DEF CallOK
<1>5. \A k \in 1 .. Len(frames) - 1 : CallOK(memo', heads', frames[k], pos, Here')
  <2>1. \A k \in 1 .. Len(frames) - 1 : SameKind(memo, memo', frames[k])
    BY DEF SameKind
  <2> QED BY <2>1, <1>1, <1>3, <1>4, LowerCalls
<1>6. /\ frames' \in Seq(Frame) /\ Len(frames') = Len(frames) - 1
      /\ \A k \in 1 .. Len(frames) - 1 : frames'[k] = frames[k]
      /\ Calls(memo, heads, frames, pos, Here)' /\ AnswerOK(c, frames')
  BY <1>1, <1>2, <1>3, <1>4, <1>5, PopTop
<1>7. TypeOK' /\ Control' /\ AnswerOK(ans, frames)'
  BY <1>2, <1>6 DEF IInv, TypeOK, Control
<1>8. Slots(memo, heads, head, pos + buf)'
  BY DEF IInv
<1>9. Len(frames) \in Nat /\ Len(frames) > 0 /\ frames[Len(frames)].mode = "hold"
  BY <1>1, TopCall
<1>10. Scoped(head, frames)'
  <2>1. \A k \in 1 .. Len(frames) : frames[k].mode = "grow" =>
           k \in 1 .. Len(frames') /\ frames'[k] = frames[k]
    BY <1>6, <1>9
  <2>2. Scoped(head, frames')
    BY <2>1, ScopedStays DEF IInv
  <2> QED BY <2>2
<1>11. Bracketed(lrstack, frames)'
  <2>1. SameSeeds(1 .. Len(frames), frames, frames')
    BY <1>6, <1>9 DEF SameSeeds, SameSeed
  <2> QED BY <2>1, <1>6, BracketsKeep DEF IInv, TypeOK
<1> QED BY <1>7, <1>8, <1>6, <1>10, <1>11 DEF IInv

(* The first evaluation of the top call ends with answer b in the memo      *)
(* table: what ReturnPlain, ReturnInvolved and ReturnNoSeed have in common.  *)
LEMMA SeedReturns ==
  ASSUME IInv, InBody, Top.mode = "seed", NEW b \in Answer, Store(Top, b),
         SlotOK(heads, b, Top.at, pos + buf),
         PopLrStack, PopFrame, NEW c \in Results(Top), Answering(c),
         UNCHANGED <<inlen, pos, cur, buf, head, heads>>
  PROVE  IInv'
<1>1. frames # <<>> /\ Occupies(Top)
  BY DEF InBody, IInv, Control, Occupies
<1>2. c \in Chunk \cup {None} /\ ChunkFrom(c, Top.at) /\ ans' = c /\ ctl' = "ret"
  BY <1>1, ResultFits DEF Answering
<1>3. Here' = Here /\ HeadsStay(heads, heads') /\ heads' = heads
  BY DEF Here, HeadsStay
<1>4. Here \in Int /\ Top.at <= Here
  BY <1>1, TopCall, Places DEF CallOK
<1>5. /\ memo' \in Memos
      /\ \A i \in Index, q \in Rules : SlotOK(heads', memo'[i][q], i, pos + buf)
      /\ \A k \in 1 .. Len(frames) - 1 : Occupies(frames[k]) => SameKind(memo, memo', frames[k])
  BY <1>1, <1>3, StoreTop
<1>6. \A k \in 1 .. Len(frames) - 1 : CallOK(memo', heads', frames[k], pos, Here')
  BY <1>1, <1>3, <1>4, <1>5, LowerCalls
<1>7. /\ frames' \in Seq(Frame) /\ Len(frames') = Len(frames) - 1
      /\ \A k \in 1 .. Len(frames) - 1 : frames'[k] = frames[k]
      /\ Calls(memo, heads, frames, pos, Here)' /\ AnswerOK(c, frames')
  BY <1>1, <1>2, <1>3, <1>4, <1>6, PopTop
<1>8. Len(frames) \in Nat /\ Len(frames) > 0 /\ frames[Len(frames)].mode = "seed"
  BY <1>1, TopCall
<1>9. lrstack' \in Seq(LrEntry) /\ Bracketed(lrstack, frames)'
  <2>1. SameSeeds(1 .. Len(frames) - 1, frames, frames')
    BY <1>7, <1>8 DEF SameSeeds, SameSeed
  <2>2. lrstack \in Seq(LrEntry) /\ frames \in Seq(Frame) /\ Bracketed(lrstack, frames)
    BY DEF IInv, TypeOK
  <2>3. Len(lrstack) > 0 /\ Bracketed(SubSeq(lrstack, 1, Len(lrstack) - 1), frames')
    BY <2>1, <2>2, <1>7, <1>8, BracketsPop
  <2> QED BY <2>2, <2>3, Popped DEF PopLrStack
<1>10. TypeOK' /\ Control' /\ AnswerOK(ans, frames)'
  BY <1>2, <1>5, <1>7, <1>9 DEF IInv, TypeOK, Control, Memos, Table
<1>11. Slots(memo, heads, head, pos + buf)'
  <2>1. \A i \in Index : HeadFrom(heads, head[i], i)
    BY DEF IInv, Slots
  <2> QED BY <2>1, <1>3, <1>5 DEF Slots
<1>12. Scoped(head, frames)'
  <2>1. \A k \in 1 .. Len(frames) : frames[k].mode = "grow" =>
           k \in 1 .. Len(frames') /\ frames'[k] = frames[k]
    BY <1>7, <1>8
  <2>2. Scoped(head, frames')
    BY <2>1, ScopedStays DEF IInv
  <2> QED BY <2>2
<1> QED BY <1>7, <1>9, <1>10, <1>11, <1>12 DEF IInv

(* The answer of the top call.                                              *)
LEMMA TopAnswer ==
  ASSUME IInv, frames # <<>>, Occupies(Top)
  PROVE  LET a == memo[Top.at][Top.rule] IN
         /\ a \in Answer /\ SlotOK(heads, a, Top.at, pos + buf) /\ a # None
         /\ Top.at \in Index /\ Top.at \in Nat /\ Top.rule \in Rules
         /\ pos <= Top.at /\ Top.at <= Here
<1>1. /\ Top.at \in Index /\ Top.rule \in Rules /\ Top.at \in Nat
      /\ memo[Top.at][Top.rule] # None /\ pos <= Top.at /\ Top.at <= Here
  BY TopCall, EachCall DEF CallOK, HasAnswer
<1>2. /\ memo[Top.at][Top.rule] \in Answer \cup {None}
      /\ SlotOK(heads, memo[Top.at][Top.rule], Top.at, pos + buf)
  BY <1>1 DEF IInv, TypeOK, Slots
<1> QED BY <1>1, <1>2

(* A result of the top call as a memoized answer.                           *)
LEMMA NewAnswer ==
  ASSUME IInv, frames # <<>>, Occupies(Top), NEW c \in Results(Top), NEW hs
  PROVE  /\ ChunkAnswer(Here, c) \in Answer
         /\ SlotOK(hs, ChunkAnswer(Here, c), Top.at, pos + buf)
<1>1. c \in Chunk \cup {None} /\ ChunkFrom(c, Top.at)
  BY ResultFits
<1>2. ChunkAnswer(Here, c) \in Answer
  BY <1>1, Places DEF ChunkAnswer, Answer
<1>3. Top.at <= Here /\ Here <= pos + buf
  BY TopAnswer, Places
<1> QED BY <1>1, <1>2, <1>3 DEF SlotOK, ChunkAnswer, HeadFrom

(* What storing an answer for the top call leaves in the memo table.        *)
LEMMA TopStored ==
  ASSUME IInv, frames # <<>>, Occupies(Top), NEW b \in Answer, Store(Top, b)
  PROVE  /\ Top.at \in Index /\ Top.rule \in Rules /\ b # None
         /\ memo'[Top.at][Top.rule] = b
         /\ \A i \in Index, q \in Rules : i # Top.at \/ q # Top.rule => memo'[i][q] = memo[i][q]
<1>1. Top.at \in Index /\ Top.rule \in Rules /\ memo \in Memos
  BY TopAnswer DEF IInv, TypeOK, Memos, Table
<1>2. memo' = Put(memo, Top.at, Top.rule, b) /\ b \in Answer \cup {None} /\ b # None
  BY NoneAssumption DEF Store, Put
<1>3. /\ Put(memo, Top.at, Top.rule, b)[Top.at][Top.rule] = b
      /\ \A i \in Index, q \in Rules :
           i # Top.at \/ q # Top.rule => Put(memo, Top.at, Top.rule, b)[i][q] = memo[i][q]
  BY <1>1, <1>2, Stored DEF Memos
<1> QED BY <1>1, <1>2, <1>3

(* No left recursion was met.                                               *)
LEMMA ReturnPlainStep ==
  ASSUME IInv, NEW c \in Results(Top), ReturnPlain(c)
  PROVE  IInv'
<1>1. frames # <<>> /\ Occupies(Top)
  BY DEF ReturnPlain, InBody, IInv, Control, Occupies
<1>2. /\ ChunkAnswer(Here, c) \in Answer
      /\ SlotOK(heads, ChunkAnswer(Here, c), Top.at, pos + buf)
  BY <1>1, NewAnswer
<1> QED BY <1>2, SeedReturns DEF ReturnPlain

(* The head of a left recursion found no seed.                              *)
LEMMA ReturnNoSeedStep ==
  ASSUME IInv, NEW c \in Results(Top), ReturnNoSeed(c)
  PROVE  IInv'
<1>1. frames # <<>> /\ Occupies(Top) /\ None \in Results(Top)
  BY DEF ReturnNoSeed, InBody, IInv, Control, Occupies, Results
<1>2. /\ ChunkAnswer(Here, None) \in Answer
      /\ SlotOK(heads, ChunkAnswer(Here, None), Top.at, pos + buf)
  BY <1>1, NewAnswer
<1> QED BY <1>1, <1>2, SeedReturns DEF ReturnNoSeed

(* The rule took part in the left recursion of another one.                 *)
LEMMA ReturnInvolvedStep ==
  ASSUME IInv, NEW c \in Results(Top), ReturnInvolved(c)
  PROVE  IInv'
<1> DEFINE a == memo[Top.at][Top.rule]
           b == [a EXCEPT !.pos = Here, !.chunk = c]
<1>1. frames # <<>> /\ Occupies(Top)
  BY DEF ReturnInvolved, InBody, IInv, Control, Occupies
<1>2. c \in Chunk \cup {None} /\ ChunkFrom(c, Top.at)
  BY <1>1, ResultFits
<1>3. a \in Answer /\ SlotOK(heads, a, Top.at, pos + buf) /\ a # None
  BY <1>1, TopAnswer
<1>4. Top.at <= Here /\ Here <= pos + buf /\ Here \in Index
  BY <1>1, TopAnswer, Places
<1>5. b \in Answer /\ b.pos = Here /\ b.chunk = c /\ b.head = a.head
  BY <1>2, <1>3, <1>4 DEF Answer
<1>6. SlotOK(heads, b, Top.at, pos + buf)
  BY <1>2, <1>3, <1>4, <1>5 DEF SlotOK
<1> QED BY <1>5, <1>6, SeedReturns DEF ReturnInvolved

(* The top call is evaluated once more, with b memoized and head h growing. *)
Regrown(h) == [Top EXCEPT !.mode = "grow", !.head = h, !.refs = {}]

(* The top call starts its rule again, with head h.                         *)
LEMMA GrowStep ==
  ASSUME IInv, frames # <<>>, Occupies(Top), NEW b \in Answer, Store(Top, b),
         b.type = "CHUNK", b.chunk # None, SlotOK(heads, b, Top.at, pos + buf),
         NEW h \in HeadId, h # None, HeadFrom(heads, h, Top.at), GrowFrom(Top, h),
         UNCHANGED <<inlen, pos, buf>>
  PROVE  /\ memo' \in Memos /\ heads' \in Objects /\ HeadsStay(heads, heads')
         /\ cur' \in Index /\ cur' <= buf /\ (pos + cur)' = Top.at
         /\ \A i \in Index, q \in Rules : SlotOK(heads', memo'[i][q], i, pos + buf)
         /\ frames' \in Seq(Frame) /\ frames' # <<>> /\ Len(frames') = Len(frames)
         /\ frames'[Len(frames)] = Regrown(h)
         /\ \A k \in 1 .. Len(frames) - 1 : frames'[k] = frames[k]
         /\ Calls(memo, heads, frames, pos, Here)'
<1> DEFINE d == [heads[h.at][h.rule] EXCEPT !.eval = heads[h.at][h.rule].invol]
           g == Regrown(h)
<1>1. /\ h.at \in Index /\ h.rule \in Rules /\ heads[h.at][h.rule] \in LrHead
      /\ heads \in Objects
  <2>1. h.at \in Index /\ h.rule \in Rules /\ heads[h.at][h.rule] # None
    BY DEF HeadFrom, HeadId
  <2> QED BY <2>1 DEF IInv, TypeOK, Objects, Table
<1>2. d \in LrHead
  BY <1>1 DEF LrHead
<1>3. heads' = Put(heads, h.at, h.rule, d)
  BY <1>1 DEF GrowFrom, Objects, Table, Put
<1>4. heads' \in Objects /\ HeadsStay(heads, heads')
  <2> HIDE DEF d
  <2> QED BY <1>1, <1>2, <1>3, HeadStored
<1>5. /\ Top.at \in Index /\ Top.at \in Nat /\ Top.rule \in Rules
      /\ pos <= Top.at /\ Top.at <= Here
  BY TopAnswer
<1>6. SlotOK(heads', b, Top.at, pos + buf)
  <2>1. pos + buf \in Int /\ b \in Answer \cup {None}
    BY Places
  <2> QED BY <2>1, <1>4, SlotStays
<1>7. /\ memo' \in Memos /\ memo'[Top.at][Top.rule] = b /\ b # None
      /\ \A i \in Index, q \in Rules : SlotOK(heads', memo'[i][q], i, pos + buf)
      /\ \A k \in 1 .. Len(frames) - 1 : Occupies(frames[k]) => SameKind(memo, memo', frames[k])
  BY <1>4, <1>6, StoreTop
<1>8. cur' \in Index /\ cur' <= buf /\ (pos + cur)' = Top.at /\ Here' = Top.at
  <2>1. cur' = Top.at - pos /\ pos' = pos
    BY DEF GrowFrom
  <2> QED BY <2>1, <1>5, Places DEF Index, Here
<1>9. Top \in Frame /\ frames \in Seq(Frame) /\ Len(frames) \in Nat /\ Len(frames) > 0
  BY TopCall DEF IInv, TypeOK
<1>10. g \in Frame /\ g.at = Top.at /\ g.rule = Top.rule /\ g.mode = "grow" /\ g.head = h /\ g.refs = {}
  BY <1>9 DEF Frame, Regrown
<1>11. frames' = [frames EXCEPT ![Len(frames)] = g]
  BY DEF GrowFrom, Regrown
<1> HIDE DEF g
<1>12. /\ frames' \in Seq(Frame) /\ frames' # <<>> /\ Len(frames') = Len(frames)
       /\ frames'[Len(frames)] = g
       /\ \A k \in 1 .. Len(frames) - 1 : frames'[k] = frames[k]
  BY <1>9, <1>10, <1>11
<1>13. \A k \in 1 .. Len(frames) - 1 : CallOK(memo', heads', frames[k], pos, Top.at)
  BY <1>4, <1>5, <1>7, LowerCalls
<1>14. CallOK(memo', heads', g, pos, Top.at)
  <2>1. h \in HeadId \cup {None} /\ HeadFrom(heads', h, Top.at)
    BY <1>4, HeadFromStays
  <2>2. HasAnswer(memo', g)
    BY <1>7, <1>10 DEF HasAnswer, Occupies
  <2>3. RefsFrom(g.refs, g.at)
    BY <1>10 DEF RefsFrom
  <2> QED BY <2>1, <2>2, <2>3, <1>5, <1>10 DEF CallOK
<1>15. Nested(frames')
  <2>1. ASSUME NEW j \in 1 .. Len(frames), NEW k \in 1 .. Len(frames), j < k
        PROVE  /\ frames'[j].at <= frames'[k].at
               /\ Occupies(frames'[j]) /\ Occupies(frames'[k]) => Entry(frames'[j]) # Entry(frames'[k])
    <3>1. j \in 1 .. Len(frames) - 1 /\ frames'[j] = frames[j]
      BY <2>1, <1>9, <1>12
    <3>2. /\ frames[j].at <= frames[k].at
          /\ Occupies(frames[j]) /\ Occupies(frames[k]) => Entry(frames[j]) # Entry(frames[k])
      BY <2>1 DEF IInv, Calls, Nested
    <3>3. CASE k = Len(frames)
      BY <3>1, <3>2, <3>3, <1>10, <1>12 DEF Entry, Top
    <3>4. CASE k \in 1 .. Len(frames) - 1
      BY <3>1, <3>2, <3>4, <1>12
    <3> QED BY <3>3, <3>4, <1>9
  <2> QED BY <2>1, <1>12 DEF Nested
<1>16. Calls(memo', heads', frames', pos, Top.at)
  <2>1. ASSUME NEW k \in 1 .. Len(frames) PROVE CallOK(memo', heads', frames'[k], pos, Top.at)
    <3>1. CASE k = Len(frames)
      BY <3>1, <1>12, <1>14
    <3>2. CASE k \in 1 .. Len(frames) - 1
      BY <3>2, <1>12, <1>13
    <3> QED BY <3>1, <3>2, <1>9
  <2> QED BY <2>1, <1>12, <1>15 DEF Calls
<1> QED BY <1>4, <1>7, <1>8, <1>12, <1>16 DEF g

(* The head of a left recursion found its seed.                             *)
LEMMA ReturnSeedStep ==
  ASSUME IInv, NEW c \in Results(Top), ReturnSeed(c)
  PROVE  IInv'
<1> DEFINE a == memo[Top.at][Top.rule]
           h == a.head
           b == ChunkAnswer(Here, c)
<1>1. frames # <<>> /\ Occupies(Top) /\ Top.mode = "seed"
  BY DEF ReturnSeed, InBody, IInv, Control, Occupies
<1>2. /\ b \in Answer /\ SlotOK(heads, b, Top.at, pos + buf) /\ b.type = "CHUNK" /\ b.chunk # None
  BY <1>1, NewAnswer DEF ChunkAnswer, ReturnSeed
<1>3. h \in HeadId /\ h # None /\ HeadFrom(heads, h, Top.at)
  <2>1. a \in Answer /\ SlotOK(heads, a, Top.at, pos + buf) /\ a # None
    BY <1>1, TopAnswer
  <2>2. h # None
    BY DEF ReturnSeed
  <2> QED BY <2>1, <2>2 DEF SlotOK, Answer
<1>4. /\ Store(Top, b) /\ GrowFrom(Top, h) /\ PopLrStack
      /\ head' = [head EXCEPT ![Top.at] = h]
      /\ UNCHANGED <<inlen, pos, buf, ctl, ans>>
  BY DEF ReturnSeed
<1> HIDE DEF h, b
<1>5. /\ memo' \in Memos /\ heads' \in Objects /\ HeadsStay(heads, heads')
      /\ cur' \in Index /\ cur' <= buf /\ (pos + cur)' = Top.at
      /\ \A i \in Index, q \in Rules : SlotOK(heads', memo'[i][q], i, pos + buf)
      /\ frames' \in Seq(Frame) /\ frames' # <<>> /\ Len(frames') = Len(frames)
      /\ frames'[Len(frames)] = Regrown(h)
      /\ \A k \in 1 .. Len(frames) - 1 : frames'[k] = frames[k]
      /\ Calls(memo, heads, frames, pos, Here)'
  BY <1>1, <1>2, <1>3, <1>4, GrowStep
<1>6. /\ Len(frames) \in Nat /\ Len(frames) > 0 /\ frames[Len(frames)].mode = "seed"
      /\ Regrown(h).mode = "grow" /\ Regrown(h).at = Top.at /\ Top.at \in Index
      /\ frames \in Seq(Frame)
  <2>1. Top \in Frame
    BY <1>1, TopCall
  <2> QED BY <2>1, <1>1, TopCall DEF Regrown, Frame, IInv, TypeOK
<1>7. lrstack' \in Seq(LrEntry) /\ Bracketed(lrstack, frames)'
  <2>1. SameSeeds(1 .. Len(frames) - 1, frames, frames')
    BY <1>5, <1>6 DEF SameSeeds, SameSeed
  <2>2. lrstack \in Seq(LrEntry) /\ Bracketed(lrstack, frames)
    BY DEF IInv, TypeOK
  <2>3. Len(lrstack) > 0 /\ Bracketed(SubSeq(lrstack, 1, Len(lrstack) - 1), frames')
    BY <2>1, <2>2, <1>5, <1>6, BracketsPop
  <2> QED BY <2>2, <2>3, <1>4, Popped DEF PopLrStack
<1>8. head' \in [Index -> HeadId \cup {None}]
  BY <1>3, <1>4, <1>6 DEF IInv, TypeOK
<1>9. TypeOK' /\ Control' /\ AnswerOK(ans, frames)'
  <2>1. TypeOK'
    BY <1>4, <1>5, <1>7, <1>8 DEF IInv, TypeOK, Memos, Objects, Table
  <2>2. ctl = "body" /\ ans = None
    BY DEF ReturnSeed, InBody, IInv, Control
  <2> QED BY <2>1, <2>2, <1>4, <1>5 DEF Control, AnswerOK
<1>10. Slots(memo, heads, head, pos + buf)'
  <2>1. ASSUME NEW i \in Index PROVE HeadFrom(heads', head'[i], i)
    <3>1. CASE i = Top.at
      <4>1. head'[i] = h /\ HeadFrom(heads', h, i)
        BY <3>1, <1>3, <1>4, <1>5, HeadFromStays DEF IInv, TypeOK
      <4> QED BY <4>1
    <3>2. CASE i # Top.at
      <4>1. head'[i] = head[i] /\ head[i] \in HeadId \cup {None} /\ HeadFrom(heads, head[i], i)
        BY <3>2, <1>4 DEF IInv, TypeOK, Slots
      <4> QED BY <4>1, <1>5, HeadFromStays
    <3> QED BY <3>1, <3>2
  <2> QED BY <2>1, <1>4, <1>5 DEF Slots
<1>11. Scoped(head, frames)'
  <2>1. ASSUME NEW i \in Index, head'[i] # None
        PROVE  \E k \in 1 .. Len(frames') : frames'[k].mode = "grow" /\ frames'[k].at = i
    <3>1. CASE i = Top.at
      <4>1. /\ Len(frames) \in 1 .. Len(frames')
            /\ frames'[Len(frames)].mode = "grow" /\ frames'[Len(frames)].at = i
        BY <3>1, <1>5, <1>6
      <4> QED BY <4>1
    <3>2. CASE i # Top.at
      <4>1. head[i] # None
        BY <3>2, <2>1, <1>4 DEF IInv, TypeOK
      <4>2. PICK k \in 1 .. Len(frames) : frames[k].mode = "grow" /\ frames[k].at = i
        BY <4>1 DEF IInv, Scoped
      <4>3. k \in 1 .. Len(frames') /\ frames'[k] = frames[k]
        BY <4>2, <1>5, <1>6
      <4> QED BY <4>2, <4>3
    <3> QED BY <3>1, <3>2
  <2> QED BY <2>1 DEF Scoped
<1> QED BY <1>4, <1>5, <1>7, <1>9, <1>10, <1>11, Places DEF IInv

(* The seed grew.                                                           *)
LEMMA GrowAgainStep ==
  ASSUME IInv, NEW c \in Results(Top), GrowAgain(c)
  PROVE  IInv'
<1> DEFINE h == Top.head
           b == ChunkAnswer(Here, c)
<1>1. frames # <<>> /\ Occupies(Top) /\ Top.mode = "grow"
  BY DEF GrowAgain, InBody, IInv, Control, Occupies
<1>2. /\ b \in Answer /\ SlotOK(heads, b, Top.at, pos + buf) /\ b.type = "CHUNK" /\ b.chunk # None
  BY <1>1, NewAnswer DEF ChunkAnswer, GrowAgain, Grew
<1>3. h \in HeadId /\ h # None /\ HeadFrom(heads, h, Top.at)
  BY <1>1, TopCall DEF CallOK, Frame
<1>4. Store(Top, b) /\ GrowFrom(Top, h) /\ UNCHANGED <<inlen, pos, buf, head, lrstack, ctl, ans>>
  BY DEF GrowAgain
<1> HIDE DEF h, b
<1>5. /\ memo' \in Memos /\ heads' \in Objects /\ HeadsStay(heads, heads')
      /\ cur' \in Index /\ cur' <= buf /\ (pos + cur)' = Top.at
      /\ \A i \in Index, q \in Rules : SlotOK(heads', memo'[i][q], i, pos + buf)
      /\ frames' \in Seq(Frame) /\ frames' # <<>> /\ Len(frames') = Len(frames)
      /\ frames'[Len(frames)] = Regrown(h)
      /\ \A k \in 1 .. Len(frames) - 1 : frames'[k] = frames[k]
      /\ Calls(memo, heads, frames, pos, Here)'
  BY <1>1, <1>2, <1>3, <1>4, GrowStep
<1>6. /\ Len(frames) \in Nat /\ Len(frames) > 0 /\ frames[Len(frames)].mode = "grow"
      /\ Regrown(h).mode = "grow" /\ Regrown(h).at = frames[Len(frames)].at
      /\ frames \in Seq(Frame)
  <2>1. Top \in Frame
    BY <1>1, TopCall
  <2> QED BY <2>1, <1>1, TopCall DEF Regrown, Frame, IInv, TypeOK
<1>7. TypeOK' /\ Control' /\ AnswerOK(ans, frames)'
  <2>1. TypeOK'
    BY <1>4, <1>5 DEF IInv, TypeOK, Memos, Objects, Table
  <2>2. ctl = "body" /\ ans = None
    BY DEF GrowAgain, InBody, IInv, Control
  <2> QED BY <2>1, <2>2, <1>4, <1>5 DEF Control, AnswerOK
<1>8. Slots(memo, heads, head, pos + buf)'
  <2>1. ASSUME NEW i \in Index PROVE HeadFrom(heads', head[i], i)
    <3>1. head[i] \in HeadId \cup {None} /\ HeadFrom(heads, head[i], i)
      BY DEF IInv, TypeOK, Slots
    <3> QED BY <3>1, <1>5, HeadFromStays
  <2> QED BY <2>1, <1>4, <1>5 DEF Slots
<1>9. Scoped(head, frames)'
  <2>1. ASSUME NEW k \in 1 .. Len(frames), frames[k].mode = "grow"
        PROVE  k \in 1 .. Len(frames') /\ frames'[k].mode = "grow" /\ frames'[k].at = frames[k].at
    <3>1. CASE k = Len(frames)
      BY <3>1, <1>5, <1>6
    <3>2. CASE k # Len(frames)
      BY <2>1, <3>2, <1>5, <1>6
    <3> QED BY <3>1, <3>2
  <2>2. Scoped(head, frames')
    BY <2>1, ScopedStays DEF IInv
  <2> QED BY <2>2, <1>4
<1>10. Bracketed(lrstack, frames)'
  <2>1. SameSeeds(1 .. Len(frames), frames, frames')
    BY <1>5, <1>6 DEF SameSeeds, SameSeed
  <2>2. Bracketed(lrstack, frames')
    BY <2>1, <1>5, <1>6, BracketsKeep DEF IInv, TypeOK
  <2> QED BY <2>2, <1>4
<1> QED BY <1>4, <1>5, <1>7, <1>8, <1>9, <1>10, Places DEF IInv

(* The seed grew no further.                                                *)
LEMMA GrowStopStep ==
  ASSUME IInv, NEW c \in Results(Top), GrowStop(c)
  PROVE  IInv'
<1> DEFINE a == memo[Top.at][Top.rule]
<1> USE DEF GrowStop, Answering
<1>1. frames # <<>> /\ Occupies(Top) /\ Top.mode = "grow"
  BY DEF InBody, IInv, Control, Occupies
<1>2. /\ a \in Answer /\ SlotOK(heads, a, Top.at, pos + buf) /\ a # None
      /\ Top.at \in Index /\ Top.at \in Nat /\ pos <= Top.at
  BY <1>1, TopAnswer
<1>3. /\ a.pos \in Nat /\ Top.at <= a.pos /\ a.pos <= pos + buf
      /\ a.chunk \in Chunk \cup {None} /\ ChunkFrom(a.chunk, Top.at)
  BY <1>2 DEF SlotOK, Answer, Index
<1>4. cur' \in Index /\ cur' <= buf /\ (pos + cur)' = a.pos /\ Here' = a.pos
  <2>1. cur' = a.pos - pos /\ pos' = pos
    OBVIOUS
  <2> QED BY <2>1, <1>2, <1>3, Places DEF Index, Here
<1>5. HeadsStay(heads, heads')
  BY DEF HeadsStay
<1>6. \A k \in 1 .. Len(frames) - 1 : CallOK(memo', heads', frames[k], pos, Here')
  <2>1. \A k \in 1 .. Len(frames) - 1 : SameKind(memo, memo', frames[k])
    BY DEF SameKind
  <2> QED BY <2>1, <1>1, <1>3, <1>4, <1>5, LowerCalls
<1>7. /\ frames' \in Seq(Frame) /\ Len(frames') = Len(frames) - 1
      /\ \A k \in 1 .. Len(frames) - 1 : frames'[k] = frames[k]
      /\ Calls(memo, heads, frames, pos, Here)' /\ AnswerOK(a.chunk, frames')
  BY <1>1, <1>3, <1>4, <1>6, PopTop
<1>8. Len(frames) \in Nat /\ Len(frames) > 0 /\ Top = frames[Len(frames)]
  BY <1>1, TopCall
<1>9. head \in [Index -> HeadId \cup {None}] /\ head' \in [Index -> HeadId \cup {None}]
  BY DEF IInv, TypeOK
<1>10. TypeOK' /\ Control' /\ AnswerOK(ans, frames)'
  BY <1>3, <1>4, <1>7, <1>9 DEF IInv, TypeOK, Control
<1>11. Slots(memo, heads, head, pos + buf)'
  <2>1. ASSUME NEW i \in Index PROVE HeadFrom(heads, head'[i], i)
    <3>1. HeadFrom(heads, head[i], i)
      BY DEF IInv, Slots
    <3> QED BY <3>1, <1>9 DEF HeadFrom
  <2>2. \A i \in Index, q \in Rules : SlotOK(heads, memo[i][q], i, pos + buf)
    BY DEF IInv, Slots
  <2> QED BY <2>1, <2>2 DEF Slots
<1>12. Scoped(head, frames)'
  <2>1. ASSUME NEW i \in Index, head'[i] # None
        PROVE  \E k \in 1 .. Len(frames') : frames'[k].mode = "grow" /\ frames'[k].at = i
    <3>1. head[i] # None /\ i # Top.at
      BY <2>1, <1>9
    <3>2. PICK k \in 1 .. Len(frames) : frames[k].mode = "grow" /\ frames[k].at = i
      BY <3>1 DEF IInv, Scoped
    <3>3. k \in 1 .. Len(frames') /\ frames'[k] = frames[k]
      BY <3>1, <3>2, <1>7, <1>8
    <3> QED BY <3>2, <3>3
  <2> QED BY <2>1 DEF Scoped
<1>13. Bracketed(lrstack, frames)'
  <2>1. SameSeeds(1 .. Len(frames), frames, frames')
    BY <1>1, <1>7, <1>8 DEF SameSeeds, SameSeed
  <2>2. Bracketed(lrstack, frames')
    BY <2>1, <1>7, BracketsKeep DEF IInv, TypeOK
  <2> QED BY <2>2
<1> QED BY <1>4, <1>7, <1>10, <1>11, <1>12, <1>13 DEF IInv

(* What pcc_apply_rule does once rule(ctx) has returned.                    *)
LEMMA ReturnStep ==
  ASSUME IInv, NEW c \in Results(Top), Return(c)
  PROVE  IInv'
  BY ReturnHeldStep, ReturnPlainStep, ReturnInvolvedStep, ReturnNoSeedStep, ReturnSeedStep,
     GrowAgainStep, GrowStopStep DEF Return

(* The caller notes the chunk it was given.                                 *)
LEMMA ResumeStep ==
  ASSUME IInv, Resume
  PROVE  IInv'
<1> USE DEF Resume, tvars
<1>1. frames # <<>> /\ ans' = None /\ ctl' = "body" /\ Here' = Here
  BY DEF Here
<1>2. CASE ans = None
  <2>1. TypeOK' /\ Control' /\ AnswerOK(ans, frames)'
    BY <1>1, <1>2 DEF IInv, TypeOK, Control, AnswerOK
  <2>2. UNCHANGED <<inlen, pos, cur, buf, memo, head, heads, lrstack, frames>>
    BY <1>2
  <2> QED BY <2>1, <2>2, <1>1 DEF IInv
<1>3. CASE ans # None
  <2> DEFINE g == [Top EXCEPT !.refs = @ \cup {ans.at}]
  <2>1. /\ ans.at \in Index /\ Top.at <= ans.at
    BY <1>1, <1>3 DEF IInv, AnswerOK, Top
  <2>2. /\ Len(frames) \in Nat /\ Len(frames) > 0 /\ Top \in Frame /\ frames \in Seq(Frame)
        /\ Top = frames[Len(frames)] /\ CallOK(memo, heads, Top, pos, Here)
    BY <1>1, TopCall DEF IInv, TypeOK
  <2>3. /\ g \in Frame /\ g.at = Top.at /\ g.rule = Top.rule /\ g.mode = Top.mode
        /\ g.head = Top.head /\ g.refs = Top.refs \cup {ans.at}
    BY <2>1, <2>2 DEF Frame, Place
  <2>4. frames' = [frames EXCEPT ![Len(frames)] = g]
    BY <1>3, <2>2
  <2> HIDE DEF g
  <2>5. /\ frames' \in Seq(Frame) /\ frames' # <<>> /\ Len(frames') = Len(frames)
        /\ frames'[Len(frames)] = g
        /\ \A k \in 1 .. Len(frames) - 1 : frames'[k] = frames[k]
    BY <2>2, <2>3, <2>4
  <2>6. ASSUME NEW k \in 1 .. Len(frames)
        PROVE  /\ frames'[k].at = frames[k].at /\ frames'[k].rule = frames[k].rule
               /\ frames'[k].mode = frames[k].mode
               /\ CallOK(memo, heads, frames'[k], pos, Here)
    <3>1. CASE k = Len(frames)
      <4>1. RefsFrom(g.refs, g.at)
        BY <2>1, <2>2, <2>3 DEF CallOK, RefsFrom
      <4>2. HasAnswer(memo, g)
        BY <2>2, <2>3 DEF CallOK, HasAnswer, Occupies
      <4>3. CallOK(memo, heads, g, pos, Here)
        BY <4>1, <4>2, <2>2, <2>3 DEF CallOK
      <4> QED BY <3>1, <4>3, <2>2, <2>3, <2>5
    <3>2. CASE k \in 1 .. Len(frames) - 1
      BY <3>2, <2>5, EachCall
    <3> QED BY <3>1, <3>2, <2>2
  <2>7. Calls(memo, heads, frames, pos, Here)'
    <3>1. Nested(frames')
      BY <2>5, <2>6 DEF IInv, Calls, Nested, Occupies, Entry
    <3>2. Calls(memo, heads, frames', pos, Here)
      BY <3>1, <2>5, <2>6 DEF Calls
    <3> QED BY <3>2, <1>1
  <2>8. TypeOK' /\ Control' /\ AnswerOK(ans, frames)'
    BY <1>1, <2>5 DEF IInv, TypeOK, Control, AnswerOK
  <2>9. Scoped(head, frames)'
    <3>1. Scoped(head, frames')
      BY <2>5, <2>6, ScopedStays DEF IInv
    <3> QED BY <3>1
  <2>10. Bracketed(lrstack, frames)'
    <3>1. SameSeeds(1 .. Len(frames), frames, frames')
      BY <2>5, <2>6 DEF SameSeeds, SameSeed
    <3>2. Bracketed(lrstack, frames')
      BY <3>1, <2>2, <2>5, BracketsKeep DEF IInv, TypeOK
    <3> QED BY <3>2
  <2>11. UNCHANGED <<inlen, pos, cur, buf, memo, head, heads>>
    OBVIOUS
  <2> HIDE DEF Resume
  <2> QED BY <2>7, <2>8, <2>9, <2>10, <2>11 DEF IInv
<1> QED BY <1>2, <1>3

-----------------------------------------------------------------------------
(* The steps of pcc_parse.                                                 *)

(* A place at or after the commit point keeps its order when it moves.      *)
LEMMA MovedPlace ==
  ASSUME NEW c \in Nat, NEW i \in Nat, NEW j \in Index, i + c <= j
  PROVE  Moved(j, c) \in Index /\ Moved(j, c) = j - c /\ i <= Moved(j, c)
<1>1. j \in Nat /\ j <= MaxInput /\ MaxInput \in Nat
  BY BoundsAssumption DEF Index
<1>2. j >= c
  BY <1>1
<1>3. Moved(j, c) = j - c
  BY <1>2 DEF Moved
<1>4. j - c \in Index /\ i <= j - c
  BY <1>1 DEF Index
<1> QED BY <1>3, <1>4

(* Committing keeps the types of what it renames.                           *)
LEMMA MovedTypes ==
  ASSUME NEW c \in Nat
  PROVE  /\ \A h \in HeadId \cup {None} : MovedHead(h, c) \in HeadId \cup {None}
         /\ \A k \in Chunk : MovedChunk(k, c) \in Chunk
         /\ \A a \in Answer : MovedAnswer(a, c) \in Answer
         /\ \A a \in Answer \cup {None} : MovedAnswer(a, c) \in Answer \cup {None}
<1>1. ASSUME NEW i \in Place PROVE Moved(i, c) \in Place
  BY BoundsAssumption DEF Moved, Place, Freed, Index
<1>2. ASSUME NEW h \in HeadId \cup {None} PROVE MovedHead(h, c) \in HeadId \cup {None}
  BY <1>1 DEF MovedHead, HeadId
<1>3. ASSUME NEW k \in Chunk PROVE MovedChunk(k, c) \in Chunk
  <2>1. {Moved(i, c) : i \in k.refs} \subseteq Place
    BY <1>1 DEF Chunk
  <2>2. k # None
    BY NoneAssumption
  <2> QED BY <2>1, <2>2, <1>1 DEF MovedChunk, Chunk
<1>4. ASSUME NEW a \in Answer PROVE MovedAnswer(a, c) \in Answer
  <2>1. a # None /\ a.chunk \in Chunk \cup {None} /\ a.head \in HeadId \cup {None}
    BY NoneAssumption DEF Answer
  <2>2. MovedChunk(a.chunk, c) \in Chunk \cup {None}
    BY <2>1, <1>3 DEF MovedChunk
  <2>3. MovedHead(a.head, c) \in HeadId \cup {None}
    BY <2>1, <1>2
  <2> QED BY <2>1, <2>2, <2>3 DEF MovedAnswer, Answer
<1>5. MovedAnswer(None, c) = None
  BY DEF MovedAnswer
<1> QED BY <1>2, <1>3, <1>4, <1>5

(* A head at or after the commit point stays live under its new name.       *)
LEMMA MovedHeadFrom ==
  ASSUME NEW hs, NEW gs, NEW c \in Nat, NEW i \in Index, NEW h \in HeadId \cup {None},
         HeadFrom(hs, h, i + c),
         \A j \in Index, r \in Rules : j + c \in Index => gs[j][r] = hs[j + c][r]
  PROVE  HeadFrom(gs, MovedHead(h, c), i)
<1> SUFFICES ASSUME h # None PROVE HeadFrom(gs, MovedHead(h, c), i)
  BY DEF MovedHead, HeadFrom
<1>1. h \in HeadId /\ h.at \in Index /\ i + c <= h.at /\ hs[h.at][h.rule] # None /\ h.rule \in Rules
  BY DEF HeadFrom, HeadId
<1>2. Moved(h.at, c) \in Index /\ i <= Moved(h.at, c) /\ Moved(h.at, c) = h.at - c
  <2>1. i \in Nat
    BY DEF Index
  <2> QED BY <2>1, <1>1, MovedPlace
<1>3. Moved(h.at, c) + c = h.at
  BY <1>1, <1>2 DEF Index
<1>4. gs[Moved(h.at, c)][h.rule] # None
  BY <1>1, <1>2, <1>3
<1>5. MovedHead(h, c).at = Moved(h.at, c) /\ MovedHead(h, c).rule = h.rule
  BY <1>1 DEF MovedHead, HeadId
<1> QED BY <1>2, <1>4, <1>5 DEF HeadFrom

(* So do a chunk there and the chunks it points to.                         *)
LEMMA MovedChunkFrom ==
  ASSUME NEW c \in Nat, NEW i \in Index, NEW k \in Chunk \cup {None}, ChunkFrom(k, i + c), i + c \in Index
  PROVE  ChunkFrom(MovedChunk(k, c), i)
<1> SUFFICES ASSUME k # None PROVE ChunkFrom(MovedChunk(k, c), i)
  BY DEF MovedChunk, ChunkFrom
<1>1. k \in Chunk /\ k.at = i + c /\ RefsFrom(k.refs, i + c) /\ i \in Nat
  BY DEF ChunkFrom, Index
<1>2. MovedChunk(k, c).at = Moved(k.at, c) /\ MovedChunk(k, c).refs = {Moved(j, c) : j \in k.refs}
  BY <1>1 DEF MovedChunk, Chunk
<1>3. Moved(k.at, c) = i
  BY <1>1 DEF Moved
<1>4. RefsFrom({Moved(j, c) : j \in k.refs}, i)
  BY <1>1, MovedPlace DEF RefsFrom
<1> QED BY <1>2, <1>3, <1>4 DEF ChunkFrom

(* So does an answer there; its position is absolute and does not move.     *)
LEMMA MovedSlot ==
  ASSUME NEW hs, NEW gs, NEW c \in Nat, NEW i \in Index, NEW a \in Answer,
         NEW end \in Int, NEW later \in Int, end <= later, i + c \in Index,
         SlotOK(hs, a, i + c, end),
         \A j \in Index, r \in Rules : j + c \in Index => gs[j][r] = hs[j + c][r]
  PROVE  SlotOK(gs, MovedAnswer(a, c), i, later)
<1>1. a # None
  BY NoneAssumption
<1>2. /\ a.pos \in Index /\ a.head \in HeadId \cup {None} /\ a.chunk \in Chunk \cup {None}
      /\ i + c <= a.pos /\ a.pos <= end
      /\ HeadFrom(hs, a.head, i + c) /\ ChunkFrom(a.chunk, i + c)
  BY <1>1 DEF SlotOK, Answer
<1> DEFINE b == MovedAnswer(a, c)
<1>3. /\ b.pos = a.pos
      /\ b.head = MovedHead(a.head, c)
      /\ b.chunk = MovedChunk(a.chunk, c)
  BY <1>1 DEF MovedAnswer, Answer
<1> HIDE DEF b
<1>4. i <= b.pos /\ b.pos <= later
  BY <1>2, <1>3 DEF Index
<1>5. HeadFrom(gs, b.head, i)
  <2>1. HeadFrom(gs, MovedHead(a.head, c), i)
    BY ONLY <1>2, MovedHeadFrom, c \in Nat, i \in Index,
       \A j \in Index, r \in Rules : j + c \in Index => gs[j][r] = hs[j + c][r]
  <2> QED BY <2>1, <1>3
<1>6. ChunkFrom(b.chunk, i)
  BY <1>2, <1>3, MovedChunkFrom
<1>7. SlotOK(gs, b, i, later)
  BY <1>4, <1>5, <1>6 DEF SlotOK
<1> QED BY <1>7 DEF b

(* pcc_parse commits what it parsed.                                        *)
LEMMA ParseReturnStep ==
  ASSUME IInv, ParseReturn
  PROVE  IInv'
<1> USE DEF ParseReturn, CommitBuffer
<1>1. /\ pos' = pos + cur /\ cur' = 0 /\ inlen' = inlen /\ frames' = <<>> /\ frames = <<>>
      /\ buf' = IF buf > cur THEN buf - cur ELSE IF inlen - pos > buf THEN 1 ELSE 0
      /\ lrstack' = lrstack /\ ctl' = "idle" /\ ans' = None
  OBVIOUS
<1>2. /\ pos' \in Index /\ cur' \in Index /\ buf' \in Index /\ cur' <= buf'
      /\ (pos + buf)' <= inlen' /\ (pos + buf)' \in Int /\ pos + buf <= (pos + buf)'
  <2>1. /\ cur <= buf /\ pos + buf <= inlen /\ inlen <= MaxInput
        /\ MaxInput \in Nat /\ inlen \in Nat /\ pos \in Nat /\ cur \in Nat /\ buf \in Nat
    BY Places
  <2>2. CASE buf > cur
    <3>1. buf' = buf - cur
      BY <1>1, <2>2
    <3> QED BY ONLY <1>1, <2>1, <2>2, <3>1 DEF Index
  <2>3. CASE ~ (buf > cur)
    <3>1. cur = buf /\ buf' = (IF inlen - pos > buf THEN 1 ELSE 0)
      BY <1>1, <2>1, <2>3
    <3> QED BY ONLY <1>1, <2>1, <3>1 DEF Index
  <2> QED BY ONLY <2>2, <2>3
<1>3. \A i \in Index, r \in Rules :
        /\ memo'[i][r] = IF i + cur \in Index THEN MovedAnswer(memo[i + cur][r], cur) ELSE None
        /\ heads'[i][r] = IF i + cur \in Index THEN heads[i + cur][r] ELSE None
        /\ head'[i] = IF i + cur \in Index THEN MovedHead(head[i + cur], cur) ELSE None
  OBVIOUS
<1>4. \A i \in Index, r \in Rules :
        /\ memo[i][r] \in Answer \cup {None} /\ heads[i][r] \in LrHead \cup {None}
        /\ head[i] \in HeadId \cup {None}
  BY DEF IInv, TypeOK
<1>5. \A i \in Index, r \in Rules :
        /\ memo'[i][r] \in Answer \cup {None} /\ heads'[i][r] \in LrHead \cup {None}
        /\ head'[i] \in HeadId \cup {None}
  BY <1>3, <1>4, Places, MovedTypes
<1>6. TypeOK'
  <2>1. memo' \in [Index -> [Rules -> Answer \cup {None}]]
    BY <1>3, <1>5
  <2>2. heads' \in [Index -> [Rules -> LrHead \cup {None}]]
    BY <1>3, <1>5
  <2>3. head' \in [Index -> HeadId \cup {None}]
    <3>1. head' = [i \in Index |-> IF i + cur \in Index THEN MovedHead(head[i + cur], cur) ELSE None]
      OBVIOUS
    <3>2. Rules # {}
      BY StartAssumption
    <3> QED BY <3>1, <3>2, <1>5
  <2> QED BY <2>1, <2>2, <2>3, <1>1, <1>2 DEF IInv, TypeOK
<1>7. Control' /\ AnswerOK(ans, frames)'
  BY <1>1 DEF Control, AnswerOK
<1>8. Slots(memo, heads, head, pos + buf)'
  <2>1. \A j \in Index, r \in Rules : j + cur \in Index => heads'[j][r] = heads[j + cur][r]
    BY <1>3
  <2>2. ASSUME NEW i \in Index PROVE HeadFrom(heads', head'[i], i)
    <3>1. CASE i + cur \in Index
      <4>1. HeadFrom(heads, head[i + cur], i + cur) /\ head[i + cur] \in HeadId \cup {None}
        BY <3>1, StartAssumption, <1>4 DEF IInv, Slots
      <4>2. HeadFrom(heads', MovedHead(head[i + cur], cur), i)
        BY <4>1, <2>1, Places, MovedHeadFrom
      <4>3. head'[i] = MovedHead(head[i + cur], cur)
        BY <3>1, <1>3, StartAssumption
      <4> QED BY <4>2, <4>3
    <3>2. CASE i + cur \notin Index
      BY <3>2, <1>3, StartAssumption DEF HeadFrom
    <3> QED BY <3>1, <3>2
  <2>3. ASSUME NEW i \in Index, NEW r \in Rules, memo'[i][r] # None
        PROVE  SlotOK(heads', memo'[i][r], i, (pos + buf)')
    <3>1. i + cur \in Index /\ memo'[i][r] = MovedAnswer(memo[i + cur][r], cur)
      BY <2>3, <1>3
    <3>2. /\ memo[i + cur][r] \in Answer
          /\ SlotOK(heads, memo[i + cur][r], i + cur, pos + buf)
      BY <2>3, <3>1, <1>4 DEF MovedAnswer, IInv, Slots
    <3>3. pos + buf \in Int /\ cur \in Nat
      BY Places
    <3> QED BY <3>1, <3>2, <3>3, <2>1, <1>2, MovedSlot
  <2>4. \A i \in Index, r \in Rules : SlotOK(heads', memo'[i][r], i, (pos + buf)')
    BY <2>3 DEF SlotOK
  <2>5. Slots(memo', heads', head', (pos + buf)')
    BY <2>2, <2>4 DEF Slots
  <2> QED BY <2>5
<1>9. Calls(memo, heads, frames, pos, Here)'
  BY <1>1 DEF Calls, Nested
<1>10. Scoped(head, frames)'
  <2>1. ASSUME NEW i \in Index, head'[i] # None PROVE FALSE
    <3>1. i + cur \in Index /\ head[i + cur] # None
      BY <2>1, <1>3, StartAssumption DEF MovedHead
    <3> QED BY <3>1, <1>1 DEF IInv, Scoped
  <2> QED BY <2>1 DEF Scoped
<1>11. Bracketed(lrstack, frames)'
  BY <1>1 DEF IInv
<1> QED BY <1>2, <1>6, <1>7, <1>8, <1>9, <1>10, <1>11 DEF IInv

(* PCC_ERROR ends the process.                                              *)
LEMMA ParseErrorStep ==
  ASSUME IInv, ParseError
  PROVE  IInv'
<1> USE DEF ParseError, tvars
<1>1. TypeOK'
  BY DEF IInv, TypeOK
<1>2. Control' /\ AnswerOK(ans, frames)'
  BY DEF Control, AnswerOK
<1>3. Here' = Here
  BY DEF Here
<1> QED BY <1>1, <1>2, <1>3 DEF IInv

-----------------------------------------------------------------------------
(* The inductive invariant.                                                *)

(* pcc_create leaves an empty table.                                        *)
LEMMA InitIInv ==
  ASSUME Init
  PROVE  IInv
<1> USE DEF Init
<1>1. 0 \in Index /\ inlen \in Nat
  BY BoundsAssumption DEF Index
<1>2. TypeOK
  BY <1>1 DEF TypeOK
<1>3. Control /\ AnswerOK(ans, frames)
  BY DEF Control, AnswerOK
<1>4. Slots(memo, heads, head, pos + buf)
  BY DEF Slots, SlotOK, HeadFrom
<1>5. Calls(memo, heads, frames, pos, Here) /\ Scoped(head, frames)
  BY DEF Calls, Nested, Scoped
<1>6. Bracketed(lrstack, frames)
  <2>1. Brackets(<<>>, lrstack, frames) /\ <<>> \in [1 .. Len(lrstack) -> 1 .. Len(frames)]
    BY DEF Brackets
  <2> QED BY <2>1 DEF Bracketed
<1>7. cur <= buf /\ pos + buf <= inlen
  BY <1>1
<1> QED BY <1>2, <1>3, <1>4, <1>5, <1>6, <1>7 DEF IInv

(* Every step keeps the invariant.                                          *)
LEMMA NextIInv ==
  ASSUME IInv, [Next]_vars
  PROVE  IInv'
<1>1. CASE ParseCall
  BY <1>1, ApplyStep, StartAssumption DEF ParseCall
<1>2. CASE \E c, b \in Index : Scan(c, b)
  BY <1>2, ScanStep
<1>3. CASE \E r \in Rules : BodyApply(r)
  BY <1>3, ApplyStep DEF BodyApply, InBody
<1>4. CASE \E c \in Results(Top) : Return(c)
  BY <1>4, ReturnStep
<1>5. CASE Resume
  BY <1>5, ResumeStep
<1>6. CASE ParseReturn
  BY <1>6, ParseReturnStep
<1>7. CASE ParseError
  BY <1>7, ParseErrorStep
<1>8. CASE UNCHANGED vars
  <2>1. UNCHANGED <<inlen, pos, cur, buf, memo, head, heads, lrstack, frames, ctl, ans>>
    BY <1>8 DEF vars
  <2>2. Here' = Here /\ TypeOK' /\ Control'
    BY <2>1 DEF Here, IInv, TypeOK, Control
  <2> QED BY <2>1, <2>2 DEF IInv
<1> QED BY <1>1, <1>2, <1>3, <1>4, <1>5, <1>6, <1>7, <1>8 DEF Next, Exited

(* Every reachable state of every generated parser satisfies IInv.          *)
THEOREM Invariance == Spec => []IInv
<1>1. Init => IInv
  BY InitIInv
<1>2. IInv /\ [Next]_vars => IInv'
  BY NextIInv
<1> QED BY <1>1, <1>2, PTL DEF Spec

-----------------------------------------------------------------------------
(* The properties of PackratRuntime.                                       *)

(* Every variable of the run time keeps its type: the memo table, the LR    *)
(* stack and the rule sets of the heads, through all the steps of           *)
(* pcc_apply_rule and pcc_parse.                                            *)
THEOREM TypeCorrect == Spec => []TypeOK
<1>1. IInv => TypeOK
  BY DEF IInv
<1> QED BY <1>1, Invariance, PTL

(* Recalling a memoized answer never computes a negative position and never *)
(* leaves the buffer, whatever was committed before.                        *)
THEOREM BuffersSafe == Spec => []RecallsInBuffer
<1>1. IInv => RecallsInBuffer
  BY DEF IInv, RecallsInBuffer, Slots, SlotOK
<1> QED BY <1>1, Invariance, PTL

(* Pushes and pops of the LR stack pair up, and an entry's answer is a      *)
(* seedless LR answer for as long as the entry is on the stack.             *)
THEOREM StackDisciplined == Spec => []StackDiscipline
<1>1. ASSUME IInv PROVE StackDiscipline
  <2>1. \E m \in [1 .. Len(lrstack) -> 1 .. Len(frames)] : Brackets(m, lrstack, frames)
    BY <1>1 DEF IInv, Bracketed
  <2>2. ASSUME NEW k \in 1 .. Len(frames), frames[k].mode = "seed"
        PROVE  LET a == memo[frames[k].at][frames[k].rule] IN
               a # None /\ a.type = "LR" /\ a.chunk = None
    BY <1>1, <2>2, EachCall DEF CallOK, HasAnswer, Occupies
  <2> QED BY <2>1, <2>2 DEF StackDiscipline
<1> QED BY <1>1, Invariance, PTL

(* A growth head is installed at an index only while a call grows a seed    *)
(* there.                                                                   *)
THEOREM HeadsScoped == Spec => []HeadScoped
<1>1. IInv => HeadScoped
  BY DEF IInv, HeadScoped, Scoped
<1> QED BY <1>1, Invariance, PTL

(* No answer, growth head, call or result points to what                    *)
(* pcc_commit_buffer freed.                                                 *)
THEOREM NothingDangles == Spec => []NoDangling
<1>1. ASSUME IInv PROVE NoDangling
  <2>1. ASSUME NEW i \in Index PROVE LiveHead(head[i])
    BY <1>1 DEF IInv, Slots, HeadFrom, LiveHead
  <2>2. ASSUME NEW i \in Index, NEW r \in Rules, memo[i][r] # None
        PROVE  /\ LiveHead(memo[i][r].head)
               /\ LiveChunk(memo[i][r].chunk)
               /\ memo[i][r].chunk # None => memo[i][r].chunk.at = i
    <3>1. SlotOK(heads, memo[i][r], i, pos + buf)
      BY <1>1 DEF IInv, Slots
    <3>2. HeadFrom(heads, memo[i][r].head, i) /\ ChunkFrom(memo[i][r].chunk, i)
      BY <2>2, <3>1 DEF SlotOK
    <3> QED BY <3>2 DEF HeadFrom, ChunkFrom, RefsFrom, LiveHead, LiveChunk
  <2>3. ASSUME NEW k \in 1 .. Len(frames)
        PROVE  LiveHead(frames[k].head) /\ frames[k].refs \subseteq Index
    <3>1. CallOK(memo, heads, frames[k], pos, Here)
      BY <1>1, EachCall
    <3> QED BY <3>1 DEF CallOK, HeadFrom, RefsFrom, LiveHead
  <2>4. LiveChunk(ans)
    BY <1>1 DEF IInv, AnswerOK, RefsFrom, LiveChunk
  <2> QED BY <2>1, <2>2, <2>3, <2>4 DEF NoDangling
<1> QED BY <1>1, Invariance, PTL

-----------------------------------------------------------------------------
(* The memo table keeps what packrat parsing promises.                     *)

(* What is known of a rule.                                                 *)
LEMMA KnownAt ==
  ASSUME NEW i \in Index, NEW q \in Rules
  PROVE  /\ Known[i][q] = IF Memoized(i, q) THEN [match |-> memo[i][q].chunk, end |-> memo[i][q].pos]
                          ELSE None
         /\ Known'[i][q] = IF Memoized(i, q)'
                           THEN [match |-> memo'[i][q].chunk, end |-> memo'[i][q].pos] ELSE None
  BY DEF Known, Memoized

(* Nothing more is known, or less.                                          *)
LEMMA KnownKept ==
  ASSUME \A i \in Index, q \in Rules :
           /\ Memoized(i, q)' = Memoized(i, q)
           /\ Memoized(i, q) => memo'[i][q].chunk = memo[i][q].chunk /\ memo'[i][q].pos = memo[i][q].pos
  PROVE  Known' = Known
<1> DEFINE K(m, i, q) == IF m[i][q] # None /\ m[i][q].type = "CHUNK"
                         THEN [match |-> m[i][q].chunk, end |-> m[i][q].pos] ELSE None
<1>1. /\ Known = [i \in Index |-> [q \in Rules |-> K(memo, i, q)]]
      /\ Known' = [i \in Index |-> [q \in Rules |-> K(memo', i, q)]]
  BY DEF Known, Memoized
<1>2. \A i \in Index, q \in Rules : K(memo', i, q) = K(memo, i, q)
  BY DEF Memoized
<1> HIDE DEF K
<1> QED BY <1>1, <1>2

(* pcc_apply_rule makes nothing known before it calls rule(ctx).            *)
LEMMA ApplyLearns ==
  ASSUME IInv, NEW r \in Rules, Apply(r)
  PROVE  Known' = Known
<1>1. CASE ApplyBlocked(r) \/ ApplyInvolved(r) \/ RecallChunk(r)
  <2>1. memo' = memo
    BY <1>1 DEF ApplyBlocked, ApplyInvolved, RecallChunk, tvars
  <2> QED BY <2>1 DEF Known, Memoized
<1>2. CASE ApplyFresh(r)
  <2>1. /\ memo' = Put(memo, Here, r, LrAnswer(Here)) /\ memo[Here][r] = None
        /\ memo \in Memos /\ Here \in Index /\ LrAnswer(Here) \in Answer \cup {None}
        /\ LrAnswer(Here).type = "LR"
    BY <1>2, Places DEF ApplyFresh, Put, IInv, TypeOK, Memos, Table, LrAnswer, Answer
  <2>2. /\ memo'[Here][r] = LrAnswer(Here)
        /\ \A i \in Index, q \in Rules : i # Here \/ q # r => memo'[i][q] = memo[i][q]
    BY <2>1, Stored DEF Memos
  <2> QED BY <2>1, <2>2, KnownKept DEF Memoized
<1>3. CASE RecallLR(r)
  BY <1>3, RecallLRMarks, KnownKept DEF Memoized
<1> QED BY <1>1, <1>2, <1>3 DEF Apply

(* What is known after the result c of the top call has been stored.        *)
LEMMA ResultKnown ==
  ASSUME IInv, frames # <<>>, Occupies(Top), NEW c \in Results(Top), Store(Top, ChunkAnswer(Here, c)),
         UNCHANGED <<pos, buf>>
  PROVE  /\ Top.at \in Index /\ Top.rule \in Rules
         /\ Known'[Top.at][Top.rule] = [match |-> c, end |-> Here]
         /\ Known'[Top.at][Top.rule] # None
         /\ Memo!Only(Top.at, Top.rule)
<1> DEFINE b == ChunkAnswer(Here, c)
           o == [match |-> c, end |-> Here]
<1>1. b \in Answer /\ b.type = "CHUNK" /\ b.chunk = c /\ b.pos = Here
  BY NewAnswer DEF ChunkAnswer
<1> HIDE DEF b
<1>2. /\ Top.at \in Index /\ Top.rule \in Rules /\ b # None
      /\ memo'[Top.at][Top.rule] = b
      /\ \A i \in Index, q \in Rules : i # Top.at \/ q # Top.rule => memo'[i][q] = memo[i][q]
  BY <1>1, TopStored DEF b
<1>3. Known'[Top.at][Top.rule] = o
  BY <1>1, <1>2, KnownAt DEF Memoized
<1>4. o \in Outcome /\ o # None /\ Here \in Top.at .. pos + buf
  <2>1. c \in Chunk \cup {None}
    BY ResultFits
  <2>2. o \in Outcome
    BY <2>1, Places DEF Outcome
  <2>3. Here \in Int /\ Top.at <= Here /\ Here <= pos + buf /\ Top.at \in Int /\ pos + buf \in Int
    BY TopAnswer, Places
  <2> QED BY <2>2, <2>3, NoneAssumption
<1> HIDE DEF o
<1>5. Known' = [Known EXCEPT ![Top.at][Top.rule] = o]
  <2>1. ASSUME NEW i \in Index, NEW q \in Rules, i # Top.at \/ q # Top.rule
        PROVE  Known'[i][q] = Known[i][q]
    <3>1. memo'[i][q] = memo[i][q]
      BY <2>1, <1>2
    <3> QED BY <3>1, KnownAt DEF Memoized
  <2> DEFINE K(i, q) == Known[i][q]
             N(i, q) == Known'[i][q]
  <2>2. /\ Known = [i \in Index |-> [q \in Rules |-> K(i, q)]]
        /\ Known' = [i \in Index |-> [q \in Rules |-> N(i, q)]]
    BY DEF Known
  <2>3. /\ \A i \in Index, q \in Rules : i # Top.at \/ q # Top.rule => N(i, q) = K(i, q)
        /\ N(Top.at, Top.rule) = o
    BY <2>1, <1>3
  <2> HIDE DEF K, N
  <2>4. [Known EXCEPT ![Top.at][Top.rule] = o]
          = [i \in Index |-> [q \in Rules |-> IF i = Top.at /\ q = Top.rule THEN o ELSE K(i, q)]]
    BY <2>2, <1>2
  <2> QED BY <2>2, <2>3, <2>4
<1>6. o.end = Here
  BY DEF o
<1> QED BY <1>2, <1>3, <1>4, <1>5, <1>6 DEF Memo!Only, o

(* What rule(ctx) returns settles what its rule yields, or makes it longer. *)
LEMMA ReturnLearns ==
  ASSUME IInv, NEW c \in Results(Top), Return(c)
  PROVE  Memo!Learn \/ UNCHANGED <<Known, pos + buf, pos>>
<1>1. frames # <<>> /\ UNCHANGED <<pos, buf>>
  BY Zenon DEF Return, ReturnHeld, ReturnPlain, ReturnInvolved, ReturnNoSeed, ReturnSeed, GrowAgain,
     GrowStop, InBody, IInv, Control
<1>2. UNCHANGED <<pos + buf, pos>>
  BY <1>1
<1>3. CASE ReturnHeld(c) \/ GrowStop(c)
  <2>1. memo' = memo
    BY <1>3 DEF ReturnHeld, GrowStop, tvars
  <2> QED BY <1>2, <2>1 DEF Known, Memoized
<1>4. CASE ReturnInvolved(c)
  <2> DEFINE a == memo[Top.at][Top.rule]
             b == [a EXCEPT !.pos = Here, !.chunk = c]
  <2>1. Occupies(Top) /\ Top.mode = "seed" /\ Store(Top, b)
    BY <1>4 DEF ReturnInvolved, Occupies
  <2>2. a \in Answer /\ a.type = "LR"
    BY <1>1, <2>1, TopAnswer, TopCall DEF CallOK, HasAnswer
  <2>3. b \in Answer /\ b.type = "LR"
    BY <1>1, <2>1, <2>2, ResultFits, Places DEF Answer
  <2> HIDE DEF b
  <2>4. /\ memo'[Top.at][Top.rule] = b
        /\ \A i \in Index, q \in Rules : i # Top.at \/ q # Top.rule => memo'[i][q] = memo[i][q]
    BY <1>1, <2>1, <2>3, TopStored
  <2>5. ASSUME NEW i \in Index, NEW q \in Rules
        PROVE  /\ Memoized(i, q)' = Memoized(i, q)
               /\ Memoized(i, q) => memo'[i][q].chunk = memo[i][q].chunk /\ memo'[i][q].pos = memo[i][q].pos
    BY <2>2, <2>3, <2>4 DEF Memoized
  <2>6. Known' = Known
    BY <2>5, KnownKept
  <2> QED BY <1>2, <2>6
<1>5. CASE ReturnPlain(c) \/ ReturnNoSeed(c) \/ ReturnSeed(c)
  <2>1. Occupies(Top) /\ Top.mode = "seed" /\ \E d \in Results(Top) : Store(Top, ChunkAnswer(Here, d))
    BY <1>5 DEF ReturnPlain, ReturnNoSeed, ReturnSeed, Occupies, Results
  <2>2. /\ Top.at \in Index /\ Top.rule \in Rules /\ Memo!Only(Top.at, Top.rule)
        /\ Known'[Top.at][Top.rule] # None
    BY <1>1, <2>1, ResultKnown
  <2>3. Known[Top.at][Top.rule] = None
    <3>1. memo[Top.at][Top.rule].type = "LR"
      BY <1>1, <2>1, TopCall DEF CallOK, HasAnswer
    <3> QED BY <2>2, <3>1, KnownAt DEF Memoized
  <2>4. Memo!Settle(Top.at, Top.rule)
    BY <2>2, <2>3 DEF Memo!Settle
  <2> QED BY <1>2, <2>2, <2>3, <2>4 DEF Memo!Learn
<1>6. CASE GrowAgain(c)
  <2> DEFINE a == memo[Top.at][Top.rule]
  <2>1. /\ Occupies(Top) /\ Top.mode = "grow" /\ Store(Top, ChunkAnswer(Here, c))
        /\ c # None /\ Here > a.pos
    BY <1>6 DEF GrowAgain, Grew, Occupies
  <2>2. /\ Top.at \in Index /\ Top.rule \in Rules /\ Memo!Only(Top.at, Top.rule)
        /\ Known'[Top.at][Top.rule] # None
        /\ Known'[Top.at][Top.rule] = [match |-> c, end |-> Here]
    BY <1>1, <2>1, ResultKnown
  <2>3. a # None /\ a.type = "CHUNK" /\ a.chunk # None /\ a \in Answer
    BY <1>1, <2>1, TopCall, TopAnswer DEF CallOK, HasAnswer
  <2>4. Known[Top.at][Top.rule] = [match |-> a.chunk, end |-> a.pos]
    BY <2>2, <2>3, KnownAt DEF Memoized
  <2>5. Known[Top.at][Top.rule] # None
    <3>1. [match |-> a.chunk, end |-> a.pos] \in Outcome
      BY <2>3 DEF Answer, Outcome
    <3> QED BY <2>4, <3>1, NoneAssumption
  <2>6. /\ Known[Top.at][Top.rule].match # None /\ Known'[Top.at][Top.rule].match # None
        /\ Known'[Top.at][Top.rule].end > Known[Top.at][Top.rule].end
    BY <2>1, <2>2, <2>3, <2>4
  <2>7. Memo!Grow(Top.at, Top.rule)
    BY <2>2, <2>5, <2>6 DEF Memo!Grow
  <2>8. Known' # Known
    <3>1. Here \in Int /\ a.pos \in Int
      BY <2>3, Places DEF Answer, Index
    <3>2. Known'[Top.at][Top.rule].end # Known[Top.at][Top.rule].end
      BY <2>1, <2>2, <2>4, <3>1
    <3> QED BY <3>2
  <2> QED BY <1>2, <2>2, <2>7, <2>8 DEF Memo!Learn
<1> QED BY <1>3, <1>4, <1>5, <1>6 DEF Return


(* A commit of nothing changes no answer.                                   *)
LEMMA NothingMoved ==
  ASSUME IInv, ParseReturn, cur = 0
  PROVE  Known' = Known
<1>1. ASSUME NEW i \in Index, NEW q \in Rules
      PROVE  /\ Memoized(i, q)' = Memoized(i, q)
             /\ Memoized(i, q) => memo'[i][q].chunk = memo[i][q].chunk /\ memo'[i][q].pos = memo[i][q].pos
  <2> DEFINE a == memo[i][q]
             b == memo'[i][q]
  <2>1. a \in Answer \cup {None} /\ SlotOK(heads, a, i, pos + buf) /\ i \in Nat
    BY DEF IInv, TypeOK, Slots, Index
  <2>2. b = MovedAnswer(a, 0)
    BY <2>1 DEF ParseReturn, CommitBuffer, Index
  <2> HIDE DEF a, b
  <2>3. CASE a = None
    BY <2>2, <2>3 DEF MovedAnswer, Memoized, a, b
  <2>4. CASE a # None
    <3>1. a \in Answer
      BY <2>1, <2>4
    <3>2. b \in Answer /\ b # None
      <4>1. MovedAnswer(a, 0) \in Answer
        BY <3>1, MovedTypes
      <4> QED BY <4>1, <2>2, NoneAssumption
    <3>3. b.type = a.type /\ b.pos = a.pos /\ b.chunk = MovedChunk(a.chunk, 0)
      BY <2>2, <2>4, <3>1 DEF MovedAnswer, Answer
    <3>4. MovedChunk(a.chunk, 0) = a.chunk
      <4>1. CASE a.chunk = None
        BY <4>1 DEF MovedChunk
      <4>2. CASE a.chunk # None
        <5> DEFINE k == a.chunk
        <5>1. k \in Chunk /\ k.at = i /\ RefsFrom(k.refs, i)
          BY <2>1, <2>4, <3>1, <4>2 DEF Answer, SlotOK, ChunkFrom
        <5> HIDE DEF k
        <5>2. \A j \in Nat : Moved(j, 0) = j
          BY DEF Moved
        <5>3. k.refs \subseteq Nat
          BY <5>1 DEF RefsFrom, Index
        <5>4. {Moved(j, 0) : j \in k.refs} = k.refs /\ Moved(k.at, 0) = k.at
          BY <5>1, <5>2, <5>3, <2>1
        <5>5. MovedChunk(k, 0) = [k EXCEPT !.at = k.at, !.refs = k.refs]
          BY <4>2, <5>4 DEF MovedChunk, k
        <5>6. [k EXCEPT !.at = k.at, !.refs = k.refs] = k
          BY <5>1 DEF Chunk
        <5> QED BY <5>5, <5>6 DEF k
      <4> QED BY <4>1, <4>2
    <3> QED BY <2>4, <3>2, <3>3, <3>4 DEF Memoized, a, b
  <2> QED BY <2>3, <2>4
<1> QED BY <1>1, KnownKept

(* A commit hands on what is known behind the text that it consumes.        *)
LEMMA CommitKeeps ==
  ASSUME IInv, ParseReturn, cur # 0
  PROVE  \E n \in 1 .. (pos + buf) - pos : Memo!Consume(n)
<1>1. /\ cur \in Nat /\ pos \in Nat /\ buf \in Nat /\ cur <= buf /\ inlen \in Nat /\ pos + buf <= inlen
  BY Places
<1>2. /\ pos' = pos + cur
      /\ buf' = IF buf > cur THEN buf - cur ELSE IF inlen - pos > buf THEN 1 ELSE 0
  BY DEF ParseReturn, CommitBuffer
<1>3. /\ cur \in 1 .. (pos + buf) - pos /\ pos' <= pos + buf
      /\ pos' + buf' = pos + buf \/ (pos' = pos + buf /\ pos' + buf' = pos + buf + 1)
  <2>1. CASE buf > cur
    BY <2>1, <1>1, <1>2
  <2>2. CASE ~ (buf > cur)
    BY <2>2, <1>1, <1>2
  <2> QED BY <2>1, <2>2
<1>4. ASSUME NEW i \in Index, NEW r \in Rules
      PROVE  IF i + cur \in Index THEN Memo!Same(Known[i + cur][r], Known'[i][r]) ELSE Known'[i][r] = None
  <2>1. memo'[i][r] = IF i + cur \in Index THEN MovedAnswer(memo[i + cur][r], cur) ELSE None
    BY DEF ParseReturn, CommitBuffer
  <2>2. CASE i + cur \notin Index
    BY <2>1, <2>2, KnownAt DEF Memoized
  <2>3. CASE i + cur \in Index
    <3> DEFINE a == memo[i + cur][r]
               b == memo'[i][r]
    <3>1. a \in Answer \cup {None} /\ b = MovedAnswer(a, cur)
      BY <2>1, <2>3 DEF IInv, TypeOK
    <3>2. /\ Known[i + cur][r] = (IF a # None /\ a.type = "CHUNK"
                                  THEN [match |-> a.chunk, end |-> a.pos] ELSE None)
          /\ Known'[i][r] = (IF b # None /\ b.type = "CHUNK"
                             THEN [match |-> b.chunk, end |-> b.pos] ELSE None)
      BY <2>3, KnownAt DEF Memoized
    <3> HIDE DEF a, b
    <3>3. CASE a = None
      BY <3>1, <3>2, <3>3 DEF MovedAnswer, Memo!Same
    <3>4. CASE a # None
      <4>1. a \in Answer /\ cur \in Nat
        BY <3>1, <3>4, <1>1
      <4>2. b \in Answer /\ b # None
        <5>1. MovedAnswer(a, cur) \in Answer
          BY <4>1, MovedTypes
        <5> QED BY <5>1, <3>1, NoneAssumption
      <4>3. b.type = a.type /\ b.pos = a.pos /\ b.chunk = MovedChunk(a.chunk, cur)
        BY <3>1, <3>4, <4>1 DEF MovedAnswer, Answer
      <4>4. b.chunk = None <=> a.chunk = None
        <5>1. CASE a.chunk = None
          BY <5>1, <4>3 DEF MovedChunk
        <5>2. CASE a.chunk # None
          BY <5>2, <4>1, <4>3, MovedTypes, NoneAssumption DEF Answer
        <5> QED BY <5>1, <5>2
      <4>5. CASE a.type # "CHUNK"
        BY <3>2, <4>3, <4>5 DEF Memo!Same
      <4>6. CASE a.type = "CHUNK"
        <5>1. /\ [match |-> a.chunk, end |-> a.pos] \in Outcome
              /\ [match |-> b.chunk, end |-> b.pos] \in Outcome
          BY <4>1, <4>2 DEF Answer, Outcome
        <5>2. /\ Known[i + cur][r] = [match |-> a.chunk, end |-> a.pos]
              /\ Known'[i][r] = [match |-> b.chunk, end |-> a.pos]
          BY <3>2, <3>4, <4>2, <4>3, <4>6
        <5>3. Memo!Same(Known[i + cur][r], Known'[i][r])
          BY <5>1, <5>2, <4>3, <4>4, NoneAssumption DEF Memo!Same
        <5> QED BY <5>3, <2>3
      <4> QED BY <4>5, <4>6
    <3> QED BY <3>3, <3>4, <2>3 DEF a, b
  <2> QED BY <2>2, <2>3
<1>5. Memo!Consume(cur)
  BY <1>2, <1>3, <1>4 DEF Memo!Consume
<1> QED BY <1>3, <1>5


(* What a new parser knows is nothing.                                      *)
LEMMA InitMemo ==
  ASSUME Init
  PROVE  Memo!Init
<1>1. /\ \A i \in Index, q \in Rules : memo[i][q] = None
      /\ pos = 0 /\ pos + buf = 0
  BY DEF Init
<1>2. Known = [i \in Index |-> [q \in Rules |-> None]]
  BY <1>1 DEF Known, Memoized
<1> QED BY <1>1, <1>2 DEF Memo!Init

(* Every step learns, reads, commits, or changes nothing that is known.     *)
LEMMA NextMemo ==
  ASSUME IInv, [Next]_vars
  PROVE  Memo!Next \/ UNCHANGED Memo!vars
<1>1. CASE ParseCall \/ \E r \in Rules : BodyApply(r)
  <2>1. PICK r \in Rules : Apply(r)
    BY <1>1, StartAssumption DEF ParseCall, BodyApply
  <2>2. UNCHANGED <<pos, buf>>
    BY <2>1, Zenon DEF Apply, ApplyBlocked, ApplyInvolved, RecallChunk, RecallLR, ApplyFresh
  <2> QED BY <2>1, <2>2, ApplyLearns DEF Memo!vars
<1>2. CASE InBody /\ \E c \in Results(Top) : Return(c)
  BY <1>2, ReturnLearns DEF Memo!Next, Memo!vars
<1>3. ASSUME NEW c, NEW b, Scan(c, b), b \in Index PROVE Memo!Next \/ UNCHANGED Memo!vars
  <2>1. buf <= b /\ buf' = b /\ pos' = pos /\ memo' = memo /\ inlen - pos \in Int
    BY <1>3, Places DEF Scan, tvars
  <2>2. Known' = Known
    BY <2>1 DEF Known, Memoized
  <2>3. CASE b = buf
    BY <2>1, <2>2, <2>3 DEF Memo!vars
  <2>4. CASE b # buf
    <3>1. b > buf /\ (pos + buf)' > pos + buf
      BY <2>1, <2>4, <1>3, Places DEF Index
    <3> QED BY <2>1, <2>2, <3>1 DEF Memo!Next, Memo!Read
  <2> QED BY <2>3, <2>4
<1>4. CASE ParseReturn
  <2>1. CASE cur # 0
    <3>1. \E n \in 1 .. (pos + buf) - pos : Memo!Consume(n)
      BY <1>4, <2>1, CommitKeeps
    <3> QED BY <3>1 DEF Memo!Next
  <2>2. CASE cur = 0
    <3>1. Known' = Known
      BY <1>4, <2>2, NothingMoved
    <3>2. pos' = pos /\ ((pos + buf)' = pos + buf \/ (pos + buf)' > pos + buf)
      <4>1. pos \in Nat /\ buf \in Nat
        BY Places
      <4>2. pos' = pos + 0 /\ buf' = IF buf > 0 THEN buf - 0 ELSE IF inlen - pos > buf THEN 1 ELSE 0
        BY <1>4, <2>2 DEF ParseReturn, CommitBuffer
      <4> QED BY ONLY <4>1, <4>2
    <3> QED BY <3>1, <3>2 DEF Memo!Next, Memo!Read, Memo!vars
  <2> QED BY <2>1, <2>2
<1>5. CASE Resume \/ ParseError \/ UNCHANGED vars
  <2>1. UNCHANGED <<pos, buf, memo>>
    BY <1>5 DEF Resume, ParseError, vars, tvars
  <2> QED BY <2>1 DEF Known, Memoized, Memo!vars
<1> QED BY <1>1, <1>2, <1>3, <1>4, <1>5 DEF Next, Exited

(* The memo table implements PackratMemo: until pcc_parse commits, a result *)
(* is only ever replaced by a longer match, a failure by nothing; the       *)
(* commit hands on what is known behind the text that it consumes.          *)
THEOREM KeepsPromise == Spec => ImplementsMemo
<1>1. Init => Memo!Init
  BY InitMemo
<1>2. IInv /\ [Next]_vars => [Memo!Next]_(Memo!vars)
  BY NextMemo
<1> QED BY <1>1, <1>2, Invariance, PTL DEF Spec, ImplementsMemo, Memo!Spec

=============================================================================
