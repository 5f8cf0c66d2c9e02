--------------------------- MODULE PegTextProofs ---------------------------
(***************************************************************************)
(* Proofs about the functions on text, for strings of every length.  Each  *)
(* of those functions is a loop; it is proved by induction over its        *)
(* rounds, of which RecursionExists says that they are there.              *)
(***************************************************************************)
EXTENDS MCPegText, RoundProofs, SequenceTheorems, TLAPS

-----------------------------------------------------------------------------
(* Numbers.                                                                *)

(* The rounds of string_to_size_t with 2^w = P, and the value so far.      *)
NumberRounds(n, s, P) ==
  LET N == (P - 1) \div 10
      M == (P - 1) - 10 * N
  IN /\ n[0] = 0
     /\ \A i \in 1 .. Len(s) :
          n[i] = IF n[i - 1] = VOID \/ (n[i - 1] >= N /\ s[i] > M) THEN VOID
                 ELSE (s[i] + 10 * n[i - 1]) % P
ValueRounds(v, s) == v[0] = 0 /\ \A i \in 1 .. Len(s) : v[i] = 10 * v[i - 1] + s[i]

(* string_to_size_t begins with 0 and takes one digit in each round.       *)
LEMMA NumberLoop ==
  ASSUME NEW w \in Nat, 2 ^ w > 0, NEW s \in Seq(0 .. 9)
  PROVE  \E n : NumberRounds(n, s, 2 ^ w) /\ string_to_size_t(w, s) = n[Len(s)] % (2 ^ w)
<1> DEFINE N == (2 ^ w - 1) \div 10
           M == (2 ^ w - 1) - 10 * N
           Round(x, i) == IF x = VOID \/ (x >= N /\ s[i] > M) THEN VOID ELSE (s[i] + 10 * x) % (2 ^ w)
           Loop(f) == f = [i \in 0 .. Len(s) |-> IF i = 0 THEN 0 ELSE Round(f[i - 1], i)]
           n == CHOOSE f : Loop(f)
           F == [x \in Int |-> [i \in Nat |-> IF i \in 1 .. Len(s) THEN Round(x, i) ELSE 0]]
<1>1. string_to_size_t(w, s) = n[Len(s)] % (2 ^ w)
  BY DEF string_to_size_t
<1>2. ASSUME NEW x \in Int, NEW i \in 1 .. Len(s) PROVE Round(x, i) \in Int
  <2>1. 2 ^ w \in Int /\ s[i] \in Int
    OBVIOUS
  <2> QED BY <2>1 DEF VOID
<1>3. \A x \in Int, i \in 1 .. Len(s) : Round(x, i) = F[x][i]
  OBVIOUS
<1> HIDE DEF Round
<1>4. F \in [Int -> [Nat -> Int]]
  BY <1>2
<1> HIDE DEF F
<1>5. PICK f \in [0 .. Len(s) -> Int] : Iterates(f, Len(s), 0, F)
  <2>1. Len(s) \in Nat /\ 0 \in Int
    OBVIOUS
  <2> QED BY <1>4, <2>1, RecursionExists, Zenon
<1>6. Loop(f)
  <2>1. ASSUME NEW i \in 0 .. Len(s) PROVE f[i] = IF i = 0 THEN 0 ELSE Round(f[i - 1], i)
    BY <1>3, <1>5, SMTT(30) DEF Iterates
  <2> QED BY <2>1
<1>7. Loop(n)
  <2> HIDE DEF Loop
  <2> QED BY <1>6
<1> HIDE DEF n
<1>8. n[0] = 0 /\ \A i \in 1 .. Len(s) : n[i] = Round(n[i - 1], i)
  BY <1>7
<1> WITNESS n
<1> QED BY <1>1, <1>8 DEF Round, NumberRounds

(* The value of a string of digits, digit by digit.                        *)
LEMMA ValueLoop ==
  ASSUME NEW s \in Seq(0 .. 9)
  PROVE  \E v : ValueRounds(v, s) /\ Value(s) = v[Len(s)]
<1> DEFINE Loop(f) == f = [i \in 0 .. Len(s) |-> IF i = 0 THEN 0 ELSE 10 * f[i - 1] + s[i]]
           v == CHOOSE f : Loop(f)
           F == [x \in Int |-> [i \in Nat |-> IF i \in 1 .. Len(s) THEN 10 * x + s[i] ELSE 0]]
<1>1. Value(s) = v[Len(s)]
  BY DEF Value
<1>2. F \in [Int -> [Nat -> Int]]
  OBVIOUS
<1>3. \A x \in Int, i \in 1 .. Len(s) : F[x][i] = 10 * x + s[i]
  OBVIOUS
<1> HIDE DEF F
<1>4. PICK f \in [0 .. Len(s) -> Int] : Iterates(f, Len(s), 0, F)
  <2>1. Len(s) \in Nat /\ 0 \in Int
    OBVIOUS
  <2> QED BY <1>2, <2>1, RecursionExists, Zenon
<1>5. Loop(f)
  <2>1. ASSUME NEW i \in 1 .. Len(s) PROVE f[i] = 10 * f[i - 1] + s[i]
    <3>1. f[i - 1] \in Int
      OBVIOUS
    <3> QED BY <1>3, <1>4, <3>1 DEF Iterates
  <2>2. f[0] = 0
    BY <1>4 DEF Iterates
  <2> QED BY <2>1, <2>2
<1>6. Loop(v)
  <2> HIDE DEF Loop
  <2> QED BY <1>5
<1> HIDE DEF v
<1>7. v[0] = 0 /\ \A i \in 1 .. Len(s) : v[i] = 10 * v[i - 1] + s[i]
  BY <1>6
<1> WITNESS v
<1> QED BY <1>1, <1>7 DEF ValueRounds

LEMMA ValueNat ==
  ASSUME NEW s \in Seq(0 .. 9), NEW v, ValueRounds(v, s)
  PROVE  \A i \in 0 .. Len(s) : v[i] \in Nat
<1> DEFINE S == {i \in Nat : i <= Len(s) => v[i] \in Nat}
<1>1. 0 \in S
  BY DEF ValueRounds
<1>2. ASSUME NEW i \in Nat, i \in S PROVE i + 1 \in S
  <2>1. SUFFICES ASSUME i + 1 <= Len(s) PROVE v[i + 1] \in Nat
    OBVIOUS
  <2>2. i + 1 \in 1 .. Len(s) /\ (i + 1) - 1 = i /\ s[i + 1] \in 0 .. 9
    BY <2>1
  <2>3. v[i + 1] = 10 * v[i] + s[i + 1]
    BY <2>2 DEF ValueRounds
  <2>4. v[i] \in Nat
    BY <1>2, <2>1
  <2> QED BY <2>2, <2>3, <2>4
<1>3. Nat \subseteq S
  <2> HIDE DEF S
  <2> QED BY <1>1, <1>2, SetInduction
<1> QED BY <1>3

(* No beginning of a string is worth more than the string.                 *)
LEMMA ValueGrows ==
  ASSUME NEW s \in Seq(0 .. 9), NEW v, ValueRounds(v, s)
  PROVE  \A i \in 0 .. Len(s) : v[i] <= v[Len(s)]
<1> DEFINE S == {k \in Nat : k <= Len(s) => v[Len(s) - k] <= v[Len(s)]}
<1>0. \A i \in 0 .. Len(s) : v[i] \in Nat
  BY ValueNat
<1>1. 0 \in S
  <2>1. Len(s) - 0 = Len(s) /\ v[Len(s)] \in Nat
    BY <1>0
  <2>2. v[Len(s)] <= v[Len(s)]
    BY <2>1
  <2>3. v[Len(s) - 0] <= v[Len(s)]
    BY <2>1, <2>2
  <2> QED BY <2>1, <2>3
<1>2. ASSUME NEW k \in Nat, k \in S PROVE k + 1 \in S
  <2>1. SUFFICES ASSUME k + 1 <= Len(s) PROVE v[Len(s) - (k + 1)] <= v[Len(s)]
    OBVIOUS
  <2> DEFINE i == Len(s) - k
  <2>2. i \in 1 .. Len(s) /\ i - 1 \in 0 .. Len(s) /\ i - 1 = Len(s) - (k + 1) /\ s[i] \in 0 .. 9
    BY <2>1
  <2>3. v[i] = 10 * v[i - 1] + s[i]
    BY <2>2 DEF ValueRounds
  <2>4. v[i] <= v[Len(s)]
    BY <1>2, <2>1
  <2>5. v[i] \in Nat /\ v[i - 1] \in Nat /\ v[Len(s)] \in Nat
    BY <1>0, <2>2
  <2> HIDE DEF i
  <2>6. \A x, y, z \in Nat, d \in 0 .. 9 : z = 10 * x + d /\ z <= y => x <= y
    OBVIOUS
  <2>7. v[i - 1] <= v[Len(s)]
    BY <2>2, <2>3, <2>4, <2>5, <2>6
  <2> QED BY <2>2, <2>7
<1>3. Nat \subseteq S
  <2> HIDE DEF S
  <2> QED BY <1>1, <1>2, SetInduction
<1>4. ASSUME NEW i \in 0 .. Len(s) PROVE v[i] <= v[Len(s)]
  <2>1. Len(s) - i \in S /\ Len(s) - (Len(s) - i) = i
    BY <1>3
  <2> QED BY <2>1
<1> QED BY <1>4

LEMMA SmallRest ==
  ASSUME NEW P \in Nat, NEW x \in Nat, x < P
  PROVE  x % P = x
OBVIOUS

(* One round, as long as the value stays below P: what has been read is    *)
(* not above the largest tenth, and at that one the digit is small enough. *)
LEMMA RoundExact ==
  ASSUME NEW P \in Nat, NEW x \in Nat, NEW d \in 0 .. 9, 10 * x + d < P
  PROVE  LET N == (P - 1) \div 10
             M == (P - 1) - 10 * N
         IN ~(x = VOID \/ (x >= N /\ d > M)) /\ (d + 10 * x) % P = 10 * x + d
<1> DEFINE N == (P - 1) \div 10
           M == (P - 1) - 10 * N
<1>1. P - 1 \in Nat /\ N \in Nat /\ 10 * N <= P - 1 /\ P - 1 < 10 * N + 10
  OBVIOUS
<1>2. (d + 10 * x) % P = 10 * x + d
  OBVIOUS
<1>3. x # VOID
  BY DEF VOID
<1>4. ~(x >= N /\ d > M)
  <2> HIDE DEF N
  <2> QED BY <1>1
<1> QED BY <1>2, <1>3, <1>4

(* A number that fits is read as it is.                                    *)
LEMMA ValueIsNat ==
  ASSUME NEW s \in Seq(0 .. 9)
  PROVE  Value(s) \in Nat
<1>1. PICK v : ValueRounds(v, s) /\ Value(s) = v[Len(s)]
  BY ValueLoop
<1>2. \A i \in 0 .. Len(s) : v[i] \in Nat
  BY <1>1, ValueNat
<1>3. Len(s) \in 0 .. Len(s)
  OBVIOUS
<1> QED BY <1>1, <1>2, <1>3

LEMMA FittingExact ==
  ASSUME NEW w \in Nat, NEW s \in Seq(0 .. 9), Value(s) < 2 ^ w
  PROVE  string_to_size_t(w, s) = Value(s)
<1>1. PICK v : ValueRounds(v, s) /\ Value(s) = v[Len(s)]
  BY ValueLoop
<1>2. \A i \in 0 .. Len(s) : v[i] \in Nat /\ v[i] <= v[Len(s)]
  BY <1>1, ValueNat, ValueGrows
<1> DEFINE P == 2 ^ w
<1>3. P \in Nat /\ P > 0 /\ v[Len(s)] \in Nat /\ v[Len(s)] < P
  <2>1. P \in Int
    OBVIOUS
  <2>2. v[Len(s)] \in Nat
    BY <1>2
  <2> QED BY <1>1, <2>1, <2>2
<1>4. PICK n : NumberRounds(n, s, P) /\ string_to_size_t(w, s) = n[Len(s)] % P
  BY <1>3, NumberLoop
<1> HIDE DEF P
<1> DEFINE S == {i \in Nat : i <= Len(s) => n[i] = v[i]}
<1>5. 0 \in S
  BY <1>1, <1>4 DEF NumberRounds, ValueRounds
<1>6. ASSUME NEW i \in Nat, i \in S PROVE i + 1 \in S
  <2>1. SUFFICES ASSUME i + 1 <= Len(s) PROVE n[i + 1] = v[i + 1]
    OBVIOUS
  <2>2. i + 1 \in 1 .. Len(s) /\ (i + 1) - 1 = i /\ s[i + 1] \in 0 .. 9
    BY <2>1
  <2>3. n[i] = v[i] /\ v[i] \in Nat /\ v[i + 1] \in Nat /\ v[i + 1] <= v[Len(s)]
    BY <1>2, <1>6, <2>1
  <2>4. v[i + 1] = 10 * v[i] + s[i + 1]
    BY <1>1, <2>2 DEF ValueRounds
  <2>5. 10 * v[i] + s[i + 1] < P
    <3> DEFINE a == v[i + 1]
               b == v[Len(s)]
    <3>1. a \in Nat /\ b \in Nat /\ a <= b /\ b < P
      BY <1>3, <2>3
    <3>2. 10 * v[i] + s[i + 1] = a
      BY <2>4
    <3> HIDE DEF a, b
    <3>3. a < P
      BY <1>3, <3>1
    <3> QED BY <3>2, <3>3
  <2> DEFINE N == (P - 1) \div 10
             M == (P - 1) - 10 * N
  <2>6. ~(v[i] = VOID \/ (v[i] >= N /\ s[i + 1] > M)) /\ (s[i + 1] + 10 * v[i]) % P = v[i + 1]
    BY <1>3, <2>2, <2>3, <2>4, <2>5, RoundExact, ZenonT(30)
  <2>7. n[i + 1] = IF n[i] = VOID \/ (n[i] >= N /\ s[i + 1] > M) THEN VOID
                   ELSE (s[i + 1] + 10 * n[i]) % P
    BY <1>4, <2>2 DEF NumberRounds
  <2> HIDE DEF N, M
  <2> QED BY <2>3, <2>6, <2>7
<1>7. Nat \subseteq S
  <2> HIDE DEF S
  <2> QED BY <1>5, <1>6, SetInduction
<1>8. n[Len(s)] = v[Len(s)]
  BY <1>7
<1>9. v[Len(s)] % P = v[Len(s)]
  BY <1>3, SmallRest
<1> QED BY <1>1, <1>4, <1>8, <1>9

-----------------------------------------------------------------------------
(* A call returns what its function makes of its argument.                 *)
CallInv ==
  /\ call \in Calls /\ returned \in BOOLEAN
  /\ returned => result = Result(call.f, call.arg)

(* One call, one result (Init and Return).                                 *)
THEOREM CallInvariance == Spec => []CallInv
<1>1. Init => CallInv
  BY DEF Init, CallInv
<1>2. CallInv /\ [Return]_vars => CallInv'
  <2> SUFFICES ASSUME CallInv, [Return]_vars PROVE CallInv'
    OBVIOUS
  <2>1. CASE Return
    <3>1. call' = call /\ returned' = TRUE /\ result' = Result(call.f, call.arg)
      BY <2>1 DEF Return
    <3> QED BY <3>1 DEF CallInv
  <2>2. CASE UNCHANGED vars
    BY <2>2 DEF vars, CallInv
  <2> QED BY <2>1, <2>2
<1> QED BY <1>1, <1>2, PTL DEF Spec

(* Every number below the last value of size_t, however wide that is, is   *)
(* read as it is written, whatever digits it has (string_to_size_t).       *)
THEOREM NumbersExact == Spec => []FittingNumbersExact
<1>1. CallInv => FittingNumbersExact
  <2> SUFFICES ASSUME CallInv, Returned("number"), Value(call.arg) < 2 ^ Width - 1
               PROVE  result = Value(call.arg)
    BY DEF FittingNumbersExact
  <2>1. call \in Calls /\ call.f = "number" /\ result = Result(call.f, call.arg)
    BY Zenon DEF CallInv, Returned
  <2>2. call.arg \in Seq(0 .. 9)
    BY <2>1, CallsAssumption, Zenon
  <2>3. result = string_to_size_t(Width, call.arg)
    BY <2>1 DEF Result
  <2>4. Value(call.arg) < 2 ^ Width
    <3>1. Value(call.arg) \in Nat
      BY <2>2, ValueIsNat
    <3> DEFINE P == 2 ^ Width
    <3>2. P \in Int
      BY WidthAssumption
    <3> HIDE DEF P
    <3>3. Value(call.arg) < P - 1
      BY DEF P
    <3>4. Value(call.arg) < P
      BY <3>1, <3>2, <3>3
    <3> QED BY <3>4 DEF P
  <2> QED BY <2>2, <2>3, <2>4, WidthAssumption, FittingExact
<1> QED BY <1>1, CallInvariance, PTL

-----------------------------------------------------------------------------
(* Names of files.                                                         *)

LEMMA TwoMore ==
  ASSUME NEW T, NEW s \in Seq(T), NEW x \in T, NEW y \in T
  PROVE  LET t == s \o <<x, y>>
         IN /\ t \in Seq(T) /\ Len(t) = Len(s) + 2
            /\ t[Len(s) + 1] = x /\ t[Len(s) + 2] = y
            /\ \A i \in 1 .. Len(s) : t[i] = s[i]
OBVIOUS

LEMMA OneLong ==
  ASSUME NEW T, NEW x \in T
  PROVE  <<x>> \in Seq(T)
OBVIOUS

(* The extension is the last dot with neither a dot nor a directory        *)
(* behind it; if there is none, it begins behind the path.                 *)
ExtensionAt(path, k) ==
  /\ k < Len(path) /\ path[k + 1] = "."
  /\ \A m \in k + 2 .. Len(path) : path[m] \notin {".", "/", "\\", ":"}

LEMMA ExtensionLast ==
  ASSUME NEW T, NEW path \in Seq(T)
  PROVE  LET k == extract_fileext(path) - 1
         IN /\ k \in 0 .. Len(path)
            /\ ExtensionAt(path, k) \/ (k = Len(path) /\ \A m \in 0 .. k : ~ ExtensionAt(path, m))
<1> DEFINE ends == {i \in DOMAIN path : path[i] \in Parting \cup {"."}}
           last == CHOOSE i \in ends : \A j \in ends : j <= i
           e == extract_fileext(path)
<1>1. e = IF ends # {} /\ path[last] = "." THEN last ELSE Len(path) + 1
  BY DEF extract_fileext
<1>2. /\ Len(path) \in Nat /\ DOMAIN path = 1 .. Len(path)
      /\ \A i : i \in ends <=> i \in 1 .. Len(path) /\ path[i] \in {".", "/", "\\", ":"}
  BY DEF Parting
<1>3. ends \subseteq 0 .. Len(path)
  OBVIOUS
<1> HIDE DEF ends
<1>4. ASSUME ends # {} PROVE last \in ends /\ \A j \in ends : j <= last
  <2>1. \E m \in ends : \A k \in ends : k <= m
    BY <1>2, <1>3, <1>4, Greatest
  <2> QED BY <2>1
<1> HIDE DEF last, e
<1>5. CASE ends # {} /\ path[last] = "."
  <2>1. e = last /\ e \in 1 .. Len(path) /\ path[e] = "."
    BY <1>1, <1>2, <1>4, <1>5
  <2>2. ASSUME NEW m \in (e - 1) + 2 .. Len(path) PROVE path[m] \notin {".", "/", "\\", ":"}
    <3>1. m \in 1 .. Len(path) /\ ~ (m <= last)
      BY <1>2, <2>1
    <3> QED BY <1>2, <1>4, <1>5, <3>1
  <2>3. (e - 1) + 1 = e /\ e - 1 < Len(path) /\ e - 1 \in 0 .. Len(path)
    BY <1>2, <2>1
  <2>4. ExtensionAt(path, e - 1)
    BY <2>1, <2>2, <2>3 DEF ExtensionAt
  <2> QED BY <2>3, <2>4 DEF e
<1>6. CASE ~ (ends # {} /\ path[last] = ".")
  <2>1. e - 1 = Len(path) /\ e - 1 \in 0 .. Len(path)
    BY <1>1, <1>2, <1>6
  <2>2. ASSUME NEW m \in 0 .. Len(path), ExtensionAt(path, m) PROVE FALSE
    <3>1. m + 1 \in 1 .. Len(path) /\ path[m + 1] = "."
      BY <1>2, <2>2 DEF ExtensionAt
    <3>2. m + 1 \in ends
      BY <1>2, <3>1
    <3>3. last \in ends /\ m + 1 <= last /\ path[last] # "."
      BY <1>4, <1>6, <3>2
    <3>4. last \in 1 .. Len(path) /\ path[last] \in {".", "/", "\\", ":"}
      BY <1>2, <3>3
    <3>5. last # m + 1
      BY <3>1, <3>3
    <3>6. last \in m + 2 .. Len(path)
      BY <1>2, <3>1, <3>3, <3>4, <3>5
    <3> QED BY <2>2, <3>4, <3>6 DEF ExtensionAt
  <2> QED BY <2>1, <2>2 DEF e
<1> QED BY <1>5, <1>6

LEMMA DifferentEnds ==
  ASSUME NEW T, NEW s \in Seq(T)
  PROVE  s \o <<".", "c">> # s \o <<".", "h">>
<1> DEFINE U == T \cup {".", "c", "h"}
           c == s \o <<".", "c">>
           h == s \o <<".", "h">>
<1>1. s \in Seq(U) /\ "." \in U /\ "c" \in U /\ "h" \in U /\ "c" # "h"
  OBVIOUS
<1> HIDE DEF U
<1>2. c[Len(s) + 2] = "c" /\ h[Len(s) + 2] = "h"
  <2>1. LET t == s \o <<".", "c">> IN t[Len(s) + 2] = "c"
    BY <1>1, TwoMore
  <2>2. LET t == s \o <<".", "h">> IN t[Len(s) + 2] = "h"
    BY <1>1, TwoMore
  <2> QED BY <2>1, <2>2
<1> HIDE DEF c, h
<1>3. c # h
  BY <1>1, <1>2
<1> QED BY <1>3 DEF c, h

(* The source and the header have different names, whatever the grammar    *)
(* and -o are called: without -o those of the grammar with its extension   *)
(* replaced, which no dot in a directory is, with it what it says and an   *)
(* extension (create_context).                                             *)
THEOREM NamesApart == Spec => []OutputNames
<1>1. CallInv => OutputNames
  <2> DEFINE i == call.arg.iname
             o == call.arg.oname
             path == IF i # <<>> THEN i ELSE <<"-">>
             k == extract_fileext(path) - 1
             Seqs(p) == p \in Seq({p[m] : m \in DOMAIN p})
             From(p, m) == /\ result.source = SubSeq(p, 1, m) \o <<".", "c">>
                           /\ result.header = SubSeq(p, 1, m) \o <<".", "h">>
  <2> SUFFICES ASSUME CallInv, Returned("names")
               PROVE  OutputNames
    BY DEF OutputNames
  <2>1. call \in Calls /\ call.f = "names" /\ result = Result(call.f, call.arg)
    BY Zenon DEF CallInv, Returned
  <2>2. Seqs(i) /\ Seqs(o)
    BY <2>1, CallsAssumption, Zenon
  <2>3. Seqs(path)
    <3>1. <<"-">> \in Seq({"-"}) /\ {<<"-">>[m] : m \in DOMAIN <<"-">>} = {"-"}
      OBVIOUS
    <3> QED BY <2>2, <3>1
  <2>4. result = [source |-> OutputName(i, o, "c"), header |-> OutputName(i, o, "h")]
    BY <2>1 DEF Result
  <2>5. result.source = OutputName(i, o, "c") /\ result.header = OutputName(i, o, "h")
    BY <2>4, Zenon
  <2> HIDE DEF i, o
  <2>6. CASE o = <<>>
    <3>1. From(path, k)
      BY <2>5, <2>6 DEF OutputName, replace_fileext
    <3>2. /\ k \in 0 .. Len(path)
          /\ ExtensionAt(path, k) \/ (k = Len(path) /\ \A m \in 0 .. k : ~ ExtensionAt(path, m))
      <4> DEFINE T == {path[m] : m \in DOMAIN path}
      <4>1. path \in Seq(T)
        BY <2>3
      <4> HIDE DEF T, path
      <4> QED BY <4>1, ExtensionLast
    <3> DEFINE front == SubSeq(path, 1, k)
    <3>3. \E T : front \in Seq(T)
      <4> DEFINE T == {path[m] : m \in DOMAIN path}
      <4>1. path \in Seq(T)
        BY <2>3
      <4> HIDE DEF T, path, k
      <4>2. \A m \in 1 .. k : path[m] \in T
        BY <3>2, <4>1
      <4>3. front \in Seq(T)
        BY <3>2, <4>2, SubSeqProperties
      <4> QED BY <4>3
    <3> HIDE DEF front
    <3>4. front \o <<".", "c">> # front \o <<".", "h">>
      BY <3>3, DifferentEnds
    <3>5. result.source # result.header
      <4> HIDE DEF k, path
      <4>1. result.source = front \o <<".", "c">> /\ result.header = front \o <<".", "h">>
        BY <3>1 DEF front
      <4> QED BY <3>4, <4>1
    <3>6. OutputNames <=>
            /\ result.source # result.header
            /\ o # <<>> => From(o, Len(o))
            /\ o = <<>> => \E m \in 0 .. Len(path) :
                 From(path, m) /\ (ExtensionAt(path, m) \/ (m = Len(path) /\ \A l \in 0 .. m : ~ ExtensionAt(path, l)))
      BY Zenon DEF OutputNames, ExtensionAt, i, o
    <3> HIDE DEF k, path, From
    <3> QED BY <2>6, <3>1, <3>2, <3>5, <3>6
  <2>7. CASE o # <<>>
    <3>1. result.source = o \o <<".", "c">> /\ result.header = o \o <<".", "h">>
      BY <2>5, <2>7 DEF OutputName, add_fileext
    <3>2. SubSeq(o, 1, Len(o)) = o
      BY <2>2
    <3>3. From(o, Len(o))
      BY <3>1, <3>2
    <3>4. result.source # result.header
      BY <2>2, <3>1, DifferentEnds
    <3>5. OutputNames <=>
            /\ result.source # result.header
            /\ o # <<>> => From(o, Len(o))
            /\ o = <<>> => \E m \in 0 .. Len(path) :
                 From(path, m) /\ (ExtensionAt(path, m) \/ (m = Len(path) /\ \A l \in 0 .. m : ~ ExtensionAt(path, l)))
      BY Zenon DEF OutputNames, ExtensionAt, i, o
    <3> HIDE DEF k, path, From
    <3> QED BY <2>7, <3>3, <3>4, <3>5
  <2> QED BY <2>6, <2>7
<1> QED BY <1>1, CallInvariance, PTL

-----------------------------------------------------------------------------
(* UTF-8.                                                                  *)

Octets == 0 .. 255

(* Which bytes begin a character of which length.                          *)
LEMMA LengthByRanges ==
  ASSUME NEW c \in Octets
  PROVE  /\ LengthBy(c) \in 0 .. 4
         /\ LengthBy(c) = 1 <=> c < 128
         /\ LengthBy(c) = 2 <=> 192 <= c /\ c < 224
         /\ LengthBy(c) = 3 <=> 224 <= c /\ c < 240
         /\ LengthBy(c) = 4 <=> 240 <= c /\ c < 248
         /\ Continues(c) <=> 128 <= c /\ c < 192
BY DEF Octets, LengthBy, Continues

LEMMA LeadBitsOf ==
  ASSUME NEW c \in Octets
  PROVE  /\ LeadBits(c, 1) = c
         /\ LeadBits(c, 2) = c % 32
         /\ LeadBits(c, 3) = c % 16
         /\ LeadBits(c, 4) = c % 8
<1>1. 2 ^ (7 - 2) = 32
  OBVIOUS
<1>2. 2 ^ (7 - 3) = 16
  OBVIOUS
<1>3. 2 ^ (7 - 4) = 8
  OBVIOUS
<1> QED BY <1>1, <1>2, <1>3 DEF LeadBits

LEMMA LeadBitsNat ==
  ASSUME NEW c \in Octets, NEW n \in 1 .. 4
  PROVE  LeadBits(c, n) \in Nat
<1>1. n = 1 \/ n = 2 \/ n = 3 \/ n = 4
  OBVIOUS
<1>2. c \in Nat /\ c % 32 \in Nat /\ c % 16 \in Nat /\ c % 8 \in Nat
  BY DEF Octets
<1> QED BY <1>1, <1>2, LeadBitsOf

LEMMA ByteOctet ==
  ASSUME NEW s \in Seq(Octets), NEW j
  PROVE  Byte(s, j) \in Octets /\ Byte(s, j) \in Nat
<1>1. 0 \in Octets /\ Octets \subseteq Nat
  BY DEF Octets
<1>2. j \in DOMAIN s => s[j] \in Octets
  OBVIOUS
<1> QED BY <1>1, <1>2 DEF Byte

(* Numbers in base 64: a digit more, and what the digits are.              *)
Joined(x, y) == 64 * x + y

LEMMA SixBits ==
  ASSUME NEW x \in Nat, NEW y \in 0 .. 63
  PROVE  /\ Joined(x, y) \div 64 = x /\ Joined(x, y) % 64 = y
         /\ Joined(x, y) \in Nat
BY DEF Joined

LEMMA TwelveBits ==
  ASSUME NEW x \in Int, NEW y \in Int, 0 <= y, y < 4096
  PROVE  (4096 * x + y) \div 4096 = x
OBVIOUS

LEMMA EighteenBits ==
  ASSUME NEW x \in Int, NEW y \in Int, 0 <= y, y < 262144
  PROVE  (262144 * x + y) \div 262144 = x
OBVIOUS

(* The last digits of u are y, z and w, and x is what stands before them.  *)
EndsInTwo(u, x, y, z) ==
  u \div 4096 = x /\ (u \div 64) % 64 = y /\ u % 64 = z /\ u \in Nat
EndsInThree(u, x, y, z, w) ==
  /\ u \div 262144 = x /\ (u \div 4096) % 64 = y /\ (u \div 64) % 64 = z /\ u % 64 = w
  /\ u \in Nat

LEMMA TwoDigits ==
  ASSUME NEW x \in Nat, NEW y \in 0 .. 63, NEW z \in 0 .. 63
  PROVE  EndsInTwo(Joined(Joined(x, y), z), x, y, z)
<1>1. Joined(x, y) \in Nat /\ Joined(x, y) % 64 = y
  BY SixBits
<1>2. /\ Joined(Joined(x, y), z) \div 64 = Joined(x, y)
      /\ Joined(Joined(x, y), z) % 64 = z
      /\ Joined(Joined(x, y), z) \in Nat
  BY <1>1, SixBits
<1>3. Joined(Joined(x, y), z) \div 4096 = x
  <2> DEFINE r == 64 * y + z
  <2>1. Joined(Joined(x, y), z) = 4096 * x + r
    BY DEF Joined
  <2>2. r \in Int /\ 0 <= r /\ r < 4096 /\ x \in Int
    OBVIOUS
  <2> HIDE DEF r
  <2> QED BY <2>1, <2>2, TwelveBits
<1> QED BY <1>1, <1>2, <1>3 DEF EndsInTwo

LEMMA ThreeDigits ==
  ASSUME NEW x \in Nat, NEW y \in 0 .. 63, NEW z \in 0 .. 63, NEW w \in 0 .. 63
  PROVE  EndsInThree(Joined(Joined(Joined(x, y), z), w), x, y, z, w)
<1> DEFINE v == Joined(x, y)
<1>1. v \in Nat /\ v % 64 = y
  BY SixBits
<1>2. Joined(Joined(v, z), w) \div 262144 = x
  <2> DEFINE r == 4096 * y + (64 * z + w)
  <2>1. Joined(Joined(v, z), w) = 262144 * x + r
    BY DEF Joined
  <2>2. r \in Int /\ 0 <= r /\ r < 262144 /\ x \in Int
    OBVIOUS
  <2> HIDE DEF r
  <2> QED BY <2>1, <2>2, EighteenBits
<1> HIDE DEF v
<1>3. EndsInTwo(Joined(Joined(v, z), w), v, z, w)
  <2>1. v \in Nat
    BY <1>1
  <2> QED BY <2>1, TwoDigits
<1>4. EndsInThree(Joined(Joined(v, z), w), x, y, z, w)
  BY <1>1, <1>2, <1>3 DEF EndsInTwo, EndsInThree
<1> QED BY <1>4 DEF v

LEMMA ContinuationDigit ==
  ASSUME NEW d \in Octets, Continues(d)
  PROVE  d % 64 \in 0 .. 63 /\ 128 + (d % 64) = d
BY DEF Octets, Continues

(* The bits of a first byte, with those that tell the length.              *)
LEMMA LeadDigit ==
  ASSUME NEW c \in Int
  PROVE  /\ 192 <= c /\ c < 224 => c % 32 \in Nat /\ 192 + (c % 32) = c /\ c % 32 < 32
         /\ 224 <= c /\ c < 240 => c % 16 \in Nat /\ 224 + (c % 16) = c /\ c % 16 < 16
         /\ 240 <= c /\ c < 248 => c % 8 \in Nat /\ 240 + (c % 8) = c
<1>1. 192 <= c /\ c < 224 => c % 32 \in Nat /\ 192 + (c % 32) = c /\ c % 32 < 32
  OBVIOUS
<1>2. 224 <= c /\ c < 240 => c % 16 \in Nat /\ 224 + (c % 16) = c /\ c % 16 < 16
  OBVIOUS
<1>3. 240 <= c /\ c < 248 => c % 8 \in Nat /\ 240 + (c % 8) = c
  OBVIOUS
<1> QED BY <1>1, <1>2, <1>3

(* Encoded, by the ranges of code points.                                  *)
InTwo(u)   == <<192 + u \div 64, 128 + (u % 64)>>
InThree(u) == <<224 + u \div 4096, 128 + ((u \div 64) % 64), 128 + (u % 64)>>
InFour(u)  == <<240 + u \div 262144, 128 + ((u \div 4096) % 64), 128 + ((u \div 64) % 64), 128 + (u % 64)>>

LEMMA EncodedBy ==
  ASSUME NEW u \in Nat
  PROVE  /\ u < 128 => Encoded(u) = <<u>>
         /\ u >= 128 /\ u < 2048 => Encoded(u) = InTwo(u)
         /\ u >= 2048 /\ u < 65536 => Encoded(u) = InThree(u)
         /\ u >= 65536 => Encoded(u) = InFour(u)
<1>1. Encoded(u) = IF u < 128 THEN <<u>> ELSE IF u < 2048 THEN InTwo(u)
                   ELSE IF u < 65536 THEN InThree(u) ELSE InFour(u)
  BY DEF Encoded, InTwo, InThree, InFour
<1> QED BY <1>1

(* The bits that n bytes of a character have.                              *)
Bits(n, c, d, e, f) ==
  CASE n = 1 -> c
    [] n = 2 -> Joined(c % 32, d % 64)
    [] n = 3 -> Joined(Joined(c % 16, d % 64), e % 64)
    [] n = 4 -> Joined(Joined(Joined(c % 8, d % 64), e % 64), f % 64)

LEMMA BitsBy ==
  ASSUME NEW c, NEW d, NEW e, NEW f
  PROVE  /\ Bits(1, c, d, e, f) = c
         /\ Bits(2, c, d, e, f) = Joined(c % 32, d % 64)
         /\ Bits(3, c, d, e, f) = Joined(Joined(c % 16, d % 64), e % 64)
         /\ Bits(4, c, d, e, f) = Joined(Joined(Joined(c % 8, d % 64), e % 64), f % 64)
BY DEF Bits

LEMMA NeedsBy ==
  ASSUME NEW u \in Nat
  PROVE  /\ NeedsLength(u, 2) => u >= 128
         /\ NeedsLength(u, 3) => u >= 2048
         /\ NeedsLength(u, 4) => u >= 65536
BY DEF NeedsLength

(* The bytes that show digits, and the first n of four bytes.              *)
TwoBytes(x, y)         == <<192 + x, 128 + y>>
ThreeBytes(x, y, z)    == <<224 + x, 128 + y, 128 + z>>
FourBytes(x, y, z, w)  == <<240 + x, 128 + y, 128 + z, 128 + w>>
Start(n, c, d, e, f) ==
  CASE n = 1 -> <<c>> [] n = 2 -> <<c, d>> [] n = 3 -> <<c, d, e>> [] n = 4 -> <<c, d, e, f>>

LEMMA StartIs ==
  ASSUME NEW c, NEW d, NEW e, NEW f
  PROVE  /\ Start(1, c, d, e, f) = <<c>>
         /\ Start(2, c, d, e, f) = <<c, d>>
         /\ Start(3, c, d, e, f) = <<c, d, e>>
         /\ Start(4, c, d, e, f) = <<c, d, e, f>>
BY DEF Start

IsStart(t, n, c, d, e, f) ==
  /\ t \in Seq(Octets) /\ Len(t) = n
  /\ t[1] = c
  /\ n >= 2 => t[2] = d
  /\ n >= 3 => t[3] = e
  /\ n >= 4 => t[4] = f

LEMMA StartOf ==
  ASSUME NEW c \in Octets, NEW d \in Octets, NEW e \in Octets, NEW f \in Octets, NEW n \in 1 .. 4
  PROVE  IsStart(Start(n, c, d, e, f), n, c, d, e, f)
<1>1. CASE n = 1
  <2> DEFINE t == <<c>>
  <2>1. t \in Seq(Octets) /\ Len(t) = 1 /\ t[1] = c
    OBVIOUS
  <2>2. Start(n, c, d, e, f) = t
    BY <1>1, StartIs
  <2> HIDE DEF t
  <2> QED BY <1>1, <2>1, <2>2 DEF IsStart
<1>2. CASE n = 2
  <2> DEFINE t == <<c, d>>
  <2>1. t \in Seq(Octets) /\ Len(t) = 2 /\ t[1] = c /\ t[2] = d
    OBVIOUS
  <2>2. Start(n, c, d, e, f) = t
    BY <1>2, StartIs
  <2> HIDE DEF t
  <2> QED BY <1>2, <2>1, <2>2 DEF IsStart
<1>3. CASE n = 3
  <2> DEFINE t == <<c, d, e>>
  <2>1. t \in Seq(Octets) /\ Len(t) = 3 /\ t[1] = c /\ t[2] = d /\ t[3] = e
    OBVIOUS
  <2>2. Start(n, c, d, e, f) = t
    BY <1>3, StartIs
  <2> HIDE DEF t
  <2> QED BY <1>3, <2>1, <2>2 DEF IsStart
<1>4. CASE n = 4
  <2> DEFINE t == <<c, d, e, f>>
  <2>1. t \in Seq(Octets) /\ Len(t) = 4 /\ t[1] = c /\ t[2] = d /\ t[3] = e /\ t[4] = f
    OBVIOUS
  <2>2. Start(n, c, d, e, f) = t
    BY <1>4, StartIs
  <2> HIDE DEF t
  <2> QED BY <1>4, <2>1, <2>2 DEF IsStart
<1> QED BY <1>1, <1>2, <1>3, <1>4

(* A code point that is written in no more bytes than it needs.            *)
LEMMA ShortTwo ==
  ASSUME NEW x \in Nat, x < 32, NEW y \in 0 .. 63, NeedsLength(Joined(x, y), 2)
  PROVE  Encoded(Joined(x, y)) = TwoBytes(x, y)
<1> DEFINE u == Joined(x, y)
<1>1. u \in Nat /\ u \div 64 = x /\ u % 64 = y
  BY SixBits
<1>2. u < 2048
  BY DEF Joined
<1>3. u >= 128
  BY <1>1, NeedsBy
<1> HIDE DEF u
<1>4. Encoded(u) = InTwo(u)
  BY <1>1, <1>2, <1>3, EncodedBy
<1>5. InTwo(u) = TwoBytes(x, y)
  BY <1>1 DEF InTwo, TwoBytes
<1>6. Encoded(u) = TwoBytes(x, y)
  BY <1>4, <1>5
<1> QED BY <1>6 DEF u

LEMMA ShortThree ==
  ASSUME NEW x \in Nat, x < 16, NEW y \in 0 .. 63, NEW z \in 0 .. 63,
         NeedsLength(Joined(Joined(x, y), z), 3)
  PROVE  Encoded(Joined(Joined(x, y), z)) = ThreeBytes(x, y, z)
<1> DEFINE u == Joined(Joined(x, y), z)
<1>1. u \in Nat /\ u \div 4096 = x /\ (u \div 64) % 64 = y /\ u % 64 = z
  <2>1. EndsInTwo(u, x, y, z)
    BY TwoDigits
  <2> HIDE DEF u
  <2> QED BY <2>1 DEF EndsInTwo
<1>2. u < 65536
  BY DEF Joined
<1>3. NeedsLength(u, 3)
  OBVIOUS
<1> HIDE DEF u
<1>4. u >= 2048
  BY <1>1, <1>3, NeedsBy
<1>5. Encoded(u) = InThree(u)
  BY <1>1, <1>2, <1>4, EncodedBy
<1>6. InThree(u) = ThreeBytes(x, y, z)
  BY <1>1 DEF InThree, ThreeBytes
<1>7. Encoded(u) = ThreeBytes(x, y, z)
  BY <1>5, <1>6
<1> QED BY <1>7 DEF u

LEMMA ShortFour ==
  ASSUME NEW x \in Nat, NEW y \in 0 .. 63, NEW z \in 0 .. 63, NEW w \in 0 .. 63,
         NeedsLength(Joined(Joined(Joined(x, y), z), w), 4)
  PROVE  Encoded(Joined(Joined(Joined(x, y), z), w)) = FourBytes(x, y, z, w)
<1> DEFINE u == Joined(Joined(Joined(x, y), z), w)
<1>1. /\ u \in Nat /\ u \div 262144 = x /\ (u \div 4096) % 64 = y /\ (u \div 64) % 64 = z
      /\ u % 64 = w
  <2>1. EndsInThree(u, x, y, z, w)
    BY ThreeDigits
  <2> HIDE DEF u
  <2> QED BY <2>1, SMTT(30) DEF EndsInThree
<1>2. NeedsLength(u, 4)
  OBVIOUS
<1> HIDE DEF u
<1>3. u >= 65536
  BY <1>1, <1>2, NeedsBy
<1>4. Encoded(u) = InFour(u)
  BY <1>1, <1>3, EncodedBy
<1>5. InFour(u) = FourBytes(x, y, z, w)
  BY <1>1 DEF InFour, FourBytes
<1>6. Encoded(u) = FourBytes(x, y, z, w)
  BY <1>4, <1>5
<1> QED BY <1>6 DEF u

(* Gather begins with the bits of the first byte and takes one byte in     *)
(* each round.                                                             *)
LEMMA GatherLoop ==
  ASSUME NEW s \in Seq(Octets), NEW i \in Nat \ {0}, NEW n \in 1 .. 4
  PROVE  \E u : /\ u[1] = LeadBits(Byte(s, i), n)
                /\ \A k \in 2 .. n : u[k] = 64 * u[k - 1] + (Byte(s, i + k - 1) % 64)
                /\ Gather(s, i, n) = u[n]
<1> DEFINE a == LeadBits(Byte(s, i), n)
           D(k) == Byte(s, i + k - 1) % 64
           Loop(f) == f = [k \in 1 .. n |-> IF k = 1 THEN a ELSE 64 * f[k - 1] + D(k)]
           u == CHOOSE f : Loop(f)
           F == [x \in Int |-> [k \in Nat |-> 64 * x + D(k + 1)]]
<1>1. Gather(s, i, n) = u[n]
  BY DEF Gather
<1>2. a \in Nat
  BY ByteOctet, LeadBitsNat
<1>3. a \in Int
  BY <1>2
<1>4. ASSUME NEW k \in Nat PROVE D(k) \in Int
  <2>1. Byte(s, i + k - 1) \in Nat
    BY ByteOctet
  <2> QED BY <2>1
<1> HIDE DEF a, D
<1>5. F \in [Int -> [Nat -> Int]]
  BY <1>4
<1>6. \A x \in Int, k \in Nat : F[x][k] = 64 * x + D(k + 1)
  OBVIOUS
<1> HIDE DEF F
<1>7. PICK g \in [0 .. n -> Int] : Iterates(g, n, a, F)
  <2>1. n \in Nat
    OBVIOUS
  <2> QED BY <1>3, <1>5, <2>1, RecursionExists, Zenon
<1> DEFINE f == [k \in 1 .. n |-> g[k - 1]]
<1>8. Loop(f)
  <2>1. ASSUME NEW k \in 1 .. n PROVE f[k] = IF k = 1 THEN a ELSE 64 * f[k - 1] + D(k)
    <3>1. CASE k = 1
      BY <1>7, <3>1 DEF Iterates
    <3>2. CASE k # 1
      <4>1. k - 1 \in 1 .. n /\ g[(k - 1) - 1] \in Int /\ (k - 1) + 1 = k
        BY <3>2
      <4>2. g[k - 1] = F[g[(k - 1) - 1]][k - 1]
        BY <1>7, <4>1 DEF Iterates
      <4>3. k - 1 \in Nat
        OBVIOUS
      <4>4. F[g[(k - 1) - 1]][k - 1] = 64 * g[(k - 1) - 1] + D((k - 1) + 1)
        BY <1>6, <4>1, <4>3, Zenon
      <4>5. g[k - 1] = 64 * g[(k - 1) - 1] + D(k)
        BY <4>1, <4>2, <4>4, Zenon
      <4> QED BY <3>2, <4>1, <4>5
    <3> QED BY <3>1, <3>2
  <2> HIDE DEF f
  <2>2. f = [k \in 1 .. n |-> f[k]]
    BY DEF f
  <2> QED BY <2>1, <2>2
<1>9. Loop(u)
  <2> HIDE DEF Loop, f
  <2> QED BY <1>8
<1> HIDE DEF u
<1>10. u[1] = a /\ \A k \in 2 .. n : u[k] = 64 * u[k - 1] + D(k)
  <2>1. 1 \in 1 .. n
    OBVIOUS
  <2>2. u[1] = a
    BY <1>9, <2>1
  <2>3. ASSUME NEW k \in 2 .. n PROVE u[k] = 64 * u[k - 1] + D(k)
    BY <1>9
  <2> QED BY <2>2, <2>3
<1> WITNESS u
<1> QED BY <1>1, <1>10 DEF a, D

LEMMA GatherBits ==
  ASSUME NEW s \in Seq(Octets), NEW i \in Nat \ {0}, NEW n \in 1 .. 4
  PROVE  Gather(s, i, n) = Bits(n, Byte(s, i), Byte(s, i + 1), Byte(s, i + 2), Byte(s, i + 3))
<1>1. PICK u : /\ u[1] = LeadBits(Byte(s, i), n)
               /\ \A k \in 2 .. n : u[k] = 64 * u[k - 1] + (Byte(s, i + k - 1) % 64)
               /\ Gather(s, i, n) = u[n]
  BY GatherLoop
<1>2. Byte(s, i) \in Octets
  BY ByteOctet
<1>3. i + 2 - 1 = i + 1 /\ i + 3 - 1 = i + 2 /\ i + 4 - 1 = i + 3
  OBVIOUS
<1>4. n >= 2 => u[2] = 64 * u[1] + (Byte(s, i + 1) % 64)
  <2>1. n >= 2 => 2 \in 2 .. n
    OBVIOUS
  <2> QED BY <1>1, <1>3, <2>1
<1>5. n >= 3 => u[3] = 64 * u[2] + (Byte(s, i + 2) % 64)
  <2>1. n >= 3 => 3 \in 2 .. n
    OBVIOUS
  <2> QED BY <1>1, <1>3, <2>1
<1>6. n >= 4 => u[4] = 64 * u[3] + (Byte(s, i + 3) % 64)
  <2>1. n >= 4 => 4 \in 2 .. n
    OBVIOUS
  <2> QED BY <1>1, <1>3, <2>1
<1>7. CASE n = 1
  BY <1>1, <1>2, <1>7, LeadBitsOf DEF Bits, Joined
<1>8. CASE n = 2
  BY <1>1, <1>2, <1>4, <1>8, LeadBitsOf DEF Bits, Joined
<1>9. CASE n = 3
  BY <1>1, <1>2, <1>4, <1>5, <1>9, LeadBitsOf DEF Bits, Joined
<1>10. CASE n = 4
  BY <1>1, <1>2, <1>4, <1>5, <1>6, <1>10, LeadBitsOf DEF Bits, Joined
<1> QED BY <1>7, <1>8, <1>9, <1>10

LEMMA OctetNat ==
  ASSUME NEW c \in Octets
  PROVE  c \in Nat /\ c \in Int
BY DEF Octets

(* Where a generated parser finds a character, it is the shortest encoding *)
(* of a code point, the decoder of packcc reads the same, and a dot takes  *)
(* all of it.                                                              *)
LEMMA ShortestBytes ==
  ASSUME NEW c \in Octets, NEW d \in Octets, NEW e \in Octets, NEW f \in Octets,
         NEW n \in 1 .. 4, n = LengthBy(c),
         n >= 2 => Continues(d), n >= 3 => Continues(e), n >= 4 => Continues(f),
         NEW u, u = Bits(n, c, d, e, f), NeedsLength(u, n)
  PROVE  Encoded(u) = Start(n, c, d, e, f)
<1>1. c \in Nat /\ c \in Int
  BY OctetNat
<1>2. /\ n = 1 => c < 128
      /\ n = 2 => 192 <= c /\ c < 224
      /\ n = 3 => 224 <= c /\ c < 240
      /\ n = 4 => 240 <= c /\ c < 248
  BY LengthByRanges
<1>3. CASE n = 1
  <2>1. u = c
    BY <1>3, BitsBy
  <2>2. Encoded(c) = <<c>>
    BY <1>1, <1>2, <1>3, EncodedBy
  <2> QED BY <1>3, <2>1, <2>2, StartIs
<1>4. CASE n = 2
  <2> DEFINE x == c % 32
             y == d % 64
  <2>1. x \in Nat /\ 192 + x = c /\ x < 32
    BY <1>1, <1>2, <1>4, LeadDigit
  <2>2. y \in 0 .. 63 /\ 128 + y = d
    BY <1>4, ContinuationDigit
  <2>3. u = Joined(x, y)
    BY <1>4, BitsBy
  <2> HIDE DEF x, y
  <2>4. NeedsLength(Joined(x, y), 2)
    BY <1>4, <2>3
  <2>5. Encoded(Joined(x, y)) = TwoBytes(x, y)
    BY <2>1, <2>2, <2>4, ShortTwo
  <2>6. TwoBytes(x, y) = Start(n, c, d, e, f)
    BY <1>4, <2>1, <2>2, StartIs DEF TwoBytes
  <2> QED BY <2>3, <2>5, <2>6
<1>5. CASE n = 3
  <2> DEFINE x == c % 16
             y == d % 64
             z == e % 64
  <2>1. x \in Nat /\ 224 + x = c /\ x < 16
    BY <1>1, <1>2, <1>5, LeadDigit
  <2>2. y \in 0 .. 63 /\ 128 + y = d /\ z \in 0 .. 63 /\ 128 + z = e
    BY <1>5, ContinuationDigit
  <2>3. u = Joined(Joined(x, y), z)
    BY <1>5, BitsBy
  <2> HIDE DEF x, y, z
  <2>4. NeedsLength(Joined(Joined(x, y), z), 3)
    BY <1>5, <2>3, Zenon
  <2>5. Encoded(Joined(Joined(x, y), z)) = ThreeBytes(x, y, z)
    BY <2>1, <2>2, <2>4, ShortThree
  <2>6. ThreeBytes(x, y, z) = Start(n, c, d, e, f)
    BY <1>5, <2>1, <2>2, StartIs DEF ThreeBytes
  <2> QED BY <2>3, <2>5, <2>6
<1>6. CASE n = 4
  <2> DEFINE x == c % 8
             y == d % 64
             z == e % 64
             w == f % 64
  <2>1. x \in Nat /\ 240 + x = c
    BY <1>1, <1>2, <1>6, LeadDigit
  <2>2. /\ y \in 0 .. 63 /\ 128 + y = d /\ z \in 0 .. 63 /\ 128 + z = e
        /\ w \in 0 .. 63 /\ 128 + w = f
    BY <1>6, ContinuationDigit
  <2>3. u = Joined(Joined(Joined(x, y), z), w)
    BY <1>6, BitsBy
  <2> HIDE DEF x, y, z, w
  <2>4. NeedsLength(Joined(Joined(Joined(x, y), z), w), 4)
    BY <1>6, <2>3, Zenon
  <2>5. Encoded(Joined(Joined(Joined(x, y), z), w)) = FourBytes(x, y, z, w)
    BY <2>1, <2>2, <2>4, ShortFour
  <2>6. FourBytes(x, y, z, w) = Start(n, c, d, e, f)
    BY <1>6, <2>1, <2>2, StartIs DEF FourBytes
  <2> QED BY <2>3, <2>5, <2>6
<1> QED BY <1>3, <1>4, <1>5, <1>6

(* A piece of a sequence, by its elements.                                 *)
LEMMA PieceIs ==
  ASSUME NEW T, NEW s \in Seq(T), NEW i \in DOMAIN s, NEW n \in Nat, i + n - 1 <= Len(s),
         NEW t \in Seq(T), Len(t) = n, \A k \in 1 .. n : t[k] = s[i + k - 1]
  PROVE  SubSeq(s, i, i + n - 1) = t
<1> DEFINE m == i + n - 1
           r == SubSeq(s, i, m)
<1>1. i \in Int /\ m \in Int /\ \A k \in i .. m : s[k] \in T
  OBVIOUS
<1>2. m - i + 1 = n /\ (~ (i <= m) => n = 0)
  OBVIOUS
<1> HIDE DEF m
<1>3. /\ r \in Seq(T)
      /\ Len(r) = IF i <= m THEN m - i + 1 ELSE 0
      /\ \A k \in 1 .. m - i + 1 : r[k] = s[i + k - 1]
  BY <1>1, SubSeqProperties, SMTT(30)
<1> HIDE DEF r
<1>4. Len(r) = n /\ \A k \in 1 .. n : r[k] = s[i + k - 1]
  BY <1>2, <1>3
<1>5. r = t
  BY <1>3, <1>4, SeqEqual
<1> QED BY <1>5 DEF r, m

(* The bytes that follow the first one of a character.                     *)
Following(s, i, n) == \A k \in 1 .. n - 1 : Continues(s[i + k])

LEMMA ShortestCharacter ==
  ASSUME NEW s \in Seq(Octets), NEW i \in DOMAIN s, NEW n \in 1 .. 4, n = LengthBy(s[i]),
         i + n - 1 <= Len(s), Following(s, i, n), NeedsLength(Gather(s, i, n), n)
  PROVE  SubSeq(s, i, i + n - 1) = Encoded(Gather(s, i, n))
<1> DEFINE u == Gather(s, i, n)
           c == Byte(s, i)
           d == Byte(s, i + 1)
           e == Byte(s, i + 2)
           f == Byte(s, i + 3)
<1>1. i \in Nat \ {0} /\ c = s[i] /\ n = LengthBy(c)
  BY DEF Byte
<1>2. c \in Octets /\ d \in Octets /\ e \in Octets /\ f \in Octets
  BY ByteOctet
<1>3. u = Bits(n, c, d, e, f)
  BY <1>1, GatherBits
<1>4. ASSUME NEW k \in 1 .. 3, n >= k + 1
      PROVE  Byte(s, i + k) = s[i + k] /\ Continues(Byte(s, i + k))
  <2>1. i + k \in DOMAIN s /\ k \in 1 .. n - 1
    BY <1>1, <1>4
  <2> QED BY <2>1 DEF Byte, Following
<1>5. /\ n >= 2 => d = s[i + 1] /\ Continues(d)
      /\ n >= 3 => e = s[i + 2] /\ Continues(e)
      /\ n >= 4 => f = s[i + 3] /\ Continues(f)
  BY <1>4
<1>6. NeedsLength(u, n)
  OBVIOUS
<1> HIDE DEF u, c, d, e, f
<1>7. Encoded(u) = Start(n, c, d, e, f)
  BY <1>1, <1>2, <1>3, <1>5, <1>6, ShortestBytes
<1> DEFINE t == Start(n, c, d, e, f)
<1>8. /\ t \in Seq(Octets) /\ Len(t) = n
      /\ \A k \in 1 .. n : t[k] = s[i + k - 1]
  <2>0. IsStart(t, n, c, d, e, f)
    BY <1>2, StartOf
  <2> HIDE DEF t
  <2>1. /\ t \in Seq(Octets) /\ Len(t) = n
        /\ t[1] = c
        /\ n >= 2 => t[2] = d
        /\ n >= 3 => t[3] = e
        /\ n >= 4 => t[4] = f
    BY <2>0 DEF IsStart
  <2>2. ASSUME NEW k \in 1 .. n PROVE t[k] = s[i + k - 1]
    <3>1. k = 1 \/ (k = 2 /\ n >= 2) \/ (k = 3 /\ n >= 3) \/ (k = 4 /\ n >= 4)
      OBVIOUS
    <3>2. i + 1 - 1 = i /\ i + 2 - 1 = i + 1 /\ i + 3 - 1 = i + 2 /\ i + 4 - 1 = i + 3
      BY <1>1
    <3> QED BY <1>1, <1>5, <2>1, <3>1, <3>2
  <2> QED BY <2>1, <2>2
<1> HIDE DEF t
<1>9. SubSeq(s, i, i + n - 1) = t
  <2>1. n \in Nat
    OBVIOUS
  <2> QED BY <1>8, <2>1, PieceIs
<1> QED BY <1>7, <1>9 DEF u, t

LEMMA CharacterBy ==
  ASSUME NEW s \in Seq(Octets), NEW i \in DOMAIN s
  PROVE  LET n == LengthBy(s[i])
         IN IF /\ n > 0 /\ i + n - 1 <= Len(s) /\ Following(s, i, n)
               /\ NeedsLength(Gather(s, i, n), n)
            THEN pcc_get_char_as_utf32(s, i) = [n |-> n, u |-> Gather(s, i, n)]
            ELSE pcc_get_char_as_utf32(s, i) = [n |-> 0, u |-> 0]
<1>1. Byte(s, i) = s[i]
  BY DEF Byte
<1> QED BY <1>1 DEF pcc_get_char_as_utf32, Following

LEMMA NoCharacterBehind ==
  ASSUME NEW s, NEW i, i \notin DOMAIN s
  PROVE  pcc_get_char_as_utf32(s, i).n = 0
BY DEF pcc_get_char_as_utf32

LEMMA CharacterWhole ==
  ASSUME NEW s \in Seq(Bytes), NEW i \in DOMAIN s, pcc_get_char_as_utf32(s, i).n # 0
  PROVE  LET ch == pcc_get_char_as_utf32(s, i)
         IN /\ SubSeq(s, i, i + ch.n - 1) = Encoded(ch.u)
            /\ utf8_to_utf32(s, i) = ch
            /\ Takes(AnyUtf8, s, i) = ch.n
<1> DEFINE n == LengthBy(s[i])
           ch == pcc_get_char_as_utf32(s, i)
<1>1. s \in Seq(Octets) /\ s[i] # 0 /\ s[i] \in Octets
  <2>1. Bytes \subseteq Octets /\ 0 \notin Bytes
    BY DEF Bytes, Octets
  <2> QED BY <2>1
<1>2. /\ n > 0 /\ i + n - 1 <= Len(s) /\ Following(s, i, n) /\ NeedsLength(Gather(s, i, n), n)
      /\ ch = [n |-> n, u |-> Gather(s, i, n)]
  BY <1>1, CharacterBy
<1>3. n \in 1 .. 4
  BY <1>1, <1>2, LengthByRanges
<1> HIDE DEF ch
<1>4. ch.n = n /\ ch.u = Gather(s, i, n)
  BY <1>2
<1>5. SubSeq(s, i, i + ch.n - 1) = Encoded(ch.u)
  BY <1>1, <1>2, <1>3, <1>4, ShortestCharacter
<1>6. utf8_to_utf32(s, i) = ch
  <2>1. Byte(s, i) = s[i]
    BY DEF Byte
  <2>2. n # 0
    BY <1>3
  <2>3. LengthBy(s[i]) = n
    OBVIOUS
  <2> HIDE DEF n
  <2> QED BY <1>1, <1>2, <2>1, <2>2, <2>3 DEF utf8_to_utf32
<1>7. Takes(AnyUtf8, s, i) = ch.n
  BY DEF Takes, AnyUtf8, Code, ch
<1> QED BY <1>5, <1>6, <1>7 DEF ch

-----------------------------------------------------------------------------
(* The validator.                                                          *)

ScanStates == [ok : BOOLEAN, n : 0 .. 4, k : Int, u : Int]

LEMMA ScannedIn ==
  ASSUME NEW st \in ScanStates, NEW c \in Octets
  PROVE  Scanned(st, c) \in ScanStates
<1>1. c \in Nat /\ c % 64 \in Int
  BY OctetNat
<1>2. Refused \in ScanStates
  BY DEF Refused, ScanStates
<1>3. Begun(c) \in ScanStates
  <2>1. LengthBy(c) \in 0 .. 4
    BY LengthByRanges
  <2>2. LengthBy(c) # 0 => LeadBits(c, LengthBy(c)) \in Int
    <3> DEFINE n == LengthBy(c)
    <3>1. n # 0 => n \in 1 .. 4
      BY <2>1
    <3> HIDE DEF n
    <3>2. n # 0 => LeadBits(c, n) \in Nat
      BY <3>1, LeadBitsNat
    <3> QED BY <3>2 DEF n
  <2> QED BY <1>2, <2>1, <2>2 DEF Begun, ScanStates
<1>4. Continued(st, c) \in ScanStates
  <2>1. 64 * st.u + (c % 64) \in Int /\ st.k - 1 \in Int
    BY <1>1 DEF ScanStates
  <2> DEFINE u == 64 * st.u + (c % 64)
  <2> DEFINE new == [ok |-> TRUE, n |-> st.n, k |-> st.k - 1, u |-> u]
  <2>2. new \in ScanStates
    <3> HIDE DEF u
    <3> QED BY <2>1 DEF ScanStates, u
  <2>3. Continued(st, c) = Refused \/ Continued(st, c) = new
    BY DEF Continued
  <2> QED BY <1>2, <2>2, <2>3
<1> QED BY <1>2, <1>3, <1>4 DEF Scanned

(* The states of the scan: sc[i] is the one behind i bytes.                *)
Scans(sc, s) == sc[0] = Between /\ \A i \in 1 .. Len(s) : sc[i] = Scanned(sc[i - 1], s[i])

LEMMA ScanLoop ==
  ASSUME NEW s \in Seq(Octets)
  PROVE  \E sc : /\ Scans(sc, s)
                 /\ is_valid_utf8_string(s) <=> sc[Len(s)].ok /\ sc[Len(s)].k = 0
<1> DEFINE Loop(f) == f = [i \in 0 .. Len(s) |-> IF i = 0 THEN Between ELSE Scanned(f[i - 1], s[i])]
           sc == CHOOSE f : Loop(f)
           F == [x \in ScanStates |-> [i \in Nat |-> IF i \in DOMAIN s THEN Scanned(x, s[i]) ELSE x]]
<1>1. is_valid_utf8_string(s) <=> sc[Len(s)].ok /\ sc[Len(s)].k = 0
  BY DEF is_valid_utf8_string
<1>2. Between \in ScanStates
  BY DEF Between, ScanStates
<1>3. F \in [ScanStates -> [Nat -> ScanStates]]
  <2>1. ASSUME NEW x \in ScanStates, NEW i \in Nat, i \in DOMAIN s PROVE Scanned(x, s[i]) \in ScanStates
    <3>1. s[i] \in Octets
      BY <2>1
    <3> QED BY <3>1, ScannedIn
  <2> HIDE DEF ScanStates
  <2> QED BY <2>1
<1>4. \A x \in ScanStates, i \in Nat : i \in DOMAIN s => F[x][i] = Scanned(x, s[i])
  OBVIOUS
<1> HIDE DEF F
<1>5. PICK g \in [0 .. Len(s) -> ScanStates] : Iterates(g, Len(s), Between, F)
  <2>1. Len(s) \in Nat
    OBVIOUS
  <2> QED BY <1>2, <1>3, <2>1, RecursionExists, Zenon
<1>6. Loop(g)
  <2>1. ASSUME NEW i \in 0 .. Len(s) PROVE g[i] = IF i = 0 THEN Between ELSE Scanned(g[i - 1], s[i])
    <3>1. CASE i = 0
      BY <1>5, <3>1 DEF Iterates
    <3>2. CASE i # 0
      <4>1. i \in 1 .. Len(s) /\ i \in DOMAIN s /\ i \in Nat /\ g[i - 1] \in ScanStates
        BY <3>2
      <4>2. g[i] = F[g[i - 1]][i]
        BY <1>5, <4>1 DEF Iterates
      <4> QED BY <1>4, <3>2, <4>1, <4>2
    <3> QED BY <3>1, <3>2
  <2>2. g = [i \in 0 .. Len(s) |-> g[i]]
    OBVIOUS
  <2> QED BY <2>1, <2>2
<1>7. Loop(sc)
  <2> HIDE DEF Loop
  <2> QED BY <1>6
<1> HIDE DEF sc
<1>8. Scans(sc, s)
  <2>1. 0 \in 0 .. Len(s)
    OBVIOUS
  <2>2. sc[0] = Between
    BY <1>7, <2>1
  <2>3. ASSUME NEW i \in 1 .. Len(s) PROVE sc[i] = Scanned(sc[i - 1], s[i])
    BY <1>7
  <2> QED BY <2>2, <2>3 DEF Scans
<1> WITNESS sc
<1> QED BY <1>1, <1>8

(* What has been refused stays so.                                         *)
LEMMA RefusedStays ==
  ASSUME NEW s \in Seq(Octets), NEW sc, Scans(sc, s), NEW i \in 0 .. Len(s), ~ sc[i].ok
  PROVE  ~ sc[Len(s)].ok
<1> DEFINE S == {m \in Nat : i + m <= Len(s) => ~ sc[i + m].ok}
<1>1. 0 \in S
  OBVIOUS
<1>2. ASSUME NEW m \in Nat, m \in S PROVE m + 1 \in S
  <2>1. SUFFICES ASSUME i + (m + 1) <= Len(s) PROVE ~ sc[i + (m + 1)].ok
    OBVIOUS
  <2>2. i + (m + 1) \in 1 .. Len(s) /\ (i + (m + 1)) - 1 = i + m /\ i + m <= Len(s)
    BY <2>1
  <2>3. ~ sc[i + m].ok
    BY <1>2, <2>2
  <2>4. sc[i + (m + 1)] = Scanned(sc[i + m], s[i + (m + 1)])
    BY <2>2 DEF Scans
  <2> QED BY <2>3, <2>4 DEF Scanned, Refused
<1>3. Nat \subseteq S
  <2> HIDE DEF S
  <2> QED BY <1>1, <1>2, SetInduction
<1>4. Len(s) - i \in Nat /\ i + (Len(s) - i) = Len(s)
  OBVIOUS
<1> QED BY <1>3, <1>4
(* Between two characters, and behind j of the n bytes of one, whose bits  *)
(* so far are w: refused if a byte does not belong to it, or if it is      *)
(* complete and longer than it need be.                                    *)
BetweenAt(sc, i) == sc[i].ok /\ sc[i].k = 0
Good(s, i, n, j, w) == Following(s, i, j) /\ (j = n => NeedsLength(w, n))
InCharacter(sc, s, i, n, j, w) ==
  sc[i + j - 1] = IF Good(s, i, n, j, w) THEN [ok |-> TRUE, n |-> n, k |-> n - j, u |-> w] ELSE Refused

LEMMA NeedsOne ==
  ASSUME NEW u
  PROVE  NeedsLength(u, 1)
BY DEF NeedsLength

LEMMA FirstByte ==
  ASSUME NEW s \in Seq(Octets), NEW sc, Scans(sc, s), NEW i \in DOMAIN s, BetweenAt(sc, i - 1),
         NEW n \in 1 .. 4, n = LengthBy(s[i])
  PROVE  InCharacter(sc, s, i, n, 1, LeadBits(s[i], n))
<1>1. i \in 1 .. Len(s) /\ i + 1 - 1 = i
  OBVIOUS
<1>2. sc[i] = Scanned(sc[i - 1], s[i])
  BY <1>1 DEF Scans
<1>3. sc[i] = [ok |-> TRUE, n |-> n, k |-> n - 1, u |-> LeadBits(s[i], n)]
  <2>1. n # 0
    OBVIOUS
  <2> QED BY <1>2, <2>1 DEF Scanned, Begun, BetweenAt
<1>4. Following(s, i, 1)
  BY DEF Following
<1>5. 1 = n => NeedsLength(LeadBits(s[i], n), n)
  BY NeedsOne
<1> QED BY <1>1, <1>3, <1>4, <1>5 DEF InCharacter, Good

LEMMA NextByte ==
  ASSUME NEW s \in Seq(Octets), NEW sc, Scans(sc, s), NEW i \in DOMAIN s,
         NEW n \in 1 .. 4, NEW j \in 1 .. 3, j < n, i + j <= Len(s),
         NEW w, InCharacter(sc, s, i, n, j, w)
  PROVE  InCharacter(sc, s, i, n, j + 1, 64 * w + (s[i + j] % 64))
<1> DEFINE v == 64 * w + (s[i + j] % 64)
<1>1. i + j \in 1 .. Len(s) /\ i + (j + 1) - 1 = i + j /\ (i + j) - 1 = i + j - 1 /\ j # n
  OBVIOUS
<1>2. sc[i + j] = Scanned(sc[i + j - 1], s[i + j])
  BY <1>1 DEF Scans
<1>3. Following(s, i, j + 1) <=> Following(s, i, j) /\ Continues(s[i + j])
  <2>1. 1 .. (j + 1) - 1 = (1 .. j - 1) \cup {j}
    OBVIOUS
  <2> QED BY <2>1 DEF Following
<1>4. CASE ~ Following(s, i, j)
  <2>1. sc[i + j - 1] = Refused
    BY <1>4 DEF InCharacter, Good
  <2>2. sc[i + j] = Refused
    BY <1>2, <2>1 DEF Scanned, Refused
  <2> QED BY <1>1, <1>3, <1>4, <2>2 DEF InCharacter, Good
<1>5. CASE Following(s, i, j)
  <2> DEFINE st == [ok |-> TRUE, n |-> n, k |-> n - j, u |-> w]
  <2>1. sc[i + j - 1] = st
    BY <1>1, <1>5 DEF InCharacter, Good
  <2>2. sc[i + j] = Continued(st, s[i + j])
    <3>1. st.ok /\ st.k # 0
      OBVIOUS
    <3> HIDE DEF st
    <3> QED BY <1>2, <2>1, <3>1 DEF Scanned
  <2>3. st.u = w /\ st.n = n /\ st.k = n - j
    OBVIOUS
  <2>4. (n - j) - 1 = n - (j + 1) /\ (n - j = 1 <=> j + 1 = n)
    OBVIOUS
  <2> DEFINE full == [ok |-> TRUE, n |-> n, k |-> n - (j + 1), u |-> v]
  <2>5. Continued(st, s[i + j]) =
          IF ~ Continues(s[i + j]) \/ (j + 1 = n /\ ~ NeedsLength(v, n)) THEN Refused ELSE full
    <3> HIDE DEF st
    <3> QED BY <2>3, <2>4 DEF Continued
  <2>6. Good(s, i, n, j + 1, v) <=> ~ (~ Continues(s[i + j]) \/ (j + 1 = n /\ ~ NeedsLength(v, n)))
    BY <1>3, <1>5 DEF Good
  <2> HIDE DEF v, st
  <2> QED BY <1>1, <2>2, <2>5, <2>6 DEF InCharacter, v
<1> QED BY <1>4, <1>5

(* Behind as many bytes of a character as the string has.                  *)
LEMMA BytesScanned ==
  ASSUME NEW s \in Seq(Octets), NEW sc, Scans(sc, s), NEW i \in DOMAIN s, BetweenAt(sc, i - 1),
         NEW n \in 1 .. 4, n = LengthBy(s[i])
  PROVE  \E u : /\ Gather(s, i, n) = u[n]
                /\ \A j \in 1 .. n : i + j - 1 <= Len(s) => InCharacter(sc, s, i, n, j, u[j])
<1>1. i \in Nat \ {0} /\ Byte(s, i) = s[i]
  BY DEF Byte
<1>2. PICK u : /\ u[1] = LeadBits(Byte(s, i), n)
               /\ \A k \in 2 .. n : u[k] = 64 * u[k - 1] + (Byte(s, i + k - 1) % 64)
               /\ Gather(s, i, n) = u[n]
  BY <1>1, GatherLoop
<1>3. InCharacter(sc, s, i, n, 1, u[1])
  BY <1>1, <1>2, FirstByte
<1>4. ASSUME NEW j \in 1 .. 3, j < n, i + j <= Len(s), InCharacter(sc, s, i, n, j, u[j])
      PROVE  InCharacter(sc, s, i, n, j + 1, u[j + 1])
  <2>1. i + j \in DOMAIN s /\ j + 1 \in 2 .. n /\ (j + 1) - 1 = j /\ i + (j + 1) - 1 = i + j
    BY <1>1, <1>4
  <2>2. Byte(s, i + j) = s[i + j]
    BY <2>1 DEF Byte
  <2>3. u[j + 1] = 64 * u[(j + 1) - 1] + (Byte(s, i + (j + 1) - 1) % 64)
    BY <1>2, <2>1
  <2>4. u[j + 1] = 64 * u[j] + (s[i + j] % 64)
    BY <2>1, <2>2, <2>3
  <2>5. InCharacter(sc, s, i, n, j + 1, 64 * u[j] + (s[i + j] % 64))
    BY <1>4, NextByte
  <2> QED BY <2>4, <2>5
<1>5. n >= 2 /\ i + 1 <= Len(s) => InCharacter(sc, s, i, n, 2, u[2])
  BY <1>3, <1>4
<1>6. n >= 3 /\ i + 2 <= Len(s) => InCharacter(sc, s, i, n, 3, u[3])
  BY <1>1, <1>4, <1>5
<1>7. n >= 4 /\ i + 3 <= Len(s) => InCharacter(sc, s, i, n, 4, u[4])
  BY <1>1, <1>4, <1>6
<1>8. ASSUME NEW j \in 1 .. n, i + j - 1 <= Len(s) PROVE InCharacter(sc, s, i, n, j, u[j])
  <2>1. j = 1 \/ (j = 2 /\ n >= 2 /\ i + 1 <= Len(s)) \/ (j = 3 /\ n >= 3 /\ i + 2 <= Len(s))
        \/ (j = 4 /\ n >= 4 /\ i + 3 <= Len(s))
    BY <1>1, <1>8
  <2> QED BY <1>3, <1>5, <1>6, <1>7, <2>1
<1> WITNESS u
<1> QED BY <1>2, <1>8

(* The scan comes to the end of a character exactly where a parser finds   *)
(* one, and accepts no string in which the parser finds none.              *)
LEMMA CharacterScanned ==
  ASSUME NEW s \in Seq(Octets), NEW sc, Scans(sc, s), NEW i \in DOMAIN s, BetweenAt(sc, i - 1)
  PROVE  LET n == pcc_get_char_as_utf32(s, i).n
         IN /\ n \in 0 .. 4
            /\ n # 0 => i + n - 1 <= Len(s) /\ BetweenAt(sc, i + n - 1)
            /\ n = 0 => ~ BetweenAt(sc, Len(s))
<1> DEFINE ch == pcc_get_char_as_utf32(s, i)
           n == LengthBy(s[i])
           found == /\ n > 0 /\ i + n - 1 <= Len(s) /\ Following(s, i, n)
                    /\ NeedsLength(Gather(s, i, n), n)
<1>1. IF found THEN ch.n = n ELSE ch.n = 0
  <2>1. IF found THEN ch = [n |-> n, u |-> Gather(s, i, n)] ELSE ch = [n |-> 0, u |-> 0]
    BY CharacterBy
  <2> HIDE DEF ch, found
  <2> QED BY <2>1
<1>2. n \in 0 .. 4 /\ i \in 1 .. Len(s) /\ Len(s) \in Nat
  <2>1. s[i] \in Octets
    OBVIOUS
  <2> QED BY <2>1, LengthByRanges
<1>3. n = 0 => ~ BetweenAt(sc, Len(s))
  <2>1. SUFFICES ASSUME n = 0 PROVE ~ BetweenAt(sc, Len(s))
    OBVIOUS
  <2>2. sc[i] = Scanned(sc[i - 1], s[i])
    BY <1>2 DEF Scans
  <2>3. ~ sc[i].ok
    BY <2>1, <2>2 DEF Scanned, Begun, BetweenAt, Refused
  <2>4. i \in 0 .. Len(s)
    BY <1>2
  <2> QED BY <2>3, <2>4, RefusedStays DEF BetweenAt
<1>4. CASE n # 0
  <2>1. n \in 1 .. 4
    BY <1>2, <1>4
  <2>2. PICK u : /\ Gather(s, i, n) = u[n]
                 /\ \A j \in 1 .. n : i + j - 1 <= Len(s) => InCharacter(sc, s, i, n, j, u[j])
    BY <2>1, BytesScanned
  <2> HIDE DEF n, ch
  <2>3. CASE i + n - 1 <= Len(s)
    <3>1. InCharacter(sc, s, i, n, n, u[n])
      BY <2>1, <2>2, <2>3
    <3>2. found <=> Good(s, i, n, n, u[n])
      BY <2>1, <2>2, <2>3 DEF Good
    <3>3. n - n = 0 /\ i + n - 1 \in 0 .. Len(s)
      BY <1>2, <2>1, <2>3
    <3>4. CASE found
      <4>1. sc[i + n - 1] = [ok |-> TRUE, n |-> n, k |-> n - n, u |-> u[n]]
        BY <3>1, <3>2, <3>4 DEF InCharacter
      <4>2. BetweenAt(sc, i + n - 1)
        BY <3>3, <4>1 DEF BetweenAt
      <4>3. ch.n = n
        BY <1>1, <3>4
      <4> HIDE DEF found
      <4> QED BY <2>1, <2>3, <4>2, <4>3 DEF ch
    <3>5. CASE ~ found
      <4>1. sc[i + n - 1] = Refused
        BY <3>1, <3>2, <3>5 DEF InCharacter
      <4>2. ~ sc[i + n - 1].ok
        BY <4>1 DEF Refused
      <4>3. ~ sc[Len(s)].ok
        BY <3>3, <4>2, RefusedStays
      <4>4. ch.n = 0
        BY <1>1, <3>5
      <4> QED BY <4>3, <4>4 DEF ch, BetweenAt
    <3> QED BY <3>4, <3>5
  <2>4. CASE ~ (i + n - 1 <= Len(s))
    <3> DEFINE j == Len(s) - i + 1
    <3>1. j \in 1 .. n /\ i + j - 1 = Len(s) /\ n - j # 0
      <4> DEFINE l == Len(s)
      <4>1. l \in Nat /\ i \in Nat /\ n \in Nat /\ 1 <= i /\ i <= l /\ ~ (i + n - 1 <= l)
        BY <1>2, <2>1, <2>4
      <4> HIDE DEF l
      <4>2. l - i + 1 \in 1 .. n /\ i + (l - i + 1) - 1 = l /\ n - (l - i + 1) # 0
        BY <4>1
      <4> QED BY <4>2 DEF l
    <3> HIDE DEF j
    <3>2. InCharacter(sc, s, i, n, j, u[j])
      BY <1>2, <2>2, <3>1
    <3>3. \/ sc[Len(s)] = [ok |-> TRUE, n |-> n, k |-> n - j, u |-> u[j]]
          \/ sc[Len(s)] = Refused
      BY <3>1, <3>2 DEF InCharacter
    <3>4. ~ BetweenAt(sc, Len(s))
      BY <3>1, <3>3 DEF BetweenAt, Refused
    <3>5. ch.n = 0
      BY <1>1, <2>4
    <3> QED BY <3>4, <3>5 DEF ch
  <2> QED BY <2>3, <2>4
<1>5. CASE n = 0
  <2>1. ch.n = 0
    BY <1>1, <1>5
  <2> QED BY <1>3, <1>5, <2>1 DEF ch
<1> QED BY <1>4, <1>5

(* The characters of a string in a row: place[k] is where the one behind k *)
(* of them begins.                                                         *)
Places(place, s) ==
  /\ place[0] = 1
  /\ \A k \in 1 .. Len(s) : place[k] = place[k - 1] + pcc_get_char_as_utf32(s, place[k - 1]).n

LEMMA CharacterLength ==
  ASSUME NEW s \in Seq(Octets), NEW i
  PROVE  pcc_get_char_as_utf32(s, i).n \in Nat
<1>1. CASE i \in DOMAIN s
  <2>1. s[i] \in Octets
    BY <1>1
  <2>2. LengthBy(s[i]) \in Nat
    BY <2>1, LengthByRanges
  <2> QED BY <1>1, <2>2, CharacterBy
<1>2. CASE i \notin DOMAIN s
  BY <1>2, NoCharacterBehind
<1> QED BY <1>1, <1>2

LEMMA PlaceLoop ==
  ASSUME NEW s \in Seq(Octets)
  PROVE  LET Loop(f) == f = [k \in 0 .. Len(s) |->
                               IF k = 0 THEN 1
                               ELSE f[k - 1] + pcc_get_char_as_utf32(s, f[k - 1]).n]
         IN Places(CHOOSE f : Loop(f), s)
<1> DEFINE Step(i) == i + pcc_get_char_as_utf32(s, i).n
           Loop(f) == f = [k \in 0 .. Len(s) |-> IF k = 0 THEN 1 ELSE Step(f[k - 1])]
           place == CHOOSE f : Loop(f)
           F == [x \in Int |-> [k \in Nat |-> Step(x)]]
<1>1. ASSUME NEW x \in Int PROVE Step(x) \in Int
  BY CharacterLength
<1> HIDE DEF Step
<1>2. F \in [Int -> [Nat -> Int]]
  BY <1>1
<1>3. \A x \in Int, k \in Nat : F[x][k] = Step(x)
  OBVIOUS
<1> HIDE DEF F
<1>4. PICK g \in [0 .. Len(s) -> Int] : Iterates(g, Len(s), 1, F)
  <2>1. Len(s) \in Nat /\ 1 \in Int
    OBVIOUS
  <2> QED BY <1>2, <2>1, RecursionExists, Zenon
<1>5. Loop(g)
  <2>1. ASSUME NEW k \in 0 .. Len(s) PROVE g[k] = IF k = 0 THEN 1 ELSE Step(g[k - 1])
    <3>1. CASE k = 0
      BY <1>4, <3>1 DEF Iterates
    <3>2. CASE k # 0
      <4>1. k \in 1 .. Len(s) /\ k \in Nat /\ g[k - 1] \in Int
        BY <3>2
      <4>2. g[k] = F[g[k - 1]][k]
        BY <1>4, <4>1 DEF Iterates
      <4> QED BY <1>3, <3>2, <4>1, <4>2
    <3> QED BY <3>1, <3>2
  <2>2. g = [k \in 0 .. Len(s) |-> g[k]]
    OBVIOUS
  <2> QED BY <2>1, <2>2
<1>6. Loop(place)
  <2> HIDE DEF Loop
  <2> QED BY <1>5
<1>7. place[0] = 1 /\ \A k \in 1 .. Len(s) : place[k] = Step(place[k - 1])
  <2> HIDE DEF place
  <2>1. 0 \in 0 .. Len(s)
    OBVIOUS
  <2>2. place[0] = 1
    BY <1>6, <2>1
  <2>3. ASSUME NEW k \in 1 .. Len(s) PROVE place[k] = Step(place[k - 1])
    BY <1>6
  <2> QED BY <2>2, <2>3
<1>8. Places(place, s)
  <2> HIDE DEF place
  <2> QED BY <1>7 DEF Places, Step
<1> QED BY <1>8, Zenon DEF Step

(* A parser that reads one character after the other is always between two *)
(* that the scan has passed, and has moved on by at least one byte each     *)
(* time, unless it has stopped where it finds no character.                *)
AtPlace(s, sc, place, k) ==
  LET i == place[k]
  IN /\ i \in 1 .. Len(s) + 1 /\ BetweenAt(sc, i - 1)
     /\ i > k \/ i = Len(s) + 1 \/ pcc_get_char_as_utf32(s, i).n = 0

LEMMA PlacesScanned ==
  ASSUME NEW s \in Seq(Octets), NEW sc, Scans(sc, s), NEW place, Places(place, s),
         NEW k \in 0 .. Len(s)
  PROVE  AtPlace(s, sc, place, k)
<1> DEFINE S == {m \in Nat : m <= Len(s) => AtPlace(s, sc, place, m)}
<1>1. 0 \in S
  <2>1. place[0] = 1 /\ 1 \in 1 .. Len(s) + 1 /\ 1 - 1 = 0 /\ 1 > 0
    BY DEF Places
  <2>2. BetweenAt(sc, 0)
    BY DEF BetweenAt, Scans, Between
  <2> QED BY <2>1, <2>2 DEF AtPlace
<1>2. ASSUME NEW m \in Nat, m \in S PROVE m + 1 \in S
  <2>1. SUFFICES ASSUME m + 1 <= Len(s) PROVE AtPlace(s, sc, place, m + 1)
    OBVIOUS
  <2> DEFINE i == place[m]
             n == pcc_get_char_as_utf32(s, i).n
  <2>2. AtPlace(s, sc, place, m) /\ m + 1 \in 1 .. Len(s) /\ (m + 1) - 1 = m
    BY <1>2, <2>1
  <2>3. place[m + 1] = i + n
    BY <2>2 DEF Places
  <2>4. /\ i \in 1 .. Len(s) + 1 /\ BetweenAt(sc, i - 1)
        /\ i > m \/ i = Len(s) + 1 \/ n = 0
    BY <2>2 DEF AtPlace
  <2> HIDE DEF i
  <2>5. CASE n = 0
    <3>1. place[m + 1] = i
      BY <2>3, <2>4, <2>5
    <3> QED BY <2>4, <2>5, <3>1 DEF AtPlace
  <2>6. CASE n # 0
    <3>1. i \in DOMAIN s
      BY <2>6, NoCharacterBehind
    <3>2. n \in 0 .. 4 /\ i + n - 1 <= Len(s) /\ BetweenAt(sc, i + n - 1)
      BY <2>4, <2>6, <3>1, CharacterScanned
    <3> HIDE DEF n
    <3>3. i > m
      BY <2>4, <2>6, <3>1
    <3>4. i + n \in 1 .. Len(s) + 1 /\ (i + n) - 1 = i + n - 1 /\ i + n > m + 1
      BY <2>4, <2>6, <3>1, <3>2, <3>3
    <3> QED BY <2>3, <3>2, <3>4 DEF AtPlace
  <2> QED BY <2>5, <2>6
<1>3. Nat \subseteq S
  <2> HIDE DEF S
  <2> QED BY <1>1, <1>2, SetInduction
<1> QED BY <1>3

(* The decoders agree on every string of bytes.                            *)
LEMMA AgreeOn ==
  ASSUME NEW s \in Seq(Bytes), NEW place, Places(place, s)
  PROVE  /\ is_valid_utf8_string(s) <=> place[Len(s)] = Len(s) + 1
         /\ \A k \in 0 .. Len(s) :
              LET i == place[k]
                  ch == pcc_get_char_as_utf32(s, i)
              IN is_valid_utf8_string(s) /\ i \in DOMAIN s =>
                   /\ SubSeq(s, i, i + ch.n - 1) = Encoded(ch.u)
                   /\ utf8_to_utf32(s, i) = ch
                   /\ Takes(AnyUtf8, s, i) = ch.n
<1>1. s \in Seq(Octets) /\ Len(s) \in Nat
  <2>1. Bytes \subseteq Octets
    BY DEF Bytes, Octets
  <2> QED BY <2>1
<1>2. PICK sc : /\ Scans(sc, s)
                /\ is_valid_utf8_string(s) <=> sc[Len(s)].ok /\ sc[Len(s)].k = 0
  BY <1>1, ScanLoop
<1>3. is_valid_utf8_string(s) <=> BetweenAt(sc, Len(s))
  BY <1>2 DEF BetweenAt
<1>4. ASSUME NEW k \in 0 .. Len(s) PROVE AtPlace(s, sc, place, k)
  BY <1>1, <1>2, PlacesScanned
<1>5. ASSUME NEW k \in 0 .. Len(s), is_valid_utf8_string(s), place[k] \in DOMAIN s
      PROVE  pcc_get_char_as_utf32(s, place[k]).n # 0
  <2>1. BetweenAt(sc, place[k] - 1)
    BY <1>4 DEF AtPlace
  <2> QED BY <1>1, <1>2, <1>3, <1>5, <2>1, CharacterScanned
<1>6. is_valid_utf8_string(s) <=> place[Len(s)] = Len(s) + 1
  <2>1. Len(s) \in 0 .. Len(s)
    BY <1>1
  <2> DEFINE i == place[Len(s)]
  <2>2. /\ i \in 1 .. Len(s) + 1 /\ BetweenAt(sc, i - 1)
        /\ i > Len(s) \/ i = Len(s) + 1 \/ pcc_get_char_as_utf32(s, i).n = 0
    BY <1>4, <2>1 DEF AtPlace
  <2>3. ASSUME i = Len(s) + 1 PROVE is_valid_utf8_string(s)
    <3>1. i - 1 = Len(s)
      BY <1>1, <2>3
    <3> QED BY <1>3, <2>2, <3>1
  <2>4. ASSUME is_valid_utf8_string(s) PROVE i = Len(s) + 1
    <3>1. i \in DOMAIN s => pcc_get_char_as_utf32(s, i).n # 0
      BY <1>5, <2>1, <2>4
    <3> HIDE DEF i
    <3>2. i \in DOMAIN s <=> i \in 1 .. Len(s)
      BY <1>1
    <3> QED BY <1>1, <2>2, <3>1, <3>2
  <2> QED BY <2>3, <2>4
<1>7. ASSUME NEW k \in 0 .. Len(s), is_valid_utf8_string(s), place[k] \in DOMAIN s
      PROVE  LET ch == pcc_get_char_as_utf32(s, place[k])
             IN /\ SubSeq(s, place[k], place[k] + ch.n - 1) = Encoded(ch.u)
                /\ utf8_to_utf32(s, place[k]) = ch
                /\ Takes(AnyUtf8, s, place[k]) = ch.n
  <2>1. pcc_get_char_as_utf32(s, place[k]).n # 0
    BY <1>5, <1>7
  <2> QED BY <1>7, <2>1, CharacterWhole
<1> QED BY <1>6, <1>7

(* packcc takes exactly the grammars in which the parsers it writes find    *)
(* one character after the other up to the end, and there they, a dot and   *)
(* packcc's own decoder agree on each character, the shortest encoding of   *)
(* its code point.                                                         *)
THEOREM DecodersAlike == Spec => []DecodersAgree
<1>1. CallInv => DecodersAgree
  <2> SUFFICES ASSUME CallInv PROVE DecodersAgree
    OBVIOUS
  <2>1. CASE ~ Returned("utf8")
    BY <2>1 DEF DecodersAgree
  <2>2. CASE Returned("utf8")
    <3> DEFINE s == call.arg
               Loop(f) == f = [k \in 0 .. Len(s) |->
                                 IF k = 0 THEN 1
                                 ELSE f[k - 1] + pcc_get_char_as_utf32(s, f[k - 1]).n]
               place == CHOOSE f : Loop(f)
    <3>1. call \in Calls /\ call.f = "utf8" /\ result = Result(call.f, call.arg)
      BY <2>2, Zenon DEF CallInv, Returned
    <3>2. s \in Seq(Bytes)
      BY <3>1, CallsAssumption, Zenon
    <3>3. result = is_valid_utf8_string(s)
      BY <3>1 DEF Result
    <3>4. Places(place, s)
      <4>1. s \in Seq(Octets)
        <5>1. Bytes \subseteq Octets
          BY DEF Bytes, Octets
        <5> HIDE DEF s
        <5> QED BY <3>2, <5>1
      <4> HIDE DEF s
      <4> QED BY <4>1, PlaceLoop
    <3>5. DecodersAgree <=>
            /\ result <=> place[Len(s)] = Len(s) + 1
            /\ \A k \in 0 .. Len(s) :
                 LET i == place[k]
                     ch == pcc_get_char_as_utf32(s, i)
                 IN result /\ i \in DOMAIN s => /\ SubSeq(s, i, i + ch.n - 1) = Encoded(ch.u)
                                                /\ utf8_to_utf32(s, i) = ch
                                                /\ Takes(AnyUtf8, s, i) = ch.n
      BY <2>2 DEF DecodersAgree
    <3> HIDE DEF place, s
    <3> QED BY <3>2, <3>3, <3>4, <3>5, AgreeOn
  <2> QED BY <2>1, <2>2
<1> QED BY <1>1, CallInvariance, PTL

-----------------------------------------------------------------------------
(* Escape sequences.                                                       *)

LEMMA HexValueInt ==
  ASSUME NEW c
  PROVE  HexValue(c) \in Int /\ HexValue(0) = VOID
<1>1. HexValue(0) = VOID
  BY DEF HexValue
<1>2. CASE c \in 48 .. 57
  BY <1>1, <1>2 DEF HexValue
<1>3. CASE c \in 97 .. 102
  BY <1>1, <1>3 DEF HexValue, VOID
<1>4. CASE c \in 65 .. 70
  BY <1>1, <1>4 DEF HexValue, VOID
<1>5. CASE c \notin 48 .. 57 /\ c \notin 97 .. 102 /\ c \notin 65 .. 70
  BY <1>1, <1>5 DEF HexValue, VOID
<1> QED BY <1>2, <1>3, <1>4, <1>5

(* There are as many digits as HexDigits says, and all are of the string.  *)
LEMMA DigitsThere ==
  ASSUME NEW s \in Seq(Bytes), NEW i \in Nat \ {0}, NEW max \in Nat
  PROVE  /\ HexDigits(s, i, max) \in 0 .. max
         /\ \A k \in 0 .. HexDigits(s, i, max) - 1 : i + k \in DOMAIN s
<1> DEFINE Bad(n) == HexValue(Byte(s, i + n)) = VOID
           Right(n) == /\ \A k \in 0 .. n - 1 : ~ Bad(k)
                       /\ n < max => Bad(n)
           n0 == HexDigits(s, i, max)
           B == {n \in 0 .. max : n = max \/ Bad(n)}
<1>1. n0 = CHOOSE n \in 0 .. max : Right(n)
  BY DEF HexDigits
<1>2. \E n \in 0 .. max : Right(n)
  <2>1. PICK m \in B : \A k \in B : m <= k
    <3>1. B \subseteq Nat /\ max \in B
      OBVIOUS
    <3> HIDE DEF B
    <3> QED BY <3>1, Least
  <2> HIDE DEF Bad
  <2>2. ASSUME NEW k \in 0 .. m - 1 PROVE ~ Bad(k)
    <3>1. k \in 0 .. max /\ ~ (m <= k)
      OBVIOUS
    <3> QED BY <2>1, <3>1
  <2>3. m \in 0 .. max /\ (m < max => Bad(m))
    OBVIOUS
  <2> QED BY <2>2, <2>3
<1>3. n0 \in 0 .. max /\ Right(n0)
  <2> HIDE DEF Right, n0
  <2> QED BY <1>1, <1>2
<1>4. ASSUME NEW k \in 0 .. n0 - 1 PROVE i + k \in DOMAIN s
  <2>1. HexValue(Byte(s, i + k)) # VOID
    BY <1>3, <1>4
  <2>2. Byte(s, i + k) # 0
    BY <2>1, HexValueInt
  <2> QED BY <2>2 DEF Byte
<1> QED BY <1>3, <1>4

LEMMA HexNumberInt ==
  ASSUME NEW s, NEW i \in Nat, NEW n \in Nat
  PROVE  HexNumber(s, i, n) \in Int
<1> DEFINE D(k) == HexValue(s[i + k - 1])
           Loop(f) == f = [k \in 0 .. n |-> IF k = 0 THEN 0 ELSE 16 * f[k - 1] + D(k)]
           v == CHOOSE f : Loop(f)
           F == [x \in Int |-> [k \in Nat |-> 16 * x + D(k)]]
<1>1. HexNumber(s, i, n) = v[n]
  BY DEF HexNumber
<1>2. ASSUME NEW k PROVE D(k) \in Int
  BY HexValueInt
<1> HIDE DEF D
<1>3. F \in [Int -> [Nat -> Int]]
  BY <1>2
<1>4. \A x \in Int, k \in Nat : F[x][k] = 16 * x + D(k)
  OBVIOUS
<1> HIDE DEF F
<1>5. PICK g \in [0 .. n -> Int] : Iterates(g, n, 0, F)
  <2>1. 0 \in Int
    OBVIOUS
  <2> QED BY <1>3, <2>1, RecursionExists, Zenon
<1>6. Loop(g)
  <2>1. ASSUME NEW k \in 0 .. n PROVE g[k] = IF k = 0 THEN 0 ELSE 16 * g[k - 1] + D(k)
    <3>1. CASE k = 0
      BY <1>5, <3>1 DEF Iterates
    <3>2. CASE k # 0
      <4>1. k \in 1 .. n /\ k \in Nat /\ g[k - 1] \in Int
        BY <3>2
      <4>2. g[k] = F[g[k - 1]][k]
        BY <1>5, <4>1 DEF Iterates
      <4> QED BY <1>4, <3>2, <4>1, <4>2
    <3> QED BY <3>1, <3>2
  <2>2. g = [k \in 0 .. n |-> g[k]]
    OBVIOUS
  <2> QED BY <2>1, <2>2
<1>7. Loop(v)
  <2> HIDE DEF Loop
  <2> QED BY <1>6
<1> HIDE DEF v
<1> DEFINE S == {k \in Nat : k <= n => v[k] \in Int}
<1>8. 0 \in S
  BY <1>7
<1>9. ASSUME NEW k \in Nat, k \in S PROVE k + 1 \in S
  <2>1. SUFFICES ASSUME k + 1 <= n PROVE v[k + 1] \in Int
    OBVIOUS
  <2>2. k + 1 \in 0 .. n /\ k + 1 # 0 /\ (k + 1) - 1 = k /\ v[k] \in Int
    BY <1>9, <2>1
  <2>3. v[k + 1] = 16 * v[k] + D(k + 1)
    BY <1>7, <2>2
  <2> QED BY <1>2, <2>2, <2>3
<1>10. Nat \subseteq S
  <2> HIDE DEF S
  <2> QED BY <1>8, <1>9, SetInduction
<1> QED BY <1>1, <1>10

LEMMA EncodedLength ==
  ASSUME NEW u \in Int
  PROVE  Encoded(u) \in Seq(Int) /\ Len(Encoded(u)) \in 1 .. 4
<1>1. /\ u \div 64 \in Int /\ u % 64 \in Int /\ u \div 4096 \in Int /\ (u \div 64) % 64 \in Int
      /\ u \div 262144 \in Int /\ (u \div 4096) % 64 \in Int
  OBVIOUS
<1>2. CASE u < 128
  BY <1>2 DEF Encoded
<1>3. CASE ~ (u < 128) /\ u < 2048
  <2>1. Encoded(u) = InTwo(u)
    BY <1>3 DEF Encoded, InTwo
  <2>2. InTwo(u) \in Seq(Int) /\ Len(InTwo(u)) = 2
    BY <1>1 DEF InTwo
  <2> QED BY <2>1, <2>2
<1>4. CASE ~ (u < 2048) /\ u < 65536
  <2>1. Encoded(u) = InThree(u)
    BY <1>4 DEF Encoded, InThree
  <2>2. InThree(u) \in Seq(Int) /\ Len(InThree(u)) = 3
    BY <1>1 DEF InThree
  <2> QED BY <2>1, <2>2
<1>5. CASE ~ (u < 65536)
  <2>1. Encoded(u) = InFour(u)
    BY <1>5 DEF Encoded, InFour
  <2>2. InFour(u) \in Seq(Int) /\ Len(InFour(u)) = 4
    BY <1>1 DEF InFour
  <2> QED BY <2>1, <2>2
<1> QED BY <1>2, <1>3, <1>4, <1>5

(* The states of the loop in which it has stayed in the string.            *)
UnescapeRecords == [i : Nat, out : Seq(Int), ok : BOOLEAN, end : BOOLEAN]
UnescapeStates(s) == {st \in UnescapeRecords : st.i >= 1 /\ Within(st, s)}

LEMMA StateBy ==
  ASSUME NEW s, NEW st \in UnescapeStates(s)
  PROVE  /\ st \in UnescapeRecords /\ st.i \in Nat \ {0} /\ st.out \in Seq(Int)
         /\ st.ok \in BOOLEAN /\ st.end \in BOOLEAN /\ Len(st.out) \in Nat
         /\ st.i <= Len(s) + 1 /\ Len(st.out) < st.i
<1>1. st \in UnescapeRecords /\ st.i >= 1 /\ Within(st, s)
  BY DEF UnescapeStates
<1>2. st.i \in Nat /\ st.out \in Seq(Int) /\ st.ok \in BOOLEAN /\ st.end \in BOOLEAN
  BY <1>1 DEF UnescapeRecords
<1>3. Len(st.out) \in Nat
  BY <1>2
<1> QED BY <1>1, <1>2, <1>3 DEF Within

(* To write no more bytes than are read keeps it there.                    *)
LEMMA WentWithin ==
  ASSUME NEW s \in Seq(Bytes), NEW st \in UnescapeStates(s), NEW j \in Nat, NEW bytes \in Seq(Int),
         j <= Len(s) + 1, st.i + Len(bytes) <= j
  PROVE  Went(st, j, bytes) \in UnescapeStates(s)
<1> DEFINE new == Went(st, j, bytes)
           out == st.out \o bytes
<1>1. /\ st \in UnescapeRecords /\ st.i \in Nat \ {0} /\ st.out \in Seq(Int)
      /\ Len(st.out) \in Nat /\ Len(st.out) < st.i
  BY StateBy
<1>2. out \in Seq(Int) /\ Len(out) = Len(st.out) + Len(bytes) /\ Len(bytes) \in Nat
  BY <1>1, ConcatProperties
<1>3. new = [st EXCEPT !.i = j, !.out = out]
  BY DEF Went
<1> HIDE DEF new, out
<1>4. new \in UnescapeRecords /\ new.i = j /\ new.out = out
  BY <1>1, <1>2, <1>3 DEF UnescapeRecords
<1>5. new.i >= 1 /\ Within(new, s)
  BY <1>1, <1>2, <1>4 DEF Within
<1>6. new \in UnescapeStates(s)
  BY <1>4, <1>5 DEF UnescapeStates
<1> QED BY <1>6 DEF new

LEMMA FailedWithin ==
  ASSUME NEW s, NEW st \in UnescapeStates(s)
  PROVE  Failed(st) \in UnescapeStates(s) /\ Ended(st) \in UnescapeStates(s)
<1>1. st \in UnescapeRecords /\ st.i >= 1 /\ Within(st, s)
  BY DEF UnescapeStates
<1>2. Failed(st) \in UnescapeRecords /\ Failed(st).i = st.i /\ Failed(st).out = st.out
  BY <1>1 DEF UnescapeRecords, Failed
<1>3. Ended(st) \in UnescapeRecords /\ Ended(st).i = st.i /\ Ended(st).out = st.out
  BY <1>1 DEF UnescapeRecords, Ended
<1> QED BY <1>1, <1>2, <1>3 DEF UnescapeStates, Within

LEMMA ByteInt ==
  ASSUME NEW s \in Seq(Bytes), NEW j
  PROVE  /\ Byte(s, j) \in Int
         /\ Byte(s, j) # 0 => j \in DOMAIN s
         /\ j \in DOMAIN s => Byte(s, j) # 0
<1>1. Bytes \subseteq Int /\ 0 \notin Bytes
  BY DEF Bytes
<1>2. j \in DOMAIN s => s[j] \in Bytes
  OBVIOUS
<1>3. CASE j \in DOMAIN s
  <2>1. Byte(s, j) = s[j]
    BY <1>3 DEF Byte
  <2>2. s[j] \in Int /\ s[j] # 0
    BY <1>1, <1>2, <1>3
  <2> QED BY <1>3, <2>1, <2>2
<1>4. CASE j \notin DOMAIN s
  <2>1. Byte(s, j) = 0
    BY <1>4 DEF Byte
  <2> QED BY <1>4, <2>1
<1> QED BY <1>3, <1>4

(* An escape sequence with too few digits is kept, with what stands behind *)
(* it if that is there.                                                    *)
LEMMA KeptWithin ==
  ASSUME NEW s \in Seq(Bytes), NEW st \in UnescapeStates(s), NEW n \in 0 .. 4, NEW missing \in BOOLEAN,
         st.i + n + 2 <= Len(s) + 1, missing \/ st.i + n + 2 \in DOMAIN s
  PROVE  Kept(st, s, n, missing) \in UnescapeStates(s)
<1> DEFINE bytes == [k \in 1 .. n + 3 |-> Byte(s, st.i + k - 1)]
           short == SubSeq(bytes, 1, n + 2)
           i == st.i
<1>1. i \in Nat \ {0} /\ Len(s) \in Nat
  BY StateBy
<1>2. bytes \in Seq(Int) /\ Len(bytes) = n + 3 /\ bytes[n + 3] = Byte(s, i + n + 2)
  <2>1. ASSUME NEW k \in 1 .. n + 3 PROVE Byte(s, i + k - 1) \in Int
    BY ByteInt
  <2>2. i + (n + 3) - 1 = i + n + 2 /\ n + 3 \in 1 .. n + 3 /\ n + 3 \in Nat
    BY <1>1
  <2>3. bytes \in [1 .. n + 3 -> Int]
    BY <2>1
  <2>4. bytes[n + 3] = Byte(s, i + (n + 3) - 1)
    BY <2>2
  <2> HIDE DEF bytes, i
  <2>5. bytes \in Seq(Int) /\ Len(bytes) = n + 3
    BY <2>2, <2>3
  <2> QED BY <2>2, <2>4, <2>5
<1>3. short \in Seq(Int) /\ Len(short) = n + 2
  <2>1. n + 2 \in 1 .. n + 3 /\ n + 2 \in Int /\ 1 \in Int
    OBVIOUS
  <2> HIDE DEF bytes
  <2>2. \A k \in 1 .. n + 2 : bytes[k] \in Int
    BY <1>2
  <2>3. short \in Seq(Int) /\ Len(short) = IF 1 <= n + 2 THEN (n + 2) - 1 + 1 ELSE 0
    BY <2>1, <2>2, SubSeqProperties
  <2> HIDE DEF short
  <2> QED BY <2>3
<1>4. Kept(st, s, n, missing) =
        IF missing /\ bytes[n + 3] = 0 THEN Ended(Went(st, i + n + 2, short))
        ELSE Failed(Went(st, i + n + 3, bytes))
  BY DEF Kept
<1> HIDE DEF bytes, short, i
<1>5. Went(st, i + n + 2, short) \in UnescapeStates(s)
  <2>1. i + n + 2 \in Nat /\ i + n + 2 <= Len(s) + 1 /\ i + Len(short) <= i + n + 2
    BY <1>1, <1>3 DEF i
  <2> QED BY <1>3, <2>1, WentWithin DEF i
<1>6. CASE missing /\ bytes[n + 3] = 0
  <2>1. Ended(Went(st, i + n + 2, short)) \in UnescapeStates(s)
    BY <1>5, FailedWithin
  <2> QED BY <1>4, <1>6, <2>1
<1>7. CASE ~ (missing /\ bytes[n + 3] = 0)
  <2>1. i + n + 2 \in DOMAIN s
    BY <1>2, <1>7, ByteInt DEF i
  <2>2. i + n + 3 \in Nat /\ i + n + 3 <= Len(s) + 1 /\ i + Len(bytes) <= i + n + 3
    BY <1>1, <1>2, <2>1
  <2>3. Went(st, i + n + 3, bytes) \in UnescapeStates(s)
    BY <1>2, <2>2, WentWithin DEF i
  <2>4. Failed(Went(st, i + n + 3, bytes)) \in UnescapeStates(s)
    BY <2>3, FailedWithin
  <2> QED BY <1>4, <1>7, <2>4
<1> QED BY <1>6, <1>7

LEMMA EscapeXWithin ==
  ASSUME NEW s \in Seq(Bytes), NEW st \in UnescapeStates(s), st.i + 1 \in DOMAIN s
  PROVE  EscapeX(st, s) \in UnescapeStates(s)
<1> DEFINE i == st.i
           n == HexDigits(s, i + 2, 2)
           h == HexNumber(s, i + 2, 2)
<1>1. i \in Nat \ {0} /\ i + 1 \in DOMAIN s /\ i + 2 \in Nat \ {0} /\ Len(s) \in Nat
  BY StateBy
<1>2. n \in 0 .. 2 /\ \A k \in 0 .. n - 1 : (i + 2) + k \in DOMAIN s
  BY <1>1, DigitsThere
<1>3. h \in Int
  BY <1>1, HexNumberInt
<1>4. EscapeX(st, s) = IF n = 2 THEN Went(st, i + 4, <<h>>) ELSE Kept(st, s, n, TRUE)
  BY DEF EscapeX
<1> HIDE DEF n, h
<1>5. CASE n = 2
  <2>1. (i + 2) + 1 \in DOMAIN s
    BY <1>2, <1>5
  <2>2. i + 4 \in Nat /\ i + 4 <= Len(s) + 1
    BY <1>1, <2>1
  <2>3. <<h>> \in Seq(Int) /\ Len(<<h>>) = 1
    BY <1>3
  <2>4. i + Len(<<h>>) <= i + 4
    BY <1>1, <2>3
  <2>5. Went(st, i + 4, <<h>>) \in UnescapeStates(s)
    BY <2>2, <2>3, <2>4, WentWithin
  <2> QED BY <1>4, <1>5, <2>5
<1>6. CASE n # 2
  <2>1. i + n + 2 <= Len(s) + 1
    <3>1. CASE n = 0
      BY <1>1, <3>1
    <3>2. CASE n = 1
      <4>1. (i + 2) + 0 \in DOMAIN s
        BY <1>2, <3>2
      <4> QED BY <1>1, <3>2, <4>1
    <3> QED BY <1>2, <1>6, <3>1, <3>2
  <2>2. n \in 0 .. 4
    BY <1>2
  <2>3. Kept(st, s, n, TRUE) \in UnescapeStates(s)
    BY <2>1, <2>2, KeptWithin
  <2> QED BY <1>4, <1>6, <2>3
<1> QED BY <1>5, <1>6

(* What is kept is a failure.                                              *)
LEMMA RecordBy ==
  ASSUME NEW st \in UnescapeRecords
  PROVE  /\ st.i \in Nat /\ st.out \in Seq(Int) /\ st.ok \in BOOLEAN /\ st.end \in BOOLEAN
         /\ Len(st.out) \in Nat
BY DEF UnescapeRecords

LEMMA WentRecord ==
  ASSUME NEW st \in UnescapeRecords, NEW j \in Nat, NEW bytes \in Seq(Int)
  PROVE  /\ Went(st, j, bytes) \in UnescapeRecords
         /\ Went(st, j, bytes) = [i |-> j, out |-> st.out \o bytes, ok |-> st.ok, end |-> st.end]
<1> DEFINE out == st.out \o bytes
<1>1. out \in Seq(Int)
  BY RecordBy, ConcatProperties
<1>2. Went(st, j, bytes) = [st EXCEPT !.i = j, !.out = out]
  BY DEF Went
<1> HIDE DEF out
<1>3. Went(st, j, bytes) = [i |-> j, out |-> out, ok |-> st.ok, end |-> st.end]
  BY <1>2 DEF UnescapeRecords
<1>4. [i |-> j, out |-> out, ok |-> st.ok, end |-> st.end] \in UnescapeRecords
  BY <1>1, RecordBy DEF UnescapeRecords
<1> QED BY <1>3, <1>4 DEF out

LEMMA FailedRecord ==
  ASSUME NEW st \in UnescapeRecords
  PROVE  /\ Failed(st) \in UnescapeRecords /\ ~ Failed(st).ok
         /\ Ended(st) \in UnescapeRecords /\ ~ Ended(st).ok
BY DEF UnescapeRecords, Failed, Ended

LEMMA KeptRecord ==
  ASSUME NEW s \in Seq(Bytes), NEW st \in UnescapeRecords, NEW n \in 0 .. 4, NEW missing
  PROVE  Kept(st, s, n, missing) \in UnescapeRecords /\ ~ Kept(st, s, n, missing).ok
<1> DEFINE bytes == [k \in 1 .. n + 3 |-> Byte(s, st.i + k - 1)]
           short == SubSeq(bytes, 1, n + 2)
           i == st.i
<1>1. i \in Nat /\ i + n + 2 \in Nat /\ i + n + 3 \in Nat
  BY RecordBy
<1>2. bytes \in Seq(Int) /\ Len(bytes) = n + 3
  <2>1. ASSUME NEW k \in 1 .. n + 3 PROVE Byte(s, i + k - 1) \in Int
    BY ByteInt
  <2>2. n + 3 \in Nat
    OBVIOUS
  <2>3. bytes \in [1 .. n + 3 -> Int]
    BY <2>1
  <2> HIDE DEF bytes
  <2> QED BY <2>2, <2>3
<1>3. short \in Seq(Int)
  <2>1. n + 2 \in 1 .. n + 3 /\ n + 2 \in Int /\ 1 \in Int
    OBVIOUS
  <2> HIDE DEF bytes
  <2>2. \A k \in 1 .. n + 2 : bytes[k] \in Int
    BY <1>2
  <2> QED BY <2>1, <2>2, SubSeqProperties
<1>4. Kept(st, s, n, missing) =
        IF missing /\ bytes[n + 3] = 0 THEN Ended(Went(st, i + n + 2, short))
        ELSE Failed(Went(st, i + n + 3, bytes))
  BY DEF Kept
<1> HIDE DEF bytes, short, i
<1>5. Went(st, i + n + 2, short) \in UnescapeRecords /\ Went(st, i + n + 3, bytes) \in UnescapeRecords
  BY <1>1, <1>2, <1>3, WentRecord
<1> QED BY <1>4, <1>5, FailedRecord

LEMMA KeptBehind ==
  ASSUME NEW s \in Seq(Bytes), NEW st \in UnescapeRecords, NEW n \in 0 .. 4, NEW missing
  PROVE  Kept(st, s, n, missing).i >= 1
<1> DEFINE bytes == [k \in 1 .. n + 3 |-> Byte(s, st.i + k - 1)]
           short == SubSeq(bytes, 1, n + 2)
           a == Went(st, st.i + n + 2, short)
           b == Went(st, st.i + n + 3, bytes)
<1>1. Kept(st, s, n, missing) = IF missing /\ bytes[n + 3] = 0 THEN Ended(a) ELSE Failed(b)
  BY DEF Kept
<1>2. Ended(a).i = st.i + n + 2 /\ Failed(b).i = st.i + n + 3
  BY DEF Ended, Failed, Went, UnescapeRecords
<1>3. st.i \in Nat
  BY RecordBy
<1> HIDE DEF a, b, bytes, short
<1> QED BY <1>1, <1>2, <1>3

(* A surrogate without a partner at the end of the string is the one case  *)
(* in which the byte behind what is kept is not one of the string; such a  *)
(* string is refused.                                                      *)
LostStates(s) == {st \in UnescapeRecords : ~ st.ok /\ EndsInSurrogate(s) /\ st.i >= 1}
StatesOf(s)   == UnescapeStates(s) \cup LostStates(s)

LEMMA EscapeUWithin ==
  ASSUME NEW s \in Seq(Bytes), NEW st \in UnescapeStates(s),
         Byte(s, st.i) = Backslash, Byte(s, st.i + 1) = LetterU
  PROVE  EscapeU(st, s) \in StatesOf(s)
<1> DEFINE i == st.i
           d == i + 2
           n == HexDigits(s, d, 4)
           h == HexNumber(s, d, 4)
           lone == LowSurrogate(h) \/ (Surrogates(s, d) /\ ~ PairAt(s, d))
           next == IF Surrogates(s, d) THEN d + 10 ELSE d + 4
           u == CodePoint(s, d)
<1>1. i \in Nat \ {0} /\ d \in Nat \ {0} /\ Len(s) \in Nat
  BY StateBy
<1>2. i + 1 \in DOMAIN s
  <2>1. Byte(s, i + 1) # 0
    BY DEF LetterU
  <2> QED BY <2>1, ByteInt
<1>3. n \in 0 .. 4 /\ \A k \in 0 .. n - 1 : d + k \in DOMAIN s
  BY <1>1, DigitsThere
<1>4. h \in Int
  BY <1>1, HexNumberInt
<1>5. EscapeU(st, s) = IF n < 4 THEN Kept(st, s, n, TRUE)
                       ELSE IF lone THEN Kept(st, s, n, FALSE)
                       ELSE Went(st, next, Encoded(u))
  BY DEF EscapeU
<1>6. d + n <= Len(s) + 1
  <2>1. CASE n = 0
    BY <1>1, <1>2, <2>1
  <2>2. CASE n # 0
    <3>1. n - 1 \in 0 .. n - 1
      BY <1>3, <2>2
    <3>2. d + (n - 1) \in DOMAIN s
      BY <1>3, <3>1
    <3> HIDE DEF n
    <3> QED BY <1>1, <1>3, <3>2
  <2> QED BY <2>1, <2>2
<1>7. i + n + 2 = d + n
  BY <1>1, <1>3
<1>8. CASE n < 4
  <2>1. Kept(st, s, n, TRUE) \in UnescapeStates(s)
    BY <1>3, <1>6, <1>7, KeptWithin
  <2> QED BY <1>5, <1>8, <2>1 DEF StatesOf
<1>9. CASE ~ (n < 4) /\ lone
  <2>1. n = 4
    BY <1>3, <1>9
  <2>2. CASE d + n \notin DOMAIN s
    <3>1. d + n \notin DOMAIN s
      BY <2>2
    <3>2. Len(s) = i + 5
      BY <1>1, <1>6, <2>1, <3>1
    <3>3. i \in DOMAIN s /\ s[i] = Backslash
      <4>1. Byte(s, i) # 0
        BY DEF Backslash
      <4> QED BY <4>1, ByteInt DEF Byte
    <3>4. s[i + 1] = LetterU
      BY <1>2 DEF Byte
    <3>5. SubSeq(s, Len(s) - 5, Len(s) - 4) = <<Backslash, LetterU>>
      <4> DEFINE t == <<Backslash, LetterU>>
      <4>1. i + 2 - 1 = i + 1 /\ i + 1 - 1 = i /\ Len(s) - 5 = i /\ Len(s) - 4 = i + 2 - 1
        BY <1>1, <3>2
      <4>2. t \in Seq(Bytes) /\ Len(t) = 2 /\ t[1] = Backslash /\ t[2] = LetterU
        <5>1. Backslash \in Bytes /\ LetterU \in Bytes
          BY DEF Backslash, LetterU, Bytes
        <5> QED BY <5>1
      <4> HIDE DEF t
      <4>3. \A k \in 1 .. 2 : t[k] = s[i + k - 1]
        BY <3>3, <3>4, <4>1, <4>2
      <4>4. i + 2 - 1 <= Len(s)
        BY <1>1, <3>2
      <4>5. SubSeq(s, i, i + 2 - 1) = t
        BY <3>3, <4>2, <4>3, <4>4, PieceIs
      <4> QED BY <4>1, <4>5 DEF t
    <3>6. HexNumber(s, d, 4) \in 55296 .. 57343
      <4>1. h \div 1024 = 54 \/ h \div 1024 = 55
        BY <1>9 DEF LowSurrogate, Surrogates, HighSurrogate
      <4> HIDE DEF h
      <4>2. h >= 55296 /\ h <= 57343
        BY <1>4, <4>1
      <4>3. h \in 55296 .. 57343
        BY <1>4, <4>2
      <4> QED BY <4>3 DEF h
    <3>7. Len(s) - 3 = d /\ Len(s) >= 6
      BY <1>1, <3>2
    <3>8. EndsInSurrogate(s)
      BY <2>1, <3>5, <3>6, <3>7 DEF EndsInSurrogate
    <3> DEFINE new == Kept(st, s, n, FALSE)
    <3>9. st \in UnescapeRecords
      BY StateBy
    <3>10. new \in UnescapeRecords /\ ~ new.ok
      BY <1>3, <3>9, KeptRecord
    <3>11. new.i >= 1
      BY <1>1, <1>3, <3>9, KeptBehind
    <3> HIDE DEF new
    <3>12. new \in LostStates(s)
      BY <3>8, <3>10, <3>11 DEF LostStates
    <3> QED BY <1>5, <1>9, <3>12 DEF StatesOf, new
  <2>3. CASE d + n \in DOMAIN s
    <3>1. Kept(st, s, n, FALSE) \in UnescapeStates(s)
      BY <1>3, <1>6, <1>7, <2>3, KeptWithin
    <3> QED BY <1>5, <1>9, <3>1 DEF StatesOf
  <2> QED BY <2>2, <2>3
<1>10. CASE ~ (n < 4) /\ ~ lone
  <2>1. n = 4
    BY <1>3, <1>10
  <2>2. u \in Int
    <3>1. d + 6 \in Nat
      BY <1>1
    <3> DEFINE g == HexNumber(s, d + 6, 4)
    <3>2. g \in Int
      BY <3>1, HexNumberInt
    <3>3. u = IF ~ HighSurrogate(h) THEN h ELSE ((h % 1024) + 64) * 1024 + (g % 1024)
      BY DEF CodePoint
    <3> HIDE DEF u, h, g
    <3>4. ((h % 1024) + 64) * 1024 + (g % 1024) \in Int
      BY <1>4, <3>2
    <3> QED BY <1>4, <3>3, <3>4
  <2>3. Encoded(u) \in Seq(Int) /\ Len(Encoded(u)) \in 1 .. 4
    BY <2>2, EncodedLength
  <2>4. next \in Nat /\ next <= Len(s) + 1 /\ next >= i + 6
    <3>1. CASE Surrogates(s, d)
      <4>1. HexDigits(s, d + 6, 4) = 4
        BY <1>10, <3>1 DEF PairAt
      <4>2. d + 6 \in Nat \ {0}
        BY <1>1
      <4>3. (d + 6) + 3 \in DOMAIN s
        <5>1. \A k \in 0 .. HexDigits(s, d + 6, 4) - 1 : (d + 6) + k \in DOMAIN s
          BY <4>2, DigitsThere
        <5>2. 3 \in 0 .. 4 - 1
          OBVIOUS
        <5> QED BY <4>1, <5>1, <5>2
      <4>4. next = d + 10
        BY <3>1
      <4> QED BY <1>1, <4>3, <4>4
    <3>2. CASE ~ Surrogates(s, d)
      <4>1. next = d + 4
        BY <3>2
      <4> QED BY <1>1, <1>6, <2>1, <4>1
    <3> QED BY <3>1, <3>2
  <2> HIDE DEF u, next
  <2>5. i + Len(Encoded(u)) <= next
    <3> DEFINE l == Len(Encoded(u))
    <3>1. l \in 1 .. 4
      BY <2>3
    <3> HIDE DEF l, i
    <3>2. i + l <= next
      BY <1>1, <2>4, <3>1
    <3> QED BY <3>2 DEF l, i
  <2>6. Went(st, next, Encoded(u)) \in UnescapeStates(s)
    BY <2>3, <2>4, <2>5, WentWithin
  <2> QED BY <1>5, <1>10, <2>6 DEF StatesOf
<1> QED BY <1>8, <1>9, <1>10

LEMMA UnescapeStepWithin ==
  ASSUME NEW s \in Seq(Bytes), NEW cls \in BOOLEAN, NEW st \in UnescapeStates(s), st.i <= Len(s)
  PROVE  UnescapeStep(st, s, cls) \in StatesOf(s)
<1> DEFINE i == st.i
           c == Byte(s, i)
           e == Byte(s, i + 1)
<1>1. i \in Nat \ {0} /\ Len(s) \in Nat /\ i \in DOMAIN s /\ i + 1 <= Len(s) + 1
  BY StateBy
<1>2. c \in Int /\ e \in Int /\ (e # 0 => i + 2 <= Len(s) + 1)
  <2>1. c \in Int /\ e \in Int /\ (e # 0 => i + 1 \in DOMAIN s)
    BY ByteInt
  <2> HIDE DEF e, c
  <2> QED BY <1>1, <2>1
<1>3. ASSUME NEW b \in Int PROVE Went(st, i + 1, <<b>>) \in UnescapeStates(s)
  <2> DEFINE bytes == <<b>>
  <2>1. bytes \in Seq(Int) /\ Len(bytes) = 1 /\ i + 1 \in Nat
    BY <1>1
  <2> HIDE DEF bytes
  <2>2. i + Len(bytes) <= i + 1
    BY <1>1, <2>1
  <2>3. Went(st, i + 1, bytes) \in UnescapeStates(s)
    BY <1>1, <2>1, <2>2, WentWithin
  <2> QED BY <2>3 DEF bytes
<1>4. ASSUME NEW bytes \in Seq(Int), Len(bytes) <= 2, e # 0
      PROVE  Went(st, i + 2, bytes) \in UnescapeStates(s)
  <2>1. Len(bytes) \in Nat /\ i + 2 \in Nat
    BY <1>1
  <2>2. i + Len(bytes) <= i + 2
    BY <1>1, <1>4, <2>1
  <2> HIDE DEF e
  <2> QED BY <1>2, <1>4, <2>1, <2>2, WentWithin
<1>5. CASE c # Backslash
  <2>1. UnescapeStep(st, s, cls) = Went(st, i + 1, <<c>>)
    BY <1>5 DEF UnescapeStep
  <2> HIDE DEF c
  <2> QED BY <1>2, <1>3, <2>1 DEF StatesOf
<1>6. CASE c = Backslash /\ e = 0
  <2>1. UnescapeStep(st, s, cls) = Ended(Went(st, i + 1, <<Backslash>>))
    BY <1>6 DEF UnescapeStep
  <2>2. Backslash \in Int
    BY DEF Backslash
  <2>3. Went(st, i + 1, <<Backslash>>) \in UnescapeStates(s)
    BY <1>3, <2>2
  <2> QED BY <2>1, <2>3, FailedWithin DEF StatesOf
<1>7. CASE c = Backslash /\ e # 0
  <2> DEFINE two   == IF cls THEN <<Backslash, Backslash>> ELSE <<Backslash>>
             simple == Went(st, i + 2, <<Simple(e)>>)
             hex   == EscapeX(st, s)
             unit  == EscapeU(st, s)
             feed  == Went(st, i + 2, <<>>)
             crlf  == Went(st, IF Byte(s, i + 2) = 10 THEN i + 3 ELSE i + 2, <<>>)
             slash == Went(st, i + 2, two)
             other == Went(st, i + 2, <<Backslash, e>>)
  <2>1. UnescapeStep(st, s, cls) =
          CASE Simple(e) # VOID -> simple [] e = LetterX -> hex [] e = LetterU -> unit
            [] e = 10 -> feed [] e = 13 -> crlf [] e = Backslash -> slash [] OTHER -> other
    BY <1>7 DEF UnescapeStep
  <2>2. Backslash \in Int /\ LetterU \in Int
    BY DEF Backslash, LetterU
  <2>3. simple \in UnescapeStates(s)
    <3>1. Simple(e) \in Int
      <4> HIDE DEF e
      <4> QED BY DEF Simple, VOID
    <3> DEFINE bytes == <<Simple(e)>>
    <3>2. bytes \in Seq(Int) /\ Len(bytes) <= 2
      <4> DEFINE b == Simple(e)
      <4> HIDE DEF b, e
      <4>1. <<b>> \in Seq(Int) /\ Len(<<b>>) = 1
        BY <3>1 DEF b
      <4>2. Len(<<b>>) <= 2
        BY <4>1
      <4> QED BY <4>1, <4>2 DEF b
    <3> HIDE DEF e, c, bytes
    <3>3. Went(st, i + 2, bytes) \in UnescapeStates(s)
      BY <1>4, <1>7, <3>2
    <3> QED BY <3>3 DEF bytes
  <2>4. feed \in UnescapeStates(s)
    <3> DEFINE none == <<>>
    <3>1. none \in Seq(Int) /\ Len(none) = 0
      OBVIOUS
    <3> HIDE DEF e, c, none
    <3>2. Len(none) <= 2
      BY <3>1
    <3>3. Went(st, i + 2, none) \in UnescapeStates(s)
      BY <1>4, <1>7, <3>1, <3>2
    <3> QED BY <3>3 DEF none
  <2>5. slash \in UnescapeStates(s)
    <3>1. two \in Seq(Int) /\ Len(two) <= 2
      <4>1. CASE cls
        BY <2>2, <4>1
      <4>2. CASE ~ cls
        BY <2>2, <4>2
      <4> QED BY <4>1, <4>2
    <3> HIDE DEF e, c, two
    <3> QED BY <1>4, <1>7, <3>1
  <2>6. other \in UnescapeStates(s)
    <3> DEFINE bytes == <<Backslash, e>>
    <3> HIDE DEF e, c
    <3>1. bytes \in Seq(Int) /\ Len(bytes) = 2
      BY <1>2, <2>2
    <3> HIDE DEF bytes
    <3>2. Len(bytes) <= 2
      BY <3>1
    <3>3. Went(st, i + 2, bytes) \in UnescapeStates(s)
      BY <1>4, <1>7, <3>1, <3>2
    <3> QED BY <3>3 DEF bytes
  <2>7. crlf \in UnescapeStates(s)
    <3>1. CASE Byte(s, i + 2) = 10
      <4>1. i + 2 \in DOMAIN s
        BY <3>1, ByteInt
      <4>2. i + 3 \in Nat /\ i + 3 <= Len(s) + 1
        BY <1>1, <4>1
      <4>3. <<>> \in Seq(Int) /\ Len(<<>>) = 0
        OBVIOUS
      <4>4. i + Len(<<>>) <= i + 3
        BY <1>1, <4>3
      <4>5. Went(st, i + 3, <<>>) \in UnescapeStates(s)
        BY <4>2, <4>3, <4>4, WentWithin
      <4> QED BY <3>1, <4>5
    <3>2. CASE Byte(s, i + 2) # 10
      <4>1. crlf = feed
        BY <3>2
      <4> HIDE DEF crlf, feed
      <4> QED BY <2>4, <4>1
    <3> QED BY <3>1, <3>2
  <2>8. hex \in UnescapeStates(s)
    <3>1. i + 1 \in DOMAIN s
      BY <1>7, ByteInt
    <3> QED BY <3>1, EscapeXWithin
  <2>9. e = LetterU => unit \in StatesOf(s)
    BY <1>7, EscapeUWithin
  <2> HIDE DEF simple, hex, unit, feed, crlf, slash, other, e, c
  <2> QED BY <2>1, <2>3, <2>4, <2>5, <2>6, <2>7, <2>8, <2>9 DEF StatesOf
<1> QED BY <1>5, <1>6, <1>7

(* However long the string, no round leaves it, if it is not refused for a *)
(* surrogate at its end.                                                   *)
LEMMA UnescapedWithin ==
  ASSUME NEW s \in Seq(Bytes), NEW cls \in BOOLEAN
  PROVE  LET r == unescape_string(s, cls) IN r.inside \/ (~ r.ok /\ EndsInSurrogate(s))
<1> DEFINE r == unescape_string(s, cls)
           X == StatesOf(s)
           a == [i |-> 1, out |-> <<>>, ok |-> TRUE, end |-> FALSE]
           Round(st) == IF st.end \/ ~Within(st, s) \/ st.i > Len(s) THEN st ELSE UnescapeStep(st, s, cls)
           Loop(f) == f = [k \in 0 .. Len(s) |-> IF k = 0 THEN a ELSE Round(f[k - 1])]
           after == CHOOSE f : Loop(f)
           last == after[Len(s)]
           F == [x \in X |-> [k \in Nat |-> Round(x)]]
<1>1. r.inside = Within(last, s) /\ r.ok = last.ok
  <2>1. r = [ok |-> last.ok, out |-> UpToZero(last.out), inside |-> Within(last, s)]
    BY DEF unescape_string
  <2> HIDE DEF last, r
  <2> QED BY <2>1
<1> HIDE DEF r
<1>2. a \in X
  <2>1. <<>> \in Seq(Int) /\ Len(<<>>) = 0 /\ Len(s) \in Nat
    OBVIOUS
  <2>2. a \in UnescapeRecords
    BY <2>1 DEF UnescapeRecords
  <2>3. a.i = 1 /\ a.out = <<>>
    OBVIOUS
  <2> HIDE DEF a
  <2>4. a.i >= 1 /\ Within(a, s)
    BY <2>1, <2>3 DEF Within
  <2> QED BY <2>2, <2>4 DEF UnescapeStates, StatesOf
<1>3. ASSUME NEW x \in X PROVE Round(x) \in X
  <2>1. CASE x.end \/ ~Within(x, s) \/ x.i > Len(s)
    BY <2>1
  <2>2. CASE ~ (x.end \/ ~Within(x, s) \/ x.i > Len(s))
    <3>0. x \in UnescapeStates(s)
      BY <2>2 DEF StatesOf, LostStates, UnescapeStates
    <3>1. x.i <= Len(s)
      <4>1. x.i \in Nat \ {0}
        BY <3>0, StateBy
      <4> QED BY <2>2, <4>1
    <3>2. UnescapeStep(x, s, cls) \in X
      BY <3>0, <3>1, UnescapeStepWithin
    <3>3. Round(x) = UnescapeStep(x, s, cls)
      BY <2>2
    <3> QED BY <3>2, <3>3
  <2> QED BY <2>1, <2>2
<1> HIDE DEF X, a, Round
<1>4. F \in [X -> [Nat -> X]]
  BY <1>3
<1>5. \A x \in X, k \in Nat : F[x][k] = Round(x)
  OBVIOUS
<1> HIDE DEF F
<1>6. PICK g \in [0 .. Len(s) -> X] : Iterates(g, Len(s), a, F)
  <2>1. Len(s) \in Nat
    OBVIOUS
  <2> QED BY <1>2, <1>4, <2>1, RecursionExists, Zenon
<1>7. Loop(g)
  <2>1. ASSUME NEW k \in 0 .. Len(s) PROVE g[k] = IF k = 0 THEN a ELSE Round(g[k - 1])
    <3>1. CASE k = 0
      BY <1>6, <3>1 DEF Iterates
    <3>2. CASE k # 0
      <4>1. k \in 1 .. Len(s) /\ k \in Nat /\ g[k - 1] \in X
        BY <3>2
      <4>2. g[k] = F[g[k - 1]][k]
        BY <1>6, <4>1 DEF Iterates
      <4> QED BY <1>5, <3>2, <4>1, <4>2
    <3> QED BY <3>1, <3>2
  <2>2. g = [k \in 0 .. Len(s) |-> g[k]]
    OBVIOUS
  <2> QED BY <2>1, <2>2
<1>8. Loop(after)
  <2> HIDE DEF Loop
  <2> QED BY <1>7
<1> HIDE DEF after
<1> DEFINE S == {k \in Nat : k <= Len(s) => after[k] \in X}
<1>9. 0 \in S
  BY <1>2, <1>8
<1>10. ASSUME NEW k \in Nat, k \in S PROVE k + 1 \in S
  <2>1. SUFFICES ASSUME k + 1 <= Len(s) PROVE after[k + 1] \in X
    OBVIOUS
  <2>2. k + 1 \in 0 .. Len(s) /\ k + 1 # 0 /\ (k + 1) - 1 = k /\ after[k] \in X
    BY <1>10, <2>1
  <2>3. after[k + 1] = Round(after[k])
    BY <1>8, <2>2
  <2> QED BY <1>3, <2>2, <2>3
<1>11. Nat \subseteq S
  <2> HIDE DEF S
  <2> QED BY <1>9, <1>10, SetInduction
<1>12. last \in X
  BY <1>11
<1> HIDE DEF last
<1>13. Within(last, s) \/ (~ last.ok /\ EndsInSurrogate(s))
  BY <1>12 DEF X, StatesOf, LostStates, UnescapeStates
<1> QED BY <1>1, <1>13 DEF r

(* Units of UTF-16, escaped, are bytes.                                    *)
LEMMA HexDigitByte ==
  ASSUME NEW v \in 0 .. 15
  PROVE  HexDigit(v) \in Bytes
BY DEF HexDigit, Bytes

LEMMA EscapedUnitBytes ==
  ASSUME NEW v \in Units
  PROVE  EscapedUnit(v) \in Seq(Bytes)
<1>1. v \in Int /\ 0 <= v /\ v < 65536
  BY DEF Units
<1> HIDE DEF Units
<1>2. /\ v \div 4096 \in 0 .. 15 /\ (v \div 256) % 16 \in 0 .. 15 /\ (v \div 16) % 16 \in 0 .. 15
      /\ v % 16 \in 0 .. 15
  BY <1>1
<1>3. /\ HexDigit(v \div 4096) \in Bytes /\ HexDigit((v \div 256) % 16) \in Bytes
      /\ HexDigit((v \div 16) % 16) \in Bytes /\ HexDigit(v % 16) \in Bytes
  BY <1>2, HexDigitByte
<1>4. Backslash \in Bytes /\ LetterU \in Bytes
  BY DEF Backslash, LetterU, Bytes
<1> QED BY <1>3, <1>4 DEF EscapedUnit

LEMMA JointIn ==
  ASSUME NEW T, NEW ps \in Seq(Seq(T))
  PROVE  Joint(ps) \in Seq(T)
<1> DEFINE X == Seq(T)
           Loop(f) == f = [k \in 0 .. Len(ps) |-> IF k = 0 THEN <<>> ELSE f[k - 1] \o ps[k]]
           upto == CHOOSE f : Loop(f)
           F == [x \in X |-> [k \in Nat |-> IF k \in DOMAIN ps THEN x \o ps[k] ELSE x]]
<1>1. Joint(ps) = upto[Len(ps)]
  BY DEF Joint
<1>2. <<>> \in X /\ Len(ps) \in Nat /\ DOMAIN ps = 1 .. Len(ps)
  <2>1. Len(ps) \in Nat /\ DOMAIN ps = 1 .. Len(ps)
    BY LenProperties, Zenon
  <2>2. <<>> \in X
    OBVIOUS
  <2> QED BY <2>1, <2>2, Zenon
<1>3. ASSUME NEW x \in X, NEW k \in DOMAIN ps PROVE x \o ps[k] \in X
  OBVIOUS
<1> HIDE DEF X
<1>4. F \in [X -> [Nat -> X]]
  BY <1>3
<1>5. \A x \in X, k \in Nat : k \in DOMAIN ps => F[x][k] = x \o ps[k]
  OBVIOUS
<1> HIDE DEF F
<1>6. PICK g \in [0 .. Len(ps) -> X] : Iterates(g, Len(ps), <<>>, F)
  BY <1>2, <1>4, RecursionExists, Zenon
<1>7. Loop(g)
  <2>1. ASSUME NEW k \in 0 .. Len(ps) PROVE g[k] = IF k = 0 THEN <<>> ELSE g[k - 1] \o ps[k]
    <3>1. CASE k = 0
      BY <1>6, <3>1 DEF Iterates
    <3>2. CASE k # 0
      <4> DEFINE l == Len(ps)
      <4>0. l \in Nat /\ k \in 0 .. l /\ g \in [0 .. l -> X] /\ DOMAIN ps = 1 .. l
        BY <1>2
      <4> HIDE DEF l
      <4>1. k \in 1 .. l /\ k \in DOMAIN ps /\ k \in Nat /\ g[k - 1] \in X
        BY <3>2, <4>0
      <4>2. g[k] = F[g[k - 1]][k]
        BY <1>6, <4>1 DEF Iterates, l
      <4> QED BY <1>5, <3>2, <4>1, <4>2
    <3> QED BY <3>1, <3>2
  <2>2. g = [k \in 0 .. Len(ps) |-> g[k]]
    OBVIOUS
  <2> QED BY <2>1, <2>2
<1>8. Loop(upto)
  <2> HIDE DEF Loop
  <2> QED BY <1>7
<1> HIDE DEF upto
<1> DEFINE S == {k \in Nat : k <= Len(ps) => upto[k] \in X}
<1>9. 0 \in S
  BY <1>2, <1>8
<1>10. ASSUME NEW k \in Nat, k \in S PROVE k + 1 \in S
  <2>1. SUFFICES ASSUME k + 1 <= Len(ps) PROVE upto[k + 1] \in X
    OBVIOUS
  <2>2. /\ k + 1 \in 0 .. Len(ps) /\ k + 1 # 0 /\ (k + 1) - 1 = k /\ upto[k] \in X
        /\ k + 1 \in DOMAIN ps
    BY <1>10, <2>1
  <2>3. upto[k + 1] = upto[k] \o ps[k + 1]
    BY <1>8, <2>2
  <2> QED BY <1>3, <2>2, <2>3
<1>11. Nat \subseteq S
  <2> HIDE DEF S
  <2> QED BY <1>9, <1>10, SetInduction
<1> QED BY <1>1, <1>2, <1>11 DEF X

(* Text is unescaped in its own memory, whatever it is; but for strings    *)
(* that are refused and end in a surrogate.                                *)
THEOREM UnescapedInPlace == Spec => []UnescapeInside
<1>1. CallInv => UnescapeInside
  <2> SUFFICES ASSUME CallInv PROVE UnescapeInside
    OBVIOUS
  <2>1. ASSUME Returned("raw") PROVE StaysInside(call.arg)
    <3>1. call \in Calls /\ call.f = "raw" /\ result = Result(call.f, call.arg)
      BY <2>1, Zenon DEF CallInv, Returned
    <3>2. call.arg \in Seq(Bytes)
      BY <3>1, CallsAssumption, Zenon
    <3>3. result = unescape_string(call.arg, FALSE)
      BY <3>1 DEF Result
    <3> QED BY <3>2, <3>3, UnescapedWithin DEF StaysInside
  <2>2. ASSUME Returned("units") PROVE StaysInside(EscapedUnits(call.arg))
    <3>1. call \in Calls /\ call.f = "units" /\ result = Result(call.f, call.arg)
      BY <2>2, Zenon DEF CallInv, Returned
    <3>2. call.arg \in Seq(Units)
      BY <3>1, CallsAssumption, Zenon
    <3>3. result = unescape_string(EscapedUnits(call.arg), FALSE)
      BY <3>1 DEF Result
    <3>4. EscapedUnits(call.arg) \in Seq(Bytes)
      <4> DEFINE s == call.arg
                 ps == [k \in DOMAIN s |-> EscapedUnit(s[k])]
      <4>1. EscapedUnits(s) = Joint(ps)
        BY DEF EscapedUnits, Mapped
      <4>2. ASSUME NEW k \in 1 .. Len(s) PROVE EscapedUnit(s[k]) \in Seq(Bytes)
        <5> HIDE DEF s
        <5>1. s[k] \in Units
          BY <3>2 DEF s
        <5> QED BY <5>1, EscapedUnitBytes
      <4>3. Len(s) \in Nat /\ DOMAIN s = 1 .. Len(s)
        BY <3>2, LenProperties, Zenon
      <4> HIDE DEF s
      <4>4. ps \in [1 .. Len(s) -> Seq(Bytes)]
        BY <4>2, <4>3
      <4> HIDE DEF ps
      <4>5. ps \in Seq(Seq(Bytes))
        BY <4>3, <4>4
      <4>6. Joint(ps) \in Seq(Bytes)
        BY <4>5, JointIn
      <4> QED BY <4>1, <4>6 DEF s
    <3> QED BY <3>3, <3>4, UnescapedWithin DEF StaysInside
  <2> QED BY <2>1, <2>2 DEF UnescapeInside
<1> QED BY <1>1, CallInvariance, PTL
=============================================================================
