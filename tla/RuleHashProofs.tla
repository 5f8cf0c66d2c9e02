--------------------------- MODULE RuleHashProofs ---------------------------
(***************************************************************************)
(* Proofs about RuleHash, for all names, every hash, every size of the     *)
(* table above the number of rules and every sequence of definitions and   *)
(* lookups: the invariants that MCTranslation checks on small grammars.    *)
(***************************************************************************)
EXTENDS RuleHash, FiniteSetTheorems, TLAPS

-----------------------------------------------------------------------------
(* The inductive invariant.                                                *)

Stages == {"rules", "enter", "ready", "seek", "answer"}

Holds(k, n) == k # 0 /\ names[k] = n
Other(k, n) == k # 0 /\ names[k] # n

(* The slots that a search for n passes over in s steps hold other rules.  *)
Passed(n, s) == \A t \in Nat : t < s => Other(slots[Slot(n, t)], n)

HashTyped ==
  /\ names \in Seq(Names) /\ Len(names) <= MaxRules
  /\ refs \in Seq(Int) /\ Len(refs) = Len(names)
  /\ stage \in Stages
  /\ stage # "rules" => slots \in [0 .. Size - 1 -> 0 .. Len(names)]
  /\ stage = "enter" => entry \in 1 .. Len(names) /\ sought = names[entry]
  /\ stage \in {"enter", "seek", "answer"} => sought \in Names
  /\ steps \in Nat
  /\ found \in 0 .. Len(names)

(* A rule in the table has been entered, is the first of its name and is   *)
(* there once.                                                             *)
FirstsOnly ==
  stage # "rules" =>
    \A i \in 0 .. Size - 1 : slots[i] # 0 =>
      /\ Entered(slots[i]) /\ IsFirst(slots[i], names[slots[i]])
      /\ \A j \in 0 .. Size - 1 : slots[j] = slots[i] => j = i

(* The search for the name of a rule that has been entered comes to a rule *)
(* of that name before it comes to an empty slot.                          *)
Reached(n) == \E s \in Nat : Holds(slots[Slot(n, s)], n) /\ Passed(n, s)
EnteredReached ==
  stage # "rules" => \A k \in 1 .. Len(names) : Entered(k) => Reached(names[k])

PassedOthers == stage \in {"enter", "seek"} => Passed(sought, steps)

MarksTrue ==
  \A k \in 1 .. Len(names) :
    refs[k] >= -1 /\ (refs[k] = -1 <=> Entered(k) /\ ~IsFirst(k, names[k]))

HashInv ==
  /\ HashTyped
  /\ FirstsOnly /\ EnteredReached /\ PassedOthers /\ MarksTrue /\ LookupFindsFirst

-----------------------------------------------------------------------------
(* Slots.                                                                  *)

(* The table has a slot to spare.                                          *)
LEMMA SizeAbove ==
  ASSUME HashTyped
  PROVE  Size \in Nat /\ Size > Len(names)
BY TableAssumption DEF HashTyped, Size

(* Any number of steps leads to a slot of the table.                       *)
LEMMA SlotInTable ==
  ASSUME HashTyped, NEW n \in Names, NEW t \in Nat
  PROVE  Slot(n, t) \in 0 .. Size - 1
<1>1. Size \in Nat /\ Size > 0
  BY SizeAbove DEF HashTyped
<1>2. Hash(n) + t \in Nat
  BY HashAssumption
<1> QED BY <1>1, <1>2 DEF Slot

(* Two numbers less than N apart that leave the same remainder are equal.  *)
LEMMA SameRemainder ==
  ASSUME NEW a \in Nat, NEW b \in Nat, NEW N \in Nat, N > 0,
         a <= b, b < a + N, a % N = b % N
  PROVE  a = b
<1> DEFINE p == a \div N
           q == b \div N
<1>1. p \in Int /\ q \in Int /\ a = N * p + (a % N) /\ b = N * q + (b % N)
  OBVIOUS
<1> HIDE DEF p, q
<1>2. a % N \in Int
  OBVIOUS
<1>3. b - a = N * (q - p)
  <2>1. \A r, s \in Int : (s + (b % N)) - (r + (a % N)) = s - r
    BY <1>1, <1>2
  <2>2. b - a = N * q - N * p
    BY <1>1, <2>1
  <2> QED BY <2>2, <1>1
<1>4. q - p <= 0
  <2>1. SUFFICES ASSUME q - p >= 1 PROVE FALSE
    BY <1>1
  <2>2. N * (q - p) >= N
    BY <2>1, <1>1
  <2> QED BY <2>2, <1>3
<1>5. q - p >= 0
  <2>1. SUFFICES ASSUME q - p <= -1 PROVE FALSE
    BY <1>1
  <2>2. N * (q - p) <= -N
    BY <2>1, <1>1
  <2> QED BY <2>2, <1>3
<1>6. q - p = 0
  BY <1>4, <1>5, <1>1
<1> QED BY <1>3, <1>6

(* No two of as many steps as the table has slots lead to the same slot.   *)
LEMMA SlotsDistinct ==
  ASSUME HashTyped, NEW n \in Names,
         NEW t \in 0 .. Size - 1, NEW u \in 0 .. Size - 1, Slot(n, t) = Slot(n, u)
  PROVE  t = u
<1>1. Size \in Nat /\ Size > 0
  BY SizeAbove DEF HashTyped
<1>2. Hash(n) + t \in Nat /\ Hash(n) + u \in Nat /\ Hash(n) \in Nat
  BY <1>1, HashAssumption
<1>3. (Hash(n) + t) % Size = (Hash(n) + u) % Size
  BY DEF Slot
<1>4. CASE t <= u
  <2>1. Hash(n) + t <= Hash(n) + u /\ Hash(n) + u < Hash(n) + t + Size
    BY <1>1, <1>2, <1>4
  <2>2. Hash(n) + t = Hash(n) + u
    BY <1>1, <1>2, <1>3, <2>1, SameRemainder
  <2> QED BY <1>1, <1>2, <2>2
<1>5. CASE u <= t
  <2>1. Hash(n) + u <= Hash(n) + t /\ Hash(n) + t < Hash(n) + u + Size
    BY <1>1, <1>2, <1>5
  <2>2. Hash(n) + u = Hash(n) + t
    BY <1>1, <1>2, <1>3, <2>1, SameRemainder
  <2> QED BY <1>1, <1>2, <2>2
<1> QED BY <1>1, <1>4, <1>5

(* If all slots were full, two of them would hold the same rule.           *)
LEMMA TableNotFull ==
  ASSUME HashTyped, FirstsOnly, stage # "rules", NEW n \in Names, NEW s \in Nat, Passed(n, s)
  PROVE  s < Size
<1>1. SUFFICES ASSUME s >= Size PROVE FALSE
  BY SizeAbove DEF HashTyped
<1>2. Size \in Nat /\ Len(names) \in Nat /\ Len(names) < Size
  BY SizeAbove DEF HashTyped
<1> DEFINE S == 0 .. Size - 1
           T == 1 .. Len(names)
           f == [t \in S |-> slots[Slot(n, t)]]
<1>3. \A t \in S : t \in Nat /\ t < s
  BY <1>1, <1>2
<1>4. \A t \in S : slots[Slot(n, t)] \in T
  <2> SUFFICES ASSUME NEW t \in S PROVE slots[Slot(n, t)] \in T
    OBVIOUS
  <2>1. Slot(n, t) \in 0 .. Size - 1
    BY <1>3, SlotInTable
  <2>2. slots[Slot(n, t)] \in 0 .. Len(names)
    BY <2>1 DEF HashTyped
  <2>3. slots[Slot(n, t)] # 0
    BY <1>3 DEF Passed, Other
  <2> QED BY <2>2, <2>3, <1>2
<1>5. f \in [S -> T]
  BY <1>4
<1>6. /\ IsFiniteSet(S) /\ Cardinality(S) = Size
      /\ IsFiniteSet(T) /\ Cardinality(T) = Len(names)
  <2>1. \A a, b \in Int : IsFiniteSet(a .. b) /\ Cardinality(a .. b) = IF a > b THEN 0 ELSE b - a + 1
    BY FS_Interval
  <2>2. IsFiniteSet(0 .. Size - 1) /\ Cardinality(0 .. Size - 1) = Size
    <3>1. 0 \in Int /\ Size - 1 \in Int /\ ~(0 > Size - 1) /\ (Size - 1) - 0 + 1 = Size
      BY <1>2
    <3> QED BY <2>1, <3>1
  <2>3. IsFiniteSet(1 .. Len(names)) /\ Cardinality(1 .. Len(names)) = Len(names)
    <3>1. 1 \in Int /\ Len(names) \in Int /\ Len(names) - 1 + 1 = Len(names)
      BY <1>2
    <3>2. Len(names) = 0 <=> 1 > Len(names)
      BY <1>2
    <3> QED BY <2>1, <3>1, <3>2
  <2> QED BY <2>2, <2>3
<1>7. PICK t \in S, u \in S : t # u /\ f[t] = f[u]
  <2> HIDE DEF S, T, f
  <2>1. Cardinality(T) < Cardinality(S)
    BY <1>2, <1>6
  <2> QED BY <1>5, <1>6, <2>1, FS_PigeonHole
<1>8. slots[Slot(n, t)] = slots[Slot(n, u)] /\ slots[Slot(n, t)] # 0
  BY <1>3, <1>7 DEF Passed, Other
<1>9. Slot(n, t) = Slot(n, u)
  BY <1>3, <1>8, SlotInTable DEF FirstsOnly
<1> QED BY <1>7, <1>9, SlotsDistinct

(* A search that has come to an empty slot is for a name that no rule in   *)
(* the table has.                                                          *)
LEMMA EmptySlotMeansNone ==
  ASSUME HashTyped, NEW n \in Names, NEW s \in Nat, Passed(n, s),
         slots[Slot(n, s)] = 0, Reached(n)
  PROVE  FALSE
<1>1. PICK r \in Nat : Holds(slots[Slot(n, r)], n) /\ Passed(n, r)
  BY DEF Reached
<1>2. CASE r < s
  BY <1>1, <1>2 DEF Passed, Other, Holds
<1>3. CASE r = s
  BY <1>1, <1>3 DEF Holds
<1>4. CASE s < r
  BY <1>1, <1>4 DEF Passed, Other
<1> QED BY <1>2, <1>3, <1>4

-----------------------------------------------------------------------------
(* The invariant holds initially and is kept by every step.                *)

LEMMA HashInvInit == HashInit => HashInv
<1> SUFFICES ASSUME HashInit PROVE HashInv
  OBVIOUS
<1> USE DEF HashInit
<1>1. HashTyped
  BY TableAssumption DEF HashTyped, Stages
<1>2. FirstsOnly /\ EnteredReached /\ PassedOthers /\ LookupFindsFirst
  BY DEF FirstsOnly, EnteredReached, PassedOthers, LookupFindsFirst
<1>3. MarksTrue
  BY DEF MarksTrue
<1> QED BY <1>1, <1>2, <1>3 DEF HashInv

(* A further rule comes before the table.                                  *)
LEMMA AddRuleKeeps ==
  ASSUME HashInv, NEW n \in Names, AddRule(n)
  PROVE  HashInv'
<1> USE DEF AddRule
<1>1. /\ names' \in Seq(Names) /\ Len(names') = Len(names) + 1
      /\ refs' \in Seq(Int) /\ Len(refs') = Len(refs) + 1
      /\ \A k \in 1 .. Len(refs) : refs'[k] = refs[k]
      /\ refs'[Len(refs) + 1] = 0
      /\ Len(names) \in Nat /\ Len(refs) = Len(names)
  BY DEF HashInv, HashTyped
<1>2. HashTyped'
  BY <1>1, TableAssumption DEF HashInv, HashTyped, Stages
<1>3. FirstsOnly' /\ EnteredReached' /\ PassedOthers' /\ LookupFindsFirst'
  BY DEF FirstsOnly, EnteredReached, PassedOthers, LookupFindsFirst
<1>4. MarksTrue'
  <2>1. SUFFICES ASSUME NEW k \in 1 .. Len(names')
                 PROVE  refs'[k] >= -1 /\ refs'[k] # -1
    BY DEF MarksTrue, Entered
  <2>2. CASE k \in 1 .. Len(names)
    <3>1. refs[k] >= -1 /\ refs[k] # -1
      BY <2>2 DEF HashInv, MarksTrue, Entered
    <3> QED BY <1>1, <2>2, <3>1
  <2>3. CASE k = Len(names) + 1
    BY <1>1, <2>3
  <2> QED BY <1>1, <2>2, <2>3
<1> QED BY <1>2, <1>3, <1>4 DEF HashInv

(* The table is made empty.                                                *)
LEMMA MakeTableKeeps ==
  ASSUME HashInv, MakeTable
  PROVE  HashInv'
<1> USE DEF MakeTable, EnterNext
<1>1. /\ Size \in Nat /\ Len(names) \in Nat /\ Size' = Size
      /\ \A k \in 1 .. Len(names) : names[k] \in Names
  BY SizeAbove DEF HashInv, HashTyped, Size
<1>2. HashTyped'
  BY <1>1 DEF HashInv, HashTyped, Stages
<1>3. \A k \in 1 .. Len(names) : ~Entered(k)'
  BY <1>1 DEF Entered
<1>4. FirstsOnly' /\ EnteredReached'
  BY <1>1, <1>3 DEF FirstsOnly, EnteredReached
<1>5. PassedOthers' /\ LookupFindsFirst'
  BY DEF PassedOthers, Passed, LookupFindsFirst
<1>6. MarksTrue'
  BY <1>3 DEF HashInv, MarksTrue, Entered
<1> QED BY <1>2, <1>4, <1>5, <1>6 DEF HashInv

(* What entering a rule has done when it goes on to the next.              *)
LEMMA EnterNextMeans ==
  ASSUME HashInv, stage = "enter", EnterNext(entry + 1), names' = names
  PROVE  /\ stage' \in {"enter", "ready"} /\ steps' = 0
         /\ stage' = "enter" => entry' \in 1 .. Len(names) /\ sought' = names[entry']
         /\ entry \in 1 .. Len(names) /\ Len(names) \in Nat /\ Size' = Size
         /\ \A k \in 1 .. Len(names) : Entered(k)' <=> k <= entry
         /\ \A k \in 1 .. Len(names) : Entered(k) <=> k < entry
<1> USE DEF EnterNext
<1>1. entry \in 1 .. Len(names) /\ Len(names) \in Nat /\ Size' = Size
  BY DEF HashInv, HashTyped, Size
<1>2. stage' = "enter" => entry' \in 1 .. Len(names) /\ sought' = names[entry']
  BY <1>1
<1>3. \A k \in 1 .. Len(names) : Entered(k)' <=> k <= entry
  BY <1>1 DEF Entered
<1> QED BY <1>1, <1>2, <1>3 DEF Entered

(* A step that leaves every full slot as it is leaves every search alone.  *)
FullKept == \A i \in 0 .. Size - 1 : slots[i] # 0 => slots'[i] = slots[i]

LEMMA SearchKept ==
  ASSUME HashTyped, FullKept, names' = names, NEW n \in Names, NEW s \in Nat
  PROVE  /\ Passed(n, s) => Passed(n, s)'
         /\ Reached(n) => Reached(n)'
<1>1. \A t \in Nat : Slot(n, t)' = Slot(n, t) /\ Slot(n, t) \in 0 .. Size - 1
  BY SlotInTable DEF Slot, Size
<1>2. \A r \in Nat : Passed(n, r) => Passed(n, r)'
  BY <1>1 DEF Passed, Other, FullKept
<1>3. \A r \in Nat : Holds(slots[Slot(n, r)], n) => Holds(slots[Slot(n, r)], n)'
  BY <1>1 DEF Holds, FullKept
<1> QED BY <1>2, <1>3 DEF Reached

(* An empty slot takes the first rule of its name.                         *)
LEMMA PlaceKeeps ==
  ASSUME HashInv, Place
  PROVE  HashInv'
<1> USE DEF HashInv, Place
<1> DEFINE p == Slot(sought, steps)
<1>1. /\ stage' \in {"enter", "ready"} /\ steps' = 0
      /\ stage' = "enter" => entry' \in 1 .. Len(names) /\ sought' = names[entry']
      /\ entry \in 1 .. Len(names) /\ Len(names) \in Nat /\ Size' = Size
      /\ \A k \in 1 .. Len(names) : Entered(k)' <=> k <= entry
      /\ \A k \in 1 .. Len(names) : Entered(k) <=> k < entry
  BY EnterNextMeans
<1>2. /\ names[entry] = sought /\ sought \in Names
      /\ steps \in Nat /\ Passed(sought, steps)
      /\ slots \in [0 .. Size - 1 -> 0 .. Len(names)]
      /\ \A k \in 1 .. Len(names) : names[k] \in Names
  BY DEF HashTyped, PassedOthers
<1>3. p \in 0 .. Size - 1 /\ slots[p] = 0
  BY <1>2, SlotInTable DEF Current
<1> HIDE DEF p
<1>4. slots' = [slots EXCEPT ![p] = entry]
  BY DEF p
<1>5. slots'[p] = entry /\ \A i \in 0 .. Size - 1 : i # p => slots'[i] = slots[i]
  BY <1>2, <1>3, <1>4
<1>6. FullKept
  BY <1>3, <1>5 DEF FullKept
<1>7. HashTyped'
  <2>1. slots' \in [0 .. Size - 1 -> 0 .. Len(names)]
    BY <1>1, <1>2, <1>3, <1>4
  <2> QED BY <1>1, <1>2, <2>1 DEF HashTyped, Stages
<1>8. IsFirst(entry, sought)
  <2>1. SUFFICES ASSUME NEW m \in 1 .. entry - 1, names[m] = sought PROVE FALSE
    BY <1>1, <1>2 DEF IsFirst
  <2>2. m \in 1 .. Len(names) /\ Entered(m)
    BY <1>1
  <2>3. Reached(sought)
    BY <2>1, <2>2 DEF EnteredReached
  <2> QED BY <1>2, <1>3, <2>3, EmptySlotMeansNone DEF p
<1>9. FirstsOnly'
  <2>1. SUFFICES ASSUME NEW i \in 0 .. Size - 1, slots'[i] # 0
                 PROVE  /\ slots'[i] \in 1 .. entry /\ IsFirst(slots'[i], names[slots'[i]])
                        /\ \A j \in 0 .. Size - 1 : slots'[j] = slots'[i] => j = i
    BY <1>1 DEF FirstsOnly, IsFirst
  <2>2. ASSUME NEW j \in 0 .. Size - 1, slots[j] # 0
        PROVE  /\ slots[j] \in 1 .. Len(names) /\ slots[j] < entry
               /\ IsFirst(slots[j], names[slots[j]])
               /\ \A l \in 0 .. Size - 1 : slots[l] = slots[j] => l = j
    <3>1. slots[j] \in 1 .. Len(names)
      BY <1>2, <2>2, <1>1
    <3>2. Entered(slots[j])
      BY <2>2 DEF FirstsOnly
    <3> QED BY <3>1, <3>2, <1>1, <2>2 DEF FirstsOnly
  <2>3. CASE i = p
    <3>1. slots'[i] = entry
      BY <1>5, <2>3
    <3>2. \A j \in 0 .. Size - 1 : slots'[j] = entry => j = i
      BY <1>1, <1>5, <2>2, <2>3
    <3> QED BY <1>1, <1>2, <1>8, <3>1, <3>2
  <2>4. CASE i # p
    <3>1. slots'[i] = slots[i] /\ slots[i] # 0
      BY <1>5, <2>1, <2>4
    <3>2. \A j \in 0 .. Size - 1 : slots'[j] = slots[i] => j = i
      BY <1>1, <1>5, <2>2, <3>1
    <3> QED BY <1>1, <2>2, <3>1, <3>2
  <2> QED BY <2>3, <2>4
<1>10. EnteredReached'
  <2>1. SUFFICES ASSUME NEW k \in 1 .. Len(names), k <= entry PROVE Reached(names[k])'
    BY <1>1 DEF EnteredReached
  <2>2. CASE k < entry
    <3>1. Reached(names[k])
      BY <1>1, <2>2 DEF EnteredReached
    <3>2. \A n \in Names : Reached(n) => Reached(n)'
      BY <1>6, SearchKept
    <3>3. PICK n \in Names : names[k] = n
      BY <1>2
    <3>4. Reached(n)' /\ names'[k] = n
      BY <3>1, <3>2, <3>3
    <3> QED BY <3>4 DEF Reached
  <2>3. CASE k = entry
    <3>1. \A t \in Nat : Slot(sought, t) \in 0 .. Size - 1
      BY <1>2, SlotInTable
    <3>2. ASSUME NEW t \in Nat, t < steps PROVE Other(slots'[Slot(sought, t)], sought)
      BY <1>2, <3>1, <3>2, <1>6 DEF Passed, Other, FullKept
    <3>3. Holds(slots'[Slot(sought, steps)], sought)
      BY <1>1, <1>2, <1>5 DEF Holds, p
    <3>4. \A t \in Nat : (Hash(names'[k]) + t) % Size' = Slot(sought, t)
      BY <1>1, <1>2, <2>3 DEF Slot
    <3> QED BY <1>1, <1>2, <2>3, <3>2, <3>3, <3>4 DEF Reached, Passed, Other, Holds, Slot
  <2> QED BY <1>1, <2>1, <2>2, <2>3
<1>11. PassedOthers' /\ LookupFindsFirst'
  BY <1>1 DEF PassedOthers, Passed, LookupFindsFirst
<1>12. MarksTrue'
  <2>1. SUFFICES ASSUME NEW k \in 1 .. Len(names)
                 PROVE  refs[k] >= -1 /\ (refs[k] = -1 <=> Entered(k)' /\ ~IsFirst(k, names[k]))
    BY DEF MarksTrue, IsFirst
  <2>2. refs[k] >= -1 /\ (refs[k] = -1 <=> Entered(k) /\ ~IsFirst(k, names[k]))
    BY DEF MarksTrue
  <2> QED BY <1>1, <1>2, <1>8, <2>2
<1> QED BY <1>7, <1>9, <1>10, <1>11, <1>12

(* A rule whose name is in the table is marked, and the table is left.     *)
LEMMA SecondDefinitionKeeps ==
  ASSUME HashInv, SecondDefinition
  PROVE  HashInv'
<1> USE DEF HashInv, SecondDefinition
<1>1. /\ stage' \in {"enter", "ready"} /\ steps' = 0
      /\ stage' = "enter" => entry' \in 1 .. Len(names) /\ sought' = names[entry']
      /\ entry \in 1 .. Len(names) /\ Len(names) \in Nat /\ Size' = Size
      /\ \A k \in 1 .. Len(names) : Entered(k)' <=> k <= entry
      /\ \A k \in 1 .. Len(names) : Entered(k) <=> k < entry
  BY EnterNextMeans
<1>2. /\ names[entry] = sought /\ sought \in Names
      /\ steps \in Nat /\ Passed(sought, steps)
      /\ slots \in [0 .. Size - 1 -> 0 .. Len(names)]
      /\ refs \in Seq(Int) /\ Len(refs) = Len(names)
      /\ \A k \in 1 .. Len(names) : names[k] \in Names
  BY DEF HashTyped, PassedOthers
<1>3. /\ refs' \in Seq(Int) /\ Len(refs') = Len(names) /\ refs'[entry] = -1
      /\ \A k \in 1 .. Len(names) : k # entry => refs'[k] = refs[k]
  BY <1>1, <1>2
<1>4. HashTyped'
  BY <1>1, <1>2, <1>3 DEF HashTyped, Stages
<1>5. Current \in 1 .. Len(names) /\ Current < entry /\ names[Current] = sought
  <2>1. Slot(sought, steps) \in 0 .. Size - 1
    BY <1>2, SlotInTable
  <2>2. Current \in 1 .. Len(names)
    BY <1>1, <1>2, <2>1 DEF Current
  <2>3. Entered(Current)
    BY <2>1, <2>2 DEF FirstsOnly, Current
  <2> QED BY <1>1, <2>2, <2>3
<1>6. ~IsFirst(entry, names[entry])
  BY <1>1, <1>2, <1>5 DEF IsFirst
<1>7. FirstsOnly'
  <2>1. SUFFICES ASSUME NEW i \in 0 .. Size - 1, slots[i] # 0 PROVE Entered(slots[i])'
    BY <1>1 DEF FirstsOnly, IsFirst
  <2>2. slots[i] \in 1 .. Len(names) /\ Entered(slots[i])
    BY <1>1, <1>2, <2>1 DEF FirstsOnly
  <2> QED BY <1>1, <2>2
<1>8. EnteredReached'
  <2>1. SUFFICES ASSUME NEW k \in 1 .. Len(names), k <= entry PROVE Reached(names[k])
    BY <1>1 DEF EnteredReached, Reached, Passed, Other, Holds, Slot
  <2>2. CASE k < entry
    BY <1>1, <2>2 DEF EnteredReached
  <2>3. CASE k = entry
    <3>1. Holds(slots[Slot(sought, steps)], sought)
      BY <1>1, <1>5 DEF Holds, Current
    <3> QED BY <1>2, <2>3, <3>1 DEF Reached
  <2> QED BY <1>1, <2>1, <2>2, <2>3
<1>9. PassedOthers' /\ LookupFindsFirst'
  BY <1>1 DEF PassedOthers, Passed, LookupFindsFirst
<1>10. MarksTrue'
  <2>1. SUFFICES ASSUME NEW k \in 1 .. Len(names)
                 PROVE  refs'[k] >= -1 /\ (refs'[k] = -1 <=> Entered(k)' /\ ~IsFirst(k, names[k]))
    BY DEF MarksTrue, IsFirst
  <2>2. refs[k] >= -1 /\ (refs[k] = -1 <=> Entered(k) /\ ~IsFirst(k, names[k]))
    BY DEF MarksTrue
  <2>3. CASE k = entry
    BY <1>1, <1>3, <1>6, <2>3
  <2>4. CASE k # entry
    BY <1>1, <1>3, <2>2, <2>4
  <2> QED BY <2>3, <2>4
<1> QED BY <1>4, <1>7, <1>8, <1>9, <1>10

(* What the searches leave alone: a step that changes neither the rules nor *)
(* the table nor how far it has been filled.                               *)
LEMMA TableKept ==
  ASSUME HashInv, UNCHANGED <<names, slots, entry>>,
         stage' = stage \/ {stage, stage'} \subseteq {"ready", "seek", "answer"}
  PROVE  /\ FirstsOnly' /\ EnteredReached'
         /\ Size' = Size
         /\ \A k : Entered(k)' <=> Entered(k)
<1>1. Size' = Size /\ \A k : Entered(k)' <=> Entered(k)
  BY DEF Entered, Size
<1>2. stage' # "rules" <=> stage # "rules"
  OBVIOUS
<1>3. FirstsOnly'
  BY <1>1, <1>2 DEF HashInv, FirstsOnly, IsFirst
<1>4. EnteredReached'
  BY <1>1, <1>2 DEF HashInv, EnteredReached, Reached, Passed, Other, Holds, Slot
<1> QED BY <1>1, <1>3, <1>4

LEMMA StepOnKeeps ==
  ASSUME HashInv, StepOn
  PROVE  HashInv'
<1> USE DEF HashInv, StepOn
<1>1. FirstsOnly' /\ EnteredReached' /\ Size' = Size /\ \A k : Entered(k)' <=> Entered(k)
  BY TableKept
<1>2. HashTyped'
  BY <1>1 DEF HashTyped
<1>3. PassedOthers'
  <2>1. steps \in Nat /\ Passed(sought, steps) /\ Other(Current, sought)
    BY DEF HashTyped, PassedOthers, Other
  <2>2. \A t \in Nat : t < steps + 1 => t < steps \/ t = steps
    BY <2>1
  <2>3. Passed(sought, steps + 1)
    BY <2>1, <2>2 DEF Passed, Current
  <2> QED BY <1>1, <2>3 DEF PassedOthers, Passed, Other, Slot
<1>4. LookupFindsFirst'
  BY DEF LookupFindsFirst
<1>5. MarksTrue'
  BY <1>1 DEF MarksTrue, IsFirst
<1> QED BY <1>1, <1>2, <1>3, <1>4, <1>5

LEMMA LookupKeeps ==
  ASSUME HashInv, NEW n \in Names, Lookup(n)
  PROVE  HashInv'
<1> USE DEF HashInv, Lookup
<1>1. FirstsOnly' /\ EnteredReached' /\ Size' = Size /\ \A k : Entered(k)' <=> Entered(k)
  BY TableKept
<1>2. HashTyped'
  BY <1>1 DEF HashTyped, Stages
<1>3. PassedOthers' /\ LookupFindsFirst'
  BY DEF PassedOthers, Passed, LookupFindsFirst
<1>4. MarksTrue'
  BY <1>1 DEF MarksTrue, IsFirst
<1> QED BY <1>1, <1>2, <1>3, <1>4

(* An answer is the first rule of the name, or there is none.              *)
LEMMA AnswerKeeps ==
  ASSUME HashInv, Answer
  PROVE  HashInv'
<1> USE DEF HashInv, Answer
<1>1. FirstsOnly' /\ EnteredReached' /\ Size' = Size /\ \A k : Entered(k)' <=> Entered(k)
  BY TableKept
<1>2. /\ sought \in Names /\ steps \in Nat /\ Passed(sought, steps)
      /\ slots \in [0 .. Size - 1 -> 0 .. Len(names)] /\ names \in Seq(Names)
  BY DEF HashTyped, PassedOthers
<1>3. Slot(sought, steps) \in 0 .. Size - 1
  BY <1>2, SlotInTable
<1>4. Current \in 0 .. Len(names)
  BY <1>2, <1>3 DEF Current
<1>5. HashTyped'
  BY <1>1, <1>4 DEF HashTyped, Stages
<1>6. ASSUME Current # 0 PROVE LookupFindsFirst'
  <2>1. IsFirst(Current, names[Current]) /\ names[Current] = sought
    BY <1>3, <1>6 DEF FirstsOnly, Current
  <2> QED BY <2>1 DEF LookupFindsFirst, IsFirst
<1>7. ASSUME Current = 0 PROVE LookupFindsFirst'
  <2>1. SUFFICES ASSUME NEW k \in DOMAIN names, names[k] = sought PROVE FALSE
    BY <1>7 DEF LookupFindsFirst
  <2>2. k \in 1 .. Len(names) /\ Entered(k)
    BY <1>2 DEF Entered
  <2>3. Reached(sought)
    BY <2>1, <2>2 DEF EnteredReached
  <2> QED BY <1>2, <1>7, <2>3, EmptySlotMeansNone DEF Current
<1>8. LookupFindsFirst'
  BY <1>6, <1>7
<1>9. PassedOthers'
  BY DEF PassedOthers
<1>10. MarksTrue'
  BY <1>1 DEF MarksTrue, IsFirst
<1> QED BY <1>1, <1>5, <1>8, <1>9, <1>10

(* A reference is counted for the first rule of its name, which carries no *)
(* mark.                                                                   *)
LEMMA CountKeeps ==
  ASSUME HashInv, Count
  PROVE  HashInv'
<1> USE DEF HashInv, Count
<1>1. FirstsOnly' /\ EnteredReached' /\ Size' = Size /\ \A k : Entered(k)' <=> Entered(k)
  BY TableKept
<1>2. /\ refs \in Seq(Int) /\ Len(refs) = Len(names) /\ Len(names) \in Nat
      /\ found \in 0 .. Len(names)
  BY DEF HashTyped
<1>3. /\ refs' \in Seq(Int) /\ Len(refs') = Len(names)
      /\ \A k \in 1 .. Len(names) : refs'[k] = IF k = found THEN refs[k] + 1 ELSE refs[k]
  BY <1>2
<1>4. HashTyped'
  BY <1>1, <1>3 DEF HashTyped, Stages
<1>5. PassedOthers' /\ LookupFindsFirst'
  BY DEF PassedOthers, LookupFindsFirst
<1>6. MarksTrue'
  <2>1. SUFFICES ASSUME NEW k \in 1 .. Len(names)
                 PROVE  refs'[k] >= -1 /\ (refs'[k] = -1 <=> Entered(k) /\ ~IsFirst(k, names[k]))
    BY <1>1 DEF MarksTrue, IsFirst
  <2>2. refs[k] >= -1 /\ (refs[k] = -1 <=> Entered(k) /\ ~IsFirst(k, names[k]))
    BY DEF MarksTrue
  <2>3. refs[k] \in Int
    BY <1>2
  <2>4. CASE k # found
    BY <1>3, <2>2, <2>4
  <2>5. CASE k = found
    <3>1. IsFirst(found, names[found])
      BY <1>2, <2>5 DEF LookupFindsFirst, IsFirst
    <3>2. refs[k] >= 0 /\ refs'[k] = refs[k] + 1
      BY <1>3, <2>2, <2>3, <2>5, <3>1
    <3> QED BY <2>3, <2>5, <3>1, <3>2
  <2> QED BY <2>4, <2>5
<1> QED BY <1>1, <1>4, <1>5, <1>6

-----------------------------------------------------------------------------
(* The results.                                                            *)

LEMMA HashInvNext == HashInv /\ [HashNext]_hashVars => HashInv'
<1> SUFFICES ASSUME HashInv, [HashNext]_hashVars PROVE HashInv'
  OBVIOUS
<1>1. ASSUME NEW n \in Names, AddRule(n) PROVE HashInv'
  BY <1>1, AddRuleKeeps
<1>2. ASSUME NEW n \in Names, Lookup(n) PROVE HashInv'
  BY <1>2, LookupKeeps
<1>3. CASE MakeTable
  BY <1>3, MakeTableKeeps
<1>4. CASE Place
  BY <1>4, PlaceKeeps
<1>5. CASE SecondDefinition
  BY <1>5, SecondDefinitionKeeps
<1>6. CASE StepOn
  BY <1>6, StepOnKeeps
<1>7. CASE Answer
  BY <1>7, AnswerKeeps
<1>8. CASE Count
  BY <1>8, CountKeeps
<1>9. CASE UNCHANGED hashVars
  BY <1>9 DEF hashVars, HashInv, HashTyped, FirstsOnly, EnteredReached, PassedOthers, MarksTrue,
              LookupFindsFirst, Entered, IsFirst, Reached, Passed, Holds, Other, Slot, Size
<1> QED BY <1>1, <1>2, <1>3, <1>4, <1>5, <1>6, <1>7, <1>8, <1>9 DEF HashNext, Probe

LEMMA HashInvAlways == HashSpec => []HashInv
<1> QED BY HashInvInit, HashInvNext, PTL DEF HashSpec

(* Whatever the hash of the names and however the rules collide, a lookup  *)
(* answers with the first rule of the name, or with none when there is none *)
(* (lookup_rulehash).                                                      *)
THEOREM LookupsRight == HashSpec => []LookupFindsFirst
<1>1. HashInv => LookupFindsFirst
  BY DEF HashInv
<1> QED BY <1>1, HashInvAlways, PTL

(* A rule is marked as a second definition exactly when it has been entered *)
(* and is not the first of its name, and no count of references ever takes *)
(* the mark away or makes one (make_rulehash, link_references).            *)
THEOREM MarksRight == HashSpec => []SecondsMarked
<1>1. HashInv => SecondsMarked
  BY DEF HashInv, HashTyped, MarksTrue, SecondsMarked
<1> QED BY <1>1, HashInvAlways, PTL

(* The loops without a counter end: no search passes over as many slots as *)
(* the table has (make_rulehash, lookup_rulehash).                         *)
THEOREM SearchesEnd == HashSpec => []SearchEnds
<1>1. HashInv => SearchEnds
  <2>1. SUFFICES ASSUME HashInv, stage \in {"enter", "seek"} PROVE steps < Size
    BY DEF SearchEnds
  <2>2. sought \in Names /\ steps \in Nat /\ Passed(sought, steps)
    BY <2>1 DEF HashInv, HashTyped, PassedOthers
  <2> QED BY <2>1, <2>2, TableNotFull DEF HashInv
<1> QED BY <1>1, HashInvAlways, PTL
=============================================================================
