------------------------------ MODULE RuleHash ------------------------------
(***************************************************************************)
(* The table of a grammar's rules in context.c: an open-addressing hash    *)
(* table, made once from the rules in the order of their definitions and   *)
(* then asked for the rule of every reference.  There is no counter in its *)
(* loops: they end at the name they seek or at an empty slot.              *)
(*                                                                         *)
(* The slot under inspection, j in the code, is kept as the number of      *)
(* steps from the slot that the name hashes to: masking is the remainder   *)
(* by the table's size, a power of two.                                    *)
(***************************************************************************)
EXTENDS Naturals, Integers, Sequences

CONSTANTS
  Names,          \* names of rules
  Hash(_),        \* hash_string
  TableSize(_),   \* the number of slots for so many rules, rulehash.max
  MaxRules        \* a bound on the number of rules

ASSUME HashAssumption == \A n \in Names : Hash(n) \in Nat
ASSUME TableAssumption ==
  /\ MaxRules \in Nat
  /\ \A k \in 0 .. MaxRules : TableSize(k) \in Nat /\ TableSize(k) > k

VARIABLES
  names,   \* the names of ctx->rules, in order
  refs,    \* the field ref of each: its references, or -1 for a second definition
  slots,   \* ctx->rulehash.buf: the number of a rule, or 0; <<>> before it is made
  stage,   \* "rules", "enter", "ready", "seek", "answer"
  entry,   \* the rule being entered, i
  sought,  \* the name being entered or looked up
  steps,   \* slots passed over since the one it hashes to
  found    \* the rule the last lookup returned, or 0

hashVars == <<names, refs, slots, stage, entry, sought, steps, found>>

Size    == TableSize(Len(names))

(* Mutant: the slot does not advance.                                      *)
HomeSlot(n, k) == Hash(n) % Size

Slot(n, k) == (Hash(n) + k) % Size
Current == slots[Slot(sought, steps)]

HashInit ==
  /\ names = <<>> /\ refs = <<>> /\ slots = <<>> /\ stage = "rules"
  /\ entry = 0 /\ sought = <<>> /\ steps = 0 /\ found = 0

(* parse() adds a rule.                                                    *)
AddRule(n) ==
  /\ stage = "rules" /\ Len(names) < MaxRules
  /\ names' = Append(names, n) /\ refs' = Append(refs, 0)
  /\ UNCHANGED <<slots, stage, entry, sought, steps, found>>

(* To the next rule of make_rulehash's loop, or behind the loop.           *)
EnterNext(k) ==
  /\ entry' = k /\ steps' = 0
  /\ IF k <= Len(names) THEN stage' = "enter" /\ sought' = names[k]
     ELSE stage' = "ready" /\ UNCHANGED sought

MakeTable ==
  /\ stage = "rules"
  /\ slots' = [k \in 0 .. Size - 1 |-> 0]
  /\ EnterNext(1)
  /\ UNCHANGED <<names, refs, found>>

(* An empty slot.                                                          *)
Place ==
  /\ stage = "enter" /\ Current = 0
  /\ slots' = [slots EXCEPT ![Slot(sought, steps)] = entry]
  /\ EnterNext(entry + 1)
  /\ UNCHANGED <<names, refs, found>>

(* Mutant: a second definition takes the place of the first.               *)
Replace ==
  /\ stage = "enter" /\ Current # 0 /\ names[Current] = sought
  /\ slots' = [slots EXCEPT ![Slot(sought, steps)] = entry]
  /\ EnterNext(entry + 1)
  /\ UNCHANGED <<names, refs, found>>

(* The rule has been defined before.                                       *)
SecondDefinition ==
  /\ stage = "enter" /\ Current # 0 /\ names[Current] = sought
  /\ refs' = [refs EXCEPT ![entry] = -1]
  /\ EnterNext(entry + 1)
  /\ UNCHANGED <<names, slots, found>>

(* Another rule's slot, in either loop.                                    *)
StepOn ==
  /\ stage \in {"enter", "seek"} /\ Current # 0 /\ names[Current] # sought
  /\ steps' = steps + 1
  /\ UNCHANGED <<names, refs, slots, stage, entry, sought, found>>

(* lookup_rulehash                                                         *)
Lookup(n) ==
  /\ stage = "ready"
  /\ stage' = "seek" /\ sought' = n /\ steps' = 0
  /\ UNCHANGED <<names, refs, slots, entry, found>>

(* Mutant: whatever the slot holds is the answer.                          *)
Guess ==
  /\ stage = "seek"
  /\ stage' = "answer" /\ found' = Current
  /\ UNCHANGED <<names, refs, slots, entry, sought, steps>>

Answer ==
  /\ stage = "seek" /\ (Current # 0 => names[Current] = sought)
  /\ stage' = "answer" /\ found' = Current
  /\ UNCHANGED <<names, refs, slots, entry, sought, steps>>

(* link_references counts the reference to the rule it was given.          *)
Count ==
  /\ stage = "answer"
  /\ stage' = "ready"
  /\ refs' = IF found = 0 THEN refs ELSE [refs EXCEPT ![found] = @ + 1]
  /\ UNCHANGED <<names, slots, entry, sought, steps, found>>

Probe == Place \/ SecondDefinition \/ StepOn \/ Answer

HashNext ==
  \/ \E n \in Names : AddRule(n) \/ Lookup(n)
  \/ MakeTable \/ Probe \/ Count

HashSpec == HashInit /\ [][HashNext]_hashVars

-----------------------------------------------------------------------------
(* Properties.                                                             *)

(* A lookup finds the first rule of the name it is asked for, whatever the *)
(* names' hashes and wherever collisions have put the rules, and finds     *)
(* nothing when there is no such rule (lookup_rulehash).                   *)
IsFirst(k, n) == k \in DOMAIN names /\ names[k] = n /\ \A m \in 1 .. k - 1 : names[m] # n
LookupFindsFirst ==
  stage = "answer" =>
    \/ IsFirst(found, sought)
    \/ found = 0 /\ \A k \in DOMAIN names : names[k] # sought

(* Every definition of a name but the first is marked as one when the     *)
(* table is made, and no reference is ever counted against the mark: a rule *)
(* that is not marked is the one that its name finds (make_rulehash and    *)
(* link_references share the field ref).                                   *)
Entered(k) == stage # "rules" /\ (stage = "enter" => k < entry)
SecondsMarked == \A k \in DOMAIN names : refs[k] = -1 <=> Entered(k) /\ ~IsFirst(k, names[k])

(* No search passes over as many slots as the table has: it comes to an    *)
(* empty one before (make_rulehash, lookup_rulehash).                      *)
SearchEnds == stage \in {"enter", "seek"} => steps < Size
=============================================================================
