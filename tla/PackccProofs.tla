---------------------------- MODULE PackccProofs ----------------------------
(***************************************************************************)
(* Proofs about Packcc, for every grammar and whatever its parser makes of *)
(* it: the table of rules is used as RuleHash allows, so that its lookups  *)
(* are right, and the exit status tells the truth.                         *)
(***************************************************************************)
EXTENDS Packcc, RuleHashProofs

-----------------------------------------------------------------------------
(* The table.                                                              *)

(* Every step leaves the table alone or is one of its own steps.            *)
LEMMA TableSteps == ASSUME [PackccNext]_packccVars PROVE [HashNext]_hashVars
<1>1. CASE Begin \/ Item \/ NoRoom \/ Checked \/ VerifyNext
  BY <1>1 DEF Begin, Item, NoRoom, Checked, VerifyNext
<1>2. CASE NewRule
  BY <1>2 DEF NewRule, HashNext
<1>3. CASE EndItems
  BY <1>3 DEF EndItems, HashNext
<1>4. CASE Search
  BY <1>4 DEF Search, HashNext
<1>5. CASE Resolved
  BY <1>5 DEF Resolved, HashNext
<1>6. CASE Parsed \/ OpenFile \/ FileError \/ CodeWritten \/ CloseFiles \/ Finish
  BY <1>6 DEF Parsed, OpenFile, FileError, CodeWritten, CloseFiles, Finish
<1>7. CASE UNCHANGED packccVars
  BY <1>7 DEF packccVars
<1> QED BY <1>1, <1>2, <1>3, <1>4, <1>5, <1>6, <1>7 DEF PackccNext

(* packcc makes the table when all rules are known and asks it afterwards   *)
(* only, as RuleHash has it: what is proved of the table holds in packcc    *)
(* (make_rulehash and link_references in parse).                            *)
THEOREM TableUsed == PackccSpec => HashSpec
<1>1. PackccInit => HashInit
  BY DEF PackccInit
<1>2. [PackccNext]_packccVars => [HashNext]_hashVars
  BY TableSteps
<1> QED BY <1>1, <1>2, PTL DEF PackccSpec, HashSpec

(* So references are linked to the first rule of their name, seconds are    *)
(* marked, and the searches of the table end.                               *)
THEOREM TableRight == PackccSpec => [](LookupFindsFirst /\ SecondsMarked /\ SearchEnds)
<1> QED BY TableUsed, LookupsRight, MarksRight, SearchesEnd, PTL

-----------------------------------------------------------------------------
(* The inductive invariant.                                                *)

PackccTyped ==
  /\ phase \in Phases /\ ctx.errnum \in Nat
  /\ checked \in 0 .. Len(names)

Generating == phase \in {"open", "write", "footer"}

TableStage ==
  /\ phase \in {"start", "rules"} => stage = "rules"
  /\ phase = "verify" \/ Generating \/ phase = "end" => stage = "ready"

(* How far the files are; nothing is written of a grammar with errors.      *)
FilesRight ==
  /\ phase \in {"start", "rules", "link", "verify"} => files = OldFiles
  /\ phase = "open" => files \in {OldFiles, [source |-> "open", header |-> "old"]}
  /\ phase \in {"write", "footer"} => files = [source |-> "open", header |-> "open"]
  /\ Generating => ctx.errnum = 0
  /\ phase = "end" => files = IF ctx.errnum = 0 THEN WholeFiles ELSE OldFiles

(* What has been checked of the grammar.                                    *)
GrammarRight ==
  /\ Generating \/ phase = "end" => checked = Len(names)
  /\ (phase = "verify" \/ Generating \/ phase = "end") /\ ctx.errnum = 0 => Misused = {}

PackccInv == HashInv /\ PackccTyped /\ TableStage /\ FilesRight /\ GrammarRight /\ OutputsHonest

(* Where every rule behind the first is used and first of its name, names   *)
(* are distinct.                                                            *)
LEMMA NothingMisused ==
  ASSUME HashInv, stage = "ready", Misused = {}
  PROVE  /\ \A k \in 2 .. Len(names) : refs[k] > 0
         /\ \A j, k \in DOMAIN names : names[j] = names[k] => j = k
<1>1. /\ names \in Seq(Names) /\ Len(names) \in Nat /\ DOMAIN names = 1 .. Len(names)
      /\ refs \in Seq(Int) /\ Len(refs) = Len(names)
  BY DEF HashInv, HashTyped
<1>2. ASSUME NEW k \in 2 .. Len(names) PROVE refs[k] > 0
  <2>1. k \notin Misused /\ refs[k] \in Int
    BY <1>1
  <2> QED BY <2>1 DEF Misused
<1>3. ASSUME NEW j \in 1 .. Len(names), NEW k \in 1 .. Len(names), j < k PROVE names[j] # names[k]
  <2>1. k \in 2 .. Len(names)
    BY <1>1, <1>3
  <2>2. refs[k] # -1
    BY <1>2, <2>1
  <2>3. IsFirst(k, names[k])
    BY <2>2 DEF HashInv, MarksTrue, Entered
  <2> QED BY <2>3, <1>1, <1>3 DEF IsFirst
<1>4. ASSUME NEW j \in DOMAIN names, NEW k \in DOMAIN names, names[j] = names[k] PROVE j = k
  BY <1>1, <1>3, <1>4
<1> QED BY <1>2, <1>4

(* The invariant holds at first.                                            *)
LEMMA PackccInvInit == PackccInit => PackccInv
<1> SUFFICES ASSUME PackccInit PROVE PackccInv
  OBVIOUS
<1>1. HashInv
  BY HashInvInit DEF PackccInit
<1>2. phase = "start" /\ ctx.errnum = 0 /\ checked = 0 /\ files = OldFiles /\ stage = "rules" /\ names = <<>>
  BY DEF PackccInit, HashInit
<1>3. PackccTyped
  BY <1>2 DEF PackccTyped, Phases
<1> QED BY <1>1, <1>2, <1>3 DEF PackccInv, TableStage, FilesRight, GrammarRight, OutputsHonest, Generating

-----------------------------------------------------------------------------
(* Its steps, but for the part that is RuleHash's.                         *)

Rest == PackccTyped /\ TableStage /\ FilesRight /\ GrammarRight /\ OutputsHonest

LEMMA ParseKeeps ==
  ASSUME PackccInv, Begin \/ Item \/ NewRule \/ NoRoom
  PROVE  Rest'
<1>1. /\ phase \in {"start", "rules"} /\ files' = OldFiles /\ checked' = checked /\ ctx'.errnum \in Nat
      /\ phase' = "rules" \/ (phase' = "exit" /\ status' = 3)
  BY DEF PackccInv, FilesRight, Begin, Item, NewRule, NoRoom, Found, Still, Exit
<1>2. checked \in 0 .. Len(names) /\ Len(names) \in Nat /\ stage = "rules"
  BY <1>1 DEF PackccInv, PackccTyped, TableStage, HashInv, HashTyped
<1>3. stage' = "rules" /\ Len(names') \in Nat /\ Len(names') >= Len(names)
  <2>1. CASE NewRule
    <3>1. PICK n \in Names : AddRule(n)
      BY <2>1 DEF NewRule
    <3> QED BY <3>1, <1>2 DEF AddRule, HashInv, HashTyped, PackccInv
  <2>2. CASE Begin \/ Item \/ NoRoom
    BY <1>2, <2>2 DEF Begin, Item, NoRoom, hashVars
  <2> QED BY <2>1, <2>2
<1>4. PackccTyped'
  BY <1>1, <1>2, <1>3 DEF PackccTyped, Phases
<1>5. TableStage' /\ FilesRight' /\ GrammarRight' /\ OutputsHonest'
  BY <1>1, <1>3 DEF TableStage, FilesRight, GrammarRight, OutputsHonest, Generating
<1> QED BY <1>4, <1>5 DEF Rest

LEMMA LinkKeeps ==
  ASSUME PackccInv, EndItems \/ Search \/ Resolved
  PROVE  Rest'
<1>1. /\ phase \in {"rules", "link"} /\ files' = OldFiles /\ checked' = checked /\ phase' = "link"
      /\ ctx'.errnum \in {ctx.errnum, ctx.errnum + 1} /\ names' = names
  BY DEF PackccInv, FilesRight, EndItems, Search, Resolved, Kept, Still, MakeTable, Probe, Place,
         SecondDefinition, StepOn, Answer, Lookup, Count
<1>2. PackccTyped'
  BY <1>1 DEF PackccInv, PackccTyped, Phases
<1> QED BY <1>1, <1>2 DEF Rest, TableStage, FilesRight, GrammarRight, OutputsHonest, Generating

LEMMA CheckedKeeps ==
  ASSUME PackccInv, Checked
  PROVE  Rest'
<1>1. IsFiniteSet(Misused) /\ Cardinality(Misused) \in Nat /\ (Cardinality(Misused) = 0 => Misused = {})
  <2>1. Len(names) \in Nat
    BY DEF PackccInv, HashInv, HashTyped
  <2>2. IsFiniteSet(2 .. Len(names)) /\ Misused \subseteq 2 .. Len(names)
    BY <2>1, FS_Interval DEF Misused
  <2> QED BY <2>2, FS_Subset, FS_CardinalityType, FS_EmptySet
<1>2. /\ phase = "link" /\ phase' = "verify" /\ stage' = "ready" /\ files' = OldFiles /\ checked' = checked
      /\ ctx'.errnum = ctx.errnum + Cardinality(Misused) /\ Misused' = Misused /\ names' = names
      /\ ctx.errnum \in Nat
  BY DEF PackccInv, PackccTyped, FilesRight, Checked, Still, hashVars, Misused
<1>3. ctx'.errnum \in Nat /\ (ctx'.errnum = 0 => Misused = {})
  BY <1>1, <1>2
<1>4. PackccTyped'
  BY <1>2, <1>3 DEF PackccInv, PackccTyped, Phases
<1> QED BY <1>2, <1>3, <1>4 DEF Rest, TableStage, FilesRight, GrammarRight, OutputsHonest, Generating

LEMMA VerifyKeeps ==
  ASSUME PackccInv, VerifyNext
  PROVE  Rest'
<1>1. /\ phase = "verify" /\ phase' = "verify" /\ stage' = "ready" /\ files' = OldFiles
      /\ checked' = checked + 1 /\ checked < Len(names) /\ names' = names /\ Misused' = Misused
      /\ ctx.errnum \in Nat /\ ctx'.errnum \in Nat /\ ctx'.errnum >= ctx.errnum
      /\ ctx.errnum = 0 => Misused = {}
  BY DEF PackccInv, PackccTyped, TableStage, FilesRight, GrammarRight, VerifyNext, Found, hashVars, Misused
<1>2. PackccTyped'
  BY <1>1 DEF PackccInv, PackccTyped, Phases, HashInv, HashTyped
<1>3. ctx'.errnum = 0 => Misused' = {}
  BY <1>1
<1> QED BY <1>1, <1>2, <1>3 DEF Rest, TableStage, FilesRight, GrammarRight, OutputsHonest, Generating

LEMMA GenerateKeeps ==
  ASSUME PackccInv, Kept, Parsed \/ OpenFile \/ CodeWritten \/ CloseFiles
  PROVE  Rest'
<1>1. /\ phase = "verify" \/ Generating
      /\ stage' = "ready" /\ checked' = checked /\ names' = names /\ Misused' = Misused
      /\ ctx'.errnum = ctx.errnum /\ ctx.errnum \in Nat
      /\ ctx.errnum = 0 => Misused = {}
  BY DEF PackccInv, PackccTyped, TableStage, GrammarRight, Generating, Kept, Parsed, OpenFile, CodeWritten,
         CloseFiles, Still, hashVars, Misused
<1>2. /\ phase' \in {"open", "write", "footer", "end"} /\ checked = Len(names)
      /\ FilesRight'
  <2>1. CASE Parsed
    BY <1>1, <2>1 DEF PackccInv, FilesRight, Parsed, Generating
  <2>2. CASE OpenFile
    BY <1>1, <2>2 DEF PackccInv, FilesRight, GrammarRight, OpenFile, Generating, OldFiles
  <2>3. CASE CodeWritten
    BY <1>1, <2>3 DEF PackccInv, FilesRight, GrammarRight, CodeWritten, Generating, Still
  <2>4. CASE CloseFiles
    <3>1. files = [source |-> "open", header |-> "open"] /\ ctx.errnum = 0 /\ phase = "footer" /\ phase' = "end"
      BY <2>4 DEF PackccInv, FilesRight, CloseFiles, Generating
    <3>2. files' = WholeFiles
      BY <2>4, <3>1 DEF CloseFiles, WholeFiles
    <3> QED BY <1>1, <3>1, <3>2 DEF PackccInv, FilesRight, GrammarRight, Generating
  <2> QED BY <2>1, <2>2, <2>3, <2>4
<1>3. PackccTyped'
  BY <1>1, <1>2 DEF PackccInv, PackccTyped, Phases
<1> QED BY <1>1, <1>2, <1>3 DEF Rest, TableStage, GrammarRight, OutputsHonest, Generating

LEMMA ExitKeeps ==
  ASSUME PackccInv, Kept, FileError \/ Finish
  PROVE  Rest'
<1>1. /\ phase' = "exit" /\ files' = files /\ checked' = checked /\ UNCHANGED hashVars
      /\ ctx'.errnum = ctx.errnum /\ ctx.errnum \in Nat
  BY DEF PackccInv, PackccTyped, Kept, FileError, Finish, Exit
<1>2. names' = names /\ refs' = refs
  BY <1>1 DEF hashVars
<1>3. OutputsHonest'
  <2>1. CASE FileError
    BY <1>1, <2>1 DEF FileError, Exit, OutputsHonest
  <2>2. CASE Finish /\ ctx.errnum = 0
    <3>1. /\ phase = "end" /\ status' = 0 /\ files = WholeFiles /\ checked = Len(names)
          /\ stage = "ready" /\ Misused = {}
      BY <2>2 DEF PackccInv, FilesRight, GrammarRight, TableStage, Finish, Exit
    <3>2. /\ \A k \in 2 .. Len(names) : refs[k] > 0
          /\ \A j, k \in DOMAIN names : names[j] = names[k] => j = k
      BY <3>1, NothingMisused DEF PackccInv
    <3> QED BY <1>1, <1>2, <2>2, <3>1, <3>2 DEF OutputsHonest
  <2>3. CASE Finish /\ ctx.errnum # 0
    <3>1. phase = "end" /\ status' = 10 /\ files = OldFiles
      BY <2>3 DEF PackccInv, FilesRight, Finish, Exit
    <3> QED BY <1>1, <2>3, <3>1 DEF OutputsHonest
  <2> QED BY <2>1, <2>2, <2>3
<1>4. PackccTyped'
  BY <1>1, <1>2 DEF PackccInv, PackccTyped, Phases
<1> QED BY <1>1, <1>3, <1>4 DEF Rest, TableStage, FilesRight, GrammarRight, Generating

LEMMA PackccInvNext == PackccInv /\ [PackccNext]_packccVars => PackccInv'
<1> SUFFICES ASSUME PackccInv, [PackccNext]_packccVars PROVE PackccInv'
  OBVIOUS
<1>1. HashInv'
  BY TableSteps, HashInvNext DEF PackccInv
<1>2. Rest'
  <2>1. CASE UNCHANGED packccVars
    BY <2>1 DEF packccVars, hashVars, Rest, PackccInv, PackccTyped, TableStage, FilesRight, GrammarRight,
                OutputsHonest, Generating, Misused
  <2>2. CASE PackccNext
    BY <2>2, ParseKeeps, LinkKeeps, CheckedKeeps, VerifyKeeps, GenerateKeeps, ExitKeeps DEF PackccNext
  <2> QED BY <2>1, <2>2
<1> QED BY <1>1, <1>2 DEF PackccInv, Rest

-----------------------------------------------------------------------------
(* The results.                                                            *)

(* The parts of the invariant hold in every run of packcc.                  *)
THEOREM PackccInvariance == PackccSpec => []PackccInv
<1> QED BY PackccInvInit, PackccInvNext, PTL DEF PackccSpec

(* The exit status tells the truth about the files, the errors and the      *)
(* grammar's rules, for every grammar and wherever the program fails (main, *)
(* the end of parse, generate).                                             *)
THEOREM StatusHonest == PackccSpec => []OutputsHonest
<1>1. PackccInv => OutputsHonest
  BY DEF PackccInv
<1> QED BY <1>1, PackccInvariance, PTL
=============================================================================
