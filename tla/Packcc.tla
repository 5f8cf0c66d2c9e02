------------------------------- MODULE Packcc -------------------------------
(***************************************************************************)
(* packcc as main() sees it: parse() and generate() one after the other,   *)
(* the errors they count, the table of rules, the two output files and the *)
(* exit status.  What is in the grammar is open: any item may be any rule  *)
(* and count any errors, any name may be referred to.  Translation closes  *)
(* it with the parser of the notation.                                     *)
(***************************************************************************)
EXTENDS RuleHash, FiniteSets

VARIABLES
  phase,    \* one of Phases
  ctx,      \* the context; of it, only the number of errors matters here
  checked,  \* rules that have been verified
  files,    \* the two output files: "old", "open", "whole" or "none"
  status    \* the exit status, -1 while the program runs

Phases == {"start", "rules", "link", "verify", "open", "write", "footer", "end", "exit"}

packccVars == <<phase, ctx.errnum, checked, files, status, hashVars>>

OldFiles   == [source |-> "old", header |-> "old"]
WholeFiles == [source |-> "whole", header |-> "whole"]

PackccInit ==
  /\ phase = "start" /\ ctx.errnum = 0
  /\ checked = 0 /\ files = OldFiles /\ status = -1
  /\ HashInit

(* Mutant: the program ends without a status of its own.                   *)
ExitSilently(s) == phase' = "exit" /\ UNCHANGED status

Exit(s) == phase' = "exit" /\ status' = s

-----------------------------------------------------------------------------
(* What is open: the errors that a step finds.                             *)

Found == ctx'.errnum \in Nat /\ ctx'.errnum >= ctx.errnum
Kept  == ctx'.errnum = ctx.errnum
Still == UNCHANGED <<checked, files, status>>

(* parse(): its items, one after the other, of which some are rules; a code *)
(* block that is cut off may ask for more memory than there is.            *)
Begin   == phase = "start" /\ phase' = "rules" /\ Found /\ Still /\ UNCHANGED hashVars
Item    == phase = "rules" /\ Found /\ Still /\ UNCHANGED <<phase, hashVars>>
NewRule == phase = "rules" /\ (\E n \in Names : AddRule(n)) /\ Found /\ Still /\ UNCHANGED phase
NoRoom  == phase = "rules" /\ Exit(3) /\ Found /\ UNCHANGED <<checked, files, hashVars>>

(* The table is made, and asked for any number of references.              *)
EndItems == phase = "rules" /\ phase' = "link" /\ MakeTable /\ Kept /\ Still
Search   == phase = "link" /\ (Probe \/ \E n \in Names : Lookup(n)) /\ Kept /\ Still /\ UNCHANGED phase
Resolved ==
  /\ phase = "link" /\ Count
  /\ ctx'.errnum = IF found = 0 THEN ctx.errnum + 1 ELSE ctx.errnum
  /\ Still /\ UNCHANGED phase

(* Every rule but the first must be used and be the first of its name.     *)
Misused == {k \in 2 .. Len(names) : refs[k] <= 0}
Checked ==
  /\ phase = "link" /\ stage = "ready"
  /\ phase' = "verify" /\ ctx'.errnum = ctx.errnum + Cardinality(Misused)
  /\ Still /\ UNCHANGED hashVars

VerifyNext ==
  /\ phase = "verify" /\ checked < Len(names)
  /\ checked' = checked + 1 /\ Found
  /\ UNCHANGED <<phase, files, status, hashVars>>

-----------------------------------------------------------------------------
(* What is not.                                                            *)

(* Mutant: main() generates whatever parse() returns.                      *)
GenerateAnyway ==
  /\ phase = "verify" /\ checked = Len(names)
  /\ phase' = "open"
  /\ UNCHANGED <<checked, files, status, hashVars>>

(* parse() returns to main(), which goes on to generate() or not.          *)
Parsed ==
  /\ phase = "verify" /\ checked = Len(names)
  /\ phase' = IF ctx.errnum = 0 THEN "open" ELSE "end"
  /\ UNCHANGED <<checked, files, status, hashVars>>

(* generate() opens the source file first.                                 *)
OpenFile ==
  /\ phase = "open"
  /\ IF files.source = "old"
     THEN files' = [files EXCEPT !.source = "open"] /\ UNCHANGED phase
     ELSE files' = [files EXCEPT !.header = "open"] /\ phase' = "write"
  /\ UNCHANGED <<checked, status, hashVars>>

(* A file cannot be opened, written, read or closed: the program exits at  *)
(* once and leaves the files as they are (fopen_wt_e, fputs_e, fgetc_e,    *)
(* fclose_e).                                                              *)
FileError ==
  /\ phase \in {"start", "rules", "open", "write", "footer", "end"}
  /\ Exit(2)
  /\ UNCHANGED <<checked, files, hashVars>>

CodeWritten == phase = "write" /\ phase' = "footer" /\ Still /\ UNCHANGED hashVars

(* The files are closed, and removed if there has been an error.           *)
CloseFiles ==
  /\ phase = "footer"
  /\ phase' = "end"
  /\ files' = [f \in DOMAIN files |-> IF ctx.errnum = 0 THEN "whole" ELSE "none"]
  /\ UNCHANGED <<checked, status, hashVars>>

(* The context is destroyed, and main() returns.                           *)
Finish ==
  /\ phase = "end"
  /\ Exit(IF ctx.errnum = 0 THEN 0 ELSE 10)
  /\ UNCHANGED <<checked, files, hashVars>>

-----------------------------------------------------------------------------
PackccNext ==
  \/ Begin \/ Item \/ NewRule \/ NoRoom
  \/ EndItems \/ Search \/ Resolved \/ Checked \/ VerifyNext
  \/ (Parsed \/ OpenFile \/ FileError \/ CodeWritten \/ CloseFiles \/ Finish) /\ Kept

PackccSpec == PackccInit /\ [][PackccNext]_packccVars

-----------------------------------------------------------------------------
(* Properties.                                                             *)

(* The exit status tells the truth.  0 says that both files are whole, that *)
(* no error was found, and that the grammar is one: every rule was         *)
(* verified, has a name of its own and, but for the first, is referred to; *)
(* 10 that the grammar was refused and the files of an earlier run are     *)
(* untouched; 3 that they are untouched, too (main, the end of parse,      *)
(* generate).                                                              *)
OutputsHonest ==
  phase = "exit" =>
    /\ status = 0 => /\ files = WholeFiles
                     /\ ctx.errnum = 0 /\ checked = Len(names)
                     /\ \A j, k \in DOMAIN names : names[j] = names[k] => j = k
                     /\ \A k \in 2 .. Len(names) : refs[k] > 0
    /\ status = 10 => ctx.errnum > 0
    /\ status \in {3, 10} => files = OldFiles
    /\ status \in {0, 2, 3, 10}
=============================================================================
