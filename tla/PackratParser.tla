--------------------------- MODULE PackratParser ----------------------------
(***************************************************************************)
(* A generated parser: PackratRuntime with its rule bodies closed by the   *)
(* code that PackGenerate emits.  A behaviour is one program (a grammar,   *)
(* compiled) reading one input, with pcc_parse called in a loop the way    *)
(* the documentation's main() does.                                        *)
(***************************************************************************)
EXTENDS PackratRuntime, RuleFunction

CONSTANTS
  Programs,  \* the compiled grammars: a record with code[r], the code of rule r
  Inputs     \* the inputs, sequences of characters

(* The C compiler takes them.                                               *)
ASSUME ProgramsAssumption ==
  \A code \in {p.code[r] : p \in Programs, r \in Rules} : Compiles(code, Rules)

VARIABLES
  prog,      \* the program that runs
  input,     \* what PCC_GETCHAR delivers
  more,      \* what the last call of pcc_parse returned: is there more input
  bodies,    \* the C frame of each running pcc_evaluate_rule_*, as in frames
  made,      \* the contents of the chunk of each answer in the memo table
  given,     \* the contents of the chunk ans
  evals,     \* history: how often this call of pcc_parse has entered each
             \* rule's body at each place, for its first evaluation or to grow
  held,      \* history: how often as a rule involved in a growing one
  errors     \* history: the chunks whose error action this call has run

chunks    == <<made, given>>
histories == <<evals, held, errors>>
pvars     == <<prog, input, more, bodies, chunks, histories>>

(* The range of capture k, as it is and as strndup last saw it; an unset    *)
(* one is empty.                                                            *)
Unset == [start |-> 0, end |-> 0, string |-> None]
CaptureOf(f, k) == IF k \in DOMAIN f THEN f[k] ELSE Unset

(* What a variable holds: the action that stored it, and where its text      *)
(* starts and ends.  pcc_apply_rule zeroes the variable of a rule that       *)
(* matches.                                                                 *)
Zeroed == [act |-> 0, start |-> 0, end |-> 0]

(* The contents of a chunk; with them, the saved variables p and n of       *)
(* the open blocks and their i.                                             *)
ChunkOf(b) == [thunks |-> b.thunks, capts |-> b.capts, values |-> b.values]
NewBody == [pc |-> 1, thunks |-> <<>>, saved |-> <<>>, count |-> <<>>, capts |-> <<>>, values |-> <<>>]

Body == bodies[Len(bodies)]
Code == prog.code[Top.rule]
Ins  == Code[Body.pc]

Set(f, k, v) == [x \in DOMAIN f \cup {k} |-> IF x = k THEN v ELSE f[x]]

Run(b)     == bodies' = [bodies EXCEPT ![Len(bodies)] = b]
Jump(l)    == [Body EXCEPT !.pc = Behind(Code, l)]
Step       == [Body EXCEPT !.pc = @ + 1]
Quiet      == UNCHANGED <<prog, input, more, chunks, histories>>
At(op)     == InBody /\ Ins.op = op
CtxSame    == UNCHANGED vars

(* pcc_refill_buffer(ctx, num): the buffer's length afterwards.             *)
Refilled(num) == LET want == cur + num
                     have == inlen - pos
                 IN IF buf >= want THEN buf ELSE IF want <= have THEN want ELSE have

Char(i) == input[pos + i + 1]   \* ctx->buffer.buf[i]

-----------------------------------------------------------------------------
(* Instructions that read the input.                                       *)

DoMatch ==
  /\ At("match")
  /\ LET n == Len(Ins.pat)
         ok == /\ Refilled(n) - cur >= n
               /\ \A i \in 1 .. n : Char(cur + i - 1) \in Ins.pat[i]
     IN /\ Scan(IF ok THEN cur + n ELSE cur, Refilled(n))
        /\ Run(IF ok THEN Step ELSE Jump(Ins.l))
  /\ Quiet

DoExpand ==
  /\ At("expand")
  /\ LET k == CaptureOf(Body.capts, Ins.k)
         n == k.end - k.start
         ok == /\ Refilled(n) - cur >= n
               /\ \A i \in 0 .. n - 1 : Char(cur + i) = Char(k.start + i)
     IN /\ Scan(IF ok THEN cur + n ELSE cur, Refilled(n))
        /\ Run(IF ok THEN Step ELSE Jump(Ins.l))
  /\ Quiet

(* Mutant: the thunks of what is given up stay.                             *)
DoRestorePosition ==
  /\ At("restore")
  /\ Scan(Body.saved[Ins.v].p, buf)
  /\ Run(Step)
  /\ Quiet

(* ctx->cur = p and pcc_thunk_array__revert(.., n).                         *)
DoRestore ==
  /\ At("restore")
  /\ LET s == Body.saved[Ins.v] IN
     /\ Scan(s.p, buf)
     /\ Run([Step EXCEPT !.thunks = SubSeq(@, 1, s.n)])
  /\ Quiet

-----------------------------------------------------------------------------
(* Instructions that only change the C frame.                              *)

(* Mutant: the position saved is absolute.                                  *)
DoSaveAbsolute ==
  /\ At("save")
  /\ Run([Step EXCEPT !.saved = Set(@, Ins.v, [p |-> Here, n |-> Len(Body.thunks)])])
  /\ Quiet /\ CtxSame

DoSave ==
  /\ At("save")
  /\ Run([Step EXCEPT !.saved = Set(@, Ins.v, [p |-> cur, n |-> Len(Body.thunks)])])
  /\ Quiet /\ CtxSame

DoJump ==
  /\ \/ At("goto") /\ Run(Jump(Ins.l))
     \/ At("label") /\ Run(Step)
     \/ At("under") /\ Run(IF Body.count[Ins.v] < Ins.k THEN Step ELSE Jump(Ins.l))
     \/ At("still") /\ Run(IF cur = Body.saved[Ins.v].p THEN Jump(Ins.l) ELSE Step)
  /\ Quiet /\ CtxSame

DoCount ==
  /\ \/ At("zero") /\ Run([Step EXCEPT !.count = Set(@, Ins.v, 0)])
     \/ At("count") /\ Run([Jump(Ins.l) EXCEPT !.count[Ins.v] = @ + 1])
  /\ Quiet /\ CtxSame

(* Mutant: the start is set only once.                                      *)
DoCaptureEnd ==
  /\ At("capture")
  /\ LET c == IF Ins.k \in DOMAIN Body.capts THEN Body.capts[Ins.k]
              ELSE [Unset EXCEPT !.start = Body.saved[Ins.v].p]
     IN Run([Step EXCEPT !.capts = Set(@, Ins.k, [c EXCEPT !.end = cur])])
  /\ Quiet /\ CtxSame

DoCapture ==
  /\ At("capture")
  /\ Run([Step EXCEPT !.capts = Set(@, Ins.k, [CaptureOf(@, Ins.k) EXCEPT
                                                  !.start = Body.saved[Ins.v].p, !.end = cur])])
  /\ Quiet /\ CtxSame

(* A leaf thunk; capt0 runs from the rule's start to here.                  *)
Leaf == [type |-> "leaf", act |-> Ins.k, start |-> Top.at - pos, end |-> cur,
         capts |-> Ins.capts, vars |-> Ins.vars]

DoAction ==
  /\ At("action")
  /\ Run([Step EXCEPT !.thunks = Append(@, Leaf)])
  /\ Quiet /\ CtxSame

(* pcc_get_capture_string: the string is made when it is first asked for.   *)
(* Of a finished evaluation that is never too early.                        *)
Asked(c) == [c EXCEPT !.string = IF @ = None THEN SubSeq(input, pos + c.start + 1, pos + c.end) ELSE @]

(* An error action runs at once; its thunk is not kept.                     *)
DoErrorAction ==
  LET capts == [k \in DOMAIN Body.capts \cup Ins.capts |->
                  IF k \in Ins.capts THEN Asked(CaptureOf(Body.capts, k)) ELSE Body.capts[k]]
  IN /\ At("error")
     /\ Run([Step EXCEPT !.capts = capts])
     /\ errors' = Append(errors, [ChunkOf(Body) EXCEPT !.thunks = <<Leaf>>, !.capts = capts])
     /\ UNCHANGED <<prog, input, more, chunks, evals, held>> /\ CtxSame

-----------------------------------------------------------------------------
(* Calls and returns.                                                      *)

Entering == Len(frames') > Len(frames)

(* Notes in history h that rule(ctx) is entered in mode m.                  *)
Counted(h, m) ==
  LET f == frames'[Len(frames')]
  IN IF Entering /\ f.mode = m THEN [h EXCEPT ![f.at][f.rule] = @ + 1] ELSE h

(* pcc_apply_rule(r) up to its answer, which is recalled from the memo      *)
(* table or a failure, or into the body of r.                               *)
Applied(r) ==
  /\ bodies' = IF Entering THEN Append(bodies, NewBody) ELSE bodies
  /\ given' = IF ans' = None THEN None ELSE made[Here][r]
  /\ evals' = Counted(evals, "seed")
  /\ held' = Counted(held, "hold")
  /\ UNCHANGED <<prog, input, more, made, errors>>

DoApply ==
  /\ At("apply")
  /\ BodyApply(Ins.rule)
  /\ Applied(Ins.rule)

(* pcc_apply_rule has returned; the chunk becomes a thunk.                  *)
DoResume ==
  /\ Resume
  /\ Run(IF ans = None THEN Jump(Ins.l)
         ELSE [Step EXCEPT !.thunks = Append(@, [type |-> "node", chunk |-> given, var |-> Ins.var]),
                           !.values = IF Ins.var = 0 THEN @ ELSE Set(@, Ins.var, Zeroed)])
  /\ given' = None
  /\ UNCHANGED <<prog, input, more, made, histories>>

(* rule(ctx) returns its chunk, with contents o, or null, and pcc_apply_rule *)
(* stores, forgets or grows it.                                             *)
Returned(o) ==
  /\ made' = IF Top.mode = "seed" \/ ctl' = "body" THEN [made EXCEPT ![Top.at][Top.rule] = o] ELSE made
  /\ IF ctl' = "body"                       \* the seed grows: rule(ctx) again
     THEN /\ Run(NewBody)
          /\ given' = None
          /\ evals' = [evals EXCEPT ![Top.at][Top.rule] = @ + 1]
     ELSE /\ bodies' = SubSeq(bodies, 1, Len(bodies) - 1)
          /\ given' = IF Top.mode = "grow" THEN made[Top.at][Top.rule] ELSE o
          /\ UNCHANGED evals
  /\ UNCHANGED <<prog, input, more, held, errors>>

DoReturn ==
  \/ At("chunk") /\ Return(NewChunk(Top)) /\ Returned(ChunkOf(Body))
  \/ At("null")  /\ Return(None) /\ Returned(None)

Untouched == [i \in Index |-> [r \in Rules |-> 0]]

DoParseCall ==
  /\ more                                   \* while (pcc_parse(ctx, &ret));
  /\ ParseCall
  /\ Applied(Start)

(* A new call begins with no history.                                       *)
Committed ==
  /\ made' = [i \in Index |-> [r \in Rules |-> IF i + cur \in Index THEN made[i + cur][r] ELSE None]]
  /\ given' = None
  /\ evals' = Untouched /\ held' = Untouched /\ errors' = <<>>
  /\ UNCHANGED <<prog, input, bodies>>

(* Mutant: pcc_parse does not look for more input.                          *)
DoParseReturnUnread ==
  /\ ctl = "ret" /\ frames = <<>>
  /\ CommitBuffer
  /\ buf' = buf - cur
  /\ ctl' = "idle" /\ ans' = None
  /\ more' = (buf' > 0)
  /\ Committed
  /\ UNCHANGED <<inlen, frames>>

DoParseReturn ==
  /\ ParseReturn
  /\ more' = (buf' > 0)
  /\ Committed

DoParseError == ParseError /\ UNCHANGED pvars

(* The loop over pcc_parse is over.                                         *)
Ended == (ctl = "idle" /\ ~ more) \/ ctl = "exit"
Stop  == Ended /\ UNCHANGED <<vars, pvars>>

-----------------------------------------------------------------------------
ParserInit ==
  /\ Init
  /\ prog \in Programs
  /\ input \in Inputs
  /\ inlen = Len(input)
  /\ more = TRUE
  /\ bodies = <<>>
  /\ made = [i \in Index |-> [r \in Rules |-> None]]
  /\ given = None
  /\ evals = Untouched /\ held = Untouched /\ errors = <<>>

ParserNext ==
  \/ DoMatch \/ DoExpand \/ DoRestore
  \/ DoSave \/ DoJump \/ DoCount \/ DoCapture \/ DoAction \/ DoErrorAction
  \/ DoApply \/ DoResume \/ DoReturn
  \/ DoParseCall \/ DoParseReturn \/ DoParseError
  \/ Stop

ParserSpec     == ParserInit /\ [][ParserNext]_<<vars, pvars>>
FairParserSpec == ParserSpec /\ WF_<<vars, pvars>>(ParserNext)

-----------------------------------------------------------------------------
(* Properties.                                                             *)

(* A generated parser is one resolution of the choices that PackratRuntime  *)
(* leaves to rule bodies: its code does nothing there that PackratRuntime   *)
(* does not allow a body to do.                                             *)
ImplementsRuntime == Spec

(* Packrat parsing: as long as no left recursion is met, a call of          *)
(* pcc_parse evaluates no rule twice at one place.                          *)
OncePerPlace ==
  (\A i \in Index, r \in Rules : heads[i][r] = None) =>
    \A i \in Index, r \in Rules : evals[i][r] + held[i][r] <= 1

(* A left-recursive rule is evaluated once for the seed, once for every     *)
(* growth, and once more to see that it grows no further; each growth takes *)
(* at least one more character.                                             *)
GrowthBounded == \A i \in Index, r \in Rules : i <= inlen => evals[i][r] <= inlen - i + 2

(* A rule function goes back only to places between its own start and the   *)
(* end of what has been read, and so lie the ends of what it captures:      *)
(* pcc_get_capture_string copies nothing from outside the buffer.           *)
PositionsInside ==
  \A k \in DOMAIN bodies :
    LET own == frames[k].at - pos .. buf
        b   == bodies[k]
    IN /\ \A v \in DOMAIN b.saved : b.saved[v].p \in own
       /\ \A c \in DOMAIN b.capts : {b.capts[c].start, b.capts[c].end} \subseteq own \cup {0}
=============================================================================
