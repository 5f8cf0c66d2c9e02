--------------------------- MODULE PackratRuntime ---------------------------
(***************************************************************************)
(* The run time that PackCC emits into every generated parser: the packrat *)
(* memo table with its left-recursion protocol (pcc_apply_rule), and the   *)
(* API call around it (pcc_parse with pcc_commit_buffer).                  *)
(*                                                                         *)
(* A rule body is left open here: between two applications of rules it may *)
(* read input, advance, backtrack to any place not before its own start,   *)
(* drop thunks, and end in success or failure.  Every grammar PackCC can   *)
(* compile is one resolution of these choices, so what holds of this       *)
(* module holds of every generated parser.  PackratParser closes the       *)
(* bodies with generated code.                                             *)
(*                                                                         *)
(* Heap objects are named by where the code stores them.  A thunk chunk is *)
(* owned by the entry of the memo table whose memos, hold chains or held   *)
(* answers keep it, so it is named by that entry's index; a growth head is *)
(* created at most once for an LR entry and lives in hold_h of the entry's *)
(* table index, so it is named by [at, rule].  Committing a parsed prefix  *)
(* frees the table entries of that prefix and renames the rest; a name     *)
(* whose object was freed becomes the index Freed.                         *)
(***************************************************************************)
EXTENDS Integers, Sequences, FiniteSets

CONSTANTS
  Rules,     \* the grammar's rules (the pcc_evaluate_rule_* functions)
  Start,     \* the rule pcc_parse applies: the first one of the grammar
  MaxInput,  \* bound: the longest input considered
  MaxDepth,  \* bound: the deepest nesting of rule evaluations
  MaxMemos,  \* bound: how many answers the memo table may hold at a time
  None       \* the null pointer

ASSUME StartAssumption  == Start \in Rules
ASSUME BoundsAssumption == MaxInput \in Nat /\ MaxDepth \in Nat /\ MaxMemos \in Nat

VARIABLES
  inlen,    \* how many characters PCC_GETCHAR will deliver before EOF
  pos,      \* ctx->pos: input position of the first buffered character
  cur,      \* ctx->cur: position in the buffer
  buf,      \* ctx->buffer.len
  memo,     \* ctx->lrtable: memo[i][r], the answer stored at index i for rule r
  head,     \* ctx->lrtable: head[i], the growth head installed at index i
  heads,    \* the pcc_lr_head_t objects, heads[i][r] held by table entry i
  lrstack,  \* ctx->lrstack: the LR entries under first evaluation
  frames,   \* the active calls of pcc_apply_rule that are evaluating a rule
  ctl,      \* "idle" outside pcc_parse, "body" in a rule, "ret" at the end of
            \* pcc_apply_rule, "exit" once PCC_ERROR has ended the process
  ans       \* the local c of the pcc_apply_rule that is about to return

tvars == <<memo, head, heads, lrstack>>
vars  == <<inlen, pos, cur, buf, memo, head, heads, lrstack, frames, ctl, ans>>

-----------------------------------------------------------------------------
(* Types.                                                                  *)

Freed  == -1
Index  == 0 .. MaxInput
Place  == Index \cup {Freed}

(* A pcc_rule_set_t.  pcc_rule_set__remove shifts the tail down but never   *)
(* decrements len, so the rule in the last cell stays in the set for ever   *)
(* while every other rule can be removed: "last" names that rule.           *)
RuleSet == [set : SUBSET Rules, last : Rules \cup {None}]

HeadId  == [at : Place, rule : Rules]
LrHead  == [invol : RuleSet, eval : RuleSet]
Chunk   == [at : Place, refs : SUBSET Place]
Answer  == [type  : {"LR", "CHUNK"},
            pos   : Index,                  \* the absolute position in the input
            chunk : Chunk \cup {None},      \* the chunk, or the seed of an LR answer
            head  : HeadId \cup {None}]     \* lr->head of an LR answer
LrEntry == [at : Index, rule : Rules]
Frame   == [at   : Index,                   \* the local p
            rule : Rules,
            mode : {"hold", "seed", "grow"},\* which call of rule(ctx) is running
            head : HeadId \cup {None},      \* the local h while growing
            refs : SUBSET Place]            \* chunks the body's thunks may point to

(* What is known of a rule whose answer is a CHUNK.                         *)
Outcome == [match : Chunk \cup {None}, end : Index]

ASSUME NoneAssumption == None \notin Answer \cup Chunk \cup HeadId \cup LrHead \cup Outcome

TypeOK ==
  /\ inlen \in Index /\ pos \in Index /\ cur \in Index /\ buf \in Index
  /\ memo    \in [Index -> [Rules -> Answer \cup {None}]]
  /\ head    \in [Index -> HeadId \cup {None}]
  /\ heads   \in [Index -> [Rules -> LrHead \cup {None}]]
  /\ lrstack \in Seq(LrEntry)
  /\ frames  \in Seq(Frame)
  /\ ctl     \in {"idle", "body", "ret", "exit"}
  /\ ans     \in Chunk \cup {None}

-----------------------------------------------------------------------------
(* Helpers.                                                                *)

Here == pos + cur
Top  == frames[Len(frames)]

EmptyRuleSet        == [set |-> {}, last |-> None]
RuleSetHas(s, r)    == r \in s.set
RuleSetRemove(s, r) == IF r = s.last THEN s ELSE [s EXCEPT !.set = @ \ {r}]

LrAnswer(p)         == [type |-> "LR", pos |-> p, chunk |-> None, head |-> None]
ChunkAnswer(p, c)   == [type |-> "CHUNK", pos |-> p, chunk |-> c, head |-> None]

PushFrame(p, r, m) ==
  frames' = Append(frames, [at |-> p, rule |-> r, mode |-> m, head |-> None, refs |-> {}])
PopFrame   == frames' = SubSeq(frames, 1, Len(frames) - 1)
PopLrStack == lrstack' = SubSeq(lrstack, 1, Len(lrstack) - 1)
Store(f, a) == memo' = [memo EXCEPT ![f.at][f.rule] = a]

(* The local c of pcc_apply_rule is settled; its caller resumes.            *)
Answering(c) == ctl' = "ret" /\ ans' = c

Room     == Len(frames) < MaxDepth
MemoRoom == \/ frames = <<>>
            \/ Cardinality({s \in Index \X Rules : memo[s[1]][s[2]] # None}) < MaxMemos

-----------------------------------------------------------------------------
(* pcc_apply_rule(rule) at the current position, up to the point where it  *)
(* has its answer or has called rule(ctx).                                 *)
(*                                                                         *)
(* Definitions headed "Mutant:" here and in the other modules are slips    *)
(* that the properties must catch; no specification uses them.             *)

Growing(p) == head[p] # None
HeadAt(p)  == heads[head[p].at][head[p].rule]

Blocked(p, r) == /\ Growing(p)
                 /\ memo[p][r] = None
                 /\ r # head[p].rule
                 /\ ~ RuleSetHas(HeadAt(p).invol, r)
ToEvaluate(p, r) == /\ Growing(p)
                    /\ ~ Blocked(p, r)
                    /\ RuleSetHas(HeadAt(p).eval, r)

(* A rule that the seed did not reach is not tried while the seed grows.    *)
ApplyBlocked(r) ==
  /\ Blocked(Here, r)
  /\ Answering(None)
  /\ UNCHANGED <<inlen, pos, cur, buf, tvars, frames>>

(* A rule involved in the growing one is evaluated afresh.                  *)
ApplyInvolved(r) ==
  LET h == head[Here] IN
  /\ ToEvaluate(Here, r)
  /\ Room
  /\ heads' = [heads EXCEPT ![h.at][h.rule].eval = RuleSetRemove(@, r)]
  /\ PushFrame(Here, r, "hold")
  /\ ctl' = "body"
  /\ UNCHANGED <<inlen, pos, cur, buf, memo, head, lrstack, ans>>

(* Mutant: the position stays where the rule was applied.                   *)
RecallChunkInPlace(r) ==
  LET a == memo[Here][r] IN
  /\ ~ Blocked(Here, r) /\ ~ ToEvaluate(Here, r)
  /\ a # None
  /\ a.type = "CHUNK"
  /\ Answering(a.chunk)
  /\ UNCHANGED <<inlen, pos, cur, buf, tvars, frames>>

(* The memo holds a result.                                                 *)
RecallChunk(r) ==
  LET a == memo[Here][r] IN
  /\ ~ Blocked(Here, r) /\ ~ ToEvaluate(Here, r)
  /\ a # None
  /\ a.type = "CHUNK"
  /\ cur' = a.pos - pos
  /\ Answering(a.chunk)
  /\ UNCHANGED <<inlen, pos, buf, tvars, frames>>

(* lrstack[k+1 ..] is the part of the stack the marking loop walks: from    *)
(* the top down to the first entry that already belongs to head h.          *)
HeadOf(e, a, p, r, h) == IF e = [at |-> p, rule |-> r] THEN h ELSE memo[e.at][e.rule].head
AllMarked(k, a, p, r, h) == k = 0   \* mutant: the walk goes on to the bottom
Unmarked(k, a, p, r, h) ==
  /\ \A j \in k + 1 .. Len(lrstack) : HeadOf(lrstack[j], a, p, r, h) # h
  /\ k > 0 => HeadOf(lrstack[k], a, p, r, h) = h

(* pcc_rule_set__add for the rules of lrstack[k+1 ..], top first.           *)
Joined(s, k) ==
  LET walked == {lrstack[j].rule : j \in k + 1 .. Len(lrstack)}
      IsLast(r) == \E j \in k + 1 .. Len(lrstack) :
                     /\ lrstack[j].rule = r
                     /\ \A m \in k + 1 .. Len(lrstack) :
                          IF m > j THEN lrstack[m].rule # r
                          ELSE \/ lrstack[m].rule \in s.set
                               \/ \E n \in j .. Len(lrstack) : lrstack[n].rule = lrstack[m].rule
  IN {t \in RuleSet : /\ t.set = s.set \cup walked
                      /\ IF walked \subseteq s.set THEN t.last = s.last
                         ELSE t.last \in walked \ s.set /\ IsLast(t.last)}

(* The memo holds the mark of an evaluation that is under way, or of one    *)
(* that was involved in a left recursion: answer with the seed, and tell    *)
(* everything evaluated since that it is part of the recursion.             *)
RecallLR(r) ==
  LET p == Here
      a == memo[p][r]
      h == IF a.head = None THEN [at |-> p, rule |-> r] ELSE a.head
      old == IF a.head = None THEN [invol |-> EmptyRuleSet, eval |-> EmptyRuleSet]
             ELSE heads[h.at][h.rule]
  IN
  /\ ~ Blocked(p, r) /\ ~ ToEvaluate(p, r)
  /\ a # None
  /\ a.type = "LR"
  /\ cur' = a.pos - pos
  /\ \E k \in 0 .. Len(lrstack) :
       /\ Unmarked(k, a, p, r, h)
       /\ memo' = [i \in Index |-> [q \in Rules |->
                    IF \/ i = p /\ q = r
                       \/ \E j \in k + 1 .. Len(lrstack) : lrstack[j] = [at |-> i, rule |-> q]
                    THEN [memo[i][q] EXCEPT !.head = h]
                    ELSE memo[i][q]]]
       /\ \E t \in Joined(old.invol, k) :
            heads' = [heads EXCEPT ![h.at][h.rule] = [old EXCEPT !.invol = t]]
  /\ Answering(a.chunk)
  /\ UNCHANGED <<inlen, pos, buf, head, lrstack, frames>>

(* No memo: leave an LR answer behind and evaluate the rule.                *)
ApplyFresh(r) ==
  /\ ~ Blocked(Here, r) /\ ~ ToEvaluate(Here, r)
  /\ memo[Here][r] = None
  /\ Room /\ MemoRoom
  /\ lrstack' = Append(lrstack, [at |-> Here, rule |-> r])
  /\ memo' = [memo EXCEPT ![Here][r] = LrAnswer(Here)]
  /\ PushFrame(Here, r, "seed")
  /\ ctl' = "body"
  /\ UNCHANGED <<inlen, pos, cur, buf, head, heads, ans>>

Apply(r) == \/ ApplyBlocked(r)
            \/ ApplyInvolved(r)
            \/ RecallChunk(r)
            \/ RecallLR(r)
            \/ ApplyFresh(r)

-----------------------------------------------------------------------------
(* A rule body, pcc_evaluate_rule_*: reading input, applying rules, ending. *)

InBody == ctl = "body"

(* Mutant: a body backtracks to before its own start.                       *)
ScanAnywhere(c, b) ==
  /\ InBody
  /\ b \in buf .. inlen - pos
  /\ c \in 0 .. b
  /\ cur' = c
  /\ buf' = b
  /\ UNCHANGED <<inlen, pos, tvars, frames, ctl, ans>>

(* pcc_refill_buffer, matching, and restoring a saved position.             *)
Scan(c, b) ==
  /\ InBody
  /\ b \in buf .. inlen - pos
  /\ c \in Top.at - pos .. b
  /\ cur' = c
  /\ buf' = b
  /\ UNCHANGED <<inlen, pos, tvars, frames, ctl, ans>>

BodyApply(r) == InBody /\ Apply(r)

(* What a body may return: no match, or its chunk.  Thunks that the body    *)
(* dropped when it backtracked still count in refs, which so names a       *)
(* superset of the chunks that the returned one points to.                  *)
NewChunk(f) == [at |-> f.at, refs |-> f.refs]
Results(f)  == {None, NewChunk(f)}

-----------------------------------------------------------------------------
(* rule(ctx) has returned c to pcc_apply_rule.                             *)

ReturnHeld(c) ==
  /\ InBody /\ Top.mode = "hold"
  /\ PopFrame
  /\ Answering(c)
  /\ UNCHANGED <<inlen, pos, cur, buf, tvars>>

(* Mutants: the position memoized is not absolute; failures are not kept.   *)
ReturnPlainAs(c, a) ==
  /\ InBody /\ Top.mode = "seed"
  /\ memo[Top.at][Top.rule].head = None
  /\ PopLrStack
  /\ Store(Top, a)
  /\ PopFrame
  /\ Answering(c)
  /\ UNCHANGED <<inlen, pos, cur, buf, head, heads>>
ReturnPlainRelative(c) == ReturnPlainAs(c, ChunkAnswer(cur, c))
ReturnPlainMatches(c)  == ReturnPlainAs(c, IF c = None THEN None ELSE ChunkAnswer(Here, c))

(* No left recursion was met: the result is memoized.                       *)
ReturnPlain(c) ==
  /\ InBody /\ Top.mode = "seed"
  /\ memo[Top.at][Top.rule].head = None
  /\ PopLrStack
  /\ Store(Top, ChunkAnswer(Here, c))
  /\ PopFrame
  /\ Answering(c)
  /\ UNCHANGED <<inlen, pos, cur, buf, head, heads>>

(* Mutant: the LR stack is not popped.                                      *)
ReturnInvolvedUnpopped(c) ==
  LET a == memo[Top.at][Top.rule] IN
  /\ InBody /\ Top.mode = "seed"
  /\ a.head # None
  /\ a.head.rule # Top.rule
  /\ Store(Top, [a EXCEPT !.pos = Here, !.chunk = c])
  /\ PopFrame
  /\ Answering(c)
  /\ UNCHANGED <<inlen, pos, cur, buf, head, heads, lrstack>>

(* The rule took part in another rule's left recursion: its memo stays LR.  *)
ReturnInvolved(c) ==
  LET a == memo[Top.at][Top.rule] IN
  /\ InBody /\ Top.mode = "seed"
  /\ a.head # None
  /\ a.head.rule # Top.rule
  /\ PopLrStack
  /\ Store(Top, [a EXCEPT !.pos = Here, !.chunk = c])
  /\ PopFrame
  /\ Answering(c)
  /\ UNCHANGED <<inlen, pos, cur, buf, head, heads>>

(* The head of a left recursion found no seed.                              *)
ReturnNoSeed(c) ==
  LET a == memo[Top.at][Top.rule] IN
  /\ InBody /\ Top.mode = "seed"
  /\ a.head # None
  /\ a.head.rule = Top.rule
  /\ c = None
  /\ PopLrStack
  /\ Store(Top, ChunkAnswer(Here, None))
  /\ PopFrame
  /\ Answering(None)
  /\ UNCHANGED <<inlen, pos, cur, buf, head, heads>>

(* Evaluate the rule once more from its start position p.                   *)
GrowFrom(f, h) ==
  /\ frames' = [frames EXCEPT ![Len(frames)] = [f EXCEPT !.mode = "grow", !.head = h, !.refs = {}]]
  /\ heads' = [heads EXCEPT ![h.at][h.rule].eval = heads[h.at][h.rule].invol]
  /\ cur' = f.at - pos

(* The head of a left recursion found a seed: install the head, grow.       *)
ReturnSeed(c) ==
  LET a == memo[Top.at][Top.rule] IN
  /\ InBody /\ Top.mode = "seed"
  /\ a.head # None
  /\ a.head.rule = Top.rule
  /\ c # None
  /\ PopLrStack
  /\ Store(Top, ChunkAnswer(Here, c))
  /\ head' = [head EXCEPT ![Top.at] = a.head]
  /\ GrowFrom(Top, a.head)
  /\ UNCHANGED <<inlen, pos, buf, ctl, ans>>

GrewOrStayed(c) == c # None /\ Here >= memo[Top.at][Top.rule].pos   \* mutant: not <=
Grew(c) == c # None /\ Here > memo[Top.at][Top.rule].pos

GrowAgain(c) ==
  /\ InBody /\ Top.mode = "grow"
  /\ Grew(c)
  /\ Store(Top, ChunkAnswer(Here, c))
  /\ GrowFrom(Top, Top.head)
  /\ UNCHANGED <<inlen, pos, buf, head, lrstack, ctl, ans>>

(* Mutants: the head stays installed; the position stays where the last     *)
(* attempt ended.                                                           *)
GrowStopInstalled(c) ==
  LET a == memo[Top.at][Top.rule] IN
  /\ InBody /\ Top.mode = "grow"
  /\ ~ Grew(c)
  /\ cur' = a.pos - pos
  /\ PopFrame
  /\ Answering(a.chunk)
  /\ UNCHANGED <<inlen, pos, buf, memo, head, heads, lrstack>>
GrowStopInPlace(c) ==
  LET a == memo[Top.at][Top.rule] IN
  /\ InBody /\ Top.mode = "grow"
  /\ ~ Grew(c)
  /\ head' = [head EXCEPT ![Top.at] = None]
  /\ PopFrame
  /\ Answering(a.chunk)
  /\ UNCHANGED <<inlen, pos, cur, buf, memo, heads, lrstack>>

GrowStop(c) ==
  LET a == memo[Top.at][Top.rule] IN
  /\ InBody /\ Top.mode = "grow"
  /\ ~ Grew(c)
  /\ head' = [head EXCEPT ![Top.at] = None]
  /\ cur' = a.pos - pos
  /\ PopFrame
  /\ Answering(a.chunk)
  /\ UNCHANGED <<inlen, pos, buf, memo, heads, lrstack>>

Return(c) == \/ ReturnHeld(c)
             \/ ReturnPlain(c)
             \/ ReturnInvolved(c)
             \/ ReturnNoSeed(c)
             \/ ReturnSeed(c)
             \/ GrowAgain(c)
             \/ GrowStop(c)

(* The end of pcc_apply_rule: on success a thunk pointing to the chunk is   *)
(* added to the caller's array, then the caller's body goes on.             *)
Resume ==
  /\ ctl = "ret"
  /\ frames # <<>>
  /\ IF ans = None THEN UNCHANGED frames
     ELSE frames' = [frames EXCEPT ![Len(frames)].refs = @ \cup {ans.at}]
  /\ ctl' = "body"
  /\ ans' = None
  /\ UNCHANGED <<inlen, pos, cur, buf, tvars>>

-----------------------------------------------------------------------------
(* pcc_parse.                                                              *)

ParseCall ==
  /\ ctl = "idle"
  /\ Apply(Start)

(* Names after the first c table entries were freed (pcc_lr_table__shift).  *)
Moved(i, c)      == IF i >= c THEN i - c ELSE Freed
MovedHead(h, c)  == IF h = None THEN None ELSE [h EXCEPT !.at = Moved(@, c)]
MovedChunk(k, c) == IF k = None THEN None
                    ELSE [k EXCEPT !.at = Moved(@, c), !.refs = {Moved(i, c) : i \in @}]
MovedAnswer(a, c) == IF a = None THEN None
                     ELSE [a EXCEPT !.chunk = MovedChunk(@, c), !.head = MovedHead(@, c)]

(* pcc_commit_buffer: drop the parsed text, and the memo table's first cur  *)
(* entries with it.  Answers keep their absolute positions.                 *)
CommitBuffer ==
  /\ pos' = pos + cur
  /\ cur' = 0
  /\ memo'  = [i \in Index |-> [r \in Rules |->
                 IF i + cur \in Index THEN MovedAnswer(memo[i + cur][r], cur) ELSE None]]
  /\ head'  = [i \in Index |-> IF i + cur \in Index THEN MovedHead(head[i + cur], cur) ELSE None]
  /\ heads' = [i \in Index |-> [r \in Rules |->
                 IF i + cur \in Index THEN heads[i + cur][r] ELSE None]]
  /\ UNCHANGED lrstack

(* Mutant: the commit drops the text that was read ahead.                   *)
ParseReturnDropping ==
  /\ ctl = "ret"
  /\ frames = <<>>
  /\ CommitBuffer
  /\ buf' = IF inlen - pos > buf THEN 1 ELSE 0
  /\ ctl' = "idle"
  /\ ans' = None
  /\ UNCHANGED <<inlen, frames>>

(* The rest of pcc_parse after pcc_apply_rule: the actions run (or          *)
(* PCC_ERROR returns), the prefix is committed, one character is refilled.  *)
ParseReturn ==
  /\ ctl = "ret"
  /\ frames = <<>>
  /\ CommitBuffer
  /\ buf' = IF buf > cur THEN buf - cur ELSE IF inlen - pos > buf THEN 1 ELSE 0
  /\ ctl' = "idle"
  /\ ans' = None
  /\ UNCHANGED <<inlen, frames>>

(* PCC_ERROR as PackCC defines it by default: exit(1).                      *)
ParseError ==
  /\ ctl = "ret"
  /\ frames = <<>>
  /\ ans = None
  /\ ctl' = "exit"
  /\ UNCHANGED <<inlen, pos, cur, buf, tvars, frames, ans>>

(* Nothing happens any more once the process has ended.                     *)
Exited == ctl = "exit" /\ UNCHANGED vars

-----------------------------------------------------------------------------
Init ==
  /\ inlen \in Index
  /\ pos = 0 /\ cur = 0 /\ buf = 0
  /\ memo    = [i \in Index |-> [r \in Rules |-> None]]
  /\ head    = [i \in Index |-> None]
  /\ heads   = [i \in Index |-> [r \in Rules |-> None]]
  /\ lrstack = <<>>
  /\ frames  = <<>>
  /\ ctl = "idle"
  /\ ans = None

Next ==
  \/ ParseCall
  \/ \E c, b \in Index : Scan(c, b)
  \/ \E r \in Rules : BodyApply(r)
  \/ InBody /\ \E c \in Results(Top) : Return(c)
  \/ Resume
  \/ ParseReturn
  \/ ParseError
  \/ Exited

Spec == Init /\ [][Next]_vars

-----------------------------------------------------------------------------
(* Properties.                                                             *)

(* pcc_lr_stack__push and __pop bracket exactly the first evaluations that  *)
(* are still running: the stack never underflows, a pop removes the entry   *)
(* of the rule that returns, and until then that entry's answer in the memo *)
(* table is an LR answer without a seed.  m says which frame pushed which   *)
(* entry.                                                                   *)
Brackets(m, stack, calls) ==
  /\ \A i, j \in 1 .. Len(stack) : i < j => m[i] < m[j]
  /\ \A j \in 1 .. Len(stack) :
       /\ calls[m[j]].mode = "seed"
       /\ stack[j] = [at |-> calls[m[j]].at, rule |-> calls[m[j]].rule]
  /\ \A k \in 1 .. Len(calls) :
       calls[k].mode = "seed" => \E j \in 1 .. Len(stack) : m[j] = k
StackDiscipline ==
  /\ \E m \in [1 .. Len(lrstack) -> 1 .. Len(frames)] : Brackets(m, lrstack, frames)
  /\ \A k \in 1 .. Len(frames) :
       LET a == memo[frames[k].at][frames[k].rule] IN
       frames[k].mode = "seed" => a # None /\ a.type = "LR" /\ a.chunk = None

(* No pointer dangles.  pcc_commit_buffer frees the table entries of the    *)
(* parsed prefix; no answer that stays, no growth head and no thunk of a    *)
(* running body may point to a chunk or a head that was freed with them.    *)
LiveHead(h)  == h # None => h.at \in Index /\ heads[h.at][h.rule] # None
LiveChunk(c) == c # None => c.at \in Index /\ c.refs \subseteq Index
NoDangling ==
  /\ \A i \in Index :
       /\ LiveHead(head[i])
       /\ \A r \in Rules : memo[i][r] # None =>
            /\ LiveHead(memo[i][r].head)
            /\ LiveChunk(memo[i][r].chunk)
            /\ memo[i][r].chunk # None => memo[i][r].chunk.at = i
  /\ \A k \in 1 .. Len(frames) : LiveHead(frames[k].head) /\ frames[k].refs \subseteq Index
  /\ LiveChunk(ans)

(* A growth head is installed only while the loop that grows its seed runs: *)
(* a head left behind would make every later rule at that position fail     *)
(* unless it is memoized or involved.                                       *)
HeadScoped ==
  \A i \in Index : head[i] # None =>
    \E k \in 1 .. Len(frames) : frames[k].mode = "grow" /\ frames[k].at = i

(* Sizes are unsigned: recalling an answer computes a->pos - ctx->pos, and  *)
(* committing moves len - cur bytes.  Neither may wrap, and a recall never  *)
(* moves backwards or past what was read, although the table is indexed by  *)
(* absolute positions and shifted at every commit.                          *)
RecallsInBuffer ==
  /\ cur <= buf
  /\ pos + buf <= inlen
  /\ \A i \in Index, r \in Rules : memo[i][r] # None =>
       i <= memo[i][r].pos /\ memo[i][r].pos <= pos + buf

(* Memoized results are kept as packrat parsing promises (PackratMemo): in  *)
(* a call of pcc_parse only a longer match replaces one, and only where a   *)
(* match was; a failure is final; a commit moves all of them, each with its *)
(* end, by as much as it consumes.                                          *)
Memoized(i, r) == memo[i][r] # None /\ memo[i][r].type = "CHUNK"
Known == [i \in Index |-> [r \in Rules |->
            IF Memoized(i, r) THEN [match |-> memo[i][r].chunk, end |-> memo[i][r].pos] ELSE None]]
Memo == INSTANCE PackratMemo
          WITH Places <- Index, Outcomes <- Outcome, known <- Known, seen <- pos + buf, start <- pos
ImplementsMemo == Memo!Spec
=============================================================================
