------------------------ MODULE PackratParserProofs -------------------------
(***************************************************************************)
(* Proofs about PackratParser, for every set of programs that compile and  *)
(* every input: a generated parser is a behaviour of PackratRuntime, so    *)
(* that the theorems of PackratRuntimeProofs hold of it; its functions     *)
(* keep to their text; and how often it evaluates a rule at a place.       *)
(***************************************************************************)
EXTENDS PackratParser, PackratRuntimeProofs

-----------------------------------------------------------------------------
(* Sequences whose elements have no set of their own, such as C frames.     *)

AnySeq(q) == \E S : q \in Seq(S)

(* A member of a set of sequences is one.                                   *)
LEMMA Anywhere == ASSUME NEW S, NEW q \in Seq(S) PROVE AnySeq(q)
  BY DEF AnySeq

(* What Append leaves in one.                                               *)
LEMMA AnyPushed ==
  ASSUME NEW q, AnySeq(q), NEW e
  PROVE  /\ AnySeq(Append(q, e))
         /\ Len(q) \in Nat /\ Len(Append(q, e)) = Len(q) + 1
         /\ \A i \in 1 .. Len(q) : Append(q, e)[i] = q[i]
         /\ Append(q, e)[Len(q) + 1] = e
<1>1. PICK S : q \in Seq(S)
  BY DEF AnySeq
<1> DEFINE T == S \cup {e}
<1>2. q \in Seq(T) /\ e \in T
  BY <1>1
<1> HIDE DEF T
<1>3. /\ Append(q, e) \in Seq(T)
      /\ Len(q) \in Nat /\ Len(Append(q, e)) = Len(q) + 1
      /\ \A i \in 1 .. Len(q) : Append(q, e)[i] = q[i]
      /\ Append(q, e)[Len(q) + 1] = e
  BY <1>2, Pushed
<1> QED BY <1>3, Anywhere

(* What a pop leaves in one.                                                *)
LEMMA AnyPopped ==
  ASSUME NEW q, AnySeq(q), Len(q) > 0
  PROVE  /\ AnySeq(SubSeq(q, 1, Len(q) - 1))
         /\ Len(q) \in Nat /\ Len(SubSeq(q, 1, Len(q) - 1)) = Len(q) - 1
         /\ \A i \in 1 .. Len(q) - 1 : SubSeq(q, 1, Len(q) - 1)[i] = q[i]
<1>1. PICK S : q \in Seq(S)
  BY DEF AnySeq
<1>2. Len(q) \in Nat
  BY <1>1
<1>3. /\ SubSeq(q, 1, Len(q) - 1) \in Seq(S)
      /\ Len(SubSeq(q, 1, Len(q) - 1)) = Len(q) - 1
      /\ \A i \in 1 .. Len(q) - 1 : SubSeq(q, 1, Len(q) - 1)[i] = q[i]
  BY <1>1, Popped
<1> QED BY <1>2, <1>3, Anywhere

(* What replacing the last element leaves in one.                           *)
LEMMA AnyReplaced ==
  ASSUME NEW q, AnySeq(q), Len(q) > 0, NEW e
  PROVE  LET p == [q EXCEPT ![Len(q)] = e] IN
         /\ AnySeq(p)
         /\ Len(q) \in Nat /\ Len(p) = Len(q)
         /\ \A i \in 1 .. Len(q) - 1 : p[i] = q[i]
         /\ p[Len(q)] = e
<1>1. PICK S : q \in Seq(S)
  BY DEF AnySeq
<1> DEFINE T == S \cup {e}
           p == [q EXCEPT ![Len(q)] = e]
<1>2. q \in Seq(T) /\ e \in T /\ Len(q) \in Nat /\ Len(q) \in 1 .. Len(q)
  BY <1>1
<1> HIDE DEF T
<1>3. p \in Seq(T) /\ Len(p) = Len(q) /\ p[Len(q)] = e /\ \A i \in 1 .. Len(q) - 1 : p[i] = q[i]
  BY <1>2
<1> QED BY <1>2, <1>3, Anywhere

-----------------------------------------------------------------------------
(* The C frame b of a rule function.                                       *)

(* Its fields.                                                              *)
IsBody(b) == b = [pc |-> b.pc, thunks |-> b.thunks, saved |-> b.saved,
                  count |-> b.count, capts |-> b.capts, values |-> b.values]

(* It is at an instruction of its code, and has set the variables in whose  *)
(* scope that instruction is.                                               *)
Located(b, code) ==
  /\ b.pc \in DOMAIN code
  /\ \A j, e \in DOMAIN code :
       code[j].op = "save" /\ InScope(code, j, e) /\ b.pc \in j + 1 .. e => code[j].v \in DOMAIN b.saved

(* Its positions lie between from and to.                                   *)
IsCapture(c) == c = [start |-> c.start, end |-> c.end, string |-> c.string]
Within(b, from, to) ==
  /\ \A v \in DOMAIN b.saved : b.saved[v].p \in from .. to
  /\ \A c \in DOMAIN b.capts :
       /\ IsCapture(b.capts[c])
       /\ {b.capts[c].start, b.capts[c].end} \subseteq (from .. to) \cup {0}

BodyOK(b, code, from, to) == IsBody(b) /\ Located(b, code) /\ Within(b, from, to)

(* A new frame is right.                                                    *)
LEMMA NewBodyOK ==
  ASSUME NEW code, Compiles(code, Rules), NEW from, NEW to
  PROVE  BodyOK(NewBody, code, from, to)
<1>1. IsBody(NewBody) /\ NewBody.pc = 1
  BY DEF NewBody, IsBody
<1>2. DOMAIN NewBody.saved = {} /\ DOMAIN NewBody.capts = {}
  BY DEF NewBody
<1>3. Located(NewBody, code)
  BY <1>1 DEF Located, Compiles
<1> QED BY <1>1, <1>2, <1>3 DEF BodyOK, Within

(* So is one that goes on along the code, having set what it saves there.   *)
LEMMA GoesOn ==
  ASSUME NEW code, Compiles(code, Rules), NEW b, Located(b, code), NEW c,
         c.pc \in Onward(code, b.pc), DOMAIN b.saved \subseteq DOMAIN c.saved,
         code[b.pc].op = "save" => code[b.pc].v \in DOMAIN c.saved
  PROVE  Located(c, code)
<1>1. b.pc \in DOMAIN code /\ c.pc \in DOMAIN code
  BY DEF Located, Compiles
<1>a. DOMAIN code \subseteq Nat
  BY DEF Compiles
<1>2. ASSUME NEW j \in DOMAIN code, NEW e \in DOMAIN code, code[j].op = "save",
             InScope(code, j, e), c.pc \in j + 1 .. e
      PROVE  code[j].v \in DOMAIN c.saved
  <2>1. b.pc \in j .. e
    BY <1>1, <1>2 DEF InScope
  <2>2. CASE b.pc = j
    BY <1>2, <2>2
  <2>3. CASE b.pc # j
    <3>1. b.pc \in j + 1 .. e
      BY <2>1, <2>3, <1>1, <1>a
    <3> QED BY <3>1, <1>2 DEF Located
  <2> QED BY <2>2, <2>3
<1> QED BY <1>1, <1>2 DEF Located

-----------------------------------------------------------------------------
(* The inductive invariant of a generated parser: that of the run time, and *)
(* that its C frames are those of the active calls, each of them right.     *)

CodeOf(f) == prog.code[f.rule]

Bodies ==
  \A k \in 1 .. Len(frames) : BodyOK(bodies[k], CodeOf(frames[k]), frames[k].at - pos, buf)

(* A function that has called another one is at the application of its rule. *)
Applying(k) == CodeOf(frames[k])[bodies[k].pc].op = "apply"
Waiting     == \A k \in 1 .. Len(frames) : k < Len(frames) \/ ctl = "ret" => Applying(k)

ParserInv ==
  /\ IInv
  /\ prog \in Programs
  /\ AnySeq(bodies) /\ Len(bodies) = Len(frames)
  /\ Bodies /\ Waiting

(* All code compiles.                                                       *)
LEMMA AllCompiles ==
  ASSUME ParserInv, NEW f \in Frame
  PROVE  Compiles(CodeOf(f), Rules)
<1>1. f.rule \in Rules /\ prog \in Programs
  BY DEF Frame, ParserInv
<1>2. CodeOf(f) \in {p.code[r] : p \in Programs, r \in Rules}
  BY <1>1 DEF CodeOf
<1> QED BY <1>2, ProgramsAssumption

(* The function that runs.                                                  *)
LEMMA Running ==
  ASSUME ParserInv, frames # <<>>
  PROVE  /\ Len(frames) \in Nat /\ Len(frames) > 0 /\ Len(bodies) = Len(frames)
         /\ Code = CodeOf(Top) /\ Compiles(Code, Rules)
         /\ Body = bodies[Len(frames)] /\ BodyOK(Body, Code, Top.at - pos, buf)
         /\ IsBody(Body) /\ Body.pc \in DOMAIN Code
         /\ Top.at \in Nat /\ Top.at - pos \in Nat /\ Top.at - pos <= cur /\ cur <= buf
         /\ pos \in Nat /\ cur \in Nat /\ buf \in Nat
         /\ ctl = "ret" => Ins.op = "apply"
<1>1. IInv /\ Len(bodies) = Len(frames)
  BY DEF ParserInv
<1>2. /\ Len(frames) \in Nat /\ Len(frames) > 0 /\ Len(frames) \in 1 .. Len(frames)
      /\ Top \in Frame /\ Top = frames[Len(frames)] /\ CallOK(memo, heads, Top, pos, Here)
  BY <1>1, TopCall
<1>3. Code = CodeOf(Top) /\ Compiles(Code, Rules)
  BY <1>2, AllCompiles DEF Code, CodeOf
<1>4. Body = bodies[Len(frames)] /\ BodyOK(Body, Code, Top.at - pos, buf)
  BY <1>1, <1>2, <1>3 DEF Body, ParserInv, Bodies
<1>5. ctl = "ret" => Ins.op = "apply"
  BY <1>2, <1>3, <1>4 DEF ParserInv, Waiting, Applying, Ins
<1>6. /\ Top.at \in Nat /\ Top.at - pos \in Nat /\ Top.at - pos <= cur /\ cur <= buf
      /\ pos \in Nat /\ cur \in Nat /\ buf \in Nat
  <2>1. Top.at \in Nat /\ pos <= Top.at /\ Top.at <= Here
    BY <1>1, <1>2, EachCall DEF CallOK
  <2> QED BY <1>1, <2>1, Places DEF Here
<1> QED BY <1>1, <1>2, <1>3, <1>4, <1>5, <1>6 DEF BodyOK, Located

(* It is the last of those that are at an application, or it is not.        *)
LEMMA TopApplies ==
  ASSUME ParserInv, frames # <<>>
  PROVE  Applying(Len(frames)) <=> Ins.op = "apply"
<1>1. Top = frames[Len(frames)] /\ Code = CodeOf(Top) /\ Body = bodies[Len(frames)]
  BY Running, TopCall DEF ParserInv
<1> QED BY <1>1 DEF Applying, Ins

(* A text that has grown holds all the positions it held.                   *)
LEMMA WithinMore ==
  ASSUME NEW b, NEW from \in Int, NEW m \in Int, NEW n \in Int, m <= n, Within(b, from, m)
  PROVE  Within(b, from, n)
<1>1. from .. m \subseteq from .. n
  OBVIOUS
<1> QED BY <1>1 DEF Within

-----------------------------------------------------------------------------
(* What a step of the run time does to the calls.                           *)

Opened(r, m) == [at |-> Here, rule |-> r, mode |-> m, head |-> None, refs |-> {}]

(* pcc_apply_rule answers at once or opens one call.                        *)
LEMMA ApplyCalls ==
  ASSUME IInv, NEW r \in Rules, Apply(r)
  PROVE  /\ pos' = pos /\ buf' = buf /\ inlen' = inlen
         /\ \/ ctl' = "ret" /\ frames' = frames
            \/ /\ ctl' = "body" /\ ans' = ans
               /\ \E m \in {"hold", "seed"} : frames' = Append(frames, Opened(r, m))
<1>1. CASE ApplyBlocked(r)
  BY <1>1 DEF ApplyBlocked, Answering
<1>2. CASE ApplyInvolved(r)
  BY <1>2 DEF ApplyInvolved, PushFrame, Opened
<1>3. CASE RecallChunk(r)
  BY <1>3 DEF RecallChunk, Answering
<1>4. CASE RecallLR(r)
  BY <1>4 DEF RecallLR, Answering
<1>5. CASE ApplyFresh(r)
  BY <1>5 DEF ApplyFresh, PushFrame, Opened
<1> QED BY <1>1, <1>2, <1>3, <1>4, <1>5 DEF Apply

(* When rule(ctx) returns, its call ends, or starts again at its place.     *)
LEMMA ReturnCalls ==
  ASSUME IInv, NEW c \in Results(Top), Return(c)
  PROVE  /\ frames # <<>> /\ pos' = pos /\ buf' = buf /\ inlen' = inlen
         /\ \/ ctl' = "ret" /\ PopFrame
            \/ /\ ctl' = "body" /\ c # None
               /\ \E h : frames' = [frames EXCEPT ![Len(frames)] = Regrown(h)]
<1>1. frames # <<>> /\ ctl = "body"
  BY DEF Return, ReturnHeld, ReturnPlain, ReturnInvolved, ReturnNoSeed, ReturnSeed,
         GrowAgain, GrowStop, InBody, IInv, Control
<1>2. CASE ReturnHeld(c)
  BY <1>1, <1>2 DEF ReturnHeld, Answering
<1>3. CASE ReturnPlain(c)
  BY <1>1, <1>3 DEF ReturnPlain, Answering
<1>4. CASE ReturnInvolved(c)
  BY <1>1, <1>4 DEF ReturnInvolved, Answering
<1>5. CASE ReturnNoSeed(c)
  BY <1>1, <1>5 DEF ReturnNoSeed, Answering
<1>6. CASE ReturnSeed(c)
  BY <1>1, <1>6 DEF ReturnSeed, GrowFrom, Regrown
<1>7. CASE GrowAgain(c)
  BY <1>1, <1>7 DEF GrowAgain, Grew, GrowFrom, Regrown
<1>8. CASE GrowStop(c)
  BY <1>1, <1>8 DEF GrowStop, Answering
<1> QED BY <1>2, <1>3, <1>4, <1>5, <1>6, <1>7, <1>8 DEF Return

-----------------------------------------------------------------------------
(* Every step of a generated parser is one of the run time.                 *)

(* The places that a body reads lie in the input.                           *)
LEMMA ScanPlaces ==
  ASSUME IInv, NEW c, NEW b, Scan(c, b)
  PROVE  c \in Index /\ b \in Index
<1>1. frames # <<>>
  BY DEF Scan, InBody, IInv, Control
<1>2. Top.at \in Nat /\ pos <= Top.at
  BY <1>1, TopCall, EachCall DEF CallOK
<1>3. b \in buf .. inlen - pos /\ c \in Top.at - pos .. b
  BY DEF Scan
<1> QED BY <1>2, <1>3, Places DEF Index

(* The run time's part of a step.                                           *)
LEMMA RuntimeSteps ==
  ASSUME ParserInv, [ParserNext]_<<vars, pvars>>
  PROVE  [Next]_vars
<1> USE DEF Next
<1>1. IInv
  BY DEF ParserInv
<1>2. CASE DoMatch
  BY <1>1, <1>2, ScanPlaces DEF DoMatch
<1>3. CASE DoExpand
  BY <1>1, <1>3, ScanPlaces DEF DoExpand
<1>4. CASE DoRestore
  BY <1>1, <1>4, ScanPlaces DEF DoRestore
<1>5. CASE DoSave \/ DoJump \/ DoCount \/ DoCapture \/ DoAction \/ DoErrorAction
  BY <1>5 DEF DoSave, DoJump, DoCount, DoCapture, DoAction, DoErrorAction, CtxSame
<1>6. CASE DoApply
  <2>1. BodyApply(Ins.rule) /\ ctl = "body" /\ Ins.op = "apply"
    BY <1>6 DEF DoApply, At, InBody
  <2>2. frames # <<>>
    BY <1>1, <2>1 DEF IInv, Control
  <2>3. Ins.rule \in Rules
    BY <2>1, <2>2, Running DEF Compiles, Ins
  <2> QED BY <2>1, <2>3
<1>7. CASE DoResume
  BY <1>7 DEF DoResume
<1>8. CASE DoReturn
  <2>1. InBody /\ \E c \in {None, NewChunk(Top)} : Return(c)
    BY <1>8 DEF DoReturn, At
  <2> QED BY <2>1 DEF Results
<1>9. CASE DoParseCall
  BY <1>9 DEF DoParseCall
<1>10. CASE DoParseReturn
  BY <1>10 DEF DoParseReturn
<1>11. CASE DoParseError
  BY <1>11 DEF DoParseError
<1>12. CASE Stop \/ UNCHANGED <<vars, pvars>>
  BY <1>12 DEF Stop
<1> QED BY <1>2, <1>3, <1>4, <1>5, <1>6, <1>7, <1>8, <1>9, <1>10, <1>11, <1>12 DEF ParserNext

-----------------------------------------------------------------------------
(* What a step does to the C frames.                                        *)

(* A function that keeps its place and its variables stays right.           *)
Unmoved(k) == /\ k \in 1 .. Len(frames) /\ bodies'[k] = bodies[k]
              /\ frames'[k].at = frames[k].at /\ frames'[k].rule = frames[k].rule

LEMMA BodiesKeep ==
  ASSUME ParserInv, prog' = prog, pos' = pos, buf' \in Nat, buf <= buf',
         \A k \in 1 .. Len(frames') :
           Unmoved(k) \/ BodyOK(bodies'[k], CodeOf(frames'[k]), frames'[k].at - pos, buf')
  PROVE  Bodies'
<1> SUFFICES ASSUME NEW k \in 1 .. Len(frames')
             PROVE  BodyOK(bodies'[k], CodeOf(frames'[k]), frames'[k].at - pos, buf')
  BY DEF Bodies, CodeOf
<1>1. CASE Unmoved(k)
  <2>1. BodyOK(bodies[k], CodeOf(frames[k]), frames[k].at - pos, buf)
    BY <1>1 DEF Unmoved, ParserInv, Bodies
  <2>2. frames[k].at - pos \in Int /\ buf \in Int
    BY <1>1, Places, EachCall DEF Unmoved, ParserInv
  <2>3. Within(bodies[k], frames[k].at - pos, buf')
    BY <2>1, <2>2, WithinMore DEF BodyOK
  <2> QED BY <1>1, <2>1, <2>3 DEF Unmoved, BodyOK, CodeOf
<1> QED BY <1>1

(* The function that runs changes its own variables.                        *)
LEMMA RunKeeps ==
  ASSUME ParserInv, IInv', frames # <<>>, NEW b, Run(b), prog' = prog, pos' = pos,
         buf <= buf', ctl' # "ret", Len(frames') = Len(frames),
         \A k \in 1 .. Len(frames) :
           frames'[k].at = frames[k].at /\ frames'[k].rule = frames[k].rule,
         BodyOK(b, Code, Top.at - pos, buf')
  PROVE  ParserInv'
<1>1. /\ Len(frames) \in Nat /\ Len(frames) > 0 /\ Len(bodies) = Len(frames)
      /\ Code = CodeOf(Top) /\ Top = frames[Len(frames)] /\ Len(frames) \in 1 .. Len(frames)
  BY Running, TopCall DEF ParserInv
<1>2. /\ AnySeq(bodies') /\ Len(bodies') = Len(frames')
      /\ \A k \in 1 .. Len(frames) - 1 : bodies'[k] = bodies[k]
      /\ bodies'[Len(frames)] = b
  <2>1. AnySeq(bodies) /\ bodies' = [bodies EXCEPT ![Len(bodies)] = b]
    BY DEF Run, ParserInv
  <2>2. /\ AnySeq(bodies') /\ Len(bodies') = Len(bodies)
        /\ \A k \in 1 .. Len(bodies) - 1 : bodies'[k] = bodies[k]
        /\ bodies'[Len(bodies)] = b
    <3> DEFINE q == [bodies EXCEPT ![Len(bodies)] = b]
    <3>1. Len(bodies) > 0
      BY <1>1
    <3>2. /\ AnySeq(q) /\ Len(q) = Len(bodies)
          /\ \A k \in 1 .. Len(bodies) - 1 : q[k] = bodies[k]
          /\ q[Len(bodies)] = b
      BY <2>1, <3>1, AnyReplaced
    <3>3. bodies' = q
      BY <2>1
    <3> HIDE DEF q
    <3> QED BY <3>2, <3>3
  <2> QED BY <1>1, <2>2
<1>3. buf' \in Nat
  BY Places, BoundsAssumption DEF IInv, TypeOK, Index
<1>4. Bodies'
  <2>1. ASSUME NEW k \in 1 .. Len(frames')
        PROVE  Unmoved(k) \/ BodyOK(bodies'[k], CodeOf(frames'[k]), frames'[k].at - pos, buf')
    <3>1. CASE k = Len(frames)
      <4>1. bodies'[k] = b /\ frames'[k].at = Top.at /\ CodeOf(frames'[k]) = Code
        BY <3>1, <1>1, <1>2 DEF CodeOf
      <4> QED BY <4>1
    <3>2. CASE k \in 1 .. Len(frames) - 1
      BY <3>2, <1>1, <1>2 DEF Unmoved
    <3> QED BY <3>1, <3>2, <1>1
  <2> QED BY <2>1, <1>3, BodiesKeep
<1>5. Waiting'
  <2>1. ASSUME NEW k \in 1 .. Len(frames), k < Len(frames)
        PROVE  Applying(k)'
    <3>1. Applying(k)
      BY <2>1 DEF ParserInv, Waiting
    <3>2. bodies'[k] = bodies[k] /\ frames'[k].rule = frames[k].rule
      BY <2>1, <1>1, <1>2
    <3> QED BY <3>1, <3>2 DEF Applying, CodeOf
  <2> QED BY <2>1 DEF Waiting
<1> QED BY <1>2, <1>4, <1>5 DEF ParserInv

(* Nothing changes in the C frames.                                         *)
LEMMA SameKeeps ==
  ASSUME ParserInv, IInv', prog' = prog, pos' = pos, buf' = buf,
         bodies' = bodies, frames' = frames,
         frames # <<>> /\ ctl' = "ret" => Ins.op = "apply"
  PROVE  ParserInv'
<1>1. Bodies'
  BY DEF ParserInv, Bodies, CodeOf
<1>2. Waiting'
  <2>1. ASSUME NEW k \in 1 .. Len(frames), k < Len(frames) \/ ctl' = "ret"
        PROVE  Applying(k)
    <3>1. CASE k < Len(frames)
      BY <3>1 DEF ParserInv, Waiting
    <3>2. CASE k = Len(frames) /\ ctl' = "ret"
      <4>1. frames # <<>>
        BY <3>2 DEF ParserInv, IInv, TypeOK
      <4> QED BY <3>2, <4>1, TopApplies
    <3>3. Len(frames) \in Nat
      BY DEF ParserInv, IInv, TypeOK
    <3> QED BY <2>1, <3>1, <3>2, <3>3
  <2> QED BY <2>1 DEF Waiting, Applying, CodeOf
<1> QED BY <1>1, <1>2 DEF ParserInv

(* A rule function is called by another one, at an application.             *)
LEMMA PushKeeps ==
  ASSUME ParserInv, IInv', prog' = prog, pos' = pos, buf' = buf, ctl' = "body",
         NEW r \in Rules, NEW m, frames' = Append(frames, Opened(r, m)),
         bodies' = Append(bodies, NewBody), frames # <<>> => Ins.op = "apply"
  PROVE  ParserInv'
<1>1. AnySeq(frames) /\ AnySeq(bodies) /\ Len(bodies) = Len(frames)
  BY Anywhere DEF ParserInv, IInv, TypeOK
<1>2. /\ Len(frames) \in Nat /\ Len(frames') = Len(frames) + 1
      /\ \A k \in 1 .. Len(frames) : frames'[k] = frames[k]
      /\ frames'[Len(frames) + 1] = Opened(r, m)
  BY <1>1, AnyPushed
<1>3. /\ AnySeq(bodies') /\ Len(bodies') = Len(frames')
      /\ \A k \in 1 .. Len(frames) : bodies'[k] = bodies[k]
      /\ bodies'[Len(frames) + 1] = NewBody
  <2>1. /\ AnySeq(bodies') /\ Len(bodies') = Len(bodies) + 1
        /\ \A k \in 1 .. Len(bodies) : bodies'[k] = bodies[k]
        /\ bodies'[Len(bodies) + 1] = NewBody
    <3> DEFINE q == Append(bodies, NewBody)
    <3>1. /\ AnySeq(q) /\ Len(q) = Len(bodies) + 1
          /\ \A k \in 1 .. Len(bodies) : q[k] = bodies[k]
          /\ q[Len(bodies) + 1] = NewBody
      BY <1>1, AnyPushed
    <3>2. bodies' = q
      OBVIOUS
    <3> HIDE DEF q
    <3> QED BY <3>1, <3>2
  <2> QED BY <1>1, <1>2, <2>1
<1>4. Bodies'
  <2>1. ASSUME NEW k \in 1 .. Len(frames')
        PROVE  Unmoved(k) \/ BodyOK(bodies'[k], CodeOf(frames'[k]), frames'[k].at - pos, buf')
    <3>1. CASE k = Len(frames) + 1
      <4>1. frames'[k] \in Frame
        BY DEF IInv, TypeOK
      <4> QED BY <3>1, <4>1, <1>3, AllCompiles, NewBodyOK
    <3>2. CASE k \in 1 .. Len(frames)
      BY <3>2, <1>2, <1>3 DEF Unmoved
    <3>3. k = Len(frames) + 1 \/ k \in 1 .. Len(frames)
      BY ONLY <1>2, k \in 1 .. Len(frames')
    <3> QED BY <3>1, <3>2, <3>3
  <2> QED BY <2>1, BodiesKeep, Places DEF ParserInv
<1>5. Waiting'
  <2>1. ASSUME NEW k \in 1 .. Len(frames)
        PROVE  Applying(k)'
    <3>1. Applying(k)
      <4>1. CASE k < Len(frames)
        BY <4>1 DEF ParserInv, Waiting
      <4>2. CASE k = Len(frames)
        <5>1. frames # <<>>
          BY <4>2, <1>2 DEF ParserInv, IInv, TypeOK
        <5> QED BY <4>2, <5>1, TopApplies
      <4> QED BY <4>1, <4>2, <1>2
    <3> QED BY <3>1, <1>2, <1>3 DEF Applying, CodeOf
  <2> QED BY <2>1, <1>2 DEF Waiting
<1> QED BY <1>3, <1>4, <1>5 DEF ParserInv

(* A rule function returns to the one that called it.                       *)
LEMMA PopKeeps ==
  ASSUME ParserInv, IInv', frames # <<>>, prog' = prog, pos' = pos, buf' = buf, PopFrame,
         bodies' = SubSeq(bodies, 1, Len(bodies) - 1)
  PROVE  ParserInv'
<1>1. AnySeq(frames) /\ AnySeq(bodies) /\ Len(bodies) = Len(frames) /\ Len(frames) > 0
  BY Anywhere, Running DEF ParserInv, IInv, TypeOK
<1>2. /\ Len(frames) \in Nat /\ Len(frames') = Len(frames) - 1
      /\ \A k \in 1 .. Len(frames) - 1 : frames'[k] = frames[k]
  BY <1>1, AnyPopped DEF PopFrame
<1>3. /\ AnySeq(bodies') /\ Len(bodies') = Len(frames')
      /\ \A k \in 1 .. Len(frames) - 1 : bodies'[k] = bodies[k]
  BY <1>1, <1>2, AnyPopped
<1>4. Bodies'
  <2>1. \A k \in 1 .. Len(frames') : Unmoved(k)
    BY <1>1, <1>2, <1>3 DEF Unmoved
  <2> QED BY <2>1, BodiesKeep, Places DEF ParserInv
<1>5. Waiting'
  <2>1. ASSUME NEW k \in 1 .. Len(frames')
        PROVE  Applying(k)'
    <3>1. k \in 1 .. Len(frames) /\ k < Len(frames) /\ k \in 1 .. Len(frames) - 1
      BY <1>2
    <3>2. Applying(k)
      BY <3>1 DEF ParserInv, Waiting
    <3> QED BY <3>1, <3>2, <1>2, <1>3 DEF Applying, CodeOf
  <2> QED BY <2>1 DEF Waiting
<1> QED BY <1>3, <1>4, <1>5 DEF ParserInv

(* No rule function runs.                                                   *)
LEMMA NoneKeeps ==
  ASSUME ParserInv, IInv', frames' = <<>>, bodies' = bodies, frames = <<>>, prog' = prog
  PROVE  ParserInv'
<1>1. Bodies' /\ Waiting'
  BY DEF Bodies, Waiting
<1> QED BY <1>1 DEF ParserInv

-----------------------------------------------------------------------------
(* The instructions of a rule function.                                     *)

(* What an instruction may make of the frame of its function.               *)
Amends(c) == /\ IsBody(c)
             /\ c.pc \in Onward(Code, Body.pc)
             /\ DOMAIN Body.saved \subseteq DOMAIN c.saved
             /\ Ins.op = "save" => Ins.v \in DOMAIN c.saved

(* Such a frame is right if its positions are.                              *)
LEMMA AmendsRight ==
  ASSUME ParserInv, frames # <<>>, NEW c, Amends(c), NEW to, Within(c, Top.at - pos, to)
  PROVE  BodyOK(c, Code, Top.at - pos, to)
<1>1. Located(Body, Code) /\ Compiles(Code, Rules)
  BY Running DEF BodyOK
<1>2. Located(c, Code)
  BY <1>1, GoesOn DEF Amends, Ins
<1> QED BY <1>2 DEF BodyOK, Amends

(* Going on to the next instruction, or behind a label.                     *)
GoingTo(c) == \/ c = Step /\ Ins.op \notin {"goto", "count", "chunk", "null"}
              \/ \E l \in Jumps(Ins) : c = Jump(l)

LEMMA GoingOn ==
  ASSUME ParserInv, frames # <<>>, NEW c, GoingTo(c)
  PROVE  /\ IsBody(c) /\ c.pc \in Onward(Code, Body.pc)
         /\ c.saved = Body.saved /\ c.capts = Body.capts
<1>1. IsBody(Body)
  BY Running
<1>2. CASE c = Step /\ Ins.op \notin {"goto", "count", "chunk", "null"}
  <2>1. c.pc = Body.pc + 1 /\ IsBody(c) /\ c.saved = Body.saved /\ c.capts = Body.capts
    BY <1>1, <1>2 DEF Step, IsBody
  <2> QED BY <2>1, <1>2 DEF Onward, Ins
<1>3. CASE \E l \in Jumps(Ins) : c = Jump(l)
  <2>1. PICK l \in Jumps(Ins) : c = Jump(l)
    BY <1>3
  <2>2. c.pc = Behind(Code, l) /\ IsBody(c) /\ c.saved = Body.saved /\ c.capts = Body.capts
    BY <1>1, <2>1 DEF Jump, IsBody
  <2> QED BY <2>1, <2>2 DEF Onward, Ins
<1> QED BY <1>2, <1>3 DEF GoingTo

(* Other thunks in a frame change nothing else of it.                       *)
LEMMA ThunksOnly ==
  ASSUME NEW b, IsBody(b), NEW t
  PROVE  LET c == [b EXCEPT !.thunks = t] IN
         IsBody(c) /\ c.pc = b.pc /\ c.saved = b.saved /\ c.capts = b.capts
  BY DEF IsBody

(* The run time's part of reading: places move, calls stay.                 *)
LEMMA Scanned ==
  ASSUME ParserInv, NEW c, NEW b, Scan(c, b)
  PROVE  /\ frames # <<>> /\ frames' = frames /\ pos' = pos /\ ctl' = "body"
         /\ cur' = c /\ buf' = b /\ buf <= buf' /\ buf' \in Nat
<1>1. frames # <<>> /\ ctl = "body"
  BY DEF Scan, InBody, ParserInv, IInv, Control
<1>2. b \in Index /\ b \in buf .. inlen - pos
  BY ScanPlaces DEF ParserInv, Scan
<1>3. buf <= b /\ b \in Nat
  BY <1>2, Places DEF ParserInv, Index
<1> QED BY <1>1, <1>3 DEF Scan

(* Reading and backtracking.                                                *)
LEMMA ReadingKeeps ==
  ASSUME ParserInv, IInv', NEW p, NEW b, Scan(p, b), NEW c, Run(c), prog' = prog,
         Amends(c), c.saved = Body.saved, c.capts = Body.capts
  PROVE  ParserInv'
<1>1. /\ frames # <<>> /\ frames' = frames /\ pos' = pos /\ ctl' = "body"
      /\ buf <= buf' /\ buf' \in Nat
  BY Scanned
<1>2. BodyOK(Body, Code, Top.at - pos, buf) /\ Top.at - pos \in Int /\ buf \in Int
  BY <1>1, Running
<1>3. Within(Body, Top.at - pos, buf')
  BY <1>1, <1>2, WithinMore DEF BodyOK
<1>4. Within(c, Top.at - pos, buf')
  BY <1>3 DEF Within
<1>5. BodyOK(c, Code, Top.at - pos, buf')
  BY <1>1, <1>4, AmendsRight
<1> QED BY <1>1, <1>5, RunKeeps

(* Instructions that leave the context alone.                               *)
LEMMA LocalKeeps ==
  ASSUME ParserInv, IInv', InBody, CtxSame, NEW c, Run(c), prog' = prog,
         Amends(c), Within(c, Top.at - pos, buf)
  PROVE  ParserInv'
<1>1. frames # <<>> /\ ctl = "body"
  BY DEF InBody, ParserInv, IInv, Control
<1>2. frames' = frames /\ pos' = pos /\ buf' = buf /\ ctl' = ctl
  BY DEF CtxSame, vars
<1>3. BodyOK(c, Code, Top.at - pos, buf')
  BY <1>1, <1>2, AmendsRight
<1>4. buf <= buf'
  BY <1>1, <1>2, Running
<1> QED BY <1>1, <1>2, <1>3, <1>4, RunKeeps

(* The variables of the frame that runs.                                    *)
LEMMA RunningWithin ==
  ASSUME ParserInv, frames # <<>>
  PROVE  /\ Within(Body, Top.at - pos, buf)
         /\ cur \in Top.at - pos .. buf
         /\ Ins.op \in {"restore", "still", "capture"} =>
              Ins.v \in DOMAIN Body.saved /\ Body.saved[Ins.v].p \in Top.at - pos .. buf
<1>1. /\ BodyOK(Body, Code, Top.at - pos, buf) /\ Compiles(Code, Rules) /\ Body.pc \in DOMAIN Code
      /\ Top.at - pos \in Nat /\ Top.at - pos <= cur /\ cur <= buf /\ cur \in Nat /\ buf \in Nat
  BY Running
<1>2. ASSUME Ins.op \in {"restore", "still", "capture"}
      PROVE  Ins.v \in DOMAIN Body.saved
  <2>1. PICK j \in DOMAIN Code, e \in DOMAIN Code :
          Body.pc \in j + 1 .. e /\ InScope(Code, j, e) /\ Code[j] = Save(Ins.v)
    BY <1>1, <1>2 DEF Compiles, Ins
  <2>2. Code[j].op = "save" /\ Code[j].v = Ins.v
    BY <2>1 DEF Save
  <2> QED BY <1>1, <2>1, <2>2 DEF BodyOK, Located
<1> QED BY <1>1, <1>2 DEF BodyOK, Within

(* Matching a character or a string.                                        *)
LEMMA MatchKeeps ==
  ASSUME ParserInv, IInv', DoMatch \/ DoExpand
  PROVE  ParserInv'
<1>1. PICK p, b, c : Scan(p, b) /\ Run(c) /\ (c = Step \/ c = Jump(Ins.l))
  <2>1. ASSUME NEW ok, NEW p, NEW b, Scan(p, b), Run(IF ok THEN Step ELSE Jump(Ins.l))
        PROVE  \E q, d, c : Scan(q, d) /\ Run(c) /\ (c = Step \/ c = Jump(Ins.l))
    <3>1. CASE ok
      BY <2>1, <3>1
    <3>2. CASE ~ ok
      BY <2>1, <3>2
    <3> QED BY <3>1, <3>2
  <2>2. CASE DoMatch
    BY <2>1, <2>2, Zenon DEF DoMatch
  <2>3. CASE DoExpand
    BY <2>1, <2>3, Zenon DEF DoExpand
  <2> QED BY <2>2, <2>3
<1>2. prog' = prog /\ Ins.op \in {"match", "expand"}
  BY DEF DoMatch, DoExpand, Quiet, At
<1>3. frames # <<>>
  BY <1>1, Scanned
<1>4. GoingTo(c)
  BY <1>1, <1>2 DEF GoingTo, Jumps
<1>5. /\ IsBody(c) /\ c.pc \in Onward(Code, Body.pc)
      /\ c.saved = Body.saved /\ c.capts = Body.capts
  BY <1>2, <1>3, <1>4, GoingOn
<1>6. Amends(c)
  BY <1>2, <1>5 DEF Amends
<1> QED BY <1>1, <1>2, <1>5, <1>6, ReadingKeeps

(* Backtracking.                                                            *)
LEMMA RestoreKeeps ==
  ASSUME ParserInv, IInv', DoRestore
  PROVE  ParserInv'
<1> DEFINE s == Body.saved[Ins.v]
           c == [Step EXCEPT !.thunks = SubSeq(@, 1, s.n)]
<1>1. Scan(s.p, buf) /\ Run(c) /\ prog' = prog /\ Ins.op = "restore"
  <2>1. Scan(s.p, buf) /\ Run(c) /\ Quiet /\ At("restore")
    BY Zenon DEF DoRestore
  <2> QED BY <2>1 DEF Quiet, At
<1>2. frames # <<>>
  BY <1>1, Scanned
<1>3. GoingTo(Step)
  BY <1>1 DEF GoingTo
<1>4. /\ IsBody(Step) /\ Step.pc \in Onward(Code, Body.pc)
      /\ Step.saved = Body.saved /\ Step.capts = Body.capts
  BY <1>1, <1>2, <1>3, GoingOn
<1>5. /\ IsBody(c) /\ c.pc \in Onward(Code, Body.pc)
      /\ c.saved = Body.saved /\ c.capts = Body.capts
  <2>1. IsBody(c) /\ c.pc = Step.pc /\ c.saved = Step.saved /\ c.capts = Step.capts
    BY <1>4, ThunksOnly, Zenon
  <2> QED BY <1>4, <2>1
<1> HIDE DEF s, c
<1>6. Amends(c)
  BY <1>1, <1>5 DEF Amends
<1> QED BY <1>1, <1>5, <1>6, ReadingKeeps

(* Setting p and n.                                                         *)
LEMMA SaveKeeps ==
  ASSUME ParserInv, IInv', DoSave
  PROVE  ParserInv'
<1> DEFINE e == [p |-> cur, n |-> Len(Body.thunks)]
           c == [Step EXCEPT !.saved = Set(@, Ins.v, e)]
<1>1. Run(c) /\ prog' = prog /\ Ins.op = "save" /\ CtxSame /\ InBody /\ frames # <<>>
  BY DEF DoSave, Quiet, At, InBody, ParserInv, IInv, Control
<1>2. GoingTo(Step)
  BY <1>1 DEF GoingTo
<1>3. /\ IsBody(Step) /\ Step.pc \in Onward(Code, Body.pc)
      /\ Step.saved = Body.saved /\ Step.capts = Body.capts
  BY <1>1, <1>2, GoingOn
<1>4. /\ IsBody(c) /\ c.pc \in Onward(Code, Body.pc)
      /\ c.saved = Set(Body.saved, Ins.v, e) /\ c.capts = Body.capts
  BY <1>3 DEF IsBody
<1> HIDE DEF c
<1>5. /\ DOMAIN c.saved = DOMAIN Body.saved \cup {Ins.v}
      /\ \A v \in DOMAIN c.saved : c.saved[v].p = IF v = Ins.v THEN cur ELSE Body.saved[v].p
  BY <1>4 DEF Set
<1>6. Amends(c)
  BY <1>4, <1>5 DEF Amends
<1>7. Within(c, Top.at - pos, buf)
  BY <1>1, <1>4, <1>5, RunningWithin DEF Within
<1> QED BY <1>1, <1>6, <1>7, LocalKeeps

(* Branching.                                                               *)
LEMMA JumpKeeps ==
  ASSUME ParserInv, IInv', DoJump
  PROVE  ParserInv'
<1>1. /\ prog' = prog /\ CtxSame /\ InBody /\ frames # <<>>
      /\ Ins.op \in {"goto", "label", "under", "still"}
  BY DEF DoJump, Quiet, At, InBody, ParserInv, IInv, Control
<1>2. PICK c : Run(c) /\ GoingTo(c)
  <2>1. CASE Ins.op = "goto"
    <3>1. Run(Jump(Ins.l))
      BY <2>1 DEF DoJump, At
    <3>2. GoingTo(Jump(Ins.l))
      BY <2>1 DEF GoingTo, Jumps
    <3> QED BY <3>1, <3>2
  <2>2. CASE Ins.op = "label"
    <3>1. Run(Step)
      BY <2>2 DEF DoJump, At
    <3> QED BY <2>2, <3>1 DEF GoingTo
  <2>3. CASE Ins.op \in {"under", "still"}
    <3>1. \E c \in {Step, Jump(Ins.l)} : Run(c)
      BY <2>3 DEF DoJump, At
    <3>2. GoingTo(Step) /\ GoingTo(Jump(Ins.l))
      BY <2>3 DEF GoingTo, Jumps
    <3> QED BY <3>1, <3>2
  <2> QED BY <1>1, <2>1, <2>2, <2>3
<1>3. /\ IsBody(c) /\ c.pc \in Onward(Code, Body.pc)
      /\ c.saved = Body.saved /\ c.capts = Body.capts
  BY <1>1, <1>2, GoingOn
<1>4. Amends(c) /\ Within(c, Top.at - pos, buf)
  BY <1>1, <1>3, RunningWithin DEF Amends, Within
<1> QED BY <1>1, <1>2, <1>4, LocalKeeps
(* Counting the iterations of a loop.                                       *)
LEMMA CountKeeps ==
  ASSUME ParserInv, IInv', DoCount
  PROVE  ParserInv'
<1>1. /\ prog' = prog /\ CtxSame /\ InBody /\ frames # <<>> /\ Ins.op \in {"zero", "count"}
  BY DEF DoCount, Quiet, At, InBody, ParserInv, IInv, Control
<1>2. PICK b, n : Run([b EXCEPT !.count = n]) /\ GoingTo(b)
  <2>1. CASE Ins.op = "zero"
    <3>1. Run([Step EXCEPT !.count = Set(@, Ins.v, 0)]) /\ GoingTo(Step)
      BY <2>1 DEF DoCount, At, GoingTo
    <3>2. \E n : Run([Step EXCEPT !.count = n])
      BY <3>1, Zenon
    <3> QED BY <3>1, <3>2
  <2>2. CASE Ins.op = "count"
    <3>1. Run([Jump(Ins.l) EXCEPT !.count[Ins.v] = @ + 1]) /\ GoingTo(Jump(Ins.l))
      BY <2>2 DEF DoCount, At, GoingTo, Jumps
    <3>2. \E n : Run([Jump(Ins.l) EXCEPT !.count = n])
      BY <3>1
    <3> QED BY <3>1, <3>2
  <2> QED BY <1>1, <2>1, <2>2
<1> DEFINE c == [b EXCEPT !.count = n]
<1>3. /\ IsBody(b) /\ b.pc \in Onward(Code, Body.pc)
      /\ b.saved = Body.saved /\ b.capts = Body.capts
  BY <1>1, <1>2, GoingOn
<1>4. /\ IsBody(c) /\ c.pc \in Onward(Code, Body.pc)
      /\ c.saved = Body.saved /\ c.capts = Body.capts
  BY <1>3 DEF IsBody
<1>5. Run(c)
  BY <1>2
<1> HIDE DEF c
<1>6. Amends(c) /\ Within(c, Top.at - pos, buf)
  BY <1>1, <1>4, RunningWithin DEF Amends, Within
<1> QED BY <1>1, <1>5, <1>6, LocalKeeps

(* A capture, as it is and where it is not set yet.                         *)
LEMMA Captures ==
  ASSUME NEW b, NEW from, NEW to, Within(b, from, to), NEW k
  PROVE  LET c == CaptureOf(b.capts, k) IN
         IsCapture(c) /\ {c.start, c.end} \subseteq (from .. to) \cup {0}
<1>1. CASE k \in DOMAIN b.capts
  BY <1>1 DEF Within, CaptureOf
<1>2. CASE k \notin DOMAIN b.capts
  BY <1>2 DEF CaptureOf, Unset, IsCapture
<1> QED BY <1>1, <1>2

(* The frame that runs, at the next instruction and with captures d.        *)
LEMMA CapturesOnly ==
  ASSUME ParserInv, frames # <<>>, NEW d, Ins.op \in {"capture", "error"},
         \A k \in DOMAIN d :
           IsCapture(d[k]) /\ {d[k].start, d[k].end} \subseteq (Top.at - pos .. buf) \cup {0}
  PROVE  LET c == [Step EXCEPT !.capts = d] IN Amends(c) /\ Within(c, Top.at - pos, buf)
<1> DEFINE c == [Step EXCEPT !.capts = d]
<1>1. GoingTo(Step)
  BY DEF GoingTo
<1>2. IsBody(Step) /\ Step.pc \in Onward(Code, Body.pc) /\ Step.saved = Body.saved
  BY <1>1, GoingOn
<1>3. IsBody(c) /\ c.pc = Step.pc /\ c.saved = Body.saved /\ c.capts = d
  BY <1>2 DEF IsBody
<1> HIDE DEF c
<1>4. Amends(c)
  BY <1>2, <1>3 DEF Amends
<1>5. Within(c, Top.at - pos, buf)
  BY <1>3, RunningWithin DEF Within
<1> QED BY <1>4, <1>5 DEF c

(* Capturing a text.                                                        *)
LEMMA CaptureKeeps ==
  ASSUME ParserInv, IInv', DoCapture
  PROVE  ParserInv'
<1> DEFINE p == Body.saved[Ins.v].p
           e == [CaptureOf(Body.capts, Ins.k) EXCEPT !.start = p, !.end = cur]
           d == Set(Body.capts, Ins.k, e)
           c == [Step EXCEPT !.capts = d]
<1>1. prog' = prog /\ CtxSame /\ InBody /\ frames # <<>> /\ Ins.op = "capture"
  BY DEF DoCapture, Quiet, At, InBody, ParserInv, IInv, Control
<1>2. Step.capts = Body.capts
  <2>1. GoingTo(Step)
    BY <1>1 DEF GoingTo
  <2> QED BY <1>1, <2>1, GoingOn
<1>3. Run(c)
  BY <1>2, Zenon DEF DoCapture
<1>4. Within(Body, Top.at - pos, buf) /\ {p, cur} \subseteq Top.at - pos .. buf
  BY <1>1, RunningWithin
<1>5. IsCapture(e) /\ e.start = p /\ e.end = cur
  <2> DEFINE s == CaptureOf(Body.capts, Ins.k)
             m == [s EXCEPT !.start = p]
             a == [m EXCEPT !.end = cur]
  <2>1. IsCapture(s)
    BY <1>4, Captures
  <2>2. a = e
    OBVIOUS
  <2> HIDE DEF e, p, s
  <2>3. IsCapture(m) /\ m.start = p
    BY <2>1 DEF IsCapture
  <2> HIDE DEF m
  <2>4. IsCapture(a) /\ a.start = p /\ a.end = cur
    BY <2>3 DEF IsCapture
  <2> HIDE DEF a
  <2> QED BY <2>2, <2>4
<1> HIDE DEF e, p
<1>6. ASSUME NEW k \in DOMAIN d
      PROVE  IsCapture(d[k]) /\ {d[k].start, d[k].end} \subseteq (Top.at - pos .. buf) \cup {0}
  <2>1. d[k] = e \/ (k \in DOMAIN Body.capts /\ d[k] = Body.capts[k])
    <3>1. d = [x \in DOMAIN Body.capts \cup {Ins.k} |-> IF x = Ins.k THEN e ELSE Body.capts[x]]
      BY Zenon DEF Set
    <3> HIDE DEF d
    <3> QED BY <3>1
  <2> HIDE DEF d
  <2> QED BY <2>1, <1>4, <1>5 DEF Within
<1> HIDE DEF d
<1>7. Amends(c) /\ Within(c, Top.at - pos, buf)
  BY <1>1, <1>6, CapturesOnly
<1> HIDE DEF c
<1> QED BY <1>1, <1>3, <1>7, LocalKeeps

(* An action's thunk.                                                       *)
LEMMA ActionKeeps ==
  ASSUME ParserInv, IInv', DoAction
  PROVE  ParserInv'
<1> DEFINE c == [Step EXCEPT !.thunks = Append(@, Leaf)]
<1>1. prog' = prog /\ CtxSame /\ InBody /\ frames # <<>> /\ Ins.op = "action"
  BY DEF DoAction, Quiet, At, InBody, ParserInv, IInv, Control
<1>2. Run(c)
  BY Zenon DEF DoAction
<1>3. GoingTo(Step)
  BY <1>1 DEF GoingTo
<1>4. /\ IsBody(Step) /\ Step.pc \in Onward(Code, Body.pc)
      /\ Step.saved = Body.saved /\ Step.capts = Body.capts
  BY <1>1, <1>3, GoingOn
<1>5. IsBody(c) /\ c.pc = Step.pc /\ c.saved = Step.saved /\ c.capts = Step.capts
  BY <1>4, ThunksOnly, Zenon
<1> HIDE DEF c
<1>6. Amends(c) /\ Within(c, Top.at - pos, buf)
  BY <1>1, <1>4, <1>5, RunningWithin DEF Amends, Within
<1> QED BY <1>1, <1>2, <1>6, LocalKeeps

(* An error action: the strings it asks for move no capture.                *)
LEMMA ErrorActionKeeps ==
  ASSUME ParserInv, IInv', DoErrorAction
  PROVE  ParserInv'
<1> DEFINE d == [k \in DOMAIN Body.capts \cup Ins.capts |->
                   IF k \in Ins.capts THEN Asked(CaptureOf(Body.capts, k)) ELSE Body.capts[k]]
           c == [Step EXCEPT !.capts = d]
<1>1. prog' = prog /\ CtxSame /\ InBody /\ frames # <<>> /\ Ins.op = "error"
  BY DEF DoErrorAction, At, InBody, ParserInv, IInv, Control
<1>2. Run(c)
  BY Zenon DEF DoErrorAction
<1>3. Within(Body, Top.at - pos, buf)
  BY <1>1, RunningWithin
<1>4. ASSUME NEW k, NEW s, IsCapture(s)
      PROVE  IsCapture(Asked(s)) /\ Asked(s).start = s.start /\ Asked(s).end = s.end
  <2>1. ASSUME NEW t
        PROVE  LET a == [s EXCEPT !.string = t] IN
               IsCapture(a) /\ a.start = s.start /\ a.end = s.end
    BY <1>4 DEF IsCapture
  <2> QED BY <2>1, Zenon DEF Asked
<1>5. ASSUME NEW k \in DOMAIN d
      PROVE  IsCapture(d[k]) /\ {d[k].start, d[k].end} \subseteq (Top.at - pos .. buf) \cup {0}
  <2>1. CASE k \in Ins.capts
    <3>1. d[k] = Asked(CaptureOf(Body.capts, k))
      BY <2>1
    <3> HIDE DEF d
    <3> QED BY <3>1, <1>3, <1>4, Captures
  <2>2. CASE k \notin Ins.capts
    <3>1. k \in DOMAIN Body.capts /\ d[k] = Body.capts[k]
      BY <2>2
    <3> HIDE DEF d
    <3> QED BY <3>1, <1>3 DEF Within
  <2> QED BY <2>1, <2>2
<1> HIDE DEF d
<1>6. Amends(c) /\ Within(c, Top.at - pos, buf)
  BY <1>1, <1>5, CapturesOnly
<1> HIDE DEF c
<1> QED BY <1>1, <1>2, <1>6, LocalKeeps

-----------------------------------------------------------------------------
(* Calls and returns.                                                      *)

(* Whether a step calls rule(ctx).                                          *)
LEMMA Calling ==
  ASSUME ParserInv, NEW r \in Rules, Apply(r)
  PROVE  /\ ~ Entering => frames' = frames /\ ctl' = "ret"
         /\ Entering => /\ ctl' = "body"
                        /\ \E m \in {"hold", "seed"} : frames' = Append(frames, Opened(r, m))
<1>1. AnySeq(frames) /\ Len(frames) \in Nat
  BY Anywhere DEF ParserInv, IInv, TypeOK
<1>2. CASE ctl' = "ret" /\ frames' = frames
  BY <1>1, <1>2 DEF Entering
<1>3. CASE ctl' = "body" /\ \E m \in {"hold", "seed"} : frames' = Append(frames, Opened(r, m))
  <2>1. Entering
    BY <1>1, <1>3, AnyPushed DEF Entering
  <2> QED BY <1>3, <2>1
<1> QED BY <1>2, <1>3, ApplyCalls DEF ParserInv

(* Applying a rule.                                                         *)
LEMMA ApplyingKeeps ==
  ASSUME ParserInv, IInv', NEW r \in Rules, Apply(r), Applied(r),
         frames # <<>> => Ins.op = "apply"
  PROVE  ParserInv'
<1>1. prog' = prog /\ pos' = pos /\ buf' = buf
  BY ApplyCalls DEF Applied, ParserInv
<1>2. CASE Entering
  <2>1. bodies' = Append(bodies, NewBody)
    BY <1>2 DEF Applied
  <2>2. PICK m \in {"hold", "seed"} : ctl' = "body" /\ frames' = Append(frames, Opened(r, m))
    BY <1>2, Calling
  <2> QED BY <1>1, <2>1, <2>2, PushKeeps
<1>3. CASE ~ Entering
  <2>1. bodies' = bodies /\ frames' = frames
    BY <1>3, Calling DEF Applied
  <2> QED BY <1>1, <2>1, SameKeeps
<1> QED BY <1>2, <1>3

(* pcc_apply_rule has returned.                                             *)
LEMMA ResumeKeeps ==
  ASSUME ParserInv, IInv', DoResume
  PROVE  ParserInv'
<1>1. /\ frames # <<>> /\ ctl = "ret" /\ ctl' = "body" /\ prog' = prog
      /\ pos' = pos /\ buf' = buf
  BY DEF DoResume, Resume
<1>2. Len(frames) \in 1 .. Len(frames) /\ frames \in Seq(Frame) /\ Top = frames[Len(frames)]
  BY <1>1, TopCall DEF ParserInv, IInv, TypeOK
<1>3. /\ Len(frames') = Len(frames)
      /\ \A k \in 1 .. Len(frames) :
           frames'[k].at = frames[k].at /\ frames'[k].rule = frames[k].rule
  <2>1. CASE frames' = frames
    BY <2>1
  <2>2. CASE frames' = [frames EXCEPT ![Len(frames)].refs = @ \cup {ans.at}]
    BY <1>2, <2>2 DEF Frame
  <2> QED BY <2>1, <2>2 DEF DoResume, Resume
<1>4. Ins.op = "apply" /\ IsBody(Body)
  BY <1>1, Running
<1>5. GoingTo(Step) /\ GoingTo(Jump(Ins.l))
  BY <1>4 DEF GoingTo, Jumps
<1>6. \A b \in {Step, Jump(Ins.l)} :
        /\ IsBody(b) /\ b.pc \in Onward(Code, Body.pc)
        /\ b.saved = Body.saved /\ b.capts = Body.capts
  BY <1>1, <1>5, GoingOn
<1>7. PICK c : Run(c) /\ Amends(c) /\ c.capts = Body.capts /\ c.saved = Body.saved
  <2>1. CASE ans = None
    <3>1. Run(Jump(Ins.l))
      BY <2>1 DEF DoResume
    <3> QED BY <3>1, <1>4, <1>6 DEF Amends
  <2>2. CASE ans # None
    <3> DEFINE t == Append(Step.thunks, [type |-> "node", chunk |-> given, var |-> Ins.var])
               v == IF Ins.var = 0 THEN Step.values ELSE Set(Step.values, Ins.var, Zeroed)
               m == [Step EXCEPT !.thunks = t]
               c == [m EXCEPT !.values = v]
    <3>1. Run([Step EXCEPT !.thunks = t, !.values = v])
      BY <2>2, Zenon DEF DoResume
    <3>2. c = [Step EXCEPT !.thunks = t, !.values = v]
      OBVIOUS
    <3> HIDE DEF t, v
    <3>3. IsBody(m) /\ m.pc = Step.pc /\ m.saved = Step.saved /\ m.capts = Step.capts
      BY <1>6 DEF IsBody
    <3> HIDE DEF m
    <3>4. IsBody(c) /\ c.pc = m.pc /\ c.saved = m.saved /\ c.capts = m.capts
      BY <3>3 DEF IsBody
    <3>5. Run(c)
      BY <3>1, <3>2
    <3> HIDE DEF c
    <3>6. Amends(c) /\ c.capts = Body.capts /\ c.saved = Body.saved
      BY <1>4, <1>6, <3>3, <3>4 DEF Amends
    <3> QED BY <3>5, <3>6
  <2> QED BY <2>1, <2>2
<1>8. Within(c, Top.at - pos, buf)
  BY <1>1, <1>7, RunningWithin DEF Within
<1>9. BodyOK(c, Code, Top.at - pos, buf')
  BY <1>1, <1>7, <1>8, AmendsRight
<1>10. buf <= buf'
  BY <1>1, Running
<1> QED BY <1>1, <1>3, <1>7, <1>9, <1>10, RunKeeps

(* A rule function ends, or is called again to grow its seed.               *)
LEMMA ReturnKeeps ==
  ASSUME ParserInv, IInv', DoReturn
  PROVE  ParserInv'
<1>1. PICK c, o : c \in {None, NewChunk(Top)} /\ Return(c) /\ Returned(o)
  BY DEF DoReturn
<1>2. /\ frames # <<>> /\ pos' = pos /\ buf' = buf /\ prog' = prog
      /\ \/ ctl' = "ret" /\ PopFrame
         \/ /\ ctl' = "body"
            /\ \E h : frames' = [frames EXCEPT ![Len(frames)] = Regrown(h)]
  BY <1>1, ReturnCalls DEF Results, Returned, ParserInv
<1>3. CASE ctl' = "ret" /\ PopFrame
  <2>1. bodies' = SubSeq(bodies, 1, Len(bodies) - 1)
    BY <1>1, <1>3 DEF Returned
  <2> QED BY <1>2, <1>3, <2>1, PopKeeps
<1>4. CASE ctl' = "body" /\ \E h : frames' = [frames EXCEPT ![Len(frames)] = Regrown(h)]
  <2>1. PICK h : frames' = [frames EXCEPT ![Len(frames)] = Regrown(h)]
    BY <1>4
  <2>2. /\ Len(frames) \in 1 .. Len(frames) /\ frames \in Seq(Frame) /\ Top = frames[Len(frames)]
        /\ Top \in Frame
    BY <1>2, TopCall DEF ParserInv, IInv, TypeOK
  <2>3. Regrown(h).at = Top.at /\ Regrown(h).rule = Top.rule
    BY <2>2 DEF Regrown, Frame
  <2>4. /\ Len(frames') = Len(frames)
        /\ \A k \in 1 .. Len(frames) :
             frames'[k].at = frames[k].at /\ frames'[k].rule = frames[k].rule
    BY <2>1, <2>2, <2>3
  <2>5. Run(NewBody)
    BY <1>1, <1>4 DEF Returned
  <2>6. BodyOK(NewBody, Code, Top.at - pos, buf')
    BY <1>2, Running, NewBodyOK
  <2>7. buf <= buf'
    BY <1>2, Running
  <2> QED BY <1>2, <1>4, <2>4, <2>5, <2>6, <2>7, RunKeeps
<1> QED BY <1>2, <1>3, <1>4

-----------------------------------------------------------------------------
(* The invariant.                                                          *)

(* A new parser runs nothing.                                               *)
LEMMA InitParserInv ==
  ASSUME ParserInit
  PROVE  ParserInv
<1> USE DEF ParserInit
<1>1. IInv /\ frames = <<>> /\ bodies = <<>>
  BY InitIInv DEF Init
<1>2. <<>> \in Seq({})
  OBVIOUS
<1>3. AnySeq(bodies)
  BY <1>1, <1>2, Anywhere
<1> QED BY <1>1, <1>3 DEF ParserInv, Bodies, Waiting

(* Every step keeps the invariant.                                          *)
LEMMA NextParserInv ==
  ASSUME ParserInv, [ParserNext]_<<vars, pvars>>
  PROVE  ParserInv'
<1>1. IInv'
  BY RuntimeSteps, NextIInv DEF ParserInv
<1>2. CASE DoMatch \/ DoExpand
  BY <1>1, <1>2, MatchKeeps
<1>3. CASE DoRestore \/ DoSave \/ DoJump \/ DoCount \/ DoCapture \/ DoAction \/ DoErrorAction
  BY <1>1, <1>3, RestoreKeeps, SaveKeeps, JumpKeeps, CountKeeps, CaptureKeeps, ActionKeeps,
     ErrorActionKeeps
<1>4. CASE DoApply
  <2>1. Apply(Ins.rule) /\ Applied(Ins.rule) /\ Ins.op = "apply" /\ ctl = "body"
    BY <1>4 DEF DoApply, BodyApply, At, InBody
  <2>2. frames # <<>>
    BY <2>1 DEF ParserInv, IInv, Control
  <2>3. Ins.rule \in Rules
    BY <2>1, <2>2, Running DEF Compiles, Ins
  <2> QED BY <1>1, <2>1, <2>3, ApplyingKeeps
<1>5. CASE DoResume \/ DoReturn
  BY <1>1, <1>5, ResumeKeeps, ReturnKeeps
<1>6. CASE DoParseCall
  <2>1. Apply(Start) /\ Applied(Start) /\ ctl = "idle"
    BY <1>6 DEF DoParseCall, ParseCall
  <2>2. frames = <<>>
    BY <2>1 DEF ParserInv, IInv, Control
  <2> QED BY <1>1, <2>1, <2>2, ApplyingKeeps, StartAssumption
<1>7. CASE DoParseReturn
  BY <1>1, <1>7, NoneKeeps DEF DoParseReturn, ParseReturn, Committed
<1>8. CASE DoParseError
  BY <1>1, <1>8, NoneKeeps DEF DoParseError, ParseError, pvars
<1>9. CASE Stop \/ UNCHANGED <<vars, pvars>>
  <2>1. /\ UNCHANGED <<pos, buf, frames, ctl>> /\ UNCHANGED <<prog, bodies>>
    BY <1>9 DEF Stop, vars, pvars
  <2>2. frames # <<>> /\ ctl = "ret" => Ins.op = "apply"
    BY Running
  <2> QED BY <1>1, <2>1, <2>2, SameKeeps
<1> QED BY <1>2, <1>3, <1>4, <1>5, <1>6, <1>7, <1>8, <1>9 DEF ParserNext

(* Every reachable state of every generated parser satisfies ParserInv.     *)
THEOREM ParserInvariance == ParserSpec => []ParserInv
<1>1. ParserInit => ParserInv
  BY InitParserInv
<1>2. ParserInv /\ [ParserNext]_<<vars, pvars>> => ParserInv'
  BY NextParserInv
<1> QED BY <1>1, <1>2, PTL DEF ParserSpec

(* A generated parser implements the run time's specification: its code     *)
(* does nothing there that PackratRuntime does not allow a rule body to do. *)
THEOREM Implements == ParserSpec => ImplementsRuntime
<1>1. ParserInit => Init
  BY DEF ParserInit
<1>2. ParserInv /\ [ParserNext]_<<vars, pvars>> => [Next]_vars
  BY RuntimeSteps
<1> QED BY <1>1, <1>2, ParserInvariance, PTL DEF ParserSpec, ImplementsRuntime, Spec

(* So what the run time promises holds of it.                               *)
THEOREM ParserSafe ==
  ParserSpec => [](TypeOK /\ StackDiscipline /\ NoDangling /\ HeadScoped /\ RecallsInBuffer)
<1>1. Spec => [](TypeOK /\ StackDiscipline /\ NoDangling /\ HeadScoped /\ RecallsInBuffer)
  BY TypeCorrect, StackDisciplined, NothingDangles, HeadsScoped, BuffersSafe, PTL
<1> QED BY <1>1, Implements, PTL DEF ImplementsRuntime

(* A rule function's saved positions and captured texts lie between its own *)
(* start and the end of the buffer, whatever is called, grown or committed. *)
THEOREM Inside == ParserSpec => []PositionsInside
<1>1. ASSUME ParserInv PROVE PositionsInside
  <2>1. DOMAIN bodies = 1 .. Len(frames)
    BY <1>1 DEF ParserInv, AnySeq
  <2> QED BY <1>1, <2>1 DEF PositionsInside, ParserInv, Bodies, BodyOK, Within
<1> QED BY <1>1, ParserInvariance, PTL


-----------------------------------------------------------------------------
(* How often rules are evaluated.                                           *)

(* How many evaluations of a rule at index i its answer a accounts for: one *)
(* that is under way or was involved in a left recursion, or one for the    *)
(* seed, one for every character that growths have added, and a last one.   *)
Allowed(a, i) == IF a = None THEN 0 ELSE IF a.type = "LR" THEN 1 ELSE a.pos - i + 2

NoHeads == \A i \in Index, q \in Rules : heads[i][q] = None

CountsInv ==
  /\ evals \in Table(Nat) /\ held \in Table(Nat)
  /\ \A i \in Index, q \in Rules : evals[i][q] <= Allowed(memo[i][q], i)
  /\ NoHeads => \A i \in Index, q \in Rules : evals[i][q] <= 1 /\ held[i][q] = 0

(* What an answer accounts for.                                             *)
LEMMA AllowedAnswer ==
  ASSUME NEW i \in Index, NEW a \in Answer \cup {None}, a # None => i <= a.pos
  PROVE  /\ Allowed(a, i) \in Nat
         /\ a # None => Allowed(a, i) >= 1 /\ a.pos \in Nat
         /\ a # None /\ a.type # "LR" => a.type = "CHUNK" /\ Allowed(a, i) >= 2
<1>1. i \in Nat
  BY DEF Index
<1>2. CASE a = None
  BY <1>2 DEF Allowed
<1>3. CASE a # None
  <2>1. a.pos \in Nat /\ a.type \in {"LR", "CHUNK"}
    BY <1>3, BoundsAssumption DEF Answer, Index
  <2>2. Allowed(a, i) = IF a.type = "LR" THEN 1 ELSE a.pos - i + 2
    BY <1>3 DEF Allowed
  <2> QED BY <1>1, <1>3, <2>1, <2>2
<1> QED BY <1>2, <1>3

(* Every answer of the memo table, before a step and after it.              *)
LEMMA AllowedAll ==
  ASSUME NEW i \in Index, NEW q \in Rules
  PROVE  /\ IInv  => Allowed(memo[i][q], i) \in Nat
         /\ IInv' => Allowed(memo'[i][q], i) \in Nat
<1>1. CASE IInv
  BY <1>1, AllowedAnswer DEF IInv, TypeOK, Slots, SlotOK
<1>2. CASE IInv'
  BY <1>2, AllowedAnswer DEF IInv, TypeOK, Slots, SlotOK
<1> QED BY <1>1, <1>2

(* A step that counts nothing, if no answer accounts for less.              *)
LEMMA Uncounted ==
  ASSUME CountsInv, IInv, IInv', evals' = evals, held' = held, HeadsStay(heads, heads'),
         \A i \in Index, q \in Rules : Allowed(memo[i][q], i) <= Allowed(memo'[i][q], i)
  PROVE  CountsInv'
<1>1. ASSUME NEW i \in Index, NEW q \in Rules PROVE evals[i][q] <= Allowed(memo'[i][q], i)
  <2>1. Allowed(memo[i][q], i) \in Nat /\ Allowed(memo'[i][q], i) \in Nat
    BY AllowedAll
  <2>2. evals[i][q] \in Nat /\ evals[i][q] <= Allowed(memo[i][q], i)
    BY DEF CountsInv, Table
  <2>3. Allowed(memo[i][q], i) <= Allowed(memo'[i][q], i)
    OBVIOUS
  <2> QED BY ONLY <2>1, <2>2, <2>3
<1>2. NoHeads' => NoHeads
  BY DEF NoHeads, HeadsStay
<1> QED BY <1>1, <1>2 DEF CountsInv

(* A step that counts one evaluation of r at index p, which the new answer  *)
(* accounts for; without left recursion it is the first one.                *)
LEMMA CountedOnce ==
  ASSUME CountsInv, IInv, IInv', held' = held, HeadsStay(heads, heads'),
         NEW p \in Index, NEW r \in Rules, evals' = [evals EXCEPT ![p][r] = @ + 1],
         \A i \in Index, q \in Rules : Allowed(memo[i][q], i) <= Allowed(memo'[i][q], i),
         evals[p][r] + 1 <= Allowed(memo'[p][r], p),
         NoHeads' => evals[p][r] = 0
  PROVE  CountsInv'
<1>1. evals \in Table(Nat) /\ evals[p][r] \in Nat
  BY DEF CountsInv, Table
<1>2. PICK d : d = evals[p][r] + 1
  OBVIOUS
<1>3. d \in Nat /\ evals' = Put(evals, p, r, d)
  BY <1>1, <1>2 DEF Put
<1>4. /\ Put(evals, p, r, d) \in Table(Nat) /\ Put(evals, p, r, d)[p][r] = d
      /\ \A i \in Index, q \in Rules : i # p \/ q # r => Put(evals, p, r, d)[i][q] = evals[i][q]
  BY <1>1, <1>3, Stored
<1>5. /\ evals' \in Table(Nat) /\ evals'[p][r] = evals[p][r] + 1
      /\ \A i \in Index, q \in Rules : i # p \/ q # r => evals'[i][q] = evals[i][q]
  BY ONLY <1>2, <1>3, <1>4
<1>6. ASSUME NEW i \in Index, NEW q \in Rules PROVE evals'[i][q] <= Allowed(memo'[i][q], i)
  <2>1. CASE i = p /\ q = r
    BY <2>1, <1>5
  <2>2. CASE i # p \/ q # r
    <3>1. Allowed(memo[i][q], i) \in Nat /\ Allowed(memo'[i][q], i) \in Nat
      BY AllowedAll
    <3>2. evals[i][q] \in Nat /\ evals[i][q] <= Allowed(memo[i][q], i)
      BY DEF CountsInv, Table
    <3>3. Allowed(memo[i][q], i) <= Allowed(memo'[i][q], i) /\ evals'[i][q] = evals[i][q]
      BY <2>2, <1>5
    <3> QED BY ONLY <3>1, <3>2, <3>3
  <2> QED BY <2>1, <2>2
<1>7. NoHeads' => \A i \in Index, q \in Rules : evals'[i][q] <= 1 /\ held'[i][q] = 0
  <2>1. NoHeads' => NoHeads
    BY DEF NoHeads, HeadsStay
  <2>2. ASSUME NoHeads', NEW i \in Index, NEW q \in Rules PROVE evals'[i][q] <= 1
    <3>1. CASE i = p /\ q = r
      BY <3>1, <2>2, <1>5
    <3>2. CASE i # p \/ q # r
      BY <3>2, <2>1, <2>2, <1>5 DEF CountsInv
    <3> QED BY <3>1, <3>2
  <2> QED BY <2>1, <2>2 DEF CountsInv
<1> QED BY <1>5, <1>6, <1>7 DEF CountsInv

(* pcc_apply_rule counts a first evaluation, or one of an involved rule.    *)
LEMMA CallsCounted ==
  ASSUME ParserInv, NEW r \in Rules, NEW m, frames' = Append(frames, Opened(r, m)), NEW h, NEW n
  PROVE  Counted(h, n) = IF m = n THEN [h EXCEPT ![Here][r] = @ + 1] ELSE h
<1>1. AnySeq(frames)
  BY Anywhere DEF ParserInv, IInv, TypeOK
<1>2. Len(frames') = Len(frames) + 1 /\ frames'[Len(frames')] = Opened(r, m) /\ Entering
  BY <1>1, AnyPushed DEF Entering
<1>3. /\ Opened(r, m).at = Here /\ Opened(r, m).rule = r /\ Opened(r, m).mode = m
  BY DEF Opened
<1> QED BY <1>2, <1>3 DEF Counted

(* Applying a rule.                                                         *)
LEMMA ApplyingCounts ==
  ASSUME ParserInv, CountsInv, IInv', NEW r \in Rules, Apply(r), Applied(r)
  PROVE  CountsInv'
<1>1. IInv /\ evals' = Counted(evals, "seed") /\ held' = Counted(held, "hold")
  BY DEF ParserInv, Applied
<1>2. HeadsStay(heads, heads)
  BY DEF HeadsStay
<1>3. \A i \in Index, q \in Rules : Allowed(memo[i][q], i) <= Allowed(memo[i][q], i)
  BY <1>1, AllowedAll
<1>4. CASE ApplyBlocked(r) \/ RecallChunk(r)
  <2>1. frames' = frames /\ memo' = memo /\ heads' = heads
    BY <1>4 DEF ApplyBlocked, RecallChunk, tvars
  <2>2. ~ Entering
    BY <1>1, <2>1 DEF Entering, IInv, TypeOK
  <2>3. evals' = evals /\ held' = held
    BY <1>1, <2>2 DEF Counted
  <2> QED BY <1>1, <1>2, <1>3, <2>1, <2>3, Uncounted
<1>5. CASE ApplyInvolved(r)
  <2>1. frames' = Append(frames, Opened(r, "hold")) /\ memo' = memo
    BY <1>5 DEF ApplyInvolved, PushFrame, Opened
  <2>2. evals' = evals /\ held' = [held EXCEPT ![Here][r] = @ + 1]
    BY <1>1, <2>1, CallsCounted
  <2>3. Here \in Index
    BY <1>1, Places
  <2>4. held' \in Table(Nat)
    BY <2>2, <2>3 DEF CountsInv, Table
  <2>5. ~ NoHeads'
    <3>1. head[Here] # None /\ UNCHANGED head
      BY <1>5 DEF ApplyInvolved, ToEvaluate, Growing
    <3>2. head'[Here] # None
      BY <3>1
    <3>3. head'[Here] \in HeadId \cup {None} /\ HeadFrom(heads', head'[Here], Here)
      BY <2>3 DEF IInv, TypeOK, Slots
    <3> QED BY <3>2, <3>3 DEF HeadFrom, HeadId, NoHeads
  <2> QED BY <2>1, <2>2, <2>4, <2>5 DEF CountsInv
<1>6. CASE RecallLR(r)
  <2>1. frames' = frames
    BY <1>6 DEF RecallLR
  <2>2. ~ Entering
    BY <1>1, <2>1 DEF Entering, IInv, TypeOK
  <2>3. evals' = evals /\ held' = held
    BY <1>1, <2>2 DEF Counted
  <2>4. /\ HeadsStay(heads, heads')
        /\ \A i \in Index, q \in Rules : Allowed(memo'[i][q], i) = Allowed(memo[i][q], i)
    BY <1>1, <1>6, RecallLRMarks DEF Allowed
  <2>5. \A i \in Index, q \in Rules : Allowed(memo[i][q], i) <= Allowed(memo'[i][q], i)
    BY <1>3, <2>4
  <2> QED BY <1>1, <2>3, <2>4, <2>5, Uncounted
<1>7. CASE ApplyFresh(r)
  <2>1. /\ frames' = Append(frames, Opened(r, "seed")) /\ heads' = heads
        /\ memo' = [memo EXCEPT ![Here][r] = LrAnswer(Here)] /\ memo[Here][r] = None
    BY <1>7 DEF ApplyFresh, PushFrame, Opened
  <2>2. held' = held /\ evals' = [evals EXCEPT ![Here][r] = @ + 1]
    BY <1>1, <2>1, CallsCounted
  <2>3. Here \in Index /\ LrAnswer(Here) \in Answer /\ memo \in Memos
    BY <1>1, Places DEF LrAnswer, Answer, IInv, TypeOK, Memos, Table
  <2>4. /\ memo'[Here][r] = LrAnswer(Here)
        /\ \A i \in Index, q \in Rules : i # Here \/ q # r => memo'[i][q] = memo[i][q]
    BY <2>1, <2>3 DEF Memos, Table
  <2>5. Allowed(memo[Here][r], Here) = 0 /\ Allowed(memo'[Here][r], Here) = 1
    <3>1. LrAnswer(Here) # None /\ LrAnswer(Here).type = "LR"
      BY <2>3, NoneAssumption DEF LrAnswer
    <3> QED BY <2>1, <2>4, <3>1 DEF Allowed
  <2>6. evals[Here][r] = 0
    BY <2>3, <2>5 DEF CountsInv, Table
  <2>7. ASSUME NEW i \in Index, NEW q \in Rules
        PROVE  Allowed(memo[i][q], i) <= Allowed(memo'[i][q], i)
    BY <2>4, <2>5, <1>3
  <2> QED BY <1>1, <1>2, <2>1, <2>2, <2>3, <2>5, <2>6, <2>7, CountedOnce
<1> QED BY <1>4, <1>5, <1>6, <1>7 DEF Apply


(* The first evaluation of a rule ends, and with it the count of one.       *)
LEMMA SeedCounts ==
  ASSUME IInv, CountsInv, IInv', frames # <<>>, Top.mode = "seed", NEW b \in Answer, Store(Top, b),
         heads' = heads, evals' = evals, held' = held
  PROVE  CountsInv'
<1>1. Occupies(Top)
  BY DEF Occupies
<1>2. /\ Top.at \in Index /\ Top.rule \in Rules /\ b # None
      /\ memo'[Top.at][Top.rule] = b
      /\ \A i \in Index, q \in Rules : i # Top.at \/ q # Top.rule => memo'[i][q] = memo[i][q]
  BY <1>1, TopStored
<1>3. memo[Top.at][Top.rule] # None /\ memo[Top.at][Top.rule].type = "LR"
  BY <1>1, TopCall DEF CallOK, HasAnswer
<1>4. Top.at <= b.pos
  BY <1>2 DEF IInv, Slots, SlotOK
<1>5. Allowed(b, Top.at) >= 1 /\ Allowed(memo[Top.at][Top.rule], Top.at) = 1
  BY <1>2, <1>3, <1>4, AllowedAnswer DEF Allowed
<1>6. ASSUME NEW i \in Index, NEW q \in Rules
      PROVE  Allowed(memo[i][q], i) <= Allowed(memo'[i][q], i)
  <2>1. CASE i = Top.at /\ q = Top.rule
    BY <2>1, <1>2, <1>5
  <2>2. CASE i # Top.at \/ q # Top.rule
    BY <2>2, <1>2, AllowedAll
  <2> QED BY <2>1, <2>2
<1>7. HeadsStay(heads, heads')
  BY DEF HeadsStay
<1> QED BY <1>6, <1>7, Uncounted

(* A head grows: one more evaluation for one more character, or more.       *)
LEMMA GrowthCounts ==
  ASSUME IInv, CountsInv, IInv', NEW c \in Results(Top), ReturnSeed(c) \/ GrowAgain(c),
         evals' = [evals EXCEPT ![Top.at][Top.rule] = @ + 1], held' = held
  PROVE  CountsInv'
<1> DEFINE a == memo[Top.at][Top.rule]
           b == ChunkAnswer(Here, c)
<1>1. frames # <<>> /\ Occupies(Top)
  BY DEF ReturnSeed, GrowAgain, InBody, IInv, Control, Occupies
<1>2. /\ b \in Answer /\ SlotOK(heads, b, Top.at, pos + buf)
      /\ b.type = "CHUNK" /\ b.pos = Here /\ b.chunk # None
  BY <1>1, NewAnswer DEF ChunkAnswer, ReturnSeed, GrowAgain, Grew
<1>3. PICK h \in HeadId : HeadFrom(heads, h, Top.at) /\ GrowFrom(Top, h)
  <2>1. CASE ReturnSeed(c)
    <3>1. a \in Answer /\ SlotOK(heads, a, Top.at, pos + buf) /\ a # None /\ a.head # None
      BY <2>1, <1>1, TopAnswer DEF ReturnSeed
    <3>2. a.head \in HeadId /\ HeadFrom(heads, a.head, Top.at) /\ GrowFrom(Top, a.head)
      BY <2>1, <3>1 DEF SlotOK, Answer, ReturnSeed
    <3> QED BY <3>2
  <2>2. CASE GrowAgain(c)
    <3>1. Top.head \in HeadId /\ HeadFrom(heads, Top.head, Top.at) /\ GrowFrom(Top, Top.head)
      BY <2>2, <1>1, TopCall DEF CallOK, Frame, GrowAgain
    <3> QED BY <3>1
  <2> QED BY <2>1, <2>2
<1>4. Store(Top, b) /\ UNCHANGED <<inlen, pos, buf>> /\ h # None
  BY NoneAssumption DEF ReturnSeed, GrowAgain
<1> HIDE DEF b
<1>5. HeadsStay(heads, heads')
  BY <1>1, <1>2, <1>3, <1>4, GrowStep
<1>6. /\ Top.at \in Index /\ Top.rule \in Rules /\ b # None
      /\ memo'[Top.at][Top.rule] = b
      /\ \A i \in Index, q \in Rules : i # Top.at \/ q # Top.rule => memo'[i][q] = memo[i][q]
  BY <1>1, <1>2, <1>4, TopStored
<1>7. Top.at <= b.pos /\ Allowed(b, Top.at) = b.pos - Top.at + 2 /\ Allowed(b, Top.at) \in Nat
  BY <1>2, <1>6, AllowedAnswer DEF SlotOK, Allowed
<1>8. Allowed(a, Top.at) + 1 <= Allowed(b, Top.at)
  <2>1. a \in Answer /\ a # None /\ Top.at <= a.pos /\ a.pos \in Nat /\ Top.at \in Nat /\ Here \in Nat
    BY <1>1, TopAnswer, Places, AllowedAnswer DEF SlotOK
  <2>2. CASE ReturnSeed(c)
    <3>1. Allowed(a, Top.at) = 1
      BY <2>1, <2>2, <1>1, TopCall DEF CallOK, HasAnswer, Allowed, ReturnSeed
    <3> QED BY <1>2, <1>7, <2>1, <3>1
  <2>3. CASE GrowAgain(c)
    <3>1. a.type = "CHUNK" /\ Here > a.pos
      BY <2>3, <1>1, TopCall DEF CallOK, HasAnswer, GrowAgain, Grew
    <3>2. Allowed(a, Top.at) = a.pos - Top.at + 2
      BY <2>1, <3>1 DEF Allowed
    <3> QED BY <1>2, <1>7, <2>1, <3>1, <3>2
  <2> QED BY <2>2, <2>3
<1>9. evals[Top.at][Top.rule] + 1 <= Allowed(memo'[Top.at][Top.rule], Top.at)
  <2>1. evals[Top.at][Top.rule] \in Nat /\ evals[Top.at][Top.rule] <= Allowed(a, Top.at)
    BY <1>6 DEF CountsInv, Table
  <2>2. Allowed(a, Top.at) \in Nat
    BY <1>6, AllowedAll
  <2> QED BY ONLY <1>6, <1>7, <1>8, <2>1, <2>2
<1>10. ASSUME NEW i \in Index, NEW q \in Rules
       PROVE  Allowed(memo[i][q], i) <= Allowed(memo'[i][q], i)
  <2>1. Allowed(memo[i][q], i) \in Nat
    BY AllowedAll
  <2>2. CASE i = Top.at /\ q = Top.rule
    BY ONLY <2>1, <2>2, <1>6, <1>7, <1>8
  <2>3. CASE i # Top.at \/ q # Top.rule
    BY ONLY <2>1, <2>3, <1>6
  <2> QED BY <2>2, <2>3
<1>11. ~ NoHeads'
  BY <1>3, <1>4, <1>5 DEF HeadFrom, HeadsStay, HeadId, NoHeads
<1> QED BY <1>5, <1>6, <1>9, <1>10, <1>11, CountedOnce


(* rule(ctx) returns.                                                       *)
LEMMA ReturningCounts ==
  ASSUME ParserInv, CountsInv, IInv', DoReturn
  PROVE  CountsInv'
<1>1. PICK c, o : c \in Results(Top) /\ Return(c) /\ Returned(o)
  BY DEF DoReturn, Results
<1>2. IInv /\ held' = held /\ c \in Results(Top)
  BY <1>1 DEF ParserInv, Returned
<1>3. CASE ReturnHeld(c) \/ GrowStop(c)
  <2>1. ctl' = "ret" /\ memo' = memo /\ heads' = heads
    BY <1>3 DEF ReturnHeld, GrowStop, Answering, tvars
  <2>2. evals' = evals
    BY <1>1, <2>1 DEF Returned
  <2>3. HeadsStay(heads, heads')
    BY <2>1 DEF HeadsStay
  <2>4. \A i \in Index, q \in Rules : Allowed(memo[i][q], i) <= Allowed(memo'[i][q], i)
    BY <1>2, <2>1, AllowedAll
  <2> QED BY <1>2, <2>2, <2>3, <2>4, Uncounted
<1>4. CASE ReturnPlain(c) \/ ReturnNoSeed(c) \/ ReturnInvolved(c)
  <2>1. /\ Top.mode = "seed" /\ ctl = "body" /\ ctl' = "ret" /\ heads' = heads
    BY <1>4 DEF ReturnPlain, ReturnNoSeed, ReturnInvolved, InBody, Answering
  <2>2. evals' = evals
    BY <1>1, <2>1 DEF Returned
  <2>3. frames # <<>> /\ Occupies(Top)
    BY <1>2, <2>1 DEF IInv, Control, Occupies
  <2>4. \E b \in Answer : Store(Top, b)
    <3>1. CASE ReturnPlain(c)
      BY <1>2, <2>3, <3>1, NewAnswer DEF ReturnPlain
    <3>2. CASE ReturnNoSeed(c)
      <4>1. None \in Results(Top)
        BY DEF Results
      <4> QED BY <1>2, <2>3, <3>2, <4>1, NewAnswer DEF ReturnNoSeed
    <3>3. CASE ReturnInvolved(c)
      <4> DEFINE b == [memo[Top.at][Top.rule] EXCEPT !.pos = Here, !.chunk = c]
      <4>1. c \in Chunk \cup {None} /\ Here \in Index /\ memo[Top.at][Top.rule] \in Answer
        BY <1>2, <2>3, ResultFits, Places, TopAnswer
      <4>2. b \in Answer
        BY <4>1 DEF Answer
      <4> QED BY <3>3, <4>2 DEF ReturnInvolved
    <3> QED BY <1>4, <3>1, <3>2, <3>3
  <2> QED BY <1>2, <2>1, <2>2, <2>3, <2>4, SeedCounts
<1>5. CASE ReturnSeed(c) \/ GrowAgain(c)
  <2>1. ctl' = "body"
    BY <1>5 DEF ReturnSeed, GrowAgain, InBody
  <2>2. evals' = [evals EXCEPT ![Top.at][Top.rule] = @ + 1]
    BY <1>1, <2>1 DEF Returned
  <2> QED BY <1>2, <1>5, <2>2, GrowthCounts
<1> QED BY <1>1, <1>3, <1>4, <1>5 DEF Return

(* A new parser, and a new call of pcc_parse, have counted nothing.         *)
LEMMA NothingCounted ==
  ASSUME IInv', evals' = Untouched, held' = Untouched
  PROVE  CountsInv'
<1>1. Untouched \in Table(Nat) /\ \A i \in Index, q \in Rules : Untouched[i][q] = 0
  BY DEF Untouched, Table
<1>2. ASSUME NEW i \in Index, NEW q \in Rules PROVE evals'[i][q] <= Allowed(memo'[i][q], i)
  <2>1. Allowed(memo'[i][q], i) \in Nat /\ evals'[i][q] = 0
    BY <1>1, AllowedAll
  <2> QED BY ONLY <2>1
<1> QED BY <1>1, <1>2 DEF CountsInv

LEMMA InitCounts ==
  ASSUME ParserInit
  PROVE  CountsInv
<1> USE DEF ParserInit
<1>1. /\ Untouched \in Table(Nat) /\ \A i \in Index, q \in Rules : Untouched[i][q] = 0
      /\ evals = Untouched /\ held = Untouched
  BY DEF Untouched, Table
<1>2. \A i \in Index, q \in Rules : memo[i][q] = None
  BY DEF Init
<1>3. \A i \in Index, q \in Rules : evals[i][q] <= Allowed(memo[i][q], i)
  BY <1>1, <1>2 DEF Allowed
<1> QED BY <1>1, <1>3 DEF CountsInv

(* Every step keeps to the counts.                                          *)
LEMMA NextCounts ==
  ASSUME ParserInv, CountsInv, ParserInv', [ParserNext]_<<vars, pvars>>
  PROVE  CountsInv'
<1>1. IInv /\ IInv'
  BY DEF ParserInv
<1>2. CASE DoApply
  <2>1. Apply(Ins.rule) /\ Applied(Ins.rule) /\ Ins.op = "apply" /\ ctl = "body"
    BY <1>2 DEF DoApply, BodyApply, At, InBody
  <2>2. frames # <<>>
    BY <2>1, <1>1 DEF IInv, Control
  <2>3. Ins.rule \in Rules
    BY <2>1, <2>2, Running DEF Compiles, Ins
  <2> QED BY <1>1, <2>1, <2>3, ApplyingCounts
<1>3. CASE DoParseCall
  BY <1>1, <1>3, ApplyingCounts, StartAssumption DEF DoParseCall, ParseCall
<1>4. CASE DoReturn
  BY <1>1, <1>4, ReturningCounts
<1>5. CASE DoParseReturn
  BY <1>1, <1>5, NothingCounted DEF DoParseReturn, Committed
<1>6. ASSUME memo' = memo, heads' = heads, evals' = evals, held' = held
      PROVE  CountsInv'
  <2>1. HeadsStay(heads, heads')
    BY <1>6 DEF HeadsStay
  <2>2. \A i \in Index, q \in Rules : Allowed(memo[i][q], i) <= Allowed(memo'[i][q], i)
    BY <1>1, <1>6, AllowedAll
  <2> QED BY <1>1, <1>6, <2>1, <2>2, Uncounted
<1>7. CASE DoMatch \/ DoExpand \/ DoRestore
  <2>1. UNCHANGED <<tvars, histories>>
    BY <1>7, Zenon DEF DoMatch, DoExpand, DoRestore, Scan, Quiet
  <2> QED BY <2>1, <1>6 DEF tvars, histories
<1>8. CASE DoSave \/ DoJump \/ DoCount \/ DoCapture \/ DoAction
  <2>1. UNCHANGED <<vars, histories>>
    BY <1>8, Zenon DEF DoSave, DoJump, DoCount, DoCapture, DoAction, CtxSame, Quiet
  <2> QED BY <2>1, <1>6 DEF vars, tvars, histories
<1>9. CASE DoErrorAction
  <2>1. UNCHANGED <<vars, evals, held>>
    BY <1>9, Zenon DEF DoErrorAction, CtxSame
  <2> QED BY <2>1, <1>6 DEF vars, tvars
<1>10. CASE DoResume
  <2>1. UNCHANGED <<tvars, histories>>
    BY <1>10, Zenon DEF DoResume, Resume
  <2> QED BY <2>1, <1>6 DEF tvars, histories
<1>11. CASE DoParseError
  BY <1>11, <1>6 DEF DoParseError, ParseError, pvars, tvars, histories
<1>12. CASE Stop \/ UNCHANGED <<vars, pvars>>
  BY <1>12, <1>6 DEF Stop, vars, pvars, tvars, histories
<1> QED BY <1>2, <1>3, <1>4, <1>5, <1>7, <1>8, <1>9, <1>10, <1>11, <1>12 DEF ParserNext

(* In every reachable state, no rule was evaluated more often at a place    *)
(* than its answer there accounts for.                                      *)
THEOREM CountsInvariance == ParserSpec => []CountsInv
<1>1. ParserInit => CountsInv
  BY InitCounts
<1>2. ParserInv /\ CountsInv /\ ParserInv' /\ [ParserNext]_<<vars, pvars>> => CountsInv'
  BY NextCounts
<1> QED BY <1>1, <1>2, ParserInvariance, PTL DEF ParserSpec

(* Packrat parsing: where no left recursion was met, a call of pcc_parse    *)
(* evaluates no rule twice at one place.                                    *)
THEOREM OnceEach == ParserSpec => []OncePerPlace
<1>1. ASSUME CountsInv PROVE OncePerPlace
  <2>1. ASSUME NoHeads, NEW i \in Index, NEW r \in Rules PROVE evals[i][r] + held[i][r] <= 1
    <3>1. evals[i][r] \in Nat /\ evals[i][r] <= 1 /\ held[i][r] = 0
      BY <1>1, <2>1 DEF CountsInv, Table
    <3> QED BY <3>1
  <2> QED BY <2>1 DEF OncePerPlace, NoHeads
<1> QED BY <1>1, CountsInvariance, PTL

(* A left-recursive rule is evaluated for the seed, for every growth and    *)
(* once more, and every growth takes at least one character.                *)
THEOREM GrowsBounded == ParserSpec => []GrowthBounded
<1>1. ASSUME ParserInv, CountsInv PROVE GrowthBounded
  <2>1. ASSUME NEW i \in Index, NEW r \in Rules, i <= inlen PROVE evals[i][r] <= inlen - i + 2
    <3> DEFINE a == memo[i][r]
    <3>1. evals[i][r] \in Nat /\ evals[i][r] <= Allowed(a, i) /\ Allowed(a, i) \in Nat
      BY <1>1, AllowedAll DEF CountsInv, Table, ParserInv
    <3>2. i \in Nat /\ inlen \in Nat /\ pos + buf <= inlen /\ pos \in Nat /\ buf \in Nat
      BY <1>1, Places DEF Index, ParserInv
    <3>3. a # None => a.pos \in Nat /\ a.pos <= pos + buf
      BY <1>1, BoundsAssumption DEF ParserInv, IInv, TypeOK, Slots, SlotOK, Answer, Index
    <3>4. Allowed(a, i) <= inlen - i + 2
      <4>1. CASE a = None
        BY <4>1, <2>1, <3>2 DEF Allowed
      <4>2. CASE a # None
        BY <4>2, <2>1, <3>2, <3>3 DEF Allowed
      <4> QED BY <4>1, <4>2
    <3> QED BY ONLY <2>1, <3>1, <3>2, <3>4
  <2> QED BY <2>1 DEF GrowthBounded
<1> QED BY <1>1, ParserInvariance, CountsInvariance, PTL


=============================================================================
