------------------------- MODULE HookDispatch_proofs -------------------------
(***************************************************************************)
(* What hooks are shown and where frames go on, proved for all functions,  *)
(* hooks, arguments, results, exceptions and depths of calls.              *)
(***************************************************************************)
EXTENDS HookDispatch, SequenceTheorems, TLAPS

\* What the frame of a call is like by itself, wherever it is on the stack.
Sound(frame) ==
    /\ frame.fn = Main => frame.stage = "body"
    /\ frame.stage \in HookStage =>
        /\ frame.at # 0
        /\ frame.resume = "handler" <=> frame.saved # NULL
    /\ frame.stage \in AsideStage => (frame.opline = "handler" <=> frame.saved # NULL)
    /\ frame.stage # "body" => frame.params = frame.args
    /\ frame.stage \in {"post", "posthook", "postaside"} =>
        /\ frame.thrown = FuncGetException(frame.left)
        /\ frame.used /\ frame.left = NULL => frame.shown = frame.slot

SoundFrame == {frame \in Frame : Sound(frame)}

\* A call that waits for the one above it.
Waits(frame) ==
    /\ frame.stage \in CodeStage
    /\ frame.stage = "body" => frame.opline = "next"

\* What the innermost call and EG(exception) have to do with each other.
TopAgrees ==
    Top.stage \in {"pre", "body", "post"} => (Top.opline = "handler" <=> exc # NULL)

\* The inductive invariant.
StackInv ==
    /\ stack \in Seq(SoundFrame) /\ Len(stack) <= MaxDepth
    /\ exc \in Raised
    /\ \A i \in 1..Len(stack) - 1 : Waits(stack[i])
    /\ stack # <<>> => TopAgrees

LEMMA TopIsSound ==
    ASSUME StackInv, stack # <<>>
    PROVE  Top \in SoundFrame /\ Len(stack) \in Nat /\ Len(stack) >= 1
  BY DEF StackInv, Top

\* A step within the innermost call.
LEMMA SetTopKeeps ==
    ASSUME StackInv, stack # <<>>, NEW frame \in SoundFrame, SetTop(frame),
           exc' \in Raised,
           frame.stage \in {"pre", "body", "post"} =>
                (frame.opline = "handler" <=> exc' # NULL)
    PROVE  StackInv'
<1>1. stack \in Seq(SoundFrame) /\ Len(stack) \in Nat /\ Len(stack) >= 1
  BY DEF StackInv
<1>2. /\ stack' \in Seq(SoundFrame) /\ Len(stack') = Len(stack)
      /\ stack'[Len(stack)] = frame
      /\ \A i \in 1..Len(stack) - 1 : stack'[i] = stack[i]
  BY <1>1 DEF SetTop
<1>3. Top' = frame
  BY <1>2 DEF Top
<1>4. \A i \in 1..Len(stack') - 1 : Waits(stack'[i])
  BY <1>2 DEF StackInv
<1>5. Len(stack') <= MaxDepth
  BY <1>2 DEF StackInv
<1>6. TopAgrees'
  BY <1>3 DEF TopAgrees
<1> QED
  BY <1>2, <1>4, <1>5, <1>6 DEF StackInv

-----------------------------------------------------------------------------
(* PHP code.                                                               *)

\* The types of a sound frame, one by one.
LEMMA FrameTypes ==
    ASSUME NEW frame \in SoundFrame
    PROVE  /\ frame \in Frame /\ Sound(frame)
           /\ frame.stage \in Stage /\ frame.at \in Nat /\ frame.used \in BOOLEAN
           /\ frame.fn # Main => frame.fn \in Function
  BY DEF SoundFrame, Frame

LEMMA NewFrameIsSound ==
    ASSUME NEW f \in Function, NEW a \in Value, NEW used \in BOOLEAN
    PROVE  NewFrame(f, a, used) \in SoundFrame
<1>1. NewFrame(f, a, used) \in Frame
  BY DEF NewFrame, Frame, Stage, Opline, Raised
<1>2. Sound(NewFrame(f, a, used))
  BY HookAssumption DEF NewFrame, Sound, HookStage, AsideStage
<1> QED
  BY <1>1, <1>2 DEF SoundFrame

LEMMA InitSound == Init => StackInv
<1> SUFFICES ASSUME Init PROVE StackInv
  OBVIOUS
<1> DEFINE frame == [NewFrame(Main, NULL, FALSE) EXCEPT !.stage = "body"]
<1>1. stack = <<frame>>
  BY DEF Init
<1>2. frame \in SoundFrame
  <2>1. NewFrame(Main, NULL, FALSE) \in Frame
    BY DEF NewFrame, Frame, Stage, Opline, Raised
  <2>2. frame \in Frame
    BY <2>1 DEF Frame, Stage
  <2>3. Sound(frame)
    BY DEF NewFrame, Sound, HookStage, AsideStage
  <2> QED
    BY <2>2, <2>3 DEF SoundFrame
<1>3. stack \in Seq(SoundFrame) /\ Len(stack) = 1 /\ Top = frame
  BY <1>1, <1>2 DEF Top
<1>4. TopAgrees
  BY <1>3 DEF Init, TopAgrees, NewFrame
<1> QED
  BY <1>3, <1>4, DepthAssumption DEF Init, StackInv, Raised

\* Going on at another place leaves a sound frame sound.
LEMMA GoingOnIsSound ==
    ASSUME NEW frame \in SoundFrame, NEW opline \in Opline
    PROVE  /\ GoingOn(frame, opline) \in SoundFrame
           /\ GoingOn(frame, opline).stage = frame.stage
           /\ frame.stage = "body" => GoingOn(frame, opline).opline = opline
<1>1. CASE frame.stage = "body"
  <2>1. GoingOn(frame, opline) = [frame EXCEPT !.opline = opline]
    BY <1>1 DEF GoingOn
  <2>2. [frame EXCEPT !.opline = opline] \in Frame
    BY FrameTypes DEF Frame
  <2>3. Sound([frame EXCEPT !.opline = opline])
    BY <1>1, FrameTypes DEF Sound, Frame, HookStage, AsideStage
  <2> QED
    BY <2>1, <2>2, <2>3, FrameTypes DEF SoundFrame, Frame
<1>2. CASE frame.stage # "body"
  BY <1>2 DEF GoingOn
<1> QED
  BY <1>1, <1>2

LEMMA CallKeeps ==
    ASSUME StackInv, NEW f \in Function, NEW a \in Value, NEW used \in BOOLEAN,
           Call(f, a, used)
    PROVE  StackInv'
<1>1. stack # <<>> /\ Top.stage \in CodeStage /\ exc = NULL /\ exc' = NULL
  BY DEF Call, At
<1>2. stack \in Seq(SoundFrame) /\ Len(stack) \in Nat /\ Len(stack) < MaxDepth
  BY DEF StackInv, Call
<1>3. /\ stack' \in Seq(SoundFrame) /\ Len(stack') = Len(stack) + 1
      /\ stack'[Len(stack) + 1] = NewFrame(f, a, used)
      /\ \A i \in 1..Len(stack) : stack'[i] = stack[i]
  BY <1>2, NewFrameIsSound DEF Call
<1>4. Waits(Top)
  BY <1>1, TopIsSound DEF StackInv, TopAgrees, Waits, SoundFrame, Frame, Opline
<1>5. \A i \in 1..Len(stack') - 1 : Waits(stack'[i])
  BY <1>2, <1>3, <1>4 DEF StackInv, Top
<1>6. TopAgrees'
  BY <1>1, <1>3 DEF TopAgrees, Top, NewFrame
<1> QED
  BY <1>1, <1>2, <1>3, <1>5, <1>6, DepthAssumption DEF StackInv, Raised

LEMMA RaiseKeeps ==
    ASSUME StackInv, NEW e \in Exception \cup {UNWIND}, Raise(e)
    PROVE  StackInv'
<1>1. stack # <<>> /\ Top \in SoundFrame /\ Top.stage \in CodeStage
  BY TopIsSound DEF Raise, At
<1>2. exc' \in Raised /\ exc' # NULL
  <2>1. RunningCode \in {"code", "hook", "aside"}
    BY DEF RunningCode
  <2>2. [what |-> e, by |-> RunningCode] \in Thrown
    BY <2>1 DEF Thrown
  <2> QED
    BY <2>2, NullAssumption DEF Raise, Raised
<1> DEFINE frame == GoingOn(Top, "handler")
<1>3. /\ frame \in SoundFrame /\ frame.stage = Top.stage
      /\ frame.stage = "body" => frame.opline = "handler"
  BY <1>1, GoingOnIsSound DEF Opline
<1>4. SetTop(frame)
  BY DEF Raise
<1> HIDE DEF frame
<1> QED
  BY <1>1, <1>2, <1>3, <1>4, SetTopKeeps DEF CodeStage, HookStage, AsideStage

LEMMA CatchKeeps ==
    ASSUME StackInv, Catch
    PROVE  StackInv'
<1>1. stack # <<>> /\ Top \in SoundFrame /\ Top.stage \in CodeStage
  BY TopIsSound DEF Catch, At
<1>2. exc' = NULL /\ NULL \in Raised
  BY DEF Catch, Raised
<1> DEFINE frame == GoingOn(Top, "next")
<1>3. /\ frame \in SoundFrame /\ frame.stage = Top.stage
      /\ frame.stage = "body" => frame.opline = "next"
  BY <1>1, GoingOnIsSound DEF Opline
<1>4. SetTop(frame)
  BY DEF Catch
<1> HIDE DEF frame
<1> QED
  BY <1>1, <1>2, <1>3, <1>4, SetTopKeeps DEF CodeStage, HookStage, AsideStage

LEMMA LeaveMainKeeps ==
    ASSUME StackInv, LeaveMain
    PROVE  StackInv'
<1>1. stack' = <<>> /\ exc' = exc
  BY DEF LeaveMain
<1>2. stack' \in Seq(SoundFrame) /\ Len(stack') = 0
  BY <1>1
<1> QED
  BY <1>1, <1>2, DepthAssumption DEF StackInv

-----------------------------------------------------------------------------
(* The loops of observer_begin and observer_end.                           *)

\* Where a loop over hooks is, if it has not ended.
LEMMA HookListFacts ==
    ASSUME StackInv, stack # <<>>, Top.stage # "body"
    PROVE  /\ HookList \in Seq(Hook)
           /\ HooksLeft => Top.at \in 1..Len(HookList) /\ CurrentHook \in Hook
           /\ Step \in {1, -1}
<1>1. Top.fn \in Function
  BY TopIsSound, FrameTypes DEF Sound
<1>2. HookList \in Seq(Hook)
  BY <1>1, HookAssumption DEF HookList
<1> QED
  BY <1>2 DEF HooksLeft, CurrentHook, Step

LEMMA SkipHookKeeps ==
    ASSUME StackInv, SkipHook
    PROVE  StackInv'
<1> DEFINE frame == [Top EXCEPT !.at = @ + Step]
<1>1. /\ stack # <<>> /\ Top \in SoundFrame /\ Top.stage \in {"pre", "post"}
      /\ HooksLeft /\ SetTop(frame) /\ exc' = exc
  BY TopIsSound DEF SkipHook, At
<1>2. Top.at + Step \in Nat
  BY <1>1, HookListFacts, FrameTypes
<1>3. frame \in Frame
  BY <1>1, <1>2, FrameTypes DEF Frame
<1>4. Sound(frame)
  BY <1>1, FrameTypes DEF Sound, Frame, HookStage, AsideStage
<1>5. frame.opline = "handler" <=> exc' # NULL
  BY <1>1, FrameTypes DEF Frame, StackInv, TopAgrees
<1>6. exc' \in Raised
  BY <1>1 DEF StackInv
<1> HIDE DEF frame
<1> QED
  BY <1>1, <1>3, <1>4, <1>5, <1>6, SetTopKeeps DEF SoundFrame

LEMMA StartAsideKeeps ==
    ASSUME StackInv, StartAside
    PROVE  StackInv'
<1> DEFINE stage == IF Top.stage = "pre" THEN "preaside" ELSE "postaside"
           frame == [Top EXCEPT !.stage = stage, !.saved = exc]
<1>1. /\ stack # <<>> /\ Top \in SoundFrame /\ Top.stage \in {"pre", "post"}
      /\ SetTop(frame) /\ exc' = NULL /\ exc \in Raised
  BY TopIsSound DEF StartAside, At, StackInv
<1>2. frame \in Frame
  BY <1>1, FrameTypes DEF Frame, Stage
<1>3. Top.opline = "handler" <=> exc # NULL
  BY <1>1 DEF StackInv, TopAgrees
<1>4. Sound(frame)
  BY <1>1, <1>3, FrameTypes DEF Sound, Frame, HookStage, AsideStage
<1>5. frame.stage \notin {"pre", "body", "post"} /\ exc' \in Raised
  BY <1>1, FrameTypes DEF Frame, Raised
<1> HIDE DEF frame
<1> QED
  BY <1>1, <1>2, <1>4, <1>5, SetTopKeeps DEF SoundFrame

LEMMA LeaveAsideKeeps ==
    ASSUME StackInv, NEW missing \in BOOLEAN, LeaveAside(missing)
    PROVE  StackInv'
<1> DEFINE stage  == IF Top.stage = "preaside" THEN "pre" ELSE "post"
           at     == IF missing THEN Top.at + Step ELSE Top.at
           missed == IF missing THEN Top.missed \cup {Top.at} ELSE Top.missed
           opline == IF exc = NULL THEN Top.opline ELSE "handler"
           frame  == [Top EXCEPT !.stage = stage, !.at = at, !.missed = missed,
                                 !.opline = opline, !.saved = NULL]
<1>1. /\ stack # <<>> /\ Top \in SoundFrame /\ Top.stage \in AsideStage
      /\ SetTop(frame) /\ exc' = IF exc = NULL THEN Top.saved ELSE exc
      /\ missing => HooksLeft
  BY TopIsSound DEF LeaveAside, At
<1>2. at \in Nat /\ missed \in SUBSET Nat /\ opline \in Opline
  <2>1. Top.stage # "body" /\ Top.at \in Nat
    BY <1>1, FrameTypes DEF AsideStage
  <2>2. missing => at \in Nat
    BY <1>1, <2>1, HookListFacts
  <2>3. ~missing => at \in Nat
    BY <2>1
  <2>4. missed \in SUBSET Nat /\ opline \in Opline
    BY <1>1, <2>1, FrameTypes DEF Frame, Opline
  <2> QED
    BY <2>2, <2>3, <2>4
<1>3. /\ Top.fn # Main
      /\ Top.opline = "handler" <=> Top.saved # NULL
      /\ Top.saved \in Raised /\ exc \in Raised
  BY <1>1, FrameTypes DEF Sound, AsideStage, Frame, StackInv
<1>4. /\ stage = "pre" => Top.stage = "preaside"
      /\ stage = "post" => Top.stage = "postaside"
      /\ stage \in {"pre", "post"}
  BY <1>1 DEF AsideStage
<1>5. opline = "handler" <=> exc' # NULL
  <2>1. CASE exc = NULL
    BY <1>1, <1>3, <2>1
  <2>2. CASE exc # NULL
    BY <1>1, <2>2
  <2> QED
    BY <2>1, <2>2
<1> HIDE DEF stage, at, missed, opline
<1>6. frame \in Frame
  BY <1>1, <1>2, <1>4, FrameTypes DEF Frame, Stage, Raised
<1>7. Sound(frame)
  BY <1>1, <1>3, <1>4, FrameTypes DEF Sound, Frame, HookStage, AsideStage
<1>8. frame.opline = "handler" <=> exc' # NULL
  BY <1>1, <1>5, FrameTypes DEF Frame
<1>9. exc' \in Raised
  BY <1>1, <1>3
<1> HIDE DEF frame
<1> QED
  BY <1>1, <1>6, <1>7, <1>8, <1>9, SetTopKeeps DEF SoundFrame

LEMMA StartHookKeeps ==
    ASSUME StackInv, StartHook
    PROVE  StackInv'
<1> DEFINE stage == IF Top.stage = "pre" THEN "prehook" ELSE "posthook"
           ran   == Append(Top.ran, CurrentHook)
           frame == [Top EXCEPT !.stage = stage, !.saved = exc, !.resume = Top.opline,
                                !.ran = ran]
<1>1. /\ stack # <<>> /\ Top \in SoundFrame /\ Top.stage \in {"pre", "post"}
      /\ HooksLeft /\ SetTop(frame) /\ exc' = NULL
  BY TopIsSound DEF StartHook, At
<1>2. CurrentHook \in Hook /\ Top.at # 0 /\ exc \in Raised
  BY <1>1, HookListFacts DEF StackInv
<1>3. ran \in Seq(Hook)
  BY <1>1, <1>2, FrameTypes DEF Frame
<1> HIDE DEF ran
<1>4. frame \in Frame
  BY <1>1, <1>2, <1>3, FrameTypes DEF Frame, Stage
<1>5. Top.opline = "handler" <=> exc # NULL
  BY <1>1 DEF StackInv, TopAgrees
<1>6. Sound(frame)
  BY <1>1, <1>2, <1>5, FrameTypes DEF Sound, Frame, HookStage, AsideStage
<1>7. frame.stage \notin {"pre", "body", "post"} /\ exc' \in Raised
  BY <1>1, FrameTypes DEF Frame, Raised
<1> HIDE DEF frame
<1> QED
  BY <1>1, <1>4, <1>6, <1>7, SetTopKeeps DEF SoundFrame

LEMMA EnterBodyKeeps ==
    ASSUME StackInv, EnterBody
    PROVE  StackInv'
<1> DEFINE frame == [Top EXCEPT !.stage = "body"]
<1>1. /\ stack # <<>> /\ Top \in SoundFrame /\ Top.stage = "pre"
      /\ SetTop(frame) /\ exc' = exc
  BY TopIsSound DEF EnterBody, At
<1>2. frame \in Frame
  BY <1>1, FrameTypes DEF Frame, Stage
<1>3. Sound(frame)
  BY <1>1, FrameTypes DEF Sound, Frame, HookStage, AsideStage
<1>4. (frame.opline = "handler" <=> exc' # NULL) /\ exc' \in Raised
  BY <1>1, FrameTypes DEF Frame, StackInv, TopAgrees
<1> HIDE DEF frame
<1> QED
  BY <1>1, <1>2, <1>3, <1>4, SetTopKeeps DEF SoundFrame

LEMMA LeavePreHookKeeps ==
    ASSUME StackInv, NEW v \in Value \cup {NULL}, LeavePreHook(v)
    PROVE  StackInv'
<1> DEFINE args  == IF exc = NULL /\ v # NULL THEN v ELSE Top.args
           frame == [Top EXCEPT !.stage = "pre", !.at = @ + Step,
                                !.args = args, !.params = args, !.opline = Resumed,
                                !.saved = NULL, !.resume = "next"]
<1>1. /\ stack # <<>> /\ Top \in SoundFrame /\ Top.stage = "prehook"
      /\ SetTop(frame) /\ exc' = Top.saved
  BY TopIsSound DEF LeavePreHook, At, EndIsolation
<1>2. Step = 1 /\ Top.at + Step \in Nat
  BY <1>1, FrameTypes DEF Step, BeginStage
<1>3. Top.fn # Main /\ (Top.resume = "handler" <=> Top.saved # NULL)
  BY <1>1, FrameTypes DEF Sound, HookStage
<1>4. args \in Value \cup {NULL} /\ Resumed \in Opline /\ Top.saved \in Raised
  BY <1>1, FrameTypes DEF Frame, Resumed
<1> HIDE DEF args
<1>5. frame \in Frame
  BY <1>1, <1>2, <1>4, FrameTypes DEF Frame, Stage, Raised, Opline
<1>6. Sound(frame)
  BY <1>1, <1>3, FrameTypes DEF Sound, Frame, HookStage, AsideStage
<1>7. (frame.opline = "handler" <=> exc' # NULL) /\ exc' \in Raised
  BY <1>1, <1>3, <1>4, FrameTypes DEF Frame, Resumed
<1> HIDE DEF frame
<1> QED
  BY <1>1, <1>5, <1>6, <1>7, SetTopKeeps DEF SoundFrame

LEMMA LeaveBodyKeeps ==
    ASSUME StackInv, NEW v \in Value \cup {NULL}, LeaveBody(v)
    PROVE  StackInv'
<1> DEFINE slot   == CASE ~Top.used              -> NULL
                       [] Top.used /\ exc = NULL -> v
                       [] OTHER                  -> GARBAGE
           shown  == IF exc = NULL THEN v ELSE NULL
           frame  == [Top EXCEPT !.stage = "post", !.at = Len(Post[Top.fn]),
                        !.params = Top.args, !.slot = slot, !.shown = shown,
                        !.thrown = FuncGetException(exc),
                        !.left = exc, !.ran = <<>>, !.missed = {}]
<1>1. /\ stack # <<>> /\ Top \in SoundFrame /\ Top.stage = "body" /\ Top.fn # Main
      /\ SetTop(frame) /\ exc' = exc /\ exc \in Raised
  BY TopIsSound DEF LeaveBody, At, StackInv
<1>2. Len(Post[Top.fn]) \in Nat
  BY <1>1, FrameTypes, HookAssumption
<1>3. /\ slot \in Value \cup {NULL, GARBAGE} /\ shown \in Value \cup {NULL, GARBAGE}
      /\ FuncGetException(exc) \in Raised
  <2>1. CASE ~Top.used
    BY <1>1, <2>1 DEF Raised, FuncGetException
  <2>2. CASE Top.used /\ exc = NULL
    BY <1>1, <2>2 DEF Raised, FuncGetException
  <2>3. CASE Top.used /\ exc # NULL
    BY <1>1, <2>3 DEF Raised, FuncGetException
  <2> QED
    BY <1>1, <2>1, <2>2, <2>3, FrameTypes
<1>4. Top.used /\ exc = NULL => shown = slot
  BY <1>1, FrameTypes
<1> HIDE DEF slot, shown
<1>5. frame \in Frame
  <2>1. <<>> \in Seq(Hook) /\ {} \in SUBSET Nat
    OBVIOUS
  <2> QED
    BY <1>1, <1>2, <1>3, <2>1, FrameTypes DEF Frame, Stage
<1>6. Sound(frame)
  BY <1>1, <1>4, FrameTypes DEF Sound, Frame, HookStage, AsideStage
<1>7. frame.opline = "handler" <=> exc' # NULL
  BY <1>1, FrameTypes DEF Frame, StackInv, TopAgrees
<1> HIDE DEF frame
<1> QED
  BY <1>1, <1>5, <1>6, <1>7, SetTopKeeps DEF SoundFrame

LEMMA LeavePostHookKeeps ==
    ASSUME StackInv, NEW v \in Value \cup {NULL}, LeavePostHook(v)
    PROVE  StackInv'
<1> DEFINE slot  == IF exc = NULL /\ CurrentHook \in Typed /\ Top.used THEN v ELSE Top.slot
           frame == [Top EXCEPT !.stage = "post", !.at = @ + Step,
                                !.slot = slot, !.shown = slot, !.opline = Resumed,
                                !.saved = NULL, !.resume = "next"]
<1>1. /\ stack # <<>> /\ Top \in SoundFrame /\ Top.stage = "posthook"
      /\ SetTop(frame) /\ exc' = Top.saved
  BY TopIsSound DEF LeavePostHook, At, EndIsolation
<1>2. /\ Top.fn # Main /\ Top.at # 0
      /\ Top.resume = "handler" <=> Top.saved # NULL
      /\ Top.thrown = FuncGetException(Top.left)
  BY <1>1, FrameTypes DEF Sound, HookStage
<1>3. Top.at + Step \in Nat
  BY <1>1, <1>2, FrameTypes DEF Step, BeginStage
<1>4. slot \in Value \cup {NULL, GARBAGE} /\ Resumed \in Opline /\ Top.saved \in Raised
  BY <1>1, FrameTypes DEF Frame, Resumed
<1> HIDE DEF slot
<1>5. frame \in Frame
  BY <1>1, <1>3, <1>4, FrameTypes DEF Frame, Stage, Raised, Opline
<1>6. Sound(frame)
  BY <1>1, <1>2, FrameTypes DEF Sound, Frame, HookStage, AsideStage
<1>7. (frame.opline = "handler" <=> exc' # NULL) /\ exc' \in Raised
  BY <1>1, <1>2, <1>4, FrameTypes DEF Frame, Resumed
<1> HIDE DEF frame
<1> QED
  BY <1>1, <1>5, <1>6, <1>7, SetTopKeeps DEF SoundFrame

\* Changing a sequence outside of it, and within it.
LEMMA ExceptOutside ==
    ASSUME NEW S, NEW s \in Seq(S), NEW n, n \notin DOMAIN s, NEW x
    PROVE  [s EXCEPT ![n] = x] = s
  OBVIOUS

LEMMA ExceptWithin ==
    ASSUME NEW S, NEW s \in Seq(S), NEW n \in 1..Len(s), NEW x \in S
    PROVE  /\ [s EXCEPT ![n] = x] \in Seq(S) /\ Len([s EXCEPT ![n] = x]) = Len(s)
           /\ [s EXCEPT ![n] = x][n] = x
           /\ \A i \in 1..n - 1 : [s EXCEPT ![n] = x][i] = s[i]
  OBVIOUS

\* A sequence without its last element.
LEMMA WithoutTheLast ==
    ASSUME NEW S, NEW s \in Seq(S), NEW n \in Nat, Len(s) = n + 1
    PROVE  /\ SubSeq(s, 1, n) \in Seq(S) /\ Len(SubSeq(s, 1, n)) = n
           /\ \A i \in 1..n : SubSeq(s, 1, n)[i] = s[i]
<1>1. \A i \in 1..n : s[i] \in S
  OBVIOUS
<1>2. Len(SubSeq(s, 1, n)) = n
  OBVIOUS
<1>3. SubSeq(s, 1, n) \in Seq(S)
  BY <1>1
<1>4. \A i \in 1..n : SubSeq(s, 1, n)[i] = s[i]
  BY <1>1
<1> QED
  BY <1>2, <1>3, <1>4

\* The caller was waiting; a body is told of the exception that is left.
LEMMA EndCallKeeps ==
    ASSUME StackInv, EndCall
    PROVE  StackInv'
<1>1. /\ stack # <<>> /\ stack \in Seq(SoundFrame) /\ Len(stack) \in Nat
      /\ Len(stack) >= 1 /\ Len(stack) <= MaxDepth /\ exc' = exc /\ exc \in Raised
  BY TopIsSound DEF EndCall, At, StackInv
<1>2. PICK caller \in Nat : caller = Len(stack) - 1
  BY <1>1
<1> DEFINE opline == IF exc = NULL THEN "next" ELSE "handler"
           frame  == GoingOn(stack[caller], opline)
           below  == SubSeq(stack, 1, caller)
<1>3. stack' = [below EXCEPT ![caller] = GoingOn(@, opline)]
  BY <1>2 DEF EndCall
<1>4. Len(stack) = caller + 1
  BY <1>1, <1>2
<1>5. /\ below \in Seq(SoundFrame) /\ Len(below) = caller
      /\ \A i \in 1..caller : below[i] = stack[i]
  BY <1>1, <1>4, WithoutTheLast
<1> HIDE DEF below
<1>6. CASE caller = 0
  <2>1. caller \notin DOMAIN below
    BY <1>5, <1>6
  <2>2. stack' = below
    BY <1>3, <1>5, <2>1, ExceptOutside
  <2>3. stack' = <<>>
    BY <1>5, <1>6, <2>2
  <2> QED
    BY <1>1, <1>5, <2>2, <2>3, DepthAssumption DEF StackInv
<1>7. CASE caller # 0
  <2>1. caller \in 1..Len(below) /\ caller \in 1..Len(stack) - 1
    BY <1>4, <1>5, <1>7
  <2>2. stack[caller] \in SoundFrame /\ Waits(stack[caller]) /\ below[caller] = stack[caller]
    BY <1>1, <1>4, <1>5, <2>1 DEF StackInv
  <2>3. /\ frame \in SoundFrame /\ frame.stage = stack[caller].stage
        /\ frame.stage = "body" => frame.opline = opline
    BY <2>2, GoingOnIsSound DEF Opline
  <2>4. stack' = [below EXCEPT ![caller] = frame]
    BY <1>3, <2>2
  <2> HIDE DEF frame
  <2>5. /\ stack' \in Seq(SoundFrame) /\ Len(stack') = Len(below) /\ stack'[caller] = frame
        /\ \A i \in 1..caller - 1 : stack'[i] = below[i]
    BY <1>5, <2>1, <2>3, <2>4, ExceptWithin
  <2>6. frame.stage \in CodeStage
    BY <2>2, <2>3 DEF Waits
  <2>7. Len(stack') = caller /\ Top' = frame
    BY <1>5, <2>5 DEF Top
  <2>8. TopAgrees'
    BY <1>1, <2>3, <2>6, <2>7 DEF TopAgrees, CodeStage, HookStage, AsideStage
  <2>9. \A i \in 1..Len(stack') - 1 : Waits(stack'[i])
    <3>1. \A i \in 1..caller - 1 : stack'[i] = stack[i] /\ i \in 1..Len(stack) - 1
      BY <1>4, <1>5, <2>5
    <3> QED
      BY <2>7, <3>1 DEF StackInv
  <2>10. Len(stack') <= MaxDepth
    BY <1>1, <1>4, <2>7, DepthAssumption
  <2> QED
    BY <1>1, <2>5, <2>8, <2>9, <2>10 DEF StackInv
<1> QED
  BY <1>6, <1>7

-----------------------------------------------------------------------------
LEMMA NextKeeps ==
    ASSUME StackInv, [Next]_vars
    PROVE  StackInv'
<1>1. CASE Dispatch
  BY <1>1, SkipHookKeeps, StartHookKeeps, EnterBodyKeeps, EndCallKeeps DEF Dispatch
<1>2. CASE Code
  BY <1>2, CallKeeps, RaiseKeeps, CatchKeeps, LeaveMainKeeps, StartAsideKeeps,
     LeaveAsideKeeps, LeavePreHookKeeps, LeavePostHookKeeps, LeaveBodyKeeps DEF Code
<1>3. CASE UNCHANGED vars
  BY <1>3 DEF vars, StackInv, TopAgrees, Top
<1> QED
  BY <1>1, <1>2, <1>3 DEF Next

\* The inductive invariant of the dispatcher.
THEOREM StackInvHolds == Spec => []StackInv
<1>1. Init => StackInv
  BY InitSound
<1>2. StackInv /\ [Next]_vars => StackInv'
  BY NextKeeps
<1> QED
  BY <1>1, <1>2, PTL DEF Spec

\* The stack is one of frames, and the extension acts in the innermost only.
THEOREM TypeCorrect == Spec => []TypeOK
<1>1. StackInv => TypeOK
  <2>1. SoundFrame \subseteq Frame
    BY DEF SoundFrame
  <2>2. StackInv => stack \in Seq(Frame)
    BY <2>1 DEF StackInv
  <2> QED
    BY <2>2 DEF StackInv, TypeOK, Waits
<1> QED
  BY <1>1, StackInvHolds, PTL

\* Every hook is shown the arguments and the result as the hooks before it left
\* them, and the exception that ended the body: the ends of the loops of
\* observer_begin and observer_end, for any nesting of calls, whatever is raised
\* in hooks and in code that runs aside.
THEOREM HooksSeeCurrentStateHolds == Spec => []HooksSeeCurrentState
<1>1. StackInv => HooksSeeCurrentState
  BY TopIsSound, FrameTypes DEF StackInv, TopAgrees, HooksSeeCurrentState, At, Sound
<1> QED
  BY <1>1, StackInvHolds, PTL

\* No frame is left at its exception handler without an exception, or with one
\* at its next instruction: exception_isolation_start and _end, for any nesting
\* of calls, hooks that raise and code that raises aside.
THEOREM FramesGoOnAsRaisedHolds == Spec => []FramesGoOnAsRaised
<1>1. StackInv => FramesGoOnAsRaised
  BY DEF StackInv, TopAgrees, FramesGoOnAsRaised, At, Waits
<1> QED
  BY <1>1, StackInvHolds, PTL

-----------------------------------------------------------------------------
(* The order of the hooks.                                                 *)

LEMMA NothingIsInOrder ==
    ASSUME NEW list, NEW forward \in BOOLEAN
    PROVE  InOrder(<<>>, list, {}, forward)
<1> DEFINE at == [k \in {} |-> 0]
<1>1. at \in [DOMAIN <<>> -> {}] /\ DOMAIN <<>> = {}
  OBVIOUS
<1> QED
  BY <1>1 DEF InOrder

\* One more hook is run, and it is the next one.
LEMMA InOrderExtends ==
    ASSUME NEW list \in Seq(Hook), NEW run \in Seq(Hook), NEW positions \in SUBSET Nat,
           NEW forward \in BOOLEAN, InOrder(run, list, positions, forward),
           NEW i \in Nat, \A p \in positions : IF forward THEN p < i ELSE i < p
    PROVE  InOrder(Append(run, list[i]), list, positions \cup {i}, forward)
<1>1. PICK at \in [DOMAIN run -> positions] :
        /\ \A k \in DOMAIN run : run[k] = list[at[k]]
        /\ \A p \in positions : \E k \in DOMAIN run : at[k] = p
        /\ \A k, l \in DOMAIN run :
            k < l => IF forward THEN at[k] < at[l] ELSE at[l] < at[k]
  BY DEF InOrder
<1> DEFINE longer == Append(run, list[i])
           n      == Len(run) + 1
           more   == [k \in 1..n |-> IF k = n THEN i ELSE at[k]]
<1>2. /\ Len(run) \in Nat /\ DOMAIN run = 1..Len(run)
      /\ DOMAIN longer = 1..n /\ longer[n] = list[i]
      /\ \A k \in 1..Len(run) : longer[k] = run[k]
  OBVIOUS
<1>3. more \in [DOMAIN longer -> positions \cup {i}]
  BY <1>2
<1>4. \A k \in DOMAIN longer : longer[k] = list[more[k]]
  BY <1>1, <1>2
<1>5. \A p \in positions \cup {i} : \E k \in DOMAIN longer : more[k] = p
  <2>1. n \in DOMAIN longer /\ more[n] = i
    BY <1>2
  <2>2. ASSUME NEW p \in positions PROVE \E k \in DOMAIN longer : more[k] = p
    <3>1. PICK k \in DOMAIN run : at[k] = p
      BY <1>1
    <3>2. k \in DOMAIN longer /\ more[k] = p
      BY <1>2, <3>1
    <3> QED
      BY <3>2
  <2> QED
    BY <2>1, <2>2
<1>6. ASSUME NEW k \in DOMAIN longer, NEW l \in DOMAIN longer, k < l
      PROVE  IF forward THEN more[k] < more[l] ELSE more[l] < more[k]
  <2>1. k \in DOMAIN run /\ more[k] = at[k] /\ at[k] \in positions
    BY <1>2, <1>6
  <2>2. CASE l = n
    BY <1>2, <2>1, <2>2
  <2>3. CASE l # n
    <3>1. l \in DOMAIN run /\ more[l] = at[l]
      BY <1>2, <2>3
    <3> QED
      BY <1>1, <1>6, <2>1, <3>1
  <2> QED
    BY <2>2, <2>3
<1> HIDE DEF more, longer
<1> QED
  BY <1>3, <1>4, <1>5, <1>6 DEF InOrder, longer

\* The positions before and behind the one numbered n.
Below(positions, n) == {p \in positions : p < n}
Above(positions, n) == {p \in positions : p > n}

LEMMA BelowMoves ==
    ASSUME NEW positions \in SUBSET Nat, NEW n \in Nat
    PROVE  /\ n \notin positions => Below(positions, n + 1) = Below(positions, n)
           /\ n \in positions => Below(positions, n + 1) = Below(positions, n) \cup {n}
           /\ Below(positions, n) \in SUBSET Nat /\ \A p \in Below(positions, n) : p < n
<1>1. \A p \in positions : p \in Nat /\ (p < n + 1 <=> p < n \/ p = n)
  OBVIOUS
<1> QED
  BY <1>1 DEF Below

LEMMA AboveMoves ==
    ASSUME NEW positions \in SUBSET Nat, NEW n \in Nat
    PROVE  /\ n \notin positions => Above(positions, n - 1) = Above(positions, n)
           /\ n \in positions => Above(positions, n - 1) = Above(positions, n) \cup {n}
           /\ Above(positions, n) \in SUBSET Nat /\ \A p \in Above(positions, n) : n < p
<1>1. \A p \in positions : p \in Nat /\ (p > n - 1 <=> p > n \/ p = n) /\ (p > n <=> n < p)
  OBVIOUS
<1> QED
  BY <1>1 DEF Above

\* A position that is dropped when it is passed was not counted before.
LEMMA DroppedWhenPassed ==
    ASSUME NEW positions \in SUBSET Nat, NEW n \in Nat
    PROVE  /\ Below(positions \ {n}, n + 1) = Below(positions, n)
           /\ Above(positions \ {n}, n - 1) = Above(positions, n)
<1>1. \A p \in positions : p \in Nat /\ (p < n <=> p < n + 1 /\ p # n) /\ (p > n <=> p > n - 1 /\ p # n)
  OBVIOUS
<1> QED
  BY <1>1 DEF Below, Above

LEMMA BelowAboveEnds ==
    ASSUME NEW len \in Nat, NEW positions \in SUBSET (1..len)
    PROVE  /\ Below(positions, 1) = {} /\ Above(positions, len) = {}
           /\ Above(positions, 0) = positions
           /\ \A n \in Nat : n # 0 /\ n \notin 1..len => Below(positions, n) = positions
<1>1. \A p \in positions : p \in Nat /\ ~(p < 1) /\ ~(p > len) /\ p > 0 /\ p <= len
  OBVIOUS
<1>2. Below(positions, 1) = {} /\ Above(positions, len) = {} /\ Above(positions, 0) = positions
  BY <1>1 DEF Below, Above
<1>3. ASSUME NEW n \in Nat, n # 0, n \notin 1..len PROVE Below(positions, n) = positions
  <2>1. n > len
    BY <1>3
  <2>2. \A p \in positions : p < n
    BY <1>1, <2>1
  <2> QED
    BY <2>2 DEF Below
<1> QED
  BY <1>2, <1>3

\* The list a call walks, and where in it are the hooks that are to run.
Forward(frame) == frame.stage \in BeginStage \cup {"body"}
ListOf(frame)  == IF Forward(frame) THEN Pre[frame.fn] ELSE Post[frame.fn]
ToRun(frame)   == RunnableAt(ListOf(frame)) \ frame.missed

\* The positions of the hooks a call has run, by where it is.
Done(frame) ==
    CASE frame.stage \in {"pre", "preaside"}   -> Below(ToRun(frame), frame.at)
      [] frame.stage = "prehook"               -> Below(ToRun(frame), frame.at + 1)
      [] frame.stage = "body"                  -> ToRun(frame)
      [] frame.stage = "posthook"              -> Above(ToRun(frame), frame.at - 1)
      [] frame.stage \in {"post", "postaside"} -> Above(ToRun(frame), frame.at)

\* Where a call may be in its list: what was missed lies behind.
Placed(frame) ==
    /\ frame.stage \in {"pre", "preaside"} => frame.at # 0
    /\ frame.stage \in BeginStage => \A m \in frame.missed : m < frame.at
    /\ ~Forward(frame) =>
        /\ frame.at <= Len(Post[frame.fn])
        /\ \A m \in frame.missed : m > frame.at

\* The hooks of a call were run in order so far.
Ordered(frame) ==
    frame.fn # Main =>
        /\ InOrder(frame.ran, ListOf(frame), Done(frame), Forward(frame))
        /\ Placed(frame)

OrderInv == \A i \in 1..Len(stack) : Ordered(stack[i])

\* What the order of hooks depends on.
LEMMA OrderedAsBefore ==
    ASSUME NEW frame \in SoundFrame, NEW opline \in Opline, Ordered(frame)
    PROVE  Ordered(GoingOn(frame, opline))
<1> DEFINE on == GoingOn(frame, opline)
<1>1. /\ on.fn = frame.fn /\ on.stage = frame.stage /\ on.at = frame.at
      /\ on.ran = frame.ran /\ on.missed = frame.missed
  <2>1. CASE frame.stage = "body"
    <3>1. on = [frame EXCEPT !.opline = opline]
      BY <2>1 DEF GoingOn
    <3> HIDE DEF on
    <3> QED
      BY <3>1, FrameTypes DEF Frame
  <2>2. CASE frame.stage # "body"
    BY <2>2 DEF GoingOn
  <2> QED
    BY <2>1, <2>2
<1> HIDE DEF on
<1>2. Forward(on) = Forward(frame) /\ ListOf(on) = ListOf(frame) /\ ToRun(on) = ToRun(frame)
  BY <1>1 DEF Forward, ListOf, ToRun
<1>3. Done(on) = Done(frame) /\ (Placed(on) <=> Placed(frame))
  BY <1>1, <1>2 DEF Done, Placed
<1>4. Ordered(on)
  BY <1>1, <1>2, <1>3 DEF Ordered
<1> QED
  BY <1>4 DEF on

LEMMA SetTopKeepsOrder ==
    ASSUME StackInv, OrderInv, stack # <<>>, NEW frame, SetTop(frame), Ordered(frame)
    PROVE  OrderInv'
<1>1. stack \in Seq(SoundFrame) /\ stack' = [stack EXCEPT ![Len(stack)] = frame]
  BY DEF StackInv, SetTop
<1>2. Len(stack) \in Nat /\ Len(stack) >= 1
  BY <1>1
<1>3. Len(stack') = Len(stack)
  BY <1>1
<1>4. /\ stack'[Len(stack)] = frame
      /\ \A i \in 1..Len(stack) - 1 : stack'[i] = stack[i]
  BY <1>1, <1>2
<1>5. ASSUME NEW i \in 1..Len(stack) PROVE Ordered(stack'[i])
  <2>1. CASE i = Len(stack)
    BY <1>4, <2>1
  <2>2. CASE i # Len(stack)
    <3>1. i \in 1..Len(stack) - 1
      BY <1>2, <2>2
    <3>2. stack'[i] = stack[i]
      BY <1>4, <3>1
    <3>3. Ordered(stack[i])
      BY DEF OrderInv
    <3> QED
      BY <3>2, <3>3
  <2> QED
    BY <2>1, <2>2
<1> QED
  BY <1>3, <1>5 DEF OrderInv

LEMMA TopIsOrdered ==
    ASSUME StackInv, OrderInv, stack # <<>>
    PROVE  Ordered(Top) /\ Top \in SoundFrame
  BY TopIsSound DEF OrderInv, Top

LEMMA ListsOfHooks ==
    ASSUME NEW frame \in SoundFrame, frame.fn # Main
    PROVE  /\ ListOf(frame) \in Seq(Hook) /\ Len(ListOf(frame)) \in Nat
           /\ DOMAIN ListOf(frame) = 1..Len(ListOf(frame))
           /\ ToRun(frame) \in SUBSET (1..Len(ListOf(frame))) /\ ToRun(frame) \in SUBSET Nat
           /\ Forward(frame) \in BOOLEAN
           /\ Forward(frame) => ListOf(frame) = Pre[frame.fn]
           /\ ~Forward(frame) => ListOf(frame) = Post[frame.fn]
           /\ Len(Post[frame.fn]) \in Nat
<1>1. Pre[frame.fn] \in Seq(Hook) /\ Post[frame.fn] \in Seq(Hook)
  BY FrameTypes, HookAssumption
<1>2. ListOf(frame) \in Seq(Hook)
  BY <1>1 DEF ListOf
<1> QED
  BY <1>1, <1>2 DEF RunnableAt, ToRun, ListOf, Forward

\* The loops walk the list of the innermost call.
LEMMA LoopsWalkTheList ==
    ASSUME StackInv, OrderInv, stack # <<>>, Top.stage # "body"
    PROVE  /\ Top \in SoundFrame /\ Ordered(Top) /\ Top.fn \in Function /\ Top.fn # Main
           /\ Top.at \in Nat /\ Top.ran \in Seq(Hook) /\ Top.missed \in SUBSET Nat
           /\ HookList = ListOf(Top)
           /\ Forward(Top) => Step = 1
           /\ ~Forward(Top) => Step = -1
           /\ HooksLeft => Top.at \in 1..Len(ListOf(Top))
<1>1. /\ Top \in SoundFrame /\ Ordered(Top)
      /\ Top.fn # Main /\ Top.fn \in Function /\ Top.at \in Nat
  BY TopIsOrdered, FrameTypes DEF Sound
<1>2. HookList = ListOf(Top)
  BY DEF HookList, ListOf, Forward
<1>3. /\ Forward(Top) => Step = 1
      /\ ~Forward(Top) => Step = -1
  BY DEF Forward, Step
<1>4. HooksLeft => Top.at \in 1..Len(ListOf(Top))
  BY <1>1, <1>2, ListsOfHooks DEF HooksLeft
<1>5. Top.ran \in Seq(Hook) /\ Top.missed \in SUBSET Nat
  BY <1>1, FrameTypes DEF Frame
<1> QED
  BY <1>1, <1>2, <1>3, <1>4, <1>5

\* PHP code changes no call but by calling a function.
LEMMA CodeKeepsOrder ==
    ASSUME StackInv, OrderInv, NEW opline \in Opline, stack # <<>>,
           SetTop(GoingOn(Top, opline))
    PROVE  OrderInv'
  BY TopIsOrdered, OrderedAsBefore, SetTopKeepsOrder

LEMMA CallKeepsOrder ==
    ASSUME StackInv, OrderInv, NEW f \in Function, NEW a \in Value, NEW used \in BOOLEAN,
           Call(f, a, used)
    PROVE  OrderInv'
<1> DEFINE frame == NewFrame(f, a, used)
<1>1. /\ stack \in Seq(SoundFrame) /\ frame \in SoundFrame
      /\ stack' = Append(stack, frame)
  BY NewFrameIsSound DEF StackInv, Call
<1>2. Ordered(frame)
  <2>1. /\ frame.fn = f /\ frame.stage = "pre" /\ frame.at = 1
        /\ frame.ran = <<>> /\ frame.missed = {} /\ f # Main
    BY HookAssumption DEF NewFrame
  <2> HIDE DEF frame
  <2>2. Below(ToRun(frame), 1) = {}
    BY <1>1, <2>1, ListsOfHooks, BelowAboveEnds
  <2>3. Done(frame) = {}
    BY <2>1, <2>2 DEF Done
  <2>4. InOrder(frame.ran, ListOf(frame), Done(frame), Forward(frame))
    BY <1>1, <2>1, <2>3, NothingIsInOrder, ListsOfHooks
  <2>5. Placed(frame)
    BY <2>1 DEF Placed, Forward, BeginStage
  <2> QED
    BY <2>4, <2>5 DEF Ordered
<1> HIDE DEF frame
<1>3. /\ Len(stack) \in Nat /\ Len(stack') = Len(stack) + 1
      /\ stack'[Len(stack) + 1] = frame
      /\ \A i \in 1..Len(stack) : stack'[i] = stack[i]
  BY <1>1
<1>4. \A i \in 1..Len(stack') : Ordered(stack'[i])
  BY <1>2, <1>3 DEF OrderInv
<1> QED
  BY <1>4 DEF OrderInv

LEMMA SkipHookKeepsOrder ==
    ASSUME StackInv, OrderInv, SkipHook
    PROVE  OrderInv'
<1> DEFINE frame == [Top EXCEPT !.at = @ + Step]
<1>1. /\ stack # <<>> /\ Top.stage \in {"pre", "post"} /\ HooksLeft
      /\ CurrentHook \notin Runnable /\ SetTop(frame)
  BY DEF SkipHook, At
<1>2. /\ Top \in SoundFrame /\ Ordered(Top) /\ Top.fn # Main /\ Top.at \in Nat
      /\ HookList = ListOf(Top) /\ Top.missed \in SUBSET Nat
      /\ Top.at \in 1..Len(ListOf(Top))
  BY <1>1, LoopsWalkTheList
<1>3. /\ frame.fn = Top.fn /\ frame.stage = Top.stage /\ frame.at = Top.at + Step
      /\ frame.ran = Top.ran /\ frame.missed = Top.missed
  BY <1>2, FrameTypes DEF Frame
<1> HIDE DEF frame
<1>4. /\ Forward(frame) = Forward(Top) /\ ListOf(frame) = ListOf(Top)
      /\ ToRun(frame) = ToRun(Top)
  BY <1>3 DEF Forward, ListOf, ToRun
<1>5. Top.at \notin ToRun(Top) /\ ToRun(Top) \in SUBSET Nat
  BY <1>1, <1>2, ListsOfHooks DEF ToRun, RunnableAt, CurrentHook
<1>6. Done(frame) = Done(Top) /\ Placed(frame)
  <2>1. CASE Top.stage = "pre"
    <3>1. Forward(Top) /\ frame.at = Top.at + 1
      BY <1>1, <1>3, <2>1, LoopsWalkTheList DEF Forward, BeginStage
    <3>2. Below(ToRun(Top), Top.at + 1) = Below(ToRun(Top), Top.at)
      BY <1>2, <1>5, BelowMoves
    <3>3. Done(frame) = Done(Top)
      BY <1>3, <1>4, <2>1, <3>1, <3>2 DEF Done
    <3>4. \A m \in Top.missed : m < Top.at
      BY <1>2, <2>1 DEF Ordered, Placed, BeginStage
    <3>5. Placed(frame)
      BY <1>2, <1>3, <1>4, <3>1, <3>4 DEF Placed
    <3> QED
      BY <3>3, <3>5
  <2>2. CASE Top.stage = "post"
    <3>1. ~Forward(Top) /\ frame.at = Top.at - 1
      BY <1>1, <1>2, <1>3, <2>2, LoopsWalkTheList DEF Forward, BeginStage
    <3>2. Above(ToRun(Top), Top.at - 1) = Above(ToRun(Top), Top.at)
      BY <1>2, <1>5, AboveMoves
    <3>3. Done(frame) = Done(Top)
      BY <1>3, <1>4, <2>2, <3>1, <3>2 DEF Done
    <3>4. Top.at <= Len(Post[Top.fn]) /\ \A m \in Top.missed : m > Top.at
      BY <1>2, <3>1 DEF Ordered, Placed
    <3>5. Placed(frame)
      BY <1>2, <1>3, <1>4, <2>2, <3>1, <3>4, ListsOfHooks DEF Placed, BeginStage
    <3> QED
      BY <3>3, <3>5
  <2> QED
    BY <1>1, <2>1, <2>2
<1>7. Ordered(frame)
  BY <1>2, <1>3, <1>4, <1>6 DEF Ordered
<1> QED
  BY <1>1, <1>7, SetTopKeepsOrder

\* A call that keeps its place keeps its order.
LEMMA OrderedInPlace ==
    ASSUME NEW top \in SoundFrame, NEW frame, Ordered(top), top.fn # Main,
           frame.fn = top.fn, frame.at = top.at, frame.ran = top.ran,
           frame.missed = top.missed,
           \/ top.stage \in {"pre", "preaside"} /\ frame.stage \in {"pre", "preaside"}
           \/ top.stage \in {"post", "postaside"} /\ frame.stage \in {"post", "postaside"}
    PROVE  Ordered(frame)
<1>1. /\ Forward(frame) = Forward(top) /\ ListOf(frame) = ListOf(top)
      /\ ToRun(frame) = ToRun(top)
  BY DEF Forward, ListOf, ToRun, BeginStage
<1>2. Done(frame) = Done(top)
  BY <1>1 DEF Done
<1>3. Placed(frame)
  BY <1>1 DEF Ordered, Placed, BeginStage, Forward
<1> QED
  BY <1>1, <1>2, <1>3 DEF Ordered

LEMMA StartAsideKeepsOrder ==
    ASSUME StackInv, OrderInv, StartAside
    PROVE  OrderInv'
<1> DEFINE frame == [Top EXCEPT !.stage = IF @ = "pre" THEN "preaside" ELSE "postaside",
                                !.saved = exc]
<1>1. /\ stack # <<>> /\ Top.stage \in {"pre", "post"} /\ SetTop(frame)
      /\ Top \in SoundFrame /\ Ordered(Top) /\ Top.fn # Main
  BY LoopsWalkTheList DEF StartAside, At
<1>2. /\ frame.fn = Top.fn /\ frame.at = Top.at
      /\ frame.ran = Top.ran /\ frame.missed = Top.missed
      /\ Top.stage = "pre" => frame.stage = "preaside"
      /\ Top.stage = "post" => frame.stage = "postaside"
  BY <1>1, FrameTypes DEF Frame
<1> HIDE DEF frame
<1>3. Ordered(frame)
  BY <1>1, <1>2, OrderedInPlace
<1> QED
  BY <1>1, <1>3, SetTopKeepsOrder

LEMMA LeaveAsideKeepsOrder ==
    ASSUME StackInv, OrderInv, NEW missing \in BOOLEAN, LeaveAside(missing)
    PROVE  OrderInv'
<1> DEFINE stage  == IF Top.stage = "preaside" THEN "pre" ELSE "post"
           at     == IF missing THEN Top.at + Step ELSE Top.at
           missed == IF missing THEN Top.missed \cup {Top.at} ELSE Top.missed
           opline == IF exc = NULL THEN Top.opline ELSE "handler"
           frame  == [Top EXCEPT !.stage = stage, !.at = at, !.missed = missed,
                                 !.opline = opline, !.saved = NULL]
<1>1. /\ stack # <<>> /\ Top.stage \in AsideStage /\ SetTop(frame)
      /\ missing => HooksLeft
  BY DEF LeaveAside, At
<1>2. /\ Top \in SoundFrame /\ Ordered(Top) /\ Top.fn # Main /\ Top.at \in Nat
      /\ Top.missed \in SUBSET Nat
      /\ missing => Top.at \in 1..Len(ListOf(Top))
  BY <1>1, LoopsWalkTheList DEF AsideStage
<1> HIDE DEF opline
<1>3. /\ frame.fn = Top.fn /\ frame.stage = stage /\ frame.at = at
      /\ frame.ran = Top.ran /\ frame.missed = missed
  BY <1>2, FrameTypes DEF Frame
<1> HIDE DEF frame
<1>4. CASE ~missing
  <2>1. Ordered(frame)
    BY <1>1, <1>2, <1>3, <1>4, OrderedInPlace DEF AsideStage
  <2> QED
    BY <1>1, <2>1, SetTopKeepsOrder
<1>5. CASE missing
  <2>1. /\ frame.missed = Top.missed \cup {Top.at} /\ frame.at = Top.at + Step
        /\ Top.at \in 1..Len(ListOf(Top))
    BY <1>2, <1>3, <1>5
  <2>2. ToRun(Top) \in SUBSET Nat /\ Len(Post[Top.fn]) \in Nat
    BY <1>2, ListsOfHooks
  <2> HIDE DEF at, missed
  <2>3. CASE Top.stage = "preaside"
    <3>1. /\ Forward(Top) = TRUE /\ Forward(frame) = TRUE
          /\ ListOf(frame) = ListOf(Top) /\ frame.stage = "pre"
      BY <1>3, <2>3 DEF Forward, ListOf, BeginStage
    <3>2. frame.at = Top.at + 1
      BY <1>1, <2>1, <2>3, <3>1, LoopsWalkTheList
    <3>3. ToRun(frame) = ToRun(Top) \ {Top.at}
      BY <2>1, <3>1 DEF ToRun
    <3>4. Below(ToRun(Top) \ {Top.at}, Top.at + 1) = Below(ToRun(Top), Top.at)
      BY <1>2, <2>2, DroppedWhenPassed
    <3>5. Done(frame) = Done(Top)
      BY <2>3, <3>1, <3>2, <3>3, <3>4 DEF Done
    <3>6. \A m \in Top.missed : m < Top.at /\ m \in Nat
      BY <1>2, <2>3 DEF Ordered, Placed, BeginStage
    <3>7. Placed(frame)
      BY <1>2, <2>1, <3>1, <3>2, <3>6 DEF Placed
    <3>8. Ordered(frame)
      BY <1>2, <1>3, <3>1, <3>5, <3>7 DEF Ordered
    <3> QED
      BY <1>1, <3>8, SetTopKeepsOrder
  <2>4. CASE Top.stage = "postaside"
    <3>1. /\ Forward(Top) = FALSE /\ Forward(frame) = FALSE
          /\ ListOf(frame) = ListOf(Top) /\ frame.stage = "post"
      BY <1>3, <2>4 DEF Forward, ListOf, BeginStage
    <3>2. frame.at = Top.at - 1
      BY <1>1, <1>2, <2>1, <2>4, <3>1, LoopsWalkTheList
    <3>3. ToRun(frame) = ToRun(Top) \ {Top.at}
      BY <2>1, <3>1 DEF ToRun
    <3>4. Above(ToRun(Top) \ {Top.at}, Top.at - 1) = Above(ToRun(Top), Top.at)
      BY <1>2, <2>2, DroppedWhenPassed
    <3>5. Done(frame) = Done(Top)
      BY <2>4, <3>1, <3>2, <3>3, <3>4 DEF Done
    <3>6. Top.at <= Len(Post[Top.fn]) /\ \A m \in Top.missed : m > Top.at /\ m \in Nat
      BY <1>2, <3>1 DEF Ordered, Placed
    <3>7. Placed(frame)
      <4>1. frame.at <= Len(Post[frame.fn])
        BY <1>2, <1>3, <2>2, <3>2, <3>6
      <4>2. \A m \in frame.missed : m > frame.at
        BY <1>2, <2>1, <3>2, <3>6
      <4> QED
        BY <3>1, <4>1, <4>2 DEF Placed, BeginStage
    <3>8. Ordered(frame)
      BY <1>2, <1>3, <3>1, <3>5, <3>7 DEF Ordered
    <3> QED
      BY <1>1, <3>8, SetTopKeepsOrder
  <2> QED
    BY <1>1, <2>3, <2>4 DEF AsideStage
<1> QED
  BY <1>4, <1>5

LEMMA StartHookKeepsOrder ==
    ASSUME StackInv, OrderInv, StartHook
    PROVE  OrderInv'
<1> DEFINE stage == IF Top.stage = "pre" THEN "prehook" ELSE "posthook"
           frame == [Top EXCEPT !.stage = stage, !.saved = exc, !.resume = Top.opline,
                                !.ran = Append(@, CurrentHook)]
<1>1. /\ stack # <<>> /\ Top.stage \in {"pre", "post"}
      /\ HooksLeft /\ CurrentHook \in Runnable /\ SetTop(frame)
  BY DEF StartHook, At
<1>2. /\ Top \in SoundFrame /\ Ordered(Top) /\ Top.fn # Main /\ Top.at \in Nat
      /\ HookList = ListOf(Top) /\ Top.ran \in Seq(Hook) /\ Top.missed \in SUBSET Nat
      /\ Top.at \in 1..Len(ListOf(Top))
  BY <1>1, LoopsWalkTheList
<1>3. /\ frame.fn = Top.fn /\ frame.stage = stage /\ frame.at = Top.at
      /\ frame.ran = Append(Top.ran, ListOf(Top)[Top.at]) /\ frame.missed = Top.missed
  BY <1>2, FrameTypes DEF Frame, CurrentHook
<1> HIDE DEF frame
<1>4. /\ Forward(frame) = Forward(Top) /\ ListOf(frame) = ListOf(Top)
      /\ ToRun(frame) = ToRun(Top)
  BY <1>1, <1>3 DEF Forward, ListOf, ToRun, BeginStage
<1>5. /\ ListOf(Top) \in Seq(Hook) /\ ToRun(Top) \in SUBSET Nat /\ Forward(Top) \in BOOLEAN
      /\ DOMAIN ListOf(Top) = 1..Len(ListOf(Top)) /\ Len(Post[Top.fn]) \in Nat
  BY <1>2, ListsOfHooks
<1>6. /\ InOrder(Top.ran, ListOf(Top), Done(Top), Forward(Top))
      /\ Placed(Top)
  BY <1>2 DEF Ordered
<1>7. CASE Top.stage = "pre"
  <2>1. Forward(Top) /\ frame.stage = "prehook"
    BY <1>3, <1>7 DEF Forward, BeginStage
  <2>2. \A m \in Top.missed : m < Top.at
    BY <1>6, <1>7 DEF Placed, BeginStage
  <2>3. Top.at \notin Top.missed
    BY <1>2, <2>2
  <2>4. Top.at \in ToRun(Top)
    BY <1>1, <1>2, <1>5, <2>3 DEF ToRun, RunnableAt, CurrentHook
  <2>5. Done(Top) = Below(ToRun(Top), Top.at) /\ Done(frame) = Below(ToRun(Top), Top.at + 1)
    BY <1>3, <1>4, <1>7, <2>1 DEF Done
  <2>6. /\ Done(frame) = Done(Top) \cup {Top.at} /\ Done(Top) \in SUBSET Nat
        /\ \A p \in Done(Top) : p < Top.at
    BY <1>2, <1>5, <2>4, <2>5, BelowMoves
  <2>7. Forward(Top) = TRUE /\ Forward(frame) = TRUE
    BY <1>4, <1>5, <2>1
  <2>8. InOrder(frame.ran, ListOf(frame), Done(frame), Forward(frame))
    <3>1. InOrder(Top.ran, ListOf(Top), Done(Top), TRUE)
      BY <1>6, <2>7
    <3>2. InOrder(Append(Top.ran, ListOf(Top)[Top.at]), ListOf(Top),
                  Done(Top) \cup {Top.at}, TRUE)
      BY <1>2, <1>5, <2>6, <3>1, InOrderExtends
    <3> QED
      BY <1>3, <1>4, <2>6, <2>7, <3>2
  <2>9. Placed(frame)
    BY <1>3, <1>4, <2>1, <2>2 DEF Placed
  <2> QED
    BY <1>1, <2>8, <2>9, SetTopKeepsOrder DEF Ordered
<1>8. CASE Top.stage = "post"
  <2>1. ~Forward(Top) /\ frame.stage = "posthook"
    BY <1>3, <1>8 DEF Forward, BeginStage
  <2>2. Top.at <= Len(Post[Top.fn]) /\ \A m \in Top.missed : m > Top.at
    BY <1>6, <2>1 DEF Placed
  <2>3. Top.at \notin Top.missed
    BY <1>2, <2>2
  <2>4. Top.at \in ToRun(Top)
    BY <1>1, <1>2, <1>5, <2>3 DEF ToRun, RunnableAt, CurrentHook
  <2>5. Done(Top) = Above(ToRun(Top), Top.at) /\ Done(frame) = Above(ToRun(Top), Top.at - 1)
    BY <1>3, <1>4, <1>8, <2>1 DEF Done
  <2>6. /\ Done(frame) = Done(Top) \cup {Top.at} /\ Done(Top) \in SUBSET Nat
        /\ \A p \in Done(Top) : Top.at < p
    <3>1. Above(ToRun(Top), Top.at - 1) = Above(ToRun(Top), Top.at) \cup {Top.at}
      BY <1>2, <1>5, <2>4, AboveMoves
    <3>2. /\ Above(ToRun(Top), Top.at) \in SUBSET Nat
          /\ \A p \in Above(ToRun(Top), Top.at) : Top.at < p
      BY <1>2, <1>5, AboveMoves
    <3> QED
      BY <2>5, <3>1, <3>2
  <2>7. Forward(Top) = FALSE /\ Forward(frame) = FALSE
    BY <1>4, <1>5, <2>1
  <2>8. InOrder(frame.ran, ListOf(frame), Done(frame), Forward(frame))
    <3>1. InOrder(Top.ran, ListOf(Top), Done(Top), FALSE)
      BY <1>6, <2>7
    <3>2. InOrder(Append(Top.ran, ListOf(Top)[Top.at]), ListOf(Top),
                  Done(Top) \cup {Top.at}, FALSE)
      BY <1>2, <1>5, <2>6, <3>1, InOrderExtends
    <3> QED
      BY <1>3, <1>4, <2>6, <2>7, <3>2
  <2>9. Placed(frame)
    BY <1>3, <1>4, <2>1, <2>2 DEF Placed, BeginStage
  <2> QED
    BY <1>1, <2>8, <2>9, SetTopKeepsOrder DEF Ordered
<1> QED
  BY <1>1, <1>7, <1>8

LEMMA LeavePreHookKeepsOrder ==
    ASSUME StackInv, OrderInv, NEW v, LeavePreHook(v)
    PROVE  OrderInv'
<1> DEFINE args  == IF exc = NULL /\ v # NULL THEN v ELSE Top.args
           frame == [Top EXCEPT !.stage = "pre", !.at = @ + Step,
                                !.args = args, !.params = args, !.opline = Resumed,
                                !.saved = NULL, !.resume = "next"]
<1>1. stack # <<>> /\ Top.stage = "prehook" /\ SetTop(frame)
  BY DEF LeavePreHook, At
<1>2. Forward(Top)
  BY <1>1 DEF Forward, BeginStage
<1>3. /\ Top \in SoundFrame /\ Ordered(Top) /\ Top.fn # Main /\ Top.at \in Nat
      /\ Top.missed \in SUBSET Nat /\ Step = 1
  BY <1>1, <1>2, LoopsWalkTheList
<1> HIDE DEF args
<1>4. /\ frame.fn = Top.fn /\ frame.stage = "pre" /\ frame.at = Top.at + 1
      /\ frame.ran = Top.ran /\ frame.missed = Top.missed
  BY <1>3, FrameTypes DEF Frame
<1> HIDE DEF frame
<1>5. /\ Forward(frame) = Forward(Top) /\ ListOf(frame) = ListOf(Top)
      /\ ToRun(frame) = ToRun(Top)
  BY <1>1, <1>4 DEF Forward, ListOf, ToRun, BeginStage
<1>6. Done(frame) = Done(Top)
  BY <1>1, <1>4, <1>5 DEF Done
<1>7. Placed(frame)
  <2>1. \A m \in Top.missed : m < Top.at /\ m \in Nat
    BY <1>1, <1>3 DEF Ordered, Placed, BeginStage
  <2> QED
    BY <1>2, <1>3, <1>4, <1>5, <2>1 DEF Placed
<1>8. Ordered(frame)
  BY <1>3, <1>4, <1>5, <1>6, <1>7 DEF Ordered
<1> QED
  BY <1>1, <1>8, SetTopKeepsOrder

LEMMA EnterBodyKeepsOrder ==
    ASSUME StackInv, OrderInv, EnterBody
    PROVE  OrderInv'
<1> DEFINE frame == [Top EXCEPT !.stage = "body"]
<1>1. stack # <<>> /\ Top.stage = "pre" /\ ~HooksLeft /\ SetTop(frame)
  BY DEF EnterBody, At
<1>2. /\ Top \in SoundFrame /\ Ordered(Top) /\ Top.fn # Main /\ Top.at \in Nat
      /\ HookList = ListOf(Top)
  BY <1>1, LoopsWalkTheList
<1>3. /\ frame.fn = Top.fn /\ frame.stage = "body"
      /\ frame.ran = Top.ran /\ frame.missed = Top.missed
  BY <1>1, <1>2, FrameTypes DEF Frame
<1> HIDE DEF frame
<1>4. /\ Forward(frame) = Forward(Top) /\ ListOf(frame) = ListOf(Top)
      /\ ToRun(frame) = ToRun(Top) /\ Forward(frame)
  BY <1>1, <1>3 DEF Forward, ListOf, ToRun, BeginStage
<1>5. Done(frame) = Done(Top)
  <2>1. Top.at \notin 1..Len(ListOf(Top)) /\ Top.at # 0
    BY <1>1, <1>2, ListsOfHooks DEF HooksLeft, Ordered, Placed
  <2>2. Below(ToRun(Top), Top.at) = ToRun(Top)
    BY <1>2, <2>1, ListsOfHooks, BelowAboveEnds
  <2> QED
    BY <1>1, <1>3, <1>4, <2>2 DEF Done
<1>6. Placed(frame)
  BY <1>3, <1>4 DEF Placed, BeginStage
<1>7. Ordered(frame)
  BY <1>2, <1>3, <1>4, <1>5, <1>6 DEF Ordered
<1> QED
  BY <1>1, <1>7, SetTopKeepsOrder

LEMMA LeaveBodyKeepsOrder ==
    ASSUME StackInv, OrderInv, NEW v \in Value \cup {NULL}, LeaveBody(v)
    PROVE  OrderInv'
<1> DEFINE slot   == CASE ~Top.used              -> NULL
                       [] Top.used /\ exc = NULL -> v
                       [] OTHER                  -> GARBAGE
           shown  == IF exc = NULL THEN v ELSE NULL
           frame  == [Top EXCEPT !.stage = "post", !.at = Len(Post[Top.fn]),
                        !.params = Top.args, !.slot = slot, !.shown = shown,
                        !.thrown = FuncGetException(exc),
                        !.left = exc, !.ran = <<>>, !.missed = {}]
<1>1. /\ stack # <<>> /\ Top \in SoundFrame /\ Top.stage = "body" /\ Top.fn # Main
      /\ SetTop(frame)
  BY TopIsOrdered DEF LeaveBody, At
<1> HIDE DEF slot, shown
<1>2. /\ frame.fn = Top.fn /\ frame.stage = "post" /\ frame.at = Len(Post[Top.fn])
      /\ frame.ran = <<>> /\ frame.missed = {}
  BY <1>1, FrameTypes DEF Frame
<1> HIDE DEF frame
<1>3. /\ Post[frame.fn] \in Seq(Hook) /\ Len(Post[frame.fn]) \in Nat
      /\ ~Forward(frame) /\ ListOf(frame) = Post[frame.fn]
      /\ ToRun(frame) \in SUBSET (1..Len(Post[frame.fn]))
  <2>1. Post[frame.fn] \in Seq(Hook)
    BY <1>1, <1>2, FrameTypes, HookAssumption
  <2>2. ~Forward(frame)
    BY <1>2 DEF Forward, BeginStage
  <2>3. ListOf(frame) = Post[frame.fn]
    BY <2>2 DEF ListOf
  <2> QED
    BY <2>1, <2>2, <2>3 DEF ToRun, RunnableAt
<1>4. Above(ToRun(frame), Len(Post[frame.fn])) = {}
  BY <1>3, BelowAboveEnds
<1>5. Done(frame) = {}
  BY <1>2, <1>4 DEF Done
<1>6. InOrder(frame.ran, ListOf(frame), Done(frame), Forward(frame))
  <2>1. Forward(frame) \in BOOLEAN
    BY DEF Forward
  <2> QED
    BY <1>2, <1>5, <2>1, NothingIsInOrder
<1>7. Placed(frame)
  BY <1>2, <1>3 DEF Placed, BeginStage
<1> QED
  BY <1>1, <1>6, <1>7, SetTopKeepsOrder DEF Ordered

LEMMA LeavePostHookKeepsOrder ==
    ASSUME StackInv, OrderInv, NEW v, LeavePostHook(v)
    PROVE  OrderInv'
<1> DEFINE slot  == IF exc = NULL /\ CurrentHook \in Typed /\ Top.used THEN v ELSE Top.slot
           frame == [Top EXCEPT !.stage = "post", !.at = @ + Step,
                                !.slot = slot, !.shown = slot, !.opline = Resumed,
                                !.saved = NULL, !.resume = "next"]
<1>1. stack # <<>> /\ Top.stage = "posthook" /\ SetTop(frame)
  BY DEF LeavePostHook, At
<1>2. ~Forward(Top)
  BY <1>1 DEF Forward, BeginStage
<1> HIDE DEF slot
<1>3. /\ Top \in SoundFrame /\ Ordered(Top) /\ Top.fn # Main /\ Top.at \in Nat
      /\ Top.missed \in SUBSET Nat /\ Step = -1
  BY <1>1, <1>2, LoopsWalkTheList
<1>4. /\ frame.fn = Top.fn /\ frame.stage = "post" /\ frame.at = Top.at - 1
      /\ frame.ran = Top.ran /\ frame.missed = Top.missed
  BY <1>3, FrameTypes DEF Frame
<1> HIDE DEF frame
<1>5. /\ Forward(frame) = Forward(Top) /\ ListOf(frame) = ListOf(Top)
      /\ ToRun(frame) = ToRun(Top)
  BY <1>1, <1>4 DEF Forward, ListOf, ToRun, BeginStage
<1>6. Done(frame) = Done(Top)
  BY <1>1, <1>4, <1>5 DEF Done
<1>7. Placed(frame)
  <2>1. /\ Top.at <= Len(Post[Top.fn]) /\ Len(Post[Top.fn]) \in Nat
        /\ \A m \in Top.missed : m > Top.at /\ m \in Nat
    BY <1>2, <1>3, ListsOfHooks DEF Ordered, Placed
  <2> QED
    BY <1>3, <1>4, <2>1 DEF Placed, BeginStage
<1>8. Ordered(frame)
  BY <1>3, <1>4, <1>5, <1>6, <1>7 DEF Ordered
<1> QED
  BY <1>1, <1>8, SetTopKeepsOrder

LEMMA EndCallKeepsOrder ==
    ASSUME StackInv, OrderInv, EndCall
    PROVE  OrderInv'
<1>1. /\ stack # <<>> /\ stack \in Seq(SoundFrame) /\ Len(stack) \in Nat /\ Len(stack) >= 1
  BY TopIsSound DEF EndCall, At, StackInv
<1>2. PICK caller \in Nat : caller = Len(stack) - 1
  BY <1>1
<1> DEFINE opline == IF exc = NULL THEN "next" ELSE "handler"
           below  == SubSeq(stack, 1, caller)
<1>3. stack' = [below EXCEPT ![caller] = GoingOn(@, opline)]
  BY <1>2 DEF EndCall
<1>4. Len(stack) = caller + 1
  BY <1>1, <1>2
<1>5. /\ below \in Seq(SoundFrame) /\ Len(below) = caller
      /\ \A i \in 1..caller : below[i] = stack[i]
  BY <1>1, <1>4, WithoutTheLast
<1>6. \A i \in 1..caller : below[i] \in SoundFrame /\ Ordered(below[i])
  BY <1>1, <1>4, <1>5 DEF OrderInv
<1> HIDE DEF below
<1>7. opline \in Opline
  BY DEF Opline
<1> HIDE DEF opline
<1>8. /\ Len(stack') = caller
      /\ \A i \in 1..caller : stack'[i] = IF i = caller THEN GoingOn(below[i], opline) ELSE below[i]
  BY <1>3, <1>5
<1>9. \A i \in 1..caller : Ordered(stack'[i])
  BY <1>6, <1>7, <1>8, OrderedAsBefore
<1> QED
  BY <1>8, <1>9 DEF OrderInv

\* Every pre hook that can run has run, once and in the order of registration,
\* before the body of a function, and every post hook, in the opposite order,
\* when its call ends: whatever hooks, bodies and code that runs aside call,
\* throw or exit, but for the hooks whose class failed to load.
THEOREM HooksRunOnceInOrderHolds == Spec => []HooksRunOnceInOrder
<1>1. Init => OrderInv
  <2> SUFFICES ASSUME Init PROVE OrderInv
    OBVIOUS
  <2>1. stack = <<[NewFrame(Main, NULL, FALSE) EXCEPT !.stage = "body"]>>
    BY DEF Init
  <2>2. Len(stack) = 1 /\ stack[1].fn = Main
    BY <2>1 DEF NewFrame
  <2> QED
    BY <2>2 DEF OrderInv, Ordered
<1>2. StackInv /\ OrderInv /\ [Next]_vars => OrderInv'
  <2> SUFFICES ASSUME StackInv, OrderInv, [Next]_vars PROVE OrderInv'
    OBVIOUS
  <2>1. CASE Dispatch
    BY <2>1, SkipHookKeepsOrder, StartHookKeepsOrder, EnterBodyKeepsOrder,
       EndCallKeepsOrder DEF Dispatch
  <2>2. ASSUME NEW e \in Exception \cup {UNWIND}, Raise(e) PROVE OrderInv'
    BY <2>2, CodeKeepsOrder DEF Raise, At, Opline
  <2>3. CASE Catch
    BY <2>3, CodeKeepsOrder DEF Catch, At, Opline
  <2>4. CASE LeaveMain
    BY <2>4 DEF LeaveMain, OrderInv
  <2>5. CASE Code
    BY <2>2, <2>3, <2>4, <2>5, CallKeepsOrder, StartAsideKeepsOrder,
       LeaveAsideKeepsOrder, LeavePreHookKeepsOrder, LeavePostHookKeepsOrder,
       LeaveBodyKeepsOrder DEF Code
  <2>6. CASE UNCHANGED vars
    BY <2>6 DEF vars, OrderInv
  <2> QED
    BY <2>1, <2>5, <2>6 DEF Next
<1>3. StackInv /\ OrderInv => HooksRunOnceInOrder
  <2> SUFFICES ASSUME StackInv, OrderInv, stack # <<>>, Top.fn # Main
               PROVE  /\ Top.stage = "body" =>
                          InOrder(Top.ran, Pre[Top.fn],
                                  RunnableAt(Pre[Top.fn]) \ Top.missed, TRUE)
                      /\ Top.stage = "post" /\ ~HooksLeft =>
                          InOrder(Top.ran, Post[Top.fn],
                                  RunnableAt(Post[Top.fn]) \ Top.missed, FALSE)
    BY TopIsSound, FrameTypes DEF HooksRunOnceInOrder, At, Sound
  <2>1. Top \in SoundFrame /\ Top.at \in Nat
        /\ InOrder(Top.ran, ListOf(Top), Done(Top), Forward(Top)) /\ Placed(Top)
    BY TopIsOrdered, FrameTypes DEF Ordered
  <2>2. ASSUME Top.stage = "body"
        PROVE  InOrder(Top.ran, Pre[Top.fn], RunnableAt(Pre[Top.fn]) \ Top.missed, TRUE)
    <3>1. Forward(Top) = TRUE
      BY <2>2 DEF Forward
    <3>2. ListOf(Top) = Pre[Top.fn]
      BY <3>1 DEF ListOf
    <3>3. Done(Top) = RunnableAt(Pre[Top.fn]) \ Top.missed
      BY <2>2, <3>2 DEF Done, ToRun
    <3> QED
      BY <2>1, <3>1, <3>2, <3>3
  <2>3. ASSUME Top.stage = "post", ~HooksLeft
        PROVE  InOrder(Top.ran, Post[Top.fn], RunnableAt(Post[Top.fn]) \ Top.missed, FALSE)
    <3>1. Forward(Top) = FALSE
      BY <2>3 DEF Forward, BeginStage
    <3>2. ListOf(Top) = Post[Top.fn]
      BY <3>1 DEF ListOf
    <3>3. Top.at = 0
      <4>1. Top.at \notin DOMAIN ListOf(Top) /\ Top.at <= Len(ListOf(Top))
        BY <2>1, <2>3, <3>1, <3>2, LoopsWalkTheList DEF HooksLeft, Placed
      <4> QED
        BY <2>1, <4>1, ListsOfHooks
    <3>4. Above(ToRun(Top), 0) = ToRun(Top)
      BY <2>1, ListsOfHooks, BelowAboveEnds
    <3>5. Done(Top) = RunnableAt(Post[Top.fn]) \ Top.missed
      BY <2>3, <3>2, <3>3, <3>4 DEF Done, ToRun
    <3> QED
      BY <2>1, <3>1, <3>2, <3>5
  <2> QED
    BY <2>2, <2>3
<1> QED
  BY <1>1, <1>2, <1>3, StackInvHolds, PTL DEF Spec

=============================================================================
