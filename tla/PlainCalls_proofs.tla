-------------------------- MODULE PlainCalls_proofs --------------------------
(***************************************************************************)
(* With its hooks erased a program makes the steps of a program without    *)
(* phook, but for what code raises that runs aside: HookDispatch           *)
(* implements PlainCalls, proved for all functions, hooks, exceptions and  *)
(* depths of calls.                                                        *)
(***************************************************************************)
EXTENDS HookDispatch_proofs

-----------------------------------------------------------------------------
(* The mapping.                                                            *)

\* The bodies below the first hook are the first n calls of s.
IsDepth(s, n) ==
    /\ n \in 0..Len(s)
    /\ \A i \in 1..n : s[i].stage = "body"
    /\ n < Len(s) => s[n + 1].stage # "body"

DepthOf(s) ==
    CHOOSE n \in 0..Len(s) :
        /\ \A i \in 1..n : s[i].stage = "body"
        /\ n < Len(s) => s[n + 1].stage # "body"

\* The call above them has begun and has not ended.
HasBegun(s, n) == n < Len(s) /\ s[n + 1].stage \notin BeginStage

\* What the plain program sees of s, while e is raised.
CallsTo(s, m) == [i \in 1..m |-> s[i].fn]

CallsOf(s, n) == CallsTo(s, IF HasBegun(s, n) THEN n + 1 ELSE n)

ExcOf(s, n, e) ==
    CASE n = Len(s)     -> e
      [] HasBegun(s, n) -> s[n + 1].left
      [] OTHER          -> NULL

LEMMA DepthIsUnique ==
    ASSUME NEW s, Len(s) \in Nat, NEW n, IsDepth(s, n)
    PROVE  DepthOf(s) = n
<1> DEFINE P(m) == /\ \A i \in 1..m : s[i].stage = "body"
                   /\ m < Len(s) => s[m + 1].stage # "body"
<1>1. n \in 0..Len(s) /\ P(n)
  BY DEF IsDepth
<1>2. ASSUME NEW m \in 0..Len(s), P(m) PROVE m = n
  <2>1. m \in Nat /\ n \in Nat /\ m <= Len(s) /\ n <= Len(s)
    BY <1>1
  <2>2. CASE m < n
    <3>1. m + 1 \in 1..n /\ m < Len(s)
      BY <2>1, <2>2
    <3> QED
      BY <1>1, <1>2, <3>1
  <2>3. CASE n < m
    <3>1. n + 1 \in 1..m /\ n < Len(s)
      BY <2>1, <2>3
    <3> QED
      BY <1>1, <1>2, <3>1
  <2> QED
    BY <2>1, <2>2, <2>3
<1>3. DepthOf(s) = CHOOSE m \in 0..Len(s) : P(m)
  BY DEF DepthOf
<1> HIDE DEF P
<1> QED
  BY <1>1, <1>2, <1>3

\* The calls and the exception of the plain program, as the mapping has them.
PlainCallsNow == [i \in 1..(IF InPlainCall THEN PlainDepth + 1 ELSE PlainDepth) |-> stack[i].fn]

\* The mapping of a state, and of the next one.
LEMMA Mapped ==
    ASSUME Len(stack) \in Nat, NEW n, IsDepth(stack, n)
    PROVE  PlainCallsNow = CallsOf(stack, n) /\ PlainExc = ExcOf(stack, n, exc)
<1>1. PlainDepth = DepthOf(stack)
  BY DEF PlainDepth, DepthOf
<1>2. PlainDepth = n
  BY <1>1, DepthIsUnique
<1>3. InPlainCall <=> HasBegun(stack, n)
  BY <1>2 DEF InPlainCall, HasBegun
<1> QED
  BY <1>2, <1>3 DEF CallsOf, CallsTo, ExcOf, PlainExc, PlainCallsNow

LEMMA MappedNext ==
    ASSUME Len(stack') \in Nat, NEW n, IsDepth(stack', n)
    PROVE  PlainCallsNow' = CallsOf(stack', n) /\ PlainExc' = ExcOf(stack', n, exc')
<1>1. PlainDepth' = DepthOf(stack')
  BY DEF PlainDepth, DepthOf
<1>2. PlainDepth' = n
  BY <1>1, DepthIsUnique
<1>3. InPlainCall' <=> HasBegun(stack', n)
  BY <1>2 DEF InPlainCall, HasBegun
<1> QED
  BY <1>2, <1>3 DEF CallsOf, CallsTo, ExcOf, PlainExc, PlainCallsNow

\* What a step is to the plain program.
LEMMA StepMapped ==
    ASSUME Len(stack) \in Nat, Len(stack') \in Nat,
           NEW n, IsDepth(stack, n), NEW m, IsDepth(stack', m),
           NEW c, c = CallsOf(stack, n), NEW d, d = CallsOf(stack', m),
           NEW e, e = ExcOf(stack, n, exc), NEW r, r = ExcOf(stack', m, exc'),
           \/ c = d /\ e = r
           \/ \E f \in Function :
                /\ c # <<>> /\ e = NULL /\ d = Append(c, f)
                /\ r = e \/ (Pre[f] # <<>> /\ r \in Plain!Interruption)
           \/ /\ c # <<>> /\ e = NULL /\ c = d
              /\ \E x \in Exception \cup {UNWIND} : r = [what |-> x, by |-> "code"]
           \/ c # <<>> /\ e # NULL /\ e.what \in Exception /\ r = NULL /\ c = d
           \/ /\ c # <<>> /\ d = SubSeq(c, 1, Len(c) - 1)
              /\ \/ r = e
                 \/ /\ c[Len(c)] \in Function /\ Post[c[Len(c)]] # <<>>
                    /\ r \in Plain!Interruption
    PROVE  [Plain!Next]_(Plain!vars)
<1>1. PlainCallsNow = c /\ PlainExc = e
  BY Mapped
<1>2. PlainCallsNow' = d /\ PlainExc' = r
  BY MappedNext
<1>3. CASE c = d /\ e = r
  BY <1>1, <1>2, <1>3 DEF PlainCallsNow, Plain!vars
<1>4. ASSUME NEW f \in Function, c # <<>>, e = NULL, d = Append(c, f),
             r = e \/ (Pre[f] # <<>> /\ r \in Plain!Interruption)
      PROVE  Plain!Call(f)
  BY <1>1, <1>2, <1>4 DEF PlainCallsNow, Plain!Call, Plain!Running
<1>5. ASSUME c # <<>>, e = NULL, c = d,
             NEW x \in Exception \cup {UNWIND}, r = [what |-> x, by |-> "code"]
      PROVE  Plain!Raise(x)
  BY <1>1, <1>2, <1>5 DEF PlainCallsNow, Plain!Raise, Plain!Running
<1>6. CASE c # <<>> /\ e # NULL /\ e.what \in Exception /\ r = NULL /\ c = d
  BY <1>1, <1>2, <1>6 DEF PlainCallsNow, Plain!Catch, Plain!Running, Plain!Next
<1>7. CASE /\ c # <<>> /\ d = SubSeq(c, 1, Len(c) - 1)
           /\ \/ r = e
              \/ /\ c[Len(c)] \in Function /\ Post[c[Len(c)]] # <<>>
                 /\ r \in Plain!Interruption
  BY <1>1, <1>2, <1>7 DEF PlainCallsNow, Plain!Leave, Plain!Running, Plain!Next
<1> QED
  BY <1>3, <1>4, <1>5, <1>6, <1>7 DEF Plain!Next

\* The calls of the plain program, one more and one less.
LEMMA CallsGrow ==
    ASSUME NEW s, NEW m \in Nat
    PROVE  /\ CallsTo(s, m + 1) = Append(CallsTo(s, m), s[m + 1].fn)
           /\ CallsTo(s, m) = SubSeq(CallsTo(s, m + 1), 1, m)
           /\ Len(CallsTo(s, m)) = m
<1> DEFINE fns == {s[i].fn : i \in 1..m + 1}
<1>1. CallsTo(s, m) \in Seq(fns) /\ CallsTo(s, m + 1) \in Seq(fns)
  BY DEF CallsTo
<1>2. /\ Len(CallsTo(s, m)) = m /\ Len(CallsTo(s, m + 1)) = m + 1
      /\ \A i \in 1..m : CallsTo(s, m)[i] = s[i].fn
      /\ \A i \in 1..m + 1 : CallsTo(s, m + 1)[i] = s[i].fn
  BY DEF CallsTo
<1>3. s[m + 1].fn \in fns
  OBVIOUS
<1> HIDE DEF fns
<1>4. SubSeq(CallsTo(s, m + 1), 1, m) = [i \in 1..m |-> CallsTo(s, m + 1)[i]]
  BY <1>1, <1>2
<1>5. CallsTo(s, m) = SubSeq(CallsTo(s, m + 1), 1, m)
  BY <1>2, <1>4 DEF CallsTo
<1>6. CallsTo(s, m + 1) = Append(CallsTo(s, m), s[m + 1].fn)
  <2>1. /\ Append(CallsTo(s, m), s[m + 1].fn) \in Seq(fns)
        /\ Len(Append(CallsTo(s, m), s[m + 1].fn)) = m + 1
        /\ \A i \in 1..m : Append(CallsTo(s, m), s[m + 1].fn)[i] = s[i].fn
        /\ Append(CallsTo(s, m), s[m + 1].fn)[m + 1] = s[m + 1].fn
    BY <1>1, <1>2, <1>3
  <2>2. \A i \in 1..m + 1 : Append(CallsTo(s, m), s[m + 1].fn)[i] = CallsTo(s, m + 1)[i]
    <3>1. \A i \in 1..m + 1 : i \in 1..m \/ i = m + 1
      OBVIOUS
    <3> QED
      BY <1>2, <2>1, <3>1
  <2> QED
    BY <1>1, <1>2, <2>1, <2>2, SeqEqual
<1> QED
  BY <1>2, <1>5, <1>6

LEMMA SameCalls ==
    ASSUME NEW s, NEW t, NEW m \in Nat, \A i \in 1..m : s[i].fn = t[i].fn
    PROVE  CallsTo(s, m) = CallsTo(t, m)
  BY DEF CallsTo

-----------------------------------------------------------------------------
(* The invariant.                                                          *)

\* What code that runs aside for the program may have raised.
Foreign == Plain!Interruption \cup {NULL}

\* What is raised in the program while the call with this frame goes on.
RaisedBelow(frame, e) ==
    IF frame.stage \in HookStage \cup AsideStage THEN frame.saved ELSE e

\* What may reach the program from there: how the body ended, or what was
\* raised aside.
MayReach(frame) ==
    {IF frame.stage \in BeginStage THEN NULL ELSE frame.left} \cup
    (IF ListOf(frame) = <<>> THEN {} ELSE Plain!Interruption)

\* The call above the bodies keeps to it, and so does all that runs aside for it.
CallKept(frame, e) ==
    /\ RaisedBelow(frame, e) \in MayReach(frame)
    /\ frame.stage \in AsideStage => ListOf(frame) # <<>> /\ e \in Foreign

Kept(s, n, e) ==
    n < Len(s) =>
        /\ CallKept(s[n + 1], e)
        /\ s[n + 1].stage \in AsideStage =>
            \A j \in n + 2..Len(s) : s[j].saved \in Foreign

\* The main script is the first call and no other, some number of bodies lies
\* below the first hook, and what is raised above them is kept apart.
PlainInv ==
    /\ \A i \in 1..Len(stack) : stack[i].fn = Main <=> i = 1
    /\ \E n : IsDepth(stack, n) /\ Kept(stack, n, exc)

LEMMA DepthFacts ==
    ASSUME StackInv, PlainInv, stack # <<>>, NEW n, IsDepth(stack, n)
    PROVE  /\ n \in Nat /\ n >= 1 /\ n <= Len(stack) /\ Len(stack) \in Nat
           /\ stack \in Seq(SoundFrame)
           /\ n < Len(stack) => stack[n + 1].stage # "body"
           /\ n + 1 < Len(stack) => stack[n + 1].stage \in HookStage \cup AsideStage
<1>1. stack \in Seq(SoundFrame) /\ Len(stack) \in Nat /\ Len(stack) >= 1
  BY TopIsSound DEF StackInv
<1>2. stack[1] \in SoundFrame /\ stack[1].fn = Main
  BY <1>1 DEF PlainInv
<1>3. stack[1].stage = "body"
  BY <1>2, FrameTypes DEF Sound
<1>4. n \in 0..Len(stack) /\ (n < Len(stack) => stack[n + 1].stage # "body")
  BY DEF IsDepth
<1>5. n # 0
  <2>1. n = 0 => 0 < Len(stack) /\ stack[0 + 1].stage # "body"
    BY <1>1, <1>4
  <2>2. 0 + 1 = 1
    OBVIOUS
  <2> QED
    BY <1>3, <2>1, <2>2
<1>6. n + 1 < Len(stack) => stack[n + 1].stage \in HookStage \cup AsideStage
  <2>1. n + 1 < Len(stack) => Waits(stack[n + 1])
    BY <1>1, <1>4 DEF StackInv
  <2> QED
    BY <1>4, <2>1 DEF Waits, CodeStage
<1> QED
  BY <1>1, <1>4, <1>5, <1>6

\* For whom the running code runs.
LEMMA WhoWaits ==
    ASSUME Len(stack) \in Nat, DOMAIN stack = 1..Len(stack), NEW n, IsDepth(stack, n)
    PROVE  /\ n = Len(stack) => RunningCode = "code"
           /\ n < Len(stack) /\ stack[n + 1].stage \in AsideStage => RunningCode = "aside"
<1>1. ASSUME NEW stages, "body" \notin stages
      PROVE  ProgramWaitsIn(stages) <=> n < Len(stack) /\ stack[n + 1].stage \in stages
  <2>1. n \in Nat /\ n <= Len(stack) /\ \A i \in 1..n : stack[i].stage = "body"
    BY DEF IsDepth
  <2>2. ASSUME ProgramWaitsIn(stages)
        PROVE  n < Len(stack) /\ stack[n + 1].stage \in stages
    <3>1. PICK i \in 1..Len(stack) : /\ stack[i].stage \in stages
                                     /\ \A j \in 1..i - 1 : stack[j].stage = "body"
      BY <2>2 DEF ProgramWaitsIn
    <3>2. i \notin 1..n
      BY <1>1, <2>1, <3>1
    <3>3. n + 1 \notin 1..i - 1
      BY <2>1, <3>1, <3>2 DEF IsDepth
    <3>4. i = n + 1
      BY <2>1, <3>1, <3>2, <3>3
    <3> QED
      BY <2>1, <3>1, <3>4
  <2>3. ASSUME n < Len(stack), stack[n + 1].stage \in stages
        PROVE  ProgramWaitsIn(stages)
    <3>1. n + 1 \in DOMAIN stack /\ (n + 1) - 1 = n
      BY <2>1, <2>3
    <3> QED
      BY <2>1, <2>3, <3>1 DEF ProgramWaitsIn
  <2> QED
    BY <2>2, <2>3
<1>2. /\ ProgramWaitsIn(HookStage) <=> n < Len(stack) /\ stack[n + 1].stage \in HookStage
      /\ ProgramWaitsIn(AsideStage) <=> n < Len(stack) /\ stack[n + 1].stage \in AsideStage
  BY <1>1 DEF HookStage, AsideStage
<1>3. \A stage : ~(stage \in HookStage /\ stage \in AsideStage)
  BY DEF HookStage, AsideStage
<1>4. n = Len(stack) => ~(n < Len(stack))
  OBVIOUS
<1> QED
  BY <1>2, <1>3, <1>4 DEF RunningCode

-----------------------------------------------------------------------------
(* Steps within the innermost call.                                        *)

\* What is raised aside stays among it, in a call somewhere above.
StaysForeign(frame) ==
    RunningCode = "aside" /\ exc \in Foreign /\ Top.saved \in Foreign
        => exc' \in Foreign /\ frame.saved \in Foreign

LEMMA SetTopFacts ==
    ASSUME StackInv, PlainInv, stack # <<>>, NEW frame, SetTop(frame), frame.fn = Top.fn
    PROVE  /\ Len(stack) \in Nat /\ Len(stack') = Len(stack)
           /\ Top = stack[Len(stack)] /\ stack'[Len(stack)] = frame
           /\ \A i \in 1..Len(stack) - 1 : stack'[i] = stack[i]
           /\ \A i \in 1..Len(stack) : stack'[i].fn = stack[i].fn
           /\ \A i \in 1..Len(stack') : stack'[i].fn = Main <=> i = 1
<1>1. stack \in Seq(SoundFrame) /\ Len(stack) \in Nat /\ Len(stack) >= 1
  BY TopIsSound DEF StackInv
<1>2. /\ Len(stack') = Len(stack) /\ stack'[Len(stack)] = frame
      /\ \A i \in 1..Len(stack) - 1 : stack'[i] = stack[i]
  BY <1>1 DEF SetTop
<1>3. Top = stack[Len(stack)]
  BY DEF Top
<1>4. \A i \in 1..Len(stack) : i \in 1..Len(stack) - 1 \/ i = Len(stack)
  BY <1>1
<1>5. \A i \in 1..Len(stack) : stack'[i].fn = stack[i].fn
  BY <1>2, <1>3, <1>4
<1>6. \A i \in 1..Len(stack') : stack'[i].fn = Main <=> i = 1
  BY <1>2, <1>5 DEF PlainInv
<1> QED
  BY <1>1, <1>2, <1>3, <1>5, <1>6

\* Above a hook, or above what runs aside, nothing the plain program sees.
LEMMA AboveIsPlain ==
    ASSUME StackInv, PlainInv, stack # <<>>, NEW frame, SetTop(frame),
           frame.fn = Top.fn, StaysForeign(frame),
           NEW n, IsDepth(stack, n), Kept(stack, n, exc), n + 1 < Len(stack)
    PROVE  PlainInv' /\ [Plain!Next]_(Plain!vars)
<1>1. /\ n \in Nat /\ n >= 1 /\ Len(stack) \in Nat /\ stack \in Seq(SoundFrame)
      /\ stack[n + 1].stage \in HookStage \cup AsideStage
  BY DepthFacts
<1>2. /\ Len(stack') = Len(stack) /\ Top = stack[Len(stack)] /\ stack'[Len(stack)] = frame
      /\ \A i \in 1..Len(stack) - 1 : stack'[i] = stack[i]
      /\ \A i \in 1..Len(stack') : stack'[i].fn = Main <=> i = 1
  BY SetTopFacts
<1>3. stack'[n + 1] = stack[n + 1] /\ \A i \in 1..n : stack'[i] = stack[i]
  BY <1>1, <1>2
<1>4. IsDepth(stack', n)
  BY <1>1, <1>2, <1>3 DEF IsDepth
<1>5. CallsOf(stack, n) = CallsOf(stack', n)
  <2>1. HasBegun(stack', n) <=> HasBegun(stack, n)
    BY <1>2, <1>3 DEF HasBegun
  <2>2. \A i \in 1..n + 1 : i \in 1..n \/ i = n + 1
    BY <1>1
  <2>3. CallsTo(stack, n) = CallsTo(stack', n) /\ CallsTo(stack, n + 1) = CallsTo(stack', n + 1)
    BY <1>1, <1>3, <2>2, SameCalls
  <2> QED
    BY <2>1, <2>3 DEF CallsOf
<1>6. ExcOf(stack, n, exc) = ExcOf(stack', n, exc')
  BY <1>1, <1>2, <1>3 DEF ExcOf, HasBegun
<1>7. Kept(stack', n, exc')
  <2>1. ASSUME stack[n + 1].stage \in AsideStage
        PROVE  /\ exc' \in Foreign
               /\ \A j \in n + 2..Len(stack) : stack'[j].saved \in Foreign
    <3>1. RunningCode = "aside"
      BY <1>1, <2>1, WhoWaits
    <3>2. exc \in Foreign /\ \A j \in n + 2..Len(stack) : stack[j].saved \in Foreign
      BY <1>1, <2>1 DEF Kept, CallKept
    <3>3. Top.saved \in Foreign
      BY <1>1, <1>2, <3>2
    <3>4. exc' \in Foreign /\ frame.saved \in Foreign
      BY <3>1, <3>2, <3>3 DEF StaysForeign
    <3>5. \A j \in n + 2..Len(stack) : j = Len(stack) \/ j \in 1..Len(stack) - 1
      BY <1>1
    <3> QED
      BY <1>2, <3>2, <3>4, <3>5
  <2>2. RaisedBelow(stack'[n + 1], exc') = RaisedBelow(stack[n + 1], exc)
    BY <1>1, <1>3 DEF RaisedBelow
  <2>3. CallKept(stack'[n + 1], exc')
    BY <1>1, <1>3, <2>1, <2>2 DEF Kept, CallKept
  <2> QED
    BY <1>2, <1>3, <2>1, <2>3 DEF Kept
<1> QED
  BY <1>1, <1>2, <1>4, <1>5, <1>6, <1>7, StepMapped DEF PlainInv

\* A step of the first call above the bodies that it begins and ends with.
KeepsCall(frame) ==
    CallKept(Top, exc) /\ (Top.stage \in AsideStage => RunningCode = "aside")
        => CallKept(frame, exc')

LEMMA SetTopIsPlain ==
    ASSUME StackInv, PlainInv, stack # <<>>, NEW frame, SetTop(frame), frame.fn = Top.fn,
           Top.stage # "body", frame.stage # "body",
           frame.stage \in BeginStage <=> Top.stage \in BeginStage, frame.left = Top.left,
           StaysForeign(frame), KeepsCall(frame)
    PROVE  PlainInv' /\ [Plain!Next]_(Plain!vars)
<1>1. PICK n : IsDepth(stack, n) /\ Kept(stack, n, exc)
  BY DEF PlainInv
<1>2. /\ n \in Nat /\ n >= 1 /\ n <= Len(stack) /\ Len(stack) \in Nat
      /\ stack \in Seq(SoundFrame)
  BY <1>1, DepthFacts
<1>3. /\ Len(stack') = Len(stack) /\ Top = stack[Len(stack)] /\ stack'[Len(stack)] = frame
      /\ \A i \in 1..Len(stack) - 1 : stack'[i] = stack[i]
      /\ \A i \in 1..Len(stack) : stack'[i].fn = stack[i].fn
      /\ \A i \in 1..Len(stack') : stack'[i].fn = Main <=> i = 1
  BY SetTopFacts
<1>4. n # Len(stack)
  BY <1>1, <1>2, <1>3 DEF IsDepth
<1>5. ASSUME n + 1 = Len(stack)
      PROVE  PlainInv' /\ [Plain!Next]_(Plain!vars)
  <2>1. /\ n < Len(stack) /\ stack[n + 1] = Top /\ stack'[n + 1] = frame
        /\ \A i \in 1..n : stack'[i] = stack[i]
    BY <1>2, <1>3, <1>5
  <2>2. IsDepth(stack', n)
    BY <1>1, <1>2, <1>3, <2>1 DEF IsDepth
  <2>3. CallsOf(stack, n) = CallsOf(stack', n)
    <3>1. HasBegun(stack', n) <=> HasBegun(stack, n)
      BY <1>3, <2>1 DEF HasBegun
    <3>2. \A i \in 1..n : i \in 1..Len(stack)
      BY <1>2
    <3>3. CallsTo(stack, n) = CallsTo(stack', n)
      BY <1>2, <1>3, <3>2, SameCalls
    <3>4. CallsTo(stack, n + 1) = CallsTo(stack', n + 1)
      BY <1>2, <1>3, <1>5, SameCalls
    <3> QED
      BY <3>1, <3>3, <3>4 DEF CallsOf
  <2>4. ExcOf(stack, n, exc) = ExcOf(stack', n, exc')
    BY <1>2, <1>3, <2>1 DEF ExcOf, HasBegun
  <2>5. Kept(stack', n, exc')
    <3>1. CallKept(Top, exc)
      BY <1>1, <2>1 DEF Kept
    <3>2. Top.stage \in AsideStage => RunningCode = "aside"
      BY <1>1, <1>2, <2>1, WhoWaits
    <3>3. CallKept(frame, exc')
      BY <3>1, <3>2 DEF KeepsCall
    <3>4. \A j \in n + 2..Len(stack') : FALSE
      BY <1>2, <1>3, <1>5
    <3> QED
      BY <2>1, <3>3, <3>4 DEF Kept
  <2> QED
    BY <1>1, <1>2, <1>3, <2>2, <2>3, <2>4, <2>5, StepMapped DEF PlainInv
<1>6. n + 1 < Len(stack) \/ n + 1 = Len(stack)
  BY <1>2, <1>4
<1> QED
  BY <1>1, <1>5, <1>6, AboveIsPlain

-----------------------------------------------------------------------------
(* The steps, one by one.                                                  *)

LEMMA SkipHookIsPlain ==
    ASSUME StackInv, PlainInv, SkipHook
    PROVE  PlainInv' /\ [Plain!Next]_(Plain!vars)
<1> DEFINE frame == [Top EXCEPT !.at = @ + Step]
<1>1. /\ stack # <<>> /\ Top \in SoundFrame /\ Top.stage \in {"pre", "post"}
      /\ SetTop(frame) /\ exc' = exc
  BY TopIsSound DEF SkipHook, At
<1>2. /\ frame.fn = Top.fn /\ frame.stage = Top.stage
      /\ frame.left = Top.left /\ frame.saved = Top.saved
  BY <1>1, FrameTypes DEF Frame
<1> HIDE DEF frame
<1>3. KeepsCall(frame)
  BY <1>1, <1>2 DEF KeepsCall, CallKept, RaisedBelow, MayReach, ListOf, Forward
<1>4. StaysForeign(frame)
  BY <1>1, <1>2 DEF StaysForeign
<1> QED
  BY <1>1, <1>2, <1>3, <1>4, SetTopIsPlain

LEMMA StartHookIsPlain ==
    ASSUME StackInv, PlainInv, StartHook
    PROVE  PlainInv' /\ [Plain!Next]_(Plain!vars)
<1> DEFINE stage == IF Top.stage = "pre" THEN "prehook" ELSE "posthook"
           frame == [Top EXCEPT !.stage = stage, !.saved = exc, !.resume = Top.opline,
                                !.ran = Append(@, CurrentHook)]
<1>1. /\ stack # <<>> /\ Top \in SoundFrame /\ Top.stage \in {"pre", "post"}
      /\ SetTop(frame) /\ exc' = NULL
  BY TopIsSound DEF StartHook, At
<1>2. frame.fn = Top.fn /\ frame.stage = stage /\ frame.left = Top.left /\ frame.saved = exc
  BY <1>1, FrameTypes DEF Frame
<1> HIDE DEF frame
<1>3. /\ frame.stage \in HookStage /\ frame.stage \notin AsideStage
      /\ frame.stage \in BeginStage <=> Top.stage \in BeginStage
      /\ ListOf(frame) = ListOf(Top)
  BY <1>1, <1>2 DEF HookStage, AsideStage, BeginStage, ListOf, Forward
<1>4. RaisedBelow(frame, exc') = exc /\ RaisedBelow(Top, exc) = exc
  BY <1>1, <1>2, <1>3 DEF RaisedBelow, HookStage, AsideStage
<1>5. KeepsCall(frame)
  BY <1>2, <1>3, <1>4 DEF KeepsCall, CallKept, MayReach
<1>6. StaysForeign(frame)
  BY <1>1, <1>2 DEF StaysForeign, Foreign
<1> QED
  BY <1>1, <1>2, <1>3, <1>5, <1>6, SetTopIsPlain DEF HookStage

LEMMA StartAsideIsPlain ==
    ASSUME StackInv, PlainInv, StartAside
    PROVE  PlainInv' /\ [Plain!Next]_(Plain!vars)
<1> DEFINE stage == IF Top.stage = "pre" THEN "preaside" ELSE "postaside"
           frame == [Top EXCEPT !.stage = stage, !.saved = exc]
<1>1. /\ stack # <<>> /\ Top \in SoundFrame /\ Top.stage \in {"pre", "post"}
      /\ SetTop(frame) /\ exc' = NULL /\ HookList # <<>>
  BY TopIsSound DEF StartAside, At
<1>2. frame.fn = Top.fn /\ frame.stage = stage /\ frame.left = Top.left /\ frame.saved = exc
  BY <1>1, FrameTypes DEF Frame
<1> HIDE DEF frame
<1>3. /\ frame.stage \in AsideStage
      /\ frame.stage \in BeginStage <=> Top.stage \in BeginStage
      /\ ListOf(frame) = ListOf(Top) /\ ListOf(Top) = HookList
  BY <1>1, <1>2 DEF AsideStage, BeginStage, ListOf, Forward, HookList
<1>4. RaisedBelow(frame, exc') = exc /\ RaisedBelow(Top, exc) = exc
  BY <1>1, <1>2, <1>3 DEF RaisedBelow, HookStage, AsideStage
<1>5. KeepsCall(frame)
  BY <1>1, <1>2, <1>3, <1>4 DEF KeepsCall, CallKept, MayReach, Foreign
<1>6. StaysForeign(frame)
  BY <1>1, <1>2 DEF StaysForeign, Foreign
<1> QED
  BY <1>1, <1>2, <1>3, <1>5, <1>6, SetTopIsPlain DEF AsideStage

LEMMA LeaveAsideIsPlain ==
    ASSUME StackInv, PlainInv, NEW missing \in BOOLEAN, LeaveAside(missing)
    PROVE  PlainInv' /\ [Plain!Next]_(Plain!vars)
<1> DEFINE stage  == IF Top.stage = "preaside" THEN "pre" ELSE "post"
           at     == IF missing THEN Top.at + Step ELSE Top.at
           missed == IF missing THEN Top.missed \cup {Top.at} ELSE Top.missed
           opline == IF exc = NULL THEN Top.opline ELSE "handler"
           frame  == [Top EXCEPT !.stage = stage, !.at = at, !.missed = missed,
                                 !.opline = opline, !.saved = NULL]
<1>1. /\ stack # <<>> /\ Top \in SoundFrame /\ Top.stage \in AsideStage
      /\ SetTop(frame) /\ exc' = IF exc = NULL THEN Top.saved ELSE exc
  BY TopIsSound DEF LeaveAside, At
<1> HIDE DEF at, missed, opline
<1>2. /\ frame.fn = Top.fn /\ frame.stage = stage
      /\ frame.left = Top.left /\ frame.saved = NULL
  BY <1>1, FrameTypes DEF Frame
<1> HIDE DEF frame
<1>3. /\ frame.stage \in {"pre", "post"}
      /\ frame.stage \in BeginStage <=> Top.stage \in BeginStage
      /\ ListOf(frame) = ListOf(Top)
  BY <1>1, <1>2 DEF AsideStage, BeginStage, ListOf, Forward
<1>4. RaisedBelow(frame, exc') = exc' /\ RaisedBelow(Top, exc) = Top.saved
  BY <1>1, <1>3 DEF RaisedBelow, HookStage, AsideStage
<1>5. KeepsCall(frame)
  <2>1. ASSUME CallKept(Top, exc) PROVE exc' \in MayReach(Top)
    BY <1>1, <1>4, <2>1 DEF CallKept, MayReach, Foreign
  <2> QED
    BY <1>2, <1>3, <1>4, <2>1 DEF KeepsCall, CallKept, MayReach, AsideStage
<1>6. StaysForeign(frame)
  BY <1>1, <1>2 DEF StaysForeign, Foreign
<1> QED
  BY <1>1, <1>2, <1>3, <1>5, <1>6, SetTopIsPlain DEF AsideStage

\* What a hook raised is dropped.
LEMMA HookLeftIsPlain ==
    ASSUME StackInv, PlainInv, stack # <<>>, NEW frame, SetTop(frame), exc' = Top.saved,
           frame.fn = Top.fn, frame.left = Top.left, frame.saved = NULL,
           \/ Top.stage = "prehook" /\ frame.stage = "pre"
           \/ Top.stage = "posthook" /\ frame.stage = "post"
    PROVE  PlainInv' /\ [Plain!Next]_(Plain!vars)
<1>1. /\ frame.stage \in BeginStage <=> Top.stage \in BeginStage
      /\ ListOf(frame) = ListOf(Top)
      /\ Top.stage \in HookStage /\ frame.stage \notin HookStage \cup AsideStage
  BY DEF HookStage, AsideStage, BeginStage, ListOf, Forward
<1>2. RaisedBelow(frame, exc') = RaisedBelow(Top, exc)
  BY <1>1 DEF RaisedBelow
<1>3. KeepsCall(frame)
  BY <1>1, <1>2 DEF KeepsCall, CallKept, MayReach
<1>4. StaysForeign(frame)
  BY DEF StaysForeign, Foreign
<1> QED
  BY <1>1, <1>3, <1>4, SetTopIsPlain

LEMMA LeavePreHookIsPlain ==
    ASSUME StackInv, PlainInv, NEW v, LeavePreHook(v)
    PROVE  PlainInv' /\ [Plain!Next]_(Plain!vars)
<1> DEFINE args  == IF exc = NULL /\ v # NULL THEN v ELSE Top.args
           frame == [Top EXCEPT !.stage = "pre", !.at = @ + Step,
                                !.args = args, !.params = args, !.opline = Resumed,
                                !.saved = NULL, !.resume = "next"]
<1>1. /\ stack # <<>> /\ Top \in SoundFrame /\ Top.stage = "prehook"
      /\ SetTop(frame) /\ exc' = Top.saved
  BY TopIsSound DEF LeavePreHook, At, EndIsolation
<1>2. frame.fn = Top.fn /\ frame.stage = "pre" /\ frame.left = Top.left /\ frame.saved = NULL
  BY <1>1, FrameTypes DEF Frame
<1> HIDE DEF frame
<1> QED
  BY <1>1, <1>2, HookLeftIsPlain

LEMMA LeavePostHookIsPlain ==
    ASSUME StackInv, PlainInv, NEW v, LeavePostHook(v)
    PROVE  PlainInv' /\ [Plain!Next]_(Plain!vars)
<1> DEFINE slot  == IF exc = NULL /\ CurrentHook \in Typed /\ Top.used THEN v ELSE Top.slot
           frame == [Top EXCEPT !.stage = "post", !.at = @ + Step,
                                !.slot = slot, !.shown = slot, !.opline = Resumed,
                                !.saved = NULL, !.resume = "next"]
<1>1. /\ stack # <<>> /\ Top \in SoundFrame /\ Top.stage = "posthook"
      /\ SetTop(frame) /\ exc' = Top.saved
  BY TopIsSound DEF LeavePostHook, At, EndIsolation
<1>2. frame.fn = Top.fn /\ frame.stage = "post" /\ frame.left = Top.left /\ frame.saved = NULL
  BY <1>1, FrameTypes DEF Frame
<1> HIDE DEF frame
<1> QED
  BY <1>1, <1>2, HookLeftIsPlain

\* The body of a function begins, and with it the plain program's call: with
\* what was raised aside, if anything.
LEMMA EnterBodyIsPlain ==
    ASSUME StackInv, PlainInv, EnterBody
    PROVE  PlainInv' /\ [Plain!Next]_(Plain!vars)
<1> DEFINE frame == [Top EXCEPT !.stage = "body"]
<1>1. /\ stack # <<>> /\ Top \in SoundFrame /\ Top.stage = "pre"
      /\ SetTop(frame) /\ exc' = exc
  BY TopIsSound DEF EnterBody, At
<1>2. frame.fn = Top.fn /\ frame.stage = "body" /\ frame.saved = Top.saved
  BY <1>1, FrameTypes DEF Frame
<1> HIDE DEF frame
<1>3. StaysForeign(frame)
  BY <1>1, <1>2 DEF StaysForeign
<1>4. PICK n : IsDepth(stack, n) /\ Kept(stack, n, exc)
  BY DEF PlainInv
<1>5. /\ n \in Nat /\ n >= 1 /\ n <= Len(stack) /\ Len(stack) \in Nat
      /\ \A i \in 1..n : stack[i].stage = "body"
  BY <1>1, <1>4, DepthFacts DEF IsDepth
<1>6. /\ Len(stack') = Len(stack) /\ Top = stack[Len(stack)] /\ stack'[Len(stack)] = frame
      /\ \A i \in 1..Len(stack) - 1 : stack'[i] = stack[i]
      /\ \A i \in 1..Len(stack) : stack'[i].fn = stack[i].fn
      /\ \A i \in 1..Len(stack') : stack'[i].fn = Main <=> i = 1
  BY <1>1, <1>2, SetTopFacts
<1>7. ASSUME n + 1 = Len(stack)
      PROVE  PlainInv' /\ [Plain!Next]_(Plain!vars)
  <2>1. stack[n + 1] = Top /\ stack'[n + 1] = frame /\ \A i \in 1..n : stack'[i] = stack[i]
    <3>1. \A i \in 1..n : i \in 1..Len(stack) - 1
      BY <1>5, <1>7
    <3> QED
      BY <1>6, <1>7, <3>1
  <2>2. IsDepth(stack', n + 1)
    <3>1. \A i \in 1..n + 1 : i \in 1..n \/ i = n + 1
      BY <1>5
    <3>2. \A i \in 1..n + 1 : stack'[i].stage = "body"
      BY <1>2, <1>5, <2>1, <3>1
    <3> QED
      BY <1>5, <1>6, <1>7, <3>2 DEF IsDepth
  <2>3. ~HasBegun(stack, n) /\ ~HasBegun(stack', n + 1)
    BY <1>1, <1>6, <1>7, <2>1 DEF HasBegun, BeginStage
  <2>4. /\ CallsOf(stack', n + 1) = Append(CallsOf(stack, n), Top.fn)
        /\ CallsOf(stack, n) # <<>>
    <3>1. CallsTo(stack', n + 1) = CallsTo(stack, n + 1)
      BY <1>5, <1>6, <1>7, SameCalls
    <3>2. CallsTo(stack, n + 1) = Append(CallsTo(stack, n), Top.fn)
      BY <1>5, <2>1, CallsGrow
    <3>3. CallsTo(stack, n) # <<>>
      BY <1>5 DEF CallsTo
    <3> QED
      BY <2>3, <3>1, <3>2, <3>3 DEF CallsOf
  <2>5. ExcOf(stack, n, exc) = NULL /\ ExcOf(stack', n + 1, exc') = exc
    BY <1>1, <1>5, <1>6, <1>7, <2>3 DEF ExcOf
  <2>6. exc = NULL \/ (Pre[Top.fn] # <<>> /\ exc \in Plain!Interruption)
    <3>1. exc \in MayReach(Top)
      BY <1>1, <1>4, <1>5, <1>7, <2>1
      DEF Kept, CallKept, RaisedBelow, HookStage, AsideStage
    <3>2. ListOf(Top) = Pre[Top.fn] /\ Top.stage \in BeginStage
      BY <1>1 DEF ListOf, Forward, BeginStage
    <3> QED
      BY <3>1, <3>2 DEF MayReach
  <2>7. Top.fn \in Function
    BY <1>1, FrameTypes DEF Sound
  <2>8. Kept(stack', n + 1, exc')
    BY <1>5, <1>6, <1>7 DEF Kept
  <2>9. [Plain!Next]_(Plain!vars)
    BY <1>4, <1>5, <1>6, <2>2, <2>4, <2>5, <2>6, <2>7, StepMapped
  <2> QED
    BY <1>6, <2>2, <2>8, <2>9 DEF PlainInv
<1>8. n # Len(stack)
  BY <1>1, <1>5, <1>6
<1>9. n + 1 < Len(stack) \/ n + 1 = Len(stack)
  BY <1>5, <1>8
<1> QED
  BY <1>1, <1>2, <1>3, <1>4, <1>7, <1>9, AboveIsPlain

\* The body ends: the plain program still waits for the call to end.
LEMMA LeaveBodyIsPlain ==
    ASSUME StackInv, PlainInv, NEW v, LeaveBody(v)
    PROVE  PlainInv' /\ [Plain!Next]_(Plain!vars)
<1> DEFINE slot   == CASE ~Top.used              -> NULL
                       [] Top.used /\ exc = NULL -> v
                       [] OTHER                  -> GARBAGE
           shown  == IF exc = NULL THEN v ELSE NULL
           frame  == [Top EXCEPT !.stage = "post", !.at = Len(Post[Top.fn]),
                        !.params = Top.args, !.slot = slot, !.shown = shown,
                        !.thrown = FuncGetException(exc),
                        !.left = exc, !.ran = <<>>, !.missed = {}]
<1>1. /\ stack # <<>> /\ Top \in SoundFrame /\ Top.stage = "body"
      /\ SetTop(frame) /\ exc' = exc
  BY TopIsSound DEF LeaveBody, At
<1> HIDE DEF slot, shown
<1>2. /\ frame.fn = Top.fn /\ frame.stage = "post"
      /\ frame.left = exc /\ frame.saved = Top.saved
  BY <1>1, FrameTypes DEF Frame
<1> HIDE DEF frame
<1>3. StaysForeign(frame)
  BY <1>1, <1>2 DEF StaysForeign
<1>4. PICK n : IsDepth(stack, n) /\ Kept(stack, n, exc)
  BY DEF PlainInv
<1>5. /\ n \in Nat /\ n >= 1 /\ n <= Len(stack) /\ Len(stack) \in Nat
      /\ \A i \in 1..n : stack[i].stage = "body"
      /\ n < Len(stack) => stack[n + 1].stage # "body"
  BY <1>1, <1>4, DepthFacts DEF IsDepth
<1>6. /\ Len(stack') = Len(stack) /\ Top = stack[Len(stack)] /\ stack'[Len(stack)] = frame
      /\ \A i \in 1..Len(stack) - 1 : stack'[i] = stack[i]
      /\ \A i \in 1..Len(stack) : stack'[i].fn = stack[i].fn
      /\ \A i \in 1..Len(stack') : stack'[i].fn = Main <=> i = 1
  BY <1>1, <1>2, SetTopFacts
<1>7. ASSUME n = Len(stack)
      PROVE  PlainInv' /\ [Plain!Next]_(Plain!vars)
  <2>1. PICK m \in Nat : m + 1 = n
    <3>1. n - 1 \in Nat /\ (n - 1) + 1 = n
      BY <1>5
    <3> QED
      BY <3>1
  <2>2. m + 1 = Len(stack) /\ m < Len(stack) /\ m + 1 = Len(stack')
    BY <1>6, <1>7, <2>1
  <2>3. stack'[m + 1] = frame /\ \A i \in 1..m : stack'[i].stage = "body"
    <3>1. \A i \in 1..m : i \in 1..Len(stack) - 1 /\ i \in 1..n
      BY <2>1, <2>2
    <3> QED
      BY <1>5, <1>6, <2>2, <3>1
  <2>4. IsDepth(stack', m)
    BY <1>2, <1>6, <2>2, <2>3 DEF IsDepth
  <2>5. HasBegun(stack', m) /\ ~HasBegun(stack, n)
    BY <1>2, <1>6, <1>7, <2>2, <2>3 DEF HasBegun, BeginStage
  <2>6. CallsOf(stack, n) = CallsOf(stack', m)
    <3>1. CallsTo(stack, n) = CallsTo(stack', n)
      BY <1>5, <1>6, <1>7, SameCalls
    <3> QED
      BY <2>1, <2>5, <3>1 DEF CallsOf
  <2>7. ExcOf(stack, n, exc) = exc /\ ExcOf(stack', m, exc') = exc
    BY <1>2, <1>6, <1>7, <2>2, <2>3, <2>5 DEF ExcOf
  <2>8. CallKept(frame, exc')
    BY <1>1, <1>2 DEF CallKept, RaisedBelow, MayReach, HookStage, AsideStage, BeginStage
  <2>9. Kept(stack', m, exc')
    BY <1>2, <2>3, <2>8 DEF Kept, AsideStage
  <2>10. [Plain!Next]_(Plain!vars)
    BY <1>4, <1>5, <1>6, <2>4, <2>6, <2>7, StepMapped
  <2> QED
    BY <1>6, <2>4, <2>9, <2>10 DEF PlainInv
<1>8. n + 1 # Len(stack)
  BY <1>1, <1>5, <1>6
<1>9. n + 1 < Len(stack) \/ n = Len(stack)
  BY <1>5, <1>8
<1> QED
  BY <1>1, <1>2, <1>3, <1>4, <1>7, <1>9, AboveIsPlain

\* Throwing, exiting and catching are the plain program's if done in one of
\* its bodies, and nothing to it elsewhere.
LEMMA CodeIsPlain ==
    ASSUME StackInv, PlainInv, NEW opline \in Opline,
           stack # <<>>, Top.stage \in CodeStage, SetTop(GoingOn(Top, opline)),
           \/ /\ exc = NULL
              /\ \E x \in Exception \cup {UNWIND} : exc' = [what |-> x, by |-> RunningCode]
           \/ exc # NULL /\ exc.what \in Exception /\ exc' = NULL
    PROVE  PlainInv' /\ [Plain!Next]_(Plain!vars)
<1> DEFINE frame == GoingOn(Top, opline)
<1>1. Top \in SoundFrame
  BY TopIsSound
<1>2. /\ frame.fn = Top.fn /\ frame.stage = Top.stage
      /\ frame.left = Top.left /\ frame.saved = Top.saved
  BY <1>1, FrameTypes DEF GoingOn, Frame
<1>3. SetTop(frame)
  OBVIOUS
<1> HIDE DEF frame
<1>4. RunningCode = "aside" => exc' \in Foreign
  BY DEF Foreign, Plain!Interruption
<1>5. StaysForeign(frame)
  BY <1>2, <1>4 DEF StaysForeign
<1>6. ASSUME Top.stage # "body"
      PROVE  PlainInv' /\ [Plain!Next]_(Plain!vars)
  <2>1. RaisedBelow(frame, exc') = RaisedBelow(Top, exc)
    BY <1>2, <1>6 DEF RaisedBelow, CodeStage
  <2>2. ListOf(frame) = ListOf(Top) /\ MayReach(frame) = MayReach(Top)
    BY <1>2 DEF MayReach, ListOf, Forward
  <2>3. KeepsCall(frame)
    BY <1>2, <1>4, <2>1, <2>2 DEF KeepsCall, CallKept
  <2> QED
    BY <1>2, <1>3, <1>5, <1>6, <2>3, SetTopIsPlain
<1>7. ASSUME Top.stage = "body"
      PROVE  PlainInv' /\ [Plain!Next]_(Plain!vars)
  <2>1. PICK n : IsDepth(stack, n) /\ Kept(stack, n, exc)
    BY DEF PlainInv
  <2>2. /\ n \in Nat /\ n >= 1 /\ n <= Len(stack) /\ Len(stack) \in Nat
        /\ stack \in Seq(SoundFrame)
        /\ \A i \in 1..n : stack[i].stage = "body"
        /\ n < Len(stack) => stack[n + 1].stage # "body"
    BY <2>1, DepthFacts DEF IsDepth
  <2>3. /\ Len(stack') = Len(stack) /\ Top = stack[Len(stack)] /\ stack'[Len(stack)] = frame
        /\ \A i \in 1..Len(stack) - 1 : stack'[i] = stack[i]
        /\ \A i \in 1..Len(stack) : stack'[i].fn = stack[i].fn
        /\ \A i \in 1..Len(stack') : stack'[i].fn = Main <=> i = 1
    BY <1>2, <1>3, SetTopFacts
  <2>4. ASSUME n = Len(stack)
        PROVE  PlainInv' /\ [Plain!Next]_(Plain!vars)
    <3>1. IsDepth(stack', n)
      <4>1. \A i \in 1..n : i \in 1..Len(stack) - 1 \/ i = Len(stack)
        BY <2>2, <2>4
      <4>2. \A i \in 1..n : stack'[i].stage = "body"
        BY <1>2, <1>7, <2>2, <2>3, <4>1
      <4> QED
        BY <2>2, <2>3, <2>4, <4>2 DEF IsDepth
    <3>2. ~HasBegun(stack, n) /\ ~HasBegun(stack', n)
      BY <2>2, <2>3, <2>4 DEF HasBegun
    <3>3. CallsOf(stack, n) = CallsOf(stack', n) /\ CallsOf(stack, n) # <<>>
      <4>1. CallsTo(stack, n) = CallsTo(stack', n)
        BY <2>2, <2>3, <2>4, SameCalls
      <4>2. CallsTo(stack, n) # <<>>
        BY <2>2 DEF CallsTo
      <4> QED
        BY <3>2, <4>1, <4>2 DEF CallsOf
    <3>4. ExcOf(stack, n, exc) = exc /\ ExcOf(stack', n, exc') = exc'
      BY <2>3, <2>4, <3>2 DEF ExcOf
    <3>5. RunningCode = "code"
      BY <2>1, <2>2, <2>4, WhoWaits
    <3>6. Kept(stack', n, exc')
      BY <2>2, <2>3, <2>4 DEF Kept
    <3>7. [Plain!Next]_(Plain!vars)
      BY <2>1, <2>2, <2>3, <3>1, <3>3, <3>4, <3>5, StepMapped
    <3> QED
      BY <2>3, <3>1, <3>6, <3>7 DEF PlainInv
  <2>5. n + 1 # Len(stack)
    BY <1>7, <2>2, <2>3
  <2>6. n + 1 < Len(stack) \/ n = Len(stack)
    BY <2>2, <2>5
  <2> QED
    BY <1>2, <1>3, <1>5, <2>1, <2>4, <2>6, AboveIsPlain
<1> QED
  BY <1>6, <1>7

\* The extension starts its pre hooks: the plain program does nothing yet.
LEMMA CallIsPlain ==
    ASSUME StackInv, PlainInv, NEW f \in Function, NEW a \in Value, NEW used \in BOOLEAN,
           Call(f, a, used)
    PROVE  PlainInv' /\ [Plain!Next]_(Plain!vars)
<1> DEFINE frame == NewFrame(f, a, used)
<1>1. stack # <<>> /\ exc = NULL /\ exc' = NULL /\ stack' = Append(stack, frame)
  BY DEF Call, At
<1>2. /\ frame.fn = f /\ f # Main /\ frame.stage = "pre" /\ frame \in SoundFrame
      /\ frame.saved = NULL
  BY NewFrameIsSound, HookAssumption DEF NewFrame
<1> HIDE DEF frame
<1>3. PICK n : IsDepth(stack, n) /\ Kept(stack, n, exc)
  BY DEF PlainInv
<1>4. /\ n \in Nat /\ n >= 1 /\ n <= Len(stack) /\ Len(stack) \in Nat
      /\ stack \in Seq(SoundFrame)
  BY <1>1, <1>3, DepthFacts DEF StackInv
<1>5. PICK k \in Nat : k = Len(stack)
  BY <1>4
<1>6. /\ Len(stack') = k + 1 /\ stack'[k + 1] = frame
      /\ \A i \in 1..k : stack'[i] = stack[i]
  BY <1>1, <1>2, <1>4, <1>5
<1>7. /\ \A i \in 1..n : stack[i].stage = "body"
      /\ n < k => stack[n + 1].stage # "body"
  BY <1>3, <1>5 DEF IsDepth
<1>8. IsDepth(stack', n)
  <2>1. \A i \in 1..n : stack'[i].stage = "body"
    BY <1>4, <1>5, <1>6, <1>7
  <2>2. stack'[n + 1].stage # "body"
    BY <1>2, <1>4, <1>5, <1>6, <1>7
  <2> QED
    BY <1>4, <1>5, <1>6, <2>1, <2>2 DEF IsDepth
<1>9. ASSUME n < k
      PROVE  /\ CallsOf(stack, n) = CallsOf(stack', n)
             /\ ExcOf(stack, n, exc) = ExcOf(stack', n, exc')
             /\ Kept(stack', n, exc')
  <2>1. stack'[n + 1] = stack[n + 1] /\ \A i \in 1..n : stack'[i] = stack[i]
    BY <1>4, <1>5, <1>6, <1>9
  <2>2. HasBegun(stack, n) <=> HasBegun(stack', n)
    BY <1>4, <1>5, <1>6, <1>9, <2>1 DEF HasBegun
  <2>3. CallsTo(stack, n) = CallsTo(stack', n) /\ CallsTo(stack, n + 1) = CallsTo(stack', n + 1)
    <3>1. \A i \in 1..n + 1 : i \in 1..n \/ i = n + 1
      BY <1>4
    <3> QED
      BY <1>4, <2>1, <3>1, SameCalls
  <2>4. ExcOf(stack, n, exc) = ExcOf(stack', n, exc')
    BY <1>4, <1>5, <1>6, <1>9, <2>1, <2>2 DEF ExcOf
  <2>5. Kept(stack', n, exc')
    <3>1. CallKept(stack'[n + 1], exc')
      BY <1>1, <1>3, <1>5, <1>9, <2>1 DEF Kept
    <3>2. ASSUME stack'[n + 1].stage \in AsideStage, NEW j \in n + 2..Len(stack')
          PROVE  stack'[j].saved \in Foreign
      <4>1. j = k + 1 \/ j \in n + 2..k
        BY <1>4, <1>6
      <4>2. j \in n + 2..k => stack'[j] = stack[j]
        BY <1>4, <1>6
      <4> QED
        BY <1>2, <1>3, <1>5, <1>6, <1>9, <2>1, <3>2, <4>1, <4>2 DEF Kept, Foreign
    <3> QED
      BY <3>1, <3>2 DEF Kept
  <2> QED
    BY <2>2, <2>3, <2>4, <2>5 DEF CallsOf
<1>10. ASSUME n = k
       PROVE  /\ CallsOf(stack, n) = CallsOf(stack', n)
              /\ ExcOf(stack, n, exc) = ExcOf(stack', n, exc')
              /\ Kept(stack', n, exc')
  <2>1. ~HasBegun(stack, n) /\ ~HasBegun(stack', n)
    BY <1>2, <1>5, <1>6, <1>10 DEF HasBegun, BeginStage
  <2>2. CallsTo(stack, n) = CallsTo(stack', n)
    BY <1>4, <1>6, <1>10, SameCalls
  <2>3. ExcOf(stack, n, exc) = NULL /\ ExcOf(stack', n, exc') = NULL
    BY <1>1, <1>5, <1>6, <1>10, <2>1 DEF ExcOf
  <2>4. CallKept(frame, exc')
    BY <1>1, <1>2 DEF CallKept, RaisedBelow, MayReach, HookStage, AsideStage, BeginStage
  <2>5. Kept(stack', n, exc')
    BY <1>2, <1>6, <1>10, <2>4 DEF Kept, AsideStage
  <2> QED
    BY <2>1, <2>2, <2>3, <2>5 DEF CallsOf
<1>11. n < k \/ n = k
  BY <1>4, <1>5
<1>12. [Plain!Next]_(Plain!vars)
  BY <1>3, <1>4, <1>5, <1>6, <1>8, <1>9, <1>10, <1>11, StepMapped
<1>13. \A i \in 1..Len(stack') : stack'[i].fn = Main <=> i = 1
  <2>1. \A i \in 1..k + 1 : i \in 1..k \/ (i = k + 1 /\ i # 1)
    BY <1>4, <1>5
  <2> QED
    BY <1>2, <1>5, <1>6, <2>1 DEF PlainInv
<1> QED
  BY <1>8, <1>9, <1>10, <1>11, <1>12, <1>13 DEF PlainInv

LEMMA LeaveMainIsPlain ==
    ASSUME StackInv, PlainInv, LeaveMain
    PROVE  PlainInv' /\ [Plain!Next]_(Plain!vars)
<1>1. stack # <<>> /\ Top.fn = Main /\ Top.stage = "body" /\ stack' = <<>> /\ exc' = exc
  BY DEF LeaveMain, At
<1>2. PICK n : IsDepth(stack, n)
  BY DEF PlainInv
<1>3. n \in Nat /\ n >= 1 /\ n <= Len(stack) /\ Len(stack) \in Nat
  BY <1>1, <1>2, DepthFacts
<1>4. Len(stack) = 1
  <2>1. Len(stack) \in 1..Len(stack)
    BY <1>3
  <2>2. stack[Len(stack)].fn = Main
    BY <1>1 DEF Top
  <2> QED
    BY <2>1, <2>2 DEF PlainInv
<1>5. n = 1
  BY <1>3, <1>4
<1>6. Len(stack') = 0 /\ IsDepth(stack', 0)
  BY <1>1 DEF IsDepth
<1>7. ~HasBegun(stack, n) /\ ~HasBegun(stack', 0)
  BY <1>4, <1>5, <1>6 DEF HasBegun
<1>8. CallsOf(stack, n) = CallsTo(stack, 1) /\ CallsOf(stack', 0) = CallsTo(stack, 0)
  BY <1>5, <1>7 DEF CallsOf, CallsTo
<1>9. /\ CallsOf(stack', 0) = SubSeq(CallsOf(stack, n), 1, Len(CallsOf(stack, n)) - 1)
      /\ CallsOf(stack, n) # <<>>
  <2>1. /\ CallsTo(stack, 0) = SubSeq(CallsTo(stack, 0 + 1), 1, 0)
        /\ Len(CallsTo(stack, 1)) = 1
    BY CallsGrow
  <2>2. CallsTo(stack, 0 + 1) = CallsTo(stack, 1) /\ 1 - 1 = 0
    OBVIOUS
  <2>3. CallsTo(stack, 0) = SubSeq(CallsTo(stack, 1), 1, Len(CallsTo(stack, 1)) - 1)
    BY <2>1, <2>2
  <2>4. CallsTo(stack, 1) # <<>>
    BY <2>1
  <2> QED
    BY <1>8, <2>3, <2>4
<1>10. ExcOf(stack, n, exc) = ExcOf(stack', 0, exc')
  BY <1>1, <1>4, <1>5, <1>6, <1>7 DEF ExcOf
<1>11. [Plain!Next]_(Plain!vars)
  BY <1>2, <1>3, <1>6, <1>9, <1>10, StepMapped
<1>12. Kept(stack', 0, exc') /\ \A i \in 1..Len(stack') : FALSE
  BY <1>6 DEF Kept
<1> QED
  BY <1>6, <1>11, <1>12 DEF PlainInv

\* The call ends after its post hooks: the plain program's call has left, with
\* what ended its body or with what was raised aside.
LEMMA EndCallIsPlain ==
    ASSUME StackInv, PlainInv, EndCall
    PROVE  PlainInv' /\ [Plain!Next]_(Plain!vars)
<1>1. /\ stack # <<>> /\ Top.stage = "post" /\ exc' = exc
      /\ stack \in Seq(SoundFrame) /\ Len(stack) \in Nat /\ Len(stack) >= 1
  BY TopIsSound DEF EndCall, At, StackInv
<1>2. PICK caller \in Nat : caller = Len(stack) - 1
  BY <1>1
<1> DEFINE opline == IF exc = NULL THEN "next" ELSE "handler"
           below  == SubSeq(stack, 1, caller)
<1>3. stack' = [below EXCEPT ![caller] = GoingOn(@, opline)]
  BY <1>2 DEF EndCall
<1>4. Len(stack) = caller + 1
  BY <1>1, <1>2
<1>5. /\ below \in Seq(SoundFrame) /\ Len(below) = caller
      /\ \A i \in 1..caller : below[i] = stack[i]
  BY <1>1, <1>4, WithoutTheLast
<1>6. \A i \in 1..caller : below[i] \in SoundFrame
  BY <1>1, <1>4, <1>5
<1> HIDE DEF below, opline
<1>7. /\ Len(stack') = caller
      /\ \A i \in 1..caller : stack'[i] = IF i = caller THEN GoingOn(below[i], opline) ELSE below[i]
  BY <1>3, <1>5
<1>8. ASSUME NEW i \in 1..caller
      PROVE  /\ stack'[i].fn = stack[i].fn /\ stack'[i].stage = stack[i].stage
             /\ stack'[i].saved = stack[i].saved /\ stack'[i].left = stack[i].left
  <2>1. below[i] \in SoundFrame /\ below[i] = stack[i]
    BY <1>5, <1>6
  <2>2. /\ GoingOn(below[i], opline).fn = below[i].fn
        /\ GoingOn(below[i], opline).stage = below[i].stage
        /\ GoingOn(below[i], opline).saved = below[i].saved
        /\ GoingOn(below[i], opline).left = below[i].left
    BY <2>1, FrameTypes DEF GoingOn, Frame
  <2> QED
    BY <1>7, <2>1, <2>2
<1>9. PICK n : IsDepth(stack, n) /\ Kept(stack, n, exc)
  BY DEF PlainInv
<1>10. /\ n \in Nat /\ n >= 1 /\ n <= caller + 1
       /\ n < caller => stack[n + 1].stage \in HookStage \cup AsideStage
  BY <1>1, <1>4, <1>9, DepthFacts
<1>11. /\ \A i \in 1..n : stack[i].stage = "body"
       /\ n < caller + 1 => stack[n + 1].stage # "body"
  BY <1>4, <1>9 DEF IsDepth
<1>12. n <= caller
  BY <1>1, <1>4, <1>10, <1>11 DEF Top
<1>13. IsDepth(stack', n)
  <2>1. \A i \in 1..n : stack'[i].stage = "body"
    BY <1>8, <1>10, <1>11, <1>12
  <2>2. n < caller => stack'[n + 1].stage # "body"
    BY <1>8, <1>10, <1>11, <1>12
  <2> QED
    BY <1>7, <1>10, <1>12, <2>1, <2>2 DEF IsDepth
<1>14. CallsTo(stack, n) = CallsTo(stack', n)
  <2>1. \A i \in 1..n : i \in 1..caller
    BY <1>10, <1>12
  <2> QED
    BY <1>8, <1>10, <2>1, SameCalls
<1>15. \A i \in 1..Len(stack') : stack'[i].fn = Main <=> i = 1
  BY <1>4, <1>7, <1>8 DEF PlainInv
<1>16. ASSUME n < caller
       PROVE  PlainInv' /\ [Plain!Next]_(Plain!vars)
  <2>1. n + 1 \in 1..caller /\ n < Len(stack) /\ n < Len(stack')
    BY <1>4, <1>7, <1>10, <1>16
  <2>2. /\ stack'[n + 1].fn = stack[n + 1].fn /\ stack'[n + 1].stage = stack[n + 1].stage
        /\ stack'[n + 1].saved = stack[n + 1].saved /\ stack'[n + 1].left = stack[n + 1].left
    BY <1>8, <2>1
  <2>3. HasBegun(stack, n) <=> HasBegun(stack', n)
    BY <2>1, <2>2 DEF HasBegun
  <2>4. CallsTo(stack, n + 1) = CallsTo(stack', n + 1)
    <3>1. \A i \in 1..n + 1 : i \in 1..caller
      BY <2>1
    <3> QED
      BY <1>8, <1>10, <3>1, SameCalls
  <2>5. CallsOf(stack, n) = CallsOf(stack', n)
    BY <1>14, <2>3, <2>4 DEF CallsOf
  <2>6. ExcOf(stack, n, exc) = ExcOf(stack', n, exc')
    BY <1>10, <2>1, <2>2, <2>3 DEF ExcOf
  <2>7. Kept(stack', n, exc')
    <3>1. ListOf(stack'[n + 1]) = ListOf(stack[n + 1])
      BY <2>2 DEF ListOf, Forward
    <3>2. CallKept(stack'[n + 1], exc')
      BY <1>1, <1>9, <2>1, <2>2, <3>1 DEF Kept, CallKept, RaisedBelow, MayReach
    <3>3. ASSUME stack'[n + 1].stage \in AsideStage, NEW j \in n + 2..Len(stack')
          PROVE  stack'[j].saved \in Foreign
      <4>1. j \in 1..caller /\ j \in n + 2..Len(stack)
        BY <1>4, <1>7, <1>10
      <4>2. stack[j].saved \in Foreign
        BY <1>9, <2>1, <2>2, <3>3, <4>1 DEF Kept
      <4> QED
        BY <1>8, <4>1, <4>2
    <3> QED
      BY <3>2, <3>3 DEF Kept
  <2>8. [Plain!Next]_(Plain!vars)
    BY <1>1, <1>7, <1>9, <1>13, <2>5, <2>6, StepMapped
  <2> QED
    BY <1>13, <1>15, <2>7, <2>8 DEF PlainInv
<1>17. ASSUME n = caller
       PROVE  PlainInv' /\ [Plain!Next]_(Plain!vars)
  <2>1. n + 1 = Len(stack) /\ n < Len(stack) /\ Top = stack[n + 1] /\ n = Len(stack')
    BY <1>4, <1>7, <1>17 DEF Top
  <2>2. HasBegun(stack, n) /\ ~HasBegun(stack', n)
    BY <1>1, <1>10, <2>1 DEF HasBegun, BeginStage
  <2>3. /\ CallsOf(stack, n) = CallsTo(stack, n + 1)
        /\ CallsOf(stack', n) = CallsTo(stack, n)
    BY <1>14, <2>2 DEF CallsOf
  <2>4. /\ CallsOf(stack, n) # <<>> /\ Len(CallsOf(stack, n)) = n + 1
        /\ CallsOf(stack', n) = SubSeq(CallsOf(stack, n), 1, Len(CallsOf(stack, n)) - 1)
        /\ CallsOf(stack, n)[n + 1] = Top.fn
    <3>1. /\ CallsTo(stack, n) = SubSeq(CallsTo(stack, n + 1), 1, n)
          /\ Len(CallsTo(stack, n + 1)) = n + 1
      BY <1>10, CallsGrow
    <3>2. (n + 1) - 1 = n
      BY <1>10
    <3>3. CallsTo(stack, n + 1)[n + 1] = Top.fn
      BY <1>10, <2>1 DEF CallsTo
    <3>4. CallsTo(stack, n + 1) # <<>>
      BY <1>10, <3>1
    <3> QED
      BY <2>3, <3>1, <3>2, <3>3, <3>4
  <2>5. ExcOf(stack, n, exc) = Top.left /\ ExcOf(stack', n, exc') = exc
    BY <1>1, <1>10, <2>1, <2>2 DEF ExcOf
  <2>6. exc = Top.left \/ (Post[Top.fn] # <<>> /\ exc \in Plain!Interruption)
    <3>1. exc \in MayReach(Top)
      BY <1>1, <1>9, <2>1 DEF Kept, CallKept, RaisedBelow, HookStage, AsideStage
    <3>2. ListOf(Top) = Post[Top.fn] /\ Top.stage \notin BeginStage
      BY <1>1 DEF ListOf, Forward, BeginStage
    <3> QED
      BY <3>1, <3>2 DEF MayReach
  <2>7. Top.fn \in Function
    BY <1>1, TopIsSound, FrameTypes DEF Sound
  <2>8. Kept(stack', n, exc')
    BY <1>10, <2>1 DEF Kept
  <2>9. [Plain!Next]_(Plain!vars)
    BY <1>1, <1>7, <1>9, <1>13, <2>4, <2>5, <2>6, <2>7, StepMapped
  <2> QED
    BY <1>13, <1>15, <2>8, <2>9 DEF PlainInv
<1>18. n < caller \/ n = caller
  BY <1>10, <1>12
<1> QED
  BY <1>16, <1>17, <1>18

-----------------------------------------------------------------------------
(* The refinement.                                                         *)

LEMMA InitIsPlain == Init => PlainInv /\ Plain!Init
<1> SUFFICES ASSUME Init PROVE PlainInv /\ Plain!Init
  OBVIOUS
<1>1. stack = <<[NewFrame(Main, NULL, FALSE) EXCEPT !.stage = "body"]>>
  BY DEF Init
<1>2. Len(stack) = 1 /\ stack[1].fn = Main /\ stack[1].stage = "body" /\ exc = NULL
  BY <1>1 DEF NewFrame, Init
<1>3. IsDepth(stack, 1) /\ ~HasBegun(stack, 1) /\ Kept(stack, 1, exc)
  BY <1>2 DEF IsDepth, HasBegun, Kept
<1>4. PlainInv
  BY <1>2, <1>3 DEF PlainInv
<1>5. CallsOf(stack, 1) = <<Main>>
  <2>1. CallsTo(stack, 1) = [i \in 1..1 |-> Main]
    BY <1>2 DEF CallsTo
  <2>2. [i \in 1..1 |-> Main] = <<Main>>
    OBVIOUS
  <2> QED
    BY <1>3, <2>1, <2>2 DEF CallsOf
<1>6. ExcOf(stack, 1, exc) = NULL
  BY <1>2, <1>3 DEF ExcOf
<1>7. PlainCallsNow = CallsOf(stack, 1) /\ PlainExc = ExcOf(stack, 1, exc)
  <2>1. Len(stack) \in Nat
    BY <1>2
  <2> QED
    BY <1>3, <2>1, Mapped
<1> QED
  BY <1>4, <1>5, <1>6, <1>7 DEF Plain!Init, PlainCallsNow

\* Hooks are transparent: seen without its hooks, a program calls, returns,
\* throws, catches and exits as PHP programs do.  No hook keeps a function from
\* being called or makes it be called again, and no exception of a hook reaches
\* the program, nor does one of the program get lost in a hook.  What autoloaders,
\* error handlers and destructors raise that run aside, around hooks, reaches the
\* program where a hooked function begins or ends, and nowhere else.
THEOREM HooksAreTransparentHolds == Spec => HooksAreTransparent
<1>1. StackInv /\ PlainInv /\ [Next]_vars => PlainInv' /\ [Plain!Next]_(Plain!vars)
  <2> SUFFICES ASSUME StackInv, PlainInv, [Next]_vars
               PROVE  PlainInv' /\ [Plain!Next]_(Plain!vars)
    OBVIOUS
  <2>1. CASE Dispatch
    BY <2>1, SkipHookIsPlain, StartHookIsPlain, EnterBodyIsPlain, EndCallIsPlain DEF Dispatch
  <2>2. ASSUME NEW e \in Exception \cup {UNWIND}, Raise(e)
        PROVE  PlainInv' /\ [Plain!Next]_(Plain!vars)
    BY <2>2, CodeIsPlain DEF Raise, At, Opline
  <2>3. CASE Catch
    BY <2>3, CodeIsPlain DEF Catch, At, Opline
  <2>4. CASE Code
    BY <2>2, <2>3, <2>4, CallIsPlain, LeaveMainIsPlain, StartAsideIsPlain,
       LeaveAsideIsPlain, LeavePreHookIsPlain, LeavePostHookIsPlain, LeaveBodyIsPlain DEF Code
  <2>5. CASE UNCHANGED vars
    <3>1. stack' = stack /\ exc' = exc
      BY <2>5 DEF vars
    <3>2. PICK n : IsDepth(stack, n)
      BY DEF PlainInv
    <3>3. Len(stack) \in Nat
      BY DEF StackInv
    <3>4. PlainInv'
      BY <3>1 DEF PlainInv
    <3> QED
      BY <3>1, <3>2, <3>3, <3>4, StepMapped
  <2> QED
    BY <2>1, <2>4, <2>5 DEF Next
<1> QED
  BY <1>1, InitIsPlain, StackInvHolds, PTL DEF Spec, HooksAreTransparent, Plain!Spec

==============================================================================
