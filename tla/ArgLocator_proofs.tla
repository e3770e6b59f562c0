-------------------------- MODULE ArgLocator_proofs --------------------------
(***************************************************************************)
(* However many hooks extend a frame, its arguments lie inside it and the  *)
(* frame on its stack page; and the temporaries of a function without local*)
(* variables stay as they are: proved for all functions, calls, arrays,    *)
(* limits and room on the page.                                            *)
(***************************************************************************)
EXTENDS ArgLocator, TLAPS

\* The types of what FrameEndsRight is about.
NumbersOK ==
    /\ function \in Shape
    /\ numArgs \in Nat /\ top \in Nat /\ pageEnd \in Nat /\ initialized \in Nat
    /\ stage \in {"hook", "store", "body", "crashed"}
    /\ todo \in Seq(Entry)
    /\ locator \in LocatorType

\* The inductive invariant.
FrameInv == NumbersOK /\ (stage # "crashed" => FrameEndsRight)

LEMMA ShapeFacts ==
    ASSUME NEW s \in Shape
    PROVE  /\ s.internal \in BOOLEAN
           /\ s.params \in Nat /\ s.vars \in Nat /\ s.temps \in Nat
           /\ s.params <= s.vars
  BY ShapeAssumption

LEMMA FrameEndIsNat ==
    ASSUME NEW s \in Shape, NEW n \in Nat
    PROVE  FrameEnd(s, n) \in Nat
  BY ShapeFacts DEF FrameEnd, Larger

LEMMA NoLocatorType == NoLocator \in LocatorType
  BY InputAssumption DEF NoLocator, LocatorType, Memory

LEMMA InitFrame == Init => FrameInv
<1> SUFFICES ASSUME Init PROVE FrameInv
  OBVIOUS
<1>1. function \in Shape /\ numArgs \in Nat
  BY InputAssumption DEF Init
<1>2. top = FrameEnd(function, numArgs) /\ top \in Nat
  BY <1>1, FrameEndIsNat DEF Init
<1>3. pageEnd \in Nat /\ top <= pageEnd
  BY <1>2, InputAssumption DEF Init
<1>4. todo \in Seq(Entry) /\ locator \in LocatorType
  BY NoLocatorType DEF Init
<1> QED
  BY <1>1, <1>2, <1>3, <1>4 DEF Init, FrameInv, NumbersOK, FrameEndsRight

LEMMA ReturnsKeepsFrame ==
    ASSUME FrameInv, NEW array \in Returned, NEW allowed \in BOOLEAN,
           HookReturns(array, allowed)
    PROVE  FrameInv'
<1>1. NumbersOK /\ FrameEndsRight /\ stage = "hook"
  BY DEF FrameInv, HookReturns
<1>2. todo' \in Seq(Entry)
  BY InputAssumption DEF HookReturns
<1>3. /\ ExtendedMax(allowed) \in 0..Limit
      /\ top + ExtendedMax(allowed) <= pageEnd
  BY <1>1, InputAssumption DEF ExtendedMax, Smaller, NumbersOK, FrameEndsRight
<1>4. PICK n \in Nat : n = IF function.internal THEN numArgs ELSE function.params
  BY <1>1, ShapeFacts DEF NumbersOK
<1>5. /\ locator' = [reserved |-> n, provided |-> numArgs, start |-> Larger(numArgs, n),
                     used |-> 0, max |-> ExtendedMax(allowed),
                     slots |-> [k \in 0..Limit - 1 |-> GARBAGE]]
      /\ initialized' = numArgs /\ stage' = "store"
  BY <1>4 DEF HookReturns, Locator
<1>6. UNCHANGED <<function, numArgs, top, pageEnd>>
  BY DEF HookReturns, callVars
<1>7. Larger(numArgs, n) \in Nat /\ numArgs <= Larger(numArgs, n)
  BY <1>1, <1>4 DEF Larger, NumbersOK
<1>8. locator' \in LocatorType
  BY <1>1, <1>3, <1>5, <1>7, InputAssumption DEF LocatorType, Memory, NumbersOK
<1>9. Larger(initialized' - locator'.start, 0) = 0
  BY <1>1, <1>5, <1>7 DEF Larger, NumbersOK
<1> QED
  BY <1>1, <1>2, <1>3, <1>4, <1>5, <1>6, <1>7, <1>8, <1>9
     DEF FrameInv, NumbersOK, FrameEndsRight, Larger

LEMMA SkipKeepsFrame ==
    ASSUME FrameInv, SkipEntry
    PROVE  FrameInv'
<1>1. todo' \in Seq(Entry)
  BY DEF FrameInv, NumbersOK, SkipEntry
<1> QED
  BY <1>1 DEF FrameInv, NumbersOK, FrameEndsRight, SkipEntry, callVars

LEMMA StoreKeepsFrame ==
    ASSUME FrameInv, StoreEntry
    PROVE  FrameInv'
<1>1. NumbersOK /\ FrameEndsRight /\ stage = "store"
  BY DEF FrameInv, StoreEntry
<1>2. /\ todo # <<>> /\ todo' = Tail(todo)
      /\ InFrame(Index) \/ Extended(Index)
      /\ UNCHANGED <<function, numArgs, top, pageEnd>>
      /\ initialized' = Larger(initialized, Index + 1)
      /\ stage' \in {"store", "crashed"}
  BY <1>1 DEF StoreEntry
<1>3. todo' \in Seq(Entry) /\ Head(todo) \in Entry
  BY <1>1, <1>2 DEF NumbersOK
<1>4. /\ Index \in Int /\ Head(todo).value \in Value
      /\ locator.start \in Nat /\ locator.max \in 0..Limit /\ locator.used \in 0..Limit
      /\ locator.slots \in [0..Limit - 1 -> Memory]
  BY <1>1, <1>3 DEF Index, Entry, NumbersOK, LocatorType
<1>5. PICK S \in [0..Limit - 1 -> Memory] :
        locator' = [locator EXCEPT !.slots = S,
                                   !.used = Larger(@, Index + 1 - locator.start)]
  <2> DEFINE v == Head(todo).value
             written(i, old) ==
               IF i = Index THEN v ELSE IF i \in Skipped(Index) THEN UNDEF ELSE old
             S == [k \in 0..Limit - 1 |-> written(k + locator.start, locator.slots[k])]
  <2>1. S \in [0..Limit - 1 -> Memory]
    BY <1>4 DEF Memory
  <2>2. DOMAIN locator.slots = 0..Limit - 1
    BY <1>4
  <2>3. locator' = [locator EXCEPT
            !.slots = [k \in DOMAIN @ |-> written(k + locator.start, @[k])],
            !.used  = Larger(@, Index + 1 - locator.start)]
    BY DEF StoreEntry
  <2>4. locator' = [locator EXCEPT !.slots = S,
                                   !.used = Larger(@, Index + 1 - locator.start)]
    BY <2>2, <2>3
  <2> QED
    BY <2>1, <2>4
<1>6. /\ locator'.start = locator.start /\ locator'.max = locator.max
      /\ locator'.reserved = locator.reserved
      /\ locator'.used = Larger(locator.used, Index + 1 - locator.start)
  BY <1>1, <1>5 DEF NumbersOK, LocatorType
<1>7. /\ Index + 1 - locator.start <= locator.max /\ Index >= 0
      /\ locator.used <= locator.max
      /\ locator.used = Larger(initialized - locator.start, 0)
      /\ numArgs <= initialized
  BY <1>1, <1>2, <1>4 DEF InFrame, Extended, FrameEndsRight
<1>8. /\ locator'.used \in 0..Limit /\ locator'.used <= locator.max
      /\ locator'.used = Larger(initialized' - locator.start, 0)
      /\ initialized' \in Nat /\ numArgs <= initialized'
  <2>1. \A m, n \in Int : Larger(m, n) = IF m > n THEN m ELSE n
    BY DEF Larger
  <2>2. /\ numArgs \in Nat /\ initialized \in Nat /\ Limit \in Nat
        /\ locator.start \in Nat /\ Index \in Nat
    BY <1>1, <1>4, <1>7, InputAssumption DEF NumbersOK
  <2>3. /\ initialized' \in Nat /\ numArgs <= initialized'
        /\ initialized' = IF initialized > Index + 1 THEN initialized ELSE Index + 1
    BY <1>2, <1>7, <2>1, <2>2
  <2>4. locator'.used = IF locator.used > Index + 1 - locator.start
                        THEN locator.used ELSE Index + 1 - locator.start
    BY <1>4, <1>6, <2>1, <2>2
  <2>5. locator.used = IF initialized - locator.start > 0 THEN initialized - locator.start ELSE 0
    BY <1>7, <2>1, <2>2
  <2>6. Larger(initialized' - locator.start, 0) =
          IF initialized' - locator.start > 0 THEN initialized' - locator.start ELSE 0
    BY <2>1, <2>2, <2>3
  <2>7. CASE initialized > Index + 1
    <3>1. initialized' = initialized
      BY <2>2, <2>3, <2>7
    <3>2. locator'.used = locator.used
      BY <1>4, <2>2, <2>4, <2>5, <2>7
    <3> QED
      BY <1>4, <1>7, <2>2, <2>3, <3>1, <3>2
  <2>8. CASE initialized <= Index + 1
    <3>1. initialized' = Index + 1
      BY <2>2, <2>3, <2>8
    <3>2. locator'.used = IF Index + 1 - locator.start > 0
                          THEN Index + 1 - locator.start ELSE 0
      BY <1>4, <2>2, <2>4, <2>5, <2>8
    <3>3. locator'.used = Larger(initialized' - locator.start, 0)
      BY <2>2, <2>6, <3>1, <3>2
    <3>4. locator'.used \in 0..Limit /\ locator'.used <= locator.max
      BY <1>4, <1>7, <2>2, <3>2
    <3> QED
      BY <2>3, <3>3, <3>4
  <2> QED
    BY <2>2, <2>7, <2>8
<1>9. locator' \in LocatorType
  BY <1>1, <1>5, <1>6, <1>8 DEF NumbersOK, LocatorType
<1> QED
  BY <1>1, <1>2, <1>3, <1>6, <1>8, <1>9 DEF FrameInv, NumbersOK, FrameEndsRight

LEMMA EndKeepsFrame ==
    ASSUME FrameInv, EndHook
    PROVE  FrameInv'
<1>1. /\ NumbersOK /\ FrameEndsRight /\ stage = "store" /\ stage' = "hook"
      /\ top' = top + locator.used /\ numArgs' = Larger(numArgs, initialized)
      /\ UNCHANGED <<function, pageEnd, todo, locator, initialized>>
  BY DEF FrameInv, EndHook, loopVars
<1>2. /\ locator.used \in Nat /\ locator.start \in Nat /\ locator.max \in Nat
      /\ numArgs \in Nat /\ initialized \in Nat /\ top \in Nat /\ pageEnd \in Nat
  BY <1>1, InputAssumption DEF NumbersOK, LocatorType
<1>3. numArgs' = initialized
  BY <1>1, <1>2 DEF Larger, FrameEndsRight
<1>4. top' = FrameEnd(function, initialized)
  <2>1. /\ function.internal \in BOOLEAN
        /\ function.params \in Nat /\ function.vars \in Nat /\ function.temps \in Nat
    BY <1>1, ShapeFacts DEF NumbersOK
  <2>2. /\ locator.start = IF function.internal THEN numArgs
                           ELSE IF numArgs > function.params THEN numArgs ELSE function.params
        /\ locator.used = IF initialized - locator.start > 0
                          THEN initialized - locator.start ELSE 0
        /\ numArgs <= initialized
        /\ top = FrameEnd(function, numArgs)
    BY <1>1, <1>2, <2>1 DEF Larger, FrameEndsRight
  <2>3. CASE function.internal
    BY <1>1, <1>2, <2>1, <2>2, <2>3 DEF FrameEnd
  <2>4. CASE ~function.internal
    BY <1>1, <1>2, <2>1, <2>2, <2>4 DEF FrameEnd, Larger
  <2> QED
    BY <2>1, <2>3, <2>4
<1>5. top' \in Nat /\ top' <= pageEnd
  BY <1>1, <1>2 DEF FrameEndsRight
<1> QED
  BY <1>1, <1>2, <1>3, <1>4, <1>5 DEF FrameInv, NumbersOK, FrameEndsRight

LEMMA BodyKeepsFrame ==
    ASSUME FrameInv, EnterBody
    PROVE  FrameInv'
  BY DEF FrameInv, NumbersOK, FrameEndsRight, EnterBody, callVars, loopVars

\* Between hooks and in the body of the function, the frame ends where the
\* engine would have ended it for the arguments there are, and the page has
\* room for it (arg_locator_initialize, arg_locator_store_extended).
THEOREM FrameInvHolds == Spec => []FrameInv
<1>1. Init => FrameInv
  BY InitFrame
<1>2. FrameInv /\ [Next]_vars => FrameInv'
  <2> SUFFICES ASSUME FrameInv, [Next]_vars PROVE FrameInv'
    OBVIOUS
  <2>1. ASSUME NEW array \in Returned, NEW allowed \in BOOLEAN, HookReturns(array, allowed)
        PROVE  FrameInv'
    BY <2>1, ReturnsKeepsFrame
  <2>2. CASE SkipEntry
    BY <2>2, SkipKeepsFrame
  <2>3. CASE StoreEntry
    BY <2>3, StoreKeepsFrame
  <2>4. CASE EndHook
    BY <2>4, EndKeepsFrame
  <2>5. CASE EnterBody
    BY <2>5, BodyKeepsFrame
  <2>6. CASE UNCHANGED vars
    BY <2>6 DEF FrameInv, NumbersOK, FrameEndsRight, vars, callVars, loopVars
  <2> QED
    BY <2>1, <2>2, <2>3, <2>4, <2>5, <2>6 DEF Next
<1> QED
  BY <1>1, <1>2, PTL DEF Spec

\* Every argument of a call has a slot inside the frame of that call.
LEMMA ArgumentsInFrame ==
    ASSUME NEW s \in Shape, NEW n \in Nat, NEW i \in 0..n - 1
    PROVE  ArgSlot(s, i) \in 0..FrameEnd(s, n) - 1
<1>1. /\ s.internal \in BOOLEAN /\ s.params \in Nat /\ s.vars \in Nat /\ s.temps \in Nat
      /\ s.params <= s.vars
  BY ShapeFacts
<1>2. CASE s.internal
  BY <1>1, <1>2 DEF ArgSlot, FrameEnd
<1>3. CASE ~s.internal /\ i < s.params
  BY <1>1, <1>3 DEF ArgSlot, FrameEnd, Larger
<1>4. CASE ~s.internal /\ ~(i < s.params)
  BY <1>1, <1>4 DEF ArgSlot, FrameEnd, Larger
<1> QED
  BY <1>1, <1>2, <1>3, <1>4

\* The arguments lie inside the frame and the frame on its stack page, however
\* many hooks extended it, for functions with local variables too.
THEOREM FrameHoldsArgumentsHolds == Spec => []FrameHoldsArguments
<1>1. FrameInv => FrameHoldsArguments
  <2> SUFFICES ASSUME FrameInv, stage \in {"hook", "body"}
               PROVE  /\ top <= pageEnd
                      /\ \A i \in 0..numArgs - 1 : ArgSlot(function, i) < top
    BY DEF FrameHoldsArguments
  <2>1. /\ function \in Shape /\ numArgs \in Nat /\ top \in Nat
        /\ top = FrameEnd(function, numArgs) /\ top <= pageEnd
    BY DEF FrameInv, NumbersOK, FrameEndsRight
  <2>2. ASSUME NEW i \in 0..numArgs - 1 PROVE ArgSlot(function, i) < top
    BY <2>1, ArgumentsInFrame
  <2> QED
    BY <2>1, <2>2
<1> QED
  BY <1>1, FrameInvHolds, PTL

-----------------------------------------------------------------------------
(* The temporaries.                                                        *)

TempInv == TemporariesStay /\ pageEnd <= FrameSize

LEMMA TemporariesInFrame ==
    ASSUME NEW s \in Shape, NEW n \in Nat, NEW a \in Temporaries(s, n)
    PROVE  /\ a \in 0..FrameEnd(s, n) - 1
           /\ ~s.internal => s.vars <= a /\ a < s.vars + s.temps
           /\ s.internal => n <= a /\ a < n + s.temps
<1>1. /\ s.internal \in BOOLEAN /\ s.params \in Nat /\ s.vars \in Nat /\ s.temps \in Nat
  BY ShapeFacts
<1>2. CASE s.internal
  BY <1>1, <1>2 DEF Temporaries, FrameEnd
<1>3. CASE ~s.internal
  BY <1>1, <1>3 DEF Temporaries, FrameEnd, Larger
<1> QED
  BY <1>1, <1>2, <1>3

LEMMA ArgumentsAreNoTemporaries ==
    ASSUME NEW s \in Shape, NEW n \in Nat, NEW i \in 0..n - 1, NEW a \in Temporaries(s, n)
    PROVE  ArgSlot(s, i) # a
<1>1. /\ s.internal \in BOOLEAN /\ s.params \in Nat /\ s.vars \in Nat /\ s.temps \in Nat
      /\ s.params <= s.vars
  BY ShapeFacts
<1>2. /\ a \in Nat
      /\ ~s.internal => s.vars <= a /\ a < s.vars + s.temps
      /\ s.internal => n <= a
  BY TemporariesInFrame, FrameEndIsNat
<1> QED
  BY <1>1, <1>2 DEF ArgSlot

\* As long as the program has not crashed the temporaries are in the memory
\* looked at.
LEMMA TemporariesInMemory ==
    ASSUME FrameInv, stage # "crashed", pageEnd <= FrameSize,
           NEW a \in Temporaries(function, numArgs)
    PROVE  a \in Slot
<1>1. a \in 0..FrameEnd(function, numArgs) - 1
  BY TemporariesInFrame DEF FrameInv, NumbersOK
<1>2. /\ FrameEnd(function, numArgs) <= FrameSize
      /\ FrameEnd(function, numArgs) \in Nat
  BY InputAssumption DEF FrameInv, NumbersOK, FrameEndsRight
<1> QED
  BY <1>1, <1>2, InputAssumption DEF Slot

LEMMA InitTemporaries ==
    ASSUME Init, FrameInv
    PROVE  TempInv
<1>1. PICK args \in Passed : frame = NewFrame(function, args) /\ numArgs = Len(args)
  BY DEF Init
<1>2. PICK r \in Rooms : pageEnd = top + r
  BY DEF Init
<1>3. pageEnd <= FrameSize
  BY <1>1, <1>2, MemoryAssumption DEF Init
<1>4. ASSUME NEW a \in Temporaries(function, numArgs)
      PROVE  frame[a] = TEMP
  <2>1. a \in Slot /\ function \in Shape /\ numArgs \in Nat
    BY <1>3, TemporariesInMemory DEF Init, FrameInv, NumbersOK
  <2>2. DOMAIN args = 1..numArgs
    BY <1>1, InputAssumption
  <2>3. {i \in DOMAIN args : ArgSlot(function, i - 1) = a} = {}
    <3>1. ASSUME NEW i \in DOMAIN args PROVE ArgSlot(function, i - 1) # a
      <4>1. i - 1 \in 0..numArgs - 1
        BY <2>1, <2>2
      <4> QED
        BY <2>1, <4>1, ArgumentsAreNoTemporaries
    <3> QED
      BY <3>1
  <2>4. /\ a \in 0..FrameEnd(function, numArgs) - 1
        /\ ~function.internal => function.vars <= a
    BY <2>1, TemporariesInFrame
  <2>5. ~(~function.internal /\ a < function.vars) /\ a < FrameEnd(function, Len(args))
    <3>1. function.internal \in BOOLEAN /\ function.vars \in Nat
      BY <2>1, ShapeFacts
    <3>2. FrameEnd(function, numArgs) \in Nat
      BY <2>1, FrameEndIsNat
    <3> QED
      BY <1>1, <2>4, <3>1, <3>2
  <2> QED
    BY <1>1, <2>1, <2>3, <2>5 DEF NewFrame
<1> QED
  BY <1>3, <1>4 DEF TempInv, TemporariesStay

LEMMA StoreKeepsTemporaries ==
    ASSUME FrameInv, TempInv, StoreEntry
    PROVE  TempInv'
<1>1. /\ stage = "store" /\ NumbersOK /\ FrameEndsRight
      /\ UNCHANGED <<function, numArgs, pageEnd>>
  BY DEF FrameInv, StoreEntry
<1>2. ASSUME NoLocals, NEW a \in Temporaries(function, numArgs)
      PROVE  frame'[a] = frame[a]
  <2>1. a \in Slot /\ a \in Int
    BY <1>1, TemporariesInMemory DEF TempInv, Slot
  <2>2. /\ function.internal \in BOOLEAN
        /\ function.params \in Nat /\ function.vars \in Nat /\ function.temps \in Nat
    BY <1>1, ShapeFacts DEF NumbersOK
  <2>3. /\ ~function.internal => function.vars <= a /\ a < function.vars + function.temps
        /\ function.internal => numArgs <= a
    BY <1>1, TemporariesInFrame DEF NumbersOK
  <2>4. /\ function.internal => locator.start = numArgs
        /\ ~function.internal => locator.reserved = function.vars
        /\ numArgs \in Nat /\ locator.start \in Nat
    BY <1>1, <1>2, <2>2 DEF FrameEndsRight, NoLocals, Larger, NumbersOK, LocatorType
  <2>5. ASSUME NEW i, InFrame(i) PROVE TargetSlot(i) # a
    <3>1. i \in Nat /\ i < locator.start
      BY <2>4, <2>5 DEF InFrame
    <3> QED
      BY <2>1, <2>2, <2>3, <2>4, <3>1 DEF TargetSlot
  <2>6. {i \in Skipped(Index) \cup {Index} : InFrame(i) /\ TargetSlot(i) = a} = {}
    BY <2>5
  <2> QED
    BY <2>1, <2>6 DEF StoreEntry
<1>3. NoLocals' => NoLocals
  BY <1>1 DEF NoLocals
<1> QED
  BY <1>1, <1>2, <1>3 DEF TempInv, TemporariesStay

LEMMA EndKeepsTemporaries ==
    ASSUME FrameInv, FrameInv', TempInv, EndHook
    PROVE  TempInv'
<1>1. /\ stage = "store" /\ stage' = "hook" /\ NumbersOK /\ FrameEndsRight
      /\ frame' = StoredExtended /\ numArgs' = Larger(numArgs, initialized)
      /\ UNCHANGED <<function, pageEnd>>
  BY DEF FrameInv, EndHook
<1>2. /\ function \in Shape /\ function.internal \in BOOLEAN
      /\ function.params \in Nat /\ function.vars \in Nat /\ function.temps \in Nat
      /\ numArgs \in Nat /\ initialized \in Nat /\ numArgs' \in Nat
      /\ locator.start \in Nat /\ locator.used \in Nat
  BY <1>1, ShapeFacts, InputAssumption DEF NumbersOK, LocatorType, Larger
<1>3. ASSUME NoLocals, NEW a \in Temporaries(function, numArgs')
      PROVE  frame'[a] = TEMP
  <2>1. a \in Slot /\ a \in Int
    <3>1. a \in Temporaries(function', numArgs')
      BY <1>1, <1>3
    <3>2. a \in 0..FrameEnd(function, numArgs') - 1
      BY <1>2, <1>3, TemporariesInFrame
    <3>3. FrameEnd(function, numArgs') <= FrameSize /\ FrameEnd(function, numArgs') \in Nat
      BY <1>1, <1>2, FrameEndIsNat, InputAssumption
         DEF FrameInv, NumbersOK, FrameEndsRight, TempInv
    <3> QED
      BY <3>2, <3>3, InputAssumption DEF Slot
  <2>2. /\ ~function.internal => function.vars <= a /\ a < function.vars + function.temps
        /\ function.internal => numArgs' <= a /\ a < numArgs' + function.temps
    BY <1>2, <1>3, TemporariesInFrame
  <2>3. CASE ~function.internal
    <3>1. function.vars <= locator.start
      BY <1>1, <1>2, <1>3, <2>3 DEF NoLocals, FrameEndsRight, Larger
    <3>2. a \notin locator.start + function.temps
                    ..locator.start + function.temps + locator.used - 1
      BY <1>2, <2>1, <2>2, <2>3, <3>1
    <3>3. frame'[a] = frame[a]
      <4> DEFINE target == locator.start
                             + IF function.internal THEN 0 ELSE function.temps
                 moved  == target + locator.used
      <4>1. target = locator.start + function.temps /\ moved = target + locator.used
        BY <1>2, <2>3
      <4>2. a \notin target..moved - 1
        BY <1>2, <2>1, <2>3, <3>2, <4>1
      <4>3. StoredExtended[a] = frame[a]
        BY <1>2, <2>1, <2>3, <4>2 DEF StoredExtended
      <4> QED
        BY <1>1, <4>3
    <3>4. a \in Temporaries(function, numArgs)
      BY <1>3, <2>3 DEF Temporaries
    <3> QED
      BY <1>3, <3>3, <3>4 DEF TempInv, TemporariesStay
  <2>4. CASE function.internal
    <3>1. locator.start = numArgs /\ numArgs' = numArgs + locator.used
      BY <1>1, <1>2, <2>4 DEF FrameEndsRight, Larger
    <3>2. /\ a \notin locator.start..locator.start + locator.used - 1
          /\ a \in locator.start + locator.used
                    ..locator.start + locator.used + function.temps - 1
      BY <1>2, <2>1, <2>2, <2>4, <3>1
    <3>3. frame'[a] = frame[a - locator.used]
      BY <1>1, <1>2, <2>1, <2>4, <3>2 DEF StoredExtended
    <3>4. a - locator.used \in Temporaries(function, numArgs)
      BY <1>2, <2>1, <2>4, <3>1, <3>2 DEF Temporaries
    <3> QED
      BY <1>3, <3>3, <3>4 DEF TempInv, TemporariesStay
  <2> QED
    BY <1>2, <2>3, <2>4
<1>4. NoLocals' => NoLocals
  BY <1>1 DEF NoLocals
<1> QED
  BY <1>1, <1>3, <1>4 DEF TempInv, TemporariesStay

LEMMA BodyKeepsTemporaries ==
    ASSUME FrameInv, TempInv, EnterBody
    PROVE  TempInv'
<1>1. /\ UNCHANGED <<function, numArgs, pageEnd>> /\ stage = "hook"
      /\ frame' = IF mayHaveUndef THEN HandledUndef ELSE frame
  BY DEF EnterBody, callVars
<1>2. ASSUME NoLocals, NEW a \in Temporaries(function, numArgs)
      PROVE  frame'[a] = TEMP
  <2>1. a \in Slot /\ frame[a] = TEMP /\ frame[a] # UNDEF
    BY <1>1, <1>2, TemporariesInMemory, MarkAssumption DEF TempInv, TemporariesStay
  <2> QED
    BY <1>1, <2>1 DEF HandledUndef
<1>3. NoLocals' => NoLocals
  BY <1>1 DEF NoLocals
<1> QED
  BY <1>1, <1>2, <1>3 DEF TempInv, TemporariesStay

\* The temporaries of a function without local variables lie where it expects
\* them and are not written, whatever hooks return (arg_locator_get_slot,
\* arg_locator_store_extended).
THEOREM TemporariesStayHolds == Spec => []TemporariesStay
<1>1. Init => TempInv
  BY InitFrame, InitTemporaries
<1>2. FrameInv /\ FrameInv' /\ TempInv /\ [Next]_vars => TempInv'
  <2> SUFFICES ASSUME FrameInv, FrameInv', TempInv, [Next]_vars PROVE TempInv'
    OBVIOUS
  <2>1. CASE UNCHANGED <<function, frame, numArgs, pageEnd>>
    BY <2>1 DEF TempInv, TemporariesStay, NoLocals
  <2>2. ASSUME NEW array \in Returned, NEW allowed \in BOOLEAN, HookReturns(array, allowed)
        PROVE  TempInv'
    BY <2>1, <2>2 DEF HookReturns, callVars
  <2>3. CASE SkipEntry
    BY <2>1, <2>3 DEF SkipEntry, callVars
  <2>4. CASE StoreEntry
    BY <2>4, StoreKeepsTemporaries
  <2>5. CASE EndHook
    BY <2>5, EndKeepsTemporaries
  <2>6. CASE EnterBody
    BY <2>6, BodyKeepsTemporaries
  <2>7. CASE UNCHANGED vars
    BY <2>1, <2>7 DEF vars, callVars
  <2> QED
    BY <2>2, <2>3, <2>4, <2>5, <2>6, <2>7 DEF Next
<1>3. TempInv => TemporariesStay
  BY DEF TempInv
<1> QED
  BY <1>1, <1>2, <1>3, FrameInvHolds, PTL DEF Spec

=============================================================================
