------------------------- MODULE ArgumentList_proofs -------------------------
(***************************************************************************)
(* ArgLocator implements ArgumentList: in calls of functions without local *)
(* variables the slots that the argument locator writes and the flags it   *)
(* raises make of the arguments what the arrays of the hooks say, proved   *)
(* for all functions, calls, arrays, limits and room on the page.  On the  *)
(* way: no hook is shown an open argument, a temporary or memory nobody    *)
(* has written, and counted extra arguments are always released.           *)
(***************************************************************************)
EXTENDS ArgLocator_proofs

-----------------------------------------------------------------------------
(* The memory.                                                             *)

MemoryOK ==
    /\ frame \in [Slot -> Memory]
    /\ mayHaveUndef \in BOOLEAN /\ freeExtraArgs \in BOOLEAN
    /\ hooks \in 0..Hooks /\ (stage = "store" => hooks > 0)
    /\ pageEnd <= FrameSize
    /\ stage = "hook" => todo = <<>>

LEMMA InitMemory == Init => MemoryOK
<1> SUFFICES ASSUME Init PROVE MemoryOK
  OBVIOUS
<1>1. PICK args \in Passed : /\ frame = NewFrame(function, args) /\ numArgs = Len(args)
                             /\ freeExtraArgs = \E i \in DOMAIN args :
                                    i > function.params /\ args[i] \in Counted
  BY DEF Init
<1>2. args \in Seq(Value)
  BY InputAssumption
<1>3. frame \in [Slot -> Memory]
  <2>1. ASSUME NEW a \in Slot
        PROVE  LET mine == {i \in DOMAIN args : ArgSlot(function, i - 1) = a}
               IN (IF mine # {} THEN args[CHOOSE i \in mine : TRUE]
                   ELSE IF ~function.internal /\ a < function.vars THEN UNDEF
                   ELSE IF a < FrameEnd(function, Len(args)) THEN TEMP
                   ELSE GARBAGE) \in Memory
    <3> DEFINE mine == {i \in DOMAIN args : ArgSlot(function, i - 1) = a}
               m == CHOOSE i \in mine : TRUE
    <3>1. mine # {} => m \in mine
      OBVIOUS
    <3>2. mine # {} => args[m] \in Value
      BY <1>2, <3>1
    <3> HIDE DEF m
    <3> QED
      BY <3>2 DEF Memory, m
  <2> QED
    BY <1>1, <2>1 DEF NewFrame
<1>4. PICK r \in Rooms : pageEnd = top + r
  BY DEF Init
<1>5. pageEnd <= FrameSize
  BY <1>1, <1>4, MemoryAssumption DEF Init
<1>6. hooks \in 0..Hooks
  BY InputAssumption DEF Init
<1> QED
  BY <1>1, <1>3, <1>5, <1>6 DEF Init, MemoryOK

LEMMA MemoryKeeps == FrameInv /\ MemoryOK /\ [Next]_vars => MemoryOK'
<1> SUFFICES ASSUME FrameInv, MemoryOK, [Next]_vars PROVE MemoryOK'
  OBVIOUS
<1>1. ASSUME NEW array \in Returned, NEW allowed \in BOOLEAN, HookReturns(array, allowed)
      PROVE  MemoryOK'
  BY <1>1 DEF HookReturns, callVars, MemoryOK
<1>2. CASE SkipEntry
  BY <1>2 DEF SkipEntry, callVars, MemoryOK
<1>3. CASE StoreEntry
  <2> DEFINE v == Head(todo).value
             written(i, old) ==
                 IF i = Index THEN v ELSE IF i \in Skipped(Index) THEN UNDEF ELSE old
             at(a) == {i \in Skipped(Index) \cup {Index} : InFrame(i) /\ TargetSlot(i) = a}
  <2>1. frame' = [a \in Slot |->
                    IF at(a) = {} THEN frame[a]
                    ELSE written(CHOOSE i \in at(a) : TRUE, frame[a])]
    BY <1>3 DEF StoreEntry
  <2>2. v \in Value
    <3>1. todo \in Seq(Entry) /\ todo # <<>>
      BY <1>3 DEF StoreEntry, FrameInv, NumbersOK
    <3>2. Head(todo) \in Entry
      BY <3>1
    <3> QED
      BY <3>2 DEF Entry
  <2>3. \A i, old : old \in Memory => written(i, old) \in Memory
    BY <2>2 DEF Memory
  <2>4. \A a \in Slot : frame[a] \in Memory
    BY DEF MemoryOK
  <2> HIDE DEF written, at
  <2>5. frame' \in [Slot -> Memory]
    BY <2>1, <2>3, <2>4
  <2>6. /\ UNCHANGED <<hooks, pageEnd>> /\ stage' # "hook" /\ stage = "store"
    BY <1>3 DEF StoreEntry
  <2>7. mayHaveUndef' \in BOOLEAN
    <3>1. mayHaveUndef' = (mayHaveUndef \/ Skipped(Index) # {})
      BY <1>3 DEF StoreEntry
    <3> QED
      BY <3>1
  <2>8. freeExtraArgs' \in BOOLEAN
    <3>1. freeExtraArgs' = (freeExtraArgs \/ NeedsFree(Index, v))
      BY <1>3 DEF StoreEntry
    <3> QED
      BY <3>1
  <2> QED
    BY <2>5, <2>6, <2>7, <2>8 DEF MemoryOK
<1>4. CASE EndHook
  <2>1. /\ frame' = StoredExtended /\ todo' = <<>> /\ hooks' = hooks - 1 /\ hooks \in 1..Hooks
        /\ UNCHANGED <<mayHaveUndef, freeExtraArgs, pageEnd>> /\ stage' = "hook"
    BY <1>4, InputAssumption DEF EndHook, loopVars, MemoryOK
  <2>2. hooks' \in 0..Hooks
    BY <2>1, InputAssumption
  <2>3. frame' \in [Slot -> Memory]
    <3> DEFINE target == locator.start + IF function.internal THEN 0 ELSE function.temps
               moved  == target + locator.used
    <3>1. /\ locator.start \in Nat /\ locator.used \in Nat /\ function.temps \in Nat
          /\ locator.used \in 0..Limit /\ locator.slots \in [0..Limit - 1 -> Memory]
      BY ShapeFacts, InputAssumption DEF FrameInv, NumbersOK, LocatorType
    <3>2. target \in Nat /\ moved \in Nat /\ moved = target + locator.used
      BY <3>1
    <3>3. frame' = [a \in Slot |->
              IF a \in target..moved - 1 THEN locator.slots[a - target]
              ELSE IF function.internal /\ a \in moved..moved + function.temps - 1
              THEN frame[a - locator.used]
              ELSE frame[a]]
      BY <2>1 DEF StoredExtended
    <3> HIDE DEF target, moved
    <3>4. ASSUME NEW a \in Slot, a \in target..moved - 1 PROVE locator.slots[a - target] \in Memory
      <4>1. a - target \in 0..Limit - 1
        BY <3>1, <3>2, <3>4, InputAssumption
      <4> QED
        BY <3>1, <4>1
    <3>5. ASSUME NEW a \in Slot, a \in moved..moved + function.temps - 1
          PROVE  frame[a - locator.used] \in Memory
      <4>1. a - locator.used \in Slot
        BY <3>1, <3>2, <3>5, InputAssumption DEF Slot
      <4> QED
        BY <4>1 DEF MemoryOK
    <3>6. ASSUME NEW a \in Slot PROVE frame[a] \in Memory
      BY DEF MemoryOK
    <3> QED
      BY <3>3, <3>4, <3>5, <3>6
  <2> QED
    BY <2>1, <2>2, <2>3 DEF MemoryOK
<1>5. CASE EnterBody
  BY <1>5 DEF EnterBody, callVars, loopVars, MemoryOK, HandledUndef, Memory
<1>6. CASE UNCHANGED vars
  BY <1>6 DEF vars, callVars, loopVars, MemoryOK
<1> QED
  BY <1>1, <1>2, <1>3, <1>4, <1>5, <1>6 DEF Next

-----------------------------------------------------------------------------
(* The slots of arguments.                                                 *)

\* What a run of a function without local variables rests on.
CallInv == FrameInv /\ MemoryOK /\ NoLocals

LEMMA NumbersAre ==
    ASSUME CallInv
    PROVE  /\ function \in Shape /\ function.internal \in BOOLEAN
           /\ function.params \in Nat /\ function.temps \in Nat
           /\ ~function.internal => function.vars = function.params
           /\ numArgs \in Nat /\ initialized \in Nat /\ Limit \in Nat
           /\ locator.start \in Nat /\ locator.used \in Nat /\ locator.max \in 0..Limit
           /\ locator.slots \in [0..Limit - 1 -> Memory]
  BY ShapeFacts, InputAssumption
     DEF CallInv, FrameInv, NumbersOK, LocatorType, NoLocals

\* How the locator's numbers are related while an array is stored.
LEMMA LocatorIs ==
    ASSUME CallInv, stage = "store"
    PROVE  /\ locator.reserved = IF function.internal THEN numArgs ELSE function.params
           /\ function.internal => locator.start = numArgs
           /\ ~function.internal => function.params <= locator.start
           /\ ~function.internal /\ function.params < locator.start => locator.start = numArgs
           /\ numArgs <= locator.start /\ numArgs <= initialized
           /\ locator.used <= locator.max
           /\ initialized <= locator.start => locator.used = 0
           /\ initialized > locator.start => locator.used = initialized - locator.start
<1>1. /\ locator.reserved = IF function.internal THEN numArgs ELSE function.params
      /\ locator.start = Larger(numArgs, locator.reserved)
      /\ locator.used = Larger(initialized - locator.start, 0)
      /\ locator.used <= locator.max /\ numArgs <= initialized
  BY DEF CallInv, FrameInv, FrameEndsRight
<1> QED
  BY <1>1, NumbersAre DEF Larger

\* Arguments lie in the memory that is looked at.
LEMMA ArgumentsInMemory ==
    ASSUME CallInv, stage # "crashed", NEW i \in 0..numArgs - 1
    PROVE  ArgSlot(function, i) \in Slot
<1>1. ArgSlot(function, i) \in 0..FrameEnd(function, numArgs) - 1
  BY NumbersAre, ArgumentsInFrame
<1>2. FrameEnd(function, numArgs) \in Nat /\ FrameEnd(function, numArgs) <= FrameSize
  BY NumbersAre, FrameEndIsNat, InputAssumption
     DEF CallInv, FrameInv, NumbersOK, FrameEndsRight, MemoryOK
<1> QED
  BY <1>1, <1>2, InputAssumption DEF Slot

\* arg_locator_get_slot finds the slot where the engine keeps the argument, or
\* will keep it: without local variables the two agree.
LEMMA TargetIsArgSlot ==
    ASSUME CallInv, stage = "store", NEW i, InFrame(i)
    PROVE  /\ i \in Nat /\ i < locator.start
           /\ TargetSlot(i) = ArgSlot(function, i)
           /\ TargetSlot(i) \in Slot
<1>1. i \in Nat /\ i < locator.start
  BY NumbersAre DEF InFrame
<1>2. TargetSlot(i) = ArgSlot(function, i)
  <2>1. CASE function.internal
    BY <2>1 DEF TargetSlot, ArgSlot
  <2>2. CASE ~function.internal
    BY <1>1, <2>2, NumbersAre, LocatorIs DEF TargetSlot, ArgSlot
  <2> QED
    BY <2>1, <2>2
<1>3. CASE i < numArgs
  <2>1. i \in 0..numArgs - 1
    BY <1>1, <1>3, NumbersAre
  <2> QED
    BY <1>1, <1>2, <2>1, ArgumentsInMemory
<1>4. CASE ~(i < numArgs)
  <2>1. ~function.internal /\ i < function.params
    BY <1>1, <1>4, NumbersAre, LocatorIs
  <2>2. ArgSlot(function, i) = i
    BY <2>1 DEF ArgSlot
  <2>3. function.params <= FrameEnd(function, numArgs)
    BY <2>1, NumbersAre DEF FrameEnd, Larger
  <2>4. FrameEnd(function, numArgs) \in Nat /\ FrameEnd(function, numArgs) <= FrameSize
    BY NumbersAre, FrameEndIsNat, InputAssumption
       DEF CallInv, FrameInv, NumbersOK, FrameEndsRight, MemoryOK
  <2>5. i \in Slot
    BY <1>1, <2>1, <2>3, <2>4, NumbersAre, InputAssumption DEF Slot
  <2> QED
    BY <1>1, <1>2, <2>2, <2>5
<1> QED
  BY <1>3, <1>4

LEMMA SlotsDiffer ==
    ASSUME CallInv, NEW i \in Nat, NEW j \in Nat, ArgSlot(function, i) = ArgSlot(function, j)
    PROVE  i = j
  BY NumbersAre DEF ArgSlot

-----------------------------------------------------------------------------
(* What the steps make of the arguments.                                   *)

LEMMA ReturnsArguments ==
    ASSUME CallInv, NEW array \in Returned, NEW allowed \in BOOLEAN,
           HookReturns(array, allowed), NEW i \in 0..numArgs - 1
    PROVE  Argument(i)' = Argument(i)
<1>1. stage = "hook" /\ stage' = "store" /\ frame' = frame /\ function' = function
  BY DEF HookReturns
<1>2. locator'.start = Larger(numArgs, locator'.reserved)
      /\ locator'.reserved = IF function.internal THEN numArgs ELSE function.params
  BY DEF HookReturns, Locator
<1>3. i \in 0..locator'.start - 1
  BY <1>2, NumbersAre DEF Larger
<1>4. InFrame(i)'
  BY <1>3 DEF InFrame
<1> QED
  BY <1>1, <1>4 DEF Argument

\* An element is written to one slot, and those between are marked.
LEMMA StoreArguments ==
    ASSUME CallInv, StoreEntry,
           NEW i \in Nat, i < initialized \/ i <= Index
    PROVE  Argument(i)' = IF i = Index THEN Head(todo).value
                          ELSE IF i < initialized THEN Argument(i) ELSE UNDEF
<1> DEFINE v == Head(todo).value
           written(n, old) ==
               IF n = Index THEN v ELSE IF n \in Skipped(Index) THEN UNDEF ELSE old
           at(a) == {n \in Skipped(Index) \cup {Index} : InFrame(n) /\ TargetSlot(n) = a}
<1>1. /\ stage = "store" /\ stage' \in {"store", "crashed"} /\ function' = function
      /\ InFrame(Index) \/ Extended(Index)
      /\ frame' = [a \in Slot |->
                    IF at(a) = {} THEN frame[a]
                    ELSE written(CHOOSE n \in at(a) : TRUE, frame[a])]
      /\ locator' = [locator EXCEPT
                !.slots = [k \in DOMAIN @ |-> written(k + locator.start, @[k])],
                !.used  = Larger(@, Index + 1 - locator.start)]
  BY DEF StoreEntry
<1>2. Index \in Nat /\ Index < locator.start + locator.max
  BY <1>1, NumbersAre DEF InFrame, Extended
<1>3. i # Index => (i \in Skipped(Index) <=> ~(i < initialized))
  BY <1>2, NumbersAre DEF Skipped
<1>4. locator'.start = locator.start
  BY <1>1 DEF CallInv, FrameInv, NumbersOK, LocatorType
<1>5. InFrame(i)' <=> InFrame(i)
  BY <1>4 DEF InFrame
<1>6. CASE InFrame(i)
  <2>1. TargetSlot(i) = ArgSlot(function, i) /\ TargetSlot(i) \in Slot
    BY <1>1, <1>6, TargetIsArgSlot
  <2>2. ASSUME NEW n \in at(TargetSlot(i)) PROVE n = i
    <3>1. InFrame(n) /\ TargetSlot(n) = TargetSlot(i)
      OBVIOUS
    <3>2. n \in Nat /\ ArgSlot(function, n) = ArgSlot(function, i)
      BY <1>1, <2>1, <3>1, TargetIsArgSlot
    <3> QED
      BY <3>2, SlotsDiffer
  <2>3. frame'[TargetSlot(i)] = written(i, frame[TargetSlot(i)])
    <3>1. CASE i \in Skipped(Index) \cup {Index}
      <4>1. i \in at(TargetSlot(i))
        BY <1>6, <3>1
      <4>2. (CHOOSE n \in at(TargetSlot(i)) : TRUE) = i
        BY <2>2, <4>1
      <4> HIDE DEF at, written
      <4> QED
        BY <1>1, <2>1, <4>1, <4>2
    <3>2. CASE i \notin Skipped(Index) \cup {Index}
      <4>1. at(TargetSlot(i)) = {}
        BY <2>2, <3>2
      <4>2. written(i, frame[TargetSlot(i)]) = frame[TargetSlot(i)]
        BY <3>2
      <4> HIDE DEF at, written
      <4> QED
        BY <1>1, <2>1, <4>1, <4>2
    <3> QED
      BY <3>1, <3>2
  <2>4. Argument(i) = frame[TargetSlot(i)] /\ Argument(i)' = frame'[TargetSlot(i)]
    BY <1>1, <1>5, <1>6, <2>1 DEF Argument
  <2> QED
    BY <1>3, <2>3, <2>4
<1>7. CASE ~InFrame(i)
  <2>1. Argument(i) = locator.slots[i - locator.start]
        /\ Argument(i)' = locator'.slots[i - locator.start]
    BY <1>1, <1>4, <1>5, <1>7 DEF Argument
  <2>2. i - locator.start \in 0..Limit - 1
    <3>1. i >= locator.start
      BY <1>7, NumbersAre DEF InFrame
    <3>2. i < locator.start + locator.max
      BY <1>1, <1>2, NumbersAre, LocatorIs
    <3> QED
      BY <3>1, <3>2, NumbersAre
  <2>3. locator'.slots = [k \in 0..Limit - 1 |-> written(k + locator.start, locator.slots[k])]
    <3>1. DOMAIN locator.slots = 0..Limit - 1
      BY NumbersAre
    <3> HIDE DEF written
    <3> QED
      BY <1>1, <3>1 DEF CallInv, FrameInv, NumbersOK, LocatorType
  <2>4. (i - locator.start) + locator.start = i
    BY NumbersAre
  <2>5. locator'.slots[i - locator.start] = written(i, locator.slots[i - locator.start])
    <3> HIDE DEF written
    <3> QED
      BY <2>2, <2>3, <2>4
  <2> QED
    BY <1>3, <2>1, <2>5
<1> QED
  BY <1>6, <1>7

\* The extended slots are stored where the engine will look for their arguments.
LEMMA EndArguments ==
    ASSUME CallInv, FrameInv', EndHook
    PROVE  /\ numArgs' = initialized
           /\ \A i \in 0..initialized - 1 : frame'[ArgSlot(function, i)] = Argument(i)
<1>1. /\ stage = "store" /\ stage' = "hook" /\ frame' = StoredExtended
      /\ numArgs' = Larger(numArgs, initialized)
      /\ UNCHANGED <<function, pageEnd>>
  BY DEF EndHook
<1>2. numArgs' = initialized
  BY <1>1, NumbersAre, LocatorIs DEF Larger
<1>3. /\ function.internal \in BOOLEAN
      /\ function.params \in Nat /\ function.temps \in Nat
      /\ locator.start \in Nat /\ locator.used \in Nat
      /\ ~function.internal => function.params <= locator.start
      /\ \A i \in 0..initialized - 1 : i \in Nat
  BY <1>1, NumbersAre, LocatorIs
<1>4. initialized \in Nat
  BY NumbersAre
<1>5. ASSUME NEW i \in 0..initialized - 1
      PROVE  frame'[ArgSlot(function, i)] = Argument(i)
  <2> DEFINE a == ArgSlot(function, i)
             target == locator.start + IF function.internal THEN 0 ELSE function.temps
             moved  == target + locator.used
  <2>1. a \in Slot
    <3>1. a \in 0..FrameEnd(function, numArgs') - 1
      BY <1>2, NumbersAre, ArgumentsInFrame
    <3>2. FrameEnd(function, numArgs') \in Nat /\ FrameEnd(function, numArgs') <= FrameSize
      BY <1>1, <1>2, NumbersAre, FrameEndIsNat, InputAssumption
         DEF CallInv, FrameInv, NumbersOK, FrameEndsRight, MemoryOK
    <3> QED
      BY <3>1, <3>2, InputAssumption DEF Slot
  <2>2. frame'[a] = IF a \in target..moved - 1 THEN locator.slots[a - target]
                    ELSE IF function.internal /\ a \in moved..moved + function.temps - 1
                    THEN frame[a - locator.used]
                    ELSE frame[a]
    BY <1>1, <2>1 DEF StoredExtended
  <2>3. a = IF function.internal \/ i < function.params THEN i ELSE function.temps + i
    BY NumbersAre DEF ArgSlot
  <2> HIDE DEF a
  <2>4. CASE InFrame(i)
    <3>1. i < locator.start
      BY <2>4, NumbersAre DEF InFrame
    <3>2. a < target /\ target <= moved /\ a \in Nat
      <4>1. CASE function.internal
        BY <1>3, <2>3, <3>1, <4>1
      <4>2. CASE ~function.internal
        <5>1. i < function.params => a = i
          BY <1>3, <2>3
        <5>2. ~(i < function.params) => a = function.temps + i
          BY <1>3, <2>3, <4>2
        <5>3. target = locator.start + function.temps
          BY <4>2
        <5> QED
          BY <1>3, <3>1, <5>1, <5>2, <5>3
      <4> QED
        BY <4>1, <4>2
    <3>3. frame'[a] = frame[a]
      BY <2>2, <3>2, NumbersAre
    <3> QED
      BY <1>1, <2>4, <3>3 DEF Argument, a
  <2>5. CASE ~InFrame(i)
    <3>1. i >= locator.start /\ i \in Nat /\ i < initialized
      BY <2>5, NumbersAre DEF InFrame
    <3>2. locator.used = initialized - locator.start
      BY <1>1, <3>1, NumbersAre, LocatorIs
    <3>3. a \in target..moved - 1 /\ a - target = i - locator.start
      <4>1. CASE function.internal
        <5>1. a = i
          BY <2>3, <4>1
        <5>2. target = locator.start /\ moved = locator.start + locator.used
          BY <1>3, <4>1
        <5> HIDE DEF target, moved
        <5> QED
          BY <1>3, <1>4, <3>1, <3>2, <5>1, <5>2
      <4>2. CASE ~function.internal
        <5>1. ~(i < function.params)
          BY <1>3, <3>1, <4>2
        <5>2. a = function.temps + i
          BY <2>3, <4>2, <5>1
        <5>3. /\ target = locator.start + function.temps
              /\ moved = locator.start + function.temps + locator.used
          BY <1>3, <4>2
        <5> HIDE DEF target, moved
        <5> QED
          BY <1>3, <1>4, <3>1, <3>2, <5>2, <5>3
      <4> QED
        BY <4>1, <4>2
    <3> QED
      BY <1>1, <2>2, <2>5, <3>3 DEF Argument, a
  <2> QED
    BY <2>4, <2>5
<1> QED
  BY <1>2, <1>5

\* Open arguments are filled as they lie in the frame, or read as null.
LEMMA BodyArguments ==
    ASSUME CallInv, EnterBody, NEW i \in 0..numArgs - 1,
           \A j \in 0..numArgs - 1 : Argument(j) = UNDEF => mayHaveUndef
    PROVE  LET value == frame'[ArgSlot(function, i)]
           IN (IF value = UNDEF THEN NULL ELSE value)
                = IF Argument(i) # UNDEF THEN Argument(i)
                  ELSE IF \A j \in 0..i : Argument(j) = UNDEF => j \in function.optional
                  THEN DEFAULT ELSE NULL
<1> DEFINE open(b)   == b < numArgs /\ frame[b] = UNDEF
           filled(b) == \A c \in 0..b : open(c) => c \in function.optional
<1>1. /\ stage = "hook" /\ stage # "crashed"
      /\ frame' = IF mayHaveUndef THEN HandledUndef ELSE frame
  BY DEF EnterBody
<1>2. \A j : Argument(j) = frame[ArgSlot(function, j)]
  BY <1>1 DEF Argument
<1>3. PICK a : a = ArgSlot(function, i)
  OBVIOUS
<1>4. a \in Slot /\ i \in Nat /\ i < numArgs /\ DEFAULT # UNDEF
  BY <1>1, <1>3, ArgumentsInMemory, NumbersAre, MarkAssumption
<1>5. mayHaveUndef =>
        frame'[a] = IF ~open(a) THEN frame[a] ELSE IF filled(a) THEN DEFAULT ELSE NULL
  BY <1>1, <1>4 DEF HandledUndef
<1>6. CASE Argument(i) # UNDEF
  <2>1. frame[a] # UNDEF
    BY <1>2, <1>3, <1>6
  <2>2. frame'[a] = frame[a]
    BY <1>1, <1>5, <2>1
  <2> QED
    BY <1>2, <1>3, <1>6, <2>2
<1>7. CASE Argument(i) = UNDEF
  <2>1. mayHaveUndef /\ frame[a] = UNDEF
    BY <1>2, <1>3, <1>7
  <2>2. CASE function.internal \/ i < function.params
    <3>1. a = i /\ \A j \in 0..i : ArgSlot(function, j) = j
      BY <1>3, <1>4, <2>2, NumbersAre DEF ArgSlot
    <3>2. \A j \in 0..i : open(j) <=> Argument(j) = UNDEF
      BY <1>2, <1>4, <3>1, NumbersAre
    <3>3. filled(a) <=> \A j \in 0..i : Argument(j) = UNDEF => j \in function.optional
      BY <3>1, <3>2
    <3>4. open(a)
      BY <1>4, <2>1, <3>1
    <3>5. frame'[a] = IF filled(a) THEN DEFAULT ELSE NULL
      BY <1>5, <2>1, <3>4
    <3> HIDE DEF filled
    <3> QED
      BY <1>3, <1>4, <1>7, <3>3, <3>5
  <2>3. CASE ~(function.internal \/ i < function.params)
    <3>1. a = function.temps + i /\ a >= function.params
      BY <1>3, <1>4, <2>3, NumbersAre DEF ArgSlot
    <3>2. function.optional \subseteq 0..function.params - 1
      BY NumbersAre, ShapeAssumption
    <3>3. i \notin function.optional /\ a \notin function.optional
      BY <1>4, <2>3, <3>1, <3>2, NumbersAre
    <3>4. i \in 0..i /\ a \in 0..a
      BY <1>4, <3>1, NumbersAre
    <3>5. frame'[a] \in {UNDEF, NULL}
      BY <1>5, <2>1, <3>3, <3>4
    <3>6. ~ \A j \in 0..i : Argument(j) = UNDEF => j \in function.optional
      BY <1>7, <3>3, <3>4
    <3> QED
      BY <1>3, <1>7, <3>5, <3>6
  <2> QED
    BY <2>2, <2>3
<1> QED
  BY <1>6, <1>7

-----------------------------------------------------------------------------
(* What arguments are.                                                     *)

\* How many there are to be found.
Count == IF stage = "hook" THEN numArgs ELSE initialized

\* Open ones are told by the flag, counted extra ones by the other; and hooks
\* are shown values.
ArgumentsInv ==
    /\ stage \in {"hook", "store"} =>
        \A i \in 0..Count - 1 : Argument(i) \in Value \/ (Argument(i) = UNDEF /\ mayHaveUndef)
    /\ stage \in {"hook", "store"} /\ ~function.internal =>
        \A i \in function.params..Count - 1 : Argument(i) \in Counted => freeExtraArgs
    /\ shown \in Seq(Value \cup {NULL})
    /\ ExtraArgumentsAreReleased

LEMMA ShownAre ==
    ASSUME NEW s, NEW memory, NEW n \in Nat,
           \A i \in 0..n - 1 : memory[ArgSlot(s, i)] \in Value \cup {UNDEF}
    PROVE  FuncGetArgs(s, memory, n) \in Seq(Value \cup {NULL})
<1> DEFINE read(i) == LET value == memory[ArgSlot(s, i - 1)] IN IF value = UNDEF THEN NULL ELSE value
<1>1. ASSUME NEW i \in 1..n PROVE read(i) \in Value \cup {NULL}
  <2>1. i - 1 \in 0..n - 1
    OBVIOUS
  <2> QED
    BY <2>1
<1>2. FuncGetArgs(s, memory, n) = [i \in 1..n |-> read(i)]
  BY DEF FuncGetArgs
<1> HIDE DEF read
<1>3. FuncGetArgs(s, memory, n) \in [1..n -> Value \cup {NULL}]
  BY <1>1, <1>2
<1> QED
  BY <1>3

\* The engine puts the arguments of the call where it looks for them.
LEMMA InitArguments ==
    ASSUME Init, CallInv
    PROVE  ArgumentsInv
<1>1. PICK args \in Passed :
        /\ frame = NewFrame(function, args) /\ numArgs = Len(args)
        /\ freeExtraArgs = \E i \in DOMAIN args : i > function.params /\ args[i] \in Counted
  BY DEF Init
<1>2. /\ args \in Seq(Value) /\ DOMAIN args = 1..numArgs /\ stage = "hook" /\ Count = numArgs
      /\ numArgs \in Nat /\ shown = FuncGetArgs(function, frame, numArgs) /\ ~mayHaveUndef
  BY <1>1, InputAssumption DEF Init, Count
<1>3. ASSUME NEW i \in 0..numArgs - 1
      PROVE  frame[ArgSlot(function, i)] = args[i + 1] /\ args[i + 1] \in Value
             /\ i + 1 \in DOMAIN args
  <2> DEFINE mine == {j \in DOMAIN args : ArgSlot(function, j - 1) = ArgSlot(function, i)}
  <2>1. i + 1 \in DOMAIN args /\ (i + 1) - 1 = i
    BY <1>2
  <2>2. i + 1 \in mine
    BY <2>1
  <2>3. ASSUME NEW j \in mine PROVE j = i + 1
    <3>1. j \in 1..numArgs /\ j - 1 \in Nat /\ i \in Nat
      BY <1>2
    <3>2. j - 1 = i
      BY <3>1, SlotsDiffer
    <3> QED
      BY <3>1, <3>2
  <2>4. (CHOOSE j \in mine : TRUE) = i + 1
    BY <2>2, <2>3
  <2>5. ArgSlot(function, i) \in Slot
    BY <1>2, ArgumentsInMemory
  <2>6. frame[ArgSlot(function, i)] = IF mine # {} THEN args[CHOOSE j \in mine : TRUE]
                                      ELSE frame[ArgSlot(function, i)]
    BY <1>1, <2>5 DEF NewFrame
  <2> HIDE DEF mine
  <2>7. args[i + 1] \in Value
    BY <1>2, <2>1
  <2> QED
    BY <2>1, <2>2, <2>4, <2>6, <2>7
<1>4. \A i : Argument(i) = frame[ArgSlot(function, i)]
  BY <1>2 DEF Argument
<1>5. ASSUME ~function.internal, NEW i \in function.params..numArgs - 1, Argument(i) \in Counted
      PROVE  freeExtraArgs
  <2>1. i \in 0..numArgs - 1 /\ i + 1 > function.params
    BY <1>2, NumbersAre
  <2> QED
    BY <1>1, <1>3, <1>4, <1>5, <2>1
<1>6. shown \in Seq(Value \cup {NULL})
  BY <1>2, <1>3, ShownAre
<1> QED
  BY <1>2, <1>3, <1>4, <1>5, <1>6 DEF ArgumentsInv, ExtraArgumentsAreReleased

LEMMA StoreKeepsArguments ==
    ASSUME CallInv, ArgumentsInv, StoreEntry
    PROVE  ArgumentsInv'
<1>1. /\ stage = "store" /\ stage' \in {"store", "crashed"} /\ todo # <<>>
      /\ UNCHANGED <<function, shown>>
      /\ initialized' = Larger(initialized, Index + 1)
      /\ InFrame(Index) \/ Extended(Index)
  BY DEF StoreEntry
<1>2. /\ mayHaveUndef' = (mayHaveUndef \/ Skipped(Index) # {})
      /\ freeExtraArgs' = (freeExtraArgs \/ NeedsFree(Index, Head(todo).value))
  BY DEF StoreEntry
<1>3. Head(todo).value \in Value
  <2>1. todo \in Seq(Entry)
    BY DEF CallInv, FrameInv, NumbersOK
  <2>2. Head(todo) \in Entry
    BY <1>1, <2>1
  <2> QED
    BY <2>2 DEF Entry
<1>4. Index \in Nat /\ initialized \in Nat /\ Count = initialized /\ Count' = initialized'
  BY <1>1, NumbersAre DEF InFrame, Extended, Count
<1>5. ASSUME NEW i \in 0..initialized' - 1
      PROVE  /\ i \in Nat
             /\ Argument(i)' = IF i = Index THEN Head(todo).value
                               ELSE IF i < initialized THEN Argument(i) ELSE UNDEF
             /\ i < initialized => i \in 0..Count - 1
             /\ i # Index /\ ~(i < initialized) => i \in Skipped(Index)
  <2>1. i \in Nat /\ (i < initialized \/ i <= Index)
    BY <1>1, <1>4 DEF Larger
  <2> QED
    BY <1>4, <2>1, StoreArguments DEF Skipped
<1>6. ASSUME NEW i \in 0..initialized' - 1
      PROVE  Argument(i)' \in Value \/ (Argument(i)' = UNDEF /\ mayHaveUndef')
  BY <1>1, <1>2, <1>3, <1>5 DEF ArgumentsInv
<1>7. ASSUME ~function.internal, NEW i \in function.params..initialized' - 1, Argument(i)' \in Counted
      PROVE  freeExtraArgs'
  <2>1. i \in 0..initialized' - 1 /\ i >= function.params
    BY <1>1, <1>4, NumbersAre DEF Larger
  <2>2. CASE i = Index
    BY <1>1, <1>2, <1>5, <1>7, <2>1, <2>2, LocatorIs DEF NeedsFree
  <2>3. CASE i # Index /\ i < initialized
    <3>1. Argument(i) \in Counted /\ i \in function.params..Count - 1
      BY <1>4, <1>5, <1>7, <2>1, <2>3, NumbersAre
    <3> QED
      BY <1>1, <1>2, <1>7, <3>1 DEF ArgumentsInv
  <2>4. CASE i # Index /\ ~(i < initialized)
    BY <1>5, <1>7, <2>1, <2>4, MarkAssumption, InputAssumption
  <2> QED
    BY <2>2, <2>3, <2>4
<1> QED
  BY <1>1, <1>4, <1>6, <1>7 DEF ArgumentsInv, ExtraArgumentsAreReleased

LEMMA EndKeepsArguments ==
    ASSUME CallInv, FrameInv', ArgumentsInv, EndHook
    PROVE  ArgumentsInv'
<1>1. /\ stage = "store" /\ stage' = "hook" /\ UNCHANGED <<function, mayHaveUndef, freeExtraArgs>>
      /\ shown' = FuncGetArgs(function, frame', numArgs')
  BY DEF EndHook
<1>2. /\ numArgs' = initialized /\ initialized \in Nat
      /\ Count = initialized /\ Count' = initialized
  BY <1>1, EndArguments, NumbersAre DEF Count
<1>3. \A i \in 0..initialized - 1 : /\ Argument(i)' = Argument(i)
                                    /\ frame'[ArgSlot(function, i)] = Argument(i)
  BY <1>1, EndArguments DEF Argument
<1>4. \A i \in 0..initialized - 1 : Argument(i) \in Value \/ (Argument(i) = UNDEF /\ mayHaveUndef)
  BY <1>1, <1>2 DEF ArgumentsInv
<1>5. shown' \in Seq(Value \cup {NULL})
  BY <1>1, <1>2, <1>3, <1>4, ShownAre
<1>6. ASSUME ~function.internal, NEW i \in function.params..initialized - 1, Argument(i)' \in Counted
      PROVE  freeExtraArgs'
  <2>1. i \in 0..initialized - 1
    BY NumbersAre
  <2> QED
    BY <1>1, <1>2, <1>3, <1>6, <2>1 DEF ArgumentsInv
<1> QED
  BY <1>1, <1>2, <1>3, <1>4, <1>5, <1>6 DEF ArgumentsInv, ExtraArgumentsAreReleased

LEMMA BodyKeepsArguments ==
    ASSUME CallInv, ArgumentsInv, EnterBody
    PROVE  ArgumentsInv'
<1>1. /\ stage = "hook" /\ stage' = "body"
      /\ UNCHANGED <<function, shown, numArgs, freeExtraArgs>>
  BY DEF EnterBody, callVars
<1>2. Count = numArgs /\ UNDEF \notin Counted /\ NULL \notin Counted
  BY <1>1, MarkAssumption, InputAssumption DEF Count
<1>3. \A j \in 0..numArgs - 1 : Argument(j) = UNDEF => mayHaveUndef
  BY <1>1, <1>2, MarkAssumption DEF ArgumentsInv
<1>4. ASSUME ~function.internal, NEW i \in function.params..numArgs - 1,
             frame'[ArgSlot(function, i)] \in Counted
      PROVE  freeExtraArgs
  <2>1. i \in 0..numArgs - 1 /\ i >= function.params
    BY NumbersAre
  <2>2. PICK value : value = frame'[ArgSlot(function, i)]
    OBVIOUS
  <2>3. value = IF Argument(i) # UNDEF THEN Argument(i)
                ELSE IF \A j \in 0..i : Argument(j) = UNDEF => j \in function.optional
                THEN DEFAULT ELSE NULL
    BY <1>2, <1>3, <1>4, <2>1, <2>2, BodyArguments
  <2>4. i \in 0..i /\ i \notin function.optional
    <3>1. function.optional \subseteq 0..function.params - 1
      BY NumbersAre, ShapeAssumption
    <3> QED
      BY <2>1, <3>1, NumbersAre
  <2>5. Argument(i) \in Counted
    BY <1>2, <1>4, <2>2, <2>3, <2>4
  <2> QED
    BY <1>1, <1>2, <1>4, <2>5 DEF ArgumentsInv
<1> QED
  BY <1>1, <1>4 DEF ArgumentsInv, ExtraArgumentsAreReleased

LEMMA ArgumentsKeep == CallInv /\ FrameInv' /\ ArgumentsInv /\ [Next]_vars => ArgumentsInv'
<1> SUFFICES ASSUME CallInv, FrameInv', ArgumentsInv, [Next]_vars PROVE ArgumentsInv'
  OBVIOUS
<1>1. ASSUME NEW array \in Returned, NEW allowed \in BOOLEAN, HookReturns(array, allowed)
      PROVE  ArgumentsInv'
  <2>1. /\ stage = "hook" /\ stage' = "store" /\ initialized' = numArgs
        /\ UNCHANGED <<function, shown, mayHaveUndef, freeExtraArgs>>
    BY <1>1 DEF HookReturns, callVars
  <2>2. Count = numArgs /\ Count' = numArgs
    BY <2>1 DEF Count
  <2>3. \A i \in 0..numArgs - 1 : Argument(i)' = Argument(i)
    BY <1>1, ReturnsArguments
  <2>4. \A i \in function.params..numArgs - 1 : i \in 0..numArgs - 1
    BY NumbersAre
  <2> QED
    BY <2>1, <2>2, <2>3, <2>4 DEF ArgumentsInv, ExtraArgumentsAreReleased
<1>2. CASE SkipEntry
  <2>1. UNCHANGED <<function, frame, numArgs, stage, shown, locator, initialized,
                    mayHaveUndef, freeExtraArgs>>
    BY <1>2 DEF SkipEntry, callVars
  <2> QED
    BY <2>1 DEF ArgumentsInv, ExtraArgumentsAreReleased, Count, Argument, InFrame
<1>3. CASE StoreEntry
  BY <1>3, StoreKeepsArguments
<1>4. CASE EndHook
  BY <1>4, EndKeepsArguments
<1>5. CASE EnterBody
  BY <1>5, BodyKeepsArguments
<1>6. CASE UNCHANGED vars
  <2>1. UNCHANGED <<function, frame, numArgs, stage, shown, locator, initialized,
                    mayHaveUndef, freeExtraArgs>>
    BY <1>6 DEF vars, callVars, loopVars
  <2> QED
    BY <2>1 DEF ArgumentsInv, ExtraArgumentsAreReleased, Count, Argument, InFrame
<1> QED
  BY <1>1, <1>2, <1>3, <1>4, <1>5, <1>6 DEF Next

\* The inductive invariant of the arguments, in calls of functions without
\* local variables.
THEOREM ArgumentsInvHolds == Spec /\ NoLocals => [](CallInv /\ ArgumentsInv)
<1>1. Init /\ NoLocals => CallInv /\ ArgumentsInv
  BY InitFrame, InitMemory, InitArguments DEF CallInv
<1>2. CallInv /\ FrameInv' /\ ArgumentsInv /\ [Next]_vars => CallInv' /\ ArgumentsInv'
  <2> SUFFICES ASSUME CallInv, FrameInv', ArgumentsInv, [Next]_vars PROVE CallInv' /\ ArgumentsInv'
    OBVIOUS
  <2>1. function' = function
    BY DEF Next, HookReturns, SkipEntry, StoreEntry, EndHook, EnterBody, vars
  <2> QED
    BY <2>1, MemoryKeeps, ArgumentsKeep DEF CallInv, NoLocals
<1> QED
  BY <1>1, <1>2, FrameInvHolds, PTL DEF Spec

\* In calls of functions without local variables no hook is shown an open
\* argument, a temporary or memory nobody has written, and all else has its type.
THEOREM TypeOKHolds == Spec /\ NoLocals => []TypeOK
<1>1. CallInv /\ ArgumentsInv => TypeOK
  BY DEF CallInv, FrameInv, NumbersOK, MemoryOK, ArgumentsInv, TypeOK
<1> QED
  BY <1>1, ArgumentsInvHolds, PTL

\* In the same calls the engine is told to release extra arguments whenever one
\* is counted, whether the caller passed it or a hook added it.
THEOREM ExtraArgumentsAreReleasedHolds == Spec /\ NoLocals => []ExtraArgumentsAreReleased
<1>1. ArgumentsInv => ExtraArgumentsAreReleased
  BY DEF ArgumentsInv
<1> QED
  BY <1>1, ArgumentsInvHolds, PTL

-----------------------------------------------------------------------------
(* Refinement.                                                             *)

\* The arguments as a list.
LEMMA ArgumentsAre ==
    /\ stage \in {"hook", "store", "crashed"} =>
        Arguments = [i \in 1..Count |-> Argument(i - 1)]
    /\ stage = "body" => Arguments = FuncGetArgs(function, frame, numArgs)
  BY DEF Arguments, Count

LEMMA InitImplements == Init /\ CallInv /\ ArgumentsInv => List!Init
<1> SUFFICES ASSUME Init, CallInv, ArgumentsInv PROVE List!Init
  OBVIOUS
<1>1. stage = "hook" /\ Count = numArgs /\ numArgs \in Nat /\ ~mayHaveUndef
  BY NumbersAre DEF Init, Count
<1>2. Arguments = [i \in 1..numArgs |-> Argument(i - 1)]
  BY <1>1, ArgumentsAre
<1>3. ASSUME NEW i \in 1..numArgs PROVE Argument(i - 1) \in Value
  <2>1. i - 1 \in 0..numArgs - 1
    BY <1>1
  <2> QED
    BY <1>1, <2>1 DEF ArgumentsInv
<1>4. Arguments \in Seq(Value)
  BY <1>1, <1>2, <1>3
<1>5. locator.start = 0 /\ locator.max = 0 /\ todo = <<>> /\ function \in Shape
  BY DEF Init, NoLocator
<1> QED
  BY <1>4, <1>5 DEF List!Init

LEMMA ReturnsImplements ==
    ASSUME CallInv, NEW array \in Returned, NEW allowed \in BOOLEAN, HookReturns(array, allowed)
    PROVE  List!HookReturns
<1>1. /\ stage = "hook" /\ stage' = "store" /\ initialized' = numArgs /\ function' = function
      /\ numArgs' = numArgs
      /\ todo' = IF Identical(array) THEN <<>> ELSE array
      /\ locator'.start = Larger(numArgs, IF function.internal THEN numArgs ELSE function.params)
      /\ locator'.max = ExtendedMax(allowed)
  BY DEF HookReturns, Locator, callVars
<1>2. Count = numArgs /\ Count' = numArgs /\ numArgs \in Nat
  BY <1>1, NumbersAre DEF Count
<1>3. \A i \in 0..numArgs - 1 : Argument(i)' = Argument(i)
  BY ReturnsArguments
<1>4. Arguments = [i \in 1..numArgs |-> Argument(i - 1)]
  BY <1>1, <1>2, ArgumentsAre
<1>5. Arguments' = [i \in 1..numArgs |-> Argument(i - 1)']
  BY <1>1, <1>2 DEF Arguments
<1>6. \A i \in 1..numArgs : i - 1 \in 0..numArgs - 1
  BY <1>2
<1>7. Arguments' = Arguments /\ Len(Arguments) = numArgs
  BY <1>2, <1>3, <1>4, <1>5, <1>6
<1>8. todo = <<>> /\ todo' \in Returned
  BY <1>1, InputAssumption DEF CallInv, MemoryOK
<1>9. locator'.start = IF function.internal THEN numArgs
                       ELSE IF numArgs > function.params THEN numArgs ELSE function.params
  BY <1>1, <1>2 DEF Larger
<1>10. locator'.max \in 0..Limit
  BY <1>1, InputAssumption DEF ExtendedMax, Smaller, CallInv, FrameInv, NumbersOK, FrameEndsRight
<1> QED
  BY <1>1, <1>7, <1>8, <1>9, <1>10 DEF List!HookReturns, List!Larger

LEMMA SkipImplements == CallInv /\ SkipEntry => List!Refuse
<1> SUFFICES ASSUME CallInv, SkipEntry PROVE List!Refuse
  OBVIOUS
<1>1. /\ UnknownName \/ ~(InFrame(Index) \/ Extended(Index))
      /\ todo # <<>> /\ todo' = Tail(todo)
      /\ UNCHANGED <<function, frame, numArgs, stage, locator, initialized>>
  BY DEF SkipEntry, callVars
<1>2. Arguments' = Arguments
  BY <1>1 DEF Arguments, Argument, InFrame
<1>3. ASSUME NEW i \in 0..locator.start + locator.max - 1 PROVE ~List!IsFor(Head(todo), i)
  <2>1. i \in 0..locator.start - 1 \/ i \in locator.start..locator.start + locator.max - 1
    BY NumbersAre
  <2>2. i = Index => Head(todo).named /\ ~(i < function.params)
    BY <1>1, <2>1, NumbersAre DEF UnknownName, InFrame, Extended
  <2> QED
    BY <2>2 DEF List!IsFor, Index
<1> QED
  BY <1>1, <1>2, <1>3 DEF List!Refuse

LEMMA StoreImplements == CallInv /\ StoreEntry => List!Take
<1> SUFFICES ASSUME CallInv, StoreEntry PROVE List!Take
  OBVIOUS
<1>1. /\ stage = "store" /\ stage' \in {"store", "crashed"} /\ function' = function
      /\ todo # <<>> /\ todo' = Tail(todo)
      /\ ~UnknownName /\ (InFrame(Index) \/ Extended(Index))
      /\ initialized' = Larger(initialized, Index + 1)
  BY DEF StoreEntry
<1>2. locator'.start = locator.start /\ locator'.max = locator.max
  BY DEF StoreEntry, CallInv, FrameInv, NumbersOK, LocatorType
<1>3. /\ Index \in 0..locator.start + locator.max - 1 /\ Index \in Nat
      /\ initialized \in Nat /\ initialized' \in Nat
      /\ initialized > Index + 1 => initialized' = initialized
      /\ initialized <= Index + 1 => initialized' = Index + 1
  BY <1>1, NumbersAre DEF InFrame, Extended, Larger
<1>4. List!IsFor(Head(todo), Index)
  BY <1>1, <1>3, NumbersAre DEF List!IsFor, Index, UnknownName
<1>5. Arguments = [i \in 1..initialized |-> Argument(i - 1)] /\ Len(Arguments) = initialized
  BY <1>1, <1>3 DEF Arguments
<1>6. Arguments' = [i \in 1..initialized' |-> Argument(i - 1)']
  BY <1>1 DEF Arguments
<1>7. ASSUME NEW j \in 1..initialized'
      PROVE  Argument(j - 1)' = IF j = Index + 1 THEN Head(todo).value
                                ELSE IF j <= initialized THEN Arguments[j] ELSE UNDEF
  <2>1. j - 1 \in Nat /\ (j - 1 < initialized \/ j - 1 <= Index)
    BY <1>3
  <2>2. Argument(j - 1)' = IF j - 1 = Index THEN Head(todo).value
                           ELSE IF j - 1 < initialized THEN Argument(j - 1) ELSE UNDEF
    BY <2>1, StoreArguments
  <2>3. (j - 1 = Index <=> j = Index + 1) /\ (j - 1 < initialized <=> j <= initialized)
    BY <1>3
  <2>4. j <= initialized => Arguments[j] = Argument(j - 1)
    BY <1>3, <1>5
  <2> QED
    BY <2>2, <2>3, <2>4
<1>8. Arguments' = List!Put(Index, Head(todo).value)
  <2>1. List!Put(Index, Head(todo).value)
          = [j \in 1..initialized' |->
                IF j = Index + 1 THEN Head(todo).value
                ELSE IF j <= initialized THEN Arguments[j] ELSE UNDEF]
    BY <1>3, <1>5 DEF List!Put, List!Larger
  <2> QED
    BY <1>6, <1>7, <2>1
<1> QED
  BY <1>1, <1>2, <1>3, <1>4, <1>8 DEF List!Take

LEMMA EndImplements == CallInv /\ FrameInv' /\ EndHook => UNCHANGED List!vars
<1> SUFFICES ASSUME CallInv, FrameInv', EndHook PROVE UNCHANGED List!vars
  OBVIOUS
<1>1. /\ stage = "store" /\ stage' = "hook" /\ UNCHANGED <<function, todo, locator>>
      /\ numArgs' = initialized /\ initialized \in Nat
  BY EndArguments, NumbersAre DEF EndHook, loopVars
<1>2. Arguments = [i \in 1..initialized |-> Argument(i - 1)]
  BY <1>1 DEF Arguments
<1>3. Arguments' = [i \in 1..initialized |-> Argument(i - 1)']
  BY <1>1 DEF Arguments
<1>4. \A i \in 0..initialized - 1 : Argument(i)' = Argument(i)
  BY <1>1, EndArguments DEF Argument
<1>5. \A i \in 1..initialized : i - 1 \in 0..initialized - 1
  BY <1>1
<1>6. Arguments' = Arguments
  BY <1>2, <1>3, <1>4, <1>5
<1> QED
  BY <1>1, <1>6 DEF List!vars

LEMMA BodyImplements == CallInv /\ ArgumentsInv /\ EnterBody => List!EnterBody
<1> SUFFICES ASSUME CallInv, ArgumentsInv, EnterBody PROVE List!EnterBody
  OBVIOUS
<1>1. /\ stage = "hook" /\ stage' = "body" /\ UNCHANGED <<function, todo, locator, numArgs>>
      /\ numArgs \in Nat /\ Count = numArgs /\ todo = <<>>
  BY NumbersAre DEF EnterBody, callVars, loopVars, Count, CallInv, MemoryOK
<1>2. \A j \in 0..numArgs - 1 : Argument(j) = UNDEF => mayHaveUndef
  BY <1>1, MarkAssumption DEF ArgumentsInv
<1>3. /\ Arguments = [i \in 1..numArgs |-> Argument(i - 1)]
      /\ DOMAIN Arguments = 1..numArgs
      /\ \A i \in 1..numArgs : Arguments[i] = Argument(i - 1)
  BY <1>1 DEF Arguments
<1>4. Arguments' = [i \in 1..numArgs |->
                      IF frame'[ArgSlot(function, i - 1)] = UNDEF THEN NULL
                      ELSE frame'[ArgSlot(function, i - 1)]]
  BY <1>1 DEF Arguments, FuncGetArgs
<1>5. ASSUME NEW i \in 1..numArgs
      PROVE  (IF frame'[ArgSlot(function, i - 1)] = UNDEF THEN NULL
              ELSE frame'[ArgSlot(function, i - 1)])
               = IF Arguments[i] # UNDEF THEN Arguments[i]
                 ELSE IF \A j \in 1..i : Arguments[j] = UNDEF => j - 1 \in function.optional
                 THEN DEFAULT ELSE NULL
  <2>1. i - 1 \in 0..numArgs - 1
    BY <1>1
  <2>2. (\A j \in 0..i - 1 : Argument(j) = UNDEF => j \in function.optional)
          <=> \A j \in 1..i : Arguments[j] = UNDEF => j - 1 \in function.optional
    <3>1. \A j \in 1..i : j - 1 \in 0..i - 1 /\ j \in 1..numArgs
      BY <1>1
    <3>2. \A j \in 0..i - 1 : j + 1 \in 1..i /\ j + 1 \in 1..numArgs /\ (j + 1) - 1 = j
      BY <1>1
    <3> QED
      BY <1>3, <3>1, <3>2
  <2>3. Arguments[i] = Argument(i - 1)
    BY <1>3
  <2>4. PICK m : m = i - 1
    OBVIOUS
  <2>5. (IF frame'[ArgSlot(function, m)] = UNDEF THEN NULL ELSE frame'[ArgSlot(function, m)])
          = IF Argument(m) # UNDEF THEN Argument(m)
            ELSE IF \A j \in 0..m : Argument(j) = UNDEF => j \in function.optional
            THEN DEFAULT ELSE NULL
    BY <1>2, <2>1, <2>4, BodyArguments
  <2> QED
    BY <2>2, <2>3, <2>4, <2>5
<1>6. Arguments' = [i \in DOMAIN Arguments |->
                      IF ~List!Open(i) THEN Arguments[i]
                      ELSE IF \A j \in 1..i : List!Open(j) => j - 1 \in function.optional
                      THEN DEFAULT ELSE NULL]
  BY <1>3, <1>4, <1>5 DEF List!Open
<1> QED
  BY <1>1, <1>6 DEF List!EnterBody

\* In calls of functions without local variables the body gets what the arrays
\* the hooks return, one entry after the other, make of the arguments: however
\* the entries lie in the frame, behind its temporaries or among the extended
\* slots, and however often the frame is extended.
THEOREM ImplementsListHolds == Spec /\ NoLocals => ImplementsList
<1>1. Init /\ NoLocals => List!Init
  BY InitFrame, InitMemory, InitArguments, InitImplements DEF CallInv
<1>2. CallInv /\ FrameInv' /\ ArgumentsInv /\ [Next]_vars => [List!Next]_(List!vars)
  <2> SUFFICES ASSUME CallInv, FrameInv', ArgumentsInv, [Next]_vars
               PROVE  List!Next \/ UNCHANGED List!vars
    OBVIOUS
  <2>1. ASSUME NEW array \in Returned, NEW allowed \in BOOLEAN, HookReturns(array, allowed)
        PROVE  List!Next
    BY <2>1, ReturnsImplements DEF List!Next
  <2>2. CASE SkipEntry
    BY <2>2, SkipImplements DEF List!Next
  <2>3. CASE StoreEntry
    BY <2>3, StoreImplements DEF List!Next
  <2>4. CASE EndHook
    BY <2>4, EndImplements
  <2>5. CASE EnterBody
    BY <2>5, BodyImplements DEF List!Next
  <2>6. CASE UNCHANGED vars
    <3>1. UNCHANGED <<function, frame, numArgs, stage, todo, locator, initialized>>
      BY <2>6 DEF vars, callVars, loopVars
    <3>2. Arguments' = Arguments
      BY <3>1 DEF Arguments, Argument, InFrame, FuncGetArgs
    <3> QED
      BY <3>1, <3>2 DEF List!vars
  <2> QED
    BY <2>1, <2>2, <2>3, <2>4, <2>5, <2>6 DEF Next
<1> QED
  BY <1>1, <1>2, ArgumentsInvHolds, FrameInvHolds, PTL DEF Spec, ImplementsList, List!Spec

=============================================================================
