----------------------------- MODULE ArgLocator -----------------------------
(***************************************************************************)
(* How the arrays returned by pre hooks reach the arguments of a call: the *)
(* argument locator of observer_begin and the slots of the call frame.     *)
(*                                                                         *)
(* A frame is memory, slots counted from the first argument.  A function   *)
(* of PHP code has its parameters first, then its other variables, its     *)
(* temporaries, and the arguments beyond the parameters.  An internal one  *)
(* has the arguments of the call and then temporaries.  What lies behind   *)
(* belongs to nobody, up to the end of the stack page.                     *)
(***************************************************************************)
EXTENDS Integers, Sequences

CONSTANTS
    Shape,      \* Functions, by what decides the layout of their frames.
    Passed,     \* The argument lists of calls.
    Returned,   \* The arrays pre hooks return; empty for no array at all.
    Value,      \* Values of arguments.
    Counted,    \* The values that are reference counted.
    Hooks,      \* Bound: the pre hooks of a call.
    Rooms,      \* Slots that may be left on the stack page behind the frame.
    FrameSize,  \* Bound: slots of memory looked at.
    Limit,      \* STACK_EXTENSION_LIMIT, 16 in the code.
    DEFAULT,    \* The default value of a parameter.
    NULL,       \* PHP's null.
    UNDEF,      \* IS_UNDEF.
    TEMP,       \* What a temporary holds.
    GARBAGE     \* Memory nobody has written.

ASSUME ShapeAssumption ==
    \A s \in Shape :
        /\ s.internal \in BOOLEAN
        /\ s.params \in Nat /\ s.vars \in Nat /\ s.temps \in Nat
        /\ s.params <= s.vars
        /\ s.optional \subseteq 0..s.params - 1

\* An element of a returned array.  The key of a named one is the position of
\* the parameter with that name, or -1 when there is none.
Entry == [named : BOOLEAN, key : Int, value : Value]

ASSUME InputAssumption ==
    /\ Passed \subseteq Seq(Value)
    /\ Returned \subseteq Seq(Entry) /\ <<>> \in Returned
    /\ Counted \subseteq Value
    /\ Hooks \in Nat /\ Rooms \subseteq Nat /\ Limit \in Nat /\ FrameSize \in Nat

\* Null is not counted, and only an open argument holds UNDEF.
ASSUME MarkAssumption ==
    /\ TEMP \notin {UNDEF, NULL, DEFAULT}
    /\ UNDEF \notin Value \cup {DEFAULT} /\ NULL \notin Counted

VARIABLES
    function,   \* The called function.
    frame,      \* The memory of the frame.
    numArgs,    \* ZEND_CALL_NUM_ARGS.
    top,        \* EG(vm_stack_top), and
    pageEnd,    \* EG(vm_stack_end), as slots of the frame.
    mayHaveUndef, freeExtraArgs,    \* Flags of the call.
    stage,      \* "hook", "store", "body", or "crashed".
    hooks,      \* Pre hooks still to be called.
    shown,      \* params[1] as the next hook gets it.
    todo,       \* What is left of the returned array.
    locator,    \* The argument locator.
    initialized \* args_initialized.

callVars == <<numArgs, top, mayHaveUndef, freeExtraArgs>>
loopVars == <<todo, locator, initialized>>
vars == <<function, frame, callVars, pageEnd, stage, hooks, shown, loopVars>>

Slot == 0..FrameSize - 1

Larger(m, n)  == IF m > n THEN m ELSE n
Smaller(m, n) == IF m < n THEN m ELSE n

-----------------------------------------------------------------------------
(* The frame as the engine lays it out.                                    *)

\* Where the engine keeps the argument numbered i, from 0.
ArgSlot(s, i) ==
    IF s.internal \/ i < s.params THEN i ELSE s.vars + s.temps + (i - s.params)

\* Where it keeps the temporaries of s called with n arguments.
Temporaries(s, n) ==
    IF s.internal THEN n..n + s.temps - 1 ELSE s.vars..s.vars + s.temps - 1

\* The end of the frame of s called with n arguments.
FrameEnd(s, n) ==
    IF s.internal THEN n + s.temps
    ELSE s.vars + s.temps + Larger(n - s.params, 0)

NewFrame(s, args) ==
    [a \in Slot |->
        LET mine == {i \in DOMAIN args : ArgSlot(s, i - 1) = a}
        IN IF mine # {} THEN args[CHOOSE i \in mine : TRUE]
           ELSE IF ~s.internal /\ a < s.vars THEN UNDEF
           ELSE IF a < FrameEnd(s, Len(args)) THEN TEMP
           ELSE GARBAGE]

\* Fault variant: open arguments are handed out as they are.
FuncGetArgsRaw(s, memory, n) == [i \in 1..n |-> memory[ArgSlot(s, i - 1)]]

\* func_get_args: what a hook is shown.
FuncGetArgs(s, memory, n) ==
    [i \in 1..n |->
        LET value == memory[ArgSlot(s, i - 1)]
        IN IF value = UNDEF THEN NULL ELSE value]

\* The memory looked at reaches to the end of the stack page.
ASSUME MemoryAssumption ==
    \A s \in Shape, args \in Passed, r \in Rooms :
        FrameEnd(s, Len(args)) + r <= FrameSize

-----------------------------------------------------------------------------
(* The argument locator.                                                   *)

\* Fault variant: the end of the stack page is forgotten.
ExtendedMaxAnyRoom(allowed) == IF allowed THEN Limit ELSE 0

ExtendedMax(allowed) ==
    IF allowed THEN Smaller(Limit, pageEnd - top) ELSE 0

\* arg_locator_initialize.
Locator(allowed) ==
    LET reserved == IF function.internal THEN numArgs ELSE function.params
    IN [reserved |-> reserved,
        provided |-> numArgs,
        start    |-> Larger(numArgs, reserved),
        used     |-> 0,
        max      |-> ExtendedMax(allowed),
        slots    |-> [k \in 0..Limit - 1 |-> GARBAGE]]

\* Fault variant: extra arguments directly follow the parameters.
TargetSlotNoTemps(i) == i

\* arg_locator_get_slot, for an argument the frame has a slot for.
TargetSlot(i) ==
    IF i < locator.reserved \/ function.internal THEN i ELSE i + function.temps

NoLocator == [reserved |-> 0, provided |-> 0, start |-> 0, used |-> 0, max |-> 0,
              slots |-> [k \in 0..Limit - 1 |-> GARBAGE]]

Init ==
    /\ function \in Shape
    /\ \E args \in Passed :
        /\ frame = NewFrame(function, args)
        /\ numArgs = Len(args)
        /\ freeExtraArgs = \E i \in DOMAIN args :
                                i > function.params /\ args[i] \in Counted
    /\ top = FrameEnd(function, numArgs)
    /\ \E r \in Rooms : pageEnd = top + r
    /\ mayHaveUndef = FALSE
    /\ stage = "hook" /\ hooks \in 1..Hooks
    /\ shown = FuncGetArgs(function, frame, numArgs)
    /\ todo = <<>> /\ locator = NoLocator /\ initialized = numArgs

-----------------------------------------------------------------------------
(* The loop over the pre hooks.                                            *)

\* The array is the one the hook was shown.
Identical(array) ==
    /\ Len(array) = Len(shown)
    /\ \A i \in DOMAIN array :
        ~array[i].named /\ array[i].key = i - 1 /\ array[i].value = shown[i]

\* A pre hook returns.  It may have switched phook.allow_stack_extension.
HookReturns(array, allowed) ==
    /\ stage = "hook" /\ hooks > 0
    /\ stage' = "store"
    /\ todo' = IF Identical(array) THEN <<>> ELSE array
    /\ locator' = Locator(allowed)
    /\ initialized' = numArgs
    /\ UNCHANGED <<function, frame, callVars, pageEnd, hooks, shown>>

\* target_idx, unless func_get_arg_index_by_name finds no such parameter.
Index == Head(todo).key

UnknownName == Head(todo).named /\ Index \notin 0..function.params - 1

\* The slots arg_locator_get_slot finds.  A negative key is a large unsigned
\* index, for which there is none.
InFrame(i)  == i \in 0..locator.start - 1
Extended(i) == i \in locator.start..locator.start + locator.max - 1

\* There is no such parameter, or no room: a warning.
SkipEntry ==
    /\ stage = "store" /\ todo # <<>>
    /\ UnknownName \/ ~(InFrame(Index) \/ Extended(Index))
    /\ todo' = Tail(todo)
    /\ UNCHANGED <<function, frame, callVars, pageEnd, stage, hooks, shown,
                   locator, initialized>>

\* The arguments between the last initialized one and the one numbered i.
Skipped(i) == initialized..i - 1

\* Fault variant: the first extra argument is taken for a parameter.
NeedsFreeLate(i, v) == i > locator.reserved /\ v \in Counted

\* The engine must be told that it has extra arguments to release.
NeedsFree(i, v) == i >= locator.reserved /\ v \in Counted

\* An element is stored, in the frame or with the extended slots.  params[1]
\* is brought up to date, too; as it is read again after the loop that shows
\* only when it is the engine's constant empty array, which cannot be written.
StoreEntry ==
    /\ stage = "store" /\ todo # <<>>
    /\ ~UnknownName
    /\ InFrame(Index) \/ Extended(Index)
    /\ LET v == Head(todo).value
           written(i, old) ==
               IF i = Index THEN v ELSE IF i \in Skipped(Index) THEN UNDEF ELSE old
           at(a) == {i \in Skipped(Index) \cup {Index} : InFrame(i) /\ TargetSlot(i) = a}
       IN /\ frame' = [a \in Slot |->
                        IF at(a) = {} THEN frame[a]
                        ELSE written(CHOOSE i \in at(a) : TRUE, frame[a])]
          /\ locator' = [locator EXCEPT
                !.slots = [k \in DOMAIN @ |-> written(k + locator.start, @[k])],
                !.used  = Larger(@, Index + 1 - locator.start)]
          /\ freeExtraArgs' = (freeExtraArgs \/ NeedsFree(Index, v))
    /\ mayHaveUndef' = (mayHaveUndef \/ Skipped(Index) # {})
    /\ initialized' = Larger(initialized, Index + 1)
    /\ todo' = Tail(todo)
    /\ stage' = IF shown = <<>> THEN "crashed" ELSE stage
    /\ UNCHANGED <<function, numArgs, top, pageEnd, hooks, shown>>

\* Fault variant: the temporaries of an internal function stay where they are.
StoredExtendedOver ==
    LET target == locator.start + IF function.internal THEN 0 ELSE function.temps
    IN [a \in Slot |->
          IF a \in target..target + locator.used - 1 THEN locator.slots[a - target]
          ELSE frame[a]]

\* arg_locator_store_extended: extended slots go behind the temporaries, or
\* before them, and then move them, when the function is internal.
StoredExtended ==
    LET target == locator.start + IF function.internal THEN 0 ELSE function.temps
        moved  == target + locator.used
    IN [a \in Slot |->
          IF a \in target..moved - 1 THEN locator.slots[a - target]
          ELSE IF function.internal /\ a \in moved..moved + function.temps - 1
          THEN frame[a - locator.used]
          ELSE frame[a]]

\* The array is done: the arguments are counted and read for the next hook.
EndHook ==
    /\ stage = "store" /\ todo = <<>>
    /\ frame' = StoredExtended
    /\ top' = top + locator.used
    /\ numArgs' = Larger(numArgs, initialized)
    /\ shown' = FuncGetArgs(function, frame', numArgs')
    /\ hooks' = hooks - 1
    /\ stage' = "hook"
    /\ UNCHANGED <<function, mayHaveUndef, freeExtraArgs, pageEnd, loopVars>>

\* zend_handle_undef_args runs over the first slots of the frame, as many as
\* there are arguments.
HandledUndef ==
    LET open(a)   == a < numArgs /\ frame[a] = UNDEF
        filled(a) == \A b \in 0..a : open(b) => b \in function.optional
    IN [a \in Slot |->
          IF ~open(a) THEN frame[a] ELSE IF filled(a) THEN DEFAULT ELSE NULL]

EnterBody ==
    /\ stage = "hook" /\ hooks = 0
    /\ stage' = "body"
    /\ frame' = IF mayHaveUndef THEN HandledUndef ELSE frame
    /\ UNCHANGED <<function, callVars, pageEnd, hooks, shown, loopVars>>

Next ==
    \/ \E array \in Returned, allowed \in BOOLEAN : HookReturns(array, allowed)
    \/ SkipEntry \/ StoreEntry \/ EndHook
    \/ EnterBody

Spec == Init /\ [][Next]_vars

-----------------------------------------------------------------------------
(* Properties.                                                             *)

Memory == Value \cup {DEFAULT, NULL, UNDEF, TEMP, GARBAGE}

LocatorType ==
    [reserved : Nat, provided : Nat, start : Nat, used : 0..Limit, max : 0..Limit,
     slots : [0..Limit - 1 -> Memory]]

\* Every variable has its type; hooks are never shown an open argument, a
\* temporary or memory nobody has written.
TypeOK ==
    /\ function \in Shape
    /\ frame \in [Slot -> Memory]
    /\ numArgs \in Nat /\ initialized \in Nat
    /\ top \in Nat /\ pageEnd \in Nat
    /\ mayHaveUndef \in BOOLEAN /\ freeExtraArgs \in BOOLEAN
    /\ stage \in {"hook", "store", "body", "crashed"}
    /\ hooks \in 0..Hooks
    /\ shown \in Seq(Value \cup {NULL})
    /\ todo \in Seq(Entry)
    /\ locator \in LocatorType

\* A function whose variables are its parameters, or an internal one.
NoLocals == function.internal \/ function.vars = function.params

\* The temporaries of a function are its own: they lie where it expects them,
\* and hold what they held, if the function has no local variables.
TemporariesStay ==
    NoLocals => \A a \in Temporaries(function, numArgs) : frame[a] = TEMP

\* The arguments lie inside the frame and the frame on its stack page, however
\* many hooks extended it.
FrameHoldsArguments ==
    stage \in {"hook", "body"} =>
        /\ top <= pageEnd
        /\ \A i \in 0..numArgs - 1 : ArgSlot(function, i) < top

\* Between hooks the frame ends where the engine would have ended it for the
\* arguments there are now.  While an array is stored that is still true of
\* the arguments there were, and as many extended slots are in use as there
\* are initialized arguments beyond the frame; the page has room for them.
FrameEndsRight ==
    /\ top = FrameEnd(function, numArgs) /\ top <= pageEnd
    /\ stage = "store" =>
        /\ locator.reserved = IF function.internal THEN numArgs ELSE function.params
        /\ locator.start = Larger(numArgs, locator.reserved)
        /\ top + locator.max <= pageEnd
        /\ locator.used = Larger(initialized - locator.start, 0)
        /\ locator.used <= locator.max
        /\ numArgs <= initialized

\* The engine is told to release extra arguments whenever one is counted.
ExtraArgumentsAreReleased ==
    stage = "body" /\ ~function.internal =>
        \A i \in function.params..numArgs - 1 :
            frame[ArgSlot(function, i)] \in Counted => freeExtraArgs

\* The argument numbered i, in its frame or among the extended slots.
Argument(i) ==
    IF stage \in {"store", "crashed"} /\ ~InFrame(i) THEN locator.slots[i - locator.start]
    ELSE frame[ArgSlot(function, i)]

Arguments ==
    IF stage = "body" THEN FuncGetArgs(function, frame, numArgs)
    ELSE [i \in 1..(IF stage = "hook" THEN numArgs ELSE initialized) |-> Argument(i - 1)]

List == INSTANCE ArgumentList WITH
    args <- Arguments, base <- locator.start, room <- locator.max

\* The arguments the body gets are what the returned arrays, taken one entry
\* after the other, make of the arguments of the call.
ImplementsList == List!Spec

-----------------------------------------------------------------------------
(* What tests of the repository say, and the code does not do.             *)

\* tests/modify_extra_params.phpt: pre hooks can replace the arguments a
\* caller passed beyond the parameters.
ExtraArgumentsCanBeModified ==
    [][\A i \in function.params..numArgs - 1 :
        stage = "store" /\ todo # <<>> /\ todo' = Tail(todo) /\ Index = i
            => frame'[ArgSlot(function, i)] = Head(todo).value]_vars

\* tests/009.phpt: pre hooks can set arguments the caller did not provide.
NotProvidedCanBeModified == stage # "crashed"

=============================================================================
