---------------------------- MODULE HookDispatch ----------------------------
(***************************************************************************)
(* How the handlers run the hooks of a function: observer_begin before the *)
(* function's body, observer_end after it.                                 *)
(*                                                                         *)
(* One PHP thread is a stack of calls.  On top of it either the extension  *)
(* acts, between two hooks, or PHP code does: the body of a function, a    *)
(* hook, the main script.  PHP code may do anything PHP code does, that    *)
(* is, call functions that have hooks of their own, throw, catch, return   *)
(* and exit.  The hooks of each function are fixed here: binding them is   *)
(* the subject of ObserverRegistry.                                        *)
(*                                                                         *)
(* PHP code also runs aside, between the hooks: to find the callable of a  *)
(* hook the extension may have to load its class, its warnings may reach   *)
(* an error handler, and what it releases may have destructors.  All of    *)
(* that happens outside of exception_isolation_start and _end.             *)
(***************************************************************************)
EXTENDS Integers, Sequences

CONSTANTS
    Function,   \* The functions a program calls.
    Main,       \* The main script.
    Hook,       \* The callables registered as hooks.
    Pre,        \* Pre[f]: the pre hooks bound to f.
    Post,       \* Post[f]: the post hooks bound to f.
    Runnable,   \* The hooks that are callable and have a valid signature.
    Named,      \* The hooks given as "Class::method", looked up at each call.
    Typed,      \* The hooks with a return type other than void.
    Value,      \* Argument lists and results.
    Exception,  \* What can be thrown.
    UNWIND,     \* exit() unwinds the stack like an exception.
    NULL,       \* PHP's null, and the absence of an exception.
    GARBAGE,    \* What memory holds that nothing was stored to.
    MaxDepth    \* Bound: the calls on the stack.

ASSUME HookAssumption ==
    /\ Pre \in [Function -> Seq(Hook)] /\ Post \in [Function -> Seq(Hook)]
    /\ Runnable \subseteq Hook /\ Named \subseteq Hook /\ Typed \subseteq Hook
    /\ Main \notin Function

ASSUME DepthAssumption == MaxDepth \in Nat \ {0}

VARIABLES stack,    \* The calls, the innermost one last.
          exc       \* EG(exception), and by whom it was raised.

vars == <<stack, exc>>

\* What was thrown and, for the properties, by whom, seen from the program: by
\* its own code, in a hook, or in code that runs aside.
Thrown == [what : Exception \cup {UNWIND}, by : {"code", "hook", "aside"}]
Raised == Thrown \cup {NULL}

ASSUME NullAssumption ==
    /\ NULL \notin Value \cup Thrown
    /\ GARBAGE \notin Value \cup {NULL}
    /\ UNWIND \notin Exception

\* Where a call is: between pre hooks, in one, in its body, and so on.
Stage == {"pre", "prehook", "preaside", "body", "post", "posthook", "postaside"}

HookStage == {"prehook", "posthook"}
AsideStage == {"preaside", "postaside"}

\* The stages in which PHP code runs; in the others the extension does.
CodeStage == {"body"} \cup HookStage \cup AsideStage

\* The stages of observer_begin.
BeginStage == {"pre", "prehook", "preaside"}

\* A frame goes on with its next instruction, or with what the engine does
\* about an exception.
Opline == {"next", "handler"}

Frame ==
    [fn     : Function \cup {Main},
     stage  : Stage,
     at     : Nat,                  \* The element of the hook list.
     used   : BOOLEAN,              \* The caller uses the result.
     args   : Value \cup {NULL},    \* The argument slots of the frame.
     params : Value \cup {NULL},    \* params: the arguments shown to hooks.
     slot   : Value \cup {NULL, GARBAGE}, \* *return_value, if the result is used.
     shown  : Value \cup {NULL, GARBAGE}, \* params[2]: the result shown to post hooks.
     thrown : Raised,               \* params[3]: the exception shown to them.
     opline : Opline,               \* opline: where the frame goes on.
     saved  : Raised,               \* save_state.exception.
     resume : Opline,               \* save_state.opline.
     \* History: how the body ended, the hooks of the list that were run, and
     \* where in the list are those whose class failed to load.
     left   : Raised,
     ran    : Seq(Hook),
     missed : SUBSET Nat]

Top == stack[Len(stack)]

\* The innermost call with its fields changed.
SetTop(frame) == stack' = [stack EXCEPT ![Len(stack)] = frame]

\* The call of f with the arguments a, as observer_begin finds it.
NewFrame(f, a, used) ==
    [fn |-> f, stage |-> "pre", at |-> 1, used |-> used, args |-> a, params |-> a,
     slot |-> NULL, shown |-> NULL, thrown |-> NULL,
     opline |-> "next", saved |-> NULL, resume |-> "next",
     left |-> NULL, ran |-> <<>>, missed |-> {}]

Init ==
    /\ stack = <<[NewFrame(Main, NULL, FALSE) EXCEPT !.stage = "body"]>>
    /\ exc = NULL

At(stages) == stack # <<>> /\ Top.stage \in stages

-----------------------------------------------------------------------------
(* PHP code.                                                               *)

\* Fault variant: calls are made while the extension acts, too.
CallAnywhere(f, a, used) ==
    /\ At(Stage) /\ exc = NULL
    /\ Len(stack) < MaxDepth
    /\ stack' = Append(stack, NewFrame(f, a, used))
    /\ UNCHANGED exc

Call(f, a, used) ==
    /\ At(CodeStage) /\ exc = NULL
    /\ Len(stack) < MaxDepth
    /\ stack' = Append(stack, NewFrame(f, a, used))
    /\ UNCHANGED exc

\* The frame of the running code goes on at opline. A hook has a frame of its
\* own, which is not modelled.
GoingOn(frame, opline) ==
    IF frame.stage = "body" THEN [frame EXCEPT !.opline = opline] ELSE frame

\* The outermost call that is not in its body is in one of stages.
ProgramWaitsIn(stages) ==
    \E i \in DOMAIN stack :
        /\ stack[i].stage \in stages
        /\ \A j \in 1..i - 1 : stack[j].stage = "body"

RunningCode ==
    CASE ProgramWaitsIn(HookStage)  -> "hook"
      [] ProgramWaitsIn(AsideStage) -> "aside"
      [] OTHER                      -> "code"

\* throw, or exit.
Raise(e) ==
    /\ At(CodeStage) /\ exc = NULL
    /\ exc' = [what |-> e, by |-> RunningCode]
    /\ SetTop(GoingOn(Top, "handler"))

Catch ==
    /\ At(CodeStage) /\ exc # NULL /\ exc.what \in Exception
    /\ exc' = NULL
    /\ SetTop(GoingOn(Top, "next"))

\* The main script ends.
LeaveMain ==
    /\ At({"body"}) /\ Top.fn = Main
    /\ stack' = <<>>
    /\ UNCHANGED exc

-----------------------------------------------------------------------------
(* The loops of observer_begin and observer_end.                           *)

HookList == IF Top.stage \in BeginStage THEN Pre[Top.fn] ELSE Post[Top.fn]

\* Fault variant: the post hooks are walked from head to tail, too.
StepForward == 1

\* Pre hooks are walked from head to tail, post hooks from tail to head.
Step == IF Top.stage \in BeginStage THEN 1 ELSE -1

CurrentHook == HookList[Top.at]

HooksLeft == Top.at \in DOMAIN HookList

\* Fault variant: the loop does not advance past such a hook.
SkipHookForever ==
    /\ At({"pre", "post"}) /\ HooksLeft
    /\ CurrentHook \notin Runnable
    /\ UNCHANGED vars

\* A hook that cannot be called, or whose signature does not fit, is skipped.
SkipHook ==
    /\ At({"pre", "post"}) /\ HooksLeft
    /\ CurrentHook \notin Runnable
    /\ SetTop([Top EXCEPT !.at = @ + Step])
    /\ UNCHANGED exc

\* PHP code is run aside: an autoloader for a hook, an error handler for the
\* warning about one, destructors after one. The engine puts an exception that
\* is on its way aside meanwhile. There may be any number of them in a row.
StartAside ==
    /\ At({"pre", "post"}) /\ HookList # <<>>
    /\ SetTop([Top EXCEPT !.stage = IF @ = "pre" THEN "preaside" ELSE "postaside",
                          !.saved = exc])
    /\ exc' = NULL

\* What was put aside takes its place again, unless there is a new exception,
\* with which the frame is at its handler. If it comes from an autoloader, the
\* hook has no class and is skipped.
LeaveAside(missing) ==
    /\ At(AsideStage)
    /\ missing => exc # NULL /\ HooksLeft /\ CurrentHook \in Named
    /\ SetTop([Top EXCEPT
            !.stage  = IF @ = "preaside" THEN "pre" ELSE "post",
            !.at     = IF missing THEN @ + Step ELSE @,
            !.missed = IF missing THEN @ \cup {Top.at} ELSE @,
            !.opline = IF exc = NULL THEN @ ELSE "handler",
            !.saved  = NULL])
    /\ exc' = IF exc = NULL THEN Top.saved ELSE exc

\* exception_isolation_start, then the hook is called.
StartHook ==
    /\ At({"pre", "post"}) /\ HooksLeft
    /\ CurrentHook \in Runnable
    /\ SetTop([Top EXCEPT !.stage = IF @ = "pre" THEN "prehook" ELSE "posthook",
                          !.saved = exc, !.resume = Top.opline,
                          !.ran = Append(@, CurrentHook)])
    /\ exc' = NULL

\* Fault variant: what the hook raised stays in EG(exception).
EndIsolationLeak == exc' = IF exc = NULL THEN Top.saved ELSE exc

\* exception_isolation_end: what the hook raised is dropped.
EndIsolation == exc' = Top.saved

\* Fault variant: the frame is left where zend_call_function left it, which is
\* at its exception handler if the hook raised something.
NotResumed == IF exc = NULL THEN Top.opline ELSE "handler"

\* exception_isolation_end: the frame goes on where it would have.
Resumed == Top.resume

\* A pre hook returned v, or raised exc.  An array replaces the arguments, and
\* the next hook is shown the arguments as they are now.
LeavePreHook(v) ==
    /\ At({"prehook"})
    /\ LET args == IF exc = NULL /\ v # NULL THEN v ELSE Top.args
       IN SetTop([Top EXCEPT !.stage = "pre", !.at = @ + Step,
                             !.args = args, !.params = args, !.opline = Resumed,
                             !.saved = NULL, !.resume = "next"])
    /\ EndIsolation

\* The body begins, at its handler if code that ran aside raised something.
EnterBody ==
    /\ At({"pre"}) /\ ~HooksLeft
    /\ SetTop([Top EXCEPT !.stage = "body"])
    /\ UNCHANGED exc

\* func_get_exception: exit() is not shown.
FuncGetException(e) == IF e # NULL /\ e.what = UNWIND THEN NULL ELSE e

\* The body returned v, or raised exc; observer_end sets up its parameters.
\* After an exception nothing was stored through return_value.
LeaveBody(v) ==
    /\ At({"body"}) /\ Top.fn # Main
    /\ SetTop([Top EXCEPT
            !.stage  = "post", !.at = Len(Post[Top.fn]),
            !.params = Top.args,
            !.slot   = CASE ~Top.used              -> NULL
                         [] Top.used /\ exc = NULL -> v
                         [] OTHER                  -> GARBAGE,
            !.shown  = IF exc = NULL THEN v ELSE NULL,
            !.thrown = FuncGetException(exc),
            !.left   = exc, !.ran = <<>>, !.missed = {}])
    /\ UNCHANGED exc

\* Fault variant: params[2] is not brought up to date.
LeavePostHookStale(v) ==
    /\ At({"posthook"})
    /\ LET slot == IF exc = NULL /\ CurrentHook \in Typed /\ Top.used
                   THEN v ELSE Top.slot
       IN SetTop([Top EXCEPT !.stage = "post", !.at = @ + Step,
                             !.slot = slot, !.opline = Resumed,
                             !.saved = NULL, !.resume = "next"])
    /\ EndIsolation

\* A post hook returned v, or raised exc.  The result of a hook with a return
\* type replaces the function's; the next hook is shown what return_value
\* points to, which is nothing when the caller does not use the result.
LeavePostHook(v) ==
    /\ At({"posthook"})
    /\ LET slot == IF exc = NULL /\ CurrentHook \in Typed /\ Top.used
                   THEN v ELSE Top.slot
       IN SetTop([Top EXCEPT !.stage = "post", !.at = @ + Step,
                             !.slot = slot, !.shown = slot, !.opline = Resumed,
                             !.saved = NULL, !.resume = "next"])
    /\ EndIsolation

\* The call is over: an exception that is left is raised in its caller.
EndCall ==
    /\ At({"post"}) /\ ~HooksLeft
    /\ LET caller == Len(stack) - 1
       IN stack' = [SubSeq(stack, 1, caller) EXCEPT
                        ![caller] = GoingOn(@, IF exc = NULL THEN "next" ELSE "handler")]
    /\ UNCHANGED exc

-----------------------------------------------------------------------------
Dispatch == SkipHook \/ StartHook \/ EnterBody \/ EndCall

Code ==
    \/ \E f \in Function, a \in Value, used \in BOOLEAN : Call(f, a, used)
    \/ \E e \in Exception \cup {UNWIND} : Raise(e)
    \/ Catch \/ LeaveMain
    \/ StartAside
    \/ \E missing \in BOOLEAN : LeaveAside(missing)
    \/ \E v \in Value \cup {NULL} :
        LeavePreHook(v) \/ LeaveBody(v) \/ LeavePostHook(v)

Next == Dispatch \/ Code

\* The extension's own code runs on; PHP code may loop for ever.
Spec == Init /\ [][Next]_vars /\ WF_vars(Dispatch)

-----------------------------------------------------------------------------
(* Properties.                                                             *)

\* Every variable has its type; the extension (stages "pre" and "post") acts
\* only in the innermost call, never in one that waits for PHP code.
TypeOK ==
    /\ stack \in Seq(Frame) /\ Len(stack) <= MaxDepth
    /\ exc \in Raised
    /\ \A i \in 1..Len(stack) - 1 : stack[i].stage \in CodeStage

\* Where list has hooks that can run.
RunnableAt(list) == {i \in DOMAIN list : list[i] \in Runnable}

\* The hooks run are those of list at positions, once each, from head to tail
\* if forward, and from tail to head if not.
InOrder(run, list, positions, forward) ==
    \E at \in [DOMAIN run -> positions] :
        /\ \A k \in DOMAIN run : run[k] = list[at[k]]
        /\ \A i \in positions : \E k \in DOMAIN run : at[k] = i
        /\ \A k, l \in DOMAIN run :
            k < l => IF forward THEN at[k] < at[l] ELSE at[l] < at[k]

\* Before the body of a function every pre hook that can run has run once, in
\* the order of registration; when the call ends every post hook has, in the
\* opposite order (ext/tests/004.phpt; the example at doc/examples.md:149 has
\* them in the order of registration). Neither depends on how the body, a hook
\* or code that ran aside has ended: exceptions and exit() keep no hook from
\* running but the one whose class failed to load with them.
HooksRunOnceInOrder ==
    LET allRan(list, forward) ==
            InOrder(Top.ran, list, RunnableAt(list) \ Top.missed, forward)
    IN /\ At({"body"}) /\ Top.fn # Main => allRan(Pre[Top.fn], TRUE)
       /\ At({"post"}) /\ ~HooksLeft => allRan(Post[Top.fn], FALSE)

\* A hook is shown what the hooks before it have made of the call: the current
\* arguments, to post hooks too (doc/api-reference.md:46 promises these the
\* original ones), and the result the caller would get if this were the last
\* hook. The exception shown to post hooks is the one that ended the body, for
\* params[3] is read once, before the loop: what code that runs aside raises
\* later goes to the caller but is not shown.
HooksSeeCurrentState ==
    /\ At({"pre", "prehook", "post", "posthook"}) => Top.params = Top.args
    /\ At({"post", "posthook"}) /\ Top.used /\ Top.left = NULL => Top.shown = Top.slot
    /\ At({"post", "posthook"}) => Top.thrown = FuncGetException(Top.left)

\* The body of a function starts at its first instruction though a pre hook
\* raised something, and a call whose hooks raise returns to its caller, or
\* unwinds it, as its body would have done: outside of hooks and of code that
\* runs aside, the frame that is to go on is at its exception handler iff there
\* is an exception.
FramesGoOnAsRaised ==
    /\ At({"pre", "body", "post"}) => (Top.opline = "handler" <=> exc # NULL)
    /\ \A i \in 1..Len(stack) - 1 : stack[i].stage = "body" => stack[i].opline = "next"

\* What the program sees of the stack: the bodies that run below the first
\* hook. A function whose pre hooks run has not been called yet, and one whose
\* post hooks run has not ended, nor has what was raised aside meanwhile.
PlainDepth ==
    CHOOSE n \in 0..Len(stack) :
        /\ \A i \in 1..n : stack[i].stage = "body"
        /\ n < Len(stack) => stack[n + 1].stage # "body"

InPlainCall == PlainDepth < Len(stack) /\ stack[PlainDepth + 1].stage \notin BeginStage

PlainExc ==
    CASE PlainDepth = Len(stack) -> exc
      [] InPlainCall             -> stack[PlainDepth + 1].left
      [] OTHER                   -> NULL

Plain == INSTANCE PlainCalls WITH
    calls <- [i \in 1..(IF InPlainCall THEN PlainDepth + 1 ELSE PlainDepth) |-> stack[i].fn],
    raised <- PlainExc,
    HookedBefore <- {f \in Function : Pre[f] # <<>>},
    HookedAfter <- {f \in Function : Post[f] # <<>>}

\* Hooks are transparent: with the hooks erased, the program calls, returns,
\* throws, catches and exits as PHP programs do. What a hook raises never
\* reaches it, be it at the start of a function, in place of the function's
\* exception or after its return (ext/tests/hooks_throw_exception.phpt; the
\* examples at "README copy.md":221 and doc/examples.md:255, in which a post
\* hook replaces the exception, say otherwise). Only what code raises that runs
\* aside does, as a hooked function begins or ends.
HooksAreTransparent == Plain!Spec

\* What "README copy.md":223 says: "post hook methods can modify an exception
\* thrown from the observed function", by throwing another one, which then is
\* the one on its way.
PostHooksModifyExceptions ==
    [][ At({"posthook"}) /\ Top.left # NULL /\ exc # NULL /\ Top'.stage = "post"
        => exc' = exc ]_vars

\* The loops over the hooks go on until PHP code runs or the call has ended.
LoopsGoOn == At({"pre", "post"}) ~> ~At({"pre", "post"})

=============================================================================
