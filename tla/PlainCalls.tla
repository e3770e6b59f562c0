----------------------------- MODULE PlainCalls -----------------------------
(***************************************************************************)
(* A PHP thread seen without its hooks: functions call each other, return, *)
(* throw exceptions, catch them and exit. HookDispatch implements it:      *)
(* hooks do not change which functions run, and no exception of theirs     *)
(* reaches the program. What does reach it is what PHP code raises that    *)
(* the extension runs for itself, around hooks: an Interruption, as a      *)
(* hooked function begins or ends.                                         *)
(***************************************************************************)
EXTENDS Naturals, Sequences

CONSTANTS Function,     \* The functions a program calls.
          Main,         \* The main script.
          HookedBefore, \* The functions that have pre hooks.
          HookedAfter,  \* The functions that have post hooks.
          Exception,    \* What can be thrown.
          UNWIND,       \* exit(): unwinds like an exception, is never caught.
          NULL

VARIABLES calls,        \* The running functions, the innermost one last.
          raised        \* The exception on its way to a handler, or NULL.

vars == <<calls, raised>>

\* An exception is what was thrown, and by whom.
Interruption == [what : Exception \cup {UNWIND}, by : {"aside"}]

Init == calls = <<Main>> /\ raised = NULL

Running == calls # <<>>

Call(f) ==
    /\ Running /\ raised = NULL
    /\ calls' = Append(calls, f)
    /\ \/ UNCHANGED raised
       \/ f \in HookedBefore /\ raised' \in Interruption

Raise(e) ==
    /\ Running /\ raised = NULL
    /\ raised' = [what |-> e, by |-> "code"]
    /\ UNCHANGED calls

Catch ==
    /\ Running /\ raised # NULL /\ raised.what \in Exception
    /\ raised' = NULL
    /\ UNCHANGED calls

\* The innermost function ends; an exception it did not catch stays raised.
Leave ==
    /\ Running
    /\ calls' = SubSeq(calls, 1, Len(calls) - 1)
    /\ \/ UNCHANGED raised
       \/ calls[Len(calls)] \in HookedAfter /\ raised' \in Interruption

Next ==
    \/ \E f \in Function : Call(f)
    \/ \E e \in Exception \cup {UNWIND} : Raise(e)
    \/ Catch \/ Leave

Spec == Init /\ [][Next]_vars

=============================================================================
