---------------------------- MODULE ArgumentList ----------------------------
(***************************************************************************)
(* What the arrays returned by pre hooks promise to make of a call's       *)
(* arguments: a list.  Entries are taken one by one.  Arguments the call   *)
(* or the function's definition provides for can always be set; beyond     *)
(* them the list grows by what room there is when the hook returns.  When  *)
(* an argument is set past the end, those between are left open, and get   *)
(* their default, or null, before the body runs.  ArgLocator implements it.*)
(***************************************************************************)
EXTENDS Integers, Sequences

CONSTANTS Shape, Value, Returned, Limit, DEFAULT, NULL, UNDEF

VARIABLES function, args, todo, base, room

vars == <<function, args, todo, base, room>>

Larger(m, n) == IF m > n THEN m ELSE n

Init ==
    /\ function \in Shape /\ args \in Seq(Value)
    /\ todo = <<>> /\ base = 0 /\ room = 0

\* A pre hook returns an array.  A function of the engine provides for the
\* arguments of the call only.
HookReturns ==
    /\ todo = <<>>
    /\ todo' \in Returned
    /\ base' = IF function.internal THEN Len(args) ELSE Larger(Len(args), function.params)
    /\ room' \in 0..Limit
    /\ UNCHANGED <<function, args>>

\* The argument an entry is meant for, or none.
IsFor(entry, i) ==
    /\ i = entry.key
    /\ i >= 0
    /\ entry.named => i < function.params

\* The list with the argument numbered i, from 0, set to v.
Put(i, v) ==
    [j \in 1..Larger(Len(args), i + 1) |->
        IF j = i + 1 THEN v ELSE IF j <= Len(args) THEN args[j] ELSE UNDEF]

Take ==
    /\ todo # <<>>
    /\ \E i \in 0..base + room - 1 :
        /\ IsFor(Head(todo), i)
        /\ args' = Put(i, Head(todo).value)
    /\ todo' = Tail(todo)
    /\ UNCHANGED <<function, base, room>>

Refuse ==
    /\ todo # <<>>
    /\ \A i \in 0..base + room - 1 : ~IsFor(Head(todo), i)
    /\ todo' = Tail(todo)
    /\ UNCHANGED <<function, args, base, room>>

Open(i) == args[i] = UNDEF

\* The engine fills open arguments in order; one without a default ends the
\* search for defaults.
EnterBody ==
    /\ todo = <<>>
    /\ args' = [i \in DOMAIN args |->
                    IF ~Open(i) THEN args[i]
                    ELSE IF \A j \in 1..i : Open(j) => j - 1 \in function.optional
                    THEN DEFAULT ELSE NULL]
    /\ UNCHANGED <<function, todo, base, room>>

Next == HookReturns \/ Take \/ Refuse \/ EnterBody

Spec == Init /\ [][Next]_vars

=============================================================================
