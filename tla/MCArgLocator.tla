---------------------------- MODULE MCArgLocator ----------------------------
(***************************************************************************)
(* Small calls for ArgLocator.  The arrays of hooks have up to two entries *)
(* for two parameters, what follows them, and what does not exist.         *)
(***************************************************************************)
EXTENDS ArgLocator

User(p, v, t, optional) ==
    [internal |-> FALSE, params |-> p, vars |-> v, temps |-> t, optional |-> optional]

Internal(p, t, optional) ==
    [internal |-> TRUE, params |-> p, vars |-> p, temps |-> t, optional |-> optional]

\* Functions whose only variables are their parameters.
MCShape ==
    {User(0, 0, 1, {}), User(2, 2, 2, {}), User(2, 2, 1, {0, 1}), User(3, 3, 1, {1}),
     Internal(2, 0, {}), Internal(3, 2, {1, 2})}

\* A function with a local variable.
WithLocal == {User(2, 3, 1, {})}

MCPassed == {<<>>, <<"a">>, <<"a", "b">>, <<"a", "b", "c">>, <<"a", "b", "c", "d">>}

Extra == {<<"a", "b", "c">>}

\* tests/009.phpt: two parameters with defaults, and a call without arguments.
TwoOptional == {User(2, 2, 1, {0, 1})}

NoArguments == {<<>>}

E(named, key, value) == [named |-> named, key |-> key, value |-> value]

Keys == {<<FALSE, k>> : k \in -1..5} \cup {<<TRUE, 1>>, <<TRUE, -1>>}

MCReturned ==
    {<<>>}
    \cup {<<E(k[1], k[2], "x")>> : k \in Keys}
    \cup {<<E(k[1], k[2], "x"), E(l[1], l[2], "y")>> : k, l \in Keys}

One == {<<>>} \cup {<<E(FALSE, k, "x")>> : k \in 0..3}
=============================================================================
