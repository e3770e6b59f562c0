-------------------------- MODULE MCHookAdmission --------------------------
(***************************************************************************)
(* Small inputs for HookAdmission: all lists of up to five characters,     *)
(* closures of up to three parameters over seven types and some of four,   *)
(* and the first three values a hook of a function, a method or a static   *)
(* method is given: the third is a class name, null or a result.           *)
(***************************************************************************)
EXTENDS HookAdmission, SequencesExt

MCConflicts == BoundedSeq({"a", "b", ",", " "}, 5)

\* An extension whose name is the beginning of another one's.
MCLoaded == {<<"a">>, <<"b", "a">>, <<"b", "a", "b">>}

Mixed == {"null", "string", "int", "array", "object"}

Types == {{}, {"array"}, {"string"}, {"null", "string"}, {"Foo"}, {"object"}, Mixed}

MCClosure ==
    {[kind |-> "closure", params |-> p] :
        p \in BoundedSeq(Types, 3) \cup TupleOf({{}, {"Foo"}, Mixed}, 4)}
        \cup {[kind |-> "other", params |-> <<>>]}

MCHandler ==
    {[kind |-> k, params |-> p] :
        k \in {"handler", "callable", "missing"}, p \in BoundedSeq({{}, {"array"}, {"string"}}, 2)}

MCGiven ==
    {<<"null", "array", "null">>, <<"Foo", "array", "string">>,
     <<"string", "array", "string">>, <<"Bar", "array", "int">>,
     <<"null", "array", "Foo">>}
=============================================================================
