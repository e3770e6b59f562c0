-------------------------- MODULE MCSpanAttributes --------------------------
(***************************************************************************)
(* Small functions for SpanAttributes: two parameters $one and $two, with  *)
(* or without a further variable, and the attributes they may carry        *)
(* themselves and in up to two interfaces.                                 *)
(***************************************************************************)
EXTENDS SpanAttributes, SequencesExt

Positional(v) == [name |-> NULL, value |-> v]
Named(n, v)   == [name |-> n, value |-> v]

\* The arguments WithSpan may have: in the order of its constructor, by name
\* in another order, and one too many.
Spans ==
    {<<>>,
     <<Positional(SCALAR)>>,
     <<Positional(SCALAR), Positional(SCALAR), Positional(<<"key", "one">>)>>,
     <<Named("attributes", <<"two">>)>>,
     <<Positional(SCALAR), Named("attributes", <<"key", "two">>), Named("span_kind", SCALAR)>>,
     <<Positional(SCALAR), Positional(SCALAR), Positional(<<"one">>), Positional(SCALAR)>>}

MethodsOfInterface ==
    {[span |-> s, marks |-> m] :
        s \in {NULL, <<>>}, m \in {<<NULL, NULL>>, <<"key", NULL>>, <<NULL, UNNAMED>>}}

MCCallee ==
    [span       : Spans \cup {NULL},
     marks      : TupleOf({NULL, UNNAMED, "key"}, 2),
     vars       : {<<"one", "two">>, <<"one", "two", "local">>},
     interfaces : {<<>>}
                    \cup {<<m>> : m \in MethodsOfInterface}
                    \cup {<<NULL, m>> : m \in {n \in MethodsOfInterface : n.span = <<>>}}]

Arg(t, c) == [type |-> t, counted |-> c]

\* Arguments of both kinds of types, up to one more than there are parameters.
MCArguments ==
    BoundedSeq({Arg("string", TRUE), Arg("int", FALSE), Arg("reference", TRUE)}, 2)
        \cup {<<a, Arg("int", FALSE), Arg("string", TRUE)>> :
                a \in {Arg("string", TRUE), Arg("null", FALSE)}}
=============================================================================
