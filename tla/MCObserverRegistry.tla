------------------------- MODULE MCObserverRegistry -------------------------
(***************************************************************************)
(* A small program for ObserverRegistry: a function foo, declared as Foo   *)
(* and hooked as fOO or foo, and a method run of a class Sub with a parent *)
(* Base, both of which implement the interface Io.                         *)
(***************************************************************************)
EXTENDS ObserverRegistry, TLC

MCName == {"Foo", "fOO", "foo", "Sub", "sub", "Base", "base", "Io", "io"}

MCLower ==
    [n \in MCName |->
        CASE n \in {"Foo", "fOO", "foo"} -> "foo"
          [] n \in {"Sub", "sub"}        -> "sub"
          [] n \in {"Base", "base"}      -> "base"
          [] n \in {"Io", "io"}          -> "io"]

MCCallee == {"Foo()", "Sub::run", "Base::run"}

MCHome == [f \in Callee |-> IF f = "Foo()" THEN "functions" ELSE "run"]

MCOwn == [f \in Callee |->
    CASE f = "Foo()" -> "Foo" [] f = "Sub::run" -> "Sub" [] f = "Base::run" -> "Base"]

MCParent == [n \in MCName |-> IF n = "Sub" THEN "Base" ELSE NULL]

MCInterfaces == [n \in MCName |-> IF n \in {"Sub", "Base"} THEN <<"Io">> ELSE <<>>]

Reg(t, n, p, q) == [table |-> t, name |-> n, pre |-> p, post |-> q]

\* Scripts that register each name once, and never in lower case.
DisciplinedCalls ==
    {Reg("functions", "fOO", "h1", "h2"), Reg("run", "Io", "h1", NULL),
     Reg("run", "Sub", "h3", "h2")}

\* A script that registers two pairs of hooks for one function.
TwoPairs == {Reg("functions", "Foo", "h1", "h1"), Reg("functions", "Foo", "h2", "h2")}

\* A script that hooks the interface only.
InterfaceCalls == {Reg("run", "Io", "h1", "h2")}

\* A script that writes the name of a function in lower case.
LowercaseCalls == {Reg("functions", "foo", "h1", "h2")}

Addresses == Permutations(Addr)
=============================================================================
