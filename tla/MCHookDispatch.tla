--------------------------- MODULE MCHookDispatch ---------------------------
(***************************************************************************)
(* A small program for HookDispatch: f has two pre and two post hooks that *)
(* can run, with one between them that cannot; the first of each may have  *)
(* to be loaded, and one post hook has a return type.  g has no hooks.     *)
(* Hooks, bodies and code that runs aside call f and g.                    *)
(***************************************************************************)
EXTENDS HookDispatch

MCPre  == [x \in Function |-> IF x = "f" THEN <<"h1", "bad", "h2">> ELSE <<>>]
MCPost == [x \in Function |-> IF x = "f" THEN <<"h3", "bad", "h4">> ELSE <<>>]
=============================================================================
