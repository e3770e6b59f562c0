---------------------------- MODULE HookContract ----------------------------
(***************************************************************************)
(* What registration promises to the scripts that call \Phook\hook().      *)
(*                                                                         *)
(* A function that is called for the first time in a request is bound to   *)
(* the hooks registered so far under its name, or, for a method, under the *)
(* name of its class, a parent or an interface; names are compared without *)
(* regard to case, and every such registration counts exactly once, however*)
(* often the hierarchy mentions the type.  The binding then holds until    *)
(* the request ends: later registrations do not change it.  A function     *)
(* first called while the extension has no tables is bound to nothing.     *)
(*                                                                         *)
(* The contract knows nothing of hash tables, keys, memory or the walk     *)
(* through the class hierarchy; ObserverRegistry implements it.            *)
(***************************************************************************)
EXTENDS Integers, FiniteSets, Sequences

CONSTANTS Name, Lower, FunctionTable, Callee, Home, Own, Parent, Interfaces,
          WithSpan, Hook, AttrPre, AttrPost, Registration, NULL

VARIABLES
    open,       \* The request can register hooks.
    promised,   \* The registrations of this request.
    settled,    \* The functions whose binding is fixed.
    bound       \* bound[f]: how often each hook runs for f.

vars == <<open, promised, settled, bound>>

Range(s) == {s[i] : i \in DOMAIN s}

\* The types directly above c.
Above(c) == Range(Interfaces[c]) \cup ({Parent[c]} \ {NULL})

\* c and every type above it: the least set with c closed under Above.
Ancestors ==
    [c \in Name |->
        {d \in Name : \A S \in SUBSET Name :
            (c \in S /\ \A e \in S : Above(e) \subseteq S) => d \in S}]

Types(f) == IF Home[f] = FunctionTable THEN {Own[f]} ELSE Ancestors[Own[f]]

\* The registrations that apply to f.
Applying(f) ==
    {r \in promised : /\ r.table = Home[f]
                      /\ \E c \in Types(f) : Lower[r.name] = Lower[c]}

Binding(f) ==
    [pre  |-> [h \in Hook |-> Cardinality({r \in Applying(f) : r.pre = h})],
     post |-> [h \in Hook |-> Cardinality({r \in Applying(f) : r.post = h})]]

NoHooks == [pre |-> [h \in Hook |-> 0], post |-> [h \in Hook |-> 0]]

Init ==
    /\ open = FALSE
    /\ promised = {} /\ settled = {}
    /\ bound = [f \in Callee |-> NoHooks]

Begin ==
    /\ ~open
    /\ promised' = {} /\ settled' = {}
    /\ UNCHANGED <<open, bound>>

Open ==
    /\ ~open
    /\ open' = TRUE
    /\ UNCHANGED <<promised, settled, bound>>

Promise(r) ==
    /\ open
    /\ promised' = promised \cup {r}
    /\ UNCHANGED <<open, settled, bound>>

\* The attribute counts as a registration of the configured hooks, for a
\* function that has no hooks otherwise.
PromiseByAttribute(f) ==
    /\ f \in WithSpan \ settled
    /\ Binding(f) = NoHooks
    /\ Promise([table |-> Home[f], name |-> Own[f], pre |-> AttrPre, post |-> AttrPost])

Settle(f) ==
    /\ f \notin settled
    /\ settled' = settled \cup {f}
    /\ bound' = IF open THEN [bound EXCEPT ![f] = Binding(f)] ELSE bound
    /\ UNCHANGED <<open, promised>>

Close ==
    /\ open
    /\ open' = FALSE
    /\ bound' = [f \in Callee |-> NoHooks]
    /\ UNCHANGED <<promised, settled>>

Next ==
    \/ Begin \/ Open \/ Close
    \/ \E r \in Registration : Promise(r)
    \/ \E f \in Callee : PromiseByAttribute(f) \/ Settle(f)

Spec == Init /\ [][Next]_vars

=============================================================================
