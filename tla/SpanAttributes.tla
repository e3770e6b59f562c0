--------------------------- MODULE SpanAttributes ---------------------------
(***************************************************************************)
(* What PHP attributes on a function add to its pre hooks' parameters.  A  *)
(* function, or the method of an interface it implements, may carry        *)
(* WithSpan: its arguments become params[6], and the array named           *)
(* "attributes" among them the beginning of params[7].  Arguments of the   *)
(* call whose parameter carries SpanAttribute are added to params[7].      *)
(*                                                                         *)
(* One call of one function of PHP code is followed, from observer_begin   *)
(* to the function's body and on, as long as a hook keeps what it was      *)
(* given.  refs counts the references to the arguments' values.            *)
(***************************************************************************)
EXTENDS Integers, Sequences, SequencesExt

CONSTANTS
    Callee,     \* The functions that may be called.
    Arguments,  \* The argument lists of calls.
    NULL,       \* No attribute, no name, no method.
    UNNAMED,    \* SpanAttribute without an argument.
    SCALAR,     \* An argument of WithSpan that is no array.
    GARBAGE     \* What memory outside an array of names holds.

IsSequence(s) == s \in Seq(Range(s))

\* An argument of WithSpan: its name or NULL, and its value: SCALAR, or the
\* keys of an array, which differ.
SpanArgument(a) ==
    /\ DOMAIN a = {"name", "value"}
    /\ a.value = SCALAR \/ (IsSequence(a.value) /\ IsInjective(a.value))

\* What a function or method has for WithSpan.
IsSpan(s) == s = NULL \/ (IsSequence(s) /\ \A k \in DOMAIN s : SpanArgument(s[k]))

\* A method of the function's name in an interface: its WithSpan, as a
\* sequence of arguments or NULL, and what its parameters carry: UNNAMED, a
\* key, or NULL.  A function has this too, the names of its variables, of
\* which the parameters are the first, and the methods of its interfaces.
ASSUME CalleeAssumption ==
    \A f \in Callee :
        /\ DOMAIN f = {"span", "marks", "vars", "interfaces"}
        /\ IsSequence(f.marks) /\ IsSequence(f.vars) /\ Len(f.marks) <= Len(f.vars)
        /\ IsSpan(f.span)
        /\ IsSequence(f.interfaces)
        /\ \A k \in DOMAIN f.interfaces :
            \/ f.interfaces[k] = NULL
            \/ /\ DOMAIN f.interfaces[k] = {"span", "marks"}
               /\ IsSpan(f.interfaces[k].span) /\ IsSequence(f.interfaces[k].marks)

\* An argument is captured if its type allows it; it has references of its
\* own if it is counted (literals of the program are not).
ValueTypes == {"string", "int", "float", "bool", "array"}
OtherTypes == {"null", "undef", "object", "reference"}

ASSUME ArgumentAssumption ==
    Arguments \subseteq Seq([type : ValueTypes \cup OtherTypes, counted : BOOLEAN])

VARIABLES
    callee, args,   \* The call.
    enabled,        \* PHOOK_G(attr_hooks_enabled)
    stage,          \* "span", "args", "hooks", "body" or "crashed".
    at,             \* i, in func_get_attribute_args and in func_get_args.
    spanArgs,       \* params[6]: entries [key, from], from an argument of WithSpan.
    attributes,     \* params[7]: entries [key, arg], arg 0 if WithSpan has it.
    refs,           \* The references to the value of each argument.
    kept            \* The entries of params[7] that a hook keeps.

callVars == <<callee, args, enabled>>
vars == <<callee, args, enabled, stage, at, spanArgs, attributes, refs, kept>>

-----------------------------------------------------------------------------
(* Finding attributes.                                                     *)

\* The methods find_function finds in the interfaces.
Methods(f) == {k \in DOMAIN f.interfaces : f.interfaces[k] # NULL}

\* find_withspan_attribute
WithSpan(f) ==
    LET marked == {k \in Methods(f) : f.interfaces[k].span # NULL}
    IN CASE f.span # NULL                   -> f.span
         [] f.span = NULL /\ marked # {}    -> f.interfaces[Min(marked)].span
         [] OTHER                           -> NULL

\* What a sequence of parameters carries at i.
MarkAt(marks, i) == IF i \in DOMAIN marks THEN marks[i] ELSE NULL

\* Fault variant: a mark of the interface goes before one of the function.
SpanAttributeOfInterface(f, i) ==
    LET marked == {k \in Methods(f) : MarkAt(f.interfaces[k].marks, k) # NULL}
    IN IF marked # {} THEN f.interfaces[Min(marked)].marks[Min(marked)] ELSE MarkAt(f.marks, i)

\* find_spanattribute_attribute, for parameter i.  The loop over the
\* interfaces has an i of its own: of the k-th interface it asks for what the
\* k-th parameter carries, whichever parameter the caller means.
SpanAttribute(f, i) ==
    LET marked == {k \in Methods(f) : MarkAt(f.interfaces[k].marks, k) # NULL}
    IN CASE MarkAt(f.marks, i) # NULL                   -> f.marks[i]
         [] MarkAt(f.marks, i) = NULL /\ marked # {}    -> f.interfaces[Min(marked)].marks[Min(marked)]
         [] OTHER                                       -> NULL

\* The name of variable i, read past the end for an extra argument of a
\* function that has no other variables.
VarName(f, i) == IF i \in DOMAIN f.vars THEN f.vars[i] ELSE GARBAGE

Key(f, i) == IF SpanAttribute(f, i) = UNNAMED THEN VarName(f, i) ELSE SpanAttribute(f, i)

\* is_valid_attribute_value
IsValidAttributeValue(value) == value.type \in ValueTypes

-----------------------------------------------------------------------------
(* params[6] and the attributes of WithSpan.                               *)

\* Hash tables have a key once, and keep the order in which keys were added.
HasKey(table, key) == \E n \in DOMAIN table : table[n].key = key
Position(table, key) == CHOOSE n \in DOMAIN table : table[n].key = key
Without(table, key) == IF HasKey(table, key) THEN RemoveAt(table, Position(table, key)) ELSE table

\* Only functions with the attribute have their arguments looked through.
Checking == enabled /\ WithSpan(callee) # NULL

SpanArguments == IF Checking THEN WithSpan(callee) ELSE <<>>

Init ==
    /\ callee \in Callee /\ args \in Arguments /\ enabled \in BOOLEAN
    /\ stage = "span" /\ at = 1
    /\ spanArgs = <<>> /\ attributes = <<>> /\ kept = <<>>
    /\ refs = [i \in DOMAIN args |-> 1]

\* Fault variant: only a name tells the array of attributes.
IsAttributesByName(i) == SpanArguments[i].name = "attributes"

\* The third argument, or the one named so, holds the attributes.
IsAttributes(i) == i = 3 \/ SpanArguments[i].name = "attributes"

\* with_span_attribute_args_keys
ArgumentKeys == <<"name", "span_kind">>

CollectAttributes ==
    /\ stage = "span" /\ at <= Len(SpanArguments)
    /\ IsAttributes(at)
    /\ LET array == SpanArguments[at].value
       IN attributes' = IF array = SCALAR THEN attributes
                        ELSE [n \in DOMAIN array |-> [key |-> array[n], arg |-> 0]]
    /\ at' = at + 1
    /\ UNCHANGED <<callVars, stage, spanArgs, refs, kept>>

\* zend_hash_add leaves a key alone that is there already.
AddSpanArgument(key) ==
    spanArgs' = IF HasKey(spanArgs, key) THEN spanArgs
                ELSE Append(spanArgs, [key |-> key, from |-> at])

CollectSpanArgument ==
    /\ stage = "span" /\ at <= Len(SpanArguments)
    /\ ~IsAttributes(at)
    /\ LET name == SpanArguments[at].name
       IN /\ name # NULL \/ at \in DOMAIN ArgumentKeys
          /\ AddSpanArgument(IF name # NULL THEN name ELSE ArgumentKeys[at])
    /\ at' = at + 1
    /\ UNCHANGED <<callVars, stage, attributes, refs, kept>>

\* A fourth argument without a name reads its key behind the array of names.
ReadBeyondKeys ==
    /\ stage = "span" /\ at <= Len(SpanArguments)
    /\ ~IsAttributes(at) /\ SpanArguments[at].name = NULL
    /\ at \notin DOMAIN ArgumentKeys
    /\ \/ AddSpanArgument(GARBAGE) /\ UNCHANGED stage
       \/ stage' = "crashed" /\ UNCHANGED spanArgs
    /\ at' = at + 1
    /\ UNCHANGED <<callVars, attributes, refs, kept>>

-----------------------------------------------------------------------------
(* params[1] and the arguments that are captured.                          *)

Extra == Len(args) > Len(callee.marks)

\* params[1] gets, or gives back, a reference to the arguments in positions.
Shared(counts, positions, by) ==
    [i \in DOMAIN counts |->
        IF args[i].counted /\ i \in positions THEN counts[i] + by ELSE counts[i]]

\* The entries of a table release the arguments they refer to.
Released(counts, entries) == Shared(counts, {e.arg : e \in entries}, -1)

\* func_get_args.  With more arguments than parameters those of the
\* parameters are put into params[1] first, and are not looked at again.
BeginArgs ==
    /\ stage = "span" /\ at = Len(SpanArguments) + 1
    /\ stage' = "args"
    /\ LET first == IF Extra THEN Len(callee.marks) + 1 ELSE 1
       IN /\ at' = first
          /\ refs' = Shared(refs, 1..first - 1, 1)
    /\ UNCHANGED <<callVars, spanArgs, attributes, kept>>

IsCaptured(i) ==
    Checking /\ SpanAttribute(callee, i) # NULL /\ IsValidAttributeValue(args[i])

\* Fault variant: an argument that has its key already is not replaced.
CaptureArgumentOnce ==
    /\ stage = "args" /\ at <= Len(args) /\ IsCaptured(at)
    /\ attributes' = IF HasKey(attributes, Key(callee, at)) THEN attributes
                     ELSE Append(attributes, [key |-> Key(callee, at), arg |-> at])
    /\ refs' = Shared(refs, {at}, 1)
    /\ at' = at + 1
    /\ UNCHANGED <<callVars, stage, spanArgs, kept>>

\* Fault variant: the entry is appended, and its key never looked for.
CaptureArgumentAgain ==
    /\ stage = "args" /\ at <= Len(args) /\ IsCaptured(at)
    /\ attributes' = Append(attributes, [key |-> Key(callee, at), arg |-> at])
    /\ refs' = Shared(refs, {at}, 1)
    /\ at' = at + 1
    /\ UNCHANGED <<callVars, stage, spanArgs, kept>>

\* zend_hash_del and zend_hash_add: the entry deleted releases its value, the
\* entry added takes no reference.
CaptureArgument ==
    /\ stage = "args" /\ at <= Len(args) /\ IsCaptured(at)
    /\ LET key  == Key(callee, at)
           same == {e \in Range(attributes) : e.key = key}
       IN /\ attributes' = Append(Without(attributes, key), [key |-> key, arg |-> at])
          /\ refs' = Shared(Released(refs, same), {at}, 1)
    /\ at' = at + 1
    /\ UNCHANGED <<callVars, stage, spanArgs, kept>>

PassArgument ==
    /\ stage = "args" /\ at <= Len(args) /\ ~IsCaptured(at)
    /\ refs' = Shared(refs, {at}, 1)
    /\ at' = at + 1
    /\ UNCHANGED <<callVars, stage, spanArgs, attributes, kept>>

BeginHooks ==
    /\ stage = "args" /\ at = Len(args) + 1
    /\ stage' = "hooks"
    /\ UNCHANGED <<callVars, at, spanArgs, attributes, refs, kept>>

-----------------------------------------------------------------------------
(* The hooks, and what comes after them.                                   *)

\* A pre hook may keep the array it is given.  params[1] is released and built
\* again after each one, with the same arguments here.
RunHook ==
    /\ stage = "hooks"
    /\ \E keeps \in BOOLEAN : kept' = IF keeps THEN attributes ELSE kept
    /\ UNCHANGED <<callVars, stage, at, spanArgs, attributes, refs>>

\* Fault variant: params[1] is not destroyed for a hook that keeps params[7].
EnterBodyKeeping ==
    /\ stage = "hooks"
    /\ stage' = "body"
    /\ refs' = IF kept = <<>> THEN Released(Shared(refs, DOMAIN args, -1), Range(attributes)) ELSE refs
    /\ UNCHANGED <<callVars, at, spanArgs, attributes, kept>>

\* The params are destroyed; params[7] with its values, unless a hook keeps it.
EnterBody ==
    /\ stage = "hooks"
    /\ stage' = "body"
    /\ LET released == Shared(refs, DOMAIN args, -1)
       IN refs' = IF kept = <<>> THEN Released(released, Range(attributes)) ELSE released
    /\ UNCHANGED <<callVars, at, spanArgs, attributes, kept>>

\* The hook's array is destroyed.
Forget ==
    /\ stage = "body" /\ kept # <<>>
    /\ refs' = Released(refs, Range(kept))
    /\ kept' = <<>>
    /\ UNCHANGED <<callVars, stage, at, spanArgs, attributes>>

Collect ==
    \/ CollectAttributes \/ CollectSpanArgument \/ ReadBeyondKeys
    \/ BeginArgs \/ CaptureArgument \/ PassArgument \/ BeginHooks

Next == Collect \/ RunHook \/ EnterBody \/ Forget

Spec == Init /\ [][Next]_vars

-----------------------------------------------------------------------------
(* Properties.                                                             *)

Collected == stage \in {"hooks", "body"}

\* Every variable has its type, and a table has a key at most once.
TypeOK ==
    /\ callee \in Callee /\ args \in Arguments /\ enabled \in BOOLEAN
    /\ stage \in {"span", "args", "hooks", "body", "crashed"}
    /\ at \in 1..Len(SpanArguments) + Len(args) + 1
    /\ \A n, m \in DOMAIN attributes : attributes[n].key = attributes[m].key => n = m
    /\ \A n, m \in DOMAIN spanArgs : spanArgs[n].key = spanArgs[m].key => n = m
    /\ \A n \in DOMAIN attributes : attributes[n].arg \in 0..Len(args)
    /\ refs \in [DOMAIN args -> Int]
    /\ kept \in {<<>>, attributes}

\* The array of attributes that WithSpan is given.
GivenAttributes ==
    LET arrays == {k \in DOMAIN SpanArguments :
                      IsAttributes(k) /\ SpanArguments[k].value # SCALAR}
    IN IF arrays = {} THEN <<>> ELSE SpanArguments[Max(arrays)].value

\* The parameters of a function that carry SpanAttribute and whose argument
\* has a type that allows it.  mark(i) is what parameter i carries.
Wanted(mark(_)) ==
    IF ~Checking THEN {}
    ELSE {i \in DOMAIN args :
            i \in DOMAIN callee.marks /\ mark(i) # NULL /\ IsValidAttributeValue(args[i])}

\* The attributes to expect: those of WithSpan that no argument replaces, and
\* the arguments, each under its name or its parameter's; of several under one
\* name the last counts.
Expected(mark(_)) ==
    LET name(i) == IF mark(i) = UNNAMED THEN callee.vars[i] ELSE mark(i)
        last    == {i \in Wanted(mark) : \A j \in Wanted(mark) : name(i) = name(j) => j <= i}
    IN {[key |-> k, arg |-> 0] : k \in Range(GivenAttributes) \ {name(i) : i \in last}}
        \cup {[key |-> name(i), arg |-> i] : i \in last}

\* The order of params[7]: those of WithSpan as given, the arguments thereafter.
Precedes(e, d) ==
    \/ e.arg < d.arg
    \/ /\ e.arg = 0 /\ d.arg = 0
       /\ \E a, b \in DOMAIN GivenAttributes :
            a < b /\ GivenAttributes[a] = e.key /\ GivenAttributes[b] = d.key

\* params[7] is what is to be expected, in order.
AreCollected(mark(_)) ==
    /\ Range(attributes) = Expected(mark)
    /\ \A n, m \in DOMAIN attributes : n < m => Precedes(attributes[n], attributes[m])

OwnMark(i) == MarkAt(callee.marks, i)

\* Of a function whose parameters alone carry SpanAttribute, called without
\* extra arguments, params[7] holds what the attributes say, in order:
\* SpanAttribute replaces entries of WithSpan and of earlier parameters.
OwnAttributesAreCollected ==
    /\ Collected /\ ~Extra
    /\ \A k \in Methods(callee) : \A i \in DOMAIN callee.interfaces[k].marks :
        callee.interfaces[k].marks[i] = NULL
    => AreCollected(OwnMark)

\* The hooks find the other arguments of WithSpan in params[6], in order, each
\* under the name it was given or else that of its position, and of two under
\* one name the first; unless one that is not "attributes" is named third: that
\* one is lost.
SpanArgumentsKeepTheirNames ==
    LET others  == {k \in DOMAIN SpanArguments : k < 3 /\ SpanArguments[k].name # "attributes"}
        name(k) == IF SpanArguments[k].name = NULL THEN ArgumentKeys[k]
                   ELSE SpanArguments[k].name
        first   == {k \in others : \A j \in others : name(j) = name(k) => k <= j}
    IN  /\ Collected /\ Len(SpanArguments) <= 3
        /\ 3 \in DOMAIN SpanArguments => SpanArguments[3].name \in {NULL, "attributes"}
        => /\ Range(spanArgs) = {[key |-> name(k), from |-> k] : k \in first}
           /\ \A n, m \in DOMAIN spanArgs : n < m => spanArgs[n].from < spanArgs[m].from

\* What a parameter carries itself is never lost to an interface: its argument
\* is captured, unless a later one takes its key.
OwnMarksCount ==
    Collected /\ ~Extra =>
        \A i \in Wanted(OwnMark) : \E n \in DOMAIN attributes :
            /\ attributes[n].key = IF OwnMark(i) = UNNAMED THEN callee.vars[i] ELSE OwnMark(i)
            /\ attributes[n].arg >= i

\* An argument that is not captured has after the hooks, whatever they kept,
\* the references it had before.
OthersKeepReferences ==
    stage = "body" =>
        \A i \in DOMAIN args : ~IsCaptured(i) => refs[i] = 1

-----------------------------------------------------------------------------
(* What a comment of the code says, and the code does not do.              *)

\* What parameter i carries itself or in an interface.
AnyMark(i) ==
    LET marked == {k \in Methods(callee) : MarkAt(callee.interfaces[k].marks, i) # NULL}
    IN IF OwnMark(i) # NULL \/ marked = {} THEN OwnMark(i)
       ELSE callee.interfaces[Min(marked)].marks[i]

\* phook_observer.c: a SpanAttribute is found "on a parameter, or on a parameter
\* of an interface".
InterfaceAttributesAreCollected ==
    Collected /\ ~Extra => AreCollected(AnyMark)

=============================================================================
