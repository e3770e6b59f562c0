--------------------------- MODULE HookAdmission ---------------------------
(***************************************************************************)
(* Whether a hook gets to run.  Three checks stand before it: at startup   *)
(* check_conflicts disables the extension if one that phook.conflicts      *)
(* lists is loaded; hook() drops what is no closure and, if                *)
(* phook.validate_hook_functions is on, what is_valid_signature rejects,   *)
(* asked with a null for every parameter; and before each call             *)
(* is_valid_signature is asked again, with the values the hook is given.   *)
(*                                                                         *)
(* One hook is followed from hook(), or from an attribute, to its calls.   *)
(* PHP's own check of the arguments of a call comes last: if it fails the  *)
(* hook raises a TypeError, which HookDispatch isolates.  It is modelled   *)
(* without the conversions between scalars of PHP's weak mode.             *)
(***************************************************************************)
EXTENDS Integers, Sequences

CONSTANTS
    Conflicts,  \* The values of phook.conflicts, as sequences of characters.
    Separator,  \* The characters that separate the names of the list.
    Loaded,     \* The names of the extensions that are loaded.
    Closure,    \* The closures a script passes to hook().
    Handler,    \* The hooks that attributes bring along.
    Given,      \* The lists of values that a hook may be given.
    Class       \* The classes; an object is represented by its class.

\* A value is null, or has a scalar type, or is an array or an object.
Value == {"null", "string", "int", "array"} \cup Class

\* A type is a set of bits, of which "object" and the classes are about
\* objects; a parameter without a type has none.
Type == SUBSET (Value \cup {"object"})

\* kind: a closure, some other value, the default handler of attributes, a
\* handler of the script, or the name of no function.
HookValue ==
    [kind : {"closure", "other", "handler", "callable", "missing"}, params : Seq(Type)]

ASSUME InputAssumption ==
    /\ Class \cap {"null", "string", "int", "array", "object"} = {}
    /\ \A list \in Conflicts : list \in Seq({list[i] : i \in DOMAIN list})
    /\ Closure \subseteq HookValue /\ Handler \subseteq HookValue
    /\ \A h \in Closure : h.kind \in {"closure", "other"}
    /\ \A h \in Handler : h.kind \in {"handler", "callable", "missing"}
    /\ Given \subseteq Seq(Value)

VARIABLES
    stage,      \* "startup", then "running".
    input,      \* input: the list, while it is read.
    at, start,  \* e and s: the character, and where the name began (0: nowhere).
    found,      \* conflict_found
    disabled,   \* PHOOK_G(disabled)
    validate,   \* PHOOK_G(validate_hook_functions)
    hook,       \* What hook() was given or an attribute named: a set of one, or {}.
    stored,     \* Whether the registry has it: hook() may have dropped it.
    given,      \* The values of the last call.
    outcome     \* What became of the hook in it.

scanVars == <<input, at, start, found>>
vars == <<stage, input, at, start, found, disabled, validate, hook, stored, given, outcome>>

Init ==
    /\ stage = "startup"
    /\ input \in Conflicts /\ at = 1 /\ start = 0 /\ found = FALSE
    /\ disabled = FALSE /\ validate \in BOOLEAN
    /\ hook = {} /\ stored = FALSE
    /\ given = <<>> /\ outcome = "none"

-----------------------------------------------------------------------------
(* Startup: the list of conflicts.                                         *)

\* check_conflict, for the characters of the list from a to b.
CheckConflict(a, b) == SubSeq(input, a, b) \in Loaded

\* Fault variant: the last name is only checked if a separator ends it.
LastNameUnchecked == found

\* The name that the end of the list ends.
LastName == found \/ (start # 0 /\ CheckConflict(start, Len(input)))

\* Fault variant: the next name seems to have begun where the last one did.
ScanSeparatorKeepingStart ==
    /\ stage = "startup" /\ at <= Len(input)
    /\ input[at] \in Separator
    /\ found' = (found \/ (start # 0 /\ CheckConflict(start, at - 1)))
    /\ at' = at + 1
    /\ UNCHANGED <<stage, input, start, disabled, validate, hook, stored, given, outcome>>

\* A separator ends the name that has begun, if one has.
ScanSeparator ==
    /\ stage = "startup" /\ at <= Len(input)
    /\ input[at] \in Separator
    /\ found' = (found \/ (start # 0 /\ CheckConflict(start, at - 1)))
    /\ start' = 0 /\ at' = at + 1
    /\ UNCHANGED <<stage, input, disabled, validate, hook, stored, given, outcome>>

ScanCharacter ==
    /\ stage = "startup" /\ at <= Len(input)
    /\ input[at] \notin Separator
    /\ start' = (IF start = 0 THEN at ELSE start) /\ at' = at + 1
    /\ UNCHANGED <<stage, input, found, disabled, validate, hook, stored, given, outcome>>

\* The observer is registered with the engine unless disabled is set.
EndScan ==
    /\ stage = "startup" /\ at > Len(input)
    /\ stage' = "running"
    /\ disabled' = LastName
    /\ input' = <<>> /\ at' = 1 /\ start' = 0 /\ found' = FALSE
    /\ UNCHANGED <<validate, hook, stored, given, outcome>>

-----------------------------------------------------------------------------
(* The check of a signature.                                               *)

\* is_object_compatible_with_type_hint compares an object with its own class.
IsCompatible(value) == value \in Class

ParameterFits(type, value) == type = {} \/ IsCompatible(value) \/ value \in type

TakesArraySecond(params) == Len(params) >= 2 /\ "array" \in params[2]

\* Fault variant: every parameter is checked, the second one like the others.
IsValidSignatureOfAll(params, values) ==
    \/ ~validate
    \/ params = <<>>
    \/ /\ Len(params) >= 2
       /\ \A i \in DOMAIN params \cap DOMAIN values : ParameterFits(params[i], values[i])

\* Fault variant: the loop leaves the last parameter out.
IsValidSignatureButLast(params, values) ==
    \/ ~validate
    \/ params = <<>>
    \/ TakesArraySecond(params)
    \/ /\ Len(params) >= 2
       /\ \A i \in DOMAIN params \cap DOMAIN values :
            i < Len(params) => ParameterFits(params[i], values[i])

\* Nothing is known of the hook but its parameters, nor asked if the second
\* takes an array.
IsValidSignature(params, values) ==
    \/ ~validate
    \/ params = <<>>
    \/ TakesArraySecond(params)
    \/ /\ Len(params) >= 2
       /\ \A i \in DOMAIN params \cap DOMAIN values : ParameterFits(params[i], values[i])

-----------------------------------------------------------------------------
(* Requests.                                                               *)

\* ini_set; the last call is forgotten.
IniSet ==
    /\ stage = "running"
    /\ validate' = ~validate
    /\ given' = <<>> /\ outcome' = "none"
    /\ UNCHANGED <<stage, scanVars, disabled, hook, stored>>

EnsureClosureOrNull(h) == h.kind = "closure"

\* validate_hook: no values are known yet, each parameter is given a null.
ValidateHook(h) == IsValidSignature(h.params, [i \in DOMAIN h.params |-> "null"])

HookCall(h) ==
    /\ stage = "running" /\ hook = {}
    /\ hook' = {h}
    /\ stored' = (EnsureClosureOrNull(h) /\ ValidateHook(h))
    /\ UNCHANGED <<stage, scanVars, disabled, validate, given, outcome>>

\* Attribute hooks are on: the handlers, whose names are those of functions that
\* may or may not exist, are registered without a look at their signatures.
UseAttribute(h) ==
    /\ stage = "running" /\ ~disabled /\ hook = {}
    /\ hook' = {h} /\ stored' = TRUE
    /\ UNCHANGED <<stage, scanVars, disabled, validate, given, outcome>>

\* The hook is called by its observer: the default handlers are not checked.
IsCallable(h) == h.kind # "missing"
IsAdmitted(h, values) == h.kind = "handler" \/ IsValidSignature(h.params, values)

\* The type check of PHP for one parameter, and for a whole call.
Accepts(type, value) ==
    type = {} \/ value \in type \/ (value \in Class /\ "object" \in type)
Fits(h, values) ==
    /\ Len(h.params) <= Len(values)
    /\ \A i \in DOMAIN h.params : Accepts(h.params[i], values[i])

\* A call of the function, of whose observer nothing is seen.
CallUnobserved(values) ==
    /\ stage = "running" /\ hook # {}
    /\ disabled \/ ~stored
    /\ given' = values /\ outcome' = "unobserved"
    /\ UNCHANGED <<stage, scanVars, disabled, validate, hook, stored>>

SkipHook(h, values) ==
    /\ stored /\ ~disabled
    /\ ~IsCallable(h) \/ ~IsAdmitted(h, values)
    /\ given' = values /\ outcome' = "skipped"
    /\ UNCHANGED <<stage, scanVars, disabled, validate, hook, stored>>

RunHook(h, values) ==
    /\ stored /\ ~disabled
    /\ IsCallable(h) /\ IsAdmitted(h, values)
    /\ given' = values /\ outcome' = IF Fits(h, values) THEN "ran" ELSE "TypeError"
    /\ UNCHANGED <<stage, scanVars, disabled, validate, hook, stored>>

Startup == ScanSeparator \/ ScanCharacter \/ EndScan

Next ==
    \/ Startup
    \/ IniSet
    \/ \E h \in Closure : HookCall(h)
    \/ \E h \in Handler : UseAttribute(h)
    \/ \E values \in Given :
        \/ CallUnobserved(values)
        \/ \E h \in hook : SkipHook(h, values) \/ RunHook(h, values)

Spec == Init /\ [][Next]_vars

-----------------------------------------------------------------------------
(* Properties.                                                             *)

\* Every variable has its type; the loop over the list stays within it, and a
\* name has begun where its characters are.
TypeOK ==
    /\ stage \in {"startup", "running"}
    /\ at \in 1..Len(input) + 1 /\ start \in 0..at - 1
    /\ start # 0 => \A i \in start..at - 1 : input[i] \notin Separator
    /\ found \in BOOLEAN /\ disabled \in BOOLEAN /\ validate \in BOOLEAN
    /\ hook \subseteq Closure \cup Handler /\ stored \in BOOLEAN
    /\ given \in Given \cup {<<>>}
    /\ outcome \in {"none", "unobserved", "skipped", "ran", "TypeError"}

\* The characters from a to b of a list are one of its names.
IsName(list, a, b) ==
    /\ \A i \in a..b : list[i] \notin Separator
    /\ a = 1 \/ list[a - 1] \in Separator
    /\ b = Len(list) \/ list[b + 1] \in Separator

\* The extension is disabled iff a name of phook.conflicts is that of a loaded
\* extension: the first and the last one too, and whatever separators stand
\* before, between and after them (check_conflicts).
DisabledByConflicts ==
    [][stage # stage' =>
        (disabled' <=> \E a \in DOMAIN input : \E b \in a..Len(input) :
            IsName(input, a, b) /\ SubSeq(input, a, b) \in Loaded)]_vars

\* A closure of the documented form, with an array as its second parameter or
\* without parameters, runs in every call whose values it accepts: neither the
\* nulls it is checked with in hook(), which its other parameters may refuse,
\* nor an ini_set() before or after hook() keeps it from running.
DocumentedHooksRun ==
    \A h \in hook :
        /\ outcome # "none" /\ ~disabled
        /\ h.kind = "closure" /\ (h.params = <<>> \/ TakesArraySecond(h.params))
        /\ Fits(h, given)
        => outcome = "ran"

\* A hook that was checked raises a TypeError only where the check does not
\* look: it declares its second parameter an array, or is given an object of
\* the wrong class, or has more parameters than there are values.
ChecksCatchTheRest ==
    \A h \in hook :
        outcome = "TypeError" /\ validate /\ h.kind # "handler" =>
            \/ TakesArraySecond(h.params)
            \/ Len(h.params) > Len(given)
            \/ \E i \in DOMAIN h.params :
                given[i] \in Class /\ ~Accepts(h.params[i], given[i])

=============================================================================
