------------------------ MODULE HookAdmission_proofs ------------------------
(***************************************************************************)
(* The list of conflicts is read rightly, hooks of the documented form     *)
(* always run, and a checked hook raises a TypeError only where the check  *)
(* does not look: proved for all lists, closures, types and values.        *)
(***************************************************************************)
EXTENDS HookAdmission, TLAPS

-----------------------------------------------------------------------------
(* The list.                                                               *)

\* A name that ends before position e is that of a loaded extension.
FoundBefore(e) ==
    \E a \in DOMAIN input : \E b \in a..e - 1 :
        IsName(input, a, b) /\ SubSeq(input, a, b) \in Loaded

\* start is where the name that at is in has begun, and 0 if at is in none;
\* found tells of the names that have ended.
ScanInv ==
    /\ Len(input) \in Nat /\ DOMAIN input = 1..Len(input)
    /\ at \in 1..Len(input) + 1 /\ start \in 0..at - 1
    /\ found \in BOOLEAN
    /\ start = 0 => at = 1 \/ input[at - 1] \in Separator
    /\ start # 0 =>
        /\ start = 1 \/ input[start - 1] \in Separator
        /\ \A i \in start..at - 1 : input[i] \notin Separator
    /\ found <=> FoundBefore(at - 1)

LEMMA ListIsSequence ==
    ASSUME NEW list \in Conflicts
    PROVE  Len(list) \in Nat /\ DOMAIN list = 1..Len(list)
  BY InputAssumption

LEMMA InitScan == Init => ScanInv
<1> SUFFICES ASSUME Init PROVE ScanInv
  OBVIOUS
<1>1. Len(input) \in Nat /\ DOMAIN input = 1..Len(input)
  BY ListIsSequence DEF Init
<1>2. ~FoundBefore(at - 1)
  BY <1>1 DEF Init, FoundBefore
<1>3. found \in BOOLEAN /\ (found <=> FoundBefore(at - 1))
  BY <1>2 DEF Init
<1>4. at \in 1..Len(input) + 1 /\ start \in 0..at - 1 /\ start = 0 /\ at = 1
  BY <1>1 DEF Init
<1> QED
  BY <1>1, <1>3, <1>4 DEF ScanInv

\* The only name that can end just before at is the one that began at start.
LEMMA NameBeforeAt ==
    ASSUME ScanInv,
           at = Len(input) + 1 \/ input[at] \in Separator,
           NEW a \in DOMAIN input, a <= at - 1
    PROVE  IsName(input, a, at - 1) <=> start = a
<1>1. ASSUME start = a PROVE IsName(input, a, at - 1)
  BY <1>1 DEF ScanInv, IsName
<1>2. ASSUME IsName(input, a, at - 1) PROVE start = a
  <2>1. start # 0
    <3>1. at - 1 \in a..at - 1 /\ at # 1
      BY DEF ScanInv
    <3> QED
      BY <1>2, <3>1 DEF ScanInv, IsName
  <2>2. CASE start < a
    <3>1. a - 1 \in start..at - 1 /\ a # 1
      BY <2>1, <2>2 DEF ScanInv
    <3> QED
      BY <1>2, <2>1, <3>1 DEF ScanInv, IsName
  <2>3. CASE a < start
    <3>1. start - 1 \in a..at - 1 /\ start # 1
      BY <2>1, <2>3 DEF ScanInv
    <3> QED
      BY <1>2, <2>1, <3>1 DEF ScanInv, IsName
  <2> QED
    BY <2>2, <2>3 DEF ScanInv
<1> QED
  BY <1>1, <1>2

\* What has been found when a separator, or the end, has been reached.
LEMMA FoundUpToAt ==
    ASSUME ScanInv, at = Len(input) + 1 \/ input[at] \in Separator
    PROVE  FoundBefore(at) <=> found \/ (start # 0 /\ CheckConflict(start, at - 1))
<1>1. ASSUME found PROVE FoundBefore(at)
  BY <1>1 DEF ScanInv, FoundBefore
<1>2. ASSUME start # 0, CheckConflict(start, at - 1) PROVE FoundBefore(at)
  <2>1. start \in DOMAIN input /\ start <= at - 1 /\ at - 1 \in start..at - 1
    BY <1>2 DEF ScanInv
  <2>2. IsName(input, start, at - 1)
    BY <2>1, NameBeforeAt
  <2> QED
    BY <1>2, <2>1, <2>2 DEF FoundBefore, CheckConflict
<1>3. ASSUME FoundBefore(at) PROVE found \/ (start # 0 /\ CheckConflict(start, at - 1))
  <2>0. PICK a \in DOMAIN input : \E b \in a..at - 1 :
            IsName(input, a, b) /\ SubSeq(input, a, b) \in Loaded
    BY <1>3 DEF FoundBefore
  <2>1. PICK b \in a..at - 1 : IsName(input, a, b) /\ SubSeq(input, a, b) \in Loaded
    BY <2>0
  <2>2. CASE b = at - 1
    <3>1. start = a /\ a # 0
      BY <2>1, <2>2, NameBeforeAt DEF ScanInv
    <3> QED
      BY <2>1, <2>2, <3>1 DEF CheckConflict
  <2>3. CASE b # at - 1
    <3>1. b \in a..at - 1 - 1
      BY <2>3 DEF ScanInv
    <3> QED
      BY <2>1, <3>1 DEF FoundBefore, ScanInv
  <2> QED
    BY <2>2, <2>3
<1> QED
  BY <1>1, <1>2, <1>3

LEMMA SeparatorKeepsScan ==
    ASSUME ScanInv, ScanSeparator
    PROVE  ScanInv'
<1>1. input' = input /\ at' = at + 1 /\ start' = 0 /\ at \in 1..Len(input)
  BY DEF ScanSeparator, ScanInv
<1>2. FoundBefore(at - 1)' <=> FoundBefore(at)
  BY <1>1 DEF FoundBefore, IsName
<1>3. found' <=> FoundBefore(at)
  BY FoundUpToAt DEF ScanSeparator
<1>4. (found <=> FoundBefore(at - 1))'
  BY <1>2, <1>3
<1>5. found' \in BOOLEAN
  BY DEF ScanSeparator, ScanInv
<1> QED
  BY <1>1, <1>4, <1>5 DEF ScanInv, ScanSeparator

LEMMA CharacterKeepsScan ==
    ASSUME ScanInv, ScanCharacter
    PROVE  ScanInv'
<1>1. /\ input' = input /\ at' = at + 1 /\ found' = found /\ at \in 1..Len(input)
      /\ input[at] \notin Separator
      /\ start' = IF start = 0 THEN at ELSE start
  BY DEF ScanCharacter, ScanInv
<1>2. FoundBefore(at - 1)' <=> FoundBefore(at - 1)
  <2>1. ASSUME FoundBefore(at - 1)' PROVE FoundBefore(at - 1)
    <3>1. PICK a \in DOMAIN input : \E b \in a..at - 1 :
              IsName(input, a, b) /\ SubSeq(input, a, b) \in Loaded
      BY <1>1, <2>1 DEF FoundBefore, IsName
    <3>2. PICK b \in a..at - 1 : IsName(input, a, b) /\ SubSeq(input, a, b) \in Loaded
      BY <3>1
    <3>3. b # Len(input) => input[b + 1] \in Separator
      BY <3>2 DEF IsName
    <3>4. at - 1 # Len(input) /\ input[at - 1 + 1] \notin Separator
      <4>1. at - 1 + 1 = at /\ at - 1 # Len(input)
        BY <1>1 DEF ScanInv
      <4> QED
        BY <1>1, <4>1
    <3>5. b # at - 1
      BY <3>3, <3>4
    <3>6. b \in a..at - 1 - 1
      BY <3>5 DEF ScanInv
    <3> QED
      BY <3>2, <3>6 DEF FoundBefore
  <2>2. ASSUME FoundBefore(at - 1) PROVE FoundBefore(at - 1)'
    <3>1. PICK a \in DOMAIN input : \E b \in a..at - 1 - 1 :
              IsName(input, a, b) /\ SubSeq(input, a, b) \in Loaded
      BY <2>2 DEF FoundBefore
    <3>2. PICK b \in a..at - 1 - 1 : IsName(input, a, b) /\ SubSeq(input, a, b) \in Loaded
      BY <3>1
    <3>3. a \in (DOMAIN input)' /\ b \in a..at' - 1 - 1
      BY <1>1 DEF ScanInv
    <3>4. IsName(input, a, b)' /\ (SubSeq(input, a, b) \in Loaded)'
      BY <1>1, <3>2 DEF IsName
    <3> QED
      BY <3>3, <3>4 DEF FoundBefore
  <2> QED
    BY <2>1, <2>2
<1> QED
  BY <1>1, <1>2 DEF ScanInv

LEMMA EndKeepsScan ==
    ASSUME EndScan
    PROVE  ScanInv'
<1>1. input' = <<>> /\ at' = 1 /\ start' = 0 /\ found' = FALSE
  BY DEF EndScan
<1>2. ~FoundBefore(at - 1)'
  BY <1>1 DEF FoundBefore
<1>3. (found \in BOOLEAN /\ (found <=> FoundBefore(at - 1)))'
  BY <1>1, <1>2
<1>4. /\ (Len(input) = 0 /\ DOMAIN input = 1..Len(input))'
      /\ (at \in 1..Len(input) + 1 /\ start \in 0..at - 1)'
  BY <1>1
<1> QED
  BY <1>1, <1>3, <1>4 DEF ScanInv

LEMMA RestKeepsScan ==
    ASSUME ScanInv, UNCHANGED scanVars
    PROVE  ScanInv'
  BY DEF ScanInv, scanVars, FoundBefore, IsName

\* Every action but those of the startup leaves the list alone.
LEMMA NextKeepsScan ==
    ASSUME ScanInv, [Next]_vars
    PROVE  ScanInv'
<1>1. CASE ScanSeparator
  BY <1>1, SeparatorKeepsScan
<1>2. CASE ScanCharacter
  BY <1>2, CharacterKeepsScan
<1>3. CASE EndScan
  BY <1>3, EndKeepsScan
<1>4. CASE ~Startup
  <2>1. UNCHANGED scanVars
    BY <1>4 DEF Next, vars, scanVars, IniSet, HookCall, UseAttribute,
                CallUnobserved, SkipHook, RunHook
  <2> QED
    BY <2>1, RestKeepsScan
<1> QED
  BY <1>1, <1>2, <1>3, <1>4 DEF Startup

LEMMA ScanInvHolds == Spec => []ScanInv
<1>1. Init => ScanInv
  BY InitScan
<1>2. ScanInv /\ [Next]_vars => ScanInv'
  BY NextKeepsScan
<1> QED
  BY <1>1, <1>2, PTL DEF Spec

\* The extension is disabled iff a name of the list is that of a loaded one:
\* check_conflicts, for every list.
THEOREM DisabledByConflictsHolds == Spec => DisabledByConflicts
<1>1. ASSUME ScanInv, [Next]_vars, stage # stage'
      PROVE  disabled' <=> \E a \in DOMAIN input : \E b \in a..Len(input) :
                IsName(input, a, b) /\ SubSeq(input, a, b) \in Loaded
  <2>1. EndScan
    BY <1>1 DEF Next, vars, Startup, ScanSeparator, ScanCharacter, IniSet,
                HookCall, UseAttribute, CallUnobserved, SkipHook, RunHook
  <2>2. at = Len(input) + 1 /\ Len(input) \in Nat
    BY <1>1, <2>1 DEF EndScan, ScanInv
  <2>3. at - 1 = Len(input) /\ disabled' = LastName
    BY <2>1, <2>2 DEF EndScan
  <2>4. FoundBefore(at) <=> found \/ (start # 0 /\ CheckConflict(start, at - 1))
    BY <1>1, <2>2, FoundUpToAt
  <2>5. FoundBefore(at) <=> LastName
    BY <2>3, <2>4 DEF LastName
  <2>6. FoundBefore(at) <=> \E a \in DOMAIN input : \E b \in a..Len(input) :
            IsName(input, a, b) /\ SubSeq(input, a, b) \in Loaded
    BY <2>3 DEF FoundBefore
  <2> QED
    BY <2>3, <2>5, <2>6
<1> QED
  BY <1>1, ScanInvHolds, PTL DEF Spec, DisabledByConflicts

-----------------------------------------------------------------------------
(* Hooks and their calls.                                                  *)

\* There is one hook at most, and the last call of it ended as the checks
\* decided under the settings there are.
CallInv ==
    /\ hook \subseteq Closure \cup Handler
    /\ \A h, g \in hook : h = g
    /\ given \in Given \cup {<<>>}
    /\ validate \in BOOLEAN
    /\ \A h \in hook :
        /\ h.kind = "closure" /\ (h.params = <<>> \/ TakesArraySecond(h.params)) => stored
        /\ outcome = "unobserved" => disabled \/ ~stored
        /\ outcome = "skipped" => ~IsCallable(h) \/ ~IsAdmitted(h, given)
        /\ outcome = "TypeError" =>
            given \in Given /\ IsAdmitted(h, given) /\ ~Fits(h, given)
    /\ outcome \in {"none", "unobserved", "skipped", "ran", "TypeError"}
    /\ hook = {} => outcome = "none"
    /\ stage = "startup" => hook = {}

LEMMA DocumentedFormIsValid ==
    ASSUME NEW params, NEW values, params = <<>> \/ TakesArraySecond(params)
    PROVE  IsValidSignature(params, values)
  BY DEF IsValidSignature

LEMMA NextKeepsCalls ==
    ASSUME CallInv, [Next]_vars
    PROVE  CallInv'
<1>1. CASE Startup
  <2>1. hook = {} /\ UNCHANGED <<validate, hook, stored, given, outcome>>
    BY <1>1 DEF CallInv, Startup, ScanSeparator, ScanCharacter, EndScan
  <2> QED
    BY <2>1 DEF CallInv
<1>0. CASE UNCHANGED vars
  BY <1>0 DEF CallInv, vars, IsAdmitted, IsValidSignature
<1>2. CASE IniSet
  BY <1>2 DEF CallInv, IniSet
<1>3. ASSUME NEW h \in Closure, HookCall(h) PROVE CallInv'
  <2>1. /\ hook' = {h} /\ UNCHANGED <<validate, given, outcome, disabled>>
        /\ stored' = (EnsureClosureOrNull(h) /\ ValidateHook(h)) /\ outcome = "none"
        /\ stage' = "running"
    BY <1>3 DEF HookCall, CallInv
  <2>2. h.kind = "closure" /\ (h.params = <<>> \/ TakesArraySecond(h.params)) => stored'
    BY <2>1, DocumentedFormIsValid DEF EnsureClosureOrNull, ValidateHook
  <2> QED
    BY <2>1, <2>2 DEF CallInv
<1>4. ASSUME NEW h \in Handler, UseAttribute(h) PROVE CallInv'
  BY <1>4 DEF CallInv, UseAttribute
<1>5. ASSUME NEW values \in Given, CallUnobserved(values) PROVE CallInv'
  BY <1>5 DEF CallInv, CallUnobserved
<1>6. ASSUME NEW values \in Given, NEW h \in hook, SkipHook(h, values) PROVE CallInv'
  <2>1. /\ \A g \in hook : g = h
        /\ given' = values /\ outcome' = "skipped"
        /\ UNCHANGED <<stage, disabled, validate, hook, stored>>
        /\ ~IsCallable(h) \/ ~IsAdmitted(h, given)'
    BY <1>6 DEF CallInv, SkipHook, IsAdmitted, IsValidSignature
  <2> QED
    BY <2>1 DEF CallInv
<1>7. ASSUME NEW values \in Given, NEW h \in hook, RunHook(h, values) PROVE CallInv'
  <2>1. /\ \A g \in hook : g = h
        /\ given' = values /\ outcome' \in {"ran", "TypeError"}
        /\ outcome' = "TypeError" => ~Fits(h, given')
        /\ UNCHANGED <<stage, disabled, validate, hook, stored>>
        /\ IsAdmitted(h, given)'
    BY <1>7 DEF CallInv, RunHook, IsAdmitted, IsValidSignature
  <2> QED
    BY <2>1 DEF CallInv
<1> QED
  BY <1>0, <1>1, <1>2, <1>3, <1>4, <1>5, <1>6, <1>7 DEF Next

LEMMA CallInvHolds == Spec => []CallInv
<1>1. Init => CallInv
  BY DEF Init, CallInv
<1>2. CallInv /\ [Next]_vars => CallInv'
  BY NextKeepsCalls
<1> QED
  BY <1>1, <1>2, PTL DEF Spec

\* A closure of the documented form runs in every call that it accepts,
\* whatever was known of its calls in hook(): validate_hook and
\* is_valid_signature, for every closure and every call.
THEOREM DocumentedHooksRunHolds == Spec => []DocumentedHooksRun
<1>1. ASSUME CallInv, NEW h \in hook, outcome # "none", ~disabled,
             h.kind = "closure", h.params = <<>> \/ TakesArraySecond(h.params),
             Fits(h, given)
      PROVE  outcome = "ran"
  <2>1. IsCallable(h) /\ IsAdmitted(h, given)
    BY <1>1, DocumentedFormIsValid DEF IsCallable, IsAdmitted
  <2> QED
    BY <1>1, <2>1 DEF CallInv
<1>2. CallInv => DocumentedHooksRun
  BY <1>1 DEF DocumentedHooksRun
<1> QED
  BY <1>2, CallInvHolds, PTL

\* What is_valid_signature accepts but PHP does not.
LEMMA ValidButUnfit ==
    ASSUME NEW h \in HookValue, NEW values \in Seq(Value),
           validate, IsValidSignature(h.params, values), ~Fits(h, values)
    PROVE  \/ TakesArraySecond(h.params)
           \/ Len(h.params) > Len(values)
           \/ \E i \in DOMAIN h.params :
                values[i] \in Class /\ ~Accepts(h.params[i], values[i])
<1>1. h.params \in Seq(Type) /\ Len(h.params) \in Nat /\ Len(values) \in Nat
  BY DEF HookValue
<1>2. CASE h.params = <<>>
  BY <1>1, <1>2 DEF Fits
<1>3. ASSUME \A i \in DOMAIN h.params \cap DOMAIN values :
                ParameterFits(h.params[i], values[i]),
             Len(h.params) <= Len(values)
      PROVE  \E i \in DOMAIN h.params :
                values[i] \in Class /\ ~Accepts(h.params[i], values[i])
  <2>1. PICK i \in DOMAIN h.params : ~Accepts(h.params[i], values[i])
    BY <1>3 DEF Fits
  <2>2. i \in DOMAIN values
    BY <1>1, <1>3
  <2>3. values[i] \in Class
    BY <1>3, <2>1, <2>2 DEF ParameterFits, IsCompatible, Accepts
  <2> QED
    BY <2>1, <2>3
<1> QED
  BY <1>1, <1>2, <1>3 DEF IsValidSignature

\* A checked hook raises a TypeError only where is_valid_signature does not
\* look, for every hook and every call.
THEOREM ChecksCatchTheRestHolds == Spec => []ChecksCatchTheRest
<1>1. ASSUME CallInv, NEW h \in hook, outcome = "TypeError", validate, h.kind # "handler"
      PROVE  \/ TakesArraySecond(h.params)
             \/ Len(h.params) > Len(given)
             \/ \E i \in DOMAIN h.params :
                    given[i] \in Class /\ ~Accepts(h.params[i], given[i])
  <2>1. h \in HookValue /\ given \in Seq(Value)
    BY <1>1, InputAssumption DEF CallInv
  <2>2. IsValidSignature(h.params, given) /\ ~Fits(h, given)
    BY <1>1 DEF CallInv, IsAdmitted
  <2> QED
    BY <1>1, <2>1, <2>2, ValidButUnfit
<1>2. CallInv => ChecksCatchTheRest
  BY <1>1 DEF ChecksCatchTheRest
<1> QED
  BY <1>2, CallInvHolds, PTL

-----------------------------------------------------------------------------
(* Types.                                                                  *)

\* Every variable keeps its type, and the scan stays within its list.
THEOREM TypeCorrect == Spec => []TypeOK
<1> DEFINE Flags == /\ stage \in {"startup", "running"}
                    /\ disabled \in BOOLEAN /\ stored \in BOOLEAN
<1>1. Init => Flags
  BY DEF Init
<1>2. ASSUME Flags, [Next]_vars PROVE Flags'
  <2>1. CASE EndScan
    BY <1>2, <2>1 DEF EndScan, LastName
  <2>2. CASE ScanSeparator \/ ScanCharacter
    BY <1>2, <2>2 DEF ScanSeparator, ScanCharacter
  <2>3. CASE IniSet \/ UNCHANGED vars
    BY <1>2, <2>3 DEF IniSet, vars
  <2>4. ASSUME NEW h \in Closure, HookCall(h) PROVE Flags'
    BY <1>2, <2>4 DEF HookCall, EnsureClosureOrNull, ValidateHook, IsValidSignature
  <2>5. ASSUME NEW h \in Handler, UseAttribute(h) PROVE Flags'
    BY <1>2, <2>5 DEF UseAttribute
  <2>6. ASSUME NEW values \in Given,
               CallUnobserved(values) \/ \E h \in hook : SkipHook(h, values) \/ RunHook(h, values)
        PROVE  Flags'
    BY <1>2, <2>6 DEF CallUnobserved, SkipHook, RunHook
  <2> QED
    BY <1>2, <2>1, <2>2, <2>3, <2>4, <2>5, <2>6 DEF Next, Startup
<1>3. ScanInv /\ CallInv /\ Flags => TypeOK
  BY DEF ScanInv, CallInv, TypeOK
<1> QED
  BY <1>1, <1>2, <1>3, ScanInvHolds, CallInvHolds, PTL DEF Spec

=============================================================================
