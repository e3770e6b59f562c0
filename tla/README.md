# A TLA+ model of phook

phook (`src/ext/`) is a PHP extension. A script calls `\Phook\hook($class,
$function, $pre, $post)`; from then on `$pre` runs before every call of that
function or method and `$post` after it. This directory holds TLA+ modules that
model the extension, TLC configurations that check them on small programs, and
proofs, checked by TLAPS, of what the registry, the dispatcher, the argument
locator, the checks of hooks and the attributes promise, for every program.

## The system

| Component | State | Operations | Code |
|---|---|---|---|
| Process and request | the INI settings, whether the observer API was registered | MINIT, RINIT, RSHUTDOWN, setting `phook.attr_hooks_enabled` | `phook.c` 22-121, 224-254, `phook_observer.c` 1451-1512 |
| Hook registry | `observer_function_lookup`, `observer_class_lookup`, `observer_aggregates` (hash tables of pointers to observers) | `hook()`, `add_observer`, `find_observers`, `resolve_observer`, the table destructors | `phook.c` 190-222, `phook_observer.c` 975-1485 |
| The engine's caches (outside the repository) | the extension slot of each function, the handlers bound to it | `observer_fcall_init` on the first call, the two handlers on every call | `phook_observer.c` 954-973, 1312-1372 |
| Hook dispatch | the call frame, `params`, `EG(exception)`, the saved exception of each hook | `observer_begin`, `observer_end`, `exception_isolation_*` | `phook_observer.c` 464-540, 664-952 |
| Argument access | the slots of the call frame, up to 16 extra ones per hook | `func_get_args`, `arg_locator_*` | `phook_observer.c` 178-255, 542-662 |
| Hook validation | none; reads `PHOOK_G(validate_hook_functions)` | `ensure_closure_or_null`, `validate_hook`, `is_valid_signature` | `phook.c` 127-188, `phook_observer.c` 388-462 |
| Conflict check | `PHOOK_G(disabled)`, from `phook.conflicts` | `check_conflicts` | `phook.c` 22-90 |
| Attributes | none (read from the function); `params[6]`, `params[7]` of a call | `find_withspan_attribute`, `find_spanattribute_attribute`, `func_get_attribute_args`, part of `func_get_args` | `phook_observer.c` 75-176, 218-233, 329-371 |

How they interact: the script calls the registry directly. The engine calls
`observer_fcall_init` the first time a function runs in a request; the registry
resolves the hooks, leaves a merged observer (an *aggregate*) in the function's
extension slot and returns up to two handlers. From then on the engine calls the
handlers around each call, and dispatch reads the aggregate from the slot, calls
the hooks and lets argument access write what they return into the frame. Hooks
are PHP code: they may call hooked functions, so dispatch is re-entrant, and
`hook()`, so registrations arrive at any time.

What is hard here is not concurrency - a request is one thread - but memory and
order:

* an observer is stored under two keys of one table whose destructor frees it;
* the engine's pointer to an aggregate outlives the aggregate, which RSHUTDOWN
  frees;
* functions are called, and `hook()` may be, before RINIT and after RSHUTDOWN;
* the walk through a class hierarchy meets one interface several times;
* a hook may throw, exit, fail validation or call further hooked functions, and
  none of this may change what the observed program does;
* between the hooks the extension lets PHP code run that is no hook and is not
  isolated: autoloaders, error handlers, destructors;
* what a hook may be given is checked twice, in `hook()` when no call is known
  and before each call, under a setting that may change in between;
* attributes of a function and its interfaces merge into one table, in which
  later entries replace earlier ones and values are held without a reference.

What makes each part correct:

* registry: every registration made before a function's first call is bound to
  it exactly once, later ones change nothing, and no observer is freed twice or
  read after it was freed;
* dispatch: every runnable hook runs once, in order, sees what the hooks before
  it made of the call, and whatever it raises stays inside; what is raised outside
  of hooks reaches the program as an exception, and loses nothing else;
* argument access: a hook is given the call's arguments and the body is given
  those arguments with the hooks' replacements;
* validation: a hook of the documented form always runs, and one that is not
  fails only where the check does not look;
* conflict check: the observer is registered iff no extension of the list is
  loaded;
* attributes: the hooks find the attributes of the function in their order of
  priority, and collecting them leaves the call's arguments as they were.

`PROJECT.json` lists the hazards behind these, each at its line.

## The modules

### ObserverRegistry - registration and resolution

| State | Code |
|---|---|
| `enabled`, `attrHooks`, `phase`, `requests` | `PHOOK_G(disabled)`, the INI setting, where RINIT and RSHUTDOWN are |
| `lookup[t][n]` | `observer_function_lookup` (`t = FunctionTable`) and `observer_class_lookup` (one table per method name) |
| `aggregates` | `observer_aggregates` |
| `heap`, `fault` | the `phook_observer` structures by address: live, freed, freed twice; the memory errors so far |
| `ext`, `resolved`, `handlers` | `ZEND_OP_ARRAY_EXTENSION`, the engine's handler cache |
| `resolving`, `job` | the local variables of `resolve_observer` while it runs |
| `reg`, `made`, `clean` | history: what was registered, how often, and whether a key was ever stored over |

Actions: `RequestStart`, `RINIT`, `RSHUTDOWN`, `IniSet`; `HookCall` and, in the
window without tables, `HookCallWithoutTables`; `FcallInit`,
`FcallInitWithoutTables`; then one step per type of `find_class_observers`
(`VisitType`), and the three ends of `resolve_observer`: `AddAttributeHooks`
(the attribute registers hooks and resolution starts over), `FinishUnobserved`
and `FinishObserved`; `CallHandlers` is the read of the slot by the handlers.

`Freed` is the table destructor. Freeing what is not live is a `double_free`,
reading it a `use_after_free`. After a double free the allocator may hand out an
address that is in use; the model's `Free` lets it. What a read of freed memory
yields is modelled as an observer with empty lists; since the fault itself is
recorded in `fault`, no property of a passing run depends on that choice.

### HookContract - what registration promises

The abstract specification: sets of registrations, names compared without case,
a declarative `Ancestors`, a binding that is fixed at a function's first call.
No tables, keys, walk or memory. `ObserverRegistry!ImplementsContract` is the
refinement: the binding is read off the engine's caches (handlers, slot, heap).
`ContractInv`, in `ObserverRegistry`, says of every state why it holds.

### HookDispatch - running the hooks

A stack of call frames, each with a stage (`pre`, `prehook`, `preaside`, `body`,
`post`, `posthook`, `postaside`), and `EG(exception)`, with who raised it. PHP
code (`Call`, `Raise`, `Catch`, `LeaveMain`, and how hooks and bodies end) may do
what PHP code can do at any time it runs; the extension's own steps are
`SkipHook`, `StartHook` (`exception_isolation_start`), `EnterBody`, `EndCall` and
the second halves of `LeavePreHook`, `LeavePostHook` and `LeaveBody`. `opline` is
where a frame goes on: with its next instruction, or at its exception handler;
the engine sets it when code of the frame raises something (`GoingOn`), and the
isolation saves it (`resume`) and takes it back (`Resumed`). `slot` is what
`execute_data->return_value` points to; it exists only if the caller uses the
result, and holds `GARBAGE` when the function threw. An argument list is one
value in this module; its slots are `ArgLocator`'s. exit() is an exception no
`catch` accepts.

`StartAside` and `LeaveAside` are what runs between hooks and outside of the
isolation: an autoloader, when `zend_fcall_info_init` (697, 887) looks for the
class of a hook given as `"Class::method"`; an error handler, for the warning
about a hook that cannot be called (700, 890); destructors, of what a hook threw
(539) or returned (830, 942) and of the parameters (855, 950). They may begin at
any time the extension acts in a function that has hooks, as often as they like.
The engine puts an exception that is on its way aside meanwhile and then restores
it, or chains it to a new one, which takes its place: such an exception is not
dropped, and puts the frame at its handler. If it came from an autoloader
(`missing`), the hook has no class and is passed over; only `Named` hooks are
looked up that way. `missed` and `left` are history: the positions of such hooks,
and how the body ended.

### PlainCalls - a program without phook

Functions call, return, throw, catch, exit. `HookDispatch!HooksAreTransparent`
is the refinement, with every hook and all it calls erased: the mapping cuts the
stack at the first call that is not in its body. A function whose pre hooks run
has not been called yet; one whose post hooks run has not ended, and left its
body as `left` says. The one thing that hooks add to a plain program is an
`Interruption`: as a function that has pre hooks begins, or one that has post
hooks ends, there may be an exception that code raised that ran aside. It tells
who raised it, so that one raised in a hook, or by what a hook calls, is none.

### ArgLocator - the slots of a frame

One call of one function and its pre hooks, with the frame as memory: `frame`,
`numArgs`, `top` and `pageEnd` (`EG(vm_stack_top)`, `EG(vm_stack_end)`), two call
flags, `shown` (`params[1]`), and the loop over a returned array: `todo`,
`locator`, `initialized` (`args_initialized`). `HookReturns` starts the loop,
`SkipEntry` and `StoreEntry` are its turns, `EndHook` stores the extended slots,
counts and reads the arguments again, and `EnterBody` fills open arguments.
`ArgSlot` is where the engine keeps an argument, `TargetSlot` where the locator
puts it: two formulas of the code that must agree. An array is a sequence of
entries, keyed by an index or by the position of a named parameter; a hook that
throws or returns something else returns the empty one. Temporaries hold `TEMP`,
unwritten memory `GARBAGE`, so that a write or a move to the wrong place shows.

`crashed` is the state after a write to the engine's constant empty array, which
is what `params[1]` is for a call without arguments.

### ArgumentList - what returned arrays do to arguments

A list that grows at its end: entries are taken in order, those the definition
or the call provides for always, those beyond as far as there was room when the
hook returned; open arguments get their default or null. `ArgLocator!ImplementsList`
reads the list through `ArgSlot`, and through the locator's extended slots while
an array is being stored.

### HookAdmission - whether a hook gets to run

The three checks before a hook, as one behaviour. At startup, `ScanSeparator`
and `ScanCharacter` are the turns of the loop over `phook.conflicts`, with the
two pointers of the code as positions (`at`, `start`), and `EndScan` is its end
and MINIT's decision. Afterwards one hook is followed: `HookCall` with
`EnsureClosureOrNull` and `ValidateHook` (or `UseAttribute`, which checks
nothing), any number of `IniSet`s, and calls, in which it is skipped
(`SkipHook`), runs or raises a TypeError (`RunHook`), or nothing of it is seen
(`CallUnobserved`). A type is the set of the kinds of values its mask has a bit
for, plus the classes it names; `IsValidSignature` is the check,
`Fits` what PHP itself asks of the call. Which hooks `HookDispatch` calls
`Runnable` is decided here.

### SpanAttributes - what attributes add to a call

One call of one function with the collected arrays: `spanArgs` is `params[6]`,
`attributes` is `params[7]`, both sequences of entries in the order of the hash
tables (`Without` deletes a key's entry, an append adds one). `Expected` and
`Precedes` say what `params[7]` is to hold and in which order, without the loop. `CollectSpanArgument`, `CollectAttributes` and `ReadBeyondKeys` are the
turns of the loop of `func_get_attribute_args`; `BeginArgs`, `CaptureArgument`
and `PassArgument` those of `func_get_args`; then hooks run and may keep the
array (`RunHook`), the parameters are destroyed (`EnterBody`), and the kept
array with them some time later (`Forget`). `refs` counts the references to each
argument, from 1, the frame's own. `WithSpan` and `SpanAttribute` look through
the interfaces as the code does, with the shadowed index; `GARBAGE` is a name
read behind an array. The frame's slots are `ArgLocator`'s.

## The runs

| Run | Program and bounds | Shows |
|---|---|---|
| `registry_contract` | a function and two methods, a class with a parent that share an interface, an attribute on the parent's method; three registrations, each made once; two requests; five addresses | the contract is implemented, attribute hooks included, across two requests, memory is sound until shutdown, and the lower-case key is there whenever another spelling is |
| `registry_twice` | two registrations for one function | **violated**: the second destroys the first (`tests/004.phpt` expects both) |
| `registry_lowercase` | a name without upper-case letters | **violated**: the observer is destroyed as it is stored (`tests/function_internal.phpt` expects its hooks to run) |
| `registry_shutdown` | one registration | **violated**: RSHUTDOWN frees the observer once per key |
| `dispatch_calls` | a function with three hooks a side, one of each not runnable, one of each to be loaded, one with a return type; a function without hooks; two values, an exception, exit, each raised in code, in a hook or aside; depth three | transparency, order, what hooks are shown, where frames go on, progress |
| `dispatch_exceptions` | the same | **violated**: what a post hook throws is dropped, and the function's exception goes on (`README copy.md` 223: "`post` hook methods can modify an exception") |
| `args_frames` | six functions, internal or without local variables, with two or three parameters or none, some with defaults; calls with none to four arguments; two hooks, arrays of up to two entries, named ones and impossible ones included; a locator limit of three, room for one slot or four | the body gets what the arrays make of the call's arguments; temporaries, the stack page and the flags are right |
| `args_locals` | a function with a local variable, called with an extra argument | **violated**: the replaced argument lands in a slot that holds none (`tests/modify_extra_params.phpt`) |
| `args_empty` | a call without arguments whose hook sets one | **violated**: the constant empty array is written (`tests/009.phpt`) |
| `admission_checks` | all lists of up to five characters, two of them separators; three loaded extensions, two named alike at the beginning; closures of up to three parameters over seven types and of four over three, handlers of up to two; calls of functions, methods and static methods | the list disables iff it names a loaded extension; documented hooks always run; what the checks let through |
| `attributes_collected` | functions with two parameters, with every combination of own marks, seven forms of WithSpan and up to two interfaces; up to three arguments of types that are captured and not, counted and not | params[6] and params[7] are what the function's own attributes say; other arguments keep their references |
| `attributes_interface` | the same | **violated**: a SpanAttribute in an interface is looked for at the interface's own index (`phook_observer.c` 86-87: "or on a parameter of an interface") |

Bounds, and why they are enough:

* `MaxRequests = 2`: the one thing a request leaves to the next is the tables'
  pointers, so a second request shows whether they were reset.
* `MaxRepeats = 1`: each registration of a run is made once. `registry_twice`
  makes two for one name; what a store over a key destroys is then shown.
* `Addr`: as many addresses as observers can be live at once, registrations,
  attribute hooks and aggregates together, so `Free` never runs out in a run
  that may not fault; a second request uses the addresses of the first again,
  which is where a dangling pointer would show.
* the hierarchy is the smallest with a type reached over two paths (the
  interface is inherited and repeated, as the engine flattens it) and a type
  that is passed over because it has no observer.
* depth three in `dispatch_calls`: main, a hooked call, and a hooked call made
  by its hook or body, whose own hooks run and raise; isolation saves one
  exception per level, so a further level repeats the second. The function
  without hooks is one that hooks, bodies and code that runs aside call, too.
* in `args_frames`, keys from -1 to 5 reach every kind of slot: parameters passed
  and not, extra arguments, extended slots within and beyond the room, and gaps
  of each kind; two hooks, because the second finds a frame the first extended.
  `FrameSize` is larger than any frame of the run, and `Limit = 3` stands for 16.
* five characters hold two names of the longest length that matters with
  separators around or between them, and a name that is a prefix of another;
* three parameters reach the one before, the one that is and the one after the
  array; types with and without null, arrays, classes and `object`, so that each
  branch of the check is taken with each answer; three values stand for the
  eight a hook is given, and a fourth parameter goes past them;
* two parameters, so that one may replace the other's key; two interfaces, so
  that the second one's index differs from the first's; one extra argument, with
  a variable whose name it finds and without;
* one exception and exit(), each by three kinds of code, so that the one a hook
  raises differs from the one saved for it; two values, so that a replacement can
  be told from what it replaced.

Fairness: `WF_vars(Resolve)` in the registry and `WF_vars(Dispatch)` in the
dispatcher, that is, of C code that runs on a thread without yielding. Only
`LoopsGoOn` is a liveness property; the registry's fairness says that a
resolution that has begun goes on. Nothing is assumed of scripts, hooks,
autoloaders or the engine: they may stop or loop for ever.
`ArgLocator`, `HookAdmission` and `SpanAttributes` state no liveness, and their
specifications no fairness.
`CHECK_DEADLOCK FALSE` is said where a script may end, or the process crash.

## What is proved

`ObserverRegistry_proofs` proves, for all names, tables, class hierarchies,
hooks, registrations, addresses and bounds that satisfy the module's
assumptions:

* `TypeCorrect`, every variable keeps its type;
* `LowercaseKeyAlwaysHolds`, by itself inductive (with the types): a store under
  a name is followed by one under its lower-case form, and nothing removes a
  single key. It makes the third, linear search of `find_observers` dead code;
* `MemoryInvHolds`, the inductive invariant, and from it
  `NoFaultWhileCleanHolds`, `RegistrationsAreKeptHolds` and
  `SlotsHoldAggregatesHolds`.

The three properties are not inductive alone: that no observer is freed twice
needs that no two names share one and that no key points to a freed one; that a
registration is kept needs that the next allocation is not at its address, so
that nothing was freed twice before; and all of it starts over with a request,
which needs the tables to be empty in between. These are `PointersAreLive` and
`NothingBeforeUp`. Each action is a lemma of its own; `clean` turns false in the
step that stores over a key, after which the invariant claims only what is
still true, and a request restores it.

`HookContract_proofs` proves, for all of these:

* `ContractInvHolds`, the inductive invariant of what leads to the contract, as
  long as no key has been stored over. `KeysInv`: a key leads where its
  lower-case form leads, and no two registrations are for one name, so that
  `find_observers` finds the registration of a name whatever its spelling
  (`FoundUnderLower`). `CachesInv`: what has not been resolved has no slot, and
  after RSHUTDOWN the slots hold no hooks. `WalkInv`: there is a set of types the
  walk has passed, whose hooked types it has seen and above which there is nothing
  but more of them or types still ahead; and the hooks it has collected are, hook
  by hook, as many as the registrations for the types it has seen. The set is
  not a variable of the code: a type without an observer is passed and not
  marked, one that is marked leads to its parent only the next time, and only
  with the set can it be said that nothing is lost by that;
* `ImplementsContractHolds`, the refinement of `HookContract`, for the behaviours
  in which no key is ever stored over (`[]clean`; those of `registry_contract`
  are, which is why TLC checks the refinement there without the hypothesis, and
  `registry_twice` and `registry_lowercase` show what becomes of the others). When
  nothing is ahead the set is closed, the ancestors are the least closed set
  (`TypesAreLeast`), and so the walk has collected what applies
  (`WalkedThrough`). Counting takes that no two of a callee's types differ only
  in case (`TypesAreSpelledOnce`), or one registration would count twice.

`ArgLocator_proofs` proves, for all shapes of functions, calls, arrays, numbers
of hooks, limits and room on the page:

* `FrameInvHolds`, the inductive invariant: the frame ends where the engine would
  have ended it for the arguments there are now; while an array is stored, as
  many extended slots are used as arguments are initialized beyond the frame,
  and the page has room for all the locator may hand out;
* `FrameHoldsArgumentsHolds`, from it: arguments inside the frame, the frame on
  its page. It needs the invariant because between the first extended slot and
  the end of the loop neither `numArgs` nor `top` tells how long the frame will
  be. It covers functions with local variables: there a hook's argument is lost
  (`args_locals`), but not stored beyond the page;
* `TemporariesStayHolds`: the temporaries of a function without local variables
  are not written, and move with the arguments of an internal one.

`ArgumentList_proofs` proves, for the calls of functions without local variables
(`NoLocals`; with local variables `args_locals` shows what is lost):

* `ArgumentsInvHolds`, the inductive invariant of what arguments are: each
  initialized one, in the frame or among the extended slots, holds a value, or
  is open while the flag for open arguments is raised; a counted extra argument
  has raised the flag to release it; and what hooks are shown are values;
* `TypeOKHolds` and `ExtraArgumentsAreReleasedHolds`, from it. The first is more
  than types: hooks are shown no temporary and no unwritten memory;
* `ImplementsListHolds`, the refinement of `ArgumentList`. One lemma per action
  says what it makes of the arguments (`StoreArguments`, `EndArguments`,
  `BodyArguments`), another that this is the step of the list. They rest on
  `TargetIsArgSlot`, the locator's slot of an argument is the engine's, and
  `SlotsDiffer`, no two arguments share one. That the engine fills open
  arguments by slot and not by argument makes no difference, because an open
  extra argument, which it may miss, is read as null all the same.

The assumptions of both: `ShapeAssumption` (a function has at least as many
variables as parameters, and only parameters have defaults), `InputAssumption`
(types; a hook may return no array), `MarkAssumption` (a temporary is told apart
from an open argument, an open argument from a value, and null is not counted),
`MemoryAssumption` (the memory of the model reaches to the end of the stack
page).

`HookDispatch_proofs` proves, for all functions, lists of hooks, values,
exceptions and depths of calls:

* `StackInvHolds`, the inductive invariant. It says of each frame that what it
  shows to hooks is what it holds, and shows post hooks the exception that ended
  the body; of each frame that waits for another, that PHP code runs in it and
  that it will go on at its next instruction; and of the innermost one, that when
  the extension or its body acts it is at its exception handler iff
  `EG(exception)` is set. While a hook or code aside runs, what was set aside
  takes that place: `resume` agrees with `saved` in a hook, `opline` itself with
  `saved` in code that runs aside, which nobody takes back;
* `TypeCorrect`, `HooksSeeCurrentStateHolds` and `FramesGoOnAsRaisedHolds`, from
  it. None is inductive alone: a post hook's exception is put back from the
  frame, and a call that ends hands its exception to a frame of which only the
  invariant knows that it was waiting. Nothing relates `EG(exception)` to
  `params[3]`: an exception raised aside makes the two differ;
* `HooksRunOnceInOrderHolds`, from `OrderInv` on top of it. The property reads
  off two lists, of the hooks that ran before and after the body, which the
  invariant relates to the position `at` in the list of hooks of each frame on
  the stack, a frame that waits for its hook included, and to the positions in
  `missed`, which are behind it.

`PlainCalls_proofs` proves `HooksAreTransparentHolds`, the refinement of
`PlainCalls`: seen without its hooks and all they call, a program whose functions
are hooked is one of plain calls and interruptions. The mapping keeps the bodies
below the first hook (`PlainDepth`); the proof says of that depth that there is
one and only one (`DepthIsUnique`), and of each action that it is a step of the
plain program or leaves those bodies, and their exception, alone. `PlainInv` adds
to `StackInv` what only this needs. The main script is called once, at the bottom.
And the call above those bodies is `Kept`: whatever may still reach the program
from it is nothing, what its body left, or an `Interruption`; in a hook, where
anything may be raised, that is what was saved; in code that runs aside it is both
what was saved and what is raised there, which the frames above only hold as
raised aside.

The assumptions of both: `HookAssumption` (the lists of hooks are lists of hooks,
the main script is no function), `NullAssumption` (NULL is told apart from values
and from what is thrown, garbage from values and NULL, exit() from exceptions),
`DepthAssumption` (there is room for the main script).

`HookAdmission_proofs` proves, for all lists of conflicts, loaded extensions,
hooks and arguments:

* `DisabledByConflictsHolds`, from the invariant `ScanInv` of the loop over the
  list: `start` is where the name that is being read began, and `found` tells of
  the names that have ended. A name ends at a separator or at the end of the
  list, and exactly one starts where it does;
* `TypeCorrect`, `DocumentedHooksRunHolds` and `ChecksCatchTheRestHolds`, from
  `CallInv`: a hook of the documented form passes the check of `hook()` under
  either setting, and the outcome that is kept of the last call is the one
  `is_valid_signature` and PHP decide under the settings there are. A change of
  the settings therefore has to forget it.

Its assumption is `InputAssumption` (types, classes are told apart from the
other types).

`SpanAttributes_proofs` proves, for all functions, whatever attributes they,
their parameters and their interfaces have, and all arguments:

* `TypeOKHolds`, from `TypeInv`: a key is in a table at most once, and an entry
  refers only to arguments that have been looked at and are captured;
* `OthersKeepReferencesHolds`, from `RefsInv`, which follows the references to an
  argument through the stages of a call. It needs `TypeInv`: an argument that is
  not captured is not released, because no entry refers to it;
* `SpanArgumentsKeepTheirNamesHolds`, from `NamesInv`: what the property says at
  the end is true at each turn of the loop of the arguments before it;
* `OwnAttributesAreCollectedHolds`, from `GivenInv` and `OwnInv`, which say the
  same of the array of WithSpan and of the captured arguments before `at`. The
  heart is `CaptureCollects`: to delete the key and append the entry turns what
  is expected of the arguments before n into what is expected of those up to n,
  in order;
* `OwnMarksCountHolds`, from `MarksInv`, for interfaces that carry anything.

Its assumptions: `CalleeAssumption` (what attributes, variables and interfaces
are; the keys of an array differ, and there are at least as many variables as
parameters), `ArgumentAssumption` (types). Two lemmas may be of use elsewhere:
`LeastExists` and `GreatestIs`, that `Min` finds the least of any numbers, and
`Max` the greatest, without induction over an operator.

Assumptions on the constants of the registry: `LowerAssumption` (lower-casing is idempotent),
`NullAssumption` (NULL is no name, callee, hook or address), `TypeAssumption`,
`RegistrationAssumption` (what `hook()` accepts has hooks or null),
`SpellingAssumption` (the classes and interfaces of methods differ in more than
case, as they do in the engine's class table, whose keys are lower-case),
`BoundAssumption`. None limits sizes; sets may be infinite. That a request has
finitely many registrations is a theorem (`FinitelyManyRegistrations`).

Only model-checked: the liveness property `LoopsGoOn`, which is out of the
prover's reach. The properties that are violated have no theorems.

## Where documents disagree

The repository's documents do not agree with its code, or with each other, about
four things that properties here are about. The properties follow the code and,
where there is one, the test.

* Order of post hooks. `tests/004.phpt` expects POST_2 before POST_1, and the code
  walks the list from its tail; the expected output of the example at
  `doc/examples.md` 149-178 (`hello_modified1_modified2`) has them in the order
  of registration. `HooksRunOnceInOrder` says the opposite order.
* Arguments shown to post hooks. `doc/api-reference.md` 46 says the original
  ones, not those changed by pre hooks; the code reads the slots of the frame when
  the body has ended (line 869). `HooksSeeCurrentState` says the current ones. A
  run that refutes the document would say no more than this sentence.
* Exceptions in post hooks. `README copy.md` 221-247 has a post hook replace the
  function's exception by throwing another, `doc/examples.md` 255-280 has one turn
  it into a result; `tests/hooks_throw_exception.phpt` ("Check if exceptions
  thrown in hooks are isolated and logged") expects the original one. The code
  does what the test says, `HooksAreTransparent` says so, and
  `dispatch_exceptions` refutes the former document.
* Exceptions around hooks. `doc/overview.md` 17 promises that exceptions in hooks
  are handled so that the application does not fail. For hooks that is so; what
  an autoloader, an error handler or a destructor throws while the hooks of a
  function are run does reach its caller.

## What is not modelled

* The conversions between scalars of PHP's weak mode, for which a hook may be
  called where `Fits` says TypeError; the names of extensions beyond the
  characters that separate them.
* Attributes of internal functions, which have none to look for; what becomes of
  a captured argument once it has been released too often.
* Behaviour the models have and documents speak of, for which no run is kept: a
  function resolved before RSHUTDOWN and called after it reads its freed
  aggregate, in spite of the guard and comment at `phook_observer.c` 1314
  (`ObserverRegistry`, phase `closing`); and the second post hook of a call whose
  result is unused is shown null (`HookDispatch`).
* The defaults of open arguments, which the engine evaluates before the body
  while `EG(exception)` is set to -1 (lines 838-851), as far as they run PHP
  code; the handlers of frames of internal functions, which have no instructions
  of their own; which class an autoloader loads, and that it does so only once.
* Attribute handlers whose names are none a function can have: these are not
  registered (`is_valid_callable`, a check of syntax alone). Those of
  `HookAdmission` have names, of functions that exist (`callable`), do not
  (`missing`) or are the default ones (`handler`), and attribute hooks are on;
  `ObserverRegistry` has the switch.
* Array keys of more than 32 bits, which line 742 of `phook_observer.c`
  truncates: a key of 2^32 sets argument 0. Nothing in the repository says what
  such a key should do.
* The content of `params[1]` while an array is being stored: it is read again
  after each hook. A hook that kept the array it was given sees it change.
* The PHP 8.4 branch of `observer_fcall_init` registers the same handlers in
  another way; debug logging; the warning for disabled attribute hooks.
* References held by `observer_instance` during a resolution are never released;
  the model does not count references.
* What `return_value` holds for internal functions is up to the engine.
* A body that assigns to its own parameters: the engine, not phook, does it.

## Plan

Done, in this order: `ObserverRegistry` and `HookContract`, the invariant's
proof, `HookDispatch` and `PlainCalls`, `ArgLocator`, `ArgumentList` and the
proofs about frames, `HookAdmission`, `SpanAttributes`, the proofs about the
dispatcher and the admission of hooks, the proofs about order and transparency
of hooks, about attributes, that `ArgLocator` implements `ArgumentList`, and that
`ObserverRegistry` implements `HookContract`.

What is left to do is to follow the code: a change to it changes the action that
stands for it, and the proofs say where that matters.
