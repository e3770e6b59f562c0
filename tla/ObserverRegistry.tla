-------------------------- MODULE ObserverRegistry --------------------------
(***************************************************************************)
(* Registration of hooks and their resolution to functions, as the         *)
(* extension does it during the requests of one PHP process.               *)
(*                                                                         *)
(* \Phook\hook() stores an observer (a pair of hook lists) in a hash table *)
(* under two keys, the name as the script wrote it and its lower-case      *)
(* form.  When the engine calls a function for the first time in a request *)
(* it asks the extension for handlers: resolve_observer walks the class    *)
(* hierarchy, merges what it finds into a fresh observer (an "aggregate"), *)
(* leaves that in the function's extension slot and tells the engine which *)
(* of the two handlers to call from then on.                               *)
(*                                                                         *)
(* The observers are C structures: the model keeps their addresses, who    *)
(* owns them and whether they have been freed, so that double frees and    *)
(* reads of freed observers are states of the model.                       *)
(***************************************************************************)
EXTENDS Integers, FiniteSets, Sequences

CONSTANTS
    Name,           \* Names of functions and classes, in every spelling used.
    Lower,          \* Lower[n] is zend_string_tolower(n).
    FunctionTable,  \* observer_function_lookup.
    MethodTable,    \* The tables of observer_class_lookup, one per method.
    Callee,         \* Functions and methods a script calls.
    Home,           \* Home[f] is the table f is looked up in.
    Own,            \* Own[f] is f's function name, or its class for a method.
    Parent,         \* Parent[c] is the parent class of c, or NULL.
    Interfaces,     \* Interfaces[c] lists the interfaces of c (flattened).
    WithSpan,       \* The callees that carry the WithSpan attribute.
    Hook,           \* The callables scripts register.
    AttrPre,        \* The pre hook of the INI setting, NULL if not callable.
    AttrPost,       \* The post hook of the INI setting, NULL if not callable.
    Registration,   \* The calls hook(class, function, pre, post) of scripts.
    Addr,           \* Addresses the allocator may return for an observer.
    NULL,
    MaxRepeats,     \* Bound: times a script repeats one registration.
    MaxRequests     \* Bound: requests served by the process.

Table == {FunctionTable} \cup MethodTable

ASSUME LowerAssumption ==
    /\ Lower \in [Name -> Name]
    /\ \A n \in Name : Lower[Lower[n]] = Lower[n]

ASSUME NullAssumption == NULL \notin Name \cup Callee \cup Hook \cup Addr

ASSUME TypeAssumption ==
    /\ Home \in [Callee -> Table]
    /\ Own \in [Callee -> Name]
    /\ Parent \in [Name -> Name \cup {NULL}]
    /\ Interfaces \in [Name -> Seq(Name)]
    /\ WithSpan \subseteq Callee
    /\ AttrPre \in Hook \cup {NULL}
    /\ AttrPost \in Hook \cup {NULL}

\* The classes and interfaces methods are looked up under.  The engine keeps
\* them under lower-case names, so that no two differ only in case.
Type == ({Own[f] : f \in {m \in Callee : Home[m] # FunctionTable}}
            \cup {Parent[c] : c \in Name}
            \cup {Interfaces[d[1]][d[2]] :
                    d \in UNION {{c} \X DOMAIN Interfaces[c] : c \in Name}}) \ {NULL}

ASSUME SpellingAssumption == \A c, d \in Type : Lower[c] = Lower[d] => c = d

\* What hook() is given, once the arguments have been validated.
Registered == [table : Table, name : Name,
               pre : Hook \cup {NULL}, post : Hook \cup {NULL}]

ASSUME RegistrationAssumption == Registration \subseteq Registered

ASSUME BoundAssumption == MaxRepeats \in Nat /\ MaxRequests \in Nat

VARIABLES
    \* The process.
    enabled,     \* No conflicting extension: MINIT registered the observer.
    attrHooks,   \* The INI setting phook.attr_hooks_enabled.
    phase,       \* Where the request is, as phook sees it.
    requests,    \* Requests started so far.
    \* The tables of the extension and the memory they point to.
    lookup,      \* lookup[t][n]: the observer stored in t under key n.
    aggregates,  \* observer_aggregates, in insertion order.
    heap,        \* heap[a]: the observer at a.
    fault,       \* The memory errors of this request.
    \* The caches of the engine.
    ext,         \* ext[f]: the op_array extension slot of f.
    resolved,    \* The callees whose handlers the engine has asked for.
    handlers,    \* handlers[f]: the handlers the engine calls for f.
    \* The walk of resolve_observer, while there is one.
    resolving,   \* The callee being resolved, or NULL.
    job,         \* Its local variables.
    \* History variables.
    reg,         \* The registrations accepted in this request.
    made,        \* made[r]: how often the script made registration r.
    clean        \* No key has been stored over in this request.

processVars == <<enabled, attrHooks, phase, requests>>
tableVars   == <<lookup, aggregates, heap, fault>>
engineVars  == <<ext, resolved, handlers>>
jobVars     == <<resolving, job>>
historyVars == <<reg, made, clean>>
vars == <<processVars, tableVars, engineVars, jobVars, historyVars>>

-----------------------------------------------------------------------------
(* Observers in memory.                                                    *)

Handler == {"begin", "end"}

Fault == {"double_free", "use_after_free", "no_table"}

\* live: allocated and not freed.  twice: on the allocator's free list more
\* than once, after which any allocation may return it.
Observer == [live : BOOLEAN, twice : BOOLEAN, pre : Seq(Hook), post : Seq(Hook)]

\* A freed observer reads as one with empty lists.
Dead(twice) == [live |-> FALSE, twice |-> twice, pre |-> <<>>, post |-> <<>>]

NoObserver == Dead(FALSE)

\* Fault variant: a missing hook is added to the list like any other.
ListOfAny(h) == <<h>>

\* The list of the hook h, which is empty when there is none.
ListOf(h) == IF h = NULL THEN <<>> ELSE <<h>>

\* The addresses emalloc may return.
Free == {a \in Addr : ~heap[a].live \/ heap[a].twice}

Allocated(h, a, pre, post) ==
    [h EXCEPT ![a] = [live |-> TRUE, twice |-> @.twice, pre |-> pre, post |-> post]]

\* The heap after the hash destructor ran on a.
Freed(h, a) ==
    IF a = NULL THEN h
    ELSE [h EXCEPT ![a] = Dead(@.twice \/ ~@.live)]

FreeFault(h, a) ==
    IF a = NULL \/ h[a].live THEN {} ELSE {"double_free"}

ReadFault(h, a) == IF h[a].live THEN {} ELSE {"use_after_free"}

-----------------------------------------------------------------------------
(* The process and its requests.                                           *)

EmptyLookup == [t \in Table |-> [n \in Name |-> NULL]]

NoJob == [work |-> <<>>, seen |-> {}, pre |-> <<>>, post |-> <<>>, again |-> FALSE]

\* check_conflicts decides in MINIT whether the observer API is used at all.
Init ==
    /\ enabled \in BOOLEAN /\ attrHooks \in BOOLEAN
    /\ phase = "off" /\ requests = 0
    /\ lookup = EmptyLookup /\ aggregates = <<>>
    /\ heap = [a \in Addr |-> NoObserver] /\ fault = {}
    /\ ext = [f \in Callee |-> NULL] /\ resolved = {}
    /\ handlers = [f \in Callee |-> {}]
    /\ resolving = NULL /\ job = NoJob
    /\ reg = {} /\ made = [r \in Registration |-> 0] /\ clean = TRUE

\* The engine starts a request: the memory and the run-time caches of the
\* one before are gone.  Modules loaded before phook see RINIT first.
RequestStart ==
    /\ phase \in {"off", "closing"}
    /\ requests < MaxRequests
    /\ phase' = "starting" /\ requests' = requests + 1
    /\ heap' = [a \in Addr |-> NoObserver] /\ fault' = {}
    /\ ext' = [f \in Callee |-> NULL] /\ resolved' = {}
    /\ handlers' = [f \in Callee |-> {}]
    /\ reg' = {} /\ made' = [r \in Registration |-> 0] /\ clean' = TRUE
    /\ UNCHANGED <<enabled, attrHooks, lookup, aggregates, jobVars>>

\* observer_globals_init: tables that do not exist are created, empty.
RINIT ==
    /\ phase = "starting"
    /\ phase' = "up"
    /\ UNCHANGED <<enabled, attrHooks, requests, tableVars, engineVars, jobVars,
                   historyVars>>

\* The slots of the hash tables whose destructor frees an observer.
Slot == {s \in Table \X Name : lookup[s[1]][s[2]] # NULL}
            \cup {<<i>> : i \in DOMAIN aggregates}

SlotAddr(s) == IF Len(s) = 1 THEN aggregates[s[1]] ELSE lookup[s[1]][s[2]]

Owned == {SlotAddr(s) : s \in Slot}

\* The addresses the destructors of all slots free more than once.
FreedAgain ==
    {a \in Owned : \/ ~heap[a].live
                  \/ \E s1, s2 \in Slot : /\ s1 # s2
                                         /\ SlotAddr(s1) = a /\ SlotAddr(s2) = a}

DestroySlots ==
    /\ heap' = [a \in Addr |->
                    IF a \in Owned
                    THEN Dead(IF a \in FreedAgain THEN TRUE ELSE heap[a].twice)
                    ELSE heap[a]]
    /\ fault' = fault \cup (IF FreedAgain = {} THEN {} ELSE {"double_free"})

\* Fault variant: the pointers to the tables are not reset.
RSHUTDOWNKeepingTables ==
    /\ phase = "up" /\ resolving = NULL
    /\ phase' = "closing"
    /\ DestroySlots
    /\ UNCHANGED <<enabled, attrHooks, requests, lookup, aggregates, engineVars,
                   jobVars, historyVars>>

\* observer_globals_cleanup: every slot of every table is destroyed.
RSHUTDOWN ==
    /\ phase = "up" /\ resolving = NULL
    /\ phase' = "closing"
    /\ DestroySlots
    /\ lookup' = EmptyLookup /\ aggregates' = <<>>
    /\ UNCHANGED <<enabled, attrHooks, requests, engineVars, jobVars, historyVars>>

\* A script, or the engine at the end of a request, changes the INI setting.
IniSet ==
    /\ phase # "off" /\ resolving = NULL
    /\ attrHooks' = ~attrHooks
    /\ UNCHANGED <<enabled, phase, requests, tableVars, engineVars, jobVars, historyVars>>

-----------------------------------------------------------------------------
(* Registration.                                                           *)

\* Fault variant: the lower-case key is forgotten.
AddObserverUnderName(t, n, pre, post) ==
    /\ \E a \in Free :
        LET born == Allocated(heap, a, pre, post)
        IN /\ lookup' = [lookup EXCEPT ![t][n] = a]
           /\ heap' = Freed(born, lookup[t][n])
           /\ fault' = fault \cup FreeFault(born, lookup[t][n])
    /\ clean' = (clean /\ lookup[t][n] = NULL)

\* add_observer: zend_hash_update_ptr under the name and then under its
\* lower-case form.  Each update destroys what the key held before.
AddObserver(t, n, pre, post) ==
    /\ \E a \in Free :
        LET born   == Allocated(heap, a, pre, post)
            first  == lookup[t][n]
            keyed  == [lookup EXCEPT ![t][n] = a]
            second == keyed[t][Lower[n]]
        IN /\ lookup' = [keyed EXCEPT ![t][Lower[n]] = a]
           /\ heap' = Freed(Freed(born, first), second)
           /\ fault' = fault \cup FreeFault(born, first)
                             \cup FreeFault(Freed(born, first), second)
    /\ clean' = (/\ clean
                 /\ Lower[n] # n
                 /\ \A k \in Name : Lower[k] = Lower[n] => lookup[t][k] = NULL)

\* A script calls \Phook\hook().
HookCall(r) ==
    /\ enabled /\ phase = "up" /\ resolving = NULL
    /\ made[r] < MaxRepeats
    /\ AddObserver(r.table, r.name, ListOf(r.pre), ListOf(r.post))
    /\ reg' = reg \cup {r}
    /\ made' = [made EXCEPT ![r] = @ + 1]
    /\ UNCHANGED <<processVars, aggregates, engineVars, jobVars>>

\* \Phook\hook() before RINIT or after RSHUTDOWN: add_observer hands the NULL
\* table to zend_hash, and the process dies.
HookCallWithoutTables(r) ==
    /\ enabled /\ phase \in {"starting", "closing"}
    /\ phase' = "crashed"
    /\ fault' = fault \cup {"no_table"}
    /\ UNCHANGED <<enabled, attrHooks, requests, lookup, aggregates, heap,
                   engineVars, jobVars, historyVars>>

-----------------------------------------------------------------------------
(* Resolution.                                                             *)

\* find_observers: the exact key, then the lower-case key, then any key that
\* is equal but for case.
FindObserver(t, n) ==
    LET alike == {k \in Name : Lower[k] = Lower[n] /\ lookup[t][k] # NULL}
    IN  IF lookup[t][n] # NULL THEN lookup[t][n]
        ELSE IF lookup[t][Lower[n]] # NULL THEN lookup[t][Lower[n]]
        ELSE IF alike # {} THEN lookup[t][CHOOSE k \in alike : TRUE]
        ELSE NULL

\* The engine calls f for the first time, and phook has no tables.
FcallInitWithoutTables(f) ==
    /\ enabled /\ phase \in {"starting", "closing"}
    /\ f \notin resolved
    /\ resolved' = resolved \cup {f}
    /\ UNCHANGED <<processVars, tableVars, ext, handlers, jobVars, historyVars>>

\* The engine calls f for the first time: observer_fcall_init.
FcallInit(f) ==
    /\ enabled /\ phase = "up" /\ resolving = NULL
    /\ f \notin resolved
    /\ resolving' = f
    /\ job' = [NoJob EXCEPT !.work = <<Own[f]>>]
    /\ UNCHANGED <<processVars, tableVars, engineVars, historyVars>>

\* The types find_class_observers goes on to: for a plain function there is
\* nothing, a type that was visited leads to its parent only.
Onward(f, c, visited) ==
    IF Home[f] = FunctionTable THEN <<>>
    ELSE (IF visited THEN <<>> ELSE Interfaces[c]) \o ListOf(Parent[c])

\* Fault variant: no type is ever marked as visited.
VisitTypeAgain ==
    /\ resolving # NULL /\ job.work # <<>>
    /\ LET c    == Head(job.work)
           a    == FindObserver(Home[resolving], c)
           work == Onward(resolving, c, FALSE) \o Tail(job.work)
       IN \/ /\ a = NULL
             /\ job' = [job EXCEPT !.work = work]
             /\ UNCHANGED fault
          \/ /\ a # NULL
             /\ job' = [job EXCEPT !.work = work,
                                   !.pre  = @ \o heap[a].pre,
                                   !.post = @ \o heap[a].post]
             /\ fault' = fault \cup ReadFault(heap, a)
    /\ UNCHANGED <<processVars, lookup, aggregates, heap, engineVars, resolving,
                   historyVars>>

\* One turn of the loop of find_class_observers.  A type is marked as visited
\* when an observer was found for it.
VisitType ==
    /\ resolving # NULL /\ job.work # <<>>
    /\ LET c       == Head(job.work)
           a       == FindObserver(Home[resolving], c)
           visited == c \in job.seen
           work    == Onward(resolving, c, visited) \o Tail(job.work)
       IN \/ /\ visited \/ a = NULL
             /\ job' = [job EXCEPT !.work = work]
             /\ UNCHANGED fault
          \/ /\ ~visited /\ a # NULL
             /\ job' = [job EXCEPT !.work = work,
                                   !.seen = @ \cup {c},
                                   !.pre  = @ \o heap[a].pre,
                                   !.post = @ \o heap[a].post]
             /\ fault' = fault \cup ReadFault(heap, a)
    /\ UNCHANGED <<processVars, lookup, aggregates, heap, engineVars, resolving,
                   historyVars>>

Walked == resolving # NULL /\ job.work = <<>>

NothingFound == job.pre = <<>> /\ job.post = <<>>

\* The attribute hooks apply to the callee being resolved.
UsesAttribute ==
    /\ attrHooks /\ resolving \in WithSpan /\ ~job.again
    /\ AttrPre # NULL \/ AttrPost # NULL

\* No hooks, but the attribute: register the configured hooks, look again.
AddAttributeHooks ==
    /\ Walked /\ NothingFound /\ UsesAttribute
    /\ LET r == [table |-> Home[resolving], name |-> Own[resolving],
                 pre |-> AttrPre, post |-> AttrPost]
       IN /\ AddObserver(r.table, r.name, ListOf(r.pre), ListOf(r.post))
          /\ reg' = reg \cup {r}
    /\ job' = [NoJob EXCEPT !.work = <<Own[resolving]>>, !.again = TRUE]
    /\ UNCHANGED <<processVars, aggregates, engineVars, resolving, made>>

\* resolve_observer returns NULL: the engine never asks again.
FinishUnobserved ==
    /\ Walked /\ NothingFound /\ ~UsesAttribute
    /\ resolved' = resolved \cup {resolving}
    /\ resolving' = NULL /\ job' = NoJob
    /\ UNCHANGED <<processVars, tableVars, ext, handlers, historyVars>>

\* Fault variant: both handlers are chosen by the pre hooks.
HandlersByPre(pre, post) == IF pre = <<>> THEN {} ELSE Handler

\* The handlers observer_fcall_init returns for an observer with these lists.
HandlersFor(pre, post) ==
    (IF pre = <<>> THEN {} ELSE {"begin"}) \cup (IF post = <<>> THEN {} ELSE {"end"})

\* What was found is copied to a new observer, owned by the aggregates table.
FinishObserved ==
    /\ Walked /\ ~NothingFound
    /\ \E a \in Free :
        /\ heap' = Allocated(heap, a, job.pre, job.post)
        /\ aggregates' = Append(aggregates, a)
        /\ ext' = [ext EXCEPT ![resolving] = a]
    /\ handlers' = [handlers EXCEPT ![resolving] = HandlersFor(job.pre, job.post)]
    /\ resolved' = resolved \cup {resolving}
    /\ resolving' = NULL /\ job' = NoJob
    /\ UNCHANGED <<processVars, lookup, fault, historyVars>>

\* The engine calls the handlers it cached: they read the observer in the
\* slot.  What they do with its hooks is the subject of HookDispatch.
CallHandlers(f) ==
    /\ phase \in {"up", "closing"} /\ resolving = NULL
    /\ handlers[f] # {}
    /\ fault' = fault \cup ReadFault(heap, ext[f])
    /\ UNCHANGED <<processVars, lookup, aggregates, heap, engineVars, jobVars,
                   historyVars>>

-----------------------------------------------------------------------------
Resolve == VisitType \/ AddAttributeHooks \/ FinishUnobserved \/ FinishObserved

Next ==
    \/ RequestStart \/ RINIT \/ RSHUTDOWN \/ IniSet
    \/ \E r \in Registration : HookCall(r) \/ HookCallWithoutTables(r)
    \/ \E f \in Callee :
        FcallInit(f) \/ FcallInitWithoutTables(f) \/ CallHandlers(f)
    \/ Resolve

\* observer_fcall_init runs to its end without giving up the thread; scripts
\* and the engine owe phook nothing.
Spec == Init /\ [][Next]_vars /\ WF_vars(Resolve)

-----------------------------------------------------------------------------
(* Properties.                                                             *)

Job == [work : Seq(Name), seen : SUBSET Name, pre : Seq(Hook), post : Seq(Hook),
        again : BOOLEAN]

\* Every variable has its type: the tables hold addresses, live or freed, and
\* the lists of an observer hold hooks, though hook() may be given null for one
\* of the two (phook_observer.c:1389) and the walk joins lists.
TypeOK ==
    /\ enabled \in BOOLEAN /\ attrHooks \in BOOLEAN
    /\ phase \in {"off", "starting", "up", "closing", "crashed"}
    /\ requests \in 0..MaxRequests
    /\ lookup \in [Table -> [Name -> Addr \cup {NULL}]]
    /\ aggregates \in Seq(Addr)
    /\ heap \in [Addr -> Observer]
    /\ fault \subseteq Fault
    /\ ext \in [Callee -> Addr \cup {NULL}]
    /\ resolved \subseteq Callee
    /\ handlers \in [Callee -> SUBSET Handler]
    /\ resolving \in Callee \cup {NULL}
    /\ job \in Job
    /\ reg \subseteq Registered
    /\ made \in [Registration -> 0..MaxRepeats]
    /\ clean \in BOOLEAN

\* find_observers scans a table for a key that differs only in case when the
\* exact and the lower-case key both fail.  The scan never finds anything:
\* whenever some spelling of a name is a key, its lower-case form is one too.
LowercaseKeyAlways ==
    \A t \in Table, n \in Name :
        lookup[t][n] # NULL => lookup[t][Lower[n]] # NULL

Sound == phase = "up" /\ clean

\* As long as no key has been stored over, no observer is freed twice and no
\* freed observer is read before the request shuts down.
NoFaultWhileClean == Sound => fault = {}

\* As long as no key has been stored over, both keys of every registration
\* made in the request lead to one live observer that holds its hooks.
RegistrationsAreKept ==
    Sound => \A r \in reg :
        LET a == lookup[r.table][r.name]
        IN /\ a # NULL
           /\ a = lookup[r.table][Lower[r.name]]
           /\ heap[a].live
           /\ heap[a].pre = ListOf(r.pre) /\ heap[a].post = ListOf(r.post)

\* As long as no key has been stored over, the slot of a function the engine
\* calls handlers for holds a live observer that only the aggregates table
\* owns, and the handlers are exactly those that have hooks to run.
SlotsHoldAggregates ==
    Sound => \A f \in Callee :
        LET a == ext[f]
        IN IF a = NULL THEN handlers[f] = {}
           ELSE /\ heap[a].live
                /\ \E i \in DOMAIN aggregates : aggregates[i] = a
                /\ \A t \in Table, n \in Name : lookup[t][n] # a
                /\ "begin" \in handlers[f] <=> heap[a].pre # <<>>
                /\ "end" \in handlers[f] <=> heap[a].post # <<>>

\* Before the request is up there is nothing in the tables, and the caches of
\* the engine hold nothing of phook.
NothingBeforeUp ==
    /\ phase # "up" => lookup = EmptyLookup /\ aggregates = <<>> /\ resolving = NULL
    /\ phase = "starting" =>
        /\ fault = {} /\ reg = {} /\ heap = [a \in Addr |-> NoObserver]
        /\ ext = [f \in Callee |-> NULL] /\ handlers = [f \in Callee |-> {}]

\* Keys and aggregates point to live observers, keys of different names to
\* different ones, and an aggregate is no table's observer.
PointersAreLive ==
    /\ \A a \in Addr : ~heap[a].twice
    /\ \A t \in Table, n \in Name : lookup[t][n] # NULL => heap[lookup[t][n]].live
    /\ \A t \in Table, u \in Table, n \in Name, m \in Name :
        lookup[t][n] # NULL /\ lookup[t][n] = lookup[u][m]
            => t = u /\ Lower[n] = Lower[m]
    /\ \A i \in DOMAIN aggregates :
        /\ heap[aggregates[i]].live
        /\ \A t \in Table, n \in Name : lookup[t][n] # aggregates[i]

\* The inductive invariant behind the three properties above.
MemoryInv ==
    /\ NothingBeforeUp
    /\ Sound => PointersAreLive
    /\ NoFaultWhileClean /\ RegistrationsAreKept /\ SlotsHoldAggregates

-----------------------------------------------------------------------------
(* The contract, with the state of the contract read off this one's.       *)

Count(s, h) == Cardinality({i \in DOMAIN s : s[i] = h})

\* The hooks the handler k runs for f, with multiplicities.
Runs(f, k, list) ==
    [h \in Hook |-> IF k \in handlers[f] THEN Count(list, h) ELSE 0]

BoundHooks ==
    [f \in Callee |->
        LET observer == IF ext[f] = NULL THEN NoObserver ELSE heap[ext[f]]
        IN [pre  |-> Runs(f, "begin", observer.pre),
            post |-> Runs(f, "end", observer.post)]]

Contract == INSTANCE HookContract WITH
    open <- phase = "up", promised <- reg, settled <- resolved, bound <- BoundHooks

\* When scripts register every name once, with an upper-case letter in it,
\* each function gets the hooks that HookContract promises.
ImplementsContract == Contract!Spec

-----------------------------------------------------------------------------
(* Why the contract holds.                                                 *)

\* A key leads where its lower-case form leads, it is there because of a
\* registration, and no two registrations are for one name.
KeysInv ==
    /\ \A t \in Table, n \in Name :
        lookup[t][n] # NULL =>
            /\ lookup[t][n] = lookup[t][Lower[n]]
            /\ \E r \in reg : r.table = t /\ Lower[r.name] = Lower[n]
    /\ \A r, s \in reg :
        r.table = s.table /\ Lower[r.name] = Lower[s.name] => r = s

\* A callee has no slot and no handlers before it is resolved, and when the
\* request is over the slots hold no hooks.
CachesInv ==
    /\ resolving \notin resolved
    /\ \A f \in Callee \ resolved : ext[f] = NULL /\ handlers[f] = {}
    /\ phase # "up" => \A f \in Callee :
        ext[f] # NULL => heap[ext[f]].pre = <<>> /\ heap[ext[f]].post = <<>>

Ahead == {job.work[i] : i \in DOMAIN job.work}

Above(f, c) == IF Home[f] = FunctionTable THEN {} ELSE Contract!Above(c)

Hooked(c) == FindObserver(Home[resolving], c) # NULL

\* The registrations whose hooks the walk has collected.
Collected ==
    {r \in reg : /\ r.table = Home[resolving]
                 /\ \E c \in job.seen : Lower[r.name] = Lower[c]}

\* The walk stays among the types of the callee.  What it has passed is seen
\* if it is hooked, and the types above it are passed too or still ahead;
\* each registration for a type that was seen has been counted once.
WalkInv ==
    resolving # NULL =>
        /\ job.seen \cup Ahead \subseteq Contract!Types(resolving)
        /\ \A c \in job.seen : Hooked(c)
        /\ \E passed \in SUBSET Name :
            /\ Own[resolving] \in passed \cup Ahead
            /\ \A c \in passed :
                /\ Hooked(c) => c \in job.seen
                /\ Above(resolving, c) \subseteq passed \cup Ahead
            /\ job.seen \subseteq passed
        /\ \A h \in Hook :
            /\ Count(job.pre, h)  = Cardinality({r \in Collected : r.pre = h})
            /\ Count(job.post, h) = Cardinality({r \in Collected : r.post = h})

\* As long as no key has been stored over, the tables, the caches and the walk
\* through the hierarchy are on the way to what the contract promises.
ContractInv == clean => /\ phase = "up" => KeysInv
                        /\ CachesInv
                        /\ WalkInv

-----------------------------------------------------------------------------
(* What tests and comments of the repository say, and the code does not do.*)

\* tests/004.phpt, tests/function_internal.phpt: every hook registered for a
\* function before its first call is among those bound to it by that call.
EveryRegistrationCounts ==
    [][phase = "up" =>
        \A f \in resolved' \ resolved : \A r \in Contract!Applying(f) :
            /\ r.pre  # NULL => BoundHooks'[f].pre[r.pre] > 0
            /\ r.post # NULL => BoundHooks'[f].post[r.post] > 0]_vars

\* tests/calling_die_lead_to_segfault.phpt: the request ends gracefully, that
\* is, the clean-up of the tables frees every observer once.
RequestsEndGracefully == phase = "closing" => "double_free" \notin fault

=============================================================================
