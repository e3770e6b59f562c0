----------------------- MODULE ObserverRegistry_proofs -----------------------
(***************************************************************************)
(* Proofs about ObserverRegistry, for all names, hierarchies, hooks,       *)
(* registrations and addresses.                                            *)
(***************************************************************************)
EXTENDS ObserverRegistry, TLAPS

USE DEF Table, Handler, Fault

-----------------------------------------------------------------------------
(* Types.                                                                  *)

\* The list of an optional hook is a list of hooks, the list of an optional
\* parent a list of names.
LEMMA ListOfType ==
    ASSUME NEW S, NEW h \in S \cup {NULL}
    PROVE  ListOf(h) \in Seq(S)
BY DEF ListOf

\* Allocation and release keep every cell of the heap an observer.
LEMMA AllocatedType ==
    ASSUME NEW h \in [Addr -> Observer], NEW a \in Addr,
           NEW pre \in Seq(Hook), NEW post \in Seq(Hook)
    PROVE  Allocated(h, a, pre, post) \in [Addr -> Observer]
BY DEF Allocated, Observer

LEMMA DeadType ==
    ASSUME NEW twice \in BOOLEAN
    PROVE  Dead(twice) \in Observer
BY DEF Dead, Observer

LEMMA NoObserverType == NoObserver \in Observer
BY DeadType DEF NoObserver

LEMMA FreedType ==
    ASSUME NEW h \in [Addr -> Observer], NEW a \in Addr \cup {NULL}
    PROVE  /\ Freed(h, a) \in [Addr -> Observer]
           /\ FreeFault(h, a) \subseteq Fault
BY DeadType DEF Freed, FreeFault, Observer

\* find_observers returns an observer or nothing.
LEMMA FindObserverType ==
    ASSUME TypeOK, NEW t \in Table, NEW n \in Name
    PROVE  FindObserver(t, n) \in Addr \cup {NULL}
<1> DEFINE alike == {k \in Name : Lower[k] = Lower[n] /\ lookup[t][k] # NULL}
<1>1. \A k \in Name : lookup[t][k] \in Addr \cup {NULL}
  BY DEF TypeOK
<1>2. Lower[n] \in Name
  BY LowerAssumption
<1>3. CASE alike = {}
  BY <1>1, <1>2, <1>3 DEF FindObserver
<1>4. CASE alike # {}
  <2>1. (CHOOSE k \in alike : TRUE) \in Name
    BY <1>4
  <2> QED
    BY <1>1, <1>2, <2>1 DEF FindObserver
<1> QED
  BY <1>3, <1>4

\* The types still to visit are types.
LEMMA OnwardType ==
    ASSUME NEW f \in Callee, NEW c \in Name, NEW visited
    PROVE  Onward(f, c, visited) \in Seq(Name)
<1>1. Interfaces[c] \in Seq(Name) /\ ListOf(Parent[c]) \in Seq(Name)
  BY TypeAssumption, ListOfType
<1> QED
  BY <1>1 DEF Onward

\* A walk starts with the callee's own name or class.
LEMMA NewJobType ==
    ASSUME NEW f \in Callee
    PROVE  /\ [NoJob EXCEPT !.work = <<Own[f]>>] \in Job
           /\ [NoJob EXCEPT !.work = <<Own[f]>>, !.again = TRUE] \in Job
<1>1. <<Own[f]>> \in Seq(Name)
  BY TypeAssumption
<1>2. NoJob \in Job
  BY DEF NoJob, Job
<1> QED
  BY <1>1, <1>2 DEF Job, NoJob

\* Storing an observer under its two keys keeps the tables and the memory
\* well typed.
LEMMA AddObserverType ==
    ASSUME TypeOK,
           NEW t \in Table, NEW n \in Name,
           NEW pre \in Seq(Hook), NEW post \in Seq(Hook),
           AddObserver(t, n, pre, post)
    PROVE  /\ lookup' \in [Table -> [Name -> Addr \cup {NULL}]]
           /\ heap' \in [Addr -> Observer]
           /\ fault' \subseteq Fault
           /\ clean' \in BOOLEAN
<1> DEFINE first    == lookup[t][n]
           keyed(a) == [lookup EXCEPT ![t][n] = a]
           born(a)  == Allocated(heap, a, pre, post)
<1>1. PICK a \in Addr :
        /\ lookup' = [keyed(a) EXCEPT ![t][Lower[n]] = a]
        /\ heap' = Freed(Freed(born(a), first), keyed(a)[t][Lower[n]])
        /\ fault' = fault \cup FreeFault(born(a), first)
                          \cup FreeFault(Freed(born(a), first), keyed(a)[t][Lower[n]])
  BY DEF AddObserver, Free
<1>2. Lower[n] \in Name
  BY LowerAssumption
<1>3. keyed(a) \in [Table -> [Name -> Addr \cup {NULL}]]
  BY DEF TypeOK
<1>4. lookup' \in [Table -> [Name -> Addr \cup {NULL}]]
  BY <1>1, <1>2, <1>3
<1>5. first \in Addr \cup {NULL} /\ keyed(a)[t][Lower[n]] \in Addr \cup {NULL}
  BY <1>2, <1>3 DEF TypeOK
<1>6. born(a) \in [Addr -> Observer]
  BY AllocatedType DEF TypeOK
<1>7. /\ Freed(born(a), first) \in [Addr -> Observer]
      /\ FreeFault(born(a), first) \subseteq Fault
  BY <1>5, <1>6, FreedType
<1>8. /\ Freed(Freed(born(a), first), keyed(a)[t][Lower[n]]) \in [Addr -> Observer]
      /\ FreeFault(Freed(born(a), first), keyed(a)[t][Lower[n]]) \subseteq Fault
  BY <1>5, <1>7, FreedType
<1>9. heap' \in [Addr -> Observer]
  BY <1>1, <1>8
<1>10. fault' \subseteq Fault
  BY <1>1, <1>7, <1>8 DEF TypeOK
<1>11. clean' \in BOOLEAN
  BY DEF AddObserver, TypeOK
<1> QED
  BY <1>4, <1>9, <1>10, <1>11

\* The initial states are well typed.
LEMMA TypeInit == Init => TypeOK
BY BoundAssumption, NoObserverType
   DEF Init, TypeOK, EmptyLookup, Job, NoJob, Registered

\* Every step keeps the types.
LEMMA TypeStep == TypeOK /\ [Next]_vars => TypeOK'
<1> SUFFICES ASSUME TypeOK, [Next]_vars
             PROVE  TypeOK'
  OBVIOUS
<1> USE BoundAssumption
<1>1. CASE RequestStart
  BY <1>1, NoObserverType DEF RequestStart, TypeOK, jobVars
<1>2. CASE RINIT
  BY <1>2 DEF RINIT, TypeOK, tableVars, engineVars, jobVars, historyVars
<1>3. CASE RSHUTDOWN
  <2>1. heap' \in [Addr -> Observer]
    <3> SUFFICES ASSUME NEW a \in Addr
                 PROVE  Dead(IF a \in FreedAgain THEN TRUE ELSE heap[a].twice) \in Observer
      BY <1>3 DEF RSHUTDOWN, DestroySlots, TypeOK
    <3>1. heap[a].twice \in BOOLEAN
      BY DEF TypeOK, Observer
    <3> QED
      BY <3>1, DeadType
  <2>2. fault' \subseteq Fault
    BY <1>3 DEF RSHUTDOWN, DestroySlots, TypeOK
  <2> QED
    BY <1>3, <2>1, <2>2
    DEF RSHUTDOWN, TypeOK, EmptyLookup, engineVars, jobVars, historyVars
<1>4. CASE IniSet
  BY <1>4 DEF IniSet, TypeOK, tableVars, engineVars, jobVars, historyVars
<1>5. ASSUME NEW r \in Registration, HookCall(r)
      PROVE  TypeOK'
  <2>1. /\ r.table \in Table /\ r.name \in Name
        /\ r.pre \in Hook \cup {NULL} /\ r.post \in Hook \cup {NULL}
        /\ r \in Registered
    BY RegistrationAssumption DEF Registered
  <2>2. ListOf(r.pre) \in Seq(Hook) /\ ListOf(r.post) \in Seq(Hook)
    BY <2>1, ListOfType
  <2>3. /\ lookup' \in [Table -> [Name -> Addr \cup {NULL}]]
        /\ heap' \in [Addr -> Observer]
        /\ fault' \subseteq Fault
        /\ clean' \in BOOLEAN
    BY <1>5, <2>1, <2>2, AddObserverType DEF HookCall
  <2>4. made' \in [Registration -> 0..MaxRepeats]
    BY <1>5 DEF HookCall, TypeOK
  <2> QED
    BY <1>5, <2>1, <2>3, <2>4
    DEF HookCall, TypeOK, processVars, engineVars, jobVars
<1>6. ASSUME NEW r \in Registration, HookCallWithoutTables(r)
      PROVE  TypeOK'
  BY <1>6 DEF HookCallWithoutTables, TypeOK, engineVars, jobVars, historyVars
<1>7. ASSUME NEW f \in Callee, FcallInit(f)
      PROVE  TypeOK'
  <2>1. job' \in Job
    BY <1>7, NewJobType DEF FcallInit
  <2> QED
    BY <1>7, <2>1
    DEF FcallInit, TypeOK, processVars, tableVars, engineVars, historyVars
<1>8. ASSUME NEW f \in Callee, FcallInitWithoutTables(f)
      PROVE  TypeOK'
  BY <1>8 DEF FcallInitWithoutTables, TypeOK, processVars, tableVars, jobVars, historyVars
<1>9. ASSUME NEW f \in Callee, CallHandlers(f)
      PROVE  TypeOK'
  BY <1>9 DEF CallHandlers, ReadFault, TypeOK, processVars, engineVars, jobVars, historyVars
<1>10. CASE VisitType
  <2> DEFINE c       == Head(job.work)
             a       == FindObserver(Home[resolving], c)
             visited == c \in job.seen
             work    == Onward(resolving, c, visited) \o Tail(job.work)
  <2>1. /\ resolving \in Callee /\ Home[resolving] \in Table
        /\ c \in Name /\ Tail(job.work) \in Seq(Name)
    BY <1>10, TypeAssumption DEF VisitType, TypeOK, Job
  <2>2. work \in Seq(Name)
    <3>1. Onward(resolving, c, visited) \in Seq(Name)
      BY <2>1, OnwardType
    <3> QED
      BY <2>1, <3>1
  <2>3. a \in Addr \cup {NULL}
    BY <2>1, FindObserverType
  <2>4. CASE visited \/ a = NULL
    <3>1. job' = [job EXCEPT !.work = work] /\ UNCHANGED fault
      BY <1>10, <2>4 DEF VisitType
    <3>2. job' \in Job
      BY <2>2, <3>1 DEF TypeOK, Job
    <3> QED
      BY <1>10, <3>1, <3>2
      DEF VisitType, TypeOK, processVars, engineVars, historyVars
  <2>5. CASE ~visited /\ a # NULL
    <3>1. /\ job' = [job EXCEPT !.work = work, !.seen = @ \cup {c},
                                !.pre = @ \o heap[a].pre, !.post = @ \o heap[a].post]
          /\ fault' = fault \cup ReadFault(heap, a)
      BY <1>10, <2>5 DEF VisitType
    <3>2. heap[a].pre \in Seq(Hook) /\ heap[a].post \in Seq(Hook)
      BY <2>3, <2>5 DEF TypeOK, Observer
    <3>3. job.pre \o heap[a].pre \in Seq(Hook) /\ job.post \o heap[a].post \in Seq(Hook)
      BY <3>2 DEF TypeOK, Job
    <3>4. job' \in Job
      BY <2>1, <2>2, <3>1, <3>3 DEF TypeOK, Job
    <3>5. fault' \subseteq Fault
      BY <3>1 DEF ReadFault, TypeOK
    <3> QED
      BY <1>10, <3>4, <3>5
      DEF VisitType, TypeOK, processVars, engineVars, historyVars
  <2> QED
    BY <2>4, <2>5
<1>11. CASE AddAttributeHooks
  <2> DEFINE r == [table |-> Home[resolving], name |-> Own[resolving],
                   pre |-> AttrPre, post |-> AttrPost]
  <2>1. resolving \in Callee
    BY <1>11 DEF AddAttributeHooks, Walked, TypeOK
  <2>2. r \in Registered /\ Own[resolving] \in Name /\ Home[resolving] \in Table
    BY <2>1, TypeAssumption DEF Registered
  <2>3. ListOf(AttrPre) \in Seq(Hook) /\ ListOf(AttrPost) \in Seq(Hook)
    BY TypeAssumption, ListOfType
  <2>4. AddObserver(Home[resolving], Own[resolving], ListOf(AttrPre), ListOf(AttrPost))
    BY <1>11 DEF AddAttributeHooks
  <2>5. /\ lookup' \in [Table -> [Name -> Addr \cup {NULL}]]
        /\ heap' \in [Addr -> Observer]
        /\ fault' \subseteq Fault
        /\ clean' \in BOOLEAN
    BY <2>2, <2>3, <2>4, AddObserverType
  <2>6. job' \in Job
    BY <1>11, <2>1, NewJobType DEF AddAttributeHooks
  <2>7. reg' \subseteq Registered
    BY <1>11, <2>2 DEF AddAttributeHooks, TypeOK
  <2> QED
    BY <1>11, <2>5, <2>6, <2>7
    DEF AddAttributeHooks, TypeOK, processVars, engineVars
<1>12. CASE FinishUnobserved
  BY <1>12
  DEF FinishUnobserved, Walked, TypeOK, Job, NoJob, processVars, tableVars, historyVars
<1>13. CASE FinishObserved
  <2>1. PICK a \in Addr : /\ heap' = Allocated(heap, a, job.pre, job.post)
                          /\ aggregates' = Append(aggregates, a)
                          /\ ext' = [ext EXCEPT ![resolving] = a]
    BY <1>13 DEF FinishObserved, Free
  <2>2. resolving \in Callee
    BY <1>13 DEF FinishObserved, Walked, TypeOK
  <2>3. heap' \in [Addr -> Observer]
    BY <2>1, AllocatedType DEF TypeOK, Job
  <2>4. aggregates' \in Seq(Addr) /\ ext' \in [Callee -> Addr \cup {NULL}]
    <3>1. aggregates' \in Seq(Addr)
      BY <2>1 DEF TypeOK
    <3>2. ext' \in [Callee -> Addr \cup {NULL}]
      BY <2>1 DEF TypeOK
    <3> QED
      BY <3>1, <3>2
  <2>5. handlers' \in [Callee -> SUBSET Handler]
    BY <1>13 DEF FinishObserved, HandlersFor, TypeOK
  <2>6. job' \in Job
    BY <1>13 DEF FinishObserved, NoJob, Job
  <2> QED
    BY <1>13, <2>2, <2>3, <2>4, <2>5, <2>6
    DEF FinishObserved, TypeOK, processVars, historyVars
<1>14. CASE UNCHANGED vars
  BY <1>14
  DEF TypeOK, vars, processVars, tableVars, engineVars, jobVars, historyVars
<1> QED
  BY <1>1, <1>2, <1>3, <1>4, <1>5, <1>6, <1>7, <1>8, <1>9, <1>10, <1>11, <1>12,
     <1>13, <1>14 DEF Next, Resolve

\* Every variable of the registry always has its type.
THEOREM TypeCorrect == Spec => []TypeOK
BY TypeInit, TypeStep, PTL DEF Spec

-----------------------------------------------------------------------------
(* The lower-case key.                                                     *)

\* Storing an observer stores the lower-case key with every other one.
LEMMA AddObserverKeepsPairs ==
    ASSUME TypeOK, LowercaseKeyAlways,
           NEW t \in Table, NEW n \in Name, NEW pre, NEW post,
           AddObserver(t, n, pre, post)
    PROVE  LowercaseKeyAlways'
<1>1. PICK a \in Addr :
        lookup' = [[lookup EXCEPT ![t][n] = a] EXCEPT ![t][Lower[n]] = a]
  BY DEF AddObserver, Free
<1>2. a # NULL
  BY NullAssumption
<1>3. Lower[n] \in Name /\ \A k \in Name : Lower[k] \in Name /\ Lower[Lower[k]] = Lower[k]
  BY LowerAssumption
<1>4. \A u \in Table, k \in Name :
        lookup'[u][k] = IF u = t /\ k \in {n, Lower[n]} THEN a ELSE lookup[u][k]
  BY <1>1, <1>3 DEF TypeOK
<1> SUFFICES ASSUME NEW u \in Table, NEW k \in Name, lookup'[u][k] # NULL
             PROVE  lookup'[u][Lower[k]] # NULL
  BY DEF LowercaseKeyAlways
<1>5. CASE u = t /\ k \in {n, Lower[n]}
  <2>1. Lower[k] = Lower[n]
    BY <1>3, <1>5
  <2> QED
    BY <1>2, <1>3, <1>4, <1>5, <2>1
<1>6. CASE ~(u = t /\ k \in {n, Lower[n]})
  <2>1. lookup[u][Lower[k]] # NULL
    BY <1>4, <1>6 DEF LowercaseKeyAlways
  <2> QED
    BY <1>2, <1>3, <1>4, <2>1
<1> QED
  BY <1>5, <1>6

LEMMA LowercaseKeyStep ==
    TypeOK /\ LowercaseKeyAlways /\ [Next]_vars => LowercaseKeyAlways'
<1> SUFFICES ASSUME TypeOK, LowercaseKeyAlways, [Next]_vars
             PROVE  LowercaseKeyAlways'
  OBVIOUS
<1>1. CASE UNCHANGED lookup
  BY <1>1 DEF LowercaseKeyAlways
<1>2. CASE lookup' = EmptyLookup
  BY <1>2 DEF LowercaseKeyAlways, EmptyLookup
<1>3. ASSUME NEW r \in Registration, HookCall(r)
      PROVE  LowercaseKeyAlways'
  <2>1. r.table \in Table /\ r.name \in Name
    BY RegistrationAssumption DEF Registered
  <2> QED
    BY <1>3, <2>1, AddObserverKeepsPairs DEF HookCall
<1>4. CASE AddAttributeHooks
  <2>1. resolving \in Callee
    BY <1>4 DEF AddAttributeHooks, Walked, TypeOK
  <2>2. Home[resolving] \in Table /\ Own[resolving] \in Name
    BY <2>1, TypeAssumption
  <2>3. AddObserver(Home[resolving], Own[resolving], ListOf(AttrPre), ListOf(AttrPost))
    BY <1>4 DEF AddAttributeHooks
  <2> QED
    BY <2>2, <2>3, AddObserverKeepsPairs
<1> QED
  BY <1>1, <1>2, <1>3, <1>4
  DEF Next, Resolve, RequestStart, RINIT, RSHUTDOWN, IniSet, HookCallWithoutTables,
      FcallInit, FcallInitWithoutTables, CallHandlers, VisitType, FinishUnobserved,
      FinishObserved, vars, tableVars

\* The case-insensitive scan of find_observers is dead code.
THEOREM LowercaseKeyAlwaysHolds == Spec => []LowercaseKeyAlways
<1>1. Init => LowercaseKeyAlways
  BY DEF Init, LowercaseKeyAlways, EmptyLookup
<1> QED
  BY <1>1, LowercaseKeyStep, TypeCorrect, PTL DEF Spec

-----------------------------------------------------------------------------
(* Memory.                                                                 *)

\* Without a request that is up and clean, MemoryInv says nothing of memory.
LEMMA UnsoundMemory ==
    ASSUME NothingBeforeUp', ~Sound'
    PROVE  MemoryInv'
BY DEF MemoryInv, NoFaultWhileClean, RegistrationsAreKept, SlotsHoldAggregates

\* What MemoryInv depends on.
LEMMA SameMemory ==
    ASSUME MemoryInv,
           UNCHANGED <<phase, lookup, aggregates, heap, fault, ext, handlers, reg, clean>>,
           phase = "up" \/ UNCHANGED resolving
    PROVE  MemoryInv'
BY DEF MemoryInv, NothingBeforeUp, Sound, PointersAreLive, NoFaultWhileClean,
       RegistrationsAreKept, SlotsHoldAggregates

\* A registration that stores over no key takes fresh memory and frees none.
LEMMA CleanAdd ==
    ASSUME TypeOK, MemoryInv, phase = "up",
           NEW r \in Registered,
           AddObserver(r.table, r.name, ListOf(r.pre), ListOf(r.post)),
           clean'
    PROVE  /\ Sound
           /\ \A k \in Name : Lower[k] = Lower[r.name] => lookup[r.table][k] = NULL
           /\ fault' = fault
           /\ \E a \in Addr :
                /\ ~heap[a].live
                /\ heap' = Allocated(heap, a, ListOf(r.pre), ListOf(r.post))
                /\ \A u \in Table, k \in Name :
                    lookup'[u][k] = IF u = r.table /\ k \in {r.name, Lower[r.name]}
                                    THEN a ELSE lookup[u][k]
<1> DEFINE t        == r.table
           n        == r.name
           pre      == ListOf(r.pre)
           post     == ListOf(r.post)
           first    == lookup[t][n]
           keyed(a) == [lookup EXCEPT ![t][n] = a]
           born(a)  == Allocated(heap, a, pre, post)
<1>0. t \in Table /\ n \in Name
  BY DEF Registered
<1>1. PICK a \in Free :
        /\ lookup' = [keyed(a) EXCEPT ![t][Lower[n]] = a]
        /\ heap' = Freed(Freed(born(a), first), keyed(a)[t][Lower[n]])
        /\ fault' = fault \cup FreeFault(born(a), first)
                          \cup FreeFault(Freed(born(a), first), keyed(a)[t][Lower[n]])
  BY DEF AddObserver
<1>2. /\ clean /\ Lower[n] # n
      /\ \A k \in Name : Lower[k] = Lower[n] => lookup[t][k] = NULL
  BY DEF AddObserver
<1>3. Sound /\ PointersAreLive
  BY <1>2 DEF Sound, MemoryInv
<1>4. a \in Addr /\ ~heap[a].live
  BY <1>1, <1>3 DEF Free, PointersAreLive
<1>5. Lower[n] \in Name /\ Lower[Lower[n]] = Lower[n]
  BY <1>0, LowerAssumption
<1>6. first = NULL
  BY <1>0, <1>2
<1>7. keyed(a)[t][Lower[n]] = NULL
  BY <1>0, <1>2, <1>5 DEF TypeOK
<1>8. heap' = born(a) /\ fault' = fault
  BY <1>1, <1>6, <1>7 DEF Freed, FreeFault
<1>9. \A u \in Table, k \in Name :
        lookup'[u][k] = IF u = t /\ k \in {n, Lower[n]} THEN a ELSE lookup[u][k]
  BY <1>0, <1>1, <1>5 DEF TypeOK
<1> QED
  BY <1>2, <1>3, <1>4, <1>8, <1>9

\* Registrations keep the invariant.
LEMMA AddKeepsMemory ==
    ASSUME TypeOK, MemoryInv, phase = "up",
           NEW r \in Registered,
           AddObserver(r.table, r.name, ListOf(r.pre), ListOf(r.post)),
           reg' = reg \cup {r},
           UNCHANGED <<phase, aggregates, ext, handlers, resolving>>
    PROVE  MemoryInv'
<1> DEFINE t == r.table
           n == r.name
<1>1. t \in Table /\ n \in Name
  BY DEF Registered
<1>2. NothingBeforeUp'
  BY DEF NothingBeforeUp
<1>3. CASE ~clean'
  BY <1>2, <1>3, UnsoundMemory DEF Sound
<1>4. CASE clean'
  <2>1. /\ Sound /\ fault' = fault
        /\ \A k \in Name : Lower[k] = Lower[n] => lookup[t][k] = NULL
    BY <1>4, CleanAdd
  <2>2. PICK a \in Addr :
          /\ ~heap[a].live
          /\ heap' = Allocated(heap, a, ListOf(r.pre), ListOf(r.post))
          /\ \A u \in Table, k \in Name :
              lookup'[u][k] = IF u = t /\ k \in {n, Lower[n]} THEN a ELSE lookup[u][k]
    BY <1>4, CleanAdd
  <2>3. PointersAreLive
    BY <2>1 DEF MemoryInv
  <2>4. /\ Lower[n] \in Name /\ Lower[Lower[n]] = Lower[n]
        /\ \A k \in Name : Lower[k] \in Name /\ Lower[Lower[k]] = Lower[k]
    BY <1>1, LowerAssumption
  <2>5. a # NULL
    BY NullAssumption
  <2>6. /\ heap'[a] = [live |-> TRUE, twice |-> FALSE,
                      pre |-> ListOf(r.pre), post |-> ListOf(r.post)]
        /\ \A b \in Addr \ {a} : heap'[b] = heap[b]
    <3>1. heap[a].twice = FALSE
      BY <2>3 DEF PointersAreLive, TypeOK, Observer
    <3> QED
      BY <2>2, <3>1 DEF Allocated, TypeOK
  <2>7. \A u \in Table, k \in Name : lookup[u][k] # a
    BY <2>2, <2>3, <2>5 DEF PointersAreLive
  <2>8. \A i \in DOMAIN aggregates : aggregates[i] # a /\ aggregates[i] \in Addr
    BY <2>2, <2>3 DEF PointersAreLive, TypeOK
  <2>9. PointersAreLive'
    <3>1. \A b \in Addr : ~heap'[b].twice
      BY <2>3, <2>6 DEF PointersAreLive
    <3>2. ASSUME NEW u \in Table, NEW k \in Name, lookup'[u][k] # NULL
          PROVE  heap'[lookup'[u][k]].live
      <4>1. CASE u = t /\ k \in {n, Lower[n]}
        BY <2>2, <2>6, <4>1
      <4>2. CASE ~(u = t /\ k \in {n, Lower[n]})
        <5>1. lookup'[u][k] = lookup[u][k]
          BY <2>2, <4>2
        <5>2. lookup[u][k] \in Addr \ {a}
          BY <2>7, <3>2, <5>1 DEF TypeOK
        <5> QED
          BY <2>3, <2>6, <3>2, <5>1, <5>2 DEF PointersAreLive
      <4> QED
        BY <4>1, <4>2
    <3>3. ASSUME NEW u \in Table, NEW w \in Table, NEW k \in Name, NEW m \in Name,
                 lookup'[u][k] # NULL, lookup'[u][k] = lookup'[w][m]
          PROVE  u = w /\ Lower[k] = Lower[m]
      <4>1. CASE u = t /\ k \in {n, Lower[n]}
        <5>1. w = t /\ m \in {n, Lower[n]}
          BY <2>2, <2>7, <3>3, <4>1
        <5> QED
          BY <2>4, <4>1, <5>1
      <4>2. CASE ~(u = t /\ k \in {n, Lower[n]})
        <5>1. lookup'[u][k] = lookup[u][k]
          BY <2>2, <4>2
        <5>2. lookup'[w][m] # a
          BY <2>7, <3>3, <5>1
        <5>3. lookup'[w][m] = lookup[w][m]
          BY <2>2, <5>2
        <5>4. lookup[u][k] # NULL /\ lookup[u][k] = lookup[w][m]
          BY <3>3, <5>1, <5>3
        <5> QED
          BY <2>3, <5>4 DEF PointersAreLive
      <4> QED
        BY <4>1, <4>2
    <3>4. ASSUME NEW i \in DOMAIN aggregates'
          PROVE  /\ heap'[aggregates'[i]].live
                 /\ \A u \in Table, k \in Name : lookup'[u][k] # aggregates'[i]
      BY <2>2, <2>3, <2>6, <2>8 DEF PointersAreLive
    <3> QED
      BY <3>1, <3>2, <3>3, <3>4 DEF PointersAreLive
  <2>10. RegistrationsAreKept'
    <3> SUFFICES ASSUME NEW q \in reg'
                 PROVE  LET b == lookup'[q.table][q.name]
                        IN /\ b # NULL
                           /\ b = lookup'[q.table][Lower[q.name]]
                           /\ heap'[b].live
                           /\ heap'[b].pre = ListOf(q.pre)
                           /\ heap'[b].post = ListOf(q.post)
      BY DEF RegistrationsAreKept
    <3>1. CASE q = r
      BY <1>1, <2>2, <2>4, <2>5, <2>6, <3>1
    <3>2. CASE q # r
      <4>1. q \in reg /\ q.table \in Table /\ q.name \in Name
        BY <3>2 DEF TypeOK, Registered
      <4> DEFINE b == lookup[q.table][q.name]
      <4>2. /\ b # NULL /\ b = lookup[q.table][Lower[q.name]]
            /\ heap[b].live
            /\ heap[b].pre = ListOf(q.pre) /\ heap[b].post = ListOf(q.post)
        BY <2>1, <4>1 DEF MemoryInv, RegistrationsAreKept
      <4>3. ~(q.table = t /\ Lower[q.name] = Lower[n])
        BY <2>1, <4>1, <4>2
      <4>4. /\ ~(q.table = t /\ q.name \in {n, Lower[n]})
            /\ ~(q.table = t /\ Lower[q.name] \in {n, Lower[n]})
        BY <2>4, <4>1, <4>3
      <4>5. /\ lookup'[q.table][q.name] = b
            /\ lookup'[q.table][Lower[q.name]] = b
        BY <2>2, <2>4, <4>1, <4>2, <4>4
      <4>6. b \in Addr \ {a}
        BY <2>7, <4>1, <4>2 DEF TypeOK
      <4> QED
        BY <2>6, <4>2, <4>5, <4>6
    <3> QED
      BY <3>1, <3>2
  <2>11. SlotsHoldAggregates'
    <3> SUFFICES ASSUME NEW f \in Callee, ext[f] # NULL
                 PROVE  LET b == ext[f]
                        IN /\ heap'[b].live
                           /\ \E i \in DOMAIN aggregates : aggregates[i] = b
                           /\ \A u \in Table, k \in Name : lookup'[u][k] # b
                           /\ "begin" \in handlers[f] <=> heap'[b].pre # <<>>
                           /\ "end" \in handlers[f] <=> heap'[b].post # <<>>
      BY <2>1 DEF MemoryInv, SlotsHoldAggregates
    <3>1. /\ heap[ext[f]].live
          /\ \E i \in DOMAIN aggregates : aggregates[i] = ext[f]
          /\ \A u \in Table, k \in Name : lookup[u][k] # ext[f]
          /\ "begin" \in handlers[f] <=> heap[ext[f]].pre # <<>>
          /\ "end" \in handlers[f] <=> heap[ext[f]].post # <<>>
      BY <2>1 DEF MemoryInv, SlotsHoldAggregates
    <3>2. ext[f] \in Addr \ {a}
      BY <2>2, <3>1 DEF TypeOK
    <3>3. \A u \in Table, k \in Name : lookup'[u][k] # ext[f]
      BY <2>2, <3>1, <3>2
    <3> QED
      BY <2>6, <3>1, <3>2, <3>3
  <2>12. NoFaultWhileClean'
    BY <2>1 DEF MemoryInv, NoFaultWhileClean, Sound
  <2> QED
    BY <1>2, <2>9, <2>10, <2>11, <2>12 DEF MemoryInv
<1> QED
  BY <1>3, <1>4

\* While a callee is resolved the request is up.
LEMMA ResolvingWhenUp ==
    ASSUME NothingBeforeUp, resolving # NULL
    PROVE  phase = "up"
BY DEF NothingBeforeUp

\* find_observers finds live observers only.
LEMMA FoundIsLive ==
    ASSUME TypeOK, PointersAreLive, NEW t \in Table, NEW n \in Name,
           FindObserver(t, n) # NULL
    PROVE  heap[FindObserver(t, n)].live
<1> DEFINE alike == {k \in Name : Lower[k] = Lower[n] /\ lookup[t][k] # NULL}
<1>1. Lower[n] \in Name
  BY LowerAssumption
<1>2. CASE alike = {}
  BY <1>1, <1>2 DEF FindObserver, PointersAreLive
<1>3. CASE alike # {}
  <2>1. (CHOOSE k \in alike : TRUE) \in alike
    BY <1>3
  <2> QED
    BY <1>1, <2>1 DEF FindObserver, PointersAreLive
<1> QED
  BY <1>2, <1>3

\* A fresh aggregate keeps the invariant.
LEMMA AggregateKeepsMemory ==
    ASSUME TypeOK, MemoryInv, FinishObserved
    PROVE  MemoryInv'
<1>1. phase = "up" /\ resolving \in Callee
  BY ResolvingWhenUp DEF FinishObserved, Walked, MemoryInv, TypeOK
<1>2. NothingBeforeUp' /\ UNCHANGED <<phase, lookup, fault, reg, clean>>
  BY <1>1 DEF FinishObserved, NothingBeforeUp, processVars, historyVars
<1>3. CASE ~Sound
  BY <1>2, <1>3, UnsoundMemory DEF Sound
<1>4. CASE Sound
  <2>1. PICK a \in Free :
          /\ heap' = Allocated(heap, a, job.pre, job.post)
          /\ aggregates' = Append(aggregates, a)
          /\ ext' = [ext EXCEPT ![resolving] = a]
    BY DEF FinishObserved
  <2>2. PointersAreLive
    BY <1>4 DEF MemoryInv
  <2>3. a \in Addr /\ ~heap[a].live /\ a # NULL
    BY <2>1, <2>2, NullAssumption DEF Free, PointersAreLive
  <2>4. /\ heap'[a] = [live |-> TRUE, twice |-> FALSE, pre |-> job.pre, post |-> job.post]
        /\ \A b \in Addr \ {a} : heap'[b] = heap[b]
    <3>1. heap[a].twice = FALSE
      BY <2>2, <2>3 DEF PointersAreLive, TypeOK, Observer
    <3> QED
      BY <2>1, <2>3, <3>1 DEF Allocated, TypeOK
  <2>5. \A t \in Table, n \in Name : lookup[t][n] # a
    BY <2>2, <2>3 DEF PointersAreLive
  <2>6. \A t \in Table, n \in Name : lookup[t][n] # NULL => lookup[t][n] \in Addr \ {a}
    BY <2>5 DEF TypeOK
  <2>7. /\ \A i \in DOMAIN aggregates : aggregates[i] \in Addr \ {a}
        /\ \A i \in DOMAIN aggregates : i \in DOMAIN aggregates' /\ aggregates'[i] = aggregates[i]
        /\ \A i \in DOMAIN aggregates' : i \in DOMAIN aggregates \/ aggregates'[i] = a
        /\ \E i \in DOMAIN aggregates' : aggregates'[i] = a
    <3>1. \A i \in DOMAIN aggregates : aggregates[i] \in Addr \ {a}
      BY <2>2, <2>3 DEF PointersAreLive, TypeOK
    <3>2. aggregates \in Seq(Addr)
      BY DEF TypeOK
    <3> QED
      BY <2>1, <2>3, <3>1, <3>2
  <2>8. PointersAreLive'
    <3>1. \A b \in Addr : ~heap'[b].twice
      BY <2>2, <2>4 DEF PointersAreLive
    <3>2. \A t \in Table, n \in Name : lookup'[t][n] # NULL => heap'[lookup'[t][n]].live
      BY <1>2, <2>2, <2>4, <2>6 DEF PointersAreLive
    <3>3. \A i \in DOMAIN aggregates' :
            /\ heap'[aggregates'[i]].live
            /\ \A t \in Table, n \in Name : lookup'[t][n] # aggregates'[i]
      BY <1>2, <2>2, <2>4, <2>5, <2>7 DEF PointersAreLive
    <3> QED
      BY <1>2, <2>2, <3>1, <3>2, <3>3 DEF PointersAreLive
  <2>9. RegistrationsAreKept'
    <3> SUFFICES ASSUME NEW r \in reg
                 PROVE  LET b == lookup[r.table][r.name]
                        IN /\ b # NULL /\ b = lookup[r.table][Lower[r.name]]
                           /\ heap'[b].live
                           /\ heap'[b].pre = ListOf(r.pre) /\ heap'[b].post = ListOf(r.post)
      BY <1>2 DEF RegistrationsAreKept
    <3>1. r.table \in Table /\ r.name \in Name
      BY DEF TypeOK, Registered
    <3> QED
      BY <1>4, <2>4, <2>6, <3>1 DEF MemoryInv, RegistrationsAreKept
  <2>10. SlotsHoldAggregates'
    <3> SUFFICES ASSUME NEW f \in Callee
                 PROVE  LET b == ext'[f]
                        IN IF b = NULL THEN handlers'[f] = {}
                           ELSE /\ heap'[b].live
                                /\ \E i \in DOMAIN aggregates' : aggregates'[i] = b
                                /\ \A t \in Table, n \in Name : lookup'[t][n] # b
                                /\ "begin" \in handlers'[f] <=> heap'[b].pre # <<>>
                                /\ "end" \in handlers'[f] <=> heap'[b].post # <<>>
      BY DEF SlotsHoldAggregates
    <3>1. CASE f = resolving
      <4>1. ext'[f] = a
        BY <2>1, <3>1 DEF TypeOK
      <4>2. handlers'[f] = HandlersFor(job.pre, job.post)
        BY <3>1 DEF FinishObserved, TypeOK
      <4>3. /\ "begin" \in handlers'[f] <=> heap'[a].pre # <<>>
            /\ "end" \in handlers'[f] <=> heap'[a].post # <<>>
        BY <2>4, <4>2 DEF HandlersFor
      <4> QED
        BY <1>2, <2>3, <2>4, <2>5, <2>7, <4>1, <4>3
    <3>2. CASE f # resolving
      <4>1. ext'[f] = ext[f] /\ handlers'[f] = handlers[f]
        BY <2>1, <3>2 DEF FinishObserved, TypeOK
      <4>2. CASE ext[f] = NULL
        BY <1>4, <4>1, <4>2 DEF MemoryInv, SlotsHoldAggregates
      <4>3. CASE ext[f] # NULL
        <5>1. /\ heap[ext[f]].live
              /\ \E i \in DOMAIN aggregates : aggregates[i] = ext[f]
              /\ \A t \in Table, n \in Name : lookup[t][n] # ext[f]
              /\ "begin" \in handlers[f] <=> heap[ext[f]].pre # <<>>
              /\ "end" \in handlers[f] <=> heap[ext[f]].post # <<>>
          BY <1>4, <4>3 DEF MemoryInv, SlotsHoldAggregates
        <5>2. ext[f] \in Addr \ {a}
          BY <2>7, <5>1
        <5> QED
          BY <1>2, <2>4, <2>7, <4>1, <4>3, <5>1, <5>2
      <4> QED
        BY <4>2, <4>3
    <3> QED
      BY <3>1, <3>2
  <2>11. NoFaultWhileClean'
    BY <1>2 DEF MemoryInv, NoFaultWhileClean, Sound
  <2> QED
    BY <1>2, <2>8, <2>9, <2>10, <2>11 DEF MemoryInv
<1> QED
  BY <1>3, <1>4

LEMMA MemoryInit == Init => MemoryInv
BY DEF Init, MemoryInv, NothingBeforeUp, Sound, NoFaultWhileClean,
       RegistrationsAreKept, SlotsHoldAggregates

\* Every step keeps the invariant.
LEMMA MemoryStep == TypeOK /\ MemoryInv /\ [Next]_vars => MemoryInv'
<1> SUFFICES ASSUME TypeOK, MemoryInv, [Next]_vars
             PROVE  MemoryInv'
  OBVIOUS
<1>0. NothingBeforeUp
  BY DEF MemoryInv
<1>1. CASE RequestStart
  <2>1. NothingBeforeUp' /\ ~Sound'
    BY <1>0, <1>1 DEF RequestStart, NothingBeforeUp, Sound, jobVars
  <2> QED
    BY <2>1, UnsoundMemory
<1>2. CASE RINIT
  <2>1. /\ phase' = "up" /\ lookup' = EmptyLookup /\ aggregates' = <<>>
        /\ fault' = {} /\ reg' = {} /\ heap' = [a \in Addr |-> NoObserver]
        /\ ext' = [f \in Callee |-> NULL] /\ handlers' = [f \in Callee |-> {}]
    BY <1>0, <1>2 DEF RINIT, NothingBeforeUp, tableVars, engineVars, historyVars
  <2>2. PointersAreLive'
    BY <2>1 DEF PointersAreLive, EmptyLookup, NoObserver, Dead
  <2>3. SlotsHoldAggregates'
    BY <2>1 DEF SlotsHoldAggregates
  <2> QED
    BY <2>1, <2>2, <2>3
    DEF MemoryInv, NothingBeforeUp, NoFaultWhileClean, RegistrationsAreKept
<1>3. CASE RSHUTDOWN
  <2>1. NothingBeforeUp' /\ ~Sound'
    BY <1>3 DEF RSHUTDOWN, NothingBeforeUp, Sound, jobVars
  <2> QED
    BY <2>1, UnsoundMemory
<1>4. CASE IniSet
  BY <1>4, SameMemory DEF IniSet, tableVars, engineVars, jobVars, historyVars
<1>5. ASSUME NEW r \in Registration, HookCall(r)
      PROVE  MemoryInv'
  BY <1>5, AddKeepsMemory, RegistrationAssumption
  DEF HookCall, processVars, engineVars, jobVars
<1>6. ASSUME NEW r \in Registration, HookCallWithoutTables(r)
      PROVE  MemoryInv'
  <2>1. NothingBeforeUp' /\ ~Sound'
    BY <1>0, <1>6 DEF HookCallWithoutTables, NothingBeforeUp, Sound, jobVars
  <2> QED
    BY <2>1, UnsoundMemory
<1>7. ASSUME NEW f \in Callee, FcallInit(f)
      PROVE  MemoryInv'
  BY <1>7, SameMemory DEF FcallInit, processVars, tableVars, engineVars, historyVars
<1>8. ASSUME NEW f \in Callee, FcallInitWithoutTables(f)
      PROVE  MemoryInv'
  BY <1>8, SameMemory
  DEF FcallInitWithoutTables, processVars, tableVars, jobVars, historyVars
<1>9. ASSUME NEW f \in Callee, CallHandlers(f)
      PROVE  MemoryInv'
  <2>1. CASE Sound
    <3>1. ext[f] # NULL /\ heap[ext[f]].live
      BY <1>9, <2>1 DEF CallHandlers, MemoryInv, SlotsHoldAggregates
    <3>2. fault' = fault
      BY <1>9, <3>1 DEF CallHandlers, ReadFault
    <3> QED
      BY <1>9, <3>2, SameMemory
      DEF CallHandlers, processVars, engineVars, jobVars, historyVars
  <2>2. CASE ~Sound
    <3>1. NothingBeforeUp' /\ ~Sound'
      BY <1>0, <1>9, <2>2
      DEF CallHandlers, NothingBeforeUp, Sound, processVars, jobVars, historyVars
    <3> QED
      BY <3>1, UnsoundMemory
  <2> QED
    BY <2>1, <2>2
<1>10. CASE VisitType
  <2>1. phase = "up" /\ resolving \in Callee
    BY <1>0, <1>10, ResolvingWhenUp DEF VisitType, TypeOK
  <2> DEFINE c == Head(job.work)
             a == FindObserver(Home[resolving], c)
  <2>2. CASE ~Sound
    <3>1. NothingBeforeUp' /\ ~Sound'
      BY <1>10, <2>1, <2>2 DEF VisitType, NothingBeforeUp, Sound, processVars, historyVars
    <3> QED
      BY <3>1, UnsoundMemory
  <2>3. CASE Sound
    <3>1. c \in Name /\ Home[resolving] \in Table
      BY <1>10, <2>1, TypeAssumption DEF VisitType, TypeOK, Job
    <3>2. a # NULL => heap[a].live
      BY <2>3, <3>1, FoundIsLive DEF MemoryInv
    <3>3. fault' = fault
      BY <1>10, <3>2 DEF VisitType, ReadFault
    <3> QED
      BY <1>10, <3>3, SameMemory DEF VisitType, processVars, engineVars, historyVars
  <2> QED
    BY <2>2, <2>3
<1>11. CASE AddAttributeHooks
  <2> DEFINE r == [table |-> Home[resolving], name |-> Own[resolving],
                   pre |-> AttrPre, post |-> AttrPost]
  <2>1. phase = "up" /\ resolving \in Callee
    BY <1>0, <1>11, ResolvingWhenUp DEF AddAttributeHooks, Walked, TypeOK
  <2>2. r \in Registered
    BY <2>1, TypeAssumption DEF Registered
  <2>3. /\ AddObserver(r.table, r.name, ListOf(r.pre), ListOf(r.post))
        /\ reg' = reg \cup {r}
        /\ UNCHANGED <<phase, aggregates, ext, handlers, resolving>>
    BY <1>11 DEF AddAttributeHooks, processVars, engineVars
  <2> HIDE DEF r
  <2> QED
    BY <2>1, <2>2, <2>3, AddKeepsMemory
<1>12. CASE FinishUnobserved
  <2>1. phase = "up"
    BY <1>0, <1>12, ResolvingWhenUp DEF FinishUnobserved, Walked
  <2> QED
    BY <1>12, <2>1, SameMemory
    DEF FinishUnobserved, processVars, tableVars, historyVars
<1>13. CASE FinishObserved
  BY <1>13, AggregateKeepsMemory
<1>14. CASE UNCHANGED vars
  BY <1>14, SameMemory
  DEF vars, processVars, tableVars, engineVars, jobVars, historyVars
<1> QED
  BY <1>1, <1>2, <1>3, <1>4, <1>5, <1>6, <1>7, <1>8, <1>9, <1>10, <1>11, <1>12,
     <1>13, <1>14 DEF Next, Resolve

THEOREM MemoryInvHolds == Spec => []MemoryInv
BY MemoryInit, MemoryStep, TypeCorrect, PTL DEF Spec

\* As long as no key is stored over, the extension frees no observer twice and
\* reads none that was freed, until the request shuts down.
THEOREM NoFaultWhileCleanHolds == Spec => []NoFaultWhileClean
<1>1. MemoryInv => NoFaultWhileClean
  BY DEF MemoryInv
<1> QED
  BY <1>1, MemoryInvHolds, PTL

\* As long as no key is stored over, no registration is lost: both of its keys
\* lead to a live observer with its hooks.
THEOREM RegistrationsAreKeptHolds == Spec => []RegistrationsAreKept
<1>1. MemoryInv => RegistrationsAreKept
  BY DEF MemoryInv
<1> QED
  BY <1>1, MemoryInvHolds, PTL

\* As long as no key is stored over, the handlers the engine calls find a live
\* observer in the slot, owned by the aggregates table alone.
THEOREM SlotsHoldAggregatesHolds == Spec => []SlotsHoldAggregates
<1>1. MemoryInv => SlotsHoldAggregates
  BY DEF MemoryInv
<1> QED
  BY <1>1, MemoryInvHolds, PTL

=============================================================================
