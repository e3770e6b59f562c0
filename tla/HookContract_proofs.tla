------------------------- MODULE HookContract_proofs -------------------------
(***************************************************************************)
(* As long as no key of a table is stored over, each function gets exactly *)
(* the hooks that HookContract promises: ObserverRegistry implements it,   *)
(* proved for all names, class hierarchies, hooks and registrations.       *)
(***************************************************************************)
EXTENDS ObserverRegistry_proofs, FiniteSetTheorems

USE DEF Table

-----------------------------------------------------------------------------
(* The class hierarchy.                                                    *)

\* The types above a type are types, and a method's among those that no two
\* of which differ only in case.
LEMMA AboveType ==
    ASSUME NEW f \in Callee, NEW c \in Name
    PROVE  Above(f, c) \subseteq Name /\ Above(f, c) \subseteq Type
<1>1. Interfaces[c] \in Seq(Name) /\ Parent[c] \in Name \cup {NULL}
  BY TypeAssumption
<1>2. \A i \in DOMAIN Interfaces[c] : Interfaces[c][i] \in Name
  BY <1>1
<1>3. NULL \notin Name
  BY NullAssumption
<1>4. ASSUME NEW i \in DOMAIN Interfaces[c]
      PROVE  Interfaces[c][i] \in Type
  <2>1. <<c, i>> \in UNION {{d} \X DOMAIN Interfaces[d] : d \in Name}
    OBVIOUS
  <2>2. Interfaces[<<c, i>>[1]][<<c, i>>[2]] = Interfaces[c][i]
    OBVIOUS
  <2> QED
    BY <1>2, <1>3, <2>1, <2>2 DEF Type
<1>5. Parent[c] # NULL => Parent[c] \in Type
  BY DEF Type
<1> QED
  BY <1>1, <1>2, <1>4, <1>5 DEF Above, Contract!Above, Contract!Range

LEMMA TypeIsName == Type \subseteq Name
<1>1. ASSUME NEW c \in Name PROVE \A i \in DOMAIN Interfaces[c] : Interfaces[c][i] \in Name
  <2>1. Interfaces[c] \in Seq(Name)
    BY TypeAssumption
  <2> QED
    BY <2>1
<1>2. \A f \in Callee : Own[f] \in Name
  BY TypeAssumption
<1>3. \A c \in Name : Parent[c] \in Name \cup {NULL}
  BY TypeAssumption
<1> QED
  BY <1>1, <1>2, <1>3 DEF Type

\* The types of a callee are the least set with its own name or class that is
\* closed under "above".
LEMMA TypesAreClosed ==
    ASSUME NEW f \in Callee
    PROVE  /\ Contract!Types(f) \subseteq Name
           /\ Own[f] \in Contract!Types(f)
           /\ \A c \in Contract!Types(f) : Above(f, c) \subseteq Contract!Types(f)
<1>1. Own[f] \in Name
  BY TypeAssumption
<1>2. CASE Home[f] = FunctionTable
  BY <1>1, <1>2 DEF Contract!Types, Above
<1>3. CASE Home[f] # FunctionTable
  <2> DEFINE Closed(S) == Own[f] \in S /\ \A e \in S : Contract!Above(e) \subseteq S
  <2>1. Contract!Types(f) = {d \in Name : \A S \in SUBSET Name : Closed(S) => d \in S}
    BY <1>1, <1>3 DEF Contract!Types, Contract!Ancestors
  <2>2. \A c \in Name : Above(f, c) = Contract!Above(c) /\ Above(f, c) \subseteq Name
    BY <1>3, AboveType DEF Above
  <2>3. ASSUME NEW c \in Contract!Types(f), NEW d \in Above(f, c)
        PROVE  d \in Contract!Types(f)
    <3>1. c \in Name /\ d \in Name
      BY <2>1, <2>2
    <3> SUFFICES ASSUME NEW S \in SUBSET Name, Closed(S)
                 PROVE  d \in S
      BY <2>1, <3>1
    <3>2. c \in S
      BY <2>1
    <3> QED
      BY <2>2, <3>1, <3>2
  <2>4. Own[f] \in Contract!Types(f)
    BY <1>1, <2>1
  <2> QED
    BY <2>1, <2>3, <2>4
<1> QED
  BY <1>2, <1>3

LEMMA TypesAreLeast ==
    ASSUME NEW f \in Callee, NEW S \in SUBSET Name,
           Own[f] \in S, \A c \in S : Above(f, c) \subseteq S
    PROVE  Contract!Types(f) \subseteq S
<1>1. CASE Home[f] = FunctionTable
  BY <1>1 DEF Contract!Types
<1>2. CASE Home[f] # FunctionTable
  <2>1. \A c \in S : Contract!Above(c) \subseteq S
    BY <1>2 DEF Above
  <2>2. Own[f] \in Name
    BY TypeAssumption
  <2> QED
    BY <1>2, <2>1, <2>2 DEF Contract!Types, Contract!Ancestors
<1> QED
  BY <1>1, <1>2

\* No two types of a callee differ only in case.
LEMMA TypesAreSpelledOnce ==
    ASSUME NEW f \in Callee,
           NEW c \in Contract!Types(f), NEW d \in Contract!Types(f),
           Lower[c] = Lower[d]
    PROVE  c = d
<1>1. CASE Home[f] = FunctionTable
  BY <1>1 DEF Contract!Types
<1>2. CASE Home[f] # FunctionTable
  <2>1. Own[f] \in Type
    <3>1. Own[f] # NULL
      BY TypeAssumption, NullAssumption
    <3> QED
      BY <1>2, <3>1 DEF Type
  <2>2. \A e \in Type : Above(f, e) \subseteq Type
    BY AboveType, TypeIsName
  <2>3. Contract!Types(f) \subseteq Type
    BY <2>1, <2>2, TypeIsName, TypesAreLeast
  <2> QED
    BY <2>3, SpellingAssumption
<1> QED
  BY <1>1, <1>2

\* The elements of two sequences put together.
LEMMA Together ==
    ASSUME NEW S, NEW s \in Seq(S), NEW p \in Seq(S)
    PROVE  /\ \A i \in DOMAIN (s \o p) :
                \/ i \in DOMAIN s /\ (s \o p)[i] = s[i]
                \/ i - Len(s) \in DOMAIN p /\ (s \o p)[i] = p[i - Len(s)]
           /\ \A i \in DOMAIN s : i \in DOMAIN (s \o p) /\ (s \o p)[i] = s[i]
           /\ \A i \in DOMAIN p :
                Len(s) + i \in DOMAIN (s \o p) /\ (s \o p)[Len(s) + i] = p[i]
OBVIOUS

\* What the walk goes on to is above the type it leaves, and all of that is
\* ahead unless the type was visited before.
LEMMA OnwardIsAbove ==
    ASSUME NEW f \in Callee, NEW c \in Name, NEW visited \in BOOLEAN
    PROVE  /\ \A i \in DOMAIN Onward(f, c, visited) : Onward(f, c, visited)[i] \in Above(f, c)
           /\ ~visited => \A d \in Above(f, c) :
                \E i \in DOMAIN Onward(f, c, visited) : Onward(f, c, visited)[i] = d
<1>1. CASE Home[f] = FunctionTable
  BY <1>1 DEF Onward, Above
<1>2. CASE Home[f] # FunctionTable
  <2> DEFINE s == IF visited THEN <<>> ELSE Interfaces[c]
             p == ListOf(Parent[c])
  <2>1. Interfaces[c] \in Seq(Name) /\ Parent[c] \in Name \cup {NULL}
    BY TypeAssumption
  <2>2. s \in Seq(Name) /\ p \in Seq(Name)
    BY <2>1, ListOfType
  <2>3. Onward(f, c, visited) = s \o p
    BY <1>2 DEF Onward
  <2>4. Above(f, c) = {Interfaces[c][i] : i \in DOMAIN Interfaces[c]} \cup ({Parent[c]} \ {NULL})
    BY <1>2 DEF Above, Contract!Above, Contract!Range
  <2>5. \A i \in DOMAIN s : s[i] \in Above(f, c)
    BY <2>4
  <2>6. \A i \in DOMAIN p : p[i] \in Above(f, c)
    BY <2>4 DEF ListOf
  <2>7. ~visited => s = Interfaces[c]
    OBVIOUS
  <2>8. Parent[c] # NULL => 1 \in DOMAIN p /\ p[1] = Parent[c]
    BY DEF ListOf
  <2> HIDE DEF s, p
  <2>9. \A i \in DOMAIN (s \o p) : (s \o p)[i] \in Above(f, c)
    BY <2>2, <2>5, <2>6, Together
  <2>10. ASSUME ~visited, NEW d \in Above(f, c)
         PROVE  \E i \in DOMAIN (s \o p) : (s \o p)[i] = d
    <3>1. CASE d \in {Interfaces[c][i] : i \in DOMAIN Interfaces[c]}
      <4>1. PICK i \in DOMAIN s : s[i] = d
        BY <2>7, <2>10, <3>1
      <4> QED
        BY <2>2, <4>1, Together
    <3>2. CASE d = Parent[c] /\ Parent[c] # NULL
      <4>1. 1 \in DOMAIN p /\ p[1] = d
        BY <2>8, <3>2
      <4>2. Len(s) + 1 \in DOMAIN (s \o p) /\ (s \o p)[Len(s) + 1] = d
        BY <2>2, <4>1, Together
      <4> QED
        BY <4>2
    <3> QED
      BY <2>4, <2>10, <3>1, <3>2
  <2> QED
    BY <2>3, <2>9, <2>10
<1> QED
  BY <1>1, <1>2

-----------------------------------------------------------------------------
(* What a walk finds under a type.                                         *)

\* find_observers finds what the lower-case key leads to.
LEMMA FoundUnderLower ==
    ASSUME TypeOK, LowercaseKeyAlways, KeysInv, NEW t \in Table, NEW c \in Name
    PROVE  FindObserver(t, c) = lookup[t][Lower[c]]
<1>1. CASE lookup[t][c] # NULL
  BY <1>1 DEF FindObserver, KeysInv
<1>2. CASE lookup[t][c] = NULL /\ lookup[t][Lower[c]] # NULL
  BY <1>2 DEF FindObserver
<1>3. CASE lookup[t][c] = NULL /\ lookup[t][Lower[c]] = NULL
  <2>1. {k \in Name : Lower[k] = Lower[c] /\ lookup[t][k] # NULL} = {}
    BY <1>3 DEF LowercaseKeyAlways
  <2> QED
    BY <1>3, <2>1 DEF FindObserver
<1> QED
  BY <1>1, <1>2, <1>3

\* A type is hooked when a registration was made for its name.
LEMMA HookedIfRegistered ==
    ASSUME TypeOK, LowercaseKeyAlways, KeysInv, RegistrationsAreKept, Sound,
           NEW t \in Table, NEW c \in Name,
           NEW r \in reg, r.table = t, Lower[r.name] = Lower[c]
    PROVE  LET a == FindObserver(t, c)
           IN a # NULL /\ heap[a].pre = ListOf(r.pre) /\ heap[a].post = ListOf(r.post)
BY FoundUnderLower DEF RegistrationsAreKept

LEMMA RegisteredIfHooked ==
    ASSUME TypeOK, LowercaseKeyAlways, KeysInv,
           NEW t \in Table, NEW c \in Name, FindObserver(t, c) # NULL
    PROVE  \E r \in reg : r.table = t /\ Lower[r.name] = Lower[c]
<1>1. Lower[c] \in Name /\ Lower[Lower[c]] = Lower[c]
  BY LowerAssumption
<1>2. lookup[t][Lower[c]] # NULL
  BY FoundUnderLower
<1> QED
  BY <1>1, <1>2 DEF KeysInv

-----------------------------------------------------------------------------
(* Counting.                                                               *)

LEMMA CountOfNone ==
    ASSUME NEW h
    PROVE  Count(<<>>, h) = 0
<1>1. {i \in DOMAIN <<>> : <<>>[i] = h} = {}
  OBVIOUS
<1> QED
  BY <1>1, FS_EmptySet DEF Count

\* A list with one more optional hook runs that hook once more.
LEMMA CountOneMore ==
    ASSUME NEW s \in Seq(Hook), NEW g \in Hook \cup {NULL}, NEW h \in Hook
    PROVE  /\ Count(s, h) \in Nat
           /\ g = h => Count(s \o ListOf(g), h) = Count(s, h) + 1
           /\ g # h => Count(s \o ListOf(g), h) = Count(s, h)
<1> DEFINE T  == {i \in DOMAIN s : s[i] = h}
           TT == {i \in DOMAIN (s \o ListOf(g)) : (s \o ListOf(g))[i] = h}
           n  == Len(s) + 1
<1>1. n \in Nat /\ DOMAIN s = 1..Len(s) /\ Len(s) \in Nat
  OBVIOUS
<1>2. IsFiniteSet(DOMAIN s)
  BY <1>1, FS_Interval
<1>3. T \in SUBSET (DOMAIN s)
  OBVIOUS
<1>4. IsFiniteSet(T)
  BY <1>2, <1>3, FS_Subset
<1>5. Cardinality(T) \in Nat
  BY <1>4, FS_CardinalityType
<1>6. NULL # h
  BY NullAssumption
<1>7. CASE g = NULL
  <2>1. s \o ListOf(g) = s
    BY <1>7 DEF ListOf
  <2> QED
    BY <1>5, <1>6, <1>7, <2>1 DEF Count
<1>8. CASE g # NULL
  <2>1. s \o ListOf(g) = Append(s, g)
    BY <1>8 DEF ListOf
  <2>2. g \in Hook
    BY <1>8
  <2>3. /\ DOMAIN Append(s, g) = 1..n
        /\ \A i \in 1..Len(s) : Append(s, g)[i] = s[i]
        /\ Append(s, g)[n] = g
    BY <2>2
  <2>4. CASE g = h
    <3>1. TT = T \cup {n}
      BY <1>1, <2>1, <2>3, <2>4
    <3>2. n \notin T
      BY <1>1
    <3>3. Cardinality(T \cup {n}) = Cardinality(T) + 1
      BY <1>4, <3>2, FS_AddElement
    <3> QED
      BY <1>5, <2>4, <3>1, <3>3 DEF Count
  <2>5. CASE g # h
    <3>1. TT = T
      BY <1>1, <2>1, <2>3, <2>5
    <3> QED
      BY <1>5, <2>5, <3>1 DEF Count
  <2> QED
    BY <2>4, <2>5
<1> QED
  BY <1>7, <1>8

\* The registrations of a set with the pre or the post hook h.
WithPre(S, h)  == {r \in S : r.pre = h}
WithPost(S, h) == {r \in S : r.post = h}

LEMMA NoneWith ==
    ASSUME NEW h
    PROVE  Cardinality(WithPre({}, h)) = 0 /\ Cardinality(WithPost({}, h)) = 0
<1>1. WithPre({}, h) = {} /\ WithPost({}, h) = {}
  BY DEF WithPre, WithPost
<1> QED
  BY <1>1, FS_EmptySet

\* One registration more is one more with its hooks.
LEMMA OneMoreWith ==
    ASSUME NEW S, IsFiniteSet(S), NEW r, r \notin S, NEW h
    PROVE  /\ r.pre  = h => Cardinality(WithPre(S \cup {r}, h)) = Cardinality(WithPre(S, h)) + 1
           /\ r.pre  # h => Cardinality(WithPre(S \cup {r}, h)) = Cardinality(WithPre(S, h))
           /\ r.post = h => Cardinality(WithPost(S \cup {r}, h)) = Cardinality(WithPost(S, h)) + 1
           /\ r.post # h => Cardinality(WithPost(S \cup {r}, h)) = Cardinality(WithPost(S, h))
<1>1. /\ WithPre(S, h) \in SUBSET S /\ WithPost(S, h) \in SUBSET S
      /\ r \notin WithPre(S, h) /\ r \notin WithPost(S, h)
  BY DEF WithPre, WithPost
<1>2. IsFiniteSet(WithPre(S, h)) /\ IsFiniteSet(WithPost(S, h))
  BY <1>1, FS_Subset
<1>3. /\ Cardinality(WithPre(S, h) \cup {r}) = Cardinality(WithPre(S, h)) + 1
      /\ Cardinality(WithPost(S, h) \cup {r}) = Cardinality(WithPost(S, h)) + 1
  BY <1>1, <1>2, FS_AddElement
<1>4. /\ r.pre  = h => WithPre(S \cup {r}, h) = WithPre(S, h) \cup {r}
      /\ r.pre  # h => WithPre(S \cup {r}, h) = WithPre(S, h)
      /\ r.post = h => WithPost(S \cup {r}, h) = WithPost(S, h) \cup {r}
      /\ r.post # h => WithPost(S \cup {r}, h) = WithPost(S, h)
  BY DEF WithPre, WithPost
<1> QED
  BY <1>3, <1>4

-----------------------------------------------------------------------------
(* The tables and the caches.                                              *)

\* A request has finitely many registrations.
LEMMA FiniteStep == IsFiniteSet(reg) /\ [Next]_vars => IsFiniteSet(reg)'
<1> SUFFICES ASSUME IsFiniteSet(reg), [Next]_vars PROVE IsFiniteSet(reg')
  OBVIOUS
<1>1. CASE UNCHANGED reg
  BY <1>1
<1>2. CASE reg' = {}
  BY <1>2, FS_EmptySet
<1>3. CASE \E r : reg' = reg \cup {r}
  BY <1>3, FS_AddElement
<1> QED
  BY <1>1, <1>2, <1>3
  DEF Next, Resolve, RequestStart, RINIT, RSHUTDOWN, IniSet, HookCall,
      HookCallWithoutTables, FcallInit, FcallInitWithoutTables, CallHandlers, VisitType,
      AddAttributeHooks, FinishUnobserved, FinishObserved, vars, historyVars

\* A registration that stores over no key is the only one for its name.
LEMMA AddKeepsKeys ==
    ASSUME TypeOK, MemoryInv, KeysInv, phase = "up",
           NEW r \in Registered,
           AddObserver(r.table, r.name, ListOf(r.pre), ListOf(r.post)),
           clean', reg' = reg \cup {r}
    PROVE  KeysInv'
<1> DEFINE t == r.table
           n == r.name
<1>1. t \in Table /\ n \in Name
  BY DEF Registered
<1>2. Sound /\ \A k \in Name : Lower[k] = Lower[n] => lookup[t][k] = NULL
  BY CleanAdd
<1>3. PICK a \in Addr :
        \A u \in Table, k \in Name :
            lookup'[u][k] = IF u = t /\ k \in {n, Lower[n]} THEN a ELSE lookup[u][k]
  BY CleanAdd
<1>4. \A k \in Name : Lower[k] \in Name /\ Lower[Lower[k]] = Lower[k]
  BY LowerAssumption
<1>5. ASSUME NEW u \in Table, NEW k \in Name, lookup'[u][k] # NULL
      PROVE  /\ lookup'[u][k] = lookup'[u][Lower[k]]
             /\ \E q \in reg' : q.table = u /\ Lower[q.name] = Lower[k]
  <2>1. CASE u = t /\ k \in {n, Lower[n]}
    BY <1>1, <1>3, <1>4, <2>1
  <2>2. CASE ~(u = t /\ k \in {n, Lower[n]})
    <3>1. lookup[u][k] # NULL /\ lookup'[u][k] = lookup[u][k]
      BY <1>3, <1>5, <2>2
    <3>2. /\ lookup[u][k] = lookup[u][Lower[k]]
          /\ \E q \in reg : q.table = u /\ Lower[q.name] = Lower[k]
      BY <3>1 DEF KeysInv
    <3>3. ~(u = t /\ Lower[k] = Lower[n])
      BY <1>2, <3>1
    <3>4. ~(u = t /\ Lower[k] \in {n, Lower[n]})
      BY <1>4, <3>3
    <3>5. lookup'[u][Lower[k]] = lookup[u][Lower[k]]
      BY <1>3, <1>4, <3>4
    <3> QED
      BY <3>1, <3>2, <3>5
  <2> QED
    BY <2>1, <2>2
<1>6. \A q \in reg : ~(q.table = t /\ Lower[q.name] = Lower[n])
  BY <1>2 DEF MemoryInv, RegistrationsAreKept, TypeOK, Registered
<1>7. \A q, s \in reg' : q.table = s.table /\ Lower[q.name] = Lower[s.name] => q = s
  BY <1>6 DEF KeysInv
<1> QED
  BY <1>5, <1>7 DEF KeysInv

\* No step but the start of a request makes it clean.
LEMMA CleanBefore ==
    ASSUME [Next]_vars, clean', ~RequestStart
    PROVE  clean
BY DEF Next, Resolve, RINIT, RSHUTDOWN, IniSet, HookCall, AddObserver,
       HookCallWithoutTables, FcallInit, FcallInitWithoutTables, CallHandlers, VisitType,
       AddAttributeHooks, FinishUnobserved, FinishObserved, vars, historyVars

\* Every step keeps the keys as they should be.
LEMMA KeysStep ==
    ASSUME TypeOK, MemoryInv, [Next]_vars, clean', phase' = "up",
           clean /\ phase = "up" => KeysInv
    PROVE  KeysInv'
<1>0. NothingBeforeUp
  BY DEF MemoryInv
<1>1. ASSUME phase = "up", clean, UNCHANGED <<lookup, reg>> PROVE KeysInv'
  BY <1>1 DEF KeysInv
<1>2. CASE RINIT
  <2>1. lookup' = EmptyLookup /\ reg' = {}
    BY <1>0, <1>2 DEF RINIT, NothingBeforeUp, tableVars, historyVars
  <2> QED
    BY <2>1 DEF KeysInv, EmptyLookup
<1>3. ASSUME NEW r \in Registration, HookCall(r) PROVE KeysInv'
  <2>1. phase = "up" /\ clean /\ r \in Registered
    BY <1>3, RegistrationAssumption DEF HookCall, AddObserver
  <2> QED
    BY <1>3, <2>1, AddKeepsKeys DEF HookCall
<1>4. CASE AddAttributeHooks
  <2> DEFINE r == [table |-> Home[resolving], name |-> Own[resolving],
                   pre |-> AttrPre, post |-> AttrPost]
  <2>1. phase = "up" /\ resolving \in Callee
    BY <1>0, <1>4, ResolvingWhenUp DEF AddAttributeHooks, Walked, TypeOK
  <2>2. r \in Registered /\ clean
    BY <1>4, <2>1, TypeAssumption DEF Registered, AddAttributeHooks, AddObserver
  <2>3. /\ AddObserver(r.table, r.name, ListOf(r.pre), ListOf(r.post))
        /\ reg' = reg \cup {r}
    BY <1>4 DEF AddAttributeHooks
  <2> HIDE DEF r
  <2> QED
    BY <2>1, <2>2, <2>3, AddKeepsKeys
<1>5. ASSUME UNCHANGED <<phase, lookup, reg, clean>> PROVE KeysInv'
  BY <1>1, <1>5
<1> QED
  BY <1>2, <1>3, <1>4, <1>5
  DEF Next, Resolve, RequestStart, RSHUTDOWN, IniSet, HookCallWithoutTables, FcallInit,
      FcallInitWithoutTables, CallHandlers, VisitType, FinishUnobserved,
      FinishObserved, vars, processVars, tableVars, historyVars

\* When the request shuts down, the slots of the callees lose their hooks.
LEMMA ShutdownEmptiesSlots ==
    ASSUME TypeOK, MemoryInv, clean, RSHUTDOWN, NEW f \in Callee, ext[f] # NULL
    PROVE  heap'[ext[f]].pre = <<>> /\ heap'[ext[f]].post = <<>>
<1>1. Sound
  BY DEF Sound, RSHUTDOWN
<1>2. PICK i \in DOMAIN aggregates : aggregates[i] = ext[f]
  BY <1>1 DEF MemoryInv, SlotsHoldAggregates
<1>3. <<i>> \in Slot /\ SlotAddr(<<i>>) = ext[f]
  BY <1>2 DEF Slot, SlotAddr
<1>4. ext[f] \in Owned /\ ext[f] \in Addr
  BY <1>3 DEF Owned, TypeOK
<1>5. \E b : heap'[ext[f]] = Dead(b)
  BY <1>4 DEF RSHUTDOWN, DestroySlots
<1> QED
  BY <1>5 DEF Dead

\* Every step keeps the caches as they should be.
LEMMA CachesStep ==
    ASSUME TypeOK, MemoryInv, [Next]_vars, clean', clean => CachesInv
    PROVE  CachesInv'
<1>0. NothingBeforeUp /\ NULL \notin Callee /\ resolved \subseteq Callee
  BY NullAssumption DEF MemoryInv, TypeOK
<1>1. CASE RequestStart
  BY <1>1 DEF RequestStart, CachesInv
<1> SUFFICES ASSUME ~RequestStart PROVE CachesInv'
  BY <1>1
<1>2. clean /\ CachesInv
  BY CleanBefore
<1>3. CASE RINIT
  BY <1>2, <1>3 DEF RINIT, CachesInv, engineVars, jobVars
<1>4. CASE RSHUTDOWN
  <2>1. /\ UNCHANGED <<resolving, resolved, ext, handlers>>
        /\ \A f \in Callee : ext[f] # NULL => heap'[ext[f]].pre = <<>> /\ heap'[ext[f]].post = <<>>
    BY <1>2, <1>4, ShutdownEmptiesSlots DEF RSHUTDOWN, engineVars, jobVars
  <2> QED
    BY <1>2, <2>1 DEF CachesInv
<1>5. ASSUME UNCHANGED <<resolving, resolved, ext, handlers>>,
             phase' = "up" \/ (phase # "up" /\ UNCHANGED heap)
      PROVE  CachesInv'
  BY <1>2, <1>5 DEF CachesInv
<1>6. ASSUME NEW r \in Registration, HookCallWithoutTables(r) PROVE CachesInv'
  BY <1>2, <1>6 DEF HookCallWithoutTables, CachesInv, engineVars, jobVars
<1>7. ASSUME NEW f \in Callee, FcallInit(f) PROVE CachesInv'
  BY <1>2, <1>7 DEF FcallInit, CachesInv, processVars, engineVars, tableVars
<1>8. ASSUME NEW f \in Callee, FcallInitWithoutTables(f) PROVE CachesInv'
  <2>1. resolving = NULL
    BY <1>0, <1>8 DEF FcallInitWithoutTables, NothingBeforeUp
  <2> QED
    BY <1>0, <1>2, <1>8, <2>1
    DEF FcallInitWithoutTables, CachesInv, processVars, tableVars, jobVars
<1>9. CASE FinishUnobserved
  BY <1>0, <1>2, <1>9
  DEF FinishUnobserved, Walked, TypeOK, CachesInv, processVars, tableVars
<1>10. CASE FinishObserved
  <2>1. phase = "up" /\ phase' = "up" /\ resolving \in Callee
    BY <1>0, <1>10, ResolvingWhenUp DEF FinishObserved, Walked, TypeOK, processVars
  <2>2. /\ resolved' = resolved \cup {resolving} /\ resolving' = NULL
        /\ \A f \in Callee \ {resolving} : ext'[f] = ext[f] /\ handlers'[f] = handlers[f]
    BY <1>10 DEF FinishObserved, TypeOK
  <2> QED
    BY <1>0, <1>2, <2>1, <2>2 DEF CachesInv
<1>11. CASE VisitType \/ AddAttributeHooks
  <2>1. phase = "up"
    BY <1>0, <1>11, ResolvingWhenUp DEF VisitType, AddAttributeHooks, Walked
  <2> QED
    BY <1>5, <1>11, <2>1 DEF VisitType, AddAttributeHooks, processVars, engineVars
<1>12. ASSUME NEW r \in Registration, HookCall(r) PROVE CachesInv'
  BY <1>5, <1>12 DEF HookCall, processVars, engineVars, jobVars
<1>13. CASE IniSet \/ (\E f \in Callee : CallHandlers(f)) \/ UNCHANGED vars
  <2>1. UNCHANGED <<resolving, resolved, ext, handlers, phase, heap>>
    BY <1>13 DEF IniSet, CallHandlers, vars, processVars, tableVars, engineVars, jobVars
  <2> QED
    BY <1>5, <2>1
<1> QED
  BY <1>3, <1>4, <1>6, <1>7, <1>8, <1>9, <1>10, <1>11, <1>12, <1>13 DEF Next, Resolve

-----------------------------------------------------------------------------
(* The walk.                                                               *)

LEMMA SameFound ==
    ASSUME UNCHANGED lookup, NEW t, NEW n
    PROVE  FindObserver(t, n)' = FindObserver(t, n)
BY DEF FindObserver

\* A walk starts with the callee's own name or class ahead of it.
LEMMA NewWalk ==
    ASSUME NEW f \in Callee, resolving' = f,
           job'.work = <<Own[f]>>, job'.seen = {}, job'.pre = <<>>, job'.post = <<>>
    PROVE  WalkInv'
<1>1. Ahead' = {Own[f]}
  BY DEF Ahead
<1>2. job'.seen \cup Ahead' \subseteq Contract!Types(f)
  BY <1>1, TypesAreClosed
<1>3. Collected' = {}
  BY DEF Collected
<1>4. ASSUME NEW h \in Hook
      PROVE  /\ Count(job'.pre, h) = Cardinality(WithPre(Collected', h))
             /\ Count(job'.post, h) = Cardinality(WithPost(Collected', h))
  BY <1>3, CountOfNone, NoneWith
<1>5. \E passed \in SUBSET Name :
        /\ Own[f] \in passed \cup Ahead'
        /\ \A c \in passed : /\ Hooked(c)' => c \in job'.seen
                             /\ Above(f, c) \subseteq passed \cup Ahead'
        /\ job'.seen \subseteq passed
  <2> WITNESS {} \in SUBSET Name
  <2> QED
    BY <1>1
<1> QED
  BY <1>2, <1>4, <1>5 DEF WalkInv, WithPre, WithPost

\* Facts about the walk of a callee, when it takes the next type.
LEMMA WalkOn ==
    ASSUME TypeOK, VisitType
    PROVE  LET c == Head(job.work) IN
           /\ resolving \in Callee /\ c \in Name /\ c \in Ahead
           /\ Ahead \subseteq {c} \cup Ahead'
           /\ Ahead' \subseteq Ahead \cup Above(resolving, c)
           /\ c \notin job.seen => Above(resolving, c) \subseteq Ahead'
<1> DEFINE c       == Head(job.work)
           visited == c \in job.seen
           next    == Onward(resolving, c, visited)
           rest    == Tail(job.work)
<1>1. resolving \in Callee /\ job.work \in Seq(Name) /\ job.work # <<>>
  BY DEF VisitType, TypeOK, Job
<1>2. c \in Name /\ rest \in Seq(Name) /\ next \in Seq(Name) /\ visited \in BOOLEAN
  BY <1>1, OnwardType
<1>3. job'.work = next \o rest
  BY DEF VisitType, TypeOK, Job
<1>4. /\ 1 \in DOMAIN job.work /\ job.work[1] = c
      /\ \A i \in DOMAIN job.work : i = 1 \/ (i - 1 \in DOMAIN rest /\ rest[i - 1] = job.work[i])
      /\ \A i \in DOMAIN rest : i + 1 \in DOMAIN job.work /\ job.work[i + 1] = rest[i]
  BY <1>1
<1> HIDE DEF visited, rest, c
<1>5. /\ \A i \in DOMAIN next : next[i] \in Above(resolving, c)
      /\ ~visited => \A d \in Above(resolving, c) : \E i \in DOMAIN next : next[i] = d
  BY <1>1, <1>2, OnwardIsAbove
<1> HIDE DEF next
<1>6. Ahead' = {(next \o rest)[i] : i \in DOMAIN (next \o rest)}
  BY <1>3 DEF Ahead
<1>7. c \in Ahead
  BY <1>4 DEF Ahead
<1>8. ASSUME NEW d \in Ahead PROVE d \in {c} \cup Ahead'
  <2>1. PICK i \in DOMAIN job.work : job.work[i] = d
    BY <1>8 DEF Ahead
  <2>2. CASE i = 1
    BY <1>4, <2>1, <2>2
  <2>3. CASE i - 1 \in DOMAIN rest /\ rest[i - 1] = d
    <3>1. PICK j \in DOMAIN rest : rest[j] = d
      BY <2>3
    <3>2. /\ Len(next) + j \in DOMAIN (next \o rest)
          /\ (next \o rest)[Len(next) + j] = d
      BY <1>2, <3>1, Together
    <3> QED
      BY <1>6, <3>2
  <2> QED
    BY <1>4, <2>1, <2>2, <2>3
<1>9. ASSUME NEW d \in Ahead' PROVE d \in Ahead \cup Above(resolving, c)
  <2>1. PICK i \in DOMAIN (next \o rest) : (next \o rest)[i] = d
    BY <1>6, <1>9
  <2>2. CASE i \in DOMAIN next /\ next[i] = d
    BY <1>5, <2>2
  <2>3. CASE i - Len(next) \in DOMAIN rest /\ rest[i - Len(next)] = d
    <3>1. PICK j \in DOMAIN rest : rest[j] = d
      BY <2>3
    <3> QED
      BY <1>4, <3>1 DEF Ahead
  <2> QED
    BY <1>2, <2>1, <2>2, <2>3, Together
<1>10. ASSUME ~visited, NEW d \in Above(resolving, c) PROVE d \in Ahead'
  <2>1. PICK i \in DOMAIN next : next[i] = d
    BY <1>5, <1>10
  <2> QED
    BY <1>2, <1>6, <2>1, Together
<1> QED
  BY <1>1, <1>2, <1>7, <1>8, <1>9, <1>10 DEF visited, c

\* Whatever becomes of the type that is taken, it has been passed then.
LEMMA Passing ==
    ASSUME TypeOK, WalkInv, VisitType,
           LET c == Head(job.work) IN
               \/ UNCHANGED job.seen /\ (c \in job.seen \/ ~Hooked(c))
               \/ c \notin job.seen /\ job'.seen = job.seen \cup {c}
    PROVE  \E passed \in SUBSET Name :
            /\ Own[resolving] \in passed \cup Ahead'
            /\ \A c \in passed : /\ Hooked(c) => c \in job'.seen
                                 /\ Above(resolving, c) \subseteq passed \cup Ahead'
            /\ job'.seen \subseteq passed
<1> DEFINE c == Head(job.work)
<1>1. /\ c \in Name /\ c \in Ahead
      /\ Ahead \subseteq {c} \cup Ahead'
      /\ c \notin job.seen => Above(resolving, c) \subseteq Ahead'
  BY WalkOn
<1>2. PICK passed \in SUBSET Name :
        /\ Own[resolving] \in passed \cup Ahead
        /\ \A d \in passed : /\ Hooked(d) => d \in job.seen
                             /\ Above(resolving, d) \subseteq passed \cup Ahead
        /\ job.seen \subseteq passed
  BY DEF WalkInv, VisitType
<1> DEFINE now == passed \cup {c}
<1>3. now \in SUBSET Name /\ passed \cup Ahead \subseteq now \cup Ahead'
  BY <1>1
<1>4. job.seen \subseteq job'.seen /\ job'.seen \subseteq now
  BY <1>2
<1>5. ASSUME NEW d \in passed
      PROVE  /\ Hooked(d) => d \in job'.seen
             /\ Above(resolving, d) \subseteq now \cup Ahead'
  BY <1>2, <1>3, <1>4
<1>6. Hooked(c) => c \in job'.seen
  BY <1>4
<1>7. Above(resolving, c) \subseteq now \cup Ahead'
  BY <1>1, <1>2, <1>3
<1>8. Own[resolving] \in now \cup Ahead'
  BY <1>2, <1>3
<1>9. ASSUME NEW d \in now
      PROVE  /\ Hooked(d) => d \in job'.seen
             /\ Above(resolving, d) \subseteq now \cup Ahead'
  <2>1. CASE d = c
    BY <1>6, <1>7, <2>1
  <2>2. CASE d \in passed
    BY <1>5, <2>2
  <2> QED
    BY <1>9, <2>1, <2>2
<1> HIDE DEF now
<1>10. now \in SUBSET Name
  BY <1>3
<1> USE <1>10
<1> WITNESS now \in SUBSET Name
<1> QED
  BY <1>4, <1>8, <1>9

\* Each turn of the loop of find_class_observers keeps the walk on its way.
LEMMA VisitKeepsWalk ==
    ASSUME TypeOK, MemoryInv, LowercaseKeyAlways, IsFiniteSet(reg), clean, ContractInv,
           VisitType
    PROVE  WalkInv'
<1> DEFINE f == resolving
           t == Home[resolving]
           c == Head(job.work)
           a == FindObserver(t, c)
<1>1. /\ f \in Callee /\ c \in Name /\ c \in Ahead
      /\ Ahead' \subseteq Ahead \cup Above(f, c)
  BY WalkOn
<1>2. Sound /\ KeysInv /\ WalkInv /\ t \in Table
  <2>1. phase = "up"
    BY ResolvingWhenUp DEF VisitType, MemoryInv
  <2> QED
    BY <1>1, <2>1, TypeAssumption DEF Sound, ContractInv
<1>3. UNCHANGED <<resolving, lookup, heap, reg>>
  BY DEF VisitType, historyVars
<1>4. \A d : Hooked(d)' <=> Hooked(d)
  BY <1>3, SameFound DEF Hooked
<1>5. /\ job.seen \cup Ahead \subseteq Contract!Types(f)
      /\ \A d \in job.seen : Hooked(d)
      /\ \A h \in Hook : /\ Count(job.pre, h) = Cardinality(WithPre(Collected, h))
                         /\ Count(job.post, h) = Cardinality(WithPost(Collected, h))
  BY <1>2 DEF WalkInv, VisitType, WithPre, WithPost
<1>6. c \in Contract!Types(f) /\ Ahead' \subseteq Contract!Types(f)
  BY <1>1, <1>5, TypesAreClosed
<1>7. ASSUME \/ UNCHANGED job.seen /\ (c \in job.seen \/ ~Hooked(c))
             \/ c \notin job.seen /\ Hooked(c) /\ job'.seen = job.seen \cup {c},
             \A h \in Hook :
                /\ Count(job'.pre, h) = Cardinality(WithPre(Collected', h))
                /\ Count(job'.post, h) = Cardinality(WithPost(Collected', h))
      PROVE  WalkInv'
  <2>1. job'.seen \cup Ahead' \subseteq Contract!Types(f)
    BY <1>5, <1>6, <1>7
  <2>2. \A d \in job'.seen : Hooked(d)'
    BY <1>4, <1>5, <1>7
  <2>3. \E passed \in SUBSET Name :
            /\ Own[resolving] \in passed \cup Ahead'
            /\ \A d \in passed : /\ Hooked(d)' => d \in job'.seen
                                 /\ Above(resolving, d) \subseteq passed \cup Ahead'
            /\ job'.seen \subseteq passed
    BY <1>2, <1>4, <1>7, Passing
  <2> QED
    BY <1>3, <1>7, <2>1, <2>2, <2>3 DEF WalkInv, WithPre, WithPost
<1>8. CASE c \in job.seen \/ a = NULL
  <2>1. job'.seen = job.seen /\ job'.pre = job.pre /\ job'.post = job.post
    BY <1>8 DEF VisitType, TypeOK, Job
  <2>2. Collected' = Collected
    BY <1>3, <2>1 DEF Collected
  <2> QED
    BY <1>5, <1>7, <1>8, <2>1, <2>2 DEF Hooked
<1>9. CASE c \notin job.seen /\ a # NULL
  <2>1. PICK r \in reg : r.table = t /\ Lower[r.name] = Lower[c]
    BY <1>1, <1>2, <1>9, RegisteredIfHooked
  <2>2. heap[a].pre = ListOf(r.pre) /\ heap[a].post = ListOf(r.post)
    BY <1>1, <1>2, <2>1, HookedIfRegistered DEF MemoryInv
  <2>3. /\ job'.seen = job.seen \cup {c}
        /\ job'.pre = job.pre \o ListOf(r.pre)
        /\ job'.post = job.post \o ListOf(r.post)
    BY <1>9, <2>2 DEF VisitType, TypeOK, Job
  <2>4. r \notin Collected
    <3>1. \A d \in job.seen : Lower[d] # Lower[c]
      BY <1>1, <1>5, <1>6, <1>9, TypesAreSpelledOnce
    <3> QED
      BY <2>1, <3>1 DEF Collected
  <2>5. Collected' = Collected \cup {r}
    <3>1. ASSUME NEW q \in reg, q.table = t, Lower[q.name] = Lower[c] PROVE q = r
      BY <1>2, <2>1, <3>1 DEF KeysInv
    <3> QED
      BY <1>3, <2>1, <2>3, <3>1 DEF Collected
  <2>6. IsFiniteSet(Collected)
    <3>1. Collected \in SUBSET reg
      BY DEF Collected
    <3> QED
      BY <3>1, FS_Subset
  <2>7. /\ r.pre \in Hook \cup {NULL} /\ r.post \in Hook \cup {NULL}
        /\ job.pre \in Seq(Hook) /\ job.post \in Seq(Hook)
    BY <2>1 DEF TypeOK, Registered, Job
  <2>8. ASSUME NEW h \in Hook
        PROVE  /\ Count(job'.pre, h) = Cardinality(WithPre(Collected', h))
               /\ Count(job'.post, h) = Cardinality(WithPost(Collected', h))
    <3>1. /\ Count(job.pre, h)  = Cardinality(WithPre(Collected, h))
          /\ Count(job.post, h) = Cardinality(WithPost(Collected, h))
      BY <1>5
    <3>2. /\ r.pre = h => Count(job'.pre, h) = Count(job.pre, h) + 1
          /\ r.pre # h => Count(job'.pre, h) = Count(job.pre, h)
      BY <2>3, <2>7, CountOneMore
    <3>3. /\ r.post = h => Count(job'.post, h) = Count(job.post, h) + 1
          /\ r.post # h => Count(job'.post, h) = Count(job.post, h)
      BY <2>3, <2>7, CountOneMore
    <3>4. /\ r.pre  = h => Cardinality(WithPre(Collected \cup {r}, h)) = Cardinality(WithPre(Collected, h)) + 1
          /\ r.pre  # h => Cardinality(WithPre(Collected \cup {r}, h)) = Cardinality(WithPre(Collected, h))
          /\ r.post = h => Cardinality(WithPost(Collected \cup {r}, h)) = Cardinality(WithPost(Collected, h)) + 1
          /\ r.post # h => Cardinality(WithPost(Collected \cup {r}, h)) = Cardinality(WithPost(Collected, h))
      BY <2>4, <2>6, OneMoreWith
    <3>5. Count(job'.pre, h) = Cardinality(WithPre(Collected \cup {r}, h))
      <4>1. CASE r.pre = h
        BY <3>1, <3>2, <3>4, <4>1
      <4>2. CASE r.pre # h
        BY <3>1, <3>2, <3>4, <4>2
      <4> QED
        BY <4>1, <4>2
    <3>6. Count(job'.post, h) = Cardinality(WithPost(Collected \cup {r}, h))
      <4>1. CASE r.post = h
        BY <3>1, <3>3, <3>4, <4>1
      <4>2. CASE r.post # h
        BY <3>1, <3>3, <3>4, <4>2
      <4> QED
        BY <4>1, <4>2
    <3> QED
      BY <2>5, <3>5, <3>6
  <2> QED
    BY <1>7, <1>9, <2>3, <2>8 DEF Hooked
<1> QED
  BY <1>8, <1>9

\* Every step keeps the walk on its way.
LEMMA WalkStep ==
    ASSUME TypeOK, MemoryInv, LowercaseKeyAlways, IsFiniteSet(reg), ContractInv,
           [Next]_vars, clean'
    PROVE  WalkInv'
<1>0. NothingBeforeUp
  BY DEF MemoryInv
<1>1. CASE resolving' = NULL
  BY <1>1 DEF WalkInv
<1>2. ASSUME NEW f \in Callee, FcallInit(f) PROVE WalkInv'
  BY <1>2, NewWalk DEF FcallInit, NoJob
<1>3. CASE AddAttributeHooks
  <2>1. resolving \in Callee
    BY <1>3 DEF AddAttributeHooks, Walked, TypeOK
  <2> QED
    BY <1>3, <2>1, NewWalk DEF AddAttributeHooks, NoJob
<1>4. CASE VisitType
  BY <1>4, VisitKeepsWalk DEF VisitType, historyVars
<1>5. CASE UNCHANGED vars
  <2>1. clean /\ WalkInv
    BY <1>5 DEF ContractInv, vars, historyVars
  <2>2. Ahead' = Ahead /\ Collected' = Collected /\ \A c : Hooked(c)' <=> Hooked(c)
    BY <1>5, SameFound DEF Ahead, Collected, Hooked, vars, jobVars, tableVars, historyVars
  <2> QED
    BY <1>5, <2>1, <2>2 DEF WalkInv, vars, jobVars
<1>6. resolving = NULL => resolving' = NULL \/ \E f \in Callee : FcallInit(f)
  BY DEF Next, Resolve, RequestStart, RINIT, RSHUTDOWN, IniSet, HookCall,
         HookCallWithoutTables, FcallInitWithoutTables, CallHandlers, VisitType,
         AddAttributeHooks, FinishUnobserved, FinishObserved, Walked, vars, jobVars
<1>7. CASE resolving # NULL
  <2>1. phase = "up"
    BY <1>0, <1>7, ResolvingWhenUp
  <2> QED
    BY <1>1, <1>2, <1>3, <1>4, <1>5, <1>7, <2>1
    DEF Next, Resolve, RequestStart, RINIT, RSHUTDOWN, IniSet, HookCall,
        HookCallWithoutTables, FcallInit, FcallInitWithoutTables, CallHandlers,
        FinishUnobserved, FinishObserved
<1> QED
  BY <1>1, <1>2, <1>6, <1>7

LEMMA ContractInvInit == Init => ContractInv
<1> SUFFICES ASSUME Init PROVE CachesInv /\ phase # "up" /\ WalkInv
  BY DEF ContractInv
<1> QED
  BY DEF Init, CachesInv, WalkInv

LEMMA ContractInvStep ==
    ASSUME TypeOK, MemoryInv, LowercaseKeyAlways, IsFiniteSet(reg), ContractInv, [Next]_vars
    PROVE  ContractInv'
<1> SUFFICES ASSUME clean' PROVE (phase' = "up" => KeysInv') /\ CachesInv' /\ WalkInv'
  BY DEF ContractInv
<1>1. phase' = "up" => KeysInv'
  BY KeysStep DEF ContractInv
<1>2. CachesInv'
  BY CachesStep DEF ContractInv
<1> QED
  BY <1>1, <1>2, WalkStep

\* A request has finitely many registrations.
THEOREM FinitelyManyRegistrations == Spec => []IsFiniteSet(reg)
<1>1. Init => IsFiniteSet(reg)
  BY FS_EmptySet DEF Init
<1> QED
  BY <1>1, FiniteStep, PTL DEF Spec

\* As long as no key has been stored over, the tables, the caches and the walk
\* through the hierarchy are on the way to what the contract promises.
THEOREM ContractInvHolds == Spec => []ContractInv
<1>1. TypeOK /\ MemoryInv /\ LowercaseKeyAlways /\ IsFiniteSet(reg) /\ ContractInv /\ [Next]_vars
        => ContractInv'
  BY ContractInvStep
<1> QED
  BY <1>1, ContractInvInit, TypeCorrect, MemoryInvHolds, LowercaseKeyAlwaysHolds,
     FinitelyManyRegistrations, PTL DEF Spec

-----------------------------------------------------------------------------
(* The mapping.                                                            *)

\* BoundHooks for slots e, a heap m and handlers k.
ListsOf(e, m, f) == IF e[f] = NULL THEN NoObserver ELSE m[e[f]]

BoundBy(e, m, k) ==
    [f \in Callee |->
        [pre  |-> [h \in Hook |-> IF "begin" \in k[f] THEN Count(ListsOf(e, m, f).pre, h) ELSE 0],
         post |-> [h \in Hook |-> IF "end" \in k[f] THEN Count(ListsOf(e, m, f).post, h) ELSE 0]]]

LEMMA BoundHooksBy ==
    /\ BoundHooks = BoundBy(ext, heap, handlers)
    /\ BoundHooks' = BoundBy(ext', heap', handlers')
<1>1. BoundHooks = BoundBy(ext, heap, handlers)
  BY DEF BoundHooks, BoundBy, Runs, ListsOf
<1>2. BoundHooks' = BoundBy(ext', heap', handlers')
  BY DEF BoundHooks, BoundBy, Runs, ListsOf
<1> QED
  BY <1>1, <1>2

\* Slots that are empty, or whose observers have empty lists, bind no hooks.
LEMMA NoneBound ==
    ASSUME NEW e, NEW m, NEW k,
           \A f \in Callee : ListsOf(e, m, f).pre = <<>> /\ ListsOf(e, m, f).post = <<>>
    PROVE  BoundBy(e, m, k) = [f \in Callee |-> Contract!NoHooks]
<1>1. \A h : Count(<<>>, h) = 0
  BY CountOfNone
<1> SUFFICES ASSUME NEW f \in Callee
             PROVE  BoundBy(e, m, k)[f] = Contract!NoHooks
  BY DEF BoundBy
<1> QED
  BY <1>1 DEF BoundBy, Contract!NoHooks

\* The binding depends on the handlers and on the lists of the observers in
\* the slots alone.
LEMMA SameBound ==
    ASSUME NEW e, NEW m, NEW n, NEW k,
           \A f \in Callee : e[f] # NULL => m[e[f]] = n[e[f]]
    PROVE  BoundBy(e, m, k) = BoundBy(e, n, k)
<1>1. \A f \in Callee : ListsOf(e, m, f) = ListsOf(e, n, f)
  BY DEF ListsOf
<1> QED
  BY <1>1 DEF BoundBy

\* The observers in the slots are live.
LEMMA SlotsAreLive ==
    ASSUME TypeOK, MemoryInv, Sound, NEW f \in Callee, ext[f] # NULL
    PROVE  heap[ext[f]].live /\ ext[f] \in Addr
BY DEF MemoryInv, SlotsHoldAggregates, TypeOK

\* A registration binds nothing to functions that were called before.
LEMMA AddKeepsBound ==
    ASSUME TypeOK, MemoryInv, phase = "up", clean',
           NEW r \in Registered,
           AddObserver(r.table, r.name, ListOf(r.pre), ListOf(r.post)),
           UNCHANGED <<ext, handlers>>
    PROVE  BoundHooks' = BoundHooks
<1>1. Sound
  BY CleanAdd
<1>2. PICK a \in Addr : ~heap[a].live /\ heap' = Allocated(heap, a, ListOf(r.pre), ListOf(r.post))
  BY CleanAdd
<1>3. \A f \in Callee : ext[f] # NULL => heap'[ext[f]] = heap[ext[f]]
  <2> TAKE f \in Callee
  <2> HAVE ext[f] # NULL
  <2>1. heap[ext[f]].live /\ ext[f] \in Addr /\ ext[f] # a
    BY <1>1, <1>2, SlotsAreLive
  <2> QED
    BY <1>2, <2>1 DEF Allocated, TypeOK
<1>4. BoundBy(ext, heap', handlers) = BoundBy(ext, heap, handlers)
  BY <1>3, SameBound
<1> QED
  BY <1>4, BoundHooksBy

\* The contract counts as the registry does.
LEMMA OneCardinality ==
    ASSUME NEW S
    PROVE  Contract!Cardinality(S) = Cardinality(S)
BY DEF Contract!Cardinality, Cardinality

LEMMA BindingCounts ==
    ASSUME NEW f
    PROVE  Contract!Binding(f)
             = [pre  |-> [h \in Hook |-> Cardinality(WithPre(Contract!Applying(f), h))],
                post |-> [h \in Hook |-> Cardinality(WithPost(Contract!Applying(f), h))]]
<1> DEFINE A == Contract!Applying(f)
<1>1. \A h : {r \in A : r.pre = h} = WithPre(A, h) /\ {r \in A : r.post = h} = WithPost(A, h)
  BY DEF WithPre, WithPost
<1>2. Contract!Binding(f)
        = [pre  |-> [h \in Hook |-> Contract!Cardinality({r \in A : r.pre = h})],
           post |-> [h \in Hook |-> Contract!Cardinality({r \in A : r.post = h})]]
  BY Zenon DEF Contract!Binding
<1> HIDE DEF A
<1>3. [h \in Hook |-> Contract!Cardinality({r \in A : r.pre = h})]
        = [h \in Hook |-> Cardinality(WithPre(A, h))]
  BY <1>1, OneCardinality
<1>4. [h \in Hook |-> Contract!Cardinality({r \in A : r.post = h})]
        = [h \in Hook |-> Cardinality(WithPost(A, h))]
  BY <1>1, OneCardinality
<1> QED
  BY <1>2, <1>3, <1>4 DEF A

\* When the walk is over, it has collected what applies to the callee.
LEMMA WalkedThrough ==
    ASSUME TypeOK, MemoryInv, LowercaseKeyAlways, clean, ContractInv, Walked
    PROVE  Contract!Binding(resolving)
              = [pre  |-> [h \in Hook |-> Count(job.pre, h)],
                 post |-> [h \in Hook |-> Count(job.post, h)]]
<1> DEFINE f == resolving
<1>1. f \in Callee /\ resolving # NULL
  BY DEF Walked, TypeOK
<1>2. Sound /\ KeysInv /\ WalkInv /\ Home[f] \in Table
  <2>1. phase = "up"
    BY ResolvingWhenUp DEF Walked, MemoryInv
  <2> QED
    BY <1>1, <2>1, TypeAssumption DEF Sound, ContractInv
<1>3. Ahead = {}
  BY DEF Ahead, Walked
<1>4. PICK passed \in SUBSET Name :
        /\ Own[f] \in passed
        /\ \A c \in passed : (Hooked(c) => c \in job.seen) /\ Above(f, c) \subseteq passed
  BY <1>1, <1>2, <1>3 DEF WalkInv
<1>5. Contract!Types(f) \subseteq passed
  BY <1>1, <1>4, TypesAreLeast
<1>6. job.seen \subseteq Contract!Types(f)
  BY <1>1, <1>2 DEF WalkInv
<1>7. Contract!Applying(f) = Collected
  <2>1. ASSUME NEW r \in reg, r.table = Home[f],
               NEW c \in Contract!Types(f), Lower[r.name] = Lower[c]
        PROVE  c \in job.seen
    <3>1. c \in passed /\ c \in Name
      BY <1>5
    <3>2. FindObserver(Home[f], c) # NULL
      BY <1>2, <2>1, <3>1, HookedIfRegistered DEF MemoryInv
    <3> QED
      BY <1>4, <3>1, <3>2 DEF Hooked
  <2> QED
    BY <1>6, <2>1 DEF Contract!Applying, Collected
<1>8. \A h \in Hook : /\ Count(job.pre, h)  = Cardinality(WithPre(Collected, h))
                      /\ Count(job.post, h) = Cardinality(WithPost(Collected, h))
  BY <1>1, <1>2 DEF WalkInv, WithPre, WithPost
<1> QED
  BY <1>7, <1>8, BindingCounts

\* ... which is nothing when the walk has collected no hook.
LEMMA WalkedInVain ==
    ASSUME TypeOK, MemoryInv, LowercaseKeyAlways, clean, ContractInv, Walked, NothingFound
    PROVE  Contract!Binding(resolving) = Contract!NoHooks
<1>1. \A h : Count(<<>>, h) = 0
  BY CountOfNone
<1> QED
  BY <1>1, WalkedThrough DEF NothingFound, Contract!NoHooks

-----------------------------------------------------------------------------
(* The steps.                                                              *)

\* What a step of the registry is in the contract.
Promising(r) ==
    /\ phase = "up" /\ phase' = "up"
    /\ reg' = reg \cup {r}
    /\ resolved' = resolved /\ BoundHooks' = BoundHooks

Settling(f) ==
    /\ f \in Callee \ resolved
    /\ resolved' = resolved \cup {f}
    /\ phase' = phase /\ reg' = reg

Stuttering ==
    /\ phase' = "up" <=> phase = "up"
    /\ reg' = reg /\ resolved' = resolved /\ BoundHooks' = BoundHooks

LEMMA StutteringImplements ==
    ASSUME Stuttering
    PROVE  [Contract!Next]_(Contract!vars)
<1>1. (phase' = "up") = (phase = "up")
  BY DEF Stuttering
<1>2. reg' = reg /\ resolved' = resolved /\ BoundHooks' = BoundHooks
  BY DEF Stuttering
<1> QED
  BY <1>1, <1>2 DEF Contract!vars

LEMMA PromisingImplements ==
    ASSUME NEW r, Promising(r)
    PROVE  Contract!Promise(r)
<1>1. (phase' = "up") = (phase = "up")
  BY DEF Promising
<1> QED
  BY <1>1 DEF Promising, Contract!Promise

LEMMA SettlingImplements ==
    ASSUME NEW f, Settling(f),
           BoundHooks' = IF phase = "up"
                         THEN [BoundHooks EXCEPT ![f] = Contract!Binding(f)] ELSE BoundHooks
    PROVE  Contract!Settle(f)
<1>1. (phase' = "up") = (phase = "up")
  BY DEF Settling
<1> QED
  BY <1>1 DEF Settling, Contract!Settle

\* A new request begins with nothing bound, promised or settled.
LEMMA StartImplements ==
    ASSUME CachesInv, RequestStart
    PROVE  Contract!Begin
<1>1. phase # "up" /\ phase' # "up" /\ reg' = {} /\ resolved' = {}
  BY DEF RequestStart
<1>2. BoundBy(ext, heap, handlers) = [f \in Callee |-> Contract!NoHooks]
  <2>1. \A f \in Callee : ListsOf(ext, heap, f).pre = <<>> /\ ListsOf(ext, heap, f).post = <<>>
    BY <1>1 DEF CachesInv, ListsOf, NoObserver, Dead
  <2> QED
    BY <2>1, NoneBound
<1>3. BoundBy(ext', heap', handlers') = [f \in Callee |-> Contract!NoHooks]
  <2>1. \A f \in Callee :
            ListsOf(ext', heap', f).pre = <<>> /\ ListsOf(ext', heap', f).post = <<>>
    BY DEF RequestStart, ListsOf, NoObserver, Dead
  <2> QED
    BY <2>1, NoneBound
<1>4. BoundHooks' = BoundHooks
  BY <1>2, <1>3, BoundHooksBy
<1>5. (phase' = "up") = (phase = "up")
  BY <1>1
<1> QED
  BY <1>1, <1>4, <1>5 DEF Contract!Begin

\* RINIT opens the request.
LEMMA InitImplements ==
    ASSUME RINIT
    PROVE  Contract!Open
<1>1. phase # "up" /\ phase' = "up" /\ UNCHANGED <<reg, resolved, ext, heap, handlers>>
  BY DEF RINIT, tableVars, engineVars, historyVars
<1>2. BoundHooks' = BoundHooks
  BY <1>1, BoundHooksBy
<1>3. (phase' = "up") = TRUE
  BY <1>1
<1> QED
  BY <1>1, <1>2, <1>3 DEF Contract!Open

\* RSHUTDOWN closes it, and every binding ends.
LEMMA ShutdownImplements ==
    ASSUME TypeOK, MemoryInv, clean, RSHUTDOWN
    PROVE  Contract!Close
<1>1. phase = "up" /\ phase' # "up" /\ UNCHANGED <<reg, resolved, ext, handlers>>
  BY DEF RSHUTDOWN, engineVars, historyVars
<1>2. \A f \in Callee : ListsOf(ext, heap', f).pre = <<>> /\ ListsOf(ext, heap', f).post = <<>>
  BY ShutdownEmptiesSlots DEF ListsOf, NoObserver, Dead
<1>3. BoundBy(ext, heap', handlers) = [f \in Callee |-> Contract!NoHooks]
  BY <1>2, NoneBound
<1>4. BoundHooks' = [f \in Callee |-> Contract!NoHooks]
  BY <1>1, <1>3, BoundHooksBy
<1>5. (phase' = "up") = FALSE
  BY <1>1
<1> QED
  BY <1>1, <1>4, <1>5 DEF Contract!Close

\* A script's registration is a promise.
LEMMA HookCallImplements ==
    ASSUME TypeOK, MemoryInv, clean', NEW r \in Registration, HookCall(r)
    PROVE  Contract!Promise(r)
<1>1. r \in Registered
  BY RegistrationAssumption
<1>2. /\ phase = "up" /\ AddObserver(r.table, r.name, ListOf(r.pre), ListOf(r.post))
      /\ UNCHANGED <<ext, handlers>>
  BY DEF HookCall, engineVars
<1>3. BoundHooks' = BoundHooks
  BY <1>1, <1>2, AddKeepsBound
<1>4. Promising(r)
  BY <1>3 DEF HookCall, Promising, processVars, engineVars
<1> QED
  BY <1>4, PromisingImplements

\* The hooks of the attribute are promised to a callee that has no others.
LEMMA AttributeImplements ==
    ASSUME TypeOK, MemoryInv, LowercaseKeyAlways, clean, clean', ContractInv,
           AddAttributeHooks
    PROVE  resolving \in Callee /\ Contract!PromiseByAttribute(resolving)
<1> DEFINE r == [table |-> Home[resolving], name |-> Own[resolving],
                 pre |-> AttrPre, post |-> AttrPost]
<1>1. phase = "up" /\ resolving \in Callee
  BY ResolvingWhenUp DEF AddAttributeHooks, Walked, MemoryInv, TypeOK
<1>2. r \in Registered
  BY <1>1, TypeAssumption DEF Registered
<1>3. AddObserver(r.table, r.name, ListOf(r.pre), ListOf(r.post))
  BY DEF AddAttributeHooks
<1>4. UNCHANGED <<ext, handlers, phase, resolved>> /\ reg' = reg \cup {r}
  BY DEF AddAttributeHooks, engineVars, processVars
<1>5. resolving \in WithSpan \ resolved
  BY DEF AddAttributeHooks, UsesAttribute, ContractInv, CachesInv
<1>6. Contract!Binding(resolving) = Contract!NoHooks
  BY WalkedInVain DEF AddAttributeHooks
<1> HIDE DEF r
<1>7. BoundHooks' = BoundHooks
  BY <1>1, <1>2, <1>3, <1>4, AddKeepsBound
<1>8. Contract!Promise(r)
  BY <1>1, <1>4, <1>7, PromisingImplements DEF Promising
<1> QED
  BY <1>1, <1>5, <1>6, <1>8 DEF Contract!PromiseByAttribute, r

\* A callee without hooks is settled with none.
LEMMA UnobservedImplements ==
    ASSUME TypeOK, MemoryInv, LowercaseKeyAlways, clean, ContractInv, FinishUnobserved
    PROVE  resolving \in Callee /\ Contract!Settle(resolving)
<1>1. phase = "up" /\ resolving \in Callee /\ resolving \notin resolved
  BY ResolvingWhenUp
  DEF FinishUnobserved, Walked, MemoryInv, TypeOK, ContractInv, CachesInv
<1>2. Settling(resolving)
  BY <1>1 DEF FinishUnobserved, Settling, processVars, historyVars
<1>3. UNCHANGED <<ext, heap, handlers>>
  BY DEF FinishUnobserved, tableVars
<1>4. Contract!Binding(resolving) = Contract!NoHooks
  BY WalkedInVain DEF FinishUnobserved
<1>5. BoundHooks[resolving] = Contract!NoHooks
  <2>1. ext[resolving] = NULL /\ handlers[resolving] = {}
    BY <1>1 DEF ContractInv, CachesInv
  <2> QED
    BY <1>1, <2>1 DEF BoundHooks, Runs, Contract!NoHooks
<1>6. BoundHooks' = BoundHooks
  BY <1>3, BoundHooksBy
<1>7. [BoundHooks EXCEPT ![resolving] = Contract!Binding(resolving)] = BoundHooks
  BY <1>1, <1>4, <1>5 DEF BoundHooks
<1> QED
  BY <1>1, <1>2, <1>6, <1>7, SettlingImplements

\* A callee with hooks is settled with those that apply to it.
LEMMA ObservedImplements ==
    ASSUME TypeOK, MemoryInv, LowercaseKeyAlways, clean, ContractInv, FinishObserved
    PROVE  resolving \in Callee /\ Contract!Settle(resolving)
<1>1. phase = "up" /\ resolving \in Callee /\ resolving \notin resolved
  BY ResolvingWhenUp
  DEF FinishObserved, Walked, MemoryInv, TypeOK, ContractInv, CachesInv
<1>2. Settling(resolving)
  BY <1>1 DEF FinishObserved, Settling, processVars, historyVars
<1>3. Sound /\ PointersAreLive
  BY <1>1 DEF Sound, MemoryInv
<1>4. PICK a \in Free : /\ heap' = Allocated(heap, a, job.pre, job.post)
                        /\ ext' = [ext EXCEPT ![resolving] = a]
  BY DEF FinishObserved
<1>5. a \in Addr /\ ~heap[a].live /\ a # NULL
  BY <1>3, <1>4, NullAssumption DEF Free, PointersAreLive
<1>6. /\ heap'[a].pre = job.pre /\ heap'[a].post = job.post
      /\ \A b \in Addr \ {a} : heap'[b] = heap[b]
  BY <1>4, <1>5 DEF Allocated, TypeOK
<1>7. /\ ext'[resolving] = a /\ handlers'[resolving] = HandlersFor(job.pre, job.post)
      /\ \A f \in Callee \ {resolving} : ext'[f] = ext[f] /\ handlers'[f] = handlers[f]
  BY <1>1, <1>4 DEF FinishObserved, TypeOK
<1> DEFINE now == BoundBy(ext', heap', handlers')
           was == BoundBy(ext, heap, handlers)
<1>8. now[resolving] = Contract!Binding(resolving)
  <2>1. ListsOf(ext', heap', resolving) = heap'[a]
    BY <1>5, <1>7 DEF ListsOf
  <2>2. \A h : Count(<<>>, h) = 0
    BY CountOfNone
  <2>3. \A h : (IF "begin" \in handlers'[resolving] THEN Count(job.pre, h) ELSE 0)
                  = Count(job.pre, h)
    BY <1>7, <2>2 DEF HandlersFor
  <2>4. \A h : (IF "end" \in handlers'[resolving] THEN Count(job.post, h) ELSE 0)
                  = Count(job.post, h)
    BY <1>7, <2>2 DEF HandlersFor
  <2>5. now[resolving] = [pre  |-> [h \in Hook |-> Count(job.pre, h)],
                          post |-> [h \in Hook |-> Count(job.post, h)]]
    BY <1>1, <1>6, <2>1, <2>3, <2>4 DEF BoundBy
  <2>6. Walked
    BY DEF FinishObserved
  <2> QED
    BY <2>5, <2>6, WalkedThrough
<1>9. ASSUME NEW f \in Callee \ {resolving}
      PROVE  now[f] = was[f]
  <2>1. ext[f] # NULL => ext[f] \in Addr \ {a}
    BY <1>3, <1>5, SlotsAreLive
  <2>2. ListsOf(ext', heap', f) = ListsOf(ext, heap, f)
    BY <1>6, <1>7, <2>1 DEF ListsOf
  <2> QED
    BY <1>7, <2>2 DEF BoundBy
<1>10. DOMAIN now = Callee /\ DOMAIN was = Callee /\ now = [f \in Callee |-> now[f]]
       /\ was = [f \in Callee |-> was[f]]
  BY DEF BoundBy
<1> HIDE DEF now, was
<1>11. now = [was EXCEPT ![resolving] = Contract!Binding(resolving)]
  BY <1>1, <1>8, <1>9, <1>10
<1>12. BoundHooks' = [BoundHooks EXCEPT ![resolving] = Contract!Binding(resolving)]
  BY <1>11, BoundHooksBy DEF now, was
<1> QED
  BY <1>1, <1>2, <1>12, SettlingImplements

\* A function that is called without tables is settled with nothing bound.
LEMMA WithoutTablesImplements ==
    ASSUME NEW f \in Callee, FcallInitWithoutTables(f)
    PROVE  Contract!Settle(f)
<1>1. phase # "up" /\ UNCHANGED <<ext, heap, handlers>> /\ Settling(f)
  BY DEF FcallInitWithoutTables, Settling, processVars, tableVars, historyVars
<1>2. BoundHooks' = BoundHooks
  BY <1>1, BoundHooksBy
<1> QED
  BY <1>1, <1>2, SettlingImplements

\* The steps the contract does not see.
LEMMA OtherStepsStutter ==
    ASSUME \/ IniSet \/ VisitType \/ UNCHANGED vars
           \/ \E r \in Registration : HookCallWithoutTables(r)
           \/ \E f \in Callee : FcallInit(f) \/ CallHandlers(f)
    PROVE  Stuttering
<1>1. /\ phase' = "up" <=> phase = "up"
      /\ UNCHANGED <<reg, resolved, ext, heap, handlers>>
  BY DEF IniSet, VisitType, HookCallWithoutTables, FcallInit, CallHandlers, vars,
         processVars, tableVars, engineVars, historyVars
<1>2. BoundHooks' = BoundHooks
  BY <1>1, BoundHooksBy
<1> QED
  BY <1>1, <1>2 DEF Stuttering

LEMMA InitialContract == Init => Contract!Init
<1> SUFFICES ASSUME Init PROVE Contract!Init
  OBVIOUS
<1>1. (phase = "up") = FALSE /\ reg = {} /\ resolved = {}
  BY DEF Init
<1>2. \A f \in Callee : ListsOf(ext, heap, f).pre = <<>> /\ ListsOf(ext, heap, f).post = <<>>
  BY DEF Init, ListsOf, NoObserver, Dead
<1>3. BoundHooks = [f \in Callee |-> Contract!NoHooks]
  BY <1>2, NoneBound, BoundHooksBy
<1> QED
  BY <1>1, <1>3 DEF Contract!Init

\* Every step of the registry is a step of the contract, or none.
LEMMA StepImplements ==
    ASSUME TypeOK, MemoryInv, LowercaseKeyAlways, ContractInv, clean, clean', [Next]_vars
    PROVE  [Contract!Next]_(Contract!vars)
<1>0. CachesInv
  BY DEF ContractInv
<1>1. CASE RequestStart
  BY <1>0, <1>1, StartImplements DEF Contract!Next
<1>2. CASE RINIT
  BY <1>2, InitImplements DEF Contract!Next
<1>3. CASE RSHUTDOWN
  BY <1>3, ShutdownImplements DEF Contract!Next
<1>4. ASSUME NEW r \in Registration, HookCall(r)
      PROVE  [Contract!Next]_(Contract!vars)
  BY <1>4, HookCallImplements DEF Contract!Next
<1>5. ASSUME NEW f \in Callee, FcallInitWithoutTables(f)
      PROVE  [Contract!Next]_(Contract!vars)
  BY <1>5, WithoutTablesImplements DEF Contract!Next
<1>6. CASE AddAttributeHooks
  BY <1>6, AttributeImplements DEF Contract!Next
<1>7. CASE FinishUnobserved
  BY <1>7, UnobservedImplements DEF Contract!Next
<1>8. CASE FinishObserved
  BY <1>8, ObservedImplements DEF Contract!Next
<1>9. CASE \/ IniSet \/ VisitType \/ UNCHANGED vars
           \/ \E r \in Registration : HookCallWithoutTables(r)
           \/ \E f \in Callee : FcallInit(f) \/ CallHandlers(f)
  BY <1>9, OtherStepsStutter, StutteringImplements
<1> QED
  BY <1>1, <1>2, <1>3, <1>4, <1>5, <1>6, <1>7, <1>8, <1>9 DEF Next, Resolve

\* As long as no key of a table is stored over, each function is bound, when it
\* is first called, to exactly the hooks registered so far for its name, or for
\* its class, a parent or an interface, once each, and to no others until the
\* request ends.
THEOREM ImplementsContractHolds == Spec /\ []clean => ImplementsContract
<1>1. TypeOK /\ MemoryInv /\ LowercaseKeyAlways /\ ContractInv /\ clean /\ clean' /\ [Next]_vars
        => [Contract!Next]_(Contract!vars)
  BY StepImplements
<1> QED
  BY <1>1, InitialContract, TypeCorrect, MemoryInvHolds, LowercaseKeyAlwaysHolds,
     ContractInvHolds, PTL DEF Spec, ImplementsContract, Contract!Spec

=============================================================================
