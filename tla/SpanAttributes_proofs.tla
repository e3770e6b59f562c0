----------------------- MODULE SpanAttributes_proofs -----------------------
(***************************************************************************)
(* What the attributes of a function add to its hooks' parameters, proved  *)
(* for all functions, attributes, interfaces and arguments.                *)
(***************************************************************************)
EXTENDS SpanAttributes, SequenceTheorems, FiniteSetTheorems, WellFoundedInduction, TLAPS

-----------------------------------------------------------------------------
(* Sequences and tables.                                                   *)

\* A set of natural numbers that has an element has a least one: of the
\* intervals from 0 to its elements, one is minimal.
LEMMA LeastExists ==
    ASSUME NEW S, S \subseteq Nat, S # {}
    PROVE  Min(S) \in S
<1> DEFINE R == StrictSubsetOrdering(Nat)
           T == {0..n : n \in S}
<1>1. IsWellFoundedOn(R, FiniteSubsetsOf(Nat))
  BY FS_StrictSubsetOrderingWellFounded
<1>2. T \subseteq FiniteSubsetsOf(Nat) /\ T # {}
  <2>1. \A n \in S : 0..n \subseteq Nat /\ IsFiniteSet(0..n)
    BY FS_Interval
  <2> QED
    BY <2>1 DEF FiniteSubsetsOf
<1> HIDE DEF R
<1>3. \E x \in T : \A y \in T : ~(<<y, x>> \in R)
  <2> HIDE DEF T
  <2> QED
    BY <1>1, <1>2, WFMin
<1>4. PICK n \in S : \A m \in S : ~(<<0..m, 0..n>> \in R)
  BY <1>3
<1>5. \A m \in S : n =< m
  <2> SUFFICES ASSUME NEW m \in S, m < n PROVE FALSE
    OBVIOUS
  <2>1. 0..m \subseteq Nat /\ 0..n \subseteq Nat /\ 0..m \subseteq 0..n
    OBVIOUS
  <2>2. n \in 0..n /\ n \notin 0..m
    OBVIOUS
  <2> QED
    BY <1>4, <2>1, <2>2 DEF R, StrictSubsetOrdering
<1> QED
  BY <1>5 DEF Min

\* The greatest element of a set.
LEMMA GreatestIs ==
    ASSUME NEW S, S \subseteq Nat, NEW n \in S, \A m \in S : m <= n
    PROVE  Max(S) = n
<1>1. n \in Nat /\ \A m \in S : n >= m
  OBVIOUS
<1>2. ASSUME NEW x \in S, \A m \in S : x >= m PROVE x = n
  BY <1>1, <1>2
<1> QED
  BY <1>1, <1>2 DEF Max

\* Sequences without a word about what their elements are.
LEMMA SequenceIs ==
    ASSUME NEW s
    PROVE  /\ IsSequence(s) <=> Len(s) \in Nat /\ s = [i \in 1..Len(s) |-> s[i]]
           /\ IsSequence(s) => DOMAIN s = 1..Len(s) /\ Range(s) = {s[i] : i \in 1..Len(s)}
<1>1. ASSUME IsSequence(s)
      PROVE  Len(s) \in Nat /\ s = [i \in 1..Len(s) |-> s[i]] /\ DOMAIN s = 1..Len(s)
  BY <1>1 DEF IsSequence
<1>2. ASSUME Len(s) \in Nat, s = [i \in 1..Len(s) |-> s[i]]
      PROVE  IsSequence(s)
  <2>1. DOMAIN s = 1..Len(s)
    BY <1>2
  <2>2. \A i \in 1..Len(s) : s[i] \in Range(s)
    BY <2>1 DEF Range
  <2> QED
    BY <1>2, <2>2 DEF IsSequence
<1> QED
  BY <1>1, <1>2 DEF Range

\* An element more, and an element less.
LEMMA Appended ==
    ASSUME NEW s, IsSequence(s), NEW e
    PROVE  /\ IsSequence(Append(s, e)) /\ Len(Append(s, e)) = Len(s) + 1
           /\ \A i \in 1..Len(s) : Append(s, e)[i] = s[i]
           /\ Append(s, e)[Len(s) + 1] = e
           /\ Range(Append(s, e)) = Range(s) \cup {e}
<1> DEFINE S == Range(s) \cup {e}
           t == Append(s, e)
<1>1. s \in Seq(S) /\ e \in S /\ Len(s) \in Nat
  BY SequenceIs DEF Range
<1> HIDE DEF S
<1>2. /\ t \in Seq(S) /\ Len(t) = Len(s) + 1
      /\ \A i \in 1..Len(s) : t[i] = s[i]
      /\ t[Len(s) + 1] = e
  BY <1>1
<1> HIDE DEF t
<1>3. IsSequence(t)
  <2>1. Len(t) \in Nat /\ t = [i \in 1..Len(t) |-> t[i]]
    BY <1>2
  <2> QED
    BY <2>1, SequenceIs
<1>4. Range(t) = {t[i] : i \in 1..Len(t)} /\ Range(s) = {s[i] : i \in 1..Len(s)}
  BY <1>3, SequenceIs
<1>5. \A i \in 1..Len(t) : i \in 1..Len(s) \/ i = Len(s) + 1
  BY <1>1, <1>2
<1>6. \A i \in 1..Len(s) : i \in 1..Len(t)
  BY <1>1, <1>2
<1>7. Len(s) + 1 \in 1..Len(t)
  BY <1>1, <1>2
<1>8. Range(t) = Range(s) \cup {e}
  BY <1>2, <1>4, <1>5, <1>6, <1>7
<1> QED
  BY <1>2, <1>3, <1>8 DEF t

LEMMA Removed ==
    ASSUME NEW s, IsSequence(s), NEW n \in 1..Len(s)
    PROVE  /\ IsSequence(RemoveAt(s, n)) /\ Len(RemoveAt(s, n)) = Len(s) - 1
           /\ \A i \in 1..Len(s) - 1 : RemoveAt(s, n)[i] = IF i < n THEN s[i] ELSE s[i + 1]
<1>1. s \in Seq(Range(s)) /\ Len(s) \in Nat /\ n \in Nat /\ n >= 1 /\ n <= Len(s)
  BY SequenceIs DEF IsSequence
<1> DEFINE before == SubSeq(s, 1, n - 1)
           after  == SubSeq(s, n + 1, Len(s))
           t      == before \o after
<1>2. /\ before \in Seq(Range(s)) /\ Len(before) = n - 1
      /\ \A i \in 1..n - 1 : before[i] = s[i]
  BY <1>1, SubSeqProperties
<1>3. /\ after \in Seq(Range(s)) /\ Len(after) = Len(s) - n
      /\ \A i \in 1..Len(s) - n : after[i] = s[n + i]
  BY <1>1, SubSeqProperties
<1> HIDE DEF before, after
<1>4. /\ t \in Seq(Range(s)) /\ Len(t) = Len(s) - 1
      /\ \A i \in 1..Len(s) - 1 : t[i] = IF i <= n - 1 THEN before[i] ELSE after[i - (n - 1)]
  <2>1. t \in Seq(Range(s))
    BY <1>2, <1>3, ConcatProperties
  <2>2. Len(t) = Len(before) + Len(after)
    BY <1>2, <1>3, ConcatProperties
  <2>3. \A i \in 1..Len(before) + Len(after) :
          t[i] = IF i <= Len(before) THEN before[i] ELSE after[i - Len(before)]
    BY <1>2, <1>3, ConcatProperties
  <2> HIDE DEF t
  <2>4. Len(before) + Len(after) = Len(s) - 1
    BY <1>1, <1>2, <1>3
  <2> QED
    BY <1>2, <2>1, <2>2, <2>3, <2>4
<1>5. RemoveAt(s, n) = t
  BY DEF RemoveAt, before, after
<1> HIDE DEF t
<1>6. \A i \in 1..Len(s) - 1 : t[i] = IF i < n THEN s[i] ELSE s[i + 1]
  <2> SUFFICES ASSUME NEW i \in 1..Len(s) - 1 PROVE t[i] = IF i < n THEN s[i] ELSE s[i + 1]
    OBVIOUS
  <2>1. CASE i < n
    BY <1>1, <1>2, <1>4, <2>1
  <2>2. CASE ~(i < n)
    <3>1. i - (n - 1) \in 1..Len(s) - n /\ n + (i - (n - 1)) = i + 1
      BY <1>1, <2>2
    <3> QED
      BY <1>1, <1>3, <1>4, <2>2, <3>1
  <2> QED
    BY <2>1, <2>2
<1>7. IsSequence(t)
  <2>1. Len(t) \in Nat /\ t = [i \in 1..Len(t) |-> t[i]]
    BY <1>4
  <2> QED
    BY <2>1, SequenceIs
<1> QED
  BY <1>4, <1>5, <1>6, <1>7

\* A hash table has a key once.
IsTable(t) ==
    /\ IsSequence(t)
    /\ \A n, m \in DOMAIN t : t[n].key = t[m].key => n = m

\* Elements of w that follow each other do so in t.
FollowsOrder(w, t) ==
    \A n, m \in DOMAIN w : n < m => \E a, b \in DOMAIN t : a < b /\ t[a] = w[n] /\ t[b] = w[m]

\* Deleting a key leaves the other entries, in their order.
LEMMA WithoutIs ==
    ASSUME NEW t, IsTable(t), NEW key
    PROVE  /\ IsTable(Without(t, key)) /\ FollowsOrder(Without(t, key), t)
           /\ Range(Without(t, key)) = {e \in Range(t) : e.key # key}
<1>1. /\ IsSequence(t) /\ Len(t) \in Nat /\ DOMAIN t = 1..Len(t)
      /\ Range(t) = {t[i] : i \in 1..Len(t)}
      /\ \A n, m \in 1..Len(t) : t[n].key = t[m].key => n = m
  BY SequenceIs DEF IsTable
<1>2. CASE ~HasKey(t, key)
  <2>1. Without(t, key) = t
    BY <1>2 DEF Without
  <2>2. \A e \in Range(t) : e.key # key
    BY <1>1, <1>2 DEF HasKey
  <2> QED
    BY <2>1, <2>2 DEF FollowsOrder
<1>3. CASE HasKey(t, key)
  <2> DEFINE w == Without(t, key)
  <2>1. PICK n \in 1..Len(t) : n = Position(t, key) /\ t[n].key = key
    BY <1>1, <1>3 DEF HasKey, Position
  <2>2. /\ IsSequence(w) /\ Len(w) = Len(t) - 1
        /\ \A i \in 1..Len(t) - 1 : w[i] = IF i < n THEN t[i] ELSE t[i + 1]
    BY <1>1, <1>3, <2>1, Removed DEF Without
  <2> HIDE DEF w
  <2>3. DOMAIN w = 1..Len(t) - 1 /\ Range(w) = {w[i] : i \in 1..Len(t) - 1}
    BY <2>2, SequenceIs
  <2>4. FollowsOrder(w, t)
    <3> SUFFICES ASSUME NEW i \in DOMAIN w, NEW j \in DOMAIN w, i < j
                 PROVE  \E a, b \in DOMAIN t : a < b /\ t[a] = w[i] /\ t[b] = w[j]
      BY DEF FollowsOrder
    <3> DEFINE a == IF i < n THEN i ELSE i + 1
               b == IF j < n THEN j ELSE j + 1
    <3>1. i \in 1..Len(t) - 1 /\ j \in 1..Len(t) - 1
      BY <2>3
    <3>2. a \in DOMAIN t /\ b \in DOMAIN t /\ a < b
      BY <1>1, <3>1
    <3>3. t[a] = w[i] /\ t[b] = w[j]
      BY <2>2, <3>1
    <3> QED
      BY <3>2, <3>3
  <2>5. ASSUME NEW i \in 1..Len(t), i # n
        PROVE  \E j \in 1..Len(t) - 1 : w[j] = t[i]
    <3>1. CASE i < n
      <4>1. i \in 1..Len(t) - 1
        BY <1>1, <3>1
      <4> QED
        BY <2>2, <3>1, <4>1
    <3>2. CASE i > n
      <4>1. i - 1 \in 1..Len(t) - 1 /\ ~(i - 1 < n) /\ (i - 1) + 1 = i
        BY <1>1, <3>2
      <4>2. w[i - 1] = t[(i - 1) + 1]
        BY <2>2, <4>1
      <4> QED
        BY <4>1, <4>2
    <3> QED
      BY <2>5, <3>1, <3>2
  <2>6. ASSUME NEW j \in 1..Len(t) - 1
        PROVE  \E i \in 1..Len(t) : i # n /\ w[j] = t[i]
    <3> DEFINE i == IF j < n THEN j ELSE j + 1
    <3>1. i \in 1..Len(t) /\ i # n /\ w[j] = t[i]
      BY <1>1, <2>2
    <3> QED
      BY <3>1
  <2>7. Range(w) = {e \in Range(t) : e.key # key}
    <3>1. \A i \in 1..Len(t) : t[i].key = key <=> i = n
      BY <1>1, <2>1
    <3>2. \A e \in Range(w) : e \in Range(t) /\ e.key # key
      BY <1>1, <2>3, <2>6, <3>1
    <3>3. \A e \in Range(t) : e.key # key => e \in Range(w)
      BY <1>1, <2>3, <2>5, <3>1
    <3> QED
      BY <3>2, <3>3
  <2>8. \A i, j \in DOMAIN w : w[i].key = w[j].key => i = j
    <3> SUFFICES ASSUME NEW i \in 1..Len(t) - 1, NEW j \in 1..Len(t) - 1, i < j
                 PROVE  w[i].key # w[j].key
      <4>1. \A i, j \in 1..Len(t) - 1 : i = j \/ i < j \/ j < i
        BY <1>1
      <4> QED
        BY <2>3, <4>1
    <3> QED
      BY <1>1, <2>3, <2>4 DEF FollowsOrder
  <2> QED
    BY <2>2, <2>4, <2>7, <2>8 DEF IsTable, w
<1> QED
  BY <1>2, <1>3

\* Adding an entry under a key that has none.
LEMMA AddedIs ==
    ASSUME NEW t, IsTable(t), NEW e, \A d \in Range(t) : d.key # e.key
    PROVE  /\ IsTable(Append(t, e)) /\ Range(Append(t, e)) = Range(t) \cup {e}
           /\ \A n, m \in DOMAIN Append(t, e) : n < m =>
                \/ \E a, b \in DOMAIN t : a < b /\ t[a] = Append(t, e)[n] /\ t[b] = Append(t, e)[m]
                \/ Append(t, e)[n] \in Range(t) /\ Append(t, e)[m] = e
<1> DEFINE w == Append(t, e)
<1>1. /\ Len(t) \in Nat /\ DOMAIN t = 1..Len(t) /\ Range(t) = {t[i] : i \in 1..Len(t)}
      /\ \A n, m \in 1..Len(t) : t[n].key = t[m].key => n = m
  BY SequenceIs DEF IsTable
<1>2. /\ IsSequence(w) /\ Len(w) = Len(t) + 1
      /\ \A i \in 1..Len(t) : w[i] = t[i]
      /\ w[Len(t) + 1] = e
      /\ Range(w) = Range(t) \cup {e}
  BY Appended DEF IsTable
<1> HIDE DEF w
<1>3. DOMAIN w = 1..Len(t) + 1
  BY <1>2, SequenceIs
<1>4. \A i \in 1..Len(t) + 1 : i \in 1..Len(t) \/ i = Len(t) + 1
  BY <1>1
<1>5. \A i \in 1..Len(t) : t[i] \in Range(t)
  BY <1>1
<1>6. \A n, m \in DOMAIN w : w[n].key = w[m].key => n = m
  BY <1>1, <1>2, <1>3, <1>4, <1>5
<1>7. \A n, m \in DOMAIN w : n < m =>
        \/ \E a, b \in DOMAIN t : a < b /\ t[a] = w[n] /\ t[b] = w[m]
        \/ w[n] \in Range(t) /\ w[m] = e
  <2> SUFFICES ASSUME NEW n \in 1..Len(t) + 1, NEW m \in 1..Len(t) + 1, n < m
               PROVE  \/ \E a, b \in DOMAIN t : a < b /\ t[a] = w[n] /\ t[b] = w[m]
                      \/ w[n] \in Range(t) /\ w[m] = e
    BY <1>3
  <2>1. n \in 1..Len(t)
    BY <1>1
  <2>2. CASE m \in 1..Len(t)
    BY <1>1, <1>2, <2>1, <2>2
  <2>3. CASE m = Len(t) + 1
    BY <1>2, <1>5, <2>1, <2>3
  <2> QED
    BY <1>4, <2>2, <2>3
<1> QED
  BY <1>2, <1>6, <1>7 DEF IsTable, w

\* An entry put into a table replaces the one under its key, at the end.
LEMMA PutIs ==
    ASSUME NEW t, IsTable(t), NEW e
    PROVE  LET w == Append(Without(t, e.key), e)
           IN /\ IsTable(w) /\ Range(w) = {d \in Range(t) : d.key # e.key} \cup {e}
              /\ \A n, m \in DOMAIN w : n < m =>
                    \/ \E a, b \in DOMAIN t : a < b /\ t[a] = w[n] /\ t[b] = w[m]
                    \/ w[n] \in Range(t) /\ w[m] = e
<1> DEFINE u == Without(t, e.key)
<1>1. IsTable(u) /\ FollowsOrder(u, t) /\ Range(u) = {d \in Range(t) : d.key # e.key}
  BY WithoutIs
<1> HIDE DEF u
<1> DEFINE w == Append(u, e)
<1>2. /\ IsTable(w) /\ Range(w) = Range(u) \cup {e}
      /\ \A n, m \in DOMAIN w : n < m =>
            \/ \E a, b \in DOMAIN u : a < b /\ u[a] = w[n] /\ u[b] = w[m]
            \/ w[n] \in Range(u) /\ w[m] = e
  BY <1>1, AddedIs
<1> HIDE DEF w
<1>3. \A n, m \in DOMAIN w : n < m =>
            \/ \E a, b \in DOMAIN t : a < b /\ t[a] = w[n] /\ t[b] = w[m]
            \/ w[n] \in Range(t) /\ w[m] = e
  <2>1. \A a, b \in DOMAIN u : a < b => \E c, d \in DOMAIN t : c < d /\ t[c] = u[a] /\ t[d] = u[b]
    BY <1>1 DEF FollowsOrder
  <2> QED
    BY <1>1, <1>2, <2>1
<1> QED
  BY <1>1, <1>2, <1>3 DEF w, u

-----------------------------------------------------------------------------
(* The types.                                                              *)

CallOK == callee \in Callee /\ args \in Arguments /\ enabled \in BOOLEAN

\* What WithSpan is given is a sequence of arguments, wherever it was found.
LEMMA SpanArgumentsAre ==
    ASSUME CallOK
    PROVE  /\ IsSequence(SpanArguments) /\ Len(SpanArguments) \in Nat
           /\ DOMAIN SpanArguments = 1..Len(SpanArguments)
           /\ \A k \in DOMAIN SpanArguments : SpanArgument(SpanArguments[k])
<1>1. /\ IsSpan(callee.span) /\ IsSequence(callee.interfaces)
      /\ \A k \in Methods(callee) : IsSpan(callee.interfaces[k].span)
  BY CalleeAssumption DEF CallOK, Methods
<1>2. Methods(callee) \subseteq Nat
  BY <1>1, SequenceIs DEF Methods
<1>3. IsSpan(WithSpan(callee))
  <2> DEFINE marked == {k \in Methods(callee) : callee.interfaces[k].span # NULL}
  <2>1. CASE callee.span # NULL
    BY <1>1, <2>1 DEF WithSpan
  <2>2. CASE callee.span = NULL /\ marked # {}
    <3>1. Min(marked) \in Methods(callee)
      BY <1>2, <2>2, LeastExists
    <3>2. WithSpan(callee) = callee.interfaces[Min(marked)].span
      BY <2>2 DEF WithSpan
    <3> QED
      BY <1>1, <3>1, <3>2
  <2>3. CASE callee.span = NULL /\ marked = {}
    BY <2>3 DEF WithSpan, IsSpan
  <2> QED
    BY <2>1, <2>2, <2>3
<1>4. IsSequence(SpanArguments) /\ \A k \in DOMAIN SpanArguments : SpanArgument(SpanArguments[k])
  <2>1. CASE Checking
    BY <1>3, <2>1 DEF SpanArguments, Checking, IsSpan
  <2>2. CASE ~Checking
    <3>1. SpanArguments = <<>>
      BY <2>2 DEF SpanArguments
    <3>2. IsSequence(<<>>) /\ DOMAIN <<>> = {}
      BY DEF IsSequence
    <3> QED
      BY <3>1, <3>2
  <2> QED
    BY <2>1, <2>2
<1> QED
  BY <1>4, SequenceIs

LEMMA CallTypes ==
    ASSUME CallOK
    PROVE  /\ Len(args) \in Nat /\ DOMAIN args = 1..Len(args)
           /\ \A i \in DOMAIN args : args[i].counted \in BOOLEAN
           /\ Len(callee.marks) \in Nat /\ DOMAIN callee.marks = 1..Len(callee.marks)
           /\ Len(callee.vars) \in Nat /\ DOMAIN callee.vars = 1..Len(callee.vars)
           /\ Len(callee.marks) <= Len(callee.vars)
<1> DEFINE Argument == [type : ValueTypes \cup OtherTypes, counted : BOOLEAN]
<1>1. args \in Seq(Argument)
  BY ArgumentAssumption DEF CallOK
<1>2. IsSequence(callee.marks) /\ IsSequence(callee.vars) /\ Len(callee.marks) <= Len(callee.vars)
  BY CalleeAssumption DEF CallOK
<1>3. /\ Len(args) \in Nat /\ DOMAIN args = 1..Len(args)
      /\ \A i \in DOMAIN args : args[i].counted \in BOOLEAN
  <2> HIDE DEF Argument
  <2>1. Len(args) \in Nat /\ DOMAIN args = 1..Len(args)
    BY <1>1
  <2>2. \A i \in DOMAIN args : args[i] \in Argument
    BY <1>1
  <2> USE DEF Argument
  <2> QED
    BY <2>1, <2>2
<1>4. /\ Len(callee.marks) \in Nat /\ DOMAIN callee.marks = 1..Len(callee.marks)
      /\ Len(callee.vars) \in Nat /\ DOMAIN callee.vars = 1..Len(callee.vars)
  BY <1>2, SequenceIs
<1> QED
  BY <1>2, <1>3, <1>4

\* A step leaves the call alone, and with it all that is said of its function.
LEMMA CallStays ==
    ASSUME CallOK, [Next]_vars
    PROVE  /\ CallOK' /\ callee' = callee /\ args' = args /\ enabled' = enabled
           /\ SpanArguments' = SpanArguments /\ (Checking <=> Checking')
           /\ \A i : IsCaptured(i)' <=> IsCaptured(i)
           /\ \A i : IsAttributes(i)' <=> IsAttributes(i)
           /\ Extra' <=> Extra
<1>1. callee' = callee /\ args' = args /\ enabled' = enabled
  BY DEF Next, Collect, RunHook, EnterBody, Forget, CollectAttributes, CollectSpanArgument,
     ReadBeyondKeys, BeginArgs, CaptureArgument, PassArgument, BeginHooks, vars, callVars
<1>2. Checking <=> Checking'
  BY <1>1 DEF Checking
<1>3. SpanArguments' = SpanArguments
  BY <1>1, <1>2 DEF SpanArguments
<1>4. \A i : IsCaptured(i)' <=> IsCaptured(i)
  BY <1>1, <1>2 DEF IsCaptured
<1>5. \A i : IsAttributes(i)' <=> IsAttributes(i)
  BY <1>3 DEF IsAttributes
<1> QED
  BY <1>1, <1>2, <1>3, <1>4, <1>5 DEF CallOK, Extra

\* Arguments that have been looked at.
Looked(i) == stage \in {"hooks", "body"} \/ (stage = "args" /\ i < at)

StageOK ==
    /\ stage \in {"span", "args", "hooks", "body", "crashed"}
    /\ stage \in {"span", "crashed"} => at \in 1..Len(SpanArguments) + 1
    /\ stage = "args" => at \in 1..Len(args) + 1
    /\ stage \in {"hooks", "body"} => at = Len(args) + 1
    /\ kept \in {<<>>, attributes}
    /\ stage \in {"span", "args", "crashed"} => kept = <<>>

\* An entry is one of WithSpan or for an argument that has been captured.
EntryOK(e) ==
    \/ e.arg = 0
    \/ e.arg \in DOMAIN args /\ IsCaptured(e.arg) /\ Looked(e.arg)

TablesOK ==
    /\ IsTable(attributes) /\ IsTable(spanArgs)
    /\ \A e \in Range(attributes) : EntryOK(e)

TypeInv == CallOK /\ StageOK /\ TablesOK /\ refs \in [DOMAIN args -> Int]

LEMMA StageKeeps == TypeInv /\ [Next]_vars => StageOK'
<1> SUFFICES ASSUME TypeInv, [Next]_vars PROVE StageOK'
  OBVIOUS
<1>1. /\ callee' = callee /\ args' = args /\ SpanArguments' = SpanArguments
      /\ StageOK
  BY CallStays DEF TypeInv
<1>2. Len(SpanArguments) \in Nat /\ Len(args) \in Nat /\ Len(callee.marks) \in Nat
  BY SpanArgumentsAre, CallTypes DEF TypeInv
<1>3. CASE CollectAttributes \/ CollectSpanArgument \/ ReadBeyondKeys
  BY <1>1, <1>2, <1>3 DEF CollectAttributes, CollectSpanArgument, ReadBeyondKeys, StageOK
<1>4. CASE BeginArgs
  BY <1>1, <1>2, <1>4 DEF BeginArgs, StageOK, Extra
<1>5. CASE CaptureArgument \/ PassArgument \/ BeginHooks
  BY <1>1, <1>2, <1>5 DEF CaptureArgument, PassArgument, BeginHooks, StageOK
<1>6. CASE RunHook \/ EnterBody \/ Forget
  BY <1>1, <1>2, <1>6 DEF RunHook, EnterBody, Forget, StageOK
<1>7. CASE UNCHANGED vars
  BY <1>1, <1>7 DEF vars, StageOK
<1> QED
  BY <1>3, <1>4, <1>5, <1>6, <1>7 DEF Next, Collect

\* The attributes of WithSpan as they are stored: an array's keys differ.
LEMMA GivenIsTable ==
    ASSUME NEW g, IsSequence(g), IsInjective(g)
    PROVE  LET t == [n \in DOMAIN g |-> [key |-> g[n], arg |-> 0]]
           IN IsTable(t) /\ \A e \in Range(t) : e.arg = 0
<1> DEFINE t == [n \in DOMAIN g |-> [key |-> g[n], arg |-> 0]]
<1>1. Len(g) \in Nat /\ DOMAIN g = 1..Len(g)
  BY SequenceIs
<1>2. IsSequence(t)
  <2>1. Len(t) = Len(g) /\ t = [i \in 1..Len(g) |-> t[i]]
    BY <1>1
  <2> HIDE DEF t
  <2> QED
    BY <1>1, <2>1, SequenceIs
<1>3. \A n, m \in DOMAIN t : t[n].key = t[m].key => n = m
  BY DEF IsInjective
<1> QED
  BY <1>2, <1>3 DEF IsTable, Range

\* zend_hash_add keeps a table a table.
LEMMA AddSpanArgumentKeeps ==
    ASSUME IsTable(spanArgs), NEW key, AddSpanArgument(key)
    PROVE  IsTable(spanArgs')
<1> DEFINE e == [key |-> key, from |-> at]
<1>1. CASE HasKey(spanArgs, key)
  BY <1>1 DEF AddSpanArgument
<1>2. CASE ~HasKey(spanArgs, key)
  <2>1. spanArgs' = Append(spanArgs, e)
    BY <1>2 DEF AddSpanArgument
  <2>2. \A d \in Range(spanArgs) : d.key # e.key
    BY <1>2 DEF HasKey, Range
  <2> QED
    BY <2>1, <2>2, AddedIs
<1> QED
  BY <1>1, <1>2

LEMMA TablesKeep == TypeInv /\ [Next]_vars => TablesOK'
<1> SUFFICES ASSUME TypeInv, [Next]_vars PROVE TablesOK'
  OBVIOUS
<1>1. /\ callee' = callee /\ args' = args /\ SpanArguments' = SpanArguments
      /\ \A i : IsCaptured(i)' <=> IsCaptured(i)
      /\ StageOK /\ IsTable(attributes) /\ IsTable(spanArgs)
      /\ \A e \in Range(attributes) : EntryOK(e)
  BY CallStays DEF TypeInv, TablesOK
<1>2. /\ Len(SpanArguments) \in Nat /\ Len(args) \in Nat /\ DOMAIN args = 1..Len(args)
      /\ DOMAIN SpanArguments = 1..Len(SpanArguments)
      /\ \A k \in DOMAIN SpanArguments : SpanArgument(SpanArguments[k])
  BY SpanArgumentsAre, CallTypes DEF TypeInv
<1>3. ASSUME attributes' = attributes, \A i \in DOMAIN args : Looked(i) => Looked(i)'
      PROVE  \A e \in Range(attributes') : EntryOK(e)'
  BY <1>1, <1>3 DEF EntryOK
<1>4. CASE CollectAttributes
  <2>1. spanArgs' = spanArgs /\ stage = "span" /\ at \in DOMAIN SpanArguments
    BY <1>1, <1>2, <1>4 DEF CollectAttributes, StageOK
  <2>2. CASE SpanArguments[at].value = SCALAR
    <3>1. attributes' = attributes
      BY <1>4, <2>2 DEF CollectAttributes
    <3>2. \A i \in DOMAIN args : Looked(i) => Looked(i)'
      BY <2>1 DEF Looked
    <3> QED
      BY <1>1, <1>3, <2>1, <3>1, <3>2 DEF TablesOK
  <2>3. CASE SpanArguments[at].value # SCALAR
    <3> DEFINE g == SpanArguments[at].value
    <3>1. IsSequence(g) /\ IsInjective(g)
      BY <1>2, <2>1, <2>3 DEF SpanArgument
    <3>2. attributes' = [n \in DOMAIN g |-> [key |-> g[n], arg |-> 0]]
      BY <1>4, <2>3 DEF CollectAttributes
    <3> HIDE DEF g
    <3>3. IsTable(attributes') /\ \A e \in Range(attributes') : e.arg = 0
      BY <3>1, <3>2, GivenIsTable
    <3> QED
      BY <1>1, <2>1, <3>3 DEF TablesOK, EntryOK
  <2> QED
    BY <2>2, <2>3
<1>5. CASE CollectSpanArgument \/ ReadBeyondKeys
  <2>1. attributes' = attributes /\ stage = "span"
    BY <1>5 DEF CollectSpanArgument, ReadBeyondKeys
  <2>2. \A i \in DOMAIN args : Looked(i) => Looked(i)'
    BY <2>1 DEF Looked
  <2>3. IsTable(spanArgs')
    BY <1>1, <1>5, AddSpanArgumentKeeps DEF CollectSpanArgument, ReadBeyondKeys
  <2> QED
    BY <1>1, <1>3, <2>1, <2>2, <2>3 DEF TablesOK
<1>6. CASE CaptureArgument
  <2> PICK i, e : i = at /\ e = [key |-> Key(callee, i), arg |-> i]
    OBVIOUS
  <2>1. /\ stage = "args" /\ at \in DOMAIN args /\ IsCaptured(at) /\ stage' = stage
        /\ at' = at + 1 /\ spanArgs' = spanArgs
        /\ attributes' = Append(Without(attributes, e.key), e)
    BY <1>1, <1>2, <1>6 DEF CaptureArgument, StageOK
  <2>2. e.arg = i
    OBVIOUS
  <2>3. /\ IsTable(attributes')
        /\ Range(attributes') = {d \in Range(attributes) : d.key # e.key} \cup {e}
    BY <1>1, <2>1, PutIs
  <2>4. (\A j \in DOMAIN args : Looked(j) => Looked(j)') /\ Looked(i)'
    BY <1>2, <2>1 DEF Looked
  <2>5. \A d \in Range(attributes) : EntryOK(d)'
    BY <1>1, <2>4 DEF EntryOK
  <2>6. EntryOK(e)'
    BY <1>1, <2>1, <2>2, <2>4 DEF EntryOK
  <2> QED
    BY <1>1, <2>1, <2>3, <2>5, <2>6 DEF TablesOK
<1>7. CASE BeginArgs \/ PassArgument \/ BeginHooks \/ RunHook \/ EnterBody \/ Forget \/ UNCHANGED vars
  <2>1. attributes' = attributes /\ spanArgs' = spanArgs
    BY <1>7 DEF BeginArgs, PassArgument, BeginHooks, RunHook, EnterBody, Forget, vars
  <2>2. \A i \in DOMAIN args : Looked(i) => Looked(i)'
    BY <1>1, <1>2, <1>7 DEF BeginArgs, PassArgument, BeginHooks, RunHook, EnterBody, Forget, vars,
       Looked, StageOK
  <2> QED
    BY <1>1, <1>3, <2>1, <2>2 DEF TablesOK
<1> QED
  BY <1>4, <1>5, <1>6, <1>7 DEF Next, Collect

LEMMA RefsKeep == TypeInv /\ [Next]_vars => refs' \in [DOMAIN args' -> Int]
<1> SUFFICES ASSUME TypeInv, [Next]_vars PROVE refs' \in [DOMAIN args' -> Int]
  OBVIOUS
<1>1. args' = args /\ refs \in [DOMAIN args -> Int]
  BY CallStays DEF TypeInv
<1>2. ASSUME NEW counts \in [DOMAIN args -> Int], NEW positions, NEW by \in Int
      PROVE  Shared(counts, positions, by) \in [DOMAIN args -> Int]
  BY <1>2 DEF Shared
<1>3. ASSUME NEW counts \in [DOMAIN args -> Int], NEW entries
      PROVE  Released(counts, entries) \in [DOMAIN args -> Int]
  BY <1>2 DEF Released
<1>4. CASE CollectAttributes \/ CollectSpanArgument \/ ReadBeyondKeys \/ BeginHooks \/ RunHook
           \/ UNCHANGED vars
  BY <1>1, <1>4 DEF CollectAttributes, CollectSpanArgument, ReadBeyondKeys, BeginHooks, RunHook, vars
<1>5. CASE BeginArgs
  <2>1. PICK positions : refs' = Shared(refs, positions, 1)
    BY <1>5 DEF BeginArgs
  <2> QED
    BY <1>1, <1>2, <2>1
<1>6. CASE CaptureArgument
  <2>1. PICK entries, positions : refs' = Shared(Released(refs, entries), positions, 1)
    BY <1>6 DEF CaptureArgument
  <2>2. Released(refs, entries) \in [DOMAIN args -> Int]
    BY <1>1, <1>3
  <2> QED
    BY <1>1, <1>2, <2>1, <2>2
<1>7. CASE PassArgument
  <2>1. PICK positions : refs' = Shared(refs, positions, 1)
    BY <1>7 DEF PassArgument
  <2> QED
    BY <1>1, <1>2, <2>1
<1>8. CASE EnterBody
  <2> DEFINE released == Shared(refs, DOMAIN args, -1)
  <2>1. released \in [DOMAIN args -> Int]
    BY <1>1, <1>2
  <2>2. refs' = released \/ refs' = Released(released, Range(attributes))
    BY <1>8 DEF EnterBody
  <2> HIDE DEF released
  <2> QED
    BY <1>1, <1>3, <2>1, <2>2
<1>9. CASE Forget
  <2>1. refs' = Released(refs, Range(kept))
    BY <1>9 DEF Forget
  <2> QED
    BY <1>1, <1>3, <2>1
<1> QED
  BY <1>4, <1>5, <1>6, <1>7, <1>8, <1>9 DEF Next, Collect

\* The inductive invariant of the types: a key is in a table at most once,
\* whatever keys the attributes and parameters have, and no entry is made for an
\* argument before it is looked at.
THEOREM TypesHold == Spec => []TypeInv
<1>1. Init => TypeInv
  <2> SUFFICES ASSUME Init PROVE TypeInv
    OBVIOUS
  <2>1. CallOK /\ Len(SpanArguments) \in Nat
    BY SpanArgumentsAre DEF Init, CallOK
  <2>2. IsTable(<<>>) /\ Range(<<>>) = {}
    BY DEF IsTable, IsSequence, Range
  <2> QED
    BY <2>1, <2>2 DEF Init, TypeInv, StageOK, TablesOK
<1>2. TypeInv /\ [Next]_vars => TypeInv'
  BY StageKeeps, TablesKeep, RefsKeep, CallStays DEF TypeInv
<1> QED
  BY <1>1, <1>2, PTL DEF Spec

\* The variables have their types, and the two tables of a call keep the order
\* and the uniqueness of their keys.
THEOREM TypeOKHolds == Spec => []TypeOK
<1>1. TypeInv => TypeOK
  <2> SUFFICES ASSUME TypeInv PROVE TypeOK
    OBVIOUS
  <2>1. /\ Len(SpanArguments) \in Nat /\ Len(args) \in Nat /\ DOMAIN args = 1..Len(args)
    BY SpanArgumentsAre, CallTypes DEF TypeInv
  <2>2. at \in 1..Len(SpanArguments) + Len(args) + 1
    BY <2>1 DEF TypeInv, StageOK
  <2>3. \A n \in DOMAIN attributes : attributes[n].arg \in 0..Len(args)
    BY <2>1 DEF TypeInv, TablesOK, EntryOK, Range
  <2> QED
    BY <2>2, <2>3 DEF TypeInv, TypeOK, CallOK, StageOK, TablesOK, IsTable
<1> QED
  BY <1>1, TypesHold, PTL

-----------------------------------------------------------------------------
(* References.                                                             *)

\* Arguments that params[1] refers to.
Passed(i) == stage = "hooks" \/ (stage = "args" /\ i < at)

RefsInv ==
    \A i \in DOMAIN args :
        ~IsCaptured(i) => refs[i] = IF Passed(i) /\ args[i].counted THEN 2 ELSE 1

\* No entry of params[7] refers to an argument that is not captured.
LEMMA OthersAreNotReleased ==
    ASSUME TypeInv, NEW counts \in [DOMAIN args -> Int],
           NEW entries, entries \subseteq Range(attributes),
           NEW i \in DOMAIN args, ~IsCaptured(i)
    PROVE  Released(counts, entries)[i] = counts[i]
<1>1. \A e \in entries : e.arg # i
  <2>1. i # 0
    BY CallTypes DEF TypeInv
  <2> QED
    BY <2>1 DEF TypeInv, TablesOK, EntryOK
<1> QED
  BY <1>1 DEF Released, Shared

LEMMA RefsInvKeeps == TypeInv /\ RefsInv /\ [Next]_vars => RefsInv'
<1> SUFFICES ASSUME TypeInv, RefsInv, [Next]_vars,
                    NEW i \in DOMAIN args, ~IsCaptured(i)
             PROVE  refs'[i] = IF Passed(i)' /\ args[i].counted THEN 2 ELSE 1
  BY CallStays DEF RefsInv, TypeInv
<1>1. /\ refs \in [DOMAIN args -> Int] /\ i \in Nat /\ i <= Len(args) /\ Len(args) \in Nat
      /\ refs[i] = IF Passed(i) /\ args[i].counted THEN 2 ELSE 1
      /\ args[i].counted \in BOOLEAN /\ DOMAIN args = 1..Len(args)
      /\ Len(callee.marks) \in Nat
  BY CallTypes DEF TypeInv, RefsInv
<1>2. ASSUME NEW counts \in [DOMAIN args -> Int], NEW positions, NEW by
      PROVE  Shared(counts, positions, by)[i]
              = IF args[i].counted /\ i \in positions THEN counts[i] + by ELSE counts[i]
  BY <1>2 DEF Shared
<1>3. ASSUME NEW counts \in [DOMAIN args -> Int], NEW positions, NEW by \in Int
      PROVE  Shared(counts, positions, by) \in [DOMAIN args -> Int]
  BY <1>3 DEF Shared
<1>4. ASSUME NEW counts \in [DOMAIN args -> Int], NEW entries
      PROVE  Released(counts, entries) \in [DOMAIN args -> Int]
  BY <1>3 DEF Released
<1>5. CASE CollectAttributes \/ CollectSpanArgument \/ ReadBeyondKeys
  <2>1. refs' = refs /\ stage = "span" /\ stage' \in {"span", "crashed"}
    BY <1>5 DEF CollectAttributes, CollectSpanArgument, ReadBeyondKeys
  <2> QED
    BY <1>1, <2>1 DEF Passed
<1>6. CASE BeginArgs
  <2>1. PICK first \in Nat : first = IF Extra THEN Len(callee.marks) + 1 ELSE 1
    BY <1>1
  <2>2. at' = first /\ refs' = Shared(refs, 1..first - 1, 1)
    BY <1>6, <2>1 DEF BeginArgs
  <2>3. stage = "span" /\ stage' = "args"
    BY <1>6 DEF BeginArgs
  <2>4. refs'[i] = IF args[i].counted /\ i \in 1..first - 1 THEN refs[i] + 1 ELSE refs[i]
    BY <1>1, <1>2, <2>2
  <2>5. i >= 1 /\ refs[i] = 1
    BY <1>1, <2>3 DEF Passed
  <2> QED
    BY <1>1, <2>1, <2>2, <2>3, <2>4, <2>5 DEF Passed
<1>7. CASE CaptureArgument
  <2>1. /\ stage = "args" /\ stage' = "args" /\ i # at /\ at' = at + 1 /\ at \in Nat
    BY <1>7 DEF CaptureArgument, TypeInv, StageOK
  <2>2. PICK key : refs' = Shared(Released(refs, {e \in Range(attributes) : e.key = key}), {at}, 1)
    BY <1>7 DEF CaptureArgument
  <2> DEFINE same == {e \in Range(attributes) : e.key = key}
  <2>3. same \subseteq Range(attributes)
    OBVIOUS
  <2>4. refs' = Shared(Released(refs, same), {at}, 1)
    BY <2>2
  <2> HIDE DEF same
  <2>5. Released(refs, same)[i] = refs[i] /\ Released(refs, same) \in [DOMAIN args -> Int]
    BY <1>1, <1>4, <2>3, OthersAreNotReleased
  <2>6. refs'[i] = refs[i]
    BY <1>2, <2>1, <2>4, <2>5
  <2> QED
    BY <1>1, <2>1, <2>6 DEF Passed
<1>8. CASE PassArgument
  <2>1. /\ stage = "args" /\ stage' = "args" /\ at' = at + 1 /\ at \in Nat
        /\ refs' = Shared(refs, {at}, 1)
    BY <1>8 DEF PassArgument, TypeInv, StageOK
  <2>2. refs'[i] = IF args[i].counted /\ i = at THEN refs[i] + 1 ELSE refs[i]
    BY <1>1, <1>2, <2>1
  <2> QED
    BY <1>1, <2>1, <2>2 DEF Passed
<1>9. CASE BeginHooks
  <2>1. stage = "args" /\ stage' = "hooks" /\ i < at /\ refs' = refs
    BY <1>1, <1>9 DEF BeginHooks
  <2> QED
    BY <1>1, <2>1 DEF Passed
<1>10. CASE EnterBody
  <2> DEFINE released == Shared(refs, DOMAIN args, -1)
  <2>1. stage = "hooks" /\ stage' = "body"
    BY <1>10 DEF EnterBody
  <2>2. refs' = released \/ refs' = Released(released, Range(attributes))
    BY <1>10 DEF EnterBody
  <2>3. /\ released \in [DOMAIN args -> Int]
        /\ released[i] = IF args[i].counted THEN refs[i] - 1 ELSE refs[i]
    BY <1>1, <1>2, <1>3
  <2> HIDE DEF released
  <2>4. refs'[i] = released[i]
    BY <2>2, <2>3, OthersAreNotReleased
  <2> QED
    BY <1>1, <2>1, <2>3, <2>4 DEF Passed
<1>11. CASE Forget
  <2>1. stage = "body" /\ stage' = "body" /\ kept = attributes /\ refs' = Released(refs, Range(kept))
    BY <1>11 DEF Forget, TypeInv, StageOK
  <2>2. refs'[i] = refs[i]
    BY <1>1, <2>1, OthersAreNotReleased
  <2> QED
    BY <1>1, <2>1, <2>2 DEF Passed
<1>12. CASE RunHook \/ UNCHANGED vars
  BY <1>1, <1>12 DEF RunHook, vars, Passed
<1> QED
  BY <1>5, <1>6, <1>7, <1>8, <1>9, <1>10, <1>11, <1>12 DEF Next, Collect

\* Whatever is captured for the hooks, under whichever keys, and whatever hooks
\* keep of it: an argument that is not captured is referred to as often when the
\* function's body starts as it was before.
THEOREM OthersKeepReferencesHolds == Spec => []OthersKeepReferences
<1>1. Init => RefsInv
  BY DEF Init, RefsInv, Passed
<1>2. TypeInv /\ RefsInv => OthersKeepReferences
  BY DEF RefsInv, Passed, OthersKeepReferences
<1> QED
  BY <1>1, <1>2, RefsInvKeeps, TypesHold, PTL DEF Spec

-----------------------------------------------------------------------------
(* params[6].                                                              *)

\* The arguments of WithSpan that params[6] is to have, their names, and the
\* first of each name among those before n.
Others(s) == {k \in DOMAIN s : k < 3 /\ s[k].name # "attributes"}
NameAt(s, k) == IF s[k].name = NULL THEN ArgumentKeys[k] ELSE s[k].name
Firsts(s, n) ==
    {k \in Others(s) : k < n /\ \A j \in Others(s) : NameAt(s, j) = NameAt(s, k) => k <= j}

\* No more arguments than the attribute has, and none named third that is lost.
WellFormed(s) == Len(s) <= 3 /\ (3 \in DOMAIN s => s[3].name \in {NULL, "attributes"})

\* The arguments before n are in params[6], in order.
Named(table, s, n) ==
    /\ Range(table) = {[key |-> NameAt(s, k), from |-> k] : k \in Firsts(s, n)}
    /\ \A i, j \in DOMAIN table : i < j => table[i].from < table[j].from

NamesInv ==
    stage # "crashed" /\ WellFormed(SpanArguments) =>
        Named(spanArgs, SpanArguments, IF stage = "span" THEN at ELSE Len(SpanArguments) + 1)

LEMMA NamesKeep == TypeInv /\ NamesInv /\ [Next]_vars => NamesInv'
<1> SUFFICES ASSUME TypeInv, NamesInv, [Next]_vars PROVE NamesInv'
  OBVIOUS
<1>0. SpanArguments' = SpanArguments
  BY CallStays DEF TypeInv
<1> SUFFICES ASSUME stage' # "crashed", NEW s, s = SpanArguments, WellFormed(s)
             PROVE  Named(spanArgs', s, IF stage' = "span" THEN at' ELSE Len(s) + 1)
  BY <1>0 DEF NamesInv
<1>1. /\ Len(s) \in Nat /\ Len(s) <= 3 /\ DOMAIN s = 1..Len(s)
      /\ stage = "span" => at \in 1..Len(s) + 1
      /\ IsTable(spanArgs)
  BY SpanArgumentsAre DEF TypeInv, WellFormed, StageOK, TablesOK
<1>2. PICK k : k = at
  OBVIOUS
<1>3. ASSUME stage = "span", k \in DOMAIN s, stage' = "span", at' = k + 1
      PROVE  Named(spanArgs, s, k)
  BY <1>2, <1>3 DEF NamesInv
<1>4. CASE CollectAttributes
  <2>1. /\ stage = "span" /\ k \in DOMAIN s /\ stage' = "span" /\ at' = k + 1
        /\ IsAttributes(k) /\ spanArgs' = spanArgs
    BY <1>1, <1>2, <1>4 DEF CollectAttributes
  <2>2. k \notin Others(s)
    BY <2>1 DEF IsAttributes, Others
  <2>3. Firsts(s, k + 1) = Firsts(s, k)
    <3>1. \A j \in Others(s) : j \in Nat /\ j # k
      BY <1>1, <2>2 DEF Others
    <3>2. \A j \in Others(s) : j < k + 1 <=> j < k
      BY <1>1, <2>1, <3>1
    <3> QED
      BY <3>2 DEF Firsts
  <2> QED
    BY <1>3, <2>1, <2>3 DEF Named
<1>5. CASE CollectSpanArgument
  <2>1. /\ stage = "span" /\ k \in DOMAIN s /\ stage' = "span" /\ at' = k + 1
        /\ ~IsAttributes(k) /\ AddSpanArgument(NameAt(s, k))
    BY <1>1, <1>2, <1>5 DEF CollectSpanArgument, NameAt
  <2>2. k \in Others(s) /\ k \in {1, 2}
    BY <1>1, <2>1 DEF IsAttributes, Others
  <2>3. /\ Range(spanArgs) = {[key |-> NameAt(s, j), from |-> j] : j \in Firsts(s, k)}
        /\ \A i, j \in DOMAIN spanArgs : i < j => spanArgs[i].from < spanArgs[j].from
    BY <1>3, <2>1 DEF Named
  <2>4. \A j \in Others(s) : j \in Nat /\ j >= 1
    BY <1>1 DEF Others
  <2>5. \A j \in Others(s) : j < k + 1 <=> (j < k \/ j = k)
    BY <2>2, <2>4
  <2>6. CASE HasKey(spanArgs, NameAt(s, k))
    <3>1. spanArgs' = spanArgs
      BY <2>1, <2>6 DEF AddSpanArgument
    <3>2. PICK j \in Firsts(s, k) : NameAt(s, j) = NameAt(s, k)
      BY <2>3, <2>6 DEF HasKey, Range
    <3>3. k \notin Firsts(s, k + 1)
      <4>1. j \in Others(s) /\ j < k
        BY <3>2 DEF Firsts
      <4>2. ~(k <= j)
        BY <2>2, <2>4, <4>1
      <4> QED
        BY <3>2, <4>1, <4>2 DEF Firsts
    <3>4. Firsts(s, k + 1) = Firsts(s, k)
      BY <2>5, <3>3 DEF Firsts
    <3> QED
      BY <1>3, <2>1, <2>3, <3>1, <3>4 DEF Named
  <2>7. CASE ~HasKey(spanArgs, NameAt(s, k))
    <3> DEFINE e == [key |-> NameAt(s, k), from |-> k]
    <3>1. spanArgs' = Append(spanArgs, e)
      BY <1>2, <2>1, <2>7 DEF AddSpanArgument
    <3>2. \A d \in Range(spanArgs) : d.key # e.key
      BY <2>7 DEF HasKey, Range
    <3>3. e.from = k
      OBVIOUS
    <3>4. \A j \in Others(s) : NameAt(s, j) = NameAt(s, k) => k <= j
      <4> SUFFICES ASSUME NEW j \in Others(s), NameAt(s, j) = NameAt(s, k), j < k PROVE FALSE
        BY <2>2, <2>4
      <4>1. j = 1
        BY <2>2, <2>4
      <4>2. j \in Firsts(s, k)
        <5>1. \A i \in Others(s) : j <= i
          BY <2>4, <4>1
        <5> QED
          BY <5>1 DEF Firsts
      <4>3. [key |-> NameAt(s, j), from |-> j] \in Range(spanArgs)
        BY <2>3, <4>2
      <4> QED
        BY <3>2, <4>3
    <3>5. Firsts(s, k + 1) = Firsts(s, k) \cup {k}
      BY <2>2, <2>5, <3>4 DEF Firsts
    <3>6. \A d \in Range(spanArgs) : d.from < k
      <4>1. \A j \in Firsts(s, k) : j < k
        BY DEF Firsts
      <4> QED
        BY <2>3, <4>1
    <3> HIDE DEF e
    <3>7. /\ Range(spanArgs') = Range(spanArgs) \cup {e}
          /\ \A n, m \in DOMAIN spanArgs' : n < m =>
                \/ \E a, b \in DOMAIN spanArgs :
                    a < b /\ spanArgs[a] = spanArgs'[n] /\ spanArgs[b] = spanArgs'[m]
                \/ spanArgs'[n] \in Range(spanArgs) /\ spanArgs'[m] = e
      BY <1>1, <3>1, <3>2, AddedIs
    <3>8. \A n, m \in DOMAIN spanArgs' : n < m => spanArgs'[n].from < spanArgs'[m].from
      BY <2>3, <3>3, <3>6, <3>7
    <3>9. Range(spanArgs') = {[key |-> NameAt(s, j), from |-> j] : j \in Firsts(s, k + 1)}
      BY <2>3, <3>5, <3>7 DEF e
    <3> QED
      BY <1>3, <2>1, <3>8, <3>9 DEF Named
  <2> QED
    BY <2>6, <2>7
<1>6. CASE ReadBeyondKeys
  <2>1. k \in DOMAIN s /\ k # 3 /\ k \notin {1, 2}
    BY <1>1, <1>2, <1>6 DEF ReadBeyondKeys, IsAttributes, ArgumentKeys
  <2> QED
    BY <1>1, <2>1
<1>7. CASE BeginArgs
  <2>1. stage = "span" /\ at = Len(s) + 1 /\ stage' = "args" /\ spanArgs' = spanArgs
    BY <1>7 DEF BeginArgs
  <2> QED
    BY <2>1 DEF NamesInv
<1>8. CASE CaptureArgument \/ PassArgument \/ BeginHooks \/ RunHook \/ EnterBody \/ Forget
  <2>1. spanArgs' = spanArgs
    BY <1>8 DEF CaptureArgument, PassArgument, BeginHooks, RunHook, EnterBody, Forget
  <2>2. stage \in {"args", "hooks", "body"} /\ stage' \in {"args", "hooks", "body"}
    BY <1>8 DEF CaptureArgument, PassArgument, BeginHooks, RunHook, EnterBody, Forget
  <2> QED
    BY <2>1, <2>2 DEF NamesInv
<1>9. CASE UNCHANGED vars
  BY <1>9 DEF vars, NamesInv
<1> QED
  BY <1>4, <1>5, <1>6, <1>7, <1>8, <1>9 DEF Next, Collect

\* The hooks find the arguments of WithSpan in params[6], in order, each under
\* its name or that of its position.
THEOREM SpanArgumentsKeepTheirNamesHolds == Spec => []SpanArgumentsKeepTheirNames
<1>1. Init => NamesInv
  <2> SUFFICES ASSUME Init PROVE Named(spanArgs, SpanArguments, 1)
    BY DEF Init, NamesInv
  <2>1. Range(spanArgs) = {} /\ DOMAIN spanArgs = {}
    BY DEF Init, Range
  <2>2. Firsts(SpanArguments, 1) = {}
    <3>1. CallOK
      BY DEF Init, CallOK
    <3>2. \A k \in DOMAIN SpanArguments : k \in Nat /\ k >= 1
      BY <3>1, SpanArgumentsAre
    <3> QED
      BY <3>2 DEF Firsts, Others
  <2> QED
    BY <2>1, <2>2 DEF Named
<1>2. TypeInv /\ NamesInv => SpanArgumentsKeepTheirNames
  <2> SUFFICES ASSUME TypeInv, NamesInv, Collected, WellFormed(SpanArguments)
               PROVE  LET first == {k \in Others(SpanArguments) :
                            \A j \in Others(SpanArguments) :
                                NameAt(SpanArguments, j) = NameAt(SpanArguments, k) => k <= j}
                      IN /\ Range(spanArgs) = {[key |-> NameAt(SpanArguments, k), from |-> k] : k \in first}
                         /\ \A n, m \in DOMAIN spanArgs : n < m => spanArgs[n].from < spanArgs[m].from
    BY DEF SpanArgumentsKeepTheirNames, WellFormed, Others, NameAt
  <2>1. Named(spanArgs, SpanArguments, Len(SpanArguments) + 1)
    BY DEF NamesInv, Collected
  <2>2. \A k \in Others(SpanArguments) : k < Len(SpanArguments) + 1
    BY SpanArgumentsAre DEF TypeInv, Others
  <2> QED
    BY <2>1, <2>2 DEF Named, Firsts
<1> QED
  BY <1>1, <1>2, NamesKeep, TypesHold, PTL DEF Spec

-----------------------------------------------------------------------------
(* params[7].                                                              *)

\* In what follows g is the array of attributes WithSpan is given, W the
\* parameters whose arguments are wanted, and N their names.

\* Of those before n, the last of each name.
Lasts(W, N, n) == {i \in W : i < n /\ \A j \in W : j < n /\ N[i] = N[j] => j <= i}

Entry(N, i) == [key |-> N[i], arg |-> i]
GivenEntry(k) == [key |-> k, arg |-> 0]

\* The keys that WithSpan is given and none of them replaces.
Left(g, W, N, n) == {k \in Range(g) : \A i \in Lasts(W, N, n) : N[i] # k}

\* What is to be expected when the arguments before n have been looked at.
ExpectedUpTo(g, W, N, n) ==
    {GivenEntry(k) : k \in Left(g, W, N, n)}
        \cup {Entry(N, i) : i \in Lasts(W, N, n)}

Before(g, e, d) ==
    \/ e.arg < d.arg
    \/ e.arg = 0 /\ d.arg = 0 /\ \E a, b \in DOMAIN g : a < b /\ g[a] = e.key /\ g[b] = d.key

CollectedUpTo(t, g, W, N, n) ==
    /\ Range(t) = ExpectedUpTo(g, W, N, n)
    /\ \A i, j \in DOMAIN t : i < j => Before(g, t[i], t[j])

LEMMA ExpectedEntries ==
    ASSUME NEW g, NEW W, NEW N, NEW n, NEW e \in ExpectedUpTo(g, W, N, n)
    PROVE  \/ e.arg = 0 /\ e = GivenEntry(e.key) /\ e.key \in Left(g, W, N, n)
           \/ e.arg \in Lasts(W, N, n) /\ e.key = N[e.arg] /\ e = Entry(N, e.arg)
<1>1. CASE \E k \in Left(g, W, N, n) : e = GivenEntry(k)
  BY <1>1 DEF GivenEntry
<1>2. CASE \E i \in Lasts(W, N, n) : e = Entry(N, i)
  BY <1>2 DEF Entry
<1> QED
  BY <1>1, <1>2 DEF ExpectedUpTo

\* An argument that is not wanted changes nothing.
LEMMA LastStays ==
    ASSUME NEW W, W \subseteq Nat \ {0}, NEW N, NEW n \in Nat, n \notin W
    PROVE  Lasts(W, N, n + 1) = Lasts(W, N, n)
<1>1. \A i \in W : i < n + 1 <=> i < n
  OBVIOUS
<1> QED
  BY <1>1 DEF Lasts

\* One that is wanted takes the place of the one of its name.
LEMMA LastMoves ==
    ASSUME NEW W, W \subseteq Nat \ {0}, NEW N, NEW n \in W, NEW g
    PROVE  /\ \A i : i \in Lasts(W, N, n + 1) <=> i = n \/ (i \in Lasts(W, N, n) /\ N[i] # N[n])
           /\ \A k : k \in Left(g, W, N, n + 1) <=> k \in Left(g, W, N, n) /\ k # N[n]
<1>1. \A i \in W : i < n + 1 <=> (i < n \/ i = n)
  OBVIOUS
<1>2. \A i \in W : i < n => i <= n /\ ~(n <= i)
  OBVIOUS
<1>3. n \in Lasts(W, N, n + 1)
  BY <1>1, <1>2 DEF Lasts
<1>4. \A i \in Lasts(W, N, n + 1) : i = n \/ (i \in Lasts(W, N, n) /\ N[i] # N[n])
  BY <1>1, <1>2 DEF Lasts
<1>5. \A i \in Lasts(W, N, n) : N[i] # N[n] => i \in Lasts(W, N, n + 1)
  BY <1>1, <1>2 DEF Lasts
<1> QED
  BY <1>3, <1>4, <1>5 DEF Left

LEMMA CaptureCollects ==
    ASSUME NEW W, W \subseteq Nat \ {0}, NEW N, NEW n \in W, NEW g,
           NEW t, IsTable(t), CollectedUpTo(t, g, W, N, n)
    PROVE  CollectedUpTo(Append(Without(t, N[n]), Entry(N, n)), g, W, N, n + 1)
<1> DEFINE e == Entry(N, n)
           u == Append(Without(t, e.key), e)
<1>1. e.key = N[n] /\ e.arg = n
  BY DEF Entry
<1> HIDE DEF e
<1>2. /\ Range(u) = {d \in Range(t) : d.key # e.key} \cup {e}
      /\ \A i, j \in DOMAIN u : i < j =>
            \/ \E a, b \in DOMAIN t : a < b /\ t[a] = u[i] /\ t[b] = u[j]
            \/ u[i] \in Range(t) /\ u[j] = e
  BY PutIs
<1> HIDE DEF u
<1> DEFINE L == Lasts(W, N, n)
           M == Lasts(W, N, n + 1)
           K == Left(g, W, N, n)
           J == Left(g, W, N, n + 1)
<1>3. /\ \A i : i \in M <=> i = n \/ (i \in L /\ N[i] # N[n])
      /\ \A k : k \in J <=> k \in K /\ k # N[n]
  BY LastMoves
<1>4. \A d \in Range(t) :
        \/ d.arg = 0 /\ d = GivenEntry(d.key) /\ d.key \in K
        \/ d.arg \in L /\ d.key = N[d.arg] /\ d = Entry(N, d.arg)
  <2>1. Range(t) = ExpectedUpTo(g, W, N, n)
    BY DEF CollectedUpTo
  <2>2. \A d \in ExpectedUpTo(g, W, N, n) :
          \/ d.arg = 0 /\ d = GivenEntry(d.key) /\ d.key \in Left(g, W, N, n)
          \/ d.arg \in Lasts(W, N, n) /\ d.key = N[d.arg] /\ d = Entry(N, d.arg)
    BY ExpectedEntries
  <2> QED
    BY <2>1, <2>2
<1>5. \A k \in K : GivenEntry(k) \in Range(t) /\ GivenEntry(k).key = k
  BY DEF CollectedUpTo, ExpectedUpTo, GivenEntry
<1>6. \A i \in L : Entry(N, i) \in Range(t) /\ Entry(N, i).key = N[i]
  BY DEF CollectedUpTo, ExpectedUpTo, Entry
<1>7. \A i \in L : i \in Nat /\ i < n
  BY DEF Lasts
<1> HIDE DEF L, M, K, J
<1>8. Range(u) = {GivenEntry(k) : k \in J} \cup {Entry(N, i) : i \in M}
  <2>1. ASSUME NEW d \in Range(u)
        PROVE  d \in {GivenEntry(k) : k \in J} \cup {Entry(N, i) : i \in M}
    <3>1. CASE d = e
      BY <1>3, <3>1 DEF e
    <3>2. CASE d \in Range(t) /\ d.key # N[n]
      BY <1>3, <1>4, <3>2
    <3> QED
      BY <1>1, <1>2, <3>1, <3>2
  <2>2. ASSUME NEW k \in J PROVE GivenEntry(k) \in Range(u)
    BY <1>1, <1>2, <1>3, <1>5
  <2>3. ASSUME NEW i \in M PROVE Entry(N, i) \in Range(u)
    <3>1. CASE i = n
      BY <1>2, <3>1 DEF e
    <3>2. CASE i \in L /\ N[i] # N[n]
      BY <1>1, <1>2, <1>6, <3>2
    <3> QED
      BY <1>3, <3>1, <3>2
  <2> QED
    BY <2>1, <2>2, <2>3
<1>9. \A i, j \in DOMAIN u : i < j => Before(g, u[i], u[j])
  <2>1. \A d \in Range(t) : Before(g, d, e)
    <3>1. \A d \in Range(t) : d.arg < n
      BY <1>4, <1>7
    <3> QED
      BY <1>1, <3>1 DEF Before
  <2>2. \A a, b \in DOMAIN t : a < b => Before(g, t[a], t[b])
    BY DEF CollectedUpTo
  <2> QED
    BY <1>2, <2>1, <2>2
<1> QED
  BY <1>1, <1>8, <1>9 DEF CollectedUpTo, ExpectedUpTo, e, u, M, J

\* Before the arguments are looked at, all is as WithSpan is given it.
Stored(g) == [n \in DOMAIN g |-> [key |-> g[n], arg |-> 0]]

LEMMA StoredIsCollected ==
    ASSUME NEW g, NEW W, W \subseteq Nat \ {0}, NEW N
    PROVE  CollectedUpTo(Stored(g), g, W, N, 1)
<1>1. Lasts(W, N, 1) = {}
  <2>1. \A i \in W : ~(i < 1)
    OBVIOUS
  <2> QED
    BY <2>1 DEF Lasts
<1>2. Range(Stored(g)) = ExpectedUpTo(g, W, N, 1)
  <2>1. Left(g, W, N, 1) = Range(g)
    BY <1>1 DEF Left
  <2>2. Range(Stored(g)) = {GivenEntry(k) : k \in Range(g)}
    BY DEF Stored, GivenEntry, Range
  <2> QED
    BY <1>1, <2>1, <2>2 DEF ExpectedUpTo
<1>3. \A i, j \in DOMAIN Stored(g) : i < j => Before(g, Stored(g)[i], Stored(g)[j])
  BY DEF Stored, Before
<1> QED
  BY <1>2, <1>3 DEF CollectedUpTo

\* The parameters whose arguments are wanted, by what they carry themselves,
\* and their names.
Wants == Wanted(OwnMark)
NameOf(i) == IF OwnMark(i) = UNNAMED THEN callee.vars[i] ELSE OwnMark(i)
Names == [i \in Wants |-> NameOf(i)]

LEMMA WantsAre ==
    ASSUME CallOK
    PROVE  /\ Wants = IF ~Checking THEN {}
                      ELSE {i \in DOMAIN args :
                            i \in DOMAIN callee.marks /\ OwnMark(i) # NULL /\ IsValidAttributeValue(args[i])}
           /\ Wants \subseteq DOMAIN args /\ Wants \subseteq Nat \ {0}
<1>1. DOMAIN args = 1..Len(args) /\ Len(args) \in Nat
  BY CallTypes
<1> QED
  BY <1>1 DEF Wants, Wanted

\* What a parameter carries itself goes first.
LEMMA WantedAreCaptured ==
    ASSUME CallOK, NEW i \in Wants
    PROVE  IsCaptured(i) /\ Key(callee, i) = Names[i]
<1>1. Checking /\ i \in DOMAIN callee.marks /\ OwnMark(i) # NULL /\ IsValidAttributeValue(args[i])
  BY WantsAre
<1>2. SpanAttribute(callee, i) = OwnMark(i)
  BY <1>1 DEF SpanAttribute, OwnMark, MarkAt
<1>3. VarName(callee, i) = callee.vars[i]
  BY <1>1, CallTypes DEF VarName
<1> QED
  BY <1>1, <1>2, <1>3 DEF IsCaptured, Key, Names, NameOf

\* A function whose parameters alone carry the attribute.
Plain ==
    /\ ~Extra
    /\ \A k \in Methods(callee) : \A i \in DOMAIN callee.interfaces[k].marks :
        callee.interfaces[k].marks[i] = NULL

LEMMA OthersAreNotCaptured ==
    ASSUME CallOK, Plain, NEW i \in DOMAIN args, i \notin Wants
    PROVE  ~IsCaptured(i)
<1>1. \A k \in Methods(callee) : MarkAt(callee.interfaces[k].marks, k) = NULL
  BY DEF Plain, MarkAt
<1>2. OwnMark(i) = NULL => SpanAttribute(callee, i) = NULL
  BY <1>1 DEF SpanAttribute, OwnMark
<1>3. i \in DOMAIN callee.marks
  BY CallTypes DEF Plain, Extra
<1> QED
  BY <1>2, <1>3, WantsAre DEF IsCaptured

\* The same of the next state.
LEMMA WantsStay ==
    ASSUME TypeInv, [Next]_vars
    PROVE  Wants' = Wants /\ Names' = Names /\ (Plain <=> Plain')
<1>1. callee' = callee /\ args' = args /\ Checking' = Checking /\ CallOK /\ CallOK'
  BY CallStays DEF TypeInv, Checking
<1>2. Wants' = Wants
  BY <1>1 DEF Wants, Wanted, OwnMark
<1>3. Names' = Names
  BY <1>1, <1>2 DEF Names, NameOf, OwnMark
<1> QED
  BY <1>1, <1>2, <1>3 DEF Plain, Extra

\* The arrays of attributes among the first arguments of WithSpan, and the last.
Arrays(s, n) ==
    {k \in DOMAIN s : k < n /\ (k = 3 \/ s[k].name = "attributes") /\ s[k].value # SCALAR}
GivenUpTo(s, n) == IF Arrays(s, n) = {} THEN <<>> ELSE s[Max(Arrays(s, n))].value

\* What params[7] has before and while the arguments are looked at.
GivenInv == stage = "span" => attributes = Stored(GivenUpTo(SpanArguments, at))
OwnInv ==
    stage \in {"args", "hooks", "body"} /\ Plain =>
        CollectedUpTo(attributes, GivenUpTo(SpanArguments, Len(SpanArguments) + 1), Wants, Names, at)

LEMMA ArraysNext ==
    ASSUME NEW s, DOMAIN s \subseteq Nat, NEW k \in DOMAIN s
    PROVE  /\ (k = 3 \/ s[k].name = "attributes") /\ s[k].value # SCALAR =>
                GivenUpTo(s, k + 1) = s[k].value
           /\ ~(k = 3 \/ s[k].name = "attributes") \/ s[k].value = SCALAR =>
                GivenUpTo(s, k + 1) = GivenUpTo(s, k)
<1>1. \A n \in DOMAIN s : n \in Nat /\ (n < k + 1 <=> (n < k \/ n = k)) /\ (n < k => n <= k)
  OBVIOUS
<1>2. CASE (k = 3 \/ s[k].name = "attributes") /\ s[k].value # SCALAR
  <2>1. k \in Arrays(s, k + 1) /\ \A m \in Arrays(s, k + 1) : m <= k
    BY <1>1, <1>2 DEF Arrays
  <2>2. Arrays(s, k + 1) \subseteq Nat
    BY DEF Arrays
  <2>3. Max(Arrays(s, k + 1)) = k
    BY <2>1, <2>2, GreatestIs
  <2> QED
    BY <1>2, <2>1, <2>3 DEF GivenUpTo
<1>3. CASE ~(k = 3 \/ s[k].name = "attributes") \/ s[k].value = SCALAR
  <2>1. Arrays(s, k + 1) = Arrays(s, k)
    BY <1>1, <1>3 DEF Arrays
  <2> QED
    BY <1>2, <1>3, <2>1 DEF GivenUpTo
<1> QED
  BY <1>2, <1>3

LEMMA GivenKeeps == TypeInv /\ GivenInv /\ [Next]_vars => GivenInv'
<1> SUFFICES ASSUME TypeInv, GivenInv, [Next]_vars PROVE GivenInv'
  OBVIOUS
<1> PICK s, k : s = SpanArguments /\ k = at
  OBVIOUS
<1>1. SpanArguments' = s
  BY CallStays DEF TypeInv
<1>2. Len(s) \in Nat /\ DOMAIN s = 1..Len(s) /\ DOMAIN s \subseteq Nat
  BY SpanArgumentsAre DEF TypeInv
<1>3. stage = "span" => k \in 1..Len(s) + 1 /\ attributes = Stored(GivenUpTo(s, k))
  BY DEF TypeInv, StageOK, GivenInv
<1>4. CASE CollectAttributes
  <2>1. /\ stage = "span" /\ stage' = "span" /\ k \in DOMAIN s /\ at' = k + 1
        /\ k = 3 \/ s[k].name = "attributes"
    BY <1>2, <1>3, <1>4 DEF CollectAttributes, IsAttributes
  <2>2. CASE s[k].value = SCALAR
    <3>1. attributes' = attributes
      BY <1>4, <2>2 DEF CollectAttributes
    <3>2. GivenUpTo(s, k + 1) = GivenUpTo(s, k)
      BY <1>2, <2>1, <2>2, ArraysNext
    <3> QED
      BY <1>1, <1>3, <2>1, <3>1, <3>2 DEF GivenInv
  <2>3. CASE s[k].value # SCALAR
    <3>1. attributes' = Stored(s[k].value)
      BY <1>4, <2>3 DEF CollectAttributes, Stored
    <3>2. GivenUpTo(s, k + 1) = s[k].value
      BY <1>2, <2>1, <2>3, ArraysNext
    <3> QED
      BY <1>1, <2>1, <3>1, <3>2 DEF GivenInv
  <2> QED
    BY <2>2, <2>3
<1>5. CASE CollectSpanArgument \/ ReadBeyondKeys
  <2>1. /\ stage = "span" /\ k \in DOMAIN s /\ at' = k + 1 /\ attributes' = attributes
        /\ ~(k = 3 \/ s[k].name = "attributes")
    BY <1>2, <1>3, <1>5 DEF CollectSpanArgument, ReadBeyondKeys, IsAttributes
  <2>2. GivenUpTo(s, k + 1) = GivenUpTo(s, k)
    BY <1>2, <2>1, ArraysNext
  <2> QED
    BY <1>1, <1>3, <2>1, <2>2 DEF GivenInv
<1>6. CASE BeginArgs \/ CaptureArgument \/ PassArgument \/ BeginHooks \/ RunHook \/ EnterBody \/ Forget
  <2>1. stage' # "span"
    BY <1>6 DEF BeginArgs, CaptureArgument, PassArgument, BeginHooks, RunHook, EnterBody, Forget
  <2> QED
    BY <2>1 DEF GivenInv
<1>7. CASE UNCHANGED vars
  BY <1>1, <1>7 DEF vars, GivenInv
<1> QED
  BY <1>4, <1>5, <1>6, <1>7 DEF Next, Collect

LEMMA OwnKeeps == TypeInv /\ GivenInv /\ OwnInv /\ [Next]_vars => OwnInv'
<1> SUFFICES ASSUME TypeInv, GivenInv, OwnInv, [Next]_vars PROVE OwnInv'
  OBVIOUS
<1> PICK g, W, N, k : /\ g = GivenUpTo(SpanArguments, Len(SpanArguments) + 1)
                     /\ W = Wants /\ N = Names /\ k = at
  OBVIOUS
<1>1. g = GivenUpTo(SpanArguments, Len(SpanArguments) + 1)'
  BY CallStays DEF TypeInv
<1>2. Wants' = W /\ Names' = N /\ (Plain <=> Plain') /\ args' = args
  BY WantsStay, CallStays DEF TypeInv
<1> SUFFICES ASSUME Plain, stage' \in {"args", "hooks", "body"}
             PROVE  CollectedUpTo(attributes', g, W, N, at')
  BY <1>1, <1>2 DEF OwnInv
<1>3. /\ W \subseteq DOMAIN args /\ W \subseteq Nat \ {0}
      /\ \A i \in W : IsCaptured(i) /\ Key(callee, i) = N[i]
      /\ \A i \in DOMAIN args : i \notin W => ~IsCaptured(i)
      /\ Len(args) \in Nat /\ DOMAIN args = 1..Len(args) /\ IsTable(attributes)
  BY WantsAre, WantedAreCaptured, OthersAreNotCaptured, CallTypes DEF TypeInv, TablesOK
<1>4. stage \in {"args", "hooks", "body"} => CollectedUpTo(attributes, g, W, N, k)
  BY DEF OwnInv
<1>5. stage = "args" => k \in 1..Len(args) + 1
  BY DEF TypeInv, StageOK
<1>6. CASE BeginArgs
  <2>1. stage = "span" /\ at = Len(SpanArguments) + 1 /\ at' = 1 /\ attributes' = attributes
    BY <1>6 DEF BeginArgs, Plain
  <2>2. attributes = Stored(g)
    BY <2>1 DEF GivenInv
  <2> QED
    BY <1>3, <2>1, <2>2, StoredIsCollected
<1>7. CASE CaptureArgument
  <2>1. /\ stage = "args" /\ k \in DOMAIN args /\ IsCaptured(k) /\ at' = k + 1
        /\ attributes' = Append(Without(attributes, Key(callee, k)), [key |-> Key(callee, k), arg |-> k])
    BY <1>3, <1>5, <1>7 DEF CaptureArgument
  <2>2. k \in W /\ Key(callee, k) = N[k]
    BY <1>3, <2>1
  <2>3. attributes' = Append(Without(attributes, N[k]), Entry(N, k))
    BY <2>1, <2>2 DEF Entry
  <2> QED
    BY <1>3, <1>4, <2>1, <2>2, <2>3, CaptureCollects
<1>8. CASE PassArgument
  <2>1. /\ stage = "args" /\ k \in DOMAIN args /\ ~IsCaptured(k) /\ at' = k + 1
        /\ attributes' = attributes
    BY <1>3, <1>5, <1>8 DEF PassArgument
  <2>2. k \notin W /\ k \in Nat
    BY <1>3, <2>1
  <2>3. Lasts(W, N, k + 1) = Lasts(W, N, k)
    BY <1>3, <2>2, LastStays
  <2> QED
    BY <1>4, <2>1, <2>3 DEF CollectedUpTo, ExpectedUpTo, Left
<1>9. CASE BeginHooks \/ RunHook \/ EnterBody \/ Forget \/ UNCHANGED vars
  <2>1. attributes' = attributes /\ at' = k /\ stage \in {"args", "hooks", "body"}
    BY <1>9 DEF BeginHooks, RunHook, EnterBody, Forget, vars
  <2> QED
    BY <1>4, <2>1
<1>10. CASE CollectAttributes \/ CollectSpanArgument \/ ReadBeyondKeys
  BY <1>10 DEF CollectAttributes, CollectSpanArgument, ReadBeyondKeys
<1> QED
  BY <1>6, <1>7, <1>8, <1>9, <1>10 DEF Next, Collect

LEMMA OwnMeansCollected ==
    ASSUME TypeInv, OwnInv
    PROVE  OwnAttributesAreCollected
<1> SUFFICES ASSUME Collected, Plain PROVE AreCollected(OwnMark)
  BY DEF OwnAttributesAreCollected, Plain
<1> PICK g, W, N : /\ g = GivenUpTo(SpanArguments, Len(SpanArguments) + 1)
                  /\ W = Wants /\ N = Names
  OBVIOUS
<1>1. /\ W \subseteq DOMAIN args /\ Len(args) \in Nat /\ DOMAIN args = 1..Len(args)
      /\ \A k \in DOMAIN SpanArguments : k < Len(SpanArguments) + 1
  BY WantsAre, CallTypes, SpanArgumentsAre DEF TypeInv
<1>2. CollectedUpTo(attributes, g, W, N, Len(args) + 1)
  BY DEF OwnInv, Collected, TypeInv, StageOK
<1>3. g = GivenAttributes
  BY <1>1 DEF GivenUpTo, Arrays, GivenAttributes, IsAttributes
<1>4. \A i \in W : N[i] = NameOf(i)
  BY DEF Names
<1> DEFINE last == {i \in W : \A j \in W : NameOf(i) = NameOf(j) => j <= i}
<1>5. last = Lasts(W, N, Len(args) + 1)
  <2>1. \A i \in W : i < Len(args) + 1
    BY <1>1
  <2> QED
    BY <1>4, <2>1 DEF Lasts
<1>6. Expected(OwnMark) = {[key |-> k, arg |-> 0] : k \in Range(GivenAttributes) \ {NameOf(i) : i \in last}}
                            \cup {[key |-> NameOf(i), arg |-> i] : i \in last}
  BY DEF Expected, Wants, NameOf
<1> HIDE DEF last
<1>7. \A i \in last : i \in W
  BY DEF last
<1>8. Expected(OwnMark) = ExpectedUpTo(g, W, N, Len(args) + 1)
  <2>1. Left(g, W, N, Len(args) + 1) = Range(GivenAttributes) \ {NameOf(i) : i \in last}
    BY <1>3, <1>4, <1>5, <1>7 DEF Left
  <2>2. \A i \in last : Entry(N, i) = [key |-> NameOf(i), arg |-> i]
    BY <1>4, <1>7 DEF Entry
  <2> QED
    BY <1>5, <1>6, <2>1, <2>2 DEF ExpectedUpTo, GivenEntry
<1>9. \A e, d : Before(g, e, d) => Precedes(e, d)
  BY <1>3 DEF Before, Precedes
<1> QED
  BY <1>2, <1>8, <1>9 DEF AreCollected, CollectedUpTo

\* Of a function whose parameters alone carry SpanAttribute the hooks find in
\* params[7] what its attributes say, in order: what WithSpan is given and no
\* argument replaces, and after that the arguments, for several of one name the
\* last.
THEOREM OwnAttributesAreCollectedHolds == Spec => []OwnAttributesAreCollected
<1>1. Init => GivenInv /\ OwnInv
  <2> SUFFICES ASSUME Init PROVE GivenInv
    BY DEF Init, OwnInv
  <2>1. \A k \in DOMAIN SpanArguments : ~(k < 1)
    BY SpanArgumentsAre DEF Init, CallOK
  <2>2. GivenUpTo(SpanArguments, 1) = <<>>
    BY <2>1 DEF GivenUpTo, Arrays
  <2>3. Stored(<<>>) = <<>>
    BY DEF Stored
  <2> QED
    BY <2>2, <2>3 DEF Init, GivenInv
<1>2. TypeInv /\ OwnInv => OwnAttributesAreCollected
  BY OwnMeansCollected
<1> QED
  BY <1>1, <1>2, GivenKeeps, OwnKeeps, TypesHold, PTL DEF Spec

-----------------------------------------------------------------------------
(* What a parameter carries itself, whatever the interfaces say.           *)

\* The wanted arguments before n are in the table, or later ones in their place.
Counted(table, W, N, n) ==
    \A i \in W : i < n => \E e \in Range(table) : e.key = N[i] /\ e.arg >= i

MarksInv ==
    stage \in {"args", "hooks", "body"} /\ ~Extra => Counted(attributes, Wants, Names, at)

LEMMA MarksKeep == TypeInv /\ MarksInv /\ [Next]_vars => MarksInv'
<1> SUFFICES ASSUME TypeInv, MarksInv, [Next]_vars PROVE MarksInv'
  OBVIOUS
<1> PICK W, N, k : W = Wants /\ N = Names /\ k = at
  OBVIOUS
<1>1. Wants' = W /\ Names' = N /\ args' = args /\ callee' = callee /\ (Extra <=> Extra')
  BY WantsStay, CallStays DEF TypeInv, Extra
<1> SUFFICES ASSUME ~Extra, stage' \in {"args", "hooks", "body"}
             PROVE  Counted(attributes', W, N, at')
  BY <1>1 DEF MarksInv
<1>2. /\ W \subseteq DOMAIN args /\ W \subseteq Nat \ {0}
      /\ \A i \in W : IsCaptured(i) /\ Key(callee, i) = N[i]
      /\ Len(args) \in Nat /\ DOMAIN args = 1..Len(args) /\ IsTable(attributes)
  BY WantsAre, WantedAreCaptured, CallTypes DEF TypeInv, TablesOK
<1>3. /\ stage \in {"args", "hooks", "body"} => Counted(attributes, W, N, k)
      /\ stage = "args" => k \in 1..Len(args) + 1
  BY DEF MarksInv, TypeInv, StageOK
<1>4. CASE BeginArgs
  <2>1. at' = 1
    BY <1>4 DEF BeginArgs
  <2>2. \A i \in W : ~(i < 1)
    BY <1>2
  <2> QED
    BY <2>1, <2>2 DEF Counted
<1>5. CASE CaptureArgument
  <2> PICK e : e = [key |-> Key(callee, k), arg |-> k]
    OBVIOUS
  <2>1. /\ stage = "args" /\ k \in DOMAIN args /\ at' = k + 1
        /\ attributes' = Append(Without(attributes, e.key), e)
    BY <1>2, <1>3, <1>5 DEF CaptureArgument
  <2>2. /\ Range(attributes') = {d \in Range(attributes) : d.key # e.key} \cup {e}
    BY <1>2, <2>1, PutIs
  <2>3. e.arg = k /\ k \in Nat /\ (k \in W => e.key = N[k])
    BY <1>2, <2>1
  <2>4. ASSUME NEW i \in W, i < k + 1
        PROVE  \E d \in Range(attributes') : d.key = N[i] /\ d.arg >= i
    <3>1. i \in Nat
      BY <1>2
    <3>2. CASE i = k
      BY <2>2, <2>3, <3>2
    <3>3. CASE i < k
      <4>1. PICK d \in Range(attributes) : d.key = N[i] /\ d.arg >= i
        BY <1>3, <2>1, <3>3 DEF Counted
      <4>2. CASE d.key = e.key
        BY <2>2, <2>3, <3>1, <3>3, <4>1, <4>2
      <4>3. CASE d.key # e.key
        BY <2>2, <4>1, <4>3
      <4> QED
        BY <4>2, <4>3
    <3> QED
      BY <2>3, <2>4, <3>1, <3>2, <3>3
  <2> QED
    BY <2>1, <2>4 DEF Counted
<1>6. CASE PassArgument
  <2>1. /\ stage = "args" /\ k \in DOMAIN args /\ ~IsCaptured(k) /\ at' = k + 1
        /\ attributes' = attributes
    BY <1>2, <1>3, <1>6 DEF PassArgument
  <2>2. \A i \in W : i < k + 1 => i < k
    BY <1>2, <2>1
  <2> QED
    BY <1>3, <2>1, <2>2 DEF Counted
<1>7. CASE BeginHooks \/ RunHook \/ EnterBody \/ Forget \/ UNCHANGED vars
  <2>1. attributes' = attributes /\ at' = k /\ stage \in {"args", "hooks", "body"}
    BY <1>7 DEF BeginHooks, RunHook, EnterBody, Forget, vars
  <2> QED
    BY <1>3, <2>1
<1>8. CASE CollectAttributes \/ CollectSpanArgument \/ ReadBeyondKeys
  BY <1>8 DEF CollectAttributes, CollectSpanArgument, ReadBeyondKeys
<1> QED
  BY <1>4, <1>5, <1>6, <1>7, <1>8 DEF Next, Collect

\* Whatever the methods of interfaces carry: an argument whose parameter itself
\* carries SpanAttribute is in params[7] under its key, or a later one is.
THEOREM OwnMarksCountHolds == Spec => []OwnMarksCount
<1>1. Init => MarksInv
  BY DEF Init, MarksInv
<1>2. TypeInv /\ MarksInv => OwnMarksCount
  <2> SUFFICES ASSUME TypeInv, MarksInv, Collected, ~Extra, NEW i \in Wants
               PROVE  \E n \in DOMAIN attributes :
                        attributes[n].key = NameOf(i) /\ attributes[n].arg >= i
    BY DEF OwnMarksCount, Wants, NameOf
  <2>1. i < at /\ Names[i] = NameOf(i)
    BY WantsAre, CallTypes DEF TypeInv, StageOK, Collected, Names
  <2>2. \E e \in Range(attributes) : e.key = NameOf(i) /\ e.arg >= i
    BY <2>1 DEF MarksInv, Counted, Collected
  <2> QED
    BY <2>2 DEF Range
<1> QED
  BY <1>1, <1>2, MarksKeep, TypesHold, PTL DEF Spec

=============================================================================
