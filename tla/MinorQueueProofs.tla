-------------------------- MODULE MinorQueueProofs --------------------------
(***************************************************************************)
(* Every operation of the load/store queue keeps its shape: the order of   *)
(* the accesses, the states they can be in and what the counters count.    *)
(***************************************************************************)
EXTENDS MinorQueue, FiniteSetTheorems, SequenceTheorems, WellFoundedInduction, TLAPS

----------------------------------------------------------------------------
(* Naturals. *)

\* A non-empty set of naturals has a least element.
LEMMA LeastNatural ==
    ASSUME NEW S \in SUBSET Nat, S # {}
    PROVE  \E x \in S : \A y \in S : x <= y
<1> DEFINE R == OpToRel(<, Nat)
<1>1. IsWellFoundedOn(R, Nat)
  BY NatLessThanWellFounded DEF OpToRel
<1>2. \A x, y \in Nat : x < y => <<x, y>> \in R
  BY DEF OpToRel
<1> HIDE DEF R
<1>3. PICK x \in S : \A y \in S : ~(<<y, x>> \in R)
  BY <1>1, WFMin
<1>4. \A y \in S : ~(y < x)
  BY <1>2, <1>3
<1> QED
  BY <1>4

\* A non-empty set of naturals that are bounded has a greatest element.
LEMMA GreatestNatural ==
    ASSUME NEW n \in Nat, NEW S \in SUBSET (0..n), S # {}
    PROVE  Max(S) \in S /\ \A y \in S : y <= Max(S)
<1> DEFINE Slack == {n - x : x \in S}
<1>1. Slack \in SUBSET Nat /\ Slack # {}
  <2>1. \A x \in S : n - x \in Nat
    OBVIOUS
  <2> QED
    BY <2>1
<1> HIDE DEF Slack
<1>2. PICK d \in Slack : \A e \in Slack : d <= e
  BY <1>1, LeastNatural
<1> USE DEF Slack
<1>3. PICK x \in S : d = n - x
  BY <1>2
<1>4. \A y \in S : n - x <= n - y
  BY <1>2, <1>3
<1>5. \A y \in S : x >= y
  BY <1>4
<1> QED
  BY <1>5 DEF Max

----------------------------------------------------------------------------
(* The loop of StoreBuffer::step. *)

\* What the body of the loop does after k turns.
TurnsFrom(q, f, n) ==
    [k \in 0..n |-> IF k = 0 THEN {[q |-> q, issued |-> TRUE, count |-> 0]}
                    ELSE UNION {StepSlot(x, k) : x \in f[k - 1]}]

LEMMA TurnsExist ==
    ASSUME NEW q
    PROVE  \A n \in Nat : \E f : f = TurnsFrom(q, f, n)
<1> DEFINE Bad == {n \in Nat : ~\E f : f = TurnsFrom(q, f, n)}
<1>1. SUFFICES ASSUME Bad # {} PROVE FALSE
  OBVIOUS
<1>2. PICK n \in Bad : \A m \in Bad : n <= m
  <2>1. Bad \in SUBSET Nat
    OBVIOUS
  <2> HIDE DEF Bad
  <2> QED
    BY <1>1, <2>1, LeastNatural
<1>3. n \in Nat /\ ~\E f : f = TurnsFrom(q, f, n)
  BY <1>2
<1>4. CASE n = 0
  <2> DEFINE f == [k \in 0..0 |-> {[q |-> q, issued |-> TRUE, count |-> 0]}]
  <2>1. f = TurnsFrom(q, f, n)
    BY <1>4 DEF TurnsFrom
  <2> QED
    BY <1>3, <2>1
<1>5. CASE n # 0
  <2>1. n - 1 \in Nat /\ n - 1 \notin Bad
    BY <1>2, <1>3, <1>5
  <2>2. PICK g : g = TurnsFrom(q, g, n - 1)
    BY <2>1
  <2> DEFINE Body(h, k) == IF k = 0 THEN {[q |-> q, issued |-> TRUE, count |-> 0]}
                           ELSE UNION {StepSlot(x, k) : x \in h[k - 1]}
             f == [k \in 0..n |-> IF k < n THEN g[k] ELSE Body(g, n)]
  <2>3. \A k \in 0..(n - 1) : g[k] = Body(g, k)
    BY <2>2 DEF TurnsFrom
  <2>4. \A k \in 0..n : k # 0 => f[k - 1] = g[k - 1]
    BY <1>3, <1>5
  <2>5. \A k \in 0..n : Body(f, k) = Body(g, k)
    BY <2>4
  <2>6. \A k \in 0..n : f[k] = Body(g, k)
    <3> HIDE DEF Body
    <3> QED
      BY <1>3, <2>3
  <2>7. f = [k \in 0..n |-> Body(f, k)]
    <3>1. \A k \in 0..n : f[k] = Body(f, k)
      BY <2>5, <2>6
    <3>2. f = [k \in 0..n |-> f[k]]
      OBVIOUS
    <3> HIDE DEF f, Body
    <3> QED
      BY <3>1, <3>2
  <2>8. f = TurnsFrom(q, f, n)
    BY <2>7 DEF TurnsFrom
  <2> QED
    BY <1>3, <2>8
<1> QED
  BY <1>4, <1>5

LEMMA TurnsRecursion ==
    ASSUME NEW q, Len(q.slots) \in Nat
    PROVE  Turns(q) = TurnsFrom(q, Turns(q), Len(q.slots))
<1>1. \E f : f = TurnsFrom(q, f, Len(q.slots))
  BY TurnsExist
<1> QED
  BY <1>1 DEF Turns, TurnsFrom

\* What holds of the loop before the first turn, G[0], and is kept by every turn k from
\* G[k - 1] to G[k], holds of what the loop leads to.
LoopStates(q) == UNION {Turns(q)[k] : k \in 0..Len(q.slots)}

LEMMA LoopInvariant ==
    ASSUME NEW q, Len(q.slots) \in Nat, NEW G,
           [q |-> q, issued |-> TRUE, count |-> 0] \in G[0],
           \A k \in 1..Len(q.slots) : \A x \in G[k - 1], y \in LoopStates(q) :
             y \in StepSlot(x, k) => y \in G[k]
    PROVE  Turns(q)[Len(q.slots)] \subseteq G[Len(q.slots)]
<1> DEFINE n == Len(q.slots)
           T == Turns(q)
           Bad == {k \in 0..n : ~(T[k] \subseteq G[k])}
<1>1. T = TurnsFrom(q, T, n)
  BY TurnsRecursion
<1>2. n \in Nat
  OBVIOUS
<1>3. \A k \in 1..n : \A x \in G[k - 1], y \in LoopStates(q) : y \in StepSlot(x, k) => y \in G[k]
  OBVIOUS
<1>4. \A k \in 0..n : T[k] \subseteq LoopStates(q)
  BY DEF LoopStates
<1> HIDE DEF T, n
<1>5. T[0] = {[q |-> q, issued |-> TRUE, count |-> 0]}
  BY <1>1, <1>2 DEF TurnsFrom
<1>6. \A k \in 1..n : T[k] = UNION {StepSlot(x, k) : x \in T[k - 1]}
  <2> DEFINE Before(k) == UNION {StepSlot(x, k) : x \in T[k - 1]}
  <2>1. T = [k \in 0..n |-> IF k = 0 THEN {[q |-> q, issued |-> TRUE, count |-> 0]}
                             ELSE Before(k)]
    BY <1>1 DEF TurnsFrom
  <2> HIDE DEF Before
  <2>2. \A k \in 1..n : T[k] = Before(k)
    BY <1>2, <2>1
  <2> QED
    BY <2>2 DEF Before
<1>7. SUFFICES ASSUME Bad # {} PROVE FALSE
  BY <1>2 DEF T, n
<1>8. PICK k \in Bad : \A m \in Bad : k <= m
  <2>1. Bad \in SUBSET Nat
    BY <1>2
  <2> HIDE DEF Bad
  <2> QED
    BY <1>7, <2>1, LeastNatural
<1>9. k \in 1..n
  <2>1. 0 \notin Bad
    BY <1>5
  <2>2. k \in 0..n /\ k # 0
    BY <1>8, <2>1
  <2> QED
    BY <1>2, <2>2
<1>10. k - 1 \in 0..n /\ ~(k <= k - 1)
  BY <1>2, <1>9
<1>11. T[k - 1] \subseteq G[k - 1]
  BY <1>8, <1>10
<1>12. T[k] \subseteq G[k]
  BY <1>3, <1>4, <1>6, <1>9, <1>11
<1> QED
  BY <1>8, <1>12

----------------------------------------------------------------------------
(* Queues of accesses in program order. *)

\* What the queue has for instruction n.
Entry(s, n) == {s[i] : i \in {j \in 1..Len(s) : s[j].inst = n}}

\* Everything in queue t is in queue s.
From(t, s) == \A i \in 1..Len(t) : \E j \in 1..Len(s) : t[i] = s[j]

LEMMA EntryOf ==
    ASSUME NEW X, NEW s \in Seq(X), \A x \in X : x.inst \in Nat, InOrder(s),
           NEW i \in 1..Len(s)
    PROVE  /\ Entry(s, s[i].inst) = {s[i]}
           /\ \A j \in 1..Len(s) : s[j].inst = s[i].inst => j = i
<1> DEFINE n == Len(s)
<1>1. n \in Nat /\ i \in 1..n
  BY LenProperties
<1>2. \A j \in 1..n : s[j].inst \in Nat
  BY ElementOfSeq
<1>3. \A j, k \in 1..n : j < k => s[j].inst < s[k].inst
  BY DEF InOrder
<1> HIDE DEF n
<1>4. \A j \in 1..n : s[j].inst = s[i].inst => j = i
  <2> SUFFICES ASSUME NEW j \in 1..n, s[j].inst = s[i].inst, j # i PROVE FALSE
    OBVIOUS
  <2>1. j < i \/ i < j
    BY <1>1
  <2>2. s[j].inst < s[i].inst \/ s[i].inst < s[j].inst
    BY <1>1, <1>3, <2>1
  <2> QED
    BY <1>1, <1>2, <2>2
<1>5. Entry(s, s[i].inst) = {s[i]}
  BY <1>1, <1>4 DEF Entry, n
<1> QED
  BY <1>4, <1>5 DEF n

LEMMA Appended ==
    ASSUME NEW X, NEW s \in Seq(X), \A x \in X : x.inst \in Nat, InOrder(s),
           NEW x \in X, \A i \in 1..Len(s) : s[i].inst < x.inst
    PROVE  /\ Append(s, x) \in Seq(X) /\ Len(Append(s, x)) = Len(s) + 1
           /\ InOrder(Append(s, x))
           /\ \A i \in 1..Len(Append(s, x)) :
                Append(s, x)[i] = x \/ \E j \in 1..Len(s) : Append(s, x)[i] = s[j]
           /\ \A m : Entry(Append(s, x), m) = IF m = x.inst THEN {x} ELSE Entry(s, m)
<1> DEFINE n == Len(s)
           t == Append(s, x)
<1>1. n \in Nat
  BY LenProperties
<1>2. t \in Seq(X) /\ Len(t) = n + 1 /\ (\A i \in 1..n : t[i] = s[i]) /\ t[n + 1] = x
  BY AppendProperties
<1>3. \A j, k \in 1..n : j < k => s[j].inst < s[k].inst
  BY DEF InOrder
<1>4. \A i \in 1..n : s[i].inst < x.inst
  OBVIOUS
<1> HIDE DEF n, t
<1>5. \A i \in 1..(n + 1) : i \in 1..n \/ i = n + 1
  BY <1>1
<1>6. InOrder(t)
  <2> SUFFICES ASSUME NEW i \in 1..(n + 1), NEW j \in 1..(n + 1), i < j
               PROVE  t[i].inst < t[j].inst
    BY <1>2 DEF InOrder
  <2>1. i \in 1..n
    BY <1>1
  <2>2. CASE j \in 1..n
    BY <1>2, <1>3, <2>1, <2>2
  <2>3. CASE j = n + 1
    BY <1>2, <1>4, <2>1, <2>3
  <2> QED
    BY <1>5, <2>2, <2>3
<1>7. \A i \in 1..Len(t) : t[i] = x \/ \E j \in 1..n : t[i] = s[j]
  BY <1>2, <1>5
<1>8. ASSUME NEW m PROVE Entry(t, m) = IF m = x.inst THEN {x} ELSE Entry(s, m)
  <2>1. Entry(s, m) = {s[i] : i \in {j \in 1..n : s[j].inst = m}}
    BY DEF Entry, n
  <2>2. Entry(t, m) = {t[i] : i \in {j \in 1..(n + 1) : t[j].inst = m}}
    BY <1>2 DEF Entry
  <2>3. CASE m = x.inst
    <3>1. \A i \in 1..n : t[i].inst # m
      <4> TAKE i \in 1..n
      <4>1. s[i] \in X
        BY ElementOfSeq DEF n
      <4>2. s[i].inst < x.inst /\ s[i].inst \in Nat /\ x.inst \in Nat
        BY <1>4, <4>1
      <4> QED
        BY <1>2, <2>3, <4>2
    <3> QED
      BY <1>1, <1>2, <1>5, <2>2, <2>3, <3>1
  <2>4. CASE m # x.inst
    BY <1>1, <1>2, <1>5, <2>1, <2>2, <2>4
  <2> QED
    BY <2>3, <2>4
<1> QED
  BY <1>2, <1>6, <1>7, <1>8 DEF n, t

Put(s, k, x) == [s EXCEPT ![k] = x]

LEMMA Updated ==
    ASSUME NEW X, NEW s \in Seq(X), \A x \in X : x.inst \in Nat, InOrder(s),
           NEW k \in 1..Len(s), NEW x \in X, x.inst = s[k].inst
    PROVE  /\ Put(s, k, x) \in Seq(X) /\ Len(Put(s, k, x)) = Len(s)
           /\ \A i \in 1..Len(s) : Put(s, k, x)[i] = IF i = k THEN x ELSE s[i]
           /\ InOrder(Put(s, k, x))
           /\ \A m : Entry(Put(s, k, x), m) = IF m = x.inst THEN {x} ELSE Entry(s, m)
<1> DEFINE n == Len(s)
           t == [s EXCEPT ![k] = x]
<1>1. n \in Nat /\ DOMAIN s = 1..n /\ k \in 1..n
  BY LenProperties
<1>2. t \in Seq(X) /\ Len(t) = n
  BY ExceptSeq
<1>3. \A i \in 1..n : t[i] = IF i = k THEN x ELSE s[i]
  BY <1>1
<1>4. \A i, j \in 1..n : i < j => s[i].inst < s[j].inst
  BY DEF InOrder
<1>5. \A i \in 1..n : s[i].inst = s[k].inst => i = k
  BY EntryOf
<1> HIDE DEF n, t
<1>6. \A i \in 1..n : t[i].inst = s[i].inst
  BY <1>1, <1>3
<1>7. InOrder(t)
  BY <1>2, <1>4, <1>6 DEF InOrder
<1>8. ASSUME NEW m PROVE Entry(t, m) = IF m = x.inst THEN {x} ELSE Entry(s, m)
  <2>1. Entry(s, m) = {s[i] : i \in {j \in 1..n : s[j].inst = m}}
    BY DEF Entry, n
  <2>2. Entry(t, m) = {t[i] : i \in {j \in 1..n : t[j].inst = m}}
    BY <1>2 DEF Entry
  <2>3. CASE m = x.inst
    <3>1. \A j \in 1..n : t[j].inst = m => j = k
      BY <1>5, <1>6, <2>3
    <3>2. t[k] = x /\ t[k].inst = m
      BY <1>1, <1>3, <2>3
    <3> QED
      BY <1>1, <2>2, <2>3, <3>1, <3>2
  <2>4. CASE m # x.inst
    <3>1. \A j \in 1..n : s[j].inst = m => j # k
      BY <2>4
    <3> QED
      BY <1>3, <1>6, <2>1, <2>2, <2>4, <3>1
  <2> QED
    BY <2>3, <2>4
<1> QED
  BY <1>2, <1>3, <1>7, <1>8 DEF n, t, Put

\* A queue from which one entry has been taken.
AllBut(t, s, k) ==
    /\ Len(t) = Len(s) - 1
    /\ \A i \in 1..(Len(s) - 1) : t[i] = IF i < k THEN s[i] ELSE s[i + 1]

LEMMA TakenOut ==
    ASSUME NEW X, NEW s \in Seq(X), \A x \in X : x.inst \in Nat, InOrder(s),
           NEW k \in 1..Len(s), NEW t, AllBut(t, s, k)
    PROVE  /\ InOrder(t)
           /\ From(t, s)
           /\ \A i \in 1..Len(t) : t[i].inst # s[k].inst
           /\ \A m : Entry(t, m) = IF m = s[k].inst THEN {} ELSE Entry(s, m)
<1> DEFINE n == Len(s)
           o(i) == IF i < k THEN i ELSE i + 1
<1>1. n \in Nat /\ k \in 1..n
  BY LenProperties
<1>2. Len(t) = n - 1 /\ \A i \in 1..(n - 1) : t[i] = s[o(i)]
  BY DEF AllBut
<1>3. \A i, j \in 1..n : i < j => s[i].inst < s[j].inst
  BY DEF InOrder
<1>4. \A i \in 1..n : s[i].inst = s[k].inst => i = k
  BY EntryOf
<1> HIDE DEF n
<1>5. /\ \A i \in 1..(n - 1) : o(i) \in 1..n /\ o(i) # k
      /\ \A i, j \in 1..(n - 1) : i < j => o(i) < o(j)
      /\ \A i \in 1..n : i # k => \E j \in 1..(n - 1) : o(j) = i
  <2>1. \A i \in 1..(n - 1) : o(i) \in 1..n /\ o(i) # k
    BY <1>1
  <2>2. \A i, j \in 1..(n - 1) : i < j => o(i) < o(j)
    BY <1>1
  <2>3. ASSUME NEW i \in 1..n, i # k PROVE \E j \in 1..(n - 1) : o(j) = i
    <3>1. CASE i < k
      <4>1. i \in 1..(n - 1) /\ o(i) = i
        BY <1>1, <3>1
      <4> QED
        BY <4>1
    <3>2. CASE i > k
      <4>1. i - 1 \in 1..(n - 1) /\ o(i - 1) = i
        BY <1>1, <3>2
      <4> QED
        BY <4>1
    <3> QED
      BY <1>1, <2>3, <3>1, <3>2
  <2> QED
    BY <2>1, <2>2, <2>3
<1> HIDE DEF o
<1>6. InOrder(t)
  <2>1. ASSUME NEW i \in 1..(n - 1), NEW j \in 1..(n - 1), i < j
        PROVE  t[i].inst < t[j].inst
    <3>1. o(i) \in 1..n /\ o(j) \in 1..n /\ o(i) < o(j)
      BY <1>5, <2>1
    <3>2. s[o(i)].inst < s[o(j)].inst
      BY <1>3, <3>1
    <3> QED
      BY <1>2, <3>2
  <2> QED
    BY <1>2, <2>1 DEF InOrder
<1>7. From(t, s)
  BY <1>2, <1>5 DEF From, n
<1>8. \A i \in 1..Len(t) : t[i].inst # s[k].inst
  BY <1>2, <1>4, <1>5
<1>9. ASSUME NEW m PROVE Entry(t, m) = IF m = s[k].inst THEN {} ELSE Entry(s, m)
  <2>1. Entry(s, m) = {s[i] : i \in {j \in 1..n : s[j].inst = m}}
    BY DEF Entry, n
  <2>2. Entry(t, m) = {t[i] : i \in {j \in 1..(n - 1) : t[j].inst = m}}
    BY <1>2 DEF Entry
  <2>3. CASE m = s[k].inst
    BY <1>2, <1>8, <2>2, <2>3
  <2>4. CASE m # s[k].inst
    <3>1. ASSUME NEW e \in Entry(s, m) PROVE e \in Entry(t, m)
      <4>1. PICK i \in 1..n : e = s[i] /\ s[i].inst = m
        BY <2>1, <3>1
      <4>2. PICK j \in 1..(n - 1) : o(j) = i
        BY <1>5, <2>4, <4>1
      <4> QED
        BY <1>2, <2>2, <4>1, <4>2
    <3>2. ASSUME NEW e \in Entry(t, m) PROVE e \in Entry(s, m)
      <4>1. PICK i \in 1..(n - 1) : e = t[i] /\ t[i].inst = m
        BY <2>2, <3>2
      <4> QED
        BY <1>2, <1>5, <2>1, <4>1
    <3> QED
      BY <2>4, <3>1, <3>2
  <2> QED
    BY <2>3, <2>4
<1> QED
  BY <1>6, <1>7, <1>8, <1>9

LEMMA Tailed ==
    ASSUME NEW X, NEW s \in Seq(X), \A x \in X : x.inst \in Nat, InOrder(s), s # <<>>
    PROVE  /\ Tail(s) \in Seq(X) /\ Len(Tail(s)) = Len(s) - 1 /\ Len(s) \in Nat \ {0}
           /\ \A i \in 1..(Len(s) - 1) : Tail(s)[i] = s[i + 1]
           /\ Head(s) = s[1] /\ s[1] \in X
           /\ InOrder(Tail(s)) /\ From(Tail(s), s)
           /\ \A i \in 1..Len(Tail(s)) : Tail(s)[i].inst # s[1].inst
           /\ \A m : Entry(Tail(s), m) = IF m = s[1].inst THEN {} ELSE Entry(s, m)
<1> DEFINE n == Len(s)
           t == Tail(s)
<1>1. n \in Nat \ {0}
  BY EmptySeq
<1>2. t \in Seq(X) /\ Len(t) = n - 1 /\ Head(s) = s[1] /\ s[1] \in X
  BY HeadTailProperties, ElementOfSeq
<1>3. \A i \in 1..(n - 1) : t[i] = s[i + 1]
  BY <1>1, <1>2 DEF n
<1> HIDE DEF n, t
<1>4. 1 \in 1..n /\ AllBut(t, s, 1)
  <2>1. 1 \in 1..n /\ \A i \in 1..(n - 1) : t[i] = IF i < 1 THEN s[i] ELSE s[i + 1]
    BY <1>1, <1>3
  <2> QED
    BY <1>2, <2>1 DEF AllBut, n
<1>5. /\ InOrder(t) /\ From(t, s)
      /\ \A i \in 1..Len(t) : t[i].inst # s[1].inst
      /\ \A m : Entry(t, m) = IF m = s[1].inst THEN {} ELSE Entry(s, m)
  BY <1>4, TakenOut DEF n
<1> QED
  BY <1>1, <1>2, <1>3, <1>5 DEF n, t

LEMMA RemovedAt ==
    ASSUME NEW X, NEW s \in Seq(X), \A x \in X : x.inst \in Nat, InOrder(s),
           NEW k \in 1..Len(s)
    PROVE  /\ RemoveAt(s, k) \in Seq(X) /\ Len(RemoveAt(s, k)) = Len(s) - 1
           /\ InOrder(RemoveAt(s, k)) /\ From(RemoveAt(s, k), s)
           /\ \A i \in 1..Len(RemoveAt(s, k)) : RemoveAt(s, k)[i].inst # s[k].inst
           /\ \A m : Entry(RemoveAt(s, k), m) = IF m = s[k].inst THEN {} ELSE Entry(s, m)
<1> DEFINE n == Len(s)
           a == SubSeq(s, 1, k - 1)
           b == SubSeq(s, k + 1, n)
           t == RemoveAt(s, k)
<1>1. n \in Nat /\ k \in 1..n
  BY LenProperties
<1>2. a \in Seq(X) /\ Len(a) = k - 1 /\ \A i \in 1..(k - 1) : a[i] = s[i]
  BY <1>1, SubSeqProperties
<1>3. b \in Seq(X) /\ Len(b) = n - k /\ \A i \in 1..(n - k) : b[i] = s[k + i]
  BY <1>1, SubSeqProperties
<1>4. t = a \o b
  BY DEF RemoveAt
<1> HIDE DEF a, b, t, n
<1>5. /\ t \in Seq(X) /\ Len(t) = Len(a) + Len(b)
      /\ \A i \in 1..(Len(a) + Len(b)) : t[i] = IF i <= Len(a) THEN a[i] ELSE b[i - Len(a)]
  BY <1>2, <1>3, <1>4, ConcatProperties
<1>6. Len(t) = n - 1
  BY <1>1, <1>2, <1>3, <1>5
<1>7. \A i \in 1..(n - 1) : t[i] = IF i < k THEN s[i] ELSE s[i + 1]
  <2> SUFFICES ASSUME NEW i \in 1..(n - 1) PROVE t[i] = IF i < k THEN s[i] ELSE s[i + 1]
    OBVIOUS
  <2>1. i \in 1..(Len(a) + Len(b))
    BY <1>1, <1>2, <1>3
  <2>2. CASE i < k
    BY <1>1, <1>2, <1>5, <2>1, <2>2
  <2>3. CASE ~(i < k)
    <3>1. t[i] = b[i - (k - 1)] /\ i - (k - 1) \in 1..(n - k)
      BY <1>1, <1>2, <1>5, <2>1, <2>3
    <3>2. k + (i - (k - 1)) = i + 1
      BY <1>1
    <3> QED
      BY <1>3, <2>3, <3>1, <3>2
  <2> QED
    BY <2>2, <2>3
<1>8. /\ InOrder(t) /\ From(t, s)
      /\ \A i \in 1..Len(t) : t[i].inst # s[k].inst
      /\ \A m : Entry(t, m) = IF m = s[k].inst THEN {} ELSE Entry(s, m)
  <2>1. AllBut(t, s, k)
    BY <1>6, <1>7 DEF AllBut, n
  <2> QED
    BY <2>1, TakenOut
<1> QED
  BY <1>5, <1>6, <1>8 DEF n, t

\* FrontSet sets the first entry.
LEMMA FrontIsFirst ==
    ASSUME NEW X, NEW s \in Seq(X), s # <<>>, NEW x
    PROVE  <<x>> \o Tail(s) = [s EXCEPT ![1] = x]
<1> DEFINE n == Len(s)
           Y == X \cup {x}
           a == <<x>> \o Tail(s)
           b == [s EXCEPT ![1] = x]
<1>1. s \in Seq(Y) /\ n \in Nat \ {0} /\ DOMAIN s = 1..n
  BY SeqMonotonic, EmptySeq, LenProperties
<1>2. Tail(s) \in Seq(Y) /\ Len(Tail(s)) = n - 1 /\ \A i \in 1..(n - 1) : Tail(s)[i] = s[i + 1]
  BY <1>1, HeadTailProperties
<1>3. <<x>> \in Seq(Y) /\ Len(<<x>>) = 1 /\ <<x>>[1] = x
  OBVIOUS
<1> HIDE DEF n, Y
<1>4. /\ a \in Seq(Y) /\ Len(a) = 1 + (n - 1)
      /\ \A i \in 1..(1 + (n - 1)) : a[i] = IF i <= 1 THEN <<x>>[i] ELSE Tail(s)[i - 1]
  BY <1>2, <1>3, ConcatProperties
<1>5. b \in Seq(Y) /\ Len(b) = n /\ \A i \in 1..n : b[i] = IF i = 1 THEN x ELSE s[i]
  <2>1. 1 \in 1..Len(s) /\ x \in Y
    BY <1>1 DEF n, Y
  <2> QED
    BY <1>1, <2>1, ExceptSeq DEF n
<1>6. Len(a) = n /\ Len(a) = Len(b)
  BY <1>1, <1>4, <1>5
<1> HIDE DEF a, b
<1>7. \A i \in 1..n : a[i] = b[i]
  <2> TAKE i \in 1..n
  <2>0. i \in 1..(1 + (n - 1))
    BY <1>1
  <2>1. CASE i = 1
    BY <1>3, <1>4, <1>5, <2>0, <2>1
  <2>2. CASE i # 1
    <3>1. i - 1 \in 1..(n - 1) /\ (i - 1) + 1 = i /\ ~(i <= 1)
      BY <1>1, <2>2
    <3> QED
      BY <1>2, <1>4, <1>5, <2>0, <2>2, <3>1
  <2> QED
    BY <2>1, <2>2
<1> QED
  BY <1>4, <1>5, <1>6, <1>7, SeqEqual DEF a, b

----------------------------------------------------------------------------
(* Counting. *)

Num(b) == IF b THEN 1 ELSE 0

\* One element is counted apart from the others.
LEMMA SplitCount ==
    ASSUME NEW S, IsFiniteSet(S), NEW n
    PROVE  /\ Cardinality(S) = Cardinality(S \ {n}) + Num(n \in S)
           /\ Cardinality(S \ {n}) \in Nat /\ Cardinality(S) \in Nat
<1>1. IsFiniteSet(S \ {n}) /\ Cardinality(S \ {n}) = IF n \in S THEN Cardinality(S) - 1 ELSE Cardinality(S)
  BY FS_RemoveElement
<1>2. Cardinality(S) \in Nat /\ Cardinality(S \ {n}) \in Nat
  BY <1>1, FS_CardinalityType
<1> QED
  BY <1>1, <1>2 DEF Num

Second(P, n) == {k \in Nat : <<n, k>> \in P}

Apart(P, n) == {x \in P : x[1] # n}

\* The pairs with one first component are counted apart from the others.
LEMMA SplitPairs ==
    ASSUME NEW I, NEW P \in SUBSET (I \X Nat), IsFiniteSet(P), NEW n
    PROVE  /\ Cardinality(P) = Cardinality(Apart(P, n)) + Cardinality(Second(P, n))
           /\ IsFiniteSet(Second(P, n))
           /\ Cardinality(Apart(P, n)) \in Nat
<1> DEFINE A == {x \in P : x[1] # n}
           B == {x \in P : x[1] = n}
           K == Second(P, n)
<1>1. A \in SUBSET P /\ B \in SUBSET P /\ A \cap B = {} /\ A \cup B = P
  OBVIOUS
<1>2. IsFiniteSet(A) /\ IsFiniteSet(B)
  BY <1>1, FS_Subset
<1>3. B = {n} \X K
  <2>1. ASSUME NEW x \in B PROVE x \in {n} \X K
    <3>1. x \in I \X Nat /\ x[1] = n /\ x \in P
      OBVIOUS
    <3>2. x = <<n, x[2]>> /\ x[2] \in Nat
      BY <3>1
    <3> QED
      BY <3>1, <3>2 DEF Second
  <2>2. ASSUME NEW x \in {n} \X K PROVE x \in B
    <3>1. PICK k \in K : x = <<n, k>>
      OBVIOUS
    <3> QED
      BY <3>1 DEF Second
  <2> QED
    BY <2>1, <2>2
<1>4. IsFiniteSet(K)
  <2> DEFINE f == [k \in K |-> <<n, k>>]
  <2>1. f \in Injection(K, B)
    BY <1>3 DEF Injection, IsInjective
  <2> QED
    BY <1>2, <2>1, FS_Injection
<1> HIDE DEF K
<1>5. Cardinality(B) = Cardinality(K)
  <2>1. IsFiniteSet({n}) /\ Cardinality({n}) = 1
    BY FS_Singleton
  <2>2. Cardinality({n} \X K) = Cardinality({n}) * Cardinality(K)
    BY <1>4, <2>1, FS_Product
  <2>3. Cardinality(K) \in Nat
    BY <1>4, FS_CardinalityType
  <2>4. Cardinality(B) = Cardinality({n} \X K)
    BY <1>3, Zenon
  <2>5. Cardinality({n} \X K) = Cardinality(K)
    BY <2>1, <2>2, <2>3
  <2> QED
    BY <2>4, <2>5, Zenon
<1>6. Cardinality(P) = Cardinality(A) + Cardinality(B)
  <2> HIDE DEF A, B
  <2>1. Cardinality(A \cup B) = Cardinality(A) + Cardinality(B) - Cardinality(A \cap B)
    BY <1>2, FS_Union
  <2>2. Cardinality({}) = 0
    BY FS_EmptySet
  <2>3. Cardinality(A) \in Nat /\ Cardinality(B) \in Nat
    BY <1>2, FS_CardinalityType
  <2>4. Cardinality(A \cup B) = Cardinality(P) /\ Cardinality(A \cap B) = Cardinality({})
    BY <1>1, Zenon
  <2>5. Cardinality(A \cup B) = Cardinality(A) + Cardinality(B)
    BY <2>1, <2>2, <2>3, <2>4
  <2> QED
    BY <2>4, <2>5, Zenon
<1>7. Cardinality(A) \in Nat
  BY <1>2, FS_CardinalityType
<1> QED
  BY <1>4, <1>5, <1>6, <1>7 DEF K, Apart

\* What the specification assumes of programs.
LEMMA ProgramFacts ==
    ASSUME prog \in Seq(Instructions)
    PROVE  /\ Len(prog) \in Nat
           /\ \A n \in Insts : /\ Lines(n) \in Seq(Addrs) /\ NumFragments(n) \in Nat
                               /\ IsMemRef(n) => NumFragments(n) > 0
                               /\ IsMemRef(n) => ~IsBarrier(n)
                               /\ IsBarrier(n) => Lines(n) = <<>>
                               /\ prog[n].srcs \in SUBSET Regs /\ prog[n].dests \in SUBSET Regs
<1>1. Len(prog) \in Nat
  BY LenProperties
<1>2. SUFFICES ASSUME NEW n \in Insts
               PROVE  /\ Lines(n) \in Seq(Addrs) /\ NumFragments(n) \in Nat
                      /\ IsMemRef(n) => NumFragments(n) > 0
                      /\ IsMemRef(n) => ~IsBarrier(n)
                      /\ IsBarrier(n) => Lines(n) = <<>>
                      /\ prog[n].srcs \in SUBSET Regs /\ prog[n].dests \in SUBSET Regs
  BY <1>1
<1>3. prog[n] \in Instructions
  BY ElementOfSeq DEF Insts
<1>4. Lines(n) \in Seq(Addrs)
  BY <1>3 DEF Instructions, Lines
<1>5. NumFragments(n) \in Nat
  BY <1>4, LenProperties DEF NumFragments
<1>6. IsMemRef(n) => Lines(n) # <<>>
  BY <1>3 DEF Instructions, Lines, IsMemRef, IsLoad, IsStore
<1>7. IsMemRef(n) => NumFragments(n) > 0
  <2>1. Lines(n) # <<>> => Len(Lines(n)) \in Nat \ {0}
    BY <1>4, EmptySeq
  <2> QED
    BY <1>6, <2>1 DEF NumFragments
<1>8. (IsMemRef(n) => ~IsBarrier(n)) /\ (IsBarrier(n) => Lines(n) = <<>>)
  BY <1>3 DEF IsMemRef, IsLoad, IsStore, IsBarrier, Lines, Instructions
<1>9. prog[n].srcs \in SUBSET Regs /\ prog[n].dests \in SUBSET Regs
  BY <1>3 DEF Instructions
<1> QED
  BY <1>4, <1>5, <1>7, <1>8, <1>9

AllFragments == UNION {{n} \X (1..NumFragments(n)) : n \in Insts}

LEMMA FragmentsFinite ==
    ASSUME prog \in Seq(Instructions)
    PROVE  IsFiniteSet(AllFragments) /\ IsFiniteSet(Insts)
<1> DEFINE F == {{n} \X (1..NumFragments(n)) : n \in Insts}
           f == [n \in Insts |-> {n} \X (1..NumFragments(n))]
<1>1. IsFiniteSet(Insts)
  BY ProgramFacts, FS_Interval DEF Insts
<1>2. f \in Surjection(Insts, F)
  BY DEF Surjection
<1>3. IsFiniteSet(F)
  BY <1>1, <1>2, FS_Surjection
<1>4. ASSUME NEW n \in Insts PROVE IsFiniteSet({n} \X (1..NumFragments(n)))
  <2>1. IsFiniteSet({n}) /\ IsFiniteSet(1..NumFragments(n))
    <3>1. NumFragments(n) \in Int
      BY ProgramFacts
    <3>2. IsFiniteSet(1..NumFragments(n))
      BY <3>1, FS_Interval
    <3>3. IsFiniteSet({n})
      BY FS_Singleton
    <3> QED
      BY <3>2, <3>3
  <2> QED
    BY <2>1, FS_Product
<1>5. \A T \in F : IsFiniteSet(T)
  BY <1>4
<1> HIDE DEF F
<1>6. IsFiniteSet(UNION F)
  BY <1>3, <1>5, FS_UNION
<1> QED
  BY <1>1, <1>6 DEF AllFragments, F

LEMMA RequestFacts ==
    ASSUME prog \in Seq(Instructions), NEW r \in Pending \cup Transferring \cup Slot
    PROVE  /\ r \in Request /\ r.inst \in Insts /\ r.inst \in Nat /\ NumFragments(r.inst) \in Nat
           /\ r.sent \in Nat /\ r.retired \in Nat
           /\ r.retired <= r.sent /\ r.sent <= NumFragments(r.inst)
           /\ r.issuedToMemory \in BOOLEAN
<1>1. r \in Request
  BY DEF Pending, Transferring, Slot
<1>2. /\ r.inst \in Insts /\ r.sent \in Nat /\ r.retired \in Nat /\ r.issuedToMemory \in BOOLEAN
  BY <1>1 DEF Request
<1>3. NumFragments(r.inst) \in Nat /\ r.inst \in Nat
  BY <1>2, ProgramFacts DEF Insts
<1>4. CASE r \in Pending
  <2>1. r.retired <= r.sent /\ r.sent < NumFragments(r.inst)
    BY <1>4 DEF Pending
  <2> QED
    BY <1>1, <1>2, <1>3, <2>1
<1>5. CASE r \in Transferring
  <2>1. r.retired <= r.sent /\ r.sent <= NumFragments(r.inst)
    BY <1>5 DEF Transferring
  <2> QED
    BY <1>1, <1>2, <1>3, <2>1
<1>6. CASE r \in Slot
  <2>1. \/ r.sent = 0 /\ r.retired = 0
        \/ r.retired <= r.sent /\ r.sent <= NumFragments(r.inst)
    BY <1>6 DEF Slot
  <2> QED
    BY <1>1, <1>2, <1>3, <2>1
<1> QED
  BY <1>4, <1>5, <1>6

LEMMA QueueTypes ==
    ASSUME NEW q \in LSQs
    PROVE  /\ q.requests \in Seq(Pending) /\ q.transfers \in Seq(Transferring)
           /\ q.slots \in Seq(Slot)
           /\ q.state \in {"MemoryRunning", "MemoryNeedsRetry"} /\ q.lastMemBarrier \in 0..Len(prog)
           /\ q.numStoresInTransfers \in Int /\ q.numAccessesIssuedToMemory \in Int
           /\ q.numUnissuedAccesses \in Int /\ q.numAccessesInMemorySystem \in Int
           /\ q.mem \in [Addrs -> 0..Len(prog)]
  BY DEF LSQs

Entries(q, m) == Entry(q.requests, m) \cup Entry(q.transfers, m) \cup Entry(q.slots, m)

\* Where the entries of an instruction are from, and how ToSet sees them.
LEMMA EntryFacts ==
    ASSUME prog \in Seq(Instructions), NEW X \in {Pending, Transferring, Slot}, NEW s \in Seq(X)
    PROVE  /\ ToSet(s) = UNION {Entry(s, m) : m \in Insts}
           /\ \A m : \A x \in Entry(s, m) : x \in X /\ x \in ToSet(s) /\ x.inst = m /\ m \in Insts
<1>1. DOMAIN s = 1..Len(s) /\ \A i \in 1..Len(s) : s[i] \in X /\ s[i].inst \in Insts
  <2>1. DOMAIN s = 1..Len(s) /\ \A i \in 1..Len(s) : s[i] \in X
    BY LenProperties, ElementOfSeq
  <2>2. \A x \in X : x.inst \in Insts
    BY RequestFacts
  <2> QED
    BY <2>1, <2>2
<1> QED
  BY <1>1 DEF Entry, ToSet

\* The counted sets in terms of the entries.
LEMMA CountSets ==
    ASSUME prog \in Seq(Instructions), NEW q \in LSQs
    PROVE  /\ StoresInTransfers(q) = {m \in Insts : \E x \in Entry(q.transfers, m) : ~x.isLoad}
           /\ UnissuedAccesses(q) =
                {m \in Insts : \E x \in Entry(q.slots, m) : IsBarrier(m) \/ ~SentAllPackets(x)}
           /\ AccessesIssuedToMemory(q) =
                {m \in Insts : \E x \in Entry(q.requests, m) \cup Entry(q.transfers, m) :
                                 x.issuedToMemory}
           /\ PacketsInMemSystem(q) =
                UNION {{m} \X UNION {(x.retired + 1)..x.sent : x \in Entries(q, m)} : m \in Insts}
<1>1. /\ q.requests \in Seq(Pending) /\ q.transfers \in Seq(Transferring) /\ q.slots \in Seq(Slot)
  BY QueueTypes
<1>2. /\ ToSet(q.transfers) = UNION {Entry(q.transfers, m) : m \in Insts}
      /\ \A m : \A x \in Entry(q.transfers, m) :
           x \in ToSet(q.transfers) /\ x.inst = m /\ m \in Insts
  BY <1>1, EntryFacts
<1>3. /\ ToSet(q.requests) = UNION {Entry(q.requests, m) : m \in Insts}
      /\ \A m : \A x \in Entry(q.requests, m) :
           x \in ToSet(q.requests) /\ x.inst = m /\ m \in Insts
  BY <1>1, EntryFacts
<1>4. /\ ToSet(q.slots) = UNION {Entry(q.slots, m) : m \in Insts}
      /\ \A m : \A x \in Entry(q.slots, m) :
           x \in ToSet(q.slots) /\ x.inst = m /\ m \in Insts
  BY <1>1, EntryFacts
<1>5. StoresInTransfers(q) = {m \in Insts : \E x \in Entry(q.transfers, m) : ~x.isLoad}
  BY <1>2 DEF StoresInTransfers
<1>6. UnissuedAccesses(q) =
        {m \in Insts : \E x \in Entry(q.slots, m) : IsBarrier(m) \/ ~SentAllPackets(x)}
  BY <1>4 DEF UnissuedAccesses
<1>7. AccessesIssuedToMemory(q) =
        {m \in Insts : \E x \in Entry(q.requests, m) \cup Entry(q.transfers, m) : x.issuedToMemory}
  BY <1>2, <1>3 DEF AccessesIssuedToMemory
<1>8. PacketsInMemSystem(q) =
        UNION {{m} \X UNION {(x.retired + 1)..x.sent : x \in Entries(q, m)} : m \in Insts}
  <2> DEFINE All == ToSet(q.requests) \cup ToSet(q.transfers) \cup ToSet(q.slots)
             P(m) == UNION {(x.retired + 1)..x.sent : x \in Entries(q, m)}
  <2>1. /\ All = UNION {Entries(q, m) : m \in Insts}
        /\ \A m : \A x \in Entries(q, m) : x \in All /\ x.inst = m
    BY <1>2, <1>3, <1>4 DEF Entries
  <2>2. PacketsInMemSystem(q) = UNION {{r.inst} \X ((r.retired + 1)..r.sent) : r \in All}
    BY DEF PacketsInMemSystem
  <2> HIDE DEF All
  <2>3. ASSUME NEW e \in PacketsInMemSystem(q) PROVE \E m \in Insts : e \in {m} \X P(m)
    <3>1. PICK r \in All : e \in {r.inst} \X ((r.retired + 1)..r.sent)
      BY <2>2, <2>3
    <3>2. PICK m \in Insts : r \in Entries(q, m)
      BY <2>1, <3>1
    <3>3. r.inst = m /\ (r.retired + 1)..r.sent \in {(x.retired + 1)..x.sent : x \in Entries(q, m)}
      BY <2>1, <3>2
    <3> QED
      BY <3>1, <3>2, <3>3
  <2>4. ASSUME NEW m \in Insts, NEW e \in {m} \X P(m) PROVE e \in PacketsInMemSystem(q)
    <3>1. PICK k \in P(m) : e = <<m, k>>
      BY <2>4
    <3>2. PICK x \in Entries(q, m) : k \in (x.retired + 1)..x.sent
      BY <3>1
    <3>3. x \in All /\ x.inst = m
      BY <2>1, <3>2
    <3>4. e \in {x.inst} \X ((x.retired + 1)..x.sent)
      BY <3>1, <3>2, <3>3
    <3> QED
      BY <2>2, <3>3, <3>4
  <2> HIDE DEF P
  <2>5. PacketsInMemSystem(q) = UNION {{m} \X P(m) : m \in Insts}
    BY <2>3, <2>4
  <2> QED
    BY <2>5 DEF P
<1> QED
  BY <1>5, <1>6, <1>7, <1>8

PacketsOf(q, n) == UNION {(x.retired + 1)..x.sent : x \in Entries(q, n)}

\* Only what is known of instruction n changes.
SameOthers(p, q, n) ==
    \A m \in Insts : m # n => /\ Entry(p.requests, m) = Entry(q.requests, m)
                              /\ Entry(p.transfers, m) = Entry(q.transfers, m)
                              /\ Entry(p.slots, m) = Entry(q.slots, m)

LEMMA CountedFinite ==
    ASSUME prog \in Seq(Instructions), NEW q \in LSQs
    PROVE  /\ IsFiniteSet(StoresInTransfers(q)) /\ IsFiniteSet(UnissuedAccesses(q))
           /\ IsFiniteSet(AccessesIssuedToMemory(q)) /\ IsFiniteSet(PacketsInMemSystem(q))
           /\ PacketsInMemSystem(q) \in SUBSET (Insts \X Nat)
           /\ \A n \in Insts : Second(PacketsInMemSystem(q), n) = PacketsOf(q, n)
<1>1. /\ StoresInTransfers(q) \in SUBSET Insts /\ UnissuedAccesses(q) \in SUBSET Insts
      /\ AccessesIssuedToMemory(q) \in SUBSET Insts
  <2>1. StoresInTransfers(q) = {m \in Insts : \E x \in Entry(q.transfers, m) : ~x.isLoad}
    BY CountSets
  <2>2. UnissuedAccesses(q) =
          {m \in Insts : \E x \in Entry(q.slots, m) : IsBarrier(m) \/ ~SentAllPackets(x)}
    BY CountSets
  <2>3. AccessesIssuedToMemory(q) =
          {m \in Insts : \E x \in Entry(q.requests, m) \cup Entry(q.transfers, m) :
                           x.issuedToMemory}
    BY CountSets
  <2> QED
    BY <2>1, <2>2, <2>3
<1>2. PacketsInMemSystem(q) = UNION {{m} \X PacketsOf(q, m) : m \in Insts}
  BY CountSets DEF PacketsOf
<1>3. \A m \in Insts : PacketsOf(q, m) \in SUBSET (1..NumFragments(m))
  <2> SUFFICES ASSUME NEW m \in Insts, NEW x \in Entries(q, m), NEW k \in (x.retired + 1)..x.sent
               PROVE  k \in 1..NumFragments(m)
    BY DEF PacketsOf
  <2>1. x \in Pending \cup Transferring \cup Slot /\ x.inst = m
    <3>1. /\ q.requests \in Seq(Pending) /\ q.transfers \in Seq(Transferring) /\ q.slots \in Seq(Slot)
      BY QueueTypes
    <3>2. CASE x \in Entry(q.requests, m)
      BY <3>1, <3>2, EntryFacts
    <3>3. CASE x \in Entry(q.transfers, m)
      BY <3>1, <3>3, EntryFacts
    <3>4. CASE x \in Entry(q.slots, m)
      BY <3>1, <3>4, EntryFacts
    <3> QED
      BY <3>2, <3>3, <3>4 DEF Entries
  <2>2. x.sent \in Nat /\ x.retired \in Nat /\ x.sent <= NumFragments(m) /\ NumFragments(m) \in Nat
    BY <2>1, RequestFacts
  <2> QED
    BY <2>2
<1>4. PacketsInMemSystem(q) \in SUBSET AllFragments
  BY <1>2, <1>3 DEF AllFragments
<1>5. PacketsInMemSystem(q) \in SUBSET (Insts \X Nat)
  <2>1. \A m \in Insts : PacketsOf(q, m) \in SUBSET Nat
    <3>1. \A m \in Insts : 1..NumFragments(m) \in SUBSET Nat
      BY ProgramFacts
    <3> QED
      BY <1>3, <3>1
  <2> QED
    BY <1>2, <2>1
<1>6. IsFiniteSet(AllFragments) /\ IsFiniteSet(Insts)
  BY FragmentsFinite
<1>7. ASSUME NEW n \in Insts PROVE Second(PacketsInMemSystem(q), n) = PacketsOf(q, n)
  <2>1. PacketsOf(q, n) \in SUBSET Nat
    BY <1>3, ProgramFacts
  <2>2. \A k : <<n, k>> \in PacketsInMemSystem(q) <=> k \in PacketsOf(q, n)
    BY <1>2
  <2> QED
    BY <2>1, <2>2 DEF Second
<1>8. IsFiniteSet(PacketsInMemSystem(q))
  BY <1>4, <1>6, FS_Subset
<1>9. /\ IsFiniteSet(StoresInTransfers(q)) /\ IsFiniteSet(UnissuedAccesses(q))
      /\ IsFiniteSet(AccessesIssuedToMemory(q))
  BY <1>1, <1>6, FS_Subset
<1> QED
  BY <1>5, <1>7, <1>8, <1>9

LEMMA CountsChange ==
    ASSUME prog \in Seq(Instructions), NEW q \in LSQs, NEW p \in LSQs, CountsMatch(q),
           NEW n \in Insts, SameOthers(p, q, n),
           p.numStoresInTransfers = q.numStoresInTransfers
             + Num(n \in StoresInTransfers(p)) - Num(n \in StoresInTransfers(q)),
           p.numUnissuedAccesses = q.numUnissuedAccesses
             + Num(n \in UnissuedAccesses(p)) - Num(n \in UnissuedAccesses(q)),
           p.numAccessesIssuedToMemory = q.numAccessesIssuedToMemory
             + Num(n \in AccessesIssuedToMemory(p)) - Num(n \in AccessesIssuedToMemory(q)),
           p.numAccessesInMemorySystem = q.numAccessesInMemorySystem
             + Cardinality(PacketsOf(p, n)) - Cardinality(PacketsOf(q, n))
    PROVE  CountsMatch(p)
<1>1. ASSUME NEW A, NEW B, IsFiniteSet(A), IsFiniteSet(B), A \ {n} = B \ {n}
      PROVE  Cardinality(A) = Cardinality(B) + Num(n \in A) - Num(n \in B)
  <2>1. Cardinality(A \ {n}) = Cardinality(B \ {n})
    BY <1>1, Zenon
  <2>2. /\ Cardinality(A) = Cardinality(A \ {n}) + Num(n \in A)
        /\ Cardinality(B) = Cardinality(B \ {n}) + Num(n \in B)
        /\ Cardinality(A \ {n}) \in Nat /\ Cardinality(B \ {n}) \in Nat
    BY <1>1, SplitCount
  <2>3. Num(n \in A) \in Nat /\ Num(n \in B) \in Nat
    BY DEF Num
  <2> QED
    BY <2>1, <2>2, <2>3
<1>2. StoresInTransfers(p) \ {n} = StoresInTransfers(q) \ {n}
  <2>1. StoresInTransfers(q) = {m \in Insts : \E x \in Entry(q.transfers, m) : ~x.isLoad}
    BY CountSets
  <2>2. StoresInTransfers(p) = {m \in Insts : \E x \in Entry(p.transfers, m) : ~x.isLoad}
    BY CountSets
  <2> QED
    BY <2>1, <2>2 DEF SameOthers
<1>3. UnissuedAccesses(p) \ {n} = UnissuedAccesses(q) \ {n}
  <2>1. UnissuedAccesses(q) =
          {m \in Insts : \E x \in Entry(q.slots, m) : IsBarrier(m) \/ ~SentAllPackets(x)}
    BY CountSets
  <2>2. UnissuedAccesses(p) =
          {m \in Insts : \E x \in Entry(p.slots, m) : IsBarrier(m) \/ ~SentAllPackets(x)}
    BY CountSets
  <2> QED
    BY <2>1, <2>2 DEF SameOthers
<1>4. AccessesIssuedToMemory(p) \ {n} = AccessesIssuedToMemory(q) \ {n}
  <2>1. AccessesIssuedToMemory(q) =
          {m \in Insts : \E x \in Entry(q.requests, m) \cup Entry(q.transfers, m) :
                           x.issuedToMemory}
    BY CountSets
  <2>2. AccessesIssuedToMemory(p) =
          {m \in Insts : \E x \in Entry(p.requests, m) \cup Entry(p.transfers, m) :
                           x.issuedToMemory}
    BY CountSets
  <2> QED
    BY <2>1, <2>2 DEF SameOthers
<1> DEFINE P(z) == PacketsInMemSystem(z)
           Others(z) == Apart(P(z), n)
<1>5. Others(p) = Others(q)
  <2>1. P(q) = UNION {{m} \X PacketsOf(q, m) : m \in Insts}
    BY CountSets DEF PacketsOf
  <2>2. P(p) = UNION {{m} \X PacketsOf(p, m) : m \in Insts}
    BY CountSets DEF PacketsOf
  <2>3. \A m \in Insts : m # n => PacketsOf(p, m) = PacketsOf(q, m)
    BY DEF SameOthers, PacketsOf, Entries
  <2> HIDE DEF P
  <2> QED
    BY <2>1, <2>2, <2>3 DEF Apart
<1>6. /\ Cardinality(P(q)) = Cardinality(Others(q)) + Cardinality(PacketsOf(q, n))
      /\ Cardinality(P(p)) = Cardinality(Others(p)) + Cardinality(PacketsOf(p, n))
      /\ Cardinality(Others(q)) \in Nat /\ Cardinality(PacketsOf(q, n)) \in Nat
      /\ Cardinality(PacketsOf(p, n)) \in Nat
  <2>1. ASSUME NEW z \in LSQs
        PROVE  /\ Cardinality(P(z)) = Cardinality(Others(z)) + Cardinality(PacketsOf(z, n))
               /\ Cardinality(Others(z)) \in Nat /\ Cardinality(PacketsOf(z, n)) \in Nat
    <3>1. IsFiniteSet(P(z)) /\ P(z) \in SUBSET (Insts \X Nat) /\ Second(P(z), n) = PacketsOf(z, n)
      BY CountedFinite
    <3> HIDE DEF P
    <3>2. /\ Cardinality(P(z)) = Cardinality(Others(z)) + Cardinality(Second(P(z), n))
          /\ IsFiniteSet(Second(P(z), n)) /\ Cardinality(Others(z)) \in Nat
      BY <3>1, SplitPairs
    <3>3. Cardinality(Second(P(z), n)) \in Nat
      BY <3>2, FS_CardinalityType
    <3>4. Cardinality(Second(P(z), n)) = Cardinality(PacketsOf(z, n))
      BY <3>1, Zenon
    <3> HIDE DEF Others
    <3> QED
      BY <3>2, <3>3, <3>4
  <2> QED
    BY <2>1
<1>7. Cardinality(P(p)) = Cardinality(P(q)) + Cardinality(PacketsOf(p, n)) - Cardinality(PacketsOf(q, n))
  <2>1. Cardinality(Others(p)) = Cardinality(Others(q))
    BY <1>5, Zenon
  <2> HIDE DEF P, Others
  <2> QED
    BY <1>6, <2>1
<1>8. /\ Cardinality(StoresInTransfers(p)) = Cardinality(StoresInTransfers(q))
           + Num(n \in StoresInTransfers(p)) - Num(n \in StoresInTransfers(q))
      /\ Cardinality(UnissuedAccesses(p)) = Cardinality(UnissuedAccesses(q))
           + Num(n \in UnissuedAccesses(p)) - Num(n \in UnissuedAccesses(q))
      /\ Cardinality(AccessesIssuedToMemory(p)) = Cardinality(AccessesIssuedToMemory(q))
           + Num(n \in AccessesIssuedToMemory(p)) - Num(n \in AccessesIssuedToMemory(q))
  BY <1>1, <1>2, <1>3, <1>4, CountedFinite
<1> QED
  BY <1>7, <1>8 DEF CountsMatch

\* What one access contributes to the counters, by the queue it is in.
LEMMA Contribution ==
    ASSUME prog \in Seq(Instructions), NEW q \in LSQs, NEW n \in Insts, NEW r
    PROVE  /\ Entry(q.requests, n) = {r} /\ Entry(q.transfers, n) = {} /\ Entry(q.slots, n) = {}
                => /\ n \notin StoresInTransfers(q) /\ n \notin UnissuedAccesses(q)
                   /\ n \in AccessesIssuedToMemory(q) <=> r.issuedToMemory
                   /\ Cardinality(PacketsOf(q, n)) = r.sent - r.retired
           /\ Entry(q.requests, n) = {} /\ Entry(q.transfers, n) = {r} /\ Entry(q.slots, n) = {}
                => /\ n \in StoresInTransfers(q) <=> ~r.isLoad
                   /\ n \notin UnissuedAccesses(q)
                   /\ n \in AccessesIssuedToMemory(q) <=> r.issuedToMemory
                   /\ Cardinality(PacketsOf(q, n)) = r.sent - r.retired
           /\ Entry(q.requests, n) = {} /\ Entry(q.transfers, n) = {} /\ Entry(q.slots, n) = {r}
                => /\ n \notin StoresInTransfers(q) /\ n \notin AccessesIssuedToMemory(q)
                   /\ n \in UnissuedAccesses(q) <=> (IsBarrier(n) \/ ~SentAllPackets(r))
                   /\ Cardinality(PacketsOf(q, n)) = r.sent - r.retired
           /\ Entries(q, n) = {}
                => /\ n \notin StoresInTransfers(q) /\ n \notin AccessesIssuedToMemory(q)
                   /\ n \notin UnissuedAccesses(q)
                   /\ Cardinality(PacketsOf(q, n)) = 0
<1>1. n \in StoresInTransfers(q) <=> \E x \in Entry(q.transfers, n) : ~x.isLoad
  <2>1. StoresInTransfers(q) = {m \in Insts : \E x \in Entry(q.transfers, m) : ~x.isLoad}
    BY CountSets
  <2> QED
    BY <2>1
<1>2. n \in UnissuedAccesses(q) <=> \E x \in Entry(q.slots, n) : IsBarrier(n) \/ ~SentAllPackets(x)
  <2>1. UnissuedAccesses(q) =
          {m \in Insts : \E x \in Entry(q.slots, m) : IsBarrier(m) \/ ~SentAllPackets(x)}
    BY CountSets
  <2> QED
    BY <2>1
<1>3. n \in AccessesIssuedToMemory(q)
        <=> \E x \in Entry(q.requests, n) \cup Entry(q.transfers, n) : x.issuedToMemory
  <2>1. AccessesIssuedToMemory(q) =
          {m \in Insts : \E x \in Entry(q.requests, m) \cup Entry(q.transfers, m) :
                           x.issuedToMemory}
    BY CountSets
  <2> QED
    BY <2>1
<1>4. ASSUME Entries(q, n) = {r} PROVE Cardinality(PacketsOf(q, n)) = r.sent - r.retired
  <2>1. PacketsOf(q, n) = (r.retired + 1)..r.sent
    BY <1>4 DEF PacketsOf
  <2>2. r \in Pending \cup Transferring \cup Slot
    <3>1. /\ q.requests \in Seq(Pending) /\ q.transfers \in Seq(Transferring) /\ q.slots \in Seq(Slot)
      BY QueueTypes
    <3>2. CASE r \in Entry(q.requests, n)
      BY <3>1, <3>2, EntryFacts
    <3>3. CASE r \in Entry(q.transfers, n)
      BY <3>1, <3>3, EntryFacts
    <3>4. CASE r \in Entry(q.slots, n)
      BY <3>1, <3>4, EntryFacts
    <3> QED
      BY <1>4, <3>2, <3>3, <3>4 DEF Entries
  <2>3. r.sent \in Nat /\ r.retired \in Nat /\ r.retired <= r.sent
    BY <2>2, RequestFacts
  <2> DEFINE a == r.retired + 1
             b == r.sent
  <2>4. a \in Int /\ b \in Int /\ a <= b + 1 /\ b - a + 1 = r.sent - r.retired /\ (a > b => r.sent - r.retired = 0)
    BY <2>3
  <2> HIDE DEF a, b
  <2>5. Cardinality(a..b) = IF a > b THEN 0 ELSE b - a + 1
    BY <2>4, FS_Interval
  <2>6. Cardinality(a..b) = r.sent - r.retired
    BY <2>4, <2>5
  <2>7. Cardinality(PacketsOf(q, n)) = Cardinality(a..b)
    BY <2>1, Zenon DEF a, b
  <2> QED
    BY <2>6, <2>7, Zenon
<1>5. ASSUME Entries(q, n) = {} PROVE Cardinality(PacketsOf(q, n)) = 0
  <2>1. PacketsOf(q, n) = {}
    BY <1>5 DEF PacketsOf
  <2> QED
    BY <2>1, FS_EmptySet, Zenon
<1>6. ASSUME Entry(q.requests, n) = {r}, Entry(q.transfers, n) = {}, Entry(q.slots, n) = {}
      PROVE  /\ n \notin StoresInTransfers(q) /\ n \notin UnissuedAccesses(q)
             /\ n \in AccessesIssuedToMemory(q) <=> r.issuedToMemory
             /\ Cardinality(PacketsOf(q, n)) = r.sent - r.retired
  <2>1. Entries(q, n) = {r}
    BY <1>6 DEF Entries
  <2> QED
    BY <1>1, <1>2, <1>3, <1>4, <1>6, <2>1
<1>7. ASSUME Entry(q.requests, n) = {}, Entry(q.transfers, n) = {r}, Entry(q.slots, n) = {}
      PROVE  /\ n \in StoresInTransfers(q) <=> ~r.isLoad
             /\ n \notin UnissuedAccesses(q)
             /\ n \in AccessesIssuedToMemory(q) <=> r.issuedToMemory
             /\ Cardinality(PacketsOf(q, n)) = r.sent - r.retired
  <2>1. Entries(q, n) = {r}
    BY <1>7 DEF Entries
  <2> QED
    BY <1>1, <1>2, <1>3, <1>4, <1>7, <2>1
<1>8. ASSUME Entry(q.requests, n) = {}, Entry(q.transfers, n) = {}, Entry(q.slots, n) = {r}
      PROVE  /\ n \notin StoresInTransfers(q) /\ n \notin AccessesIssuedToMemory(q)
             /\ n \in UnissuedAccesses(q) <=> (IsBarrier(n) \/ ~SentAllPackets(r))
             /\ Cardinality(PacketsOf(q, n)) = r.sent - r.retired
  <2>1. Entries(q, n) = {r}
    BY <1>8 DEF Entries
  <2> QED
    BY <1>1, <1>2, <1>3, <1>4, <1>8, <2>1
<1>9. ASSUME Entries(q, n) = {}
      PROVE  /\ n \notin StoresInTransfers(q) /\ n \notin AccessesIssuedToMemory(q)
             /\ n \notin UnissuedAccesses(q)
             /\ Cardinality(PacketsOf(q, n)) = 0
  <2>1. Entry(q.requests, n) = {} /\ Entry(q.transfers, n) = {} /\ Entry(q.slots, n) = {}
    BY <1>9 DEF Entries
  <2> QED
    BY <1>1, <1>2, <1>3, <1>5, <1>9, <2>1
<1> QED
  BY <1>6, <1>7, <1>8, <1>9

----------------------------------------------------------------------------
(* One access changes its state or its place. *)

Has(s, m) == Entry(s, m) # {}

Ordered(q, h) == QueuesInOrder(q) /\ OldAndNew(q, h)

\* The accesses in flight that the queue has.
Held(q) == {m \in Insts : Has(q.transfers, m) \/ Has(q.requests, m)}

\* The order of the queues, in terms of what they have.
LEMMA Positions ==
    ASSUME prog \in Seq(Instructions), NEW q \in LSQs, NEW h
    PROVE  Ordered(q, h) <=>
             /\ InOrder(q.slots) /\ InOrder(q.transfers) /\ InOrder(q.requests)
             /\ \A a, b \in Insts : Has(q.transfers, a) /\ Has(q.requests, b) => a < b
             /\ \A m \in Insts : Has(q.slots, m) => m < h
             /\ \A m \in Insts : Has(q.transfers, m) \/ Has(q.requests, m) => m >= h
<1>1. ASSUME NEW X \in {Pending, Transferring, Slot}, NEW s \in Seq(X)
      PROVE  /\ \A i \in 1..Len(s) : s[i].inst \in Insts /\ Has(s, s[i].inst)
             /\ \A m \in Insts : Has(s, m) => \E i \in 1..Len(s) : s[i].inst = m
  <2>1. \A i \in 1..Len(s) : s[i] \in X
    BY <1>1, ElementOfSeq
  <2>2. \A i \in 1..Len(s) : s[i].inst \in Insts
    BY <1>1, <2>1, RequestFacts
  <2> QED
    BY <2>2 DEF Has, Entry
<1>2. /\ q.requests \in Seq(Pending) /\ q.transfers \in Seq(Transferring) /\ q.slots \in Seq(Slot)
  BY QueueTypes
<1>3. /\ \A i \in 1..Len(q.requests) : q.requests[i].inst \in Insts /\ Has(q.requests, q.requests[i].inst)
      /\ \A m \in Insts : Has(q.requests, m) => \E i \in 1..Len(q.requests) : q.requests[i].inst = m
  BY <1>1, <1>2
<1>4. /\ \A i \in 1..Len(q.transfers) : q.transfers[i].inst \in Insts /\ Has(q.transfers, q.transfers[i].inst)
      /\ \A m \in Insts : Has(q.transfers, m) => \E i \in 1..Len(q.transfers) : q.transfers[i].inst = m
  BY <1>1, <1>2
<1>5. /\ \A i \in 1..Len(q.slots) : q.slots[i].inst \in Insts /\ Has(q.slots, q.slots[i].inst)
      /\ \A m \in Insts : Has(q.slots, m) => \E i \in 1..Len(q.slots) : q.slots[i].inst = m
  BY <1>1, <1>2
<1>6. (\A i \in 1..Len(q.transfers), j \in 1..Len(q.requests) :
         q.transfers[i].inst < q.requests[j].inst)
      <=> \A a, b \in Insts : Has(q.transfers, a) /\ Has(q.requests, b) => a < b
  BY <1>3, <1>4
<1>7. (\A i \in 1..Len(q.slots) : q.slots[i].inst < h) <=> \A m \in Insts : Has(q.slots, m) => m < h
  BY <1>5
<1>8. /\ (\A i \in 1..Len(q.transfers) : q.transfers[i].inst >= h)
         <=> \A m \in Insts : Has(q.transfers, m) => m >= h
      /\ (\A i \in 1..Len(q.requests) : q.requests[i].inst >= h)
         <=> \A m \in Insts : Has(q.requests, m) => m >= h
  BY <1>3, <1>4
<1> QED
  BY <1>6, <1>7, <1>8 DEF Ordered, QueuesInOrder, OldAndNew

\* The state of the queue is a record.
Fields(p) ==
    p = [requests |-> p.requests, transfers |-> p.transfers, slots |-> p.slots,
         state |-> p.state, lastMemBarrier |-> p.lastMemBarrier,
         numStoresInTransfers |-> p.numStoresInTransfers,
         numAccessesIssuedToMemory |-> p.numAccessesIssuedToMemory,
         numUnissuedAccesses |-> p.numUnissuedAccesses,
         numAccessesInMemorySystem |-> p.numAccessesInMemorySystem, mem |-> p.mem]

\* What has its type apart from the queues.
RestTyped(p) ==
    /\ p.state \in {"MemoryRunning", "MemoryNeedsRetry"} /\ p.lastMemBarrier \in 0..Len(prog)
    /\ p.numStoresInTransfers \in Int /\ p.numAccessesIssuedToMemory \in Int
    /\ p.numUnissuedAccesses \in Int /\ p.numAccessesInMemorySystem \in Int
    /\ p.mem \in [Addrs -> 0..Len(prog)]

LEMMA Typed ==
    ASSUME NEW p, Fields(p), RestTyped(p), p.requests \in Seq(Pending),
           p.transfers \in Seq(Transferring), p.slots \in Seq(Slot)
    PROVE  p \in LSQs
  BY DEF Fields, RestTyped, LSQs

\* An access is in one of the queues.
LEMMA InOnePlace ==
    ASSUME prog \in Seq(Instructions), NEW q \in LSQs, NEW h \in Nat, Ordered(q, h),
           NEW m \in Insts
    PROVE  /\ ~(Has(q.slots, m) /\ (Has(q.transfers, m) \/ Has(q.requests, m)))
           /\ ~(Has(q.transfers, m) /\ Has(q.requests, m))
<1>1. /\ \A a, b \in Insts : Has(q.transfers, a) /\ Has(q.requests, b) => a < b
      /\ Has(q.slots, m) => m < h
      /\ Has(q.transfers, m) \/ Has(q.requests, m) => m >= h
  BY Positions
<1>2. m \in Nat
  BY ProgramFacts DEF Insts
<1> QED
  BY <1>1, <1>2

LEMMA RequestPlace ==
    ASSUME prog \in Seq(Instructions), NEW q \in LSQs, NEW h \in Nat, Ordered(q, h),
           NEW i \in 1..Len(q.requests), NEW o, o = q.requests[i]
    PROVE  /\ o \in Pending /\ o.inst \in Insts /\ Has(q.requests, o.inst)
           /\ Entry(q.requests, o.inst) = {o}
           /\ Entry(q.transfers, o.inst) = {} /\ Entry(q.slots, o.inst) = {}
<1>1. q.requests \in Seq(Pending) /\ InOrder(q.requests) /\ \A x \in Pending : x.inst \in Nat /\ x.inst \in Insts
  BY QueueTypes, Positions, RequestFacts
<1>2. q.requests[i] \in Pending /\ Entry(q.requests, q.requests[i].inst) = {q.requests[i]}
  BY <1>1, EntryOf, ElementOfSeq
<1>3. o.inst \in Insts /\ Has(q.requests, o.inst)
  BY <1>1, <1>2 DEF Has
<1> QED
  BY <1>2, <1>3, InOnePlace DEF Has

LEMMA TransferPlace ==
    ASSUME prog \in Seq(Instructions), NEW q \in LSQs, NEW h \in Nat, Ordered(q, h),
           NEW i \in 1..Len(q.transfers), NEW o, o = q.transfers[i]
    PROVE  /\ o \in Transferring /\ o.inst \in Insts /\ Has(q.transfers, o.inst)
           /\ Entry(q.transfers, o.inst) = {o}
           /\ Entry(q.requests, o.inst) = {} /\ Entry(q.slots, o.inst) = {}
<1>1. q.transfers \in Seq(Transferring) /\ InOrder(q.transfers) /\ \A x \in Transferring : x.inst \in Nat /\ x.inst \in Insts
  BY QueueTypes, Positions, RequestFacts
<1>2. q.transfers[i] \in Transferring /\ Entry(q.transfers, q.transfers[i].inst) = {q.transfers[i]}
  BY <1>1, EntryOf, ElementOfSeq
<1>3. o.inst \in Insts /\ Has(q.transfers, o.inst)
  BY <1>1, <1>2 DEF Has
<1> QED
  BY <1>2, <1>3, InOnePlace DEF Has

LEMMA SlotPlace ==
    ASSUME prog \in Seq(Instructions), NEW q \in LSQs, NEW h \in Nat, Ordered(q, h),
           NEW i \in 1..Len(q.slots), NEW o, o = q.slots[i]
    PROVE  /\ o \in Slot /\ o.inst \in Insts /\ Has(q.slots, o.inst)
           /\ Entry(q.slots, o.inst) = {o}
           /\ Entry(q.requests, o.inst) = {} /\ Entry(q.transfers, o.inst) = {}
<1>1. q.slots \in Seq(Slot) /\ InOrder(q.slots) /\ \A x \in Slot : x.inst \in Nat /\ x.inst \in Insts
  BY QueueTypes, Positions, RequestFacts
<1>2. q.slots[i] \in Slot /\ Entry(q.slots, q.slots[i].inst) = {q.slots[i]}
  BY <1>1, EntryOf, ElementOfSeq
<1>3. o.inst \in Insts /\ Has(q.slots, o.inst)
  BY <1>1, <1>2 DEF Has
<1> QED
  BY <1>2, <1>3, InOnePlace DEF Has

\* What a request contributes to numAccessesInMemorySystem.
Outstanding(r) == r.sent - r.retired

\* A request of the requests queue changes.
LEMMA RequestUpdated ==
    ASSUME prog \in Seq(Instructions), NEW q \in LSQs, NEW h \in Nat, Ordered(q, h),
           CountsMatch(q), NEW i \in 1..Len(q.requests), NEW o, o = q.requests[i],
           NEW r \in Pending, r.inst = o.inst,
           NEW p, Fields(p), RestTyped(p), p.requests = Put(q.requests, i, r),
           p.transfers = q.transfers, p.slots = q.slots,
           p.numStoresInTransfers = q.numStoresInTransfers,
           p.numUnissuedAccesses = q.numUnissuedAccesses,
           p.numAccessesIssuedToMemory =
             q.numAccessesIssuedToMemory + Num(r.issuedToMemory) - Num(o.issuedToMemory),
           p.numAccessesInMemorySystem =
             q.numAccessesInMemorySystem + Outstanding(r) - Outstanding(o)
    PROVE  /\ p \in LSQs /\ Ordered(p, h) /\ CountsMatch(p)
           /\ Held(p) = Held(q)
<1> DEFINE n == o.inst
<1>1. /\ q.requests \in Seq(Pending) /\ q.transfers \in Seq(Transferring) /\ q.slots \in Seq(Slot)
  BY QueueTypes
<1>2. \A x \in Pending : x.inst \in Nat
  BY RequestFacts
<1>3. /\ InOrder(q.slots) /\ InOrder(q.transfers) /\ InOrder(q.requests)
      /\ \A a, b \in Insts : Has(q.transfers, a) /\ Has(q.requests, b) => a < b
      /\ \A m \in Insts : Has(q.slots, m) => m < h
      /\ \A m \in Insts : Has(q.transfers, m) \/ Has(q.requests, m) => m >= h
  BY Positions
<1>4. /\ p.requests \in Seq(Pending) /\ InOrder(p.requests)
      /\ \A m : Entry(p.requests, m) = IF m = n THEN {r} ELSE Entry(q.requests, m)
  <2> DEFINE s == q.requests
  <2>1. s \in Seq(Pending) /\ InOrder(s) /\ i \in 1..Len(s) /\ r.inst = s[i].inst
    BY <1>1, <1>3
  <2> HIDE DEF s
  <2>2. /\ Put(s, i, r) \in Seq(Pending) /\ InOrder(Put(s, i, r))
        /\ \A m : Entry(Put(s, i, r), m) = IF m = r.inst THEN {r} ELSE Entry(s, m)
    BY <1>2, <2>1, Updated
  <2> QED
    BY <2>2 DEF s
<1>5. p \in LSQs
  BY <1>1, <1>4, Typed
<1>6. /\ n \in Insts /\ o \in Pending
      /\ Entry(q.requests, n) = {o} /\ Entry(q.transfers, n) = {} /\ Entry(q.slots, n) = {}
  BY RequestPlace
<1>7. Entry(p.requests, n) = {r} /\ Entry(p.transfers, n) = {} /\ Entry(p.slots, n) = {}
  BY <1>4, <1>6
<1>8. SameOthers(p, q, n)
  BY <1>4 DEF SameOthers
<1>9. Ordered(p, h)
  <2>1. \A m : Has(p.requests, m) <=> Has(q.requests, m)
    BY <1>4, <1>6 DEF Has
  <2> QED
    BY <1>3, <1>4, <1>5, <2>1, Positions
<1>10. /\ n \notin StoresInTransfers(q) /\ n \notin UnissuedAccesses(q)
       /\ n \in AccessesIssuedToMemory(q) <=> o.issuedToMemory
       /\ Cardinality(PacketsOf(q, n)) = o.sent - o.retired
  BY <1>6, Contribution
<1>11. /\ n \notin StoresInTransfers(p) /\ n \notin UnissuedAccesses(p)
       /\ n \in AccessesIssuedToMemory(p) <=> r.issuedToMemory
       /\ Cardinality(PacketsOf(p, n)) = r.sent - r.retired
  BY <1>5, <1>6, <1>7, Contribution
<1>12. CountsMatch(p)
  <2>1. /\ Num(n \in StoresInTransfers(q)) = 0 /\ Num(n \in StoresInTransfers(p)) = 0
        /\ Num(n \in UnissuedAccesses(q)) = 0 /\ Num(n \in UnissuedAccesses(p)) = 0
        /\ Num(n \in AccessesIssuedToMemory(q)) = Num(o.issuedToMemory)
        /\ Num(n \in AccessesIssuedToMemory(p)) = Num(r.issuedToMemory)
        /\ Cardinality(PacketsOf(q, n)) = Outstanding(o)
        /\ Cardinality(PacketsOf(p, n)) = Outstanding(r)
    BY <1>10, <1>11 DEF Num, Outstanding
  <2>2. /\ p.numStoresInTransfers = q.numStoresInTransfers + 0 - 0
        /\ p.numUnissuedAccesses = q.numUnissuedAccesses + 0 - 0
    BY QueueTypes
  <2> HIDE DEF n
  <2> QED
    BY <1>5, <1>6, <1>8, <2>1, <2>2, CountsChange
<1>13. Held(p) = Held(q)
  BY <1>6, <1>7, <1>8 DEF Held, Has, SameOthers
<1> QED
  BY <1>5, <1>9, <1>12, <1>13

\* Instruction n changes its place: the head moves past it, or stays.
LEMMA Moved ==
    ASSUME prog \in Seq(Instructions), NEW q \in LSQs, NEW h \in Nat, Ordered(q, h),
           NEW p \in LSQs, InOrder(p.requests), InOrder(p.transfers), InOrder(p.slots),
           NEW n \in Insts, SameOthers(p, q, n),
           NEW g \in Nat, g = h \/ (g = h + 1 /\ n = h),
           Has(p.slots, n) => n < g,
           Has(p.transfers, n) \/ Has(p.requests, n) => n >= g,
           ~(Has(p.transfers, n) /\ Has(p.requests, n)),
           Has(p.transfers, n) => \A b \in Insts : Has(q.requests, b) /\ b # n => n < b,
           Has(p.requests, n) => \A a \in Insts : Has(q.transfers, a) /\ a # n => a < n
    PROVE  Ordered(p, g)
<1>1. /\ \A a, b \in Insts : Has(q.transfers, a) /\ Has(q.requests, b) => a < b
      /\ \A m \in Insts : Has(q.slots, m) => m < h
      /\ \A m \in Insts : Has(q.transfers, m) \/ Has(q.requests, m) => m >= h
  BY Positions
<1>2. \A m \in Insts : m # n => /\ Has(p.requests, m) <=> Has(q.requests, m)
                                /\ Has(p.transfers, m) <=> Has(q.transfers, m)
                                /\ Has(p.slots, m) <=> Has(q.slots, m)
  BY DEF SameOthers, Has
<1>3. \A m \in Insts : m \in Nat
  BY ProgramFacts DEF Insts
<1>4. \A a, b \in Insts : Has(p.transfers, a) /\ Has(p.requests, b) => a < b
  BY <1>1, <1>2
<1>5. \A m \in Insts : Has(p.slots, m) => m < g
  BY <1>1, <1>2, <1>3
<1>6. \A m \in Insts : Has(p.transfers, m) \/ Has(p.requests, m) => m >= g
  BY <1>1, <1>2, <1>3
<1> QED
  BY <1>4, <1>5, <1>6, Positions

\* The front of requests goes to transfers.
LEMMA RequestMoved ==
    ASSUME prog \in Seq(Instructions), NEW q \in LSQs, NEW h \in Nat, Ordered(q, h),
           CountsMatch(q), q.requests # <<>>, NEW o, o = Head(q.requests),
           NEW r \in Transferring, r.inst = o.inst,
           NEW p, Fields(p), RestTyped(p), p.requests = Tail(q.requests),
           p.transfers = Append(q.transfers, r), p.slots = q.slots,
           p.numStoresInTransfers = q.numStoresInTransfers + Num(~r.isLoad),
           p.numUnissuedAccesses = q.numUnissuedAccesses,
           p.numAccessesIssuedToMemory =
             q.numAccessesIssuedToMemory + Num(r.issuedToMemory) - Num(o.issuedToMemory),
           p.numAccessesInMemorySystem =
             q.numAccessesInMemorySystem + Outstanding(r) - Outstanding(o)
    PROVE  /\ p \in LSQs /\ Ordered(p, h) /\ CountsMatch(p)
           /\ Held(p) = Held(q)
<1> DEFINE n == o.inst
           s == q.requests
           t == q.transfers
<1>1. /\ s \in Seq(Pending) /\ t \in Seq(Transferring) /\ q.slots \in Seq(Slot)
  BY QueueTypes
<1>2. (\A x \in Pending : x.inst \in Nat) /\ (\A x \in Transferring : x.inst \in Nat)
  BY RequestFacts
<1>3. /\ InOrder(q.slots) /\ InOrder(t) /\ InOrder(s)
      /\ \A a, b \in Insts : Has(t, a) /\ Has(s, b) => a < b
      /\ \A m \in Insts : Has(q.slots, m) => m < h
      /\ \A m \in Insts : Has(t, m) \/ Has(s, m) => m >= h
  BY Positions
<1>4. 1 \in 1..Len(s) /\ o = s[1]
  BY <1>1, <1>2, <1>3, Tailed
<1>5. /\ n \in Insts /\ o \in Pending
      /\ Entry(s, n) = {o} /\ Entry(t, n) = {} /\ Entry(q.slots, n) = {}
  <2>1. PICK i \in 1..Len(q.requests) : o = q.requests[i]
    BY <1>4
  <2> HIDE DEF s, t, n
  <2>2. /\ o.inst \in Insts /\ o \in Pending /\ Entry(q.requests, o.inst) = {o}
        /\ Entry(q.transfers, o.inst) = {} /\ Entry(q.slots, o.inst) = {}
    BY <2>1, RequestPlace
  <2> QED
    BY <2>2 DEF s, t, n
<1>6. \A i \in 1..Len(t) : t[i].inst \in Insts /\ Has(t, t[i].inst)
  BY TransferPlace
<1>7. \A i \in 1..Len(t) : t[i].inst < r.inst
  BY <1>3, <1>5, <1>6 DEF Has
<1>8. \A b \in Insts : Has(s, b) /\ b # n => n < b
  <2>1. \A b : Has(s, b) => \E i \in 1..Len(s) : s[i].inst = b
    BY DEF Has, Entry
  <2>2. \A i \in 1..Len(s) : i = 1 \/ i > 1
    OBVIOUS
  <2> QED
    BY <1>3, <1>4, <2>1, <2>2 DEF InOrder
<1> HIDE DEF s, t
<1>9. /\ Tail(s) \in Seq(Pending) /\ InOrder(Tail(s))
      /\ \A m : Entry(Tail(s), m) = IF m = s[1].inst THEN {} ELSE Entry(s, m)
  <2>1. s # <<>>
    BY DEF s
  <2> QED
    BY <1>1, <1>2, <1>3, <2>1, Tailed
<1>10. /\ Append(t, r) \in Seq(Transferring) /\ InOrder(Append(t, r))
       /\ \A m : Entry(Append(t, r), m) = IF m = r.inst THEN {r} ELSE Entry(t, m)
  <2>1. \A x \in Transferring : x.inst \in Nat
    BY <1>2
  <2>2. InOrder(t) /\ t \in Seq(Transferring)
    BY <1>1, <1>3
  <2> QED BY <1>7, <2>1, <2>2, Appended
<1>11. p.requests = Tail(s) /\ p.transfers = Append(t, r) /\ q.requests = s /\ q.transfers = t
  BY DEF s, t
<1>12. p \in LSQs
  BY <1>1, <1>9, <1>10, <1>11, Typed
<1>13. Entry(p.requests, n) = {} /\ Entry(p.transfers, n) = {r} /\ Entry(p.slots, n) = {}
  BY <1>4, <1>5, <1>9, <1>10, <1>11
<1>14. SameOthers(p, q, n)
  BY <1>4, <1>9, <1>10, <1>11 DEF SameOthers
<1>15. Ordered(p, h)
  <2>1. n >= h
    BY <1>3, <1>5 DEF Has
  <2>2. ~Has(p.requests, n) /\ Has(p.transfers, n) /\ ~Has(p.slots, n)
    BY <1>13 DEF Has
  <2>3. InOrder(p.requests) /\ InOrder(p.transfers) /\ InOrder(p.slots)
    BY <1>3, <1>9, <1>10, <1>11
  <2> HIDE DEF n
  <2> QED
    BY <1>5, <1>8, <1>11, <1>12, <1>14, <2>1, <2>2, <2>3, Moved
<1>16. /\ n \notin StoresInTransfers(q) /\ n \notin UnissuedAccesses(q)
       /\ n \in AccessesIssuedToMemory(q) <=> o.issuedToMemory
       /\ Cardinality(PacketsOf(q, n)) = o.sent - o.retired
  BY <1>5, <1>11, Contribution
<1>17. /\ n \in StoresInTransfers(p) <=> ~r.isLoad
       /\ n \notin UnissuedAccesses(p)
       /\ n \in AccessesIssuedToMemory(p) <=> r.issuedToMemory
       /\ Cardinality(PacketsOf(p, n)) = r.sent - r.retired
  <2> HIDE DEF n
  <2> QED
    BY <1>5, <1>12, <1>13, Contribution
<1>18. CountsMatch(p)
  <2>1. /\ Num(n \in StoresInTransfers(q)) = 0 /\ Num(n \in StoresInTransfers(p)) = Num(~r.isLoad)
        /\ Num(n \in UnissuedAccesses(q)) = 0 /\ Num(n \in UnissuedAccesses(p)) = 0
        /\ Num(n \in AccessesIssuedToMemory(q)) = Num(o.issuedToMemory)
        /\ Num(n \in AccessesIssuedToMemory(p)) = Num(r.issuedToMemory)
        /\ Cardinality(PacketsOf(q, n)) = Outstanding(o)
        /\ Cardinality(PacketsOf(p, n)) = Outstanding(r)
        /\ Num(~r.isLoad) \in Int
    BY <1>16, <1>17 DEF Num, Outstanding
  <2>2. /\ p.numStoresInTransfers = q.numStoresInTransfers + Num(~r.isLoad) - 0
        /\ p.numUnissuedAccesses = q.numUnissuedAccesses + 0 - 0
    BY <2>1, QueueTypes
  <2> HIDE DEF n
  <2> QED
    BY <1>5, <1>12, <1>14, <2>1, <2>2, CountsChange
<1>19. Held(p) = Held(q)
  BY <1>5, <1>11, <1>13, <1>14 DEF Held, Has, SameOthers
<1> QED
  BY <1>12, <1>15, <1>18, <1>19

\* An access of the transfers queue changes.
LEMMA TransferUpdated ==
    ASSUME prog \in Seq(Instructions), NEW q \in LSQs, NEW h \in Nat, Ordered(q, h),
           CountsMatch(q), NEW i \in 1..Len(q.transfers), NEW o, o = q.transfers[i],
           NEW r \in Transferring, r.inst = o.inst, r.isLoad = o.isLoad,
           NEW p, Fields(p), RestTyped(p), p.transfers = Put(q.transfers, i, r),
           p.requests = q.requests, p.slots = q.slots,
           p.numStoresInTransfers = q.numStoresInTransfers,
           p.numUnissuedAccesses = q.numUnissuedAccesses,
           p.numAccessesIssuedToMemory =
             q.numAccessesIssuedToMemory + Num(r.issuedToMemory) - Num(o.issuedToMemory),
           p.numAccessesInMemorySystem =
             q.numAccessesInMemorySystem + Outstanding(r) - Outstanding(o)
    PROVE  /\ p \in LSQs /\ Ordered(p, h) /\ CountsMatch(p)
           /\ Held(p) = Held(q)
<1> DEFINE n == o.inst
<1>1. /\ q.requests \in Seq(Pending) /\ q.transfers \in Seq(Transferring) /\ q.slots \in Seq(Slot)
  BY QueueTypes
<1>2. \A x \in Transferring : x.inst \in Nat
  BY RequestFacts
<1>3. /\ InOrder(q.slots) /\ InOrder(q.transfers) /\ InOrder(q.requests)
      /\ \A a, b \in Insts : Has(q.transfers, a) /\ Has(q.requests, b) => a < b
      /\ \A m \in Insts : Has(q.slots, m) => m < h
      /\ \A m \in Insts : Has(q.transfers, m) \/ Has(q.requests, m) => m >= h
  BY Positions
<1>4. /\ p.transfers \in Seq(Transferring) /\ InOrder(p.transfers)
      /\ \A m : Entry(p.transfers, m) = IF m = n THEN {r} ELSE Entry(q.transfers, m)
  <2> DEFINE s == q.transfers
  <2>1. s \in Seq(Transferring) /\ InOrder(s) /\ i \in 1..Len(s) /\ r.inst = s[i].inst
    BY <1>1, <1>3
  <2> HIDE DEF s
  <2>2. /\ Put(s, i, r) \in Seq(Transferring) /\ InOrder(Put(s, i, r))
        /\ \A m : Entry(Put(s, i, r), m) = IF m = r.inst THEN {r} ELSE Entry(s, m)
    BY <1>2, <2>1, Updated
  <2> QED
    BY <2>2 DEF s
<1>5. p \in LSQs
  BY <1>1, <1>4, Typed
<1>6. /\ n \in Insts /\ o \in Transferring
      /\ Entry(q.transfers, n) = {o} /\ Entry(q.requests, n) = {} /\ Entry(q.slots, n) = {}
  BY TransferPlace
<1>7. Entry(p.transfers, n) = {r} /\ Entry(p.requests, n) = {} /\ Entry(p.slots, n) = {}
  BY <1>4, <1>6
<1>8. SameOthers(p, q, n)
  BY <1>4 DEF SameOthers
<1>9. Ordered(p, h)
  <2>1. \A m : Has(p.transfers, m) <=> Has(q.transfers, m)
    BY <1>4, <1>6 DEF Has
  <2> QED
    BY <1>3, <1>4, <1>5, <2>1, Positions
<1> HIDE DEF n
<1>10. /\ n \in StoresInTransfers(q) <=> ~o.isLoad
       /\ n \notin UnissuedAccesses(q)
       /\ n \in AccessesIssuedToMemory(q) <=> o.issuedToMemory
       /\ Cardinality(PacketsOf(q, n)) = o.sent - o.retired
  BY <1>6, Contribution
<1>11. /\ n \in StoresInTransfers(p) <=> ~r.isLoad
       /\ n \notin UnissuedAccesses(p)
       /\ n \in AccessesIssuedToMemory(p) <=> r.issuedToMemory
       /\ Cardinality(PacketsOf(p, n)) = r.sent - r.retired
  BY <1>5, <1>6, <1>7, Contribution
<1>12. CountsMatch(p)
  <2>1. /\ Num(n \in StoresInTransfers(p)) = Num(n \in StoresInTransfers(q))
        /\ Num(n \in StoresInTransfers(q)) \in Int
        /\ Num(n \in UnissuedAccesses(q)) = 0 /\ Num(n \in UnissuedAccesses(p)) = 0
        /\ Num(n \in AccessesIssuedToMemory(q)) = Num(o.issuedToMemory)
        /\ Num(n \in AccessesIssuedToMemory(p)) = Num(r.issuedToMemory)
        /\ Cardinality(PacketsOf(q, n)) = Outstanding(o)
        /\ Cardinality(PacketsOf(p, n)) = Outstanding(r)
    BY <1>10, <1>11 DEF Num, Outstanding, n
  <2>2. /\ p.numStoresInTransfers = q.numStoresInTransfers
             + Num(n \in StoresInTransfers(p)) - Num(n \in StoresInTransfers(q))
        /\ p.numUnissuedAccesses = q.numUnissuedAccesses + 0 - 0
    BY <2>1, QueueTypes DEF Num
  <2> QED
    BY <1>5, <1>6, <1>8, <2>1, <2>2, CountsChange
<1>13. Held(p) = Held(q)
  BY <1>6, <1>7, <1>8 DEF Held, Has, SameOthers
<1> QED
  BY <1>5, <1>9, <1>12, <1>13

\* An access of the store buffer changes.
LEMMA SlotUpdated ==
    ASSUME prog \in Seq(Instructions), NEW q \in LSQs, NEW h \in Nat, Ordered(q, h),
           CountsMatch(q), NEW i \in 1..Len(q.slots), NEW o, o = q.slots[i],
           NEW r \in Slot, r.inst = o.inst,
           NEW p, Fields(p), RestTyped(p), p.slots = Put(q.slots, i, r),
           p.requests = q.requests, p.transfers = q.transfers,
           p.numStoresInTransfers = q.numStoresInTransfers,
           p.numUnissuedAccesses = q.numUnissuedAccesses + Num(Unissued(r)) - Num(Unissued(o)),
           p.numAccessesIssuedToMemory = q.numAccessesIssuedToMemory,
           p.numAccessesInMemorySystem =
             q.numAccessesInMemorySystem + Outstanding(r) - Outstanding(o)
    PROVE  p \in LSQs /\ Ordered(p, h) /\ CountsMatch(p)
<1> DEFINE n == o.inst
<1>1. /\ q.requests \in Seq(Pending) /\ q.transfers \in Seq(Transferring) /\ q.slots \in Seq(Slot)
  BY QueueTypes
<1>2. \A x \in Slot : x.inst \in Nat
  BY RequestFacts
<1>3. /\ InOrder(q.slots) /\ InOrder(q.transfers) /\ InOrder(q.requests)
      /\ \A a, b \in Insts : Has(q.transfers, a) /\ Has(q.requests, b) => a < b
      /\ \A m \in Insts : Has(q.slots, m) => m < h
      /\ \A m \in Insts : Has(q.transfers, m) \/ Has(q.requests, m) => m >= h
  BY Positions
<1>4. /\ p.slots \in Seq(Slot) /\ InOrder(p.slots)
      /\ \A m : Entry(p.slots, m) = IF m = n THEN {r} ELSE Entry(q.slots, m)
  <2> DEFINE s == q.slots
  <2>1. s \in Seq(Slot) /\ InOrder(s) /\ i \in 1..Len(s) /\ r.inst = s[i].inst
    BY <1>1, <1>3
  <2> HIDE DEF s
  <2>2. /\ Put(s, i, r) \in Seq(Slot) /\ InOrder(Put(s, i, r))
        /\ \A m : Entry(Put(s, i, r), m) = IF m = r.inst THEN {r} ELSE Entry(s, m)
    BY <1>2, <2>1, Updated
  <2> QED
    BY <2>2 DEF s
<1>5. p \in LSQs
  BY <1>1, <1>4, Typed
<1>6. /\ n \in Insts /\ o \in Slot
      /\ Entry(q.slots, n) = {o} /\ Entry(q.requests, n) = {} /\ Entry(q.transfers, n) = {}
  BY SlotPlace
<1>7. Entry(p.slots, n) = {r} /\ Entry(p.requests, n) = {} /\ Entry(p.transfers, n) = {}
  BY <1>4, <1>6
<1>8. SameOthers(p, q, n)
  BY <1>4 DEF SameOthers
<1>9. Ordered(p, h)
  <2>1. \A m : Has(p.slots, m) <=> Has(q.slots, m)
    BY <1>4, <1>6 DEF Has
  <2> QED
    BY <1>3, <1>4, <1>5, <2>1, Positions
<1> HIDE DEF n
<1>10. /\ n \notin StoresInTransfers(q) /\ n \notin AccessesIssuedToMemory(q)
       /\ n \in UnissuedAccesses(q) <=> (IsBarrier(n) \/ ~SentAllPackets(o))
       /\ Cardinality(PacketsOf(q, n)) = o.sent - o.retired
  BY <1>6, Contribution
<1>11. /\ n \notin StoresInTransfers(p) /\ n \notin AccessesIssuedToMemory(p)
       /\ n \in UnissuedAccesses(p) <=> (IsBarrier(n) \/ ~SentAllPackets(r))
       /\ Cardinality(PacketsOf(p, n)) = r.sent - r.retired
  BY <1>5, <1>6, <1>7, Contribution
<1>12. CountsMatch(p)
  <2>1. /\ Num(n \in StoresInTransfers(q)) = 0 /\ Num(n \in StoresInTransfers(p)) = 0
        /\ Num(n \in AccessesIssuedToMemory(q)) = 0 /\ Num(n \in AccessesIssuedToMemory(p)) = 0
        /\ Num(n \in UnissuedAccesses(q)) = Num(Unissued(o))
        /\ Num(n \in UnissuedAccesses(p)) = Num(Unissued(r))
        /\ Cardinality(PacketsOf(q, n)) = Outstanding(o)
        /\ Cardinality(PacketsOf(p, n)) = Outstanding(r)
    BY <1>10, <1>11 DEF Num, Outstanding, Unissued, n
  <2>2. /\ p.numStoresInTransfers = q.numStoresInTransfers + 0 - 0
        /\ p.numAccessesIssuedToMemory = q.numAccessesIssuedToMemory + 0 - 0
    BY <2>1, QueueTypes DEF Num
  <2> QED
    BY <1>5, <1>6, <1>8, <2>1, <2>2, CountsChange
<1> QED
  BY <1>5, <1>9, <1>12

\* A store leaves the store buffer.
LEMMA SlotRemoved ==
    ASSUME prog \in Seq(Instructions), NEW q \in LSQs, NEW h \in Nat, Ordered(q, h),
           CountsMatch(q), NEW i \in 1..Len(q.slots), NEW o, o = q.slots[i],
           NEW p, Fields(p), RestTyped(p), p.slots = RemoveAt(q.slots, i),
           p.requests = q.requests, p.transfers = q.transfers,
           p.numStoresInTransfers = q.numStoresInTransfers,
           p.numUnissuedAccesses = q.numUnissuedAccesses - Num(Unissued(o)),
           p.numAccessesIssuedToMemory = q.numAccessesIssuedToMemory,
           p.numAccessesInMemorySystem = q.numAccessesInMemorySystem - Outstanding(o)
    PROVE  p \in LSQs /\ Ordered(p, h) /\ CountsMatch(p)
<1> DEFINE n == o.inst
<1>1. /\ q.requests \in Seq(Pending) /\ q.transfers \in Seq(Transferring) /\ q.slots \in Seq(Slot)
  BY QueueTypes
<1>2. \A x \in Slot : x.inst \in Nat
  BY RequestFacts
<1>3. InOrder(q.slots) /\ InOrder(q.transfers) /\ InOrder(q.requests)
  BY Positions
<1>4. /\ p.slots \in Seq(Slot) /\ InOrder(p.slots)
      /\ \A m : Entry(p.slots, m) = IF m = n THEN {} ELSE Entry(q.slots, m)
  <2> DEFINE s == q.slots
  <2>1. s \in Seq(Slot) /\ InOrder(s) /\ i \in 1..Len(s) /\ n = s[i].inst
    BY <1>1, <1>3
  <2> HIDE DEF s
  <2>2. /\ RemoveAt(s, i) \in Seq(Slot) /\ InOrder(RemoveAt(s, i))
        /\ \A m : Entry(RemoveAt(s, i), m) = IF m = s[i].inst THEN {} ELSE Entry(s, m)
    BY <1>2, <2>1, RemovedAt
  <2> QED
    BY <2>1, <2>2 DEF s
<1>5. p \in LSQs
  BY <1>1, <1>4, Typed
<1>6. /\ n \in Insts /\ o \in Slot
      /\ Entry(q.slots, n) = {o} /\ Entry(q.requests, n) = {} /\ Entry(q.transfers, n) = {}
  BY SlotPlace
<1>7. Entry(p.slots, n) = {} /\ Entry(p.requests, n) = {} /\ Entry(p.transfers, n) = {}
  BY <1>4, <1>6
<1>8. SameOthers(p, q, n)
  BY <1>4 DEF SameOthers
<1> HIDE DEF n
<1>9. Ordered(p, h)
  <2>1. ~Has(p.slots, n) /\ ~Has(p.requests, n) /\ ~Has(p.transfers, n)
    BY <1>7 DEF Has
  <2>2. InOrder(p.slots) /\ InOrder(p.transfers) /\ InOrder(p.requests)
    BY <1>3, <1>4
  <2> QED
    BY <1>5, <1>6, <1>8, <2>1, <2>2, Moved
<1>10. /\ n \notin StoresInTransfers(q) /\ n \notin AccessesIssuedToMemory(q)
       /\ n \in UnissuedAccesses(q) <=> (IsBarrier(n) \/ ~SentAllPackets(o))
       /\ Cardinality(PacketsOf(q, n)) = o.sent - o.retired
  BY <1>6, Contribution
<1>11. /\ n \notin StoresInTransfers(p) /\ n \notin AccessesIssuedToMemory(p)
       /\ n \notin UnissuedAccesses(p) /\ Cardinality(PacketsOf(p, n)) = 0
  <2>1. Entries(p, n) = {}
    BY <1>7 DEF Entries
  <2> QED
    BY <1>5, <1>6, <2>1, Contribution
<1>12. CountsMatch(p)
  <2>1. /\ Num(n \in StoresInTransfers(q)) = 0 /\ Num(n \in StoresInTransfers(p)) = 0
        /\ Num(n \in AccessesIssuedToMemory(q)) = 0 /\ Num(n \in AccessesIssuedToMemory(p)) = 0
        /\ Num(n \in UnissuedAccesses(q)) = Num(Unissued(o))
        /\ Num(n \in UnissuedAccesses(p)) = 0
        /\ Cardinality(PacketsOf(q, n)) = Outstanding(o)
        /\ Num(Unissued(o)) \in Int /\ Outstanding(o) \in Int
    BY <1>6, <1>10, <1>11, RequestFacts DEF Num, Outstanding, Unissued, n
  <2>2. /\ p.numStoresInTransfers = q.numStoresInTransfers + 0 - 0
        /\ p.numAccessesIssuedToMemory = q.numAccessesIssuedToMemory + 0 - 0
        /\ p.numUnissuedAccesses = q.numUnissuedAccesses + 0 - Num(Unissued(o))
        /\ p.numAccessesInMemorySystem = q.numAccessesInMemorySystem + 0 - Outstanding(o)
    BY <2>1, QueueTypes
  <2>3. /\ p.numStoresInTransfers = q.numStoresInTransfers
             + Num(n \in StoresInTransfers(p)) - Num(n \in StoresInTransfers(q))
        /\ p.numUnissuedAccesses = q.numUnissuedAccesses
             + Num(n \in UnissuedAccesses(p)) - Num(n \in UnissuedAccesses(q))
        /\ p.numAccessesIssuedToMemory = q.numAccessesIssuedToMemory
             + Num(n \in AccessesIssuedToMemory(p)) - Num(n \in AccessesIssuedToMemory(q))
        /\ p.numAccessesInMemorySystem = q.numAccessesInMemorySystem
             + Cardinality(PacketsOf(p, n)) - Cardinality(PacketsOf(q, n))
    BY <1>10, <1>11, <2>1, <2>2
  <2> QED
    BY <1>5, <1>6, <1>8, <2>3, CountsChange
<1> QED
  BY <1>5, <1>9, <1>12

\* A barrier that is the head goes to the store buffer.
LEMMA SlotAdded ==
    ASSUME prog \in Seq(Instructions), NEW q \in LSQs, NEW h \in Nat, Ordered(q, h),
           CountsMatch(q), NEW r \in Slot, r.inst = h, Unissued(r), Outstanding(r) = 0,
           ~Has(q.requests, h), ~Has(q.transfers, h),
           NEW p, Fields(p), RestTyped(p), p.slots = Append(q.slots, r),
           p.requests = q.requests, p.transfers = q.transfers,
           p.numStoresInTransfers = q.numStoresInTransfers,
           p.numUnissuedAccesses = q.numUnissuedAccesses + 1,
           p.numAccessesIssuedToMemory = q.numAccessesIssuedToMemory,
           p.numAccessesInMemorySystem = q.numAccessesInMemorySystem
    PROVE  p \in LSQs /\ Ordered(p, h + 1) /\ CountsMatch(p)
<1>1. /\ q.requests \in Seq(Pending) /\ q.transfers \in Seq(Transferring) /\ q.slots \in Seq(Slot)
  BY QueueTypes
<1>2. (\A x \in Slot : x.inst \in Nat) /\ h \in Insts
  BY RequestFacts
<1>3. /\ InOrder(q.slots) /\ InOrder(q.transfers) /\ InOrder(q.requests)
      /\ \A m \in Insts : Has(q.slots, m) => m < h
  BY Positions
<1>4. \A i \in 1..Len(q.slots) : q.slots[i].inst < r.inst
  BY DEF Ordered, OldAndNew
<1>5. /\ p.slots \in Seq(Slot) /\ InOrder(p.slots)
      /\ \A m : Entry(p.slots, m) = IF m = h THEN {r} ELSE Entry(q.slots, m)
  <2> DEFINE s == q.slots
  <2>1. s \in Seq(Slot) /\ InOrder(s) /\ \A i \in 1..Len(s) : s[i].inst < r.inst
    BY <1>1, <1>3, <1>4
  <2> HIDE DEF s
  <2>2. /\ Append(s, r) \in Seq(Slot) /\ InOrder(Append(s, r))
        /\ \A m : Entry(Append(s, r), m) = IF m = r.inst THEN {r} ELSE Entry(s, m)
    BY <1>2, <2>1, Appended
  <2> QED
    BY <2>2 DEF s
<1>6. p \in LSQs
  BY <1>1, <1>5, Typed
<1>7. /\ Entry(q.slots, h) = {} /\ Entry(q.requests, h) = {} /\ Entry(q.transfers, h) = {}
      /\ Entry(p.slots, h) = {r} /\ Entry(p.requests, h) = {} /\ Entry(p.transfers, h) = {}
  BY <1>2, <1>3, <1>5 DEF Has
<1>8. SameOthers(p, q, h)
  BY <1>5 DEF SameOthers
<1>9. Ordered(p, h + 1)
  <2>1. ~Has(p.requests, h) /\ ~Has(p.transfers, h) /\ h < h + 1 /\ h + 1 \in Nat
    BY <1>7 DEF Has
  <2>2. InOrder(p.slots) /\ InOrder(p.transfers) /\ InOrder(p.requests)
    BY <1>3, <1>5
  <2> DEFINE g == h + 1
  <2>3. g \in Nat /\ (g = h \/ (g = h + 1 /\ h = h)) /\ h < g
    BY <2>1
  <2> HIDE DEF g
  <2>4. Ordered(p, g)
    BY <1>2, <1>6, <1>8, <2>1, <2>2, <2>3, Moved
  <2> QED
    BY <2>4 DEF g
<1>10. /\ h \notin StoresInTransfers(q) /\ h \notin AccessesIssuedToMemory(q)
       /\ h \notin UnissuedAccesses(q) /\ Cardinality(PacketsOf(q, h)) = 0
  <2>1. Entries(q, h) = {}
    BY <1>7 DEF Entries
  <2> QED
    BY <1>2, <2>1, Contribution
<1>11. /\ h \notin StoresInTransfers(p) /\ h \notin AccessesIssuedToMemory(p)
       /\ h \in UnissuedAccesses(p) <=> (IsBarrier(h) \/ ~SentAllPackets(r))
       /\ Cardinality(PacketsOf(p, h)) = r.sent - r.retired
  BY <1>2, <1>6, <1>7, Contribution
<1>12. CountsMatch(p)
  <2>1. /\ Num(h \in StoresInTransfers(q)) = 0 /\ Num(h \in StoresInTransfers(p)) = 0
        /\ Num(h \in AccessesIssuedToMemory(q)) = 0 /\ Num(h \in AccessesIssuedToMemory(p)) = 0
        /\ Num(h \in UnissuedAccesses(q)) = 0 /\ Num(h \in UnissuedAccesses(p)) = 1
        /\ Cardinality(PacketsOf(p, h)) = 0
    BY <1>10, <1>11 DEF Num, Outstanding, Unissued
  <2>2. /\ p.numStoresInTransfers = q.numStoresInTransfers + 0 - 0
        /\ p.numAccessesIssuedToMemory = q.numAccessesIssuedToMemory + 0 - 0
        /\ p.numUnissuedAccesses = q.numUnissuedAccesses + 1 - 0
        /\ p.numAccessesInMemorySystem = q.numAccessesInMemorySystem + 0 - 0
    BY QueueTypes
  <2>3. /\ p.numStoresInTransfers = q.numStoresInTransfers
             + Num(h \in StoresInTransfers(p)) - Num(h \in StoresInTransfers(q))
        /\ p.numUnissuedAccesses = q.numUnissuedAccesses
             + Num(h \in UnissuedAccesses(p)) - Num(h \in UnissuedAccesses(q))
        /\ p.numAccessesIssuedToMemory = q.numAccessesIssuedToMemory
             + Num(h \in AccessesIssuedToMemory(p)) - Num(h \in AccessesIssuedToMemory(q))
        /\ p.numAccessesInMemorySystem = q.numAccessesInMemorySystem
             + Cardinality(PacketsOf(p, h)) - Cardinality(PacketsOf(q, h))
    BY <1>10, <1>11, <2>1, <2>2
  <2> QED
    BY <1>2, <1>6, <1>8, <2>3, CountsChange
<1> QED
  BY <1>6, <1>9, <1>12

\* o is taken from the front of s, and t is left.
FrontTaken(s, o, t) == s # <<>> /\ o = Head(s) /\ t = Tail(s)

\* Queue t has what s has, but nothing of instruction n.
Without(t, s, n) == \A m : Entry(t, m) = IF m = n THEN {} ELSE Entry(s, m)

LEMMA FrontTransfer ==
    ASSUME prog \in Seq(Instructions), NEW q \in LSQs, NEW h \in Nat, Ordered(q, h),
           NEW o, NEW t, FrontTaken(q.transfers, o, t)
    PROVE  /\ t \in Seq(Transferring) /\ InOrder(t)
           /\ Without(t, q.transfers, o.inst)
           /\ o \in Transferring /\ o.inst \in Insts /\ Entry(q.transfers, o.inst) = {o}
           /\ Entry(q.requests, o.inst) = {} /\ Entry(q.slots, o.inst) = {}
<1> DEFINE s == q.transfers
<1>1. s \in Seq(Transferring) /\ InOrder(s) /\ s # <<>> /\ o = Head(s) /\ t = Tail(s)
  BY QueueTypes, Positions DEF FrontTaken
<1>2. \A x \in Transferring : x.inst \in Nat
  BY RequestFacts
<1> HIDE DEF s
<1>3. /\ Tail(s) \in Seq(Transferring) /\ InOrder(Tail(s)) /\ Len(s) \in Nat \ {0} /\ o = s[1]
      /\ \A m : Entry(Tail(s), m) = IF m = s[1].inst THEN {} ELSE Entry(s, m)
  BY <1>1, <1>2, Tailed
<1>4. 1 \in 1..Len(s)
  BY <1>3
<1>5. PICK i \in 1..Len(q.transfers) : o = q.transfers[i]
  BY <1>3, <1>4 DEF s
<1>6. /\ o \in Transferring /\ o.inst \in Insts /\ Entry(q.transfers, o.inst) = {o}
      /\ Entry(q.requests, o.inst) = {} /\ Entry(q.slots, o.inst) = {}
  BY <1>5, TransferPlace
<1> QED
  BY <1>1, <1>3, <1>6 DEF s, Without

\* The counters are changed by these amounts.
CountersBy(p, q, stores, unissued, toMemory, packets) ==
    /\ p.numStoresInTransfers = q.numStoresInTransfers + stores
    /\ p.numUnissuedAccesses = q.numUnissuedAccesses + unissued
    /\ p.numAccessesIssuedToMemory = q.numAccessesIssuedToMemory + toMemory
    /\ p.numAccessesInMemorySystem = q.numAccessesInMemorySystem + packets

LEMMA CountersFollow ==
    ASSUME prog \in Seq(Instructions), NEW q \in LSQs, NEW p \in LSQs, CountsMatch(q),
           NEW n \in Insts, SameOthers(p, q, n),
           NEW a \in Int, NEW b \in Int, NEW c \in Int, NEW d \in Int,
           CountersBy(p, q, a, b, c, d),
           a = Num(n \in StoresInTransfers(p)) - Num(n \in StoresInTransfers(q)),
           b = Num(n \in UnissuedAccesses(p)) - Num(n \in UnissuedAccesses(q)),
           c = Num(n \in AccessesIssuedToMemory(p)) - Num(n \in AccessesIssuedToMemory(q)),
           d = Cardinality(PacketsOf(p, n)) - Cardinality(PacketsOf(q, n)),
           Cardinality(PacketsOf(p, n)) \in Int, Cardinality(PacketsOf(q, n)) \in Int
    PROVE  CountsMatch(p)
<1> DEFINE sp == Num(n \in StoresInTransfers(p))
           sq == Num(n \in StoresInTransfers(q))
           up == Num(n \in UnissuedAccesses(p))
           uq == Num(n \in UnissuedAccesses(q))
           ip == Num(n \in AccessesIssuedToMemory(p))
           iq == Num(n \in AccessesIssuedToMemory(q))
           cp == Cardinality(PacketsOf(p, n))
           cq == Cardinality(PacketsOf(q, n))
<1>1. /\ sp \in Int /\ sq \in Int /\ up \in Int /\ uq \in Int /\ ip \in Int /\ iq \in Int
      /\ cp \in Int /\ cq \in Int
      /\ a = sp - sq /\ b = up - uq /\ c = ip - iq /\ d = cp - cq
  BY DEF Num
<1>2. /\ q.numStoresInTransfers \in Int /\ q.numAccessesIssuedToMemory \in Int
      /\ q.numUnissuedAccesses \in Int /\ q.numAccessesInMemorySystem \in Int
  BY QueueTypes
<1> HIDE DEF sp, sq, up, uq, ip, iq, cp, cq
<1>3. /\ p.numStoresInTransfers = q.numStoresInTransfers + sp - sq
      /\ p.numUnissuedAccesses = q.numUnissuedAccesses + up - uq
      /\ p.numAccessesIssuedToMemory = q.numAccessesIssuedToMemory + ip - iq
      /\ p.numAccessesInMemorySystem = q.numAccessesInMemorySystem + cp - cq
  BY <1>1, <1>2 DEF CountersBy
<1> QED
  BY <1>3, CountsChange DEF sp, sq, up, uq, ip, iq, cp, cq

\* The access at the front of transfers is finished, and is not a store for the store
\* buffer.
LEMMA TransferTaken ==
    ASSUME prog \in Seq(Instructions), NEW q \in LSQs, NEW h \in Nat, Ordered(q, h),
           CountsMatch(q), NEW o, h = o.inst,
           Outstanding(o) = 0,
           NEW p, Fields(p), RestTyped(p), FrontTaken(q.transfers, o, p.transfers),
           p.requests = q.requests, p.slots = q.slots,
           CountersBy(p, q, 0 - Num(~o.isLoad), 0, 0 - Num(o.issuedToMemory), 0)
    PROVE  /\ p \in LSQs /\ Ordered(p, h + 1) /\ CountsMatch(p)
           /\ Held(p) = Held(q) \ {h}
<1>1. /\ q.requests \in Seq(Pending) /\ q.transfers \in Seq(Transferring) /\ q.slots \in Seq(Slot)
  BY QueueTypes
<1>2. (\A x \in Transferring : x.inst \in Nat) /\ (\A x \in Slot : x.inst \in Nat)
  BY RequestFacts
<1>3. /\ InOrder(q.slots) /\ InOrder(q.transfers) /\ InOrder(q.requests)
      /\ \A m \in Insts : Has(q.slots, m) => m < h
  BY Positions
<1>4. /\ p.transfers \in Seq(Transferring) /\ InOrder(p.transfers)
      /\ Without(p.transfers, q.transfers, h)
  BY FrontTransfer
<1>5. /\ h \in Insts /\ o \in Transferring
      /\ Entry(q.transfers, h) = {o} /\ Entry(q.requests, h) = {} /\ Entry(q.slots, h) = {}
  BY FrontTransfer
<1>6. p \in LSQs
  BY <1>1, <1>4, Typed
<1>7. Entry(p.slots, h) = {} /\ Entry(p.requests, h) = {} /\ Entry(p.transfers, h) = {}
  BY <1>4, <1>5 DEF Without
<1>8. SameOthers(p, q, h)
  BY <1>4 DEF SameOthers, Without
<1>9. Ordered(p, h + 1)
  <2>1. InOrder(p.slots) /\ InOrder(p.transfers) /\ InOrder(p.requests)
    BY <1>3, <1>4
  <2> DEFINE g == h + 1
  <2>2. g \in Nat /\ (g = h \/ (g = h + 1 /\ h = h)) /\ h < g
    OBVIOUS
  <2>3. ~Has(p.requests, h) /\ ~Has(p.transfers, h) /\ ~Has(p.slots, h)
    BY <1>7 DEF Has
  <2> HIDE DEF g
  <2>4. Ordered(p, g)
    BY <1>5, <1>6, <1>8, <2>1, <2>2, <2>3, Moved
  <2> QED
    BY <2>4 DEF g
<1>10. /\ h \in StoresInTransfers(q) <=> ~o.isLoad
       /\ h \notin UnissuedAccesses(q)
       /\ h \in AccessesIssuedToMemory(q) <=> o.issuedToMemory
       /\ Cardinality(PacketsOf(q, h)) = o.sent - o.retired
  BY <1>5, Contribution
<1>11. /\ h \notin StoresInTransfers(p) /\ h \notin AccessesIssuedToMemory(p)
       /\ h \notin UnissuedAccesses(p) /\ Cardinality(PacketsOf(p, h)) = 0
  <2>1. Entries(p, h) = {}
    BY <1>7 DEF Entries
  <2> QED
    BY <1>5, <1>6, <2>1, Contribution
<1>12. CountsMatch(p)
  <2>1. /\ Num(h \in StoresInTransfers(q)) = Num(~o.isLoad) /\ Num(h \in StoresInTransfers(p)) = 0
        /\ Num(h \in UnissuedAccesses(q)) = 0 /\ Num(h \in UnissuedAccesses(p)) = 0
        /\ Num(h \in AccessesIssuedToMemory(q)) = Num(o.issuedToMemory)
        /\ Num(h \in AccessesIssuedToMemory(p)) = 0
        /\ Cardinality(PacketsOf(q, h)) = 0
        /\ Num(~o.isLoad) \in Int /\ Num(o.issuedToMemory) \in Int
    BY <1>10, <1>11 DEF Num, Outstanding
  <2> DEFINE d == Num(~o.isLoad)
             e == Num(o.issuedToMemory)
             x == 0 - d
             y == 0 - e
  <2>2. d \in Int /\ e \in Int /\ CountersBy(p, q, x, 0, y, 0)
    BY DEF Num
  <2>3. Num(h \in StoresInTransfers(q)) = d /\ Num(h \in AccessesIssuedToMemory(q)) = e
    BY <2>1
  <2> HIDE DEF d, e
  <2>4. x \in Int /\ y \in Int
    BY <2>2
  <2>5. /\ x = Num(h \in StoresInTransfers(p)) - Num(h \in StoresInTransfers(q))
        /\ 0 = Num(h \in UnissuedAccesses(p)) - Num(h \in UnissuedAccesses(q))
        /\ y = Num(h \in AccessesIssuedToMemory(p)) - Num(h \in AccessesIssuedToMemory(q))
        /\ 0 = Cardinality(PacketsOf(p, h)) - Cardinality(PacketsOf(q, h))
        /\ Cardinality(PacketsOf(p, h)) \in Int /\ Cardinality(PacketsOf(q, h)) \in Int
    BY <1>10, <1>11, <2>1, <2>2, <2>3
  <2> HIDE DEF x, y
  <2> QED
    BY <1>5, <1>6, <1>8, <2>2, <2>4, <2>5, CountersFollow
<1>13. Held(p) = Held(q) \ {h}
  BY <1>5, <1>7, <1>8 DEF Held, Has, SameOthers
<1> QED
  BY <1>6, <1>9, <1>12, <1>13

\* The store at the front of transfers goes to the store buffer.
LEMMA TransferToSlot ==
    ASSUME prog \in Seq(Instructions), NEW q \in LSQs, NEW h \in Nat, Ordered(q, h),
           CountsMatch(q), NEW o, h = o.inst,
           Outstanding(o) = 0, ~o.issuedToMemory,
           NEW r \in Slot, r.inst = h, Unissued(r), Outstanding(r) = 0,
           NEW p, Fields(p), RestTyped(p), FrontTaken(q.transfers, o, p.transfers),
           p.requests = q.requests, p.slots = Append(q.slots, r),
           CountersBy(p, q, 0 - Num(~o.isLoad), 1, 0, 0)
    PROVE  /\ p \in LSQs /\ Ordered(p, h + 1) /\ CountsMatch(p)
           /\ Held(p) = Held(q) \ {h}
<1>1. /\ q.requests \in Seq(Pending) /\ q.transfers \in Seq(Transferring) /\ q.slots \in Seq(Slot)
  BY QueueTypes
<1>2. (\A x \in Transferring : x.inst \in Nat) /\ (\A x \in Slot : x.inst \in Nat)
  BY RequestFacts
<1>3. /\ InOrder(q.slots) /\ InOrder(q.transfers) /\ InOrder(q.requests)
      /\ \A m \in Insts : Has(q.slots, m) => m < h
  BY Positions
<1>4. /\ p.transfers \in Seq(Transferring) /\ InOrder(p.transfers)
      /\ Without(p.transfers, q.transfers, h)
  <2>1. /\ p.transfers \in Seq(Transferring) /\ InOrder(p.transfers)
        /\ Without(p.transfers, q.transfers, o.inst)
    BY FrontTransfer
  <2> QED
    BY <2>1
<1>5. /\ h \in Insts /\ o \in Transferring
      /\ Entry(q.transfers, h) = {o} /\ Entry(q.requests, h) = {} /\ Entry(q.slots, h) = {}
  <2>1. /\ o.inst \in Insts /\ o \in Transferring
        /\ Entry(q.transfers, o.inst) = {o} /\ Entry(q.requests, o.inst) = {}
        /\ Entry(q.slots, o.inst) = {}
    BY FrontTransfer
  <2> QED BY <2>1
<1>5a. /\ p.slots \in Seq(Slot) /\ InOrder(p.slots)
      /\ \A m : Entry(p.slots, m) = IF m = h THEN {r} ELSE Entry(q.slots, m)
  <2> DEFINE s == q.slots
  <2>1. s \in Seq(Slot) /\ InOrder(s) /\ \A i \in 1..Len(s) : s[i].inst < r.inst
    BY <1>1, <1>3 DEF Ordered, OldAndNew
  <2>1a. \A x \in Slot : x.inst \in Nat
    BY <1>2
  <2> HIDE DEF s
  <2>2. /\ Append(s, r) \in Seq(Slot) /\ InOrder(Append(s, r))
        /\ \A m : Entry(Append(s, r), m) = IF m = r.inst THEN {r} ELSE Entry(s, m)
    BY <2>1, <2>1a, Appended
  <2> QED
    BY <2>2 DEF s
<1>6. p \in LSQs
  BY <1>1, <1>4, <1>5a, Typed
<1>7. Entry(p.slots, h) = {r} /\ Entry(p.requests, h) = {} /\ Entry(p.transfers, h) = {}
  BY <1>4, <1>5, <1>5a DEF Without
<1>8. SameOthers(p, q, h)
  BY <1>4, <1>5a DEF SameOthers, Without
<1>9. Ordered(p, h + 1)
  <2>1. InOrder(p.slots) /\ InOrder(p.transfers) /\ InOrder(p.requests)
    BY <1>3, <1>4, <1>5a
  <2> DEFINE g == h + 1
  <2>2. g \in Nat /\ (g = h \/ (g = h + 1 /\ h = h)) /\ h < g
    OBVIOUS
  <2>3. ~Has(p.requests, h) /\ ~Has(p.transfers, h)
    BY <1>7 DEF Has
  <2> HIDE DEF g
  <2>4. Ordered(p, g)
    BY <1>5, <1>6, <1>8, <2>1, <2>2, <2>3, Moved
  <2> QED
    BY <2>4 DEF g
<1>10. /\ h \in StoresInTransfers(q) <=> ~o.isLoad
       /\ h \notin UnissuedAccesses(q)
       /\ h \in AccessesIssuedToMemory(q) <=> o.issuedToMemory
       /\ Cardinality(PacketsOf(q, h)) = o.sent - o.retired
  BY <1>5, Contribution
<1>11. /\ h \notin StoresInTransfers(p) /\ h \notin AccessesIssuedToMemory(p)
       /\ h \in UnissuedAccesses(p) <=> (IsBarrier(h) \/ ~SentAllPackets(r))
       /\ Cardinality(PacketsOf(p, h)) = r.sent - r.retired
  BY <1>5, <1>6, <1>7, Contribution
<1>12. CountsMatch(p)
  <2>1. /\ Num(h \in StoresInTransfers(q)) = Num(~o.isLoad) /\ Num(h \in StoresInTransfers(p)) = 0
        /\ Num(h \in UnissuedAccesses(q)) = 0 /\ Num(h \in UnissuedAccesses(p)) = 1
        /\ Num(h \in AccessesIssuedToMemory(q)) = 0 /\ Num(h \in AccessesIssuedToMemory(p)) = 0
        /\ Cardinality(PacketsOf(q, h)) = 0 /\ Cardinality(PacketsOf(p, h)) = 0
        /\ Num(~o.isLoad) \in Int
    BY <1>10, <1>11 DEF Num, Outstanding, Unissued
  <2> DEFINE d == Num(~o.isLoad)
             x == 0 - d
  <2>2. d \in Int /\ CountersBy(p, q, x, 1, 0, 0)
    BY DEF Num
  <2>3. Num(h \in StoresInTransfers(q)) = d
    BY <2>1
  <2> HIDE DEF d
  <2>4. x \in Int
    BY <2>2
  <2>5. /\ x = Num(h \in StoresInTransfers(p)) - Num(h \in StoresInTransfers(q))
        /\ 1 = Num(h \in UnissuedAccesses(p)) - Num(h \in UnissuedAccesses(q))
        /\ 0 = Num(h \in AccessesIssuedToMemory(p)) - Num(h \in AccessesIssuedToMemory(q))
        /\ 0 = Cardinality(PacketsOf(p, h)) - Cardinality(PacketsOf(q, h))
        /\ Cardinality(PacketsOf(p, h)) \in Int /\ Cardinality(PacketsOf(q, h)) \in Int
    BY <1>10, <1>11, <2>1, <2>2, <2>3
  <2> HIDE DEF x
  <2> QED
    BY <1>5, <1>6, <1>8, <2>2, <2>4, <2>5, CountersFollow
<1>13. Held(p) = Held(q) \ {h}
  BY <1>5, <1>7, <1>8 DEF Held, Has, SameOthers
<1> QED
  BY <1>6, <1>9, <1>12, <1>13

\* A new request is the youngest access.
LEMMA RequestAdded ==
    ASSUME prog \in Seq(Instructions), NEW q \in LSQs, NEW h \in Nat, Ordered(q, h),
           CountsMatch(q), NEW r \in Pending, r.inst >= h, ~r.issuedToMemory, Outstanding(r) = 0,
           \A m \in Insts : Has(q.requests, m) \/ Has(q.transfers, m) => m < r.inst,
           NEW p, Fields(p), RestTyped(p), p.requests = Append(q.requests, r),
           p.transfers = q.transfers, p.slots = q.slots,
           p.numStoresInTransfers = q.numStoresInTransfers,
           p.numUnissuedAccesses = q.numUnissuedAccesses,
           p.numAccessesIssuedToMemory = q.numAccessesIssuedToMemory,
           p.numAccessesInMemorySystem = q.numAccessesInMemorySystem
    PROVE  /\ p \in LSQs /\ Ordered(p, h) /\ CountsMatch(p)
           /\ Held(p) = Held(q) \cup {r.inst}
<1> DEFINE n == r.inst
<1>1. /\ q.requests \in Seq(Pending) /\ q.transfers \in Seq(Transferring) /\ q.slots \in Seq(Slot)
  BY QueueTypes
<1>2. (\A x \in Pending : x.inst \in Nat) /\ n \in Insts /\ n \in Nat
  BY RequestFacts
<1>3. /\ InOrder(q.slots) /\ InOrder(q.transfers) /\ InOrder(q.requests)
      /\ \A m \in Insts : Has(q.slots, m) => m < h
  BY Positions
<1>4. /\ p.requests \in Seq(Pending) /\ InOrder(p.requests)
      /\ \A m : Entry(p.requests, m) = IF m = n THEN {r} ELSE Entry(q.requests, m)
  <2> DEFINE s == q.requests
  <2>1. \A i \in 1..Len(q.requests) : q.requests[i].inst \in Insts /\ Has(q.requests, q.requests[i].inst)
    BY RequestPlace
  <2>2. s \in Seq(Pending) /\ InOrder(s) /\ \A i \in 1..Len(s) : s[i].inst < r.inst
    BY <1>1, <1>3, <2>1
  <2> HIDE DEF s
  <2>3. /\ Append(s, r) \in Seq(Pending) /\ InOrder(Append(s, r))
        /\ \A m : Entry(Append(s, r), m) = IF m = r.inst THEN {r} ELSE Entry(s, m)
    <3>1. \A x \in Pending : x.inst \in Nat
      BY <1>2
    <3> QED
      BY <2>2, <3>1, Appended
  <2> QED
    BY <2>3 DEF s
<1> HIDE DEF n
<1>6. p \in LSQs
  BY <1>1, <1>4, Typed
<1>7. /\ Entry(q.slots, n) = {} /\ Entry(q.requests, n) = {} /\ Entry(q.transfers, n) = {}
      /\ Entry(p.slots, n) = {} /\ Entry(p.requests, n) = {r} /\ Entry(p.transfers, n) = {}
  <2>1. ~Has(q.requests, n) /\ ~Has(q.transfers, n)
    BY <1>2 DEF n
  <2>2. ~Has(q.slots, n)
    BY <1>2, <1>3 DEF n
  <2> QED
    BY <1>4, <2>1, <2>2 DEF Has
<1>8. SameOthers(p, q, n)
  BY <1>4 DEF SameOthers
<1>9. Ordered(p, h)
  <2>1. InOrder(p.slots) /\ InOrder(p.transfers) /\ InOrder(p.requests)
    BY <1>3, <1>4
  <2>2. ~Has(p.slots, n) /\ ~Has(p.transfers, n) /\ n >= h
    BY <1>7 DEF Has, n
  <2>3. \A a \in Insts : Has(q.transfers, a) /\ a # n => a < n
    BY DEF n
  <2> QED
    BY <1>2, <1>6, <1>8, <2>1, <2>2, <2>3, Moved
<1>10. /\ n \notin StoresInTransfers(q) /\ n \notin AccessesIssuedToMemory(q)
       /\ n \notin UnissuedAccesses(q) /\ Cardinality(PacketsOf(q, n)) = 0
  <2>1. Entries(q, n) = {}
    BY <1>7 DEF Entries
  <2> QED
    BY <1>2, <2>1, Contribution
<1>11. /\ n \notin StoresInTransfers(p) /\ n \notin UnissuedAccesses(p)
       /\ n \in AccessesIssuedToMemory(p) <=> r.issuedToMemory
       /\ Cardinality(PacketsOf(p, n)) = r.sent - r.retired
  BY <1>2, <1>6, <1>7, Contribution
<1>12. CountsMatch(p)
  <2>1. /\ Num(n \in StoresInTransfers(q)) = 0 /\ Num(n \in StoresInTransfers(p)) = 0
        /\ Num(n \in AccessesIssuedToMemory(q)) = 0 /\ Num(n \in AccessesIssuedToMemory(p)) = 0
        /\ Num(n \in UnissuedAccesses(q)) = 0 /\ Num(n \in UnissuedAccesses(p)) = 0
        /\ Cardinality(PacketsOf(p, n)) = 0
    BY <1>10, <1>11 DEF Num, Outstanding
  <2>2. /\ p.numStoresInTransfers = q.numStoresInTransfers + 0 - 0
        /\ p.numAccessesIssuedToMemory = q.numAccessesIssuedToMemory + 0 - 0
        /\ p.numUnissuedAccesses = q.numUnissuedAccesses + 0 - 0
        /\ p.numAccessesInMemorySystem = q.numAccessesInMemorySystem + 0 - 0
    BY QueueTypes
  <2>3. /\ p.numStoresInTransfers = q.numStoresInTransfers
             + Num(n \in StoresInTransfers(p)) - Num(n \in StoresInTransfers(q))
        /\ p.numUnissuedAccesses = q.numUnissuedAccesses
             + Num(n \in UnissuedAccesses(p)) - Num(n \in UnissuedAccesses(q))
        /\ p.numAccessesIssuedToMemory = q.numAccessesIssuedToMemory
             + Num(n \in AccessesIssuedToMemory(p)) - Num(n \in AccessesIssuedToMemory(q))
        /\ p.numAccessesInMemorySystem = q.numAccessesInMemorySystem
             + Cardinality(PacketsOf(p, n)) - Cardinality(PacketsOf(q, n))
    BY <1>10, <1>11, <2>1, <2>2
  <2> QED
    BY <1>2, <1>6, <1>8, <2>3, CountsChange
<1>13. Held(p) = Held(q) \cup {n}
  BY <1>2, <1>7, <1>8 DEF Held, Has, SameOthers
<1> QED
  BY <1>6, <1>9, <1>12, <1>13 DEF n
=============================================================================
