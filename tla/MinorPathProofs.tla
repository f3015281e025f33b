-------------------------- MODULE MinorPathProofs ---------------------------
(***************************************************************************)
(* PathInv is kept by every step: the pipeline commits the instructions of *)
(* the thread one after the other, whatever was predicted and fetched.     *)
(***************************************************************************)
EXTENDS MinorPipelineProofs

----------------------------------------------------------------------------
(* What every action does to the work in the pipeline. *)

PathTypeOK ==
    /\ Decoded \in Seq(Insts) /\ Undecoded \in Seq(Insts)
    /\ LinesIn \in Seq(Lines) /\ Fetched \in Seq(Lines \cup Fetches)

LEMMA PathTypes == TypeOK => PathTypeOK
<1> SUFFICES ASSUME TypeOK PROVE PathTypeOK
  OBVIOUS
<1>1. \A s \in Stages \ {"fetch2"} : buf[s].queue \in Seq(Insts) /\ buf[s].latch \in Seq(Insts)
  BY BufKinds DEF TypeOK, Buffers, Stages
<1>2. buf["fetch2"].queue \in Seq(Lines) /\ buf["fetch2"].latch \in Seq(Lines)
  BY BufKinds DEF TypeOK, Buffers, Stages
<1>3. inFlight \in Seq(Insts) /\ fetches \in Seq(Fetches)
  BY DEF TypeOK, ExecuteTypeOK, FetchTypeOK
<1>4. Seq(Lines) \subseteq Seq(Lines \cup Fetches) /\ Seq(Fetches) \subseteq Seq(Lines \cup Fetches)
  OBVIOUS
<1>5. Into("execute") \in Seq(Insts) /\ Into("dummy") \in Seq(Insts) /\ Into("decode") \in Seq(Insts)
  BY <1>1 DEF Into, Stages
<1> QED
  BY <1>2, <1>3, <1>4, <1>5 DEF PathTypeOK, Decoded, Undecoded, Fetched, LinesIn, Into

LEMMA NextPathTypes ==
    ASSUME TypeOK, [Next]_vars
    PROVE  PathTypeOK /\ PathTypeOK'
<1>1. TypeOK'
  BY NextType
<1>2. TypeOK' => PathTypeOK'
  BY PathTypes, PTL
<1> QED
  BY <1>1, <1>2, PathTypes

LEMMA BufferTypes ==
    ASSUME TypeOK
    PROVE  /\ \A s \in Stages \ {"fetch2"} : /\ buf[s].queue \in Seq(Insts)
                                             /\ buf[s].latch \in Seq(Insts)
                                             /\ Into(s) \in Seq(Insts)
           /\ buf["fetch2"].queue \in Seq(Lines) /\ buf["fetch2"].latch \in Seq(Lines)
           /\ inFlight \in Seq(Insts) /\ fetches \in Seq(Fetches)
           /\ Stages = {"fetch2", "decode", "dummy", "execute"}
<1>1. \A s \in Stages \ {"fetch2"} : buf[s].queue \in Seq(Insts) /\ buf[s].latch \in Seq(Insts)
  BY BufKinds DEF TypeOK, Buffers, Stages
<1>2. buf["fetch2"].queue \in Seq(Lines) /\ buf["fetch2"].latch \in Seq(Lines)
  BY BufKinds DEF TypeOK, Buffers, Stages
<1>3. \A s \in Stages \ {"fetch2"} : Into(s) \in Seq(Insts)
  BY <1>1 DEF Into
<1> QED
  BY <1>1, <1>2, <1>3 DEF TypeOK, ExecuteTypeOK, FetchTypeOK, Stages

\* Nothing is moved past the border of two groups.
SameOps   == Decoded' = Decoded /\ Undecoded' = Undecoded
SameLines == LinesIn' = LinesIn /\ Fetched' = Fetched

\* Buffers that are as they were.
LEMMA SameBuffers ==
    /\ buf'["fetch2"] = buf["fetch2"] /\ fetches' = fetches => SameLines
    /\ buf'["decode"] = buf["decode"] => Undecoded' = Undecoded
    /\ buf'["dummy"] = buf["dummy"] /\ buf'["execute"] = buf["execute"] /\ inFlight' = inFlight
         => Decoded' = Decoded
BY DEF SameLines, LinesIn, Fetched, Undecoded, Decoded, Into

\* Execute takes in its input.
LEMMA DeliverExecutePath ==
    ASSUME TypeOK, BeginCycle \/ SkipCommit \/ TakeInterrupt
    PROVE  /\ Undecoded' = Undecoded /\ SameLines
           /\ \/ Decoded' = Decoded
              \/ /\ BeginCycle /\ exec.drainState = "DrainAllInsts"
                 /\ Decoded = inFlight \o (Into("execute") \o Into("dummy"))
                 /\ Decoded' = inFlight \o Into("dummy")
<1>1. fetches' = fetches /\ inFlight' = inFlight
  BY Zenon DEF BeginCycle, SkipCommit, TakeInterrupt, fetchVars, executeVars
<1>2. /\ buf'["fetch2"] = buf["fetch2"]
      /\ buf'["decode"] = buf["decode"]
      /\ buf'["dummy"] = buf["dummy"]
  BY DeliverExecute, BufferTypes
<1>3. Undecoded' = Undecoded /\ SameLines
  BY <1>1, <1>2, SameBuffers
<1> DEFINE x == buf'["execute"]
           b == Into("execute")
           d == Into("dummy")
<1>4. Decoded' = inFlight \o ((x.queue \o x.latch) \o d) /\ Decoded = inFlight \o (b \o d)
  BY <1>1, <1>2 DEF Decoded, Into
<1>5. b \in Seq(Insts) /\ d \in Seq(Insts)
  BY BufferTypes
<1>6. \/ x.queue = b /\ x.latch = <<>>
      \/ BeginCycle /\ exec.drainState = "DrainAllInsts" /\ x.queue = <<>> /\ x.latch = <<>>
  BY DeliverExecute DEF IsBuffer
<1>7. b \o <<>> = b /\ <<>> \o <<>> \o d = d
  BY <1>5
<1> HIDE DEF b, d, x
<1>8. \/ Decoded' = Decoded
      \/ /\ BeginCycle /\ exec.drainState = "DrainAllInsts"
         /\ Decoded = inFlight \o (b \o d)
         /\ Decoded' = inFlight \o d
  BY <1>4, <1>6, <1>7
<1> QED
  BY <1>3, <1>8 DEF b, d
\* Sequence t is s without its first n elements, and without element p.
Dropped(t, s, n) ==
    n \in 0..Len(s) /\ Len(s) = Len(t) + n /\ \A k \in 1..Len(t) : t[k] = s[k + n]

Removed(t, s, p) ==
    /\ p \in 1..Len(s) /\ Len(s) = Len(t) + 1
    /\ \A k \in 1..Len(t) : t[k] = IF k < p THEN s[k] ELSE s[k + 1]

\* Concatenation, element by element.
LEMMA JoinedElements ==
    ASSUME NEW S, NEW s \in Seq(S), NEW t \in Seq(S)
    PROVE  /\ s \o t \in Seq(S)
           /\ Len(s) \in Nat /\ Len(t) \in Nat /\ Len(s \o t) = Len(s) + Len(t)
           /\ \A k \in 1..Len(s) : (s \o t)[k] = s[k]
           /\ \A k \in 1..Len(t) : (s \o t)[k + Len(s)] = t[k]
<1>1. /\ Len(s) \in Nat /\ Len(t) \in Nat /\ Len(s \o t) = Len(s) + Len(t)
      /\ \A k \in 1..(Len(s) + Len(t)) : (s \o t)[k] = IF k <= Len(s) THEN s[k] ELSE t[k - Len(s)]
      /\ s \o t \in Seq(S)
  BY ConcatProperties, LenProperties
<1> DEFINE m == Len(s)
           n == Len(t)
           u == s \o t
<1>2. /\ m \in Nat /\ n \in Nat
      /\ \A k \in 1..(m + n) : u[k] = IF k <= m THEN s[k] ELSE t[k - m]
  BY <1>1
<1> HIDE DEF m, n, u
<1>3. /\ \A k \in 1..m : u[k] = s[k]
      /\ \A k \in 1..n : u[k + m] = t[k]
  BY <1>2
<1> QED
  BY <1>1, <1>3 DEF m, n, u

LEMMA JoinedAssociative ==
    ASSUME NEW S, NEW s \in Seq(S), NEW t \in Seq(S), NEW u \in Seq(S)
    PROVE  (s \o t) \o u = s \o (t \o u)
BY ConcatAssociative

LEMMA TailElements ==
    ASSUME NEW S, NEW s \in Seq(S), s # <<>>
    PROVE  /\ Tail(s) \in Seq(S) /\ Head(s) \in S /\ Head(s) = s[1] /\ Dropped(Tail(s), s, 1)
           /\ Len(s) \in Nat \ {0} /\ Len(Tail(s)) \in Nat
<1>1. /\ Tail(s) \in Seq(S) /\ Head(s) \in S /\ Head(s) = s[1]
      /\ Len(s) \in Nat \ {0} /\ Len(Tail(s)) \in Nat /\ Len(Tail(s)) = Len(s) - 1
      /\ \A k \in 1..Len(Tail(s)) : Tail(s)[k] = s[k + 1]
  BY HeadTailProperties, EmptySeq, LenProperties
<1> DEFINE m == Len(s)
           n == Len(Tail(s))
<1>2. m \in Nat \ {0} /\ n \in Nat /\ n = m - 1
  BY <1>1
<1> HIDE DEF m, n
<1>3. 1 \in 0..m /\ m = n + 1
  BY <1>2
<1> QED
  BY <1>1, <1>3 DEF m, n, Dropped

LEMMA AppendElements ==
    ASSUME NEW S, NEW s \in Seq(S), NEW x \in S
    PROVE  /\ Append(s, x) \in Seq(S) /\ Append(s, x) # <<>>
           /\ Len(s) \in Nat /\ Len(Append(s, x)) = Len(s) + 1
           /\ \A k \in 1..Len(s) : Append(s, x)[k] = s[k]
           /\ Append(s, x)[Len(s) + 1] = x
BY AppendProperties, LenProperties

LEMMA ElementTypes ==
    ASSUME NEW S, NEW s \in Seq(S)
    PROVE  /\ Len(s) \in Nat /\ \A k \in 1..Len(s) : s[k] \in S
           /\ s = <<>> <=> Len(s) = 0
BY LenProperties, ElementOfSeq, EmptySeq
\* The first element of the middle part of a sequence is removed.
LEMMA RemovedFromMiddle ==
    ASSUME NEW S, NEW a \in Seq(S), NEW q \in Seq(S), q # <<>>, NEW z \in Seq(S)
    PROVE  /\ Removed(a \o (Tail(q) \o z), a \o (q \o z), Len(a) + 1)
           /\ (a \o (q \o z))[Len(a) + 1] = Head(q)
<1> DEFINE t == Tail(q)
           m == Len(a)
           n == Len(t)
           l == Len(z)
           g == Len(q)
           v == t \o z
           w == q \o z
<1>1. /\ t \in Seq(S) /\ Head(q) = q[1] /\ Dropped(t, q, 1) /\ g \in Nat \ {0} /\ n \in Nat
  BY TailElements
<1>2. /\ v \in Seq(S) /\ w \in Seq(S) /\ l \in Nat /\ Len(v) = n + l /\ Len(w) = g + l
      /\ \A k \in 1..n : v[k] = t[k]
      /\ \A k \in 1..l : v[k + n] = z[k]
      /\ \A k \in 1..g : w[k] = q[k]
      /\ \A k \in 1..l : w[k + g] = z[k]
  BY <1>1, JoinedElements
<1>3. g = n + 1 /\ \A k \in 1..n : t[k] = q[k + 1]
  BY <1>1 DEF Dropped
<1>4. \A k \in 1..(n + l) : v[k] = w[k + 1]
  <2> SUFFICES ASSUME NEW k \in 1..(n + l) PROVE v[k] = w[k + 1]
    OBVIOUS
  <2> HIDE DEF t, n, l, g, v, w
  <2>1. CASE k <= n
    <3>1. k \in 1..n /\ k + 1 \in 1..g
      BY <1>1, <1>2, <1>3, <2>1
    <3> QED
      BY <1>2, <1>3, <3>1
  <2>2. CASE ~(k <= n)
    <3>1. k - n \in 1..l /\ (k - n) + n = k /\ (k - n) + g = k + 1
      BY <1>1, <1>2, <1>3, <2>2
    <3> QED
      BY <1>2, <3>1
  <2> QED
    BY <2>1, <2>2
<1> DEFINE r == a \o v
           s == a \o w
           rr == Len(r)
           ss == Len(s)
<1>5. /\ m \in Nat /\ rr = m + (n + l) /\ ss = m + (g + l)
      /\ \A k \in 1..m : r[k] = a[k]
      /\ \A k \in 1..(n + l) : r[k + m] = v[k]
      /\ \A k \in 1..m : s[k] = a[k]
      /\ \A k \in 1..(g + l) : s[k + m] = w[k]
  <2>1. Len(v) = n + l /\ Len(w) = g + l
    BY <1>2
  <2>4. v \in Seq(S) /\ w \in Seq(S)
    BY <1>2
  <2> HIDE DEF v, w, n, g, l
  <2>2. /\ m \in Nat /\ rr = m + Len(v)
        /\ \A k \in 1..m : r[k] = a[k]
        /\ \A k \in 1..Len(v) : r[k + m] = v[k]
    BY <2>4, JoinedElements
  <2>3. /\ ss = m + Len(w)
        /\ \A k \in 1..m : s[k] = a[k]
        /\ \A k \in 1..Len(w) : s[k + m] = w[k]
    BY <2>4, JoinedElements
  <2> HIDE DEF m, r, s, rr, ss
  <2> QED
    BY <2>1, <2>2, <2>3
<1> HIDE DEF t, n, l, g, v, w, m, r, s, rr, ss
<1>6. m + 1 \in 1..ss /\ ss = rr + 1 /\ 1 \in 1..(g + l) /\ 1 \in 1..g
  BY <1>1, <1>2, <1>3, <1>5
<1>7. s[1 + m] = Head(q)
  BY <1>1, <1>2, <1>5, <1>6
<1>8. ASSUME NEW k \in 1..rr
      PROVE  r[k] = IF k < m + 1 THEN s[k] ELSE s[k + 1]
  <2>1. CASE k < m + 1
    <3>1. k \in 1..m
      BY <1>5, <2>1
    <3> QED
      BY <1>5, <2>1, <3>1
  <2>2. CASE ~(k < m + 1)
    <3>1. /\ k - m \in 1..(n + l) /\ (k - m) + m = k
          /\ (k - m) + 1 \in 1..(g + l) /\ ((k - m) + 1) + m = k + 1
      BY <1>1, <1>2, <1>3, <1>5, <2>2
    <3>2. r[k] = v[k - m] /\ s[k + 1] = w[(k - m) + 1]
      BY <1>5, <3>1
    <3> QED
      BY <1>4, <2>2, <3>1, <3>2
  <2> QED
    BY <2>1, <2>2
<1>9. 1 + m = m + 1
  BY <1>5
<1> QED
  BY <1>6, <1>7, <1>8, <1>9 DEF Removed, r, s, v, w, t, m, rr, ss

\* Execute issues or discards the head of its input.
LEMMA IssuePath ==
    ASSUME TypeOK, DiscardInput \/ IssueInst
    PROVE  /\ Undecoded' = Undecoded /\ SameLines
           /\ IssueInst => Decoded' = Decoded
           /\ DiscardInput => \E p \in 1..Len(Decoded) :
                /\ Removed(Decoded', Decoded, p)
                /\ Decoded[p] = Head(buf["execute"].queue)
<1> DEFINE q == buf["execute"].queue
           l == buf["execute"].latch
           d == Into("dummy")
<1>1. fetches' = fetches /\ (DiscardInput => inFlight' = inFlight)
      /\ (IssueInst => inFlight' = Append(inFlight, Head(q)))
  BY Zenon DEF DiscardInput, IssueInst, fetchVars, executeVars
<1>2. /\ buf'["fetch2"] = buf["fetch2"] /\ buf'["decode"] = buf["decode"]
      /\ buf'["dummy"] = buf["dummy"] /\ q # <<>> /\ q \in Seq(Insts)
      /\ buf'["execute"].queue = Tail(q) /\ buf'["execute"].latch = l
  BY TakeInput, BufferTypes DEF IsBuffer
<1>3. Undecoded' = Undecoded /\ SameLines
  BY <1>1, <1>2, SameBuffers
<1>4. l \in Seq(Insts) /\ d \in Seq(Insts) /\ inFlight \in Seq(Insts)
  BY BufferTypes
<1>5. Decoded = inFlight \o ((q \o l) \o d) /\ Decoded' = inFlight' \o ((Tail(q) \o l) \o d)
  BY <1>2 DEF Decoded, Into
<1> HIDE DEF q, l, d
<1>6. Head(q) \in Insts /\ Tail(q) \in Seq(Insts) /\ l \o d \in Seq(Insts) /\ q = <<Head(q)>> \o Tail(q)
  BY <1>2, <1>4
<1>7. (q \o l) \o d = q \o (l \o d) /\ (Tail(q) \o l) \o d = Tail(q) \o (l \o d)
  <2>1. q \in Seq(Insts) /\ Tail(q) \in Seq(Insts) /\ l \in Seq(Insts) /\ d \in Seq(Insts)
    BY <1>2, <1>4, <1>6
  <2> QED
    BY <2>1, JoinedAssociative
<1>8. ASSUME IssueInst PROVE Decoded' = Decoded
  <2> DEFINE z == l \o d
             t == Tail(q)
             h == Head(q)
  <2>1. h \in Insts /\ t \in Seq(Insts) /\ z \in Seq(Insts) /\ q = <<h>> \o t
    BY <1>6
  <2>2. Decoded = inFlight \o (q \o z) /\ Decoded' = Append(inFlight, h) \o (t \o z)
    BY <1>1, <1>5, <1>7, <1>8
  <2> HIDE DEF z, t, h
  <2>3. Append(inFlight, h) = inFlight \o <<h>>
    BY <1>4, <2>1
  <2>4. (inFlight \o <<h>>) \o (t \o z) = inFlight \o ((<<h>> \o t) \o z)
    <3>1. /\ inFlight \in Seq(Insts) /\ <<h>> \in Seq(Insts) /\ t \o z \in Seq(Insts)
          /\ t \in Seq(Insts) /\ z \in Seq(Insts)
      BY <1>4, <2>1
    <3>2. (inFlight \o <<h>>) \o (t \o z) = inFlight \o (<<h>> \o (t \o z))
      BY <3>1, JoinedAssociative
    <3>3. <<h>> \o (t \o z) = (<<h>> \o t) \o z
      BY <3>1, JoinedAssociative
    <3> QED
      BY <3>2, <3>3
  <2> QED
    BY <2>1, <2>2, <2>3, <2>4
<1>9. ASSUME DiscardInput PROVE \E p \in 1..Len(Decoded) : Removed(Decoded', Decoded, p) /\ Decoded[p] = Head(q)
  <2>1. /\ Removed(Decoded', Decoded, Len(inFlight) + 1)
        /\ Decoded[Len(inFlight) + 1] = Head(q)
    <3>1. Decoded = inFlight \o (q \o (l \o d)) /\ Decoded' = inFlight \o (Tail(q) \o (l \o d))
      BY <1>1, <1>5, <1>7, <1>9
    <3> DEFINE z == l \o d
    <3>2. inFlight \in Seq(Insts) /\ q \in Seq(Insts) /\ q # <<>> /\ z \in Seq(Insts)
      BY <1>2, <1>4, <1>6
    <3> HIDE DEF z
    <3>3. /\ Removed(inFlight \o (Tail(q) \o z), inFlight \o (q \o z), Len(inFlight) + 1)
          /\ (inFlight \o (q \o z))[Len(inFlight) + 1] = Head(q)
      BY <3>2, RemovedFromMiddle
    <3> QED
      BY <3>1, <3>3 DEF z
  <2> QED
    BY <2>1 DEF Removed
<1> QED
  BY <1>3, <1>8, <1>9 DEF q
\* An instruction leaves inFlightInsts.
LEMMA CompletePath ==
    ASSUME TypeOK, DiscardInst \/ CommitInst
    PROVE  /\ Undecoded' = Undecoded /\ SameLines
           /\ Removed(Decoded', Decoded, 1)
           /\ Decoded[1] = Head(inFlight)
<1>1. buf' = buf /\ fetches' = fetches /\ inFlight # <<>> /\ inFlight' = Tail(inFlight)
  <2>1. CASE DiscardInst
    BY <2>1, Zenon DEF DiscardInst, CanCommit, Complete, fetchVars
  <2>2. CASE CommitInst
    BY <2>2, Zenon DEF CommitInst, CanCommit, Complete, fetchVars
  <2> QED
    BY <2>1, <2>2
<1>2. Undecoded' = Undecoded /\ SameLines
  BY <1>1, SameBuffers
<1> DEFINE z == Into("execute") \o Into("dummy")
<1>3. Decoded = inFlight \o z /\ Decoded' = Tail(inFlight) \o z
  BY <1>1 DEF Decoded, Into
<1>4. inFlight \in Seq(Insts) /\ z \in Seq(Insts)
  <2>1. /\ Into("execute") \in Seq(Insts) /\ Into("dummy") \in Seq(Insts)
        /\ inFlight \in Seq(Insts)
    BY BufferTypes
  <2> QED
    BY <2>1
<1> HIDE DEF z
<1>5. /\ <<>> \in Seq(Insts) /\ Len(<<>>) + 1 = 1
      /\ <<>> \o (inFlight \o z) = Decoded /\ <<>> \o (Tail(inFlight) \o z) = Decoded'
  BY <1>1, <1>3, <1>4
<1>6. /\ Removed(<<>> \o (Tail(inFlight) \o z), <<>> \o (inFlight \o z), Len(<<>>) + 1)
      /\ (<<>> \o (inFlight \o z))[Len(<<>>) + 1] = Head(inFlight)
  <2>1. <<>> \in Seq(Insts)
    BY <1>5
  <2> QED
    BY <1>1, <1>4, <2>1, RemovedFromMiddle
<1>7. Removed(Decoded', Decoded, 1) /\ Decoded[1] = Head(inFlight)
  BY <1>5, <1>6
<1> QED
  BY <1>2, <1>7

\* Dummy passes an instruction on.
LEMMA DummyPath ==
    ASSUME TypeOK, CreditInv, Dummy
    PROVE  SameOps /\ SameLines
<1>1. fetches' = fetches /\ inFlight' = inFlight /\ phase = "dummy"
  BY Zenon DEF Dummy, fetchVars, executeVars
<1>2. buf["execute"].latch = <<>>
  BY <1>1 DEF CreditInv, LatchesEmpty
<1>3. buf'["fetch2"] = buf["fetch2"] /\ buf'["decode"] = buf["decode"]
  BY DummyMoves, BufferTypes
<1>4. Undecoded' = Undecoded /\ SameLines
  BY <1>1, <1>3, SameBuffers
<1> DEFINE e == buf["execute"].queue
           q == Into("dummy")
           x == buf'["execute"]
           y == buf'["dummy"]
<1>5. e \in Seq(Insts) /\ q \in Seq(Insts) /\ inFlight \in Seq(Insts)
  BY BufferTypes
<1>6. \/ x.queue = e /\ x.latch = <<>> /\ y.queue = q /\ y.latch = <<>>
      \/ q # <<>> /\ x.queue = e /\ x.latch = <<Head(q)>> /\ y.queue = Tail(q) /\ y.latch = <<>>
  BY <1>2, DummyMoves DEF IsBuffer
<1>7. /\ Decoded = inFlight \o ((e \o <<>>) \o q)
      /\ Decoded' = inFlight \o ((x.queue \o x.latch) \o (y.queue \o y.latch))
  <2>1. Into("execute") = e \o <<>>
    BY <1>2 DEF Into
  <2>2. Decoded = inFlight \o (Into("execute") \o q)
    BY DEF Decoded
  <2>3. Decoded' = inFlight \o ((x.queue \o x.latch) \o (y.queue \o y.latch))
    BY <1>1 DEF Decoded, Into
  <2> QED
    BY <2>1, <2>2, <2>3
<1> HIDE DEF e, q, x, y
<1>8. e \o <<>> = e /\ q \o <<>> = q
  BY <1>5
<1>9. CASE x.queue = e /\ x.latch = <<>> /\ y.queue = q /\ y.latch = <<>>
  BY <1>4, <1>7, <1>8, <1>9 DEF SameOps
<1>10. CASE q # <<>> /\ x.queue = e /\ x.latch = <<Head(q)>> /\ y.queue = Tail(q) /\ y.latch = <<>>
  <2> DEFINE h == <<Head(q)>>
             t == Tail(q)
  <2>1. h \in Seq(Insts) /\ t \in Seq(Insts) /\ t \o <<>> = t /\ h \o t = q
    BY <1>5, <1>10
  <2> HIDE DEF h, t
  <2>2. (e \o h) \o t = e \o (h \o t)
    <3>1. e \in Seq(Insts) /\ h \in Seq(Insts) /\ t \in Seq(Insts)
      BY <1>5, <2>1
    <3> QED
      BY <3>1, JoinedAssociative
  <2>3. Decoded' = inFlight \o ((e \o h) \o (t \o <<>>))
    BY <1>7, <1>10 DEF h, t
  <2> QED
    BY <1>4, <1>7, <1>8, <2>1, <2>2, <2>3 DEF SameOps
<1> QED
  BY <1>6, <1>9, <1>10

\* Decode emits a micro-op.
LEMMA DecodePath ==
    ASSUME TypeOK, CreditInv, Decode
    PROVE  LET op == Microop(Head(Undecoded))
           IN  /\ SameLines
               /\ \/ SameOps /\ microop' = microop
                  \/ /\ Undecoded # <<>> /\ op \in Insts
                     /\ Decoded' = Append(Decoded, op)
                     /\ Undecoded' = IF LastOp(op) THEN Tail(Undecoded) ELSE Undecoded
                     /\ microop' = IF LastOp(op) THEN 0 ELSE microop + 1
<1>1. fetches' = fetches /\ inFlight' = inFlight /\ phase = "decode"
  BY Zenon DEF Decode, executeVars
<1>2. buf["dummy"].latch = <<>>
  BY <1>1 DEF CreditInv, LatchesEmpty
<1>3. buf'["fetch2"] = buf["fetch2"] /\ buf'["execute"] = buf["execute"]
  BY DecodeMoves, BufferTypes
<1>4. SameLines
  BY <1>1, <1>3, SameBuffers
<1> DEFINE q == Undecoded
           op == Microop(Head(q))
           d == buf["dummy"].queue
           x == buf'["dummy"]
           y == buf'["decode"]
           e == Into("execute")
<1>5. d \in Seq(Insts) /\ e \in Seq(Insts) /\ inFlight \in Seq(Insts) /\ q \in Seq(Insts)
  BY BufferTypes DEF Undecoded
<1>6. \/ /\ x = buf["dummy"]
         /\ y.latch = <<>> /\ y.queue = q /\ microop' = microop
      \/ /\ q # <<>> /\ op \in Insts
         /\ x.latch = <<op>> /\ x.queue = d
         /\ y.latch = <<>> /\ y.queue = IF LastOp(op) THEN Tail(q) ELSE q
         /\ microop' = IF LastOp(op) THEN 0 ELSE microop + 1
  BY DecodeMoves DEF IsBuffer, Undecoded
<1>7. /\ Decoded = inFlight \o (e \o (d \o <<>>))
      /\ Decoded' = inFlight \o (e \o (x.queue \o x.latch))
      /\ Undecoded' = y.queue \o y.latch
  BY <1>1, <1>2, <1>3 DEF Decoded, Undecoded, Into
<1> HIDE DEF q, op, d, x, y, e
<1>8. d \o <<>> = d /\ q \o <<>> = q
  BY <1>5
<1>9. CASE /\ x = buf["dummy"]
           /\ y.latch = <<>> /\ y.queue = q /\ microop' = microop
  BY <1>1, <1>2, <1>4, <1>7, <1>8, <1>9 DEF SameOps, q, d
<1>10. CASE /\ q # <<>> /\ op \in Insts
            /\ x.latch = <<op>> /\ x.queue = d
            /\ y.latch = <<>> /\ y.queue = IF LastOp(op) THEN Tail(q) ELSE q
            /\ microop' = IF LastOp(op) THEN 0 ELSE microop + 1
  <2>1. Tail(q) \in Seq(Insts) /\ Tail(q) \o <<>> = Tail(q) /\ <<op>> \in Seq(Insts) /\ e \o d \in Seq(Insts)
    BY <1>5, <1>10
  <2>2. Undecoded' = IF LastOp(op) THEN Tail(q) ELSE q
    BY <1>7, <1>8, <1>10, <2>1
  <2>3. e \o (d \o <<op>>) = (e \o d) \o <<op>>
    BY <1>5, <2>1, JoinedAssociative
  <2>4. inFlight \o ((e \o d) \o <<op>>) = (inFlight \o (e \o d)) \o <<op>>
    <3> DEFINE ed == e \o d
    <3>1. ed \in Seq(Insts)
      BY <2>1
    <3> HIDE DEF ed
    <3>2. inFlight \o (ed \o <<op>>) = (inFlight \o ed) \o <<op>>
      BY <1>5, <2>1, <3>1, JoinedAssociative
    <3> QED
      BY <3>2 DEF ed
  <2>5. Decoded = inFlight \o (e \o d) /\ Decoded \in Seq(Insts)
    <3>1. Decoded = inFlight \o (e \o d) /\ e \o d \in Seq(Insts) /\ inFlight \in Seq(Insts)
      BY <1>5, <1>7, <1>8, <2>1
    <3> QED
      BY <3>1
  <2>6. Decoded' = Decoded \o <<op>>
    BY <1>7, <1>10, <2>3, <2>4, <2>5
  <2>7. Decoded \o <<op>> = Append(Decoded, op)
    BY <1>10, <2>5
  <2> QED
    BY <1>4, <1>10, <2>2, <2>6, <2>7 DEF q, op
<1> QED
  BY <1>6, <1>9, <1>10
LEMMA DroppedJoined ==
    ASSUME NEW S, NEW s \in Seq(S), NEW t \in Seq(S), NEW z \in Seq(S), NEW n, Dropped(t, s, n)
    PROVE  /\ Dropped(t \o z, s \o z, n)
           /\ \A k \in 1..Len(s) : (s \o z)[k] = s[k]
<1> DEFINE v == t \o z
           w == s \o z
           a == Len(s)
           b == Len(t)
           l == Len(z)
<1>1. /\ a \in Nat /\ l \in Nat /\ Len(w) = a + l
      /\ \A k \in 1..a : w[k] = s[k]
      /\ \A k \in 1..l : w[k + a] = z[k]
  BY JoinedElements
<1>2. /\ b \in Nat /\ Len(v) = b + l
      /\ \A k \in 1..b : v[k] = t[k]
      /\ \A k \in 1..l : v[k + b] = z[k]
  BY JoinedElements
<1>3. n \in 0..a /\ a = b + n /\ \A k \in 1..b : t[k] = s[k + n]
  BY DEF Dropped
<1> HIDE DEF v, w, a, b, l
<1>4. n \in 0..(a + l) /\ a + l = (b + l) + n
  BY <1>1, <1>2, <1>3
<1>5. ASSUME NEW k \in 1..(b + l) PROVE v[k] = w[k + n]
  <2>1. CASE k <= b
    <3>1. k \in 1..b /\ k + n \in 1..a
      BY <1>1, <1>2, <1>3, <2>1
    <3> QED
      BY <1>1, <1>2, <1>3, <3>1
  <2>2. CASE ~(k <= b)
    <3>1. k - b \in 1..l /\ (k - b) + b = k /\ (k - b) + a = k + n
      BY <1>1, <1>2, <1>3, <2>2
    <3> QED
      BY <1>1, <1>2, <3>1
  <2> QED
    BY <2>1, <2>2
<1>6. Dropped(v, w, n)
  BY <1>1, <1>2, <1>4, <1>5 DEF Dropped
<1> QED
  BY <1>1, <1>6 DEF v, w, a

\* The whole sequence is dropped; one more element is.
LEMMA DroppedAll ==
    ASSUME NEW S, NEW s \in Seq(S)
    PROVE  Dropped(<<>>, s, Len(s))
<1> DEFINE a == Len(s)
<1>1. a \in Nat /\ Len(<<>>) = 0
  BY ElementTypes
<1> HIDE DEF a
<1>2. a \in 0..a /\ a = 0 + a
  BY <1>1
<1> QED
  BY <1>1, <1>2 DEF Dropped, a

LEMMA DroppedTail ==
    ASSUME NEW S, NEW s \in Seq(S), NEW t \in Seq(S), NEW n, Dropped(t, s, n), t # <<>>
    PROVE  /\ Dropped(Tail(t), s, n + 1)
           /\ n + 1 \in 1..Len(s) /\ Head(t) = s[n + 1]
<1> DEFINE a == Len(s)
           b == Len(t)
           e == Len(Tail(t))
           u == Tail(t)
<1>1. a \in Nat /\ b \in Nat \ {0} /\ e \in Nat /\ Head(t) = t[1]
  BY ElementTypes, TailElements
<1>2. n \in 0..a /\ a = b + n /\ \A k \in 1..b : t[k] = s[k + n]
  BY DEF Dropped
<1>3. b = e + 1 /\ \A k \in 1..e : u[k] = t[k + 1]
  BY TailElements DEF Dropped
<1> HIDE DEF a, b, e, u
<1>4. n + 1 \in 0..a /\ a = e + (n + 1) /\ n + 1 \in 1..a /\ 1 \in 1..b
  BY <1>1, <1>2, <1>3
<1>5. ASSUME NEW k \in 1..e PROVE u[k] = s[k + (n + 1)]
  <2>1. k + 1 \in 1..b /\ (k + 1) + n = k + (n + 1)
    BY <1>1, <1>2, <1>3
  <2> QED
    BY <1>2, <1>3, <2>1
<1>6. t[1] = s[1 + n] /\ 1 + n = n + 1
  BY <1>2, <1>4
<1> QED
  BY <1>1, <1>4, <1>5, <1>6 DEF Dropped, a, e, u

\* Discarding old predictions drops the lines up to the first of another stream or
\* of the newest prediction.
LEMMA LinesLeftPath ==
    ASSUME TypeOK, ~IsStreamChange(eToF1.out)
    PROVE  \E n \in 0..Len(LinesIn) :
             /\ Dropped(LinesLeft, LinesIn, n)
             /\ \A k \in 1..n : OldPrediction(LinesIn[k])
             /\ LinesLeft # <<>> => ~OldPrediction(LinesLeft[1])
             /\ HavePCNow => n = 0
<1> DEFINE q == LinesIn
           t == LinesLeft
           a == Len(q)
<1>1. q \in Seq(Lines) /\ t = WithoutOldPredictions(q) /\ (HavePCNow => t = q) /\ a \in Nat
  <2>1. LinesDelivered.queue = q
    BY DeliveredType, BufKinds DEF LinesDelivered, TypeOK, LinesIn, Into
  <2>2. LinesArrived = q
    BY <2>1 DEF LinesArrived
  <2>3. q \in Seq(Lines)
    BY PathTypes DEF PathTypeOK
  <2> QED
    BY <2>2, <2>3 DEF LinesLeft, HavePCNow
<1>2. CASE t = <<>>
  <2>1. Dropped(t, q, a) /\ \A k \in 1..a : OldPrediction(q[k])
    BY <1>1, <1>2, DroppedAll, WithoutOldPredictionsType
  <2>2. HavePCNow => a = 0
    BY <1>1, <1>2
  <2>3. a \in 0..a
    BY <1>1
  <2> QED
    BY <1>2, <2>1, <2>2, <2>3
<1>3. CASE t # <<>>
  <2>1. PICK n \in 1..a : /\ ~OldPrediction(q[n])
                          /\ \A m \in 1..(n - 1) : OldPrediction(q[m])
                          /\ t = SubSeq(q, n, a)
    BY <1>1, <1>3, WithoutOldPredictionsType
  <2>2. Len(t) = a - n + 1 /\ \A k \in 1..(a - n + 1) : t[k] = q[n + k - 1]
    <3>1. n \in 1..(Len(q) + 1) /\ a \in (n - 1)..Len(q)
      BY <1>1
    <3> QED
      BY <1>1, <2>1, <3>1, SubSeqProperties
  <2>3. n - 1 \in 0..a /\ 1 \in 1..(a - n + 1) /\ a = (a - n + 1) + (n - 1)
    BY <1>1
  <2>4. \A k \in 1..(a - n + 1) : t[k] = q[k + (n - 1)]
    BY <1>1, <2>2
  <2>5. Dropped(t, q, n - 1)
    BY <2>2, <2>3, <2>4 DEF Dropped
  <2>6. t[1] = q[n]
    BY <1>1, <2>2, <2>3
  <2>7. HavePCNow => n - 1 = 0
    BY <1>1, <2>2
  <2> QED
    BY <2>1, <2>3, <2>5, <2>6, <2>7
<1> QED
  BY <1>2, <1>3
\* Fetch2 drops lines of old predictions and makes at most one instruction.
Fetch2Waits(n) ==
    /\ Undecoded' = Undecoded /\ f2ToF1' = f2ToF1
    /\ fetch2' = [fetch2 EXCEPT !.havePC = HavePCNow]
    /\ IsStreamChange(eToF1.out) \/ \A k \in 1..n : OldPrediction(Fetched[k])
    /\ IsStreamChange(eToF1.out) => LinesIn' = <<>>

Fetch2Emits(n, m, l, p) ==
    /\ ~IsStreamChange(eToF1.out)
    /\ n \in 1..m
    /\ l = Fetched[n] /\ l = LinesIn[n] /\ l \in Lines
    /\ ~OldPrediction(l) /\ \A k \in 1..(n - 1) : OldPrediction(Fetched[k])
    /\ HavePCNow => n = 1
    /\ p \in Predictions(l) /\ p \in Branches
    /\ m # n => l.fault \/ p # NoBranch
    /\ Undecoded' = Append(Undecoded, Predicted(l, p))
    /\ f2ToF1' = [f2ToF1 EXCEPT !.in = p]
    /\ fetch2' = [pc |-> IF l.fault THEN PCOf(l) ELSE AfterPC(PCOf(l)),
                  havePC |-> ~l.fault /\ ~(p # NoBranch),
                  lastStream |-> l.stream,
                  expectedStream |-> IF p # NoBranch THEN l.stream ELSE fetch2.expectedStream,
                  pred |-> IF p # NoBranch THEN p.pred ELSE fetch2.pred]

LEMMA Fetch2Path ==
    ASSUME TypeOK, CreditInv, Fetch2
    PROVE  /\ Decoded' = Decoded
           /\ \E m \in 0..Len(LinesIn) :
                /\ Dropped(LinesIn', LinesIn, m) /\ Dropped(Fetched', Fetched, m)
                /\ \/ Fetch2Waits(m)
                   \/ \E n \in 1..m : \E l \in Lines : \E p \in Branches : Fetch2Emits(n, m, l, p)
<1> DEFINE q == LinesIn
           t == LinesLeft
           a == Len(q)
           x == buf'["fetch2"]
           y == buf'["decode"]
           u == buf["decode"].queue
           l == Head(t)
<1>1. fetches' = fetches /\ inFlight' = inFlight /\ phase = "fetch2"
  BY Fetch2Frame DEF executeVars
<1>2. buf["decode"].latch = <<>>
  BY <1>1 DEF CreditInv, LatchesEmpty
<1>3. buf'["dummy"] = buf["dummy"] /\ buf'["execute"] = buf["execute"]
  BY Fetch2Moves, BufferTypes
<1>4. Decoded' = Decoded
  BY <1>1, <1>3, SameBuffers
<1>5. q \in Seq(Lines) /\ t \in Seq(Lines) /\ a \in Nat /\ u \in Seq(Insts) /\ fetches \in Seq(Fetches)
      /\ Undecoded = u
  <2>1. Undecoded = u \o <<>> /\ u \in Seq(Insts) /\ fetches \in Seq(Fetches)
    BY <1>2, BufferTypes DEF Undecoded, Into
  <2>2. q \in Seq(Lines) /\ t \in Seq(Lines)
    BY Fetch2PartTypes, PathTypes DEF PathTypeOK, TypeOK
  <2>3. u \o <<>> = u
    BY <2>1
  <2> QED
    BY <2>1, <2>2, <2>3
<1>6. LinesIn' = x.queue \o x.latch /\ Undecoded' = y.queue \o y.latch
      /\ Fetched' = LinesIn' \o fetches /\ Fetched = q \o fetches
  BY <1>1 DEF LinesIn, Undecoded, Fetched, Into
<1>10. LinesIn' = x.queue \o x.latch
  BY <1>6
<1>11. Undecoded' = y.queue \o y.latch /\ Undecoded = u
  BY <1>5, <1>6
<1>7. ASSUME NEW m, NEW r \in Seq(Lines), LinesIn' = r, Dropped(r, q, m)
      PROVE  /\ m \in 0..a /\ Dropped(LinesIn', q, m) /\ Dropped(Fetched', Fetched, m)
             /\ \A k \in 1..a : Fetched[k] = q[k]
  <2>1. /\ q \in Seq(Lines \cup Fetches) /\ r \in Seq(Lines \cup Fetches)
        /\ fetches \in Seq(Lines \cup Fetches)
    BY <1>5
  <2>2. /\ Dropped(r \o fetches, q \o fetches, m) /\ \A k \in 1..a : (q \o fetches)[k] = q[k]
    <3> HIDE DEF q
    <3> QED
      BY <1>7, <2>1, DroppedJoined DEF a
  <2>3. m \in 0..a
    BY <1>7 DEF Dropped
  <2> QED
    BY <1>6, <1>7, <2>2, <2>3
<1>8. CASE IsStreamChange(eToF1.out)
  <2>1. t = <<>>
    <3>1. LinesArrived = <<>>
      BY <1>8 DEF LinesArrived
    <3>2. <<>> \in Seq(Lines) /\ Len(<<>>) = 0
      OBVIOUS
    <3>3. \A n \in 1..0 : FALSE
      OBVIOUS
    <3> QED
      BY <3>1, <3>2, <3>3, WithoutOldPredictionsType DEF LinesLeft
  <2>2. /\ y = buf["decode"] /\ x.queue = <<>> /\ x.latch = <<>>
        /\ fetch2' = [fetch2 EXCEPT !.havePC = HavePCNow] /\ f2ToF1' = f2ToF1
    BY <2>1, Fetch2Moves DEF IsBuffer
  <2>3. LinesIn' = <<>> /\ Undecoded' = Undecoded
    <3>1. <<>> \o <<>> = <<>>
      OBVIOUS
    <3>2. Undecoded' = Undecoded
      BY <2>2, SameBuffers
    <3> HIDE DEF x
    <3> QED
      BY <1>10, <2>2, <3>1, <3>2
  <2>4. Fetch2Waits(a)
    BY <1>8, <2>2, <2>3 DEF Fetch2Waits
  <2>5. <<>> \in Seq(Lines) /\ Dropped(<<>>, q, a)
    BY <1>5, DroppedAll
  <2> QED
    BY <1>4, <1>7, <2>3, <2>4, <2>5
<1>9. CASE ~IsStreamChange(eToF1.out)
  <2>1. PICK n \in 0..a : /\ Dropped(t, q, n)
                          /\ \A k \in 1..n : OldPrediction(q[k])
                          /\ t # <<>> => ~OldPrediction(t[1])
                          /\ HavePCNow => n = 0
    BY <1>9, LinesLeftPath
  <2>2. \A k \in 1..a : Fetched[k] = q[k]
    <3>1. q \in Seq(Lines \cup Fetches) /\ fetches \in Seq(Lines \cup Fetches)
      BY <1>5
    <3> HIDE DEF q
    <3> QED
      BY <1>6, <3>1, JoinedElements DEF a
  <2>3. \A k \in 1..n : OldPrediction(Fetched[k])
    BY <1>5, <2>1, <2>2
  <2>4. CASE t = <<>> \/ ~CanReserve("decode")
    <3>1. /\ y = buf["decode"] /\ x.queue = t /\ x.latch = <<>>
          /\ fetch2' = [fetch2 EXCEPT !.havePC = HavePCNow] /\ f2ToF1' = f2ToF1
      BY <2>4, Fetch2Moves DEF IsBuffer
    <3>2. LinesIn' = t /\ Undecoded' = Undecoded
      <4>1. t \o <<>> = t
        BY <1>5
      <4> QED
        <5>1. Undecoded' = Undecoded
          BY <3>1, SameBuffers
        <5> HIDE DEF x, t
        <5> QED
          BY <1>10, <3>1, <4>1, <5>1
    <3>3. Fetch2Waits(n)
      BY <1>9, <2>3, <3>1, <3>2 DEF Fetch2Waits
    <3> QED
      BY <1>4, <1>5, <1>7, <2>1, <3>2, <3>3
  <2>5. CASE t # <<>> /\ CanReserve("decode")
    <3>1. PICK p \in Predictions(l) :
             /\ l \in Lines /\ p \in Branches
             /\ f2ToF1' = [f2ToF1 EXCEPT !.in = p]
             /\ y.latch = <<Predicted(l, p)>> /\ y.queue = u
             /\ x.latch = <<>>
             /\ x.queue = IF l.fault \/ p # NoBranch THEN <<>> ELSE Tail(t)
             /\ fetch2' = [pc |-> IF l.fault THEN PCOf(l) ELSE AfterPC(PCOf(l)),
                           havePC |-> ~l.fault /\ ~(p # NoBranch),
                           lastStream |-> l.stream,
                           expectedStream |-> IF p # NoBranch THEN l.stream
                                              ELSE fetch2.expectedStream,
                           pred |-> IF p # NoBranch THEN p.pred ELSE fetch2.pred]
      <4>1. t # <<>> /\ CanReserve("decode")
        BY <2>5
      <4> QED
        BY <4>1, Fetch2Moves, Zenon DEF IsBuffer
    <3>2. Predicted(l, p) \in Insts
      BY <3>1, PredictedType DEF TypeOK
    <3>3. Undecoded' = Append(Undecoded, Predicted(l, p))
      <4> DEFINE i == Predicted(l, p)
      <4>1. u \o <<i>> = Append(u, i)
        BY <1>5, <3>2
      <4> QED
        <5> HIDE DEF u, y, i
        <5>1. y.latch = <<i>> /\ y.queue = u
          BY <3>1 DEF i
        <5>2. Undecoded' = Append(Undecoded, i)
          BY <1>11, <4>1, <5>1
        <5> QED
          BY <5>2 DEF i
    <3>4. /\ Dropped(Tail(t), q, n + 1) /\ n + 1 \in 1..a /\ l = q[n + 1] /\ Tail(t) \in Seq(Lines)
          /\ l = t[1]
      <4>1. q \in Seq(Lines) /\ t \in Seq(Lines) /\ Dropped(t, q, n) /\ t # <<>>
        BY <1>5, <2>1, <2>5
      <4> HIDE DEF q, t
      <4>2. Tail(t) \in Seq(Lines) /\ Head(t) = t[1]
        BY <4>1
      <4> QED
        BY <4>1, <4>2, DroppedTail DEF a
    <3> DEFINE dumps == l.fault \/ p # NoBranch
               m == IF dumps THEN a ELSE n + 1
               r == IF dumps THEN <<>> ELSE Tail(t)
    <3>5. LinesIn' = r /\ r \in Seq(Lines) /\ Dropped(r, q, m) /\ n + 1 \in 1..m
      <4>1. Tail(t) \o <<>> = Tail(t) /\ <<>> \o <<>> = <<>> /\ <<>> \in Seq(Lines)
        BY <3>4
      <4>2. LinesIn' = r
        BY <1>6, <3>1, <4>1
      <4>3. Dropped(<<>>, q, a)
        BY <1>5, DroppedAll
      <4>4. n + 1 \in 1..a /\ n + 1 \in 1..(n + 1)
        BY <3>4
      <4> QED
        BY <3>4, <4>1, <4>2, <4>3, <4>4
    <3>6. m # n + 1 => l.fault \/ p # NoBranch
      OBVIOUS
    <3> HIDE DEF m, r
    <3>7. m \in 0..a /\ Dropped(LinesIn', LinesIn, m) /\ Dropped(Fetched', Fetched, m)
      BY <1>7, <3>5
    <3>8. Fetch2Emits(n + 1, m, l, p)
      <4>1. /\ l = Fetched[n + 1] /\ l = LinesIn[n + 1] /\ l \in Lines
        BY <2>2, <3>1, <3>4
      <4>2. ~OldPrediction(l) /\ \A k \in 1..((n + 1) - 1) : OldPrediction(Fetched[k])
        <5>1. (n + 1) - 1 = n
          OBVIOUS
        <5> QED
          BY <2>1, <2>3, <2>5, <3>4, <5>1
      <4>3. HavePCNow => n + 1 = 1
        BY <2>1
      <4> HIDE DEF l, q, t, a
      <4> QED
        BY <1>9, <3>1, <3>3, <3>5, <3>6, <4>1, <4>2, <4>3, Zenon DEF Fetch2Emits
    <3> QED
      BY <1>4, <3>1, <3>5, <3>7, <3>8
  <2> QED
    BY <2>4, <2>5
<1> QED
  BY <1>8, <1>9
\* t and s hold the same fetches and lines.
SameKeys(t, s) ==
    /\ Len(t) = Len(s)
    /\ \A k \in 1..Len(s) : t[k].pc = s[k].pc /\ t[k].stream = s[k].stream /\ t[k].pred = s[k].pred

LEMMA SameKeysJoined ==
    ASSUME NEW S, NEW a \in Seq(S), NEW s \in Seq(S), NEW t \in Seq(S), SameKeys(t, s)
    PROVE  SameKeys(a \o t, a \o s)
<1> DEFINE v == a \o t
           w == a \o s
           m == Len(a)
           n == Len(s)
<1>1. /\ m \in Nat /\ n \in Nat /\ Len(t) = n
      /\ \A k \in 1..n : t[k].pc = s[k].pc /\ t[k].stream = s[k].stream /\ t[k].pred = s[k].pred
  BY ElementTypes DEF SameKeys
<1>2. /\ Len(v) = m + n
      /\ \A k \in 1..m : v[k] = a[k]
      /\ \A k \in 1..n : v[k + m] = t[k]
  <2>1. /\ Len(v) = m + Len(t)
        /\ \A k \in 1..m : v[k] = a[k]
        /\ \A k \in 1..Len(t) : v[k + m] = t[k]
    BY JoinedElements
  <2> QED
    BY <1>1, <2>1
<1>3. /\ Len(w) = m + n
      /\ \A k \in 1..m : w[k] = a[k]
      /\ \A k \in 1..n : w[k + m] = s[k]
  BY JoinedElements
<1> HIDE DEF v, w, m, n
<1>4. ASSUME NEW k \in 1..(m + n)
      PROVE  v[k].pc = w[k].pc /\ v[k].stream = w[k].stream /\ v[k].pred = w[k].pred
  <2>1. CASE k <= m
    BY <1>1, <1>2, <1>3, <2>1
  <2>2. CASE ~(k <= m)
    <3>1. k - m \in 1..n /\ (k - m) + m = k
      BY <1>1, <2>2
    <3>2. v[k] = t[k - m] /\ w[k] = s[k - m]
      BY <1>2, <1>3, <3>1
    <3> QED
      BY <1>1, <3>1, <3>2
  <2> QED
    BY <2>1, <2>2
<1> QED
  BY <1>2, <1>3, <1>4 DEF SameKeys, v, w

\* The ITLB and the icache move fetches on.
LEMMA ProgressPath ==
    ASSUME TypeOK, Finish \/ RecvTimingResp \/ RecvReqRetry
    PROVE  SameOps /\ LinesIn' = LinesIn /\ SameKeys(Fetched', Fetched)
<1>1. buf' = buf /\ inFlight' = inFlight
  BY Zenon DEF Finish, RecvTimingResp, RecvReqRetry, executeVars
<1>2. SameFetches(fetches, fetches') /\ fetches' \in Seq(Fetches)
  BY FetchesProgress DEF TypeOK
<1>3. SameOps /\ LinesIn' = LinesIn
  BY <1>1 DEF SameOps, Decoded, Undecoded, LinesIn, Into
<1> DEFINE S == Lines \cup Fetches
<1>4. LinesIn \in Seq(S) /\ fetches \in Seq(S) /\ fetches' \in Seq(S)
  <2>1. LinesIn \in Seq(Lines) /\ fetches \in Seq(Fetches)
    BY BufferTypes, PathTypes DEF PathTypeOK
  <2> QED
    BY <1>2, <2>1
<1>5. SameKeys(fetches', fetches)
  BY <1>2 DEF SameKeys, SameFetches
<1> HIDE DEF S
<1>6. SameKeys(LinesIn \o fetches', LinesIn \o fetches)
  BY <1>4, <1>5, SameKeysJoined
<1> QED
  BY <1>3, <1>6 DEF Fetched

\* Fetch1: q are the line fetches after a new one was added and the queues were
\* stepped.
LEMMA Fetch1Path ==
    ASSUME TypeOK, CreditInv, phase = "fetch1", NEW r, QueueStep(WithNew, r), Fetch1Result(r),
           inFlight' = inFlight
    PROVE  LET all == LinesIn \o r.q
               x == Head(r.q)
           IN  /\ SameOps
               /\ all \in Seq(Lines \cup Fetches)
               /\ SameKeys(all, IF Fetching THEN Append(Fetched, NewFetch(Branched)) ELSE Fetched)
               /\ ~Responds(r.q) => LinesIn' = LinesIn /\ Fetched' = all
               /\ Old(r.q) => /\ LinesIn' = LinesIn
                              /\ \E p \in 1..Len(all) : Removed(Fetched', all, p) /\ all[p] = x
               /\ Responds(r.q) /\ ~Old(r.q) =>
                    LinesIn' = Append(LinesIn, LineOf(x)) /\ SameKeys(Fetched', all)
<1> DEFINE S == Lines \cup Fetches
           q == r.q
           x == Head(q)
           l == buf["fetch2"].queue
           y == buf'["fetch2"]
           a == LinesIn
           new == NewFetch(Branched)
<1>1. /\ buf'["decode"] = buf["decode"] /\ buf'["dummy"] = buf["dummy"]
      /\ buf'["execute"] = buf["execute"]
  BY Fetch1Moves, BufferTypes
<1>2. SameOps
  BY <1>1, SameBuffers DEF SameOps
<1>3. /\ l \in Seq(Lines) /\ a = l /\ fetches \in Seq(Fetches) /\ q \in Seq(Fetches) /\ new \in Fetches
  <2>1. buf["fetch2"].latch = <<>> /\ l \in Seq(Lines)
    BY BufferTypes DEF CreditInv, LatchesEmpty
  <2>2. a = l \o <<>>
    BY <2>1 DEF LinesIn, Into
  <2>3. l \o <<>> = l
    BY <2>1
  <2> QED
    BY <2>1, <2>2, <2>3, BufferTypes, Fetch1PartTypes DEF QueueStep, TypeOK
<1>4. a \in Seq(S) /\ fetches \in Seq(S) /\ q \in Seq(S) /\ new \in S /\ WithNew \in Seq(S)
  <2>1. WithNew \in Seq(Fetches)
    BY Fetch1PartTypes DEF TypeOK
  <2> QED
    BY <1>3, <2>1
<1>5. SameKeys(q, WithNew)
  BY DEF QueueStep, SameFetches, SameKeys
<1>6. a \o WithNew = IF Fetching THEN Append(Fetched, new) ELSE Fetched
  <2>1. Fetched = a \o fetches
    BY DEF Fetched
  <2>2. a \o Append(fetches, new) = Append(a \o fetches, new)
    <3> HIDE DEF a, S, new
    <3> QED
      BY <1>4
  <2> QED
    BY <2>1, <2>2 DEF WithNew
<1>7. a \o q \in Seq(S) /\ SameKeys(a \o q, a \o WithNew)
  <2> HIDE DEF a, q, S
  <2> QED
    BY <1>4, <1>5, SameKeysJoined
<1>8. /\ LinesIn' = y.queue \o y.latch /\ Fetched' = LinesIn' \o fetches'
      /\ fetches' = IF Responds(q) THEN Tail(q) ELSE q
  BY DEF LinesIn, Fetched, Into, Fetch1Result
<1>9. ASSUME ~Responds(q) PROVE LinesIn' = a /\ Fetched' = a \o q
  <2>2. y.queue = l /\ y.latch = <<>>
    BY <1>9, Fetch1Moves DEF IsBuffer, CreditInv, LatchesEmpty
  <2>3. l \o <<>> = l
    BY <1>3
  <2>4. LinesIn' = a
    <3> HIDE DEF y, l, a
    <3> QED
      BY <1>3, <1>8, <2>2, <2>3
  <2> QED
    BY <1>8, <1>9, <2>4
<1>10. ASSUME Old(q)
       PROVE  LinesIn' = a /\ \E p \in 1..Len(a \o q) : Removed(Fetched', a \o q, p) /\ (a \o q)[p] = x
  <2>1. y.queue = l /\ y.latch = <<>>
    BY <1>10, Fetch1Moves DEF IsBuffer, CreditInv, LatchesEmpty
  <2>2. l \o <<>> = l
    BY <1>3
  <2>3. LinesIn' = a
    <3> HIDE DEF y, l, a
    <3> QED
      BY <1>3, <1>8, <2>1, <2>2
  <2>4. q # <<>> /\ Fetched' = a \o Tail(q)
    BY <1>8, <1>10, <2>3 DEF Old, Responds
  <2> HIDE DEF a, q, S
  <2>5. <<>> \in Seq(S) /\ q \o <<>> = q /\ Tail(q) \o <<>> = Tail(q)
    BY <1>4, <2>4
  <2>6. /\ Removed(a \o (Tail(q) \o <<>>), a \o (q \o <<>>), Len(a) + 1)
        /\ (a \o (q \o <<>>))[Len(a) + 1] = Head(q)
    <3>1. a \in Seq(S) /\ q \in Seq(S) /\ <<>> \in Seq(S) /\ q # <<>>
      BY <1>4, <2>4, <2>5
    <3> QED
      BY <3>1, RemovedFromMiddle
  <2>7. Removed(Fetched', a \o q, Len(a) + 1) /\ (a \o q)[Len(a) + 1] = x
    BY <2>4, <2>5, <2>6
  <2> QED
    BY <2>3, <2>7 DEF Removed
<1>11. ASSUME Responds(q), ~Old(q)
       PROVE  LinesIn' = Append(a, LineOf(x)) /\ SameKeys(Fetched', a \o q)
  <2>1. y.queue = l /\ y.latch = <<LineOf(x)>> /\ x \in Fetches
    BY <1>11, Fetch1Moves DEF IsBuffer
  <2>2. LineOf(x) \in Lines /\ q # <<>>
    BY <1>11, <2>1, LineOfType DEF Responds
  <2> DEFINE h == LineOf(x)
  <2>3. h.pc = x.pc /\ h.stream = x.stream /\ h.pred = x.pred
    BY DEF LineOf
  <2>4. l \o <<h>> = Append(l, h)
    BY <1>3, <2>2
  <2>5. LinesIn' = Append(a, h) /\ LinesIn' = a \o <<h>>
    <3> HIDE DEF y, l, a, h, x
    <3>1. y.latch = <<h>> /\ y.queue = l
      BY <2>1 DEF h
    <3>2. LinesIn' = l \o <<h>>
      BY <1>8, <3>1
    <3>3. a = l
      BY <1>3
    <3> QED
      BY <2>4, <3>2, <3>3
  <2>6. h \in S /\ <<h>> \in Seq(S) /\ Tail(q) \in Seq(S) /\ <<h>> \o Tail(q) \in Seq(S)
    <3>1. h \in S
      BY <2>2
    <3> HIDE DEF h, q, S
    <3> QED
      BY <1>4, <2>2, <3>1
  <2>7. Fetched' = a \o (<<h>> \o Tail(q))
    <3>1. Fetched' = (a \o <<h>>) \o Tail(q)
      BY <1>8, <1>11, <2>5
    <3> HIDE DEF a, h, q, S
    <3>2. a \in Seq(S) /\ <<h>> \in Seq(S) /\ Tail(q) \in Seq(S)
      BY <1>4, <2>6
    <3>3. (a \o <<h>>) \o Tail(q) = a \o (<<h>> \o Tail(q))
      BY <3>2, JoinedAssociative
    <3> QED
      BY <3>1, <3>3
  <2>8. SameKeys(<<h>> \o Tail(q), q)
    <3> HIDE DEF h, S
    <3> DEFINE t == Tail(q)
               n == Len(q)
               e == Len(t)
               v == <<h>> \o t
    <3>1. /\ x = q[1] /\ n \in Nat \ {0} /\ e \in Nat /\ n = e + 1 /\ \A k \in 1..e : t[k] = q[k + 1]
      BY <1>4, <2>2, TailElements DEF Dropped
    <3>2. /\ Len(v) = 1 + e /\ v[1] = h
          /\ \A k \in 1..e : v[k + 1] = t[k]
      <4>1. Len(<<h>>) = 1 /\ <<h>>[1] = h /\ 1 \in 1..1
        OBVIOUS
      <4>2. /\ Len(v) = Len(<<h>>) + Len(t)
            /\ \A k \in 1..Len(<<h>>) : v[k] = <<h>>[k]
            /\ \A k \in 1..Len(t) : v[k + Len(<<h>>)] = t[k]
        <5>1. <<h>> \in Seq(S) /\ t \in Seq(S)
          BY <2>6
        <5> HIDE DEF t
        <5> QED
          BY <5>1, JoinedElements
      <4> HIDE DEF t, v
      <4> QED
        BY <4>1, <4>2
    <3> HIDE DEF t, n, e, v
    <3>3. ASSUME NEW k \in 1..n
          PROVE  v[k].pc = q[k].pc /\ v[k].stream = q[k].stream /\ v[k].pred = q[k].pred
      <4>1. CASE k = 1
        BY <2>3, <3>1, <3>2, <4>1
      <4>2. CASE k # 1
        <5>1. k - 1 \in 1..e /\ (k - 1) + 1 = k
          BY <3>1, <4>2
        <5>2. v[k] = t[k - 1] /\ q[k] = t[k - 1]
          BY <3>1, <3>2, <5>1
        <5> QED
          BY <5>2
      <4> QED
        BY <4>1, <4>2
    <3>4. Len(v) = n
      BY <3>1, <3>2
    <3>5. SameKeys(v, q)
      BY <3>3, <3>4 DEF SameKeys, n
    <3> QED
      BY <3>5 DEF v, t
  <2>9. SameKeys(a \o (<<h>> \o Tail(q)), a \o q)
    <3> DEFINE v == <<h>> \o Tail(q)
    <3> HIDE DEF v, a, q, S
    <3>1. a \in Seq(S) /\ q \in Seq(S) /\ v \in Seq(S) /\ SameKeys(v, q)
      BY <1>4, <2>6, <2>8 DEF v
    <3>2. SameKeys(a \o v, a \o q)
      BY <3>1, SameKeysJoined
    <3> QED
      BY <3>2 DEF v
  <2> QED
    BY <2>5, <2>7, <2>9
<1> QED
  BY <1>2, <1>6, <1>7, <1>9, <1>10, <1>11
----------------------------------------------------------------------------
(* Nothing of the current stream. *)

\* Nothing of the current stream has been fetched, and the thread is at the start of
\* an instruction, where Fetch1 is if it is in the stream already.
AtStreamStart ==
    /\ NoneCurrent
    /\ arch.upc = 0
    /\ fetch1.stream = exec.stream /\ fetch1.state = "Running" => fetch1.pc = arch.pc
    /\ \A b \in PendingPredictions : b.reason = "BranchPrediction"

LEMMA YoungestTypes ==
    ASSUME PathTypeOK, NoneCurrent
    PROVE  \A x \in Youngest(Decoded, Undecoded) : x.stream # exec.stream
<1> DEFINE d == Decoded
           u == Undecoded
<1>1. d \in Seq(Insts) /\ u \in Seq(Insts) /\ NoneOf(d, exec.stream) /\ NoneOf(u, exec.stream)
  BY DEF PathTypeOK, NoneCurrent
<1> HIDE DEF d, u
<1>2. /\ d # <<>> => Len(d) \in 1..Len(d)
      /\ u # <<>> => Len(u) \in 1..Len(u)
  BY <1>1, EmptySeq
<1>3. \A x \in Youngest(d, u) : x.stream # exec.stream
  BY <1>1, <1>2 DEF Youngest, NoneOf
<1> QED
  BY <1>3 DEF d, u

LEMMA NothingCurrent ==
    TypeOK /\ AtStreamStart => StreamsOrdered /\ OpsPath /\ LinesPath
<1> SUFFICES ASSUME TypeOK, AtStreamStart
             PROVE  StreamsOrdered /\ OpsPath /\ LinesPath
  OBVIOUS
<1> DEFINE d == Decoded
           u == Undecoded
           f == Fetched
           c == exec.stream
           y == Youngest(d, u)
<1>1. /\ NoneOf(d, c) /\ NoneOf(u, c) /\ NoneOf(f, c)
      /\ fetch2.expectedStream # c /\ fetch2.lastStream # c
      /\ \A b \in PendingPredictions : b.stream # c
  BY DEF AtStreamStart, NoneCurrent
<1>2. d \in Seq(Insts) /\ u \in Seq(Insts) /\ f \in Seq(Lines \cup Fetches) /\ PathTypeOK
  BY PathTypes DEF PathTypeOK
<1>3. \A x \in y : x.stream # c
  BY <1>2, YoungestTypes DEF AtStreamStart
<1>4. /\ Len(d) \in Nat /\ Len(u) \in Nat /\ Len(f) \in Nat
      /\ d # <<>> => Len(d) \in 1..Len(d) /\ 1 \in 1..Len(d)
      /\ u # <<>> => 1 \in 1..Len(u)
      /\ \A k \in 1..(Len(d) - 1) : k \in 1..Len(d) /\ k + 1 \in 1..Len(d)
      /\ \A k \in 1..(Len(u) - 1) : k \in 1..Len(u) /\ k + 1 \in 1..Len(u)
  BY <1>2, EmptySeq
<1>5. StreamsOrdered
  BY <1>1 DEF StreamsOrdered, Ordered, NoneOf, d, u, f, c
<1>6. OpsPath
  <2>1. OpsFollow(d, u, c, arch, microop)
    <3> HIDE DEF d, u, c
    <3> QED
      BY <1>1, <1>4 DEF OpsFollow, Follows, FollowsPC, NoneOf
  <2>2. OpsStart(d, u, c, arch, microop)
    <3> HIDE DEF d, u, c
    <3> QED
      BY <1>1, <1>4 DEF OpsStart, NoneOf, AtStreamStart
  <2> QED
    BY <2>1, <2>2 DEF OpsPath
<1>7. LinesPath
  <2>1. LinesFollow(f, fetch1, y, c, arch, fetch2)
    <3>1. \A k \in 1..Len(f) : ~Live(f[k], c, fetch2)
      BY <1>1 DEF Live, NoneOf
    <3>2. Live(fetch1, c, fetch2) /\ fetch1.state = "Running" => Continues(y, fetch1.pc, c, arch)
      BY <1>3 DEF Live, Continues, AtStreamStart
    <3> HIDE DEF f, y, c
    <3> QED
      BY <3>1, <3>2 DEF LinesFollow
  <2>2. PredictionsFollow(y, c, arch)
    BY <1>1 DEF PredictionsFollow, AtStreamStart
  <2>3. ~(IsStreamChange(f2ToF1.in) /\ f2ToF1.in.stream = exec.stream)
    BY <1>1 DEF PendingPredictions
  <2> QED
    BY <2>1, <2>2, <2>3 DEF LinesPath
<1> QED
  BY <1>5, <1>6, <1>7
----------------------------------------------------------------------------
(* Micro-ops and instructions. *)

Words == [pc : PCs, upc : 0..(MacroLen - 1)]

LEMMA WordAt == \A a \in Words : a.upc = 0 => a = At(a.pc)
BY DEF Words, At

\* Only work of old streams is in front of work of an old stream.
LEMMA OldBefore ==
    ASSUME NEW s, NEW c, Ordered(s, c), NEW p \in 1..Len(s), s[p].stream # c
    PROVE  \A k \in 1..Len(s) : k < p => s[k].stream # c
BY DEF Ordered

\* Something of an old stream is removed.
LEMMA RemovedOps ==
    ASSUME NEW d \in Seq(Insts), NEW t \in Seq(Insts), NEW u \in Seq(Insts),
           NEW p, Removed(t, d, p), NEW c, d[p].stream # c, Ordered(d, c),
           NEW a \in Words, NEW m, OpsFollow(d, u, c, a, m), OpsStart(d, u, c, a, m)
    PROVE  OpsFollow(t, u, c, a, m) /\ OpsStart(t, u, c, a, m)
<1> DEFINE n == Len(d)
           l == Len(t)
           w == Len(u)
<1>1. /\ n \in Nat /\ l \in Nat /\ w \in Nat /\ p \in 1..n /\ n = l + 1
      /\ \A k \in 1..l : t[k] = IF k < p THEN d[k] ELSE d[k + 1]
  BY ElementTypes DEF Removed
<1>13. (d = <<>> <=> n = 0) /\ (t = <<>> <=> l = 0) /\ (u = <<>> <=> w = 0)
  BY ElementTypes
<1>2. \A k \in 1..n : k < p => d[k].stream # c
  BY OldBefore DEF Removed
<1>3. /\ \A k \in 1..(n - 1) : Follows(d[k], d[k + 1], Place(d[k + 1]), c, a)
      /\ d # <<>> /\ u # <<>> => Follows(d[n], u[1], FirstPlace(u[1], m), c, a)
      /\ d # <<>> /\ u = <<>> /\ d[n].stream = c => LastOp(d[n])
      /\ \A k \in 1..(w - 1) : FollowsPC(u[k], u[k + 1], c, a)
  BY DEF OpsFollow
<1>4. a.upc = 0
  <2>1. d # <<>> /\ d[1].stream # c
    BY <1>1, <1>13, <1>2
  <2> QED
    BY <2>1 DEF OpsStart
<1>5. a = At(a.pc)
  BY <1>4, WordAt
<1> HIDE DEF n, l, w
<1>6. ASSUME NEW k \in 1..(l - 1)
      PROVE  Follows(t[k], t[k + 1], Place(t[k + 1]), c, a)
  <2>1. k \in 1..(n - 1) /\ k + 1 \in 1..(n - 1) /\ k + 1 \in 1..l /\ k \in 1..l
    BY <1>1
  <2>2. CASE k + 1 < p
    <3>1. t[k] = d[k] /\ t[k + 1] = d[k + 1]
      BY <1>1, <2>1, <2>2
    <3> QED
      BY <1>3, <2>1, <3>1
  <2>3. CASE k + 1 = p
    <3>1. t[k] = d[k] /\ t[k + 1] = d[p + 1] /\ d[k].stream # c
      BY <1>1, <1>2, <2>1, <2>3
    <3>2. Follows(d[p], d[p + 1], Place(d[p + 1]), c, a)
      BY <1>3, <2>1, <2>3
    <3> QED
      BY <3>1, <3>2 DEF Follows
  <2>4. CASE k + 1 > p
    <3>1. t[k] = d[k + 1] /\ t[k + 1] = d[(k + 1) + 1]
      <4>1. ~(k < p) /\ ~(k + 1 < p)
        BY <1>1, <2>4
      <4> QED
        BY <1>1, <2>1, <4>1
    <3> QED
      BY <1>3, <2>1, <3>1
  <2> QED
    BY <1>1, <2>2, <2>3, <2>4
<1>7. ASSUME t # <<>> PROVE /\ p < n => t[l] = d[n]
                            /\ p = n => t[l].stream # c
  BY <1>1, <1>13, <1>2, <1>7
<1>8. ASSUME t # <<>>, u # <<>> PROVE Follows(t[l], u[1], FirstPlace(u[1], m), c, a)
  <2>1. Follows(d[n], u[1], FirstPlace(u[1], m), c, a)
    BY <1>1, <1>13, <1>3, <1>8
  <2>2. CASE p < n
    BY <1>7, <1>8, <2>1, <2>2
  <2>3. CASE p = n
    BY <1>7, <1>8, <2>1, <2>3 DEF Follows
  <2> QED
    BY <1>1, <2>2, <2>3
<1>9. ASSUME t # <<>>, u = <<>>, t[l].stream = c PROVE LastOp(t[l])
  <2>1. p < n \/ p = n
    BY <1>1
  <2>2. t[l] = d[n] /\ d # <<>>
    BY <1>1, <1>13, <1>7, <1>9, <2>1
  <2> QED
    BY <1>3, <1>9, <2>2
<1>10. OpsFollow(t, u, c, a, m)
  BY <1>3, <1>6, <1>8, <1>9 DEF OpsFollow, l, w
<1>11. ASSUME t # <<>>, t[1].stream = c PROVE Place(t[1]) = a
  <2>1. p = 1 /\ t[1] = d[1 + 1] /\ 1 \in 1..(n - 1)
    BY <1>1, <1>13, <1>2, <1>11
  <2>2. Follows(d[1], d[1 + 1], Place(d[1 + 1]), c, a)
    BY <1>3, <2>1
  <2> QED
    BY <1>5, <1>11, <2>1, <2>2 DEF Follows
<1>12. ASSUME t = <<>>, u # <<>>, u[1].stream = c PROVE FirstPlace(u[1], m) = a
  <2>1. n = 1 /\ p = n /\ d # <<>>
    BY <1>1, <1>13, <1>12
  <2>2. Follows(d[n], u[1], FirstPlace(u[1], m), c, a)
    BY <1>3, <1>12, <2>1
  <2> QED
    BY <1>5, <1>12, <2>1, <2>2 DEF Follows
<1> QED
  BY <1>4, <1>10, <1>11, <1>12 DEF OpsStart

\* The oldest micro-op commits, and the thread's PC is what was predicted to follow.
LEMMA CommittedOps ==
    ASSUME NEW d \in Seq(Insts), NEW t \in Seq(Insts), NEW u \in Seq(Insts),
           Removed(t, d, 1), NEW c, AllOf(d, c), AllOf(u, c), ~d[1].fault,
           NEW a, NEW b, b = NextPlace(d[1]), NEW m, OpsFollow(d, u, c, a, m)
    PROVE  OpsFollow(t, u, c, b, m) /\ OpsStart(t, u, c, b, m)
<1> DEFINE n == Len(d)
           l == Len(t)
           w == Len(u)
<1>1. /\ n \in Nat /\ l \in Nat /\ w \in Nat /\ n = l + 1
      /\ \A k \in 1..l : t[k] = d[k + 1]
      /\ \A k \in 1..n : d[k].stream = c
      /\ \A k \in 1..w : u[k].stream = c
  BY ElementTypes DEF Removed, AllOf
<1>2. (d = <<>> <=> n = 0) /\ (t = <<>> <=> l = 0) /\ (u = <<>> <=> w = 0)
  BY ElementTypes
<1>3. /\ \A k \in 1..(n - 1) : Follows(d[k], d[k + 1], Place(d[k + 1]), c, a)
      /\ d # <<>> /\ u # <<>> => Follows(d[n], u[1], FirstPlace(u[1], m), c, a)
      /\ d # <<>> /\ u = <<>> /\ d[n].stream = c => LastOp(d[n])
      /\ \A k \in 1..(w - 1) : FollowsPC(u[k], u[k + 1], c, a)
  BY DEF OpsFollow
<1> HIDE DEF n, l, w
<1>4. ASSUME NEW x, NEW y, NEW q, x.stream = c, Follows(x, y, q, c, a)
      PROVE  Follows(x, y, q, c, b)
  BY <1>4 DEF Follows
<1>5. ASSUME NEW x, NEW y, x.stream = c, FollowsPC(x, y, c, a)
      PROVE  FollowsPC(x, y, c, b)
  BY <1>5 DEF FollowsPC
<1>6. ASSUME NEW k \in 1..(l - 1) PROVE Follows(t[k], t[k + 1], Place(t[k + 1]), c, b)
  <2>1. /\ k + 1 \in 1..(n - 1) /\ k + 1 \in 1..n /\ t[k] = d[k + 1] /\ t[k + 1] = d[(k + 1) + 1]
    <3>1. k + 1 \in 1..(n - 1) /\ k + 1 \in 1..n /\ k \in 1..l /\ k + 1 \in 1..l
      BY <1>1
    <3> QED
      BY <1>1, <3>1
  <2>2. d[k + 1].stream = c /\ Follows(d[k + 1], d[(k + 1) + 1], Place(d[(k + 1) + 1]), c, a)
    BY <1>1, <1>3, <2>1
  <2>3. Follows(d[k + 1], d[(k + 1) + 1], Place(d[(k + 1) + 1]), c, b)
    BY <1>4, <2>2
  <2> QED
    BY <2>1, <2>3
<1>7. t # <<>> => t[l] = d[n] /\ d[n].stream = c
  BY <1>1, <1>2
<1>8. t # <<>> /\ u # <<>> => Follows(t[l], u[1], FirstPlace(u[1], m), c, b)
  BY <1>1, <1>2, <1>3, <1>4, <1>7
<1>9. t # <<>> /\ u = <<>> /\ t[l].stream = c => LastOp(t[l])
  BY <1>1, <1>2, <1>3, <1>7
<1>10. ASSUME NEW k \in 1..(w - 1) PROVE FollowsPC(u[k], u[k + 1], c, b)
  <2>1. k \in 1..w
    BY <1>1
  <2>2. u[k].stream = c /\ FollowsPC(u[k], u[k + 1], c, a)
    BY <1>1, <1>3, <2>1
  <2> QED
    BY <1>5, <2>2
<1>11. OpsFollow(t, u, c, b, m)
  BY <1>6, <1>8, <1>9, <1>10 DEF OpsFollow, l, w
<1>12. t # <<>> => t[1].stream = c /\ Place(t[1]) = b
  <2> SUFFICES ASSUME t # <<>> PROVE t[1].stream = c /\ Place(t[1]) = b
    OBVIOUS
  <2>1. 1 \in 1..(n - 1) /\ 1 \in 1..n /\ 1 + 1 \in 1..n /\ t[1] = d[1 + 1]
    BY <1>1, <1>2
  <2>2. d[1].stream = c /\ d[1 + 1].stream = c /\ Follows(d[1], d[1 + 1], Place(d[1 + 1]), c, a)
    BY <1>1, <1>3, <2>1
  <2> QED
    BY <2>1, <2>2 DEF Follows
<1>13. t = <<>> /\ u # <<>> => u[1].stream = c /\ FirstPlace(u[1], m) = b
  <2> SUFFICES ASSUME t = <<>>, u # <<>> PROVE u[1].stream = c /\ FirstPlace(u[1], m) = b
    OBVIOUS
  <2>1. n = 1 /\ d # <<>> /\ d[1].stream = c /\ u[1].stream = c
    BY <1>1, <1>2
  <2>2. Follows(d[1], u[1], FirstPlace(u[1], m), c, a)
    BY <1>3, <2>1
  <2> QED
    BY <2>1, <2>2 DEF Follows
<1>14. t = <<>> /\ u = <<>> => b.upc = 0
  <2> SUFFICES ASSUME t = <<>>, u = <<>> PROVE b.upc = 0
    OBVIOUS
  <2>1. n = 1 /\ d # <<>> /\ d[1].stream = c
    BY <1>1, <1>2
  <2>2. LastOp(d[1])
    BY <1>3, <2>1
  <2> QED
    BY <2>2 DEF NextPlace, At
<1> QED
  BY <1>11, <1>12, <1>13, <1>14 DEF OpsStart
\* op is the micro-op at m of instruction x.
IsMicroop(op, x, m) ==
    /\ op.pc = x.pc /\ op.upc = m /\ op.stream = x.stream /\ op.fault = x.fault
    /\ LastOp(op) => NextPC(op) = NextPC(x)

\* Decode emits micro-op op: the last one of its instruction, or another.
LEMMA DecodedOps ==
    ASSUME NEW d \in Seq(Insts), NEW u \in Seq(Insts), u # <<>>, NEW op \in Insts,
           NEW c, NEW a, NEW m \in Nat, IsMicroop(op, u[1], m),
           OpsFollow(d, u, c, a, m), OpsStart(d, u, c, a, m),
           NEW t \in Seq(Insts), Dropped(t, u, 1)
    PROVE  LET e == Append(d, op)
           IN  /\ LastOp(op) => OpsFollow(e, t, c, a, 0) /\ OpsStart(e, t, c, a, 0)
               /\ ~LastOp(op) => OpsFollow(e, u, c, a, m + 1) /\ OpsStart(e, u, c, a, m + 1)
<1> DEFINE e == Append(d, op)
           n == Len(d)
           w == Len(u)
           v == Len(t)
<1>1. /\ n \in Nat /\ w \in Nat /\ v \in Nat /\ w = v + 1 /\ \A k \in 1..v : t[k] = u[k + 1]
  BY ElementTypes DEF Dropped
<1>2. (d = <<>> <=> n = 0) /\ (t = <<>> <=> v = 0)
  BY ElementTypes
<1>3. e # <<>> /\ Len(e) = n + 1 /\ (\A k \in 1..n : e[k] = d[k]) /\ e[n + 1] = op
  BY AppendElements
<1>4. /\ \A k \in 1..(n - 1) : Follows(d[k], d[k + 1], Place(d[k + 1]), c, a)
      /\ d # <<>> => Follows(d[n], u[1], FirstPlace(u[1], m), c, a)
      /\ \A k \in 1..(w - 1) : FollowsPC(u[k], u[k + 1], c, a)
  BY DEF OpsFollow
<1>5. Place(op) = FirstPlace(u[1], m) /\ op.stream = u[1].stream /\ op.fault = u[1].fault
  BY DEF IsMicroop, Place, FirstPlace
<1> HIDE DEF e, n, w, v
<1>6. ASSUME NEW k \in 1..((n + 1) - 1) PROVE Follows(e[k], e[k + 1], Place(e[k + 1]), c, a)
  <2>1. CASE k = n
    <3>1. e[k] = d[n] /\ e[k + 1] = op /\ d # <<>>
      BY <1>1, <1>2, <1>3, <2>1
    <3> QED
      BY <1>4, <1>5, <3>1 DEF Follows
  <2>2. CASE k # n
    <3>1. k \in 1..(n - 1) /\ k \in 1..n /\ k + 1 \in 1..n
      BY <1>1, <2>2
    <3>2. e[k] = d[k] /\ e[k + 1] = d[k + 1]
      BY <1>3, <3>1
    <3> QED
      BY <1>4, <3>1, <3>2
  <2> QED
    BY <2>1, <2>2
<1>7. IF e[1].stream = c THEN Place(e[1]) = a ELSE a.upc = 0
  <2>1. CASE d = <<>>
    <3>1. e[1] = op
      BY <1>2, <1>3, <2>1
    <3> QED
      BY <1>5, <2>1, <3>1 DEF OpsStart
  <2>2. CASE d # <<>>
    <3>1. e[1] = d[1]
      BY <1>1, <1>2, <1>3, <2>2
    <3> QED
      BY <2>2, <3>1 DEF OpsStart
  <2> QED
    BY <2>1, <2>2
<1>8. \A s, k : OpsStart(e, s, c, a, k)
  BY <1>3, <1>7 DEF OpsStart
<1>9. ASSUME LastOp(op) PROVE OpsFollow(e, t, c, a, 0)
  <2>1. t # <<>> => Follows(op, t[1], FirstPlace(t[1], 0), c, a)
    <3> SUFFICES ASSUME t # <<>> PROVE Follows(op, t[1], FirstPlace(t[1], 0), c, a)
      OBVIOUS
    <3>1. 1 \in 1..(w - 1) /\ t[1] = u[1 + 1]
      BY <1>1, <1>2
    <3>2. FollowsPC(u[1], t[1], c, a)
      BY <1>4, <3>1
    <3>3. NextPlace(op) = At(NextPC(u[1])) /\ FirstPlace(t[1], 0) = At(t[1].pc)
      BY <1>9 DEF NextPlace, IsMicroop, FirstPlace, At
    <3> QED
      BY <1>5, <3>2, <3>3 DEF Follows, FollowsPC
  <2>2. ASSUME NEW k \in 1..(v - 1) PROVE FollowsPC(t[k], t[k + 1], c, a)
    <3>1. k \in 1..v /\ k + 1 \in 1..v /\ k + 1 \in 1..(w - 1)
      BY <1>1
    <3>2. t[k] = u[k + 1] /\ t[k + 1] = u[(k + 1) + 1]
      BY <1>1, <3>1
    <3> QED
      BY <1>4, <3>1, <3>2
  <2> QED
    BY <1>3, <1>6, <1>9, <2>1, <2>2 DEF OpsFollow, v
<1>10. ASSUME ~LastOp(op) PROVE OpsFollow(e, u, c, a, m + 1)
  <2>1. NextPlace(op) = FirstPlace(u[1], m + 1)
    BY <1>10 DEF NextPlace, IsMicroop, FirstPlace
  <2>2. Follows(op, u[1], FirstPlace(u[1], m + 1), c, a)
    BY <1>5, <2>1 DEF Follows
  <2> QED
    BY <1>3, <1>4, <1>6, <2>2 DEF OpsFollow, w
<1> QED
  BY <1>8, <1>9, <1>10 DEF e

\* Fetch2 makes instruction i of a line the path goes on with.
LEMMA FetchedOps ==
    ASSUME NEW d \in Seq(Insts), NEW u \in Seq(Insts), NEW i \in Insts, i.upc = 0,
           NEW c, NEW a \in Words, NEW m, m # 0 => u # <<>>, i.stream = c,
           Continues(Youngest(d, u), i.pc, c, a),
           OpsFollow(d, u, c, a, m), OpsStart(d, u, c, a, m)
    PROVE  OpsFollow(d, Append(u, i), c, a, m) /\ OpsStart(d, Append(u, i), c, a, m)
<1> DEFINE e == Append(u, i)
           n == Len(d)
           w == Len(u)
<1>1. n \in Nat /\ w \in Nat /\ (d = <<>> <=> n = 0) /\ (u = <<>> <=> w = 0)
  BY ElementTypes
<1>2. e # <<>> /\ Len(e) = w + 1 /\ (\A k \in 1..w : e[k] = u[k]) /\ e[w + 1] = i
  BY AppendElements
<1>3. /\ \A k \in 1..(n - 1) : Follows(d[k], d[k + 1], Place(d[k + 1]), c, a)
      /\ d # <<>> /\ u # <<>> => Follows(d[n], u[1], FirstPlace(u[1], m), c, a)
      /\ d # <<>> /\ u = <<>> /\ d[n].stream = c => LastOp(d[n])
      /\ \A k \in 1..(w - 1) : FollowsPC(u[k], u[k + 1], c, a)
  BY DEF OpsFollow
<1>4. /\ u # <<>> => Youngest(d, u) = {u[w]}
      /\ u = <<>> /\ d # <<>> => Youngest(d, u) = {d[n]}
      /\ u = <<>> /\ d = <<>> => Youngest(d, u) = {}
  BY DEF Youngest
<1> HIDE DEF e, n, w
<1>5. ASSUME NEW k \in 1..((w + 1) - 1) PROVE FollowsPC(e[k], e[k + 1], c, a)
  <2>1. CASE k = w
    <3>1. e[k] = u[w] /\ e[k + 1] = i /\ u # <<>>
      BY <1>1, <1>2, <2>1
    <3> QED
      BY <1>4, <3>1 DEF FollowsPC, Continues
  <2>2. CASE k # w
    <3>1. k \in 1..(w - 1) /\ k \in 1..w /\ k + 1 \in 1..w
      BY <1>1, <2>2
    <3>2. e[k] = u[k] /\ e[k + 1] = u[k + 1]
      BY <1>2, <3>1
    <3> QED
      BY <1>3, <3>1, <3>2
  <2> QED
    BY <2>1, <2>2
<1>6. d # <<>> => Follows(d[n], e[1], FirstPlace(e[1], m), c, a)
  <2> SUFFICES ASSUME d # <<>> PROVE Follows(d[n], e[1], FirstPlace(e[1], m), c, a)
    OBVIOUS
  <2>1. CASE u # <<>>
    <3>1. e[1] = u[1]
      BY <1>1, <1>2, <2>1
    <3> QED
      BY <1>3, <2>1, <3>1
  <2>2. CASE u = <<>>
    <3>1. e[1] = i /\ m = 0 /\ FirstPlace(i, 0) = At(i.pc)
      BY <1>1, <1>2, <2>2 DEF FirstPlace, At
    <3>2. d[n].stream = c => d[n].fault \/ i.pc = NextPC(d[n])
      BY <1>4, <2>2 DEF Continues
    <3>3. d[n].stream = c => NextPlace(d[n]) = At(NextPC(d[n]))
      BY <1>3, <2>2 DEF NextPlace
    <3>4. d[n].stream # c => i.pc = a.pc
      BY <1>4, <2>2 DEF Continues
    <3> QED
      BY <3>1, <3>2, <3>3, <3>4 DEF Follows
  <2> QED
    BY <2>1, <2>2
<1>7. OpsFollow(d, e, c, a, m)
  BY <1>2, <1>3, <1>5, <1>6 DEF OpsFollow, n
<1>8. d = <<>> => IF e[1].stream = c THEN FirstPlace(e[1], m) = a ELSE a.upc = 0
  <2> SUFFICES ASSUME d = <<>> PROVE IF e[1].stream = c THEN FirstPlace(e[1], m) = a ELSE a.upc = 0
    OBVIOUS
  <2>1. CASE u # <<>>
    <3>1. e[1] = u[1]
      BY <1>1, <1>2, <2>1
    <3> QED
      BY <2>1, <3>1 DEF OpsStart
  <2>2. CASE u = <<>>
    <3>1. e[1] = i /\ m = 0 /\ FirstPlace(i, 0) = At(i.pc)
      BY <1>1, <1>2, <2>2 DEF FirstPlace, At
    <3>2. i.pc = a.pc /\ a.upc = 0
      BY <1>4, <2>2 DEF Continues, OpsStart
    <3>3. a = At(a.pc)
      BY <3>2, WordAt
    <3> QED
      BY <3>1, <3>2, <3>3
  <2> QED
    BY <2>1, <2>2
<1>9. OpsStart(d, e, c, a, m)
  BY <1>2, <1>8 DEF OpsStart
<1> QED
  BY <1>7, <1>9 DEF e
----------------------------------------------------------------------------
(* Where the path goes on after the youngest instruction. *)

SameEnd(y, a, z, b, c) ==
    \A pc : /\ Continues(y, pc, c, a) <=> Continues(z, pc, c, b)
            /\ ContinuesExactly(y, pc, c, a) <=> ContinuesExactly(z, pc, c, b)

LEMMA SameEndReflexive == \A y, a, c : SameEnd(y, a, y, a, c)
BY DEF SameEnd

LEMMA RemovedEnd ==
    ASSUME NEW d \in Seq(Insts), NEW t \in Seq(Insts), NEW u \in Seq(Insts),
           NEW p, Removed(t, d, p), NEW c, d[p].stream # c, Ordered(d, c), NEW a
    PROVE  SameEnd(Youngest(d, u), a, Youngest(t, u), a, c)
<1> DEFINE n == Len(d)
           l == Len(t)
<1>1. /\ n \in Nat /\ l \in Nat /\ p \in 1..n /\ n = l + 1
      /\ \A k \in 1..l : t[k] = IF k < p THEN d[k] ELSE d[k + 1]
  BY ElementTypes DEF Removed
<1>2. (d = <<>> <=> n = 0) /\ (t = <<>> <=> l = 0)
  BY ElementTypes
<1>3. \A k \in 1..n : k < p => d[k].stream # c
  BY OldBefore DEF Removed
<1>4. CASE u # <<>>
  BY <1>4 DEF Youngest, SameEnd
<1>5. CASE u = <<>>
  <2>1. Youngest(d, u) = {d[n]} /\ Youngest(t, u) = IF t = <<>> THEN {} ELSE {t[l]}
    BY <1>1, <1>2, <1>5 DEF Youngest
  <2> HIDE DEF n, l
  <2>2. CASE p = n
    <3>1. t = <<>> \/ t[l].stream # c
      BY <1>1, <1>2, <1>3, <2>2
    <3>2. (\A x \in Youngest(d, u) : x.stream # c) /\ (\A x \in Youngest(t, u) : x.stream # c)
      BY <2>1, <2>2, <3>1
    <3> QED
      BY <3>2 DEF SameEnd, Continues, ContinuesExactly
  <2>3. CASE p < n
    <3>1. t # <<>> /\ t[l] = d[n]
      BY <1>1, <1>2, <2>3
    <3> QED
      BY <2>1, <3>1 DEF SameEnd
  <2> QED
    BY <1>1, <2>2, <2>3
<1> QED
  BY <1>4, <1>5

LEMMA CommittedEnd ==
    ASSUME NEW d \in Seq(Insts), NEW t \in Seq(Insts), NEW u \in Seq(Insts),
           Removed(t, d, 1), NEW c, AllOf(d, c), AllOf(u, c), ~d[1].fault,
           NEW a, NEW b, b = NextPlace(d[1]), NEW m, OpsFollow(d, u, c, a, m)
    PROVE  SameEnd(Youngest(d, u), a, Youngest(t, u), b, c)
<1> DEFINE n == Len(d)
           l == Len(t)
           w == Len(u)
<1>1. /\ n \in Nat /\ l \in Nat /\ w \in Nat /\ n = l + 1
      /\ \A k \in 1..l : t[k] = d[k + 1]
      /\ \A k \in 1..n : d[k].stream = c
      /\ \A k \in 1..w : u[k].stream = c
  BY ElementTypes DEF Removed, AllOf
<1>2. (d = <<>> <=> n = 0) /\ (t = <<>> <=> l = 0) /\ (u = <<>> <=> w = 0)
  BY ElementTypes
<1>3. d # <<>> /\ u = <<>> /\ d[n].stream = c => LastOp(d[n])
  BY DEF OpsFollow
<1>4. /\ u # <<>> => Youngest(d, u) = {u[w]} /\ Youngest(t, u) = {u[w]}
      /\ u = <<>> => /\ Youngest(d, u) = IF d = <<>> THEN {} ELSE {d[n]}
                     /\ Youngest(t, u) = IF t = <<>> THEN {} ELSE {t[l]}
  BY DEF Youngest
<1> HIDE DEF n, l, w
<1>5. ASSUME NEW x, x.stream = c, Youngest(d, u) = {x}, Youngest(t, u) = {x}
      PROVE  SameEnd(Youngest(d, u), a, Youngest(t, u), b, c)
  BY <1>5 DEF SameEnd, Continues, ContinuesExactly
<1>6. CASE u # <<>>
  <2>1. u[w].stream = c
    BY <1>1, <1>2, <1>6
  <2> QED
    BY <1>4, <1>5, <1>6, <2>1
<1>7. CASE u = <<>> /\ t # <<>>
  <2>1. d # <<>> /\ t[l] = d[n] /\ d[n].stream = c
    BY <1>1, <1>2, <1>7
  <2> QED
    BY <1>4, <1>5, <1>7, <2>1
<1>8. CASE u = <<>> /\ t = <<>>
  <2>1. d # <<>> /\ n = 1 /\ d[1].stream = c
    BY <1>1, <1>2, <1>8
  <2>2. Youngest(d, u) = {d[1]} /\ Youngest(t, u) = {}
    BY <1>4, <1>8, <2>1
  <2>3. b.pc = NextPC(d[1])
    BY <1>3, <1>8, <2>1 DEF NextPlace, At
  <2> QED
    BY <2>1, <2>2, <2>3 DEF SameEnd, Continues, ContinuesExactly
<1> QED
  BY <1>6, <1>7, <1>8

LEMMA DecodedEnd ==
    ASSUME NEW d \in Seq(Insts), NEW u \in Seq(Insts), u # <<>>, NEW op \in Insts,
           NEW c, NEW a, NEW m \in Nat, IsMicroop(op, u[1], m),
           NEW t \in Seq(Insts), Dropped(t, u, 1)
    PROVE  LET e == Append(d, op)
           IN  /\ LastOp(op) => SameEnd(Youngest(d, u), a, Youngest(e, t), a, c)
               /\ SameEnd(Youngest(d, u), a, Youngest(e, u), a, c)
<1> DEFINE e == Append(d, op)
           n == Len(d)
           w == Len(u)
           v == Len(t)
<1>1. /\ n \in Nat /\ w \in Nat /\ v \in Nat /\ w = v + 1 /\ \A k \in 1..v : t[k] = u[k + 1]
  BY ElementTypes DEF Dropped
<1>2. t = <<>> <=> v = 0
  BY ElementTypes
<1>3. e # <<>> /\ Len(e) = n + 1 /\ e[n + 1] = op
  BY AppendElements
<1>4. Youngest(d, u) = {u[w]} /\ Youngest(e, u) = {u[w]}
  BY DEF Youngest
<1>5. Youngest(e, t) = IF t = <<>> THEN {op} ELSE {t[v]}
  <2>1. Youngest(e, t) = IF t = <<>> THEN {e[Len(e)]} ELSE {t[v]}
    <3> HIDE DEF e
    <3> QED
      BY <1>3 DEF Youngest
  <2> HIDE DEF e, v
  <2> QED
    BY <1>3, <2>1
<1> HIDE DEF e, n, w, v
<1>6. ASSUME LastOp(op) PROVE SameEnd(Youngest(d, u), a, Youngest(e, t), a, c)
  <2>1. CASE t = <<>>
    <3>1. w = 1
      BY <1>1, <1>2, <2>1
    <3>2. op.stream = u[1].stream /\ op.fault = u[1].fault /\ NextPC(op) = NextPC(u[1])
      BY <1>6 DEF IsMicroop
    <3> QED
      BY <1>4, <1>5, <2>1, <3>1, <3>2 DEF SameEnd, Continues, ContinuesExactly
  <2>2. CASE t # <<>>
    <3>1. t[v] = u[w]
      BY <1>1, <1>2, <2>2
    <3> QED
      BY <1>4, <1>5, <2>2, <3>1 DEF SameEnd
  <2> QED
    BY <2>1, <2>2
<1> QED
  BY <1>4, <1>6 DEF SameEnd, e
----------------------------------------------------------------------------
(* Lines. *)

LineSeqs == Seq(Lines \cup Fetches)

\* LinesFollow, part by part: a live line is followed by live lines only, up to
\* Fetch1; and each is where the one before it, or the path, goes on.
Linked(f, f1, y, c, a, f2) ==
    LET n == Len(f)
    IN  /\ \A k \in 1..n : Live(f[k], c, f2) => Live(f1, c, f2) /\ f[k].pred = f1.pred
        /\ \A k \in 1..n : Live(f[k], c, f2) /\ (k = 1 \/ ~Live(f[k - 1], c, f2)) =>
             Continues(y, f[k].pc, c, a)
        /\ \A k \in 1..(n - 1) : Live(f[k], c, f2) =>
             Live(f[k + 1], c, f2) /\ f[k + 1].pc = AfterPC(f[k].pc)
        /\ f # <<>> /\ Live(f[n], c, f2) /\ f1.state = "Running" => f1.pc = AfterPC(f[n].pc)
        /\ Live(f1, c, f2) /\ f1.state = "Running" /\ (f # <<>> => ~Live(f[n], c, f2)) =>
             Continues(y, f1.pc, c, a)

LEMMA LinesFollowParts ==
    ASSUME NEW f \in LineSeqs, NEW f1, NEW y, NEW c, NEW a, NEW f2
    PROVE  LinesFollow(f, f1, y, c, a, f2) <=> Linked(f, f1, y, c, a, f2)
<1> DEFINE n == Len(f)
<1>1. n \in Nat /\ (f = <<>> <=> n = 0)
  BY ElementTypes DEF LineSeqs
<1>2. /\ \A k \in 1..n : k < n <=> k \in 1..(n - 1)
      /\ \A k \in 1..(n - 1) : k \in 1..n
      /\ f # <<>> => n \in 1..n
      /\ \A k \in 1..n : k = n => f # <<>>
  <2> HIDE DEF n
  <2> QED
    BY <1>1
<1> HIDE DEF n
<1> QED
  BY <1>2 DEF LinesFollow, Linked, n

\* The same lines.
LEMMA SameLinesFollow ==
    ASSUME NEW f \in LineSeqs, NEW g \in LineSeqs, SameKeys(g, f),
           NEW f1, NEW y, NEW c, NEW a, NEW f2, LinesFollow(f, f1, y, c, a, f2),
           NEW z, NEW b, SameEnd(y, a, z, b, c)
    PROVE  LinesFollow(g, f1, z, c, b, f2)
<1> DEFINE n == Len(f)
<1>1. n \in Nat /\ Len(g) = n /\ (f = <<>> <=> n = 0) /\ (g = <<>> <=> n = 0)
  BY ElementTypes DEF LineSeqs, SameKeys
<1>2. \A k \in 1..n : g[k].pc = f[k].pc /\ g[k].stream = f[k].stream /\ g[k].pred = f[k].pred
  BY DEF SameKeys
<1> HIDE DEF n
<1>3. \A k \in 1..n : Live(g[k], c, f2) <=> Live(f[k], c, f2)
  BY <1>2 DEF Live
<1>4. \A pc : Continues(y, pc, c, a) <=> Continues(z, pc, c, b)
  BY DEF SameEnd
<1>5. /\ \A k \in 1..n : Live(f[k], c, f2) => Live(f1, c, f2) /\ f[k].pred = f1.pred
      /\ \A k \in 1..n : Live(f[k], c, f2) /\ (k = 1 \/ ~Live(f[k - 1], c, f2)) =>
           Continues(y, f[k].pc, c, a)
      /\ \A k \in 1..(n - 1) : Live(f[k], c, f2) =>
           Live(f[k + 1], c, f2) /\ f[k + 1].pc = AfterPC(f[k].pc)
      /\ f # <<>> /\ Live(f[n], c, f2) /\ f1.state = "Running" => f1.pc = AfterPC(f[n].pc)
      /\ Live(f1, c, f2) /\ f1.state = "Running" /\ (f # <<>> => ~Live(f[n], c, f2)) =>
           Continues(y, f1.pc, c, a)
  BY LinesFollowParts DEF Linked, n
<1>6. ASSUME NEW k \in 1..n, Live(g[k], c, f2), k = 1 \/ ~Live(g[k - 1], c, f2)
      PROVE  Continues(z, g[k].pc, c, b)
  <2>1. k # 1 => k - 1 \in 1..n
    BY <1>1
  <2>2. k = 1 \/ ~Live(f[k - 1], c, f2)
    BY <1>3, <1>6, <2>1
  <2>3. Continues(y, f[k].pc, c, a)
    BY <1>3, <1>5, <1>6, <2>2
  <2> QED
    BY <1>2, <1>4, <2>3
<1>7. ASSUME NEW k \in 1..(n - 1), Live(g[k], c, f2)
      PROVE  Live(g[k + 1], c, f2) /\ g[k + 1].pc = AfterPC(g[k].pc)
  <2>1. k \in 1..n /\ k + 1 \in 1..n
    BY <1>1
  <2> QED
    BY <1>2, <1>3, <1>5, <1>7, <2>1
<1>8. g # <<>> => n \in 1..n
  BY <1>1
<1>9. /\ g # <<>> /\ Live(g[n], c, f2) /\ f1.state = "Running" => f1.pc = AfterPC(g[n].pc)
      /\ Live(f1, c, f2) /\ f1.state = "Running" /\ (g # <<>> => ~Live(g[n], c, f2)) =>
           Continues(z, f1.pc, c, b)
  BY <1>1, <1>2, <1>3, <1>4, <1>5, <1>8
<1>10. \A k \in 1..n : Live(g[k], c, f2) => Live(f1, c, f2) /\ g[k].pred = f1.pred
  BY <1>2, <1>3, <1>5
<1>11. Linked(g, f1, z, c, b, f2)
  BY <1>1, <1>6, <1>7, <1>9, <1>10 DEF Linked
<1> QED
  BY <1>11, LinesFollowParts

\* A line that is not live has only such lines in front of it.
LEMMA DeadBefore ==
    ASSUME NEW f \in LineSeqs, NEW f1, NEW y, NEW c, NEW a, NEW f2,
           LinesFollow(f, f1, y, c, a, f2), NEW p \in 1..Len(f), ~Live(f[p], c, f2)
    PROVE  p = 1 \/ ~Live(f[p - 1], c, f2)
<1> DEFINE n == Len(f)
<1>1. n \in Nat
  BY ElementTypes DEF LineSeqs
<1>2. \A k \in 1..(n - 1) : Live(f[k], c, f2) => Live(f[k + 1], c, f2)
  BY LinesFollowParts DEF Linked
<1>3. p \in 1..n
  OBVIOUS
<1> HIDE DEF n
<1>4. p # 1 => p - 1 \in 1..(n - 1) /\ (p - 1) + 1 = p
  BY <1>1, <1>3
<1> QED
  BY <1>2, <1>4

\* Lines that are not live are thrown away: one of them, or some at the front.
LEMMA RemovedLines ==
    ASSUME NEW f \in LineSeqs, NEW g \in LineSeqs, NEW p, Removed(g, f, p),
           NEW f1, NEW y, NEW c, NEW a, NEW f2, LinesFollow(f, f1, y, c, a, f2),
           ~Live(f[p], c, f2)
    PROVE  LinesFollow(g, f1, y, c, a, f2)
<1> DEFINE n == Len(f)
           l == Len(g)
<1>1. /\ n \in Nat /\ l \in Nat /\ n = l + 1 /\ p \in 1..n
      /\ \A k \in 1..l : g[k] = IF k < p THEN f[k] ELSE f[k + 1]
  BY ElementTypes DEF LineSeqs, Removed
<1>2. (f = <<>> <=> n = 0) /\ (g = <<>> <=> l = 0)
  BY ElementTypes DEF LineSeqs
<1>3. p = 1 \/ ~Live(f[p - 1], c, f2)
  BY DeadBefore DEF Removed
<1>4. /\ \A k \in 1..n : Live(f[k], c, f2) => Live(f1, c, f2) /\ f[k].pred = f1.pred
      /\ \A k \in 1..n : Live(f[k], c, f2) /\ (k = 1 \/ ~Live(f[k - 1], c, f2)) =>
           Continues(y, f[k].pc, c, a)
      /\ \A k \in 1..(n - 1) : Live(f[k], c, f2) =>
           Live(f[k + 1], c, f2) /\ f[k + 1].pc = AfterPC(f[k].pc)
      /\ f # <<>> /\ Live(f[n], c, f2) /\ f1.state = "Running" => f1.pc = AfterPC(f[n].pc)
      /\ Live(f1, c, f2) /\ f1.state = "Running" /\ (f # <<>> => ~Live(f[n], c, f2)) =>
           Continues(y, f1.pc, c, a)
  BY LinesFollowParts DEF Linked
<1> HIDE DEF n, l
<1>5. ASSUME NEW k \in 1..l
      PROVE  /\ k < p => g[k] = f[k] /\ k \in 1..n
             /\ k >= p => g[k] = f[k + 1] /\ k + 1 \in 1..n
             /\ k < p \/ k >= p
  BY <1>1
<1>6. ASSUME NEW k \in 1..l, Live(g[k], c, f2)
      PROVE  Live(f1, c, f2) /\ g[k].pred = f1.pred
  BY <1>4, <1>5, <1>6
<1>7. ASSUME NEW k \in 1..l, Live(g[k], c, f2), k = 1 \/ ~Live(g[k - 1], c, f2)
      PROVE  Continues(y, g[k].pc, c, a)
  <2>1. CASE k < p
    <3>1. g[k] = f[k] /\ k \in 1..n /\ (k # 1 => k - 1 \in 1..l /\ k - 1 < p)
      BY <1>1, <1>5, <2>1
    <3>2. k # 1 => g[k - 1] = f[k - 1]
      BY <1>5, <3>1
    <3> QED
      BY <1>4, <1>7, <3>1, <3>2
  <2>2. CASE k = p
    <3>1. g[k] = f[k + 1] /\ k + 1 \in 1..n /\ (k + 1) - 1 = p
      BY <1>1, <1>5, <2>2
    <3>2. ~Live(f[(k + 1) - 1], c, f2) /\ Live(f[k + 1], c, f2)
      BY <1>7, <3>1
    <3>3. Continues(y, f[k + 1].pc, c, a)
      BY <1>4, <3>1, <3>2
    <3> QED
      BY <3>1, <3>3
  <2>3. CASE k > p
    <3>1. g[k] = f[k + 1] /\ k + 1 \in 1..n /\ k - 1 \in 1..l /\ k - 1 >= p /\ k # 1
      BY <1>1, <1>5, <2>3
    <3>2. g[k - 1] = f[(k - 1) + 1] /\ (k - 1) + 1 = (k + 1) - 1
      BY <1>5, <3>1
    <3>3. ~Live(f[(k + 1) - 1], c, f2) /\ Live(f[k + 1], c, f2)
      BY <1>7, <3>1, <3>2
    <3>4. Continues(y, f[k + 1].pc, c, a)
      BY <1>4, <3>1, <3>3
    <3> QED
      BY <3>1, <3>4
  <2> QED
    BY <1>1, <2>1, <2>2, <2>3
<1>8. ASSUME NEW k \in 1..(l - 1), Live(g[k], c, f2)
      PROVE  Live(g[k + 1], c, f2) /\ g[k + 1].pc = AfterPC(g[k].pc)
  <2>1. k \in 1..l /\ k + 1 \in 1..l /\ k \in 1..(n - 1) /\ k + 1 \in 1..(n - 1)
    BY <1>1
  <2>2. CASE k < p
    <3>1. g[k] = f[k] /\ Live(f[k + 1], c, f2) /\ f[k + 1].pc = AfterPC(f[k].pc)
      BY <1>4, <1>5, <1>8, <2>1, <2>2
    <3>2. k + 1 # p
      BY <3>1
    <3>3. k + 1 < p
      BY <1>1, <2>2, <3>2
    <3> QED
      BY <1>5, <2>1, <3>1, <3>3
  <2>3. CASE k >= p
    <3>1. k + 1 >= p
      BY <1>1, <2>3
    <3>2. g[k] = f[k + 1] /\ g[k + 1] = f[(k + 1) + 1]
      BY <1>5, <2>1, <2>3, <3>1
    <3> QED
      BY <1>4, <1>8, <2>1, <3>2
  <2> QED
    BY <1>1, <2>2, <2>3
<1>9. g # <<>> /\ p < n => g[l] = f[n]
  BY <1>1, <1>2
<1>10. g # <<>> /\ p = n => ~Live(g[l], c, f2)
  <2> SUFFICES ASSUME g # <<>>, p = n PROVE ~Live(g[l], c, f2)
    OBVIOUS
  <2>1. l \in 1..l /\ l < p /\ l = p - 1 /\ p # 1
    BY <1>1, <1>2
  <2> QED
    BY <1>3, <1>5, <2>1
<1>11. f # <<>> /\ (p < n \/ p = n) /\ (g = <<>> => p = n)
  BY <1>1, <1>2
<1>12. /\ g # <<>> /\ Live(g[l], c, f2) /\ f1.state = "Running" => f1.pc = AfterPC(g[l].pc)
       /\ Live(f1, c, f2) /\ f1.state = "Running" /\ (g # <<>> => ~Live(g[l], c, f2)) =>
            Continues(y, f1.pc, c, a)
  BY <1>4, <1>9, <1>10, <1>11
<1>13. Linked(g, f1, y, c, a, f2)
  BY <1>6, <1>7, <1>8, <1>12 DEF Linked, l
<1> QED
  BY <1>13, LinesFollowParts
LEMMA DroppedLines ==
    ASSUME NEW f \in LineSeqs, NEW g \in LineSeqs, NEW m, Dropped(g, f, m),
           NEW f1, NEW y, NEW c, NEW a, NEW f2, LinesFollow(f, f1, y, c, a, f2),
           \A k \in 1..m : ~Live(f[k], c, f2)
    PROVE  LinesFollow(g, f1, y, c, a, f2)
<1> DEFINE n == Len(f)
           l == Len(g)
<1>1. /\ n \in Nat /\ l \in Nat /\ m \in 0..n /\ n = l + m
      /\ \A k \in 1..l : g[k] = f[k + m]
  BY ElementTypes DEF LineSeqs, Dropped
<1>2. (f = <<>> <=> n = 0) /\ (g = <<>> <=> l = 0)
  BY ElementTypes DEF LineSeqs
<1>3. /\ \A k \in 1..n : Live(f[k], c, f2) => Live(f1, c, f2) /\ f[k].pred = f1.pred
      /\ \A k \in 1..n : Live(f[k], c, f2) /\ (k = 1 \/ ~Live(f[k - 1], c, f2)) =>
           Continues(y, f[k].pc, c, a)
      /\ \A k \in 1..(n - 1) : Live(f[k], c, f2) =>
           Live(f[k + 1], c, f2) /\ f[k + 1].pc = AfterPC(f[k].pc)
      /\ f # <<>> /\ Live(f[n], c, f2) /\ f1.state = "Running" => f1.pc = AfterPC(f[n].pc)
      /\ Live(f1, c, f2) /\ f1.state = "Running" /\ (f # <<>> => ~Live(f[n], c, f2)) =>
           Continues(y, f1.pc, c, a)
  BY LinesFollowParts DEF Linked
<1> HIDE DEF n, l
<1>4. ASSUME NEW k \in 1..l PROVE k + m \in 1..n /\ g[k] = f[k + m]
  BY <1>1
<1>5. ASSUME NEW k \in 1..l, Live(g[k], c, f2), k = 1 \/ ~Live(g[k - 1], c, f2)
      PROVE  Continues(y, g[k].pc, c, a)
  <2>1. k + m = 1 \/ ~Live(f[(k + m) - 1], c, f2)
    <3>1. CASE k = 1
      <4>1. k + m = 1 \/ ((k + m) - 1 = m /\ m \in 1..m)
        BY <1>1, <3>1
      <4> QED
        BY <4>1
    <3>2. CASE k # 1
      <4>1. k - 1 \in 1..l /\ (k - 1) + m = (k + m) - 1
        BY <1>1, <3>2
      <4> QED
        BY <1>1, <1>5, <3>2, <4>1
    <3> QED
      BY <3>1, <3>2
  <2> QED
    BY <1>3, <1>4, <1>5, <2>1
<1>6. ASSUME NEW k \in 1..(l - 1), Live(g[k], c, f2)
      PROVE  Live(g[k + 1], c, f2) /\ g[k + 1].pc = AfterPC(g[k].pc)
  <2>1. k \in 1..l /\ k + 1 \in 1..l /\ k + m \in 1..(n - 1) /\ (k + 1) + m = (k + m) + 1
    BY <1>1
  <2>2. g[k] = f[k + m] /\ g[k + 1] = f[(k + m) + 1]
    BY <1>1, <2>1
  <2> QED
    BY <1>3, <1>6, <2>1, <2>2
<1>7. g # <<>> => g[l] = f[n] /\ f # <<>>
  BY <1>1, <1>2
<1>8. g = <<>> /\ f # <<>> => ~Live(f[n], c, f2)
  BY <1>1, <1>2
<1>9. /\ g # <<>> /\ Live(g[l], c, f2) /\ f1.state = "Running" => f1.pc = AfterPC(g[l].pc)
      /\ Live(f1, c, f2) /\ f1.state = "Running" /\ (g # <<>> => ~Live(g[l], c, f2)) =>
           Continues(y, f1.pc, c, a)
  BY <1>3, <1>7, <1>8
<1>10. \A k \in 1..l : Live(g[k], c, f2) => Live(f1, c, f2) /\ g[k].pred = f1.pred
  BY <1>3, <1>4
<1>11. Linked(g, f1, y, c, a, f2)
  BY <1>5, <1>6, <1>9, <1>10 DEF Linked, l
<1> QED
  BY <1>11, LinesFollowParts

\* Every line behind a live one is live.
LEMMA LiveAfter ==
    ASSUME NEW f \in LineSeqs, NEW f1, NEW y, NEW c, NEW a, NEW f2,
           LinesFollow(f, f1, y, c, a, f2), NEW p \in 1..Len(f), Live(f[p], c, f2)
    PROVE  \A k \in 1..Len(f) : k >= p => Live(f[k], c, f2)
<1> DEFINE n == Len(f)
           dead == {k \in 1..n : k >= p /\ ~Live(f[k], c, f2)}
<1>1. \A k \in 1..(n - 1) : Live(f[k], c, f2) => Live(f[k + 1], c, f2)
  BY LinesFollowParts DEF Linked
<1>2. p \in 1..n /\ n \in Nat
  BY ElementTypes DEF LineSeqs
<1> HIDE DEF n
<1>3. dead = {}
  <2> SUFFICES ASSUME dead # {} PROVE FALSE
    OBVIOUS
  <2>1. dead \subseteq Nat
    BY <1>2
  <2> HIDE DEF dead
  <2>2. PICK k \in dead : \A j \in dead : k <= j
    BY <2>1, LeastNumber
  <2>3. k \in 1..n /\ k >= p /\ ~Live(f[k], c, f2)
    BY <2>2 DEF dead
  <2>4. k # p
    BY <2>3
  <2>5. k - 1 \in 1..(n - 1) /\ k - 1 \in 1..n /\ k - 1 >= p /\ ~(k <= k - 1) /\ (k - 1) + 1 = k
    BY <1>2, <2>3, <2>4
  <2>6. k - 1 \notin dead
    BY <2>2, <2>5
  <2>7. Live(f[k - 1], c, f2)
    BY <2>5, <2>6 DEF dead
  <2> QED
    BY <1>1, <2>3, <2>5, <2>7
<1> QED
  BY <1>3 DEF n

\* Fetch2 makes an instruction x of live line p, without a fault or a prediction.
LEMMA TakenLines ==
    ASSUME NEW f \in LineSeqs, NEW g \in LineSeqs, NEW p, Dropped(g, f, p), p # 0,
           NEW f1, NEW y, NEW c, NEW a, NEW f2, LinesFollow(f, f1, y, c, a, f2),
           Live(f[p], c, f2),
           NEW x, x.stream = c, ~x.fault, NextPC(x) = AfterPC(f[p].pc),
           NEW z, z = {x}, NEW e2, e2.expectedStream = f2.expectedStream, e2.pred = f2.pred
    PROVE  LinesFollow(g, f1, z, c, a, e2)
<1> DEFINE n == Len(f)
           l == Len(g)
<1>1. /\ n \in Nat /\ l \in Nat /\ p \in 1..n /\ n = l + p
      /\ \A k \in 1..l : g[k] = f[k + p]
  BY ElementTypes DEF LineSeqs, Dropped
<1>2. (f = <<>> <=> n = 0) /\ (g = <<>> <=> l = 0)
  BY ElementTypes DEF LineSeqs
<1>3. /\ \A k \in 1..n : Live(f[k], c, f2) => Live(f1, c, f2) /\ f[k].pred = f1.pred
      /\ \A k \in 1..(n - 1) : Live(f[k], c, f2) =>
           Live(f[k + 1], c, f2) /\ f[k + 1].pc = AfterPC(f[k].pc)
      /\ f # <<>> /\ Live(f[n], c, f2) /\ f1.state = "Running" => f1.pc = AfterPC(f[n].pc)
  BY LinesFollowParts DEF Linked
<1> HIDE DEF n, l
<1>4. \A w : Live(w, c, e2) <=> Live(w, c, f2)
  BY DEF Live
<1>5. ASSUME NEW k \in 1..l PROVE k + p \in 1..n /\ g[k] = f[k + p]
  BY <1>1
<1>6. ASSUME NEW pc, pc = AfterPC(f[p].pc) PROVE Continues(z, pc, c, a)
  BY <1>6 DEF Continues
<1>7. \A k \in 1..n : k >= p => Live(f[k], c, f2)
  BY LiveAfter, <1>1 DEF n
<1>8. \A k \in 1..l : Live(g[k], c, f2)
  BY <1>1, <1>5, <1>7
<1>9. ASSUME NEW k \in 1..l, k = 1 \/ ~Live(g[k - 1], c, f2)
      PROVE  Continues(z, g[k].pc, c, a)
  <2>1. k = 1
    <3>1. k # 1 => k - 1 \in 1..l
      BY <1>1
    <3> QED
      BY <1>8, <1>9, <3>1
  <2>2. p \in 1..(n - 1) /\ g[k] = f[p + 1]
    BY <1>1, <2>1
  <2> QED
    BY <1>3, <1>6, <2>2
<1>10. ASSUME NEW k \in 1..(l - 1)
       PROVE  Live(g[k + 1], c, f2) /\ g[k + 1].pc = AfterPC(g[k].pc)
  <2>1. k \in 1..l /\ k + 1 \in 1..l /\ k + p \in 1..(n - 1) /\ (k + 1) + p = (k + p) + 1
    BY <1>1
  <2>2. g[k] = f[k + p] /\ g[k + 1] = f[(k + p) + 1]
    BY <1>1, <2>1
  <2> QED
    BY <1>3, <1>8, <2>1, <2>2
<1>11. g # <<>> => g[l] = f[n] /\ f # <<>> /\ l \in 1..l
  BY <1>1, <1>2
<1>12. g # <<>> /\ f1.state = "Running" => f1.pc = AfterPC(g[l].pc)
  BY <1>3, <1>8, <1>11
<1>13. g = <<>> /\ f1.state = "Running" => Continues(z, f1.pc, c, a)
  <2>1. g = <<>> => p = n /\ f # <<>>
    BY <1>1, <1>2
  <2> QED
    BY <1>3, <1>6, <2>1
<1>14. \A k \in 1..l : Live(f1, c, f2) /\ g[k].pred = f1.pred
  BY <1>3, <1>5, <1>8
<1>15. LinesFollow(g, f1, z, c, a, f2)
  <2>1. /\ \A k \in 1..l : Live(g[k], c, f2) => Live(f1, c, f2) /\ g[k].pred = f1.pred
        /\ \A k \in 1..l : Live(g[k], c, f2) /\ (k = 1 \/ ~Live(g[k - 1], c, f2)) =>
             Continues(z, g[k].pc, c, a)
        /\ \A k \in 1..(l - 1) : Live(g[k], c, f2) =>
             Live(g[k + 1], c, f2) /\ g[k + 1].pc = AfterPC(g[k].pc)
        /\ g # <<>> /\ Live(g[l], c, f2) /\ f1.state = "Running" => f1.pc = AfterPC(g[l].pc)
        /\ Live(f1, c, f2) /\ f1.state = "Running" /\ (g # <<>> => ~Live(g[l], c, f2)) =>
             Continues(z, f1.pc, c, a)
    <3>1. \A k \in 1..l : Live(g[k], c, f2) => Live(f1, c, f2) /\ g[k].pred = f1.pred
      BY <1>14
    <3>2. \A k \in 1..l : Live(g[k], c, f2) /\ (k = 1 \/ ~Live(g[k - 1], c, f2)) =>
            Continues(z, g[k].pc, c, a)
      BY <1>9
    <3>3. \A k \in 1..(l - 1) : Live(g[k], c, f2) =>
            Live(g[k + 1], c, f2) /\ g[k + 1].pc = AfterPC(g[k].pc)
      BY <1>10
    <3>4. g # <<>> => Live(g[l], c, f2)
      BY <1>8, <1>11
    <3> QED
      BY <1>12, <1>13, <3>1, <3>2, <3>3, <3>4
  <2>2. Linked(g, f1, z, c, a, f2)
    BY <2>1 DEF Linked, l
  <2> QED
    BY <2>2, LinesFollowParts
<1> QED
  BY <1>4, <1>15 DEF LinesFollow
\* Fetch2 makes an instruction x of live line p, with a fault.
LEMMA FaultedLines ==
    ASSUME NEW f \in LineSeqs, NEW g \in LineSeqs, NEW m, Dropped(g, f, m),
           NEW p \in 1..m, NEW f1, NEW y, NEW c, NEW a, NEW f2, LinesFollow(f, f1, y, c, a, f2),
           Live(f[p], c, f2), NEW x, x.stream = c, x.fault,
           NEW z, z = {x}, NEW e2, e2.expectedStream = f2.expectedStream, e2.pred = f2.pred
    PROVE  LinesFollow(g, f1, z, c, a, e2)
<1> DEFINE n == Len(f)
           l == Len(g)
<1>1. /\ n \in Nat /\ l \in Nat /\ m \in 0..n /\ n = l + m
      /\ \A k \in 1..l : g[k] = f[k + m]
  BY ElementTypes DEF LineSeqs, Dropped
<1>2. (f = <<>> <=> n = 0) /\ (g = <<>> <=> l = 0)
  BY ElementTypes DEF LineSeqs
<1>3. /\ \A k \in 1..n : Live(f[k], c, f2) => Live(f1, c, f2) /\ f[k].pred = f1.pred
      /\ \A k \in 1..(n - 1) : Live(f[k], c, f2) =>
           Live(f[k + 1], c, f2) /\ f[k + 1].pc = AfterPC(f[k].pc)
      /\ f # <<>> /\ Live(f[n], c, f2) /\ f1.state = "Running" => f1.pc = AfterPC(f[n].pc)
  BY LinesFollowParts DEF Linked
<1> HIDE DEF n, l
<1>4. \A w : Live(w, c, e2) <=> Live(w, c, f2)
  BY DEF Live
<1>5. \A pc : Continues(z, pc, c, a)
  BY DEF Continues
<1>6. p \in 1..n
  BY <1>1
<1>7. \A k \in 1..n : k >= p => Live(f[k], c, f2)
  BY <1>6, LiveAfter DEF n
<1>8. \A k \in 1..l : g[k] = f[k + m] /\ k + m \in 1..n /\ Live(g[k], c, f2)
  <2> TAKE k \in 1..l
  <2>1. k + m \in 1..n /\ k + m >= p
    BY <1>1
  <2> QED
    BY <1>1, <1>7, <2>1
<1>9. ASSUME NEW k \in 1..(l - 1)
      PROVE  Live(g[k + 1], c, f2) /\ g[k + 1].pc = AfterPC(g[k].pc)
  <2>1. k \in 1..l /\ k + 1 \in 1..l /\ k + m \in 1..(n - 1) /\ (k + 1) + m = (k + m) + 1
    BY <1>1
  <2>2. g[k] = f[k + m] /\ g[k + 1] = f[(k + m) + 1]
    BY <1>1, <2>1
  <2> QED
    BY <1>3, <1>8, <2>1, <2>2
<1>10. g # <<>> => g[l] = f[n] /\ f # <<>> /\ l \in 1..l
  BY <1>1, <1>2
<1>11. LinesFollow(g, f1, z, c, a, f2)
  <2>1. /\ \A k \in 1..l : Live(g[k], c, f2) => Live(f1, c, f2) /\ g[k].pred = f1.pred
        /\ \A k \in 1..l : Live(g[k], c, f2) /\ (k = 1 \/ ~Live(g[k - 1], c, f2)) =>
             Continues(z, g[k].pc, c, a)
        /\ \A k \in 1..(l - 1) : Live(g[k], c, f2) =>
             Live(g[k + 1], c, f2) /\ g[k + 1].pc = AfterPC(g[k].pc)
        /\ g # <<>> /\ Live(g[l], c, f2) /\ f1.state = "Running" => f1.pc = AfterPC(g[l].pc)
        /\ Live(f1, c, f2) /\ f1.state = "Running" /\ (g # <<>> => ~Live(g[l], c, f2)) =>
             Continues(z, f1.pc, c, a)
    <3>1. \A k \in 1..l : Live(g[k], c, f2) => Live(f1, c, f2) /\ g[k].pred = f1.pred
      BY <1>3, <1>8
    <3>2. \A k \in 1..l : Live(g[k], c, f2) /\ (k = 1 \/ ~Live(g[k - 1], c, f2)) =>
            Continues(z, g[k].pc, c, a)
      BY <1>5
    <3>3. \A k \in 1..(l - 1) : Live(g[k], c, f2) =>
            Live(g[k + 1], c, f2) /\ g[k + 1].pc = AfterPC(g[k].pc)
      BY <1>9
    <3>4. g # <<>> /\ Live(g[l], c, f2) /\ f1.state = "Running" => f1.pc = AfterPC(g[l].pc)
      BY <1>3, <1>10
    <3> QED
      BY <1>5, <3>1, <3>2, <3>3, <3>4
  <2>2. Linked(g, f1, z, c, a, f2)
    BY <2>1 DEF Linked, l
  <2> QED
    BY <2>2, LinesFollowParts
<1> QED
  BY <1>4, <1>11 DEF LinesFollow

\* No line is live.
LEMMA DeadLines ==
    ASSUME NEW f, NEW f1, NEW y, NEW c, NEW a, NEW f2,
           \A k \in 1..Len(f) : ~Live(f[k], c, f2),
           Live(f1, c, f2) /\ f1.state = "Running" => Continues(y, f1.pc, c, a)
    PROVE  LinesFollow(f, f1, y, c, a, f2)
BY DEF LinesFollow

\* Fetch1 goes on with the next line.
LEMMA AppendedLines ==
    ASSUME NEW f \in LineSeqs, NEW f1, NEW y, NEW c, NEW a, NEW f2,
           LinesFollow(f, f1, y, c, a, f2), f1.state = "Running",
           NEW x, x \in Lines \cup Fetches, x.pc = f1.pc, x.stream = f1.stream, x.pred = f1.pred,
           NEW g1, g1.stream = f1.stream, g1.pred = f1.pred, g1.pc = AfterPC(f1.pc)
    PROVE  LinesFollow(Append(f, x), g1, y, c, a, f2)
<1> DEFINE n == Len(f)
           e == Append(f, x)
<1>1. n \in Nat /\ (f = <<>> <=> n = 0)
  BY ElementTypes DEF LineSeqs
<1>2. e \in LineSeqs /\ e # <<>> /\ Len(e) = n + 1 /\ (\A k \in 1..n : e[k] = f[k]) /\ e[n + 1] = x
  <2> DEFINE S == Lines \cup Fetches
  <2>1. f \in Seq(S) /\ x \in S
    BY DEF LineSeqs
  <2> HIDE DEF S
  <2>2. e \in Seq(S) /\ e # <<>> /\ Len(e) = n + 1 /\ (\A k \in 1..n : e[k] = f[k]) /\ e[n + 1] = x
    BY <2>1, AppendElements
  <2> QED
    BY <2>2 DEF S, LineSeqs
<1>3. /\ \A k \in 1..n : Live(f[k], c, f2) => Live(f1, c, f2) /\ f[k].pred = f1.pred
      /\ \A k \in 1..n : Live(f[k], c, f2) /\ (k = 1 \/ ~Live(f[k - 1], c, f2)) =>
           Continues(y, f[k].pc, c, a)
      /\ \A k \in 1..(n - 1) : Live(f[k], c, f2) =>
           Live(f[k + 1], c, f2) /\ f[k + 1].pc = AfterPC(f[k].pc)
      /\ f # <<>> /\ Live(f[n], c, f2) => f1.pc = AfterPC(f[n].pc)
      /\ Live(f1, c, f2) /\ (f # <<>> => ~Live(f[n], c, f2)) => Continues(y, f1.pc, c, a)
  BY LinesFollowParts DEF Linked
<1>4. (Live(x, c, f2) <=> Live(f1, c, f2)) /\ (Live(g1, c, f2) <=> Live(f1, c, f2))
  BY DEF Live
<1> HIDE DEF n, e
<1>5. ASSUME NEW k \in 1..(n + 1)
      PROVE  \/ k \in 1..n /\ e[k] = f[k] /\ (k # 1 => e[k - 1] = f[k - 1])
             \/ k = n + 1 /\ e[k] = x /\ (k # 1 => e[k - 1] = f[n])
  <2>1. CASE k = n + 1
    <3>1. k # 1 => k - 1 \in 1..n /\ k - 1 = n
      BY <1>1, <2>1
    <3> QED
      BY <1>2, <2>1, <3>1
  <2>2. CASE k # n + 1
    <3>1. k \in 1..n /\ (k # 1 => k - 1 \in 1..n)
      BY <1>1, <2>2
    <3>2. \A j \in 1..n : e[j] = f[j]
      BY <1>2
    <3>3. e[k] = f[k]
      BY <3>1, <3>2
    <3>4. CASE k # 1
      <4> DEFINE j == k - 1
      <4>1. j \in 1..n
        BY <3>1, <3>4
      <4> HIDE DEF j
      <4>2. e[j] = f[j]
        BY <3>2, <4>1
      <4> QED
        BY <3>1, <3>3, <4>2 DEF j
    <3> QED
      BY <3>1, <3>3, <3>4
  <2> QED
    BY <2>1, <2>2
<1>6. ASSUME NEW k \in 1..(n + 1), Live(e[k], c, f2) PROVE Live(g1, c, f2) /\ e[k].pred = g1.pred
  BY <1>3, <1>4, <1>5, <1>6
<1>7. ASSUME NEW k \in 1..(n + 1), Live(e[k], c, f2), k = 1 \/ ~Live(e[k - 1], c, f2)
      PROVE  Continues(y, e[k].pc, c, a)
  <2>1. CASE k \in 1..n /\ e[k] = f[k] /\ (k # 1 => e[k - 1] = f[k - 1])
    BY <1>3, <1>7, <2>1
  <2>2. CASE k = n + 1 /\ e[k] = x /\ (k # 1 => e[k - 1] = f[n])
    <3>1. f # <<>> => k # 1
      BY <1>1, <2>2
    <3> QED
      BY <1>3, <1>4, <1>7, <2>2, <3>1
  <2> QED
    BY <1>5, <2>1, <2>2
<1>8. ASSUME NEW k \in 1..((n + 1) - 1), Live(e[k], c, f2)
      PROVE  Live(e[k + 1], c, f2) /\ e[k + 1].pc = AfterPC(e[k].pc)
  <2>1. k \in 1..n /\ e[k] = f[k] /\ Live(f1, c, f2)
    BY <1>1, <1>2, <1>3, <1>8
  <2>2. CASE k = n
    <3>1. f # <<>> /\ e[k + 1] = x
      BY <1>1, <1>2, <2>1, <2>2
    <3> QED
      BY <1>3, <1>4, <1>8, <2>1, <2>2, <3>1
  <2>3. CASE k # n
    <3>1. k \in 1..(n - 1) /\ k + 1 \in 1..n
      BY <1>1, <2>1, <2>3
    <3> QED
      BY <1>2, <1>3, <1>8, <2>1, <3>1
  <2> QED
    BY <2>2, <2>3
<1>9. g1.pc = AfterPC(e[n + 1].pc)
  BY <1>2
<1>10. Live(g1, c, f2) => Live(e[n + 1], c, f2)
  BY <1>2, <1>4
<1>11. LinesFollow(e, g1, y, c, a, f2)
  <2>1. /\ \A k \in 1..Len(e) : Live(e[k], c, f2) => Live(g1, c, f2) /\ e[k].pred = g1.pred
        /\ \A k \in 1..Len(e) : Live(e[k], c, f2) /\ (k = 1 \/ ~Live(e[k - 1], c, f2)) =>
             Continues(y, e[k].pc, c, a)
        /\ \A k \in 1..(Len(e) - 1) : Live(e[k], c, f2) =>
             Live(e[k + 1], c, f2) /\ e[k + 1].pc = AfterPC(e[k].pc)
        /\ g1.pc = AfterPC(e[Len(e)].pc)
        /\ Live(g1, c, f2) => Live(e[Len(e)], c, f2)
    BY <1>2, <1>6, <1>7, <1>8, <1>9, <1>10
  <2>2. Linked(e, g1, y, c, a, f2)
    BY <1>2, <2>1 DEF Linked
  <2> QED
    BY <1>2, <2>2, LinesFollowParts
<1> QED
  BY <1>11 DEF e
=============================================================================
