------------------------- MODULE MinorCommitProofs --------------------------
(***************************************************************************)
(* Every step keeps PathInv, and what follows from it: the pipeline        *)
(* commits the thread's instructions one after the other.                  *)
(***************************************************************************)
EXTENDS MinorPathProofs

----------------------------------------------------------------------------
(* Work that is moved on or thrown away. *)

\* Every element of t, and every two in order, are elements of s.
Kept(t, s) ==
    /\ \A k \in 1..Len(t) : \E n \in 1..Len(s) :
         t[k].stream = s[n].stream /\ t[k].pred = s[n].pred
    /\ \A j, k \in 1..Len(t) : j < k => \E m, n \in 1..Len(s) :
         m < n /\ t[j].stream = s[m].stream /\ t[k].stream = s[n].stream

LEMMA KeptReflexive == \A s : Kept(s, s)
  BY DEF Kept

LEMMA KeptSameKeys ==
    ASSUME NEW s, NEW t, SameKeys(t, s)
    PROVE  Kept(t, s)
  BY DEF Kept, SameKeys

LEMMA KeptRemoved ==
    ASSUME NEW S, NEW s \in Seq(S), NEW t \in Seq(S), NEW p, Removed(t, s, p)
    PROVE  Kept(t, s)
<1> DEFINE n == Len(s)
<1> DEFINE m == Len(t)
<1>1. n \in Nat /\ m \in Nat /\ n = m + 1 /\ p \in 1..n
  BY ElementTypes DEF Removed
<1>2. \A k \in 1..m : t[k] = IF k < p THEN s[k] ELSE s[k + 1]
  BY DEF Removed
<1> DEFINE at(k) == IF k < p THEN k ELSE k + 1
<1> HIDE DEF n, m
<1>3. \A k \in 1..m : at(k) \in 1..n
  BY <1>1
<1>4. \A j, k \in 1..m : j < k => at(j) < at(k)
  BY <1>1
<1>5. \A k \in 1..m : t[k] = s[at(k)]
  BY <1>2
<1> HIDE DEF at
<1>6. \A k \in 1..m : \E j \in 1..n : t[k].stream = s[j].stream /\ t[k].pred = s[j].pred
  BY <1>3, <1>5
<1>7. \A j, k \in 1..m : j < k => \E g, h \in 1..n :
        g < h /\ t[j].stream = s[g].stream /\ t[k].stream = s[h].stream
  BY <1>3, <1>4, <1>5
<1> QED
  BY <1>6, <1>7 DEF Kept, n, m

LEMMA KeptDropped ==
    ASSUME NEW S, NEW s \in Seq(S), NEW t \in Seq(S), NEW p, Dropped(t, s, p)
    PROVE  Kept(t, s)
<1> DEFINE n == Len(s)
<1> DEFINE m == Len(t)
<1>1. n \in Nat /\ m \in Nat /\ n = m + p /\ p \in 0..n
  BY ElementTypes DEF Dropped
<1>2. \A k \in 1..m : t[k] = s[k + p]
  BY DEF Dropped
<1> DEFINE at(k) == k + p
<1> HIDE DEF n, m
<1>3. \A k \in 1..m : at(k) \in 1..n
  BY <1>1
<1>4. \A j, k \in 1..m : j < k => at(j) < at(k)
  BY <1>1
<1>5. \A k \in 1..m : t[k] = s[at(k)]
  BY <1>2
<1> HIDE DEF at
<1>6. \A k \in 1..m : \E j \in 1..n : t[k].stream = s[j].stream /\ t[k].pred = s[j].pred
  BY <1>3, <1>5
<1>7. \A j, k \in 1..m : j < k => \E g, h \in 1..n :
        g < h /\ t[j].stream = s[g].stream /\ t[k].stream = s[h].stream
  BY <1>3, <1>4, <1>5
<1> QED
  BY <1>6, <1>7 DEF Kept, n, m

LEMMA KeptStreams ==
    ASSUME NEW s, NEW t, Kept(t, s), NEW c
    PROVE  /\ Ordered(s, c) => Ordered(t, c)
           /\ AllOf(s, c) => AllOf(t, c)
           /\ NoneOf(s, c) => NoneOf(t, c)
           /\ (\A k \in 1..Len(s) : s[k].stream <= c) => \A k \in 1..Len(t) : t[k].stream <= c
           /\ (\A k \in 1..Len(s) : s[k].pred <= c) => \A k \in 1..Len(t) : t[k].pred <= c
<1>1. \A k \in 1..Len(t) : \E n \in 1..Len(s) :
        t[k].stream = s[n].stream /\ t[k].pred = s[n].pred
  BY DEF Kept
<1>2. \A j, k \in 1..Len(t) : j < k => \E m, n \in 1..Len(s) :
        m < n /\ t[j].stream = s[m].stream /\ t[k].stream = s[n].stream
  BY DEF Kept
<1>3. Ordered(s, c) => Ordered(t, c)
  BY <1>2 DEF Ordered
<1>4. (AllOf(s, c) => AllOf(t, c)) /\ (NoneOf(s, c) => NoneOf(t, c))
  BY <1>1 DEF AllOf, NoneOf
<1>5. /\ (\A k \in 1..Len(s) : s[k].stream <= c) => \A k \in 1..Len(t) : t[k].stream <= c
      /\ (\A k \in 1..Len(s) : s[k].pred <= c) => \A k \in 1..Len(t) : t[k].pred <= c
  BY <1>1
<1> QED
  BY <1>3, <1>4, <1>5

\* Work leaves the pipeline or moves on in it, in the same stream.
WorkKept ==
    Kept(Decoded', Decoded) /\ Kept(Undecoded', Undecoded) /\ Kept(Fetched', Fetched)

\* No change of stream is added to Execute's branch latch.
SameBranches ==
    \/ eToF1' = eToF1
    \/ /\ eToF1'.out = eToF1.out
       /\ eToF1'.in.stream <= exec.stream /\ eToF1'.in.pred <= fetch2.pred
       /\ IsStreamChange(eToF1'.in) => eToF1'.in = eToF1.in

SameStream ==
    /\ exec'.stream = exec.stream /\ exec'.drainState = exec.drainState
    /\ fetch2'.expectedStream = fetch2.expectedStream
    /\ fetch2'.lastStream = fetch2.lastStream /\ fetch2'.pred = fetch2.pred
    /\ fetch1' = fetch1 /\ status' = status
    /\ SameBranches /\ f2ToF1' = f2ToF1
    /\ phase' = "advance" <=> phase = "advance"

LEMMA SamePending ==
    ASSUME SameStream
    PROVE  /\ PendingBranches' \subseteq PendingBranches
           /\ PendingPredictions' = PendingPredictions
<1>1. PendingBranches' \subseteq PendingBranches
  BY DEF PendingBranches, SameStream, SameBranches, IsStreamChange
<1>2. PendingPredictions' = PendingPredictions
  BY DEF PendingPredictions, SameStream, IsStreamChange
<1> QED
  BY <1>1, <1>2

LEMMA KeptStreamsKnown ==
    ASSUME WorkKept, SameStream, exec'.lastPred <= fetch2.pred,
           StreamsKnown, PredictionsKnown, StreamsOrdered
    PROVE  StreamsKnown' /\ PredictionsKnown' /\ StreamsOrdered'
<1> DEFINE c == exec.stream
<1> DEFINE p == fetch2.pred
<1>1. c' = c /\ p' = p
  BY DEF SameStream, SameBranches
<1>2. /\ \A k \in 1..Len(Decoded) : Decoded[k].stream <= c
      /\ \A k \in 1..Len(Undecoded) : Undecoded[k].stream <= c
      /\ \A k \in 1..Len(Fetched) : Fetched[k].stream <= c
  BY DEF StreamsKnown
<1>3. /\ \A k \in 1..Len(Decoded) : Decoded[k].pred <= p
      /\ \A k \in 1..Len(Undecoded) : Undecoded[k].pred <= p
      /\ \A k \in 1..Len(Fetched) : Fetched[k].pred <= p
  BY DEF PredictionsKnown
<1> HIDE DEF c, p
<1>4. /\ \A k \in 1..Len(Decoded') : Decoded'[k].stream <= c
      /\ \A k \in 1..Len(Undecoded') : Undecoded'[k].stream <= c
      /\ \A k \in 1..Len(Fetched') : Fetched'[k].stream <= c
  BY <1>2, KeptStreams DEF WorkKept
<1>5. /\ \A k \in 1..Len(Decoded') : Decoded'[k].pred <= p
      /\ \A k \in 1..Len(Undecoded') : Undecoded'[k].pred <= p
      /\ \A k \in 1..Len(Fetched') : Fetched'[k].pred <= p
  BY <1>3, KeptStreams DEF WorkKept
<1>6. StreamsKnown'
  <2>1. \A s \in {Decoded', Undecoded', Fetched'} : \A k \in 1..Len(s) : s[k].stream <= c
    BY <1>4
  <2>2. \A b \in {fetch1', (eToF1.in)', (eToF1.out)', (f2ToF1.in)', (f2ToF1.out)'} : b.stream <= c
    BY DEF StreamsKnown, SameStream, SameBranches, c
  <2>3. (fetch2.expectedStream <= exec.stream)' /\ (fetch2.lastStream <= exec.stream)'
    BY DEF StreamsKnown, SameStream
  <2> QED
    BY <1>1, <2>1, <2>2, <2>3 DEF StreamsKnown, c
<1>7. PredictionsKnown'
  <2>1. \A s \in {Decoded', Undecoded', Fetched'} : \A k \in 1..Len(s) : s[k].pred <= p
    BY <1>5
  <2>2. \A b \in {fetch1', (eToF1.in)', (eToF1.out)', (f2ToF1.in)', (f2ToF1.out)'} : b.pred <= p
    BY DEF PredictionsKnown, SameStream, SameBranches, p
  <2> QED
    BY <1>1, <2>1, <2>2 DEF PredictionsKnown, p
<1>8. StreamsOrdered'
  <2>1. /\ Ordered(Decoded, c) => Ordered(Decoded', c)
        /\ Ordered(Undecoded, c) => Ordered(Undecoded', c)
        /\ Ordered(Fetched, c) => Ordered(Fetched', c)
        /\ AllOf(Undecoded, c) => AllOf(Undecoded', c)
        /\ AllOf(Fetched, c) => AllOf(Fetched', c)
        /\ NoneOf(Decoded, c) => NoneOf(Decoded', c)
        /\ NoneOf(Undecoded, c) => NoneOf(Undecoded', c)
        /\ NoneOf(Fetched, c) => NoneOf(Fetched', c)
    BY KeptStreams DEF WorkKept
  <2> QED
    BY <1>1, <2>1 DEF StreamsOrdered, SameStream, c
<1> QED
  BY <1>6, <1>7, <1>8

LEMMA KeptNoneCurrent ==
    ASSUME WorkKept, SameStream, NoneCurrent
    PROVE  NoneCurrent'
<1>1. PendingPredictions' = PendingPredictions
  BY SamePending
<1>2. /\ NoneOf(Decoded', exec.stream) /\ NoneOf(Undecoded', exec.stream)
      /\ NoneOf(Fetched', exec.stream)
  BY KeptStreams DEF NoneCurrent, WorkKept
<1> QED
  BY <1>1, <1>2 DEF NoneCurrent, SameStream

LEMMA KeptStreamStarts ==
    ASSUME WorkKept, SameStream, StreamStarts, PendingBranches # {} => arch' = arch
    PROVE  StreamStarts'
<1>1. PendingBranches' \subseteq PendingBranches
  BY SamePending
<1>2. NoneCurrent => NoneCurrent'
  BY KeptNoneCurrent
<1>3. ASSUME NEW b \in PendingBranches
      PROVE  /\ NoneCurrent'
             /\ (fetch1.stream # exec.stream)'
             /\ b.stream = exec.stream' /\ b.reason # "HaltFetch" => b.target = (arch.pc)'
             /\ b.stream = exec.stream' /\ exec'.drainState = "DrainAllInsts"
                  => b.reason = "HaltFetch"
  BY <1>2 DEF StreamStarts, SameStream
<1>4. (IsStreamChange(eToF1.in) => eToF1.out.stream # exec.stream)'
  BY DEF StreamStarts, SameStream, SameBranches, IsStreamChange
<1> QED
  BY <1>1, <1>2, <1>3, <1>4 DEF StreamStarts, SameStream

\* Only Fetch2's stream and prediction tell which lines are live.
LEMMA SameLive ==
    ASSUME NEW f, NEW f1, NEW y, NEW c, NEW a, NEW f2, LinesFollow(f, f1, y, c, a, f2),
           NEW e2, e2.expectedStream = f2.expectedStream, e2.pred = f2.pred
    PROVE  LinesFollow(f, f1, y, c, a, e2)
<1>1. \A x : Live(x, c, e2) <=> Live(x, c, f2)
  BY DEF Live
<1> QED
  BY <1>1 DEF LinesFollow

YoungestNow == Youngest(Decoded, Undecoded)

LEMMA KeptLinesPath ==
    ASSUME SameStream, LinesPath, fetch2'.havePC => fetch2.havePC, fetch2'.pc = fetch2.pc,
           SameEnd(YoungestNow, arch, YoungestNow', arch', exec.stream),
           LinesFollow(Fetched', fetch1, YoungestNow', exec.stream, arch', fetch2)
    PROVE  LinesPath'
<1> DEFINE c == exec.stream
<1> DEFINE y == YoungestNow
<1>1. c' = c /\ fetch1' = fetch1
  BY DEF SameStream, SameBranches
<1>2. PendingPredictions' = PendingPredictions
  BY SamePending
<1>3. LinesFollow(Fetched', fetch1', y', c', arch', fetch2')
  BY <1>1, SameLive DEF SameStream, SameBranches
<1>4. PredictionsFollow(y, c, arch)
  BY DEF LinesPath, YoungestNow
<1>5. \A pc : /\ Continues(y, pc, c, arch) => Continues(y', pc, c', arch')
              /\ ContinuesExactly(y, pc, c, arch) => ContinuesExactly(y', pc, c', arch')
  BY <1>1 DEF SameEnd
<1> HIDE DEF y
<1>6. (fetch2.havePC /\ fetch2.lastStream = c)' =>
        ContinuesExactly(y', (fetch2.pc)', c', arch')
  BY <1>1, <1>4, <1>5 DEF PredictionsFollow, SameStream
<1>7. ASSUME NEW b \in PendingPredictions'
      PROVE  /\ b.reason = "BranchPrediction"
             /\ b.stream = c' =>
                  /\ (fetch2.expectedStream)' = c'
                  /\ b.pred = (fetch2.pred)'
                  /\ (fetch1.pred)' # b.pred
                  /\ Continues(y', b.target, c', arch')
  BY <1>1, <1>2, <1>4, <1>5 DEF PredictionsFollow, SameStream
<1>8. PredictionsFollow(y, c, arch)'
  BY <1>6, <1>7 DEF PredictionsFollow
<1>9. (IsStreamChange(f2ToF1.in) /\ f2ToF1.in.stream = exec.stream =>
         f2ToF1.out \notin PendingPredictions \/ f2ToF1.out.stream # exec.stream)'
  BY <1>2 DEF LinesPath, SameStream, IsStreamChange
<1> QED
  BY <1>3, <1>8, <1>9 DEF LinesPath, YoungestNow, y

----------------------------------------------------------------------------
(* Steps that change nothing of the path. *)

QuietStep ==
    /\ SameOps /\ LinesIn' = LinesIn /\ SameKeys(Fetched', Fetched)
    /\ UNCHANGED <<fetch1, fetch2, f2ToF1, microop, exec, arch, status, drain>>
    /\ SameBranches
    /\ phase' = "advance" <=> phase = "advance"
    /\ phase' = "fetch1" => phase = "fetch1"
    /\ drain = "Drained" => phase' = phase /\ Fetched' = Fetched

LEMMA QuietStepPath ==
    ASSUME TypeOK, PathInv, PathTypeOK, PathTypeOK', QuietStep
    PROVE  PathInv'
<1>1. WorkKept
  BY KeptReflexive, KeptSameKeys DEF WorkKept, QuietStep, SameOps
<1>2. SameStream
  BY DEF SameStream, QuietStep
<1>3. exec'.lastPred <= fetch2.pred
  BY DEF QuietStep, PathInv, PredictionsKnown
<1>4. StreamsKnown' /\ PredictionsKnown' /\ StreamsOrdered'
  BY <1>1, <1>2, <1>3, KeptStreamsKnown DEF PathInv
<1>5. StreamStarts'
  BY <1>1, <1>2, KeptStreamStarts DEF PathInv, QuietStep
<1>6. LinesOfFetch1'
  BY DEF LinesOfFetch1, QuietStep, SameBranches, PathInv, IsStreamChange
<1>7. OpsWellFormed'
  BY DEF OpsWellFormed, QuietStep, PathInv, SameOps
<1>8. OpsPath'
  BY DEF OpsPath, QuietStep, PathInv, SameOps
<1>9. LinesPath'
  <2>1. YoungestNow' = YoungestNow /\ arch' = arch
    BY DEF YoungestNow, QuietStep, SameOps
  <2>2. SameEnd(YoungestNow, arch, YoungestNow, arch, exec.stream)
    BY SameEndReflexive
  <2>3. LinesFollow(Fetched, fetch1, YoungestNow, exec.stream, arch, fetch2)
    BY DEF PathInv, LinesPath, YoungestNow
  <2>4. Fetched \in LineSeqs /\ Fetched' \in LineSeqs /\ SameKeys(Fetched', Fetched)
    BY DEF PathTypeOK, LineSeqs, QuietStep
  <2>5. LinesFollow(Fetched', fetch1, YoungestNow, exec.stream, arch, fetch2)
    BY <2>2, <2>3, <2>4, SameLinesFollow
  <2> QED
    BY <1>2, <2>1, <2>2, <2>5, KeptLinesPath DEF PathInv, QuietStep
<1>10. DrainPath'
  BY DEF DrainPath, QuietStep, PathInv, SameOps
<1> QED
  BY <1>4, <1>5, <1>6, <1>7, <1>8, <1>9, <1>10 DEF PathInv

\* A step in a cycle, or of the outside world.
LEMMA NotDrained ==
    ASSUME PathInv, phase # "between" \/ Outside \/ StartCycle
    PROVE  drain # "Drained"
  BY DEF PathInv, DrainPath, Outside, StartCycle

LEMMA QuietActions ==
    ASSUME TypeOK, CreditInv, PathInv, PathTypeOK, PathTypeOK',
           \/ SkipCommit \/ IssueInst \/ EndIssue \/ Dummy
           \/ Finish \/ RecvTimingResp \/ RecvReqRetry \/ DataWakeup
           \/ UNCHANGED vars
    PROVE  PathInv'
<1>1. \A s : SameKeys(s, s)
  BY DEF SameKeys
<1>2. CASE SkipCommit
  <2>1. SameOps /\ SameLines
    BY <1>2, DeliverExecutePath DEF SkipCommit, BeginCycle, SameOps
  <2>2. QuietStep
    BY <1>1, <1>2, <2>1, NotDrained
       DEF QuietStep, SameBranches, SameLines, SkipCommit, StartCycle, fetchVars, executeVars, drainVars
  <2> QED
    BY <2>2, QuietStepPath
<1>3. CASE IssueInst
  <2>1. SameOps /\ SameLines
    BY <1>3, IssuePath DEF SameOps
  <2>2. QuietStep
    BY <1>1, <1>3, <2>1, NotDrained
       DEF QuietStep, SameBranches, SameLines, IssueInst, CanIssue, fetchVars, executeVars, drainVars
  <2> QED
    BY <2>2, QuietStepPath
<1>4. CASE EndIssue
  <2>1. SameOps /\ SameLines
    BY <1>4, SameBuffers DEF EndIssue, SameOps, fetchVars, executeVars
  <2>2. QuietStep
    BY <1>1, <1>4, <2>1, NotDrained
       DEF QuietStep, SameBranches, SameLines, EndIssue, fetchVars, executeVars, drainVars
  <2> QED
    BY <2>2, QuietStepPath
<1>5. CASE Dummy
  <2>1. SameOps /\ SameLines
    BY <1>5, DummyPath
  <2>2. QuietStep
    BY <1>1, <1>5, <2>1, NotDrained
       DEF QuietStep, SameBranches, SameLines, Dummy, fetchVars, executeVars, drainVars
  <2> QED
    BY <2>2, QuietStepPath
<1>6. CASE Finish
  <2>1. SameOps /\ LinesIn' = LinesIn /\ SameKeys(Fetched', Fetched)
    BY <1>6, ProgressPath
  <2>2. QuietStep
    BY <1>6, <2>1, NotDrained DEF QuietStep, SameBranches, Finish, Outside, executeVars
  <2> QED
    BY <2>2, QuietStepPath
<1>7. CASE RecvTimingResp
  <2>1. SameOps /\ LinesIn' = LinesIn /\ SameKeys(Fetched', Fetched)
    BY <1>7, ProgressPath
  <2>2. QuietStep
    BY <1>7, <2>1, NotDrained DEF QuietStep, SameBranches, RecvTimingResp, Outside, executeVars
  <2> QED
    BY <2>2, QuietStepPath
<1>8. CASE RecvReqRetry
  <2>1. SameOps /\ LinesIn' = LinesIn /\ SameKeys(Fetched', Fetched)
    BY <1>8, ProgressPath
  <2>2. QuietStep
    BY <1>8, <2>1, NotDrained DEF QuietStep, SameBranches, RecvReqRetry, Outside, executeVars, drainVars
  <2> QED
    BY <2>2, QuietStepPath
<1>9. CASE DataWakeup
  <2>1. SameOps /\ SameLines
    BY <1>9, SameBuffers DEF DataWakeup, SameOps, fetchVars, executeVars
  <2>2. QuietStep
    BY <1>1, <1>9, <2>1, NotDrained
       DEF QuietStep, SameBranches, SameLines, DataWakeup, Outside, fetchVars, executeVars, drainVars
  <2> QED
    BY <2>2, QuietStepPath
<1>10. CASE UNCHANGED vars
  <2>1. SameOps /\ SameLines
    BY <1>10, SameBuffers DEF vars, SameOps, fetchVars, executeVars
  <2>2. QuietStep
    BY <1>1, <1>10, <2>1 DEF QuietStep, SameBranches, SameLines, vars, fetchVars, executeVars, drainVars
  <2> QED
    BY <2>2, QuietStepPath
<1> QED
  BY <1>2, <1>3, <1>4, <1>5, <1>6, <1>7, <1>8, <1>9, <1>10

----------------------------------------------------------------------------
(* A drain that has halted fetch kills Execute's input. *)

Among(t, s) == \A k \in 1..Len(t) : \E n \in 1..Len(s) : t[k] = s[n]

LEMMA AmongRemoved ==
    ASSUME NEW S, NEW s \in Seq(S), NEW t \in Seq(S), NEW p, Removed(t, s, p)
    PROVE  Among(t, s)
<1> DEFINE n == Len(s)
<1> DEFINE m == Len(t)
<1>1. n \in Nat /\ m \in Nat /\ n = m + 1 /\ p \in 1..n
  BY ElementTypes DEF Removed
<1>2. \A k \in 1..m : t[k] = IF k < p THEN s[k] ELSE s[k + 1]
  BY DEF Removed
<1> HIDE DEF n, m
<1>3. ASSUME NEW k \in 1..m PROVE k \in 1..n /\ k + 1 \in 1..n
  BY <1>1
<1>4. \A k \in 1..m : \E j \in 1..n : t[k] = s[j]
  BY <1>2, <1>3
<1> QED
  BY <1>4 DEF Among, n, m

\* The middle part of a sequence is thrown away.
LEMMA MiddleKept ==
    ASSUME NEW S, NEW a \in Seq(S), NEW q \in Seq(S), NEW z \in Seq(S)
    PROVE  Kept(a \o z, a \o (q \o z)) /\ Among(a \o z, a \o (q \o z))
<1> DEFINE t == a \o z
<1> DEFINE s == a \o (q \o z)
<1> DEFINE i == Len(a)
<1> DEFINE j == Len(q)
<1> DEFINE l == Len(z)
<1>1. q \o z \in Seq(S)
  BY JoinedElements
<1>2. i \in Nat /\ j \in Nat /\ l \in Nat /\ Len(t) = i + l /\ Len(s) = i + (j + l)
  BY <1>1, JoinedElements
<1>3. \A k \in 1..i : t[k] = a[k] /\ s[k] = a[k]
  BY <1>1, JoinedElements
<1>4. \A k \in 1..l : t[k + i] = z[k]
  BY JoinedElements
<1>5. \A k \in 1..l : (q \o z)[k + j] = z[k]
  BY JoinedElements
<1>6. \A k \in 1..Len(q \o z) : s[k + i] = (q \o z)[k]
  BY <1>1, JoinedElements
<1>7. Len(q \o z) = j + l
  BY JoinedElements
<1> DEFINE r == q \o z
<1> HIDE DEF t, s, i, j, l, r
<1>8. ASSUME NEW k \in 1..l PROVE s[k + j + i] = z[k]
  <2> DEFINE h == k + j
  <2>1. h \in 1..(j + l)
    BY <1>2
  <2>2. s[h + i] = r[h]
    BY <1>6, <1>7, <2>1 DEF r
  <2>3. r[h] = z[k]
    BY <1>5 DEF r
  <2> QED
    BY <2>2, <2>3
<1> DEFINE at(k) == IF k <= i THEN k ELSE k + j
<1>9. \A k \in 1..Len(t) : at(k) \in 1..Len(s)
  BY <1>2
<1>10. \A g, h \in 1..Len(t) : g < h => at(g) < at(h)
  BY <1>2
<1>11. ASSUME NEW k \in 1..Len(t) PROVE t[k] = s[at(k)]
  <2>1. CASE k <= i
    <3>1. k \in 1..i
      BY <1>2, <2>1
    <3> QED
      BY <1>3, <2>1, <3>1
  <2>2. CASE ~(k <= i)
    <3> DEFINE h == k - i
    <3>1. h \in 1..l /\ h + i = k /\ h + j + i = at(k)
      BY <1>2, <2>2
    <3> HIDE DEF h, at
    <3>2. t[h + i] = z[h] /\ s[h + j + i] = z[h]
      BY <1>4, <1>8, <3>1
    <3> QED
      BY <3>1, <3>2
  <2> QED
    BY <2>1, <2>2
<1> HIDE DEF at
<1>12. Among(t, s)
  BY <1>9, <1>11 DEF Among
<1>13. \A k \in 1..Len(t) : \E n \in 1..Len(s) : t[k].stream = s[n].stream /\ t[k].pred = s[n].pred
  BY <1>9, <1>11
<1>14. \A g, h \in 1..Len(t) : g < h => \E m, n \in 1..Len(s) :
        m < n /\ t[g].stream = s[m].stream /\ t[h].stream = s[n].stream
  BY <1>9, <1>10, <1>11
<1>15. Kept(t, s)
  BY <1>13, <1>14 DEF Kept
<1> QED
  BY <1>12, <1>15 DEF t, s

\* What is left of well-formed work is well formed.
LEMMA AmongWellFormed ==
    ASSUME NEW s, NEW t, NEW c, Among(t, s), \A k \in 1..Len(s) : WellFormed(s[k], c)
    PROVE  \A k \in 1..Len(t) : WellFormed(t[k], c)
  BY DEF Among

LEMMA StartsOver ==
    ASSUME TypeOK', AtStreamStart'
    PROVE  StreamsOrdered' /\ OpsPath' /\ LinesPath'
  BY NothingCurrent, PTL

LEMMA BeginCyclePath ==
    ASSUME TypeOK, TypeOK', CreditInv, PathInv, PathTypeOK, PathTypeOK', BeginCycle
    PROVE  PathInv'
<1>1. Undecoded' = Undecoded /\ SameLines
  BY DeliverExecutePath
<1>2. /\ UNCHANGED <<fetch1, fetch2, f2ToF1, microop, exec, eToF1, arch, status, drain>>
      /\ phase = "between" /\ phase' = "commit"
      /\ drain # "Drained"
  BY DEF BeginCycle, StartCycle, fetchVars, executeVars, drainVars
<1>3. \A s : SameKeys(s, s)
  BY DEF SameKeys
<1>4. CASE Decoded' = Decoded
  <2>1. QuietStep
    BY <1>1, <1>2, <1>3, <1>4 DEF QuietStep, SameBranches, SameOps, SameLines
  <2> QED
    BY <2>1, QuietStepPath
<1>5. CASE /\ exec.drainState = "DrainAllInsts"
           /\ Decoded = inFlight \o (Into("execute") \o Into("dummy"))
           /\ Decoded' = inFlight \o Into("dummy")
  <2>1. Kept(Decoded', Decoded) /\ Among(Decoded', Decoded)
    <3>1. inFlight \in Seq(Insts) /\ Into("execute") \in Seq(Insts) /\ Into("dummy") \in Seq(Insts)
      BY BufferTypes
    <3> QED
      BY <1>5, <3>1, MiddleKept
  <2>2. WorkKept
    BY <1>1, <2>1, KeptReflexive DEF WorkKept, SameLines
  <2>3. SameStream
    BY <1>2 DEF SameStream, SameBranches
  <2>4. exec'.lastPred <= fetch2.pred
    BY <1>2 DEF PathInv, PredictionsKnown
  <2>5. StreamsKnown' /\ PredictionsKnown'
    BY <2>2, <2>3, <2>4, KeptStreamsKnown DEF PathInv
  <2>6. StreamStarts'
    BY <1>2, <2>2, <2>3, KeptStreamStarts DEF PathInv
  <2>7. LinesOfFetch1'
    BY <1>1, <1>2 DEF LinesOfFetch1, SameLines, PathInv
  <2>8. OpsWellFormed'
    <3>1. \A k \in 1..Len(Decoded') : WellFormed(Decoded'[k], exec.stream)
      BY <2>1, AmongWellFormed DEF PathInv, OpsWellFormed
    <3> QED
      BY <1>1, <1>2, <3>1 DEF OpsWellFormed, PathInv
  <2>9. AtStreamStart'
    <3>1. NoneCurrent'
      BY <1>5, <2>2, <2>3, KeptNoneCurrent DEF PathInv, StreamStarts
    <3>2. PendingPredictions' = PendingPredictions
      BY <2>3, SamePending
    <3>3. \A b \in PendingPredictions : b.reason = "BranchPrediction"
      BY DEF PathInv, LinesPath, PredictionsFollow
    <3>4. arch.upc = 0 /\ (fetch1.stream = exec.stream => fetch1.state # "Running")
      BY <1>5 DEF PathInv, OpsWellFormed, StreamStarts
    <3> QED
      BY <1>2, <3>1, <3>2, <3>3, <3>4 DEF AtStreamStart
  <2>10. DrainPath'
    BY <1>2 DEF DrainPath, PathInv
  <2> QED
    BY <2>5, <2>6, <2>7, <2>8, <2>9, <2>10, StartsOver DEF PathInv
<1> QED
  BY <1>4, <1>5, DeliverExecutePath

----------------------------------------------------------------------------
(* Execute changes the stream: nothing in the pipeline is of the new one. *)

NewStream(b) ==
    /\ Kept(Decoded', Decoded) /\ Among(Decoded', Decoded)
    /\ Undecoded' = Undecoded /\ SameLines
    /\ exec'.stream = exec.stream + 1
    /\ exec'.lastPred <= fetch2.pred
    /\ eToF1' = [eToF1 EXCEPT !.in = b]
    /\ b \in Branches
    /\ b.stream = exec.stream + 1 /\ b.pred <= fetch2.pred
    /\ b.reason # "HaltFetch" => b.target = arch'.pc
    /\ exec'.drainState = "DrainAllInsts" => b.reason = "HaltFetch"
    /\ exec'.drainState = "DrainHaltFetch" => exec'.endOfMacroop
    /\ arch'.upc = 0
    /\ UNCHANGED <<fetch1, fetch2, f2ToF1, microop, drain>>
    /\ {phase, phase'} \cap {"advance", "fetch1"} = {}
    /\ drain # "Drained"
    /\ drain = "Running" => exec'.drainState = "NotDraining"

LEMMA NewStreamPath ==
    ASSUME TypeOK, TypeOK', PathInv, PathTypeOK, PathTypeOK', NEW b, NewStream(b)
    PROVE  PathInv'
<1> DEFINE c == exec.stream
<1>1. c \in Nat /\ c' = c + 1
  BY DEF NewStream, TypeOK, ExecuteTypeOK, SeqNum
<1>2. /\ \A k \in 1..Len(Decoded') : Decoded'[k].stream <= c
      /\ \A k \in 1..Len(Undecoded') : Undecoded'[k].stream <= c
      /\ \A k \in 1..Len(Fetched') : Fetched'[k].stream <= c
  <2>1. /\ \A k \in 1..Len(Decoded) : Decoded[k].stream <= c
        /\ \A k \in 1..Len(Undecoded) : Undecoded[k].stream <= c
        /\ \A k \in 1..Len(Fetched) : Fetched[k].stream <= c
    BY DEF PathInv, StreamsKnown
  <2> HIDE DEF c
  <2>2. \A k \in 1..Len(Decoded') : Decoded'[k].stream <= c
    BY <2>1, KeptStreams DEF NewStream
  <2> QED
    BY <2>1, <2>2 DEF NewStream, SameLines
<1>3. /\ \A k \in 1..Len(Decoded') : Decoded'[k].pred <= fetch2.pred
      /\ \A k \in 1..Len(Undecoded') : Undecoded'[k].pred <= fetch2.pred
      /\ \A k \in 1..Len(Fetched') : Fetched'[k].pred <= fetch2.pred
  <2>1. /\ \A k \in 1..Len(Decoded) : Decoded[k].pred <= fetch2.pred
        /\ \A k \in 1..Len(Undecoded) : Undecoded[k].pred <= fetch2.pred
        /\ \A k \in 1..Len(Fetched) : Fetched[k].pred <= fetch2.pred
    BY DEF PathInv, PredictionsKnown
  <2>2. \A k \in 1..Len(Decoded') : Decoded'[k].pred <= fetch2.pred
    BY <2>1, KeptStreams DEF NewStream
  <2> QED
    BY <2>1, <2>2 DEF NewStream, SameLines
<1>4. /\ \A k \in 1..Len(Decoded') : Decoded'[k].stream \in Nat
      /\ \A k \in 1..Len(Undecoded') : Undecoded'[k].stream \in Nat
      /\ \A k \in 1..Len(Fetched') : Fetched'[k].stream \in Nat
  <2>1. /\ \A k \in 1..Len(Decoded') : Decoded'[k] \in Insts
        /\ \A k \in 1..Len(Undecoded') : Undecoded'[k] \in Insts
        /\ \A k \in 1..Len(Fetched') : Fetched'[k] \in Lines \cup Fetches
    BY ElementTypes DEF PathTypeOK
  <2>2. \A x \in Insts \cup (Lines \cup Fetches) : x.stream \in Nat
    BY DEF Insts, Lines, Fetches, SeqNum
  <2> QED
    BY <2>1, <2>2
<1>5. NoneOf(Decoded', c') /\ NoneOf(Undecoded', c') /\ NoneOf(Fetched', c')
  <2> HIDE DEF c
  <2> QED
    BY <1>1, <1>2, <1>4 DEF NoneOf
<1>6. eToF1'.in = b /\ eToF1'.out = eToF1.out
  BY DEF NewStream, TypeOK, CycleTypeOK
<1>7. /\ fetch1.stream \in Nat /\ eToF1.out.stream \in Nat
      /\ f2ToF1.in.stream \in Nat /\ f2ToF1.out.stream \in Nat
      /\ fetch2.expectedStream \in Nat /\ fetch2.lastStream \in Nat
      /\ b.stream \in Nat
  BY DEF TypeOK, CycleTypeOK, FetchTypeOK, Branches, SeqNum, Fetch1ThreadInfo, NewStream
<1>8. /\ fetch1.stream <= c /\ eToF1.out.stream <= c
      /\ f2ToF1.in.stream <= c /\ f2ToF1.out.stream <= c
      /\ fetch2.expectedStream <= c /\ fetch2.lastStream <= c
  BY DEF PathInv, StreamsKnown
<1>9. /\ fetch1.stream # c' /\ eToF1.out.stream # c'
      /\ f2ToF1.in.stream # c' /\ f2ToF1.out.stream # c'
      /\ fetch2.expectedStream # c' /\ fetch2.lastStream # c'
  <2> HIDE DEF c
  <2> QED
    BY <1>1, <1>7, <1>8
<1>10. PendingPredictions' = PendingPredictions
  BY DEF PendingPredictions, NewStream, IsStreamChange
<1>11. \A p \in PendingPredictions : p.stream # c' /\ p.reason = "BranchPrediction"
  <2>1. \A p \in PendingPredictions : p = f2ToF1.in \/ p = f2ToF1.out
    BY DEF PendingPredictions
  <2>2. \A p \in PendingPredictions : p.reason = "BranchPrediction"
    BY DEF PathInv, LinesPath, PredictionsFollow
  <2> QED
    BY <1>9, <2>1, <2>2
<1>12. NoneCurrent'
  BY <1>5, <1>9, <1>10, <1>11 DEF NoneCurrent, NewStream
<1>13. AtStreamStart'
  BY <1>9, <1>10, <1>11, <1>12 DEF AtStreamStart, NewStream
<1>14. StreamsKnown'
  <2>1. \A k \in 1..Len(Decoded') : Decoded'[k].stream <= c + 1
    BY <1>1, <1>2, <1>4
  <2>2. \A k \in 1..Len(Undecoded') : Undecoded'[k].stream <= c + 1
    BY <1>1, <1>2, <1>4
  <2>3. \A k \in 1..Len(Fetched') : Fetched'[k].stream <= c + 1
    BY <1>1, <1>2, <1>4
  <2>4. /\ fetch1.stream <= c + 1 /\ eToF1.out.stream <= c + 1 /\ b.stream <= c + 1
        /\ f2ToF1.in.stream <= c + 1 /\ f2ToF1.out.stream <= c + 1
        /\ fetch2.expectedStream <= c + 1 /\ fetch2.lastStream <= c + 1
    <3>1. b.stream = c + 1
      BY DEF NewStream
    <3> HIDE DEF c
    <3> QED
      BY <1>1, <1>7, <1>8, <3>1
  <2> QED
    BY <1>1, <1>6, <2>1, <2>2, <2>3, <2>4 DEF StreamsKnown, NewStream
<1>15. PredictionsKnown'
  BY <1>3, <1>6 DEF PathInv, PredictionsKnown, NewStream
<1>16. StreamStarts'
  <2>1. \A x \in PendingBranches' : x = b \/ x = eToF1.out
    BY <1>6 DEF PendingBranches, NewStream
  <2>2. ASSUME NEW x \in PendingBranches'
        PROVE  /\ x.stream = c' /\ x.reason # "HaltFetch" => x.target = (arch.pc)'
               /\ x.stream = c' /\ exec'.drainState = "DrainAllInsts" => x.reason = "HaltFetch"
    BY <1>9, <2>1 DEF NewStream
  <2> QED
    BY <1>6, <1>9, <1>12, <2>2 DEF StreamStarts, NewStream
<1>17. LinesOfFetch1'
  BY DEF LinesOfFetch1, NewStream, SameLines, PathInv
<1>18. OpsWellFormed'
  <2>1. /\ \A k \in 1..Len(Decoded') : WellFormed(Decoded'[k], c)
        /\ \A k \in 1..Len(Undecoded') : WellFormed(Undecoded'[k], c)
    BY AmongWellFormed DEF PathInv, OpsWellFormed, NewStream
  <2>2. /\ \A k \in 1..Len(Decoded') : WellFormed(Decoded'[k], c')
        /\ \A k \in 1..Len(Undecoded') : WellFormed(Undecoded'[k], c')
    BY <1>5, <2>1 DEF WellFormed, NoneOf
  <2> QED
    BY <2>2 DEF OpsWellFormed, PathInv, NewStream
<1>19. DrainPath'
  BY DEF DrainPath, NewStream
<1> QED
  BY <1>13, <1>14, <1>15, <1>16, <1>17, <1>18, <1>19, StartsOver DEF PathInv

LEMMA TakeInterruptPath ==
    ASSUME TypeOK, TypeOK', PathInv, PathTypeOK, PathTypeOK', TakeInterrupt
    PROVE  PathInv'
<1> DEFINE u == UpdateBranchData("Interrupt", exec.lastPred, Handler)
<1>1. "Interrupt" \in Reasons /\ exec.lastPred \in SeqNum /\ Handler \in PCs
  BY AddressTypes DEF Reasons, TypeOK, ExecuteTypeOK
<1>2. u.branch \in Branches
  BY <1>1, UpdateBranchDataType DEF TypeOK
<1>3. /\ u.stream = exec.stream + 1
      /\ u.branch.stream = exec.stream + 1 /\ u.branch.reason = "Interrupt"
      /\ u.branch.pred = exec.lastPred /\ u.branch.target = Handler
  BY DEF UpdateBranchData
<1>4. Decoded' = Decoded /\ Undecoded' = Undecoded /\ SameLines
  BY DeliverExecutePath DEF TakeInterrupt, BeginCycle
<1>5. Kept(Decoded', Decoded) /\ Among(Decoded', Decoded)
  BY <1>4, KeptReflexive DEF Among
<1>6. /\ exec' = [exec EXCEPT !.stream = u.stream] /\ eToF1' = [eToF1 EXCEPT !.in = u.branch]
      /\ arch' = At(Handler) /\ exec.drainState = "NotDraining"
      /\ UNCHANGED <<fetch1, fetch2, f2ToF1, microop, drain>>
      /\ phase = "between" /\ phase' = "dummy" /\ drain # "Drained"
  BY DEF TakeInterrupt, StartCycle, fetchVars, drainVars
<1>7. exec'.stream = u.stream /\ exec'.lastPred = exec.lastPred /\ exec'.drainState = "NotDraining"
  BY <1>6 DEF TypeOK, ExecuteTypeOK
<1>8. exec.lastPred <= fetch2.pred
  BY DEF PathInv, PredictionsKnown
<1>9. NewStream(u.branch)
  <2> HIDE DEF u
  <2> QED
    BY <1>2, <1>3, <1>4, <1>5, <1>6, <1>7, <1>8 DEF NewStream, At
<1> QED
  BY <1>9, NewStreamPath

LEMMA EndCommitPath ==
    ASSUME TypeOK, TypeOK', PathInv, PathTypeOK, PathTypeOK', EndCommit
    PROVE  PathInv'
<1> DEFINE state == IF exec.drainState = "DrainCurrentInst" /\ InbetweenInsts
                    THEN "DrainHaltFetch" ELSE exec.drainState
<1> DEFINE u == UpdateBranchData("HaltFetch", exec.lastPred, 0)
<1>1. "HaltFetch" \in Reasons /\ exec.lastPred \in SeqNum /\ 0 \in PCs
  BY AddressTypes DEF Reasons, TypeOK, ExecuteTypeOK
<1>2. u.branch \in Branches
  BY <1>1, UpdateBranchDataType DEF TypeOK
<1>3. /\ u.stream = exec.stream + 1
      /\ u.branch.stream = exec.stream + 1 /\ u.branch.reason = "HaltFetch"
      /\ u.branch.pred = exec.lastPred
  BY DEF UpdateBranchData
<1>4. SameOps /\ SameLines
  BY SameBuffers DEF EndCommit, SameOps, fetchVars
<1>5. /\ UNCHANGED <<fetch1, fetch2, f2ToF1, microop, arch, status, drain>>
      /\ phase = "commit" /\ phase' = "issue"
  BY DEF EndCommit, fetchVars, drainVars
<1>6. drain # "Drained"
  BY <1>5, NotDrained
<1>7. CASE state = "DrainHaltFetch"
  <2>1. /\ exec' = [exec EXCEPT !.stream = u.stream, !.drainState = "DrainAllInsts"]
        /\ eToF1' = [eToF1 EXCEPT !.in = u.branch]
    BY <1>7 DEF EndCommit
  <2>2. exec'.stream = u.stream /\ exec'.lastPred = exec.lastPred /\ exec'.drainState = "DrainAllInsts"
    BY <2>1 DEF TypeOK, ExecuteTypeOK
  <2>3. exec.endOfMacroop /\ exec.drainState # "NotDraining"
    BY <1>7 DEF PathInv, OpsWellFormed, InbetweenInsts
  <2>4. arch.upc = 0 /\ drain # "Running" /\ exec.lastPred <= fetch2.pred
    BY <2>3 DEF PathInv, OpsWellFormed, DrainPath, PredictionsKnown
  <2>5. Kept(Decoded', Decoded) /\ Among(Decoded', Decoded)
    BY <1>4, KeptReflexive DEF Among, SameOps
  <2>6. NewStream(u.branch)
    <3> HIDE DEF u
    <3> QED
      BY <1>2, <1>3, <1>4, <1>5, <1>6, <2>1, <2>2, <2>4, <2>5 DEF NewStream, SameOps
  <2> QED
    BY <2>6, NewStreamPath
<1>8. CASE state = "DrainCurrentInst"
  <2>1. exec' = exec /\ eToF1' = [eToF1 EXCEPT !.in = NoBranch]
    BY <1>8 DEF EndCommit
  <2>2. SameBranches
    <3>1. eToF1'.in = NoBranch /\ eToF1'.out = eToF1.out
      BY <2>1 DEF TypeOK, CycleTypeOK
    <3>2. 0 <= exec.stream /\ 0 <= fetch2.pred
      BY DEF TypeOK, ExecuteTypeOK, FetchTypeOK, SeqNum
    <3> QED
      BY <3>1, <3>2, NoBranchType DEF SameBranches, IsStreamChange
  <2>3. QuietStep
    BY <1>4, <1>5, <1>6, <2>1, <2>2 DEF QuietStep, SameLines, SameKeys
  <2> QED
    BY <2>3, QuietStepPath
<1>9. CASE state \notin {"DrainHaltFetch", "DrainCurrentInst"}
  <2>1. exec' = exec /\ eToF1' = eToF1
    BY <1>9 DEF EndCommit
  <2>2. QuietStep
    BY <1>4, <1>5, <1>6, <2>1 DEF QuietStep, SameBranches, SameLines, SameKeys
  <2> QED
    BY <2>2, QuietStepPath
<1> QED
  BY <1>7, <1>8, <1>9

----------------------------------------------------------------------------
(* Instructions leave the pipeline. *)

\* Execute discards an instruction of an old stream.
LEMMA DiscardedPath ==
    ASSUME TypeOK, PathInv, PathTypeOK, PathTypeOK', NEW p, Removed(Decoded', Decoded, p),
           Decoded[p].stream # exec.stream, Undecoded' = Undecoded, SameLines,
           SameStream, fetch2' = fetch2, arch' = arch, microop' = microop, drain' = drain,
           exec'.lastPred <= fetch2.pred, exec'.endOfMacroop => arch.upc = 0,
           exec.drainState = "DrainHaltFetch" => exec'.endOfMacroop,
           {phase, phase'} \cap {"advance", "fetch1"} = {}, drain # "Drained"
    PROVE  PathInv'
<1> DEFINE c == exec.stream
<1> DEFINE y == YoungestNow
<1>1. /\ Decoded \in Seq(Insts) /\ Decoded' \in Seq(Insts) /\ Undecoded \in Seq(Insts)
      /\ Fetched \in LineSeqs /\ arch \in Words
  BY DEF PathTypeOK, LineSeqs, TypeOK, ExecuteTypeOK, Words
<1>2. Kept(Decoded', Decoded) /\ Among(Decoded', Decoded)
  BY <1>1, KeptRemoved, AmongRemoved
<1>3. WorkKept
  BY <1>2, KeptReflexive DEF WorkKept, SameLines
<1>4. StreamsKnown' /\ PredictionsKnown' /\ StreamsOrdered'
  BY <1>3, KeptStreamsKnown DEF PathInv
<1>5. StreamStarts'
  BY <1>3, KeptStreamStarts DEF PathInv
<1>6. LinesOfFetch1'
  BY DEF LinesOfFetch1, SameLines, SameStream, PathInv
<1>7. OpsWellFormed'
  <2>1. \A k \in 1..Len(Decoded') : WellFormed(Decoded'[k], c)
    BY <1>2, AmongWellFormed DEF PathInv, OpsWellFormed
  <2> QED
    BY <2>1 DEF OpsWellFormed, PathInv, SameStream
<1>8. /\ OpsFollow(Decoded, Undecoded, c, arch, microop)
      /\ OpsStart(Decoded, Undecoded, c, arch, microop)
      /\ Ordered(Decoded, c)
      /\ LinesFollow(Fetched, fetch1, y, c, arch, fetch2)
  BY DEF PathInv, OpsPath, StreamsOrdered, LinesPath, YoungestNow
<1> HIDE DEF c
<1>9. Decoded[p].stream # c
  BY DEF c
<1>10. /\ OpsFollow(Decoded', Undecoded, c, arch, microop)
       /\ OpsStart(Decoded', Undecoded, c, arch, microop)
  BY <1>1, <1>8, <1>9, RemovedOps
<1>11. OpsPath'
  BY <1>10 DEF OpsPath, c, SameStream
<1>12. SameEnd(y, arch, y', arch, c)
  BY <1>1, <1>8, <1>9, RemovedEnd DEF YoungestNow
<1>13. SameKeys(Fetched, Fetched)
  BY DEF SameKeys
<1> HIDE DEF y
<1>14. LinesFollow(Fetched, fetch1, y', c, arch, fetch2)
  BY <1>1, <1>8, <1>12, <1>13, SameLinesFollow
<1>15. LinesPath'
  BY <1>12, <1>14, KeptLinesPath DEF c, y, SameLines, PathInv
<1>16. DrainPath'
  BY DEF PathInv, DrainPath, SameStream
<1> QED
  BY <1>4, <1>5, <1>6, <1>7, <1>11, <1>15, <1>16 DEF PathInv

\* The elements of the pipeline's sequences in a state.
LEMMA HeadDecoded ==
    ASSUME TypeOK, PathTypeOK, inFlight # <<>>, Decoded[1] = Head(inFlight),
           1 \in 1..Len(Decoded)
    PROVE  Head(inFlight) \in Insts /\ Decoded # <<>>
<1>1. inFlight \in Seq(Insts) /\ Decoded \in Seq(Insts)
  BY DEF TypeOK, ExecuteTypeOK, PathTypeOK
<1> QED
  BY <1>1, HeadTailType, ElementTypes

LEMMA DiscardInstPath ==
    ASSUME TypeOK, PathInv, PathTypeOK, PathTypeOK', DiscardInst
    PROVE  PathInv'
<1> DEFINE i == Head(inFlight)
<1>1. /\ Undecoded' = Undecoded /\ SameLines
      /\ Removed(Decoded', Decoded, 1) /\ Decoded[1] = i
  BY CompletePath
<1>2. 1 \in 1..Len(Decoded)
  BY <1>1 DEF Removed
<1>3. i \in Insts /\ Decoded # <<>>
  BY <1>1, <1>2, HeadDecoded DEF DiscardInst, CanCommit
<1>4. /\ UNCHANGED <<phase, eToF1, fetch1, fetch2, f2ToF1, microop, arch, status, drain>>
      /\ phase = "commit" /\ exec.drainState # "DrainHaltFetch"
      /\ exec' = [exec EXCEPT !.stream = exec.stream, !.lastPred = i.pred,
                              !.endOfMacroop = LastOp(i)]
  BY DEF DiscardInst, CanCommit, Complete, fetchVars, drainVars
<1>5. /\ exec'.stream = exec.stream /\ exec'.lastPred = i.pred
      /\ exec'.drainState = exec.drainState
  BY <1>4 DEF TypeOK, ExecuteTypeOK
<1>6. i.stream # exec.stream
  <2>1. CASE exec.drainState = "DrainAllInsts"
    <3>1. NoneOf(Decoded, exec.stream)
      BY <2>1 DEF PathInv, StreamStarts, NoneCurrent
    <3> QED
      BY <1>1, <1>2, <3>1 DEF NoneOf
  <2> QED
    BY <2>1 DEF DiscardInst, Discardable
<1>7. i.pred <= fetch2.pred
  BY <1>1, <1>2 DEF PathInv, PredictionsKnown
<1>8. arch.upc = 0
  BY <1>1, <1>3, <1>6 DEF PathInv, OpsPath, OpsStart
<1>9. SameStream
  BY <1>4, <1>5 DEF SameStream, SameBranches
<1>10. drain # "Drained"
  BY <1>4, NotDrained
<1>11. Decoded[1].stream # exec.stream
  BY <1>1, <1>6
<1> QED
  BY <1>1, <1>4, <1>5, <1>7, <1>8, <1>9, <1>10, <1>11, DiscardedPath

LEMMA DiscardInputPath ==
    ASSUME TypeOK, PathInv, PathTypeOK, PathTypeOK', DiscardInput
    PROVE  PathInv'
<1> DEFINE i == Head(buf["execute"].queue)
<1>1. Undecoded' = Undecoded /\ SameLines
  BY IssuePath
<1>2. PICK p \in 1..Len(Decoded) : Removed(Decoded', Decoded, p) /\ Decoded[p] = i
  BY IssuePath
<1>3. /\ UNCHANGED <<phase, eToF1, fetch1, fetch2, f2ToF1, microop, exec, arch, status, drain>>
      /\ phase = "issue"
  BY DEF DiscardInput, CanIssue, fetchVars, executeVars, drainVars
<1>4. Decoded[p].stream # exec.stream
  <2>1. CASE status = "Suspended"
    BY <2>1 DEF PathInv, StreamStarts, NoneCurrent, NoneOf
  <2> QED
    BY <1>2, <2>1 DEF DiscardInput, NotIssuable
<1>5. SameStream
  BY <1>3 DEF SameStream, SameBranches
<1>6. /\ exec'.lastPred <= fetch2.pred /\ (exec'.endOfMacroop => arch.upc = 0)
      /\ exec.drainState = "DrainHaltFetch" => exec'.endOfMacroop
  BY <1>3 DEF PathInv, PredictionsKnown, OpsWellFormed
<1>7. drain # "Drained"
  BY <1>3, NotDrained
<1> QED
  BY <1>1, <1>2, <1>3, <1>4, <1>5, <1>6, <1>7, DiscardedPath

\* Where the thread is after an instruction at its head: with a change of stream at
\* the start of an instruction, without one where the instruction's prediction says.
LEMMA OutcomePlace ==
    ASSUME NEW i \in Insts, i.predictedTaken => ~i.fault /\ Program[i.bytes] = "branch",
           NEW o \in Outcomes(i), NEW r \in BranchReasons(i, o)
    PROVE  LET suspends == Program[i.bytes] = "quiesce" /\ ~o.fault
               changes == suspends \/ r \notin {"NoBranch", "CorrectlyPredictedBranch"}
           IN  /\ LastOp(i) \/ changes => o.next.upc = 0
               /\ ~changes => ~i.fault /\ o.next = NextPlace(i)
<1> DEFINE follow == IF LastOp(i) THEN At(AfterPC(i.pc)) ELSE [pc |-> i.pc, upc |-> i.upc + 1]
<1> DEFINE kind == Program[i.bytes]
<1>1. \/ o = [next |-> At(Handler), must |-> TRUE, fault |-> TRUE]
      \/ ~i.fault /\ o = [next |-> follow, must |-> kind = "serial", fault |-> FALSE]
      \/ ~i.fault /\ kind = "branch" /\
           \E t \in PCs : o = [next |-> At(t), must |-> TRUE, fault |-> FALSE]
  BY DEF Outcomes
<1>2. kind # "macro" => LastOp(i)
  BY DEF LastOp
<1>3. \A pc : At(pc).upc = 0
  BY DEF At
<1>4. i.predictedTaken \in BOOLEAN
  BY DEF Insts
<1>5. CASE i.predictedTaken
  <2>1. LastOp(i) /\ kind = "branch" /\ ~i.fault
    BY <1>2, <1>5
  <2>2. NextPlace(i) = At(i.predictedTarget)
    BY <1>5, <2>1 DEF NextPlace, NextPC
  <2>3. r \in {"NoBranch", "CorrectlyPredictedBranch"} => o.next = At(i.predictedTarget)
    BY <1>5 DEF BranchReasons
  <2>4. o.next.upc = 0
    BY <1>1, <1>3, <2>1
  <2> QED
    BY <2>1, <2>2, <2>3, <2>4
<1>6. CASE ~i.predictedTaken
  <2>1. r = IF o.must THEN "UnpredictedBranch" ELSE "NoBranch"
    BY <1>6 DEF BranchReasons
  <2>2. LastOp(i) => follow = At(AfterPC(i.pc))
    OBVIOUS
  <2>3. follow = NextPlace(i)
    BY <1>6 DEF NextPlace, NextPC
  <2> HIDE DEF follow
  <2>4. CASE o = [next |-> At(Handler), must |-> TRUE, fault |-> TRUE]
    BY <1>3, <2>1, <2>4
  <2>5. CASE ~i.fault /\ o = [next |-> follow, must |-> kind = "serial", fault |-> FALSE]
    <3>1. o.next = follow /\ (o.must <=> kind = "serial") /\ ~o.fault
      BY <2>5
    <3>2. LastOp(i) => o.next.upc = 0
      BY <1>3, <2>2, <3>1
    <3> QED
      BY <1>2, <2>1, <2>3, <2>5, <3>1, <3>2
  <2>6. CASE \E t \in PCs : o = [next |-> At(t), must |-> TRUE, fault |-> FALSE]
    BY <1>3, <2>1, <2>6
  <2> QED
    BY <1>1, <2>4, <2>5, <2>6
<1> QED
  BY <1>4, <1>5, <1>6

\* The instruction that commits: all of the pipeline is of its stream, and it is at
\* the thread's PC.
LEMMA CommittingHead ==
    ASSUME TypeOK, PathInv, PathTypeOK, inFlight # <<>>, Decoded[1] = Head(inFlight),
           1 \in 1..Len(Decoded), Head(inFlight).stream = exec.stream
    PROVE  LET i == Head(inFlight)
               c == exec.stream
           IN  /\ i \in Insts
               /\ AllOf(Decoded, c) /\ AllOf(Undecoded, c) /\ AllOf(Fetched, c)
               /\ fetch1.stream = c
               /\ PendingBranches = {}
               /\ status # "Suspended" /\ exec.drainState # "DrainAllInsts"
               /\ Place(i) = arch
               /\ i.pred <= fetch2.pred
               /\ WellFormed(i, c)
<1> DEFINE i == Head(inFlight)
<1> DEFINE c == exec.stream
<1>1. i \in Insts /\ Decoded # <<>>
  BY HeadDecoded
<1>2. ~NoneOf(Decoded, c)
  BY DEF NoneOf
<1>3. AllOf(Undecoded, c) /\ AllOf(Fetched, c) /\ fetch1.stream = c /\ Ordered(Decoded, c)
  BY <1>2 DEF PathInv, StreamsOrdered
<1>4. AllOf(Decoded, c)
  <2>1. \A k \in 1..Len(Decoded) : k = 1 \/ 1 < k
    BY ElementTypes DEF PathTypeOK
  <2> QED
    BY <1>3, <2>1 DEF AllOf, Ordered
<1>5. ~NoneCurrent
  BY <1>2 DEF NoneCurrent
<1>6. PendingBranches = {} /\ status # "Suspended" /\ exec.drainState # "DrainAllInsts"
  BY <1>5 DEF PathInv, StreamStarts
<1>7. Place(i) = arch
  BY <1>1 DEF PathInv, OpsPath, OpsStart
<1>8. i.pred <= fetch2.pred /\ WellFormed(i, c)
  BY DEF PathInv, PredictionsKnown, OpsWellFormed
<1> QED
  BY <1>1, <1>3, <1>4, <1>6, <1>7, <1>8

LEMMA CommitInstPath ==
    ASSUME TypeOK, TypeOK', PathInv, PathTypeOK, PathTypeOK', CommitInst
    PROVE  PathInv'
<1> DEFINE i == Head(inFlight)
<1> DEFINE c == exec.stream
<1> DEFINE y == YoungestNow
<1>1. /\ Undecoded' = Undecoded /\ SameLines
      /\ Removed(Decoded', Decoded, 1) /\ Decoded[1] = i
  BY CompletePath
<1>2. 1 \in 1..Len(Decoded)
  BY <1>1 DEF Removed
<1>3. /\ UNCHANGED <<phase, fetch1, fetch2, f2ToF1, microop, drain>>
      /\ phase = "commit" /\ exec.drainState # "DrainHaltFetch" /\ inFlight # <<>>
      /\ i.stream = c /\ ~IsStreamChange(eToF1.in)
  BY DEF CommitInst, CanCommit, Discardable, fetchVars, drainVars
<1>4. /\ i \in Insts
      /\ AllOf(Decoded, c) /\ AllOf(Undecoded, c) /\ AllOf(Fetched, c)
      /\ fetch1.stream = c /\ PendingBranches = {}
      /\ status # "Suspended" /\ exec.drainState # "DrainAllInsts"
      /\ i.pred <= fetch2.pred /\ WellFormed(i, c)
  BY <1>1, <1>2, <1>3, CommittingHead
<1>5. PICK o \in Outcomes(i) : \E r \in BranchReasons(i, o) :
        LET suspends == Program[i.bytes] = "quiesce" /\ ~o.fault
            u == UpdateBranchData(IF suspends THEN "SuspendThread" ELSE r, i.pred, o.next.pc)
        IN  /\ Complete(i, u.stream)
            /\ eToF1' = [eToF1 EXCEPT !.in = u.branch]
            /\ arch' = o.next
            /\ status' = IF suspends THEN "Suspended" ELSE status
  BY CommitInstParts
<1>6. PICK r \in BranchReasons(i, o) :
        LET suspends == Program[i.bytes] = "quiesce" /\ ~o.fault
            u == UpdateBranchData(IF suspends THEN "SuspendThread" ELSE r, i.pred, o.next.pc)
        IN  /\ Complete(i, u.stream)
            /\ eToF1' = [eToF1 EXCEPT !.in = u.branch]
            /\ arch' = o.next
            /\ status' = IF suspends THEN "Suspended" ELSE status
  BY <1>5
<1> DEFINE suspends == Program[i.bytes] = "quiesce" /\ ~o.fault
<1> DEFINE why == IF suspends THEN "SuspendThread" ELSE r
<1> DEFINE changes == why \notin {"NoBranch", "CorrectlyPredictedBranch"}
<1> DEFINE u == UpdateBranchData(why, i.pred, o.next.pc)
<1>7. /\ LastOp(i) \/ changes => o.next.upc = 0
      /\ ~changes => ~i.fault /\ o.next = NextPlace(i)
  BY <1>4, OutcomePlace DEF WellFormed
<1>8. /\ exec' = [exec EXCEPT !.stream = u.stream, !.lastPred = i.pred, !.endOfMacroop = LastOp(i)]
      /\ eToF1' = [eToF1 EXCEPT !.in = u.branch]
      /\ arch' = o.next
      /\ status' = IF suspends THEN "Suspended" ELSE status
  BY <1>6 DEF Complete
<1>9. /\ exec'.stream = u.stream /\ exec'.lastPred = i.pred
      /\ exec'.drainState = exec.drainState /\ exec'.endOfMacroop = LastOp(i)
  BY <1>8 DEF TypeOK, ExecuteTypeOK
<1>10. drain # "Drained"
  BY <1>3, NotDrained
<1>11. Decoded \in Seq(Insts) /\ Decoded' \in Seq(Insts) /\ Undecoded \in Seq(Insts)
  BY DEF PathTypeOK
<1>12. Kept(Decoded', Decoded) /\ Among(Decoded', Decoded)
  BY <1>1, <1>11, KeptRemoved, AmongRemoved
<1>13. u.branch \in Branches
  <2>1. why \in Reasons
    BY BranchReasonsType DEF Reasons
  <2>2. i.pred \in SeqNum /\ o.next.pc \in PCs
    BY <1>4, OutcomesType DEF Insts
  <2> HIDE DEF why
  <2> QED
    BY <2>1, <2>2, UpdateBranchDataType DEF TypeOK
<1>14. CASE changes
  <2>1. /\ u.stream = c + 1 /\ u.branch.stream = c + 1 /\ u.branch.pred = i.pred
        /\ u.branch.target = o.next.pc
    <3> HIDE DEF why
    <3> QED
      BY <1>14 DEF UpdateBranchData
  <2>2. drain = "Running" => exec'.drainState = "NotDraining"
    BY <1>9 DEF PathInv, DrainPath
  <2> HIDE DEF u, changes
  <2>3. NewStream(u.branch)
    BY <1>1, <1>3, <1>4, <1>7, <1>8, <1>9, <1>10, <1>12, <1>13, <1>14, <2>1, <2>2 DEF NewStream
  <2> QED
    BY <2>3, NewStreamPath
<1>15. CASE ~changes
  <2>1. ~suspends /\ ~i.fault /\ arch' = NextPlace(i) /\ status' = status
    BY <1>7, <1>8, <1>15
  <2>2. /\ u.stream = c
        /\ \/ u.branch = eToF1.in
           \/ /\ u.branch.reason = "CorrectlyPredictedBranch"
              /\ u.branch.stream = c /\ u.branch.pred = i.pred
    <3> HIDE DEF why
    <3> QED
      BY <1>15 DEF UpdateBranchData
  <2>3. SameBranches
    <3>1. eToF1'.in = u.branch /\ eToF1'.out = eToF1.out
      BY <1>8 DEF TypeOK, CycleTypeOK
    <3>2. CASE u.branch = eToF1.in
      <4>1. eToF1.in.stream <= exec.stream /\ eToF1.in.pred <= fetch2.pred
        BY DEF PathInv, StreamsKnown, PredictionsKnown
      <4> QED
        BY <3>1, <3>2, <4>1 DEF SameBranches
    <3>3. CASE /\ u.branch.reason = "CorrectlyPredictedBranch"
               /\ u.branch.stream = c /\ u.branch.pred = i.pred
      <4>1. c <= c
        BY DEF TypeOK, ExecuteTypeOK, SeqNum
      <4> QED
        BY <1>4, <3>1, <3>3, <4>1 DEF SameBranches, IsStreamChange
    <3> QED
      BY <2>2, <3>2, <3>3
  <2> HIDE DEF u, changes, suspends
  <2>4. SameStream
    BY <1>3, <1>9, <2>1, <2>2, <2>3 DEF SameStream
  <2>5. WorkKept
    BY <1>1, <1>12, KeptReflexive DEF WorkKept, SameLines
  <2>6. StreamsKnown' /\ PredictionsKnown' /\ StreamsOrdered'
    BY <1>4, <1>9, <2>4, <2>5, KeptStreamsKnown DEF PathInv
  <2>7. StreamStarts'
    BY <1>4, <2>4, <2>5, KeptStreamStarts DEF PathInv
  <2>8. LinesOfFetch1'
    BY <1>1, <1>3 DEF LinesOfFetch1, SameLines, PathInv
  <2>9. OpsWellFormed'
    <3>1. \A k \in 1..Len(Decoded') : WellFormed(Decoded'[k], c)
      BY <1>12, AmongWellFormed DEF PathInv, OpsWellFormed
    <3>2. exec'.stream = c
      BY <1>9, <2>2
    <3> QED
      BY <1>1, <1>3, <1>4, <1>7, <1>8, <1>9, <3>1, <3>2 DEF OpsWellFormed, PathInv
  <2>10. /\ OpsFollow(Decoded, Undecoded, c, arch, microop)
         /\ LinesFollow(Fetched, fetch1, y, c, arch, fetch2)
    BY DEF PathInv, OpsPath, LinesPath, YoungestNow
  <2>11. arch' = NextPlace(Decoded[1]) /\ ~Decoded[1].fault /\ exec'.stream = c
    BY <1>1, <1>9, <2>1, <2>2
  <2> HIDE DEF c
  <2>12. /\ OpsFollow(Decoded', Undecoded, c, arch', microop)
         /\ OpsStart(Decoded', Undecoded, c, arch', microop)
    BY <1>1, <1>4, <1>11, <2>10, <2>11, CommittedOps
  <2>13. OpsPath'
    BY <1>1, <1>3, <2>11, <2>12 DEF OpsPath
  <2>14. SameEnd(y, arch, y', arch', c)
    BY <1>1, <1>4, <1>11, <2>10, <2>11, CommittedEnd DEF YoungestNow
  <2>15. SameKeys(Fetched, Fetched) /\ Fetched \in LineSeqs
    BY DEF SameKeys, PathTypeOK, LineSeqs
  <2> HIDE DEF y
  <2>16. LinesFollow(Fetched, fetch1, y', c, arch', fetch2)
    BY <2>10, <2>14, <2>15, SameLinesFollow
  <2>17. LinesPath'
    BY <1>1, <1>3, <2>4, <2>14, <2>16, KeptLinesPath DEF c, y, SameLines, PathInv
  <2>18. DrainPath'
    BY <1>3, <1>9, <1>10 DEF PathInv, DrainPath
  <2> QED
    BY <2>6, <2>7, <2>8, <2>9, <2>13, <2>17, <2>18 DEF PathInv
<1> QED
  BY <1>14, <1>15

----------------------------------------------------------------------------
(* Decode. *)

LEMMA AppendStreams ==
    ASSUME NEW S, NEW s \in Seq(S), NEW x \in S, NEW c
    PROVE  LET t == Append(s, x)
           IN  /\ Ordered(s, c) /\ (NoneOf(s, c) \/ x.stream = c) => Ordered(t, c)
               /\ AllOf(s, c) /\ x.stream = c => AllOf(t, c)
               /\ NoneOf(s, c) /\ x.stream # c => NoneOf(t, c)
               /\ (\A k \in 1..Len(s) : s[k].stream <= c) /\ x.stream <= c =>
                    \A k \in 1..Len(t) : t[k].stream <= c
               /\ (\A k \in 1..Len(s) : s[k].pred <= c) /\ x.pred <= c =>
                    \A k \in 1..Len(t) : t[k].pred <= c
               /\ (\A k \in 1..Len(s) : WellFormed(s[k], c)) /\ WellFormed(x, c) =>
                    \A k \in 1..Len(t) : WellFormed(t[k], c)
<1> DEFINE t == Append(s, x)
<1> DEFINE n == Len(s)
<1>1. n \in Nat /\ Len(t) = n + 1 /\ (\A k \in 1..n : t[k] = s[k]) /\ t[n + 1] = x
  BY AppendElements
<1> HIDE DEF t, n
<1>2. \A k \in 1..Len(t) : (k \in 1..n /\ t[k] = s[k]) \/ (k = n + 1 /\ t[k] = x)
  BY <1>1
<1>3. Ordered(s, c) /\ (NoneOf(s, c) \/ x.stream = c) => Ordered(t, c)
  <2>1. SUFFICES ASSUME Ordered(s, c), NoneOf(s, c) \/ x.stream = c,
                        NEW j \in 1..Len(t), NEW k \in 1..Len(t), j < k, t[j].stream = c
                 PROVE  t[k].stream = c
    BY DEF Ordered
  <2>2. j \in 1..n /\ t[j] = s[j]
    BY <1>1, <1>2, <2>1
  <2> QED
    BY <1>2, <2>1, <2>2 DEF Ordered, NoneOf, n
<1>4. /\ AllOf(s, c) /\ x.stream = c => AllOf(t, c)
      /\ NoneOf(s, c) /\ x.stream # c => NoneOf(t, c)
  BY <1>2 DEF AllOf, NoneOf, n
<1>5. /\ (\A k \in 1..n : s[k].stream <= c) /\ x.stream <= c => \A k \in 1..Len(t) : t[k].stream <= c
      /\ (\A k \in 1..n : s[k].pred <= c) /\ x.pred <= c => \A k \in 1..Len(t) : t[k].pred <= c
  BY <1>2
<1>6. (\A k \in 1..n : WellFormed(s[k], c)) /\ WellFormed(x, c) =>
        \A k \in 1..Len(t) : WellFormed(t[k], c)
  BY <1>2
<1> QED
  BY <1>3, <1>4, <1>5, <1>6 DEF t, n

LEMMA MicroopFields ==
    ASSUME TypeOK, NEW x \in Insts
    PROVE  LET op == Microop(x)
           IN  /\ op.pc = x.pc /\ op.bytes = x.bytes /\ op.upc = microop /\ op.stream = x.stream
               /\ op.pred = x.pred /\ op.fault = x.fault
               /\ op.predictedTarget = x.predictedTarget
               /\ op.predictedTaken <=> (x.predictedTaken /\ LastOp(op))
<1> DEFINE z == [x EXCEPT !.upc = microop]
<1> DEFINE op == Microop(x)
<1>1. /\ op.pc = x.pc /\ op.bytes = x.bytes /\ op.upc = microop /\ op.stream = x.stream
      /\ op.pred = x.pred /\ op.fault = x.fault
      /\ op.predictedTarget = x.predictedTarget
  BY DEF Microop, Insts
<1>2. op.predictedTaken = (x.predictedTaken /\ LastOp(z))
  BY DEF Microop, Insts
<1>3. z.fault = x.fault /\ z.bytes = x.bytes /\ z.upc = microop
  BY DEF Insts
<1> HIDE DEF z, op
<1>4. LastOp(z) <=> LastOp(op)
  BY <1>1, <1>3 DEF LastOp
<1>5. op.predictedTaken <=> (x.predictedTaken /\ LastOp(op))
  BY <1>2, <1>4
<1> QED
  BY <1>1, <1>5 DEF op

LEMMA DecodePathInv ==
    ASSUME TypeOK, TypeOK', CreditInv, PathInv, PathTypeOK, PathTypeOK', Decode
    PROVE  PathInv'
<1> DEFINE x == Head(Undecoded)
<1> DEFINE op == Microop(x)
<1> DEFINE c == exec.stream
<1> DEFINE y == YoungestNow
<1>1. /\ UNCHANGED <<fetch1, fetch2, f2ToF1, exec, eToF1, arch, status, drain>>
      /\ phase = "decode" /\ phase' = "fetch2"
  BY DEF Decode, executeVars, drainVars
<1>2. drain # "Drained"
  BY <1>1, NotDrained
<1>3. SameLines
  BY DecodePath
<1>4. CASE SameOps /\ microop' = microop
  <2>1. QuietStep
    BY <1>1, <1>2, <1>3, <1>4 DEF QuietStep, SameBranches, SameLines, SameKeys
  <2> QED
    BY <2>1, QuietStepPath
<1>5. CASE /\ Undecoded # <<>> /\ op \in Insts
           /\ Decoded' = Append(Decoded, op)
           /\ Undecoded' = IF LastOp(op) THEN Tail(Undecoded) ELSE Undecoded
           /\ microop' = IF LastOp(op) THEN 0 ELSE microop + 1
  <2>1. Decoded \in Seq(Insts) /\ Undecoded \in Seq(Insts) /\ Fetched \in LineSeqs
    BY DEF PathTypeOK, LineSeqs
  <2>2. /\ Tail(Undecoded) \in Seq(Insts) /\ x \in Insts /\ x = Undecoded[1]
        /\ Dropped(Tail(Undecoded), Undecoded, 1) /\ 1 \in 1..Len(Undecoded)
    <3>1. Len(Undecoded) \in Nat \ {0}
      BY <1>5, <2>1, TailElements
    <3> QED
      BY <1>5, <2>1, <3>1, TailElements
  <2>3. microop \in 0..(MacroLen - 1) /\ microop \in Nat
    BY AddressTypes DEF TypeOK, FetchTypeOK
  <2>4. /\ op.pc = x.pc /\ op.bytes = x.bytes /\ op.upc = microop /\ op.stream = x.stream
        /\ op.pred = x.pred /\ op.fault = x.fault
        /\ op.predictedTarget = x.predictedTarget
        /\ op.predictedTaken <=> (x.predictedTaken /\ LastOp(op))
    <3>1. x \in Insts
      BY <2>2
    <3> HIDE DEF x
    <3> QED
      BY <3>1, MicroopFields
  <2> HIDE DEF op, x
  <2>5. IsMicroop(op, Undecoded[1], microop)
    <3>1. x.predictedTaken \in BOOLEAN /\ op.predictedTaken \in BOOLEAN
      BY <1>5, <2>2 DEF Insts
    <3>2. LastOp(op) => NextPC(op) = NextPC(x)
      BY <2>4, <3>1 DEF NextPC
    <3> QED
      BY <2>2, <2>4, <3>2 DEF IsMicroop
  <2>6. Kept(Undecoded', Undecoded) /\ Among(Undecoded', Undecoded)
    <3>1. Kept(Tail(Undecoded), Undecoded)
      BY <2>1, <2>2, KeptDropped
    <3>2. Among(Tail(Undecoded), Undecoded)
      <4>1. /\ \A k \in 1..Len(Tail(Undecoded)) : Tail(Undecoded)[k] = Undecoded[k + 1]
            /\ Len(Undecoded) = Len(Tail(Undecoded)) + 1 /\ Len(Tail(Undecoded)) \in Nat
        BY <1>5, <2>1, <2>2, TailElements DEF Dropped
      <4>2. \A k \in 1..Len(Tail(Undecoded)) : k + 1 \in 1..Len(Undecoded)
        BY <4>1
      <4> QED
        BY <4>1, <4>2 DEF Among
    <3> QED
      BY <1>5, <3>1, <3>2, KeptReflexive DEF Among
  <2>7. op.stream = c => AllOf(Undecoded, c) /\ AllOf(Fetched, c) /\ fetch1.stream = c
    <3>1. ASSUME x.stream = c PROVE ~NoneOf(Undecoded, c)
      BY <2>2, <3>1 DEF NoneOf
    <3>2. ASSUME x.stream = c PROVE AllOf(Undecoded, c)
      <4>1. \A k \in 1..Len(Undecoded) : k = 1 \/ 1 < k
        BY <2>1, ElementTypes
      <4> QED
        BY <2>2, <3>2, <4>1 DEF AllOf, Ordered, PathInv, StreamsOrdered
    <3> QED
      BY <2>4, <3>1, <3>2 DEF PathInv, StreamsOrdered
  <2>8. NoneOf(Decoded, c) \/ op.stream = c
    BY <2>2, <2>4 DEF PathInv, StreamsOrdered, AllOf
  <2>9. StreamsKnown'
    <3>1. \A k \in 1..Len(Decoded') : Decoded'[k].stream <= c
      BY <1>5, <2>1, <2>2, <2>4, AppendStreams DEF PathInv, StreamsKnown
    <3>2. \A k \in 1..Len(Undecoded') : Undecoded'[k].stream <= c
      BY <2>6, KeptStreams DEF PathInv, StreamsKnown
    <3> QED
      BY <1>1, <1>3, <3>1, <3>2 DEF PathInv, StreamsKnown, SameLines
  <2>10. PredictionsKnown'
    <3>1. \A k \in 1..Len(Decoded') : Decoded'[k].pred <= fetch2.pred
      BY <1>5, <2>1, <2>2, <2>4, AppendStreams DEF PathInv, PredictionsKnown
    <3>2. \A k \in 1..Len(Undecoded') : Undecoded'[k].pred <= fetch2.pred
      BY <2>6, KeptStreams DEF PathInv, PredictionsKnown
    <3> QED
      BY <1>1, <1>3, <3>1, <3>2 DEF PathInv, PredictionsKnown, SameLines
  <2>11. StreamsOrdered'
    <3>1. Ordered(Decoded', c)
      BY <1>5, <2>1, <2>8, AppendStreams DEF PathInv, StreamsOrdered
    <3>2. op.stream # c => NoneOf(Decoded', c)
      BY <1>5, <2>1, <2>8, AppendStreams
    <3>3. /\ Ordered(Undecoded, c) => Ordered(Undecoded', c)
          /\ AllOf(Undecoded, c) => AllOf(Undecoded', c)
          /\ NoneOf(Undecoded, c) => NoneOf(Undecoded', c)
      BY <2>6, KeptStreams
    <3> QED
      BY <1>1, <1>3, <2>7, <3>1, <3>2, <3>3 DEF PathInv, StreamsOrdered, SameLines
  <2>12. NoneCurrent => NoneCurrent'
    <3>1. PendingPredictions' = PendingPredictions
      BY <1>1 DEF PendingPredictions, IsStreamChange
    <3>2. NoneOf(Undecoded, c) => op.stream # c
      BY <2>2, <2>4 DEF NoneOf
    <3>3. NoneOf(Decoded, c) /\ op.stream # c => NoneOf(Decoded', c)
      BY <1>5, <2>1, AppendStreams
    <3>4. NoneOf(Undecoded, c) => NoneOf(Undecoded', c)
      BY <2>6, KeptStreams
    <3> QED
      BY <1>1, <1>3, <3>1, <3>2, <3>3, <3>4 DEF NoneCurrent, SameLines
  <2>13. StreamStarts'
    <3>1. PendingBranches' = PendingBranches
      BY <1>1 DEF PendingBranches, IsStreamChange
    <3> QED
      BY <1>1, <2>12, <3>1 DEF PathInv, StreamStarts, IsStreamChange
  <2>14. LinesOfFetch1'
    BY <1>1, <1>3 DEF PathInv, LinesOfFetch1, SameLines
  <2>15. OpsWellFormed'
    <3>1. WellFormed(x, c)
      BY <2>2 DEF PathInv, OpsWellFormed
    <3>2. WellFormed(op, c)
      BY <2>4, <3>1 DEF WellFormed
    <3>3. \A k \in 1..Len(Decoded') : WellFormed(Decoded'[k], c)
      BY <1>5, <2>1, <3>2, AppendStreams DEF PathInv, OpsWellFormed
    <3>4. \A k \in 1..Len(Undecoded') : WellFormed(Undecoded'[k], c)
      BY <2>6, AmongWellFormed DEF PathInv, OpsWellFormed
    <3>5. microop' # 0 => Undecoded' # <<>>
      BY <1>5
    <3> QED
      BY <1>1, <3>3, <3>4, <3>5 DEF PathInv, OpsWellFormed
  <2>16. OpsPath'
    <3>1. /\ OpsFollow(Decoded, Undecoded, c, arch, microop)
          /\ OpsStart(Decoded, Undecoded, c, arch, microop)
      BY DEF PathInv, OpsPath
    <3> DEFINE e == Append(Decoded, op)
    <3> DEFINE t == Tail(Undecoded)
    <3> HIDE DEF c
    <3>2. /\ LastOp(op) => OpsFollow(e, t, c, arch, 0) /\ OpsStart(e, t, c, arch, 0)
          /\ ~LastOp(op) => /\ OpsFollow(e, Undecoded, c, arch, microop + 1)
                            /\ OpsStart(e, Undecoded, c, arch, microop + 1)
      BY <1>5, <2>1, <2>2, <2>3, <2>5, <3>1, DecodedOps
    <3> QED
      BY <1>1, <1>5, <3>2 DEF OpsPath, c
  <2>17. LinesPath'
    <3>1. LinesFollow(Fetched, fetch1, y, c, arch, fetch2)
      BY DEF PathInv, LinesPath, YoungestNow
    <3> HIDE DEF c
    <3>2. SameEnd(y, arch, y', arch, c)
      <4> DEFINE e == Append(Decoded, op)
      <4> DEFINE t == Tail(Undecoded)
      <4>1. /\ LastOp(op) => SameEnd(y, arch, Youngest(e, t), arch, c)
            /\ SameEnd(y, arch, Youngest(e, Undecoded), arch, c)
        BY <1>5, <2>1, <2>2, <2>3, <2>5, DecodedEnd DEF YoungestNow
      <4> QED
        BY <1>5, <4>1 DEF YoungestNow
    <3> HIDE DEF y
    <3>3. SameKeys(Fetched, Fetched)
      BY DEF SameKeys
    <3>4. LinesFollow(Fetched, fetch1, y', c, arch, fetch2)
      BY <2>1, <3>1, <3>2, <3>3, SameLinesFollow
    <3>5. SameStream
      BY <1>1 DEF SameStream, SameBranches
    <3> QED
      BY <1>1, <1>3, <3>2, <3>4, <3>5, KeptLinesPath DEF c, y, SameLines, PathInv
  <2>18. DrainPath'
    BY <1>1, <1>2 DEF PathInv, DrainPath
  <2> QED
    BY <2>9, <2>10, <2>11, <2>13, <2>14, <2>15, <2>16, <2>17, <2>18 DEF PathInv
<1> QED
  BY <1>4, <1>5, DecodePath

----------------------------------------------------------------------------
(* Fetch2. *)

Fetch2Leaves ==
    /\ UNCHANGED <<fetch1, microop, exec, eToF1, arch, status, drain>>
    /\ phase = "fetch2" /\ phase' = "fetch1" /\ drain # "Drained"
    /\ Decoded' = Decoded

LEMMA Fetch2LeavesAlone ==
    ASSUME TypeOK, CreditInv, PathInv, Fetch2
    PROVE  Fetch2Leaves
<1>1. phase = "fetch2" /\ phase' = "fetch1" /\ UNCHANGED <<fetch1, microop, exec, eToF1, arch, status, drain>>
  BY Fetch2Frame DEF executeVars, drainVars
<1>2. drain # "Drained"
  BY <1>1, NotDrained
<1> QED
  BY <1>1, <1>2, Fetch2Path DEF Fetch2Leaves

\* Fetch2 drops lines of old predictions, or all lines for a branch of Execute.
LEMMA Fetch2WaitsPath ==
    ASSUME TypeOK, TypeOK', PathInv, PathTypeOK, PathTypeOK', Fetch2Leaves, NEW m,
           Dropped(LinesIn', LinesIn, m), Dropped(Fetched', Fetched, m), Fetch2Waits(m)
    PROVE  PathInv'
<1> DEFINE c == exec.stream
<1> DEFINE y == YoungestNow
<1>1. SameOps
  BY DEF SameOps, Fetch2Waits, Fetch2Leaves
<1>2. Fetched \in LineSeqs /\ Fetched' \in LineSeqs
  BY DEF PathTypeOK, LineSeqs
<1>3. Kept(LinesIn', LinesIn) /\ Kept(Fetched', Fetched)
  <2>1. LinesIn \in Seq(Lines) /\ LinesIn' \in Seq(Lines)
    BY DEF PathTypeOK
  <2> QED
    BY <1>2, <2>1, KeptDropped DEF LineSeqs
<1>4. WorkKept
  BY <1>1, <1>3, KeptReflexive DEF WorkKept, SameOps
<1>5. /\ fetch2'.expectedStream = fetch2.expectedStream
      /\ fetch2'.lastStream = fetch2.lastStream /\ fetch2'.pred = fetch2.pred
      /\ fetch2'.pc = fetch2.pc /\ (fetch2'.havePC => fetch2.havePC)
  BY DEF Fetch2Waits, HavePCNow, TypeOK, FetchTypeOK
<1>6. SameStream
  BY <1>5 DEF SameStream, SameBranches, Fetch2Leaves, Fetch2Waits
<1>7. StreamsKnown' /\ PredictionsKnown' /\ StreamsOrdered'
  <2>1. exec'.lastPred <= fetch2.pred
    BY DEF PathInv, PredictionsKnown, Fetch2Leaves
  <2> QED
    BY <1>4, <1>6, <2>1, KeptStreamsKnown DEF PathInv
<1>8. StreamStarts'
  BY <1>4, <1>6, KeptStreamStarts DEF PathInv, Fetch2Leaves
<1>9. LinesOfFetch1'
  <2>1. AllOf(LinesIn', fetch1.stream)
    BY <1>3, KeptStreams DEF PathInv, LinesOfFetch1
  <2> QED
    BY <2>1 DEF LinesOfFetch1, Fetch2Leaves, Fetch2Waits, IsStreamChange
<1>10. OpsWellFormed' /\ OpsPath'
  BY <1>1 DEF PathInv, OpsWellFormed, OpsPath, SameOps, Fetch2Leaves
<1>11. LinesFollow(Fetched', fetch1, y, c, arch, fetch2)
  <2>1. LinesFollow(Fetched, fetch1, y, c, arch, fetch2)
    BY DEF PathInv, LinesPath, YoungestNow
  <2>2. CASE IsStreamChange(eToF1.out)
    <3>1. eToF1.out \in PendingBranches
      BY <2>2 DEF PendingBranches, Fetch2Leaves
    <3>2. fetch1.stream # c /\ NoneOf(Fetched, c)
      BY <3>1 DEF PathInv, StreamStarts, NoneCurrent
    <3>3. NoneOf(Fetched', c)
      BY <1>3, <3>2, KeptStreams
    <3>4. \A k \in 1..Len(Fetched') : ~Live(Fetched'[k], c, fetch2)
      BY <3>3 DEF NoneOf, Live
    <3>5. ~Live(fetch1, c, fetch2)
      BY <3>2 DEF Live
    <3> HIDE DEF c, y
    <3> QED
      BY <3>4, <3>5, DeadLines
  <2>3. CASE ~IsStreamChange(eToF1.out)
    <3>1. \A k \in 1..m : ~Live(Fetched[k], c, fetch2)
      BY <2>3 DEF Fetch2Waits, OldPrediction, Live
    <3> HIDE DEF c, y
    <3> QED
      BY <1>2, <2>1, <3>1, DroppedLines
  <2> QED
    BY <2>2, <2>3
<1>12. LinesPath'
  <2>1. y' = y /\ arch' = arch
    BY <1>1 DEF YoungestNow, SameOps, Fetch2Leaves
  <2>2. SameEnd(y, arch, y', arch', c)
    BY <2>1, SameEndReflexive
  <2> QED
    BY <1>5, <1>6, <1>11, <2>1, <2>2, KeptLinesPath DEF PathInv
<1>13. DrainPath'
  BY DEF PathInv, DrainPath, Fetch2Leaves
<1> QED
  BY <1>7, <1>8, <1>9, <1>10, <1>12, <1>13 DEF PathInv

\* Fetch2 makes an instruction of line l, and prediction p.
Fetch2Step(n, m, l, p) ==
    /\ Fetch2Leaves
    /\ Dropped(LinesIn', LinesIn, m) /\ Dropped(Fetched', Fetched, m)
    /\ Fetch2Emits(n, m, l, p)

\* The instruction and Fetch2's new state.
LEMMA EmittedFields ==
    ASSUME TypeOK, PathTypeOK, PathTypeOK', NEW n, NEW m, NEW l, NEW p, Fetch2Step(n, m, l, p)
    PROVE  LET i == Predicted(l, p)
           IN  /\ l \in Lines /\ p \in Branches
               /\ i \in Insts /\ i.pc = PCOf(l) /\ i.bytes = l.pc /\ i.upc = 0
               /\ i.stream = l.stream /\ i.pred = fetch2.pred /\ i.fault = l.fault
               /\ i.predictedTaken <=> p # NoBranch
               /\ i.predictedTarget = p.target
               /\ p # NoBranch => /\ p.reason = "BranchPrediction" /\ p.stream = l.stream
                                  /\ p.pred = fetch2.pred + 1
                                  /\ ~l.fault /\ Program[l.pc] = "branch"
               /\ n \in 1..Len(LinesIn) /\ n \in 1..Len(Fetched) /\ m \in Nat /\ n \in 1..m
               /\ Kept(LinesIn', LinesIn) /\ Kept(Fetched', Fetched)
               /\ Undecoded' = Append(Undecoded, i)
<1>1. l \in Lines /\ p \in Branches /\ p \in Predictions(l)
  BY DEF Fetch2Step, Fetch2Emits
<1>2. FetchTypeOK
  BY DEF TypeOK
<1>3. p # NoBranch => /\ p.reason = "BranchPrediction" /\ p.stream = l.stream
                      /\ p.pred = fetch2.pred + 1
                      /\ ~l.fault /\ Program[l.pc] = "branch"
  BY <1>1, <1>2, PredictionsType
<1>4. LinesIn \in Seq(Lines) /\ LinesIn' \in Seq(Lines) /\ Fetched \in LineSeqs /\ Fetched' \in LineSeqs
  BY DEF PathTypeOK, LineSeqs
<1>5. Len(LinesIn) \in Nat /\ Len(Fetched) \in Nat
  BY <1>4, ElementTypes DEF LineSeqs
<1>6. m \in 0..Len(LinesIn) /\ m \in 0..Len(Fetched) /\ n \in 1..m
  BY DEF Fetch2Step, Fetch2Emits, Dropped
<1>7. n \in 1..Len(LinesIn) /\ n \in 1..Len(Fetched) /\ m \in Nat
  BY <1>5, <1>6
<1>8. Kept(LinesIn', LinesIn) /\ Kept(Fetched', Fetched)
  BY <1>4, KeptDropped DEF LineSeqs, Fetch2Step
<1>9. Undecoded' = Append(Undecoded, Predicted(l, p))
  BY DEF Fetch2Step, Fetch2Emits
<1>10. /\ Predicted(l, p) \in Insts /\ Predicted(l, p).pc = PCOf(l)
       /\ Predicted(l, p).bytes = l.pc /\ Predicted(l, p).upc = 0
       /\ Predicted(l, p).stream = l.stream /\ Predicted(l, p).pred = fetch2.pred
       /\ Predicted(l, p).fault = l.fault
       /\ Predicted(l, p).predictedTaken <=> (p # NoBranch)
       /\ Predicted(l, p).predictedTarget = p.target
  BY <1>1, <1>2, PredictedType
<1> QED
  BY <1>1, <1>3, <1>6, <1>7, <1>8, <1>9, <1>10

LEMMA EmittedKnown ==
    ASSUME TypeOK, TypeOK', PathInv, PathTypeOK, PathTypeOK',
           NEW n, NEW m, NEW l, NEW p, Fetch2Step(n, m, l, p)
    PROVE  /\ StreamsKnown' /\ PredictionsKnown' /\ LinesOfFetch1' /\ DrainPath'
           /\ WellFormed(Predicted(l, p), exec.stream) => OpsWellFormed'
           /\ l.stream = fetch1.stream
           /\ f2ToF1'.in = p /\ f2ToF1'.out = f2ToF1.out
<1> DEFINE c == exec.stream
<1> DEFINE i == Predicted(l, p)
<1>1. /\ l \in Lines /\ p \in Branches
      /\ i \in Insts /\ i.stream = l.stream /\ i.pred = fetch2.pred
      /\ p # NoBranch => p.stream = l.stream /\ p.pred = fetch2.pred + 1
      /\ n \in 1..Len(LinesIn) /\ n \in 1..Len(Fetched)
      /\ Kept(LinesIn', LinesIn) /\ Kept(Fetched', Fetched)
      /\ Undecoded' = Append(Undecoded, i)
  BY EmittedFields
<1> HIDE DEF i
<1>2. c \in Nat /\ fetch2.pred \in Nat
  BY DEF TypeOK, ExecuteTypeOK, FetchTypeOK, SeqNum
<1>3. l = Fetched[n] /\ l = LinesIn[n] /\ ~IsStreamChange(eToF1.out)
  BY DEF Fetch2Step, Fetch2Emits
<1>4. /\ fetch2'.pred = IF p # NoBranch THEN p.pred ELSE fetch2.pred
      /\ fetch2'.lastStream = l.stream
      /\ fetch2'.expectedStream = IF p # NoBranch THEN l.stream ELSE fetch2.expectedStream
      /\ f2ToF1' = [f2ToF1 EXCEPT !.in = p]
  BY DEF Fetch2Step, Fetch2Emits
<1>5. /\ UNCHANGED <<fetch1, microop, exec, eToF1, arch, status, drain>>
      /\ phase = "fetch2" /\ phase' = "fetch1" /\ drain # "Drained"
      /\ Decoded' = Decoded
  BY DEF Fetch2Step, Fetch2Leaves
<1>6. f2ToF1'.in = p /\ f2ToF1'.out = f2ToF1.out
  BY <1>4 DEF TypeOK, FetchTypeOK
<1>7. l.stream <= c
  BY <1>1, <1>3 DEF PathInv, StreamsKnown
<1>8. p.stream <= c
  BY <1>1, <1>2, <1>7, NoBranchType
<1>9. Undecoded \in Seq(Insts)
  BY DEF PathTypeOK
<1>10. StreamsKnown'
  <2>1. \A k \in 1..Len(Undecoded') : Undecoded'[k].stream <= c
    BY <1>1, <1>7, <1>9, AppendStreams DEF PathInv, StreamsKnown
  <2>2. \A k \in 1..Len(Fetched') : Fetched'[k].stream <= c
    BY <1>1, KeptStreams DEF PathInv, StreamsKnown
  <2>3. fetch2'.expectedStream <= c /\ fetch2'.lastStream <= c
    BY <1>4, <1>7 DEF PathInv, StreamsKnown
  <2> QED
    BY <1>5, <1>6, <1>8, <2>1, <2>2, <2>3 DEF PathInv, StreamsKnown
<1>11. PredictionsKnown'
  <2> DEFINE q == fetch2'.pred
  <2>1. q \in Nat /\ fetch2.pred <= q
    BY <1>1, <1>2, <1>4
  <2> HIDE DEF q
  <2>2. \A x \in Nat : x <= fetch2.pred => x <= q
    BY <1>2, <2>1
  <2>3. /\ \A k \in 1..Len(Decoded) : Decoded[k].pred <= fetch2.pred
        /\ \A k \in 1..Len(Undecoded) : Undecoded[k].pred <= fetch2.pred
        /\ \A k \in 1..Len(Fetched) : Fetched[k].pred <= fetch2.pred
    BY DEF PathInv, PredictionsKnown
  <2>4. /\ \A k \in 1..Len(Undecoded') : Undecoded'[k].pred <= fetch2.pred
        /\ \A k \in 1..Len(Fetched') : Fetched'[k].pred <= fetch2.pred
    <3>1. \A k \in 1..Len(Fetched') : Fetched'[k].pred <= fetch2.pred
      BY <1>1, <2>3, KeptStreams
    <3>2. fetch2.pred <= fetch2.pred
      BY <1>2
    <3>3. \A k \in 1..Len(Undecoded') : Undecoded'[k].pred <= fetch2.pred
      BY <1>1, <1>9, <2>3, <3>2, AppendStreams
    <3> QED
      BY <3>1, <3>3
  <2>5. /\ \A k \in 1..Len(Decoded') : Decoded'[k].pred \in Nat
        /\ \A k \in 1..Len(Undecoded') : Undecoded'[k].pred \in Nat
        /\ \A k \in 1..Len(Fetched') : Fetched'[k].pred \in Nat
    <3>1. /\ \A k \in 1..Len(Decoded') : Decoded'[k] \in Insts
          /\ \A k \in 1..Len(Undecoded') : Undecoded'[k] \in Insts
          /\ \A k \in 1..Len(Fetched') : Fetched'[k] \in Lines \cup Fetches
      BY ElementTypes DEF PathTypeOK
    <3>2. \A x \in Insts \cup (Lines \cup Fetches) : x.pred \in Nat
      BY DEF Insts, Lines, Fetches, SeqNum
    <3> QED
      BY <3>1, <3>2
  <2>6. /\ \A k \in 1..Len(Decoded') : Decoded'[k].pred <= q
        /\ \A k \in 1..Len(Undecoded') : Undecoded'[k].pred <= q
        /\ \A k \in 1..Len(Fetched') : Fetched'[k].pred <= q
    BY <1>5, <2>2, <2>3, <2>4, <2>5
  <2>7. /\ fetch1.pred \in Nat /\ eToF1.in.pred \in Nat /\ eToF1.out.pred \in Nat
        /\ f2ToF1.out.pred \in Nat /\ exec.lastPred \in Nat
    BY DEF TypeOK, CycleTypeOK, FetchTypeOK, ExecuteTypeOK, Branches, SeqNum, Fetch1ThreadInfo
  <2>8. /\ fetch1.pred <= q /\ eToF1.in.pred <= q /\ eToF1.out.pred <= q
        /\ f2ToF1.out.pred <= q /\ exec.lastPred <= q
    BY <2>2, <2>7 DEF PathInv, PredictionsKnown
  <2>9. p.pred <= q
    BY <1>1, <1>2, <1>4, NoBranchType DEF q
  <2> QED
    BY <1>5, <1>6, <2>6, <2>8, <2>9 DEF PredictionsKnown, q
<1>12. LinesOfFetch1'
  <2>1. AllOf(LinesIn', fetch1.stream)
    BY <1>1, KeptStreams DEF PathInv, LinesOfFetch1
  <2> QED
    BY <1>3, <1>5, <2>1 DEF LinesOfFetch1, IsStreamChange
<1>13. WellFormed(i, c) => OpsWellFormed'
  <2>1. WellFormed(i, c) => \A k \in 1..Len(Undecoded') : WellFormed(Undecoded'[k], c)
    BY <1>1, <1>9, AppendStreams DEF PathInv, OpsWellFormed
  <2>2. Undecoded' # <<>>
    BY <1>1, <1>9, AppendElements
  <2> QED
    BY <1>5, <2>1, <2>2 DEF PathInv, OpsWellFormed
<1>14. l.stream = fetch1.stream
  BY <1>1, <1>3 DEF PathInv, LinesOfFetch1, AllOf
<1>15. DrainPath'
  BY <1>5 DEF PathInv, DrainPath
<1> QED
  BY <1>6, <1>10, <1>11, <1>12, <1>13, <1>14, <1>15 DEF i

\* Fetch2 makes an instruction of an old stream.
LEMMA EmittedOld ==
    ASSUME TypeOK, TypeOK', PathInv, PathTypeOK, PathTypeOK',
           NEW n, NEW m, NEW l, NEW p, Fetch2Step(n, m, l, p), l.stream # exec.stream
    PROVE  PathInv'
<1> DEFINE c == exec.stream
<1> DEFINE i == Predicted(l, p)
<1>1. /\ i \in Insts /\ i.stream = l.stream /\ i.fault = l.fault /\ i.bytes = l.pc
      /\ i.predictedTaken <=> p # NoBranch
      /\ p # NoBranch => /\ p.reason = "BranchPrediction" /\ p.stream = l.stream
                         /\ ~l.fault /\ Program[l.pc] = "branch"
      /\ Kept(Fetched', Fetched)
      /\ Undecoded' = Append(Undecoded, i)
  BY EmittedFields
<1>2. WellFormed(i, c)
  BY <1>1 DEF WellFormed
<1>3. /\ StreamsKnown' /\ PredictionsKnown' /\ LinesOfFetch1' /\ DrainPath' /\ OpsWellFormed'
      /\ l.stream = fetch1.stream
      /\ f2ToF1'.in = p /\ f2ToF1'.out = f2ToF1.out
  BY <1>2, EmittedKnown
<1> HIDE DEF i
<1>4. /\ UNCHANGED <<fetch1, microop, exec, eToF1, arch, status, drain>>
      /\ phase = "fetch2" /\ phase' = "fetch1"
      /\ Decoded' = Decoded
      /\ fetch2'.lastStream = l.stream
      /\ fetch2'.expectedStream = IF p # NoBranch THEN l.stream ELSE fetch2.expectedStream
  BY DEF Fetch2Step, Fetch2Leaves, Fetch2Emits
<1>5. /\ fetch1.stream # c /\ fetch2.expectedStream # c
      /\ NoneOf(Decoded, c) /\ NoneOf(Undecoded, c) /\ NoneOf(Fetched, c)
  BY <1>3 DEF PathInv, StreamsOrdered
<1>6. \A b \in PendingPredictions : b.stream # c /\ b.reason = "BranchPrediction"
  BY <1>5 DEF PathInv, LinesPath, PredictionsFollow
<1>7. \A b \in PendingPredictions' : b.stream # c /\ b.reason = "BranchPrediction"
  <2>1. \A b \in PendingPredictions' : (b = p /\ p # NoBranch) \/ b \in PendingPredictions
    BY <1>3, <1>4, NoBranchType DEF PendingPredictions, IsStreamChange
  <2> QED
    BY <1>1, <1>6, <2>1
<1>8. Decoded \in Seq(Insts) /\ Undecoded \in Seq(Insts)
  BY DEF PathTypeOK
<1>9. NoneOf(Undecoded', c) /\ NoneOf(Fetched', c)
  <2>1. NoneOf(Fetched', c)
    BY <1>1, <1>5, KeptStreams
  <2>2. NoneOf(Undecoded', c)
    BY <1>1, <1>5, <1>8, AppendStreams
  <2> QED
    BY <2>1, <2>2
<1>10. NoneCurrent'
  BY <1>4, <1>5, <1>7, <1>9 DEF NoneCurrent
<1>11. arch.upc = 0
  <2>1. Decoded # <<>> => 1 \in 1..Len(Decoded)
    BY <1>8, ElementTypes
  <2>2. Undecoded # <<>> => 1 \in 1..Len(Undecoded)
    BY <1>8, ElementTypes
  <2> QED
    BY <1>5, <2>1, <2>2 DEF PathInv, OpsPath, OpsStart, NoneOf
<1>12. AtStreamStart'
  BY <1>4, <1>5, <1>7, <1>10, <1>11 DEF AtStreamStart
<1>13. StreamStarts'
  <2>1. PendingBranches' = PendingBranches
    BY <1>4 DEF PendingBranches, IsStreamChange
  <2> QED
    BY <1>4, <1>5, <1>10, <2>1 DEF PathInv, StreamStarts, IsStreamChange
<1> QED
  BY <1>3, <1>12, <1>13, StartsOver DEF PathInv

\* The path goes on at one place.
LEMMA OnePlace ==
    ASSUME NEW d, NEW u, NEW c, NEW a, NEW g, NEW h,
           ContinuesExactly(Youngest(d, u), g, c, a), Continues(Youngest(d, u), h, c, a)
    PROVE  g = h
<1> DEFINE y == Youngest(d, u)
<1>1. \A x, z \in y : x = z
  BY DEF Youngest
<1> HIDE DEF y
<1>2. ContinuesExactly(y, g, c, a) /\ Continues(y, h, c, a)
  BY DEF y
<1>3. CASE \A x \in y : x.stream # c
  BY <1>2, <1>3 DEF ContinuesExactly, Continues
<1>4. CASE \E x \in y : x.stream = c
  BY <1>1, <1>2, <1>4 DEF ContinuesExactly, Continues
<1> QED
  BY <1>3, <1>4

\* The line of the current stream that Fetch2 takes is where the path goes on, and
\* so is Fetch2's own PC; no prediction is on its way to Fetch1.
LEMMA TakenLine ==
    ASSUME TypeOK, PathInv, PathTypeOK, PathTypeOK',
           NEW n, NEW m, NEW l, NEW p, Fetch2Step(n, m, l, p), l.stream = exec.stream
    PROVE  /\ Live(Fetched[n], exec.stream, fetch2)
           /\ Continues(YoungestNow, l.pc, exec.stream, arch)
           /\ PCOf(l) = l.pc
           /\ \A b \in PendingPredictions : b.stream # exec.stream /\ b.reason = "BranchPrediction"
           /\ PendingBranches = {} /\ status # "Suspended" /\ exec.drainState # "DrainAllInsts"
           /\ fetch1.stream = exec.stream
           /\ Ordered(Fetched, exec.stream)
<1> DEFINE c == exec.stream
<1> DEFINE y == YoungestNow
<1>1. n \in 1..Len(Fetched) /\ l = Fetched[n] /\ Fetched \in LineSeqs
  BY EmittedFields DEF Fetch2Step, Fetch2Emits, PathTypeOK, LineSeqs
<1>2. /\ ~OldPrediction(l) /\ \A k \in 1..(n - 1) : OldPrediction(Fetched[k])
      /\ HavePCNow => n = 1
  BY DEF Fetch2Step, Fetch2Emits
<1>3. Live(l, c, fetch2)
  BY <1>2 DEF OldPrediction, Live
<1>4. LinesFollow(Fetched, fetch1, y, c, arch, fetch2) /\ PredictionsFollow(y, c, arch)
  BY DEF PathInv, LinesPath, YoungestNow
<1>5. Linked(Fetched, fetch1, y, c, arch, fetch2)
  <2> HIDE DEF c, y
  <2> QED
    BY <1>1, <1>4, LinesFollowParts
<1>6. Live(fetch1, c, fetch2)
  BY <1>1, <1>3, <1>5 DEF Linked
<1>7. n = 1 \/ ~Live(Fetched[n - 1], c, fetch2)
  <2>1. n \in Nat /\ n >= 1
    <3>1. Len(Fetched) \in Nat
      BY <1>1, ElementTypes DEF LineSeqs
    <3> QED
      BY <1>1, <3>1
  <2>2. n # 1 => n - 1 \in 1..(n - 1)
    BY <2>1
  <2>3. n # 1 => OldPrediction(Fetched[n - 1])
    BY <1>2, <2>2
  <2> QED
    BY <2>3 DEF OldPrediction, Live
<1>8. Continues(y, l.pc, c, arch)
  BY <1>1, <1>3, <1>5, <1>7 DEF Linked
<1>9. PCOf(l) = l.pc
  <2>1. CASE HavePCNow /\ fetch2.lastStream = l.stream
    <3>1. fetch2.havePC /\ fetch2.lastStream = c
      BY <2>1 DEF HavePCNow
    <3>2. ContinuesExactly(y, fetch2.pc, c, arch)
      BY <1>4, <3>1 DEF PredictionsFollow
    <3>3. fetch2.pc = l.pc
      <4> HIDE DEF c
      <4> QED
        BY <1>8, <3>2, OnePlace DEF YoungestNow
    <3> QED
      BY <3>3 DEF PCOf
  <2>2. CASE ~(HavePCNow /\ fetch2.lastStream = l.stream)
    BY <2>2 DEF PCOf
  <2> QED
    BY <2>1, <2>2
<1>10. \A b \in PendingPredictions : b.stream # c /\ b.reason = "BranchPrediction"
  BY <1>4, <1>6 DEF PredictionsFollow, Live
<1>11. ~NoneOf(Fetched, c)
  BY <1>1 DEF NoneOf
<1>12. PendingBranches = {} /\ status # "Suspended" /\ exec.drainState # "DrainAllInsts"
  BY <1>11 DEF PathInv, StreamStarts, NoneCurrent
<1>13. fetch1.stream = c /\ Ordered(Fetched, c)
  BY <1>11 DEF PathInv, StreamsOrdered
<1> QED
  BY <1>1, <1>3, <1>8, <1>9, <1>10, <1>12, <1>13

\* Fetch2 makes an instruction of the current stream.
LEMMA EmittedCurrent ==
    ASSUME TypeOK, TypeOK', PathInv, PathTypeOK, PathTypeOK',
           NEW n, NEW m, NEW l, NEW p, Fetch2Step(n, m, l, p), l.stream = exec.stream
    PROVE  PathInv'
<1> DEFINE c == exec.stream
<1> DEFINE i == Predicted(l, p)
<1> DEFINE y == YoungestNow
<1>1. /\ i \in Insts /\ i.pc = PCOf(l) /\ i.bytes = l.pc /\ i.upc = 0
      /\ i.stream = l.stream /\ i.fault = l.fault
      /\ i.predictedTaken <=> p # NoBranch
      /\ i.predictedTarget = p.target
      /\ p # NoBranch => /\ p.reason = "BranchPrediction" /\ p.stream = l.stream
                         /\ p.pred = fetch2.pred + 1
                         /\ ~l.fault /\ Program[l.pc] = "branch"
      /\ n \in 1..Len(Fetched) /\ m \in Nat /\ n \in 1..m
      /\ Kept(Fetched', Fetched)
      /\ Undecoded' = Append(Undecoded, i)
  BY EmittedFields
<1>2. /\ Live(Fetched[n], c, fetch2) /\ Continues(y, l.pc, c, arch) /\ PCOf(l) = l.pc
      /\ \A b \in PendingPredictions : b.stream # c /\ b.reason = "BranchPrediction"
      /\ PendingBranches = {} /\ status # "Suspended" /\ exec.drainState # "DrainAllInsts"
      /\ fetch1.stream = c /\ Ordered(Fetched, c)
  BY TakenLine
<1>3. WellFormed(i, c)
  BY <1>1, <1>2 DEF WellFormed
<1>4. /\ StreamsKnown' /\ PredictionsKnown' /\ LinesOfFetch1' /\ DrainPath' /\ OpsWellFormed'
      /\ f2ToF1'.in = p /\ f2ToF1'.out = f2ToF1.out
  BY <1>3, EmittedKnown
<1> HIDE DEF i
<1>5. /\ UNCHANGED <<fetch1, microop, exec, eToF1, arch, status, drain>>
      /\ phase = "fetch2" /\ phase' = "fetch1"
      /\ Decoded' = Decoded
      /\ fetch2' = [pc |-> IF l.fault THEN PCOf(l) ELSE AfterPC(PCOf(l)),
                    havePC |-> ~l.fault /\ ~(p # NoBranch),
                    lastStream |-> l.stream,
                    expectedStream |-> IF p # NoBranch THEN l.stream ELSE fetch2.expectedStream,
                    pred |-> IF p # NoBranch THEN p.pred ELSE fetch2.pred]
      /\ l = Fetched[n] /\ Dropped(Fetched', Fetched, m) /\ (m # n => l.fault \/ p # NoBranch)
  BY DEF Fetch2Step, Fetch2Leaves, Fetch2Emits
<1>6. /\ Decoded \in Seq(Insts) /\ Undecoded \in Seq(Insts)
      /\ Fetched \in LineSeqs /\ Fetched' \in LineSeqs
  BY DEF PathTypeOK, LineSeqs
<1>7. AllOf(Fetched', c)
  <2>1. /\ Len(Fetched) \in Nat /\ Len(Fetched') \in Nat
        /\ Len(Fetched) = Len(Fetched') + m /\ \A k \in 1..Len(Fetched') : Fetched'[k] = Fetched[k + m]
    BY <1>5, <1>6, ElementTypes DEF LineSeqs, Dropped
  <2>2. \A k \in 1..Len(Fetched') : k + m \in 1..Len(Fetched) /\ n < k + m
    BY <1>1, <2>1
  <2>3. \A k \in 1..Len(Fetched) : n < k => Fetched[k].stream = c
    BY <1>1, <1>2, <1>5 DEF Ordered
  <2> QED
    BY <2>1, <2>2, <2>3 DEF AllOf
<1>8. StreamsOrdered'
  <2>1. Ordered(Undecoded', c) /\ (AllOf(Undecoded, c) => AllOf(Undecoded', c))
    BY <1>1, <1>6, AppendStreams DEF PathInv, StreamsOrdered
  <2>2. Ordered(Fetched', c)
    BY <1>7 DEF AllOf, Ordered
  <2> QED
    BY <1>2, <1>5, <1>7, <2>1, <2>2 DEF PathInv, StreamsOrdered
<1>9. StreamStarts'
  <2>1. PendingBranches' = PendingBranches
    BY <1>5 DEF PendingBranches, IsStreamChange
  <2> QED
    BY <1>2, <1>5, <2>1 DEF PathInv, StreamStarts, IsStreamChange
<1>10. OpsPath'
  <2>1. /\ OpsFollow(Decoded, Undecoded, c, arch, microop)
        /\ OpsStart(Decoded, Undecoded, c, arch, microop)
        /\ microop # 0 => Undecoded # <<>>
        /\ Continues(Youngest(Decoded, Undecoded), i.pc, c, arch)
        /\ i.stream = c
    BY <1>1, <1>2 DEF PathInv, OpsPath, OpsWellFormed, YoungestNow
  <2>2. arch \in Words
    BY DEF TypeOK, ExecuteTypeOK, Words
  <2> HIDE DEF c
  <2>3. /\ OpsFollow(Decoded, Append(Undecoded, i), c, arch, microop)
        /\ OpsStart(Decoded, Append(Undecoded, i), c, arch, microop)
    BY <1>1, <1>6, <2>1, <2>2, FetchedOps
  <2> QED
    BY <1>1, <1>5, <2>3 DEF OpsPath, c
<1>11. y' = {i}
  <2>1. Undecoded' # <<>> /\ Undecoded'[Len(Undecoded')] = i
    BY <1>1, <1>6, AppendElements
  <2> QED
    BY <2>1 DEF YoungestNow, Youngest
<1>12. LinesFollow(Fetched, fetch1, y, c, arch, fetch2)
  BY DEF PathInv, LinesPath, YoungestNow
<1>13. \A b \in PendingPredictions' : (b = p /\ p # NoBranch) \/ b \in PendingPredictions
  BY <1>4, <1>5, NoBranchType DEF PendingPredictions, IsStreamChange
<1>14. c \in Nat /\ fetch2.pred \in Nat /\ fetch1.pred \in Nat /\ fetch1.pred <= fetch2.pred
  BY DEF TypeOK, ExecuteTypeOK, FetchTypeOK, SeqNum, Fetch1ThreadInfo, PathInv, PredictionsKnown
<1>15. LinesFollow(Fetched', fetch1, y', c, arch, fetch2')
  <2>1. CASE p # NoBranch
    <3>1. fetch2'.expectedStream = c /\ fetch2'.pred = fetch2.pred + 1
      BY <1>1, <1>5, <2>1
    <3>2. \A k \in 1..Len(Fetched') : Fetched'[k].pred <= fetch2.pred /\ Fetched'[k].pred \in Nat
      <4>1. \A k \in 1..Len(Fetched') : Fetched'[k].pred <= fetch2.pred
        BY <1>1, KeptStreams DEF PathInv, PredictionsKnown
      <4>2. \A k \in 1..Len(Fetched') : Fetched'[k] \in Lines \cup Fetches
        BY <1>6, ElementTypes DEF LineSeqs
      <4> QED
        BY <4>1, <4>2 DEF Lines, Fetches, SeqNum
    <3>3. \A k \in 1..Len(Fetched') : ~Live(Fetched'[k], c, fetch2')
      <4>1. \A k \in 1..Len(Fetched') : Fetched'[k].pred # fetch2.pred + 1
        BY <1>14, <3>2
      <4> QED
        BY <3>1, <4>1 DEF Live
    <3>4. ~Live(fetch1, c, fetch2')
      <4>1. fetch1.pred # fetch2.pred + 1
        BY <1>14
      <4> QED
        BY <3>1, <4>1 DEF Live
    <3> HIDE DEF c, y
    <3> QED
      BY <3>3, <3>4, DeadLines
  <2>2. CASE p = NoBranch /\ l.fault
    <3>1. fetch2'.expectedStream = fetch2.expectedStream /\ fetch2'.pred = fetch2.pred
      BY <1>5, <2>2
    <3>2. i.stream = c /\ i.fault
      BY <1>1, <2>2
    <3>3. n \in 1..m /\ Dropped(Fetched', Fetched, m) /\ Live(Fetched[n], c, fetch2)
      BY <1>1, <1>2, <1>5
    <3>4. Fetched \in LineSeqs /\ Fetched' \in LineSeqs
      BY <1>6
    <3> HIDE DEF c, y
    <3> QED
      BY <1>11, <1>12, <3>1, <3>2, <3>3, <3>4, FaultedLines
  <2>3. CASE p = NoBranch /\ ~l.fault
    <3>1. fetch2'.expectedStream = fetch2.expectedStream /\ fetch2'.pred = fetch2.pred
      BY <1>5, <2>3
    <3>2. m = n /\ n # 0 /\ Dropped(Fetched', Fetched, n)
      BY <1>1, <1>5, <2>3
    <3>3. i.stream = c /\ ~i.fault /\ NextPC(i) = AfterPC(Fetched[n].pc)
      BY <1>1, <1>2, <1>5, <2>3 DEF NextPC
    <3> HIDE DEF c, y
    <3> QED
      BY <1>2, <1>6, <1>11, <1>12, <3>1, <3>2, <3>3, TakenLines
  <2> QED
    BY <2>1, <2>2, <2>3
<1>16. PredictionsFollow(y, c, arch)'
  <2>1. (fetch2.havePC /\ fetch2.lastStream = c => ContinuesExactly(y, fetch2.pc, c, arch))'
    <3>1. SUFFICES ASSUME fetch2'.havePC
                   PROVE  ContinuesExactly(y', fetch2'.pc, c', arch')
      OBVIOUS
    <3>2. ~l.fault /\ p = NoBranch
      BY <1>5, <3>1
    <3>3. fetch2'.pc = AfterPC(l.pc)
      BY <1>2, <1>5, <3>2
    <3>4. NextPC(i) = AfterPC(l.pc) /\ i.stream = c' /\ ~i.fault
      BY <1>1, <1>2, <1>5, <3>2 DEF NextPC
    <3> HIDE DEF c, y
    <3> QED
      BY <1>11, <3>3, <3>4 DEF ContinuesExactly
  <2>2. ASSUME NEW b \in PendingPredictions'
        PROVE  /\ b.reason = "BranchPrediction"
               /\ b.stream = c' =>
                    /\ (fetch2.expectedStream)' = c'
                    /\ b.pred = (fetch2.pred)'
                    /\ (fetch1.pred)' # b.pred
                    /\ Continues(y', b.target, c', arch')
    <3>1. CASE b \in PendingPredictions
      BY <1>2, <1>5, <3>1
    <3>2. CASE b = p /\ p # NoBranch
      <4>1. b.reason = "BranchPrediction" /\ b.stream = l.stream /\ b.pred = fetch2.pred + 1
        BY <1>1, <3>2
      <4>2. (fetch2.expectedStream)' = c' /\ b.pred = (fetch2.pred)'
        BY <1>5, <3>2
      <4>3. (fetch1.pred)' # b.pred
        <5>1. fetch1.pred # fetch2.pred + 1
          BY <1>14
        <5> QED
          BY <1>5, <4>1, <5>1
      <4>4. NextPC(i) = b.target /\ i.stream = c'
        BY <1>1, <1>5, <3>2 DEF NextPC
      <4>5. Continues(y', b.target, c', arch')
        <5> HIDE DEF c, y
        <5> QED
          BY <1>11, <4>4 DEF Continues
      <4> QED
        BY <4>1, <4>2, <4>3, <4>5
    <3> QED
      BY <1>13, <3>1, <3>2
  <2> QED
    BY <2>1, <2>2 DEF PredictionsFollow
<1>17. (IsStreamChange(f2ToF1.in) /\ f2ToF1.in.stream = exec.stream =>
          f2ToF1.out \notin PendingPredictions \/ f2ToF1.out.stream # exec.stream)'
  <2>1. CASE f2ToF1.out \in PendingPredictions
    BY <1>2, <1>4, <1>5, <2>1
  <2>2. CASE f2ToF1.out \notin PendingPredictions
    <3>1. ~IsStreamChange(f2ToF1.out)
      BY <1>5, <2>2 DEF PendingPredictions
    <3>2. f2ToF1'.out \notin PendingPredictions'
      BY <1>4, <3>1 DEF PendingPredictions
    <3> QED
      BY <3>2
  <2> QED
    BY <2>1, <2>2
<1>18. LinesPath'
  BY <1>5, <1>15, <1>16, <1>17 DEF LinesPath, YoungestNow
<1> QED
  BY <1>4, <1>8, <1>9, <1>10, <1>18 DEF PathInv

LEMMA Fetch2PathInv ==
    ASSUME TypeOK, TypeOK', CreditInv, PathInv, PathTypeOK, PathTypeOK', Fetch2
    PROVE  PathInv'
<1>1. Fetch2Leaves
  BY Fetch2LeavesAlone
<1>2. PICK m \in 0..Len(LinesIn) :
        /\ Dropped(LinesIn', LinesIn, m) /\ Dropped(Fetched', Fetched, m)
        /\ \/ Fetch2Waits(m)
           \/ \E n \in 1..m : \E l \in Lines : \E p \in Branches : Fetch2Emits(n, m, l, p)
  BY Fetch2Path
<1>3. CASE Fetch2Waits(m)
  BY <1>1, <1>2, <1>3, Fetch2WaitsPath
<1>4. CASE \E n \in 1..m : \E l \in Lines : \E p \in Branches : Fetch2Emits(n, m, l, p)
  <2>1. PICK n \in 1..m : \E l \in Lines : \E p \in Branches : Fetch2Emits(n, m, l, p)
    BY <1>4
  <2>2. PICK l \in Lines : \E p \in Branches : Fetch2Emits(n, m, l, p)
    BY <2>1
  <2>3. PICK p \in Branches : Fetch2Emits(n, m, l, p)
    BY <2>2
  <2>4. Fetch2Step(n, m, l, p)
    BY <1>1, <1>2, <2>3 DEF Fetch2Step
  <2> QED
    BY <2>4, EmittedOld, EmittedCurrent
<1> QED
  BY <1>2, <1>3, <1>4

----------------------------------------------------------------------------
(* Fetch1. *)

\* Fetch1 after the branches of the cycle.
BranchedPath ==
    LET c == exec.stream
    IN  /\ Branched.stream <= c /\ Branched.pred <= fetch2.pred
        /\ (NoneOf(Decoded, c) /\ NoneOf(Undecoded, c)) \/ Branched.stream = c
        /\ (NoneOf(Fetched, c) /\ fetch2.expectedStream # c) \/ Branched.stream = c
        /\ AllOf(LinesIn, Branched.stream)
        /\ IsStreamChange(eToF1.in) => Branched.stream # c
        /\ exec.drainState = "DrainAllInsts" /\ Branched.stream = c => Branched.state # "Running"
        /\ LinesFollow(Fetched, Branched, YoungestNow, c, arch, fetch2)
        /\ IsStreamChange(f2ToF1.in) /\ f2ToF1.in.stream = c => Branched.pred # fetch2.pred

\* Execute's branch.
LEMMA BranchedByExecute ==
    ASSUME TypeOK, PathInv, PathTypeOK, phase = "fetch1", fetch1.state # "Halted",
           IsStreamChange(eToF1.out)
    PROVE  BranchedPath
<1> DEFINE c == exec.stream
<1> DEFINE e == eToF1.out
<1>1. Branched = ChangeStream(fetch1, e)
  BY DEF Branched, AfterBranches
<1>2. fetch1 \in Fetch1ThreadInfo /\ e \in Branches
  BY DEF TypeOK, CycleTypeOK, FetchTypeOK
<1>3. /\ Branched.stream = e.stream /\ Branched.pred = e.pred /\ Branched.pc = e.target
      /\ e.reason = "HaltFetch" => Branched.state # "Running"
  BY <1>1, <1>2, ChangeStreamType
<1>4. e \in PendingBranches
  BY DEF PendingBranches
<1>5. /\ NoneCurrent
      /\ e.stream = c /\ e.reason # "HaltFetch" => e.target = arch.pc
      /\ e.stream = c /\ exec.drainState = "DrainAllInsts" => e.reason = "HaltFetch"
      /\ IsStreamChange(eToF1.in) => e.stream # c
  BY <1>4 DEF PathInv, StreamStarts
<1>6. /\ NoneOf(Decoded, c) /\ NoneOf(Undecoded, c) /\ NoneOf(Fetched, c)
      /\ fetch2.expectedStream # c
  BY <1>5 DEF NoneCurrent
<1>7. e.stream <= c /\ e.pred <= fetch2.pred
  BY DEF PathInv, StreamsKnown, PredictionsKnown
<1>8. AllOf(LinesIn, Branched.stream)
  <2>1. LinesIn = <<>>
    BY DEF PathInv, LinesOfFetch1
  <2> QED
    BY <2>1 DEF AllOf
<1>9. LinesFollow(Fetched, Branched, YoungestNow, c, arch, fetch2)
  <2>1. \A k \in 1..Len(Fetched) : ~Live(Fetched[k], c, fetch2)
    BY <1>6 DEF NoneOf, Live
  <2>2. \A x \in YoungestNow : x.stream # c
    BY <1>5, YoungestTypes DEF YoungestNow
  <2>3. Live(Branched, c, fetch2) /\ Branched.state = "Running" =>
          Continues(YoungestNow, Branched.pc, c, arch)
    BY <1>3, <1>5, <2>2 DEF Live, Continues
  <2> HIDE DEF c
  <2> QED
    BY <2>1, <2>3, DeadLines
<1>10. IsStreamChange(f2ToF1.in) => f2ToF1.in.stream # c
  <2>1. IsStreamChange(f2ToF1.in) => f2ToF1.in \in PendingPredictions
    BY DEF PendingPredictions
  <2> QED
    BY <1>5, <2>1 DEF NoneCurrent
<1> QED
  BY <1>3, <1>5, <1>6, <1>7, <1>8, <1>9, <1>10 DEF BranchedPath

\* Fetch2's prediction.
LEMMA BranchedByFetch2 ==
    ASSUME TypeOK, PathInv, PathTypeOK, phase = "fetch1", fetch1.state # "Halted",
           ~IsStreamChange(eToF1.out), IsStreamChange(f2ToF1.out),
           f2ToF1.out.stream = fetch1.stream
    PROVE  BranchedPath
<1> DEFINE c == exec.stream
<1> DEFINE p == f2ToF1.out
<1> DEFINE y == YoungestNow
<1>1. Branched = ChangeStream(fetch1, p)
  BY DEF Branched, AfterBranches
<1>2. fetch1 \in Fetch1ThreadInfo /\ p \in Branches
  BY DEF TypeOK, CycleTypeOK, FetchTypeOK
<1>3. Branched.stream = fetch1.stream /\ Branched.pred = p.pred /\ Branched.pc = p.target
  BY <1>1, <1>2, ChangeStreamType
<1>4. p \in PendingPredictions /\ (IsStreamChange(f2ToF1.in) => f2ToF1.in \in PendingPredictions)
  BY DEF PendingPredictions
<1>5. /\ LinesFollow(Fetched, fetch1, y, c, arch, fetch2)
      /\ p.stream = c => /\ fetch2.expectedStream = c /\ p.pred = fetch2.pred
                         /\ fetch1.pred # p.pred
                         /\ Continues(y, p.target, c, arch)
      /\ IsStreamChange(f2ToF1.in) /\ f2ToF1.in.stream = c =>
           fetch2.expectedStream = c /\ p.stream # c
  BY <1>4 DEF PathInv, LinesPath, PredictionsFollow, YoungestNow
<1>6. fetch1.stream <= c /\ p.pred <= fetch2.pred
  BY DEF PathInv, StreamsKnown, PredictionsKnown
<1>7. /\ (NoneOf(Decoded, c) /\ NoneOf(Undecoded, c)) \/ fetch1.stream = c
      /\ (NoneOf(Fetched, c) /\ fetch2.expectedStream # c) \/ fetch1.stream = c
  BY DEF PathInv, StreamsOrdered
<1>8. AllOf(LinesIn, fetch1.stream)
  BY DEF PathInv, LinesOfFetch1
<1>9. IsStreamChange(eToF1.in) => fetch1.stream # c
  <2>1. IsStreamChange(eToF1.in) => eToF1.in \in PendingBranches
    BY DEF PendingBranches
  <2> QED
    BY <2>1 DEF PathInv, StreamStarts
<1>10. exec.drainState = "DrainAllInsts" => fetch1.stream # c
  BY <1>4 DEF PathInv, StreamStarts, NoneCurrent
<1>11. LinesFollow(Fetched, Branched, y, c, arch, fetch2)
  <2>1. ~Live(fetch1, c, fetch2)
    BY <1>5 DEF Live
  <2>2. Fetched \in LineSeqs
    BY DEF PathTypeOK, LineSeqs
  <2>3. Live(Branched, c, fetch2) => Continues(y, Branched.pc, c, arch)
    BY <1>3, <1>5 DEF Live
  <2> HIDE DEF c, y
  <2>4. Linked(Fetched, fetch1, y, c, arch, fetch2)
    BY <1>5, <2>2, LinesFollowParts
  <2>5. \A k \in 1..Len(Fetched) : ~Live(Fetched[k], c, fetch2)
    BY <2>1, <2>4 DEF Linked
  <2> QED
    BY <2>3, <2>5, DeadLines
<1>12. IsStreamChange(f2ToF1.in) => f2ToF1.in.stream # c
  BY <1>5, <1>7
<1> QED
  BY <1>3, <1>6, <1>7, <1>8, <1>9, <1>10, <1>11, <1>12 DEF BranchedPath

LEMMA NotBranched ==
    ASSUME TypeOK, PathInv, PathTypeOK, phase = "fetch1", Branched = fetch1
    PROVE  BranchedPath
<1> DEFINE c == exec.stream
<1>1. fetch1.stream <= c /\ fetch1.pred <= fetch2.pred
  BY DEF PathInv, StreamsKnown, PredictionsKnown
<1>2. /\ (NoneOf(Decoded, c) /\ NoneOf(Undecoded, c)) \/ fetch1.stream = c
      /\ (NoneOf(Fetched, c) /\ fetch2.expectedStream # c) \/ fetch1.stream = c
  BY DEF PathInv, StreamsOrdered
<1>3. AllOf(LinesIn, fetch1.stream)
  BY DEF PathInv, LinesOfFetch1
<1>4. IsStreamChange(eToF1.in) => fetch1.stream # c
  <2>1. IsStreamChange(eToF1.in) => eToF1.in \in PendingBranches
    BY DEF PendingBranches
  <2> QED
    BY <2>1 DEF PathInv, StreamStarts
<1>5. exec.drainState = "DrainAllInsts" /\ fetch1.stream = c => fetch1.state # "Running"
  BY DEF PathInv, StreamStarts
<1>6. LinesFollow(Fetched, fetch1, YoungestNow, c, arch, fetch2)
  BY DEF PathInv, LinesPath, YoungestNow
<1>7. IsStreamChange(f2ToF1.in) /\ f2ToF1.in.stream = c => fetch1.pred # fetch2.pred
  <2>1. IsStreamChange(f2ToF1.in) => f2ToF1.in \in PendingPredictions
    BY DEF PendingPredictions
  <2> QED
    BY <2>1 DEF PathInv, LinesPath, PredictionsFollow
<1> QED
  BY <1>1, <1>2, <1>3, <1>4, <1>5, <1>6, <1>7 DEF BranchedPath

LEMMA BranchedKeepsPath ==
    ASSUME TypeOK, PathInv, PathTypeOK, phase = "fetch1"
    PROVE  BranchedPath
<1>1. CASE fetch1.state # "Halted" /\ IsStreamChange(eToF1.out)
  BY <1>1, BranchedByExecute
<1>2. CASE /\ fetch1.state # "Halted" /\ ~IsStreamChange(eToF1.out)
           /\ IsStreamChange(f2ToF1.out) /\ f2ToF1.out.stream = fetch1.stream
  BY <1>2, BranchedByFetch2
<1>3. CASE Branched = fetch1
  BY <1>3, NotBranched
<1> QED
  BY <1>1, <1>2, <1>3 DEF Branched, AfterBranches

LEMMA KeptTransitive ==
    ASSUME NEW s, NEW t, NEW u, Kept(t, s), Kept(u, t)
    PROVE  Kept(u, s)
<1>1. \A k \in 1..Len(u) : \E n \in 1..Len(s) :
        u[k].stream = s[n].stream /\ u[k].pred = s[n].pred
  <2>1. SUFFICES ASSUME NEW k \in 1..Len(u)
                 PROVE  \E n \in 1..Len(s) : u[k].stream = s[n].stream /\ u[k].pred = s[n].pred
    OBVIOUS
  <2>2. PICK g \in 1..Len(t) : u[k].stream = t[g].stream /\ u[k].pred = t[g].pred
    BY DEF Kept
  <2>3. PICK n \in 1..Len(s) : t[g].stream = s[n].stream /\ t[g].pred = s[n].pred
    BY DEF Kept
  <2> QED
    BY <2>2, <2>3
<1>2. \A j, k \in 1..Len(u) : j < k => \E m, n \in 1..Len(s) :
        m < n /\ u[j].stream = s[m].stream /\ u[k].stream = s[n].stream
  <2>1. SUFFICES ASSUME NEW j \in 1..Len(u), NEW k \in 1..Len(u), j < k
                 PROVE  \E m, n \in 1..Len(s) :
                          m < n /\ u[j].stream = s[m].stream /\ u[k].stream = s[n].stream
    OBVIOUS
  <2>2. PICK g, h \in 1..Len(t) :
          g < h /\ u[j].stream = t[g].stream /\ u[k].stream = t[h].stream
    BY <2>1 DEF Kept
  <2>3. PICK m, n \in 1..Len(s) :
          m < n /\ t[g].stream = s[m].stream /\ t[h].stream = s[n].stream
    BY <2>2 DEF Kept
  <2> QED
    BY <2>2, <2>3
<1> QED
  BY <1>1, <1>2 DEF Kept

\* Of Fetch1 only its stream, prediction and PC matter, and that it runs.
LEMMA SameFetch1 ==
    ASSUME NEW f \in LineSeqs, NEW f1, NEW y, NEW c, NEW a, NEW f2, LinesFollow(f, f1, y, c, a, f2),
           NEW g1, g1.stream = f1.stream, g1.pred = f1.pred, g1.pc = f1.pc,
           g1.state = "Running" => f1.state = "Running"
    PROVE  LinesFollow(f, g1, y, c, a, f2)
<1>1. Live(g1, c, f2) <=> Live(f1, c, f2)
  BY DEF Live
<1>2. Linked(f, f1, y, c, a, f2)
  BY LinesFollowParts
<1>3. Linked(f, g1, y, c, a, f2)
  BY <1>1, <1>2 DEF Linked
<1> QED
  BY <1>3, LinesFollowParts

\* The lines that Fetch2 has or Fetch1 is fetching, with a new one.
WithNewLine == IF Fetching THEN Append(Fetched, NewFetch(Branched)) ELSE Fetched

LEMMA NewLinePath ==
    ASSUME TypeOK, PathTypeOK, BranchedPath
    PROVE  LET c == exec.stream
           IN  /\ WithNewLine \in LineSeqs
               /\ LinesFollow(WithNewLine, Advanced, YoungestNow, c, arch, fetch2)
               /\ (\A j \in 1..Len(Fetched) : Fetched[j].stream <= c) =>
                    \A k \in 1..Len(WithNewLine) : WithNewLine[k].stream <= c
               /\ (\A j \in 1..Len(Fetched) : Fetched[j].pred <= fetch2.pred) =>
                    \A k \in 1..Len(WithNewLine) : WithNewLine[k].pred <= fetch2.pred
               /\ Ordered(Fetched, c) => Ordered(WithNewLine, c)
               /\ AllOf(Fetched, c) /\ Branched.stream = c => AllOf(WithNewLine, c)
               /\ NoneOf(Fetched, c) /\ (Fetching => Branched.stream # c) => NoneOf(WithNewLine, c)
<1> DEFINE c == exec.stream
<1> DEFINE x == NewFetch(Branched)
<1> DEFINE y == YoungestNow
<1>1. /\ Branched \in Fetch1ThreadInfo /\ Advanced \in Fetch1ThreadInfo
      /\ Advanced.stream = Branched.stream /\ Advanced.pred = Branched.pred
      /\ Advanced.state = Branched.state
      /\ Advanced.pc = IF Fetching THEN AfterPC(Branched.pc) ELSE Branched.pc
      /\ x \in Fetches
  BY Fetch1PartTypes DEF TypeOK
<1>2. x.pc = Branched.pc /\ x.stream = Branched.stream /\ x.pred = Branched.pred
  BY DEF NewFetch
<1> HIDE DEF x
<1>3. Fetched \in LineSeqs /\ Fetched \in Seq(Lines \cup Fetches) /\ x \in Lines \cup Fetches
  BY <1>1 DEF PathTypeOK, LineSeqs
<1>4. /\ LinesFollow(Fetched, Branched, y, c, arch, fetch2)
      /\ NoneOf(Fetched, c) \/ Branched.stream = c
      /\ Branched.stream <= c /\ Branched.pred <= fetch2.pred
  BY DEF BranchedPath
<1>5. CASE Fetching
  <2>1. WithNewLine = Append(Fetched, x)
    BY <1>5 DEF WithNewLine, x
  <2>2. WithNewLine \in LineSeqs
    BY <1>3, <2>1, AppendElements DEF LineSeqs
  <2>3. Branched.state = "Running" /\ Advanced.pc = AfterPC(Branched.pc)
    BY <1>1, <1>5 DEF Fetching
  <2>4. LinesFollow(WithNewLine, Advanced, y, c, arch, fetch2)
    <3>1. Advanced.stream = Branched.stream /\ Advanced.pred = Branched.pred
      BY <1>1
    <3> HIDE DEF c, y
    <3> QED
      BY <1>2, <1>3, <1>4, <2>1, <2>3, <3>1, AppendedLines
  <2>5. /\ (\A j \in 1..Len(Fetched) : Fetched[j].stream <= c) =>
             \A k \in 1..Len(WithNewLine) : WithNewLine[k].stream <= c
        /\ (\A j \in 1..Len(Fetched) : Fetched[j].pred <= fetch2.pred) =>
             \A k \in 1..Len(WithNewLine) : WithNewLine[k].pred <= fetch2.pred
    BY <1>2, <1>3, <1>4, <2>1, AppendStreams
  <2>6. /\ Ordered(Fetched, c) => Ordered(WithNewLine, c)
        /\ AllOf(Fetched, c) /\ Branched.stream = c => AllOf(WithNewLine, c)
        /\ NoneOf(Fetched, c) /\ Branched.stream # c => NoneOf(WithNewLine, c)
    BY <1>2, <1>3, <1>4, <2>1, AppendStreams
  <2> QED
    BY <1>5, <2>2, <2>4, <2>5, <2>6
<1>6. CASE ~Fetching
  <2>1. WithNewLine = Fetched /\ Advanced = Branched
    BY <1>6 DEF WithNewLine, Advanced
  <2> QED
    BY <1>3, <1>4, <2>1
<1> QED
  BY <1>5, <1>6

\* The lines and Fetch1 after a cycle of it.
LEMMA Fetch1Lines ==
    ASSUME TypeOK, TypeOK', CreditInv, PathTypeOK, PathTypeOK', BranchedPath, Fetch1
    PROVE  /\ SameOps
           /\ Kept(Fetched', WithNewLine)
           /\ fetch1'.stream = Branched.stream /\ fetch1'.pred = Branched.pred
           /\ fetch1'.state = "Running" => Branched.state = "Running"
           /\ LinesFollow(Fetched', fetch1', YoungestNow, exec.stream, arch, fetch2)
           /\ AllOf(LinesIn', Branched.stream)
<1> DEFINE c == exec.stream
<1> DEFINE y == YoungestNow
<1>1. phase = "fetch1" /\ inFlight' = inFlight
  BY Fetch1Frame DEF executeVars
<1>2. PICK r : QueueStep(WithNew, r) /\ Fetch1Result(r)
  BY Fetch1Parts DEF TypeOK
<1> DEFINE all == LinesIn \o r.q
<1> DEFINE x == Head(r.q)
<1>3. /\ SameOps
      /\ all \in Seq(Lines \cup Fetches)
      /\ SameKeys(all, WithNewLine)
      /\ ~Responds(r.q) => LinesIn' = LinesIn /\ Fetched' = all
      /\ Old(r.q) => /\ LinesIn' = LinesIn
                     /\ \E p \in 1..Len(all) : Removed(Fetched', all, p) /\ all[p] = x
      /\ Responds(r.q) /\ ~Old(r.q) =>
           LinesIn' = Append(LinesIn, LineOf(x)) /\ SameKeys(Fetched', all)
  BY <1>1, <1>2, Fetch1Path DEF WithNewLine
<1>4. /\ Advanced \in Fetch1ThreadInfo
      /\ Advanced.stream = Branched.stream /\ Advanced.pred = Branched.pred
      /\ Advanced.state = Branched.state
  BY Fetch1PartTypes DEF TypeOK
<1>5. fetch1' = [Advanced EXCEPT !.wakeupGuard = FALSE,
                   !.state = IF Responds(r.q) /\ ~Old(r.q) /\ Head(r.q).fault
                             THEN "WaitingForPC" ELSE @]
  BY <1>2 DEF Fetch1Result
<1>6. /\ fetch1'.stream = Advanced.stream /\ fetch1'.pred = Advanced.pred
      /\ fetch1'.pc = Advanced.pc
      /\ fetch1'.state = "Running" => Advanced.state = "Running"
  BY <1>4, <1>5 DEF Fetch1ThreadInfo
<1>7. /\ WithNewLine \in LineSeqs
      /\ LinesFollow(WithNewLine, Advanced, y, c, arch, fetch2)
  BY NewLinePath
<1>8. all \in LineSeqs /\ Fetched' \in LineSeqs
  BY <1>3 DEF LineSeqs, PathTypeOK
<1>9. LinesFollow(all, Advanced, y, c, arch, fetch2)
  <2>1. SameEnd(y, arch, y, arch, c)
    BY SameEndReflexive
  <2>2. SameKeys(all, WithNewLine)
    BY <1>3
  <2> HIDE DEF all, y, c
  <2> QED
    BY <1>7, <1>8, <2>1, <2>2, SameLinesFollow
<1>10. Kept(all, WithNewLine)
  BY <1>3, KeptSameKeys
<1> SUFFICES /\ Kept(Fetched', all)
             /\ LinesFollow(Fetched', Advanced, y, c, arch, fetch2)
             /\ AllOf(LinesIn', Branched.stream)
  <2>1. ASSUME /\ Kept(Fetched', all)
               /\ LinesFollow(Fetched', Advanced, y, c, arch, fetch2)
               /\ AllOf(LinesIn', Branched.stream)
        PROVE  Kept(Fetched', WithNewLine) /\ LinesFollow(Fetched', fetch1', y, c, arch, fetch2)
    <3> HIDE DEF all, y, c
    <3>1. Kept(Fetched', WithNewLine)
      BY <1>10, <2>1, KeptTransitive
    <3>2. LinesFollow(Fetched', fetch1', y, c, arch, fetch2)
      BY <1>6, <1>8, <2>1, SameFetch1
    <3> QED
      BY <3>1, <3>2
  <2> QED
    BY <1>3, <1>4, <1>6, <2>1
<1>11. AllOf(LinesIn, Branched.stream) /\ LinesIn \in Seq(Lines)
  BY DEF BranchedPath, PathTypeOK
<1>12. CASE ~Responds(r.q)
  <2>1. Fetched' = all /\ LinesIn' = LinesIn
    BY <1>3, <1>12
  <2> HIDE DEF all
  <2> QED
    BY <1>9, <1>11, <2>1, KeptReflexive
<1>13. CASE Old(r.q)
  <2>1. LinesIn' = LinesIn
    BY <1>3, <1>13
  <2>2. PICK p \in 1..Len(all) : Removed(Fetched', all, p) /\ all[p] = x
    BY <1>3, <1>13
  <2>3. OldFetch(Advanced, x)
    BY <1>13 DEF Old
  <2> HIDE DEF all, x, y, c
  <2>4. ~Live(all[p], c, fetch2)
    <3>1. \A k \in 1..Len(all) : Live(all[k], c, fetch2) =>
            Live(Advanced, c, fetch2) /\ all[k].pred = Advanced.pred
      BY <1>8, <1>9, LinesFollowParts DEF Linked
    <3> QED
      BY <2>2, <2>3, <3>1 DEF Live, OldFetch
  <2>5. LinesFollow(Fetched', Advanced, y, c, arch, fetch2)
    BY <1>8, <1>9, <2>2, <2>4, RemovedLines
  <2>6. Kept(Fetched', all)
    BY <1>8, <2>2, KeptRemoved DEF LineSeqs
  <2> QED
    BY <1>11, <2>1, <2>5, <2>6
<1>14. CASE Responds(r.q) /\ ~Old(r.q)
  <2>1. LinesIn' = Append(LinesIn, LineOf(x)) /\ SameKeys(Fetched', all)
    BY <1>3, <1>14
  <2>2. LineOf(x).stream = Branched.stream
    BY <1>4, <1>14 DEF Old, OldFetch, LineOf
  <2>3. LinesFollow(Fetched', Advanced, y, c, arch, fetch2)
    <3>1. SameEnd(y, arch, y, arch, c)
      BY SameEndReflexive
    <3> HIDE DEF all, y, c
    <3> QED
      BY <1>8, <1>9, <2>1, <3>1, SameLinesFollow
  <2>4. Kept(Fetched', all)
    BY <2>1, KeptSameKeys
  <2>5. AllOf(LinesIn', Branched.stream)
    <3>1. LineOf(x) \in Lines
      <4>1. r.q \in Seq(Fetches) /\ r.q # <<>>
        BY <1>2, <1>14 DEF QueueStep, Responds
      <4> QED
        BY <4>1, LineOfType
    <3> DEFINE w == LinesIn
    <3> DEFINE v == LineOf(x)
    <3> HIDE DEF w, v
    <3>2. w \in Seq(Lines) /\ v \in Lines /\ v.stream = Branched.stream /\ AllOf(w, Branched.stream)
      BY <1>11, <2>2, <3>1 DEF w, v
    <3>3. AllOf(Append(w, v), Branched.stream)
      BY <3>2, AppendStreams
    <3> QED
      BY <2>1, <3>3 DEF w, v
  <2> QED
    BY <2>3, <2>4, <2>5
<1>15. Old(r.q) => Responds(r.q)
  BY DEF Old
<1> QED
  BY <1>12, <1>13, <1>14, <1>15

LEMMA Fetch1PathInv ==
    ASSUME TypeOK, TypeOK', CreditInv, PathInv, PathTypeOK, PathTypeOK', Fetch1
    PROVE  PathInv'
<1> DEFINE c == exec.stream
<1> DEFINE w == WithNewLine
<1>1. /\ phase = "fetch1" /\ phase' = "advance"
      /\ UNCHANGED <<eToF1, fetch2, f2ToF1, microop, inFlight, exec, arch, status, drain>>
  BY Fetch1Frame DEF executeVars, drainVars
<1>2. BranchedPath
  BY <1>1, BranchedKeepsPath
<1>3. /\ SameOps /\ Kept(Fetched', w)
      /\ fetch1'.stream = Branched.stream /\ fetch1'.pred = Branched.pred
      /\ fetch1'.state = "Running" => Branched.state = "Running"
      /\ LinesFollow(Fetched', fetch1', YoungestNow, c, arch, fetch2)
      /\ AllOf(LinesIn', Branched.stream)
  BY <1>2, Fetch1Lines
<1>4. Decoded' = Decoded /\ Undecoded' = Undecoded
  BY <1>3 DEF SameOps
<1>5. /\ Branched.stream <= c /\ Branched.pred <= fetch2.pred
      /\ (NoneOf(Decoded, c) /\ NoneOf(Undecoded, c)) \/ Branched.stream = c
      /\ (NoneOf(Fetched, c) /\ fetch2.expectedStream # c) \/ Branched.stream = c
      /\ IsStreamChange(eToF1.in) => Branched.stream # c
      /\ exec.drainState = "DrainAllInsts" /\ Branched.stream = c => Branched.state # "Running"
      /\ IsStreamChange(f2ToF1.in) /\ f2ToF1.in.stream = c => Branched.pred # fetch2.pred
  BY <1>2 DEF BranchedPath
<1>6. /\ (\A j \in 1..Len(Fetched) : Fetched[j].stream <= c) =>
           \A k \in 1..Len(w) : w[k].stream <= c
      /\ (\A j \in 1..Len(Fetched) : Fetched[j].pred <= fetch2.pred) =>
           \A k \in 1..Len(w) : w[k].pred <= fetch2.pred
      /\ Ordered(Fetched, c) => Ordered(w, c)
      /\ AllOf(Fetched, c) /\ Branched.stream = c => AllOf(w, c)
      /\ NoneOf(Fetched, c) /\ (Fetching => Branched.stream # c) => NoneOf(w, c)
  BY <1>2, NewLinePath
<1> HIDE DEF w
<1>7. /\ Ordered(w, c) => Ordered(Fetched', c)
      /\ AllOf(w, c) => AllOf(Fetched', c)
      /\ NoneOf(w, c) => NoneOf(Fetched', c)
      /\ (\A k \in 1..Len(w) : w[k].stream <= c) =>
           \A k \in 1..Len(Fetched') : Fetched'[k].stream <= c
      /\ (\A k \in 1..Len(w) : w[k].pred <= fetch2.pred) =>
           \A k \in 1..Len(Fetched') : Fetched'[k].pred <= fetch2.pred
  BY <1>3, KeptStreams
<1>8. /\ PendingBranches' = {b \in {eToF1.in} : IsStreamChange(b)}
      /\ PendingPredictions' = {b \in {f2ToF1.in} : IsStreamChange(b)}
  BY <1>1 DEF PendingBranches, PendingPredictions, IsStreamChange
<1>9. PendingBranches' \subseteq PendingBranches /\ PendingPredictions' \subseteq PendingPredictions
  BY <1>8 DEF PendingBranches, PendingPredictions
<1>10. c' = c
  BY <1>1
<1>11. StreamsKnown'
  <2>1. /\ \A k \in 1..Len(Decoded) : Decoded[k].stream <= c
        /\ \A k \in 1..Len(Undecoded) : Undecoded[k].stream <= c
        /\ \A k \in 1..Len(Fetched) : Fetched[k].stream <= c
    BY DEF PathInv, StreamsKnown
  <2>2. \A s \in {Decoded', Undecoded', Fetched'} : \A k \in 1..Len(s) : s[k].stream <= c
    BY <1>4, <1>6, <1>7, <2>1
  <2>3. \A b \in {fetch1', (eToF1.in)', (eToF1.out)', (f2ToF1.in)', (f2ToF1.out)'} : b.stream <= c
    BY <1>1, <1>3, <1>5 DEF PathInv, StreamsKnown
  <2>4. (fetch2.expectedStream <= exec.stream)' /\ (fetch2.lastStream <= exec.stream)'
    BY <1>1 DEF PathInv, StreamsKnown
  <2> QED
    BY <1>10, <2>2, <2>3, <2>4 DEF StreamsKnown
<1>12. PredictionsKnown'
  <2>1. /\ \A k \in 1..Len(Decoded) : Decoded[k].pred <= fetch2.pred
        /\ \A k \in 1..Len(Undecoded) : Undecoded[k].pred <= fetch2.pred
        /\ \A k \in 1..Len(Fetched) : Fetched[k].pred <= fetch2.pred
    BY DEF PathInv, PredictionsKnown
  <2>2. \A s \in {Decoded', Undecoded', Fetched'} : \A k \in 1..Len(s) : s[k].pred <= fetch2.pred
    BY <1>4, <1>6, <1>7, <2>1
  <2>3. \A b \in {fetch1', (eToF1.in)', (eToF1.out)', (f2ToF1.in)', (f2ToF1.out)'} :
          b.pred <= fetch2.pred
    BY <1>1, <1>3, <1>5 DEF PathInv, PredictionsKnown
  <2>4. fetch2' = fetch2 /\ (exec.lastPred <= fetch2.pred)'
    BY <1>1 DEF PathInv, PredictionsKnown
  <2> QED
    BY <2>2, <2>3, <2>4 DEF PredictionsKnown
<1>13. StreamsOrdered'
  <2>1. fetch1'.stream = Branched.stream /\ fetch2' = fetch2
    BY <1>1, <1>3
  <2> QED
    BY <1>4, <1>5, <1>6, <1>7, <1>10, <2>1 DEF PathInv, StreamsOrdered
<1>14. LinesOfFetch1'
  BY <1>1, <1>3 DEF LinesOfFetch1
<1>15. NoneCurrent /\ (Fetching => Branched.stream # c) => NoneCurrent'
  BY <1>1, <1>4, <1>6, <1>7, <1>9, <1>10 DEF NoneCurrent
<1>16. StreamStarts'
  <2>1. ASSUME NEW b \in PendingBranches'
        PROVE  /\ NoneCurrent'
               /\ (fetch1.stream # exec.stream)'
               /\ b.stream = exec.stream' /\ b.reason # "HaltFetch" => b.target = (arch.pc)'
               /\ b.stream = exec.stream' /\ exec'.drainState = "DrainAllInsts"
                    => b.reason = "HaltFetch"
    <3>1. b \in PendingBranches /\ IsStreamChange(eToF1.in)
      BY <1>8, <1>9
    <3>2. NoneCurrent /\ Branched.stream # c
      BY <1>5, <3>1 DEF PathInv, StreamStarts
    <3> QED
      BY <1>1, <1>3, <1>15, <3>1, <3>2 DEF PathInv, StreamStarts
  <2>2. (status = "Suspended" => NoneCurrent)'
    <3>1. status = "Suspended" => ~Fetching
      BY DEF Fetching
    <3> QED
      BY <1>1, <1>15, <3>1 DEF PathInv, StreamStarts
  <2>3. (exec.drainState = "DrainAllInsts" =>
          NoneCurrent /\ (fetch1.stream = exec.stream => fetch1.state # "Running"))'
    <3>1. Fetching => Branched.state = "Running"
      BY DEF Fetching
    <3> QED
      BY <1>1, <1>3, <1>5, <1>15, <3>1 DEF PathInv, StreamStarts
  <2>4. (IsStreamChange(eToF1.in) => eToF1.out.stream # exec.stream)'
    BY <1>1 DEF PathInv, StreamStarts, IsStreamChange
  <2> QED
    BY <2>1, <2>2, <2>3, <2>4 DEF StreamStarts
<1>17. OpsWellFormed' /\ OpsPath'
  <2>1. OpsWellFormed'
    BY <1>1, <1>4 DEF PathInv, OpsWellFormed
  <2>2. OpsPath'
    BY <1>1, <1>4 DEF PathInv, OpsPath
  <2> QED
    BY <2>1, <2>2
<1>18. LinesPath'
  <2> DEFINE y == YoungestNow
  <2>1. y' = y /\ arch' = arch /\ fetch2' = fetch2 /\ f2ToF1' = f2ToF1
    BY <1>1, <1>4 DEF YoungestNow
  <2> HIDE DEF y
  <2>2. PredictionsFollow(y, c, arch)
    BY DEF PathInv, LinesPath, YoungestNow, y
  <2>3. LinesFollow(Fetched', fetch1', y', c', arch', fetch2')
    BY <1>3, <1>10, <2>1 DEF y
  <2>4. ASSUME NEW b \in PendingPredictions'
        PROVE  /\ b.reason = "BranchPrediction"
               /\ b.stream = c' =>
                    /\ (fetch2.expectedStream)' = c'
                    /\ b.pred = (fetch2.pred)'
                    /\ (fetch1.pred)' # b.pred
                    /\ Continues(y', b.target, c', arch')
    <3>1. b \in PendingPredictions /\ b = f2ToF1.in /\ IsStreamChange(f2ToF1.in)
      BY <1>8, <1>9
    <3> QED
      BY <1>3, <1>5, <1>10, <2>1, <2>2, <3>1 DEF PredictionsFollow
  <2>5. PredictionsFollow(y, c, arch)'
    <3>1. (fetch2.havePC /\ fetch2.lastStream = c)' =>
            ContinuesExactly(y', (fetch2.pc)', c', arch')
      BY <1>10, <2>1, <2>2 DEF PredictionsFollow
    <3> QED
      BY <2>4, <3>1 DEF PredictionsFollow
  <2>6. (IsStreamChange(f2ToF1.in) /\ f2ToF1.in.stream = exec.stream =>
           f2ToF1.out \notin PendingPredictions \/ f2ToF1.out.stream # exec.stream)'
    BY <1>1, <1>9 DEF PathInv, LinesPath, IsStreamChange
  <2> QED
    BY <2>3, <2>5, <2>6 DEF LinesPath, YoungestNow, y
<1>19. DrainPath'
  <2>1. drain # "Drained"
    BY <1>1, NotDrained
  <2> QED
    BY <1>1, <2>1 DEF PathInv, DrainPath
<1> QED
  BY <1>11, <1>12, <1>13, <1>14, <1>16, <1>17, <1>18, <1>19 DEF PathInv

----------------------------------------------------------------------------
(* The end of the cycle, waking and draining. *)

\* The work of the pipeline, Fetch2 and the branches on their way stay.
SameWork ==
    /\ UNCHANGED <<buf, fetches, fetch2, microop, inFlight, arch>>
    /\ fetch1'.stream = fetch1.stream /\ fetch1'.pred = fetch1.pred
    /\ exec'.stream = exec.stream /\ exec'.lastPred = exec.lastPred
    /\ exec'.endOfMacroop = exec.endOfMacroop
    /\ PendingBranches' = PendingBranches
    /\ PendingPredictions' = PendingPredictions
    /\ \A b \in {(eToF1.in)', (eToF1.out)', (f2ToF1.in)', (f2ToF1.out)'} :
         \/ b = NoBranch
         \/ b \in {eToF1.in, eToF1.out, f2ToF1.in, f2ToF1.out}
    /\ phase' = "between"

LEMMA SameWorkPath ==
    ASSUME TypeOK, TypeOK', PathInv, SameWork
    PROVE  /\ Decoded' = Decoded /\ Undecoded' = Undecoded /\ Fetched' = Fetched
           /\ YoungestNow' = YoungestNow
           /\ NoneCurrent' = NoneCurrent
           /\ StreamsKnown' /\ PredictionsKnown' /\ StreamsOrdered' /\ LinesOfFetch1' /\ OpsPath'
           /\ PredictionsFollow(YoungestNow, exec.stream, arch)'
<1>1. /\ UNCHANGED <<buf, fetches, fetch2, microop, inFlight, arch>>
      /\ fetch1'.stream = fetch1.stream /\ fetch1'.pred = fetch1.pred
      /\ exec'.stream = exec.stream /\ exec'.lastPred = exec.lastPred
      /\ PendingBranches' = PendingBranches
      /\ PendingPredictions' = PendingPredictions
      /\ phase' = "between"
  BY DEF SameWork
<1>2. /\ Decoded' = Decoded /\ Undecoded' = Undecoded /\ Fetched' = Fetched
      /\ LinesIn' = LinesIn
  BY <1>1 DEF Decoded, Undecoded, Fetched, LinesIn, Into
<1>3. YoungestNow' = YoungestNow
  BY <1>2 DEF YoungestNow
<1>4. NoneCurrent' = NoneCurrent
  BY <1>1, <1>2 DEF NoneCurrent
<1>5. exec.stream \in Nat /\ fetch2.pred \in Nat
  BY DEF TypeOK, ExecuteTypeOK, FetchTypeOK, SeqNum
<1>6. \A b \in {(eToF1.in)', (eToF1.out)', (f2ToF1.in)', (f2ToF1.out)'} :
        b.stream <= exec.stream /\ b.pred <= fetch2.pred
  <2>1. \A b \in {(eToF1.in)', (eToF1.out)', (f2ToF1.in)', (f2ToF1.out)'} :
          \/ b = NoBranch
          \/ b \in {eToF1.in, eToF1.out, f2ToF1.in, f2ToF1.out}
    BY DEF SameWork
  <2>2. \A b \in {eToF1.in, eToF1.out, f2ToF1.in, f2ToF1.out} :
          b.stream <= exec.stream /\ b.pred <= fetch2.pred
    BY DEF PathInv, StreamsKnown, PredictionsKnown
  <2>3. NoBranch.stream = 0 /\ NoBranch.pred = 0
    BY DEF NoBranch
  <2> QED
    BY <1>5, <2>1, <2>2, <2>3
<1>7. StreamsKnown'
  <2>1. \A b \in {fetch1', (eToF1.in)', (eToF1.out)', (f2ToF1.in)', (f2ToF1.out)'} :
          b.stream <= exec.stream
    BY <1>1, <1>6 DEF PathInv, StreamsKnown
  <2>2. /\ \A s \in {Decoded, Undecoded, Fetched} : \A k \in 1..Len(s) : s[k].stream <= exec.stream
        /\ fetch2.expectedStream <= exec.stream /\ fetch2.lastStream <= exec.stream
    BY DEF PathInv, StreamsKnown
  <2> QED
    BY <1>1, <1>2, <2>1, <2>2 DEF StreamsKnown
<1>8. PredictionsKnown'
  <2>1. \A b \in {fetch1', (eToF1.in)', (eToF1.out)', (f2ToF1.in)', (f2ToF1.out)'} :
          b.pred <= fetch2.pred
    BY <1>1, <1>6 DEF PathInv, PredictionsKnown
  <2>2. /\ \A s \in {Decoded, Undecoded, Fetched} : \A k \in 1..Len(s) : s[k].pred <= fetch2.pred
        /\ exec.lastPred <= fetch2.pred
    BY DEF PathInv, PredictionsKnown
  <2> QED
    BY <1>1, <1>2, <2>1, <2>2 DEF PredictionsKnown
<1>9. StreamsOrdered' /\ LinesOfFetch1' /\ OpsPath'
  <2>1. StreamsOrdered'
    BY <1>1, <1>2 DEF PathInv, StreamsOrdered
  <2>2. LinesOfFetch1'
    BY <1>1, <1>2 DEF PathInv, LinesOfFetch1
  <2>3. OpsPath'
    BY <1>1, <1>2 DEF PathInv, OpsPath
  <2> QED
    BY <2>1, <2>2, <2>3
<1>10. PredictionsFollow(YoungestNow, exec.stream, arch)'
  <2>1. PredictionsFollow(YoungestNow, exec.stream, arch)
    BY DEF PathInv, LinesPath, YoungestNow
  <2> QED
    BY <1>1, <1>3, <2>1 DEF PredictionsFollow
<1> QED
  BY <1>2, <1>3, <1>4, <1>7, <1>8, <1>9, <1>10

LEMMA AdvancePath ==
    ASSUME TypeOK, TypeOK', PathInv, Advance
    PROVE  PathInv'
<1>1. /\ phase = "advance" /\ phase' = "between"
      /\ f2ToF1' = [in |-> NoBranch, out |-> f2ToF1.in]
      /\ eToF1'  = [in |-> NoBranch, out |-> eToF1.in]
      /\ UNCHANGED <<buf, fetch1, fetches, fetch2, microop, inFlight, exec, arch, status, drain>>
  BY DEF Advance, executeVars
<1>2. /\ eToF1'.in = NoBranch /\ eToF1'.out = eToF1.in
      /\ f2ToF1'.in = NoBranch /\ f2ToF1'.out = f2ToF1.in
  BY <1>1
<1>3. ~IsStreamChange(NoBranch)
  BY DEF IsStreamChange, NoBranch
<1>4. PendingBranches' = PendingBranches /\ PendingPredictions' = PendingPredictions
  BY <1>1, <1>2, <1>3 DEF PendingBranches, PendingPredictions, IsStreamChange
<1>5. SameWork
  BY <1>1, <1>2, <1>4 DEF SameWork
<1>6. /\ Decoded' = Decoded /\ Undecoded' = Undecoded /\ Fetched' = Fetched
      /\ YoungestNow' = YoungestNow
      /\ NoneCurrent' = NoneCurrent
      /\ StreamsKnown' /\ PredictionsKnown' /\ StreamsOrdered' /\ LinesOfFetch1' /\ OpsPath'
      /\ PredictionsFollow(YoungestNow, exec.stream, arch)'
  BY <1>5, SameWorkPath
<1>7. ~IsStreamChange((eToF1.in)') /\ ~IsStreamChange((f2ToF1.in)')
  BY <1>2, <1>3
<1>8. StreamStarts'
  BY <1>1, <1>4, <1>6, <1>7 DEF PathInv, StreamStarts, IsStreamChange
<1>9. OpsWellFormed'
  BY <1>1, <1>6 DEF PathInv, OpsWellFormed
<1>10. LinesPath'
  BY <1>1, <1>6, <1>7 DEF PathInv, LinesPath, YoungestNow, IsStreamChange
<1>11. DrainPath'
  BY <1>1, <1>6 DEF PathInv, DrainPath
<1> QED
  BY <1>6, <1>8, <1>9, <1>10, <1>11 DEF PathInv

\* A thread is woken at its own PC, where nothing has been fetched: it was suspended.
LEMMA ActivateContextPath ==
    ASSUME TypeOK, TypeOK', PathInv, PathTypeOK, ActivateContext, "wakeupInDrain" \notin Events
    PROVE  PathInv'
<1>1. /\ phase = "between" /\ drain = "Running" /\ status = "Suspended" /\ status' = "Active"
      /\ fetch1' = [fetch1 EXCEPT !.pc = arch.pc, !.state = "Running", !.wakeupGuard = TRUE]
      /\ UNCHANGED <<phase, buf, eToF1, fetches, fetch2, f2ToF1, microop, inFlight, exec, arch,
                     drain>>
  BY DEF ActivateContext, Outside, Woken
<1>2. /\ fetch1'.stream = fetch1.stream /\ fetch1'.pred = fetch1.pred
      /\ fetch1'.pc = arch.pc
  BY <1>1 DEF TypeOK, FetchTypeOK, Fetch1ThreadInfo
<1>3. PendingBranches' = PendingBranches /\ PendingPredictions' = PendingPredictions
  BY <1>1 DEF PendingBranches, PendingPredictions, IsStreamChange
<1>4. SameWork
  BY <1>1, <1>2, <1>3 DEF SameWork
<1>5. /\ Decoded' = Decoded /\ Undecoded' = Undecoded /\ Fetched' = Fetched
      /\ NoneCurrent' = NoneCurrent
      /\ StreamsKnown' /\ PredictionsKnown' /\ LinesOfFetch1'
  BY <1>4, SameWorkPath
<1>6. NoneCurrent
  BY <1>1 DEF PathInv, StreamStarts
<1>7. arch.upc = 0
  <2> DEFINE d == Decoded
             u == Undecoded
  <2>1. d \in Seq(Insts) /\ u \in Seq(Insts)
    BY DEF PathTypeOK
  <2>2. NoneOf(d, exec.stream) /\ NoneOf(u, exec.stream)
    BY <1>6 DEF NoneCurrent
  <2>3. OpsStart(d, u, exec.stream, arch, microop)
    BY DEF PathInv, OpsPath
  <2> HIDE DEF d, u
  <2>4. /\ d # <<>> => 1 \in 1..Len(d)
        /\ u # <<>> => 1 \in 1..Len(u)
    BY <2>1, EmptySeq
  <2> QED
    BY <2>2, <2>3, <2>4 DEF OpsStart, NoneOf
<1>8. \A b \in PendingPredictions : b.reason = "BranchPrediction"
  BY DEF PathInv, LinesPath, PredictionsFollow
<1>9. AtStreamStart'
  BY <1>1, <1>2, <1>3, <1>5, <1>6, <1>7, <1>8 DEF AtStreamStart
<1>10. StreamsOrdered' /\ OpsPath' /\ LinesPath'
  BY <1>9, StartsOver
<1>11. exec.drainState = "NotDraining"
  BY <1>1 DEF PathInv, DrainPath
<1>12. StreamStarts'
  BY <1>1, <1>2, <1>3, <1>5, <1>11 DEF PathInv, StreamStarts, IsStreamChange
<1>13. OpsWellFormed'
  BY <1>1, <1>5 DEF PathInv, OpsWellFormed
<1>14. DrainPath'
  BY <1>1, <1>11 DEF DrainPath
<1> QED
  BY <1>5, <1>10, <1>12, <1>13, <1>14 DEF PathInv

LEMMA TryDrainPath ==
    ASSUME TypeOK, TypeOK', PathInv, TryDrain
    PROVE  PathInv'
<1>1. /\ phase = "between"
      /\ exec' = [exec EXCEPT !.drainState =
                    IF @ # "NotDraining" THEN @
                    ELSE IF InbetweenInsts THEN "DrainHaltFetch"
                    ELSE "DrainCurrentInst"]
      /\ drain' \in {"Drained", "Draining"}
      /\ drain' = "Drained" => IsDrained(f2ToF1.out)
      /\ UNCHANGED <<phase, buf, eToF1, fetch1, fetches, fetch2, f2ToF1, microop, inFlight, arch,
                     status>>
  BY DEF TryDrain, fetchVars
<1>2. /\ exec'.stream = exec.stream /\ exec'.lastPred = exec.lastPred
      /\ exec'.endOfMacroop = exec.endOfMacroop
      /\ exec'.drainState = IF exec.drainState # "NotDraining" THEN exec.drainState
                            ELSE IF exec.endOfMacroop THEN "DrainHaltFetch"
                            ELSE "DrainCurrentInst"
  BY <1>1 DEF TypeOK, ExecuteTypeOK, InbetweenInsts
<1>3. PendingBranches' = PendingBranches /\ PendingPredictions' = PendingPredictions
  BY <1>1 DEF PendingBranches, PendingPredictions, IsStreamChange
<1>4. SameWork
  BY <1>1, <1>2, <1>3 DEF SameWork
<1>5. /\ Decoded' = Decoded /\ Undecoded' = Undecoded /\ Fetched' = Fetched
      /\ YoungestNow' = YoungestNow
      /\ NoneCurrent' = NoneCurrent
      /\ StreamsKnown' /\ PredictionsKnown' /\ StreamsOrdered' /\ LinesOfFetch1' /\ OpsPath'
      /\ PredictionsFollow(YoungestNow, exec.stream, arch)'
  BY <1>4, SameWorkPath
<1>6. exec'.drainState = "DrainAllInsts" <=> exec.drainState = "DrainAllInsts"
  BY <1>2
<1>7. StreamStarts'
  BY <1>1, <1>2, <1>3, <1>5, <1>6 DEF PathInv, StreamStarts, IsStreamChange
<1>8. OpsWellFormed'
  BY <1>1, <1>2, <1>5, <1>6 DEF PathInv, OpsWellFormed
<1>9. LinesPath'
  BY <1>1, <1>2, <1>3, <1>5 DEF PathInv, LinesPath, YoungestNow, IsStreamChange
<1>10. DrainPath'
  <2>1. IsDrained(f2ToF1.out) => Decoded = <<>> /\ Undecoded = <<>> /\ Fetched = <<>>
    <3>1. <<>> \o <<>> = <<>>
      OBVIOUS
    <3>2. /\ "fetch2" \in Stages /\ "decode" \in Stages
          /\ "dummy" \in Stages /\ "execute" \in Stages
      BY DEF Stages
    <3> QED
      BY <3>1, <3>2 DEF IsDrained, Decoded, Undecoded, Fetched, LinesIn, Into
  <2> QED
    BY <1>1, <1>5, <2>1 DEF DrainPath
<1> QED
  BY <1>5, <1>7, <1>8, <1>9, <1>10 DEF PathInv

\* What is left after a drain is Fetch1's stream: the pipeline is empty and Fetch1
\* is taken to the thread's PC.
LEMMA DrainResumePath ==
    ASSUME TypeOK, TypeOK', PathInv, PathTypeOK, DrainResume
    PROVE  PathInv'
<1>1. /\ phase = "between" /\ drain = "Drained" /\ drain' = "Running" /\ status' = "Active"
      /\ fetch1' = [fetch1 EXCEPT !.pc = arch.pc, !.state = "Running", !.wakeupGuard = TRUE]
      /\ exec' = [exec EXCEPT !.drainState = "NotDraining"]
      /\ UNCHANGED <<phase, buf, eToF1, fetches, fetch2, f2ToF1, microop, inFlight, arch>>
  BY DEF DrainResume, Woken
<1>2. /\ fetch1'.stream = fetch1.stream /\ fetch1'.pred = fetch1.pred
      /\ fetch1'.pc = arch.pc
      /\ exec'.stream = exec.stream /\ exec'.lastPred = exec.lastPred
      /\ exec'.endOfMacroop = exec.endOfMacroop /\ exec'.drainState = "NotDraining"
  BY <1>1 DEF TypeOK, FetchTypeOK, Fetch1ThreadInfo, ExecuteTypeOK
<1>3. PendingBranches' = PendingBranches /\ PendingPredictions' = PendingPredictions
  BY <1>1 DEF PendingBranches, PendingPredictions, IsStreamChange
<1>4. SameWork
  BY <1>1, <1>2, <1>3 DEF SameWork
<1>5. /\ Decoded' = Decoded /\ Undecoded' = Undecoded /\ Fetched' = Fetched
      /\ YoungestNow' = YoungestNow
      /\ NoneCurrent' = NoneCurrent
      /\ StreamsKnown' /\ PredictionsKnown' /\ StreamsOrdered' /\ LinesOfFetch1' /\ OpsPath'
      /\ PredictionsFollow(YoungestNow, exec.stream, arch)'
  BY <1>4, SameWorkPath
<1>6. StreamStarts'
  BY <1>1, <1>2, <1>3, <1>5 DEF PathInv, StreamStarts, IsStreamChange
<1>7. OpsWellFormed'
  BY <1>1, <1>2, <1>5 DEF PathInv, OpsWellFormed
<1>8. LinesPath'
  <2>1. Decoded = <<>> /\ Undecoded = <<>> /\ Fetched = <<>>
    BY <1>1 DEF PathInv, DrainPath
  <2>2. YoungestNow = {}
    BY <2>1 DEF YoungestNow, Youngest
  <2>3. LinesFollow(Fetched, fetch1, YoungestNow, exec.stream, arch, fetch2)'
    <3>1. Continues({}, arch.pc, exec.stream, arch)
      BY DEF Continues
    <3>2. Len(<<>>) = 0 /\ 1..0 = {}
      OBVIOUS
    <3>3. LinesFollow(<<>>, fetch1', {}, exec.stream, arch, fetch2)
      BY <1>2, <3>1, <3>2 DEF LinesFollow
    <3> QED
      BY <1>1, <1>2, <1>5, <2>1, <2>2, <3>3
  <2>4. (IsStreamChange(f2ToF1.in) /\ f2ToF1.in.stream = exec.stream =>
           f2ToF1.out \notin PendingPredictions \/ f2ToF1.out.stream # exec.stream)'
    BY <1>1, <1>2, <1>3 DEF PathInv, LinesPath, IsStreamChange
  <2> QED
    BY <1>5, <2>3, <2>4 DEF LinesPath, YoungestNow
<1>9. DrainPath'
  BY <1>1, <1>2 DEF DrainPath
<1> QED
  BY <1>5, <1>6, <1>7, <1>8, <1>9 DEF PathInv

LEMMA InitPath == Init => PathInv
<1> SUFFICES ASSUME Init
             PROVE  PathInv
  OBVIOUS
<1>1. /\ <<>> \o <<>> = <<>> /\ Len(<<>>) = 0 /\ 1..0 = {}
      /\ "fetch2" \in Stages /\ "decode" \in Stages /\ "dummy" \in Stages /\ "execute" \in Stages
  BY DEF Stages
<1>2. /\ inFlight = <<>> /\ fetches = <<>>
      /\ \A s \in Stages : buf[s].queue = <<>> /\ buf[s].latch = <<>>
  BY DEF Init
<1>3. Decoded = <<>> /\ Undecoded = <<>> /\ LinesIn = <<>> /\ Fetched = <<>>
  BY <1>1, <1>2 DEF Decoded, Undecoded, Fetched, LinesIn, Into
<1>4. /\ exec.stream = 0 /\ exec.lastPred = 0 /\ exec.drainState = "NotDraining"
      /\ fetch1.stream = 0 /\ fetch1.pred = 0 /\ fetch1.pc = 0
      /\ fetch2.expectedStream = 0 /\ fetch2.lastStream = 0 /\ fetch2.pred = 0 /\ ~fetch2.havePC
      /\ arch.pc = 0 /\ arch.upc = 0 /\ microop = 0 /\ status = "Active"
      /\ drain = "Running" /\ phase = "between"
  BY DEF Init, At
<1>5. /\ eToF1.in = NoBranch /\ eToF1.out = NoBranch
      /\ f2ToF1.in = NoBranch /\ f2ToF1.out = NoBranch
      /\ NoBranch.stream = 0 /\ NoBranch.pred = 0 /\ ~IsStreamChange(NoBranch)
  BY DEF Init, NoBranch, IsStreamChange
<1>6. PendingBranches = {} /\ PendingPredictions = {}
  BY <1>5 DEF PendingBranches, PendingPredictions
<1>7. StreamsKnown /\ PredictionsKnown
  BY <1>1, <1>3, <1>4, <1>5 DEF StreamsKnown, PredictionsKnown
<1>8. StreamsOrdered /\ LinesOfFetch1
  BY <1>1, <1>3, <1>4 DEF StreamsOrdered, LinesOfFetch1, Ordered, AllOf, NoneOf
<1>9. StreamStarts
  BY <1>4, <1>5, <1>6 DEF StreamStarts
<1>10. OpsWellFormed
  BY <1>1, <1>3, <1>4 DEF OpsWellFormed
<1>11. OpsPath
  <2>1. 1..(0 - 1) = {}
    OBVIOUS
  <2> QED
    BY <1>1, <1>3, <1>4, <2>1 DEF OpsPath, OpsFollow, OpsStart
<1>12. LinesPath
  <2>1. Youngest(Decoded, Undecoded) = {}
    BY <1>3 DEF Youngest
  <2>2. LinesFollow(<<>>, fetch1, {}, exec.stream, arch, fetch2)
    BY <1>1, <1>4 DEF LinesFollow, Continues
  <2> QED
    BY <1>3, <1>4, <1>5, <1>6, <2>1, <2>2 DEF LinesPath, PredictionsFollow
<1>13. DrainPath
  BY <1>4 DEF DrainPath
<1> QED
  BY <1>7, <1>8, <1>9, <1>10, <1>11, <1>12, <1>13 DEF PathInv

----------------------------------------------------------------------------
(* Every step keeps the path. *)

LEMMA NextPath ==
    ASSUME "wakeupInDrain" \notin Events, TypeOK, CreditInv, PathInv, [Next]_vars
    PROVE  PathInv'
<1>1. TypeOK'
  BY NextType
<1>2. PathTypeOK /\ PathTypeOK'
  BY NextPathTypes
<1>3. CASE \/ SkipCommit \/ IssueInst \/ EndIssue \/ Dummy
           \/ Finish \/ RecvTimingResp \/ RecvReqRetry \/ DataWakeup
           \/ UNCHANGED vars
  BY <1>2, <1>3, QuietActions
<1>4. CASE BeginCycle \/ TakeInterrupt \/ EndCommit
  BY <1>1, <1>2, <1>4, BeginCyclePath, TakeInterruptPath, EndCommitPath
<1>5. CASE DiscardInst \/ DiscardInput \/ CommitInst
  BY <1>1, <1>2, <1>5, DiscardInstPath, DiscardInputPath, CommitInstPath
<1>6. CASE Decode \/ Fetch2 \/ Fetch1
  BY <1>1, <1>2, <1>6, DecodePathInv, Fetch2PathInv, Fetch1PathInv
<1>7. CASE Advance \/ ActivateContext \/ TryDrain \/ DrainResume
  BY <1>1, <1>2, <1>7, AdvancePath, ActivateContextPath, TryDrainPath, DrainResumePath
<1> QED
  BY <1>3, <1>4, <1>5, <1>6, <1>7 DEF Next, Stage

\* The work of the current stream is one path, from the thread's PC to Fetch1's.
\* A thread that is activated while the CPU drains (the wakeup_in_drain run) breaks
\* it; without that, whatever the program, the buffers, the predictions, faults,
\* interrupts and drains, nothing does.
THEOREM PathUnbroken ==
    ASSUME "wakeupInDrain" \notin Events
    PROVE  Spec => [](TypeOK /\ CreditInv /\ PathInv)
<1>1. Init => TypeOK /\ CreditInv /\ PathInv
  BY InitType, InitCredit, InitPath
<1>2. (TypeOK /\ CreditInv /\ PathInv) /\ [Next]_vars => (TypeOK /\ CreditInv /\ PathInv)'
  BY NextType, NextCredit, NextPath
<1> QED
  BY <1>1, <1>2, PTL DEF Spec

\* The head of inFlightInsts, when it is not to be discarded, is of the current
\* stream and at the thread's PC.
LEMMA NextToCommit ==
    ASSUME TypeOK, PathInv, inFlight # <<>>, ~Discardable(Head(inFlight))
    PROVE  LET i == Head(inFlight)
           IN  /\ i \in Insts
               /\ Place(i) = arch
               /\ WellFormed(i, i.stream)
               /\ i.fault \/ i.bytes = i.pc
               /\ status # "Suspended"
<1>1. PathTypeOK
  BY PathTypes
<1>2. Head(inFlight).stream = exec.stream
  BY DEF Discardable
<1>3. 1 \in 1..Len(Decoded) /\ Decoded[1] = Head(inFlight)
  <2> DEFINE d == Decoded
             q == inFlight
             z == Into("execute") \o Into("dummy")
  <2>1. q \in Seq(Insts) /\ z \in Seq(Insts) /\ d = q \o z
    BY BufferTypes DEF TypeOK, ExecuteTypeOK, Decoded, Stages
  <2>2. /\ Len(q) \in Nat /\ Len(z) \in Nat /\ Len(q) # 0 /\ Head(q) = q[1]
    BY <2>1, ElementTypes
  <2> HIDE DEF z, d, q
  <2>3. Len(d) = Len(q) + Len(z) /\ \A k \in 1..Len(q) : d[k] = q[k]
    BY <2>1, JoinedElements
  <2> QED
    BY <2>2, <2>3 DEF d, q
<1>4. /\ Head(inFlight) \in Insts /\ Place(Head(inFlight)) = arch /\ status # "Suspended"
      /\ WellFormed(Head(inFlight), exec.stream)
  BY <1>1, <1>2, <1>3, CommittingHead
<1> QED
  BY <1>2, <1>4 DEF WellFormed

\* commitInst gets the instruction at the thread's PC, made of the bytes there.
THEOREM CommitsInOrder ==
    ASSUME "wakeupInDrain" \notin Events
    PROVE  Spec => []CommitsNextInst
<1>1. TypeOK /\ PathInv => CommitsNextInst
  BY NextToCommit DEF CommitsNextInst, Place
<1> QED
  BY <1>1, PathUnbroken, PTL

\* The panic of commitInst, for a thread that is suspended, is never reached.
THEOREM NoCommitWhenSuspended ==
    ASSUME "wakeupInDrain" \notin Events
    PROVE  Spec => []SuspendedNeverCommits
<1>1. TypeOK /\ PathInv => SuspendedNeverCommits
  BY NextToCommit DEF SuspendedNeverCommits
<1> QED
  BY <1>1, PathUnbroken, PTL

\* takeInterrupt, which looks at the last instruction to leave Execute only, never
\* splits a macro-op: not after a part of one was discarded either.
THEOREM InterruptsNeverSplitInsts ==
    ASSUME "wakeupInDrain" \notin Events
    PROVE  Spec => InterruptsBetweenInsts
<1>1. PathInv => (TakeInterrupt => arch.upc = 0)
  BY DEF PathInv, OpsWellFormed, TakeInterrupt, InbetweenInsts
<1> QED
  BY <1>1, PathUnbroken, PTL DEF InterruptsBetweenInsts

----------------------------------------------------------------------------
(* The pipeline implements the instruction set. *)

\* What commitInst does is what the instruction at the thread's PC does.
LEMMA CommitInstISA ==
    ASSUME TypeOK, PathInv, CommitInst
    PROVE  ISA!Next
<1> DEFINE i == Head(inFlight)
<1> DEFINE kind == Program[i.bytes]
<1> DEFINE follow == IF LastOp(i) THEN At(AfterPC(i.pc)) ELSE [pc |-> i.pc, upc |-> i.upc + 1]
<1>1. inFlight # <<>> /\ ~Discardable(i)
  BY DEF CommitInst, CanCommit
<1>2. i \in Insts /\ Place(i) = arch /\ (i.fault \/ i.bytes = i.pc) /\ status # "Suspended"
  BY <1>1, NextToCommit
<1>3. status = "Active" /\ arch \in [pc : PCs, upc : 0..(MacroLen - 1)] /\ MacroLen \in Nat \ {0}
  BY <1>2, PipelineAssumption DEF TypeOK, ExecuteTypeOK
<1>4. arch.pc = i.pc /\ arch.upc = i.upc
  BY <1>2 DEF Place
<1>5. PICK o \in Outcomes(i) :
        /\ arch' = o.next
        /\ status' = IF kind = "quiesce" /\ ~o.fault THEN "Suspended" ELSE status
  BY CommitInstParts
<1>6. \/ o = [next |-> At(Handler), must |-> TRUE, fault |-> TRUE]
      \/ ~i.fault /\ o = [next |-> follow, must |-> kind = "serial", fault |-> FALSE]
      \/ /\ ~i.fault /\ kind = "branch"
         /\ \E t \in PCs : o = [next |-> At(t), must |-> TRUE, fault |-> FALSE]
  BY <1>5 DEF Outcomes
<1>7. \A pc : At(pc) = ISA!At(pc)
  BY DEF At, ISA!At
<1>8. CASE o = [next |-> At(Handler), must |-> TRUE, fault |-> TRUE]
  <2>1. o.next = At(Handler) /\ o.fault
    BY <1>8
  <2>2. ISA!Trap
    BY <1>5, <1>7, <2>1 DEF ISA!Trap
  <2> QED
    BY <1>3, <2>2 DEF ISA!Next
<1>9. CASE ~i.fault /\ o = [next |-> follow, must |-> kind = "serial", fault |-> FALSE]
  <2>1. o.next = follow /\ ~o.fault /\ kind = Program[arch.pc]
    BY <1>2, <1>4, <1>9
  <2>2. CASE LastOp(i)
    <3>1. arch' = At((arch.pc + 1) % NumPCs)
      BY <1>4, <1>5, <2>1, <2>2 DEF AfterPC
    <3>2. Program[arch.pc] = "macro" => arch.upc = MacroLen - 1
      BY <1>4, <1>9, <2>1, <2>2 DEF LastOp
    <3>3. ISA!Finish
      BY <1>5, <1>7, <2>1, <3>1, <3>2 DEF ISA!Finish
    <3> QED
      BY <1>3, <3>3 DEF ISA!Next
  <2>3. CASE ~LastOp(i)
    <3>1. Program[arch.pc] = "macro" /\ arch.upc # MacroLen - 1
      BY <1>4, <2>1, <2>3 DEF LastOp
    <3>2. arch.upc < MacroLen - 1
      BY <1>3, <3>1
    <3>3. arch' = [arch EXCEPT !.upc = @ + 1]
      BY <1>3, <1>4, <1>5, <2>1, <2>3
    <3>4. status' = status
      BY <1>5, <2>1, <3>1
    <3>5. ISA!Microop
      BY <3>1, <3>2, <3>3, <3>4 DEF ISA!Microop
    <3> QED
      BY <1>3, <3>5 DEF ISA!Next
  <2> QED
    BY <2>2, <2>3
<1>10. CASE /\ ~i.fault /\ kind = "branch"
            /\ \E t \in PCs : o = [next |-> At(t), must |-> TRUE, fault |-> FALSE]
  <2>1. \E t \in PCs : arch' = At(t)
    BY <1>5, <1>10
  <2>2. Program[arch.pc] = "branch" /\ status' = status
    BY <1>2, <1>4, <1>5, <1>10
  <2>3. ISA!BranchTaken
    BY <1>7, <2>1, <2>2 DEF ISA!BranchTaken, ISA!PCs, PCs
  <2> QED
    BY <1>3, <2>3 DEF ISA!Next
<1> QED
  BY <1>6, <1>8, <1>9, <1>10

LEMMA StepISA ==
    ASSUME TypeOK, PathInv, [Next]_vars
    PROVE  [ISA!Next]_(ISA!vars)
<1>1. CASE CommitInst
  BY <1>1, CommitInstISA
<1>2. CASE TakeInterrupt
  <2>1. status = "Active" /\ arch' = At(Handler) /\ status' = status
    BY <1>2 DEF TakeInterrupt
  <2>2. ISA!Trap
    BY <2>1 DEF ISA!Trap, At, ISA!At
  <2> QED
    BY <2>1, <2>2 DEF ISA!Next
<1>3. CASE ActivateContext \/ DrainResume
  <2>1. status' = "Active" /\ arch' = arch /\ status \in {"Active", "Suspended"}
    BY <1>3 DEF ActivateContext, DrainResume, TypeOK, ExecuteTypeOK
  <2>2. status = "Suspended" => ISA!Wake
    BY <2>1 DEF ISA!Wake
  <2> QED
    BY <2>1, <2>2 DEF ISA!Next, ISA!vars
<1>4. CASE \/ BeginCycle \/ SkipCommit \/ DiscardInst \/ EndCommit \/ DiscardInput \/ IssueInst
           \/ EndIssue \/ Dummy \/ Decode
  <2>1. arch' = arch /\ status' = status
    BY <1>4, Zenon DEF BeginCycle, SkipCommit, DiscardInst, EndCommit, DiscardInput, IssueInst,
                       EndIssue, Dummy, Decode, executeVars
  <2> QED
    BY <2>1 DEF ISA!vars
<1>5. CASE Fetch2 \/ Fetch1 \/ Advance
  <2>1. arch' = arch /\ status' = status
    BY <1>5, Fetch2Frame, Fetch1Frame DEF Advance, executeVars
  <2> QED
    BY <2>1 DEF ISA!vars
<1>6. CASE \/ Finish \/ RecvTimingResp \/ RecvReqRetry \/ DataWakeup \/ TryDrain
           \/ UNCHANGED vars
  <2>1. arch' = arch /\ status' = status
    BY <1>6, Zenon DEF Finish, RecvTimingResp, RecvReqRetry, DataWakeup, TryDrain, vars, executeVars
  <2> QED
    BY <2>1 DEF ISA!vars
<1> QED
  BY <1>1, <1>2, <1>3, <1>4, <1>5, <1>6 DEF Next, Stage

\* Fetching, predicting, squashing and draining cannot be seen from the program:
\* seen through the thread's PC and status, the pipeline runs its instructions one
\* after the other.
THEOREM PipelineImplementsISA ==
    ASSUME "wakeupInDrain" \notin Events
    PROVE  Spec => ImplementsISA
<1>1. Init => ISA!Init
  BY DEF Init, ISA!Init, At, ISA!At
<1>2. TypeOK /\ PathInv /\ [Next]_vars => [ISA!Next]_(ISA!vars)
  BY StepISA
<1> QED
  BY <1>1, <1>2, PathUnbroken, PTL DEF Spec, ImplementsISA, ISA!Spec
=============================================================================
