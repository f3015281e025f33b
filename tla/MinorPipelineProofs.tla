------------------------ MODULE MinorPipelineProofs -------------------------
(***************************************************************************)
(* The types of the pipeline's state, and the places reserved in its input *)
(* buffers, for every program and every size of the buffers.               *)
(***************************************************************************)
EXTENDS MinorPath, SequenceTheorems, WellFoundedInduction, TLAPS

----------------------------------------------------------------------------
(* Buffers. *)

\* A non-empty set of numbers has a least element.
LEMMA LeastNumber ==
    ASSUME NEW S \in SUBSET Nat, S # {}
    PROVE  \E m \in S : \A n \in S : m <= n
<1> DEFINE R == OpToRel(<, Nat)
<1>1. IsWellFoundedOn(R, Nat)
  BY NatLessThanWellFounded DEF OpToRel
<1> HIDE DEF R
<1>2. PICK m \in S : \A n \in S : ~(<<n, m>> \in R)
  BY <1>1, WFMin
<1>3. \A n \in S : ~(n < m)
  BY <1>2 DEF OpToRel, R
<1> QED
  BY <1>3

\* What Delivered leaves of a buffer.
LEMMA DeliveredType ==
    ASSUME NEW X, NEW b \in Buffers(X)
    PROVE  /\ Delivered(b) \in Buffers(X)
           /\ Delivered(b).latch = <<>>
           /\ Delivered(b).queue = b.queue \o b.latch
           /\ Delivered(b).reserved = IF b.latch = <<>> THEN b.reserved
                                      ELSE FreeReservation(b.reserved)
           /\ FreeReservation(b.reserved) \in Nat
BY DEF Delivered, Buffers, FreeReservation

\* What Written makes of a buffer.
LEMMA WrittenType ==
    ASSUME NEW X, NEW b \in Buffers(X), NEW x \in X
    PROVE  /\ Written(b, x) \in Buffers(X)
           /\ Written(b, x).latch = <<x>>
           /\ Written(b, x).queue = b.queue
           /\ Written(b, x).reserved = b.reserved + 1
<1>1. <<x>> \in Seq(X)
  OBVIOUS
<1>2. b.reserved + 1 \in Nat
  BY DEF Buffers
<1>3. Written(b, x) \in Buffers(X)
  BY <1>1, <1>2 DEF Written, Buffers
<1>4. Written(b, x).latch = <<x>>
  BY DEF Written, Buffers
<1>5. Written(b, x).queue = b.queue /\ Written(b, x).reserved = b.reserved + 1
  BY DEF Written, Buffers
<1> QED
  BY <1>3, <1>4, <1>5

\* Replacing the queue of a buffer.
LEMMA QueueType ==
    ASSUME NEW X, NEW b \in Buffers(X), NEW q \in Seq(X)
    PROVE  /\ [b EXCEPT !.queue = q] \in Buffers(X)
           /\ [b EXCEPT !.queue = q].queue = q
           /\ [b EXCEPT !.queue = q].latch = b.latch
           /\ [b EXCEPT !.queue = q].reserved = b.reserved
BY DEF Buffers

\* Taking the head of a queue.
LEMMA HeadTailType ==
    ASSUME NEW X, NEW q \in Seq(X), q # <<>>
    PROVE  /\ Head(q) \in X
           /\ Tail(q) \in Seq(X)
           /\ Len(Tail(q)) = Len(q) - 1
           /\ Len(q) \in Nat \ {0}
OBVIOUS

\* A buffer of lines or of instructions is one of the two.
LEMMA BufferUnion ==
    ASSUME NEW b, b \in Buffers(Lines) \/ b \in Buffers(Insts)
    PROVE  b \in Buffers(Lines \cup Insts)
<1>1. \A s \in Seq(Lines) : s \in Seq(Lines \cup Insts)
  BY SeqMonotonic, Zenon
<1>2. \A s \in Seq(Insts) : s \in Seq(Lines \cup Insts)
  BY SeqMonotonic, Zenon
<1> QED
  BY <1>1, <1>2 DEF Buffers

\* The buffers stay well formed when those of two stages are replaced.
LEMMA BufTypes ==
    ASSUME BufTypeOK,
           NEW s \in Stages, NEW t \in Stages, NEW b, NEW c,
           s = "fetch2" => b \in Buffers(Lines), s # "fetch2" => b \in Buffers(Insts),
           t = "fetch2" => c \in Buffers(Lines), t # "fetch2" => c \in Buffers(Insts),
           buf' = [buf EXCEPT ![s] = b, ![t] = c]
    PROVE  BufTypeOK'
<1>1. buf \in [Stages -> Buffers(Lines \cup Insts)]
  BY DEF BufTypeOK
<1>2. b \in Buffers(Lines \cup Insts) /\ c \in Buffers(Lines \cup Insts)
  BY BufferUnion
<1>3. buf' \in [Stages -> Buffers(Lines \cup Insts)]
  BY <1>1, <1>2
<1>4. "fetch2" \in Stages
  BY DEF Stages
<1>5. \A u \in Stages : buf'[u] = IF u = t THEN c ELSE IF u = s THEN b ELSE buf[u]
  BY <1>1
<1>6. buf'["fetch2"] \in Buffers(Lines)
  BY <1>4, <1>5 DEF BufTypeOK
<1>7. \A u \in Stages \ {"fetch2"} : buf'[u] \in Buffers(Insts)
  BY <1>5 DEF BufTypeOK
<1> QED
  BY <1>3, <1>6, <1>7 DEF BufTypeOK

\* The same for one stage.
LEMMA BufType ==
    ASSUME BufTypeOK,
           NEW s \in Stages, NEW b,
           s = "fetch2" => b \in Buffers(Lines), s # "fetch2" => b \in Buffers(Insts),
           buf' = [buf EXCEPT ![s] = b]
    PROVE  BufTypeOK'
<1>1. buf \in [Stages -> Buffers(Lines \cup Insts)]
  BY DEF BufTypeOK
<1>2. b \in Buffers(Lines \cup Insts)
  BY BufferUnion
<1>3. buf' \in [Stages -> Buffers(Lines \cup Insts)]
  BY <1>1, <1>2
<1>4. \A u \in Stages : buf'[u] = IF u = s THEN b ELSE buf[u]
  BY <1>1
<1>5. "fetch2" \in Stages
  BY DEF Stages
<1> QED
  BY <1>3, <1>4, <1>5 DEF BufTypeOK

\* The buffers in front of Execute, Dummy and Decode hold instructions, the one in
\* front of Fetch2 lines.
LEMMA BufKinds ==
    ASSUME BufTypeOK
    PROVE  /\ Stages = {"fetch2", "decode", "dummy", "execute"}
           /\ buf \in [Stages -> Buffers(Lines \cup Insts)]
           /\ buf["fetch2"] \in Buffers(Lines)
           /\ buf["decode"] \in Buffers(Insts)
           /\ buf["dummy"] \in Buffers(Insts)
           /\ buf["execute"] \in Buffers(Insts)
BY DEF BufTypeOK, Stages

----------------------------------------------------------------------------
(* The operators of the stages. *)

\* Addresses stay addresses.
LEMMA AddressTypes ==
    /\ 0 \in PCs
    /\ Handler \in PCs
    /\ \A pc \in PCs : AfterPC(pc) \in PCs
    /\ 0 \in 0..(MacroLen - 1)
    /\ MacroLen \in Nat \ {0}
BY PipelineAssumption DEF PCs, AfterPC

LEMMA NoBranchType ==
    /\ NoBranch \in Branches
    /\ NoBranch.reason = "NoBranch" /\ NoBranch.stream = 0 /\ NoBranch.pred = 0
BY AddressTypes DEF NoBranch, Branches, Reasons, SeqNum

\* The branch and the stream number of updateBranchData.
LEMMA UpdateBranchDataType ==
    ASSUME CycleTypeOK, ExecuteTypeOK, NEW reason \in Reasons, NEW pred \in SeqNum, NEW target \in PCs
    PROVE  /\ UpdateBranchData(reason, pred, target).stream \in SeqNum
           /\ UpdateBranchData(reason, pred, target).branch \in Branches
BY DEF CycleTypeOK, ExecuteTypeOK, UpdateBranchData, Branches, SeqNum

\* What an instruction may do.
LEMMA OutcomesType ==
    ASSUME NEW i \in Insts, NEW o \in Outcomes(i)
    PROVE  /\ o.next \in [pc : PCs, upc : 0..(MacroLen - 1)]
           /\ o.must \in BOOLEAN /\ o.fault \in BOOLEAN
<1> DEFINE follow == IF LastOp(i) THEN At(AfterPC(i.pc))
                     ELSE [pc |-> i.pc, upc |-> i.upc + 1]
           faulted == [next |-> At(Handler), must |-> TRUE, fault |-> TRUE]
           serial == [next |-> follow, must |-> Program[i.bytes] = "serial", fault |-> FALSE]
<1>1. \A pc \in PCs : At(pc) \in [pc : PCs, upc : 0..(MacroLen - 1)]
  BY AddressTypes DEF At
<1>2. follow \in [pc : PCs, upc : 0..(MacroLen - 1)]
  BY <1>1, AddressTypes DEF LastOp, Insts
<1>3. \/ o = faulted \/ o = serial
      \/ \E t \in PCs : o = [next |-> At(t), must |-> TRUE, fault |-> FALSE]
  BY DEF Outcomes
<1> HIDE DEF follow
<1>4. CASE o = faulted
  BY <1>1, <1>4, AddressTypes
<1>5. CASE o = serial
  BY <1>2, <1>5
<1>6. CASE \E t \in PCs : o = [next |-> At(t), must |-> TRUE, fault |-> FALSE]
  BY <1>1, <1>6
<1> QED
  BY <1>3, <1>4, <1>5, <1>6

LEMMA BranchReasonsType ==
    ASSUME NEW i, NEW o, NEW r \in BranchReasons(i, o)
    PROVE  r \in Reasons
BY DEF BranchReasons, Reasons


----------------------------------------------------------------------------
(* Every action keeps the types. *)

\* What an action leaves alone keeps its type.
LEMMA UnchangedTypes ==
    /\ FetchTypeOK /\ UNCHANGED fetchVars => FetchTypeOK'
    /\ ExecuteTypeOK /\ UNCHANGED executeVars => ExecuteTypeOK'
    /\ DrainTypeOK /\ UNCHANGED drainVars => DrainTypeOK'
    /\ BufTypeOK /\ UNCHANGED buf => BufTypeOK'
<1>1. FetchTypeOK /\ UNCHANGED fetchVars => FetchTypeOK'
  BY DEF FetchTypeOK, fetchVars
<1>2. ExecuteTypeOK /\ UNCHANGED executeVars => ExecuteTypeOK'
  BY DEF ExecuteTypeOK, executeVars
<1>3. DrainTypeOK /\ UNCHANGED drainVars => DrainTypeOK'
  BY DEF DrainTypeOK, drainVars
<1>4. BufTypeOK /\ UNCHANGED buf => BufTypeOK'
  BY DEF BufTypeOK
<1> QED
  BY <1>1, <1>2, <1>3, <1>4

\* Execute's input is delivered.
LEMMA DeliveredBuf ==
    ASSUME BufTypeOK, buf' = [buf EXCEPT !["execute"] = Delivered(buf["execute"])]
    PROVE  BufTypeOK'
<1>1. Delivered(buf["execute"]) \in Buffers(Insts) /\ "execute" \in Stages
  BY BufKinds, DeliveredType
<1> QED
  BY <1>1, BufType

LEMMA BeginCycleType == TypeOK /\ BeginCycle => TypeOK'
<1> SUFFICES ASSUME TypeOK, BeginCycle PROVE TypeOK'
  OBVIOUS
<1> USE DEF TypeOK
<1> DEFINE b == Delivered(buf["execute"])
           c == IF exec.drainState = "DrainAllInsts" THEN [b EXCEPT !.queue = <<>>] ELSE b
<1>1. b \in Buffers(Insts)
  BY BufKinds, DeliveredType
<1>2. [b EXCEPT !.queue = <<>>] \in Buffers(Insts)
  <2>1. <<>> \in Seq(Insts)
    OBVIOUS
  <2> QED
    BY <1>1, <2>1, QueueType
<1>3. c \in Buffers(Insts)
  BY <1>1, <1>2
<1>4. buf' = [buf EXCEPT !["execute"] = c] /\ "execute" \in Stages
  BY BufKinds DEF BeginCycle
<1> HIDE DEF c
<1>5. BufTypeOK'
  BY <1>3, <1>4, BufType
<1>6. CycleTypeOK'
  BY DEF BeginCycle, CycleTypeOK, Phases
<1> QED
  BY <1>5, <1>6, UnchangedTypes DEF BeginCycle

LEMMA SkipCommitType == TypeOK /\ SkipCommit => TypeOK'
<1> SUFFICES ASSUME TypeOK, SkipCommit PROVE TypeOK'
  OBVIOUS
<1> USE DEF TypeOK
<1>1. BufTypeOK'
  BY DeliveredBuf DEF SkipCommit
<1>2. CycleTypeOK'
  BY DEF SkipCommit, CycleTypeOK, Phases
<1> QED
  BY <1>1, <1>2, UnchangedTypes DEF SkipCommit

LEMMA TakeInterruptType == TypeOK /\ TakeInterrupt => TypeOK'
<1> SUFFICES ASSUME TypeOK, TakeInterrupt PROVE TypeOK'
  OBVIOUS
<1> USE DEF TypeOK
<1> DEFINE u == UpdateBranchData("Interrupt", exec.lastPred, Handler)
<1>1. BufTypeOK'
  BY DeliveredBuf DEF TakeInterrupt
<1>2. u.stream \in SeqNum /\ u.branch \in Branches
  BY AddressTypes, UpdateBranchDataType DEF ExecuteTypeOK, Reasons
<1> HIDE DEF u
<1>3. exec' = [exec EXCEPT !.stream = u.stream] /\ eToF1' = [eToF1 EXCEPT !.in = u.branch]
  BY DEF TakeInterrupt, u
<1>4. arch' \in [pc : PCs, upc : 0..(MacroLen - 1)] /\ interrupts' \in 0..MaxInterrupts
  BY AddressTypes, PipelineAssumption DEF TakeInterrupt, At, ExecuteTypeOK
<1>5. ExecuteTypeOK'
  BY <1>2, <1>3, <1>4 DEF ExecuteTypeOK, TakeInterrupt
<1>6. CycleTypeOK'
  BY <1>2, <1>3 DEF CycleTypeOK, TakeInterrupt, Phases
<1> QED
  BY <1>1, <1>5, <1>6, UnchangedTypes DEF TakeInterrupt

\* An instruction leaves inFlightInsts.
LEMMA CompleteType ==
    ASSUME ExecuteTypeOK, inFlight # <<>>, NEW n \in SeqNum, Complete(Head(inFlight), n)
    PROVE  /\ inFlight' \in Seq(Insts)
           /\ exec' \in [stream : SeqNum, lastPred : SeqNum, endOfMacroop : BOOLEAN,
                         drainState : DrainStates]
<1>1. Head(inFlight) \in Insts /\ Tail(inFlight) \in Seq(Insts)
  BY HeadTailType DEF ExecuteTypeOK
<1>2. Head(inFlight).pred \in SeqNum /\ LastOp(Head(inFlight)) \in BOOLEAN
  BY <1>1 DEF Insts, LastOp
<1> QED
  BY <1>1, <1>2 DEF ExecuteTypeOK, Complete

LEMMA DiscardInstType == TypeOK /\ DiscardInst => TypeOK'
<1> SUFFICES ASSUME TypeOK, DiscardInst PROVE TypeOK'
  OBVIOUS
<1> USE DEF TypeOK
<1>1. inFlight # <<>> /\ exec.stream \in SeqNum /\ Complete(Head(inFlight), exec.stream)
  BY DEF DiscardInst, CanCommit, ExecuteTypeOK
<1>2. ExecuteTypeOK'
  BY <1>1, CompleteType DEF ExecuteTypeOK, DiscardInst
<1>3. CycleTypeOK'
  BY DEF CycleTypeOK, DiscardInst
<1> QED
  BY <1>2, <1>3, UnchangedTypes DEF DiscardInst

\* The parts of CommitInst: what the instruction did, and why it branches.
LEMMA CommitInstParts ==
    ASSUME CommitInst
    PROVE  LET i == Head(inFlight)
           IN  /\ inFlight # <<>>
               /\ \E o \in Outcomes(i) : \E r \in BranchReasons(i, o) :
                    LET suspends == Program[i.bytes] = "quiesce" /\ ~o.fault
                        u == UpdateBranchData(IF suspends THEN "SuspendThread" ELSE r,
                                              i.pred, o.next.pc)
                    IN  /\ Complete(i, u.stream)
                        /\ eToF1' = [eToF1 EXCEPT !.in = u.branch]
                        /\ arch' = o.next
                        /\ status' = IF suspends THEN "Suspended" ELSE status
                        /\ count' = IF o.fault THEN CommitLimit ELSE count + 1
BY DEF CommitInst, CanCommit

LEMMA CommitInstType == TypeOK /\ CommitInst => TypeOK'
<1> SUFFICES ASSUME TypeOK, CommitInst PROVE TypeOK'
  OBVIOUS
<1> USE DEF TypeOK
<1> DEFINE i == Head(inFlight)
<1>1. inFlight # <<>> /\ i \in Insts
  BY CommitInstParts, HeadTailType DEF ExecuteTypeOK
<1>2. i.pred \in SeqNum
  BY <1>1 DEF Insts
<1>3. PICK o \in Outcomes(i) : \E r \in Reasons :
             LET suspends == Program[i.bytes] = "quiesce" /\ ~o.fault
                 u == UpdateBranchData(r, i.pred, o.next.pc)
             IN  /\ Complete(i, u.stream)
                 /\ eToF1' = [eToF1 EXCEPT !.in = u.branch]
                 /\ arch' = o.next
                 /\ status' = IF suspends THEN "Suspended" ELSE status
                 /\ count' = IF o.fault THEN CommitLimit ELSE count + 1
  <2>1. "SuspendThread" \in Reasons
    BY DEF Reasons
  <2> QED
    BY <2>1, CommitInstParts, BranchReasonsType
<1> HIDE DEF i
<1>4. PICK r \in Reasons :
             /\ Complete(i, UpdateBranchData(r, i.pred, o.next.pc).stream)
             /\ eToF1' = [eToF1 EXCEPT !.in = UpdateBranchData(r, i.pred, o.next.pc).branch]
  BY <1>3
<1>5. o.next \in [pc : PCs, upc : 0..(MacroLen - 1)]
  BY <1>1, OutcomesType
<1>6. o.next.pc \in PCs
  BY <1>5
<1>7. /\ UpdateBranchData(r, i.pred, o.next.pc).stream \in SeqNum
      /\ UpdateBranchData(r, i.pred, o.next.pc).branch \in Branches
  BY <1>2, <1>6, UpdateBranchDataType
<1>8. status' \in {"Active", "Suspended"} /\ count' \in Nat /\ arch' = o.next
  BY <1>3, PipelineAssumption DEF CycleTypeOK, ExecuteTypeOK
<1>9. ExecuteTypeOK'
  BY <1>1, <1>4, <1>5, <1>7, <1>8, CompleteType DEF ExecuteTypeOK, CommitInst, i
<1>10. CycleTypeOK'
  BY <1>4, <1>7, <1>8 DEF CycleTypeOK, CommitInst
<1> QED
  BY <1>9, <1>10, UnchangedTypes DEF CommitInst

LEMMA EndCommitType == TypeOK /\ EndCommit => TypeOK'
<1> SUFFICES ASSUME TypeOK, EndCommit PROVE TypeOK'
  OBVIOUS
<1> USE DEF TypeOK
<1> DEFINE halt == UpdateBranchData("HaltFetch", exec.lastPred, 0)
<1>1. halt.stream \in SeqNum /\ halt.branch \in Branches
  BY AddressTypes, UpdateBranchDataType DEF ExecuteTypeOK, Reasons
<1>2. /\ exec' = exec \/ exec' = [exec EXCEPT !.stream = halt.stream,
                                              !.drainState = "DrainAllInsts"]
      /\ \/ eToF1' = eToF1
         \/ eToF1' = [eToF1 EXCEPT !.in = halt.branch]
         \/ eToF1' = [eToF1 EXCEPT !.in = NoBranch]
  BY DEF EndCommit
<1> HIDE DEF halt
<1>3. exec' \in [stream : SeqNum, lastPred : SeqNum, endOfMacroop : BOOLEAN,
                 drainState : DrainStates]
  BY <1>1, <1>2 DEF ExecuteTypeOK, DrainStates
<1>4. eToF1' \in [in : Branches, out : Branches]
  BY <1>1, <1>2, NoBranchType DEF CycleTypeOK
<1>5. ExecuteTypeOK'
  BY <1>3 DEF ExecuteTypeOK, EndCommit
<1>6. CycleTypeOK'
  BY <1>4 DEF CycleTypeOK, EndCommit, Phases
<1> QED
  BY <1>5, <1>6, UnchangedTypes DEF EndCommit

\* Execute's input buffer loses its head.
LEMMA PopExecute ==
    ASSUME BufTypeOK, buf["execute"].queue # <<>>,
           buf' = [buf EXCEPT !["execute"].queue = Tail(@)]
    PROVE  /\ BufTypeOK'
           /\ Head(buf["execute"].queue) \in Insts
<1> DEFINE b == buf["execute"]
<1>1. b \in Buffers(Insts) /\ "execute" \in Stages
  BY BufKinds
<1>2. b.queue \in Seq(Insts)
  BY <1>1 DEF Buffers
<1>3. Head(b.queue) \in Insts /\ Tail(b.queue) \in Seq(Insts)
  BY <1>2, HeadTailType
<1>4. [b EXCEPT !.queue = Tail(b.queue)] \in Buffers(Insts)
  BY <1>1, <1>3, QueueType
<1>5. buf' = [buf EXCEPT !["execute"] = [b EXCEPT !.queue = Tail(b.queue)]]
  OBVIOUS
<1>6. BufTypeOK'
  BY <1>1, <1>4, <1>5, BufType
<1> QED
  BY <1>3, <1>6

LEMMA DiscardInputType == TypeOK /\ DiscardInput => TypeOK'
<1> SUFFICES ASSUME TypeOK, DiscardInput PROVE TypeOK'
  OBVIOUS
<1> USE DEF TypeOK
<1>1. BufTypeOK'
  BY PopExecute DEF DiscardInput, CanIssue
<1>2. CycleTypeOK'
  BY DEF DiscardInput, CycleTypeOK
<1> QED
  BY <1>1, <1>2, UnchangedTypes DEF DiscardInput

LEMMA IssueInstType == TypeOK /\ IssueInst => TypeOK'
<1> SUFFICES ASSUME TypeOK, IssueInst PROVE TypeOK'
  OBVIOUS
<1> USE DEF TypeOK
<1>1. BufTypeOK' /\ Head(buf["execute"].queue) \in Insts
  BY PopExecute DEF IssueInst, CanIssue
<1>2. inFlight' \in Seq(Insts)
  BY <1>1 DEF IssueInst, ExecuteTypeOK
<1>3. ExecuteTypeOK'
  BY <1>2 DEF IssueInst, ExecuteTypeOK
<1>4. CycleTypeOK'
  BY DEF IssueInst, CycleTypeOK
<1> QED
  BY <1>1, <1>3, <1>4, UnchangedTypes DEF IssueInst

LEMMA EndIssueType == TypeOK /\ EndIssue => TypeOK'
<1> SUFFICES ASSUME TypeOK, EndIssue PROVE TypeOK'
  OBVIOUS
<1> USE DEF TypeOK
<1>1. active' \in BOOLEAN
  BY DEF EndIssue, ExecuteActive, CycleTypeOK
<1>2. CycleTypeOK'
  BY <1>1 DEF EndIssue, CycleTypeOK, Phases
<1> QED
  BY <1>2, UnchangedTypes DEF EndIssue

LEMMA DummyType == TypeOK /\ Dummy => TypeOK'
<1> SUFFICES ASSUME TypeOK, Dummy PROVE TypeOK'
  OBVIOUS
<1> USE DEF TypeOK
<1> DEFINE b == Delivered(buf["dummy"])
           outputs == b.queue # <<>> /\ CanReserve("execute")
<1>1. b \in Buffers(Insts) /\ b.queue \in Seq(Insts)
  BY BufKinds, DeliveredType DEF Buffers
<1>2. /\ outputs => buf' = [buf EXCEPT !["dummy"] = [b EXCEPT !.queue = Tail(@)],
                                       !["execute"] = Written(@, Head(b.queue))]
      /\ ~outputs => buf' = [buf EXCEPT !["dummy"] = b]
      /\ active' = (active \/ outputs)
  BY DEF Dummy
<1>3. b.queue # <<>> => Head(b.queue) \in Insts /\ Tail(b.queue) \in Seq(Insts)
  BY <1>1, HeadTailType
<1>4. "dummy" \in Stages /\ "execute" \in Stages
  BY BufKinds
<1> HIDE DEF b
<1>5. BufTypeOK'
  <2>1. CASE outputs
    <3>1. [b EXCEPT !.queue = Tail(@)] \in Buffers(Insts)
      BY <1>1, <1>3, <2>1, QueueType
    <3>2. Written(buf["execute"], Head(b.queue)) \in Buffers(Insts)
      BY <1>3, <2>1, BufKinds, WrittenType
    <3> DEFINE d == [b EXCEPT !.queue = Tail(@)]
               e == Written(buf["execute"], Head(b.queue))
    <3>3. buf' = [buf EXCEPT !["dummy"] = d, !["execute"] = e]
      BY <1>2, <2>1
    <3> HIDE DEF d, e
    <3> QED
      BY <1>4, <3>1, <3>2, <3>3, BufTypes DEF d, e
  <2>2. CASE ~outputs
    BY <1>1, <1>2, <1>4, <2>2, BufType
  <2> QED
    BY <2>1, <2>2
<1>6. CycleTypeOK'
  BY <1>2 DEF Dummy, CycleTypeOK, Phases
<1> QED
  BY <1>5, <1>6, UnchangedTypes DEF Dummy

\* The micro-op Decode emits, and the ones after it.
LEMMA DecodeOp ==
    ASSUME NEW i \in Insts, NEW m \in 0..(MacroLen - 1),
           NEW op, op = [i EXCEPT !.upc = m,
                           !.predictedTaken = @ /\ LastOp([i EXCEPT !.upc = m])]
    PROVE  /\ op \in Insts
           /\ op.pc = i.pc /\ op.bytes = i.bytes /\ op.upc = m /\ op.stream = i.stream
           /\ op.pred = i.pred /\ op.fault = i.fault
           /\ op.predictedTarget = i.predictedTarget
           /\ LastOp(op) <=> (i.fault \/ Program[i.bytes] # "macro" \/ m = MacroLen - 1)
           /\ op.predictedTaken <=> (i.predictedTaken /\ LastOp(op))
           /\ ~LastOp(op) => m + 1 \in 0..(MacroLen - 1)
<1>1. LastOp([i EXCEPT !.upc = m]) <=> (i.fault \/ Program[i.bytes] # "macro" \/ m = MacroLen - 1)
  BY DEF LastOp, Insts
<1>2. (i.predictedTaken /\ LastOp([i EXCEPT !.upc = m])) \in BOOLEAN
  BY DEF Insts
<1>3. op \in Insts
  BY <1>2 DEF Insts
<1>4. /\ op.pc = i.pc /\ op.bytes = i.bytes /\ op.upc = m /\ op.stream = i.stream
      /\ op.pred = i.pred /\ op.fault = i.fault
      /\ op.predictedTarget = i.predictedTarget
  BY DEF Insts
<1>5. LastOp(op) <=> (i.fault \/ Program[i.bytes] # "macro" \/ m = MacroLen - 1)
  BY <1>4 DEF LastOp
<1>6. op.predictedTaken <=> (i.predictedTaken /\ LastOp(op))
  BY <1>1, <1>5 DEF Insts
<1>7. ~LastOp(op) => m + 1 \in 0..(MacroLen - 1)
  BY <1>5, AddressTypes
<1> QED
  BY <1>3, <1>4, <1>5, <1>6, <1>7

LEMMA DecodeType == TypeOK /\ Decode => TypeOK'
<1> SUFFICES ASSUME TypeOK, Decode PROVE TypeOK'
  OBVIOUS
<1> USE DEF TypeOK
<1> DEFINE b == Delivered(buf["decode"])
           i == Head(b.queue)
           op == [i EXCEPT !.upc = microop,
                           !.predictedTaken = @ /\ LastOp([i EXCEPT !.upc = microop])]
           outputs == b.queue # <<>> /\ CanReserve("dummy")
           d == IF LastOp(op) THEN [b EXCEPT !.queue = Tail(@)] ELSE b
           e == Written(buf["dummy"], op)
<1>1. b \in Buffers(Insts) /\ b.queue \in Seq(Insts)
  BY BufKinds, DeliveredType DEF Buffers
<1>2. b.queue # <<>> => i \in Insts /\ Tail(b.queue) \in Seq(Insts)
  BY <1>1, HeadTailType
<1>3. microop \in 0..(MacroLen - 1)
  BY DEF FetchTypeOK
<1>4. b.queue # <<>> => op \in Insts /\ (~LastOp(op) => microop + 1 \in 0..(MacroLen - 1))
  <2> HIDE DEF b
  <2> SUFFICES ASSUME b.queue # <<>>
               PROVE  op \in Insts /\ (~LastOp(op) => microop + 1 \in 0..(MacroLen - 1))
    OBVIOUS
  <2>1. i \in Insts
    BY <1>2
  <2> HIDE DEF i
  <2> QED
    BY <1>3, <2>1, DecodeOp, Zenon
<1>5. "decode" \in Stages /\ "dummy" \in Stages
  BY BufKinds
<1>6. /\ outputs => /\ buf' = [buf EXCEPT !["decode"] = d, !["dummy"] = e]
                    /\ microop' = NextMicroop(op)
      /\ ~outputs => buf' = [buf EXCEPT !["decode"] = b] /\ microop' = microop
      /\ active' = (active \/ outputs)
  BY DEF Decode
<1>7. microop' \in 0..(MacroLen - 1)
  <2> HIDE DEF op, b
  <2> QED
    BY <1>3, <1>4, <1>6, AddressTypes DEF NextMicroop
<1>8. BufTypeOK'
  <2>1. CASE outputs
    <3>1. d \in Buffers(Insts)
      <4> HIDE DEF b, op
      <4> QED
        BY <1>1, <1>2, <2>1, QueueType
    <3>2. e \in Buffers(Insts)
      <4> HIDE DEF b, op
      <4> QED
        BY <1>4, <2>1, BufKinds, WrittenType
    <3> HIDE DEF d, e
    <3> QED
      BY <1>5, <1>6, <2>1, <3>1, <3>2, BufTypes
  <2>2. CASE ~outputs
    <3> HIDE DEF b, d, e, op
    <3> QED
      BY <1>1, <1>5, <1>6, <2>2, BufType
  <2> QED
    BY <2>1, <2>2
<1> HIDE DEF b, op, d, e
<1>9. CycleTypeOK'
  BY <1>6 DEF Decode, CycleTypeOK, Phases
<1>10. FetchTypeOK'
  BY <1>7 DEF Decode, FetchTypeOK
<1> QED
  BY <1>8, <1>9, <1>10, UnchangedTypes DEF Decode

\* Discarding old predictions leaves a tail of the lines.
LEMMA WithoutOldPredictionsType ==
    ASSUME NEW q \in Seq(Lines)
    PROVE  /\ WithoutOldPredictions(q) \in Seq(Lines)
           /\ WithoutOldPredictions(q) = <<>> =>
                \A n \in 1..Len(q) : OldPrediction(q[n])
           /\ WithoutOldPredictions(q) # <<>> =>
                \E n \in 1..Len(q) :
                  /\ ~OldPrediction(q[n])
                  /\ \A m \in 1..(n - 1) : OldPrediction(q[m])
                  /\ WithoutOldPredictions(q) = SubSeq(q, n, Len(q))
<1> DEFINE kept == {n \in 1..Len(q) : ~OldPrediction(q[n])}
           first == CHOOSE n \in kept : \A m \in kept : n <= m
<1>1. kept \subseteq Nat /\ Len(q) \in Nat
  OBVIOUS
<1>2. CASE kept = {}
  BY <1>2 DEF WithoutOldPredictions
<1>3. CASE kept # {}
  <2>1. \E n \in kept : \A m \in kept : n <= m
    BY <1>1, <1>3, LeastNumber
  <2>2. first \in kept /\ \A m \in kept : first <= m
    BY <2>1
  <2>3. WithoutOldPredictions(q) = SubSeq(q, first, Len(q))
    BY <1>3 DEF WithoutOldPredictions
  <2> HIDE DEF first
  <2>4. \A m \in 1..(first - 1) : OldPrediction(q[m])
    BY <2>2
  <2>5. SubSeq(q, first, Len(q)) \in Seq(Lines)
    BY <2>2
  <2>6. Len(SubSeq(q, first, Len(q))) # 0
    BY <2>2
  <2>7. SubSeq(q, first, Len(q)) # <<>>
    BY <2>5, <2>6, EmptySeq
  <2>8. first \in 1..Len(q) /\ ~OldPrediction(q[first])
    BY <2>2
  <2> QED
    BY <2>3, <2>4, <2>5, <2>7, <2>8, Zenon
<1> QED
  BY <1>2, <1>3

\* The parts of Fetch2: the lines delivered, those left of them, and Fetch2's PC.
LinesDelivered == Delivered(buf["fetch2"])
LinesArrived == IF IsStreamChange(eToF1.out) THEN <<>> ELSE LinesDelivered.queue
LinesLeft == WithoutOldPredictions(LinesArrived)
HavePCNow == /\ fetch2.havePC
             /\ ~IsStreamChange(eToF1.out)
             /\ LinesLeft = LinesArrived
PCOf(l) == IF ~HavePCNow \/ fetch2.lastStream # l.stream THEN l.pc ELSE fetch2.pc
Predicted(l, p) == [InstOf(l, PCOf(l)) EXCEPT !.predictedTaken = p # NoBranch,
                                              !.predictedTarget = p.target]

LEMMA Fetch2Frame ==
    ASSUME Fetch2
    PROVE  /\ phase = "fetch2" /\ phase' = "fetch1"
           /\ active' \in BOOLEAN
           /\ UNCHANGED <<count, eToF1, fetch1, fetches, icache, microop, executeVars, drainVars>>
<1>1. phase = "fetch2" /\ phase' = "fetch1"
  BY Zenon DEF Fetch2
<1>2. active' = (active \/ (LinesLeft # <<>> /\ CanReserve("decode")))
  BY Zenon DEF Fetch2, LinesDelivered, LinesArrived, LinesLeft
<1>3. UNCHANGED <<count, eToF1, fetch1, fetches, icache, microop, executeVars, drainVars>>
  BY Zenon DEF Fetch2
<1> QED
  BY <1>1, <1>2, <1>3

LEMMA Fetch2Parts ==
    ASSUME Fetch2
    PROVE  LET l == Head(LinesLeft)
           IN  \/ /\ LinesLeft = <<>> \/ ~CanReserve("decode")
                  /\ buf' = [buf EXCEPT !["fetch2"] = [LinesDelivered EXCEPT !.queue = LinesLeft]]
                  /\ fetch2' = [fetch2 EXCEPT !.havePC = HavePCNow]
                  /\ UNCHANGED f2ToF1
               \/ /\ LinesLeft # <<>> /\ CanReserve("decode")
                  /\ \E p \in Predictions(l) :
                       /\ f2ToF1' = [f2ToF1 EXCEPT !.in = p]
                       /\ buf' = [buf EXCEPT
                            !["fetch2"] = [LinesDelivered EXCEPT !.queue =
                                 IF l.fault \/ p # NoBranch THEN <<>> ELSE Tail(LinesLeft)],
                            !["decode"] = Written(@, Predicted(l, p))]
                       /\ fetch2' = [pc |-> IF l.fault THEN PCOf(l) ELSE AfterPC(PCOf(l)),
                                     havePC |-> ~l.fault /\ ~(p # NoBranch),
                                     lastStream |-> l.stream,
                                     expectedStream |-> IF p # NoBranch THEN l.stream
                                                        ELSE fetch2.expectedStream,
                                     pred |-> IF p # NoBranch THEN p.pred ELSE fetch2.pred]
<1>1. CASE LinesLeft = <<>> \/ ~CanReserve("decode")
  BY <1>1, Zenon DEF Fetch2, LinesDelivered, LinesArrived, LinesLeft, HavePCNow
<1>2. CASE LinesLeft # <<>> /\ CanReserve("decode")
  BY <1>2, Zenon DEF Fetch2, LinesDelivered, LinesArrived, LinesLeft, HavePCNow, PCOf, Predicted,
                     HavePCAfter
<1> QED
  BY <1>1, <1>2

\* The types of those parts.
LEMMA Fetch2PartTypes ==
    ASSUME BufTypeOK
    PROVE  /\ LinesDelivered \in Buffers(Lines)
           /\ LinesArrived \in Seq(Lines)
           /\ LinesLeft \in Seq(Lines)
           /\ HavePCNow \in BOOLEAN
<1>1. LinesDelivered \in Buffers(Lines)
  BY BufKinds, DeliveredType DEF LinesDelivered
<1>2. LinesArrived \in Seq(Lines)
  BY <1>1 DEF LinesArrived, Buffers
<1>3. LinesLeft \in Seq(Lines)
  BY <1>2, WithoutOldPredictionsType DEF LinesLeft
<1> QED
  BY <1>1, <1>2, <1>3 DEF HavePCNow

LEMMA PredictionsType ==
    ASSUME FetchTypeOK, NEW l \in Lines, NEW p \in Predictions(l)
    PROVE  /\ p \in Branches
           /\ p # NoBranch => /\ p.reason = "BranchPrediction" /\ p.stream = l.stream
                              /\ p.pred = fetch2.pred + 1
                              /\ ~l.fault /\ Program[l.pc] = "branch"
<1>1. \/ p = NoBranch
      \/ \E t \in PCs : /\ p = [reason |-> "BranchPrediction", stream |-> l.stream,
                                pred |-> fetch2.pred + 1, target |-> t]
                        /\ ~l.fault /\ Program[l.pc] = "branch"
  BY DEF Predictions
<1>2. l.stream \in SeqNum /\ fetch2.pred + 1 \in SeqNum
  BY DEF FetchTypeOK, Lines, SeqNum
<1> QED
  BY <1>1, <1>2, NoBranchType DEF Branches, Reasons

\* The instruction packed from a line.
LEMMA PredictedType ==
    ASSUME FetchTypeOK, NEW l \in Lines, NEW p \in Branches
    PROVE  /\ PCOf(l) \in PCs
           /\ Predicted(l, p) \in Insts
           /\ Predicted(l, p).pc = PCOf(l)
           /\ Predicted(l, p).bytes = l.pc
           /\ Predicted(l, p).upc = 0
           /\ Predicted(l, p).stream = l.stream
           /\ Predicted(l, p).pred = fetch2.pred
           /\ Predicted(l, p).fault = l.fault
           /\ Predicted(l, p).predictedTaken = (p # NoBranch)
           /\ Predicted(l, p).predictedTarget = p.target
<1>1. PCOf(l) \in PCs
  BY DEF PCOf, FetchTypeOK, Lines
<1>2. InstOf(l, PCOf(l)) \in Insts
  BY <1>1, AddressTypes DEF InstOf, Insts, Lines, FetchTypeOK
<1>3. p.target \in PCs /\ (p # NoBranch) \in BOOLEAN
  BY DEF Branches
<1>4. Predicted(l, p) \in Insts
  BY <1>2, <1>3 DEF Predicted, Insts
<1>5. /\ Predicted(l, p).pc = PCOf(l) /\ Predicted(l, p).bytes = l.pc
      /\ Predicted(l, p).upc = 0 /\ Predicted(l, p).stream = l.stream
      /\ Predicted(l, p).pred = fetch2.pred /\ Predicted(l, p).fault = l.fault
  BY DEF Predicted, InstOf
<1>6. /\ Predicted(l, p).predictedTaken = (p # NoBranch)
      /\ Predicted(l, p).predictedTarget = p.target
  BY DEF Predicted, InstOf
<1> QED
  BY <1>1, <1>4, <1>5, <1>6

LEMMA Fetch2Type == TypeOK /\ Fetch2 => TypeOK'
<1> SUFFICES ASSUME TypeOK, Fetch2 PROVE TypeOK'
  OBVIOUS
<1> USE DEF TypeOK
<1> DEFINE l == Head(LinesLeft)
<1>1. /\ LinesDelivered \in Buffers(Lines) /\ LinesLeft \in Seq(Lines)
      /\ HavePCNow \in BOOLEAN
  BY Fetch2PartTypes
<1>2. LinesLeft # <<>> => l \in Lines /\ Tail(LinesLeft) \in Seq(Lines)
  BY <1>1, HeadTailType
<1>3. "fetch2" \in Stages /\ "decode" \in Stages
  BY BufKinds
<1>4. CycleTypeOK'
  BY Fetch2Frame DEF CycleTypeOK, Phases
<1>5. BufTypeOK' /\ FetchTypeOK'
  <2>1. CASE /\ buf' = [buf EXCEPT !["fetch2"] = [LinesDelivered EXCEPT !.queue = LinesLeft]]
             /\ fetch2' = [fetch2 EXCEPT !.havePC = HavePCNow]
             /\ UNCHANGED f2ToF1
    <3> DEFINE d == [LinesDelivered EXCEPT !.queue = LinesLeft]
    <3>1. d \in Buffers(Lines)
      BY <1>1, QueueType
    <3>2. buf' = [buf EXCEPT !["fetch2"] = d]
      BY <2>1
    <3> HIDE DEF d
    <3>3. BufTypeOK'
      BY <1>3, <3>1, <3>2, BufType
    <3>4. FetchTypeOK'
      BY <1>1, <2>1, Fetch2Frame DEF FetchTypeOK
    <3> QED
      BY <3>3, <3>4
  <2>2. ASSUME LinesLeft # <<>>, NEW p \in Predictions(l),
               f2ToF1' = [f2ToF1 EXCEPT !.in = p],
               buf' = [buf EXCEPT
                         !["fetch2"] = [LinesDelivered EXCEPT !.queue =
                              IF l.fault \/ p # NoBranch THEN <<>> ELSE Tail(LinesLeft)],
                         !["decode"] = Written(@, Predicted(l, p))],
               fetch2' = [pc |-> IF l.fault THEN PCOf(l) ELSE AfterPC(PCOf(l)),
                          havePC |-> ~l.fault /\ ~(p # NoBranch),
                          lastStream |-> l.stream,
                          expectedStream |-> IF p # NoBranch THEN l.stream
                                             ELSE fetch2.expectedStream,
                          pred |-> IF p # NoBranch THEN p.pred ELSE fetch2.pred]
        PROVE  BufTypeOK' /\ FetchTypeOK'
    <3> DEFINE q == IF l.fault \/ p # NoBranch THEN <<>> ELSE Tail(LinesLeft)
               d == [LinesDelivered EXCEPT !.queue = q]
               e == Written(buf["decode"], Predicted(l, p))
    <3>1. l \in Lines /\ p \in Branches
      BY <1>2, <2>2, PredictionsType
    <3> HIDE DEF l
    <3>2. q \in Seq(Lines)
      BY <1>2, <2>2
    <3>3. d \in Buffers(Lines)
      <4> HIDE DEF q
      <4> QED
        BY <1>1, <3>2, QueueType
    <3>4. e \in Buffers(Insts)
      BY <3>1, BufKinds, PredictedType, WrittenType
    <3>5. buf' = [buf EXCEPT !["fetch2"] = d, !["decode"] = e]
      BY <2>2
    <3>6. BufTypeOK'
      <4> HIDE DEF d, e
      <4> QED
        BY <1>3, <3>3, <3>4, <3>5, BufTypes, Zenon
    <3>7. /\ PCOf(l) \in PCs /\ AfterPC(PCOf(l)) \in PCs
          /\ l.stream \in SeqNum /\ p.pred \in SeqNum /\ (~l.fault /\ ~(p # NoBranch)) \in BOOLEAN
          /\ fetch2.expectedStream \in SeqNum /\ fetch2.pred \in SeqNum
      BY <3>1, AddressTypes, PredictedType DEF Lines, Branches, FetchTypeOK
    <3>8. fetch2' \in [pc : PCs, havePC : BOOLEAN, lastStream : SeqNum,
                       expectedStream : SeqNum, pred : SeqNum]
      BY <2>2, <3>7
    <3>9. f2ToF1' \in [in : Branches, out : Branches]
      BY <2>2, <3>1 DEF FetchTypeOK
    <3>10. FetchTypeOK'
      BY <3>8, <3>9, Fetch2Frame DEF FetchTypeOK
    <3> QED
      BY <3>6, <3>10
  <2> QED
    BY <2>1, <2>2, Fetch2Parts
<1> QED
  BY <1>4, <1>5, Fetch2Frame, UnchangedTypes

----------------------------------------------------------------------------
(* The queues of line fetches. *)

\* r is q with the progress of some fetches changed.
SameFetches(q, r) ==
    /\ r \in Seq(Fetches)
    /\ Len(r) = Len(q)
    /\ \A k \in 1..Len(q) :
         r[k].pc = q[k].pc /\ r[k].stream = q[k].stream /\ r[k].pred = q[k].pred

\* What the queues may be after a step: q, and whether the icache wants a retry.
QueueStep(q, r) ==
    /\ r \in [q : Seq(Fetches), icache : {"Running", "NeedsRetry"}, wakes : BOOLEAN]
    /\ SameFetches(q, r.q)

LEMMA SameFetchesTransitive ==
    ASSUME NEW q, NEW r, NEW t, SameFetches(q, r), SameFetches(r, t)
    PROVE  SameFetches(q, t)
BY DEF SameFetches

LEMMA SameFetchesReflexive ==
    ASSUME NEW q \in Seq(Fetches)
    PROVE  SameFetches(q, q)
BY DEF SameFetches

\* A fetch moves on.
LEMMA FetchMoves ==
    ASSUME NEW q \in Seq(Fetches), NEW n, NEW s \in FetchStates
    PROVE  SameFetches(q, [q EXCEPT ![n].state = s])
<1> DEFINE r == [q EXCEPT ![n].state = s]
<1>1. \A k \in 1..Len(q) : q[k] \in Fetches
  OBVIOUS
<1>2. \A k \in 1..Len(q) : r[k] = IF k = n THEN [q[k] EXCEPT !.state = s] ELSE q[k]
  OBVIOUS
<1>3. \A x \in Fetches : [x EXCEPT !.state = s] \in Fetches
  BY DEF Fetches
<1>4. DOMAIN r = 1..Len(q)
  OBVIOUS
<1> HIDE DEF r
<1>5. \A k \in 1..Len(q) : r[k] \in Fetches
  BY <1>1, <1>2, <1>3
<1>6. r = [k \in 1..Len(q) |-> r[k]]
  BY <1>4 DEF r
<1>7. r \in Seq(Fetches) /\ Len(r) = Len(q)
  BY <1>5, <1>6
<1>8. \A x \in Fetches : /\ [x EXCEPT !.state = s].pc = x.pc
                         /\ [x EXCEPT !.state = s].stream = x.stream
                         /\ [x EXCEPT !.state = s].pred = x.pred
  BY DEF Fetches
<1>9. \A k \in 1..Len(q) :
        r[k].pc = q[k].pc /\ r[k].stream = q[k].stream /\ r[k].pred = q[k].pred
  BY <1>1, <1>2, <1>8
<1> QED
  BY <1>7, <1>9 DEF SameFetches, r

\* The translation of a fetch fails or not.
LEMMA FetchFaults ==
    ASSUME NEW q \in Seq(Fetches), NEW n, NEW x \in BOOLEAN
    PROVE  SameFetches(q, [q EXCEPT ![n].fault = x])
<1> DEFINE r == [q EXCEPT ![n].fault = x]
<1>1. \A k \in 1..Len(q) : q[k] \in Fetches
  OBVIOUS
<1>2. \A k \in 1..Len(q) : r[k] = IF k = n THEN [q[k] EXCEPT !.fault = x] ELSE q[k]
  OBVIOUS
<1>3. \A y \in Fetches : [y EXCEPT !.fault = x] \in Fetches
  BY DEF Fetches
<1>4. DOMAIN r = 1..Len(q)
  OBVIOUS
<1> HIDE DEF r
<1>5. \A k \in 1..Len(q) : r[k] \in Fetches
  BY <1>1, <1>2, <1>3
<1>6. r = [k \in 1..Len(q) |-> r[k]]
  BY <1>4 DEF r
<1>7. r \in Seq(Fetches) /\ Len(r) = Len(q)
  BY <1>5, <1>6
<1>8. \A y \in Fetches : /\ [y EXCEPT !.fault = x].pc = y.pc
                         /\ [y EXCEPT !.fault = x].stream = y.stream
                         /\ [y EXCEPT !.fault = x].pred = y.pred
  BY DEF Fetches
<1>9. \A k \in 1..Len(q) :
        r[k].pc = q[k].pc /\ r[k].stream = q[k].stream /\ r[k].pred = q[k].pred
  BY <1>1, <1>2, <1>8
<1> QED
  BY <1>7, <1>9 DEF SameFetches, r

\* A fetch is translated.
LEMMA FetchTranslated ==
    ASSUME NEW q \in Seq(Fetches), NEW n, NEW x \in BOOLEAN
    PROVE  SameFetches(q, [q EXCEPT ![n].state = "Translated", ![n].fault = x])
<1> DEFINE r == [q EXCEPT ![n].state = "Translated"]
<1>1. SameFetches(q, r)
  BY FetchMoves DEF FetchStates
<1>2. [q EXCEPT ![n].state = "Translated", ![n].fault = x] = [r EXCEPT ![n].fault = x]
  BY Zenon
<1> HIDE DEF r
<1>3. r \in Seq(Fetches)
  BY <1>1 DEF SameFetches
<1>4. SameFetches(r, [r EXCEPT ![n].fault = x])
  BY <1>3, FetchFaults
<1> QED
  BY <1>1, <1>2, <1>4, SameFetchesTransitive

LEMMA TryToSendType ==
    ASSUME NEW q \in Seq(Fetches), NEW n, NEW r \in TryToSend(q, n)
    PROVE  QueueStep(q, r)
<1> DEFINE s == [q EXCEPT ![n].state = "RequestIssuing"]
<1>1. SameFetches(q, s)
  BY FetchMoves DEF FetchStates
<1>2. \/ r = [q |-> s, icache |-> "Running", wakes |-> FALSE]
      \/ r = [q |-> q, icache |-> "NeedsRetry", wakes |-> FALSE]
  BY DEF TryToSend
<1> HIDE DEF s
<1>3. s \in Seq(Fetches)
  BY <1>1 DEF SameFetches
<1>4. CASE r = [q |-> s, icache |-> "Running", wakes |-> FALSE]
  BY <1>1, <1>3, <1>4 DEF QueueStep
<1>5. CASE r = [q |-> q, icache |-> "NeedsRetry", wakes |-> FALSE]
  BY <1>5, SameFetchesReflexive DEF QueueStep
<1> QED
  BY <1>2, <1>4, <1>5

LEMMA TryToSendToTransfersType ==
    ASSUME NEW f, NEW q \in Seq(Fetches), NEW n, NEW ic \in {"Running", "NeedsRetry"},
           NEW r \in TryToSendToTransfers(f, q, n, ic)
    PROVE  QueueStep(q, r)
<1> DEFINE s == [q EXCEPT ![n].state = "Complete"]
<1>1. SameFetches(q, s)
  BY FetchMoves DEF FetchStates
<1>2. \/ r = [q |-> q, icache |-> ic, wakes |-> FALSE]
      \/ r = [q |-> s, icache |-> ic, wakes |-> TRUE]
      \/ r \in TryToSend(q, n)
  BY DEF TryToSendToTransfers
<1> HIDE DEF s
<1>3. CASE r = [q |-> q, icache |-> ic, wakes |-> FALSE]
  BY <1>3, SameFetchesReflexive DEF QueueStep
<1>4. CASE r = [q |-> s, icache |-> ic, wakes |-> TRUE]
  BY <1>1, <1>4 DEF QueueStep, SameFetches
<1> QED
  BY <1>2, <1>3, <1>4, TryToSendType

LEMMA FinishTranslationType ==
    ASSUME NEW f, NEW q \in Seq(Fetches), NEW n, NEW ic \in {"Running", "NeedsRetry"},
           NEW r \in FinishTranslation(f, q, n, ic)
    PROVE  QueueStep(q, r)
<1> DEFINE Q(x) == [q EXCEPT ![n].state = "Translated", ![n].fault = x]
<1>0. PICK x \in BOOLEAN : \E t \in TryToSendToTransfers(f, Q(x), n, ic) :
             r = [t EXCEPT !.wakes = TRUE]
  BY DEF FinishTranslation
<1>1. PICK t \in TryToSendToTransfers(f, Q(x), n, ic) : r = [t EXCEPT !.wakes = TRUE]
  BY <1>0
<1>2. SameFetches(q, Q(x))
  BY FetchTranslated
<1> HIDE DEF Q
<1>3. QueueStep(Q(x), t)
  BY <1>2, TryToSendToTransfersType DEF SameFetches
<1>4. /\ r.q = t.q
      /\ r \in [q : Seq(Fetches), icache : {"Running", "NeedsRetry"}, wakes : BOOLEAN]
  BY <1>1, <1>3 DEF QueueStep
<1> QED
  BY <1>2, <1>3, <1>4, SameFetchesTransitive DEF QueueStep

\* The fetch fetchLine makes.
NewFetch(f) == [pc |-> f.pc, stream |-> f.stream, pred |-> f.pred,
                state |-> "InTranslation", fault |-> FALSE]

LEMMA FetchLineType ==
    ASSUME NEW f \in Fetch1ThreadInfo, NEW q \in Seq(Fetches),
           NEW ic \in {"Running", "NeedsRetry"}, NEW r \in FetchLine(f, q, ic)
    PROVE  /\ NewFetch(f) \in Fetches
           /\ Append(q, NewFetch(f)) \in Seq(Fetches)
           /\ QueueStep(Append(q, NewFetch(f)), r)
<1> DEFINE all == Append(q, NewFetch(f))
<1>1. NewFetch(f) \in Fetches
  BY DEF NewFetch, Fetches, Fetch1ThreadInfo, FetchStates
<1>2. all \in Seq(Fetches)
  BY <1>1
<1>3. \/ r \in FinishTranslation(f, all, Len(all), ic)
      \/ r = [q |-> all, icache |-> ic, wakes |-> FALSE]
  BY Zenon DEF FetchLine, NewFetch
<1>4. SameFetches(all, all)
  BY <1>2, SameFetchesReflexive
<1> SUFFICES QueueStep(all, r)
  BY <1>1, <1>2
<1> HIDE DEF all
<1>5. CASE r = [q |-> all, icache |-> ic, wakes |-> FALSE]
  <2>1. r.q = all
    BY <1>5
  <2> QED
    BY <1>2, <1>4, <1>5, <2>1 DEF QueueStep
<1>6. CASE r \in FinishTranslation(f, all, Len(all), ic)
  BY <1>2, <1>6, FinishTranslationType
<1> QED
  BY <1>3, <1>5, <1>6

LEMMA StepQueuesType ==
    ASSUME NEW f, NEW q, NEW r, QueueStep(q, r), NEW t \in StepQueues(f, r)
    PROVE  QueueStep(q, t)
<1>1. CASE t = r
  BY <1>1
<1>2. CASE t # r
  <2>1. PICK u \in TryToSendToTransfers(f, r.q, FrontRequest(r.q), r.icache) :
               t = [u EXCEPT !.wakes = @ \/ r.wakes]
    BY <1>2, Zenon DEF StepQueues
  <2>2. r.q \in Seq(Fetches) /\ r.icache \in {"Running", "NeedsRetry"}
    BY DEF QueueStep
  <2>3. QueueStep(r.q, u)
    BY <2>2, TryToSendToTransfersType
  <2>4. (u.wakes \/ r.wakes) \in BOOLEAN
    OBVIOUS
  <2>5. /\ t.q = u.q
        /\ t \in [q : Seq(Fetches), icache : {"Running", "NeedsRetry"}, wakes : BOOLEAN]
    BY <2>1, <2>3, <2>4 DEF QueueStep
  <2> QED
    BY <2>3, <2>5, SameFetchesTransitive DEF QueueStep
<1> QED
  BY <1>1, <1>2

\* Fetch1 after the branches of the cycle.
LEMMA ChangeStreamType ==
    ASSUME NEW f \in Fetch1ThreadInfo, NEW b \in Branches
    PROVE  /\ ChangeStream(f, b) \in Fetch1ThreadInfo
           /\ ChangeStream(f, b).stream = b.stream
           /\ ChangeStream(f, b).pred = b.pred
           /\ ChangeStream(f, b).pc = b.target
           /\ ChangeStream(f, b).state =
                CASE b.reason = "SuspendThread" ->
                       IF f.wakeupGuard THEN f.state ELSE "WaitingForPC"
                  [] b.reason = "HaltFetch" -> "Halted"
                  [] OTHER -> "Running"
<1> DEFINE s == CASE b.reason = "SuspendThread" ->
                       IF f.wakeupGuard THEN f.state ELSE "WaitingForPC"
                  [] b.reason = "HaltFetch" -> "Halted"
                  [] OTHER -> "Running"
<1>1. s \in {"Halted", "WaitingForPC", "Running"}
  BY DEF Fetch1ThreadInfo
<1>2. ChangeStream(f, b) = [f EXCEPT !.stream = b.stream, !.pred = b.pred, !.pc = b.target,
                                     !.state = s]
  BY Zenon DEF ChangeStream
<1>3. b.stream \in SeqNum /\ b.pred \in SeqNum /\ b.target \in PCs
  BY DEF Branches
<1> HIDE DEF s
<1>4. ChangeStream(f, b) \in Fetch1ThreadInfo
  BY <1>1, <1>2, <1>3 DEF Fetch1ThreadInfo
<1>5. /\ ChangeStream(f, b).stream = b.stream /\ ChangeStream(f, b).pred = b.pred
      /\ ChangeStream(f, b).pc = b.target /\ ChangeStream(f, b).state = s
  BY <1>2 DEF Fetch1ThreadInfo
<1> QED
  BY <1>4, <1>5 DEF s

LEMMA AfterBranchesType ==
    ASSUME CycleTypeOK, FetchTypeOK
    PROVE  AfterBranches(fetch1) \in Fetch1ThreadInfo
<1>1. eToF1.out \in Branches /\ f2ToF1.out \in Branches /\ fetch1 \in Fetch1ThreadInfo
  BY DEF CycleTypeOK, FetchTypeOK
<1> QED
  BY <1>1, ChangeStreamType DEF AfterBranches

\* The parts of Fetch1: its state after the branches and after a new fetch, the
\* fetches with the new one, the places reserved, and the response to the oldest.
Branched == AfterBranches(fetch1)
Fetching == /\ Len(fetches) < FetchLimit
            /\ status = "Active"
            /\ CanReserve("fetch2")
            /\ Branched.state = "Running"
Advanced == IF Fetching THEN [Branched EXCEPT !.pc = AfterPC(Branched.pc)] ELSE Branched
WithNew == IF Fetching THEN Append(fetches, NewFetch(Branched)) ELSE fetches
Reserving == [buf["fetch2"] EXCEPT !.reserved = @ + (IF Fetching THEN 1 ELSE 0)]
Responds(q) == q # <<>> /\ Head(q).state = "Complete"
LineOf(x) == [pc |-> x.pc, stream |-> x.stream, pred |-> x.pred, fault |-> x.fault]
Old(q) == Responds(q) /\ OldFetch(Advanced, Head(q))

Fetch1Result(r) ==
    /\ fetches' = IF Responds(r.q) THEN Tail(r.q) ELSE r.q
    /\ icache' = r.icache
    /\ active' = (active \/ r.wakes \/ Responds(r.q))
    /\ buf' = [buf EXCEPT !["fetch2"] =
                 IF ~Responds(r.q) THEN Reserving
                 ELSE IF Old(r.q) THEN ReservationFreed(Reserving)
                 ELSE [Reserving EXCEPT !.latch = <<LineOf(Head(r.q))>>]]
    /\ fetch1' = [Advanced EXCEPT !.wakeupGuard = FALSE,
                    !.state = IF Responds(r.q) /\ ~Old(r.q) /\ Head(r.q).fault
                              THEN "WaitingForPC" ELSE @]

LEMMA Fetch1Frame ==
    ASSUME Fetch1
    PROVE  /\ phase = "fetch1" /\ phase' = "advance"
           /\ UNCHANGED <<count, eToF1, fetch2, f2ToF1, microop, executeVars, drainVars>>
<1>1. phase = "fetch1" /\ phase' = "advance"
  BY Zenon DEF Fetch1
<1>2. UNCHANGED <<count, eToF1, fetch2, f2ToF1, microop, executeVars, drainVars>>
  BY Zenon DEF Fetch1
<1> QED
  BY <1>1, <1>2

LEMMA Fetch1Parts ==
    ASSUME CycleTypeOK, FetchTypeOK, Fetch1
    PROVE  \E r : QueueStep(WithNew, r) /\ Fetch1Result(r)
<1> DEFINE fetched == IF Fetching THEN FetchLine(Branched, fetches, icache)
                      ELSE {[q |-> fetches, icache |-> icache, wakes |-> FALSE]}
<1>1. \E r \in UNION {StepQueues(Advanced, t) : t \in fetched} : Fetch1Result(r)
  BY Zenon DEF Fetch1, Fetch1Result, Branched, Fetching, Advanced, Reserving, Responds, LineOf, Old
<1> HIDE DEF fetched
<1>2. PICK t \in fetched : \E r \in StepQueues(Advanced, t) : Fetch1Result(r)
  BY <1>1
<1>3. PICK r \in StepQueues(Advanced, t) : Fetch1Result(r)
  BY <1>2
<1>4. QueueStep(WithNew, t)
  <2>1. fetches \in Seq(Fetches) /\ icache \in {"Running", "NeedsRetry"}
    BY DEF FetchTypeOK
  <2>2. CASE Fetching
    BY <2>1, <2>2, FetchLineType, AfterBranchesType DEF WithNew, Branched, fetched
  <2>3. CASE ~Fetching
    <3>1. t = [q |-> fetches, icache |-> icache, wakes |-> FALSE] /\ WithNew = fetches
      BY <2>3 DEF WithNew, fetched
    <3>2. t.q = fetches /\ SameFetches(fetches, fetches)
      BY <2>1, <3>1, SameFetchesReflexive
    <3> QED
      BY <2>1, <3>1, <3>2 DEF QueueStep
  <2> QED
    BY <2>2, <2>3
<1> QED
  BY <1>3, <1>4, StepQueuesType

\* The types of the parts of Fetch1.
LEMMA Fetch1PartTypes ==
    ASSUME CycleTypeOK, FetchTypeOK, BufTypeOK
    PROVE  /\ Branched \in Fetch1ThreadInfo
           /\ Advanced \in Fetch1ThreadInfo
           /\ Advanced.stream = Branched.stream /\ Advanced.pred = Branched.pred
           /\ Advanced.state = Branched.state /\ Advanced.wakeupGuard = Branched.wakeupGuard
           /\ Advanced.pc = IF Fetching THEN AfterPC(Branched.pc) ELSE Branched.pc
           /\ NewFetch(Branched) \in Fetches
           /\ WithNew \in Seq(Fetches)
           /\ Reserving \in Buffers(Lines)
           /\ Reserving.latch = buf["fetch2"].latch
           /\ Reserving.queue = buf["fetch2"].queue
           /\ Reserving.reserved = buf["fetch2"].reserved + (IF Fetching THEN 1 ELSE 0)
<1>1. Branched \in Fetch1ThreadInfo
  BY AfterBranchesType DEF Branched
<1>2. Branched.pc \in PCs /\ AfterPC(Branched.pc) \in PCs
  BY <1>1, AddressTypes DEF Fetch1ThreadInfo
<1>3. Advanced \in Fetch1ThreadInfo
  BY <1>1, <1>2 DEF Advanced, Fetch1ThreadInfo
<1>4. /\ Advanced.stream = Branched.stream /\ Advanced.pred = Branched.pred
      /\ Advanced.state = Branched.state /\ Advanced.wakeupGuard = Branched.wakeupGuard
      /\ Advanced.pc = IF Fetching THEN AfterPC(Branched.pc) ELSE Branched.pc
  BY <1>1 DEF Advanced, Fetch1ThreadInfo
<1>5. NewFetch(Branched) \in Fetches
  BY <1>1 DEF NewFetch, Fetches, Fetch1ThreadInfo, FetchStates
<1>6. WithNew \in Seq(Fetches)
  BY <1>5 DEF WithNew, FetchTypeOK
<1>7. buf["fetch2"] \in Buffers(Lines)
  BY BufKinds
<1>8. buf["fetch2"].reserved + (IF Fetching THEN 1 ELSE 0) \in Nat
  BY <1>7 DEF Buffers
<1>9. Reserving \in Buffers(Lines)
  BY <1>7, <1>8 DEF Reserving, Buffers
<1>10. /\ Reserving.latch = buf["fetch2"].latch
       /\ Reserving.queue = buf["fetch2"].queue
       /\ Reserving.reserved = buf["fetch2"].reserved + (IF Fetching THEN 1 ELSE 0)
  BY <1>7 DEF Reserving, Buffers
<1> QED
  BY <1>1, <1>3, <1>4, <1>5, <1>6, <1>9, <1>10

LEMMA FreedType ==
    ASSUME NEW b \in Buffers(Lines)
    PROVE  /\ ReservationFreed(b) \in Buffers(Lines)
           /\ ReservationFreed(b).latch = b.latch
           /\ ReservationFreed(b).queue = b.queue
           /\ ReservationFreed(b).reserved = IF b.reserved = 0 THEN 0 ELSE b.reserved - 1
<1>1. FreeReservation(b.reserved) \in Nat
  BY DEF Buffers, FreeReservation
<1>2. ReservationFreed(b) \in Buffers(Lines)
  BY <1>1 DEF ReservationFreed, Buffers
<1>3. /\ ReservationFreed(b).latch = b.latch
      /\ ReservationFreed(b).queue = b.queue
      /\ ReservationFreed(b).reserved = FreeReservation(b.reserved)
  BY DEF ReservationFreed, Buffers
<1> QED
  BY <1>2, <1>3 DEF FreeReservation

LEMMA LineOfType ==
    ASSUME NEW x \in Fetches
    PROVE  LineOf(x) \in Lines
BY DEF LineOf, Lines, Fetches

LEMMA LatchType ==
    ASSUME NEW X, NEW b \in Buffers(X), NEW q \in Seq(X)
    PROVE  /\ [b EXCEPT !.latch = q] \in Buffers(X)
           /\ [b EXCEPT !.latch = q].latch = q
           /\ [b EXCEPT !.latch = q].queue = b.queue
           /\ [b EXCEPT !.latch = q].reserved = b.reserved
BY DEF Buffers

LEMMA Fetch1Type == TypeOK /\ Fetch1 => TypeOK'
<1> SUFFICES ASSUME TypeOK, Fetch1 PROVE TypeOK'
  OBVIOUS
<1> USE DEF TypeOK
<1>1. PICK r : QueueStep(WithNew, r) /\ Fetch1Result(r)
  BY Fetch1Parts
<1>2. r.q \in Seq(Fetches) /\ r.icache \in {"Running", "NeedsRetry"} /\ r.wakes \in BOOLEAN
  BY <1>1 DEF QueueStep
<1>3. Responds(r.q) => Head(r.q) \in Fetches /\ Tail(r.q) \in Seq(Fetches)
  BY <1>2, HeadTailType DEF Responds
<1> DEFINE d == IF ~Responds(r.q) THEN Reserving
                ELSE IF Old(r.q) THEN ReservationFreed(Reserving)
                ELSE [Reserving EXCEPT !.latch = <<LineOf(Head(r.q))>>]
<1>4. d \in Buffers(Lines)
  <2>1. Reserving \in Buffers(Lines) /\ ReservationFreed(Reserving) \in Buffers(Lines)
    BY Fetch1PartTypes, FreedType
  <2>2. ASSUME Responds(r.q)
        PROVE  [Reserving EXCEPT !.latch = <<LineOf(Head(r.q))>>] \in Buffers(Lines)
    <3>1. <<LineOf(Head(r.q))>> \in Seq(Lines)
      BY <1>3, <2>2, LineOfType
    <3> QED
      BY <2>1, <3>1, LatchType
  <2> QED
    BY <2>1, <2>2
<1>5. BufTypeOK'
  <2>1. buf' = [buf EXCEPT !["fetch2"] = d] /\ "fetch2" \in Stages
    BY <1>1, BufKinds DEF Fetch1Result
  <2> HIDE DEF d
  <2> QED
    BY <1>4, <2>1, BufType
<1>6. fetch1' \in Fetch1ThreadInfo
  <2>1. Advanced \in Fetch1ThreadInfo
    BY Fetch1PartTypes
  <2> QED
    BY <1>1, <2>1 DEF Fetch1Result, Fetch1ThreadInfo
<1>7. fetches' \in Seq(Fetches) /\ icache' \in {"Running", "NeedsRetry"} /\ active' \in BOOLEAN
  BY <1>1, <1>2, <1>3 DEF Fetch1Result
<1>8. FetchTypeOK'
  BY <1>6, <1>7, Fetch1Frame DEF FetchTypeOK
<1>9. CycleTypeOK'
  BY <1>7, Fetch1Frame DEF CycleTypeOK, Phases
<1> QED
  BY <1>5, <1>8, <1>9, Fetch1Frame, UnchangedTypes

LEMMA AdvanceType == TypeOK /\ Advance => TypeOK'
<1> SUFFICES ASSUME TypeOK, Advance PROVE TypeOK'
  OBVIOUS
<1> USE DEF TypeOK
<1>1. f2ToF1' \in [in : Branches, out : Branches] /\ eToF1' \in [in : Branches, out : Branches]
  BY NoBranchType DEF Advance, CycleTypeOK, FetchTypeOK
<1>2. CycleTypeOK'
  BY <1>1 DEF Advance, CycleTypeOK, Phases
<1>3. FetchTypeOK'
  BY <1>1 DEF Advance, FetchTypeOK
<1>4. DrainTypeOK'
  BY DEF Advance, DrainTypeOK
<1> QED
  BY <1>2, <1>3, <1>4, UnchangedTypes DEF Advance

\* The ITLB and the icache change nothing but the progress of fetches.
LEMMA FetchesProgress ==
    ASSUME FetchTypeOK, Finish \/ RecvTimingResp \/ RecvReqRetry
    PROVE  /\ SameFetches(fetches, fetches')
           /\ icache' \in {"Running", "NeedsRetry"}
           /\ fetches' \in Seq(Fetches)
<1>1. fetches \in Seq(Fetches) /\ icache \in {"Running", "NeedsRetry"} /\ "Complete" \in FetchStates
  BY DEF FetchTypeOK, FetchStates
<1> SUFFICES SameFetches(fetches, fetches') /\ icache' \in {"Running", "NeedsRetry"}
  BY DEF SameFetches
<1>2. CASE Finish
  <2>1. PICK n \in 1..Len(fetches) : \E r \in FinishTranslation(fetch1, fetches, n, icache) :
               fetches' = r.q /\ icache' = r.icache
    BY <1>2 DEF Finish
  <2>2. PICK r \in FinishTranslation(fetch1, fetches, n, icache) : fetches' = r.q /\ icache' = r.icache
    BY <2>1
  <2>3. QueueStep(fetches, r)
    BY <1>1, FinishTranslationType
  <2> QED
    BY <2>2, <2>3 DEF QueueStep
<1>3. CASE RecvTimingResp
  <2>1. PICK n \in 1..Len(fetches) : fetches' = [fetches EXCEPT ![n].state = "Complete"]
    BY <1>3 DEF RecvTimingResp
  <2>2. icache' = icache
    BY <1>3 DEF RecvTimingResp
  <2> QED
    BY <1>1, <2>1, <2>2, FetchMoves
<1>4. CASE RecvReqRetry
  <2>1. PICK r \in TryToSend(fetches, FrontRequest(fetches)) : fetches' = r.q /\ icache' = r.icache
    BY <1>4 DEF RecvReqRetry
  <2>2. QueueStep(fetches, r)
    BY <1>1, TryToSendType
  <2> QED
    BY <2>1, <2>2 DEF QueueStep
<1> QED
  BY <1>2, <1>3, <1>4

LEMMA FinishType == TypeOK /\ Finish => TypeOK'
<1> SUFFICES ASSUME TypeOK, Finish PROVE TypeOK'
  OBVIOUS
<1> USE DEF TypeOK
<1>2. fetches' \in Seq(Fetches) /\ icache' \in {"Running", "NeedsRetry"}
  BY FetchesProgress
<1>3. FetchTypeOK'
  BY <1>2 DEF Finish, FetchTypeOK
<1>4. CycleTypeOK'
  BY DEF Finish, CycleTypeOK, WakeupOnEvent
<1>5. DrainTypeOK'
  BY DEF Finish, DrainTypeOK, WakeupOnEvent
<1> QED
  BY <1>3, <1>4, <1>5, UnchangedTypes DEF Finish

LEMMA RecvTimingRespType == TypeOK /\ RecvTimingResp => TypeOK'
<1> SUFFICES ASSUME TypeOK, RecvTimingResp PROVE TypeOK'
  OBVIOUS
<1> USE DEF TypeOK
<1>2. fetches' \in Seq(Fetches)
  BY FetchesProgress
<1>3. FetchTypeOK'
  BY <1>2 DEF RecvTimingResp, FetchTypeOK
<1>4. CycleTypeOK'
  BY DEF RecvTimingResp, CycleTypeOK, WakeupOnEvent
<1>5. DrainTypeOK'
  BY DEF RecvTimingResp, DrainTypeOK, WakeupOnEvent
<1> QED
  BY <1>3, <1>4, <1>5, UnchangedTypes DEF RecvTimingResp

LEMMA RecvReqRetryType == TypeOK /\ RecvReqRetry => TypeOK'
<1> SUFFICES ASSUME TypeOK, RecvReqRetry PROVE TypeOK'
  OBVIOUS
<1> USE DEF TypeOK
<1>2. fetches' \in Seq(Fetches) /\ icache' \in {"Running", "NeedsRetry"}
  BY FetchesProgress
<1>3. FetchTypeOK'
  BY <1>2 DEF RecvReqRetry, FetchTypeOK
<1>4. CycleTypeOK'
  BY DEF RecvReqRetry, CycleTypeOK
<1> QED
  BY <1>3, <1>4, UnchangedTypes DEF RecvReqRetry

LEMMA DataWakeupType == TypeOK /\ DataWakeup => TypeOK'
<1> SUFFICES ASSUME TypeOK, DataWakeup PROVE TypeOK'
  OBVIOUS
<1> USE DEF TypeOK
<1>1. CycleTypeOK'
  BY DEF DataWakeup, CycleTypeOK, WakeupOnEvent
<1>2. DrainTypeOK'
  BY DEF DataWakeup, DrainTypeOK, WakeupOnEvent
<1> QED
  BY <1>1, <1>2, UnchangedTypes DEF DataWakeup

LEMMA WokenType ==
    ASSUME FetchTypeOK, ExecuteTypeOK
    PROVE  /\ Woken(fetch1) \in Fetch1ThreadInfo
           /\ Woken(fetch1).pc = arch.pc
           /\ Woken(fetch1).state = "Running"
           /\ Woken(fetch1).stream = fetch1.stream
           /\ Woken(fetch1).pred = fetch1.pred
<1>1. arch.pc \in PCs /\ fetch1 \in Fetch1ThreadInfo
  BY DEF ExecuteTypeOK, FetchTypeOK
<1>2. Woken(fetch1) \in Fetch1ThreadInfo
  BY <1>1 DEF Woken, Fetch1ThreadInfo
<1> QED
  BY <1>1, <1>2 DEF Woken, Fetch1ThreadInfo

LEMMA ActivateContextType == TypeOK /\ ActivateContext => TypeOK'
<1> SUFFICES ASSUME TypeOK, ActivateContext PROVE TypeOK'
  OBVIOUS
<1> USE DEF TypeOK
<1>1. FetchTypeOK'
  BY WokenType DEF ActivateContext, FetchTypeOK
<1>2. ExecuteTypeOK'
  BY DEF ActivateContext, ExecuteTypeOK
<1>3. CycleTypeOK'
  BY DEF ActivateContext, CycleTypeOK, WakeupOnEvent
<1>4. DrainTypeOK'
  BY DEF ActivateContext, DrainTypeOK, WakeupOnEvent
<1> QED
  BY <1>1, <1>2, <1>3, <1>4, UnchangedTypes DEF ActivateContext

LEMMA TryDrainType == TypeOK /\ TryDrain => TypeOK'
<1> SUFFICES ASSUME TypeOK, TryDrain PROVE TypeOK'
  OBVIOUS
<1> USE DEF TypeOK
<1>1. PICK s \in DrainStates : exec' = [exec EXCEPT !.drainState = s]
  BY DEF TryDrain, DrainStates, ExecuteTypeOK
<1>2. ExecuteTypeOK'
  BY <1>1 DEF TryDrain, ExecuteTypeOK
<1>3. CycleTypeOK'
  BY DEF TryDrain, CycleTypeOK
<1>4. DrainTypeOK'
  BY DEF TryDrain, DrainTypeOK
<1> QED
  BY <1>2, <1>3, <1>4, UnchangedTypes DEF TryDrain

LEMMA DrainResumeType == TypeOK /\ DrainResume => TypeOK'
<1> SUFFICES ASSUME TypeOK, DrainResume PROVE TypeOK'
  OBVIOUS
<1> USE DEF TypeOK
<1>1. FetchTypeOK'
  BY WokenType DEF DrainResume, FetchTypeOK
<1>2. ExecuteTypeOK'
  BY DEF DrainResume, ExecuteTypeOK, DrainStates
<1>3. CycleTypeOK'
  BY DEF DrainResume, CycleTypeOK, WakeupOnEvent
<1>4. DrainTypeOK'
  BY DEF DrainResume, DrainTypeOK, WakeupOnEvent
<1> QED
  BY <1>1, <1>2, <1>3, <1>4, UnchangedTypes DEF DrainResume

LEMMA InitType == Init => TypeOK
<1> SUFFICES ASSUME Init PROVE TypeOK
  OBVIOUS
<1>1. CycleTypeOK
  BY NoBranchType DEF Init, CycleTypeOK, Phases
<1>2. BufTypeOK
  <2>1. <<>> \in Seq(Lines) /\ <<>> \in Seq(Insts) /\ <<>> \in Seq(Lines \cup Insts)
    OBVIOUS
  <2> QED
    BY <2>1 DEF Init, BufTypeOK, Stages, Buffers
<1>3. FetchTypeOK
  BY NoBranchType, AddressTypes DEF Init, FetchTypeOK, Fetch1ThreadInfo, SeqNum
<1>4. ExecuteTypeOK
  BY AddressTypes, PipelineAssumption DEF Init, ExecuteTypeOK, SeqNum, DrainStates, At
<1>5. DrainTypeOK
  BY DEF Init, DrainTypeOK
<1> QED
  BY <1>1, <1>2, <1>3, <1>4, <1>5 DEF TypeOK

LEMMA NextType == TypeOK /\ [Next]_vars => TypeOK'
<1>1. TypeOK /\ UNCHANGED vars => TypeOK'
  <2> SUFFICES ASSUME TypeOK, UNCHANGED vars PROVE TypeOK'
    OBVIOUS
  <2>1. /\ UNCHANGED <<phase, count, active, eToF1>> /\ UNCHANGED buf /\ UNCHANGED fetchVars
        /\ UNCHANGED executeVars /\ UNCHANGED drainVars
    BY Zenon DEF vars
  <2>2. CycleTypeOK'
    BY <2>1 DEF TypeOK, CycleTypeOK
  <2> QED
    BY <2>1, <2>2, UnchangedTypes DEF TypeOK
<1>2. TypeOK /\ Stage => TypeOK'
  BY BeginCycleType, SkipCommitType, TakeInterruptType, DiscardInstType, CommitInstType,
     EndCommitType, DiscardInputType, IssueInstType, EndIssueType, DummyType, DecodeType,
     Fetch2Type, Fetch1Type, AdvanceType DEF Stage
<1> QED
  BY <1>1, <1>2, FinishType, RecvTimingRespType, RecvReqRetryType, DataWakeupType,
     ActivateContextType, TryDrainType, DrainResumeType DEF Next

\* The variables keep their types, for every program and every size of the buffers
\* and limits: in particular microopPC stays within its macro-op (Decode::evaluate
\* resets it with the last micro-op it emits), and only lines reach Fetch2, only
\* instructions the stages behind it.
THEOREM TypeCorrect == Spec => []TypeOK
<1> QED
  BY InitType, NextType, PTL DEF Spec

----------------------------------------------------------------------------
(* What every action does to the buffers. *)

\* The buffer's latch, queue and reserved places.
IsBuffer(b, latch, queue, reserved) ==
    b.latch = latch /\ b.queue = queue /\ b.reserved = reserved

\* The places still reserved when the latch has been delivered.
StillReserved(b) == IF b.latch = <<>> THEN b.reserved ELSE FreeReservation(b.reserved)

LEMMA DeliveredIsBuffer ==
    ASSUME NEW X, NEW b \in Buffers(X)
    PROVE  IsBuffer(Delivered(b), <<>>, b.queue \o b.latch, StillReserved(b))
BY DeliveredType DEF IsBuffer, StillReserved

LEMMA ExceptOne ==
    ASSUME BufTypeOK, NEW s \in Stages, NEW b, buf' = [buf EXCEPT ![s] = b]
    PROVE  buf'[s] = b /\ \A u \in Stages \ {s} : buf'[u] = buf[u]
BY BufKinds

\* The input of Execute is delivered; in a drain that has halted fetch it is then
\* thrown away.
LEMMA DeliverExecute ==
    ASSUME TypeOK, BeginCycle \/ SkipCommit \/ TakeInterrupt
    PROVE  /\ \A u \in Stages \ {"execute"} : buf'[u] = buf[u]
           /\ \/ IsBuffer(buf'["execute"], <<>>, Into("execute"), StillReserved(buf["execute"]))
              \/ /\ BeginCycle /\ exec.drainState = "DrainAllInsts"
                 /\ IsBuffer(buf'["execute"], <<>>, <<>>, StillReserved(buf["execute"]))
<1> DEFINE b == Delivered(buf["execute"])
<1>1. /\ "execute" \in Stages
      /\ b \in Buffers(Insts) /\ IsBuffer(b, <<>>, Into("execute"), StillReserved(buf["execute"]))
  BY BufKinds, DeliveredType, DeliveredIsBuffer DEF TypeOK, Into
<1>2. \/ buf' = [buf EXCEPT !["execute"] = b]
      \/ /\ BeginCycle /\ exec.drainState = "DrainAllInsts"
         /\ buf' = [buf EXCEPT !["execute"] = [b EXCEPT !.queue = <<>>]]
  BY Zenon DEF BeginCycle, SkipCommit, TakeInterrupt
<1> HIDE DEF b
<1>3. CASE buf' = [buf EXCEPT !["execute"] = b]
  BY <1>1, <1>3, ExceptOne DEF TypeOK
<1>4. CASE /\ BeginCycle /\ exec.drainState = "DrainAllInsts"
           /\ buf' = [buf EXCEPT !["execute"] = [b EXCEPT !.queue = <<>>]]
  <2> DEFINE c == [b EXCEPT !.queue = <<>>]
  <2>1. IsBuffer(c, <<>>, <<>>, StillReserved(buf["execute"]))
    BY <1>1 DEF IsBuffer, Buffers
  <2>2. buf' = [buf EXCEPT !["execute"] = c]
    BY <1>4
  <2> HIDE DEF c
  <2>3. buf'["execute"] = c /\ \A u \in Stages \ {"execute"} : buf'[u] = buf[u]
    BY <1>1, <2>2, ExceptOne DEF TypeOK
  <2> QED
    BY <1>4, <2>1, <2>3
<1> QED
  BY <1>2, <1>3, <1>4

\* Execute takes an instruction from its input buffer.
LEMMA TakeInput ==
    ASSUME TypeOK, DiscardInput \/ IssueInst
    PROVE  LET b == buf["execute"]
           IN  /\ \A u \in Stages \ {"execute"} : buf'[u] = buf[u]
               /\ b.queue \in Seq(Insts) /\ b.queue # <<>>
               /\ IsBuffer(buf'["execute"], b.latch, Tail(b.queue), b.reserved)
<1> DEFINE b == buf["execute"]
           c == [b EXCEPT !.queue = Tail(@)]
<1>1. "execute" \in Stages /\ b \in Buffers(Insts)
  BY BufKinds DEF TypeOK
<1>2. b.queue # <<>> /\ b.queue \in Seq(Insts)
  BY <1>1 DEF DiscardInput, IssueInst, CanIssue, Buffers
<1>3. IsBuffer(c, b.latch, Tail(b.queue), b.reserved)
  BY <1>1 DEF IsBuffer, Buffers
<1>4. buf' = [buf EXCEPT !["execute"] = c]
  BY Zenon DEF DiscardInput, IssueInst
<1>5. buf'["execute"] = c /\ \A u \in Stages \ {"execute"} : buf'[u] = buf[u]
  <2> HIDE DEF c
  <2> QED
    BY <1>1, <1>4, ExceptOne DEF TypeOK
<1> QED
  BY <1>2, <1>3, <1>5

\* Dummy passes an instruction on, or keeps it when there is no room.
LEMMA DummyMoves ==
    ASSUME TypeOK, Dummy
    PROVE  LET d == buf["dummy"]
               e == buf["execute"]
               q == Into("dummy")
           IN  /\ \A u \in Stages \ {"dummy", "execute"} : buf'[u] = buf[u]
               /\ q \in Seq(Insts)
               /\ \/ /\ q = <<>> \/ ~CanReserve("execute")
                     /\ buf'["execute"] = e
                     /\ IsBuffer(buf'["dummy"], <<>>, q, StillReserved(d))
                  \/ /\ q # <<>> /\ CanReserve("execute")
                     /\ IsBuffer(buf'["execute"], <<Head(q)>>, e.queue, e.reserved + 1)
                     /\ IsBuffer(buf'["dummy"], <<>>, Tail(q), StillReserved(d))
<1> DEFINE b == Delivered(buf["dummy"])
           c == [b EXCEPT !.queue = Tail(@)]
           w == Written(buf["execute"], Head(b.queue))
           q == Into("dummy")
<1>1. /\ b \in Buffers(Insts) /\ IsBuffer(b, <<>>, q, StillReserved(buf["dummy"]))
      /\ buf["execute"] \in Buffers(Insts)
  BY BufKinds, DeliveredType, DeliveredIsBuffer DEF TypeOK, Into
<1>2. "dummy" \in Stages /\ "execute" \in Stages \ {"dummy"}
  BY BufKinds DEF TypeOK
<1>3. b.queue = q /\ q \in Seq(Insts)
  BY <1>1 DEF IsBuffer, Buffers
<1>4. /\ b.queue # <<>> /\ CanReserve("execute") => buf' = [buf EXCEPT !["dummy"] = c, !["execute"] = w]
      /\ ~(b.queue # <<>> /\ CanReserve("execute")) => buf' = [buf EXCEPT !["dummy"] = b]
  BY Zenon DEF Dummy
<1> HIDE DEF b, q
<1>5. CASE b.queue # <<>> /\ CanReserve("execute")
  <2>1. IsBuffer(c, <<>>, Tail(q), StillReserved(buf["dummy"]))
    BY <1>1, <1>3 DEF IsBuffer, Buffers
  <2>2. IsBuffer(w, <<Head(q)>>, buf["execute"].queue, buf["execute"].reserved + 1)
    <3>1. Head(b.queue) \in Insts
      BY <1>3, <1>5, HeadTailType
    <3>2. IsBuffer(w, <<Head(b.queue)>>, buf["execute"].queue, buf["execute"].reserved + 1)
      BY <1>1, <3>1, WrittenType DEF IsBuffer
    <3> QED
      BY <1>3, <3>2
  <2> HIDE DEF c, w
  <2>3. buf'["dummy"] = c /\ buf'["execute"] = w /\ \A u \in Stages \ {"dummy", "execute"} : buf'[u] = buf[u]
    BY <1>2, <1>4, <1>5, BufKinds DEF TypeOK
  <2> QED
    BY <1>3, <1>5, <2>1, <2>2, <2>3 DEF q
<1>6. CASE ~(b.queue # <<>> /\ CanReserve("execute"))
  <2>1. buf'["dummy"] = b /\ \A u \in Stages \ {"dummy"} : buf'[u] = buf[u]
    BY <1>2, <1>4, <1>6, ExceptOne DEF TypeOK
  <2> QED
    BY <1>1, <1>2, <1>3, <1>6, <2>1 DEF q
<1> QED
  BY <1>5, <1>6

\* The micro-op Decode emits of instruction i.
Microop(i) == [i EXCEPT !.upc = microop,
                        !.predictedTaken = @ /\ LastOp([i EXCEPT !.upc = microop])]

\* Decode emits a micro-op, and is done with its instruction with the last one.
LEMMA DecodeMoves ==
    ASSUME TypeOK, Decode
    PROVE  LET d == buf["decode"]
               e == buf["dummy"]
               q == Into("decode")
               op == Microop(Head(q))
           IN  /\ \A u \in Stages \ {"decode", "dummy"} : buf'[u] = buf[u]
               /\ q \in Seq(Insts)
               /\ \/ /\ q = <<>> \/ ~CanReserve("dummy")
                     /\ buf'["dummy"] = e
                     /\ IsBuffer(buf'["decode"], <<>>, q, StillReserved(d))
                     /\ microop' = microop
                  \/ /\ q # <<>> /\ CanReserve("dummy")
                     /\ Head(q) \in Insts /\ op \in Insts
                     /\ IsBuffer(buf'["dummy"], <<op>>, e.queue, e.reserved + 1)
                     /\ IsBuffer(buf'["decode"], <<>>, IF LastOp(op) THEN Tail(q) ELSE q,
                                 StillReserved(d))
                     /\ microop' = IF LastOp(op) THEN 0 ELSE microop + 1
<1> DEFINE b == Delivered(buf["decode"])
           q == Into("decode")
           op == Microop(Head(b.queue))
           c == IF LastOp(op) THEN [b EXCEPT !.queue = Tail(@)] ELSE b
           w == Written(buf["dummy"], op)
<1>1. /\ b \in Buffers(Insts) /\ IsBuffer(b, <<>>, q, StillReserved(buf["decode"]))
      /\ buf["dummy"] \in Buffers(Insts)
  BY BufKinds, DeliveredType, DeliveredIsBuffer DEF TypeOK, Into
<1>2. "decode" \in Stages /\ "dummy" \in Stages \ {"decode"}
  BY BufKinds DEF TypeOK
<1>3. b.queue = q /\ q \in Seq(Insts)
  BY <1>1 DEF IsBuffer, Buffers
<1>4. /\ b.queue # <<>> /\ CanReserve("dummy") =>
           /\ buf' = [buf EXCEPT !["decode"] = c, !["dummy"] = w]
           /\ microop' = NextMicroop(op)
      /\ ~(b.queue # <<>> /\ CanReserve("dummy")) =>
           buf' = [buf EXCEPT !["decode"] = b] /\ microop' = microop
  BY Zenon DEF Decode, Microop
<1>5. b.queue # <<>> => Head(b.queue) \in Insts
  BY <1>3, HeadTailType
<1> HIDE DEF b, q
<1>6. CASE b.queue # <<>> /\ CanReserve("dummy")
  <2>1. op \in Insts
    <3>1. Head(b.queue) \in Insts /\ microop \in 0..(MacroLen - 1)
      BY <1>5, <1>6 DEF TypeOK, FetchTypeOK
    <3> QED
      BY <3>1, DecodeOp, Zenon DEF Microop
  <2> HIDE DEF op
  <2>2. IsBuffer(c, <<>>, IF LastOp(op) THEN Tail(q) ELSE q, StillReserved(buf["decode"]))
    BY <1>1, <1>3 DEF IsBuffer, Buffers
  <2>3. IsBuffer(w, <<op>>, buf["dummy"].queue, buf["dummy"].reserved + 1)
    BY <1>1, <2>1, WrittenType DEF IsBuffer
  <2> HIDE DEF c, w
  <2>4. buf'["decode"] = c /\ buf'["dummy"] = w /\ \A u \in Stages \ {"decode", "dummy"} : buf'[u] = buf[u]
    BY <1>2, <1>4, <1>6, BufKinds DEF TypeOK
  <2>5. microop' = IF LastOp(op) THEN 0 ELSE microop + 1
    BY <1>4, <1>6 DEF NextMicroop
  <2>6. op = Microop(Head(q)) /\ q # <<>> /\ Head(q) \in Insts
    BY <1>3, <1>5, <1>6 DEF op
  <2> QED
    BY <1>3, <1>6, <2>1, <2>2, <2>3, <2>4, <2>5, <2>6 DEF q
<1>7. CASE ~(b.queue # <<>> /\ CanReserve("dummy"))
  <2>1. buf'["decode"] = b /\ \A u \in Stages \ {"decode"} : buf'[u] = buf[u]
    BY <1>2, <1>4, <1>7, ExceptOne DEF TypeOK
  <2> QED
    BY <1>1, <1>2, <1>3, <1>4, <1>7, <2>1 DEF q
<1> QED
  BY <1>6, <1>7

\* Fetch2 packs the first line that is left, or keeps it when there is no room.
LEMMA Fetch2Moves ==
    ASSUME TypeOK, Fetch2
    PROVE  LET d == buf["fetch2"]
               e == buf["decode"]
               l == Head(LinesLeft)
           IN  /\ \A u \in Stages \ {"fetch2", "decode"} : buf'[u] = buf[u]
               /\ \/ /\ LinesLeft = <<>> \/ ~CanReserve("decode")
                     /\ buf'["decode"] = e
                     /\ IsBuffer(buf'["fetch2"], <<>>, LinesLeft, StillReserved(d))
                     /\ fetch2' = [fetch2 EXCEPT !.havePC = HavePCNow]
                     /\ f2ToF1' = f2ToF1
                  \/ /\ LinesLeft # <<>> /\ CanReserve("decode")
                     /\ l \in Lines
                     /\ \E p \in Predictions(l) :
                          /\ p \in Branches
                          /\ f2ToF1' = [f2ToF1 EXCEPT !.in = p]
                          /\ IsBuffer(buf'["decode"], <<Predicted(l, p)>>, e.queue, e.reserved + 1)
                          /\ IsBuffer(buf'["fetch2"], <<>>,
                               IF l.fault \/ p # NoBranch THEN <<>> ELSE Tail(LinesLeft),
                               StillReserved(d))
                          /\ fetch2' = [pc |-> IF l.fault THEN PCOf(l) ELSE AfterPC(PCOf(l)),
                                        havePC |-> ~l.fault /\ ~(p # NoBranch),
                                        lastStream |-> l.stream,
                                        expectedStream |-> IF p # NoBranch THEN l.stream
                                                           ELSE fetch2.expectedStream,
                                        pred |-> IF p # NoBranch THEN p.pred ELSE fetch2.pred]
<1> DEFINE l == Head(LinesLeft)
<1>1. /\ LinesDelivered \in Buffers(Lines) /\ LinesLeft \in Seq(Lines)
      /\ IsBuffer(LinesDelivered, <<>>, Into("fetch2"), StillReserved(buf["fetch2"]))
  BY Fetch2PartTypes, BufKinds, DeliveredIsBuffer DEF TypeOK, Into, LinesDelivered
<1>2. /\ Stages = {"fetch2", "decode", "dummy", "execute"}
      /\ buf \in [Stages -> Buffers(Lines \cup Insts)]
      /\ buf["decode"] \in Buffers(Insts)
  BY BufKinds DEF TypeOK
<1>3. CASE /\ LinesLeft = <<>> \/ ~CanReserve("decode")
           /\ buf' = [buf EXCEPT !["fetch2"] = [LinesDelivered EXCEPT !.queue = LinesLeft]]
           /\ fetch2' = [fetch2 EXCEPT !.havePC = HavePCNow]
           /\ UNCHANGED f2ToF1
  <2> DEFINE c == [LinesDelivered EXCEPT !.queue = LinesLeft]
  <2>1. IsBuffer(c, <<>>, LinesLeft, StillReserved(buf["fetch2"]))
    BY <1>1 DEF IsBuffer, Buffers
  <2>2. buf' = [buf EXCEPT !["fetch2"] = c]
    BY <1>3
  <2> HIDE DEF c
  <2>3. buf'["fetch2"] = c /\ \A u \in Stages \ {"fetch2"} : buf'[u] = buf[u]
    BY <1>2, <2>2
  <2> QED
    BY <1>2, <1>3, <2>1, <2>3
<1>4. ASSUME LinesLeft # <<>>, CanReserve("decode"), NEW p \in Predictions(l),
             buf' = [buf EXCEPT
                       !["fetch2"] = [LinesDelivered EXCEPT !.queue =
                            IF l.fault \/ p # NoBranch THEN <<>> ELSE Tail(LinesLeft)],
                       !["decode"] = Written(@, Predicted(l, p))]
      PROVE  /\ l \in Lines /\ p \in Branches
             /\ \A u \in Stages \ {"fetch2", "decode"} : buf'[u] = buf[u]
             /\ IsBuffer(buf'["decode"], <<Predicted(l, p)>>, buf["decode"].queue,
                         buf["decode"].reserved + 1)
             /\ IsBuffer(buf'["fetch2"], <<>>,
                         IF l.fault \/ p # NoBranch THEN <<>> ELSE Tail(LinesLeft),
                         StillReserved(buf["fetch2"]))
  <2> DEFINE q == IF l.fault \/ p # NoBranch THEN <<>> ELSE Tail(LinesLeft)
             c == [LinesDelivered EXCEPT !.queue = q]
             w == Written(buf["decode"], Predicted(l, p))
  <2>1. l \in Lines /\ p \in Branches
    BY <1>1, <1>4, HeadTailType, PredictionsType DEF TypeOK
  <2>2. IsBuffer(c, <<>>, q, StillReserved(buf["fetch2"]))
    <3> HIDE DEF q
    <3> QED
      BY <1>1 DEF IsBuffer, Buffers
  <2>3. Predicted(l, p) \in Insts
    BY <2>1, PredictedType DEF TypeOK
  <2>4. IsBuffer(w, <<Predicted(l, p)>>, buf["decode"].queue, buf["decode"].reserved + 1)
    <3> HIDE DEF l
    <3> QED
      BY <1>2, <2>3, WrittenType DEF IsBuffer
  <2>5. buf' = [buf EXCEPT !["fetch2"] = c, !["decode"] = w]
    BY <1>4
  <2> HIDE DEF c, w
  <2>6. buf'["fetch2"] = c /\ buf'["decode"] = w /\ \A u \in Stages \ {"fetch2", "decode"} : buf'[u] = buf[u]
    BY <1>2, <2>5
  <2> QED
    BY <2>1, <2>2, <2>4, <2>6
<1> QED
  BY <1>3, <1>4, Fetch2Parts, Zenon

\* Fetch1 passes a line on, gives the place of an old one back, or neither.
LEMMA Fetch1Moves ==
    ASSUME TypeOK, NEW r, QueueStep(WithNew, r), Fetch1Result(r)
    PROVE  LET d == buf["fetch2"]
               n == d.reserved + (IF Fetching THEN 1 ELSE 0)
               x == Head(r.q)
           IN  /\ \A u \in Stages \ {"fetch2"} : buf'[u] = buf[u]
               /\ n \in Nat
               /\ Responds(r.q) => x \in Fetches
               /\ ~Responds(r.q) => IsBuffer(buf'["fetch2"], d.latch, d.queue, n)
               /\ Old(r.q) => IsBuffer(buf'["fetch2"], d.latch, d.queue,
                                       IF n = 0 THEN 0 ELSE n - 1)
               /\ Responds(r.q) /\ ~Old(r.q) =>
                    IsBuffer(buf'["fetch2"], <<LineOf(x)>>, d.queue, n)
<1> DEFINE x == Head(r.q)
           c == IF ~Responds(r.q) THEN Reserving
                ELSE IF Old(r.q) THEN ReservationFreed(Reserving)
                ELSE [Reserving EXCEPT !.latch = <<LineOf(x)>>]
           d == buf["fetch2"]
           n == d.reserved + (IF Fetching THEN 1 ELSE 0)
<1>1. "fetch2" \in Stages /\ buf' = [buf EXCEPT !["fetch2"] = c] /\ d \in Buffers(Lines)
  BY BufKinds DEF Fetch1Result, TypeOK
<1>2. buf'["fetch2"] = c /\ \A u \in Stages \ {"fetch2"} : buf'[u] = buf[u]
  <2> HIDE DEF c, d
  <2> QED
    BY <1>1, ExceptOne DEF TypeOK
<1>3. /\ Reserving \in Buffers(Lines) /\ Reserving.latch = d.latch
      /\ Reserving.queue = d.queue /\ Reserving.reserved = n
  BY Fetch1PartTypes DEF TypeOK
<1>4. n \in Nat
  BY <1>1 DEF Buffers
<1>5. Responds(r.q) => x \in Fetches
  BY HeadTailType DEF QueueStep, Responds
<1> HIDE DEF n, d, x
<1>6. Responds(r.q) => IsBuffer([Reserving EXCEPT !.latch = <<LineOf(x)>>], <<LineOf(x)>>, d.queue, n)
  BY <1>3 DEF IsBuffer, Buffers
<1>7. IsBuffer(ReservationFreed(Reserving), d.latch, d.queue, IF n = 0 THEN 0 ELSE n - 1)
  BY <1>3, FreedType DEF IsBuffer
<1>8. IsBuffer(Reserving, d.latch, d.queue, n)
  BY <1>3 DEF IsBuffer
<1>9. Old(r.q) => Responds(r.q)
  BY DEF Old
<1> QED
  BY <1>2, <1>4, <1>5, <1>6, <1>7, <1>8, <1>9 DEF n, d, x

----------------------------------------------------------------------------
(* The places reserved. *)

\* A latch is read before it is written again: when a stage writes the latch to
\* the next one, that stage has taken in what was there.
LatchesEmpty ==
    /\ phase \in {"commit", "issue", "dummy"} => buf["execute"].latch = <<>>
    /\ phase = "decode" => buf["dummy"].latch = <<>>
    /\ phase = "fetch2" => buf["decode"].latch = <<>>
    /\ phase = "fetch1" => buf["fetch2"].latch = <<>>

\* Buffer b of the given size, with n more items on their way to its latch: a
\* latch holds one item at most, so that one freeReservation is right for it.
Credit(b, n, size) ==
    /\ Len(b.latch) <= 1
    /\ b.reserved = Len(b.latch) + n
    /\ Len(b.queue) + b.reserved <= size

OnTheWay(s) == IF s = "fetch2" THEN Len(fetches) ELSE 0

CreditInv ==
    /\ LatchesEmpty
    /\ \A s \in Stages : Credit(buf[s], OnTheWay(s), Size(s))

LEMMA CreditInvImplies == TypeOK /\ CreditInv => CreditsMatch
BY DEF CreditInv, Credit, CreditsMatch, OnTheWay

LEMMA SizeType == \A s \in Stages : Size(s) \in Nat
BY PipelineAssumption DEF Size, Stages

\* Delivering the latch, and then dropping some of the queue.
LEMMA DeliveredCredit ==
    ASSUME NEW X, NEW b \in Buffers(X), NEW n \in Nat, NEW size \in Nat, Credit(b, n, size),
           NEW c, NEW q \in Seq(X), Len(q) <= Len(b.queue) + Len(b.latch),
           IsBuffer(c, <<>>, q, StillReserved(b))
    PROVE  Credit(c, n, size)
<1>1. /\ b.latch \in Seq(X) /\ b.queue \in Seq(X) /\ b.reserved \in Nat
      /\ Len(b.latch) \in Nat /\ Len(b.queue) \in Nat /\ Len(q) \in Nat
  BY DEF Buffers
<1>2. (b.latch = <<>>) <=> Len(b.latch) = 0
  BY <1>1, EmptySeq
<1>3. Len(c.latch) = 0
  <2>1. Len(<<>>) = 0 /\ c.latch = <<>>
    BY DEF IsBuffer
  <2> QED
    BY <2>1
<1>4. StillReserved(b) = n
  BY <1>1, <1>2 DEF StillReserved, FreeReservation, Credit
<1>5. c.reserved = n /\ Len(c.queue) = Len(q)
  BY <1>4 DEF IsBuffer
<1>6. Len(q) + n <= size
  <2> DEFINE l == Len(q)
             m == Len(b.queue)
             k == Len(b.latch)
  <2>1. /\ l \in Nat /\ m \in Nat /\ k \in Nat /\ b.reserved \in Nat
        /\ l <= m + k /\ b.reserved = k + n /\ m + b.reserved <= size
    BY <1>1 DEF Credit
  <2> HIDE DEF l, m, k
  <2> SUFFICES l + n <= size
    BY DEF l
  <2> QED
    BY <2>1
<1> QED
  BY <1>1, <1>3, <1>5, <1>6 DEF Credit

\* Writing an empty latch when there was room.
LEMMA WrittenCredit ==
    ASSUME NEW X, NEW b \in Buffers(X), NEW size \in Nat, Credit(b, 0, size), b.latch = <<>>,
           Len(b.queue) + b.reserved < size,
           NEW c, NEW x, IsBuffer(c, <<x>>, b.queue, b.reserved + 1)
    PROVE  Credit(c, 0, size)
<1>1. b.reserved \in Nat /\ Len(b.queue) \in Nat
  BY DEF Buffers
<1>2. Len(<<>>) = 0 /\ Len(<<x>>) = 1
  OBVIOUS
<1>3. Len(b.latch) = 0 /\ Len(c.latch) = 1 /\ Len(c.queue) = Len(b.queue) /\ c.reserved = b.reserved + 1
  BY <1>2 DEF IsBuffer
<1> DEFINE m == Len(b.queue)
           r == b.reserved
<1>4. m \in Nat /\ r \in Nat /\ r = 0 /\ m + r < size
  BY <1>1, <1>3 DEF Credit
<1>5. Len(c.latch) = 1 /\ c.reserved = r + 1 /\ Len(c.queue) = m
  BY <1>3
<1> HIDE DEF m, r
<1>6. m + (r + 1) <= size /\ r + 1 = 1
  BY <1>4
<1> QED
  BY <1>5, <1>6 DEF Credit

LEMMA JoinedLength ==
    ASSUME NEW X, NEW q \in Seq(X), NEW r \in Seq(X)
    PROVE  /\ q \o r \in Seq(X) /\ <<>> \in Seq(X)
           /\ Len(q \o r) = Len(q) + Len(r)
           /\ Len(q \o r) <= Len(q) + Len(r)
           /\ Len(<<>>) <= Len(q) + Len(r)
           /\ Len(q) + Len(r) \in Nat
<1>1. q \o r \in Seq(X) /\ <<>> \in Seq(X) /\ Len(q \o r) = Len(q) + Len(r)
  OBVIOUS
<1> DEFINE m == Len(q)
           n == Len(r)
<1>2. m \in Nat /\ n \in Nat /\ Len(<<>>) = 0
  OBVIOUS
<1> HIDE DEF m, n
<1>3. m + n <= m + n /\ 0 <= m + n /\ m + n \in Nat
  BY <1>2
<1> QED
  BY <1>1, <1>2, <1>3 DEF m, n

LEMMA TailLength ==
    ASSUME NEW X, NEW q \in Seq(X), NEW r \in Seq(X), q \o r # <<>>
    PROVE  Tail(q \o r) \in Seq(X) /\ Len(Tail(q \o r)) <= Len(q) + Len(r)
<1> DEFINE t == q \o r
           m == Len(q)
           n == Len(r)
<1>1. t \in Seq(X) /\ Len(t) = m + n /\ m \in Nat /\ n \in Nat
  OBVIOUS
<1>2. t # <<>>
  OBVIOUS
<1> HIDE DEF t, m, n
<1>3. Tail(t) \in Seq(X) /\ Len(Tail(t)) = Len(t) - 1
  BY <1>1, <1>2, HeadTailType
<1>4. (m + n) - 1 <= m + n
  BY <1>1
<1> QED
  BY <1>1, <1>3, <1>4 DEF t, m, n

LEMMA InitCredit == Init => CreditInv
<1> SUFFICES ASSUME Init PROVE CreditInv
  OBVIOUS
<1>1. TypeOK
  BY InitType
<1>2. \A s \in Stages : IsBuffer(buf[s], <<>>, <<>>, 0)
  BY DEF Init, IsBuffer
<1>3. \A s \in Stages : OnTheWay(s) = 0
  BY DEF Init, OnTheWay
<1>4. Len(<<>>) = 0
  OBVIOUS
<1>5. \A s \in Stages : Credit(buf[s], OnTheWay(s), Size(s))
  BY <1>2, <1>3, <1>4, SizeType DEF IsBuffer, Credit
<1>6. LatchesEmpty
  BY DEF Init, LatchesEmpty
<1> QED
  BY <1>5, <1>6 DEF CreditInv

\* Steps that leave the buffers and the number of fetches alone.
LEMMA CreditsUnchanged ==
    ASSUME TypeOK, CreditInv, LatchesEmpty',
           \A s \in Stages : buf'[s] = buf[s],
           Len(fetches') = Len(fetches)
    PROVE  CreditInv'
BY DEF CreditInv, OnTheWay

LEMMA ExecuteCredit ==
    ASSUME TypeOK, CreditInv, BeginCycle \/ SkipCommit \/ TakeInterrupt
    PROVE  CreditInv'
<1> DEFINE b == buf["execute"]
<1>1. /\ b \in Buffers(Insts) /\ "execute" \in Stages
      /\ Stages = {"fetch2", "decode", "dummy", "execute"}
  BY BufKinds DEF TypeOK
<1>2. b.queue \in Seq(Insts) /\ b.latch \in Seq(Insts)
  BY <1>1 DEF Buffers
<1>3. Credit(b, 0, Size("execute")) /\ Size("execute") \in Nat
  BY <1>1, SizeType DEF CreditInv, OnTheWay
<1>4. /\ Into("execute") \in Seq(Insts) /\ <<>> \in Seq(Insts)
      /\ Len(Into("execute")) <= Len(b.queue) + Len(b.latch)
      /\ Len(<<>>) <= Len(b.queue) + Len(b.latch)
  BY <1>2, JoinedLength DEF Into
<1>5. PICK q \in Seq(Insts) : /\ Len(q) <= Len(b.queue) + Len(b.latch)
                              /\ IsBuffer(buf'["execute"], <<>>, q, StillReserved(b))
  BY <1>2, <1>4, DeliverExecute
<1>6. Credit(buf'["execute"], 0, Size("execute"))
  BY <1>1, <1>3, <1>5, DeliveredCredit
<1>7. \A u \in Stages \ {"execute"} : buf'[u] = buf[u]
  BY DeliverExecute
<1>8. fetches' = fetches /\ phase' \in {"commit", "issue", "dummy"}
  BY DEF BeginCycle, SkipCommit, TakeInterrupt, fetchVars
<1>9. LatchesEmpty'
  BY <1>5, <1>8 DEF LatchesEmpty, IsBuffer
<1>10. \A s \in Stages : Credit(buf'[s], OnTheWay(s)', Size(s))
  BY <1>1, <1>6, <1>7, <1>8 DEF CreditInv, OnTheWay
<1> QED
  BY <1>9, <1>10 DEF CreditInv

LEMMA TakeInputCredit ==
    ASSUME TypeOK, CreditInv, DiscardInput \/ IssueInst
    PROVE  CreditInv'
<1> DEFINE b == buf["execute"]
<1>1. /\ b \in Buffers(Insts) /\ "execute" \in Stages
      /\ Stages = {"fetch2", "decode", "dummy", "execute"}
  BY BufKinds DEF TypeOK
<1>2. /\ \A u \in Stages \ {"execute"} : buf'[u] = buf[u]
      /\ b.queue \in Seq(Insts) /\ b.queue # <<>>
      /\ IsBuffer(buf'["execute"], b.latch, Tail(b.queue), b.reserved)
  BY TakeInput
<1>3. Credit(b, 0, Size("execute")) /\ Size("execute") \in Nat
  BY <1>1, SizeType DEF CreditInv, OnTheWay
<1>4. Len(Tail(b.queue)) = Len(b.queue) - 1 /\ Len(b.queue) \in Nat /\ b.reserved \in Nat
  BY <1>1, <1>2, HeadTailType DEF Buffers
<1>5. Credit(buf'["execute"], 0, Size("execute"))
  <2> DEFINE m == Len(b.queue)
             r == b.reserved
             k == Len(b.latch)
  <2>1. /\ Len(buf'["execute"].queue) = m - 1
        /\ buf'["execute"].reserved = r
        /\ Len(buf'["execute"].latch) = k
    BY <1>2, <1>4 DEF IsBuffer
  <2>2. m \in Nat /\ r \in Nat /\ k <= 1 /\ r = k + 0 /\ m + r <= Size("execute")
    BY <1>3, <1>4 DEF Credit
  <2> HIDE DEF m, r, k
  <2>3. (m - 1) + r <= Size("execute")
    BY <1>3, <2>2
  <2> QED
    BY <2>1, <2>2, <2>3 DEF Credit
<1>6. fetches' = fetches /\ phase = "issue" /\ phase' = phase
  BY DEF DiscardInput, IssueInst, CanIssue, fetchVars
<1>7. LatchesEmpty'
  BY <1>2, <1>6 DEF LatchesEmpty, CreditInv, IsBuffer
<1>8. \A s \in Stages : Credit(buf'[s], OnTheWay(s)', Size(s))
  BY <1>1, <1>2, <1>5, <1>6 DEF CreditInv, OnTheWay
<1> QED
  BY <1>7, <1>8 DEF CreditInv

LEMMA DummyCredit ==
    ASSUME TypeOK, CreditInv, Dummy
    PROVE  CreditInv'
<1> DEFINE d == buf["dummy"]
           e == buf["execute"]
           q == Into("dummy")
<1>1. /\ d \in Buffers(Insts) /\ e \in Buffers(Insts)
      /\ Stages = {"fetch2", "decode", "dummy", "execute"}
  BY BufKinds DEF TypeOK
<1>2. d.queue \in Seq(Insts) /\ d.latch \in Seq(Insts)
  BY <1>1 DEF Buffers
<1>3. /\ Credit(d, 0, Size("dummy")) /\ Size("dummy") \in Nat
      /\ Credit(e, 0, Size("execute")) /\ Size("execute") \in Nat
  BY <1>1, SizeType DEF CreditInv, OnTheWay
<1>4. phase = "dummy" /\ phase' = "decode" /\ fetches' = fetches
  BY DEF Dummy, fetchVars
<1>5. e.latch = <<>>
  BY <1>4 DEF CreditInv, LatchesEmpty
<1>6. q \in Seq(Insts) /\ Len(q) <= Len(d.queue) + Len(d.latch)
  BY <1>2, JoinedLength DEF Into
<1>7. q # <<>> => Tail(q) \in Seq(Insts) /\ Len(Tail(q)) <= Len(d.queue) + Len(d.latch)
  BY <1>2, <1>6, TailLength DEF Into
<1>8. /\ \A u \in Stages \ {"dummy", "execute"} : buf'[u] = buf[u]
      /\ \/ /\ buf'["execute"] = e
            /\ IsBuffer(buf'["dummy"], <<>>, q, StillReserved(d))
         \/ /\ q # <<>> /\ CanReserve("execute")
            /\ IsBuffer(buf'["execute"], <<Head(q)>>, e.queue, e.reserved + 1)
            /\ IsBuffer(buf'["dummy"], <<>>, Tail(q), StillReserved(d))
  BY DummyMoves
<1>9. Len(e.queue) + e.reserved < Size("execute") \/ ~CanReserve("execute")
  BY DEF CanReserve
<1> HIDE DEF d, e, q
<1>10. Credit(buf'["dummy"], 0, Size("dummy"))
  BY <1>1, <1>3, <1>6, <1>7, <1>8, DeliveredCredit
<1>11. Credit(buf'["execute"], 0, Size("execute"))
  BY <1>1, <1>3, <1>5, <1>8, <1>9, WrittenCredit
<1>12. LatchesEmpty'
  BY <1>4, <1>8 DEF LatchesEmpty, IsBuffer
<1>13. \A s \in Stages : Credit(buf'[s], OnTheWay(s)', Size(s))
  BY <1>1, <1>4, <1>8, <1>10, <1>11 DEF CreditInv, OnTheWay
<1> QED
  BY <1>12, <1>13 DEF CreditInv

LEMMA DecodeCredit ==
    ASSUME TypeOK, CreditInv, Decode
    PROVE  CreditInv'
<1> DEFINE d == buf["decode"]
           e == buf["dummy"]
           q == Into("decode")
<1>1. /\ d \in Buffers(Insts) /\ e \in Buffers(Insts)
      /\ Stages = {"fetch2", "decode", "dummy", "execute"}
  BY BufKinds DEF TypeOK
<1>2. d.queue \in Seq(Insts) /\ d.latch \in Seq(Insts)
  BY <1>1 DEF Buffers
<1>3. /\ Credit(d, 0, Size("decode")) /\ Size("decode") \in Nat
      /\ Credit(e, 0, Size("dummy")) /\ Size("dummy") \in Nat
  BY <1>1, SizeType DEF CreditInv, OnTheWay
<1>4. phase = "decode" /\ phase' = "fetch2" /\ fetches' = fetches
  BY DEF Decode
<1>5. e.latch = <<>>
  BY <1>4 DEF CreditInv, LatchesEmpty
<1>6. q \in Seq(Insts) /\ Len(q) <= Len(d.queue) + Len(d.latch)
  BY <1>2, JoinedLength DEF Into
<1>7. q # <<>> => Tail(q) \in Seq(Insts) /\ Len(Tail(q)) <= Len(d.queue) + Len(d.latch)
  BY <1>2, <1>6, TailLength DEF Into
<1>8. /\ \A u \in Stages \ {"decode", "dummy"} : buf'[u] = buf[u]
      /\ \/ /\ buf'["dummy"] = e
            /\ IsBuffer(buf'["decode"], <<>>, q, StillReserved(d))
         \/ /\ q # <<>> /\ CanReserve("dummy")
            /\ IsBuffer(buf'["dummy"], <<Microop(Head(q))>>, e.queue, e.reserved + 1)
            /\ \/ IsBuffer(buf'["decode"], <<>>, Tail(q), StillReserved(d))
               \/ IsBuffer(buf'["decode"], <<>>, q, StillReserved(d))
  BY DecodeMoves
<1>9. Len(e.queue) + e.reserved < Size("dummy") \/ ~CanReserve("dummy")
  BY DEF CanReserve
<1> HIDE DEF d, e, q
<1>10. Credit(buf'["decode"], 0, Size("decode"))
  BY <1>1, <1>3, <1>6, <1>7, <1>8, DeliveredCredit
<1>11. Credit(buf'["dummy"], 0, Size("dummy"))
  BY <1>1, <1>3, <1>5, <1>8, <1>9, WrittenCredit
<1>12. LatchesEmpty'
  BY <1>4, <1>8 DEF LatchesEmpty, IsBuffer
<1>13. \A s \in Stages : Credit(buf'[s], OnTheWay(s)', Size(s))
  BY <1>1, <1>4, <1>8, <1>10, <1>11 DEF CreditInv, OnTheWay
<1> QED
  BY <1>12, <1>13 DEF CreditInv

\* The lines left are no more than those that were there.
LEMMA LinesLeftLength ==
    ASSUME TypeOK
    PROVE  Len(LinesLeft) <= Len(buf["fetch2"].queue) + Len(buf["fetch2"].latch)
<1> DEFINE d == buf["fetch2"]
           m == Len(d.queue) + Len(d.latch)
<1>1. d \in Buffers(Lines) /\ LinesArrived \in Seq(Lines)
  BY BufKinds, Fetch2PartTypes DEF TypeOK
<1>2. d.queue \in Seq(Lines) /\ d.latch \in Seq(Lines)
  BY <1>1 DEF Buffers
<1>3. m \in Nat
  BY <1>2, JoinedLength
<1>4. LinesArrived = <<>> \/ LinesArrived = d.queue \o d.latch
  BY DeliveredType, BufKinds DEF LinesArrived, LinesDelivered, TypeOK
<1>5. Len(LinesArrived) = 0 \/ Len(LinesArrived) = m
  <2>1. Len(<<>>) = 0 /\ Len(d.queue \o d.latch) = m
    BY <1>2, JoinedLength
  <2> QED
    BY <1>4, <2>1
<1>6. LinesLeft = <<>> \/ \E n \in 1..Len(LinesArrived) : LinesLeft = SubSeq(LinesArrived, n, Len(LinesArrived))
  BY <1>1, WithoutOldPredictionsType DEF LinesLeft
<1>7. Len(LinesLeft) = 0 \/ \E n \in 1..Len(LinesArrived) : Len(LinesLeft) = Len(LinesArrived) - n + 1
  <2>1. \A n \in 1..Len(LinesArrived) :
          Len(SubSeq(LinesArrived, n, Len(LinesArrived))) = Len(LinesArrived) - n + 1
    BY <1>1
  <2>2. Len(<<>>) = 0
    OBVIOUS
  <2> QED
    BY <1>6, <2>1, <2>2
<1> DEFINE a == Len(LinesArrived)
           k == Len(LinesLeft)
<1>8. /\ a = 0 \/ a = m
      /\ k = 0 \/ \E n \in 1..a : k = a - n + 1
  BY <1>5, <1>7
<1> HIDE DEF m, a, k
<1>9. k <= m
  BY <1>3, <1>8
<1> QED
  BY <1>9 DEF m, k

LEMMA Fetch2Credit ==
    ASSUME TypeOK, CreditInv, Fetch2
    PROVE  CreditInv'
<1> DEFINE d == buf["fetch2"]
           e == buf["decode"]
           q == LinesLeft
           m == Len(d.queue) + Len(d.latch)
<1>1. /\ d \in Buffers(Lines) /\ e \in Buffers(Insts) /\ LinesLeft \in Seq(Lines)
      /\ Stages = {"fetch2", "decode", "dummy", "execute"}
  BY BufKinds, Fetch2PartTypes DEF TypeOK
<1>2. d.queue \in Seq(Lines) /\ d.latch \in Seq(Lines)
  BY <1>1 DEF Buffers
<1>3. /\ Credit(d, Len(fetches), Size("fetch2")) /\ Size("fetch2") \in Nat
      /\ Credit(e, 0, Size("decode")) /\ Size("decode") \in Nat
      /\ Len(fetches) \in Nat
  BY <1>1, SizeType DEF CreditInv, OnTheWay, TypeOK, FetchTypeOK
<1>4. phase = "fetch2" /\ phase' = "fetch1" /\ fetches' = fetches
  BY Fetch2Frame
<1>5. e.latch = <<>>
  BY <1>4 DEF CreditInv, LatchesEmpty
<1>6. q \in Seq(Lines) /\ Len(q) <= m
  BY <1>1, LinesLeftLength
<1>7. q # <<>> => Tail(q) \in Seq(Lines) /\ Len(Tail(q)) <= m
  <2>0. Len(q) \in Nat
    BY <1>1
  <2>1. m \in Nat
    BY <1>2, JoinedLength
  <2>2. q # <<>> => Tail(q) \in Seq(Lines) /\ Len(Tail(q)) = Len(q) - 1
    BY <1>1, HeadTailType
  <2> DEFINE k == Len(q)
  <2>3. k \in Nat /\ k <= m
    BY <1>6, <2>0
  <2> HIDE DEF k, m
  <2>4. k - 1 <= m
    BY <2>1, <2>3
  <2> QED
    BY <2>2, <2>4 DEF k
<1>8. <<>> \in Seq(Lines) /\ Len(<<>>) <= m
  BY <1>2, JoinedLength
<1>9. /\ \A u \in Stages \ {"fetch2", "decode"} : buf'[u] = buf[u]
      /\ \/ /\ buf'["decode"] = e
            /\ IsBuffer(buf'["fetch2"], <<>>, q, StillReserved(d))
         \/ /\ q # <<>> /\ CanReserve("decode")
            /\ \E i : IsBuffer(buf'["decode"], <<i>>, e.queue, e.reserved + 1)
            /\ \/ IsBuffer(buf'["fetch2"], <<>>, <<>>, StillReserved(d))
               \/ IsBuffer(buf'["fetch2"], <<>>, Tail(q), StillReserved(d))
  BY Fetch2Moves
<1>10. Len(e.queue) + e.reserved < Size("decode") \/ ~CanReserve("decode")
  BY DEF CanReserve
<1>11. PICK w \in Seq(Lines) : Len(w) <= m /\ IsBuffer(buf'["fetch2"], <<>>, w, StillReserved(d))
  BY <1>6, <1>7, <1>8, <1>9
<1> HIDE DEF e, q
<1>12. Credit(buf'["fetch2"], Len(fetches), Size("fetch2"))
  BY <1>1, <1>3, <1>11, DeliveredCredit
<1>13. Credit(buf'["decode"], 0, Size("decode"))
  BY <1>1, <1>3, <1>5, <1>9, <1>10, WrittenCredit
<1>14. LatchesEmpty'
  BY <1>4, <1>11 DEF LatchesEmpty, IsBuffer
<1> HIDE DEF d, m
<1>15. \A s \in Stages : Credit(buf'[s], OnTheWay(s)', Size(s))
  BY <1>1, <1>4, <1>9, <1>12, <1>13 DEF CreditInv, OnTheWay
<1> QED
  BY <1>14, <1>15 DEF CreditInv

LEMMA Fetch1Credit ==
    ASSUME TypeOK, CreditInv, Fetch1
    PROVE  CreditInv'
<1> DEFINE d == buf["fetch2"]
           one == IF Fetching THEN 1 ELSE 0
           n == d.reserved + one
           m == Len(d.queue)
           size == Size("fetch2")
<1>1. PICK r : QueueStep(WithNew, r) /\ Fetch1Result(r)
  BY Fetch1Parts DEF TypeOK
<1> DEFINE x == Head(r.q)
           f == Len(r.q)
           g == Len(fetches')
<1>2. /\ d \in Buffers(Lines) /\ fetches \in Seq(Fetches) /\ size \in Nat
      /\ Stages = {"fetch2", "decode", "dummy", "execute"}
  BY BufKinds, SizeType DEF TypeOK, FetchTypeOK
<1>3. m \in Nat /\ d.reserved \in Nat /\ n \in Nat
  <2>1. m \in Nat /\ d.reserved \in Nat /\ one \in Nat
    BY <1>2 DEF Buffers
  <2> HIDE DEF one, m, d
  <2> QED
    BY <2>1
<1>4. phase = "fetch1" /\ phase' = "advance"
  BY Fetch1Frame
<1>5. d.latch = <<>> /\ Len(d.latch) = 0 /\ Credit(d, Len(fetches), size)
  <2>1. Len(<<>>) = 0
    OBVIOUS
  <2> QED
    BY <1>2, <1>4, <2>1 DEF CreditInv, LatchesEmpty, OnTheWay
<1>6. r.q \in Seq(Fetches) /\ f = Len(WithNew) /\ f \in Nat
  BY <1>1 DEF QueueStep, SameFetches
<1>7. Len(WithNew) = Len(fetches) + one
  BY <1>2, Fetch1PartTypes DEF WithNew, TypeOK
<1>8. n = f /\ m + n <= size
  <2>1. /\ d.reserved = Len(fetches) /\ m + d.reserved <= size
        /\ Len(fetches) \in Nat
    BY <1>2, <1>5 DEF Credit
  <2>2. Fetching => m + d.reserved < size
    BY DEF Fetching, CanReserve
  <2> HIDE DEF m, size
  <2> QED
    BY <1>2, <1>3, <1>6, <1>7, <2>1, <2>2
<1>9. /\ ~Responds(r.q) => g = f
      /\ Responds(r.q) => g = f - 1 /\ f > 0
  <2>1. Responds(r.q) => Len(Tail(r.q)) = f - 1 /\ f \in Nat \ {0}
    BY <1>6, HeadTailType DEF Responds
  <2> QED
    BY <1>1, <2>1 DEF Fetch1Result
<1>10. /\ \A u \in Stages \ {"fetch2"} : buf'[u] = buf[u]
       /\ ~Responds(r.q) => IsBuffer(buf'["fetch2"], d.latch, d.queue, n)
       /\ Old(r.q) => IsBuffer(buf'["fetch2"], d.latch, d.queue, IF n = 0 THEN 0 ELSE n - 1)
       /\ Responds(r.q) /\ ~Old(r.q) => IsBuffer(buf'["fetch2"], <<LineOf(x)>>, d.queue, n)
       /\ Old(r.q) => Responds(r.q)
  BY <1>1, Fetch1Moves DEF Old
<1>11. Len(<<LineOf(x)>>) = 1
  OBVIOUS
<1> DEFINE c == buf'["fetch2"]
<1>12. /\ Len(c.queue) = m
       /\ ~Responds(r.q) => Len(c.latch) = 0 /\ c.reserved = n
       /\ Old(r.q) => Len(c.latch) = 0 /\ c.reserved = IF n = 0 THEN 0 ELSE n - 1
       /\ Responds(r.q) /\ ~Old(r.q) => Len(c.latch) = 1 /\ c.reserved = n
  BY <1>5, <1>10, <1>11 DEF IsBuffer
<1> HIDE DEF c, m, n, f, g, size, d
<1>13. Credit(c, g, size)
  <2> DEFINE k == Len(c.latch)
             l == c.reserved
  <2>1. /\ ~Responds(r.q) => k = 0 /\ l = n
        /\ Old(r.q) => k = 0 /\ l = IF n = 0 THEN 0 ELSE n - 1
        /\ Responds(r.q) /\ ~Old(r.q) => k = 1 /\ l = n
    BY <1>12
  <2> HIDE DEF k, l
  <2>2. k <= 1 /\ l = k + g /\ m + l <= size
    BY <1>2, <1>3, <1>6, <1>8, <1>9, <1>10, <2>1
  <2> QED
    BY <1>12, <2>2 DEF Credit, k, l
<1>14. LatchesEmpty'
  BY <1>4 DEF LatchesEmpty
<1>15. \A s \in Stages : Credit(buf'[s], OnTheWay(s)', Size(s))
  BY <1>2, <1>10, <1>13 DEF CreditInv, OnTheWay, c, g, size
<1> QED
  BY <1>14, <1>15 DEF CreditInv

LEMMA NextCredit ==
    ASSUME TypeOK, CreditInv, [Next]_vars
    PROVE  CreditInv'
<1> DEFINE Still == /\ UNCHANGED <<phase, buf>>
                    /\ Len(fetches') = Len(fetches)
<1>1. ASSUME Still PROVE CreditInv'
  <2>1. LatchesEmpty'
    BY <1>1 DEF CreditInv, LatchesEmpty
  <2> QED
    BY <1>1, <2>1, CreditsUnchanged
<1>2. CASE UNCHANGED vars \/ DiscardInst \/ CommitInst \/ DataWakeup \/ ActivateContext
           \/ TryDrain \/ DrainResume
  <2>1. UNCHANGED <<phase, buf, fetches>>
    BY <1>2, Zenon DEF vars, fetchVars, DiscardInst, CommitInst, DataWakeup, ActivateContext,
                       TryDrain, DrainResume
  <2> QED
    BY <1>1, <2>1
<1>3. CASE Finish \/ RecvTimingResp \/ RecvReqRetry
  <2>1. UNCHANGED <<phase, buf>>
    BY <1>3 DEF Finish, RecvTimingResp, RecvReqRetry
  <2>2. Len(fetches') = Len(fetches)
    BY <1>3, FetchesProgress DEF SameFetches, TypeOK
  <2> QED
    BY <1>1, <2>1, <2>2
<1>4. CASE EndCommit \/ EndIssue \/ Advance
  <2>1. UNCHANGED <<buf, fetches>>
    BY <1>4, Zenon DEF EndCommit, EndIssue, Advance, fetchVars
  <2>2. \/ phase = "commit" /\ phase' = "issue"
        \/ phase = "issue" /\ phase' = "dummy"
        \/ phase' = "between"
    BY <1>4, Zenon DEF EndCommit, EndIssue, Advance
  <2>3. LatchesEmpty'
    BY <2>1, <2>2 DEF CreditInv, LatchesEmpty
  <2> QED
    BY <2>1, <2>3, CreditsUnchanged
<1> QED
  BY <1>2, <1>3, <1>4, ExecuteCredit, TakeInputCredit, DummyCredit, DecodeCredit, Fetch2Credit,
     Fetch1Credit DEF Next, Stage

\* The places reserved in every input buffer are those of the data on its way, and
\* there is room for it: whatever the sizes of the buffers, the fetch limit and the
\* program, no push overfills a buffer (MinorBuffer's Queue::push warns and pushes
\* anyway), and no discarded fetch, line or instruction loses its place.
THEOREM CreditsAlwaysMatch == Spec => []CreditsMatch
<1>1. Init => TypeOK /\ CreditInv
  BY InitType, InitCredit
<1>2. TypeOK /\ CreditInv /\ [Next]_vars => (TypeOK /\ CreditInv)'
  BY NextType, NextCredit
<1> QED
  BY <1>1, <1>2, CreditInvImplies, PTL DEF Spec
=============================================================================
