--------------------------- MODULE MinorPipeline ----------------------------
(***************************************************************************)
(* The MinorCPU pipeline of the first programming assignment, with the     *)
(* Dummy stage added between Decode and Execute and with the degraded      *)
(* branch predictor: Fetch1, Fetch2, Decode, Dummy and Execute, the        *)
(* latches and input buffers between them, the stream and prediction       *)
(* sequence numbers that tell right-path from wrong-path work, the queues  *)
(* of line fetches with the icache's retries, the activity that keeps the  *)
(* clock running, and the drain protocol.                                  *)
(*                                                                         *)
(* A cycle is the stages of Pipeline::evaluate one after the other; phase  *)
(* says which comes next, and an iteration of Execute's commit and issue   *)
(* loops is an action of its own.  Everything that is not a stage (icache  *)
(* responses, thread activation, draining) happens between two cycles.     *)
(*                                                                         *)
(* One thread; widths and latch delays of 1, the defaults of MinorCPU.py,  *)
(* and lines of one instruction.  An instruction is what its bytes are in  *)
(* Program.  What the functional units, the memory system and the branch   *)
(* predictor do is left open: when an instruction is ready, when a line    *)
(* arrives, what is predicted and where a branch goes.  Functional units,  *)
(* scoreboard and load/store queue are MinorExecute's.                     *)
(***************************************************************************)
EXTENDS Integers, Sequences

CONSTANTS NumPCs,          \* instruction addresses 0 .. NumPCs - 1, wrapping
          Program,         \* the kind of the instruction at each address
          MacroLen,        \* micro-ops of a macro-op
          Handler,         \* where faults and interrupts go
          Fetch2Size, DecodeSize, DummySize, ExecuteSize,  \* input buffers
          FetchLimit,      \* fetch1FetchLimit
          IssueLimit, CommitLimit,
          FUSlots,         \* instructions in functional units and LSQ
          ThreadPolicy,    \* threadPolicy
          DegradePercent,  \* argument of degrade_branch_predictor
          MaxInterrupts,   \* interrupts considered
          Events           \* which external events are considered

PCs == 0..(NumPCs - 1)

Kinds == {"op", "branch", "macro", "serial", "quiesce"}

AllEvents == {"drain", "wakeup", "wakeupInDrain", "lineFault", "instFault",
              "microFault", "icacheRetry", "slowITLB"}

Stages == {"fetch2", "decode", "dummy", "execute"}

ASSUME PipelineAssumption ==
    /\ NumPCs \in Nat \ {0}
    /\ Program \in [PCs -> Kinds]
    /\ MacroLen \in Nat \ {0}
    /\ Handler \in PCs
    /\ {Fetch2Size, DecodeSize, DummySize, ExecuteSize} \subseteq Nat \ {0}
    /\ {FetchLimit, IssueLimit, CommitLimit, FUSlots} \subseteq Nat \ {0}
    /\ ThreadPolicy \in {"SingleThreaded", "RoundRobin", "Random"}
    /\ DegradePercent \in 0..100
    /\ MaxInterrupts \in Nat
    /\ Events \subseteq AllEvents

VARIABLES
    phase,      \* the part of the cycle that comes next
    count,      \* instructions committed, then issued, in this cycle
    fetch1,     \* Fetch1ThreadInfo
    fetches,    \* line fetches in transfers, then those in requests, oldest first
    icache,     \* icacheState
    buf,        \* buf[s]: latch into stage s and its inputBuffer
    fetch2,     \* Fetch2ThreadInfo
    f2ToF1,     \* the prediction latch, as written and as read in this cycle
    microop,    \* the micro-op Decode emits next (microopPC)
    inFlight,   \* inFlightInsts
    exec,       \* ExecuteThreadInfo
    eToF1,      \* the branch latch, as written and as read in this cycle
    arch,       \* the thread's pcState: instruction and micro-op
    status,     \* the thread context's status
    drain,      \* DrainManager's state
    needToSignalDrained,
    running,    \* Ticked::running
    active,     \* a stage is marked active or wrote a latch (activityRecorder)
    interrupts  \* interrupts so far

fetchVars   == <<fetch1, fetches, icache, fetch2, f2ToF1, microop>>
executeVars == <<inFlight, exec, arch, status, interrupts>>
drainVars   == <<drain, needToSignalDrained, running>>
vars == <<phase, count, active, buf, eToF1, fetchVars, executeVars, drainVars>>

Phases == {"between", "commit", "issue", "dummy", "decode", "fetch2", "fetch1", "advance"}

DrainStates == {"NotDraining", "DrainCurrentInst", "DrainHaltFetch", "DrainAllInsts"}

SeqNum == Nat   \* InstSeqNum: 64 bits, and compared only for equality

Lines == [pc : PCs, stream : SeqNum, pred : SeqNum, fault : BOOLEAN]

FetchStates == {"InTranslation", "Translated", "RequestIssuing", "Complete"}

Fetches == [pc : PCs, stream : SeqNum, pred : SeqNum, state : FetchStates, fault : BOOLEAN]

Fetch1ThreadInfo ==
    [state : {"Halted", "WaitingForPC", "Running"}, pc : PCs, stream : SeqNum,
     pred : SeqNum, wakeupGuard : BOOLEAN]

\* bytes: the address the instruction was fetched from.
Insts == [pc : PCs, bytes : PCs, upc : 0..(MacroLen - 1), stream : SeqNum,
          pred : SeqNum, fault : BOOLEAN, predictedTaken : BOOLEAN,
          predictedTarget : PCs]

\* The latch into a stage and its input buffer, for data of set X.
Buffers(X) == [latch : Seq(X), queue : Seq(X), reserved : Nat]

Reasons == {"NoBranch", "CorrectlyPredictedBranch", "UnpredictedBranch",
            "BranchPrediction", "BadlyPredictedBranchTarget",
            "BadlyPredictedBranch", "SuspendThread", "Interrupt", "HaltFetch"}

Branches == [reason : Reasons, stream : SeqNum, pred : SeqNum, target : PCs]

NoBranch == [reason |-> "NoBranch", stream |-> 0, pred |-> 0, target |-> 0]

IsStreamChange(b) == b.reason \notin {"NoBranch", "CorrectlyPredictedBranch"}

\* A word of PCState: the instruction address and the micro-op within it.
At(pc) == [pc |-> pc, upc |-> 0]

AfterPC(pc) == (pc + 1) % NumPCs

Init ==
    /\ phase = "between"
    /\ count = 0
    /\ fetch1 = [state |-> "Running", pc |-> 0, stream |-> 0, pred |-> 0,
                 wakeupGuard |-> TRUE]
    /\ fetches = <<>>
    /\ icache = "Running"
    /\ buf = [s \in Stages |-> [latch |-> <<>>, queue |-> <<>>, reserved |-> 0]]
    /\ fetch2 = [pc |-> 0, havePC |-> FALSE, lastStream |-> 0,
                 expectedStream |-> 0, pred |-> 0]
    /\ f2ToF1 = [in |-> NoBranch, out |-> NoBranch]
    /\ microop = 0
    /\ inFlight = <<>>
    /\ exec = [stream |-> 0, lastPred |-> 0, endOfMacroop |-> TRUE,
               drainState |-> "NotDraining"]
    /\ eToF1 = [in |-> NoBranch, out |-> NoBranch]
    /\ arch = At(0)
    /\ status = "Active"
    /\ drain = "Running"
    /\ needToSignalDrained = FALSE
    /\ running = TRUE
    /\ active = TRUE
    /\ interrupts = 0

----------------------------------------------------------------------------
(* Input buffers and their latches. *)

Size(s) == CASE s = "fetch2"  -> Fetch2Size
             [] s = "decode"  -> DecodeSize
             [] s = "dummy"   -> DummySize
             [] s = "execute" -> ExecuteSize

CanReserve(s) == Len(buf[s].queue) + buf[s].reserved < Size(s)

FreeReservation(n) == IF n # 0 THEN n - 1 ELSE n

\* setTail .. pushTail: what the latch delivers takes its reserved place.
Delivered(b) ==
    [latch |-> <<>>, queue |-> b.queue \o b.latch,
     reserved |-> IF b.latch = <<>> THEN b.reserved ELSE FreeReservation(b.reserved)]

\* Data written to the latch into a stage, with a place reserved for it.
Written(b, x) == [b EXCEPT !.latch = <<x>>, !.reserved = @ + 1]

----------------------------------------------------------------------------
(* Execute. *)

\* Mutant of UpdateBranchData: suspending a thread keeps its stream.
UpdateBranchDataSuspend(reason, pred, target) ==
    LET changes == reason \notin {"NoBranch", "CorrectlyPredictedBranch", "SuspendThread"}
        stream == IF changes THEN exec.stream + 1 ELSE exec.stream
    IN  [stream |-> stream,
         branch |-> IF reason = "NoBranch" THEN eToF1.in
                    ELSE [reason |-> reason, stream |-> stream, pred |-> pred,
                          target |-> target]]

\* updateBranchData: a change of stream takes a new stream number.
UpdateBranchData(reason, pred, target) ==
    LET changes == reason \notin {"NoBranch", "CorrectlyPredictedBranch"}
        stream == IF changes THEN exec.stream + 1 ELSE exec.stream
    IN  [stream |-> stream,
         branch |-> IF reason = "NoBranch" THEN eToF1.in
                    ELSE [reason |-> reason, stream |-> stream, pred |-> pred,
                          target |-> target]]

\* getCommittingThread: unless the policy is SingleThreaded, a thread with nothing
\* in flight is not looked at.
MayCommit == ThreadPolicy = "SingleThreaded" \/ inFlight # <<>>

StartCycle == phase = "between" /\ running /\ drain # "Drained"

\* The start of Execute::evaluate when the thread is chosen to commit.  A drain
\* that has halted fetch kills all input first.
BeginCycle ==
    /\ StartCycle
    /\ MayCommit
    /\ LET b == Delivered(buf["execute"])
       IN  buf' = [buf EXCEPT !["execute"] =
                     IF exec.drainState = "DrainAllInsts"
                     THEN [b EXCEPT !.queue = <<>>] ELSE b]
    /\ phase' = "commit"
    /\ count' = 0
    /\ UNCHANGED <<active, eToF1, fetchVars, executeVars, drainVars>>

\* No thread commits, because nothing is in flight or the oldest instruction is
\* not ready: nothing is done for a drain either.
SkipCommit ==
    /\ StartCycle
    /\ ThreadPolicy # "SingleThreaded"
    /\ buf' = [buf EXCEPT !["execute"] = Delivered(@)]
    /\ phase' = "issue"
    /\ count' = 0
    /\ UNCHANGED <<active, eToF1, fetchVars, executeVars, drainVars>>

\* Mutant of InbetweenInsts: macro-ops are not looked at.
InBetweenAlways == TRUE

\* isInbetweenInsts, with no memory access in flight.
InbetweenInsts == exec.endOfMacroop

\* takeInterrupt: nothing commits or issues in this cycle.
TakeInterrupt ==
    /\ StartCycle
    /\ interrupts < MaxInterrupts
    /\ status = "Active"
    /\ exec.drainState = "NotDraining"
    /\ InbetweenInsts
    /\ LET u == UpdateBranchData("Interrupt", exec.lastPred, Handler)
       IN  /\ exec'  = [exec EXCEPT !.stream = u.stream]
           /\ eToF1' = [eToF1 EXCEPT !.in = u.branch]
    /\ arch' = At(Handler)
    /\ interrupts' = interrupts + 1
    /\ buf' = [buf EXCEPT !["execute"] = Delivered(@)]
    /\ phase' = "dummy"
    /\ active' = TRUE
    /\ UNCHANGED <<count, fetchVars, inFlight, status, drainVars>>

\* isLastOpInInst, or a fault that Fetch passed on.
LastOp(i) == i.fault \/ Program[i.bytes] # "macro" \/ i.upc = MacroLen - 1

\* What executing the instruction may do to the thread's PC: next is the PC after
\* it, must that the PC was changed (or fetch has to start again), fault that a
\* fault was invoked.
Outcomes(i) ==
    LET follow == IF LastOp(i) THEN At(AfterPC(i.pc))
                  ELSE [pc |-> i.pc, upc |-> i.upc + 1]
        faulted == [next |-> At(Handler), must |-> TRUE, fault |-> TRUE]
        kind == Program[i.bytes]
    IN  IF i.fault THEN {faulted}
        ELSE {[next |-> follow, must |-> kind = "serial", fault |-> FALSE]}
             \cup {[next |-> At(t), must |-> TRUE, fault |-> FALSE] :
                     t \in IF kind = "branch" THEN PCs ELSE {}}
             \cup {o \in {faulted} :
                     IF LastOp(i) THEN "instFault" \in Events
                                  ELSE "microFault" \in Events}

\* degrade_branch_predictor: a draw from [0, 100] against the percentage.
DegradeDraws ==
    IF DegradePercent = 0 THEN {FALSE}
    ELSE IF DegradePercent = 100 THEN {TRUE} ELSE BOOLEAN

\* tryToBranch: the reasons for which the instruction may branch.
BranchReasons(i, o) ==
    IF i.predictedTaken
    THEN IF ~o.must THEN {"BadlyPredictedBranch"}
         ELSE IF o.next = At(i.predictedTarget)
         THEN {IF d THEN "CorrectlyPredictedBranch" ELSE "BadlyPredictedBranch" :
                 d \in DegradeDraws}
         ELSE {"BadlyPredictedBranchTarget"}
    ELSE IF o.must THEN {"UnpredictedBranch"} ELSE {"NoBranch"}

\* The commit loop goes on to the head of inFlightInsts: no change of stream yet,
\* the limit not reached, and, in a drain, the current macro-op not finished.
CanCommit ==
    /\ phase = "commit"
    /\ inFlight # <<>>
    /\ ~IsStreamChange(eToF1.in)
    /\ count < CommitLimit
    /\ exec.drainState # "DrainHaltFetch"
    /\ exec.drainState = "DrainCurrentInst" => ~exec.endOfMacroop

\* Mutant of Discardable: the stream is not compared.
DiscardableInDrain(i) == exec.drainState = "DrainAllInsts"

\* An instruction of an old stream, or any when all input is being drained.
Discardable(i) == i.stream # exec.stream \/ exec.drainState = "DrainAllInsts"

\* An instruction leaves inFlightInsts.
Complete(i, stream) ==
    /\ inFlight' = Tail(inFlight)
    /\ exec' = [exec EXCEPT !.stream = stream, !.lastPred = i.pred,
                            !.endOfMacroop = LastOp(i)]

DiscardInst ==
    /\ CanCommit
    /\ Discardable(Head(inFlight))
    /\ Complete(Head(inFlight), exec.stream)
    /\ UNCHANGED <<phase, count, active, buf, eToF1, fetchVars, arch, status, interrupts, drainVars>>

\* commitInst, with the branch and the suspension it may lead to.
CommitInst ==
    LET i == Head(inFlight)
    IN  /\ CanCommit
        /\ ~Discardable(i)
        /\ \E o \in Outcomes(i) : \E r \in BranchReasons(i, o) :
             LET suspends == Program[i.bytes] = "quiesce" /\ ~o.fault
                 u == IF suspends
                      THEN UpdateBranchData("SuspendThread", i.pred, o.next.pc)
                      ELSE UpdateBranchData(r, i.pred, o.next.pc)
             IN  /\ Program[i.bytes] = "quiesce" /\ ~i.fault => eToF1.in = NoBranch
                 /\ Complete(i, u.stream)
                 /\ eToF1' = [eToF1 EXCEPT !.in = u.branch]
                 /\ arch' = o.next
                 /\ status' = IF suspends THEN "Suspended" ELSE status
                 /\ count' = IF o.fault THEN CommitLimit ELSE count + 1
        /\ UNCHANGED <<phase, active, buf, fetchVars, interrupts, drainVars>>

\* The rest of the commit half of evaluate.  While the current instruction is
\* being drained its branch is thrown away; then fetch is told to halt.
EndCommit ==
    LET state == IF exec.drainState = "DrainCurrentInst" /\ InbetweenInsts
                 THEN "DrainHaltFetch" ELSE exec.drainState
        halt == UpdateBranchData("HaltFetch", exec.lastPred, 0)
    IN  /\ phase = "commit"
        /\ IF state = "DrainHaltFetch"
           THEN /\ exec'  = [exec EXCEPT !.stream = halt.stream,
                                         !.drainState = "DrainAllInsts"]
                /\ eToF1' = [eToF1 EXCEPT !.in = halt.branch]
           ELSE /\ eToF1' = IF state = "DrainCurrentInst"
                            THEN [eToF1 EXCEPT !.in = NoBranch] ELSE eToF1
                /\ UNCHANGED exec
        /\ phase' = "issue"
        /\ count' = 0
        /\ active' = (active \/ state = "DrainHaltFetch")
        /\ UNCHANGED <<buf, fetchVars, inFlight, arch, status, interrupts, drainVars>>

\* issue throws away what is not of the current stream or of a suspended thread.
NotIssuable(i) == status = "Suspended" \/ i.stream # exec.stream

CanIssue == phase = "issue" /\ buf["execute"].queue # <<>> /\ count < IssueLimit

DiscardInput ==
    /\ CanIssue
    /\ NotIssuable(Head(buf["execute"].queue))
    /\ buf' = [buf EXCEPT !["execute"].queue = Tail(@)]
    /\ UNCHANGED <<phase, count, active, eToF1, fetchVars, executeVars, drainVars>>

IssueInst ==
    LET i == Head(buf["execute"].queue)
    IN  /\ CanIssue
        /\ ~NotIssuable(i)
        /\ Len(inFlight) < FUSlots
        /\ inFlight' = Append(inFlight, i)
        /\ buf' = [buf EXCEPT !["execute"].queue = Tail(@)]
        /\ count' = count + 1
        /\ UNCHANGED <<phase, active, eToF1, fetchVars, exec, arch, status, interrupts, drainVars>>

\* Whether Execute keeps the clock running (need_to_tick, or a branch in its
\* latch).  With instructions in flight it may not: when they wait for memory.
ExecuteActive ==
    IF \/ count # 0
       \/ eToF1.in # NoBranch
       \/ (inFlight = <<>> /\ buf["execute"].queue # <<>>)
    THEN {TRUE}
    ELSE IF inFlight # <<>> THEN BOOLEAN ELSE {FALSE}

\* The loop ends on an instruction that no unit can take, or at the limit.
EndIssue ==
    /\ phase = "issue"
    /\ CanIssue /\ count = 0 => ~NotIssuable(Head(buf["execute"].queue))
    /\ phase' = "dummy"
    /\ \E a \in ExecuteActive : active' = (active \/ a)
    /\ UNCHANGED <<count, buf, eToF1, fetchVars, executeVars, drainVars>>

----------------------------------------------------------------------------
(* Dummy and Decode.  A stage that writes the latch to the next one is active; *)
(* one that has input left and somewhere to put it has always written it.      *)

\* Dummy::evaluate: what reaches it is no macro-op, so it only passes it on.
Dummy ==
    LET b == Delivered(buf["dummy"])
        outputs == b.queue # <<>> /\ CanReserve("execute")
    IN  /\ phase = "dummy"
        /\ phase' = "decode"
        /\ active' = (active \/ outputs)
        /\ buf' = IF outputs
                  THEN [buf EXCEPT !["dummy"] = [b EXCEPT !.queue = Tail(@)],
                                   !["execute"] = Written(@, Head(b.queue))]
                  ELSE [buf EXCEPT !["dummy"] = b]
        /\ UNCHANGED <<count, eToF1, fetchVars, executeVars, drainVars>>

\* Mutant of NextMicroop: the last micro-op does not start again.
MicroopNotReset(op) == microop + 1

\* microopPC after micro-op op was emitted.
NextMicroop(op) == IF LastOp(op) THEN 0 ELSE microop + 1

\* Decode::evaluate: a macro-op is taken apart, one micro-op in a cycle; only the
\* last one carries the prediction.
Decode ==
    LET b == Delivered(buf["decode"])
        i == Head(b.queue)
        op == [i EXCEPT !.upc = microop,
                        !.predictedTaken = @ /\ LastOp([i EXCEPT !.upc = microop])]
        outputs == b.queue # <<>> /\ CanReserve("dummy")
    IN  /\ phase = "decode"
        /\ phase' = "fetch2"
        /\ active' = (active \/ outputs)
        /\ IF outputs
           THEN /\ buf' = [buf EXCEPT
                             !["decode"] = IF LastOp(op)
                                           THEN [b EXCEPT !.queue = Tail(@)] ELSE b,
                             !["dummy"] = Written(@, op)]
                /\ microop' = NextMicroop(op)
           ELSE /\ buf' = [buf EXCEPT !["decode"] = b]
                /\ UNCHANGED microop
        /\ UNCHANGED <<count, eToF1, fetch1, fetches, icache, fetch2, f2ToF1, executeVars, drainVars>>

----------------------------------------------------------------------------
(* Fetch2. *)

\* Mutant of OldPrediction: the stream is not looked at.
OldPredictionAnyStream(l) == l.pred # fetch2.pred

\* A line of the stream Fetch2 last predicted in, but of an older prediction.
OldPrediction(l) == l.stream = fetch2.expectedStream /\ l.pred # fetch2.pred

\* The lines left when the old predictions at the head are discarded.
WithoutOldPredictions(q) ==
    LET kept == {n \in 1..Len(q) : ~OldPrediction(q[n])}
    IN  IF kept = {} THEN <<>>
        ELSE SubSeq(q, CHOOSE n \in kept : \A m \in kept : n <= m, Len(q))

\* The instruction packed from line l; its address is Fetch2's, its bytes the line's.
InstOf(l, pc) ==
    [pc |-> pc, bytes |-> l.pc, upc |-> 0, stream |-> l.stream,
     pred |-> fetch2.pred, fault |-> l.fault, predictedTaken |-> FALSE,
     predictedTarget |-> 0]

\* predictBranch: nothing, or a taken branch to anywhere.
Predictions(l) ==
    {NoBranch} \cup
    {[reason |-> "BranchPrediction", stream |-> l.stream,
      pred |-> fetch2.pred + 1, target |-> t] :
        t \in IF ~l.fault /\ Program[l.pc] = "branch" THEN PCs ELSE {}}

\* Mutant of HavePCAfter: a predicted branch does not end the run of PCs.
HavePCAfterBranch(l, taken) == ~l.fault

\* Whether Fetch2 goes on counting its own PC after line l.
HavePCAfter(l, taken) == ~l.fault /\ ~taken

\* Fetch2::evaluate.  branchIn: dump everything.  A line that gives a fault or a
\* predicted branch dumps all the lines behind it.
Fetch2 ==
    LET b == Delivered(buf["fetch2"])
        arrived == IF IsStreamChange(eToF1.out) THEN <<>> ELSE b.queue
        queue == WithoutOldPredictions(arrived)
        havePC == /\ fetch2.havePC
                  /\ ~IsStreamChange(eToF1.out)
                  /\ queue = arrived
        l == Head(queue)
        pc == IF ~havePC \/ fetch2.lastStream # l.stream THEN l.pc ELSE fetch2.pc
        outputs == queue # <<>> /\ CanReserve("decode")
    IN  /\ phase = "fetch2"
        /\ phase' = "fetch1"
        /\ active' = (active \/ outputs)
        /\ IF ~outputs
           THEN /\ buf' = [buf EXCEPT !["fetch2"] = [b EXCEPT !.queue = queue]]
                /\ fetch2' = [fetch2 EXCEPT !.havePC = havePC]
                /\ UNCHANGED f2ToF1
           ELSE \E p \in Predictions(l) :
                LET taken == p # NoBranch
                IN  /\ f2ToF1' = [f2ToF1 EXCEPT !.in = p]
                    /\ buf' = [buf EXCEPT
                         !["fetch2"] = [b EXCEPT !.queue =
                                          IF l.fault \/ taken THEN <<>> ELSE Tail(queue)],
                         !["decode"] = Written(@, [InstOf(l, pc) EXCEPT
                                          !.predictedTaken = taken,
                                          !.predictedTarget = p.target])]
                    /\ fetch2' = [pc |-> IF l.fault THEN pc ELSE AfterPC(pc),
                                  havePC |-> HavePCAfter(l, taken),
                                  lastStream |-> l.stream,
                                  expectedStream |-> IF taken THEN l.stream
                                                     ELSE fetch2.expectedStream,
                                  pred |-> IF taken THEN p.pred ELSE fetch2.pred]
        /\ UNCHANGED <<count, eToF1, fetch1, fetches, icache, microop, executeVars, drainVars>>

----------------------------------------------------------------------------
(* Fetch1. *)

\* Mutant of ChangeStream: the wakeup guard is not looked at.
ChangeStreamUnguarded(f, b) ==
    [f EXCEPT !.stream = b.stream, !.pred = b.pred, !.pc = b.target,
              !.state = CASE b.reason = "SuspendThread" -> "WaitingForPC"
                          [] b.reason = "HaltFetch" -> "Halted"
                          [] OTHER -> "Running"]

\* changeStream.
ChangeStream(f, b) ==
    [f EXCEPT !.stream = b.stream, !.pred = b.pred, !.pc = b.target,
              !.state = CASE b.reason = "SuspendThread" ->
                               IF f.wakeupGuard THEN @ ELSE "WaitingForPC"
                          [] b.reason = "HaltFetch" -> "Halted"
                          [] OTHER -> "Running"]

\* The branches Fetch1 acts on: Execute's before Fetch2's, none when halted, and
\* a prediction only if it was made in the current stream.
AfterBranches(f) ==
    LET e == eToF1.out
        p == f2ToF1.out
    IN  IF f.state = "Halted" THEN f
        ELSE IF IsStreamChange(e) THEN ChangeStream(f, e)
        ELSE IF IsStreamChange(p) /\ p.stream = f.stream THEN ChangeStream(f, p)
        ELSE f

OldFetch(f, x) == x.stream # f.stream \/ x.pred # f.pred

InRequests(x) == x.state \in {"InTranslation", "Translated"}

\* The front of the requests queue, 0 when it is empty.
FrontRequest(q) ==
    LET waiting == {n \in 1..Len(q) : InRequests(q[n])}
    IN  IF waiting = {} THEN 0 ELSE CHOOSE n \in waiting : \A m \in waiting : n <= m

\* tryToSend: the icache takes fetch n, or refuses it and will ask for a retry.
TryToSend(q, n) ==
    {[q |-> [q EXCEPT ![n].state = "RequestIssuing"], icache |-> "Running", wakes |-> FALSE]}
    \cup {[q |-> q, icache |-> "NeedsRetry", wakes |-> FALSE] :
            x \in Events \cap {"icacheRetry"}}

\* tryToSendToTransfers, for fetch n.  Old and faulting fetches go to transfers
\* without asking the icache; as no event will follow, Fetch1 stays active.
TryToSendToTransfers(f, q, n, ic) ==
    LET stay == {[q |-> q, icache |-> ic, wakes |-> FALSE]}
    IN  IF FrontRequest(q) # n \/ q[n].state # "Translated" THEN stay
        ELSE IF OldFetch(f, q[n]) \/ q[n].fault
        THEN {[q |-> [q EXCEPT ![n].state = "Complete"], icache |-> ic, wakes |-> TRUE]}
        ELSE TryToSend(q, n)

\* handleTLBResponse for fetch n, and the activity FetchRequest::finish notes.
FinishTranslation(f, q, n, ic) ==
    {[r EXCEPT !.wakes = TRUE] :
       r \in UNION {TryToSendToTransfers(f, [q EXCEPT ![n].state = "Translated",
                                                     ![n].fault = x], n, ic) :
                      x \in {FALSE} \cup {y \in {TRUE} : "lineFault" \in Events}}}

\* fetchLine: the ITLB may answer at once or later.
FetchLine(f, q, ic) ==
    LET new == [pc |-> f.pc, stream |-> f.stream, pred |-> f.pred,
                state |-> "InTranslation", fault |-> FALSE]
        all == Append(q, new)
    IN  FinishTranslation(f, all, Len(all), ic)
        \cup {[q |-> all, icache |-> ic, wakes |-> FALSE] : x \in Events \cap {"slowITLB"}}

\* stepQueues.
StepQueues(f, r) ==
    IF r.icache = "NeedsRetry" \/ FrontRequest(r.q) = 0 THEN {r}
    ELSE {[t EXCEPT !.wakes = @ \/ r.wakes] :
            t \in TryToSendToTransfers(f, r.q, FrontRequest(r.q), r.icache)}

\* Mutant of ReservationFreed: the place is lost.
ReservationLeaked(b) == b

\* The place of a line that is thrown away is given back.
ReservationFreed(b) == [b EXCEPT !.reserved = FreeReservation(@)]

\* Fetch1::evaluate: branches, a new fetch, the queues, the oldest response.
Fetch1 ==
    LET f == AfterBranches(fetch1)
        fetching == /\ Len(fetches) < FetchLimit
                    /\ status = "Active"
                    /\ CanReserve("fetch2")
                    /\ f.state = "Running"
        g == IF fetching THEN [f EXCEPT !.pc = AfterPC(f.pc)] ELSE f
        b == [buf["fetch2"] EXCEPT !.reserved = @ + (IF fetching THEN 1 ELSE 0)]
        fetched == IF fetching THEN FetchLine(f, fetches, icache)
                   ELSE {[q |-> fetches, icache |-> icache, wakes |-> FALSE]}
    IN  /\ phase = "fetch1"
        /\ phase' = "advance"
        /\ \E r \in UNION {StepQueues(g, t) : t \in fetched} :
             LET x == Head(r.q)
                 responds == r.q # <<>> /\ Head(r.q).state = "Complete"
                 old == responds /\ OldFetch(g, x)
             IN  /\ fetches' = IF responds THEN Tail(r.q) ELSE r.q
                 /\ icache' = r.icache
                 /\ active' = (active \/ r.wakes \/ responds)
                 /\ buf' = [buf EXCEPT !["fetch2"] =
                      IF ~responds THEN b
                      ELSE IF old THEN ReservationFreed(b)
                      ELSE [b EXCEPT !.latch = <<[pc |-> x.pc, stream |-> x.stream,
                                                  pred |-> x.pred, fault |-> x.fault]>>]]
                 /\ fetch1' = [g EXCEPT !.wakeupGuard = FALSE,
                                 !.state = IF responds /\ ~old /\ x.fault
                                           THEN "WaitingForPC" ELSE @]
        /\ UNCHANGED <<count, eToF1, fetch2, f2ToF1, microop, executeVars, drainVars>>

\* wakeupFetch.
Woken(f) == [f EXCEPT !.pc = arch.pc, !.state = "Running", !.wakeupGuard = TRUE]

----------------------------------------------------------------------------
(* The end of the cycle, draining and the outside world. *)

\* isDrained: every stage and every latch but eToF1.
IsDrained(predictions) ==
    /\ fetch1.state # "Running"
    /\ fetches = <<>>
    /\ \A s \in Stages : buf[s].latch = <<>> /\ buf[s].queue = <<>>
    /\ predictions = NoBranch
    /\ inFlight = <<>>

\* The pipeline may become idle: nothing left to do and no drain to finish.
Idle == ~active /\ ~needToSignalDrained

\* The latches step; the clock stops when the pipeline is idle, or a drain is over
\* and has been signalled.
Advance ==
    LET drained == needToSignalDrained /\ IsDrained(f2ToF1.in)
    IN  /\ phase = "advance"
        /\ phase' = "between"
        /\ f2ToF1' = [in |-> NoBranch, out |-> f2ToF1.in]
        /\ eToF1'  = [in |-> NoBranch, out |-> eToF1.in]
        /\ needToSignalDrained' = (needToSignalDrained /\ ~drained)
        /\ running' = (~Idle /\ ~drained)
        /\ active' = FALSE
        /\ UNCHANGED <<count, buf, fetch1, fetches, icache, fetch2, microop, executeVars, drain>>

\* Mutant of WakeupOnEvent: the stage is marked, the clock not started.
MarkStageOnly == UNCHANGED running /\ active' = TRUE

\* wakeupOnEvent.
WakeupOnEvent == running' = TRUE /\ active' = TRUE

Outside == phase = "between" /\ drain # "Drained"

\* The ITLB answers a fetch.
Finish ==
    /\ Outside
    /\ \E n \in 1..Len(fetches) :
         /\ fetches[n].state = "InTranslation"
         /\ \E r \in FinishTranslation(fetch1, fetches, n, icache) :
              fetches' = r.q /\ icache' = r.icache
    /\ WakeupOnEvent
    /\ UNCHANGED <<phase, count, buf, eToF1, fetch1, fetch2, f2ToF1, microop, executeVars,
                   drain, needToSignalDrained>>

\* The icache answers a fetch.
RecvTimingResp ==
    /\ Outside
    /\ \E n \in 1..Len(fetches) :
         /\ fetches[n].state = "RequestIssuing"
         /\ fetches' = [fetches EXCEPT ![n].state = "Complete"]
    /\ WakeupOnEvent
    /\ UNCHANGED <<phase, count, buf, eToF1, fetch1, icache, fetch2, f2ToF1, microop,
                   executeVars, drain, needToSignalDrained>>

\* The icache asks for the refused fetch again, and may refuse it again.  Fetch1
\* is not woken.
RecvReqRetry ==
    /\ Outside
    /\ icache = "NeedsRetry"
    /\ \E r \in TryToSend(fetches, FrontRequest(fetches)) :
         fetches' = r.q /\ icache' = r.icache
    /\ UNCHANGED <<phase, count, active, buf, eToF1, fetch1, fetch2, f2ToF1, microop,
                   executeVars, drainVars>>

\* The memory system answers or retries an access of Execute that its clock was
\* stopped for.
DataWakeup ==
    /\ Outside
    /\ ~running
    /\ inFlight # <<>>
    /\ WakeupOnEvent
    /\ UNCHANGED <<phase, count, buf, eToF1, fetchVars, executeVars, drain, needToSignalDrained>>

\* Another agent activates the suspended thread.
ActivateContext ==
    /\ Outside
    /\ "wakeup" \in Events
    /\ drain = "Running" \/ "wakeupInDrain" \in Events
    /\ status = "Suspended"
    /\ status' = "Active"
    /\ fetch1' = Woken(fetch1)
    /\ WakeupOnEvent
    /\ UNCHANGED <<phase, count, buf, eToF1, fetches, icache, fetch2, f2ToF1, microop,
                   inFlight, exec, arch, interrupts, drain, needToSignalDrained>>

\* DrainManager::tryDrain asks every object; the others may or may not be
\* drained.  Once the CPU has signalled, it is asked again.
TryDrain ==
    /\ phase = "between"
    /\ "drain" \in Events
    /\ drain # "Drained"
    /\ ~needToSignalDrained
    /\ exec' = [exec EXCEPT !.drainState =
                  IF @ # "NotDraining" THEN @
                  ELSE IF InbetweenInsts THEN "DrainHaltFetch"
                  ELSE "DrainCurrentInst"]
    /\ running' = (running \/ exec.drainState = "NotDraining")
    /\ active' = (active \/ exec.drainState = "NotDraining")
    /\ LET drained == IsDrained(f2ToF1.out)
       IN  /\ needToSignalDrained' = ~drained
           /\ \E others \in BOOLEAN :
                drain' = IF drained /\ others THEN "Drained" ELSE "Draining"
    /\ UNCHANGED <<phase, count, buf, eToF1, fetchVars, inFlight, arch, status, interrupts>>

\* DrainManager::resume and MinorCPU::drainResume, which wakes a suspended thread.
DrainResume ==
    /\ phase = "between"
    /\ drain = "Drained"
    /\ drain' = "Running"
    /\ status' = "Active"
    /\ fetch1' = Woken(fetch1)
    /\ exec' = [exec EXCEPT !.drainState = "NotDraining"]
    /\ WakeupOnEvent
    /\ UNCHANGED <<phase, count, buf, eToF1, fetches, icache, fetch2, f2ToF1, microop,
                   inFlight, arch, interrupts, needToSignalDrained>>

----------------------------------------------------------------------------
Stage ==
    \/ BeginCycle \/ SkipCommit \/ TakeInterrupt
    \/ DiscardInst \/ CommitInst \/ EndCommit
    \/ DiscardInput \/ IssueInst \/ EndIssue
    \/ Dummy \/ Decode \/ Fetch2 \/ Fetch1 \/ Advance

Next ==
    \/ Stage
    \/ Finish \/ RecvTimingResp \/ RecvReqRetry \/ DataWakeup
    \/ ActivateContext \/ TryDrain \/ DrainResume

Spec == Init /\ [][Next]_vars

\* The clock ticks while it runs; ITLB, caches and memory answer, and a refused
\* fetch is taken in the end; an instruction at the head of inFlightInsts comes to
\* the end of its functional unit, and a unit to take the next one becomes free,
\* again and again.
Fairness ==
    /\ WF_vars(Stage)
    /\ SF_vars(Finish)
    /\ SF_vars(RecvTimingResp)
    /\ SF_vars(RecvReqRetry /\ icache' = "Running")
    /\ WF_vars(DataWakeup)
    /\ SF_vars(BeginCycle)
    /\ SF_vars(CommitInst)
    /\ SF_vars(DiscardInst)
    /\ SF_vars(IssueInst)

FairSpec == Spec /\ Fairness

----------------------------------------------------------------------------
(* Properties. *)

CycleTypeOK ==
    /\ phase \in Phases
    /\ count \in Nat
    /\ active \in BOOLEAN
    /\ eToF1 \in [in : Branches, out : Branches]

BufTypeOK ==
    /\ buf \in [Stages -> Buffers(Lines \cup Insts)]
    /\ buf["fetch2"] \in Buffers(Lines)
    /\ \A s \in Stages \ {"fetch2"} : buf[s] \in Buffers(Insts)

FetchTypeOK ==
    /\ fetch1 \in Fetch1ThreadInfo
    /\ fetches \in Seq(Fetches)
    /\ icache \in {"Running", "NeedsRetry"}
    /\ fetch2 \in [pc : PCs, havePC : BOOLEAN, lastStream : SeqNum,
                   expectedStream : SeqNum, pred : SeqNum]
    /\ f2ToF1 \in [in : Branches, out : Branches]
    /\ microop \in 0..(MacroLen - 1)

ExecuteTypeOK ==
    /\ inFlight \in Seq(Insts)
    /\ exec \in [stream : SeqNum, lastPred : SeqNum, endOfMacroop : BOOLEAN,
                 drainState : DrainStates]
    /\ arch \in [pc : PCs, upc : 0..(MacroLen - 1)]
    /\ status \in {"Active", "Suspended"}
    /\ interrupts \in 0..MaxInterrupts

DrainTypeOK ==
    /\ drain \in {"Running", "Draining", "Drained"}
    /\ needToSignalDrained \in BOOLEAN
    /\ running \in BOOLEAN

\* The types of the variables.
TypeOK == CycleTypeOK /\ BufTypeOK /\ FetchTypeOK /\ ExecuteTypeOK /\ DrainTypeOK

ISA == INSTANCE MinorISA
         WITH NumPCs <- NumPCs, Program <- Program, MacroLen <- MacroLen,
              Handler <- Handler, arch <- arch, status <- status

\* Whatever is predicted, however predictions are degraded, whatever is fetched
\* down wrong paths and whenever the CPU is drained, the thread's PC and status
\* change as if instructions ran one by one.
ImplementsISA == ISA!Spec

\* The instruction that commits next is the one at the thread's PC, made of the
\* bytes at that address.  Nothing in Execute checks this: commitInst sets the
\* thread's PC to the instruction's, so that a wrong-path instruction, or one for
\* which Fetch2's own PC (havePC, lastStreamSeqNum) had parted from the address
\* of its line, would run unnoticed.
CommitsNextInst ==
    LET i == Head(inFlight)
    IN  inFlight # <<>> /\ ~Discardable(i)
          => /\ arch = [pc |-> i.pc, upc |-> i.upc]
             /\ i.fault \/ i.bytes = i.pc

\* The places reserved in an input buffer are exactly those of the data on its
\* way, and there is room for all of it: Queue::push never overfills ("pushing
\* anyway"), and no place is lost for good, also when fetches are discarded.
CreditsMatch ==
    \A s \in Stages :
      LET onTheWay == Len(buf[s].latch) + (IF s = "fetch2" THEN Len(fetches) ELSE 0)
      IN  /\ buf[s].reserved = onTheWay
          /\ Len(buf[s].queue) + buf[s].reserved <= Size(s)

\* The panic of commitInst is not reached: no instruction commits while the
\* thread is suspended, because suspending it changed the stream.
SuspendedNeverCommits ==
    status = "Suspended" /\ inFlight # <<>> => Discardable(Head(inFlight))

\* Interrupts are taken between instructions, also after parts of a macro-op were
\* discarded from the functional units or before they got there.
InterruptsBetweenInsts == [][TakeInterrupt => arch.upc = 0]_vars

\* A drain, once asked for, is over in the end: the pipeline empties itself.
DrainCompletes == []<>(~needToSignalDrained)

\* While the thread is active and the system not drained, instructions commit
\* for ever: no wrong-path work, full buffer, discarded fetch or lost wakeup
\* stops it.
ThreadAdvances ==
    []<><<CommitInst>>_vars \/ []<>(status = "Suspended" \/ drain # "Running")
=============================================================================
