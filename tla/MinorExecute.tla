---------------------------- MODULE MinorExecute ----------------------------
(***************************************************************************)
(* MinorCPU's Execute stage around its load/store queue: issue in order    *)
(* with the scoreboard, memory accesses that go to the queue before older  *)
(* instructions have committed, commit in order, memory barriers, changes  *)
(* of stream, interrupts, draining, and the decision to let the clock      *)
(* stop.  MinorPipeline has the rest of the pipeline, and leaves open what *)
(* is detailed here.                                                       *)
(*                                                                         *)
(* prog is what reaches issue in the current stream, instruction after     *)
(* instruction: when the stream changes, those that were issued are        *)
(* discarded and the next ones are of the new stream.  Every instruction   *)
(* is one micro-op.  The time an instruction spends in its functional unit *)
(* is left open.                                                           *)
(***************************************************************************)
EXTENDS MinorLSQ

CONSTANTS Scenarios,         \* programs, each with the events considered with it
          Regs,              \* registers the scoreboard tracks
          IssueLimit, MemoryIssueLimit, CommitLimit, MemoryCommitLimit,
          MaxInFlight,       \* instructions in flight
          AllowEarlyMemoryIssue,
          ThreadPolicy,
          MaxUpsets          \* interrupts and drains considered

InstKinds == {"op", "branch", "load", "store", "ioLoad", "ioStore", "barrier"}

\* An access has at least one fragment.
Instructions ==
    {i \in [kind : InstKinds, lines : Seq(Addrs), srcs : SUBSET Regs, dests : SUBSET Regs] :
       i.lines = <<>> <=> i.kind \in {"op", "branch", "barrier"}}

ASSUME ExecuteAssumption ==
    /\ Scenarios \subseteq [prog : Seq(Instructions), events : SUBSET Events]
    /\ {IssueLimit, MemoryIssueLimit, CommitLimit, MemoryCommitLimit, MaxInFlight}
         \subseteq Nat \ {0}
    /\ AllowEarlyMemoryIssue \in BOOLEAN
    /\ ThreadPolicy \in {"SingleThreaded", "RoundRobin", "Random"}
    /\ MaxUpsets \in Nat

VARIABLES
    phase,          \* the part of Execute::evaluate that comes next
    count,          \* instructions committed, then issued, in this cycle
    memCount,       \* memory accesses among them
    changed,        \* the branch of this cycle is a change of stream
    issued,         \* the youngest instruction issued
    inLSQ,          \* instructions in flight that the load/store queue has
    memAtEnd,       \* an access is at the end of the memory functional unit (opLat 1)
    instToWaitFor,  \* for every access in flight
    scoreboard,     \* numResults and writingInst of every register
    committed,      \* instructions whose effects are part of the program (history)
    pending,        \* an interrupt waits to be taken
    upsets,         \* interrupts and drains so far
    drainState,
    needToSignalDrained,
    running,        \* Ticked::running
    active          \* Execute is marked active (activityRecorder)

flightVars == <<prog, events, head, streamStart, issued, inLSQ, memAtEnd, instToWaitFor, scoreboard, committed>>
cycleVars  == <<count, memCount, changed>>
drainVars  == <<drainState, needToSignalDrained>>
clockVars  == <<running, active>>
vars == <<phase, lsq, pending, upsets, flightVars, cycleVars, drainVars, clockVars>>

Init ==
    /\ \E s \in Scenarios : prog = s.prog /\ events = s.events
    /\ phase = "between"
    /\ count = 0 /\ memCount = 0 /\ changed = FALSE
    /\ head = 1 /\ issued = 0 /\ streamStart = 0
    /\ inLSQ = {} /\ memAtEnd = FALSE
    /\ instToWaitFor = [n \in 1..Len(prog) |-> 0]
    /\ scoreboard = [r \in Regs |-> [numResults |-> 0, writingInst |-> 0]]
    /\ lsq = EmptyLSQ
    /\ committed = {}
    /\ pending = FALSE /\ upsets = 0
    /\ drainState = "NotDraining" /\ needToSignalDrained = FALSE
    /\ running = TRUE /\ active = TRUE

InFlight == head..issued

\* inFUMemInsts: accesses that are still in the memory functional unit.
InFUMemInsts == {n \in InFlight : IsMemRef(n) /\ n \notin inLSQ}

IsInbetweenInsts == ~AccessesInFlight(lsq)

Interrupted == pending /\ drainState = "NotDraining"

----------------------------------------------------------------------------
(* The start of the cycle. *)

\* Execute::evaluate steps the load/store queue first.
Evaluate ==
    /\ phase = "between"
    /\ running
    /\ lsq' \in LSQStep(lsq)
    /\ phase' = "select"
    /\ count' = 0 /\ memCount' = 0 /\ changed' = FALSE
    /\ UNCHANGED <<pending, upsets, flightVars, drainVars, clockVars>>

\* Mutant of InterruptTaken: accesses in flight are not looked at.
InterruptTakenAtOnce == Interrupted

\* checkInterrupts: an interrupt waits until no access is in flight.
InterruptTaken == Interrupted /\ IsInbetweenInsts

\* takeInterrupt: the stream changes and nothing commits or issues.
TakeInterrupt ==
    /\ phase = "select"
    /\ InterruptTaken
    /\ pending' = FALSE
    /\ streamStart' = issued
    /\ changed' = TRUE
    /\ phase' = "end"
    /\ UNCHANGED <<lsq, upsets, prog, events, head, issued, inLSQ, memAtEnd, instToWaitFor, scoreboard,
                   committed, count, memCount, drainVars, clockVars>>

\* The front of the memory functional unit may go to the load/store queue before
\* its turn: what it depends on has left inFlightInsts.
EarlyIssue(n) ==
    /\ AllowEarlyMemoryIssue
    /\ n \in InFUMemInsts /\ \A m \in InFUMemInsts : n <= m
    /\ memAtEnd
    /\ CanRequest(lsq)
    /\ head > instToWaitFor[n]

\* The instruction can be at the end of its functional unit.
AtEndOfFU(n) == n \notin inLSQ /\ (IsMemRef(n) => memAtEnd)

\* getCommittingThread: the thread may commit; it must if it has a response or an
\* access to transfer.
MayCommit ==
    \/ ThreadPolicy = "SingleThreaded"
    \/ /\ InFlight # {}
       /\ IF head \in inLSQ THEN FindResponse(lsq, head)
          ELSE AtEndOfFU(head) \/ \E n \in InFlight : EarlyIssue(n)

MustCommit ==
    \/ ThreadPolicy = "SingleThreaded"
    \/ /\ InFlight # {}
       /\ IF head \in inLSQ THEN FindResponse(lsq, head)
          ELSE \/ IsMemRef(head) /\ AtEndOfFU(head)
               \/ \E n \in InFlight : EarlyIssue(n)

BeginCommit ==
    /\ phase = "select"
    /\ ~InterruptTaken
    /\ MayCommit
    /\ phase' = "commit"
    /\ UNCHANGED <<lsq, pending, upsets, flightVars, cycleVars, drainVars, clockVars>>

SkipCommit ==
    /\ phase = "select"
    /\ ~InterruptTaken
    /\ ~MustCommit
    /\ phase' = "issue"
    /\ UNCHANGED <<lsq, pending, upsets, flightVars, cycleVars, drainVars, clockVars>>

----------------------------------------------------------------------------
(* Commit. *)

\* The commit loop goes on.
Committing ==
    /\ phase = "commit"
    /\ drainState # "DrainHaltFetch"
    /\ InFlight # {}
    /\ ~changed
    /\ count < CommitLimit

\* Instructions may commit, not only responses: no interrupt or drain waits for
\* accesses in flight.
CanCommitInsts == drainState # "DrainCurrentInst" /\ ~Interrupted

Discards(n) == ~RightStream(n) \/ drainState = "DrainAllInsts"

\* Mutant of ClearInstDests: the register has no writer after any completion.
ClearInstDestsAll(n) ==
    [r \in Regs |->
       IF r \notin prog[n].dests THEN scoreboard[r]
       ELSE [numResults |-> scoreboard[r].numResults - 1, writingInst |-> 0]]

\* clearInstDests.
ClearInstDests(n) ==
    [r \in Regs |->
       IF r \notin prog[n].dests THEN scoreboard[r]
       ELSE IF scoreboard[r].numResults = 1 THEN [numResults |-> 0, writingInst |-> 0]
       ELSE [scoreboard[r] EXCEPT !.numResults = @ - 1]]

\* The head leaves inFlightInsts.
Complete ==
    /\ head' = head + 1
    /\ inLSQ' = inLSQ \ {head}
    /\ scoreboard' = ClearInstDests(head)
    /\ UNCHANGED <<prog, events, issued, instToWaitFor>>

\* A change of stream makes everything issued old.
ChangesStream(c) ==
    /\ changed' = c
    /\ streamStart' = IF c THEN issued ELSE streamStart

HasResponse == head \in inLSQ /\ FindResponse(lsq, head) /\ memCount < MemoryCommitLimit

\* handleMemResponse: a load gets its data, a store goes to the store buffer, a
\* translation fault is taken.
CommitResponse ==
    LET r == Head(lsq.transfers)
    IN  /\ Committing
        /\ HasResponse
        /\ ~Discards(head)
        /\ lsq' = IF r.fault THEN PopResponse(lsq) ELSE ResponseHandled(lsq)
        /\ Complete
        /\ ChangesStream(r.fault)
        /\ committed' = IF r.skipped THEN committed ELSE committed \cup {head}
        /\ count' = count + 1 /\ memCount' = memCount + 1
        /\ active' = (active \/ (r.state = "StoreToStoreBuffer"))
        /\ UNCHANGED <<phase, pending, upsets, memAtEnd, drainVars, running>>

DiscardResponse ==
    /\ Committing
    /\ HasResponse
    /\ Discards(head)
    /\ lsq' = PopResponse(lsq)
    /\ Complete
    /\ UNCHANGED <<phase, pending, upsets, streamStart, committed, memAtEnd, cycleVars,
                   drainVars, clockVars>>

\* The access that is looked at before the head: of the right stream, at the end of
\* its functional unit and free to go.
EarlyAccess(n) == RightStream(n) /\ EarlyIssue(n)

\* Mutant of BarrierInFlight: barriers are not looked at.
BarrierIgnored(n) == FALSE

\* An incomplete barrier keeps the access back.
BarrierInFlight(n) == lsq.lastMemBarrier # 0 /\ lsq.lastMemBarrier < n

\* Access n can go to the load/store queue, early or at its turn.
GoesToLSQ(n) ==
    /\ Committing
    /\ ~HasResponse
    /\ CanCommitInsts
    /\ EarlyAccess(n) \/ (n = head /\ n \in InFUMemInsts /\ memAtEnd)
    /\ ~Discards(n)
    /\ CanRequest(lsq)
    /\ ~BarrierInFlight(n)

\* executeMemRefInst.
IssueToLSQ ==
    /\ \E n \in InFlight :
         /\ GoesToLSQ(n)
         /\ lsq' \in PushRequest(lsq, n)
         /\ inLSQ' = inLSQ \cup {n}
    /\ memAtEnd' = FALSE
    /\ UNCHANGED <<phase, pending, upsets, prog, events, head, streamStart, issued, instToWaitFor,
                   scoreboard, committed, cycleVars, drainVars, clockVars>>

\* The head commits from its functional unit, unless an access is looked at first.
FromFU ==
    /\ Committing
    /\ ~HasResponse
    /\ CanCommitInsts
    /\ AtEndOfFU(head)
    /\ \A n \in InFlight : ~EarlyAccess(n)

\* commitInst for what is not an access: a branch may have been badly predicted, a
\* barrier needs a place in the store buffer.
CommitInst ==
    /\ FromFU
    /\ ~IsMemRef(head)
    /\ ~Discards(head)
    /\ IsBarrier(head) => CanInsert(lsq)
    /\ lsq' = IF IsBarrier(head) THEN CompleteMemBarrierInst(lsq, head, TRUE) ELSE lsq
    /\ active' = (active \/ IsBarrier(head))
    /\ \E c \in IF prog[head].kind = "branch" THEN BOOLEAN ELSE {FALSE} : ChangesStream(c)
    /\ Complete
    /\ committed' = committed \cup {head}
    /\ count' = count + 1
    /\ UNCHANGED <<phase, pending, upsets, memAtEnd, memCount, drainVars, running>>

DiscardInst ==
    /\ FromFU
    /\ Discards(head)
    /\ lsq' = IF IsBarrier(head) THEN CompleteMemBarrierInst(lsq, head, FALSE) ELSE lsq
    /\ Complete
    /\ memAtEnd' = (memAtEnd /\ ~IsMemRef(head))
    /\ UNCHANGED <<phase, pending, upsets, streamStart, committed, cycleVars, drainVars,
                   clockVars>>

\* The rest of the commit half of evaluate: fetch is told to halt when the accesses
\* in flight are done.  An instruction that is not an access may not have reached
\* the end of its functional unit.
EndCommit ==
    LET halts == \/ drainState = "DrainHaltFetch"
                 \/ drainState = "DrainCurrentInst" /\ IsInbetweenInsts
    IN  /\ phase = "commit"
        /\ ~(Committing /\ HasResponse)
        /\ \A n \in InFlight : ~GoesToLSQ(n)
        /\ phase' = "issue"
        /\ count' = 0 /\ memCount' = 0
        /\ IF halts
           THEN drainState' = "DrainAllInsts" /\ streamStart' = issued /\ active' = TRUE
           ELSE UNCHANGED <<drainState, streamStart, active>>
        /\ UNCHANGED <<lsq, pending, upsets, prog, events, head, issued, inLSQ, memAtEnd, instToWaitFor,
                       scoreboard, committed, changed, needToSignalDrained, running>>

----------------------------------------------------------------------------
(* Issue. *)

\* Mutant of WaitFor: accesses do not wait for the last barrier.
WaitForRegs(n) ==
    Max({0} \cup {scoreboard[r].writingInst : r \in prog[n].srcs})

\* execSeqNumToWaitFor, and the last barrier.
WaitFor(n) ==
    Max({lsq.lastMemBarrier} \cup {scoreboard[r].writingInst : r \in prog[n].srcs})

\* The next instruction goes to a functional unit.  Fetch sends nothing once it has
\* been told to halt.
IssueInst ==
    LET n == issued + 1
    IN  /\ phase = "issue"
        /\ drainState # "DrainAllInsts"
        /\ n <= Len(prog)
        /\ ~changed
        /\ count < IssueLimit
        /\ memCount < MemoryIssueLimit
        /\ Cardinality(InFlight) < MaxInFlight
        /\ IsMemRef(n) => InFUMemInsts = {}
        /\ issued' = n
        /\ count' = count + 1
        /\ memCount' = IF IsMemRef(n) THEN memCount + 1 ELSE memCount
        /\ instToWaitFor' = IF IsMemRef(n) THEN [instToWaitFor EXCEPT ![n] = WaitFor(n)]
                            ELSE instToWaitFor
        /\ scoreboard' = [r \in Regs |->
             IF r \notin prog[n].dests THEN scoreboard[r]
             ELSE [numResults |-> scoreboard[r].numResults + 1, writingInst |-> n]]
        /\ lsq' = IF IsBarrier(n) THEN [lsq EXCEPT !.lastMemBarrier = n] ELSE lsq
        /\ UNCHANGED <<phase, pending, upsets, prog, events, head, streamStart, inLSQ, memAtEnd,
                       committed, changed, drainVars, clockVars>>

EndIssue ==
    /\ phase = "issue"
    /\ phase' = "end"
    /\ UNCHANGED <<lsq, pending, upsets, flightVars, cycleVars, drainVars, clockVars>>

----------------------------------------------------------------------------
(* The end of the cycle and the outside world. *)

ExecuteIsDrained == InFlight = {} /\ IsDrained(lsq)

\* need_to_tick.  What is in a functional unit, and is not the head, may be stalled
\* or moving; the other stages have something to do until they have sent everything.
NeedToTick ==
    \/ count # 0 \/ changed
    \/ Interrupted
    \/ InFlight # {} /\ (head \notin inLSQ \/ FindResponse(lsq, head))
    \/ InFlight = {} /\ issued < Len(prog)
    \/ NeedsToTick(lsq)

\* The functional units advance; the clock stops if there is nothing to do, or when
\* a drain is over.
EndCycle ==
    LET drained == needToSignalDrained /\ ExecuteIsDrained
    IN  /\ phase = "end"
        /\ phase' = "between"
        /\ memAtEnd' = (InFUMemInsts # {})
        /\ \E moving \in BOOLEAN :
             running' = (/\ ~drained
                         /\ active \/ NeedToTick \/ needToSignalDrained
                            \/ (moving /\ InFlight # {}))
        /\ active' = FALSE
        /\ needToSignalDrained' = (needToSignalDrained /\ ~drained)
        /\ UNCHANGED <<lsq, drainState, pending, upsets, prog, events, head, streamStart, issued, inLSQ,
                       instToWaitFor, scoreboard, committed, cycleVars>>

Wakeup == running' = TRUE /\ active' = TRUE

\* The DTLB answers: SingleDataRequest::finish, SplitDataRequest::finish.
Finish ==
    /\ phase = "between"
    /\ \E i \in 1..Len(lsq.requests) : \E f \in Faults :
         /\ lsq.requests[i].state = "InTranslation"
         /\ lsq' \in FinishTranslation(lsq, i, f)
    /\ Wakeup
    /\ UNCHANGED <<phase, pending, upsets, flightVars, cycleVars, drainVars>>

MemoryResponds ==
    /\ phase = "between"
    /\ lsq' \in RecvTimingResp(lsq)
    /\ Wakeup
    /\ UNCHANGED <<phase, pending, upsets, flightVars, cycleVars, drainVars>>

\* The clock is not started.
MemoryRetries ==
    /\ phase = "between"
    /\ lsq.state = "MemoryNeedsRetry"
    /\ lsq' \in RecvReqRetry(lsq)
    /\ UNCHANGED <<phase, pending, upsets, flightVars, cycleVars, drainVars, clockVars>>

PostInterrupt ==
    /\ phase = "between"
    /\ "interrupt" \in events
    /\ ~pending
    /\ upsets < MaxUpsets
    /\ pending' = TRUE
    /\ upsets' = upsets + 1
    /\ UNCHANGED <<phase, lsq, flightVars, cycleVars, drainVars, clockVars>>

\* Execute::drain, and the wait for its end.
Drain ==
    /\ phase = "between"
    /\ "drain" \in events
    /\ drainState = "NotDraining"
    /\ upsets < MaxUpsets
    /\ upsets' = upsets + 1
    /\ drainState' = IF IsInbetweenInsts THEN "DrainHaltFetch" ELSE "DrainCurrentInst"
    /\ needToSignalDrained' = ~ExecuteIsDrained
    /\ Wakeup
    /\ UNCHANGED <<phase, lsq, pending, flightVars, cycleVars>>

DrainResume ==
    /\ phase = "between"
    /\ drainState # "NotDraining"
    /\ ExecuteIsDrained
    /\ ~needToSignalDrained
    /\ drainState' = "NotDraining"
    /\ Wakeup
    /\ UNCHANGED <<phase, lsq, pending, upsets, flightVars, cycleVars, needToSignalDrained>>

----------------------------------------------------------------------------
Cycle ==
    \/ Evaluate \/ TakeInterrupt \/ BeginCommit \/ SkipCommit
    \/ CommitResponse \/ DiscardResponse \/ IssueToLSQ \/ CommitInst \/ DiscardInst \/ EndCommit
    \/ IssueInst \/ EndIssue \/ EndCycle

Next ==
    \/ Cycle
    \/ Finish \/ MemoryResponds \/ MemoryRetries
    \/ PostInterrupt \/ Drain \/ DrainResume

Spec == Init /\ [][Next]_vars

\* The memory system and the DTLB answer, and a packet is not refused for ever.
Answer ==
    \/ Finish \/ MemoryResponds
    \/ MemoryRetries /\ lsq'.state = "MemoryRunning"

\* The clock ticks while it runs; instructions reach the end of their functional
\* units and the other stages send the next ones; accesses are answered; a drained
\* CPU is resumed.  The steps of the last conjunct happen a bounded number of times
\* for each instruction and drain, so that strong fairness of their disjunction is
\* strong fairness of each.
FairSpec ==
    /\ Spec
    /\ WF_vars(Cycle)
    /\ SF_vars(BeginCommit)
    /\ SF_vars(IssueInst \/ CommitInst \/ DiscardInst \/ Answer \/ DrainResume)

----------------------------------------------------------------------------
(* Properties. *)

States == {"InTranslation", "Translated", "Failed", "RequestIssuing", "RequestNeedsRetry",
           "StoreToStoreBuffer", "StoreInStoreBuffer", "StoreBufferIssuing",
           "StoreBufferNeedsRetry", "Complete"}

Requests == ToSet(lsq.requests) \cup ToSet(lsq.transfers) \cup ToSet(lsq.slots)

\* The types of the variables, and the sizes of the queues.
TypeOK ==
    /\ [prog |-> prog, events |-> events] \in Scenarios
    /\ phase \in {"between", "select", "commit", "issue", "end"}
    /\ head \in 1..(issued + 1) /\ issued \in 0..Len(prog) /\ streamStart \in 0..issued
    /\ inLSQ \subseteq InFlight
    /\ committed \subseteq 1..(head - 1)
    /\ scoreboard \in [Regs -> [numResults : Nat, writingInst : 0..issued]]
    /\ lsq.state \in {"MemoryRunning", "MemoryNeedsRetry"}
    /\ \A r \in Requests : r.state \in States /\ r.retired <= r.sent
    /\ Len(lsq.requests) <= RequestsSize
    /\ Len(lsq.transfers) <= TransfersSize
    /\ Len(lsq.slots) <= StoreBufferSize
    /\ lsq.numAccessesInMemorySystem \in 0..MemoryLimit
    /\ drainState \in {"NotDraining", "DrainCurrentInst", "DrainHaltFetch", "DrainAllInsts"}
    /\ {pending, changed, memAtEnd, running, active, needToSignalDrained} \subseteq BOOLEAN

\* The last store before n to line a that is part of the program; 0: there is none.
LastStore(n, a) ==
    Max({0} \cup {m \in committed : m < n /\ IsStore(m) /\ a \in ToSet(Lines(m))})

\* A load that is ready to commit has the data of the last store before it to each of
\* its lines, wherever that store is: forwarded from the store buffer or read from
\* memory, by packets that may be refused and sent again (tryToSendToTransfers,
\* canForwardDataToLoad, forwardStoreData).
LoadsSeeStores ==
    (head \in inLSQ /\ RightStream(head) /\ IsLoad(head) /\ FindResponse(lsq, head)
       /\ ~Head(lsq.transfers).skipped)
    => \A k \in 1..Len(Lines(head)) :
         Head(lsq.transfers).data[k] = LastStore(head, Lines(head)[k])

\* Memory has only stores that committed, or an unbufferable one that will: it is the
\* head of the current stream (the head check of tryToSendToTransfers, and
\* isInbetweenInsts, which keeps an interrupt from changing the stream under it).
NoWrongPathStores ==
    \A a \in Addrs :
       \/ lsq.mem[a] \in committed \cup {0}
       \/ lsq.mem[a] = head /\ ~Bufferable(head) /\ RightStream(head)

\* An older store never overwrites a younger one, whatever the memory system refuses
\* (StoreBuffer::step, recvReqRetry and the wait of unbufferable accesses for the
\* store buffer).
MemoryInOrder == [][\A a \in Addrs : lsq'.mem[a] >= lsq.mem[a]]_vars

\* An access that went to the load/store queue before its turn does not depend on an
\* instruction that has still to commit (instToWaitFor from the scoreboard's
\* writingInst).
OperandsReady ==
    \A n \in inLSQ : RightStream(n) =>
       \A m \in head..(n - 1) : RightStream(m) => prog[m].dests \cap prog[n].srcs = {}

OnPath(n) == n \in committed \/ (n \in InFlight /\ RightStream(n))

Performed(n) ==
    \E r \in Requests : r.inst = n /\ (r.sent > 0 \/ (r.state = "Complete" /\ ~r.skipped))

Incomplete(n) == n \in InFlight \/ \E r \in ToSet(lsq.slots) : r.inst = n

\* No access after a memory barrier is performed until the stores before the barrier
\* have been answered (lastMemBarrier, completeMemBarrierInst, StoreBuffer::step).
BarrierOrder ==
    \A n \in {m \in 1..issued : IsMemRef(m) /\ OnPath(m) /\ Performed(m)} :
       \A b \in 1..(n - 1) : IsBarrier(b) /\ OnPath(b) =>
          \A s \in 1..(b - 1) : ~(IsStore(s) /\ OnPath(s) /\ Incomplete(s))

\* What the counters of a queue count.
StoresInTransfers(q) == {r.inst : r \in {x \in ToSet(q.transfers) : ~x.isLoad}}

UnissuedAccesses(q) ==
    {r.inst : r \in {x \in ToSet(q.slots) : IsBarrier(x.inst) \/ ~SentAllPackets(x)}}

AccessesIssuedToMemory(q) ==
    {r.inst : r \in {x \in ToSet(q.requests) \cup ToSet(q.transfers) : x.issuedToMemory}}

PacketsInMemSystem(q) ==
    UNION {{r.inst} \X ((r.retired + 1)..r.sent) :
             r \in ToSet(q.requests) \cup ToSet(q.transfers) \cup ToSet(q.slots)}

CountsMatch(q) ==
    /\ q.numStoresInTransfers = Cardinality(StoresInTransfers(q))
    /\ q.numUnissuedAccesses = Cardinality(UnissuedAccesses(q))
    /\ q.numAccessesIssuedToMemory = Cardinality(AccessesIssuedToMemory(q))
    /\ q.numAccessesInMemorySystem = Cardinality(PacketsInMemSystem(q))

\* The counters that let loads pass, keep the clock running and hold off interrupts
\* agree with the queues, after every refusal, answer and discard.
CountersMatch == CountsMatch(lsq)

\* An unbufferable access that may have reached its device is never thrown away: it
\* leaves the transfers queue by committing (issuedToMemory, "an access which can't be
\* idly discarded by an interrupt").
UnbufferableNotDiscarded ==
    [][\A r \in ToSet(lsq.transfers) :
         r.issuedToMemory /\ r.inst < head' => r.inst \in committed']_vars

\* Every program is finished, with every store in memory, although the clock is
\* stopped when Execute finds nothing to do and only some events start it again
\* (need_to_tick, needsToTick, wakeupOnEvent).
Completes ==
    <>[](/\ head > Len(prog)
         /\ IsDrained(lsq)
         /\ \A a \in Addrs : lsq.mem[a] = LastStore(Len(prog) + 1, a))
=============================================================================
