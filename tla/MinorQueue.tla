----------------------------- MODULE MinorQueue -----------------------------
(***************************************************************************)
(* The shape of the load/store queue of MinorCPU's Execute stage: which    *)
(* states an access can be in where it is in the queue, how its packets    *)
(* and the counters go together, in which order accesses stand, and what   *)
(* the scoreboard knows of the instructions in flight.                     *)
(***************************************************************************)
EXTENDS MinorExecute

Insts == 1..Len(prog)

NumFragments(n) == Len(Lines(n))

Request ==
    [inst : Insts, isLoad : BOOLEAN, state : States, sent : Nat, retired : Nat,
     skipped : BOOLEAN, issuedToMemory : BOOLEAN, fault : BOOLEAN,
     data : Seq(0..Len(prog))]

\* In requests: some packet has still to be sent.
Pending ==
    {r \in Request :
       /\ IsMemRef(r.inst)
       /\ r.state \in {"InTranslation", "Translated", "Failed", "RequestIssuing",
                       "RequestNeedsRetry"}
       /\ r.isLoad <=> IsLoad(r.inst) \/ r.state = "Failed"
       /\ r.retired <= r.sent /\ r.sent < NumFragments(r.inst)
       /\ r.state \in {"InTranslation", "Failed"} \/ r.fault => r.sent = 0
       /\ r.fault => r.state # "RequestNeedsRetry"
       /\ IsStore(r.inst) /\ Bufferable(r.inst)
            => r.sent = 0 /\ ~r.issuedToMemory /\ r.state # "RequestNeedsRetry"}

\* Some packet of the access was sent or refused.
Started(r) == r.sent > 0 \/ r.state = "RequestNeedsRetry"

\* A store that failed its predicate rides in transfers as a load.
FailedStore(r) == IsStore(r.inst) /\ r.isLoad

\* In transfers: all packets are on their way, or there will be none.
Transferring ==
    {r \in Request :
       /\ IsMemRef(r.inst)
       /\ IsLoad(r.inst) => r.isLoad
       /\ FailedStore(r) => r.skipped /\ r.state = "Complete"
       /\ r.retired <= r.sent /\ r.sent <= NumFragments(r.inst)
       /\ \/ r.state = "Complete" /\ r.retired = r.sent
          \/ r.state = "RequestIssuing" /\ r.sent = NumFragments(r.inst) /\ r.retired < r.sent
          \/ r.state = "StoreToStoreBuffer" /\ r.sent = 0 /\ IsStore(r.inst) /\ Bufferable(r.inst)
             /\ ~r.issuedToMemory}

InBufferStates == {"StoreInStoreBuffer", "StoreBufferIssuing", "StoreBufferNeedsRetry"}

\* In the store buffer: barriers, and stores that have not been answered.
Slot ==
    {r \in Request :
       \/ IsBarrier(r.inst) /\ r.state = "Complete" /\ r.sent = 0 /\ r.retired = 0
       \/ /\ IsStore(r.inst) /\ Bufferable(r.inst)
          /\ r.state \in InBufferStates
          /\ r.retired <= r.sent /\ r.sent <= NumFragments(r.inst)
          /\ r.retired < NumFragments(r.inst)
          /\ r.sent = NumFragments(r.inst) => r.state = "StoreBufferIssuing"}

\* Some packet of a store in the store buffer has still to be sent, or it is a barrier.
Unissued(r) == IsBarrier(r.inst) \/ ~SentAllPackets(r)

LSQs ==
    [requests : Seq(Pending), transfers : Seq(Transferring), slots : Seq(Slot),
     state : {"MemoryRunning", "MemoryNeedsRetry"}, lastMemBarrier : 0..Len(prog),
     numStoresInTransfers : Int, numAccessesIssuedToMemory : Int,
     numUnissuedAccesses : Int, numAccessesInMemorySystem : Int,
     mem : [Addrs -> 0..Len(prog)]]

InOrder(s) == \A i, j \in 1..Len(s) : i < j => s[i].inst < s[j].inst

\* Committed stores are in the store buffer; the access at the front of transfers
\* is the oldest, and the youngest is the last one in requests.
QueuesInOrder(q) ==
    /\ InOrder(q.slots) /\ InOrder(q.transfers) /\ InOrder(q.requests)
    /\ \A i \in 1..Len(q.transfers), j \in 1..Len(q.requests) :
         q.transfers[i].inst < q.requests[j].inst

OldAndNew(q, n) ==
    /\ \A i \in 1..Len(q.slots) : q.slots[i].inst < n
    /\ \A i \in 1..Len(q.transfers) : q.transfers[i].inst >= n
    /\ \A i \in 1..Len(q.requests) : q.requests[i].inst >= n

Sizes(q) ==
    /\ Len(q.requests) <= RequestsSize
    /\ Len(q.transfers) <= TransfersSize
    /\ Len(q.slots) <= StoreBufferSize
    /\ q.numAccessesInMemorySystem <= MemoryLimit

\* The memory system owes a retry to one access: a store in the store buffer, or
\* the front of requests, for which there is room in transfers.
OneRetry(q) ==
    LET waiting == {i \in 1..Len(q.slots) : q.slots[i].state = "StoreBufferNeedsRetry"}
    IN  /\ q.state = "MemoryRunning" => waiting = {}
        /\ \A i, j \in waiting : i = j
        /\ q.state = "MemoryNeedsRetry" /\ waiting = {}
             => /\ q.requests # <<>> /\ Head(q.requests).state = "RequestNeedsRetry"
                /\ Len(q.transfers) < TransfersSize

Overlaps(r, n) == ToSet(Lines(r.inst)) \cap ToSet(Lines(n)) # {}

\* Only the front of requests may have started; a load that has is not overtaken by a
\* store it would have to see.
FrontFirst(q) ==
    /\ \A i \in 2..Len(q.requests) : ~Started(q.requests[i])
    /\ q.requests # <<>> /\ Started(Head(q.requests)) /\ IsLoad(Head(q.requests).inst)
         => /\ q.numStoresInTransfers = 0
            /\ \A i \in 1..Len(q.slots) : ~Overlaps(q.slots[i], Head(q.requests).inst)

QueueShape(q) ==
    /\ q \in LSQs
    /\ QueuesInOrder(q)
    /\ Sizes(q)
    /\ OneRetry(q)
    /\ FrontFirst(q)
    /\ CountsMatch(q)

InstsOf(s) == {s[i].inst : i \in 1..Len(s)}

\* The instructions in flight.
FlightOK ==
    /\ [prog |-> prog, events |-> events] \in Scenarios
    /\ issued \in 0..Len(prog) /\ head \in 1..(issued + 1) /\ streamStart \in 0..issued
    /\ inLSQ = InstsOf(lsq.transfers) \cup InstsOf(lsq.requests)
    /\ inLSQ \subseteq InFlight
    /\ \A n \in inLSQ, m \in InFUMemInsts : n < m
    /\ committed \subseteq 1..(head - 1)
    /\ lsq.lastMemBarrier <= issued
    /\ instToWaitFor \in [Insts -> Nat]

Writers(r) == {n \in InFlight : r \in prog[n].dests}

\* The scoreboard knows how many instructions in flight write a register, and none of
\* them is younger than writingInst.
ScoreboardOK ==
    /\ scoreboard \in [Regs -> [numResults : Nat, writingInst : 0..issued]]
    /\ \A r \in Regs :
         /\ scoreboard[r].numResults = Cardinality(Writers(r))
         /\ \A n \in Writers(r) : n <= scoreboard[r].writingInst

\* An access waits for all the instructions it depends on.
WaitsForWriters ==
    \A n, m \in InFlight :
      IsMemRef(n) /\ m < n /\ prog[m].dests \cap prog[n].srcs # {} => m <= instToWaitFor[n]

\* An access in the queue came at its turn, or what it waits for has left
\* inFlightInsts.
NothingToWaitFor == \A n \in inLSQ : n = head \/ instToWaitFor[n] < head

Controls ==
    /\ phase \in {"between", "select", "commit", "issue", "end"}
    /\ drainState \in {"NotDraining", "DrainCurrentInst", "DrainHaltFetch", "DrainAllInsts"}
    /\ {pending, changed, memAtEnd, running, active, needToSignalDrained} \subseteq BOOLEAN

\* The load/store queue and the scoreboard agree with the instructions in flight,
\* whatever is refused, faults, is discarded, interrupted or drained (lsq.cc,
\* scoreboard.cc).
QueueInv ==
    /\ Controls
    /\ FlightOK
    /\ QueueShape(lsq)
    /\ OldAndNew(lsq, head)
    /\ ScoreboardOK
    /\ WaitsForWriters
    /\ NothingToWaitFor
=============================================================================
