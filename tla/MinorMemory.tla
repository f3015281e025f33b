---------------------------- MODULE MinorMemory -----------------------------
(***************************************************************************)
(* What MinorCPU's load/store queue does to memory: which stores it has,   *)
(* which are still on their way, what a load in the queue has been given,  *)
(* and when an access may reach a device.  The parts are about the queue   *)
(* q, the oldest instruction in flight n and the instructions that have    *)
(* committed, done.                                                        *)
(***************************************************************************)
EXTENDS MinorQueue

\* Store m writes line a.
Writes(m, a) == IsStore(m) /\ a \in ToSet(Lines(m))

\* Of the stores that are done, v is the last one before n to line a; 0: there is none.
IsLast(v, done, n, a) ==
    /\ v = 0 \/ (v \in done /\ v < n /\ Writes(v, a))
    /\ \A m \in done : m < n /\ Writes(m, a) => m <= v

\* The access is the oldest one in flight and passes no store in the store buffer.
AloneAtDevice(q, n, r) ==
    /\ r.inst = n /\ ~Bufferable(n)
    /\ \A s \in ToSet(q.slots) : ~Overlaps(s, n)

\* What r has sent is in memory, unless a younger store has replaced it.
SentIsWritten(q, r) ==
    IsStore(r.inst) => \A k \in 1..r.sent : q.mem[Lines(r.inst)[k]] >= r.inst

\* Store m is in transfers and failed its predicate.
HasFailed(q, m) == \E x \in ToSet(q.transfers) : x.inst = m /\ FailedStore(x)

\* A load has the data of the last stores before it for its first k fragments, and of
\* the stores before it only such that failed their predicate are in flight.
HasData(q, r, n, done, k) ==
    /\ \A m \in n..(r.inst - 1) : IsStore(m) => HasFailed(q, m)
    /\ Len(r.data) = k
    /\ \A i \in 1..k : IsLast(r.data[i], done, r.inst, Lines(r.inst)[i])

RequestOK(q, n, done, r) ==
    /\ ~r.skipped
    /\ r.issuedToMemory => AloneAtDevice(q, n, r) /\ r.state # "InTranslation"
                           /\ r.state # "Failed" /\ ~r.fault
    /\ Started(r) /\ ~Bufferable(r.inst) => r.issuedToMemory
    /\ SentIsWritten(q, r)
    /\ IsLoad(r.inst) => IF Started(r) THEN HasData(q, r, n, done, r.sent) ELSE r.data = <<>>

TransferOK(q, n, done, r) ==
    /\ r.fault => r.skipped
    /\ r.skipped => r.state = "Complete" /\ ~r.issuedToMemory
    /\ r.issuedToMemory => AloneAtDevice(q, n, r)
    /\ SentIsWritten(q, r)
    /\ ~r.skipped =>
         /\ ~Bufferable(r.inst) => r.issuedToMemory /\ SentAllPackets(r)
         /\ Bufferable(r.inst) /\ IsStore(r.inst) => r.state = "StoreToStoreBuffer"
         /\ IsLoad(r.inst) => HasData(q, r, n, done, NumFragments(r.inst))

SlotStarted(s) == s.sent > 0 \/ s.state = "StoreBufferNeedsRetry"

\* A committed store; it is sent after the stores before it, and stays until those to
\* the same line have been answered.
SlotOK(q, done, s) ==
    /\ s.inst \in done
    /\ SentIsWritten(q, s)
    /\ Unissued(s) => /\ \A a \in ToSet(Lines(s.inst)) : q.mem[a] <= s.inst
                      /\ \A t \in ToSet(q.slots) : SlotStarted(t) => t.inst <= s.inst
    /\ \A m \in done : IsStore(m) /\ m > s.inst /\ Overlaps(s, m)
         => \E t \in ToSet(q.slots) : t.inst = m

\* Memory has committed stores, and the one that the oldest instruction in flight makes.
LineOK(q, n, done, a) ==
    /\ q.mem[a] = 0 \/ Writes(q.mem[a], a)
    /\ \/ q.mem[a] \in done \cup {0}
       \/ q.mem[a] = n /\ n \in AccessesIssuedToMemory(q)
    /\ \A m \in done : Writes(m, a)
         => q.mem[a] >= m \/ \E s \in ToSet(q.slots) : s.inst = m

MemoryOK(q, n, done) ==
    /\ \A r \in ToSet(q.requests) : RequestOK(q, n, done, r)
    /\ \A r \in ToSet(q.transfers) : TransferOK(q, n, done, r)
    /\ \A s \in ToSet(q.slots) : SlotOK(q, done, s)
    /\ \A a \in Addrs : LineOK(q, n, done, a)

\* An access that has been issued to a device is of the current stream, and nothing is
\* while Execute is draining.
DevicesOnPath ==
    /\ AccessesInFlight(lsq) => RightStream(head)
    /\ drainState = "DrainAllInsts" => streamStart = issued

\* The store buffer, the loads in the queue and memory agree about every store, whatever
\* is refused, faults, is discarded, interrupted or drained (StoreBuffer::step,
\* tryToSendToTransfers, recvReqRetry, recvTimingResp, handleMemResponse).
MemoryInv == MemoryOK(lsq, head, committed) /\ DevicesOnPath

\* What Execute::drain takes for granted when it halts fetch at once, between
\* instructions: that no access is issued to memory until fetch has been halted.
HaltsBetweenInsts == drainState = "DrainHaltFetch" => IsInbetweenInsts

\* The programs considered with drains have only accesses that may be made again.
DrainsWithoutDevices ==
    \A s \in Scenarios : "drain" \in s.events =>
       \A n \in 1..Len(s.prog) : s.prog[n].kind \notin {"ioLoad", "ioStore"}

----------------------------------------------------------------------------
(* Barriers. *)

BufferedInsts(q) == {s.inst : s \in ToSet(q.slots)}

\* Issued and neither cleared nor discarded.
BarriersInFlight == {b \in InFlight \cup BufferedInsts(lsq) : IsBarrier(b)}

\* What one lastMemBarrier is enough for.
BarriersApart == \A b, c \in BarriersInFlight : b = c

\* A barrier is remembered until it is cleared, and until then no access after it goes to
\* the queue; it is cleared behind the stores before it (lastMemBarrier, clearMemBarrier,
\* StoreBuffer::step).
BarrierInv ==
    /\ \A b \in BarriersInFlight :
         /\ lsq.lastMemBarrier = b
         /\ \A n \in inLSQ \cup BufferedInsts(lsq) : n <= b
    /\ \A b \in committed, n \in BufferedInsts(lsq) :
         IsBarrier(b) /\ n < b => b \in BufferedInsts(lsq)

\* The programs have one barrier at most.
OneBarrier ==
    \A s \in Scenarios : \A b, c \in 1..Len(s.prog) :
       s.prog[b].kind = "barrier" /\ s.prog[c].kind = "barrier" => b = c

=============================================================================
