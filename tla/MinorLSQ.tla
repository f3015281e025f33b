------------------------------ MODULE MinorLSQ ------------------------------
(***************************************************************************)
(* The load/store queue of MinorCPU's Execute stage (lsq.cc): the requests *)
(* queue an access is pushed into, the transfers queue it waits in for its *)
(* turn to commit, and the store buffer committed stores leave from, with  *)
(* the memory system that may refuse a packet and ask for it again.        *)
(*                                                                         *)
(* The state of the queue and of the memory behind it is one record, and   *)
(* an operation is an operator from such a state to the set of states it   *)
(* may lead to.  Instructions are known by their execSeqNum, which is      *)
(* their place in prog.  A fragment is the part of an access that lies in  *)
(* one cache line, and a line is an address.  Memory holds, for every      *)
(* address, the store that wrote it last: a packet takes effect when it is *)
(* accepted and is answered any time later, the packets of one line in the *)
(* order in which they were accepted.                                      *)
(***************************************************************************)
EXTENDS Integers, Sequences, FiniteSets, FiniteSetsExt, SequencesExt

CONSTANTS Addrs,            \* lines of memory
          RequestsSize, TransfersSize, StoreBufferSize,
          MemoryLimit,      \* executeMaxAccessesInMemory
          StoresPerCycle    \* executeLSQMaxStoreBufferStoresPerCycle

\* What the environment may do.
Events == {"retry", "slowDTLB", "dataFault", "predicate", "interrupt", "drain"}

ASSUME LSQAssumption ==
    {RequestsSize, TransfersSize, StoreBufferSize, MemoryLimit, StoresPerCycle}
      \subseteq Nat \ {0}

VARIABLES prog,         \* the instructions in the order in which they are issued
          events,       \* the events that are considered with this program
          head,         \* the oldest instruction of inFlightInsts
          streamStart,  \* instructions after this one are of the current stream
          lsq           \* the load/store queue and the memory system

IsLoad(n)    == prog[n].kind \in {"load", "ioLoad"}
IsStore(n)   == prog[n].kind \in {"store", "ioStore"}
IsMemRef(n)  == IsLoad(n) \/ IsStore(n)
IsBarrier(n) == prog[n].kind = "barrier"

\* Strictly ordered accesses, like LL/SC and atomic ones, are neither buffered
\* nor made speculatively.
Bufferable(n) == prog[n].kind \in {"load", "store"}

Lines(n) == prog[n].lines

\* instIsRightStream and instIsHeadInst.
RightStream(n) == n > streamStart
IsHeadInst(n)  == n = head

EmptyLSQ ==
    [requests |-> <<>>, transfers |-> <<>>, slots |-> <<>>,
     state |-> "MemoryRunning", lastMemBarrier |-> 0,
     numStoresInTransfers |-> 0, numAccessesIssuedToMemory |-> 0,
     numUnissuedAccesses |-> 0, numAccessesInMemorySystem |-> 0,
     mem |-> [a \in Addrs |-> 0]]

\* isLoad: what the request says it is, which is a load when it is a SpecialDataRequest:
\* an access that failed its predicate, or a barrier.
\* data: the stores whose values a load has been given, one for each fragment.
NewRequest(n, state) ==
    [inst |-> n, isLoad |-> state = "InTranslation" => IsLoad(n), state |-> state,
     sent |-> 0, retired |-> 0, skipped |-> FALSE, issuedToMemory |-> FALSE,
     fault |-> FALSE, data |-> <<>>]

HasPacketsInMemSystem(r) == r.sent > r.retired
SentAllPackets(r) == r.sent = Len(Lines(r.inst))

CanSendToMemorySystem(q) ==
    q.state = "MemoryRunning" /\ q.numAccessesInMemorySystem < MemoryLimit

CanRequest(q) == Len(q.requests) < RequestsSize

AccessesInFlight(q) == q.numAccessesIssuedToMemory # 0

\* Mutant of CanInsert: one access too many.
CanInsertOneMore(q) == Len(q.slots) <= StoreBufferSize

CanInsert(q) == Len(q.slots) < StoreBufferSize

----------------------------------------------------------------------------
(* Sending. *)

InStoreBuffer(r) ==
    r.state \in {"StoreInStoreBuffer", "StoreBufferIssuing", "StoreBufferNeedsRetry"}

\* tryToSend: the next packet of r is accepted, or refused and to be retried.
\* all: the last packet of r was sent.
TryToSend(q, r) ==
    LET a == Lines(r.inst)[r.sent + 1]
        sent == [r EXCEPT !.sent = @ + 1,
                   !.data = IF IsLoad(r.inst) THEN Append(@, q.mem[a]) ELSE @,
                   !.state = IF InStoreBuffer(r) THEN "StoreBufferIssuing"
                             ELSE "RequestIssuing"]
        refused == [r EXCEPT !.state = IF InStoreBuffer(r) THEN "StoreBufferNeedsRetry"
                                       ELSE "RequestNeedsRetry"]
    IN  IF ~CanSendToMemorySystem(q) THEN {[q |-> q, r |-> r, all |-> FALSE]}
        ELSE {[q |-> [q EXCEPT !.numAccessesInMemorySystem = @ + 1,
                               !.mem = IF IsStore(r.inst) THEN [@ EXCEPT ![a] = r.inst]
                                       ELSE @],
               r |-> sent, all |-> SentAllPackets(sent)]}
             \cup {[q |-> [q EXCEPT !.state = "MemoryNeedsRetry"],
                    r |-> refused, all |-> FALSE] : x \in events \cap {"retry"}}

\* The front of requests becomes r; moveFromRequestsToTransfers, which counts the
\* requests that do not say that they are loads.
FrontSet(q, r) == [q EXCEPT !.requests = <<r>> \o Tail(@)]

FrontMoved(q, r) ==
    [q EXCEPT !.requests = Tail(@), !.transfers = Append(@, r),
              !.numStoresInTransfers = IF r.isLoad THEN @ ELSE @ + 1]

\* Mutant of Forwarding: the oldest overlapping store is taken.
ForwardingOldest(q, n) ==
    LET overlapping == {i \in 1..Len(q.slots) :
                          ToSet(Lines(q.slots[i].inst)) \cap ToSet(Lines(n)) # {}}
    IN  IF overlapping = {} THEN [coverage |-> "No", inst |-> 0]
        ELSE LET s == q.slots[Min(overlapping)].inst
             IN  [coverage |-> IF ToSet(Lines(n)) \subseteq ToSet(Lines(s))
                               THEN "Full" ELSE "Partial",
                  inst |-> s]

\* canForwardDataToLoad: the most recent store in the store buffer that overlaps
\* access n, and whether it covers it.
Forwarding(q, n) ==
    LET overlapping == {i \in 1..Len(q.slots) :
                          ToSet(Lines(q.slots[i].inst)) \cap ToSet(Lines(n)) # {}}
    IN  IF overlapping = {} THEN [coverage |-> "No", inst |-> 0]
        ELSE LET s == q.slots[Max(overlapping)].inst
             IN  [coverage |-> IF ToSet(Lines(n)) \subseteq ToSet(Lines(s))
                               THEN "Full" ELSE "Partial",
                  inst |-> s]

\* Mutant of MustStall: a load does not wait for stores in transfers.
NeverStalls(q, n) == FALSE

\* A load waits until the stores before it are in the store buffer, but not for one
\* that failed its predicate: that one is not counted.
MustStall(q, n) == IsLoad(n) /\ q.numStoresInTransfers # 0

\* Mutant of MayPerform: an unbufferable access is made speculatively.
MayPerformSpeculatively(q, n) ==
    Bufferable(n) \/ Forwarding(q, n).coverage = "No"

\* An access that must not be made speculatively, or pass a store it overlaps,
\* waits to be the head instruction and for that store to be gone.
MayPerform(q, n) ==
    Bufferable(n) \/ (IsHeadInst(n) /\ Forwarding(q, n).coverage = "No")

\* tryToSendToTransfers for the front of requests.
TryToSendToTransfers(q) ==
    LET r == Head(q.requests)
        n == r.inst
        f == Forwarding(q, n)
        skipped == [r EXCEPT !.state = "Complete", !.skipped = TRUE]
        first == ~Bufferable(n) /\ ~r.issuedToMemory
        counted == [q EXCEPT !.numAccessesIssuedToMemory = IF first THEN @ + 1 ELSE @]
    IN  IF \/ q.state = "MemoryNeedsRetry"
           \/ q.requests = <<>>
           \/ r.state = "InTranslation"
           \/ Len(q.transfers) = TransfersSize
        THEN {q}
        ELSE IF r.state = "Failed" THEN {FrontMoved(q, skipped)}
        ELSE IF ~RightStream(n)
        THEN {IF HasPacketsInMemSystem(r) THEN q ELSE FrontMoved(q, skipped)}
        ELSE IF r.fault THEN {FrontMoved(q, skipped)}
        ELSE IF IsStore(n) /\ Bufferable(n)
        THEN {FrontMoved(q, [r EXCEPT !.state = "StoreToStoreBuffer"])}
        ELSE IF MustStall(q, n) \/ ~MayPerform(q, n) THEN {q}
        ELSE IF IsLoad(n) /\ f.coverage = "Full"
        THEN {FrontMoved(q, [r EXCEPT !.state = "Complete",
                               !.data = [k \in 1..Len(Lines(n)) |-> f.inst]])}
        ELSE IF IsLoad(n) /\ f.coverage = "Partial" THEN {q}
        ELSE IF ~CanSendToMemorySystem(q) THEN {q}
        ELSE {IF t.all THEN FrontMoved(t.q, t.r) ELSE FrontSet(t.q, t.r) :
                t \in TryToSend(counted, [r EXCEPT !.issuedToMemory = @ \/ first])}

\* finish: request i has been translated.
FinishTranslation(q, i, fault) ==
    LET t == [q EXCEPT !.requests[i].state = "Translated", !.requests[i].fault = fault]
    IN  IF i = 1 THEN TryToSendToTransfers(t) ELSE {t}

Faults == {FALSE} \cup {x \in {TRUE} : "dataFault" \in events}

\* pushRequest, with a translation that ends at once or later, or
\* pushFailedRequest.
PushRequest(q, n) ==
    LET Pushed(state) == [q EXCEPT !.requests = Append(@, NewRequest(n, state))]
    IN  (UNION {FinishTranslation(Pushed("InTranslation"), Len(q.requests) + 1, x) :
                  x \in Faults})
        \cup {Pushed("InTranslation") : x \in events \cap {"slowDTLB"}}
        \cup {Pushed("Failed") : x \in events \cap {"predicate"}}

----------------------------------------------------------------------------
(* The store buffer and barriers. *)

\* clearMemBarrier.
ClearMemBarrier(q, n) ==
    [q EXCEPT !.lastMemBarrier = IF n >= @ THEN 0 ELSE @]

\* StoreBuffer::insert.
Insert(q, r) ==
    [q EXCEPT !.slots = Append(@, r), !.numUnissuedAccesses = @ + 1]

\* completeMemBarrierInst.
CompleteMemBarrierInst(q, n, committed) ==
    IF committed THEN Insert(q, NewRequest(n, "Complete")) ELSE ClearMemBarrier(q, n)

\* The barriers at the front of the store buffer go.
ClearLeadingBarriers(q) ==
    LET others == {i \in 1..Len(q.slots) : ~IsBarrier(q.slots[i].inst)}
        k == IF others = {} THEN Len(q.slots) ELSE Min(others) - 1
    IN  IF k = 0 THEN q
        ELSE [ClearMemBarrier(q, q.slots[k].inst) EXCEPT
                !.slots = SubSeq(@, k + 1, Len(@)), !.numUnissuedAccesses = @ - k]

\* Mutant of StepSlot: a store that was not sent does not hold up the next.
StepSlotUnordered(x, i) ==
    LET r == x.q.slots[i]
    IN  IF x.count = StoresPerCycle \/ ~CanSendToMemorySystem(x.q) THEN {x}
        ELSE IF IsBarrier(r.inst) THEN {x}
        ELSE IF r.state = "StoreBufferIssuing" /\ SentAllPackets(r) THEN {x}
        ELSE {[q |-> [t.q EXCEPT !.slots[i] = t.r,
                                 !.numUnissuedAccesses = IF t.all THEN @ - 1 ELSE @],
               issued |-> TRUE,
               count |-> IF t.all THEN x.count + 1 ELSE x.count] :
                t \in TryToSend(x.q, r)}

\* One turn of the loop of StoreBuffer::step, at slot i.  x.issued: go on.
StepSlot(x, i) ==
    LET r == x.q.slots[i]
    IN  IF ~x.issued \/ x.count = StoresPerCycle \/ ~CanSendToMemorySystem(x.q) THEN {x}
        ELSE IF IsBarrier(r.inst) THEN {[x EXCEPT !.issued = FALSE]}
        ELSE IF r.state = "StoreBufferIssuing" /\ SentAllPackets(r) THEN {x}
        ELSE {[q |-> [t.q EXCEPT !.slots[i] = t.r,
                                 !.numUnissuedAccesses = IF t.all THEN @ - 1 ELSE @],
               issued |-> t.all,
               count |-> IF t.all THEN x.count + 1 ELSE x.count] :
                t \in TryToSend(x.q, r)}

\* The loop of StoreBuffer::step: what its turns at the slots 1 to k may lead to.
Turns(q) ==
    LET turns[k \in 0..Len(q.slots)] ==
          IF k = 0 THEN {[q |-> q, issued |-> TRUE, count |-> 0]}
          ELSE UNION {StepSlot(x, k) : x \in turns[k - 1]}
    IN  turns

\* StoreBuffer::step: stores are sent in order, barriers stop them.
StoreBufferStep(q) ==
    LET cleared == ClearLeadingBarriers(q)
    IN  IF q.numUnissuedAccesses = 0 \/ q.state # "MemoryRunning" THEN {q}
        ELSE {x.q : x \in Turns(cleared)[Len(cleared.slots)]}

\* LSQ::step.
LSQStep(q) == UNION {StoreBufferStep(t) : t \in TryToSendToTransfers(q)}

----------------------------------------------------------------------------
(* Answers of the memory system. *)

\* retireResponse: a fragment has come back.
Retired(r) ==
    [r EXCEPT !.retired = @ + 1,
              !.state = IF r.retired + 1 = Len(Lines(r.inst)) THEN "Complete" ELSE @]

\* The memory system can answer a packet of slot i: one that is not behind a packet
\* of an older store to the same line.
Answerable(q, i) ==
    LET behind == UNION {ToSet(Lines(q.slots[j].inst)) :
                           j \in {k \in 1..(i - 1) : HasPacketsInMemSystem(q.slots[k])}}
        r == q.slots[i]
    IN  r.retired < Cardinality({k \in 1..r.sent : Lines(r.inst)[k] \notin behind})

\* recvTimingResp: the states after the answer to one packet.  A store leaves the
\* store buffer with its last answer.
RecvTimingResp(q) ==
    LET p == [q EXCEPT !.numAccessesInMemorySystem = @ - 1]
    IN  {[p EXCEPT !.requests[i] = Retired(@)] :
            i \in {j \in 1..Len(q.requests) : HasPacketsInMemSystem(q.requests[j])}}
        \cup {[p EXCEPT !.transfers[i] = Retired(@)] :
            i \in {j \in 1..Len(q.transfers) : HasPacketsInMemSystem(q.transfers[j])}}
        \cup {LET r == Retired(q.slots[i])
              IN  IF r.state = "Complete"
                  THEN [p EXCEPT !.slots = RemoveAt(@, i)]
                  ELSE [p EXCEPT !.slots[i] = r] :
            i \in {j \in 1..Len(q.slots) : Answerable(q, j)}}

\* recvReqRetry: the refused packet is sent again, and may be refused again.
RecvReqRetry(q) ==
    LET p == [q EXCEPT !.state = "MemoryRunning"]
        waiting == {i \in 1..Len(q.slots) : q.slots[i].state = "StoreBufferNeedsRetry"}
    IN  IF waiting = {}
        THEN {IF t.all THEN FrontMoved(t.q, t.r) ELSE FrontSet(t.q, t.r) :
                t \in TryToSend(p, [Head(q.requests) EXCEPT !.state = "Translated"])}
        ELSE {[t.q EXCEPT !.slots[Min(waiting)] = t.r,
                          !.numUnissuedAccesses = IF t.all THEN @ - 1 ELSE @] :
                t \in TryToSend(p, [q.slots[Min(waiting)] EXCEPT
                                      !.state = "StoreInStoreBuffer"])}

----------------------------------------------------------------------------
(* What Execute asks of the queue. *)

\* findResponse: the access at the front of transfers can be finished.
FindResponse(q, n) ==
    /\ q.transfers # <<>>
    /\ Head(q.transfers).inst = n
    /\ \/ Head(q.transfers).state = "Complete"
       \/ Head(q.transfers).state = "StoreToStoreBuffer" /\ CanInsert(q)

\* Mutant of PopResponse: a store is counted out although it failed its predicate.
PopResponseByKind(q) ==
    LET r == Head(q.transfers)
    IN  [q EXCEPT !.transfers = Tail(@),
           !.numStoresInTransfers = IF IsLoad(r.inst) THEN @ ELSE @ - 1,
           !.numAccessesIssuedToMemory = IF r.issuedToMemory THEN @ - 1 ELSE @]

\* popResponse.
PopResponse(q) ==
    LET r == Head(q.transfers)
    IN  [q EXCEPT !.transfers = Tail(@),
           !.numStoresInTransfers = IF r.isLoad THEN @ ELSE @ - 1,
           !.numAccessesIssuedToMemory = IF r.issuedToMemory THEN @ - 1 ELSE @]

\* The store buffer takes over a committed store: sendStoreToStoreBuffer.
ResponseHandled(q) ==
    LET r == Head(q.transfers)
    IN  IF r.state = "StoreToStoreBuffer"
        THEN PopResponse(Insert(q, [r EXCEPT !.state = "StoreInStoreBuffer"]))
        ELSE PopResponse(q)

IsDrained(q) == q.requests = <<>> /\ q.transfers = <<>> /\ q.slots = <<>>

\* needsToTick.
NeedsToTick(q) ==
    /\ CanSendToMemorySystem(q)
    /\ \/ /\ q.requests # <<>>
          /\ Head(q.requests).state # "InTranslation"
          /\ Len(q.transfers) < TransfersSize
       \/ q.numUnissuedAccesses # 0
=============================================================================
