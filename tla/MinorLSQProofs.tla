--------------------------- MODULE MinorLSQProofs ---------------------------
(***************************************************************************)
(* Every operation of the load/store queue keeps its shape, whatever the   *)
(* memory system accepts, refuses or answers.                              *)
(***************************************************************************)
EXTENDS MinorQueueProofs, FunctionTheorems

\* The queue has its shape, and instruction h is the oldest in flight.
Good(q, h) == QueueShape(q) /\ OldAndNew(q, h)

LEMMA GoodParts ==
    ASSUME NEW q, NEW h
    PROVE  Good(q, h) <=> /\ q \in LSQs /\ Ordered(q, h) /\ CountsMatch(q)
                          /\ Sizes(q) /\ OneRetry(q) /\ FrontFirst(q)
  BY DEF Good, QueueShape, Ordered

NoneWaits(q) == \A i \in 1..Len(q.slots) : q.slots[i].state # "StoreBufferNeedsRetry"

OneWaits(q) ==
    \A i, j \in 1..Len(q.slots) :
      q.slots[i].state = "StoreBufferNeedsRetry" /\ q.slots[j].state = "StoreBufferNeedsRetry"
        => i = j

FrontWaits(q) ==
    /\ q.requests # <<>> /\ Head(q.requests).state = "RequestNeedsRetry"
    /\ Len(q.transfers) < TransfersSize

LEMMA RetryParts ==
    ASSUME NEW q
    PROVE  OneRetry(q) <=> /\ q.state = "MemoryRunning" => NoneWaits(q)
                           /\ OneWaits(q)
                           /\ q.state = "MemoryNeedsRetry" /\ NoneWaits(q) => FrontWaits(q)
<1> DEFINE W == {i \in 1..Len(q.slots) : q.slots[i].state = "StoreBufferNeedsRetry"}
<1>1. W = {} <=> NoneWaits(q)
  BY DEF NoneWaits
<1>2. (\A i, j \in W : i = j) <=> OneWaits(q)
  BY DEF OneWaits
<1>3. OneRetry(q) <=> /\ q.state = "MemoryRunning" => W = {}
                      /\ \A i, j \in W : i = j
                      /\ q.state = "MemoryNeedsRetry" /\ W = {} => FrontWaits(q)
  BY DEF OneRetry, FrontWaits
<1> HIDE DEF W
<1> QED
  BY <1>1, <1>2, <1>3

\* Load n finds the stores before it in the memory system, if it is not one of those
\* that the store buffer has.
Clear(q, n) ==
    /\ q.numStoresInTransfers = 0
    /\ \A i \in 1..Len(q.slots) : ~Overlaps(q.slots[i], n)

\* The requests from place k on have not started.
FreshFrom(s, k) == \A i \in k..Len(s) : ~Started(s[i])

LEMMA FirstParts ==
    ASSUME NEW q
    PROVE  FrontFirst(q) <=>
             /\ FreshFrom(q.requests, 2)
             /\ q.requests # <<>> /\ Started(Head(q.requests)) /\ IsLoad(Head(q.requests).inst)
                  => Clear(q, Head(q.requests).inst)
  BY DEF FrontFirst, FreshFrom, Clear

----------------------------------------------------------------------------
(* The front of requests. *)

LEMMA FrontPut ==
    ASSUME NEW X, NEW s \in Seq(X), s # <<>>, NEW r
    PROVE  /\ <<r>> \o Tail(s) = Put(s, 1, r)
           /\ Put(s, 1, r) # <<>> /\ Head(Put(s, 1, r)) = r /\ Len(Put(s, 1, r)) = Len(s)
           /\ FreshFrom(s, 2) => FreshFrom(Put(s, 1, r), 2)
<1> DEFINE n == Len(s)
           t == [s EXCEPT ![1] = r]
           Y == X \cup {r}
<1>1. s \in Seq(Y) /\ n \in Nat \ {0} /\ DOMAIN s = 1..n
  BY SeqMonotonic, EmptySeq, LenProperties
<1>2. t \in Seq(Y) /\ Len(t) = n
  BY <1>1, ExceptSeq
<1>3. \A i \in 1..n : t[i] = IF i = 1 THEN r ELSE s[i]
  BY <1>1
<1> HIDE DEF n, t
<1>4. t # <<>> /\ Head(t) = r
  BY <1>1, <1>2, <1>3, EmptySeq, HeadTailProperties
<1>5. FreshFrom(s, 2) => FreshFrom(t, 2)
  <2>1. \A i \in 2..n : t[i] = s[i]
    BY <1>1, <1>3
  <2> QED
    BY <1>2, <2>1 DEF FreshFrom, n
<1>6. <<r>> \o Tail(s) = t
  BY FrontIsFirst DEF t
<1> QED
  BY <1>2, <1>4, <1>5, <1>6 DEF Put, t, n

LEMMA TailFresh ==
    ASSUME NEW X, NEW s \in Seq(X), s # <<>>, FreshFrom(s, 2)
    PROVE  FreshFrom(Tail(s), 1)
<1> DEFINE n == Len(s)
           t == Tail(s)
<1>1. n \in Nat \ {0}
  BY EmptySeq, LenProperties
<1>2. Len(t) = n - 1 /\ \A i \in 1..(n - 1) : t[i] = s[i + 1]
  BY <1>1, HeadTailProperties
<1> HIDE DEF n, t
<1>3. \A i \in 1..(n - 1) : i + 1 \in 2..n
  BY <1>1
<1> QED
  BY <1>2, <1>3 DEF FreshFrom, n, t

LEMMA FreshFront ==
    ASSUME NEW X, NEW s \in Seq(X), FreshFrom(s, 1)
    PROVE  FreshFrom(s, 2) /\ (s # <<>> => ~Started(Head(s)))
<1> DEFINE n == Len(s)
<1>1. n \in Nat /\ (s # <<>> => n # 0 /\ Head(s) = s[1])
  BY EmptySeq, LenProperties, HeadTailProperties
<1> HIDE DEF n
<1>2. \A i \in 2..n : i \in 1..n
  BY <1>1
<1>3. n # 0 => 1 \in 1..n
  BY <1>1
<1> QED
  BY <1>1, <1>2, <1>3 DEF FreshFrom, n

----------------------------------------------------------------------------
(* Sending. *)

LEMMA IsRecord ==
    ASSUME NEW q \in LSQs
    PROVE  Fields(q) /\ RestTyped(q)
  BY DEF LSQs, Fields, RestTyped

\* Only the memory system, its counter and its state change.
SameQueues(p, q) ==
    /\ p.requests = q.requests /\ p.transfers = q.transfers /\ p.slots = q.slots
    /\ p.lastMemBarrier = q.lastMemBarrier
    /\ p.numStoresInTransfers = q.numStoresInTransfers
    /\ p.numAccessesIssuedToMemory = q.numAccessesIssuedToMemory
    /\ p.numUnissuedAccesses = q.numUnissuedAccesses

\* Only the state, the packets sent and the data of a request change.
SameAccess(x, r) ==
    /\ x.inst = r.inst /\ x.isLoad = r.isLoad /\ x.retired = r.retired
    /\ x.skipped = r.skipped
    /\ x.issuedToMemory = r.issuedToMemory /\ x.fault = r.fault

NotSent(t, q, r) == t.q = q /\ t.r = r /\ t.all = FALSE /\ ~CanSendToMemorySystem(q)

Accepted(t, q, r) ==
    /\ CanSendToMemorySystem(q)
    /\ t.q.state = q.state /\ t.q.numAccessesInMemorySystem = q.numAccessesInMemorySystem + 1
    /\ t.r.sent = r.sent + 1 /\ t.r.state = IF InStoreBuffer(r) THEN "StoreBufferIssuing"
                                            ELSE "RequestIssuing"
    /\ t.all = (r.sent + 1 = NumFragments(r.inst))

Refused(t, q, r) ==
    /\ CanSendToMemorySystem(q)
    /\ t.q.state = "MemoryNeedsRetry"
    /\ t.q.numAccessesInMemorySystem = q.numAccessesInMemorySystem
    /\ t.r.sent = r.sent /\ t.r.state = IF InStoreBuffer(r) THEN "StoreBufferNeedsRetry"
                                        ELSE "RequestNeedsRetry"
    /\ t.all = FALSE

LEMMA Sending ==
    ASSUME prog \in Seq(Instructions), NEW q \in LSQs, NEW r \in Request,
           r.sent < NumFragments(r.inst), NEW t \in TryToSend(q, r)
    PROVE  /\ t.q \in LSQs /\ SameQueues(t.q, q)
           /\ t.r \in Request /\ SameAccess(t.r, r)
           /\ NotSent(t, q, r) \/ Accepted(t, q, r) \/ Refused(t, q, r)
<1> DEFINE n == r.inst
           a == Lines(n)[r.sent + 1]
           sent == [r EXCEPT !.sent = @ + 1,
                      !.data = IF IsLoad(r.inst) THEN Append(@, q.mem[a]) ELSE @,
                      !.state = IF InStoreBuffer(r) THEN "StoreBufferIssuing"
                                ELSE "RequestIssuing"]
           refused == [r EXCEPT !.state = IF InStoreBuffer(r) THEN "StoreBufferNeedsRetry"
                                          ELSE "RequestNeedsRetry"]
           taken == [q EXCEPT !.numAccessesInMemorySystem = @ + 1,
                              !.mem = IF IsStore(r.inst) THEN [@ EXCEPT ![a] = r.inst] ELSE @]
           halted == [q EXCEPT !.state = "MemoryNeedsRetry"]
<1>1. n \in Insts /\ r.sent \in Nat /\ r.data \in Seq(0..Len(prog)) /\ n \in 0..Len(prog)
  BY ProgramFacts DEF Request, Insts
<1>2. a \in Addrs
  <2>1. Lines(n) \in Seq(Addrs) /\ Len(Lines(n)) \in Nat
    BY <1>1, ProgramFacts DEF NumFragments
  <2>2. r.sent + 1 \in 1..Len(Lines(n))
    <3> DEFINE k == Len(Lines(n))
    <3>1. k \in Nat /\ r.sent < k
      BY <2>1 DEF NumFragments
    <3> HIDE DEF k
    <3>2. r.sent + 1 \in 1..k
      BY <1>1, <3>1
    <3> QED
      BY <3>2 DEF k
  <2> QED
    BY <2>1, <2>2, ElementOfSeq
<1>3. q.mem \in [Addrs -> 0..Len(prog)] /\ q.mem[a] \in 0..Len(prog)
  BY <1>2, QueueTypes
<1>4. sent \in Request /\ refused \in Request
  <2>1. Append(r.data, q.mem[a]) \in Seq(0..Len(prog))
    BY <1>1, <1>3, AppendProperties
  <2> DEFINE data == IF IsLoad(r.inst) THEN Append(r.data, q.mem[a]) ELSE r.data
  <2>2. data \in Seq(0..Len(prog))
    <3> DEFINE more == Append(r.data, q.mem[a])
    <3>1. more \in Seq(0..Len(prog)) /\ r.data \in Seq(0..Len(prog))
      BY <1>1, <2>1
    <3> HIDE DEF more
    <3>2. (IF IsLoad(r.inst) THEN more ELSE r.data) \in Seq(0..Len(prog))
      BY <3>1
    <3> QED
      BY <3>2 DEF more
  <2>2a. r.sent + 1 \in Nat
    BY <1>1
  <2>3. sent = [r EXCEPT !.sent = r.sent + 1, !.data = data,
                  !.state = IF InStoreBuffer(r) THEN "StoreBufferIssuing" ELSE "RequestIssuing"]
    OBVIOUS
  <2> HIDE DEF a, data, sent
  <2> QED
    BY <2>2, <2>2a, <2>3 DEF Request, States
<1>5. taken \in LSQs /\ halted \in LSQs
  <2>1. [q.mem EXCEPT ![a] = n] \in [Addrs -> 0..Len(prog)]
    BY <1>1, <1>2, <1>3
  <2>2. q.numAccessesInMemorySystem + 1 \in Int
    BY QueueTypes
  <2> HIDE DEF a
  <2> QED
    BY <1>3, <2>1, <2>2 DEF LSQs
<1>6. /\ SameQueues(taken, q) /\ SameQueues(halted, q) /\ SameQueues(q, q)
      /\ taken.state = q.state
      /\ taken.numAccessesInMemorySystem = q.numAccessesInMemorySystem + 1
      /\ halted.state = "MemoryNeedsRetry"
      /\ halted.numAccessesInMemorySystem = q.numAccessesInMemorySystem
  BY DEF LSQs, SameQueues
<1>7. /\ SameAccess(sent, r) /\ SameAccess(refused, r) /\ SameAccess(r, r)
      /\ sent.sent = r.sent + 1 /\ refused.sent = r.sent
      /\ sent.state = IF InStoreBuffer(r) THEN "StoreBufferIssuing" ELSE "RequestIssuing"
      /\ refused.state = IF InStoreBuffer(r) THEN "StoreBufferNeedsRetry" ELSE "RequestNeedsRetry"
  BY DEF Request, SameAccess
<1>8. SentAllPackets(sent) = (r.sent + 1 = NumFragments(n))
  BY <1>7 DEF SentAllPackets, NumFragments, SameAccess
<1>9. \/ ~CanSendToMemorySystem(q) /\ t = [q |-> q, r |-> r, all |-> FALSE]
      \/ CanSendToMemorySystem(q) /\ t = [q |-> taken, r |-> sent, all |-> SentAllPackets(sent)]
      \/ CanSendToMemorySystem(q) /\ t = [q |-> halted, r |-> refused, all |-> FALSE]
  <2> HIDE DEF sent, refused, taken, halted
  <2>1. TryToSend(q, r) =
          IF ~CanSendToMemorySystem(q) THEN {[q |-> q, r |-> r, all |-> FALSE]}
          ELSE {[q |-> taken, r |-> sent, all |-> SentAllPackets(sent)]}
               \cup {[q |-> halted, r |-> refused, all |-> FALSE] : x \in events \cap {"retry"}}
    BY DEF TryToSend, sent, refused, taken, halted
  <2> QED
    BY <2>1
<1> HIDE DEF sent, refused, taken, halted
<1>10. CASE ~CanSendToMemorySystem(q) /\ t = [q |-> q, r |-> r, all |-> FALSE]
  BY <1>6, <1>7, <1>10 DEF NotSent
<1>11. CASE CanSendToMemorySystem(q) /\ t = [q |-> taken, r |-> sent, all |-> SentAllPackets(sent)]
  BY <1>4, <1>5, <1>6, <1>7, <1>8, <1>11 DEF Accepted
<1>12. CASE CanSendToMemorySystem(q) /\ t = [q |-> halted, r |-> refused, all |-> FALSE]
  BY <1>4, <1>5, <1>6, <1>7, <1>12 DEF Refused
<1> QED
  BY <1>9, <1>10, <1>11, <1>12

\* Apart from requests and transfers.
SameRest(p, q) ==
    /\ p.slots = q.slots /\ p.state = q.state /\ p.lastMemBarrier = q.lastMemBarrier
    /\ p.numAccessesIssuedToMemory = q.numAccessesIssuedToMemory
    /\ p.numUnissuedAccesses = q.numUnissuedAccesses
    /\ p.numAccessesInMemorySystem = q.numAccessesInMemorySystem /\ p.mem = q.mem

LEMMA FrontSetIs ==
    ASSUME NEW q \in LSQs, q.requests # <<>>, NEW r, NEW p, p = FrontSet(q, r)
    PROVE  /\ Fields(p) /\ RestTyped(p) /\ SameRest(p, q)
           /\ p.requests = Put(q.requests, 1, r) /\ p.transfers = q.transfers
           /\ p.numStoresInTransfers = q.numStoresInTransfers
<1>1. <<r>> \o Tail(q.requests) = Put(q.requests, 1, r)
  BY QueueTypes, FrontPut
<1>2. p = [q EXCEPT !.requests = Put(q.requests, 1, r)]
  BY <1>1 DEF FrontSet
<1> QED
  BY <1>2 DEF LSQs, Fields, RestTyped, SameRest

LEMMA FrontMovedIs ==
    ASSUME NEW q \in LSQs, NEW r, NEW p, p = FrontMoved(q, r)
    PROVE  /\ Fields(p) /\ RestTyped(p) /\ SameRest(p, q)
           /\ p.requests = Tail(q.requests) /\ p.transfers = Append(q.transfers, r)
           /\ p.numStoresInTransfers = q.numStoresInTransfers + Num(~r.isLoad)
<1>1. q.numStoresInTransfers \in Int
  BY QueueTypes
<1>2. p.numStoresInTransfers = IF r.isLoad THEN q.numStoresInTransfers
                               ELSE q.numStoresInTransfers + 1
  BY DEF FrontMoved, LSQs
<1>3. p.numStoresInTransfers = q.numStoresInTransfers + Num(~r.isLoad) /\ p.numStoresInTransfers \in Int
  BY <1>1, <1>2 DEF Num
<1>4. Fields(p) /\ SameRest(p, q) /\ p.requests = Tail(q.requests) /\ p.transfers = Append(q.transfers, r)
  BY DEF FrontMoved, LSQs, Fields, SameRest
<1>5. RestTyped(p)
  BY <1>3, <1>4, QueueTypes DEF RestTyped, SameRest
<1> QED
  BY <1>3, <1>4, <1>5

MovedFront(p, q, r) ==
    /\ Fields(p) /\ RestTyped(p) /\ SameRest(p, q)
    /\ p.requests = Tail(q.requests) /\ p.transfers = Append(q.transfers, r)
    /\ p.numStoresInTransfers = q.numStoresInTransfers + Num(~r.isLoad)

LEMMA FrontMovedTo ==
    ASSUME NEW q \in LSQs, NEW r
    PROVE  MovedFront(FrontMoved(q, r), q, r)
<1> DEFINE p == FrontMoved(q, r)
<1>1. p = FrontMoved(q, r)
  OBVIOUS
<1> HIDE DEF p
<1>2. /\ Fields(p) /\ RestTyped(p) /\ SameRest(p, q)
      /\ p.requests = Tail(q.requests) /\ p.transfers = Append(q.transfers, r)
      /\ p.numStoresInTransfers = q.numStoresInTransfers + Num(~r.isLoad)
  BY <1>1, FrontMovedIs
<1> QED BY <1>1, <1>2 DEF MovedFront

\* The counters follow a request o that becomes x.
Swapped(p, q, o, x) ==
    /\ p.numUnissuedAccesses = q.numUnissuedAccesses
    /\ p.numAccessesIssuedToMemory =
         q.numAccessesIssuedToMemory + Num(x.issuedToMemory) - Num(o.issuedToMemory)
    /\ p.numAccessesInMemorySystem =
         q.numAccessesInMemorySystem + Outstanding(x) - Outstanding(o)

\* The front of requests changes its state.
LEMMA FrontChanged ==
    ASSUME prog \in Seq(Instructions), NEW h \in Nat, NEW q, Good(q, h),
           q.requests # <<>>, NEW o, o = Head(q.requests), NEW x \in Pending, x.inst = o.inst,
           NEW p, Fields(p), RestTyped(p), p.requests = Put(q.requests, 1, x),
           p.transfers = q.transfers, p.slots = q.slots,
           p.numStoresInTransfers = q.numStoresInTransfers, Swapped(p, q, o, x),
           p.numAccessesInMemorySystem <= MemoryLimit,
           p.state = "MemoryRunning" => NoneWaits(q),
           p.state = "MemoryNeedsRetry" /\ NoneWaits(q)
             => x.state = "RequestNeedsRetry" /\ Len(q.transfers) < TransfersSize,
           Started(x) /\ IsLoad(x.inst) => Clear(q, x.inst)
    PROVE  Good(p, h) /\ Held(p) = Held(q)
<1>1. /\ q \in LSQs /\ Ordered(q, h) /\ CountsMatch(q)
      /\ Sizes(q) /\ OneRetry(q) /\ FrontFirst(q)
  BY GoodParts
<1>2. q.requests \in Seq(Pending)
  BY <1>1, QueueTypes
<1>3. /\ 1 \in 1..Len(q.requests) /\ o = q.requests[1] /\ o \in Pending
  <2> DEFINE s == q.requests
  <2>1. s \in Seq(Pending) /\ s # <<>> /\ o = Head(s)
    BY <1>2
  <2> HIDE DEF s
  <2>2. Len(s) \in Nat /\ Len(s) # 0 /\ o = s[1]
    BY <2>1, EmptySeq, HeadTailProperties, LenProperties
  <2>3. 1 \in 1..Len(s)
    BY <2>2
  <2>4. s[1] \in Pending
    BY <2>1, <2>3, ElementOfSeq
  <2> QED
    BY <2>2, <2>3, <2>4 DEF s
<1>4. /\ p.numStoresInTransfers = q.numStoresInTransfers
      /\ p.numUnissuedAccesses = q.numUnissuedAccesses
      /\ p.numAccessesIssuedToMemory =
           q.numAccessesIssuedToMemory + Num(x.issuedToMemory) - Num(o.issuedToMemory)
      /\ p.numAccessesInMemorySystem =
           q.numAccessesInMemorySystem + Outstanding(x) - Outstanding(o)
  BY DEF Swapped
<1>5. p \in LSQs /\ Ordered(p, h) /\ CountsMatch(p) /\ Held(p) = Held(q)
  <2>1. PICK i \in 1..Len(q.requests) : i = 1
    BY <1>3
  <2>2. p.requests = Put(q.requests, i, x) /\ o = q.requests[i]
    BY <1>3, <2>1
  <2> QED
    BY <1>1, <1>4, <2>2, RequestUpdated
<1>6. /\ p.requests # <<>> /\ Head(p.requests) = x /\ Len(p.requests) = Len(q.requests)
      /\ FreshFrom(q.requests, 2) => FreshFrom(p.requests, 2)
  BY <1>2, FrontPut
<1>7. Sizes(p)
  BY <1>1, <1>6 DEF Sizes
<1>8. OneRetry(p)
  <2>1. (NoneWaits(p) <=> NoneWaits(q)) /\ (OneWaits(p) <=> OneWaits(q))
    BY DEF NoneWaits, OneWaits
  <2>2. x.state = "RequestNeedsRetry" /\ Len(q.transfers) < TransfersSize => FrontWaits(p)
    BY <1>6 DEF FrontWaits
  <2> QED
    BY <1>1, <2>1, <2>2, RetryParts
<1>9. FrontFirst(p)
  <2>1. Clear(q, x.inst) => Clear(p, x.inst)
    BY <1>4 DEF Clear
  <2> QED
    BY <1>1, <1>6, <2>1, FirstParts
<1> QED
  BY <1>5, <1>7, <1>8, <1>9, GoodParts

\* The front of requests goes to transfers.
LEMMA FrontGone ==
    ASSUME prog \in Seq(Instructions), NEW h \in Nat, NEW q, Good(q, h),
           q.requests # <<>>, NEW o, o = Head(q.requests), NEW x \in Transferring, x.inst = o.inst,
           NEW p, Fields(p), RestTyped(p), p.requests = Tail(q.requests),
           p.transfers = Append(q.transfers, x), p.slots = q.slots,
           p.numStoresInTransfers = q.numStoresInTransfers + Num(~x.isLoad),
           Swapped(p, q, o, x),
           p.numAccessesInMemorySystem <= MemoryLimit, Len(q.transfers) < TransfersSize,
           p.state = "MemoryRunning", NoneWaits(q)
    PROVE  Good(p, h) /\ Held(p) = Held(q)
<1>1. /\ q \in LSQs /\ Ordered(q, h) /\ CountsMatch(q)
      /\ Sizes(q) /\ OneRetry(q) /\ FrontFirst(q)
  BY GoodParts
<1>2. q.requests \in Seq(Pending) /\ q.transfers \in Seq(Transferring)
  BY <1>1, QueueTypes
<1>3. o \in Pending
  <2> DEFINE s == q.requests
  <2>1. s \in Seq(Pending) /\ s # <<>> /\ o = Head(s)
    BY <1>2
  <2> HIDE DEF s
  <2> QED
    BY <2>1, HeadTailProperties
<1>4. /\ p.numStoresInTransfers = q.numStoresInTransfers + Num(~x.isLoad)
      /\ p.numUnissuedAccesses = q.numUnissuedAccesses
      /\ p.numAccessesIssuedToMemory =
           q.numAccessesIssuedToMemory + Num(x.issuedToMemory) - Num(o.issuedToMemory)
      /\ p.numAccessesInMemorySystem =
           q.numAccessesInMemorySystem + Outstanding(x) - Outstanding(o)
  BY DEF Swapped
<1>5. p \in LSQs /\ Ordered(p, h) /\ CountsMatch(p) /\ Held(p) = Held(q)
  BY <1>1, <1>4, RequestMoved
<1>6. Sizes(p)
  <2> DEFINE m == Len(q.requests)
             n == Len(q.transfers)
  <2>1. m \in Nat /\ n \in Nat /\ Len(p.requests) = m - 1 /\ Len(p.transfers) = n + 1
    BY <1>2, HeadTailProperties, AppendProperties, LenProperties
  <2>2. m <= RequestsSize /\ n < TransfersSize /\ Len(p.slots) <= StoreBufferSize
    BY <1>1 DEF Sizes
  <2>3. RequestsSize \in Nat /\ TransfersSize \in Nat
    BY LSQAssumption
  <2> HIDE DEF m, n
  <2>4. Len(p.requests) <= RequestsSize /\ Len(p.transfers) <= TransfersSize
    BY <2>1, <2>2, <2>3
  <2> QED
    BY <2>2, <2>4 DEF Sizes
<1>7. OneRetry(p)
  <2>1. (NoneWaits(p) <=> NoneWaits(q)) /\ (OneWaits(p) <=> OneWaits(q))
    BY DEF NoneWaits, OneWaits
  <2> QED
    BY <1>1, <2>1, RetryParts
<1>8. FrontFirst(p)
  <2>1. FreshFrom(q.requests, 2)
    BY <1>1, FirstParts
  <2>2. p.requests \in Seq(Pending) /\ FreshFrom(p.requests, 1)
    BY <1>2, <2>1, TailFresh, HeadTailProperties
  <2> QED
    BY <2>2, FreshFront, FirstParts
<1> QED
  BY <1>5, <1>6, <1>7, <1>8, GoodParts

\* The state in which the front of requests is sent: request o of queue q has become r.
Counted(c, q, o, r) ==
    /\ c.requests = q.requests /\ c.transfers = q.transfers /\ c.slots = q.slots
    /\ c.lastMemBarrier = q.lastMemBarrier
    /\ c.numStoresInTransfers = q.numStoresInTransfers
    /\ c.numUnissuedAccesses = q.numUnissuedAccesses
    /\ c.numAccessesInMemorySystem = q.numAccessesInMemorySystem
    /\ c.numAccessesIssuedToMemory =
         q.numAccessesIssuedToMemory + Num(r.issuedToMemory) - Num(o.issuedToMemory)
    /\ c.state = "MemoryRunning"

Sendable(r, o) ==
    /\ r.inst = o.inst /\ r.sent = o.sent /\ r.retired = o.retired
    /\ r.state \in {"Translated", "RequestIssuing", "RequestNeedsRetry"}
    /\ ~r.fault /\ ~(IsStore(r.inst) /\ Bufferable(r.inst))

\* A sent or refused packet leaves the request what it has to be.
LEMMA SentRequest ==
    ASSUME prog \in Seq(Instructions), NEW o, NEW r \in Pending, Sendable(r, o),
           NEW x \in Request, SameAccess(x, r)
    PROVE  /\ x.sent = r.sent /\ x.state = "RequestNeedsRetry"
                => x \in Pending /\ Outstanding(x) = Outstanding(o)
           /\ x.sent = r.sent + 1 /\ x.state = "RequestIssuing" /\ r.sent + 1 # NumFragments(r.inst)
                => x \in Pending /\ Outstanding(x) = Outstanding(o) + 1
           /\ x.sent = r.sent + 1 /\ x.state = "RequestIssuing" /\ r.sent + 1 = NumFragments(r.inst)
                => x \in Transferring /\ Outstanding(x) = Outstanding(o) + 1
           /\ Outstanding(r) = Outstanding(o) /\ Outstanding(o) \in Int
           /\ ~InStoreBuffer(r) /\ r.sent < NumFragments(r.inst)
<1>1. /\ r.inst \in Insts /\ NumFragments(r.inst) \in Nat /\ r.sent \in Nat /\ r.retired \in Nat
      /\ r.retired <= r.sent /\ r.sent < NumFragments(r.inst) /\ IsMemRef(r.inst)
  BY RequestFacts DEF Pending
<1>2. x.inst = r.inst /\ x.retired = r.retired /\ x.fault = r.fault
      /\ r.sent = o.sent /\ r.retired = o.retired /\ ~r.fault
      /\ ~(IsStore(r.inst) /\ Bufferable(r.inst))
  BY DEF SameAccess, Sendable
<1>2a. /\ x.isLoad <=> IsLoad(x.inst)
       /\ ~FailedStore(x)
  <2>1. x.isLoad = r.isLoad
    BY DEF SameAccess
  <2>2. r.isLoad <=> IsLoad(r.inst)
    BY DEF Pending, Sendable
  <2>3. x.isLoad <=> IsLoad(x.inst)
    BY <1>2, <2>1, <2>2
  <2> QED BY <2>3 DEF FailedStore, IsStore, IsLoad
<1>3. ~InStoreBuffer(r)
  BY DEF Sendable, InStoreBuffer
<1>4. Outstanding(r) = Outstanding(o) /\ Outstanding(o) \in Int
  BY <1>1, <1>2 DEF Outstanding
<1>5. ASSUME x.sent = r.sent /\ x.state = "RequestNeedsRetry"
      PROVE  x \in Pending /\ Outstanding(x) = Outstanding(o)
  BY <1>1, <1>2, <1>2a, <1>5 DEF Pending, Outstanding
<1> DEFINE k == NumFragments(r.inst)
<1>6. ASSUME x.sent = r.sent + 1 PROVE Outstanding(x) = Outstanding(o) + 1
  BY <1>1, <1>2, <1>6 DEF Outstanding
<1>7. ASSUME x.sent = r.sent + 1 /\ x.state = "RequestIssuing" /\ r.sent + 1 # k
      PROVE  x \in Pending
  <2>1. NumFragments(x.inst) = k /\ k \in Nat
    BY <1>1, <1>2
  <2> HIDE DEF k
  <2>2. x.retired <= x.sent /\ x.sent < k
    BY <1>1, <1>2, <1>7, <2>1 DEF k
  <2> QED
    BY <1>1, <1>2, <1>2a, <1>7, <2>1, <2>2 DEF Pending
<1>8. ASSUME x.sent = r.sent + 1 /\ x.state = "RequestIssuing" /\ r.sent + 1 = k
      PROVE  x \in Transferring
  <2>1. NumFragments(x.inst) = k /\ k \in Nat
    BY <1>1, <1>2
  <2> HIDE DEF k
  <2>2. x.retired <= x.sent /\ x.sent = k /\ x.retired < x.sent /\ x.sent <= k
    BY <1>1, <1>2, <1>8, <2>1 DEF k
  <2> QED
    BY <1>1, <1>2, <1>2a, <1>8, <2>1, <2>2 DEF Transferring
<1> QED
  BY <1>1, <1>3, <1>4, <1>5, <1>6, <1>7, <1>8

LEMMA CanSend ==
    ASSUME NEW q \in LSQs, CanSendToMemorySystem(q)
    PROVE  q.numAccessesInMemorySystem + 1 <= MemoryLimit
<1> DEFINE n == q.numAccessesInMemorySystem
<1>1. n \in Int /\ n < MemoryLimit
  BY QueueTypes DEF CanSendToMemorySystem
<1>2. MemoryLimit \in Int
  BY LSQAssumption
<1> HIDE DEF n
<1>3. n + 1 <= MemoryLimit
  BY <1>1, <1>2
<1> QED
  BY <1>3 DEF n

\* The next packet of the front of requests is sent: it stays, or goes to transfers.
LEMMA SendFront ==
    ASSUME prog \in Seq(Instructions), NEW h \in Nat, NEW q, Good(q, h),
           q.requests # <<>>, NEW o, o = Head(q.requests),
           NEW r \in Pending, Sendable(r, o), NEW c \in LSQs, Counted(c, q, o, r),
           NoneWaits(q), Len(q.transfers) < TransfersSize,
           IsLoad(r.inst) => Clear(q, r.inst),
           NEW t \in TryToSend(c, r), NEW p,
           p = IF t.all THEN FrontMoved(t.q, t.r) ELSE FrontSet(t.q, t.r)
    PROVE  Good(p, h) /\ Held(p) = Held(q) /\ p.lastMemBarrier = q.lastMemBarrier
<1>1. /\ c.requests = q.requests /\ c.transfers = q.transfers /\ c.slots = q.slots
      /\ c.lastMemBarrier = q.lastMemBarrier
      /\ c.numStoresInTransfers = q.numStoresInTransfers
      /\ c.numUnissuedAccesses = q.numUnissuedAccesses
      /\ c.numAccessesInMemorySystem = q.numAccessesInMemorySystem
      /\ c.state = "MemoryRunning"
  BY DEF Counted
<1>2. q \in LSQs /\ Sizes(q)
  BY GoodParts
<1>3. r \in Request /\ r.sent < NumFragments(r.inst) /\ ~InStoreBuffer(r) /\ r.inst = o.inst
      /\ Outstanding(r) = Outstanding(o) /\ Outstanding(o) \in Int
  <2>1. r \in Request /\ SameAccess(r, r)
    BY DEF Pending, SameAccess
  <2> QED
    BY <2>1, SentRequest DEF Sendable
<1>4. /\ t.q \in LSQs /\ SameQueues(t.q, c) /\ t.r \in Request /\ SameAccess(t.r, r)
      /\ NotSent(t, c, r) \/ Accepted(t, c, r) \/ Refused(t, c, r)
  BY <1>3, Sending
<1>5. t.q.requests = q.requests /\ t.q.requests # <<>> /\ t.q.transfers = q.transfers
      /\ t.q.slots = q.slots /\ t.q.lastMemBarrier = q.lastMemBarrier
      /\ t.q.numStoresInTransfers = q.numStoresInTransfers
  BY <1>1, <1>4 DEF SameQueues
<1>6. t.r.inst = o.inst /\ t.r.issuedToMemory = r.issuedToMemory
  BY <1>3, <1>4 DEF SameAccess
<1>7. ASSUME SameRest(p, t.q),
             t.q.numAccessesInMemorySystem =
               q.numAccessesInMemorySystem + Outstanding(t.r) - Outstanding(o)
      PROVE  Swapped(p, q, o, t.r)
  <2>1. /\ p.numUnissuedAccesses = q.numUnissuedAccesses
        /\ p.numAccessesIssuedToMemory = c.numAccessesIssuedToMemory
        /\ p.numAccessesInMemorySystem = t.q.numAccessesInMemorySystem
    BY <1>1, <1>4, <1>7 DEF SameRest, SameQueues
  <2>2. c.numAccessesIssuedToMemory =
          q.numAccessesIssuedToMemory + Num(t.r.issuedToMemory) - Num(o.issuedToMemory)
    BY <1>6 DEF Counted
  <2> QED
    BY <1>7, <2>1, <2>2 DEF Swapped
<1>8. ASSUME t.all = FALSE, t.r \in Pending,
             t.q.numAccessesInMemorySystem =
               q.numAccessesInMemorySystem + Outstanding(t.r) - Outstanding(o),
             t.q.numAccessesInMemorySystem <= MemoryLimit,
             t.q.state = "MemoryNeedsRetry" => t.r.state = "RequestNeedsRetry"
      PROVE  Good(p, h) /\ Held(p) = Held(q) /\ p.lastMemBarrier = q.lastMemBarrier
  <2>1. p = FrontSet(t.q, t.r)
    BY <1>8
  <2>2. /\ Fields(p) /\ RestTyped(p) /\ SameRest(p, t.q)
        /\ p.requests = Put(t.q.requests, 1, t.r) /\ p.transfers = t.q.transfers
        /\ p.numStoresInTransfers = t.q.numStoresInTransfers
    BY <1>4, <1>5, <2>1, FrontSetIs
  <2>3. /\ p.requests = Put(q.requests, 1, t.r) /\ p.transfers = q.transfers /\ p.slots = q.slots
        /\ p.numStoresInTransfers = q.numStoresInTransfers
        /\ p.lastMemBarrier = q.lastMemBarrier
        /\ p.numAccessesInMemorySystem <= MemoryLimit
        /\ p.state = "MemoryNeedsRetry" => t.r.state = "RequestNeedsRetry"
    BY <1>5, <1>8, <2>2 DEF SameRest
  <2>4. Swapped(p, q, o, t.r)
    BY <1>7, <1>8, <2>2
  <2>5. IsLoad(t.r.inst) => Clear(q, t.r.inst)
    BY <1>3, <1>6
  <2>6. Good(p, h) /\ Held(p) = Held(q)
    BY <1>6, <1>8, <2>2, <2>3, <2>4, <2>5, FrontChanged
  <2> QED
    BY <2>3, <2>6
<1>9. q.numAccessesInMemorySystem \in Int /\ q.numAccessesInMemorySystem <= MemoryLimit
  BY <1>2, QueueTypes DEF Sizes
<1>10. CASE NotSent(t, c, r)
  <2>1. t.q = c /\ t.r = r /\ t.all = FALSE
    BY <1>10 DEF NotSent
  <2>2. t.q.numAccessesInMemorySystem =
          q.numAccessesInMemorySystem + Outstanding(t.r) - Outstanding(o)
    BY <1>1, <1>3, <1>9, <2>1
  <2>3. t.q.numAccessesInMemorySystem <= MemoryLimit /\ t.q.state = "MemoryRunning"
    BY <1>1, <1>9, <2>1
  <2> QED
    BY <1>8, <2>1, <2>2, <2>3
<1>11. CASE Refused(t, c, r)
  <2>1. /\ t.q.state = "MemoryNeedsRetry" /\ t.r.sent = r.sent /\ t.r.state = "RequestNeedsRetry"
        /\ t.all = FALSE /\ t.q.numAccessesInMemorySystem = q.numAccessesInMemorySystem
    BY <1>1, <1>3, <1>11 DEF Refused
  <2>2. t.r \in Pending /\ Outstanding(t.r) = Outstanding(o)
    BY <1>4, <2>1, SentRequest
  <2>3. t.q.numAccessesInMemorySystem =
          q.numAccessesInMemorySystem + Outstanding(t.r) - Outstanding(o)
    BY <1>3, <1>9, <2>1, <2>2
  <2> QED
    BY <1>8, <1>9, <2>1, <2>2, <2>3
<1>12. CASE Accepted(t, c, r)
  <2>1. /\ t.q.state = "MemoryRunning" /\ t.r.sent = r.sent + 1 /\ t.r.state = "RequestIssuing"
        /\ t.q.numAccessesInMemorySystem = q.numAccessesInMemorySystem + 1
        /\ t.all = (r.sent + 1 = NumFragments(r.inst))
        /\ CanSendToMemorySystem(c)
    BY <1>1, <1>3, <1>12 DEF Accepted
  <2>2. t.q.numAccessesInMemorySystem <= MemoryLimit
    BY <1>1, <2>1, CanSend
  <2>3. Outstanding(t.r) = Outstanding(o) + 1
    BY <1>4, <2>1, SentRequest
  <2>4. t.q.numAccessesInMemorySystem =
          q.numAccessesInMemorySystem + Outstanding(t.r) - Outstanding(o)
    BY <1>3, <1>9, <2>1, <2>3
  <2>5. CASE r.sent + 1 # NumFragments(r.inst)
    <3>1. t.r \in Pending
      BY <1>4, <2>1, <2>5, SentRequest
    <3>2. t.all = FALSE
      BY <2>1, <2>5
    <3> QED
      BY <1>8, <2>1, <2>2, <2>4, <3>1, <3>2
  <2>6. CASE r.sent + 1 = NumFragments(r.inst)
    <3>1. t.r \in Transferring
      BY <1>4, <2>1, <2>6, SentRequest
    <3>2a. t.all
      BY <2>1, <2>6
    <3>2. p = FrontMoved(t.q, t.r)
      BY <3>2a
    <3>3. /\ Fields(p) /\ RestTyped(p) /\ SameRest(p, t.q)
          /\ p.requests = Tail(t.q.requests) /\ p.transfers = Append(t.q.transfers, t.r)
          /\ p.numStoresInTransfers = t.q.numStoresInTransfers + Num(~t.r.isLoad)
      <4>1. PICK z, x : z = t.q /\ x = t.r
        OBVIOUS
      <4>2. z \in LSQs /\ p = FrontMoved(z, x)
        BY <1>4, <3>2, <4>1
      <4>3. MovedFront(FrontMoved(z, x), z, x)
        BY <4>2, FrontMovedTo
      <4>4. MovedFront(p, z, x)
        BY <4>2, <4>3, Zenon
      <4> QED
        BY <4>1, <4>4 DEF MovedFront
    <3>4. /\ p.requests = Tail(q.requests) /\ p.transfers = Append(q.transfers, t.r)
          /\ p.slots = q.slots /\ p.lastMemBarrier = q.lastMemBarrier
          /\ p.numStoresInTransfers = q.numStoresInTransfers + Num(~t.r.isLoad)
          /\ p.numAccessesInMemorySystem <= MemoryLimit /\ p.state = "MemoryRunning"
      BY <1>5, <2>1, <2>2, <3>3 DEF SameRest
    <3>5. Swapped(p, q, o, t.r)
      BY <1>7, <2>4, <3>3
    <3>6. Good(p, h) /\ Held(p) = Held(q)
      BY <1>6, <3>1, <3>3, <3>4, <3>5, FrontGone
    <3> QED
      BY <3>4, <3>6
  <2> QED
    BY <2>5, <2>6
<1> QED
  BY <1>4, <1>10, <1>11, <1>12

\* The queue is still good, and holds the same instructions.
Kept(p, q, h) == Good(p, h) /\ Held(p) = Held(q) /\ p.lastMemBarrier = q.lastMemBarrier

\* The front of requests goes to transfers without being sent.
LEMMA FrontUnsent ==
    ASSUME prog \in Seq(Instructions), NEW h \in Nat, NEW q, Good(q, h),
           q.requests # <<>>, NEW o, o = Head(q.requests), NEW x \in Transferring,
           x.inst = o.inst, x.issuedToMemory = o.issuedToMemory, Outstanding(x) = Outstanding(o),
           q.state = "MemoryRunning", Len(q.transfers) < TransfersSize,
           NEW p, p = FrontMoved(q, x)
    PROVE  Kept(p, q, h)
<1>1. q \in LSQs /\ Sizes(q) /\ OneRetry(q)
  BY GoodParts
<1>2. /\ Fields(p) /\ RestTyped(p) /\ SameRest(p, q)
      /\ p.requests = Tail(q.requests) /\ p.transfers = Append(q.transfers, x)
      /\ p.numStoresInTransfers = q.numStoresInTransfers + Num(~x.isLoad)
  BY <1>1, FrontMovedIs
<1>3. Swapped(p, q, o, x)
  <2> DEFINE a == Num(o.issuedToMemory)
             b == Outstanding(o)
             m == q.numAccessesIssuedToMemory
             n == q.numAccessesInMemorySystem
  <2>1. a \in Int /\ b \in Int /\ m \in Int /\ n \in Int
    <3>1. Outstanding(x) \in Int
      BY RequestFacts DEF Outstanding
    <3> QED
      BY <1>1, <3>1, QueueTypes DEF Num
  <2>2. /\ p.numUnissuedAccesses = q.numUnissuedAccesses
        /\ p.numAccessesIssuedToMemory = m /\ p.numAccessesInMemorySystem = n
        /\ Num(x.issuedToMemory) = a /\ Outstanding(x) = b
    BY <1>2 DEF SameRest
  <2> HIDE DEF a, b, m, n
  <2>3. m = m + a - a /\ n = n + b - b
    BY <2>1
  <2> QED
    BY <2>2, <2>3 DEF Swapped, a, b, m, n
<1>4. p.numAccessesInMemorySystem <= MemoryLimit /\ p.state = "MemoryRunning" /\ p.slots = q.slots
      /\ p.lastMemBarrier = q.lastMemBarrier
  BY <1>1, <1>2 DEF SameRest, Sizes
<1>5. NoneWaits(q)
  BY <1>1, RetryParts
<1>6. Good(p, h) /\ Held(p) = Held(q)
  BY <1>2, <1>3, <1>4, <1>5, FrontGone
<1> QED
  BY <1>4, <1>6 DEF Kept

\* What the store buffer says of an access.
LEMMA Coverage ==
    ASSUME prog \in Seq(Instructions), NEW q \in LSQs, NEW n
    PROVE  /\ Forwarding(q, n).coverage \in {"No", "Full", "Partial"}
           /\ Forwarding(q, n).coverage = "No" <=>
                \A i \in 1..Len(q.slots) : ~Overlaps(q.slots[i], n)
           /\ Forwarding(q, n).inst \in 0..Len(prog)
<1> DEFINE O == {i \in 1..Len(q.slots) :
                   ToSet(Lines(q.slots[i].inst)) \cap ToSet(Lines(n)) # {}}
           k == Max(O)
<1>1. O = {} <=> \A i \in 1..Len(q.slots) : ~Overlaps(q.slots[i], n)
  BY DEF Overlaps
<1>2. CASE O = {}
  BY <1>1, <1>2, ProgramFacts DEF Forwarding
<1>3. CASE O # {}
  <2>1. q.slots \in Seq(Slot) /\ Len(q.slots) \in Nat
    BY QueueTypes, LenProperties
  <2>2. k \in O
    <3> DEFINE l == Len(q.slots)
    <3>1. O \in SUBSET (0..l)
      BY <2>1
    <3> HIDE DEF O
    <3> QED
      BY <1>3, <2>1, <3>1, GreatestNatural
  <2>3. k \in 1..Len(q.slots)
    BY <2>2
  <2>4. q.slots[k] \in Slot
    BY <2>1, <2>3, ElementOfSeq
  <2>5. q.slots[k].inst \in 0..Len(prog)
    <3>1. q.slots[k].inst \in 1..Len(prog)
      BY <2>4, RequestFacts DEF Insts
    <3> QED
      BY <3>1, ProgramFacts
  <2>6. Forwarding(q, n) = [coverage |-> IF ToSet(Lines(n)) \subseteq ToSet(Lines(q.slots[k].inst))
                                         THEN "Full" ELSE "Partial",
                            inst |-> q.slots[k].inst]
    BY <1>3 DEF Forwarding
  <2> HIDE DEF k, O
  <2> QED
    BY <1>1, <1>3, <2>5, <2>6
<1> QED
  BY <1>2, <1>3

\* What a request may become when it leaves without being sent.
LEMMA UnsentRequest ==
    ASSUME prog \in Seq(Instructions), NEW o \in Pending, NEW x \in Request,
           x.inst = o.inst, x.sent = o.sent, x.retired = o.retired,
           x.issuedToMemory = o.issuedToMemory, x.isLoad = o.isLoad
    PROVE  /\ Outstanding(x) = Outstanding(o)
           /\ x.state = "Complete" /\ o.sent = o.retired /\ (x.skipped \/ IsLoad(o.inst))
                => x \in Transferring
           /\ x.state = "StoreToStoreBuffer" /\ IsStore(o.inst) /\ Bufferable(o.inst)
                /\ o.state # "Failed"
                => x \in Transferring
           /\ o.state = "Failed" \/ o.fault \/ ~HasPacketsInMemSystem(o) \/ ~Started(o)
                => o.sent = o.retired
<1>1. /\ o.inst \in Insts /\ NumFragments(o.inst) \in Nat /\ o.sent \in Nat /\ o.retired \in Nat
      /\ o.retired <= o.sent /\ o.sent < NumFragments(o.inst) /\ IsMemRef(o.inst)
  BY RequestFacts DEF Pending
<1>2. o.state = "Failed" \/ o.fault => o.sent = 0
  BY DEF Pending
<1>3. IsStore(o.inst) /\ Bufferable(o.inst) => o.sent = 0 /\ ~o.issuedToMemory
  BY DEF Pending
<1>4. o.state = "Failed" \/ o.fault \/ ~HasPacketsInMemSystem(o) \/ ~Started(o)
        => o.sent = o.retired
  BY <1>1, <1>2 DEF HasPacketsInMemSystem, Started
<1>5. Outstanding(x) = Outstanding(o)
  BY DEF Outstanding
<1> DEFINE k == NumFragments(o.inst)
<1>6. NumFragments(x.inst) = k /\ k \in Nat /\ o.sent < k /\ IsMemRef(x.inst)
  BY <1>1
<1> HIDE DEF k
<1>7. x.sent <= k /\ x.retired <= x.sent
  BY <1>1, <1>6
<1>7a. /\ IsLoad(x.inst) => x.isLoad
       /\ FailedStore(x) => o.state = "Failed" /\ ~IsLoad(o.inst)
  BY DEF Pending, FailedStore, IsStore, IsLoad
<1>8. ASSUME x.state = "Complete", o.sent = o.retired, x.skipped \/ IsLoad(o.inst)
      PROVE  x \in Transferring
  BY <1>6, <1>7, <1>7a, <1>8 DEF Transferring
<1>9. ASSUME x.state = "StoreToStoreBuffer", IsStore(o.inst), Bufferable(o.inst),
             o.state # "Failed"
      PROVE  x \in Transferring
  BY <1>3, <1>6, <1>7, <1>7a, <1>9 DEF Transferring
<1> QED
  BY <1>4, <1>5, <1>8, <1>9

\* What the front of requests becomes.
AsSkipped(r) == [r EXCEPT !.state = "Complete", !.skipped = TRUE]
AsStored(r) == [r EXCEPT !.state = "StoreToStoreBuffer"]
AsForwarded(q, r) ==
    [r EXCEPT !.state = "Complete",
              !.data = [k \in 1..Len(Lines(r.inst)) |-> Forwarding(q, r.inst).inst]]

FirstIssue(r) == ~Bufferable(r.inst) /\ ~r.issuedToMemory
AsIssued(r) == [r EXCEPT !.issuedToMemory = @ \/ FirstIssue(r)]
CountIssue(q, r) ==
    [q EXCEPT !.numAccessesIssuedToMemory = IF FirstIssue(r) THEN @ + 1 ELSE @]

AfterSending(t) == IF t.all THEN FrontMoved(t.q, t.r) ELSE FrontSet(t.q, t.r)

\* The ways in which tryToSendToTransfers ends.
LEMMA TransferCases ==
    ASSUME NEW q, NEW p \in TryToSendToTransfers(q), NEW r, r = Head(q.requests),
           NEW n, n = r.inst
    PROVE  \/ p = q
           \/ /\ q.state # "MemoryNeedsRetry" /\ q.requests # <<>> /\ r.state # "InTranslation"
              /\ Len(q.transfers) # TransfersSize
              /\ \/ /\ r.state = "Failed" \/ r.fault \/ (~RightStream(n) /\ ~HasPacketsInMemSystem(r))
                    /\ p = FrontMoved(q, AsSkipped(r))
                 \/ /\ r.state # "Failed" /\ ~r.fault /\ IsStore(n) /\ Bufferable(n)
                    /\ p = FrontMoved(q, AsStored(r))
                 \/ /\ r.state # "Failed" /\ ~r.fault /\ ~(IsStore(n) /\ Bufferable(n))
                    /\ RightStream(n) /\ ~MustStall(q, n) /\ MayPerform(q, n)
                    /\ \/ /\ IsLoad(n) /\ Forwarding(q, n).coverage = "Full"
                          /\ p = FrontMoved(q, AsForwarded(q, r))
                       \/ /\ IsLoad(n) => Forwarding(q, n).coverage \notin {"Full", "Partial"}
                          /\ \E t \in TryToSend(CountIssue(q, r), AsIssued(r)) :
                               p = AfterSending(t)
<1> DEFINE f == Forwarding(q, n)
           skipped == FrontMoved(q, AsSkipped(r))
           stored == FrontMoved(q, AsStored(r))
           forwarded == FrontMoved(q, AsForwarded(q, r))
           T == TryToSend(CountIssue(q, r), AsIssued(r))
<1>1. TryToSendToTransfers(q) =
        IF \/ q.state = "MemoryNeedsRetry"
           \/ q.requests = <<>>
           \/ r.state = "InTranslation"
           \/ Len(q.transfers) = TransfersSize
        THEN {q}
        ELSE IF r.state = "Failed" THEN {skipped}
        ELSE IF ~RightStream(n) THEN {IF HasPacketsInMemSystem(r) THEN q ELSE skipped}
        ELSE IF r.fault THEN {skipped}
        ELSE IF IsStore(n) /\ Bufferable(n) THEN {stored}
        ELSE IF MustStall(q, n) \/ ~MayPerform(q, n) THEN {q}
        ELSE IF IsLoad(n) /\ f.coverage = "Full" THEN {forwarded}
        ELSE IF IsLoad(n) /\ f.coverage = "Partial" THEN {q}
        ELSE IF ~CanSendToMemorySystem(q) THEN {q}
        ELSE {AfterSending(t) : t \in T}
  BY DEF TryToSendToTransfers, AsSkipped, AsStored, AsForwarded, AfterSending, CountIssue,
         AsIssued, FirstIssue
<1> HIDE DEF skipped, stored, forwarded, T, f
<1> QED
  BY <1>1 DEF skipped, stored, forwarded, T, f

LEMMA FrontRequest ==
    ASSUME prog \in Seq(Instructions), NEW h, NEW q, Good(q, h), q.requests # <<>>,
           NEW o, o = Head(q.requests)
    PROVE  o \in Pending /\ o \in Request /\ o.inst \in Insts
<1> DEFINE s == q.requests
<1>1. s \in Seq(Pending) /\ s # <<>> /\ o = Head(s)
  BY GoodParts, QueueTypes
<1> HIDE DEF s
<1>2. o \in Pending
  BY <1>1, HeadTailProperties
<1> QED
  BY <1>2, RequestFacts

\* What tryToSendToTransfers sends: the front of requests, which may now count as issued.
LEMMA IssuedFront ==
    ASSUME prog \in Seq(Instructions), NEW q \in LSQs, q.state = "MemoryRunning",
           NEW r \in Pending, r.state \notin {"InTranslation", "Failed"}, ~r.fault,
           ~(IsStore(r.inst) /\ Bufferable(r.inst)),
           NEW c, c = CountIssue(q, r), NEW s, s = AsIssued(r)
    PROVE  /\ s \in Pending /\ Sendable(s, r) /\ s.skipped = r.skipped /\ s.data = r.data
           /\ s.issuedToMemory = (r.issuedToMemory \/ FirstIssue(r))
           /\ c \in LSQs /\ Counted(c, q, r, s) /\ c.mem = q.mem
<1> DEFINE n == r.inst
           first == FirstIssue(r)
<1>9. r \in Request
  BY DEF Pending
<1>1. /\ s \in Request /\ s.inst = n /\ s.sent = r.sent /\ s.retired = r.retired
      /\ s.state = r.state /\ s.fault = r.fault /\ s.skipped = r.skipped /\ s.data = r.data
      /\ s.issuedToMemory = (r.issuedToMemory \/ first) /\ s.isLoad = r.isLoad
      /\ r.issuedToMemory \in BOOLEAN
  BY <1>9 DEF Request, AsIssued
<1>2. s \in Pending
  BY <1>1 DEF Pending
<1>3. Sendable(s, r)
  <2>1. r.state \in {"Translated", "RequestIssuing", "RequestNeedsRetry"}
    BY  DEF Pending
  <2> QED
    BY <1>1, <2>1 DEF Sendable
<1>4. q.numAccessesIssuedToMemory \in Int
  BY QueueTypes
<1>5. /\ c \in LSQs /\ c.requests = q.requests /\ c.transfers = q.transfers
      /\ c.mem = q.mem /\ c.slots = q.slots /\ c.lastMemBarrier = q.lastMemBarrier /\ c.state = q.state
      /\ c.numStoresInTransfers = q.numStoresInTransfers
      /\ c.numUnissuedAccesses = q.numUnissuedAccesses
      /\ c.numAccessesInMemorySystem = q.numAccessesInMemorySystem
      /\ c.numAccessesIssuedToMemory = IF first THEN q.numAccessesIssuedToMemory + 1
                                       ELSE q.numAccessesIssuedToMemory
  <2> DEFINE k == IF first THEN q.numAccessesIssuedToMemory + 1
                  ELSE q.numAccessesIssuedToMemory
  <2>1. k \in Int
    BY <1>4
  <2>2. c = [q EXCEPT !.numAccessesIssuedToMemory = k]
    BY DEF CountIssue
  <2> HIDE DEF k, first, n
  <2> QED
    BY <2>1, <2>2 DEF LSQs, k
<1>6. c.numAccessesIssuedToMemory =
        q.numAccessesIssuedToMemory + Num(s.issuedToMemory) - Num(r.issuedToMemory)
  <2> DEFINE k == q.numAccessesIssuedToMemory
  <2>1. k \in Int /\ c.numAccessesIssuedToMemory = IF first THEN k + 1 ELSE k
    BY <1>4, <1>5
  <2>2. first => ~r.issuedToMemory
    BY DEF FirstIssue
  <2>3. Num(s.issuedToMemory) = Num(r.issuedToMemory) + Num(first)
        /\ Num(r.issuedToMemory) \in Int
    <3>1. s.issuedToMemory <=> (r.issuedToMemory \/ first)
      BY <1>1
    <3>2. /\ Num(s.issuedToMemory) = IF s.issuedToMemory THEN 1 ELSE 0
          /\ Num(r.issuedToMemory) = IF r.issuedToMemory THEN 1 ELSE 0
          /\ Num(first) = IF first THEN 1 ELSE 0
      BY DEF Num
    <3> HIDE DEF first
    <3>3. CASE first
      BY <2>2, <3>1, <3>2, <3>3
    <3>4. CASE ~first
      <4>1. CASE r.issuedToMemory
        BY <3>1, <3>2, <3>4, <4>1
      <4>2. CASE ~r.issuedToMemory
        BY <3>1, <3>2, <3>4, <4>2
      <4> QED
        BY <4>1, <4>2
    <3> QED
      BY <3>3, <3>4
  <2> HIDE DEF k, first
  <2>4. (IF first THEN k + 1 ELSE k) = k + Num(first)
    BY <2>1 DEF Num
  <2>5. Num(first) \in Int
    BY DEF Num
  <2>6. k + Num(first) = k + Num(s.issuedToMemory) - Num(r.issuedToMemory)
    BY <2>1, <2>3, <2>5
  <2> QED
    BY <2>1, <2>4, <2>6 DEF k
<1>7. Counted(c, q, r, s)
  BY <1>5, <1>6 DEF Counted
<1> QED
  BY <1>1, <1>2, <1>3, <1>5, <1>7

LEMMA ForwardedTransfer ==
    ASSUME prog \in Seq(Instructions), NEW h, NEW q, Good(q, h), q.requests # <<>>,
           NEW r, r = Head(q.requests), IsLoad(r.inst),
           Forwarding(q, r.inst).coverage = "Full", NEW x, x = AsForwarded(q, r)
    PROVE  /\ x \in Transferring /\ x.inst = r.inst /\ x.issuedToMemory = r.issuedToMemory
           /\ Outstanding(x) = Outstanding(r)
<1> DEFINE n == r.inst
           d == [k \in 1..Len(Lines(n)) |-> Forwarding(q, n).inst]
<1>1. r \in Pending /\ r \in Request /\ n \in Insts
  BY FrontRequest
<1>2. q \in LSQs /\ FrontFirst(q)
  BY GoodParts
<1>3. /\ Forwarding(q, n).coverage = "No" <=> \A i \in 1..Len(q.slots) : ~Overlaps(q.slots[i], n)
      /\ Forwarding(q, n).inst \in 0..Len(prog)
  BY <1>2, Coverage
<1>4. ~Started(r)
  <2>1. ~Clear(q, n)
    BY <1>3 DEF Clear
  <2> QED
    BY <1>2, <2>1, FirstParts
<1>5. d \in Seq(0..Len(prog))
  <2> DEFINE i == Forwarding(q, n).inst
             l == Len(Lines(n))
  <2>1. l \in Nat /\ i \in 0..Len(prog)
    BY <1>1, <1>3, ProgramFacts DEF NumFragments
  <2> HIDE DEF i, l
  <2>2. [k \in 1..l |-> i] \in Seq(0..Len(prog))
    BY <2>1, SeqDef
  <2> QED
    BY <2>2 DEF i, l
<1>6. x = [r EXCEPT !.state = "Complete", !.data = d]
  BY DEF AsForwarded
<1> HIDE DEF d
<1>7. /\ x \in Request /\ x.inst = n /\ x.sent = r.sent
      /\ x.retired = r.retired /\ x.issuedToMemory = r.issuedToMemory
      /\ x.state = "Complete" /\ x.isLoad = r.isLoad
  BY <1>1, <1>5, <1>6 DEF Request, States
<1>8. x \in Transferring /\ Outstanding(x) = Outstanding(r)
  BY <1>1, <1>4, <1>7, UnsentRequest
<1> QED
  BY <1>7, <1>8

LEMMA TransfersKept ==
    ASSUME prog \in Seq(Instructions), NEW h \in Nat, NEW q, Good(q, h),
           NEW p \in TryToSendToTransfers(q)
    PROVE  Kept(p, q, h)
<1>1. CASE p = q
  BY <1>1 DEF Kept
<1> DEFINE r == Head(q.requests)
           n == r.inst
           first == FirstIssue(r)
           c == CountIssue(q, r)
           s == AsIssued(r)
           skipped == AsSkipped(r)
           stored == AsStored(r)
           forwarded == AsForwarded(q, r)
<1> SUFFICES ASSUME p # q PROVE Kept(p, q, h)
  BY <1>1
<1>2. /\ q.state # "MemoryNeedsRetry" /\ q.requests # <<>> /\ r.state # "InTranslation"
      /\ Len(q.transfers) # TransfersSize
      /\ \/ /\ r.state = "Failed" \/ r.fault \/ ~HasPacketsInMemSystem(r)
            /\ p = FrontMoved(q, skipped)
         \/ /\ r.state # "Failed" /\ IsStore(n) /\ Bufferable(n)
            /\ p = FrontMoved(q, stored)
         \/ /\ r.state # "Failed" /\ ~r.fault /\ ~(IsStore(n) /\ Bufferable(n))
            /\ ~MustStall(q, n)
            /\ \/ /\ IsLoad(n) /\ Forwarding(q, n).coverage = "Full"
                  /\ p = FrontMoved(q, forwarded)
               \/ /\ IsLoad(n) => Forwarding(q, n).coverage \notin {"Full", "Partial"}
                  /\ \E t \in TryToSend(c, s) :
                       p = AfterSending(t)
  <2> HIDE DEF r
  <2> QED
    BY TransferCases DEF r
<1>3. q \in LSQs /\ Sizes(q) /\ OneRetry(q) /\ FrontFirst(q)
  BY GoodParts
<1>4. q.state = "MemoryRunning" /\ NoneWaits(q)
  BY <1>2, <1>3, QueueTypes, RetryParts
<1>5. Len(q.transfers) < TransfersSize
  <2> DEFINE l == Len(q.transfers)
  <2>1. l \in Nat /\ l <= TransfersSize /\ l # TransfersSize
    BY <1>2, <1>3, QueueTypes, LenProperties DEF Sizes
  <2>2. TransfersSize \in Nat
    BY LSQAssumption
  <2> HIDE DEF l
  <2>3. l < TransfersSize
    BY <2>1, <2>2
  <2> QED
    BY <2>3 DEF l
<1>6. r \in Pending /\ r \in Request /\ n \in Insts
  BY <1>2, FrontRequest
<1>7. /\ Forwarding(q, n).coverage \in {"No", "Full", "Partial"}
      /\ Forwarding(q, n).coverage = "No" <=> \A i \in 1..Len(q.slots) : ~Overlaps(q.slots[i], n)
      /\ Forwarding(q, n).inst \in 0..Len(prog)
  BY <1>3, Coverage
<1>8. ASSUME NEW x \in Transferring, x.inst = r.inst, x.issuedToMemory = r.issuedToMemory,
             Outstanding(x) = Outstanding(r), p = FrontMoved(q, x)
      PROVE  Kept(p, q, h)
  <2> HIDE DEF r, n
  <2> QED
    BY <1>2, <1>4, <1>5, <1>8, FrontUnsent DEF r
<1>9. CASE /\ r.state = "Failed" \/ r.fault \/ ~HasPacketsInMemSystem(r)
           /\ p = FrontMoved(q, skipped)
  <2>1. /\ skipped \in Request /\ skipped.inst = n /\ skipped.sent = r.sent
        /\ skipped.retired = r.retired /\ skipped.issuedToMemory = r.issuedToMemory
        /\ skipped.state = "Complete" /\ skipped.isLoad = r.isLoad /\ skipped.skipped
    BY <1>6 DEF Request, States, AsSkipped
  <2> HIDE DEF skipped
  <2>2. skipped \in Transferring /\ Outstanding(skipped) = Outstanding(r)
    BY <1>6, <1>9, <2>1, UnsentRequest
  <2> QED
    BY <1>8, <1>9, <2>1, <2>2
<1>10. CASE r.state # "Failed" /\ IsStore(n) /\ Bufferable(n) /\ p = FrontMoved(q, stored)
  <2>1. /\ stored \in Request /\ stored.inst = n /\ stored.sent = r.sent
        /\ stored.retired = r.retired /\ stored.issuedToMemory = r.issuedToMemory
        /\ stored.state = "StoreToStoreBuffer" /\ stored.isLoad = r.isLoad
    BY <1>6 DEF Request, States, AsStored
  <2> HIDE DEF stored
  <2>2. stored \in Transferring /\ Outstanding(stored) = Outstanding(r)
    BY <1>6, <1>10, <2>1, UnsentRequest
  <2> QED
    BY <1>8, <1>10, <2>1, <2>2
<1>11. CASE IsLoad(n) /\ Forwarding(q, n).coverage = "Full" /\ p = FrontMoved(q, forwarded)
  <2>1. /\ forwarded \in Transferring /\ forwarded.inst = n
        /\ forwarded.issuedToMemory = r.issuedToMemory /\ Outstanding(forwarded) = Outstanding(r)
    <3> HIDE DEF r
    <3> QED
      BY <1>2, <1>11, ForwardedTransfer DEF r
  <2> QED
    BY <1>8, <1>11, <2>1
<1>12. CASE /\ r.state # "Failed" /\ ~r.fault /\ ~(IsStore(n) /\ Bufferable(n))
            /\ ~MustStall(q, n)
            /\ IsLoad(n) => Forwarding(q, n).coverage \notin {"Full", "Partial"}
            /\ \E t \in TryToSend(c, s) :
                 p = AfterSending(t)
  <2>1. r.inst = n /\ r.state \notin {"InTranslation", "Failed"}
    BY <1>2, <1>12
  <2>2. s \in Pending /\ Sendable(s, r) /\ c \in LSQs /\ Counted(c, q, r, s)
    <3> HIDE DEF r, n
    <3>1. r \in Pending /\ ~r.fault /\ ~(IsStore(r.inst) /\ Bufferable(r.inst))
      BY <1>6, <1>12, <2>1
    <3> QED
      BY <1>3, <1>4, <2>1, <3>1, IssuedFront
  <2>3. s.inst = n
    BY <2>1, <2>2 DEF Sendable
  <2>4. IsLoad(s.inst) => Clear(q, s.inst)
    BY <1>7, <1>12, <2>3 DEF MustStall, Clear
  <2>5. PICK t \in TryToSend(c, s) :
          p = IF t.all THEN FrontMoved(t.q, t.r) ELSE FrontSet(t.q, t.r)
    BY <1>12 DEF AfterSending
  <2> HIDE DEF r, n, s, c, first
  <2>6. Good(p, h) /\ Held(p) = Held(q) /\ p.lastMemBarrier = q.lastMemBarrier
    BY <1>2, <1>4, <1>5, <2>2, <2>4, <2>5, SendFront DEF r
  <2> QED
    BY <2>6 DEF Kept
<1> QED
  BY <1>2, <1>9, <1>10, <1>11, <1>12

----------------------------------------------------------------------------
(* Translation. *)

LEMMA FreshPut ==
    ASSUME NEW X, NEW s \in Seq(X), NEW k \in 1..Len(s), NEW x \in X
    PROVE  /\ Len(Put(s, k, x)) = Len(s) /\ Put(s, k, x) # <<>> /\ s # <<>>
           /\ Head(Put(s, k, x)) = IF k = 1 THEN x ELSE Head(s)
           /\ Head(s) = s[1]
           /\ ~Started(x) /\ FreshFrom(s, 2) => FreshFrom(Put(s, k, x), 2)
<1> DEFINE n == Len(s)
           t == [s EXCEPT ![k] = x]
<1>1. n \in Nat \ {0} /\ DOMAIN s = 1..n /\ k \in 1..n
  BY LenProperties
<1>2. t \in Seq(X) /\ Len(t) = n
  BY <1>1, ExceptSeq
<1>3. \A i \in 1..n : t[i] = IF i = k THEN x ELSE s[i]
  BY <1>1
<1> HIDE DEF n, t
<1>4. t # <<>> /\ s # <<>>
  BY <1>1, <1>2, EmptySeq DEF n
<1>5. Head(t) = t[1] /\ Head(s) = s[1]
  BY <1>2, <1>4, HeadTailProperties
<1>6. t[1] = IF k = 1 THEN x ELSE s[1]
  BY <1>1, <1>3
<1>7. ~Started(x) /\ FreshFrom(s, 2) => FreshFrom(t, 2)
  <2>1. \A i \in 2..n : i \in 1..n
    BY <1>1
  <2> QED
    BY <1>2, <1>3, <2>1 DEF FreshFrom, n
<1> QED
  BY <1>2, <1>4, <1>5, <1>6, <1>7 DEF Put, t, n

Translated(q, i, f) ==
    [q EXCEPT !.requests[i].state = "Translated", !.requests[i].fault = f]

AsTranslated(o, f) == [o EXCEPT !.state = "Translated", !.fault = f]

LEMMA TranslatedIs ==
    ASSUME prog \in Seq(Instructions), NEW q \in LSQs, NEW i \in 1..Len(q.requests),
           NEW o, o = q.requests[i], o.state = "InTranslation", NEW f \in BOOLEAN,
           NEW x, x = AsTranslated(o, f), NEW p, p = Translated(q, i, f)
    PROVE  /\ Fields(p) /\ RestTyped(p) /\ SameRest(p, q)
           /\ p.requests = Put(q.requests, i, x) /\ p.transfers = q.transfers
           /\ p.numStoresInTransfers = q.numStoresInTransfers
           /\ o \in Pending /\ x \in Pending /\ x.inst = o.inst /\ x.sent = 0 /\ o.sent = 0
           /\ x.retired = o.retired /\ x.state = "Translated" /\ ~Started(x)
           /\ x.issuedToMemory = o.issuedToMemory /\ o.issuedToMemory \in BOOLEAN
           /\ x.skipped = o.skipped /\ x.data = o.data
<1> DEFINE s == q.requests
<1>1. s \in Seq(Pending) /\ DOMAIN s = 1..Len(s) /\ o \in Pending /\ o = s[i]
  BY QueueTypes, ElementOfSeq, LenProperties
<1>2. p = [q EXCEPT !.requests = Put(s, i, x)]
  <2>1. p = [q EXCEPT !.requests = [[s EXCEPT ![i].state = "Translated"] EXCEPT ![i].fault = f]]
    BY DEF LSQs, Translated
  <2>2. [[s EXCEPT ![i].state = "Translated"] EXCEPT ![i].fault = f] = Put(s, i, x)
    <3> HIDE DEF s
    <3> QED
      BY <1>1 DEF Put, AsTranslated
  <2> QED
    BY <2>1, <2>2
<1>3. /\ Fields(p) /\ RestTyped(p) /\ SameRest(p, q)
      /\ p.requests = Put(s, i, x) /\ p.transfers = q.transfers
      /\ p.numStoresInTransfers = q.numStoresInTransfers
  BY <1>2 DEF LSQs, Fields, RestTyped, SameRest
<1>4. o \in Request
  BY <1>1 DEF Pending
<1>5. /\ x \in Request /\ x.inst = o.inst /\ x.sent = o.sent /\ x.retired = o.retired
      /\ x.issuedToMemory = o.issuedToMemory /\ x.state = "Translated"
      /\ x.skipped = o.skipped /\ x.data = o.data /\ x.isLoad = o.isLoad
      /\ o.issuedToMemory \in BOOLEAN
  BY <1>4 DEF Request, States, AsTranslated
<1>6. o.sent = 0
  BY <1>1 DEF Pending
<1>7. x \in Pending /\ ~Started(x)
  BY <1>1, <1>5, <1>6 DEF Pending, Started
<1> QED
  BY <1>1, <1>3, <1>5, <1>6, <1>7

LEMMA TranslatedKept ==
    ASSUME prog \in Seq(Instructions), NEW h \in Nat, NEW q, Good(q, h),
           NEW i \in 1..Len(q.requests), q.requests[i].state = "InTranslation",
           NEW f \in BOOLEAN, NEW p, p = Translated(q, i, f)
    PROVE  Kept(p, q, h)
<1> DEFINE s == q.requests
           o == s[i]
           x == AsTranslated(o, f)
<1>1. /\ q \in LSQs /\ Ordered(q, h) /\ CountsMatch(q)
      /\ Sizes(q) /\ OneRetry(q) /\ FrontFirst(q)
  BY GoodParts
<1>2. s \in Seq(Pending) /\ DOMAIN s = 1..Len(s) /\ o \in Pending
  BY <1>1, QueueTypes, ElementOfSeq, LenProperties
<1>3. /\ Fields(p) /\ RestTyped(p) /\ SameRest(p, q)
      /\ p.requests = Put(s, i, x) /\ p.transfers = q.transfers
      /\ p.numStoresInTransfers = q.numStoresInTransfers
      /\ x.inst = o.inst /\ x.sent = 0 /\ o.sent = 0 /\ x.retired = o.retired /\ ~Started(x)
      /\ x.issuedToMemory = o.issuedToMemory /\ x \in Pending /\ o.issuedToMemory \in BOOLEAN
  BY <1>1, TranslatedIs
<1>4. /\ Fields(p) /\ RestTyped(p) /\ SameRest(p, q)
      /\ p.requests = Put(s, i, x) /\ p.transfers = q.transfers
      /\ p.numStoresInTransfers = q.numStoresInTransfers
  BY <1>3
<1>5. /\ x.inst = o.inst /\ x.sent = 0 /\ o.sent = 0 /\ x.retired = o.retired /\ ~Started(x)
      /\ x.issuedToMemory = o.issuedToMemory /\ x \in Pending /\ o.issuedToMemory \in BOOLEAN
  BY <1>3
<1>6. Outstanding(x) = Outstanding(o) /\ Outstanding(o) \in Int
  BY <1>2, <1>5, RequestFacts DEF Outstanding
<1> HIDE DEF x, o
<1>7. p \in LSQs /\ Ordered(p, h) /\ CountsMatch(p) /\ Held(p) = Held(q)
  <2>1. Swapped(p, q, o, x)
    <3> DEFINE a == Num(o.issuedToMemory)
               b == Outstanding(o)
               m == q.numAccessesIssuedToMemory
               n == q.numAccessesInMemorySystem
    <3>1. a \in Int /\ b \in Int /\ m \in Int /\ n \in Int
      BY <1>1, <1>6, QueueTypes DEF Num
    <3>2. /\ p.numUnissuedAccesses = q.numUnissuedAccesses
          /\ p.numAccessesIssuedToMemory = m /\ p.numAccessesInMemorySystem = n
          /\ Num(x.issuedToMemory) = a /\ Outstanding(x) = b
      BY <1>4, <1>5, <1>6 DEF SameRest
    <3> HIDE DEF a, b, m, n
    <3>3. m = m + a - a /\ n = n + b - b
      BY <3>1
    <3> QED
      BY <3>2, <3>3 DEF Swapped, a, b, m, n
  <2>2. /\ p.numUnissuedAccesses = q.numUnissuedAccesses
        /\ p.numAccessesIssuedToMemory =
             q.numAccessesIssuedToMemory + Num(x.issuedToMemory) - Num(o.issuedToMemory)
        /\ p.numAccessesInMemorySystem =
             q.numAccessesInMemorySystem + Outstanding(x) - Outstanding(o)
    BY <2>1 DEF Swapped
  <2>3. p.slots = q.slots /\ p.requests = Put(q.requests, i, x) /\ o = q.requests[i]
    BY <1>4 DEF SameRest, o
  <2> QED
    BY <1>1, <1>4, <1>5, <2>2, <2>3, RequestUpdated
<1>8. /\ Len(p.requests) = Len(q.requests) /\ p.requests # <<>> /\ q.requests # <<>>
      /\ Head(p.requests) = IF i = 1 THEN x ELSE Head(q.requests)
      /\ Head(q.requests) = q.requests[1]
      /\ FreshFrom(q.requests, 2) => FreshFrom(p.requests, 2)
  <2>1. s \in Seq(Pending) /\ i \in 1..Len(s) /\ x \in Pending /\ p.requests = Put(s, i, x)
        /\ ~Started(x)
    BY <1>2, <1>4, <1>5
  <2> HIDE DEF s
  <2>2. /\ Len(p.requests) = Len(s) /\ p.requests # <<>> /\ s # <<>>
        /\ Head(p.requests) = IF i = 1 THEN x ELSE Head(s)
        /\ Head(s) = s[1]
        /\ FreshFrom(s, 2) => FreshFrom(p.requests, 2)
    BY <2>1, FreshPut
  <2> QED
    BY <2>2 DEF s
<1>9. p.slots = q.slots /\ p.state = q.state /\ p.lastMemBarrier = q.lastMemBarrier
      /\ p.numAccessesInMemorySystem = q.numAccessesInMemorySystem
  BY <1>4 DEF SameRest
<1>10. Sizes(p)
  BY <1>1, <1>4, <1>8, <1>9 DEF Sizes
<1>11. OneRetry(p)
  <2>1. (NoneWaits(p) <=> NoneWaits(q)) /\ (OneWaits(p) <=> OneWaits(q))
    BY <1>9 DEF NoneWaits, OneWaits
  <2>2. FrontWaits(q) => FrontWaits(p)
    BY <1>4, <1>8 DEF FrontWaits
  <2> QED
    BY <1>1, <1>9, <2>1, <2>2, RetryParts
<1>12. FrontFirst(p)
  <2>1. \A n : Clear(q, n) => Clear(p, n)
    BY <1>4, <1>9 DEF Clear
  <2> QED
    BY <1>1, <1>5, <1>8, <2>1, FirstParts
<1> QED
  BY <1>7, <1>9, <1>10, <1>11, <1>12, GoodParts DEF Kept

\* finish keeps the shape of the queue.
LEMMA FinishKept ==
    ASSUME prog \in Seq(Instructions), NEW h \in Nat, NEW q, Good(q, h),
           NEW i \in 1..Len(q.requests), q.requests[i].state = "InTranslation",
           NEW f \in BOOLEAN, NEW p \in FinishTranslation(q, i, f)
    PROVE  Kept(p, q, h)
<1> DEFINE t == Translated(q, i, f)
<1>1. Kept(t, q, h)
  BY TranslatedKept
<1>2. p \in IF i = 1 THEN TryToSendToTransfers(t) ELSE {t}
  BY DEF FinishTranslation, Translated
<1> HIDE DEF t
<1>3. p = t \/ p \in TryToSendToTransfers(t)
  BY <1>2
<1>4. CASE p \in TryToSendToTransfers(t)
  BY <1>1, <1>4, TransfersKept DEF Kept
<1> QED
  BY <1>1, <1>3, <1>4

LEMMA FreshAppend ==
    ASSUME NEW X, NEW s \in Seq(X), NEW x \in X, ~Started(x)
    PROVE  /\ Len(Append(s, x)) = Len(s) + 1 /\ Append(s, x) # <<>>
           /\ Append(s, x)[Len(s) + 1] = x
           /\ s = <<>> => Head(Append(s, x)) = x
           /\ s # <<>> => Head(Append(s, x)) = Head(s)
           /\ FreshFrom(s, 2) => FreshFrom(Append(s, x), 2)
<1> DEFINE n == Len(s)
           t == Append(s, x)
<1>1. /\ n \in Nat /\ t \in Seq(X) /\ Len(t) = n + 1
      /\ \A i \in 1..n : t[i] = s[i]
      /\ t[n + 1] = x
  BY AppendProperties, LenProperties
<1>2. t # <<>> /\ (s = <<>> => n = 0) /\ (s # <<>> => n # 0)
  BY AppendProperties, EmptySeq
<1> HIDE DEF n, t
<1>3. Head(t) = t[1] /\ (s # <<>> => Head(s) = s[1])
  BY <1>1, <1>2, HeadTailProperties
<1>4. s = <<>> => Head(t) = x
  BY <1>1, <1>2, <1>3
<1>5. n # 0 => 1 \in 1..n
  BY <1>1
<1>6. s # <<>> => Head(t) = Head(s)
  BY <1>1, <1>2, <1>3, <1>5
<1>7. \A i \in 2..(n + 1) : (i \in 2..n /\ i \in 1..n) \/ i = n + 1
  BY <1>1
<1>8. FreshFrom(s, 2) => FreshFrom(t, 2)
  BY <1>1, <1>7 DEF FreshFrom, n
<1> QED
  BY <1>1, <1>2, <1>4, <1>6, <1>8 DEF t, n

\* Access n may be pushed: it is younger than what the queue holds.
Pushable(q, h, n) ==
    /\ n \in Insts /\ IsMemRef(n) /\ n >= h
    /\ \A m \in Held(q) : m < n

Pushed(q, n, state) == [q EXCEPT !.requests = Append(@, NewRequest(n, state))]

\* The queue holds one more access.
Grown(p, q, h, n) ==
    Good(p, h) /\ Held(p) = Held(q) \cup {n} /\ p.lastMemBarrier = q.lastMemBarrier

LEMMA NewIsPending ==
    ASSUME prog \in Seq(Instructions), NEW n \in Insts, IsMemRef(n),
           NEW state \in {"InTranslation", "Failed"}, NEW r, r = NewRequest(n, state)
    PROVE  /\ r \in Pending /\ r.inst = n /\ r.state = state /\ ~Started(r)
           /\ r.issuedToMemory = FALSE /\ Outstanding(r) = 0
<1>1. /\ r.inst = n /\ r.state = state /\ r.sent = 0 /\ r.retired = 0
      /\ r.issuedToMemory = FALSE /\ r.fault = FALSE
      /\ r.isLoad <=> IsLoad(n) \/ state = "Failed"
  BY DEF NewRequest
<1>2. <<>> \in Seq(0..Len(prog))
  BY EmptySeq
<1>3. r \in Request
  BY <1>2 DEF NewRequest, Request, States
<1>4. NumFragments(n) \in Nat /\ 0 < NumFragments(n)
  BY ProgramFacts
<1> DEFINE k == NumFragments(n)
<1>5. NumFragments(r.inst) = k /\ k \in Nat /\ 0 < k
  BY <1>1, <1>4
<1> HIDE DEF k
<1>6. r \in Pending
  BY <1>1, <1>3, <1>5 DEF Pending
<1> QED
  BY <1>1, <1>6 DEF Started, Outstanding

LEMMA PushedGrows ==
    ASSUME prog \in Seq(Instructions), NEW h \in Nat, NEW q, Good(q, h), CanRequest(q),
           NEW n, Pushable(q, h, n), NEW state \in {"InTranslation", "Failed"},
           NEW p, p = Pushed(q, n, state)
    PROVE  /\ Grown(p, q, h, n) /\ Len(q.requests) + 1 \in 1..Len(p.requests)
           /\ p.requests[Len(q.requests) + 1].state = state
<1> DEFINE r == NewRequest(n, state)
           s == q.requests
           l == Len(s)
<1>1. /\ q \in LSQs /\ Ordered(q, h) /\ CountsMatch(q)
      /\ Sizes(q) /\ OneRetry(q) /\ FrontFirst(q)
  BY GoodParts
<1>2. n \in Insts /\ IsMemRef(n) /\ n >= h /\ \A m \in Held(q) : m < n
  BY DEF Pushable
<1>3. /\ r \in Pending /\ r.inst = n /\ r.state = state /\ ~Started(r)
      /\ r.issuedToMemory = FALSE /\ Outstanding(r) = 0
  BY <1>2, NewIsPending
<1> HIDE DEF r
<1>4. /\ Fields(p) /\ RestTyped(p) /\ SameRest(p, q)
      /\ p.requests = Append(s, r) /\ p.transfers = q.transfers
      /\ p.numStoresInTransfers = q.numStoresInTransfers
  BY <1>1 DEF LSQs, Fields, RestTyped, SameRest, Pushed, r
<1>5. /\ p.slots = q.slots /\ p.state = q.state /\ p.lastMemBarrier = q.lastMemBarrier
      /\ p.numUnissuedAccesses = q.numUnissuedAccesses
      /\ p.numAccessesIssuedToMemory = q.numAccessesIssuedToMemory
      /\ p.numAccessesInMemorySystem = q.numAccessesInMemorySystem
  BY <1>4 DEF SameRest
<1>6. p \in LSQs /\ Ordered(p, h) /\ CountsMatch(p) /\ Held(p) = Held(q) \cup {n}
  <2>1. \A m \in Insts : Has(q.requests, m) \/ Has(q.transfers, m) => m < r.inst
    BY <1>2, <1>3 DEF Held
  <2>2. r.inst >= h /\ ~r.issuedToMemory
    BY <1>2, <1>3
  <2>3. Held(p) = Held(q) \cup {r.inst} /\ p \in LSQs /\ Ordered(p, h) /\ CountsMatch(p)
    BY <1>1, <1>3, <1>4, <1>5, <2>1, <2>2, RequestAdded
  <2> QED
    BY <1>3, <2>3
<1>7. s \in Seq(Pending) /\ l \in Nat
  BY <1>1, QueueTypes, LenProperties
<1>8. /\ Len(p.requests) = l + 1 /\ p.requests # <<>> /\ p.requests[l + 1] = r
      /\ s = <<>> => Head(p.requests) = r
      /\ s # <<>> => Head(p.requests) = Head(s)
      /\ FreshFrom(s, 2) => FreshFrom(p.requests, 2)
  <2> HIDE DEF s
  <2> QED
    BY <1>3, <1>4, <1>7, FreshAppend
<1>9. Sizes(p)
  <2>1. l < RequestsSize
    BY DEF CanRequest
  <2>2. RequestsSize \in Nat
    BY LSQAssumption
  <2> HIDE DEF l
  <2>3. Len(p.requests) <= RequestsSize
    BY <1>7, <1>8, <2>1, <2>2
  <2> QED
    BY <1>1, <1>4, <1>5, <2>3 DEF Sizes
<1>10. OneRetry(p)
  <2>1. (NoneWaits(p) <=> NoneWaits(q)) /\ (OneWaits(p) <=> OneWaits(q))
    BY <1>5 DEF NoneWaits, OneWaits
  <2>2. FrontWaits(q) => FrontWaits(p)
    BY <1>4, <1>8 DEF FrontWaits
  <2> QED
    BY <1>1, <1>5, <2>1, <2>2, RetryParts
<1>11. FrontFirst(p)
  <2>1. \A m : Clear(q, m) => Clear(p, m)
    BY <1>4, <1>5 DEF Clear
  <2> QED
    BY <1>1, <1>3, <1>8, <2>1, FirstParts
<1>12. Grown(p, q, h, n)
  BY <1>5, <1>6, <1>9, <1>10, <1>11, GoodParts DEF Grown
<1>13. l + 1 \in 1..Len(p.requests) /\ p.requests[l + 1].state = state
  <2> HIDE DEF l
  <2> QED
    BY <1>3, <1>7, <1>8
<1> QED
  BY <1>12, <1>13

\* pushRequest keeps the shape of the queue.
LEMMA PushCases ==
    ASSUME NEW q, NEW n, NEW p \in PushRequest(q, n), NEW t, t = Pushed(q, n, "InTranslation"),
           NEW i, i = Len(q.requests) + 1
    PROVE  \/ \E f \in BOOLEAN : p \in FinishTranslation(t, i, f)
           \/ p = t
           \/ p = Pushed(q, n, "Failed")
<1>1. PushRequest(q, n) = (UNION {FinishTranslation(t, i, x) : x \in Faults})
                          \cup {t : x \in events \cap {"slowDTLB"}}
                          \cup {Pushed(q, n, "Failed") : x \in events \cap {"predicate"}}
  BY DEF PushRequest, Pushed
<1>2. \A x \in Faults : x \in BOOLEAN
  BY DEF Faults
<1>3. \/ \E x \in Faults : p \in FinishTranslation(t, i, x)
      \/ p = t
      \/ p = Pushed(q, n, "Failed")
  BY <1>1
<1> QED
  BY <1>2, <1>3

LEMMA PushGrows ==
    ASSUME prog \in Seq(Instructions), NEW h \in Nat, NEW q, Good(q, h), CanRequest(q),
           NEW n, Pushable(q, h, n), NEW p \in PushRequest(q, n)
    PROVE  Grown(p, q, h, n)
<1> DEFINE t == Pushed(q, n, "InTranslation")
           i == Len(q.requests) + 1
<1>1. /\ Grown(t, q, h, n) /\ i \in 1..Len(t.requests)
      /\ t.requests[i].state = "InTranslation"
  BY PushedGrows
<1>2. Grown(Pushed(q, n, "Failed"), q, h, n)
  BY PushedGrows
<1>3. \/ \E f \in BOOLEAN : p \in FinishTranslation(t, i, f)
      \/ p = t
      \/ p = Pushed(q, n, "Failed")
  BY PushCases
<1> HIDE DEF t, i
<1>4. CASE \E f \in BOOLEAN : p \in FinishTranslation(t, i, f)
  <2>1. PICK f \in BOOLEAN : p \in FinishTranslation(t, i, f)
    BY <1>4
  <2>2. Kept(p, t, h)
    BY <1>1, <2>1, FinishKept DEF Grown
  <2> QED
    BY <1>1, <2>2 DEF Grown, Kept
<1> QED
  BY <1>1, <1>2, <1>3, <1>4

----------------------------------------------------------------------------
(* Barriers. *)

LEMMA LeastMember ==
    ASSUME NEW S \in SUBSET Nat, S # {}
    PROVE  Min(S) \in S /\ (\A y \in S : Min(S) <= y)
<1>1. \E x \in S : \A y \in S : x <= y
  BY LeastNatural
<1> QED
  BY <1>1 DEF Min

\* The instructions of the first k entries of s.
FirstInsts(s, k) == {s[i].inst : i \in 1..k}

\* t is s without its first k entries.
WithoutFirst(t, s, k) ==
    \A m : Entry(t, m) = IF m \in FirstInsts(s, k) THEN {} ELSE Entry(s, m)

LEMMA Dropped ==
    ASSUME NEW X, NEW s \in Seq(X), \A x \in X : x.inst \in Nat, InOrder(s),
           NEW k \in 0..Len(s), NEW t, t = SubSeq(s, k + 1, Len(s))
    PROVE  /\ t \in Seq(X) /\ Len(t) = Len(s) - k /\ InOrder(t) /\ From(t, s)
           /\ \A i \in 1..Len(t) : i + k \in 1..Len(s) /\ t[i] = s[i + k]
           /\ IsFiniteSet(FirstInsts(s, k)) /\ Cardinality(FirstInsts(s, k)) = k
           /\ WithoutFirst(t, s, k)
<1> DEFINE n == Len(s)
           B == FirstInsts(s, k)
<1>1. n \in Nat /\ k \in 0..n /\ t = SubSeq(s, k + 1, n)
  BY LenProperties
<1>2. \A i \in 1..n : s[i] \in X /\ s[i].inst \in Nat
  BY ElementOfSeq
<1>2a. \A i, j \in 1..n : i < j => s[i].inst < s[j].inst
  BY DEF InOrder
<1> HIDE DEF n
<1>3. \A i \in (k + 1)..n : s[i] \in X
  BY <1>1, <1>2
<1> DEFINE a == k + 1
<1>4. a \in Int /\ n \in Int /\ (\A i \in a..n : s[i] \in X) /\ t = SubSeq(s, a, n)
  BY <1>1, <1>3
<1> HIDE DEF a
<1>5. /\ t \in Seq(X) /\ Len(t) = IF a <= n THEN n - a + 1 ELSE 0
      /\ \A i \in 1..(n - a + 1) : t[i] = s[a + i - 1]
  <2> DEFINE u == SubSeq(s, a, n)
  <2>1. u \in Seq(X) /\ Len(u) = IF a <= n THEN n - a + 1 ELSE 0
    BY <1>4, SubSeqProperties
  <2>2. \A i \in 1..(n - a + 1) : u[i] = s[a + i - 1]
    BY <1>4, SubSeqProperties
  <2> QED
    BY <1>4, <2>1, <2>2
<1>6. Len(t) = n - k
  BY <1>1, <1>5 DEF a
<1>7. \A i \in 1..(n - k) : i + k \in 1..n /\ t[i] = s[i + k]
  <2> TAKE i \in 1..(n - k)
  <2>1. i \in 1..(n - a + 1) /\ a + i - 1 = i + k /\ i + k \in 1..n
    BY <1>1 DEF a
  <2> QED
    BY <1>5, <2>1
<1>8. InOrder(t)
  <2> SUFFICES ASSUME NEW i \in 1..(n - k), NEW j \in 1..(n - k), i < j
               PROVE  t[i].inst < t[j].inst
    BY <1>6 DEF InOrder
  <2>1. i + k < j + k /\ i + k \in 1..n /\ j + k \in 1..n
    BY <1>1
  <2>2. s[i + k].inst < s[j + k].inst
    BY <1>2a, <2>1
  <2> QED
    BY <1>7, <2>2
<1>9. From(t, s)
  BY <1>6, <1>7 DEF From, n
<1>10. IsFiniteSet(B) /\ Cardinality(B) = k
  <2> DEFINE f == [i \in 1..k |-> s[i].inst]
  <2>1. \A i \in 1..k : i \in 1..n /\ f[i] \in B
    BY <1>1 DEF FirstInsts
  <2>2. \A i, j \in 1..k : f[i] = f[j] => i = j
    <3> TAKE i, j \in 1..k
    <3>1. i \in 1..n /\ j \in 1..n /\ s[i].inst \in Nat /\ s[j].inst \in Nat
      BY <1>2, <2>1
    <3>2. i < j => s[i].inst < s[j].inst
      BY <1>2a, <3>1
    <3>3. j < i => s[j].inst < s[i].inst
      BY <1>2a, <3>1
    <3>4. s[i].inst = s[j].inst => ~(i < j) /\ ~(j < i)
      BY <3>1, <3>2, <3>3
    <3> QED
      BY <3>4
  <2>3. \A b \in B : \E i \in 1..k : f[i] = b
    BY DEF FirstInsts
  <2>4. f \in [1..k -> B]
    BY <2>1
  <2> HIDE DEF f, B
  <2>5. f \in Bijection(1..k, B)
    BY <2>2, <2>3, <2>4, Fun_IsBij
  <2>6. ExistsBijection(1..k, B)
    BY <2>5, Fun_ExistsBij
  <2>7. IsFiniteSet(1..k) /\ Cardinality(1..k) = k
    BY <1>1, FS_Interval
  <2> QED
    BY <2>6, <2>7, FS_Bijection
<1>11. ASSUME NEW m PROVE Entry(t, m) = IF m \in B THEN {} ELSE Entry(s, m)
  <2>1. Entry(t, m) = {s[j] : j \in {i \in (k + 1)..n : s[i].inst = m}}
    <3>1. \A i \in 1..(n - k) : i + k \in (k + 1)..n
      BY <1>1
    <3>2. \A j \in (k + 1)..n : j - k \in 1..(n - k) /\ (j - k) + k = j
      BY <1>1
    <3>3. \A j \in (k + 1)..n : \E i \in 1..(n - k) : t[i] = s[j]
      BY <1>7, <3>2
    <3>4. \A i \in 1..(n - k) : \E j \in (k + 1)..n : t[i] = s[j]
      BY <1>7, <3>1
    <3> DEFINE P == {s[j] : j \in {i \in (k + 1)..n : s[i].inst = m}}
    <3>5. Entry(t, m) = {t[i] : i \in {j \in 1..(n - k) : t[j].inst = m}}
      BY <1>6 DEF Entry
    <3>6. ASSUME NEW x \in Entry(t, m) PROVE x \in P
      <4>1. PICK i \in 1..(n - k) : x = t[i] /\ t[i].inst = m
        BY <3>5
      <4>2. PICK j \in (k + 1)..n : t[i] = s[j]
        BY <3>4
      <4> QED
        BY <4>1, <4>2
    <3>7. ASSUME NEW x \in P PROVE x \in Entry(t, m)
      <4>1. PICK j \in (k + 1)..n : x = s[j] /\ s[j].inst = m
        OBVIOUS
      <4>2. PICK i \in 1..(n - k) : t[i] = s[j]
        BY <3>3
      <4> QED
        BY <3>5, <4>1, <4>2
    <3> HIDE DEF P
    <3>8. Entry(t, m) = P
      BY <3>6, <3>7
    <3> QED
      BY <3>8 DEF P
  <2>2. CASE m \in B
    <3>1. PICK i \in 1..k : m = s[i].inst
      BY <2>2 DEF FirstInsts
    <3>2. ASSUME NEW j \in (k + 1)..n PROVE s[j].inst # m
      <4>1. i \in 1..n /\ j \in 1..n /\ i < j
        BY <1>1
      <4>2. s[i].inst < s[j].inst /\ s[i].inst \in Nat /\ s[j].inst \in Nat
        BY <1>2, <1>2a, <4>1
      <4> QED
        BY <3>1, <4>2
    <3> QED
      BY <2>1, <2>2, <3>2
  <2>3. CASE m \notin B
    <3>1. \A j \in 1..n : s[j].inst = m => j \in (k + 1)..n
      <4> TAKE j \in 1..n
      <4>1. j \in 1..k \/ j \in (k + 1)..n
        BY <1>1
      <4> QED
        BY <2>3, <4>1 DEF FirstInsts
    <3>2. \A j \in (k + 1)..n : j \in 1..n
      BY <1>1
    <3>3. Entry(s, m) = {s[j] : j \in {i \in (k + 1)..n : s[i].inst = m}}
      BY <3>1, <3>2 DEF Entry, n
    <3> QED
      BY <2>1, <2>3, <3>3
  <2> QED
    BY <2>2, <2>3
<1>12. \A i \in 1..Len(t) : i + k \in 1..n /\ t[i] = s[i + k]
  BY <1>6, <1>7
<1>13. WithoutFirst(t, s, k)
  BY <1>11 DEF WithoutFirst
<1> QED
  BY <1>5, <1>6, <1>8, <1>9, <1>10, <1>12, <1>13 DEF n

\* The first k entries of the store buffer are barriers.
Barriers(q, k) == k \in 0..Len(q.slots) /\ \A i \in 1..k : IsBarrier(q.slots[i].inst)

\* A barrier waits in the store buffer, and has no packets.
LEMMA BarrierSlot ==
    ASSUME prog \in Seq(Instructions), NEW x \in Slot, IsBarrier(x.inst)
    PROVE  x.state = "Complete" /\ x.sent = 0 /\ x.retired = 0 /\ Unissued(x)
<1>1. ~IsStore(x.inst)
  <2>1. x.inst \in Insts
    BY RequestFacts
  <2> QED
    BY <2>1, ProgramFacts DEF IsMemRef
<1> QED
  BY <1>1 DEF Slot, Unissued

\* t is what is left of s after its first k entries.
Later(t, s, k) ==
    /\ From(t, s) /\ Len(t) = Len(s) - k
    /\ \A i \in 1..Len(t) : i + k \in 1..Len(s) /\ t[i] = s[i + k]

LEMMA BarriersGone ==
    ASSUME prog \in Seq(Instructions), NEW h \in Nat, NEW q \in LSQs, Ordered(q, h),
           CountsMatch(q), NEW k \in Nat, Barriers(q, k),
           NEW p, Fields(p), RestTyped(p),
           p.slots = SubSeq(q.slots, k + 1, Len(q.slots)),
           p.requests = q.requests, p.transfers = q.transfers,
           p.numStoresInTransfers = q.numStoresInTransfers,
           p.numUnissuedAccesses = q.numUnissuedAccesses - k,
           p.numAccessesIssuedToMemory = q.numAccessesIssuedToMemory,
           p.numAccessesInMemorySystem = q.numAccessesInMemorySystem
    PROVE  /\ p \in LSQs /\ Ordered(p, h) /\ CountsMatch(p)
           /\ Later(p.slots, q.slots, k)
<1> DEFINE B == FirstInsts(q.slots, k)
<1>1. /\ q.requests \in Seq(Pending) /\ q.transfers \in Seq(Transferring) /\ q.slots \in Seq(Slot)
  BY QueueTypes
<1>2. \A x \in Slot : x.inst \in Nat
  BY RequestFacts
<1>3. InOrder(q.slots) /\ InOrder(q.transfers) /\ InOrder(q.requests)
  BY Positions
<1>4. /\ p.slots \in Seq(Slot) /\ Len(p.slots) = Len(q.slots) - k /\ InOrder(p.slots)
      /\ From(p.slots, q.slots)
      /\ \A i \in 1..Len(p.slots) : i + k \in 1..Len(q.slots) /\ p.slots[i] = q.slots[i + k]
      /\ IsFiniteSet(B) /\ Cardinality(B) = k
      /\ WithoutFirst(p.slots, q.slots, k)
  <2> DEFINE s == q.slots
             t == p.slots
  <2>1. s \in Seq(Slot) /\ InOrder(s) /\ k \in 0..Len(s) /\ t = SubSeq(s, k + 1, Len(s))
    BY <1>1, <1>3 DEF Barriers
  <2> HIDE DEF s, t
  <2>2. /\ t \in Seq(Slot) /\ Len(t) = Len(s) - k /\ InOrder(t) /\ From(t, s)
        /\ \A i \in 1..Len(t) : i + k \in 1..Len(s) /\ t[i] = s[i + k]
        /\ IsFiniteSet(FirstInsts(s, k)) /\ Cardinality(FirstInsts(s, k)) = k
        /\ WithoutFirst(t, s, k)
    <3>1. t \in Seq(Slot) /\ Len(t) = Len(s) - k /\ InOrder(t) /\ From(t, s)
      BY <1>2, <2>1, Dropped
    <3>2. \A i \in 1..Len(t) : i + k \in 1..Len(s) /\ t[i] = s[i + k]
      BY <1>2, <2>1, Dropped
    <3>3. IsFiniteSet(FirstInsts(s, k)) /\ Cardinality(FirstInsts(s, k)) = k
      BY <1>2, <2>1, Dropped
    <3>4. WithoutFirst(t, s, k)
      BY <1>2, <2>1, Dropped
    <3> QED
      BY <3>1, <3>2, <3>3, <3>4
  <2> QED
    BY <2>2 DEF s, t
<1>5. p \in LSQs
  BY <1>1, <1>4, Typed
<1>6. \A m : Entry(p.slots, m) = IF m \in B THEN {} ELSE Entry(q.slots, m)
  BY <1>4 DEF WithoutFirst
<1>7. \A m \in B : /\ m \in Insts /\ IsBarrier(m)
                   /\ Entry(q.slots, m) # {}
                   /\ \A x \in Entry(q.slots, m) : x.sent = 0 /\ x.retired = 0
  <2> TAKE m \in B
  <2>1. PICK i \in 1..k : m = q.slots[i].inst
    BY DEF FirstInsts
  <2>2. i \in 1..Len(q.slots) /\ IsBarrier(m)
    <3> DEFINE l == Len(q.slots)
    <3>1. l \in Nat /\ k \in 0..l /\ IsBarrier(m)
      BY <1>1, <2>1, LenProperties DEF Barriers
    <3> HIDE DEF l
    <3>2. i \in 1..l
      BY <3>1
    <3> QED
      BY <3>1, <3>2 DEF l
  <2>3. \A x \in Entry(q.slots, m) : x \in Slot /\ x.inst = m /\ m \in Insts
    BY <1>1, EntryFacts
  <2>4. q.slots[i] \in Entry(q.slots, m)
    BY <2>1, <2>2 DEF Entry
  <2> QED
    BY <2>2, <2>3, <2>4, BarrierSlot
<1> HIDE DEF B
<1>8. Ordered(p, h)
  <2>1. \A m \in Insts : Has(p.slots, m) => Has(q.slots, m)
    BY <1>6 DEF Has
  <2>2. InOrder(p.slots) /\ InOrder(p.transfers) /\ InOrder(p.requests)
    BY <1>3, <1>4
  <2>4. /\ \A a, b \in Insts : Has(q.transfers, a) /\ Has(q.requests, b) => a < b
        /\ \A m \in Insts : Has(q.slots, m) => m < h
        /\ \A m \in Insts : Has(q.transfers, m) \/ Has(q.requests, m) => m >= h
    BY Positions
  <2>3. /\ \A a, b \in Insts : Has(p.transfers, a) /\ Has(p.requests, b) => a < b
        /\ \A m \in Insts : Has(p.slots, m) => m < h
        /\ \A m \in Insts : Has(p.transfers, m) \/ Has(p.requests, m) => m >= h
    BY <2>1, <2>4
  <2> QED
    BY <1>5, <2>2, <2>3, Positions
<1>9. CountsMatch(p)
  <2>1. /\ StoresInTransfers(p) = StoresInTransfers(q)
        /\ AccessesIssuedToMemory(p) = AccessesIssuedToMemory(q)
    BY DEF StoresInTransfers, AccessesIssuedToMemory
  <2>2. PacketsInMemSystem(p) = PacketsInMemSystem(q)
    <3>1. ASSUME NEW m \in Insts
          PROVE  PacketsOf(p, m) = PacketsOf(q, m)
      <4>1. CASE m \notin B
        BY <1>6, <4>1 DEF PacketsOf, Entries
      <4>2. CASE m \in B
        <5> DEFINE R == Entry(q.requests, m) \cup Entry(q.transfers, m)
                   S == Entry(q.slots, m)
                   P(x) == (x.retired + 1)..x.sent
        <5>1. PacketsOf(p, m) = UNION {P(x) : x \in R}
          BY <1>6, <4>2 DEF PacketsOf, Entries
        <5>2. PacketsOf(q, m) = UNION {P(x) : x \in R \cup S}
          BY DEF PacketsOf, Entries
        <5>3. \A x \in S : P(x) = {}
          BY <1>7, <4>2
        <5> HIDE DEF R, S, P
        <5> QED
          BY <5>1, <5>2, <5>3
      <4> QED
        BY <4>1, <4>2
    <3>2. /\ PacketsInMemSystem(p) = UNION {{m} \X PacketsOf(p, m) : m \in Insts}
          /\ PacketsInMemSystem(q) = UNION {{m} \X PacketsOf(q, m) : m \in Insts}
      BY <1>5, CountSets DEF PacketsOf
    <3> QED
      BY <3>1, <3>2
  <2>3. UnissuedAccesses(p) = UnissuedAccesses(q) \ B
    <3>1. UnissuedAccesses(p) =
            {m \in Insts : \E x \in Entry(p.slots, m) : IsBarrier(m) \/ ~SentAllPackets(x)}
      BY <1>5, CountSets
    <3>2. UnissuedAccesses(q) =
            {m \in Insts : \E x \in Entry(q.slots, m) : IsBarrier(m) \/ ~SentAllPackets(x)}
      BY CountSets
    <3> QED
      BY <1>6, <3>1, <3>2
  <2>4. UnissuedAccesses(q) \cap B = B
    <3>1. UnissuedAccesses(q) =
            {m \in Insts : \E x \in Entry(q.slots, m) : IsBarrier(m) \/ ~SentAllPackets(x)}
      BY CountSets
    <3> QED
      BY <1>7, <3>1
  <2>5. Cardinality(UnissuedAccesses(p)) = Cardinality(UnissuedAccesses(q)) - k
    <3> DEFINE S == UnissuedAccesses(q)
    <3>1. IsFiniteSet(S)
      BY CountedFinite
    <3>2. Cardinality(S \ B) = Cardinality(S) - Cardinality(S \cap B)
      BY <3>1, FS_Difference
    <3>3. Cardinality(S \cap B) = k /\ Cardinality(S \ B) = Cardinality(UnissuedAccesses(p))
      BY <1>4, <2>3, <2>4
    <3> QED
      BY <3>2, <3>3
  <2>6. /\ q.numStoresInTransfers = Cardinality(StoresInTransfers(q))
        /\ q.numUnissuedAccesses = Cardinality(UnissuedAccesses(q))
        /\ q.numAccessesIssuedToMemory = Cardinality(AccessesIssuedToMemory(q))
        /\ q.numAccessesInMemorySystem = Cardinality(PacketsInMemSystem(q))
    BY DEF CountsMatch
  <2>7. /\ p.numStoresInTransfers = Cardinality(StoresInTransfers(p))
        /\ p.numAccessesIssuedToMemory = Cardinality(AccessesIssuedToMemory(p))
        /\ p.numAccessesInMemorySystem = Cardinality(PacketsInMemSystem(p))
    BY <2>1, <2>2, <2>6
  <2>8. p.numUnissuedAccesses = Cardinality(UnissuedAccesses(p))
    BY <2>5, <2>6
  <2> QED
    BY <2>7, <2>8 DEF CountsMatch
<1>10. Later(p.slots, q.slots, k)
  BY <1>4 DEF Later
<1> QED
  BY <1>5, <1>8, <1>9, <1>10

\* The queue is still good, holds the same instructions and waits for no other barrier.
Eased(p, q, h) ==
    Good(p, h) /\ Held(p) = Held(q) /\ p.lastMemBarrier \in {q.lastMemBarrier, 0}

LEMMA EasedChain ==
    ASSUME NEW h, NEW o, NEW p, NEW q, Eased(p, q, h), Eased(o, p, h)
    PROVE  Eased(o, q, h)
  BY DEF Eased

LEMMA ClearMemBarrierIs ==
    ASSUME NEW q \in LSQs, NEW n, NEW p, p = ClearMemBarrier(q, n)
    PROVE  /\ p \in LSQs
           /\ p.requests = q.requests /\ p.transfers = q.transfers /\ p.slots = q.slots
           /\ p.state = q.state
           /\ p.numStoresInTransfers = q.numStoresInTransfers
           /\ p.numAccessesIssuedToMemory = q.numAccessesIssuedToMemory
           /\ p.numUnissuedAccesses = q.numUnissuedAccesses
           /\ p.numAccessesInMemorySystem = q.numAccessesInMemorySystem
           /\ p.lastMemBarrier \in {q.lastMemBarrier, 0}
<1> DEFINE b == IF n >= q.lastMemBarrier THEN 0 ELSE q.lastMemBarrier
<1>1. b \in {q.lastMemBarrier, 0} /\ q.lastMemBarrier \in 0..Len(prog)
  BY QueueTypes
<1>2. 0 \in 0..Len(prog)
  BY <1>1
<1>3. p = [q EXCEPT !.lastMemBarrier = b] /\ b \in 0..Len(prog)
  BY <1>1, <1>2 DEF ClearMemBarrier
<1> HIDE DEF b
<1> QED
  BY <1>1, <1>3 DEF LSQs

\* A queue that differs in the last barrier, the state of memory or what it holds is as
\* good.
LEMMA SameGood ==
    ASSUME NEW h, NEW q, Good(q, h), NEW p \in LSQs,
           p.requests = q.requests, p.transfers = q.transfers, p.slots = q.slots,
           p.state = q.state,
           p.numStoresInTransfers = q.numStoresInTransfers,
           p.numAccessesIssuedToMemory = q.numAccessesIssuedToMemory,
           p.numUnissuedAccesses = q.numUnissuedAccesses,
           p.numAccessesInMemorySystem = q.numAccessesInMemorySystem
    PROVE  Good(p, h) /\ Held(p) = Held(q)
<1>1. QueuesInOrder(p) /\ OldAndNew(p, h)
  BY DEF Good, QueueShape, QueuesInOrder, OldAndNew
<1>2. Sizes(p) /\ OneRetry(p) /\ FrontFirst(p)
  BY DEF Good, QueueShape, Sizes, OneRetry, FrontFirst
<1>3. CountsMatch(p)
  BY DEF Good, QueueShape, CountsMatch, StoresInTransfers, UnissuedAccesses,
         AccessesIssuedToMemory, PacketsInMemSystem
<1>4. Held(p) = Held(q)
  BY DEF Held
<1> QED
  BY <1>1, <1>2, <1>3, <1>4 DEF Good, QueueShape

LEMMA ClearMemBarrierEased ==
    ASSUME NEW h, NEW q, Good(q, h), NEW n, NEW p, p = ClearMemBarrier(q, n)
    PROVE  Eased(p, q, h)
<1>1. q \in LSQs
  BY GoodParts
<1>2. /\ p \in LSQs
      /\ p.requests = q.requests /\ p.transfers = q.transfers /\ p.slots = q.slots
      /\ p.state = q.state
      /\ p.numStoresInTransfers = q.numStoresInTransfers
      /\ p.numAccessesIssuedToMemory = q.numAccessesIssuedToMemory
      /\ p.numUnissuedAccesses = q.numUnissuedAccesses
      /\ p.numAccessesInMemorySystem = q.numAccessesInMemorySystem
      /\ p.lastMemBarrier \in {q.lastMemBarrier, 0}
  BY <1>1, ClearMemBarrierIs
<1> QED
  BY <1>2, SameGood DEF Eased

LEMMA LeadingBarriers ==
    ASSUME prog \in Seq(Instructions), NEW q \in LSQs, NEW p, p = ClearLeadingBarriers(q)
    PROVE  \/ p = q
           \/ \E k \in Nat \ {0} :
                /\ Barriers(q, k)
                /\ p = [ClearMemBarrier(q, q.slots[k].inst) EXCEPT
                          !.slots = SubSeq(q.slots, k + 1, Len(q.slots)),
                          !.numUnissuedAccesses = q.numUnissuedAccesses - k]
<1> DEFINE l == Len(q.slots)
           O == {i \in 1..l : ~IsBarrier(q.slots[i].inst)}
           k == IF O = {} THEN l ELSE Min(O) - 1
<1>1. l \in Nat
  BY QueueTypes, LenProperties
<1>2. k \in 0..l /\ \A i \in 1..k : i \in 1..l /\ i \notin O
  <2>1. CASE O = {}
    BY <1>1, <2>1
  <2>2. CASE O # {}
    <3>1. O \in SUBSET Nat /\ O \in SUBSET (1..l)
      BY <1>1
    <3> DEFINE m == Min(O)
    <3>2. m \in O /\ \A y \in O : m <= y
      BY <2>2, <3>1, LeastMember
    <3>3. m \in 1..l /\ k = m - 1
      BY <2>2, <3>1, <3>2
    <3> HIDE DEF m, O, k
    <3>4. \A i \in 1..(m - 1) : i \in 1..l /\ ~(m <= i)
      BY <1>1, <3>3
    <3>5. \A i \in 1..(m - 1) : i \in 1..l /\ i \notin O
      BY <3>2, <3>4
    <3>6. m - 1 \in 0..l
      BY <1>1, <3>3
    <3> QED
      BY <3>3, <3>5, <3>6
  <2> QED
    BY <2>1, <2>2
<1>3. p = IF k = 0 THEN q
          ELSE [ClearMemBarrier(q, q.slots[k].inst) EXCEPT
                  !.slots = SubSeq(@, k + 1, Len(@)), !.numUnissuedAccesses = @ - k]
  BY DEF ClearLeadingBarriers
<1>4. /\ ClearMemBarrier(q, q.slots[k].inst).slots = q.slots
      /\ ClearMemBarrier(q, q.slots[k].inst).numUnissuedAccesses = q.numUnissuedAccesses
  BY ClearMemBarrierIs
<1>5. Barriers(q, k)
  BY <1>2 DEF Barriers
<1>6. k \in Nat
  BY <1>1, <1>2
<1> HIDE DEF k, O, l
<1>7. k # 0 => p = [ClearMemBarrier(q, q.slots[k].inst) EXCEPT
                      !.slots = SubSeq(q.slots, k + 1, Len(q.slots)),
                      !.numUnissuedAccesses = q.numUnissuedAccesses - k]
  BY <1>3, <1>4
<1> QED
  BY <1>3, <1>5, <1>6, <1>7

LEMMA ClearLeadingEased ==
    ASSUME prog \in Seq(Instructions), NEW h \in Nat, NEW q, Good(q, h),
           q.state = "MemoryRunning", NEW p, p = ClearLeadingBarriers(q)
    PROVE  Eased(p, q, h) /\ p.state = "MemoryRunning"
<1>1. /\ q \in LSQs /\ Ordered(q, h) /\ CountsMatch(q)
      /\ Sizes(q) /\ OneRetry(q) /\ FrontFirst(q)
  BY GoodParts
<1>2. CASE p = q
  BY <1>2 DEF Eased
<1>3. CASE p # q
  <2>1. PICK k \in Nat :
                /\ Barriers(q, k)
                /\ p = [ClearMemBarrier(q, q.slots[k].inst) EXCEPT
                          !.slots = SubSeq(q.slots, k + 1, Len(q.slots)),
                          !.numUnissuedAccesses = q.numUnissuedAccesses - k]
    BY <1>1, <1>3, LeadingBarriers
  <2> DEFINE c == ClearMemBarrier(q, q.slots[k].inst)
             t == SubSeq(q.slots, k + 1, Len(q.slots))
             u == q.numUnissuedAccesses - k
  <2>2. /\ c \in LSQs
        /\ c.requests = q.requests /\ c.transfers = q.transfers
        /\ c.state = q.state
        /\ c.numStoresInTransfers = q.numStoresInTransfers
        /\ c.numAccessesIssuedToMemory = q.numAccessesIssuedToMemory
        /\ c.numAccessesInMemorySystem = q.numAccessesInMemorySystem
        /\ c.lastMemBarrier \in {q.lastMemBarrier, 0}
    BY <1>1, ClearMemBarrierIs
  <2>3. u \in Int
    BY <1>1, QueueTypes
  <2>4. p = [c EXCEPT !.slots = t, !.numUnissuedAccesses = u]
    BY <2>1
  <2> HIDE DEF c, t, u
  <2>5. /\ Fields(p) /\ RestTyped(p)
        /\ p.requests = c.requests /\ p.transfers = c.transfers /\ p.slots = t
        /\ p.state = c.state /\ p.lastMemBarrier = c.lastMemBarrier
        /\ p.numStoresInTransfers = c.numStoresInTransfers
        /\ p.numUnissuedAccesses = u
        /\ p.numAccessesIssuedToMemory = c.numAccessesIssuedToMemory
        /\ p.numAccessesInMemorySystem = c.numAccessesInMemorySystem
    BY <2>2, <2>3, <2>4 DEF LSQs, Fields, RestTyped
  <2>6. /\ p.requests = q.requests /\ p.transfers = q.transfers
        /\ p.slots = SubSeq(q.slots, k + 1, Len(q.slots))
        /\ p.state = "MemoryRunning" /\ p.lastMemBarrier \in {q.lastMemBarrier, 0}
        /\ p.numStoresInTransfers = q.numStoresInTransfers
        /\ p.numUnissuedAccesses = q.numUnissuedAccesses - k
        /\ p.numAccessesIssuedToMemory = q.numAccessesIssuedToMemory
        /\ p.numAccessesInMemorySystem = q.numAccessesInMemorySystem
    BY <2>2, <2>5 DEF t, u
  <2>7. /\ p \in LSQs /\ Ordered(p, h) /\ CountsMatch(p)
        /\ From(p.slots, q.slots) /\ Len(p.slots) = Len(q.slots) - k
    <3>1. p \in LSQs /\ Ordered(p, h) /\ CountsMatch(p) /\ Later(p.slots, q.slots, k)
      BY <1>1, <2>1, <2>5, <2>6, BarriersGone
    <3> QED
      BY <3>1 DEF Later
  <2>8. Held(p) = Held(q)
    BY <2>6 DEF Held
  <2>9. Sizes(p)
    <3> DEFINE l == Len(q.slots)
    <3>1. l \in Nat /\ l <= StoreBufferSize /\ Len(p.slots) = l - k
      BY <1>1, <2>7, QueueTypes, LenProperties DEF Sizes
    <3>2. StoreBufferSize \in Nat
      BY LSQAssumption
    <3> HIDE DEF l
    <3>3. Len(p.slots) <= StoreBufferSize
      BY <3>1, <3>2
    <3> QED
      BY <1>1, <2>6, <3>3 DEF Sizes
  <2>10. NoneWaits(p)
    BY <1>1, <2>7, RetryParts DEF NoneWaits, From
  <2>11. OneRetry(p)
    <3>1. OneWaits(p)
      BY <2>10 DEF NoneWaits, OneWaits
    <3> QED
      BY <2>6, <2>10, <3>1, RetryParts
  <2>12. FrontFirst(p)
    <3>1. \A n : Clear(q, n) => Clear(p, n)
      BY <2>6, <2>7 DEF Clear, From
    <3> QED
      BY <1>1, <2>6, <3>1, FirstParts
  <2> QED
    BY <2>6, <2>7, <2>8, <2>9, <2>11, <2>12, GoodParts DEF Eased
<1> QED
  BY <1>2, <1>3

----------------------------------------------------------------------------
(* The store buffer. *)

\* The counters follow a store o in the store buffer that becomes x.
SlotSwapped(p, q, o, x) ==
    /\ p.numUnissuedAccesses = q.numUnissuedAccesses + Num(Unissued(x)) - Num(Unissued(o))
    /\ p.numAccessesIssuedToMemory = q.numAccessesIssuedToMemory
    /\ p.numAccessesInMemorySystem =
         q.numAccessesInMemorySystem + Outstanding(x) - Outstanding(o)

\* Apart from the store buffer, its counters, memory and its state.
SameFront(p, q) ==
    /\ p.requests = q.requests /\ p.transfers = q.transfers
    /\ p.numStoresInTransfers = q.numStoresInTransfers
    /\ p.lastMemBarrier = q.lastMemBarrier

LEMMA SlotPut ==
    ASSUME NEW q \in LSQs, NEW i \in 1..Len(q.slots), NEW x \in Slot,
           NEW p, p.slots = Put(q.slots, i, x)
    PROVE  /\ Len(p.slots) = Len(q.slots)
           /\ \A j \in 1..Len(q.slots) : p.slots[j] = IF j = i THEN x ELSE q.slots[j]
<1> DEFINE s == q.slots
           t == p.slots
<1>1. s \in Seq(Slot) /\ i \in 1..Len(s) /\ t = [s EXCEPT ![i] = x]
  BY QueueTypes DEF Put
<1> HIDE DEF s, t
<1>2. DOMAIN s = 1..Len(s)
  BY <1>1, LenProperties
<1>3. Len(t) = Len(s)
  BY <1>1, ExceptSeq
<1>4. \A j \in 1..Len(s) : t[j] = IF j = i THEN x ELSE s[j]
  BY <1>1, <1>2
<1> QED
  BY <1>3, <1>4 DEF s, t

\* A store in the store buffer changes its state.
LEMMA SlotChanged ==
    ASSUME prog \in Seq(Instructions), NEW h \in Nat, NEW q, Good(q, h),
           NEW i \in 1..Len(q.slots), NEW o, o = q.slots[i], NEW x \in Slot, x.inst = o.inst,
           NEW p, Fields(p), RestTyped(p), SameFront(p, q), p.slots = Put(q.slots, i, x),
           SlotSwapped(p, q, o, x),
           p.numAccessesInMemorySystem <= MemoryLimit,
           p.state = "MemoryRunning" => NoneWaits(p), OneWaits(p),
           p.state = "MemoryNeedsRetry" /\ NoneWaits(p)
             => q.state = "MemoryNeedsRetry" /\ NoneWaits(q)
    PROVE  Kept(p, q, h) /\ Len(p.slots) = Len(q.slots)
<1>1. /\ q \in LSQs /\ Ordered(q, h) /\ CountsMatch(q)
      /\ Sizes(q) /\ OneRetry(q) /\ FrontFirst(q)
  BY GoodParts
<1>2. /\ p.requests = q.requests /\ p.transfers = q.transfers
      /\ p.numStoresInTransfers = q.numStoresInTransfers
      /\ p.lastMemBarrier = q.lastMemBarrier
  BY DEF SameFront
<1>3. p \in LSQs /\ Ordered(p, h) /\ CountsMatch(p)
  <2>1. /\ p.numUnissuedAccesses = q.numUnissuedAccesses + Num(Unissued(x)) - Num(Unissued(o))
        /\ p.numAccessesIssuedToMemory = q.numAccessesIssuedToMemory
        /\ p.numAccessesInMemorySystem =
             q.numAccessesInMemorySystem + Outstanding(x) - Outstanding(o)
    BY DEF SlotSwapped
  <2> QED
    BY <1>1, <1>2, <2>1, SlotUpdated
<1>4. /\ Len(p.slots) = Len(q.slots)
      /\ \A j \in 1..Len(q.slots) : p.slots[j] = IF j = i THEN x ELSE q.slots[j]
  BY <1>1, SlotPut
<1>5. Held(p) = Held(q)
  BY <1>2 DEF Held
<1>6. Sizes(p)
  BY <1>1, <1>2, <1>4 DEF Sizes
<1>7. OneRetry(p)
  <2>1. FrontWaits(q) => FrontWaits(p)
    BY <1>2 DEF FrontWaits
  <2> QED
    BY <1>1, <2>1, RetryParts
<1>8. FrontFirst(p)
  <2>1. \A n : Clear(q, n) => Clear(p, n)
    <3> SUFFICES ASSUME NEW n, Clear(q, n) PROVE Clear(p, n)
      OBVIOUS
    <3>1. ASSUME NEW j \in 1..Len(q.slots) PROVE ~Overlaps(p.slots[j], n)
      <4>1. ~Overlaps(q.slots[j], n)
        BY DEF Clear
      <4>2. p.slots[j].inst = q.slots[j].inst
        BY <1>4
      <4> QED
        BY <4>1, <4>2 DEF Overlaps
    <3> QED
      BY <1>2, <1>4, <3>1 DEF Clear
  <2> QED
    BY <1>1, <1>2, <2>1, FirstParts
<1> QED
  BY <1>2, <1>3, <1>4, <1>5, <1>6, <1>7, <1>8, GoodParts DEF Kept

\* Only store i of the store buffer may wait for a retry.
OnlyWaits(q, i) ==
    \A j \in 1..Len(q.slots) : q.slots[j].state = "StoreBufferNeedsRetry" => j = i

LEMMA WaitsAfterPut ==
    ASSUME NEW q \in LSQs, NEW i \in 1..Len(q.slots), NEW x \in Slot, OnlyWaits(q, i),
           NEW p, p.slots = Put(q.slots, i, x)
    PROVE  /\ OneWaits(p)
           /\ NoneWaits(p) <=> x.state # "StoreBufferNeedsRetry"
<1>1. /\ Len(p.slots) = Len(q.slots)
      /\ \A j \in 1..Len(q.slots) : p.slots[j] = IF j = i THEN x ELSE q.slots[j]
  BY SlotPut
<1> QED
  BY <1>1 DEF OnlyWaits, OneWaits, NoneWaits

\* A store that is about to be sent from the store buffer, where o is.
SendableSlot(r, o) ==
    /\ r.inst = o.inst /\ r.sent = o.sent /\ r.retired = o.retired
    /\ IsStore(r.inst) /\ r.sent < NumFragments(r.inst)
    /\ r.state \in {"StoreInStoreBuffer", "StoreBufferIssuing"}

\* What a store in the store buffer becomes when its packet is accepted or refused.
LEMMA SentSlot ==
    ASSUME prog \in Seq(Instructions), NEW o \in Slot, NEW r \in Slot, SendableSlot(r, o),
           NEW x \in Request, SameAccess(x, r)
    PROVE  /\ x.sent = r.sent /\ x.state = "StoreBufferNeedsRetry"
                => x \in Slot /\ Outstanding(x) = Outstanding(o) /\ Unissued(x)
           /\ x.sent = r.sent + 1 /\ x.state = "StoreBufferIssuing"
                => x \in Slot /\ Outstanding(x) = Outstanding(o) + 1
                   /\ (Unissued(x) <=> r.sent + 1 # NumFragments(r.inst))
           /\ Outstanding(r) = Outstanding(o) /\ Outstanding(o) \in Int
           /\ Unissued(o) /\ Unissued(r) /\ InStoreBuffer(r) /\ r \in Request
<1>1. /\ r.inst \in Insts /\ NumFragments(r.inst) \in Nat /\ r.sent \in Nat /\ r.retired \in Nat
      /\ r.retired <= r.sent /\ r.sent < NumFragments(r.inst) /\ IsStore(r.inst)
      /\ r.inst = o.inst /\ r.sent = o.sent /\ r.retired = o.retired /\ r \in Request
  BY RequestFacts DEF SendableSlot
<1>2. ~IsBarrier(r.inst)
  BY <1>1, ProgramFacts DEF IsMemRef
<1>3. Bufferable(r.inst)
  BY <1>2 DEF Slot
<1>4. x.inst = r.inst /\ x.retired = r.retired
  BY DEF SameAccess
<1>5. Outstanding(r) = Outstanding(o) /\ Outstanding(o) \in Int
  BY <1>1 DEF Outstanding
<1>6. InStoreBuffer(r)
  BY DEF SendableSlot, InStoreBuffer
<1> DEFINE k == NumFragments(r.inst)
<1>7. k \in Nat /\ r.sent < k /\ NumFragments(x.inst) = k
      /\ Len(Lines(r.inst)) = k /\ Len(Lines(x.inst)) = k /\ Len(Lines(o.inst)) = k
  BY <1>1, <1>4 DEF NumFragments
<1> HIDE DEF k
<1>8. Unissued(o) /\ Unissued(r)
  BY <1>1, <1>7 DEF Unissued, SentAllPackets
<1>9. ASSUME x.sent = r.sent /\ x.state = "StoreBufferNeedsRetry"
      PROVE  x \in Slot /\ Outstanding(x) = Outstanding(o) /\ Unissued(x)
  <2>1. x.retired <= x.sent /\ x.sent < k /\ x.retired < k /\ x.sent <= k /\ x.sent # k
    BY <1>1, <1>4, <1>7, <1>9
  <2>2. x \in Slot
    BY <1>1, <1>3, <1>4, <1>7, <1>9, <2>1 DEF Slot, InBufferStates
  <2>3. Unissued(x)
    BY <1>7, <2>1 DEF Unissued, SentAllPackets
  <2>4. Outstanding(x) = Outstanding(o)
    BY <1>1, <1>4, <1>9 DEF Outstanding
  <2> QED
    BY <2>2, <2>3, <2>4
<1>10. ASSUME x.sent = r.sent + 1 /\ x.state = "StoreBufferIssuing"
       PROVE  x \in Slot /\ Outstanding(x) = Outstanding(o) + 1
              /\ (Unissued(x) <=> r.sent + 1 # k)
  <2>1. x.retired <= x.sent /\ x.sent <= k /\ x.retired < k
    BY <1>1, <1>4, <1>7, <1>10
  <2>2. x \in Slot
    BY <1>1, <1>3, <1>4, <1>7, <1>10, <2>1 DEF Slot, InBufferStates
  <2>3. Unissued(x) <=> r.sent + 1 # k
    BY <1>2, <1>4, <1>7, <1>10 DEF Unissued, SentAllPackets
  <2>4. Outstanding(x) = Outstanding(o) + 1
    BY <1>1, <1>4, <1>10 DEF Outstanding
  <2> QED
    BY <2>2, <2>3, <2>4
<1> QED
  BY <1>1, <1>5, <1>6, <1>8, <1>9, <1>10 DEF k

SlotWith(z, i, x, all) ==
    [z EXCEPT !.slots[i] = x, !.numUnissuedAccesses = IF all THEN @ - 1 ELSE @]

LEMMA SlotSentIs ==
    ASSUME NEW z \in LSQs, NEW i \in 1..Len(z.slots), NEW x, NEW all \in BOOLEAN,
           NEW p, p = SlotWith(z, i, x, all)
    PROVE  /\ Fields(p) /\ RestTyped(p) /\ SameFront(p, z)
           /\ p.slots = Put(z.slots, i, x) /\ p.state = z.state
           /\ p.numUnissuedAccesses = IF all THEN z.numUnissuedAccesses - 1
                                      ELSE z.numUnissuedAccesses
           /\ p.numAccessesIssuedToMemory = z.numAccessesIssuedToMemory
           /\ p.numAccessesInMemorySystem = z.numAccessesInMemorySystem
<1> DEFINE s == Put(z.slots, i, x)
           u == IF all THEN z.numUnissuedAccesses - 1 ELSE z.numUnissuedAccesses
<1>1. u \in Int
  BY QueueTypes
<1>2. p = [z EXCEPT !.slots = s, !.numUnissuedAccesses = u]
  BY DEF Put, SlotWith
<1> HIDE DEF s, u
<1>3. /\ Fields(p) /\ RestTyped(p) /\ SameFront(p, z)
      /\ p.slots = s /\ p.state = z.state /\ p.numUnissuedAccesses = u
      /\ p.numAccessesIssuedToMemory = z.numAccessesIssuedToMemory
      /\ p.numAccessesInMemorySystem = z.numAccessesInMemorySystem
  BY <1>1, <1>2 DEF LSQs, Fields, RestTyped, SameFront
<1> QED
  BY <1>3 DEF s, u

\* The packets in the memory system when o becomes x.
PacketsBy(z, q, o, x) ==
    z.numAccessesInMemorySystem = q.numAccessesInMemorySystem + Outstanding(x) - Outstanding(o)

LEMMA SlotSentKept ==
    ASSUME prog \in Seq(Instructions), NEW h \in Nat, NEW q, Good(q, h),
           NEW i \in 1..Len(q.slots), NEW o, o = q.slots[i], Unissued(o), OnlyWaits(q, i),
           NEW z \in LSQs, SameQueues(z, q), NEW x \in Slot, x.inst = o.inst,
           NEW all \in BOOLEAN, Unissued(x) <=> ~all,
           NEW p, p = SlotWith(z, i, x, all),
           PacketsBy(z, q, o, x), z.numAccessesInMemorySystem <= MemoryLimit,
           x.state = "StoreBufferNeedsRetry" <=> z.state = "MemoryNeedsRetry"
    PROVE  Kept(p, q, h) /\ Len(p.slots) = Len(q.slots)
<1>1. /\ z.requests = q.requests /\ z.transfers = q.transfers /\ z.slots = q.slots
      /\ z.lastMemBarrier = q.lastMemBarrier
      /\ z.numStoresInTransfers = q.numStoresInTransfers
      /\ z.numAccessesIssuedToMemory = q.numAccessesIssuedToMemory
      /\ z.numUnissuedAccesses = q.numUnissuedAccesses
  BY DEF SameQueues
<1>2. i \in 1..Len(z.slots) /\ q \in LSQs
  BY <1>1, GoodParts
<1>3. /\ Fields(p) /\ RestTyped(p) /\ SameFront(p, z)
      /\ p.slots = Put(z.slots, i, x) /\ p.state = z.state
      /\ p.numUnissuedAccesses = IF all THEN z.numUnissuedAccesses - 1
                                 ELSE z.numUnissuedAccesses
      /\ p.numAccessesIssuedToMemory = z.numAccessesIssuedToMemory
      /\ p.numAccessesInMemorySystem = z.numAccessesInMemorySystem
  BY <1>2, SlotSentIs
<1>4. SameFront(p, q) /\ p.slots = Put(q.slots, i, x)
  BY <1>1, <1>3 DEF SameFront
<1>5. SlotSwapped(p, q, o, x)
  <2> DEFINE u == q.numUnissuedAccesses
             v == Num(Unissued(x))
  <2>1. u \in Int /\ p.numUnissuedAccesses = IF all THEN u - 1 ELSE u
    BY <1>1, <1>2, <1>3, QueueTypes
  <2>2. Num(Unissued(o)) = 1
    BY DEF Num
  <2>3. v = IF all THEN 0 ELSE 1
    <3>1. v = IF Unissued(x) THEN 1 ELSE 0
      BY DEF Num
    <3> HIDE DEF v
    <3> QED
      BY <3>1
  <2> HIDE DEF u, v
  <2>4. p.numUnissuedAccesses = u + v - 1
    BY <2>1, <2>3
  <2>5. p.numUnissuedAccesses = u + v - Num(Unissued(o))
    BY <2>2, <2>4
  <2>6. p.numAccessesInMemorySystem =
          q.numAccessesInMemorySystem + Outstanding(x) - Outstanding(o)
    BY <1>3 DEF PacketsBy
  <2> QED
    BY <1>1, <1>3, <2>5, <2>6 DEF SlotSwapped, u, v
<1>6. OneWaits(p) /\ (NoneWaits(p) <=> x.state # "StoreBufferNeedsRetry")
  BY <1>2, <1>4, WaitsAfterPut
<1>7. p.state \in {"MemoryRunning", "MemoryNeedsRetry"} /\ p.state = z.state
      /\ p.numAccessesInMemorySystem <= MemoryLimit
  BY <1>3, QueueTypes
<1>8. /\ p.state = "MemoryRunning" => NoneWaits(p)
      /\ p.state = "MemoryNeedsRetry" /\ NoneWaits(p)
           => q.state = "MemoryNeedsRetry" /\ NoneWaits(q)
  BY <1>6, <1>7
<1> QED
  BY <1>3, <1>4, <1>5, <1>6, <1>7, <1>8, SlotChanged

\* The next packet of a store in the store buffer is sent.
LEMMA SendSlot ==
    ASSUME prog \in Seq(Instructions), NEW h \in Nat, NEW q, Good(q, h),
           NEW i \in 1..Len(q.slots), NEW o, o = q.slots[i], NEW r \in Slot, SendableSlot(r, o),
           NEW c \in LSQs, SameQueues(c, q), c.state = "MemoryRunning",
           c.numAccessesInMemorySystem = q.numAccessesInMemorySystem, OnlyWaits(q, i),
           NEW t \in TryToSend(c, r), NEW p, p = SlotWith(t.q, i, t.r, t.all)
    PROVE  Kept(p, q, h) /\ Len(p.slots) = Len(q.slots)
<1>1. /\ q \in LSQs /\ Sizes(q) /\ q.slots \in Seq(Slot)
  BY GoodParts, QueueTypes
<1>2. o \in Slot
  BY <1>1, ElementOfSeq
<1>3. /\ Outstanding(r) = Outstanding(o) /\ Outstanding(o) \in Int
      /\ Unissued(o) /\ Unissued(r) /\ InStoreBuffer(r) /\ r \in Request
      /\ r.inst = o.inst /\ r.sent < NumFragments(r.inst)
      /\ r.state \in {"StoreInStoreBuffer", "StoreBufferIssuing"}
  <2>1. r \in Request /\ SameAccess(r, r)
    BY DEF Slot, SameAccess
  <2>2. /\ Outstanding(r) = Outstanding(o) /\ Outstanding(o) \in Int
        /\ Unissued(o) /\ Unissued(r) /\ InStoreBuffer(r)
    BY <1>2, <2>1, SentSlot
  <2> QED
    BY <2>1, <2>2 DEF SendableSlot
<1>4. /\ t.q \in LSQs /\ SameQueues(t.q, c) /\ t.r \in Request /\ SameAccess(t.r, r)
      /\ NotSent(t, c, r) \/ Accepted(t, c, r) \/ Refused(t, c, r)
  BY <1>3, Sending
<1> DEFINE n == q.numAccessesInMemorySystem
<1>5. n \in Int /\ n <= MemoryLimit
  BY <1>1, QueueTypes DEF Sizes
<1>6. ASSUME NEW x, x = t.r, x \in Slot, t.all \in BOOLEAN, Unissued(x) <=> ~t.all,
             PacketsBy(t.q, q, o, x), t.q.numAccessesInMemorySystem <= MemoryLimit,
             x.state = "StoreBufferNeedsRetry" <=> t.q.state = "MemoryNeedsRetry"
      PROVE  Kept(p, q, h) /\ Len(p.slots) = Len(q.slots)
  <2>1. PICK z, all : z = t.q /\ all = t.all
    OBVIOUS
  <2>2. z \in LSQs /\ SameQueues(z, q) /\ x.inst = o.inst /\ p = SlotWith(z, i, x, all)
    BY <1>3, <1>4, <1>6, <2>1 DEF SameQueues, SameAccess
  <2>3. /\ all \in BOOLEAN /\ (Unissued(x) <=> ~all)
        /\ PacketsBy(z, q, o, x) /\ z.numAccessesInMemorySystem <= MemoryLimit
        /\ x.state = "StoreBufferNeedsRetry" <=> z.state = "MemoryNeedsRetry"
    BY <1>6, <2>1
  <2> QED
    BY <1>3, <1>6, <2>2, <2>3, SlotSentKept
<1>9. CASE NotSent(t, c, r)
  <2>1. t.q = c /\ t.r = r /\ t.all = FALSE
    BY <1>9 DEF NotSent
  <2>2. n = n + Outstanding(r) - Outstanding(o)
    BY <1>3, <1>5
  <2>3. /\ PacketsBy(t.q, q, o, t.r)
        /\ t.q.numAccessesInMemorySystem <= MemoryLimit /\ t.q.state = "MemoryRunning"
        /\ t.r \in Slot /\ t.all \in BOOLEAN /\ (Unissued(t.r) <=> ~t.all)
        /\ t.r.state # "StoreBufferNeedsRetry"
    BY <1>3, <1>5, <2>1, <2>2 DEF PacketsBy
  <2> QED
    BY <1>6, <2>3
<1>10. CASE Refused(t, c, r)
  <2>1. /\ t.q.state = "MemoryNeedsRetry" /\ t.r.sent = r.sent
        /\ t.r.state = "StoreBufferNeedsRetry"
        /\ t.all = FALSE /\ t.q.numAccessesInMemorySystem = n
    BY <1>3, <1>10 DEF Refused
  <2>2. t.r \in Slot /\ Outstanding(t.r) = Outstanding(o) /\ Unissued(t.r)
    BY <1>2, <1>4, <2>1, SentSlot
  <2>3. n = n + Outstanding(t.r) - Outstanding(o)
    BY <1>3, <1>5, <2>2
  <2>4. /\ PacketsBy(t.q, q, o, t.r)
        /\ t.q.numAccessesInMemorySystem <= MemoryLimit
        /\ t.all \in BOOLEAN /\ (Unissued(t.r) <=> ~t.all)
    BY <1>5, <2>1, <2>2, <2>3 DEF PacketsBy
  <2> QED
    BY <1>6, <2>1, <2>2, <2>4
<1>11. CASE Accepted(t, c, r)
  <2>1. /\ t.q.state = "MemoryRunning" /\ t.r.sent = r.sent + 1
        /\ t.r.state = "StoreBufferIssuing"
        /\ t.q.numAccessesInMemorySystem = n + 1
        /\ t.all = (r.sent + 1 = NumFragments(r.inst))
        /\ CanSendToMemorySystem(c)
    BY <1>3, <1>11 DEF Accepted
  <2>2. /\ t.r \in Slot /\ Outstanding(t.r) = Outstanding(o) + 1
        /\ (Unissued(t.r) <=> r.sent + 1 # NumFragments(r.inst))
    BY <1>2, <1>4, <2>1, SentSlot
  <2>3. n + 1 = n + Outstanding(t.r) - Outstanding(o)
    BY <1>3, <1>5, <2>2
  <2>4. n + 1 <= MemoryLimit
    <3>1. c.numAccessesInMemorySystem + 1 <= MemoryLimit
      BY <2>1, CanSend
    <3> QED
      BY <3>1
  <2>5. t.all \in BOOLEAN /\ (Unissued(t.r) <=> ~t.all)
    BY <2>1, <2>2
  <2>6. /\ PacketsBy(t.q, q, o, t.r)
        /\ t.q.numAccessesInMemorySystem <= MemoryLimit
    BY <2>1, <2>3, <2>4 DEF PacketsBy
  <2> QED
    BY <1>6, <2>1, <2>2, <2>5, <2>6
<1> QED
  BY <1>4, <1>9, <1>10, <1>11

\* A state of the loop of StoreBuffer::step that started with queue c.
LoopState(c, h) ==
    {y \in [q : LSQs, issued : BOOLEAN, count : Nat] :
       Kept(y.q, c, h) /\ Len(y.q.slots) = Len(c.slots)}

LEMMA StepSlotCases ==
    ASSUME NEW x, NEW i, NEW y \in StepSlot(x, i), NEW r, r = x.q.slots[i]
    PROVE  \/ /\ y = x
              /\ \/ ~x.issued \/ x.count = StoresPerCycle \/ ~CanSendToMemorySystem(x.q)
                 \/ ~IsBarrier(r.inst) /\ SentAllPackets(r)
           \/ y = [x EXCEPT !.issued = FALSE]
           \/ /\ x.issued /\ x.count # StoresPerCycle
              /\ CanSendToMemorySystem(x.q) /\ ~IsBarrier(r.inst)
              /\ ~(r.state = "StoreBufferIssuing" /\ SentAllPackets(r))
              /\ \E t \in TryToSend(x.q, r) :
                   y = [q |-> SlotWith(t.q, i, t.r, t.all), issued |-> t.all,
                        count |-> IF t.all THEN x.count + 1 ELSE x.count]
  BY DEF StepSlot, SlotWith

\* A slot that StoreBuffer::step sends a packet of.
LEMMA StepSendable ==
    ASSUME prog \in Seq(Instructions), NEW h \in Nat, NEW q, Good(q, h),
           NEW i \in 1..Len(q.slots), NEW r, r = q.slots[i], CanSendToMemorySystem(q),
           ~IsBarrier(r.inst), ~(r.state = "StoreBufferIssuing" /\ SentAllPackets(r))
    PROVE  /\ r \in Slot /\ SendableSlot(r, r) /\ OnlyWaits(q, i)
           /\ q.state = "MemoryRunning"
<1>1. q \in LSQs /\ OneRetry(q) /\ q.slots \in Seq(Slot)
  BY GoodParts, QueueTypes
<1>2. r \in Slot
  BY <1>1, ElementOfSeq
<1>3. q.state = "MemoryRunning"
  BY DEF CanSendToMemorySystem
<1>4. NoneWaits(q)
  BY <1>1, <1>3, RetryParts
<1>5. OnlyWaits(q, i) /\ r.state # "StoreBufferNeedsRetry"
  BY <1>4 DEF NoneWaits, OnlyWaits
<1>6. /\ IsStore(r.inst) /\ r.state \in InBufferStates
      /\ r.sent = NumFragments(r.inst) => r.state = "StoreBufferIssuing"
  BY <1>2 DEF Slot
<1>7. r.sent \in Nat /\ NumFragments(r.inst) \in Nat /\ r.sent <= NumFragments(r.inst)
  BY <1>2, RequestFacts
<1>8. r.sent # NumFragments(r.inst)
  BY <1>6 DEF SentAllPackets, NumFragments
<1> DEFINE k == NumFragments(r.inst)
           m == r.sent
<1>9. m \in Nat /\ k \in Nat /\ m <= k /\ m # k
  BY <1>7, <1>8
<1> HIDE DEF m, k
<1>10. m < k
  BY <1>9
<1>11. SendableSlot(r, r)
  BY <1>5, <1>6, <1>10 DEF SendableSlot, InBufferStates, m, k
<1> QED
  BY <1>2, <1>3, <1>5, <1>11

LEMMA StepSlotKept ==
    ASSUME prog \in Seq(Instructions), NEW h \in Nat, NEW c, NEW x \in LoopState(c, h),
           NEW i \in 1..Len(c.slots), NEW y \in StepSlot(x, i)
    PROVE  y \in LoopState(c, h)
<1> DEFINE r == x.q.slots[i]
<1>1. x \in [q : LSQs, issued : BOOLEAN, count : Nat] /\ Kept(x.q, c, h)
      /\ Len(x.q.slots) = Len(c.slots)
  BY DEF LoopState
<1>2. CASE y = x
  BY <1>2
<1>3. CASE y = [x EXCEPT !.issued = FALSE]
  BY <1>1, <1>3 DEF LoopState
<1>4. CASE /\ CanSendToMemorySystem(x.q) /\ ~IsBarrier(r.inst)
           /\ ~(r.state = "StoreBufferIssuing" /\ SentAllPackets(r))
           /\ \E t \in TryToSend(x.q, r) :
                y = [q |-> SlotWith(t.q, i, t.r, t.all), issued |-> t.all,
                     count |-> IF t.all THEN x.count + 1 ELSE x.count]
  <2>1. PICK q : q = x.q
    OBVIOUS
  <2>2. Good(q, h) /\ i \in 1..Len(q.slots) /\ r = q.slots[i] /\ q \in LSQs
    BY <1>1, <2>1 DEF Kept
  <2>3. /\ r \in Slot /\ SendableSlot(r, r) /\ OnlyWaits(q, i)
        /\ q.state = "MemoryRunning"
    BY <1>4, <2>1, <2>2, StepSendable
  <2>9. PICK t \in TryToSend(q, r) :
          y = [q |-> SlotWith(t.q, i, t.r, t.all), issued |-> t.all,
               count |-> IF t.all THEN x.count + 1 ELSE x.count]
    BY <1>4, <2>1
  <2>10. PICK p : p = SlotWith(t.q, i, t.r, t.all)
    OBVIOUS
  <2>11. SameQueues(q, q)
    BY DEF SameQueues
  <2> HIDE DEF r
  <2>12. Kept(p, q, h) /\ Len(p.slots) = Len(q.slots)
    BY <2>2, <2>3, <2>10, <2>11, SendSlot
  <2>13. t.all \in BOOLEAN
    <3>1. r \in Request /\ r.sent < NumFragments(r.inst)
      BY <2>3, RequestFacts DEF SendableSlot
    <3>2. NotSent(t, q, r) \/ Accepted(t, q, r) \/ Refused(t, q, r)
      BY <2>2, <3>1, Sending
    <3> QED
      BY <3>2 DEF NotSent, Accepted, Refused
  <2>14. (IF t.all THEN x.count + 1 ELSE x.count) \in Nat
    BY <1>1
  <2>15. Kept(p, c, h) /\ Len(p.slots) = Len(c.slots) /\ p \in LSQs
    BY <1>1, <2>1, <2>12, GoodParts DEF Kept
  <2>16. /\ y = [q |-> p, issued |-> t.all,
                count |-> IF t.all THEN x.count + 1 ELSE x.count]
         /\ y.q = p
    BY <2>9, <2>10
  <2> QED
    BY <2>13, <2>14, <2>15, <2>16 DEF LoopState
<1> QED
  BY <1>2, <1>3, <1>4, StepSlotCases

\* StoreBuffer::step keeps the shape of the queue.
LEMMA StoreBufferEased ==
    ASSUME prog \in Seq(Instructions), NEW h \in Nat, NEW q, Good(q, h),
           NEW p \in StoreBufferStep(q)
    PROVE  Eased(p, q, h)
<1> DEFINE c == ClearLeadingBarriers(q)
<1>1. CASE q.numUnissuedAccesses = 0 \/ q.state # "MemoryRunning"
  <2>1. p = q
    BY <1>1 DEF StoreBufferStep
  <2> QED
    BY <2>1 DEF Eased
<1>2. CASE ~(q.numUnissuedAccesses = 0 \/ q.state # "MemoryRunning")
  <2>1. Eased(c, q, h)
    BY <1>2, ClearLeadingEased
  <2>2. PICK x \in Turns(c)[Len(c.slots)] : p = x.q
    BY <1>2 DEF StoreBufferStep
  <2> HIDE DEF c
  <2>3. Good(c, h) /\ c \in LSQs /\ Len(c.slots) \in Nat
    BY <2>1, GoodParts, QueueTypes, LenProperties DEF Eased
  <2> DEFINE G == [k \in 0..Len(c.slots) |-> LoopState(c, h)]
  <2>4. [q |-> c, issued |-> TRUE, count |-> 0] \in G[0]
    <3>1. 0 \in 0..Len(c.slots)
      BY <2>3
    <3>2. Kept(c, c, h)
      BY <2>3 DEF Kept
    <3>3. [q |-> c, issued |-> TRUE, count |-> 0] \in LoopState(c, h)
      BY <2>3, <3>2 DEF LoopState
    <3> QED BY <3>1, <3>3
  <2>5. \A k \in 1..Len(c.slots) : \A y \in G[k - 1], z \in LoopStates(c) :
          z \in StepSlot(y, k) => z \in G[k]
    <3> SUFFICES ASSUME NEW k \in 1..Len(c.slots), NEW y \in G[k - 1], NEW z \in StepSlot(y, k)
                 PROVE  z \in G[k]
      OBVIOUS
    <3>1. k \in 0..Len(c.slots) /\ k - 1 \in 0..Len(c.slots)
      BY <2>3
    <3>2. z \in LoopState(c, h)
      BY <3>1, StepSlotKept
    <3> QED
      BY <3>1, <3>2
  <2>6. G[Len(c.slots)] = LoopState(c, h)
    BY <2>3
  <2> HIDE DEF G
  <2>7. x \in LoopState(c, h)
    BY <2>2, <2>3, <2>4, <2>5, <2>6, LoopInvariant
  <2>8. Eased(p, c, h)
    BY <2>2, <2>7 DEF LoopState, Kept, Eased
  <2> QED
    BY <2>1, <2>8, EasedChain
<1> QED
  BY <1>1, <1>2

\* LSQ::step keeps the shape of the queue.
LEMMA LSQStepEased ==
    ASSUME prog \in Seq(Instructions), NEW h \in Nat, NEW q, Good(q, h), NEW p \in LSQStep(q)
    PROVE  Eased(p, q, h)
<1>1. PICK t \in TryToSendToTransfers(q) : p \in StoreBufferStep(t)
  BY DEF LSQStep
<1>2. Eased(t, q, h)
  BY TransfersKept DEF Kept, Eased
<1>3. Eased(p, t, h)
  BY <1>1, <1>2, StoreBufferEased DEF Eased
<1> QED
  BY <1>2, <1>3, EasedChain

----------------------------------------------------------------------------
(* The head moves on. *)

\* An instruction that is not in the queue leaves inFlightInsts: the queue is as old
\* as the next one.
LEMMA NextHead ==
    ASSUME prog \in Seq(Instructions), NEW h \in Nat, NEW q, Good(q, h), h \notin Held(q)
    PROVE  Good(q, h + 1)
<1>1. /\ q \in LSQs /\ Ordered(q, h) /\ CountsMatch(q)
      /\ Sizes(q) /\ OneRetry(q) /\ FrontFirst(q)
  BY GoodParts
<1>2. Ordered(q, h + 1)
  <2>1. \A m \in Insts : Has(q.slots, m) => m < h + 1
    <3> SUFFICES ASSUME NEW m \in Insts, Has(q.slots, m) PROVE m < h + 1
      OBVIOUS
    <3>1. m < h
      BY <1>1, Positions
    <3>2. m \in Int
      BY ProgramFacts DEF Insts
    <3> QED BY <3>1, <3>2
  <2>2. \A m \in Insts : Has(q.transfers, m) \/ Has(q.requests, m) => m >= h + 1
    <3> SUFFICES ASSUME NEW m \in Insts, Has(q.transfers, m) \/ Has(q.requests, m)
                 PROVE m >= h + 1
      OBVIOUS
    <3>1. m >= h
      BY <1>1, Positions
    <3>2. m \in Int
      BY ProgramFacts DEF Insts
    <3>3. m # h
      BY DEF Held
    <3> QED BY <3>1, <3>2, <3>3
  <2>3. /\ InOrder(q.slots) /\ InOrder(q.transfers) /\ InOrder(q.requests)
        /\ \A a, b \in Insts : Has(q.transfers, a) /\ Has(q.requests, b) => a < b
    BY <1>1, Positions
  <2> QED BY <1>1, <2>1, <2>2, <2>3, Positions
<1> QED BY <1>1, <1>2, GoodParts

----------------------------------------------------------------------------
(* Answers of the memory system. *)

AsRunning(q) == [q EXCEPT !.state = "MemoryRunning"]

LEMMA AsRunningIs ==
    ASSUME NEW q \in LSQs, NEW c, c = AsRunning(q)
    PROVE  /\ c \in LSQs /\ SameQueues(c, q) /\ c.state = "MemoryRunning"
           /\ c.numAccessesInMemorySystem = q.numAccessesInMemorySystem
BY DEF AsRunning, LSQs, SameQueues

AsState(r, state) == [r EXCEPT !.state = state]

\* A refused request is made ready to be sent again.
LEMMA FrontAgain ==
    ASSUME prog \in Seq(Instructions), NEW o \in Pending, o.state = "RequestNeedsRetry",
           NEW r, r = AsState(o, "Translated")
    PROVE  r \in Pending /\ Sendable(r, o) /\ r.issuedToMemory = o.issuedToMemory
           /\ r.inst = o.inst
<1>1. r \in Request /\ r.inst = o.inst /\ r.sent = o.sent /\ r.retired = o.retired
      /\ r.skipped = o.skipped /\ r.issuedToMemory = o.issuedToMemory /\ r.fault = o.fault
      /\ r.state = "Translated" /\ r.isLoad = o.isLoad
  BY DEF Pending, Request, States, AsState
<1> HIDE DEF AsState
<1>2. ~o.fault /\ ~(IsStore(o.inst) /\ Bufferable(o.inst))
  BY DEF Pending
<1>3. /\ IsMemRef(o.inst) /\ o.retired <= o.sent /\ o.sent < NumFragments(o.inst)
      /\ o.isLoad <=> IsLoad(o.inst)
  BY DEF Pending
<1> QED
  BY <1>1, <1>2, <1>3 DEF Pending, Sendable

\* recvReqRetry for the front of requests.
LEMMA RetryFront ==
    ASSUME prog \in Seq(Instructions), NEW h \in Nat, NEW q, Good(q, h),
           q.state = "MemoryNeedsRetry", NoneWaits(q),
           NEW r, r = AsState(Head(q.requests), "Translated"),
           NEW c, c = AsRunning(q), NEW t \in TryToSend(c, r), NEW p, p = AfterSending(t)
    PROVE  Kept(p, q, h)
<1> DEFINE o == Head(q.requests)
<1>1. q \in LSQs /\ OneRetry(q) /\ FrontFirst(q)
  BY GoodParts
<1>2. /\ q.requests # <<>> /\ o.state = "RequestNeedsRetry"
      /\ Len(q.transfers) < TransfersSize
  BY <1>1, RetryParts DEF FrontWaits
<1>3. o \in Pending
  BY <1>2, FrontRequest
<1>4. IsLoad(o.inst) => Clear(q, o.inst)
  BY <1>1, <1>2, FirstParts DEF Started
<1> HIDE DEF o
<1>5. r \in Pending /\ Sendable(r, o) /\ r.issuedToMemory = o.issuedToMemory /\ r.inst = o.inst
  BY <1>2, <1>3, FrontAgain DEF o
<1>6. c \in LSQs /\ SameQueues(c, q) /\ c.state = "MemoryRunning"
      /\ c.numAccessesInMemorySystem = q.numAccessesInMemorySystem
  BY <1>1, AsRunningIs
<1>7. Counted(c, q, o, r)
  <2>1. q.numAccessesIssuedToMemory \in Int
    BY <1>1, QueueTypes
  <2>2. Num(r.issuedToMemory) = Num(o.issuedToMemory) /\ Num(o.issuedToMemory) \in Int
    BY <1>5 DEF Num
  <2> QED BY <1>6, <2>1, <2>2 DEF Counted, SameQueues
<1>8. p = IF t.all THEN FrontMoved(t.q, t.r) ELSE FrontSet(t.q, t.r)
  BY DEF AfterSending
<1>9. IsLoad(r.inst) => Clear(q, r.inst)
  BY <1>4, <1>5
<1> QED
  BY <1>2, <1>5, <1>6, <1>7, <1>8, <1>9, SendFront DEF Kept, o

\* A refused store is made ready to be sent again.
LEMMA SlotAgain ==
    ASSUME prog \in Seq(Instructions), NEW o \in Slot, o.state = "StoreBufferNeedsRetry",
           NEW r, r = AsState(o, "StoreInStoreBuffer")
    PROVE  r \in Slot /\ SendableSlot(r, o)
<1>1. r \in Request /\ r.inst = o.inst /\ r.sent = o.sent /\ r.retired = o.retired
      /\ r.skipped = o.skipped /\ r.issuedToMemory = o.issuedToMemory /\ r.fault = o.fault
      /\ r.state = "StoreInStoreBuffer"
  BY DEF Slot, Request, States, AsState
<1> HIDE DEF AsState
<1>2. /\ IsStore(o.inst) /\ Bufferable(o.inst)
      /\ o.retired <= o.sent /\ o.sent <= NumFragments(o.inst)
      /\ o.retired < NumFragments(o.inst)
      /\ o.sent # NumFragments(o.inst)
  BY DEF Slot
<1>3. NumFragments(o.inst) \in Nat /\ o.sent \in Nat
  BY RequestFacts
<1>4. o.sent < NumFragments(o.inst)
  BY <1>2, <1>3
<1> QED
  BY <1>1, <1>2, <1>4 DEF Slot, SendableSlot, InBufferStates

\* recvReqRetry for the store that waits.
LEMMA RetrySlot ==
    ASSUME prog \in Seq(Instructions), NEW h \in Nat, NEW q, Good(q, h),
           q.state = "MemoryNeedsRetry",
           NEW i \in 1..Len(q.slots), q.slots[i].state = "StoreBufferNeedsRetry",
           NEW r, r = AsState(q.slots[i], "StoreInStoreBuffer"),
           NEW c, c = AsRunning(q), NEW t \in TryToSend(c, r),
           NEW p, p = SlotWith(t.q, i, t.r, t.all)
    PROVE  Kept(p, q, h)
<1> DEFINE o == q.slots[i]
<1>1. q \in LSQs /\ OneRetry(q)
  BY GoodParts
<1>2. o \in Slot
  BY <1>1, QueueTypes, ElementOfSeq
<1>3. OnlyWaits(q, i)
  BY <1>1, RetryParts DEF OneWaits, OnlyWaits
<1> HIDE DEF o
<1>4. r \in Slot /\ SendableSlot(r, o)
  BY <1>2, SlotAgain DEF o
<1>5. c \in LSQs /\ SameQueues(c, q) /\ c.state = "MemoryRunning"
      /\ c.numAccessesInMemorySystem = q.numAccessesInMemorySystem
  BY <1>1, AsRunningIs
<1> QED
  BY <1>3, <1>4, <1>5, SendSlot DEF o

\* recvReqRetry keeps the shape of the queue.
LEMMA RetryKept ==
    ASSUME prog \in Seq(Instructions), NEW h \in Nat, NEW q, Good(q, h),
           q.state = "MemoryNeedsRetry", NEW p \in RecvReqRetry(q)
    PROVE  Kept(p, q, h)
<1> DEFINE w == {i \in 1..Len(q.slots) : q.slots[i].state = "StoreBufferNeedsRetry"}
<1>1. CASE w = {}
  <2>1. NoneWaits(q)
    BY <1>1 DEF NoneWaits
  <2>2. PICK t \in TryToSend(AsRunning(q), AsState(Head(q.requests), "Translated")) :
          p = AfterSending(t)
    BY <1>1 DEF RecvReqRetry, AsRunning, AsState, AfterSending
  <2> QED BY <2>1, <2>2, RetryFront
<1>2. CASE w # {}
  <2>1. Len(q.slots) \in Nat
    BY GoodParts, QueueTypes, LenProperties
  <2>2. w \in SUBSET Nat
    BY <2>1
  <2>3. Min(w) \in w
    BY <1>2, <2>2, LeastMember
  <2>4. PICK t \in TryToSend(AsRunning(q), AsState(q.slots[Min(w)], "StoreInStoreBuffer")) :
          p = SlotWith(t.q, Min(w), t.r, t.all)
    BY <1>2 DEF RecvReqRetry, AsRunning, AsState, SlotWith
  <2> DEFINE i == Min(w)
  <2>5. i \in 1..Len(q.slots) /\ q.slots[i].state = "StoreBufferNeedsRetry"
    BY <2>3
  <2> HIDE DEF i
  <2> QED BY <2>4, <2>5, RetrySlot DEF i
<1> QED BY <1>1, <1>2

\* retireResponse.
LEMMA RetiredIs ==
    ASSUME prog \in Seq(Instructions), NEW o \in Request, NEW x, x = Retired(o)
    PROVE  /\ x \in Request /\ x.inst = o.inst /\ x.sent = o.sent /\ x.retired = o.retired + 1
           /\ x.issuedToMemory = o.issuedToMemory /\ x.fault = o.fault
           /\ x.isLoad = o.isLoad /\ x.skipped = o.skipped
           /\ x.state = IF o.retired + 1 = NumFragments(o.inst) THEN "Complete" ELSE o.state
<1> DEFINE n == o.retired + 1
           c == IF n = NumFragments(o.inst) THEN "Complete" ELSE o.state
<1>1. x = [o EXCEPT !.retired = n, !.state = c]
  BY DEF Retired, NumFragments
<1>2. n \in Nat /\ c \in States
  BY DEF Request, States
<1> HIDE DEF n, c
<1>3. /\ x \in Request /\ x.inst = o.inst /\ x.sent = o.sent /\ x.retired = n
      /\ x.issuedToMemory = o.issuedToMemory /\ x.fault = o.fault
      /\ x.state = c /\ x.isLoad = o.isLoad /\ x.skipped = o.skipped
  BY <1>1, <1>2 DEF Request
<1> QED
  BY <1>3 DEF n, c

LEMMA RetiredRequest ==
    ASSUME prog \in Seq(Instructions), NEW o \in Pending, HasPacketsInMemSystem(o),
           NEW x, x = Retired(o)
    PROVE  x \in Pending /\ x.inst = o.inst /\ x.state = o.state /\ Started(o)
<1>1. /\ o.sent \in Nat /\ o.retired \in Nat /\ NumFragments(o.inst) \in Nat /\ o \in Request
  BY RequestFacts
<1>2. o.sent < NumFragments(o.inst) /\ o.retired < o.sent
  BY <1>1 DEF Pending, HasPacketsInMemSystem
<1>3. o.retired + 1 <= o.sent /\ o.retired + 1 # NumFragments(o.inst) /\ o.sent > 0
  BY <1>1, <1>2
<1>4. /\ x \in Request /\ x.inst = o.inst /\ x.sent = o.sent /\ x.retired = o.retired + 1
      /\ x.issuedToMemory = o.issuedToMemory /\ x.fault = o.fault
      /\ x.state = o.state /\ x.isLoad = o.isLoad
  BY <1>1, <1>3, RetiredIs
<1> QED
  BY <1>2, <1>3, <1>4 DEF Pending, Started

LEMMA RetiredTransfer ==
    ASSUME prog \in Seq(Instructions), NEW o \in Transferring, HasPacketsInMemSystem(o),
           NEW x, x = Retired(o)
    PROVE  x \in Transferring /\ x.inst = o.inst /\ x.isLoad = o.isLoad
<1>1. /\ o.sent \in Nat /\ o.retired \in Nat /\ NumFragments(o.inst) \in Nat /\ o \in Request
      /\ o.retired <= o.sent
  BY RequestFacts
<1>2. o.retired < o.sent /\ o.retired # o.sent /\ o.sent # 0
  BY <1>1 DEF HasPacketsInMemSystem
<1>3. /\ o.state = "RequestIssuing" /\ o.sent = NumFragments(o.inst) /\ IsMemRef(o.inst)
      /\ IsLoad(o.inst) => o.isLoad
  BY <1>1, <1>2 DEF Transferring
<1>4. /\ x \in Request /\ x.inst = o.inst /\ x.sent = o.sent /\ x.retired = o.retired + 1
      /\ x.state = IF o.retired + 1 = NumFragments(o.inst) THEN "Complete" ELSE o.state
      /\ x.isLoad = o.isLoad
  BY <1>1, RetiredIs
<1>4a. ~FailedStore(x) /\ (IsLoad(x.inst) => x.isLoad)
  BY <1>3, <1>4 DEF Transferring, FailedStore
<1>5. CASE o.retired + 1 = NumFragments(o.inst)
  <2>1. x.retired = x.sent /\ x.state = "Complete" /\ x.sent <= NumFragments(x.inst)
        /\ x.retired <= x.sent
    BY <1>1, <1>3, <1>4, <1>5
  <2> QED BY <1>3, <1>4, <1>4a, <2>1 DEF Transferring
<1>6. CASE o.retired + 1 # NumFragments(o.inst)
  <2>1. x.retired < x.sent /\ x.state = "RequestIssuing" /\ x.sent = NumFragments(x.inst)
        /\ x.retired <= x.sent /\ x.sent <= NumFragments(x.inst)
    BY <1>1, <1>2, <1>3, <1>4, <1>6
  <2> QED BY <1>3, <1>4, <1>4a, <2>1 DEF Transferring
<1> QED BY <1>5, <1>6

LEMMA RetiredSlot ==
    ASSUME prog \in Seq(Instructions), NEW o \in Slot, HasPacketsInMemSystem(o),
           NEW x, x = Retired(o)
    PROVE  /\ x.inst = o.inst
           /\ x.state = "Complete" =>
                ~Unissued(o) /\ Outstanding(o) = 1 /\ o.state = "StoreBufferIssuing"
           /\ x.state # "Complete" =>
                x \in Slot /\ (Unissued(x) <=> Unissued(o)) /\ x.state = o.state
<1>1. /\ o.sent \in Nat /\ o.retired \in Nat /\ NumFragments(o.inst) \in Nat /\ o \in Request
      /\ o.retired <= o.sent /\ o.sent <= NumFragments(o.inst) /\ o.inst \in Insts
  BY RequestFacts
<1>2. o.retired < o.sent /\ o.sent # 0
  BY <1>1 DEF HasPacketsInMemSystem
<1>3. /\ IsStore(o.inst) /\ Bufferable(o.inst)
      /\ o.state \in InBufferStates
      /\ o.sent = NumFragments(o.inst) => o.state = "StoreBufferIssuing"
  BY <1>2 DEF Slot
<1>4. /\ x \in Request /\ x.inst = o.inst /\ x.sent = o.sent /\ x.retired = o.retired + 1
      /\ x.state = IF o.retired + 1 = NumFragments(o.inst) THEN "Complete" ELSE o.state
  BY <1>1, RetiredIs
<1>5. ~IsBarrier(o.inst)
  BY <1>1, <1>3, ProgramFacts DEF IsMemRef
<1>6. CASE o.retired + 1 = NumFragments(o.inst)
  <2>1. o.sent = NumFragments(o.inst) /\ o.sent - o.retired = 1
    BY <1>1, <1>2, <1>6
  <2>2. ~Unissued(o)
    BY <1>5, <2>1 DEF Unissued, SentAllPackets, NumFragments
  <2>3. x.state = "Complete"
    BY <1>4, <1>6
  <2> QED BY <1>3, <1>4, <2>1, <2>2, <2>3 DEF Outstanding
<1>7. CASE o.retired + 1 # NumFragments(o.inst)
  <2>1. x.retired <= x.sent /\ x.sent <= NumFragments(x.inst)
        /\ x.retired < NumFragments(x.inst)
    BY <1>1, <1>2, <1>4, <1>7
  <2>2. x.state = o.state /\ x.state # "Complete"
    BY <1>3, <1>4, <1>7 DEF InBufferStates
  <2>3. Unissued(x) <=> Unissued(o)
    BY <1>4 DEF Unissued, SentAllPackets
  <2>4. x \in Slot
    BY <1>3, <1>4, <2>1, <2>2 DEF Slot
  <2> QED BY <1>4, <2>2, <2>3, <2>4
<1> QED BY <1>6, <1>7

\* The counters after an answer.
OneBack(p, q) ==
    /\ p.state = q.state /\ p.lastMemBarrier = q.lastMemBarrier
    /\ p.numStoresInTransfers = q.numStoresInTransfers
    /\ p.numUnissuedAccesses = q.numUnissuedAccesses
    /\ p.numAccessesIssuedToMemory = q.numAccessesIssuedToMemory
    /\ p.numAccessesInMemorySystem = q.numAccessesInMemorySystem - 1

\* An answer to a packet of o, which becomes x, is counted.
LEMMA BackCounted ==
    ASSUME prog \in Seq(Instructions), NEW q \in LSQs, NEW p, OneBack(p, q), Sizes(q),
           NEW o \in Request, NEW x, x = Retired(o)
    PROVE  /\ Swapped(p, q, o, x)
           /\ (Unissued(x) <=> Unissued(o)) => SlotSwapped(p, q, o, x)
           /\ Outstanding(o) = 1 =>
                p.numAccessesInMemorySystem = q.numAccessesInMemorySystem - Outstanding(o)
           /\ p.numAccessesInMemorySystem <= MemoryLimit
<1> DEFINE a == Num(o.issuedToMemory)
           b == Outstanding(o)
           m == q.numAccessesIssuedToMemory
           n == q.numAccessesInMemorySystem
           u == q.numUnissuedAccesses
           d == Num(Unissued(o))
<1>1. a \in Int /\ m \in Int /\ n \in Int /\ u \in Int /\ d \in Int
  BY QueueTypes DEF Num
<1>2. /\ p.numUnissuedAccesses = u
      /\ p.numAccessesIssuedToMemory = m /\ p.numAccessesInMemorySystem = n - 1
  BY DEF OneBack
<1>3. /\ x.sent = o.sent /\ x.retired = o.retired + 1 /\ x.issuedToMemory = o.issuedToMemory
  BY RetiredIs
<1>4. Num(x.issuedToMemory) = a
  BY <1>3
<1>5. b \in Int /\ Outstanding(x) = b - 1
  <2>1. o.sent \in Int /\ o.retired \in Int
    BY DEF Request
  <2> QED BY <1>3, <2>1 DEF Outstanding
<1>6. n <= MemoryLimit /\ MemoryLimit \in Int
  BY LSQAssumption DEF Sizes
<1>7. (Unissued(x) <=> Unissued(o)) => Num(Unissued(x)) = d
  BY DEF Num
<1> HIDE DEF a, b, m, n, u, d
<1>8. m = m + a - a /\ n - 1 = n + (b - 1) - b /\ u = u + d - d /\ n - 1 <= MemoryLimit
  BY <1>1, <1>5, <1>6
<1>9. Swapped(p, q, o, x)
  <2>1. p.numUnissuedAccesses = q.numUnissuedAccesses
    BY <1>2 DEF u
  <2>2. p.numAccessesIssuedToMemory =
          q.numAccessesIssuedToMemory + Num(x.issuedToMemory) - Num(o.issuedToMemory)
    BY <1>2, <1>4, <1>8 DEF m, a
  <2>3. p.numAccessesInMemorySystem =
          q.numAccessesInMemorySystem + Outstanding(x) - Outstanding(o)
    BY <1>2, <1>5, <1>8 DEF n, b
  <2> QED BY <2>1, <2>2, <2>3 DEF Swapped
<1>10. ASSUME Unissued(x) <=> Unissued(o) PROVE SlotSwapped(p, q, o, x)
  <2>1. p.numUnissuedAccesses = q.numUnissuedAccesses + Num(Unissued(x)) - Num(Unissued(o))
    BY <1>2, <1>7, <1>8, <1>10 DEF u, d
  <2>2. p.numAccessesIssuedToMemory = q.numAccessesIssuedToMemory
    BY <1>2 DEF m
  <2>3. p.numAccessesInMemorySystem =
          q.numAccessesInMemorySystem + Outstanding(x) - Outstanding(o)
    BY <1>9 DEF Swapped
  <2> QED BY <2>1, <2>2, <2>3 DEF SlotSwapped
<1>11. b = 1 => p.numAccessesInMemorySystem = n - b
  BY <1>2
<1> QED
  BY <1>2, <1>8, <1>9, <1>10, <1>11 DEF b, n

RequestBack(q, i) ==
    [[q EXCEPT !.numAccessesInMemorySystem = @ - 1] EXCEPT !.requests[i] = Retired(@)]

TransferBack(q, i) ==
    [[q EXCEPT !.numAccessesInMemorySystem = @ - 1] EXCEPT !.transfers[i] = Retired(@)]

SlotBack(q, i) ==
    [[q EXCEPT !.numAccessesInMemorySystem = @ - 1] EXCEPT !.slots[i] = Retired(q.slots[i])]

SlotGone(q, i) ==
    [[q EXCEPT !.numAccessesInMemorySystem = @ - 1] EXCEPT !.slots = RemoveAt(@, i)]

LEMMA BackIs ==
    ASSUME NEW q \in LSQs, NEW i, NEW p
    PROVE  /\ p = RequestBack(q, i) =>
                /\ Fields(p) /\ RestTyped(p) /\ OneBack(p, q)
                /\ p.requests = Put(q.requests, i, Retired(q.requests[i]))
                /\ p.transfers = q.transfers /\ p.slots = q.slots
           /\ p = TransferBack(q, i) =>
                /\ Fields(p) /\ RestTyped(p) /\ OneBack(p, q)
                /\ p.transfers = Put(q.transfers, i, Retired(q.transfers[i]))
                /\ p.requests = q.requests /\ p.slots = q.slots
           /\ p = SlotBack(q, i) =>
                /\ Fields(p) /\ RestTyped(p) /\ OneBack(p, q)
                /\ p.slots = Put(q.slots, i, Retired(q.slots[i]))
                /\ p.transfers = q.transfers /\ p.requests = q.requests
           /\ p = SlotGone(q, i) =>
                /\ Fields(p) /\ RestTyped(p) /\ OneBack(p, q)
                /\ p.slots = RemoveAt(q.slots, i)
                /\ p.transfers = q.transfers /\ p.requests = q.requests
<1> DEFINE n == q.numAccessesInMemorySystem - 1
<1>0. n \in Int
  BY QueueTypes
<1>1. p = RequestBack(q, i) =>
        p = [q EXCEPT !.numAccessesInMemorySystem = n,
                      !.requests = Put(q.requests, i, Retired(q.requests[i]))]
  BY DEF RequestBack, Put, LSQs
<1>2. p = TransferBack(q, i) =>
        p = [q EXCEPT !.numAccessesInMemorySystem = n,
                      !.transfers = Put(q.transfers, i, Retired(q.transfers[i]))]
  BY DEF TransferBack, Put, LSQs
<1>3. p = SlotBack(q, i) =>
        p = [q EXCEPT !.numAccessesInMemorySystem = n,
                      !.slots = Put(q.slots, i, Retired(q.slots[i]))]
  BY DEF SlotBack, Put, LSQs
<1>4. p = SlotGone(q, i) =>
        p = [q EXCEPT !.numAccessesInMemorySystem = n, !.slots = RemoveAt(q.slots, i)]
  BY DEF SlotGone, LSQs
<1> HIDE DEF n
<1>5. \A s : p = [q EXCEPT !.numAccessesInMemorySystem = n, !.requests = s] =>
        /\ Fields(p) /\ RestTyped(p) /\ p.state = q.state /\ p.lastMemBarrier = q.lastMemBarrier
        /\ p.numStoresInTransfers = q.numStoresInTransfers
        /\ p.numUnissuedAccesses = q.numUnissuedAccesses
        /\ p.numAccessesIssuedToMemory = q.numAccessesIssuedToMemory
        /\ p.numAccessesInMemorySystem = n
        /\ p.requests = s /\ p.transfers = q.transfers /\ p.slots = q.slots
  BY <1>0 DEF LSQs, Fields, RestTyped
<1>6. \A s : p = [q EXCEPT !.numAccessesInMemorySystem = n, !.transfers = s] =>
        /\ Fields(p) /\ RestTyped(p) /\ p.state = q.state /\ p.lastMemBarrier = q.lastMemBarrier
        /\ p.numStoresInTransfers = q.numStoresInTransfers
        /\ p.numUnissuedAccesses = q.numUnissuedAccesses
        /\ p.numAccessesIssuedToMemory = q.numAccessesIssuedToMemory
        /\ p.numAccessesInMemorySystem = n
        /\ p.requests = q.requests /\ p.transfers = s /\ p.slots = q.slots
  BY <1>0 DEF LSQs, Fields, RestTyped
<1>7. \A s : p = [q EXCEPT !.numAccessesInMemorySystem = n, !.slots = s] =>
        /\ Fields(p) /\ RestTyped(p) /\ p.state = q.state /\ p.lastMemBarrier = q.lastMemBarrier
        /\ p.numStoresInTransfers = q.numStoresInTransfers
        /\ p.numUnissuedAccesses = q.numUnissuedAccesses
        /\ p.numAccessesIssuedToMemory = q.numAccessesIssuedToMemory
        /\ p.numAccessesInMemorySystem = n
        /\ p.requests = q.requests /\ p.transfers = q.transfers /\ p.slots = s
  BY <1>0 DEF LSQs, Fields, RestTyped
<1>8. p = RequestBack(q, i) =>
                /\ Fields(p) /\ RestTyped(p) /\ OneBack(p, q)
                /\ p.requests = Put(q.requests, i, Retired(q.requests[i]))
                /\ p.transfers = q.transfers /\ p.slots = q.slots
  BY <1>1, <1>5 DEF OneBack, n
<1>9. p = TransferBack(q, i) =>
                /\ Fields(p) /\ RestTyped(p) /\ OneBack(p, q)
                /\ p.transfers = Put(q.transfers, i, Retired(q.transfers[i]))
                /\ p.requests = q.requests /\ p.slots = q.slots
  BY <1>2, <1>6 DEF OneBack, n
<1>10. p = SlotBack(q, i) =>
                /\ Fields(p) /\ RestTyped(p) /\ OneBack(p, q)
                /\ p.slots = Put(q.slots, i, Retired(q.slots[i]))
                /\ p.transfers = q.transfers /\ p.requests = q.requests
  BY <1>3, <1>7 DEF OneBack, n
<1>11. p = SlotGone(q, i) =>
                /\ Fields(p) /\ RestTyped(p) /\ OneBack(p, q)
                /\ p.slots = RemoveAt(q.slots, i)
                /\ p.transfers = q.transfers /\ p.requests = q.requests
  BY <1>4, <1>7 DEF OneBack, n
<1> QED
  BY <1>8, <1>9, <1>10, <1>11

\* An answer to the access at the front of requests, which has more packets to send.
LEMMA RequestBackKept ==
    ASSUME prog \in Seq(Instructions), NEW h \in Nat, NEW q, Good(q, h),
           NEW i \in 1..Len(q.requests), HasPacketsInMemSystem(q.requests[i]),
           NEW p, p = RequestBack(q, i)
    PROVE  Kept(p, q, h)
<1> DEFINE o == q.requests[i]
           x == Retired(o)
<1>1. q \in LSQs /\ Sizes(q) /\ OneRetry(q) /\ FrontFirst(q)
  BY GoodParts
<1>2. /\ Fields(p) /\ RestTyped(p) /\ OneBack(p, q) /\ p.requests = Put(q.requests, i, x)
      /\ p.transfers = q.transfers /\ p.slots = q.slots
  BY <1>1, BackIs
<1>3. o \in Pending
  BY <1>1, QueueTypes, ElementOfSeq
<1> HIDE DEF o
<1>4. x \in Pending /\ x.inst = o.inst /\ x.state = o.state /\ Started(o) /\ o \in Request
  BY <1>3, RetiredRequest, RequestFacts DEF o
<1> HIDE DEF x
<1>5. i = 1 /\ q.requests # <<>> /\ o = Head(q.requests)
  <2>1. q.requests \in Seq(Pending) /\ Len(q.requests) \in Nat
    BY <1>1, QueueTypes, LenProperties
  <2>2. i \notin 2..Len(q.requests)
    BY <1>1, <1>4, FirstParts DEF FreshFrom, o
  <2>3. i = 1
    BY <2>1, <2>2
  <2>4. q.requests # <<>>
    BY <2>1
  <2> QED BY <2>1, <2>3, <2>4 DEF o
<1>6. Swapped(p, q, o, x) /\ p.numAccessesInMemorySystem <= MemoryLimit
  BY <1>1, <1>2, <1>4, BackCounted DEF x
<1>7. /\ p.state = "MemoryRunning" => NoneWaits(q)
      /\ p.state = "MemoryNeedsRetry" /\ NoneWaits(q)
           => x.state = "RequestNeedsRetry" /\ Len(q.transfers) < TransfersSize
  BY <1>1, <1>2, <1>4, <1>5, RetryParts DEF OneBack, FrontWaits
<1>8. Started(x) /\ IsLoad(x.inst) => Clear(q, x.inst)
  BY <1>1, <1>4, <1>5, FirstParts
<1>9. /\ p.requests = Put(q.requests, 1, x)
      /\ p.numStoresInTransfers = q.numStoresInTransfers
      /\ p.lastMemBarrier = q.lastMemBarrier
  BY <1>2, <1>5 DEF OneBack
<1>10. Good(p, h) /\ Held(p) = Held(q)
  BY <1>2, <1>4, <1>5, <1>6, <1>7, <1>8, <1>9, FrontChanged
<1> QED
  BY <1>9, <1>10 DEF Kept

\* An answer to an access in transfers.
LEMMA TransferBackKept ==
    ASSUME prog \in Seq(Instructions), NEW h \in Nat, NEW q, Good(q, h),
           NEW i \in 1..Len(q.transfers), HasPacketsInMemSystem(q.transfers[i]),
           NEW p, p = TransferBack(q, i)
    PROVE  Kept(p, q, h)
<1> DEFINE o == q.transfers[i]
           x == Retired(o)
<1>1. /\ q \in LSQs /\ Ordered(q, h) /\ CountsMatch(q)
      /\ Sizes(q) /\ OneRetry(q) /\ FrontFirst(q)
  BY GoodParts
<1>2. /\ Fields(p) /\ RestTyped(p) /\ OneBack(p, q) /\ p.transfers = Put(q.transfers, i, x)
      /\ p.requests = q.requests /\ p.slots = q.slots
  BY <1>1, BackIs
<1>3. o \in Transferring
  BY <1>1, QueueTypes, ElementOfSeq
<1> HIDE DEF o
<1>4. x \in Transferring /\ x.inst = o.inst /\ x.isLoad = o.isLoad /\ o \in Request
  BY <1>3, RetiredTransfer, RequestFacts DEF o
<1> HIDE DEF x
<1>5. Swapped(p, q, o, x) /\ p.numAccessesInMemorySystem <= MemoryLimit
  BY <1>1, <1>2, <1>4, BackCounted DEF x
<1>6. /\ p.numUnissuedAccesses = q.numUnissuedAccesses
      /\ p.numAccessesIssuedToMemory =
           q.numAccessesIssuedToMemory + Num(x.issuedToMemory) - Num(o.issuedToMemory)
      /\ p.numAccessesInMemorySystem =
           q.numAccessesInMemorySystem + Outstanding(x) - Outstanding(o)
  BY <1>5 DEF Swapped
<1>7. /\ p.numStoresInTransfers = q.numStoresInTransfers
      /\ p.lastMemBarrier = q.lastMemBarrier /\ p.state = q.state
  BY <1>2 DEF OneBack
<1>8. p \in LSQs /\ Ordered(p, h) /\ CountsMatch(p) /\ Held(p) = Held(q)
  BY <1>1, <1>2, <1>4, <1>6, <1>7, TransferUpdated DEF o
<1>9. Len(p.transfers) = Len(q.transfers)
  <2> DEFINE s == q.transfers
  <2>1. s \in Seq(Transferring) /\ i \in 1..Len(s) /\ p.transfers = [s EXCEPT ![i] = x]
    BY <1>1, <1>2, QueueTypes DEF Put
  <2> HIDE DEF s
  <2> QED BY <1>4, <2>1, ExceptSeq DEF s
<1>10. Sizes(p)
  BY <1>1, <1>2, <1>5, <1>9 DEF Sizes
<1>11. OneRetry(p)
  <2>1. (NoneWaits(p) <=> NoneWaits(q)) /\ (OneWaits(p) <=> OneWaits(q))
    BY <1>2 DEF NoneWaits, OneWaits
  <2>2. FrontWaits(q) => FrontWaits(p)
    BY <1>2, <1>9 DEF FrontWaits
  <2> QED BY <1>1, <1>7, <2>1, <2>2, RetryParts
<1>12. FrontFirst(p)
  BY <1>1, <1>2, <1>7 DEF FrontFirst
<1> QED
  BY <1>7, <1>8, <1>10, <1>11, <1>12, GoodParts DEF Kept

\* An answer to a store in the store buffer that expects more.
LEMMA SlotBackKept ==
    ASSUME prog \in Seq(Instructions), NEW h \in Nat, NEW q, Good(q, h),
           NEW i \in 1..Len(q.slots), HasPacketsInMemSystem(q.slots[i]),
           Retired(q.slots[i]).state # "Complete", NEW p, p = SlotBack(q, i)
    PROVE  Kept(p, q, h)
<1> DEFINE o == q.slots[i]
           x == Retired(o)
<1>1. q \in LSQs /\ Sizes(q) /\ OneRetry(q)
  BY GoodParts
<1>2. /\ Fields(p) /\ RestTyped(p) /\ OneBack(p, q) /\ p.slots = Put(q.slots, i, x)
      /\ p.requests = q.requests /\ p.transfers = q.transfers
  BY <1>1, BackIs
<1>3. o \in Slot
  BY <1>1, QueueTypes, ElementOfSeq
<1> HIDE DEF o
<1>4. x \in Slot /\ x.inst = o.inst /\ (Unissued(x) <=> Unissued(o)) /\ x.state = o.state
      /\ o \in Request
  BY <1>3, RetiredSlot, RequestFacts DEF o
<1> HIDE DEF x
<1>5. SlotSwapped(p, q, o, x) /\ p.numAccessesInMemorySystem <= MemoryLimit
  BY <1>1, <1>2, <1>4, BackCounted DEF x
<1>6. SameFront(p, q) /\ p.state = q.state
  BY <1>2 DEF OneBack, SameFront
<1>7. /\ Len(p.slots) = Len(q.slots)
      /\ \A j \in 1..Len(q.slots) : p.slots[j].state = q.slots[j].state
  BY <1>1, <1>2, <1>4, SlotPut DEF o
<1>8. (NoneWaits(p) <=> NoneWaits(q)) /\ (OneWaits(p) <=> OneWaits(q))
  BY <1>7 DEF NoneWaits, OneWaits
<1>9. /\ p.state = "MemoryRunning" => NoneWaits(p)
      /\ OneWaits(p)
      /\ p.state = "MemoryNeedsRetry" /\ NoneWaits(p)
           => q.state = "MemoryNeedsRetry" /\ NoneWaits(q)
  BY <1>1, <1>6, <1>8, RetryParts
<1> QED
  BY <1>2, <1>4, <1>5, <1>6, <1>9, SlotChanged DEF o

\* What waits for a retry after slot i, which does not, has left.
LEMMA WaitsAfterRemove ==
    ASSUME prog \in Seq(Instructions), NEW s \in Seq(Slot), InOrder(s), NEW i \in 1..Len(s),
           s[i].state # "StoreBufferNeedsRetry", NEW t, t = RemoveAt(s, i),
           NEW q, NEW p, q.slots = s, p.slots = t
    PROVE  /\ NoneWaits(p) <=> NoneWaits(q)
           /\ OneWaits(q) => OneWaits(p)
           /\ From(t, s) /\ Len(t) = Len(s) - 1
<1>1. \A x \in Slot : x.inst \in Nat
  BY RequestFacts
<1>2. /\ t \in Seq(Slot) /\ Len(t) = Len(s) - 1 /\ InOrder(t) /\ From(t, s)
      /\ \A m : Entry(t, m) = IF m = s[i].inst THEN {} ELSE Entry(s, m)
  BY <1>1, RemovedAt
<1>3. ASSUME NoneWaits(q) PROVE NoneWaits(p)
  BY <1>2, <1>3 DEF NoneWaits, From
<1>4. ASSUME NoneWaits(p) PROVE NoneWaits(q)
  <2> SUFFICES ASSUME NEW j \in 1..Len(s), s[j].state = "StoreBufferNeedsRetry" PROVE FALSE
    BY DEF NoneWaits
  <2>1. s[j].inst # s[i].inst
    <3>1. s[j].inst = s[i].inst => j = i
      BY <1>1, EntryOf
    <3> QED BY <3>1
  <2>2. s[j] \in Entry(t, s[j].inst)
    <3>1. Entry(s, s[j].inst) = {s[j]}
      BY <1>1, EntryOf
    <3>2. Entry(t, s[j].inst) = Entry(s, s[j].inst)
      BY <1>2, <2>1
    <3> QED BY <3>1, <3>2
  <2>3. PICK k \in 1..Len(t) : t[k] = s[j]
    BY <2>2 DEF Entry
  <2> QED BY <1>4, <2>3 DEF NoneWaits
<1>5. ASSUME OneWaits(q) PROVE OneWaits(p)
  <2> SUFFICES ASSUME NEW j \in 1..Len(t), NEW k \in 1..Len(t),
                      t[j].state = "StoreBufferNeedsRetry", t[k].state = "StoreBufferNeedsRetry"
               PROVE  j = k
    BY DEF OneWaits
  <2>1. PICK a \in 1..Len(s) : t[j] = s[a]
    BY <1>2 DEF From
  <2>2. PICK b \in 1..Len(s) : t[k] = s[b]
    BY <1>2 DEF From
  <2>3. a = b
    BY <1>5, <2>1, <2>2 DEF OneWaits
  <2>4. t[j].inst = t[k].inst
    BY <2>1, <2>2, <2>3
  <2> QED BY <1>1, <1>2, <2>4, EntryOf
<1> QED BY <1>2, <1>3, <1>4, <1>5

\* The last answer to a store in the store buffer.
LEMMA SlotGoneKept ==
    ASSUME prog \in Seq(Instructions), NEW h \in Nat, NEW q, Good(q, h),
           NEW i \in 1..Len(q.slots), HasPacketsInMemSystem(q.slots[i]),
           Retired(q.slots[i]).state = "Complete", NEW p, p = SlotGone(q, i)
    PROVE  Kept(p, q, h)
<1> DEFINE o == q.slots[i]
<1>1. /\ q \in LSQs /\ Ordered(q, h) /\ CountsMatch(q)
      /\ Sizes(q) /\ OneRetry(q) /\ FrontFirst(q)
  BY GoodParts
<1>2. /\ Fields(p) /\ RestTyped(p) /\ OneBack(p, q) /\ p.slots = RemoveAt(q.slots, i)
      /\ p.requests = q.requests /\ p.transfers = q.transfers
  BY <1>1, BackIs
<1>3. o \in Slot
  BY <1>1, QueueTypes, ElementOfSeq
<1> HIDE DEF o
<1>4. ~Unissued(o) /\ Outstanding(o) = 1 /\ o.state = "StoreBufferIssuing" /\ o \in Request
  BY <1>3, RetiredSlot, RequestFacts DEF o
<1>5. /\ p.numAccessesInMemorySystem = q.numAccessesInMemorySystem - Outstanding(o)
      /\ p.numAccessesInMemorySystem <= MemoryLimit
  BY <1>1, <1>2, <1>4, BackCounted
<1>6. p.numUnissuedAccesses = q.numUnissuedAccesses - Num(Unissued(o))
  <2>1. Num(Unissued(o)) = 0
    BY <1>4 DEF Num
  <2>2. q.numUnissuedAccesses \in Int /\ p.numUnissuedAccesses = q.numUnissuedAccesses
    BY <1>1, <1>2, QueueTypes DEF OneBack
  <2> QED BY <2>1, <2>2
<1>7. /\ p.numStoresInTransfers = q.numStoresInTransfers
      /\ p.numAccessesIssuedToMemory = q.numAccessesIssuedToMemory
      /\ p.lastMemBarrier = q.lastMemBarrier /\ p.state = q.state
  BY <1>2 DEF OneBack
<1>8. p \in LSQs /\ Ordered(p, h) /\ CountsMatch(p)
  BY <1>1, <1>2, <1>5, <1>6, <1>7, SlotRemoved DEF o
<1>9. /\ NoneWaits(p) <=> NoneWaits(q)
      /\ OneWaits(q) => OneWaits(p)
      /\ From(p.slots, q.slots) /\ Len(p.slots) = Len(q.slots) - 1
  <2> DEFINE s == q.slots
             t == p.slots
  <2>1. s \in Seq(Slot) /\ InOrder(s) /\ i \in 1..Len(s) /\ t = RemoveAt(s, i)
        /\ s[i].state # "StoreBufferNeedsRetry" /\ q.slots = s /\ p.slots = t
    BY <1>1, <1>2, <1>4, QueueTypes DEF Ordered, QueuesInOrder, o
  <2> HIDE DEF s, t
  <2>2. /\ NoneWaits(p) <=> NoneWaits(q)
        /\ OneWaits(q) => OneWaits(p)
        /\ From(t, s) /\ Len(t) = Len(s) - 1
    BY <2>1, WaitsAfterRemove
  <2> QED BY <2>2 DEF s, t
<1>10. Sizes(p)
  <2>1. Len(q.slots) \in Nat /\ Len(q.slots) <= StoreBufferSize /\ StoreBufferSize \in Nat
    BY <1>1, LSQAssumption, QueueTypes, LenProperties DEF Sizes
  <2>2. Len(q.slots) - 1 <= StoreBufferSize
    BY <2>1
  <2> QED BY <1>1, <1>2, <1>5, <1>9, <2>2 DEF Sizes
<1>11. OneRetry(p)
  <2>1. FrontWaits(q) => FrontWaits(p)
    BY <1>2 DEF FrontWaits
  <2> QED BY <1>1, <1>7, <1>9, <2>1, RetryParts
<1>12. FrontFirst(p)
  <2>1. \A n : Clear(q, n) => Clear(p, n)
    BY <1>7, <1>9 DEF Clear, From
  <2> QED BY <1>1, <1>2, <2>1, FirstParts
<1>13. Held(p) = Held(q)
  BY <1>2 DEF Held
<1> QED
  BY <1>7, <1>8, <1>10, <1>11, <1>12, <1>13, GoodParts DEF Kept

\* Only a packet that has not been answered is answered.
LEMMA AnswerableSent ==
    ASSUME prog \in Seq(Instructions), NEW q \in LSQs, NEW i \in 1..Len(q.slots),
           Answerable(q, i)
    PROVE  HasPacketsInMemSystem(q.slots[i])
<1> DEFINE r == q.slots[i]
           behind == UNION {ToSet(Lines(q.slots[j].inst)) :
                              j \in {k \in 1..(i - 1) : HasPacketsInMemSystem(q.slots[k])}}
           K == {k \in 1..r.sent : Lines(r.inst)[k] \notin behind}
<1>1. r.retired < Cardinality(K)
  BY DEF Answerable
<1>2. r \in Slot
  BY QueueTypes, ElementOfSeq
<1>3. r.sent \in Nat /\ r.retired \in Nat
  BY <1>2, RequestFacts
<1>4. K \subseteq 1..r.sent
  OBVIOUS
<1> HIDE DEF K, behind
<1>5. /\ IsFiniteSet(1..r.sent) /\ Cardinality(1..r.sent) = r.sent
  <2> DEFINE b == r.sent
  <2>1. b \in Int /\ b >= 0
    BY <1>3
  <2> HIDE DEF b
  <2>2. /\ IsFiniteSet(1..b) /\ Cardinality(1..b) = IF 1 > b THEN 0 ELSE b - 1 + 1
    BY <2>1, FS_Interval
  <2>3. (IF 1 > b THEN 0 ELSE b - 1 + 1) = b
    BY <2>1
  <2>4. IsFiniteSet(1..b) /\ Cardinality(1..b) = b
    BY <2>2, <2>3
  <2> QED BY <2>4 DEF b
<1>6. Cardinality(K) <= r.sent /\ Cardinality(K) \in Nat
  BY <1>3, <1>4, <1>5, FS_Subset, FS_CardinalityType
<1>7. r.sent > r.retired
  BY <1>1, <1>3, <1>6
<1> QED BY <1>7 DEF HasPacketsInMemSystem

\* recvTimingResp keeps the shape of the queue.
LEMMA RespKept ==
    ASSUME prog \in Seq(Instructions), NEW h \in Nat, NEW q, Good(q, h),
           NEW p \in RecvTimingResp(q)
    PROVE  Kept(p, q, h)
<1>1. q \in LSQs
  BY GoodParts
<1>2. \/ \E i \in 1..Len(q.requests) :
            HasPacketsInMemSystem(q.requests[i]) /\ p = RequestBack(q, i)
      \/ \E i \in 1..Len(q.transfers) :
            HasPacketsInMemSystem(q.transfers[i]) /\ p = TransferBack(q, i)
      \/ \E i \in 1..Len(q.slots) :
            /\ Answerable(q, i)
            /\ p = IF Retired(q.slots[i]).state = "Complete" THEN SlotGone(q, i)
                   ELSE SlotBack(q, i)
  BY DEF RecvTimingResp, RequestBack, TransferBack, SlotBack, SlotGone
<1>3. CASE \E i \in 1..Len(q.requests) :
             HasPacketsInMemSystem(q.requests[i]) /\ p = RequestBack(q, i)
  BY <1>3, RequestBackKept
<1>4. CASE \E i \in 1..Len(q.transfers) :
             HasPacketsInMemSystem(q.transfers[i]) /\ p = TransferBack(q, i)
  BY <1>4, TransferBackKept
<1>5. CASE \E i \in 1..Len(q.slots) :
             /\ Answerable(q, i)
             /\ p = IF Retired(q.slots[i]).state = "Complete" THEN SlotGone(q, i)
                    ELSE SlotBack(q, i)
  <2>1. PICK i \in 1..Len(q.slots) :
             /\ Answerable(q, i)
             /\ p = IF Retired(q.slots[i]).state = "Complete" THEN SlotGone(q, i)
                    ELSE SlotBack(q, i)
    BY <1>5
  <2>2. HasPacketsInMemSystem(q.slots[i])
    BY <1>1, <2>1, AnswerableSent
  <2>3. CASE Retired(q.slots[i]).state = "Complete"
    BY <2>1, <2>2, <2>3, SlotGoneKept
  <2>4. CASE Retired(q.slots[i]).state # "Complete"
    BY <2>1, <2>2, <2>4, SlotBackKept
  <2> QED BY <2>3, <2>4
<1> QED BY <1>2, <1>3, <1>4, <1>5

----------------------------------------------------------------------------
(* What Execute asks of the queue. *)

\* The head, h, has left inFlightInsts.
Left(p, q, h) ==
    /\ Good(p, h + 1) /\ Held(p) = Held(q) \ {h}
    /\ p.lastMemBarrier \in {q.lastMemBarrier, 0}

LEMMA FrontCounted ==
    ASSUME prog \in Seq(Instructions), NEW q \in LSQs, CountsMatch(q), q.transfers # <<>>,
           q.numStoresInTransfers = 0
    PROVE  Head(q.transfers).isLoad
<1> DEFINE s == q.transfers
           n == Head(s).inst
<1>1. s \in Seq(Transferring) /\ s # <<>>
  BY QueueTypes
<1>2. StoresInTransfers(q) = {}
  BY CountedFinite, FS_EmptySet DEF CountsMatch
<1>3. StoresInTransfers(q) = {m \in Insts : \E x \in Entry(s, m) : ~x.isLoad}
  BY CountSets
<1> HIDE DEF s
<1>4. Len(s) \in Nat /\ 1 \in 1..Len(s) /\ Head(s) = s[1] /\ s[1] \in Transferring
  BY <1>1, LenProperties
<1>5. n \in Insts
  BY <1>4, RequestFacts
<1>6. s[1] \in Entry(s, n)
  BY <1>4 DEF Entry
<1> QED BY <1>2, <1>3, <1>4, <1>5, <1>6 DEF s

\* A response that is found has no packets in the memory system.
LEMMA FoundResponse ==
    ASSUME prog \in Seq(Instructions), NEW h \in Nat, NEW q, Good(q, h), FindResponse(q, h),
           NEW o, o = Head(q.transfers)
    PROVE  /\ q.transfers # <<>> /\ o \in Transferring /\ o.inst = h /\ h \in Insts
           /\ Outstanding(o) = 0 /\ o.issuedToMemory \in BOOLEAN
           /\ o.state = "Complete" \/ (o.state = "StoreToStoreBuffer" /\ CanInsert(q))
<1>1. /\ q.transfers # <<>> /\ o.inst = h
      /\ o.state = "Complete" \/ (o.state = "StoreToStoreBuffer" /\ CanInsert(q))
  BY DEF FindResponse
<1>2. q.transfers \in Seq(Transferring)
  BY GoodParts, QueueTypes
<1>3. o \in Transferring
  <2> DEFINE s == q.transfers
  <2>1. s \in Seq(Transferring) /\ s # <<>> /\ o = Head(s)
    BY <1>1, <1>2
  <2> HIDE DEF s
  <2> QED BY <2>1
<1>4. o.sent \in Nat /\ o.retired \in Nat /\ o.inst \in Insts /\ o.retired <= o.sent
      /\ o.issuedToMemory \in BOOLEAN
  BY <1>3, RequestFacts
<1>5. o.retired = o.sent \/ o.sent = 0
  BY <1>1, <1>3 DEF Transferring
<1>6. Outstanding(o) = 0
  BY <1>4, <1>5 DEF Outstanding
<1> QED BY <1>1, <1>3, <1>4, <1>6

LEMMA TailShorter ==
    ASSUME NEW X, NEW s \in Seq(X), s # <<>>
    PROVE  Len(Tail(s)) \in Nat /\ Len(Tail(s)) = Len(s) - 1 /\ Len(s) \in Nat
OBVIOUS

LEMMA PopIs ==
    ASSUME prog \in Seq(Instructions), NEW q \in LSQs, q.transfers # <<>>,
           NEW o, o = Head(q.transfers), o.issuedToMemory \in BOOLEAN,
           NEW p, p = PopResponse(q)
    PROVE  /\ Fields(p) /\ RestTyped(p) /\ FrontTaken(q.transfers, o, p.transfers)
           /\ p.requests = q.requests /\ p.slots = q.slots /\ p.state = q.state
           /\ p.lastMemBarrier = q.lastMemBarrier
           /\ CountersBy(p, q, 0 - Num(~o.isLoad), 0, 0 - Num(o.issuedToMemory), 0)
<1> DEFINE a == IF o.isLoad THEN q.numStoresInTransfers ELSE q.numStoresInTransfers - 1
           b == IF o.issuedToMemory THEN q.numAccessesIssuedToMemory - 1
                ELSE q.numAccessesIssuedToMemory
           t == Tail(q.transfers)
<1>1. p = [q EXCEPT !.transfers = t, !.numStoresInTransfers = a, !.numAccessesIssuedToMemory = b]
  BY DEF PopResponse, LSQs
<1>2. /\ q.numStoresInTransfers \in Int /\ q.numAccessesIssuedToMemory \in Int
      /\ q.numUnissuedAccesses \in Int /\ q.numAccessesInMemorySystem \in Int
  BY QueueTypes
<1>3. a \in Int /\ b \in Int
  BY <1>2
<1>4. a = q.numStoresInTransfers + (0 - Num(~o.isLoad))
  <2>1. Num(~o.isLoad) = IF o.isLoad THEN 0 ELSE 1
    BY DEF Num
  <2> QED BY <1>2, <2>1
<1>5. b = q.numAccessesIssuedToMemory + (0 - Num(o.issuedToMemory))
  <2>1. Num(o.issuedToMemory) = IF o.issuedToMemory THEN 1 ELSE 0
    BY DEF Num
  <2> QED BY <1>2, <2>1
<1> HIDE DEF a, b, t
<1>6. /\ Fields(p) /\ RestTyped(p) /\ p.transfers = t
      /\ p.requests = q.requests /\ p.slots = q.slots /\ p.state = q.state
      /\ p.lastMemBarrier = q.lastMemBarrier
      /\ p.numStoresInTransfers = a /\ p.numAccessesIssuedToMemory = b
      /\ p.numUnissuedAccesses = q.numUnissuedAccesses
      /\ p.numAccessesInMemorySystem = q.numAccessesInMemorySystem
  BY <1>1, <1>3 DEF LSQs, Fields, RestTyped
<1>7. FrontTaken(q.transfers, o, p.transfers)
  BY <1>6 DEF FrontTaken, t
<1>8. CountersBy(p, q, 0 - Num(~o.isLoad), 0, 0 - Num(o.issuedToMemory), 0)
  <2>1. /\ p.numUnissuedAccesses = q.numUnissuedAccesses + 0
        /\ p.numAccessesInMemorySystem = q.numAccessesInMemorySystem + 0
    BY <1>2, <1>6
  <2> QED BY <1>4, <1>5, <1>6, <2>1 DEF CountersBy
<1> QED BY <1>6, <1>7, <1>8

\* popResponse keeps the shape of the queue.
LEMMA PopLeft ==
    ASSUME prog \in Seq(Instructions), NEW h \in Nat, NEW q, Good(q, h), FindResponse(q, h),
           NEW p, p = PopResponse(q)
    PROVE  Left(p, q, h)
<1> DEFINE o == Head(q.transfers)
<1>1. /\ q \in LSQs /\ Ordered(q, h) /\ CountsMatch(q)
      /\ Sizes(q) /\ OneRetry(q) /\ FrontFirst(q)
  BY GoodParts
<1>2. /\ q.transfers # <<>> /\ o \in Transferring /\ o.inst = h /\ h \in Insts
      /\ Outstanding(o) = 0 /\ o.issuedToMemory \in BOOLEAN
  BY FoundResponse
<1> HIDE DEF o
<1>3. /\ Fields(p) /\ RestTyped(p) /\ FrontTaken(q.transfers, o, p.transfers)
      /\ p.requests = q.requests /\ p.slots = q.slots /\ p.state = q.state
      /\ p.lastMemBarrier = q.lastMemBarrier
      /\ CountersBy(p, q, 0 - Num(~o.isLoad), 0, 0 - Num(o.issuedToMemory), 0)
  BY <1>1, <1>2, PopIs DEF o
<1>4. p \in LSQs /\ Ordered(p, h + 1) /\ CountsMatch(p) /\ Held(p) = Held(q) \ {h}
  BY <1>1, <1>2, <1>3, TransferTaken
<1>5. /\ Len(p.transfers) \in Nat /\ Len(p.transfers) = Len(q.transfers) - 1
      /\ Len(q.transfers) \in Nat
  <2> DEFINE s == q.transfers
  <2>1. s \in Seq(Transferring) /\ s # <<>> /\ p.transfers = Tail(s)
    BY <1>1, <1>2, <1>3, QueueTypes DEF FrontTaken
  <2> HIDE DEF s
  <2> QED BY <2>1, TailShorter DEF s
<1>6. TransfersSize \in Nat
  BY LSQAssumption
<1>7. Sizes(p)
  <2>1. Len(p.transfers) <= TransfersSize
    BY <1>1, <1>5, <1>6 DEF Sizes
  <2>2. p.numAccessesInMemorySystem = q.numAccessesInMemorySystem
    BY <1>1, <1>3, QueueTypes DEF CountersBy
  <2> QED BY <1>1, <1>3, <2>1, <2>2 DEF Sizes
<1>8. OneRetry(p)
  <2>1. (NoneWaits(p) <=> NoneWaits(q)) /\ (OneWaits(p) <=> OneWaits(q))
    BY <1>3 DEF NoneWaits, OneWaits
  <2>2. FrontWaits(q) => FrontWaits(p)
    BY <1>3, <1>5, <1>6 DEF FrontWaits
  <2> QED BY <1>1, <1>3, <2>1, <2>2, RetryParts
<1>9. FrontFirst(p)
  <2>1. ASSUME NEW n, Clear(q, n) PROVE Clear(p, n)
    <3>1. q.numStoresInTransfers = 0
      BY <2>1 DEF Clear
    <3>2. o.isLoad
      BY <1>1, <1>2, <3>1, FrontCounted DEF o
    <3>3. Num(~o.isLoad) = 0
      BY <3>2 DEF Num
    <3>4. p.numStoresInTransfers = 0
      BY <1>3, <3>1, <3>3 DEF CountersBy
    <3> QED BY <1>3, <2>1, <3>4 DEF Clear
  <2> QED BY <1>1, <1>3, <2>1, FirstParts
<1>10. Good(p, h + 1)
  BY <1>4, <1>7, <1>8, <1>9, GoodParts
<1> QED BY <1>3, <1>4, <1>10 DEF Left

\* An access that does not wait for a retry is added to the store buffer.
LEMMA SlotAppended ==
    ASSUME NEW q \in LSQs, NEW r \in Slot, r.state # "StoreBufferNeedsRetry",
           NEW p, p.slots = Append(q.slots, r), CanInsert(q)
    PROVE  /\ NoneWaits(p) <=> NoneWaits(q)
           /\ OneWaits(q) => OneWaits(p)
           /\ Len(p.slots) <= StoreBufferSize
           /\ \A i \in 1..Len(p.slots) :
                p.slots[i] = r \/ \E j \in 1..Len(q.slots) : p.slots[i] = q.slots[j]
<1> DEFINE s == q.slots
           t == p.slots
           k == Len(s)
<1>1. s \in Seq(Slot) /\ t = Append(s, r) /\ Len(s) < StoreBufferSize
  BY QueueTypes DEF CanInsert
<1> HIDE DEF s, t
<1>2. k \in Nat /\ Len(t) = k + 1 /\ t[k + 1] = r /\ \A i \in 1..k : t[i] = s[i]
  BY <1>1
<1>3. StoreBufferSize \in Nat
  BY LSQAssumption
<1>4. Len(t) <= StoreBufferSize
  BY <1>1, <1>2, <1>3
<1> HIDE DEF k
<1>5. 1..Len(t) = (1..k) \cup {k + 1} /\ k + 1 \notin 1..k
  BY <1>2
<1>6. NoneWaits(p) <=> NoneWaits(q)
  <2>1. NoneWaits(p) <=> \A i \in 1..Len(t) : t[i].state # "StoreBufferNeedsRetry"
    BY DEF NoneWaits, t
  <2>2. NoneWaits(q) <=> \A i \in 1..k : s[i].state # "StoreBufferNeedsRetry"
    BY DEF NoneWaits, s, k
  <2> QED BY <1>2, <1>5, <2>1, <2>2
<1>7. OneWaits(q) => OneWaits(p)
  <2>1. OneWaits(p) <=>
          \A i, j \in 1..Len(t) :
            t[i].state = "StoreBufferNeedsRetry" /\ t[j].state = "StoreBufferNeedsRetry" => i = j
    BY DEF OneWaits, t
  <2>2. OneWaits(q) <=>
          \A i, j \in 1..k :
            s[i].state = "StoreBufferNeedsRetry" /\ s[j].state = "StoreBufferNeedsRetry" => i = j
    BY DEF OneWaits, s, k
  <2> QED BY <1>2, <1>5, <2>1, <2>2
<1>8. \A i \in 1..Len(t) : t[i] = r \/ \E j \in 1..k : t[i] = s[j]
  BY <1>2, <1>5
<1> QED BY <1>4, <1>6, <1>7, <1>8 DEF s, t, k

LEMMA StoreIsSlot ==
    ASSUME prog \in Seq(Instructions), NEW o \in Transferring, o.state = "StoreToStoreBuffer",
           NEW r, r = AsState(o, "StoreInStoreBuffer")
    PROVE  /\ r \in Slot /\ r.inst = o.inst /\ r.state = "StoreInStoreBuffer" /\ Unissued(r)
           /\ Outstanding(r) = 0
           /\ ~o.issuedToMemory /\ ~o.isLoad
<1>1. /\ o.sent \in Nat /\ o.retired \in Nat /\ NumFragments(o.inst) \in Nat /\ o \in Request
      /\ o.retired <= o.sent /\ o.inst \in Insts
  BY RequestFacts
<1>2. o.sent = 0 /\ IsStore(o.inst) /\ Bufferable(o.inst) /\ ~o.issuedToMemory
  BY DEF Transferring
<1>3. o.retired = 0
  BY <1>1, <1>2
<1>4. NumFragments(o.inst) > 0
  BY <1>1, <1>2, ProgramFacts DEF IsMemRef
<1>5. /\ r \in Request /\ r.inst = o.inst /\ r.sent = 0 /\ r.retired = 0
      /\ r.state = "StoreInStoreBuffer"
  BY <1>1, <1>2, <1>3 DEF Request, States, AsState
<1>6. r \in Slot
  BY <1>1, <1>2, <1>4, <1>5 DEF Slot, InBufferStates
<1>7. Unissued(r)
  BY <1>1, <1>4, <1>5 DEF Unissued, SentAllPackets, NumFragments
<1>8. ~o.isLoad
  BY <1>2 DEF Transferring, FailedStore
<1> QED BY <1>2, <1>5, <1>6, <1>7, <1>8 DEF Outstanding

LEMMA InsertIs ==
    ASSUME NEW q \in LSQs, NEW r, NEW p, p = Insert(q, r)
    PROVE  /\ Fields(p) /\ RestTyped(p) /\ p.slots = Append(q.slots, r)
           /\ p.requests = q.requests /\ p.transfers = q.transfers /\ p.state = q.state
           /\ p.lastMemBarrier = q.lastMemBarrier
           /\ p.numStoresInTransfers = q.numStoresInTransfers
           /\ p.numUnissuedAccesses = q.numUnissuedAccesses + 1
           /\ p.numAccessesIssuedToMemory = q.numAccessesIssuedToMemory
           /\ p.numAccessesInMemorySystem = q.numAccessesInMemorySystem
<1> DEFINE n == q.numUnissuedAccesses + 1
           s == Append(q.slots, r)
<1>1. n \in Int /\ p = [q EXCEPT !.slots = s, !.numUnissuedAccesses = n]
  BY QueueTypes DEF Insert, LSQs
<1> HIDE DEF n, s
<1>2. /\ Fields(p) /\ RestTyped(p) /\ p.slots = s
      /\ p.requests = q.requests /\ p.transfers = q.transfers /\ p.state = q.state
      /\ p.lastMemBarrier = q.lastMemBarrier
      /\ p.numStoresInTransfers = q.numStoresInTransfers
      /\ p.numUnissuedAccesses = n
      /\ p.numAccessesIssuedToMemory = q.numAccessesIssuedToMemory
      /\ p.numAccessesInMemorySystem = q.numAccessesInMemorySystem
  BY <1>1 DEF LSQs, Fields, RestTyped
<1> QED BY <1>2 DEF n, s

\* The store at the front of transfers goes to the store buffer.
LEMMA StoreHandledIs ==
    ASSUME prog \in Seq(Instructions), NEW q \in LSQs, q.transfers # <<>>,
           NEW o, o = Head(q.transfers), o \in Transferring, o.state = "StoreToStoreBuffer",
           NEW r, r = AsState(o, "StoreInStoreBuffer"),
           NEW p, p = PopResponse(Insert(q, r))
    PROVE  /\ Fields(p) /\ RestTyped(p) /\ FrontTaken(q.transfers, o, p.transfers)
           /\ p.requests = q.requests /\ p.slots = Append(q.slots, r) /\ p.state = q.state
           /\ p.lastMemBarrier = q.lastMemBarrier
           /\ CountersBy(p, q, 0 - Num(~o.isLoad), 1, 0, 0)
<1>1. r \in Slot /\ ~o.issuedToMemory
  BY StoreIsSlot
<1>2. PICK z : z = Insert(q, r)
  OBVIOUS
<1>3. /\ Fields(z) /\ RestTyped(z) /\ z.slots = Append(q.slots, r)
      /\ z.requests = q.requests /\ z.transfers = q.transfers /\ z.state = q.state
      /\ z.lastMemBarrier = q.lastMemBarrier
      /\ z.numStoresInTransfers = q.numStoresInTransfers
      /\ z.numUnissuedAccesses = q.numUnissuedAccesses + 1
      /\ z.numAccessesIssuedToMemory = q.numAccessesIssuedToMemory
      /\ z.numAccessesInMemorySystem = q.numAccessesInMemorySystem
  BY <1>2, InsertIs
<1>4. z \in LSQs
  <2>1. q.slots \in Seq(Slot) /\ q.requests \in Seq(Pending) /\ q.transfers \in Seq(Transferring)
    BY QueueTypes
  <2>2. Append(q.slots, r) \in Seq(Slot)
    BY <1>1, <2>1
  <2> QED BY <1>3, <2>1, <2>2, Typed
<1>5. o.issuedToMemory \in BOOLEAN /\ z.transfers # <<>> /\ o = Head(z.transfers)
  BY <1>3, RequestFacts
<1>6. p = PopResponse(z)
  BY <1>2
<1>7. /\ Fields(p) /\ RestTyped(p) /\ FrontTaken(z.transfers, o, p.transfers)
      /\ p.requests = z.requests /\ p.slots = z.slots /\ p.state = z.state
      /\ p.lastMemBarrier = z.lastMemBarrier
      /\ CountersBy(p, z, 0 - Num(~o.isLoad), 0, 0 - Num(o.issuedToMemory), 0)
  BY <1>4, <1>5, <1>6, PopIs
<1>8. CountersBy(p, q, 0 - Num(~o.isLoad), 1, 0, 0)
  <2>1. 0 - Num(o.issuedToMemory) = 0
    <3>1. Num(o.issuedToMemory) = 0
      BY <1>1 DEF Num
    <3> QED BY <3>1
  <2>2. /\ p.numStoresInTransfers = z.numStoresInTransfers + (0 - Num(~o.isLoad))
        /\ p.numUnissuedAccesses = z.numUnissuedAccesses + 0
        /\ p.numAccessesIssuedToMemory = z.numAccessesIssuedToMemory + 0
        /\ p.numAccessesInMemorySystem = z.numAccessesInMemorySystem + 0
    BY <1>7, <2>1 DEF CountersBy
  <2>3. q.numUnissuedAccesses + 1 + 0 = q.numUnissuedAccesses + 1
    BY QueueTypes
  <2> QED BY <1>3, <2>2, <2>3 DEF CountersBy
<1> QED BY <1>3, <1>7, <1>8

LEMMA StoreLeft ==
    ASSUME prog \in Seq(Instructions), NEW h \in Nat, NEW q, Good(q, h), FindResponse(q, h),
           Head(q.transfers).state = "StoreToStoreBuffer",
           NEW p, p = PopResponse(Insert(q, AsState(Head(q.transfers), "StoreInStoreBuffer")))
    PROVE  Left(p, q, h)
<1> DEFINE o == Head(q.transfers)
           r == AsState(o, "StoreInStoreBuffer")
<1>1. /\ q \in LSQs /\ Ordered(q, h) /\ CountsMatch(q)
      /\ Sizes(q) /\ OneRetry(q) /\ FrontFirst(q)
  BY GoodParts
<1>2. /\ q.transfers # <<>> /\ o \in Transferring /\ o.inst = h /\ h \in Insts
      /\ Outstanding(o) = 0 /\ o.state = "StoreToStoreBuffer" /\ CanInsert(q)
  BY FoundResponse
<1> HIDE DEF o
<1>3. /\ r \in Slot /\ r.inst = h /\ r.state = "StoreInStoreBuffer" /\ Unissued(r)
      /\ Outstanding(r) = 0 /\ ~o.issuedToMemory /\ ~o.isLoad
  BY <1>2, StoreIsSlot
<1>4. p = PopResponse(Insert(q, r))
  BY DEF o
<1> HIDE DEF r
<1>5. /\ Fields(p) /\ RestTyped(p) /\ FrontTaken(q.transfers, o, p.transfers)
      /\ p.requests = q.requests /\ p.slots = Append(q.slots, r) /\ p.state = q.state
      /\ p.lastMemBarrier = q.lastMemBarrier
      /\ CountersBy(p, q, 0 - Num(~o.isLoad), 1, 0, 0)
  BY <1>1, <1>2, <1>4, StoreHandledIs DEF r, o
<1>6. p \in LSQs /\ Ordered(p, h + 1) /\ CountsMatch(p) /\ Held(p) = Held(q) \ {h}
  BY <1>1, <1>2, <1>3, <1>5, TransferToSlot
<1>7. /\ Len(p.transfers) \in Nat /\ Len(p.transfers) = Len(q.transfers) - 1
      /\ Len(q.transfers) \in Nat
  <2> DEFINE s == q.transfers
  <2>1. s \in Seq(Transferring) /\ s # <<>> /\ p.transfers = Tail(s)
    BY <1>1, <1>2, <1>5, QueueTypes DEF FrontTaken
  <2> HIDE DEF s
  <2> QED BY <2>1, TailShorter DEF s
<1>8. TransfersSize \in Nat
  BY LSQAssumption
<1>9. /\ NoneWaits(p) <=> NoneWaits(q)
      /\ OneWaits(q) => OneWaits(p)
      /\ Len(p.slots) <= StoreBufferSize
  BY <1>1, <1>2, <1>3, <1>5, SlotAppended
<1>10. Sizes(p)
  <2>1. Len(p.transfers) <= TransfersSize
    BY <1>1, <1>7, <1>8 DEF Sizes
  <2>2. p.numAccessesInMemorySystem = q.numAccessesInMemorySystem
    BY <1>1, <1>5, QueueTypes DEF CountersBy
  <2> QED BY <1>1, <1>5, <1>9, <2>1, <2>2 DEF Sizes
<1>11. OneRetry(p)
  <2>1. FrontWaits(q) => FrontWaits(p)
    BY <1>5, <1>7, <1>8 DEF FrontWaits
  <2> QED BY <1>1, <1>5, <1>9, <2>1, RetryParts
<1>12. FrontFirst(p)
  <2>1. q.numStoresInTransfers # 0
    BY <1>1, <1>2, <1>3, FrontCounted DEF o
  <2>2. \A n : ~Clear(q, n)
    BY <2>1 DEF Clear
  <2> QED BY <1>1, <1>5, <2>2, FirstParts
<1>13. Good(p, h + 1)
  BY <1>6, <1>10, <1>11, <1>12, GoodParts
<1> QED BY <1>5, <1>6, <1>13 DEF Left

\* sendStoreToStoreBuffer and popResponse keep the shape of the queue.
LEMMA HandledLeft ==
    ASSUME prog \in Seq(Instructions), NEW h \in Nat, NEW q, Good(q, h), FindResponse(q, h),
           NEW p, p = ResponseHandled(q)
    PROVE  Left(p, q, h)
<1>1. CASE Head(q.transfers).state = "StoreToStoreBuffer"
  <2>1. p = PopResponse(Insert(q, AsState(Head(q.transfers), "StoreInStoreBuffer")))
    BY <1>1 DEF ResponseHandled, AsState
  <2> QED BY <1>1, <2>1, StoreLeft
<1>2. CASE Head(q.transfers).state # "StoreToStoreBuffer"
  <2>1. p = PopResponse(q)
    BY <1>2 DEF ResponseHandled
  <2> QED BY <2>1, PopLeft
<1> QED BY <1>1, <1>2

LEMMA BarrierIsSlot ==
    ASSUME prog \in Seq(Instructions), NEW h \in Insts, IsBarrier(h),
           NEW r, r = NewRequest(h, "Complete")
    PROVE  /\ r \in Slot /\ r.inst = h /\ r.state = "Complete" /\ Unissued(r)
           /\ Outstanding(r) = 0
           /\ \A n : ~Overlaps(r, n)
<1>1. r \in Request /\ r.inst = h /\ r.state = "Complete" /\ r.sent = 0 /\ r.retired = 0
  BY DEF NewRequest, Request, States
<1>2. r \in Slot
  BY <1>1 DEF Slot
<1>3. Lines(h) = <<>>
  BY ProgramFacts
<1>4. ToSet(Lines(h)) = {}
  BY <1>3 DEF ToSet
<1>5. \A n : ~Overlaps(r, n)
  BY <1>1, <1>4 DEF Overlaps
<1> QED BY <1>1, <1>2, <1>5 DEF Unissued, Outstanding

\* completeMemBarrierInst for a barrier that commits.
LEMMA BarrierInserted ==
    ASSUME prog \in Seq(Instructions), NEW h \in Insts, h \in Nat, NEW q, Good(q, h),
           IsBarrier(h), CanInsert(q), h \notin Held(q),
           NEW p, p = Insert(q, NewRequest(h, "Complete"))
    PROVE  Left(p, q, h)
<1> DEFINE r == NewRequest(h, "Complete")
<1>1. /\ q \in LSQs /\ Ordered(q, h) /\ CountsMatch(q)
      /\ Sizes(q) /\ OneRetry(q) /\ FrontFirst(q)
  BY GoodParts
<1>2. /\ r \in Slot /\ r.inst = h /\ r.state = "Complete" /\ Unissued(r)
      /\ Outstanding(r) = 0
      /\ \A n : ~Overlaps(r, n)
  BY BarrierIsSlot
<1> HIDE DEF r
<1>3. /\ Fields(p) /\ RestTyped(p) /\ p.slots = Append(q.slots, r)
      /\ p.requests = q.requests /\ p.transfers = q.transfers /\ p.state = q.state
      /\ p.lastMemBarrier = q.lastMemBarrier
      /\ p.numStoresInTransfers = q.numStoresInTransfers
      /\ p.numUnissuedAccesses = q.numUnissuedAccesses + 1
      /\ p.numAccessesIssuedToMemory = q.numAccessesIssuedToMemory
      /\ p.numAccessesInMemorySystem = q.numAccessesInMemorySystem
  BY <1>1, InsertIs DEF r
<1>4. ~Has(q.requests, h) /\ ~Has(q.transfers, h)
  BY DEF Held
<1>5. p \in LSQs /\ Ordered(p, h + 1) /\ CountsMatch(p)
  BY <1>1, <1>2, <1>3, <1>4, SlotAdded
<1>6. /\ NoneWaits(p) <=> NoneWaits(q)
      /\ OneWaits(q) => OneWaits(p)
      /\ Len(p.slots) <= StoreBufferSize
      /\ \A i \in 1..Len(p.slots) :
           p.slots[i] = r \/ \E j \in 1..Len(q.slots) : p.slots[i] = q.slots[j]
  BY <1>1, <1>2, <1>3, SlotAppended
<1>7. Sizes(p)
  BY <1>1, <1>3, <1>6 DEF Sizes
<1>8. OneRetry(p)
  <2>1. FrontWaits(q) => FrontWaits(p)
    BY <1>3 DEF FrontWaits
  <2> QED BY <1>1, <1>3, <1>6, <2>1, RetryParts
<1>9. FrontFirst(p)
  <2>1. \A n : Clear(q, n) => Clear(p, n)
    BY <1>2, <1>3, <1>6 DEF Clear
  <2> QED BY <1>1, <1>3, <2>1, FirstParts
<1>10. Good(p, h + 1)
  BY <1>5, <1>7, <1>8, <1>9, GoodParts
<1>11. Held(p) = Held(q) \ {h}
  BY <1>3 DEF Held
<1> QED BY <1>3, <1>10, <1>11 DEF Left

\* completeMemBarrierInst keeps the shape of the queue.
LEMMA BarrierLeft ==
    ASSUME prog \in Seq(Instructions), NEW h \in Insts, h \in Nat, NEW q, Good(q, h),
           IsBarrier(h), h \notin Held(q), NEW c \in BOOLEAN, c => CanInsert(q),
           NEW p, p = CompleteMemBarrierInst(q, h, c)
    PROVE  Left(p, q, h)
<1>1. CASE c
  BY <1>1, BarrierInserted DEF CompleteMemBarrierInst
<1>2. CASE ~c
  <2>1. p = ClearMemBarrier(q, h)
    BY <1>2 DEF CompleteMemBarrierInst
  <2>2. Eased(p, q, h)
    BY <2>1, ClearMemBarrierEased
  <2>3. Good(p, h + 1)
    BY <2>2, NextHead DEF Eased
  <2>4. Held(q) = Held(q) \ {h}
    OBVIOUS
  <2> QED BY <2>2, <2>3, <2>4 DEF Eased, Left
<1> QED BY <1>1, <1>2

\* What is not in the queue leaves without it.
LEMMA OtherLeft ==
    ASSUME prog \in Seq(Instructions), NEW h \in Nat, NEW q, Good(q, h), h \notin Held(q)
    PROVE  Left(q, q, h)
<1>1. Held(q) = Held(q) \ {h}
  OBVIOUS
<1> QED BY <1>1, NextHead DEF Left

\* issuedMemBarrierInst.
LEMMA BarrierIssued ==
    ASSUME NEW h, NEW q, Good(q, h), NEW n \in 0..Len(prog),
           NEW p, p = [q EXCEPT !.lastMemBarrier = n]
    PROVE  Good(p, h) /\ Held(p) = Held(q) /\ p.lastMemBarrier = n
<1>1. q \in LSQs
  BY GoodParts
<1>2. /\ p \in LSQs
      /\ p.requests = q.requests /\ p.transfers = q.transfers /\ p.slots = q.slots
      /\ p.state = q.state
      /\ p.numStoresInTransfers = q.numStoresInTransfers
      /\ p.numAccessesIssuedToMemory = q.numAccessesIssuedToMemory
      /\ p.numUnissuedAccesses = q.numUnissuedAccesses
      /\ p.numAccessesInMemorySystem = q.numAccessesInMemorySystem
      /\ p.lastMemBarrier = n
  BY <1>1 DEF LSQs
<1> QED BY <1>2, SameGood

\* The queue is empty at first.
LEMMA EmptyGood ==
    ASSUME prog \in Seq(Instructions)
    PROVE  Good(EmptyLSQ, 1) /\ Held(EmptyLSQ) = {} /\ EmptyLSQ.lastMemBarrier = 0
<1> DEFINE q == EmptyLSQ
<1>1. Len(prog) \in Nat
  BY ProgramFacts
<1>2. q \in LSQs
  BY <1>1 DEF EmptyLSQ, LSQs
<1>3. /\ q.requests = <<>> /\ q.transfers = <<>> /\ q.slots = <<>>
      /\ q.state = "MemoryRunning" /\ q.lastMemBarrier = 0
      /\ q.numStoresInTransfers = 0 /\ q.numAccessesIssuedToMemory = 0
      /\ q.numUnissuedAccesses = 0 /\ q.numAccessesInMemorySystem = 0
  BY DEF EmptyLSQ
<1> HIDE DEF q
<1>4. Len(q.requests) = 0 /\ Len(q.transfers) = 0 /\ Len(q.slots) = 0
  BY <1>3
<1>5. Ordered(q, 1)
  BY <1>4 DEF Ordered, QueuesInOrder, OldAndNew, InOrder
<1>6. CountsMatch(q)
  <2>1. ToSet(q.requests) = {} /\ ToSet(q.transfers) = {} /\ ToSet(q.slots) = {}
    BY <1>3 DEF ToSet
  <2>2. /\ StoresInTransfers(q) = {} /\ UnissuedAccesses(q) = {}
        /\ AccessesIssuedToMemory(q) = {} /\ PacketsInMemSystem(q) = {}
    BY <2>1 DEF StoresInTransfers, UnissuedAccesses, AccessesIssuedToMemory, PacketsInMemSystem
  <2>3. Cardinality({}) = 0
    BY FS_EmptySet
  <2> QED BY <1>3, <2>2, <2>3 DEF CountsMatch
<1>7. Sizes(q)
  <2>1. {RequestsSize, TransfersSize, StoreBufferSize, MemoryLimit} \subseteq Nat
    BY LSQAssumption
  <2> QED BY <1>3, <1>4, <2>1 DEF Sizes
<1>8. OneRetry(q)
  BY <1>3, <1>4 DEF OneRetry
<1>9. FrontFirst(q)
  BY <1>3, <1>4 DEF FrontFirst
<1>10. Held(q) = {}
  BY <1>4 DEF Held, Has, Entry
<1> QED
  BY <1>2, <1>3, <1>5, <1>6, <1>7, <1>8, <1>9, <1>10, GoodParts DEF q
=============================================================================
