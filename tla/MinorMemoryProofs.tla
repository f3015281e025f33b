------------------------- MODULE MinorMemoryProofs --------------------------
(***************************************************************************)
(* The load/store queue keeps memory right: loads get the data of the last *)
(* stores before them, stores reach memory in program order and only from  *)
(* the right path, an access to a device is never thrown away, and         *)
(* accesses stay behind the barrier before them.                           *)
(***************************************************************************)
EXTENDS MinorMemory, MinorExecuteProofs

----------------------------------------------------------------------------
(* The accesses in a queue, as a set. *)

\* The accesses of queue s other than n.
Others(s, n) == {x \in ToSet(s) : x.inst # n}

LEMMA Members ==
    ASSUME NEW X, NEW s \in Seq(X)
    PROVE  /\ ToSet(s) = {s[i] : i \in 1..Len(s)}
           /\ ToSet(s) \subseteq X
  BY LenProperties, ElementOfSeq DEF ToSet

LEMMA MemberEntry ==
    ASSUME NEW X, NEW s \in Seq(X)
    PROVE  /\ \A x : x \in ToSet(s) <=> x \in Entry(s, x.inst)
           /\ \A m : \A x \in Entry(s, m) : x.inst = m
  BY Members DEF Entry

LEMMA MemberAlone ==
    ASSUME NEW X, NEW s \in Seq(X), \A x \in X : x.inst \in Nat, InOrder(s),
           NEW x \in ToSet(s)
    PROVE  Entry(s, x.inst) = {x} /\ \A y \in ToSet(s) : y.inst = x.inst => y = x
<1>1. PICK i \in 1..Len(s) : x = s[i]
  BY Members
<1>2. Entry(s, x.inst) = {x}
  BY <1>1, EntryOf
<1> QED
  BY <1>2, MemberEntry

LEMMA AppendSet ==
    ASSUME NEW X, NEW s \in Seq(X), NEW x \in X
    PROVE  ToSet(Append(s, x)) = ToSet(s) \cup {x}
<1> DEFINE t == Append(s, x)
           n == Len(s)
<1>1. n \in Nat /\ t \in Seq(X) /\ Len(t) = n + 1
      /\ (\A i \in 1..n : t[i] = s[i]) /\ t[n + 1] = x
  BY AppendProperties, LenProperties
<1>2. ToSet(s) = {s[i] : i \in 1..n} /\ ToSet(t) = {t[i] : i \in 1..(n + 1)}
  BY <1>1, Members
<1> HIDE DEF t, n
<1>3. \A i \in 1..(n + 1) : i \in 1..n \/ i = n + 1
  BY <1>1
<1>4. (\A i \in 1..n : i \in 1..(n + 1)) /\ n + 1 \in 1..(n + 1)
  BY <1>1
<1> QED
  BY <1>1, <1>2, <1>3, <1>4 DEF t

LEMMA PutSet ==
    ASSUME NEW X, NEW s \in Seq(X), \A x \in X : x.inst \in Nat, InOrder(s),
           NEW k \in 1..Len(s), NEW x \in X, x.inst = s[k].inst
    PROVE  ToSet(Put(s, k, x)) = Others(s, x.inst) \cup {x} /\ s[k] \in ToSet(s)
<1> DEFINE t == Put(s, k, x)
<1>1. t \in Seq(X) /\ \A m : Entry(t, m) = IF m = x.inst THEN {x} ELSE Entry(s, m)
  BY Updated
<1> HIDE DEF t
<1>2. \A y : y \in ToSet(t) <=> y = x \/ (y.inst # x.inst /\ y \in ToSet(s))
  BY <1>1, MemberEntry
<1> QED
  BY <1>2, Members DEF Others, t

LEMMA TailSet ==
    ASSUME NEW X, NEW s \in Seq(X), \A x \in X : x.inst \in Nat, InOrder(s), s # <<>>
    PROVE  ToSet(Tail(s)) = Others(s, Head(s).inst) /\ Head(s) \in ToSet(s)
<1> DEFINE t == Tail(s)
<1>1. /\ t \in Seq(X) /\ Len(s) \in Nat \ {0} /\ Head(s) = s[1]
      /\ \A m : Entry(t, m) = IF m = s[1].inst THEN {} ELSE Entry(s, m)
  BY Tailed
<1> HIDE DEF t
<1>2. \A y : y \in ToSet(t) <=> y.inst # Head(s).inst /\ y \in ToSet(s)
  BY <1>1, MemberEntry
<1>3. 1 \in 1..Len(s)
  BY <1>1
<1> QED
  BY <1>1, <1>2, <1>3, Members DEF Others, t

LEMMA RemoveSet ==
    ASSUME NEW X, NEW s \in Seq(X), \A x \in X : x.inst \in Nat, InOrder(s),
           NEW k \in 1..Len(s)
    PROVE  ToSet(RemoveAt(s, k)) = Others(s, s[k].inst) /\ s[k] \in ToSet(s)
<1> DEFINE t == RemoveAt(s, k)
<1>1. t \in Seq(X) /\ \A m : Entry(t, m) = IF m = s[k].inst THEN {} ELSE Entry(s, m)
  BY RemovedAt
<1> HIDE DEF t
<1>2. \A y : y \in ToSet(t) <=> y.inst # s[k].inst /\ y \in ToSet(s)
  BY <1>1, MemberEntry
<1> QED
  BY <1>2, Members DEF Others, t

----------------------------------------------------------------------------
(* What does not disturb an access. *)

LEMMA MemoryTypes ==
    ASSUME prog \in Seq(Instructions), NEW q \in LSQs, NEW a \in Addrs
    PROVE  q.mem[a] \in Nat /\ q.mem[a] \in 0..Len(prog)
<1>1. q.mem \in [Addrs -> 0..Len(prog)] /\ Len(prog) \in Nat
  BY QueueTypes, ProgramFacts
<1>2. q.mem[a] \in 0..Len(prog)
  BY <1>1
<1> QED
  BY <1>1, <1>2

LEMMA LineTypes ==
    ASSUME prog \in Seq(Instructions), NEW n \in Insts
    PROVE  /\ \A k \in 1..NumFragments(n) : Lines(n)[k] \in Addrs /\ Lines(n)[k] \in ToSet(Lines(n))
           /\ \A a \in ToSet(Lines(n)) : a \in Addrs /\ \E k \in 1..NumFragments(n) : a = Lines(n)[k]
<1>1. Lines(n) \in Seq(Addrs)
  BY ProgramFacts
<1> QED
  BY <1>1, Members DEF NumFragments

\* The stores that failed their predicate stay in transfers.
KeepsFailed(p, q) == \A m : HasFailed(q, m) => HasFailed(p, m)

LEMMA SameFailed ==
    ASSUME NEW q, NEW p, ToSet(q.transfers) \subseteq ToSet(p.transfers)
    PROVE  KeepsFailed(p, q)
  BY DEF KeepsFailed, HasFailed

LEMMA TransfersKeep ==
    ASSUME NEW q, NEW p, p.transfers = q.transfers
    PROVE  KeepsFailed(p, q)
  BY DEF KeepsFailed, HasFailed

LEMMA DataKeeps ==
    ASSUME NEW q, NEW p, KeepsFailed(p, q), NEW r, NEW n, NEW done, NEW k,
           HasData(q, r, n, done, k)
    PROVE  HasData(p, r, n, done, k)
  BY DEF HasData, KeepsFailed

\* Memory only gets younger stores, and the store buffer no other accesses.
Follows(p, q) ==
    /\ \A a \in Addrs : q.mem[a] <= p.mem[a]
    /\ \A s \in ToSet(p.slots) : \E t \in ToSet(q.slots) : t.inst = s.inst
    /\ KeepsFailed(p, q)

LEMMA SameFollows ==
    ASSUME prog \in Seq(Instructions), NEW q \in LSQs, NEW p, p.mem = q.mem, p.slots = q.slots,
           KeepsFailed(p, q)
    PROVE  Follows(p, q)
  BY MemoryTypes DEF Follows

LEMMA WrittenKept ==
    ASSUME prog \in Seq(Instructions), NEW q \in LSQs, NEW p \in LSQs, Follows(p, q),
           NEW r \in Pending \cup Transferring \cup Slot, SentIsWritten(q, r)
    PROVE  SentIsWritten(p, r)
<1> SUFFICES ASSUME IsStore(r.inst), NEW k \in 1..r.sent
             PROVE  p.mem[Lines(r.inst)[k]] >= r.inst
  BY DEF SentIsWritten
<1> DEFINE a == Lines(r.inst)[k]
           n == r.inst
           m == r.sent
           f == NumFragments(r.inst)
<1>1. n \in Insts /\ n \in Nat /\ m \in Nat /\ f \in Nat /\ m <= f
  BY RequestFacts
<1>2. k \in 1..m
  OBVIOUS
<1>3. k \in 1..f
  <2> HIDE DEF m, f
  <2> QED
    BY <1>1, <1>2
<1>4. a \in Addrs
  BY <1>1, <1>3, LineTypes
<1>5. q.mem[a] >= n
  BY DEF SentIsWritten
<1>6. q.mem[a] \in Nat /\ p.mem[a] \in Nat /\ q.mem[a] <= p.mem[a]
  BY <1>4, MemoryTypes DEF Follows
<1> HIDE DEF a, n
<1>7. p.mem[a] >= n
  BY <1>1, <1>5, <1>6
<1> QED
  BY <1>7 DEF a, n

LEMMA AloneKept ==
    ASSUME NEW q, NEW p, Follows(p, q), NEW n, NEW r, AloneAtDevice(q, n, r)
    PROVE  AloneAtDevice(p, n, r)
  BY DEF AloneAtDevice, Follows, Overlaps

LEMMA AccessKept ==
    ASSUME prog \in Seq(Instructions), NEW q \in LSQs, NEW p \in LSQs, Follows(p, q),
           NEW r \in Pending \cup Transferring \cup Slot, NEW n, NEW done
    PROVE  /\ RequestOK(q, n, done, r) => RequestOK(p, n, done, r)
           /\ TransferOK(q, n, done, r) => TransferOK(p, n, done, r)
<1>1. SentIsWritten(q, r) => SentIsWritten(p, r)
  BY WrittenKept
<1>2. \A k : HasData(q, r, n, done, k) => HasData(p, r, n, done, k)
  BY DataKeeps DEF Follows
<1>3. RequestOK(q, n, done, r) => RequestOK(p, n, done, r)
  BY <1>1, <1>2, AloneKept DEF RequestOK
<1>4. TransferOK(q, n, done, r) => TransferOK(p, n, done, r)
  BY <1>1, <1>2, AloneKept DEF TransferOK
<1> QED
  BY <1>3, <1>4

LEMMA IssuedSet ==
    ASSUME NEW q, NEW n
    PROVE  n \in AccessesIssuedToMemory(q) <=>
             \E r \in ToSet(q.requests) \cup ToSet(q.transfers) : r.inst = n /\ r.issuedToMemory
  BY DEF AccessesIssuedToMemory

\* Nothing that the oldest access has issued is forgotten.
KeepsIssued(p, q) == AccessesIssuedToMemory(q) \subseteq AccessesIssuedToMemory(p)

\* The accesses in requests and transfers are as before, or right.
AccessesRight(p, q, n, done) ==
    /\ \A r \in ToSet(p.requests) : r \in ToSet(q.requests) \/ RequestOK(p, n, done, r)
    /\ \A r \in ToSet(p.transfers) : r \in ToSet(q.transfers) \/ TransferOK(p, n, done, r)

LEMMA AccessesKept ==
    ASSUME prog \in Seq(Instructions), NEW q \in LSQs, NEW p \in LSQs, Follows(p, q),
           NEW n, NEW done, MemoryOK(q, n, done), AccessesRight(p, q, n, done)
    PROVE  /\ \A r \in ToSet(p.requests) : RequestOK(p, n, done, r)
           /\ \A r \in ToSet(p.transfers) : TransferOK(p, n, done, r)
<1>1. \A r \in ToSet(q.requests) : r \in Pending /\ RequestOK(q, n, done, r)
  BY QueueTypes, Members DEF MemoryOK
<1>2. \A r \in ToSet(q.transfers) : r \in Transferring /\ TransferOK(q, n, done, r)
  BY QueueTypes, Members DEF MemoryOK
<1>3. \A r \in ToSet(q.requests) : RequestOK(p, n, done, r)
  BY <1>1, AccessKept
<1>4. \A r \in ToSet(q.transfers) : TransferOK(p, n, done, r)
  BY <1>2, AccessKept
<1> QED
  BY <1>3, <1>4 DEF AccessesRight

\* Neither memory nor the store buffer changes.
LEMMA QuietOK ==
    ASSUME prog \in Seq(Instructions), NEW q \in LSQs, NEW p \in LSQs,
           p.mem = q.mem, p.slots = q.slots, KeepsIssued(p, q), KeepsFailed(p, q),
           NEW n, NEW done, MemoryOK(q, n, done), AccessesRight(p, q, n, done)
    PROVE  MemoryOK(p, n, done)
<1>1. /\ \A r \in ToSet(p.requests) : RequestOK(p, n, done, r)
      /\ \A r \in ToSet(p.transfers) : TransferOK(p, n, done, r)
  BY AccessesKept, SameFollows
<1>2. \A s \in ToSet(p.slots) : SlotOK(p, done, s)
  BY DEF MemoryOK, SlotOK, SentIsWritten
<1>3. \A a \in Addrs : LineOK(p, n, done, a)
  BY DEF MemoryOK, LineOK, KeepsIssued
<1> QED
  BY <1>1, <1>2, <1>3 DEF MemoryOK

----------------------------------------------------------------------------
(* Sending. *)

\* The line that the next packet of r is for.
NextLine(r) == Lines(r.inst)[r.sent + 1]

AcceptedByMemory(t, q, r) ==
    /\ Accepted(t, q, r)
    /\ t.q.mem = IF IsStore(r.inst) THEN [q.mem EXCEPT ![NextLine(r)] = r.inst] ELSE q.mem
    /\ t.r.data = IF IsLoad(r.inst) THEN Append(r.data, q.mem[NextLine(r)]) ELSE r.data

RefusedByMemory(t, q, r) == Refused(t, q, r) /\ t.q.mem = q.mem /\ t.r.data = r.data

\* tryToSend, with what it does to memory and to the data of a load.
LEMMA SendingMemory ==
    ASSUME prog \in Seq(Instructions), NEW q \in LSQs, NEW r \in Request,
           r.sent < NumFragments(r.inst), NEW t \in TryToSend(q, r)
    PROVE  NotSent(t, q, r) \/ AcceptedByMemory(t, q, r) \/ RefusedByMemory(t, q, r)
<1> DEFINE a == NextLine(r)
           sent == [r EXCEPT !.sent = @ + 1,
                      !.data = IF IsLoad(r.inst) THEN Append(@, q.mem[a]) ELSE @,
                      !.state = IF InStoreBuffer(r) THEN "StoreBufferIssuing"
                                ELSE "RequestIssuing"]
           refused == [r EXCEPT !.state = IF InStoreBuffer(r) THEN "StoreBufferNeedsRetry"
                                          ELSE "RequestNeedsRetry"]
           taken == [q EXCEPT !.numAccessesInMemorySystem = @ + 1,
                              !.mem = IF IsStore(r.inst) THEN [@ EXCEPT ![a] = r.inst] ELSE @]
           halted == [q EXCEPT !.state = "MemoryNeedsRetry"]
<1>1. /\ taken.state = q.state /\ halted.state = "MemoryNeedsRetry"
      /\ taken.mem = IF IsStore(r.inst) THEN [q.mem EXCEPT ![a] = r.inst] ELSE q.mem
      /\ halted.mem = q.mem
      /\ taken.numAccessesInMemorySystem = q.numAccessesInMemorySystem + 1
      /\ halted.numAccessesInMemorySystem = q.numAccessesInMemorySystem
  <2> HIDE DEF a
  <2> QED
    BY DEF LSQs
<1>2. /\ sent.sent = r.sent + 1 /\ refused.sent = r.sent
      /\ sent.data = IF IsLoad(r.inst) THEN Append(r.data, q.mem[a]) ELSE r.data
      /\ refused.data = r.data
      /\ sent.inst = r.inst
      /\ sent.state = IF InStoreBuffer(r) THEN "StoreBufferIssuing" ELSE "RequestIssuing"
      /\ refused.state = IF InStoreBuffer(r) THEN "StoreBufferNeedsRetry" ELSE "RequestNeedsRetry"
  <2> HIDE DEF a
  <2> QED
    BY DEF Request
<1>3. SentAllPackets(sent) = (r.sent + 1 = NumFragments(r.inst))
  <2> HIDE DEF sent
  <2> QED
    BY <1>2 DEF SentAllPackets, NumFragments
<1>4. \/ ~CanSendToMemorySystem(q) /\ t = [q |-> q, r |-> r, all |-> FALSE]
      \/ CanSendToMemorySystem(q) /\ t = [q |-> taken, r |-> sent, all |-> SentAllPackets(sent)]
      \/ CanSendToMemorySystem(q) /\ t = [q |-> halted, r |-> refused, all |-> FALSE]
  <2> HIDE DEF sent, refused, taken, halted
  <2>1. TryToSend(q, r) =
          IF ~CanSendToMemorySystem(q) THEN {[q |-> q, r |-> r, all |-> FALSE]}
          ELSE {[q |-> taken, r |-> sent, all |-> SentAllPackets(sent)]}
               \cup {[q |-> halted, r |-> refused, all |-> FALSE] : x \in events \cap {"retry"}}
    BY DEF TryToSend, sent, refused, taken, halted, NextLine
  <2> QED
    BY <2>1
<1> HIDE DEF sent, refused, taken, halted
<1>5. CASE ~CanSendToMemorySystem(q) /\ t = [q |-> q, r |-> r, all |-> FALSE]
  BY <1>5 DEF NotSent
<1>6. CASE CanSendToMemorySystem(q) /\ t = [q |-> taken, r |-> sent, all |-> SentAllPackets(sent)]
  BY <1>1, <1>2, <1>3, <1>6 DEF Accepted, AcceptedByMemory
<1>7. CASE CanSendToMemorySystem(q) /\ t = [q |-> halted, r |-> refused, all |-> FALSE]
  BY <1>1, <1>2, <1>7 DEF Refused, RefusedByMemory
<1> QED
  BY <1>4, <1>5, <1>6, <1>7

\* n is the oldest instruction in flight, and those that are done are before it.
Oldest(n, done) == n \in Nat \ {0} /\ done \subseteq 1..(n - 1)

\* A store that failed its predicate is not sent to memory.
FailedNotIssued(q) == \A m : HasFailed(q, m) => m \notin AccessesIssuedToMemory(q)

\* A line that the load finds in memory has the last store before it.
LEMMA MemoryHasLast ==
    ASSUME prog \in Seq(Instructions), NEW q \in LSQs, NEW n, NEW done, Oldest(n, done),
           NEW a \in Addrs, LineOK(q, n, done, a),
           NEW m \in Nat, m >= n, IsLoad(m), a \in ToSet(Lines(m)),
           \A i \in n..(m - 1) : IsStore(i) => HasFailed(q, i), FailedNotIssued(q),
           \A s \in ToSet(q.slots) : ~Overlaps(s, m)
    PROVE  IsLast(q.mem[a], done, m, a)
<1> DEFINE v == q.mem[a]
<1>1. v \in Nat /\ n \in Nat \ {0} /\ done \in SUBSET (1..(n - 1))
  BY MemoryTypes DEF Oldest
<1>2. ~IsStore(m)
  BY DEF IsLoad, IsStore
<1>3. v \in done \cup {0}
  <2>1. v \in done \cup {0} \/ (v = n /\ n \in AccessesIssuedToMemory(q) /\ IsStore(n))
    BY <1>1 DEF LineOK, Writes
  <2> HIDE DEF v
  <2>2. n # m => n \in n..(m - 1)
    BY <1>1
  <2>3. IsStore(n) => HasFailed(q, n)
    BY <1>2, <2>2
  <2> QED
    BY <2>1, <2>3 DEF FailedNotIssued
<1>4. \A i \in done : Writes(i, a) => i <= v
  <2>1. \A i \in done : Writes(i, a) => v >= i \/ \E s \in ToSet(q.slots) : s.inst = i
    BY DEF LineOK
  <2>2. \A s \in ToSet(q.slots) : ~Writes(s.inst, a)
    BY DEF Overlaps, Writes
  <2> HIDE DEF v
  <2>3. \A i \in done : Writes(i, a) => v >= i
    BY <2>1, <2>2
  <2>4. \A i \in done : i \in Nat
    BY <1>1
  <2> QED
    BY <1>1, <2>3, <2>4
<1>5. v # 0 => v < m /\ Writes(v, a)
  <2>1. v # 0 => Writes(v, a)
    BY DEF LineOK
  <2>2. v # 0 => v \in 1..(n - 1)
    BY <1>1, <1>3
  <2> HIDE DEF v
  <2>3. v # 0 => v < m
    BY <1>1, <2>2
  <2> QED
    BY <2>1, <2>3
<1> HIDE DEF v
<1>6. IsLast(v, done, m, a)
  BY <1>3, <1>4, <1>5 DEF IsLast
<1> QED
  BY <1>6 DEF v

\* The oldest access, which is not bufferable, writes to memory.
DeviceWrites(p, q, n, a) ==
    /\ IsStore(n) /\ a \in ToSet(Lines(n)) /\ a \in Addrs
    /\ \A s \in ToSet(q.slots) : ~Overlaps(s, n)
    /\ p.slots = q.slots /\ p.mem = [q.mem EXCEPT ![a] = n]

LEMMA DeviceFollows ==
    ASSUME prog \in Seq(Instructions), NEW q \in LSQs, NEW p \in LSQs, NEW n, NEW done,
           Oldest(n, done), MemoryOK(q, n, done), NEW a, DeviceWrites(p, q, n, a),
           KeepsFailed(p, q)
    PROVE  /\ Follows(p, q)
           /\ \A b \in Addrs : p.mem[b] = IF b = a THEN n ELSE q.mem[b]
<1>1. a \in Addrs /\ p.slots = q.slots /\ p.mem = [q.mem EXCEPT ![a] = n]
      /\ LineOK(q, n, done, a)
  BY DEF DeviceWrites, MemoryOK
<1>2. \A b \in Addrs : p.mem[b] = IF b = a THEN n ELSE q.mem[b]
  BY <1>1, QueueTypes
<1>3. q.mem[a] <= n
  <2> DEFINE v == q.mem[a]
  <2>1. v \in done \cup {0, n} /\ v \in Nat /\ n \in Nat \ {0} /\ done \in SUBSET (1..(n - 1))
    BY <1>1, MemoryTypes DEF LineOK, Oldest
  <2> HIDE DEF v
  <2>2. v <= n
    BY <2>1
  <2> QED
    BY <2>2 DEF v
<1>4. \A b \in Addrs : q.mem[b] <= p.mem[b]
  BY <1>2, <1>3, MemoryTypes
<1> QED
  BY <1>1, <1>2, <1>4 DEF Follows

LEMMA DeviceOK ==
    ASSUME prog \in Seq(Instructions), NEW q \in LSQs, NEW p \in LSQs, NEW n, NEW done,
           Oldest(n, done), MemoryOK(q, n, done), NEW a, DeviceWrites(p, q, n, a),
           n \in AccessesIssuedToMemory(p), KeepsFailed(p, q), AccessesRight(p, q, n, done)
    PROVE  MemoryOK(p, n, done)
<1>1. Follows(p, q) /\ \A b \in Addrs : p.mem[b] = IF b = a THEN n ELSE q.mem[b]
  BY DeviceFollows
<1>2. /\ \A r \in ToSet(p.requests) : RequestOK(p, n, done, r)
      /\ \A r \in ToSet(p.transfers) : TransferOK(p, n, done, r)
  BY <1>1, AccessesKept
<1>3. \A s \in ToSet(p.slots) : SlotOK(p, done, s)
  <2> SUFFICES ASSUME NEW s \in ToSet(q.slots) PROVE SlotOK(p, done, s)
    BY DEF DeviceWrites
  <2>1. s \in Slot /\ SlotOK(q, done, s) /\ s.inst \in Insts
    BY QueueTypes, Members, RequestFacts DEF MemoryOK
  <2>2. SentIsWritten(p, s)
    BY <1>1, <2>1, WrittenKept DEF SlotOK
  <2>3. \A b \in ToSet(Lines(s.inst)) : p.mem[b] = q.mem[b]
    BY <1>1, <2>1, LineTypes DEF DeviceWrites, Overlaps
  <2> QED
    BY <2>1, <2>2, <2>3 DEF SlotOK, DeviceWrites
<1>4. \A b \in Addrs : LineOK(p, n, done, b)
  <2> SUFFICES ASSUME NEW b \in Addrs PROVE LineOK(p, n, done, b)
    OBVIOUS
  <2>1. LineOK(q, n, done, b)
    BY DEF MemoryOK
  <2>2. \A m \in done : n >= m
    BY DEF Oldest
  <2>3. CASE b = a
    BY <1>1, <2>2, <2>3 DEF LineOK, DeviceWrites, Writes
  <2>4. CASE b # a
    BY <1>1, <2>1, <2>4 DEF LineOK, DeviceWrites
  <2> QED
    BY <2>3, <2>4
<1> QED
  BY <1>2, <1>3, <1>4 DEF MemoryOK

----------------------------------------------------------------------------
(* The front of requests. *)

\* The front of requests, o, becomes x there, or goes to transfers as x.
Stays(p, q, o, x) ==
    /\ ToSet(p.requests) = Others(q.requests, o.inst) \cup {x}
    /\ ToSet(p.transfers) = ToSet(q.transfers)

Moves(p, q, o, x) ==
    /\ ToSet(p.requests) = Others(q.requests, o.inst)
    /\ ToSet(p.transfers) = ToSet(q.transfers) \cup {x}

LEMMA PlacesKeep ==
    ASSUME NEW q, NEW p, NEW o, NEW x, Stays(p, q, o, x) \/ Moves(p, q, o, x)
    PROVE  KeepsFailed(p, q)
<1>1. ToSet(q.transfers) \subseteq ToSet(p.transfers)
  BY DEF Stays, Moves
<1> QED
  BY <1>1, SameFailed

LEMMA InstTypes ==
    ASSUME prog \in Seq(Instructions)
    PROVE  /\ \A x \in Pending : x.inst \in Nat
           /\ \A x \in Transferring : x.inst \in Nat
           /\ \A x \in Slot : x.inst \in Nat
  BY RequestFacts

LEMMA FrontStays ==
    ASSUME prog \in Seq(Instructions), NEW q \in LSQs, InOrder(q.requests), q.requests # <<>>,
           NEW o, o = Head(q.requests), NEW x \in Pending, x.inst = o.inst,
           NEW p, p.requests = Put(q.requests, 1, x), p.transfers = q.transfers
    PROVE  Stays(p, q, o, x) /\ o \in ToSet(q.requests)
<1> DEFINE s == q.requests
<1>1. s \in Seq(Pending) /\ InOrder(s) /\ s # <<>> /\ o = Head(s)
      /\ \A y \in Pending : y.inst \in Nat
  BY QueueTypes, InstTypes
<1> HIDE DEF s
<1>2. Len(s) \in Nat \ {0} /\ Head(s) = s[1]
  BY <1>1, Tailed
<1>3. 1 \in 1..Len(s) /\ s[1] = o
  BY <1>1, <1>2
<1>4. ToSet(Put(s, 1, x)) = Others(s, x.inst) \cup {x} /\ s[1] \in ToSet(s)
  BY <1>1, <1>3, PutSet
<1> QED
  BY <1>3, <1>4 DEF Stays, s

LEMMA FrontMoves ==
    ASSUME prog \in Seq(Instructions), NEW q \in LSQs, InOrder(q.requests), q.requests # <<>>,
           NEW o, o = Head(q.requests), NEW x \in Transferring, x.inst = o.inst,
           NEW p, p.requests = Tail(q.requests), p.transfers = Append(q.transfers, x)
    PROVE  Moves(p, q, o, x) /\ o \in ToSet(q.requests)
<1>1. q.requests \in Seq(Pending) /\ q.transfers \in Seq(Transferring)
  BY QueueTypes
<1>2. ToSet(Tail(q.requests)) = Others(q.requests, o.inst) /\ o \in ToSet(q.requests)
  BY <1>1, TailSet, InstTypes
<1>3. ToSet(Append(q.transfers, x)) = ToSet(q.transfers) \cup {x}
  BY <1>1, AppendSet
<1> QED
  BY <1>2, <1>3 DEF Moves

LEMMA FrontRight ==
    ASSUME prog \in Seq(Instructions), NEW q \in LSQs, InOrder(q.requests),
           NEW o \in ToSet(q.requests), NEW x, x.inst = o.inst, NEW p, NEW n, NEW done,
           \/ Stays(p, q, o, x) /\ RequestOK(p, n, done, x)
           \/ Moves(p, q, o, x) /\ TransferOK(p, n, done, x)
    PROVE  /\ AccessesRight(p, q, n, done)
           /\ (o.issuedToMemory => x.issuedToMemory) => KeepsIssued(p, q)
           /\ x.issuedToMemory => x.inst \in AccessesIssuedToMemory(p)
<1>1. AccessesRight(p, q, n, done)
  BY DEF AccessesRight, Stays, Moves, Others
<1>2. \A y \in ToSet(q.requests) : y.inst = o.inst => y = o
  BY QueueTypes, InstTypes, MemberAlone
<1>3. ASSUME o.issuedToMemory => x.issuedToMemory, NEW m \in AccessesIssuedToMemory(q)
      PROVE  m \in AccessesIssuedToMemory(p)
  <2>1. PICK r \in ToSet(q.requests) \cup ToSet(q.transfers) : r.inst = m /\ r.issuedToMemory
    BY <1>3, IssuedSet
  <2>2. \/ r \in ToSet(p.requests) \cup ToSet(p.transfers)
        \/ r = o /\ x \in ToSet(p.requests) \cup ToSet(p.transfers)
    BY <1>2, <2>1 DEF Stays, Moves, Others
  <2> QED
    BY <1>3, <2>1, <2>2, IssuedSet
<1>4. x.issuedToMemory => x.inst \in AccessesIssuedToMemory(p)
  BY IssuedSet DEF Stays, Moves
<1> QED
  BY <1>1, <1>3, <1>4 DEF KeepsIssued

\* The next packet of r may be sent.
MaySend(q, n, done, r) ==
    /\ ~r.skipped /\ ~r.fault
    /\ r.state \in {"Translated", "RequestIssuing", "RequestNeedsRetry"}
    /\ r.sent < NumFragments(r.inst)
    /\ ~(IsStore(r.inst) /\ Bufferable(r.inst))
    /\ r.issuedToMemory <=> ~Bufferable(r.inst)
    /\ r.issuedToMemory => AloneAtDevice(q, n, r)
    /\ SentIsWritten(q, r)
    /\ IsLoad(r.inst) => /\ HasData(q, r, n, done, r.sent)
                         /\ \A s \in ToSet(q.slots) : ~Overlaps(s, r.inst)
    /\ FailedNotIssued(q)

LEMMA RefusedOK ==
    ASSUME NEW q, NEW n, NEW done, NEW r, MaySend(q, n, done, r),
           NEW x, SameAccess(x, r), x.sent = r.sent, x.data = r.data,
           x.state = "RequestNeedsRetry", NEW p, p.mem = q.mem, p.slots = q.slots,
           KeepsFailed(p, q)
    PROVE  RequestOK(p, n, done, x)
<1>1. x.inst = r.inst /\ x.skipped = r.skipped /\ x.issuedToMemory = r.issuedToMemory
      /\ x.fault = r.fault
  BY DEF SameAccess
<1>2. SentIsWritten(p, x)
  BY <1>1 DEF MaySend, SentIsWritten
<1>3. x.issuedToMemory => AloneAtDevice(p, n, x)
  BY <1>1 DEF MaySend, AloneAtDevice
<1>4. IsLoad(x.inst) => HasData(p, x, n, done, x.sent)
  <2>1. IsLoad(x.inst) => HasData(q, x, n, done, x.sent)
    BY <1>1 DEF MaySend, HasData
  <2> QED
    BY <2>1, DataKeeps
<1>5. Started(x)
  BY DEF Started
<1> QED
  BY <1>1, <1>2, <1>3, <1>4, <1>5 DEF MaySend, RequestOK

\* A load has been given the data of one more line.
LEMMA MoreData ==
    ASSUME prog \in Seq(Instructions), NEW q \in LSQs, NEW n, NEW done, Oldest(n, done),
           MemoryOK(q, n, done), NEW r \in Request, r.inst >= n, MaySend(q, n, done, r),
           IsLoad(r.inst), NEW x, x.inst = r.inst,
           x.data = Append(r.data, q.mem[NextLine(r)])
    PROVE  HasData(q, x, n, done, r.sent + 1)
<1> DEFINE m == r.inst
           k == r.sent
           d == r.data
           a == NextLine(r)
           f == NumFragments(m)
<1>1. m \in Insts /\ m \in Nat /\ k \in Nat /\ d \in Seq(0..Len(prog)) /\ f \in Nat /\ k < f
  BY ProgramFacts DEF Request, Insts, MaySend
<1>2. HasData(q, r, n, done, k) /\ \A s \in ToSet(q.slots) : ~Overlaps(s, m)
  BY DEF MaySend
<1>3. k + 1 \in 1..f
  <2> HIDE DEF k, f
  <2> QED
    BY <1>1
<1>4. a \in Addrs /\ a \in ToSet(Lines(m)) /\ a = Lines(m)[k + 1]
  BY <1>1, <1>3, LineTypes DEF NextLine
<1>5. IsLast(q.mem[a], done, m, a)
  <2>1. /\ LineOK(q, n, done, a) /\ FailedNotIssued(q)
        /\ \A i \in n..(m - 1) : IsStore(i) => HasFailed(q, i)
    BY <1>2, <1>4 DEF MemoryOK, HasData, MaySend
  <2> HIDE DEF a, m
  <2> QED
    BY <1>1, <1>2, <1>4, <2>1, MemoryHasLast DEF m
<1>6. q.mem[a] \in 0..Len(prog)
  BY <1>4, MemoryTypes
<1> DEFINE v == q.mem[a]
           e == Append(d, v)
<1>7. Len(d) = k /\ \A i \in 1..k : IsLast(d[i], done, m, Lines(m)[i])
  BY <1>2 DEF HasData
<1>8. Len(e) = k + 1 /\ (\A i \in 1..k : e[i] = d[i]) /\ e[k + 1] = v
  <2> HIDE DEF v, d, k
  <2> QED
    BY <1>1, <1>6, <1>7, AppendProperties DEF v
<1>9. x.data = e
  OBVIOUS
<1> HIDE DEF e, v, d, k, a
<1>10. \A i \in 1..(k + 1) : i \in 1..k \/ i = k + 1
  BY <1>1
<1>11. \A i \in 1..(k + 1) : IsLast(e[i], done, m, Lines(m)[i])
  BY <1>4, <1>5, <1>7, <1>8, <1>10 DEF v
<1>12. HasData(q, x, n, done, k + 1)
  BY <1>2, <1>8, <1>9, <1>11 DEF HasData
<1> QED
  BY <1>12 DEF k

\* A packet of r was accepted.
TakenByMemory(p, q, r, x) ==
    /\ SameAccess(x, r) /\ x.sent = r.sent + 1 /\ x.state = "RequestIssuing"
    /\ x.data = IF IsLoad(r.inst) THEN Append(r.data, q.mem[NextLine(r)]) ELSE r.data
    /\ p.slots = q.slots /\ KeepsFailed(p, q)
    /\ p.mem = IF IsStore(r.inst) THEN [q.mem EXCEPT ![NextLine(r)] = r.inst] ELSE q.mem

LEMMA TakenWrites ==
    ASSUME prog \in Seq(Instructions), NEW q, NEW n, NEW done, NEW r \in Pending,
           MaySend(q, n, done, r), NEW x, NEW p, TakenByMemory(p, q, r, x), IsStore(r.inst)
    PROVE  DeviceWrites(p, q, n, NextLine(r)) /\ r.inst = n /\ r.issuedToMemory
<1> DEFINE m == r.inst
           k == r.sent
           f == NumFragments(m)
<1>1. m \in Insts /\ k \in Nat /\ f \in Nat /\ k < f
  BY RequestFacts DEF MaySend
<1>2. k + 1 \in 1..f
  <2> HIDE DEF k, f
  <2> QED
    BY <1>1
<1>3. NextLine(r) \in Addrs /\ NextLine(r) \in ToSet(Lines(m))
  BY <1>1, <1>2, LineTypes DEF NextLine
<1>4. r.issuedToMemory /\ AloneAtDevice(q, n, r)
  BY DEF MaySend
<1> QED
  BY <1>3, <1>4 DEF AloneAtDevice, DeviceWrites, TakenByMemory

LEMMA TakenFollows ==
    ASSUME prog \in Seq(Instructions), NEW q \in LSQs, NEW p \in LSQs, NEW n, NEW done,
           Oldest(n, done), MemoryOK(q, n, done), NEW r \in Pending, MaySend(q, n, done, r),
           NEW x, TakenByMemory(p, q, r, x)
    PROVE  /\ Follows(p, q)
           /\ IsStore(r.inst) => p.mem[NextLine(r)] = r.inst
<1>1. CASE IsStore(r.inst)
  <2>1. DeviceWrites(p, q, n, NextLine(r)) /\ r.inst = n
    BY <1>1, TakenWrites
  <2> PICK a : a = NextLine(r)
    OBVIOUS
  <2>2. DeviceWrites(p, q, n, a)
    BY <2>1
  <2>3. a \in Addrs /\ KeepsFailed(p, q)
    BY <2>2 DEF DeviceWrites, TakenByMemory
  <2>4. Follows(p, q) /\ p.mem[a] = n
    BY <2>2, <2>3, DeviceFollows
  <2> QED
    BY <2>1, <2>4
<1>2. CASE ~IsStore(r.inst)
  BY <1>2, SameFollows DEF TakenByMemory
<1> QED
  BY <1>1, <1>2

LEMMA TakenWritten ==
    ASSUME prog \in Seq(Instructions), NEW q \in LSQs, NEW p \in LSQs, Follows(p, q),
           NEW r \in Pending \cup Slot, r.sent < NumFragments(r.inst), SentIsWritten(q, r),
           IsStore(r.inst) => p.mem[NextLine(r)] = r.inst,
           NEW x, x.inst = r.inst, x.sent = r.sent + 1
    PROVE  SentIsWritten(p, x)
<1> SUFFICES ASSUME IsStore(r.inst), NEW i \in 1..(r.sent + 1)
             PROVE  p.mem[Lines(r.inst)[i]] >= r.inst
  BY DEF SentIsWritten
<1> DEFINE k == r.sent
           m == r.inst
<1>1. k \in Nat /\ m \in Nat
  BY RequestFacts
<1>2. i \in 1..k \/ i = k + 1
  <2>1. i \in 1..(k + 1)
    OBVIOUS
  <2> HIDE DEF k
  <2> QED
    BY <1>1, <2>1
<1>3. CASE i \in 1..k
  <2>1. SentIsWritten(p, r)
    BY WrittenKept
  <2> QED
    BY <1>3, <2>1 DEF SentIsWritten
<1>4. CASE i = k + 1
  <2>1. p.mem[Lines(r.inst)[i]] = r.inst
    BY <1>4 DEF NextLine
  <2> HIDE DEF m
  <2>2. m >= m
    BY <1>1
  <2> QED
    BY <2>1, <2>2 DEF m
<1> QED
  BY <1>2, <1>3, <1>4

LEMMA TakenOK ==
    ASSUME prog \in Seq(Instructions), NEW q \in LSQs, NEW p \in LSQs, NEW n, NEW done,
           Oldest(n, done), MemoryOK(q, n, done), NEW r \in Pending, r.inst >= n,
           MaySend(q, n, done, r), NEW x, TakenByMemory(p, q, r, x)
    PROVE  /\ RequestOK(p, n, done, x)
           /\ r.sent + 1 = NumFragments(r.inst) => TransferOK(p, n, done, x)
<1>1. /\ x.inst = r.inst /\ x.skipped = r.skipped /\ x.issuedToMemory = r.issuedToMemory
      /\ x.fault = r.fault /\ x.sent = r.sent + 1 /\ x.state = "RequestIssuing"
  BY DEF TakenByMemory, SameAccess
<1>2. /\ ~r.skipped /\ ~r.fault /\ ~(IsStore(r.inst) /\ Bufferable(r.inst))
      /\ r.issuedToMemory <=> ~Bufferable(r.inst)
      /\ r.issuedToMemory => AloneAtDevice(q, n, r)
      /\ r.sent < NumFragments(r.inst) /\ SentIsWritten(q, r)
  BY DEF MaySend
<1>3. Follows(p, q) /\ SentIsWritten(p, x)
  BY <1>1, <1>2, TakenFollows, TakenWritten
<1>4. x.issuedToMemory => AloneAtDevice(p, n, x)
  <2>1. x.issuedToMemory => AloneAtDevice(p, n, r)
    BY <1>1, <1>2, <1>3, AloneKept
  <2> QED
    BY <1>1, <2>1 DEF AloneAtDevice
<1>5. IsLoad(x.inst) => HasData(p, x, n, done, x.sent)
  <2>1. r \in Request
    BY RequestFacts
  <2>2. IsLoad(x.inst) => HasData(q, x, n, done, x.sent)
    BY <1>1, <2>1, MoreData DEF TakenByMemory
  <2> QED
    BY <2>2, DataKeeps DEF TakenByMemory
<1>6. Started(x)
  <2>1. r.sent \in Nat
    BY RequestFacts
  <2>2. r.sent + 1 > 0
    BY <2>1
  <2> QED
    BY <1>1, <2>2 DEF Started
<1>7. RequestOK(p, n, done, x)
  BY <1>1, <1>2, <1>3, <1>4, <1>5, <1>6 DEF RequestOK
<1>8. ASSUME r.sent + 1 = NumFragments(r.inst) PROVE TransferOK(p, n, done, x)
  <2>1. SentAllPackets(x) /\ x.sent = NumFragments(x.inst)
    BY <1>1, <1>8 DEF SentAllPackets, NumFragments
  <2> QED
    BY <1>1, <1>2, <1>3, <1>4, <1>5, <2>1 DEF TransferOK
<1> QED
  BY <1>7, <1>8

LEMMA UnsentOK ==
    ASSUME NEW q, NEW n, NEW done, NEW r \in Request, MaySend(q, n, done, r),
           NEW p, p.mem = q.mem, p.slots = q.slots, KeepsFailed(p, q)
    PROVE  RequestOK(p, n, done, r)
<1>1. SentIsWritten(p, r)
  BY DEF MaySend, SentIsWritten
<1>2. r.issuedToMemory => AloneAtDevice(p, n, r)
  BY DEF MaySend, AloneAtDevice
<1>3. IsLoad(r.inst) => IF Started(r) THEN HasData(p, r, n, done, r.sent) ELSE r.data = <<>>
  <2> SUFFICES ASSUME IsLoad(r.inst), ~Started(r) PROVE r.data = <<>>
    BY DataKeeps DEF MaySend
  <2>1. r.sent \in Nat /\ ~(r.sent > 0) /\ r.data \in Seq(0..Len(prog))
    BY DEF Started, Request
  <2>2. Len(r.data) = r.sent /\ r.sent = 0
    BY <2>1 DEF MaySend, HasData
  <2>3. PICK d : d = r.data
    OBVIOUS
  <2>4. d \in Seq(0..Len(prog)) /\ Len(d) = 0
    BY <2>1, <2>2, <2>3
  <2>5. d = <<>>
    BY <2>4, EmptySeq
  <2> QED
    BY <2>3, <2>5
<1> QED
  BY <1>1, <1>2, <1>3 DEF MaySend, RequestOK

\* The front of requests after it was sent, or was not.
LEMMA FrontAfter ==
    ASSUME prog \in Seq(Instructions), NEW q \in LSQs, InOrder(q.requests), q.requests # <<>>,
           NEW o, o = Head(q.requests), NEW z \in LSQs, z.requests = q.requests,
           z.transfers = q.transfers, z.slots = q.slots, NEW x, x.inst = o.inst, NEW p
    PROVE  /\ x \in Pending /\ p = FrontSet(z, x)
                => Stays(p, q, o, x) /\ p.mem = z.mem /\ p.slots = q.slots
           /\ x \in Transferring /\ p = FrontMoved(z, x)
                => Moves(p, q, o, x) /\ p.mem = z.mem /\ p.slots = q.slots
<1>1. ASSUME x \in Pending, p = FrontSet(z, x)
      PROVE  Stays(p, q, o, x) /\ p.mem = z.mem /\ p.slots = q.slots
  <2>1. /\ SameRest(p, z) /\ p.requests = Put(z.requests, 1, x) /\ p.transfers = z.transfers
    BY <1>1, FrontSetIs
  <2>2. Stays(p, q, o, x)
    BY <1>1, <2>1, FrontStays
  <2> QED
    BY <2>1, <2>2 DEF SameRest
<1>2. ASSUME x \in Transferring, p = FrontMoved(z, x)
      PROVE  Moves(p, q, o, x) /\ p.mem = z.mem /\ p.slots = q.slots
  <2>1. /\ SameRest(p, z) /\ p.requests = Tail(z.requests)
        /\ p.transfers = Append(z.transfers, x)
    BY <1>2, FrontMovedIs
  <2>2. Moves(p, q, o, x)
    BY <1>2, <2>1, FrontMoves
  <2> QED
    BY <2>1, <2>2 DEF SameRest
<1> QED
  BY <1>1, <1>2

LEMMA FrontOf ==
    ASSUME prog \in Seq(Instructions), NEW h \in Nat, NEW q, Good(q, h), q.requests # <<>>,
           NEW o, o = Head(q.requests)
    PROVE  /\ q \in LSQs /\ InOrder(q.requests) /\ o \in ToSet(q.requests)
           /\ o \in Pending /\ o.inst >= h
<1>1. q \in LSQs /\ InOrder(q.requests) /\ OldAndNew(q, h)
  BY GoodParts DEF Ordered, QueuesInOrder
<1>2. q.requests \in Seq(Pending)
  BY <1>1, QueueTypes
<1> DEFINE s == q.requests
<1> HIDE DEF s
<1>3. 1 \in 1..Len(s) /\ Head(s) = s[1]
  BY <1>2 DEF s
<1>4. o \in ToSet(s)
  BY <1>2, <1>3, Members DEF s
<1> QED
  BY <1>1, <1>2, <1>3, <1>4, FrontRequest DEF s, OldAndNew

\* tryToSend for the front of requests, when it may be sent.
LEMMA SendFrontMemory ==
    ASSUME prog \in Seq(Instructions), NEW h \in Nat, NEW q, Good(q, h),
           q.requests # <<>>, NEW o, o = Head(q.requests),
           NEW r \in Pending, Sendable(r, o), NEW c \in LSQs, Counted(c, q, o, r),
           c.mem = q.mem, NEW done, Oldest(h, done), MemoryOK(q, h, done),
           MaySend(q, h, done, r), o.issuedToMemory => r.issuedToMemory,
           NEW t \in TryToSend(c, r), NEW p \in LSQs, p = AfterSending(t)
    PROVE  MemoryOK(p, h, done) /\ Follows(p, q)
<1>1. /\ c.requests = q.requests /\ c.transfers = q.transfers /\ c.slots = q.slots
  BY DEF Counted
<1>2. /\ q \in LSQs /\ InOrder(q.requests) /\ o \in ToSet(q.requests)
      /\ o.inst >= h
  BY FrontOf
<1>3. r \in Request /\ r.inst = o.inst /\ r.sent < NumFragments(r.inst) /\ ~InStoreBuffer(r)
  <2>1. r \in Request /\ SameAccess(r, r)
    BY DEF Pending, SameAccess
  <2> QED
    BY <2>1, SentRequest DEF Sendable
<1> DEFINE x == t.r
           z == t.q
<1>4. /\ z \in LSQs /\ SameQueues(z, c) /\ x \in Request /\ SameAccess(x, r)
      /\ NotSent(t, c, r) \/ AcceptedByMemory(t, c, r) \/ RefusedByMemory(t, c, r)
  BY <1>3, Sending, SendingMemory
<1>5. z.requests = q.requests /\ z.transfers = q.transfers /\ z.slots = q.slots
      /\ x.inst = o.inst /\ x.issuedToMemory = r.issuedToMemory /\ r.inst >= h
  BY <1>1, <1>2, <1>3, <1>4 DEF SameQueues, SameAccess
<1>6. p = IF t.all THEN FrontMoved(z, x) ELSE FrontSet(z, x)
  BY DEF AfterSending
<1> HIDE DEF x, z
<1>7. /\ ~t.all /\ x \in Pending => Stays(p, q, o, x) /\ p.mem = z.mem /\ p.slots = q.slots
      /\ t.all /\ x \in Transferring => Moves(p, q, o, x) /\ p.mem = z.mem /\ p.slots = q.slots
  BY <1>2, <1>4, <1>5, <1>6, FrontAfter
<1>7a. Stays(p, q, o, x) \/ Moves(p, q, o, x) => KeepsFailed(p, q)
  BY PlacesKeep
<1>8. ASSUME Stays(p, q, o, x), RequestOK(p, h, done, x), p.mem = q.mem, p.slots = q.slots
      PROVE  MemoryOK(p, h, done) /\ Follows(p, q)
  <2>1. AccessesRight(p, q, h, done) /\ KeepsIssued(p, q)
    BY <1>2, <1>5, <1>8, FrontRight
  <2> QED
    BY <1>2, <1>7a, <1>8, <2>1, QuietOK, SameFollows
<1>9. CASE NotSent(t, c, r)
  <2>1. x = r /\ z = c /\ ~t.all /\ x \in Pending
    BY <1>9 DEF NotSent, x, z
  <2>2. Stays(p, q, o, x) /\ p.mem = q.mem /\ p.slots = q.slots
    BY <1>7, <2>1
  <2>3. RequestOK(p, h, done, x)
    BY <1>3, <1>7a, <2>1, <2>2, UnsentOK
  <2> QED
    BY <1>8, <2>2, <2>3
<1>10. CASE RefusedByMemory(t, c, r)
  <2>1. x.sent = r.sent /\ x.data = r.data /\ x.state = "RequestNeedsRetry" /\ ~t.all
        /\ z.mem = q.mem
    BY <1>3, <1>10 DEF RefusedByMemory, Refused, x, z
  <2>2. x \in Pending
    BY <1>4, <2>1, SentRequest
  <2>3. Stays(p, q, o, x) /\ p.mem = q.mem /\ p.slots = q.slots
    BY <1>7, <2>1, <2>2
  <2>4. RequestOK(p, h, done, x)
    BY <1>4, <1>7a, <2>1, <2>3, RefusedOK
  <2> QED
    BY <1>8, <2>3, <2>4
<1>11. CASE AcceptedByMemory(t, c, r)
  <2>1. /\ x.sent = r.sent + 1 /\ x.state = "RequestIssuing"
        /\ t.all = (r.sent + 1 = NumFragments(r.inst))
        /\ z.mem = IF IsStore(r.inst) THEN [q.mem EXCEPT ![NextLine(r)] = r.inst] ELSE q.mem
        /\ x.data = IF IsLoad(r.inst) THEN Append(r.data, q.mem[NextLine(r)]) ELSE r.data
    BY <1>3, <1>11 DEF AcceptedByMemory, Accepted, x, z
  <2>2. IF t.all THEN x \in Transferring ELSE x \in Pending
    BY <1>4, <2>1, SentRequest
  <2>3. IF t.all THEN Moves(p, q, o, x) ELSE Stays(p, q, o, x)
    BY <1>7, <2>1, <2>2
  <2>4. p.mem = z.mem /\ p.slots = q.slots
    BY <1>7, <2>1, <2>2
  <2>5. TakenByMemory(p, q, r, x)
    BY <1>4, <1>7a, <2>1, <2>3, <2>4 DEF TakenByMemory
  <2>6. RequestOK(p, h, done, x) /\ (t.all => TransferOK(p, h, done, x))
    BY <1>2, <1>5, <2>1, <2>5, TakenOK
  <2>7. Follows(p, q)
    BY <1>2, <2>5, TakenFollows
  <2>8. /\ AccessesRight(p, q, h, done) /\ KeepsIssued(p, q)
        /\ x.issuedToMemory => x.inst \in AccessesIssuedToMemory(p)
    BY <1>2, <1>5, <2>3, <2>6, FrontRight
  <2>9. CASE IsStore(r.inst)
    <3> PICK a : a = NextLine(r)
      OBVIOUS
    <3>1. DeviceWrites(p, q, h, a) /\ r.inst = h /\ r.issuedToMemory
      BY <2>5, <2>9, TakenWrites
    <3>2. h \in AccessesIssuedToMemory(p)
      BY <1>3, <1>5, <2>8, <3>1
    <3> QED
      BY <1>2, <2>7, <2>8, <3>1, <3>2, DeviceOK DEF Follows
  <2>10. CASE ~IsStore(r.inst)
    <3>1. p.mem = q.mem
      BY <2>1, <2>4, <2>10
    <3> QED
      BY <1>2, <2>4, <2>7, <2>8, <3>1, QuietOK DEF Follows
  <2> QED
    BY <2>9, <2>10
<1> QED
  BY <1>4, <1>9, <1>10, <1>11

----------------------------------------------------------------------------
(* tryToSendToTransfers. *)

\* Accesses come to the queue in order: those before one it has are in it too.
Contiguous(q, h) ==
    \A n \in Held(q) : \A m \in h..(n - 1) : IsMemRef(m) => m \in Held(q)

IssuedOnPath(q) == AccessesInFlight(q) => RightStream(head)

\* What a step of the queue that Execute does not take part in does to memory.
MemoryKept(p, q, done) == MemoryOK(p, head, done) /\ Follows(p, q) /\ IssuedOnPath(p)

\* An access in transfers is in the queue once.
LEMMA OnceInQueue ==
    ASSUME prog \in Seq(Instructions), NEW h \in Nat, NEW q, Good(q, h), NEW o \in ToSet(q.transfers)
    PROVE  /\ \A x \in ToSet(q.transfers) : x.inst = o.inst => x = o
           /\ \A x \in ToSet(q.requests) : x.inst # o.inst
<1>1. q \in LSQs /\ QueuesInOrder(q) /\ InOrder(q.transfers)
      /\ q.transfers \in Seq(Transferring) /\ q.requests \in Seq(Pending)
  BY GoodParts, QueueTypes DEF Ordered, QueuesInOrder
<1>2. /\ \A x \in Transferring : x.inst \in Nat
      /\ \A x \in Pending : x.inst \in Nat
  BY InstTypes
<1>3. \A x \in ToSet(q.transfers) : x.inst = o.inst => x = o
  BY <1>1, <1>2, MemberAlone
<1>4. /\ ToSet(q.requests) = {q.requests[i] : i \in 1..Len(q.requests)}
      /\ ToSet(q.requests) \subseteq Pending
  BY <1>1, Members
<1>5. /\ ToSet(q.transfers) = {q.transfers[i] : i \in 1..Len(q.transfers)}
      /\ o \in Transferring
  BY <1>1, Members
<1>6. PICK i \in 1..Len(q.transfers) : o = q.transfers[i]
  BY <1>5
<1>7. \A j \in 1..Len(q.requests) : o.inst < q.requests[j].inst
  BY <1>1, <1>6 DEF QueuesInOrder
<1>8. \A x \in ToSet(q.requests) : x.inst # o.inst
  BY <1>2, <1>4, <1>5, <1>7
<1> QED
  BY <1>3, <1>8

LEMMA SkippedNotIssued ==
    ASSUME prog \in Seq(Instructions), NEW h \in Nat, NEW q, Good(q, h), NEW done,
           MemoryOK(q, h, done), NEW o \in ToSet(q.transfers), o.skipped
    PROVE  o.inst \notin AccessesIssuedToMemory(q)
<1>1. ~o.issuedToMemory
  BY DEF MemoryOK, TransferOK
<1> QED
  BY <1>1, OnceInQueue, IssuedSet

LEMMA FailedStays ==
    ASSUME prog \in Seq(Instructions), NEW h \in Nat, NEW q, Good(q, h), NEW done,
           MemoryOK(q, h, done)
    PROVE  FailedNotIssued(q)
<1> SUFFICES ASSUME NEW m, HasFailed(q, m) PROVE m \notin AccessesIssuedToMemory(q)
  BY DEF FailedNotIssued
<1>1. PICK x \in ToSet(q.transfers) : x.inst = m /\ FailedStore(x)
  BY DEF HasFailed
<1>2. q.transfers \in Seq(Transferring)
  BY GoodParts, QueueTypes
<1>3. x \in Transferring
  BY <1>2, Members
<1>4. x.skipped
  BY <1>1, <1>3 DEF Transferring
<1> QED
  BY <1>1, <1>4, SkippedNotIssued

LEMMA NoStoresBefore ==
    ASSUME prog \in Seq(Instructions), NEW h \in Nat, NEW q, Good(q, h), Contiguous(q, h),
           q.requests # <<>>, NEW o, o = Head(q.requests), q.numStoresInTransfers = 0
    PROVE  \A m \in h..(o.inst - 1) : IsStore(m) => HasFailed(q, m)
<1> SUFFICES ASSUME NEW m \in h..(o.inst - 1), IsStore(m) PROVE HasFailed(q, m)
  OBVIOUS
<1>1. q \in LSQs /\ Ordered(q, h) /\ CountsMatch(q) /\ o \in Pending
  BY GoodParts, FrontRequest
<1>2. q.requests \in Seq(Pending) /\ InOrder(q.requests)
  BY <1>1, QueueTypes DEF Ordered, QueuesInOrder
<1>3. o.inst \in Nat /\ o.inst \in Insts
  BY <1>1, RequestFacts
<1>4. m \in Nat /\ m < o.inst
  BY <1>3
<1>5. IsMemRef(m) /\ ~IsLoad(m)
  BY DEF IsMemRef, IsStore, IsLoad
<1>6. o.inst \in Held(q)
  <2>1. o \in ToSet(q.requests)
    BY FrontOf
  <2>2. Has(q.requests, o.inst)
    BY <1>2, <2>1, MemberEntry DEF Has
  <2> QED
    BY <1>3, <2>2 DEF Held
<1>7. m \in Held(q)
  BY <1>5, <1>6 DEF Contiguous
<1>8. ~Has(q.requests, m)
  <2> SUFFICES ASSUME NEW i \in 1..Len(q.requests), q.requests[i].inst = m PROVE FALSE
    BY DEF Has, Entry
  <2> DEFINE s == q.requests
             l == Len(s)
  <2>1. l \in Nat /\ i \in 1..l /\ Head(s) = s[1] /\ o = s[1]
    BY <1>2
  <2> HIDE DEF l
  <2>2. i = 1 \/ (1 < i /\ 1 \in 1..l)
    BY <2>1
  <2>3. i # 1
    BY <1>3, <1>4, <2>1
  <2>4. s[1].inst < s[i].inst
    BY <1>2, <2>1, <2>2, <2>3 DEF InOrder, l
  <2> QED
    BY <1>3, <1>4, <2>1, <2>4
<1>9. m \in Insts /\ Has(q.transfers, m)
  BY <1>7, <1>8 DEF Held
<1>10. PICK x \in ToSet(q.transfers) : x.inst = m
  <2>1. q.transfers \in Seq(Transferring)
    BY <1>1, QueueTypes
  <2> QED
    BY <1>9, <2>1, MemberEntry DEF Has
<1>11. Cardinality(StoresInTransfers(q)) = 0 /\ IsFiniteSet(StoresInTransfers(q))
  BY <1>1, CountedFinite DEF CountsMatch
<1>12. StoresInTransfers(q) = {}
  BY <1>11, FS_EmptySet
<1>13. x.isLoad
  BY <1>10, <1>12 DEF StoresInTransfers
<1> QED
  BY <1>10, <1>13 DEF HasFailed, FailedStore

\* The store that is forwarded is the last one to every line of the load.
LEMMA ForwardedIsLast ==
    ASSUME prog \in Seq(Instructions), NEW h \in Nat, NEW q, Good(q, h),
           NEW done, Oldest(h, done), MemoryOK(q, h, done),
           NEW n \in Nat, n >= h, Forwarding(q, n).coverage = "Full",
           NEW a \in ToSet(Lines(n))
    PROVE  IsLast(Forwarding(q, n).inst, done, n, a)
<1> DEFINE s == q.slots
           O == {i \in 1..Len(q.slots) :
                   ToSet(Lines(q.slots[i].inst)) \cap ToSet(Lines(n)) # {}}
           k == Max(O)
           f == s[k]
<1>1. q \in LSQs /\ Ordered(q, h)
  BY GoodParts
<1>2. s \in Seq(Slot) /\ Len(s) \in Nat /\ InOrder(s)
  BY <1>1, QueueTypes, LenProperties DEF Ordered, QueuesInOrder
<1>3. O # {}
  BY DEF Forwarding
<1>4. k \in O /\ \A j \in O : j <= k
  <2> DEFINE l == Len(q.slots)
  <2>1. O \in SUBSET (0..l)
    BY <1>2
  <2> HIDE DEF O
  <2> QED
    BY <1>2, <1>3, <2>1, GreatestNatural
<1>5. k \in 1..Len(s)
  BY <1>4
<1>6. /\ Forwarding(q, n).inst = f.inst /\ ToSet(Lines(n)) \subseteq ToSet(Lines(f.inst))
  <2>1. Forwarding(q, n) = [coverage |-> IF ToSet(Lines(n)) \subseteq ToSet(Lines(f.inst))
                                         THEN "Full" ELSE "Partial",
                            inst |-> f.inst]
    BY <1>3 DEF Forwarding
  <2> HIDE DEF k, O
  <2> QED
    BY <2>1
<1> HIDE DEF k
<1>7. f \in Slot /\ f \in ToSet(s) /\ f.inst \in Insts /\ f.inst \in Nat
  BY <1>2, <1>5, Members, RequestFacts
<1>8. f.inst < h /\ f.inst < n
  <2>1. f.inst < h
    BY <1>1, <1>5 DEF Ordered, OldAndNew
  <2> QED
    BY <1>7, <2>1
<1>9. f.inst \in done /\ \A m \in done : IsStore(m) /\ m > f.inst /\ Overlaps(f, m)
                             => \E t \in ToSet(s) : t.inst = m
  BY <1>7 DEF MemoryOK, SlotOK
<1>10. Writes(f.inst, a)
  <2>1. a \in ToSet(Lines(f.inst))
    BY <1>6
  <2>2. ~IsBarrier(f.inst)
    <3>1. ToSet(<<>>) = {}
      BY DEF ToSet
    <3> QED
      BY <1>7, <2>1, <3>1, ProgramFacts
  <2> QED
    BY <1>7, <2>1, <2>2 DEF Slot, Writes
<1>11. ASSUME NEW m \in done, m < n, Writes(m, a), m \in Nat PROVE m <= f.inst
  <2> SUFFICES ASSUME m > f.inst PROVE FALSE
    BY <1>7, <1>11
  <2>1. IsStore(m) /\ a \in ToSet(Lines(m))
    BY <1>11 DEF Writes
  <2>2. Overlaps(f, m)
    BY <1>6, <2>1 DEF Overlaps
  <2>3. PICK t \in ToSet(s) : t.inst = m
    BY <1>9, <2>1, <2>2
  <2>4. PICK j \in 1..Len(s) : t = s[j]
    BY <1>2, Members
  <2>5. j \in O
    BY <2>1, <2>3, <2>4
  <2>6. j <= k
    BY <1>4, <2>5
  <2>7. j = k \/ j < k
    BY <1>5, <2>6
  <2>8. t.inst <= f.inst
    <3>1. j < k => s[j].inst < s[k].inst
      BY <1>2, <1>5 DEF InOrder
    <3>2. CASE j = k
      BY <1>7, <2>4, <3>2
    <3>3. CASE j < k
      BY <1>7, <1>11, <2>3, <2>4, <3>1, <3>3
    <3> QED
      BY <2>7, <3>2, <3>3
  <2> QED
    BY <1>7, <1>11, <2>3, <2>8
<1>12. \A m \in done : m \in Nat
  BY DEF Oldest
<1>13. \A m \in done : m < n /\ Writes(m, a) => m <= f.inst
  BY <1>11, <1>12
<1> HIDE DEF f
<1> QED
  BY <1>6, <1>8, <1>9, <1>10, <1>13 DEF IsLast

\* The front leaves for transfers without being sent.
LEMMA UnsentMemory ==
    ASSUME prog \in Seq(Instructions), NEW h \in Nat, NEW q, Good(q, h),
           q.requests # <<>>, NEW o, o = Head(q.requests), NEW x \in Transferring,
           x.inst = o.inst, x.issuedToMemory = o.issuedToMemory,
           NEW p \in LSQs, p = FrontMoved(q, x), NEW done, MemoryOK(q, h, done),
           p.mem = q.mem /\ p.slots = q.slots /\ KeepsFailed(p, q) => TransferOK(p, h, done, x)
    PROVE  MemoryOK(p, h, done) /\ Follows(p, q)
<1>1. q \in LSQs /\ InOrder(q.requests) /\ o \in ToSet(q.requests)
  BY FrontOf
<1>2. Moves(p, q, o, x) /\ p.mem = q.mem /\ p.slots = q.slots
  BY <1>1, FrontAfter
<1>2a. KeepsFailed(p, q)
  BY <1>2, PlacesKeep
<1>3. AccessesRight(p, q, h, done) /\ KeepsIssued(p, q)
  BY <1>1, <1>2, <1>2a, FrontRight
<1> QED
  BY <1>1, <1>2, <1>2a, <1>3, QuietOK, SameFollows

LEMMA SkippedMemory ==
    ASSUME prog \in Seq(Instructions), NEW h \in Nat, NEW q, NEW done, NEW o \in Pending,
           RequestOK(q, h, done, o), o.issuedToMemory => RightStream(h),
           o.state = "Failed" \/ o.fault \/ ~RightStream(o.inst),
           NEW x, x = AsSkipped(o), NEW p, p.mem = q.mem, p.slots = q.slots
    PROVE  TransferOK(p, h, done, x)
<1>1. o \in Request
  BY DEF Pending
<1>2. /\ x.inst = o.inst /\ x.sent = o.sent /\ x.issuedToMemory = o.issuedToMemory
      /\ x.state = "Complete" /\ x.skipped = TRUE
  BY <1>1 DEF AsSkipped, Request
<1>3. ~o.issuedToMemory
  BY DEF RequestOK, AloneAtDevice
<1>4. SentIsWritten(p, x)
  BY <1>2 DEF RequestOK, SentIsWritten
<1> QED
  BY <1>2, <1>3, <1>4 DEF TransferOK

LEMMA StoredMemory ==
    ASSUME prog \in Seq(Instructions), NEW h \in Nat, NEW q, NEW done, NEW o \in Pending,
           RequestOK(q, h, done, o), ~o.fault, IsStore(o.inst), Bufferable(o.inst),
           NEW x, x = AsStored(o), NEW p, p.mem = q.mem, p.slots = q.slots
    PROVE  TransferOK(p, h, done, x)
<1>1. o \in Request /\ ~o.issuedToMemory
  BY DEF Pending
<1>2. /\ x.inst = o.inst /\ x.sent = o.sent /\ x.issuedToMemory = o.issuedToMemory
      /\ x.state = "StoreToStoreBuffer" /\ x.skipped = o.skipped /\ x.fault = o.fault
  BY <1>1 DEF AsStored, Request
<1>3. SentIsWritten(p, x) /\ ~o.skipped
  BY <1>2 DEF RequestOK, SentIsWritten
<1>4. ~IsLoad(o.inst)
  BY DEF IsStore, IsLoad
<1> QED
  BY <1>1, <1>2, <1>3, <1>4 DEF TransferOK

LEMMA ForwardedMemory ==
    ASSUME prog \in Seq(Instructions), NEW h \in Nat, NEW q, Good(q, h), Contiguous(q, h),
           q.requests # <<>>, NEW o, o = Head(q.requests), NEW done, Oldest(h, done),
           MemoryOK(q, h, done), ~o.fault, IsLoad(o.inst), Bufferable(o.inst),
           q.numStoresInTransfers = 0, Forwarding(q, o.inst).coverage = "Full",
           NEW x, x = AsForwarded(q, o), NEW p, p.mem = q.mem, p.slots = q.slots,
           KeepsFailed(p, q)
    PROVE  TransferOK(p, h, done, x)
<1>1. o \in Request /\ o \in Pending /\ o \in ToSet(q.requests) /\ o.inst >= h /\ o.inst \in Nat
      /\ o.inst \in Insts
  BY FrontOf, FrontRequest, RequestFacts
<1> DEFINE n == o.inst
           f == Forwarding(q, n).inst
           l == NumFragments(n)
           d == [k \in 1..l |-> f]
<1>2. x = [o EXCEPT !.state = "Complete", !.data = d]
  BY DEF AsForwarded, NumFragments
<1>3. l \in Nat
  BY <1>1, RequestFacts
<1>4. Len(d) = l /\ \A k \in 1..l : d[k] = f
  <2> HIDE DEF l, f
  <2> QED
    BY <1>3, SMT
<1> HIDE DEF d
<1>5. /\ x.inst = n /\ x.sent = o.sent /\ x.issuedToMemory = o.issuedToMemory
      /\ x.state = "Complete" /\ x.skipped = o.skipped /\ x.fault = o.fault /\ x.data = d
  BY <1>1, <1>2 DEF Request
<1>6. RequestOK(q, h, done, o)
  BY <1>1 DEF MemoryOK
<1>7. ~o.skipped /\ SentIsWritten(p, x) /\ ~o.issuedToMemory
  BY <1>5, <1>6 DEF RequestOK, SentIsWritten, AloneAtDevice
<1>8. \A k \in 1..l : IsLast(d[k], done, n, Lines(n)[k])
  <2> SUFFICES ASSUME NEW k \in 1..l PROVE IsLast(f, done, n, Lines(n)[k])
    BY <1>4
  <2>1. Lines(n)[k] \in ToSet(Lines(n))
    BY <1>1, LineTypes
  <2> QED
    BY <1>1, <2>1, ForwardedIsLast
<1>9. HasData(p, x, h, done, l)
  <2>1. \A m \in h..(n - 1) : IsStore(m) => HasFailed(q, m)
    BY NoStoresBefore
  <2> HIDE DEF l
  <2>2. HasData(q, x, h, done, l)
    BY <1>4, <1>5, <1>8, <2>1 DEF HasData
  <2> QED
    BY <2>2, DataKeeps
<1>10. ~IsStore(n)
  BY DEF IsStore, IsLoad
<1> QED
  BY <1>5, <1>7, <1>9, <1>10 DEF TransferOK

LEMMA IssuedMaySend ==
    ASSUME prog \in Seq(Instructions), NEW q, Good(q, head), head \in Nat, Contiguous(q, head),
           q.requests # <<>>, NEW o, o = Head(q.requests), NEW done,
           MemoryOK(q, head, done), o.state \notin {"InTranslation", "Failed"}, ~o.fault,
           ~(IsStore(o.inst) /\ Bufferable(o.inst)), MayPerform(q, o.inst),
           ~MustStall(q, o.inst),
           IsLoad(o.inst) => Forwarding(q, o.inst).coverage \notin {"Full", "Partial"},
           NEW r \in Pending, Sendable(r, o), r.skipped = o.skipped, r.data = o.data,
           r.issuedToMemory = (o.issuedToMemory \/ FirstIssue(o))
    PROVE  MaySend(q, head, done, r)
<1>1. o \in Request /\ o \in Pending /\ o \in ToSet(q.requests) /\ q \in LSQs /\ o.sent \in Nat
  BY FrontOf, FrontRequest, RequestFacts
<1>2. RequestOK(q, head, done, o)
  BY <1>1 DEF MemoryOK
<1>3. r.inst = o.inst /\ r.sent = o.sent /\ ~r.fault /\ ~r.skipped
      /\ r.state \in {"Translated", "RequestIssuing", "RequestNeedsRetry"}
      /\ r.sent < NumFragments(r.inst)
  BY <1>2 DEF Sendable, RequestOK, Pending
<1>4. /\ Forwarding(q, o.inst).coverage \in {"No", "Full", "Partial"}
      /\ Forwarding(q, o.inst).coverage = "No" => \A s \in ToSet(q.slots) : ~Overlaps(s, o.inst)
  <2>1. ToSet(q.slots) = {q.slots[i] : i \in 1..Len(q.slots)}
    BY <1>1, QueueTypes, Members
  <2> QED
    BY <1>1, <2>1, Coverage
<1>5. r.issuedToMemory <=> ~Bufferable(r.inst)
  BY <1>2, <1>3 DEF RequestOK, AloneAtDevice, FirstIssue
<1>6. r.issuedToMemory => AloneAtDevice(q, head, r)
  BY <1>3, <1>4, <1>5 DEF MayPerform, IsHeadInst, AloneAtDevice
<1>7. SentIsWritten(q, r)
  BY <1>2, <1>3 DEF RequestOK, SentIsWritten
<1>8. ASSUME IsLoad(r.inst)
      PROVE  /\ HasData(q, r, head, done, r.sent)
             /\ \A s \in ToSet(q.slots) : ~Overlaps(s, r.inst)
  <2>1. \A s \in ToSet(q.slots) : ~Overlaps(s, r.inst)
    BY <1>3, <1>4, <1>8
  <2>2. CASE Started(o)
    <3>1. HasData(q, o, head, done, o.sent)
      BY <1>2, <1>3, <1>8, <2>2 DEF RequestOK
    <3> QED
      BY <1>3, <2>1, <3>1 DEF HasData
  <2>3. CASE ~Started(o)
    <3>1. o.data = <<>>
      BY <1>2, <1>3, <1>8, <2>3 DEF RequestOK
    <3>2. o.sent = 0
      BY <1>1, <2>3 DEF Started
    <3>3. \A m \in head..(o.inst - 1) : IsStore(m) => HasFailed(q, m)
      BY <1>3, <1>8, NoStoresBefore DEF MustStall
    <3>4. \A i \in 1..0 : IsLast(r.data[i], done, r.inst, Lines(r.inst)[i])
      OBVIOUS
    <3>5. Len(r.data) = 0
      BY <3>1
    <3> QED
      BY <1>3, <2>1, <3>2, <3>3, <3>4, <3>5 DEF HasData
  <2> QED
    BY <2>2, <2>3
<1>9. FailedNotIssued(q)
  BY FailedStays
<1> QED
  BY <1>3, <1>5, <1>6, <1>7, <1>8, <1>9 DEF MaySend

LEMMA CountedIssued ==
    ASSUME prog \in Seq(Instructions), NEW q \in LSQs, CountsMatch(q)
    PROVE  AccessesInFlight(q) <=> AccessesIssuedToMemory(q) # {}
<1>1. /\ q.numAccessesIssuedToMemory = Cardinality(AccessesIssuedToMemory(q))
      /\ IsFiniteSet(AccessesIssuedToMemory(q))
  BY CountedFinite DEF CountsMatch
<1> QED
  BY <1>1, FS_EmptySet DEF AccessesInFlight

LEMMA SendingIssued ==
    ASSUME prog \in Seq(Instructions), NEW c \in LSQs, NEW r \in Pending, c.requests # <<>>,
           NEW t \in TryToSend(c, r), NEW p, p = AfterSending(t)
    PROVE  p.numAccessesIssuedToMemory = c.numAccessesIssuedToMemory
<1>1. r \in Request /\ r.sent < NumFragments(r.inst)
  BY DEF Pending
<1>2. t.q \in LSQs /\ SameQueues(t.q, c)
  BY <1>1, Sending
<1>3. t.q.requests # <<>> /\ t.q.numAccessesIssuedToMemory = c.numAccessesIssuedToMemory
  BY <1>2 DEF SameQueues
<1>4. CASE t.all
  <2>1. p = FrontMoved(t.q, t.r)
    BY <1>4 DEF AfterSending
  <2>2. SameRest(p, t.q)
    BY <1>2, <2>1, FrontMovedIs
  <2> QED
    BY <1>3, <2>2 DEF SameRest
<1>5. CASE ~t.all
  <2>1. p = FrontSet(t.q, t.r)
    BY <1>5 DEF AfterSending
  <2> QED
    BY <1>2, <1>3, <2>1, FrontSetIs DEF SameRest
<1> QED
  BY <1>4, <1>5

LEMMA TransfersMemory ==
    ASSUME prog \in Seq(Instructions), head \in Nat, NEW q, Good(q, head), Contiguous(q, head),
           NEW done, Oldest(head, done), MemoryOK(q, head, done), IssuedOnPath(q),
           NEW p \in TryToSendToTransfers(q)
    PROVE  MemoryKept(p, q, done)
<1>1. q \in LSQs /\ p \in LSQs /\ CountsMatch(q)
  BY TransfersKept, GoodParts DEF Kept
<1>2. CASE p = q
  BY <1>1, <1>2, SameFollows DEF MemoryKept, KeepsFailed
<1> SUFFICES ASSUME p # q PROVE MemoryKept(p, q, done)
  BY <1>2
<1> PICK r : r = Head(q.requests)
  OBVIOUS
<1> DEFINE n == r.inst
<1>3. /\ q.state # "MemoryNeedsRetry" /\ q.requests # <<>> /\ r.state # "InTranslation"
      /\ \/ /\ r.state = "Failed" \/ r.fault \/ (~RightStream(n) /\ ~HasPacketsInMemSystem(r))
            /\ p = FrontMoved(q, AsSkipped(r))
         \/ /\ r.state # "Failed" /\ ~r.fault /\ IsStore(n) /\ Bufferable(n)
            /\ p = FrontMoved(q, AsStored(r))
         \/ /\ r.state # "Failed" /\ ~r.fault /\ ~(IsStore(n) /\ Bufferable(n))
            /\ RightStream(n) /\ ~MustStall(q, n) /\ MayPerform(q, n)
            /\ \/ /\ IsLoad(n) /\ Forwarding(q, n).coverage = "Full"
                  /\ p = FrontMoved(q, AsForwarded(q, r))
               \/ /\ IsLoad(n) => Forwarding(q, n).coverage \notin {"Full", "Partial"}
                  /\ \E t \in TryToSend(CountIssue(q, r), AsIssued(r)) :
                       p = AfterSending(t)
  BY TransferCases
<1>4. r \in Pending /\ r \in Request /\ r \in ToSet(q.requests) /\ n \in Insts
  BY <1>3, FrontRequest, FrontOf
<1>5. RequestOK(q, head, done, r)
  BY <1>4 DEF MemoryOK
<1>6. ASSUME NEW x, p = FrontMoved(q, x) PROVE IssuedOnPath(p)
  <2>1. SameRest(p, q)
    BY <1>1, <1>6, FrontMovedIs
  <2> QED
    BY <2>1 DEF SameRest, IssuedOnPath, AccessesInFlight
<1>7. CASE /\ r.state = "Failed" \/ r.fault \/ (~RightStream(n) /\ ~HasPacketsInMemSystem(r))
           /\ p = FrontMoved(q, AsSkipped(r))
  <2> PICK x : x = AsSkipped(r)
    OBVIOUS
  <2>1. /\ x \in Request /\ x.inst = n /\ x.sent = r.sent
        /\ x.retired = r.retired /\ x.issuedToMemory = r.issuedToMemory
        /\ x.state = "Complete" /\ x.isLoad = r.isLoad /\ x.skipped
    BY <1>4 DEF Request, States, AsSkipped
  <2>2. x \in Transferring
    BY <1>4, <1>7, <2>1, UnsentRequest
  <2>3. r.issuedToMemory => RightStream(head)
    <3>1. r.issuedToMemory => AccessesIssuedToMemory(q) # {}
      BY <1>4, IssuedSet
    <3> QED
      BY <1>1, <3>1, CountedIssued DEF IssuedOnPath
  <2>4. p.mem = q.mem /\ p.slots = q.slots => TransferOK(p, head, done, x)
    BY <1>4, <1>5, <1>7, <2>3, SkippedMemory
  <2>5. MemoryOK(p, head, done) /\ Follows(p, q)
    BY <1>1, <1>3, <1>7, <2>1, <2>2, <2>4, UnsentMemory
  <2> QED
    BY <1>6, <1>7, <2>5 DEF MemoryKept
<1>8. CASE r.state # "Failed" /\ ~r.fault /\ IsStore(n) /\ Bufferable(n) /\ p = FrontMoved(q, AsStored(r))
  <2> PICK x : x = AsStored(r)
    OBVIOUS
  <2>1. /\ x \in Request /\ x.inst = n /\ x.sent = r.sent
        /\ x.retired = r.retired /\ x.issuedToMemory = r.issuedToMemory
        /\ x.state = "StoreToStoreBuffer" /\ x.isLoad = r.isLoad
    BY <1>4 DEF Request, States, AsStored
  <2>2. x \in Transferring
    BY <1>4, <1>8, <2>1, UnsentRequest
  <2>4. p.mem = q.mem /\ p.slots = q.slots => TransferOK(p, head, done, x)
    BY <1>4, <1>5, <1>8, StoredMemory
  <2>5. MemoryOK(p, head, done) /\ Follows(p, q)
    BY <1>1, <1>3, <1>8, <2>1, <2>2, <2>4, UnsentMemory
  <2> QED
    BY <1>6, <1>8, <2>5 DEF MemoryKept
<1>9. CASE /\ ~r.fault /\ ~MustStall(q, n) /\ MayPerform(q, n)
           /\ IsLoad(n) /\ Forwarding(q, n).coverage = "Full"
           /\ p = FrontMoved(q, AsForwarded(q, r))
  <2> PICK x : x = AsForwarded(q, r)
    OBVIOUS
  <2>1. Bufferable(n) /\ q.numStoresInTransfers = 0
    BY <1>9 DEF MayPerform, MustStall
  <2>2. x \in Transferring /\ x.inst = n /\ x.issuedToMemory = r.issuedToMemory
    BY <1>1, <1>3, <1>4, <1>9, ForwardedTransfer
  <2>3. p.mem = q.mem /\ p.slots = q.slots /\ KeepsFailed(p, q)
          => TransferOK(p, head, done, x)
    BY <1>3, <1>9, <2>1, ForwardedMemory
  <2>4. MemoryOK(p, head, done) /\ Follows(p, q)
    BY <1>1, <1>3, <1>9, <2>2, <2>3, UnsentMemory
  <2> QED
    BY <1>6, <1>9, <2>4 DEF MemoryKept
<1>10. CASE /\ r.state # "Failed" /\ ~r.fault /\ ~(IsStore(n) /\ Bufferable(n))
            /\ RightStream(n) /\ ~MustStall(q, n) /\ MayPerform(q, n)
            /\ IsLoad(n) => Forwarding(q, n).coverage \notin {"Full", "Partial"}
            /\ \E t \in TryToSend(CountIssue(q, r), AsIssued(r)) : p = AfterSending(t)
  <2> PICK c, s : c = CountIssue(q, r) /\ s = AsIssued(r)
    OBVIOUS
  <2>1. PICK t \in TryToSend(c, s) : p = AfterSending(t)
    BY <1>10
  <2>2. q.state = "MemoryRunning" /\ r.state \notin {"InTranslation", "Failed"}
    BY <1>1, <1>3, <1>10, QueueTypes
  <2>3. /\ s \in Pending /\ Sendable(s, r) /\ s.skipped = r.skipped /\ s.data = r.data
        /\ s.issuedToMemory = (r.issuedToMemory \/ FirstIssue(r))
        /\ c \in LSQs /\ Counted(c, q, r, s) /\ c.mem = q.mem
    BY <1>1, <1>4, <1>10, <2>2, IssuedFront
  <2>4. MaySend(q, head, done, s)
    BY <1>3, <1>10, <2>2, <2>3, IssuedMaySend
  <2>5. MemoryOK(p, head, done) /\ Follows(p, q)
    BY <1>1, <1>3, <2>1, <2>3, <2>4, SendFrontMemory
  <2>6. IssuedOnPath(p)
    <3>1. CASE FirstIssue(r)
      BY <1>10, <3>1 DEF FirstIssue, MayPerform, IsHeadInst, IssuedOnPath
    <3>2. CASE ~FirstIssue(r)
      <4>1. c.numAccessesIssuedToMemory = q.numAccessesIssuedToMemory
        BY <1>1, <3>2 DEF CountIssue, LSQs
      <4>2. c.requests # <<>>
        BY <1>3, <2>3 DEF Counted
      <4>3. p.numAccessesIssuedToMemory = q.numAccessesIssuedToMemory
        BY <2>1, <2>3, <4>1, <4>2, SendingIssued
      <4> QED
        BY <4>3 DEF IssuedOnPath, AccessesInFlight
    <3> QED
      BY <3>1, <3>2
  <2> QED
    BY <2>5, <2>6 DEF MemoryKept
<1> QED
  BY <1>3, <1>7, <1>8, <1>9, <1>10

----------------------------------------------------------------------------
(* Translation, and answers to requests and transfers. *)

LEMMA RequestPutMemory ==
    ASSUME prog \in Seq(Instructions), NEW h \in Nat, NEW q, Good(q, h),
           NEW i \in 1..Len(q.requests), NEW o, o = q.requests[i], NEW x \in Pending,
           x.inst = o.inst, x.issuedToMemory = o.issuedToMemory,
           NEW p \in LSQs, p.requests = Put(q.requests, i, x), p.transfers = q.transfers,
           p.slots = q.slots, p.mem = q.mem, NEW done, MemoryOK(q, h, done),
           RequestOK(q, h, done, o) => RequestOK(p, h, done, x)
    PROVE  MemoryOK(p, h, done) /\ Follows(p, q)
<1>1. q \in LSQs /\ InOrder(q.requests) /\ q.requests \in Seq(Pending)
  BY GoodParts, QueueTypes DEF Ordered, QueuesInOrder
<1>2. ToSet(p.requests) = Others(q.requests, x.inst) \cup {x} /\ o \in ToSet(q.requests)
  BY <1>1, PutSet, InstTypes
<1>3. Stays(p, q, o, x) /\ RequestOK(p, h, done, x)
  BY <1>2 DEF Stays, MemoryOK
<1>4. AccessesRight(p, q, h, done) /\ KeepsIssued(p, q)
  BY <1>1, <1>2, <1>3, FrontRight
<1>5. KeepsFailed(p, q)
  BY TransfersKeep
<1> QED
  BY <1>1, <1>4, <1>5, QuietOK, SameFollows

LEMMA TransferPutMemory ==
    ASSUME prog \in Seq(Instructions), NEW h \in Nat, NEW q, Good(q, h),
           NEW i \in 1..Len(q.transfers), NEW o, o = q.transfers[i], NEW x \in Transferring,
           x.inst = o.inst, x.issuedToMemory = o.issuedToMemory, x.isLoad = o.isLoad,
           NEW p \in LSQs, p.transfers = Put(q.transfers, i, x), p.requests = q.requests,
           p.slots = q.slots, p.mem = q.mem, NEW done, MemoryOK(q, h, done),
           TransferOK(q, h, done, o) /\ KeepsFailed(p, q) => TransferOK(p, h, done, x)
    PROVE  MemoryOK(p, h, done) /\ Follows(p, q)
<1>1. q \in LSQs /\ InOrder(q.transfers) /\ q.transfers \in Seq(Transferring)
  BY GoodParts, QueueTypes DEF Ordered, QueuesInOrder
<1>2. ToSet(p.transfers) = Others(q.transfers, x.inst) \cup {x} /\ o \in ToSet(q.transfers)
  <2>1. \A y \in Transferring : y.inst \in Nat
    BY InstTypes
  <2> QED
    BY <1>1, <2>1, PutSet
<1>3. \A y \in ToSet(q.transfers) : y.inst = o.inst => y = o
  BY <1>1, <1>2, MemberAlone, InstTypes
<1>3a. KeepsFailed(p, q)
  BY <1>2, <1>3 DEF KeepsFailed, HasFailed, FailedStore, Others
<1>4. TransferOK(p, h, done, x)
  BY <1>2, <1>3a DEF MemoryOK
<1>5. AccessesRight(p, q, h, done)
  BY <1>2, <1>4 DEF AccessesRight, Others
<1>6. KeepsIssued(p, q)
  <2> SUFFICES ASSUME NEW m \in AccessesIssuedToMemory(q)
               PROVE  m \in AccessesIssuedToMemory(p)
    BY DEF KeepsIssued
  <2>1. PICK r \in ToSet(q.requests) \cup ToSet(q.transfers) : r.inst = m /\ r.issuedToMemory
    BY IssuedSet
  <2>2. r \in ToSet(p.requests) \cup ToSet(p.transfers) \/ (x.inst = m /\ x.issuedToMemory)
    BY <1>2, <1>3, <2>1 DEF Others
  <2>3. x \in ToSet(p.requests) \cup ToSet(p.transfers)
    BY <1>2
  <2> QED
    BY <2>1, <2>2, <2>3, IssuedSet
<1> QED
  BY <1>1, <1>3a, <1>5, <1>6, QuietOK, SameFollows

LEMMA TranslatedMemory ==
    ASSUME prog \in Seq(Instructions), NEW h \in Nat, NEW q, Good(q, h),
           NEW i \in 1..Len(q.requests), q.requests[i].state = "InTranslation",
           NEW f \in BOOLEAN, NEW p, p = Translated(q, i, f), NEW done, MemoryOK(q, h, done)
    PROVE  /\ MemoryOK(p, h, done) /\ Follows(p, q)
           /\ p.numAccessesIssuedToMemory = q.numAccessesIssuedToMemory
<1> PICK o, x : o = q.requests[i] /\ x = AsTranslated(o, f)
  OBVIOUS
<1>1. q \in LSQs /\ p \in LSQs
  BY TranslatedKept, GoodParts DEF Kept
<1>2. SameRest(p, q) /\ p.requests = Put(q.requests, i, x) /\ p.transfers = q.transfers
  BY <1>1, TranslatedIs
<1>3. /\ o \in Pending /\ x \in Pending /\ x.inst = o.inst /\ x.sent = 0 /\ o.sent = 0
      /\ x.state = "Translated" /\ ~Started(x)
      /\ x.issuedToMemory = o.issuedToMemory /\ x.skipped = o.skipped /\ x.data = o.data
  BY <1>1, TranslatedIs
<1>4. p.mem = q.mem /\ p.slots = q.slots
  BY <1>2 DEF SameRest
<1>5. RequestOK(q, h, done, o) => RequestOK(p, h, done, x)
  <2> SUFFICES ASSUME RequestOK(q, h, done, o) PROVE RequestOK(p, h, done, x)
    OBVIOUS
  <2>1. ~o.skipped /\ ~o.issuedToMemory
    BY DEF RequestOK
  <2>2. ~Started(o)
    BY <1>3 DEF Started
  <2>3. IsLoad(o.inst) => o.data = <<>>
    BY <2>2 DEF RequestOK
  <2>4. SentIsWritten(p, x)
    BY <1>3 DEF SentIsWritten
  <2> QED
    BY <1>3, <2>1, <2>3, <2>4 DEF RequestOK
<1>6. MemoryOK(p, h, done) /\ Follows(p, q)
  BY <1>1, <1>2, <1>3, <1>4, <1>5, RequestPutMemory
<1> QED
  BY <1>2, <1>6 DEF SameRest

LEMMA FollowsChain ==
    ASSUME prog \in Seq(Instructions), NEW o \in LSQs, NEW p \in LSQs, NEW q \in LSQs,
           Follows(p, q), Follows(o, p)
    PROVE  Follows(o, q)
<1>1. ASSUME NEW a \in Addrs PROVE q.mem[a] <= o.mem[a]
  <2>1. q.mem[a] <= p.mem[a] /\ p.mem[a] <= o.mem[a]
    BY DEF Follows
  <2> QED
    BY <2>1, MemoryTypes
<1>2. ASSUME NEW s \in ToSet(o.slots) PROVE \E t \in ToSet(q.slots) : t.inst = s.inst
  <2>1. PICK u \in ToSet(p.slots) : u.inst = s.inst
    BY DEF Follows
  <2> QED
    BY <2>1 DEF Follows
<1>3. KeepsFailed(o, q)
  BY DEF Follows, KeepsFailed
<1> QED
  BY <1>1, <1>2, <1>3 DEF Follows

LEMMA FinishMemory ==
    ASSUME prog \in Seq(Instructions), head \in Nat, NEW q, Good(q, head), Contiguous(q, head),
           NEW i \in 1..Len(q.requests), q.requests[i].state = "InTranslation",
           NEW f \in BOOLEAN, NEW done, Oldest(head, done), MemoryOK(q, head, done),
           IssuedOnPath(q), NEW p \in FinishTranslation(q, i, f)
    PROVE  MemoryKept(p, q, done)
<1> DEFINE t == Translated(q, i, f)
<1>1. Kept(t, q, head) /\ Kept(p, q, head)
  BY TranslatedKept, FinishKept
<1>2. p \in IF i = 1 THEN TryToSendToTransfers(t) ELSE {t}
  BY DEF FinishTranslation, Translated
<1>3. /\ MemoryOK(t, head, done) /\ Follows(t, q)
      /\ t.numAccessesIssuedToMemory = q.numAccessesIssuedToMemory
  BY TranslatedMemory
<1> HIDE DEF t
<1>4. IssuedOnPath(t)
  BY <1>3 DEF IssuedOnPath, AccessesInFlight
<1>5. p = t \/ p \in TryToSendToTransfers(t)
  BY <1>2
<1>6. CASE p = t
  BY <1>3, <1>4, <1>6 DEF MemoryKept
<1>7. CASE p \in TryToSendToTransfers(t)
  <2>1. Good(t, head) /\ Contiguous(t, head)
    BY <1>1 DEF Kept, Contiguous
  <2>2. MemoryKept(p, t, done)
    BY <1>3, <1>4, <1>7, <2>1, TransfersMemory
  <2>3. p \in LSQs /\ t \in LSQs /\ q \in LSQs
    BY <1>1, GoodParts DEF Kept
  <2>4. Follows(p, q)
    BY <1>3, <2>2, <2>3, FollowsChain DEF MemoryKept
  <2> QED
    BY <2>2, <2>4 DEF MemoryKept
<1> QED
  BY <1>5, <1>6, <1>7

LEMMA PushedMemory ==
    ASSUME prog \in Seq(Instructions), NEW h \in Nat, NEW q, Good(q, h), CanRequest(q),
           NEW n, Pushable(q, h, n), NEW state \in {"InTranslation", "Failed"},
           NEW p, p = Pushed(q, n, state), NEW done, MemoryOK(q, h, done)
    PROVE  /\ MemoryOK(p, h, done) /\ Follows(p, q)
           /\ p.numAccessesIssuedToMemory = q.numAccessesIssuedToMemory
<1> PICK x : x = NewRequest(n, state)
  OBVIOUS
<1>1. q \in LSQs /\ p \in LSQs
  BY PushedGrows, GoodParts DEF Grown
<1>2. x \in Pending /\ x.inst = n /\ x.state = state /\ ~Started(x) /\ x.issuedToMemory = FALSE
  <2>1. n \in Insts /\ IsMemRef(n)
    BY DEF Pushable
  <2> QED
    BY <2>1, NewIsPending, Zenon
<1>3. x.skipped = FALSE /\ x.sent = 0 /\ x.data = <<>>
  BY DEF NewRequest
<1>4. /\ p.requests = Append(q.requests, x) /\ p.transfers = q.transfers /\ p.slots = q.slots
      /\ p.mem = q.mem /\ p.numAccessesIssuedToMemory = q.numAccessesIssuedToMemory
  BY <1>1 DEF Pushed, LSQs
<1>5. ToSet(p.requests) = ToSet(q.requests) \cup {x}
  BY <1>1, <1>2, <1>4, AppendSet, QueueTypes
<1>6. RequestOK(p, h, done, x)
  <2>1. SentIsWritten(p, x)
    BY <1>3 DEF SentIsWritten
  <2> QED
    BY <1>2, <1>3, <2>1 DEF RequestOK
<1>7. AccessesRight(p, q, h, done)
  BY <1>4, <1>5, <1>6 DEF AccessesRight
<1>8. KeepsIssued(p, q)
  BY <1>4, <1>5 DEF KeepsIssued, AccessesIssuedToMemory
<1> QED
  BY <1>1, <1>4, <1>7, <1>8, QuietOK, SameFollows, TransfersKeep

LEMMA PushMemory ==
    ASSUME prog \in Seq(Instructions), head \in Nat, NEW q, Good(q, head), Contiguous(q, head),
           CanRequest(q), NEW n, Pushable(q, head, n),
           \A m \in head..(n - 1) : IsMemRef(m) => m \in Held(q),
           NEW done, Oldest(head, done), MemoryOK(q, head, done),
           IssuedOnPath(q), NEW p \in PushRequest(q, n)
    PROVE  MemoryKept(p, q, done)
<1> DEFINE t == Pushed(q, n, "InTranslation")
           u == Pushed(q, n, "Failed")
           i == Len(q.requests) + 1
<1>1. /\ Grown(t, q, head, n) /\ i \in 1..Len(t.requests)
      /\ t.requests[i].state = "InTranslation"
  BY PushedGrows
<1>2. \/ \E f \in BOOLEAN : p \in FinishTranslation(t, i, f)
      \/ p = t
      \/ p = u
  BY PushCases
<1>3. /\ MemoryOK(t, head, done) /\ Follows(t, q)
      /\ t.numAccessesIssuedToMemory = q.numAccessesIssuedToMemory
  BY PushedMemory
<1>4. /\ MemoryOK(u, head, done) /\ Follows(u, q)
      /\ u.numAccessesIssuedToMemory = q.numAccessesIssuedToMemory
  BY PushedMemory
<1> HIDE DEF t, u, i
<1>5. IssuedOnPath(t) /\ IssuedOnPath(u)
  BY <1>3, <1>4 DEF IssuedOnPath, AccessesInFlight
<1>6. CASE \E f \in BOOLEAN : p \in FinishTranslation(t, i, f)
  <2>1. PICK f \in BOOLEAN : p \in FinishTranslation(t, i, f)
    BY <1>6
  <2>2. Good(t, head) /\ Held(t) = Held(q) \cup {n}
    BY <1>1 DEF Grown
  <2>3. Contiguous(t, head)
    BY <2>2 DEF Contiguous
  <2>4. MemoryKept(p, t, done) /\ Kept(p, t, head)
    BY <1>1, <1>3, <1>5, <2>1, <2>2, <2>3, FinishMemory, FinishKept
  <2>5. p \in LSQs /\ t \in LSQs /\ q \in LSQs
    BY <2>2, <2>4, GoodParts DEF Kept
  <2>6. Follows(p, q)
    BY <1>3, <2>4, <2>5, FollowsChain DEF MemoryKept
  <2> QED
    BY <2>4, <2>6 DEF MemoryKept
<1> QED
  BY <1>2, <1>3, <1>4, <1>5, <1>6 DEF MemoryKept

----------------------------------------------------------------------------
(* The store buffer. *)

\* A step of the store buffer: requests and transfers stay.
LEMMA BufferOK ==
    ASSUME prog \in Seq(Instructions), NEW q \in LSQs, NEW p \in LSQs, Follows(p, q),
           p.requests = q.requests, p.transfers = q.transfers,
           NEW n, NEW done, MemoryOK(q, n, done),
           \A s \in ToSet(p.slots) : SlotOK(p, done, s),
           \A a \in Addrs : LineOK(p, n, done, a)
    PROVE  MemoryOK(p, n, done)
<1>1. AccessesRight(p, q, n, done)
  BY DEF AccessesRight
<1>2. /\ \A r \in ToSet(p.requests) : RequestOK(p, n, done, r)
      /\ \A r \in ToSet(p.transfers) : TransferOK(p, n, done, r)
  BY <1>1, AccessesKept
<1> QED
  BY <1>2 DEF MemoryOK

\* Slots go: barriers, and stores that are in memory and pass no older one.
SlotsGo(p, q) ==
    /\ p.requests = q.requests /\ p.transfers = q.transfers /\ p.mem = q.mem
    /\ ToSet(p.slots) \subseteq ToSet(q.slots)
    /\ \A t \in ToSet(q.slots) \ ToSet(p.slots) : IsStore(t.inst) =>
         /\ \A a \in ToSet(Lines(t.inst)) : q.mem[a] >= t.inst
         /\ \A s \in ToSet(p.slots) : s.inst < t.inst => ~Overlaps(s, t.inst)

LEMMA SlotsGoOK ==
    ASSUME prog \in Seq(Instructions), NEW q \in LSQs, NEW p \in LSQs, SlotsGo(p, q),
           NEW n, NEW done, MemoryOK(q, n, done)
    PROVE  MemoryOK(p, n, done) /\ Follows(p, q)
<1>1. /\ p.requests = q.requests /\ p.transfers = q.transfers /\ p.mem = q.mem
      /\ ToSet(p.slots) \subseteq ToSet(q.slots)
      /\ \A t \in ToSet(q.slots) \ ToSet(p.slots) : IsStore(t.inst) =>
           /\ \A a \in ToSet(Lines(t.inst)) : q.mem[a] >= t.inst
           /\ \A s \in ToSet(p.slots) : s.inst < t.inst => ~Overlaps(s, t.inst)
  BY DEF SlotsGo
<1>2. Follows(p, q)
  <2>1. \A a \in Addrs : q.mem[a] <= p.mem[a]
    BY <1>1, MemoryTypes
  <2> QED
    BY <1>1, <2>1, TransfersKeep DEF Follows
<1>3. ASSUME NEW s \in ToSet(p.slots) PROVE SlotOK(p, done, s)
  <2>1. SlotOK(q, done, s) /\ s \in Slot /\ s.inst \in Nat
    BY <1>1, QueueTypes, Members, RequestFacts DEF MemoryOK
  <2>2. s.inst \in done /\ SentIsWritten(p, s)
    BY <1>1, <2>1 DEF SlotOK, SentIsWritten
  <2>3. Unissued(s) => /\ \A a \in ToSet(Lines(s.inst)) : p.mem[a] <= s.inst
                       /\ \A t \in ToSet(p.slots) : SlotStarted(t) => t.inst <= s.inst
    BY <1>1, <2>1 DEF SlotOK
  <2>4. ASSUME NEW m \in done, IsStore(m), m > s.inst, Overlaps(s, m)
        PROVE  \E t \in ToSet(p.slots) : t.inst = m
    <3>1. PICK t \in ToSet(q.slots) : t.inst = m
      BY <2>1, <2>4 DEF SlotOK
    <3>2. t \in ToSet(p.slots)
      <4> SUFFICES ASSUME t \notin ToSet(p.slots) PROVE FALSE
        OBVIOUS
      <4>1. ~(s.inst < t.inst)
        BY <1>1, <2>4, <3>1
      <4>2. t.inst \in Nat
        BY <3>1, QueueTypes, Members, RequestFacts
      <4> QED
        BY <2>1, <2>4, <3>1, <4>1, <4>2
    <3> QED
      BY <3>1, <3>2
  <2> QED
    BY <2>2, <2>3, <2>4 DEF SlotOK
<1>4. ASSUME NEW a \in Addrs PROVE LineOK(p, n, done, a)
  <2>1. LineOK(q, n, done, a)
    BY DEF MemoryOK
  <2>2. AccessesIssuedToMemory(p) = AccessesIssuedToMemory(q)
    BY <1>1 DEF AccessesIssuedToMemory
  <2>3. ASSUME NEW m \in done, Writes(m, a)
        PROVE  p.mem[a] >= m \/ \E s \in ToSet(p.slots) : s.inst = m
    <3>1. q.mem[a] >= m \/ \E s \in ToSet(q.slots) : s.inst = m
      BY <2>1, <2>3 DEF LineOK
    <3>2. CASE q.mem[a] >= m
      BY <1>1, <3>2
    <3>3. CASE \E s \in ToSet(q.slots) : s.inst = m
      <4>1. PICK s \in ToSet(q.slots) : s.inst = m
        BY <3>3
      <4>2. IsStore(s.inst) /\ a \in ToSet(Lines(s.inst))
        BY <2>3, <4>1 DEF Writes
      <4>3. s \notin ToSet(p.slots) => q.mem[a] >= s.inst
        BY <1>1, <4>2
      <4> QED
        BY <1>1, <4>1, <4>3
    <3> QED
      BY <3>1, <3>2, <3>3
  <2> QED
    BY <1>1, <2>1, <2>2, <2>3 DEF LineOK
<1> QED
  BY <1>1, <1>2, <1>3, <1>4, BufferOK

\* The barriers at the front of the store buffer go.
LEMMA ClearLeadingMemory ==
    ASSUME prog \in Seq(Instructions), NEW h \in Nat, NEW q, Good(q, h),
           q.state = "MemoryRunning", NEW p, p = ClearLeadingBarriers(q),
           NEW done, MemoryOK(q, h, done)
    PROVE  /\ MemoryOK(p, h, done) /\ Follows(p, q)
           /\ p.numAccessesIssuedToMemory = q.numAccessesIssuedToMemory
<1>1. q \in LSQs /\ p \in LSQs
  BY ClearLeadingEased, GoodParts DEF Eased
<1>2. CASE p = q
  BY <1>1, <1>2, SameFollows, TransfersKeep
<1>3. CASE \E k \in Nat :
             /\ Barriers(q, k)
             /\ p = [ClearMemBarrier(q, q.slots[k].inst) EXCEPT
                       !.slots = SubSeq(q.slots, k + 1, Len(q.slots)),
                       !.numUnissuedAccesses = q.numUnissuedAccesses - k]
  <2>1. PICK k \in Nat :
             /\ Barriers(q, k)
             /\ p = [ClearMemBarrier(q, q.slots[k].inst) EXCEPT
                       !.slots = SubSeq(q.slots, k + 1, Len(q.slots)),
                       !.numUnissuedAccesses = q.numUnissuedAccesses - k]
    BY <1>3
  <2> PICK z : z = ClearMemBarrier(q, q.slots[k].inst)
    OBVIOUS
  <2>2. /\ z \in LSQs /\ z.requests = q.requests /\ z.transfers = q.transfers
        /\ z.numAccessesIssuedToMemory = q.numAccessesIssuedToMemory
    BY <1>1, ClearMemBarrierIs
  <2>3. z.mem = q.mem
    BY <1>1 DEF ClearMemBarrier, LSQs
  <2>4. /\ p.requests = q.requests /\ p.transfers = q.transfers /\ p.mem = q.mem
        /\ p.numAccessesIssuedToMemory = q.numAccessesIssuedToMemory
        /\ p.slots = SubSeq(q.slots, k + 1, Len(q.slots))
    <3>1. p = [z EXCEPT !.slots = SubSeq(q.slots, k + 1, Len(q.slots)),
                        !.numUnissuedAccesses = q.numUnissuedAccesses - k]
      BY <2>1
    <3> QED
      BY <2>2, <2>3, <3>1 DEF LSQs
  <2>5. q.slots \in Seq(Slot) /\ InOrder(q.slots) /\ p.slots \in Seq(Slot)
    BY <1>1, GoodParts, QueueTypes DEF Ordered, QueuesInOrder
  <2>6. k \in 0..Len(q.slots) /\ \A i \in 1..k : IsBarrier(q.slots[i].inst)
    BY <2>1 DEF Barriers
  <2>7. From(p.slots, q.slots) /\ WithoutFirst(p.slots, q.slots, k)
    <3>1. \A x \in Slot : x.inst \in Nat
      BY InstTypes
    <3> QED
      BY <2>4, <2>5, <2>6, <3>1, Dropped
  <2>8. ToSet(p.slots) \subseteq ToSet(q.slots)
    <3>1. /\ ToSet(p.slots) = {p.slots[i] : i \in 1..Len(p.slots)}
          /\ ToSet(q.slots) = {q.slots[i] : i \in 1..Len(q.slots)}
      BY <2>5, Members
    <3> QED
      BY <2>7, <3>1 DEF From
  <2>9. ASSUME NEW t \in ToSet(q.slots) \ ToSet(p.slots) PROVE ~IsStore(t.inst)
    <3>1. t \in Entry(q.slots, t.inst) /\ t \notin Entry(p.slots, t.inst)
      BY <2>5, MemberEntry
    <3>2. t.inst \in FirstInsts(q.slots, k)
      BY <2>7, <3>1 DEF WithoutFirst
    <3>3. IsBarrier(t.inst)
      BY <2>6, <3>2 DEF FirstInsts
    <3> QED
      BY <3>3 DEF IsBarrier, IsStore
  <2>10. SlotsGo(p, q)
    BY <2>4, <2>8, <2>9 DEF SlotsGo
  <2> QED
    BY <1>1, <2>4, <2>10, SlotsGoOK
<1> QED
  BY <1>1, <1>2, <1>3, LeadingBarriers

\* No store before o has a packet that was not sent.
FirstUnissued(q, o) == \A s \in ToSet(q.slots) : Unissued(s) => o.inst <= s.inst

\* Slot o becomes x: something of it was answered, refused, or accepted.
SlotAdvances(p, q, o, x) ==
    /\ x.inst = o.inst /\ p.requests = q.requests /\ p.transfers = q.transfers
    /\ ToSet(p.slots) = Others(q.slots, o.inst) \cup {x}
    /\ Unissued(x) => Unissued(o)
    /\ \/ /\ p.mem = q.mem /\ x.sent = o.sent
          /\ SlotStarted(x) => SlotStarted(o) \/ FirstUnissued(q, o)
       \/ /\ IsStore(o.inst) /\ o.sent < NumFragments(o.inst)
          /\ p.mem = [q.mem EXCEPT ![NextLine(o)] = o.inst] /\ x.sent = o.sent + 1
          /\ FirstUnissued(q, o)

LEMMA AdvancedLines ==
    ASSUME prog \in Seq(Instructions), NEW q \in LSQs, NEW p \in LSQs,
           NEW o \in ToSet(q.slots), o \in Slot, NEW x, SlotAdvances(p, q, o, x),
           NEW done, SlotOK(q, done, o)
    PROVE  /\ \A b \in Addrs :
                \/ p.mem[b] = q.mem[b]
                \/ /\ p.mem[b] = o.inst /\ q.mem[b] <= o.inst
                   /\ Writes(o.inst, b) /\ FirstUnissued(q, o)
           /\ x.sent = o.sent + 1 /\ x.sent # o.sent => p.mem[NextLine(o)] = o.inst
<1>1. o.inst \in Insts /\ o.sent \in Nat /\ NumFragments(o.inst) \in Nat
  BY RequestFacts
<1>2. o.sent + 1 # o.sent
  BY <1>1
<1>3. CASE p.mem = q.mem /\ x.sent = o.sent
  BY <1>2, <1>3
<1>4. CASE /\ IsStore(o.inst) /\ o.sent < NumFragments(o.inst)
           /\ p.mem = [q.mem EXCEPT ![NextLine(o)] = o.inst] /\ x.sent = o.sent + 1
           /\ FirstUnissued(q, o)
  <2> DEFINE a == NextLine(o)
             k == o.sent
             f == NumFragments(o.inst)
  <2>1. k + 1 \in 1..f
    <3>1. k \in Nat /\ f \in Nat /\ k < f
      BY <1>1, <1>4
    <3> HIDE DEF k, f
    <3> QED
      BY <3>1
  <2>2. a \in Addrs /\ a \in ToSet(Lines(o.inst))
    BY <1>1, <2>1, LineTypes DEF NextLine
  <2>3. Unissued(o)
    <3>1. k # f
      <4>1. k \in Nat /\ f \in Nat /\ k < f
        BY <1>1, <1>4
      <4> HIDE DEF k, f
      <4> QED
        BY <4>1
    <3> QED
      BY <3>1 DEF Unissued, SentAllPackets, NumFragments
  <2>4. q.mem[a] <= o.inst
    BY <2>2, <2>3 DEF SlotOK
  <2> HIDE DEF a
  <2>5. q.mem \in [Addrs -> 0..Len(prog)]
    BY QueueTypes
  <2>6. \A b \in Addrs : p.mem[b] = IF b = a THEN o.inst ELSE q.mem[b]
    BY <1>4, <2>5 DEF a
  <2>7. p.mem[a] = o.inst
    BY <2>2, <2>6
  <2> QED
    BY <1>4, <2>2, <2>4, <2>6, <2>7 DEF Writes, a
<1> QED
  BY <1>3, <1>4 DEF SlotAdvances

LEMMA AdvancedOK ==
    ASSUME prog \in Seq(Instructions), NEW q \in LSQs, NEW p \in LSQs,
           NEW o \in ToSet(q.slots), NEW x, SlotAdvances(p, q, o, x),
           NEW n, NEW done, Oldest(n, done), MemoryOK(q, n, done)
    PROVE  MemoryOK(p, n, done) /\ Follows(p, q)
<1>1. /\ x.inst = o.inst /\ p.requests = q.requests /\ p.transfers = q.transfers
      /\ ToSet(p.slots) = Others(q.slots, o.inst) \cup {x}
      /\ Unissued(x) => Unissued(o)
      /\ SlotStarted(x) => SlotStarted(o) \/ FirstUnissued(q, o)
      /\ \/ p.mem = q.mem /\ x.sent = o.sent
         \/ x.sent = o.sent + 1 /\ o.sent < NumFragments(o.inst)
  BY DEF SlotAdvances
<1>2. \A s \in ToSet(q.slots) : SlotOK(q, done, s) /\ s \in Slot /\ s.inst \in Nat /\ s.sent \in Nat
  BY QueueTypes, Members, RequestFacts DEF MemoryOK
<1>3. /\ \A b \in Addrs :
           \/ p.mem[b] = q.mem[b]
           \/ /\ p.mem[b] = o.inst /\ q.mem[b] <= o.inst
              /\ Writes(o.inst, b) /\ FirstUnissued(q, o)
      /\ x.sent = o.sent + 1 /\ x.sent # o.sent => p.mem[NextLine(o)] = o.inst
  BY <1>2, AdvancedLines
<1>4. Follows(p, q)
  <2>1. \A b \in Addrs : q.mem[b] <= p.mem[b]
    BY <1>3, MemoryTypes
  <2>2. \A s \in ToSet(p.slots) : \E t \in ToSet(q.slots) : t.inst = s.inst
    BY <1>1 DEF Others
  <2> QED
    BY <1>1, <2>1, <2>2, TransfersKeep DEF Follows
<1>5. \A t \in ToSet(q.slots) : \E s \in ToSet(p.slots) : s.inst = t.inst
  BY <1>1 DEF Others
<1>6. SentIsWritten(p, x)
  <2>1. SentIsWritten(q, o)
    BY <1>2 DEF SlotOK
  <2>2. CASE p.mem = q.mem /\ x.sent = o.sent
    BY <1>1, <2>1, <2>2 DEF SentIsWritten
  <2>3. CASE x.sent = o.sent + 1 /\ o.sent < NumFragments(o.inst)
    <3>1. x.sent # o.sent
      BY <1>2, <2>3
    <3> QED
      BY <1>1, <1>2, <1>3, <1>4, <2>1, <2>3, <3>1, TakenWritten
  <2> QED
    BY <1>1, <2>2, <2>3
<1>7. ASSUME NEW s \in ToSet(p.slots) PROVE SlotOK(p, done, s)
  <2>1. PICK u \in ToSet(q.slots) : /\ u.inst = s.inst /\ (Unissued(s) => Unissued(u))
                                    /\ s = x \/ s = u
    BY <1>1 DEF Others
  <2>2. /\ u.inst \in done /\ SentIsWritten(q, u)
        /\ Unissued(u) => /\ \A a \in ToSet(Lines(u.inst)) : q.mem[a] <= u.inst
                          /\ \A t \in ToSet(q.slots) : SlotStarted(t) => t.inst <= u.inst
        /\ \A m \in done : IsStore(m) /\ m > u.inst /\ Overlaps(u, m)
             => \E t \in ToSet(q.slots) : t.inst = m
        /\ u \in Slot /\ u.inst \in Nat
    BY <1>2 DEF SlotOK
  <2>3. s.inst \in done /\ SentIsWritten(p, s)
    BY <1>4, <1>6, <2>1, <2>2, WrittenKept
  <2>4. ASSUME Unissued(s), NEW a \in ToSet(Lines(s.inst)) PROVE p.mem[a] <= s.inst
    <3>1. a \in Addrs
      BY <2>1, <2>2, RequestFacts, LineTypes
    <3>2. CASE p.mem[a] = q.mem[a]
      BY <2>1, <2>2, <2>4, <3>2
    <3>3. CASE p.mem[a] = o.inst /\ FirstUnissued(q, o)
      BY <2>1, <2>4, <3>3 DEF FirstUnissued
    <3> QED
      BY <1>3, <3>1, <3>2, <3>3
  <2>5. ASSUME Unissued(s), NEW t \in ToSet(p.slots), SlotStarted(t) PROVE t.inst <= s.inst
    <3>1. CASE t \in ToSet(q.slots)
      BY <2>1, <2>2, <2>5, <3>1
    <3>2. CASE t = x
      <4>1. CASE SlotStarted(o)
        BY <1>1, <2>1, <2>2, <2>5, <3>2, <4>1
      <4>2. CASE FirstUnissued(q, o)
        BY <1>1, <2>1, <2>5, <3>2, <4>2 DEF FirstUnissued
      <4> QED
        BY <1>1, <2>5, <3>2, <4>1, <4>2
    <3> QED
      BY <1>1, <3>1, <3>2 DEF Others
  <2>6. ASSUME NEW m \in done, IsStore(m), m > s.inst, Overlaps(s, m)
        PROVE  \E t \in ToSet(p.slots) : t.inst = m
    <3>1. Overlaps(u, m)
      BY <2>1, <2>6 DEF Overlaps
    <3>2. PICK t \in ToSet(q.slots) : t.inst = m
      BY <2>1, <2>2, <2>6, <3>1
    <3> QED
      BY <1>5, <3>2
  <2> QED
    BY <2>3, <2>4, <2>5, <2>6 DEF SlotOK
<1>8. ASSUME NEW a \in Addrs PROVE LineOK(p, n, done, a)
  <2>1. LineOK(q, n, done, a)
    BY DEF MemoryOK
  <2>2. AccessesIssuedToMemory(p) = AccessesIssuedToMemory(q)
    BY <1>1 DEF AccessesIssuedToMemory
  <2>3. o.inst \in done
    BY <1>2 DEF SlotOK
  <2>4. p.mem[a] = 0 \/ Writes(p.mem[a], a)
    BY <1>3, <2>1 DEF LineOK
  <2>5. p.mem[a] \in done \cup {0} \/ (p.mem[a] = n /\ n \in AccessesIssuedToMemory(p))
    BY <1>3, <2>1, <2>2, <2>3 DEF LineOK
  <2>6. ASSUME NEW m \in done, Writes(m, a)
        PROVE  p.mem[a] >= m \/ \E s \in ToSet(p.slots) : s.inst = m
    <3>1. q.mem[a] >= m \/ \E s \in ToSet(q.slots) : s.inst = m
      BY <2>1, <2>6 DEF LineOK
    <3>2. CASE \E s \in ToSet(q.slots) : s.inst = m
      BY <1>5, <3>2
    <3>3. CASE q.mem[a] >= m
      <4>1. CASE p.mem[a] = q.mem[a]
        BY <3>3, <4>1
      <4>2. CASE p.mem[a] = o.inst
        <5>1. q.mem[a] <= p.mem[a]
          BY <1>4 DEF Follows
        <5>2. m \in Nat /\ p.mem[a] \in Nat /\ q.mem[a] \in Nat
          BY MemoryTypes DEF Oldest
        <5> QED
          BY <3>3, <5>1, <5>2
      <4> QED
        BY <1>3, <4>1, <4>2
    <3> QED
      BY <3>1, <3>2, <3>3
  <2> QED
    BY <2>4, <2>5, <2>6 DEF LineOK
<1> QED
  BY <1>1, <1>4, <1>7, <1>8, BufferOK

\* The store buffer sends a packet of slot i, after the stores before it.
LEMMA SendSlotMemory ==
    ASSUME prog \in Seq(Instructions), NEW h \in Nat, NEW q, Good(q, h),
           NEW i \in 1..Len(q.slots), NEW o, o = q.slots[i], NEW r \in Slot, SendableSlot(r, o),
           NEW c \in LSQs, SameQueues(c, q), c.mem = q.mem, FirstUnissued(q, o),
           NEW done, Oldest(h, done), MemoryOK(q, h, done),
           NEW t \in TryToSend(c, r), NEW p \in LSQs, p = SlotWith(t.q, i, t.r, t.all)
    PROVE  /\ MemoryOK(p, h, done) /\ Follows(p, q)
           /\ p.numAccessesIssuedToMemory = q.numAccessesIssuedToMemory
<1>1. /\ q \in LSQs /\ InOrder(q.slots) /\ q.slots \in Seq(Slot) /\ o \in Slot
      /\ c.slots = q.slots
  BY GoodParts, QueueTypes DEF Ordered, QueuesInOrder, SameQueues
<1>2. r \in Request /\ r.sent < NumFragments(r.inst) /\ r.sent = o.sent /\ r.inst = o.inst
      /\ IsStore(o.inst) /\ o.sent < NumFragments(o.inst) /\ o.sent \in Nat /\ o.inst \in Nat
  BY <1>1, RequestFacts DEF SendableSlot
<1>3. t.q \in LSQs /\ SameQueues(t.q, c) /\ t.r \in Request /\ SameAccess(t.r, r)
  BY <1>2, Sending
<1>4. NotSent(t, c, r) \/ AcceptedByMemory(t, c, r) \/ RefusedByMemory(t, c, r)
  BY <1>2, SendingMemory
<1>5. t.all \in BOOLEAN
  BY <1>4 DEF NotSent, AcceptedByMemory, RefusedByMemory, Accepted, Refused
<1>6. t.q.slots = q.slots /\ t.q.requests = q.requests /\ t.q.transfers = q.transfers
      /\ t.q.numAccessesIssuedToMemory = q.numAccessesIssuedToMemory
  BY <1>3 DEF SameQueues
<1>7. /\ SameFront(p, t.q) /\ p.slots = Put(t.q.slots, i, t.r)
      /\ p.numAccessesIssuedToMemory = t.q.numAccessesIssuedToMemory
  <2>1. i \in 1..Len(t.q.slots)
    BY <1>6
  <2> QED
    BY <1>3, <1>5, <2>1, SlotSentIs
<1>8. p.mem = t.q.mem
  BY <1>3, IsRecord DEF SlotWith, LSQs
<1>9. /\ Unissued(o) /\ Unissued(r) /\ InStoreBuffer(r)
      /\ t.r.sent = r.sent /\ t.r.state = "StoreBufferNeedsRetry" => t.r \in Slot
      /\ t.r.sent = r.sent + 1 /\ t.r.state = "StoreBufferIssuing" => t.r \in Slot
  BY <1>1, <1>3, SentSlot
<1>10. t.r \in Slot /\ t.r.inst = o.inst
  <2>1. t.r.inst = o.inst
    BY <1>2, <1>3 DEF SameAccess
  <2>2. CASE NotSent(t, c, r)
    BY <2>1, <2>2 DEF NotSent
  <2>3. CASE AcceptedByMemory(t, c, r)
    BY <1>9, <2>1, <2>3 DEF AcceptedByMemory, Accepted
  <2>4. CASE RefusedByMemory(t, c, r)
    BY <1>9, <2>1, <2>4 DEF RefusedByMemory, Refused
  <2> QED
    BY <1>4, <2>2, <2>3, <2>4
<1>11. ToSet(p.slots) = Others(q.slots, o.inst) \cup {t.r} /\ o \in ToSet(q.slots)
  <2>1. \A y \in Slot : y.inst \in Nat
    BY InstTypes
  <2> QED
    BY <1>1, <1>6, <1>7, <1>10, <2>1, PutSet
<1>12. \/ /\ p.mem = q.mem /\ t.r.sent = o.sent
          /\ SlotStarted(t.r) => SlotStarted(o) \/ FirstUnissued(q, o)
       \/ /\ IsStore(o.inst) /\ o.sent < NumFragments(o.inst)
          /\ p.mem = [q.mem EXCEPT ![NextLine(o)] = o.inst] /\ t.r.sent = o.sent + 1
          /\ FirstUnissued(q, o)
  <2>1. CASE NotSent(t, c, r)
    BY <1>2, <1>8, <2>1 DEF NotSent
  <2>2. CASE AcceptedByMemory(t, c, r)
    <3>1. NextLine(r) = NextLine(o)
      BY <1>2 DEF NextLine
    <3> QED
      BY <1>2, <1>8, <2>2, <3>1 DEF AcceptedByMemory, Accepted
  <2>3. CASE RefusedByMemory(t, c, r)
    BY <1>2, <1>8, <2>3 DEF RefusedByMemory, Refused
  <2> QED
    BY <1>4, <2>1, <2>2, <2>3
<1>13. SlotAdvances(p, q, o, t.r)
  BY <1>6, <1>7, <1>9, <1>10, <1>11, <1>12 DEF SlotAdvances, SameFront
<1>14. MemoryOK(p, h, done) /\ Follows(p, q)
  BY <1>1, <1>11, <1>13, AdvancedOK
<1> QED
  BY <1>6, <1>7, <1>14

----------------------------------------------------------------------------
(* StoreBuffer::step. *)

AllIssued(q, k) == \A j \in 1..k : ~Unissued(q.slots[j])

\* The loop may send another packet.
GoesOn(x) == x.issued /\ x.count # StoresPerCycle /\ CanSendToMemorySystem(x.q)

\* The states of the loop after its turns at the slots 1 to k, which started with queue c.
MemoryLoop(c, h, done, k) ==
    {x \in LoopState(c, h) :
       /\ MemoryOK(x.q, h, done) /\ Follows(x.q, c)
       /\ x.q.numAccessesIssuedToMemory = c.numAccessesIssuedToMemory
       /\ GoesOn(x) => AllIssued(x.q, k)}

\* When the slots before it have been sent, a slot is the next to be sent.
LEMMA NextToSend ==
    ASSUME prog \in Seq(Instructions), NEW h \in Nat, NEW q, Good(q, h),
           NEW k \in 1..Len(q.slots), AllIssued(q, k - 1)
    PROVE  FirstUnissued(q, q.slots[k])
<1>1. q \in LSQs /\ InOrder(q.slots) /\ q.slots \in Seq(Slot)
  BY GoodParts, QueueTypes DEF Ordered, QueuesInOrder
<1>2. ToSet(q.slots) = {q.slots[j] : j \in 1..Len(q.slots)}
  BY <1>1, Members
<1> SUFFICES ASSUME NEW j \in 1..Len(q.slots), Unissued(q.slots[j])
             PROVE  q.slots[k].inst <= q.slots[j].inst
  BY <1>2 DEF FirstUnissued
<1>3. Len(q.slots) \in Nat /\ q.slots[k] \in Slot /\ q.slots[j] \in Slot
  BY <1>1, LenProperties
<1>4. q.slots[k].inst \in Nat /\ q.slots[j].inst \in Nat
  BY <1>3, InstTypes
<1>5. ~(j \in 1..(k - 1))
  BY DEF AllIssued
<1>6. k = j \/ k < j
  BY <1>3, <1>5
<1>7. k < j => q.slots[k].inst < q.slots[j].inst
  BY <1>1 DEF InOrder
<1> QED
  BY <1>4, <1>6, <1>7

LEMMA StepSlotMemory ==
    ASSUME prog \in Seq(Instructions), NEW h \in Nat, NEW c \in LSQs, NEW done, Oldest(h, done),
           NEW k \in 1..Len(c.slots), NEW x \in MemoryLoop(c, h, done, k - 1),
           NEW y \in StepSlot(x, k)
    PROVE  y \in MemoryLoop(c, h, done, k)
<1>1. x \in LoopState(c, h)
  BY DEF MemoryLoop
<1>2. y \in LoopState(c, h)
  BY <1>1, StepSlotKept
<1>3. PICK q : q = x.q
  OBVIOUS
<1>4. /\ MemoryOK(q, h, done) /\ Follows(q, c)
      /\ q.numAccessesIssuedToMemory = c.numAccessesIssuedToMemory
      /\ GoesOn(x) => AllIssued(q, k - 1)
  BY <1>3 DEF MemoryLoop
<1>5. /\ Good(q, h) /\ Len(q.slots) = Len(c.slots) /\ q \in LSQs /\ q.slots \in Seq(Slot)
      /\ Len(q.slots) \in Nat
  BY <1>1, <1>3, GoodParts, QueueTypes, LenProperties DEF LoopState, Kept
<1>6. k \in 1..Len(q.slots) /\ k \in Nat /\ q.slots[k] \in Slot
  BY <1>5
<1>7. CASE y = x /\ ~GoesOn(x)
  BY <1>2, <1>3, <1>4, <1>7 DEF MemoryLoop
<1>8. CASE y = x /\ ~Unissued(q.slots[k])
  <2>1. GoesOn(x) => AllIssued(q, k)
    <3> SUFFICES ASSUME GoesOn(x), NEW j \in 1..k PROVE ~Unissued(q.slots[j])
      BY DEF AllIssued
    <3>1. j \in 1..(k - 1) \/ j = k
      BY <1>6
    <3> QED
      BY <1>4, <1>8, <3>1 DEF AllIssued
  <2> QED
    BY <1>2, <1>3, <1>4, <1>8, <2>1 DEF MemoryLoop
<1>9. CASE y = [x EXCEPT !.issued = FALSE]
  <2>1. y.q = q /\ ~y.issued
    BY <1>1, <1>3, <1>9 DEF LoopState
  <2> QED
    BY <1>2, <1>4, <2>1 DEF MemoryLoop, GoesOn
<1>10. ASSUME GoesOn(x), ~IsBarrier(q.slots[k].inst),
              ~(q.slots[k].state = "StoreBufferIssuing" /\ SentAllPackets(q.slots[k])),
              NEW t \in TryToSend(q, q.slots[k]),
              y = [q |-> SlotWith(t.q, k, t.r, t.all), issued |-> t.all,
                   count |-> IF t.all THEN x.count + 1 ELSE x.count]
       PROVE  y \in MemoryLoop(c, h, done, k)
  <2>1. PICK o : o = q.slots[k]
    OBVIOUS
  <2>2. PICK p : p = SlotWith(t.q, k, t.r, t.all)
    OBVIOUS
  <2>3. CanSendToMemorySystem(q)
    BY <1>3, <1>10 DEF GoesOn
  <2>4. o \in Slot /\ SendableSlot(o, o) /\ OnlyWaits(q, k) /\ q.state = "MemoryRunning"
    BY <1>5, <1>6, <1>10, <2>1, <2>3, StepSendable
  <2>5. SameQueues(q, q) /\ FirstUnissued(q, o) /\ t \in TryToSend(q, o)
    BY <1>4, <1>5, <1>6, <1>10, <2>1, NextToSend DEF SameQueues
  <2>6. Kept(p, q, h)
    BY <1>5, <1>6, <2>1, <2>2, <2>4, <2>5, SendSlot
  <2>7. p \in LSQs
    BY <2>6, GoodParts DEF Kept
  <2>8. /\ MemoryOK(p, h, done) /\ Follows(p, q)
        /\ p.numAccessesIssuedToMemory = q.numAccessesIssuedToMemory
    BY <1>4, <1>5, <1>6, <2>1, <2>2, <2>4, <2>5, <2>7, SendSlotMemory
  <2>9. Follows(p, c)
    BY <1>4, <1>5, <2>7, <2>8, FollowsChain
  <2>10. y.q = p /\ y.issued = t.all
    BY <1>10, <2>2
  <2>11. /\ o \in Request /\ o.sent < NumFragments(o.inst) /\ t.q \in LSQs /\ t.q.slots = q.slots
         /\ t.r \in Request /\ SameAccess(t.r, o)
         /\ NotSent(t, q, o) \/ Accepted(t, q, o) \/ Refused(t, q, o)
    <3>1. o \in Request /\ o.sent < NumFragments(o.inst)
      BY <2>4, RequestFacts DEF SendableSlot
    <3>2. t.q \in LSQs /\ SameQueues(t.q, q) /\ t.r \in Request /\ SameAccess(t.r, o)
      BY <1>5, <2>5, <3>1, Sending
    <3>3. NotSent(t, q, o) \/ Accepted(t, q, o) \/ Refused(t, q, o)
      BY <1>5, <2>5, <3>1, Sending
    <3> QED
      BY <3>1, <3>2, <3>3 DEF SameQueues
  <2>12. ASSUME GoesOn(y) PROVE AllIssued(p, k)
    <3>1. t.all
      BY <2>10, <2>12 DEF GoesOn
    <3>2. Accepted(t, q, o)
      BY <2>11, <3>1 DEF NotSent, Refused
    <3>3. /\ Unissued(o) /\ InStoreBuffer(o)
          /\ t.r.sent = o.sent + 1 /\ t.r.state = "StoreBufferIssuing"
               => t.r \in Slot /\ (Unissued(t.r) <=> o.sent + 1 # NumFragments(o.inst))
      BY <2>4, <2>11, SentSlot
    <3>4. t.r \in Slot /\ ~Unissued(t.r)
      BY <3>1, <3>2, <3>3 DEF Accepted
    <3>5. p.slots = Put(q.slots, k, t.r)
      <4>1. k \in 1..Len(t.q.slots) /\ t.all \in BOOLEAN
        BY <1>6, <2>11, <3>2 DEF Accepted
      <4> QED
        BY <2>2, <2>11, <4>1, SlotSentIs
    <3>6. \A j \in 1..Len(q.slots) : p.slots[j] = IF j = k THEN t.r ELSE q.slots[j]
      BY <1>5, <1>6, <3>4, <3>5, SlotPut
    <3> SUFFICES ASSUME NEW j \in 1..k PROVE ~Unissued(p.slots[j])
      BY DEF AllIssued
    <3>7. j \in 1..Len(q.slots) /\ (j = k \/ j \in 1..(k - 1))
      BY <1>5, <1>6
    <3> QED
      BY <1>4, <1>10, <3>4, <3>6, <3>7 DEF AllIssued
  <2> QED
    BY <1>2, <1>4, <2>8, <2>9, <2>10, <2>12 DEF MemoryLoop
<1> QED
  BY <1>3, <1>7, <1>8, <1>9, <1>10, StepSlotCases DEF GoesOn, Unissued

\* StoreBuffer::step sends the stores in order.
LEMMA StoreBufferMemory ==
    ASSUME prog \in Seq(Instructions), NEW h \in Nat, NEW q, Good(q, h), NEW done,
           Oldest(h, done), MemoryOK(q, h, done), NEW p \in StoreBufferStep(q)
    PROVE  /\ MemoryOK(p, h, done) /\ Follows(p, q)
           /\ p.numAccessesIssuedToMemory = q.numAccessesIssuedToMemory
<1> DEFINE c == ClearLeadingBarriers(q)
<1>0. q \in LSQs
  BY GoodParts
<1>1. CASE q.numUnissuedAccesses = 0 \/ q.state # "MemoryRunning"
  <2>1. p = q
    BY <1>1 DEF StoreBufferStep
  <2> QED
    BY <1>0, <2>1, SameFollows, TransfersKeep
<1>2. CASE ~(q.numUnissuedAccesses = 0 \/ q.state # "MemoryRunning")
  <2>1. Eased(c, q, h)
    BY <1>2, ClearLeadingEased
  <2>2. PICK x \in Turns(c)[Len(c.slots)] : p = x.q
    BY <1>2 DEF StoreBufferStep
  <2>3. /\ MemoryOK(c, h, done) /\ Follows(c, q)
        /\ c.numAccessesIssuedToMemory = q.numAccessesIssuedToMemory
    BY <1>2, ClearLeadingMemory
  <2> HIDE DEF c
  <2>4. Good(c, h) /\ c \in LSQs /\ Len(c.slots) \in Nat
    BY <2>1, GoodParts, QueueTypes, LenProperties DEF Eased
  <2> DEFINE G == [k \in 0..Len(c.slots) |-> MemoryLoop(c, h, done, k)]
  <2>5. [q |-> c, issued |-> TRUE, count |-> 0] \in G[0]
    <3>1. [q |-> c, issued |-> TRUE, count |-> 0] \in LoopState(c, h)
      BY <2>4 DEF LoopState, Kept
    <3>2. Follows(c, c) /\ AllIssued(c, 0) /\ 0 \in 0..Len(c.slots)
      BY <2>4, SameFollows, TransfersKeep DEF AllIssued
    <3> QED
      BY <2>3, <3>1, <3>2 DEF MemoryLoop
  <2>6. \A k \in 1..Len(c.slots) : \A y \in G[k - 1], z \in LoopStates(c) :
          z \in StepSlot(y, k) => z \in G[k]
    <3> SUFFICES ASSUME NEW k \in 1..Len(c.slots), NEW y \in G[k - 1], NEW z \in StepSlot(y, k)
                 PROVE  z \in G[k]
      OBVIOUS
    <3>1. k \in 0..Len(c.slots) /\ k - 1 \in 0..Len(c.slots)
      BY <2>4
    <3>2. y \in MemoryLoop(c, h, done, k - 1)
      BY <3>1
    <3>3. z \in MemoryLoop(c, h, done, k)
      BY <2>4, <3>2, StepSlotMemory
    <3> QED
      BY <3>1, <3>3
  <2>7. G[Len(c.slots)] = MemoryLoop(c, h, done, Len(c.slots))
    BY <2>4
  <2> HIDE DEF G
  <2>8. x \in MemoryLoop(c, h, done, Len(c.slots))
    BY <2>2, <2>4, <2>5, <2>6, <2>7, LoopInvariant
  <2>9. /\ MemoryOK(p, h, done) /\ Follows(p, c) /\ p \in LSQs
        /\ p.numAccessesIssuedToMemory = c.numAccessesIssuedToMemory
    BY <2>2, <2>8 DEF MemoryLoop, LoopState
  <2> QED
    BY <1>0, <2>3, <2>4, <2>9, FollowsChain
<1> QED
  BY <1>1, <1>2

\* LSQ::step.
LEMMA LSQStepMemory ==
    ASSUME prog \in Seq(Instructions), head \in Nat, NEW q, Good(q, head), Contiguous(q, head),
           NEW done, Oldest(head, done), MemoryOK(q, head, done), IssuedOnPath(q),
           NEW p \in LSQStep(q)
    PROVE  MemoryKept(p, q, done)
<1>1. PICK t \in TryToSendToTransfers(q) : p \in StoreBufferStep(t)
  BY DEF LSQStep
<1>2. Good(t, head)
  BY TransfersKept DEF Kept
<1>3. MemoryKept(t, q, done)
  BY TransfersMemory
<1>4. /\ MemoryOK(p, head, done) /\ Follows(p, t)
      /\ p.numAccessesIssuedToMemory = t.numAccessesIssuedToMemory
  BY <1>1, <1>2, <1>3, StoreBufferMemory DEF MemoryKept
<1>5. q \in LSQs /\ t \in LSQs /\ p \in LSQs
  BY <1>1, <1>2, GoodParts, StoreBufferEased DEF Eased
<1>6. Follows(p, q)
  BY <1>3, <1>4, <1>5, FollowsChain DEF MemoryKept
<1>7. IssuedOnPath(p)
  BY <1>3, <1>4 DEF MemoryKept, IssuedOnPath, AccessesInFlight
<1> QED
  BY <1>4, <1>6, <1>7 DEF MemoryKept

----------------------------------------------------------------------------
(* recvTimingResp. *)

LEMMA RetiredKeeps ==
    ASSUME NEW o \in Request, NEW x, x = Retired(o)
    PROVE  x.skipped = o.skipped /\ x.data = o.data
BY DEF Retired, Request

LEMMA BackKeeps ==
    ASSUME NEW q \in LSQs, NEW i
    PROVE  /\ RequestBack(q, i).mem = q.mem /\ TransferBack(q, i).mem = q.mem
           /\ SlotBack(q, i).mem = q.mem /\ SlotGone(q, i).mem = q.mem
<1>1. RequestBack(q, i).mem = q.mem
  BY DEF RequestBack, LSQs
<1>2. TransferBack(q, i).mem = q.mem
  BY DEF TransferBack, LSQs
<1>3. SlotBack(q, i).mem = q.mem
  BY DEF SlotBack, LSQs
<1>4. SlotGone(q, i).mem = q.mem
  BY DEF SlotGone, LSQs
<1> QED
  BY <1>1, <1>2, <1>3, <1>4

\* A packet of an access in requests comes back.
LEMMA RequestBackMemory ==
    ASSUME prog \in Seq(Instructions), NEW h \in Nat, NEW q, Good(q, h),
           NEW i \in 1..Len(q.requests), HasPacketsInMemSystem(q.requests[i]),
           NEW p, p = RequestBack(q, i), NEW done, MemoryOK(q, h, done)
    PROVE  /\ MemoryOK(p, h, done) /\ Follows(p, q)
           /\ p.numAccessesIssuedToMemory = q.numAccessesIssuedToMemory
<1>1. q \in LSQs /\ q.requests \in Seq(Pending)
  BY GoodParts, QueueTypes
<1>2. p \in LSQs
  BY RequestBackKept, GoodParts DEF Kept
<1>3. PICK o : o = q.requests[i]
  OBVIOUS
<1>4. PICK x : x = Retired(o)
  OBVIOUS
<1>5. o \in Pending /\ o \in Request
  BY <1>1, <1>3, RequestFacts
<1>6. x \in Pending /\ x.inst = o.inst /\ x.state = o.state
  BY <1>3, <1>4, <1>5, RetiredRequest
<1>7. /\ x.sent = o.sent /\ x.issuedToMemory = o.issuedToMemory /\ x.fault = o.fault
      /\ x.skipped = o.skipped /\ x.data = o.data
  BY <1>4, <1>5, RetiredIs, RetiredKeeps
<1>8. /\ OneBack(p, q) /\ p.requests = Put(q.requests, i, x)
      /\ p.transfers = q.transfers /\ p.slots = q.slots
  BY <1>1, <1>3, <1>4, BackIs
<1>9. p.mem = q.mem
  BY <1>1, BackKeeps
<1>10. RequestOK(q, h, done, o) => RequestOK(p, h, done, x)
  <2>1. \A k : HasData(q, o, h, done, k) => HasData(p, x, h, done, k)
    BY <1>6, <1>7, <1>8 DEF HasData, HasFailed
  <2> QED
    BY <1>6, <1>7, <1>8, <1>9, <2>1 DEF RequestOK, AloneAtDevice, SentIsWritten, Started
<1>11. MemoryOK(p, h, done) /\ Follows(p, q)
  BY <1>2, <1>3, <1>6, <1>7, <1>8, <1>9, <1>10, RequestPutMemory
<1> QED
  BY <1>8, <1>11 DEF OneBack

\* A packet of an access in transfers comes back.
LEMMA TransferBackMemory ==
    ASSUME prog \in Seq(Instructions), NEW h \in Nat, NEW q, Good(q, h),
           NEW i \in 1..Len(q.transfers), HasPacketsInMemSystem(q.transfers[i]),
           NEW p, p = TransferBack(q, i), NEW done, MemoryOK(q, h, done)
    PROVE  /\ MemoryOK(p, h, done) /\ Follows(p, q)
           /\ p.numAccessesIssuedToMemory = q.numAccessesIssuedToMemory
<1>1. q \in LSQs /\ q.transfers \in Seq(Transferring)
  BY GoodParts, QueueTypes
<1>2. p \in LSQs
  BY TransferBackKept, GoodParts DEF Kept
<1>3. PICK o : o = q.transfers[i]
  OBVIOUS
<1>4. PICK x : x = Retired(o)
  OBVIOUS
<1>5. o \in Transferring /\ o \in Request /\ o.sent \in Nat /\ o.retired \in Nat
  BY <1>1, <1>3, RequestFacts
<1>6. x \in Transferring /\ x.inst = o.inst /\ x.isLoad = o.isLoad
  BY <1>3, <1>4, <1>5, RetiredTransfer
<1>7. /\ x.sent = o.sent /\ x.issuedToMemory = o.issuedToMemory /\ x.fault = o.fault
      /\ x.skipped = o.skipped /\ x.data = o.data
  BY <1>4, <1>5, RetiredIs, RetiredKeeps
<1>8. /\ OneBack(p, q) /\ p.transfers = Put(q.transfers, i, x)
      /\ p.requests = q.requests /\ p.slots = q.slots
  BY <1>1, <1>3, <1>4, BackIs
<1>9. p.mem = q.mem
  BY <1>1, BackKeeps
<1>10. o.state # "Complete" /\ o.state # "StoreToStoreBuffer"
  <2>1. o.sent > o.retired
    BY <1>3 DEF HasPacketsInMemSystem
  <2> QED
    BY <1>5, <2>1 DEF Transferring
<1>11. TransferOK(q, h, done, o) /\ KeepsFailed(p, q) => TransferOK(p, h, done, x)
  <2>1. KeepsFailed(p, q) => \A k : HasData(q, o, h, done, k) => HasData(p, x, h, done, k)
    BY <1>6, <1>7 DEF HasData, KeepsFailed
  <2> QED
    BY <1>6, <1>7, <1>8, <1>9, <1>10, <2>1
       DEF TransferOK, AloneAtDevice, SentIsWritten, SentAllPackets
<1>12. MemoryOK(p, h, done) /\ Follows(p, q)
  BY <1>2, <1>3, <1>6, <1>7, <1>8, <1>9, <1>11, TransferPutMemory
<1> QED
  BY <1>8, <1>12 DEF OneBack

\* A packet of a store in the store buffer comes back, and the store stays.
LEMMA SlotBackMemory ==
    ASSUME prog \in Seq(Instructions), NEW h \in Nat, NEW q, Good(q, h),
           NEW i \in 1..Len(q.slots), HasPacketsInMemSystem(q.slots[i]),
           Retired(q.slots[i]).state # "Complete", NEW p, p = SlotBack(q, i),
           NEW done, Oldest(h, done), MemoryOK(q, h, done)
    PROVE  /\ MemoryOK(p, h, done) /\ Follows(p, q)
           /\ p.numAccessesIssuedToMemory = q.numAccessesIssuedToMemory
<1>1. q \in LSQs /\ q.slots \in Seq(Slot) /\ InOrder(q.slots)
  BY GoodParts, QueueTypes DEF Ordered, QueuesInOrder
<1>2. p \in LSQs
  BY SlotBackKept, GoodParts DEF Kept
<1>3. PICK o : o = q.slots[i]
  OBVIOUS
<1>4. PICK x : x = Retired(o)
  OBVIOUS
<1>5. o \in Slot /\ o \in Request
  BY <1>1, <1>3, RequestFacts
<1>6. x \in Slot /\ x.inst = o.inst /\ x.state = o.state /\ (Unissued(x) <=> Unissued(o))
  BY <1>3, <1>4, <1>5, RetiredSlot
<1>7. x.sent = o.sent
  BY <1>4, <1>5, RetiredIs
<1>8. /\ OneBack(p, q) /\ p.slots = Put(q.slots, i, x)
      /\ p.requests = q.requests /\ p.transfers = q.transfers
  BY <1>1, <1>3, <1>4, BackIs
<1>9. p.mem = q.mem
  BY <1>1, BackKeeps
<1>10. ToSet(p.slots) = Others(q.slots, o.inst) \cup {x} /\ o \in ToSet(q.slots)
  <2>1. \A y \in Slot : y.inst \in Nat
    BY InstTypes
  <2> QED
    BY <1>1, <1>3, <1>6, <1>8, <2>1, PutSet
<1>11. SlotAdvances(p, q, o, x)
  BY <1>6, <1>7, <1>8, <1>9, <1>10 DEF SlotAdvances, SlotStarted
<1>12. MemoryOK(p, h, done) /\ Follows(p, q)
  BY <1>1, <1>2, <1>10, <1>11, AdvancedOK
<1> QED
  BY <1>8, <1>12 DEF OneBack

LEMMA FewerThan ==
    ASSUME NEW b \in Nat, NEW k \in 1..b, NEW K, K \subseteq (1..b) \ {k}
    PROVE  Cardinality(K) \in Nat /\ Cardinality(K) <= b - 1
<1> DEFINE B == 1..b
<1>1. b >= 1 /\ b \in Int
  OBVIOUS
<1>2. IsFiniteSet(1..b) /\ Cardinality(1..b) = IF 1 > b THEN 0 ELSE b - 1 + 1
  BY <1>1, FS_Interval
<1>3. IsFiniteSet(B) /\ Cardinality(B) = b /\ k \in B /\ K \subseteq B \ {k}
  BY <1>1, <1>2
<1> HIDE DEF B
<1>4. IsFiniteSet(B \ {k}) /\ Cardinality(B \ {k}) = Cardinality(B) - 1
  BY <1>3, FS_RemoveElement
<1>5. Cardinality(K) <= Cardinality(B \ {k}) /\ IsFiniteSet(K)
  BY <1>3, <1>4, FS_Subset
<1>6. Cardinality(K) \in Nat
  BY <1>5, FS_CardinalityType
<1> QED
  BY <1>3, <1>4, <1>5, <1>6

\* The packets of a slot that can be answered leave out those behind an older store.
LEMMA AnsweredLast ==
    ASSUME prog \in Seq(Instructions), NEW q \in LSQs, NEW i \in 1..Len(q.slots),
           Answerable(q, i), q.slots[i].retired + 1 = q.slots[i].sent,
           NEW j \in 1..(i - 1), HasPacketsInMemSystem(q.slots[j]),
           NEW k \in 1..q.slots[i].sent
    PROVE  Lines(q.slots[i].inst)[k] \notin ToSet(Lines(q.slots[j].inst))
<1> SUFFICES ASSUME Lines(q.slots[i].inst)[k] \in ToSet(Lines(q.slots[j].inst)) PROVE FALSE
  OBVIOUS
<1> DEFINE r == q.slots[i]
           behind == UNION {ToSet(Lines(q.slots[l].inst)) :
                              l \in {m \in 1..(i - 1) : HasPacketsInMemSystem(q.slots[m])}}
           K == {l \in 1..r.sent : Lines(r.inst)[l] \notin behind}
<1>1. r.retired < Cardinality(K)
  BY DEF Answerable
<1>2. r \in Slot
  BY QueueTypes, ElementOfSeq
<1>3. r.sent \in Nat /\ r.retired \in Nat /\ r.retired + 1 = r.sent
  BY <1>2, RequestFacts
<1>4. Lines(r.inst)[k] \in behind
  OBVIOUS
<1>5. K \subseteq (1..r.sent) \ {k} /\ k \in 1..r.sent
  BY <1>4
<1> HIDE DEF K, behind
<1> HIDE DEF r
<1>6. PICK b : b = r.sent
  OBVIOUS
<1>7. PICK d : d = r.retired
  OBVIOUS
<1>8. b \in Nat /\ d \in Nat /\ d + 1 = b /\ k \in 1..b /\ K \subseteq (1..b) \ {k}
  BY <1>3, <1>5, <1>6, <1>7
<1>9. Cardinality(K) \in Nat /\ Cardinality(K) <= b - 1
  BY <1>8, FewerThan
<1> QED
  BY <1>1, <1>7, <1>8, <1>9

\* The last packet of a store in the store buffer comes back, and the store leaves.
LEMMA SlotGoneMemory ==
    ASSUME prog \in Seq(Instructions), NEW h \in Nat, NEW q, Good(q, h),
           NEW i \in 1..Len(q.slots), Answerable(q, i),
           Retired(q.slots[i]).state = "Complete", NEW p, p = SlotGone(q, i),
           NEW done, MemoryOK(q, h, done)
    PROVE  /\ MemoryOK(p, h, done) /\ Follows(p, q)
           /\ p.numAccessesIssuedToMemory = q.numAccessesIssuedToMemory
<1>1. /\ q \in LSQs /\ q.slots \in Seq(Slot) /\ InOrder(q.slots) /\ Len(q.slots) \in Nat
      /\ HasPacketsInMemSystem(q.slots[i])
  BY GoodParts, QueueTypes, LenProperties, AnswerableSent DEF Ordered, QueuesInOrder
<1>2. p \in LSQs
  BY <1>1, SlotGoneKept, GoodParts DEF Kept
<1>3. PICK o : o = q.slots[i]
  OBVIOUS
<1>4. /\ o \in Slot /\ o \in Request /\ o.inst \in Nat /\ o.inst \in Insts
      /\ o.sent \in Nat /\ o.retired \in Nat /\ NumFragments(o.inst) \in Nat
  BY <1>1, <1>3, RequestFacts
<1>5. ~Unissued(o) /\ Outstanding(o) = 1
  BY <1>1, <1>3, <1>4, RetiredSlot
<1>6. o.sent = NumFragments(o.inst) /\ o.retired + 1 = o.sent /\ o.sent > 0
  BY <1>4, <1>5 DEF Unissued, SentAllPackets, Outstanding, NumFragments
<1>7. /\ OneBack(p, q) /\ p.slots = RemoveAt(q.slots, i)
      /\ p.requests = q.requests /\ p.transfers = q.transfers
  BY <1>1, BackIs
<1>8. p.mem = q.mem
  BY <1>1, BackKeeps
<1>9. \A y \in Slot : y.inst \in Nat
  BY InstTypes
<1>10. ToSet(p.slots) = Others(q.slots, o.inst) /\ o \in ToSet(q.slots)
  BY <1>1, <1>3, <1>7, <1>9, RemoveSet
<1>11. \A t \in ToSet(q.slots) \ ToSet(p.slots) : t = o
  <2>1. \A t \in ToSet(q.slots) : t.inst = o.inst => t = o
    BY <1>1, <1>9, <1>10, MemberAlone
  <2> QED
    BY <1>10, <2>1 DEF Others
<1>12. ASSUME IsStore(o.inst), NEW a \in ToSet(Lines(o.inst)) PROVE q.mem[a] >= o.inst
  <2>1. PICK k \in 1..NumFragments(o.inst) : a = Lines(o.inst)[k]
    BY <1>4, LineTypes
  <2>2. SentIsWritten(q, o)
    BY <1>10 DEF MemoryOK, SlotOK
  <2> QED
    BY <1>6, <1>12, <2>1, <2>2 DEF SentIsWritten
<1>13. ASSUME NEW s \in ToSet(p.slots), s.inst < o.inst, Overlaps(s, o.inst) PROVE FALSE
  <2>1. s \in ToSet(q.slots) /\ s \in Slot
    BY <1>1, <1>10, Members DEF Others
  <2>2. s.inst \in Nat /\ s.inst \in Insts /\ s.sent \in Nat /\ s.retired \in Nat
        /\ NumFragments(s.inst) \in Nat
    BY <2>1, RequestFacts
  <2>3. PICK j \in 1..Len(q.slots) : s = q.slots[j]
    BY <1>1, <2>1, Members
  <2>4. j \in 1..(i - 1)
    <3>1. i < j => o.inst < s.inst
      BY <1>1, <1>3, <2>3 DEF InOrder
    <3>2. i # j
      BY <1>3, <1>4, <1>13, <2>3
    <3> QED
      BY <1>1, <1>4, <1>13, <2>2, <3>1, <3>2
  <2>5. ~Unissued(s)
    <3>1. SlotStarted(o)
      BY <1>6 DEF SlotStarted
    <3>2. Unissued(s) => o.inst <= s.inst
      BY <1>10, <2>1, <3>1 DEF MemoryOK, SlotOK
    <3> QED
      BY <1>4, <1>13, <2>2, <3>2
  <2>6. HasPacketsInMemSystem(q.slots[j])
    <3>1. s.sent = NumFragments(s.inst) /\ ~IsBarrier(s.inst)
      BY <2>5 DEF Unissued, SentAllPackets, NumFragments
    <3>2. s.retired < NumFragments(s.inst)
      BY <2>1, <3>1 DEF Slot
    <3> QED
      BY <2>2, <2>3, <3>1, <3>2 DEF HasPacketsInMemSystem
  <2>7. PICK a : a \in ToSet(Lines(s.inst)) /\ a \in ToSet(Lines(o.inst))
    BY <1>13 DEF Overlaps
  <2>8. PICK k \in 1..NumFragments(o.inst) : a = Lines(o.inst)[k]
    BY <1>4, <2>7, LineTypes
  <2> QED
    BY <1>1, <1>3, <1>6, <2>3, <2>4, <2>6, <2>7, <2>8, AnsweredLast
<1>14. SlotsGo(p, q)
  BY <1>7, <1>8, <1>10, <1>11, <1>12, <1>13 DEF SlotsGo, Others
<1>15. MemoryOK(p, h, done) /\ Follows(p, q)
  BY <1>1, <1>2, <1>14, SlotsGoOK
<1> QED
  BY <1>7, <1>15 DEF OneBack

\* recvTimingResp.
LEMMA RespMemory ==
    ASSUME prog \in Seq(Instructions), head \in Nat, NEW q, Good(q, head),
           NEW done, Oldest(head, done), MemoryOK(q, head, done), IssuedOnPath(q),
           NEW p \in RecvTimingResp(q)
    PROVE  MemoryKept(p, q, done)
<1>1. q \in LSQs
  BY GoodParts
<1>2. \/ \E i \in 1..Len(q.requests) :
            HasPacketsInMemSystem(q.requests[i]) /\ p = RequestBack(q, i)
      \/ \E i \in 1..Len(q.transfers) :
            HasPacketsInMemSystem(q.transfers[i]) /\ p = TransferBack(q, i)
      \/ \E i \in 1..Len(q.slots) :
            /\ Answerable(q, i)
            /\ p = IF Retired(q.slots[i]).state = "Complete" THEN SlotGone(q, i)
                   ELSE SlotBack(q, i)
  BY DEF RecvTimingResp, RequestBack, TransferBack, SlotBack, SlotGone
<1> DEFINE Fine == /\ MemoryOK(p, head, done) /\ Follows(p, q)
                   /\ p.numAccessesIssuedToMemory = q.numAccessesIssuedToMemory
<1> SUFFICES Fine
  BY DEF MemoryKept, IssuedOnPath, AccessesInFlight
<1>3. CASE \E i \in 1..Len(q.requests) :
             HasPacketsInMemSystem(q.requests[i]) /\ p = RequestBack(q, i)
  BY <1>3, RequestBackMemory
<1>4. CASE \E i \in 1..Len(q.transfers) :
             HasPacketsInMemSystem(q.transfers[i]) /\ p = TransferBack(q, i)
  BY <1>4, TransferBackMemory
<1>5. CASE \E i \in 1..Len(q.slots) :
             /\ Answerable(q, i)
             /\ p = IF Retired(q.slots[i]).state = "Complete" THEN SlotGone(q, i)
                    ELSE SlotBack(q, i)
  <2>1. PICK i \in 1..Len(q.slots) :
             /\ Answerable(q, i)
             /\ p = IF Retired(q.slots[i]).state = "Complete" THEN SlotGone(q, i)
                    ELSE SlotBack(q, i)
    BY <1>5
  <2>2. HasPacketsInMemSystem(q.slots[i])
    BY <1>1, <2>1, AnswerableSent
  <2>3. CASE Retired(q.slots[i]).state = "Complete"
    BY <2>1, <2>3, SlotGoneMemory
  <2>4. CASE Retired(q.slots[i]).state # "Complete"
    BY <2>1, <2>2, <2>4, SlotBackMemory
  <2> QED BY <2>3, <2>4
<1> QED
  BY <1>2, <1>3, <1>4, <1>5

----------------------------------------------------------------------------
(* recvReqRetry. *)

\* A refused access may be sent again.
LEMMA AgainMaySend ==
    ASSUME prog \in Seq(Instructions), NEW h \in Nat, NEW q, Good(q, h), q.requests # <<>>,
           NEW o, o = Head(q.requests), o.state = "RequestNeedsRetry",
           NEW done, MemoryOK(q, h, done), NEW r, r = AsState(o, "Translated")
    PROVE  MaySend(q, h, done, r) /\ r \in Pending /\ Sendable(r, o)
           /\ r.issuedToMemory = o.issuedToMemory
<1>1. o \in Request /\ o \in Pending /\ o \in ToSet(q.requests) /\ q \in LSQs
  BY FrontOf, FrontRequest
<1>2. RequestOK(q, h, done, o)
  BY <1>1 DEF MemoryOK
<1>3. r \in Pending /\ Sendable(r, o) /\ r.issuedToMemory = o.issuedToMemory /\ r.inst = o.inst
  BY <1>1, FrontAgain
<1>4. r.skipped = o.skipped /\ r.data = o.data /\ r.state = "Translated"
  BY <1>1 DEF AsState, Request
<1>5. Started(o)
  BY DEF Started
<1>6. r.sent = o.sent /\ ~r.fault /\ r.sent < NumFragments(r.inst)
      /\ ~(IsStore(r.inst) /\ Bufferable(r.inst))
  BY <1>3 DEF Sendable, Pending
<1>7. IsLoad(o.inst) => \A s \in ToSet(q.slots) : ~Overlaps(s, o.inst)
  <2>1. ToSet(q.slots) = {q.slots[i] : i \in 1..Len(q.slots)}
    BY <1>1, QueueTypes, Members
  <2>2. FrontFirst(q)
    BY GoodParts
  <2> QED
    BY <1>5, <2>1, <2>2 DEF FrontFirst
<1>8. r.issuedToMemory <=> ~Bufferable(r.inst)
  BY <1>2, <1>3, <1>5 DEF RequestOK, AloneAtDevice
<1>9. r.issuedToMemory => AloneAtDevice(q, h, r)
  BY <1>2, <1>3 DEF RequestOK, AloneAtDevice
<1>10. SentIsWritten(q, r)
  BY <1>2, <1>3, <1>6 DEF RequestOK, SentIsWritten
<1>11. IsLoad(r.inst) => HasData(q, r, h, done, r.sent)
  BY <1>2, <1>3, <1>4, <1>5, <1>6 DEF RequestOK, HasData
<1>12. ~r.skipped
  BY <1>2, <1>4 DEF RequestOK
<1>13. FailedNotIssued(q)
  BY FailedStays
<1> QED
  BY <1>3, <1>4, <1>6, <1>7, <1>8, <1>9, <1>10, <1>11, <1>12, <1>13 DEF MaySend

LEMMA RunningKeeps ==
    ASSUME NEW q \in LSQs
    PROVE  AsRunning(q).mem = q.mem
BY DEF AsRunning, LSQs

LEMMA RetryFrontMemory ==
    ASSUME prog \in Seq(Instructions), NEW h \in Nat, NEW q, Good(q, h),
           q.state = "MemoryNeedsRetry", NoneWaits(q),
           NEW r, r = AsState(Head(q.requests), "Translated"),
           NEW c, c = AsRunning(q), NEW t \in TryToSend(c, r), NEW p, p = AfterSending(t),
           NEW done, Oldest(h, done), MemoryOK(q, h, done)
    PROVE  /\ MemoryOK(p, h, done) /\ Follows(p, q)
           /\ p.numAccessesIssuedToMemory = q.numAccessesIssuedToMemory
<1>1. PICK o : o = Head(q.requests)
  OBVIOUS
<1>2. q \in LSQs /\ OneRetry(q) /\ p \in LSQs
  BY GoodParts, RetryFront DEF Kept
<1>3. q.requests # <<>> /\ o.state = "RequestNeedsRetry"
  BY <1>1, <1>2, RetryParts DEF FrontWaits
<1>4. MaySend(q, h, done, r) /\ r \in Pending /\ Sendable(r, o)
      /\ r.issuedToMemory = o.issuedToMemory
  BY <1>1, <1>3, AgainMaySend
<1>5. c \in LSQs /\ SameQueues(c, q) /\ c.state = "MemoryRunning"
      /\ c.numAccessesInMemorySystem = q.numAccessesInMemorySystem
  BY <1>2, AsRunningIs
<1>6. c.mem = q.mem
  BY <1>2, RunningKeeps
<1>7. Counted(c, q, o, r)
  <2>1. q.numAccessesIssuedToMemory \in Int
    BY <1>2, QueueTypes
  <2>2. Num(r.issuedToMemory) = Num(o.issuedToMemory) /\ Num(o.issuedToMemory) \in Int
    BY <1>4 DEF Num
  <2> QED
    BY <1>5, <2>1, <2>2 DEF Counted, SameQueues
<1>8. MemoryOK(p, h, done) /\ Follows(p, q)
  BY <1>1, <1>2, <1>3, <1>4, <1>5, <1>6, <1>7, SendFrontMemory
<1>9. c.requests # <<>> /\ c.numAccessesIssuedToMemory = q.numAccessesIssuedToMemory
  BY <1>3, <1>5 DEF SameQueues
<1>10. p.numAccessesIssuedToMemory = c.numAccessesIssuedToMemory
  BY <1>4, <1>5, <1>9, SendingIssued
<1> QED
  BY <1>8, <1>9, <1>10

LEMMA RetrySlotMemory ==
    ASSUME prog \in Seq(Instructions), NEW h \in Nat, NEW q, Good(q, h),
           q.state = "MemoryNeedsRetry",
           NEW i \in 1..Len(q.slots), q.slots[i].state = "StoreBufferNeedsRetry",
           NEW r, r = AsState(q.slots[i], "StoreInStoreBuffer"),
           NEW c, c = AsRunning(q), NEW t \in TryToSend(c, r),
           NEW p, p = SlotWith(t.q, i, t.r, t.all),
           NEW done, Oldest(h, done), MemoryOK(q, h, done)
    PROVE  /\ MemoryOK(p, h, done) /\ Follows(p, q)
           /\ p.numAccessesIssuedToMemory = q.numAccessesIssuedToMemory
<1>1. PICK o : o = q.slots[i]
  OBVIOUS
<1>2. q \in LSQs /\ q.slots \in Seq(Slot) /\ p \in LSQs
  BY GoodParts, QueueTypes, RetrySlot DEF Kept
<1>3. o \in Slot /\ o \in ToSet(q.slots)
  BY <1>1, <1>2, Members
<1>4. r \in Slot /\ SendableSlot(r, o)
  BY <1>1, <1>3, SlotAgain
<1>5. c \in LSQs /\ SameQueues(c, q)
  BY <1>2, AsRunningIs
<1>6. c.mem = q.mem
  BY <1>2, RunningKeeps
<1>7. FirstUnissued(q, o)
  <2>1. SlotStarted(o)
    BY <1>1 DEF SlotStarted
  <2> QED
    BY <1>3, <2>1 DEF FirstUnissued, MemoryOK, SlotOK
<1> QED
  BY <1>1, <1>2, <1>4, <1>5, <1>6, <1>7, SendSlotMemory

\* recvReqRetry.
LEMMA RetryMemory ==
    ASSUME prog \in Seq(Instructions), head \in Nat, NEW q, Good(q, head),
           q.state = "MemoryNeedsRetry",
           NEW done, Oldest(head, done), MemoryOK(q, head, done), IssuedOnPath(q),
           NEW p \in RecvReqRetry(q)
    PROVE  MemoryKept(p, q, done)
<1> DEFINE Fine == /\ MemoryOK(p, head, done) /\ Follows(p, q)
                   /\ p.numAccessesIssuedToMemory = q.numAccessesIssuedToMemory
<1> SUFFICES Fine
  BY DEF MemoryKept, IssuedOnPath, AccessesInFlight
<1> DEFINE w == {i \in 1..Len(q.slots) : q.slots[i].state = "StoreBufferNeedsRetry"}
<1>1. CASE w = {}
  <2>1. NoneWaits(q)
    BY <1>1 DEF NoneWaits
  <2>2. PICK t \in TryToSend(AsRunning(q), AsState(Head(q.requests), "Translated")) :
          p = AfterSending(t)
    BY <1>1 DEF RecvReqRetry, AsRunning, AsState, AfterSending
  <2> QED
    BY <2>1, <2>2, RetryFrontMemory
<1>2. CASE w # {}
  <2>1. Len(q.slots) \in Nat
    BY GoodParts, QueueTypes, LenProperties
  <2>2. w \in SUBSET Nat
    BY <2>1
  <2>3. Min(w) \in w
    BY <1>2, <2>2, LeastMember
  <2>4. PICK t \in TryToSend(AsRunning(q), AsState(q.slots[Min(w)], "StoreInStoreBuffer")) :
          p = SlotWith(t.q, Min(w), t.r, t.all)
    BY <1>2 DEF RecvReqRetry, AsRunning, AsState, SlotWith
  <2>5. PICK i : i = Min(w)
    OBVIOUS
  <2>6. i \in 1..Len(q.slots) /\ q.slots[i].state = "StoreBufferNeedsRetry"
    BY <2>3, <2>5
  <2> HIDE DEF w
  <2> QED
    BY <2>4, <2>5, <2>6, RetrySlotMemory
<1> QED
  BY <1>1, <1>2

----------------------------------------------------------------------------
(* The head leaves inFlightInsts. *)

\* n has committed, or it has not.
NowDone(done2, done, n) == done2 \in {done, done \cup {n}}

\* The stores after n that failed their predicate stay in transfers; one that did has
\* not committed.
FailedAfter(p, q, n, done, done2) ==
    /\ \A m : m # n /\ HasFailed(q, m) => HasFailed(p, m)
    /\ HasFailed(q, n) => done2 = done

\* When the head leaves, a load that has its data still has the right ones.
LEMMA DataKept ==
    ASSUME NEW h \in Nat, NEW r, r.inst \in Nat, r.inst > h, NEW done, NEW done2,
           NowDone(done2, done, h), NEW p, NEW q, FailedAfter(p, q, h, done, done2),
           NEW k, HasData(q, r, h, done, k)
    PROVE  HasData(p, r, h + 1, done2, k)
<1>1. \A m \in (h + 1)..(r.inst - 1) : IsStore(m) => HasFailed(p, m)
  <2> SUFFICES ASSUME NEW m \in (h + 1)..(r.inst - 1), IsStore(m) PROVE HasFailed(p, m)
    OBVIOUS
  <2>1. m \in h..(r.inst - 1) /\ m # h
    OBVIOUS
  <2>2. HasFailed(q, m)
    BY <2>1 DEF HasData
  <2> QED
    BY <2>1, <2>2 DEF FailedAfter
<1>2. ~IsStore(h) \/ done2 = done
  <2>1. h \in h..(r.inst - 1)
    OBVIOUS
  <2>2. IsStore(h) => HasFailed(q, h)
    BY <2>1 DEF HasData
  <2> QED
    BY <2>2 DEF FailedAfter
<1>3. ASSUME NEW v, NEW a, IsLast(v, done, r.inst, a) PROVE IsLast(v, done2, r.inst, a)
  BY <1>2, <1>3 DEF IsLast, NowDone, Writes
<1> QED
  BY <1>1, <1>3 DEF HasData

LEMMA RequestStays ==
    ASSUME NEW h \in Nat, NEW q, NEW p, p.mem = q.mem, NEW done, NEW done2,
           NowDone(done2, done, h), FailedAfter(p, q, h, done, done2), NEW r, r.inst \in Nat, r.inst > h, RequestOK(q, h, done, r)
    PROVE  RequestOK(p, h + 1, done2, r) /\ ~r.issuedToMemory
<1>1. ~r.issuedToMemory
  BY DEF RequestOK, AloneAtDevice
<1>2. SentIsWritten(p, r)
  BY DEF RequestOK, SentIsWritten
<1>3. \A k : HasData(q, r, h, done, k) => HasData(p, r, h + 1, done2, k)
  BY DataKept
<1> QED
  BY <1>1, <1>2, <1>3 DEF RequestOK

LEMMA TransferStays ==
    ASSUME NEW h \in Nat, NEW q, NEW p, p.mem = q.mem, NEW done, NEW done2,
           NowDone(done2, done, h), FailedAfter(p, q, h, done, done2), NEW r, r.inst \in Nat, r.inst > h, TransferOK(q, h, done, r)
    PROVE  TransferOK(p, h + 1, done2, r) /\ ~r.issuedToMemory
<1>1. ~r.issuedToMemory
  BY DEF TransferOK, AloneAtDevice
<1>2. SentIsWritten(p, r)
  BY DEF TransferOK, SentIsWritten
<1>3. \A k : HasData(q, r, h, done, k) => HasData(p, r, h + 1, done2, k)
  BY DataKept
<1> QED
  BY <1>1, <1>2, <1>3 DEF TransferOK

\* The head leaves without an effect; it commits, and what it stores is in memory; or
\* it commits and the store buffer takes it over.
GoesWithout(p, q, h, done, done2) ==
    done2 = done /\ ToSet(p.slots) = ToSet(q.slots) /\ h \notin AccessesIssuedToMemory(q)

GoesInMemory(p, q, h, done, done2) ==
    /\ done2 = done \cup {h} /\ ToSet(p.slots) = ToSet(q.slots)
    /\ IsStore(h) => /\ \A a \in ToSet(Lines(h)) : q.mem[a] >= h
                     /\ \A s \in ToSet(q.slots) : ~Overlaps(s, h)

GoesToBuffer(p, q, h, done, done2) ==
    /\ done2 = done \cup {h} /\ h \in Insts
    /\ \E x : x.inst = h /\ x.sent = 0 /\ ~SlotStarted(x) /\ ToSet(p.slots) = ToSet(q.slots) \cup {x}

HeadGoes(p, q, h, done, done2) ==
    /\ p.mem = q.mem
    /\ ToSet(p.requests) \subseteq ToSet(q.requests)
    /\ ToSet(p.transfers) \subseteq ToSet(q.transfers)
    /\ FailedAfter(p, q, h, done, done2)
    /\ \/ GoesWithout(p, q, h, done, done2)
       \/ GoesInMemory(p, q, h, done, done2)
       \/ GoesToBuffer(p, q, h, done, done2)

LEMMA HeadGoesDone ==
    ASSUME NEW p, NEW q, NEW h, NEW done, NEW done2, HeadGoes(p, q, h, done, done2)
    PROVE  NowDone(done2, done, h) /\ ToSet(q.slots) \subseteq ToSet(p.slots)
BY DEF HeadGoes, NowDone, GoesWithout, GoesInMemory, GoesToBuffer

LEMMA SlotsAfterHead ==
    ASSUME prog \in Seq(Instructions), NEW h \in Nat, NEW q, Good(q, h), NEW p,
           NEW done, NEW done2, Oldest(h, done), MemoryOK(q, h, done),
           HeadGoes(p, q, h, done, done2), NEW s \in ToSet(p.slots)
    PROVE  SlotOK(p, done2, s)
<1>1. NowDone(done2, done, h) /\ ToSet(q.slots) \subseteq ToSet(p.slots) /\ p.mem = q.mem
  BY HeadGoesDone DEF HeadGoes
<1>2. q \in LSQs /\ q.slots \in Seq(Slot)
  BY GoodParts, QueueTypes
<1>3. \A t \in ToSet(q.slots) : t \in Slot /\ t.inst \in Nat /\ t.inst < h
  <2>1. ToSet(q.slots) = {q.slots[i] : i \in 1..Len(q.slots)}
    BY <1>2, Members
  <2>2. \A i \in 1..Len(q.slots) : q.slots[i].inst < h
    BY DEF Good, OldAndNew
  <2>3. \A t \in ToSet(q.slots) : t \in Slot
    BY <1>2, Members
  <2> QED
    BY <2>1, <2>2, <2>3, InstTypes
<1>4. \A t \in ToSet(p.slots) : t \in ToSet(q.slots) \/ (t.inst = h /\ ~SlotStarted(t))
  BY DEF HeadGoes, GoesWithout, GoesInMemory, GoesToBuffer
<1>5. CASE s \in ToSet(q.slots)
  <2>1. SlotOK(q, done, s)
    BY <1>5 DEF MemoryOK
  <2>2. s.inst \in done2 /\ SentIsWritten(p, s)
    BY <1>1, <2>1 DEF SlotOK, SentIsWritten, NowDone
  <2>3. ASSUME Unissued(s), NEW t \in ToSet(p.slots), SlotStarted(t) PROVE t.inst <= s.inst
    BY <1>4, <2>1, <2>3 DEF SlotOK
  <2>4. Unissued(s) => \A a \in ToSet(Lines(s.inst)) : p.mem[a] <= s.inst
    BY <1>1, <2>1 DEF SlotOK
  <2>5. ASSUME NEW m \in done2, IsStore(m), m > s.inst, Overlaps(s, m)
        PROVE  \E t \in ToSet(p.slots) : t.inst = m
    <3>1. CASE m \in done
      BY <1>1, <2>1, <2>5, <3>1 DEF SlotOK
    <3>2. CASE m = h /\ done2 # done
      <4>1. GoesInMemory(p, q, h, done, done2) \/ GoesToBuffer(p, q, h, done, done2)
        BY <3>2 DEF HeadGoes, GoesWithout
      <4>2. ~GoesInMemory(p, q, h, done, done2)
        BY <1>5, <2>5, <3>2 DEF GoesInMemory
      <4> QED
        BY <3>2, <4>1, <4>2 DEF GoesToBuffer
    <3> QED
      BY <1>1, <3>1, <3>2 DEF NowDone
  <2> QED
    BY <2>2, <2>3, <2>4, <2>5 DEF SlotOK
<1>6. CASE s \notin ToSet(q.slots)
  <2>1. GoesToBuffer(p, q, h, done, done2)
    BY <1>6 DEF HeadGoes, GoesWithout, GoesInMemory
  <2>2. s.inst = h /\ s.sent = 0 /\ ~SlotStarted(s) /\ done2 = done \cup {h}
    BY <1>6, <2>1 DEF GoesToBuffer
  <2>3. \A m \in done2 : m \in Nat /\ m <= h
    BY <2>2 DEF Oldest
  <2>4. SentIsWritten(p, s)
    BY <2>2 DEF SentIsWritten
  <2>5. \A t \in ToSet(p.slots) : SlotStarted(t) => t.inst <= s.inst
    BY <1>3, <1>4, <2>2
  <2>6. ASSUME Unissued(s), NEW a \in ToSet(Lines(s.inst)) PROVE p.mem[a] <= s.inst
    <3>1. a \in Addrs
      BY <2>1, <2>2, <2>6, LineTypes DEF GoesToBuffer
    <3>2. LineOK(q, h, done, a)
      BY <3>1 DEF MemoryOK
    <3> QED
      BY <1>1, <2>2, <2>3, <3>2 DEF LineOK
  <2>7. \A m \in done2 : ~(m > s.inst)
    BY <2>2, <2>3
  <2> QED
    BY <2>2, <2>4, <2>5, <2>6, <2>7 DEF SlotOK
<1> QED
  BY <1>5, <1>6

LEMMA LinesAfterHead ==
    ASSUME prog \in Seq(Instructions), NEW h \in Nat, NEW q \in LSQs, NEW p,
           NEW done, NEW done2, Oldest(h, done), MemoryOK(q, h, done),
           HeadGoes(p, q, h, done, done2), NEW a \in Addrs
    PROVE  LineOK(p, h + 1, done2, a)
<1>1. NowDone(done2, done, h) /\ ToSet(q.slots) \subseteq ToSet(p.slots) /\ p.mem = q.mem
  BY HeadGoesDone DEF HeadGoes
<1>2. LineOK(q, h, done, a)
  BY DEF MemoryOK
<1>3. p.mem[a] \in done2 \cup {0}
  <2>1. CASE q.mem[a] \in done \cup {0}
    BY <1>1, <2>1 DEF NowDone
  <2>2. CASE q.mem[a] = h /\ h \in AccessesIssuedToMemory(q)
    BY <1>1, <2>2 DEF HeadGoes, GoesWithout, GoesInMemory, GoesToBuffer
  <2> QED
    BY <1>2, <2>1, <2>2 DEF LineOK
<1>4. ASSUME NEW m \in done2, Writes(m, a)
      PROVE  p.mem[a] >= m \/ \E s \in ToSet(p.slots) : s.inst = m
  <2>1. CASE m \in done
    BY <1>1, <1>2, <1>4, <2>1 DEF LineOK
  <2>2. CASE m = h /\ done2 # done
    <3>1. GoesInMemory(p, q, h, done, done2) \/ GoesToBuffer(p, q, h, done, done2)
      BY <2>2 DEF HeadGoes, GoesWithout
    <3>2. CASE GoesInMemory(p, q, h, done, done2)
      BY <1>1, <1>4, <2>2, <3>2 DEF GoesInMemory, Writes
    <3>3. CASE GoesToBuffer(p, q, h, done, done2)
      BY <2>2, <3>3 DEF GoesToBuffer
    <3> QED
      BY <3>1, <3>2, <3>3
  <2> QED
    BY <1>1, <2>1, <2>2 DEF NowDone
<1> QED
  BY <1>1, <1>2, <1>3, <1>4 DEF LineOK

\* The head leaves, and what the queue and memory have is right for the next one.
LEMMA HeadGoesOK ==
    ASSUME prog \in Seq(Instructions), NEW h \in Nat, NEW q, Good(q, h), NEW p, Good(p, h + 1),
           NEW done, NEW done2, Oldest(h, done), MemoryOK(q, h, done),
           HeadGoes(p, q, h, done, done2)
    PROVE  MemoryOK(p, h + 1, done2) /\ ~AccessesInFlight(p)
<1>1. /\ q \in LSQs /\ p \in LSQs /\ CountsMatch(p) /\ NowDone(done2, done, h) /\ p.mem = q.mem
      /\ ToSet(p.requests) \subseteq ToSet(q.requests)
      /\ ToSet(p.transfers) \subseteq ToSet(q.transfers) /\ FailedAfter(p, q, h, done, done2)
  BY GoodParts, HeadGoesDone DEF HeadGoes
<1>2. p.requests \in Seq(Pending) /\ p.transfers \in Seq(Transferring)
  BY <1>1, QueueTypes
<1>3. \A r \in ToSet(p.requests) : r.inst \in Nat /\ r.inst > h
  <2>1. ToSet(p.requests) = {p.requests[i] : i \in 1..Len(p.requests)}
        /\ ToSet(p.requests) \subseteq Pending
    BY <1>2, Members
  <2>2. \A i \in 1..Len(p.requests) : p.requests[i].inst >= h + 1
    BY DEF Good, OldAndNew
  <2>3. \A r \in Pending : r.inst \in Nat
    BY InstTypes
  <2> QED
    BY <2>1, <2>2, <2>3
<1>4. \A r \in ToSet(p.transfers) : r.inst \in Nat /\ r.inst > h
  <2>1. ToSet(p.transfers) = {p.transfers[i] : i \in 1..Len(p.transfers)}
        /\ ToSet(p.transfers) \subseteq Transferring
    BY <1>2, Members
  <2>2. \A i \in 1..Len(p.transfers) : p.transfers[i].inst >= h + 1
    BY DEF Good, OldAndNew
  <2>3. \A r \in Transferring : r.inst \in Nat
    BY InstTypes
  <2> QED
    BY <2>1, <2>2, <2>3
<1>5. \A r \in ToSet(p.requests) : RequestOK(p, h + 1, done2, r) /\ ~r.issuedToMemory
  <2> SUFFICES ASSUME NEW r \in ToSet(p.requests)
               PROVE  RequestOK(p, h + 1, done2, r) /\ ~r.issuedToMemory
    OBVIOUS
  <2>1. RequestOK(q, h, done, r)
    BY <1>1 DEF MemoryOK
  <2> QED
    BY <1>1, <1>3, <2>1, RequestStays
<1>6. \A r \in ToSet(p.transfers) : TransferOK(p, h + 1, done2, r) /\ ~r.issuedToMemory
  <2> SUFFICES ASSUME NEW r \in ToSet(p.transfers)
               PROVE  TransferOK(p, h + 1, done2, r) /\ ~r.issuedToMemory
    OBVIOUS
  <2>1. TransferOK(q, h, done, r)
    BY <1>1 DEF MemoryOK
  <2> QED
    BY <1>1, <1>4, <2>1, TransferStays
<1>7. \A s \in ToSet(p.slots) : SlotOK(p, done2, s)
  BY SlotsAfterHead
<1>8. \A a \in Addrs : LineOK(p, h + 1, done2, a)
  BY <1>1, LinesAfterHead
<1>9. MemoryOK(p, h + 1, done2)
  BY <1>5, <1>6, <1>7, <1>8 DEF MemoryOK
<1>10. AccessesIssuedToMemory(p) = {}
  BY <1>5, <1>6 DEF AccessesIssuedToMemory
<1> QED
  BY <1>1, <1>9, <1>10, CountedIssued

LEMMA PopKeeps ==
    ASSUME NEW q \in LSQs, NEW r
    PROVE  PopResponse(q).mem = q.mem /\ Insert(q, r).mem = q.mem
<1>1. PopResponse(q).mem = q.mem
  BY DEF PopResponse, LSQs
<1>2. Insert(q, r).mem = q.mem
  BY DEF Insert, LSQs
<1> QED
  BY <1>1, <1>2

\* The front of transfers goes.
LEMMA FrontGoes ==
    ASSUME prog \in Seq(Instructions), NEW h \in Nat, NEW q, Good(q, h), FindResponse(q, h),
           NEW o, o = Head(q.transfers), NEW p, FrontTaken(q.transfers, o, p.transfers)
    PROVE  /\ ToSet(p.transfers) = Others(q.transfers, h) /\ o \in ToSet(q.transfers)
           /\ \A m : m # h /\ HasFailed(q, m) => HasFailed(p, m)
           /\ HasFailed(q, h) => o.skipped /\ o.state = "Complete"
<1>1. q \in LSQs /\ InOrder(q.transfers) /\ q.transfers \in Seq(Transferring)
  BY GoodParts, QueueTypes DEF Ordered, QueuesInOrder
<1>2. q.transfers # <<>> /\ o \in Transferring /\ o.inst = h
  BY FoundResponse
<1>3. \A x \in Transferring : x.inst \in Nat
  BY InstTypes
<1>4. ToSet(Tail(q.transfers)) = Others(q.transfers, h) /\ o \in ToSet(q.transfers)
  BY <1>1, <1>2, <1>3, TailSet
<1>5. ToSet(p.transfers) = Others(q.transfers, h)
  BY <1>4 DEF FrontTaken
<1>6. \A m : m # h /\ HasFailed(q, m) => HasFailed(p, m)
  BY <1>5 DEF HasFailed, Others
<1>7. HasFailed(q, h) => FailedStore(o)
  BY <1>2, <1>4, OnceInQueue DEF HasFailed
<1>8. HasFailed(q, h) => o.skipped /\ o.state = "Complete"
  BY <1>2, <1>7 DEF Transferring
<1> QED
  BY <1>4, <1>5, <1>6, <1>8

\* popResponse.
LEMMA PopGoes ==
    ASSUME prog \in Seq(Instructions), NEW h \in Nat, NEW q, Good(q, h), FindResponse(q, h),
           NEW o, o = Head(q.transfers), NEW p, p = PopResponse(q)
    PROVE  /\ p.mem = q.mem /\ p.slots = q.slots /\ p.requests = q.requests
           /\ ToSet(p.transfers) \subseteq ToSet(q.transfers) /\ o \in ToSet(q.transfers)
           /\ FrontTaken(q.transfers, o, p.transfers)
<1>1. q \in LSQs /\ InOrder(q.transfers) /\ q.transfers \in Seq(Transferring)
  BY GoodParts, QueueTypes DEF Ordered, QueuesInOrder
<1>2. q.transfers # <<>> /\ o.issuedToMemory \in BOOLEAN
  BY FoundResponse
<1>3. /\ FrontTaken(q.transfers, o, p.transfers)
      /\ p.requests = q.requests /\ p.slots = q.slots
  BY <1>1, <1>2, PopIs
<1>4. ToSet(p.transfers) = Others(q.transfers, h) /\ o \in ToSet(q.transfers)
  BY <1>3, FrontGoes
<1>5. p.mem = q.mem
  BY <1>1, PopKeeps
<1> QED
  BY <1>3, <1>4, <1>5 DEF Others

\* sendStoreToStoreBuffer, and popResponse.
LEMMA StoreGoes ==
    ASSUME prog \in Seq(Instructions), NEW h \in Nat, NEW q, Good(q, h), FindResponse(q, h),
           NEW o, o = Head(q.transfers), o.state = "StoreToStoreBuffer",
           NEW p, p = ResponseHandled(q), NEW done
    PROVE  HeadGoes(p, q, h, done, done \cup {h})
<1>1. q \in LSQs /\ InOrder(q.transfers) /\ q.transfers \in Seq(Transferring)
      /\ q.slots \in Seq(Slot)
  BY GoodParts, QueueTypes DEF Ordered, QueuesInOrder
<1>2. q.transfers # <<>> /\ o \in Transferring /\ o.inst = h /\ h \in Insts
  BY FoundResponse
<1>3. PICK r : r = AsState(o, "StoreInStoreBuffer")
  OBVIOUS
<1>4. p = PopResponse(Insert(q, r))
  BY <1>3 DEF ResponseHandled, AsState
<1>5. /\ FrontTaken(q.transfers, o, p.transfers)
      /\ p.requests = q.requests /\ p.slots = Append(q.slots, r)
  BY <1>1, <1>2, <1>3, <1>4, StoreHandledIs
<1>6. r \in Slot /\ r.inst = h /\ r.state = "StoreInStoreBuffer"
  BY <1>2, <1>3, StoreIsSlot
<1>7. r.sent = 0
  BY <1>2, <1>3 DEF AsState, Transferring, Request
<1>8. /\ ToSet(p.transfers) = Others(q.transfers, h)
      /\ \A m : m # h /\ HasFailed(q, m) => HasFailed(p, m)
      /\ ~HasFailed(q, h)
  BY <1>5, FrontGoes
<1>9. FailedAfter(p, q, h, done, done \cup {h})
  BY <1>8 DEF FailedAfter
<1>10. ToSet(p.slots) = ToSet(q.slots) \cup {r}
  BY <1>1, <1>5, <1>6, AppendSet
<1>11. Insert(q, r) \in LSQs
  <2> DEFINE z == Insert(q, r)
  <2>1. /\ Fields(z) /\ RestTyped(z) /\ z.slots = Append(q.slots, r)
        /\ z.requests = q.requests /\ z.transfers = q.transfers
    BY <1>1, InsertIs
  <2> HIDE DEF z
  <2>2. z.slots \in Seq(Slot)
    BY <1>1, <1>6, <2>1
  <2>3. z.requests \in Seq(Pending) /\ z.transfers \in Seq(Transferring)
    BY <1>1, <2>1, QueueTypes
  <2>4. z \in LSQs
    BY <2>1, <2>2, <2>3, Typed
  <2> QED
    BY <2>4 DEF z
<1>12. p.mem = q.mem
  BY <1>1, <1>4, <1>11, PopKeeps
<1>13. ~SlotStarted(r)
  BY <1>6, <1>7 DEF SlotStarted
<1>14. GoesToBuffer(p, q, h, done, done \cup {h})
  BY <1>2, <1>6, <1>7, <1>10, <1>13 DEF GoesToBuffer
<1> QED
  BY <1>5, <1>8, <1>9, <1>12, <1>14 DEF HeadGoes, Others

\* An access that was skipped has not been issued to memory, and nothing has been when
\* no access is in flight.
LEMMA NotIssued ==
    ASSUME prog \in Seq(Instructions), NEW h \in Nat, NEW q, Good(q, h), FindResponse(q, h),
           NEW done, MemoryOK(q, h, done),
           Head(q.transfers).skipped \/ ~AccessesInFlight(q)
    PROVE  h \notin AccessesIssuedToMemory(q)
<1>1. q \in LSQs /\ CountsMatch(q)
  BY GoodParts
<1>2. CASE ~AccessesInFlight(q)
  BY <1>1, <1>2, CountedIssued
<1>3. CASE Head(q.transfers).skipped
  <2>1. PICK o : o = Head(q.transfers)
    OBVIOUS
  <2>2. o.inst = h /\ o \in ToSet(q.transfers)
    BY <2>1, FoundResponse, PopGoes
  <2> QED
    BY <1>3, <2>1, <2>2, SkippedNotIssued
<1> QED
  BY <1>2, <1>3

\* handleMemResponse.
LEMMA CommitGoes ==
    ASSUME prog \in Seq(Instructions), NEW h \in Nat, NEW q, Good(q, h), FindResponse(q, h),
           NEW o, o = Head(q.transfers), NEW done, MemoryOK(q, h, done),
           NEW p, p = IF o.fault THEN PopResponse(q) ELSE ResponseHandled(q),
           NEW done2, done2 = IF o.skipped THEN done ELSE done \cup {h}
    PROVE  HeadGoes(p, q, h, done, done2)
<1>1. /\ o \in Transferring /\ o.inst = h /\ h \in Insts
      /\ o.state = "Complete" \/ o.state = "StoreToStoreBuffer"
  BY FoundResponse
<1>2. o \in ToSet(q.transfers)
  BY PopGoes
<1>3. TransferOK(q, h, done, o)
  BY <1>2 DEF MemoryOK
<1>4. CASE o.state = "StoreToStoreBuffer"
  <2>1. ~o.skipped /\ ~o.fault
    BY <1>3, <1>4 DEF TransferOK
  <2> QED
    BY <1>4, <2>1, StoreGoes
<1>5. CASE o.state = "Complete"
  <2>1. p = PopResponse(q)
    BY <1>5 DEF ResponseHandled
  <2>2. /\ p.mem = q.mem /\ p.slots = q.slots /\ p.requests = q.requests
        /\ ToSet(p.transfers) \subseteq ToSet(q.transfers)
        /\ FrontTaken(q.transfers, o, p.transfers)
    BY <2>1, PopGoes
  <2>2a. FailedAfter(p, q, h, done, done2)
    BY <2>2, FrontGoes DEF FailedAfter
  <2>3. CASE o.skipped
    <3>1. h \notin AccessesIssuedToMemory(q)
      BY <2>3, NotIssued
    <3> QED
      BY <2>2, <2>2a, <2>3, <3>1 DEF HeadGoes, GoesWithout
  <2>4. CASE ~o.skipped
    <3>1. ASSUME IsStore(h)
          PROVE  /\ \A a \in ToSet(Lines(h)) : q.mem[a] >= h
                 /\ \A s \in ToSet(q.slots) : ~Overlaps(s, h)
      <4>1. ~Bufferable(h) /\ SentAllPackets(o) /\ AloneAtDevice(q, h, o)
        BY <1>1, <1>3, <1>5, <2>4, <3>1 DEF TransferOK
      <4>2. \A k \in 1..NumFragments(h) : q.mem[Lines(h)[k]] >= h
        BY <1>1, <1>3, <3>1, <4>1 DEF TransferOK, SentIsWritten, SentAllPackets, NumFragments
      <4>3. \A a \in ToSet(Lines(h)) : \E k \in 1..NumFragments(h) : a = Lines(h)[k]
        BY <1>1, LineTypes
      <4> QED
        BY <4>1, <4>2, <4>3 DEF AloneAtDevice
    <3> QED
      BY <2>2, <2>2a, <2>4, <3>1 DEF HeadGoes, GoesInMemory
  <2> QED
    BY <2>3, <2>4
<1> QED
  BY <1>1, <1>4, <1>5

\* A response that is thrown away.
LEMMA DiscardGoes ==
    ASSUME prog \in Seq(Instructions), NEW h \in Nat, NEW q, Good(q, h), FindResponse(q, h),
           NEW done, MemoryOK(q, h, done), ~AccessesInFlight(q), NEW p, p = PopResponse(q)
    PROVE  HeadGoes(p, q, h, done, done)
<1>1. h \notin AccessesIssuedToMemory(q)
  BY NotIssued
<1>2. /\ p.mem = q.mem /\ p.slots = q.slots /\ p.requests = q.requests
      /\ ToSet(p.transfers) \subseteq ToSet(q.transfers)
      /\ FrontTaken(q.transfers, Head(q.transfers), p.transfers)
  BY PopGoes
<1>3. FailedAfter(p, q, h, done, done)
  BY <1>2, FrontGoes DEF FailedAfter
<1> QED
  BY <1>1, <1>2, <1>3 DEF HeadGoes, GoesWithout

\* The head is not in the queue: it commits, or is thrown away.
LEMMA OtherGoes ==
    ASSUME prog \in Seq(Instructions), NEW h \in Insts, h \in Nat, NEW q, Good(q, h),
           h \notin Held(q), NEW done
    PROVE  /\ HeadGoes(q, q, h, done, done)
           /\ ~IsStore(h) => HeadGoes(q, q, h, done, done \cup {h})
           /\ IsBarrier(h) => /\ HeadGoes(CompleteMemBarrierInst(q, h, TRUE), q, h, done, done \cup {h})
                              /\ HeadGoes(CompleteMemBarrierInst(q, h, FALSE), q, h, done, done)
<1>1. q \in LSQs /\ q.slots \in Seq(Slot)
  BY GoodParts, QueueTypes
<1>2. h \notin AccessesIssuedToMemory(q)
  <2>1. AccessesIssuedToMemory(q) =
          {m \in Insts : \E x \in Entry(q.requests, m) \cup Entry(q.transfers, m) :
                           x.issuedToMemory}
    BY <1>1, CountSets
  <2> QED
    BY <2>1 DEF Held, Has
<1>2a. ~HasFailed(q, h)
  <2>1. q.transfers \in Seq(Transferring)
    BY <1>1, QueueTypes
  <2> QED
    BY <2>1, MemberEntry DEF HasFailed, Held, Has
<1>2b. ASSUME NEW p, p.transfers = q.transfers, NEW done2 PROVE FailedAfter(p, q, h, done, done2)
  BY <1>2a, <1>2b DEF FailedAfter, HasFailed
<1>3. HeadGoes(q, q, h, done, done)
  BY <1>2, <1>2b DEF HeadGoes, GoesWithout
<1>4. ~IsStore(h) => HeadGoes(q, q, h, done, done \cup {h})
  BY <1>2b DEF HeadGoes, GoesInMemory
<1>5. ASSUME IsBarrier(h)
      PROVE  HeadGoes(CompleteMemBarrierInst(q, h, TRUE), q, h, done, done \cup {h})
  <2>1. PICK r : r = NewRequest(h, "Complete")
    OBVIOUS
  <2>2. PICK p : p = Insert(q, r)
    OBVIOUS
  <2>3. CompleteMemBarrierInst(q, h, TRUE) = p
    BY <2>1, <2>2 DEF CompleteMemBarrierInst
  <2>4. /\ p.slots = Append(q.slots, r) /\ p.requests = q.requests /\ p.transfers = q.transfers
    BY <1>1, <2>2, InsertIs
  <2>5. p.mem = q.mem
    BY <1>1, <2>2, PopKeeps
  <2>6. r \in Slot /\ r.inst = h
    BY <1>5, <2>1, BarrierIsSlot
  <2>7. r.sent = 0 /\ r.state = "Complete"
    BY <2>1 DEF NewRequest
  <2>8. ToSet(p.slots) = ToSet(q.slots) \cup {r}
    BY <1>1, <2>4, <2>6, AppendSet
  <2>9. ~SlotStarted(r)
    BY <2>7 DEF SlotStarted
  <2>10. GoesToBuffer(p, q, h, done, done \cup {h})
    BY <2>6, <2>7, <2>8, <2>9 DEF GoesToBuffer
  <2>11. HeadGoes(p, q, h, done, done \cup {h})
    BY <1>2b, <2>4, <2>5, <2>10 DEF HeadGoes
  <2> QED
    BY <2>3, <2>11
<1>6. HeadGoes(CompleteMemBarrierInst(q, h, FALSE), q, h, done, done)
  <2>1. PICK p : p = ClearMemBarrier(q, h)
    OBVIOUS
  <2>2. CompleteMemBarrierInst(q, h, FALSE) = p
    BY <2>1 DEF CompleteMemBarrierInst
  <2>3. p.requests = q.requests /\ p.transfers = q.transfers /\ p.slots = q.slots
    BY <1>1, <2>1, ClearMemBarrierIs
  <2>4. p.mem = q.mem
    BY <1>1, <2>1 DEF ClearMemBarrier, LSQs
  <2>5. HeadGoes(p, q, h, done, done)
    BY <1>2, <1>2b, <2>3, <2>4 DEF HeadGoes, GoesWithout
  <2> QED
    BY <2>2, <2>5
<1> QED
  BY <1>3, <1>4, <1>5, <1>6

----------------------------------------------------------------------------
(* The program does not change, so what is said of memory means the same    *)
(* after a step.                                                            *)

LEMMA SameAccesses ==
    ASSUME prog' = prog
    PROVE  /\ (\A r \in ToSet(lsq.requests) : RequestOK(lsq, head, committed, r))' <=>
                \A r \in ToSet(lsq'.requests) : RequestOK(lsq', head', committed', r)
           /\ (\A r \in ToSet(lsq.transfers) : TransferOK(lsq, head, committed, r))' <=>
                \A r \in ToSet(lsq'.transfers) : TransferOK(lsq', head', committed', r)
<1>1. \A r : SentIsWritten(lsq, r)' <=> SentIsWritten(lsq', r)
  BY SameProgram DEF SentIsWritten
<1>2. \A r : AloneAtDevice(lsq, head, r)' <=> AloneAtDevice(lsq', head', r)
  BY SameProgram DEF AloneAtDevice, Overlaps
<1>3. \A v, n, a : IsLast(v, committed, n, a)' <=> IsLast(v, committed', n, a)
  BY SameProgram DEF IsLast, Writes
<1>3a. \A m : HasFailed(lsq, m)' <=> HasFailed(lsq', m)
  BY SameProgram DEF HasFailed, FailedStore
<1>4. \A r, k : HasData(lsq, r, head, committed, k)' <=> HasData(lsq', r, head', committed', k)
  BY SameProgram, <1>3, <1>3a DEF HasData
<1>5. \A r : (Started(r)' <=> Started(r)) /\ (SentAllPackets(r)' <=> SentAllPackets(r))
  BY SameProgram DEF Started, SentAllPackets
<1>6. \A r : RequestOK(lsq, head, committed, r)' <=> RequestOK(lsq', head', committed', r)
  BY SameProgram, <1>1, <1>2, <1>4, <1>5 DEF RequestOK
<1>7. \A r : TransferOK(lsq, head, committed, r)' <=> TransferOK(lsq', head', committed', r)
  BY SameProgram, <1>1, <1>2, <1>4, <1>5 DEF TransferOK
<1> QED BY <1>6, <1>7

LEMMA SameMemory ==
    ASSUME prog' = prog
    PROVE  MemoryOK(lsq, head, committed)' <=> MemoryOK(lsq', head', committed')
<1>1. \A r : SentIsWritten(lsq, r)' <=> SentIsWritten(lsq', r)
  BY SameProgram DEF SentIsWritten
<1>2. \A r : (Unissued(r)' <=> Unissued(r)) /\ (SlotStarted(r)' <=> SlotStarted(r))
  BY SameProgram DEF Unissued, SlotStarted, SentAllPackets
<1>3. \A r, n : Overlaps(r, n)' <=> Overlaps(r, n)
  BY SameProgram DEF Overlaps
<1>4. \A s : SlotOK(lsq, committed, s)' <=> SlotOK(lsq', committed', s)
  BY SameProgram, <1>1, <1>2, <1>3 DEF SlotOK
<1>5. \A m, a : Writes(m, a)' <=> Writes(m, a)
  BY SameProgram DEF Writes
<1>6. AccessesIssuedToMemory(lsq)' = AccessesIssuedToMemory(lsq')
  BY DEF AccessesIssuedToMemory
<1>7. \A a : LineOK(lsq, head, committed, a)' <=> LineOK(lsq', head', committed', a)
  BY <1>5, <1>6 DEF LineOK
<1> QED BY <1>4, <1>7, SameAccesses DEF MemoryOK

LEMMA MemoryAfter ==
    ASSUME prog' = prog
    PROVE  MemoryInv' <=> /\ MemoryOK(lsq', head', committed')
                          /\ lsq'.numAccessesIssuedToMemory # 0 => head' > streamStart'
                          /\ drainState' = "DrainAllInsts" => streamStart' = issued'
BY SameMemory DEF MemoryInv, DevicesOnPath, AccessesInFlight, RightStream

\* What the lemmas about the queue need.
LEMMA MemoryFacts ==
    ASSUME LSQInv, FlightInv, MemoryInv
    PROVE  /\ prog \in Seq(Instructions) /\ head \in Nat /\ Good(lsq, head)
           /\ Contiguous(lsq, head) /\ Oldest(head, committed)
           /\ MemoryOK(lsq, head, committed) /\ IssuedOnPath(lsq)
<1>1. Contiguous(lsq, head)
  <2> SUFFICES ASSUME NEW n \in Held(lsq), NEW m \in head..(n - 1), IsMemRef(m), m \notin Held(lsq)
               PROVE  FALSE
    BY DEF Contiguous
  <2>1. n \in inLSQ /\ n \in InFlight /\ m \notin inLSQ
    BY DEF LSQInv, FlightInv
  <2>2. n \in Nat /\ m \in Nat /\ m < n
    BY <2>1, FlightTypes DEF InFlight
  <2>3. m \in InFlight
    BY <2>1, <2>2, FlightTypes DEF InFlight
  <2>4. m \in InFUMemInsts
    BY <2>1, <2>3 DEF InFUMemInsts
  <2>5. n < m
    BY <2>1, <2>4 DEF FlightInv
  <2> QED BY <2>2, <2>5
<1>2. Oldest(head, committed)
  BY FlightTypes DEF FlightInv, Oldest
<1> QED
  BY <1>1, <1>2, FlightTypes DEF LSQInv, MemoryInv, DevicesOnPath, IssuedOnPath

----------------------------------------------------------------------------
(* The steps of Execute. *)

\* The queue moves, and the instructions in flight stay.
LEMMA QueueMoves ==
    ASSUME FlightInv, MemoryInv, MemoryKept(lsq', lsq, committed),
           UNCHANGED <<prog, head, streamStart, issued, committed, drainState>>
    PROVE  MemoryInv'
BY MemoryAfter DEF MemoryInv, DevicesOnPath, MemoryKept, IssuedOnPath, AccessesInFlight, RightStream

LEMMA EvaluateMemory ==
    ASSUME LSQInv, FlightInv, MemoryInv, Evaluate
    PROVE  MemoryInv' /\ Follows(lsq', lsq)
<1>1. lsq' \in LSQStep(lsq) /\ UNCHANGED <<prog, head, streamStart, issued, committed, drainState>>
  BY DEF Evaluate, flightVars, drainVars
<1>2. MemoryKept(lsq', lsq, committed)
  BY <1>1, MemoryFacts, LSQStepMemory
<1> QED BY <1>1, <1>2, QueueMoves DEF MemoryKept

LEMMA FinishStepMemory ==
    ASSUME LSQInv, FlightInv, MemoryInv, Finish
    PROVE  MemoryInv' /\ Follows(lsq', lsq)
<1>1. PICK i \in 1..Len(lsq.requests), f \in Faults :
        lsq.requests[i].state = "InTranslation" /\ lsq' \in FinishTranslation(lsq, i, f)
  BY DEF Finish
<1>2. f \in BOOLEAN
  BY DEF Faults
<1>3. UNCHANGED <<prog, head, streamStart, issued, committed, drainState>>
  BY DEF Finish, flightVars, drainVars
<1>4. MemoryKept(lsq', lsq, committed)
  BY <1>1, <1>2, MemoryFacts, FinishMemory
<1> QED BY <1>3, <1>4, QueueMoves DEF MemoryKept

LEMMA MemoryRespondsMemory ==
    ASSUME LSQInv, FlightInv, MemoryInv, MemoryResponds
    PROVE  MemoryInv' /\ Follows(lsq', lsq)
<1>1. lsq' \in RecvTimingResp(lsq)
      /\ UNCHANGED <<prog, head, streamStart, issued, committed, drainState>>
  BY DEF MemoryResponds, flightVars, drainVars
<1>2. MemoryKept(lsq', lsq, committed)
  BY <1>1, MemoryFacts, RespMemory
<1> QED BY <1>1, <1>2, QueueMoves DEF MemoryKept

LEMMA MemoryRetriesMemory ==
    ASSUME LSQInv, FlightInv, MemoryInv, MemoryRetries
    PROVE  MemoryInv' /\ Follows(lsq', lsq)
<1>1. lsq' \in RecvReqRetry(lsq) /\ lsq.state = "MemoryNeedsRetry"
      /\ UNCHANGED <<prog, head, streamStart, issued, committed, drainState>>
  BY DEF MemoryRetries, flightVars, drainVars
<1>2. MemoryKept(lsq', lsq, committed)
  BY <1>1, MemoryFacts, RetryMemory
<1> QED BY <1>1, <1>2, QueueMoves DEF MemoryKept

LEMMA IssueToLSQMemory ==
    ASSUME LSQInv, FlightInv, MemoryInv, IssueToLSQ
    PROVE  MemoryInv' /\ Follows(lsq', lsq)
<1>1. PICK n \in InFlight : GoesToLSQ(n) /\ lsq' \in PushRequest(lsq, n)
  BY DEF IssueToLSQ
<1>2. UNCHANGED <<prog, head, streamStart, issued, committed, drainState>>
  BY DEF IssueToLSQ, drainVars
<1>3. /\ \A m \in InFUMemInsts : n <= m
      /\ CanRequest(lsq) /\ Pushable(lsq, head, n)
  BY <1>1, GoesFacts
<1>4. \A m \in head..(n - 1) : IsMemRef(m) => m \in Held(lsq)
  <2> SUFFICES ASSUME NEW m \in head..(n - 1), IsMemRef(m), m \notin Held(lsq) PROVE FALSE
    OBVIOUS
  <2>1. n \in Nat /\ m \in Nat /\ m < n /\ m \in InFlight
    BY <1>1, FlightTypes DEF InFlight
  <2>2. m \in InFUMemInsts
    BY <2>1 DEF InFUMemInsts, LSQInv
  <2> QED BY <1>3, <2>1, <2>2
<1>5. MemoryKept(lsq', lsq, committed)
  BY <1>1, <1>3, <1>4, MemoryFacts, PushMemory
<1> QED BY <1>2, <1>5, QueueMoves DEF MemoryKept

\* The head leaves inFlightInsts, and no access is left at a device: the stream may change.
LEMMA HeadLeaves ==
    ASSUME LSQInv, FlightInv, MemoryInv, Complete, Left(lsq', lsq, head),
           HeadGoes(lsq', lsq, head, committed, committed'),
           drainState' = drainState, streamStart' \in {streamStart, issued}
    PROVE  MemoryInv' /\ lsq'.mem = lsq.mem
<1>1. prog' = prog /\ head' = head + 1 /\ issued' = issued
  BY DEF Complete
<1>2. Good(lsq', head + 1)
  BY DEF Left
<1>3. MemoryOK(lsq', head + 1, committed') /\ ~AccessesInFlight(lsq')
  BY <1>2, MemoryFacts, HeadGoesOK
<1>4. drainState' = "DrainAllInsts" => streamStart' = issued'
  BY <1>1 DEF MemoryInv, DevicesOnPath
<1>5. MemoryInv'
  BY <1>1, <1>3, <1>4, MemoryAfter DEF AccessesInFlight
<1>6. lsq'.mem = lsq.mem
  BY DEF HeadGoes
<1> QED BY <1>5, <1>6

LEMMA CommitResponseMemory ==
    ASSUME LSQInv, FlightInv, MemoryInv, CommitResponse
    PROVE  MemoryInv' /\ lsq'.mem = lsq.mem
<1> DEFINE o == Head(lsq.transfers)
<1>1. /\ FindResponse(lsq, head) /\ Complete /\ drainState' = drainState
      /\ lsq' = IF o.fault THEN PopResponse(lsq) ELSE ResponseHandled(lsq)
      /\ committed' = IF o.skipped THEN committed ELSE committed \cup {head}
      /\ streamStart' \in {streamStart, issued}
  BY DEF CommitResponse, HasResponse, ChangesStream, drainVars
<1> HIDE DEF o
<1>2. lsq' \in {PopResponse(lsq), ResponseHandled(lsq)}
  BY <1>1
<1>3. Left(lsq', lsq, head)
  BY <1>1, <1>2, FlightTypes, PopLeft, HandledLeft DEF LSQInv
<1>4. HeadGoes(lsq', lsq, head, committed, committed')
  BY <1>1, MemoryFacts, CommitGoes DEF o
<1> QED BY <1>1, <1>3, <1>4, HeadLeaves

\* An instruction that is discarded has reached no device.
LEMMA NoneDiscarded ==
    ASSUME FlightInv, MemoryInv, InFlight # {}, Discards(head)
    PROVE  ~AccessesInFlight(lsq)
<1>1. head <= issued
  BY FlightTypes DEF InFlight
<1>2. drainState = "DrainAllInsts" => ~RightStream(head)
  BY <1>1, FlightTypes DEF MemoryInv, DevicesOnPath, RightStream
<1> QED BY <1>2 DEF MemoryInv, DevicesOnPath, Discards

LEMMA DiscardResponseMemory ==
    ASSUME LSQInv, FlightInv, MemoryInv, DiscardResponse
    PROVE  MemoryInv' /\ lsq'.mem = lsq.mem
<1>1. /\ FindResponse(lsq, head) /\ Complete /\ drainState' = drainState
      /\ lsq' = PopResponse(lsq) /\ Discards(head) /\ InFlight # {}
      /\ committed' = committed /\ streamStart' = streamStart
  BY DEF DiscardResponse, HasResponse, Committing, drainVars
<1>2. Left(lsq', lsq, head)
  BY <1>1, FlightTypes, PopLeft DEF LSQInv
<1>3. HeadGoes(lsq', lsq, head, committed, committed')
  BY <1>1, NoneDiscarded, MemoryFacts, DiscardGoes
<1> QED BY <1>1, <1>2, <1>3, HeadLeaves

LEMMA CommitInstMemory ==
    ASSUME LSQInv, FlightInv, MemoryInv, CommitInst
    PROVE  MemoryInv' /\ lsq'.mem = lsq.mem
<1>1. /\ FromFU /\ Complete /\ (IsBarrier(head) => CanInsert(lsq)) /\ drainState' = drainState
      /\ lsq' = IF IsBarrier(head) THEN CompleteMemBarrierInst(lsq, head, TRUE) ELSE lsq
      /\ committed' = committed \cup {head} /\ streamStart' \in {streamStart, issued}
      /\ ~IsStore(head)
  BY DEF CommitInst, ChangesStream, drainVars, IsMemRef
<1>2. head \in Insts /\ head \notin Held(lsq)
  BY <1>1, HeadFromFU
<1>3. Left(lsq', lsq, head)
  BY <1>1, <1>2, FlightTypes, BarrierLeft, OtherLeft DEF LSQInv
<1>4. HeadGoes(lsq', lsq, head, committed, committed')
  BY <1>1, <1>2, MemoryFacts, OtherGoes
<1> QED BY <1>1, <1>3, <1>4, HeadLeaves

LEMMA DiscardInstMemory ==
    ASSUME LSQInv, FlightInv, MemoryInv, DiscardInst
    PROVE  MemoryInv' /\ lsq'.mem = lsq.mem
<1>1. /\ FromFU /\ Complete /\ drainState' = drainState
      /\ lsq' = IF IsBarrier(head) THEN CompleteMemBarrierInst(lsq, head, FALSE) ELSE lsq
      /\ committed' = committed /\ streamStart' = streamStart
  BY DEF DiscardInst, drainVars
<1>2. head \in Insts /\ head \notin Held(lsq)
  BY <1>1, HeadFromFU
<1>3. Left(lsq', lsq, head)
  BY <1>1, <1>2, FlightTypes, BarrierLeft, OtherLeft DEF LSQInv
<1>4. HeadGoes(lsq', lsq, head, committed, committed')
  BY <1>1, <1>2, MemoryFacts, OtherGoes
<1> QED BY <1>1, <1>3, <1>4, HeadLeaves

LEMMA IssueInstMemory ==
    ASSUME LSQInv, FlightInv, MemoryInv, IssueInst
    PROVE  MemoryInv' /\ lsq'.mem = lsq.mem
<1> DEFINE n == issued + 1
<1>1. /\ UNCHANGED <<prog, head, streamStart, committed, drainState>>
      /\ drainState # "DrainAllInsts" /\ n <= Len(prog)
      /\ lsq' = IF IsBarrier(n) THEN [lsq EXCEPT !.lastMemBarrier = n] ELSE lsq
  BY DEF IssueInst, drainVars
<1>2. n \in 0..Len(prog)
  BY <1>1, FlightTypes
<1> HIDE DEF n
<1>3. Good(lsq', head)
  BY <1>1, <1>2, BarrierIssued DEF LSQInv
<1>4. lsq \in LSQs /\ lsq' \in LSQs
  BY <1>3, GoodParts DEF LSQInv
<1>5. /\ lsq'.mem = lsq.mem /\ lsq'.slots = lsq.slots /\ lsq'.requests = lsq.requests
      /\ lsq'.transfers = lsq.transfers
      /\ lsq'.numAccessesIssuedToMemory = lsq.numAccessesIssuedToMemory
  BY <1>1, <1>4 DEF LSQs
<1>6. KeepsIssued(lsq', lsq) /\ AccessesRight(lsq', lsq, head, committed)
  BY <1>5 DEF KeepsIssued, AccessesRight, AccessesIssuedToMemory
<1>7. MemoryOK(lsq', head, committed)
  BY <1>4, <1>5, <1>6, MemoryFacts, QuietOK, TransfersKeep
<1>8. lsq'.numAccessesIssuedToMemory # 0 => head' > streamStart'
  BY <1>1, <1>5 DEF MemoryInv, DevicesOnPath, AccessesInFlight, RightStream
<1>9. MemoryInv'
  BY <1>1, <1>7, <1>8, MemoryAfter
<1> QED BY <1>5, <1>9

\* takeInterrupt waits for the accesses in flight.
LEMMA TakeInterruptMemory ==
    ASSUME FlightInv, MemoryInv, TakeInterrupt
    PROVE  MemoryInv' /\ lsq'.mem = lsq.mem
<1>1. /\ UNCHANGED <<prog, head, issued, lsq, committed, drainState>> /\ streamStart' = issued
      /\ lsq.numAccessesIssuedToMemory = 0
  BY DEF TakeInterrupt, InterruptTaken, IsInbetweenInsts, AccessesInFlight, drainVars
<1> QED BY <1>1, MemoryAfter DEF MemoryInv

\* Fetch is halted between instructions.
LEMMA EndCommitMemory ==
    ASSUME FlightInv, MemoryInv, HaltsBetweenInsts, EndCommit
    PROVE  MemoryInv' /\ lsq'.mem = lsq.mem
<1>1. UNCHANGED <<prog, head, issued, lsq, committed>>
  BY DEF EndCommit
<1>2. \/ drainState' = "DrainAllInsts" /\ streamStart' = issued
         /\ lsq.numAccessesIssuedToMemory = 0
      \/ UNCHANGED <<drainState, streamStart>>
  BY DEF EndCommit, HaltsBetweenInsts, IsInbetweenInsts, AccessesInFlight
<1> QED BY <1>1, <1>2, MemoryAfter
        DEF MemoryInv, DevicesOnPath, AccessesInFlight, RightStream

LEMMA OtherMemory ==
    ASSUME FlightInv, MemoryInv,
           \/ BeginCommit \/ SkipCommit \/ EndIssue \/ EndCycle \/ PostInterrupt
           \/ Drain \/ DrainResume \/ UNCHANGED vars
    PROVE  MemoryInv' /\ lsq'.mem = lsq.mem
<1>1. /\ UNCHANGED <<prog, head, issued, streamStart, lsq, committed>>
      /\ drainState' = "DrainAllInsts" => drainState = "DrainAllInsts"
  BY DEF BeginCommit, SkipCommit, EndIssue, EndCycle, PostInterrupt, Drain, DrainResume,
         flightVars, drainVars, vars
<1> QED BY <1>1, MemoryAfter DEF MemoryInv, DevicesOnPath, AccessesInFlight, RightStream

----------------------------------------------------------------------------
(* Memory agrees with the program in every behaviour. *)

LEMMA InitMemory == Init => MemoryInv
<1> SUFFICES ASSUME Init PROVE MemoryInv
  OBVIOUS
<1>1. lsq = EmptyLSQ /\ committed = {} /\ drainState = "NotDraining"
  BY DEF Init
<1>2. /\ lsq.requests = <<>> /\ lsq.transfers = <<>> /\ lsq.slots = <<>>
      /\ lsq.mem = [a \in Addrs |-> 0] /\ lsq.numAccessesIssuedToMemory = 0
  BY <1>1 DEF EmptyLSQ
<1>3. ToSet(<<>>) = {}
  BY DEF ToSet
<1>4. \A a \in Addrs : LineOK(lsq, head, committed, a)
  BY <1>1, <1>2 DEF LineOK
<1>5. MemoryOK(lsq, head, committed)
  BY <1>2, <1>3, <1>4 DEF MemoryOK
<1> QED BY <1>1, <1>2, <1>5 DEF MemoryInv, DevicesOnPath, AccessesInFlight

\* A step keeps memory right, and no line goes back to an older store.
LEMMA NextMemory ==
    ASSUME LSQInv, FlightInv, MemoryInv, HaltsBetweenInsts, [Next]_vars
    PROVE  MemoryInv' /\ (Follows(lsq', lsq) \/ lsq'.mem = lsq.mem)
<1>1. CASE Evaluate
  BY <1>1, EvaluateMemory
<1>2. CASE Finish
  BY <1>2, FinishStepMemory
<1>3. CASE MemoryResponds
  BY <1>3, MemoryRespondsMemory
<1>4. CASE MemoryRetries
  BY <1>4, MemoryRetriesMemory
<1>5. CASE IssueToLSQ
  BY <1>5, IssueToLSQMemory
<1>6. CASE CommitResponse
  BY <1>6, CommitResponseMemory
<1>7. CASE DiscardResponse
  BY <1>7, DiscardResponseMemory
<1>8. CASE CommitInst
  BY <1>8, CommitInstMemory
<1>9. CASE DiscardInst
  BY <1>9, DiscardInstMemory
<1>10. CASE IssueInst
  BY <1>10, IssueInstMemory
<1>11. CASE TakeInterrupt
  BY <1>11, TakeInterruptMemory
<1>12. CASE EndCommit
  BY <1>12, EndCommitMemory
<1>13. CASE \/ BeginCommit \/ SkipCommit \/ EndIssue \/ EndCycle \/ PostInterrupt
            \/ Drain \/ DrainResume \/ UNCHANGED vars
  BY <1>13, OtherMemory
<1> QED
  BY <1>1, <1>2, <1>3, <1>4, <1>5, <1>6, <1>7, <1>8, <1>9, <1>10, <1>11, <1>12, <1>13
  DEF Next, Cycle

LEMMA StepMemory == QueueInv /\ MemoryInv /\ HaltsBetweenInsts /\ [Next]_vars => MemoryInv'
BY NextMemory, InvParts

\* The store buffer, the loads in the queue and memory agree about every store in every
\* behaviour of Execute in which fetch is halted between instructions, for every program,
\* every size of the queues and every limit (StoreBuffer::step, tryToSendToTransfers,
\* recvReqRetry, recvTimingResp, handleMemResponse).
THEOREM MemoryAlwaysRight == Spec /\ []HaltsBetweenInsts => []MemoryInv
<1>1. Init => MemoryInv
  BY InitMemory
<1>2. QueueInv /\ MemoryInv /\ HaltsBetweenInsts /\ [Next]_vars => MemoryInv'
  BY StepMemory
<1> QED BY <1>1, <1>2, QueueAlwaysInOrder, PTL DEF Spec

----------------------------------------------------------------------------
(* What follows from it. *)

LEMMA NoWrongPath == QueueInv /\ MemoryInv => NoWrongPathStores
<1> SUFFICES ASSUME QueueInv, MemoryInv, NEW a \in Addrs, lsq.mem[a] \notin committed \cup {0}
             PROVE  lsq.mem[a] = head /\ ~Bufferable(head) /\ RightStream(head)
  BY DEF NoWrongPathStores
<1>1. LSQInv /\ FlightInv
  BY InvParts
<1>2. LineOK(lsq, head, committed, a)
  BY DEF MemoryInv, MemoryOK
<1>3. lsq.mem[a] = head /\ head \in AccessesIssuedToMemory(lsq)
  BY <1>2 DEF LineOK
<1>4. PICK r \in ToSet(lsq.requests) \cup ToSet(lsq.transfers) : r.inst = head /\ r.issuedToMemory
  BY <1>3, IssuedSet
<1>5. AloneAtDevice(lsq, head, r)
  <2>1. CASE r \in ToSet(lsq.requests)
    BY <1>4, <2>1 DEF MemoryInv, MemoryOK, RequestOK
  <2>2. CASE r \in ToSet(lsq.transfers)
    BY <1>4, <2>2 DEF MemoryInv, MemoryOK, TransferOK
  <2> QED BY <1>4, <2>1, <2>2
<1>6. ~Bufferable(head)
  BY <1>5 DEF AloneAtDevice
<1>7. prog \in Seq(Instructions) /\ lsq \in LSQs /\ CountsMatch(lsq)
  BY <1>1, FlightTypes, GoodParts DEF LSQInv
<1>8. AccessesInFlight(lsq)
  BY <1>3, <1>7, CountedIssued
<1> QED BY <1>3, <1>6, <1>8 DEF MemoryInv, DevicesOnPath

\* Memory has only stores that committed, and the unbufferable one that is the head of the
\* current stream (the head check of tryToSendToTransfers).
THEOREM NoWrongPathStoresEver == Spec /\ []HaltsBetweenInsts => []NoWrongPathStores
BY MemoryAlwaysRight, QueueAlwaysInOrder, NoWrongPath, PTL

\* The last store is the greatest one.
LEMMA LastIs ==
    ASSUME FlightInv, NEW v \in Nat, NEW n, NEW a, IsLast(v, committed, n, a)
    PROVE  v = LastStore(n, a)
<1> DEFINE S == {0} \cup {m \in committed : m < n /\ IsStore(m) /\ a \in ToSet(Lines(m))}
<1>1. committed \subseteq 0..issued /\ issued \in Nat
  BY FlightTypes DEF FlightInv
<1>2. S \in SUBSET (0..issued) /\ S # {}
  <2>1. 0 \in 0..issued /\ 0 \in S
    BY <1>1
  <2>2. \A m \in S : m = 0 \/ m \in committed
    OBVIOUS
  <2> HIDE DEF S
  <2> QED BY <1>1, <2>1, <2>2
<1>3. v \in S /\ \A m \in S : m <= v
  BY DEF IsLast, Writes
<1> HIDE DEF S
<1>4. Max(S) \in S /\ \A m \in S : m <= Max(S)
  BY <1>1, <1>2, GreatestNatural
<1>5. \A m \in S : m \in Nat
  BY <1>1, <1>2
<1>6. Max(S) <= v /\ v <= Max(S) /\ Max(S) \in Nat
  BY <1>3, <1>4, <1>5
<1>7. v = Max(S)
  BY <1>6
<1> QED BY <1>7 DEF S, LastStore

LEMMA LoadsSee == QueueInv /\ MemoryInv => LoadsSeeStores
<1> DEFINE o == Head(lsq.transfers)
<1> SUFFICES ASSUME QueueInv, MemoryInv, IsLoad(head), FindResponse(lsq, head), ~o.skipped,
                    NEW k \in 1..Len(Lines(head))
             PROVE  o.data[k] = LastStore(head, Lines(head)[k])
  BY DEF LoadsSeeStores
<1>1. LSQInv /\ FlightInv
  BY InvParts
<1>2. prog \in Seq(Instructions) /\ lsq \in LSQs
  BY <1>1, FlightTypes, GoodParts DEF LSQInv
<1>3. lsq.transfers \in Seq(Transferring) /\ lsq.transfers # <<>> /\ o.inst = head
  BY <1>2, QueueTypes DEF FindResponse
<1>4. o \in Transferring /\ o \in ToSet(lsq.transfers)
  <2>1. \A s \in Seq(Transferring) : s # <<>> => Len(s) \in Nat /\ Len(s) >= 1 /\ Head(s) = s[1]
    OBVIOUS
  <2>2. ToSet(lsq.transfers) = {lsq.transfers[i] : i \in 1..Len(lsq.transfers)}
        /\ ToSet(lsq.transfers) \subseteq Transferring
    BY <1>3, Members
  <2> QED BY <1>3, <2>1, <2>2
<1> HIDE DEF o
<1>5. TransferOK(lsq, head, committed, o)
  BY <1>4 DEF MemoryInv, MemoryOK
<1>6. HasData(lsq, o, head, committed, NumFragments(head))
  BY <1>3, <1>5 DEF TransferOK
<1>7. Len(o.data) = NumFragments(head) /\ IsLast(o.data[k], committed, head, Lines(head)[k])
  BY <1>3, <1>6 DEF HasData, NumFragments
<1>8. o.data[k] \in Nat
  <2>1. o.data \in Seq(0..Len(prog)) /\ Len(prog) \in Nat
    BY <1>2, <1>4, FlightTypes, <1>1 DEF Transferring, Request
  <2> QED BY <1>7, <2>1, ElementOfSeq DEF NumFragments
<1> QED BY <1>1, <1>7, <1>8, LastIs

\* A load that is ready to commit has the data of the last store before it to each of its
\* lines, whether that store was forwarded or read from memory (canForwardDataToLoad,
\* tryToSendToTransfers).
THEOREM LoadsAlwaysSeeStores == Spec /\ []HaltsBetweenInsts => []LoadsSeeStores
BY MemoryAlwaysRight, QueueAlwaysInOrder, LoadsSee, PTL

LEMMA StepInOrder ==
    QueueInv /\ MemoryInv /\ HaltsBetweenInsts /\ [Next]_vars
      => [\A a \in Addrs : lsq'.mem[a] >= lsq.mem[a]]_vars
<1> SUFFICES ASSUME QueueInv, MemoryInv, HaltsBetweenInsts, [Next]_vars, NEW a \in Addrs
             PROVE  lsq'.mem[a] >= lsq.mem[a]
  OBVIOUS
<1>1. LSQInv /\ FlightInv
  BY InvParts
<1>2. Follows(lsq', lsq) \/ lsq'.mem = lsq.mem
  BY <1>1, NextMemory
<1>3. lsq.mem[a] \in Nat
  BY <1>1, FlightTypes, GoodParts, MemoryTypes DEF LSQInv
<1>4. CASE Follows(lsq', lsq)
  BY <1>4 DEF Follows
<1>5. CASE lsq'.mem = lsq.mem
  BY <1>3, <1>5
<1> QED BY <1>2, <1>4, <1>5

\* An older store never overwrites a younger one, whatever the memory system refuses
\* (StoreBuffer::step, tryToSend, recvReqRetry).
THEOREM MemoryAlwaysInOrder == Spec /\ []HaltsBetweenInsts => MemoryInOrder
<1>1. QueueInv /\ MemoryInv /\ HaltsBetweenInsts /\ [Next]_vars
        => [\A a \in Addrs : lsq'.mem[a] >= lsq.mem[a]]_vars
  BY StepInOrder
<1> QED BY <1>1, MemoryAlwaysRight, QueueAlwaysInOrder, PTL DEF Spec, MemoryInOrder

\* Which steps the head leaves inFlightInsts in, and what is then committed.
LEMMA HeadStays ==
    ASSUME FlightInv, [Next]_vars, ~CommitResponse, ~DiscardResponse, ~CommitInst, ~DiscardInst
    PROVE  head' = head
BY DEF Next, Cycle, Evaluate, TakeInterrupt, BeginCommit, SkipCommit, IssueToLSQ, EndCommit,
       IssueInst, EndIssue, EndCycle, Finish, MemoryResponds, MemoryRetries, PostInterrupt,
       Drain, DrainResume, vars, flightVars

LEMMA StepNotDiscarded ==
    QueueInv /\ MemoryInv /\ [Next]_vars
      => [\A r \in ToSet(lsq.transfers) :
            r.issuedToMemory /\ r.inst < head' => r.inst \in committed']_vars
<1> SUFFICES ASSUME QueueInv, MemoryInv, [Next]_vars, NEW r \in ToSet(lsq.transfers),
                    r.issuedToMemory, r.inst < head'
             PROVE  r.inst \in committed'
  OBVIOUS
<1>1. LSQInv /\ FlightInv
  BY InvParts
<1>2. prog \in Seq(Instructions) /\ lsq \in LSQs /\ Ordered(lsq, head) /\ CountsMatch(lsq)
      /\ head \in Nat
  BY <1>1, FlightTypes, GoodParts DEF LSQInv
<1>3. TransferOK(lsq, head, committed, r)
  BY DEF MemoryInv, MemoryOK
<1>4. r.inst = head /\ ~r.skipped
  BY <1>3 DEF TransferOK, AloneAtDevice
<1>5. AccessesInFlight(lsq)
  <2>1. head \in AccessesIssuedToMemory(lsq)
    BY <1>4, IssuedSet
  <2> QED BY <1>2, <2>1, CountedIssued
<1>6. CASE CommitResponse
  <2> DEFINE o == Head(lsq.transfers)
  <2>1. FindResponse(lsq, head)
        /\ committed' = IF o.skipped THEN committed ELSE committed \cup {head}
    BY <1>6 DEF CommitResponse, HasResponse
  <2>2. o \in ToSet(lsq.transfers) /\ o.inst = head
    BY <1>1, <1>2, <2>1, PopGoes DEF LSQInv, FindResponse
  <2>3. o = r
    <3>1. lsq.transfers \in Seq(Transferring) /\ InOrder(lsq.transfers)
      BY <1>2, QueueTypes DEF Ordered, QueuesInOrder
    <3>2. \A y \in Transferring : y.inst \in Nat
      BY <1>2, InstTypes
    <3> QED BY <1>4, <2>2, <3>1, <3>2, MemberAlone
  <2> QED BY <1>4, <2>1, <2>3
<1>7. CASE DiscardResponse
  <2>1. InFlight # {} /\ Discards(head)
    BY <1>7 DEF DiscardResponse, Committing
  <2> QED BY <1>1, <1>5, <2>1, NoneDiscarded
<1>8. CASE CommitInst
  BY <1>4, <1>8 DEF CommitInst
<1>9. CASE DiscardInst
  <2>1. InFlight # {} /\ Discards(head)
    BY <1>9 DEF DiscardInst, FromFU, Committing
  <2> QED BY <1>1, <1>5, <2>1, NoneDiscarded
<1>10. CASE ~CommitResponse /\ ~DiscardResponse /\ ~CommitInst /\ ~DiscardInst
  <2>1. head' = head
    BY <1>1, <1>10, HeadStays
  <2> QED BY <1>2, <1>4, <2>1
<1> QED BY <1>6, <1>7, <1>8, <1>9, <1>10

\* An unbufferable access that its device may have seen leaves the queue by committing
\* (isInbetweenInsts in takeInterrupt and drain).
THEOREM UnbufferableNeverDiscarded == Spec /\ []HaltsBetweenInsts => UnbufferableNotDiscarded
<1>1. QueueInv /\ MemoryInv /\ [Next]_vars
        => [\A r \in ToSet(lsq.transfers) :
              r.issuedToMemory /\ r.inst < head' => r.inst \in committed']_vars
  BY StepNotDiscarded
<1> QED BY <1>1, MemoryAlwaysRight, QueueAlwaysInOrder, PTL DEF Spec, UnbufferableNotDiscarded

----------------------------------------------------------------------------
(* Fetch is halted between instructions if no program that is drained       *)
(* accesses a device.                                                       *)

DrainsKnown == drainState # "NotDraining" => "drain" \in events

LEMMA DrainsAlwaysKnown == Spec => []DrainsKnown
<1>1. Init => DrainsKnown
  BY DEF Init, DrainsKnown
<1>2. DrainsKnown /\ [Next]_vars => DrainsKnown'
  BY DEF DrainsKnown, Next, Cycle, Evaluate, TakeInterrupt, BeginCommit, SkipCommit,
         CommitResponse, DiscardResponse, CommitInst, DiscardInst, Complete, IssueToLSQ,
         EndCommit, IssueInst, EndIssue, EndCycle, Finish, MemoryResponds, MemoryRetries,
         PostInterrupt, Drain, DrainResume, vars, flightVars, drainVars
<1> QED BY <1>1, <1>2, PTL DEF Spec

LEMMA HaltsSafely ==
    ASSUME DrainsWithoutDevices
    PROVE  QueueInv /\ MemoryInv /\ DrainsKnown => HaltsBetweenInsts
<1> SUFFICES ASSUME QueueInv, MemoryInv, DrainsKnown, drainState = "DrainHaltFetch",
                    AccessesInFlight(lsq)
             PROVE  FALSE
  BY DEF HaltsBetweenInsts, IsInbetweenInsts
<1>1. LSQInv /\ FlightInv
  BY InvParts
<1>2. prog \in Seq(Instructions) /\ lsq \in LSQs /\ CountsMatch(lsq)
  BY <1>1, FlightTypes, GoodParts DEF LSQInv
<1>3. PICK n : n \in AccessesIssuedToMemory(lsq)
  BY <1>2, CountedIssued
<1>4. PICK r \in ToSet(lsq.requests) \cup ToSet(lsq.transfers) : r.inst = n /\ r.issuedToMemory
  BY <1>3, IssuedSet
<1>5. ~Bufferable(n)
  <2>1. CASE r \in ToSet(lsq.requests)
    BY <1>4, <2>1 DEF MemoryInv, MemoryOK, RequestOK, AloneAtDevice
  <2>2. CASE r \in ToSet(lsq.transfers)
    BY <1>4, <2>2 DEF MemoryInv, MemoryOK, TransferOK, AloneAtDevice
  <2> QED BY <1>4, <2>1, <2>2
<1>6. n \in Insts /\ IsMemRef(n)
  <2>1. /\ lsq.requests \in Seq(Pending) /\ lsq.transfers \in Seq(Transferring)
    BY <1>2, QueueTypes
  <2>2. ToSet(lsq.requests) \subseteq Pending /\ ToSet(lsq.transfers) \subseteq Transferring
    BY <2>1, Members
  <2>3. r \in Pending \cup Transferring
    BY <1>4, <2>2
  <2> QED BY <1>4, <2>3 DEF Pending, Transferring, Request
<1>7. prog[n].kind \in {"ioLoad", "ioStore"}
  BY <1>5, <1>6 DEF Bufferable, IsMemRef, IsLoad, IsStore
<1>8. "drain" \in events /\ [prog |-> prog, events |-> events] \in Scenarios
  BY <1>1 DEF DrainsKnown, FlightInv
<1>9. \A m \in 1..Len(prog) : prog[m].kind \notin {"ioLoad", "ioStore"}
  BY <1>8 DEF DrainsWithoutDevices
<1> QED BY <1>6, <1>7, <1>9 DEF Insts

\* Where drains meet no program with unbufferable accesses, fetch is always halted between
\* instructions (Execute::drain), and memory is right in every behaviour.
THEOREM DrainsHaltSafely ==
    ASSUME DrainsWithoutDevices
    PROVE  Spec => [](MemoryInv /\ HaltsBetweenInsts)
<1>1. Init => MemoryInv
  BY InitMemory
<1>2. QueueInv /\ MemoryInv /\ DrainsKnown => HaltsBetweenInsts
  BY HaltsSafely
<1>3. QueueInv /\ MemoryInv /\ HaltsBetweenInsts /\ [Next]_vars => MemoryInv'
  BY StepMemory
<1> QED BY <1>1, <1>2, <1>3, QueueAlwaysInOrder, DrainsAlwaysKnown, PTL DEF Spec

\* What the order run checks, for every program, size and limit: with drains of programs
\* that access no device, and interrupts of all.
THEOREM MemoryRightWithDrains ==
    ASSUME DrainsWithoutDevices
    PROVE  Spec => /\ []NoWrongPathStores /\ []LoadsSeeStores
                   /\ MemoryInOrder /\ UnbufferableNotDiscarded
BY DrainsHaltSafely, NoWrongPathStoresEver, LoadsAlwaysSeeStores, MemoryAlwaysInOrder,
   UnbufferableNeverDiscarded, PTL

----------------------------------------------------------------------------
(* What the steps of the queue do to the barriers in the store buffer. *)

SameBuffered(p, q) ==
    BufferedInsts(p) = BufferedInsts(q) /\ p.lastMemBarrier = q.lastMemBarrier

LEMMA SameSlotsBuffered ==
    ASSUME NEW p, NEW q, p.slots = q.slots
    PROVE  BufferedInsts(p) = BufferedInsts(q)
BY DEF BufferedInsts

LEMMA PutInsts ==
    ASSUME NEW p, NEW q, NEW k, NEW x, x.inst = q.slots[k].inst, p.slots = Put(q.slots, k, x)
    PROVE  BufferedInsts(p) = BufferedInsts(q)
<1>1. DOMAIN p.slots = DOMAIN q.slots
  BY DEF Put
<1>2. \A i \in DOMAIN q.slots : p.slots[i].inst = q.slots[i].inst
  BY DEF Put
<1> QED BY <1>1, <1>2 DEF BufferedInsts, ToSet

LEMMA SendingSlots ==
    ASSUME prog \in Seq(Instructions), NEW c \in LSQs, NEW r \in Pending, c.requests # <<>>,
           NEW t \in TryToSend(c, r), NEW p, p = AfterSending(t)
    PROVE  p.slots = c.slots
<1>1. r \in Request /\ r.sent < NumFragments(r.inst)
  BY DEF Pending
<1>2. t.q \in LSQs /\ SameQueues(t.q, c)
  BY <1>1, Sending
<1>3. t.q.requests # <<>> /\ t.q.slots = c.slots
  BY <1>2 DEF SameQueues
<1>4. CASE t.all
  <2>1. p = FrontMoved(t.q, t.r)
    BY <1>4 DEF AfterSending
  <2>2. SameRest(p, t.q)
    BY <1>2, <2>1, FrontMovedIs
  <2> QED BY <1>3, <2>2 DEF SameRest
<1>5. CASE ~t.all
  <2>1. p = FrontSet(t.q, t.r)
    BY <1>5 DEF AfterSending
  <2> QED BY <1>2, <1>3, <2>1, FrontSetIs DEF SameRest
<1> QED BY <1>4, <1>5

\* tryToSendToTransfers does not touch the store buffer.
LEMMA TransfersSlots ==
    ASSUME prog \in Seq(Instructions), NEW h \in Nat, NEW q, Good(q, h),
           NEW p \in TryToSendToTransfers(q)
    PROVE  p.slots = q.slots
<1>1. q \in LSQs
  BY GoodParts
<1> PICK r : r = Head(q.requests)
  OBVIOUS
<1> SUFFICES ASSUME p # q PROVE p.slots = q.slots
  OBVIOUS
<1>2. /\ q.state # "MemoryNeedsRetry" /\ q.requests # <<>> /\ r.state # "InTranslation"
      /\ \/ \E x : p = FrontMoved(q, x)
         \/ /\ r.state # "Failed" /\ ~r.fault /\ ~(IsStore(r.inst) /\ Bufferable(r.inst))
            /\ \E t \in TryToSend(CountIssue(q, r), AsIssued(r)) : p = AfterSending(t)
  BY TransferCases
<1>3. CASE \E x : p = FrontMoved(q, x)
  BY <1>1, <1>3, FrontMovedIs DEF SameRest
<1>4. CASE /\ r.state # "Failed" /\ ~r.fault /\ ~(IsStore(r.inst) /\ Bufferable(r.inst))
           /\ \E t \in TryToSend(CountIssue(q, r), AsIssued(r)) : p = AfterSending(t)
  <2>1. PICK c, s : c = CountIssue(q, r) /\ s = AsIssued(r)
    OBVIOUS
  <2>2. r \in Pending /\ q.state = "MemoryRunning"
    BY <1>1, <1>2, FrontRequest, QueueTypes
  <2>3. s \in Pending /\ c \in LSQs /\ Counted(c, q, r, s)
    BY <1>1, <1>2, <1>4, <2>1, <2>2, IssuedFront
  <2>4. c.requests # <<>> /\ c.slots = q.slots
    BY <1>2, <2>3 DEF Counted
  <2>5. p.slots = c.slots
    BY <1>4, <2>1, <2>3, <2>4, SendingSlots
  <2> QED BY <2>4, <2>5
<1> QED BY <1>2, <1>3, <1>4

LEMMA FinishSlots ==
    ASSUME prog \in Seq(Instructions), NEW h \in Nat, NEW q, Good(q, h),
           NEW i \in 1..Len(q.requests), q.requests[i].state = "InTranslation",
           NEW f \in BOOLEAN, NEW p \in FinishTranslation(q, i, f)
    PROVE  p.slots = q.slots
<1> DEFINE t == Translated(q, i, f)
<1>1. q \in LSQs /\ Good(t, h)
  BY TranslatedKept, GoodParts DEF Kept
<1>2. p \in IF i = 1 THEN TryToSendToTransfers(t) ELSE {t}
  BY DEF FinishTranslation, Translated
<1>3. t.slots = q.slots
  BY <1>1, TranslatedIs DEF SameRest
<1> HIDE DEF t
<1> QED BY <1>1, <1>2, <1>3, TransfersSlots

LEMMA PushSlots ==
    ASSUME prog \in Seq(Instructions), NEW h \in Nat, NEW q, Good(q, h), CanRequest(q),
           NEW n, Pushable(q, h, n), NEW p \in PushRequest(q, n)
    PROVE  p.slots = q.slots
<1> DEFINE t == Pushed(q, n, "InTranslation")
           u == Pushed(q, n, "Failed")
           i == Len(q.requests) + 1
<1>1. q \in LSQs
  BY GoodParts
<1>2. t.slots = q.slots /\ u.slots = q.slots
  BY <1>1 DEF Pushed, LSQs
<1>3. Good(t, h) /\ i \in 1..Len(t.requests) /\ t.requests[i].state = "InTranslation"
  <2>1. /\ Grown(t, q, h, n) /\ i \in 1..Len(t.requests)
        /\ t.requests[i].state = "InTranslation"
    BY PushedGrows
  <2> QED
    BY <2>1 DEF Grown
<1>4. (\E f \in BOOLEAN : p \in FinishTranslation(t, i, f)) \/ p = t \/ p = u
  BY PushCases
<1> HIDE DEF t, u, i
<1> QED BY <1>2, <1>3, <1>4, FinishSlots

\* A slot stays when one of its packets was sent or refused.
LEMMA SentSlotInsts ==
    ASSUME prog \in Seq(Instructions), NEW q, NEW c \in LSQs, SameQueues(c, q),
           NEW i \in 1..Len(q.slots), NEW r \in Slot, SendableSlot(r, q.slots[i]),
           NEW t \in TryToSend(c, r), NEW p, p = SlotWith(t.q, i, t.r, t.all)
    PROVE  BufferedInsts(p) = BufferedInsts(q)
<1>1. r \in Request /\ r.sent < NumFragments(r.inst) /\ r.inst = q.slots[i].inst
  BY DEF Slot, SendableSlot
<1>2. /\ t.q \in LSQs /\ SameQueues(t.q, c) /\ t.r.inst = r.inst
      /\ NotSent(t, c, r) \/ Accepted(t, c, r) \/ Refused(t, c, r)
  BY <1>1, Sending DEF SameAccess
<1>3. t.all \in BOOLEAN
  BY <1>2 DEF NotSent, Accepted, Refused
<1>4. t.q.slots = q.slots
  BY <1>2 DEF SameQueues
<1>5. p.slots = Put(q.slots, i, t.r)
  BY <1>2, <1>3, <1>4, SlotSentIs
<1> QED BY <1>1, <1>2, <1>5, PutInsts

\* recvReqRetry.
LEMMA RetrySlots ==
    ASSUME prog \in Seq(Instructions), NEW h \in Nat, NEW q, Good(q, h),
           q.state = "MemoryNeedsRetry", NEW p \in RecvReqRetry(q)
    PROVE  BufferedInsts(p) = BufferedInsts(q)
<1> DEFINE w == {i \in 1..Len(q.slots) : q.slots[i].state = "StoreBufferNeedsRetry"}
<1>0. q \in LSQs /\ OneRetry(q) /\ q.slots \in Seq(Slot) /\ Len(q.slots) \in Nat
  BY GoodParts, QueueTypes, LenProperties
<1> PICK c : c = AsRunning(q)
  OBVIOUS
<1>1. c \in LSQs /\ SameQueues(c, q)
  BY <1>0, AsRunningIs
<1>2. CASE w = {}
  <2>1. NoneWaits(q)
    BY <1>2 DEF NoneWaits
  <2>2. PICK r : r = AsState(Head(q.requests), "Translated")
    OBVIOUS
  <2>3. PICK t \in TryToSend(c, r) : p = AfterSending(t)
    BY <1>2, <2>2 DEF RecvReqRetry, AsRunning, AsState, AfterSending
  <2>4. q.requests # <<>> /\ Head(q.requests).state = "RequestNeedsRetry"
    BY <1>0, <2>1, RetryParts DEF FrontWaits
  <2>5. r \in Pending
    BY <2>2, <2>4, FrontRequest, FrontAgain
  <2>6. p.slots = c.slots
    BY <1>1, <2>3, <2>4, <2>5, SendingSlots DEF SameQueues
  <2> QED BY <1>1, <2>6, SameSlotsBuffered DEF SameQueues
<1>3. CASE w # {}
  <2>1. w \in SUBSET Nat
    BY <1>0
  <2>2. Min(w) \in w
    BY <1>3, <2>1, LeastMember
  <2>3. PICK i : i = Min(w)
    OBVIOUS
  <2>4. PICK r : r = AsState(q.slots[i], "StoreInStoreBuffer")
    OBVIOUS
  <2>5. PICK t \in TryToSend(c, r) : p = SlotWith(t.q, i, t.r, t.all)
    BY <1>3, <2>3, <2>4 DEF RecvReqRetry, AsRunning, AsState, SlotWith
  <2>6. i \in 1..Len(q.slots) /\ q.slots[i].state = "StoreBufferNeedsRetry"
    BY <2>2, <2>3
  <2> HIDE DEF w
  <2>7. q.slots[i] \in Slot
    BY <1>0, <2>6, ElementOfSeq
  <2>8. r \in Slot /\ SendableSlot(r, q.slots[i])
    BY <2>4, <2>6, <2>7, SlotAgain
  <2> QED BY <1>0, <1>1, <2>5, <2>6, <2>8, SentSlotInsts
<1> QED BY <1>2, <1>3

\* recvTimingResp: a store may leave, a barrier stays.
BarriersStay(p, q) ==
    /\ BufferedInsts(p) \subseteq BufferedInsts(q)
    /\ \A b \in BufferedInsts(q) : IsBarrier(b) => b \in BufferedInsts(p)

LEMMA RespSlots ==
    ASSUME prog \in Seq(Instructions), NEW h \in Nat, NEW q, Good(q, h),
           NEW p \in RecvTimingResp(q)
    PROVE  BarriersStay(p, q)
<1>0. q \in LSQs /\ Ordered(q, h)
  BY GoodParts
<1>1. q \in LSQs /\ q.slots \in Seq(Slot) /\ InOrder(q.slots)
  BY <1>0, QueueTypes DEF Ordered, QueuesInOrder
<1>2. \/ \E i \in 1..Len(q.requests) : p = RequestBack(q, i)
      \/ \E i \in 1..Len(q.transfers) : p = TransferBack(q, i)
      \/ \E i \in 1..Len(q.slots) :
            Answerable(q, i) /\ (p = SlotGone(q, i) \/ p = SlotBack(q, i))
  BY DEF RecvTimingResp, RequestBack, TransferBack, SlotBack, SlotGone
<1>3. CASE (\E i \in 1..Len(q.requests) : p = RequestBack(q, i))
           \/ (\E i \in 1..Len(q.transfers) : p = TransferBack(q, i))
  <2>1. p.slots = q.slots
    BY <1>1, <1>3, BackIs
  <2> QED BY <2>1, SameSlotsBuffered DEF BarriersStay
<1>4. CASE \E i \in 1..Len(q.slots) :
             Answerable(q, i) /\ (p = SlotGone(q, i) \/ p = SlotBack(q, i))
  <2>1. PICK i \in 1..Len(q.slots) :
               Answerable(q, i) /\ (p = SlotGone(q, i) \/ p = SlotBack(q, i))
    BY <1>4
  <2>2. PICK o : o = q.slots[i]
    OBVIOUS
  <2>3. o \in Slot /\ HasPacketsInMemSystem(o)
    BY <1>1, <2>1, <2>2, ElementOfSeq, AnswerableSent
  <2>4. ~IsBarrier(o.inst)
    BY <2>3, BarrierSlot DEF HasPacketsInMemSystem
  <2>5. CASE p = SlotGone(q, i)
    <3>1. p.slots = RemoveAt(q.slots, i)
      BY <1>1, <2>5, BackIs
    <3>2. \A x \in Slot : x.inst \in Nat
      BY InstTypes
    <3>3. ToSet(p.slots) = Others(q.slots, o.inst)
      BY <1>1, <2>1, <2>2, <3>1, <3>2, RemoveSet
    <3> QED BY <2>4, <3>3 DEF BarriersStay, BufferedInsts, Others
  <2>6. CASE p = SlotBack(q, i)
    <3>1. p.slots = Put(q.slots, i, Retired(q.slots[i]))
      BY <1>1, <2>6, BackIs
    <3>2. Retired(q.slots[i]).inst = q.slots[i].inst
      BY <2>2, <2>3, RetiredSlot
    <3>3. BufferedInsts(p) = BufferedInsts(q)
      BY <3>1, <3>2, PutInsts
    <3> QED BY <3>3 DEF BarriersStay
  <2> QED BY <2>1, <2>5, <2>6
<1> QED BY <1>2, <1>3, <1>4

\* The loop of StoreBuffer::step takes nothing from the store buffer.
SlotsLoop(c, h) == {x \in LoopState(c, h) : BufferedInsts(x.q) = BufferedInsts(c)}

LEMMA StepSlotSlots ==
    ASSUME prog \in Seq(Instructions), NEW h \in Nat, NEW c \in LSQs,
           NEW k \in 1..Len(c.slots), NEW x \in SlotsLoop(c, h), NEW y \in StepSlot(x, k)
    PROVE  y \in SlotsLoop(c, h)
<1>1. x \in LoopState(c, h) /\ BufferedInsts(x.q) = BufferedInsts(c)
  BY DEF SlotsLoop
<1>2. y \in LoopState(c, h)
  BY <1>1, StepSlotKept
<1>3. PICK q : q = x.q
  OBVIOUS
<1>4. Good(q, h) /\ Len(q.slots) = Len(c.slots) /\ q \in LSQs
  BY <1>1, <1>3, GoodParts DEF LoopState, Kept
<1>5. k \in 1..Len(q.slots)
  BY <1>4
<1>6. CASE y = x \/ y = [x EXCEPT !.issued = FALSE]
  <2>1. y.q = q
    BY <1>1, <1>3, <1>6 DEF LoopState
  <2> QED BY <1>1, <1>2, <1>3, <2>1 DEF SlotsLoop
<1>7. ASSUME CanSendToMemorySystem(q), ~IsBarrier(q.slots[k].inst),
             ~(q.slots[k].state = "StoreBufferIssuing" /\ SentAllPackets(q.slots[k])),
             NEW t \in TryToSend(q, q.slots[k]), y.q = SlotWith(t.q, k, t.r, t.all)
      PROVE  y \in SlotsLoop(c, h)
  <2>1. PICK o : o = q.slots[k]
    OBVIOUS
  <2>2. o \in Slot /\ SendableSlot(o, o)
    BY <1>4, <1>5, <1>7, <2>1, StepSendable
  <2>3. SameQueues(q, q)
    BY DEF SameQueues
  <2>4. PICK p : p = SlotWith(t.q, k, t.r, t.all)
    OBVIOUS
  <2>5. BufferedInsts(p) = BufferedInsts(q)
    BY <1>4, <1>5, <1>7, <2>1, <2>2, <2>3, <2>4, SentSlotInsts
  <2> QED BY <1>1, <1>2, <1>3, <1>7, <2>4, <2>5 DEF SlotsLoop
<1> QED
  BY <1>3, <1>6, <1>7, StepSlotCases

\* Barriers leave from the front of the store buffer, and with one of them what was
\* remembered.
BarriersEased(p, q) ==
    /\ BufferedInsts(p) \subseteq BufferedInsts(q)
    /\ \A b \in BufferedInsts(q) \ BufferedInsts(p) :
         IsBarrier(b) => \A n \in BufferedInsts(p) : b < n
    /\ \/ p.lastMemBarrier = q.lastMemBarrier
       \/ \E b \in BufferedInsts(q) \ BufferedInsts(p) : IsBarrier(b)

LEMMA ClearLeadingSlots ==
    ASSUME prog \in Seq(Instructions), NEW h \in Nat, NEW q, Good(q, h),
           q.state = "MemoryRunning", NEW p, p = ClearLeadingBarriers(q)
    PROVE  BarriersEased(p, q)
<1>1. q \in LSQs /\ p \in LSQs
  BY ClearLeadingEased, GoodParts DEF Eased
<1>2. CASE p = q
  BY <1>2 DEF BarriersEased
<1>3. CASE \E k \in Nat \ {0} :
             /\ Barriers(q, k)
             /\ p = [ClearMemBarrier(q, q.slots[k].inst) EXCEPT
                       !.slots = SubSeq(q.slots, k + 1, Len(q.slots)),
                       !.numUnissuedAccesses = q.numUnissuedAccesses - k]
  <2>1. PICK k \in Nat \ {0} :
             /\ Barriers(q, k)
             /\ p = [ClearMemBarrier(q, q.slots[k].inst) EXCEPT
                       !.slots = SubSeq(q.slots, k + 1, Len(q.slots)),
                       !.numUnissuedAccesses = q.numUnissuedAccesses - k]
    BY <1>3
  <2> PICK s, t : s = q.slots /\ t = p.slots
    OBVIOUS
  <2>2. t = SubSeq(s, k + 1, Len(s))
    <3>1. PICK z : z = ClearMemBarrier(q, q.slots[k].inst)
      OBVIOUS
    <3>2. z \in LSQs
      BY <1>1, <3>1, ClearMemBarrierIs
    <3>3. p = [z EXCEPT !.slots = SubSeq(s, k + 1, Len(s)),
                        !.numUnissuedAccesses = q.numUnissuedAccesses - k]
      BY <2>1, <3>1
    <3> QED BY <3>2, <3>3 DEF LSQs
  <2>3. s \in Seq(Slot) /\ InOrder(s) /\ t \in Seq(Slot)
    BY <1>1, GoodParts, QueueTypes DEF Ordered, QueuesInOrder
  <2>4. k \in 0..Len(s) /\ \A i \in 1..k : IsBarrier(s[i].inst)
    BY <2>1 DEF Barriers
  <2>5. \A x \in Slot : x.inst \in Nat
    BY InstTypes
  <2>6. Len(t) = Len(s) - k /\ \A i \in 1..Len(t) : i + k \in 1..Len(s) /\ t[i] = s[i + k]
    BY <2>2, <2>3, <2>4, <2>5, Dropped
  <2>7. /\ BufferedInsts(q) = {s[i].inst : i \in 1..Len(s)}
        /\ BufferedInsts(p) = {t[i].inst : i \in 1..Len(t)}
    <3>1. ToSet(s) = {s[i] : i \in 1..Len(s)} /\ ToSet(t) = {t[i] : i \in 1..Len(t)}
      BY <2>3, Members
    <3> QED BY <3>1 DEF BufferedInsts
  <2>8. Len(s) \in Nat /\ Len(t) \in Nat
    BY <2>3, LenProperties
  <2>9. \A i \in 1..k, n \in BufferedInsts(p) : s[i].inst < n
    <3> SUFFICES ASSUME NEW i \in 1..k, NEW j \in 1..Len(t) PROVE s[i].inst < t[j].inst
      BY <2>7
    <3>1. i \in 1..Len(s) /\ j + k \in 1..Len(s) /\ i < j + k /\ t[j] = s[j + k]
      BY <2>4, <2>6, <2>8
    <3> QED BY <2>3, <3>1 DEF InOrder
  <2>10. \A b \in BufferedInsts(q) : b \in BufferedInsts(p) \/ \E i \in 1..k : b = s[i].inst
    <3> SUFFICES ASSUME NEW i \in 1..Len(s), i \notin 1..k PROVE s[i].inst \in BufferedInsts(p)
      BY <2>7
    <3>1. i - k \in 1..Len(t)
      BY <2>4, <2>6, <2>8
    <3>2. t[i - k] = s[(i - k) + k] /\ (i - k) + k = i
      BY <2>1, <2>6, <3>1
    <3> QED BY <2>7, <3>1, <3>2
  <2>11. BufferedInsts(p) \subseteq BufferedInsts(q)
    BY <2>6, <2>7
  <2>12. \A b \in BufferedInsts(q) \ BufferedInsts(p) :
           IsBarrier(b) => \A n \in BufferedInsts(p) : b < n
    BY <2>9, <2>10
  <2>13. p.lastMemBarrier = q.lastMemBarrier
         \/ \E b \in BufferedInsts(q) \ BufferedInsts(p) : IsBarrier(b)
    <3>1. k \in 1..k /\ k \in 1..Len(s) /\ s[k] \in Slot
      BY <2>3, <2>4, <2>8, ElementOfSeq
    <3>2. s[k].inst \notin BufferedInsts(p)
      BY <2>5, <2>9, <3>1
    <3> QED BY <2>4, <2>7, <3>1, <3>2
  <2> QED BY <2>11, <2>12, <2>13 DEF BarriersEased
<1> QED BY <1>1, <1>2, <1>3, LeadingBarriers

\* StoreBuffer::step.
LEMMA StoreBufferSlots ==
    ASSUME prog \in Seq(Instructions), NEW h \in Nat, NEW q, Good(q, h), NEW p \in StoreBufferStep(q)
    PROVE  BarriersEased(p, q)
<1> DEFINE c == ClearLeadingBarriers(q)
<1>1. CASE q.numUnissuedAccesses = 0 \/ q.state # "MemoryRunning"
  <2>1. p = q
    BY <1>1 DEF StoreBufferStep
  <2> QED BY <2>1 DEF BarriersEased
<1>2. CASE ~(q.numUnissuedAccesses = 0 \/ q.state # "MemoryRunning")
  <2>1. Eased(c, q, h) /\ BarriersEased(c, q)
    BY <1>2, ClearLeadingEased, ClearLeadingSlots
  <2>2. PICK x \in Turns(c)[Len(c.slots)] : p = x.q
    BY <1>2 DEF StoreBufferStep
  <2> HIDE DEF c
  <2>3. Good(c, h) /\ c \in LSQs /\ Len(c.slots) \in Nat
    BY <2>1, GoodParts, QueueTypes, LenProperties DEF Eased
  <2> DEFINE G == [k \in 0..Len(c.slots) |-> SlotsLoop(c, h)]
  <2>4. [q |-> c, issued |-> TRUE, count |-> 0] \in G[0]
    <3>1. [q |-> c, issued |-> TRUE, count |-> 0] \in LoopState(c, h)
      BY <2>3 DEF LoopState, Kept
    <3>2. 0 \in 0..Len(c.slots)
      BY <2>3
    <3> QED BY <3>1, <3>2 DEF SlotsLoop
  <2>5. \A k \in 1..Len(c.slots) : \A y \in G[k - 1], z \in LoopStates(c) :
          z \in StepSlot(y, k) => z \in G[k]
    <3> SUFFICES ASSUME NEW k \in 1..Len(c.slots), NEW y \in G[k - 1], NEW z \in StepSlot(y, k)
                 PROVE  z \in G[k]
      OBVIOUS
    <3>1. k \in 0..Len(c.slots) /\ k - 1 \in 0..Len(c.slots)
      BY <2>3
    <3>2. y \in SlotsLoop(c, h)
      BY <3>1
    <3>3. z \in SlotsLoop(c, h)
      BY <2>3, <3>2, StepSlotSlots
    <3> QED BY <3>1, <3>3
  <2>6. G[Len(c.slots)] = SlotsLoop(c, h)
    BY <2>3
  <2> HIDE DEF G
  <2>7. x \in SlotsLoop(c, h)
    BY <2>2, <2>3, <2>4, <2>5, <2>6, LoopInvariant
  <2>8. SameBuffered(p, c)
    BY <2>2, <2>7 DEF SlotsLoop, LoopState, Kept, SameBuffered
  <2> QED BY <2>1, <2>8 DEF BarriersEased, SameBuffered
<1> QED BY <1>1, <1>2

\* LSQ::step.
LEMMA LSQStepSlots ==
    ASSUME prog \in Seq(Instructions), NEW h \in Nat, NEW q, Good(q, h), NEW p \in LSQStep(q)
    PROVE  BarriersEased(p, q)
<1>1. PICK t \in TryToSendToTransfers(q) : p \in StoreBufferStep(t)
  BY DEF LSQStep
<1>2. Good(t, h) /\ t.lastMemBarrier = q.lastMemBarrier
  BY TransfersKept DEF Kept
<1>3. BufferedInsts(t) = BufferedInsts(q)
  BY TransfersSlots, SameSlotsBuffered
<1>4. BarriersEased(p, t)
  BY <1>1, <1>2, StoreBufferSlots
<1> QED BY <1>2, <1>3, <1>4 DEF BarriersEased

----------------------------------------------------------------------------
(* The steps of Execute and the barriers. *)

\* What BarrierInv says of a queue, the instructions it holds, and those in flight.
BarriersOK(q, held, flight, done) ==
    /\ \A b \in flight \cup BufferedInsts(q) : IsBarrier(b) =>
         q.lastMemBarrier = b /\ \A n \in held \cup BufferedInsts(q) : n <= b
    /\ \A b \in done, n \in BufferedInsts(q) : IsBarrier(b) /\ n < b => b \in BufferedInsts(q)

LEMMA BarrierNow == BarrierInv <=> BarriersOK(lsq, inLSQ, InFlight, committed)
BY DEF BarrierInv, BarriersInFlight, BarriersOK

LEMMA BarrierAfter ==
    ASSUME prog' = prog
    PROVE  BarrierInv' <=> BarriersOK(lsq', inLSQ', InFlight', committed')
BY SameProgram DEF BarrierInv, BarriersInFlight, BarriersOK, BufferedInsts

LEMMA BufferedTypes ==
    ASSUME LSQInv, FlightInv
    PROVE  \A n \in BufferedInsts(lsq) : n \in Nat /\ n < head
<1>1. prog \in Seq(Instructions) /\ lsq \in LSQs /\ OldAndNew(lsq, head)
  BY FlightTypes DEF LSQInv, Good, QueueShape
<1>2. lsq.slots \in Seq(Slot)
  BY <1>1, QueueTypes
<1>3. ToSet(lsq.slots) = {lsq.slots[i] : i \in 1..Len(lsq.slots)} /\ ToSet(lsq.slots) \subseteq Slot
  BY <1>2, Members
<1>4. \A x \in Slot : x.inst \in Nat
  BY <1>1, InstTypes
<1>5. \A s \in ToSet(lsq.slots) : s.inst < head
  BY <1>1, <1>3 DEF OldAndNew
<1> QED BY <1>3, <1>4, <1>5 DEF BufferedInsts

\* A barrier of the store buffer is cleared, if any.
LEMMA EvaluateBarriers ==
    ASSUME LSQInv, FlightInv, RegsInv, BarrierInv, BarriersApart, Evaluate
    PROVE  BarrierInv'
<1>1. lsq' \in LSQStep(lsq) /\ UNCHANGED <<prog, head, issued, inLSQ, committed>>
  BY DEF Evaluate, flightVars
<1>2. BarriersEased(lsq', lsq)
  BY <1>1, FlightTypes, LSQStepSlots DEF LSQInv
<1>3. InFlight' = InFlight
  BY <1>1 DEF InFlight
<1>4. BarriersOK(lsq, inLSQ, InFlight, committed)
  BY BarrierNow
<1>5. \A b \in InFlight : b >= head
  BY FlightTypes DEF InFlight
<1>6. ASSUME NEW b \in InFlight \cup BufferedInsts(lsq'), IsBarrier(b)
      PROVE  lsq'.lastMemBarrier = b
  <2>1. b \in BarriersInFlight /\ b \in InFlight \cup BufferedInsts(lsq)
    BY <1>2, <1>6 DEF BarriersEased, BarriersInFlight
  <2>2. ASSUME NEW c \in BufferedInsts(lsq) \ BufferedInsts(lsq'), IsBarrier(c) PROVE FALSE
    <3>1. c = b
      BY <2>1, <2>2 DEF BarriersApart, BarriersInFlight
    <3>2. b \in InFlight
      BY <1>6, <2>2, <3>1
    <3>3. b \in Nat /\ b < head
      BY <2>2, <3>1, BufferedTypes
    <3> QED BY <1>5, <3>2, <3>3, FlightTypes
  <2>3. lsq'.lastMemBarrier = lsq.lastMemBarrier
    BY <1>2, <2>2 DEF BarriersEased
  <2> QED BY <1>4, <1>6, <2>1, <2>3 DEF BarriersOK
<1>7. ASSUME NEW b \in committed, NEW n \in BufferedInsts(lsq'), IsBarrier(b), n < b
      PROVE  b \in BufferedInsts(lsq')
  <2>1. n \in BufferedInsts(lsq) /\ n \in Nat
    BY <1>2, <1>7, BufferedTypes DEF BarriersEased
  <2>2. b \in BufferedInsts(lsq) /\ b \in Nat
    BY <1>4, <1>7, <2>1, BufferedTypes DEF BarriersOK
  <2>3. b \notin BufferedInsts(lsq') => b < n
    BY <1>2, <1>7, <2>2 DEF BarriersEased
  <2> QED BY <1>7, <2>1, <2>2, <2>3
<1>8. \A b \in InFlight \cup BufferedInsts(lsq') : IsBarrier(b) =>
        \A n \in inLSQ \cup BufferedInsts(lsq') : n <= b
  BY <1>2, <1>4 DEF BarriersEased, BarriersOK
<1>9. BarriersOK(lsq', inLSQ, InFlight, committed)
  BY <1>6, <1>7, <1>8 DEF BarriersOK
<1> QED BY <1>1, <1>3, <1>9, BarrierAfter

\* No barrier leaves the store buffer and no access goes to the queue.
LEMMA BarriersWait ==
    ASSUME BarrierInv, BarriersStay(lsq', lsq), lsq'.lastMemBarrier = lsq.lastMemBarrier,
           UNCHANGED <<prog, head, issued, inLSQ, committed>>
    PROVE  BarrierInv'
<1>1. InFlight' = InFlight
  BY DEF InFlight
<1>2. BarriersOK(lsq, inLSQ, InFlight, committed)
  BY BarrierNow
<1>3. BarriersOK(lsq', inLSQ, InFlight, committed)
  BY <1>2 DEF BarriersOK, BarriersStay
<1> QED BY <1>1, <1>3, BarrierAfter

LEMMA FinishBarriers ==
    ASSUME LSQInv, FlightInv, BarrierInv, Finish
    PROVE  BarrierInv'
<1>1. PICK i \in 1..Len(lsq.requests), f \in Faults :
        lsq.requests[i].state = "InTranslation" /\ lsq' \in FinishTranslation(lsq, i, f)
  BY DEF Finish
<1>2. f \in BOOLEAN
  BY DEF Faults
<1>3. UNCHANGED <<prog, head, issued, inLSQ, committed>>
  BY DEF Finish, flightVars
<1>4. Kept(lsq', lsq, head)
  BY <1>1, <1>2, FlightTypes, FinishKept DEF LSQInv
<1>5. lsq'.slots = lsq.slots
  BY <1>1, <1>2, FlightTypes, FinishSlots DEF LSQInv
<1>6. BarriersStay(lsq', lsq)
  BY <1>5, SameSlotsBuffered DEF BarriersStay
<1> QED BY <1>3, <1>4, <1>6, BarriersWait DEF Kept

LEMMA MemoryRespondsBarriers ==
    ASSUME LSQInv, FlightInv, BarrierInv, MemoryResponds
    PROVE  BarrierInv'
<1>1. lsq' \in RecvTimingResp(lsq) /\ UNCHANGED <<prog, head, issued, inLSQ, committed>>
  BY DEF MemoryResponds, flightVars
<1>2. Kept(lsq', lsq, head)
  BY <1>1, FlightTypes, RespKept DEF LSQInv
<1>3. BarriersStay(lsq', lsq)
  BY <1>1, FlightTypes, RespSlots DEF LSQInv
<1> QED BY <1>1, <1>2, <1>3, BarriersWait DEF Kept

LEMMA MemoryRetriesBarriers ==
    ASSUME LSQInv, FlightInv, BarrierInv, MemoryRetries
    PROVE  BarrierInv'
<1>1. lsq' \in RecvReqRetry(lsq) /\ lsq.state = "MemoryNeedsRetry"
      /\ UNCHANGED <<prog, head, issued, inLSQ, committed>>
  BY DEF MemoryRetries, flightVars
<1>2. Kept(lsq', lsq, head)
  BY <1>1, FlightTypes, RetryKept DEF LSQInv
<1>3. BufferedInsts(lsq') = BufferedInsts(lsq)
  BY <1>1, FlightTypes, RetrySlots DEF LSQInv
<1>4. BarriersStay(lsq', lsq)
  BY <1>3 DEF BarriersStay
<1> QED BY <1>1, <1>2, <1>4, BarriersWait DEF Kept

LEMMA QuietBarriers ==
    ASSUME BarrierInv,
           \/ TakeInterrupt \/ BeginCommit \/ SkipCommit \/ EndCommit \/ EndIssue \/ EndCycle
           \/ PostInterrupt \/ Drain \/ DrainResume \/ UNCHANGED vars
    PROVE  BarrierInv'
<1>1. UNCHANGED <<prog, head, issued, inLSQ, lsq, committed>>
  BY DEF TakeInterrupt, InterruptTaken, BeginCommit, SkipCommit, EndCommit, EndIssue, EndCycle,
         PostInterrupt, Drain, DrainResume, flightVars, vars
<1>2. BarriersStay(lsq', lsq) /\ lsq'.lastMemBarrier = lsq.lastMemBarrier
  BY <1>1 DEF BarriersStay
<1> QED BY <1>1, <1>2, BarriersWait

\* An access that goes to the queue has no barrier before it.
LEMMA IssueToLSQBarriers ==
    ASSUME LSQInv, FlightInv, BarrierInv, IssueToLSQ
    PROVE  BarrierInv'
<1>1. PICK n \in InFlight :
        GoesToLSQ(n) /\ lsq' \in PushRequest(lsq, n) /\ inLSQ' = inLSQ \cup {n}
  BY DEF IssueToLSQ
<1>2. UNCHANGED <<prog, head, issued, committed>>
  BY DEF IssueToLSQ
<1>3. CanRequest(lsq) /\ Pushable(lsq, head, n)
  BY <1>1, GoesFacts
<1>4. lsq'.slots = lsq.slots
  BY <1>1, <1>3, FlightTypes, PushSlots DEF LSQInv
<1>5. Grown(lsq', lsq, head, n)
  BY <1>1, <1>3, FlightTypes, PushGrows DEF LSQInv
<1>6. BufferedInsts(lsq') = BufferedInsts(lsq) /\ lsq'.lastMemBarrier = lsq.lastMemBarrier
  BY <1>4, <1>5, SameSlotsBuffered DEF Grown
<1>7. InFlight' = InFlight /\ BarriersOK(lsq, inLSQ, InFlight, committed)
  BY <1>2, BarrierNow DEF InFlight
<1>8. ASSUME NEW b \in InFlight \cup BufferedInsts(lsq), IsBarrier(b)
      PROVE  n <= b
  <2>1. lsq.lastMemBarrier = b
    BY <1>7, <1>8 DEF BarriersOK
  <2>2. n \in Nat /\ n >= head /\ head \in Nat
    BY <1>1, FlightTypes DEF InFlight
  <2>3. \A x \in BufferedInsts(lsq) : x \in Insts
    <3>1. lsq.slots \in Seq(Slot)
      BY FlightTypes, QueueTypes DEF LSQInv, Good, QueueShape
    <3>2. ToSet(lsq.slots) \subseteq Slot
      BY <3>1, Members
    <3> QED BY <3>2 DEF BufferedInsts, Slot, Request
  <2>4. b \in Insts
    BY <1>8, <2>3, FlightTypes
  <2>5. b \in Nat /\ b # 0
    BY <2>4, FlightTypes DEF Insts
  <2>6. ~(lsq.lastMemBarrier # 0 /\ lsq.lastMemBarrier < n)
    BY <1>1 DEF GoesToLSQ, BarrierInFlight
  <2> QED BY <2>1, <2>2, <2>5, <2>6
<1>9. BarriersOK(lsq', inLSQ', InFlight, committed)
  BY <1>1, <1>6, <1>7, <1>8 DEF BarriersOK
<1> QED BY <1>2, <1>7, <1>9, BarrierAfter

\* The head leaves inFlightInsts; a barrier that commits goes to the store buffer.
LEMMA HeadBarriers ==
    ASSUME LSQInv, FlightInv, BarrierInv, head \in InFlight, Complete,
           InFlight' = InFlight \ {head}, committed' \subseteq committed \cup {head},
           lsq'.lastMemBarrier = lsq.lastMemBarrier,
           BufferedInsts(lsq) \subseteq BufferedInsts(lsq'),
           BufferedInsts(lsq') \subseteq BufferedInsts(lsq) \cup {head},
           IsBarrier(head) => head \in BufferedInsts(lsq') \/ head \notin committed',
           ~IsBarrier(head) => head \in inLSQ \/ head \notin BufferedInsts(lsq')
    PROVE  BarrierInv'
<1>1. prog' = prog /\ inLSQ' = inLSQ \ {head}
  BY DEF Complete
<1>2. BarriersOK(lsq, inLSQ, InFlight, committed)
  BY BarrierNow
<1>3. \A n \in committed : n \in Nat /\ n < head
  BY FlightTypes DEF FlightInv
<1>4. ASSUME NEW b \in InFlight' \cup BufferedInsts(lsq'), IsBarrier(b)
      PROVE  lsq'.lastMemBarrier = b /\ \A n \in inLSQ' \cup BufferedInsts(lsq') : n <= b
  <2>1. b \in InFlight \cup BufferedInsts(lsq)
    BY <1>4
  <2>2. lsq.lastMemBarrier = b /\ \A n \in inLSQ \cup BufferedInsts(lsq) : n <= b
    BY <1>2, <1>4, <2>1 DEF BarriersOK
  <2>3. CASE head \in inLSQ \cup BufferedInsts(lsq) \/ head \notin BufferedInsts(lsq')
    BY <1>1, <2>2, <2>3
  <2>4. CASE head \notin inLSQ \cup BufferedInsts(lsq) /\ head \in BufferedInsts(lsq')
    <3>1. IsBarrier(head)
      BY <2>4
    <3>2. lsq.lastMemBarrier = head
      BY <1>2, <3>1 DEF BarriersOK
    <3>3. head <= b
      BY <2>2, <3>2, FlightTypes
    <3> QED BY <1>1, <2>2, <3>3
  <2> QED BY <2>3, <2>4
<1>5. ASSUME NEW b \in committed', NEW n \in BufferedInsts(lsq'), IsBarrier(b), n < b
      PROVE  b \in BufferedInsts(lsq')
  <2>1. CASE b = head
    BY <1>5, <2>1
  <2>2. CASE b # head
    <3>1. b \in committed /\ b \in Nat /\ b < head
      BY <1>3, <2>2
    <3>2. n # head
      BY <1>5, <3>1, FlightTypes
    <3> QED BY <1>2, <1>5, <3>1, <3>2 DEF BarriersOK
  <2> QED BY <2>1, <2>2
<1>6. BarriersOK(lsq', inLSQ', InFlight', committed')
  BY <1>4, <1>5 DEF BarriersOK
<1> QED BY <1>1, <1>6, BarrierAfter

LEMMA HeadOut ==
    ASSUME LSQInv, FlightInv
    PROVE  head \notin BufferedInsts(lsq)
BY FlightTypes, BufferedTypes

LEMMA PopBarriers ==
    ASSUME prog \in Seq(Instructions), NEW h \in Nat, NEW q, Good(q, h), FindResponse(q, h),
           NEW p, p = PopResponse(q)
    PROVE  BufferedInsts(p) = BufferedInsts(q) /\ p.lastMemBarrier = q.lastMemBarrier
<1>1. q \in LSQs
  BY GoodParts
<1>2. q.transfers # <<>> /\ Head(q.transfers).issuedToMemory \in BOOLEAN
  BY FoundResponse
<1>3. p.slots = q.slots /\ p.lastMemBarrier = q.lastMemBarrier
  BY <1>1, <1>2, PopIs
<1> QED BY <1>3, SameSlotsBuffered

LEMMA HandledBarriers ==
    ASSUME prog \in Seq(Instructions), NEW h \in Nat, NEW q, Good(q, h), FindResponse(q, h),
           NEW p, p = ResponseHandled(q)
    PROVE  /\ BufferedInsts(p) \in {BufferedInsts(q), BufferedInsts(q) \cup {h}}
           /\ p.lastMemBarrier = q.lastMemBarrier
<1> DEFINE o == Head(q.transfers)
<1>1. CASE o.state = "StoreToStoreBuffer"
  <2>1. q \in LSQs /\ q.slots \in Seq(Slot)
    BY GoodParts, QueueTypes
  <2>2. q.transfers # <<>> /\ o \in Transferring /\ o.inst = h
    BY FoundResponse
  <2>3. PICK r : r = AsState(o, "StoreInStoreBuffer")
    OBVIOUS
  <2>4. p = PopResponse(Insert(q, r))
    BY <1>1, <2>3 DEF ResponseHandled, AsState
  <2>5. p.slots = Append(q.slots, r) /\ p.lastMemBarrier = q.lastMemBarrier
    BY <1>1, <2>1, <2>2, <2>3, <2>4, StoreHandledIs
  <2>6. r \in Slot /\ r.inst = h
    BY <1>1, <2>2, <2>3, StoreIsSlot
  <2>7. ToSet(p.slots) = ToSet(q.slots) \cup {r}
    BY <2>1, <2>5, <2>6, AppendSet
  <2> QED BY <2>5, <2>6, <2>7 DEF BufferedInsts
<1>2. CASE o.state # "StoreToStoreBuffer"
  <2>1. p = PopResponse(q)
    BY <1>2 DEF ResponseHandled
  <2> QED BY <2>1, PopBarriers
<1> QED BY <1>1, <1>2

LEMMA ResponseHeld ==
    ASSUME LSQInv, FlightInv, HasResponse, InFlight # {}
    PROVE  head \in inLSQ /\ ~IsBarrier(head)
<1>1. head \in inLSQ /\ lsq \in LSQs
  BY GoodParts DEF HasResponse, LSQInv
<1>2. IsMemRef(head)
  BY <1>1, FlightTypes, HeldAccess DEF LSQInv
<1> QED BY <1>1, <1>2 DEF IsMemRef, IsLoad, IsStore, IsBarrier

LEMMA CommitResponseBarriers ==
    ASSUME LSQInv, FlightInv, BarrierInv, CommitResponse
    PROVE  BarrierInv'
<1>1. /\ FindResponse(lsq, head) /\ Complete /\ HasResponse /\ InFlight # {}
      /\ lsq' \in {PopResponse(lsq), ResponseHandled(lsq)}
      /\ committed' \subseteq committed \cup {head}
      /\ streamStart' \in {streamStart, issued}
  BY DEF CommitResponse, HasResponse, ChangesStream, Committing
<1>2. InFlight' = InFlight \ {head} /\ head \in InFlight
  BY <1>1, CompleteFlight
<1>3. /\ BufferedInsts(lsq') \in {BufferedInsts(lsq), BufferedInsts(lsq) \cup {head}}
      /\ lsq'.lastMemBarrier = lsq.lastMemBarrier
  BY <1>1, FlightTypes, PopBarriers, HandledBarriers DEF LSQInv
<1>4. head \in inLSQ /\ ~IsBarrier(head)
  BY <1>1, ResponseHeld
<1> QED BY <1>1, <1>2, <1>3, <1>4, HeadBarriers

LEMMA DiscardResponseBarriers ==
    ASSUME LSQInv, FlightInv, BarrierInv, DiscardResponse
    PROVE  BarrierInv'
<1>1. /\ FindResponse(lsq, head) /\ Complete /\ HasResponse /\ InFlight # {}
      /\ lsq' = PopResponse(lsq) /\ committed' = committed /\ streamStart' = streamStart
  BY DEF DiscardResponse, HasResponse, Committing
<1>2. InFlight' = InFlight \ {head} /\ head \in InFlight
  BY <1>1, CompleteFlight
<1>3. BufferedInsts(lsq') = BufferedInsts(lsq) /\ lsq'.lastMemBarrier = lsq.lastMemBarrier
  BY <1>1, FlightTypes, PopBarriers DEF LSQInv
<1>4. head \in inLSQ /\ ~IsBarrier(head)
  BY <1>1, ResponseHeld
<1> QED BY <1>1, <1>2, <1>3, <1>4, HeadBarriers

LEMMA CommitInstBarriers ==
    ASSUME LSQInv, FlightInv, BarrierInv, CommitInst
    PROVE  BarrierInv'
<1>1. /\ FromFU /\ Complete
      /\ lsq' = IF IsBarrier(head) THEN CompleteMemBarrierInst(lsq, head, TRUE) ELSE lsq
      /\ committed' = committed \cup {head} /\ streamStart' \in {streamStart, issued}
  BY DEF CommitInst, ChangesStream
<1>2. InFlight # {} /\ head \in Insts /\ lsq \in LSQs /\ lsq.slots \in Seq(Slot)
  BY <1>1, HeadFromFU, FlightTypes, GoodParts, QueueTypes DEF LSQInv
<1>3. InFlight' = InFlight \ {head} /\ head \in InFlight
  BY <1>1, <1>2, CompleteFlight
<1>4. CASE IsBarrier(head)
  <2>1. PICK r : r = NewRequest(head, "Complete")
    OBVIOUS
  <2>2. lsq' = Insert(lsq, r)
    BY <1>1, <1>4, <2>1 DEF CompleteMemBarrierInst
  <2>3. r \in Slot /\ r.inst = head
    BY <1>2, <1>4, <2>1, FlightTypes, BarrierIsSlot
  <2>4. lsq'.slots = Append(lsq.slots, r) /\ lsq'.lastMemBarrier = lsq.lastMemBarrier
    BY <1>2, <2>2, InsertIs
  <2>5. ToSet(lsq'.slots) = ToSet(lsq.slots) \cup {r}
    BY <1>2, <2>3, <2>4, AppendSet
  <2>6. BufferedInsts(lsq') = BufferedInsts(lsq) \cup {head}
    BY <2>3, <2>5 DEF BufferedInsts
  <2> QED BY <1>1, <1>3, <1>4, <2>4, <2>6, HeadBarriers
<1>5. CASE ~IsBarrier(head)
  BY <1>1, <1>3, <1>5, HeadOut, HeadBarriers
<1> QED BY <1>4, <1>5

\* A barrier that is discarded was the only one.
LEMMA DiscardInstBarriers ==
    ASSUME LSQInv, FlightInv, BarrierInv, BarriersApart, DiscardInst
    PROVE  BarrierInv'
<1>1. /\ FromFU /\ Complete
      /\ lsq' = IF IsBarrier(head) THEN CompleteMemBarrierInst(lsq, head, FALSE) ELSE lsq
      /\ committed' = committed /\ streamStart' = streamStart
  BY DEF DiscardInst
<1>2. InFlight # {} /\ lsq \in LSQs
  BY <1>1, HeadFromFU, GoodParts DEF LSQInv
<1>3. InFlight' = InFlight \ {head} /\ head \in InFlight
  BY <1>1, <1>2, CompleteFlight
<1>4. CASE IsBarrier(head)
  <2>1. lsq' = ClearMemBarrier(lsq, head)
    BY <1>1, <1>4 DEF CompleteMemBarrierInst
  <2>2. lsq'.slots = lsq.slots
    BY <1>2, <2>1, ClearMemBarrierIs
  <2>3. BufferedInsts(lsq') = BufferedInsts(lsq)
    BY <2>2, SameSlotsBuffered
  <2>4. \A b \in InFlight \cup BufferedInsts(lsq) : IsBarrier(b) => b = head
    BY <1>3, <1>4 DEF BarriersApart, BarriersInFlight
  <2>5. \A b \in InFlight' \cup BufferedInsts(lsq') : ~IsBarrier(b)
    BY <1>3, <2>3, <2>4, HeadOut
  <2>6. BarriersOK(lsq, inLSQ, InFlight, committed)
    BY BarrierNow
  <2>7. BarriersOK(lsq', inLSQ', InFlight', committed')
    BY <1>1, <2>3, <2>5, <2>6 DEF BarriersOK
  <2> QED BY <1>1, <2>7, BarrierAfter DEF Complete
<1>5. CASE ~IsBarrier(head)
  BY <1>1, <1>3, <1>5, HeadOut, HeadBarriers
<1> QED BY <1>4, <1>5

LEMMA ApartAfter ==
    ASSUME prog' = prog, BarriersApart'
    PROVE  \A b, c \in InFlight' \cup BufferedInsts(lsq') : IsBarrier(b) /\ IsBarrier(c) => b = c
BY SameProgram DEF BarriersApart, BarriersInFlight, BufferedInsts

\* A barrier is issued when there is no other, behind everything in flight.
LEMMA IssueInstBarriers ==
    ASSUME LSQInv, FlightInv, RegsInv, BarrierInv, BarriersApart', IssueInst
    PROVE  BarrierInv'
<1>1. PICK n : n = issued + 1
  OBVIOUS
<1>2. /\ UNCHANGED <<prog, head, inLSQ, committed>>
      /\ lsq' = IF IsBarrier(n) THEN [lsq EXCEPT !.lastMemBarrier = n] ELSE lsq
  BY <1>1 DEF IssueInst
<1>3. InFlight' = InFlight \cup {n} /\ n \in Insts
  BY <1>1, IssueFlight
<1>4. BarriersOK(lsq, inLSQ, InFlight, committed)
  BY BarrierNow
<1>5. CASE ~IsBarrier(n)
  <2>1. BarriersOK(lsq', inLSQ', InFlight', committed')
    BY <1>2, <1>3, <1>4, <1>5 DEF BarriersOK
  <2> QED BY <1>2, <2>1, BarrierAfter
<1>6. CASE IsBarrier(n)
  <2>1. lsq \in LSQs /\ n \in 0..Len(prog)
    BY <1>3, FlightTypes, GoodParts DEF LSQInv, Insts
  <2>2. lsq'.lastMemBarrier = n /\ lsq'.slots = lsq.slots
    BY <1>2, <1>6, <2>1 DEF LSQs
  <2>3. BufferedInsts(lsq') = BufferedInsts(lsq)
    BY <2>2, SameSlotsBuffered
  <2>4. \A b \in InFlight' \cup BufferedInsts(lsq') : IsBarrier(b) => b = n
    BY <1>2, <1>3, <1>6, ApartAfter
  <2>5. \A m \in BufferedInsts(lsq) : m <= n
    BY <1>1, FlightTypes, BufferedTypes
  <2>6. \A m \in inLSQ : m <= n
    BY <1>1, FlightTypes DEF FlightInv, InFlight
  <2>7. \A b \in InFlight' \cup BufferedInsts(lsq') : IsBarrier(b) =>
          lsq'.lastMemBarrier = b /\ \A m \in inLSQ' \cup BufferedInsts(lsq') : m <= b
    BY <1>2, <2>2, <2>3, <2>4, <2>5, <2>6
  <2>8. BarriersOK(lsq', inLSQ', InFlight', committed')
    BY <1>2, <1>4, <2>3, <2>7 DEF BarriersOK
  <2> QED BY <1>2, <2>8, BarrierAfter
<1> QED BY <1>5, <1>6

----------------------------------------------------------------------------
(* Barriers in every behaviour. *)

LEMMA InitBarriers == Init => BarrierInv
<1> SUFFICES ASSUME Init PROVE BarrierInv
  OBVIOUS
<1>1. lsq = EmptyLSQ /\ committed = {} /\ head = 1 /\ issued = 0
  BY DEF Init
<1>2. lsq.slots = <<>>
  BY <1>1 DEF EmptyLSQ
<1>3. BufferedInsts(lsq) = {}
  BY <1>2 DEF BufferedInsts, ToSet
<1>4. InFlight = {}
  BY <1>1 DEF InFlight
<1> QED BY <1>1, <1>3, <1>4 DEF BarrierInv, BarriersInFlight

LEMMA NextBarriers ==
    ASSUME LSQInv, FlightInv, RegsInv, BarrierInv, BarriersApart, BarriersApart', [Next]_vars
    PROVE  BarrierInv'
<1>1. CASE Evaluate
  BY <1>1, EvaluateBarriers
<1>2. CASE Finish
  BY <1>2, FinishBarriers
<1>3. CASE MemoryResponds
  BY <1>3, MemoryRespondsBarriers
<1>4. CASE MemoryRetries
  BY <1>4, MemoryRetriesBarriers
<1>5. CASE IssueToLSQ
  BY <1>5, IssueToLSQBarriers
<1>6. CASE CommitResponse
  BY <1>6, CommitResponseBarriers
<1>7. CASE DiscardResponse
  BY <1>7, DiscardResponseBarriers
<1>8. CASE CommitInst
  BY <1>8, CommitInstBarriers
<1>9. CASE DiscardInst
  BY <1>9, DiscardInstBarriers
<1>10. CASE IssueInst
  BY <1>10, IssueInstBarriers
<1>11. CASE \/ TakeInterrupt \/ BeginCommit \/ SkipCommit \/ EndCommit \/ EndIssue \/ EndCycle
            \/ PostInterrupt \/ Drain \/ DrainResume \/ UNCHANGED vars
  BY <1>11, QuietBarriers
<1> QED
  BY <1>1, <1>2, <1>3, <1>4, <1>5, <1>6, <1>7, <1>8, <1>9, <1>10, <1>11 DEF Next, Cycle

LEMMA StepBarriers ==
    QueueInv /\ BarrierInv /\ BarriersApart /\ BarriersApart' /\ [Next]_vars => BarrierInv'
BY NextBarriers, InvParts

\* One lastMemBarrier remembers every barrier that still keeps accesses back, in every
\* behaviour in which no barrier is issued before the one before it has been cleared or
\* discarded, for every program, every size of the queues and every limit
\* (issuedMemBarrierInst, completeMemBarrierInst, StoreBuffer::step).
THEOREM BarriersAlwaysRemembered == Spec /\ []BarriersApart => []BarrierInv
<1>1. Init => BarrierInv
  BY InitBarriers
<1>2. QueueInv /\ BarrierInv /\ BarriersApart /\ BarriersApart' /\ [Next]_vars => BarrierInv'
  BY StepBarriers
<1> QED BY <1>1, <1>2, QueueAlwaysInOrder, PTL DEF Spec

LEMMA PerformedHeld ==
    ASSUME LSQInv, FlightInv, NEW n, Performed(n)
    PROVE  n \in inLSQ \cup BufferedInsts(lsq)
<1>1. PICK r \in Requests : r.inst = n
  BY DEF Performed
<1>2. lsq \in LSQs /\ prog \in Seq(Instructions)
  BY FlightTypes, GoodParts DEF LSQInv
<1>3. lsq.requests \in Seq(Pending) /\ lsq.transfers \in Seq(Transferring)
  BY <1>2, QueueTypes
<1>4. ToSet(lsq.requests) = {lsq.requests[i] : i \in 1..Len(lsq.requests)}
  BY <1>3, Members
<1>5. ToSet(lsq.transfers) = {lsq.transfers[i] : i \in 1..Len(lsq.transfers)}
  BY <1>3, Members
<1>6. inLSQ = InstsOf(lsq.transfers) \cup InstsOf(lsq.requests)
  BY <1>2, HeldIs DEF LSQInv
<1> QED BY <1>1, <1>4, <1>5, <1>6 DEF Requests, InstsOf, BufferedInsts

LEMMA BarriersInOrder == QueueInv /\ BarrierInv => BarrierOrder
<1> SUFFICES ASSUME LSQInv, FlightInv, BarrierInv PROVE BarrierOrder
  BY InvParts
<1> SUFFICES ASSUME NEW n \in 1..issued, Performed(n),
                    NEW b \in 1..(n - 1), IsBarrier(b), OnPath(b),
                    NEW s \in 1..(b - 1), Incomplete(s)
             PROVE  FALSE
  BY DEF BarrierOrder
<1>1. issued \in Nat /\ n \in Nat /\ b \in Nat /\ s \in Nat /\ s < b /\ b < n /\ head \in Nat
  BY FlightTypes
<1>2. n \in inLSQ \cup BufferedInsts(lsq)
  BY PerformedHeld
<1>3. b \notin InFlight \cup BufferedInsts(lsq)
  BY <1>1, <1>2 DEF BarrierInv, BarriersInFlight
<1>4. b \in committed
  BY <1>3 DEF OnPath
<1>5. b < head
  BY <1>1, <1>4 DEF FlightInv
<1>6. s \notin InFlight
  BY <1>1, <1>5 DEF InFlight
<1>7. s \in BufferedInsts(lsq)
  BY <1>6 DEF Incomplete, BufferedInsts
<1> QED BY <1>1, <1>3, <1>4, <1>7 DEF BarrierInv

\* No access after a memory barrier is performed before the stores ahead of the barrier
\* have been answered, in every behaviour in which barriers do not follow each other so
\* closely that lastMemBarrier forgets one.
THEOREM BarriersAlwaysOrder == Spec /\ []BarriersApart => []BarrierOrder
BY QueueAlwaysInOrder, BarriersAlwaysRemembered, BarriersInOrder, PTL

LEMMA OneIsApart ==
    ASSUME OneBarrier
    PROVE  QueueInv => BarriersApart
<1> SUFFICES ASSUME LSQInv, FlightInv PROVE BarriersApart
  BY InvParts
<1>1. [prog |-> prog, events |-> events] \in Scenarios
  BY DEF FlightInv
<1>2. \A b, c \in 1..Len(prog) : prog[b].kind = "barrier" /\ prog[c].kind = "barrier" => b = c
  BY <1>1 DEF OneBarrier
<1>3. lsq.slots \in Seq(Slot)
  BY FlightTypes, GoodParts, QueueTypes DEF LSQInv
<1>4. ToSet(lsq.slots) \subseteq Slot
  BY <1>3, Members
<1>5. BufferedInsts(lsq) \subseteq Insts
  BY <1>4 DEF BufferedInsts, Slot, Request
<1>6. BarriersInFlight \subseteq Insts /\ \A b \in BarriersInFlight : IsBarrier(b)
  BY <1>5, FlightTypes DEF BarriersInFlight
<1> QED BY <1>2, <1>6 DEF BarriersApart, Insts, IsBarrier

\* In a program with one barrier no access after it is performed before the stores ahead of
\* it have been answered, whatever is refused, discarded, interrupted or drained
\* (lastMemBarrier, completeMemBarrierInst, StoreBuffer::step).
THEOREM OneBarrierOrders ==
    ASSUME OneBarrier
    PROVE  Spec => [](BarrierInv /\ BarrierOrder)
<1>1. QueueInv => BarriersApart
  BY OneIsApart
<1> QED BY <1>1, QueueAlwaysInOrder, BarriersAlwaysRemembered, BarriersAlwaysOrder, PTL
=============================================================================
