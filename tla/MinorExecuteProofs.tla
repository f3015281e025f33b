------------------------- MODULE MinorExecuteProofs -------------------------
(***************************************************************************)
(* Proofs about MinorExecute: the load/store queue keeps its shape, and    *)
(* agrees with the instructions in flight and the scoreboard, in every     *)
(* behaviour of the Execute stage, for every program, queue size and       *)
(* limit.                                                                  *)
(***************************************************************************)
EXTENDS MinorLSQProofs

----------------------------------------------------------------------------
(* The program does not change, so the parts of the invariant that speak of *)
(* it mean the same after a step.                                           *)

LEMMA SameProgram ==
    ASSUME prog' = prog
    PROVE  /\ Insts' = Insts /\ Request' = Request
           /\ \A n : /\ IsLoad(n)' = IsLoad(n) /\ IsStore(n)' = IsStore(n)
                     /\ IsMemRef(n)' = IsMemRef(n) /\ IsBarrier(n)' = IsBarrier(n)
                     /\ Bufferable(n)' = Bufferable(n) /\ Lines(n)' = Lines(n)
                     /\ NumFragments(n)' = NumFragments(n)
BY DEF Insts, Request, IsLoad, IsStore, IsMemRef, IsBarrier, Bufferable, Lines, NumFragments,
       States

LEMMA SamePlaces ==
    ASSUME prog' = prog
    PROVE  Pending' = Pending /\ Transferring' = Transferring /\ Slot' = Slot /\ LSQs' = LSQs
<1>1. Pending' = Pending
  BY SameProgram DEF Pending
<1>2. Transferring' = Transferring
  BY SameProgram DEF Transferring, FailedStore
<1>3. Slot' = Slot
  BY SameProgram DEF Slot
<1>4. LSQs' = LSQs
  BY <1>1, <1>2, <1>3 DEF LSQs
<1> QED BY <1>1, <1>2, <1>3, <1>4

LEMMA SameCounts ==
    ASSUME prog' = prog
    PROVE  CountsMatch(lsq)' <=> CountsMatch(lsq')
<1>1. StoresInTransfers(lsq)' = StoresInTransfers(lsq')
  BY SameProgram DEF StoresInTransfers
<1>2. UnissuedAccesses(lsq)' = UnissuedAccesses(lsq')
  BY SameProgram DEF UnissuedAccesses, SentAllPackets
<1>3. AccessesIssuedToMemory(lsq)' = AccessesIssuedToMemory(lsq')
  BY DEF AccessesIssuedToMemory
<1>4. PacketsInMemSystem(lsq)' = PacketsInMemSystem(lsq')
  BY DEF PacketsInMemSystem
<1> QED BY <1>1, <1>2, <1>3, <1>4 DEF CountsMatch

LEMMA SameShape ==
    ASSUME prog' = prog
    PROVE  /\ Good(lsq, head)' <=> Good(lsq', head')
           /\ Held(lsq)' = Held(lsq')
<1>1. QueuesInOrder(lsq)' <=> QueuesInOrder(lsq')
  BY DEF QueuesInOrder, InOrder
<1>2. OldAndNew(lsq, head)' <=> OldAndNew(lsq', head')
  BY DEF OldAndNew
<1>3. Sizes(lsq)' <=> Sizes(lsq')
  BY DEF Sizes
<1>4. OneRetry(lsq)' <=> OneRetry(lsq')
  BY DEF OneRetry
<1>5. FrontFirst(lsq)' <=> FrontFirst(lsq')
  BY SameProgram DEF FrontFirst, Started, Overlaps
<1>6. (lsq \in LSQs)' <=> lsq' \in LSQs
  BY SamePlaces
<1>7. Good(lsq, head)' <=> Good(lsq', head')
  BY <1>1, <1>2, <1>3, <1>4, <1>5, <1>6, SameCounts DEF Good, QueueShape
<1>8. Held(lsq)' = Held(lsq')
  BY SameProgram DEF Held, Has, Entry
<1> QED BY <1>7, <1>8

\* The instructions that the queue holds.
LEMMA HeldIs ==
    ASSUME prog \in Seq(Instructions), NEW q \in LSQs
    PROVE  Held(q) = InstsOf(q.transfers) \cup InstsOf(q.requests)
<1> DEFINE s == q.transfers
           t == q.requests
<1>1. s \in Seq(Transferring) /\ t \in Seq(Pending)
  BY QueueTypes
<1> HIDE DEF s, t
<1>2. \A i \in 1..Len(s) : s[i].inst \in Insts
  BY <1>1, ElementOfSeq, RequestFacts
<1>3. \A i \in 1..Len(t) : t[i].inst \in Insts
  BY <1>1, ElementOfSeq, RequestFacts
<1>4. Held(q) = {m \in Insts : Has(s, m) \/ Has(t, m)}
  BY DEF Held, s, t
<1>5. /\ \A m : Has(s, m) <=> m \in InstsOf(s)
      /\ \A m : Has(t, m) <=> m \in InstsOf(t)
  BY DEF Has, Entry, InstsOf
<1>6. InstsOf(s) \subseteq Insts /\ InstsOf(t) \subseteq Insts
  BY <1>2, <1>3 DEF InstsOf
<1>7. Held(q) = InstsOf(s) \cup InstsOf(t)
  BY <1>4, <1>5, <1>6
<1> QED BY <1>7 DEF s, t

----------------------------------------------------------------------------
(* The parts of the invariant. *)

LSQInv ==
    Good(lsq, head) /\ inLSQ = Held(lsq) /\ lsq.lastMemBarrier <= issued

FlightInv ==
    /\ [prog |-> prog, events |-> events] \in Scenarios
    /\ issued \in 0..Len(prog) /\ head \in 1..(issued + 1) /\ streamStart \in 0..issued
    /\ inLSQ \subseteq InFlight
    /\ \A n \in inLSQ, m \in InFUMemInsts : n < m
    /\ committed \subseteq 1..(head - 1)
    /\ instToWaitFor \in [Insts -> Nat]

RegsInv == ScoreboardOK /\ WaitsForWriters /\ NothingToWaitFor

LEMMA ProgramTypes ==
    ASSUME [prog |-> prog, events |-> events] \in Scenarios
    PROVE  prog \in Seq(Instructions) /\ events \in SUBSET Events /\ Len(prog) \in Nat
<1>1. [prog |-> prog, events |-> events] \in [prog : Seq(Instructions), events : SUBSET Events]
  BY ExecuteAssumption
<1>2. prog \in Seq(Instructions) /\ events \in SUBSET Events
  BY <1>1
<1> QED BY <1>2

LEMMA InvParts ==
    QueueInv <=> Controls /\ LSQInv /\ FlightInv /\ RegsInv
<1>1. [prog |-> prog, events |-> events] \in Scenarios => prog \in Seq(Instructions)
  BY ProgramTypes
<1>2. prog \in Seq(Instructions) /\ QueueShape(lsq)
        => Held(lsq) = InstsOf(lsq.transfers) \cup InstsOf(lsq.requests)
  BY HeldIs DEF QueueShape
<1> QED
  BY <1>1, <1>2 DEF QueueInv, FlightOK, FlightInv, LSQInv, RegsInv, Good

\* What is used of the invariant in the steps.
LEMMA FlightTypes ==
    ASSUME FlightInv
    PROVE  /\ prog \in Seq(Instructions) /\ Len(prog) \in Nat /\ events \in SUBSET Events
           /\ issued \in Nat /\ head \in Nat /\ head >= 1 /\ head <= issued + 1
           /\ issued <= Len(prog) /\ streamStart \in Nat /\ streamStart <= issued
           /\ InFlight \subseteq Insts
<1>1. prog \in Seq(Instructions) /\ Len(prog) \in Nat /\ events \in SUBSET Events
  BY ProgramTypes DEF FlightInv
<1>2. /\ issued \in Nat /\ head \in Nat /\ head >= 1 /\ head <= issued + 1
      /\ issued <= Len(prog) /\ streamStart \in Nat /\ streamStart <= issued
  BY <1>1 DEF FlightInv
<1>3. InFlight \subseteq Insts
  BY <1>1, <1>2 DEF InFlight, Insts
<1> QED BY <1>1, <1>2, <1>3

LEMMA LSQAfter ==
    ASSUME prog' = prog
    PROVE  LSQInv' <=>
             Good(lsq', head') /\ inLSQ' = Held(lsq') /\ lsq'.lastMemBarrier <= issued'
BY SameShape DEF LSQInv

----------------------------------------------------------------------------
(* Steps that leave the instructions in flight alone. *)

LEMMA FlightKept ==
    ASSUME FlightInv, RegsInv,
           UNCHANGED <<prog, events, head, issued, inLSQ, instToWaitFor, scoreboard, committed>>,
           streamStart' \in {streamStart, issued}
    PROVE  FlightInv' /\ RegsInv'
<1>1. Insts' = Insts /\ InFlight' = InFlight /\ InFUMemInsts' = InFUMemInsts
  BY SameProgram DEF InFlight, InFUMemInsts
<1>2. streamStart' \in 0..issued'
  BY FlightTypes DEF FlightInv
<1>3. FlightInv'
  BY <1>1, <1>2 DEF FlightInv
<1>4. \A r : Writers(r)' = Writers(r)
  BY <1>1 DEF Writers
<1>5. ScoreboardOK'
  BY <1>4 DEF RegsInv, ScoreboardOK
<1>6. WaitsForWriters'
  BY <1>1, SameProgram DEF RegsInv, WaitsForWriters
<1>7. NothingToWaitFor'
  BY DEF RegsInv, NothingToWaitFor
<1> QED BY <1>3, <1>5, <1>6, <1>7 DEF RegsInv

\* The queue changes, and what it holds does not.
LEMMA QueueSteps ==
    ASSUME LSQInv, FlightInv, RegsInv,
           UNCHANGED <<prog, events, head, issued, inLSQ, instToWaitFor, scoreboard, committed>>,
           streamStart' \in {streamStart, issued},
           Eased(lsq', lsq, head)
    PROVE  LSQInv' /\ FlightInv' /\ RegsInv'
<1>1. FlightInv' /\ RegsInv'
  BY FlightKept
<1>2. lsq'.lastMemBarrier <= issued'
  BY FlightTypes DEF Eased, LSQInv
<1>3. LSQInv'
  BY <1>2, LSQAfter DEF Eased, LSQInv
<1> QED BY <1>1, <1>3

LEMMA SameEased ==
    ASSUME LSQInv, lsq' = lsq
    PROVE  Eased(lsq', lsq, head)
BY DEF LSQInv, Eased

LEMMA EvaluateInv ==
    ASSUME LSQInv, FlightInv, RegsInv, Evaluate
    PROVE  LSQInv' /\ FlightInv' /\ RegsInv'
<1>1. Eased(lsq', lsq, head)
  BY FlightTypes, LSQStepEased DEF LSQInv, Evaluate
<1> QED BY <1>1, QueueSteps DEF Evaluate, flightVars

LEMMA FinishInv ==
    ASSUME LSQInv, FlightInv, RegsInv, Finish
    PROVE  LSQInv' /\ FlightInv' /\ RegsInv'
<1>1. PICK i \in 1..Len(lsq.requests), f \in Faults :
        lsq.requests[i].state = "InTranslation" /\ lsq' \in FinishTranslation(lsq, i, f)
  BY DEF Finish
<1>2. f \in BOOLEAN
  BY DEF Faults
<1>3. Kept(lsq', lsq, head)
  BY <1>1, <1>2, FlightTypes, FinishKept DEF LSQInv
<1>4. Eased(lsq', lsq, head)
  BY <1>3 DEF Kept, Eased
<1> QED BY <1>4, QueueSteps DEF Finish, flightVars

LEMMA MemoryRespondsInv ==
    ASSUME LSQInv, FlightInv, RegsInv, MemoryResponds
    PROVE  LSQInv' /\ FlightInv' /\ RegsInv'
<1>1. Kept(lsq', lsq, head)
  BY FlightTypes, RespKept DEF LSQInv, MemoryResponds
<1>2. Eased(lsq', lsq, head)
  BY <1>1 DEF Kept, Eased
<1> QED BY <1>2, QueueSteps DEF MemoryResponds, flightVars

LEMMA MemoryRetriesInv ==
    ASSUME LSQInv, FlightInv, RegsInv, MemoryRetries
    PROVE  LSQInv' /\ FlightInv' /\ RegsInv'
<1>1. Kept(lsq', lsq, head)
  BY FlightTypes, RetryKept DEF LSQInv, MemoryRetries
<1>2. Eased(lsq', lsq, head)
  BY <1>1 DEF Kept, Eased
<1> QED BY <1>2, QueueSteps DEF MemoryRetries, flightVars

\* The steps that change neither the queue nor the instructions in flight.
LEMMA QuietInv ==
    ASSUME LSQInv, FlightInv, RegsInv,
           \/ TakeInterrupt \/ BeginCommit \/ SkipCommit \/ EndCommit \/ EndIssue \/ EndCycle
           \/ PostInterrupt \/ Drain \/ DrainResume
    PROVE  LSQInv' /\ FlightInv' /\ RegsInv'
<1>1. /\ UNCHANGED <<prog, events, head, issued, inLSQ, instToWaitFor, scoreboard, committed>>
      /\ streamStart' \in {streamStart, issued} /\ lsq' = lsq
  BY DEF TakeInterrupt, BeginCommit, SkipCommit, EndCommit, EndIssue, EndCycle,
         PostInterrupt, Drain, DrainResume, flightVars
<1> QED BY <1>1, SameEased, QueueSteps

\* A stuttering step.
LEMMA StutterInv ==
    ASSUME QueueInv, UNCHANGED vars
    PROVE  QueueInv'
<1>1. Controls /\ LSQInv /\ FlightInv /\ RegsInv
  BY InvParts
<1>2. LSQInv' /\ FlightInv' /\ RegsInv'
  <2>1. /\ UNCHANGED <<prog, events, head, issued, inLSQ, instToWaitFor, scoreboard, committed>>
        /\ streamStart' = streamStart /\ lsq' = lsq
    BY DEF vars, flightVars
  <2> QED BY <1>1, <2>1, SameEased, QueueSteps
<1>3. Controls'
  BY <1>1 DEF vars, flightVars, cycleVars, drainVars, clockVars, Controls
<1>4. (QueueInv <=> Controls /\ LSQInv /\ FlightInv /\ RegsInv)'
  BY InvParts, PTL
<1> QED BY <1>2, <1>3, <1>4

----------------------------------------------------------------------------
(* The head leaves inFlightInsts. *)

LEMMA WritersFinite ==
    ASSUME FlightInv, NEW r
    PROVE  IsFiniteSet(Writers(r)) /\ Cardinality(Writers(r)) \in Nat
<1>1. IsFiniteSet(InFlight)
  BY FlightTypes, FS_Interval DEF InFlight
<1>2. IsFiniteSet(Writers(r))
  BY <1>1, FS_Subset DEF Writers
<1> QED BY <1>2, FS_CardinalityType

LEMMA CompleteFlight ==
    ASSUME FlightInv, InFlight # {}, Complete, committed' \subseteq committed \cup {head},
           streamStart' \in {streamStart, issued}
    PROVE  /\ FlightInv' /\ InFlight' = InFlight \ {head} /\ head \in InFlight
           /\ Insts' = Insts
<1>1. /\ prog' = prog /\ events' = events /\ head' = head + 1 /\ inLSQ' = inLSQ \ {head}
      /\ issued' = issued /\ instToWaitFor' = instToWaitFor
  BY DEF Complete
<1>2. /\ issued \in Nat /\ head \in Nat /\ head >= 1 /\ head <= issued + 1
      /\ streamStart \in Nat /\ streamStart <= issued
  BY FlightTypes
<1>3. head <= issued /\ head \in InFlight
  BY <1>2 DEF InFlight
<1>4. InFlight' = InFlight \ {head}
  BY <1>1, <1>2, <1>3 DEF InFlight
<1>5. head' \in 1..(issued' + 1) /\ streamStart' \in 0..issued'
  BY <1>1, <1>2, <1>3
<1>6. inLSQ' \subseteq InFlight'
  BY <1>1, <1>4 DEF FlightInv
<1>7. InFUMemInsts' \subseteq InFUMemInsts
  BY <1>1, <1>4, SameProgram DEF InFUMemInsts
<1>8. \A n \in inLSQ', m \in InFUMemInsts' : n < m
  BY <1>1, <1>7 DEF FlightInv
<1>9. committed' \subseteq 1..(head' - 1)
  <2>1. committed \subseteq 1..(head - 1)
    BY DEF FlightInv
  <2> QED BY <1>1, <1>2, <2>1
<1>10. Insts' = Insts
  BY <1>1, SameProgram
<1> QED
  BY <1>1, <1>3, <1>4, <1>5, <1>6, <1>8, <1>9, <1>10 DEF FlightInv

\* clearInstDests forgets the head.
LEMMA CompleteScoreboard ==
    ASSUME FlightInv, ScoreboardOK, scoreboard' = ClearInstDests(head), prog' = prog,
           issued' = issued, InFlight' = InFlight \ {head}, head \in InFlight
    PROVE  ScoreboardOK'
<1>1. /\ scoreboard \in [Regs -> [numResults : Nat, writingInst : 0..issued]]
      /\ \A r \in Regs : scoreboard[r].numResults = Cardinality(Writers(r))
      /\ \A r \in Regs : \A n \in Writers(r) : n <= scoreboard[r].writingInst
  BY DEF ScoreboardOK
<1>2. issued \in Nat
  BY FlightTypes
<1>3. ASSUME NEW r \in Regs
      PROVE  /\ scoreboard'[r] \in [numResults : Nat, writingInst : 0..issued]
             /\ scoreboard'[r].numResults = Cardinality(Writers(r)')
             /\ \A n \in Writers(r)' : n <= scoreboard'[r].writingInst
  <2> DEFINE e == scoreboard[r]
  <2>1. /\ e \in [numResults : Nat, writingInst : 0..issued]
        /\ e.numResults = Cardinality(Writers(r)) /\ e.numResults \in Nat
        /\ e.writingInst \in 0..issued
        /\ \A n \in Writers(r) : n <= e.writingInst
    BY <1>1
  <2>2. scoreboard'[r] =
          IF r \notin prog[head].dests THEN e
          ELSE IF e.numResults = 1 THEN [numResults |-> 0, writingInst |-> 0]
          ELSE [e EXCEPT !.numResults = @ - 1]
    BY DEF ClearInstDests
  <2>3. Writers(r)' = Writers(r) \ {head}
    BY DEF Writers
  <2>4. IsFiniteSet(Writers(r))
    BY WritersFinite
  <2> HIDE DEF e
  <2>5. CASE r \notin prog[head].dests
    <3>1. head \notin Writers(r)
      BY <2>5 DEF Writers
    <3>2. Writers(r)' = Writers(r)
      BY <2>3, <3>1
    <3> QED BY <2>1, <2>2, <2>5, <3>2
  <2>6. CASE r \in prog[head].dests
    <3>1. head \in Writers(r)
      BY <2>6 DEF Writers
    <3>2. Cardinality(Writers(r) \ {head}) = Cardinality(Writers(r)) - 1
          /\ IsFiniteSet(Writers(r) \ {head})
      BY <2>4, <3>1, FS_RemoveElement
    <3>3. Cardinality(Writers(r) \ {head}) \in Nat
      BY <3>2, FS_CardinalityType
    <3>4. CASE e.numResults = 1
      <4>1. scoreboard'[r] = [numResults |-> 0, writingInst |-> 0]
        BY <2>2, <2>6, <3>4
      <4>2. Cardinality(Writers(r) \ {head}) = 0
        BY <2>1, <3>2, <3>4
      <4>3. Writers(r)' = {} /\ Cardinality(Writers(r)') = 0
        BY <2>3, <3>2, <4>2, FS_EmptySet
      <4>4. [numResults |-> 0, writingInst |-> 0] \in [numResults : Nat, writingInst : 0..issued]
        BY <1>2
      <4> QED BY <4>1, <4>3, <4>4
    <3>5. CASE e.numResults # 1
      <4>1. scoreboard'[r] = [e EXCEPT !.numResults = e.numResults - 1]
        BY <2>2, <2>6, <3>5
      <4>2. e.numResults - 1 = Cardinality(Writers(r)') /\ e.numResults - 1 \in Nat
        BY <2>1, <2>3, <3>2, <3>3
      <4>3. /\ scoreboard'[r] \in [numResults : Nat, writingInst : 0..issued]
            /\ scoreboard'[r].numResults = e.numResults - 1
            /\ scoreboard'[r].writingInst = e.writingInst
        BY <2>1, <4>1, <4>2
      <4> QED BY <2>1, <2>3, <4>2, <4>3
    <3> QED BY <3>4, <3>5
  <2> QED BY <2>5, <2>6
<1>4. scoreboard' = [r \in Regs |-> scoreboard'[r]]
  BY DEF ClearInstDests
<1>5. scoreboard' \in [Regs -> [numResults : Nat, writingInst : 0..issued]]
  BY <1>3, <1>4
<1> QED
  BY <1>3, <1>5 DEF ScoreboardOK

LEMMA CompleteInv ==
    ASSUME LSQInv, FlightInv, RegsInv, InFlight # {}, Complete, Left(lsq', lsq, head),
           committed' \subseteq committed \cup {head}, streamStart' \in {streamStart, issued}
    PROVE  LSQInv' /\ FlightInv' /\ RegsInv'
<1>1. /\ prog' = prog /\ head' = head + 1 /\ inLSQ' = inLSQ \ {head}
      /\ issued' = issued /\ instToWaitFor' = instToWaitFor /\ scoreboard' = ClearInstDests(head)
  BY DEF Complete
<1>2. FlightInv' /\ InFlight' = InFlight \ {head} /\ head \in InFlight /\ Insts' = Insts
  BY CompleteFlight
<1>3. LSQInv'
  <2>1. lsq'.lastMemBarrier <= issued'
    BY <1>1, FlightTypes DEF Left, LSQInv
  <2>2. Good(lsq', head') /\ inLSQ' = Held(lsq')
    BY <1>1 DEF Left, LSQInv
  <2> QED BY <1>1, <2>1, <2>2, LSQAfter
<1>4. ScoreboardOK'
  BY <1>1, <1>2, CompleteScoreboard DEF RegsInv
<1>5. WaitsForWriters'
  BY <1>1, <1>2, SameProgram DEF RegsInv, WaitsForWriters
<1>6. NothingToWaitFor'
  <2> SUFFICES ASSUME NEW n \in inLSQ' PROVE instToWaitFor'[n] < head'
    BY DEF NothingToWaitFor
  <2>1. n \in inLSQ /\ n # head
    BY <1>1
  <2>2. instToWaitFor[n] < head
    BY <2>1 DEF RegsInv, NothingToWaitFor
  <2>3. n \in Insts
    BY <2>1, FlightTypes DEF FlightInv
  <2>4. instToWaitFor[n] \in Nat
    BY <2>3 DEF FlightInv
  <2> QED BY <1>1, <2>2, <2>4, FlightTypes
<1> QED BY <1>2, <1>3, <1>4, <1>5, <1>6 DEF RegsInv

LEMMA CommitResponseInv ==
    ASSUME LSQInv, FlightInv, RegsInv, CommitResponse
    PROVE  LSQInv' /\ FlightInv' /\ RegsInv'
<1>1. /\ InFlight # {} /\ FindResponse(lsq, head) /\ Complete
      /\ lsq' \in {PopResponse(lsq), ResponseHandled(lsq)}
      /\ committed' \subseteq committed \cup {head} /\ streamStart' \in {streamStart, issued}
  BY DEF CommitResponse, Committing, HasResponse, ChangesStream
<1>2. Left(lsq', lsq, head)
  BY <1>1, FlightTypes, PopLeft, HandledLeft DEF LSQInv
<1> QED BY <1>1, <1>2, CompleteInv

LEMMA DiscardResponseInv ==
    ASSUME LSQInv, FlightInv, RegsInv, DiscardResponse
    PROVE  LSQInv' /\ FlightInv' /\ RegsInv'
<1>1. /\ InFlight # {} /\ FindResponse(lsq, head) /\ Complete
      /\ lsq' = PopResponse(lsq)
      /\ committed' = committed /\ streamStart' = streamStart
  BY DEF DiscardResponse, Committing, HasResponse
<1>2. Left(lsq', lsq, head)
  BY <1>1, FlightTypes, PopLeft DEF LSQInv
<1> QED BY <1>1, <1>2, CompleteInv

LEMMA HeadFromFU ==
    ASSUME LSQInv, FlightInv, FromFU
    PROVE  InFlight # {} /\ head \in Insts /\ head \notin Held(lsq)
<1>1. InFlight # {} /\ head \notin inLSQ
  BY DEF FromFU, Committing, AtEndOfFU
<1>2. head \in InFlight
  BY <1>1, FlightTypes DEF InFlight
<1> QED BY <1>1, <1>2, FlightTypes DEF LSQInv

LEMMA CommitInstInv ==
    ASSUME LSQInv, FlightInv, RegsInv, CommitInst
    PROVE  LSQInv' /\ FlightInv' /\ RegsInv'
<1>1. /\ FromFU /\ Complete /\ (IsBarrier(head) => CanInsert(lsq))
      /\ lsq' = IF IsBarrier(head) THEN CompleteMemBarrierInst(lsq, head, TRUE) ELSE lsq
      /\ committed' \subseteq committed \cup {head} /\ streamStart' \in {streamStart, issued}
  BY DEF CommitInst, ChangesStream
<1>2. InFlight # {} /\ head \in Insts /\ head \notin Held(lsq)
  BY <1>1, HeadFromFU
<1>3. Left(lsq', lsq, head)
  BY <1>1, <1>2, FlightTypes, BarrierLeft, OtherLeft DEF LSQInv
<1> QED BY <1>1, <1>2, <1>3, CompleteInv

LEMMA DiscardInstInv ==
    ASSUME LSQInv, FlightInv, RegsInv, DiscardInst
    PROVE  LSQInv' /\ FlightInv' /\ RegsInv'
<1>1. /\ FromFU /\ Complete
      /\ lsq' = IF IsBarrier(head) THEN CompleteMemBarrierInst(lsq, head, FALSE) ELSE lsq
      /\ committed' = committed /\ streamStart' = streamStart
  BY DEF DiscardInst
<1>2. InFlight # {} /\ head \in Insts /\ head \notin Held(lsq)
  BY <1>1, HeadFromFU
<1>3. Left(lsq', lsq, head)
  BY <1>1, <1>2, FlightTypes, BarrierLeft, OtherLeft DEF LSQInv
<1> QED BY <1>1, <1>2, <1>3, CompleteInv

----------------------------------------------------------------------------
(* An access goes to the load/store queue. *)

LEMMA GoesFacts ==
    ASSUME LSQInv, FlightInv, NEW n \in InFlight, GoesToLSQ(n)
    PROVE  /\ n \in InFUMemInsts /\ (\A m \in InFUMemInsts : n <= m)
           /\ n = head \/ instToWaitFor[n] < head
           /\ CanRequest(lsq) /\ Pushable(lsq, head, n)
<1>1. /\ n \in InFUMemInsts
      /\ n = head \/ ((\A m \in InFUMemInsts : n <= m) /\ head > instToWaitFor[n])
  BY DEF GoesToLSQ, EarlyAccess, EarlyIssue
<1>2. n \in Insts /\ n \in Nat /\ n >= head
  BY FlightTypes DEF InFlight
<1>3. \A m \in InFUMemInsts : m \in Nat /\ head <= m
  BY FlightTypes DEF InFUMemInsts, InFlight
<1>4. \A m \in InFUMemInsts : n <= m
  BY <1>1, <1>3
<1>5. n = head \/ instToWaitFor[n] < head
  <2>1. instToWaitFor[n] \in Nat
    BY <1>2 DEF FlightInv
  <2> QED BY <1>1, <2>1, FlightTypes
<1>6. \A m \in Held(lsq) : m < n
  BY <1>1 DEF LSQInv, FlightInv
<1>7. IsMemRef(n)
  BY <1>1 DEF InFUMemInsts
<1> QED BY <1>1, <1>2, <1>4, <1>5, <1>6, <1>7 DEF GoesToLSQ, Pushable

LEMMA IssueToLSQInv ==
    ASSUME LSQInv, FlightInv, RegsInv, IssueToLSQ
    PROVE  LSQInv' /\ FlightInv' /\ RegsInv'
<1>1. PICK n \in InFlight : GoesToLSQ(n) /\ lsq' \in PushRequest(lsq, n)
                            /\ inLSQ' = inLSQ \cup {n}
  BY DEF IssueToLSQ
<1>2. UNCHANGED <<prog, events, head, streamStart, issued, instToWaitFor, scoreboard, committed>>
  BY DEF IssueToLSQ
<1>3. /\ n \in InFUMemInsts /\ (\A m \in InFUMemInsts : n <= m)
      /\ n = head \/ instToWaitFor[n] < head
      /\ CanRequest(lsq) /\ Pushable(lsq, head, n)
  BY <1>1, GoesFacts
<1>4. Grown(lsq', lsq, head, n)
  BY <1>1, <1>3, FlightTypes, PushGrows DEF LSQInv
<1>5. LSQInv'
  BY <1>1, <1>2, <1>4, LSQAfter DEF Grown, LSQInv
<1>6. InFlight' = InFlight /\ Insts' = Insts
  BY <1>2, SameProgram DEF InFlight
<1>7. InFUMemInsts' = InFUMemInsts \ {n}
  BY <1>1, <1>2, <1>6, SameProgram DEF InFUMemInsts
<1>8. FlightInv'
  <2>1. inLSQ' \subseteq InFlight'
    BY <1>1, <1>6 DEF FlightInv
  <2>2. \A a \in inLSQ', m \in InFUMemInsts' : a < m
    <3> SUFFICES ASSUME NEW a \in inLSQ', NEW m \in InFUMemInsts' PROVE a < m
      OBVIOUS
    <3>1. CASE a = n
      <4>1. n <= m /\ m # n
        BY <1>3, <1>7
      <4>2. n \in Nat /\ m \in Nat
        BY <1>7, FlightTypes DEF InFUMemInsts, InFlight
      <4> QED BY <3>1, <4>1, <4>2
    <3>2. CASE a # n
      BY <1>1, <1>7, <3>2 DEF FlightInv
    <3> QED BY <3>1, <3>2
  <2> QED BY <1>2, <1>6, <2>1, <2>2 DEF FlightInv
<1>9. ScoreboardOK'
  <2>1. \A r : Writers(r)' = Writers(r)
    BY <1>2, <1>6 DEF Writers
  <2> QED BY <1>2, <2>1 DEF RegsInv, ScoreboardOK
<1>10. WaitsForWriters'
  BY <1>2, <1>6, SameProgram DEF RegsInv, WaitsForWriters
<1>11. NothingToWaitFor'
  BY <1>1, <1>2, <1>3 DEF RegsInv, NothingToWaitFor
<1> QED BY <1>5, <1>8, <1>9, <1>10, <1>11 DEF RegsInv

----------------------------------------------------------------------------
(* Issue. *)

\* execSeqNumToWaitFor: no instruction that writes a source is younger.
LEMMA WaitForFacts ==
    ASSUME LSQInv, FlightInv, ScoreboardOK, NEW n \in Insts
    PROVE  /\ WaitFor(n) \in Nat
           /\ \A r \in prog[n].srcs : \A m \in Writers(r) : m <= WaitFor(n)
<1> DEFINE S == {lsq.lastMemBarrier} \cup {scoreboard[r].writingInst : r \in prog[n].srcs}
<1>1. prog[n].srcs \in SUBSET Regs
  BY FlightTypes, ProgramFacts
<1>2. lsq.lastMemBarrier \in Nat
  BY GoodParts, QueueTypes, FlightTypes DEF LSQInv
<1>3. \A r \in Regs : scoreboard[r].writingInst \in 0..issued
  BY DEF ScoreboardOK
<1>4. issued \in Nat /\ lsq.lastMemBarrier <= issued
  BY FlightTypes DEF LSQInv
<1>5. S \in SUBSET (0..issued) /\ S # {}
  BY <1>1, <1>2, <1>3, <1>4
<1>6. WaitFor(n) = Max(S)
  BY DEF WaitFor
<1>7. \A r \in prog[n].srcs : scoreboard[r].writingInst \in S
  OBVIOUS
<1> HIDE DEF S
<1>8. Max(S) \in S /\ \A y \in S : y <= Max(S)
  BY <1>4, <1>5, GreatestNatural
<1>9. WaitFor(n) \in Nat
  <2>1. Max(S) \in 0..issued
    BY <1>5, <1>8
  <2>2. Max(S) \in Nat
    BY <1>4, <2>1
  <2> QED BY <1>6, <2>2
<1>10. ASSUME NEW r \in prog[n].srcs, NEW m \in Writers(r) PROVE m <= WaitFor(n)
  <2>1. scoreboard[r].writingInst <= WaitFor(n)
    BY <1>6, <1>7, <1>8
  <2>2. m <= scoreboard[r].writingInst
    BY <1>1 DEF ScoreboardOK
  <2>3. scoreboard[r].writingInst \in Nat
    BY <1>1, <1>3, <1>4
  <2>4. m \in Nat
    BY FlightTypes DEF Writers, InFlight
  <2> QED BY <1>9, <2>1, <2>2, <2>3, <2>4
<1> QED BY <1>9, <1>10

LEMMA IssueFlight ==
    ASSUME LSQInv, FlightInv, RegsInv, IssueInst
    PROVE  /\ FlightInv' /\ InFlight' = InFlight \cup {issued + 1} /\ issued + 1 \notin InFlight
           /\ issued + 1 \in Insts /\ Insts' = Insts
<1> DEFINE n == issued + 1
<1>1. /\ UNCHANGED <<prog, events, head, streamStart, inLSQ, committed>>
      /\ issued' = n /\ n <= Len(prog)
      /\ instToWaitFor' = IF IsMemRef(n) THEN [instToWaitFor EXCEPT ![n] = WaitFor(n)]
                          ELSE instToWaitFor
  BY DEF IssueInst
<1>2. /\ Len(prog) \in Nat /\ issued \in Nat /\ head \in Nat /\ head >= 1 /\ head <= issued + 1
      /\ streamStart \in Nat /\ streamStart <= issued
  BY FlightTypes
<1>3. n \in Insts /\ Insts' = Insts
  BY <1>1, <1>2, SameProgram DEF Insts
<1>4. InFlight' = InFlight \cup {n} /\ n \notin InFlight
  BY <1>1, <1>2 DEF InFlight
<1>5. instToWaitFor' \in [Insts -> Nat]
  BY <1>1, <1>3, WaitForFacts DEF FlightInv, RegsInv
<1>6. InFUMemInsts' \subseteq InFUMemInsts \cup {n}
  BY <1>1, <1>4, SameProgram DEF InFUMemInsts
<1>7. \A a \in inLSQ', m \in InFUMemInsts' : a < m
  <2> SUFFICES ASSUME NEW a \in inLSQ, NEW m \in InFUMemInsts \cup {n} PROVE a < m
    BY <1>1, <1>6
  <2>1. a \in InFlight
    BY DEF FlightInv
  <2>2. a < n
    BY <1>2, <2>1 DEF InFlight
  <2>3. m \in InFUMemInsts => a < m
    BY DEF FlightInv
  <2> QED BY <2>2, <2>3
<1>8. /\ issued' \in 0..Len(prog) /\ head \in 1..(issued' + 1) /\ streamStart \in 0..issued'
  BY <1>1, <1>2
<1>9. inLSQ' \subseteq InFlight'
  BY <1>1, <1>4 DEF FlightInv
<1>10. FlightInv'
  BY <1>1, <1>3, <1>5, <1>7, <1>8, <1>9 DEF FlightInv
<1> QED BY <1>3, <1>4, <1>10

LEMMA IssueScoreboard ==
    ASSUME FlightInv, ScoreboardOK, NEW n, n = issued + 1, issued' = n, prog' = prog,
           InFlight' = InFlight \cup {n}, n \notin InFlight,
           scoreboard' = [r \in Regs |->
             IF r \notin prog[n].dests THEN scoreboard[r]
             ELSE [numResults |-> scoreboard[r].numResults + 1, writingInst |-> n]]
    PROVE  ScoreboardOK'
<1>1. issued \in Nat /\ n \in Nat
  BY FlightTypes
<1>2. ASSUME NEW r \in Regs
      PROVE  /\ scoreboard'[r] \in [numResults : Nat, writingInst : 0..issued']
             /\ scoreboard'[r].numResults = Cardinality(Writers(r)')
             /\ \A m \in Writers(r)' : m <= scoreboard'[r].writingInst
  <2> DEFINE e == scoreboard[r]
  <2>1. /\ e \in [numResults : Nat, writingInst : 0..issued]
        /\ e.numResults = Cardinality(Writers(r)) /\ e.numResults \in Nat
        /\ e.writingInst \in 0..issued
        /\ \A m \in Writers(r) : m <= e.writingInst
    BY DEF ScoreboardOK
  <2>2. scoreboard'[r] = IF r \notin prog[n].dests THEN e
                         ELSE [numResults |-> e.numResults + 1, writingInst |-> n]
    OBVIOUS
  <2>3. IsFiniteSet(Writers(r)) /\ n \notin Writers(r)
    BY WritersFinite DEF Writers
  <2> HIDE DEF e
  <2>4. CASE r \notin prog[n].dests
    <3>1. Writers(r)' = Writers(r)
      BY <2>4 DEF Writers
    <3>2. e \in [numResults : Nat, writingInst : 0..issued']
      <4>1. 0..issued \subseteq 0..issued'
        BY <1>1
      <4> QED BY <2>1, <4>1
    <3> QED BY <2>1, <2>2, <2>4, <3>1, <3>2
  <2>5. CASE r \in prog[n].dests
    <3>1. Writers(r)' = Writers(r) \cup {n}
      BY <2>5 DEF Writers
    <3>2. Cardinality(Writers(r) \cup {n}) = e.numResults + 1
      BY <2>1, <2>3, FS_AddElement
    <3>3. /\ scoreboard'[r].numResults = e.numResults + 1
          /\ scoreboard'[r].writingInst = n
          /\ scoreboard'[r] \in [numResults : Nat, writingInst : 0..issued']
      BY <1>1, <2>1, <2>2, <2>5
    <3>4. \A m \in Writers(r) \cup {n} : m <= n
      <4>1. \A m \in Writers(r) : m \in Nat /\ m <= issued
        BY FlightTypes DEF Writers, InFlight
      <4> QED BY <1>1, <4>1
    <3> QED BY <3>1, <3>2, <3>3, <3>4
  <2> QED BY <2>4, <2>5
<1>3. scoreboard' = [r \in Regs |-> scoreboard'[r]]
  OBVIOUS
<1>4. scoreboard' \in [Regs -> [numResults : Nat, writingInst : 0..issued']]
  BY <1>2, <1>3
<1> QED BY <1>2, <1>4 DEF ScoreboardOK

LEMMA IssueInstInv ==
    ASSUME LSQInv, FlightInv, RegsInv, IssueInst
    PROVE  LSQInv' /\ FlightInv' /\ RegsInv'
<1> DEFINE n == issued + 1
<1>1. /\ UNCHANGED <<prog, head, inLSQ>> /\ issued' = n
      /\ instToWaitFor' = IF IsMemRef(n) THEN [instToWaitFor EXCEPT ![n] = WaitFor(n)]
                          ELSE instToWaitFor
      /\ scoreboard' = [r \in Regs |->
             IF r \notin prog[n].dests THEN scoreboard[r]
             ELSE [numResults |-> scoreboard[r].numResults + 1, writingInst |-> n]]
      /\ lsq' = IF IsBarrier(n) THEN [lsq EXCEPT !.lastMemBarrier = n] ELSE lsq
  BY DEF IssueInst
<1>2. /\ FlightInv' /\ InFlight' = InFlight \cup {n} /\ n \notin InFlight
      /\ n \in Insts /\ Insts' = Insts
  BY IssueFlight
<1>3. issued \in Nat /\ Len(prog) \in Nat /\ n \in Nat
  BY FlightTypes
<1> HIDE DEF n
<1>4. LSQInv'
  <2>1. n \in 0..Len(prog)
    BY <1>2, <1>3 DEF Insts
  <2>2. CASE IsBarrier(n)
    <3>1. Good(lsq', head) /\ Held(lsq') = Held(lsq) /\ lsq'.lastMemBarrier = n
      BY <1>1, <2>1, <2>2, BarrierIssued DEF LSQInv
    <3>2. lsq'.lastMemBarrier <= issued'
      BY <1>1, <1>3, <3>1
    <3> QED BY <1>1, <3>1, <3>2, LSQAfter DEF LSQInv
  <2>3. CASE ~IsBarrier(n)
    <3>1. lsq' = lsq
      BY <1>1, <2>3
    <3>2. lsq.lastMemBarrier \in 0..Len(prog)
      BY GoodParts, QueueTypes DEF LSQInv
    <3>3. lsq'.lastMemBarrier <= issued'
      <4>1. lsq.lastMemBarrier \in Nat /\ lsq.lastMemBarrier <= issued
        BY <1>3, <3>2 DEF LSQInv
      <4> QED BY <1>1, <1>3, <3>1, <4>1 DEF n
    <3> QED BY <1>1, <3>1, <3>3, LSQAfter DEF LSQInv
  <2> QED BY <2>2, <2>3
<1>5. ScoreboardOK'
  BY <1>1, <1>2, IssueScoreboard DEF RegsInv, n
<1>6. WaitsForWriters'
  <2> SUFFICES ASSUME NEW a \in InFlight', NEW m \in InFlight', IsMemRef(a), m < a,
                      prog[m].dests \cap prog[a].srcs # {}
               PROVE  m <= instToWaitFor'[a]
    BY <1>1, SameProgram DEF WaitsForWriters
  <2>1. \A b \in InFlight : b \in Nat /\ b < n
    BY <1>3, FlightTypes DEF InFlight, n
  <2>2. m \in InFlight
    BY <1>2, <1>3, <2>1
  <2>3. CASE a = n
    <3>1. instToWaitFor'[n] = WaitFor(n)
      BY <1>1, <1>2, <2>3 DEF FlightInv
    <3>2. PICK r \in prog[m].dests : r \in prog[n].srcs
      BY <2>3
    <3>3. m \in Writers(r)
      BY <2>2, <3>2 DEF Writers
    <3> QED BY <1>2, <2>3, <3>1, <3>2, <3>3, WaitForFacts DEF RegsInv
  <2>4. CASE a # n
    <3>1. a \in InFlight /\ a \in Insts
      BY <1>2, <2>4, FlightTypes
    <3>2. instToWaitFor'[a] = instToWaitFor[a]
      BY <1>1, <2>4, <3>1 DEF FlightInv
    <3> QED BY <2>2, <3>1, <3>2 DEF RegsInv, WaitsForWriters
  <2> QED BY <2>3, <2>4
<1>7. NothingToWaitFor'
  <2> SUFFICES ASSUME NEW a \in inLSQ PROVE a = head \/ instToWaitFor'[a] < head
    BY <1>1 DEF NothingToWaitFor
  <2>1. a \in InFlight /\ a # n /\ a \in Insts
    BY <1>2, FlightTypes DEF FlightInv
  <2>2. instToWaitFor'[a] = instToWaitFor[a]
    BY <1>1, <2>1 DEF FlightInv
  <2> QED BY <2>2 DEF RegsInv, NothingToWaitFor
<1> QED BY <1>2, <1>4, <1>5, <1>6, <1>7 DEF RegsInv

----------------------------------------------------------------------------
(* The invariant. *)

LEMMA ControlsKept ==
    ASSUME Controls, LSQInv, FlightInv, Next
    PROVE  Controls'
<1>1. /\ pending \in BOOLEAN /\ changed \in BOOLEAN /\ memAtEnd \in BOOLEAN
      /\ running \in BOOLEAN /\ active \in BOOLEAN /\ needToSignalDrained \in BOOLEAN
      /\ phase \in {"between", "select", "commit", "issue", "end"}
      /\ drainState \in {"NotDraining", "DrainCurrentInst", "DrainHaltFetch", "DrainAllInsts"}
  BY DEF Controls
<1> SUFFICES /\ pending' \in BOOLEAN /\ changed' \in BOOLEAN /\ memAtEnd' \in BOOLEAN
             /\ running' \in BOOLEAN /\ active' \in BOOLEAN /\ needToSignalDrained' \in BOOLEAN
             /\ phase' \in {"between", "select", "commit", "issue", "end"}
             /\ drainState' \in {"NotDraining", "DrainCurrentInst", "DrainHaltFetch",
                                 "DrainAllInsts"}
  BY DEF Controls
<1> USE DEF cycleVars, drainVars, clockVars, flightVars
<1>2. CASE Evaluate \/ TakeInterrupt \/ BeginCommit \/ SkipCommit \/ EndIssue
  BY <1>1, <1>2 DEF Evaluate, TakeInterrupt, BeginCommit, SkipCommit, EndIssue
<1>3. CASE CommitResponse
  <2>1. changed' \in BOOLEAN
    <3>1. Head(lsq.transfers) \in Transferring
      BY <1>3, FlightTypes, FoundResponse DEF CommitResponse, HasResponse, LSQInv
    <3>2. Head(lsq.transfers).fault \in BOOLEAN
      BY <3>1 DEF Transferring, Request
    <3> QED BY <1>3, <3>2 DEF CommitResponse, ChangesStream
  <2> QED BY <1>1, <1>3, <2>1 DEF CommitResponse
<1>4. CASE DiscardResponse
  BY <1>1, <1>4 DEF DiscardResponse
<1>5. CASE IssueToLSQ
  BY <1>1, <1>5 DEF IssueToLSQ
<1>6. CASE CommitInst
  BY <1>1, <1>6 DEF CommitInst, ChangesStream
<1>7. CASE DiscardInst
  BY <1>1, <1>7 DEF DiscardInst
<1>8. CASE EndCommit
  BY <1>1, <1>8 DEF EndCommit
<1>9. CASE IssueInst
  BY <1>1, <1>9 DEF IssueInst
<1>10. CASE EndCycle
  BY <1>1, <1>10 DEF EndCycle
<1>11. CASE Finish \/ MemoryResponds \/ MemoryRetries \/ PostInterrupt
  BY <1>1, <1>11 DEF Finish, MemoryResponds, MemoryRetries, PostInterrupt, Wakeup
<1>12. CASE Drain \/ DrainResume
  BY <1>1, <1>12 DEF Drain, DrainResume, Wakeup
<1> QED
  BY <1>2, <1>3, <1>4, <1>5, <1>6, <1>7, <1>8, <1>9, <1>10, <1>11, <1>12 DEF Next, Cycle

LEMMA InitInv == Init => QueueInv
<1> SUFFICES ASSUME Init PROVE QueueInv
  OBVIOUS
<1>1. [prog |-> prog, events |-> events] \in Scenarios
  <2>1. PICK s \in Scenarios : prog = s.prog /\ events = s.events
    BY DEF Init
  <2>2. s \in [prog : Seq(Instructions), events : SUBSET Events]
    BY ExecuteAssumption
  <2>3. s = [prog |-> s.prog, events |-> s.events]
    BY <2>2
  <2> QED BY <2>1, <2>3
<1>2. prog \in Seq(Instructions) /\ Len(prog) \in Nat
  BY <1>1, ProgramTypes
<1>3. Good(EmptyLSQ, 1) /\ Held(EmptyLSQ) = {} /\ EmptyLSQ.lastMemBarrier = 0
  BY <1>2, EmptyGood
<1>4. LSQInv
  BY <1>3 DEF Init, LSQInv
<1>5. InFlight = {}
  BY DEF Init, InFlight
<1>6. FlightInv
  BY <1>1, <1>2, <1>5 DEF Init, FlightInv, Insts
<1>7. RegsInv
  <2>1. \A r : Writers(r) = {}
    BY <1>5 DEF Writers
  <2>2. ScoreboardOK
    <3>1. /\ scoreboard = [r \in Regs |-> [numResults |-> 0, writingInst |-> 0]] /\ issued = 0
      BY DEF Init
    <3>2. scoreboard \in [Regs -> [numResults : Nat, writingInst : 0..issued]]
      BY <3>1
    <3>3. \A r \in Regs : Cardinality(Writers(r)) = 0
      BY <2>1, FS_EmptySet
    <3> QED BY <2>1, <3>1, <3>2, <3>3 DEF ScoreboardOK
  <2> QED BY <1>5, <2>2 DEF Init, RegsInv, WaitsForWriters, NothingToWaitFor
<1>8. Controls
  BY DEF Init, Controls
<1> QED BY <1>4, <1>6, <1>7, <1>8, InvParts

LEMMA NextInv == QueueInv /\ [Next]_vars => QueueInv'
<1> SUFFICES ASSUME QueueInv, [Next]_vars PROVE QueueInv'
  OBVIOUS
<1>1. CASE UNCHANGED vars
  BY <1>1, StutterInv
<1>2. CASE Next
  <2>1. Controls /\ LSQInv /\ FlightInv /\ RegsInv
    BY InvParts
  <2>2. Controls'
    BY <1>2, <2>1, ControlsKept
  <2>3. LSQInv' /\ FlightInv' /\ RegsInv'
    <3>1. CASE Evaluate
      BY <2>1, <3>1, EvaluateInv
    <3>2. CASE \/ TakeInterrupt \/ BeginCommit \/ SkipCommit \/ EndCommit \/ EndIssue
               \/ EndCycle \/ PostInterrupt \/ Drain \/ DrainResume
      BY <2>1, <3>2, QuietInv
    <3>3. CASE CommitResponse
      BY <2>1, <3>3, CommitResponseInv
    <3>4. CASE DiscardResponse
      BY <2>1, <3>4, DiscardResponseInv
    <3>5. CASE IssueToLSQ
      BY <2>1, <3>5, IssueToLSQInv
    <3>6. CASE CommitInst
      BY <2>1, <3>6, CommitInstInv
    <3>7. CASE DiscardInst
      BY <2>1, <3>7, DiscardInstInv
    <3>8. CASE IssueInst
      BY <2>1, <3>8, IssueInstInv
    <3>9. CASE Finish
      BY <2>1, <3>9, FinishInv
    <3>10. CASE MemoryResponds
      BY <2>1, <3>10, MemoryRespondsInv
    <3>11. CASE MemoryRetries
      BY <2>1, <3>11, MemoryRetriesInv
    <3> QED
      BY <1>2, <3>1, <3>2, <3>3, <3>4, <3>5, <3>6, <3>7, <3>8, <3>9, <3>10, <3>11
      DEF Next, Cycle
  <2>4. (QueueInv <=> Controls /\ LSQInv /\ FlightInv /\ RegsInv)'
    BY InvParts, PTL
  <2> QED BY <2>2, <2>3, <2>4
<1> QED BY <1>1, <1>2

\* The load/store queue and the scoreboard agree with the instructions in flight in
\* every behaviour of Execute, for every program, every size of the queues and every
\* limit (lsq.cc, scoreboard.cc, execute.cc).
THEOREM QueueAlwaysInOrder == Spec => []QueueInv
<1>1. Init => QueueInv
  BY InitInv
<1>2. QueueInv /\ [Next]_vars => QueueInv'
  BY NextInv
<1> QED BY <1>1, <1>2, PTL DEF Spec

----------------------------------------------------------------------------
(* What follows from the invariant. *)

LEMMA InvType == QueueInv => TypeOK
<1> SUFFICES ASSUME QueueInv PROVE TypeOK
  OBVIOUS
<1>1. Controls /\ LSQInv /\ FlightInv /\ RegsInv
  BY InvParts
<1>2. prog \in Seq(Instructions)
  BY <1>1, FlightTypes
<1>3. lsq \in LSQs /\ CountsMatch(lsq) /\ Sizes(lsq)
  BY <1>1, GoodParts DEF LSQInv
<1>4. lsq.numAccessesInMemorySystem \in 0..MemoryLimit
  <2>1. lsq.numAccessesInMemorySystem \in Nat
    BY <1>2, <1>3, CountedFinite, FS_CardinalityType DEF CountsMatch
  <2>2. lsq.numAccessesInMemorySystem <= MemoryLimit /\ MemoryLimit \in Nat
    BY <1>3, LSQAssumption DEF Sizes
  <2> QED BY <2>1, <2>2
<1>5. \A r \in Requests : r.state \in States /\ r.retired <= r.sent
  <2> SUFFICES ASSUME NEW r \in Requests PROVE r.state \in States /\ r.retired <= r.sent
    OBVIOUS
  <2>1. lsq.requests \in Seq(Pending) /\ lsq.transfers \in Seq(Transferring)
        /\ lsq.slots \in Seq(Slot)
    BY <1>3, QueueTypes
  <2>2. r \in Pending \cup Transferring \cup Slot
    <3>1. r \in ToSet(lsq.requests) => r \in Pending
      BY <2>1, ElementOfSeq DEF ToSet
    <3>2. r \in ToSet(lsq.transfers) => r \in Transferring
      BY <2>1, ElementOfSeq DEF ToSet
    <3>3. r \in ToSet(lsq.slots) => r \in Slot
      BY <2>1, ElementOfSeq DEF ToSet
    <3> QED BY <3>1, <3>2, <3>3 DEF Requests
  <2>3. r \in Request /\ r.retired <= r.sent
    BY <1>2, <2>2, RequestFacts
  <2> QED BY <2>3 DEF Request
<1>6. lsq.state \in {"MemoryRunning", "MemoryNeedsRetry"}
  BY <1>3, QueueTypes
<1>7. scoreboard \in [Regs -> [numResults : Nat, writingInst : 0..issued]]
  BY <1>1 DEF RegsInv, ScoreboardOK
<1> QED
  BY <1>1, <1>3, <1>4, <1>5, <1>6, <1>7 DEF TypeOK, Controls, FlightInv, Sizes

\* The variables of Execute have their types, and no queue is larger than it is
\* configured to be.
THEOREM ExecuteTypeCorrect == Spec => []TypeOK
BY QueueAlwaysInOrder, InvType, PTL

LEMMA InvCounters == QueueInv => CountersMatch
BY DEF QueueInv, QueueShape, CountersMatch

\* The counters of the load/store queue agree with the queues, after every refusal,
\* answer, discard and change of stream.
THEOREM CountersAlwaysMatch == Spec => []CountersMatch
BY QueueAlwaysInOrder, InvCounters, PTL

LEMMA HeldAccess ==
    ASSUME prog \in Seq(Instructions), NEW q \in LSQs, NEW n \in Held(q)
    PROVE  IsMemRef(n)
<1> DEFINE s == q.transfers
           t == q.requests
<1>1. s \in Seq(Transferring) /\ t \in Seq(Pending)
  BY QueueTypes
<1>2. n \in InstsOf(s) \cup InstsOf(t)
  BY HeldIs
<1> HIDE DEF s, t
<1>3. CASE n \in InstsOf(s)
  BY <1>1, <1>3, ElementOfSeq DEF InstsOf, Transferring
<1>4. CASE n \in InstsOf(t)
  BY <1>1, <1>4, ElementOfSeq DEF InstsOf, Pending
<1> QED BY <1>2, <1>3, <1>4

LEMMA InvOperands == QueueInv => OperandsReady
<1> SUFFICES ASSUME QueueInv, NEW n \in inLSQ, NEW m \in head..(n - 1),
                    prog[m].dests \cap prog[n].srcs # {}
             PROVE  FALSE
  BY DEF OperandsReady
<1>1. LSQInv /\ FlightInv /\ RegsInv
  BY InvParts
<1>2. n \in InFlight
  BY <1>1 DEF FlightInv
<1>3. issued \in Nat /\ head \in Nat /\ n \in Nat /\ m \in Nat
  BY <1>1, <1>2, FlightTypes DEF InFlight
<1>4. m \in InFlight /\ m < n /\ head <= m
  BY <1>2, <1>3 DEF InFlight
<1>5. IsMemRef(n)
  BY <1>1, FlightTypes, GoodParts, HeldAccess DEF LSQInv
<1>6. m <= instToWaitFor[n]
  BY <1>1, <1>2, <1>4, <1>5 DEF RegsInv, WaitsForWriters
<1>7. instToWaitFor[n] \in Nat
  BY <1>1, <1>2, FlightTypes DEF FlightInv
<1>8. n = head \/ instToWaitFor[n] < head
  BY <1>1 DEF RegsInv, NothingToWaitFor
<1> QED BY <1>3, <1>4, <1>6, <1>7, <1>8

\* An access that went to the load/store queue before its turn depends on no
\* instruction that has still to commit.
THEOREM OperandsAlwaysReady == Spec => []OperandsReady
BY QueueAlwaysInOrder, InvOperands, PTL
=============================================================================
