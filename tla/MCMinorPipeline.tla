-------------------------- MODULE MCMinorPipeline ---------------------------
(***************************************************************************)
(* Instances of MinorPipeline for TLC.                                     *)
(*                                                                         *)
(* Stream and prediction numbers grow for ever.  They are only compared    *)
(* for equality, and a new one is larger than any in use, so two states    *)
(* that differ by an order-preserving renumbering behave alike: RankedView *)
(* is the state with every number replaced by its rank among those in use. *)
(***************************************************************************)
EXTENDS MinorPath, TLC, FiniteSets, Functions

\* A branch, a macro-op, and an instruction to branch and to trap to.
BranchMacroOp == 0 :> "branch" @@ 1 :> "macro" @@ 2 :> "op"

\* A loop of a macro-op and an instruction fetch has to start again after.
MacroSerial == 0 :> "macro" @@ 1 :> "serial"

\* Threads that suspend themselves.
BranchQuiesce == 0 :> "branch" @@ 1 :> "quiesce"
OpQuiesce == 0 :> "op" @@ 1 :> "quiesce"
SerialQuiesce == 0 :> "serial" @@ 1 :> "macro" @@ 2 :> "quiesce"

----------------------------------------------------------------------------
InBuffers == UNION {Range(buf[s].latch \o buf[s].queue) : s \in Stages}

StreamsInUse ==
    {exec.stream, fetch1.stream, fetch2.expectedStream,
     eToF1.in.stream, eToF1.out.stream, f2ToF1.in.stream, f2ToF1.out.stream}
    \cup (IF fetch2.havePC THEN {fetch2.lastStream} ELSE {})
    \cup {x.stream : x \in Range(fetches) \cup Range(inFlight) \cup InBuffers}

PredictionsInUse ==
    {exec.lastPred, fetch1.pred, fetch2.pred,
     eToF1.in.pred, eToF1.out.pred, f2ToF1.in.pred, f2ToF1.out.pred}
    \cup {x.pred : x \in Range(fetches) \cup Range(inFlight) \cup InBuffers}

RankIn(S) == [n \in S |-> Cardinality({m \in S : m < n})]

RankedView ==
    LET stream == RankIn(StreamsInUse)
        pred   == RankIn(PredictionsInUse)
        R(x)   == [x EXCEPT !.stream = stream[@], !.pred = pred[@]]
        RB(b)  == IF b = NoBranch THEN b ELSE R(b)
        RS(q)  == [n \in DOMAIN q |-> R(q[n])]
    IN  <<phase, count, active, icache, R(fetch1), RS(fetches),
          [s \in Stages |-> [buf[s] EXCEPT !.latch = RS(@), !.queue = RS(@)]],
          [fetch2 EXCEPT !.pc = IF fetch2.havePC THEN @ ELSE 0,
                         !.lastStream = IF fetch2.havePC THEN stream[@] ELSE 0,
                         !.expectedStream = stream[@], !.pred = pred[@]],
          RB(f2ToF1.in), RB(f2ToF1.out), microop, RS(inFlight),
          [exec EXCEPT !.stream = stream[@], !.lastPred = pred[@]],
          RB(eToF1.in), RB(eToF1.out), arch, status, drainVars, interrupts>>
=============================================================================
