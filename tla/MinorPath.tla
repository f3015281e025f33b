----------------------------- MODULE MinorPath ------------------------------
(***************************************************************************)
(* Why the pipeline commits the right instructions.  Nothing compares the  *)
(* PC of an instruction with the thread's: what keeps them together is     *)
(* that the work of Execute's current stream, wherever it is between       *)
(* Execute and Fetch1, is one unbroken path.  It starts at the thread's    *)
(* PC, follows the predictions, and goes on at the PC Fetch1 fetches from. *)
(* PathInv says so, with what else is needed for every step to keep it.    *)
(***************************************************************************)
EXTENDS MinorPipeline

\* What is on its way into a stage, oldest first.
Into(s) == buf[s].queue \o buf[s].latch

\* The work of the pipeline, oldest first: micro-ops, instructions that Decode has
\* not finished with, and lines, which Fetch2 has or Fetch1 is fetching.
Decoded   == inFlight \o (Into("execute") \o Into("dummy"))
Undecoded == Into("decode")
LinesIn   == Into("fetch2")
Fetched   == LinesIn \o fetches

----------------------------------------------------------------------------
(* Streams.  c is the current stream. *)

\* Once the current stream has begun there is nothing but the current stream.
Ordered(s, c) == \A j, k \in 1..Len(s) : j < k /\ s[j].stream = c => s[k].stream = c

AllOf(s, c)  == \A k \in 1..Len(s) : s[k].stream = c
NoneOf(s, c) == \A k \in 1..Len(s) : s[k].stream # c

\* The branches and predictions that Fetch1 has still to see.
PendingBranches ==
    {b \in {eToF1.in} \cup (IF phase = "advance" THEN {} ELSE {eToF1.out}) : IsStreamChange(b)}

PendingPredictions ==
    {b \in {f2ToF1.in} \cup (IF phase = "advance" THEN {} ELSE {f2ToF1.out}) : IsStreamChange(b)}

\* No stream is newer than Execute's.
StreamsKnown ==
    /\ \A s \in {Decoded, Undecoded, Fetched} : \A k \in 1..Len(s) : s[k].stream <= exec.stream
    /\ \A b \in {fetch1, eToF1.in, eToF1.out, f2ToF1.in, f2ToF1.out} : b.stream <= exec.stream
    /\ fetch2.expectedStream <= exec.stream
    /\ fetch2.lastStream <= exec.stream

\* No prediction is newer than Fetch2's.
PredictionsKnown ==
    /\ \A s \in {Decoded, Undecoded, Fetched} : \A k \in 1..Len(s) : s[k].pred <= fetch2.pred
    /\ \A b \in {fetch1, eToF1.in, eToF1.out, f2ToF1.in, f2ToF1.out} : b.pred <= fetch2.pred
    /\ exec.lastPred <= fetch2.pred

StreamsOrdered ==
    LET c == exec.stream
    IN  /\ Ordered(Decoded, c) /\ Ordered(Undecoded, c) /\ Ordered(Fetched, c)
        /\ NoneOf(Decoded, c) \/ (AllOf(Undecoded, c) /\ AllOf(Fetched, c) /\ fetch1.stream = c)
        /\ NoneOf(Undecoded, c) \/ (AllOf(Fetched, c) /\ fetch1.stream = c)
        /\ NoneOf(Fetched, c) \/ fetch1.stream = c
        /\ fetch2.expectedStream # c \/ (AllOf(Fetched, c) /\ fetch1.stream = c)

\* The lines Fetch2 has are of Fetch1's stream: the branch that changes the one
\* makes the other dump its input, earlier in the same cycle.
LinesOfFetch1 ==
    /\ AllOf(LinesIn, fetch1.stream)
    /\ phase = "fetch1" /\ IsStreamChange(eToF1.out) => LinesIn = <<>>

\* Nothing of the current stream has been fetched.
NoneCurrent ==
    LET c == exec.stream
    IN  /\ NoneOf(Decoded, c) /\ NoneOf(Undecoded, c) /\ NoneOf(Fetched, c)
        /\ fetch2.expectedStream # c
        /\ fetch2.lastStream # c
        /\ \A b \in PendingPredictions : b.stream # c

\* A stream begins with its branch, which takes Fetch1 to the thread's PC; nothing
\* of it is there before, nor while the thread is suspended or drained.
StreamStarts ==
    LET c == exec.stream
    IN  /\ \A b \in PendingBranches :
             /\ NoneCurrent
             /\ fetch1.stream # c
             /\ b.stream = c /\ b.reason # "HaltFetch" => b.target = arch.pc
             /\ b.stream = c /\ exec.drainState = "DrainAllInsts" => b.reason = "HaltFetch"
        /\ IsStreamChange(eToF1.in) => eToF1.out.stream # c
        /\ status = "Suspended" => NoneCurrent
        /\ exec.drainState = "DrainAllInsts" =>
             NoneCurrent /\ (fetch1.stream = c => fetch1.state # "Running")

----------------------------------------------------------------------------
(* Micro-ops and instructions.  a is the thread's PC, m the next micro-op. *)

Place(x) == [pc |-> x.pc, upc |-> x.upc]

\* The place of the next micro-op that Decode emits of x.
FirstPlace(x, m) == [pc |-> x.pc, upc |-> m]

\* What was predicted to come after an instruction and after a micro-op.
NextPC(x) == IF x.predictedTaken THEN x.predictedTarget ELSE AfterPC(x.pc)
NextPlace(x) == IF LastOp(x) THEN At(NextPC(x)) ELSE [pc |-> x.pc, upc |-> x.upc + 1]

\* y, whose place is p, goes on where x was predicted to, or begins the stream.
Follows(x, y, p, c, a) ==
    /\ x.stream = c => x.fault \/ p = NextPlace(x)
    /\ x.stream # c /\ y.stream = c => p = At(a.pc)

FollowsPC(x, y, c, a) ==
    /\ x.stream = c => x.fault \/ y.pc = NextPC(x)
    /\ x.stream # c /\ y.stream = c => y.pc = a.pc

\* From micro-op to micro-op, from the last one to the first instruction, and from
\* instruction to instruction.
OpsFollow(d, u, c, a, m) ==
    /\ \A k \in 1..(Len(d) - 1) : Follows(d[k], d[k + 1], Place(d[k + 1]), c, a)
    /\ d # <<>> /\ u # <<>> => Follows(d[Len(d)], u[1], FirstPlace(u[1], m), c, a)
    /\ d # <<>> /\ u = <<>> /\ d[Len(d)].stream = c => LastOp(d[Len(d)])
    /\ \A k \in 1..(Len(u) - 1) : FollowsPC(u[k], u[k + 1], c, a)

\* The oldest of them is at the thread's PC.
OpsStart(d, u, c, a, m) ==
    /\ d # <<>> => IF d[1].stream = c THEN Place(d[1]) = a ELSE a.upc = 0
    /\ d = <<>> /\ u # <<>> =>
         IF u[1].stream = c THEN FirstPlace(u[1], m) = a ELSE a.upc = 0
    /\ d = <<>> /\ u = <<>> => a.upc = 0

\* The bytes are those at the PC, and only the end of an instruction that may
\* branch is predicted to.
WellFormed(x, c) ==
    /\ x.predictedTaken => ~x.fault /\ Program[x.bytes] = "branch"
    /\ x.stream = c => x.fault \/ x.bytes = x.pc

OpsWellFormed ==
    /\ \A s \in {Decoded, Undecoded} : \A k \in 1..Len(s) : WellFormed(s[k], exec.stream)
    /\ microop # 0 => Undecoded # <<>>
    /\ exec.endOfMacroop => arch.upc = 0
    /\ exec.drainState = "DrainHaltFetch" => exec.endOfMacroop
    /\ exec.drainState = "DrainAllInsts" => arch.upc = 0

OpsPath ==
    /\ OpsFollow(Decoded, Undecoded, exec.stream, arch, microop)
    /\ OpsStart(Decoded, Undecoded, exec.stream, arch, microop)

----------------------------------------------------------------------------
(* Lines. *)

\* The youngest instruction.
Youngest(d, u) ==
    IF u # <<>> THEN {u[Len(u)]} ELSE IF d # <<>> THEN {d[Len(d)]} ELSE {}

\* The path goes on at pc; after a faulting instruction it may go on anywhere.
Continues(y, pc, c, a) ==
    \/ \E x \in y : x.stream = c /\ (x.fault \/ pc = NextPC(x))
    \/ (\A x \in y : x.stream # c) /\ pc = a.pc

ContinuesExactly(y, pc, c, a) ==
    \/ \E x \in y : x.stream = c /\ ~x.fault /\ pc = NextPC(x)
    \/ (\A x \in y : x.stream # c) /\ pc = a.pc

\* Lines, and Fetch1, that Fetch2 will not take for an old prediction.
Live(x, c, f2) == x.stream = c /\ (f2.expectedStream = c => x.pred = f2.pred)

\* The live lines follow each other up to Fetch1's PC.
LinesFollow(f, f1, y, c, a, f2) ==
    /\ \A k \in 1..Len(f) : Live(f[k], c, f2) =>
         /\ Live(f1, c, f2) /\ f[k].pred = f1.pred
         /\ k = 1 \/ ~Live(f[k - 1], c, f2) => Continues(y, f[k].pc, c, a)
         /\ k < Len(f) => Live(f[k + 1], c, f2) /\ f[k + 1].pc = AfterPC(f[k].pc)
         /\ k = Len(f) /\ f1.state = "Running" => f1.pc = AfterPC(f[k].pc)
    /\ (/\ Live(f1, c, f2) /\ f1.state = "Running"
        /\ f # <<>> => ~Live(f[Len(f)], c, f2))
       => Continues(y, f1.pc, c, a)

\* Fetch2's own PC, and the target of its prediction.
PredictionsFollow(y, c, a) ==
    /\ fetch2.havePC /\ fetch2.lastStream = c => ContinuesExactly(y, fetch2.pc, c, a)
    /\ \A b \in PendingPredictions :
         /\ b.reason = "BranchPrediction"
         /\ b.stream = c =>
              /\ fetch2.expectedStream = c
              /\ b.pred = fetch2.pred
              /\ fetch1.pred # b.pred
              /\ Continues(y, b.target, c, a)

LinesPath ==
    LET y == Youngest(Decoded, Undecoded)
    IN  /\ LinesFollow(Fetched, fetch1, y, exec.stream, arch, fetch2)
        /\ PredictionsFollow(y, exec.stream, arch)
        /\ IsStreamChange(f2ToF1.in) /\ f2ToF1.in.stream = exec.stream =>
             f2ToF1.out \notin PendingPredictions \/ f2ToF1.out.stream # exec.stream

----------------------------------------------------------------------------
(* Draining. *)

DrainPath ==
    /\ drain = "Running" => exec.drainState = "NotDraining"
    /\ drain = "Drained" =>
         phase = "between" /\ Decoded = <<>> /\ Undecoded = <<>> /\ Fetched = <<>>

PathInv ==
    /\ StreamsKnown /\ PredictionsKnown /\ StreamsOrdered /\ LinesOfFetch1 /\ StreamStarts
    /\ OpsWellFormed /\ OpsPath /\ LinesPath /\ DrainPath
=============================================================================
