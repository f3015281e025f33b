# Verification of the ECE 565 course work: the DRRIP last-level cache and the five-stage MinorCPU

The repository is the work of a computer-architecture course on top of gem5.
Its own contributions are small changes in a large simulator:

- `ece565/project/DRRIP_project`: gem5 with a new replacement policy, DRRIP
  (set duelling between SRRIP and BRRIP insertion), used by a shared third-level
  cache;
- `ece565/programming_assignment/pa1-divantjain`: gem5 with a stage *Dummy*
  added to the in-order MinorCPU between Decode and Execute, and with a branch
  predictor whose correct predictions can be degraded at random;
- `ece565/gem5_org`: the unmodified gem5 tree.

This directory models the two changed subsystems with the code they depend on,
checks them with TLC and proves the safety properties of the cache, of the pipeline and of
the load/store queue with TLAPS. Paths below
are relative to the two trees, `MINOR` = `pa1-divantjain/src/cpu/minor` and
`CACHE` = `DRRIP_project/src/mem/cache`. `PROJECT.json` holds the definition-to-line
map, the runs, the mutants, the hazards and the theorems.

## 1. Inventory

| Component | State | Operations | Hard behaviour | What makes it correct |
|---|---|---|---|---|
| DRRIP policy (`CACHE/replacement_policies/{drrip,brrip}_rp.*`, `base/sat_counter.hh`) | per block: RRPV, valid; global: PSELCounter; set number | touch, invalidate, reset, getVictim, instantiateEntry | saturation, ageing, class of a set, random draws | PSEL and RRPV stay in range; ageing keeps order; each constituency has both kinds of dedicated set; dead blocks leave |
| Last-level cache (`CACHE/base.cc`, `cache.cc`, `mshr.cc`, `tags/`) | tags, status bits, MSHRs with their deferred targets and flags | timing request, writeback, clean evict, uncacheable flush, send, response, snoop | everything between a miss and its response: writebacks, snoops, flushes, other misses | one copy of an address; policy and tags agree; unreadable blocks are being fetched; a pinned block is an upgrade; the victim is the right one |
| MinorCPU stages (`MINOR/fetch1.cc`, `fetch2.cc`, `decode.cc`, `dummy.cc`, `execute.cc`, `buffers.hh`) | input buffers with reservations, latches, stream and prediction sequence numbers, micro-op position, in-flight instructions | one evaluate() per stage and cycle | wrong-path work, branches that cross predictions, faults, interrupts, back pressure | commits exactly what a sequential machine would; buffers never overflow or leak; progress |
| Draining and activation (`MINOR/pipeline.cc`, `cpu.cc`, `execute.cc`, `sim/drain.cc`) | Execute's drain state, Fetch1's state and wakeup guard, needToSignalDrained, the DrainManager's state | tryDrain, resume, activateContext, suspend (quiesce) | events at any moment between cycles | a drain completes; a resumed or woken thread runs |
| Load/store queue (`MINOR/lsq.cc`, `lsq.hh`) | requests, transfers, store buffer, four counters, lastMemBarrier, packets in the memory system | push, translate, send, retry, response, forward, insert, clear barriers, pop | refused packets, accesses of several packets, speculation, barriers, one counter kept in several handlers | a load sees the last store before it; stores reach memory in order and only when they commit; accesses stay behind barriers; unbufferable accesses happen once |
| Functional units, scoreboard (`MINOR/scoreboard.cc`, `execute.cc`) | instructions in flight, inFUMemInsts, writers of registers | issue, early memory issue, complete | an access that overtakes older instructions | its operands do not come from one of them |
| Activity recorder (`cpu/activity.cc`, `MINOR/pipeline.cc`) | activity of stages and latches, clock running or stopped | activity, activateStage, stop, wakeupOnEvent | an event that does not start the clock again | everything still finishes |
| Branch predictor, ISAs, devices, Ruby, other policies, scripts | - | - | - | unmodified gem5 or no state; not modelled |

Interaction. In the cache every handler is one event of the simulator, so a
handler is atomic; handlers interleave freely. The policy is called by the tag
store (`accessBlock` -> touch, `findVictim` -> getVictim, `insertBlock` -> reset,
`invalidate` -> invalidate). In the CPU the stages run one after the other in
`Pipeline::evaluate` (Execute first, Fetch1 last) and communicate through
latches that advance at the end of the cycle and through *direct calls*: a stage
reserves room in the input buffer of the next one. Responses and retries of the
caches, translations, thread activation, interrupts and drain requests are other
events, between two cycles; some of them start the clock again when the pipeline has
stopped it for want of work, others (`recvReqRetry`) do not. Execute calls the
load/store queue (`step`, `pushRequest`, `findResponse`, `popResponse`, barriers), and
the queue asks Execute whether an instruction is the head and of the right stream.

## 2. Modules

| Module | Models | Composes |
|---|---|---|
| `RRIP` | saturating counters and the policy operations on the data of one set | |
| `DRRIP` | class of a set, policy selection counter, insertion choice | `RRIP` |
| `SetDueling` | the share-out of all sets of a cache | `DRRIP` |
| `L3Cache` | tags, replacement data and MSHRs under the timing handlers | `DRRIP` |
| `L3CacheProofs` | TLAPS proofs about `L3Cache` | `L3Cache` |
| `MinorISA` | abstract specification: a thread runs one instruction at a time | |
| `MinorPipeline` | the five stages, latches, buffers, Fetch1's queues, activity and clock, drain, activation | refines `MinorISA` |
| `MinorPath` | inductive invariant of `MinorPipeline`: the work of the current stream is one path | `MinorPipeline` |
| `MinorPipelineProofs`, `MinorPathProofs`, `MinorCommitProofs` | TLAPS proofs about `MinorPipeline`: types and credits; lemmas on paths; commit order and the refinement | `MinorPath`, `MinorISA` |
| `MinorLSQ` | the load/store queue and the packets in the memory system, as operators on one record | |
| `MinorExecute` | issue, commit, interrupts, drain and clock of Execute around the queue | `MinorLSQ` |
| `MinorQueue` | inductive invariant of `MinorExecute`: the shape of the queue, and what the scoreboard knows | `MinorExecute` |
| `MinorMemory` | inductive invariants of `MinorExecute`: what the queue does to memory, and which barriers keep accesses back | `MinorQueue` |
| `MinorQueueProofs`, `MinorLSQProofs`, `MinorExecuteProofs` | TLAPS proofs about `MinorExecute`: sequences and counters; one lemma per operation of the queue; one per action of Execute | `MinorQueue` |
| `MinorMemoryProofs` | TLAPS proofs about `MinorExecute`: memory and barriers | `MinorMemory`, `MinorExecuteProofs` |
| `MCL3Cache`, `MCMinorPipeline`, `MCMinorExecute` | instances for TLC | |

### RRIP, DRRIP, SetDueling

Replacement data is the record of `BRRIPReplData`; a set's data is a function on
`Ways`. `Victim` and `AgedByGetVictim` are the two results of `getVictim` (the
entry and the side effect: it ages the set before anybody knows whether the
eviction succeeds). Random draws are sets of possible outcomes. `Invalidate`
leaves the counter alone, as the code does (its comment speaks of setting the
RRPV). `DRRIP!And` is C's `&` on unsigned numbers.

### L3Cache

State: `psel`, `blk[s][w]` (tag, readable, writable), `repl[s][w]`, `mshr[<<s,t>>]`.
The actions are the timing-mode handlers: `RecvTimingReqHit/Upgrade/Miss`,
`RecvWriteback`, `RecvCleanEvict`, `RecvUncacheable`, `SendMSHRQueuePacket`,
`RecvTimingResp`, `RecvTimingSnoopReq`. Each includes the calls it makes into the
tag store, the policy and the MSHR (`AllocateTarget`, `HandleFill`,
`ServiceMSHRTargets`, `PromoteWritable`, `MSHRAfterResp`, `SnoopedMSHR`,
`HandleSnoop`, ...). An action of this module is a whole handler with its
trailing effects: a response fills, applies the snoops the MSHR deferred, promotes
deferred targets and frees or re-arms the MSHR in one step.

Left out: data, dirty bits, the write buffer (whether a victim leaves as a
writeback or clean evict changes none of the modelled state), latencies,
functional and atomic accesses, prefetching, compression, locked accesses
(load-locked and store-conditional), whole-line writes answered by an
`InvalidateResp`, `WriteClean` packets and cache maintenance (clean and invalidate
requests). Three more cases of the handlers are left out. An upgrade from above that finds
no block is passed on as it is and its response fills nothing (`isForward`, `cache.cc:481`,
`base.cc:455`); in the model it asks for the block like any miss. An error response frees
the MSHR and fills nothing (`base.cc:411, 465`). A response that invalidates what it brings
(`ReadRespWithInvalidate`) serves only the first target and keeps the others
(`mshr.cc:545-561`).

A dirty writeback is assumed not to meet an MSHR of this cache for its block
(`~Outstanding(s, t)` in `RecvWriteback`): the cache above that has the dirty block answers
the requests of the others itself when they are snooped, so that none of them allocates an
MSHR here, and it does not evict a block while a request of its own for it is outstanding. A
clean writeback can meet one; the code drops it (`base.cc:1118`), which changes nothing.

### MinorPipeline and MinorISA

One cycle is a pass of `phase` through `commit`, `issue`, `dummy`, `decode`,
`fetch2`, `fetch1`, `advance`; an iteration of Execute's commit loop and of its
issue loop is one action. The latch into a stage and the stage's `inputBuffer`
are one record (`latch`, `queue`, `reserved`). The two backward latches `f2ToF1`
and `eToF1` have the value written in this cycle (`in`) and the one read (`out`).

An instruction is an address (`pc`, as Fetch2 counts it) and the address its bytes
came from (`bytes`); what it does is given by `Program[bytes]`: an ordinary
operation, a branch, a macro-op of `MacroLen` micro-ops, an operation after which
fetch starts again (`serial`), or one that suspends the thread (`quiesce`).
`TakeInterrupt` is the cycle in which an interrupt is taken, `Outcomes` what
executing may do to the thread's PC, `BranchReasons` is `tryToBranch`.

A line fetch passes through `InTranslation`, `Translated`, `RequestIssuing` and
`Complete`; requests and transfers are one list, since a fetch only moves from the
front of the first to the back of the second. The icache may refuse a packet
(`icache = "NeedsRetry"`) and ask for it again (`RecvReqRetry`), also when the stream has
changed in between. `active` stands for the activity recorder: a stage marked active or a
latch written in this cycle. `Advance` stops the clock (`running`) if there was none and
no drain waits for its end; `WakeupOnEvent` is in every handler that calls it, and only
there.

Abstractions: one thread; widths and latch delays of one; lines of one instruction;
every prediction possible; functional units, scoreboard and LSQ reduced to a limit of
`FUSlots` instructions that complete in order at any time (`MinorExecute` has them in
detail, with `accessesInFlight()`; here it is left out of `isInbetweenInsts`); PC events
left out; an interrupt arrives in the cycle it is taken in. `ThreadPolicy` is the policy
of `MinorCPU.py` (RoundRobin): with it a thread that has nothing in flight is not looked
at by commit, so that nothing is done for a drain of a suspended thread either, and
`SkipCommit` is the cycle in which that, or an instruction that is not ready, keeps
commit from happening.
`DegradePercent` is the argument of `degrade_branch_predictor`, 100 in the
committed code (every correct prediction counts); the runs with branches use 50,
whose outcomes include those of every other value. The draw is open: the code
seeds the generator with the time at every call.

`MinorISA` is what the program of the thread may observe: the PC and the status
change as if instructions ran one at a time. `ImplementsISA == ISA!Spec` is
checked as a property of `MinorPipeline`; the refinement mapping is the identity
on `arch` and `status`.

### MinorLSQ and MinorExecute

`MinorLSQ` has the state of the queue and of the memory behind it in one record `lsq`;
an operation is an operator from a record to the set of records it may lead to, named
after the function it models (`TryToSendToTransfers`, `TryToSend`, `Forwarding` for
`canForwardDataToLoad`, `Insert`, `StoreBufferStep`, `RecvTimingResp`, `RecvReqRetry`,
`FindResponse`, `PopResponse`, ...). An access is a sequence of lines, one packet each: a
split access has two, and may be half sent when the memory system refuses the rest.
Memory holds for each line the number of the store that wrote it last, so that *which*
store a load saw is part of the state. A request has an `isLoad` of its own, as in the
code: a store that failed its predicate, like a barrier, is pushed as a
`SpecialDataRequest`, which is always a load (`lsq.hh:306-308`). It is therefore not counted
in `numStoresInTransfers` (`lsq.cc:1274`, `1520`), and younger loads do not stall behind it.

`MinorExecute` is Execute::evaluate around it. `prog` is what reaches issue: when the
stream changes (`streamStart`), the instructions already issued are discarded and those
that follow are of the new stream. `Evaluate` steps the queue, then an interrupt may be
taken, then `BeginCommit` or `SkipCommit` is the choice of `getCommittingThread`; an
iteration of the commit loop is `CommitResponse`, `DiscardResponse`, `IssueToLSQ` (early
or at the head), `CommitInst` or `DiscardInst`; then `IssueInst`. `EndCycle` advances the
functional units and decides whether the clock goes on (`need_to_tick`). Between cycles
there are `Finish` (DTLB), `MemoryResponds`, `MemoryRetries`, `PostInterrupt`, `Drain` and
`DrainResume`. `committed` is a history variable: the instructions whose effects belong to
the program.

Abstractions: one thread, one micro-op per instruction, any time in a functional unit
(the memory unit has `opLat` 1 as in `MinorDefaultMemFU`), addresses at the grain of a
line, no store-conditionals that fail, local accesses, accesses that are barriers
themselves, cache maintenance or byte masks.

One assumption about the memory system, `Answerable`: packets of one line are answered in
the order in which they were accepted. `StoreBuffer::step` allows responses to be retired
out of order (`lsq.cc:876`), and TLC shows why the assumption is needed: if the younger of
two stores to a line were answered first, it would leave the store buffer first and a load
would be given the older one's data. gem5's caches answer the accesses of a line in order.

`MinorPipeline` and `MinorExecute` overlap in Execute, each leaving open what the other
has in detail: in the first an instruction in flight may be ready at any time, in the
second instructions may arrive at any time. They are checked separately.

## 3. Runs

Pass:

| Run | Shows | Instance |
|---|---|---|
| `l3_one_set` | `TypeOK`, `OneCopy`, `ReplTracksBlk`, `UnreadableIsOutstanding`, `OutstandingIsUpgrade`, `VictimIsMostDistant`, `AgeingKeepsOrder`, `DeadBlocksLeave` | one SRRIP set, 2 ways, 3 tags, 2 MSHRs, 2-bit RRPV |
| `l3_duel` | `DuelSettles` | an SRRIP, a BRRIP and a follower set of 1 way, 2 tags, 1 MSHR, 2-bit PSEL, 1-bit RRPV |
| `dueling_spread` | `EveryConstituencyDuels` | the project's cache: 2048 sets, 32 duelling sets |
| `minor_streams` | `TypeOK`, `CommitsNextInst`, `CreditsMatch`, `PathInv`, `ImplementsISA`, `InterruptsBetweenInsts` | branch, macro-op and plain instruction; line, instruction and micro-op faults; an interrupt |
| `minor_in_flight` | `CommitsNextInst`, `CreditsMatch`, `SuspendedNeverCommits` | branch and quiesce, two fetches and two instructions in flight, wakeups at any time |
| `minor_drain` | `PathInv`, `ImplementsISA`, `DrainCompletes`, `ThreadAdvances` | serialising instruction, macro-op of three micro-ops (so that one done twice shows) and quiesce; drains and wakeups at any time; slow translations; an icache that refuses fetches; a clock that stops |
| `exec_order` | `TypeOK`, `LoadsSeeStores`, `NoWrongPathStores`, `OperandsReady`, `BarrierOrder`, `CountersMatch`, `QueueInv`, `MemoryInv`, `BarrierInv`, `MemoryInOrder`, `UnbufferableNotDiscarded`, `Completes` | five programs of five instructions (`MCMinorExecute!OrderScenarios`), two lines, two registers; refusals, slow and faulting translations, failed predicates, and two interrupts or drains |

Violations (section 5): `dueling_documented`, `minor_wakeup_in_drain`,
`minor_fault_in_drain`, `exec_barriers`, `exec_drain`.

Bounds and why they are enough. In the cache, sets interact only through PSEL, and
PSEL influences only how blocks are inserted. Two ways and three tags give a full set
with a hit, a victim that is pinned and one that is not, and a miss outstanding
beside them; two MSHRs let requests be accepted, and two responses race, while a miss
is outstanding. In an allocation that fails both blocks of a two-way set stay and can be
compared for their order. `l3_duel` is about long sequences of replacements, not about
races, and has one MSHR; as only insertions count in a duel, sets of one way are enough. The proofs remove the
bounds for the invariants and action properties of `l3_one_set`. In the pipeline, buffers of size 1 (2 for
Fetch2) make every place of the pipeline both full and empty in turn; two or three
addresses give a right path, a wrong path and a handler; the bound on interrupts is
`MaxInterrupts`. Buffers larger than 1 in the later stages only add more
wrong-path instructions of the same kinds.

In Execute the programs of `exec_order` are chosen so that each of the hazards happens:
loads that one store, two stores or part of a store cover, and that meet those stores in
transfers, in the store buffer, half sent and in memory; loads that pass a store that failed
its predicate in transfers; unbufferable accesses on the
wrong path, behind a store to their line and under an interrupt; a load whose address has
two writers in flight; a barrier behind a full store buffer. The queues have the sizes of
`MinorCPU.py` (1 request, 2 transfers, 2 accesses in memory) with a store buffer of 3 so
that it fills; two instructions issue and commit in a cycle. `MaxUpsets` bounds interrupts
and drains together.

Stream and prediction numbers are 64-bit in the code and unbounded in the model.
`MCMinorPipeline!RankedView` makes the instances finite: a state is seen with each
number replaced by its rank among those in use. Numbers are only compared for
equality and a new one is one more than the newest, hence larger than all in use, so
states with the same view have the same future up to renumbering. (`fetch2`'s PC and
last stream count as in use only while `havePC` holds: without it both are
overwritten before they are read.)

Fairness (`FairSpec`), in the runs with liveness: the clock ticks while it is
running (weak fairness of the stages together; they are one event handler); ITLB and
icache answer each fetch, and a refused packet is accepted in the end; an instruction at
the head of the in-flight queue comes to the end of its functional unit or memory access,
and a unit becomes free for the next one (strong fairness, because the pipeline only looks
in the commit or issue part of a cycle). `MinorExecute` assumes the same of the DTLB and
the memory system, that the other stages send the next instruction, and that a drained
system is resumed. It takes one strong fairness of the disjunction of these steps: each
can happen only a bounded number of times for an instruction or a drain, so none can be
taken for ever at the cost of another. Nothing forces a drain, a wakeup, a fault, a
prediction or an interrupt to happen.

Deadlock is checked in the runs of the cache and of the pipeline. It is not in those of
`SetDueling`, which ends when all sets are numbered, and of `MinorExecute`, where the
clock really stops for good when the program is over; there `Completes` says that it does
not stop earlier.

Each property has a mutant in `PROJECT.json`: an operator next to the one it
replaces, marked `Mutant of`, that a plausible slip in the code would give, and that
violates the property.

## 4. Proofs

All theorems hold for every value of the constants that the named assumptions allow: any
number of sets, ways, tags and MSHRs, any program, any size of buffers and queues, any
limit on what happens in a cycle.

### Cache (`L3CacheProofs`)

- `Invariance`: `Spec => []IInv`;
- `TypeCorrect`, `NeverTwoCopies`, `PolicyTracksTags`, `UnreadableIsFetched`,
  `PinnedBlocksAreUpgrades`: the invariants of `l3_one_set`;
- `VictimsAreMostDistant`, `AgeingIsUniform`: its action properties.

None of the invariants is inductive alone. That a response leaves a pinned block
non-writable depends on *why* targets were deferred: `DeferredTargets`, which `IInv`
adds to the type and the four named invariants, says that only an MSHR in service has
deferred targets, and that those satisfied with a readable copy wait behind a deferred
invalidation, so that no valid block is left unreadable for them. Together they are inductive:
`InitIInv` for the initial state, `NextIInv` with one lemma per handler. Handlers
that allocate share `AllocateEffect` and `FailEffect`, which describe what a
replacement does to tags and policy whatever the draw; these rest on `VictimIn`
(getVictim returns a way of the set) and `AgedType` (ageing stays within the bits). The
action properties follow from `IInv` and from what each handler does to the one set it
touches (`VictimStep`, `AgeingStep`).

### Pipeline (`MinorPipelineProofs`, `MinorPathProofs`, `MinorCommitProofs`)

- `TypeCorrect`, and `CreditsAlwaysMatch`: lines in fetch, in the latch and in the input
  buffer never exceed the reservations. `CreditsMatch` needs to know at which point of the
  cycle a latch may hold something; its strengthening `CreditInv` says so phase by phase.
- `PathUnbroken`, `CommitsInOrder`, `NoCommitWhenSuspended`, `InterruptsNeverSplitInsts`,
  and `PipelineImplementsISA`: the pipeline refines `MinorISA`.

The inductive invariant is `PathInv` (module `MinorPath`, checked by TLC in
`minor_streams` and `minor_drain`). What makes commit right is a fact about the whole
pipeline at once: the instructions and lines of the *current* stream, from the head of
the in-flight queue to the last line fetched, are one unbroken path that starts at the
thread's architectural PC and micro-op and ends at the PC Fetch1 fetches next, unless a
change of stream is on its way to Fetch1 (`OpsPath`, `LinesPath`). Predictions make it
intricate. A line that Fetch2 will throw away because of its prediction number is no part
of the path, and a prediction that is in a latch is where the path continues
(`PredictionsFollow`). The other parts say that old streams stay in front of the current
one (`StreamsOrdered`), that nothing has a stream number that was not given out
(`StreamsKnown`), and in which drain state nothing of the current stream exists
(`DrainPath`). There is one lemma per action; the refinement takes each action of the
pipeline to a step of `MinorISA` or to a stutter (`CommitInstISA`, `StepISA`).

The theorems of `MinorCommitProofs` assume `"wakeupInDrain" \notin Events`: no thread is
activated while the CPU drains. The hypothesis is needed. Activation in a drain is finding
2; with it, and with line faults and slow translations, TLC also finds `CommitsNextInst`
violated.

### Execute and load/store queue (`MinorQueueProofs`, `MinorLSQProofs`, `MinorExecuteProofs`)

- `QueueAlwaysInOrder`: `Spec => []QueueInv`;
- `ExecuteTypeCorrect`, in particular that the store buffer, whose `insert` only warns, is
  never overfilled;
- `CountersAlwaysMatch`: the four counters that the queue keeps by hand;
- `OperandsAlwaysReady`: early memory issue never overtakes the writer of an operand.

`QueueInv` (module `MinorQueue`, checked by TLC in `exec_order`) says which states an
access can have in each of the three queues and how many of its packets can have been sent
and answered there (`Pending`, `Transferring`, `Slot`), that the queues are in program
order with the head instruction between the store buffer and the rest, that exactly one
access is waiting while the memory system owes a retry (`OneRetry`), that only the front of
requests has been started (`FrontFirst`), that the counters are the cardinalities they stand
for, and that the scoreboard counts the writers in flight of each register. `CountersMatch`
(where `numStoresInTransfers` counts the requests that are not loads) is not inductive
without all of this: for instance a retry decrements
`numUnissuedAccesses` for the store that was refused, and only `OneRetry` says that there is
one. There is one lemma per operation of the queue (the record it returns is a queue of the
same shape) and one per action of Execute. The loop of `StoreBuffer::step` is the recursive
function `Turns`; that each of its turns keeps the shape is shown by taking the least turn
that does not, since an induction theorem cannot be instantiated.

### Memory and barriers (`MinorMemoryProofs`)

- `MemoryAlwaysRight`: `Spec /\ []HaltsBetweenInsts => []MemoryInv`, and from it
  `NoWrongPathStoresEver`, `LoadsAlwaysSeeStores`, `MemoryAlwaysInOrder` and
  `UnbufferableNeverDiscarded`: the properties of memory of `exec_order`;
- `DrainsHaltSafely`: `HaltsBetweenInsts` is itself an invariant if no program that is
  drained makes an unbufferable access (`DrainsWithoutDevices`), and
  `MemoryRightWithDrains`: those properties hold then without any other hypothesis;
- `BarriersAlwaysRemembered`: `Spec /\ []BarriersApart => []BarrierInv`,
  `BarriersAlwaysOrder`: the same for `BarrierOrder`, and `OneBarrierOrders`: both for every
  program with one barrier, without a hypothesis on the behaviour.

The hypotheses are what findings 5 and 4 violate, and no more. `HaltsBetweenInsts` says
that `drain()` was right to halt fetch at once: no access is issued to a device before the
halt is acted on. `BarriersApart` says that `lastMemBarrier` has only one barrier to
remember: at most one is in flight or in the store buffer. The scenarios of `exec_order`
satisfy `DrainsWithoutDevices` and `OneBarrier`, so the theorems cover that run.

`MemoryInv` (module `MinorMemory`, checked by TLC in `exec_order`) relates every place a
store can be in. A line of memory holds a committed store, or the unbufferable one the head
is making, and every committed store to the line is either overwritten or still in the store
buffer (`LineOK`). A store in the buffer stays until the stores to its lines before it are
gone, and has not been overtaken by a younger one (`SlotOK`). A load that has been started
has, for every fragment already sent, the last store before it, and of the stores before it
only such that failed their predicate are still in flight (`RequestOK`, `TransferOK`,
`HasData`): those are in transfers, marked as skipped, are never sent, and commit without an
effect, so that they are no store the load would have to see. What has been issued to a device is the oldest
instruction, passes no store to its line, and is of the current stream (`AloneAtDevice`,
`DevicesOnPath`). `LoadsSeeStores` is not inductive without the parts about memory and the
store buffer, since a load takes its fragments from both, in different cycles and with a
refusal in between; and `MemoryInOrder` needs the parts about the packets sent of each store
(`SentIsWritten`), since three paths lead to memory: the store buffer's step, the front of
requests and the retry. Each operation of the queue has a lemma that it keeps memory right
(`...Memory`), each action of Execute too.

`BarrierInv` says that a barrier in flight or in the store buffer is `lastMemBarrier`, that
no access after it is in the queue, and that a committed barrier is in the store buffer as
long as a store before it is. The lemmas `...Slots` say what each operation does to the
instructions in the store buffer: a barrier leaves only in `ClearLeadingBarriers`, when
nothing before it is left.

### Assumptions

They are the ones named in the modules (`RRIPAssumption`, `DRRIPAssumption`,
`L3Assumption`, `PipelineAssumption`, `LSQAssumption`, `ExecuteAssumption`): at least one
way, MSHR and duelling set, percentages, counter widths within what `SatCounter` accepts,
queues and limits of at least one, programs whose accesses have at least one line. Three
clauses state that a power of two is a natural number (and that half of it is below it),
since the provers have no arithmetic of exponentiation; TLC evaluates all of them in every
run.

### Only model-checked

- Liveness, which is out of the prover's reach: `DeadBlocksLeave`, `DuelSettles`,
  `DrainCompletes`, `ThreadAdvances`, `Completes`.
- `EveryConstituencyDuels`: the arithmetic of `SetDueling` needs induction over bits.

Nothing is proved of memory in behaviours where a drain meets an unbufferable access before
it is sent, nor of barriers when several are in flight at once: there
`UnbufferableNotDiscarded` and `BarrierOrder` are false (findings 5 and 4).

## 5. Findings

1. `dueling_documented`: the parameter `num_set_dueling_sets` is described as the
   number of sets dedicated to each policy (`ReplacementPolicies.py:92-93`); `reset()`
   dedicates one set per constituency of that many sets, 64 instead of 32 in the
   project's 2 MB cache. The two agree only for caches of `num_set_dueling_sets`^2 sets.
2. `minor_wakeup_in_drain`: a suspended thread that is activated after Fetch1 took the
   HaltFetch of a drain sets Fetch1 running again; Execute discards what arrives and never
   halts it a second time, and the drain never ends.
3. `minor_fault_in_drain`: while the current macro-op is drained the branch of a
   faulting micro-op is thrown away after its stream number was taken; the rest of the
   macro-op is discarded at issue, `lastCommitWasEndOfMacroop` is never set and the
   drain never ends.
4. `exec_barriers`: there is one `lastMemBarrier` for all barriers. A load between two of
   them is compared with the second one only, once that has been issued, and is let through;
   and when the youngest barrier is discarded from a wrong path, `clearMemBarrier` sets
   `lastMemBarrier` to 0 and loads after it are let through. In both cases the first barrier may
   still be in the store buffer, and the load is performed before the stores in front of it.
   The comment in `issuedMemBarrierInst` expects accesses between barriers to be delayed, not
   let through. Each of the two programs of `BarrierScenarios` alone gives a violation.
5. `exec_drain`: `drain()` looks only at unbufferable accesses already sent. One that is at
   the head and waits for an overlapping store to leave the store buffer is sent after the
   drain state was chosen, and then discarded: its device sees it a second time after the
   resume. `MCMinorExecute_order.cfg` has no drain in the programs with unbufferable
   accesses, where `UnbufferableNotDiscarded` then holds under interrupts.

The passing runs show what holds without those events: `minor_drain` has no wakeup during a
drain and no fault of a non-final micro-op, `exec_order` has one barrier in flight.

`Pipeline::isDrained` does not look at the latch from Execute to Fetch1, so that with the
policy SingleThreaded a HaltFetch can outlive the drain it belongs to. With RoundRobin, the
default and the policy of every run, a thread with nothing in flight is not asked to halt
fetch, and `minor_drain` shows that no thread is halted that way; nothing is checked for
SingleThreaded.

## 6. Plan

Done: the policy, set duelling, the cache with its proofs, the pipeline with Fetch1's
queues, idling, draining, suspension and refinement of `MinorISA`, and Execute with the
load/store queue, the scoreboard and early memory issue, and the proofs of section 4: every
safety property that a run checks, but for `EveryConstituencyDuels`, is a theorem.

Next, in this order:

1. Wider Decode and Dummy (inputIndex, output width, `execSeqNum`), two threads with
   the round-robin thread choice.
2. The write buffer of the cache, and the data that a block and a writeback carry.
3. Store-conditionals, and accesses that are also barriers, in the load/store queue.

Not modelled, and why: the branch predictor (gem5's own; every prediction is possible in
the model), the latencies of functional units (an instruction is ready at any time, which
covers them), the other replacement policies, ISAs, devices, Ruby and the other CPU models
(unmodified gem5 around the course's own changes), scripts, statistics and reports (no state).
