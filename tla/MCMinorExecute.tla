--------------------------- MODULE MCMinorExecute ---------------------------
(***************************************************************************)
(* Programs for the model of MinorCPU's Execute stage: two lines of memory *)
(* and two registers.                                                      *)
(***************************************************************************)
EXTENDS MinorMemory

MCAddrs == {1, 2}
MCRegs == {1, 2}

Inst(kind, lines, srcs, dests) ==
    [kind |-> kind, lines |-> lines, srcs |-> srcs, dests |-> dests]

Op(srcs, dests) == Inst("op", <<>>, srcs, dests)
Branch          == Inst("branch", <<>>, {}, {})
Barrier         == Inst("barrier", <<>>, {}, {})
Store(lines)    == Inst("store", lines, {}, {})
IOStore(a)      == Inst("ioStore", <<a>>, {}, {})
Load(lines)     == Inst("load", lines, {}, {})
LoadBy(a, r)    == Inst("load", <<a>>, {r}, {})
IOLoad(a)       == Inst("ioLoad", <<a>>, {}, {})

\* Stores that wait for an older instruction to commit, and loads that one or both of
\* them cover.
Forwards  == <<Op({}, {}), Store(<<1>>), Store(<<1, 2>>), Load(<<2>>), Load(<<1>>)>>

\* A load that two stores cover in part, and an unbufferable load behind a store.
Straddles == <<Store(<<1>>), Store(<<2>>), Load(<<1, 2>>), Store(<<1, 2>>), IOLoad(2)>>

\* Unbufferable accesses after a branch, and to a line with a store before them.
Devices   == <<Store(<<1>>), Branch, IOStore(1), Store(<<1>>), IOLoad(1)>>

\* Two writers of the register that a load's address is computed from.
Depends   == <<Store(<<1>>), Op({}, {1}), Op({}, {1}), LoadBy(1, 1), Load(<<1>>)>>

\* Accesses on both sides of a barrier, and stores that take two packets.
Fenced    == <<Store(<<1, 2>>), Store(<<1, 2>>), Store(<<2>>), Barrier, Load(<<2>>)>>

Scenario(p, e) == [prog |-> p, events |-> e]

OrderScenarios ==
    {Scenario(Forwards,  {"retry", "predicate", "interrupt", "drain"}),
     Scenario(Straddles, {"retry", "slowDTLB", "dataFault", "interrupt"}),
     Scenario(Devices,   {"retry", "slowDTLB", "dataFault", "interrupt"}),
     Scenario(Depends,   {"retry", "slowDTLB", "dataFault", "interrupt", "drain"}),
     Scenario(Fenced,    {"retry", "interrupt", "drain"})}

\* A second barrier: after the load that the first one should hold back, and on the wrong
\* path of a branch before it.
BarrierScenarios ==
    {Scenario(<<Store(<<1>>), Barrier, Load(<<2>>), Barrier>>, {}),
     Scenario(<<Store(<<1>>), Barrier, Branch, Barrier, Load(<<2>>)>>, {})}

\* An unbufferable store that waits for the store buffer.
DeviceScenarios == {Scenario(<<Store(<<1>>), IOStore(1)>>, {"drain"})}
=============================================================================
