--------------------------- MODULE L3CacheProofs ----------------------------
(***************************************************************************)
(* The tag store, its replacement data and the MSHRs agree, for every      *)
(* number of sets, ways, tags and counter widths.                          *)
(***************************************************************************)
EXTENDS L3Cache, WellFoundedInduction, TLAPS

----------------------------------------------------------------------------
(* Choosing a way. *)

\* A non-empty set of naturals has a least element.
LEMMA LeastNatural ==
    ASSUME NEW S \in SUBSET Nat, S # {}
    PROVE  \E x \in S : \A y \in S : x <= y
<1>1. PICK x \in S : \A y \in S : ~(<<y, x>> \in OpToRel(<, Nat))
  BY NatLessThanWellFounded, WFMin
<1>2. \A y \in S : ~(y < x)
  BY <1>1 DEF OpToRel
<1> QED
  BY <1>2

\* FirstWay returns a member of a non-empty set of ways.
LEMMA FirstWayIn ==
    ASSUME NEW S \in SUBSET Ways, S # {}
    PROVE  FirstWay(S) \in S
<1>1. S \in SUBSET Nat
  BY RRIPAssumption DEF Ways
<1>2. \E x \in S : \A y \in S : x <= y
  BY <1>1, LeastNatural
<1> QED
  BY <1>2 DEF FirstWay

\* The ways of a set of which none is predicted to be re-referenced later.
LEMMA MostDistantExists ==
    ASSUME NEW ds \in [Ways -> ReplData]
    PROVE  MostDistantWays(ds) # {}
<1> DEFINE Slack == {MaxRRPV - ds[w].rrpv : w \in Ways}
<1>1. MaxRRPV \in Nat
  BY RRIPAssumption DEF MaxRRPV
<1>2. \A w \in Ways : ds[w].rrpv \in 0..MaxRRPV
  BY DEF ReplData, RRPVs
<1>3. Slack \in SUBSET Nat
  BY <1>1, <1>2
<1>4. 0 \in Ways
  BY RRIPAssumption DEF Ways
<1>5. Slack # {}
  BY <1>4
<1> HIDE DEF Slack
<1>6. PICK x \in Slack : \A y \in Slack : x <= y
  BY <1>3, <1>5, LeastNatural
<1> USE DEF Slack
<1>7. PICK w \in Ways : x = MaxRRPV - ds[w].rrpv
  BY <1>6
<1>8. \A v \in Ways : MaxRRPV - ds[w].rrpv <= MaxRRPV - ds[v].rrpv
  BY <1>6, <1>7
<1>9. \A v \in Ways : ds[v].rrpv <= ds[w].rrpv
  BY <1>1, <1>2, <1>8
<1> QED
  BY <1>9 DEF MostDistantWays

\* getVictim always returns a way of the set.
LEMMA VictimIn ==
    ASSUME NEW ds \in [Ways -> ReplData]
    PROVE  /\ Victim(ds) \in Ways
           /\ ds[Victim(ds)].valid => \A w \in Ways : ds[w].valid
<1>1. InvalidWays(ds) \in SUBSET Ways
  BY DEF InvalidWays
<1>2. MostDistantWays(ds) \in SUBSET Ways
  BY DEF MostDistantWays
<1>3. CASE InvalidWays(ds) # {}
  <2>1. Victim(ds) = FirstWay(InvalidWays(ds))
    BY <1>3 DEF Victim
  <2>2. Victim(ds) \in InvalidWays(ds)
    BY <1>1, <1>3, <2>1, FirstWayIn
  <2> QED
    BY <2>2 DEF InvalidWays
<1>4. CASE InvalidWays(ds) = {}
  <2>1. Victim(ds) = FirstWay(MostDistantWays(ds))
    BY <1>4 DEF Victim
  <2>2. Victim(ds) \in MostDistantWays(ds)
    BY <1>2, <2>1, MostDistantExists, FirstWayIn
  <2> QED
    BY <1>2, <1>4, <2>2 DEF InvalidWays
<1> QED
  BY <1>3, <1>4

\* Ageing keeps replacement data well formed and changes no valid bit.
LEMMA AgedType ==
    ASSUME NEW ds \in [Ways -> ReplData]
    PROVE  /\ AgedByGetVictim(ds) \in [Ways -> ReplData]
           /\ \A w \in Ways : AgedByGetVictim(ds)[w].valid = ds[w].valid
<1> DEFINE diff == MaxRRPV - ds[Victim(ds)].rrpv
<1>1. MaxRRPV \in Nat
  BY RRIPAssumption DEF MaxRRPV
<1>2. Victim(ds) \in Ways
  BY VictimIn
<1>3. \A w \in Ways : /\ ds[w].rrpv \in 0..MaxRRPV
                      /\ ds[w].valid \in BOOLEAN
                      /\ ds[w] = [rrpv |-> ds[w].rrpv, valid |-> ds[w].valid]
  BY DEF ReplData, RRPVs
<1>4. diff \in Nat
  BY <1>1, <1>2, <1>3
<1> HIDE DEF diff
<1>5. \A w \in Ways : SatAdd(ds[w].rrpv, diff) \in 0..MaxRRPV
  BY <1>1, <1>3, <1>4 DEF SatAdd
<1>6. \A w \in Ways : [ds[w] EXCEPT !.rrpv = SatAdd(@, diff)]
                        = [rrpv |-> SatAdd(ds[w].rrpv, diff), valid |-> ds[w].valid]
  BY <1>3
<1>7. AgedByGetVictim(ds) =
        IF InvalidWays(ds) # {} THEN ds
        ELSE [w \in Ways |-> [ds[w] EXCEPT !.rrpv = SatAdd(@, diff)]]
  BY DEF AgedByGetVictim, diff
<1> QED
  BY <1>3, <1>5, <1>6, <1>7 DEF ReplData, RRPVs

\* The data reset(), touch() and invalidate() leave is well formed.
LEMMA PolicyTypes ==
    /\ \A long \in BOOLEAN : InsertedData(long) \in ReplData /\ InsertedData(long).valid
    /\ \A d \in ReplData : Touch(d) \in ReplData /\ Touch(d).valid = d.valid
    /\ \A d \in ReplData : Invalidate(d) \in ReplData /\ ~Invalidate(d).valid
    /\ InstantiateEntry \in ReplData /\ ~InstantiateEntry.valid
<1>1. MaxRRPV \in Nat
  BY RRIPAssumption DEF MaxRRPV
<1>2. \A c \in RRPVs : SatDec(c) \in RRPVs
  BY <1>1 DEF SatDec, RRPVs
<1>3. 0 \in RRPVs /\ MaxRRPV \in RRPVs
  BY <1>1 DEF RRPVs
<1>4. \A long \in BOOLEAN : InsertedData(long) \in ReplData /\ InsertedData(long).valid
  BY <1>2, <1>3 DEF InsertedData, ReplData
<1>5. \A d \in ReplData : Touch(d) \in ReplData /\ Touch(d).valid = d.valid
  BY <1>2, <1>3 DEF Touch, ReplData
<1>6. \A d \in ReplData : Invalidate(d) \in ReplData /\ ~Invalidate(d).valid
  BY DEF Invalidate, ReplData
<1>7. InstantiateEntry \in ReplData /\ ~InstantiateEntry.valid
  BY <1>3 DEF InstantiateEntry, ReplData
<1> QED
  BY <1>4, <1>5, <1>6, <1>7

\* The selection counter stays within its bits.
LEMMA PSELTypes ==
    /\ PSELInit \in PSELs
    /\ \A p \in PSELs, s \in Sets : NextPSEL(p, s) \in PSELs
<1>1. PSELMax \in Nat
  BY DRRIPAssumption, SMT DEF PSELMax
<1>2. PSELInit \in PSELs
  BY DRRIPAssumption DEF PSELInit, PSELs, PSELMax
<1>3. \A p \in PSELs, s \in Sets : NextPSEL(p, s) \in PSELs
  BY <1>1 DEF NextPSEL, PSELs
<1> QED
  BY <1>2, <1>3

----------------------------------------------------------------------------
(* The inductive invariant. *)

\* Targets are deferred only by an MSHR in service, and requests that can do
\* with a readable copy only behind an invalidation.
DeferredTargets ==
    \A a \in Addrs :
      /\ mshr[a].deferred # "none" => mshr[a].state = "inService"
      /\ mshr[a].deferred = "readable" => mshr[a].postInvalidate

IInv ==
    /\ TypeOK
    /\ OneCopy
    /\ ReplTracksBlk
    /\ UnreadableIsOutstanding
    /\ OutstandingIsUpgrade
    /\ DeferredTargets

\* What an MSHR m may be once its address t has block c.
Fits(c, m) ==
    /\ ~c.readable => m.state # "free"
    /\ m.state # "free" => ~c.writable /\ m.needsWritable

\* Every handler changes one way w of one set s, the MSHR of one address of that
\* set, and replacement data of that set; this is what such a change must
\* satisfy to preserve the invariant.
Handled(s, t, w, b, m) ==
    /\ blk' = [blk EXCEPT ![s][w] = b]
    /\ mshr' = [mshr EXCEPT ![<<s, t>>] = m]
    /\ b = blk[s][w] \/ b.tag \in {t, NoTag}
    /\ b.tag = t => blk[s][w].tag = t \/ \A v \in Ways : blk[s][v].tag # t
    /\ m.deferred # "none" => m.state = "inService"
    /\ m.deferred = "readable" => m.postInvalidate
    /\ \A v \in Ways : blk'[s][v].tag = t => Fits(blk'[s][v], m)
    /\ psel' \in PSELs
    /\ repl' \in [Sets -> [Ways -> ReplData]]
    /\ \A u \in Sets, v \in Ways :
         repl'[u][v].valid <=> IF u = s /\ v = w THEN b.tag # NoTag
                                                 ELSE repl[u][v].valid

LEMMA HandlerPreserves ==
    ASSUME IInv,
           NEW s \in Sets, NEW t \in Tags, NEW w \in Ways,
           NEW b \in Blocks, NEW m \in MSHRs, Handled(s, t, w, b, m)
    PROVE  IInv'
<1> USE DEF Handled
<1>t. /\ blk \in [Sets -> [Ways -> Blocks]]
      /\ mshr \in [Addrs -> MSHRs]
      /\ <<s, t>> \in Addrs
  BY DEF IInv, TypeOK, Addrs
<1>b. /\ blk' \in [Sets -> [Ways -> Blocks]]
      /\ blk'[s][w] = b
      /\ \A u \in Sets, v \in Ways : u # s \/ v # w => blk'[u][v] = blk[u][v]
  BY <1>t
<1>m. /\ mshr' \in [Addrs -> MSHRs]
      /\ mshr'[<<s, t>>] = m
      /\ \A a \in Addrs : a # <<s, t>> => mshr'[a] = mshr[a]
  BY <1>t
<1>n. \A u \in Sets, v \in Ways : blk'[u][v].tag # NoTag => <<u, blk'[u][v].tag>> \in Addrs
  BY <1>b DEF Blocks, Addrs
<1>o. NoTag # t
  BY L3Assumption
<1>1. TypeOK'
  BY <1>b, <1>m DEF TypeOK
<1>2. OneCopy'
  <2> SUFFICES ASSUME NEW u \in Sets, NEW v \in Ways, NEW x \in Ways,
                      blk'[u][v].tag = blk'[u][x].tag, v # x
               PROVE  blk'[u][v].tag = NoTag
    BY DEF OneCopy
  <2>1. \A y \in Ways : y # w \/ u # s => blk'[u][y].tag = blk[u][y].tag
    BY <1>b
  <2>2. CASE v # w /\ x # w
    BY <2>1, <2>2 DEF IInv, OneCopy
  <2>3. CASE u # s
    BY <2>1, <2>3 DEF IInv, OneCopy
  <2>4. CASE u = s /\ (v = w \/ x = w) /\ b = blk[s][w]
    BY <1>b, <2>4 DEF IInv, OneCopy
  <2>5. CASE u = s /\ (v = w \/ x = w) /\ b.tag = t
    BY <1>b, <1>o, <2>5 DEF IInv, OneCopy
  <2>6. CASE u = s /\ (v = w \/ x = w) /\ b.tag = NoTag
    BY <1>b, <2>6
  <2> QED
    BY <2>2, <2>3, <2>4, <2>5, <2>6
<1>3. ReplTracksBlk'
  BY <1>b DEF IInv, ReplTracksBlk
<1>4. ASSUME NEW u \in Sets, NEW v \in Ways, blk'[u][v].tag # NoTag
      PROVE  Fits(blk'[u][v], mshr'[<<u, blk'[u][v].tag>>])
  <2>1. CASE <<u, blk'[u][v].tag>> = <<s, t>>
    <3>1. u = s /\ blk'[u][v].tag = t /\ mshr'[<<u, blk'[u][v].tag>>] = m
      BY <1>m, <2>1
    <3>2. \A y \in Ways : blk'[s][y].tag = t => Fits(blk'[s][y], m)
      OBVIOUS
    <3> QED
      BY <3>1, <3>2
  <2>2. CASE <<u, blk'[u][v].tag>> # <<s, t>>
    <3>1. blk'[u][v] = blk[u][v]
      BY <1>4, <1>b, <2>2
    <3>2. mshr'[<<u, blk'[u][v].tag>>] = mshr[<<u, blk[u][v].tag>>]
      BY <1>4, <1>m, <1>n, <2>2, <3>1
    <3> QED
      BY <1>4, <3>1, <3>2
         DEF IInv, UnreadableIsOutstanding, OutstandingIsUpgrade, Outstanding, Fits
  <2> QED
    BY <2>1, <2>2
<1>6. UnreadableIsOutstanding'
  BY <1>4 DEF UnreadableIsOutstanding, Outstanding, Fits
<1>7. OutstandingIsUpgrade'
  BY <1>4 DEF OutstandingIsUpgrade, Outstanding, Fits
<1>8. DeferredTargets'
  BY <1>m DEF IInv, DeferredTargets
<1> QED
  BY <1>1, <1>2, <1>3, <1>6, <1>7, <1>8 DEF IInv

\* The way findBlock returns holds the address, and is readable, waiting to be
\* upgraded, or both, as the invariant says.
LEMMA WayOfIn ==
    ASSUME IInv, NEW s \in Sets, NEW t \in Tags, Cached(s, t)
    PROVE  /\ WayOf(s, t) \in Ways
           /\ blk[s][WayOf(s, t)] \in Blocks
           /\ blk[s][WayOf(s, t)].tag = t
           /\ \A v \in Ways : blk[s][v].tag = t => v = WayOf(s, t)
           /\ Fits(blk[s][WayOf(s, t)], mshr[<<s, t>>])
<1>1. HitWays(s, t) \in SUBSET Ways
  BY DEF HitWays
<1>2. WayOf(s, t) \in HitWays(s, t)
  BY <1>1, FirstWayIn DEF WayOf, Cached
<1>3. WayOf(s, t) \in Ways /\ blk[s][WayOf(s, t)].tag = t
  BY <1>2 DEF HitWays
<1>4. t # NoTag
  BY L3Assumption
<1>5. \A v \in Ways : blk[s][v].tag = t => v = WayOf(s, t)
  BY <1>3, <1>4 DEF IInv, OneCopy
<1>6. Fits(blk[s][WayOf(s, t)], mshr[<<s, t>>])
  BY <1>3, <1>4
     DEF IInv, UnreadableIsOutstanding, OutstandingIsUpgrade, Outstanding, Fits
<1> QED
  BY <1>3, <1>5, <1>6 DEF IInv, TypeOK

\* The pieces of the state a handler reads have their types.
LEMMA Typing ==
    ASSUME IInv, NEW s \in Sets, NEW t \in Tags
    PROVE  /\ <<s, t>> \in Addrs
           /\ mshr[<<s, t>>] \in MSHRs
           /\ repl[s] \in [Ways -> ReplData]
           /\ \A w \in Ways : blk[s][w] \in Blocks
           /\ mshr = [mshr EXCEPT ![<<s, t>>] = mshr[<<s, t>>]]
           /\ \A w \in Ways : blk = [blk EXCEPT ![s][w] = blk[s][w]]
           /\ t # NoTag
  BY L3Assumption DEF IInv, TypeOK, Addrs

\* Setting one replacement entry.
LEMMA ReplEntry ==
    ASSUME IInv, NEW s \in Sets, NEW w \in Ways, NEW d \in ReplData,
           repl' = [repl EXCEPT ![s][w] = d]
    PROVE  /\ repl' \in [Sets -> [Ways -> ReplData]]
           /\ \A u \in Sets, v \in Ways :
                repl'[u][v] = IF u = s /\ v = w THEN d ELSE repl[u][v]
  BY DEF IInv, TypeOK

\* A touched block stays as valid as it was.
LEMMA TouchKeeps ==
    ASSUME IInv, NEW s \in Sets, NEW t \in Tags, NEW w \in Ways, NEW b \in Blocks,
           TouchBlock(s, w), b.tag # NoTag <=> blk[s][w].tag # NoTag
    PROVE  /\ repl' \in [Sets -> [Ways -> ReplData]]
           /\ \A u \in Sets, v \in Ways :
                repl'[u][v].valid <=> IF u = s /\ v = w THEN b.tag # NoTag
                                                        ELSE repl[u][v].valid
<1>1. repl[s][w] \in ReplData
  BY Typing
<1>2. Touch(repl[s][w]) \in ReplData /\ Touch(repl[s][w]).valid = repl[s][w].valid
  BY <1>1, PolicyTypes
<1>3. repl' = [repl EXCEPT ![s][w] = Touch(repl[s][w])]
  BY DEF TouchBlock
<1>4. repl[s][w].valid <=> blk[s][w].tag # NoTag
  BY DEF IInv, ReplTracksBlk
<1> HIDE DEF TouchBlock
<1> QED
  BY <1>2, <1>3, <1>4, ReplEntry

\* allocateTarget keeps an MSHR well formed.
LEMMA AllocateTargetOK ==
    ASSUME NEW m \in MSHRs, NEW nw \in BOOLEAN,
           m.deferred # "none" => m.state = "inService",
           m.deferred = "readable" => m.postInvalidate
    PROVE  /\ AllocateTarget(m, nw) \in MSHRs
           /\ AllocateTarget(m, nw).state = m.state
           /\ m.needsWritable => AllocateTarget(m, nw).needsWritable
           /\ AllocateTarget(m, nw).deferred # "none" => m.state = "inService"
           /\ AllocateTarget(m, nw).deferred = "readable"
                => AllocateTarget(m, nw).postInvalidate
  BY DEF AllocateTarget, MSHRs

\* A fresh MSHR is well formed.
LEMMA FreshMSHR ==
    /\ FreeMSHR \in MSHRs /\ FreeMSHR.state = "free" /\ FreeMSHR.deferred = "none"
    /\ \A nw \in BOOLEAN :
         /\ PendingMSHR(nw) \in MSHRs
         /\ PendingMSHR(nw).state = "pending"
         /\ PendingMSHR(nw).deferred = "none"
         /\ PendingMSHR(nw).needsWritable = nw
  BY DEF FreeMSHR, PendingMSHR, MSHRs

LEMMA HitPreserves ==
    ASSUME IInv, NEW s \in Sets, NEW t \in Tags, Cached(s, t),
           TouchBlock(s, WayOf(s, t)), UNCHANGED <<psel, blk, mshr>>
    PROVE  IInv'
<1> DEFINE w == WayOf(s, t)
           b == blk[s][w]
           m == mshr[<<s, t>>]
<1>1. w \in Ways /\ b \in Blocks /\ m \in MSHRs /\ b.tag = t /\ Fits(b, m)
      /\ \A v \in Ways : blk[s][v].tag = t => v = w
  BY WayOfIn, Typing
<1>2. /\ repl' \in [Sets -> [Ways -> ReplData]]
      /\ \A u \in Sets, v \in Ways :
           repl'[u][v].valid <=> IF u = s /\ v = w THEN b.tag # NoTag
                                                   ELSE repl[u][v].valid
  BY <1>1, TouchKeeps
<1>3. blk' = [blk EXCEPT ![s][w] = b] /\ mshr' = [mshr EXCEPT ![<<s, t>>] = m]
  BY <1>1, Typing
<1>4. \A v \in Ways : blk'[s][v].tag = t => Fits(blk'[s][v], m)
  BY <1>1
<1>5. (m.deferred # "none" => m.state = "inService")
      /\ (m.deferred = "readable" => m.postInvalidate)
  BY Typing DEF IInv, DeferredTargets
<1>6. psel' \in PSELs
  BY DEF IInv, TypeOK
<1>7. Handled(s, t, w, b, m)
  BY <1>1, <1>2, <1>3, <1>4, <1>5, <1>6 DEF Handled
<1> HIDE DEF w, b, m
<1> QED
  BY <1>1, <1>7, HandlerPreserves

LEMMA UpgradePreserves ==
    ASSUME IInv, NEW s \in Sets, NEW t \in Tags, NEW nw \in BOOLEAN,
           RecvTimingReqUpgrade(s, t, nw)
    PROVE  IInv'
<1> DEFINE w == WayOf(s, t)
           old == mshr[<<s, t>>]
<1>1. w \in Ways /\ blk[s][w] \in Blocks /\ blk[s][w].tag = t /\ Fits(blk[s][w], old)
      /\ \A v \in Ways : blk[s][v].tag = t => v = w
  BY WayOfIn DEF RecvTimingReqUpgrade
<1>2. old \in MSHRs
      /\ (old.deferred # "none" => old.state = "inService")
      /\ (old.deferred = "readable" => old.postInvalidate)
      /\ blk \in [Sets -> [Ways -> Blocks]]
  BY Typing DEF IInv, TypeOK, DeferredTargets
<1>3. TouchBlock(s, w) /\ psel' \in PSELs /\ ~Satisfies(blk[s][w], nw)
  BY DEF RecvTimingReqUpgrade, IInv, TypeOK
<1>4. CASE Outstanding(s, t)
  <2> DEFINE m == AllocateTarget(old, nw)
             b == blk[s][w]
  <2>1. mshr' = [mshr EXCEPT ![<<s, t>>] = m] /\ blk' = [blk EXCEPT ![s][w] = b]
    BY <1>1, <1>4, Typing DEF RecvTimingReqUpgrade
  <2>2. /\ m \in MSHRs
        /\ m.state = old.state
        /\ old.needsWritable => m.needsWritable
        /\ m.deferred # "none" => m.state = "inService"
        /\ m.deferred = "readable" => m.postInvalidate
    BY <1>2, AllocateTargetOK
  <2>3. Fits(b, m)
    BY <1>1, <1>4, <2>2 DEF Fits, Outstanding
  <2>4. Handled(s, t, w, b, m)
    BY <1>1, <1>2, <1>3, <2>1, <2>2, <2>3, TouchKeeps DEF Handled
  <2> HIDE DEF m, b, w
  <2> QED
    BY <1>1, <2>2, <2>4, HandlerPreserves DEF b
<1>5. CASE ~Outstanding(s, t)
  <2> DEFINE m == PendingMSHR(nw)
             b == [blk[s][w] EXCEPT !.readable = FALSE]
  <2>1. mshr' = [mshr EXCEPT ![<<s, t>>] = m] /\ blk' = [blk EXCEPT ![s][w].readable = FALSE]
    BY <1>5 DEF RecvTimingReqUpgrade
  <2>2. /\ m \in MSHRs
        /\ m.state = "pending"
        /\ m.deferred = "none"
        /\ m.needsWritable = nw
    BY FreshMSHR
  <2>3. b \in Blocks /\ b.tag = t /\ b.writable = blk[s][w].writable
    BY <1>1 DEF Blocks
  <2>4. nw /\ ~b.writable
    BY <1>1, <1>3, <1>5, <2>3 DEF Satisfies, Fits, Outstanding
  <2>5. Fits(b, m)
    BY <2>2, <2>4 DEF Fits
  <2>6. blk' = [blk EXCEPT ![s][w] = b]
    BY <1>1, <1>2, <2>1
  <2> HIDE DEF m, b, w
  <2>7. \A v \in Ways : blk'[s][v] = IF v = w THEN b ELSE blk[s][v]
    BY <1>1, <1>2, <2>3, <2>6
  <2>8. /\ repl' \in [Sets -> [Ways -> ReplData]]
        /\ \A u \in Sets, v \in Ways :
             repl'[u][v].valid <=> IF u = s /\ v = w THEN b.tag # NoTag
                                                     ELSE repl[u][v].valid
    BY <1>1, <1>3, <2>3, TouchKeeps
  <2>9. \A v \in Ways : blk'[s][v].tag = t => Fits(blk'[s][v], m)
    BY <1>1, <2>5, <2>7
  <2>10. Handled(s, t, w, b, m)
    BY <1>1, <1>3, <2>1, <2>2, <2>3, <2>6, <2>8, <2>9 DEF Handled
  <2> QED
    BY <1>1, <2>2, <2>3, <2>10, HandlerPreserves
<1> QED
  BY <1>4, <1>5

LEMMA MissPreserves ==
    ASSUME IInv, NEW s \in Sets, NEW t \in Tags, NEW nw \in BOOLEAN,
           RecvTimingReqMiss(s, t, nw)
    PROVE  IInv'
<1> DEFINE old == mshr[<<s, t>>]
           m == IF old.state # "free" THEN AllocateTarget(old, nw)
                                      ELSE PendingMSHR(nw)
           w == 0
           b == blk[s][w]
<1>1. w \in Ways
  BY RRIPAssumption DEF Ways
<1>2. b \in Blocks /\ old \in MSHRs
      /\ (old.deferred # "none" => old.state = "inService")
      /\ (old.deferred = "readable" => old.postInvalidate)
  BY <1>1, Typing DEF IInv, DeferredTargets
<1>3. /\ m \in MSHRs
      /\ m.deferred # "none" => m.state = "inService"
      /\ m.deferred = "readable" => m.postInvalidate
  BY <1>2, AllocateTargetOK, FreshMSHR
<1>4. \A v \in Ways : blk[s][v].tag # t
  BY DEF RecvTimingReqMiss, Cached, HitWays
<1>5. mshr' = [mshr EXCEPT ![<<s, t>>] = m] /\ blk' = [blk EXCEPT ![s][w] = b]
  BY <1>1, Typing DEF RecvTimingReqMiss
<1>6. blk' = blk /\ repl' = repl /\ psel' = psel
  BY DEF RecvTimingReqMiss
<1>7. psel' \in PSELs /\ repl' \in [Sets -> [Ways -> ReplData]]
      /\ (repl[s][w].valid <=> b.tag # NoTag)
  BY <1>1, <1>6 DEF IInv, TypeOK, ReplTracksBlk
<1>8. Handled(s, t, w, b, m)
  BY <1>1, <1>3, <1>4, <1>5, <1>6, <1>7 DEF Handled
<1> HIDE DEF m, b, w
<1> QED
  BY <1>1, <1>2, <1>3, <1>8, HandlerPreserves

\* What an allocation does to the set: the way it takes, the data it leaves.
LEMMA AllocateEffect ==
    ASSUME IInv, NEW s \in Sets, NEW t \in Tags, NEW b \in Blocks, AllocateBlock(s, b)
    PROVE  \E w \in Ways :
             /\ blk' = [blk EXCEPT ![s][w] = b]
             /\ psel' \in PSELs
             /\ repl' \in [Sets -> [Ways -> ReplData]]
             /\ \A u \in Sets, v \in Ways :
                  repl'[u][v].valid <=> IF u = s /\ v = w THEN b.tag # NoTag
                                                          ELSE repl[u][v].valid
<1> DEFINE w == Victim(repl[s])
           aged == AgedByGetVictim(repl[s])
<1>1. repl[s] \in [Ways -> ReplData] /\ repl \in [Sets -> [Ways -> ReplData]] /\ psel \in PSELs
  BY DEF IInv, TypeOK
<1>2. w \in Ways
  BY <1>1, VictimIn
<1>3. aged \in [Ways -> ReplData] /\ \A v \in Ways : aged[v].valid = repl[s][v].valid
  BY <1>1, AgedType
<1>4. PICK long \in LongChoices(psel, s) :
        repl' = [repl EXCEPT ![s] =
                   [aged EXCEPT ![w] =
                      IF b.tag = NoTag THEN Invalidate(InsertedData(long))
                                       ELSE InsertedData(long)]]
  BY DEF AllocateBlock
<1>5. long \in BOOLEAN
  BY <1>4 DEF LongChoices, BimodalDraws
<1> DEFINE d == IF b.tag = NoTag THEN Invalidate(InsertedData(long))
                                 ELSE InsertedData(long)
<1>6. d \in ReplData /\ (d.valid <=> b.tag # NoTag)
  BY <1>5, PolicyTypes
<1>7. blk' = [blk EXCEPT ![s][w] = b] /\ psel' = NextPSEL(psel, s)
  BY DEF AllocateBlock
<1>8. psel' \in PSELs
  BY <1>1, <1>7, PSELTypes
<1>9. repl' = [repl EXCEPT ![s] = [aged EXCEPT ![w] = d]]
  BY <1>4
<1> HIDE DEF w, aged, d
<1>10. [aged EXCEPT ![w] = d] \in [Ways -> ReplData]
       /\ \A v \in Ways : [aged EXCEPT ![w] = d][v] = IF v = w THEN d ELSE aged[v]
  BY <1>2, <1>3, <1>6
<1>11. repl' \in [Sets -> [Ways -> ReplData]]
       /\ \A u \in Sets, v \in Ways :
            repl'[u][v] = IF u # s THEN repl[u][v] ELSE IF v = w THEN d ELSE aged[v]
  BY <1>1, <1>9, <1>10
<1>12. \A u \in Sets, v \in Ways :
         repl'[u][v].valid <=> IF u = s /\ v = w THEN b.tag # NoTag
                                                 ELSE repl[u][v].valid
  BY <1>3, <1>6, <1>11
<1> QED
  BY <1>2, <1>7, <1>8, <1>11, <1>12

\* An allocation that gives up only ages the set.
LEMMA FailEffect ==
    ASSUME IInv, NEW s \in Sets, FailToAllocate(s)
    PROVE  /\ blk' = blk
           /\ psel' \in PSELs
           /\ repl' \in [Sets -> [Ways -> ReplData]]
           /\ \A u \in Sets, v \in Ways : repl'[u][v].valid <=> repl[u][v].valid
<1> DEFINE aged == AgedByGetVictim(repl[s])
<1>1. repl[s] \in [Ways -> ReplData] /\ repl \in [Sets -> [Ways -> ReplData]] /\ psel \in PSELs
  BY DEF IInv, TypeOK
<1>2. aged \in [Ways -> ReplData] /\ \A v \in Ways : aged[v].valid = repl[s][v].valid
  BY <1>1, AgedType
<1>3. repl' = [repl EXCEPT ![s] = aged] /\ psel' = psel /\ blk' = blk
  BY DEF FailToAllocate
<1> HIDE DEF aged
<1> QED
  BY <1>1, <1>2, <1>3

\* An allocation for an address that had no block.
LEMMA AllocatePreserves ==
    ASSUME IInv, NEW s \in Sets, NEW t \in Tags, NEW b \in Blocks, NEW m \in MSHRs,
           ~Cached(s, t), AllocateBlock(s, b), b.tag \in {t, NoTag},
           mshr' = [mshr EXCEPT ![<<s, t>>] = m],
           m.deferred = "none", b.tag = t => Fits(b, m)
    PROVE  IInv'
<1>1. \A v \in Ways : blk[s][v].tag # t
  BY DEF Cached, HitWays
<1>2. PICK w \in Ways :
           /\ blk' = [blk EXCEPT ![s][w] = b]
           /\ psel' \in PSELs
           /\ repl' \in [Sets -> [Ways -> ReplData]]
           /\ \A u \in Sets, v \in Ways :
                repl'[u][v].valid <=> IF u = s /\ v = w THEN b.tag # NoTag
                                                        ELSE repl[u][v].valid
  BY AllocateEffect
<1>3. \A v \in Ways : blk'[s][v] = IF v = w THEN b ELSE blk[s][v]
  BY <1>2 DEF IInv, TypeOK
<1>4. Handled(s, t, w, b, m)
  BY <1>1, <1>2, <1>3 DEF Handled
<1> QED
  BY <1>4, HandlerPreserves

\* An allocation that gives up, for an address that has no block.
LEMMA FailPreserves ==
    ASSUME IInv, NEW s \in Sets, NEW t \in Tags, NEW m \in MSHRs,
           ~Cached(s, t), FailToAllocate(s),
           mshr' = [mshr EXCEPT ![<<s, t>>] = m], m.deferred = "none"
    PROVE  IInv'
<1> DEFINE w == 0
           b == blk[s][w]
<1>1. w \in Ways
  BY RRIPAssumption DEF Ways
<1>2. /\ blk' = blk
      /\ psel' \in PSELs
      /\ repl' \in [Sets -> [Ways -> ReplData]]
      /\ \A u \in Sets, v \in Ways : repl'[u][v].valid <=> repl[u][v].valid
  BY FailEffect
<1>3. b \in Blocks /\ blk' = [blk EXCEPT ![s][w] = b]
      /\ (repl[s][w].valid <=> b.tag # NoTag)
  BY <1>1, <1>2 DEF IInv, TypeOK, ReplTracksBlk
<1>4. \A v \in Ways : blk[s][v].tag # t
  BY DEF Cached, HitWays
<1>5. b = blk[s][w]
  OBVIOUS
<1> HIDE DEF w, b
<1>6. Handled(s, t, w, b, m)
  BY <1>1, <1>2, <1>3, <1>4, <1>5 DEF Handled
<1> QED
  BY <1>1, <1>3, <1>6, HandlerPreserves

\* Removing the block of an address, with or without a change of its MSHR.
LEMMA RemovePreserves ==
    ASSUME IInv, NEW s \in Sets, NEW t \in Tags, NEW m \in MSHRs,
           Cached(s, t), InvalidateBlock(s, WayOf(s, t)), psel' = psel,
           mshr' = [mshr EXCEPT ![<<s, t>>] = m],
           m.deferred # "none" => m.state = "inService",
           m.deferred = "readable" => m.postInvalidate
    PROVE  IInv'
<1> DEFINE w == WayOf(s, t)
           d == Invalidate(repl[s][w])
<1>1. w \in Ways /\ \A v \in Ways : blk[s][v].tag = t => v = w
  BY WayOfIn
<1>2. d \in ReplData /\ ~d.valid
  BY <1>1, Typing, PolicyTypes
<1>3. blk' = [blk EXCEPT ![s][w] = InvalidBlk] /\ repl' = [repl EXCEPT ![s][w] = d]
  BY DEF InvalidateBlock
<1>4. InvalidBlk \in Blocks /\ InvalidBlk.tag = NoTag /\ NoTag # t
  BY L3Assumption DEF InvalidBlk, Blocks
<1> HIDE DEF w, d
<1>5. \A v \in Ways : blk'[s][v] = IF v = w THEN InvalidBlk ELSE blk[s][v]
  BY <1>1, <1>3, <1>4 DEF IInv, TypeOK
<1>6. /\ repl' \in [Sets -> [Ways -> ReplData]]
      /\ \A u \in Sets, v \in Ways :
           repl'[u][v].valid <=> IF u = s /\ v = w THEN InvalidBlk.tag # NoTag
                                                   ELSE repl[u][v].valid
  BY <1>1, <1>2, <1>3, <1>4, ReplEntry
<1>7. psel' \in PSELs
  BY DEF IInv, TypeOK
<1>8. \A v \in Ways : blk'[s][v].tag = t => Fits(blk'[s][v], m)
  BY <1>1, <1>4, <1>5
<1>9. Handled(s, t, w, InvalidBlk, m)
  BY <1>3, <1>4, <1>6, <1>7, <1>8 DEF Handled
<1> QED
  BY <1>1, <1>4, <1>9, HandlerPreserves

\* Changing the status of the block of an address but not its replacement data.
LEMMA StatusPreserves ==
    ASSUME IInv, NEW s \in Sets, NEW t \in Tags, NEW b \in Blocks, NEW m \in MSHRs,
           Cached(s, t), blk' = [blk EXCEPT ![s][WayOf(s, t)] = b],
           b.tag = t, repl' = repl, psel' = psel,
           mshr' = [mshr EXCEPT ![<<s, t>>] = m],
           m.deferred # "none" => m.state = "inService",
           m.deferred = "readable" => m.postInvalidate,
           Fits(b, m)
    PROVE  IInv'
<1> DEFINE w == WayOf(s, t)
<1>1. w \in Ways /\ blk[s][w].tag = t /\ \A v \in Ways : blk[s][v].tag = t => v = w
  BY WayOfIn
<1>2. blk' = [blk EXCEPT ![s][w] = b] /\ t # NoTag
  BY Typing
<1> HIDE DEF w
<1>3. \A v \in Ways : blk'[s][v] = IF v = w THEN b ELSE blk[s][v]
  BY <1>1, <1>2 DEF IInv, TypeOK
<1>4. psel' \in PSELs /\ repl' \in [Sets -> [Ways -> ReplData]]
      /\ (repl[s][w].valid <=> b.tag # NoTag)
  BY <1>1, <1>2 DEF IInv, TypeOK, ReplTracksBlk
<1>5. \A v \in Ways : blk'[s][v].tag = t => Fits(blk'[s][v], m)
  BY <1>1, <1>3
<1>6. Handled(s, t, w, b, m)
  BY <1>1, <1>2, <1>4, <1>5 DEF Handled
<1> QED
  BY <1>1, <1>6, HandlerPreserves

LEMMA WritebackPreserves ==
    ASSUME IInv, NEW s \in Sets, NEW t \in Tags, NEW shared \in BOOLEAN,
           RecvWriteback(s, t, shared)
    PROVE  IInv'
<1> DEFINE m == mshr[<<s, t>>]
<1>1. /\ m \in MSHRs /\ m.state = "free" /\ m.deferred = "none"
      /\ mshr' = [mshr EXCEPT ![<<s, t>>] = m] /\ t # NoTag
      /\ blk \in [Sets -> [Ways -> Blocks]]
  BY Typing DEF RecvWriteback, Outstanding, IInv, TypeOK, DeferredTargets, MSHRs
<1>2. CASE Cached(s, t)
  <2> DEFINE w == WayOf(s, t)
             b == [blk[s][w] EXCEPT !.writable = @ \/ ~shared]
  <2>1. w \in Ways /\ blk[s][w] \in Blocks /\ blk[s][w].tag = t /\ Fits(blk[s][w], m)
        /\ \A v \in Ways : blk[s][v].tag = t => v = w
    BY <1>2, WayOfIn
  <2>2. b \in Blocks /\ b.tag = t /\ b.readable = blk[s][w].readable
    BY <2>1 DEF Blocks
  <2>3. TouchBlock(s, w) /\ psel' = psel
        /\ blk' = [blk EXCEPT ![s][w].writable = @ \/ ~shared]
    BY <1>2 DEF RecvWriteback
  <2>4. blk' = [blk EXCEPT ![s][w] = b]
    BY <1>1, <2>1, <2>3
  <2> HIDE DEF b, w, m
  <2>5. \A v \in Ways : blk'[s][v] = IF v = w THEN b ELSE blk[s][v]
    BY <1>1, <2>1, <2>2, <2>4
  <2>6. /\ repl' \in [Sets -> [Ways -> ReplData]]
        /\ \A u \in Sets, v \in Ways :
             repl'[u][v].valid <=> IF u = s /\ v = w THEN b.tag # NoTag
                                                     ELSE repl[u][v].valid
    BY <2>1, <2>2, <2>3, TouchKeeps
  <2>7. Fits(b, m)
    BY <1>1, <2>1, <2>2 DEF Fits
  <2>8. \A v \in Ways : blk'[s][v].tag = t => Fits(blk'[s][v], m)
    BY <2>1, <2>5, <2>7
  <2>9. psel' \in PSELs
    BY <2>3 DEF IInv, TypeOK
  <2>10. Handled(s, t, w, b, m)
    BY <1>1, <2>1, <2>2, <2>4, <2>6, <2>8, <2>9 DEF Handled
  <2> QED
    BY <1>1, <2>1, <2>2, <2>10, HandlerPreserves
<1>3. ASSUME ~Cached(s, t),
             AllocateBlock(s, [tag |-> t, readable |-> TRUE, writable |-> ~shared])
      PROVE  IInv'
  <2> DEFINE b == [tag |-> t, readable |-> TRUE, writable |-> ~shared]
  <2>1. b \in Blocks /\ b.tag \in {t, NoTag} /\ Fits(b, m)
    BY <1>1 DEF Blocks, Fits
  <2>2. AllocateBlock(s, b)
    BY <1>3
  <2> HIDE DEF b, m
  <2> QED
    BY <1>1, <1>3, <2>1, <2>2, AllocatePreserves
<1>4. ASSUME ~Cached(s, t), FailToAllocate(s)
      PROVE  IInv'
  <2> HIDE DEF m
  <2> QED
    BY <1>1, <1>4, FailPreserves
<1> QED
  BY <1>2, <1>3, <1>4 DEF RecvWriteback

\* Changing nothing but the MSHR of an address.
LEMMA MSHRPreserves ==
    ASSUME IInv, NEW s \in Sets, NEW t \in Tags, NEW m \in MSHRs,
           UNCHANGED <<psel, blk, repl>>,
           mshr' = [mshr EXCEPT ![<<s, t>>] = m],
           m.deferred # "none" => m.state = "inService",
           m.deferred = "readable" => m.postInvalidate,
           m.state = "free" <=> mshr[<<s, t>>].state = "free",
           mshr[<<s, t>>].needsWritable => m.needsWritable
    PROVE  IInv'
<1> DEFINE w == 0
           b == blk[s][w]
<1>1. w \in Ways
  BY RRIPAssumption DEF Ways
<1>2. b \in Blocks /\ blk' = [blk EXCEPT ![s][w] = b]
      /\ (repl[s][w].valid <=> b.tag # NoTag)
  BY <1>1 DEF IInv, TypeOK, ReplTracksBlk
<1>3. \A v \in Ways : blk[s][v].tag = t => Fits(blk[s][v], m)
  BY Typing DEF IInv, UnreadableIsOutstanding, OutstandingIsUpgrade, Outstanding, Fits
<1>4. psel' \in PSELs /\ repl' \in [Sets -> [Ways -> ReplData]]
  BY DEF IInv, TypeOK
<1>5. b = blk[s][w]
  OBVIOUS
<1> HIDE DEF w, b
<1>6. Handled(s, t, w, b, m)
  BY <1>1, <1>2, <1>3, <1>4, <1>5 DEF Handled
<1> QED
  BY <1>1, <1>2, <1>6, HandlerPreserves

LEMMA SendPreserves ==
    ASSUME IInv, NEW s \in Sets, NEW t \in Tags, SendMSHRQueuePacket(s, t)
    PROVE  IInv'
<1> DEFINE old == mshr[<<s, t>>]
<1>1. old \in MSHRs /\ old.state = "pending" /\ <<s, t>> \in Addrs
      /\ old.deferred = "none" /\ mshr \in [Addrs -> MSHRs]
  BY Typing DEF SendMSHRQueuePacket, IInv, TypeOK, DeferredTargets, MSHRs
<1>2. PICK modifiedResp \in BOOLEAN :
        mshr' = [mshr EXCEPT ![<<s, t>>].state = "inService",
                    ![<<s, t>>].pendingModified = modifiedResp
                                          \/ mshr[<<s, t>>].needsWritable,
                    ![<<s, t>>].postInvalidate = FALSE,
                    ![<<s, t>>].postDowngrade = FALSE]
  BY DEF SendMSHRQueuePacket
<1> DEFINE m == [old EXCEPT !.state = "inService",
                            !.pendingModified = modifiedResp \/ old.needsWritable,
                            !.postInvalidate = FALSE, !.postDowngrade = FALSE]
<1>3. mshr' = [mshr EXCEPT ![<<s, t>>] = m]
  BY <1>1, <1>2
<1>4. m \in MSHRs /\ m.state = "inService" /\ m.deferred = "none"
      /\ m.needsWritable = old.needsWritable
  BY <1>1, <1>2 DEF MSHRs
<1>5. UNCHANGED <<psel, blk, repl>>
  BY DEF SendMSHRQueuePacket
<1> HIDE DEF m
<1> QED
  BY <1>1, <1>3, <1>4, <1>5, MSHRPreserves

LEMMA RespPreserves ==
    ASSUME IInv, NEW s \in Sets, NEW t \in Tags, NEW sharers \in BOOLEAN,
           RecvTimingResp(s, t, sharers)
    PROVE  IInv'
<1> DEFINE old == mshr[<<s, t>>]
           w == WayOf(s, t)
           oldWritable == Cached(s, t) /\ blk[s][w].writable
           m == MSHRAfterResp(old, oldWritable \/ ~sharers)
           filled == BlkAfterResp(old, t, oldWritable, sharers)
           new == IF old.postInvalidate THEN InvalidBlk ELSE filled
<1>1. old \in MSHRs /\ (old.deferred = "readable" => old.postInvalidate)
  BY Typing DEF IInv, DeferredTargets
<1>2. oldWritable \in BOOLEAN
  OBVIOUS
<1> HIDE DEF old, oldWritable
<1>3. m \in MSHRs /\ m.deferred = "none"
  BY <1>1, FreshMSHR DEF MSHRAfterResp
<1>4. filled \in Blocks /\ filled.tag = t
  BY <1>1, <1>2 DEF BlkAfterResp, HandleFill, ServiceMSHRTargets, Blocks, PromoteWritable
<1>5. ~old.postInvalidate => Fits(filled, m)
  <2> HAVE ~old.postInvalidate
  <2>1. old.deferred \in {"none", "writable"}
    BY <1>1 DEF MSHRs
  <2>2. CASE old.deferred = "none" \/ PromoteWritable(old, oldWritable \/ ~sharers)
    <3>1. m.state = "free" /\ filled.readable
      BY <2>2, FreshMSHR DEF MSHRAfterResp, BlkAfterResp, HandleFill, ServiceMSHRTargets
    <3> QED
      BY <3>1 DEF Fits
  <2>3. CASE ~(old.deferred = "none" \/ PromoteWritable(old, oldWritable \/ ~sharers))
    <3>1. m = PendingMSHR(TRUE)
      BY <2>1, <2>3 DEF MSHRAfterResp
    <3>2. ~filled.writable
      BY <2>1, <2>3 DEF BlkAfterResp, HandleFill, ServiceMSHRTargets, PromoteWritable
    <3>3. m.state = "pending" /\ m.needsWritable
      BY <3>1, FreshMSHR
    <3> QED
      BY <3>2, <3>3 DEF Fits
  <2> QED
    BY <2>2, <2>3
<1>6. new \in Blocks /\ new.tag \in {t, NoTag} /\ (new.tag = t => Fits(new, m))
  BY <1>4, <1>5, L3Assumption DEF InvalidBlk, Blocks
<1>7. mshr' = [mshr EXCEPT ![<<s, t>>] = m]
  BY DEF RecvTimingResp, old, oldWritable
<1>8. ASSUME Cached(s, t), blk' = [blk EXCEPT ![s][w] = new],
             repl' = [repl EXCEPT ![s][w] = IF old.postInvalidate
                                            THEN Invalidate(@) ELSE @],
             psel' = psel
      PROVE  IInv'
  <2>1. CASE old.postInvalidate
    <3>1. InvalidateBlock(s, w)
      BY <1>8, <2>1 DEF InvalidateBlock
    <3> HIDE DEF m
    <3> QED
      BY <1>3, <1>7, <1>8, <3>1, RemovePreserves
  <2>2. CASE ~old.postInvalidate
    <3>1. w \in Ways
      BY <1>8, WayOfIn
    <3>2. blk' = [blk EXCEPT ![s][w] = filled] /\ repl' = repl
      BY <1>8, <2>2, <3>1 DEF IInv, TypeOK
    <3>3. Fits(filled, m)
      BY <1>5, <2>2
    <3> HIDE DEF m, filled
    <3> QED
      BY <1>3, <1>4, <1>7, <1>8, <3>2, <3>3, StatusPreserves
  <2> QED
    BY <2>1, <2>2
<1>9. ASSUME ~Cached(s, t), AllocateBlock(s, new)
      PROVE  IInv'
  <2> HIDE DEF m, new
  <2> QED
    BY <1>3, <1>6, <1>7, <1>9, AllocatePreserves
<1>10. ASSUME ~Cached(s, t), FailToAllocate(s)
       PROVE  IInv'
  <2> HIDE DEF m
  <2> QED
    BY <1>3, <1>7, <1>10, FailPreserves
<1> QED
  BY <1>8, <1>9, <1>10 DEF RecvTimingResp, old, oldWritable

LEMMA SnoopPreserves ==
    ASSUME IInv, NEW s \in Sets, NEW t \in Tags, NEW inval \in BOOLEAN,
           RecvTimingSnoopReq(s, t, inval)
    PROVE  IInv'
<1> DEFINE old == mshr[<<s, t>>]
           w == WayOf(s, t)
           hidden == HidesBlk(old)
           m == SnoopedMSHR(old, inval)
<1>1. old \in MSHRs /\ <<s, t>> \in Addrs /\ mshr \in [Addrs -> MSHRs]
      /\ (old.deferred # "none" => old.state = "inService")
      /\ (old.deferred = "readable" => old.postInvalidate)
  BY Typing DEF IInv, TypeOK, DeferredTargets
<1>2. /\ m \in MSHRs
      /\ m.deferred # "none" => m.state = "inService"
      /\ m.deferred = "readable" => m.postInvalidate
      /\ m.state = old.state
      /\ m.needsWritable = old.needsWritable
  BY <1>1 DEF SnoopedMSHR, MSHRs
<1>3. mshr' = [mshr EXCEPT ![<<s, t>>] = m]
  BY <1>1 DEF RecvTimingSnoopReq
<1>4. psel' = psel
  BY DEF RecvTimingSnoopReq
<1>5. CASE ~Cached(s, t) \/ hidden
  <2>1. UNCHANGED <<psel, blk, repl>>
    BY <1>4, <1>5 DEF RecvTimingSnoopReq
  <2> HIDE DEF m
  <2> QED
    BY <1>2, <1>3, <2>1, MSHRPreserves
<1>6. CASE Cached(s, t) /\ ~hidden /\ inval
  <2>1. InvalidateBlock(s, w)
    BY <1>6 DEF RecvTimingSnoopReq, HandleSnoop
  <2> HIDE DEF m
  <2> QED
    BY <1>2, <1>3, <1>4, <1>6, <2>1, RemovePreserves
<1>7. CASE Cached(s, t) /\ ~hidden /\ ~inval
  <2> DEFINE b == [blk[s][w] EXCEPT !.writable = FALSE]
  <2>1. w \in Ways /\ blk[s][w] \in Blocks /\ blk[s][w].tag = t /\ Fits(blk[s][w], old)
    BY <1>7, WayOfIn
  <2>2. b \in Blocks /\ b.tag = t /\ b.readable = blk[s][w].readable /\ ~b.writable
    BY <2>1 DEF Blocks
  <2>3. blk' = [blk EXCEPT ![s][w].writable = FALSE] /\ repl' = repl
    BY <1>7 DEF RecvTimingSnoopReq, HandleSnoop
  <2>4. blk' = [blk EXCEPT ![s][w] = b]
    BY <2>1, <2>3 DEF IInv, TypeOK
  <2>5. Fits(b, m)
    BY <1>2, <2>1, <2>2 DEF Fits
  <2> HIDE DEF m, b
  <2> QED
    BY <1>2, <1>3, <1>4, <1>7, <2>2, <2>3, <2>4, <2>5, StatusPreserves
<1> QED
  BY <1>5, <1>6, <1>7

LEMMA UncacheablePreserves ==
    ASSUME IInv, NEW s \in Sets, NEW t \in Tags, RecvUncacheable(s, t)
    PROVE  IInv'
<1> DEFINE m == mshr[<<s, t>>]
<1>1. m \in MSHRs /\ mshr' = [mshr EXCEPT ![<<s, t>>] = m]
      /\ (m.deferred # "none" => m.state = "inService")
      /\ (m.deferred = "readable" => m.postInvalidate)
  BY Typing DEF RecvUncacheable, IInv, DeferredTargets
<1>2. Cached(s, t) /\ InvalidateBlock(s, WayOf(s, t)) /\ psel' = psel
  BY DEF RecvUncacheable
<1> HIDE DEF m
<1> QED
  BY <1>1, <1>2, RemovePreserves

----------------------------------------------------------------------------

LEMMA InitIInv == Init => IInv
<1> SUFFICES ASSUME Init PROVE IInv
  OBVIOUS
<1>1. InvalidBlk \in Blocks /\ InvalidBlk.tag = NoTag
  BY DEF InvalidBlk, Blocks
<1>2. \A s \in Sets : \A w \in Ways : blk[s][w] = InvalidBlk /\ repl[s][w] = InstantiateEntry
  BY DEF Init
<1>3. \A a \in Addrs : mshr[a] = FreeMSHR
  BY DEF Init
<1>4. TypeOK
  BY <1>1, PSELTypes, PolicyTypes, FreshMSHR DEF Init, TypeOK
<1>5. OneCopy /\ UnreadableIsOutstanding /\ OutstandingIsUpgrade
  BY <1>1, <1>2 DEF OneCopy, UnreadableIsOutstanding, OutstandingIsUpgrade
<1>6. ReplTracksBlk
  BY <1>1, <1>2, PolicyTypes DEF ReplTracksBlk
<1>7. DeferredTargets
  BY <1>3, FreshMSHR DEF DeferredTargets
<1> QED
  BY <1>4, <1>5, <1>6, <1>7 DEF IInv

LEMMA NextIInv == IInv /\ [Next]_vars => IInv'
<1> SUFFICES ASSUME IInv, [Next]_vars PROVE IInv'
  OBVIOUS
<1>1. CASE UNCHANGED vars
  BY <1>1 DEF vars, IInv, TypeOK, OneCopy, ReplTracksBlk, UnreadableIsOutstanding,
              OutstandingIsUpgrade, DeferredTargets, Outstanding
<1>2. ASSUME NEW s \in Sets, NEW t \in Tags,
             \/ \E nw \in BOOLEAN : \/ RecvTimingReqHit(s, t, nw)
                                    \/ RecvTimingReqUpgrade(s, t, nw)
                                    \/ RecvTimingReqMiss(s, t, nw)
             \/ \E shared \in BOOLEAN : RecvWriteback(s, t, shared)
             \/ RecvCleanEvict(s, t)
             \/ RecvUncacheable(s, t)
             \/ SendMSHRQueuePacket(s, t)
             \/ \E sharers \in BOOLEAN : RecvTimingResp(s, t, sharers)
             \/ \E inval \in BOOLEAN : RecvTimingSnoopReq(s, t, inval)
      PROVE  IInv'
  <2>1. ASSUME NEW nw \in BOOLEAN, RecvTimingReqHit(s, t, nw) PROVE IInv'
    BY <2>1, HitPreserves DEF RecvTimingReqHit
  <2>2. ASSUME NEW nw \in BOOLEAN, RecvTimingReqUpgrade(s, t, nw) PROVE IInv'
    BY <2>2, UpgradePreserves
  <2>3. ASSUME NEW nw \in BOOLEAN, RecvTimingReqMiss(s, t, nw) PROVE IInv'
    BY <2>3, MissPreserves
  <2>4. ASSUME NEW shared \in BOOLEAN, RecvWriteback(s, t, shared) PROVE IInv'
    BY <2>4, WritebackPreserves
  <2>5. CASE RecvCleanEvict(s, t)
    BY <2>5, HitPreserves DEF RecvCleanEvict
  <2>6. CASE RecvUncacheable(s, t)
    BY <2>6, UncacheablePreserves
  <2>7. CASE SendMSHRQueuePacket(s, t)
    BY <2>7, SendPreserves
  <2>8. ASSUME NEW sharers \in BOOLEAN, RecvTimingResp(s, t, sharers) PROVE IInv'
    BY <2>8, RespPreserves
  <2>9. ASSUME NEW inval \in BOOLEAN, RecvTimingSnoopReq(s, t, inval) PROVE IInv'
    BY <2>9, SnoopPreserves
  <2> QED
    BY <1>2, <2>1, <2>2, <2>3, <2>4, <2>5, <2>6, <2>7, <2>8, <2>9
<1> QED
  BY <1>1, <1>2 DEF Next

\* The inductive invariant holds throughout.
THEOREM Invariance == Spec => []IInv
  BY InitIInv, NextIInv, PTL DEF Spec

\* Type correctness of the tag store, the policy state and the MSHRs.
THEOREM TypeCorrect == Spec => []TypeOK
<1>1. IInv => TypeOK
  BY DEF IInv
<1> QED
  BY <1>1, Invariance, PTL

\* No address is ever cached twice, whatever order misses, responses, writebacks
\* and snoops come in (findBlock, base.cc:463).
THEOREM NeverTwoCopies == Spec => []OneCopy
<1>1. IInv => OneCopy
  BY DEF IInv
<1> QED
  BY <1>1, Invariance, PTL

\* The replacement policy and the tag store never disagree on which ways are
\* free (insertBlock's assertion, tags/base.cc:102).
THEOREM PolicyTracksTags == Spec => []ReplTracksBlk
<1>1. IInv => ReplTracksBlk
  BY DEF IInv
<1> QED
  BY <1>1, Invariance, PTL

\* A block that reads cannot use is always being fetched (base.cc:321).
THEOREM UnreadableIsFetched == Spec => []UnreadableIsOutstanding
<1>1. IInv => UnreadableIsOutstanding
  BY DEF IInv
<1> QED
  BY <1>1, Invariance, PTL

\* The assertion of handleEvictions (base.cc:808) never fails.
THEOREM PinnedBlocksAreUpgrades == Spec => []OutstandingIsUpgrade
<1>1. IInv => OutstandingIsUpgrade
  BY DEF IInv
<1> QED
  BY <1>1, Invariance, PTL

----------------------------------------------------------------------------
(* What a step may do to the order of eviction. *)

\* The bodies of VictimIsMostDistant and AgeingKeepsOrder.
VictimStep ==
    \A s \in Sets : \A w \in Ways :
      LET old == blk[s][w].tag
      IN  (old # NoTag /\ blk'[s][w].tag \notin {old, NoTag})
            => /\ ~Outstanding(s, old)
               /\ \A v \in Ways : /\ blk[s][v].tag # NoTag
                                  /\ repl[s][v].rrpv <= repl[s][w].rrpv

AgeingStep ==
    \A s \in Sets : \A v, w \in Ways :
      Stays(s, v) /\ Stays(s, w) =>
        repl'[s][v].rrpv - repl[s][v].rrpv = repl'[s][w].rrpv - repl[s][w].rrpv

\* The counters of a set are natural numbers.
LEMMA RRPVTypes ==
    ASSUME IInv
    PROVE  \A s \in Sets, w \in Ways : repl[s][w].rrpv \in Nat /\ repl[s][w].rrpv <= MaxRRPV
<1>1. MaxRRPV \in Nat
  BY RRIPAssumption DEF MaxRRPV
<1>2. \A s \in Sets, w \in Ways : repl[s][w] \in ReplData
  BY DEF IInv, TypeOK
<1> QED
  BY <1>1, <1>2 DEF ReplData, RRPVs

\* A handler that looks a block up, changes its status or removes it neither takes
\* the place of a block nor ages one.
LEMMA LookupSteps ==
    ASSUME IInv, IInv', NEW s \in Sets, NEW w \in Ways, NEW b, NEW d \in ReplData,
           blk' = [blk EXCEPT ![s][w] = b], b.tag = blk[s][w].tag \/ b.tag = NoTag,
           repl' = [repl EXCEPT ![s][w] = d], d.rrpv <= repl[s][w].rrpv
    PROVE  VictimStep /\ AgeingStep
<1>1. blk \in [Sets -> [Ways -> Blocks]] /\ repl \in [Sets -> [Ways -> ReplData]]
  BY DEF IInv, TypeOK
<1>2. \A u \in Sets, v \in Ways : blk'[u][v].tag \in {blk[u][v].tag, NoTag}
  BY <1>1
<1>3. \A u \in Sets, v \in Ways : repl'[u][v].rrpv = repl[u][v].rrpv \/ (u = s /\ v = w)
  BY <1>1
<1>4. repl'[s][w].rrpv <= repl[s][w].rrpv
  <2>1. repl'[s][w] = d
    BY <1>1
  <2> QED
    BY <2>1
<1>5. \A u \in Sets, v \in Ways : repl[u][v].rrpv \in Nat /\ repl'[u][v].rrpv \in Nat
  <2>1. \A u \in Sets, v \in Ways : repl'[u][v] \in ReplData
    BY DEF IInv, TypeOK
  <2>2. \A e \in ReplData : e.rrpv \in Nat
    BY RRIPAssumption DEF ReplData, RRPVs, MaxRRPV
  <2> QED
    BY <1>1, <2>1, <2>2
<1>6. \A u \in Sets, v \in Ways : Stays(u, v) => repl'[u][v].rrpv = repl[u][v].rrpv
  BY <1>3, <1>4, <1>5 DEF Stays
<1>7. VictimStep
  BY <1>2 DEF VictimStep
<1>8. AgeingStep
  BY <1>5, <1>6 DEF AgeingStep
<1> QED
  BY <1>7, <1>8

\* getVictim ages every way of a full set by the same amount: none saturates before
\* the victim does.
LEMMA AgedUniformly ==
    ASSUME NEW ds \in [Ways -> ReplData]
    PROVE  \E n \in Nat : \A w \in Ways : AgedByGetVictim(ds)[w].rrpv = ds[w].rrpv + n
<1> DEFINE v == Victim(ds)
           n == MaxRRPV - ds[v].rrpv
<1>1. MaxRRPV \in Nat
  BY RRIPAssumption DEF MaxRRPV
<1>2. \A w \in Ways : ds[w].rrpv \in Nat /\ ds[w].rrpv <= MaxRRPV
  BY <1>1 DEF ReplData, RRPVs
<1>3. CASE InvalidWays(ds) # {}
  <2>1. \A w \in Ways : AgedByGetVictim(ds)[w].rrpv = ds[w].rrpv + 0
    BY <1>2, <1>3 DEF AgedByGetVictim
  <2> QED
    BY <2>1
<1>4. CASE InvalidWays(ds) = {}
  <2>1. v \in MostDistantWays(ds)
    <3>1. MostDistantWays(ds) \in SUBSET Ways
      BY DEF MostDistantWays
    <3> QED
      BY <1>4, <3>1, MostDistantExists, FirstWayIn DEF Victim
  <2>2. v \in Ways /\ \A w \in Ways : ds[w].rrpv <= ds[v].rrpv
    BY <2>1 DEF MostDistantWays
  <2>3. n \in Nat
    BY <1>1, <1>2, <2>2
  <2>4. \A w \in Ways : SatAdd(ds[w].rrpv, n) = ds[w].rrpv + n
    BY <1>1, <1>2, <2>2 DEF SatAdd
  <2>5. AgedByGetVictim(ds) = [w \in Ways |-> [ds[w] EXCEPT !.rrpv = SatAdd(@, n)]]
    BY <1>4 DEF AgedByGetVictim
  <2> HIDE DEF n
  <2>6. \A w \in Ways : AgedByGetVictim(ds)[w].rrpv = SatAdd(ds[w].rrpv, n)
    BY <2>5 DEF ReplData
  <2> QED
    BY <2>3, <2>4, <2>6
<1> QED
  BY <1>3, <1>4

\* Every way of a set moves by the same amount, but for one that leaves.
LEMMA UniformSteps ==
    ASSUME IInv, IInv', NEW s \in Sets, NEW x, NEW n \in Nat,
           \A w \in Ways : w # x => repl'[s][w].rrpv = repl[s][w].rrpv + n,
           x \in Ways => blk'[s][x].tag # blk[s][x].tag \/ blk[s][x].tag = NoTag,
           \A u \in Sets : u # s => repl'[u] = repl[u]
    PROVE  AgeingStep
<1>1. \A u \in Sets, w \in Ways : repl[u][w].rrpv \in Nat /\ repl'[u][w].rrpv \in Nat
  BY RRPVTypes DEF IInv, TypeOK, ReplData, RRPVs
<1>2. \A w \in Ways : Stays(s, w) => w # x
  BY DEF Stays
<1>3. SUFFICES ASSUME NEW u \in Sets, NEW v \in Ways, NEW w \in Ways, Stays(u, v), Stays(u, w)
               PROVE  repl'[u][v].rrpv - repl[u][v].rrpv = repl'[u][w].rrpv - repl[u][w].rrpv
  BY DEF AgeingStep
<1>4. CASE u = s
  <2>1. repl'[s][v].rrpv = repl[s][v].rrpv + n /\ repl'[s][w].rrpv = repl[s][w].rrpv + n
    BY <1>2, <1>3, <1>4
  <2> QED
    BY <1>1, <1>4, <2>1
<1>5. CASE u # s
  BY <1>1, <1>5
<1> QED
  BY <1>4, <1>5

LEMMA FailSteps ==
    ASSUME IInv, IInv', NEW s \in Sets, FailToAllocate(s)
    PROVE  VictimStep /\ AgeingStep
<1>1. repl \in [Sets -> [Ways -> ReplData]] /\ blk' = blk
  BY DEF IInv, TypeOK, FailToAllocate
<1>2. repl' = [repl EXCEPT ![s] = AgedByGetVictim(repl[s])]
  BY DEF FailToAllocate
<1>3. PICK n \in Nat : \A w \in Ways : AgedByGetVictim(repl[s])[w].rrpv = repl[s][w].rrpv + n
  BY <1>1, AgedUniformly
<1>4. /\ \A w \in Ways : repl'[s][w].rrpv = repl[s][w].rrpv + n
      /\ \A u \in Sets : u # s => repl'[u] = repl[u]
  BY <1>1, <1>2, <1>3
<1>5. -1 \notin Ways
  BY RRIPAssumption DEF Ways
<1>6. AgeingStep
  BY <1>4, <1>5, UniformSteps
<1>7. VictimStep
  BY <1>1 DEF VictimStep
<1> QED
  BY <1>6, <1>7

LEMMA AllocateSteps ==
    ASSUME IInv, IInv', NEW s \in Sets, NEW t \in Tags, NEW b \in Blocks, b.tag \in {t, NoTag},
           ~Cached(s, t), AllocateBlock(s, b)
    PROVE  VictimStep /\ AgeingStep
<1> DEFINE x == Victim(repl[s])
<1> DEFINE aged == AgedByGetVictim(repl[s])
<1>1. /\ repl \in [Sets -> [Ways -> ReplData]] /\ repl[s] \in [Ways -> ReplData]
      /\ blk \in [Sets -> [Ways -> Blocks]]
  BY DEF IInv, TypeOK
<1>2. x \in Ways /\ (repl[s][x].valid => \A w \in Ways : repl[s][w].valid)
  BY <1>1, VictimIn
<1>3. CanEvict(s) /\ blk' = [blk EXCEPT ![s][x] = b]
  BY DEF AllocateBlock
<1>4. PICK d : repl' = [repl EXCEPT ![s] = [aged EXCEPT ![x] = d]]
  BY DEF AllocateBlock
<1>5. aged \in [Ways -> ReplData]
  BY <1>1, AgedType
<1>6. PICK n \in Nat : \A w \in Ways : aged[w].rrpv = repl[s][w].rrpv + n
  BY <1>1, AgedUniformly
<1>7. \A w \in Ways : blk[s][w].tag # t
  BY DEF Cached, HitWays
<1> HIDE DEF aged
<1>8. /\ \A w \in Ways : w # x => repl'[s][w] = aged[w]
      /\ \A u \in Sets : u # s => repl'[u] = repl[u]
  <2>1. repl'[s] = [aged EXCEPT ![x] = d]
    BY <1>1, <1>4
  <2>2. \A w \in Ways : w # x => repl'[s][w] = aged[w]
    BY <1>5, <2>1
  <2>3. \A u \in Sets : u # s => repl'[u] = repl[u]
    BY <1>1, <1>4
  <2> QED
    BY <2>2, <2>3
<1>9. blk'[s][x] = b /\ \A u \in Sets, w \in Ways : u # s \/ w # x => blk'[u][w] = blk[u][w]
  BY <1>1, <1>2, <1>3
<1>10. blk'[s][x].tag # blk[s][x].tag \/ blk[s][x].tag = NoTag
  BY <1>2, <1>7, <1>9
<1> HIDE DEF x
<1>11. AgeingStep
  BY <1>6, <1>8, <1>10, UniformSteps
<1>12. ASSUME blk[s][x].tag # NoTag
       PROVE  /\ ~Outstanding(s, blk[s][x].tag)
              /\ \A v \in Ways : blk[s][v].tag # NoTag /\ repl[s][v].rrpv <= repl[s][x].rrpv
  <2>1. ~Outstanding(s, blk[s][x].tag)
    BY <1>3, <1>12 DEF CanEvict, x
  <2>2. \A w \in Ways : repl[s][w].valid /\ blk[s][w].tag # NoTag
    BY <1>2, <1>12 DEF IInv, ReplTracksBlk
  <2>3. InvalidWays(repl[s]) = {}
    BY <2>2 DEF InvalidWays
  <2>4. x \in MostDistantWays(repl[s])
    <3>1. MostDistantWays(repl[s]) \in SUBSET Ways
      BY DEF MostDistantWays
    <3> QED
      BY <1>1, <2>3, <3>1, MostDistantExists, FirstWayIn DEF Victim, x
  <2> QED
    BY <2>1, <2>2, <2>4 DEF MostDistantWays
<1>13. VictimStep
  BY <1>2, <1>9, <1>12 DEF VictimStep
<1> QED
  BY <1>11, <1>13

\* Looking a block up never makes its re-reference more distant, and forgetting it
\* leaves the counter alone.
LEMMA TouchNearer ==
    ASSUME NEW d \in ReplData
    PROVE  /\ Touch(d) \in ReplData /\ Touch(d).rrpv <= d.rrpv
           /\ Invalidate(d) \in ReplData /\ Invalidate(d).rrpv <= d.rrpv
<1>1. MaxRRPV \in Nat
  BY RRIPAssumption DEF MaxRRPV
<1>2. d.rrpv \in 0..MaxRRPV
  BY DEF ReplData, RRPVs
<1>3. SatDec(d.rrpv) <= d.rrpv /\ 0 <= d.rrpv
  BY <1>1, <1>2 DEF SatDec
<1>4. Touch(d).rrpv = IF HitPriority THEN 0 ELSE SatDec(d.rrpv)
  BY DEF Touch, ReplData
<1>5. Invalidate(d).rrpv = d.rrpv
  BY DEF Invalidate, ReplData
<1>6. Touch(d) \in ReplData /\ Invalidate(d) \in ReplData
  BY PolicyTypes
<1> QED
  BY <1>1, <1>2, <1>3, <1>4, <1>5, <1>6

\* A handler that changes neither blocks nor replacement data.
LEMMA QuietSteps ==
    ASSUME IInv, blk' = blk, repl' = repl
    PROVE  VictimStep /\ AgeingStep
<1>1. \A u \in Sets, v \in Ways : repl[u][v].rrpv \in Nat
  BY RRPVTypes
<1> QED
  BY <1>1 DEF VictimStep, AgeingStep

\* The lookup of a read, a clean evict or a writeback that finds the block.
LEMMA TouchSteps ==
    ASSUME IInv, IInv', NEW s \in Sets, NEW t \in Tags, NEW b, Cached(s, t),
           TouchBlock(s, WayOf(s, t)),
           blk' = [blk EXCEPT ![s][WayOf(s, t)] = b], b.tag = t \/ b.tag = NoTag
    PROVE  VictimStep /\ AgeingStep
<1> DEFINE w == WayOf(s, t)
<1>1. w \in Ways /\ blk[s][w].tag = t
  BY WayOfIn
<1>2. repl[s][w] \in ReplData
  BY <1>1, Typing
<1>3. Touch(repl[s][w]) \in ReplData /\ Touch(repl[s][w]).rrpv <= repl[s][w].rrpv
  BY <1>2, TouchNearer
<1> DEFINE d == Touch(repl[s][w])
<1>4. repl' = [repl EXCEPT ![s][w] = d]
  BY DEF TouchBlock
<1>5. blk' = [blk EXCEPT ![s][w] = b] /\ (b.tag = blk[s][w].tag \/ b.tag = NoTag)
  BY <1>1
<1>6. d \in ReplData /\ d.rrpv <= repl[s][w].rrpv
  BY <1>3
<1>7. w \in Ways
  BY <1>1
<1> HIDE DEF d, w
<1> QED
  BY <1>4, <1>5, <1>6, <1>7, LookupSteps

\* A block that is removed: by an uncacheable access, a snoop or a response that an
\* invalidation overtook.
LEMMA RemoveSteps ==
    ASSUME IInv, IInv', NEW s \in Sets, NEW w \in Ways, InvalidateBlock(s, w)
    PROVE  VictimStep /\ AgeingStep
<1>1. repl[s][w] \in ReplData
  BY DEF IInv, TypeOK
<1>2. Invalidate(repl[s][w]) \in ReplData /\ Invalidate(repl[s][w]).rrpv <= repl[s][w].rrpv
  BY <1>1, TouchNearer
<1>3. /\ blk' = [blk EXCEPT ![s][w] = InvalidBlk]
      /\ repl' = [repl EXCEPT ![s][w] = Invalidate(repl[s][w])]
  BY DEF InvalidateBlock
<1>4. InvalidBlk.tag = NoTag
  BY DEF InvalidBlk
<1> QED
  BY <1>2, <1>3, <1>4, LookupSteps

\* A handler that changes the status of a block and nothing else of the set.
LEMMA StatusSteps ==
    ASSUME IInv, IInv', NEW s \in Sets, NEW w \in Ways, NEW b,
           blk' = [blk EXCEPT ![s][w] = b], b.tag = blk[s][w].tag, repl' = repl
    PROVE  VictimStep /\ AgeingStep
<1>1. repl[s][w] \in ReplData /\ repl \in [Sets -> [Ways -> ReplData]]
  BY DEF IInv, TypeOK
<1>2. repl' = [repl EXCEPT ![s][w] = repl[s][w]]
  BY <1>1
<1>3. repl[s][w].rrpv <= repl[s][w].rrpv
  BY RRPVTypes
<1> QED
  BY <1>1, <1>2, <1>3, LookupSteps

LEMMA UpgradeSteps ==
    ASSUME IInv, IInv', NEW s \in Sets, NEW t \in Tags, NEW nw \in BOOLEAN,
           RecvTimingReqUpgrade(s, t, nw)
    PROVE  VictimStep /\ AgeingStep
<1> DEFINE w == WayOf(s, t)
<1>1. Cached(s, t) /\ TouchBlock(s, w)
  BY DEF RecvTimingReqUpgrade
<1>2. w \in Ways /\ blk[s][w] \in Blocks /\ blk[s][w].tag = t
  BY <1>1, WayOfIn
<1>3. blk = [blk EXCEPT ![s][w] = blk[s][w]]
  BY <1>2, Typing
<1>4. CASE blk' = blk
  BY <1>1, <1>2, <1>3, <1>4, TouchSteps
<1>5. CASE blk' = [blk EXCEPT ![s][w].readable = FALSE]
  <2> DEFINE b == [blk[s][w] EXCEPT !.readable = FALSE]
  <2>1. blk' = [blk EXCEPT ![s][w] = b] /\ b.tag = t
    BY <1>2, <1>5 DEF Blocks
  <2> HIDE DEF b, w
  <2> QED
    BY <1>1, <2>1, TouchSteps DEF w
<1> QED
  BY <1>4, <1>5 DEF RecvTimingReqUpgrade

LEMMA WritebackSteps ==
    ASSUME IInv, IInv', NEW s \in Sets, NEW t \in Tags, NEW shared \in BOOLEAN,
           RecvWriteback(s, t, shared)
    PROVE  VictimStep /\ AgeingStep
<1> DEFINE w == WayOf(s, t)
           n == [tag |-> t, readable |-> TRUE, writable |-> ~shared]
<1>1. CASE Cached(s, t)
  <2> DEFINE b == [blk[s][w] EXCEPT !.writable = @ \/ ~shared]
  <2>1. TouchBlock(s, w) /\ blk' = [blk EXCEPT ![s][w].writable = @ \/ ~shared]
    BY <1>1 DEF RecvWriteback
  <2>2. blk[s][w] \in Blocks /\ blk[s][w].tag = t
    BY <1>1, WayOfIn
  <2>3. blk' = [blk EXCEPT ![s][w] = b]
    BY <2>1
  <2>4. b.tag = t
    BY <2>2 DEF Blocks
  <2> HIDE DEF b, w
  <2> QED
    BY <1>1, <2>1, <2>3, <2>4, TouchSteps DEF w
<1>2. CASE ~Cached(s, t) /\ AllocateBlock(s, n)
  <2>1. n \in Blocks /\ n.tag = t
    BY DEF Blocks
  <2> HIDE DEF n
  <2> QED
    BY <1>2, <2>1, AllocateSteps
<1>3. CASE ~Cached(s, t) /\ FailToAllocate(s)
  BY <1>3, FailSteps
<1> QED
  BY <1>1, <1>2, <1>3 DEF RecvWriteback

LEMMA SnoopSteps ==
    ASSUME IInv, IInv', NEW s \in Sets, NEW t \in Tags, NEW inval \in BOOLEAN,
           RecvTimingSnoopReq(s, t, inval)
    PROVE  VictimStep /\ AgeingStep
<1> DEFINE w == WayOf(s, t)
<1>1. CASE UNCHANGED <<blk, repl>>
  BY <1>1, QuietSteps
<1>2. CASE Cached(s, t) /\ HandleSnoop(s, w, inval)
  <2>1. w \in Ways /\ blk[s][w] \in Blocks /\ blk[s][w].tag = t
    BY <1>2, WayOfIn
  <2> HIDE DEF w
  <2>2. CASE InvalidateBlock(s, w)
    BY <2>1, <2>2, RemoveSteps
  <2>3. CASE blk' = [blk EXCEPT ![s][w].writable = FALSE] /\ repl' = repl
    <3> DEFINE b == [blk[s][w] EXCEPT !.writable = FALSE]
    <3>1. blk' = [blk EXCEPT ![s][w] = b] /\ b.tag = blk[s][w].tag
      BY <2>1, <2>3 DEF Blocks
    <3>2. w \in Ways /\ repl' = repl
      BY <2>1, <2>3
    <3> HIDE DEF b
    <3> QED
      BY <3>1, <3>2, StatusSteps
  <2> QED
    BY <1>2, <2>2, <2>3 DEF HandleSnoop
<1> QED
  BY <1>1, <1>2 DEF RecvTimingSnoopReq

LEMMA RespSteps ==
    ASSUME IInv, IInv', NEW s \in Sets, NEW t \in Tags, NEW sharers \in BOOLEAN,
           RecvTimingResp(s, t, sharers)
    PROVE  VictimStep /\ AgeingStep
<1> DEFINE old == mshr[<<s, t>>]
           w == WayOf(s, t)
           oldWritable == Cached(s, t) /\ blk[s][w].writable
           filled == BlkAfterResp(old, t, oldWritable, sharers)
           new == IF old.postInvalidate THEN InvalidBlk ELSE filled
<1>1. old \in MSHRs /\ oldWritable \in BOOLEAN
  BY Typing
<1> HIDE DEF old, oldWritable
<1>2. filled \in Blocks /\ filled.tag = t
  BY <1>1 DEF BlkAfterResp, HandleFill, ServiceMSHRTargets, Blocks, PromoteWritable
<1>3. new \in Blocks /\ new.tag \in {t, NoTag}
  BY <1>2 DEF InvalidBlk, Blocks
<1>4. ASSUME Cached(s, t), blk' = [blk EXCEPT ![s][w] = new],
             repl' = [repl EXCEPT ![s][w] = IF old.postInvalidate
                                            THEN Invalidate(@) ELSE @]
      PROVE  VictimStep /\ AgeingStep
  <2>1. w \in Ways /\ blk[s][w].tag = t
    BY <1>4, WayOfIn
  <2>2. CASE old.postInvalidate
    <3>1. InvalidateBlock(s, w)
      BY <1>4, <2>2 DEF InvalidateBlock
    <3> HIDE DEF w
    <3> QED
      BY <2>1, <3>1, RemoveSteps
  <2>3. CASE ~old.postInvalidate
    <3>1. blk' = [blk EXCEPT ![s][w] = filled] /\ repl' = repl
      BY <1>4, <2>1, <2>3 DEF IInv, TypeOK
    <3> HIDE DEF filled, w
    <3> QED
      BY <1>2, <2>1, <3>1, StatusSteps
  <2> QED
    BY <2>2, <2>3
<1>5. ASSUME ~Cached(s, t), AllocateBlock(s, new)
      PROVE  VictimStep /\ AgeingStep
  <2> HIDE DEF new
  <2> QED
    BY <1>3, <1>5, AllocateSteps
<1>6. ASSUME ~Cached(s, t), FailToAllocate(s)
      PROVE  VictimStep /\ AgeingStep
  BY <1>6, FailSteps
<1> QED
  BY <1>4, <1>5, <1>6 DEF RecvTimingResp, old, oldWritable

LEMMA NextSteps ==
    ASSUME IInv, IInv', [Next]_vars
    PROVE  VictimStep /\ AgeingStep
<1>1. CASE UNCHANGED vars
  BY <1>1, QuietSteps DEF vars
<1>2. ASSUME NEW s \in Sets, NEW t \in Tags,
             \/ \E nw \in BOOLEAN : \/ RecvTimingReqHit(s, t, nw)
                                    \/ RecvTimingReqUpgrade(s, t, nw)
                                    \/ RecvTimingReqMiss(s, t, nw)
             \/ \E shared \in BOOLEAN : RecvWriteback(s, t, shared)
             \/ RecvCleanEvict(s, t)
             \/ RecvUncacheable(s, t)
             \/ SendMSHRQueuePacket(s, t)
             \/ \E sharers \in BOOLEAN : RecvTimingResp(s, t, sharers)
             \/ \E inval \in BOOLEAN : RecvTimingSnoopReq(s, t, inval)
      PROVE  VictimStep /\ AgeingStep
  <2>1. ASSUME Cached(s, t), TouchBlock(s, WayOf(s, t)), blk' = blk
        PROVE  VictimStep /\ AgeingStep
    <3>1. WayOf(s, t) \in Ways /\ blk[s][WayOf(s, t)].tag = t
      BY <2>1, WayOfIn
    <3>2. blk' = [blk EXCEPT ![s][WayOf(s, t)] = blk[s][WayOf(s, t)]]
      BY <2>1, <3>1, Typing
    <3> QED
      BY <2>1, <3>1, <3>2, TouchSteps
  <2>2. ASSUME NEW nw \in BOOLEAN, RecvTimingReqHit(s, t, nw) PROVE VictimStep /\ AgeingStep
    BY <2>1, <2>2 DEF RecvTimingReqHit
  <2>3. ASSUME NEW nw \in BOOLEAN, RecvTimingReqUpgrade(s, t, nw) PROVE VictimStep /\ AgeingStep
    BY <2>3, UpgradeSteps
  <2>4. ASSUME NEW nw \in BOOLEAN, RecvTimingReqMiss(s, t, nw) PROVE VictimStep /\ AgeingStep
    BY <2>4, QuietSteps DEF RecvTimingReqMiss
  <2>5. ASSUME NEW shared \in BOOLEAN, RecvWriteback(s, t, shared) PROVE VictimStep /\ AgeingStep
    BY <2>5, WritebackSteps
  <2>6. CASE RecvCleanEvict(s, t)
    BY <2>1, <2>6 DEF RecvCleanEvict
  <2>7. CASE RecvUncacheable(s, t)
    <3>1. Cached(s, t) /\ InvalidateBlock(s, WayOf(s, t))
      BY <2>7 DEF RecvUncacheable
    <3>2. WayOf(s, t) \in Ways
      BY <3>1, WayOfIn
    <3> QED
      BY <3>1, <3>2, RemoveSteps
  <2>8. CASE SendMSHRQueuePacket(s, t)
    BY <2>8, QuietSteps DEF SendMSHRQueuePacket
  <2>9. ASSUME NEW sharers \in BOOLEAN, RecvTimingResp(s, t, sharers) PROVE VictimStep /\ AgeingStep
    BY <2>9, RespSteps
  <2>10. ASSUME NEW inval \in BOOLEAN, RecvTimingSnoopReq(s, t, inval) PROVE VictimStep /\ AgeingStep
    BY <2>10, SnoopSteps
  <2> QED
    BY <1>2, <2>2, <2>3, <2>4, <2>5, <2>6, <2>7, <2>8, <2>9, <2>10
<1> QED
  BY <1>1, <1>2 DEF Next

\* No insertion removes a block with a request outstanding, none takes a place while
\* another way is free, and none removes a block while another is predicted to be
\* needed later (getVictim, drrip_rp.cc; handleEvictions, base.cc:808).
THEOREM VictimsAreMostDistant == Spec => VictimIsMostDistant
<1>1. IInv /\ IInv' /\ [Next]_vars => [VictimStep]_vars
  BY NextSteps
<1> QED
  BY <1>1, Invariance, PTL DEF Spec, VictimIsMostDistant, VictimStep

\* Ageing keeps the order in which blocks will be evicted: no counter saturates
\* before the victim's does.
THEOREM AgeingIsUniform == Spec => AgeingKeepsOrder
<1>1. IInv /\ IInv' /\ [Next]_vars => [AgeingStep]_vars
  BY NextSteps
<1> QED
  BY <1>1, Invariance, PTL DEF Spec, AgeingKeepsOrder, AgeingStep
=============================================================================
