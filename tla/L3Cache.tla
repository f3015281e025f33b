------------------------------ MODULE L3Cache ------------------------------
(***************************************************************************)
(* The shared last-level cache of the DRRIP project: the tag store         *)
(* (BaseSetAssoc), the DRRIP replacement data of its blocks and the miss   *)
(* status holding registers, as the timing-mode handlers of BaseCache and  *)
(* Cache change them.  The cache is mostly inclusive, has no compressor,   *)
(* no prefetcher and no cache below it.                                    *)
(*                                                                         *)
(* A block address is a set and a tag.  Data, dirty bits, latencies and    *)
(* the write buffer are left out: whether a victim leaves as a writeback   *)
(* or as a clean evict changes neither tags, replacement data nor MSHRs.   *)
(***************************************************************************)
EXTENDS DRRIP, FiniteSets

CONSTANTS Sets,      \* the sets looked at, by set number
          Tags,      \* the tags that addresses of a set can have
          NoTag,     \* the tag of an invalid block (MaxAddr)
          NumMSHRs   \* entries of the MSHR queue

ASSUME L3Assumption ==
    /\ Sets \subseteq Nat
    /\ NoTag \notin Tags
    /\ NumMSHRs \in Nat \ {0}

VARIABLES psel,   \* DRRIPRP::PSELCounter
          blk,    \* blk[s][w]: tag and status bits of a CacheBlk
          repl,   \* repl[s][w]: the replacement data of that block
          mshr    \* mshr[<<s, t>>]: the MSHR for that block address

vars == <<psel, blk, repl, mshr>>

Addrs == Sets \X Tags

Blocks == [tag : Tags \cup {NoTag}, readable : BOOLEAN, writable : BOOLEAN]

InvalidBlk == [tag |-> NoTag, readable |-> FALSE, writable |-> FALSE]

\* deferred: what the deferred targets of the MSHR ask for.
MSHRs == [state : {"free", "pending", "inService"}, needsWritable : BOOLEAN,
          pendingModified : BOOLEAN, postInvalidate : BOOLEAN,
          postDowngrade : BOOLEAN, deferred : {"none", "readable", "writable"}]

FreeMSHR == [state |-> "free", needsWritable |-> FALSE,
             pendingModified |-> FALSE, postInvalidate |-> FALSE,
             postDowngrade |-> FALSE, deferred |-> "none"]

PendingMSHR(nw) == [FreeMSHR EXCEPT !.state = "pending", !.needsWritable = nw]

TypeOK ==
    /\ psel \in PSELs
    /\ blk  \in [Sets -> [Ways -> Blocks]]
    /\ repl \in [Sets -> [Ways -> ReplData]]
    /\ mshr \in [Addrs -> MSHRs]

\* tagsInit and the DRRIPRP constructor.
Init ==
    /\ psel = PSELInit
    /\ blk  = [s \in Sets |-> [w \in Ways |-> InvalidBlk]]
    /\ repl = [s \in Sets |-> [w \in Ways |-> InstantiateEntry]]
    /\ mshr = [a \in Addrs |-> FreeMSHR]

----------------------------------------------------------------------------
(* The tag store. *)

\* The ways in which findBlock matches the address.
HitWays(s, t) == {w \in Ways : blk[s][w].tag = t}

Cached(s, t) == HitWays(s, t) # {}

WayOf(s, t) == FirstWay(HitWays(s, t))

Outstanding(s, t) == mshr[<<s, t>>].state # "free"

\* The cache accepts no request while the MSHR queue is full.
Accepting == Cardinality({a \in Addrs : mshr[a].state # "free"}) < NumMSHRs

\* accessBlock touches the replacement data of the block it finds.
TouchBlock(s, w) == repl' = [repl EXCEPT ![s][w] = Touch(@)]

\* Mutant of InvalidateBlock: the replacement policy is not told.
InvalidateTagsOnly(s, w) ==
    /\ blk' = [blk EXCEPT ![s][w] = InvalidBlk]
    /\ UNCHANGED repl

\* BaseSetAssoc::invalidate on way w.
InvalidateBlock(s, w) ==
    /\ blk'  = [blk EXCEPT ![s][w] = InvalidBlk]
    /\ repl' = [repl EXCEPT ![s][w] = Invalidate(@)]

\* Mutant of CanEvict: outstanding requests are not looked for.
EvictAnything(s) == TRUE

\* handleEvictions: a victim with an outstanding request cannot be evicted.
CanEvict(s) ==
    LET tag == blk[s][Victim(repl[s])].tag
    IN  tag # NoTag => ~Outstanding(s, tag)

\* allocateBlock when the victim can go: evict it, insert the new block in its
\* place and reset() its replacement data.  b is the block when the handler ends;
\* an invalid b has been invalidated after the insertion.
AllocateBlock(s, b) ==
    LET v == Victim(repl[s])
    IN  /\ CanEvict(s)
        /\ blk'  = [blk EXCEPT ![s][v] = b]
        /\ \E long \in LongChoices(psel, s) :
             repl' = [repl EXCEPT ![s] =
                        [AgedByGetVictim(@) EXCEPT ![v] =
                           IF b.tag = NoTag THEN Invalidate(InsertedData(long))
                                            ELSE InsertedData(long)]]
        /\ psel' = NextPSEL(psel, s)

\* allocateBlock when it gives up: getVictim has aged the set all the same.
FailToAllocate(s) ==
    /\ ~CanEvict(s)
    /\ repl' = [repl EXCEPT ![s] = AgedByGetVictim(@)]
    /\ UNCHANGED <<psel, blk>>

----------------------------------------------------------------------------
(* Requests from the cache above. *)

\* What allocateTarget does with a request that finds an MSHR: it joins the
\* targets, or waits in the deferred list for a response it can use.
AllocateTarget(m, nw) ==
    IF \/ m.deferred # "none"
       \/ /\ m.state = "inService"
          /\ \/ m.postInvalidate
             \/ nw /\ (~m.pendingModified \/ m.postDowngrade)
    THEN [m EXCEPT !.deferred = IF nw THEN "writable"
                                ELSE IF @ = "none" THEN "readable" ELSE @]
    ELSE [m EXCEPT !.needsWritable = @ \/ nw]

Satisfies(b, nw) == IF nw THEN b.writable ELSE b.readable

\* A read (nw: one that needs a writable copy) that hits.
RecvTimingReqHit(s, t, nw) ==
    /\ Accepting
    /\ Cached(s, t)
    /\ Satisfies(blk[s][WayOf(s, t)], nw)
    /\ TouchBlock(s, WayOf(s, t))
    /\ UNCHANGED <<psel, blk, mshr>>

\* A read that finds a block it cannot use: the block is touched, and an MSHR
\* allocated for it makes it unreadable until the response.
RecvTimingReqUpgrade(s, t, nw) ==
    LET w == WayOf(s, t)
    IN  /\ Accepting
        /\ Cached(s, t)
        /\ ~Satisfies(blk[s][w], nw)
        /\ TouchBlock(s, w)
        /\ IF Outstanding(s, t)
           THEN /\ mshr' = [mshr EXCEPT ![<<s, t>>] = AllocateTarget(@, nw)]
                /\ UNCHANGED blk
           ELSE /\ mshr' = [mshr EXCEPT ![<<s, t>>] = PendingMSHR(nw)]
                /\ blk'  = [blk EXCEPT ![s][w].readable = FALSE]
        /\ UNCHANGED psel

\* A read that finds no block.
RecvTimingReqMiss(s, t, nw) ==
    /\ Accepting
    /\ ~Cached(s, t)
    /\ mshr' = [mshr EXCEPT ![<<s, t>>] =
                  IF @.state # "free" THEN AllocateTarget(@, nw)
                                      ELSE PendingMSHR(nw)]
    /\ UNCHANGED <<psel, blk, repl>>

\* A dirty writeback from a cache above: written into the block found or allocated,
\* or passed on when no block can be allocated.  shared: the packet has sharers.
\* Assumed of the caches above: none writes back, dirty, a block for which this cache
\* has an MSHR.  The one that has the dirty block answers the others' requests itself
\* when they are snooped, so that they allocate no MSHR here, and does not evict a
\* block for which it has a request of its own outstanding.  A clean writeback that
\* meets an MSHR is dropped (base.cc:1118) and changes nothing.
RecvWriteback(s, t, shared) ==
    /\ Accepting
    /\ ~Outstanding(s, t)
    /\ \/ /\ Cached(s, t)
          /\ TouchBlock(s, WayOf(s, t))
          /\ blk' = [blk EXCEPT ![s][WayOf(s, t)].writable = @ \/ ~shared]
          /\ UNCHANGED psel
       \/ /\ ~Cached(s, t)
          /\ AllocateBlock(s, [tag |-> t, readable |-> TRUE,
                               writable |-> ~shared])
       \/ /\ ~Cached(s, t)
          /\ FailToAllocate(s)
    /\ UNCHANGED mshr

\* A clean evict from above: no more than a lookup, which touches the block.
RecvCleanEvict(s, t) ==
    /\ Accepting
    /\ Cached(s, t)
    /\ TouchBlock(s, WayOf(s, t))
    /\ UNCHANGED <<psel, blk, mshr>>

\* An uncacheable request flushes the block, whatever the MSHRs say.
RecvUncacheable(s, t) ==
    /\ Accepting
    /\ Cached(s, t)
    /\ InvalidateBlock(s, WayOf(s, t))
    /\ UNCHANGED <<psel, mshr>>

----------------------------------------------------------------------------
(* The memory side. *)

\* sendMSHRQueuePacket: another cache may answer with a modified line.  Left out:
\* an upgrade from above that finds no block here is passed on as it is, and its
\* response fills nothing (isForward, cache.cc:481); here it asks for the block.
SendMSHRQueuePacket(s, t) ==
    /\ mshr[<<s, t>>].state = "pending"
    /\ \E modifiedResp \in BOOLEAN :
         mshr' = [mshr EXCEPT
                    ![<<s, t>>].state = "inService",
                    ![<<s, t>>].pendingModified = modifiedResp
                                          \/ mshr[<<s, t>>].needsWritable,
                    ![<<s, t>>].postInvalidate = FALSE,
                    ![<<s, t>>].postDowngrade = FALSE]
    /\ UNCHANGED <<psel, blk, repl>>

\* Deferred requests that need a writable copy are served with the others when
\* the response brought one and no snoop took it away (promoteWritable).
PromoteWritable(m, writable) ==
    writable /\ m.deferred = "writable" /\ ~m.postInvalidate /\ ~m.postDowngrade

\* handleFill: the block as the response leaves it.
HandleFill(t, oldWritable, sharers) ==
    [tag |-> t, readable |-> TRUE, writable |-> oldWritable \/ ~sharers]

\* Mutant of ServiceMSHRTargets: the deferred downgrade is forgotten.
TargetsKeepWritable(m, b) == b

\* serviceMSHRTargets: the block, if it stays, once a snoop that the MSHR
\* deferred has downgraded it.
ServiceMSHRTargets(m, b) == [b EXCEPT !.writable = @ /\ ~m.postDowngrade]

\* The block at the end of recvTimingResp: unreadable if targets are still deferred.
BlkAfterResp(m, t, oldWritable, sharers) ==
    LET b == HandleFill(t, oldWritable, sharers)
    IN  [ServiceMSHRTargets(m, b) EXCEPT !.readable =
           m.deferred = "none" \/ PromoteWritable(m, b.writable)]

\* Mutant of MSHRAfterResp: deferred targets are dropped with the MSHR.
MSHRFreed(m, writable) == FreeMSHR

\* The MSHR at the end of recvTimingResp: freed, or pending with the targets
\* that were deferred (promoteDeferredTargets).
MSHRAfterResp(m, writable) ==
    IF m.deferred = "none" \/ PromoteWritable(m, writable)
    THEN FreeMSHR ELSE PendingMSHR(m.deferred = "writable")

\* Mutant of RecvTimingResp: the block is not looked up again.
RecvTimingRespStale(s, t, sharers) ==
    LET m == mshr[<<s, t>>]
        new == IF m.postInvalidate THEN InvalidBlk
               ELSE BlkAfterResp(m, t, FALSE, sharers)
    IN  /\ m.state = "inService"
        /\ m.pendingModified => ~sharers
        /\ mshr' = [mshr EXCEPT ![<<s, t>>] = MSHRAfterResp(@, ~sharers)]
        /\ AllocateBlock(s, new) \/ FailToAllocate(s)

\* A response that fills the block found, or one allocated for it, or only the
\* temporary block; a deferred invalidation takes effect at the end.  Left out: an error
\* response, which frees the MSHR and fills nothing (base.cc:465), and a response that
\* invalidates the block it brings (ReadRespWithInvalidate, mshr.cc:545).
RecvTimingResp(s, t, sharers) ==
    LET m == mshr[<<s, t>>]
        w == WayOf(s, t)
        oldWritable == Cached(s, t) /\ blk[s][w].writable
        new == IF m.postInvalidate THEN InvalidBlk
               ELSE BlkAfterResp(m, t, oldWritable, sharers)
    IN  /\ m.state = "inService"
        /\ m.pendingModified => ~sharers
        /\ mshr' = [mshr EXCEPT ![<<s, t>>] =
                      MSHRAfterResp(@, oldWritable \/ ~sharers)]
        /\ \/ /\ Cached(s, t)
              /\ blk'  = [blk EXCEPT ![s][w] = new]
              /\ repl' = [repl EXCEPT ![s][w] =
                            IF m.postInvalidate THEN Invalidate(@) ELSE @]
              /\ UNCHANGED psel
           \/ /\ ~Cached(s, t)
              /\ AllocateBlock(s, new)
           \/ /\ ~Cached(s, t)
              /\ FailToAllocate(s)

\* MSHR::handleSnoop: an MSHR in service notes what it must give up when the
\* response is there.
SnoopedMSHR(m, inval) ==
    IF m.state # "inService" \/ m.postInvalidate THEN m
    ELSE IF inval THEN [m EXCEPT !.postInvalidate = TRUE]
                  ELSE [m EXCEPT !.postDowngrade = TRUE]

\* An MSHR that expects a modified line, or has given the line up, answers the
\* snoop and hides the block from it.
HidesBlk(m) == m.state = "inService" /\ (m.postInvalidate \/ m.pendingModified)

\* Cache::handleSnoop on the block found.
HandleSnoop(s, w, inval) ==
    \/ /\ inval
       /\ InvalidateBlock(s, w)
    \/ /\ ~inval
       /\ blk' = [blk EXCEPT ![s][w].writable = FALSE]
       /\ UNCHANGED repl

\* A snoop that asks for the block.
RecvTimingSnoopReq(s, t, inval) ==
    /\ mshr' = [mshr EXCEPT ![<<s, t>>] = SnoopedMSHR(@, inval)]
    /\ IF Cached(s, t) /\ ~HidesBlk(mshr[<<s, t>>])
       THEN HandleSnoop(s, WayOf(s, t), inval)
       ELSE UNCHANGED <<blk, repl>>
    /\ UNCHANGED psel

----------------------------------------------------------------------------
Next ==
    \E s \in Sets, t \in Tags :
      \/ \E nw \in BOOLEAN : \/ RecvTimingReqHit(s, t, nw)
                             \/ RecvTimingReqUpgrade(s, t, nw)
                             \/ RecvTimingReqMiss(s, t, nw)
      \/ \E shared \in BOOLEAN : RecvWriteback(s, t, shared)
      \/ RecvCleanEvict(s, t)
      \/ RecvUncacheable(s, t)
      \/ SendMSHRQueuePacket(s, t)
      \/ \E sharers \in BOOLEAN : RecvTimingResp(s, t, sharers)
      \/ \E inval \in BOOLEAN : RecvTimingSnoopReq(s, t, inval)

Spec == Init /\ [][Next]_vars

----------------------------------------------------------------------------
(* Properties. *)

\* A set never holds two valid copies of one address: the response to a miss
\* looks the address up again before it allocates (base.cc:463), because the block
\* of an upgrade may still be there, or have been invalidated by a snoop or an
\* uncacheable request while the upgrade was outstanding.
OneCopy ==
    \A s \in Sets : \A v, w \in Ways :
      blk[s][v].tag = blk[s][w].tag => v = w \/ blk[s][v].tag = NoTag

\* The policy's valid bit says exactly whether the block is valid, so getVictim
\* never overwrites a live block as free (the assertion of insertBlock,
\* base.cc:102 of tags/) and never ages a set that has a free way.
ReplTracksBlk ==
    \A s \in Sets : \A w \in Ways : repl[s][w].valid <=> blk[s][w].tag # NoTag

\* A valid block that reads cannot use has a request outstanding that will make
\* it usable; otherwise the next read of it would trip the assertion of
\* handleTimingReqMiss (base.cc:321).
UnreadableIsOutstanding ==
    \A s \in Sets : \A w \in Ways :
      blk[s][w].tag # NoTag /\ ~blk[s][w].readable => Outstanding(s, blk[s][w].tag)

\* A valid block with a request outstanding is waiting to become writable: the
\* assertion of handleEvictions (base.cc:808), and what createMissPacket asserts
\* of a block it upgrades (cache.cc:507).
OutstandingIsUpgrade ==
    \A s \in Sets : \A w \in Ways :
      blk[s][w].tag # NoTag /\ Outstanding(s, blk[s][w].tag)
        => /\ ~blk[s][w].writable
           /\ mshr[<<s, blk[s][w].tag>>].needsWritable

\* No insertion removes a block whose request is outstanding, and none removes a
\* block while another is predicted to be needed later or a way is free.
VictimIsMostDistant ==
    [][\A s \in Sets : \A w \in Ways :
         LET old == blk[s][w].tag
         IN  (old # NoTag /\ blk'[s][w].tag \notin {old, NoTag})
               => /\ ~Outstanding(s, old)
                  /\ \A v \in Ways : /\ blk[s][v].tag # NoTag
                                     /\ repl[s][v].rrpv <= repl[s][w].rrpv]_vars

\* The block of the way stays and is not promoted by a lookup.
Stays(s, w) ==
    /\ blk[s][w].tag # NoTag
    /\ blk'[s][w].tag = blk[s][w].tag
    /\ repl'[s][w].rrpv >= repl[s][w].rrpv

\* Ageing is uniform: blocks that stay and are not promoted move by the same
\* amount, so their order of eviction is kept where counters saturate, and also
\* when the set was aged for an allocation that then fails.
AgeingKeepsOrder ==
    [][\A s \in Sets : \A v, w \in Ways :
         Stays(s, v) /\ Stays(s, w) =>
           repl'[s][v].rrpv - repl[s][v].rrpv = repl'[s][w].rrpv - repl[s][w].rrpv]_vars

\* An insertion that takes the place of another valid block of the set.
Replacement(s) ==
    \E w \in Ways : /\ blk[s][w].tag # NoTag
                    /\ blk'[s][w].tag \notin {NoTag, blk[s][w].tag}

\* A lookup that brings the block's predicted re-reference nearer.
Promoted(s, t) ==
    \E w \in Ways : /\ blk[s][w].tag = t
                    /\ repl'[s][w].rrpv < repl[s][w].rrpv

\* No dead block stays: under SRRIP insertion a block that lookups no longer
\* promote leaves the set, as long as the set keeps replacing blocks.  (Under
\* BRRIP it need not: distant insertions replace one another for ever.)
DeadBlocksLeave ==
    \A s \in {x \in Sets : SRRIPDedicated(x)}, t \in Tags :
      []<><<Replacement(s)>>_vars /\ <>[][~Promoted(s, t)]_vars => []<>~Cached(s, t)

\* A block is allocated in one of the sets.
Inserts(S) == \E s \in S : AllocateBlock(s, blk'[s][Victim(repl[s])])

\* The duel is decided by the sets that miss: if from some time on blocks are
\* inserted in the sets of one policy for ever and in those of the other no more,
\* the followers come to follow the other and stay with it, whatever the counter
\* was (it saturates, drrip_rp.cc:98-115), and whatever is inserted and then
\* invalidated in the same handler.
DuelSettles ==
    LET srrip == {s \in Sets : SRRIPDedicated(s)}
        brrip == {s \in Sets : BRRIPDedicated(s)}
    IN  /\ []<><<Inserts(srrip)>>_vars /\ <>[][~Inserts(brrip)]_vars
             => <>[]FollowBRRIP(psel)
        /\ []<><<Inserts(brrip)>>_vars /\ <>[][~Inserts(srrip)]_vars
             => <>[]~FollowBRRIP(psel)
=============================================================================
