-------------------------------- MODULE RRIP --------------------------------
(***************************************************************************)
(* The RRIP family of replacement policies: the saturating counters of     *)
(* base/sat_counter.hh and the policy operations that BRRIPRP (and DRRIPRP,*)
(* which inherits them) perform on the replacement data of one set.        *)
(*                                                                         *)
(* The replacement data of an entry is the record BRRIPReplData keeps: a   *)
(* Re-Reference Prediction Value (0: near, MaxRRPV: distant) and a valid   *)
(* bit.  The candidates of a replacement are the ways of one set, in way   *)
(* order, so a set's data is a function on Ways.                           *)
(***************************************************************************)
EXTENDS Integers

CONSTANTS Assoc,        \* ways of a set
          NumRRPVBits,  \* BRRIPRP.num_bits
          HitPriority,  \* BRRIPRP.hit_priority
          Btp           \* BRRIPRP.btp, a percentage

ASSUME RRIPAssumption ==
    /\ Assoc \in Nat \ {0}
    /\ NumRRPVBits \in 1..8
    /\ HitPriority \in BOOLEAN
    /\ Btp \in 0..100
    /\ 2 ^ NumRRPVBits \in Nat \ {0}   \* no prover knows exponentiation

Ways == 0..(Assoc - 1)

----------------------------------------------------------------------------
(* SatCounter. *)

MaxRRPV == (2 ^ NumRRPVBits) - 1

RRPVs == 0..MaxRRPV

SatDec(c) == IF c > 0 THEN c - 1 ELSE c

SatAdd(c, v) == IF MaxRRPV - c >= v THEN c + v ELSE MaxRRPV

----------------------------------------------------------------------------
(* BRRIPReplData and the operations of the policy. *)

ReplData == [rrpv : RRPVs, valid : BOOLEAN]

\* instantiateEntry: the counter starts at 0 and the entry is invalid.
InstantiateEntry == [rrpv |-> 0, valid |-> FALSE]

\* invalidate clears the valid bit and leaves the counter as it was.
Invalidate(d) == [d EXCEPT !.valid = FALSE]

Touch(d) == [d EXCEPT !.rrpv = IF HitPriority THEN 0 ELSE SatDec(@)]

\* The draw random(1, 100) <= btp, over every value the generator can return.
BimodalDraws == {long \in BOOLEAN : \E r \in 1..100 : long <=> r <= Btp}

\* rrpv.saturate(), then rrpv-- for a "long re-reference" insertion.
InsertedData(long) ==
    [rrpv |-> IF long THEN SatDec(MaxRRPV) ELSE MaxRRPV, valid |-> TRUE]

FirstWay(S) == CHOOSE w \in S : \A v \in S : w <= v

InvalidWays(ds) == {w \in Ways : ~ds[w].valid}

MostDistantWays(ds) == {w \in Ways : \A v \in Ways : ds[v].rrpv <= ds[w].rrpv}

\* The entry getVictim returns: the first invalid one, or else the first of
\* those predicted to be re-referenced the farthest away.
Victim(ds) ==
    IF InvalidWays(ds) # {} THEN FirstWay(InvalidWays(ds))
                            ELSE FirstWay(MostDistantWays(ds))

\* Mutant of AgedByGetVictim: only the most distant entries age.
AgedOnlyDistant(ds) ==
    LET diff == MaxRRPV - ds[Victim(ds)].rrpv
    IN  IF InvalidWays(ds) # {}
        THEN ds
        ELSE [w \in Ways |-> [ds[w] EXCEPT !.rrpv =
                IF w \in MostDistantWays(ds) THEN SatAdd(@, diff) ELSE @]]

\* What getVictim leaves behind: when every entry is valid the victim's counter
\* saturates and the others advance by the same amount.
AgedByGetVictim(ds) ==
    LET diff == MaxRRPV - ds[Victim(ds)].rrpv
    IN  IF InvalidWays(ds) # {}
        THEN ds
        ELSE [w \in Ways |-> [ds[w] EXCEPT !.rrpv = SatAdd(@, diff)]]
=============================================================================
