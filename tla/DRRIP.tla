-------------------------------- MODULE DRRIP -------------------------------
(***************************************************************************)
(* DRRIPRP, the replacement policy the project adds to gem5: set dueling   *)
(* between SRRIP and BRRIP insertion.  A set is dedicated to one of the    *)
(* two policies or follows the one that the policy selection counter says  *)
(* has missed less.  Everything but reset() is inherited from BRRIPRP.     *)
(***************************************************************************)
EXTENDS RRIP

CONSTANTS NumSetDuelingSets,   \* DRRIPRP.num_set_dueling_sets
          NumPSELCounterBits   \* DRRIPRP.num_PSEL_counter_bits

ASSUME DRRIPAssumption ==
    /\ NumSetDuelingSets \in Nat \ {0}
    /\ NumPSELCounterBits \in 1..30
    /\ 2 ^ NumPSELCounterBits \in Nat   \* no prover knows exponentiation
    /\ 2 ^ (NumPSELCounterBits - 1) \in 0..((2 ^ NumPSELCounterBits) - 1)

\* The bits of the mask NumSetDuelingSets - 1.
BitWidth == CHOOSE n \in 0..30 : /\ NumSetDuelingSets <= 2 ^ n
                                 /\ \A k \in 0..(n - 1) : 2 ^ k < NumSetDuelingSets

\* x & m on unsigned numbers, m up to that mask: the sum of the common bits.
And(x, m) ==
    LET low[i \in 0..BitWidth] ==
          IF i = 0 THEN 0
          ELSE low[i - 1] + (2 ^ (i - 1)) *
                 (((x \div (2 ^ (i - 1))) % 2) * ((m \div (2 ^ (i - 1))) % 2))
    IN  low[BitWidth]

----------------------------------------------------------------------------
(* The class of a set. *)

\* Mutant of Constituency: the bits above the mask are kept.
ConstituencyUnmasked(s) == s \div NumSetDuelingSets

Constituency(s) == And(s \div NumSetDuelingSets, NumSetDuelingSets - 1)

OffsetWithinConstituency(s) == s % NumSetDuelingSets

\* (~offset) & (K - 1): the bits of K - 1 that offset lacks.
OffsetComplement(s) ==
    (NumSetDuelingSets - 1) - And(OffsetWithinConstituency(s), NumSetDuelingSets - 1)

SRRIPDedicated(s) == Constituency(s) = OffsetWithinConstituency(s)

\* reset() asks for the SRRIP class first.
BRRIPDedicated(s) == ~SRRIPDedicated(s) /\ Constituency(s) = OffsetComplement(s)

Follower(s) == ~SRRIPDedicated(s) /\ ~BRRIPDedicated(s)

----------------------------------------------------------------------------
(* The policy selection counter. *)

PSELMax == (2 ^ NumPSELCounterBits) - 1

PSELInit == 2 ^ (NumPSELCounterBits - 1)

PSELs == 0..PSELMax

\* The most significant bit of the counter, read before reset() changes it.
FollowBRRIP(p) == p >= 2 ^ (NumPSELCounterBits - 1)

\* Mutant of NextPSEL: plain instead of saturating arithmetic.
NextPSELUnsaturated(p, s) ==
    IF SRRIPDedicated(s) THEN p + 1 ELSE IF BRRIPDedicated(s) THEN p - 1 ELSE p

\* Mutant of NextPSEL: the counter wraps around at both ends.
NextPSELWrapping(p, s) ==
    IF SRRIPDedicated(s) THEN (p + 1) % (PSELMax + 1)
    ELSE IF BRRIPDedicated(s) THEN (p + PSELMax) % (PSELMax + 1)
    ELSE p

\* The counter after an insertion into set s.
NextPSEL(p, s) ==
    IF SRRIPDedicated(s) THEN (IF p < PSELMax THEN p + 1 ELSE p)
    ELSE IF BRRIPDedicated(s) THEN (IF p > 0 THEN p - 1 ELSE p)
    ELSE p

\* Mutant of LongChoices: the dedicated SRRIP sets insert as BRRIP does.
LongChoicesBimodal(p, s) == BimodalDraws

\* Whether the entry reset() inserts is a "long re-reference" one: always under
\* SRRIP, as the bimodal draw falls under BRRIP.
LongChoices(p, s) ==
    IF SRRIPDedicated(s) \/ (Follower(s) /\ ~FollowBRRIP(p))
    THEN {TRUE} ELSE BimodalDraws
=============================================================================
