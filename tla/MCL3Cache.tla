----------------------------- MODULE MCL3Cache ------------------------------
(* Instances of L3Cache for TLC. *)
EXTENDS L3Cache

CONSTANTS t1, t2, t3

\* With four set-dueling sets, set 0 is an SRRIP and set 3 a BRRIP dedicated
\* set, and set 1 follows.
SRRIPSet == {0}

FollowedDuel == {0, 1, 3}

TwoTags == {t1, t2}

ThreeTags == {t1, t2, t3}
=============================================================================
