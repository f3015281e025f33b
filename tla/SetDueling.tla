---------------------------- MODULE SetDueling ------------------------------
(***************************************************************************)
(* How the sets of a cache are shared out between the duelling policies:   *)
(* tagsInit gives every set its number, and from that number reset()       *)
(* derives the class of the set.  The loop is followed set by set; the     *)
(* variables collect the sets found to be dedicated.                       *)
(***************************************************************************)
EXTENDS DRRIP, FiniteSets

CONSTANT NumSets   \* sets of the cache

ASSUME NumSetsAssumption == NumSets \in Nat \ {0}

VARIABLES next,         \* the next set to be numbered
          srripSets,    \* the sets dedicated to SRRIP so far
          brripSets     \* the sets dedicated to BRRIP so far

vars == <<next, srripSets, brripSets>>

Init == next = 0 /\ srripSets = {} /\ brripSets = {}

\* tagsInit on the blocks of the next set.
NumberSet ==
    /\ next < NumSets
    /\ next' = next + 1
    /\ srripSets' = srripSets \cup {s \in {next} : SRRIPDedicated(s)}
    /\ brripSets' = brripSets \cup {s \in {next} : BRRIPDedicated(s)}

Next == NumberSet

Spec == Init /\ [][Next]_vars

----------------------------------------------------------------------------
\* Both policies duel everywhere in the cache and on equal terms: of every
\* NumSetDuelingSets consecutive sets one is dedicated to each (the comparisons
\* of reset(), drrip_rp.cc:70-82, with their masks).
EveryConstituencyDuels ==
    \A c \in 0..((next \div NumSetDuelingSets) - 1) :
      LET sets == (c * NumSetDuelingSets)..((c + 1) * NumSetDuelingSets - 1)
      IN  /\ Cardinality(srripSets \cap sets) = 1
          /\ Cardinality(brripSets \cap sets) = 1

\* What the parameter is documented to be: the number of sets dedicated to each
\* policy ("Number of sets permanently dedicated to RRIP and BRRIP").
DedicatedAsDocumented ==
    next = NumSets => /\ Cardinality(srripSets) = NumSetDuelingSets
                      /\ Cardinality(brripSets) = NumSetDuelingSets
=============================================================================
