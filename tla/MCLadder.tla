------------------------------ MODULE MCLadder ------------------------------
(* Tables for TLC: every choice of forks and of as many blocks, which is every  *)
(* table that a chain of LastBlock + 1 blocks accepts, and short sequences in   *)
(* any order, with a fork that is excluded.                                     *)
EXTENDS Ladder, SequencesExt

CONSTANTS LastBlock, MaxEntries

\* The k-th smallest.
Kth(S, k) == CHOOSE x \in S : Cardinality({y \in S : y <= x}) = k

Table(ranks, blocks) ==
  <<[block |-> 0, fork |-> "regolith"]>>
  \o [k \in 1..Cardinality(ranks) |->
        [block |-> Kth(blocks, k), fork |-> ladderForks[Kth(ranks, k)]]]

Canonical ==
  UNION {{Table(ranks, blocks) : blocks \in kSubset(Cardinality(ranks), 1..LastBlock)} :
           ranks \in {R \in SUBSET (2..8) : Cardinality(R) \in 1..LastBlock}}

Mixed == BoundedSeq([block : 0..2, fork : {"regolith", "canyon", "ecotone", "karst"}],
                    MaxEntries)

MCTables == Canonical \cup Mixed
=============================================================================
