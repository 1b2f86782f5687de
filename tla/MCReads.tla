-------------------------------- MODULE MCReads --------------------------------
(* Reads.tla, small.  One project's states, two readers and three loads, so  *)
(* that a reader's load, another reader's and a poll's overlap in every      *)
(* order; two findings of a run; two budgets that restrict a target in       *)
(* common, one of them more than its maxTargets.  The findings and the       *)
(* readers are of different parts, and the same two model values stand for   *)
(* them, which halves the permutations of Symmetry.                          *)
EXTENDS Reads, TLC

TwoPlans == [b1 |-> {"t1"}, b2 |-> {"t1", "t2"}]

Symmetry == Permutations(Readers) \cup Permutations(Loads)
===============================================================================
