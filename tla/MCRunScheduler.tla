--------------------------- MODULE MCRunScheduler ---------------------------
(* Instances of RunScheduler for TLC.                                      *)
EXTENDS RunScheduler, TLC

CONSTANTS r1, r2, r3, q1, q2, q3, c1

Symmetry == Permutations({q1, q2, q3})
SymmetryRunsReqs == Permutations(Runs) \union Permutations(Reqs)

=============================================================================
