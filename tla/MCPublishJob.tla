---------------------------- MODULE MCPublishJob ----------------------------
(* Instances of PublishJob for TLC. *)
EXTENDS PublishJob, TLC

CONSTANTS s1, s2, f1, f2

OneRun  == {1}
TwoRuns == 1..2

\* Commits are told apart by the head only, findings by nothing.
Symmetry == Permutations(Shas) \cup Permutations(Findings)

=============================================================================
