-------------------------- MODULE MCFindingGroups --------------------------
(* Instances of FindingGroups for TLC. *)
EXTENDS FindingGroups, TLC

CONSTANTS a, b

\* Two claims on one file, of one category.
OnePlace == [c \in Claims |-> "f"]

\* Claims of one severity are interchangeable.
ClaimSymmetry == Permutations(Claims)

=============================================================================
