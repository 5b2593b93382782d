----------------------------- MODULE MCTenancy -----------------------------
(* Instances of Tenancy for TLC. *)
EXTENDS Tenancy, TLC

CONSTANTS u1, u2, u3, w1, p1, p2, i1, i2

\* Users, requests and invitations are interchangeable.
Symmetry == Permutations(Users) \cup Permutations(Requests) \cup Permutations(Invites)

=============================================================================
