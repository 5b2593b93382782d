----------------------------- MODULE MCServices -----------------------------
(* Services for TLC. *)
EXTENDS Services, TLC

CONSTANTS
    x1, x2, y1, y2,  \* interchangeable in every part, whatever they stand for there
    h1, h2, k1, k2, w1, w2, t1, p1, p2, j1, j2, e1, e2, u1, u2

Symmetry == Permutations({x1, x2}) \cup Permutations({y1, y2})

=============================================================================
