--------------------------- MODULE MCIdempotency ---------------------------
EXTENDS Idempotency, TLC

CONSTANTS r1, r2, r3, r4, k1, k2

MCRequests == {r1, r2, r3, r4}
MCKeys == {k1, k2}
Symmetry == Permutations(MCRequests) \cup Permutations(MCKeys)
=============================================================================
