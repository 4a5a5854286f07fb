----------------------------- MODULE MCPayload -----------------------------
EXTENDS Payload, TLC
CONSTANTS n1, n2
Symmetry == Permutations({n1, n2})
=============================================================================
