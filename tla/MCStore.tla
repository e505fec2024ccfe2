------------------------------ MODULE MCStore ------------------------------
\* MemoryStore with three keys, two values and room for two entries; a zero
\* TTL (nothing is stored), one that ends at the next tick and one that lasts.
EXTENDS MemoryStore

CONSTANTS k1, k2, k3, v1, v2

MCTtls == {0, 1, 3}
MCSymmetry == Permutations({k1, k2, k3}) \cup Permutations({v1, v2})
=============================================================================
