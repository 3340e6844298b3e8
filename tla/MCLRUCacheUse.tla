------------------------------ MODULE MCLRUCacheUse ------------------------------
(* Small instances of LRUCacheUse: more keys than fit.                        *)
EXTENDS LRUCacheUse, TLC

CONSTANTS k1, k2, k3, k4, v1, v2

MCKeys == {k1, k2, k3, k4}
MCValues == {v1, v2}

\* Keys and values are only compared for equality, and only invariants are checked.
Symmetry == Permutations(MCKeys) \cup Permutations(MCValues)

=================================================================================
