--------------------------- MODULE MCAsyncPushIterator ---------------------------
(* Small instances of AsyncPushIterator: overlapping calls of next().         *)
EXTENDS AsyncPushIterator, TLC

CONSTANTS v1, v2, c1, c2, c3

MCValues == {v1, v2}
MCCallers == {c1, c2, c3}

\* Values and callers are only compared for equality, so a run that checks
\* invariants alone may permute both.
Symmetry == Permutations(MCValues) \cup Permutations(MCCallers)

=================================================================================
