---------------------------- MODULE MCDraftStore ----------------------------
\* Model-checking instance of DraftStore: the pool threads are interchangeable.
EXTENDS DraftStore

PoolSymmetry == Permutations(Pool)
=============================================================================
