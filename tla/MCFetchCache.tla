----------------------------- MODULE MCFetchCache -----------------------------
EXTENDS FetchCache, TLC

MCCallers == Permutations(Callers)
=============================================================================
