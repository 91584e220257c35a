---------------------------- MODULE MCRateLimit ----------------------------
EXTENDS RateLimit, TLC
Symm == Permutations(Callers)
=============================================================================
