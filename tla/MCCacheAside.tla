---------------------------- MODULE MCCacheAside ----------------------------
EXTENDS CacheAside, TLC
RequestSymmetry == Permutations(Requests) \cup Permutations(Students)
=============================================================================
