-------------------------- MODULE MCCacheCapacity --------------------------
EXTENDS CacheCapacity, TLC

OtherKeys == Permutations(Keys \ {Latest})
=============================================================================
