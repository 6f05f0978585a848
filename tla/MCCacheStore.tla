---------------------------- MODULE MCCacheStore ----------------------------
EXTENDS CacheStore, TLC

\* Contents differ only in their identity.
StoreSymmetry == Permutations(Versions)
=============================================================================
