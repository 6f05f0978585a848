----------------------------- MODULE MCCacheInit -----------------------------
EXTENDS CacheInit
=============================================================================
