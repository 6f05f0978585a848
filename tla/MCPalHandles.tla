---------------------------- MODULE MCPalHandles ----------------------------
EXTENDS PalHandles, TLC

\* The two threads are interchangeable.
ThreadSymmetry == Permutations(Threads)
=============================================================================
