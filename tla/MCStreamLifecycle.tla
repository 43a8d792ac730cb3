-------------------------- MODULE MCStreamLifecycle --------------------------
EXTENDS StreamLifecycleProperties, TLC

Symmetry == Permutations(Streams) \union Permutations(Shutdowns)
=============================================================================
