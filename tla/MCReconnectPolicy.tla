-------------------------- MODULE MCReconnectPolicy --------------------------
EXTENDS ReconnectPolicy, TLC

CallersSymmetry == Permutations(Callers)
==============================================================================
