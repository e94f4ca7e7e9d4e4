--------------------------- MODULE MCXRedisCommand ---------------------------
EXTENDS XRedisCommand, TLC

\* Callers whose commands the context accepts are interchangeable.
CallerSymmetry == Permutations(Callers \ Refused)
==============================================================================
