------------------------------- MODULE MCUpdater -------------------------------
EXTENDS Updater, TLC
CONSTANTS u1, u2, n1, n2
Symm == Permutations({u1, u2}) \cup Permutations({n1, n2})
=============================================================================
