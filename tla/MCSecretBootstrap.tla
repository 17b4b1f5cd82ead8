--------------------------- MODULE MCSecretBootstrap ---------------------------
EXTENDS SecretBootstrap, TLC
CONSTANTS s1, s2, c1, k1, k2, k3
Symm == Permutations({k1, k2, k3})
=============================================================================
