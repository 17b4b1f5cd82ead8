SPECIFICATION Spec
CONSTANTS
    s1 = s1
    s2 = s2
    c1 = c1
    k1 = k1
    k2 = k2
    k3 = k3
    Absent = Absent
    Torn = Torn
    Servers = {s1, s2}
    Clis = {c1}
    Secrets = {k1, k2, k3}
    ReadMayFail = TRUE
SYMMETRY Symm
INVARIANTS SealsSurviveRestart RefusedOnlyIfCut
PROPERTY SecretStays
