SPECIFICATION Spec
CONSTANTS
    u1 = u1
    u2 = u2
    n1 = n1
    n2 = n2
    Shipped = Shipped
    None = None
    Garbage = Garbage
    Updaters = {u1, u2}
    Names = {n1, n2}
    MaxTag = 2
    MaxRev = 2
SYMMETRY Symm
INVARIANTS InstalledIsSound TempsAreAccounted ServiceFollowsSwap
PROPERTIES InstallsItsTarget ImplementsAtomicInstall
