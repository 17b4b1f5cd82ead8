SPECIFICATION Spec
CONSTANTS
  Requests = {r1, r2}
  Conns = {c1}
  Drivers = {d1, d2}
  NoDriver = NoDriver
  NoConn = NoConn
  IdleTTL = 1
  MaxVersion = 2
  MaxTime = 0
SYMMETRY Symm
INVARIANT PoolFollowsRows
