SPECIFICATION FairSpec
CONSTANTS
  N = 2
  MaxFaults = 1
  Slots = {s1, s2}
  MaxIdle = 1
  Kinds = {"sqlite", "postgres", "mysql"}
  Scripts <- MCScripts
  NoRequest = NoRequest
INVARIANTS SlotsAccounted UndisturbedIsSerial HistoryFollowsScript
PROPERTY EveryRequestEnds
