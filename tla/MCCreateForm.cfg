SPECIFICATION CallSpec
CONSTANTS
    MaxText = 1
    MaxName = 1
    MaxColumns = 3
    MaxForeign = 0
    MaxRows = 2
    MaxLimit = 1
INVARIANTS FlagsFollowColumns
CHECK_DEADLOCK FALSE
