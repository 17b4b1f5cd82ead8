SPECIFICATION CallSpec
CONSTANTS
    MaxText = 5
    MaxName = 2
    MaxColumns = 3
    MaxForeign = 2
    MaxRows = 7
    MaxLimit = 3
INVARIANTS SplitMatchesLexer QuotingScansBack FormColumnsAligned DDLWellFormed PagesCoverTable
CHECK_DEADLOCK FALSE
