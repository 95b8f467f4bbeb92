SPECIFICATION GSpec
CONSTANTS
    Chunk = 2
    Prefix = 1
    Limit = 4
    MaxOutput = 3
INVARIANTS GateTypeOK WithinBudget LossIsTold PassedEndedInTime
PROPERTIES NothingAfterRecord GateEndsWithItsChildren
CHECK_DEADLOCK FALSE
