SPECIFICATION FairSpec
CONSTANTS
    Keys <- TwoKeys
    Contents <- Distinct
    Size <- Lengths
    None = None
    DramCap = 1
    SsdCap = 2
    Calls = {"put", "put_dram", "disk_put", "demote", "drop", "get"}
    MaxClock = 2
    MaxFile = 8
    MaxLog = 2
    MaxErrors = 1
    MaxRestarts = 2
INVARIANTS ServesLastPut RecoversSsdTier WithinBudget
PROPERTIES DurableUntilTouched CallsReturn
CHECK_DEADLOCK FALSE
