SPECIFICATION Spec
CONSTANTS
    Keys <- TwoKeys
    Contents <- Distinct
    Size <- Lengths
    None = None
    DramCap = 0
    SsdCap = 9
    Calls = {"disk_put"}
    MaxClock = 2
    MaxFile = 8
    MaxLog = 3
    MaxErrors = 0
    MaxRestarts = 1
INVARIANTS SurvivesRestart
