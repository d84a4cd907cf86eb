SPECIFICATION Spec
CONSTANTS
    Segments <- Four
    MantissaBits = 3
    MaxBinSize = 60
    TopBins = 4
    InitNodes = 2
    MaxNodes = 5
    Unused = Unused
    Sizes = {0, 17, 21, 61}
    Ranges <- Restored
INVARIANTS WellFormed
PROPERTIES RestoresExactly Contract
