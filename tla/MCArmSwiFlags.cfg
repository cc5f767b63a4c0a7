CONSTANTS
    Vals = {1}
    HostResult = HostResult
    PCs = {0}
    HighBase = 32
    MaxPC = 40
    Semihosting = TRUE
    Guests <- MCSwiFlags
SPECIFICATION Spec
PROPERTY ArchRefinement
