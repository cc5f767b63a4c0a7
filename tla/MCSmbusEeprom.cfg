CONSTANTS
    Contents <- MCContents
    Vals = {0, 1}
    Cmds = {0, 254}
    Bufs <- MCBufs
SPECIFICATION Spec
INVARIANT TypeOK
PROPERTY EepromRefinement
