CONSTANTS
    Models = {"arm926", "arm946", "arm1026"}
    Mem <- BootMem
    Program <- BootProgram
    Reads <- BootReads
    Points <- BootPoints
    RefTranslate <- RefBoot
SPECIFICATION Spec
INVARIANT TypeOK
INVARIANT AccessPermitted
INVARIANT FaultReported
PROPERTY AccessCompletes
INVARIANT ReadBack
INVARIANT FeaturesFixed
