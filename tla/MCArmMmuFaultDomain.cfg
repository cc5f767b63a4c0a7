CONSTANTS
    Models = {"arm926"}
    Mem <- BootMem
    Program <- BootProgram
    Reads <- NoReads
    Points <- BootPoints
    RefTranslate <- RefBoot
SPECIFICATION Spec
INVARIANT FaultDomain
