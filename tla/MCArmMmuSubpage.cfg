CONSTANTS
    Models = {"arm926"}
    Mem <- BootMem
    Program <- BootProgram
    Reads <- NoReads
    Points <- SubpagePoints
    RefTranslate <- RefBoot
SPECIFICATION Spec
INVARIANT AccessPermitted
