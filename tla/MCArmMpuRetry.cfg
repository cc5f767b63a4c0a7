CONSTANTS
    Models = {"arm946"}
    Mem <- BootMem
    Program <- MpuUserProgram
    Reads <- NoReads
    Points <- MpuUserPointsOf
    RefTranslate <- RefBoot
SPECIFICATION Spec
PROPERTY AccessCompletes
