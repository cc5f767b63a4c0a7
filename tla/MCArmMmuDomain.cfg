CONSTANTS
    Models = {"arm926"}
    Mem <- BootMem
    Program <- DomainProgram
    Reads <- NoReads
    Points <- DomainPoints
    RefTranslate <- RefBoot
SPECIFICATION Spec
INVARIANT AccessPermitted
