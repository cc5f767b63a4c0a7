CONSTANTS
    Kernels = {"elf", "uboot", "uboot_linux", "raw", "bad", "missing"}
    Entries = {32768, 32769}
    Initrds = {"none", "ok", "bad"}
    CmdLens = {0, 3, 4}
    BoardId = 387
    RamSize = 134217728
    LoaderStart = 0
    InitrdSize = 4096
    Scribble = {0, 5, 65, 75, 79, 8192, 16384}
    MaxResets = 2
SPECIFICATION Spec
\* exit(1) when no kernel or initrd can be loaded ends the emulator
CHECK_DEADLOCK FALSE
INVARIANT TypeOK
INVARIANT AtagsWellFormed
INVARIANT BootEntry
INVARIANT ResetIdempotent
