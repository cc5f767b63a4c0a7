CONSTANTS
    MemSize = 12
    Vector = 0
    Insns <- MCStepInsns
    Programs <- MCStepPrograms
    JrTargets = {4, 6}
    BpCandidates = {4}
    SingleStep = TRUE
    PageSize = 8
    MaxInsns = 2
    Undef = Undef
SPECIFICATION Spec
PROPERTY IsaRefinement
