CONSTANTS
    MemSize = 12
    Vector = 0
    Insns <- MCAllInsns
    Programs <- MCRefPrograms
    JrTargets = {4, 6}
    BpCandidates = {4}
    SingleStep = FALSE
    PageSize = 8
    MaxInsns = 2
    Undef = Undef

SPECIFICATION Spec
INVARIANT TypeOK
PROPERTY IsaRefinement
