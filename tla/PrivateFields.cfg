CONSTANT MaxFields = 8
SPECIFICATION Spec
INVARIANTS
    PublicKept
    SparseIsClean
    OutcomeOfLoop
CHECK_DEADLOCK FALSE
