CONSTANTS
    MaxVersion = 3
    Schedulable <- OddVersions
    MaxFailures = 2
    MaxRestarts = 1
    MaxChanges = 3
SPECIFICATION FairSpec
INVARIANTS
    TypeOK
    ReconciledIsComplete
PROPERTIES
    NeverGoesBack
    GeneratesNewest
