CONSTANTS
    localize = localize
    rules = rules
    a = a
    v1 = v1
    None = None
    Namespace = Namespace
    System = System
    Kubernetes = Kubernetes
    Specs <- Combinations
    TargetObjects <- FarTarget
    MaxGen = 2
    MaxFaults = 1
SPECIFICATION LocalizedFirst
INVARIANTS
    TypeOK
    TornStatusIsRetried
    DeployedIsReal
    StagesInOrder
PROPERTIES
    SnapshotNeverGoesBack
    GetsDeployed
