CONSTANTS
    v1 = v1
    v2 = v2
    pa = pa
    pb = pb
    Names = {pa, pb}
    Versions = {v1, v2}
    Values = {a, b}
    Unusable = Unusable
    None = None
    Products <- Upgrades
    MaxGen = 2
    MaxEdits = 2
    MaxFaults = 1
SPECIFICATION FairSpec
INVARIANTS
    TypeOK
    ObservedMeansRolledOut
    PublishedAlone
PROPERTIES
    ImplementsRollout
    Converges
    ConfigReachesPipelines
