CONSTANTS
    n1 = n1
    n2 = n2
    Namespaces = {n1, n2}
    Secrets = {x, y}
    Specs <- Various
    None = None
    MaxGen = 2
    MaxChanges = 1
    MaxFaults = 1
SPECIFICATION FairSpec
INVARIANTS
    TypeOK
    SettledIsProvisioned
PROPERTY FollowsSecrets
CHECK_DEADLOCK FALSE
