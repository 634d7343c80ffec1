CONSTANTS
    v1 = v1
    v2 = v2
    a = a
    b = b
    rules = rules
    Name = pa
    Names = {pa}
    Versions = {v1, v2}
    Values = {a, b}
    Unusable = Unusable
    None = None
    Products <- Upgrades
    MaxGen = 2
    MaxEdits = 2
    MaxFaults = 1
    MaxEvents = 2
    TargetObjects <- TheTarget
    Namespace = Namespace
    System = System
    Kubernetes = Kubernetes
    Template <- Configured
SPECIFICATION OrderedSpec
INVARIANTS
    SettledIsConfigured
    DeletedValuesAreReplaced
PROPERTIES
    ImplementsProductDeployment
    StepsOfPipeline
    ValuesAreDeployed
