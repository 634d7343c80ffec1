CONSTANTS
    None = None
    good = good
    better = better
    bad = bad
    Configs = {good, better, bad}
    Valid <- GoodConfigs
    MaxCommits = 3
    MaxFailures = 2
    MaxRestarts = 1
SPECIFICATION FairSpec
INVARIANTS
    TypeOK
    ReadyHasGitRepository
    CheckedAfterValid
    ReadyIsPosted
    OpenIsTracked
PROPERTIES
    HeadGetsChecked
    ReadyIsCleanedUp
