CONSTANTS
    None = None
    good = good
    better = better
    bad = bad
    Configs = {good, better, bad}
    Valid <- GoodConfigs
    MaxCommits = 3
    MaxFailures = 1
    MaxRestarts = 0
SPECIFICATION Spec
INVARIANT LastDigestIsValidated
