CONSTANTS
    MaxVersion = 3
    Schedulable <- OddVersions
    MaxFailures = 0
    MaxRestarts = 0
    MaxChanges = 1
SPECIFICATION FairSpec
PROPERTY WaitsForSubscription
