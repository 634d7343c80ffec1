CONSTANTS
    None = None
    Struct = Struct
    Names = {1, 2, 3, 4, 5}
    Values = {1, 2}
    Files <- MCFiles
    Products <- Upgrades
    MaxEdits = 2
SPECIFICATION FairSpec
INVARIANTS
    TypeOK
    PrivateStaysOut
    MergeAddsMissing
    ReviewedIsPublished
    UpgradeKeepsSeen
PROPERTY PublishedInTheEnd
CHECK_DEADLOCK FALSE
