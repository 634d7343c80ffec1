CONSTANTS
    None = None
    Struct = Struct
    Names = {1, 2, 3, 4, 5}
    Values = {1, 2}
    Files <- MCFiles
    Products <- Upgrades
    MaxEdits = 1
SPECIFICATION Spec
INVARIANT EditsAreAccepted
