SPECIFICATION Spec
CONSTANTS
    RowHashes = {1, 2}
    MaxLeaves = 7
    MaxRows = 3
    MaxDepth = 3
    MaxLog = 3
    MaxTags = 4
    ShingleK = 2
    Alphabet <- OrgNames
INVARIANTS
    RootIsRFC6962
    VerdictIsSound
    OutageWithholds
    AttacksAreCaught
    RelativesAreFound
    PassportsAreTrue
    ViewsFollowServer
CHECK_DEADLOCK FALSE
