SPECIFICATION FairSpec
CONSTANTS
    C = 5
    AlpParent <- OneAlp
    Ssv <- Variables
    PreloadOrder <- LeftToRight
    Placements <- TwoPlacements
    InitialPosition <- InARow
    Position <- Moves
    Box <- ThreeBoxes
    QueryTime = {2}
    WriteTime = {1, 2}
    GvtTime = {2}
    MaxQueries = 2
    MaxRequests = 3
    MaxGvts = 1
CHECK_DEADLOCK FALSE
INVARIANTS UpdatesCoverOtherPorts
