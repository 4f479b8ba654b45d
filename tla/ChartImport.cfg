SPECIFICATION FairSpec
CONSTANTS
    None = None
    Closed = Closed
    Sets = {da, db}
    Kept = {da}
    MaxMoves = 2
    MaxRealizes = 1
INVARIANTS
    TypeOK
    ListIsInForce
PROPERTIES
    BakeIsDrawn
    AskedForIsTakenUp
