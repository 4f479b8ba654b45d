SPECIFICATION FairSpec
CONSTANTS
    Library = Library
    File = File
    Sheets = Sheets
    None = None
    Closed = Closed
    Sets = {da}
    MaxMoves = 2
    MaxFails = 1
INVARIANTS
    TypeOK
    ClockRuns
PROPERTIES
    LibrarySettles
CHECK_DEADLOCK FALSE
