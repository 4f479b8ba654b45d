SPECIFICATION PagesSpec
CONSTANTS
    Own = Own
    None = None
    tiles = tiles
    style = style
    beside = beside
    Links <- Looked
    Text <- TextOf
    Sibling <- Beside
    Sources <- OfStyle
    Packs <- OfStyle
    Local = {style}
    MaxLinks = 2
    Catalog <- Shipped
    LinuxRefused = {}
    LinuxDisk <- TwoLinks
    LinuxOldStore <- NoLinks
    WinRefused = {beside}
    WinDisk <- NoLinks
    WinOldStore <- OneLink
    Files = {style}
    LinuxMaxAsks = 3
    WinMaxAsks = 2
    MaxShows = 3
    Sets = {"a", "b", "n"}
    Derived = {"a"}
    Managed = "n"
    MaxOpens = 2
    MaxMoves = 2
    LinuxSteps = 1
    WinSteps = 2
INVARIANTS
    ShelvesAreTrue
    PagesAreTrue
PROPERTIES
    PickIsDecided
CHECK_DEADLOCK FALSE
