CONSTANTS
    Panes = {"linux plugins", "windows plugins", "linux pictures", "windows pictures"}
    Hosts = {"h1"}
    Nil = Nil
    Hasty = FALSE
    Again = FALSE
    Stale = FALSE
    Unsaved = TRUE
    LinuxSlots = {1, 2}
    LinuxRows = 2
    WindowsRows = 2
SPECIFICATION PanesSpec
INVARIANT PanesAreTrue
PROPERTY EditIsKept
CHECK_DEADLOCK FALSE
