SPECIFICATION EachSpec
CONSTANTS
    f1 = f1
    f2 = f2
    Off = Off
    Fingers <- TwoFingers
    Stitch = 2
    Double = 3
    Press = 4
    MaxPoints = 3
    here = here
    there = there
    k1 = k1
    k2 = k2
    k3 = k3
    v1 = v1
    v2 = v2
    World = World
    None = None
    Waters <- TwoWaters
    Conds <- ThreeConds
    MaxAlerts = 2
    MaxVisible = 1
    MaxIds = 3
    AlertSeq = 4
    MaxOpens = 2
    Vessels <- TwoVessels
    Restarts = TRUE
    MaxMail = 2
    TableSeq = 5
INVARIANTS
    TypeOK
    RestStopsCoast
    WindowIsTrue
PROPERTIES
    StrokeIsAnsweredOnce
    SeenAndHeard
CHECK_DEADLOCK FALSE
