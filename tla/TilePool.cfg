SPECIFICATION PoolFairSpec
CONSTANTS
    NoTile = NoTile
    Tiles = {t1, t2}
    Slots = {w1, w2, w3}
    Want = 2
    IdleLimit = 1
    MaxAsks = 3
    MaxSpawnFails = 1
INVARIANTS
    PoolTypeOK
    PoolAddsUp
PROPERTIES
    WorkEnds
