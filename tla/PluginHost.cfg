SPECIFICATION FairSpec

CONSTANTS
    Plugins <- OnePlugin
    Attempts = 1
    MaxFaults = 2
    MaxEvents = 1
    MaxConfigs = 1
    NoPlugin = NoPlugin
    gps = gps

CONSTRAINT OneInput
INVARIANTS
    TypeOK
    AttemptsBounded
    NothingAfterFree
    DispatchIsSound
PROPERTIES
    PluginRecovers
