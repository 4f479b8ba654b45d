SPECIFICATION FairSpec
CONSTANTS
    NoConn = NoConn
    Conns = {c1}
    MaxQueued = 4
    PauseAt = 2
    MaxUnread = 2
    MaxOut = 2
    MaxRoom = 1
INVARIANTS
    TypeOK
    ConnectionIsSound
    SocketEventsBounded
PROPERTIES
    AskedIsDone
