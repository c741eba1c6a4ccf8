SPECIFICATION FairSpec
CONSTANTS
    Connections = {c1, c2}
    Workers = {w1, w2}
    NoWorker = NoWorker
    NoConnection = NoConnection
    MaxWorkers = 1
    MaxEpoch = 2
    MaxLives = 2
INVARIANTS
    TypeOK
    SessionsAccounted
    StoppedIsQuiet
    ConnectedHasSession
    NothingInherited
PROPERTIES
    StopReturns
    LossEndsSession
CHECK_DEADLOCK FALSE
