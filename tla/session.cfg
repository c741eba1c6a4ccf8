SPECIFICATION FairSpec
CONSTANTS
    MaxConnections = 2
    MaxSessions = 1
    MaxEpoch = 2
    MaxFrames = 4
    MaxDamage = 1
INVARIANTS
    TypeOK
    AckNamesBatch
    NoLateEvidence
    ServedIsNotFenced
PROPERTIES
    CallReturns
CHECK_DEADLOCK FALSE
