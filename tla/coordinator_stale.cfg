SPECIFICATION Spec
CONSTANTS
    Connections = {c1, c2}
    Workers = {w1}
    NoWorker = NoWorker
    NoConnection = NoConnection
    MaxWorkers = 2
    MaxEpoch = 1
    MaxLives = 1
INVARIANT ServedIsConnected
CHECK_DEADLOCK FALSE
SYMMETRY PeerSymmetry
