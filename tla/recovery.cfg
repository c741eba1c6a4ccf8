SPECIFICATION Spec
CONSTANTS
    Episodes = {e1, e2}
    Policies = {p1, p2}
    Default = p1
    JournalLimit = 2
    Interventions = TRUE
    WritesMayFail = TRUE
    MaxSeq = 3
    MaxLives = 2
INVARIANTS
    TypeOK
    AcknowledgedIsRead
    Recoverable
CHECK_DEADLOCK FALSE
SYMMETRY EpisodeSymmetry
