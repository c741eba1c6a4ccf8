SPECIFICATION Spec
CONSTANTS
    Episodes = {e1, e2}
    Policies = {p1, p2}
    Default = p1
    JournalLimit = 2
    Interventions = FALSE
    WritesMayFail = FALSE
    MaxSeq = 4
    MaxLives = 2
INVARIANT Durable
CHECK_DEADLOCK FALSE
SYMMETRY EpisodeSymmetry
