SPECIFICATION Spec
CONSTANTS
    r1 = r1
    r2 = r2
    r3 = r3
    p1 = p1
    p2 = p2
    None = None
    Resources = {r1, r2, r3}
    Policies = {p1, p2}
    Configured = p1
    MaxOverrides = 2
    MaxGeneration = 5
    MaxInterventions = 2
    MaxJournal = 2
    MaxIssued = 3
    MaxLives = 3
INVARIANTS
    TypeOK
    DetectsUnderPolicy
PROPERTIES
    PoliciesAreBook
    RestartFencesLive
SYMMETRY MCSymmetry
CHECK_DEADLOCK FALSE
