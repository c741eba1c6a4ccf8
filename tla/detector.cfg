SPECIFICATION Spec
CONSTANTS
    TickModulus = 14
    Policies <- BothPolicies
    Generations = {g1, g2}
    NoGeneration = NoGeneration
    StartTick = 0
    Horizon = 5
    MaxStep = 2
    MaxLate = 0
INVARIANTS
    TypeOK
    SustainIsElapsed
    OpenEpisodeBounded
PROPERTIES
    CooldownHonoured
    PositiveIsJustified
    KeepsProtocol
CHECK_DEADLOCK FALSE
SYMMETRY GenerationSymmetry
