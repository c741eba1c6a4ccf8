SPECIFICATION Spec
CONSTANTS
    TickModulus = 16
    Generations = {g1, g2}
    Unset = Unset
    Never = Never
    Streams = {1}
    Resources = {r1}
    ResourceOf <- OnOneResource
    Kinds = {0}
    Severities = {1}
    Policies <- WideAndNarrow
    NoPolicy = NoPolicy
    Epochs = {1, 2}
    Incarnations = {i1, i2}
    Boots = {}
    MaxStreams = 1
    Horizon = 3
    MaxLate = 0
    MaxPolicyGeneration = 4
INVARIANTS
    AuthoritySound
    MandateRequired
    EpisodesAccounted
PROPERTIES
    IdentityIssuedOnce
CHECK_DEADLOCK FALSE
SYMMETRY IdentitySymmetry
