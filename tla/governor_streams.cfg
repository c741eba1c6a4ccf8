SPECIFICATION Spec
CONSTANTS
    TickModulus = 16
    Generations = {g1}
    Unset = Unset
    Never = Never
    Streams = {1, 2}
    Resources = {r1}
    ResourceOf <- OnOneResource
    Kinds = {0, 1}
    Severities = {1, 2}
    Policies <- WideAndNarrow
    NoPolicy = NoPolicy
    Epochs = {1}
    Incarnations = {}
    Boots = {}
    MaxStreams = 2
    Horizon = 3
    MaxLate = 1
    MaxPolicyGeneration = 2
INVARIANTS
    TypeOK
    ConcurrencyBounded
    OneIntentPerKind
    ExpiryBounded
    DecisionProcessedOnce
CHECK_DEADLOCK FALSE
