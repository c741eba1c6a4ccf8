SPECIFICATION Spec
CONSTANTS
    TickModulus = 14
    Capacity = 3
    ReorderTolerance = 2
    MaxSampleGap = 3
    NominalInterval = 2
    BufferSizes = {1, 2}
INVARIANTS
    TypeOK
    EvidenceAdvances
    GapBoundsSpan
    GapForgotten
    CadenceIsComplete
PROPERTIES
    RingIsBoundedLog
