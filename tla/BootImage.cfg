SPECIFICATION Spec
CONSTANTS
    MaxVersion = 1
    MaxInterrupts = 1
    MaxFaults = 1
    MaxRefusals = 1
    Standalone = TRUE
INVARIANTS
    TypeOK
    ImageFaithful
    CompleteIsCurrent
    LoopsAccounted
PROPERTIES
    ImageEventually
