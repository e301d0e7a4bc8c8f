SPECIFICATION Spec
CONSTANTS
    sensors_ <- MCSensors
    receive_timeout_ms_ = 5
    Size = 3
    Objects <- MCObjects
    MillisModulus = 11
    LoopGap = 2
    MinRead = 2
    MinGap = 15
    MaxUart = 3
    MaxTelegrams = 6
INVARIANTS
    TypeOK
    NoReadingKept
    ShownTogether
    TelegramsPublished
PROPERTIES
    ListensAgain
