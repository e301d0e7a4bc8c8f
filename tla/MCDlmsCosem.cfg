SPECIFICATION SafeSpec
CONSTANTS
    hub_1 = hub_1
    hub_2 = hub_2
    bus_1 = bus_1
    Self <- MCSelf
    Uarts <- MCUarts
    parent_ <- MCParent
    Others <- MCNone
    sensors_ <- MCSensors
    auth_required_ = TRUE
    delay_between_requests_ms_ = 50
    failures_before_reboot_ = 2
    UnknownObjects <- MCNone
    MakerCanFail = FALSE
    LateReplies = TRUE
    MaxPasses = 2
    MaxParts = 1
    MaxOwed = 2
    MaxUart = 1
INVARIANTS
    TypeOK
    AskedOnceInOrder
    EveryObjectAsked
    SessionShown
PROPERTIES
    OwnReadingsOnly
    ImplementsFrames
