SPECIFICATION SafeSpec
CONSTANTS
    hub_1 = hub_1
    hub_2 = hub_2
    bus_1 = bus_1
    Self <- MCSelf
    Uarts <- MCUarts
    parent_ <- MCParent
    Others <- MCOthers
    sensors_ <- MCRegister
    auth_required_ = FALSE
    delay_between_requests_ms_ = 0
    failures_before_reboot_ = 1
    UnknownObjects <- MCNone
    MakerCanFail = TRUE
    LateReplies = FALSE
    MaxPasses = 1
    MaxParts = 0
    MaxOwed = 1
    MaxUart = 1
INVARIANTS
    NoLockLeft
