SPECIFICATION BusSpec
CHECK_DEADLOCK FALSE
CONSTANTS
    h1 = h1
    h2 = h2
    h3 = h3
    h4 = h4
    p1 = p1
    p2 = p2
    bus_1 = bus_1
    bus_2 = bus_2
    bus_3 = bus_3
    Hubs <- MCHubs
    PushHubs <- MCPushHubs
    Uarts <- MCUarts
    parent_ <- MCParent
    MakerCanFail = TRUE
INVARIANTS
    BusTypeOK
    MutualExclusion
    HeldIsLocked
    LockedIsHeld
PROPERTIES
    UartServed
