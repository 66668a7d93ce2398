SPECIFICATION KeySpec
CONSTANTS
    BtHosts = {1, 2}
    P24G_INDEX = 24
    LastHost = 30
    Capacity = 2
    Repeats = 1
    MaxFrames = 2
    MaxResets = 1
INVARIANTS
    Agreement
    LedsOfThisHost
    SilentOnUsb
    HostOfTransport
    SilentWhenCritical
PROPERTY
    PairsSlotOfKey
