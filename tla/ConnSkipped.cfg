SPECIFICATION Spec
CONSTANTS
    BtHosts = {1}
    P24G_INDEX = 24
    LastHost = 30
    Capacity = 2
    Repeats = 0
    MaxFrames = 1
    MaxResets = 0
PROPERTY
    SwitchReconnects
