SPECIFICATION ConnFairSpec
CONSTANTS
    BtHosts = {1}
    P24G_INDEX = 24
    LastHost = 30
    Capacity = 2
    Repeats = 1
    MaxFrames = 1
    MaxResets = 1
    Aspects = {"connection", "indication"}
    SettingHosts = {1, 24}
    IndFrames = 0
    IndResets = 0
PROPERTIES
    KeepsConnecting
    IndicationEnds
