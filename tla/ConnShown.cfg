SPECIFICATION ConnSpec
CONSTANTS
    BtHosts = {1, 2}
    P24G_INDEX = 24
    LastHost = 30
    Capacity = 2
    Repeats = 1
    MaxFrames = 1
    MaxResets = 1
    Aspects = {"setting", "indication"}
    SettingHosts = {1, 24}
    IndFrames = 1
    IndResets = 1
INVARIANTS
    UsbSettingKept
    ShowsConnection
PROPERTY
    ConnectionIsShown
