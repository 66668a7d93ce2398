SPECIFICATION FairSpec
CONSTANTS
    Key = {"a", "b"}
    DEBOUNCE = 4
    UINT8_MAX = 6
    KeyCodes = {"FN", "J", "Z", "BL_CYCLE", "BL_TRIG", "SIRI", "LCMMD", "TASK"}
    Hands <- MCHands
    ResetTicks = 8
    SiriTicks = 2
    TestModes = {255}
INVARIANTS
    NothingForgotten
    OnlyJAndZStuck
PROPERTIES
    IsEager
    StableIsActedOn
    HeldLongEnough
