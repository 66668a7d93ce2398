SPECIFICATION Spec
CONSTANTS
    Capacity = 3
    RetryCount = 2
    Intervals = {0, 1}
    MaxInterval = 1
    HalfStep = 0
    FullStep = 1
    RetryGap = 1
    MaxAcks = 2
    MaxReports = 4
    MaxLinks = 1
    Direct = FALSE
    PromptAcks = TRUE
    LossySpi = FALSE
    ClockWraps = FALSE
PROPERTY MacroFits
