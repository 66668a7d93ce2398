SPECIFICATION Spec
CONSTANTS
    Capacity = 2
    RetryCount = 2
    Intervals = {0, 1}
    MaxInterval = 1
    HalfStep = 0
    FullStep = 1
    RetryGap = 1
    MaxAcks = 2
    MaxReports = 3
    MaxLinks = 1
    Direct = TRUE
    PromptAcks = TRUE
    LossySpi = FALSE
    ClockWraps = FALSE
INVARIANT NotForgotten
