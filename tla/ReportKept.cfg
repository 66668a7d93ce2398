SPECIFICATION FairSpec
CONSTANTS
    Capacity = 2
    RetryCount = 2
    Intervals = {0, 1}
    MaxInterval = 1
    HalfStep = 0
    FullStep = 1
    RetryGap = 1
    MaxAcks = 2
    MaxReports = 3
    MaxLinks = 1
    Direct = FALSE
    PromptAcks = TRUE
    LossySpi = TRUE
    ClockWraps = TRUE
INVARIANT NotForgotten
PROPERTY QueueDrains
