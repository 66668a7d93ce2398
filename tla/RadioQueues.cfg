SPECIFICATION Spec
CONSTANTS
    EventSize = 4
    Event = {e1, e2, e3}
    NoEvent = no_event
    ReportSize = 4
    Report = {r1, r2, r3}
    NoReport = no_report
    BUFFER_SIZE = 64
    Headers <- MCHeaders
INVARIANTS
    PendingAreEvents
    WaitingAreReports
    HandledWasRead
    StoppedByLengthOnly
PROPERTIES
    ImplementsEventFifo
    ImplementsReportFifo
