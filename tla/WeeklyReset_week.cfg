CONSTANTS
    MinutesPerHour = 1
    SpringForward = 322
    FallBack = 489
    Start = 200
    End = 548
    RunEnds = {366, 367, 370, 373, 374, 375, 535, 536, 540, 543, 544}
    MaxRuns = 1
    PollInterval = 1
    PollTimeout = 1
    MaxError = 0
SPECIFICATION Spec
INVARIANT OnlyThisWeek
