CONSTANTS
    MinutesPerHour = 2
    SpringForward = 644
    FallBack = 978
    Start = 400
    End = 1096
    RunEnds = {731, 733, 745, 746, 747, 748, 749, 1069, 1071, 1083, 1084, 1085, 1086, 1087}
    MaxRuns = 1
    PollInterval = 1
    PollTimeout = 1
    MaxError = 1
    MaxEvents = 2
SPECIFICATION SSpec
INVARIANTS
    TypeOK
    ResetIsLatestTuesday
    NothingMissed
    AtMostOffsetEarly
    LostOnlyAtReset
    CalmDayAnnounced
PROPERTIES
    RepeatedOnlyAfterSetBack
    AnnouncesInOrder
