SPECIFICATION FairSpec
INVARIANTS
    TypeOK
    PollsNeedStore
    PostsNeedSession
    ExitIsClean
PROPERTY StopEnds
\* The process ends.
CHECK_DEADLOCK FALSE
