SPECIFICATION Spec
INVARIANT ClockKeepsSyncing
CHECK_DEADLOCK FALSE
