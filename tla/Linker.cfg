CONSTANTS
    first = first
    twin = twin
    later = later
    other = other
    None = None
    Keys = {first, twin, later, other}
    Kind <- MCKind
    Ended <- MCEnded
    Took <- MCTook
    Stated <- MCStated
    Windows <- MCWindows
    MaxSkew = 1
    Limit = 2
SPECIFICATION Spec
INVARIANT TypeOK
PROPERTIES
    TimedLogLosesOnlyToNearer
    OwnLogLosesOnlyToTwin
\* In the end every log is up and every key linked.
CHECK_DEADLOCK FALSE
