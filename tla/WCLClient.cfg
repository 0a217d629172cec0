CONSTANTS
    Callers = {"poller", "worker", "handler"}
    Timeout = 2
    Margin = 2
    Lifetimes = {3, 5}
    Default = 4
SPECIFICATION FairSpec
INVARIANTS
    TypeOK
    QueriedTokenIsValid
PROPERTIES
    UsableTokenKept
    CallEnds
    DeadTokenReplaced
