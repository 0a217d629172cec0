CONSTANTS
    Writes = {w1, w2}
    Callbacks = {c1, c2}
    LateWriters = FALSE
SPECIFICATION Spec
INVARIANT GracefulShutdownPersists
