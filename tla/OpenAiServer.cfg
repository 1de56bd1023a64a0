SPECIFICATION FairSpec
CONSTANTS
    Bind = {b1, b2}
    Close = {c1}
    Request = {r1, r2}
    Streaming = {r1}
    None = none
INVARIANTS CloseMeansQuiet CloseCancels
PROPERTIES CloseCompletes
CHECK_DEADLOCK FALSE
