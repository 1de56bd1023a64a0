SPECIFICATION Spec
CONSTANTS
    Bind = {b1, b2}
    Close = {c1}
    Request = {r1}
    Streaming = {}
    None = none
INVARIANTS ShutdownCancels
CHECK_DEADLOCK FALSE
