SPECIFICATION Spec
CONSTANTS
    Bind = {b1}
    Close = {}
    Request = {r1}
    Streaming = {r1}
    None = none
INVARIANTS DisconnectCancels
CHECK_DEADLOCK FALSE
