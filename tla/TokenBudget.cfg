SPECIFICATION Spec
CONSTANTS
    Artifact <- Artifacts
    DefaultContext = 6
    Requested = {0, 5}
    Unset = unset
    MessageTokens = {1, 2}
    OutputTokens = {1, 2}
    Reserve = {0, 1}
    Bos = 1
    CountLimit = 7
INVARIANTS ContextHolds RequiredIsWhole MetricsAddUp
CHECK_DEADLOCK FALSE
