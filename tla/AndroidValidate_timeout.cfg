SPECIFICATION Spec
CONSTANTS
    Phase = {"cold_engine"}
    Position = {5}
    Media = {"image", "audio"}
    Broken = broken
    Run <- TwoRuns
    File = {"model", "image"}
    v1 = v1
    v2 = v2
    Version = {v1, v2}
    OnHost <- Contents
    Pinned = v1
    Cut = cut
    None = none
    Harness <- Reports
    Unsure = {}
    MaxSamples = 1
    MaxInterrupts = 1
INVARIANTS TimeoutIsFailure
CHECK_DEADLOCK FALSE
