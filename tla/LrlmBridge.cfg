SPECIFICATION Spec
CONSTANTS
    MaxId = 1
    Thread = {t1, t2}
    MaxEvents = 4
    MaxBytes = 4
    MessageSize = 3
    TextSize = {1, 2, 5}
    ErrorSize = {2, 5}
    MaxTexts = 5
INVARIANTS WithinBounds OneTerminal BytesExact EventsAccounted
PROPERTIES FreshId KeepsPromise
CHECK_DEADLOCK FALSE
