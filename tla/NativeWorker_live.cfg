SPECIFICATION FairSpec
CONSTANTS
    MaxSession = 2
    MaxEngine = 1
    MaxStream = 2
    MaxId = 1
    Conversation = {TRUE}
    Configured = {FALSE}
    MaxEvents = 2
    MaxBytes = 3
    MessageSize = 1
    TextSize = {1}
    ErrorSize = {1}
    MaxTexts = 2
INVARIANTS CompleteMeansAll CleanExit
PROPERTIES StreamEnds HandlersEnd
CHECK_DEADLOCK FALSE
