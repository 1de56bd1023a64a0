SPECIFICATION Spec
CONSTANTS
    MaxSession = 1
    MaxEngine = 1
    MaxStream = 3
    MaxId = 3
    Conversation = {TRUE, FALSE}
    Configured = {TRUE}
    MaxEvents = 2
    MaxBytes = 3
    MessageSize = 1
    TextSize = {1, 4}
    ErrorSize = {1}
    MaxTexts = 1
INVARIANTS NoUseAfterDelete TablesAgree CancelledNeverComplete HistoryIsCompletedTurns NoOrphanedProducer
CHECK_DEADLOCK FALSE
