SPECIFICATION FairSpec
CONSTANTS
    Stream = {s1}
    Request = {r1}
    Close = close
    MaxTokens = 2
    MaxInbox = 2
INVARIANTS NobodyWaits CancelMeansCleaned NoTextDropped NeverStarved
PROPERTIES CallersAnswered
CHECK_DEADLOCK FALSE
