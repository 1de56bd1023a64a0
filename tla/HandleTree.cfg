SPECIFICATION FairSpec
CONSTANTS
    Client = client
    Engine = {e1, e2}
    Session = {s1, s2}
INVARIANTS HandlesSafe DisposeMeansGone
PROPERTIES DisposeCompletes
CHECK_DEADLOCK FALSE
