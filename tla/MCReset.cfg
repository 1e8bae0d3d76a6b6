SPECIFICATION LoopSpec
CONSTANTS
    Fds = {f1, f2}
    ServerFd = ServerFd
    MaxOpened = 1
    MaxSent = 1
CHECK_DEADLOCK FALSE
INVARIANTS
    SurvivesItsClients
