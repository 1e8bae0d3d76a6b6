SPECIFICATION LoopSpec
CONSTANTS
    Fds = {f1, f2}
    ServerFd = ServerFd
    MaxOpened = 3
    MaxSent = 1
CHECK_DEADLOCK FALSE
INVARIANTS
    LoopTypeOK
    EventsMeetTheirClient
    PollerMatchesTable
    WritersArePolled
PROPERTIES
    SignalLeadsToSave
    WritesDrain
    GoneClientsLeave
