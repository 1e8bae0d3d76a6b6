SPECIFICATION ClientSpec
CONSTANTS
    Typed = {"/login", "/logout", "/subscribed", "/help"}
    MaxAddresses = 2
    MaxTyped = 3
    MaxEvents = 1
    MaxItems = 2
CHECK_DEADLOCK FALSE
INVARIANTS
    ClientTypeOK
    ListLinesKeepTheirKind
    LoginIsNoticed
PROPERTIES
    CommandsGetOut
    ServerGoneEndsClient
