SPECIFICATION ClientSpec
CONSTANTS
    Typed = {"/login", "/help"}
    MaxAddresses = 1
    MaxTyped = 2
    MaxEvents = 0
    MaxItems = 1
CHECK_DEADLOCK FALSE
PROPERTIES
    TypedLinesHandled
