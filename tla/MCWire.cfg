SPECIFICATION WireSpec
CONSTANTS
    MaxName = 3
    MaxUuid = 2
    MaxBody = 3
    MaxLines = 2
    MaxChars = 5
    EventChars = 4
    MaxRead = 2
    MaxTail = 5
    Lines <- MCLines
INVARIANTS
    WireTypeOK
    ArgumentsArriveAsChecked
    MissingQuoteIsError
    ShownAsMeant
PROPERTIES
    AnswersAreShown
CHECK_DEADLOCK FALSE
