SPECIFICATION WireSpec
CONSTANTS
    MaxName = 3
    MaxUuid = 2
    MaxBody = 3
    MaxLines = 2
    MaxChars = 5
    EventChars = 4
    MaxRead = 2
    MaxTail = 2
    Lines <- MCLines
INVARIANT
    AnswersMeetTheirCommand
CHECK_DEADLOCK FALSE
