SPECIFICATION PresenceSpec
CONSTANTS
    Conns = {c1, c2, c3}
    UserIds = {u1, u2}
    Names = {n1, n2}
    Subjects = {u1, u2}
    Given = Given
    MaxSent = 2
    None = None
    Invalid = Invalid
SYMMETRY MCSymmetry
INVARIANTS
    SessionsTypeOK
    CountIsSessions
    SessionsAreRegistered
    UserNamesUnique
    ToldIsTrue
    PrivateMessagesTypeOK
    MailboxesMirror
    ConversationsInOrder
PROPERTIES
    SessionNeverChangesHands
    ImplementsService
    EventReachesEverySession
    ImplementsMail
