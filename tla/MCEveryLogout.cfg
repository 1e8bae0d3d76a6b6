SPECIFICATION PresenceSpec
CONSTANTS
    Conns = {c1, c2}
    UserIds = {u1}
    Names = {n1}
    Subjects = {u1}
    Given = Given
    MaxSent = 1
    None = None
    Invalid = Invalid
PROPERTIES
    EveryLogoutIsAnnounced
