SPECIFICATION WorkspaceSpec
CONSTANTS
    Conns = {c1, c2}
    UserIds = {u1, u2}
    Names = {n1, n2}
    TeamIds = {t1, t2}
    ChannelIds = {h1, h2}
    ThreadIds = {r1, r2}
    Subjects = {u1, u2, t1, t2, h1, h2, r1, r2}
    MaxReplies = 1
    MaxContent = 3
    None = None
    Invalid = Invalid
SYMMETRY MCSymmetry
VIEW MCView
CONSTRAINT MCBound
INVARIANTS
    WorkspaceTypeOK
    ContextWellFormed
    NamesUniqueInScope
PROPERTIES
    ContentStaysInTeam
    OnlyMembersWrite
    EventsReachSubscribers
    UseAllOrNothing
