SPECIFICATION WorkspaceSpec
CONSTANTS
    Conns = {c1, c2}
    UserIds = {u1}
    Names = {n1, n2}
    TeamIds = {t1}
    ChannelIds = {h1}
    ThreadIds = {r1}
    Subjects = {u1, t1, h1, r1}
    MaxReplies = 1
    MaxContent = 2
    None = None
    Invalid = Invalid
SYMMETRY MCSymmetry
VIEW MCView
PROPERTIES
    FreshLoginHasNoContext
