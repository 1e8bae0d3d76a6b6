SPECIFICATION WorkspaceSpec
CONSTANTS
    Conns = {c1}
    UserIds = {u1}
    Names = {n1}
    TeamIds = {t1}
    ChannelIds = {h1}
    ThreadIds = {r1}
    Subjects = {u1, t1, h1, r1}
    MaxReplies = 1
    MaxContent = 2
    None = None
    Invalid = Invalid
PROPERTIES
    UseAnswersOnce
