SPECIFICATION Spec
CONSTANTS
    Chats = {c1, c2}
    Users = {u1, u2}
    Pages = {u2}
    Characters = {x1}
    Creator = u1
    Admins = {}
    Groups <- MC_Groups
    u1 = u1
    u2 = u2
    x1 = x1
    FirstKeys <- MC_FirstKeys
    Tasks = {t1, t2}
    NoChat = NoChat
    NoActor = NoActor
    NoKey = NoKey
    MaxPosts = 1
    MaxChanges = 1
SYMMETRY Symmetry
CHECK_DEADLOCK FALSE
INVARIANT MemberCanPost
INVARIANT ForeignKeyOnlyAfterSwitch
