SPECIFICATION SessionSpec
CONSTANTS
    None = None
    a1 = a1
    k1 = k1
    u1 = u1
    c1 = c1
    n1 = n1
    c2 = c2
    n2 = n2
    Conns = {s1, s2}
    Accounts = {a1}
    Codes = {u1}
    Keys = {k1}
    RegionSession <- SoloSession
    Consume = FALSE
    WorldID = 1
    Characters = {c1, c2}
    Names = {n1, n2}
    Options = {0}
    DefaultOptions = 0
    MaxSlots = 2
    Slots <- MCSlots
    StoredAccounts <- SoloAccounts
    StoredRoster <- SoloRoster
    Entrants <- MCEntrants
    Poses = {home}
    SpawnPose = home
    Capacity = 2
    RawTokens = {0, 2}
    Requests <- WorldRequests
INVARIANT InWorldWhenComplete
CHECK_DEADLOCK FALSE
