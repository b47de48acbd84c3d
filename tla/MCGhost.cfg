SPECIFICATION SessionSpec
CONSTANTS
    None = None
    a1 = a1
    a2 = a2
    k1 = k1
    k2 = k2
    u1 = u1
    u2 = u2
    c1 = c1
    c2 = c2
    c3 = c3
    n1 = n1
    n2 = n2
    n3 = n3
    Conns = {s1, s2}
    Accounts = {a1, a2}
    Codes = {u1, u2}
    Keys = {k1, k2}
    RegionSession <- EntrySession
    Consume = FALSE
    WorldID = 1
    Characters = {c1, c2, c3}
    Names = {n1, n2, n3}
    Options = {0}
    DefaultOptions = 0
    MaxSlots = 2
    Slots <- MCSlots
    StoredAccounts <- EntryAccounts
    StoredRoster <- EntryRoster
    Entrants <- MCEntrants
    Poses = {home}
    SpawnPose = home
    Capacity = 2
    RawTokens = {0}
    Requests <- WorldRequests
INVARIANT NoGhost
CHECK_DEADLOCK FALSE
