SPECIFICATION SessionSpec
CONSTANTS
    None = None
    a1 = a1
    a2 = a2
    k1 = k1
    k2 = k2
    k3 = k3
    k4 = k4
    u1 = u1
    u2 = u2
    Conns = {s1, s2}
    Accounts = {a1, a2}
    Codes = {u1, u2}
    Keys = {k1, k2, k3, k4}
    RegionSession <- LobbySession
    Consume = TRUE
    WorldID = 1
    Characters = {c1, c2, c3}
    Names = {n1, n2, n3}
    Options = {0}
    DefaultOptions = 0
    MaxSlots = 2
    Slots <- MCSlots
    StoredAccounts <- NoAccounts
    StoredRoster <- NoRoster
    Entrants <- MCEntrants
    Poses = {home}
    SpawnPose = home
    Capacity = 1
    RawTokens = {0}
    Requests <- RaceRequests
INVARIANT SessionTypeOK
INVARIANT AccountBeforeCharacters
INVARIANT RosterSound
INVARIANT OneConnectionPerKey
INVARIANT PlayersOwned
INVARIANT ClosedHasLeft
PROPERTY RosterSpec
SYMMETRY Symmetry
CHECK_DEADLOCK FALSE
