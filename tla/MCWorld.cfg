SPECIFICATION FairWorldSpec
CONSTANTS
    Characters = {c1, c2}
    Entrants = {e1}
    Poses = {home, field}
    None = None
    Capacity = 3
INVARIANT WorldTypeOK
PROPERTY ActsWhenCalled
PROPERTY PresenceSpec
PROPERTY JoinTakesEffect
