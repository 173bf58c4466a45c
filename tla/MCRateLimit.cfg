SPECIFICATION FairSpec
CONSTANTS
    Worker = {w1, w2}
    Token = {k1}
    User = {u1}
    Limit = {1, 2}
    UserLimit = 1
    MaxHits = 2
    None = None
    Several = Several
INVARIANTS
    TypeOK
    OneLimiterKeepsTheLimit
PROPERTIES
    LimiterSettles
    UsersAreCountedAtOnce
    RequestsAreDecided
