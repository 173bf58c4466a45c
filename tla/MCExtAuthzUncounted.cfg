SPECIFICATION Spec
CONSTANTS
    Token = {k1}
    Entry <- Plans
    NoRow = NoRow
    BadRow = BadRow
    NotLoaded = NotLoaded
    MaxEdits = 1
    Worker = {w1}
    None = None
    AsUser = AsUser
    Padding = {FALSE}
    EnableUserLimiter = TRUE
    EnableTokenRateLimiter = TRUE
INVARIANTS
    LimitedKeysAreCounted
