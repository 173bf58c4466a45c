SPECIFICATION FairSpec
CONSTANTS
    Token = {k1, k2}
    Entry = {basic, opsAllowed}
    NoRow = NoRow
    BadRow = BadRow
    NotLoaded = NotLoaded
    MaxEdits = 3
INVARIANTS
    CacheIsSnapshot
PROPERTIES
    CacheNeverGoesBack
    RevocationTakesEffect
