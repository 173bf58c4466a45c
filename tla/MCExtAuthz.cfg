SPECIFICATION FairSpec
CONSTANTS
    Token = {k1}
    Entry <- AllPlans
    NoRow = NoRow
    BadRow = BadRow
    NotLoaded = NotLoaded
    MaxEdits = 2
    Worker = {w1}
    None = None
    AsUser = AsUser
    Padding = {FALSE, TRUE}
    EnableUserLimiter = TRUE
    EnableTokenRateLimiter = TRUE
INVARIANTS
    TypeOK
    AnswerIsJustified
    CountedAsDue
    UncountedForAReason
    AnswersComeFromTheTable
PROPERTIES
    RevokedKeysAreRefused
