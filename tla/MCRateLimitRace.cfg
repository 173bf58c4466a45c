SPECIFICATION Spec
CONSTANTS
    Worker = {w1, w2}
    Token = {k1}
    User = {u1}
    Limit = {1}
    UserLimit = 1
    MaxHits = 2
    None = None
    Several = Several
INVARIANTS
    ExceededMeans429
