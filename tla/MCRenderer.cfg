SPECIFICATION FairSpec
CONSTANTS
    Worker = {w1, w2}
    ChromePoolSize = 1
    MaxRestarts = 3
    None = None
    Document = {invoice, poster}
    Oversize = {poster}
    MaxRequests = 2
INVARIANTS
    SinglePool
    OneRestartPerRequest
    RetryAvoidsFailedBrowser
    AnsweredMeansReleased
    CacheHoldsGoodPDFs
PROPERTIES
    ImplementsPool
    EveryRequestAnswered
