SPECIFICATION FairSpec
CONSTANTS
    Worker = {w1, w2, w3}
    ChromePoolSize = 2
    MaxRestarts = 3
    None = None
INVARIANTS
    CapacityConserved
    OneLiveBrowser
    LiveBrowserHasProfile
    NoProfileLeak
PROPERTIES
    NoStartAfterClose
    ImplementsSlots
    CallsReturn
    CloseCompletes
