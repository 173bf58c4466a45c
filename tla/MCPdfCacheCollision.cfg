SPECIFICATION Spec
CONSTANTS
    A4 = A4
    Letter = Letter
    invoice = invoice
    page = page
    site = site
    diagonal = diagonal
    Word <- Words
    PaperSizes <- Sizes
    DefaultPaper = A4
    Portrait = Portrait
    Landscape = Landscape
    Empty = Empty
    NaN = NaN
    URL <- Web
    MinHTML = 1
    MaxHTML = 2
    Worker = {w1, w2}
    Form <- Documents
    None = None
    TTL = 0
    Minute = 1
    Timeout = 1
    MaxTime = 4
SYMMETRY WorkerSymmetry
INVARIANTS
    CachedCopyIsOfTheRequest
