SPECIFICATION LeaseSpec
CONSTANTS
    Sessions = {s1}
    Providers <- TwoProviders
    Rank <- MCRank
    Background <- JustStrong
    Removable = {}
    Tokens = {t1, t2}
    MaxVersion = 2
    Trivial = 0
    MaxAttempts = 1
    BatchSize = 1
    Gaps <- Absorb
    NoToken = NoToken
    NoOne = NoOne
    Janitor = Janitor
    strong = strong
    weak = weak
    weakest = weakest
    a = a
    b = b
    Topics = {a, b}
    Logs = {n1}
    PartOf <- MCPartOf
    PageTokens = {t1, t2}
    MinNewLogs = 1
    MaxChanges = 2
    NoPage = NoPage
    Tokenless = Tokenless
    PromptTexts = {"old", "new"}
    MaxPrompts = 3
    PromptRequests = {t1, t2}
    MaxActivations = 2
    NoPrompt = NoPrompt
    MaxPieces = 3
    Block = 1
    MinChars = 1
    MaxStops = 2
    MaxImports = 1
INVARIANT DoneIsComplete
PROPERTY NoteNeverRegresses
PROPERTY ImplementsLease
PROPERTY StageInOrder
PROPERTY ImportBesideHook
SYMMETRY Symmetry
