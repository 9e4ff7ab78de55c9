SPECIFICATION FairSpec
CONSTANTS
    Sessions = {s1}
    Providers <- TwoProviders
    Rank <- MCRank
    Background <- JustStrong
    Removable <- JustWeak
    Tokens = {t1, t2}
    MaxVersion = 1
    Trivial = 0
    MaxAttempts = 2
    BatchSize = 1
    Gaps = {}
    NoToken = NoToken
    NoOne = NoOne
    Janitor = Janitor
    strong = strong
    weak = weak
    weakest = weakest
PROPERTY PendingDrains
