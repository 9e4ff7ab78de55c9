SPECIFICATION QueueSpec
CONSTANTS
    Sessions = {s1}
    Providers <- TwoProviders
    Rank <- MCRank
    Background <- JustStrong
    Removable = {}
    Tokens = {t1, t2}
    MaxVersion = 2
    Trivial = 1
    MaxAttempts = 2
    BatchSize = 1
    Gaps = {}
    NoToken = NoToken
    NoOne = NoOne
    Janitor = Janitor
    strong = strong
    weak = weak
    weakest = weakest
    Keys = {k1}
    KeyCalls = {c1, c2}
    TouchInterval = 2
    KeyMaxTime = 4
INVARIANT TypeOK
INVARIANT NoLostActivity
PROPERTY QueueSettles
PROPERTY RevokedForGood
