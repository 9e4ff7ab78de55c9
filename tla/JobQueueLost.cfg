SPECIFICATION Spec
CONSTANTS
    Sessions = {s1}
    Providers <- TwoProviders
    Rank <- MCRank
    Background <- JustStrong
    Removable = {}
    Tokens = {t1, t2}
    MaxVersion = 2
    Trivial = 0
    MaxAttempts = 2
    BatchSize = 1
    Gaps <- Absorb
    NoToken = NoToken
    NoOne = NoOne
    Janitor = Janitor
    strong = strong
    weak = weak
    weakest = weakest
INVARIANT NoLostActivity
SYMMETRY Symmetry
