SPECIFICATION SweepSpec
CONSTANTS
    Sessions = {s1}
    Providers <- ThreeProviders
    Rank <- MCRank
    Background <- ThreeProviders
    Removable <- JustWeak
    Tokens = {t1, t2}
    MaxVersion = 1
    Trivial = 0
    MaxAttempts = 1
    BatchSize = 1
    Gaps <- Sweep
    NoToken = NoToken
    NoOne = NoOne
    Janitor = Janitor
    strong = strong
    weak = weak
    weakest = weakest
    Makers <- TwoProviders
    Weakness <- MCWeakness
    Runs = {t1, t2}
    MaxSegments = 2
    MaxLength = 2
    GroupLength = 2
    MaxStages = 2
    MaxRuns = 2
    NoCheckpoint = NoCheckpoint
INVARIANT HiddenStaysHidden
PROPERTY RefineNeverWeakens
PROPERTY RunsResume
SYMMETRY Symmetry
