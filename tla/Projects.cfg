SPECIFICATION ProjectsSpec
CONSTANTS
    g1 = g1
    g2 = g2
    g3 = g3
    Slugs = {a, b, c}
    Ids = {l1, l2}
    Loops = FALSE
    Gaps <- Check
    MaxOpen = 1
    MaxWriters = 1
    NoLink = NoLink
    Unmerged = Unmerged
    x = x
    y = y
    Words = {x, y}
    Synced <- MCSynced
    Workers = {v, w}
    NoWorker = NoWorker
    NoMerge = NoMerge
    NeverRead = NeverRead
    Gone = Gone
    MaxMerges = 2
    MaxSyncs = 1
    Foci <- PairsOrNone
    Projects = {g1, g2, g3}
    Requests = {1, 2}
    Copies = {1, 2, 3}
    MaxCommands = 2
    NoProject = NoProject
    Shelves <- MCShelves
    Titles = {t}
    Memories = FALSE
    FirstFiles <- MCFirstFiles
    MaxKills = 1
INVARIANT NoSelfLinks
INVARIANT DocumentsKept
INVARIANT MergesLoseNothing
INVARIANT ResetIsSafe
PROPERTY MergeReplacesWhatItRead
PROPERTY NotesInPlace
SYMMETRY Interchangeable
