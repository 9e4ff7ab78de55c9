SPECIFICATION LinksSpec
CONSTANTS
    Slugs = {a, b}
    Ids = {l1, l2}
    Loops = FALSE
    Gaps <- Check
    MaxOpen = 1
    MaxWriters = 1
    NoLink = NoLink
    Unmerged = Unmerged
    Foci <- AllProjects
INVARIANT PartOfAcyclic
SYMMETRY Symmetry
