SPECIFICATION ReadingSpec
CONSTANTS
    Slugs = {a, b, c, d}
    Ids = {l1, l2, l3}
    Loops = FALSE
    Gaps = {}
    MaxOpen = 1
    MaxWriters = 1
    NoLink = NoLink
    Unmerged = Unmerged
    Foci <- AllProjects
    k1 = k1
    k2 = k2
    Lookups = {k1, k2}
    Bad = Bad
    ResultSize <- MCSize
    PromptSizes = {2, 14}
    Room = 16
    MinRoom = 4
    MinResult = 2
    MaxRounds = 2
    MaxAsked = 2
    Budget = 4
    CharsPerToken = 2
    Separator = 2
    MessageSizes = {1, 3, 5, 9}
    AnswerSizes = {0, 2}
    MaxMessages = 3
    MaxReduce = 2
    e1 = e1
    r1 = r1
    r2 = r2
    w1 = w1
    q1 = q1
    Calls = {e1, r1, r2, w1, q1}
    Tool <- MCTool
    Returning = {e1, q1}
    MaxCommands = 1
    MaxLines = 5
INVARIANT LinksSound
INVARIANT NamesAreLive
INVARIANT FoldKeepsAll
PROPERTY ReadingsAgree
PROPERTY TalkInOrder
SYMMETRY Symmetry
