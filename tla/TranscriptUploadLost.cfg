CONSTANTS
    r1 = r1
    r2 = r2
    Requests <- MCRequests
    MaxSize = 4
    Chunk = 2
    NoRow = NoRow
    NoRequest = NoRequest
SPECIFICATION Spec
INVARIANT OriginalIsHeld
SYMMETRY Interchangeable
