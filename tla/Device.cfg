CONSTANTS
    r1 = r1
    r2 = r2
    Requests <- MCRequests
    MaxSize = 3
    Chunk = 2
    NoRow = NoRow
    NoRequest = NoRequest
    d1 = d1
    d2 = d2
    Devices <- MCDevices
    MaxContent = 2
    Digests <- MCDigests
    Cut <- MCCut
    LastContent <- MCLast
    MaxStops <- MCStops
    MaxRots = 1
    h = h
    Machines = {d1, d2}
    Hooks <- MCHooks
    Home <- MCHome
    Names = {1, 2}
    Bodies = {1, 2}
    Restored <- MCRestored
    Absent = Absent
    Starts <- MCStarts
    MaxEdits <- MCEdits
    MaxBusy = 2
    k1 = k1
    k2 = k2
    Commits = {1, 2, 3}
    Ancestors <- MCAncestors
    t1 = t1
    t2 = t2
    Trees = {t1, t2}
    Clones = {k1, k2}
    Pushers <- MCHooks
    CloneOf <- MCCloneOf
    Small = {k1, k2}
    Networks = {1, 2}
    MaxWork <- MCWork
    MaxPushes <- MCPushes
    MaxRunning = 2
    Nil = Nil
SPECIFICATION DeviceSpec
INVARIANT PushesHold
INVARIANT LargeFilesHeld
INVARIANT NothingForgotten
INVARIANT NetworksHold
PROPERTY EditsReachServer
SYMMETRY DeviceSymmetry
CHECK_DEADLOCK FALSE
