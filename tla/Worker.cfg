SPECIFICATION ServicesSpec
CONSTANTS
    big = big
    small = small
    Providers = {big, small}
    Place <- BigFirst
    Background <- OnlyBig
    MinAge <- SmallWaits
    Configs <- SeatsMove
    MaxSeats = 2
    Jobs = {j1, j2}
    Chores = {j2}
    MaxAge = 1
    Clocks <- Behind
    NoJob = NoJob
    NoSlot = NoSlot
    NoOne = NoOne
    q = q
    r = r
    Owners = {q, r}
    Own = q
    Foreign = foreign
    Texts <- MCTexts
    MaxTexts = 3
    MinVotes = 3
    Scripts = {s1, s2, s3}
    Elsewhere = {s3}
    MaxCalls = 3
    WaitTicks = 2
    CommandTicks = 6
    ReapTicks = 1
    ClearTicks = 1
    SlowTicks = 3
    RequestTicks = 11
    WatchTicks = 6
    b1 = b1
    b2 = b2
    UserNames = {n1}
    Browsers = {b1, b2}
    Keeping = {b1}
    IpOf <- MCIpOf
    Window = 1
    MaxPerName = 1
    MaxPerIp = 2
    RefreshTtl = 2
    AccessTtl = 1
    MaxTime = 3
    MaxAttempts = 3
    MaxPasswords = 2
    NoToken = NoToken
INVARIANT TypeOK
INVARIANT SeatsInOrder
INVARIANT HandedBack
INVARIANT FailsWhenNobodyIsLeft
INVARIANT FiledByPlan
INVARIANT CommandsApart
INVARIANT SignInHolds
