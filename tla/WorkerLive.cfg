SPECIFICATION LiveSpec
CONSTANTS
    big = big
    small = small
    Providers = {big, small}
    Place <- BigFirst
    Background <- OnlyBig
    MinAge <- SmallWaits
    Configs <- OnOff
    MaxSeats = 1
    Jobs = {j1, j2}
    Chores = {j2}
    MaxAge = 1
    Clocks <- InStep
    NoJob = NoJob
    NoSlot = NoSlot
    NoOne = NoOne
    a = a
    b = b
    Topics = {a, b}
    Logs = {n1}
    PartOf <- MCPartOf
    PageTokens = {t1}
    MinNewLogs = 1
    MaxChanges = 2
    NoPage = NoPage
    Tokenless = Tokenless
PROPERTY EveryClaimEnds
PROPERTY SlotsComeBack
PROPERTY PagesCatchUp
