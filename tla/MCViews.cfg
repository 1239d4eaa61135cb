SPECIFICATION ViewsSpec
CONSTANTS
    A = A
    B = B
    r1 = r1
    r2 = r2
    r3 = r3
    cables = cables
    screens = screens
    All = All
    None = None
    l1 = l1
    v1 = v1
    v2 = v2
    Rows = {r1, r2, r3}
    Present <- MCPresent
    Scenes <- MCScenes
    Homes <- MCHomes
    First <- MCFirst
    Ranks <- MCRanks
    Warehouses = {A, B}
    Scopes <- MCScopes
    Filters <- MCFilters
    Procs = {l1, v1, v2}
    Viewers = {v1, v2}
    Limit = 1
    Cut = 2
    MaxWrites = 2
SYMMETRY Either
INVARIANTS
    ViewsInv
    EditsShow
    ScopedAnswers
    PartsAddUp
    WalkShowsAll
CHECK_DEADLOCK FALSE
