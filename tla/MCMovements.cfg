SPECIFICATION MovementsSpec
CONSTANTS
    A = A
    B = B
    cable = cable
    d1 = d1
    d2 = d2
    Null = Null
    Warehouses = {A, B}
    Products = {cable}
    Docs = {d1, d2}
    Payloads <- MCPayloads
    Diffs <- MCDiffs
    MaxDay = 2
SYMMETRY EitherWay
INVARIANTS
    MovementsInv
    ReportNets
PROPERTY
    PastIsFixed
CHECK_DEADLOCK FALSE
