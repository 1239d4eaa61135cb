SPECIFICATION Spec
CONSTANTS
    u1 = u1
    r1 = r1
    r2 = r2
    a = a
    b = b
    p1 = p1
    p2 = p2
    n1 = n1
    None = None
    Users = {u1}
    Roles = {r1, r2}
    Perms = {a, b}
    Procs = {p1, p2}
    Instances = {n1}
    System = {r1}
    Reserved = {r1}
    Wildcard = Wildcard
    Asked <- MCAsked
    TTL = 1
    FillTime = 1
    MaxVersion = 1
SYMMETRY EitherRequest
INVARIANTS
    IInv
    BoundedStaleness
PROPERTIES
    WholeSets
    KeepsItsRole
CHECK_DEADLOCK FALSE
