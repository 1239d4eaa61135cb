SPECIFICATION Spec
CHECK_DEADLOCK FALSE
CONSTANTS
    s1 = s1
    s2 = s2
    b1 = b1
    r1 = r1
    r2 = r2
    p1 = p1
    p2 = p2
    codes = codes
    None = None
    Docs = {s1, s2, b1}
    Ranges = {r1, r2}
    KindOf <- MCKindOf
    Series <- MCSeries
    Creates <- MCCreates
    Edits <- MCEdits
    Procs = {p1, p2}
SYMMETRY Alike
INVARIANTS
    IInv
    Gapless
PROPERTIES
    IssuedInForce
