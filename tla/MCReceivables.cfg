SPECIFICATION Spec
CONSTANTS
    s1 = s1
    s2 = s2
    o1 = o1
    c1 = c1
    y1 = y1
    y2 = y2
    p1 = p1
    p2 = p2
    None = None
    Sales = {s1, s2}
    Purchases = {o1}
    Clients = {c1}
    Amounts = {1, 2}
    Limits = {None, 2}
    Payments = {y1, y2}
    Procs = {p1, p2}
SYMMETRY Alike
INVARIANTS
    IInv
    NeverOverpaid
PROPERTIES
    LimitHolds
