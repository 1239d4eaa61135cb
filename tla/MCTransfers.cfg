SPECIFICATION Spec
CONSTANTS
    A = A
    B = B
    C = C
    a1 = a1
    a2 = a2
    n1 = n1
    n2 = n2
    t1 = t1
    t2 = t2
    l1 = l1
    l2 = l2
    l3 = l3
    l4 = l4
    p1 = p1
    p2 = p2
    laptop = laptop
    phone = phone
    S = S
    pre = pre
    None = None
    Same = Same
    Warehouses <- MCWarehouses
    Rows <- MCRows
    Opening <- MCOpening
    Transfers = {t1, t2}
    Source <- MCSource
    Dest <- MCDest
    Lines <- MCLines
    Doc <- MCDoc
    Item <- MCItem
    Count <- MCCount
    Edits <- MCEdits
    Prefix <- MCPrefix
    Procs = {p1, p2}
SYMMETRY Alike
INVARIANTS
    IInv
PROPERTIES
    MovesWhole
