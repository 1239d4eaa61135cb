SPECIFICATION LoansSpec
CHECK_DEADLOCK FALSE
CONSTANTS
    l1 = l1
    laptop = laptop
    p1 = p1
    p2 = p2
    None = None
    Loans = {l1}
    ItemsOf <- MCItemsOf
    Procs = {p1, p2}
SYMMETRY Alike
INVARIANTS
    LoansInv
PROPERTIES
    WrittenOnce
