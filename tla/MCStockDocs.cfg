SPECIFICATION Spec
CONSTANTS
    i1 = i1
    i2 = i2
    p1 = p1
    p2 = p2
    sale1 = sale1
    outflow1 = outflow1
    purchase1 = purchase1
    entry1 = entry1
    exit1 = exit1
    None = None
    Items <- MCItems
    Opening <- MCOpening
    Procs = {p1, p2}
    Docs = {sale1, outflow1, purchase1, entry1, exit1}
    KindOf <- MCKindOf
    Payloads <- MCPayloads
SYMMETRY Requests
INVARIANTS
    IInv
    Conservation
PROPERTIES
    TakesOnlyFromLive
    ImplementsLedger
