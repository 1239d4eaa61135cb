SPECIFICATION Spec
CONSTANTS
    laptop = laptop
    cable = cable
    k1 = k1
    k2 = k2
    d1 = d1
    p1 = p1
    p2 = p2
    None = None
    Items = {laptop, cable}
    Opening <- MCOpening
    Takes = {k1, k2}
    Discharges = {d1}
    LinesOf <- MCLinesOf
    Moves <- MCMoves
    Slips <- MCSlips
    Edits <- MCEdits
    Deletable = {cable}
    MaxUnits = 2
    Procs = {p1, p2}
SYMMETRY Alike
INVARIANTS
    IInv
    OneCountAtATime

    
