CONSTANTS
    i1 = i1
    p1 = p1
    None = None
    Items = {i1}
    Requests = {p1}
    Rows <- MCRows
    Dtos <- MCDtos
SPECIFICATION FairSpec
INVARIANTS
    IInv
    StatusesAgree
    BellAgrees
PROPERTY
    CatchesUp
