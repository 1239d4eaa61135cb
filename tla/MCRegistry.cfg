SPECIFICATION FairRegistrySpec
CONSTANTS
    c1 = c1
    c2 = c2
    u1 = u1
    u2 = u2
    g1 = g1
    g2 = g2
    a = a
    b = b
    A = A
    B = B
    t1 = t1
    t2 = t2
    q1 = q1
    q2 = q2
    None = None
    Records = {c1, c2, u1, u2, g1, g2}
    TableOf <- MCTableOf
    Keys = {a, b}
    Warehouses = {A, B}
    Devices = {t1, t2}
    Procs = {q1, q2}
    Scenes <- MCScenes
INVARIANTS
    RegistryInv
    NoSilentTwins
    OneHolder
PROPERTIES
    ListsReplaced
    ManagerKeepsAccess
    RequestsEnd
CHECK_DEADLOCK FALSE
