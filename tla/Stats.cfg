SPECIFICATION Spec
CONSTANTS
    u1 = u1
    u2 = u2
    p1 = p1
    p2 = p2
    None = None
    User = {u1, u2}
    Page = {p1, p2}
    U64Max = 2
    MaxAction = 1
SYMMETRY StatsSymmetry
INVARIANTS StatsInv ProofsAddUp NothingInvented
CHECK_DEADLOCK FALSE
