SPECIFICATION OrderlySpec
CONSTANTS
    None = None
    UserIds = {1, 2, 3}
    Names = {n1, n2, n3}
    BootstrapName = n1
    Passwords = {p1}
    SessionIds = {s1}
    Requests = {r1, r2}
    Times <- OneTime
    Idle = 1
    Kinds <- CreateKinds
SYMMETRY Interchangeable
INVARIANT SeededWhenCreated
CHECK_DEADLOCK FALSE
