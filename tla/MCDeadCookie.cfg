SPECIFICATION OrderlySpec
CONSTANTS
    None = None
    UserIds = {1, 2}
    Names = {n1, n2}
    BootstrapName = n1
    Passwords = {p1}
    SessionIds = {s1}
    Requests = {r1, r2}
    Times <- OneTime
    Idle = 1
    Kinds <- CookieKinds
SYMMETRY Interchangeable
PROPERTY ImplicitOnlyWithoutCookie
CHECK_DEADLOCK FALSE
