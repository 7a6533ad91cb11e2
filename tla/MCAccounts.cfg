SPECIFICATION MeetingsSpec
CONSTANTS
    None = None
    UserIds = {1, 2, 3}
    Names = {n1, n2}
    BootstrapName = n1
    Passwords = {p1, p2}
    SessionIds = {s1, s2}
    Requests = {r1, r2, r3}
    Times <- MCTimes
    Idle = 1
    Kinds <- SessionKinds
SYMMETRY Interchangeable
INVARIANTS
    TypeOK
    AnsweredAsOwner
    DefaultSeeded
    AdminReigns
    DisabledStaysOut
    OldSessionsGone
    NoIdleGap
CHECK_DEADLOCK FALSE
