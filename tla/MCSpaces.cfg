SPECIFICATION MeetingsSpec
CONSTANTS
    None = None
    UserIds = {u1, u2}
    DeckIds = {1, 2, 3}
    CardIds = {1, 2, 3, 4}
    Names = {n1}
    Texts = {t1}
    Requests = {r1, r2, r3}
SYMMETRY Interchangeable
INVARIANTS
    TypeOK
    ForeignKeys
    NotFoundMeansGone
PROPERTIES
    OwnRowsOnly
    Refinement
CHECK_DEADLOCK FALSE
