SPECIFICATION Spec
CONSTANTS
    None = None
    DeckIds = {d1}
    CardIds = {c1, c2}
    UserIds = {u1}
    Openers = {o1, o2}
    MaxLogs = 1
SYMMETRY Interchangeable
PROPERTY LogsKept
