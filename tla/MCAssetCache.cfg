SPECIFICATION Spec
CONSTANTS
    None = None
    Renders = {r1, r2, r3}
    Contents = {v1, v2}
    Times = {1, 2, 3}
SYMMETRY Interchangeable
INVARIANTS
    CacheHonest
    HrefWasCurrent
