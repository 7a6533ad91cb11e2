SPECIFICATION MCSpec
CONSTANTS
    None = None
    Requests = {r1, r2, r3}
    CardIds = {c1}
    Texts = {t1, t2}
    MinutesPerDay = 1440
    MaxConnections = 2
    Times <- MCTimes
    LearningSteps <- MCLearningSteps
    RelearningSteps <- MCRelearningSteps
    Memory <- MCMemory
    Fsrs <- MCFsrs
INVARIANTS
    TypeOK
    NoLostUpdate
    ExactlyOnce
    BusyHasWinner
    NobodyStuck
PROPERTIES
    Refinement
    EveryRequestEnds
CHECK_DEADLOCK FALSE
