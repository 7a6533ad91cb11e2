SPECIFICATION MCSpec
CONSTANTS
    None = None
    CardIds = {1, 2, 3}
    Clients = {k1, k2}
    Texts = {t1}
    MinutesPerDay = 1440
    Minute = 1
    NewCardsPerDay = 1
    LocalOffset = 660
    MaxReviews = 3
    MaxRemoved = 1
    Times <- MCTimes
    LearningSteps <- MCLearningSteps
    RelearningSteps <- MCRelearningSteps
    Memory <- MCMemory
    Fsrs <- MCFsrs
SYMMETRY AnyClient
INVARIANTS
    StudyTypeOK
    PromptCap
    CapWithinTabs
    NewInOrder
    PagesAgree
PROPERTY NobodyPushesIn
