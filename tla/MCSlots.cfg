SPECIFICATION SlotsSpec
CONSTANTS
    None = None
    CardIds = {1, 2}
    Clients = {k1}
    Texts = {t1}
    MinutesPerDay = 1440
    Minute = 1
    NewCardsPerDay = 1
    LocalOffset = 660
    Times <- MCTimes
    LearningSteps <- MCLearningSteps
    RelearningSteps <- MCRelearningSteps
    Memory <- MCMemory
    Fsrs <- MCFsrs
INVARIANT FirstRatingTakesSlot
