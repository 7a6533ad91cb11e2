SPECIFICATION BoundedSpec
CONSTANTS
    None = None
    CardIds = {c1}
    Texts = {t1, t2}
    MinutesPerDay = 1440
    MaxReviews = 4
    Times <- MCTimes
    LearningSteps <- MCLearningSteps
    RelearningSteps <- MCRelearningSteps
    Memory <- MCMemory
    Fsrs <- MCFsrs
INVARIANTS
    RowsWellFormed
    CardMatchesLog
    LogExplainsCard
PROPERTY
    LearnedStaysLearned
