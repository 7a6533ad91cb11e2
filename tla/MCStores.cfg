SPECIFICATION BoundedSpec
CONSTANTS
    None = None
    Grain = 2
    Illegible = Illegible
    MinutesPerDay = 2880
    NewCardsPerDay = 1
    LocalOffset = 2000
    Blank = ""
    MaxChanges = 3
    Times <- MCTimes
    LearningSteps <- MCLearningSteps
    RelearningSteps <- MCRelearningSteps
    Memory <- MCMemory
    Fsrs <- MCFsrs
    Texts <- MCTexts
    TypedSides <- MCTypedSides
    DeckNames <- MCDeckNames
    Usernames <- MCUsernames
    PasswordHashes = {"h1", "h2"}
    Grades = {"Again", "Good", "Easy"}
INVARIANTS
    AnswersAgree
    TablesAgree
    ReadsAgree
CHECK_DEADLOCK FALSE
