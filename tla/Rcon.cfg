SPECIFICATION Spec
CHECK_DEADLOCK FALSE
CONSTANTS
    Scripts <- Both
    MaxFull = 2
    Limit = 2
    AuthMax = 1
    Noise = 1
    Torn = TRUE
INVARIANTS
    OwnAnswer
    AnswersAreTrue
