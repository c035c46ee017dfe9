CONSTANTS
    prime = 53
    Tasks <- MCTasks
    Checks <- MCChecks
    Seeds = {0, 1, 2, 4, 30}
    Budget = 12
    SizeTBits = 12
SPECIFICATION Spec
INVARIANTS
    PredicatesMatchWiring
    AnswerRight
    EndsAgree
PROPERTY
    ImplementsEvaluation
CHECK_DEADLOCK FALSE
