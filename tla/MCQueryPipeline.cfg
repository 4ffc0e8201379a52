SPECIFICATION Spec
CONSTANTS
    ServiceLists <- MCServiceLists
    MaxAttempts = 2
INVARIANTS
    TypeOK
    QuestionOrAction
    AnswerIsOnRecord
    NoFailureHidesAnother
    BuildersFindTheirInputs
CHECK_DEADLOCK FALSE
