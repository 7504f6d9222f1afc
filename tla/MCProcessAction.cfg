SPECIFICATION Spec
CONSTANTS
    W = 2
    Bytes = 6
    MaxSize = 4
    ActionLists <- MCActionLists
    ImageFails = TRUE
INVARIANTS
    TypeOK
    AnswerInPlace
PROPERTIES
    StoresOwnAnswer
    SendsOwnOutputs
CHECK_DEADLOCK FALSE
