SPECIFICATION Spec
CONSTANTS
    W = 2
    Bytes = 6
    MaxSize = 4
    ActionLists <- Unaligned
    ImageFails = TRUE
INVARIANTS
    AnswerInPlace
CHECK_DEADLOCK FALSE
