SPECIFICATION Spec
CONSTANTS
    c1 = c1
    c2 = c2
    c3 = c3
    i1 = i1
    i2 = i2
    Caller <- ThreeCallers
    IndId <- TwoIds
    LOC_SYNC_REQ_BUFFER_SIZE = 2
    MaxCalls = 3
SYMMETRY Symmetry
INVARIANTS
    SlotHasCaller
    OneTakerPerAnswer
    SuccessIsAnswered
    AnswerIsOwn
CHECK_DEADLOCK FALSE
