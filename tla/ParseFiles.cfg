CONSTANTS
    Event <- MCEvent
    Payload <- MCPayload
    NoData <- MCNoData
    KeyOrders <- MCKeyOrders
    Value <- MCValue
    Depth <- MCDepth
    HardLimit = 8
    PressureLimit = 4
    CheckStep = 2
    Broken = Broken
    MaxLines = 4
    MaxElements = 3
SPECIFICATION MCSpec
INVARIANTS
    WithinBudget
    BytesCounted
    StreamMatchesParse
    CallsAccounted
    NeekoCallsAccounted
    RoundsAddUp
    QuestionIsTheUsers
    AnswersAgree
    LevelIsExplained
CHECK_DEADLOCK FALSE
