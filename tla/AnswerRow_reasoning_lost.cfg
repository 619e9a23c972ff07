SPECIFICATION AnswerSpec

CONSTANTS
    NumTurns = 1
    MaxChunks = 1
    MaxPieces = 1
    MaxHitches = 0

INVARIANTS
    ReasoningIsKept

CHECK_DEADLOCK FALSE
