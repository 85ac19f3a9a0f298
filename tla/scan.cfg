SPECIFICATION Spec
CONSTANTS
    MaxLen = 8
    Tokenizers = {"spans", "spaced", "encode", "none"}
    MaxTokens = 3
    Overlap = 1
    CharsPerChunk = 3
    RowBudgets = {1, 5}
    NQuestions = 2
    MaxQuestions = 4
    MaxStateChars = 5
    MaxFailures = 1
INVARIANT AllVisibleScanned
INVARIANT WindowsSound
PROPERTY ResumeMovesOn
CHECK_DEADLOCK FALSE
