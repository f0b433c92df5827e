\* Pages of two, four jobs, forms of both kinds sent twice, texts at the limits, two heights.
CONSTANTS
    Words <- MCWords
    Spelling <- MCSpelling
    Texts <- MCTexts
    Bytes <- MCBytes
    Expressions <- MCExpressions
    MaxU64 = 2000000000
    Answers <- MCAnswers
    Heights = {37, 38}
    TASKS_PER_PAGE = 2
    MaxJobs = 4
    MaxFaults = 1
SPECIFICATION ClientSpec
INVARIANTS
    ClientTypeOK
    FormAgreesWithService
    FirstPostIsWhatWasEntered
    SecondJobNeedsError
    DigitsOpenWhatTheyLabel
    NothingScrolledAway
\* The client may be closed.
CHECK_DEADLOCK FALSE
