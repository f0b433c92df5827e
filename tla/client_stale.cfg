\* The test of the guided field: what was entered is what is posted.
CONSTANTS
    Words <- MCWords
    Spelling <- MCSpelling
    Texts <- FewTexts
    Bytes <- FewBytes
    Expressions <- FewExpressions
    MaxU64 = 2000000000
    Answers <- MCAnswers
    Heights = {38}
    TASKS_PER_PAGE = 2
    MaxJobs = 2
    MaxFaults = 1
SPECIFICATION ClientSpec
INVARIANT
    PostsWhatWasEntered
CHECK_DEADLOCK FALSE
