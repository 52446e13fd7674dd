SPECIFICATION StreamsSpec
CONSTANTS
    Answers <- MCAnswers
    Dialects = {"vertex"}
    Wide = {"w"}
    Broken = {"cut"}
INVARIANTS TextSurvives
CHECK_DEADLOCK FALSE
