SPECIFICATION StreamsSpec
CONSTANTS
    Answers <- MCAnswers
    Dialects = {"messages", "anthropic", "vertex", "gemini"}
    Wide = {"w"}
    Broken = {"cut"}
INVARIANTS NativeCaptureExact StreamKeepsAnswer ReplayRebuilds
CHECK_DEADLOCK FALSE
