SPECIFICATION LiveSpec
CONSTANTS
    MaxFrames = 2
    Protocols = {"anthropic"}
    None = None
INVARIANTS AnswerIsWhole
