SPECIFICATION LiveSpec
CONSTANTS
    MaxFrames = 3
    Protocols = {"openai", "anthropic", "gemini"}
    None = None
INVARIANTS DeliveredInOrder CompletedIsWhole BilledWasWritten FailedIsUpstreams NothingLeaks
PROPERTIES StreamEnds CancelEnds
