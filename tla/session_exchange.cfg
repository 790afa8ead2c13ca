SPECIFICATION Spec
CONSTANTS
    Timeout = 2
    Grace = 2
    MaxGen = 5
    Nil = Nil
INVARIANTS TypeOK OwnReplayIsSafe
PROPERTIES RetryableIsAnswered OkIsUsable
