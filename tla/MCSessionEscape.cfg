\* One task and every kind of reply the gateway gives.
SPECIFICATION Spec
CHECK_DEADLOCK FALSE
CONSTANTS
    Tasks = {t1}
    NoTask = NoTask
    MaxCalls = 2
    MaxTokens = 3
    MaxRevocations = 3
    Refusals <- AllRefusals
INVARIANT OnlyPowerwallErrors
