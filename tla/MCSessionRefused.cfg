\* One task whose token the gateway revokes twice.
SPECIFICATION Spec
CHECK_DEADLOCK FALSE
CONSTANTS
    Tasks = {t1}
    NoTask = NoTask
    MaxCalls = 2
    MaxTokens = 3
    MaxRevocations = 3
    Refusals <- AllRefusals
INVARIANT SecondRefusalIsAuthenticationError
