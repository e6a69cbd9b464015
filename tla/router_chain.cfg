SPECIFICATION LiveSpec
CONSTANTS
    q1 = q1
    q2 = q2
    paid = paid
    other = other
    local = local
    None = None
    Requests = {q1, q2}
    Providers = {paid, other, local}
    Local = {local}
    OwnKeys <- MCKeys
    OnlyMine = {q2}
    Streaming = {q1}
    MaxAttempts = 2
    Retries = 1
    Threshold = 2
    LocalLimit = 1
    Cancellable = {q1}
    DbFails = FALSE
    MayReset = FALSE
    Past <- MCNew
INVARIANT CallsBounded
PROPERTIES StreamIsFinal EveryRequestEnds
CHECK_DEADLOCK FALSE
