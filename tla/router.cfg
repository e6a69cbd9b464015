SPECIFICATION Spec
CONSTANTS
    q1 = q1
    q2 = q2
    paid = paid
    other = other
    local = local
    None = None
    Requests = {q1, q2}
    Providers = {paid, local}
    Local = {local}
    OwnKeys <- MCNoKeys
    OnlyMine = {}
    Streaming = {q1}
    MaxAttempts = 2
    Retries = 0
    Threshold = 2
    LocalLimit = 1
    Cancellable = {q1}
    DbFails = TRUE
    MayReset = TRUE
    Past <- MCFailed
INVARIANTS SlotIsExact OpenForCause
PROPERTIES BlameIsEarned
CHECK_DEADLOCK FALSE
