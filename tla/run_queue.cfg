SPECIFICATION Spec
CONSTANTS
    r1 = r1
    r2 = r2
    r3 = r3
    alice = alice
    bob = bob
    k = k
    NoKey = NoKey
    Requests = {r1, r2, r3}
    CallerOf <- MCCallerOf
    KeyOf <- MCNoKeys
    Priority <- MCPriority
    Cancellable = {r1}
    FaultOn = {r2}
    MaxConcurrent = 1
    MaxQueued = 2
    MaxQueuedPerCaller = 1
    MaxRestarts = 1
INVARIANTS ConcurrencyCap NoIdleSlot
CHECK_DEADLOCK FALSE
