SPECIFICATION LiveSpec
CONSTANTS
    r1 = r1
    r2 = r2
    r3 = r3
    alice = alice
    bob = bob
    k = k
    NoKey = NoKey
    Requests = {r1, r2, r3}
    CallerOf <- MCCallerOf
    KeyOf <- MCKeyOf
    Priority <- MCPriority
    Cancellable = {r1}
    FaultOn = {r2}
    MaxConcurrent = 1
    MaxQueued = 1
    MaxQueuedPerCaller = 1
    MaxRestarts = 1
PROPERTIES ImplementsLifecycle EveryRunEnds 
CHECK_DEADLOCK FALSE
