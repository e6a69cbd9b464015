SPECIFICATION Spec
CONSTANTS
    cheap = cheap
    dear = dear
    free = free
    Offers = {cheap, dear, free}
    Paid = {cheap, dear}
    Base <- MCBase
    Worst <- MCWorst
    None = None
    NoCap = NoCap
    Cap = NoCap
    MaxTries = 2
    MaxCalls = 2
    MaxStream = 3
    BillingFails = FALSE
    DbFails = FALSE
    MaxRestarts = 0
INVARIANT CancelledRunSettled
CHECK_DEADLOCK FALSE
