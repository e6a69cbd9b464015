SPECIFICATION LiveSpec
CONSTANTS
    cheap = cheap
    dear = dear
    free = free
    Offers = {cheap, dear, free}
    Paid = {cheap, dear}
    Base <- MCBase
    Worst <- MCWorst
    None = None
    NoCap = NoCap
    Cap = 3
    MaxTries = 2
    MaxCalls = 2
    MaxStream = 3
    BillingFails = TRUE
    DbFails = TRUE
    MaxRestarts = 1
INVARIANTS CallCovered HeldIsCovered  
PROPERTY SettleDelivered
CHECK_DEADLOCK FALSE
