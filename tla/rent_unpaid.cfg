SPECIFICATION WorkersSpec
CONSTANTS
    Parts = {"gpu"}
    w1 = w1
    Senders = {}
    Receivers = {}
    WebhookEvents = {}
    SubscribersOf <- MCSubscribersOf
    MaxPerOwner = 1
    MaxAttempts = 1
    SendTimeout = 1
    LeaseMargin = 1
    BackoffCap = 1
    MaxSendFaults = 0
    GpuModels = {}
    OwnEndpoints = {"e"}
    Reconcilers = {w1}
    Measurers = {"p1", "p2", "p3"}
    MaxRents = 1
    HourPrices = {1}
    MonthlyCap = 3
    MaxHours = 2
    StaleAfter = 1
    MaxGpuFaults = 0
INVARIANTS RentIsHeld
CHECK_DEADLOCK FALSE
