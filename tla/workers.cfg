SPECIFICATION WorkersSpec
CONSTANTS
    Parts = {"webhooks", "gpu", "refusals"}
    w1 = w1
    Senders = {w1}
    Receivers = {"r1", "r2"}
    WebhookEvents = {"usage"}
    SubscribersOf <- MCSubscribersOf
    MaxPerOwner = 2
    MaxAttempts = 2
    SendTimeout = 2
    LeaseMargin = 1
    BackoffCap = 2
    MaxSendFaults = 1
    GpuModels = {"m"}
    OwnEndpoints = {"e"}
    Reconcilers = {w1}
    Measurers = {"p1", "p2", "p3"}
    MaxRents = 2
    HourPrices = {2}
    MonthlyCap = 3
    MaxHours = 1
    StaleAfter = 0
    MaxGpuFaults = 1
INVARIANTS  OneMeasurer
PROPERTIES KeepsPromise DeliveriesEnd OrphansGoBack
\* Nothing may be left to send or to rent.
CHECK_DEADLOCK FALSE
