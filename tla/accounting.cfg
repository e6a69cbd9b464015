SPECIFICATION Spec
CONSTANTS
    r1 = r1
    r2 = r2
    own = own
    ann = ann
    bob = bob
    p = p
    q = q
    Runs = {r1, r2, own}
    Own = {own}
    Subjects = {ann, bob}
    Providers = {p, q}
    SubjectOf <- MCSubjectOf
    Attempts <- MCAttempts
    Free = {r2}
    Worlds <- MCWorlds
    Limit <- MCLimit
    MaxRequests = 1
    MaxTokens = 2
    Quantity = 2
    Cap = 3
INVARIANTS AllowanceHolds  SomeRunGoesOn
PROPERTIES QuotaOnlyRaced
CHECK_DEADLOCK FALSE
