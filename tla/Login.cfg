CONSTANTS
    Nil = Nil
    Session = {s1, s2, s3}
    MaxRequests = 4
    Password = {p1, p2}
    MaxFailed = 2
    LockTime = 2
    MaxClock = 3
SYMMETRY Interchangeable
SPECIFICATION LoginSpec
INVARIANTS CounterTellsFailures LockoutInv TokensToActiveAccounts
PROPERTY LockLasts
\* Behaviours end when the bounded number of requests has been served.
CHECK_DEADLOCK FALSE
