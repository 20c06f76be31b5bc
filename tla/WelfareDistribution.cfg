CONSTANTS
    Nil = Nil
    Session = {s1, s2}
    MaxDay = 1
    MaxRequests = 3
    Rule <- MCRule
    OneTime <- MCOneTime
    Alloc <- MCAlloc
    Baskets <- DistinctBaskets
SPECIFICATION FairSpec
INVARIANTS AllocationInv UsageMatchesTransactions BudgetCountsOnce
PROPERTIES EveryRequestEnds UsageChangesWithTransaction
\* Behaviours end when the bounded number of requests has been served.
CHECK_DEADLOCK FALSE
