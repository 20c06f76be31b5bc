CONSTANTS
    Nil = Nil
    Session = {s1}
    MaxDay = 0
    MaxRequests = 2
    Rule <- MCRule
    OneTime <- MCOneTime
    Alloc <- MCAlloc
    Baskets <- RepeatingBaskets
SPECIFICATION Spec
INVARIANT WithinAllocation
\* Behaviours end when the bounded number of requests has been served.
CHECK_DEADLOCK FALSE
