CONSTANTS
    Nil = Nil
    Session = {s1, s2}
    MaxRequests = 4
    Category = widow
    Worlds <- MCWorlds
    NewRules <- MCNewRules
    MaxChanges <- MCMaxChanges
    Quantities = {1, 2}
    MaxMonths = 2
SYMMETRY Interchangeable
SPECIFICATION EntitlementsSpec
INVARIANTS UsageInv UsedIsGivenThisPeriod
PROPERTY AllocationStands
\* Behaviours end when the bounded number of requests has been served.
CHECK_DEADLOCK FALSE
