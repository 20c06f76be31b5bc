CONSTANTS
    a = a
    b = b
    c = c
    Nil = Nil
    Session = {s1, s2, s3}
    Coded = {"sale", "welfare"}
    MaxRequests = 3
    Key <- MCKey
    Payloads <- MCPayloads
    InitialStock <- MCInitialStock
SPECIFICATION FairSpec
INVARIANTS TypeOK StockNeverNegative SingleFamilyExact SameKindNeverDeadlocks
PROPERTIES MovementsAllOrNothing LedgerSpec EveryRequestEnds
\* Behaviours end when the bounded number of requests has been served.
CHECK_DEADLOCK FALSE
