CONSTANTS
    Nil = Nil
    Session = {s1, s2, s3}
    MaxRequests = 5
    Payments <- MCPayments
SYMMETRY Interchangeable
SPECIFICATION Spec
INVARIANTS TotalsInv ShiftReconciles WelfareCountedOnce SummaryCoversEverySale
PROPERTY FrozenTotals
\* Behaviours end when the bounded number of requests has been served.
CHECK_DEADLOCK FALSE
