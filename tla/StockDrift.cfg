CONSTANTS
    a = a
    b = b
    c = c
    Nil = Nil
    Session = {s1, s2}
    Coded = {"sale", "welfare"}
    MaxRequests = 2
    Key <- MCKey
    Payloads <- MCPayloads
    InitialStock <- MCInitialStock
SPECIFICATION Spec
INVARIANT LedgerExplainsStock
\* Behaviours end when the bounded number of requests has been served.
CHECK_DEADLOCK FALSE
