CONSTANTS
    Nil = Nil
    Session = {s1, s2, s3}
    MaxRequests = 3
    Value = {"a", "b"}
    Inputs <- MCInputs
    Changes <- MCChanges
    Initial <- MCInitial
SYMMETRY Interchangeable
SPECIFICATION Spec
INVARIANTS CodesInv ColumnsAsAudited
\* Behaviours end when the bounded number of requests has been served.
CHECK_DEADLOCK FALSE
