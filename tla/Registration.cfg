CONSTANTS
    Nil = Nil
    Session = {s1, s2, s3}
    MaxRequests = 4
    Cnic = {"c1", "c2"}
    Worlds <- MCWorlds
SYMMETRY Interchangeable
SPECIFICATION Spec
INVARIANTS StatusInv CardNeedsApproval OneLiveCard StatusAsAudited
\* Behaviours end when the bounded number of requests has been served.
CHECK_DEADLOCK FALSE
