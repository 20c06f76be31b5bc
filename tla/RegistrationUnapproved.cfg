CONSTANTS
    Nil = Nil
    Session = {s1}
    MaxRequests = 2
    Cnic = {"c1"}
    Worlds <- JustPending
SPECIFICATION Spec
INVARIANT ActiveMeansApproved
\* Behaviours end when the bounded number of requests has been served.
CHECK_DEADLOCK FALSE
