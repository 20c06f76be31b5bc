CONSTANTS
    Nil = Nil
    Session = {s1, s2}
    MaxRequests = 3
    Identifier = {"root", "ann", "ann@x", "bob", "bob@x", "eve@x"}
    NewAccounts <- MCNewAccounts
    Grants <- MCGrants
    CodeSets <- MCCodeSets
    RoleChanges <- MCRoleChanges
    Default <- MCDefault
    RoleNames = {"admin", "staff", "clerk"}
    SuperAdmin = "admin"
    Root = "root"
    Worlds <- MCWorlds
SYMMETRY Sessions
SPECIFICATION Spec
INVARIANTS AccessInv RevokedMeansGone ExactlyTheCodesGiven
PROPERTY SeedComplete
\* Behaviours end when the bounded number of requests has been served.
CHECK_DEADLOCK FALSE
