CONSTANTS
    Nil = Nil
    Session = {s1, s2, s3}
    MaxRequests = 4
    Supplier = {"s1", "s2"}
    Warehouse = {"w1", "w2"}
    Product = {"flour", "sugar", "oil"}
    NewTransfers <- MCTransfers
    NewOrders <- MCOrders
    Amounts = {4}
    Worlds <- MCWorlds
SYMMETRY Interchangeable
SPECIFICATION Spec
INVARIANTS GoodsInv TransferConserves OwedForGoodsReceived PaidAfterApproval
PROPERTY PayablesNotOverstated
\* Behaviours end when the bounded number of requests has been served.
CHECK_DEADLOCK FALSE
