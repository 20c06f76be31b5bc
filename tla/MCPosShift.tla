----------------------------- MODULE MCPosShift -----------------------------
\* Instances of PosShift: two payments, and sessions that are interchangeable.
EXTENDS PosShift, TLC

MCPayments == {[method |-> "cash", amount |-> 2], [method |-> "card", amount |-> 1]}

Interchangeable == Permutations(Session)
=============================================================================
