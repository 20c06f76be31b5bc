---------------------------- MODULE AtomicLedger ----------------------------
(***************************************************************************)
(* What stock_service promises of stock and its history: a request posts   *)
(* all of its lines at once or none, a posting that would overdraw a pair  *)
(* does not happen, and the quantity of every pair is changed by exactly   *)
(* what the ledger records.                                                *)
(***************************************************************************)
EXTENDS Integers, Sequences, Functions

CONSTANTS Key, Payloads

VARIABLES
    qty,       \* quantity in stock of every (product, warehouse) pair
    recorded   \* sum of the movements recorded for it

vars == <<qty, recorded>>

\* What a payload changes: the sum of its lines, pair by pair.
Net(p) ==
    [k \in Key |->
        LET deltas == [i \in 1..Len(p.lines) |-> p.lines[i].delta]
        IN SumFunctionOnSet(deltas, {i \in DOMAIN deltas : p.lines[i].key = k})]

Plus(f, g) == [k \in Key |-> f[k] + g[k]]

Init == qty \in [Key -> Nat] /\ recorded = qty

Post(p) ==
    /\ \A k \in Key : qty[k] + Net(p)[k] >= 0
    /\ qty' = Plus(qty, Net(p))
    /\ recorded' = Plus(recorded, Net(p))

Next == \E p \in Payloads : Post(p)

Spec == Init /\ [][Next]_vars
=============================================================================
