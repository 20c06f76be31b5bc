------------------------- MODULE StockLedgerRefines -------------------------
(***************************************************************************)
(* StockLedger against the promise of AtomicLedger, through the committed  *)
(* tables: a missing stock row counts as quantity 0.                       *)
(***************************************************************************)
EXTENDS StockLedger

\* The promise for every pair, and for the pairs of a single coded kind.
Everything == INSTANCE AtomicLedger WITH
                  qty <- [k \in Key |-> Quantity(k)],
                  recorded <- moved

SingleFamily == INSTANCE AtomicLedger WITH
                    Key <- SingleFamilyKeys,
                    qty <- [k \in SingleFamilyKeys |-> Quantity(k)],
                    recorded <- [k \in SingleFamilyKeys |-> moved[k]]

\* For the pairs that only requests of one coded kind move, the whole protocol
\* of checks, waits and absolute writes is a sequence of atomic postings
\* (stock_service.py:2, sale_service.py:4 "deduct stock and record the sale
\* atomically"), whatever happens to the other pairs.
LedgerSpec == SingleFamily!Spec

\* Whatever the kinds, the committed ledger changes by the whole of one payload
\* or not at all: a request that is refused, dies or loses a deadlock half way
\* leaves no line behind (suppliers.py:165 "for every line item - atomically").
MovementsAllOrNothing ==
    [][moved' # moved =>
         \E s \in Session :
            /\ pc[s] # "idle"
            /\ moved' = Everything!Plus(moved, Everything!Net(req[s]))]_vars
=============================================================================
