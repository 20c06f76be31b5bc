---------------------------- MODULE StockLedger ----------------------------
(***************************************************************************)
(* The stock of every (product, warehouse) pair and the ledger of stock    *)
(* movements that is meant to explain it, as concurrent HTTP requests      *)
(* change them through stock_service.apply_movement.                       *)
(*                                                                         *)
(* One request runs in one AsyncSession and one database transaction at    *)
(* READ COMMITTED.  apply_movement reads the stock row without locking it, *)
(* computes an absolute quantity in Python, and flushes an UPDATE of that  *)
(* quantity together with the INSERT of the movement.  The UPDATE takes    *)
(* the row lock, waiting for another transaction that holds it; locks and  *)
(* uncommitted rows last until the request commits or rolls back.          *)
(*                                                                         *)
(* create_sale and create_welfare_transaction first check availability     *)
(* line by line and then insert a row whose unique code is the constant    *)
(* "PENDING".  Until the request ends no other request of that kind can    *)
(* insert its own row: the unique index works as a mutual exclusion lock   *)
(* per kind.  The other callers (adjustment, damage, expiry, refund,       *)
(* transfer dispatch and receipt, goods received) have no such row.        *)
(*                                                                         *)
(* Quantities are whole hundredths, the precision of Numeric(12, 2), and   *)
(* stay below its upper bound.                                             *)
(***************************************************************************)
EXTENDS Integers, Sequences

CONSTANTS
    Session,       \* requests that can be in flight at once
    Key,           \* (product, warehouse) pairs
    Coded,         \* kinds of request that insert a "PENDING" row first
    Payloads,      \* the requests clients send: a kind and its lines
    InitialStock,  \* the committed stock tables to start from
    MaxRequests,   \* bound: number of requests begun in a behaviour
    Nil            \* SQL NULL, no row, no holder

Line == [key : Key, delta : Int]

ASSUME PayloadsAssumption ==
    \A p \in Payloads :
        /\ p.lines \in Seq(Line)
        /\ p.lines # << >>
        /\ p = [kind |-> p.kind, lines |-> p.lines]
        /\ p.kind # Nil

ASSUME NilAssumption == Nil \notin Session /\ Nil \notin Int /\ Nil \notin Payloads

ASSUME InitialStockAssumption == InitialStock \subseteq [Key -> Nat \cup {Nil}]

ASSUME MaxRequestsAssumption == MaxRequests \in Nat

VARIABLES
    stock,    \* committed Stock.quantity of each key, Nil when there is no row
    moved,    \* sum of quantity_delta over the committed StockMovement rows
    lock,     \* the session holding the row lock (or the inserted row) of a key
    dirty,    \* the uncommitted quantity written by the holder of the lock
    pending,  \* per coded kind, the session whose "PENDING" row is uncommitted
    pc,       \* where the handler of a session stands
    req,      \* the payload a session is serving
    idx,      \* the line it is at
    read,     \* the Stock object apply_movement has in hand: its quantity
    moves,    \* sum of the movements a session has flushed, per key
    begun     \* requests begun so far

vars == <<stock, moved, lock, dirty, pending, pc, req, idx, read, moves, begun>>

-----------------------------------------------------------------------------

\* get_current_quantity over the committed rows.
Quantity(k) == IF stock[k] = Nil THEN 0 ELSE stock[k]

Kind(s)  == req[s].kind
Lines(s) == req[s].lines
LineKey(s)   == Lines(s)[idx[s]].key
LineDelta(s) == Lines(s)[idx[s]].delta

\* What a SELECT of session s sees of row k: its own write, else the committed row.
Visible(s, k) == IF lock[k] = s THEN dirty[k] ELSE stock[k]

NewBalance(s) == read[s] + LineDelta(s)

\* The holder a session queues behind when its next statement needs a row lock
\* or a unique index entry.
Awaited(s) ==
    CASE pc[s] = "insert"                         -> pending[Kind(s)]
      [] pc[s] = "create"                         -> lock[LineKey(s)]
      [] pc[s] = "write" /\ LineDelta(s) # 0      -> lock[LineKey(s)]
      [] OTHER                                    -> Nil

Granted(s) == Awaited(s) \in {Nil, s}

\* Sessions that wait for one another in a ring.
Ring(C) == /\ C # {}
           /\ \A s \in C : ~Granted(s)
           /\ {Awaited(s) : s \in C} = C

NextLine(s) ==
    IF idx[s] < Len(Lines(s))
    THEN /\ idx' = [idx EXCEPT ![s] = @ + 1]
         /\ pc' = [pc EXCEPT ![s] = "read"]
    ELSE /\ pc' = [pc EXCEPT ![s] = "commit"]
         /\ UNCHANGED idx

\* A session that is closed while its "PENDING" row stays in the way of others.
ReleaseAllButPending(s) ==
    /\ lock' = [k \in Key |-> IF lock[k] = s THEN Nil ELSE lock[k]]
    /\ dirty' = [k \in Key |-> IF lock[k] = s THEN Nil ELSE dirty[k]]
    /\ pc' = [pc EXCEPT ![s] = "idle"]
    /\ req' = [req EXCEPT ![s] = Nil]
    /\ idx' = [idx EXCEPT ![s] = 1]
    /\ read' = [read EXCEPT ![s] = Nil]
    /\ moves' = [moves EXCEPT ![s] = [k \in Key |-> 0]]
    /\ UNCHANGED pending

\* The transaction of s is over: every lock and index entry it held is free and
\* its session is closed.
Release(s) ==
    /\ lock' = [k \in Key |-> IF lock[k] = s THEN Nil ELSE lock[k]]
    /\ dirty' = [k \in Key |-> IF lock[k] = s THEN Nil ELSE dirty[k]]
    /\ pending' = [q \in Coded |-> IF pending[q] = s THEN Nil ELSE pending[q]]
    /\ pc' = [pc EXCEPT ![s] = "idle"]
    /\ req' = [req EXCEPT ![s] = Nil]
    /\ idx' = [idx EXCEPT ![s] = 1]
    /\ read' = [read EXCEPT ![s] = Nil]
    /\ moves' = [moves EXCEPT ![s] = [k \in Key |-> 0]]

\* get_db closes the session without a commit: nothing of the request remains.
Rollback(s) == Release(s) /\ UNCHANGED <<stock, moved, begun>>

-----------------------------------------------------------------------------

Init ==
    /\ stock \in InitialStock
    /\ moved = [k \in Key |-> Quantity(k)]
    /\ lock = [k \in Key |-> Nil]
    /\ dirty = [k \in Key |-> Nil]
    /\ pending = [q \in Coded |-> Nil]
    /\ pc = [s \in Session |-> "idle"]
    /\ req = [s \in Session |-> Nil]
    /\ idx = [s \in Session |-> 1]
    /\ read = [s \in Session |-> Nil]
    /\ moves = [s \in Session |-> [k \in Key |-> 0]]
    /\ begun = 0

\* A request that counts its lines from zero.
BeginAtZero(s, p) ==
    /\ pc[s] = "idle"
    /\ begun < MaxRequests
    /\ begun' = begun + 1
    /\ req' = [req EXCEPT ![s] = p]
    /\ idx' = [idx EXCEPT ![s] = 0]
    /\ pc' = [pc EXCEPT ![s] = IF p.kind \in Coded THEN "check" ELSE "read"]
    /\ UNCHANGED <<stock, moved, lock, dirty, pending, read, moves>>

\* A request arrives.
Begin(s, p) ==
    /\ pc[s] = "idle"
    /\ begun < MaxRequests
    /\ begun' = begun + 1
    /\ req' = [req EXCEPT ![s] = p]
    /\ idx' = [idx EXCEPT ![s] = 1]
    /\ pc' = [pc EXCEPT ![s] = IF p.kind \in Coded THEN "check" ELSE "read"]
    /\ UNCHANGED <<stock, moved, lock, dirty, pending, read, moves>>

\* The planning loop compares one line with the quantity committed just then.
CheckAvailable(s) ==
    /\ pc[s] = "check"
    /\ -LineDelta(s) <= Quantity(LineKey(s))
    /\ IF idx[s] < Len(Lines(s))
       THEN /\ idx' = [idx EXCEPT ![s] = @ + 1]
            /\ UNCHANGED pc
       ELSE /\ idx' = [idx EXCEPT ![s] = 1]
            /\ pc' = [pc EXCEPT ![s] = "insert"]
    /\ UNCHANGED <<stock, moved, lock, dirty, pending, req, read, moves, begun>>

\* A creator that does not wait for the "PENDING" index entry of another.
InsertPendingUnserialised(s) ==
    /\ pc[s] = "insert"
    /\ pending' = [pending EXCEPT ![Kind(s)] = s]
    /\ pc' = [pc EXCEPT ![s] = "read"]
    /\ UNCHANGED <<stock, moved, lock, dirty, req, idx, read, moves, begun>>

\* The flush that inserts the "PENDING" row; the code is rewritten in the same
\* transaction, so once the holder has ended the entry is free again.
InsertPending(s) ==
    /\ pc[s] = "insert"
    /\ Granted(s)
    /\ pending' = [pending EXCEPT ![Kind(s)] = s]
    /\ pc' = [pc EXCEPT ![s] = "read"]
    /\ UNCHANGED <<stock, moved, lock, dirty, req, idx, read, moves, begun>>

\* apply_movement selects the stock row.
ReadStock(s) ==
    /\ pc[s] = "read"
    /\ LET seen == Visible(s, LineKey(s)) IN
       IF seen = Nil
       THEN pc' = [pc EXCEPT ![s] = "create"] /\ UNCHANGED read
       ELSE pc' = [pc EXCEPT ![s] = "write"] /\ read' = [read EXCEPT ![s] = seen]
    /\ UNCHANGED <<stock, moved, lock, dirty, pending, req, idx, moves, begun>>

\* No row: one with quantity 0 is inserted, holding its unique index entry.
CreateStockRow(s) ==
    /\ pc[s] = "create"
    /\ Granted(s)
    /\ stock[LineKey(s)] = Nil
    /\ lock' = [lock EXCEPT ![LineKey(s)] = s]
    /\ dirty' = [dirty EXCEPT ![LineKey(s)] = 0]
    /\ read' = [read EXCEPT ![s] = 0]
    /\ pc' = [pc EXCEPT ![s] = "write"]
    /\ UNCHANGED <<stock, moved, pending, req, idx, moves, begun>>

\* Another request created the row meanwhile: IntegrityError, the request fails.
UniqueViolation(s) ==
    /\ pc[s] = "create"
    /\ Granted(s)
    /\ stock[LineKey(s)] # Nil
    /\ Rollback(s)

\* A write that does not look at the sign of the balance it is about to store.
WriteStockUnchecked(s) ==
    /\ pc[s] = "write"
    /\ Granted(s)
    /\ IF LineDelta(s) = 0
       THEN UNCHANGED <<lock, dirty>>
       ELSE /\ lock' = [lock EXCEPT ![LineKey(s)] = s]
            /\ dirty' = [dirty EXCEPT ![LineKey(s)] = NewBalance(s)]
    /\ moves' = [moves EXCEPT ![s][LineKey(s)] = @ + LineDelta(s)]
    /\ NextLine(s)
    /\ UNCHANGED <<stock, moved, pending, req, read, begun>>

\* The flush: the absolute balance goes to the row, which stays locked, and the
\* movement is inserted.  An adjustment of zero leaves the attribute as it was,
\* so only its movement is written.
WriteStock(s) ==
    /\ pc[s] = "write"
    /\ Granted(s)
    /\ NewBalance(s) >= 0
    /\ IF LineDelta(s) = 0
       THEN UNCHANGED <<lock, dirty>>
       ELSE /\ lock' = [lock EXCEPT ![LineKey(s)] = s]
            /\ dirty' = [dirty EXCEPT ![LineKey(s)] = NewBalance(s)]
    /\ moves' = [moves EXCEPT ![s][LineKey(s)] = @ + LineDelta(s)]
    /\ NextLine(s)
    /\ UNCHANGED <<stock, moved, pending, req, read, begun>>

\* INSUFFICIENT STOCK, in the planning loop or in apply_movement.
Refuse(s) ==
    /\ \/ pc[s] = "check" /\ -LineDelta(s) > Quantity(LineKey(s))
       \/ pc[s] = "write" /\ NewBalance(s) < 0
    /\ Rollback(s)

\* A handler that publishes what it has at every line instead of once.
CommitEveryLine(s) ==
    /\ pc[s] \in {"read", "commit"}
    /\ pc[s] = "read" => idx[s] > 1
    /\ stock' = [k \in Key |-> IF lock[k] = s THEN dirty[k] ELSE stock[k]]
    /\ moved' = [k \in Key |-> moved[k] + moves[s][k]]
    /\ IF pc[s] = "commit"
       THEN Release(s)
       ELSE /\ lock' = [k \in Key |-> IF lock[k] = s THEN Nil ELSE lock[k]]
            /\ dirty' = [k \in Key |-> IF lock[k] = s THEN Nil ELSE dirty[k]]
            /\ moves' = [moves EXCEPT ![s] = [k \in Key |-> 0]]
            /\ UNCHANGED <<pending, pc, req, idx, read>>
    /\ UNCHANGED begun

\* The single commit of the handler publishes every row the request wrote.
Commit(s) ==
    /\ pc[s] = "commit"
    /\ stock' = [k \in Key |-> IF lock[k] = s THEN dirty[k] ELSE stock[k]]
    /\ moved' = [k \in Key |-> moved[k] + moves[s][k]]
    /\ Release(s)
    /\ UNCHANGED begun

\* PostgreSQL breaks a ring of waiting transactions by failing one of them.
DeadlockVictim(s) ==
    /\ \E C \in SUBSET Session : s \in C /\ Ring(C)
    /\ Rollback(s)

\* The worker dies or the connection drops with the transaction open.
Disconnect(s) == pc[s] # "idle" /\ Rollback(s)

Progress(s) ==
    \/ CheckAvailable(s) \/ InsertPending(s) \/ ReadStock(s) \/ CreateStockRow(s)
    \/ UniqueViolation(s) \/ WriteStock(s) \/ Refuse(s) \/ Commit(s)
    \/ DeadlockVictim(s)

Next == \E s \in Session : \/ \E p \in Payloads : Begin(s, p)
                           \/ Progress(s)
                           \/ Disconnect(s)

Spec == Init /\ [][Next]_vars

\* The server keeps serving a request it has begun; nothing obliges a client to
\* send one or a connection to drop.
FairSpec == Spec /\ \A s \in Session : WF_vars(Progress(s))

-----------------------------------------------------------------------------

\* Every variable has the type its column or local has.
TypeOK ==
    /\ stock \in [Key -> Int \cup {Nil}]
    /\ moved \in [Key -> Int]
    /\ lock \in [Key -> Session \cup {Nil}]
    /\ dirty \in [Key -> Int \cup {Nil}]
    /\ pending \in [Coded -> Session \cup {Nil}]
    /\ pc \in [Session -> {"idle", "check", "insert", "read", "create", "write", "commit"}]
    /\ req \in [Session -> Payloads \cup {Nil}]
    /\ idx \in [Session -> Nat \ {0}]
    /\ read \in [Session -> Int \cup {Nil}]
    /\ moves \in [Session -> [Key -> Int]]
    /\ begun \in Nat

\* apply_movement refuses a movement that would take the balance below zero
\* (stock_service.py:51).  The check is made on a quantity another request may
\* have replaced since, yet what is stored is the checked value, so no
\* interleaving publishes a negative stock.
StockNeverNegative == \A k \in Key : stock[k] # Nil => stock[k] >= 0

\* The pairs whose movements all come from requests of one coded kind: the
\* products a mart only sells, or only distributes.
Touches(p, k) == \E i \in 1..Len(p.lines) : p.lines[i].key = k

OnlyFrom(q, k) == \A p \in Payloads : Touches(p, k) => p.kind = q

SingleFamilyKeys == {k \in Key : \E q \in Coded : OnlyFrom(q, k)}

\* stock_service.py:5 promises that Stock and StockMovement never drift apart.
\* For a pair moved by one coded kind only it holds, whatever the other
\* requests do to the other pairs: the "PENDING" row keeps two such requests
\* from being between their SELECT and their commit at the same time.
SingleFamilyExact == \A k \in SingleFamilyKeys : Quantity(k) = moved[k]

\* The same promise for every pair (stock_service.py:5, models/inventory.py:8).
LedgerExplainsStock == \A k \in Key : Quantity(k) = moved[k]

\* Two sales lock the rows of their lines in the order of their payloads, which
\* may be opposite, and still never deadlock with one another, nor do two
\* distributions over stock: a ring of requests that wait for stock rows always
\* has two kinds in it or an uncoded one (sale_service.py:90,
\* welfare_service.py:163).
SameKindNeverDeadlocks ==
    \A C \in SUBSET Session, q \in Coded :
        Ring(C) => \E s \in C : Kind(s) # q

\* A request that waits for row locks, in a deadlock or not, ends: it commits,
\* is refused, or is the victim the database picks (database.py:32).
EveryRequestEnds == \A s \in Session : pc[s] # "idle" ~> pc[s] = "idle"
=============================================================================
