------------------------ MODULE WelfareDistribution ------------------------
(***************************************************************************)
(* The entitlement of one beneficiary: the usage rows of the entitlement   *)
(* rules, the distributions that consume them, the void that reverses a    *)
(* distribution, and the program budget that is bumped afterwards.         *)
(*                                                                         *)
(* create_welfare_transaction plans every item first: it loads the usage   *)
(* row of the current period, creating and flushing it when it is missing, *)
(* and compares the quantity with what remains.  Only then does it insert  *)
(* the transaction row (code "PENDING", unique), add each quantity to the  *)
(* usage object it loaded, and flush.  The planned items keep the usage    *)
(* objects alive, so a second item of the same commodity meets the same    *)
(* object, and what is flushed is an absolute quantity.                    *)
(*                                                                         *)
(* Sessions, row locks and READ COMMITTED are as in StockLedger.  Stock,   *)
(* card and beneficiary checks only appear as the refusals they cause.     *)
(***************************************************************************)
EXTENDS Integers, Sequences, FiniteSets, Functions

CONSTANTS
    Session,      \* requests that can be in flight at once
    Rule,         \* the entitlement rules that apply, one per commodity
    OneTime,      \* those whose period is ONE_TIME
    Alloc,        \* max_quantity of each rule
    Baskets,      \* the distributions clients ask for: items, and their value in
                  \* ten-thousandths (quantities and unit values have two decimals)
    MaxDay,       \* bound: period boundaries that pass
    MaxRequests,  \* bound: number of requests begun in a behaviour
    Nil

Day == 0..MaxDay

Item == [rule : Rule, qty : Nat \ {0}]

\* Quantities are positive; unit_value and max_quantity are any numbers
\* (schemas/welfare.py:147, 148, 47).
ASSUME BasketsAssumption ==
    \A b \in Baskets : /\ b.items \in Seq(Item) /\ b.items # << >>
                       /\ b.value \in Int

ASSUME RulesAssumption == OneTime \subseteq Rule /\ Alloc \in [Rule -> Int]

ASSUME BoundsAssumption == MaxDay \in Nat /\ MaxRequests \in Nat

ASSUME NilAssumption == Nil \notin Session /\ Nil \notin Int

VARIABLES
    used,     \* committed used_quantity of each usage row, Nil when there is none
    tx,       \* committed WelfareTransaction rows in the order of their commits
    budget,   \* committed used_amount of the active budget of the program
    now,      \* the current period
    lock,     \* the session holding a usage row
    dirty,    \* the uncommitted used_quantity of a held row
    pending,  \* the session whose "PENDING" transaction row is uncommitted
    pc,       \* where the handler of a session stands
    req,      \* what a session is serving
    idx,      \* the item it is at
    day,      \* the date whose periods it works on
    obj,      \* used_quantity of the usage objects in its identity map
    seen,     \* the budget's used_amount it has read
    begun,    \* requests begun so far
    raced     \* history: whether two requests have been in flight at once

rows == <<used, tx, budget>>
vars == <<used, tx, budget, now, lock, dirty, pending, pc, req, idx, day, obj, seen, begun, raced>>

-----------------------------------------------------------------------------

\* get_period_key: a one-time rule has a single period, the others a new one
\* for every boundary that passes.
PeriodKey(r, d) == IF r \in OneTime THEN 0 ELSE d

\* A usage row is identified by its rule and period (uq_beneficiary_rule_period).
Row == {u \in Rule \X Day : u[1] \in OneTime => u[2] = 0}

Items(s) == req[s].items
ItemRow(i, d) == <<i.rule, PeriodKey(i.rule, d)>>
Here(s) == ItemRow(Items(s)[idx[s]], day[s])
Qty(s)  == Items(s)[idx[s]].qty
Remaining(s) == Alloc[Here(s)[1]] - obj[s][Here(s)]

Visible(s, u) == IF lock[u] = s THEN dirty[u] ELSE used[u]

\* What a Numeric column of two decimals keeps of an amount in ten-thousandths, in
\* hundredths: the nearest, a tie away from zero.
Rounded(x) == IF x >= 0 THEN (x + 50) \div 100 ELSE -((50 - x) \div 100)

\* The usage rows a void has changed in memory and not yet written.
Unwritten(s) ==
    {u \in {ItemRow(Items(s)[i], day[s]) : i \in 1..Len(Items(s))} :
        lock[u] # s \/ dirty[u] # obj[s][u]}

NoObjects == [u \in Row |-> Nil]

\* The holders a session queues behind.  A void flushes its rows in an order the
\* ORM picks; here it takes the free ones first and waits when none is left.
Awaited(s) ==
    CASE pc[s] = "insert"             -> {pending}
      [] pc[s] \in {"create", "deduct"} -> {lock[Here(s)]}
      [] pc[s] = "flush"              -> {lock[u] : u \in Unwritten(s)}
      [] OTHER                        -> {}

Blocked(s) == /\ Awaited(s) # {}
              /\ Awaited(s) \cap {Nil, s} = {}

\* A request arrives.
Begin ==
    /\ begun < MaxRequests
    /\ begun' = begun + 1
    /\ raced' = (raced \/ \E s \in Session : pc[s] # "idle")

Step(s, from, to) == pc[s] = from /\ pc' = [pc EXCEPT ![s] = to]

\* Go on with the next item in the same loop, or leave it for another phase.
NextItem(s, loop, after) ==
    IF idx[s] < Len(Items(s))
    THEN idx' = [idx EXCEPT ![s] = @ + 1] /\ Step(s, loop, loop)
    ELSE idx' = [idx EXCEPT ![s] = 1] /\ Step(s, loop, after)

\* A transaction that ends and leaves its "PENDING" row in the way of others.
ReleaseAllButPending(s) ==
    /\ lock' = [u \in Row |-> IF lock[u] = s THEN Nil ELSE lock[u]]
    /\ dirty' = [u \in Row |-> IF lock[u] = s THEN Nil ELSE dirty[u]]
    /\ obj' = [obj EXCEPT ![s] = NoObjects]
    /\ UNCHANGED pending

\* The database transaction of s is over.
ReleaseLocks(s) ==
    /\ lock' = [u \in Row |-> IF lock[u] = s THEN Nil ELSE lock[u]]
    /\ dirty' = [u \in Row |-> IF lock[u] = s THEN Nil ELSE dirty[u]]
    /\ pending' = IF pending = s THEN Nil ELSE pending
    /\ obj' = [obj EXCEPT ![s] = NoObjects]

CloseSession(s) ==
    /\ pc' = [pc EXCEPT ![s] = "idle"]
    /\ req' = [req EXCEPT ![s] = Nil]
    /\ idx' = [idx EXCEPT ![s] = 1]
    /\ day' = [day EXCEPT ![s] = Nil]
    /\ seen' = [seen EXCEPT ![s] = Nil]

Rollback(s) ==
    /\ ReleaseLocks(s)
    /\ CloseSession(s)
    /\ UNCHANGED <<rows, now, begun, raced>>

-----------------------------------------------------------------------------

Init ==
    /\ used = [u \in Row |-> Nil]
    /\ tx = << >>
    /\ budget = 0
    /\ now = 0
    /\ lock = [u \in Row |-> Nil]
    /\ dirty = [u \in Row |-> Nil]
    /\ pending = Nil
    /\ pc = [s \in Session |-> "idle"]
    /\ req = [s \in Session |-> Nil]
    /\ idx = [s \in Session |-> 1]
    /\ day = [s \in Session |-> Nil]
    /\ obj = [s \in Session |-> NoObjects]
    /\ seen = [s \in Session |-> Nil]
    /\ begun = 0
    /\ raced = FALSE

\* A distribution request authenticates: its database transaction starts, and
\* with it the instant that created_at will carry (server_default now()).
ArriveDistribution(s, b) ==
    /\ Begin
    /\ Step(s, "idle", "rules")
    /\ req' = [req EXCEPT ![s] = [op |-> "distribute", items |-> b.items,
                                  value |-> b.value, created |-> now, id |-> 0]]
    /\ UNCHANGED <<rows, now, lock, dirty, pending, idx, day, obj, seen>>

\* today = date.today(), then the rules of the beneficiary.
ReadRules(s) ==
    /\ Step(s, "rules", "plan")
    /\ day' = [day EXCEPT ![s] = now]
    /\ UNCHANGED <<rows, now, lock, dirty, pending, req, idx, obj, seen, begun, raced>>

\* The void handler finds the transaction completed and works on the period of
\* created_at from here on.
ArriveVoidOn(s, i, d) ==
    /\ Begin
    /\ tx[i].status = "completed"
    /\ Step(s, "idle", "restore")
    /\ req' = [req EXCEPT ![s] = [op |-> "void", items |-> tx[i].items,
                                  value |-> tx[i].value, created |-> tx[i].created, id |-> i]]
    /\ day' = [day EXCEPT ![s] = d]
    /\ UNCHANGED <<rows, now, lock, dirty, pending, idx, obj, seen>>

\* A void that does not look at the status of the transaction.
ArriveVoidAnyStatus(s, i) ==
    /\ Begin
    /\ Step(s, "idle", "restore")
    /\ req' = [req EXCEPT ![s] = [op |-> "void", items |-> tx[i].items,
                                  value |-> tx[i].value, created |-> tx[i].created, id |-> i]]
    /\ day' = [day EXCEPT ![s] = tx[i].created]
    /\ UNCHANGED <<rows, now, lock, dirty, pending, idx, obj, seen>>

ArriveVoid(s, i) == ArriveVoidOn(s, i, tx[i].created)

\* get_or_create_usage finds the row: the object already in the identity map
\* keeps its attributes, else it is loaded.
LoadUsage(s) ==
    /\ pc[s] \in {"plan", "restore"}
    /\ obj[s][Here(s)] = Nil
    /\ LET seenRow == Visible(s, Here(s)) IN
       IF seenRow = Nil
       THEN pc' = [pc EXCEPT ![s] = "create"] /\ UNCHANGED obj
       ELSE obj' = [obj EXCEPT ![s][Here(s)] = seenRow] /\ UNCHANGED pc
    /\ UNCHANGED <<rows, now, lock, dirty, pending, req, idx, day, seen, begun, raced>>

\* It does not: an unused row is inserted and flushed.
CreateUsage(s) ==
    /\ pc[s] = "create"
    /\ ~Blocked(s)
    /\ used[Here(s)] = Nil
    /\ lock' = [lock EXCEPT ![Here(s)] = s]
    /\ dirty' = [dirty EXCEPT ![Here(s)] = 0]
    /\ obj' = [obj EXCEPT ![s][Here(s)] = 0]
    /\ pc' = [pc EXCEPT ![s] = IF req[s].op = "void" THEN "restore" ELSE "plan"]
    /\ UNCHANGED <<rows, now, pending, req, idx, day, seen, begun, raced>>

UniqueViolation(s) ==
    /\ pc[s] = "create"
    /\ ~Blocked(s)
    /\ used[Here(s)] # Nil
    /\ Rollback(s)

\* A planning loop that never compares the quantity with what remains.
PlanItemUnchecked(s) ==
    /\ pc[s] = "plan"
    /\ obj[s][Here(s)] # Nil
    /\ NextItem(s, "plan", "insert")
    /\ UNCHANGED <<rows, now, lock, dirty, pending, req, day, obj, seen, begun, raced>>

\* The item passes the entitlement check; nothing is deducted yet.
PlanItem(s) ==
    /\ pc[s] = "plan"
    /\ obj[s][Here(s)] # Nil
    /\ Qty(s) <= Remaining(s)
    /\ NextItem(s, "plan", "insert")
    /\ UNCHANGED <<rows, now, lock, dirty, pending, req, day, obj, seen, begun, raced>>

\* ENTITLEMENT EXCEEDED; or the card, the beneficiary, a commodity, a product or
\* the stock refuses, in the checks, in the planning loop or in apply_movement.  A
\* handler that waits in a flush cannot: apply_movement raises after it.
Refuse(s) ==
    /\ pc[s] \in {"rules", "plan", "deduct"}
    /\ ~Blocked(s)
    /\ Rollback(s)

\* The flush of the transaction row with its "PENDING" code.
InsertTransaction(s) ==
    /\ ~Blocked(s)
    /\ Step(s, "insert", "deduct")
    /\ pending' = s
    /\ UNCHANGED <<rows, now, lock, dirty, req, idx, day, obj, seen, begun, raced>>

\* A deduction that is visible to everyone before the transaction commits.
DeductPublishing(s) ==
    /\ pc[s] = "deduct"
    /\ ~Blocked(s)
    /\ LET total == obj[s][Here(s)] + Qty(s) IN
       /\ obj' = [obj EXCEPT ![s][Here(s)] = total]
       /\ dirty' = [dirty EXCEPT ![Here(s)] = total]
       /\ used' = [used EXCEPT ![Here(s)] = total]
    /\ lock' = [lock EXCEPT ![Here(s)] = s]
    /\ NextItem(s, "deduct", "commit")
    /\ UNCHANGED <<tx, budget, now, pending, req, day, seen, begun, raced>>

\* used_quantity += quantity on the object, written by the next flush.
Deduct(s) ==
    /\ pc[s] = "deduct"
    /\ ~Blocked(s)
    /\ LET total == obj[s][Here(s)] + Qty(s) IN
       /\ obj' = [obj EXCEPT ![s][Here(s)] = total]
       /\ dirty' = [dirty EXCEPT ![Here(s)] = total]
    /\ lock' = [lock EXCEPT ![Here(s)] = s]
    /\ NextItem(s, "deduct", "commit")
    /\ UNCHANGED <<rows, now, pending, req, day, seen, begun, raced>>

Publish(s) == used' = [u \in Row |-> IF lock[u] = s THEN dirty[u] ELSE used[u]]

\* The commit of create_welfare_transaction, which stores the rounded total_value.
\* The router goes on to the budget in a transaction of its own, when the
\* distribution has a value.
CommitDistribution(s) ==
    /\ pc[s] = "commit"
    /\ Publish(s)
    /\ ReleaseLocks(s)
    /\ tx' = Append(tx, [items |-> Items(s), value |-> Rounded(req[s].value),
                         created |-> req[s].created, day |-> day[s],
                         status |-> "completed"])
    /\ IF req[s].value = 0
       THEN CloseSession(s)
       ELSE Step(s, "commit", "budget") /\ UNCHANGED <<req, idx, day, seen>>
    /\ UNCHANGED <<budget, now, begun, raced>>

\* _apply_budget_usage reads the active budget of the program.
ReadBudget(s) ==
    /\ Step(s, "budget", "bump")
    /\ seen' = [seen EXCEPT ![s] = budget]
    /\ UNCHANGED <<rows, now, lock, dirty, pending, req, idx, day, obj, begun, raced>>

\* A bump that is tried again although it was committed.
BumpBudgetRetried(s) ==
    /\ pc[s] = "bump"
    /\ budget' = Rounded(100 * seen[s] + req[s].value)
    /\ \/ CloseSession(s)
       \/ Step(s, "bump", "budget") /\ UNCHANGED <<req, idx, day, seen>>
    /\ UNCHANGED <<used, tx, now, lock, dirty, pending, obj, begun, raced>>

\* used_amount += amount, and the second commit of the request.  The object of the
\* transaction still has the total_value of before the commit, unrounded
\* (expire_on_commit=False), and may take from the budget: unit_value is any number.
BumpBudget(s) ==
    /\ pc[s] = "bump"
    /\ budget' = Rounded(100 * seen[s] + req[s].value)
    /\ CloseSession(s)
    /\ UNCHANGED <<used, tx, now, lock, dirty, pending, obj, begun, raced>>

\* The void subtracts the quantity of an item from the object it has loaded.
RestoreItem(s) ==
    /\ pc[s] = "restore"
    /\ obj[s][Here(s)] # Nil
    /\ obj' = [obj EXCEPT ![s][Here(s)] = @ - Qty(s)]
    /\ NextItem(s, "restore", "flush")
    /\ UNCHANGED <<rows, now, lock, dirty, pending, req, day, seen, begun, raced>>

\* Its commit first writes the changed usage rows, one UPDATE each.
FlushUsage(s, u) ==
    /\ pc[s] = "flush"
    /\ u \in Unwritten(s)
    /\ lock[u] \in {Nil, s}
    /\ lock' = [lock EXCEPT ![u] = s]
    /\ dirty' = [dirty EXCEPT ![u] = obj[s][u]]
    /\ UNCHANGED <<rows, now, pending, pc, req, idx, day, obj, seen, begun, raced>>

CommitVoid(s) ==
    /\ pc[s] = "flush"
    /\ Unwritten(s) = {}
    /\ Publish(s)
    /\ tx' = [tx EXCEPT ![req[s].id].status = "voided"]
    /\ ReleaseLocks(s)
    /\ CloseSession(s)
    /\ UNCHANGED <<budget, now, begun, raced>>

DeadlockVictim(s) ==
    /\ \E C \in SUBSET Session :
          /\ s \in C
          /\ \A t \in C : Blocked(t) /\ Awaited(t) \subseteq C
          /\ UNION {Awaited(t) : t \in C} = C
    /\ Rollback(s)

Disconnect(s) == pc[s] # "idle" /\ Rollback(s)

\* Midnight before the first day of a period.
PeriodPasses ==
    /\ now < MaxDay
    /\ now' = now + 1
    /\ UNCHANGED <<rows, lock, dirty, pending, pc, req, idx, day, obj, seen, begun, raced>>

Progress(s) ==
    \/ ReadRules(s) \/ LoadUsage(s) \/ CreateUsage(s) \/ UniqueViolation(s)
    \/ PlanItem(s) \/ Refuse(s) \/ InsertTransaction(s) \/ Deduct(s)
    \/ CommitDistribution(s) \/ ReadBudget(s) \/ BumpBudget(s)
    \/ RestoreItem(s) \/ (\E u \in Row : FlushUsage(s, u)) \/ CommitVoid(s)
    \/ DeadlockVictim(s)

Next ==
    \/ \E s \in Session : \/ \E b \in Baskets : ArriveDistribution(s, b)
                          \/ \E i \in 1..Len(tx) : ArriveVoid(s, i)
                          \/ Progress(s)
                          \/ Disconnect(s)
    \/ PeriodPasses

Spec == Init /\ [][Next]_vars

FairSpec == Spec /\ \A s \in Session : WF_vars(Progress(s))

-----------------------------------------------------------------------------

TransactionRow ==
    [items : {b.items : b \in Baskets}, value : Int, created : Day, day : Day,
     status : {"completed", "voided"}]

\* Every variable has the type its column or local has.
TypeOK ==
    /\ used \in [Row -> Int \cup {Nil}]
    /\ tx \in Seq(TransactionRow)
    /\ budget \in Int
    /\ now \in Day
    /\ lock \in [Row -> Session \cup {Nil}]
    /\ dirty \in [Row -> Int \cup {Nil}]
    /\ pending \in Session \cup {Nil}
    /\ pc \in [Session -> {"idle", "rules", "plan", "create", "insert", "deduct",
                           "commit", "budget", "bump", "restore", "flush"}]
    /\ DOMAIN req = Session
    /\ \A s \in Session :
          pc[s] # "idle" => /\ req[s].op \in {"distribute", "void"}
                            /\ req[s].items \in {b.items : b \in Baskets}
                            /\ req[s].value \in Int
                            /\ req[s].created \in Day
                            /\ req[s].id \in 0..Len(tx)
    /\ idx \in [Session -> Nat \ {0}]
    /\ day \in [Session -> Day \cup {Nil}]
    /\ obj \in [Session -> [Row -> Int \cup {Nil}]]
    /\ seen \in [Session -> Int \cup {Nil}]
    /\ begun \in Nat /\ raced \in BOOLEAN

Used(u) == IF used[u] = Nil THEN 0 ELSE used[u]

\* What the transactions that stand have taken from a row, item by item.
Given(u) ==
    LET standing == {i \in 1..Len(tx) : tx[i].status = "completed"}
        lines == UNION {{<<i, j>> : j \in DOMAIN tx[i].items} : i \in standing}
        taken == {l \in lines : ItemRow(tx[l[1]].items[l[2]], tx[l[1]].day) = u}
    IN SumFunctionOnSet([l \in lines |-> tx[l[1]].items[l[2]].qty], taken)

\* The entitlement check (welfare_service.py:117) holds to the end: however
\* distributions, voids and crashes interleave, no usage row records more than
\* was allocated.  What a request writes it has computed from an object it
\* checked, even when the row has changed since.  It asks for baskets that name
\* a commodity once.
WithinAllocation == \A u \in Row : Used(u) > 0 => Used(u) <= Alloc[u[1]]

\* The entitlement check holds over rows of the right shape (welfare_service.py:117).
AllocationInv == TypeOK /\ WithinAllocation

\* The usage rows are the sum of the transactions that stand (models/welfare.py:12
\* "It deducts entitlement usage atomically"), unless requests were under way at
\* once, or a distribution that crossed into another period has been voided.  And
\* whatever races, deductions may be lost but are never invented: as long as every
\* transaction stands, no row records more than they have given.
UsageMatchesTransactions ==
    /\ \/ raced
       \/ \E i \in 1..Len(tx) : tx[i].status = "voided" /\ tx[i].created # tx[i].day
       \/ \A u \in Row : Used(u) = Given(u)
    /\ (\A i \in 1..Len(tx) : tx[i].status = "completed") =>
          \A u \in Row : Used(u) <= Given(u)

\* The budget is bumped in a second transaction that may be lost with the
\* process, or overwrite a concurrent bump (welfare_transactions.py:46).  Whatever
\* is lost, no distribution is counted twice: the budget is the value of some of
\* them, each taken once, up to a hundredth for every bump that rounds on its own.
BudgetCountsOnce ==
    \E counted \in SUBSET (1..Len(tx)) :
       LET off == budget - SumFunctionOnSet([i \in 1..Len(tx) |-> tx[i].value], counted)
       IN off \in -Cardinality(counted)..Cardinality(counted)

\* The rows a transaction takes from, and those its void gives back to.
RowsTaken(w)    == {ItemRow(w.items[j], w.day) : j \in DOMAIN w.items}
RowsRestored(w) == {ItemRow(w.items[j], w.created) : j \in DOMAIN w.items}

\* welfare_service.py:9 "all inside one DB transaction": recorded usage changes
\* only in a step that also records a transaction, or leaves one voided, and
\* only in the rows of that transaction; a request that is refused or dies half
\* way leaves no trace.  A row that was not there counts as unused.
UsageChangesWithTransaction ==
    [][LET changed == {u \in Row : Used(u)' # Used(u)} IN
       changed # {} =>
          \E i \in 1..Len(tx') :
             \/ i > Len(tx) /\ changed \subseteq RowsTaken(tx'[i])
             \/ tx'[i].status = "voided" /\ changed \subseteq RowsRestored(tx'[i])]_vars

\* Distributions and voids that wait for each other's usage rows and for the
\* "PENDING" row all end (database.py:32).
EveryRequestEnds == \A s \in Session : pc[s] # "idle" ~> pc[s] = "idle"
=============================================================================
