----------------------------- MODULE GoodsFlow ------------------------------
(***************************************************************************)
(* Goods and money on their way: transfers between warehouses, purchase    *)
(* orders and the movements both cause, the expenses of the marts, the     *)
(* payments to suppliers and the two reports of what is still owed.        *)
(*                                                                         *)
(* A document is created, then moved from status to status by handlers     *)
(* that load it, compare its status and commit.  How apply_movement keeps  *)
(* balances is the subject of StockLedger, where the movements of one      *)
(* request commit all together or not at all; here a refusal for want of   *)
(* stock is an Abandon.                                                    *)
(***************************************************************************)
EXTENDS Requests, Integers, Sequences, Functions

CONSTANTS
    Supplier, Warehouse, Product,
    NewTransfers, NewOrders,  \* payloads of create_transfer and create_purchase_order
    Amounts,                  \* of an expense, and of a payment to a supplier
    Worlds                    \* initial tables, each a state the program reaches

TransferItemIn == [product : Product, quantity : Nat \ {0}]

TransferCreate == [from : Warehouse, to : Warehouse, items : Seq(TransferItemIn)]

PurchaseOrderItemIn == [product : Product, quantity : Nat \ {0}, price : Nat]

PurchaseOrderCreate ==
    [supplier : Supplier \cup {Nil}, warehouse : Warehouse, items : Seq(PurchaseOrderItemIn)]

ASSUME PayloadsAssumption ==
    /\ NewTransfers \subseteq TransferCreate
    /\ NewOrders \subseteq PurchaseOrderCreate
    /\ Amounts \subseteq Nat \ {0}

TransferStatus == {"pending", "approved", "dispatched", "received", "cancelled"}

OrderStatus == {"draft", "approved", "ordered", "received", "cancelled"}

ExpenseStatus == {"submitted", "approved", "rejected", "paid"}

TransferRow ==
    [from : Warehouse, to : Warehouse, items : Seq(TransferItemIn), status : TransferStatus]

PurchaseOrderRow ==
    [supplier : Supplier, warehouse : Warehouse, items : Seq(PurchaseOrderItemIn), total : Nat,
     status : OrderStatus]

ExpenseRow == [amount : Amounts, status : ExpenseStatus]

MovementRow ==
    [type : {"in", "transfer_out", "transfer_in"}, ref : {"transfer", "order"} \X Nat,
     warehouse : Warehouse, product : Product, delta : Int \ {0}]

PaymentRow == [supplier : Supplier, amount : Amounts]


\* Per handler: the table, the status it needs, the status it gives, and the
\* movements it makes, if any.  A rejection comes with a reason.
Rule ==
    [approve_transfer  |-> [table |-> "transfer", needs |-> "pending", gives |-> "approved",
                            moves |-> "none"],
     dispatch_transfer |-> [table |-> "transfer", needs |-> "approved", gives |-> "dispatched",
                            moves |-> "transfer_out"],
     receive_transfer  |-> [table |-> "transfer", needs |-> "dispatched", gives |-> "received",
                            moves |-> "transfer_in"],
     approve_order     |-> [table |-> "order", needs |-> "draft", gives |-> "approved",
                            moves |-> "none"],
     receive_order     |-> [table |-> "order", needs |-> "approved", gives |-> "received",
                            moves |-> "in"],
     approve_expense   |-> [table |-> "expense", needs |-> "submitted", gives |-> "approved",
                            moves |-> "none"],
     reject_expense    |-> [table |-> "expense", needs |-> "submitted", gives |-> "rejected",
                            moves |-> "none"],
     pay_expense       |-> [table |-> "expense", needs |-> "approved", gives |-> "paid",
                            moves |-> "none"]]

\* The action, and the table and id of the entity.
AuditRow ==
    ({"create_transfer", "create_order", "create_expense", "pay"} \cup DOMAIN Rule)
    \X ({"transfer", "order", "expense", "payment"} \X Nat)

-----------------------------------------------------------------------------
\* What the rows say together.  ms are movements, au is an audit trail.

\* total = sum of quantity * unit_price, as its column keeps it: quantities and prices
\* are whole hundredths, their products are ten-thousandths, and Numeric(14, 2) rounds
\* half a hundredth up.
TotalAmount(items) ==
    (SumFunctionOnSet([k \in DOMAIN items |-> items[k].quantity * items[k].price],
                      DOMAIN items) + 50) \div 100

Booked(ref, type, ms) == {k \in DOMAIN ms : ms[k].ref = ref /\ ms[k].type = type}

\* What movements that refer to ref have changed in a warehouse.
Net(ref, w, p, ms) ==
    SumFunctionOnSet([k \in DOMAIN ms |-> ms[k].delta],
                     {k \in DOMAIN ms : ms[k].ref = ref /\ ms[k].warehouse = w /\ ms[k].product = p})

Asked(items, p) ==
    SumFunctionOnSet([k \in DOMAIN items |-> items[k].quantity],
                     {k \in DOMAIN items : items[k].product = p})

Conserved(t, i, ms) ==
    \A k \in DOMAIN t.items : LET p == t.items[k].product IN
        /\ Net(<<"transfer", i>>, t.from, p, ms) =
              (IF t.status \in {"dispatched", "received"} THEN -Asked(t.items, p) ELSE 0)
        /\ Net(<<"transfer", i>>, t.to, p, ms) =
              (IF t.status = "received" THEN Asked(t.items, p) ELSE 0)

TransferBacked(t, i, ms) ==
    t.status \in {"dispatched", "received"} => Booked(<<"transfer", i>>, "transfer_out", ms) # {}

OrderBacked(o, i, ms) == o.status = "received" => Booked(<<"order", i>>, "in", ms) # {}

\* One movement in for every line, in a row, into the warehouse of the order.
Owed(o, i, ms) ==
    LET came == Booked(<<"order", i>>, "in", ms) IN
    IF o.status = "received"
    THEN \E b \in 0..Len(ms) :
            /\ came = {b + k : k \in DOMAIN o.items}
            /\ \A k \in DOMAIN o.items :
                  /\ ms[b + k].product = o.items[k].product
                  /\ ms[b + k].delta = o.items[k].quantity
                  /\ ms[b + k].warehouse = o.warehouse
    ELSE came = {}

Times(op, i, au) == Cardinality({k \in DOMAIN au : au[k] = <<op, <<"expense", i>>>>})

ApprovedFirst(au) ==
    \A k \in DOMAIN au : au[k][1] = "pay_expense" =>
        \E j \in 1..(k - 1) : au[j] = <<"approve_expense", au[k][2]>>

PaidOnce(e, i, au) ==
    /\ Times("pay_expense", i, au) = (IF e.status = "paid" THEN 1 ELSE 0)
    /\ Times("reject_expense", i, au) > 0 => Times("pay_expense", i, au) = 0

\* What every table a behaviour starts from satisfies, the empty ones among them:
\* rows as the handlers write them, references that exist, statuses that tell what
\* was booked and decided.
ASSUME WorldsAssumption == \A w \in Worlds :
    /\ w.transfers \in Seq(TransferRow)
    /\ w.orders \in Seq(PurchaseOrderRow)
    /\ w.expenses \in Seq(ExpenseRow)
    /\ w.movements \in Seq(MovementRow)
    /\ w.audit \in Seq(AuditRow)
    /\ \A i \in DOMAIN w.transfers : LET t == w.transfers[i] IN
          /\ t.from # t.to /\ t.items # << >>
          /\ Conserved(t, i, w.movements) /\ TransferBacked(t, i, w.movements)
    /\ \A i \in DOMAIN w.orders : LET o == w.orders[i] IN
          /\ o.total = TotalAmount(o.items) /\ o.items # << >>
          /\ Owed(o, i, w.movements) /\ OrderBacked(o, i, w.movements)
    /\ \A i \in DOMAIN w.expenses : LET e == w.expenses[i] IN
          /\ PaidOnce(e, i, w.audit)
          /\ e.status \in {"submitted", "approved"} => Times("reject_expense", i, w.audit) = 0
          /\ e.status = "approved" =>
                \E k \in DOMAIN w.audit : w.audit[k] = <<"approve_expense", <<"expense", i>>>>
    /\ ApprovedFirst(w.audit)
    /\ \A k \in DOMAIN w.movements : LET ref == w.movements[k].ref IN
          /\ ref[1] = "transfer" => ref[2] \in DOMAIN w.transfers
          /\ ref[1] = "order" => ref[2] \in DOMAIN w.orders
    /\ \A k \in DOMAIN w.audit : LET ref == w.audit[k][2] IN
          ref[1] = "expense" => ref[2] \in DOMAIN w.expenses

VARIABLES
    transfers, orders, expenses, movements, payments,  \* the committed rows
    audit       \* committed AuditLog rows: handler and document

tables == <<transfers, orders, expenses, movements, payments, audit>>
vars == <<tables, requests>>

Documents == [transfer |-> transfers, order |-> orders, expense |-> expenses]

Row(op, i) == Documents[Rule[op].table][i]

\* A handler that books both directions in the same warehouse.
MovementsToSource(op, i) ==
    LET row == Row(op, i)
        sign == IF op = "dispatch_transfer" THEN -1 ELSE 1
    IN [k \in DOMAIN row.items |->
          [type |-> Rule[op].moves, ref |-> <<Rule[op].table, i>>,
           warehouse |-> IF op = "receive_order" THEN row.warehouse ELSE row.from,
           product |-> row.items[k].product, delta |-> sign * row.items[k].quantity]]

\* One movement per line, out of the source or into the destination.
MovementsOf(op, i) ==
    LET row == Row(op, i)
        where == CASE op = "dispatch_transfer" -> row.from
                   [] op = "receive_transfer"  -> row.to
                   [] op = "receive_order"     -> row.warehouse
        sign == IF op = "dispatch_transfer" THEN -1 ELSE 1
    IN [k \in DOMAIN row.items |->
          [type |-> Rule[op].moves, ref |-> <<Rule[op].table, i>>, warehouse |-> where,
           product |-> row.items[k].product, delta |-> sign * row.items[k].quantity]]

Init ==
    /\ \E w \in Worlds : /\ transfers = w.transfers
                         /\ orders = w.orders
                         /\ expenses = w.expenses
                         /\ movements = w.movements
                         /\ audit = w.audit
    /\ payments = << >>
    /\ InitRequests

-----------------------------------------------------------------------------

\* create_transfer: two different warehouses and at least one line.
ArriveTransfer(s, p) ==
    /\ p.from # p.to
    /\ p.items # << >>
    /\ Arrive(s, [op |-> "create_transfer", at |-> "insert", on |-> {}, payload |-> p])
    /\ UNCHANGED tables

CommitTransfer(s) ==
    /\ At(s, "create_transfer", "commit")
    /\ LET p == task[s].payload IN
       transfers' = Append(transfers, [from |-> p.from, to |-> p.to, items |-> p.items,
                                       status |-> "pending"])
    /\ audit' = Append(audit, <<"create_transfer", <<"transfer", Len(transfers) + 1>>>>)
    /\ End(s)
    /\ UNCHANGED <<orders, expenses, movements, payments>>

\* create_purchase_order: a supplier that exists and at least one line.
ArriveOrder(s, p) ==
    /\ p.supplier \in Supplier
    /\ p.items # << >>
    /\ Arrive(s, [op |-> "create_order", at |-> "insert", on |-> {}, payload |-> p])
    /\ UNCHANGED tables

CommitOrder(s) ==
    /\ At(s, "create_order", "commit")
    /\ LET p == task[s].payload IN
       orders' = Append(orders, [supplier |-> p.supplier, warehouse |-> p.warehouse,
                                 items |-> p.items, total |-> TotalAmount(p.items),
                                 status |-> "draft"])
    /\ audit' = Append(audit, <<"create_order", <<"order", Len(orders) + 1>>>>)
    /\ End(s)
    /\ UNCHANGED <<transfers, expenses, movements, payments>>

\* create_expense: its category exists, and it is submitted at once.
ArriveExpense(s, amount) ==
    /\ Arrive(s, [op |-> "create_expense", at |-> "insert", on |-> {}, amount |-> amount])
    /\ UNCHANGED tables

CommitExpense(s) ==
    /\ At(s, "create_expense", "commit")
    /\ expenses' = Append(expenses, [amount |-> task[s].amount, status |-> "submitted"])
    /\ audit' = Append(audit, <<"create_expense", <<"expense", Len(expenses) + 1>>>>)
    /\ End(s)
    /\ UNCHANGED <<transfers, orders, movements, payments>>

\* A handler that looks for the document and not at its status.
ArriveStepAnyStatus(s, op, i) ==
    /\ Arrive(s, [op |-> op, at |-> "commit", on |-> {<<Rule[op].table, i>>}, id |-> i])
    /\ UNCHANGED tables

\* The handler loads the document with its lines and finds the status it needs.
ArriveStep(s, op, i) ==
    /\ Row(op, i).status = Rule[op].needs
    /\ Arrive(s, [op |-> op, at |-> "commit", on |-> {<<Rule[op].table, i>>}, id |-> i])
    /\ UNCHANGED tables

SetStatus(op, i) ==
    \/ /\ Rule[op].table = "transfer"
       /\ transfers' = [transfers EXCEPT ![i].status = Rule[op].gives]
       /\ UNCHANGED <<orders, expenses>>
    \/ /\ Rule[op].table = "order"
       /\ orders' = [orders EXCEPT ![i].status = Rule[op].gives]
       /\ UNCHANGED <<transfers, expenses>>
    \/ /\ Rule[op].table = "expense"
       /\ expenses' = [expenses EXCEPT ![i].status = Rule[op].gives]
       /\ UNCHANGED <<transfers, orders>>

\* A handler that books the goods and forgets the status.
CommitStepStatusKept(s) ==
    \E op \in DOMAIN Rule :
        /\ At(s, op, "commit")
        /\ LET i == task[s].id IN
           /\ movements' = IF Rule[op].moves = "none" THEN movements
                           ELSE movements \o MovementsOf(op, i)
           /\ audit' = Append(audit, <<op, <<Rule[op].table, i>>>>)
        /\ End(s)
        /\ UNCHANGED <<transfers, orders, expenses, payments>>

\* Movements, status and audit row in one commit, whatever became of the status.
CommitStep(s) ==
    \E op \in DOMAIN Rule :
        /\ At(s, op, "commit")
        /\ LET i == task[s].id IN
           /\ movements' = IF Rule[op].moves = "none" THEN movements
                           ELSE movements \o MovementsOf(op, i)
           /\ SetStatus(op, i)
           /\ audit' = Append(audit, <<op, <<Rule[op].table, i>>>>)
        /\ End(s)
        /\ UNCHANGED payments

\* create_supplier_payment: the supplier exists; no amount is compared with a debt.
ArrivePayment(s, sup, amount) ==
    /\ Arrive(s, [op |-> "pay", at |-> "commit", on |-> {}, supplier |-> sup, amount |-> amount])
    /\ UNCHANGED tables

CommitPayment(s) ==
    /\ At(s, "pay", "commit")
    /\ payments' = Append(payments, [supplier |-> task[s].supplier, amount |-> task[s].amount])
    /\ audit' = Append(audit, <<"pay", <<"payment", Len(payments) + 1>>>>)
    /\ End(s)
    /\ UNCHANGED <<transfers, orders, expenses, movements>>

-----------------------------------------------------------------------------

\* The rows that a grouped SELECT adds up for a supplier.
ReceivedFrom(sup) ==
    {i \in DOMAIN orders : orders[i].supplier = sup /\ orders[i].status = "received"}

Received(sup) ==
    SumFunctionOnSet([i \in DOMAIN orders |-> orders[i].total], ReceivedFrom(sup))

Paid(sup) ==
    SumFunctionOnSet([i \in DOMAIN payments |-> payments[i].amount],
                     {i \in DOMAIN payments : payments[i].supplier = sup})

WithReceipt == {sup \in Supplier : ReceivedFrom(sup) # {}}

\* payables_report, and the payables of the dashboard: first what was received...
ArrivePayables(s, op) ==
    /\ Arrive(s, [op |-> op, at |-> "paid", on |-> {}, listed |-> WithReceipt,
                  received |-> [sup \in Supplier |-> Received(sup)]])
    /\ UNCHANGED tables

\* A report that adds what was paid.
ReadPaidAdded(s) ==
    \E op \in {"payables_report", "dashboard"} :
        /\ At(s, op, "paid")
        /\ LET t == task[s]
               listed == IF op = "dashboard" THEN t.listed ELSE Supplier
           IN Continue(s, [op |-> op, at |-> "answer", on |-> {},
                           due |-> [sup \in listed |-> t.received[sup] + Paid(sup)]])
        /\ UNCHANGED tables

\* ... then what was paid.  The dashboard adds up the suppliers that delivered,
\* the report also lists those that were only paid.
ReadPaid(s) ==
    \E op \in {"payables_report", "dashboard"} :
        /\ At(s, op, "paid")
        /\ LET t == task[s]
               listed == IF op = "dashboard" THEN t.listed ELSE Supplier
           IN Continue(s, [op |-> op, at |-> "answer", on |-> {},
                           due |-> [sup \in listed |-> t.received[sup] - Paid(sup)]])
        /\ UNCHANGED tables

Answer(s) ==
    /\ \E op \in {"payables_report", "dashboard"} : At(s, op, "answer")
    /\ End(s)
    /\ UNCHANGED tables

-----------------------------------------------------------------------------

InsertCoded(s) ==
    /\ \E op \in {"create_transfer", "create_order", "create_expense"} : InsertPending(s, {op})
    /\ UNCHANGED tables

\* A product that does not exist, stock that does not suffice, a disconnection.
Abandon(s) == ~Idle(s) /\ End(s) /\ UNCHANGED tables

Progress(s) ==
    \/ InsertCoded(s) \/ CommitTransfer(s) \/ CommitOrder(s) \/ CommitExpense(s)
    \/ CommitStep(s) \/ CommitPayment(s) \/ ReadPaid(s) \/ Answer(s)

Next == \E s \in Session :
    \/ \E p \in NewTransfers : ArriveTransfer(s, p)
    \/ \E p \in NewOrders : ArriveOrder(s, p)
    \/ \E amount \in Amounts : ArriveExpense(s, amount)
    \/ \E op \in DOMAIN Rule : \E i \in DOMAIN Documents[Rule[op].table] : ArriveStep(s, op, i)
    \/ \E sup \in Supplier, amount \in Amounts : ArrivePayment(s, sup, amount)
    \/ \E op \in {"payables_report", "dashboard"} : ArrivePayables(s, op)
    \/ Progress(s)
    \/ Abandon(s)

Spec == Init /\ [][Next]_vars

-----------------------------------------------------------------------------

Calm(table, i) == <<table, i>> \notin raced

TypeOK ==
    /\ transfers \in Seq(TransferRow)
    /\ orders \in Seq(PurchaseOrderRow)
    /\ expenses \in Seq(ExpenseRow)
    /\ movements \in Seq(MovementRow)
    /\ payments \in Seq(PaymentRow)
    /\ audit \in Seq(AuditRow)
    /\ begun \in 0..MaxRequests

\* warehouse_transfers.py:102 "Deducts stock from the source ... the goods are now
\* considered in transit", line 132 "completes the transfer": what left and what
\* arrived is what the status says, unless two requests had the transfer at once.
TransferConserves ==
    \A i \in DOMAIN transfers : Calm("transfer", i) => Conserved(transfers[i], i, movements)

\* A status is never reached without the movements it stands for, even when a
\* stale approval has put the document back (suppliers.py:150).
GoodsBackStatus ==
    /\ \A i \in DOMAIN transfers : TransferBacked(transfers[i], i, movements)
    /\ \A i \in DOMAIN orders : OrderBacked(orders[i], i, movements)

\* Rows of the right shape, with the movements their statuses stand for
\* (warehouse_transfers.py:115, suppliers.py:180).
GoodsInv == TypeOK /\ GoodsBackStatus

\* suppliers.py:165 "Marks goods received AND increases stock for every line item":
\* an order is owed for exactly when its goods came, every line once and in full into
\* its warehouse, unless two requests had it at once.
OwedForGoodsReceived ==
    \A i \in DOMAIN orders : Calm("order", i) => Owed(orders[i], i, movements)

\* expenses.py:150 "it must be APPROVED first": whatever races, an expense that was
\* paid had been approved before.  And unless two requests had an expense at once,
\* the expenses in status PAID, which finance_reports.py:99 sums, are those paid on
\* the audit trail, once each and never after a rejection.
PaidAfterApproval ==
    /\ ApprovedFirst(audit)
    /\ \A i \in DOMAIN expenses : Calm("expense", i) => PaidOnce(expenses[i], i, audit)

\* expenses.py:201 "computed fresh": at the moment the second SELECT returns, a
\* report never says more is due than is, unless two requests had an order at once.
PayablesNotOverstated ==
    [][\A s \in Session : \A op \in {"payables_report", "dashboard"} :
         /\ At(s, op, "paid") /\ task'[s] # Nil /\ task'[s].at = "answer"
         /\ \A i \in DOMAIN orders : Calm("order", i)
         => \A sup \in DOMAIN task'[s].due : task'[s].due[sup] <= Received(sup) - Paid(sup)]_vars
=============================================================================
