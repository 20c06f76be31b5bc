-------------------------- MODULE GoodsFlowProofs ---------------------------
(***************************************************************************)
(* Proofs about GoodsFlow, for every set of sessions, suppliers,           *)
(* warehouses and products, every payload, and every table its assumptions *)
(* let a behaviour start from.                                             *)
(***************************************************************************)
EXTENDS GoodsFlow, SumsAndSequences

TransferSteps == {"approve_transfer", "dispatch_transfer", "receive_transfer"}

OrderSteps == {"approve_order", "receive_order"}

ExpenseSteps == {"approve_expense", "reject_expense", "pay_expense"}

Reports == {"payables_report", "dashboard"}

Handlers == {"create_transfer", "create_order", "create_expense", "pay"} \cup DOMAIN Rule

ApprovedIn(i, au) == \E k \in DOMAIN au : au[k] = <<"approve_expense", <<"expense", i>>>>

\* What the task of each handler holds.  The tables are parameters, so that the
\* predicates speak of either end of a step.
CreateTransferOK(t) ==
    /\ t.op = "create_transfer" /\ t.payload \in TransferCreate
    /\ t.payload.from # t.payload.to /\ t.payload.items # << >>
    /\ t = [op |-> t.op, at |-> t.at, on |-> {}, payload |-> t.payload]

CreateOrderOK(t) ==
    /\ t.op = "create_order" /\ t.payload \in PurchaseOrderCreate
    /\ t.payload.supplier \in Supplier /\ t.payload.items # << >>
    /\ t = [op |-> t.op, at |-> t.at, on |-> {}, payload |-> t.payload]

CreateExpenseOK(t) ==
    /\ t.op = "create_expense" /\ t.amount \in Amounts
    /\ t = [op |-> t.op, at |-> t.at, on |-> {}, amount |-> t.amount]

\* A transfer is about to be received only when its goods have left.
TransferStepOK(t, ts, ms) ==
    /\ t.op \in TransferSteps /\ t.id \in DOMAIN ts /\ t.on = {<<"transfer", t.id>>}
    /\ t.op = "receive_transfer" => Booked(<<"transfer", t.id>>, "transfer_out", ms) # {}

OrderStepOK(t, os) ==
    t.op \in OrderSteps /\ t.id \in DOMAIN os /\ t.on = {<<"order", t.id>>}

\* An expense is about to be paid only when its approval is on the audit trail.
ExpenseStepOK(t, es, au) ==
    /\ t.op \in ExpenseSteps /\ t.id \in DOMAIN es /\ t.on = {<<"expense", t.id>>}
    /\ t.op = "pay_expense" => ApprovedIn(t.id, au)

PayOK(t) ==
    t.op = "pay" /\ t.supplier \in Supplier /\ t.amount \in Amounts /\ t.on = {}

ReportOK(t) == t.op \in Reports /\ t.on = {}

TaskOK(t, ts, os, es, ms, au) ==
    \/ CreateTransferOK(t) \/ CreateOrderOK(t) \/ CreateExpenseOK(t)
    \/ TransferStepOK(t, ts, ms) \/ OrderStepOK(t, os) \/ ExpenseStepOK(t, es, au)
    \/ PayOK(t) \/ ReportOK(t)

TasksOK ==
    /\ DOMAIN task = Session
    /\ \A s \in Session :
          ~Idle(s) => TaskOK(task[s], transfers, orders, expenses, movements, audit)

\* Rows as the handlers write them; an expense is approved on the audit trail.
RowsOK(ts, os, es, au) ==
    /\ \A i \in DOMAIN ts : ts[i].from # ts[i].to /\ ts[i].items # << >>
    /\ \A i \in DOMAIN os : os[i].items # << >>
    /\ \A i \in DOMAIN es : es[i].status = "approved" => ApprovedIn(i, au)

\* Movements and audit rows refer to documents there are.
RefsOK(ts, os, es, ms, au) ==
    /\ \A k \in DOMAIN ms : /\ ms[k].ref[1] = "transfer" => ms[k].ref[2] \in DOMAIN ts
                            /\ ms[k].ref[1] = "order" => ms[k].ref[2] \in DOMAIN os
    /\ \A k \in DOMAIN au : au[k][2][1] = "expense" => au[k][2][2] \in DOMAIN es

TablesOK ==
    /\ TypeOK /\ GoodsBackStatus
    /\ RowsOK(transfers, orders, expenses, audit)
    /\ RefsOK(transfers, orders, expenses, movements, audit)
    /\ ApprovedFirst(audit)

FlowInv == TablesOK /\ TasksOK

-----------------------------------------------------------------------------
\* The shapes of the commits.

\* A document changes its status and nothing else.
Moves(r, q, i, status) == r = [q EXCEPT ![i].status = status]

\* One movement per line of items is appended to ms.
Books(ns, ms, items, type, ref, w, sign) ==
    /\ Len(ns) = Len(ms) + Len(items)
    /\ \A k \in 1..Len(ms) : ns[k] = ms[k]
    /\ \A k \in 1..Len(items) :
          ns[Len(ms) + k] = [type |-> type, ref |-> ref, warehouse |-> w,
                             product |-> items[k].product, delta |-> sign * items[k].quantity]

LinesOf(m, items, type, ref, w, sign) ==
    m = [k \in DOMAIN items |->
           [type |-> type, ref |-> ref, warehouse |-> w,
            product |-> items[k].product, delta |-> sign * items[k].quantity]]

TransferMoved(op, i) ==
    /\ op \in TransferSteps /\ i \in DOMAIN transfers
    /\ UNCHANGED <<orders, expenses>>
    /\ \/ /\ op = "approve_transfer" /\ Moves(transfers', transfers, i, "approved")
          /\ movements' = movements
       \/ /\ op = "dispatch_transfer" /\ Moves(transfers', transfers, i, "dispatched")
          /\ Books(movements', movements, transfers[i].items, "transfer_out", <<"transfer", i>>,
                   transfers[i].from, -1)
       \/ /\ op = "receive_transfer" /\ Moves(transfers', transfers, i, "received")
          /\ Books(movements', movements, transfers[i].items, "transfer_in", <<"transfer", i>>,
                   transfers[i].to, 1)
    /\ movements' \in Seq(MovementRow)
    /\ audit' = Append(audit, <<op, <<"transfer", i>>>>)

OrderMoved(op, i) ==
    /\ op \in OrderSteps /\ i \in DOMAIN orders
    /\ UNCHANGED <<transfers, expenses>>
    /\ \/ /\ op = "approve_order" /\ Moves(orders', orders, i, "approved")
          /\ movements' = movements
       \/ /\ op = "receive_order" /\ Moves(orders', orders, i, "received")
          /\ Books(movements', movements, orders[i].items, "in", <<"order", i>>,
                   orders[i].warehouse, 1)
    /\ movements' \in Seq(MovementRow)
    /\ audit' = Append(audit, <<op, <<"order", i>>>>)

ExpenseMoved(op, i) ==
    /\ op \in ExpenseSteps /\ i \in DOMAIN expenses
    /\ UNCHANGED <<transfers, orders, movements>>
    /\ Moves(expenses', expenses, i, Rule[op].gives)
    /\ audit' = Append(audit, <<op, <<"expense", i>>>>)

LEMMA RuleIs ==
    /\ DOMAIN Rule = TransferSteps \cup OrderSteps \cup ExpenseSteps
    /\ \A op \in TransferSteps : Rule[op].table = "transfer"
    /\ \A op \in OrderSteps : Rule[op].table = "order"
    /\ \A op \in ExpenseSteps : Rule[op].table = "expense" /\ Rule[op].moves = "none"
    /\ Rule["approve_transfer"].moves = "none" /\ Rule["approve_order"].moves = "none"
    /\ Rule["dispatch_transfer"].moves = "transfer_out"
    /\ Rule["receive_transfer"].moves = "transfer_in"
    /\ Rule["receive_order"].moves = "in"
    /\ Rule["approve_transfer"].gives = "approved" /\ Rule["dispatch_transfer"].gives = "dispatched"
    /\ Rule["receive_transfer"].gives = "received"
    /\ Rule["approve_order"].gives = "approved" /\ Rule["receive_order"].gives = "received"
    /\ Rule["approve_expense"].gives = "approved" /\ Rule["reject_expense"].gives = "rejected"
    /\ Rule["pay_expense"].gives = "paid"
    /\ Rule["approve_transfer"].needs = "pending" /\ Rule["dispatch_transfer"].needs = "approved"
    /\ Rule["receive_transfer"].needs = "dispatched"
    /\ Rule["approve_order"].needs = "draft" /\ Rule["receive_order"].needs = "approved"
    /\ Rule["approve_expense"].needs = "submitted" /\ Rule["reject_expense"].needs = "submitted"
    /\ Rule["pay_expense"].needs = "approved"
BY DEF Rule, TransferSteps, OrderSteps, ExpenseSteps

LEMMA StatusesAre ==
    /\ {"pending", "approved", "dispatched", "received"} \subseteq TransferStatus
    /\ {"draft", "approved", "received"} \subseteq OrderStatus
    /\ \A op \in ExpenseSteps : Rule[op].gives \in ExpenseStatus
BY RuleIs DEF TransferStatus, OrderStatus, ExpenseStatus, ExpenseSteps

LEMMA LinesTyped ==
    ASSUME NEW items \in Seq(TransferItemIn)
    PROVE  /\ Len(items) \in Nat /\ DOMAIN items = 1..Len(items)
           /\ \A k \in 1..Len(items) :
                 items[k].product \in Product /\ items[k].quantity \in Nat \ {0}
<1>1. \A k \in 1..Len(items) : items[k] \in TransferItemIn
  OBVIOUS
<1> QED BY <1>1 DEF TransferItemIn

LEMMA OrderLinesTyped ==
    ASSUME NEW items \in Seq(PurchaseOrderItemIn)
    PROVE  /\ Len(items) \in Nat /\ DOMAIN items = 1..Len(items)
           /\ \A k \in 1..Len(items) :
                 /\ items[k].product \in Product /\ items[k].quantity \in Nat \ {0}
                 /\ items[k].price \in Nat
<1>1. \A k \in 1..Len(items) : items[k] \in PurchaseOrderItemIn
  OBVIOUS
<1> QED BY <1>1 DEF PurchaseOrderItemIn

LEMMA Concatenated ==
    ASSUME NEW S, NEW p \in Seq(S), NEW q \in Seq(S)
    PROVE  /\ p \o q \in Seq(S) /\ Len(p \o q) = Len(p) + Len(q)
           /\ \A k \in 1..Len(p) : (p \o q)[k] = p[k]
           /\ \A k \in 1..Len(q) : (p \o q)[Len(p) + k] = q[k]
OBVIOUS

\* The lines of a document booked in one direction.
LEMMA LinesBooked ==
    ASSUME NEW ms \in Seq(MovementRow), NEW items,
           Len(items) \in Nat, DOMAIN items = 1..Len(items),
           \A k \in 1..Len(items) :
              items[k].product \in Product /\ items[k].quantity \in Nat \ {0},
           NEW type \in {"in", "transfer_out", "transfer_in"},
           NEW ref \in {"transfer", "order"} \X Nat, NEW w \in Warehouse,
           NEW sign \in {-1, 1}, NEW m, LinesOf(m, items, type, ref, w, sign)
    PROVE  Books(ms \o m, ms, items, type, ref, w, sign) /\ ms \o m \in Seq(MovementRow)
<1> DEFINE M == MovementRow
           Line(k) == [type |-> type, ref |-> ref, warehouse |-> w,
                       product |-> items[k].product, delta |-> sign * items[k].quantity]
<1>1. Len(items) \in Nat /\ DOMAIN items = 1..Len(items)
  OBVIOUS
<1>2. ASSUME NEW k \in 1..Len(items) PROVE Line(k) \in M
  <2>1. items[k].product \in Product /\ items[k].quantity \in Nat \ {0}
    BY <1>1
  <2>2. sign * items[k].quantity \in Int \ {0}
    BY <2>1
  <2> QED BY <2>1, <2>2 DEF MovementRow
<1> HIDE DEF M, Line
<1>3. m = [k \in 1..Len(items) |-> Line(k)]
  BY <1>1 DEF Line, LinesOf
<1> PICK n \in Nat : n = Len(items)
  BY <1>1
<1>4. m \in Seq(M) /\ Len(m) = Len(items) /\ \A k \in 1..Len(items) : m[k] = Line(k)
  BY <1>1, <1>2, <1>3
<1>5. ms \in Seq(M) /\ Len(ms) \in Nat
  BY DEF M
<1> HIDE DEF LinesOf
<1>7. ms \in Seq(M) /\ m \in Seq(M)
  BY <1>4, <1>5
<1>6. /\ ms \o m \in Seq(M) /\ Len(ms \o m) = Len(ms) + Len(m)
      /\ \A k \in 1..Len(ms) : (ms \o m)[k] = ms[k]
      /\ \A k \in 1..Len(m) : (ms \o m)[Len(ms) + k] = m[k]
  BY <1>7, Concatenated
<1> QED BY <1>4, <1>6 DEF Books, M, Line

\* What a document is after its status has changed.
LEMMA TransferMove ==
    ASSUME transfers \in Seq(TransferRow), NEW i \in DOMAIN transfers,
           NEW status \in TransferStatus, NEW r, Moves(r, transfers, i, status)
    PROVE  /\ r \in Seq(TransferRow) /\ Len(r) = Len(transfers)
           /\ DOMAIN r = DOMAIN transfers /\ DOMAIN r = 1..Len(transfers)
           /\ r[i].from = transfers[i].from /\ r[i].to = transfers[i].to
           /\ r[i].items = transfers[i].items /\ r[i].status = status
           /\ \A j \in DOMAIN transfers \ {i} : r[j] = transfers[j]
<1>1. transfers[i] \in TransferRow
  OBVIOUS
<1>2. [transfers[i] EXCEPT !.status = status] \in TransferRow
  BY <1>1 DEF TransferRow
<1>3. r \in Seq(TransferRow)
  <2> DEFINE row == [transfers[i] EXCEPT !.status = status]
             R == TransferRow
  <2>1. r = [transfers EXCEPT ![i] = row] /\ row \in R /\ transfers \in Seq(R)
    BY <1>2 DEF Moves
  <2> HIDE DEF row, R
  <2>2. r \in Seq(R)
    BY <2>1
  <2> QED BY <2>2 DEF R
<1>4. /\ Len(r) = Len(transfers) /\ DOMAIN r = DOMAIN transfers
      /\ DOMAIN transfers = 1..Len(transfers)
      /\ r[i] = [transfers[i] EXCEPT !.status = status]
      /\ \A j \in DOMAIN transfers \ {i} : r[j] = transfers[j]
  BY DEF Moves
<1>5. /\ r[i].from = transfers[i].from /\ r[i].to = transfers[i].to
      /\ r[i].items = transfers[i].items /\ r[i].status = status
  BY <1>1, <1>4 DEF TransferRow
<1> QED BY <1>3, <1>4, <1>5

LEMMA OrderMove ==
    ASSUME orders \in Seq(PurchaseOrderRow), NEW i \in DOMAIN orders,
           NEW status \in OrderStatus, NEW r, Moves(r, orders, i, status)
    PROVE  /\ r \in Seq(PurchaseOrderRow) /\ Len(r) = Len(orders)
           /\ DOMAIN r = DOMAIN orders /\ DOMAIN r = 1..Len(orders)
           /\ r[i].supplier = orders[i].supplier /\ r[i].total = orders[i].total
           /\ r[i].warehouse = orders[i].warehouse
           /\ r[i].items = orders[i].items /\ r[i].status = status
           /\ \A j \in DOMAIN orders \ {i} : r[j] = orders[j]
<1>1. orders[i] \in PurchaseOrderRow
  OBVIOUS
<1>2. [orders[i] EXCEPT !.status = status] \in PurchaseOrderRow
  BY <1>1 DEF PurchaseOrderRow
<1>3. r \in Seq(PurchaseOrderRow)
  <2> DEFINE row == [orders[i] EXCEPT !.status = status]
             R == PurchaseOrderRow
  <2>1. r = [orders EXCEPT ![i] = row] /\ row \in R /\ orders \in Seq(R)
    BY <1>2 DEF Moves
  <2> HIDE DEF row, R
  <2>2. r \in Seq(R)
    BY <2>1
  <2> QED BY <2>2 DEF R
<1>4. /\ Len(r) = Len(orders) /\ DOMAIN r = DOMAIN orders
      /\ DOMAIN orders = 1..Len(orders)
      /\ r[i] = [orders[i] EXCEPT !.status = status]
      /\ \A j \in DOMAIN orders \ {i} : r[j] = orders[j]
  BY DEF Moves
<1>5. /\ r[i].supplier = orders[i].supplier /\ r[i].total = orders[i].total
      /\ r[i].warehouse = orders[i].warehouse
      /\ r[i].items = orders[i].items /\ r[i].status = status
  BY <1>1, <1>4 DEF PurchaseOrderRow
<1> QED BY <1>3, <1>4, <1>5

LEMMA ExpenseMove ==
    ASSUME expenses \in Seq(ExpenseRow), NEW i \in DOMAIN expenses,
           NEW status \in ExpenseStatus, NEW r, Moves(r, expenses, i, status)
    PROVE  /\ r \in Seq(ExpenseRow) /\ Len(r) = Len(expenses)
           /\ DOMAIN r = DOMAIN expenses /\ DOMAIN r = 1..Len(expenses)
           /\ r[i].status = status
           /\ \A j \in DOMAIN expenses \ {i} : r[j] = expenses[j]
<1>1. expenses[i] \in ExpenseRow
  OBVIOUS
<1>2. [expenses[i] EXCEPT !.status = status] \in ExpenseRow
  BY <1>1 DEF ExpenseRow
<1>3. r \in Seq(ExpenseRow)
  <2> DEFINE row == [expenses[i] EXCEPT !.status = status]
             R == ExpenseRow
  <2>1. r = [expenses EXCEPT ![i] = row] /\ row \in R /\ expenses \in Seq(R)
    BY <1>2 DEF Moves
  <2> HIDE DEF row, R
  <2>2. r \in Seq(R)
    BY <2>1
  <2> QED BY <2>2 DEF R
<1>4. /\ Len(r) = Len(expenses) /\ DOMAIN r = DOMAIN expenses
      /\ DOMAIN expenses = 1..Len(expenses)
      /\ r[i] = [expenses[i] EXCEPT !.status = status]
      /\ \A j \in DOMAIN expenses \ {i} : r[j] = expenses[j]
  BY DEF Moves
<1>5. r[i].status = status
  BY <1>1, <1>4 DEF ExpenseRow
<1> QED BY <1>3, <1>4, <1>5

\* A commit of one of the eight steps, as one of the three kinds of document.
LEMMA CommitShape ==
    ASSUME FlowInv, NEW s \in Session, CommitStep(s)
    PROVE  /\ ~Idle(s) /\ End(s) /\ task[s].at = "commit" /\ UNCHANGED payments
           /\ \/ TransferMoved(task[s].op, task[s].id) /\ TransferStepOK(task[s], transfers, movements)
              \/ OrderMoved(task[s].op, task[s].id) /\ OrderStepOK(task[s], orders)
              \/ ExpenseMoved(task[s].op, task[s].id) /\ ExpenseStepOK(task[s], expenses, audit)
<1> DEFINE op == task[s].op
           i == task[s].id
<1>1. /\ ~Idle(s) /\ End(s) /\ task[s].at = "commit" /\ op \in DOMAIN Rule /\ UNCHANGED payments
      /\ movements' = IF Rule[op].moves = "none" THEN movements ELSE movements \o MovementsOf(op, i)
      /\ SetStatus(op, i)
      /\ audit' = Append(audit, <<op, <<Rule[op].table, i>>>>)
  BY DEF CommitStep, At
<1>2. \/ TransferStepOK(task[s], transfers, movements)
      \/ OrderStepOK(task[s], orders)
      \/ ExpenseStepOK(task[s], expenses, audit)
  <2>1. TaskOK(task[s], transfers, orders, expenses, movements, audit)
    BY <1>1 DEF FlowInv, TasksOK
  <2>2. op \in TransferSteps \cup OrderSteps \cup ExpenseSteps
    BY <1>1, RuleIs
  <2> QED BY <2>1, <2>2 DEF TaskOK, CreateTransferOK, CreateOrderOK, CreateExpenseOK, PayOK,
             ReportOK, TransferSteps, OrderSteps, ExpenseSteps, Reports
<1>3. /\ movements \in Seq(MovementRow) /\ transfers \in Seq(TransferRow)
      /\ orders \in Seq(PurchaseOrderRow)
  BY DEF FlowInv, TablesOK, TypeOK
<1> HIDE DEF op, i
<1>4. CASE TransferStepOK(task[s], transfers, movements)
  <2>1. op \in TransferSteps /\ i \in DOMAIN transfers /\ Rule[op].table = "transfer"
    BY <1>4, RuleIs DEF TransferStepOK, op, i
  <2>2. Moves(transfers', transfers, i, Rule[op].gives) /\ UNCHANGED <<orders, expenses>>
    BY <1>1, <2>1 DEF SetStatus, Moves
  <2>3. Row(op, i) = transfers[i]
    BY <2>1 DEF Row, Documents
  <2>4. /\ transfers[i].from \in Warehouse /\ transfers[i].to \in Warehouse
        /\ transfers[i].items \in Seq(TransferItemIn)
        /\ <<"transfer", i>> \in {"transfer", "order"} \X Nat
    <3>1. i \in Nat /\ transfers[i] \in TransferRow
      BY <1>3, <2>1
    <3> QED BY <3>1 DEF TransferRow
  <2>5. audit' = Append(audit, <<op, <<"transfer", i>>>>)
    BY <1>1, <2>1
  <2>6. /\ Len(transfers[i].items) \in Nat
        /\ DOMAIN transfers[i].items = 1..Len(transfers[i].items)
        /\ \A k \in 1..Len(transfers[i].items) :
              /\ transfers[i].items[k].product \in Product
              /\ transfers[i].items[k].quantity \in Nat \ {0}
    BY <2>4, LinesTyped
  <2>7. ASSUME op = "approve_transfer" PROVE TransferMoved(op, i)
    <3>1. movements' = movements
      BY <1>1, <2>7, RuleIs
    <3>2. Moves(transfers', transfers, i, "approved")
      BY <2>2, <2>7, RuleIs
    <3> QED BY <1>3, <2>1, <2>2, <2>5, <2>7, <3>1, <3>2 DEF TransferMoved
  <2>8. ASSUME op = "dispatch_transfer" PROVE TransferMoved(op, i)
    <3>1. LinesOf(MovementsOf(op, i), transfers[i].items, "transfer_out", <<"transfer", i>>,
                transfers[i].from, -1)
      BY <2>1, <2>3, <2>8, RuleIs DEF MovementsOf, LinesOf
    <3>2. movements' = movements \o MovementsOf(op, i)
      BY <1>1, <2>8, RuleIs
    <3> HIDE DEF MovementsOf
    <3>3. /\ Books(movements', movements, transfers[i].items, "transfer_out", <<"transfer", i>>,
                   transfers[i].from, -1)
          /\ movements' \in Seq(MovementRow)
      BY <1>3, <2>4, <2>6, <3>1, <3>2, LinesBooked
    <3>4. Moves(transfers', transfers, i, "dispatched")
      BY <2>2, <2>8, RuleIs
    <3> HIDE DEF Moves, Books
    <3> QED BY <2>1, <2>2, <2>5, <2>8, <3>3, <3>4 DEF TransferMoved
  <2>9. ASSUME op = "receive_transfer" PROVE TransferMoved(op, i)
    <3>1. LinesOf(MovementsOf(op, i), transfers[i].items, "transfer_in", <<"transfer", i>>,
                transfers[i].to, 1)
      BY <2>1, <2>3, <2>9, RuleIs DEF MovementsOf, LinesOf
    <3>2. movements' = movements \o MovementsOf(op, i)
      BY <1>1, <2>9, RuleIs
    <3> HIDE DEF MovementsOf
    <3>3. /\ Books(movements', movements, transfers[i].items, "transfer_in", <<"transfer", i>>,
                   transfers[i].to, 1)
          /\ movements' \in Seq(MovementRow)
      BY <1>3, <2>4, <2>6, <3>1, <3>2, LinesBooked
    <3>4. Moves(transfers', transfers, i, "received")
      BY <2>2, <2>9, RuleIs
    <3> HIDE DEF Moves, Books
    <3> QED BY <2>1, <2>2, <2>5, <2>9, <3>3, <3>4 DEF TransferMoved
  <2> QED BY <1>1, <1>4, <2>1, <2>7, <2>8, <2>9 DEF TransferSteps, op, i
<1>5. CASE OrderStepOK(task[s], orders)
  <2>1. op \in OrderSteps /\ i \in DOMAIN orders /\ Rule[op].table = "order"
    BY <1>5, RuleIs DEF OrderStepOK, op, i
  <2>2. Moves(orders', orders, i, Rule[op].gives) /\ UNCHANGED <<transfers, expenses>>
    BY <1>1, <2>1 DEF SetStatus, Moves
  <2>3. Row(op, i) = orders[i]
    BY <2>1 DEF Row, Documents
  <2>4. /\ orders[i].warehouse \in Warehouse /\ orders[i].items \in Seq(PurchaseOrderItemIn)
        /\ <<"order", i>> \in {"transfer", "order"} \X Nat
    <3>1. i \in Nat /\ orders[i] \in PurchaseOrderRow
      BY <1>3, <2>1
    <3> QED BY <3>1 DEF PurchaseOrderRow
  <2>5. audit' = Append(audit, <<op, <<"order", i>>>>)
    BY <1>1, <2>1
  <2>6. /\ Len(orders[i].items) \in Nat
        /\ DOMAIN orders[i].items = 1..Len(orders[i].items)
        /\ \A k \in 1..Len(orders[i].items) :
              /\ orders[i].items[k].product \in Product
              /\ orders[i].items[k].quantity \in Nat \ {0}
    BY <2>4, OrderLinesTyped
  <2>7. ASSUME op = "approve_order" PROVE OrderMoved(op, i)
    <3>1. movements' = movements
      BY <1>1, <2>7, RuleIs
    <3>2. Moves(orders', orders, i, "approved")
      BY <2>2, <2>7, RuleIs
    <3> QED BY <1>3, <2>1, <2>2, <2>5, <2>7, <3>1, <3>2 DEF OrderMoved
  <2>8. ASSUME op = "receive_order" PROVE OrderMoved(op, i)
    <3>1. LinesOf(MovementsOf(op, i), orders[i].items, "in", <<"order", i>>, orders[i].warehouse, 1)
      BY <2>1, <2>3, <2>8, RuleIs DEF MovementsOf, LinesOf
    <3>2. movements' = movements \o MovementsOf(op, i)
      BY <1>1, <2>8, RuleIs
    <3> HIDE DEF MovementsOf
    <3>3. /\ Books(movements', movements, orders[i].items, "in", <<"order", i>>,
                   orders[i].warehouse, 1)
          /\ movements' \in Seq(MovementRow)
      BY <1>3, <2>4, <2>6, <3>1, <3>2, LinesBooked
    <3>4. Moves(orders', orders, i, "received")
      BY <2>2, <2>8, RuleIs
    <3> HIDE DEF Moves, Books
    <3> QED BY <2>1, <2>2, <2>5, <2>8, <3>3, <3>4 DEF OrderMoved
  <2> QED BY <1>1, <1>5, <2>1, <2>7, <2>8 DEF OrderSteps, op, i
<1>6. CASE ExpenseStepOK(task[s], expenses, audit)
  <2>1. op \in ExpenseSteps /\ i \in DOMAIN expenses /\ Rule[op].table = "expense"
    BY <1>6, RuleIs DEF ExpenseStepOK, op, i
  <2>2. Moves(expenses', expenses, i, Rule[op].gives) /\ UNCHANGED <<transfers, orders>>
    BY <1>1, <2>1 DEF SetStatus, Moves
  <2>3. movements' = movements /\ audit' = Append(audit, <<op, <<"expense", i>>>>)
    BY <1>1, <2>1, RuleIs
  <2> QED BY <1>1, <1>6, <2>1, <2>2, <2>3 DEF ExpenseMoved, op, i
<1> QED BY <1>2, <1>4, <1>5, <1>6

-----------------------------------------------------------------------------
\* The tables only grow.

Extends(r, q) == \A k \in DOMAIN q : k \in DOMAIN r /\ r[k] = q[k]

Grew ==
    /\ DOMAIN transfers \subseteq DOMAIN transfers' /\ DOMAIN orders \subseteq DOMAIN orders'
    /\ DOMAIN expenses \subseteq DOMAIN expenses'
    /\ Extends(movements', movements) /\ Extends(audit', audit)

LEMMA BookedStays ==
    ASSUME NEW ref, NEW type, NEW ms, NEW ns, Extends(ns, ms)
    PROVE  Booked(ref, type, ms) \subseteq Booked(ref, type, ns)
BY DEF Booked, Extends

LEMMA ApprovedStays ==
    ASSUME NEW i, NEW au, NEW bu, Extends(bu, au), ApprovedIn(i, au)
    PROVE  ApprovedIn(i, bu)
BY DEF ApprovedIn, Extends

LEMMA TaskStays ==
    ASSUME Grew, NEW t, TaskOK(t, transfers, orders, expenses, movements, audit)
    PROVE  TaskOK(t, transfers', orders', expenses', movements', audit')
<1>1. TransferStepOK(t, transfers, movements) => TransferStepOK(t, transfers', movements')
  <2>1. Booked(<<"transfer", t.id>>, "transfer_out", movements)
           \subseteq Booked(<<"transfer", t.id>>, "transfer_out", movements')
    BY BookedStays DEF Grew
  <2> QED BY <2>1 DEF Grew, TransferStepOK
<1>2. OrderStepOK(t, orders) => OrderStepOK(t, orders')
  BY DEF Grew, OrderStepOK
<1>3. ExpenseStepOK(t, expenses, audit) => ExpenseStepOK(t, expenses', audit')
  BY ApprovedStays DEF Grew, ExpenseStepOK
<1> QED BY <1>1, <1>2, <1>3 DEF TaskOK

LEMMA ArriveSafe ==
    ASSUME FlowInv, NEW s \in Session, NEW t, Arrive(s, t), UNCHANGED tables,
           TaskOK(t, transfers, orders, expenses, movements, audit)
    PROVE  FlowInv'
<1>1. UNCHANGED <<transfers, orders, expenses, movements, payments, audit>>
  BY DEF tables
<1>2. TasksOK'
  BY <1>1 DEF FlowInv, TasksOK, Arrive, Idle
<1>3. begun' \in 0..MaxRequests
  BY MaxRequestsIsNat DEF FlowInv, TablesOK, TypeOK, Arrive
<1>4. TablesOK'
  BY <1>1, <1>3 DEF FlowInv, TablesOK, TypeOK, GoodsBackStatus
<1> QED BY <1>2, <1>4 DEF FlowInv

LEMMA ContinueSafe ==
    ASSUME FlowInv, NEW s \in Session, NEW t, Continue(s, t), UNCHANGED tables,
           TaskOK(t, transfers, orders, expenses, movements, audit)
    PROVE  FlowInv'
<1>1. UNCHANGED <<transfers, orders, expenses, movements, payments, audit, begun>>
  BY DEF tables, Continue
<1>2. TasksOK'
  BY <1>1 DEF FlowInv, TasksOK, Continue, Idle
<1>4. TablesOK'
  BY <1>1 DEF FlowInv, TablesOK, TypeOK, GoodsBackStatus
<1> QED BY <1>2, <1>4 DEF FlowInv

LEMMA EndSafe ==
    ASSUME FlowInv, NEW s \in Session, End(s), Grew
    PROVE  TasksOK' /\ begun' = begun
<1>1. task' = [task EXCEPT ![s] = Nil] /\ DOMAIN task = Session /\ begun' = begun
  BY DEF End, FlowInv, TasksOK
<1>2. ASSUME NEW r \in Session, ~Idle(r)'
      PROVE  TaskOK(task'[r], transfers', orders', expenses', movements', audit')
  <2>1. r # s /\ task'[r] = task[r] /\ ~Idle(r)
    BY <1>1, <1>2 DEF Idle
  <2>2. TaskOK(task[r], transfers, orders, expenses, movements, audit)
    BY <2>1 DEF FlowInv, TasksOK
  <2> QED BY <2>1, <2>2, TaskStays
<1>3. DOMAIN task' = Session
  BY <1>1
<1> QED BY <1>1, <1>2, <1>3 DEF TasksOK

LEMMA AbandonSafe ==
    ASSUME FlowInv, NEW s \in Session, End(s), UNCHANGED tables
    PROVE  FlowInv'
<1>1. UNCHANGED <<transfers, orders, expenses, movements, payments, audit>>
  BY DEF tables
<1>2. Grew
  BY <1>1 DEF Grew, Extends
<1>3. TasksOK' /\ begun' = begun
  BY <1>2, EndSafe
<1>4. TablesOK'
  BY <1>1, <1>3 DEF FlowInv, TablesOK, TypeOK, GoodsBackStatus
<1> QED BY <1>3, <1>4 DEF FlowInv

LEMMA FlowInit == Init => FlowInv
<1> SUFFICES ASSUME Init PROVE FlowInv
  OBVIOUS
<1>1. PICK w \in Worlds : /\ transfers = w.transfers /\ orders = w.orders
                          /\ expenses = w.expenses /\ movements = w.movements
                          /\ audit = w.audit
  BY DEF Init
<1>2. payments \in Seq(PaymentRow) /\ begun \in 0..MaxRequests /\ TasksOK
  BY MaxRequestsIsNat DEF Init, InitRequests, TasksOK, Idle
<1>3. TypeOK /\ GoodsBackStatus
  BY <1>1, <1>2, WorldsAssumption DEF TypeOK, GoodsBackStatus
<1>4. RowsOK(transfers, orders, expenses, audit)
  BY <1>1, WorldsAssumption DEF RowsOK, ApprovedIn
<1>5. RefsOK(transfers, orders, expenses, movements, audit) /\ ApprovedFirst(audit)
  BY <1>1, WorldsAssumption DEF RefsOK
<1> QED BY <1>2, <1>3, <1>4, <1>5 DEF FlowInv, TablesOK

-----------------------------------------------------------------------------
\* What a commit does to the audit trail.

Audited(op, table, id) == audit' = Append(audit, <<op, <<table, id>>>>)

LEMMA AuditGrows ==
    ASSUME audit \in Seq(AuditRow), NEW op \in Handlers,
           NEW table \in {"transfer", "order", "expense", "payment"}, NEW id \in Nat,
           Audited(op, table, id)
    PROVE  /\ audit' \in Seq(AuditRow) /\ Len(audit) \in Nat
           /\ DOMAIN audit = 1..Len(audit) /\ DOMAIN audit' = 1..(Len(audit) + 1)
           /\ audit'[Len(audit) + 1] = <<op, <<table, id>>>>
           /\ \A k \in 1..Len(audit) : audit'[k] = audit[k]
           /\ Extends(audit', audit)
<1> DEFINE A == AuditRow
           e == <<op, <<table, id>>>>
<1>1. e \in A /\ audit \in Seq(A) /\ audit' = Append(audit, e)
  BY DEF AuditRow, Audited, Handlers
<1> HIDE DEF A, e
<1>2. /\ audit' \in Seq(A) /\ Len(audit) \in Nat
      /\ DOMAIN audit = 1..Len(audit) /\ DOMAIN audit' = 1..(Len(audit) + 1)
      /\ audit'[Len(audit) + 1] = e
      /\ \A k \in 1..Len(audit) : audit'[k] = audit[k]
  BY <1>1
<1> QED BY <1>2 DEF A, e, Extends

LEMMA AuditSafe ==
    ASSUME TablesOK, NEW op \in Handlers,
           NEW table \in {"transfer", "order", "expense", "payment"}, NEW id \in Nat,
           Audited(op, table, id),
           DOMAIN expenses \subseteq DOMAIN expenses',
           table = "expense" => id \in DOMAIN expenses',
           op = "pay_expense" => table = "expense" /\ ApprovedIn(id, audit)
    PROVE  /\ ApprovedFirst(audit')
           /\ \A k \in DOMAIN audit' : audit'[k][2][1] = "expense" =>
                 audit'[k][2][2] \in DOMAIN expenses'
<1>1. /\ Len(audit) \in Nat
      /\ DOMAIN audit = 1..Len(audit) /\ DOMAIN audit' = 1..(Len(audit) + 1)
      /\ audit'[Len(audit) + 1] = <<op, <<table, id>>>>
      /\ \A k \in 1..Len(audit) : audit'[k] = audit[k]
  BY AuditGrows DEF TablesOK, TypeOK
<1>2. ApprovedFirst(audit) /\ RefsOK(transfers, orders, expenses, movements, audit)
  BY DEF TablesOK
<1>3. ASSUME NEW k \in DOMAIN audit', audit'[k][1] = "pay_expense"
      PROVE  \E j \in 1..(k - 1) : audit'[j] = <<"approve_expense", audit'[k][2]>>
  <2>1. CASE k \in 1..Len(audit)
    <3>1. PICK j \in 1..(k - 1) : audit[j] = <<"approve_expense", audit[k][2]>>
      BY <1>1, <1>2, <1>3, <2>1 DEF ApprovedFirst
    <3>2. j \in 1..Len(audit)
      BY <1>1, <2>1
    <3> QED BY <1>1, <2>1, <3>1, <3>2
  <2>2. CASE k = Len(audit) + 1
    <3>1. op = "pay_expense" /\ audit'[k][2] = <<table, id>>
      BY <1>1, <1>3, <2>2
    <3>2. PICK j \in DOMAIN audit : audit[j] = <<"approve_expense", <<"expense", id>>>>
      BY <3>1 DEF ApprovedIn
    <3>3. j \in 1..(k - 1) /\ audit'[j] = audit[j]
      BY <1>1, <2>2, <3>2
    <3> QED BY <3>1, <3>2, <3>3
  <2>3. k \in 1..Len(audit) \/ k = Len(audit) + 1
    BY <1>1
  <2> QED BY <2>1, <2>2, <2>3
<1>4. ASSUME NEW k \in DOMAIN audit', audit'[k][2][1] = "expense"
      PROVE  audit'[k][2][2] \in DOMAIN expenses'
  <2>1. CASE k \in 1..Len(audit)
    BY <1>1, <1>2, <1>4, <2>1 DEF RefsOK
  <2>2. CASE k = Len(audit) + 1
    BY <1>1, <1>4, <2>2
  <2>3. k \in 1..Len(audit) \/ k = Len(audit) + 1
    BY <1>1
  <2> QED BY <2>1, <2>2, <2>3
<1> QED BY <1>3, <1>4 DEF ApprovedFirst

-----------------------------------------------------------------------------
\* The creates.

LEMMA Appended ==
    ASSUME NEW S, NEW q \in Seq(S), NEW row \in S, NEW r, More(r, q, row)
    PROVE  /\ r \in Seq(S) /\ Len(q) \in Nat /\ DOMAIN q = 1..Len(q)
           /\ DOMAIN r = 1..(Len(q) + 1) /\ r[Len(q) + 1] = row
           /\ \A k \in 1..Len(q) : r[k] = q[k]
           /\ DOMAIN q \subseteq DOMAIN r
BY DEF More

NewTransfer(p) == [from |-> p.from, to |-> p.to, items |-> p.items, status |-> "pending"]

NewOrder(p) == [supplier |-> p.supplier, warehouse |-> p.warehouse, items |-> p.items,
                total |-> TotalAmount(p.items), status |-> "draft"]

\* A total is a number.
LEMMA TotalIsNat ==
    ASSUME NEW items \in Seq(PurchaseOrderItemIn)
    PROVE  TotalAmount(items) \in Nat
<1> DEFINE f == [k \in DOMAIN items |-> items[k].quantity * items[k].price]
<1>1. /\ Len(items) \in Nat /\ DOMAIN items = 1..Len(items)
      /\ \A k \in 1..Len(items) : items[k].quantity \in Nat \ {0} /\ items[k].price \in Nat
  BY OrderLinesTyped
<1>2. ASSUME NEW k \in DOMAIN items PROVE f[k] \in Nat
  BY <1>1
<1>3. IsFiniteSet(DOMAIN items)
  BY <1>1, FS_Interval
<1> HIDE DEF f
<1>4. SumFunctionOnSet(f, DOMAIN items) \in Nat
  BY <1>2, <1>3, SumNat
<1>5. (SumFunctionOnSet(f, DOMAIN items) + 50) \div 100 \in Nat
  BY <1>4
<1> QED BY <1>5 DEF f, TotalAmount

\* What each create does to the tables.
LEMMA TransferCreated ==
    ASSUME FlowInv, NEW s \in Session, CommitTransfer(s)
    PROVE  /\ ~Idle(s) /\ End(s) /\ UNCHANGED <<orders, expenses, movements, payments>>
           /\ CreateTransferOK(task[s])
           /\ NewTransfer(task[s].payload) \in TransferRow
           /\ More(transfers', transfers, NewTransfer(task[s].payload))
           /\ Len(transfers) \in Nat
           /\ Audited("create_transfer", "transfer", Len(transfers) + 1)
<1>1. ~Idle(s) /\ End(s) /\ task[s].op = "create_transfer"
  BY DEF CommitTransfer, At
<1>2. CreateTransferOK(task[s])
  <2>1. TaskOK(task[s], transfers, orders, expenses, movements, audit)
    BY <1>1 DEF FlowInv, TasksOK
  <2> QED BY <1>1, <2>1 DEF TaskOK, CreateOrderOK, CreateExpenseOK, TransferStepOK, OrderStepOK,
             ExpenseStepOK, PayOK, ReportOK, TransferSteps, OrderSteps, ExpenseSteps, Reports
<1>3. NewTransfer(task[s].payload) \in TransferRow
  BY <1>2, StatusesAre DEF CreateTransferOK, TransferCreate, TransferRow, NewTransfer
<1>4. Len(transfers) \in Nat
  BY DEF FlowInv, TablesOK, TypeOK
<1> QED BY <1>1, <1>2, <1>3, <1>4 DEF CommitTransfer, More, NewTransfer, Audited

LEMMA OrderCreated ==
    ASSUME FlowInv, NEW s \in Session, CommitOrder(s)
    PROVE  /\ ~Idle(s) /\ End(s) /\ UNCHANGED <<transfers, expenses, movements, payments>>
           /\ CreateOrderOK(task[s])
           /\ NewOrder(task[s].payload) \in PurchaseOrderRow
           /\ More(orders', orders, NewOrder(task[s].payload))
           /\ Len(orders) \in Nat
           /\ Audited("create_order", "order", Len(orders) + 1)
<1>1. ~Idle(s) /\ End(s) /\ task[s].op = "create_order"
  BY DEF CommitOrder, At
<1>2. CreateOrderOK(task[s])
  <2>1. TaskOK(task[s], transfers, orders, expenses, movements, audit)
    BY <1>1 DEF FlowInv, TasksOK
  <2> QED BY <1>1, <2>1 DEF TaskOK, CreateTransferOK, CreateExpenseOK, TransferStepOK, OrderStepOK,
             ExpenseStepOK, PayOK, ReportOK, TransferSteps, OrderSteps, ExpenseSteps, Reports
<1>3. NewOrder(task[s].payload) \in PurchaseOrderRow
  <2>1. /\ task[s].payload.items \in Seq(PurchaseOrderItemIn)
        /\ task[s].payload.supplier \in Supplier /\ task[s].payload.warehouse \in Warehouse
    BY <1>2 DEF CreateOrderOK, PurchaseOrderCreate
  <2>2. TotalAmount(task[s].payload.items) \in Nat
    BY <2>1, TotalIsNat
  <2> QED BY <2>1, <2>2, StatusesAre DEF PurchaseOrderRow, NewOrder
<1>4. Len(orders) \in Nat
  BY DEF FlowInv, TablesOK, TypeOK
<1> QED BY <1>1, <1>2, <1>3, <1>4 DEF CommitOrder, More, NewOrder, Audited

LEMMA ExpenseCreated ==
    ASSUME FlowInv, NEW s \in Session, CommitExpense(s)
    PROVE  /\ ~Idle(s) /\ End(s) /\ UNCHANGED <<transfers, orders, movements, payments>>
           /\ [amount |-> task[s].amount, status |-> "submitted"] \in ExpenseRow
           /\ More(expenses', expenses, [amount |-> task[s].amount, status |-> "submitted"])
           /\ Len(expenses) \in Nat
           /\ Audited("create_expense", "expense", Len(expenses) + 1)
<1>1. ~Idle(s) /\ End(s) /\ task[s].op = "create_expense"
  BY DEF CommitExpense, At
<1>2. CreateExpenseOK(task[s])
  <2>1. TaskOK(task[s], transfers, orders, expenses, movements, audit)
    BY <1>1 DEF FlowInv, TasksOK
  <2> QED BY <1>1, <2>1 DEF TaskOK, CreateTransferOK, CreateOrderOK, TransferStepOK, OrderStepOK,
             ExpenseStepOK, PayOK, ReportOK, TransferSteps, OrderSteps, ExpenseSteps, Reports
<1>3. [amount |-> task[s].amount, status |-> "submitted"] \in ExpenseRow
  BY <1>2 DEF CreateExpenseOK, ExpenseRow, ExpenseStatus
<1>4. Len(expenses) \in Nat
  BY DEF FlowInv, TablesOK, TypeOK
<1> QED BY <1>1, <1>2, <1>3, <1>4 DEF CommitExpense, More, Audited

LEMMA PaymentMade ==
    ASSUME FlowInv, NEW s \in Session, CommitPayment(s)
    PROVE  /\ ~Idle(s) /\ End(s) /\ UNCHANGED <<transfers, orders, expenses, movements>>
           /\ [supplier |-> task[s].supplier, amount |-> task[s].amount] \in PaymentRow
           /\ More(payments', payments,
                   [supplier |-> task[s].supplier, amount |-> task[s].amount])
           /\ Len(payments) \in Nat
           /\ Audited("pay", "payment", Len(payments) + 1)
<1>1. ~Idle(s) /\ End(s) /\ task[s].op = "pay"
  BY DEF CommitPayment, At
<1>2. PayOK(task[s])
  <2>1. TaskOK(task[s], transfers, orders, expenses, movements, audit)
    BY <1>1 DEF FlowInv, TasksOK
  <2> QED BY <1>1, <2>1 DEF TaskOK, CreateTransferOK, CreateOrderOK, CreateExpenseOK,
             TransferStepOK, OrderStepOK, ExpenseStepOK, ReportOK, TransferSteps, OrderSteps,
             ExpenseSteps, Reports
<1>3. [supplier |-> task[s].supplier, amount |-> task[s].amount] \in PaymentRow
  BY <1>2 DEF PayOK, PaymentRow
<1>4. Len(payments) \in Nat
  BY DEF FlowInv, TablesOK, TypeOK
<1> QED BY <1>1, <1>2, <1>3, <1>4 DEF CommitPayment, More, Audited

LEMMA CommitTransferSafe ==
    ASSUME FlowInv, NEW s \in Session, CommitTransfer(s)
    PROVE  FlowInv'
<1> DEFINE p == task[s].payload
           new == NewTransfer(p)
           n == Len(transfers)
<1>1. /\ ~Idle(s) /\ End(s) /\ UNCHANGED <<orders, expenses, movements, payments>>
      /\ CreateTransferOK(task[s]) /\ new \in TransferRow /\ More(transfers', transfers, new)
      /\ n \in Nat /\ Audited("create_transfer", "transfer", n + 1)
  BY TransferCreated
<1>2. TablesOK
  BY DEF FlowInv
<1>3. new.from # new.to /\ new.items # << >> /\ new.status = "pending"
  BY <1>1 DEF CreateTransferOK, NewTransfer
<1>4. /\ transfers' \in Seq(TransferRow)
      /\ DOMAIN transfers = 1..n /\ DOMAIN transfers' = 1..(n + 1)
      /\ transfers'[n + 1] = new /\ \A k \in 1..n : transfers'[k] = transfers[k]
      /\ DOMAIN transfers \subseteq DOMAIN transfers'
  <2>1. transfers \in Seq(TransferRow)
    BY <1>2 DEF TablesOK, TypeOK
  <2> QED BY <1>1, <2>1, Appended
<1> HIDE DEF n, new
<1>13. n + 1 \in Nat /\ "create_transfer" \in Handlers /\ "create_transfer" # "pay_expense"
  BY <1>1 DEF Handlers
<1>5. audit' \in Seq(AuditRow) /\ Extends(audit', audit)
  BY <1>1, <1>2, <1>13, AuditGrows DEF TablesOK, TypeOK
<1>6. /\ ApprovedFirst(audit')
      /\ \A k \in DOMAIN audit' : audit'[k][2][1] = "expense" =>
            audit'[k][2][2] \in DOMAIN expenses'
  BY <1>1, <1>2, <1>13, AuditSafe
<1>7. Grew
  BY <1>1, <1>4, <1>5 DEF Grew, Extends
<1>8. TasksOK' /\ begun' = begun
  BY <1>1, <1>7, EndSafe
<1>9. TypeOK'
  BY <1>1, <1>2, <1>4, <1>5, <1>8 DEF TablesOK, TypeOK
<1>10. GoodsBackStatus'
  <2>1. ASSUME NEW i \in DOMAIN transfers' PROVE TransferBacked(transfers'[i], i, movements')
    <3>1. i \in 1..n \/ i = n + 1
      BY <1>1, <1>4
    <3> QED BY <1>1, <1>2, <1>3, <1>4, <3>1 DEF TablesOK, GoodsBackStatus, TransferBacked
  <2> QED BY <1>1, <1>2, <2>1 DEF TablesOK, GoodsBackStatus
<1>11. RowsOK(transfers, orders, expenses, audit)'
  <2>1. ASSUME NEW i \in DOMAIN transfers'
        PROVE  transfers'[i].from # transfers'[i].to /\ transfers'[i].items # << >>
    <3>1. i \in 1..n \/ i = n + 1
      BY <1>1, <1>4
    <3> QED BY <1>1, <1>2, <1>3, <1>4, <3>1 DEF TablesOK, RowsOK
  <2> QED BY <1>1, <1>2, <1>5, <2>1, ApprovedStays DEF TablesOK, RowsOK
<1>12. RefsOK(transfers, orders, expenses, movements, audit)'
  BY <1>1, <1>2, <1>4, <1>6 DEF TablesOK, RefsOK
<1> QED BY <1>6, <1>8, <1>9, <1>10, <1>11, <1>12 DEF FlowInv, TablesOK

LEMMA CommitOrderSafe ==
    ASSUME FlowInv, NEW s \in Session, CommitOrder(s)
    PROVE  FlowInv'
<1> DEFINE p == task[s].payload
           new == NewOrder(p)
           n == Len(orders)
<1>1. /\ ~Idle(s) /\ End(s) /\ UNCHANGED <<transfers, expenses, movements, payments>>
      /\ CreateOrderOK(task[s]) /\ new \in PurchaseOrderRow /\ More(orders', orders, new)
      /\ n \in Nat /\ Audited("create_order", "order", n + 1)
  BY OrderCreated
<1>2. TablesOK
  BY DEF FlowInv
<1>3. new.items # << >> /\ new.status = "draft"
  BY <1>1 DEF CreateOrderOK, NewOrder
<1>4. /\ orders' \in Seq(PurchaseOrderRow)
      /\ DOMAIN orders = 1..n /\ DOMAIN orders' = 1..(n + 1)
      /\ orders'[n + 1] = new /\ \A k \in 1..n : orders'[k] = orders[k]
      /\ DOMAIN orders \subseteq DOMAIN orders'
  <2>1. orders \in Seq(PurchaseOrderRow)
    BY <1>2 DEF TablesOK, TypeOK
  <2> QED BY <1>1, <2>1, Appended
<1> HIDE DEF n, new
<1>5. n + 1 \in Nat /\ "create_order" \in Handlers /\ "create_order" # "pay_expense"
  BY <1>1 DEF Handlers
<1>6. /\ audit' \in Seq(AuditRow) /\ Extends(audit', audit)
      /\ ApprovedFirst(audit')
      /\ \A k \in DOMAIN audit' : audit'[k][2][1] = "expense" =>
            audit'[k][2][2] \in DOMAIN expenses'
  <2>1. audit' \in Seq(AuditRow) /\ Extends(audit', audit)
    BY <1>1, <1>2, <1>5, AuditGrows DEF TablesOK, TypeOK
  <2> QED BY <1>1, <1>2, <1>5, <2>1, AuditSafe
<1>7. Grew
  BY <1>1, <1>4, <1>6 DEF Grew, Extends
<1>8. TasksOK' /\ begun' = begun
  BY <1>1, <1>7, EndSafe
<1>9. TypeOK'
  BY <1>1, <1>2, <1>4, <1>6, <1>8 DEF TablesOK, TypeOK
<1>10. GoodsBackStatus'
  <2>1. ASSUME NEW i \in DOMAIN orders' PROVE OrderBacked(orders'[i], i, movements')
    <3>1. i \in 1..n \/ i = n + 1
      BY <1>1, <1>4
    <3> QED BY <1>1, <1>2, <1>3, <1>4, <3>1 DEF TablesOK, GoodsBackStatus, OrderBacked
  <2> QED BY <1>1, <1>2, <2>1 DEF TablesOK, GoodsBackStatus
<1>11. RowsOK(transfers, orders, expenses, audit)'
  <2>1. ASSUME NEW i \in DOMAIN orders'
        PROVE  orders'[i].items # << >>
    <3>1. i \in 1..n \/ i = n + 1
      BY <1>1, <1>4
    <3> QED BY <1>1, <1>2, <1>3, <1>4, <3>1 DEF TablesOK, RowsOK
  <2> QED BY <1>1, <1>2, <1>6, <2>1, ApprovedStays DEF TablesOK, RowsOK
<1>12. RefsOK(transfers, orders, expenses, movements, audit)'
  BY <1>1, <1>2, <1>4, <1>6 DEF TablesOK, RefsOK
<1> QED BY <1>6, <1>8, <1>9, <1>10, <1>11, <1>12 DEF FlowInv, TablesOK

LEMMA CommitExpenseSafe ==
    ASSUME FlowInv, NEW s \in Session, CommitExpense(s)
    PROVE  FlowInv'
<1> DEFINE new == [amount |-> task[s].amount, status |-> "submitted"]
           n == Len(expenses)
<1>1. /\ ~Idle(s) /\ End(s) /\ UNCHANGED <<transfers, orders, movements, payments>>
      /\ new \in ExpenseRow /\ More(expenses', expenses, new)
      /\ n \in Nat /\ Audited("create_expense", "expense", n + 1)
  BY ExpenseCreated
<1>2. TablesOK
  BY DEF FlowInv
<1>3. new.status = "submitted"
  OBVIOUS
<1>4. /\ expenses' \in Seq(ExpenseRow)
      /\ DOMAIN expenses = 1..n /\ DOMAIN expenses' = 1..(n + 1)
      /\ expenses'[n + 1] = new /\ \A k \in 1..n : expenses'[k] = expenses[k]
      /\ DOMAIN expenses \subseteq DOMAIN expenses'
  <2>1. expenses \in Seq(ExpenseRow)
    BY <1>2 DEF TablesOK, TypeOK
  <2> HIDE DEF new
  <2> QED BY <1>1, <2>1, Appended
<1> HIDE DEF n, new
<1>5. /\ n + 1 \in Nat /\ "create_expense" \in Handlers /\ "create_expense" # "pay_expense"
      /\ n + 1 \in DOMAIN expenses'
  BY <1>1, <1>4 DEF Handlers
<1>6. /\ audit' \in Seq(AuditRow) /\ Extends(audit', audit)
      /\ ApprovedFirst(audit')
      /\ \A k \in DOMAIN audit' : audit'[k][2][1] = "expense" =>
            audit'[k][2][2] \in DOMAIN expenses'
  <2>1. audit' \in Seq(AuditRow) /\ Extends(audit', audit)
    BY <1>1, <1>2, <1>5, AuditGrows DEF TablesOK, TypeOK
  <2> QED BY <1>1, <1>2, <1>4, <1>5, <2>1, AuditSafe
<1>7. Grew
  BY <1>1, <1>4, <1>6 DEF Grew, Extends
<1>8. TasksOK' /\ begun' = begun
  BY <1>1, <1>7, EndSafe
<1>9. TypeOK'
  BY <1>1, <1>2, <1>4, <1>6, <1>8 DEF TablesOK, TypeOK
<1>10. GoodsBackStatus'
  BY <1>1, <1>2 DEF TablesOK, GoodsBackStatus
<1>11. RowsOK(transfers, orders, expenses, audit)'
  <2>1. ASSUME NEW i \in DOMAIN expenses', expenses'[i].status = "approved"
        PROVE  ApprovedIn(i, audit')
    <3>1. i \in 1..n \/ i = n + 1
      BY <1>1, <1>4
    <3>2. i \in 1..n
      BY <1>3, <1>4, <2>1, <3>1
    <3>3. ApprovedIn(i, audit)
      BY <1>2, <1>4, <2>1, <3>2 DEF TablesOK, RowsOK
    <3> QED BY <1>6, <3>3, ApprovedStays
  <2> QED BY <1>1, <1>2, <2>1 DEF TablesOK, RowsOK
<1>12. RefsOK(transfers, orders, expenses, movements, audit)'
  BY <1>1, <1>2, <1>6 DEF TablesOK, RefsOK
<1> QED BY <1>6, <1>8, <1>9, <1>10, <1>11, <1>12 DEF FlowInv, TablesOK

LEMMA CommitPaymentSafe ==
    ASSUME FlowInv, NEW s \in Session, CommitPayment(s)
    PROVE  FlowInv'
<1> DEFINE new == [supplier |-> task[s].supplier, amount |-> task[s].amount]
           n == Len(payments)
<1>1. /\ ~Idle(s) /\ End(s) /\ UNCHANGED <<transfers, orders, expenses, movements>>
      /\ new \in PaymentRow /\ More(payments', payments, new)
      /\ n \in Nat /\ Audited("pay", "payment", n + 1)
  BY PaymentMade
<1>2. TablesOK
  BY DEF FlowInv
<1> HIDE DEF new
<1>4. payments' \in Seq(PaymentRow)
  <2>1. payments \in Seq(PaymentRow)
    BY <1>2 DEF TablesOK, TypeOK
  <2> QED BY <1>1, <2>1, Appended
<1> HIDE DEF n
<1>5. n + 1 \in Nat /\ "pay" \in Handlers /\ "pay" # "pay_expense"
  BY <1>1 DEF Handlers
<1>6. /\ audit' \in Seq(AuditRow) /\ Extends(audit', audit)
      /\ ApprovedFirst(audit')
      /\ \A k \in DOMAIN audit' : audit'[k][2][1] = "expense" =>
            audit'[k][2][2] \in DOMAIN expenses'
  <2>1. audit' \in Seq(AuditRow) /\ Extends(audit', audit)
    BY <1>1, <1>2, <1>5, AuditGrows DEF TablesOK, TypeOK
  <2> QED BY <1>1, <1>2, <1>5, <2>1, AuditSafe
<1>7. Grew
  BY <1>1, <1>6 DEF Grew, Extends
<1>8. TasksOK' /\ begun' = begun
  BY <1>1, <1>7, EndSafe
<1>9. TypeOK'
  BY <1>1, <1>2, <1>4, <1>6, <1>8 DEF TablesOK, TypeOK
<1>10. GoodsBackStatus'
  BY <1>1, <1>2 DEF TablesOK, GoodsBackStatus
<1>11. RowsOK(transfers, orders, expenses, audit)'
  BY <1>1, <1>2, <1>6, ApprovedStays DEF TablesOK, RowsOK
<1>12. RefsOK(transfers, orders, expenses, movements, audit)'
  BY <1>1, <1>2, <1>6 DEF TablesOK, RefsOK
<1> QED BY <1>6, <1>8, <1>9, <1>10, <1>11, <1>12 DEF FlowInv, TablesOK

-----------------------------------------------------------------------------
\* The steps of a document.

\* Movements with a reference: those there were, and one at least for a document
\* that has a line.
LEMMA BooksGrow ==
    ASSUME NEW ns, NEW ms, ms \in Seq(MovementRow), ns \in Seq(MovementRow),
           NEW items, Len(items) \in Nat,
           NEW type, NEW ref, NEW w, NEW sign, Books(ns, ms, items, type, ref, w, sign)
    PROVE  /\ Extends(ns, ms)
           /\ Len(items) > 0 => Booked(ref, type, ns) # {}
           /\ \A k \in DOMAIN ns : k \in DOMAIN ms \/ ns[k].ref = ref
<1>1. /\ Len(ms) \in Nat /\ DOMAIN ms = 1..Len(ms) /\ DOMAIN ns = 1..(Len(ms) + Len(items))
      /\ \A k \in 1..Len(ms) : ns[k] = ms[k]
      /\ \A k \in 1..Len(items) : ns[Len(ms) + k].ref = ref /\ ns[Len(ms) + k].type = type
  <2>1. Len(ms) \in Nat /\ DOMAIN ms = 1..Len(ms) /\ DOMAIN ns = 1..Len(ns)
    OBVIOUS
  <2>2. Len(ns) = Len(ms) + Len(items) /\ \A k \in 1..Len(ms) : ns[k] = ms[k]
    BY DEF Books
  <2>3. ASSUME NEW k \in 1..Len(items)
        PROVE  ns[Len(ms) + k].ref = ref /\ ns[Len(ms) + k].type = type
    <3>1. ns[Len(ms) + k] = [type |-> type, ref |-> ref, warehouse |-> w,
                             product |-> items[k].product, delta |-> sign * items[k].quantity]
      BY DEF Books
    <3> QED BY <3>1
  <2> QED BY <2>1, <2>2, <2>3
<1>2. Extends(ns, ms)
  BY <1>1 DEF Extends
<1>3. ASSUME Len(items) > 0 PROVE Booked(ref, type, ns) # {}
  <2>1. 1 \in 1..Len(items) /\ Len(ms) + 1 \in DOMAIN ns
    BY <1>1, <1>3
  <2> QED BY <1>1, <2>1 DEF Booked
<1>4. ASSUME NEW k \in DOMAIN ns PROVE k \in DOMAIN ms \/ ns[k].ref = ref
  <2>1. CASE k > Len(ms)
    <3>1. k - Len(ms) \in 1..Len(items) /\ Len(ms) + (k - Len(ms)) = k
      BY <1>1, <2>1
    <3> QED BY <1>1, <3>1
  <2>2. CASE k <= Len(ms)
    BY <1>1, <2>2
  <2> QED BY <1>1, <2>1, <2>2
<1> QED BY <1>2, <1>3, <1>4

LEMMA BooksSome ==
    ASSUME NEW ns, NEW ms, ms \in Seq(MovementRow), ns \in Seq(MovementRow),
           NEW items, Len(items) \in Nat, Len(items) > 0,
           NEW type, NEW ref, NEW w, NEW sign, Books(ns, ms, items, type, ref, w, sign)
    PROVE  Booked(ref, type, ns) # {}
BY BooksGrow

LEMMA ItemsOf ==
    ASSUME TablesOK
    PROVE  /\ \A i \in DOMAIN transfers :
                 /\ transfers[i].items \in Seq(TransferItemIn) /\ Len(transfers[i].items) \in Nat
                 /\ Len(transfers[i].items) > 0
           /\ \A i \in DOMAIN orders :
                 /\ orders[i].items \in Seq(PurchaseOrderItemIn) /\ Len(orders[i].items) \in Nat
                 /\ Len(orders[i].items) > 0
<1>1. ASSUME NEW i \in DOMAIN transfers
      PROVE  /\ transfers[i].items \in Seq(TransferItemIn) /\ Len(transfers[i].items) \in Nat
             /\ Len(transfers[i].items) > 0
  <2>1. transfers[i] \in TransferRow /\ transfers[i].items # << >>
    BY DEF TablesOK, TypeOK, RowsOK
  <2>2. transfers[i].items \in Seq(TransferItemIn)
    BY <2>1 DEF TransferRow
  <2> QED BY <2>1, <2>2
<1>2. ASSUME NEW i \in DOMAIN orders
      PROVE  /\ orders[i].items \in Seq(PurchaseOrderItemIn) /\ Len(orders[i].items) \in Nat
             /\ Len(orders[i].items) > 0
  <2>1. orders[i] \in PurchaseOrderRow /\ orders[i].items # << >>
    BY DEF TablesOK, TypeOK, RowsOK
  <2>2. orders[i].items \in Seq(PurchaseOrderItemIn)
    BY <2>1 DEF PurchaseOrderRow
  <2> QED BY <2>1, <2>2
<1> QED BY <1>1, <1>2

\* What the commits of the steps have in common.
LEMMA StepSafe ==
    ASSUME FlowInv, NEW s \in Session, End(s), UNCHANGED payments, Grew,
           NEW op \in DOMAIN Rule, NEW table \in {"transfer", "order", "expense"}, NEW id \in Nat,
           Audited(op, table, id),
           table = "expense" => id \in DOMAIN expenses',
           op = "pay_expense" => table = "expense" /\ ApprovedIn(id, audit),
           transfers' \in Seq(TransferRow), orders' \in Seq(PurchaseOrderRow),
           expenses' \in Seq(ExpenseRow), movements' \in Seq(MovementRow),
           GoodsBackStatus', RowsOK(transfers', orders', expenses', audit'),
           \A k \in DOMAIN movements' :
              \/ k \in DOMAIN movements /\ movements'[k] = movements[k]
              \/ movements'[k].ref \in
                    {<<"transfer", i>> : i \in DOMAIN transfers}
                    \cup {<<"order", i>> : i \in DOMAIN orders}
    PROVE  FlowInv'
<1>1. TablesOK /\ op \in Handlers
  BY DEF FlowInv, Handlers
<1>2. audit' \in Seq(AuditRow)
  BY <1>1, AuditGrows DEF TablesOK, TypeOK
<1>3. /\ ApprovedFirst(audit')
      /\ \A k \in DOMAIN audit' : audit'[k][2][1] = "expense" =>
            audit'[k][2][2] \in DOMAIN expenses'
  BY <1>1, AuditSafe DEF Grew
<1>4. TasksOK' /\ begun' = begun
  BY EndSafe
<1>5. TypeOK'
  BY <1>1, <1>2, <1>4 DEF TablesOK, TypeOK
<1>6. ASSUME NEW k \in DOMAIN movements'
      PROVE  /\ movements'[k].ref[1] = "transfer" => movements'[k].ref[2] \in DOMAIN transfers'
             /\ movements'[k].ref[1] = "order" => movements'[k].ref[2] \in DOMAIN orders'
  <2>1. CASE k \in DOMAIN movements /\ movements'[k] = movements[k]
    BY <1>1, <2>1 DEF TablesOK, RefsOK, Grew
  <2>2. ASSUME NEW i \in DOMAIN transfers, movements'[k].ref = <<"transfer", i>>
        PROVE  /\ movements'[k].ref[1] = "transfer" /\ movements'[k].ref[2] \in DOMAIN transfers'
    BY <2>2 DEF Grew
  <2>3. ASSUME NEW i \in DOMAIN orders, movements'[k].ref = <<"order", i>>
        PROVE  /\ movements'[k].ref[1] = "order" /\ movements'[k].ref[2] \in DOMAIN orders'
    BY <2>3 DEF Grew
  <2> QED BY <2>1, <2>2, <2>3
<1>7. RefsOK(transfers, orders, expenses, movements, audit)'
  BY <1>3, <1>6 DEF RefsOK
<1> QED BY <1>3, <1>4, <1>5, <1>7 DEF FlowInv, TablesOK

LEMMA TransferStepSafe ==
    ASSUME FlowInv, NEW s \in Session, End(s), UNCHANGED payments,
           TransferMoved(task[s].op, task[s].id), TransferStepOK(task[s], transfers, movements)
    PROVE  FlowInv'
<1> DEFINE op == task[s].op
           i == task[s].id
<1>1. /\ op \in TransferSteps /\ i \in DOMAIN transfers
      /\ UNCHANGED <<orders, expenses>> /\ movements' \in Seq(MovementRow)
      /\ Audited(op, "transfer", i)
      /\ op = "receive_transfer" => Booked(<<"transfer", i>>, "transfer_out", movements) # {}
  BY DEF TransferMoved, TransferStepOK, Audited
<1>2. TablesOK /\ TypeOK
  BY DEF FlowInv, TablesOK
<1>3. /\ i \in Nat /\ op \in DOMAIN Rule /\ op # "pay_expense" /\ op \in Handlers
  BY <1>1, <1>2, RuleIs DEF TypeOK, TransferSteps, Handlers
<1> HIDE DEF op, i
<1>4. /\ Len(transfers[i].items) \in Nat /\ Len(transfers[i].items) > 0
  BY <1>1, <1>2, ItemsOf
<1>5. PICK status \in TransferStatus :
         /\ Moves(transfers', transfers, i, status)
         /\ Extends(movements', movements)
         /\ \A k \in DOMAIN movements' : k \in DOMAIN movements \/ movements'[k].ref = <<"transfer", i>>
         /\ status \in {"dispatched", "received"} =>
               Booked(<<"transfer", i>>, "transfer_out", movements') # {}
  <2>1. CASE op = "approve_transfer"
    <3>1. Moves(transfers', transfers, i, "approved") /\ movements' = movements
      BY <2>1 DEF TransferMoved, op, i
    <3> QED BY <3>1, StatusesAre DEF Extends
  <2>2. CASE op = "dispatch_transfer"
    <3>1. /\ Moves(transfers', transfers, i, "dispatched")
          /\ Books(movements', movements, transfers[i].items, "transfer_out", <<"transfer", i>>,
                   transfers[i].from, -1)
      BY <2>2 DEF TransferMoved, op, i
    <3>2. /\ Extends(movements', movements)
          /\ \A k \in DOMAIN movements' :
                k \in DOMAIN movements \/ movements'[k].ref = <<"transfer", i>>
      BY <1>1, <1>2, <1>4, <3>1, BooksGrow DEF TypeOK
    <3>3. Booked(<<"transfer", i>>, "transfer_out", movements') # {}
      BY <1>1, <1>2, <1>4, <3>1, BooksSome DEF TypeOK
    <3> QED BY <3>1, <3>2, <3>3, StatusesAre
  <2>3. CASE op = "receive_transfer"
    <3>1. /\ Moves(transfers', transfers, i, "received")
          /\ Books(movements', movements, transfers[i].items, "transfer_in", <<"transfer", i>>,
                   transfers[i].to, 1)
      BY <2>3 DEF TransferMoved, op, i
    <3>2. /\ Extends(movements', movements)
          /\ \A k \in DOMAIN movements' :
                k \in DOMAIN movements \/ movements'[k].ref = <<"transfer", i>>
      BY <1>1, <1>2, <1>4, <3>1, BooksGrow DEF TypeOK
    <3>3. Booked(<<"transfer", i>>, "transfer_out", movements') # {}
      BY <1>1, <2>3, <3>2, BookedStays
    <3> QED BY <3>1, <3>2, <3>3, StatusesAre
  <2> QED BY <1>1, <2>1, <2>2, <2>3 DEF TransferSteps
<1>6. /\ transfers' \in Seq(TransferRow) /\ DOMAIN transfers' = DOMAIN transfers
      /\ transfers'[i].from = transfers[i].from /\ transfers'[i].to = transfers[i].to
      /\ transfers'[i].items = transfers[i].items /\ transfers'[i].status = status
      /\ \A j \in DOMAIN transfers \ {i} : transfers'[j] = transfers[j]
  BY <1>1, <1>2, <1>5, TransferMove DEF TypeOK
<1>7. Grew
  <2>1. Extends(audit', audit)
    BY <1>1, <1>2, <1>3, AuditGrows DEF TypeOK
  <2> QED BY <1>1, <1>5, <1>6, <2>1 DEF Grew
<1>8. GoodsBackStatus'
  <2>1. ASSUME NEW j \in DOMAIN transfers' PROVE TransferBacked(transfers'[j], j, movements')
    <3>1. CASE j = i
      BY <1>5, <1>6, <3>1 DEF TransferBacked
    <3>2. CASE j # i
      <4>1. TransferBacked(transfers[j], j, movements) /\ transfers'[j] = transfers[j]
        BY <1>2, <1>6, <3>2 DEF TablesOK, GoodsBackStatus
      <4> QED BY <1>5, <4>1, BookedStays DEF TransferBacked
    <3> QED BY <3>1, <3>2
  <2>2. ASSUME NEW j \in DOMAIN orders' PROVE OrderBacked(orders'[j], j, movements')
    <3>1. OrderBacked(orders[j], j, movements) /\ orders'[j] = orders[j]
      BY <1>1, <1>2 DEF TablesOK, GoodsBackStatus
    <3> QED BY <1>5, <3>1, BookedStays DEF OrderBacked
  <2> QED BY <2>1, <2>2 DEF GoodsBackStatus
<1>9. RowsOK(transfers', orders', expenses', audit')
  BY <1>1, <1>2, <1>6, <1>7, ApprovedStays DEF TablesOK, RowsOK, Grew
<1>10. \A k \in DOMAIN movements' :
          \/ k \in DOMAIN movements /\ movements'[k] = movements[k]
          \/ movements'[k].ref \in
                {<<"transfer", j>> : j \in DOMAIN transfers} \cup {<<"order", j>> : j \in DOMAIN orders}
  BY <1>1, <1>5 DEF Extends
<1> QED BY <1>1, <1>2, <1>3, <1>5, <1>6, <1>7, <1>8, <1>9, <1>10, StepSafe DEF TypeOK

LEMMA OrderStepSafe ==
    ASSUME FlowInv, NEW s \in Session, End(s), UNCHANGED payments,
           OrderMoved(task[s].op, task[s].id), OrderStepOK(task[s], orders)
    PROVE  FlowInv'
<1> DEFINE op == task[s].op
           i == task[s].id
<1>1. /\ op \in OrderSteps /\ i \in DOMAIN orders
      /\ UNCHANGED <<transfers, expenses>> /\ movements' \in Seq(MovementRow)
      /\ Audited(op, "order", i)
  BY DEF OrderMoved, OrderStepOK, Audited
<1>2. TablesOK /\ TypeOK
  BY DEF FlowInv, TablesOK
<1>3. /\ i \in Nat /\ op \in DOMAIN Rule /\ op # "pay_expense" /\ op \in Handlers
  BY <1>1, <1>2, RuleIs DEF TypeOK, OrderSteps, Handlers
<1> HIDE DEF op, i
<1>4. /\ Len(orders[i].items) \in Nat /\ Len(orders[i].items) > 0
  BY <1>1, <1>2, ItemsOf
<1>5. PICK status \in OrderStatus :
         /\ Moves(orders', orders, i, status)
         /\ Extends(movements', movements)
         /\ \A k \in DOMAIN movements' : k \in DOMAIN movements \/ movements'[k].ref = <<"order", i>>
         /\ status = "received" => Booked(<<"order", i>>, "in", movements') # {}
  <2>1. CASE op = "approve_order"
    <3>1. Moves(orders', orders, i, "approved") /\ movements' = movements
      BY <2>1 DEF OrderMoved, op, i
    <3> QED BY <3>1, StatusesAre DEF Extends
  <2>2. CASE op = "receive_order"
    <3>1. /\ Moves(orders', orders, i, "received")
          /\ Books(movements', movements, orders[i].items, "in", <<"order", i>>,
                   orders[i].warehouse, 1)
      BY <2>2 DEF OrderMoved, op, i
    <3>2. /\ Extends(movements', movements)
          /\ \A k \in DOMAIN movements' :
                k \in DOMAIN movements \/ movements'[k].ref = <<"order", i>>
      BY <1>1, <1>2, <1>4, <3>1, BooksGrow DEF TypeOK
    <3>3. Booked(<<"order", i>>, "in", movements') # {}
      BY <1>1, <1>2, <1>4, <3>1, BooksSome DEF TypeOK
    <3> QED BY <3>1, <3>2, <3>3, StatusesAre
  <2> QED BY <1>1, <2>1, <2>2 DEF OrderSteps
<1>6. /\ orders' \in Seq(PurchaseOrderRow) /\ DOMAIN orders' = DOMAIN orders
      /\ orders'[i].supplier = orders[i].supplier /\ orders'[i].total = orders[i].total
      /\ orders'[i].items = orders[i].items /\ orders'[i].status = status
      /\ \A j \in DOMAIN orders \ {i} : orders'[j] = orders[j]
  BY <1>1, <1>2, <1>5, OrderMove DEF TypeOK
<1>7. Grew
  <2>1. Extends(audit', audit)
    BY <1>1, <1>2, <1>3, AuditGrows DEF TypeOK
  <2> QED BY <1>1, <1>5, <1>6, <2>1 DEF Grew
<1>8. GoodsBackStatus'
  <2>1. ASSUME NEW j \in DOMAIN orders' PROVE OrderBacked(orders'[j], j, movements')
    <3>1. CASE j = i
      BY <1>5, <1>6, <3>1 DEF OrderBacked
    <3>2. CASE j # i
      <4>1. OrderBacked(orders[j], j, movements) /\ orders'[j] = orders[j]
        BY <1>2, <1>6, <3>2 DEF TablesOK, GoodsBackStatus
      <4> QED BY <1>5, <4>1, BookedStays DEF OrderBacked
    <3> QED BY <3>1, <3>2
  <2>2. ASSUME NEW j \in DOMAIN transfers' PROVE TransferBacked(transfers'[j], j, movements')
    <3>1. TransferBacked(transfers[j], j, movements) /\ transfers'[j] = transfers[j]
      BY <1>1, <1>2 DEF TablesOK, GoodsBackStatus
    <3> QED BY <1>5, <3>1, BookedStays DEF TransferBacked
  <2> QED BY <2>1, <2>2 DEF GoodsBackStatus
<1>9. RowsOK(transfers', orders', expenses', audit')
  BY <1>1, <1>2, <1>6, <1>7, ApprovedStays DEF TablesOK, RowsOK, Grew
<1>10. \A k \in DOMAIN movements' :
          \/ k \in DOMAIN movements /\ movements'[k] = movements[k]
          \/ movements'[k].ref \in
                {<<"transfer", j>> : j \in DOMAIN transfers} \cup {<<"order", j>> : j \in DOMAIN orders}
  BY <1>1, <1>5 DEF Extends
<1> QED BY <1>1, <1>2, <1>3, <1>5, <1>6, <1>7, <1>8, <1>9, <1>10, StepSafe DEF TypeOK

LEMMA ExpenseStepSafe ==
    ASSUME FlowInv, NEW s \in Session, End(s), UNCHANGED payments,
           ExpenseMoved(task[s].op, task[s].id), ExpenseStepOK(task[s], expenses, audit)
    PROVE  FlowInv'
<1> DEFINE op == task[s].op
           i == task[s].id
<1>1. /\ op \in ExpenseSteps /\ i \in DOMAIN expenses
      /\ UNCHANGED <<transfers, orders, movements>>
      /\ Moves(expenses', expenses, i, Rule[op].gives)
      /\ Audited(op, "expense", i)
      /\ op = "pay_expense" => ApprovedIn(i, audit)
  BY DEF ExpenseMoved, ExpenseStepOK, Audited
<1>2. TablesOK /\ TypeOK
  BY DEF FlowInv, TablesOK
<1>3. /\ i \in Nat /\ op \in DOMAIN Rule /\ op \in Handlers /\ Rule[op].gives \in ExpenseStatus
      /\ Rule[op].gives = "approved" => op = "approve_expense"
  BY <1>1, <1>2, RuleIs, StatusesAre DEF TypeOK, ExpenseSteps, Handlers
<1> HIDE DEF op, i
<1>4. /\ Len(audit) \in Nat
      /\ DOMAIN audit = 1..Len(audit) /\ DOMAIN audit' = 1..(Len(audit) + 1)
      /\ audit'[Len(audit) + 1] = <<op, <<"expense", i>>>>
      /\ Extends(audit', audit)
  BY <1>1, <1>2, <1>3, AuditGrows DEF TypeOK
<1>6. /\ expenses' \in Seq(ExpenseRow) /\ DOMAIN expenses' = DOMAIN expenses
      /\ expenses'[i].status = Rule[op].gives
      /\ \A j \in DOMAIN expenses \ {i} : expenses'[j] = expenses[j]
  BY <1>1, <1>2, <1>3, ExpenseMove DEF TypeOK
<1>7. Grew
  BY <1>1, <1>4, <1>6 DEF Grew, Extends
<1>8. GoodsBackStatus'
  BY <1>1, <1>2 DEF TablesOK, GoodsBackStatus
<1>9. RowsOK(transfers', orders', expenses', audit')
  <2>1. ASSUME NEW j \in DOMAIN expenses', expenses'[j].status = "approved"
        PROVE  ApprovedIn(j, audit')
    <3>1. CASE j = i
      <4>1. op = "approve_expense" /\ Len(audit) + 1 \in DOMAIN audit'
        BY <1>3, <1>4, <1>6, <2>1, <3>1
      <4> QED BY <1>4, <3>1, <4>1 DEF ApprovedIn
    <3>2. CASE j # i
      <4>1. ApprovedIn(j, audit)
        BY <1>2, <1>6, <2>1, <3>2 DEF TablesOK, RowsOK
      <4> QED BY <1>4, <4>1, ApprovedStays
    <3> QED BY <3>1, <3>2
  <2> QED BY <1>1, <1>2, <2>1 DEF TablesOK, RowsOK
<1>10. \A k \in DOMAIN movements' : k \in DOMAIN movements /\ movements'[k] = movements[k]
  BY <1>1
<1>11. i \in DOMAIN expenses'
  BY <1>1, <1>6
<1> QED BY <1>1, <1>2, <1>3, <1>6, <1>7, <1>8, <1>9, <1>10, <1>11, StepSafe DEF TypeOK

-----------------------------------------------------------------------------
\* Requests that arrive, and those that go on without a commit.

\* A step arrives at a document in the status it needs.
LEMMA StepArrives ==
    ASSUME FlowInv, NEW s \in Session, NEW op \in DOMAIN Rule,
           NEW i \in DOMAIN Documents[Rule[op].table], ArriveStep(s, op, i), NEW t,
           t = [op |-> op, at |-> "commit", on |-> {<<Rule[op].table, i>>}, id |-> i]
    PROVE  /\ Arrive(s, t) /\ UNCHANGED tables
           /\ \/ op \in TransferSteps /\ TransferStepOK(t, transfers, movements)
                 /\ transfers[i].status = Rule[op].needs
              \/ op \in OrderSteps /\ OrderStepOK(t, orders) /\ orders[i].status = Rule[op].needs
              \/ op \in ExpenseSteps /\ ExpenseStepOK(t, expenses, audit)
                 /\ expenses[i].status = Rule[op].needs
<1>1. Arrive(s, t) /\ UNCHANGED tables /\ Row(op, i).status = Rule[op].needs
  BY DEF ArriveStep
<1>2. TablesOK
  BY DEF FlowInv
<1>3. CASE op \in TransferSteps
  <2>1. i \in DOMAIN transfers /\ Row(op, i) = transfers[i] /\ t.on = {<<"transfer", i>>}
    BY <1>3, RuleIs DEF Row, Documents
  <2>2. op = "receive_transfer" => Booked(<<"transfer", i>>, "transfer_out", movements) # {}
    BY <1>1, <1>2, <2>1, RuleIs DEF TablesOK, GoodsBackStatus, TransferBacked
  <2> QED BY <1>1, <1>3, <2>1, <2>2 DEF TransferStepOK
<1>4. CASE op \in OrderSteps
  <2>1. i \in DOMAIN orders /\ Row(op, i) = orders[i] /\ t.on = {<<"order", i>>}
    BY <1>4, RuleIs DEF Row, Documents
  <2> QED BY <1>1, <1>4, <2>1 DEF OrderStepOK
<1>5. CASE op \in ExpenseSteps
  <2>1. i \in DOMAIN expenses /\ Row(op, i) = expenses[i] /\ t.on = {<<"expense", i>>}
    BY <1>5, RuleIs DEF Row, Documents
  <2>2. op = "pay_expense" => ApprovedIn(i, audit)
    BY <1>1, <1>2, <2>1, RuleIs DEF TablesOK, RowsOK
  <2> QED BY <1>1, <1>5, <2>1, <2>2 DEF ExpenseStepOK
<1> QED BY <1>3, <1>4, <1>5, RuleIs

\* Every request begins with one of these tasks.
LEMMA Arrivals ==
    ASSUME FlowInv, NEW s \in Session,
           \/ \E p \in NewTransfers : ArriveTransfer(s, p)
           \/ \E p \in NewOrders : ArriveOrder(s, p)
           \/ \E amount \in Amounts : ArriveExpense(s, amount)
           \/ \E op \in DOMAIN Rule : \E i \in DOMAIN Documents[Rule[op].table] : ArriveStep(s, op, i)
           \/ \E sup \in Supplier, amount \in Amounts : ArrivePayment(s, sup, amount)
           \/ \E op \in Reports : ArrivePayables(s, op)
    PROVE  /\ UNCHANGED tables
           /\ \E t : /\ Arrive(s, t)
                     /\ TaskOK(t, transfers, orders, expenses, movements, audit)
                     /\ t.op \in TransferSteps => transfers[t.id].status = Rule[t.op].needs
                     /\ t.op \in OrderSteps => orders[t.id].status = Rule[t.op].needs
                     /\ t.op \in ExpenseSteps => expenses[t.id].status = Rule[t.op].needs
                     /\ t.op \in Reports => ArrivePayables(s, t.op) /\ t.at = "paid"
<1> DEFINE Begins(t) ==
              /\ Arrive(s, t)
              /\ TaskOK(t, transfers, orders, expenses, movements, audit)
              /\ t.op \in TransferSteps => transfers[t.id].status = Rule[t.op].needs
              /\ t.op \in OrderSteps => orders[t.id].status = Rule[t.op].needs
              /\ t.op \in ExpenseSteps => expenses[t.id].status = Rule[t.op].needs
              /\ t.op \in Reports => ArrivePayables(s, t.op) /\ t.at = "paid"
<1> SUFFICES UNCHANGED tables /\ \E t : Begins(t)
  OBVIOUS
<1>1. ASSUME NEW p \in NewTransfers, ArriveTransfer(s, p)
      PROVE  UNCHANGED tables /\ \E t : Begins(t)
  <2> DEFINE t == [op |-> "create_transfer", at |-> "insert", on |-> {}, payload |-> p]
  <2>1. Arrive(s, t) /\ UNCHANGED tables /\ p.from # p.to /\ p.items # << >>
    BY <1>1 DEF ArriveTransfer
  <2>2. p \in TransferCreate
    BY PayloadsAssumption
  <2>3. CreateTransferOK(t)
    BY <2>1, <2>2 DEF CreateTransferOK
  <2>4. Begins(t)
    BY <2>1, <2>3 DEF TaskOK, TransferSteps, OrderSteps, ExpenseSteps, Reports
  <2> QED BY <2>1, <2>4
<1>2. ASSUME NEW p \in NewOrders, ArriveOrder(s, p)
      PROVE  UNCHANGED tables /\ \E t : Begins(t)
  <2> DEFINE t == [op |-> "create_order", at |-> "insert", on |-> {}, payload |-> p]
  <2>1. Arrive(s, t) /\ UNCHANGED tables /\ p.supplier \in Supplier /\ p.items # << >>
    BY <1>2 DEF ArriveOrder
  <2>2. p \in PurchaseOrderCreate
    BY PayloadsAssumption
  <2>3. CreateOrderOK(t)
    BY <2>1, <2>2 DEF CreateOrderOK
  <2>4. Begins(t)
    BY <2>1, <2>3 DEF TaskOK, TransferSteps, OrderSteps, ExpenseSteps, Reports
  <2> QED BY <2>1, <2>4
<1>3. ASSUME NEW amount \in Amounts, ArriveExpense(s, amount)
      PROVE  UNCHANGED tables /\ \E t : Begins(t)
  <2> DEFINE t == [op |-> "create_expense", at |-> "insert", on |-> {}, amount |-> amount]
  <2>1. Arrive(s, t) /\ UNCHANGED tables
    BY <1>3 DEF ArriveExpense
  <2>2. CreateExpenseOK(t)
    BY DEF CreateExpenseOK
  <2>3. Begins(t)
    BY <2>1, <2>2 DEF TaskOK, TransferSteps, OrderSteps, ExpenseSteps, Reports
  <2> QED BY <2>1, <2>3
<1>4. ASSUME NEW op \in DOMAIN Rule, NEW i \in DOMAIN Documents[Rule[op].table], ArriveStep(s, op, i)
      PROVE  UNCHANGED tables /\ \E t : Begins(t)
  <2> DEFINE t == [op |-> op, at |-> "commit", on |-> {<<Rule[op].table, i>>}, id |-> i]
  <2>1. t.op = op /\ t.id = i
    OBVIOUS
  <2>2. /\ Arrive(s, t) /\ UNCHANGED tables
        /\ \/ op \in TransferSteps /\ TransferStepOK(t, transfers, movements)
              /\ transfers[i].status = Rule[op].needs
           \/ op \in OrderSteps /\ OrderStepOK(t, orders) /\ orders[i].status = Rule[op].needs
           \/ op \in ExpenseSteps /\ ExpenseStepOK(t, expenses, audit)
              /\ expenses[i].status = Rule[op].needs
    BY <1>4, StepArrives
  <2> HIDE DEF t
  <2>3. Begins(t)
    BY <2>1, <2>2 DEF TaskOK, TransferSteps, OrderSteps, ExpenseSteps, Reports
  <2> QED BY <2>2, <2>3
<1>5. ASSUME NEW sup \in Supplier, NEW amount \in Amounts, ArrivePayment(s, sup, amount)
      PROVE  UNCHANGED tables /\ \E t : Begins(t)
  <2> DEFINE t == [op |-> "pay", at |-> "commit", on |-> {}, supplier |-> sup, amount |-> amount]
  <2>1. Arrive(s, t) /\ UNCHANGED tables
    BY <1>5 DEF ArrivePayment
  <2>2. PayOK(t)
    BY DEF PayOK
  <2>3. Begins(t)
    BY <2>1, <2>2 DEF TaskOK, TransferSteps, OrderSteps, ExpenseSteps, Reports
  <2> QED BY <2>1, <2>3
<1>6. ASSUME NEW op \in Reports, ArrivePayables(s, op)
      PROVE  UNCHANGED tables /\ \E t : Begins(t)
  <2> DEFINE t == [op |-> op, at |-> "paid", on |-> {}, listed |-> WithReceipt,
                   received |-> [sup \in Supplier |-> Received(sup)]]
  <2>1. Arrive(s, t) /\ UNCHANGED tables
    BY <1>6 DEF ArrivePayables
  <2>2. ReportOK(t) /\ t.op = op /\ t.at = "paid"
    BY DEF ReportOK
  <2> HIDE DEF t
  <2>3. Begins(t)
    BY <1>6, <2>1, <2>2 DEF TaskOK, TransferSteps, OrderSteps, ExpenseSteps, Reports
  <2> QED BY <2>1, <2>3
<1> HIDE DEF Begins
<1> QED BY <1>1, <1>2, <1>3, <1>4, <1>5, <1>6

LEMMA InsertSafe ==
    ASSUME FlowInv, NEW s \in Session, InsertCoded(s)
    PROVE  /\ UNCHANGED tables
           /\ \E t : /\ Continue(s, t) /\ t.on = task[s].on /\ t.op = task[s].op
                     /\ TaskOK(t, transfers, orders, expenses, movements, audit)
                     /\ t.op \in {"create_transfer", "create_order", "create_expense"}
<1> DEFINE t == [task[s] EXCEPT !.at = "commit"]
<1>1. /\ Continue(s, t) /\ UNCHANGED tables /\ ~Idle(s)
      /\ task[s].op \in {"create_transfer", "create_order", "create_expense"}
  BY DEF InsertCoded, InsertPending
<1>2. CreateTransferOK(task[s]) \/ CreateOrderOK(task[s]) \/ CreateExpenseOK(task[s])
  <2>1. TaskOK(task[s], transfers, orders, expenses, movements, audit)
    BY <1>1 DEF FlowInv, TasksOK
  <2> QED BY <1>1, <2>1 DEF TaskOK, TransferStepOK, OrderStepOK, ExpenseStepOK, PayOK, ReportOK,
             TransferSteps, OrderSteps, ExpenseSteps, Reports
<1>3. CASE CreateTransferOK(task[s])
  <2>1. task[s] = [op |-> task[s].op, at |-> task[s].at, on |-> {}, payload |-> task[s].payload]
    BY <1>3 DEF CreateTransferOK
  <2>2. t = [op |-> task[s].op, at |-> "commit", on |-> {}, payload |-> task[s].payload]
    BY <2>1
  <2>3. CreateTransferOK(t) /\ t.op = task[s].op /\ t.on = task[s].on
    BY <1>3, <2>1, <2>2 DEF CreateTransferOK
  <2> QED BY <1>1, <2>3 DEF TaskOK
<1>4. CASE CreateOrderOK(task[s])
  <2>1. task[s] = [op |-> task[s].op, at |-> task[s].at, on |-> {}, payload |-> task[s].payload]
    BY <1>4 DEF CreateOrderOK
  <2>2. t = [op |-> task[s].op, at |-> "commit", on |-> {}, payload |-> task[s].payload]
    BY <2>1
  <2>3. CreateOrderOK(t) /\ t.op = task[s].op /\ t.on = task[s].on
    BY <1>4, <2>1, <2>2 DEF CreateOrderOK
  <2> QED BY <1>1, <2>3 DEF TaskOK
<1>5. CASE CreateExpenseOK(task[s])
  <2>1. task[s] = [op |-> task[s].op, at |-> task[s].at, on |-> {}, amount |-> task[s].amount]
    BY <1>5 DEF CreateExpenseOK
  <2>2. t = [op |-> task[s].op, at |-> "commit", on |-> {}, amount |-> task[s].amount]
    BY <2>1
  <2>3. CreateExpenseOK(t) /\ t.op = task[s].op /\ t.on = task[s].on
    BY <1>5, <2>1, <2>2 DEF CreateExpenseOK
  <2> QED BY <1>1, <2>3 DEF TaskOK
<1> QED BY <1>2, <1>3, <1>4, <1>5

LEMMA ReportReads ==
    ASSUME FlowInv, NEW s \in Session, ReadPaid(s)
    PROVE  /\ UNCHANGED tables
           /\ \E t : /\ Continue(s, t) /\ ReportOK(t) /\ t.at = "answer"
<1> PICK op \in Reports :
       /\ At(s, op, "paid") /\ UNCHANGED tables
       /\ \E d : Continue(s, [op |-> op, at |-> "answer", on |-> {}, due |-> d])
  BY DEF ReadPaid, Reports
<1> PICK d : Continue(s, [op |-> op, at |-> "answer", on |-> {}, due |-> d])
  OBVIOUS
<1> DEFINE t == [op |-> op, at |-> "answer", on |-> {}, due |-> d]
<1>1. ReportOK(t) /\ t.at = "answer"
  BY DEF ReportOK
<1> QED BY <1>1

\* The steps of a session, by what they do to the tables and to the task.
LEMMA StepKinds ==
    ASSUME FlowInv, NEW s \in Session,
           \/ \E p \in NewTransfers : ArriveTransfer(s, p)
           \/ \E p \in NewOrders : ArriveOrder(s, p)
           \/ \E amount \in Amounts : ArriveExpense(s, amount)
           \/ \E op \in DOMAIN Rule : \E i \in DOMAIN Documents[Rule[op].table] : ArriveStep(s, op, i)
           \/ \E sup \in Supplier, amount \in Amounts : ArrivePayment(s, sup, amount)
           \/ \E op \in {"payables_report", "dashboard"} : ArrivePayables(s, op)
           \/ Progress(s)
           \/ Abandon(s)
    PROVE  \/ /\ UNCHANGED tables
              /\ \E t : /\ Arrive(s, t)
                        /\ TaskOK(t, transfers, orders, expenses, movements, audit)
                        /\ t.op \in TransferSteps => transfers[t.id].status = Rule[t.op].needs
                        /\ t.op \in OrderSteps => orders[t.id].status = Rule[t.op].needs
                        /\ t.op \in ExpenseSteps => expenses[t.id].status = Rule[t.op].needs
                        /\ t.op \in Reports => ArrivePayables(s, t.op) /\ t.at = "paid"
           \/ InsertCoded(s)
           \/ ReadPaid(s)
           \/ UNCHANGED tables /\ End(s)
           \/ CommitTransfer(s) \/ CommitOrder(s) \/ CommitExpense(s)
           \/ CommitStep(s) \/ CommitPayment(s)
BY Arrivals DEF Progress, Abandon, Answer, Reports

LEMMA FlowStep == FlowInv /\ [Next]_vars => FlowInv'
<1> SUFFICES ASSUME FlowInv, [Next]_vars PROVE FlowInv'
  OBVIOUS
<1>1. CASE UNCHANGED vars
  BY <1>1 DEF vars, tables, requests, FlowInv, TablesOK, TypeOK, GoodsBackStatus, RowsOK, RefsOK,
         TasksOK, Idle
<1>2. ASSUME NEW s \in Session, NEW t, Arrive(s, t), UNCHANGED tables,
             TaskOK(t, transfers, orders, expenses, movements, audit)
      PROVE  FlowInv'
  BY <1>2, ArriveSafe
<1>3. ASSUME NEW s \in Session, InsertCoded(s) PROVE FlowInv'
  BY <1>3, InsertSafe, ContinueSafe
<1>4. ASSUME NEW s \in Session, ReadPaid(s) PROVE FlowInv'
  BY <1>4, ReportReads, ContinueSafe DEF TaskOK
<1>5. ASSUME NEW s \in Session, UNCHANGED tables, End(s) PROVE FlowInv'
  BY <1>5, AbandonSafe
<1>6. ASSUME NEW s \in Session, CommitStep(s) PROVE FlowInv'
  BY <1>6, CommitShape, TransferStepSafe, OrderStepSafe, ExpenseStepSafe
<1>7. ASSUME NEW s \in Session, CommitTransfer(s) \/ CommitOrder(s) \/ CommitExpense(s) \/ CommitPayment(s)
      PROVE FlowInv'
  BY <1>7, CommitTransferSafe, CommitOrderSafe, CommitExpenseSafe, CommitPaymentSafe
<1>8. ASSUME Next PROVE FlowInv'
  <2> PICK s \in Session :
           \/ \E p \in NewTransfers : ArriveTransfer(s, p)
           \/ \E p \in NewOrders : ArriveOrder(s, p)
           \/ \E amount \in Amounts : ArriveExpense(s, amount)
           \/ \E op \in DOMAIN Rule : \E i \in DOMAIN Documents[Rule[op].table] : ArriveStep(s, op, i)
           \/ \E sup \in Supplier, amount \in Amounts : ArrivePayment(s, sup, amount)
           \/ \E op \in {"payables_report", "dashboard"} : ArrivePayables(s, op)
           \/ Progress(s)
           \/ Abandon(s)
    BY <1>8 DEF Next
  <2> QED BY <1>2, <1>3, <1>4, <1>5, <1>6, <1>7, StepKinds
<1> QED BY <1>1, <1>8

-----------------------------------------------------------------------------
\* What two requests that are not about the same document leave alone.

Steps == TransferSteps \cup OrderSteps \cup ExpenseSteps

\* Two requests are about the same document only after raced has recorded it.
RacedOK ==
    \A r, q \in Session :
        r # q /\ ~Idle(r) /\ ~Idle(q) => task[r].on \cap task[q].on \subseteq raced

\* A request about to move a document finds the status it found when it arrived,
\* unless another has been about the document.
Fresh(s) ==
    /\ task[s].op \in TransferSteps /\ Calm("transfer", task[s].id) =>
          transfers[task[s].id].status = Rule[task[s].op].needs
    /\ task[s].op \in OrderSteps /\ Calm("order", task[s].id) =>
          orders[task[s].id].status = Rule[task[s].op].needs
    /\ task[s].op \in ExpenseSteps /\ Calm("expense", task[s].id) =>
          expenses[task[s].id].status = Rule[task[s].op].needs

FreshInv == RacedOK /\ \A s \in Session : ~Idle(s) => Fresh(s)

LEMMA StepsApart ==
    /\ TransferSteps \cap OrderSteps = {} /\ TransferSteps \cap ExpenseSteps = {}
    /\ OrderSteps \cap ExpenseSteps = {}
    /\ Steps \cap {"create_transfer", "create_order", "create_expense", "pay"} = {}
    /\ Steps \cap Reports = {}
BY DEF Steps, TransferSteps, OrderSteps, ExpenseSteps, Reports

\* The document a step is about.
LEMMA StepOn ==
    ASSUME FlowInv, NEW s \in Session, ~Idle(s)
    PROVE  /\ task[s].op \in TransferSteps =>
                 task[s].id \in DOMAIN transfers /\ task[s].on = {<<"transfer", task[s].id>>}
           /\ task[s].op \in OrderSteps =>
                 task[s].id \in DOMAIN orders /\ task[s].on = {<<"order", task[s].id>>}
           /\ task[s].op \in ExpenseSteps =>
                 task[s].id \in DOMAIN expenses /\ task[s].on = {<<"expense", task[s].id>>}
<1>1. TaskOK(task[s], transfers, orders, expenses, movements, audit)
  BY DEF FlowInv, TasksOK
<1> QED BY <1>1, StepsApart DEF TaskOK, CreateTransferOK, CreateOrderOK, CreateExpenseOK,
           TransferStepOK, OrderStepOK, ExpenseStepOK, PayOK, ReportOK, Steps

LEMMA FreshArrive ==
    ASSUME FlowInv, FreshInv, NEW s \in Session, NEW t, Arrive(s, t), UNCHANGED tables,
           t.op \in TransferSteps => transfers[t.id].status = Rule[t.op].needs,
           t.op \in OrderSteps => orders[t.id].status = Rule[t.op].needs,
           t.op \in ExpenseSteps => expenses[t.id].status = Rule[t.op].needs
    PROVE  FreshInv' /\ raced \subseteq raced'
<1>1. /\ UNCHANGED <<transfers, orders, expenses>> /\ DOMAIN task = Session
      /\ task' = [task EXCEPT ![s] = t] /\ Idle(s)
      /\ raced' = raced \cup UNION {t.on \cap task[r].on : r \in Busy}
  BY DEF tables, Arrive, FlowInv, TasksOK
<1>2. /\ task'[s] = t /\ \A r \in Session \ {s} : task'[r] = task[r]
      /\ \A r \in Session \ {s} : ~Idle(r)' => ~Idle(r) /\ r \in Busy
  BY <1>1 DEF Idle, Busy
<1>3. ASSUME NEW r \in Session, r # s, ~Idle(r)
      PROVE  t.on \cap task[r].on \subseteq raced'
  BY <1>1, <1>3 DEF Busy
<1>4. RacedOK'
  <2> SUFFICES ASSUME NEW r \in Session, NEW q \in Session, r # q, ~Idle(r)', ~Idle(q)'
               PROVE  task'[r].on \cap task'[q].on \subseteq raced'
    BY DEF RacedOK
  <2>1. CASE r = s
    BY <1>2, <1>3, <2>1
  <2>2. CASE q = s
    BY <1>2, <1>3, <2>2
  <2>3. CASE r # s /\ q # s
    BY <1>1, <1>2, <2>3 DEF FreshInv, RacedOK
  <2> QED BY <2>1, <2>2, <2>3
<1>5. ASSUME NEW r \in Session, ~Idle(r)' PROVE Fresh(r)'
  <2>1. CASE r = s
    BY <1>1, <1>2, <2>1 DEF Fresh
  <2>2. CASE r # s
    BY <1>1, <1>2, <1>5, <2>2 DEF FreshInv, Fresh, Calm
  <2> QED BY <2>1, <2>2
<1> QED BY <1>1, <1>4, <1>5 DEF FreshInv

LEMMA FreshContinue ==
    ASSUME FlowInv, FreshInv, NEW s \in Session, NEW t, Continue(s, t), UNCHANGED tables,
           t.on = {}, t.op \notin Steps
    PROVE  FreshInv' /\ raced \subseteq raced'
<1>1. /\ UNCHANGED <<transfers, orders, expenses, raced>> /\ DOMAIN task = Session
      /\ task' = [task EXCEPT ![s] = t]
  BY DEF tables, Continue, FlowInv, TasksOK
<1>2. /\ task'[s] = t /\ \A r \in Session \ {s} : task'[r] = task[r] /\ (~Idle(r)' => ~Idle(r))
  BY <1>1 DEF Idle
<1>3. RacedOK'
  BY <1>1, <1>2 DEF FreshInv, RacedOK
<1>4. ASSUME NEW r \in Session, ~Idle(r)' PROVE Fresh(r)'
  <2>1. CASE r = s
    BY <1>2, <2>1 DEF Fresh, Steps
  <2>2. CASE r # s
    BY <1>1, <1>2, <1>4, <2>2 DEF FreshInv, Fresh, Calm
  <2> QED BY <2>1, <2>2
<1> QED BY <1>1, <1>3, <1>4 DEF FreshInv

\* A request that ends has changed no document but those it was about.
LEMMA FreshEnd ==
    ASSUME FlowInv, FreshInv, NEW s \in Session, End(s),
           \A j \in DOMAIN transfers : transfers'[j] = transfers[j] \/ <<"transfer", j>> \in task[s].on,
           \A j \in DOMAIN orders : orders'[j] = orders[j] \/ <<"order", j>> \in task[s].on,
           \A j \in DOMAIN expenses : expenses'[j] = expenses[j] \/ <<"expense", j>> \in task[s].on,
           ~Idle(s) \/ UNCHANGED tables
    PROVE  FreshInv' /\ raced \subseteq raced'
<1>1. raced' = raced /\ DOMAIN task = Session /\ task' = [task EXCEPT ![s] = Nil]
  BY DEF End, FlowInv, TasksOK
<1>2. ASSUME NEW r \in Session, ~Idle(r)' PROVE r # s /\ task'[r] = task[r] /\ ~Idle(r)
  BY <1>1, <1>2 DEF Idle
<1>3. RacedOK'
  BY <1>1, <1>2 DEF FreshInv, RacedOK
<1>4. ASSUME NEW r \in Session, ~Idle(r)' PROVE Fresh(r)'
  <2>1. r # s /\ task'[r] = task[r] /\ ~Idle(r) /\ Fresh(r)
    BY <1>2, <1>4 DEF FreshInv
  <2>2. ~Idle(s) => \A d \in task[r].on : d \notin raced => d \notin task[s].on
    BY <2>1 DEF FreshInv, RacedOK
  <2>3. ASSUME task[r].op \in TransferSteps, Calm("transfer", task[r].id)
        PROVE  transfers'[task[r].id] = transfers[task[r].id]
    <3>1. task[r].id \in DOMAIN transfers /\ task[r].on = {<<"transfer", task[r].id>>}
      BY <2>1, <2>3, StepOn
    <3> QED BY <2>2, <2>3, <3>1 DEF Calm, tables
  <2>4. ASSUME task[r].op \in OrderSteps, Calm("order", task[r].id)
        PROVE  orders'[task[r].id] = orders[task[r].id]
    <3>1. task[r].id \in DOMAIN orders /\ task[r].on = {<<"order", task[r].id>>}
      BY <2>1, <2>4, StepOn
    <3> QED BY <2>2, <2>4, <3>1 DEF Calm, tables
  <2>5. ASSUME task[r].op \in ExpenseSteps, Calm("expense", task[r].id)
        PROVE  expenses'[task[r].id] = expenses[task[r].id]
    <3>1. task[r].id \in DOMAIN expenses /\ task[r].on = {<<"expense", task[r].id>>}
      BY <2>1, <2>5, StepOn
    <3> QED BY <2>2, <2>5, <3>1 DEF Calm, tables
  <2> QED BY <1>1, <2>1, <2>3, <2>4, <2>5 DEF Fresh, Calm
<1> QED BY <1>1, <1>3, <1>4 DEF FreshInv

-----------------------------------------------------------------------------
\* What a step does to the tables, the tasks apart.

TransferAdded ==
    /\ \E row \in TransferRow : More(transfers', transfers, row) /\ row.status = "pending"
    /\ UNCHANGED <<orders, expenses, movements, payments>>
    /\ Audited("create_transfer", "transfer", Len(transfers) + 1)

OrderAdded ==
    /\ \E row \in PurchaseOrderRow : More(orders', orders, row) /\ row.status = "draft"
    /\ UNCHANGED <<transfers, expenses, movements, payments>>
    /\ Audited("create_order", "order", Len(orders) + 1)

ExpenseAdded ==
    /\ \E row \in ExpenseRow : More(expenses', expenses, row) /\ row.status = "submitted"
    /\ UNCHANGED <<transfers, orders, movements, payments>>
    /\ Audited("create_expense", "expense", Len(expenses) + 1)

PaymentAdded ==
    /\ \E row \in PaymentRow : More(payments', payments, row)
    /\ UNCHANGED <<transfers, orders, expenses, movements>>
    /\ Audited("pay", "payment", Len(payments) + 1)

\* A document that only one request is about moves on from the status this step needs.
TransferStepped(op, i) ==
    /\ TransferMoved(op, i) /\ UNCHANGED payments
    /\ <<"transfer", i>> \notin raced' => transfers[i].status = Rule[op].needs

OrderStepped(op, i) ==
    /\ OrderMoved(op, i) /\ UNCHANGED payments
    /\ <<"order", i>> \notin raced' => orders[i].status = Rule[op].needs

ExpenseStepped(op, i) ==
    /\ ExpenseMoved(op, i) /\ UNCHANGED payments
    /\ <<"expense", i>> \notin raced' => expenses[i].status = Rule[op].needs

Effect ==
    \/ UNCHANGED tables
    \/ TransferAdded \/ OrderAdded \/ ExpenseAdded \/ PaymentAdded
    \/ \E op, i : TransferStepped(op, i)
    \/ \E op, i : OrderStepped(op, i)
    \/ \E op, i : ExpenseStepped(op, i)

LEMMA CreateEffect ==
    ASSUME FlowInv, FreshInv, NEW s \in Session,
           CommitTransfer(s) \/ CommitOrder(s) \/ CommitExpense(s) \/ CommitPayment(s)
    PROVE  FreshInv' /\ raced \subseteq raced' /\ Effect
<1>0. /\ transfers \in Seq(TransferRow) /\ orders \in Seq(PurchaseOrderRow)
      /\ expenses \in Seq(ExpenseRow) /\ payments \in Seq(PaymentRow)
  BY DEF FlowInv, TablesOK, TypeOK
<1>1. CASE CommitTransfer(s)
  <2>1. /\ ~Idle(s) /\ End(s) /\ UNCHANGED <<orders, expenses, movements, payments>>
        /\ NewTransfer(task[s].payload) \in TransferRow
        /\ More(transfers', transfers, NewTransfer(task[s].payload))
        /\ Audited("create_transfer", "transfer", Len(transfers) + 1)
    BY <1>1, TransferCreated
  <2>2. NewTransfer(task[s].payload).status = "pending"
    BY DEF NewTransfer
  <2>3. TransferAdded
    BY <2>1, <2>2 DEF TransferAdded
  <2>4. \A j \in DOMAIN transfers : transfers'[j] = transfers[j]
    <3> DEFINE new == NewTransfer(task[s].payload)
    <3>1. new \in TransferRow /\ More(transfers', transfers, new)
      BY <2>1
    <3> HIDE DEF new
    <3> QED BY <1>0, <3>1, Appended
  <2> QED BY <2>1, <2>3, <2>4, FreshEnd DEF Effect
<1>2. CASE CommitOrder(s)
  <2>1. /\ ~Idle(s) /\ End(s) /\ UNCHANGED <<transfers, expenses, movements, payments>>
        /\ NewOrder(task[s].payload) \in PurchaseOrderRow
        /\ More(orders', orders, NewOrder(task[s].payload))
        /\ Audited("create_order", "order", Len(orders) + 1)
    BY <1>2, OrderCreated
  <2>2. NewOrder(task[s].payload).status = "draft"
    BY DEF NewOrder
  <2>3. OrderAdded
    BY <2>1, <2>2 DEF OrderAdded
  <2>4. \A j \in DOMAIN orders : orders'[j] = orders[j]
    <3> HIDE DEF NewOrder
    <3> QED BY <1>0, <2>1, Appended
  <2> QED BY <2>1, <2>3, <2>4, FreshEnd DEF Effect
<1>3. CASE CommitExpense(s)
  <2> DEFINE new == [amount |-> task[s].amount, status |-> "submitted"]
  <2>1. /\ ~Idle(s) /\ End(s) /\ UNCHANGED <<transfers, orders, movements, payments>>
        /\ new \in ExpenseRow /\ More(expenses', expenses, new)
        /\ Audited("create_expense", "expense", Len(expenses) + 1)
    BY <1>3, ExpenseCreated
  <2>2. new.status = "submitted"
    OBVIOUS
  <2> HIDE DEF new
  <2>3. ExpenseAdded
    BY <2>1, <2>2 DEF ExpenseAdded
  <2>4. \A j \in DOMAIN expenses : expenses'[j] = expenses[j]
    BY <1>0, <2>1, Appended
  <2> QED BY <2>1, <2>3, <2>4, FreshEnd DEF Effect
<1>4. CASE CommitPayment(s)
  <2> DEFINE new == [supplier |-> task[s].supplier, amount |-> task[s].amount]
  <2>1. /\ ~Idle(s) /\ End(s) /\ UNCHANGED <<transfers, orders, expenses, movements>>
        /\ new \in PaymentRow /\ More(payments', payments, new)
        /\ Audited("pay", "payment", Len(payments) + 1)
    BY <1>4, PaymentMade
  <2> HIDE DEF new
  <2>2. PaymentAdded
    BY <2>1 DEF PaymentAdded
  <2> QED BY <2>1, <2>2, FreshEnd DEF Effect
<1> QED BY <1>1, <1>2, <1>3, <1>4

LEMMA StepEffect ==
    ASSUME FlowInv, FreshInv, NEW s \in Session, CommitStep(s)
    PROVE  FreshInv' /\ raced \subseteq raced' /\ Effect
<1> DEFINE op == task[s].op
           i == task[s].id
<1>0. TypeOK
  BY DEF FlowInv, TablesOK
<1>1. /\ ~Idle(s) /\ End(s) /\ UNCHANGED payments /\ Fresh(s) /\ raced' = raced
      /\ \/ TransferMoved(op, i) /\ TransferStepOK(task[s], transfers, movements)
         \/ OrderMoved(op, i) /\ OrderStepOK(task[s], orders)
         \/ ExpenseMoved(op, i) /\ ExpenseStepOK(task[s], expenses, audit)
  BY CommitShape DEF FreshInv, End
<1>2. CASE TransferMoved(op, i) /\ TransferStepOK(task[s], transfers, movements)
  <2>1. /\ i \in DOMAIN transfers /\ UNCHANGED <<orders, expenses>>
        /\ \E status \in TransferStatus : Moves(transfers', transfers, i, status)
    BY <1>2, StatusesAre DEF TransferMoved
  <2>2. task[s].on = {<<"transfer", i>>}
    BY <1>2 DEF TransferStepOK
  <2>3. \A j \in DOMAIN transfers : transfers'[j] = transfers[j] \/ j = i
    <3> HIDE DEF i
    <3> QED BY <1>0, <2>1, TransferMove DEF TypeOK
  <2>4. TransferStepped(op, i)
    <3>1. op \in TransferSteps
      BY <1>2 DEF TransferStepOK
    <3>2. <<"transfer", i>> \notin raced' => transfers[i].status = Rule[op].needs
      BY <1>1, <3>1 DEF Fresh, Calm
    <3> HIDE DEF op, i
    <3> QED BY <1>1, <1>2, <3>2 DEF TransferStepped
  <2> QED BY <1>1, <2>1, <2>2, <2>3, <2>4, FreshEnd DEF Effect
<1>3. CASE OrderMoved(op, i) /\ OrderStepOK(task[s], orders)
  <2>1. /\ i \in DOMAIN orders /\ UNCHANGED <<transfers, expenses>>
        /\ \E status \in OrderStatus : Moves(orders', orders, i, status)
    BY <1>3, StatusesAre DEF OrderMoved
  <2>2. task[s].on = {<<"order", i>>}
    BY <1>3 DEF OrderStepOK
  <2>3. \A j \in DOMAIN orders : orders'[j] = orders[j] \/ j = i
    <3> HIDE DEF i
    <3> QED BY <1>0, <2>1, OrderMove DEF TypeOK
  <2>4. OrderStepped(op, i)
    <3>1. op \in OrderSteps
      BY <1>3 DEF OrderStepOK
    <3>2. <<"order", i>> \notin raced' => orders[i].status = Rule[op].needs
      BY <1>1, <3>1 DEF Fresh, Calm
    <3> HIDE DEF op, i
    <3> QED BY <1>1, <1>3, <3>2 DEF OrderStepped
  <2> QED BY <1>1, <2>1, <2>2, <2>3, <2>4, FreshEnd DEF Effect
<1>4. CASE ExpenseMoved(op, i) /\ ExpenseStepOK(task[s], expenses, audit)
  <2>1. /\ i \in DOMAIN expenses /\ UNCHANGED <<transfers, orders>>
        /\ \E status \in ExpenseStatus : Moves(expenses', expenses, i, status)
    BY <1>4, StatusesAre DEF ExpenseMoved
  <2>2. task[s].on = {<<"expense", i>>}
    BY <1>4 DEF ExpenseStepOK
  <2>3. \A j \in DOMAIN expenses : expenses'[j] = expenses[j] \/ j = i
    <3> HIDE DEF i
    <3> QED BY <1>0, <2>1, ExpenseMove DEF TypeOK
  <2>4. ExpenseStepped(op, i)
    <3>1. op \in ExpenseSteps
      BY <1>4 DEF ExpenseStepOK
    <3>2. <<"expense", i>> \notin raced' => expenses[i].status = Rule[op].needs
      BY <1>1, <3>1 DEF Fresh, Calm
    <3> HIDE DEF op, i
    <3> QED BY <1>1, <1>4, <3>2 DEF ExpenseStepped
  <2> QED BY <1>1, <2>1, <2>2, <2>3, <2>4, FreshEnd DEF Effect
<1> QED BY <1>1, <1>2, <1>3, <1>4

LEMMA FreshInit == Init => FreshInv
BY DEF Init, InitRequests, FreshInv, RacedOK, Idle

LEMMA Effects ==
    ASSUME FlowInv, FreshInv, [Next]_vars
    PROVE  FreshInv' /\ raced \subseteq raced' /\ Effect
<1>1. CASE UNCHANGED vars
  <2>1. UNCHANGED <<tables, task, raced, transfers, orders, expenses>>
    BY <1>1 DEF vars, tables, requests
  <2> QED BY <2>1 DEF FreshInv, RacedOK, Fresh, Idle, Calm, Effect
<1>2. ASSUME NEW s \in Session, InsertCoded(s) PROVE FreshInv' /\ raced \subseteq raced' /\ Effect
  <2>1. PICK t : /\ Continue(s, t) /\ t.on = task[s].on /\ t.op = task[s].op
                 /\ TaskOK(t, transfers, orders, expenses, movements, audit)
                 /\ t.op \in {"create_transfer", "create_order", "create_expense"}
    BY <1>2, InsertSafe
  <2>2. t.op \notin Steps /\ t.op \notin Reports
    BY <2>1 DEF Steps, TransferSteps, OrderSteps, ExpenseSteps, Reports
  <2>3. t.on = {}
    BY <2>1, <2>2 DEF TaskOK, CreateTransferOK, CreateOrderOK, CreateExpenseOK,
       TransferStepOK, OrderStepOK, ExpenseStepOK, PayOK, ReportOK, Steps
  <2> QED BY <1>2, <2>1, <2>2, <2>3, InsertSafe, FreshContinue DEF Effect
<1>3. ASSUME NEW s \in Session, ReadPaid(s) PROVE FreshInv' /\ raced \subseteq raced' /\ Effect
  <2>1. PICK t : Continue(s, t) /\ ReportOK(t)
    BY <1>3, ReportReads
  <2>2. t.on = {} /\ t.op \notin Steps
    BY <2>1, StepsApart DEF ReportOK
  <2> QED BY <1>3, <2>1, <2>2, ReportReads, FreshContinue DEF Effect
<1>4. ASSUME Next PROVE FreshInv' /\ raced \subseteq raced' /\ Effect
  <2> PICK s \in Session :
           \/ \E p \in NewTransfers : ArriveTransfer(s, p)
           \/ \E p \in NewOrders : ArriveOrder(s, p)
           \/ \E amount \in Amounts : ArriveExpense(s, amount)
           \/ \E op \in DOMAIN Rule : \E i \in DOMAIN Documents[Rule[op].table] : ArriveStep(s, op, i)
           \/ \E sup \in Supplier, amount \in Amounts : ArrivePayment(s, sup, amount)
           \/ \E op \in {"payables_report", "dashboard"} : ArrivePayables(s, op)
           \/ Progress(s)
           \/ Abandon(s)
    BY <1>4 DEF Next
  <2>1. ASSUME UNCHANGED tables, End(s) PROVE FreshInv' /\ raced \subseteq raced' /\ Effect
    BY <2>1, FreshEnd DEF Effect, tables
  <2> QED BY <1>2, <1>3, <2>1, StepKinds, FreshArrive, CreateEffect, StepEffect DEF Effect
<1> QED BY <1>1, <1>4

-----------------------------------------------------------------------------
\* What the movements of a document add up to.

\* The movements that count, and what they say.
NetOf(ref, w, p, ms) ==
    {k \in DOMAIN ms : ms[k].ref = ref /\ ms[k].warehouse = w /\ ms[k].product = p}

Deltas(ms) == [k \in DOMAIN ms |-> ms[k].delta]

LEMMA NetIs ==
    ASSUME NEW ref, NEW w, NEW p, NEW ms \in Seq(MovementRow)
    PROVE  /\ Net(ref, w, p, ms) = SumFunctionOnSet(Deltas(ms), NetOf(ref, w, p, ms))
           /\ IsFiniteSet(NetOf(ref, w, p, ms)) /\ NetOf(ref, w, p, ms) \subseteq DOMAIN ms
           /\ \A k \in DOMAIN ms : Deltas(ms)[k] = ms[k].delta /\ ms[k].delta \in Int
           /\ Net(ref, w, p, ms) \in Int
<1>1. Net(ref, w, p, ms) = SumFunctionOnSet(Deltas(ms), NetOf(ref, w, p, ms))
  BY DEF Net, Deltas, NetOf
<1>2. IsFiniteSet(NetOf(ref, w, p, ms)) /\ NetOf(ref, w, p, ms) \subseteq DOMAIN ms
  <2>1. DOMAIN ms = 1..Len(ms) /\ Len(ms) \in Nat
    OBVIOUS
  <2>2. IsFiniteSet(DOMAIN ms)
    BY <2>1, FS_Interval
  <2>3. NetOf(ref, w, p, ms) \subseteq DOMAIN ms
    BY DEF NetOf
  <2> QED BY <2>2, <2>3, FS_Subset
<1>3. ASSUME NEW k \in DOMAIN ms PROVE Deltas(ms)[k] = ms[k].delta /\ ms[k].delta \in Int
  <2>1. ms[k] \in MovementRow
    OBVIOUS
  <2> QED BY <2>1 DEF Deltas, MovementRow
<1>4. SumFunctionOnSet(Deltas(ms), NetOf(ref, w, p, ms)) \in Int
  BY <1>2, <1>3, SumInt
<1> QED BY <1>1, <1>2, <1>3, <1>4

\* A document without movements has changed nothing.
LEMMA NetUnused ==
    ASSUME NEW ref, NEW w, NEW p, NEW ms \in Seq(MovementRow), \A k \in DOMAIN ms : ms[k].ref # ref
    PROVE  Net(ref, w, p, ms) = 0
<1>1. NetOf(ref, w, p, ms) = {}
  BY DEF NetOf
<1>2. Net(ref, w, p, ms) = SumFunctionOnSet(Deltas(ms), {})
  <2>1. Net(ref, w, p, ms) = SumFunctionOnSet(Deltas(ms), NetOf(ref, w, p, ms))
    BY NetIs
  <2> QED BY <1>1, <2>1
<1>3. SumFunctionOnSet(Deltas(ms), {}) = 0
  BY SumEmpty
<1> QED BY <1>2, <1>3

\* Movements of other documents do not count.
LEMMA NetSame ==
    ASSUME NEW ref, NEW w, NEW p, NEW ms \in Seq(MovementRow), NEW ns \in Seq(MovementRow),
           Extends(ns, ms),
           \A k \in DOMAIN ns : k \in DOMAIN ms \/ ns[k].ref # ref \/ ns[k].warehouse # w
    PROVE  Net(ref, w, p, ns) = Net(ref, w, p, ms)
<1>1. NetOf(ref, w, p, ns) = NetOf(ref, w, p, ms)
  BY DEF NetOf, Extends
<1>2. \A k \in NetOf(ref, w, p, ms) : Deltas(ns)[k] = Deltas(ms)[k]
  BY DEF Extends, Deltas, NetOf
<1>3. SumFunctionOnSet(Deltas(ns), NetOf(ref, w, p, ms)) =
         SumFunctionOnSet(Deltas(ms), NetOf(ref, w, p, ms))
  BY <1>2, NetIs, SumSame
<1> QED BY <1>1, <1>3, NetIs

LEMMA AskedIsNat ==
    ASSUME NEW items, Len(items) \in Nat, DOMAIN items = 1..Len(items),
           \A k \in 1..Len(items) : items[k].quantity \in Nat \ {0}, NEW p
    PROVE  Asked(items, p) \in Nat
<1> DEFINE f == [k \in DOMAIN items |-> items[k].quantity]
           J == {k \in DOMAIN items : items[k].product = p}
<1>1. \A k \in J : f[k] \in Nat
  OBVIOUS
<1>2. IsFiniteSet(J)
  <2>1. IsFiniteSet(DOMAIN items)
    BY FS_Interval
  <2>2. J \subseteq DOMAIN items
    OBVIOUS
  <2> HIDE DEF J
  <2> QED BY <2>1, <2>2, FS_Subset
<1> HIDE DEF f, J
<1>3. SumFunctionOnSet(f, J) \in Nat
  BY <1>1, <1>2, SumNat
<1> QED BY <1>3 DEF f, J, Asked

\* The lines booked in a warehouse change what the document changed there by what
\* they ask for.
LEMMA NetBooked ==
    ASSUME NEW ms \in Seq(MovementRow), NEW ns \in Seq(MovementRow), NEW items,
           Len(items) \in Nat, DOMAIN items = 1..Len(items),
           \A k \in 1..Len(items) : items[k].quantity \in Nat \ {0},
           NEW type, NEW ref, NEW w, NEW sign \in {-1, 1},
           Books(ns, ms, items, type, ref, w, sign), NEW p
    PROVE  /\ sign = 1 => Net(ref, w, p, ns) = Net(ref, w, p, ms) + Asked(items, p)
           /\ sign = -1 => Net(ref, w, p, ns) = Net(ref, w, p, ms) - Asked(items, p)
<1> DEFINE J == {k \in DOMAIN items : items[k].product = p}
           q == [k \in DOMAIN items |-> items[k].quantity]
           g == [k \in DOMAIN items |-> sign * items[k].quantity]
           b == [k \in J |-> Len(ms) + k]
           I == NetOf(ref, w, p, ms)
           B == {b[k] : k \in J}
           d == Deltas(ns)
<1>1. /\ Len(ms) \in Nat /\ DOMAIN ms = 1..Len(ms) /\ DOMAIN ns = 1..(Len(ms) + Len(items))
      /\ \A k \in 1..Len(ms) : ns[k] = ms[k]
      /\ \A k \in 1..Len(items) :
            /\ ns[Len(ms) + k].ref = ref /\ ns[Len(ms) + k].warehouse = w
            /\ ns[Len(ms) + k].product = items[k].product
            /\ ns[Len(ms) + k].delta = sign * items[k].quantity
  <2>1. Len(ms) \in Nat /\ DOMAIN ms = 1..Len(ms) /\ DOMAIN ns = 1..Len(ns)
    OBVIOUS
  <2>2. Len(ns) = Len(ms) + Len(items) /\ \A k \in 1..Len(ms) : ns[k] = ms[k]
    BY DEF Books
  <2>3. ASSUME NEW k \in 1..Len(items)
        PROVE  /\ ns[Len(ms) + k].ref = ref /\ ns[Len(ms) + k].warehouse = w
               /\ ns[Len(ms) + k].product = items[k].product
               /\ ns[Len(ms) + k].delta = sign * items[k].quantity
    <3>1. ns[Len(ms) + k] = [type |-> type, ref |-> ref, warehouse |-> w,
                             product |-> items[k].product, delta |-> sign * items[k].quantity]
      BY DEF Books
    <3> QED BY <3>1
  <2> QED BY <2>1, <2>2, <2>3
<1>2. IsFiniteSet(J) /\ J \subseteq 1..Len(items)
  <2>1. IsFiniteSet(DOMAIN items)
    BY FS_Interval
  <2>2. J \subseteq DOMAIN items
    OBVIOUS
  <2> HIDE DEF J
  <2> QED BY <2>1, <2>2, FS_Subset
<1>3. /\ IsFiniteSet(I) /\ I \subseteq DOMAIN ms /\ Net(ref, w, p, ms) = SumFunctionOnSet(Deltas(ms), I)
      /\ Net(ref, w, p, ns) = SumFunctionOnSet(d, NetOf(ref, w, p, ns))
      /\ \A k \in DOMAIN ns : d[k] = ns[k].delta /\ d[k] \in Int
      /\ \A k \in DOMAIN ms : Deltas(ms)[k] = ms[k].delta
  <2>1. /\ IsFiniteSet(I) /\ I \subseteq DOMAIN ms
        /\ Net(ref, w, p, ms) = SumFunctionOnSet(Deltas(ms), I)
        /\ \A k \in DOMAIN ms : Deltas(ms)[k] = ms[k].delta
    BY NetIs
  <2>2. /\ Net(ref, w, p, ns) = SumFunctionOnSet(d, NetOf(ref, w, p, ns))
        /\ \A k \in DOMAIN ns : d[k] = ns[k].delta /\ ns[k].delta \in Int
    BY NetIs
  <2> HIDE DEF d, I
  <2> QED BY <2>1, <2>2
<1>4. \A k \in J : b[k] = Len(ms) + k /\ b[k] \in DOMAIN ns /\ b[k] \notin DOMAIN ms
  BY <1>1, <1>2
<1>5. NetOf(ref, w, p, ns) = I \cup B
  <2>1. ASSUME NEW k \in NetOf(ref, w, p, ns) PROVE k \in I \cup B
    <3>1. CASE k <= Len(ms)
      BY <1>1, <2>1, <3>1 DEF NetOf
    <3>2. CASE k > Len(ms)
      <4>1. k - Len(ms) \in 1..Len(items) /\ Len(ms) + (k - Len(ms)) = k
        BY <1>1, <2>1, <3>2 DEF NetOf
      <4>2. k - Len(ms) \in J
        BY <1>1, <2>1, <4>1 DEF NetOf
      <4> QED BY <1>4, <4>1, <4>2
    <3>3. k \in 1..(Len(ms) + Len(items))
      BY <1>1, <2>1 DEF NetOf
    <3>4. k <= Len(ms) \/ k > Len(ms)
      BY <1>1, <3>3
    <3> QED BY <3>1, <3>2, <3>4
  <2>2. ASSUME NEW k \in I PROVE k \in NetOf(ref, w, p, ns)
    BY <1>1, <2>2 DEF NetOf
  <2>3. ASSUME NEW k \in J PROVE b[k] \in NetOf(ref, w, p, ns)
    BY <1>1, <1>2, <1>4, <2>3 DEF NetOf
  <2> QED BY <2>1, <2>2, <2>3
<1>6. I \cap B = {}
  <2> HIDE DEF I, b
  <2> QED BY <1>3, <1>4
<1>7. IsFiniteSet(B)
  <2>1. b \in Surjection(J, B)
    BY DEF Surjection
  <2> QED BY <1>2, <2>1, FS_Surjection
<1>8. SumFunctionOnSet(d, I) = Net(ref, w, p, ms)
  <2>1. \A k \in I : d[k] = Deltas(ms)[k]
    BY <1>1, <1>3
  <2> HIDE DEF d, I
  <2> QED BY <1>3, <2>1, SumSame
<1>9. \A k \in J : d[b[k]] = g[k] /\ g[k] \in Int
  <2>1. ASSUME NEW k \in J PROVE d[b[k]] = sign * items[k].quantity
    BY <1>1, <1>2, <1>3, <1>4
  <2>2. ASSUME NEW k \in J PROVE g[k] = sign * items[k].quantity
    BY <1>2
  <2>3. ASSUME NEW k \in J PROVE sign * items[k].quantity \in Int
    BY <1>2
  <2> QED BY <2>1, <2>2, <2>3
<1>10. \A k, l \in J : b[k] = b[l] => k = l
  BY <1>1, <1>2, <1>4
<1>11. \A k \in I \cup B : d[k] \in Int
  <2>1. \A k \in DOMAIN ms : k \in DOMAIN ns
    BY <1>1
  <2> HIDE DEF I, b, d
  <2> QED BY <1>3, <1>4, <2>1
<1>12. \A k \in J : q[k] \in Int /\ (sign = 1 => g[k] = q[k]) /\ (sign = -1 => g[k] = 0 - q[k])
  <2>1. ASSUME NEW k \in J PROVE q[k] \in Int /\ q[k] = items[k].quantity
    BY <1>2
  <2>2. ASSUME NEW k \in J PROVE g[k] = sign * q[k]
    BY <1>2, <2>1
  <2> HIDE DEF g, q
  <2>3. ASSUME NEW k \in J, sign = -1 PROVE g[k] = 0 - q[k]
    BY <2>1, <2>2, <2>3
  <2>4. ASSUME NEW k \in J, sign = 1 PROVE g[k] = q[k]
    BY <2>1, <2>2, <2>4
  <2> QED BY <2>1, <2>3, <2>4
<1>13. Asked(items, p) = SumFunctionOnSet(q, J) /\ Asked(items, p) \in Nat
  BY AskedIsNat DEF Asked
<1> HIDE DEF d, I, J, b, g, q
<1>14. SumFunctionOnSet(d, B) = SumFunctionOnSet(g, J)
  <2>1. IsFiniteSet(J)
    BY <1>2
  <2> QED BY <2>1, <1>9, <1>10, SumImage DEF B
<1>15. sign = 1 => SumFunctionOnSet(g, J) = SumFunctionOnSet(q, J)
  BY <1>2, <1>12, SumSame
<1>16. sign = -1 => SumFunctionOnSet(g, J) = 0 - SumFunctionOnSet(q, J)
  BY <1>2, <1>12, SumOpposite
<1> HIDE DEF B
<1>17. SumFunctionOnSet(d, I \cup B) = SumFunctionOnSet(d, I) + SumFunctionOnSet(d, B)
  BY <1>3, <1>6, <1>7, <1>11, SumUnion
<1>18. Net(ref, w, p, ms) \in Int
  BY NetIs
<1> QED BY <1>3, <1>5, <1>8, <1>13, <1>14, <1>15, <1>16, <1>17, <1>18

LEMMA NetTaken ==
    ASSUME NEW ms \in Seq(MovementRow), NEW ns \in Seq(MovementRow), NEW items,
           Len(items) \in Nat, DOMAIN items = 1..Len(items),
           \A k \in 1..Len(items) : items[k].quantity \in Nat \ {0},
           NEW type, NEW ref, NEW w, Books(ns, ms, items, type, ref, w, -1), NEW p
    PROVE  Net(ref, w, p, ns) = Net(ref, w, p, ms) - Asked(items, p)
<1>1. -1 \in {-1, 1}
  OBVIOUS
<1> QED BY <1>1, NetBooked

LEMMA NetPut ==
    ASSUME NEW ms \in Seq(MovementRow), NEW ns \in Seq(MovementRow), NEW items,
           Len(items) \in Nat, DOMAIN items = 1..Len(items),
           \A k \in 1..Len(items) : items[k].quantity \in Nat \ {0},
           NEW type, NEW ref, NEW w, Books(ns, ms, items, type, ref, w, 1), NEW p
    PROVE  Net(ref, w, p, ns) = Net(ref, w, p, ms) + Asked(items, p)
<1>1. 1 \in {-1, 1}
  OBVIOUS
<1> QED BY <1>1, NetBooked

\* ... and what it changed in another warehouse not at all.
LEMMA NetElsewhere ==
    ASSUME NEW ms \in Seq(MovementRow), NEW ns \in Seq(MovementRow), NEW items,
           Len(items) \in Nat, NEW type, NEW ref, NEW w, NEW sign,
           Books(ns, ms, items, type, ref, w, sign), NEW v, v # w, NEW p
    PROVE  Net(ref, v, p, ns) = Net(ref, v, p, ms)
<1>1. Len(ms) \in Nat /\ DOMAIN ms = 1..Len(ms) /\ DOMAIN ns = 1..Len(ns)
  OBVIOUS
<1>2. Len(ns) = Len(ms) + Len(items) /\ Extends(ns, ms)
  <2>1. Extends(ns, ms)
    BY BooksGrow
  <2> QED BY <2>1 DEF Books
<1>3. ASSUME NEW k \in 1..Len(items) PROVE ns[Len(ms) + k].warehouse = w
  <2>1. ns[Len(ms) + k] = [type |-> type, ref |-> ref, warehouse |-> w,
                           product |-> items[k].product, delta |-> sign * items[k].quantity]
    BY DEF Books
  <2> QED BY <2>1
<1>4. ASSUME NEW k \in DOMAIN ns PROVE k \in DOMAIN ms \/ ns[k].warehouse # v
  <2>1. CASE k > Len(ms)
    <3>1. k - Len(ms) \in 1..Len(items) /\ Len(ms) + (k - Len(ms)) = k
      BY <1>1, <1>2, <2>1
    <3> QED BY <1>3, <3>1
  <2>2. CASE k <= Len(ms)
    BY <1>1, <1>2, <2>2
  <2> QED BY <1>1, <2>1, <2>2
<1> QED BY <1>2, <1>4, NetSame

-----------------------------------------------------------------------------
\* What a transfer has moved keeps to its status.

LEMMA ConservedKept ==
    ASSUME NEW i, NEW t, NEW ms \in Seq(MovementRow), NEW ns \in Seq(MovementRow),
           Extends(ns, ms), \A k \in DOMAIN ns : k \in DOMAIN ms \/ ns[k].ref # <<"transfer", i>>,
           Conserved(t, i, ms)
    PROVE  Conserved(t, i, ns)
<1> DEFINE ref == <<"transfer", i>>
<1>1. \A w, p : Net(ref, w, p, ns) = Net(ref, w, p, ms)
  <2> HIDE DEF ref
  <2> SUFFICES ASSUME NEW w, NEW p PROVE Net(ref, w, p, ns) = Net(ref, w, p, ms)
    OBVIOUS
  <2>1. \A k \in DOMAIN ns : k \in DOMAIN ms \/ ns[k].ref # ref
    BY DEF ref
  <2> QED BY <2>1, NetSame
<1> QED BY <1>1 DEF Conserved

\* What the movements of a step refer to.
LEMMA StepBooks ==
    ASSUME FlowInv, FlowInv', NEW op, NEW i, TransferStepped(op, i)
    PROVE  /\ Extends(movements', movements)
           /\ \A k \in DOMAIN movements' :
                 k \in DOMAIN movements \/ movements'[k].ref = <<"transfer", i>>
<1>1. TablesOK /\ movements \in Seq(MovementRow) /\ movements' \in Seq(MovementRow)
  BY DEF FlowInv, TablesOK, TypeOK
<1>2. ASSUME UNCHANGED movements PROVE Extends(movements', movements)
  BY <1>2 DEF Extends
<1>3. i \in DOMAIN transfers /\ TransferMoved(op, i)
  BY DEF TransferStepped, TransferMoved
<1>4. Len(transfers[i].items) \in Nat
  BY <1>1, <1>3, ItemsOf
<1>5. CASE UNCHANGED movements
  BY <1>2, <1>5
<1>6. ASSUME NEW type, NEW w, NEW sign,
             Books(movements', movements, transfers[i].items, type, <<"transfer", i>>, w, sign)
      PROVE  /\ Extends(movements', movements)
             /\ \A k \in DOMAIN movements' :
                   k \in DOMAIN movements \/ movements'[k].ref = <<"transfer", i>>
  BY <1>1, <1>4, <1>6, BooksGrow
<1> QED BY <1>3, <1>5, <1>6 DEF TransferMoved

LEMMA OrderStepBooks ==
    ASSUME FlowInv, FlowInv', NEW op, NEW i, OrderStepped(op, i)
    PROVE  /\ Extends(movements', movements)
           /\ \A k \in DOMAIN movements' :
                 k \in DOMAIN movements \/ movements'[k].ref = <<"order", i>>
<1>1. TablesOK /\ movements \in Seq(MovementRow) /\ movements' \in Seq(MovementRow)
  BY DEF FlowInv, TablesOK, TypeOK
<1>2. ASSUME UNCHANGED movements PROVE Extends(movements', movements)
  BY <1>2 DEF Extends
<1>3. i \in DOMAIN orders /\ OrderMoved(op, i)
  BY DEF OrderStepped, OrderMoved
<1>4. Len(orders[i].items) \in Nat
  BY <1>1, <1>3, ItemsOf
<1>5. CASE UNCHANGED movements
  BY <1>2, <1>5
<1>6. ASSUME NEW type, NEW w, NEW sign,
             Books(movements', movements, orders[i].items, type, <<"order", i>>, w, sign)
      PROVE  /\ Extends(movements', movements)
             /\ \A k \in DOMAIN movements' :
                   k \in DOMAIN movements \/ movements'[k].ref = <<"order", i>>
  BY <1>1, <1>4, <1>6, BooksGrow
<1> QED BY <1>3, <1>5, <1>6 DEF OrderMoved

LEMMA EffectBooks ==
    ASSUME FlowInv, FlowInv', Effect
    PROVE  /\ movements \in Seq(MovementRow) /\ movements' \in Seq(MovementRow)
           /\ Extends(movements', movements)
           /\ \/ UNCHANGED movements
              \/ \E op, i : /\ TransferStepped(op, i)
                            /\ \A k \in DOMAIN movements' :
                                  k \in DOMAIN movements \/ movements'[k].ref = <<"transfer", i>>
              \/ \E op, i : /\ OrderStepped(op, i)
                            /\ \A k \in DOMAIN movements' :
                                  k \in DOMAIN movements \/ movements'[k].ref = <<"order", i>>
<1>1. TablesOK /\ movements \in Seq(MovementRow) /\ movements' \in Seq(MovementRow)
  BY DEF FlowInv, TablesOK, TypeOK
<1>2. ASSUME UNCHANGED movements PROVE Extends(movements', movements)
  BY <1>2 DEF Extends
<1>3. \/ UNCHANGED movements
      \/ \E op, i : TransferStepped(op, i)
      \/ \E op, i : OrderStepped(op, i)
  BY DEF Effect, TransferAdded, OrderAdded, ExpenseAdded, PaymentAdded, ExpenseStepped,
         ExpenseMoved, tables
<1> QED BY <1>1, <1>2, <1>3, StepBooks, OrderStepBooks

\* A transfer is new, or what it was, or moved by a step.
LEMMA EffectTransfers ==
    ASSUME FlowInv, Effect
    PROVE  \/ UNCHANGED transfers
           \/ TransferAdded
           \/ \E op, i : TransferStepped(op, i)
BY DEF Effect, OrderAdded, ExpenseAdded, PaymentAdded, OrderStepped, ExpenseStepped, OrderMoved,
       ExpenseMoved, tables

\* The transfer a step moves, when no other request is about it.
LEMMA MoveConserves ==
    ASSUME FlowInv, FlowInv', NEW op, NEW i, TransferMoved(op, i),
           transfers[i].status = Rule[op].needs, Conserved(transfers[i], i, movements)
    PROVE  Conserved(transfers'[i], i, movements')
<1> DEFINE t == transfers[i]
           ref == <<"transfer", i>>
<1>1. /\ TablesOK /\ TypeOK /\ movements \in Seq(MovementRow) /\ movements' \in Seq(MovementRow)
      /\ i \in DOMAIN transfers /\ op \in TransferSteps
  BY DEF FlowInv, TablesOK, TypeOK, TransferMoved
<1>2. /\ Len(t.items) \in Nat /\ DOMAIN t.items = 1..Len(t.items)
      /\ \A k \in 1..Len(t.items) : t.items[k].quantity \in Nat \ {0}
  <2>1. t.items \in Seq(TransferItemIn)
    BY <1>1, ItemsOf
  <2> QED BY <2>1, LinesTyped
<1>3. t.from # t.to
  BY <1>1 DEF TablesOK, RowsOK
<1>4. \A st \in TransferStatus : Moves(transfers', transfers, i, st) =>
         /\ transfers'[i].from = t.from /\ transfers'[i].to = t.to
         /\ transfers'[i].items = t.items /\ transfers'[i].status = st
  BY <1>1, TransferMove DEF TypeOK
<1>5. \A p : Asked(t.items, p) \in Nat
  BY <1>2, AskedIsNat
<1>6. CASE op = "approve_transfer"
  <2>1. /\ transfers'[i].from = t.from /\ transfers'[i].to = t.to
        /\ transfers'[i].items = t.items /\ transfers'[i].status = "approved"
        /\ movements' = movements /\ t.status = "pending"
    BY <1>4, <1>6, RuleIs, StatusesAre DEF TransferMoved
  <2> QED BY <2>1 DEF Conserved
<1>7. CASE op = "dispatch_transfer"
  <2>1. /\ transfers'[i].from = t.from /\ transfers'[i].to = t.to
        /\ transfers'[i].items = t.items /\ transfers'[i].status = "dispatched"
        /\ t.status = "approved"
        /\ Books(movements', movements, t.items, "transfer_out", ref, t.from, -1)
    BY <1>4, <1>7, RuleIs, StatusesAre DEF TransferMoved
  <2> HIDE DEF ref
  <2>2. \A p : Net(ref, t.from, p, movements') = Net(ref, t.from, p, movements) - Asked(t.items, p)
    <3> DEFINE items == t.items
    <3>1. /\ Len(items) \in Nat /\ DOMAIN items = 1..Len(items)
          /\ \A k \in 1..Len(items) : items[k].quantity \in Nat \ {0}
          /\ Books(movements', movements, items, "transfer_out", ref, t.from, -1)
      BY <1>2, <2>1
    <3> HIDE DEF items
    <3>2. \A p : Net(ref, t.from, p, movements') = Net(ref, t.from, p, movements) - Asked(items, p)
      BY <1>1, <3>1, NetTaken
    <3> QED BY <3>2 DEF items
  <2>3. \A p : Net(ref, t.to, p, movements') = Net(ref, t.to, p, movements)
    BY <1>1, <1>2, <1>3, <2>1, NetElsewhere
  <2>4. ASSUME NEW k \in DOMAIN t.items
        PROVE  /\ Net(ref, t.from, t.items[k].product, movements) = 0
               /\ Net(ref, t.to, t.items[k].product, movements) = 0
    BY <2>1 DEF Conserved, ref
  <2>5. ASSUME NEW k \in DOMAIN t.items
        PROVE  /\ Net(ref, t.from, t.items[k].product, movements') = -Asked(t.items, t.items[k].product)
               /\ Net(ref, t.to, t.items[k].product, movements') = 0
    BY <1>5, <2>2, <2>3, <2>4
  <2> QED BY <2>1, <2>5 DEF Conserved, ref
<1>8. CASE op = "receive_transfer"
  <2>1. /\ transfers'[i].from = t.from /\ transfers'[i].to = t.to
        /\ transfers'[i].items = t.items /\ transfers'[i].status = "received"
        /\ t.status = "dispatched"
        /\ Books(movements', movements, t.items, "transfer_in", ref, t.to, 1)
    BY <1>4, <1>8, RuleIs, StatusesAre DEF TransferMoved
  <2> HIDE DEF ref
  <2>2. \A p : Net(ref, t.to, p, movements') = Net(ref, t.to, p, movements) + Asked(t.items, p)
    <3> DEFINE items == t.items
    <3>1. /\ Len(items) \in Nat /\ DOMAIN items = 1..Len(items)
          /\ \A k \in 1..Len(items) : items[k].quantity \in Nat \ {0}
          /\ Books(movements', movements, items, "transfer_in", ref, t.to, 1)
      BY <1>2, <2>1
    <3> HIDE DEF items
    <3>2. \A p : Net(ref, t.to, p, movements') = Net(ref, t.to, p, movements) + Asked(items, p)
      BY <1>1, <3>1, NetPut
    <3> QED BY <3>2 DEF items
  <2>3. \A p : Net(ref, t.from, p, movements') = Net(ref, t.from, p, movements)
    BY <1>1, <1>2, <1>3, <2>1, NetElsewhere
  <2>4. ASSUME NEW k \in DOMAIN t.items
        PROVE  /\ Net(ref, t.from, t.items[k].product, movements) = -Asked(t.items, t.items[k].product)
               /\ Net(ref, t.to, t.items[k].product, movements) = 0
    BY <2>1 DEF Conserved, ref
  <2>5. ASSUME NEW k \in DOMAIN t.items
        PROVE  /\ Net(ref, t.from, t.items[k].product, movements') = -Asked(t.items, t.items[k].product)
               /\ Net(ref, t.to, t.items[k].product, movements') = Asked(t.items, t.items[k].product)
    BY <1>5, <2>2, <2>3, <2>4
  <2> QED BY <2>1, <2>5 DEF Conserved, ref
<1> QED BY <1>1, <1>6, <1>7, <1>8 DEF TransferSteps

LEMMA ConservesStep ==
    ASSUME FlowInv, FlowInv', TransferConserves, raced \subseteq raced', Effect
    PROVE  TransferConserves'
<1>0. TablesOK /\ TypeOK /\ TablesOK'
  BY DEF FlowInv, TablesOK
<1> SUFFICES ASSUME NEW j \in DOMAIN transfers', <<"transfer", j>> \notin raced'
             PROVE  Conserved(transfers'[j], j, movements')
  BY DEF TransferConserves, Calm
<1>1. j \in DOMAIN transfers => Conserved(transfers[j], j, movements)
  BY DEF TransferConserves, Calm
<1>2. /\ movements \in Seq(MovementRow) /\ movements' \in Seq(MovementRow)
      /\ Extends(movements', movements)
  BY EffectBooks
<1>3. CASE UNCHANGED transfers /\ \A k \in DOMAIN movements' :
              k \in DOMAIN movements \/ movements'[k].ref # <<"transfer", j>>
  BY <1>1, <1>2, <1>3, ConservedKept
<1>4. CASE TransferAdded
  <2> PICK row \in TransferRow : More(transfers', transfers, row) /\ row.status = "pending"
    BY <1>4 DEF TransferAdded
  <2> DEFINE n == Len(transfers)
  <2>1. /\ n \in Nat /\ DOMAIN transfers = 1..n /\ DOMAIN transfers' = 1..(n + 1)
        /\ transfers'[n + 1] = row /\ \A k \in 1..n : transfers'[k] = transfers[k]
    BY <1>0, Appended DEF TypeOK
  <2>2. movements' = movements
    BY <1>4 DEF TransferAdded
  <2> HIDE DEF n
  <2>3. CASE j \in 1..n
    BY <1>1, <2>1, <2>2, <2>3
  <2>4. CASE j = n + 1
    <3>1. \A k \in DOMAIN movements : movements[k].ref # <<"transfer", j>>
      BY <1>0, <2>1, <2>4 DEF TablesOK, RefsOK
    <3>2. \A w, p : Net(<<"transfer", j>>, w, p, movements) = 0
      BY <1>2, <3>1, NetUnused
    <3> QED BY <2>1, <2>2, <2>4, <3>2 DEF Conserved
  <2> QED BY <2>1, <2>3, <2>4
<1>5. ASSUME NEW op, NEW i, TransferStepped(op, i),
             \A k \in DOMAIN movements' :
                k \in DOMAIN movements \/ movements'[k].ref = <<"transfer", i>>
      PROVE  Conserved(transfers'[j], j, movements')
  <2>1. /\ TransferMoved(op, i) /\ i \in DOMAIN transfers
        /\ <<"transfer", i>> \notin raced' => transfers[i].status = Rule[op].needs
        /\ \E st \in TransferStatus : Moves(transfers', transfers, i, st)
    BY <1>5, StatusesAre DEF TransferStepped, TransferMoved
  <2>2. /\ DOMAIN transfers' = DOMAIN transfers
        /\ \A l \in DOMAIN transfers \ {i} : transfers'[l] = transfers[l]
    BY <1>0, <2>1, TransferMove DEF TypeOK
  <2>3. CASE j = i
    BY <1>1, <2>1, <2>2, <2>3, MoveConserves
  <2>4. CASE j # i
    <3>1. \A k \in DOMAIN movements' : k \in DOMAIN movements \/ movements'[k].ref # <<"transfer", j>>
      BY <1>5, <2>4
    <3> QED BY <1>1, <1>2, <2>2, <2>4, <3>1, ConservedKept
  <2> QED BY <2>3, <2>4
<1>6. CASE UNCHANGED transfers
  <2>1. ASSUME NEW op, NEW i, TransferStepped(op, i) PROVE Conserved(transfers'[j], j, movements')
    <3>1. \A k \in DOMAIN movements' :
             k \in DOMAIN movements \/ movements'[k].ref = <<"transfer", i>>
      BY <2>1, StepBooks
    <3> QED BY <1>5, <2>1, <3>1
  <2>2. CASE UNCHANGED movements
    BY <1>3, <1>6, <2>2
  <2>3. ASSUME NEW i, \A k \in DOMAIN movements' :
                         k \in DOMAIN movements \/ movements'[k].ref = <<"order", i>>
        PROVE  Conserved(transfers'[j], j, movements')
    <3>1. \A k \in DOMAIN movements' : k \in DOMAIN movements \/ movements'[k].ref # <<"transfer", j>>
      BY <2>3
    <3> QED BY <1>3, <1>6, <3>1
  <2> QED BY <2>1, <2>2, <2>3, EffectBooks
<1>7. ASSUME NEW op, NEW i, TransferStepped(op, i) PROVE Conserved(transfers'[j], j, movements')
  BY <1>5, <1>7, StepBooks
<1> QED BY <1>4, <1>6, <1>7, EffectTransfers

-----------------------------------------------------------------------------
\* What an order is owed for.

\* The lines came as the movements after the b-th.
Came(o, b, ms) ==
    \A k \in DOMAIN o.items :
        /\ ms[b + k].product = o.items[k].product
        /\ ms[b + k].delta = o.items[k].quantity
        /\ ms[b + k].warehouse = o.warehouse

LEMMA OwedKept ==
    ASSUME NEW o, o.items \in Seq(PurchaseOrderItemIn), NEW i,
           NEW ms \in Seq(MovementRow), NEW ns \in Seq(MovementRow),
           Extends(ns, ms), \A k \in DOMAIN ns : k \in DOMAIN ms \/ ns[k].ref # <<"order", i>>,
           Owed(o, i, ms)
    PROVE  Owed(o, i, ns)
<1> DEFINE ref == <<"order", i>>
<1>1. Booked(ref, "in", ns) = Booked(ref, "in", ms)
  BY DEF Booked, Extends
<1>2. /\ Len(ms) \in Nat /\ Len(ns) \in Nat /\ DOMAIN ms = 1..Len(ms) /\ DOMAIN ns = 1..Len(ns)
  OBVIOUS
<1>3. Len(ms) <= Len(ns)
  <2>1. Len(ms) > 0 => Len(ms) \in DOMAIN ns
    BY <1>2 DEF Extends
  <2> QED BY <1>2, <2>1
<1>4. CASE o.status = "received"
  <2>1. PICK b \in 0..Len(ms) : /\ Booked(ref, "in", ms) = {b + k : k \in DOMAIN o.items}
                                /\ Came(o, b, ms)
    BY <1>4 DEF Owed, Came
  <2>2. ASSUME NEW k \in DOMAIN o.items PROVE ns[b + k] = ms[b + k]
    <3>1. b + k \in Booked(ref, "in", ms)
      BY <2>1
    <3> QED BY <3>1 DEF Booked, Extends
  <2>3. Came(o, b, ns)
    BY <2>1, <2>2 DEF Came
  <2>4. b \in 0..Len(ns)
    BY <1>2, <1>3
  <2>5. /\ Booked(ref, "in", ns) = {b + k : k \in DOMAIN o.items}
        /\ Came(o, b, ns)
    BY <1>1, <2>1, <2>3
  <2> QED BY <1>4, <2>4, <2>5 DEF Owed, Came
<1>5. CASE o.status # "received"
  BY <1>1, <1>5 DEF Owed
<1> QED BY <1>4, <1>5

\* The goods of an order that came, in full.
LEMMA OwedWhenBooked ==
    ASSUME NEW o, NEW i, o.items \in Seq(PurchaseOrderItemIn), o.status = "received",
           NEW ms \in Seq(MovementRow), NEW ns \in Seq(MovementRow),
           Booked(<<"order", i>>, "in", ms) = {},
           Books(ns, ms, o.items, "in", <<"order", i>>, o.warehouse, 1)
    PROVE  Owed(o, i, ns)
<1> DEFINE b == Len(ms)
           items == o.items
           ref == <<"order", i>>
<1>1. /\ Len(ms) \in Nat /\ DOMAIN ms = 1..Len(ms) /\ DOMAIN ns = 1..Len(ns)
      /\ Len(items) \in Nat /\ DOMAIN items = 1..Len(items)
      /\ \A k \in 1..Len(items) : items[k].quantity \in Nat \ {0} /\ items[k].price \in Nat
  <2>1. Len(ms) \in Nat /\ DOMAIN ms = 1..Len(ms) /\ DOMAIN ns = 1..Len(ns)
    OBVIOUS
  <2> QED BY <2>1, OrderLinesTyped
<1>2. Len(ns) = b + Len(items) /\ \A k \in 1..b : ns[k] = ms[k]
  BY DEF Books
<1>3. ASSUME NEW k \in 1..Len(items)
      PROVE  /\ ns[b + k].ref = ref /\ ns[b + k].type = "in"
             /\ ns[b + k].product = items[k].product /\ ns[b + k].delta = items[k].quantity
             /\ ns[b + k].warehouse = o.warehouse
  <2>1. ns[b + k] = [type |-> "in", ref |-> ref, warehouse |-> o.warehouse,
                     product |-> items[k].product, delta |-> 1 * items[k].quantity]
    BY DEF Books
  <2>2. 1 * items[k].quantity = items[k].quantity
    BY <1>1
  <2> QED BY <2>1, <2>2
<1> HIDE DEF b, items, ref
<1>4. Booked(ref, "in", ns) = {b + k : k \in DOMAIN items}
  <2>1. ASSUME NEW j \in Booked(ref, "in", ns) PROVE j \in {b + k : k \in DOMAIN items}
    <3>1. j \in 1..Len(ns) /\ ns[j].ref = ref /\ ns[j].type = "in"
      BY <1>1, <2>1 DEF Booked
    <3>2. CASE j <= b
      <4>1. j \in Booked(ref, "in", ms)
        BY <1>1, <1>2, <3>1, <3>2 DEF Booked, b
      <4> QED BY <4>1 DEF ref
    <3>3. CASE j > b
      <4>1. j - b \in 1..Len(items) /\ b + (j - b) = j
        BY <1>1, <1>2, <3>1, <3>3 DEF b
      <4> QED BY <1>1, <4>1
    <3>4. j <= b \/ j > b
      BY <1>1, <3>1 DEF b
    <3> QED BY <3>2, <3>3, <3>4
  <2>2. ASSUME NEW k \in DOMAIN items PROVE b + k \in Booked(ref, "in", ns)
    <3>1. b + k \in DOMAIN ns
      BY <1>1, <1>2 DEF b
    <3> QED BY <1>1, <1>3, <3>1 DEF Booked
  <2> QED BY <2>1, <2>2
<1>5. Came(o, b, ns)
  BY <1>1, <1>3 DEF Came, items
<1>6. b \in 0..Len(ns)
  BY <1>1, <1>2 DEF b
<1> QED BY <1>4, <1>5, <1>6 DEF Owed, Came, items, ref

\* The order a step moves, when no other request is about it.
LEMMA MoveOwed ==
    ASSUME FlowInv, FlowInv', NEW op, NEW i, OrderMoved(op, i),
           orders[i].status = Rule[op].needs, Owed(orders[i], i, movements)
    PROVE  Owed(orders'[i], i, movements')
<1>1. /\ TablesOK /\ TypeOK /\ movements \in Seq(MovementRow) /\ movements' \in Seq(MovementRow)
      /\ i \in DOMAIN orders /\ op \in OrderSteps
  BY DEF FlowInv, TablesOK, TypeOK, OrderMoved
<1>2. orders[i].items \in Seq(PurchaseOrderItemIn)
  BY <1>1, ItemsOf
<1>3. \A st \in OrderStatus : Moves(orders', orders, i, st) =>
         /\ orders'[i].items = orders[i].items /\ orders'[i].warehouse = orders[i].warehouse
         /\ orders'[i].status = st
  BY <1>1, OrderMove DEF TypeOK
<1>4. orders[i].status # "received"
  BY <1>1, RuleIs DEF OrderSteps
<1>5. Booked(<<"order", i>>, "in", movements) = {}
  BY <1>4 DEF Owed
<1>6. CASE op = "approve_order"
  <2>1. orders'[i].status = "approved" /\ movements' = movements
    BY <1>3, <1>6, StatusesAre DEF OrderMoved
  <2> QED BY <1>5, <2>1 DEF Owed
<1>7. CASE op = "receive_order"
  <2> DEFINE o == orders'[i]
  <2>1. /\ o.status = "received" /\ o.items = orders[i].items /\ o.warehouse = orders[i].warehouse
        /\ Books(movements', movements, orders[i].items, "in", <<"order", i>>, orders[i].warehouse, 1)
    BY <1>3, <1>7, StatusesAre DEF OrderMoved
  <2>2. /\ o.items \in Seq(PurchaseOrderItemIn)
        /\ Books(movements', movements, o.items, "in", <<"order", i>>, o.warehouse, 1)
    BY <1>2, <2>1
  <2> HIDE DEF o
  <2>3. Owed(o, i, movements')
    BY <1>1, <1>5, <2>1, <2>2, OwedWhenBooked
  <2> QED BY <2>3 DEF o
<1> QED BY <1>1, <1>6, <1>7 DEF OrderSteps

\* An order is new, or what it was, or moved by a step.
LEMMA EffectOrders ==
    ASSUME FlowInv, Effect
    PROVE  \/ UNCHANGED orders
           \/ OrderAdded
           \/ \E op, i : OrderStepped(op, i)
BY DEF Effect, TransferAdded, ExpenseAdded, PaymentAdded, TransferStepped, ExpenseStepped,
       TransferMoved, ExpenseMoved, tables

LEMMA OwedStep ==
    ASSUME FlowInv, FlowInv', OwedForGoodsReceived, raced \subseteq raced', Effect
    PROVE  OwedForGoodsReceived'
<1>0. TablesOK /\ TypeOK /\ TablesOK'
  BY DEF FlowInv, TablesOK
<1> SUFFICES ASSUME NEW j \in DOMAIN orders', <<"order", j>> \notin raced'
             PROVE  Owed(orders'[j], j, movements')
  BY DEF OwedForGoodsReceived, Calm
<1>1. j \in DOMAIN orders =>
         Owed(orders[j], j, movements) /\ orders[j].items \in Seq(PurchaseOrderItemIn)
  BY <1>0, ItemsOf DEF OwedForGoodsReceived, Calm
<1>2. /\ movements \in Seq(MovementRow) /\ movements' \in Seq(MovementRow)
      /\ Extends(movements', movements)
  BY EffectBooks
<1>3. CASE UNCHANGED orders /\ \A k \in DOMAIN movements' :
              k \in DOMAIN movements \/ movements'[k].ref # <<"order", j>>
  BY <1>1, <1>2, <1>3, OwedKept
<1>4. CASE OrderAdded
  <2> PICK row \in PurchaseOrderRow : More(orders', orders, row) /\ row.status = "draft"
    BY <1>4 DEF OrderAdded
  <2> DEFINE n == Len(orders)
  <2>1. /\ n \in Nat /\ DOMAIN orders = 1..n /\ DOMAIN orders' = 1..(n + 1)
        /\ orders'[n + 1] = row /\ \A k \in 1..n : orders'[k] = orders[k]
    BY <1>0, Appended DEF TypeOK
  <2>2. movements' = movements
    BY <1>4 DEF OrderAdded
  <2> HIDE DEF n
  <2>3. CASE j \in 1..n
    BY <1>1, <2>1, <2>2, <2>3
  <2>4. CASE j = n + 1
    <3>1. \A k \in DOMAIN movements : movements[k].ref # <<"order", j>>
      BY <1>0, <2>1, <2>4 DEF TablesOK, RefsOK
    <3>2. Booked(<<"order", j>>, "in", movements) = {}
      BY <3>1 DEF Booked
    <3> QED BY <2>1, <2>2, <2>4, <3>2 DEF Owed
  <2> QED BY <2>1, <2>3, <2>4
<1>5. ASSUME NEW op, NEW i, OrderStepped(op, i) PROVE Owed(orders'[j], j, movements')
  <2>1. /\ OrderMoved(op, i) /\ i \in DOMAIN orders
        /\ <<"order", i>> \notin raced' => orders[i].status = Rule[op].needs
        /\ \E st \in OrderStatus : Moves(orders', orders, i, st)
    BY <1>5, StatusesAre DEF OrderStepped, OrderMoved
  <2>2. /\ DOMAIN orders' = DOMAIN orders
        /\ \A l \in DOMAIN orders \ {i} : orders'[l] = orders[l]
    BY <1>0, <2>1, OrderMove DEF TypeOK
  <2>3. CASE j = i
    BY <1>1, <2>1, <2>2, <2>3, MoveOwed
  <2>4. CASE j # i
    <3>1. \A k \in DOMAIN movements' : k \in DOMAIN movements \/ movements'[k].ref # <<"order", j>>
      BY <1>5, <2>4, OrderStepBooks
    <3> QED BY <1>1, <1>2, <2>2, <2>4, <3>1, OwedKept
  <2> QED BY <2>3, <2>4
<1>6. CASE UNCHANGED orders
  <2>1. CASE UNCHANGED movements
    BY <1>3, <1>6, <2>1
  <2>2. ASSUME NEW i, \A k \in DOMAIN movements' :
                         k \in DOMAIN movements \/ movements'[k].ref = <<"transfer", i>>
        PROVE  Owed(orders'[j], j, movements')
    <3>1. \A k \in DOMAIN movements' : k \in DOMAIN movements \/ movements'[k].ref # <<"order", j>>
      BY <2>2
    <3> QED BY <1>3, <1>6, <3>1
  <2> QED BY <1>5, <2>1, <2>2, EffectBooks
<1> QED BY <1>4, <1>5, <1>6, EffectOrders

-----------------------------------------------------------------------------
\* How often an expense was paid and rejected.

\* An expense that is not decided on has not been rejected.
Decided(e, i, au) ==
    /\ PaidOnce(e, i, au)
    /\ e.status \in {"submitted", "approved"} => Times("reject_expense", i, au) = 0

DecidedInv == \A i \in DOMAIN expenses : Calm("expense", i) => Decided(expenses[i], i, audit)

\* One row of the audit trail more is one time more, or none.
LEMMA TimesMore ==
    ASSUME NEW au, Sequence(au), NEW e, NEW bu, More(bu, au, e), NEW op, NEW i
    PROVE  /\ Times(op, i, au) \in Nat
           /\ e = <<op, <<"expense", i>>>> => Times(op, i, bu) = Times(op, i, au) + 1
           /\ e # <<op, <<"expense", i>>>> => Times(op, i, bu) = Times(op, i, au)
<1> DEFINE x == <<op, <<"expense", i>>>>
           K == {k \in DOMAIN au : au[k] = x}
           L == {k \in DOMAIN bu : bu[k] = x}
           n == Len(au)
<1>1. Times(op, i, au) = Cardinality(K) /\ Times(op, i, bu) = Cardinality(L)
  BY DEF Times
<1> HIDE DEF x
<1>2. /\ Sequence(bu) /\ n \in Nat /\ Len(bu) = n + 1 /\ bu[n + 1] = e
      /\ \A c \in 1..n : bu[c] = au[c]
  BY OneMore
<1>3. DOMAIN au = 1..n /\ DOMAIN bu = 1..(n + 1)
  BY <1>2 DEF Sequence
<1> HIDE DEF n
<1>4. IsFiniteSet(K)
  <2>1. IsFiniteSet(DOMAIN au)
    BY <1>2, <1>3, FS_Interval
  <2>2. K \subseteq DOMAIN au
    OBVIOUS
  <2> HIDE DEF K
  <2> QED BY <2>1, <2>2, FS_Subset
<1>5. n + 1 \notin K
  BY <1>2, <1>3
<1>6. CASE e = x
  <2>1. L = K \cup {n + 1}
    BY <1>2, <1>3, <1>6
  <2> HIDE DEF K, L
  <2>2. Cardinality(L) = Cardinality(K) + 1 /\ Cardinality(K) \in Nat
    BY <1>4, <1>5, <2>1, FS_AddElement, FS_CardinalityType
  <2> QED BY <1>1, <1>6, <2>2 DEF x
<1>7. CASE e # x
  <2>1. L = K
    BY <1>2, <1>3, <1>7
  <2> HIDE DEF K, L
  <2>2. Cardinality(K) \in Nat
    BY <1>4, FS_CardinalityType
  <2> QED BY <1>1, <1>7, <2>1, <2>2 DEF x
<1> QED BY <1>6, <1>7

LEMMA TimesNone ==
    ASSUME NEW au, NEW op, NEW i, \A k \in DOMAIN au : au[k] # <<op, <<"expense", i>>>>
    PROVE  Times(op, i, au) = 0
<1>1. {k \in DOMAIN au : au[k] = <<op, <<"expense", i>>>>} = {}
  OBVIOUS
<1> QED BY <1>1, FS_EmptySet DEF Times

\* Rows about something else decide nothing.
LEMMA DecidedKept ==
    ASSUME NEW au, Sequence(au), NEW e, NEW bu, More(bu, au, e), NEW x, NEW i,
           e[1] \in {"pay_expense", "reject_expense"} => e[2] # <<"expense", i>>,
           Decided(x, i, au)
    PROVE  Decided(x, i, bu)
<1>1. /\ e # <<"pay_expense", <<"expense", i>>>>
      /\ e # <<"reject_expense", <<"expense", i>>>>
  OBVIOUS
<1>2. /\ Times("pay_expense", i, bu) = Times("pay_expense", i, au)
      /\ Times("reject_expense", i, bu) = Times("reject_expense", i, au)
  BY <1>1, TimesMore
<1> QED BY <1>2 DEF Decided, PaidOnce

LEMMA EffectExpenses ==
    ASSUME FlowInv, Effect
    PROVE  \/ UNCHANGED <<expenses, audit>>
           \/ /\ UNCHANGED expenses
              /\ \E op, table, id : table # "expense" /\ Audited(op, table, id)
           \/ ExpenseAdded
           \/ \E op, i : ExpenseStepped(op, i)
<1>1. ASSUME TransferAdded \/ OrderAdded \/ PaymentAdded
      PROVE  /\ UNCHANGED expenses
             /\ \E op, table, id : table # "expense" /\ Audited(op, table, id)
  <2>1. \/ Audited("create_transfer", "transfer", Len(transfers) + 1)
        \/ Audited("create_order", "order", Len(orders) + 1)
        \/ Audited("pay", "payment", Len(payments) + 1)
    BY <1>1 DEF TransferAdded, OrderAdded, PaymentAdded
  <2>2. UNCHANGED expenses
    BY <1>1 DEF TransferAdded, OrderAdded, PaymentAdded
  <2>3. "transfer" # "expense" /\ "order" # "expense" /\ "payment" # "expense"
    OBVIOUS
  <2> HIDE DEF Audited
  <2> QED BY <2>1, <2>2, <2>3
<1>2. ASSUME NEW op, NEW i, TransferStepped(op, i) \/ OrderStepped(op, i)
      PROVE  /\ UNCHANGED expenses
             /\ \E o, table, id : table # "expense" /\ Audited(o, table, id)
  <2>1. Audited(op, "transfer", i) \/ Audited(op, "order", i)
    BY <1>2 DEF TransferStepped, OrderStepped, TransferMoved, OrderMoved, Audited
  <2>2. UNCHANGED expenses
    BY <1>2 DEF TransferStepped, OrderStepped, TransferMoved, OrderMoved
  <2>3. "transfer" # "expense" /\ "order" # "expense"
    OBVIOUS
  <2> HIDE DEF Audited
  <2> QED BY <2>1, <2>2, <2>3
<1>3. UNCHANGED tables => UNCHANGED <<expenses, audit>>
  BY DEF tables
<1> QED BY <1>1, <1>2, <1>3 DEF Effect

\* The expense a step decides, when no other request is about it.
LEMMA MoveDecides ==
    ASSUME FlowInv, NEW op, NEW i, ExpenseMoved(op, i),
           expenses[i].status = Rule[op].needs, Decided(expenses[i], i, audit)
    PROVE  Decided(expenses'[i], i, audit')
<1> DEFINE e == <<op, <<"expense", i>>>>
<1>1. /\ TypeOK /\ i \in DOMAIN expenses /\ op \in ExpenseSteps /\ Sequence(audit)
      /\ More(audit', audit, e)
  BY SeqOfItself DEF FlowInv, TablesOK, TypeOK, ExpenseMoved, More
<1>2. expenses'[i].status = Rule[op].gives
  BY <1>1, StatusesAre, ExpenseMove DEF TypeOK, ExpenseMoved
<1> HIDE DEF e
<1>3. \A o : /\ Times(o, i, audit) \in Nat
             /\ e = <<o, <<"expense", i>>>> => Times(o, i, audit') = Times(o, i, audit) + 1
             /\ e # <<o, <<"expense", i>>>> => Times(o, i, audit') = Times(o, i, audit)
  BY <1>1, TimesMore
<1>4. CASE op = "approve_expense"
  <2>1. /\ expenses[i].status = "submitted" /\ expenses'[i].status = "approved"
        /\ e # <<"pay_expense", <<"expense", i>>>> /\ e # <<"reject_expense", <<"expense", i>>>>
    BY <1>2, <1>4, RuleIs DEF e
  <2> QED BY <1>3, <2>1 DEF Decided, PaidOnce
<1>5. CASE op = "reject_expense"
  <2>1. /\ expenses[i].status = "submitted" /\ expenses'[i].status = "rejected"
        /\ e # <<"pay_expense", <<"expense", i>>>>
    BY <1>2, <1>5, RuleIs DEF e
  <2> QED BY <1>3, <2>1 DEF Decided, PaidOnce
<1>6. CASE op = "pay_expense"
  <2>1. /\ expenses[i].status = "approved" /\ expenses'[i].status = "paid"
        /\ e = <<"pay_expense", <<"expense", i>>>> /\ e # <<"reject_expense", <<"expense", i>>>>
    BY <1>2, <1>6, RuleIs DEF e
  <2>2. Times("pay_expense", i, audit') = 1 /\ Times("reject_expense", i, audit') = 0
    BY <1>3, <2>1 DEF Decided, PaidOnce
  <2> QED BY <2>1, <2>2 DEF Decided, PaidOnce
<1> QED BY <1>1, <1>4, <1>5, <1>6 DEF ExpenseSteps

LEMMA DecidedInit == Init => DecidedInv
<1> SUFFICES ASSUME Init PROVE DecidedInv
  OBVIOUS
<1> PICK w \in Worlds : expenses = w.expenses /\ audit = w.audit
  BY DEF Init
<1> QED BY WorldsAssumption DEF DecidedInv, Decided

LEMMA DecidedStep ==
    ASSUME FlowInv, DecidedInv, raced \subseteq raced', Effect
    PROVE  DecidedInv'
<1> SUFFICES ASSUME NEW j \in DOMAIN expenses', <<"expense", j>> \notin raced'
             PROVE  Decided(expenses'[j], j, audit')
  BY DEF DecidedInv, Calm
<1>1. j \in DOMAIN expenses => Decided(expenses[j], j, audit)
  BY DEF DecidedInv, Calm
<1>2. TablesOK /\ TypeOK /\ Sequence(audit)
  BY SeqOfItself DEF FlowInv, TablesOK, TypeOK
<1>3. CASE UNCHANGED <<expenses, audit>>
  BY <1>1, <1>3
<1>4. ASSUME UNCHANGED expenses, NEW op, NEW table, NEW id, table # "expense",
             Audited(op, table, id)
      PROVE  Decided(expenses'[j], j, audit')
  <2> DEFINE e == <<op, <<table, id>>>>
  <2>1. More(audit', audit, e) /\ e[2] # <<"expense", j>>
    BY <1>4 DEF Audited, More
  <2> HIDE DEF e
  <2> QED BY <1>1, <1>2, <1>4, <2>1, DecidedKept
<1>5. CASE ExpenseAdded
  <2> PICK row \in ExpenseRow : More(expenses', expenses, row) /\ row.status = "submitted"
    BY <1>5 DEF ExpenseAdded
  <2> DEFINE n == Len(expenses)
             e == <<"create_expense", <<"expense", n + 1>>>>
  <2>1. /\ n \in Nat /\ DOMAIN expenses = 1..n /\ DOMAIN expenses' = 1..(n + 1)
        /\ expenses'[n + 1] = row /\ \A k \in 1..n : expenses'[k] = expenses[k]
    BY <1>2, Appended DEF TypeOK
  <2>2. More(audit', audit, e)
    BY <1>5 DEF ExpenseAdded, Audited, More
  <2>3. e[1] \notin {"pay_expense", "reject_expense"}
    OBVIOUS
  <2> HIDE DEF n, e
  <2>4. CASE j \in 1..n
    BY <1>1, <1>2, <2>1, <2>2, <2>3, <2>4, DecidedKept
  <2>5. CASE j = n + 1
    <3>1. ASSUME NEW o, NEW k \in DOMAIN audit PROVE audit[k] # <<o, <<"expense", j>>>>
      BY <1>2, <2>1, <2>5 DEF TablesOK, RefsOK
    <3>2. \A o : Times(o, j, audit) = 0
      BY <3>1, TimesNone
    <3>3. row.status # "paid"
      OBVIOUS
    <3>4. Decided(row, j, audit)
      BY <3>2, <3>3 DEF Decided, PaidOnce
    <3> QED BY <1>2, <2>1, <2>2, <2>3, <2>5, <3>4, DecidedKept
  <2> QED BY <2>1, <2>4, <2>5
<1>6. ASSUME NEW op, NEW i, ExpenseStepped(op, i) PROVE Decided(expenses'[j], j, audit')
  <2>1. /\ ExpenseMoved(op, i) /\ i \in DOMAIN expenses /\ op \in ExpenseSteps
        /\ <<"expense", i>> \notin raced' => expenses[i].status = Rule[op].needs
    BY <1>6 DEF ExpenseStepped, ExpenseMoved
  <2>2. /\ DOMAIN expenses' = DOMAIN expenses
        /\ \A l \in DOMAIN expenses \ {i} : expenses'[l] = expenses[l]
    BY <1>2, <2>1, StatusesAre, ExpenseMove DEF TypeOK, ExpenseMoved
  <2>3. CASE j = i
    BY <1>1, <2>1, <2>2, <2>3, MoveDecides
  <2>4. CASE j # i
    <3> DEFINE e == <<op, <<"expense", i>>>>
    <3>1. More(audit', audit, e) /\ e[2] # <<"expense", j>>
      BY <2>1, <2>4 DEF ExpenseMoved, More
    <3> HIDE DEF e
    <3> QED BY <1>1, <1>2, <2>2, <2>4, <3>1, DecidedKept
  <2> QED BY <2>3, <2>4
<1> QED BY <1>3, <1>4, <1>5, <1>6, EffectExpenses

-----------------------------------------------------------------------------
\* What the reports have read.

OrdersCalm == \A i \in DOMAIN orders : Calm("order", i)

Reading(s) == ~Idle(s) /\ task[s].op \in Reports /\ task[s].at = "paid"

\* What was received when a report read it has been received since.
ReadingOK(s) ==
    /\ task[s].listed \subseteq Supplier
    /\ OrdersCalm => \A sup \in Supplier :
          task[s].received[sup] \in Nat /\ task[s].received[sup] <= Received(sup)

ReportsInv == \A s \in Session : Reading(s) => ReadingOK(s)

LEMMA OrderTotals ==
    ASSUME NEW q, q \in Seq(PurchaseOrderRow), NEW S, S \subseteq DOMAIN q
    PROVE  IsFiniteSet(S) /\ \A i \in S : q[i].total \in Nat
<1>1. DOMAIN q = 1..Len(q) /\ Len(q) \in Nat
  OBVIOUS
<1>2. IsFiniteSet(S)
  <2>1. IsFiniteSet(DOMAIN q)
    BY <1>1, FS_Interval
  <2> QED BY <2>1, FS_Subset
<1>3. ASSUME NEW i \in S PROVE q[i].total \in Nat
  <2>1. q[i] \in PurchaseOrderRow
    OBVIOUS
  <2> QED BY <2>1 DEF PurchaseOrderRow
<1> QED BY <1>2, <1>3

LEMMA ReceivedIsNat ==
    ASSUME FlowInv, NEW sup
    PROVE  Received(sup) \in Nat
<1> DEFINE f == [i \in DOMAIN orders |-> orders[i].total]
<1>1. orders \in Seq(PurchaseOrderRow)
  BY DEF FlowInv, TablesOK, TypeOK
<1>2. IsFiniteSet(ReceivedFrom(sup)) /\ \A i \in ReceivedFrom(sup) : f[i] \in Nat
  <2>1. ReceivedFrom(sup) \subseteq DOMAIN orders
    BY DEF ReceivedFrom
  <2> QED BY <1>1, <2>1, OrderTotals
<1> HIDE DEF f
<1>3. SumFunctionOnSet(f, ReceivedFrom(sup)) \in Nat
  BY <1>2, SumNat
<1> QED BY <1>3 DEF f, Received

LEMMA PaidIsInt ==
    ASSUME FlowInv, NEW sup
    PROVE  Paid(sup) \in Int
<1> DEFINE f == [i \in DOMAIN payments |-> payments[i].amount]
           S == {i \in DOMAIN payments : payments[i].supplier = sup}
<1>1. payments \in Seq(PaymentRow)
  BY DEF FlowInv, TablesOK, TypeOK
<1>2. DOMAIN payments = 1..Len(payments) /\ Len(payments) \in Nat
  BY <1>1
<1>3. IsFiniteSet(S)
  <2>1. IsFiniteSet(DOMAIN payments)
    BY <1>2, FS_Interval
  <2>2. S \subseteq DOMAIN payments
    OBVIOUS
  <2> HIDE DEF S
  <2> QED BY <2>1, <2>2, FS_Subset
<1>4. ASSUME NEW i \in S PROVE f[i] \in Int
  <2>1. payments[i] \in PaymentRow
    BY <1>1
  <2>2. payments[i].amount \in Amounts
    BY <2>1 DEF PaymentRow
  <2>3. Amounts \subseteq Nat
    BY PayloadsAssumption
  <2>4. f[i] = payments[i].amount
    OBVIOUS
  <2>5. payments[i].amount \in Int
    <3> DEFINE a == payments[i].amount
    <3>1. a \in Nat
      BY <2>2, <2>3
    <3> HIDE DEF a
    <3>2. a \in Int
      BY <3>1
    <3> QED BY <3>2 DEF a
  <2> HIDE DEF f
  <2> QED BY <2>4, <2>5
<1> HIDE DEF f, S
<1>5. SumFunctionOnSet(f, S) \in Int
  BY <1>3, <1>4, SumInt
<1> QED BY <1>5 DEF f, S, Paid

\* Orders stay.
LEMMA OrdersStay ==
    ASSUME FlowInv, Effect
    PROVE  DOMAIN orders \subseteq DOMAIN orders'
<1>1. orders \in Seq(PurchaseOrderRow)
  BY DEF FlowInv, TablesOK, TypeOK
<1>2. CASE OrderAdded
  BY <1>1, <1>2, Appended DEF OrderAdded
<1>3. ASSUME NEW op, NEW i, OrderStepped(op, i) PROVE DOMAIN orders \subseteq DOMAIN orders'
  BY <1>3 DEF OrderStepped, OrderMoved, Moves
<1> QED BY <1>2, <1>3, EffectOrders

\* An order that was received keeps its status and total while no two requests
\* are about it, so what was received of a supplier only grows.
LEMMA ReceivedGrows ==
    ASSUME FlowInv, FlowInv', Effect, NEW sup,
           \A i \in DOMAIN orders' : <<"order", i>> \notin raced'
    PROVE  /\ Received(sup) \in Nat /\ Received(sup)' \in Nat
           /\ Received(sup) <= Received(sup)'
<1> DEFINE f == [i \in DOMAIN orders |-> orders[i].total]
           S == ReceivedFrom(sup)
           g == [i \in DOMAIN orders' |-> orders'[i].total]
           T == ReceivedFrom(sup)'
<1>1. TypeOK /\ orders \in Seq(PurchaseOrderRow) /\ orders' \in Seq(PurchaseOrderRow)
  BY DEF FlowInv, TablesOK, TypeOK
<1>2. IsFiniteSet(T) /\ \A i \in T : g[i] \in Nat
  <2>1. T \subseteq DOMAIN orders'
    BY DEF ReceivedFrom
  <2>2. IsFiniteSet(T) /\ \A i \in T : orders'[i].total \in Nat
    <3> HIDE DEF T
    <3> QED BY <1>1, <2>1, OrderTotals
  <2> QED BY <2>1, <2>2
<1>3. \A i \in S : i \in DOMAIN orders /\ orders[i].supplier = sup /\ orders[i].status = "received"
  BY DEF ReceivedFrom
<1>4. ASSUME NEW i \in S PROVE i \in DOMAIN orders' /\ orders'[i] = orders[i]
  <2>1. CASE UNCHANGED orders
    BY <1>3, <2>1
  <2>2. CASE OrderAdded
    <3> PICK row \in PurchaseOrderRow : More(orders', orders, row)
      BY <2>2 DEF OrderAdded
    <3> HIDE DEF S
    <3> QED BY <1>1, <1>3, Appended
  <2>3. ASSUME NEW op, NEW j, OrderStepped(op, j) PROVE i \in DOMAIN orders' /\ orders'[i] = orders[i]
    <3>1. /\ j \in DOMAIN orders /\ op \in OrderSteps
          /\ <<"order", j>> \notin raced' => orders[j].status = Rule[op].needs
          /\ \E st \in OrderStatus : Moves(orders', orders, j, st)
      BY <2>3, StatusesAre DEF OrderStepped, OrderMoved
    <3>2. /\ DOMAIN orders' = DOMAIN orders
          /\ \A l \in DOMAIN orders \ {j} : orders'[l] = orders[l]
      BY <1>1, <3>1, OrderMove
    <3>3. orders[j].status # "received"
      BY <3>1, <3>2, RuleIs DEF OrderSteps
    <3> HIDE DEF S
    <3> QED BY <1>3, <3>2, <3>3
  <2> QED BY <2>1, <2>2, <2>3, EffectOrders
<1>5. S \subseteq T /\ \A i \in S : f[i] = g[i]
  BY <1>3, <1>4 DEF ReceivedFrom
<1>6. Received(sup) = SumFunctionOnSet(f, S) /\ Received(sup)' = SumFunctionOnSet(g, T)
  BY DEF Received
<1> HIDE DEF f, g, S, T
<1>7. /\ SumFunctionOnSet(f, S) \in Nat /\ SumFunctionOnSet(g, T) \in Nat
      /\ SumFunctionOnSet(f, S) <= SumFunctionOnSet(g, T)
  BY <1>2, <1>5, SumGrows
<1> QED BY <1>6, <1>7

\* A report that stands before its second SELECT was there, or has just read.
LEMMA ReportTasks ==
    ASSUME FlowInv, [Next]_vars, NEW s \in Session, Reading(s)'
    PROVE  \/ Reading(s) /\ task'[s] = task[s]
           \/ /\ UNCHANGED tables /\ task'[s].listed = WithReceipt
              /\ task'[s].received = [sup \in Supplier |-> Received(sup)]
<1>1. DOMAIN task = Session
  BY DEF FlowInv, TasksOK
<1>2. ASSUME task'[s] = task[s] PROVE Reading(s)
  BY <1>2 DEF Reading, Idle
<1>3. CASE UNCHANGED vars
  BY <1>2, <1>3 DEF vars, requests
<1>4. ASSUME NEW q \in Session, NEW t, task' = [task EXCEPT ![q] = t], q # s
      PROVE  Reading(s) /\ task'[s] = task[s]
  BY <1>1, <1>2, <1>4
<1>5. ASSUME NEW q \in Session, End(q) PROVE Reading(s) /\ task'[s] = task[s]
  <2>1. task' = [task EXCEPT ![q] = Nil]
    BY <1>5 DEF End
  <2>2. q # s
    BY <1>1, <2>1 DEF Reading, Idle
  <2> QED BY <1>4, <2>1, <2>2
<1>6. ASSUME NEW q \in Session, NEW t, Continue(q, t), t.op \notin Reports \/ t.at # "paid"
      PROVE  Reading(s) /\ task'[s] = task[s]
  <2>1. task' = [task EXCEPT ![q] = t]
    BY <1>6 DEF Continue
  <2>2. q # s
    BY <1>1, <1>6, <2>1 DEF Reading
  <2> QED BY <1>4, <2>1, <2>2
<1>7. ASSUME NEW q \in Session, NEW t, Arrive(q, t), UNCHANGED tables,
             t.op \in Reports => ArrivePayables(q, t.op)
      PROVE  \/ Reading(s) /\ task'[s] = task[s]
             \/ /\ UNCHANGED tables /\ task'[s].listed = WithReceipt
                /\ task'[s].received = [sup \in Supplier |-> Received(sup)]
  <2>1. task' = [task EXCEPT ![q] = t]
    BY <1>7 DEF Arrive
  <2>2. CASE q # s
    BY <1>4, <2>1, <2>2
  <2>3. CASE q = s
    <3>1. ArrivePayables(s, t.op)
      BY <1>1, <1>7, <2>1, <2>3 DEF Reading
    <3>2. task'[s] = [op |-> t.op, at |-> "paid", on |-> {}, listed |-> WithReceipt,
                      received |-> [sup \in Supplier |-> Received(sup)]]
      BY <1>1, <3>1 DEF ArrivePayables, Arrive
    <3> QED BY <1>7, <3>2
  <2> QED BY <2>2, <2>3
<1>8. ASSUME Next
      PROVE  \/ Reading(s) /\ task'[s] = task[s]
             \/ /\ UNCHANGED tables /\ task'[s].listed = WithReceipt
                /\ task'[s].received = [sup \in Supplier |-> Received(sup)]
  <2> PICK q \in Session :
           \/ \E p \in NewTransfers : ArriveTransfer(q, p)
           \/ \E p \in NewOrders : ArriveOrder(q, p)
           \/ \E amount \in Amounts : ArriveExpense(q, amount)
           \/ \E op \in DOMAIN Rule : \E i \in DOMAIN Documents[Rule[op].table] : ArriveStep(q, op, i)
           \/ \E sup \in Supplier, amount \in Amounts : ArrivePayment(q, sup, amount)
           \/ \E op \in {"payables_report", "dashboard"} : ArrivePayables(q, op)
           \/ Progress(q)
           \/ Abandon(q)
    BY <1>8 DEF Next
  <2>1. CASE InsertCoded(q)
    <3>1. PICK t : Continue(q, t) /\ t.op \in {"create_transfer", "create_order", "create_expense"}
      BY <2>1, InsertSafe
    <3> QED BY <1>6, <3>1 DEF Reports
  <2>2. CASE ReadPaid(q)
    <3>1. PICK t : Continue(q, t) /\ t.at = "answer"
      BY <2>2, ReportReads
    <3> QED BY <1>6, <3>1
  <2>3. CASE CommitTransfer(q) \/ CommitOrder(q) \/ CommitExpense(q) \/ CommitStep(q) \/ CommitPayment(q)
    BY <1>5, <2>3 DEF CommitTransfer, CommitOrder, CommitExpense, CommitStep, CommitPayment
  <2> QED BY <1>5, <1>7, <2>1, <2>2, <2>3, StepKinds
<1> QED BY <1>3, <1>8

LEMMA ReportsInit == Init => ReportsInv
BY DEF Init, InitRequests, ReportsInv, Reading, Idle

LEMMA ReportsStep ==
    ASSUME FlowInv, FlowInv', ReportsInv, [Next]_vars, raced \subseteq raced', Effect
    PROVE  ReportsInv'
<1> SUFFICES ASSUME NEW s \in Session, Reading(s)' PROVE ReadingOK(s)'
  BY DEF ReportsInv
<1>1. ASSUME Reading(s), task'[s] = task[s] PROVE ReadingOK(s)'
  <2>1. ReadingOK(s)
    BY <1>1 DEF ReportsInv
  <2>2. ASSUME OrdersCalm', NEW sup \in Supplier
        PROVE  task'[s].received[sup] \in Nat /\ task'[s].received[sup] <= Received(sup)'
    <3>1. \A i \in DOMAIN orders' : <<"order", i>> \notin raced'
      BY <2>2 DEF OrdersCalm, Calm
    <3>2. /\ Received(sup) \in Nat /\ Received(sup)' \in Nat
          /\ Received(sup) <= Received(sup)'
      BY <3>1, ReceivedGrows
    <3>3. OrdersCalm
      BY <3>1, OrdersStay DEF OrdersCalm, Calm
    <3>4. task[s].received[sup] \in Nat /\ task[s].received[sup] <= Received(sup)
      BY <2>1, <3>3 DEF ReadingOK
    <3> QED BY <1>1, <3>2, <3>4
  <2> QED BY <1>1, <2>1, <2>2 DEF ReadingOK
<1>2. ASSUME UNCHANGED tables, task'[s].listed = WithReceipt,
             task'[s].received = [sup \in Supplier |-> Received(sup)]
      PROVE  ReadingOK(s)'
  <2>1. WithReceipt \subseteq Supplier
    BY DEF WithReceipt
  <2>2. ASSUME NEW sup \in Supplier PROVE Received(sup)' = Received(sup) /\ Received(sup) \in Nat
    <3>1. orders' = orders
      BY <1>2 DEF tables
    <3> QED BY <3>1, ReceivedIsNat DEF Received, ReceivedFrom
  <2>3. \A sup \in Supplier : task'[s].received[sup] = Received(sup)
    BY <1>2
  <2> QED BY <1>2, <2>1, <2>2, <2>3 DEF ReadingOK
<1> QED BY <1>1, <1>2, ReportTasks

\* The second SELECT, and what the answer then says.
LEMMA ReportAnswers ==
    ASSUME FlowInv, ReportsInv, [Next]_vars, NEW s \in Session, NEW op \in Reports,
           At(s, op, "paid"), task'[s] # Nil, task'[s].at = "answer", OrdersCalm
    PROVE  \A sup \in DOMAIN task'[s].due : task'[s].due[sup] <= Received(sup) - Paid(sup)
<1>1. DOMAIN task = Session /\ ~Idle(s) /\ task[s].op \in Reports /\ task[s].at = "paid" /\ Reading(s)
  BY DEF FlowInv, TasksOK, At, Reading
<1>2. ReadPaid(s)
  <2>1. task' # task
    BY <1>1
  <2>2. ASSUME NEW q \in Session, NEW t, task' = [task EXCEPT ![q] = t]
        PROVE  q = s /\ t = task'[s]
    BY <1>1, <2>2
  <2>3. ASSUME NEW q \in Session, End(q) PROVE FALSE
    BY <2>2, <2>3 DEF End
  <2>4. Next
    BY <2>1 DEF vars, requests
  <2> PICK q \in Session :
           \/ \E p \in NewTransfers : ArriveTransfer(q, p)
           \/ \E p \in NewOrders : ArriveOrder(q, p)
           \/ \E amount \in Amounts : ArriveExpense(q, amount)
           \/ \E o \in DOMAIN Rule : \E i \in DOMAIN Documents[Rule[o].table] : ArriveStep(q, o, i)
           \/ \E sup \in Supplier, amount \in Amounts : ArrivePayment(q, sup, amount)
           \/ \E o \in {"payables_report", "dashboard"} : ArrivePayables(q, o)
           \/ Progress(q)
           \/ Abandon(q)
    BY <2>4 DEF Next
  <2>5. ASSUME NEW t, Arrive(q, t) PROVE FALSE
    BY <1>1, <2>2, <2>5 DEF Arrive
  <2>6. ASSUME InsertCoded(q) PROVE FALSE
    <3>1. PICK t : /\ Continue(q, t) /\ t.op = task[q].op
                   /\ t.op \in {"create_transfer", "create_order", "create_expense"}
      BY <2>6, InsertSafe
    <3>2. q = s
      BY <2>2, <3>1 DEF Continue
    <3> QED BY <1>1, <3>1, <3>2 DEF Reports
  <2>7. ASSUME ReadPaid(q) PROVE ReadPaid(s)
    <3>1. PICK t : Continue(q, t)
      BY <2>7, ReportReads
    <3>2. q = s
      BY <2>2, <3>1 DEF Continue
    <3> QED BY <2>7, <3>2
  <2>8. ASSUME CommitTransfer(q) \/ CommitOrder(q) \/ CommitExpense(q) \/ CommitStep(q) \/ CommitPayment(q)
        PROVE  FALSE
    BY <2>3, <2>8 DEF CommitTransfer, CommitOrder, CommitExpense, CommitStep, CommitPayment
  <2> QED BY <2>3, <2>5, <2>6, <2>7, <2>8, StepKinds
<1>3. PICK o \in Reports :
         /\ At(s, o, "paid")
         /\ LET listed == IF o = "dashboard" THEN task[s].listed ELSE Supplier
            IN Continue(s, [op |-> o, at |-> "answer", on |-> {},
                            due |-> [sup \in listed |-> task[s].received[sup] - Paid(sup)]])
  BY <1>2 DEF ReadPaid, Reports
<1> DEFINE listed == IF o = "dashboard" THEN task[s].listed ELSE Supplier
<1>4. task'[s].due = [sup \in listed |-> task[s].received[sup] - Paid(sup)]
  BY <1>1, <1>3 DEF Continue
<1>5. ReadingOK(s)
  BY <1>1 DEF ReportsInv
<1>6. listed \subseteq Supplier
  BY <1>5 DEF ReadingOK
<1> HIDE DEF listed
<1>7. ASSUME NEW sup \in listed
      PROVE  task[s].received[sup] - Paid(sup) <= Received(sup) - Paid(sup)
  <2>1. task[s].received[sup] \in Nat /\ task[s].received[sup] <= Received(sup)
    BY <1>5, <1>6 DEF ReadingOK
  <2>2. Received(sup) \in Nat /\ Paid(sup) \in Int
    BY ReceivedIsNat, PaidIsInt
  <2> QED BY <2>1, <2>2
<1> QED BY <1>4, <1>7

-----------------------------------------------------------------------------
\* All of it together.

DocumentsInv ==
    /\ FlowInv /\ FreshInv
    /\ TransferConserves /\ OwedForGoodsReceived /\ DecidedInv /\ ReportsInv

LEMMA DocumentsInit == Init => DocumentsInv
<1> SUFFICES ASSUME Init PROVE DocumentsInv
  OBVIOUS
<1> PICK w \in Worlds : /\ transfers = w.transfers /\ orders = w.orders
                        /\ movements = w.movements
  BY DEF Init
<1>1. TransferConserves /\ OwedForGoodsReceived
  BY WorldsAssumption DEF TransferConserves, OwedForGoodsReceived
<1> QED BY <1>1, FlowInit, FreshInit, DecidedInit, ReportsInit DEF DocumentsInv

LEMMA DocumentsStep == DocumentsInv /\ [Next]_vars => DocumentsInv'
<1> SUFFICES ASSUME DocumentsInv, [Next]_vars PROVE DocumentsInv'
  OBVIOUS
<1>1. FlowInv /\ FlowInv'
  BY FlowStep DEF DocumentsInv
<1>2. FreshInv' /\ raced \subseteq raced' /\ Effect
  BY <1>1, Effects DEF DocumentsInv
<1>3. TransferConserves' /\ OwedForGoodsReceived' /\ DecidedInv' /\ ReportsInv'
  BY <1>1, <1>2, ConservesStep, OwedStep, DecidedStep, ReportsStep DEF DocumentsInv
<1> QED BY <1>1, <1>2, <1>3 DEF DocumentsInv

LEMMA DocumentsAlways == Spec => []DocumentsInv
BY DocumentsInit, DocumentsStep, PTL DEF Spec

-----------------------------------------------------------------------------

\* A document is never in a status whose goods were not booked, through every race
\* of its handlers, and the tables keep their types (warehouse_transfers.py:115,
\* suppliers.py:180).
THEOREM StatusesHaveGoods == Spec => []GoodsInv
<1>1. DocumentsInv => GoodsInv
  BY DEF DocumentsInv, FlowInv, TablesOK, GoodsInv
<1> QED BY <1>1, DocumentsAlways, PTL

\* What left the source of a transfer and what arrived at its destination is what
\* its status says, line by line, unless two requests had it at once
\* (warehouse_transfers.py:102).
THEOREM TransfersConserve == Spec => []TransferConserves
<1>1. DocumentsInv => TransferConserves
  BY DEF DocumentsInv
<1> QED BY <1>1, DocumentsAlways, PTL

\* An order is owed for exactly when every line of it came, once and in full into its
\* warehouse, unless two requests had it at once (suppliers.py:165).
THEOREM OrdersOwedForGoods == Spec => []OwedForGoodsReceived
<1>1. DocumentsInv => OwedForGoodsReceived
  BY DEF DocumentsInv
<1> QED BY <1>1, DocumentsAlways, PTL

\* No expense is paid that was not approved before, whatever races; and one that no
\* two requests had at once is paid once at most, never after a rejection
\* (expenses.py:150).
THEOREM ExpensesPaidAfterApproval == Spec => []PaidAfterApproval
<1>1. DocumentsInv => PaidAfterApproval
  BY DEF DocumentsInv, FlowInv, TablesOK, DecidedInv, Decided, PaidAfterApproval
<1> QED BY <1>1, DocumentsAlways, PTL

\* A report of payables never says that more is due than is at the moment its second
\* SELECT returns, unless two requests had an order at once (expenses.py:201).
THEOREM PayablesNeverOverstated == Spec => PayablesNotOverstated
<1> DEFINE Says(s, op) ==
              /\ At(s, op, "paid") /\ task'[s] # Nil /\ task'[s].at = "answer"
              /\ \A i \in DOMAIN orders : Calm("order", i)
              => \A sup \in DOMAIN task'[s].due : task'[s].due[sup] <= Received(sup) - Paid(sup)
           Said == \A s \in Session : \A op \in {"payables_report", "dashboard"} : Says(s, op)
<1>1. DocumentsInv /\ [Next]_vars => Said
  BY ReportAnswers DEF DocumentsInv, OrdersCalm, Reports
<1>2. Spec => [][Said]_vars
  <2> HIDE DEF Said
  <2> QED BY <1>1, DocumentsAlways, PTL DEF Spec
<1> QED BY <1>2 DEF PayablesNotOverstated
=============================================================================
