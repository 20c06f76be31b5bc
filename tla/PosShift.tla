------------------------------ MODULE PosShift ------------------------------
(***************************************************************************)
(* The point of sale of one cashier at one mart: shifts, the sales rung up *)
(* in them, refunds, the welfare distributions the cashier makes, and the  *)
(* close that freezes the totals of a shift.                               *)
(*                                                                         *)
(* Every handler decides on what a SELECT returned and writes at its       *)
(* commit; nothing locks a shift or a sale in between.  close_shift sums   *)
(* payments, refunds and distributions in three statements, each with the  *)
(* snapshot of its own instant (READ COMMITTED).  The foreign key from a   *)
(* sale to its shift takes a key-share lock, which does not conflict with  *)
(* the UPDATE of a close.                                                  *)
(*                                                                         *)
(* Stock is the subject of StockLedger; here it is one of the reasons for  *)
(* which a request is refused.                                             *)
(***************************************************************************)
EXTENDS Integers, Sequences, FiniteSets, Functions

CONSTANTS
    Session,      \* requests that can be in flight at once
    Payments,     \* what customers pay: a method and an amount
    MaxRequests,  \* bound: number of requests begun in a behaviour
    Nil

\* The operations that insert a row under the code "PENDING".
Coded == {"open", "sale", "distribute"}

ASSUME PaymentsAssumption ==
    Payments \subseteq [method : {"cash", "card"}, amount : Nat]

ASSUME MaxRequestsAssumption == MaxRequests \in Nat

ASSUME NilAssumption == Nil \notin Session /\ Nil \notin Nat

VARIABLES
    shifts,   \* committed CashierShift rows
    sales,    \* committed Sale rows, each with its Payment
    refunds,  \* committed Refund rows: the sale each belongs to
    given,    \* created_at of the committed distributions, of value 1 each
    clock,    \* readings of the time that delimit shifts
    pending,  \* per operation, the session whose "PENDING" row is uncommitted
    pc,       \* where the handler of a session stands
    task,     \* what it is serving and what it has read so far
    begun,    \* requests begun so far
    raced     \* history: the kinds {p, q} of two requests that were in flight at once

rows == <<shifts, sales, refunds, given>>
vars == <<shifts, sales, refunds, given, clock, pending, pc, task, begun, raced>>

-----------------------------------------------------------------------------

OpenShifts == {c \in 1..Len(shifts) : shifts[c].status = "open"}

SalesOf(c) == {i \in 1..Len(sales) : sales[i].shift = c}

Amounts(is) == SumFunctionOnSet([i \in 1..Len(sales) |-> sales[i].amount], is)

\* Payments stay COMPLETED when their sale is refunded.
Paid(c, methods) == Amounts({i \in SalesOf(c) : sales[i].method \in methods})

Refunded(c) == Amounts({i \in SalesOf(c) : sales[i].status = "refunded"})

\* Distributions created in a window of time.
GivenIn(from, to) == {i \in 1..Len(given) : from <= given[i] /\ given[i] <= to}

InStatus(st) == Amounts({i \in 1..Len(sales) : sales[i].status = st})

InFlight == {s \in Session : pc[s] # "idle"}

\* A request arrives and goes to its first database round trip.
Arrive(s, t, to) ==
    /\ pc[s] = "idle"
    /\ begun < MaxRequests
    /\ begun' = begun + 1
    /\ raced' = raced \cup {{t.op, task[q].op} : q \in InFlight}
    /\ pc' = [pc EXCEPT ![s] = to]
    /\ task' = [task EXCEPT ![s] = t]

Step(s, from, to, t) ==
    /\ pc[s] = from
    /\ UNCHANGED raced
    /\ pc' = [pc EXCEPT ![s] = to]
    /\ task' = [task EXCEPT ![s] = t]

\* The session is closed and its transaction over.
Release(s) ==
    /\ pc' = [pc EXCEPT ![s] = "idle"]
    /\ task' = [task EXCEPT ![s] = Nil]
    /\ pending' = [q \in Coded |-> IF pending[q] = s THEN Nil ELSE pending[q]]
    /\ UNCHANGED raced

Rollback(s) == Release(s) /\ UNCHANGED <<rows, clock, begun>>

-----------------------------------------------------------------------------

Init ==
    /\ shifts = << >> /\ sales = << >> /\ refunds = << >> /\ given = << >>
    /\ clock = 0
    /\ pending = [q \in Coded |-> Nil]
    /\ pc = [s \in Session |-> "idle"]
    /\ task = [s \in Session |-> Nil]
    /\ begun = 0
    /\ raced = {}

\* A shift is opened whatever shifts are open.
ArriveOpenUnchecked(s) ==
    /\ Arrive(s, [op |-> "open", opened |-> clock + 1], "insert")
    /\ clock' = clock + 1
    /\ UNCHANGED <<rows, pending>>

\* open_shift finds no open shift, and stamps the new one; otherwise it answers
\* 409 (or fails on two rows) and changes nothing.
ArriveOpen(s) ==
    /\ OpenShifts = {}
    /\ Arrive(s, [op |-> "open", opened |-> clock + 1], "insert")
    /\ clock' = clock + 1
    /\ UNCHANGED <<rows, pending>>

\* create_sale needs exactly one open shift and remembers its id.
ArriveSale(s, p) ==
    /\ \E c \in 1..Len(shifts) :
          /\ OpenShifts = {c}
          /\ Arrive(s, [op |-> "sale", shift |-> c, payment |-> p], "insert")
    /\ UNCHANGED <<rows, clock, pending>>

\* A distribution: created_at is the start of its transaction.
ArriveDistribution(s) ==
    /\ Arrive(s, [op |-> "distribute", created |-> clock], "insert")
    /\ UNCHANGED <<rows, clock, pending>>

\* A refund that does not look at the status of the sale.
ArriveRefundAnyStatus(s, i) ==
    /\ Arrive(s, [op |-> "refund", sale |-> i], "commit")
    /\ UNCHANGED <<rows, clock, pending>>

\* refund_sale finds the sale completed.
ArriveRefund(s, i) ==
    /\ sales[i].status = "completed"
    /\ Arrive(s, [op |-> "refund", sale |-> i], "commit")
    /\ UNCHANGED <<rows, clock, pending>>

\* A close that does not look at the status of the shift.
ArriveCloseAnyStatus(s, c) ==
    /\ Arrive(s, [op |-> "close", shift |-> c], "payments")
    /\ UNCHANGED <<rows, clock, pending>>

\* The close endpoint loads the shift, and close_shift finds it open.
ArriveClose(s, c) ==
    /\ c \in OpenShifts
    /\ Arrive(s, [op |-> "close", shift |-> c], "payments")
    /\ UNCHANGED <<rows, clock, pending>>

\* The flush of the new row with its "PENDING" code.
InsertPending(s) ==
    /\ Step(s, "insert", "commit", task[s])
    /\ pending[task[s].op] = Nil
    /\ pending' = [pending EXCEPT ![task[s].op] = s]
    /\ UNCHANGED <<rows, clock, begun>>

\* Totals that leave out the payments of refunded sales.
SumPaymentsOfCompleted(s) ==
    /\ LET c == task[s].shift
           kept(m) == {i \in SalesOf(c) : sales[i].method = m /\ sales[i].status = "completed"}
       IN Step(s, "payments", "refunds",
               [op |-> "close", shift |-> c, cash |-> Amounts(kept("cash")),
                card |-> Amounts(kept("card"))])
    /\ UNCHANGED <<rows, clock, pending, begun>>

\* Totals over the sales of every shift.
SumPaymentsOfAll(s) ==
    /\ LET of(m) == {i \in 1..Len(sales) : sales[i].method = m} IN
       Step(s, "payments", "refunds",
            [op |-> "close", shift |-> task[s].shift, cash |-> Amounts(of("cash")),
             card |-> Amounts(of("card"))])
    /\ UNCHANGED <<rows, clock, pending, begun>>

\* totals_by_method: the payments of the sales of this shift.
SumPayments(s) ==
    /\ LET c == task[s].shift IN
       Step(s, "payments", "refunds",
            [op |-> "close", shift |-> c, cash |-> Paid(c, {"cash"}),
             card |-> Paid(c, {"card"})])
    /\ UNCHANGED <<rows, clock, pending, begun>>

\* refunds_total, then now.
SumRefunds(s) ==
    /\ LET t == task[s] IN
       Step(s, "refunds", "welfare",
            [op |-> "close", shift |-> t.shift, cash |-> t.cash, card |-> t.card,
             refunds |-> Refunded(t.shift), closed |-> clock])
    /\ clock' = clock + 1
    /\ UNCHANGED <<rows, pending, begun>>

WithWelfare(t, n) ==
    [op |-> "close", shift |-> t.shift, cash |-> t.cash, card |-> t.card,
     refunds |-> t.refunds, closed |-> t.closed, welfare |-> n]

\* A window without its lower end.
SumWelfareFromStart(s) ==
    /\ LET t == task[s] IN
       Step(s, "welfare", "commit", WithWelfare(t, Cardinality(GivenIn(0, t.closed))))
    /\ UNCHANGED <<rows, clock, pending, begun>>

\* welfare_total of the window from opened_at to now.
SumWelfare(s) ==
    /\ LET t == task[s] IN
       Step(s, "welfare", "commit",
            WithWelfare(t, Cardinality(GivenIn(shifts[t.shift].opened, t.closed))))
    /\ UNCHANGED <<rows, clock, pending, begun>>

CommitOpen(s) ==
    /\ pc[s] = "commit" /\ task[s].op = "open"
    /\ shifts' = Append(shifts, [status |-> "open", opened |-> task[s].opened,
                                 closed |-> Nil, cash |-> 0, card |-> 0,
                                 refunds |-> 0, welfare |-> 0, expected |-> Nil])
    /\ Release(s)
    /\ UNCHANGED <<sales, refunds, given, clock, begun>>

\* The sale goes to the shift found at the start, whatever became of it.
CommitSale(s) ==
    /\ pc[s] = "commit" /\ task[s].op = "sale"
    /\ sales' = Append(sales, [shift |-> task[s].shift, status |-> "completed",
                               method |-> task[s].payment.method,
                               amount |-> task[s].payment.amount])
    /\ Release(s)
    /\ UNCHANGED <<shifts, refunds, given, clock, begun>>

CommitDistribution(s) ==
    /\ pc[s] = "commit" /\ task[s].op = "distribute"
    /\ given' = Append(given, task[s].created)
    /\ Release(s)
    /\ UNCHANGED <<shifts, sales, refunds, clock, begun>>

CommitRefund(s) ==
    /\ pc[s] = "commit" /\ task[s].op = "refund"
    /\ refunds' = Append(refunds, task[s].sale)
    /\ sales' = [sales EXCEPT ![task[s].sale].status = "refunded"]
    /\ Release(s)
    /\ UNCHANGED <<shifts, given, clock, begun>>

\* A total that equals the 0 the shift object was loaded with is no change, and
\* the UPDATE leaves its column out.
Unless0(new, old) == IF new = 0 THEN old ELSE new

\* The row after the UPDATE, which names it by its id only.  opening_cash is a
\* constant of the shift and left out of expected_cash.
ClosedRow(t) ==
    [status   |-> "closed",
     opened   |-> shifts[t.shift].opened,
     closed   |-> t.closed,
     cash     |-> Unless0(t.cash, shifts[t.shift].cash),
     card     |-> Unless0(t.card, shifts[t.shift].card),
     refunds  |-> Unless0(t.refunds, shifts[t.shift].refunds),
     welfare  |-> Unless0(t.welfare, shifts[t.shift].welfare),
     expected |-> t.cash - t.refunds]

CommitClose(s) ==
    /\ pc[s] = "commit" /\ task[s].op = "close"
    /\ shifts' = [shifts EXCEPT ![task[s].shift] = ClosedRow(task[s])]
    /\ Release(s)
    /\ UNCHANGED <<sales, refunds, given, clock, begun>>

\* Product, price, stock, entitlement: a request is refused before its commit.
Refuse(s) ==
    /\ pc[s] \in {"insert", "commit"}
    /\ task[s].op \in {"sale", "refund", "distribute"}
    /\ Rollback(s)

Disconnect(s) == pc[s] # "idle" /\ Rollback(s)

\* A summary that counts refunded sales as sales.
ArriveSummaryOfAll(s) ==
    /\ Arrive(s, [op |-> "summary", gross |-> Amounts(1..Len(sales)),
                  total |-> Amounts(1..Len(sales))], "summary refunds")
    /\ UNCHANGED <<rows, clock, pending>>

\* sales_summary sums the completed sales, then the refunded ones, then the
\* payments of the completed ones by method; gross is what there was to sum.
ArriveSummary(s) ==
    /\ Arrive(s, [op |-> "summary", gross |-> Amounts(1..Len(sales)),
                  total |-> InStatus("completed")], "summary refunds")
    /\ UNCHANGED <<rows, clock, pending>>

SummaryRefunds(s) ==
    /\ LET t == task[s] IN
       Step(s, "summary refunds", "summary methods",
            [op |-> "summary", gross |-> t.gross, total |-> t.total,
             refunds |-> InStatus("refunded")])
    /\ UNCHANGED <<rows, clock, pending, begun>>

SummaryMethods(s) ==
    /\ LET t == task[s] IN
       Step(s, "summary methods", "answer",
            [op |-> "summary", gross |-> t.gross, total |-> t.total, refunds |-> t.refunds,
             methods |-> InStatus("completed")])
    /\ UNCHANGED <<rows, clock, pending, begun>>

AnswerSummary(s) == pc[s] = "answer" /\ Rollback(s)

Progress(s) ==
    \/ InsertPending(s) \/ SumPayments(s) \/ SumRefunds(s) \/ SumWelfare(s)
    \/ SummaryRefunds(s) \/ SummaryMethods(s) \/ AnswerSummary(s)
    \/ CommitOpen(s) \/ CommitSale(s) \/ CommitDistribution(s)
    \/ CommitRefund(s) \/ CommitClose(s) \/ Refuse(s)

Next == \E s \in Session :
    \/ ArriveOpen(s)
    \/ \E p \in Payments : ArriveSale(s, p)
    \/ ArriveDistribution(s) \/ ArriveSummary(s)
    \/ \E i \in 1..Len(sales) : ArriveRefund(s, i)
    \/ \E c \in 1..Len(shifts) : ArriveClose(s, c)
    \/ Progress(s)
    \/ Disconnect(s)

Spec == Init /\ [][Next]_vars

-----------------------------------------------------------------------------

Closed == 1..Len(shifts) \ OpenShifts

Totals == [cash : Nat, card : Nat, refunds : Nat, welfare : Nat]

\* An open shift has no closing time and no expected cash, a closed one has both.
ShiftRow(r) ==
    /\ r.opened \in Nat
    /\ [cash |-> r.cash, card |-> r.card, refunds |-> r.refunds, welfare |-> r.welfare] \in Totals
    /\ \/ r.status = "open" /\ r.closed = Nil /\ r.expected = Nil
       \/ r.status = "closed" /\ r.closed \in Nat /\ r.expected \in Int

\* What the handler of a request is doing, by where it stands.
Doing(s) ==
    /\ task[s].op \in {"open", "sale", "distribute", "refund", "close", "summary"}
    /\ pc[s] = "insert" => task[s].op \in {"open", "sale", "distribute"}
    /\ pc[s] \in {"payments", "refunds", "welfare"} => task[s].op = "close"
    /\ pc[s] \in {"summary refunds", "summary methods", "answer"} => task[s].op = "summary"

\* What it has read so far.
Reading(s) ==
    LET t == task[s] IN
    /\ t.op = "open" => t.opened \in 0..clock
    /\ t.op = "sale" => t.shift \in 1..Len(shifts) /\ t.payment \in Payments
    /\ t.op = "distribute" => t.created \in 0..clock
    /\ t.op = "refund" => t.sale \in 1..Len(sales)
    /\ t.op = "close" => t.shift \in 1..Len(shifts)
    /\ t.op = "close" /\ pc[s] # "payments" => t.cash \in Nat /\ t.card \in Nat
    /\ t.op = "close" /\ pc[s] \in {"welfare", "commit"} =>
          t.refunds \in Nat /\ t.closed \in 0..clock
    /\ t.op = "close" /\ pc[s] = "commit" => t.welfare \in Nat
    /\ t.op = "summary" => t.gross \in Nat /\ t.total \in Nat
    /\ t.op = "summary" /\ pc[s] # "summary refunds" => t.refunds \in Nat
    /\ pc[s] = "answer" => t.methods \in Nat

TypeOK ==
    /\ clock \in Nat /\ begun \in Nat
    /\ \A c \in 1..Len(shifts) : ShiftRow(shifts[c])
    /\ sales \in Seq([shift : 1..Len(shifts), status : {"completed", "refunded"},
                     method : {"cash", "card"}, amount : Nat])
    /\ refunds \in Seq(1..Len(sales))
    /\ given \in Seq(0..clock)
    /\ pending \in [Coded -> Session \cup {Nil}]
    /\ pc \in [Session -> {"idle", "insert", "payments", "refunds", "welfare", "commit",
                           "summary refunds", "summary methods", "answer"}]
    /\ \A s \in Session : IF pc[s] = "idle" THEN task[s] = Nil ELSE Doing(s) /\ Reading(s)

\* Whether two requests of these kinds were in flight at once.
Raced(p, q) == {p, q} \in raced

\* models/pos.py:61 "computed and frozen at closing time, not recomputed later":
\* no request changes the row of a closed shift, unless it is another close that
\* had found the shift open too.
FrozenTotals ==
    [][Raced("close", "close") \/ \A c \in Closed : shifts'[c] = shifts[c]]_vars

\* What the Refund rows give back of the sales of a shift.
PaidBack(c) ==
    SumFunctionOnSet([i \in 1..Len(refunds) |-> sales[refunds[i]].amount],
                     {i \in 1..Len(refunds) : sales[refunds[i]].shift = c})

\* models/pos.py:9 "closing a shift can reconcile exactly what that cashier rang
\* up": the frozen payments are those of all the sales of the shift, the welfare
\* value is that of the distributions created between opened_at and closed_at, and
\* the cash difference was computed from the figures the row shows, unless a sale,
\* a distribution or another close was under way at once with a close.  Nor does
\* the row, which sums refunded sales, contradict the Refund rows of its sales
\* (sale_service.py:145), unless two refunds were at once.
ShiftReconciles ==
    /\ \A c \in 1..Len(shifts) : Raced("refund", "refund") \/ Refunded(c) = PaidBack(c)
    /\ \A c \in Closed : Raced("close", "close") \/
          /\ \/ Raced("sale", "close")
             \/ /\ shifts[c].cash = Paid(c, {"cash"})
                /\ shifts[c].card = Paid(c, {"card"})
          /\ \/ Raced("distribute", "close")
             \/ shifts[c].welfare = Cardinality(GivenIn(shifts[c].opened, shifts[c].closed))
          /\ shifts[c].expected = shifts[c].cash - shifts[c].refunds

\* However sales, refunds and other closes race the three SELECTs of a close, the
\* frozen totals lag behind what the shift has in the end and never run ahead.
TotalsNeverAhead ==
    \A c \in Closed : /\ shifts[c].cash <= Paid(c, {"cash"})
                      /\ shifts[c].card <= Paid(c, {"card"})
                      /\ shifts[c].refunds <= Refunded(c)

\* Rows of the right shape, and totals that never run ahead (sale_service.py:168-197).
TotalsInv == TypeOK /\ TotalsNeverAhead

\* The windows of two shifts never overlap, so a distribution is counted in at
\* most one of them (sale_service.py:186), unless two opens or two closes were at once.
WelfareCountedOnce ==
    \A c, d \in Closed :
        c # d => \/ Raced("open", "open") \/ Raced("close", "close")
                 \/ shifts[c].closed < shifts[d].opened
                 \/ shifts[d].closed < shifts[c].opened

\* finance_reports.py:50-62: the three SELECTs of a summary never lose a sale, as
\* a sale only moves from the first sum to the second; and what they return adds
\* up when no sale and no refund was committed between them.
SummaryCoversEverySale ==
    \A s \in Session : pc[s] = "answer" =>
        LET t == task[s] IN
        /\ t.total + t.refunds >= t.gross
        /\ \/ Raced("summary", "sale") \/ Raced("summary", "refund")
           \/ t.total + t.refunds = t.gross /\ t.methods = t.total
=============================================================================
