--------------------------- MODULE PosShiftProofs ---------------------------
(***************************************************************************)
(* Proofs about PosShift, for every number of sessions and requests and    *)
(* every set of payments.                                                  *)
(***************************************************************************)
EXTENDS PosShift, SumsAndSequences, TLAPS

Serving(s, op) == pc[s] # "idle" /\ task[s].op = op

\* Two closes that never met close a shift that is open; no other is closed.
ClosesApart ==
    /\ \A s \in Session : Serving(s, "close") => shifts[task[s].shift].status = "open"
    /\ \A r, s \in Session : Serving(r, "close") /\ Serving(s, "close") => r = s

ShiftInv ==
    /\ Sequence(shifts)
    /\ \A c \in 1..Len(shifts) : shifts[c].status \in {"open", "closed"}
    /\ DOMAIN task = Session
    /\ pc \in [Session -> {"idle", "insert", "payments", "refunds", "welfare", "commit",
                           "summary refunds", "summary methods", "answer"}]
    /\ \A s \in Session : pc[s] # "idle" => Doing(s)
    /\ \A s \in Session : Serving(s, "close") => task[s].shift \in 1..Len(shifts)
    /\ Raced("close", "close") \/ ClosesApart

LEMMA ShiftInit == Init => ShiftInv
<1> SUFFICES ASSUME Init PROVE ShiftInv
  OBVIOUS
<1>1. shifts = << >> /\ pc = [s \in Session |-> "idle"] /\ task = [s \in Session |-> Nil]
  BY DEF Init
<1>2. shifts \in Seq({})
  BY <1>1
<1>3. Sequence(shifts)
  BY <1>2, SeqOfItself
<1>4. ClosesApart
  BY <1>1 DEF ClosesApart, Serving
<1> QED BY <1>1, <1>3, <1>4 DEF ShiftInv, Serving

\* The other sessions are where they were.
Others(s) == \A r \in Session \ {s} : pc'[r] = pc[r] /\ task'[r] = task[r]

\* Shifts stay, and new ones are open.
ShiftsStay ==
    /\ \A c \in 1..Len(shifts) : c \in 1..Len(shifts') /\ shifts'[c] = shifts[c]
    /\ \A c \in 1..Len(shifts') : c \in 1..Len(shifts) \/ shifts'[c].status = "open"

\* What the program counters and tasks of a step come to.
Well ==
    /\ DOMAIN task' = Session
    /\ pc' \in [Session -> {"idle", "insert", "payments", "refunds", "welfare", "commit",
                            "summary refunds", "summary methods", "answer"}]
    /\ \A s \in Session : pc'[s] # "idle" => Doing(s)'

LEMMA ShiftKept ==
    ASSUME ShiftInv, NEW s \in Session, Others(s), Well, raced \subseteq raced', ShiftsStay,
           Sequence(shifts'),
           Serving(s, "close")' => Serving(s, "close") /\ task'[s].shift = task[s].shift
    PROVE  ShiftInv'
<1>1. ASSUME ~Raced("close", "close")' PROVE ClosesApart'
  <2>1. ClosesApart
    BY <1>1 DEF Raced, ShiftInv
  <2>2. \A r \in Session : Serving(r, "close")' =>
            Serving(r, "close") /\ task'[r].shift = task[r].shift
    BY DEF Others, Serving
  <2>3. ASSUME NEW r \in Session, Serving(r, "close")'
        PROVE  shifts'[task'[r].shift].status = "open"
    <3>1. /\ task[r].shift \in 1..Len(shifts) /\ task'[r].shift = task[r].shift
          /\ shifts[task[r].shift].status = "open"
      BY <2>1, <2>2, <2>3 DEF ClosesApart, ShiftInv
    <3> QED BY <3>1 DEF ShiftsStay
  <2>4. \A q, r \in Session : Serving(q, "close")' /\ Serving(r, "close")' => q = r
    BY <2>1, <2>2 DEF ClosesApart
  <2> QED BY <2>3, <2>4 DEF ClosesApart, Serving
<1>3. ASSUME NEW r \in Session, Serving(r, "close")' PROVE task'[r].shift \in 1..Len(shifts')
  <2>1. Serving(r, "close") /\ task'[r].shift = task[r].shift
    BY <1>3 DEF Others, Serving
  <2> QED BY <2>1 DEF ShiftInv, ShiftsStay
<1>2. \A c \in 1..Len(shifts') : shifts'[c].status \in {"open", "closed"}
  BY DEF ShiftInv, ShiftsStay
<1> QED BY <1>1, <1>2, <1>3 DEF ShiftInv, Well, Serving

LEMMA ArriveWell ==
    ASSUME ShiftInv, NEW s \in Session, NEW t, NEW to, Arrive(s, t, to),
           to \in {"insert", "commit", "payments", "summary refunds"},
           t.op \in {"open", "sale", "distribute", "refund", "close", "summary"},
           to = "insert" => t.op \in {"open", "sale", "distribute"},
           to = "payments" => t.op = "close",
           to = "summary refunds" => t.op = "summary"
    PROVE  /\ Others(s) /\ Well /\ raced \subseteq raced' /\ pc[s] = "idle"
           /\ pc'[s] = to /\ task'[s] = t
           /\ \A q \in Session : pc[q] # "idle" => {t.op, task[q].op} \in raced'
<1>1. /\ pc[s] = "idle" /\ pc' = [pc EXCEPT ![s] = to] /\ task' = [task EXCEPT ![s] = t]
      /\ raced' = raced \cup {{t.op, task[q].op} : q \in InFlight}
  BY DEF Arrive
<1>2. pc'[s] = to /\ task'[s] = t /\ Others(s)
  BY <1>1 DEF ShiftInv, Others
<1>3. \A r \in Session : pc'[r] # "idle" => Doing(r)'
  <2>1. Doing(s)'
    BY <1>2 DEF Doing
  <2>2. ASSUME NEW r \in Session \ {s}, pc'[r] # "idle" PROVE Doing(r)'
    BY <1>2, <2>2 DEF ShiftInv, Doing, Others
  <2> QED BY <2>1, <2>2
<1> QED BY <1>1, <1>2, <1>3 DEF ShiftInv, Well, InFlight

LEMMA StepWell ==
    ASSUME ShiftInv, NEW s \in Session, NEW t, NEW from, NEW to, Step(s, from, to, t),
           from # "idle", t.op = task[s].op,
           to \in {"commit", "refunds", "welfare", "summary methods", "answer"},
           to \in {"refunds", "welfare"} => t.op = "close",
           to \in {"summary methods", "answer"} => t.op = "summary"
    PROVE  /\ Others(s) /\ Well /\ raced' = raced /\ pc[s] = from
           /\ pc'[s] = to /\ task'[s] = t
<1>1. /\ pc[s] = from /\ pc' = [pc EXCEPT ![s] = to] /\ task' = [task EXCEPT ![s] = t]
      /\ raced' = raced
  BY DEF Step
<1>2. pc'[s] = to /\ task'[s] = t /\ Others(s)
  BY <1>1 DEF ShiftInv, Others
<1>3. \A r \in Session : pc'[r] # "idle" => Doing(r)'
  BY <1>1, <1>2 DEF ShiftInv, Doing, Others
<1> QED BY <1>1, <1>2, <1>3 DEF ShiftInv, Well

LEMMA ReleaseWell ==
    ASSUME ShiftInv, NEW s \in Session, Release(s)
    PROVE  Others(s) /\ Well /\ raced' = raced /\ pc'[s] = "idle"
<1>1. /\ pc' = [pc EXCEPT ![s] = "idle"] /\ task' = [task EXCEPT ![s] = Nil] /\ raced' = raced
  BY DEF Release
<1>2. pc'[s] = "idle" /\ Others(s)
  BY <1>1 DEF ShiftInv, Others
<1>3. \A r \in Session : pc'[r] # "idle" => Doing(r)'
  BY <1>2 DEF ShiftInv, Doing, Others
<1> QED BY <1>1, <1>2, <1>3 DEF ShiftInv, Well

\* Shifts that nobody touches stay.
LEMMA SameShifts ==
    ASSUME ShiftInv, shifts' = shifts
    PROVE  ShiftsStay /\ Sequence(shifts')
BY DEF ShiftInv, ShiftsStay

LEMMA ArriveCloseShift ==
    ASSUME ShiftInv, NEW s \in Session, NEW c \in 1..Len(shifts), ArriveClose(s, c)
    PROVE  ShiftInv'
<1> DEFINE t == [op |-> "close", shift |-> c]
<1>1. Arrive(s, t, "payments") /\ c \in OpenShifts /\ shifts' = shifts
  BY DEF ArriveClose, rows
<1>2. t.op = "close" /\ t.shift = c
  OBVIOUS
<1> HIDE DEF t
<1>3. /\ Others(s) /\ Well /\ raced \subseteq raced' /\ task'[s] = t
      /\ \A q \in Session : pc[q] # "idle" => {t.op, task[q].op} \in raced'
  BY <1>1, <1>2, ArriveWell
<1>4. ASSUME ~Raced("close", "close")' PROVE ClosesApart'
  <2>1. ClosesApart
    BY <1>3, <1>4 DEF Raced, ShiftInv
  <2>2. ASSUME NEW q \in Session, Serving(q, "close") PROVE FALSE
    <3>1. {"close", task[q].op} = {"close", "close"}
      BY <2>2 DEF Serving
    <3> QED BY <1>2, <1>3, <1>4, <2>2, <3>1 DEF Raced, Serving
  <2>3. \A r \in Session : Serving(r, "close")' => r = s
    BY <1>3, <2>2 DEF Others, Serving
  <2>4. task'[s].shift \in 1..Len(shifts') /\ shifts'[task'[s].shift].status = "open"
    BY <1>1, <1>2, <1>3 DEF OpenShifts
  <2> QED BY <2>3, <2>4 DEF ClosesApart
<1>5. ASSUME NEW r \in Session, Serving(r, "close")' PROVE task'[r].shift \in 1..Len(shifts')
  BY <1>1, <1>2, <1>3, <1>5 DEF ShiftInv, Others, Serving
<1> QED BY <1>1, <1>3, <1>4, <1>5 DEF ShiftInv, Well, Serving

LEMMA CommitOpenShift ==
    ASSUME ShiftInv, NEW s \in Session, CommitOpen(s)
    PROVE  ShiftInv'
<1> DEFINE row == [status |-> "open", opened |-> task[s].opened,
                   closed |-> Nil, cash |-> 0, card |-> 0,
                   refunds |-> 0, welfare |-> 0, expected |-> Nil]
<1>1. shifts' = Append(shifts, row) /\ Release(s) /\ row.status = "open"
  BY DEF CommitOpen
<1> HIDE DEF row
<1>2. /\ Sequence(shifts')
      /\ Len(shifts) \in Nat /\ Len(shifts') = Len(shifts) + 1
      /\ shifts'[Len(shifts) + 1] = row
      /\ \A c \in 1..Len(shifts) : shifts'[c] = shifts[c]
  <2>1. Sequence(shifts) /\ More(shifts', shifts, row)
    BY <1>1 DEF ShiftInv, More
  <2> QED BY <2>1, OneMore
<1>3. ShiftsStay
  BY <1>1, <1>2 DEF ShiftsStay
<1> QED BY <1>1, <1>2, <1>3, ReleaseWell, ShiftKept DEF Serving

LEMMA CommitCloseShift ==
    ASSUME ShiftInv, NEW s \in Session, CommitClose(s)
    PROVE  ShiftInv'
<1> DEFINE k == task[s].shift
           row == ClosedRow(task[s])
<1>1. /\ shifts' = [shifts EXCEPT ![k] = row] /\ Release(s) /\ row.status = "closed"
      /\ Serving(s, "close")
  BY DEF CommitClose, ClosedRow, Serving
<1> HIDE DEF row
<1>2. /\ Sequence(shifts')
      /\ Len(shifts') = Len(shifts)
      /\ \A c \in 1..Len(shifts) : shifts'[c] = IF c = k THEN row ELSE shifts[c]
  <2>1. k \in 1..Len(shifts) /\ Sequence(shifts) /\ Changed(shifts', shifts, k, row)
    BY <1>1 DEF ShiftInv, Changed
  <2> HIDE DEF k
  <2> QED BY <2>1, OneChanged
<1>3. Others(s) /\ Well /\ raced' = raced /\ pc'[s] = "idle"
  BY <1>1, ReleaseWell
<1>4. ASSUME ~Raced("close", "close")' PROVE ClosesApart'
  <2>1. ClosesApart
    BY <1>3, <1>4 DEF Raced, ShiftInv
  <2>2. \A r \in Session : ~Serving(r, "close")'
    BY <1>1, <1>3, <2>1 DEF ClosesApart, Others, Serving
  <2> QED BY <2>2 DEF ClosesApart
<1>5. \A c \in 1..Len(shifts') : shifts'[c].status \in {"open", "closed"}
  BY <1>1, <1>2 DEF ShiftInv
<1>6. ASSUME NEW r \in Session, Serving(r, "close")' PROVE task'[r].shift \in 1..Len(shifts')
  BY <1>2, <1>3, <1>6 DEF ShiftInv, Others, Serving
<1> QED BY <1>2, <1>3, <1>4, <1>5, <1>6 DEF ShiftInv, Well, Serving

\* The steps that leave the shifts alone and start no close.
Quiet(s) ==
    \/ ArriveOpen(s) \/ (\E p \in Payments : ArriveSale(s, p)) \/ ArriveDistribution(s)
    \/ ArriveSummary(s) \/ (\E i \in 1..Len(sales) : ArriveRefund(s, i))
    \/ InsertPending(s) \/ SumPayments(s) \/ SumRefunds(s) \/ SumWelfare(s)
    \/ SummaryRefunds(s) \/ SummaryMethods(s) \/ AnswerSummary(s)
    \/ CommitSale(s) \/ CommitDistribution(s) \/ CommitRefund(s) \/ Refuse(s)
    \/ Disconnect(s)

LEMMA ByCases ==
    Next => \E s \in Session : \/ Quiet(s)
                               \/ \E c \in 1..Len(shifts) : ArriveClose(s, c)
                               \/ CommitOpen(s) \/ CommitClose(s)
BY DEF Next, Progress, Quiet

\* What a quiet step does to its session.
LEMMA QuietWell ==
    ASSUME ShiftInv, NEW s \in Session, Quiet(s)
    PROVE  /\ Others(s) /\ Well /\ raced \subseteq raced' /\ shifts' = shifts
           /\ Serving(s, "close")' => Serving(s, "close") /\ task'[s].shift = task[s].shift
<1>1. CASE ArriveOpen(s)
  <2> DEFINE t == [op |-> "open", opened |-> clock + 1]
  <2>1. Arrive(s, t, "insert") /\ shifts' = shifts /\ t.op = "open"
    BY <1>1 DEF ArriveOpen, rows
  <2> HIDE DEF t
  <2> QED BY <2>1, ArriveWell DEF Serving
<1>2. ASSUME NEW p \in Payments, ArriveSale(s, p)
      PROVE  /\ Others(s) /\ Well /\ raced \subseteq raced' /\ shifts' = shifts
             /\ ~Serving(s, "close")'
  <2>1. PICK c \in 1..Len(shifts) :
           Arrive(s, [op |-> "sale", shift |-> c, payment |-> p], "insert")
    BY <1>2 DEF ArriveSale
  <2> DEFINE t == [op |-> "sale", shift |-> c, payment |-> p]
  <2>2. Arrive(s, t, "insert") /\ shifts' = shifts /\ t.op = "sale"
    BY <1>2, <2>1 DEF ArriveSale, rows
  <2> HIDE DEF t
  <2> QED BY <2>2, ArriveWell DEF Serving
<1>3. CASE ArriveDistribution(s)
  <2> DEFINE t == [op |-> "distribute", created |-> clock]
  <2>1. Arrive(s, t, "insert") /\ shifts' = shifts /\ t.op = "distribute"
    BY <1>3 DEF ArriveDistribution, rows
  <2> HIDE DEF t
  <2> QED BY <2>1, ArriveWell DEF Serving
<1>4. CASE ArriveSummary(s)
  <2> DEFINE t == [op |-> "summary", gross |-> Amounts(1..Len(sales)),
                   total |-> InStatus("completed")]
  <2>1. Arrive(s, t, "summary refunds") /\ shifts' = shifts /\ t.op = "summary"
    BY <1>4 DEF ArriveSummary, rows
  <2> HIDE DEF t
  <2> QED BY <2>1, ArriveWell DEF Serving
<1>5. ASSUME NEW i \in 1..Len(sales), ArriveRefund(s, i)
      PROVE  /\ Others(s) /\ Well /\ raced \subseteq raced' /\ shifts' = shifts
             /\ ~Serving(s, "close")'
  <2> DEFINE t == [op |-> "refund", sale |-> i]
  <2>1. Arrive(s, t, "commit") /\ shifts' = shifts /\ t.op = "refund"
    BY <1>5 DEF ArriveRefund, rows
  <2> HIDE DEF t
  <2> QED BY <2>1, ArriveWell DEF Serving
<1>6. CASE InsertPending(s)
  <2>1. Step(s, "insert", "commit", task[s]) /\ shifts' = shifts
    BY <1>6 DEF InsertPending, rows
  <2> QED BY <2>1, StepWell DEF Serving
<1>7. CASE SumPayments(s)
  <2> DEFINE c == task[s].shift
             t == [op |-> "close", shift |-> c, cash |-> Paid(c, {"cash"}),
                   card |-> Paid(c, {"card"})]
  <2>1. Step(s, "payments", "refunds", t) /\ shifts' = shifts /\ t.op = "close" /\ t.shift = c
    BY <1>7 DEF SumPayments, rows
  <2>2. task[s].op = "close" /\ pc[s] # "idle"
    BY <1>7 DEF SumPayments, Step, ShiftInv, Doing
  <2> HIDE DEF t
  <2> QED BY <2>1, <2>2, StepWell DEF Serving
<1>8. CASE SumRefunds(s)
  <2> DEFINE t == [op |-> "close", shift |-> task[s].shift, cash |-> task[s].cash,
                   card |-> task[s].card, refunds |-> Refunded(task[s].shift), closed |-> clock]
  <2>1. /\ Step(s, "refunds", "welfare", t) /\ shifts' = shifts
        /\ t.op = "close" /\ t.shift = task[s].shift
    BY <1>8 DEF SumRefunds, rows
  <2>2. task[s].op = "close" /\ pc[s] # "idle"
    BY <1>8 DEF SumRefunds, Step, ShiftInv, Doing
  <2> HIDE DEF t
  <2> QED BY <2>1, <2>2, StepWell DEF Serving
<1>9. CASE SumWelfare(s)
  <2> DEFINE t == WithWelfare(task[s],
                     Cardinality(GivenIn(shifts[task[s].shift].opened, task[s].closed)))
  <2>1. /\ Step(s, "welfare", "commit", t) /\ shifts' = shifts
        /\ t.op = "close" /\ t.shift = task[s].shift
    BY <1>9 DEF SumWelfare, WithWelfare, rows
  <2>2. task[s].op = "close" /\ pc[s] # "idle"
    BY <1>9 DEF SumWelfare, Step, ShiftInv, Doing
  <2> HIDE DEF t
  <2> QED BY <2>1, <2>2, StepWell DEF Serving
<1>10. CASE SummaryRefunds(s)
  <2> DEFINE t == [op |-> "summary", gross |-> task[s].gross, total |-> task[s].total,
                   refunds |-> InStatus("refunded")]
  <2>1. Step(s, "summary refunds", "summary methods", t) /\ shifts' = shifts /\ t.op = "summary"
    BY <1>10 DEF SummaryRefunds, rows
  <2>2. task[s].op = "summary"
    BY <1>10 DEF SummaryRefunds, Step, ShiftInv, Doing
  <2> HIDE DEF t
  <2> QED BY <2>1, <2>2, StepWell DEF Serving
<1>11. CASE SummaryMethods(s)
  <2> DEFINE t == [op |-> "summary", gross |-> task[s].gross, total |-> task[s].total,
                   refunds |-> task[s].refunds, methods |-> InStatus("completed")]
  <2>1. Step(s, "summary methods", "answer", t) /\ shifts' = shifts /\ t.op = "summary"
    BY <1>11 DEF SummaryMethods, rows
  <2>2. task[s].op = "summary"
    BY <1>11 DEF SummaryMethods, Step, ShiftInv, Doing
  <2> HIDE DEF t
  <2> QED BY <2>1, <2>2, StepWell DEF Serving
<1>12. CASE AnswerSummary(s) \/ Refuse(s) \/ Disconnect(s) \/ CommitSale(s)
            \/ CommitDistribution(s) \/ CommitRefund(s)
  <2>1. Release(s) /\ shifts' = shifts
    BY <1>12 DEF AnswerSummary, Refuse, Disconnect, Rollback, CommitSale, CommitDistribution,
       CommitRefund, rows
  <2> QED BY <2>1, ReleaseWell DEF Serving
<1> QED BY <1>1, <1>2, <1>3, <1>4, <1>5, <1>6, <1>7, <1>8, <1>9, <1>10, <1>11, <1>12 DEF Quiet

LEMMA ShiftStep == ShiftInv /\ [Next]_vars => ShiftInv'
<1> SUFFICES ASSUME ShiftInv, [Next]_vars PROVE ShiftInv'
  OBVIOUS
<1>1. CASE UNCHANGED vars
  BY <1>1 DEF vars, ShiftInv, Doing, Serving, ClosesApart, Raced
<1>2. ASSUME NEW s \in Session, Quiet(s) PROVE ShiftInv'
  BY <1>2, QuietWell, SameShifts, ShiftKept
<1>3. ASSUME NEW s \in Session, NEW c \in 1..Len(shifts), ArriveClose(s, c) PROVE ShiftInv'
  BY <1>3, ArriveCloseShift
<1>4. ASSUME NEW s \in Session, CommitOpen(s) \/ CommitClose(s) PROVE ShiftInv'
  BY <1>4, CommitOpenShift, CommitCloseShift
<1> QED BY <1>1, <1>2, <1>3, <1>4, ByCases

\* The rows of closed shifts stay unless two closes met.
ClosedStay == Raced("close", "close") \/ \A c \in Closed : shifts'[c] = shifts[c]

LEMMA StepClosedStay == ShiftInv /\ [Next]_vars => ClosedStay
<1> SUFFICES ASSUME ShiftInv, [Next]_vars, ~Raced("close", "close"), NEW c \in Closed
             PROVE  shifts'[c] = shifts[c]
  BY DEF ClosedStay
<1>1. ClosesApart /\ c \in 1..Len(shifts) /\ shifts[c].status # "open"
  BY DEF ShiftInv, Closed, OpenShifts
<1>2. CASE shifts' = shifts
  BY <1>2
<1>3. ASSUME NEW s \in Session, CommitOpen(s) PROVE shifts'[c] = shifts[c]
  <2> DEFINE row == [status |-> "open", opened |-> task[s].opened,
                     closed |-> Nil, cash |-> 0, card |-> 0,
                     refunds |-> 0, welfare |-> 0, expected |-> Nil]
  <2>1. Sequence(shifts) /\ More(shifts', shifts, row)
    BY <1>3 DEF CommitOpen, ShiftInv, More
  <2> HIDE DEF row
  <2> QED BY <1>1, <2>1, OneMore
<1>4. ASSUME NEW s \in Session, CommitClose(s) PROVE shifts'[c] = shifts[c]
  <2>1. Serving(s, "close") /\ task[s].shift # c
    BY <1>1, <1>4 DEF CommitClose, Serving, ClosesApart
  <2> QED BY <1>4, <2>1 DEF CommitClose
<1>5. ASSUME NEW s \in Session, NEW d \in 1..Len(shifts), ArriveClose(s, d)
      PROVE  shifts' = shifts
  BY <1>5 DEF ArriveClose, rows
<1> QED BY <1>2, <1>3, <1>4, <1>5, ByCases, QuietWell DEF vars

\* models/pos.py:61 "computed and frozen at closing time, not recomputed later": for
\* any number of cashier requests, the row of a closed shift never changes unless two
\* closes were in flight at once.
THEOREM ClosedRowsAreFrozen == Spec => FrozenTotals
<1>1. Spec => [][ClosedStay]_vars
  <2>1. ShiftInv /\ [Next]_vars => [ClosedStay]_vars
    BY StepClosedStay
  <2> QED BY <2>1, ShiftInit, ShiftStep, PTL DEF Spec
<1>2. [][ClosedStay]_vars <=> FrozenTotals
  BY DEF ClosedStay, FrozenTotals
<1> QED BY <1>1, <1>2

-----------------------------------------------------------------------------
(***************************************************************************)
(* The windows of shifts.  A shift is opened after the last was closed, so *)
(* its window begins after the windows of all the others have ended, as    *)
(* long as two opens never met (both would have found no open shift) and   *)
(* two closes never met (the second would move the end of a window).       *)
(***************************************************************************)

\* The times a request has read lie in the past.
Timed(s) ==
    /\ Serving(s, "open") => task[s].opened \in Nat
    /\ Serving(s, "close") /\ pc[s] \in {"welfare", "commit"} =>
          task[s].closed \in Nat /\ task[s].closed < clock

ClosedBefore(c, t) == shifts[c].status = "closed" /\ shifts[c].closed < t

WindowsApart ==
    /\ \A c, d \in 1..Len(shifts) : c < d => ClosedBefore(c, shifts[d].opened)
    /\ \A s \in Session : Serving(s, "open") =>
          \A c \in 1..Len(shifts) : ClosedBefore(c, task[s].opened)
    /\ \A r, s \in Session : Serving(r, "open") /\ Serving(s, "open") => r = s

Met == Raced("open", "open") \/ Raced("close", "close")

WindowInv ==
    /\ ShiftInv
    /\ clock \in Nat
    /\ \A c \in 1..Len(shifts) : /\ shifts[c].opened \in Nat
                                 /\ shifts[c].status = "closed" =>
                                       shifts[c].closed \in Nat /\ shifts[c].closed < clock
    /\ \A s \in Session : Timed(s)
    /\ Met \/ WindowsApart

LEMMA WindowInit == Init => WindowInv
<1> SUFFICES ASSUME Init PROVE WindowInv
  OBVIOUS
<1>1. shifts = << >> /\ pc = [s \in Session |-> "idle"] /\ clock = 0
  BY DEF Init
<1>2. Len(shifts) = 0
  BY <1>1
<1> QED BY <1>1, <1>2, ShiftInit DEF WindowInv, WindowsApart, Timed, Serving

\* A step that leaves the shifts alone and starts no open.
LEMMA WindowKept ==
    ASSUME WindowInv, ShiftInv', NEW s \in Session, Others(s), raced \subseteq raced',
           shifts' = shifts, clock' \in {clock, clock + 1}, Timed(s)',
           Serving(s, "open")' => Serving(s, "open") /\ task'[s].opened = task[s].opened
    PROVE  WindowInv'
<1>1. clock \in Nat /\ clock' \in Nat /\ clock <= clock'
  BY DEF WindowInv
<1>2. ASSUME NEW r \in Session PROVE Timed(r)'
  <2>1. CASE r = s
    BY <2>1
  <2>2. CASE r # s
    <3>1. pc'[r] = pc[r] /\ task'[r] = task[r] /\ Timed(r)
      BY <2>2 DEF Others, WindowInv
    <3> QED BY <1>1, <3>1 DEF Timed, Serving
  <2> QED BY <2>1, <2>2
<1>3. ASSUME NEW c \in 1..Len(shifts')
      PROVE  /\ shifts'[c].opened \in Nat
             /\ shifts'[c].status = "closed" =>
                   shifts'[c].closed \in Nat /\ shifts'[c].closed < clock'
  BY <1>1, <1>3 DEF WindowInv
<1>4. ASSUME ~Met' PROVE WindowsApart'
  <2>1. WindowsApart
    BY <1>4 DEF Met, Raced, WindowInv
  <2>2. \A r \in Session : Serving(r, "open")' =>
            Serving(r, "open") /\ task'[r].opened = task[r].opened
    BY DEF Others, Serving
  <2>3. \A c, d \in 1..Len(shifts') : c < d => ClosedBefore(c, shifts[d].opened)'
    BY <2>1 DEF WindowsApart, ClosedBefore
  <2>4. ASSUME NEW r \in Session, Serving(r, "open")', NEW c \in 1..Len(shifts')
        PROVE  ClosedBefore(c, task[r].opened)'
    BY <2>1, <2>2, <2>4 DEF WindowsApart, ClosedBefore
  <2>5. \A q, r \in Session : Serving(q, "open")' /\ Serving(r, "open")' => q = r
    BY <2>1, <2>2 DEF WindowsApart
  <2> QED BY <2>3, <2>4, <2>5 DEF WindowsApart
<1> QED BY <1>1, <1>2, <1>3, <1>4 DEF WindowInv

\* What a step other than an open's arrival reads of the time.
LEMMA QuietTimes ==
    ASSUME WindowInv, NEW s \in Session, Quiet(s), ~ArriveOpen(s)
    PROVE  /\ clock' \in {clock, clock + 1} /\ Timed(s)'
           /\ Serving(s, "open")' => Serving(s, "open") /\ task'[s].opened = task[s].opened
<1> ShiftInv /\ clock \in Nat /\ Timed(s)
  BY DEF WindowInv
<1>2. ASSUME NEW p \in Payments, ArriveSale(s, p)
      PROVE  clock' = clock /\ Timed(s)' /\ ~Serving(s, "open")'
  <2>1. PICK c \in 1..Len(shifts) :
           Arrive(s, [op |-> "sale", shift |-> c, payment |-> p], "insert")
    BY <1>2 DEF ArriveSale
  <2> DEFINE t == [op |-> "sale", shift |-> c, payment |-> p]
  <2>2. Arrive(s, t, "insert") /\ clock' = clock /\ t.op = "sale"
    BY <1>2, <2>1 DEF ArriveSale
  <2> HIDE DEF t
  <2> QED BY <2>2, ArriveWell DEF Serving, Timed
<1>3. CASE ArriveDistribution(s)
  <2> DEFINE t == [op |-> "distribute", created |-> clock]
  <2>1. Arrive(s, t, "insert") /\ clock' = clock /\ t.op = "distribute"
    BY <1>3 DEF ArriveDistribution
  <2> HIDE DEF t
  <2> QED BY <2>1, ArriveWell DEF Serving, Timed
<1>4. CASE ArriveSummary(s)
  <2> DEFINE t == [op |-> "summary", gross |-> Amounts(1..Len(sales)),
                   total |-> InStatus("completed")]
  <2>1. Arrive(s, t, "summary refunds") /\ clock' = clock /\ t.op = "summary"
    BY <1>4 DEF ArriveSummary
  <2> HIDE DEF t
  <2> QED BY <2>1, ArriveWell DEF Serving, Timed
<1>5. ASSUME NEW i \in 1..Len(sales), ArriveRefund(s, i)
      PROVE  clock' = clock /\ Timed(s)' /\ ~Serving(s, "open")'
  <2> DEFINE t == [op |-> "refund", sale |-> i]
  <2>1. Arrive(s, t, "commit") /\ clock' = clock /\ t.op = "refund"
    BY <1>5 DEF ArriveRefund
  <2> HIDE DEF t
  <2> QED BY <2>1, ArriveWell DEF Serving, Timed
<1>6. CASE InsertPending(s)
  <2>1. Step(s, "insert", "commit", task[s]) /\ clock' = clock
    BY <1>6 DEF InsertPending
  <2>2. task[s].op # "close" /\ pc[s] # "idle"
    BY <2>1 DEF Step, ShiftInv, Doing
  <2>3. pc'[s] = "commit" /\ task'[s] = task[s]
    BY <2>1, <2>2, StepWell
  <2> QED BY <2>1, <2>2, <2>3 DEF Serving, Timed
<1>7. CASE SumPayments(s)
  <2> DEFINE c == task[s].shift
             t == [op |-> "close", shift |-> c, cash |-> Paid(c, {"cash"}),
                   card |-> Paid(c, {"card"})]
  <2>1. Step(s, "payments", "refunds", t) /\ clock' = clock /\ t.op = "close"
    BY <1>7 DEF SumPayments
  <2>2. task[s].op = "close"
    BY <1>7 DEF SumPayments, Step, ShiftInv, Doing
  <2> HIDE DEF t
  <2>3. pc'[s] = "refunds" /\ task'[s] = t
    BY <2>1 DEF Step, ShiftInv
  <2> QED BY <2>1, <2>2, <2>3 DEF Serving, Timed
<1>8. CASE SumRefunds(s)
  <2> DEFINE t == [op |-> "close", shift |-> task[s].shift, cash |-> task[s].cash,
                   card |-> task[s].card, refunds |-> Refunded(task[s].shift), closed |-> clock]
  <2>1. /\ Step(s, "refunds", "welfare", t) /\ clock' = clock + 1
        /\ t.op = "close" /\ t.closed = clock
    BY <1>8 DEF SumRefunds
  <2>2. task[s].op = "close"
    BY <1>8 DEF SumRefunds, Step, ShiftInv, Doing
  <2> HIDE DEF t
  <2>3. pc'[s] = "welfare" /\ task'[s] = t
    BY <2>1 DEF Step, ShiftInv
  <2> QED BY <2>1, <2>2, <2>3 DEF Serving, Timed
<1>9. CASE SumWelfare(s)
  <2> DEFINE t == WithWelfare(task[s],
                     Cardinality(GivenIn(shifts[task[s].shift].opened, task[s].closed)))
  <2>1. /\ Step(s, "welfare", "commit", t) /\ clock' = clock
        /\ t.op = "close" /\ t.closed = task[s].closed
    BY <1>9 DEF SumWelfare, WithWelfare
  <2>2. task[s].op = "close" /\ pc[s] = "welfare"
    BY <1>9 DEF SumWelfare, Step, ShiftInv, Doing
  <2> HIDE DEF t
  <2>3. pc'[s] = "commit" /\ task'[s] = t
    BY <2>1, <2>2, StepWell
  <2> QED BY <2>1, <2>2, <2>3 DEF Serving, Timed
<1>10. CASE SummaryRefunds(s)
  <2> DEFINE t == [op |-> "summary", gross |-> task[s].gross, total |-> task[s].total,
                   refunds |-> InStatus("refunded")]
  <2>1. Step(s, "summary refunds", "summary methods", t) /\ clock' = clock /\ t.op = "summary"
    BY <1>10 DEF SummaryRefunds
  <2>2. task[s].op = "summary"
    BY <1>10 DEF SummaryRefunds, Step, ShiftInv, Doing
  <2> HIDE DEF t
  <2>3. pc'[s] = "summary methods" /\ task'[s] = t
    BY <2>1 DEF Step, ShiftInv
  <2> QED BY <2>1, <2>2, <2>3 DEF Serving, Timed
<1>11. CASE SummaryMethods(s)
  <2> DEFINE t == [op |-> "summary", gross |-> task[s].gross, total |-> task[s].total,
                   refunds |-> task[s].refunds, methods |-> InStatus("completed")]
  <2>1. Step(s, "summary methods", "answer", t) /\ clock' = clock /\ t.op = "summary"
    BY <1>11 DEF SummaryMethods
  <2>2. task[s].op = "summary"
    BY <1>11 DEF SummaryMethods, Step, ShiftInv, Doing
  <2> HIDE DEF t
  <2>3. pc'[s] = "answer" /\ task'[s] = t
    BY <2>1 DEF Step, ShiftInv
  <2> QED BY <2>1, <2>2, <2>3 DEF Serving, Timed
<1>12. CASE AnswerSummary(s) \/ Refuse(s) \/ Disconnect(s) \/ CommitSale(s)
            \/ CommitDistribution(s) \/ CommitRefund(s)
  <2>1. Release(s) /\ clock' = clock
    BY <1>12 DEF AnswerSummary, Refuse, Disconnect, Rollback, CommitSale, CommitDistribution,
       CommitRefund
  <2> QED BY <2>1, ReleaseWell DEF Serving, Timed
<1> QED BY <1>2, <1>3, <1>4, <1>5, <1>6, <1>7, <1>8, <1>9, <1>10, <1>11, <1>12 DEF Quiet

LEMMA ArriveOpenWindow ==
    ASSUME WindowInv, ShiftInv', NEW s \in Session, ArriveOpen(s)
    PROVE  WindowInv'
<1> DEFINE t == [op |-> "open", opened |-> clock + 1]
<1>1. /\ Arrive(s, t, "insert") /\ shifts' = shifts /\ clock' = clock + 1 /\ OpenShifts = {}
      /\ t.op = "open" /\ t.opened = clock + 1
  BY DEF ArriveOpen, rows
<1> HIDE DEF t
<1>2. ShiftInv /\ clock \in Nat /\ clock' \in Nat
  BY <1>1 DEF WindowInv
<1>3. /\ Others(s) /\ raced \subseteq raced' /\ pc'[s] = "insert" /\ task'[s] = t
      /\ \A q \in Session : pc[q] # "idle" => {t.op, task[q].op} \in raced'
  BY <1>1, <1>2, ArriveWell
<1>4. ASSUME NEW r \in Session PROVE Timed(r)'
  <2>1. CASE r = s
    BY <1>1, <1>2, <1>3, <2>1 DEF Timed, Serving
  <2>2. CASE r # s
    <3>1. pc'[r] = pc[r] /\ task'[r] = task[r] /\ Timed(r)
      BY <1>3, <2>2 DEF Others, WindowInv
    <3> QED BY <1>1, <1>2, <3>1 DEF Timed, Serving
  <2> QED BY <2>1, <2>2
<1>5. ASSUME NEW c \in 1..Len(shifts')
      PROVE  /\ shifts'[c].opened \in Nat
             /\ shifts'[c].status = "closed" =>
                   shifts'[c].closed \in Nat /\ shifts'[c].closed < clock'
  BY <1>1, <1>2, <1>5 DEF WindowInv
<1>6. ASSUME ~Met' PROVE WindowsApart'
  <2>1. WindowsApart
    BY <1>3, <1>6 DEF Met, Raced, WindowInv
  <2>2. ASSUME NEW q \in Session, Serving(q, "open") PROVE FALSE
    <3>1. {"open", task[q].op} = {"open", "open"}
      BY <2>2 DEF Serving
    <3> QED BY <1>1, <1>3, <1>6, <2>2, <3>1 DEF Met, Raced, Serving
  <2>3. \A r \in Session : Serving(r, "open")' => r = s
    BY <1>3, <2>2 DEF Others, Serving
  <2>4. \A c, d \in 1..Len(shifts') : c < d => ClosedBefore(c, shifts[d].opened)'
    BY <1>1, <2>1 DEF WindowsApart, ClosedBefore
  <2>5. ASSUME NEW c \in 1..Len(shifts') PROVE ClosedBefore(c, task[s].opened)'
    <3>1. shifts[c].status = "closed" /\ shifts[c].closed \in Nat /\ shifts[c].closed < clock
      BY <1>1, <2>5 DEF OpenShifts, WindowInv, ShiftInv
    <3> QED BY <1>1, <1>2, <1>3, <3>1 DEF ClosedBefore
  <2> QED BY <2>3, <2>4, <2>5 DEF WindowsApart
<1> QED BY <1>2, <1>4, <1>5, <1>6 DEF WindowInv

LEMMA CommitOpenWindow ==
    ASSUME WindowInv, ShiftInv', NEW s \in Session, CommitOpen(s)
    PROVE  WindowInv'
<1> DEFINE n == Len(shifts) + 1
           row == [status |-> "open", opened |-> task[s].opened,
                   closed |-> Nil, cash |-> 0, card |-> 0,
                   refunds |-> 0, welfare |-> 0, expected |-> Nil]
<1>1. /\ shifts' = Append(shifts, row) /\ Release(s) /\ clock' = clock
      /\ row.status = "open" /\ row.opened = task[s].opened /\ Serving(s, "open")
  BY DEF CommitOpen, Serving
<1> HIDE DEF row
<1>2. /\ Len(shifts) \in Nat /\ Len(shifts') = n /\ shifts'[n] = row
      /\ \A c \in 1..Len(shifts) : shifts'[c] = shifts[c]
  <2>1. Sequence(shifts) /\ More(shifts', shifts, row)
    BY <1>1 DEF WindowInv, ShiftInv, More
  <2> QED BY <2>1, OneMore
<1>3. Others(s) /\ raced' = raced /\ pc'[s] = "idle"
  BY <1>1, ReleaseWell DEF WindowInv
<1>4. ASSUME NEW r \in Session PROVE Timed(r)'
  BY <1>1, <1>3, <1>4 DEF Timed, Serving, Others, WindowInv
<1>5. \A c \in 1..Len(shifts') : c \in 1..Len(shifts) \/ c = n
  BY <1>2
<1>6. ASSUME NEW c \in 1..Len(shifts')
      PROVE  /\ shifts'[c].opened \in Nat
             /\ shifts'[c].status = "closed" =>
                   shifts'[c].closed \in Nat /\ shifts'[c].closed < clock'
  <2>1. task[s].opened \in Nat
    BY <1>1 DEF WindowInv, Timed
  <2> QED BY <1>1, <1>2, <1>5, <2>1 DEF WindowInv
<1>7. ASSUME ~Met' PROVE WindowsApart'
  <2>1. WindowsApart
    BY <1>3, <1>7 DEF Met, Raced, WindowInv
  <2>2. \A r \in Session : ~Serving(r, "open")'
    BY <1>1, <1>3, <2>1 DEF WindowsApart, Others, Serving
  <2>3. ASSUME NEW c \in 1..Len(shifts'), NEW d \in 1..Len(shifts'), c < d
        PROVE  ClosedBefore(c, shifts[d].opened)'
    <3>1. c \in 1..Len(shifts) /\ shifts'[c] = shifts[c]
      BY <1>2, <2>3
    <3>2. CASE d = n
      <4>1. ClosedBefore(c, task[s].opened)
        BY <1>1, <2>1, <3>1 DEF WindowsApart
      <4> QED BY <1>1, <1>2, <3>1, <3>2, <4>1 DEF ClosedBefore
    <3>3. CASE d \in 1..Len(shifts)
      BY <1>2, <2>1, <2>3, <3>1, <3>3 DEF WindowsApart, ClosedBefore
    <3> QED BY <1>5, <3>2, <3>3
  <2> QED BY <2>2, <2>3 DEF WindowsApart
<1>8. clock' \in Nat
  BY <1>1 DEF WindowInv
<1> QED BY <1>4, <1>6, <1>7, <1>8 DEF WindowInv

LEMMA CommitCloseWindow ==
    ASSUME WindowInv, ShiftInv', NEW s \in Session, CommitClose(s)
    PROVE  WindowInv'
<1> DEFINE k == task[s].shift
           row == ClosedRow(task[s])
<1>1. /\ shifts' = [shifts EXCEPT ![k] = row] /\ Release(s) /\ clock' = clock
      /\ row.status = "closed" /\ row.closed = task[s].closed
      /\ row.opened = shifts[k].opened /\ Serving(s, "close") /\ pc[s] = "commit"
  BY DEF CommitClose, ClosedRow, Serving
<1> HIDE DEF row
<1>2. k \in 1..Len(shifts)
  BY <1>1 DEF WindowInv, ShiftInv
<1> HIDE DEF k
<1>3. /\ Sequence(shifts')
      /\ Len(shifts') = Len(shifts)
      /\ \A c \in 1..Len(shifts) : shifts'[c] = IF c = k THEN row ELSE shifts[c]
  <2>1. Sequence(shifts)
    BY DEF WindowInv, ShiftInv
  <2>2. Changed(shifts', shifts, k, row)
    BY <1>1 DEF Changed
  <2> QED BY <1>2, <2>1, <2>2, OneChanged
<1>4. Others(s) /\ raced' = raced /\ pc'[s] = "idle"
  BY <1>1, ReleaseWell DEF WindowInv
<1>5. ASSUME NEW r \in Session PROVE Timed(r)'
  BY <1>1, <1>4, <1>5 DEF Timed, Serving, Others, WindowInv
<1>6. task[s].closed \in Nat /\ task[s].closed < clock
  BY <1>1 DEF WindowInv, Timed
<1>7. ASSUME NEW c \in 1..Len(shifts')
      PROVE  /\ shifts'[c].opened \in Nat
             /\ shifts'[c].status = "closed" =>
                   shifts'[c].closed \in Nat /\ shifts'[c].closed < clock'
  BY <1>1, <1>2, <1>3, <1>6, <1>7 DEF WindowInv
<1>8. ASSUME ~Met' PROVE WindowsApart'
  <2>1. WindowsApart /\ ClosesApart
    BY <1>4, <1>8 DEF Met, Raced, WindowInv, ShiftInv
  <2>2. shifts[k].status = "open"
    BY <1>1, <2>1 DEF ClosesApart, k
  <2>3. \A r \in Session : ~Serving(r, "open")'
    BY <1>2, <1>4, <2>1, <2>2 DEF WindowsApart, ClosedBefore, Others, Serving
  <2>4. ASSUME NEW c \in 1..Len(shifts'), NEW d \in 1..Len(shifts'), c < d
        PROVE  ClosedBefore(c, shifts[d].opened)'
    <3>1. c \in 1..Len(shifts) /\ d \in 1..Len(shifts) /\ ClosedBefore(c, shifts[d].opened)
      BY <1>3, <2>1, <2>4 DEF WindowsApart
    <3>2. c # k
      BY <2>2, <3>1 DEF ClosedBefore
    <3>3. shifts'[c] = shifts[c] /\ shifts'[d].opened = shifts[d].opened
      BY <1>1, <1>3, <3>1, <3>2
    <3> QED BY <3>1, <3>3 DEF ClosedBefore
  <2> QED BY <2>3, <2>4 DEF WindowsApart
<1>9. clock' \in Nat
  BY <1>1 DEF WindowInv
<1> QED BY <1>5, <1>7, <1>8, <1>9 DEF WindowInv

LEMMA ArriveCloseWindow ==
    ASSUME WindowInv, ShiftInv', NEW s \in Session, NEW c \in 1..Len(shifts), ArriveClose(s, c)
    PROVE  WindowInv'
<1> DEFINE t == [op |-> "close", shift |-> c]
<1>1. Arrive(s, t, "payments") /\ shifts' = shifts /\ clock' = clock /\ t.op = "close"
  BY DEF ArriveClose, rows
<1> HIDE DEF t
<1>2. Others(s) /\ raced \subseteq raced' /\ task'[s] = t /\ pc'[s] = "payments"
  BY <1>1, ArriveWell DEF WindowInv
<1> QED BY <1>1, <1>2, WindowKept DEF Timed, Serving

LEMMA WindowStep == WindowInv /\ [Next]_vars => WindowInv'
<1> SUFFICES ASSUME WindowInv, [Next]_vars PROVE WindowInv'
  OBVIOUS
<1>1. ShiftInv /\ ShiftInv'
  BY ShiftStep DEF WindowInv
<1>2. CASE UNCHANGED vars
  BY <1>1, <1>2 DEF vars, WindowInv, Timed, Serving, WindowsApart, ClosedBefore, Met, Raced
<1>3. ASSUME NEW s \in Session, Quiet(s) PROVE WindowInv'
  <2>1. CASE ArriveOpen(s)
    BY <1>1, <2>1, ArriveOpenWindow
  <2>2. CASE ~ArriveOpen(s)
    <3>1. Others(s) /\ raced \subseteq raced' /\ shifts' = shifts
      BY <1>1, <1>3, QuietWell
    <3> QED BY <1>1, <1>3, <2>2, <3>1, QuietTimes, WindowKept
  <2> QED BY <2>1, <2>2
<1>4. ASSUME NEW s \in Session, NEW c \in 1..Len(shifts), ArriveClose(s, c) PROVE WindowInv'
  BY <1>1, <1>4, ArriveCloseWindow
<1>5. ASSUME NEW s \in Session, CommitOpen(s) \/ CommitClose(s) PROVE WindowInv'
  BY <1>1, <1>5, CommitOpenWindow, CommitCloseWindow
<1> QED BY <1>2, <1>3, <1>4, <1>5, ByCases

\* sale_service.py:186 counts the distributions between opened_at and closed_at: for any
\* number of cashier requests, the windows of two closed shifts do not overlap, so none
\* is counted in both, unless two opens or two closes were in flight at once.
THEOREM NoDistributionTwice == Spec => []WelfareCountedOnce
<1>1. WindowInv => WelfareCountedOnce
  <2> SUFFICES ASSUME WindowInv, ~Met, NEW c \in Closed, NEW d \in Closed, c # d
               PROVE  shifts[c].closed < shifts[d].opened \/ shifts[d].closed < shifts[c].opened
    BY DEF WelfareCountedOnce, Met
  <2>1. WindowsApart /\ c \in 1..Len(shifts) /\ d \in 1..Len(shifts)
    BY DEF WindowInv, Closed
  <2>2. Len(shifts) \in Nat
    <3>1. Sequence(shifts)
      BY DEF WindowInv, ShiftInv
    <3> QED BY <3>1 DEF Sequence
  <2>3. c < d \/ d < c
    BY <2>1, <2>2
  <2> QED BY <2>1, <2>3 DEF WindowsApart, ClosedBefore
<1> QED BY <1>1, WindowInit, WindowStep, PTL DEF Spec

-----------------------------------------------------------------------------
(***************************************************************************)
(* The figures of a shift.  The sums of the model, of any sales, refunds   *)
(* and distributions, so that two ends of a step can be compared.          *)
(***************************************************************************)
AmountsIn(w, is) == SumFunctionOnSet([i \in 1..Len(w) |-> w[i].amount], is)
OfShift(w, c) == {i \in 1..Len(w) : w[i].shift = c}
PaidIn(w, c, m) == AmountsIn(w, {i \in OfShift(w, c) : w[i].method \in m})
RefundedIn(w, c) == AmountsIn(w, {i \in OfShift(w, c) : w[i].status = "refunded"})
StatusIn(w, st) == AmountsIn(w, {i \in 1..Len(w) : w[i].status = st})
PaidBackIn(w, q, c) ==
    SumFunctionOnSet([i \in 1..Len(q) |-> w[q[i]].amount], {i \in 1..Len(q) : w[q[i]].shift = c})
Between(g, from, to) == {i \in 1..Len(g) : from <= g[i] /\ g[i] <= to}

\* Sale rows whose shift is one of n.
Sales(n) ==
    [shift : 1..n, status : {"completed", "refunded"}, method : {"cash", "card"}, amount : Nat]

\* Sales are added and refunded, and otherwise stay.
Grown(w, v) ==
    /\ Len(w) \in Nat /\ Len(v) \in Nat /\ Len(w) <= Len(v)
    /\ \A i \in 1..Len(w) : /\ v[i].shift = w[i].shift /\ v[i].method = w[i].method
                            /\ v[i].amount = w[i].amount
                            /\ w[i].status = "refunded" => v[i].status = "refunded"

LEMMA SaleFields ==
    ASSUME NEW n, NEW w \in Seq(Sales(n))
    PROVE  /\ Len(w) \in Nat /\ IsFiniteSet(1..Len(w))
           /\ \A i \in 1..Len(w) : /\ w[i].amount \in Nat /\ w[i].shift \in 1..n
                                   /\ w[i].status \in {"completed", "refunded"}
                                   /\ w[i].method \in {"cash", "card"}
<1>1. Len(w) \in Nat
  OBVIOUS
<1>2. \A i \in 1..Len(w) : w[i] \in Sales(n)
  OBVIOUS
<1>3. IsFiniteSet(1..Len(w))
  BY <1>1, FS_Interval
<1>4. ASSUME NEW i \in 1..Len(w)
      PROVE  /\ w[i].amount \in Nat /\ w[i].shift \in 1..n
             /\ w[i].status \in {"completed", "refunded"} /\ w[i].method \in {"cash", "card"}
  <2>1. w[i] \in Sales(n)
    BY <1>2
  <2> DEFINE r == w[i]
  <2> HIDE DEF r
  <2>2. r \in Sales(n) => /\ r.amount \in Nat /\ r.shift \in 1..n
                          /\ r.status \in {"completed", "refunded"} /\ r.method \in {"cash", "card"}
    BY DEF Sales
  <2> QED BY <2>1, <2>2 DEF r
<1> QED BY <1>1, <1>3, <1>4

LEMMA AmountsNat ==
    ASSUME NEW n, NEW w \in Seq(Sales(n)), NEW is, is \subseteq 1..Len(w)
    PROVE  AmountsIn(w, is) \in Nat /\ IsFiniteSet(is)
<1> DEFINE f == [i \in 1..Len(w) |-> w[i].amount]
<1>1. IsFiniteSet(is) /\ \A i \in is : f[i] \in Nat
  BY SaleFields, FS_Subset
<1> HIDE DEF f
<1> QED BY <1>1, SumNat DEF AmountsIn, f

\* Sums over fewer sales, of sales that stay, and over two kinds of sales.
LEMMA AmountsMore ==
    ASSUME NEW n, NEW w \in Seq(Sales(n)), NEW is, NEW js, is \subseteq js, js \subseteq 1..Len(w)
    PROVE  AmountsIn(w, is) <= AmountsIn(w, js)
<1> DEFINE f == [i \in 1..Len(w) |-> w[i].amount]
           ks == js \ is
<1>1. /\ IsFiniteSet(is) /\ IsFiniteSet(ks) /\ is \cap ks = {} /\ js = is \cup ks
      /\ \A i \in is \cup ks : f[i] \in Nat
  BY SaleFields, FS_Subset
<1> HIDE DEF f, ks
<1>2. SumFunctionOnSet(f, js) = SumFunctionOnSet(f, is) + SumFunctionOnSet(f, ks)
  BY <1>1, SumUnion
<1>3. SumFunctionOnSet(f, is) \in Nat /\ SumFunctionOnSet(f, ks) \in Nat
  BY <1>1, SumNat
<1> QED BY <1>2, <1>3 DEF AmountsIn, f

LEMMA AmountsSame ==
    ASSUME NEW n, NEW w \in Seq(Sales(n)), NEW v, Grown(w, v), NEW is, is \subseteq 1..Len(w)
    PROVE  AmountsIn(v, is) = AmountsIn(w, is)
<1> DEFINE f == [i \in 1..Len(w) |-> w[i].amount]
           g == [i \in 1..Len(v) |-> v[i].amount]
<1>1. 1..Len(w) \subseteq 1..Len(v)
  BY DEF Grown
<1>2. IsFiniteSet(is)
  BY AmountsNat
<1>3. \A i \in is : f[i] = g[i]
  BY <1>1 DEF Grown
<1> HIDE DEF f, g
<1> QED BY <1>2, <1>3, SumSame DEF AmountsIn, f, g

LEMMA AmountsSplit ==
    ASSUME NEW n, NEW w \in Seq(Sales(n))
    PROVE  AmountsIn(w, 1..Len(w)) = StatusIn(w, "completed") + StatusIn(w, "refunded")
<1> DEFINE f == [i \in 1..Len(w) |-> w[i].amount]
           S == {i \in 1..Len(w) : w[i].status = "completed"}
           T == {i \in 1..Len(w) : w[i].status = "refunded"}
<1>1. /\ IsFiniteSet(S) /\ IsFiniteSet(T) /\ S \cap T = {} /\ 1..Len(w) = S \cup T
      /\ \A i \in S \cup T : f[i] \in Nat
  BY SaleFields, FS_Subset
<1> HIDE DEF f, S, T
<1>2. SumFunctionOnSet(f, S \cup T) = SumFunctionOnSet(f, S) + SumFunctionOnSet(f, T)
  BY <1>1, SumUnion
<1> QED BY <1>1, <1>2 DEF AmountsIn, StatusIn, f, S, T

\* As sales grow, no total goes down.
LEMMA TotalsGrow ==
    ASSUME NEW n, NEW w \in Seq(Sales(n)), NEW m, NEW v \in Seq(Sales(m)), Grown(w, v)
    PROVE  /\ \A c, ms : /\ PaidIn(w, c, ms) \in Nat /\ PaidIn(v, c, ms) \in Nat
                         /\ PaidIn(w, c, ms) <= PaidIn(v, c, ms)
           /\ \A c : /\ RefundedIn(w, c) \in Nat /\ RefundedIn(v, c) \in Nat
                     /\ RefundedIn(w, c) <= RefundedIn(v, c)
           /\ StatusIn(w, "refunded") \in Nat /\ StatusIn(v, "refunded") \in Nat
           /\ StatusIn(w, "refunded") <= StatusIn(v, "refunded")
<1>1. ASSUME NEW is, NEW js, is \subseteq 1..Len(w), js \subseteq 1..Len(v), is \subseteq js
      PROVE  /\ AmountsIn(w, is) \in Nat /\ AmountsIn(v, js) \in Nat
             /\ AmountsIn(w, is) <= AmountsIn(v, js)
  <2>1. AmountsIn(w, is) = AmountsIn(v, is)
    BY <1>1, AmountsSame
  <2>2. AmountsIn(v, is) <= AmountsIn(v, js)
    BY <1>1, AmountsMore
  <2> QED BY <1>1, <2>1, <2>2, AmountsNat
<1>2. 1..Len(w) \subseteq 1..Len(v)
  BY DEF Grown
<1>3. ASSUME NEW c, NEW ms
      PROVE  /\ PaidIn(w, c, ms) \in Nat /\ PaidIn(v, c, ms) \in Nat
             /\ PaidIn(w, c, ms) <= PaidIn(v, c, ms)
  <2> DEFINE is == {i \in OfShift(w, c) : w[i].method \in ms}
             js == {i \in OfShift(v, c) : v[i].method \in ms}
  <2>1. is \subseteq 1..Len(w) /\ js \subseteq 1..Len(v) /\ is \subseteq js
    BY <1>2 DEF OfShift, Grown
  <2> HIDE DEF is, js
  <2> QED BY <1>1, <2>1 DEF PaidIn, is, js
<1>4. ASSUME NEW c
      PROVE  /\ RefundedIn(w, c) \in Nat /\ RefundedIn(v, c) \in Nat
             /\ RefundedIn(w, c) <= RefundedIn(v, c)
  <2> DEFINE is == {i \in OfShift(w, c) : w[i].status = "refunded"}
             js == {i \in OfShift(v, c) : v[i].status = "refunded"}
  <2>1. is \subseteq 1..Len(w) /\ js \subseteq 1..Len(v) /\ is \subseteq js
    BY <1>2 DEF OfShift, Grown
  <2> HIDE DEF is, js
  <2> QED BY <1>1, <2>1 DEF RefundedIn, is, js
<1>5. /\ StatusIn(w, "refunded") \in Nat /\ StatusIn(v, "refunded") \in Nat
      /\ StatusIn(w, "refunded") <= StatusIn(v, "refunded")
  <2> DEFINE is == {i \in 1..Len(w) : w[i].status = "refunded"}
             js == {i \in 1..Len(v) : v[i].status = "refunded"}
  <2>1. is \subseteq 1..Len(w) /\ js \subseteq 1..Len(v) /\ is \subseteq js
    BY <1>2 DEF Grown
  <2> HIDE DEF is, js
  <2> QED BY <1>1, <2>1 DEF StatusIn, is, js
<1> QED BY <1>3, <1>4, <1>5

\* A sale more.
LEMMA SaleAdded ==
    ASSUME NEW n, NEW w \in Seq(Sales(n)), NEW row \in Sales(n), row.status = "completed",
           NEW v, More(v, w, row)
    PROVE  /\ v \in Seq(Sales(n)) /\ Len(v) = Len(w) + 1 /\ Grown(w, v)
           /\ \A i \in 1..Len(w) : v[i] = w[i]
           /\ \A c, ms : c # row.shift => PaidIn(v, c, ms) = PaidIn(w, c, ms)
           /\ \A c : RefundedIn(v, c) = RefundedIn(w, c)
           /\ \A q, c : q \in Seq(1..Len(w)) => PaidBackIn(v, q, c) = PaidBackIn(w, q, c)
<1>1. /\ v \in Seq(Sales(n)) /\ Len(w) \in Nat /\ Len(v) = Len(w) + 1 /\ v[Len(v)] = row
      /\ \A i \in 1..Len(w) : v[i] = w[i]
  BY DEF More
<1>2. Grown(w, v)
  BY <1>1 DEF Grown
<1>3. \A i \in 1..Len(v) : i \in 1..Len(w) \/ i = Len(v)
  BY <1>1
<1>4. 1..Len(w) \subseteq 1..Len(v)
  BY <1>1
<1>5. ASSUME NEW c, NEW ms, c # row.shift PROVE PaidIn(v, c, ms) = PaidIn(w, c, ms)
  <2> DEFINE is == {i \in OfShift(w, c) : w[i].method \in ms}
  <2>1. is = {i \in OfShift(v, c) : v[i].method \in ms} /\ is \subseteq 1..Len(w)
    BY <1>1, <1>3, <1>4, <1>5 DEF OfShift
  <2> HIDE DEF is
  <2>2. AmountsIn(v, is) = AmountsIn(w, is)
    BY <1>2, <2>1, AmountsSame
  <2> QED BY <2>1, <2>2 DEF PaidIn, is
<1>6. ASSUME NEW c PROVE RefundedIn(v, c) = RefundedIn(w, c)
  <2> DEFINE is == {i \in OfShift(w, c) : w[i].status = "refunded"}
  <2>1. is = {i \in OfShift(v, c) : v[i].status = "refunded"} /\ is \subseteq 1..Len(w)
    BY <1>1, <1>3, <1>4 DEF OfShift
  <2> HIDE DEF is
  <2>2. AmountsIn(v, is) = AmountsIn(w, is)
    BY <1>2, <2>1, AmountsSame
  <2> QED BY <2>1, <2>2 DEF RefundedIn, is
<1>7. ASSUME NEW q, NEW c, q \in Seq(1..Len(w)) PROVE PaidBackIn(v, q, c) = PaidBackIn(w, q, c)
  <2>0. \A i \in 1..Len(q) : q[i] \in 1..Len(w)
    BY <1>7
  <2>1. \A i \in 1..Len(q) : v[q[i]] = w[q[i]]
    BY <1>1, <2>0
  <2>2. /\ [i \in 1..Len(q) |-> w[q[i]].amount] = [i \in 1..Len(q) |-> v[q[i]].amount]
        /\ {i \in 1..Len(q) : w[q[i]].shift = c} = {i \in 1..Len(q) : v[q[i]].shift = c}
    BY <2>1
  <2> QED BY <2>2 DEF PaidBackIn
<1> QED BY <1>1, <1>2, <1>5, <1>6, <1>7

SaleBack(v, w, k) == v = [w EXCEPT ![k].status = "refunded"]

LEMMA SaleRefundedRow ==
    ASSUME NEW n, NEW w \in Seq(Sales(n)), NEW k \in 1..Len(w), NEW v, SaleBack(v, w, k)
    PROVE  /\ v \in Seq(Sales(n)) /\ Len(v) = Len(w) /\ Grown(w, v)
           /\ \A i \in 1..Len(w) : i # k => v[i] = w[i]
           /\ v[k].status = "refunded"
<1> DEFINE row == [w[k] EXCEPT !.status = "refunded"]
<1>1. w[k] \in Sales(n)
  OBVIOUS
<1>2. /\ row \in Sales(n) /\ row.status = "refunded" /\ row.shift = w[k].shift
      /\ row.method = w[k].method /\ row.amount = w[k].amount
  BY <1>1 DEF Sales
<1>3. Changed(v, w, k, row)
  BY DEF SaleBack, Changed
<1> HIDE DEF row
<1>4. Len(w) \in Nat /\ DOMAIN w = 1..Len(w) /\ v \in Seq(Sales(n)) /\ Len(v) = Len(w)
  BY <1>2, <1>3 DEF Changed
<1>5. \A i \in 1..Len(w) : v[i] = IF i = k THEN row ELSE w[i]
  BY <1>3, <1>4 DEF Changed
<1> QED BY <1>2, <1>4, <1>5 DEF Grown

\* A sale refunded, and its Refund row.
LEMMA SaleRefunded ==
    ASSUME NEW n, NEW w \in Seq(Sales(n)), NEW k \in 1..Len(w), NEW v, SaleBack(v, w, k)
    PROVE  /\ \A c, ms : PaidIn(v, c, ms) = PaidIn(w, c, ms)
           /\ w[k].status = "completed" =>
                 \A c : RefundedIn(v, c) =
                           RefundedIn(w, c) + (IF c = w[k].shift THEN w[k].amount ELSE 0)
<1>1. /\ v \in Seq(Sales(n)) /\ Len(v) = Len(w) /\ Grown(w, v)
      /\ \A i \in 1..Len(w) : i # k => v[i] = w[i]
      /\ v[k].status = "refunded"
  BY SaleRefundedRow
<1>2. ASSUME NEW c, NEW ms PROVE PaidIn(v, c, ms) = PaidIn(w, c, ms)
  <2> DEFINE is == {i \in OfShift(w, c) : w[i].method \in ms}
  <2>1. is = {i \in OfShift(v, c) : v[i].method \in ms} /\ is \subseteq 1..Len(w)
    BY <1>1 DEF OfShift, Grown
  <2> HIDE DEF is
  <2>2. AmountsIn(v, is) = AmountsIn(w, is)
    BY <1>1, <2>1, AmountsSame
  <2> QED BY <2>1, <2>2 DEF PaidIn, is
<1>3. ASSUME w[k].status = "completed", NEW c
      PROVE  RefundedIn(v, c) = RefundedIn(w, c) + (IF c = w[k].shift THEN w[k].amount ELSE 0)
  <2> DEFINE is == {i \in OfShift(w, c) : w[i].status = "refunded"}
             js == {i \in OfShift(v, c) : v[i].status = "refunded"}
             f == [i \in 1..Len(w) |-> w[i].amount]
  <2>1. is \subseteq 1..Len(w) /\ k \notin is /\ IsFiniteSet(is) /\ AmountsIn(w, is) \in Nat
    BY <1>3, AmountsNat DEF OfShift
  <2>2. js = IF c = w[k].shift THEN is \cup {k} ELSE is
    BY <1>1, <1>3 DEF OfShift, Grown
  <2>3. f[k] = w[k].amount /\ f[k] \in Nat /\ \A i \in is : f[i] \in Nat
    BY <2>1, SaleFields
  <2>4. js \subseteq 1..Len(w)
    BY <2>1, <2>2
  <2> HIDE DEF is, js, f
  <2>5. AmountsIn(v, js) = AmountsIn(w, js)
    BY <1>1, <2>4, AmountsSame
  <2>6. SumFunctionOnSet(f, is \cup {k}) = SumFunctionOnSet(f, is) + f[k]
    <3>1. \A i \in is : f[i] \in Int
      BY <2>3
    <3>2. f[k] \in Int
      BY <2>3
    <3> QED BY <2>1, <3>1, <3>2, SumIn
  <2>7. AmountsIn(w, is \cup {k}) = AmountsIn(w, is) + w[k].amount
    BY <2>3, <2>6 DEF AmountsIn, f
  <2>8. AmountsIn(w, js) = AmountsIn(w, is) + (IF c = w[k].shift THEN w[k].amount ELSE 0)
    BY <2>1, <2>2, <2>7
  <2> QED BY <2>5, <2>8 DEF RefundedIn, is, js
<1> QED BY <1>2, <1>3

LEMMA PaidBackMore ==
    ASSUME NEW n, NEW w \in Seq(Sales(n)), NEW k \in 1..Len(w), NEW v, SaleBack(v, w, k),
           NEW q \in Seq(1..Len(w)), NEW r, More(r, q, k), NEW c
    PROVE  PaidBackIn(v, r, c) = PaidBackIn(w, q, c) + (IF c = w[k].shift THEN w[k].amount ELSE 0)
<1>1. /\ Len(v) = Len(w) /\ Grown(w, v)
  BY SaleRefundedRow
<1>2. /\ Len(q) \in Nat /\ Len(r) = Len(q) + 1 /\ r[Len(r)] = k
      /\ \A i \in 1..Len(q) : r[i] = q[i] /\ q[i] \in 1..Len(w)
  BY DEF More
<1> DEFINE N == Len(r)
           is == {i \in 1..Len(q) : w[q[i]].shift = c}
           js == {i \in 1..Len(r) : v[r[i]].shift = c}
           f == [i \in 1..Len(q) |-> w[q[i]].amount]
           g == [i \in 1..Len(r) |-> v[r[i]].amount]
<1>3. 1..Len(r) = 1..Len(q) \cup {N} /\ N \notin 1..Len(q)
  BY <1>2
<1>4. \A i \in 1..Len(q) : v[r[i]].shift = w[q[i]].shift /\ v[r[i]].amount = w[q[i]].amount
  BY <1>1, <1>2 DEF Grown
<1>5. v[r[N]].shift = w[k].shift /\ v[r[N]].amount = w[k].amount
  BY <1>1, <1>2 DEF Grown
<1>6. js = IF c = w[k].shift THEN is \cup {N} ELSE is
  BY <1>3, <1>4, <1>5
<1>7. N \notin is /\ IsFiniteSet(is)
  <2>1. IsFiniteSet(1..Len(q))
    BY <1>2, FS_Interval
  <2> QED BY <1>3, <2>1, FS_Subset
<1>8. /\ \A i \in is : f[i] = g[i] /\ f[i] \in Nat /\ g[i] \in Nat
      /\ g[N] = w[k].amount /\ g[N] \in Nat
  <2>1. \A i \in 1..Len(w) : w[i].amount \in Nat
    BY SaleFields
  <2> QED BY <1>2, <1>3, <1>4, <1>5, <2>1
<1>9. PaidBackIn(v, r, c) = SumFunctionOnSet(g, js) /\ PaidBackIn(w, q, c) = SumFunctionOnSet(f, is)
  BY DEF PaidBackIn
<1> HIDE DEF is, js, f, g, N
<1>10. SumFunctionOnSet(g, is \cup {N}) = SumFunctionOnSet(g, is) + g[N]
  BY <1>7, <1>8, SumIn
<1>11. SumFunctionOnSet(g, is) = SumFunctionOnSet(f, is) /\ SumFunctionOnSet(f, is) \in Nat
  BY <1>7, <1>8, SumSame, SumNat
<1> QED BY <1>6, <1>8, <1>9, <1>10, <1>11

-----------------------------------------------------------------------------
\* What a request that is under way has read, of the numbers of shifts and sales and
\* the time.
ReadIn(t, at, ns, nl, ck) ==
    /\ t.op = "open" => t.opened \in 0..ck
    /\ t.op = "sale" => t.shift \in 1..ns /\ t.payment \in Payments
    /\ t.op = "distribute" => t.created \in 0..ck
    /\ t.op = "refund" => t.sale \in 1..nl
    /\ t.op = "close" => t.shift \in 1..ns
    /\ t.op = "close" /\ at # "payments" => t.cash \in Nat /\ t.card \in Nat
    /\ t.op = "close" /\ at \in {"welfare", "commit"} => t.refunds \in Nat /\ t.closed \in 0..ck
    /\ t.op = "close" /\ at = "commit" => t.welfare \in Nat
    /\ t.op = "summary" => t.gross \in Nat /\ t.total \in Nat
    /\ t.op = "summary" /\ at # "summary refunds" => t.refunds \in Nat
    /\ at = "answer" => t.methods \in Nat

\* What is right about it: sums it has read that can only have grown, and what it
\* relies on that only a request of a certain kind, met on the way, can have changed.
SummaryRight(t, at, sa, rc) ==
    /\ at = "summary refunds" => t.gross <= t.total + StatusIn(sa, "refunded")
    /\ at \in {"summary methods", "answer"} => t.gross <= t.total + t.refunds
    /\ \/ {"summary", "sale"} \in rc \/ {"summary", "refund"} \in rc
       \/ /\ at = "summary refunds" => t.gross = t.total + StatusIn(sa, "refunded")
          /\ at \in {"summary methods", "answer"} => t.gross = t.total + t.refunds
          /\ at \in {"summary refunds", "summary methods"} => t.total = StatusIn(sa, "completed")
          /\ at = "answer" => t.methods = t.total

Right(t, at, sh, sa, gi, rc) ==
    /\ t.op = "refund" => {"refund", "refund"} \in rc \/ sa[t.sale].status = "completed"
    /\ t.op = "sale" => {"sale", "close"} \in rc \/ sh[t.shift].status = "open"
    /\ t.op = "distribute" =>
          \/ {"distribute", "close"} \in rc
          \/ \A c \in 1..Len(sh) : sh[c].status = "closed" => sh[c].closed < t.created
    /\ t.op = "close" /\ at # "payments" =>
          /\ t.cash <= PaidIn(sa, t.shift, {"cash"}) /\ t.card <= PaidIn(sa, t.shift, {"card"})
          /\ \/ {"sale", "close"} \in rc
             \/ /\ t.cash = PaidIn(sa, t.shift, {"cash"})
                /\ t.card = PaidIn(sa, t.shift, {"card"})
    /\ t.op = "close" /\ at \in {"welfare", "commit"} => t.refunds <= RefundedIn(sa, t.shift)
    /\ t.op = "close" /\ at = "commit" =>
          \/ {"distribute", "close"} \in rc
          \/ t.welfare = Cardinality(Between(gi, sh[t.shift].opened, t.closed))
    /\ t.op = "summary" => SummaryRight(t, at, sa, rc)

\* The same of the row of a shift.
RowRight(r, c, sa, gi, rc) ==
    /\ r.cash <= PaidIn(sa, c, {"cash"}) /\ r.card <= PaidIn(sa, c, {"card"})
    /\ r.refunds <= RefundedIn(sa, c)
    /\ r.status = "open" => r.cash = 0 /\ r.card = 0 /\ r.refunds = 0 /\ r.welfare = 0
    /\ r.status = "closed" =>
          \/ {"close", "close"} \in rc
          \/ /\ \/ {"sale", "close"} \in rc
                \/ r.cash = PaidIn(sa, c, {"cash"}) /\ r.card = PaidIn(sa, c, {"card"})
             /\ \/ {"distribute", "close"} \in rc
                \/ r.welfare = Cardinality(Between(gi, r.opened, r.closed))
             /\ r.expected = r.cash - r.refunds

RowsRight(sh, sa, re, gi, rc) ==
    /\ \A c \in 1..Len(sh) : RowRight(sh[c], c, sa, gi, rc)
    /\ \/ {"refund", "refund"} \in rc
       \/ \A c : RefundedIn(sa, c) = PaidBackIn(sa, re, c)

\* Every two requests that are under way have met.
MetRight ==
    \A r, s \in Session : r # s /\ pc[r] # "idle" /\ pc[s] # "idle" =>
        {task[r].op, task[s].op} \in raced

\* The rows, of the right shape and figures.
Books(sh, sa, re, gi, ck, rc) ==
    /\ \A c \in 1..Len(sh) : ShiftRow(sh[c])
    /\ sa \in Seq(Sales(Len(sh))) /\ re \in Seq(1..Len(sa)) /\ gi \in Seq(0..ck)
    /\ RowsRight(sh, sa, re, gi, rc)

Busy(t, at, sh, sa, gi, ck, rc) ==
    ReadIn(t, at, Len(sh), Len(sa), ck) /\ Right(t, at, sh, sa, gi, rc)

FiguresInv ==
    /\ WindowInv
    /\ begun \in Nat
    /\ pending \in [Coded -> Session \cup {Nil}]
    /\ MetRight
    /\ Books(shifts, sales, refunds, given, clock, raced)
    /\ \A s \in Session :
          IF pc[s] = "idle" THEN task[s] = Nil
          ELSE Busy(task[s], pc[s], shifts, sales, given, clock, raced)

-----------------------------------------------------------------------------
\* What becomes of the figures of the others as tables change.

LEMMA ReadLater ==
    ASSUME NEW t, NEW at, NEW ns \in Nat, NEW nl \in Nat, NEW ck \in Nat,
           NEW ms \in Nat, NEW ml \in Nat, NEW dk \in Nat,
           ns <= ms, nl <= ml, ck <= dk, ReadIn(t, at, ns, nl, ck)
    PROVE  ReadIn(t, at, ms, ml, dk)
<1>1. 1..ns \subseteq 1..ms /\ 1..nl \subseteq 1..ml /\ 0..ck \subseteq 0..dk
  OBVIOUS
<1> QED BY <1>1 DEF ReadIn

LEMMA RightRaced ==
    ASSUME NEW t, NEW at, NEW sh, NEW sa, NEW gi, NEW rc, NEW rd, rc \subseteq rd,
           Right(t, at, sh, sa, gi, rc)
    PROVE  Right(t, at, sh, sa, gi, rd)
<1>1. SummaryRight(t, at, sa, rc) => SummaryRight(t, at, sa, rd)
  BY DEF SummaryRight
<1> QED BY <1>1 DEF Right

LEMMA RowsRaced ==
    ASSUME NEW sh, NEW sa, NEW re, NEW gi, NEW rc, NEW rd, rc \subseteq rd,
           RowsRight(sh, sa, re, gi, rc)
    PROVE  RowsRight(sh, sa, re, gi, rd)
<1>1. ASSUME NEW c \in 1..Len(sh) PROVE RowRight(sh[c], c, sa, gi, rd)
  BY DEF RowsRight, RowRight
<1> QED BY <1>1 DEF RowsRight

\* Sums that can only grow, behind a request that has read them.
LEMMA RightGrown ==
    ASSUME NEW t, NEW at, NEW ns \in Nat, NEW ck, NEW sh, NEW gi, NEW rc,
           NEW w \in Seq(Sales(ns)), NEW v \in Seq(Sales(ns)), Grown(w, v),
           ReadIn(t, at, ns, Len(w), ck), Right(t, at, sh, w, gi, rc),
           t.op = "refund" => {"refund", "refund"} \in rc \/ v[t.sale].status = w[t.sale].status,
           t.op = "close" =>
              {"sale", "close"} \in rc \/ \A c, ms : PaidIn(v, c, ms) = PaidIn(w, c, ms),
           t.op = "summary" => {"summary", "sale"} \in rc \/ {"summary", "refund"} \in rc
    PROVE  Right(t, at, sh, v, gi, rc)
<1>1. /\ \A c, ms : /\ PaidIn(w, c, ms) \in Nat /\ PaidIn(v, c, ms) \in Nat
                    /\ PaidIn(w, c, ms) <= PaidIn(v, c, ms)
      /\ \A c : /\ RefundedIn(w, c) \in Nat /\ RefundedIn(v, c) \in Nat
                /\ RefundedIn(w, c) <= RefundedIn(v, c)
      /\ StatusIn(w, "refunded") \in Nat /\ StatusIn(v, "refunded") \in Nat
      /\ StatusIn(w, "refunded") <= StatusIn(v, "refunded")
  BY TotalsGrow
<1>2. ASSUME t.op = "summary" PROVE SummaryRight(t, at, v, rc)
  <2>1. t.gross \in Nat /\ t.total \in Nat
    BY <1>2 DEF ReadIn
  <2>2. SummaryRight(t, at, w, rc)
    BY <1>2 DEF Right
  <2>3. ASSUME at = "summary refunds" PROVE t.gross <= t.total + StatusIn(v, "refunded")
    <3>1. t.gross <= t.total + StatusIn(w, "refunded")
      BY <2>2, <2>3 DEF SummaryRight
    <3> QED BY <1>1, <2>1, <3>1
  <2>4. {"summary", "sale"} \in rc \/ {"summary", "refund"} \in rc
    BY <1>2
  <2>5. at \in {"summary methods", "answer"} => t.gross <= t.total + t.refunds
    BY <2>2 DEF SummaryRight
  <2> QED BY <2>3, <2>4, <2>5 DEF SummaryRight
<1>3. ASSUME t.op = "close", at # "payments"
      PROVE  /\ t.cash <= PaidIn(v, t.shift, {"cash"}) /\ t.card <= PaidIn(v, t.shift, {"card"})
             /\ \/ {"sale", "close"} \in rc
                \/ /\ t.cash = PaidIn(v, t.shift, {"cash"})
                   /\ t.card = PaidIn(v, t.shift, {"card"})
  <2>1. t.cash \in Nat /\ t.card \in Nat
    BY <1>3 DEF ReadIn
  <2>2. t.cash <= PaidIn(w, t.shift, {"cash"}) /\ t.card <= PaidIn(w, t.shift, {"card"})
    BY <1>3 DEF Right
  <2>3. t.cash <= PaidIn(v, t.shift, {"cash"}) /\ t.card <= PaidIn(v, t.shift, {"card"})
    BY <1>1, <2>1, <2>2
  <2> QED BY <1>3, <2>3 DEF Right
<1>4. ASSUME t.op = "close", at \in {"welfare", "commit"}
      PROVE  t.refunds <= RefundedIn(v, t.shift)
  <2>1. t.refunds \in Nat /\ t.refunds <= RefundedIn(w, t.shift)
    BY <1>4 DEF ReadIn, Right
  <2> QED BY <1>1, <2>1
<1> QED BY <1>2, <1>3, <1>4 DEF Right

\* A distribution that was made after a window has ended is not in it.
LEMMA GivenLater ==
    ASSUME NEW n, NEW g \in Seq(0..n), NEW x, NEW h, More(h, g, x)
    PROVE  \A from, to : ~(x <= to) => Between(h, from, to) = Between(g, from, to)
<1>1. /\ Len(g) \in Nat /\ Len(h) = Len(g) + 1 /\ h[Len(h)] = x
      /\ \A i \in 1..Len(g) : h[i] = g[i]
  <2>1. Sequence(g)
    BY SeqOfItself
  <2> QED BY <2>1, OneMore
<1>2. \A i \in 1..Len(h) : i \in 1..Len(g) \/ i = Len(h)
  BY <1>1
<1>3. 1..Len(g) \subseteq 1..Len(h)
  BY <1>1
<1> QED BY <1>1, <1>2, <1>3 DEF Between

LEMMA RightGiven ==
    ASSUME NEW t, NEW at, NEW sh, NEW sa, NEW gi, NEW hi, NEW rc,
           Right(t, at, sh, sa, gi, rc), t.op = "close" => {"distribute", "close"} \in rc
    PROVE  Right(t, at, sh, sa, hi, rc)
BY DEF Right

\* A shift more, and a shift closed.
LEMMA RightOpened ==
    ASSUME NEW t, NEW at, NEW sh, NEW si, NEW sa, NEW gi, NEW rc, Right(t, at, sh, sa, gi, rc),
           Len(sh) \in Nat, Len(si) = Len(sh) + 1, si[Len(si)].status = "open",
           \A c \in 1..Len(sh) : si[c] = sh[c],
           t.op \in {"sale", "close"} => t.shift \in 1..Len(sh)
    PROVE  Right(t, at, si, sa, gi, rc)
<1>1. \A c \in 1..Len(si) : c \in 1..Len(sh) \/ c = Len(si)
  OBVIOUS
<1>2. \A c \in 1..Len(si) : si[c].status = "closed" => c \in 1..Len(sh) /\ si[c] = sh[c]
  BY <1>1
<1> QED BY <1>2 DEF Right

LEMMA RightClosed ==
    ASSUME NEW t, NEW at, NEW sh, NEW si, NEW sa, NEW gi, NEW rc, Right(t, at, sh, sa, gi, rc),
           \A c \in 1..Len(sh) : si[c].opened = sh[c].opened,
           t.op \in {"sale", "distribute"} => {t.op, "close"} \in rc,
           t.op = "close" => t.shift \in 1..Len(sh)
    PROVE  Right(t, at, si, sa, gi, rc)
BY DEF Right

-----------------------------------------------------------------------------
\* What each kind of commit does to the books and to the other requests.

LEMMA Later ==
    ASSUME NEW sh, NEW sa, NEW re, NEW gi, NEW ck \in Nat, NEW dk \in Nat, ck <= dk,
           NEW rc, NEW rd, rc \subseteq rd, Books(sh, sa, re, gi, ck, rc), Len(sh) \in Nat
    PROVE  /\ Books(sh, sa, re, gi, dk, rd)
           /\ \A u, at : Busy(u, at, sh, sa, gi, ck, rc) => Busy(u, at, sh, sa, gi, dk, rd)
<1>1. Len(sa) \in Nat
  BY DEF Books
<1>2. gi \in Seq(0..dk)
  <2>1. gi \in Seq(0..ck) /\ 0..ck \subseteq 0..dk
    BY DEF Books
  <2> QED BY <2>1
<1>3. RowsRight(sh, sa, re, gi, rd)
  BY RowsRaced DEF Books
<1>4. ASSUME NEW u, NEW at, Busy(u, at, sh, sa, gi, ck, rc) PROVE Busy(u, at, sh, sa, gi, dk, rd)
  <2>1. ReadIn(u, at, Len(sh), Len(sa), dk)
    BY <1>1, <1>4, ReadLater DEF Busy
  <2>2. Right(u, at, sh, sa, gi, rd)
    BY <1>4, RightRaced DEF Busy
  <2> QED BY <2>1, <2>2 DEF Busy
<1> QED BY <1>2, <1>3, <1>4 DEF Books

LEMMA ShiftFigures ==
    ASSUME NEW r, ShiftRow(r)
    PROVE  /\ r.cash \in Nat /\ r.card \in Nat /\ r.refunds \in Nat /\ r.welfare \in Nat
           /\ r.opened \in Nat
           /\ r.status = "closed" => r.closed \in Nat
<1>1. [cash |-> r.cash, card |-> r.card, refunds |-> r.refunds, welfare |-> r.welfare] \in Totals
  BY DEF ShiftRow
<1> QED BY <1>1 DEF ShiftRow, Totals

LEMMA Sold ==
    ASSUME NEW sh, NEW sa, NEW re, NEW gi, NEW ck \in Nat, NEW rc, Len(sh) \in Nat,
           Books(sh, sa, re, gi, ck, rc), NEW row \in Sales(Len(sh)), row.status = "completed",
           {"sale", "close"} \in rc \/ sh[row.shift].status = "open", NEW v, More(v, sa, row)
    PROVE  /\ Books(sh, v, re, gi, ck, rc)
           /\ \A u, at : Busy(u, at, sh, sa, gi, ck, rc) /\ {"sale", u.op} \in rc =>
                            Busy(u, at, sh, v, gi, ck, rc)
<1> DEFINE n == Len(sh)
<1>1. sa \in Seq(Sales(n)) /\ Len(sa) \in Nat /\ re \in Seq(1..Len(sa))
  BY DEF Books
<1>2. /\ v \in Seq(Sales(n)) /\ Len(v) = Len(sa) + 1 /\ Grown(sa, v)
      /\ \A i \in 1..Len(sa) : v[i] = sa[i]
      /\ \A c, ms : c # row.shift => PaidIn(v, c, ms) = PaidIn(sa, c, ms)
      /\ \A c : RefundedIn(v, c) = RefundedIn(sa, c)
      /\ \A c : PaidBackIn(v, re, c) = PaidBackIn(sa, re, c)
  BY <1>1, SaleAdded
<1>3. \A c, ms : /\ PaidIn(sa, c, ms) \in Nat /\ PaidIn(v, c, ms) \in Nat
                 /\ PaidIn(sa, c, ms) <= PaidIn(v, c, ms)
  BY <1>1, <1>2, TotalsGrow
<1>4. ASSUME NEW c \in 1..Len(sh) PROVE RowRight(sh[c], c, v, gi, rc)
  <2> DEFINE r == sh[c]
  <2>1. RowRight(r, c, sa, gi, rc) /\ r.cash \in Nat /\ r.card \in Nat
    BY ShiftFigures DEF Books, RowsRight
  <2>2. r.status = "closed" =>
           \/ {"sale", "close"} \in rc \/ \A ms : PaidIn(v, c, ms) = PaidIn(sa, c, ms)
    BY <1>2
  <2>3. r.cash <= PaidIn(v, c, {"cash"}) /\ r.card <= PaidIn(v, c, {"card"})
    <3>1. r.cash <= PaidIn(sa, c, {"cash"}) /\ r.card <= PaidIn(sa, c, {"card"})
      BY <2>1 DEF RowRight
    <3> HIDE DEF r
    <3> QED BY <1>3, <2>1, <3>1
  <2>4. r.refunds <= RefundedIn(v, c)
    BY <1>2, <2>1 DEF RowRight
  <2> HIDE DEF r
  <2>5. RowRight(r, c, v, gi, rc)
    BY <2>1, <2>2, <2>3, <2>4 DEF RowRight
  <2> QED BY <2>5 DEF r
<1>5. RowsRight(sh, v, re, gi, rc)
  BY <1>2, <1>4 DEF Books, RowsRight
<1>6. re \in Seq(1..Len(v))
  <2> DEFINE S == 1..Len(sa)
             T == 1..Len(v)
  <2>1. S \subseteq T /\ re \in Seq(S)
    BY <1>1, <1>2
  <2> HIDE DEF S, T
  <2>2. re \in Seq(T)
    BY <2>1
  <2> QED BY <2>2 DEF T
<1>7. ASSUME NEW u, NEW at, Busy(u, at, sh, sa, gi, ck, rc), {"sale", u.op} \in rc
      PROVE  Busy(u, at, sh, v, gi, ck, rc)
  <2>1. ReadIn(u, at, n, Len(sa), ck) /\ Right(u, at, sh, sa, gi, rc)
    BY <1>7 DEF Busy
  <2>2. u.op = "refund" => v[u.sale].status = sa[u.sale].status
    BY <1>2, <2>1 DEF ReadIn
  <2>3. {"sale", u.op} = {u.op, "sale"}
    OBVIOUS
  <2>4. Right(u, at, sh, v, gi, rc)
    <3>1. u.op = "close" => {"sale", "close"} \in rc
      BY <1>7
    <3>2. u.op = "summary" => {"summary", "sale"} \in rc
      BY <1>7, <2>3
    <3> HIDE DEF n
    <3> QED BY <1>1, <1>2, <2>1, <2>2, <3>1, <3>2, RightGrown DEF n
  <2>5. ReadIn(u, at, n, Len(v), ck)
    BY <1>1, <1>2, <2>1, ReadLater
  <2> QED BY <2>4, <2>5 DEF Busy
<1> QED BY <1>2, <1>5, <1>6, <1>7 DEF Books

LEMMA GivenBack ==
    ASSUME NEW sh, NEW sa, NEW re, NEW gi, NEW ck \in Nat, NEW rc, Len(sh) \in Nat,
           Books(sh, sa, re, gi, ck, rc), NEW k \in 1..Len(sa),
           {"refund", "refund"} \in rc \/ sa[k].status = "completed",
           NEW v, SaleBack(v, sa, k), NEW q, More(q, re, k)
    PROVE  /\ Books(sh, v, q, gi, ck, rc)
           /\ \A u, at : Busy(u, at, sh, sa, gi, ck, rc) /\ {"refund", u.op} \in rc =>
                            Busy(u, at, sh, v, gi, ck, rc)
<1> DEFINE n == Len(sh)
<1>1. sa \in Seq(Sales(n)) /\ Len(sa) \in Nat /\ re \in Seq(1..Len(sa))
  BY DEF Books
<1>2. v \in Seq(Sales(n)) /\ Len(v) = Len(sa) /\ Grown(sa, v)
  BY <1>1, SaleRefundedRow
<1>3. \A c, ms : PaidIn(v, c, ms) = PaidIn(sa, c, ms)
  BY <1>1, SaleRefunded
<1>4. \A c : /\ RefundedIn(sa, c) \in Nat /\ RefundedIn(v, c) \in Nat
             /\ RefundedIn(sa, c) <= RefundedIn(v, c)
  BY <1>1, <1>2, TotalsGrow
<1>5. ASSUME NEW c \in 1..Len(sh) PROVE RowRight(sh[c], c, v, gi, rc)
  <2> DEFINE r == sh[c]
  <2>1. RowRight(r, c, sa, gi, rc) /\ r.refunds \in Nat
    BY ShiftFigures DEF Books, RowsRight
  <2> HIDE DEF r
  <2>2. r.refunds <= RefundedIn(v, c)
    <3>1. r.refunds <= RefundedIn(sa, c)
      BY <2>1 DEF RowRight
    <3> QED BY <1>4, <2>1, <3>1
  <2>3. RowRight(r, c, v, gi, rc)
    BY <1>3, <2>1, <2>2 DEF RowRight
  <2> QED BY <2>3 DEF r
<1>6. ASSUME {"refund", "refund"} \notin rc, NEW c PROVE RefundedIn(v, c) = PaidBackIn(v, q, c)
  <2>1. RefundedIn(v, c) = RefundedIn(sa, c) + (IF c = sa[k].shift THEN sa[k].amount ELSE 0)
    BY <1>1, <1>6, SaleRefunded
  <2>2. PaidBackIn(v, q, c) = PaidBackIn(sa, re, c) + (IF c = sa[k].shift THEN sa[k].amount ELSE 0)
    BY <1>1, PaidBackMore
  <2>3. RefundedIn(sa, c) = PaidBackIn(sa, re, c)
    BY <1>6 DEF Books, RowsRight
  <2> QED BY <2>1, <2>2, <2>3
<1>7. RowsRight(sh, v, q, gi, rc)
  BY <1>5, <1>6 DEF RowsRight
<1>8. q \in Seq(1..Len(v))
  BY <1>1, <1>2 DEF More
<1>9. ASSUME NEW u, NEW at, Busy(u, at, sh, sa, gi, ck, rc), {"refund", u.op} \in rc
      PROVE  Busy(u, at, sh, v, gi, ck, rc)
  <2>1. ReadIn(u, at, n, Len(sa), ck) /\ Right(u, at, sh, sa, gi, rc)
    BY <1>9 DEF Busy
  <2>2. u.op = "refund" => {"refund", "refund"} \in rc
    BY <1>9
  <2>3. u.op = "summary" => {"summary", "refund"} \in rc
    <3>1. {"refund", u.op} = {u.op, "refund"}
      OBVIOUS
    <3> QED BY <1>9, <3>1
  <2>4. Right(u, at, sh, v, gi, rc)
    <3> HIDE DEF n
    <3> QED BY <1>1, <1>2, <1>3, <2>1, <2>2, <2>3, RightGrown DEF n
  <2> QED BY <1>2, <2>1, <2>4 DEF Busy
<1> QED BY <1>2, <1>7, <1>8, <1>9 DEF Books

LEMMA Distributed ==
    ASSUME NEW sh, NEW sa, NEW re, NEW gi, NEW ck \in Nat, NEW rc, Len(sh) \in Nat,
           Books(sh, sa, re, gi, ck, rc), NEW x \in 0..ck,
           \/ {"distribute", "close"} \in rc
           \/ \A c \in 1..Len(sh) : sh[c].status = "closed" => sh[c].closed < x,
           NEW h, More(h, gi, x)
    PROVE  /\ Books(sh, sa, re, h, ck, rc)
           /\ \A u, at : Busy(u, at, sh, sa, gi, ck, rc) /\ {"distribute", u.op} \in rc =>
                            Busy(u, at, sh, sa, h, ck, rc)
<1>1. gi \in Seq(0..ck)
  BY DEF Books
<1>2. h \in Seq(0..ck)
  BY <1>1 DEF More
<1>3. \A from, to : ~(x <= to) => Between(h, from, to) = Between(gi, from, to)
  BY <1>1, GivenLater
<1>4. ASSUME NEW c \in 1..Len(sh) PROVE RowRight(sh[c], c, sa, h, rc)
  <2> DEFINE r == sh[c]
  <2>1. RowRight(r, c, sa, gi, rc) /\ (r.status = "closed" => r.closed \in Nat)
    BY ShiftFigures DEF Books, RowsRight
  <2>2. r.status = "closed" => \/ {"distribute", "close"} \in rc
                               \/ r.closed < x
    OBVIOUS
  <2> HIDE DEF r
  <2>3. r.status = "closed" => \/ {"distribute", "close"} \in rc
                               \/ Between(h, r.opened, r.closed) = Between(gi, r.opened, r.closed)
    <3>1. x \in Nat
      OBVIOUS
    <3>2. r.closed \in Nat /\ r.closed < x => ~(x <= r.closed)
      BY <3>1
    <3> QED BY <1>3, <2>1, <2>2, <3>2
  <2>4. RowRight(r, c, sa, h, rc)
    BY <2>1, <2>3 DEF RowRight
  <2> QED BY <2>4 DEF r
<1>5. RowsRight(sh, sa, re, h, rc)
  BY <1>4 DEF Books, RowsRight
<1>6. ASSUME NEW u, NEW at, Busy(u, at, sh, sa, gi, ck, rc), {"distribute", u.op} \in rc
      PROVE  Busy(u, at, sh, sa, h, ck, rc)
  BY <1>6, RightGiven DEF Busy
<1> QED BY <1>2, <1>5, <1>6 DEF Books

LEMMA Opened ==
    ASSUME NEW sh, NEW sa, NEW re, NEW gi, NEW ck \in Nat, NEW rc, Sequence(sh),
           Books(sh, sa, re, gi, ck, rc), NEW row, ShiftRow(row), row.status = "open",
           row.cash = 0, row.card = 0, row.refunds = 0, row.welfare = 0,
           NEW si, More(si, sh, row)
    PROVE  /\ Books(si, sa, re, gi, ck, rc)
           /\ \A u, at : Busy(u, at, sh, sa, gi, ck, rc) => Busy(u, at, si, sa, gi, ck, rc)
<1> DEFINE n == Len(sh)
           m == Len(si)
<1>1. /\ Len(sh) \in Nat /\ Len(si) = Len(sh) + 1 /\ si[Len(si)] = row
      /\ \A c \in 1..Len(sh) : si[c] = sh[c]
  BY OneMore
<1>2. \A c \in 1..Len(si) : c \in 1..Len(sh) \/ c = Len(si)
  BY <1>1
<1>3. sa \in Seq(Sales(n)) /\ Len(sa) \in Nat
  BY DEF Books
<1>4. sa \in Seq(Sales(m))
  <2>1. 1..n \subseteq 1..m
    BY <1>1
  <2>2. Sales(n) \subseteq Sales(m)
    <3> HIDE DEF n, m
    <3> QED BY <2>1 DEF Sales
  <2> HIDE DEF n, m
  <2> QED BY <1>3, <2>2
<1>5. \A c \in 1..Len(si) : ShiftRow(si[c])
  BY <1>1, <1>2 DEF Books
<1>6. ASSUME NEW c \in 1..Len(si) PROVE RowRight(si[c], c, sa, gi, rc)
  <2>1. CASE c \in 1..Len(sh)
    BY <1>1, <2>1 DEF Books, RowsRight
  <2>2. CASE c = Len(si)
    <3>1. Grown(sa, sa)
      BY <1>3 DEF Grown
    <3>2. /\ PaidIn(sa, c, {"cash"}) \in Nat /\ PaidIn(sa, c, {"card"}) \in Nat
          /\ RefundedIn(sa, c) \in Nat
      <4> HIDE DEF n
      <4> QED BY <1>3, <3>1, TotalsGrow
    <3>3. RowRight(row, c, sa, gi, rc)
      BY <3>2 DEF RowRight
    <3> QED BY <1>1, <2>2, <3>3
  <2> QED BY <1>2, <2>1, <2>2
<1>7. RowsRight(si, sa, re, gi, rc)
  BY <1>6 DEF Books, RowsRight
<1>8. ASSUME NEW u, NEW at, Busy(u, at, sh, sa, gi, ck, rc) PROVE Busy(u, at, si, sa, gi, ck, rc)
  <2>1. ReadIn(u, at, n, Len(sa), ck) /\ Right(u, at, sh, sa, gi, rc)
    BY <1>8 DEF Busy
  <2>2. ReadIn(u, at, m, Len(sa), ck)
    BY <1>1, <1>3, <2>1, ReadLater
  <2>3. u.op \in {"sale", "close"} => u.shift \in 1..Len(sh)
    BY <2>1 DEF ReadIn
  <2>4. Right(u, at, si, sa, gi, rc)
    <3>1. si[Len(si)].status = "open"
      BY <1>1
    <3> QED BY <1>1, <2>1, <2>3, <3>1, RightOpened
  <2> QED BY <2>2, <2>4 DEF Busy
<1> QED BY <1>4, <1>5, <1>7, <1>8 DEF Books

\* The row a close writes over the row r.
Closing(row, r, t) ==
    /\ row.status = "closed" /\ row.opened = r.opened /\ row.closed = t.closed
    /\ row.cash = Unless0(t.cash, r.cash) /\ row.card = Unless0(t.card, r.card)
    /\ row.refunds = Unless0(t.refunds, r.refunds) /\ row.welfare = Unless0(t.welfare, r.welfare)
    /\ row.expected = t.cash - t.refunds

LEMMA RowChanged ==
    ASSUME NEW p, Sequence(p), NEW x, NEW j \in 1..Len(p), NEW z, Changed(z, p, j, x)
    PROVE  Len(z) = Len(p) /\ z[j] = x /\ \A c \in 1..Len(p) : c # j => z[c] = p[c]
<1>1. DOMAIN p = 1..Len(p)
  BY DEF Sequence
<1>2. Len(z) = Len(p)
  BY OneChanged
<1> QED BY <1>1, <1>2 DEF Changed

LEMMA ClosedShift ==
    ASSUME NEW sh, NEW sa, NEW re, NEW gi, NEW ck \in Nat, NEW rc, Sequence(sh),
           Books(sh, sa, re, gi, ck, rc), NEW t, Busy(t, "commit", sh, sa, gi, ck, rc),
           t.op = "close", {"close", "close"} \in rc \/ sh[t.shift].status = "open",
           NEW row, Closing(row, sh[t.shift], t), NEW si, Changed(si, sh, t.shift, row)
    PROVE  /\ Books(si, sa, re, gi, ck, rc)
           /\ \A u, at : Busy(u, at, sh, sa, gi, ck, rc) /\ {"close", u.op} \in rc =>
                            Busy(u, at, si, sa, gi, ck, rc)
<1> DEFINE k == t.shift
           r == sh[k]
<1>1. k \in 1..Len(sh)
  BY DEF Busy, ReadIn
<1> HIDE DEF k, r
<1>2. Len(si) = Len(sh) /\ si[k] = row /\ \A c \in 1..Len(sh) : c # k => si[c] = sh[c]
  <2>1. Changed(si, sh, k, row)
    BY DEF k
  <2> QED BY <1>1, <2>1, RowChanged
<1>3. /\ t.cash \in Nat /\ t.card \in Nat /\ t.refunds \in Nat /\ t.welfare \in Nat
      /\ t.closed \in 0..ck
  BY DEF Busy, ReadIn
<1>4. /\ t.cash <= PaidIn(sa, k, {"cash"}) /\ t.card <= PaidIn(sa, k, {"card"})
      /\ \/ {"sale", "close"} \in rc
         \/ t.cash = PaidIn(sa, k, {"cash"}) /\ t.card = PaidIn(sa, k, {"card"})
      /\ t.refunds <= RefundedIn(sa, k)
      /\ \/ {"distribute", "close"} \in rc
         \/ t.welfare = Cardinality(Between(gi, r.opened, t.closed))
  BY DEF Busy, Right, k, r
<1>5. ShiftRow(r) /\ RowRight(r, k, sa, gi, rc)
  BY <1>1 DEF Books, RowsRight, r
<1>6. Closing(row, r, t) /\ ({"close", "close"} \in rc \/ r.status = "open")
  BY DEF k, r
<1>7. r.cash \in Nat /\ r.card \in Nat /\ r.refunds \in Nat /\ r.welfare \in Nat /\ r.opened \in Nat
  BY <1>5, ShiftFigures
<1>8. ShiftRow(row)
  <2>1. row.cash \in Nat /\ row.card \in Nat /\ row.refunds \in Nat /\ row.welfare \in Nat
    BY <1>3, <1>6, <1>7 DEF Closing, Unless0
  <2>2. row.opened \in Nat /\ row.status = "closed" /\ row.closed \in Nat /\ row.expected \in Int
    BY <1>3, <1>6, <1>7 DEF Closing
  <2> QED BY <2>1, <2>2 DEF ShiftRow, Totals
<1>9. RowRight(row, k, sa, gi, rc)
  <2>1. /\ r.cash <= PaidIn(sa, k, {"cash"}) /\ r.card <= PaidIn(sa, k, {"card"})
        /\ r.refunds <= RefundedIn(sa, k)
    BY <1>5 DEF RowRight
  <2>2. /\ row.cash <= PaidIn(sa, k, {"cash"}) /\ row.card <= PaidIn(sa, k, {"card"})
        /\ row.refunds <= RefundedIn(sa, k)
    BY <1>4, <1>6, <2>1 DEF Closing, Unless0
  <2>3. {"close", "close"} \in rc \/
           /\ row.cash = t.cash /\ row.card = t.card /\ row.refunds = t.refunds
           /\ row.welfare = t.welfare
    BY <1>5, <1>6 DEF Closing, Unless0, RowRight
  <2>4. row.status = "closed" /\ row.opened = r.opened /\ row.closed = t.closed
        /\ row.expected = t.cash - t.refunds
    BY <1>6 DEF Closing
  <2> QED BY <1>4, <2>2, <2>3, <2>4 DEF RowRight
<1>10. \A c \in 1..Len(si) : ShiftRow(si[c]) /\ RowRight(si[c], c, sa, gi, rc)
  BY <1>2, <1>8, <1>9 DEF Books, RowsRight
<1>11. Books(si, sa, re, gi, ck, rc)
  BY <1>2, <1>10 DEF Books, RowsRight
<1>12. ASSUME NEW u, NEW at, Busy(u, at, sh, sa, gi, ck, rc), {"close", u.op} \in rc
       PROVE  Busy(u, at, si, sa, gi, ck, rc)
  <2>1. ReadIn(u, at, Len(sh), Len(sa), ck) /\ Right(u, at, sh, sa, gi, rc)
    BY <1>12 DEF Busy
  <2>2. {"close", u.op} = {u.op, "close"}
    OBVIOUS
  <2>3. \A c \in 1..Len(sh) : si[c].opened = sh[c].opened
    BY <1>2, <1>6 DEF Closing, r
  <2>4. u.op = "close" => u.shift \in 1..Len(sh)
    BY <2>1 DEF ReadIn
  <2>5. Right(u, at, si, sa, gi, rc)
    <3>1. {u.op, "close"} \in rc
      BY <1>12, <2>2
    <3> QED BY <2>1, <2>3, <2>4, <3>1, RightClosed
  <2> QED BY <1>2, <2>1, <2>5 DEF Busy
<1> QED BY <1>11, <1>12

-----------------------------------------------------------------------------
\* The figures through the steps of the handlers.

\* The request of s has met all the others.
MetOthers(s) ==
    pc'[s] # "idle" =>
        \A q \in Session \ {s} : pc[q] # "idle" => {task'[s].op, task[q].op} \in raced'

LEMMA FiguresInit == Init => FiguresInv
<1> SUFFICES ASSUME Init PROVE FiguresInv
  OBVIOUS
<1>1. /\ shifts = << >> /\ sales = << >> /\ refunds = << >> /\ given = << >> /\ begun = 0
      /\ pc = [s \in Session |-> "idle"] /\ task = [s \in Session |-> Nil]
      /\ pending = [q \in Coded |-> Nil]
  BY DEF Init
<1>2. Len(shifts) = 0 /\ Len(sales) = 0 /\ Len(refunds) = 0
  BY <1>1
<1>3. ASSUME NEW c PROVE RefundedIn(sales, c) = PaidBackIn(sales, refunds, c)
  <2>1. {i \in OfShift(sales, c) : sales[i].status = "refunded"} = {}
    BY <1>2 DEF OfShift
  <2>2. {i \in 1..Len(refunds) : sales[refunds[i]].shift = c} = {}
    BY <1>2
  <2> QED BY <2>1, <2>2, SumEmpty DEF RefundedIn, AmountsIn, PaidBackIn
<1>4. Books(shifts, sales, refunds, given, clock, raced)
  <2>1. /\ sales \in Seq(Sales(Len(shifts))) /\ refunds \in Seq(1..Len(sales))
        /\ given \in Seq(0..clock)
    BY <1>1
  <2> QED BY <1>2, <1>3, <2>1 DEF Books, RowsRight
<1> QED BY <1>1, <1>4, WindowInit DEF FiguresInv, MetRight

LEMMA MetKept ==
    ASSUME MetRight, NEW s \in Session, Others(s), raced \subseteq raced', MetOthers(s)
    PROVE  MetRight'
<1> SUFFICES ASSUME NEW q \in Session, NEW r \in Session, q # r, pc'[q] # "idle", pc'[r] # "idle"
             PROVE  {task'[q].op, task'[r].op} \in raced'
  BY DEF MetRight
<1>1. CASE q = s
  BY <1>1 DEF MetOthers, Others
<1>2. CASE r = s
  <2>1. {task'[s].op, task'[q].op} \in raced'
    BY <1>2 DEF MetOthers, Others
  <2>2. {task'[s].op, task'[q].op} = {task'[q].op, task'[s].op}
    OBVIOUS
  <2> QED BY <1>2, <2>1, <2>2
<1>3. CASE q # s /\ r # s
  <2>1. {task[q].op, task[r].op} \in raced
    BY <1>3 DEF MetRight, Others
  <2> QED BY <1>3, <2>1 DEF Others
<1> QED BY <1>1, <1>2, <1>3

\* A step that commits nothing.
LEMMA FiguresStand ==
    ASSUME FiguresInv, WindowInv', NEW s \in Session, Others(s), raced \subseteq raced',
           MetOthers(s), UNCHANGED rows, clock' \in {clock, clock + 1}, begun' \in Nat,
           pending' \in [Coded -> Session \cup {Nil}],
           IF pc'[s] = "idle" THEN task'[s] = Nil
           ELSE Busy(task'[s], pc'[s], shifts, sales, given, clock', raced')
    PROVE  FiguresInv'
<1>1. clock \in Nat /\ clock' \in Nat /\ clock <= clock' /\ Len(shifts) \in Nat
  <2>1. Sequence(shifts)
    BY DEF FiguresInv, WindowInv, ShiftInv
  <2> QED BY <2>1 DEF FiguresInv, WindowInv, Sequence
<1>2. shifts' = shifts /\ sales' = sales /\ refunds' = refunds /\ given' = given
  BY DEF rows
<1>3. /\ Books(shifts, sales, refunds, given, clock', raced')
      /\ \A u, at : Busy(u, at, shifts, sales, given, clock, raced) =>
                       Busy(u, at, shifts, sales, given, clock', raced')
  BY <1>1, Later DEF FiguresInv
<1>4. ASSUME NEW r \in Session
      PROVE  IF pc'[r] = "idle" THEN task'[r] = Nil
             ELSE Busy(task'[r], pc'[r], shifts', sales', given', clock', raced')
  <2>1. CASE r = s
    BY <1>2, <2>1
  <2>2. CASE r # s
    <3>1. pc'[r] = pc[r] /\ task'[r] = task[r]
      BY <2>2 DEF Others
    <3>2. IF pc[r] = "idle" THEN task[r] = Nil
          ELSE Busy(task[r], pc[r], shifts, sales, given, clock, raced)
      BY DEF FiguresInv
    <3> QED BY <1>2, <1>3, <3>1, <3>2
  <2> QED BY <2>1, <2>2
<1>5. MetRight'
  BY MetKept DEF FiguresInv
<1>6. Books(shifts, sales, refunds, given, clock, raced)'
  BY <1>2, <1>3
<1> QED BY <1>4, <1>5, <1>6 DEF FiguresInv

\* A commit of the request of s.
LEMMA FiguresCommitted ==
    ASSUME FiguresInv, WindowInv', NEW s \in Session, pc[s] # "idle", Release(s),
           clock' = clock, begun' = begun,
           Books(shifts', sales', refunds', given', clock, raced),
           \A u, at : Busy(u, at, shifts, sales, given, clock, raced)
                         /\ {task[s].op, u.op} \in raced =>
                            Busy(u, at, shifts', sales', given', clock, raced)
    PROVE  FiguresInv'
<1>1. /\ pc' = [pc EXCEPT ![s] = "idle"] /\ task' = [task EXCEPT ![s] = Nil] /\ raced' = raced
      /\ pending' = [q \in Coded |-> IF pending[q] = s THEN Nil ELSE pending[q]]
  BY DEF Release
<1>2. pc'[s] = "idle" /\ task'[s] = Nil /\ Others(s)
  BY <1>1 DEF FiguresInv, WindowInv, ShiftInv, Others
<1>3. ASSUME NEW r \in Session
      PROVE  IF pc'[r] = "idle" THEN task'[r] = Nil
             ELSE Busy(task'[r], pc'[r], shifts', sales', given', clock', raced')
  <2>1. CASE r = s
    BY <1>2, <2>1
  <2>2. CASE r # s
    <3>1. pc'[r] = pc[r] /\ task'[r] = task[r]
      BY <1>2, <2>2 DEF Others
    <3>2. IF pc[r] = "idle" THEN task[r] = Nil
          ELSE Busy(task[r], pc[r], shifts, sales, given, clock, raced)
      BY DEF FiguresInv
    <3>3. pc[r] # "idle" => {task[s].op, task[r].op} \in raced
      BY <2>2 DEF FiguresInv, MetRight
    <3> QED BY <1>1, <3>1, <3>2, <3>3
  <2> QED BY <2>1, <2>2
<1>4. MetRight'
  BY <1>1, <1>2, MetKept DEF FiguresInv, MetOthers
<1>5. pending' \in [Coded -> Session \cup {Nil}]
  BY <1>1 DEF FiguresInv
<1>6. begun' \in Nat /\ Books(shifts, sales, refunds, given, clock, raced)'
  BY <1>1 DEF FiguresInv
<1> QED BY <1>3, <1>4, <1>5, <1>6 DEF FiguresInv

\* What is known of the request that commits.
LEMMA Committing ==
    ASSUME FiguresInv, NEW s \in Session, pc[s] = "commit"
    PROVE  /\ Busy(task[s], "commit", shifts, sales, given, clock, raced)
           /\ Books(shifts, sales, refunds, given, clock, raced)
           /\ Sequence(shifts) /\ Len(shifts) \in Nat /\ clock \in Nat
           /\ sales \in Seq(Sales(Len(shifts))) /\ Len(sales) \in Nat
<1>1. Busy(task[s], pc[s], shifts, sales, given, clock, raced)
  BY DEF FiguresInv
<1>2. Sequence(shifts) /\ clock \in Nat
  BY DEF FiguresInv, WindowInv, ShiftInv
<1>3. Len(shifts) \in Nat
  BY <1>2 DEF Sequence
<1>4. Books(shifts, sales, refunds, given, clock, raced)
  BY DEF FiguresInv
<1>5. sales \in Seq(Sales(Len(shifts)))
  BY <1>4 DEF Books
<1>6. Len(sales) \in Nat
  BY <1>5
<1> QED BY <1>1, <1>2, <1>3, <1>4, <1>5, <1>6

LEMMA CommitSaleFigures ==
    ASSUME FiguresInv, WindowInv', NEW s \in Session, CommitSale(s)
    PROVE  FiguresInv'
<1> DEFINE t == task[s]
           row == [shift |-> t.shift, status |-> "completed",
                   method |-> t.payment.method, amount |-> t.payment.amount]
<1>1. /\ pc[s] = "commit" /\ t.op = "sale" /\ Release(s) /\ clock' = clock /\ begun' = begun
      /\ shifts' = shifts /\ refunds' = refunds /\ given' = given /\ More(sales', sales, row)
  BY DEF CommitSale, More
<1>2. /\ Busy(t, "commit", shifts, sales, given, clock, raced)
      /\ Books(shifts, sales, refunds, given, clock, raced)
      /\ Len(shifts) \in Nat /\ clock \in Nat
  BY <1>1, Committing
<1>3. /\ t.shift \in 1..Len(shifts) /\ t.payment \in Payments
      /\ {"sale", "close"} \in raced \/ shifts[t.shift].status = "open"
  BY <1>1, <1>2 DEF Busy, ReadIn, Right
<1>4. row \in Sales(Len(shifts)) /\ row.status = "completed" /\ row.shift = t.shift
  <2>1. t.payment.method \in {"cash", "card"} /\ t.payment.amount \in Nat
    BY <1>3, PaymentsAssumption
  <2> QED BY <1>3, <2>1 DEF Sales
<1> HIDE DEF row
<1>5. /\ Books(shifts, sales', refunds, given, clock, raced)
      /\ \A u, at : Busy(u, at, shifts, sales, given, clock, raced) /\ {"sale", u.op} \in raced =>
                       Busy(u, at, shifts, sales', given, clock, raced)
  BY <1>1, <1>2, <1>3, <1>4, Sold
<1> QED BY <1>1, <1>5, FiguresCommitted

LEMMA CommitRefundFigures ==
    ASSUME FiguresInv, WindowInv', NEW s \in Session, CommitRefund(s)
    PROVE  FiguresInv'
<1> DEFINE t == task[s]
           k == t.sale
<1>1. /\ pc[s] = "commit" /\ t.op = "refund" /\ Release(s) /\ clock' = clock /\ begun' = begun
      /\ shifts' = shifts /\ given' = given /\ More(refunds', refunds, k)
      /\ SaleBack(sales', sales, k)
  BY DEF CommitRefund, More, SaleBack
<1>2. /\ Busy(t, "commit", shifts, sales, given, clock, raced)
      /\ Books(shifts, sales, refunds, given, clock, raced)
      /\ Len(shifts) \in Nat /\ clock \in Nat
  BY <1>1, Committing
<1>3. /\ k \in 1..Len(sales)
      /\ {"refund", "refund"} \in raced \/ sales[k].status = "completed"
  BY <1>1, <1>2 DEF Busy, ReadIn, Right
<1> HIDE DEF k
<1>4. /\ Books(shifts, sales', refunds', given, clock, raced)
      /\ \A u, at : Busy(u, at, shifts, sales, given, clock, raced) /\ {"refund", u.op} \in raced =>
                       Busy(u, at, shifts, sales', given, clock, raced)
  BY <1>1, <1>2, <1>3, GivenBack
<1> QED BY <1>1, <1>4, FiguresCommitted

LEMMA CommitDistributionFigures ==
    ASSUME FiguresInv, WindowInv', NEW s \in Session, CommitDistribution(s)
    PROVE  FiguresInv'
<1> DEFINE t == task[s]
           x == t.created
<1>1. /\ pc[s] = "commit" /\ t.op = "distribute" /\ Release(s) /\ clock' = clock
      /\ begun' = begun /\ shifts' = shifts /\ sales' = sales /\ refunds' = refunds
      /\ More(given', given, x)
  BY DEF CommitDistribution, More
<1>2. /\ Busy(t, "commit", shifts, sales, given, clock, raced)
      /\ Books(shifts, sales, refunds, given, clock, raced)
      /\ Len(shifts) \in Nat /\ clock \in Nat
  BY <1>1, Committing
<1>3. /\ x \in 0..clock
      /\ \/ {"distribute", "close"} \in raced
         \/ \A c \in 1..Len(shifts) : shifts[c].status = "closed" => shifts[c].closed < x
  BY <1>1, <1>2 DEF Busy, ReadIn, Right
<1> HIDE DEF x
<1>4. /\ Books(shifts, sales, refunds, given', clock, raced)
      /\ \A u, at : Busy(u, at, shifts, sales, given, clock, raced)
                       /\ {"distribute", u.op} \in raced =>
                          Busy(u, at, shifts, sales, given', clock, raced)
  BY <1>1, <1>2, <1>3, Distributed
<1> QED BY <1>1, <1>4, FiguresCommitted

LEMMA CommitOpenFigures ==
    ASSUME FiguresInv, WindowInv', NEW s \in Session, CommitOpen(s)
    PROVE  FiguresInv'
<1> DEFINE t == task[s]
           row == [status |-> "open", opened |-> t.opened,
                   closed |-> Nil, cash |-> 0, card |-> 0,
                   refunds |-> 0, welfare |-> 0, expected |-> Nil]
<1>1. /\ pc[s] = "commit" /\ t.op = "open" /\ Release(s) /\ clock' = clock /\ begun' = begun
      /\ sales' = sales /\ refunds' = refunds /\ given' = given /\ More(shifts', shifts, row)
  BY DEF CommitOpen, More
<1>2. /\ Busy(t, "commit", shifts, sales, given, clock, raced)
      /\ Books(shifts, sales, refunds, given, clock, raced)
      /\ Sequence(shifts) /\ clock \in Nat
  BY <1>1, Committing
<1>3. t.opened \in Nat
  BY <1>1, <1>2 DEF Busy, ReadIn
<1>4. /\ ShiftRow(row) /\ row.status = "open"
      /\ row.cash = 0 /\ row.card = 0 /\ row.refunds = 0 /\ row.welfare = 0
  BY <1>3 DEF ShiftRow, Totals
<1> HIDE DEF row
<1>5. /\ Books(shifts', sales, refunds, given, clock, raced)
      /\ \A u, at : Busy(u, at, shifts, sales, given, clock, raced) =>
                       Busy(u, at, shifts', sales, given, clock, raced)
  BY <1>1, <1>2, <1>4, Opened
<1> QED BY <1>1, <1>5, FiguresCommitted

LEMMA CommitCloseFigures ==
    ASSUME FiguresInv, WindowInv', NEW s \in Session, CommitClose(s)
    PROVE  FiguresInv'
<1> DEFINE t == task[s]
           row == ClosedRow(t)
<1>1. /\ pc[s] = "commit" /\ t.op = "close" /\ Release(s) /\ clock' = clock /\ begun' = begun
      /\ sales' = sales /\ refunds' = refunds /\ given' = given
      /\ Changed(shifts', shifts, t.shift, row)
  BY DEF CommitClose, Changed
<1>2. /\ Busy(t, "commit", shifts, sales, given, clock, raced)
      /\ Books(shifts, sales, refunds, given, clock, raced)
      /\ Sequence(shifts) /\ clock \in Nat
  BY <1>1, Committing
<1>3. {"close", "close"} \in raced \/ shifts[t.shift].status = "open"
  <2>1. Raced("close", "close") \/ ClosesApart
    BY DEF FiguresInv, WindowInv, ShiftInv
  <2> QED BY <1>1, <2>1 DEF Raced, ClosesApart, Serving
<1>4. Closing(row, shifts[t.shift], t)
  BY DEF ClosedRow, Closing
<1> HIDE DEF row, t
<1>5. /\ Books(shifts', sales, refunds, given, clock, raced)
      /\ \A u, at : Busy(u, at, shifts, sales, given, clock, raced) /\ {"close", u.op} \in raced =>
                       Busy(u, at, shifts', sales, given, clock, raced)
  BY <1>1, <1>2, <1>3, <1>4, ClosedShift
<1> QED BY <1>1, <1>5, FiguresCommitted DEF t

LEMMA BegunMore ==
    ASSUME FiguresInv, NEW s \in Session, NEW t, NEW to, Arrive(s, t, to)
    PROVE  begun' \in Nat
BY DEF FiguresInv, Arrive

LEMMA FiguresArrived ==
    ASSUME FiguresInv, WindowInv', NEW s \in Session, NEW t, NEW to, Arrive(s, t, to),
           to \in {"insert", "commit", "payments", "summary refunds"},
           t.op \in {"open", "sale", "distribute", "refund", "close", "summary"},
           to = "insert" => t.op \in {"open", "sale", "distribute"},
           to = "payments" => t.op = "close",
           to = "summary refunds" => t.op = "summary",
           UNCHANGED <<rows, pending>>, clock' \in {clock, clock + 1},
           ReadIn(t, to, Len(shifts), Len(sales), clock'),
           Right(t, to, shifts, sales, given, raced)
    PROVE  FiguresInv'
<1>1. /\ Others(s) /\ raced \subseteq raced' /\ pc'[s] = to /\ task'[s] = t
      /\ \A q \in Session : pc[q] # "idle" => {t.op, task[q].op} \in raced'
  BY ArriveWell DEF FiguresInv, WindowInv
<1>2. Busy(t, to, shifts, sales, given, clock', raced')
  BY <1>1, RightRaced DEF Busy
<1>3. begun' \in Nat
  BY BegunMore
<1>5. pending' \in [Coded -> Session \cup {Nil}]
  BY DEF FiguresInv
<1>4. MetOthers(s)
  BY <1>1 DEF MetOthers
<1> QED BY <1>1, <1>2, <1>3, <1>4, <1>5, FiguresStand

LEMMA FiguresStepped ==
    ASSUME FiguresInv, WindowInv', NEW s \in Session, NEW t, NEW from, NEW to,
           Step(s, from, to, t), from # "idle", t.op = task[s].op,
           to \in {"commit", "refunds", "welfare", "summary methods", "answer"},
           to \in {"refunds", "welfare"} => t.op = "close",
           to \in {"summary methods", "answer"} => t.op = "summary",
           UNCHANGED <<rows, begun>>, clock' \in {clock, clock + 1},
           pending' \in [Coded -> Session \cup {Nil}],
           ReadIn(t, to, Len(shifts), Len(sales), clock'),
           Right(t, to, shifts, sales, given, raced)
    PROVE  FiguresInv'
<1>1. /\ Others(s) /\ raced' = raced /\ pc[s] = from /\ pc'[s] = to /\ task'[s] = t
  BY StepWell DEF FiguresInv, WindowInv
<1>2. Busy(t, to, shifts, sales, given, clock', raced')
  BY <1>1 DEF Busy
<1>3. begun' \in Nat
  BY DEF FiguresInv
<1>4. MetOthers(s)
  <2>1. \A q \in Session \ {s} : pc[q] # "idle" => {task[s].op, task[q].op} \in raced
    BY <1>1 DEF FiguresInv, MetRight
  <2> QED BY <1>1, <2>1 DEF MetOthers
<1> QED BY <1>1, <1>2, <1>3, <1>4, FiguresStand

LEMMA FiguresDropped ==
    ASSUME FiguresInv, WindowInv', NEW s \in Session, Rollback(s)
    PROVE  FiguresInv'
<1>1. /\ pc' = [pc EXCEPT ![s] = "idle"] /\ task' = [task EXCEPT ![s] = Nil] /\ raced' = raced
      /\ pending' = [q \in Coded |-> IF pending[q] = s THEN Nil ELSE pending[q]]
      /\ UNCHANGED <<rows, clock, begun>>
  BY DEF Release, Rollback
<1>2. pc'[s] = "idle" /\ task'[s] = Nil /\ Others(s)
  BY <1>1 DEF FiguresInv, WindowInv, ShiftInv, Others
<1>3. pending' \in [Coded -> Session \cup {Nil}] /\ begun' \in Nat
  BY <1>1 DEF FiguresInv
<1>4. MetOthers(s)
  BY <1>2 DEF MetOthers
<1> QED BY <1>1, <1>2, <1>3, <1>4, FiguresStand

\* The requests that arrive.
LEMMA ArriveOpenFigures ==
    ASSUME FiguresInv, WindowInv', NEW s \in Session, ArriveOpen(s)
    PROVE  FiguresInv'
<1> DEFINE t == [op |-> "open", opened |-> clock + 1]
<1>1. /\ Arrive(s, t, "insert") /\ clock' = clock + 1 /\ UNCHANGED <<rows, pending>>
      /\ t.op = "open" /\ t.opened = clock + 1
  BY DEF ArriveOpen
<1> HIDE DEF t
<1>2. ReadIn(t, "insert", Len(shifts), Len(sales), clock')
  <2>1. clock \in Nat
    BY DEF FiguresInv, WindowInv
  <2> QED BY <1>1, <2>1 DEF ReadIn
<1>3. Right(t, "insert", shifts, sales, given, raced)
  BY <1>1 DEF Right
<1> QED BY <1>1, <1>2, <1>3, FiguresArrived

LEMMA ArriveSaleFigures ==
    ASSUME FiguresInv, WindowInv', NEW s \in Session, NEW p \in Payments, ArriveSale(s, p)
    PROVE  FiguresInv'
<1>1. PICK c \in 1..Len(shifts) :
         /\ OpenShifts = {c}
         /\ Arrive(s, [op |-> "sale", shift |-> c, payment |-> p], "insert")
  BY DEF ArriveSale
<1> DEFINE t == [op |-> "sale", shift |-> c, payment |-> p]
<1>2. /\ Arrive(s, t, "insert") /\ clock' = clock /\ UNCHANGED <<rows, pending>>
      /\ t.op = "sale" /\ t.shift = c /\ t.payment = p
  BY <1>1 DEF ArriveSale
<1> HIDE DEF t
<1>3. ReadIn(t, "insert", Len(shifts), Len(sales), clock')
  BY <1>2 DEF ReadIn
<1>4. Right(t, "insert", shifts, sales, given, raced)
  <2>1. shifts[c].status = "open"
    BY <1>1 DEF OpenShifts
  <2> QED BY <1>2, <2>1 DEF Right
<1> QED BY <1>2, <1>3, <1>4, FiguresArrived

LEMMA ArriveDistributionFigures ==
    ASSUME FiguresInv, WindowInv', NEW s \in Session, ArriveDistribution(s)
    PROVE  FiguresInv'
<1> DEFINE t == [op |-> "distribute", created |-> clock]
<1>1. /\ Arrive(s, t, "insert") /\ clock' = clock /\ UNCHANGED <<rows, pending>>
      /\ t.op = "distribute" /\ t.created = clock
  BY DEF ArriveDistribution
<1> HIDE DEF t
<1>2. ReadIn(t, "insert", Len(shifts), Len(sales), clock')
  <2>1. clock \in Nat
    BY DEF FiguresInv, WindowInv
  <2> QED BY <1>1, <2>1 DEF ReadIn
<1>3. Right(t, "insert", shifts, sales, given, raced)
  <2>1. \A c \in 1..Len(shifts) : shifts[c].status = "closed" => shifts[c].closed < clock
    BY DEF FiguresInv, WindowInv
  <2> QED BY <1>1, <2>1 DEF Right
<1> QED BY <1>1, <1>2, <1>3, FiguresArrived

LEMMA ArriveRefundFigures ==
    ASSUME FiguresInv, WindowInv', NEW s \in Session, NEW i \in 1..Len(sales), ArriveRefund(s, i)
    PROVE  FiguresInv'
<1> DEFINE t == [op |-> "refund", sale |-> i]
<1>1. /\ Arrive(s, t, "commit") /\ clock' = clock /\ UNCHANGED <<rows, pending>>
      /\ t.op = "refund" /\ t.sale = i /\ sales[i].status = "completed"
  BY DEF ArriveRefund
<1> HIDE DEF t
<1>2. ReadIn(t, "commit", Len(shifts), Len(sales), clock')
  BY <1>1 DEF ReadIn
<1>3. Right(t, "commit", shifts, sales, given, raced)
  BY <1>1 DEF Right
<1> QED BY <1>1, <1>2, <1>3, FiguresArrived

LEMMA ArriveCloseFigures ==
    ASSUME FiguresInv, WindowInv', NEW s \in Session, NEW c \in 1..Len(shifts), ArriveClose(s, c)
    PROVE  FiguresInv'
<1> DEFINE t == [op |-> "close", shift |-> c]
<1>1. /\ Arrive(s, t, "payments") /\ clock' = clock /\ UNCHANGED <<rows, pending>>
      /\ t.op = "close" /\ t.shift = c
  BY DEF ArriveClose
<1> HIDE DEF t
<1>2. ReadIn(t, "payments", Len(shifts), Len(sales), clock')
  BY <1>1 DEF ReadIn
<1>3. Right(t, "payments", shifts, sales, given, raced)
  BY <1>1 DEF Right
<1> QED BY <1>1, <1>2, <1>3, FiguresArrived

\* The sums of sales by status.
LEMMA StatusSums ==
    ASSUME FiguresInv
    PROVE  /\ Amounts(1..Len(sales)) = StatusIn(sales, "completed") + StatusIn(sales, "refunded")
           /\ Amounts(1..Len(sales)) \in Nat
           /\ StatusIn(sales, "completed") \in Nat /\ StatusIn(sales, "refunded") \in Nat
           /\ \A st : InStatus(st) = StatusIn(sales, st)
<1>1. sales \in Seq(Sales(Len(shifts)))
  BY DEF FiguresInv, Books
<1>2. Amounts(1..Len(sales)) = AmountsIn(sales, 1..Len(sales))
  BY DEF Amounts, AmountsIn
<1>3. \A st : InStatus(st) = StatusIn(sales, st)
  BY DEF InStatus, StatusIn, Amounts, AmountsIn
<1>4. \A is \in SUBSET (1..Len(sales)) : AmountsIn(sales, is) \in Nat
  BY <1>1, AmountsNat
<1>5. ASSUME NEW st PROVE StatusIn(sales, st) \in Nat
  <2>1. {i \in 1..Len(sales) : sales[i].status = st} \in SUBSET (1..Len(sales))
    OBVIOUS
  <2> QED BY <1>4, <2>1 DEF StatusIn
<1>6. AmountsIn(sales, 1..Len(sales)) = StatusIn(sales, "completed") + StatusIn(sales, "refunded")
  BY <1>1, AmountsSplit
<1>7. Amounts(1..Len(sales)) \in Nat
  BY <1>2, <1>4
<1> QED BY <1>2, <1>3, <1>5, <1>6, <1>7

LEMMA ArriveSummaryFigures ==
    ASSUME FiguresInv, WindowInv', NEW s \in Session, ArriveSummary(s)
    PROVE  FiguresInv'
<1> DEFINE t == [op |-> "summary", gross |-> Amounts(1..Len(sales)),
                 total |-> InStatus("completed")]
<1>1. /\ Arrive(s, t, "summary refunds") /\ clock' = clock /\ UNCHANGED <<rows, pending>>
      /\ t.op = "summary" /\ t.gross = Amounts(1..Len(sales)) /\ t.total = InStatus("completed")
  BY DEF ArriveSummary
<1> HIDE DEF t
<1>2. /\ t.gross \in Nat /\ t.total \in Nat /\ StatusIn(sales, "refunded") \in Nat
      /\ t.gross = t.total + StatusIn(sales, "refunded")
      /\ t.total = StatusIn(sales, "completed")
  BY <1>1, StatusSums
<1>3. ReadIn(t, "summary refunds", Len(shifts), Len(sales), clock')
  BY <1>1, <1>2 DEF ReadIn
<1>4. SummaryRight(t, "summary refunds", sales, raced)
  <2>1. t.gross <= t.total + StatusIn(sales, "refunded")
    BY <1>2
  <2> QED BY <1>2, <2>1 DEF SummaryRight
<1>5. Right(t, "summary refunds", shifts, sales, given, raced)
  BY <1>1, <1>4 DEF Right
<1> QED BY <1>1, <1>3, <1>5, FiguresArrived

\* The round trips of the handlers.
LEMMA Stepping ==
    ASSUME FiguresInv, NEW s \in Session, NEW from, pc[s] = from, from # "idle"
    PROVE  /\ ReadIn(task[s], from, Len(shifts), Len(sales), clock)
           /\ Right(task[s], from, shifts, sales, given, raced)
           /\ task[s].op \in {"open", "sale", "distribute", "refund", "close", "summary"}
           /\ from = "insert" => task[s].op \in {"open", "sale", "distribute"}
           /\ from \in {"payments", "refunds", "welfare"} => task[s].op = "close"
           /\ from \in {"summary refunds", "summary methods", "answer"} => task[s].op = "summary"
<1>1. Busy(task[s], pc[s], shifts, sales, given, clock, raced)
  BY DEF FiguresInv
<1>2. Doing(s)
  BY DEF FiguresInv, WindowInv, ShiftInv
<1> QED BY <1>1, <1>2 DEF Busy, Doing

LEMMA InsertPendingFigures ==
    ASSUME FiguresInv, WindowInv', NEW s \in Session, InsertPending(s)
    PROVE  FiguresInv'
<1> DEFINE t == task[s]
<1>1. /\ Step(s, "insert", "commit", t) /\ pc[s] = "insert" /\ UNCHANGED <<rows, begun>>
      /\ clock' = clock /\ pending' = [pending EXCEPT ![t.op] = s]
  BY DEF InsertPending, Step
<1>2. /\ ReadIn(t, "insert", Len(shifts), Len(sales), clock)
      /\ Right(t, "insert", shifts, sales, given, raced)
      /\ t.op \in {"open", "sale", "distribute"}
  BY <1>1, Stepping
<1>3. pending' \in [Coded -> Session \cup {Nil}]
  BY <1>1 DEF FiguresInv
<1>4. ReadIn(t, "commit", Len(shifts), Len(sales), clock')
  BY <1>1, <1>2 DEF ReadIn
<1>5. Right(t, "commit", shifts, sales, given, raced)
  BY <1>2 DEF Right
<1> QED BY <1>1, <1>2, <1>3, <1>4, <1>5, FiguresStepped

LEMMA SumPaymentsFigures ==
    ASSUME FiguresInv, WindowInv', NEW s \in Session, SumPayments(s)
    PROVE  FiguresInv'
<1> DEFINE c == task[s].shift
           t == [op |-> "close", shift |-> c, cash |-> Paid(c, {"cash"}),
                 card |-> Paid(c, {"card"})]
<1>1. /\ Step(s, "payments", "refunds", t) /\ pc[s] = "payments"
      /\ UNCHANGED <<rows, begun>> /\ clock' = clock /\ pending' = pending
      /\ t.op = "close" /\ t.shift = c
      /\ t.cash = Paid(c, {"cash"}) /\ t.card = Paid(c, {"card"})
  BY DEF SumPayments, Step
<1> HIDE DEF t
<1>2. /\ ReadIn(task[s], "payments", Len(shifts), Len(sales), clock) /\ task[s].op = "close"
  BY <1>1, Stepping
<1>3. t.cash = PaidIn(sales, c, {"cash"}) /\ t.card = PaidIn(sales, c, {"card"})
  BY <1>1 DEF Paid, PaidIn, Amounts, AmountsIn, SalesOf, OfShift
<1>4. t.cash \in Nat /\ t.card \in Nat
  <2>1. sales \in Seq(Sales(Len(shifts)))
    BY DEF FiguresInv, Books
  <2>2. Grown(sales, sales)
    <3>1. Len(sales) \in Nat
      BY <2>1
    <3> QED BY <3>1 DEF Grown
  <2> QED BY <1>3, <2>1, <2>2, TotalsGrow
<1>5. ReadIn(t, "refunds", Len(shifts), Len(sales), clock')
  BY <1>1, <1>2, <1>4 DEF ReadIn
<1>6. Right(t, "refunds", shifts, sales, given, raced)
  BY <1>1, <1>3, <1>4 DEF Right
<1>7. pending' \in [Coded -> Session \cup {Nil}]
  BY <1>1 DEF FiguresInv
<1> QED BY <1>1, <1>2, <1>5, <1>6, <1>7, FiguresStepped

LEMMA SumRefundsFigures ==
    ASSUME FiguresInv, WindowInv', NEW s \in Session, SumRefunds(s)
    PROVE  FiguresInv'
<1> DEFINE o == task[s]
           t == [op |-> "close", shift |-> o.shift, cash |-> o.cash,
                 card |-> o.card, refunds |-> Refunded(o.shift), closed |-> clock]
<1>1. /\ Step(s, "refunds", "welfare", t) /\ pc[s] = "refunds"
      /\ UNCHANGED <<rows, begun>> /\ clock' = clock + 1 /\ pending' = pending
      /\ t.op = "close" /\ t.shift = o.shift /\ t.cash = o.cash /\ t.card = o.card
      /\ t.refunds = Refunded(o.shift) /\ t.closed = clock
  BY DEF SumRefunds, Step
<1> HIDE DEF t
<1>2. /\ ReadIn(o, "refunds", Len(shifts), Len(sales), clock) /\ o.op = "close"
      /\ Right(o, "refunds", shifts, sales, given, raced)
  BY <1>1, Stepping
<1>3. t.refunds = RefundedIn(sales, o.shift)
  BY <1>1 DEF Refunded, RefundedIn, Amounts, AmountsIn, SalesOf, OfShift
<1>4. t.refunds \in Nat
  <2>1. sales \in Seq(Sales(Len(shifts)))
    BY DEF FiguresInv, Books
  <2>2. Grown(sales, sales)
    <3>1. Len(sales) \in Nat
      BY <2>1
    <3> QED BY <3>1 DEF Grown
  <2> QED BY <1>3, <2>1, <2>2, TotalsGrow
<1>5. clock \in Nat /\ clock \in 0..clock'
  BY <1>1 DEF FiguresInv, WindowInv
<1>6. ReadIn(t, "welfare", Len(shifts), Len(sales), clock')
  BY <1>1, <1>2, <1>4, <1>5 DEF ReadIn
<1>7. Right(t, "welfare", shifts, sales, given, raced)
  BY <1>1, <1>2, <1>3, <1>4 DEF Right
<1>8. pending' \in [Coded -> Session \cup {Nil}]
  BY <1>1 DEF FiguresInv
<1> QED BY <1>1, <1>2, <1>6, <1>7, <1>8, FiguresStepped

LEMMA SumWelfareFigures ==
    ASSUME FiguresInv, WindowInv', NEW s \in Session, SumWelfare(s)
    PROVE  FiguresInv'
<1> DEFINE o == task[s]
           n == Cardinality(GivenIn(shifts[o.shift].opened, o.closed))
           t == WithWelfare(o, n)
<1>1. /\ Step(s, "welfare", "commit", t) /\ pc[s] = "welfare"
      /\ UNCHANGED <<rows, begun>> /\ clock' = clock /\ pending' = pending
  BY DEF SumWelfare, Step
<1>2. /\ t.op = "close" /\ t.shift = o.shift /\ t.cash = o.cash /\ t.card = o.card
      /\ t.refunds = o.refunds /\ t.closed = o.closed /\ t.welfare = n
  BY DEF WithWelfare
<1>3. n \in Nat /\ n = Cardinality(Between(given, shifts[o.shift].opened, o.closed))
  <2> DEFINE B == Between(given, shifts[o.shift].opened, o.closed)
  <2>1. n = Cardinality(B)
    BY DEF GivenIn, Between
  <2>2. Len(given) \in Nat
    <3>1. given \in Seq(0..clock)
      BY DEF FiguresInv, Books
    <3> QED BY <3>1
  <2>3. IsFiniteSet(1..Len(given))
    BY <2>2, FS_Interval
  <2>4. B \subseteq 1..Len(given)
    BY DEF Between
  <2> HIDE DEF B, n
  <2>5. IsFiniteSet(B)
    BY <2>3, <2>4, FS_Subset
  <2>6. Cardinality(B) \in Nat
    BY <2>5, FS_CardinalityType
  <2> QED BY <2>1, <2>6 DEF B
<1> HIDE DEF t, n
<1>4. /\ ReadIn(o, "welfare", Len(shifts), Len(sales), clock) /\ o.op = "close"
      /\ Right(o, "welfare", shifts, sales, given, raced)
  BY <1>1, Stepping
<1>5. ReadIn(t, "commit", Len(shifts), Len(sales), clock')
  BY <1>1, <1>2, <1>3, <1>4 DEF ReadIn
<1>6. Right(t, "commit", shifts, sales, given, raced)
  BY <1>2, <1>3, <1>4 DEF Right
<1>7. pending' \in [Coded -> Session \cup {Nil}]
  BY <1>1 DEF FiguresInv
<1> QED BY <1>1, <1>2, <1>4, <1>5, <1>6, <1>7, FiguresStepped

LEMMA SummaryRefundsFigures ==
    ASSUME FiguresInv, WindowInv', NEW s \in Session, SummaryRefunds(s)
    PROVE  FiguresInv'
<1> DEFINE o == task[s]
           t == [op |-> "summary", gross |-> o.gross, total |-> o.total,
                 refunds |-> InStatus("refunded")]
<1>1. /\ Step(s, "summary refunds", "summary methods", t) /\ pc[s] = "summary refunds"
      /\ UNCHANGED <<rows, begun>> /\ clock' = clock /\ pending' = pending
      /\ t.op = "summary" /\ t.gross = o.gross /\ t.total = o.total
      /\ t.refunds = InStatus("refunded")
  BY DEF SummaryRefunds, Step
<1> HIDE DEF t
<1>2. /\ ReadIn(o, "summary refunds", Len(shifts), Len(sales), clock) /\ o.op = "summary"
      /\ Right(o, "summary refunds", shifts, sales, given, raced)
  BY <1>1, Stepping
<1>3. t.refunds = StatusIn(sales, "refunded") /\ t.refunds \in Nat
  BY <1>1, StatusSums
<1>4. ReadIn(t, "summary methods", Len(shifts), Len(sales), clock')
  BY <1>1, <1>2, <1>3 DEF ReadIn
<1>5. SummaryRight(t, "summary methods", sales, raced)
  <2>1. SummaryRight(o, "summary refunds", sales, raced)
    BY <1>2 DEF Right
  <2> QED BY <1>1, <1>3, <2>1 DEF SummaryRight
<1>6. Right(t, "summary methods", shifts, sales, given, raced)
  BY <1>1, <1>5 DEF Right
<1>7. pending' \in [Coded -> Session \cup {Nil}]
  BY <1>1 DEF FiguresInv
<1> QED BY <1>1, <1>2, <1>4, <1>6, <1>7, FiguresStepped

LEMMA SummaryMethodsFigures ==
    ASSUME FiguresInv, WindowInv', NEW s \in Session, SummaryMethods(s)
    PROVE  FiguresInv'
<1> DEFINE o == task[s]
           t == [op |-> "summary", gross |-> o.gross, total |-> o.total,
                 refunds |-> o.refunds, methods |-> InStatus("completed")]
<1>1. /\ Step(s, "summary methods", "answer", t) /\ pc[s] = "summary methods"
      /\ UNCHANGED <<rows, begun>> /\ clock' = clock /\ pending' = pending
      /\ t.op = "summary" /\ t.gross = o.gross /\ t.total = o.total
      /\ t.refunds = o.refunds /\ t.methods = InStatus("completed")
  BY DEF SummaryMethods, Step
<1> HIDE DEF t
<1>2. /\ ReadIn(o, "summary methods", Len(shifts), Len(sales), clock) /\ o.op = "summary"
      /\ Right(o, "summary methods", shifts, sales, given, raced)
  BY <1>1, Stepping
<1>3. t.methods = StatusIn(sales, "completed") /\ t.methods \in Nat
  BY <1>1, StatusSums
<1>4. ReadIn(t, "answer", Len(shifts), Len(sales), clock')
  BY <1>1, <1>2, <1>3 DEF ReadIn
<1>5. SummaryRight(t, "answer", sales, raced)
  <2>1. SummaryRight(o, "summary methods", sales, raced)
    BY <1>2 DEF Right
  <2> QED BY <1>1, <1>3, <2>1 DEF SummaryRight
<1>6. Right(t, "answer", shifts, sales, given, raced)
  BY <1>1, <1>5 DEF Right
<1>7. pending' \in [Coded -> Session \cup {Nil}]
  BY <1>1 DEF FiguresInv
<1> QED BY <1>1, <1>2, <1>4, <1>6, <1>7, FiguresStepped

LEMMA FiguresStep == FiguresInv /\ [Next]_vars => FiguresInv'
<1> SUFFICES ASSUME FiguresInv, [Next]_vars PROVE FiguresInv'
  OBVIOUS
<1>1. WindowInv'
  BY WindowStep DEF FiguresInv
<1>2. CASE UNCHANGED vars
  <2>1. /\ shifts' = shifts /\ sales' = sales /\ refunds' = refunds /\ given' = given
        /\ clock' = clock /\ pending' = pending /\ pc' = pc /\ task' = task
        /\ begun' = begun /\ raced' = raced
    BY <1>2 DEF vars, rows
  <2> QED BY <1>1, <2>1 DEF FiguresInv, MetRight
<1>3. ASSUME NEW s \in Session, NEW p \in Payments, ArriveSale(s, p) PROVE FiguresInv'
  BY <1>1, <1>3, ArriveSaleFigures
<1>4. ASSUME NEW s \in Session, NEW i \in 1..Len(sales), ArriveRefund(s, i) PROVE FiguresInv'
  BY <1>1, <1>4, ArriveRefundFigures
<1>5. ASSUME NEW s \in Session, NEW c \in 1..Len(shifts), ArriveClose(s, c) PROVE FiguresInv'
  BY <1>1, <1>5, ArriveCloseFigures
<1>6. ASSUME NEW s \in Session, ArriveOpen(s) \/ ArriveDistribution(s) \/ ArriveSummary(s)
      PROVE  FiguresInv'
  BY <1>1, <1>6, ArriveOpenFigures, ArriveDistributionFigures, ArriveSummaryFigures
<1>7. ASSUME NEW s \in Session, InsertPending(s) \/ SummaryRefunds(s) \/ SummaryMethods(s)
      PROVE  FiguresInv'
  BY <1>1, <1>7, InsertPendingFigures, SummaryRefundsFigures, SummaryMethodsFigures
<1>8. ASSUME NEW s \in Session, SumPayments(s) \/ SumRefunds(s) \/ SumWelfare(s)
      PROVE  FiguresInv'
  BY <1>1, <1>8, SumPaymentsFigures, SumRefundsFigures, SumWelfareFigures
<1>9. ASSUME NEW s \in Session, AnswerSummary(s) \/ Refuse(s) \/ Disconnect(s)
      PROVE  FiguresInv'
  BY <1>1, <1>9, FiguresDropped DEF AnswerSummary, Refuse, Disconnect
<1>10. ASSUME NEW s \in Session, CommitOpen(s) \/ CommitClose(s) \/ CommitSale(s)
       PROVE  FiguresInv'
  BY <1>1, <1>10, CommitOpenFigures, CommitCloseFigures, CommitSaleFigures
<1>11. ASSUME NEW s \in Session, CommitDistribution(s) \/ CommitRefund(s)
       PROVE  FiguresInv'
  BY <1>1, <1>11, CommitDistributionFigures, CommitRefundFigures
<1> QED BY <1>2, <1>3, <1>4, <1>5, <1>6, <1>7, <1>8, <1>9, <1>10, <1>11 DEF Next, Progress

-----------------------------------------------------------------------------
\* What the figures say of the state.
LEMMA FiguresTypes == FiguresInv => TypeOK
<1> SUFFICES ASSUME FiguresInv PROVE TypeOK
  OBVIOUS
<1>1. /\ \A c \in 1..Len(shifts) : ShiftRow(shifts[c])
      /\ sales \in Seq([shift : 1..Len(shifts), status : {"completed", "refunded"},
                        method : {"cash", "card"}, amount : Nat])
      /\ refunds \in Seq(1..Len(sales)) /\ given \in Seq(0..clock)
  BY DEF FiguresInv, Books, Sales
<1>2. ASSUME NEW s \in Session
      PROVE  IF pc[s] = "idle" THEN task[s] = Nil ELSE Doing(s) /\ Reading(s)
  <2>1. CASE pc[s] = "idle"
    BY <2>1 DEF FiguresInv
  <2>2. CASE pc[s] # "idle"
    <3>1. Doing(s)
      BY <2>2 DEF FiguresInv, WindowInv, ShiftInv
    <3>2. Busy(task[s], pc[s], shifts, sales, given, clock, raced)
      BY <2>2 DEF FiguresInv
    <3>3. Reading(s)
      BY <3>2 DEF Busy, ReadIn, Reading
    <3> QED BY <2>2, <3>1, <3>3
  <2> QED BY <2>1, <2>2
<1>3. clock \in Nat /\ begun \in Nat /\ pending \in [Coded -> Session \cup {Nil}]
  BY DEF FiguresInv, WindowInv
<1>4. pc \in [Session -> {"idle", "insert", "payments", "refunds", "welfare", "commit",
                          "summary refunds", "summary methods", "answer"}]
  BY DEF FiguresInv, WindowInv, ShiftInv
<1> QED BY <1>1, <1>2, <1>3, <1>4 DEF TypeOK

\* The sums of the model are those of its tables.
LEMMA SumsOfState ==
    /\ \A c, ms : Paid(c, ms) = PaidIn(sales, c, ms)
    /\ \A c : Refunded(c) = RefundedIn(sales, c) /\ PaidBack(c) = PaidBackIn(sales, refunds, c)
    /\ \A from, to : GivenIn(from, to) = Between(given, from, to)
<1>1. \A c, ms : Paid(c, ms) = PaidIn(sales, c, ms)
  BY DEF Paid, PaidIn, Amounts, AmountsIn, SalesOf, OfShift
<1>2. \A c : Refunded(c) = RefundedIn(sales, c)
  BY DEF Refunded, RefundedIn, Amounts, AmountsIn, SalesOf, OfShift
<1>3. \A c : PaidBack(c) = PaidBackIn(sales, refunds, c)
  BY DEF PaidBack, PaidBackIn
<1>4. \A from, to : GivenIn(from, to) = Between(given, from, to)
  BY DEF GivenIn, Between
<1> QED BY <1>1, <1>2, <1>3, <1>4

LEMMA ClosedRowRight ==
    ASSUME FiguresInv, NEW c \in Closed
    PROVE  c \in 1..Len(shifts) /\ shifts[c].status = "closed"
           /\ RowRight(shifts[c], c, sales, given, raced)
<1>1. c \in 1..Len(shifts) /\ shifts[c].status # "open"
  BY DEF Closed, OpenShifts
<1>2. ShiftRow(shifts[c]) /\ RowRight(shifts[c], c, sales, given, raced)
  BY <1>1 DEF FiguresInv, Books, RowsRight
<1> QED BY <1>1, <1>2 DEF ShiftRow

\* sale_service.py:168-197: for any number of cashier requests and any payments, the
\* totals a close freezes never run ahead of the payments and refunds of the shift's
\* sales, however sales, refunds and other closes race its three SELECTs.
THEOREM TotalsLagBehind == Spec => []TotalsInv
<1>1. FiguresInv => TotalsInv
  <2> SUFFICES ASSUME FiguresInv PROVE TotalsInv
    OBVIOUS
  <2>1. TotalsNeverAhead
    BY ClosedRowRight, SumsOfState DEF TotalsNeverAhead, RowRight
  <2> QED BY <2>1, FiguresTypes DEF TotalsInv
<1> QED BY <1>1, FiguresInit, FiguresStep, PTL DEF Spec

\* models/pos.py:9 "closing a shift can reconcile exactly what that cashier rang up":
\* for any number of cashier requests and any payments, it does unless a sale, a
\* distribution or another close was in flight at once with a close, and the refunded
\* sales are those of the Refund rows unless two refunds were.
THEOREM ShiftsReconcile == Spec => []ShiftReconciles
<1>1. FiguresInv => ShiftReconciles
  <2> SUFFICES ASSUME FiguresInv PROVE ShiftReconciles
    OBVIOUS
  <2>1. ASSUME NEW c \in 1..Len(shifts)
        PROVE  Raced("refund", "refund") \/ Refunded(c) = PaidBack(c)
    BY SumsOfState DEF FiguresInv, Books, RowsRight, Raced
  <2>2. ASSUME NEW c \in Closed, ~Raced("close", "close")
        PROVE  /\ \/ Raced("sale", "close")
                  \/ /\ shifts[c].cash = Paid(c, {"cash"})
                     /\ shifts[c].card = Paid(c, {"card"})
               /\ \/ Raced("distribute", "close")
                  \/ shifts[c].welfare = Cardinality(GivenIn(shifts[c].opened, shifts[c].closed))
               /\ shifts[c].expected = shifts[c].cash - shifts[c].refunds
    BY <2>2, ClosedRowRight, SumsOfState DEF RowRight, Raced
  <2> QED BY <2>1, <2>2 DEF ShiftReconciles
<1> QED BY <1>1, FiguresInit, FiguresStep, PTL DEF Spec

\* finance_reports.py:50-62: for any number of requests, the three SELECTs of a sales
\* summary lose no sale, and agree unless a sale or a refund was in flight at once.
THEOREM NoSaleLost == Spec => []SummaryCoversEverySale
<1>1. FiguresInv => SummaryCoversEverySale
  <2> SUFFICES ASSUME FiguresInv, NEW s \in Session, pc[s] = "answer"
               PROVE  /\ task[s].total + task[s].refunds >= task[s].gross
                      /\ \/ Raced("summary", "sale") \/ Raced("summary", "refund")
                         \/ /\ task[s].total + task[s].refunds = task[s].gross
                            /\ task[s].methods = task[s].total
    BY DEF SummaryCoversEverySale
  <2>1. /\ ReadIn(task[s], "answer", Len(shifts), Len(sales), clock) /\ task[s].op = "summary"
        /\ Right(task[s], "answer", shifts, sales, given, raced)
    BY Stepping
  <2>2. task[s].gross \in Nat /\ task[s].total \in Nat /\ task[s].refunds \in Nat
    BY <2>1 DEF ReadIn
  <2>3. SummaryRight(task[s], "answer", sales, raced)
    BY <2>1 DEF Right
  <2> QED BY <2>2, <2>3 DEF SummaryRight, Raced
<1> QED BY <1>1, FiguresInit, FiguresStep, PTL DEF Spec
=============================================================================
