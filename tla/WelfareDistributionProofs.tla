--------------------- MODULE WelfareDistributionProofs ----------------------
(***************************************************************************)
(* Proofs about WelfareDistribution, for every set of sessions, rules,     *)
(* allocations, baskets and bounds that its assumptions allow.             *)
(***************************************************************************)
EXTENDS WelfareDistribution, SumsAndSequences, TLAPS

\* The usage row of the j-th item a session serves.
RowAt(s, j) == ItemRow(Items(s)[j], day[s])

Distributing == {"rules", "plan", "insert", "deduct", "commit", "budget", "bump"}

\* Where a handler stands: at an item there is, in a period there is, and a void
\* with the items and the date of the transaction it found.
WorkAt(s) ==
    /\ idx[s] \in 1..Len(Items(s))
    /\ pc[s] # "rules" => day[s] \in Day
    /\ pc[s] \in Distributing => req[s].op = "distribute"
    /\ pc[s] \in {"restore", "flush"} => req[s].op = "void"
    /\ req[s].op = "void" => /\ req[s].id \in DOMAIN tx
                             /\ Items(s) = tx[req[s].id].items
                             /\ day[s] = tx[req[s].id].created
    /\ pc[s] \in {"rules", "insert"} => idx[s] = 1
    /\ pc[s] = "bump" => seen[s] \in Int

WorkOK == \A s \in Session : IF pc[s] = "idle" THEN idx[s] = 1 ELSE WorkAt(s)

\* A session holds only rows of its items, each with what it is going to publish.
Holding == {"plan", "create", "insert", "deduct", "commit", "restore", "flush"}

LockOK ==
    \A u \in Row, s \in Session : lock[u] = s =>
        /\ dirty[u] \in Int /\ pc[s] \in Holding
        /\ \E j \in DOMAIN Items(s) : u = RowAt(s, j)

\* A handler has loaded the rows of the items it has gone through.
LoadedAt(s) ==
    /\ pc[s] \in {"plan", "create", "restore"} =>
          \A j \in 1..idx[s] - 1 : obj[s][RowAt(s, j)] \in Int
    /\ pc[s] \in {"insert", "deduct", "flush"} =>
          \A j \in DOMAIN Items(s) : obj[s][RowAt(s, j)] \in Int

LoadedOK == \A s \in Session : LoadedAt(s)

StateInv == TypeOK /\ WorkOK /\ LockOK /\ LoadedOK

\* The most that a row may record: an unused row stands whatever was allocated.
Allowed(u) == IF Alloc[u[1]] < 0 THEN 0 ELSE Alloc[u[1]]

\* What is committed, what is about to be and what is loaded stays within what is
\* allocated.
BoundsOK ==
    \A u \in Row :
        /\ used[u] # Nil => used[u] <= Allowed(u)
        /\ lock[u] # Nil => dirty[u] <= Allowed(u)
        /\ \A s \in Session : obj[s][u] # Nil => obj[s][u] <= Allowed(u)

\* There is room for the j-th item in the object its session has loaded.
Fits(s, j) ==
    /\ obj[s][RowAt(s, j)] \in Int
    /\ obj[s][RowAt(s, j)] + Items(s)[j].qty <= Alloc[Items(s)[j].rule]

\* The items planned and not yet deducted fit.
PlanAt(s) ==
    /\ pc[s] = "plan" \/ (pc[s] = "create" /\ req[s].op = "distribute") =>
          \A j \in 1..idx[s] - 1 : Fits(s, j)
    /\ pc[s] = "insert" => \A j \in DOMAIN Items(s) : Fits(s, j)
    /\ pc[s] = "deduct" => \A j \in idx[s]..Len(Items(s)) : Fits(s, j)

PlanOK == \A s \in Session : PlanAt(s)

BoundInv == StateInv /\ BoundsOK /\ PlanOK

\* Baskets that name a commodity once.
Once == \A b \in Baskets : \A j, k \in DOMAIN b.items : b.items[j].rule = b.items[k].rule => j = k

-----------------------------------------------------------------------------

LEMMA BasketItems ==
    ASSUME NEW its \in {b.items : b \in Baskets}
    PROVE  its \in Seq(Item) /\ its # << >> /\ Len(its) \in Nat /\ Len(its) > 0
           /\ DOMAIN its = 1..Len(its)
BY BasketsAssumption

\* What a session at work holds.
LEMMA SessionItems ==
    ASSUME StateInv, NEW s \in Session, pc[s] # "idle"
    PROVE  /\ Items(s) \in Seq(Item) /\ Len(Items(s)) \in Nat /\ Len(Items(s)) > 0
           /\ DOMAIN Items(s) = 1..Len(Items(s))
           /\ idx[s] \in DOMAIN Items(s) /\ idx[s] \in Nat
<1>1. Items(s) \in {b.items : b \in Baskets}
  BY DEF StateInv, TypeOK, Items
<1>2. idx[s] \in 1..Len(Items(s))
  BY DEF StateInv, WorkOK, WorkAt
<1> QED BY <1>1, <1>2, BasketItems

\* What a column keeps of an amount is a number of hundredths.
LEMMA RoundedInt == ASSUME NEW x \in Int PROVE Rounded(x) \in Int
BY DEF Rounded

\* An allocation that is used up bounds the row; one that is not positive leaves it unused.
LEMMA AllowedOf ==
    ASSUME NEW u \in Row
    PROVE  /\ Allowed(u) \in Nat /\ Alloc[u[1]] \in Int /\ Alloc[u[1]] <= Allowed(u)
           /\ \A k \in Int : k <= Allowed(u) /\ k > 0 => k <= Alloc[u[1]]
BY RulesAssumption DEF Allowed, Row

LEMMA ItemRows ==
    ASSUME NEW i \in Item, NEW d \in Day
    PROVE  /\ ItemRow(i, d) \in Row /\ ItemRow(i, d)[1] = i.rule
           /\ i.rule \in Rule /\ i.qty \in Nat \ {0} /\ Alloc[i.rule] \in Int
BY RulesAssumption, BoundsAssumption DEF Item, ItemRow, Row, PeriodKey, Day

\* The row of each of its items, once it has a date.
LEMMA RowsAt ==
    ASSUME StateInv, NEW s \in Session, pc[s] \notin {"idle", "rules"},
           NEW j \in DOMAIN Items(s)
    PROVE  /\ RowAt(s, j) \in Row /\ RowAt(s, j)[1] = Items(s)[j].rule
           /\ Items(s)[j].qty \in Nat \ {0} /\ Alloc[Items(s)[j].rule] \in Int
           /\ Here(s) = RowAt(s, idx[s]) /\ Here(s) \in Row
<1>1. /\ Items(s)[j] \in Item /\ Items(s)[idx[s]] \in Item
  BY SessionItems
<1>2. day[s] \in Day
  BY DEF StateInv, WorkOK, WorkAt
<1> QED BY <1>1, <1>2, ItemRows DEF RowAt, Here

LEMMA StateInit == Init => StateInv
<1> SUFFICES ASSUME Init PROVE StateInv
  OBVIOUS
<1>1. TypeOK
  <2>1. used \in [Row -> Int \cup {Nil}] /\ tx \in Seq(TransactionRow)
    BY DEF Init
  <2>2. budget \in Nat /\ now \in Day /\ begun \in Nat
    BY BoundsAssumption DEF Init, Day
  <2>4. raced \in BOOLEAN
    BY DEF Init
  <2>3. obj \in [Session -> [Row -> Int \cup {Nil}]]
    BY DEF Init, NoObjects
  <2> QED BY <2>1, <2>2, <2>3, <2>4 DEF Init, TypeOK
<1>2. WorkOK /\ LoadedOK
  BY DEF Init, WorkOK, LoadedOK, LoadedAt
<1>3. LockOK
  BY NilAssumption DEF Init, LockOK
<1> QED BY <1>1, <1>2, <1>3 DEF StateInv

\* What a step leaves of the work of session r.
Same(r) ==
    /\ pc'[r] = pc[r] /\ req'[r] = req[r] /\ idx'[r] = idx[r]
    /\ day'[r] = day[r] /\ obj'[r] = obj[r] /\ seen'[r] = seen[r]

\* Transactions stay, with their items and dates.
TxKept ==
    \A i \in DOMAIN tx : i \in DOMAIN tx' /\ tx'[i].items = tx[i].items
                                          /\ tx'[i].created = tx[i].created

LEMMA SameRows ==
    ASSUME NEW r, NEW j, req'[r] = req[r], day'[r] = day[r]
    PROVE  RowAt(r, j)' = RowAt(r, j) /\ Items(r)' = Items(r)
BY DEF RowAt, Items

\* The work of the other sessions goes on, and the invariant is a matter of one.
LEMMA OneSession ==
    ASSUME StateInv, TxKept, NEW s \in Session,
           \A r \in Session \ {s} : Same(r),
           IF pc'[s] = "idle" THEN idx'[s] = 1 ELSE WorkAt(s)', LoadedAt(s)'
    PROVE  WorkOK' /\ LoadedOK'
<1> SUFFICES ASSUME NEW r \in Session \ {s}
             PROVE  /\ IF pc'[r] = "idle" THEN idx'[r] = 1 ELSE WorkAt(r)'
                    /\ LoadedAt(r)'
  BY DEF WorkOK, LoadedOK
<1>1. /\ Same(r) /\ (IF pc[r] = "idle" THEN idx[r] = 1 ELSE WorkAt(r)) /\ LoadedAt(r)
  BY DEF StateInv, WorkOK, LoadedOK
<1>2. IF pc'[r] = "idle" THEN idx'[r] = 1 ELSE WorkAt(r)'
  BY <1>1 DEF WorkAt, Same, TxKept, Items
<1>3. LoadedAt(r)'
  BY <1>1 DEF LoadedAt, Same, Items, RowAt
<1> QED BY <1>2, <1>3

\* Locks that nobody takes are held for the same rows.
LEMMA LocksKept ==
    ASSUME StateInv, UNCHANGED <<lock, dirty>>, NEW s \in Session,
           \A r \in Session \ {s} : Same(r),
           pc[s] \in Holding =>
               pc'[s] \in Holding /\ req'[s] = req[s] /\ day'[s] = day[s]
    PROVE  LockOK'
<1> SUFFICES ASSUME NEW u \in Row, NEW r \in Session, lock[u] = r
             PROVE  /\ dirty'[u] \in Int /\ pc'[r] \in Holding
                    /\ \E j \in DOMAIN Items(r)' : u = RowAt(r, j)'
  BY DEF LockOK
<1>1. /\ dirty[u] \in Int /\ pc[r] \in Holding
      /\ \E j \in DOMAIN Items(r) : u = RowAt(r, j)
  BY DEF StateInv, LockOK
<1>2. pc'[r] \in Holding /\ req'[r] = req[r] /\ day'[r] = day[r]
  BY <1>1 DEF Same
<1> QED BY <1>1, <1>2 DEF RowAt, Items

LEMMA ArriveDistributionState ==
    ASSUME StateInv, NEW s \in Session, NEW b \in Baskets, ArriveDistribution(s, b)
    PROVE  StateInv'
<1> DEFINE new == [op |-> "distribute", items |-> b.items, value |-> b.value,
                   created |-> now, id |-> 0]
<1>1. /\ pc[s] = "idle" /\ pc' = [pc EXCEPT ![s] = "rules"]
      /\ req' = [req EXCEPT ![s] = new] /\ begun' = begun + 1
      /\ UNCHANGED <<rows, now, lock, dirty, pending, idx, day, obj, seen>>
  BY DEF ArriveDistribution, Begin, Step
<1>7. DOMAIN pc = Session /\ DOMAIN req = Session
  BY DEF StateInv, TypeOK
<1>8. pc'[s] = "rules" /\ req'[s] = new
  BY <1>1, <1>7
<1>6. raced' \in BOOLEAN
  BY DEF ArriveDistribution, Begin
<1>2. TypeOK'
  BY <1>1, <1>6, BasketsAssumption DEF StateInv, TypeOK, rows
<1>3. \A r \in Session \ {s} : Same(r)
  BY <1>1 DEF Same, StateInv, TypeOK
<1>4. LockOK'
  BY <1>1, <1>3, LocksKept DEF Holding
<1>5. WorkAt(s)' /\ LoadedAt(s)'
  <2>1. idx'[s] = 1 /\ Len(b.items) \in Nat /\ Len(b.items) > 0
    BY <1>1, BasketsAssumption DEF StateInv, WorkOK
  <2> QED BY <1>8, <2>1 DEF WorkAt, LoadedAt, Items, Distributing
<1> QED BY <1>1, <1>2, <1>3, <1>4, <1>5, <1>8, OneSession DEF StateInv, TxKept, rows

LEMMA ArriveVoidState ==
    ASSUME StateInv, NEW s \in Session, NEW i \in 1..Len(tx), ArriveVoid(s, i)
    PROVE  StateInv'
<1> DEFINE new == [op |-> "void", items |-> tx[i].items, value |-> tx[i].value,
                   created |-> tx[i].created, id |-> i]
<1>1. /\ pc[s] = "idle" /\ pc' = [pc EXCEPT ![s] = "restore"]
      /\ req' = [req EXCEPT ![s] = new] /\ begun' = begun + 1
      /\ day' = [day EXCEPT ![s] = tx[i].created]
      /\ UNCHANGED <<rows, now, lock, dirty, pending, idx, obj, seen>>
  BY DEF ArriveVoid, ArriveVoidOn, Begin, Step
<1>9. DOMAIN pc = Session /\ DOMAIN req = Session /\ DOMAIN day = Session
  BY DEF StateInv, TypeOK
<1>10. pc'[s] = "restore" /\ req'[s] = new /\ day'[s] = tx[i].created
  BY <1>1, <1>9
<1>2. /\ tx[i] \in TransactionRow /\ i \in DOMAIN tx /\ i \in 0..Len(tx) /\ Len(tx) \in Nat
      /\ tx \in Seq(TransactionRow)
  BY DEF StateInv, TypeOK
<1>3. /\ tx[i].items \in {b.items : b \in Baskets} /\ tx[i].value \in Int
      /\ tx[i].created \in Day
  BY <1>2 DEF TransactionRow
<1>8. raced' \in BOOLEAN
  BY DEF ArriveVoid, ArriveVoidOn, Begin
<1>4. TypeOK'
  BY <1>1, <1>2, <1>3, <1>8 DEF StateInv, TypeOK, rows
<1>5. \A r \in Session \ {s} : Same(r)
  BY <1>1 DEF Same, StateInv, TypeOK
<1>6. LockOK'
  BY <1>1, <1>5, LocksKept DEF Holding
<1>7. WorkAt(s)' /\ LoadedAt(s)'
  <2>1. idx'[s] = 1 /\ Len(tx[i].items) \in Nat /\ Len(tx[i].items) > 0
    BY <1>1, <1>3, BasketItems DEF StateInv, WorkOK
  <2> QED BY <1>1, <1>2, <1>3, <1>10, <2>1 DEF WorkAt, LoadedAt, Items, Distributing, rows
<1> QED BY <1>1, <1>10, <1>4, <1>5, <1>6, <1>7, OneSession DEF StateInv, TxKept, rows

LEMMA ReadRulesState ==
    ASSUME StateInv, NEW s \in Session, ReadRules(s)
    PROVE  StateInv'
<1>1. /\ pc[s] = "rules" /\ pc' = [pc EXCEPT ![s] = "plan"] /\ day' = [day EXCEPT ![s] = now]
      /\ UNCHANGED <<rows, now, lock, dirty, pending, req, idx, obj, seen, begun, raced>>
      /\ pc'[s] = "plan" /\ day'[s] = now
  BY DEF ReadRules, Step, StateInv, TypeOK
<1>2. TypeOK'
  BY <1>1 DEF StateInv, TypeOK, rows
<1>3. \A r \in Session \ {s} : Same(r)
  BY <1>1 DEF Same, StateInv, TypeOK
<1>4. LockOK'
  BY <1>1, <1>3, LocksKept DEF Holding
<1>5. WorkAt(s)' /\ LoadedAt(s)'
  BY <1>1 DEF StateInv, TypeOK, WorkOK, WorkAt, LoadedAt, Items, Distributing, rows
<1> QED BY <1>1, <1>2, <1>3, <1>4, <1>5, OneSession DEF StateInv, TxKept, rows

-----------------------------------------------------------------------------

\* A transaction that ends leaves the locks of the others.
LEMMA Released ==
    ASSUME StateInv, NEW s \in Session, ReleaseLocks(s), \A r \in Session \ {s} : Same(r)
    PROVE  /\ LockOK'
           /\ lock' \in [Row -> Session \cup {Nil}] /\ dirty' \in [Row -> Int \cup {Nil}]
           /\ pending' \in Session \cup {Nil}
           /\ obj' \in [Session -> [Row -> Int \cup {Nil}]] /\ obj'[s] = NoObjects
<1>1. /\ lock \in [Row -> Session \cup {Nil}] /\ dirty \in [Row -> Int \cup {Nil}]
      /\ pending \in Session \cup {Nil} /\ obj \in [Session -> [Row -> Int \cup {Nil}]]
  BY DEF StateInv, TypeOK
<1>2. /\ lock' = [u \in Row |-> IF lock[u] = s THEN Nil ELSE lock[u]]
      /\ dirty' = [u \in Row |-> IF lock[u] = s THEN Nil ELSE dirty[u]]
      /\ pending' = IF pending = s THEN Nil ELSE pending
      /\ obj' = [obj EXCEPT ![s] = NoObjects]
  BY DEF ReleaseLocks
<1>3. LockOK'
  <2> SUFFICES ASSUME NEW u \in Row, NEW r \in Session, lock'[u] = r
               PROVE  /\ dirty'[u] \in Int /\ pc'[r] \in Holding
                      /\ \E j \in DOMAIN Items(r)' : u = RowAt(r, j)'
    BY DEF LockOK
  <2>1. lock[u] = r /\ r # s /\ dirty'[u] = dirty[u]
    BY <1>2, NilAssumption
  <2>2. /\ dirty[u] \in Int /\ pc[r] \in Holding
        /\ \E j \in DOMAIN Items(r) : u = RowAt(r, j)
    BY <2>1 DEF StateInv, LockOK
  <2>3. pc'[r] = pc[r] /\ req'[r] = req[r] /\ day'[r] = day[r]
    BY <2>1 DEF Same
  <2> QED BY <2>1, <2>2, <2>3 DEF RowAt, Items
<1>4. NoObjects \in [Row -> Int \cup {Nil}]
  BY DEF NoObjects
<1> QED BY <1>1, <1>2, <1>3, <1>4

\* Session s takes the row of its k-th item, to publish v there.
Takes(s, k, v) ==
    /\ lock' = [lock EXCEPT ![RowAt(s, k)] = s]
    /\ dirty' = [dirty EXCEPT ![RowAt(s, k)] = v]
    /\ req' = req /\ day' = day /\ pc'[s] \in Holding

LEMMA Locked ==
    ASSUME StateInv, NEW s \in Session, NEW k \in DOMAIN Items(s), NEW v \in Int,
           Takes(s, k, v),
           \A r \in Session \ {s} : Same(r)
    PROVE  /\ LockOK'
           /\ lock' \in [Row -> Session \cup {Nil}] /\ dirty' \in [Row -> Int \cup {Nil}]
<1>1. lock \in [Row -> Session \cup {Nil}] /\ dirty \in [Row -> Int \cup {Nil}]
  BY DEF StateInv, TypeOK
<1> USE DEF Takes
<1>2. LockOK'
  <2> SUFFICES ASSUME NEW u \in Row, NEW r \in Session, lock'[u] = r
               PROVE  /\ dirty'[u] \in Int /\ pc'[r] \in Holding
                      /\ \E j \in DOMAIN Items(r)' : u = RowAt(r, j)'
    BY DEF LockOK
  <2>1. /\ Items(r)' = Items(r) /\ \A j : RowAt(r, j)' = RowAt(r, j)
    BY DEF RowAt, Items
  <2>2. CASE u = RowAt(s, k)
    BY <1>1, <2>1, <2>2
  <2>3. CASE u # RowAt(s, k)
    <3>1. lock[u] = r /\ dirty'[u] = dirty[u]
      BY <1>1, <2>3
    <3>2. /\ dirty[u] \in Int /\ pc[r] \in Holding
          /\ \E j \in DOMAIN Items(r) : u = RowAt(r, j)
      BY <3>1 DEF StateInv, LockOK
    <3>3. pc'[r] \in Holding
      BY <3>2 DEF Same
    <3> QED BY <2>1, <3>1, <3>2, <3>3
  <2> QED BY <2>2, <2>3
<1> QED BY <1>1, <1>2

\* The loop goes on with the next item or is left after the last one.
LEMMA Looped ==
    ASSUME StateInv, NEW s \in Session, NEW loop, NEW after,
           loop # "idle", NextItem(s, loop, after)
    PROVE  \E to \in {loop, after}, k \in 1..Len(Items(s)) :
              /\ pc[s] = loop /\ pc' = [pc EXCEPT ![s] = to] /\ pc'[s] = to
              /\ idx' = [idx EXCEPT ![s] = k] /\ idx'[s] = k
              /\ \/ to = loop /\ k = idx[s] + 1
                 \/ to = after /\ k = 1 /\ idx[s] = Len(Items(s))
<1>1. pc[s] = loop /\ DOMAIN pc = Session /\ DOMAIN idx = Session
  BY DEF NextItem, Step, StateInv, TypeOK
<1>2. idx[s] \in 1..Len(Items(s)) /\ Len(Items(s)) \in Nat /\ Len(Items(s)) > 0
  BY <1>1, SessionItems
<1>3. CASE idx[s] < Len(Items(s))
  <2>1. pc' = [pc EXCEPT ![s] = loop] /\ idx' = [idx EXCEPT ![s] = idx[s] + 1]
    BY <1>3 DEF NextItem, Step
  <2>2. idx[s] + 1 \in 1..Len(Items(s))
    BY <1>2, <1>3
  <2> QED BY <1>1, <2>1, <2>2
<1>4. CASE ~(idx[s] < Len(Items(s)))
  <2>1. pc' = [pc EXCEPT ![s] = after] /\ idx' = [idx EXCEPT ![s] = 1]
    BY <1>4 DEF NextItem, Step
  <2>2. idx[s] = Len(Items(s)) /\ 1 \in 1..Len(Items(s))
    BY <1>2, <1>4
  <2> QED BY <1>1, <2>1, <2>2
<1> QED BY <1>3, <1>4

LEMMA RollbackState ==
    ASSUME StateInv, NEW s \in Session, Rollback(s)
    PROVE  StateInv'
<1>1. /\ ReleaseLocks(s)
      /\ pc' = [pc EXCEPT ![s] = "idle"] /\ req' = [req EXCEPT ![s] = Nil]
      /\ idx' = [idx EXCEPT ![s] = 1] /\ day' = [day EXCEPT ![s] = Nil]
      /\ seen' = [seen EXCEPT ![s] = Nil] /\ UNCHANGED <<rows, now, begun, raced>>
      /\ obj' = [obj EXCEPT ![s] = NoObjects]
  BY DEF Rollback, CloseSession, ReleaseLocks
<1>2. /\ DOMAIN pc = Session /\ DOMAIN req = Session /\ DOMAIN idx = Session
      /\ DOMAIN day = Session /\ DOMAIN seen = Session /\ DOMAIN obj = Session
  BY DEF StateInv, TypeOK
<1>3. pc'[s] = "idle" /\ idx'[s] = 1
  BY <1>1, <1>2
<1>4. \A r \in Session \ {s} : Same(r)
  BY <1>1, <1>2 DEF Same
<1>5. /\ LockOK'
      /\ lock' \in [Row -> Session \cup {Nil}] /\ dirty' \in [Row -> Int \cup {Nil}]
      /\ pending' \in Session \cup {Nil} /\ obj' \in [Session -> [Row -> Int \cup {Nil}]]
  BY <1>1, <1>4, Released
<1>6. TypeOK'
  BY <1>1, <1>5 DEF StateInv, TypeOK, rows
<1> QED BY <1>1, <1>3, <1>4, <1>5, <1>6, OneSession DEF StateInv, TxKept, rows, LoadedAt

-----------------------------------------------------------------------------

LEMMA LoadUsageState ==
    ASSUME StateInv, NEW s \in Session, LoadUsage(s)
    PROVE  StateInv'
<1>1. /\ pc[s] \in {"plan", "restore"}
      /\ UNCHANGED <<rows, now, lock, dirty, pending, req, idx, day, seen, begun, raced>>
      /\ obj[s][Here(s)] = Nil
  BY DEF LoadUsage
<1>2. DOMAIN pc = Session /\ DOMAIN obj = Session /\ obj[s] \in [Row -> Int \cup {Nil}]
      /\ idx[s] \in DOMAIN Items(s) /\ idx[s] \in Nat /\ Here(s) \in Row
  BY <1>1, SessionItems, RowsAt DEF StateInv, TypeOK
<1>3. PICK v \in Int \cup {Nil} :
          \/ v = Nil /\ pc' = [pc EXCEPT ![s] = "create"] /\ obj' = obj
          \/ /\ v \in Int /\ pc' = pc
             /\ obj' = [obj EXCEPT ![s] = [obj[s] EXCEPT ![Here(s)] = v]]
  <2>1. Visible(s, Here(s)) \in Int \cup {Nil}
    BY <1>2 DEF Visible, StateInv, TypeOK
  <2> QED BY <2>1 DEF LoadUsage
<1>4. /\ pc'[s] \in {pc[s], "create"}
      /\ \A u \in Row : obj[s][u] \in Int => obj'[s][u] \in Int
      /\ obj' \in [Session -> [Row -> Int \cup {Nil}]]
  <2>1. CASE pc' = [pc EXCEPT ![s] = "create"] /\ obj' = obj
    BY <1>2, <2>1 DEF StateInv, TypeOK
  <2>2. CASE /\ v \in Int /\ pc' = pc
             /\ obj' = [obj EXCEPT ![s] = [obj[s] EXCEPT ![Here(s)] = v]]
    <3>1. obj'[s] = [obj[s] EXCEPT ![Here(s)] = v]
      BY <1>2, <2>2
    <3>2. /\ obj'[s] \in [Row -> Int \cup {Nil}]
          /\ \A u \in Row : obj[s][u] \in Int => obj'[s][u] \in Int
      BY <1>2, <2>2, <3>1
    <3> QED BY <2>2, <3>2 DEF StateInv, TypeOK
  <2> QED BY <1>3, <2>1, <2>2
<1>5. TypeOK'
  <2>1. pc' \in [Session -> {"idle", "rules", "plan", "create", "insert", "deduct",
                             "commit", "budget", "bump", "restore", "flush"}]
    BY <1>3 DEF StateInv, TypeOK
  <2>2. \A r \in Session : pc'[r] # "idle" => pc[r] # "idle"
    BY <1>1, <1>2, <1>3
  <2> QED BY <1>1, <1>4, <2>1, <2>2 DEF StateInv, TypeOK, rows
<1>6. \A r \in Session \ {s} : Same(r)
  BY <1>1, <1>2, <1>3 DEF Same
<1>7. LockOK'
  <2>1. pc'[s] \in Holding
    BY <1>1, <1>4 DEF Holding
  <2> QED BY <1>1, <1>6, <2>1, LocksKept
<1>8. WorkAt(s)' /\ pc'[s] # "idle"
  <2>1. WorkAt(s)
    BY <1>1 DEF StateInv, WorkOK
  <2> QED BY <1>1, <1>4, <2>1 DEF WorkAt, Items, Distributing, rows
<1>9. LoadedAt(s)'
  <2> SUFFICES ASSUME NEW j \in 1..idx[s] - 1
               PROVE  obj'[s][RowAt(s, j)] \in Int
    BY <1>1, <1>4 DEF LoadedAt, Items, RowAt
  <2>1. RowAt(s, j) \in Row
    BY <1>1, SessionItems, RowsAt
  <2>2. obj[s][RowAt(s, j)] \in Int
    BY <1>1 DEF StateInv, LoadedOK, LoadedAt
  <2> QED BY <1>4, <2>1, <2>2
<1> QED BY <1>1, <1>5, <1>6, <1>7, <1>8, <1>9, OneSession DEF StateInv, TxKept, rows

LEMMA CreateUsageState ==
    ASSUME StateInv, NEW s \in Session, CreateUsage(s)
    PROVE  StateInv'
<1> DEFINE to == IF req[s].op = "void" THEN "restore" ELSE "plan"
<1>1. /\ pc[s] = "create" /\ pc' = [pc EXCEPT ![s] = to]
      /\ UNCHANGED <<rows, now, pending, req, idx, day, seen, begun, raced>>
      /\ lock' = [lock EXCEPT ![Here(s)] = s] /\ dirty' = [dirty EXCEPT ![Here(s)] = 0]
      /\ obj' = [obj EXCEPT ![s] = [obj[s] EXCEPT ![Here(s)] = 0]]
  BY DEF CreateUsage
<1>2. /\ DOMAIN pc = Session /\ DOMAIN obj = Session /\ obj[s] \in [Row -> Int \cup {Nil}]
      /\ idx[s] \in DOMAIN Items(s) /\ idx[s] \in Nat /\ Here(s) \in Row
      /\ Here(s) = RowAt(s, idx[s])
  BY <1>1, SessionItems, RowsAt DEF StateInv, TypeOK
<1>3. pc'[s] = to /\ obj'[s] = [obj[s] EXCEPT ![Here(s)] = 0]
  BY <1>1, <1>2
<1>4. \A r \in Session \ {s} : Same(r)
  BY <1>1, <1>2 DEF Same
<1>5. /\ LockOK'
      /\ lock' \in [Row -> Session \cup {Nil}] /\ dirty' \in [Row -> Int \cup {Nil}]
  <2>1. Takes(s, idx[s], 0)
    BY <1>1, <1>2, <1>3 DEF Takes, Holding
  <2> QED BY <1>2, <1>4, <2>1, Locked
<1>6. obj' \in [Session -> [Row -> Int \cup {Nil}]]
  <2>1. [obj[s] EXCEPT ![Here(s)] = 0] \in [Row -> Int \cup {Nil}]
    BY <1>2
  <2> QED BY <1>1, <2>1 DEF StateInv, TypeOK
<1>7. TypeOK'
  BY <1>1, <1>5, <1>6 DEF StateInv, TypeOK, rows
<1>8. WorkAt(s)' /\ pc'[s] # "idle"
  <2>1. WorkAt(s) /\ req[s].op \in {"distribute", "void"}
    BY <1>1 DEF StateInv, WorkOK, TypeOK
  <2> QED BY <1>1, <1>3, <2>1 DEF WorkAt, Items, Distributing, rows
<1>9. LoadedAt(s)'
  <2> SUFFICES ASSUME NEW j \in 1..idx[s] - 1
               PROVE  obj'[s][RowAt(s, j)] \in Int
    BY <1>1, <1>3 DEF LoadedAt, Items, RowAt
  <2>1. RowAt(s, j) \in Row
    BY <1>1, SessionItems, RowsAt
  <2>2. obj[s][RowAt(s, j)] \in Int
    BY <1>1 DEF StateInv, LoadedOK, LoadedAt
  <2> QED BY <1>2, <1>3, <2>1, <2>2
<1> QED BY <1>1, <1>4, <1>5, <1>7, <1>8, <1>9, OneSession DEF StateInv, TxKept, rows

\* The item a loop has dealt with is loaded, so those behind it are.
LEMMA LoopLoaded ==
    ASSUME StateInv, NEW s \in Session, pc[s] \in {"plan", "restore"}, obj[s][Here(s)] # Nil
    PROVE  \A j \in 1..idx[s] : obj[s][RowAt(s, j)] \in Int
<1> SUFFICES ASSUME NEW j \in 1..idx[s] PROVE obj[s][RowAt(s, j)] \in Int
  OBVIOUS
<1>1. idx[s] \in Nat /\ j \in DOMAIN Items(s)
  BY SessionItems
<1>2. CASE j = idx[s]
  <2>1. Here(s) = RowAt(s, j) /\ Here(s) \in Row
    BY <1>1, <1>2, RowsAt
  <2>2. obj[s] \in [Row -> Int \cup {Nil}]
    BY DEF StateInv, TypeOK
  <2> QED BY <2>1, <2>2
<1>3. CASE j # idx[s]
  BY <1>1, <1>3 DEF StateInv, LoadedOK, LoadedAt
<1> QED BY <1>2, <1>3

LEMMA PlanItemState ==
    ASSUME StateInv, NEW s \in Session, PlanItem(s)
    PROVE  StateInv'
<1>1. /\ NextItem(s, "plan", "insert")
      /\ UNCHANGED <<rows, now, lock, dirty, pending, req, day, obj, seen, begun, raced>>
  BY DEF PlanItem
<1>2. PICK to \in {"plan", "insert"}, k \in 1..Len(Items(s)) :
          /\ pc[s] = "plan" /\ pc' = [pc EXCEPT ![s] = to] /\ pc'[s] = to
          /\ idx' = [idx EXCEPT ![s] = k] /\ idx'[s] = k
          /\ \/ to = "plan" /\ k = idx[s] + 1
             \/ to = "insert" /\ k = 1 /\ idx[s] = Len(Items(s))
  BY <1>1, Looped
<1>3. TypeOK'
  BY <1>1, <1>2 DEF StateInv, TypeOK, rows
<1>4. \A r \in Session \ {s} : Same(r)
  BY <1>1, <1>2 DEF Same, StateInv, TypeOK
<1>5. LockOK'
  BY <1>1, <1>2, <1>4, LocksKept DEF Holding
<1>6. WorkAt(s)' /\ pc'[s] # "idle" /\ req[s].op # "void"
  <2>1. WorkAt(s)
    BY <1>2 DEF StateInv, WorkOK
  <2> QED BY <1>1, <1>2, <2>1 DEF WorkAt, Items, Distributing, rows
<1>7. LoadedAt(s)'
  <2>1. obj[s][Here(s)] # Nil
    BY DEF PlanItem
  <2>2. \A j \in 1..idx[s] : obj[s][RowAt(s, j)] \in Int
    BY <1>2, <2>1, LoopLoaded
  <2>3. DOMAIN Items(s) = 1..Len(Items(s)) /\ idx[s] \in Nat
    BY <1>2, SessionItems
  <2> QED BY <1>1, <1>2, <2>2, <2>3 DEF LoadedAt, Items, RowAt
<1> QED BY <1>1, <1>3, <1>4, <1>5, <1>6, <1>7, OneSession DEF StateInv, TxKept, rows

LEMMA InsertTransactionState ==
    ASSUME StateInv, NEW s \in Session, InsertTransaction(s)
    PROVE  StateInv'
<1>1. /\ pc[s] = "insert" /\ pc' = [pc EXCEPT ![s] = "deduct"] /\ pending' = s
      /\ UNCHANGED <<rows, now, lock, dirty, req, idx, day, obj, seen, begun, raced>>
  BY DEF InsertTransaction, Step
<1>2. pc'[s] = "deduct"
  BY <1>1 DEF StateInv, TypeOK
<1>3. TypeOK'
  BY <1>1 DEF StateInv, TypeOK, rows
<1>4. \A r \in Session \ {s} : Same(r)
  BY <1>1 DEF Same, StateInv, TypeOK
<1>5. LockOK'
  BY <1>1, <1>2, <1>4, LocksKept DEF Holding
<1>6. WorkAt(s)'
  <2>1. WorkAt(s)
    BY <1>1 DEF StateInv, WorkOK
  <2> QED BY <1>1, <1>2, <2>1 DEF WorkAt, Items, Distributing, rows
<1>7. LoadedAt(s)'
  BY <1>1, <1>2 DEF LoadedAt, LoadedOK, StateInv, Items, RowAt
<1> QED BY <1>1, <1>2, <1>3, <1>4, <1>5, <1>6, <1>7, OneSession DEF StateInv, TxKept, rows

LEMMA DeductState ==
    ASSUME StateInv, NEW s \in Session, Deduct(s)
    PROVE  StateInv'
<1> DEFINE total == obj[s][Here(s)] + Qty(s)
<1>1. /\ NextItem(s, "deduct", "commit")
      /\ UNCHANGED <<rows, now, pending, req, day, seen, begun, raced>>
      /\ lock' = [lock EXCEPT ![Here(s)] = s] /\ dirty' = [dirty EXCEPT ![Here(s)] = total]
      /\ obj' = [obj EXCEPT ![s] = [obj[s] EXCEPT ![Here(s)] = total]]
  BY DEF Deduct
<1>2. PICK to \in {"deduct", "commit"}, k \in 1..Len(Items(s)) :
          /\ pc[s] = "deduct" /\ pc' = [pc EXCEPT ![s] = to] /\ pc'[s] = to
          /\ idx' = [idx EXCEPT ![s] = k] /\ idx'[s] = k
  BY <1>1, Looped
<1>3. /\ DOMAIN obj = Session /\ obj[s] \in [Row -> Int \cup {Nil}]
      /\ idx[s] \in DOMAIN Items(s) /\ Here(s) \in Row
      /\ Here(s) = RowAt(s, idx[s]) /\ Qty(s) \in Nat
  BY <1>2, SessionItems, RowsAt DEF StateInv, TypeOK, Qty
<1>4. total \in Int
  BY <1>2, <1>3 DEF StateInv, LoadedOK, LoadedAt
<1> HIDE DEF total
<1>5. \A r \in Session \ {s} : Same(r)
  BY <1>1, <1>2 DEF Same, StateInv, TypeOK
<1>6. /\ LockOK'
      /\ lock' \in [Row -> Session \cup {Nil}] /\ dirty' \in [Row -> Int \cup {Nil}]
  <2>1. Takes(s, idx[s], total)
    BY <1>1, <1>2, <1>3 DEF Takes, Holding
  <2> QED BY <1>3, <1>4, <1>5, <2>1, Locked
<1>7. /\ obj'[s] = [obj[s] EXCEPT ![Here(s)] = total]
      /\ obj' \in [Session -> [Row -> Int \cup {Nil}]]
  <2>1. [obj[s] EXCEPT ![Here(s)] = total] \in [Row -> Int \cup {Nil}]
    BY <1>3, <1>4
  <2> QED BY <1>1, <1>3, <2>1 DEF StateInv, TypeOK
<1>8. TypeOK'
  BY <1>1, <1>2, <1>6, <1>7 DEF StateInv, TypeOK, rows
<1>9. WorkAt(s)' /\ pc'[s] # "idle"
  <2>1. WorkAt(s)
    BY <1>2 DEF StateInv, WorkOK
  <2> QED BY <1>1, <1>2, <2>1 DEF WorkAt, Items, Distributing, rows
<1>10. LoadedAt(s)'
  <2> SUFFICES ASSUME NEW j \in DOMAIN Items(s)
               PROVE  obj'[s][RowAt(s, j)] \in Int
    BY <1>1, <1>2 DEF LoadedAt, Items, RowAt
  <2>1. RowAt(s, j) \in Row
    BY <1>2, RowsAt
  <2>2. obj[s][RowAt(s, j)] \in Int
    BY <1>2 DEF StateInv, LoadedOK, LoadedAt
  <2> QED BY <1>3, <1>4, <1>7, <2>1, <2>2
<1> QED BY <1>1, <1>5, <1>6, <1>8, <1>9, <1>10, OneSession DEF StateInv, TxKept, rows

LEMMA RestoreItemState ==
    ASSUME StateInv, NEW s \in Session, RestoreItem(s)
    PROVE  StateInv'
<1> DEFINE left == obj[s][Here(s)] - Qty(s)
<1>1. /\ NextItem(s, "restore", "flush")
      /\ UNCHANGED <<rows, now, lock, dirty, pending, req, day, seen, begun, raced>>
      /\ obj' = [obj EXCEPT ![s] = [obj[s] EXCEPT ![Here(s)] = left]]
      /\ obj[s][Here(s)] # Nil
  BY DEF RestoreItem
<1>2. PICK to \in {"restore", "flush"}, k \in 1..Len(Items(s)) :
          /\ pc[s] = "restore" /\ pc' = [pc EXCEPT ![s] = to] /\ pc'[s] = to
          /\ idx' = [idx EXCEPT ![s] = k] /\ idx'[s] = k
          /\ \/ to = "restore" /\ k = idx[s] + 1
             \/ to = "flush" /\ k = 1 /\ idx[s] = Len(Items(s))
  BY <1>1, Looped
<1>3. /\ DOMAIN obj = Session /\ obj[s] \in [Row -> Int \cup {Nil}]
      /\ idx[s] \in DOMAIN Items(s) /\ Here(s) \in Row /\ idx[s] \in Nat
      /\ DOMAIN Items(s) = 1..Len(Items(s))
      /\ Here(s) = RowAt(s, idx[s]) /\ Qty(s) \in Nat
  BY <1>2, SessionItems, RowsAt DEF StateInv, TypeOK, Qty
<1>4. left \in Int
  BY <1>1, <1>3
<1> HIDE DEF left
<1>5. \A r \in Session \ {s} : Same(r)
  BY <1>1, <1>2 DEF Same, StateInv, TypeOK
<1>6. LockOK'
  BY <1>1, <1>2, <1>5, LocksKept DEF Holding
<1>7. /\ obj'[s] = [obj[s] EXCEPT ![Here(s)] = left]
      /\ obj' \in [Session -> [Row -> Int \cup {Nil}]]
  <2>1. [obj[s] EXCEPT ![Here(s)] = left] \in [Row -> Int \cup {Nil}]
    BY <1>3, <1>4
  <2> QED BY <1>1, <1>3, <2>1 DEF StateInv, TypeOK
<1>8. TypeOK'
  BY <1>1, <1>2, <1>7 DEF StateInv, TypeOK, rows
<1>9. WorkAt(s)' /\ pc'[s] # "idle"
  <2>1. WorkAt(s) /\ req[s].op = "void"
    BY <1>2 DEF StateInv, WorkOK, WorkAt
  <2> QED BY <1>1, <1>2, <2>1 DEF WorkAt, Items, Distributing, rows
<1>10. LoadedAt(s)'
  <2>1. \A j \in 1..idx[s] : obj'[s][RowAt(s, j)] \in Int
    <3> SUFFICES ASSUME NEW j \in 1..idx[s] PROVE obj'[s][RowAt(s, j)] \in Int
      OBVIOUS
    <3>1. j \in DOMAIN Items(s)
      BY <1>3
    <3>2. RowAt(s, j) \in Row
      BY <1>2, <3>1, RowsAt
    <3>3. obj[s][RowAt(s, j)] \in Int
      BY <1>1, <1>2, LoopLoaded
    <3> QED BY <1>3, <1>4, <1>7, <3>2, <3>3
  <2> QED BY <1>1, <1>2, <1>3, <2>1 DEF LoadedAt, Items, RowAt
<1> QED BY <1>1, <1>5, <1>6, <1>8, <1>9, <1>10, <1>2, OneSession DEF StateInv, TxKept, rows

\* What is published is of the type of what was written.
LEMMA Published ==
    ASSUME StateInv, NEW s \in Session, Publish(s)
    PROVE  used' \in [Row -> Int \cup {Nil}]
BY DEF StateInv, TypeOK, Publish

\* The work that is over leaves its session idle.
LEMMA Closed ==
    ASSUME StateInv, NEW s \in Session, CloseSession(s)
    PROVE  /\ pc' = [pc EXCEPT ![s] = "idle"] /\ pc'[s] = "idle" /\ idx'[s] = 1
           /\ idx' \in [Session -> Nat \ {0}] /\ day' \in [Session -> Day \cup {Nil}]
           /\ seen' \in [Session -> Int \cup {Nil}] /\ DOMAIN req' = Session
           /\ \A r \in Session \ {s} :
                 /\ pc'[r] = pc[r] /\ req'[r] = req[r] /\ idx'[r] = idx[r]
                 /\ day'[r] = day[r] /\ seen'[r] = seen[r]
BY DEF StateInv, TypeOK, CloseSession

\* The requests that go on are what they were.
LEMMA OthersServed ==
    ASSUME StateInv, NEW s \in Session, CloseSession(s), Len(tx) \in Nat, Len(tx') \in Nat,
           Len(tx') >= Len(tx)
    PROVE  /\ pc' \in [Session -> {"idle", "rules", "plan", "create", "insert", "deduct",
                                   "commit", "budget", "bump", "restore", "flush"}]
           /\ \A r \in Session :
                 pc'[r] # "idle" => /\ req'[r].op \in {"distribute", "void"}
                                    /\ req'[r].items \in {b.items : b \in Baskets}
                                    /\ req'[r].value \in Int
                                    /\ req'[r].created \in Day
                                    /\ req'[r].id \in 0..Len(tx')
<1>1. pc' = [pc EXCEPT ![s] = "idle"] /\ DOMAIN pc = Session
  BY Closed DEF StateInv, TypeOK
<1>2. ASSUME NEW r \in Session, pc'[r] # "idle"
      PROVE  /\ req'[r].op \in {"distribute", "void"}
             /\ req'[r].items \in {b.items : b \in Baskets}
             /\ req'[r].value \in Int
             /\ req'[r].created \in Day
             /\ req'[r].id \in 0..Len(tx')
  <2>1. req'[r] = req[r] /\ pc[r] # "idle"
    BY <1>2, Closed
  <2> QED BY <2>1 DEF StateInv, TypeOK
<1> QED BY <1>1, <1>2 DEF StateInv, TypeOK

LEMMA CommitDistributionState ==
    ASSUME StateInv, NEW s \in Session, CommitDistribution(s)
    PROVE  StateInv'
<1> DEFINE new == [items |-> Items(s), value |-> Rounded(req[s].value),
                   created |-> req[s].created, day |-> day[s], status |-> "completed"]
<1>1. /\ pc[s] = "commit" /\ Publish(s) /\ ReleaseLocks(s) /\ tx' = Append(tx, new)
      /\ UNCHANGED <<budget, now, begun, raced>>
      /\ obj' = [obj EXCEPT ![s] = NoObjects]
  BY DEF CommitDistribution, ReleaseLocks
<1>2. /\ WorkAt(s) /\ day[s] \in Day /\ req[s].op = "distribute"
      /\ Items(s) \in {b.items : b \in Baskets} /\ DOMAIN obj = Session
      /\ req[s].value \in Int /\ req[s].created \in Day
  BY <1>1 DEF StateInv, TypeOK, WorkOK, WorkAt, Distributing, Items
<1>3. new \in TransactionRow
  BY <1>2, RoundedInt DEF TransactionRow
<1> HIDE DEF new
<1>4. /\ tx \in Seq(TransactionRow) /\ tx' \in Seq(TransactionRow)
      /\ Len(tx) \in Nat /\ Len(tx') = Len(tx) + 1 /\ TxKept
  BY <1>1, <1>3 DEF StateInv, TypeOK, TxKept
<1>5. CASE req[s].value = 0
  <2>1. CloseSession(s)
    BY <1>5 DEF CommitDistribution
  <2>2. \A r \in Session \ {s} : Same(r)
    BY <1>1, <1>2, <2>1, Closed DEF Same
  <2>3. /\ LockOK'
        /\ lock' \in [Row -> Session \cup {Nil}] /\ dirty' \in [Row -> Int \cup {Nil}]
        /\ pending' \in Session \cup {Nil} /\ obj' \in [Session -> [Row -> Int \cup {Nil}]]
    BY <1>1, <2>2, Released
  <2>5. TypeOK'
    <3>1. used' \in [Row -> Int \cup {Nil}]
      BY <1>1, Published
    <3>2. Len(tx') >= Len(tx) /\ Len(tx') \in Nat
      BY <1>4
    <3>3. /\ pc' \in [Session -> {"idle", "rules", "plan", "create", "insert", "deduct",
                                   "commit", "budget", "bump", "restore", "flush"}]
          /\ \A r \in Session :
                pc'[r] # "idle" => /\ req'[r].op \in {"distribute", "void"}
                                   /\ req'[r].items \in {b.items : b \in Baskets}
                                   /\ req'[r].value \in Int
                                   /\ req'[r].created \in Day
                                   /\ req'[r].id \in 0..Len(tx')
      BY <1>4, <2>1, <3>2, OthersServed
    <3> QED BY <1>1, <1>4, <2>1, <2>3, <3>1, <3>3, Closed DEF StateInv, TypeOK
  <2>6. LoadedAt(s)' /\ pc'[s] = "idle" /\ idx'[s] = 1
    BY <2>1, Closed DEF LoadedAt
  <2> QED BY <1>4, <2>2, <2>3, <2>5, <2>6, OneSession DEF StateInv
<1>6. CASE req[s].value # 0
  <2>1. pc' = [pc EXCEPT ![s] = "budget"] /\ UNCHANGED <<req, idx, day, seen>>
    BY <1>6 DEF CommitDistribution, Step
  <2>2. \A r \in Session \ {s} : Same(r)
    BY <1>1, <1>2, <2>1 DEF Same, StateInv, TypeOK
  <2>3. /\ LockOK'
        /\ lock' \in [Row -> Session \cup {Nil}] /\ dirty' \in [Row -> Int \cup {Nil}]
        /\ pending' \in Session \cup {Nil} /\ obj' \in [Session -> [Row -> Int \cup {Nil}]]
    BY <1>1, <2>2, Released
  <2>4. \A r \in Session : pc'[r] # "idle" => pc[r] # "idle"
    BY <1>1, <2>1 DEF StateInv, TypeOK
  <2>5. TypeOK'
    BY <1>1, <1>4, <2>1, <2>3, <2>4, Published DEF StateInv, TypeOK
  <2>6. pc'[s] = "budget"
    BY <2>1 DEF StateInv, TypeOK
  <2>7. WorkAt(s)' /\ LoadedAt(s)'
    BY <1>2, <2>1, <2>6 DEF WorkAt, LoadedAt, Items, Distributing
  <2> QED BY <1>4, <2>2, <2>3, <2>5, <2>6, <2>7, OneSession DEF StateInv
<1> QED BY <1>5, <1>6

LEMMA ReadBudgetState ==
    ASSUME StateInv, NEW s \in Session, ReadBudget(s)
    PROVE  StateInv'
<1>1. /\ pc[s] = "budget" /\ pc' = [pc EXCEPT ![s] = "bump"]
      /\ seen' = [seen EXCEPT ![s] = budget]
      /\ UNCHANGED <<rows, now, lock, dirty, pending, req, idx, day, obj, begun, raced>>
  BY DEF ReadBudget, Step
<1>2. pc'[s] = "bump" /\ seen'[s] = budget /\ budget \in Int
  BY <1>1 DEF StateInv, TypeOK
<1>3. TypeOK'
  BY <1>1, <1>2 DEF StateInv, TypeOK, rows
<1>4. \A r \in Session \ {s} : Same(r)
  BY <1>1 DEF Same, StateInv, TypeOK
<1>5. LockOK'
  BY <1>1, <1>4, LocksKept DEF Holding
<1>6. WorkAt(s)' /\ LoadedAt(s)'
  <2>1. WorkAt(s)
    BY <1>1 DEF StateInv, WorkOK
  <2> QED BY <1>1, <1>2, <2>1 DEF WorkAt, LoadedAt, Items, Distributing, rows
<1> QED BY <1>1, <1>2, <1>3, <1>4, <1>5, <1>6, OneSession DEF StateInv, TxKept, rows

LEMMA BumpBudgetState ==
    ASSUME StateInv, NEW s \in Session, BumpBudget(s)
    PROVE  StateInv'
<1>1. /\ pc[s] = "bump" /\ budget' = Rounded(100 * seen[s] + req[s].value) /\ CloseSession(s)
      /\ UNCHANGED <<used, tx, now, lock, dirty, pending, obj, begun, raced>>
  BY DEF BumpBudget
<1>2. budget' \in Int
  <2>1. seen[s] \in Int /\ req[s].value \in Int
    BY <1>1 DEF StateInv, TypeOK, WorkOK, WorkAt
  <2> QED BY <1>1, <2>1, RoundedInt
<1>3. \A r \in Session \ {s} : Same(r)
  BY <1>1, Closed DEF Same
<1>4. Len(tx) \in Nat /\ tx' = tx /\ tx \in Seq(TransactionRow)
  BY <1>1 DEF StateInv, TypeOK
<1>5. TypeOK'
  BY <1>1, <1>2, <1>4, OthersServed, Closed DEF StateInv, TypeOK
<1>6. LockOK'
  BY <1>1, <1>3, LocksKept DEF Holding
<1>7. LoadedAt(s)' /\ pc'[s] = "idle" /\ idx'[s] = 1
  BY <1>1, Closed DEF LoadedAt
<1> QED BY <1>1, <1>3, <1>5, <1>6, <1>7, OneSession DEF StateInv, TxKept

LEMMA FlushUsageState ==
    ASSUME StateInv, NEW s \in Session, NEW u \in Row, FlushUsage(s, u)
    PROVE  StateInv'
<1>1. /\ pc[s] = "flush" /\ u \in Unwritten(s)
      /\ lock' = [lock EXCEPT ![u] = s] /\ dirty' = [dirty EXCEPT ![u] = obj[s][u]]
      /\ UNCHANGED <<rows, now, pending, pc, req, idx, day, obj, seen, begun, raced>>
  BY DEF FlushUsage
<1>2. PICK k \in DOMAIN Items(s) : u = RowAt(s, k)
  BY <1>1, SessionItems DEF Unwritten, RowAt
<1>3. obj[s][u] \in Int
  BY <1>1, <1>2 DEF StateInv, LoadedOK, LoadedAt
<1>4. \A r \in Session : Same(r)
  BY <1>1 DEF Same
<1>5. /\ LockOK'
      /\ lock' \in [Row -> Session \cup {Nil}] /\ dirty' \in [Row -> Int \cup {Nil}]
  <2>1. Takes(s, k, obj[s][u])
    BY <1>1, <1>2 DEF Takes, Holding
  <2> QED BY <1>3, <1>4, <2>1, Locked
<1>6. TypeOK'
  BY <1>1, <1>5 DEF StateInv, TypeOK, rows
<1>7. WorkAt(s)' /\ LoadedAt(s)'
  BY <1>1 DEF StateInv, WorkOK, LoadedOK, WorkAt, LoadedAt, Items, RowAt, rows
<1> QED BY <1>1, <1>4, <1>5, <1>6, <1>7, OneSession DEF StateInv, TxKept, rows

LEMMA CommitVoidState ==
    ASSUME StateInv, NEW s \in Session, CommitVoid(s)
    PROVE  StateInv'
<1> DEFINE i == req[s].id
<1>1. /\ pc[s] = "flush" /\ Publish(s) /\ ReleaseLocks(s) /\ CloseSession(s)
      /\ tx' = [tx EXCEPT ![i] = [tx[i] EXCEPT !.status = "voided"]]
      /\ UNCHANGED <<budget, now, begun, raced>>
      /\ obj' = [obj EXCEPT ![s] = NoObjects] /\ DOMAIN obj = Session
  BY DEF CommitVoid, ReleaseLocks, StateInv, TypeOK
<1>2. i \in DOMAIN tx /\ tx \in Seq(TransactionRow) /\ tx[i] \in TransactionRow
  <2>1. WorkAt(s) /\ req[s].op \in {"distribute", "void"} /\ tx \in Seq(TransactionRow)
    BY <1>1 DEF StateInv, TypeOK, WorkOK
  <2>2. i \in DOMAIN tx
    BY <1>1, <2>1 DEF WorkAt
  <2> QED BY <2>1, <2>2
<1>3. /\ [tx[i] EXCEPT !.status = "voided"] \in TransactionRow
      /\ [tx[i] EXCEPT !.status = "voided"].items = tx[i].items
      /\ [tx[i] EXCEPT !.status = "voided"].created = tx[i].created
  BY <1>2 DEF TransactionRow
<1> HIDE DEF i
<1>4. /\ tx' \in Seq(TransactionRow) /\ Len(tx') = Len(tx) /\ Len(tx) \in Nat /\ TxKept
  BY <1>1, <1>2, <1>3 DEF TxKept
<1>5. \A r \in Session \ {s} : Same(r)
  BY <1>1, Closed DEF Same
<1>6. /\ LockOK'
      /\ lock' \in [Row -> Session \cup {Nil}] /\ dirty' \in [Row -> Int \cup {Nil}]
      /\ pending' \in Session \cup {Nil} /\ obj' \in [Session -> [Row -> Int \cup {Nil}]]
  BY <1>1, <1>5, Released
<1>7. used' \in [Row -> Int \cup {Nil}]
  BY <1>1, Published
<1>8. TypeOK'
  BY <1>1, <1>4, <1>6, <1>7, OthersServed, Closed DEF StateInv, TypeOK
<1>9. LoadedAt(s)' /\ pc'[s] = "idle" /\ idx'[s] = 1
  BY <1>1, Closed DEF LoadedAt
<1> QED BY <1>4, <1>5, <1>6, <1>8, <1>9, OneSession DEF StateInv

LEMMA StateStep == StateInv /\ [Next]_vars => StateInv'
<1> SUFFICES ASSUME StateInv, [Next]_vars PROVE StateInv'
  OBVIOUS
<1>1. CASE UNCHANGED vars
  BY <1>1 DEF vars, StateInv, TypeOK, WorkOK, WorkAt, LockOK, LoadedOK, LoadedAt, RowAt, Items
<1>2. CASE PeriodPasses
  <2>1. /\ now' \in Day
        /\ UNCHANGED <<rows, lock, dirty, pending, pc, req, idx, day, obj, seen, begun, raced>>
    BY <1>2, BoundsAssumption DEF PeriodPasses, StateInv, TypeOK, Day
  <2> QED BY <2>1 DEF rows, StateInv, TypeOK, WorkOK, WorkAt, LockOK, LoadedOK, LoadedAt,
                      RowAt, Items
<1>3. ASSUME NEW s \in Session, NEW b \in Baskets, ArriveDistribution(s, b) PROVE StateInv'
  BY <1>3, ArriveDistributionState
<1>4. ASSUME NEW s \in Session, NEW i \in 1..Len(tx), ArriveVoid(s, i) PROVE StateInv'
  BY <1>4, ArriveVoidState
<1>5. ASSUME NEW s \in Session, Progress(s) PROVE StateInv'
  <2>1. CASE Rollback(s)
    BY <2>1, RollbackState
  <2>2. CASE ~Rollback(s)
    BY <1>5, <2>2, ReadRulesState, LoadUsageState, CreateUsageState, PlanItemState,
       InsertTransactionState, DeductState, CommitDistributionState, ReadBudgetState,
       BumpBudgetState, RestoreItemState, FlushUsageState, CommitVoidState
       DEF Progress, UniqueViolation, Refuse, DeadlockVictim
  <2> QED BY <2>1, <2>2
<1>6. ASSUME NEW s \in Session, Disconnect(s) PROVE StateInv'
  BY <1>6, RollbackState DEF Disconnect
<1> QED BY <1>1, <1>2, <1>3, <1>4, <1>5, <1>6 DEF Next

-----------------------------------------------------------------------------

\* The rows an update of recorded usage touches are those of the request that
\* commits.
LEMMA OnlyItsRows ==
    ASSUME StateInv, NEW s \in Session, pc[s] \in {"commit", "flush"}, Publish(s),
           NEW u \in Row, used'[u] # used[u]
    PROVE  \E j \in DOMAIN Items(s) : u = ItemRow(Items(s)[j], day[s])
<1>1. lock[u] = s
  BY DEF Publish, StateInv, TypeOK
<1> QED BY <1>1 DEF StateInv, LockOK, RowAt

\* What a commit of recorded usage leaves behind it.
ChangesOnRecord ==
    LET changed == {u \in Row : Used(u)' # Used(u)} IN
    changed # {} =>
       \E i \in 1..Len(tx') :
          \/ i > Len(tx) /\ changed \subseteq RowsTaken(tx'[i])
          \/ tx'[i].status = "voided" /\ changed \subseteq RowsRestored(tx'[i])

LEMMA DistributionOnRecord ==
    ASSUME StateInv, NEW s \in Session, CommitDistribution(s)
    PROVE  ChangesOnRecord
<1> DEFINE new == [items |-> Items(s), value |-> Rounded(req[s].value),
                   created |-> req[s].created, day |-> day[s], status |-> "completed"]
           n == Len(tx) + 1
<1>1. pc[s] = "commit" /\ Publish(s) /\ tx' = Append(tx, new)
  BY DEF CommitDistribution
<1>2. tx \in Seq(TransactionRow) /\ Len(tx) \in Nat
  BY DEF StateInv, TypeOK
<1>3. new.items = Items(s) /\ new.day = day[s]
  OBVIOUS
<1> HIDE DEF new
<1>4. n \in 1..Len(tx') /\ n > Len(tx) /\ tx'[n] = new
  BY <1>1, <1>2
<1>5. ASSUME NEW u \in Row, Used(u)' # Used(u) PROVE u \in RowsTaken(new)
  <2>1. used'[u] # used[u]
    BY <1>5 DEF Used
  <2> QED BY <1>1, <1>3, <2>1, OnlyItsRows DEF RowsTaken
<1> QED BY <1>4, <1>5 DEF ChangesOnRecord

LEMMA VoidOnRecord ==
    ASSUME StateInv, NEW s \in Session, CommitVoid(s)
    PROVE  ChangesOnRecord
<1> DEFINE i == req[s].id
           new == [tx[i] EXCEPT !.status = "voided"]
<1>1. pc[s] = "flush" /\ Publish(s) /\ tx' = [tx EXCEPT ![i] = new]
  BY DEF CommitVoid
<1>2. /\ tx \in Seq(TransactionRow) /\ i \in DOMAIN tx /\ tx[i].items = Items(s)
      /\ tx[i].created = day[s]
  <2>1. WorkAt(s) /\ req[s].op \in {"distribute", "void"} /\ tx \in Seq(TransactionRow)
    BY <1>1 DEF StateInv, TypeOK, WorkOK
  <2> QED BY <1>1, <2>1 DEF WorkAt
<1>3. new.items = Items(s) /\ new.created = day[s] /\ new.status = "voided"
  <2>1. tx[i] \in TransactionRow
    BY <1>2
  <2> QED BY <1>2, <2>1 DEF TransactionRow
<1> HIDE DEF new
<1>4. i \in 1..Len(tx') /\ tx'[i] = new
  BY <1>1, <1>2
<1>5. ASSUME NEW u \in Row, Used(u)' # Used(u) PROVE u \in RowsRestored(new)
  <2>1. used'[u] # used[u]
    BY <1>5 DEF Used
  <2> QED BY <1>1, <1>3, <2>1, OnlyItsRows DEF RowsRestored
<1> QED BY <1>3, <1>4, <1>5 DEF ChangesOnRecord

LEMMA StepOnRecord == StateInv /\ [Next]_vars => ChangesOnRecord
<1> SUFFICES ASSUME StateInv, [Next]_vars PROVE ChangesOnRecord
  OBVIOUS
<1>1. CASE used' = used
  BY <1>1 DEF ChangesOnRecord, Used
<1>2. CASE used' # used
  <2>1. PICK s \in Session : CommitDistribution(s) \/ CommitVoid(s)
    BY <1>2 DEF vars, rows, Next, Progress, PeriodPasses, ArriveDistribution, ArriveVoid,
       ArriveVoidOn, Disconnect, Rollback, ReadRules, LoadUsage, CreateUsage,
       UniqueViolation, PlanItem, Refuse, InsertTransaction, Deduct, ReadBudget, BumpBudget,
       RestoreItem, FlushUsage, DeadlockVictim
  <2> QED BY <2>1, DistributionOnRecord, VoidOnRecord
<1> QED BY <1>1, <1>2

\* welfare_service.py:9 "all inside one DB transaction": recorded usage changes only
\* in a step that records a transaction or leaves one voided, and only in its rows,
\* whatever requests interleave, fail or die.
THEOREM UsageOnRecord == Spec => UsageChangesWithTransaction
<1>1. StateInv /\ [Next]_vars => [ChangesOnRecord]_vars
  BY StepOnRecord
<1>2. Spec => [][ChangesOnRecord]_vars
  BY <1>1, StateInit, StateStep, PTL DEF Spec
<1>3. [][ChangesOnRecord]_vars <=> UsageChangesWithTransaction
  BY DEF ChangesOnRecord, UsageChangesWithTransaction
<1> QED BY <1>2, <1>3

-----------------------------------------------------------------------------

\* A basket that names a commodity once has a row for each of its items.
LEMMA RowsDiffer ==
    ASSUME Once, StateInv, NEW s \in Session, pc[s] \notin {"idle", "rules"},
           NEW j \in DOMAIN Items(s), NEW k \in DOMAIN Items(s), j # k
    PROVE  RowAt(s, j) # RowAt(s, k)
<1>1. Items(s) \in {b.items : b \in Baskets}
  BY DEF StateInv, TypeOK, Items
<1>2. Items(s)[j].rule # Items(s)[k].rule
  BY <1>1 DEF Once
<1> QED BY <1>2 DEF RowAt, ItemRow

\* An item fits as long as its session and the object it loaded stay the same.
LEMMA FitsStill ==
    ASSUME NEW s, NEW j, Fits(s, j), req'[s] = req[s], day'[s] = day[s],
           obj'[s][RowAt(s, j)] = obj[s][RowAt(s, j)]
    PROVE  Fits(s, j)'
BY DEF Fits, RowAt, Items

\* The plans of the other sessions stand.
LEMMA PlansStand ==
    ASSUME BoundInv, NEW s \in Session, \A r \in Session \ {s} : Same(r), PlanAt(s)'
    PROVE  PlanOK'
<1> SUFFICES ASSUME NEW r \in Session \ {s} PROVE PlanAt(r)'
  BY DEF PlanOK
<1>1. PlanAt(r) /\ Same(r)
  BY DEF BoundInv, PlanOK
<1> QED BY <1>1 DEF PlanAt, Fits, Same, RowAt, Items

LEMMA BoundInit == Init => BoundInv
<1> SUFFICES ASSUME Init PROVE BoundInv
  OBVIOUS
<1>1. StateInv
  BY StateInit
<1>2. BoundsOK
  BY DEF Init, BoundsOK, NoObjects
<1>3. PlanOK
  BY DEF Init, PlanOK, PlanAt
<1> QED BY <1>1, <1>2, <1>3 DEF BoundInv

\* What a request that ends publishes or drops was within what is allocated.
LEMMA EndBounds ==
    ASSUME BoundInv, NEW s \in Session, ReleaseLocks(s), Publish(s) \/ used' = used
    PROVE  BoundsOK'
<1> SUFFICES ASSUME NEW u \in Row
             PROVE  /\ used'[u] # Nil => used'[u] <= Allowed(u)
                    /\ lock'[u] # Nil => dirty'[u] <= Allowed(u)
                    /\ \A r \in Session : obj'[r][u] # Nil => obj'[r][u] <= Allowed(u)
  BY DEF BoundsOK
<1>1. /\ used[u] # Nil => used[u] <= Allowed(u)
      /\ lock[u] # Nil => dirty[u] <= Allowed(u)
      /\ \A r \in Session : obj[r][u] # Nil => obj[r][u] <= Allowed(u)
  BY DEF BoundInv, BoundsOK
<1>2. /\ used \in [Row -> Int \cup {Nil}] /\ DOMAIN obj = Session
      /\ s # Nil
  BY NilAssumption DEF BoundInv, StateInv, TypeOK
<1>3. used'[u] # Nil => used'[u] <= Allowed(u)
  BY <1>1, <1>2 DEF Publish
<1>4. lock'[u] # Nil => dirty'[u] <= Allowed(u)
  BY <1>1 DEF ReleaseLocks
<1>5. \A r \in Session : obj'[r][u] # Nil => obj'[r][u] <= Allowed(u)
  BY <1>1, <1>2 DEF ReleaseLocks, NoObjects
<1> QED BY <1>3, <1>4, <1>5

\* A session that goes on to something else than a plan.
LEMMA NoPlan ==
    ASSUME BoundInv, NEW s \in Session, \A r \in Session \ {s} : Same(r),
           pc'[s] \in {"idle", "rules", "commit", "budget", "bump", "restore", "flush"}
    PROVE  PlanOK'
BY PlansStand DEF PlanAt

LEMMA RollbackBounds ==
    ASSUME BoundInv, NEW s \in Session, Rollback(s)
    PROVE  BoundsOK' /\ PlanOK'
<1>1. ReleaseLocks(s) /\ used' = used /\ CloseSession(s) /\ StateInv
  BY DEF Rollback, rows, BoundInv
<1>2. (\A r \in Session \ {s} : Same(r)) /\ pc'[s] = "idle"
  BY <1>1, Closed DEF Same, ReleaseLocks, StateInv, TypeOK
<1> QED BY <1>1, <1>2, EndBounds, NoPlan

LEMMA CommitVoidBounds ==
    ASSUME BoundInv, NEW s \in Session, CommitVoid(s)
    PROVE  BoundsOK' /\ PlanOK'
<1>1. ReleaseLocks(s) /\ Publish(s) /\ CloseSession(s) /\ StateInv
  BY DEF CommitVoid, BoundInv
<1>2. (\A r \in Session \ {s} : Same(r)) /\ pc'[s] = "idle"
  BY <1>1, Closed DEF Same, ReleaseLocks, StateInv, TypeOK
<1> QED BY <1>1, <1>2, EndBounds, NoPlan

LEMMA CommitDistributionBounds ==
    ASSUME BoundInv, NEW s \in Session, CommitDistribution(s)
    PROVE  BoundsOK' /\ PlanOK'
<1>1. ReleaseLocks(s) /\ Publish(s) /\ StateInv
  BY DEF CommitDistribution, BoundInv
<1>2. CASE CloseSession(s)
  <2>1. (\A r \in Session \ {s} : Same(r)) /\ pc'[s] = "idle"
    BY <1>1, <1>2, Closed DEF Same, ReleaseLocks, StateInv, TypeOK
  <2> QED BY <1>1, <2>1, EndBounds, NoPlan
<1>3. CASE Step(s, "commit", "budget") /\ UNCHANGED <<req, idx, day, seen>>
  <2>1. (\A r \in Session \ {s} : Same(r)) /\ pc'[s] = "budget"
    BY <1>1, <1>3 DEF Same, ReleaseLocks, Step, StateInv, TypeOK
  <2> QED BY <1>1, <2>1, EndBounds, NoPlan
<1> QED BY <1>2, <1>3 DEF CommitDistribution

LEMMA LoadUsageBounds ==
    ASSUME BoundInv, NEW s \in Session, LoadUsage(s)
    PROVE  BoundsOK' /\ PlanOK'
<1>1. /\ pc[s] \in {"plan", "restore"} /\ obj[s][Here(s)] = Nil /\ StateInv
      /\ UNCHANGED <<rows, now, lock, dirty, pending, req, idx, day, seen, begun, raced>>
  BY DEF LoadUsage, BoundInv
<1>2. /\ DOMAIN pc = Session /\ DOMAIN obj = Session /\ obj[s] \in [Row -> Int \cup {Nil}]
      /\ Here(s) \in Row /\ s # Nil /\ idx[s] \in Nat /\ idx[s] \in DOMAIN Items(s)
  BY <1>1, SessionItems, RowsAt, NilAssumption DEF StateInv, TypeOK
<1>3. PICK v \in Int \cup {Nil} :
          \/ v = Nil /\ pc' = [pc EXCEPT ![s] = "create"] /\ obj' = obj
          \/ /\ v \in Int /\ pc' = pc /\ v <= Allowed(Here(s))
             /\ obj' = [obj EXCEPT ![s] = [obj[s] EXCEPT ![Here(s)] = v]]
  <2>1. Visible(s, Here(s)) \in Int \cup {Nil}
    BY <1>1, <1>2 DEF Visible, StateInv, TypeOK
  <2>2. Visible(s, Here(s)) # Nil => Visible(s, Here(s)) <= Allowed(Here(s))
    BY <1>2 DEF Visible, BoundInv, BoundsOK
  <2> QED BY <2>1, <2>2 DEF LoadUsage
<1>4. \A u \in Row, r \in Session :
         \/ obj'[r][u] = obj[r][u]
         \/ r = s /\ u = Here(s) /\ (obj'[r][u] # Nil => obj'[r][u] <= Allowed(u))
  BY <1>2, <1>3
<1>5. BoundsOK'
  BY <1>1, <1>4 DEF BoundInv, BoundsOK, rows
<1>6. \A r \in Session \ {s} : Same(r)
  BY <1>1, <1>2, <1>3 DEF Same
<1>7. pc'[s] = pc[s] \/ pc'[s] = "create"
  BY <1>2, <1>3
<1>8. PlanAt(s)'
  <2> SUFFICES ASSUME pc[s] = "plan", NEW j \in 1..idx[s] - 1 PROVE Fits(s, j)'
    <3>1. pc[s] = "restore" => req[s].op = "void"
      BY <1>1 DEF StateInv, WorkOK, WorkAt
    <3> QED BY <1>1, <1>7, <3>1 DEF PlanAt, Items
  <2>1. Fits(s, j)
    BY DEF BoundInv, PlanOK, PlanAt
  <2>2. j \in DOMAIN Items(s)
    BY <1>1, SessionItems
  <2>3. RowAt(s, j) \in Row /\ RowAt(s, j) # Here(s)
    BY <1>1, <2>1, <2>2, RowsAt, NilAssumption DEF Fits
  <2> QED BY <1>1, <1>4, <2>1, <2>3, FitsStill
<1> QED BY <1>5, <1>6, <1>8, PlansStand

LEMMA CreateUsageBounds ==
    ASSUME Once, BoundInv, NEW s \in Session, CreateUsage(s)
    PROVE  BoundsOK' /\ PlanOK'
<1> DEFINE to == IF req[s].op = "void" THEN "restore" ELSE "plan"
<1>1. /\ pc[s] = "create" /\ pc' = [pc EXCEPT ![s] = to] /\ StateInv
      /\ UNCHANGED <<rows, now, pending, req, idx, day, seen, begun, raced>>
      /\ lock' = [lock EXCEPT ![Here(s)] = s] /\ dirty' = [dirty EXCEPT ![Here(s)] = 0]
      /\ obj' = [obj EXCEPT ![s] = [obj[s] EXCEPT ![Here(s)] = 0]]
  BY DEF CreateUsage, BoundInv
<1>2. /\ DOMAIN pc = Session /\ DOMAIN obj = Session /\ obj[s] \in [Row -> Int \cup {Nil}]
      /\ idx[s] \in DOMAIN Items(s) /\ idx[s] \in Nat /\ Here(s) \in Row
      /\ Here(s) = RowAt(s, idx[s]) /\ Allowed(Here(s)) \in Nat
      /\ DOMAIN lock = Row /\ DOMAIN dirty = Row
  <2>1. idx[s] \in DOMAIN Items(s) /\ idx[s] \in Nat
    BY <1>1, SessionItems
  <2>2. /\ Here(s) \in Row /\ Here(s) = RowAt(s, idx[s])
    BY <1>1, <2>1, RowsAt
  <2> QED BY <1>1, <2>1, <2>2, AllowedOf DEF StateInv, TypeOK
<1>3. pc'[s] = to /\ obj'[s] = [obj[s] EXCEPT ![Here(s)] = 0]
  BY <1>1, <1>2
<1>4. \A r \in Session \ {s} : Same(r)
  BY <1>1, <1>2 DEF Same
<1>5. BoundsOK'
  <2>1. \A u \in Row : \/ lock'[u] = lock[u] /\ dirty'[u] = dirty[u]
                       \/ u = Here(s) /\ dirty'[u] = 0
    BY <1>1, <1>2
  <2>2. \A u \in Row, r \in Session : \/ obj'[r][u] = obj[r][u]
                                      \/ u = Here(s) /\ obj'[r][u] = 0
    <3>1. \A u \in Row : obj'[s][u] = obj[s][u] \/ (u = Here(s) /\ obj'[s][u] = 0)
      BY <1>2, <1>3
    <3>2. ASSUME NEW u \in Row, NEW r \in Session, r # s PROVE obj'[r][u] = obj[r][u]
      BY <1>4, <3>2 DEF Same
    <3> QED BY <3>1, <3>2
  <2> QED BY <1>1, <1>2, <2>1, <2>2 DEF BoundInv, BoundsOK, rows
<1>6. PlanAt(s)'
  <2> SUFFICES ASSUME pc'[s] = "plan", NEW j \in 1..idx[s] - 1 PROVE Fits(s, j)'
    BY <1>1, <1>3 DEF PlanAt, Items
  <2>1. req[s].op = "distribute"
    BY <1>1, <1>3 DEF StateInv, TypeOK
  <2>2. Fits(s, j)
    BY <1>1, <2>1 DEF BoundInv, PlanOK, PlanAt
  <2>3. j \in DOMAIN Items(s) /\ j # idx[s]
    BY <1>1, <1>2, SessionItems
  <2>4. RowAt(s, j) \in Row /\ RowAt(s, j) # Here(s)
    BY <1>1, <1>2, <2>3, RowsAt, RowsDiffer
  <2> QED BY <1>1, <1>2, <1>3, <2>2, <2>4, FitsStill
<1> QED BY <1>4, <1>5, <1>6, PlansStand

LEMMA PlanItemBounds ==
    ASSUME BoundInv, NEW s \in Session, PlanItem(s)
    PROVE  BoundsOK' /\ PlanOK'
<1>1. /\ NextItem(s, "plan", "insert") /\ StateInv
      /\ obj[s][Here(s)] # Nil /\ Qty(s) <= Remaining(s)
      /\ UNCHANGED <<rows, now, lock, dirty, pending, req, day, obj, seen, begun, raced>>
  BY DEF PlanItem, BoundInv
<1>2. PICK to \in {"plan", "insert"}, k \in 1..Len(Items(s)) :
          /\ pc[s] = "plan" /\ pc' = [pc EXCEPT ![s] = to] /\ pc'[s] = to
          /\ idx' = [idx EXCEPT ![s] = k] /\ idx'[s] = k
          /\ \/ to = "plan" /\ k = idx[s] + 1
             \/ to = "insert" /\ k = 1 /\ idx[s] = Len(Items(s))
  BY <1>1, Looped
<1>3. \A r \in Session \ {s} : Same(r)
  BY <1>1, <1>2 DEF Same, StateInv, TypeOK
<1>4. BoundsOK'
  BY <1>1 DEF BoundInv, BoundsOK, rows
<1>5. /\ DOMAIN Items(s) = 1..Len(Items(s)) /\ idx[s] \in Nat /\ idx[s] \in DOMAIN Items(s)
  BY <1>1, <1>2, SessionItems
<1>6. /\ Here(s) \in Row /\ Here(s) = RowAt(s, idx[s])
      /\ RowAt(s, idx[s])[1] = Items(s)[idx[s]].rule
      /\ Qty(s) \in Nat /\ Alloc[Items(s)[idx[s]].rule] \in Int
  BY <1>1, <1>2, <1>5, RowsAt DEF Qty
<1>7. Fits(s, idx[s])
  <2>1. obj[s][Here(s)] \in Int
    BY <1>1, <1>6 DEF StateInv, TypeOK
  <2>2. Qty(s) <= Alloc[Items(s)[idx[s]].rule] - obj[s][Here(s)]
    BY <1>1, <1>6 DEF Remaining
  <2>3. obj[s][Here(s)] + Qty(s) <= Alloc[Items(s)[idx[s]].rule]
    BY <1>6, <2>1, <2>2
  <2> QED BY <1>6, <2>1, <2>3 DEF Fits, Qty
<1>8. \A j \in 1..idx[s] : Fits(s, j)
  BY <1>2, <1>5, <1>7 DEF BoundInv, PlanOK, PlanAt
<1>9. \A j \in 1..idx[s] : Fits(s, j)'
  BY <1>1, <1>8, FitsStill
<1>10. PlanAt(s)'
  BY <1>1, <1>2, <1>5, <1>9 DEF PlanAt, Items
<1> QED BY <1>3, <1>4, <1>10, PlansStand

LEMMA DeductBounds ==
    ASSUME Once, BoundInv, NEW s \in Session, Deduct(s)
    PROVE  BoundsOK' /\ PlanOK'
<1> DEFINE total == obj[s][Here(s)] + Qty(s)
<1>1. /\ NextItem(s, "deduct", "commit") /\ StateInv
      /\ UNCHANGED <<rows, now, pending, req, day, seen, begun, raced>>
      /\ lock' = [lock EXCEPT ![Here(s)] = s] /\ dirty' = [dirty EXCEPT ![Here(s)] = total]
      /\ obj' = [obj EXCEPT ![s] = [obj[s] EXCEPT ![Here(s)] = total]]
  BY DEF Deduct, BoundInv
<1>2. PICK to \in {"deduct", "commit"}, k \in 1..Len(Items(s)) :
          /\ pc[s] = "deduct" /\ pc' = [pc EXCEPT ![s] = to] /\ pc'[s] = to
          /\ idx' = [idx EXCEPT ![s] = k] /\ idx'[s] = k
          /\ to = "deduct" => k = idx[s] + 1
  BY <1>1, Looped
<1>3. /\ DOMAIN Items(s) = 1..Len(Items(s)) /\ idx[s] \in Nat /\ idx[s] \in DOMAIN Items(s)
      /\ Len(Items(s)) \in Nat
  BY <1>1, <1>2, SessionItems
<1>4. /\ Here(s) \in Row /\ Here(s) = RowAt(s, idx[s])
      /\ RowAt(s, idx[s])[1] = Items(s)[idx[s]].rule
  BY <1>1, <1>2, <1>3, RowsAt
<1>5. total <= Allowed(Here(s))
  <2>1. Fits(s, idx[s])
    BY <1>2, <1>3 DEF BoundInv, PlanOK, PlanAt
  <2>2. total \in Int /\ total <= Alloc[Here(s)[1]]
    BY <1>1, <1>2, <1>3, <1>4, <2>1, RowsAt DEF Fits, Qty
  <2> HIDE DEF total
  <2> QED BY <1>4, <2>2, AllowedOf
<1> HIDE DEF total
<1>6. \A r \in Session \ {s} : Same(r)
  BY <1>1, <1>2 DEF Same, StateInv, TypeOK
<1>7. obj'[s] = [obj[s] EXCEPT ![Here(s)] = total] /\ DOMAIN obj[s] = Row
  BY <1>1 DEF StateInv, TypeOK
<1>8. BoundsOK'
  <2>1. \A u \in Row : \/ lock'[u] = lock[u] /\ dirty'[u] = dirty[u]
                       \/ u = Here(s) /\ dirty'[u] = total
    BY <1>1, <1>4 DEF StateInv, TypeOK
  <2>2. \A u \in Row, r \in Session : \/ obj'[r][u] = obj[r][u]
                                      \/ u = Here(s) /\ obj'[r][u] = total
    <3>1. \A u \in Row : obj'[s][u] = obj[s][u] \/ (u = Here(s) /\ obj'[s][u] = total)
      BY <1>7
    <3>2. ASSUME NEW u \in Row, NEW r \in Session, r # s PROVE obj'[r][u] = obj[r][u]
      BY <1>6, <3>2 DEF Same
    <3> QED BY <3>1, <3>2
  <2> QED BY <1>1, <1>5, <2>1, <2>2 DEF BoundInv, BoundsOK, rows
<1>9. PlanAt(s)'
  <2> SUFFICES ASSUME pc'[s] = "deduct", NEW j \in (idx[s] + 1)..Len(Items(s))
               PROVE  Fits(s, j)'
    BY <1>1, <1>2 DEF PlanAt, Items
  <2>1. j \in DOMAIN Items(s) /\ j # idx[s] /\ j \in idx[s]..Len(Items(s))
    BY <1>3
  <2>2. Fits(s, j)
    BY <1>2, <2>1 DEF BoundInv, PlanOK, PlanAt
  <2>3. RowAt(s, j) \in Row /\ RowAt(s, j) # Here(s)
    BY <1>1, <1>2, <1>3, <1>4, <2>1, RowsAt, RowsDiffer
  <2> QED BY <1>1, <1>7, <2>2, <2>3, FitsStill
<1> QED BY <1>6, <1>8, <1>9, PlansStand

LEMMA RestoreItemBounds ==
    ASSUME BoundInv, NEW s \in Session, RestoreItem(s)
    PROVE  BoundsOK' /\ PlanOK'
<1> DEFINE left == obj[s][Here(s)] - Qty(s)
<1>1. /\ NextItem(s, "restore", "flush") /\ StateInv /\ obj[s][Here(s)] # Nil
      /\ UNCHANGED <<rows, now, lock, dirty, pending, req, day, seen, begun, raced>>
      /\ obj' = [obj EXCEPT ![s] = [obj[s] EXCEPT ![Here(s)] = left]]
  BY DEF RestoreItem, BoundInv
<1>2. PICK to \in {"restore", "flush"}, k \in 1..Len(Items(s)) :
          /\ pc[s] = "restore" /\ pc' = [pc EXCEPT ![s] = to] /\ pc'[s] = to
          /\ idx' = [idx EXCEPT ![s] = k]
  BY <1>1, Looped
<1>3. idx[s] \in DOMAIN Items(s)
  BY <1>1, <1>2, SessionItems
<1>4. /\ Here(s) \in Row /\ Qty(s) \in Nat /\ Allowed(Here(s)) \in Nat
  BY <1>1, <1>2, <1>3, RowsAt, AllowedOf DEF Qty
<1>5. left <= Allowed(Here(s))
  <2>1. obj[s][Here(s)] \in Int /\ obj[s][Here(s)] <= Allowed(Here(s))
    BY <1>1, <1>4 DEF BoundInv, BoundsOK, StateInv, TypeOK
  <2> QED BY <1>4, <2>1
<1> HIDE DEF left
<1>6. \A r \in Session \ {s} : Same(r)
  BY <1>1, <1>2 DEF Same, StateInv, TypeOK
<1>7. obj'[s] = [obj[s] EXCEPT ![Here(s)] = left] /\ DOMAIN obj[s] = Row
  BY <1>1 DEF StateInv, TypeOK
<1>8. BoundsOK'
  <2>1. \A u \in Row, r \in Session : \/ obj'[r][u] = obj[r][u]
                                      \/ u = Here(s) /\ obj'[r][u] = left
    <3>1. \A u \in Row : obj'[s][u] = obj[s][u] \/ (u = Here(s) /\ obj'[s][u] = left)
      BY <1>7
    <3>2. ASSUME NEW u \in Row, NEW r \in Session, r # s PROVE obj'[r][u] = obj[r][u]
      BY <1>6, <3>2 DEF Same
    <3> QED BY <3>1, <3>2
  <2> QED BY <1>1, <1>5, <2>1 DEF BoundInv, BoundsOK, rows
<1> QED BY <1>2, <1>6, <1>8, NoPlan

LEMMA FlushUsageBounds ==
    ASSUME BoundInv, NEW s \in Session, NEW u \in Row, FlushUsage(s, u)
    PROVE  BoundsOK' /\ PlanOK'
<1>1. /\ pc[s] = "flush" /\ u \in Unwritten(s) /\ StateInv
      /\ lock' = [lock EXCEPT ![u] = s] /\ dirty' = [dirty EXCEPT ![u] = obj[s][u]]
      /\ UNCHANGED <<rows, now, pending, pc, req, idx, day, obj, seen, begun, raced>>
  BY DEF FlushUsage, BoundInv
<1>2. PICK k \in DOMAIN Items(s) : u = RowAt(s, k)
  BY <1>1, SessionItems DEF Unwritten, RowAt
<1>3. obj[s][u] \in Int
  BY <1>1, <1>2 DEF StateInv, LoadedOK, LoadedAt
<1>4. obj[s][u] <= Allowed(u)
  BY <1>3, NilAssumption DEF BoundInv, BoundsOK
<1>5. \A w \in Row : \/ lock'[w] = lock[w] /\ dirty'[w] = dirty[w]
                     \/ w = u /\ dirty'[w] = obj[s][u]
  BY <1>1 DEF StateInv, TypeOK
<1>6. BoundsOK'
  BY <1>1, <1>4, <1>5 DEF BoundInv, BoundsOK, rows
<1>7. \A r \in Session \ {s} : Same(r)
  BY <1>1 DEF Same
<1> QED BY <1>1, <1>6, <1>7, NoPlan

\* The other steps neither write nor load a usage row.
LEMMA QuietBounds ==
    ASSUME BoundInv, NEW s \in Session, UNCHANGED <<used, lock, dirty, obj>>,
           \A r \in Session \ {s} : Same(r), PlanAt(s)'
    PROVE  BoundsOK' /\ PlanOK'
BY PlansStand DEF BoundInv, BoundsOK

LEMMA ArriveBounds ==
    ASSUME BoundInv, NEW s \in Session,
           \/ \E b \in Baskets : ArriveDistribution(s, b)
           \/ \E i \in 1..Len(tx) : ArriveVoid(s, i)
    PROVE  BoundsOK' /\ PlanOK'
<1>1. StateInv
  BY DEF BoundInv
<1>2. /\ UNCHANGED <<used, lock, dirty, obj>> /\ pc'[s] \in {"rules", "restore"}
  BY <1>1 DEF ArriveDistribution, ArriveVoid, ArriveVoidOn, Step, rows, StateInv, TypeOK
<1>3. \A r \in Session \ {s} : Same(r)
  BY <1>1 DEF ArriveDistribution, ArriveVoid, ArriveVoidOn, Step, Same, StateInv, TypeOK
<1> QED BY <1>2, <1>3, QuietBounds DEF PlanAt

LEMMA PhaseBounds ==
    ASSUME BoundInv, NEW s \in Session,
           ReadRules(s) \/ InsertTransaction(s) \/ ReadBudget(s)
    PROVE  BoundsOK' /\ PlanOK'
<1>1. StateInv
  BY DEF BoundInv
<1>2. UNCHANGED <<used, lock, dirty, obj, req, idx>>
  BY DEF ReadRules, InsertTransaction, ReadBudget, rows
<1>3. \A r \in Session \ {s} : Same(r)
  BY <1>1 DEF ReadRules, InsertTransaction, ReadBudget, Step, Same, StateInv, TypeOK
<1>4. PlanAt(s)'
  <2>1. CASE ReadRules(s)
    <3>1. pc'[s] = "plan" /\ idx[s] = 1
      BY <1>1, <2>1 DEF ReadRules, Step, StateInv, TypeOK, WorkOK, WorkAt
    <3> QED BY <1>2, <3>1 DEF PlanAt
  <2>2. CASE InsertTransaction(s)
    <3>1. pc[s] = "insert" /\ pc'[s] = "deduct" /\ day' = day
      BY <1>1, <2>2 DEF InsertTransaction, Step, StateInv, TypeOK
    <3>2. idx[s] = 1 /\ DOMAIN Items(s) = 1..Len(Items(s))
      BY <1>1, <3>1, SessionItems DEF StateInv, WorkOK, WorkAt
    <3>3. \A j \in DOMAIN Items(s) : Fits(s, j)
      BY <3>1 DEF BoundInv, PlanOK, PlanAt
    <3>4. \A j \in DOMAIN Items(s) : Fits(s, j)'
      BY <1>2, <3>1, <3>3, FitsStill
    <3> QED BY <1>2, <3>1, <3>2, <3>4 DEF PlanAt, Items
  <2>3. CASE ReadBudget(s)
    <3>1. pc'[s] = "bump"
      BY <1>1, <2>3 DEF ReadBudget, Step, StateInv, TypeOK
    <3> QED BY <3>1 DEF PlanAt
  <2> QED BY <2>1, <2>2, <2>3
<1> QED BY <1>2, <1>3, <1>4, QuietBounds

LEMMA BumpBudgetBounds ==
    ASSUME BoundInv, NEW s \in Session, BumpBudget(s)
    PROVE  BoundsOK' /\ PlanOK'
<1>1. StateInv /\ CloseSession(s) /\ UNCHANGED <<used, lock, dirty, obj>>
  BY DEF BoundInv, BumpBudget
<1>2. (\A r \in Session \ {s} : Same(r)) /\ pc'[s] = "idle"
  BY <1>1, Closed DEF Same
<1> QED BY <1>1, <1>2, QuietBounds DEF PlanAt

LEMMA BoundStep == Once /\ BoundInv /\ [Next]_vars => BoundInv'
<1> SUFFICES ASSUME Once, BoundInv, [Next]_vars PROVE BoundsOK' /\ PlanOK'
  BY StateStep DEF BoundInv
<1>1. CASE UNCHANGED vars
  BY <1>1 DEF vars, BoundInv, BoundsOK, PlanOK, PlanAt, Fits, RowAt, Items
<1>2. CASE PeriodPasses
  BY <1>2 DEF PeriodPasses, rows, BoundInv, BoundsOK, PlanOK, PlanAt, Fits, RowAt, Items
<1>3. ASSUME NEW s \in Session,
             \/ \E b \in Baskets : ArriveDistribution(s, b)
             \/ \E i \in 1..Len(tx) : ArriveVoid(s, i)
      PROVE  BoundsOK' /\ PlanOK'
  BY <1>3, ArriveBounds
<1>4. ASSUME NEW s \in Session, Progress(s) \/ Disconnect(s) PROVE BoundsOK' /\ PlanOK'
  <2>1. CASE Rollback(s)
    BY <2>1, RollbackBounds
  <2>2. CASE ~Rollback(s)
    BY <1>4, <2>2, PhaseBounds, LoadUsageBounds, CreateUsageBounds, PlanItemBounds,
       DeductBounds, CommitDistributionBounds, BumpBudgetBounds, RestoreItemBounds,
       FlushUsageBounds, CommitVoidBounds
       DEF Progress, Disconnect, UniqueViolation, Refuse, DeadlockVictim
  <2> QED BY <2>1, <2>2
<1> QED BY <1>1, <1>2, <1>3, <1>4 DEF Next

\* The entitlement check holds to the end (welfare_service.py:117): for baskets that
\* name a commodity once, however distributions, voids and failures interleave, no
\* usage row records more than was allocated.
THEOREM UsageWithinAllocation ==
    ASSUME Once
    PROVE  Spec => []AllocationInv
<1>1. BoundInv => AllocationInv
  <2> SUFFICES ASSUME BoundInv, NEW u \in Row, Used(u) > 0 PROVE Used(u) <= Alloc[u[1]]
    BY DEF AllocationInv, WithinAllocation, BoundInv, StateInv
  <2>1. Used(u) \in Int /\ Used(u) <= Allowed(u)
    BY DEF BoundInv, BoundsOK, StateInv, TypeOK, Used
  <2> QED BY <2>1, AllowedOf
<1>2. Init => BoundInv
  BY BoundInit
<1>3. BoundInv /\ [Next]_vars => BoundInv'
  BY BoundStep
<1> QED BY <1>1, <1>2, <1>3, PTL DEF Spec

-----------------------------------------------------------------------------
(***************************************************************************)
(* Usage rows and the transactions that stand.                             *)
(***************************************************************************)

\* What the first n items of a distribution of day d take from row u.
Qtys(its) == [j \in DOMAIN its |-> its[j].qty]

ItemsOn(its, d, u, n) == {j \in 1..n : ItemRow(its[j], d) = u}

Taken(its, d, u, n) == SumFunctionOnSet(Qtys(its), ItemsOn(its, d, u, n))

LEMMA NothingTaken == ASSUME NEW its, NEW d, NEW u PROVE Taken(its, d, u, 0) = 0
<1>1. ItemsOn(its, d, u, 0) = {}
  BY DEF ItemsOn
<1> QED BY <1>1, SumEmpty DEF Taken

LEMMA OnFinite ==
    ASSUME NEW its \in Seq(Item), NEW d, NEW u, NEW n \in 0..Len(its)
    PROVE  /\ IsFiniteSet(ItemsOn(its, d, u, n)) /\ DOMAIN Qtys(its) = 1..Len(its)
           /\ \A j \in 1..Len(its) : Qtys(its)[j] = its[j].qty /\ its[j].qty \in Nat \ {0}
           /\ \A j \in ItemsOn(its, d, u, n) : Qtys(its)[j] \in Nat
           /\ Taken(its, d, u, n) \in Nat
<1> DEFINE q == Qtys(its)
<1>5. DOMAIN q = 1..Len(its) /\ Len(its) \in Nat
  BY DEF Qtys
<1>1. \A j \in 1..Len(its) : q[j] = its[j].qty /\ its[j].qty \in Nat \ {0}
  <2> SUFFICES ASSUME NEW j \in 1..Len(its)
               PROVE  q[j] = its[j].qty /\ its[j].qty \in Nat \ {0}
    OBVIOUS
  <2>1. its[j] \in Item
    OBVIOUS
  <2> QED BY <2>1 DEF Qtys, Item
<1> HIDE DEF q
<1>2. \A j \in ItemsOn(its, d, u, n) : q[j] \in Nat
  BY <1>1, <1>5 DEF ItemsOn
<1>3. IsFiniteSet(1..n) /\ ItemsOn(its, d, u, n) \in SUBSET (1..n)
  BY FS_Interval DEF ItemsOn
<1>4. IsFiniteSet(ItemsOn(its, d, u, n))
  BY <1>3, FS_Subset
<1>6. SumFunctionOnSet(q, ItemsOn(its, d, u, n)) \in Nat
  BY <1>2, <1>4, SumNat
<1> QED BY <1>1, <1>2, <1>4, <1>5, <1>6 DEF Taken, q

LEMMA OneMoreTaken ==
    ASSUME NEW its \in Seq(Item), NEW d, NEW u, NEW n \in 1..Len(its)
    PROVE  Taken(its, d, u, n) =
              Taken(its, d, u, n - 1) + (IF ItemRow(its[n], d) = u THEN its[n].qty ELSE 0)
<1> DEFINE S == ItemsOn(its, d, u, n - 1)
           q == Qtys(its)
<1>1. n - 1 \in 0..Len(its)
  OBVIOUS
<1>2. /\ IsFiniteSet(S) /\ \A j \in S : q[j] \in Int
      /\ q[n] = its[n].qty /\ q[n] \in Int /\ SumFunctionOnSet(q, S) \in Int
  BY <1>1, OnFinite DEF Taken
<1>3. n \notin S
  BY DEF ItemsOn
<1> HIDE DEF q
<1>4. CASE ItemRow(its[n], d) = u
  <2>1. ItemsOn(its, d, u, n) = S \cup {n}
    BY <1>4 DEF ItemsOn
  <2> HIDE DEF S
  <2>2. SumFunctionOnSet(q, S \cup {n}) = SumFunctionOnSet(q, S) + q[n]
    BY <1>2, <1>3, SumIn
  <2> QED BY <1>2, <1>4, <2>1, <2>2 DEF Taken, q, S
<1>5. CASE ItemRow(its[n], d) # u
  <2>1. ItemsOn(its, d, u, n) = S
    BY <1>5 DEF ItemsOn
  <2> QED BY <1>2, <1>5, <2>1 DEF Taken, q
<1> QED BY <1>4, <1>5

\* A row that none of these items is about.
LEMMA NoneTaken ==
    ASSUME NEW its, NEW d, NEW u, NEW n, \A j \in 1..n : ItemRow(its[j], d) # u
    PROVE  Taken(its, d, u, n) = 0
<1>1. ItemsOn(its, d, u, n) = {}
  BY DEF ItemsOn
<1> QED BY <1>1, SumEmpty DEF Taken

\* What transactions w that stand have taken from row u, in the parts Given is made of.
Standing(w) == {i \in 1..Len(w) : w[i].status = "completed"}

LinesOf(w, i) == {<<i, j>> : j \in DOMAIN w[i].items}

StandingLines(w) == UNION {LinesOf(w, i) : i \in Standing(w)}

LinesOn(w, u) == {l \in StandingLines(w) : ItemRow(w[l[1]].items[l[2]], w[l[1]].day) = u}

LineQty(w) == [l \in StandingLines(w) |-> w[l[1]].items[l[2]].qty]

GivenBy(w, u) == SumFunctionOnSet(LineQty(w), LinesOn(w, u))

LEMMA GivenParts == ASSUME NEW u PROVE Given(u) = GivenBy(tx, u)
BY DEF Given, GivenBy, LineQty, LinesOn, StandingLines, LinesOf, Standing

LEMMA RowItems ==
    ASSUME NEW w \in Seq(TransactionRow), NEW i \in 1..Len(w)
    PROVE  /\ w[i].items \in Seq(Item) /\ DOMAIN w[i].items = 1..Len(w[i].items)
           /\ Len(w[i].items) \in Nat /\ w[i].value \in Int
<1>2. w[i] \in TransactionRow
  OBVIOUS
<1>1. w[i].items \in {b.items : b \in Baskets} /\ w[i].value \in Int
  BY <1>2 DEF TransactionRow
<1> QED BY <1>1, BasketItems

LEMMA LinesFinite ==
    ASSUME NEW w \in Seq(TransactionRow), NEW u
    PROVE  /\ IsFiniteSet(LinesOn(w, u))
           /\ \A l \in LinesOn(w, u) : LineQty(w)[l] \in Nat
           /\ GivenBy(w, u) \in Nat
<1>1. ASSUME NEW i \in Standing(w) PROVE IsFiniteSet(LinesOf(w, i))
  <2> DEFINE D == DOMAIN w[i].items
             f == [j \in D |-> <<i, j>>]
  <2>3. D = 1..Len(w[i].items) /\ Len(w[i].items) \in Nat
    BY RowItems DEF Standing
  <2>1. IsFiniteSet(D)
    BY <2>3, FS_Interval
  <2>2. f \in Surjection(D, LinesOf(w, i))
    BY DEF Surjection, LinesOf
  <2> QED BY <2>1, <2>2, FS_Surjection
<1>2. IsFiniteSet({LinesOf(w, i) : i \in Standing(w)})
  <2> DEFINE S == Standing(w)
             f == [i \in S |-> LinesOf(w, i)]
  <2>1. IsFiniteSet(S)
    <3>2. Len(w) \in Nat
      OBVIOUS
    <3>1. IsFiniteSet(1..Len(w)) /\ S \in SUBSET (1..Len(w))
      BY <3>2, FS_Interval DEF Standing
    <3> QED BY <3>1, FS_Subset
  <2>2. f \in Surjection(S, {LinesOf(w, i) : i \in S})
    BY DEF Surjection
  <2> QED BY <2>1, <2>2, FS_Surjection
<1>3. IsFiniteSet(StandingLines(w))
  <2> DEFINE U == {LinesOf(w, i) : i \in Standing(w)}
  <2>1. \A t \in U : IsFiniteSet(t)
    BY <1>1
  <2>2. IsFiniteSet(U)
    BY <1>2
  <2> HIDE DEF U
  <2>3. IsFiniteSet(UNION U)
    BY <2>1, <2>2, FS_UNION
  <2> QED BY <2>3 DEF U, StandingLines
<1>4. IsFiniteSet(LinesOn(w, u))
  <2>1. LinesOn(w, u) \in SUBSET StandingLines(w)
    BY DEF LinesOn
  <2> QED BY <1>3, <2>1, FS_Subset
<1>5. ASSUME NEW l \in StandingLines(w) PROVE LineQty(w)[l] \in Nat
  <2>1. PICK i \in Standing(w) : l \in LinesOf(w, i)
    BY DEF StandingLines
  <2>2. PICK j \in DOMAIN w[i].items : l = <<i, j>>
    BY <2>1 DEF LinesOf
  <2>3. w[i].items[j] \in Item
    BY RowItems DEF Standing
  <2>4. LineQty(w)[l] = w[i].items[j].qty
    BY <2>2 DEF LineQty
  <2> QED BY <2>3, <2>4 DEF Item
<1>6. \A l \in LinesOn(w, u) : LineQty(w)[l] \in Nat
  BY <1>5 DEF LinesOn
<1> QED BY <1>4, <1>6, SumNat DEF GivenBy

\* A transaction more that stands.
Beside(w, v, i) ==
    /\ Standing(v) = Standing(w) \cup {i} /\ i \notin Standing(w)
    /\ \A k \in Standing(w) : v[k].items = w[k].items /\ v[k].day = w[k].day

LEMMA OneTransaction ==
    ASSUME NEW w \in Seq(TransactionRow), NEW v \in Seq(TransactionRow), NEW i, Beside(w, v, i),
           NEW u
    PROVE  GivenBy(v, u) = GivenBy(w, u) + Taken(v[i].items, v[i].day, u, Len(v[i].items))
<1> DEFINE its == v[i].items
           On == ItemsOn(its, v[i].day, u, Len(its))
           b == [j \in DOMAIN its |-> <<i, j>>]
           New == {b[j] : j \in On}
<1>1. i \in 1..Len(v)
  BY DEF Beside, Standing
<1>2. its \in Seq(Item) /\ DOMAIN its = 1..Len(its) /\ Len(its) \in Nat
  BY <1>1, RowItems
<1>3. IsFiniteSet(On) /\ On \subseteq DOMAIN its /\ \A j \in On : Qtys(its)[j] \in Int
  <2>1. Len(its) \in 0..Len(its)
    BY <1>2
  <2>2. /\ IsFiniteSet(On) /\ DOMAIN Qtys(its) = 1..Len(its)
        /\ \A j \in On : Qtys(its)[j] \in Nat
    BY <1>2, <2>1, OnFinite
  <2>3. On \subseteq DOMAIN its
    BY <1>2 DEF ItemsOn
  <2> HIDE DEF On, its
  <2> QED BY <2>2, <2>3
<1>4. StandingLines(v) = StandingLines(w) \cup LinesOf(v, i)
  <2>1. \A k \in Standing(w) : LinesOf(v, k) = LinesOf(w, k)
    BY DEF Beside, LinesOf
  <2> QED BY <2>1 DEF StandingLines, Beside
<1>5. ASSUME NEW l \in StandingLines(w)
      PROVE  /\ LineQty(v)[l] = LineQty(w)[l] /\ l \in StandingLines(v)
             /\ v[l[1]].items = w[l[1]].items /\ v[l[1]].day = w[l[1]].day /\ l[1] # i
  <2>1. PICK k \in Standing(w) : l \in LinesOf(w, k)
    BY DEF StandingLines
  <2>2. l[1] = k
    BY <2>1 DEF LinesOf
  <2> QED BY <1>4, <2>2 DEF Beside, LineQty
<1>6. New = {l \in LinesOf(v, i) : ItemRow(v[l[1]].items[l[2]], v[l[1]].day) = u}
  <2>1. \A j \in DOMAIN its : b[j] = <<i, j>>
    OBVIOUS
  <2>2. New = {<<i, j>> : j \in On}
    BY <1>3, <2>1
  <2> HIDE DEF New
  <2> QED BY <1>2, <2>2 DEF LinesOf, ItemsOn
<1>7. LinesOn(v, u) = LinesOn(w, u) \cup New
  BY <1>4, <1>5, <1>6 DEF LinesOn
<1>8. LinesOn(w, u) \cap New = {}
  BY <1>5, <1>6 DEF LinesOn, LinesOf
<1>9. /\ IsFiniteSet(LinesOn(w, u)) /\ IsFiniteSet(LinesOn(v, u))
      /\ \A l \in LinesOn(v, u) : LineQty(v)[l] \in Int
      /\ IsFiniteSet(New)
  <2>1. IsFiniteSet(LinesOn(w, u)) /\ IsFiniteSet(LinesOn(v, u))
        /\ \A l \in LinesOn(v, u) : LineQty(v)[l] \in Nat
    BY LinesFinite
  <2>2. New \in SUBSET LinesOn(v, u)
    BY <1>7
  <2> HIDE DEF New
  <2>3. IsFiniteSet(New)
    BY <2>1, <2>2, FS_Subset
  <2> QED BY <2>1, <2>3
<1>10. SumFunctionOnSet(LineQty(v), New) = SumFunctionOnSet(Qtys(its), On)
  <2>1. \A j \in On : LineQty(v)[b[j]] = Qtys(its)[j] /\ Qtys(its)[j] \in Int
    <3> SUFFICES ASSUME NEW j \in On PROVE LineQty(v)[b[j]] = Qtys(its)[j]
      BY <1>3
    <3>1. b[j] = <<i, j>> /\ <<i, j>> \in LinesOf(v, i) /\ j \in DOMAIN its
      BY <1>3 DEF LinesOf
    <3>2. <<i, j>> \in StandingLines(v)
      BY <1>4, <3>1
    <3> QED BY <3>1, <3>2 DEF LineQty, Qtys
  <2>2. \A j, k \in On : b[j] = b[k] => j = k
    BY <1>3
  <2> HIDE DEF b, On, its
  <2> QED BY <1>3, <2>1, <2>2, SumImage DEF On
<1>11. SumFunctionOnSet(LineQty(v), LinesOn(w, u)) = GivenBy(w, u)
  <2>1. \A l \in LinesOn(w, u) : LineQty(v)[l] = LineQty(w)[l]
    BY <1>5 DEF LinesOn
  <2> QED BY <1>9, <2>1, SumSame DEF GivenBy
<1> DEFINE A == LinesOn(w, u)
           f == LineQty(v)
<1>12. \A l \in A \cup New : f[l] \in Int
  BY <1>7, <1>9
<1> HIDE DEF A, f, New
<1>13. SumFunctionOnSet(f, A \cup New) = SumFunctionOnSet(f, A) + SumFunctionOnSet(f, New)
  BY <1>8, <1>9, <1>12, SumUnion DEF A
<1> QED BY <1>7, <1>10, <1>11, <1>13 DEF A, f, GivenBy, Taken

-----------------------------------------------------------------------------
(***************************************************************************)
(* The budget and the value distributed.                                   *)
(***************************************************************************)

Values(w) == [i \in 1..Len(w) |-> w[i].value]

\* A budget of b is the value of the transactions c of w, up to a hundredth for each.
CountsFor(w, c, b) ==
    /\ c \in SUBSET (1..Len(w))
    /\ b - SumFunctionOnSet(Values(w), c) \in -Cardinality(c)..Cardinality(c)

\* The sessions whose distribution is committed and not yet in the budget.
Late == {"budget", "bump"}

\* The transaction that a late session is going to add is its own, and neither in the
\* budget nor in what anybody has read of it.
OwnAt(own, got, of, s) ==
    /\ own[s] \in 1..Len(tx) /\ own[s] \notin of
    /\ tx[own[s]].value = Rounded(req[s].value)
    /\ \A r \in Session \ {s} : pc[r] \in Late => own[r] # own[s]
    /\ \A r \in Session : pc[r] = "bump" => own[s] \notin got[r]

\* What the budget counts is known, and what each of those who have read it read.
BudgetAs(own, got, of) ==
    /\ CountsFor(tx, of, budget)
    /\ \A s \in Session : pc[s] \in Late => OwnAt(own, got, of, s)
    /\ \A s \in Session : pc[s] = "bump" => CountsFor(tx, got[s], seen[s])

BudgetOK ==
    \E own \in [Session -> Nat], got \in [Session -> SUBSET Nat], of \in SUBSET Nat :
       BudgetAs(own, got, of)

BudgetInv == StateInv /\ BudgetOK

\* Rounding a sum is off by one hundredth at most from adding what is rounded.
LEMMA RoundedSum ==
    ASSUME NEW b \in Int, NEW x \in Int
    PROVE  /\ Rounded(x) \in Int /\ Rounded(100 * b + x) \in Int
           /\ Rounded(100 * b + x) - (b + Rounded(x)) \in -1..1
BY DEF Rounded

LEMMA CountedOf ==
    ASSUME NEW w \in Seq(TransactionRow), NEW c \in SUBSET (1..Len(w))
    PROVE  /\ IsFiniteSet(c) /\ Cardinality(c) \in Nat
           /\ \A i \in c : Values(w)[i] = w[i].value /\ Values(w)[i] \in Int
           /\ SumFunctionOnSet(Values(w), c) \in Int
<1>1. Len(w) \in Nat
  OBVIOUS
<1>2. IsFiniteSet(1..Len(w))
  BY <1>1, FS_Interval
<1>3. IsFiniteSet(c)
  BY <1>2, FS_Subset
<1>4. \A i \in c : Values(w)[i] = w[i].value /\ Values(w)[i] \in Int
  BY RowItems DEF Values
<1> QED BY <1>3, <1>4, SumInt, FS_CardinalityType

\* Neither more transactions nor the voiding of one changes what the budget counts.
LEMMA CountsStill ==
    ASSUME NEW w \in Seq(TransactionRow), NEW v \in Seq(TransactionRow), Len(w) <= Len(v),
           \A i \in 1..Len(w) : v[i].value = w[i].value,
           NEW c, NEW b, CountsFor(w, c, b)
    PROVE  CountsFor(v, c, b)
<1>1. c \in SUBSET (1..Len(w)) /\ c \in SUBSET (1..Len(v))
  BY DEF CountsFor
<1>2. IsFiniteSet(c) /\ \A i \in c : Values(v)[i] = Values(w)[i]
  BY <1>1, CountedOf
<1>3. SumFunctionOnSet(Values(v), c) = SumFunctionOnSet(Values(w), c)
  BY <1>2, SumSame
<1> QED BY <1>1, <1>3 DEF CountsFor

\* A bump counts one transaction more.
LEMMA CountsMore ==
    ASSUME NEW w \in Seq(TransactionRow), NEW c, NEW b \in Int, CountsFor(w, c, b),
           NEW i \in 1..Len(w), i \notin c, NEW x \in Int, w[i].value = Rounded(x)
    PROVE  CountsFor(w, c \cup {i}, Rounded(100 * b + x))
<1> DEFINE f == Values(w)
           n == Cardinality(c)
           S == SumFunctionOnSet(f, c)
           new == Rounded(100 * b + x)
<1>1. c \in SUBSET (1..Len(w)) /\ c \cup {i} \in SUBSET (1..Len(w)) /\ b - S \in -n..n
  BY DEF CountsFor
<1>2. IsFiniteSet(c) /\ n \in Nat /\ S \in Int
  BY <1>1, CountedOf
<1>3. \A j \in c \cup {i} : f[j] = w[j].value /\ f[j] \in Int
  BY <1>1, CountedOf
<1>4. Cardinality(c \cup {i}) = n + 1
  BY <1>2, FS_AddElement
<1> HIDE DEF f
<1>5. SumFunctionOnSet(f, c \cup {i}) = S + f[i]
  BY <1>2, <1>3, SumIn
<1>6. f[i] = Rounded(x) /\ f[i] \in Int
  BY <1>3
<1>7. new \in Int /\ new - (b + Rounded(x)) \in -1..1
  BY RoundedSum
<1> HIDE DEF n, S, new
<1>8. new - (S + f[i]) \in -(n + 1)..(n + 1)
  BY <1>1, <1>2, <1>6, <1>7
<1> QED BY <1>1, <1>4, <1>5, <1>8 DEF CountsFor, f, n, S, new

\* A step that leaves the budget and the values distributed, and after which only those
\* are late who were.
LEMMA BudgetQuiet ==
    ASSUME BudgetInv, StateInv', budget' = budget, Len(tx') = Len(tx),
           \A i \in 1..Len(tx) : tx'[i].value = tx[i].value,
           \A s \in Session : pc'[s] \in Late =>
              /\ pc[s] \in Late /\ req'[s] = req[s]
              /\ pc'[s] = "bump" => \/ pc[s] = "budget" /\ seen'[s] = budget
                                    \/ pc[s] = "bump" /\ seen'[s] = seen[s]
    PROVE  BudgetOK'
<1>1. PICK own \in [Session -> Nat], got \in [Session -> SUBSET Nat], of \in SUBSET Nat :
          BudgetAs(own, got, of)
  BY DEF BudgetInv, BudgetOK
<1>2. PICK then \in [Session -> SUBSET Nat] :
          \A s \in Session : then[s] = IF pc[s] = "budget" THEN of ELSE got[s]
  <2> DEFINE next == [s \in Session |-> IF pc[s] = "budget" THEN of ELSE got[s]]
  <2>1. /\ next \in [Session -> SUBSET Nat]
        /\ \A s \in Session : next[s] = IF pc[s] = "budget" THEN of ELSE got[s]
    OBVIOUS
  <2> QED BY <2>1
<1>3. /\ tx \in Seq(TransactionRow) /\ tx' \in Seq(TransactionRow) /\ Len(tx) \in Nat
  BY DEF BudgetInv, StateInv, TypeOK
<1>4. \A c, b : CountsFor(tx, c, b) => CountsFor(tx', c, b)
  BY <1>3, CountsStill
<1>5. CountsFor(tx', of, budget')
  BY <1>1, <1>4 DEF BudgetAs
<1>6. ASSUME NEW s \in Session, pc'[s] \in Late PROVE OwnAt(own, then, of, s)'
  <2>1. pc[s] \in Late /\ req'[s] = req[s] /\ OwnAt(own, got, of, s)
    BY <1>1, <1>6 DEF BudgetAs
  <2>2. /\ own[s] \in 1..Len(tx') /\ own[s] \notin of
        /\ tx'[own[s]].value = Rounded(req'[s].value)
    BY <2>1 DEF OwnAt
  <2>3. \A r \in Session \ {s} : pc'[r] \in Late => own[r] # own[s]
    BY <2>1 DEF OwnAt
  <2>4. \A r \in Session : pc'[r] = "bump" => own[s] \notin then[r]
    BY <1>2, <2>1 DEF OwnAt, Late
  <2> QED BY <2>2, <2>3, <2>4 DEF OwnAt
<1>7. ASSUME NEW s \in Session, pc'[s] = "bump" PROVE CountsFor(tx', then[s], seen'[s])
  <2>1. \/ pc[s] = "budget" /\ seen'[s] = budget
        \/ pc[s] = "bump" /\ seen'[s] = seen[s]
    BY <1>7 DEF Late
  <2> QED BY <1>1, <1>2, <1>4, <2>1 DEF BudgetAs
<1>8. BudgetAs(own, then, of)'
  BY <1>5, <1>6, <1>7 DEF BudgetAs
<1> QED BY <1>2, <1>8 DEF BudgetOK

LEMMA CommitDistributionBudget ==
    ASSUME BudgetInv, NEW s \in Session, CommitDistribution(s)
    PROVE  BudgetOK'
<1> DEFINE new == [items |-> Items(s), value |-> Rounded(req[s].value),
                   created |-> req[s].created, day |-> day[s], status |-> "completed"]
           n == Len(tx) + 1
<1>1. /\ pc[s] = "commit" /\ tx' = Append(tx, new) /\ budget' = budget
      /\ StateInv /\ tx \in Seq(TransactionRow) /\ StateInv'
  BY CommitDistributionState DEF CommitDistribution, BudgetInv, StateInv, TypeOK
<1>2. /\ tx' \in Seq(TransactionRow) /\ Len(tx') = n /\ Len(tx) \in Nat
      /\ tx'[n].value = Rounded(req[s].value) /\ \A i \in 1..Len(tx) : tx'[i] = tx[i]
  BY <1>1 DEF StateInv, TypeOK
<1>3. \A r \in Session \ {s} : pc'[r] = pc[r] /\ req'[r] = req[r] /\ seen'[r] = seen[r]
  BY <1>1, Closed DEF CommitDistribution, Step, StateInv, TypeOK
<1>4. pc'[s] # "bump" /\ (pc'[s] \in Late => req' = req)
  BY <1>1, Closed DEF CommitDistribution, Step, StateInv, TypeOK, Late
<1>5. PICK own \in [Session -> Nat], got \in [Session -> SUBSET Nat], of \in SUBSET Nat :
          BudgetAs(own, got, of)
  BY DEF BudgetInv, BudgetOK
<1> HIDE DEF new, n
<1>6. n \in Nat /\ n \notin 1..Len(tx) /\ n \in 1..Len(tx') /\ 1..Len(tx) \subseteq 1..Len(tx')
      /\ Len(tx) <= Len(tx')
  BY <1>2 DEF n
<1>7. PICK mine \in [Session -> Nat] :
          mine[s] = n /\ \A r \in Session \ {s} : mine[r] = own[r]
  <2> DEFINE next == [own EXCEPT ![s] = n]
  <2>1. next \in [Session -> Nat] /\ next[s] = n /\ \A r \in Session \ {s} : next[r] = own[r]
    BY <1>6
  <2> QED BY <2>1
<1>8. \A c, b : CountsFor(tx, c, b) => CountsFor(tx', c, b) /\ n \notin c
  <2> SUFFICES ASSUME NEW c, NEW b, CountsFor(tx, c, b)
               PROVE  CountsFor(tx', c, b) /\ n \notin c
    OBVIOUS
  <2>1. CountsFor(tx', c, b)
    BY <1>1, <1>2, <1>6, CountsStill
  <2>2. n \notin c
    BY <1>6 DEF CountsFor
  <2> QED BY <2>1, <2>2
<1>9. \A r \in Session \ {s} : pc[r] \in Late => own[r] \in 1..Len(tx)
  BY <1>5 DEF BudgetAs, OwnAt
<1>10. CountsFor(tx', of, budget') /\ n \notin of
  BY <1>1, <1>5, <1>8 DEF BudgetAs
<1>11. \A r \in Session : pc'[r] = "bump" => CountsFor(tx', got[r], seen'[r]) /\ n \notin got[r]
  BY <1>3, <1>4, <1>5, <1>8 DEF BudgetAs
<1>12. ASSUME NEW r \in Session, pc'[r] \in Late PROVE OwnAt(mine, got, of, r)'
  <2>1. CASE r = s
    <3>1. mine[r] \in 1..Len(tx') /\ mine[r] \notin of /\ tx'[mine[r]].value = Rounded(req'[r].value)
      BY <1>2, <1>4, <1>6, <1>7, <1>10, <1>12, <2>1
    <3>2. \A t \in Session \ {r} : pc'[t] \in Late => mine[t] # mine[r]
      BY <1>3, <1>6, <1>7, <1>9, <2>1
    <3>3. \A t \in Session : pc'[t] = "bump" => mine[r] \notin got[t]
      BY <1>7, <1>11, <2>1
    <3> QED BY <3>1, <3>2, <3>3 DEF OwnAt
  <2>2. CASE r # s
    <3>1. r \in Session \ {s} /\ pc[r] \in Late /\ mine[r] = own[r] /\ req'[r] = req[r]
          /\ OwnAt(own, got, of, r)
      BY <1>3, <1>5, <1>7, <1>12, <2>2 DEF BudgetAs
    <3>2. own[r] \in 1..Len(tx) /\ own[r] \notin of /\ tx[own[r]].value = Rounded(req[r].value)
      BY <3>1 DEF OwnAt
    <3>3. mine[r] \in 1..Len(tx') /\ mine[r] \notin of /\ tx'[mine[r]].value = Rounded(req'[r].value)
      BY <1>2, <1>6, <3>1, <3>2
    <3>4. \A t \in Session \ {r} : pc'[t] \in Late => mine[t] # mine[r]
      <4> SUFFICES ASSUME NEW t \in Session \ {r}, pc'[t] \in Late PROVE mine[t] # mine[r]
        OBVIOUS
      <4>1. CASE t = s
        BY <1>6, <1>7, <3>1, <3>2, <4>1
      <4>2. CASE t # s
        BY <1>3, <1>7, <3>1, <4>2 DEF OwnAt
      <4> QED BY <4>1, <4>2
    <3>5. \A t \in Session : pc'[t] = "bump" => mine[r] \notin got[t]
      BY <1>3, <1>4, <3>1 DEF OwnAt
    <3> QED BY <3>3, <3>4, <3>5 DEF OwnAt
  <2> QED BY <2>1, <2>2
<1>13. BudgetAs(mine, got, of)'
  BY <1>10, <1>11, <1>12 DEF BudgetAs
<1> QED BY <1>7, <1>13 DEF BudgetOK

LEMMA BumpBudgetBudget ==
    ASSUME BudgetInv, NEW s \in Session, BumpBudget(s)
    PROVE  BudgetOK'
<1>1. /\ pc[s] = "bump" /\ budget' = Rounded(100 * seen[s] + req[s].value)
      /\ CloseSession(s) /\ tx' = tx /\ StateInv /\ tx \in Seq(TransactionRow)
  BY DEF BumpBudget, BudgetInv, StateInv, TypeOK
<1>2. /\ pc'[s] = "idle"
      /\ \A r \in Session \ {s} : pc'[r] = pc[r] /\ req'[r] = req[r] /\ seen'[r] = seen[r]
  BY <1>1, Closed
<1>3. seen[s] \in Int /\ req[s].value \in Int
  BY <1>1 DEF StateInv, TypeOK, WorkOK, WorkAt
<1>4. PICK own \in [Session -> Nat], got \in [Session -> SUBSET Nat], of \in SUBSET Nat :
          BudgetAs(own, got, of)
  BY DEF BudgetInv, BudgetOK
<1> DEFINE more == got[s] \cup {own[s]}
<1>5. OwnAt(own, got, of, s) /\ CountsFor(tx, got[s], seen[s])
  BY <1>1, <1>4 DEF BudgetAs, Late
<1>6. own[s] \in 1..Len(tx) /\ own[s] \notin got[s] /\ tx[own[s]].value = Rounded(req[s].value)
  BY <1>1, <1>5 DEF OwnAt
<1>7. CountsFor(tx, more, budget')
  BY <1>1, <1>3, <1>5, <1>6, CountsMore
<1>8. more \in SUBSET Nat
  OBVIOUS
<1>9. ASSUME NEW r \in Session, pc'[r] \in Late PROVE OwnAt(own, got, more, r)'
  <2>1. r \in Session \ {s} /\ pc[r] \in Late /\ req'[r] = req[r] /\ OwnAt(own, got, of, r)
    BY <1>2, <1>4, <1>9 DEF BudgetAs, Late
  <2>2. own[r] \notin more
    BY <1>1, <2>1 DEF OwnAt, Late
  <2> HIDE DEF more
  <2>3. \A t \in Session \ {r} : pc'[t] \in Late => own[t] # own[r]
    BY <1>2, <2>1 DEF OwnAt, Late
  <2>4. \A t \in Session : pc'[t] = "bump" => own[r] \notin got[t]
    BY <1>2, <2>1 DEF OwnAt
  <2>5. own[r] \in 1..Len(tx') /\ tx'[own[r]].value = Rounded(req'[r].value)
    BY <1>1, <2>1 DEF OwnAt
  <2> QED BY <2>2, <2>3, <2>4, <2>5 DEF OwnAt
<1> HIDE DEF more
<1>10. \A r \in Session : pc'[r] = "bump" => CountsFor(tx', got[r], seen'[r])
  BY <1>1, <1>2, <1>4 DEF BudgetAs
<1>11. BudgetAs(own, got, more)'
  BY <1>1, <1>7, <1>9, <1>10 DEF BudgetAs
<1> QED BY <1>8, <1>11 DEF BudgetOK

LEMMA BudgetStep == BudgetInv /\ [Next]_vars => BudgetInv'
<1> SUFFICES ASSUME BudgetInv, [Next]_vars PROVE BudgetOK'
  BY StateStep DEF BudgetInv
<1>0. StateInv /\ tx \in Seq(TransactionRow) /\ StateInv'
  BY StateStep DEF BudgetInv, StateInv, TypeOK
<1>1. CASE UNCHANGED vars \/ PeriodPasses
  BY <1>0, <1>1, BudgetQuiet DEF vars, PeriodPasses, rows, Late
<1>2. ASSUME NEW s \in Session, Rollback(s) PROVE BudgetOK'
  <2>1. /\ UNCHANGED rows /\ CloseSession(s)
    BY <1>2 DEF Rollback
  <2>2. pc'[s] = "idle" /\ \A r \in Session \ {s} :
           pc'[r] = pc[r] /\ req'[r] = req[r] /\ seen'[r] = seen[r]
    BY <1>0, <2>1, Closed
  <2> QED BY <1>0, <2>1, <2>2, BudgetQuiet DEF rows, Late
<1>3. ASSUME NEW s \in Session, CommitVoid(s) PROVE BudgetOK'
  <2>1. /\ budget' = budget /\ CloseSession(s) /\ pc[s] = "flush"
        /\ tx' = [tx EXCEPT ![req[s].id].status = "voided"]
    BY <1>3 DEF CommitVoid
  <2>2. pc'[s] = "idle" /\ \A r \in Session \ {s} :
           pc'[r] = pc[r] /\ req'[r] = req[r] /\ seen'[r] = seen[r]
    BY <1>0, <2>1, Closed
  <2>3. Len(tx') = Len(tx) /\ \A i \in 1..Len(tx) : tx'[i].value = tx[i].value
    <3>1. \A i \in 1..Len(tx) : tx[i] \in TransactionRow
      BY <1>0
    <3> QED BY <1>0, <2>1, <3>1 DEF TransactionRow
  <2> QED BY <1>0, <2>1, <2>2, <2>3, BudgetQuiet DEF Late
<1>4. ASSUME NEW s \in Session, ReadBudget(s) PROVE BudgetOK'
  <2>1. /\ pc[s] = "budget" /\ seen'[s] = budget /\ UNCHANGED <<rows, req>>
        /\ \A r \in Session \ {s} : pc'[r] = pc[r] /\ seen'[r] = seen[r]
    BY <1>0, <1>4 DEF ReadBudget, Step, StateInv, TypeOK
  <2> QED BY <1>0, <2>1, BudgetQuiet DEF rows, Late
<1>5. ASSUME NEW s \in Session,
             \/ \E b \in Baskets : ArriveDistribution(s, b)
             \/ \E i \in 1..Len(tx) : ArriveVoid(s, i)
      PROVE  BudgetOK'
  <2>1. /\ UNCHANGED <<rows, seen>> /\ pc'[s] \in {"rules", "restore"}
        /\ \A r \in Session \ {s} : pc'[r] = pc[r] /\ req'[r] = req[r]
    BY <1>0, <1>5 DEF ArriveDistribution, ArriveVoid, ArriveVoidOn, Step, StateInv, TypeOK
  <2> QED BY <1>0, <2>1, BudgetQuiet DEF rows, Late
<1>6. ASSUME NEW s \in Session,
             \/ ReadRules(s) \/ LoadUsage(s) \/ CreateUsage(s) \/ PlanItem(s)
             \/ InsertTransaction(s) \/ Deduct(s) \/ RestoreItem(s)
             \/ \E u \in Row : FlushUsage(s, u)
      PROVE  BudgetOK'
  <2>1. /\ UNCHANGED <<rows, req, seen>>
        /\ \A r \in Session \ {s} : pc'[r] = pc[r]
        /\ pc'[s] \notin Late
    BY <1>0, <1>6
       DEF ReadRules, LoadUsage, CreateUsage, PlanItem, InsertTransaction, Deduct, RestoreItem,
           FlushUsage, NextItem, Step, StateInv, TypeOK, Late
  <2> QED BY <1>0, <2>1, BudgetQuiet DEF rows, Late
<1>7. ASSUME NEW s \in Session, Progress(s) \/ Disconnect(s) PROVE BudgetOK'
  BY <1>2, <1>3, <1>4, <1>6, <1>7, CommitDistributionBudget, BumpBudgetBudget
     DEF Progress, Disconnect, UniqueViolation, Refuse, DeadlockVictim
<1> QED BY <1>1, <1>5, <1>7 DEF Next

\* The budget is bumped in a second transaction that may be lost with the process, or
\* overwrite a concurrent bump (welfare_transactions.py:46): whichever of them are lost,
\* and whatever their signs, the budget is the value of some of the distributions, each
\* counted once, up to a hundredth of rounding for each.
THEOREM BudgetCountsEachOnce == Spec => []BudgetCountsOnce
<1>1. Init => BudgetInv
  <2> SUFFICES ASSUME Init PROVE BudgetOK
    BY StateInit DEF BudgetInv
  <2>1. tx = << >> /\ budget = 0 /\ \A s \in Session : pc[s] = "idle"
    BY DEF Init
  <2>2. CountsFor(tx, {}, budget)
    <3>1. SumFunctionOnSet(Values(tx), {}) = 0 /\ Cardinality({}) = 0
      BY SumEmpty, FS_EmptySet
    <3> QED BY <2>1, <3>1 DEF CountsFor
  <2> DEFINE own == [s \in Session |-> 0]
             got == [s \in Session |-> {}]
  <2>3. own \in [Session -> Nat] /\ got \in [Session -> SUBSET Nat] /\ {} \in SUBSET Nat
    OBVIOUS
  <2> HIDE DEF own, got
  <2>4. BudgetAs(own, got, {})
    BY <2>1, <2>2 DEF BudgetAs, Late
  <2> QED BY <2>3, <2>4 DEF BudgetOK
<1>2. BudgetInv => BudgetCountsOnce
  <2> SUFFICES ASSUME BudgetInv PROVE BudgetCountsOnce
    OBVIOUS
  <2>1. PICK c : CountsFor(tx, c, budget)
    BY DEF BudgetInv, BudgetOK, BudgetAs
  <2> QED BY <2>1 DEF BudgetCountsOnce, CountsFor, Values
<1> QED BY <1>1, <1>2, BudgetStep, PTL DEF Spec

-----------------------------------------------------------------------------
(***************************************************************************)
(* Recorded usage is what the transactions that stand have taken.          *)
(***************************************************************************)

\* What a request has added to the object of row u and not published, or taken from it.
Done(s) ==
    IF pc[s] \in {"deduct", "restore"} \/ (pc[s] = "create" /\ req[s].op = "void")
    THEN idx[s] - 1
    ELSE IF pc[s] \in {"commit", "flush"} THEN Len(Items(s)) ELSE 0

Ahead(s, u) == Taken(Items(s), day[s], u, Done(s))

\* Requests have come one after the other, and no void has met another period.
Calm == /\ ~raced
        /\ \A i \in 1..Len(tx) : tx[i].status = "voided" => tx[i].created = tx[i].day

AllStand == \A i \in 1..Len(tx) : tx[i].status = "completed"

\* An object agrees with the row it was loaded from.
Meets(s, u) ==
    /\ Calm => obj[s][u] = IF req[s].op = "void" THEN Used(u) - Ahead(s, u)
                                                 ELSE Used(u) + Ahead(s, u)
    /\ AllStand => obj[s][u] <= Given(u) + Ahead(s, u)

SumsAt(s) == \A u \in Row : obj[s][u] # Nil => Meets(s, u)

SumsOK == \A s \in Session : SumsAt(s)

RowsOK ==
    \A u \in Row : /\ Calm => Used(u) = Given(u)
                   /\ AllStand => Used(u) <= Given(u)

\* Objects live as long as the transaction; a row that is held is loaded, and in a
\* distribution what was written is what was loaded; deducted rows are held.
HoldAt(s) ==
    /\ pc[s] \in {"idle", "rules", "budget", "bump"} => obj[s] = NoObjects
    /\ pc[s] = "create" => obj[s][Here(s)] = Nil
    /\ \A u \in Row : lock[u] = s =>
          /\ obj[s][u] \in Int
          /\ req[s].op = "distribute" => dirty[u] = obj[s][u]
    /\ pc[s] = "deduct" => \A j \in 1..idx[s] - 1 : lock[RowAt(s, j)] = s
    /\ pc[s] = "commit" => \A j \in DOMAIN Items(s) : lock[RowAt(s, j)] = s

HoldOK == \A s \in Session : HoldAt(s)

\* As long as requests have come one after the other, one of them is at work, and a
\* void finds its transaction completed.
SoloOK ==
    ~raced => \A s \in Session : pc[s] # "idle" =>
        /\ \A r \in Session \ {s} : pc[r] = "idle"
        /\ req[s].op = "void" => tx[req[s].id].status = "completed"

AccountInv == StateInv /\ HoldOK /\ SoloOK /\ SumsOK /\ RowsOK

LEMMA DoneItems ==
    ASSUME StateInv, NEW s \in Session, pc[s] # "idle", NEW u
    PROVE  /\ Items(s) \in Seq(Item) /\ Len(Items(s)) \in Nat /\ idx[s] \in 1..Len(Items(s))
           /\ Done(s) \in 0..Len(Items(s)) /\ Ahead(s, u) \in Nat
<1>1. Items(s) \in Seq(Item) /\ Len(Items(s)) \in Nat /\ idx[s] \in 1..Len(Items(s))
  BY SessionItems
<1>2. Done(s) \in 0..Len(Items(s))
  BY <1>1 DEF Done
<1>3. Taken(Items(s), day[s], u, Done(s)) \in Nat
  BY <1>1, <1>2, OnFinite
<1> QED BY <1>1, <1>2, <1>3 DEF Ahead

\* Nobody takes the rows r holds, nor writes them.
Keeps(r) == \A u \in Row : /\ lock'[u] = r <=> lock[u] = r
                           /\ lock[u] = r => dirty'[u] = dirty[u]

LEMMA OthersHold ==
    ASSUME StateInv, NEW r \in Session, HoldAt(r), Same(r), Keeps(r)
    PROVE  HoldAt(r)'
<1>1. ASSUME pc[r] \in {"deduct", "commit"}, NEW j \in DOMAIN Items(r)
      PROVE  lock'[RowAt(r, j)] = r <=> lock[RowAt(r, j)] = r
  <2>1. RowAt(r, j) \in Row
    BY <1>1, RowsAt
  <2> QED BY <2>1 DEF Keeps
<1>2. Items(r)' = Items(r) /\ Here(r)' = Here(r) /\ \A j : RowAt(r, j)' = RowAt(r, j)
  BY DEF Same, Items, Here, RowAt
<1>3. pc[r] = "deduct" => \A j \in 1..idx[r] - 1 : j \in DOMAIN Items(r)
  BY SessionItems
<1>4. \A u \in Row : lock'[u] = r =>
          /\ obj'[r][u] \in Int
          /\ req'[r].op = "distribute" => dirty'[u] = obj'[r][u]
  BY DEF HoldAt, Same, Keeps
<1>5. pc'[r] = "deduct" => \A j \in 1..idx'[r] - 1 : lock'[RowAt(r, j)'] = r
  BY <1>1, <1>2, <1>3 DEF HoldAt, Same
<1>6. pc'[r] = "commit" => \A j \in DOMAIN Items(r)' : lock'[RowAt(r, j)'] = r
  BY <1>1, <1>2 DEF HoldAt, Same
<1>7. /\ pc'[r] \in {"idle", "rules", "budget", "bump"} => obj'[r] = NoObjects
      /\ pc'[r] = "create" => obj'[r][Here(r)'] = Nil
  BY <1>2 DEF HoldAt, Same
<1> QED BY <1>4, <1>5, <1>6, <1>7 DEF HoldAt, NoObjects

\* As long as the usage and the transactions are what they were.
Steady == UNCHANGED <<used, tx>> /\ (raced => raced')

LEMMA SteadyRows ==
    ASSUME Steady, NEW u
    PROVE  /\ Used(u)' = Used(u) /\ Given(u)' = Given(u)
           /\ Calm' => Calm
           /\ AllStand' => AllStand
BY DEF Steady, Used, Given, Calm, AllStand

LEMMA SteadySums ==
    ASSUME Steady, NEW r \in Session, SumsAt(r), Same(r)
    PROVE  SumsAt(r)'
<1>1. Items(r)' = Items(r) /\ Done(r)' = Done(r)
  BY DEF Same, Items, Done
<1>2. \A u : Ahead(r, u)' = Ahead(r, u)
  BY <1>1 DEF Ahead, Same
<1> SUFFICES ASSUME NEW u \in Row, obj'[r][u] # Nil PROVE Meets(r, u)'
  BY DEF SumsAt
<1>3. Meets(r, u)
  BY DEF SumsAt, Same
<1> QED BY <1>2, <1>3, SteadyRows DEF Meets, Same

LEMMA OneAccount ==
    ASSUME AccountInv, Steady, NEW s \in Session,
           \A r \in Session \ {s} : Same(r) /\ Keeps(r),
           HoldAt(s)', SumsAt(s)'
    PROVE  HoldOK' /\ SumsOK' /\ RowsOK'
<1>1. ASSUME NEW r \in Session \ {s} PROVE HoldAt(r)' /\ SumsAt(r)'
  <2>1. StateInv /\ HoldAt(r) /\ SumsAt(r) /\ Same(r) /\ Keeps(r)
    BY DEF AccountInv, HoldOK, SumsOK
  <2> QED BY <2>1, OthersHold, SteadySums
<1>2. RowsOK'
  BY SteadyRows DEF AccountInv, RowsOK
<1> QED BY <1>1, <1>2 DEF HoldOK, SumsOK

\* Requests that go on one after the other.
LEMMA SoloStill ==
    ASSUME SoloOK, raced => raced',
           ~raced' => \A r \in Session : pc'[r] # "idle" =>
              /\ pc[r] # "idle" /\ req'[r] = req[r]
              /\ req[r].op = "void" => tx'[req[r].id].status = tx[req[r].id].status
    PROVE  SoloOK'
BY DEF SoloOK

\* The rows others hold when a session takes one that is free or its own.
Writes(s, u, v) ==
    /\ lock[u] \in {Nil, s}
    /\ lock' = [lock EXCEPT ![u] = s] /\ dirty' = [dirty EXCEPT ![u] = v]

LEMMA OthersKeep ==
    ASSUME StateInv, NEW s \in Session, NEW u \in Row, NEW v, Writes(s, u, v)
    PROVE  \A r \in Session \ {s} : Keeps(r)
<1>1. lock \in [Row -> Session \cup {Nil}] /\ dirty \in [Row -> Int \cup {Nil}]
  BY DEF StateInv, TypeOK
<1> QED BY <1>1, NilAssumption DEF Keeps, Writes

LEMMA FreeRow ==
    ASSUME StateInv, NEW s \in Session, pc[s] \in {"create", "deduct"}, ~Blocked(s)
    PROVE  lock[Here(s)] \in {Nil, s} /\ Here(s) \in Row
<1>1. Here(s) \in Row
  BY SessionItems, RowsAt
<1>2. Awaited(s) = {lock[Here(s)]}
  BY DEF Awaited
<1> QED BY <1>1, <1>2 DEF Blocked

-----------------------------------------------------------------------------

LEMMA ArriveAccount ==
    ASSUME AccountInv, NEW s \in Session,
           \/ \E b \in Baskets : ArriveDistribution(s, b)
           \/ \E i \in 1..Len(tx) : ArriveVoid(s, i)
    PROVE  HoldOK' /\ SumsOK' /\ RowsOK' /\ SoloOK'
<1>1. StateInv /\ HoldAt(s)
  BY DEF AccountInv, HoldOK
<1>2. /\ UNCHANGED <<used, tx, lock, dirty, obj>>
      /\ pc[s] = "idle" /\ pc'[s] \in {"rules", "restore"}
      /\ raced' = (raced \/ \E r \in Session : pc[r] # "idle")
      /\ req'[s].op = "void" => /\ req'[s].id \in 1..Len(tx)
                                /\ tx[req'[s].id].status = "completed"
  BY <1>1 DEF ArriveDistribution, ArriveVoid, ArriveVoidOn, Begin, Step, rows, StateInv, TypeOK
<1>3. \A r \in Session \ {s} : Same(r)
  BY <1>1 DEF ArriveDistribution, ArriveVoid, ArriveVoidOn, Step, Same, StateInv, TypeOK
<1>4. \A r \in Session : Keeps(r)
  BY <1>2 DEF Keeps
<1>5. obj'[s] = NoObjects /\ \A u \in Row : lock'[u] # s
  <2>1. \A u \in Row : lock[u] # s
    BY <1>1, <1>2 DEF StateInv, LockOK, Holding
  <2> QED BY <1>1, <1>2, <2>1 DEF HoldAt
<1>6. HoldAt(s)' /\ SumsAt(s)'
  BY <1>2, <1>5 DEF HoldAt, SumsAt, NoObjects
<1>7. SoloOK'
  <2> SUFFICES ASSUME ~raced', NEW t \in Session, pc'[t] # "idle"
               PROVE  /\ \A r \in Session \ {t} : pc'[r] = "idle"
                      /\ req'[t].op = "void" => tx'[req'[t].id].status = "completed"
    BY DEF SoloOK
  <2>1. ~raced /\ \A r \in Session : pc[r] = "idle"
    BY <1>2
  <2>2. t = s
    BY <1>3, <2>1 DEF Same
  <2> QED BY <1>2, <1>3, <2>1, <2>2 DEF Same
<1>8. Steady
  BY <1>2 DEF Steady
<1> QED BY <1>3, <1>4, <1>6, <1>7, <1>8, OneAccount

LEMMA PhaseAccount ==
    ASSUME AccountInv, NEW s \in Session,
           ReadRules(s) \/ InsertTransaction(s) \/ ReadBudget(s)
    PROVE  HoldOK' /\ SumsOK' /\ RowsOK' /\ SoloOK'
<1>1. StateInv /\ HoldAt(s) /\ SoloOK /\ SumsAt(s)
  BY DEF AccountInv, HoldOK, SumsOK
<1>2. UNCHANGED <<used, tx, lock, dirty, obj, req, idx, raced>>
  BY DEF ReadRules, InsertTransaction, ReadBudget, rows
<1>3. \A r \in Session \ {s} : Same(r)
  BY <1>1 DEF ReadRules, InsertTransaction, ReadBudget, Step, Same, StateInv, TypeOK
<1>4. \A r \in Session : Keeps(r)
  BY <1>2 DEF Keeps
<1>5. HoldAt(s)' /\ SumsAt(s)' /\ pc[s] # "idle"
  <2>1. CASE ReadRules(s) \/ ReadBudget(s)
    <3>1. pc[s] \in {"rules", "budget"} /\ pc'[s] \in {"plan", "bump"}
      BY <1>1, <2>1 DEF ReadRules, ReadBudget, Step, StateInv, TypeOK
    <3>2. obj'[s] = NoObjects /\ \A u \in Row : lock'[u] # s
      <4>1. \A u \in Row : lock[u] # s
        BY <1>1, <3>1 DEF StateInv, LockOK, Holding
      <4> QED BY <1>1, <1>2, <3>1, <4>1 DEF HoldAt
    <3> QED BY <3>1, <3>2 DEF HoldAt, SumsAt, NoObjects
  <2>2. CASE InsertTransaction(s)
    <3>1. pc[s] = "insert" /\ pc'[s] = "deduct" /\ day' = day /\ idx[s] = 1
      BY <1>1, <2>2 DEF InsertTransaction, Step, StateInv, TypeOK, WorkOK, WorkAt
    <3>2. HoldAt(s)'
      BY <1>1, <1>2, <3>1 DEF HoldAt
    <3>3. Items(s)' = Items(s) /\ Done(s) = 0 /\ Done(s)' = 0
      BY <1>2, <3>1 DEF Items, Done
    <3>4. \A u : Ahead(s, u)' = Ahead(s, u)
      BY <3>1, <3>3 DEF Ahead
    <3>5. SumsAt(s)'
      <4> SUFFICES ASSUME NEW u \in Row, obj'[s][u] # Nil PROVE Meets(s, u)'
        BY DEF SumsAt
      <4>1. Meets(s, u) /\ Steady
        BY <1>1, <1>2 DEF SumsAt, Steady
      <4> QED BY <1>2, <3>4, <4>1, SteadyRows DEF Meets
    <3> QED BY <3>1, <3>2, <3>5
  <2> QED BY <2>1, <2>2
<1>6. SoloOK'
  <2>1. \A r \in Session : pc'[r] # "idle" => pc[r] # "idle"
    BY <1>3, <1>5 DEF Same
  <2> QED BY <1>1, <1>2, <2>1, SoloStill
<1>7. Steady
  BY <1>2 DEF Steady
<1> QED BY <1>3, <1>4, <1>5, <1>6, <1>7, OneAccount

\* The items behind the one a session loads are about other rows.
LEMMA NotTakenYet ==
    ASSUME StateInv, NEW s \in Session, obj[s][Here(s)] = Nil,
           pc[s] \in {"plan", "create", "restore"}
    PROVE  Ahead(s, Here(s)) = 0
<1>1. CASE Done(s) = 0
  BY <1>1, NothingTaken DEF Ahead
<1>2. CASE Done(s) # 0
  <2>1. Done(s) = idx[s] - 1
    BY <1>2 DEF Done
  <2>2. \A j \in 1..Done(s) : obj[s][RowAt(s, j)] \in Int
    BY <2>1 DEF StateInv, LoadedOK, LoadedAt
  <2>3. \A j \in 1..Done(s) : ItemRow(Items(s)[j], day[s]) # Here(s)
    BY <2>2, NilAssumption DEF RowAt
  <2> QED BY <2>3, NoneTaken DEF Ahead
<1> QED BY <1>1, <1>2

\* The object of its row that a session gets agrees with it.
LEMMA Fresh ==
    ASSUME AccountInv, NEW s \in Session, NEW v,
           pc[s] \in {"plan", "create", "restore"}, obj[s][Here(s)] = Nil,
           v = Used(Here(s))
    PROVE  /\ Calm => v = IF req[s].op = "void" THEN Used(Here(s)) - Ahead(s, Here(s))
                                                ELSE Used(Here(s)) + Ahead(s, Here(s))
           /\ AllStand => v <= Given(Here(s)) + Ahead(s, Here(s))
<1>1. StateInv /\ RowsOK /\ tx \in Seq(TransactionRow)
  BY DEF AccountInv, StateInv, TypeOK
<1>2. Here(s) \in Row
  BY <1>1, SessionItems, RowsAt
<1>3. Ahead(s, Here(s)) = 0
  BY <1>1, NotTakenYet
<1>4. Used(Here(s)) \in Int
  BY <1>1, <1>2 DEF StateInv, TypeOK, Used
<1>5. Given(Here(s)) \in Nat
  BY <1>1, GivenParts, LinesFinite
<1> QED BY <1>1, <1>2, <1>3, <1>4, <1>5 DEF RowsOK

LEMMA LoadUsageAccount ==
    ASSUME AccountInv, NEW s \in Session, LoadUsage(s)
    PROVE  HoldOK' /\ SumsOK' /\ RowsOK' /\ SoloOK'
<1>1. /\ StateInv /\ HoldAt(s) /\ SoloOK /\ SumsAt(s)
      /\ pc[s] \in {"plan", "restore"} /\ obj[s][Here(s)] = Nil
      /\ UNCHANGED <<used, tx, lock, dirty, req, idx, day, raced>>
  BY DEF AccountInv, HoldOK, SumsOK, LoadUsage, rows
<1>2. /\ DOMAIN pc = Session /\ DOMAIN obj = Session /\ obj[s] \in [Row -> Int \cup {Nil}]
      /\ Here(s) \in Row /\ lock[Here(s)] # s
      /\ req[s].op \in {"distribute", "void"}
      /\ pc[s] = "restore" <=> req[s].op = "void"
  <2>1. Here(s) \in Row
    BY <1>1, SessionItems, RowsAt
  <2>2. WorkAt(s) /\ req[s].op \in {"distribute", "void"}
    BY <1>1 DEF StateInv, WorkOK, TypeOK
  <2> QED BY <1>1, <2>1, <2>2, NilAssumption DEF StateInv, TypeOK, HoldAt, WorkAt, Distributing
<1>3. /\ \A r \in Session \ {s} : Same(r)
      /\ Items(s)' = Items(s) /\ Here(s)' = Here(s)
  BY <1>1, <1>2 DEF LoadUsage, Same, Items, Here
<1>4. HoldAt(s)' /\ SumsAt(s)' /\ pc'[s] # "idle"
  <2>1. CASE pc' = [pc EXCEPT ![s] = "create"] /\ obj' = obj
    <3>1. pc'[s] = "create"
      BY <1>2, <2>1
    <3>2. HoldAt(s)'
      BY <1>1, <1>3, <2>1, <3>1 DEF HoldAt
    <3>3. Done(s)' = Done(s)
      BY <1>1, <1>2, <1>3, <3>1 DEF Done
    <3>4. \A u : Ahead(s, u)' = Ahead(s, u)
      BY <1>1, <1>3, <3>3 DEF Ahead
    <3>5. SumsAt(s)'
      <4> SUFFICES ASSUME NEW u \in Row, obj'[s][u] # Nil PROVE Meets(s, u)'
        BY DEF SumsAt
      <4>1. Meets(s, u) /\ Steady
        BY <1>1, <2>1 DEF SumsAt, Steady
      <4> QED BY <1>1, <2>1, <3>4, <4>1, SteadyRows DEF Meets
    <3> QED BY <3>1, <3>2, <3>5
  <2>2. CASE /\ used[Here(s)] # Nil /\ pc' = pc
             /\ obj' = [obj EXCEPT ![s] = [obj[s] EXCEPT ![Here(s)] = used[Here(s)]]]
    <3>1. /\ obj'[s][Here(s)] = used[Here(s)]
          /\ \A u \in Row \ {Here(s)} : obj'[s][u] = obj[s][u]
      BY <1>2, <2>2
    <3>2. used[Here(s)] = Used(Here(s))
      BY <2>2 DEF Used
    <3>3. HoldAt(s)'
      <4>1. \A u \in Row : lock'[u] = s =>
               /\ obj'[s][u] \in Int
               /\ req'[s].op = "distribute" => dirty'[u] = obj'[s][u]
        BY <1>1, <1>2, <3>1 DEF HoldAt
      <4> QED BY <1>1, <2>2, <4>1 DEF HoldAt
    <3>4. Done(s)' = Done(s)
      BY <1>1, <1>3, <2>2 DEF Done
    <3>5. \A u : Ahead(s, u)' = Ahead(s, u)
      BY <1>1, <1>3, <3>4 DEF Ahead
    <3>6. SumsAt(s)'
      <4> SUFFICES ASSUME NEW u \in Row, obj'[s][u] # Nil PROVE Meets(s, u)'
        BY DEF SumsAt
      <4>1. Steady
        BY <1>1 DEF Steady
      <4>2. CASE u = Here(s)
        <5>1. /\ Calm => used[u] = IF req[s].op = "void" THEN Used(u) - Ahead(s, u)
                                                         ELSE Used(u) + Ahead(s, u)
              /\ AllStand => used[u] <= Given(u) + Ahead(s, u)
          BY <1>1, <3>2, <4>2, Fresh
        <5> QED BY <1>1, <3>1, <3>5, <4>1, <4>2, <5>1, SteadyRows DEF Meets
      <4>3. CASE u # Here(s)
        <5>1. Meets(s, u) /\ obj'[s][u] = obj[s][u]
          BY <1>1, <3>1, <4>3 DEF SumsAt
        <5> QED BY <1>1, <3>5, <4>1, <5>1, SteadyRows DEF Meets
      <4> QED BY <4>2, <4>3
    <3> QED BY <1>1, <2>2, <3>3, <3>6
  <2>3. Visible(s, Here(s)) = used[Here(s)]
    BY <1>2 DEF Visible
  <2> QED BY <2>1, <2>2, <2>3 DEF LoadUsage
<1>5. (\A r \in Session : Keeps(r)) /\ Steady
  BY <1>1 DEF Keeps, Steady
<1>6. SoloOK'
  <2>1. \A r \in Session : pc'[r] # "idle" => pc[r] # "idle"
    BY <1>1, <1>3 DEF Same
  <2> QED BY <1>1, <2>1, SoloStill
<1> QED BY <1>3, <1>4, <1>5, <1>6, OneAccount

LEMMA CreateUsageAccount ==
    ASSUME AccountInv, NEW s \in Session, CreateUsage(s)
    PROVE  HoldOK' /\ SumsOK' /\ RowsOK' /\ SoloOK'
<1> DEFINE to == IF req[s].op = "void" THEN "restore" ELSE "plan"
<1>1. /\ StateInv /\ HoldAt(s) /\ SoloOK /\ SumsAt(s)
      /\ pc[s] = "create" /\ ~Blocked(s) /\ used[Here(s)] = Nil
      /\ UNCHANGED <<used, tx, req, idx, day, seen, raced>>
      /\ lock' = [lock EXCEPT ![Here(s)] = s] /\ dirty' = [dirty EXCEPT ![Here(s)] = 0]
      /\ obj' = [obj EXCEPT ![s] = [obj[s] EXCEPT ![Here(s)] = 0]]
      /\ pc' = [pc EXCEPT ![s] = to]
  BY DEF AccountInv, HoldOK, SumsOK, CreateUsage, rows
<1>2. /\ DOMAIN pc = Session /\ DOMAIN obj = Session /\ obj[s] \in [Row -> Int \cup {Nil}]
      /\ lock \in [Row -> Session \cup {Nil}] /\ dirty \in [Row -> Int \cup {Nil}]
      /\ Here(s) \in Row /\ lock[Here(s)] \in {Nil, s}
  BY <1>1, FreeRow DEF StateInv, TypeOK
<1>3. /\ pc'[s] = to /\ obj'[s][Here(s)] = 0 /\ lock'[Here(s)] = s /\ dirty'[Here(s)] = 0
      /\ \A u \in Row \ {Here(s)} : /\ obj'[s][u] = obj[s][u] /\ lock'[u] = lock[u]
                                    /\ dirty'[u] = dirty[u]
  BY <1>1, <1>2
<1>4. /\ \A r \in Session \ {s} : Same(r) /\ Keeps(r)
      /\ Items(s)' = Items(s) /\ Here(s)' = Here(s)
  <2>1. Writes(s, Here(s), 0)
    BY <1>1, <1>2 DEF Writes
  <2>2. \A r \in Session \ {s} : Keeps(r)
    BY <1>1, <1>2, <2>1, OthersKeep
  <2> QED BY <1>1, <1>2, <2>2 DEF Same, Items, Here
<1>5. HoldAt(s)'
  <2>1. \A u \in Row : lock'[u] = s =>
           /\ obj'[s][u] \in Int
           /\ req'[s].op = "distribute" => dirty'[u] = obj'[s][u]
    BY <1>1, <1>3 DEF HoldAt
  <2> QED BY <1>3, <2>1 DEF HoldAt
<1>6. SumsAt(s)'
  <2>1. Done(s)' = Done(s)
    BY <1>1, <1>3, <1>4 DEF Done
  <2>2. \A u : Ahead(s, u)' = Ahead(s, u)
    BY <1>1, <1>4, <2>1 DEF Ahead
  <2>3. Steady /\ obj[s][Here(s)] = Nil /\ 0 = Used(Here(s))
    BY <1>1 DEF Steady, HoldAt, Used
  <2> SUFFICES ASSUME NEW u \in Row, obj'[s][u] # Nil PROVE Meets(s, u)'
    BY DEF SumsAt
  <2>4. CASE u = Here(s)
    <3>1. /\ Calm => 0 = IF req[s].op = "void" THEN Used(u) - Ahead(s, u)
                                               ELSE Used(u) + Ahead(s, u)
          /\ AllStand => 0 <= Given(u) + Ahead(s, u)
      BY <1>1, <2>3, <2>4, Fresh
    <3> QED BY <1>1, <1>3, <2>2, <2>3, <2>4, <3>1, SteadyRows DEF Meets
  <2>5. CASE u # Here(s)
    <3>1. Meets(s, u) /\ obj'[s][u] = obj[s][u]
      BY <1>1, <1>3, <2>5 DEF SumsAt
    <3> QED BY <1>1, <2>2, <2>3, <3>1, SteadyRows DEF Meets
  <2> QED BY <2>4, <2>5
<1>7. SoloOK'
  <2>1. \A r \in Session : pc'[r] # "idle" => pc[r] # "idle"
    BY <1>1, <1>4 DEF Same
  <2> QED BY <1>1, <2>1, SoloStill
<1>8. Steady
  BY <1>1 DEF Steady
<1> QED BY <1>4, <1>5, <1>6, <1>7, <1>8, OneAccount

LEMMA PlanItemAccount ==
    ASSUME AccountInv, NEW s \in Session, PlanItem(s)
    PROVE  HoldOK' /\ SumsOK' /\ RowsOK' /\ SoloOK'
<1>1. /\ StateInv /\ HoldAt(s) /\ SoloOK /\ SumsAt(s) /\ NextItem(s, "plan", "insert")
      /\ UNCHANGED <<used, tx, lock, dirty, obj, req, day, seen, raced>>
  BY DEF AccountInv, HoldOK, SumsOK, PlanItem, rows
<1>2. PICK to \in {"plan", "insert"}, k \in 1..Len(Items(s)) :
          /\ pc[s] = "plan" /\ pc' = [pc EXCEPT ![s] = to] /\ pc'[s] = to
          /\ idx' = [idx EXCEPT ![s] = k]
  BY <1>1, Looped
<1>3. \A r \in Session \ {s} : Same(r)
  BY <1>1, <1>2 DEF Same, StateInv, TypeOK
<1>4. HoldAt(s)'
  BY <1>1, <1>2 DEF HoldAt
<1>5. SumsAt(s)'
  <2>1. Done(s) = 0 /\ Done(s)' = 0 /\ Items(s)' = Items(s)
    BY <1>1, <1>2 DEF Done, Items
  <2>2. \A u : Ahead(s, u)' = Ahead(s, u)
    BY <1>1, <2>1 DEF Ahead
  <2> SUFFICES ASSUME NEW u \in Row, obj'[s][u] # Nil PROVE Meets(s, u)'
    BY DEF SumsAt
  <2>3. Meets(s, u) /\ Steady
    BY <1>1 DEF SumsAt, Steady
  <2> QED BY <1>1, <2>2, <2>3, SteadyRows DEF Meets
<1>6. SoloOK'
  <2>1. \A r \in Session : pc'[r] # "idle" => pc[r] # "idle"
    BY <1>2, <1>3 DEF Same
  <2> QED BY <1>1, <2>1, SoloStill
<1>7. (\A r \in Session : Keeps(r)) /\ Steady
  BY <1>1 DEF Keeps, Steady
<1> QED BY <1>3, <1>4, <1>5, <1>6, <1>7, OneAccount

\* One item more.
LEMMA AheadMore ==
    ASSUME StateInv, NEW s \in Session, pc[s] \in {"deduct", "restore"},
           req' = req, day' = day, Done(s)' = idx[s], NEW u
    PROVE  /\ Ahead(s, u) \in Nat /\ Qty(s) \in Nat
           /\ Ahead(s, u)' = Ahead(s, u) + (IF u = Here(s) THEN Qty(s) ELSE 0)
<1>1. Items(s)' = Items(s) /\ Done(s) = idx[s] - 1
  BY DEF Items, Done
<1>2. Items(s) \in Seq(Item) /\ idx[s] \in 1..Len(Items(s)) /\ Ahead(s, u) \in Nat
  BY DoneItems
<1>3. Taken(Items(s), day[s], u, idx[s]) = Taken(Items(s), day[s], u, idx[s] - 1)
          + (IF ItemRow(Items(s)[idx[s]], day[s]) = u THEN Items(s)[idx[s]].qty ELSE 0)
  BY <1>2, OneMoreTaken
<1>4. Qty(s) \in Nat
  BY SessionItems, RowsAt DEF Qty
<1> QED BY <1>1, <1>2, <1>3, <1>4 DEF Ahead, Here, Qty

LEMMA DeductAccount ==
    ASSUME AccountInv, NEW s \in Session, Deduct(s)
    PROVE  HoldOK' /\ SumsOK' /\ RowsOK' /\ SoloOK'
<1> DEFINE total == obj[s][Here(s)] + Qty(s)
<1>1. /\ StateInv /\ HoldAt(s) /\ SoloOK /\ SumsAt(s)
      /\ NextItem(s, "deduct", "commit") /\ ~Blocked(s)
      /\ UNCHANGED <<used, tx, req, day, seen, raced>>
      /\ lock' = [lock EXCEPT ![Here(s)] = s] /\ dirty' = [dirty EXCEPT ![Here(s)] = total]
      /\ obj' = [obj EXCEPT ![s] = [obj[s] EXCEPT ![Here(s)] = total]]
  BY DEF AccountInv, HoldOK, SumsOK, Deduct, rows
<1>2. PICK to \in {"deduct", "commit"}, k \in 1..Len(Items(s)) :
          /\ pc[s] = "deduct" /\ pc' = [pc EXCEPT ![s] = to] /\ pc'[s] = to
          /\ idx' = [idx EXCEPT ![s] = k] /\ idx'[s] = k
          /\ \/ to = "deduct" /\ k = idx[s] + 1
             \/ to = "commit" /\ k = 1 /\ idx[s] = Len(Items(s))
  BY <1>1, Looped
<1>3. /\ DOMAIN obj = Session /\ obj[s] \in [Row -> Int \cup {Nil}]
      /\ lock \in [Row -> Session \cup {Nil}] /\ dirty \in [Row -> Int \cup {Nil}]
      /\ Here(s) \in Row /\ lock[Here(s)] \in {Nil, s}
      /\ Here(s) = RowAt(s, idx[s]) /\ obj[s][Here(s)] \in Int /\ Qty(s) \in Nat
      /\ idx[s] \in DOMAIN Items(s) /\ DOMAIN Items(s) = 1..Len(Items(s)) /\ idx[s] \in Nat
      /\ Len(Items(s)) \in Nat
  <2>1. idx[s] \in DOMAIN Items(s) /\ DOMAIN Items(s) = 1..Len(Items(s)) /\ idx[s] \in Nat
        /\ Len(Items(s)) \in Nat
    BY <1>1, <1>2, SessionItems
  <2>2. Here(s) \in Row /\ Here(s) = RowAt(s, idx[s]) /\ Qty(s) \in Nat
    BY <1>1, <1>2, <2>1, RowsAt DEF Qty
  <2>3. obj[s][Here(s)] \in Int
    BY <1>1, <1>2, <2>1, <2>2 DEF StateInv, LoadedOK, LoadedAt
  <2> QED BY <1>1, <1>2, <2>1, <2>2, <2>3, FreeRow DEF StateInv, TypeOK
<1>4. total \in Int
  BY <1>3
<1> HIDE DEF total
<1>5. /\ obj'[s][Here(s)] = total /\ lock'[Here(s)] = s /\ dirty'[Here(s)] = total
      /\ \A u \in Row \ {Here(s)} : /\ obj'[s][u] = obj[s][u] /\ lock'[u] = lock[u]
                                    /\ dirty'[u] = dirty[u]
  BY <1>1, <1>3
<1>6. /\ \A r \in Session \ {s} : Same(r) /\ Keeps(r)
      /\ Items(s)' = Items(s) /\ \A j : RowAt(s, j)' = RowAt(s, j)
  <2>1. \A r \in Session \ {s} : Same(r)
    BY <1>1, <1>2 DEF Same, StateInv, TypeOK
  <2>2. Writes(s, Here(s), total)
    BY <1>1, <1>3 DEF Writes
  <2>3. \A r \in Session \ {s} : Keeps(r)
    BY <1>1, <1>3, <2>2, OthersKeep
  <2> QED BY <1>1, <2>1, <2>3 DEF Items, RowAt
<1>7. HoldAt(s)'
  <2>1. \A u \in Row : lock'[u] = s =>
           /\ obj'[s][u] \in Int
           /\ req'[s].op = "distribute" => dirty'[u] = obj'[s][u]
    BY <1>1, <1>4, <1>5 DEF HoldAt
  <2>2. \A j \in 1..idx[s] : lock'[RowAt(s, j)] = s
    <3> SUFFICES ASSUME NEW j \in 1..idx[s] PROVE lock'[RowAt(s, j)] = s
      OBVIOUS
    <3>1. RowAt(s, j) \in Row
      BY <1>1, <1>2, <1>3, RowsAt
    <3>2. CASE j = idx[s]
      BY <1>3, <1>5, <3>2
    <3>3. CASE j # idx[s]
      <4>1. lock[RowAt(s, j)] = s
        BY <1>1, <1>2, <1>3, <3>3 DEF HoldAt
      <4> QED BY <1>5, <3>1, <4>1
    <3> QED BY <3>2, <3>3
  <2> QED BY <1>2, <1>3, <1>6, <2>1, <2>2 DEF HoldAt
<1>8. SumsAt(s)'
  <2>1. Done(s)' = idx[s] /\ req[s].op # "void"
    <3>1. req[s].op = "distribute"
      BY <1>1, <1>2 DEF StateInv, WorkOK, WorkAt, Distributing
    <3> QED BY <1>2, <1>3, <1>6, <3>1 DEF Done
  <2>2. Steady
    BY <1>1 DEF Steady
  <2> SUFFICES ASSUME NEW u \in Row, obj'[s][u] # Nil PROVE Meets(s, u)'
    BY DEF SumsAt
  <2>3. /\ Ahead(s, u) \in Nat
        /\ Ahead(s, u)' = Ahead(s, u) + (IF u = Here(s) THEN Qty(s) ELSE 0)
    BY <1>1, <1>2, <2>1, AheadMore
  <2>4. Used(u) \in Int /\ Given(u) \in Nat
    BY <1>1, GivenParts, LinesFinite DEF StateInv, TypeOK, Used
  <2>5. CASE u = Here(s)
    <3>1. Meets(s, u)
      BY <1>1, <1>3, <2>5, NilAssumption DEF SumsAt
    <3>2. obj'[s][u] = obj[s][u] + Qty(s) /\ Ahead(s, u)' = Ahead(s, u) + Qty(s)
      BY <1>5, <2>3, <2>5 DEF total
    <3>3. Calm' => obj'[s][u] = Used(u)' + Ahead(s, u)'
      BY <1>3, <2>1, <2>2, <2>3, <2>4, <2>5, <3>1, <3>2, SteadyRows DEF Meets
    <3>4. AllStand' => obj'[s][u] <= Given(u)' + Ahead(s, u)'
      BY <1>3, <2>2, <2>3, <2>4, <2>5, <3>1, <3>2, SteadyRows DEF Meets
    <3> QED BY <1>1, <2>1, <3>3, <3>4 DEF Meets
  <2>6. CASE u # Here(s)
    <3>1. Meets(s, u) /\ obj'[s][u] = obj[s][u] /\ Ahead(s, u)' = Ahead(s, u)
      BY <1>1, <1>5, <2>3, <2>6 DEF SumsAt
    <3> QED BY <1>1, <2>2, <3>1, SteadyRows DEF Meets
  <2> QED BY <2>5, <2>6
<1>9. SoloOK'
  <2>1. \A r \in Session : pc'[r] # "idle" => pc[r] # "idle"
    BY <1>2, <1>6 DEF Same
  <2> QED BY <1>1, <2>1, SoloStill
<1>10. Steady
  BY <1>1 DEF Steady
<1> QED BY <1>6, <1>7, <1>8, <1>9, <1>10, OneAccount

LEMMA RestoreItemAccount ==
    ASSUME AccountInv, NEW s \in Session, RestoreItem(s)
    PROVE  HoldOK' /\ SumsOK' /\ RowsOK' /\ SoloOK'
<1> DEFINE left == obj[s][Here(s)] - Qty(s)
<1>1. /\ StateInv /\ HoldAt(s) /\ SoloOK /\ SumsAt(s)
      /\ NextItem(s, "restore", "flush") /\ obj[s][Here(s)] # Nil
      /\ UNCHANGED <<used, tx, lock, dirty, req, day, seen, raced>>
      /\ obj' = [obj EXCEPT ![s] = [obj[s] EXCEPT ![Here(s)] = left]]
  BY DEF AccountInv, HoldOK, SumsOK, RestoreItem, rows
<1>2. PICK to \in {"restore", "flush"}, k \in 1..Len(Items(s)) :
          /\ pc[s] = "restore" /\ pc' = [pc EXCEPT ![s] = to] /\ pc'[s] = to
          /\ idx' = [idx EXCEPT ![s] = k] /\ idx'[s] = k
          /\ \/ to = "restore" /\ k = idx[s] + 1
             \/ to = "flush" /\ k = 1 /\ idx[s] = Len(Items(s))
  BY <1>1, Looped
<1>3. /\ DOMAIN obj = Session /\ obj[s] \in [Row -> Int \cup {Nil}]
      /\ Here(s) \in Row /\ obj[s][Here(s)] \in Int /\ Qty(s) \in Nat
      /\ idx[s] \in 1..Len(Items(s)) /\ Len(Items(s)) \in Nat /\ req[s].op = "void"
  <2>1. idx[s] \in DOMAIN Items(s) /\ DOMAIN Items(s) = 1..Len(Items(s)) /\ Len(Items(s)) \in Nat
    BY <1>1, <1>2, SessionItems
  <2>2. Here(s) \in Row /\ Qty(s) \in Nat
    BY <1>1, <1>2, <2>1, RowsAt DEF Qty
  <2> QED BY <1>1, <1>2, <2>1, <2>2 DEF StateInv, TypeOK, WorkOK, WorkAt
<1>4. left \in Int
  BY <1>3
<1> HIDE DEF left
<1>5. /\ obj'[s][Here(s)] = left
      /\ \A u \in Row \ {Here(s)} : obj'[s][u] = obj[s][u]
  BY <1>1, <1>3
<1>6. \A r \in Session \ {s} : Same(r)
  BY <1>1, <1>2 DEF Same, StateInv, TypeOK
<1>7. HoldAt(s)'
  <2>1. \A u \in Row : lock'[u] = s =>
           /\ obj'[s][u] \in Int
           /\ req'[s].op = "distribute" => dirty'[u] = obj'[s][u]
    BY <1>1, <1>3, <1>4, <1>5 DEF HoldAt
  <2> QED BY <1>2, <2>1 DEF HoldAt
<1>8. SumsAt(s)'
  <2>1. Done(s)' = idx[s]
    BY <1>1, <1>2, <1>3 DEF Done, Items
  <2>2. Steady
    BY <1>1 DEF Steady
  <2> SUFFICES ASSUME NEW u \in Row, obj'[s][u] # Nil PROVE Meets(s, u)'
    BY DEF SumsAt
  <2>3. /\ Ahead(s, u) \in Nat
        /\ Ahead(s, u)' = Ahead(s, u) + (IF u = Here(s) THEN Qty(s) ELSE 0)
    BY <1>1, <1>2, <2>1, AheadMore
  <2>4. Used(u) \in Int /\ Given(u) \in Nat
    BY <1>1, GivenParts, LinesFinite DEF StateInv, TypeOK, Used
  <2>5. CASE u = Here(s)
    <3>1. Meets(s, u)
      BY <1>1, <2>5 DEF SumsAt
    <3>2. obj'[s][u] = obj[s][u] - Qty(s) /\ Ahead(s, u)' = Ahead(s, u) + Qty(s)
      BY <1>5, <2>3, <2>5 DEF left
    <3>3. Calm' => obj'[s][u] = Used(u)' - Ahead(s, u)'
      BY <1>3, <2>2, <2>3, <2>4, <2>5, <3>1, <3>2, SteadyRows DEF Meets
    <3>4. AllStand' => obj'[s][u] <= Given(u)' + Ahead(s, u)'
      BY <1>3, <2>2, <2>3, <2>4, <2>5, <3>1, <3>2, SteadyRows DEF Meets
    <3> QED BY <1>1, <1>3, <3>3, <3>4 DEF Meets
  <2>6. CASE u # Here(s)
    <3>1. Meets(s, u) /\ obj'[s][u] = obj[s][u] /\ Ahead(s, u)' = Ahead(s, u)
      BY <1>1, <1>5, <2>3, <2>6 DEF SumsAt
    <3> QED BY <1>1, <2>2, <3>1, SteadyRows DEF Meets
  <2> QED BY <2>5, <2>6
<1>9. SoloOK'
  <2>1. \A r \in Session : pc'[r] # "idle" => pc[r] # "idle"
    BY <1>2, <1>6 DEF Same
  <2> QED BY <1>1, <2>1, SoloStill
<1>10. (\A r \in Session : Keeps(r)) /\ Steady
  BY <1>1 DEF Keeps, Steady
<1> QED BY <1>6, <1>7, <1>8, <1>9, <1>10, OneAccount

LEMMA FlushUsageAccount ==
    ASSUME AccountInv, NEW s \in Session, NEW u \in Row, FlushUsage(s, u)
    PROVE  HoldOK' /\ SumsOK' /\ RowsOK' /\ SoloOK'
<1>1. /\ StateInv /\ HoldAt(s) /\ SoloOK /\ SumsAt(s)
      /\ pc[s] = "flush" /\ u \in Unwritten(s) /\ lock[u] \in {Nil, s}
      /\ UNCHANGED <<used, tx, pc, req, idx, day, obj, seen, raced>>
      /\ lock' = [lock EXCEPT ![u] = s] /\ dirty' = [dirty EXCEPT ![u] = obj[s][u]]
  BY DEF AccountInv, HoldOK, SumsOK, FlushUsage, rows
<1>2. obj[s][u] \in Int /\ req[s].op = "void"
  <2>1. PICK j \in 1..Len(Items(s)) : u = RowAt(s, j)
    BY <1>1 DEF Unwritten, RowAt
  <2>2. DOMAIN Items(s) = 1..Len(Items(s))
    BY <1>1, SessionItems
  <2> QED BY <1>1, <2>1, <2>2 DEF StateInv, LoadedOK, LoadedAt, WorkOK, WorkAt
<1>3. \A r \in Session : Same(r)
  BY <1>1 DEF Same
<1>4. \A r \in Session \ {s} : Keeps(r)
  <2>1. Writes(s, u, obj[s][u])
    BY <1>1 DEF Writes
  <2> QED BY <1>1, <2>1, OthersKeep
<1>5. HoldAt(s)'
  <2>1. \A v \in Row : lock'[v] = s => obj'[s][v] \in Int
    BY <1>1, <1>2 DEF HoldAt, StateInv, TypeOK
  <2> QED BY <1>1, <1>2, <2>1 DEF HoldAt
<1>6. Steady /\ SumsAt(s)'
  BY <1>1, <1>3, SteadySums DEF Steady
<1>7. SoloOK'
  BY <1>1, SoloStill
<1> QED BY <1>3, <1>4, <1>5, <1>6, <1>7, OneAccount

-----------------------------------------------------------------------------

\* A transaction that ends takes its objects and its locks with it.
LEMMA ReleasedHold ==
    ASSUME AccountInv, NEW s \in Session, ReleaseLocks(s),
           \A r \in Session \ {s} : pc'[r] = pc[r] /\ req'[r] = req[r] /\ idx'[r] = idx[r]
                                    /\ day'[r] = day[r] /\ seen'[r] = seen[r],
           pc'[s] \in {"idle", "budget"}
    PROVE  /\ HoldOK' /\ SumsAt(s)'
           /\ \A r \in Session \ {s} : Same(r) /\ Keeps(r)
<1>1. /\ lock' = [v \in Row |-> IF lock[v] = s THEN Nil ELSE lock[v]]
      /\ dirty' = [v \in Row |-> IF lock[v] = s THEN Nil ELSE dirty[v]]
      /\ obj' = [obj EXCEPT ![s] = NoObjects]
      /\ DOMAIN obj = Session /\ StateInv
  BY DEF ReleaseLocks, AccountInv, StateInv, TypeOK
<1>2. \A r \in Session \ {s} : Same(r) /\ Keeps(r)
  BY <1>1, NilAssumption DEF Same, Keeps
<1>3. obj'[s] = NoObjects /\ \A v \in Row : lock'[v] # s
  BY <1>1, NilAssumption
<1>4. HoldAt(s)' /\ SumsAt(s)'
  <2>1. \A v \in Row : obj'[s][v] = Nil
    BY <1>3 DEF NoObjects
  <2>2. SumsAt(s)'
    BY <2>1 DEF SumsAt
  <2>3. HoldAt(s)'
    BY <1>3 DEF HoldAt, NoObjects
  <2> QED BY <2>2, <2>3
<1>5. \A r \in Session \ {s} : HoldAt(r)'
  BY <1>1, <1>2, OthersHold DEF AccountInv, HoldOK
<1> QED BY <1>2, <1>4, <1>5 DEF HoldOK

LEMMA RollbackAccount ==
    ASSUME AccountInv, NEW s \in Session, Rollback(s)
    PROVE  HoldOK' /\ SumsOK' /\ RowsOK' /\ SoloOK'
<1>1. /\ ReleaseLocks(s) /\ CloseSession(s) /\ StateInv /\ UNCHANGED <<used, tx, raced>>
  BY DEF Rollback, AccountInv, rows
<1>2. /\ pc'[s] = "idle"
      /\ \A r \in Session \ {s} : pc'[r] = pc[r] /\ req'[r] = req[r] /\ idx'[r] = idx[r]
                                  /\ day'[r] = day[r] /\ seen'[r] = seen[r]
  BY <1>1, Closed
<1>3. /\ HoldOK' /\ SumsAt(s)'
      /\ \A r \in Session \ {s} : Same(r) /\ Keeps(r)
  BY <1>1, <1>2, ReleasedHold
<1>4. SoloOK'
  BY <1>1, <1>2, SoloStill DEF AccountInv
<1>5. HoldAt(s)' /\ Steady
  BY <1>1, <1>3 DEF HoldOK, Steady
<1> QED BY <1>3, <1>4, <1>5, OneAccount

LEMMA BumpBudgetAccount ==
    ASSUME AccountInv, NEW s \in Session, BumpBudget(s)
    PROVE  HoldOK' /\ SumsOK' /\ RowsOK' /\ SoloOK'
<1>1. /\ pc[s] = "bump" /\ CloseSession(s) /\ StateInv /\ HoldAt(s)
      /\ UNCHANGED <<used, tx, lock, dirty, obj, raced>>
  BY DEF BumpBudget, AccountInv, HoldOK
<1>2. /\ pc'[s] = "idle" /\ \A r \in Session \ {s} : Same(r)
      /\ \A r \in Session \ {s} : pc'[r] = pc[r] /\ req'[r] = req[r]
  BY <1>1, Closed DEF Same
<1>3. obj'[s] = NoObjects /\ \A u \in Row : lock'[u] # s
  <2>1. \A u \in Row : lock[u] # s
    BY <1>1 DEF StateInv, LockOK, Holding
  <2> QED BY <1>1, <2>1 DEF HoldAt
<1>4. HoldAt(s)' /\ SumsAt(s)'
  <2>1. \A v \in Row : obj'[s][v] = Nil
    BY <1>3 DEF NoObjects
  <2>2. SumsAt(s)'
    BY <2>1 DEF SumsAt
  <2>3. HoldAt(s)'
    BY <1>2, <1>3 DEF HoldAt, NoObjects
  <2> QED BY <2>2, <2>3
<1>5. (\A r \in Session : Keeps(r)) /\ Steady
  BY <1>1 DEF Keeps, Steady
<1>6. SoloOK'
  BY <1>1, <1>2, SoloStill DEF AccountInv
<1> QED BY <1>2, <1>4, <1>5, <1>6, OneAccount

\* What a commit leaves of a row: what the session has made of it if it holds it.
LEMMA UsedThen ==
    ASSUME StateInv, HoldOK, NEW s \in Session, Publish(s), NEW u \in Row
    PROVE  /\ Used(u) \in Int /\ Given(u) \in Nat
           /\ lock[u] # s => Used(u)' = Used(u)
           /\ lock[u] = s /\ dirty[u] = obj[s][u] => obj[s][u] \in Int /\ Used(u)' = obj[s][u]
<1>1. used'[u] = IF lock[u] = s THEN dirty[u] ELSE used[u]
  BY DEF Publish
<1>2. lock[u] = s => obj[s][u] \in Int
  BY DEF HoldOK, HoldAt
<1>3. Used(u) \in Int
  BY DEF StateInv, TypeOK, Used
<1>4. Given(u) \in Nat
  BY GivenParts, LinesFinite DEF StateInv, TypeOK
<1> QED BY <1>1, <1>2, <1>3, <1>4, NilAssumption DEF Used

LEMMA CommitDistributionAccount ==
    ASSUME AccountInv, NEW s \in Session, CommitDistribution(s)
    PROVE  HoldOK' /\ SumsOK' /\ RowsOK' /\ SoloOK'
<1> DEFINE new == [items |-> Items(s), value |-> Rounded(req[s].value),
                   created |-> req[s].created, day |-> day[s], status |-> "completed"]
           n == Len(tx) + 1
<1>1. /\ pc[s] = "commit" /\ tx' = Append(tx, new) /\ Publish(s) /\ ReleaseLocks(s)
      /\ raced' = raced /\ StateInv /\ HoldOK /\ SumsOK /\ RowsOK /\ SoloOK
      /\ tx \in Seq(TransactionRow) /\ tx' \in Seq(TransactionRow)
  BY CommitDistributionState DEF CommitDistribution, AccountInv, StateInv, TypeOK
<1>2. /\ \A r \in Session \ {s} : pc'[r] = pc[r] /\ req'[r] = req[r] /\ idx'[r] = idx[r]
                                  /\ day'[r] = day[r] /\ seen'[r] = seen[r]
      /\ pc'[s] \in {"idle", "budget"}
      /\ pc'[s] # "idle" => req'[s] = req[s]
  BY <1>1, Closed DEF CommitDistribution, Step, StateInv, TypeOK
<1>3. /\ HoldOK' /\ SumsAt(s)'
      /\ \A r \in Session \ {s} : Same(r) /\ Keeps(r)
  BY <1>1, <1>2, ReleasedHold
<1>4. /\ n \in 1..Len(tx') /\ Len(tx) \in Nat /\ Len(tx') = n /\ tx'[n] = new
      /\ \A i \in 1..Len(tx) : i \in 1..Len(tx') /\ tx'[i] = tx[i]
  <2>1. Len(tx) \in Nat
    BY <1>1
  <2> HIDE DEF new
  <2> QED BY <1>1, <2>1
<1>5. new.items = Items(s) /\ new.day = day[s] /\ new.status = "completed"
  OBVIOUS
<1>6. req[s].op = "distribute" /\ Done(s) = Len(Items(s))
  BY <1>1 DEF StateInv, WorkOK, WorkAt, Distributing, Done
<1> HIDE DEF new, n
<1>7. ASSUME NEW u PROVE Given(u)' = Given(u) + Ahead(s, u) /\ Ahead(s, u) \in Nat
  <2>1. Beside(tx, tx', n)
    BY <1>4, <1>5 DEF Beside, Standing, n
  <2>2. GivenBy(tx', u) = GivenBy(tx, u)
            + Taken(tx'[n].items, tx'[n].day, u, Len(tx'[n].items))
    <3>1. \A w, v \in Seq(TransactionRow) : \A k : Beside(w, v, k) =>
             GivenBy(v, u) = GivenBy(w, u) + Taken(v[k].items, v[k].day, u, Len(v[k].items))
      BY OneTransaction
    <3> QED BY <1>1, <2>1, <3>1
  <2>3. Given(u)' = GivenBy(tx', u) /\ Given(u) = GivenBy(tx, u)
    BY GivenParts DEF Given, GivenBy, LineQty, LinesOn, StandingLines, LinesOf, Standing
  <2>4. Ahead(s, u) \in Nat
    BY <1>1, DoneItems
  <2> QED BY <1>4, <1>5, <1>6, <2>2, <2>3, <2>4 DEF Ahead
<1>8. /\ Calm' => Calm
      /\ AllStand' => AllStand
  BY <1>1, <1>4 DEF Calm, AllStand
<1>9. RowsOK'
  <2> SUFFICES ASSUME NEW u \in Row
               PROVE  /\ Calm' => Used(u)' = Given(u)'
                      /\ AllStand' => Used(u)' <= Given(u)'
    BY DEF RowsOK
  <2>1. /\ Used(u) \in Int /\ Given(u) \in Nat
        /\ lock[u] # s => Used(u)' = Used(u)
        /\ lock[u] = s /\ dirty[u] = obj[s][u] => obj[s][u] \in Int /\ Used(u)' = obj[s][u]
    BY <1>1, UsedThen
  <2>2. Given(u)' = Given(u) + Ahead(s, u) /\ Ahead(s, u) \in Nat
    BY <1>7
  <2>3. /\ Calm => Used(u) = Given(u)
        /\ AllStand => Used(u) <= Given(u)
    BY <1>1 DEF RowsOK
  <2>4. CASE lock[u] = s
    <3>1. obj[s][u] \in Int /\ dirty[u] = obj[s][u]
      BY <1>1, <1>6, <2>4 DEF HoldOK, HoldAt
    <3>2. /\ Calm => obj[s][u] = Used(u) + Ahead(s, u)
          /\ AllStand => obj[s][u] <= Given(u) + Ahead(s, u)
      BY <1>1, <1>6, <3>1, NilAssumption DEF SumsOK, SumsAt, Meets
    <3> QED BY <1>8, <2>1, <2>2, <2>3, <2>4, <3>1, <3>2
  <2>5. CASE lock[u] # s
    <3>1. \A j \in 1..Len(Items(s)) : ItemRow(Items(s)[j], day[s]) # u
      <4>1. DOMAIN Items(s) = 1..Len(Items(s))
        BY <1>1, SessionItems
      <4>2. \A j \in 1..Len(Items(s)) : lock[RowAt(s, j)] = s
        BY <1>1, <4>1 DEF HoldOK, HoldAt
      <4> QED BY <2>5, <4>2 DEF RowAt
    <3>2. Ahead(s, u) = 0
      BY <1>6, <3>1, NoneTaken DEF Ahead
    <3> QED BY <1>8, <2>1, <2>2, <2>3, <2>5, <3>2
  <2> QED BY <2>4, <2>5
<1>10. SumsOK'
  <2> SUFFICES ASSUME NEW r \in Session \ {s}, NEW u \in Row, obj'[r][u] # Nil
               PROVE  Meets(r, u)'
    BY <1>3 DEF SumsOK, SumsAt
  <2>1. Same(r) /\ obj[r][u] # Nil /\ Meets(r, u)
    BY <1>1, <1>3 DEF Same, SumsOK, SumsAt
  <2>2. pc[r] # "idle"
    BY <1>1, <2>1 DEF HoldOK, HoldAt, NoObjects
  <2>3. ~Calm'
    BY <1>1, <1>8, <2>2 DEF Calm, SoloOK
  <2>4. Ahead(r, u)' = Ahead(r, u)
    BY <2>1 DEF Same, Ahead, Items, Done
  <2>5. Ahead(r, u) \in Nat
    BY <1>1, <2>2, DoneItems
  <2>6. obj[r][u] \in Int /\ Given(u) \in Nat
    BY <1>1, <2>1, UsedThen DEF StateInv, TypeOK
  <2>7. Given(u)' = Given(u) + Ahead(s, u) /\ Ahead(s, u) \in Nat
    BY <1>7
  <2>8. AllStand' => obj'[r][u] <= Given(u)' + Ahead(r, u)'
    BY <1>8, <2>1, <2>4, <2>5, <2>6, <2>7 DEF Same, Meets
  <2> QED BY <2>3, <2>8 DEF Meets
<1>11. SoloOK'
  <2> SUFFICES ASSUME ~raced' PROVE \A r \in Session : pc'[r] # "idle" =>
          /\ pc[r] # "idle" /\ req'[r] = req[r]
          /\ req[r].op = "void" => tx'[req[r].id].status = tx[req[r].id].status
    BY <1>1, SoloStill
  <2>1. \A r \in Session \ {s} : pc[r] = "idle"
    BY <1>1 DEF SoloOK
  <2> QED BY <1>1, <1>2, <1>6, <2>1
<1> QED BY <1>3, <1>9, <1>10, <1>11

LEMMA CommitVoidAccount ==
    ASSUME AccountInv, NEW s \in Session, CommitVoid(s)
    PROVE  HoldOK' /\ SumsOK' /\ RowsOK' /\ SoloOK'
<1> DEFINE i == req[s].id
           new == [tx[i] EXCEPT !.status = "voided"]
<1>1. /\ pc[s] = "flush" /\ tx' = [tx EXCEPT ![i] = new] /\ Publish(s) /\ ReleaseLocks(s)
      /\ CloseSession(s) /\ Unwritten(s) = {}
      /\ raced' = raced /\ StateInv /\ HoldOK /\ SumsOK /\ RowsOK /\ SoloOK
      /\ tx \in Seq(TransactionRow) /\ tx' \in Seq(TransactionRow)
  BY CommitVoidState DEF CommitVoid, AccountInv, StateInv, TypeOK
<1>2. /\ \A r \in Session \ {s} : pc'[r] = pc[r] /\ req'[r] = req[r] /\ idx'[r] = idx[r]
                                  /\ day'[r] = day[r] /\ seen'[r] = seen[r]
      /\ pc'[s] = "idle"
  BY <1>1, Closed
<1>3. /\ HoldOK' /\ SumsAt(s)'
      /\ \A r \in Session \ {s} : Same(r) /\ Keeps(r)
  BY <1>1, <1>2, ReleasedHold
<1>4. /\ i \in DOMAIN tx /\ tx[i].items = Items(s) /\ tx[i].created = day[s]
      /\ req[s].op = "void" /\ Done(s) = Len(Items(s))
  BY <1>1 DEF StateInv, WorkOK, WorkAt, Done
<1>5. /\ new.items = Items(s) /\ new.created = day[s] /\ new.status = "voided"
      /\ new.day = tx[i].day
  <2>1. tx[i] \in TransactionRow
    BY <1>1, <1>4
  <2> QED BY <1>4, <2>1 DEF TransactionRow
<1> HIDE DEF new
<1>6. /\ i \in 1..Len(tx) /\ Len(tx') = Len(tx) /\ tx'[i] = new
      /\ \A k \in 1..Len(tx) : k # i => tx'[k] = tx[k]
  BY <1>1, <1>4
<1>7. ~AllStand'
  BY <1>5, <1>6 DEF AllStand
<1>8. ASSUME Calm'
      PROVE  Calm /\ tx[i].status = "completed" /\ tx[i].day = day[s]
             /\ \A r \in Session \ {s} : pc[r] = "idle"
  <2>1. tx[i].status = "completed" /\ \A r \in Session \ {s} : pc[r] = "idle"
    BY <1>1, <1>4, <1>8 DEF Calm, SoloOK
  <2>2. tx[i].day = day[s]
    BY <1>5, <1>6, <1>8 DEF Calm
  <2>3. Calm
    <3> SUFFICES ASSUME NEW k \in 1..Len(tx), tx[k].status = "voided"
                 PROVE  tx[k].created = tx[k].day
      BY <1>1, <1>8 DEF Calm
    <3>1. tx'[k] = tx[k]
      BY <1>6, <2>1
    <3> QED BY <1>6, <1>8, <3>1 DEF Calm
  <2> QED BY <2>1, <2>2, <2>3
<1>9. RowsOK'
  <2> SUFFICES ASSUME NEW u \in Row, Calm' PROVE Used(u)' = Given(u)'
    BY <1>7 DEF RowsOK
  <2>1. /\ Used(u) \in Int /\ Given(u) \in Nat
        /\ lock[u] # s => Used(u)' = Used(u)
        /\ lock[u] = s /\ dirty[u] = obj[s][u] => obj[s][u] \in Int /\ Used(u)' = obj[s][u]
    BY <1>1, UsedThen
  <2>2. Given(u) = Given(u)' + Ahead(s, u) /\ Ahead(s, u) \in Nat /\ Given(u)' \in Nat
    <3>1. Beside(tx', tx, i)
      BY <1>4, <1>5, <1>6, <1>8 DEF Beside, Standing
    <3>2. GivenBy(tx, u) = GivenBy(tx', u) + Taken(tx[i].items, tx[i].day, u, Len(tx[i].items))
      <4>1. \A w, v \in Seq(TransactionRow) : \A k : Beside(w, v, k) =>
               GivenBy(v, u) = GivenBy(w, u) + Taken(v[k].items, v[k].day, u, Len(v[k].items))
        BY OneTransaction
      <4>2. tx \in Seq(TransactionRow) /\ tx' \in Seq(TransactionRow)
        BY <1>1
      <4> HIDE DEF i
      <4> QED BY <3>1, <4>1, <4>2
    <3>3. Given(u)' = GivenBy(tx', u) /\ Given(u) = GivenBy(tx, u)
      BY GivenParts DEF Given, GivenBy, LineQty, LinesOn, StandingLines, LinesOf, Standing
    <3>4. Ahead(s, u) \in Nat /\ GivenBy(tx', u) \in Nat
      BY <1>1, DoneItems, LinesFinite
    <3> QED BY <1>4, <1>8, <3>2, <3>3, <3>4 DEF Ahead
  <2>3. Used(u) = Given(u) /\ Calm
    BY <1>1, <1>8 DEF RowsOK
  <2>4. \A j \in 1..Len(Items(s)) :
           lock[RowAt(s, j)] = s /\ dirty[RowAt(s, j)] = obj[s][RowAt(s, j)]
    BY <1>1 DEF Unwritten, RowAt
  <2>5. CASE lock[u] = s
    <3>1. PICK j \in DOMAIN Items(s) : u = RowAt(s, j)
      BY <1>1, <2>5 DEF StateInv, LockOK
    <3>2. DOMAIN Items(s) = 1..Len(Items(s))
      BY <1>1, SessionItems
    <3>3. dirty[u] = obj[s][u] /\ obj[s][u] \in Int
      BY <1>1, <2>4, <2>5, <3>1, <3>2 DEF HoldOK, HoldAt
    <3>4. obj[s][u] = Used(u) - Ahead(s, u)
      BY <1>1, <1>4, <2>3, <3>3, NilAssumption DEF SumsOK, SumsAt, Meets
    <3> QED BY <2>1, <2>2, <2>3, <2>5, <3>3, <3>4
  <2>6. CASE lock[u] # s
    <3>1. \A j \in 1..Len(Items(s)) : ItemRow(Items(s)[j], day[s]) # u
      BY <2>4, <2>6 DEF RowAt
    <3>2. Ahead(s, u) = 0
      BY <1>4, <3>1, NoneTaken DEF Ahead
    <3> QED BY <2>1, <2>2, <2>3, <2>6, <3>2
  <2> QED BY <2>5, <2>6
<1>10. SumsOK'
  <2> SUFFICES ASSUME NEW r \in Session \ {s}, NEW u \in Row, obj'[r][u] # Nil
               PROVE  Meets(r, u)'
    BY <1>3 DEF SumsOK, SumsAt
  <2>1. Same(r) /\ obj[r][u] # Nil
    BY <1>3 DEF Same
  <2>2. pc[r] # "idle"
    BY <1>1, <2>1 DEF HoldOK, HoldAt, NoObjects
  <2> QED BY <1>7, <1>8, <2>2 DEF Meets
<1>11. SoloOK'
  <2> SUFFICES ASSUME ~raced' PROVE \A r \in Session : pc'[r] = "idle"
    BY DEF SoloOK
  <2>1. \A r \in Session \ {s} : pc[r] = "idle"
    BY <1>1 DEF SoloOK
  <2> QED BY <1>2, <2>1
<1> QED BY <1>3, <1>9, <1>10, <1>11

LEMMA AccountStep == AccountInv /\ [Next]_vars => AccountInv'
<1> SUFFICES ASSUME AccountInv, [Next]_vars PROVE HoldOK' /\ SumsOK' /\ RowsOK' /\ SoloOK'
  BY StateStep DEF AccountInv
<1>1. CASE UNCHANGED vars \/ PeriodPasses
  <2>1. UNCHANGED <<rows, lock, dirty, pc, req, idx, day, obj, seen, raced>>
    BY <1>1 DEF vars, PeriodPasses, rows
  <2>2. Steady /\ \A r \in Session : Same(r) /\ Keeps(r)
    BY <2>1 DEF Steady, Same, Keeps, rows
  <2>3. StateInv /\ HoldOK /\ SumsOK /\ RowsOK /\ SoloOK
    BY DEF AccountInv
  <2>4. \A r \in Session : HoldAt(r)' /\ SumsAt(r)'
    BY <2>2, <2>3, OthersHold, SteadySums DEF HoldOK, SumsOK
  <2>5. RowsOK'
    BY <2>2, <2>3, SteadyRows DEF RowsOK
  <2>6. SoloOK'
    BY <2>1, <2>3 DEF SoloOK, rows
  <2> QED BY <2>4, <2>5, <2>6 DEF HoldOK, SumsOK
<1>2. ASSUME NEW s \in Session, Progress(s) \/ Disconnect(s)
      PROVE  HoldOK' /\ SumsOK' /\ RowsOK' /\ SoloOK'
  <2>1. CASE Rollback(s)
    BY <2>1, RollbackAccount
  <2>2. CASE ~Rollback(s)
    BY <1>2, <2>2, PhaseAccount, LoadUsageAccount, CreateUsageAccount, PlanItemAccount,
       DeductAccount, CommitDistributionAccount, BumpBudgetAccount, RestoreItemAccount,
       FlushUsageAccount, CommitVoidAccount
       DEF Progress, Disconnect, UniqueViolation, Refuse, DeadlockVictim
  <2> QED BY <2>1, <2>2
<1> QED BY <1>1, <1>2, ArriveAccount DEF Next

LEMMA AccountInit == Init => AccountInv
<1> SUFFICES ASSUME Init PROVE HoldOK /\ SumsOK /\ RowsOK /\ SoloOK
  BY StateInit DEF AccountInv
<1>1. /\ \A s \in Session : pc[s] = "idle" /\ obj[s] = NoObjects
      /\ \A u \in Row : lock[u] = Nil /\ used[u] = Nil
      /\ tx = << >>
  BY DEF Init
<1>2. HoldOK /\ SoloOK
  BY <1>1, NilAssumption DEF HoldOK, HoldAt, SoloOK
<1>3. SumsOK
  BY <1>1 DEF SumsOK, SumsAt, NoObjects
<1>4. \A u : Given(u) = 0
  <2> SUFFICES ASSUME NEW u PROVE GivenBy(tx, u) = 0
    BY GivenParts
  <2>1. Standing(tx) = {}
    BY <1>1 DEF Standing
  <2>2. LinesOn(tx, u) = {}
    BY <2>1 DEF LinesOn, StandingLines
  <2> QED BY <2>2, SumEmpty DEF GivenBy
<1>5. RowsOK
  BY <1>1, <1>4 DEF RowsOK, Used
<1> QED BY <1>2, <1>3, <1>5

\* The usage rows are the sum of the transactions that stand (models/welfare.py:12
\* "It deducts entitlement usage atomically"), unless requests were under way at
\* once or a distribution that crossed into another period was voided; and deductions
\* are never invented, whatever races, as long as every transaction stands.
THEOREM UsageAddsUp == Spec => []UsageMatchesTransactions
<1>1. AccountInv => UsageMatchesTransactions
  BY DEF AccountInv, RowsOK, Calm, AllStand, UsageMatchesTransactions
<1> QED BY <1>1, AccountInit, AccountStep, PTL DEF Spec
=============================================================================
