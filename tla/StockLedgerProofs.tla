------------------------- MODULE StockLedgerProofs -------------------------
(***************************************************************************)
(* Proofs about StockLedger, for every set of sessions, pairs, kinds,      *)
(* payloads and initial tables that its assumptions allow.                 *)
(***************************************************************************)
EXTENDS StockLedgerRefines, SumsAndSequences, TLAPS

InTransaction == {"read", "create", "write", "commit"}

\* A request in flight stands at one of its own lines, and has a quantity in
\* hand when it is about to write one.
RequestsOK ==
    \A s \in Session :
        /\ pc[s] # "idle" => req[s] \in Payloads /\ idx[s] \in 1..Len(Lines(s))
        /\ pc[s] = "write" => read[s] \in Int

\* A row lock belongs to a request that has reached apply_movement, and what
\* its holder has stored passed the check against a negative balance.
LocksOK ==
    \A k \in Key :
        lock[k] # Nil => pc[lock[k]] \in InTransaction /\ dirty[k] \in Nat

StockNat == \A k \in Key : stock[k] \in Nat \cup {Nil}

SafeInv == TypeOK /\ RequestsOK /\ LocksOK /\ StockNat

-----------------------------------------------------------------------------

\* The line a request stands at is a line of its payload.
LEMMA LineFacts ==
    ASSUME NEW s \in Session, req[s] \in Payloads, idx[s] \in 1..Len(Lines(s))
    PROVE  /\ LineKey(s) \in Key
           /\ LineDelta(s) \in Int
           /\ Len(Lines(s)) \in Nat \ {0}
           /\ Touches(req[s], LineKey(s))
<1>1. Lines(s) \in Seq(Line) /\ Lines(s) # << >>
  BY PayloadsAssumption DEF Lines
<1>2. Lines(s)[idx[s]] \in Line
  BY <1>1
<1>3. LineKey(s) \in Key /\ LineDelta(s) \in Int
  BY <1>2 DEF Line, LineKey, LineDelta
<1>4. Len(Lines(s)) \in Nat \ {0}
  BY <1>1
<1>5. Touches(req[s], LineKey(s))
  BY DEF Touches, LineKey, Lines
<1> QED BY <1>3, <1>4, <1>5

\* Closing a transaction, published or not, keeps the invariant.
LEMMA ReleaseSafe ==
    ASSUME SafeInv, NEW s \in Session, Release(s),
           stock' \in [Key -> Nat \cup {Nil}], moved' \in [Key -> Int], begun' \in Nat
    PROVE  SafeInv'
<1> USE NilAssumption
<1>1. TypeOK'
  <2>1. /\ lock' \in [Key -> Session \cup {Nil}]
        /\ dirty' \in [Key -> Int \cup {Nil}]
        /\ pending' \in [Coded -> Session \cup {Nil}]
    BY DEF SafeInv, TypeOK, Release
  <2>2. /\ pc' \in [Session -> {"idle", "check", "insert", "read", "create", "write", "commit"}]
        /\ req' \in [Session -> Payloads \cup {Nil}]
        /\ idx' \in [Session -> Nat \ {0}]
        /\ read' \in [Session -> Int \cup {Nil}]
    BY DEF SafeInv, TypeOK, Release
  <2>3. moves' \in [Session -> [Key -> Int]]
    BY DEF SafeInv, TypeOK, Release
  <2>4. stock' \in [Key -> Int \cup {Nil}]
    OBVIOUS
  <2> QED BY <2>1, <2>2, <2>3, <2>4 DEF TypeOK
<1>2. RequestsOK'
  BY DEF SafeInv, TypeOK, RequestsOK, Release, Lines
<1>3. LocksOK'
  <2> SUFFICES ASSUME NEW k \in Key, lock'[k] # Nil
               PROVE  pc'[lock'[k]] \in InTransaction /\ dirty'[k] \in Nat
    BY DEF LocksOK
  <2>1. lock[k] # s /\ lock'[k] = lock[k] /\ dirty'[k] = dirty[k] /\ lock[k] \in Session
    BY DEF SafeInv, TypeOK, Release
  <2>2. pc'[lock[k]] = pc[lock[k]]
    BY <2>1 DEF SafeInv, TypeOK, Release
  <2> QED BY <2>1, <2>2 DEF SafeInv, LocksOK
<1>4. StockNat'
  BY DEF StockNat
<1> QED BY <1>1, <1>2, <1>3, <1>4 DEF SafeInv

LEMMA RollbackSafe ==
    ASSUME SafeInv, NEW s \in Session, Rollback(s)
    PROVE  SafeInv'
<1>1. stock' \in [Key -> Nat \cup {Nil}] /\ moved' \in [Key -> Int] /\ begun' \in Nat
  BY DEF SafeInv, TypeOK, StockNat, Rollback
<1>2. Release(s)
  BY DEF Rollback
<1> QED BY <1>1, <1>2, ReleaseSafe

LEMMA CommitSafe ==
    ASSUME SafeInv, NEW s \in Session, Commit(s)
    PROVE  SafeInv'
<1>1. stock' \in [Key -> Nat \cup {Nil}]
  BY NilAssumption DEF SafeInv, TypeOK, StockNat, LocksOK, Commit
<1>2. moved' \in [Key -> Int] /\ begun' \in Nat
  BY DEF SafeInv, TypeOK, Commit
<1>3. Release(s)
  BY DEF Commit
<1> QED BY <1>1, <1>2, <1>3, ReleaseSafe

\* Statements that change only the position of the request and what it has read.
LEMMA PlanningSafe ==
    ASSUME SafeInv, NEW s \in Session,
           CheckAvailable(s) \/ InsertPending(s) \/ ReadStock(s)
    PROVE  SafeInv'
<1> USE NilAssumption
<1>1. pc[s] # "idle" /\ req[s] \in Payloads /\ idx[s] \in 1..Len(Lines(s))
  BY DEF SafeInv, RequestsOK, CheckAvailable, InsertPending, ReadStock
<1>2. LineKey(s) \in Key /\ Len(Lines(s)) \in Nat \ {0}
  BY <1>1, LineFacts
<1>3. CASE CheckAvailable(s)
  <2>1. /\ idx' \in [Session -> Nat \ {0}]
        /\ idx'[s] \in 1..Len(Lines(s))
        /\ \A t \in Session : t # s => idx'[t] = idx[t]
    <3>1. CASE idx[s] < Len(Lines(s))
      <4>1. idx' = [idx EXCEPT ![s] = idx[s] + 1]
        BY <1>3, <3>1 DEF CheckAvailable
      <4> QED BY <1>1, <1>2, <3>1, <4>1 DEF SafeInv, TypeOK
    <3>2. CASE ~(idx[s] < Len(Lines(s)))
      <4>1. idx' = [idx EXCEPT ![s] = 1]
        BY <1>3, <3>2 DEF CheckAvailable
      <4> QED BY <1>2, <4>1 DEF SafeInv, TypeOK
    <3> QED BY <3>1, <3>2
  <2>2. /\ pc' \in [Session -> {"idle", "check", "insert", "read", "create", "write", "commit"}]
        /\ pc'[s] \in {"check", "insert"}
        /\ \A t \in Session : t # s => pc'[t] = pc[t]
    BY <1>3 DEF SafeInv, TypeOK, CheckAvailable
  <2>3. UNCHANGED <<stock, moved, lock, dirty, pending, req, read, moves, begun>>
    BY <1>3 DEF CheckAvailable
  <2>4. TypeOK'
    BY <2>1, <2>2, <2>3 DEF SafeInv, TypeOK
  <2>5. RequestsOK'
    BY <1>1, <2>1, <2>2, <2>3 DEF SafeInv, RequestsOK, Lines
  <2>6. LocksOK' /\ StockNat'
    BY <1>3 DEF SafeInv, TypeOK, LocksOK, StockNat, InTransaction, CheckAvailable
  <2> QED BY <2>4, <2>5, <2>6 DEF SafeInv
<1>4. CASE InsertPending(s)
  <2>1. TypeOK'
    BY <1>4 DEF SafeInv, TypeOK, InsertPending
  <2>2. RequestsOK'
    BY <1>1, <1>4 DEF SafeInv, TypeOK, RequestsOK, InsertPending, Lines
  <2>3. LocksOK' /\ StockNat'
    BY <1>4 DEF SafeInv, TypeOK, LocksOK, StockNat, InTransaction, InsertPending
  <2> QED BY <2>1, <2>2, <2>3 DEF SafeInv
<1>5. CASE ReadStock(s)
  <2>1. Visible(s, LineKey(s)) \in Int \cup {Nil}
    BY <1>2 DEF SafeInv, TypeOK, Visible
  <2>2. TypeOK'
    BY <1>5, <2>1 DEF SafeInv, TypeOK, ReadStock
  <2>3. RequestsOK'
    BY <1>1, <1>5, <2>1 DEF SafeInv, TypeOK, RequestsOK, ReadStock, Lines
  <2>4. LocksOK' /\ StockNat'
    BY <1>5 DEF SafeInv, TypeOK, LocksOK, StockNat, InTransaction, ReadStock
  <2> QED BY <2>2, <2>3, <2>4 DEF SafeInv
<1> QED BY <1>3, <1>4, <1>5

LEMMA BeginSafe ==
    ASSUME SafeInv, NEW s \in Session, NEW p \in Payloads, Begin(s, p)
    PROVE  SafeInv'
<1> USE NilAssumption
<1>1. p.lines \in Seq(Line) /\ p.lines # << >>
  BY PayloadsAssumption
<1>2. 1 \in 1..Len(p.lines)
  BY <1>1
<1>3. TypeOK'
  BY DEF SafeInv, TypeOK, Begin
<1>4. RequestsOK'
  BY <1>2 DEF SafeInv, TypeOK, RequestsOK, Begin, Lines
<1>5. LocksOK' /\ StockNat'
  BY DEF SafeInv, TypeOK, LocksOK, StockNat, InTransaction, Begin
<1> QED BY <1>3, <1>4, <1>5 DEF SafeInv

LEMMA CreateStockRowSafe ==
    ASSUME SafeInv, NEW s \in Session, CreateStockRow(s)
    PROVE  SafeInv'
<1> USE NilAssumption
<1>1. req[s] \in Payloads /\ idx[s] \in 1..Len(Lines(s))
  BY DEF SafeInv, RequestsOK, CreateStockRow
<1>2. LineKey(s) \in Key
  BY <1>1, LineFacts
<1>3. TypeOK'
  BY <1>2 DEF SafeInv, TypeOK, CreateStockRow
<1>4. RequestsOK'
  BY <1>1 DEF SafeInv, TypeOK, RequestsOK, CreateStockRow, Lines
<1>5. LocksOK' /\ StockNat'
  BY <1>2 DEF SafeInv, TypeOK, LocksOK, StockNat, InTransaction, CreateStockRow
<1> QED BY <1>3, <1>4, <1>5 DEF SafeInv

\* The one write of a quantity: what it stores has just passed the check.
LEMMA WriteStockSafe ==
    ASSUME SafeInv, NEW s \in Session, WriteStock(s)
    PROVE  SafeInv'
<1> USE NilAssumption
<1>1. req[s] \in Payloads /\ idx[s] \in 1..Len(Lines(s)) /\ read[s] \in Int
  BY DEF SafeInv, RequestsOK, WriteStock
<1>2. /\ LineKey(s) \in Key /\ LineDelta(s) \in Int
      /\ Len(Lines(s)) \in Nat \ {0}
  BY <1>1, LineFacts
<1>3. NewBalance(s) \in Nat
  BY <1>1, <1>2 DEF NewBalance, WriteStock
<1>4. TypeOK'
  <2>1. lock' \in [Key -> Session \cup {Nil}] /\ dirty' \in [Key -> Int \cup {Nil}]
    <3>1. CASE LineDelta(s) = 0
      BY <3>1 DEF SafeInv, TypeOK, WriteStock
    <3>2. CASE LineDelta(s) # 0
      <4>1. /\ lock' = [lock EXCEPT ![LineKey(s)] = s]
            /\ dirty' = [dirty EXCEPT ![LineKey(s)] = NewBalance(s)]
        BY <3>2 DEF WriteStock
      <4>2. lock \in [Key -> Session \cup {Nil}] /\ dirty \in [Key -> Int \cup {Nil}]
        BY DEF SafeInv, TypeOK
      <4>3. lock' \in [Key -> Session \cup {Nil}]
        BY <4>1, <4>2
      <4>4. dirty' \in [Key -> Int \cup {Nil}]
        <5>1. NewBalance(s) \in Int \cup {Nil}
          BY <1>3
        <5> QED BY <4>1, <4>2, <5>1, Zenon
      <4> QED BY <4>3, <4>4
    <3> QED BY <3>1, <3>2
  <2>2. moves' \in [Session -> [Key -> Int]]
    BY <1>2 DEF SafeInv, TypeOK, WriteStock
  <2>3. /\ pc' \in [Session -> {"idle", "check", "insert", "read", "create", "write", "commit"}]
        /\ idx' \in [Session -> Nat \ {0}]
    <3>1. CASE idx[s] < Len(Lines(s))
      <4>1. idx' = [idx EXCEPT ![s] = idx[s] + 1] /\ pc' = [pc EXCEPT ![s] = "read"]
        BY <3>1 DEF WriteStock, NextLine
      <4>2. idx \in [Session -> Nat \ {0}]
        BY DEF SafeInv, TypeOK
      <4>3. idx' \in [Session -> Nat \ {0}]
        BY <4>1, <4>2
      <4> QED BY <4>1, <4>3 DEF SafeInv, TypeOK
    <3>2. CASE ~(idx[s] < Len(Lines(s)))
      BY <3>2 DEF SafeInv, TypeOK, WriteStock, NextLine
    <3> QED BY <3>1, <3>2
  <2> QED BY <2>1, <2>2, <2>3 DEF SafeInv, TypeOK, WriteStock
<1>5. RequestsOK'
  BY <1>1, <1>2 DEF SafeInv, TypeOK, RequestsOK, WriteStock, NextLine, Lines
<1>6. LocksOK'
  <2> SUFFICES ASSUME NEW k \in Key, lock'[k] # Nil
               PROVE  pc'[lock'[k]] \in InTransaction /\ dirty'[k] \in Nat
    BY DEF LocksOK
  <2>1. \A t \in Session : pc[t] \in InTransaction => pc'[t] \in InTransaction
    BY DEF SafeInv, TypeOK, InTransaction, WriteStock, NextLine
  <2>2. pc[s] \in InTransaction
    BY DEF WriteStock, InTransaction
  <2>3. CASE lock'[k] = lock[k] /\ dirty'[k] = dirty[k]
    BY <2>1, <2>3 DEF SafeInv, TypeOK, LocksOK
  <2>4. CASE lock'[k] = s /\ dirty'[k] = NewBalance(s)
    BY <1>3, <2>1, <2>2, <2>4
  <2> QED BY <1>2, <2>3, <2>4 DEF SafeInv, TypeOK, WriteStock
<1>7. StockNat'
  BY DEF SafeInv, StockNat, WriteStock
<1> QED BY <1>4, <1>5, <1>6, <1>7 DEF SafeInv

LEMMA SafeInit == Init => SafeInv
<1> SUFFICES ASSUME Init PROVE SafeInv
  OBVIOUS
<1>1. stock \in [Key -> Nat \cup {Nil}]
  BY InitialStockAssumption DEF Init
<1>2. moved \in [Key -> Int]
  BY <1>1 DEF Init, Quantity
<1>3. TypeOK
  BY <1>1, <1>2, NilAssumption DEF Init, TypeOK
<1>4. RequestsOK /\ LocksOK /\ StockNat
  BY <1>1, NilAssumption DEF Init, RequestsOK, LocksOK, StockNat
<1> QED BY <1>3, <1>4 DEF SafeInv

LEMMA SafeStep == SafeInv /\ [Next]_vars => SafeInv'
<1> SUFFICES ASSUME SafeInv, [Next]_vars PROVE SafeInv'
  OBVIOUS
<1>1. ASSUME NEW s \in Session, NEW p \in Payloads, Begin(s, p) PROVE SafeInv'
  BY <1>1, BeginSafe
<1>2. ASSUME NEW s \in Session, CheckAvailable(s) \/ InsertPending(s) \/ ReadStock(s)
      PROVE  SafeInv'
  BY <1>2, PlanningSafe
<1>3. ASSUME NEW s \in Session, CreateStockRow(s) PROVE SafeInv'
  BY <1>3, CreateStockRowSafe
<1>4. ASSUME NEW s \in Session, WriteStock(s) PROVE SafeInv'
  BY <1>4, WriteStockSafe
<1>5. ASSUME NEW s \in Session, Commit(s) PROVE SafeInv'
  BY <1>5, CommitSafe
<1>6. ASSUME NEW s \in Session,
             UniqueViolation(s) \/ Refuse(s) \/ DeadlockVictim(s) \/ Disconnect(s)
      PROVE  SafeInv'
  BY <1>6, RollbackSafe DEF UniqueViolation, Refuse, DeadlockVictim, Disconnect
<1>7. CASE UNCHANGED vars
  BY <1>7 DEF vars, SafeInv, TypeOK, RequestsOK, LocksOK, StockNat, Lines
<1> QED BY <1>1, <1>2, <1>3, <1>4, <1>5, <1>6, <1>7 DEF Next, Progress

\* Type correctness of the ledger, for every instance.
THEOREM TypeCorrect == Spec => []TypeOK
<1>1. SafeInv => TypeOK
  BY DEF SafeInv
<1> QED BY <1>1, SafeInit, SafeStep, PTL DEF Spec

\* No interleaving of requests, refusals, deadlocks and crashes publishes a
\* negative stock quantity: the sign check of apply_movement is enough, although
\* the quantity it was made on may have been replaced (stock_service.py:51).
THEOREM NeverNegative == Spec => []StockNeverNegative
<1>1. SafeInv => StockNeverNegative
  BY DEF SafeInv, StockNat, StockNeverNegative
<1> QED BY <1>1, SafeInit, SafeStep, PTL DEF Spec

-----------------------------------------------------------------------------

(***************************************************************************)
(* The ledger of a pair that one coded kind moves.  By itself the equality *)
(* of stock and ledger is not inductive: it needs what is uncommitted      *)
(* (BooksOK), what is in hand (ReadOK), and that the "PENDING" row keeps   *)
(* every other request of the kind out (CodeHeld, FamilyLocks).            *)
(***************************************************************************)

\* From the flush of its "PENDING" row to its end, a request holds the code.
CodeHeld ==
    \A s \in Session :
        pc[s] \in InTransaction /\ Kind(s) \in Coded => pending[Kind(s)] = s

\* Only the kind that moves a pair locks its row.
FamilyLocks ==
    \A k \in Key, q \in Coded :
        OnlyFrom(q, k) /\ lock[k] # Nil => Kind(lock[k]) = q

CreateOK == \A s \in Session : pc[s] = "create" => lock[LineKey(s)] # s

\* The row being written is the committed one plus the movements of its holder,
\* and no other request has a movement of that pair under way.
BooksOK ==
    \A k \in SingleFamilyKeys :
        /\ Quantity(k) = moved[k]
        /\ \A s \in Session :
              /\ lock[k] = s => dirty[k] = Quantity(k) + moves[s][k]
              /\ lock[k] # s => moves[s][k] = 0

\* The quantity in hand is not stale.
ReadOK ==
    \A s \in Session :
        pc[s] = "write" /\ LineKey(s) \in SingleFamilyKeys =>
            /\ lock[LineKey(s)] = s => read[s] = dirty[LineKey(s)]
            /\ lock[LineKey(s)] # s => read[s] = Quantity(LineKey(s))

ExactInv == CodeHeld /\ FamilyLocks /\ CreateOK /\ BooksOK /\ ReadOK

\* A request past its arrival stands at a line it touches.
LEMMA AtLine ==
    ASSUME SafeInv, NEW s \in Session, pc[s] # "idle"
    PROVE  /\ req[s] \in Payloads
           /\ LineKey(s) \in Key /\ LineDelta(s) \in Int
           /\ Touches(req[s], LineKey(s))
<1>1. req[s] \in Payloads /\ idx[s] \in 1..Len(Lines(s))
  BY DEF SafeInv, RequestsOK
<1> QED BY <1>1, LineFacts

\* Two requests in their transactions that touch such a pair are the same one.
LEMMA SoleRequest ==
    ASSUME SafeInv, ExactInv, NEW k \in SingleFamilyKeys,
           NEW s \in Session, pc[s] \in InTransaction, Touches(req[s], k),
           NEW t \in Session, pc[t] \in InTransaction, Touches(req[t], k)
    PROVE  s = t
<1>1. PICK q \in Coded : OnlyFrom(q, k)
  BY DEF SingleFamilyKeys
<1>2. req[s] \in Payloads /\ req[t] \in Payloads
  BY AtLine DEF InTransaction
<1>3. Kind(s) = q /\ Kind(t) = q
  BY <1>1, <1>2 DEF OnlyFrom, Kind
<1> QED BY <1>3 DEF ExactInv, CodeHeld

\* Nobody but a request in its transaction that touches such a pair holds its row.
LEMMA SoleHolder ==
    ASSUME SafeInv, ExactInv, NEW k \in SingleFamilyKeys,
           NEW s \in Session, pc[s] \in InTransaction, Touches(req[s], k),
           lock[k] # Nil
    PROVE  lock[k] = s
<1>1. PICK q \in Coded : OnlyFrom(q, k)
  BY DEF SingleFamilyKeys
<1>2. req[s] \in Payloads
  BY AtLine DEF InTransaction
<1>3. Kind(s) = q
  BY <1>1, <1>2 DEF OnlyFrom, Kind
<1>4. k \in Key /\ lock[k] \in Session
  BY DEF SingleFamilyKeys, SafeInv, TypeOK
<1>5. Kind(lock[k]) = q /\ pc[lock[k]] \in InTransaction
  BY <1>1, <1>4 DEF ExactInv, FamilyLocks, SafeInv, LocksOK
<1> QED BY <1>3, <1>4, <1>5 DEF ExactInv, CodeHeld

\* What it means not to wait for a row, and for the code.
LEMMA GrantedRow ==
    ASSUME NEW s \in Session, Granted(s),
           pc[s] = "create" \/ (pc[s] = "write" /\ LineDelta(s) # 0)
    PROVE  lock[LineKey(s)] \in {Nil, s}
BY DEF Granted, Awaited

LEMMA GrantedCode ==
    ASSUME NEW s \in Session, Granted(s), pc[s] = "insert"
    PROVE  pending[Kind(s)] \in {Nil, s}
BY DEF Granted, Awaited

-----------------------------------------------------------------------------

\* Arriving, planning and inserting the "PENDING" row move no quantity.
LEMMA BeginExact ==
    ASSUME SafeInv, ExactInv, NEW s \in Session, NEW p \in Payloads, Begin(s, p)
    PROVE  ExactInv'
<1> USE NilAssumption
<1>1. /\ \A t \in Session : t # s => pc'[t] = pc[t] /\ req'[t] = req[t] /\ idx'[t] = idx[t]
      /\ pc'[s] = IF p.kind \in Coded THEN "check" ELSE "read"
      /\ req'[s] = p
  BY DEF SafeInv, TypeOK, Begin
<1>2. UNCHANGED <<stock, moved, lock, dirty, pending, read, moves>>
  BY DEF Begin
<1>3. \A k \in Key : lock[k] # s
  BY DEF SafeInv, LocksOK, InTransaction, Begin
<1>4. CodeHeld'
  BY <1>1, <1>2 DEF ExactInv, CodeHeld, Kind, InTransaction
<1>5. FamilyLocks'
  BY <1>1, <1>2, <1>3 DEF ExactInv, FamilyLocks, Kind, SafeInv, TypeOK
<1>6. CreateOK'
  BY <1>1, <1>2 DEF ExactInv, CreateOK, LineKey, Lines
<1>7. BooksOK'
  BY <1>2 DEF ExactInv, BooksOK, Quantity
<1>8. ReadOK'
  BY <1>1, <1>2 DEF ExactInv, ReadOK, LineKey, Lines, Quantity
<1> QED BY <1>4, <1>5, <1>6, <1>7, <1>8 DEF ExactInv

LEMMA CheckAvailableExact ==
    ASSUME SafeInv, ExactInv, NEW s \in Session, CheckAvailable(s)
    PROVE  ExactInv'
<1>1. /\ \A t \in Session : t # s => pc'[t] = pc[t] /\ idx'[t] = idx[t]
      /\ pc'[s] \in {"check", "insert"}
  BY DEF SafeInv, TypeOK, CheckAvailable
<1>2. UNCHANGED <<stock, moved, lock, dirty, pending, req, read, moves>>
  BY DEF CheckAvailable
<1>3. CodeHeld'
  BY <1>1, <1>2 DEF ExactInv, CodeHeld, Kind, InTransaction
<1>4. FamilyLocks'
  BY <1>2 DEF ExactInv, FamilyLocks, Kind
<1>5. CreateOK'
  BY <1>1, <1>2 DEF ExactInv, CreateOK, LineKey, Lines
<1>6. BooksOK'
  BY <1>2 DEF ExactInv, BooksOK, Quantity
<1>7. ReadOK'
  BY <1>1, <1>2 DEF ExactInv, ReadOK, LineKey, Lines, Quantity
<1> QED BY <1>3, <1>4, <1>5, <1>6, <1>7 DEF ExactInv

\* Whoever is in its transaction with the same kind would hold the code.
LEMMA InsertPendingExact ==
    ASSUME SafeInv, ExactInv, NEW s \in Session, InsertPending(s)
    PROVE  ExactInv'
<1> USE NilAssumption
<1>1. /\ \A t \in Session : t # s => pc'[t] = pc[t]
      /\ pc'[s] = "read"
  BY DEF SafeInv, TypeOK, InsertPending
<1>2. UNCHANGED <<stock, moved, lock, dirty, req, idx, read, moves>>
  BY DEF InsertPending
<1>3. pending[Kind(s)] \in {Nil, s}
  BY GrantedCode DEF InsertPending
<1>4. CodeHeld'
  <2> SUFFICES ASSUME NEW t \in Session, pc'[t] \in InTransaction, Kind(t) \in Coded
               PROVE  pending'[Kind(t)] = t
    BY <1>2 DEF CodeHeld, Kind
  <2>1. CASE t = s
    BY <2>1 DEF InsertPending, SafeInv, TypeOK
  <2>2. CASE t # s
    <3>1. pending[Kind(t)] = t
      BY <1>1, <2>2 DEF ExactInv, CodeHeld
    <3>2. Kind(t) # Kind(s)
      BY <1>3, <2>2, <3>1
    <3> QED BY <3>1, <3>2 DEF InsertPending, SafeInv, TypeOK
  <2> QED BY <2>1, <2>2
<1>5. FamilyLocks'
  BY <1>2 DEF ExactInv, FamilyLocks, Kind
<1>6. CreateOK'
  BY <1>1, <1>2 DEF ExactInv, CreateOK, LineKey, Lines
<1>7. BooksOK'
  BY <1>2 DEF ExactInv, BooksOK, Quantity
<1>8. ReadOK'
  BY <1>1, <1>2 DEF ExactInv, ReadOK, LineKey, Lines, Quantity
<1> QED BY <1>4, <1>5, <1>6, <1>7, <1>8 DEF ExactInv

\* What is read is what is committed, or what the request wrote before.
LEMMA ReadStockExact ==
    ASSUME SafeInv, ExactInv, NEW s \in Session, ReadStock(s)
    PROVE  ExactInv'
<1> USE NilAssumption
<1>1. /\ \A t \in Session : t # s => pc'[t] = pc[t] /\ read'[t] = read[t]
      /\ pc[s] = "read" /\ pc'[s] \in {"create", "write"}
  BY DEF SafeInv, TypeOK, ReadStock
<1>2. UNCHANGED <<stock, moved, lock, dirty, pending, req, idx, moves>>
  BY DEF ReadStock
<1>3. LineKey(s) \in Key
  BY <1>1, AtLine
<1>4. CodeHeld'
  BY <1>1, <1>2 DEF ExactInv, CodeHeld, Kind, InTransaction
<1>5. FamilyLocks'
  BY <1>2 DEF ExactInv, FamilyLocks, Kind
<1>6. CreateOK'
  <2>1. pc'[s] = "create" => lock[LineKey(s)] # s
    <3>1. CASE Visible(s, LineKey(s)) = Nil
      <4>1. lock[LineKey(s)] # Nil => dirty[LineKey(s)] \in Nat
        BY <1>3 DEF SafeInv, LocksOK
      <4> QED BY <3>1, <4>1 DEF Visible
    <3>2. CASE Visible(s, LineKey(s)) # Nil
      BY <3>2 DEF ReadStock, SafeInv, TypeOK
    <3> QED BY <3>1, <3>2
  <2> QED BY <1>1, <1>2, <2>1 DEF ExactInv, CreateOK, LineKey, Lines
<1>7. BooksOK'
  BY <1>2 DEF ExactInv, BooksOK, Quantity
<1>8. ReadOK'
  <2>1. pc'[s] = "write" => read'[s] = Visible(s, LineKey(s)) /\ Visible(s, LineKey(s)) # Nil
    BY DEF ReadStock, SafeInv, TypeOK
  <2>2. pc'[s] = "write" =>
           /\ lock[LineKey(s)] = s => read'[s] = dirty[LineKey(s)]
           /\ lock[LineKey(s)] # s => read'[s] = Quantity(LineKey(s))
    BY <2>1 DEF Visible, Quantity
  <2> QED BY <1>1, <1>2, <2>2 DEF ExactInv, ReadOK, LineKey, Lines, Quantity
<1> QED BY <1>4, <1>5, <1>6, <1>7, <1>8 DEF ExactInv

-----------------------------------------------------------------------------

\* The new row is empty, as the pair was, and nobody else is after it.
LEMMA CreateStockRowExact ==
    ASSUME SafeInv, ExactInv, NEW s \in Session, CreateStockRow(s)
    PROVE  ExactInv'
<1> DEFINE k0 == LineKey(s)
<1> USE NilAssumption
<1>1. /\ \A t \in Session : t # s => pc'[t] = pc[t] /\ read'[t] = read[t]
      /\ pc[s] = "create" /\ pc'[s] = "write" /\ read'[s] = 0
  BY DEF SafeInv, TypeOK, CreateStockRow
<1>2. UNCHANGED <<stock, moved, pending, req, idx, moves>> /\ stock[k0] = Nil
  BY DEF CreateStockRow
<1>3. k0 \in Key /\ req[s] \in Payloads /\ Touches(req[s], k0)
  BY <1>1, AtLine
<1>4. /\ \A k \in Key : k # k0 => lock'[k] = lock[k] /\ dirty'[k] = dirty[k]
      /\ lock'[k0] = s /\ dirty'[k0] = 0
  BY <1>3 DEF SafeInv, TypeOK, CreateStockRow
<1>5. lock[k0] = Nil
  <2>1. lock[k0] \in {Nil, s}
    BY GrantedRow DEF CreateStockRow
  <2> QED BY <1>1, <2>1 DEF ExactInv, CreateOK
<1>6. CodeHeld'
  BY <1>1, <1>2 DEF ExactInv, CodeHeld, Kind, InTransaction
<1>7. FamilyLocks'
  <2> SUFFICES ASSUME NEW k \in Key, NEW q \in Coded, OnlyFrom(q, k), lock'[k] # Nil
               PROVE  Kind(lock'[k]) = q
    BY <1>2 DEF FamilyLocks, Kind
  <2>1. CASE k = k0
    BY <1>3, <1>4, <2>1 DEF OnlyFrom, Kind
  <2>2. CASE k # k0
    BY <1>4, <2>2 DEF ExactInv, FamilyLocks
  <2> QED BY <2>1, <2>2
<1>8. CreateOK'
  <2> SUFFICES ASSUME NEW t \in Session, pc'[t] = "create"
               PROVE  lock'[LineKey(t)] # t
    BY <1>2 DEF CreateOK, LineKey, Lines
  <2>1. t # s /\ pc[t] = "create"
    BY <1>1
  <2>2. LineKey(t) \in Key
    BY <2>1, AtLine
  <2> QED BY <1>4, <2>1, <2>2 DEF ExactInv, CreateOK
<1>9. BooksOK'
  <2> SUFFICES ASSUME NEW k \in SingleFamilyKeys
               PROVE  /\ Quantity(k) = moved[k]
                      /\ \A t \in Session :
                            /\ lock'[k] = t => dirty'[k] = Quantity(k) + moves[t][k]
                            /\ lock'[k] # t => moves[t][k] = 0
    BY <1>2 DEF BooksOK, Quantity
  <2>1. k \in Key
    BY DEF SingleFamilyKeys
  <2>2. CASE k = k0
    <3>1. \A t \in Session : moves[t][k] = 0
      BY <1>5, <2>2 DEF ExactInv, BooksOK
    <3>2. Quantity(k) = 0
      BY <1>2, <2>2 DEF Quantity
    <3> QED BY <1>4, <2>2, <3>1, <3>2 DEF ExactInv, BooksOK
  <2>3. CASE k # k0
    BY <1>4, <2>1, <2>3 DEF ExactInv, BooksOK
  <2> QED BY <2>2, <2>3
<1>10. ReadOK'
  <2> SUFFICES ASSUME NEW t \in Session, pc'[t] = "write", LineKey(t) \in SingleFamilyKeys
               PROVE  /\ lock'[LineKey(t)] = t => read'[t] = dirty'[LineKey(t)]
                      /\ lock'[LineKey(t)] # t => read'[t] = Quantity(LineKey(t))
    BY <1>2 DEF ReadOK, LineKey, Lines, Quantity
  <2>1. CASE t = s
    BY <1>1, <1>4, <2>1
  <2>2. CASE t # s
    <3>1. pc[t] = "write" /\ read'[t] = read[t]
      BY <1>1, <2>2
    <3>2. LineKey(t) \in Key /\ Touches(req[t], LineKey(t))
      BY <3>1, AtLine
    <3>3. LineKey(t) # k0
      BY <1>1, <1>3, <2>2, <3>1, <3>2, SoleRequest DEF InTransaction
    <3> QED BY <1>4, <3>1, <3>2, <3>3 DEF ExactInv, ReadOK
  <2> QED BY <2>1, <2>2
<1> QED BY <1>6, <1>7, <1>8, <1>9, <1>10 DEF ExactInv

\* The stored balance is the committed one plus all movements of the request.
LEMMA WriteStockExact ==
    ASSUME SafeInv, ExactInv, NEW s \in Session, WriteStock(s)
    PROVE  ExactInv'
<1> DEFINE k0 == LineKey(s)
           d  == LineDelta(s)
<1> USE NilAssumption
<1>1. /\ \A t \in Session : t # s => pc'[t] = pc[t] /\ idx'[t] = idx[t]
      /\ pc[s] = "write" /\ pc'[s] \in {"read", "commit"}
  BY DEF SafeInv, TypeOK, WriteStock, NextLine
<1>2. UNCHANGED <<stock, moved, pending, req, read>>
  BY DEF WriteStock
<1>3. k0 \in Key /\ d \in Int /\ req[s] \in Payloads /\ Touches(req[s], k0)
  BY <1>1, AtLine
<1>4. /\ \A k \in Key : k # k0 => lock'[k] = lock[k] /\ dirty'[k] = dirty[k]
      /\ d = 0 => lock'[k0] = lock[k0] /\ dirty'[k0] = dirty[k0]
      /\ d # 0 => lock'[k0] = s /\ dirty'[k0] = read[s] + d /\ lock[k0] \in {Nil, s}
  <2>1. CASE d = 0
    BY <2>1 DEF WriteStock
  <2>2. CASE d # 0
    <3>1. lock[k0] \in {Nil, s}
      BY <1>1, <2>2, GrantedRow DEF WriteStock
    <3>2. /\ lock' = [lock EXCEPT ![k0] = s]
          /\ dirty' = [dirty EXCEPT ![k0] = read[s] + d]
      BY <2>2 DEF WriteStock, NewBalance
    <3> QED BY <1>3, <2>2, <3>1, <3>2 DEF SafeInv, TypeOK
  <2> QED BY <2>1, <2>2
<1>5. /\ moves'[s][k0] = moves[s][k0] + d
      /\ \A t \in Session, k \in Key : (t # s \/ k # k0) => moves'[t][k] = moves[t][k]
      /\ \A t \in Session, k \in Key : moves[t][k] \in Int
  BY <1>3 DEF SafeInv, TypeOK, WriteStock
<1>6. CodeHeld'
  BY <1>1, <1>2 DEF ExactInv, CodeHeld, Kind, InTransaction
<1>7. FamilyLocks'
  <2> SUFFICES ASSUME NEW k \in Key, NEW q \in Coded, OnlyFrom(q, k), lock'[k] # Nil
               PROVE  Kind(lock'[k]) = q
    BY <1>2 DEF FamilyLocks, Kind
  <2>1. CASE lock'[k] = lock[k]
    BY <2>1 DEF ExactInv, FamilyLocks
  <2>2. CASE lock'[k] # lock[k]
    <3>1. k = k0 /\ lock'[k] = s
      BY <1>4, <2>2
    <3> QED BY <1>3, <3>1 DEF OnlyFrom, Kind
  <2> QED BY <2>1, <2>2
<1>8. CreateOK'
  <2> SUFFICES ASSUME NEW t \in Session, pc'[t] = "create"
               PROVE  lock'[LineKey(t)'] # t
    BY <1>2 DEF CreateOK
  <2>1. t # s /\ pc[t] = "create" /\ LineKey(t)' = LineKey(t)
    BY <1>1, <1>2 DEF LineKey, Lines
  <2>2. LineKey(t) \in Key
    BY <2>1, AtLine
  <2>3. lock[LineKey(t)] # t
    BY <2>1 DEF ExactInv, CreateOK
  <2> QED BY <1>4, <2>1, <2>2, <2>3
<1>9. BooksOK'
  <2> SUFFICES ASSUME NEW k \in SingleFamilyKeys
               PROVE  /\ Quantity(k) = moved[k]
                      /\ \A t \in Session :
                            /\ lock'[k] = t => dirty'[k] = Quantity(k) + moves'[t][k]
                            /\ lock'[k] # t => moves'[t][k] = 0
    BY <1>2 DEF BooksOK, Quantity
  <2>1. k \in Key
    BY DEF SingleFamilyKeys
  <2>2. /\ Quantity(k) = moved[k]
        /\ \A t \in Session : /\ lock[k] = t => dirty[k] = Quantity(k) + moves[t][k]
                              /\ lock[k] # t => moves[t][k] = 0
    BY DEF ExactInv, BooksOK
  <2>3. CASE k # k0
    BY <1>4, <1>5, <2>1, <2>2, <2>3
  <2>4. CASE k = k0 /\ d = 0
    BY <1>4, <1>5, <2>1, <2>2, <2>4
  <2>5. CASE k = k0 /\ d # 0
    <3>1. read[s] = Quantity(k) + moves[s][k]
      <4>1. /\ lock[k] = s => read[s] = dirty[k]
            /\ lock[k] # s => read[s] = Quantity(k)
        BY <1>1, <2>5 DEF ExactInv, ReadOK
      <4>2. Quantity(k) \in Int
        BY <2>1, <2>2 DEF SafeInv, TypeOK
      <4> QED BY <2>2, <4>1, <4>2
    <3>2. Quantity(k) \in Int
      BY <2>1, <2>2 DEF SafeInv, TypeOK
    <3>3. dirty'[k] = Quantity(k) + moves'[s][k]
      BY <1>3, <1>4, <1>5, <2>1, <2>5, <3>1, <3>2
    <3>4. \A t \in Session : t # s => moves'[t][k] = 0
      BY <1>4, <1>5, <2>1, <2>2, <2>5
    <3> QED BY <1>4, <2>2, <2>5, <3>3, <3>4
  <2> QED BY <2>3, <2>4, <2>5
<1>10. ReadOK'
  <2> SUFFICES ASSUME NEW t \in Session, pc'[t] = "write", LineKey(t)' \in SingleFamilyKeys
               PROVE  /\ lock'[LineKey(t)'] = t => read[t] = dirty'[LineKey(t)']
                      /\ lock'[LineKey(t)'] # t => read[t] = Quantity(LineKey(t)')
    BY <1>2 DEF ReadOK, Quantity
  <2>1. t # s /\ pc[t] = "write" /\ LineKey(t)' = LineKey(t)
    BY <1>1, <1>2 DEF LineKey, Lines
  <2>2. LineKey(t) \in Key /\ Touches(req[t], LineKey(t))
    BY <2>1, AtLine
  <2>3. LineKey(t) # k0
    BY <1>1, <1>3, <2>1, <2>2, SoleRequest DEF InTransaction
  <2> QED BY <1>4, <2>1, <2>2, <2>3 DEF ExactInv, ReadOK
<1> QED BY <1>6, <1>7, <1>8, <1>9, <1>10 DEF ExactInv

-----------------------------------------------------------------------------

\* Ending a transaction, when the committed tables change by all it wrote or not
\* at all.
LEMMA ReleaseExact ==
    ASSUME SafeInv, ExactInv, NEW s \in Session, pc[s] # "idle", Release(s),
           \/ UNCHANGED <<stock, moved>>
           \/ /\ pc[s] \in InTransaction
              /\ stock' = [k \in Key |-> IF lock[k] = s THEN dirty[k] ELSE stock[k]]
              /\ moved' = [k \in Key |-> moved[k] + moves[s][k]]
    PROVE  ExactInv'
<1> USE NilAssumption
<1>1. /\ \A t \in Session : t # s => /\ pc'[t] = pc[t] /\ read'[t] = read[t]
                                     /\ req'[t] = req[t] /\ idx'[t] = idx[t]
                                     /\ moves'[t] = moves[t]
      /\ pc'[s] = "idle"
      /\ \A k \in Key : moves'[s][k] = 0
  BY DEF SafeInv, TypeOK, Release
<1>2. \A k \in Key : /\ lock[k] # s => lock'[k] = lock[k] /\ dirty'[k] = dirty[k]
                     /\ lock[k] = s => lock'[k] = Nil
                     /\ lock'[k] # s
  BY DEF SafeInv, TypeOK, Release
<1>3. \A t \in Session : t # s => Kind(t)' = Kind(t) /\ LineKey(t)' = LineKey(t)
  BY <1>1 DEF Kind, LineKey, Lines
<1>4. \A k \in Key : lock[k] # s => Quantity(k)' = Quantity(k)
  BY DEF Quantity
<1>6. CodeHeld'
  <2> SUFFICES ASSUME NEW t \in Session, pc'[t] \in InTransaction, Kind(t)' \in Coded
               PROVE  pending'[Kind(t)'] = t
    BY DEF CodeHeld
  <2>1. t # s
    BY <1>1 DEF InTransaction
  <2>2. pending[Kind(t)] = t /\ Kind(t) \in Coded
    BY <1>1, <1>3, <2>1 DEF ExactInv, CodeHeld
  <2>3. pending'[Kind(t)] = t
    BY <2>1, <2>2 DEF Release
  <2> QED BY <1>3, <2>1, <2>3
<1>7. FamilyLocks'
  <2> SUFFICES ASSUME NEW k \in Key, NEW q \in Coded, OnlyFrom(q, k), lock'[k] # Nil
               PROVE  req'[lock'[k]].kind = q
    BY DEF FamilyLocks, OnlyFrom, Touches, Kind
  <2>1. lock[k] # s /\ lock'[k] = lock[k] /\ lock[k] \in Session
    BY <1>2 DEF SafeInv, TypeOK
  <2>2. Kind(lock[k]) = q
    BY <2>1 DEF ExactInv, FamilyLocks
  <2>3. req'[lock[k]] = req[lock[k]]
    BY <1>1, <2>1
  <2> QED BY <2>1, <2>2, <2>3 DEF Kind
<1>8. CreateOK'
  <2> SUFFICES ASSUME NEW t \in Session, pc'[t] = "create"
               PROVE  lock'[LineKey(t)'] # t
    BY DEF CreateOK
  <2>1. t # s /\ pc[t] = "create" /\ LineKey(t)' = LineKey(t)
    BY <1>1, <1>3
  <2>2. LineKey(t) \in Key /\ lock[LineKey(t)] # t
    BY <2>1, AtLine DEF ExactInv, CreateOK
  <2> QED BY <1>2, <2>1, <2>2
<1>9. BooksOK'
  <2> SUFFICES ASSUME NEW k \in SingleFamilyKeys
               PROVE  /\ Quantity(k)' = moved'[k]
                      /\ \A t \in Session :
                            /\ lock'[k] = t => dirty'[k] = Quantity(k)' + moves'[t][k]
                            /\ lock'[k] # t => moves'[t][k] = 0
    BY DEF BooksOK, SingleFamilyKeys, OnlyFrom, Touches
  <2>1. k \in Key
    BY DEF SingleFamilyKeys
  <2>2. /\ Quantity(k) = moved[k]
        /\ \A t \in Session : /\ lock[k] = t => dirty[k] = Quantity(k) + moves[t][k]
                              /\ lock[k] # t => moves[t][k] = 0
    BY DEF ExactInv, BooksOK
  <2>3. moved[k] \in Int
    BY <2>1 DEF SafeInv, TypeOK
  <2>4. Quantity(k)' = moved'[k]
    <3>1. CASE UNCHANGED <<stock, moved>>
      BY <2>2, <3>1 DEF Quantity
    <3>2. CASE moved' = [i \in Key |-> moved[i] + moves[s][i]] /\ lock[k] = s
               /\ stock' = [i \in Key |-> IF lock[i] = s THEN dirty[i] ELSE stock[i]]
      <4>1. dirty[k] = moved[k] + moves[s][k] /\ dirty[k] # Nil
        BY <2>1, <2>2, <3>2 DEF SafeInv, LocksOK
      <4> QED BY <2>1, <3>2, <4>1 DEF Quantity
    <3>3. CASE moved' = [i \in Key |-> moved[i] + moves[s][i]] /\ lock[k] # s
      BY <1>4, <2>1, <2>2, <2>3, <3>3
    <3> QED BY <3>1, <3>2, <3>3
  <2>5. ASSUME NEW t \in Session, t # s
        PROVE  /\ lock'[k] = t => dirty'[k] = Quantity(k)' + moves'[t][k]
               /\ lock'[k] # t => moves'[t][k] = 0
    <3>1. moves'[t] = moves[t]
      BY <1>1, <2>5
    <3>2. CASE lock'[k] = t
      <4>1. lock[k] = t /\ dirty'[k] = dirty[k]
        BY <1>2, <2>1, <2>5, <3>2
      <4> QED BY <1>4, <2>1, <2>2, <2>5, <3>1, <3>2, <4>1
    <3>3. CASE lock'[k] # t
      BY <1>2, <2>1, <2>2, <2>5, <3>1, <3>3
    <3> QED BY <3>2, <3>3
  <2> QED BY <1>1, <1>2, <2>1, <2>4, <2>5
<1>10. ReadOK'
  <2> SUFFICES ASSUME NEW t \in Session, NEW k \in SingleFamilyKeys,
                      pc'[t] = "write", LineKey(t)' = k
               PROVE  /\ lock'[k] = t => read'[t] = dirty'[k]
                      /\ lock'[k] # t => read'[t] = Quantity(k)'
    BY DEF ReadOK, SingleFamilyKeys, OnlyFrom, Touches, Quantity
  <2>1. t # s /\ pc[t] = "write" /\ LineKey(t) = k /\ read'[t] = read[t]
    BY <1>1, <1>3
  <2>2. k \in Key /\ Touches(req[t], k)
    BY <2>1, AtLine
  <2>3. lock[k] # s
    BY <2>1, <2>2, SoleHolder DEF InTransaction
  <2>4. /\ lock[k] = t => read[t] = dirty[k]
        /\ lock[k] # t => read[t] = Quantity(k)
    BY <2>1 DEF ExactInv, ReadOK
  <2>5. lock'[k] = lock[k] /\ dirty'[k] = dirty[k] /\ Quantity(k)' = Quantity(k)
    BY <1>2, <1>4, <2>2, <2>3
  <2> QED BY <2>1, <2>4, <2>5
<1> QED BY <1>6, <1>7, <1>8, <1>9, <1>10 DEF ExactInv

LEMMA ExactInit == Init => ExactInv
<1> SUFFICES ASSUME Init PROVE ExactInv
  OBVIOUS
<1>1. CodeHeld /\ CreateOK /\ ReadOK
  BY DEF Init, CodeHeld, CreateOK, ReadOK, InTransaction
<1>2. FamilyLocks
  BY DEF Init, FamilyLocks
<1>3. BooksOK
  BY NilAssumption DEF Init, BooksOK, SingleFamilyKeys, Quantity
<1> QED BY <1>1, <1>2, <1>3 DEF ExactInv

LEMMA ExactStep == SafeInv /\ ExactInv /\ [Next]_vars => ExactInv'
<1> SUFFICES ASSUME SafeInv, ExactInv, [Next]_vars PROVE ExactInv'
  OBVIOUS
<1>1. ASSUME NEW s \in Session, NEW p \in Payloads, Begin(s, p) PROVE ExactInv'
  BY <1>1, BeginExact
<1>2. ASSUME NEW s \in Session, CheckAvailable(s) PROVE ExactInv'
  BY <1>2, CheckAvailableExact
<1>3. ASSUME NEW s \in Session, InsertPending(s) PROVE ExactInv'
  BY <1>3, InsertPendingExact
<1>4. ASSUME NEW s \in Session, ReadStock(s) PROVE ExactInv'
  BY <1>4, ReadStockExact
<1>5. ASSUME NEW s \in Session, CreateStockRow(s) PROVE ExactInv'
  BY <1>5, CreateStockRowExact
<1>6. ASSUME NEW s \in Session, WriteStock(s) PROVE ExactInv'
  BY <1>6, WriteStockExact
<1>7. ASSUME NEW s \in Session, Commit(s) PROVE ExactInv'
  BY <1>7, ReleaseExact DEF Commit, InTransaction
<1>8. ASSUME NEW s \in Session, Rollback(s), pc[s] # "idle" PROVE ExactInv'
  BY <1>8, ReleaseExact DEF Rollback
<1>9. ASSUME NEW s \in Session, DeadlockVictim(s) PROVE pc[s] # "idle" /\ Rollback(s)
  <2>1. ~Granted(s)
    BY <1>9 DEF DeadlockVictim, Ring
  <2>2. Awaited(s) # Nil
    BY <2>1 DEF Granted
  <2> QED BY <1>9, <2>2 DEF DeadlockVictim, Awaited
<1>10. ASSUME NEW s \in Session, UniqueViolation(s) \/ Refuse(s) \/ Disconnect(s)
       PROVE  pc[s] # "idle" /\ Rollback(s)
  BY <1>10 DEF UniqueViolation, Refuse, Disconnect
<1>11. CASE UNCHANGED vars
  BY <1>11 DEF vars, ExactInv, CodeHeld, FamilyLocks, CreateOK, BooksOK, ReadOK,
               Kind, LineKey, Lines, Quantity
<1> QED BY <1>1, <1>2, <1>3, <1>4, <1>5, <1>6, <1>7, <1>8, <1>9, <1>10, <1>11
        DEF Next, Progress

\* Whatever else the server does, a pair that only sales move, or only
\* distributions, keeps its stock equal to the sum of its movements: the promise
\* of stock_service.py:5 where the "PENDING" row serialises its writers.
THEOREM SingleFamilyLedger == Spec => []SingleFamilyExact
<1>1. SafeInv /\ ExactInv => SingleFamilyExact
  BY DEF ExactInv, BooksOK, SingleFamilyExact
<1>2. Init => SafeInv /\ ExactInv
  BY SafeInit, ExactInit
<1>3. SafeInv /\ ExactInv /\ [Next]_vars => (SafeInv /\ ExactInv)'
  BY SafeStep, ExactStep
<1> QED BY <1>1, <1>2, <1>3, PTL DEF Spec

-----------------------------------------------------------------------------

\* Whoever waits for a row holds the code of its kind, and so does the holder of a
\* row: of one coded kind at most one request is past its "PENDING" row, so that in
\* a ring of one kind nobody can be waiting for that one.
LEMMA NoRingOfOneKind ==
    ASSUME SafeInv, ExactInv, NEW C \in SUBSET Session, NEW q \in Coded, Ring(C),
           \A s \in C : Kind(s) = q
    PROVE  FALSE
<1> USE NilAssumption
<1>1. ASSUME NEW s \in C
      PROVE  /\ Awaited(s) \in C \ {s}
             /\ \/ pc[s] = "insert" /\ Awaited(s) = pending[q]
                \/ pc[s] \in {"create", "write"} /\ Awaited(s) = lock[LineKey(s)]
  <2>1. Awaited(s) \notin {Nil, s} /\ Awaited(s) \in C
    BY DEF Ring, Granted
  <2> QED BY <2>1 DEF Awaited
<1>2. ASSUME NEW s \in C, pc[s] \in {"create", "write"} PROVE pending[q] = s
  BY <1>2 DEF ExactInv, CodeHeld, InTransaction
<1>3. ASSUME NEW s \in C, pc[s] \in {"create", "write"} PROVE FALSE
  <2>1. LineKey(s) \in Key
    BY <1>3, AtLine
  <2>2. Awaited(s) = lock[LineKey(s)] /\ Awaited(s) \in C \ {s}
    BY <1>1, <1>3
  <2>3. pc[Awaited(s)] \in InTransaction
    BY <2>1, <2>2 DEF SafeInv, LocksOK
  <2>4. pending[q] = Awaited(s)
    BY <2>2, <2>3 DEF ExactInv, CodeHeld
  <2> QED BY <1>2, <1>3, <2>2, <2>4
<1>4. PICK s \in C : TRUE
  BY DEF Ring
<1>5. pc[s] = "insert" /\ Awaited(s) = pending[q] /\ Awaited(s) \in C
  BY <1>1, <1>3
<1>6. pc[Awaited(s)] = "insert" /\ Awaited(Awaited(s)) = pending[q]
  BY <1>1, <1>3, <1>5
<1>7. Awaited(Awaited(s)) # Awaited(s)
  BY <1>1, <1>5
<1> QED BY <1>5, <1>6, <1>7

\* Sales lock stock rows in the order of their payloads, and still no set of sales,
\* however large, waits in a ring, nor do distributions among themselves
\* (sale_service.py:90, welfare_service.py:163).
THEOREM OneKindNeverDeadlocks == Spec => []SameKindNeverDeadlocks
<1>1. SafeInv /\ ExactInv => SameKindNeverDeadlocks
  BY NoRingOfOneKind DEF SameKindNeverDeadlocks
<1>2. Init => SafeInv /\ ExactInv
  BY SafeInit, ExactInit
<1>3. SafeInv /\ ExactInv /\ [Next]_vars => (SafeInv /\ ExactInv)'
  BY SafeStep, ExactStep
<1> QED BY <1>1, <1>2, <1>3, PTL DEF Spec

-----------------------------------------------------------------------------
(***************************************************************************)
(* The refinement of AtomicLedger.  What a request has flushed for a pair  *)
(* is the sum of the lines it is past (MovesOK), so its commit posts the   *)
(* net of its whole payload, and every other step posts nothing.           *)
(***************************************************************************)

Deltas(p) == [i \in 1..Len(p.lines) |-> p.lines[i].delta]

On(p, k, n) == {i \in 1..n : p.lines[i].key = k}

\* What the first n lines of p change of k.
Posted(p, k, n) == SumFunctionOnSet(Deltas(p), On(p, k, n))

LinesDone(s) == IF pc[s] = "commit" THEN Len(Lines(s)) ELSE idx[s] - 1

MovesOK ==
    \A s \in Session :
        /\ pc[s] = "insert" => idx[s] = 1
        /\ \A k \in Key :
              moves[s][k] = IF pc[s] \in InTransaction THEN Posted(req[s], k, LinesDone(s))
                            ELSE 0

LEMMA PayloadLines ==
    ASSUME NEW p \in Payloads
    PROVE  /\ Len(p.lines) \in Nat \ {0} /\ DOMAIN Deltas(p) = 1..Len(p.lines)
           /\ \A i \in 1..Len(p.lines) : /\ p.lines[i].key \in Key
                                         /\ Deltas(p)[i] = p.lines[i].delta
                                         /\ Deltas(p)[i] \in Int
<1>1. p.lines \in Seq(Line) /\ p.lines # << >>
  BY PayloadsAssumption
<1>2. \A i \in 1..Len(p.lines) : p.lines[i] \in Line
  BY <1>1
<1> QED BY <1>1, <1>2 DEF Deltas, Line

LEMMA NothingPosted ==
    ASSUME NEW p, NEW k
    PROVE  Posted(p, k, 0) = 0
<1>1. On(p, k, 0) = {}
  BY DEF On
<1>2. IsFiniteSet({})
  BY FS_EmptySet
<1> QED BY <1>1, <1>2, SumStep DEF Posted

LEMMA OneMorePosted ==
    ASSUME NEW p \in Payloads, NEW k, NEW n \in 1..Len(p.lines)
    PROVE  Posted(p, k, n) = Posted(p, k, n - 1) +
                             (IF p.lines[n].key = k THEN p.lines[n].delta ELSE 0)
<1> DEFINE S == On(p, k, n - 1)
           d == Deltas(p)
<1>1. /\ d[n] = p.lines[n].delta /\ d[n] \in Int
      /\ \A i \in S : d[i] \in Int
  BY PayloadLines DEF On
<1>2. IsFiniteSet(S)
  <2>1. IsFiniteSet(1..(n - 1)) /\ S \in SUBSET (1..(n - 1))
    BY FS_Interval DEF On
  <2> QED BY <2>1, FS_Subset
<1>3. n \notin S
  BY DEF On
<1> HIDE DEF d
<1>4. CASE p.lines[n].key = k
  <2>1. On(p, k, n) = S \cup {n}
    BY <1>4 DEF On
  <2> HIDE DEF S
  <2>2. SumFunctionOnSet(d, S \cup {n}) = SumFunctionOnSet(d, S) + d[n]
    BY <1>1, <1>2, <1>3, SumIn
  <2> QED BY <1>1, <1>4, <2>1, <2>2 DEF Posted, d, S
<1>5. CASE p.lines[n].key # k
  <2>1. On(p, k, n) = S
    BY <1>5 DEF On
  <2>2. SumFunctionOnSet(d, S) \in Int
    BY <1>1, <1>2, SumInt
  <2> QED BY <1>5, <2>1, <2>2 DEF Posted, d
<1> QED BY <1>4, <1>5

\* The abstract ledger sums in the same way.
LEMMA SumsAgree ==
    ASSUME NEW f, NEW S
    PROVE  /\ Everything!SumFunctionOnSet(f, S) = SumFunctionOnSet(f, S)
           /\ SingleFamily!SumFunctionOnSet(f, S) = SumFunctionOnSet(f, S)
BY DEF SumFunctionOnSet, FoldFunctionOnSet, MapThenFoldSet,
       Everything!SumFunctionOnSet, Everything!FoldFunctionOnSet, Everything!MapThenFoldSet,
       SingleFamily!SumFunctionOnSet, SingleFamily!FoldFunctionOnSet,
       SingleFamily!MapThenFoldSet

LEMMA NetPosted ==
    ASSUME NEW p \in Payloads
    PROVE  /\ Everything!Net(p) = [k \in Key |-> Posted(p, k, Len(p.lines))]
           /\ SingleFamily!Net(p) = [k \in SingleFamilyKeys |-> Posted(p, k, Len(p.lines))]
<1>1. \A k : {i \in DOMAIN Deltas(p) : p.lines[i].key = k} = On(p, k, Len(p.lines))
  BY PayloadLines DEF On
<1> DEFINE Of(k) == {i \in DOMAIN Deltas(p) : p.lines[i].key = k}
<1>2. \A f, S : /\ Everything!SumFunctionOnSet(f, S) = SumFunctionOnSet(f, S)
                /\ SingleFamily!SumFunctionOnSet(f, S) = SumFunctionOnSet(f, S)
  BY SumsAgree
<1>3. /\ Everything!Net(p) = [k \in Key |-> SumFunctionOnSet(Deltas(p), Of(k))]
      /\ SingleFamily!Net(p) = [k \in SingleFamilyKeys |-> SumFunctionOnSet(Deltas(p), Of(k))]
  BY <1>2 DEF Everything!Net, SingleFamily!Net, Deltas
<1>4. \A k : SumFunctionOnSet(Deltas(p), Of(k)) = Posted(p, k, Len(p.lines))
  BY <1>1 DEF Posted
<1> HIDE DEF Of
<1> QED BY <1>3, <1>4

LEMMA MovesInit == Init => MovesOK
<1> SUFFICES ASSUME Init, NEW s \in Session
             PROVE  /\ pc[s] \notin InTransaction \cup {"insert"}
                    /\ \A k \in Key : moves[s][k] = 0
  BY DEF MovesOK
<1> QED BY DEF Init, InTransaction

\* Steps of a request that flush no movement.
LEMMA MovesStay ==
    ASSUME SafeInv, MovesOK, NEW s \in Session, UNCHANGED moves,
           \A t \in Session \ {s} : pc'[t] = pc[t] /\ req'[t] = req[t] /\ idx'[t] = idx[t],
           pc'[s] = "insert" => idx'[s] = 1,
           \/ pc[s] \notin InTransaction /\ pc'[s] \notin InTransaction
           \/ pc[s] \notin InTransaction /\ pc'[s] = "read" /\ idx'[s] = 1
           \/ /\ pc[s] \in InTransaction \ {"commit"} /\ pc'[s] \in InTransaction \ {"commit"}
              /\ req'[s] = req[s] /\ idx'[s] = idx[s]
    PROVE  MovesOK'
<1> SUFFICES ASSUME NEW t \in Session
             PROVE  /\ pc'[t] = "insert" => idx'[t] = 1
                    /\ \A k \in Key :
                          moves[t][k] = IF pc'[t] \in InTransaction
                                        THEN Posted(req'[t], k, LinesDone(t)') ELSE 0
  BY DEF MovesOK
<1>1. CASE t # s
  BY <1>1 DEF MovesOK, LinesDone, Lines
<1>2. CASE t = s /\ pc[s] \notin InTransaction /\ pc'[s] \notin InTransaction
  BY <1>2 DEF MovesOK
<1>3. CASE t = s /\ pc[s] \notin InTransaction /\ pc'[s] = "read" /\ idx'[s] = 1
  <2>1. LinesDone(s)' = 0
    BY <1>3 DEF LinesDone
  <2> QED BY <1>3, <2>1, NothingPosted DEF MovesOK
<1>4. CASE /\ t = s
           /\ pc[s] \in InTransaction \ {"commit"} /\ pc'[s] \in InTransaction \ {"commit"}
           /\ req'[s] = req[s] /\ idx'[s] = idx[s]
  BY <1>4 DEF MovesOK, LinesDone, InTransaction
<1> QED BY <1>1, <1>2, <1>3, <1>4

LEMMA WriteStockMoves ==
    ASSUME SafeInv, MovesOK, NEW s \in Session, WriteStock(s)
    PROVE  MovesOK'
<1>1. req[s] \in Payloads /\ idx[s] \in 1..Len(Lines(s)) /\ pc[s] = "write"
  BY DEF SafeInv, RequestsOK, WriteStock
<1>2. LineKey(s) \in Key /\ LineDelta(s) \in Int /\ Len(Lines(s)) \in Nat \ {0}
  BY <1>1, LineFacts
<1>3. /\ req' = req
      /\ \A t \in Session \ {s} : pc'[t] = pc[t] /\ idx'[t] = idx[t] /\ moves'[t] = moves[t]
      /\ moves'[s][LineKey(s)] = moves[s][LineKey(s)] + LineDelta(s)
      /\ \A k \in Key \ {LineKey(s)} : moves'[s][k] = moves[s][k]
      /\ \A k \in Key : moves[s][k] \in Int
  BY <1>2 DEF SafeInv, TypeOK, WriteStock, NextLine
<1>4. pc'[s] \in {"read", "commit"} /\ LinesDone(s)' = idx[s]
  <2>1. CASE idx[s] < Len(Lines(s))
    <3>1. idx' = [idx EXCEPT ![s] = idx[s] + 1] /\ pc' = [pc EXCEPT ![s] = "read"]
      BY <2>1 DEF WriteStock, NextLine
    <3>2. idx'[s] = idx[s] + 1 /\ pc'[s] = "read"
      BY <3>1 DEF SafeInv, TypeOK
    <3> QED BY <1>1, <3>2 DEF LinesDone
  <2>2. CASE ~(idx[s] < Len(Lines(s)))
    <3>1. pc'[s] = "commit"
      BY <2>2 DEF SafeInv, TypeOK, WriteStock, NextLine
    <3> QED BY <1>1, <1>2, <1>3, <2>2, <3>1 DEF LinesDone, Lines
  <2> QED BY <2>1, <2>2
<1>5. \A k \in Key : moves[s][k] = Posted(req[s], k, idx[s] - 1)
  BY <1>1 DEF MovesOK, LinesDone, InTransaction
<1>6. ASSUME NEW k \in Key PROVE moves'[s][k] = Posted(req[s], k, idx[s])
  <2>1. Posted(req[s], k, idx[s]) =
           Posted(req[s], k, idx[s] - 1) + (IF LineKey(s) = k THEN LineDelta(s) ELSE 0)
    BY <1>1, OneMorePosted DEF Lines, LineKey, LineDelta
  <2> QED BY <1>3, <1>5, <2>1
<1> SUFFICES ASSUME NEW t \in Session
             PROVE  /\ pc'[t] = "insert" => idx'[t] = 1
                    /\ \A k \in Key :
                          moves'[t][k] = IF pc'[t] \in InTransaction
                                         THEN Posted(req'[t], k, LinesDone(t)') ELSE 0
  BY DEF MovesOK
<1>7. CASE t # s
  BY <1>3, <1>7 DEF MovesOK, LinesDone, Lines
<1>8. CASE t = s
  BY <1>3, <1>4, <1>6, <1>8 DEF InTransaction
<1> QED BY <1>7, <1>8

LEMMA ReleaseMoves ==
    ASSUME SafeInv, MovesOK, NEW s \in Session, Release(s)
    PROVE  MovesOK'
<1>1. /\ \A t \in Session \ {s} : /\ pc'[t] = pc[t] /\ req'[t] = req[t]
                                  /\ idx'[t] = idx[t] /\ moves'[t] = moves[t]
      /\ pc'[s] = "idle" /\ \A k \in Key : moves'[s][k] = 0
  BY DEF SafeInv, TypeOK, Release
<1> SUFFICES ASSUME NEW t \in Session
             PROVE  /\ pc'[t] = "insert" => idx'[t] = 1
                    /\ \A k \in Key :
                          moves'[t][k] = IF pc'[t] \in InTransaction
                                         THEN Posted(req'[t], k, LinesDone(t)') ELSE 0
  BY DEF MovesOK
<1>2. CASE t # s
  BY <1>1, <1>2 DEF MovesOK, LinesDone, Lines
<1>3. CASE t = s
  BY <1>1, <1>3 DEF InTransaction
<1> QED BY <1>2, <1>3

LedgerInv == SafeInv /\ ExactInv /\ MovesOK

LEMMA PlanningMoves ==
    ASSUME SafeInv, MovesOK, NEW s \in Session,
           \/ \E p \in Payloads : Begin(s, p)
           \/ CheckAvailable(s) \/ InsertPending(s) \/ ReadStock(s) \/ CreateStockRow(s)
    PROVE  MovesOK'
<1> DEFINE Others == \A t \in Session \ {s} : pc'[t] = pc[t] /\ req'[t] = req[t] /\ idx'[t] = idx[t]
<1>1. ASSUME NEW p \in Payloads, Begin(s, p) PROVE MovesOK'
  <2>1. /\ UNCHANGED moves /\ Others /\ pc[s] = "idle" /\ idx'[s] = 1
        /\ pc'[s] \in {"check", "read"}
    BY <1>1 DEF SafeInv, TypeOK, Begin
  <2> QED BY <2>1, MovesStay DEF InTransaction
<1>2. CASE CheckAvailable(s)
  <2>1. /\ UNCHANGED moves /\ Others /\ pc[s] = "check" /\ pc'[s] \in {"check", "insert"}
        /\ pc'[s] = "insert" => idx'[s] = 1
    BY <1>2 DEF SafeInv, TypeOK, CheckAvailable
  <2> QED BY <2>1, MovesStay DEF InTransaction
<1>3. CASE InsertPending(s)
  <2>1. /\ UNCHANGED moves /\ Others /\ pc[s] = "insert" /\ pc'[s] = "read" /\ idx'[s] = 1
    BY <1>3 DEF SafeInv, TypeOK, MovesOK, InsertPending
  <2> QED BY <2>1, MovesStay DEF InTransaction
<1>4. CASE ReadStock(s)
  <2>1. /\ UNCHANGED moves /\ Others /\ pc[s] = "read" /\ pc'[s] \in {"create", "write"}
        /\ idx'[s] = idx[s] /\ req'[s] = req[s]
    BY <1>4 DEF SafeInv, TypeOK, ReadStock
  <2> QED BY <2>1, MovesStay DEF InTransaction
<1>5. CASE CreateStockRow(s)
  <2>1. /\ UNCHANGED moves /\ Others /\ pc[s] = "create" /\ pc'[s] = "write"
        /\ idx'[s] = idx[s] /\ req'[s] = req[s]
    BY <1>5 DEF SafeInv, TypeOK, CreateStockRow
  <2> QED BY <2>1, MovesStay DEF InTransaction
<1> QED BY <1>1, <1>2, <1>3, <1>4, <1>5

LEMMA MovesStep == SafeInv /\ MovesOK /\ [Next]_vars => MovesOK'
<1> SUFFICES ASSUME SafeInv, MovesOK, [Next]_vars PROVE MovesOK'
  OBVIOUS
<1>1. ASSUME NEW s \in Session, NEW p \in Payloads, Begin(s, p) PROVE MovesOK'
  BY <1>1, PlanningMoves
<1>2. ASSUME NEW s \in Session,
             CheckAvailable(s) \/ InsertPending(s) \/ ReadStock(s) \/ CreateStockRow(s)
      PROVE  MovesOK'
  BY <1>2, PlanningMoves
<1>3. ASSUME NEW s \in Session, WriteStock(s) PROVE MovesOK'
  BY <1>3, WriteStockMoves
<1>4. ASSUME NEW s \in Session,
             \/ Commit(s) \/ UniqueViolation(s) \/ Refuse(s) \/ DeadlockVictim(s)
             \/ Disconnect(s)
      PROVE  MovesOK'
  BY <1>4, ReleaseMoves
     DEF Commit, UniqueViolation, Refuse, DeadlockVictim, Disconnect, Rollback
<1>5. CASE UNCHANGED vars
  BY <1>5 DEF vars, MovesOK, LinesDone, Lines
<1> QED BY <1>1, <1>2, <1>3, <1>4, <1>5 DEF Next, Progress

LEMMA LedgerAlways == Spec => []LedgerInv
<1>1. Init => LedgerInv
  BY SafeInit, ExactInit, MovesInit DEF LedgerInv
<1>2. LedgerInv /\ [Next]_vars => LedgerInv'
  BY SafeStep, ExactStep, MovesStep DEF LedgerInv
<1> QED BY <1>1, <1>2, PTL DEF Spec

\* What a commit adds to the ledger is what its payload says.
LEMMA CommitPosts ==
    ASSUME LedgerInv, NEW s \in Session, Commit(s)
    PROVE  /\ req[s] \in Payloads
           /\ \A k \in Key : /\ moved'[k] = moved[k] + Posted(req[s], k, Len(req[s].lines))
                             /\ Posted(req[s], k, Len(req[s].lines)) \in Int
           /\ moved' = [k \in Key |-> moved[k] + Posted(req[s], k, Len(req[s].lines))]
<1>1. pc[s] = "commit" /\ moved' = [k \in Key |-> moved[k] + moves[s][k]]
  BY DEF Commit
<1>2. \A k \in Key : moves[s][k] = Posted(req[s], k, Len(req[s].lines))
  BY <1>1 DEF LedgerInv, MovesOK, LinesDone, Lines, InTransaction
<1>3. req[s] \in Payloads /\ \A k \in Key : moves[s][k] \in Int
  BY <1>1, AtLine DEF LedgerInv, SafeInv, TypeOK
<1> QED BY <1>1, <1>2, <1>3

\* Every step but a commit leaves the committed tables alone.
LEMMA OnlyCommitsPost ==
    ASSUME LedgerInv, [Next]_vars, \A s \in Session : ~Commit(s)
    PROVE  UNCHANGED <<stock, moved>>
<1>1. ASSUME NEW s \in Session, NEW p \in Payloads, Begin(s, p)
      PROVE  UNCHANGED <<stock, moved>>
  BY <1>1 DEF Begin
<1>2. ASSUME NEW s \in Session, Progress(s) PROVE UNCHANGED <<stock, moved>>
  BY <1>2 DEF Progress, CheckAvailable, InsertPending, ReadStock, CreateStockRow,
              UniqueViolation, WriteStock, Refuse, DeadlockVictim, Rollback
<1>3. ASSUME NEW s \in Session, Disconnect(s) PROVE UNCHANGED <<stock, moved>>
  BY <1>3 DEF Disconnect, Rollback
<1>4. CASE UNCHANGED vars
  BY <1>4 DEF vars
<1> QED BY <1>1, <1>2, <1>3, <1>4 DEF Next

PostsWhole ==
    moved' # moved =>
       \E s \in Session :
          /\ pc[s] # "idle"
          /\ moved' = Everything!Plus(moved, Everything!Net(req[s]))

LEMMA PostsWholeStep == LedgerInv /\ [Next]_vars => [PostsWhole]_vars
<1> SUFFICES ASSUME LedgerInv, [Next]_vars PROVE PostsWhole
  OBVIOUS
<1>1. CASE \A s \in Session : ~Commit(s)
  BY <1>1, OnlyCommitsPost DEF PostsWhole
<1>2. ASSUME NEW s \in Session, Commit(s) PROVE PostsWhole
  <2>1. /\ req[s] \in Payloads
        /\ moved' = [k \in Key |-> moved[k] + Posted(req[s], k, Len(req[s].lines))]
    BY <1>2, CommitPosts
  <2>2. Everything!Net(req[s]) = [k \in Key |-> Posted(req[s], k, Len(req[s].lines))]
    BY <2>1, NetPosted
  <2>3. moved' = Everything!Plus(moved, Everything!Net(req[s]))
    BY <2>1, <2>2 DEF Everything!Plus
  <2>4. pc[s] # "idle"
    BY <1>2 DEF Commit
  <2> QED BY <2>3, <2>4 DEF PostsWhole
<1> QED BY <1>1, <1>2

\* Whatever the kinds and however they interleave, the committed ledger changes by
\* the whole of one payload or not at all: no refusal, deadlock or crash half way
\* leaves a line behind (suppliers.py:165).
THEOREM WholePayloads == Spec => MovementsAllOrNothing
<1>1. LedgerInv /\ [Next]_vars => [PostsWhole]_vars
  BY PostsWholeStep
<1>2. Spec => [][PostsWhole]_vars
  BY <1>1, LedgerAlways, PTL DEF Spec
<1>3. [][PostsWhole]_vars <=> MovementsAllOrNothing
  BY DEF PostsWhole, MovementsAllOrNothing
<1> QED BY <1>2, <1>3

LEMMA RefinesInit == Init => SingleFamily!Init
<1> SUFFICES ASSUME Init PROVE SingleFamily!Init
  OBVIOUS
<1>1. SafeInv /\ ExactInv
  BY SafeInit, ExactInit
<1>2. \A k \in SingleFamilyKeys : Quantity(k) \in Nat /\ moved[k] = Quantity(k)
  BY <1>1 DEF SafeInv, StockNat, ExactInv, BooksOK, SingleFamilyKeys, Quantity
<1> QED BY <1>2 DEF SingleFamily!Init

\* A commit is a posting of its payload; it overdraws nothing because the balances
\* it publishes have passed the check.
LEMMA CommitRefines ==
    ASSUME LedgerInv, LedgerInv', NEW s \in Session, Commit(s), NEW p, p = req[s]
    PROVE  p \in Payloads /\ SingleFamily!Post(p)
<1> DEFINE net(k) == Posted(p, k, Len(p.lines))
<1>1. /\ p \in Payloads
      /\ \A k \in Key : moved'[k] = moved[k] + net(k) /\ net(k) \in Int
  BY CommitPosts
<1>2. \A k \in SingleFamilyKeys : /\ k \in Key /\ Quantity(k) = moved[k]
                                  /\ Quantity(k)' = moved'[k] /\ Quantity(k)' \in Nat
  <2>1. \A k \in SingleFamilyKeys : k \in Key /\ Quantity(k) = moved[k]
    BY DEF LedgerInv, ExactInv, BooksOK, SingleFamilyKeys
  <2>2. \A k \in SingleFamilyKeys : Quantity(k)' = moved'[k]
    BY DEF LedgerInv, ExactInv, BooksOK, SingleFamilyKeys, OnlyFrom, Touches
  <2>3. \A k \in Key : Quantity(k)' \in Nat
    BY DEF LedgerInv, SafeInv, StockNat, Quantity
  <2> QED BY <2>1, <2>2, <2>3
<1>3. SingleFamily!Net(p) = [k \in SingleFamilyKeys |-> net(k)]
  BY <1>1, NetPosted
<1> HIDE DEF net
<1>4. \A k \in SingleFamilyKeys : /\ Quantity(k) + net(k) >= 0
                                  /\ Quantity(k)' = Quantity(k) + net(k)
                                  /\ moved'[k] = moved[k] + net(k)
  BY <1>1, <1>2
<1>5. \A k \in SingleFamilyKeys :
         [j \in SingleFamilyKeys |-> Quantity(j)][k] + SingleFamily!Net(p)[k] >= 0
  BY <1>3, <1>4
<1>6. [k \in SingleFamilyKeys |-> Quantity(k)'] =
         [k \in SingleFamilyKeys |-> [j \in SingleFamilyKeys |-> Quantity(j)][k] +
                                     SingleFamily!Net(p)[k]]
  BY <1>3, <1>4
<1>7. [k \in SingleFamilyKeys |-> moved'[k]] =
         [k \in SingleFamilyKeys |-> [j \in SingleFamilyKeys |-> moved[j]][k] +
                                     SingleFamily!Net(p)[k]]
  BY <1>3, <1>4
<1> QED BY <1>1, <1>5, <1>6, <1>7 DEF SingleFamily!Post, SingleFamily!Plus, SingleFamilyKeys,
           OnlyFrom, Touches

LEMMA RefinesStep ==
    LedgerInv /\ LedgerInv' /\ [Next]_vars => [SingleFamily!Next]_(SingleFamily!vars)
<1> SUFFICES ASSUME LedgerInv, LedgerInv', [Next]_vars
             PROVE  [SingleFamily!Next]_(SingleFamily!vars)
  OBVIOUS
<1>1. CASE \A s \in Session : ~Commit(s)
  <2>1. UNCHANGED <<stock, moved>>
    BY <1>1, OnlyCommitsPost
  <2> QED BY <2>1 DEF SingleFamily!vars, Quantity, SingleFamilyKeys, OnlyFrom, Touches
<1>2. ASSUME NEW s \in Session, Commit(s) PROVE SingleFamily!Next
  <2>1. PICK p : p = req[s]
    OBVIOUS
  <2>2. p \in Payloads /\ SingleFamily!Post(p)
    BY <1>2, <2>1, CommitRefines
  <2> QED BY <2>2 DEF SingleFamily!Next
<1> QED BY <1>1, <1>2

\* For the pairs that one coded kind moves, the whole protocol of checks, waits,
\* absolute writes, refusals, deadlocks and crashes implements a ledger whose
\* postings are atomic (stock_service.py:2, sale_service.py:4): the commit is the
\* posting, every other step a stutter.
THEOREM ImplementsLedger == Spec => LedgerSpec
<1>1. Init => SingleFamily!Init
  BY RefinesInit
<1>2. LedgerInv /\ LedgerInv' /\ [Next]_vars => [SingleFamily!Next]_(SingleFamily!vars)
  BY RefinesStep
<1> QED BY <1>1, <1>2, LedgerAlways, PTL DEF Spec, LedgerSpec, SingleFamily!Spec
=============================================================================
