-------------------------- MODULE MasterDataProofs --------------------------
(***************************************************************************)
(* Proofs about Catalog, for every set of sessions, payloads and initial   *)
(* tables that its assumptions allow, and about Entitlements, for every    *)
(* set of sessions, rules, quantities and months that its assumptions      *)
(* allow.                                                                  *)
(***************************************************************************)
EXTENDS Catalog, Entitlements, FiniteSetTheorems, TLAPS

-----------------------------------------------------------------------------
(* Catalog *)


\* Every row obeys the constraints of its table.
Constrained ==
    \A t \in Table : \A i \in DOMAIN db[t] :
        Refers(db, t, db[t][i]) /\ Unequal(db, t, db[t][i], i)

\* What a request in flight is going to write.
TasksOK ==
    /\ DOMAIN task = Session
    /\ \A s \in Session : ~Idle(s) =>
          /\ task[s].op = "create" =>
                task[s].table \in Table /\ task[s].row \in Inputs[task[s].table]
          /\ task[s].op = "update" =>
                /\ task[s].table \in Table
                /\ task[s].id \in DOMAIN db[task[s].table]
                /\ task[s].changes \in Changes[task[s].table]

\* A request has an audit row to write before it ends, or none any more.
AuditOK ==
    /\ \E S : history \in Seq(S)
    /\ IsFiniteSet(Busy)
    /\ begun \in Nat /\ begun <= MaxRequests
    /\ Len(history) + Cardinality(Busy) <= begun

CatalogInv == db \in [Table -> Seq(Row)] /\ Constrained /\ TasksOK /\ AuditOK

-----------------------------------------------------------------------------

\* Unique columns are columns, and references lead to tables.
LEMMA SchemaFacts ==
    ASSUME NEW t \in Table
    PROVE  /\ Schema[t].unique \subseteq {"code", "name"}
           /\ Schema[t].refers \in Table \cup {Nil}
BY DEF Table, Schema, Organization, Region, District, Warehouse, Mart, BeneficiaryCategory,
       WelfareProgram, Commodity, ProductCategory, ExpenseCategory, Product, Supplier,
       WelfareBudget

\* The sessions that are busy when one starts, and when one ends.
LEMMA BusyArrive ==
    ASSUME DOMAIN task = Session, IsFiniteSet(Busy), NEW s \in Session, NEW t, Arrive(s, t)
    PROVE  /\ IsFiniteSet(Busy') /\ Cardinality(Busy') <= Cardinality(Busy) + 1
           /\ Cardinality(Busy) \in Nat /\ Cardinality(Busy') \in Nat
<1>1. Busy' = Busy \/ Busy' = Busy \cup {s}
  BY DEF Arrive, Busy, Idle
<1>2. /\ IsFiniteSet(Busy \cup {s})
      /\ Cardinality(Busy \cup {s}) \in {Cardinality(Busy), Cardinality(Busy) + 1}
  BY FS_AddElement
<1>3. Cardinality(Busy) \in Nat /\ Cardinality(Busy \cup {s}) \in Nat
  BY <1>2, FS_CardinalityType
<1> QED BY <1>1, <1>2, <1>3

LEMMA BusyEnd ==
    ASSUME DOMAIN task = Session, IsFiniteSet(Busy), NEW s \in Session, ~Idle(s), End(s)
    PROVE  /\ IsFiniteSet(Busy') /\ Cardinality(Busy') = Cardinality(Busy) - 1
           /\ Cardinality(Busy) \in Nat /\ Cardinality(Busy') \in Nat
<1>1. Busy' = Busy \ {s} /\ s \in Busy
  BY DEF End, Busy, Idle
<1>2. /\ IsFiniteSet(Busy \ {s})
      /\ Cardinality(Busy \ {s}) = Cardinality(Busy) - 1
  BY <1>1, FS_RemoveElement
<1>3. Cardinality(Busy) \in Nat /\ Cardinality(Busy \ {s}) \in Nat
  BY <1>2, FS_CardinalityType
<1> QED BY <1>1, <1>2, <1>3

\* A reference that leads to a row still does when tables only get longer.
LEMMA RefersStays ==
    ASSUME NEW d, NEW e, NEW t \in Table, NEW row,
           \A u \in Table : DOMAIN d[u] \subseteq DOMAIN e[u],
           Refers(d, t, row)
    PROVE  Refers(e, t, row)
BY SchemaFacts DEF Refers

-----------------------------------------------------------------------------

LEMMA CatalogInit == Init => CatalogInv
<1> SUFFICES ASSUME Init PROVE CatalogInv
  OBVIOUS
<1>1. db \in [Table -> Seq(Row)] /\ Constrained
  BY InitialAssumption DEF Init, Constrained
<1>2. TasksOK
  BY DEF Init, InitRequests, TasksOK, Idle
<1>3. AuditOK
  <2>1. Busy = {}
    BY DEF Init, InitRequests, Busy, Idle
  <2>2. IsFiniteSet(Busy) /\ Cardinality(Busy) = 0
    BY <2>1, FS_EmptySet
  <2>3. history \in Seq({}) /\ Len(history) = 0
    BY DEF Init
  <2> QED BY <2>2, <2>3, MaxRequestsIsNat DEF Init, InitRequests, AuditOK
<1> QED BY <1>1, <1>2, <1>3 DEF CatalogInv

\* Every create and every PATCH is one of the two shapes.
LEMMA CreateShape ==
    ASSUME NEW s \in Session, Create(s)
    PROVE  \E t \in Table : \E row \in Inputs[t] : ArriveCreate(s, t, row)
BY DEF Create, create_organization, create_region, create_district, create_warehouse, create_mart,
       create_category, create_program, create_commodity, create_product_category,
       create_expense_category, create_product, create_supplier, create_budget, Table, Schema

LEMMA UpdateShape ==
    ASSUME NEW s \in Session, Update(s)
    PROVE  \E t \in Table : \E i \in DOMAIN db[t], p \in Changes[t] : ArriveUpdate(s, t, i, p)
BY DEF Update, Updates, update_organization, update_mart, update_category, update_program,
       update_commodity, update_product_category, update_product, update_supplier, update_budget,
       Table, Schema

\* A request that arrives writes nothing.
LEMMA ArriveSafe ==
    ASSUME CatalogInv, NEW s \in Session, Create(s) \/ Update(s)
    PROVE  CatalogInv'
<1>1. PICK new : Arrive(s, new)
  BY CreateShape, UpdateShape DEF ArriveCreate, ArriveUpdate
<1>2. UNCHANGED <<db, history>>
  BY CreateShape, UpdateShape DEF ArriveCreate, ArriveUpdate
<1>3. AuditOK'
  <2>1. /\ IsFiniteSet(Busy') /\ Cardinality(Busy') <= Cardinality(Busy) + 1
        /\ Cardinality(Busy) \in Nat /\ Cardinality(Busy') \in Nat
    BY <1>1, BusyArrive DEF CatalogInv, TasksOK, AuditOK
  <2>2. begun' = begun + 1 /\ begun < MaxRequests
    BY <1>1 DEF Arrive
  <2>3. Len(history) \in Nat
    BY DEF CatalogInv, AuditOK
  <2> QED BY <1>2, <2>1, <2>2, <2>3, MaxRequestsIsNat DEF CatalogInv, AuditOK
<1>4. TasksOK'
  <2>1. CASE Create(s)
    <3>1. PICK t \in Table : \E row \in Inputs[t] : ArriveCreate(s, t, row)
      BY <2>1, CreateShape
    <3> QED BY <3>1 DEF CatalogInv, TasksOK, ArriveCreate, Arrive, Idle
  <2>2. CASE Update(s)
    <3>1. PICK t \in Table : \E i \in DOMAIN db[t], p \in Changes[t] : ArriveUpdate(s, t, i, p)
      BY <2>2, UpdateShape
    <3> QED BY <3>1 DEF CatalogInv, TasksOK, ArriveUpdate, Arrive, Idle
  <2> QED BY <2>1, <2>2
<1> QED BY <1>2, <1>3, <1>4 DEF CatalogInv, Constrained

\* The end of a request that has written at most one audit row.
LEMMA EndSafe ==
    ASSUME CatalogInv, NEW s \in Session, ~Idle(s), End(s),
           db' \in [Table -> Seq(Row)],
           \A t \in Table : DOMAIN db[t] \subseteq DOMAIN db'[t],
           Constrained',
           history' = history \/ \E entry : history' = Append(history, entry)
    PROVE  CatalogInv'
<1>1. TasksOK'
  BY DEF CatalogInv, TasksOK, End, Idle
<1>2. /\ IsFiniteSet(Busy') /\ Cardinality(Busy') = Cardinality(Busy) - 1
      /\ Cardinality(Busy) \in Nat /\ Cardinality(Busy') \in Nat
  BY BusyEnd DEF CatalogInv, TasksOK, AuditOK
<1>3. PICK S : history \in Seq(S)
  BY DEF CatalogInv, AuditOK
<1>4. (\E T : history' \in Seq(T)) /\ Len(history') \in Nat /\ Len(history') <= Len(history) + 1
  <2>1. CASE history' = history
    BY <1>3, <2>1
  <2>2. ASSUME NEW entry, history' = Append(history, entry)
        PROVE  /\ \E T : history' \in Seq(T)
               /\ Len(history') \in Nat /\ Len(history') <= Len(history) + 1
    <3>1. history \in Seq(S \cup {entry})
      BY <1>3
    <3> QED BY <2>2, <3>1
  <2> QED BY <2>1, <2>2
<1>5. AuditOK'
  BY <1>2, <1>3, <1>4 DEF CatalogInv, AuditOK, End
<1> QED BY <1>1, <1>5 DEF CatalogInv

\* A row that the database accepts at the end of a table, or in place of another.
LEMMA AcceptedSafe ==
    ASSUME db \in [Table -> Seq(Row)], Constrained, NEW t \in Table, NEW row \in Row,
           NEW i \in Nat \ {0}, Accepts(t, row, i),
           db' \in [Table -> Seq(Row)],
           DOMAIN db'[t] = DOMAIN db[t] \cup {i}, db'[t][i] = row,
           \A j \in DOMAIN db[t] \ {i} : db'[t][j] = db[t][j],
           \A u \in Table \ {t} : db'[u] = db[u]
    PROVE  Constrained'
<1>1. \A u \in Table : DOMAIN db[u] \subseteq DOMAIN db'[u]
  OBVIOUS
<1> SUFFICES ASSUME NEW u \in Table, NEW j \in DOMAIN db'[u]
             PROVE  Refers(db', u, db'[u][j]) /\ Unequal(db', u, db'[u][j], j)
  BY DEF Constrained
<1>2. Refers(db', u, db'[u][j])
  <2>1. Refers(db, u, db'[u][j])
    BY DEF Constrained, Accepts
  <2> QED BY <1>1, <2>1, RefersStays
<1>3. Unequal(db', u, db'[u][j], j)
  <2>1. CASE u # t
    BY <2>1 DEF Constrained, Unequal
  <2>2. CASE u = t /\ j = i
    BY <2>2 DEF Accepts, Unequal
  <2>3. CASE u = t /\ j # i
    BY <2>3 DEF Constrained, Accepts, Unequal
  <2> QED BY <2>1, <2>2, <2>3
<1> QED BY <1>2, <1>3

LEMMA CommitCreateSafe ==
    ASSUME CatalogInv, NEW s \in Session, CommitCreate(s)
    PROVE  CatalogInv'
<1> DEFINE t == task[s].table
           new == task[s].row
           row == [code |-> new.code, name |-> new.name, ref |-> new.ref, active |-> TRUE]
           i == Len(db[t]) + 1
<1>1. ~Idle(s) /\ End(s)
  BY DEF CommitCreate, At
<1>2. t \in Table /\ new \in Inputs[t]
  BY <1>1 DEF CatalogInv, TasksOK, CommitCreate, At
<1>3. row \in Row /\ db[t] \in Seq(Row)
  <2>1. new \in [code : Value, name : Value \cup {Nil}, ref : Id \cup {Nil}]
    BY <1>2, InputsAssumption
  <2>2. new.code \in Value /\ new.name \in Value \cup {Nil} /\ new.ref \in Id \cup {Nil}
    BY <2>1
  <2> QED BY <1>2, <2>2 DEF CatalogInv, Row
<1>4. CASE Accepts(t, row, i) /\ db' = [db EXCEPT ![t] = Append(@, row)]
           /\ \E entry : history' = Append(history, entry)
  <2>1. db' \in [Table -> Seq(Row)] /\ i \in Nat \ {0}
    BY <1>2, <1>3, <1>4 DEF CatalogInv
  <2>2. /\ db'[t] = Append(db[t], row)
        /\ \A u \in Table \ {t} : db'[u] = db[u]
    BY <1>2, <1>4 DEF CatalogInv
  <2>3. /\ DOMAIN db'[t] = DOMAIN db[t] \cup {i} /\ db'[t][i] = row
        /\ \A j \in DOMAIN db[t] \ {i} : db'[t][j] = db[t][j]
    BY <1>3, <2>2
  <2>4. Constrained'
    BY <1>2, <1>3, <1>4, <2>1, <2>2, <2>3, AcceptedSafe DEF CatalogInv
  <2> QED BY <1>1, <1>4, <2>1, <2>2, <2>3, <2>4, EndSafe
<1>5. CASE UNCHANGED <<db, history>>
  BY <1>1, <1>5, EndSafe DEF CatalogInv, Constrained
<1> QED BY <1>4, <1>5 DEF CommitCreate

LEMMA CommitUpdateSafe ==
    ASSUME CatalogInv, NEW s \in Session, CommitUpdate(s)
    PROVE  CatalogInv'
<1> DEFINE t == task[s].table
           i == task[s].id
           changes == task[s].changes
           row == [c \in Column |->
                     IF c \in DOMAIN changes
                     THEN Assigned(task[s].loaded[c], changes[c], db[t][i][c])
                     ELSE db[t][i][c]]
<1>1. ~Idle(s) /\ End(s)
  BY DEF CommitUpdate, At
<1>2. t \in Table /\ i \in DOMAIN db[t] /\ changes \in Changes[t]
  BY <1>1 DEF CatalogInv, TasksOK, CommitUpdate, At
<1>3. db[t] \in Seq(Row) /\ i \in Nat \ {0} /\ i \in 1..Len(db[t]) /\ db[t][i] \in Row
  BY <1>2 DEF CatalogInv
<1>4. row \in Row
  <2>1. \A c \in DOMAIN changes : changes[c] \in Values(c)
    BY <1>2, ChangesAssumption
  <2>2. \A c \in Column : db[t][i][c] \in Values(c)
    BY <1>3 DEF Row, Column, Values
  <2>3. \A c \in Column : row[c] \in Values(c)
    BY <2>1, <2>2 DEF Assigned
  <2>4. /\ row["code"] \in Value /\ row["name"] \in Value \cup {Nil}
        /\ row["ref"] \in Id \cup {Nil} /\ row["active"] \in BOOLEAN
    BY <2>3 DEF Column, Values
  <2>5. row = [c \in Column |-> row[c]]
    OBVIOUS
  <2> HIDE DEF row
  <2> QED BY <2>4, <2>5 DEF Row, Column
<1> HIDE DEF row
<1>5. CASE Accepts(t, row, i) /\ db' = [db EXCEPT ![t][i] = row]
           /\ \E entry : history' = Append(history, entry)
  <2>1. db' \in [Table -> Seq(Row)]
    BY <1>2, <1>4, <1>5 DEF CatalogInv
  <2>2. /\ db'[t] = [db[t] EXCEPT ![i] = row]
        /\ \A u \in Table \ {t} : db'[u] = db[u]
    BY <1>2, <1>5 DEF CatalogInv
  <2>3. /\ DOMAIN db'[t] = DOMAIN db[t] \cup {i} /\ db'[t][i] = row
        /\ \A j \in DOMAIN db[t] \ {i} : db'[t][j] = db[t][j]
    BY <1>2, <1>3, <2>2
  <2>4. Constrained'
    BY <1>2, <1>3, <1>4, <1>5, <2>1, <2>2, <2>3, AcceptedSafe DEF CatalogInv
  <2> QED BY <1>1, <1>5, <2>1, <2>2, <2>3, <2>4, EndSafe
<1>6. CASE UNCHANGED <<db, history>>
  BY <1>1, <1>6, EndSafe DEF CatalogInv, Constrained
<1> QED BY <1>5, <1>6 DEF CommitUpdate, row

LEMMA CatalogStep == CatalogInv /\ [Next]_vars => CatalogInv'
<1> SUFFICES ASSUME CatalogInv, [Next]_vars PROVE CatalogInv'
  OBVIOUS
<1>1. ASSUME NEW s \in Session, Create(s) \/ Update(s) PROVE CatalogInv'
  BY <1>1, ArriveSafe
<1>2. ASSUME NEW s \in Session, CommitCreate(s) PROVE CatalogInv'
  BY <1>2, CommitCreateSafe
<1>3. ASSUME NEW s \in Session, CommitUpdate(s) PROVE CatalogInv'
  BY <1>3, CommitUpdateSafe
<1>4. ASSUME NEW s \in Session, Disconnect(s) PROVE CatalogInv'
  BY <1>4, EndSafe DEF Disconnect, CatalogInv, Constrained
<1>5. CASE UNCHANGED vars
  BY <1>5 DEF vars, requests, CatalogInv, Constrained, TasksOK, AuditOK, Busy, Idle
<1> QED BY <1>1, <1>2, <1>3, <1>4, <1>5 DEF Next

-----------------------------------------------------------------------------

\* Codes, names, SKUs and barcodes identify their rows through every race of
\* creates and updates, because each commit is checked against what is committed;
\* and a request leaves at most one audit row (organizations.py:36).
THEOREM CodesAreUnique == Spec => []CodesInv
<1>1. CatalogInv => CodesInv
  <2> SUFFICES ASSUME CatalogInv PROVE CodesInv
    OBVIOUS
  <2>1. Len(history) \in Nat /\ Cardinality(Busy) \in Nat
    BY FS_CardinalityType DEF CatalogInv, AuditOK
  <2>2. TypeOK
    BY <2>1, MaxRequestsIsNat DEF CatalogInv, AuditOK, TypeOK
  <2>3. CodesIdentify
    BY DEF CatalogInv, Constrained, Unequal, CodesIdentify
  <2> QED BY <2>2, <2>3 DEF CodesInv
<1> QED BY <1>1, CatalogInit, CatalogStep, PTL DEF Spec

-----------------------------------------------------------------------------

(***************************************************************************)
(* The audit trail.  That a column has the last audited value needs that   *)
(* what an update has loaded is still there (FreshOK), which holds because *)
(* two requests about one column are in raced (RacedOK).                   *)
(***************************************************************************)

RacedOK ==
    \A r, s \in Session :
        /\ r # s /\ ~Idle(r) /\ ~Idle(s) => task[r].on \cap task[s].on \subseteq raced
        /\ ~Idle(s) => task[s].op \in {"create", "update"}
        /\ ~Idle(s) /\ task[s].op = "update" =>
              task[s].on = {<<task[s].table, task[s].id, c>> : c \in DOMAIN task[s].changes}

FreshOK ==
    \A s \in Session : ~Idle(s) /\ task[s].op = "update" =>
        \A c \in DOMAIN task[s].changes :
            <<task[s].table, task[s].id, c>> \notin raced =>
                task[s].loaded[c] = db[task[s].table][task[s].id][c]

AuditedInv == RacedOK /\ FreshOK /\ ColumnsAsAudited

LEMMA AuditedInit == Init => AuditedInv
BY DEF Init, InitRequests, AuditedInv, RacedOK, FreshOK, ColumnsAsAudited, Idle

LEMMA AuditedArrive ==
    ASSUME CatalogInv, AuditedInv, NEW s \in Session, Create(s) \/ Update(s)
    PROVE  AuditedInv'
<1>1. PICK new : /\ Arrive(s, new)
                 /\ new.op \in {"create", "update"}
                 /\ new.op = "update" =>
                       /\ new.on = {<<new.table, new.id, c>> : c \in DOMAIN new.changes}
                       /\ new.loaded = db[new.table][new.id]
  <2>1. CASE Create(s)
    <3>1. PICK t \in Table : \E row \in Inputs[t] : ArriveCreate(s, t, row)
      BY <2>1, CreateShape
    <3> QED BY <3>1 DEF ArriveCreate
  <2>2. CASE Update(s)
    <3>1. PICK t \in Table : \E i \in DOMAIN db[t], p \in Changes[t] : ArriveUpdate(s, t, i, p)
      BY <2>2, UpdateShape
    <3> QED BY <3>1 DEF ArriveUpdate
  <2> QED BY <2>1, <2>2
<1>2. UNCHANGED <<db, history>>
  BY CreateShape, UpdateShape DEF ArriveCreate, ArriveUpdate
<1>3. /\ task'[s] = new /\ \A r \in Session : r # s => task'[r] = task[r]
      /\ raced \subseteq raced'
      /\ \A r \in Session : ~Idle(r) => new.on \cap task[r].on \subseteq raced'
  BY <1>1 DEF Arrive, CatalogInv, TasksOK, Busy
<1>4. RacedOK'
  BY <1>1, <1>3 DEF AuditedInv, RacedOK, Idle
<1>5. FreshOK'
  BY <1>1, <1>2, <1>3 DEF AuditedInv, FreshOK, Idle
<1>6. ColumnsAsAudited'
  BY <1>2, <1>3 DEF AuditedInv, ColumnsAsAudited, LastToSet, Sets
<1> QED BY <1>4, <1>5, <1>6 DEF AuditedInv

\* A commit that writes columns cs of row i of table t with an audit row that says
\* so, when no other request in flight is about them, or they are in raced.
LEMMA AuditedWrite ==
    ASSUME CatalogInv, AuditedInv, NEW s \in Session, ~Idle(s), End(s),
           NEW t \in Table, NEW i, NEW cs,
           \A u \in Table : \A j \in DOMAIN db'[u], c \in Column :
              \/ <<u, j, c>> \in {<<t, i, d>> : d \in DOMAIN cs}
              \/ j \in DOMAIN db[u] /\ db'[u][j][c] = db[u][j][c],
           \A c \in DOMAIN cs : <<t, i, c>> \notin raced => db'[t][i][c] = cs[c],
           history' = Append(history, [table |-> t, id |-> i, changes |-> cs]),
           DOMAIN cs \subseteq Column,
           \A r \in Session \ {s} : ~Idle(r) /\ task[r].op = "update" =>
              task[r].on \cap {<<t, i, c>> : c \in DOMAIN cs} \subseteq raced,
           \A u \in Table : DOMAIN db[u] \subseteq DOMAIN db'[u]
    PROVE  AuditedInv'
<1> DEFINE entry == [table |-> t, id |-> i, changes |-> cs]
<1>1. /\ task'[s] = Nil /\ \A r \in Session : r # s => task'[r] = task[r]
      /\ raced' = raced
  BY DEF End, CatalogInv, TasksOK
<1>2. RacedOK'
  BY <1>1 DEF AuditedInv, RacedOK, Idle
<1>3. FreshOK'
  <2> SUFFICES ASSUME NEW r \in Session, ~Idle(r)', task[r].op = "update",
                      NEW c \in DOMAIN task[r].changes,
                      <<task[r].table, task[r].id, c>> \notin raced
               PROVE  task[r].loaded[c] = db'[task[r].table][task[r].id][c]
    BY <1>1 DEF FreshOK, Idle
  <2>1. r # s /\ ~Idle(r)
    BY <1>1 DEF Idle
  <2>2. <<task[r].table, task[r].id, c>> \in task[r].on
    BY <2>1 DEF AuditedInv, RacedOK
  <2>3. <<task[r].table, task[r].id, c>> \notin {<<t, i, d>> : d \in DOMAIN cs}
    BY <2>1, <2>2
  <2>4. /\ task[r].table \in Table /\ task[r].id \in DOMAIN db[task[r].table]
        /\ task[r].changes \in Changes[task[r].table]
    BY <2>1 DEF CatalogInv, TasksOK
  <2>5. c \in Column
    BY <2>4, ChangesAssumption
  <2>6. db'[task[r].table][task[r].id][c] = db[task[r].table][task[r].id][c]
    BY <2>3, <2>4, <2>5
  <2> QED BY <2>1, <2>6 DEF AuditedInv, FreshOK
<1>4. ColumnsAsAudited'
  <2>1. PICK S : history \in Seq(S)
    BY DEF CatalogInv, AuditOK
  <2>2. history \in Seq(S \cup {entry})
    BY <2>1
  <2>3. /\ Len(history) \in Nat /\ DOMAIN history = 1..Len(history)
        /\ DOMAIN history' = 1..(Len(history) + 1)
        /\ history'[Len(history) + 1] = entry
        /\ \A k \in DOMAIN history : history'[k] = history[k]
    BY <2>2
  <2> SUFFICES ASSUME NEW u \in Table, NEW j \in DOMAIN db'[u], NEW c \in Column,
                      NEW k \in DOMAIN history', <<u, j, c>> \notin raced,
                      LastToSet(k, u, j, c)'
               PROVE  db'[u][j][c] = history'[k].changes[c]
    BY <1>1 DEF ColumnsAsAudited
  <2>4. CASE <<u, j, c>> \in {<<t, i, d>> : d \in DOMAIN cs}
    <3>1. u = t /\ j = i /\ c \in DOMAIN cs
      BY <2>4
    <3>2. PICK n \in Nat : n = Len(history) + 1
      BY <2>3
    <3>3. k = n
      BY <2>3, <3>1, <3>2 DEF LastToSet, Sets
    <3> QED BY <2>3, <3>1, <3>2, <3>3
  <2>5. CASE <<u, j, c>> \notin {<<t, i, d>> : d \in DOMAIN cs}
    <3>1. j \in DOMAIN db[u] /\ db'[u][j][c] = db[u][j][c]
      BY <2>5
    <3>2. k # Len(history) + 1
      BY <2>3, <2>5 DEF LastToSet, Sets
    <3>3. k \in DOMAIN history /\ LastToSet(k, u, j, c)
      BY <2>3, <3>2 DEF LastToSet, Sets
    <3> QED BY <2>3, <3>1, <3>3 DEF AuditedInv, ColumnsAsAudited
  <2> QED BY <2>4, <2>5
<1> QED BY <1>2, <1>3, <1>4 DEF AuditedInv

\* A request that ends without a write.
LEMMA AuditedEnd ==
    ASSUME CatalogInv, AuditedInv, NEW s \in Session, End(s), UNCHANGED <<db, history>>
    PROVE  AuditedInv'
<1>1. /\ task'[s] = Nil /\ \A r \in Session : r # s => task'[r] = task[r]
      /\ raced' = raced
  BY DEF End, CatalogInv, TasksOK
<1> QED BY <1>1 DEF AuditedInv, RacedOK, FreshOK, ColumnsAsAudited, LastToSet, Sets, Idle

\* The row a create appends is about nothing that was loaded before.
LEMMA AuditedCommitCreate ==
    ASSUME CatalogInv, AuditedInv, NEW s \in Session, CommitCreate(s)
    PROVE  AuditedInv'
<1> DEFINE t == task[s].table
           new == task[s].row
           row == [code |-> new.code, name |-> new.name, ref |-> new.ref, active |-> TRUE]
           i == Len(db[t]) + 1
<1>1. ~Idle(s) /\ End(s) /\ t \in Table
  BY DEF CommitCreate, At, CatalogInv, TasksOK
<1>2. db[t] \in Seq(Row) /\ \E S : Append(db[t], row) \in Seq(S)
  <2>1. db[t] \in Seq(Row \cup {row})
    BY <1>1 DEF CatalogInv
  <2> QED BY <1>1, <2>1 DEF CatalogInv
<1>3. CASE /\ db' = [db EXCEPT ![t] = Append(@, row)]
           /\ history' = Append(history, [table |-> t, id |-> i, changes |-> row])
  <2>1. /\ db'[t] = Append(db[t], row)
        /\ \A u \in Table \ {t} : db'[u] = db[u]
    BY <1>1, <1>3 DEF CatalogInv
  <2>2. /\ DOMAIN db'[t] = DOMAIN db[t] \cup {i} /\ db'[t][i] = row /\ i \notin DOMAIN db[t]
        /\ \A j \in DOMAIN db[t] : db'[t][j] = db[t][j]
    BY <1>2, <2>1
  <2>3. DOMAIN row = Column
    BY DEF Column
  <2>4. ASSUME NEW r \in Session \ {s}, ~Idle(r), task[r].op = "update"
        PROVE  task[r].on \cap {<<t, i, c>> : c \in DOMAIN row} \subseteq raced
    <3>1. task[r].id \in DOMAIN db[task[r].table]
      BY <2>4 DEF CatalogInv, TasksOK
    <3>2. task[r].on = {<<task[r].table, task[r].id, c>> : c \in DOMAIN task[r].changes}
      BY <2>4 DEF AuditedInv, RacedOK
    <3> QED BY <2>2, <3>1, <3>2
  <2> HIDE DEF row, i, t
  <2>5. \A u \in Table : DOMAIN db[u] \subseteq DOMAIN db'[u]
    BY <2>1, <2>2
  <2>6. \A u \in Table : \A j \in DOMAIN db'[u], c \in Column :
           \/ <<u, j, c>> \in {<<t, i, d>> : d \in DOMAIN row}
           \/ j \in DOMAIN db[u] /\ db'[u][j][c] = db[u][j][c]
    BY <2>1, <2>2, <2>3
  <2>7. \A c \in DOMAIN row : db'[t][i][c] = row[c]
    BY <2>2
  <2> QED BY <1>1, <1>3, <2>3, <2>4, <2>5, <2>6, <2>7, AuditedWrite
<1>4. CASE UNCHANGED <<db, history>>
  BY <1>1, <1>4, AuditedEnd
<1> QED BY <1>3, <1>4 DEF CommitCreate

\* A column of the payload gets its value although it is left out of the UPDATE
\* when it equals what was loaded: what was loaded is still there.
LEMMA AuditedCommitUpdate ==
    ASSUME CatalogInv, AuditedInv, NEW s \in Session, CommitUpdate(s)
    PROVE  AuditedInv'
<1> DEFINE t == task[s].table
           i == task[s].id
           changes == task[s].changes
           row == [c \in Column |->
                     IF c \in DOMAIN changes
                     THEN Assigned(task[s].loaded[c], changes[c], db[t][i][c])
                     ELSE db[t][i][c]]
<1>1. ~Idle(s) /\ End(s) /\ task[s].op = "update"
  BY DEF CommitUpdate, At
<1>2. t \in Table /\ i \in DOMAIN db[t] /\ changes \in Changes[t]
  BY <1>1 DEF CatalogInv, TasksOK
<1>3. DOMAIN changes \subseteq Column
  BY <1>2, ChangesAssumption
<1>4. CASE /\ db' = [db EXCEPT ![t][i] = row]
           /\ history' = Append(history, [table |-> t, id |-> i, changes |-> changes])
  <2>1. /\ \A u \in Table \ {t} : db'[u] = db[u]
        /\ DOMAIN db'[t] = DOMAIN db[t] /\ db'[t][i] = row
        /\ \A j \in DOMAIN db[t] \ {i} : db'[t][j] = db[t][j]
    BY <1>2, <1>4 DEF CatalogInv
  <2>2. \A c \in Column \ DOMAIN changes : row[c] = db[t][i][c]
    OBVIOUS
  <2>3. ASSUME NEW c \in DOMAIN changes, <<t, i, c>> \notin raced
        PROVE  row[c] = changes[c]
    <3>1. task[s].loaded[c] = db[t][i][c]
      BY <1>1, <2>3 DEF AuditedInv, FreshOK
    <3>2. row[c] = Assigned(task[s].loaded[c], changes[c], db[t][i][c])
      BY <1>3
    <3> QED BY <3>1, <3>2 DEF Assigned
  <2>4. \A r \in Session \ {s} : ~Idle(r) =>
           task[r].on \cap {<<t, i, c>> : c \in DOMAIN changes} \subseteq raced
    BY <1>1 DEF AuditedInv, RacedOK
  <2> HIDE DEF row, changes, i, t
  <2>5. \A u \in Table : \A j \in DOMAIN db'[u], c \in Column :
           \/ <<u, j, c>> \in {<<t, i, d>> : d \in DOMAIN changes}
           \/ j \in DOMAIN db[u] /\ db'[u][j][c] = db[u][j][c]
    BY <2>1, <2>2
  <2>6. \A u \in Table : DOMAIN db[u] \subseteq DOMAIN db'[u]
    BY <2>1
  <2> QED BY <1>1, <1>2, <1>3, <1>4, <2>1, <2>3, <2>4, <2>5, <2>6, AuditedWrite
<1>5. CASE UNCHANGED <<db, history>>
  BY <1>1, <1>5, AuditedEnd
<1> QED BY <1>4, <1>5 DEF CommitUpdate

LEMMA AuditedStep == CatalogInv /\ AuditedInv /\ [Next]_vars => AuditedInv'
<1> SUFFICES ASSUME CatalogInv, AuditedInv, [Next]_vars PROVE AuditedInv'
  OBVIOUS
<1>1. ASSUME NEW s \in Session, Create(s) \/ Update(s) PROVE AuditedInv'
  BY <1>1, AuditedArrive
<1>2. ASSUME NEW s \in Session, CommitCreate(s) PROVE AuditedInv'
  BY <1>2, AuditedCommitCreate
<1>3. ASSUME NEW s \in Session, CommitUpdate(s) PROVE AuditedInv'
  BY <1>3, AuditedCommitUpdate
<1>4. ASSUME NEW s \in Session, Disconnect(s) PROVE AuditedInv'
  BY <1>4, AuditedEnd DEF Disconnect
<1>5. CASE UNCHANGED vars
  BY <1>5 DEF vars, requests, AuditedInv, RacedOK, FreshOK, ColumnsAsAudited, LastToSet, Sets, Idle
<1> QED BY <1>1, <1>2, <1>3, <1>4, <1>5 DEF Next

\* The audit trail explains every column that two requests were not changing at
\* once: a PATCH never undoes a column it was not given (README.md:73).
THEOREM AuditExplainsColumns == Spec => []ColumnsAsAudited
<1>1. AuditedInv => ColumnsAsAudited
  BY DEF AuditedInv
<1> QED BY <1>1, CatalogInit, CatalogStep, AuditedInit, AuditedStep, PTL DEF Spec

-----------------------------------------------------------------------------
(* Entitlements *)


\* A summary in flight holds the rows it is going to insert, unused.  The tables
\* are parameters, so that the predicates speak of either end of a step.
SummaryOK(t, rs, us) ==
    /\ DOMAIN t.rows = t.usage /\ t.found \subseteq DOMAIN us
    /\ \A u \in t.usage :
          /\ u[1] \in DOMAIN rs /\ t.rows[u] \in BeneficiaryEntitlementUsage
          /\ u \notin t.found => t.rows[u].used = 0

RowOf(r, m, rs) == <<r, get_period_key(rs[r].period, m)>>

\* A distribution in flight holds one row, with room for its quantity; what the
\* row allocates is what the table says, or what the distribution will insert.
DistributionOK(t, rs, us) ==
    LET u == RowOf(t.rule, t.month, rs) IN
    /\ t.rule \in DOMAIN rs /\ t.month \in Nat /\ t.qty \in Nat \ {0}
    /\ t.usage = {u} /\ t.on = {<<"usage", u>>}
    /\ t.row \in BeneficiaryEntitlementUsage
    /\ t.row.used + t.qty <= t.row.allocated
    /\ u \in t.found => u \in DOMAIN us /\ t.row.allocated = us[u].allocated
    /\ u \notin t.found => t.row.used = 0

RuleChangeOK(t, rs) ==
    /\ t.rule \in DOMAIN rs
    /\ \/ t.column = "max" /\ t.value \in Int
       \/ t.column = "active" /\ t.value \in BOOLEAN

TaskOK(t, rs, us) ==
    \/ t.op = "summary" /\ SummaryOK(t, rs, us) /\ t.on = {}
    \/ t.op = "distribute" /\ DistributionOK(t, rs, us)
    \/ t.op = "create_rule" /\ t.rule \in NewRules /\ t.on = {}
    \/ t.op = "update_rule" /\ RuleChangeOK(t, rs) /\ t.on = {}

UsageTasksOK ==
    DOMAIN task = Session /\ \A s \in Session : ~Idle(s) => TaskOK(task[s], rules, usage)

EngineInv == UsageInv /\ month \in Nat /\ UsageTasksOK

-----------------------------------------------------------------------------

\* Two months have one period key exactly when they are in one calendar period:
\* monthly, quarterly and yearly periods end where the calendar says.
LEMMA KeysFollowCalendar ==
    ASSUME NEW p \in EntitlementPeriod, NEW m \in Nat, NEW n \in Nat
    PROVE  get_period_key(p, m) = get_period_key(p, n) <=> PeriodStart(p, m) = PeriodStart(p, n)
<1>1. CASE p = "monthly"
  <2>1. get_period_key(p, m) = get_period_key(p, n) <=>
           m \div 12 = n \div 12 /\ m % 12 = n % 12
    BY <1>1 DEF get_period_key
  <2>2. m \div 12 = n \div 12 /\ m % 12 = n % 12 <=> m = n
    OBVIOUS
  <2> QED BY <1>1, <2>1, <2>2 DEF PeriodStart
<1>2. CASE p = "quarterly"
  <2>1. get_period_key(p, m) = get_period_key(p, n) <=>
           m \div 12 = n \div 12 /\ (m % 12) \div 3 = (n % 12) \div 3
    BY <1>2 DEF get_period_key
  <2>2. m \div 12 = n \div 12 /\ (m % 12) \div 3 = (n % 12) \div 3 <=>
           m - (m % 3) = n - (n % 3)
    OBVIOUS
  <2> QED BY <1>2, <2>1, <2>2 DEF PeriodStart
<1>3. CASE p = "yearly"
  BY <1>3 DEF get_period_key, PeriodStart
<1>4. CASE p = "one_time"
  BY <1>4 DEF get_period_key, PeriodStart
<1> QED BY <1>1, <1>2, <1>3, <1>4 DEF EntitlementPeriod

\* A task stays right while the tables get rows and no row is allocated anew.
LEMMA TaskStays ==
    ASSUME NEW t, NEW rs, NEW us, NEW rs2, NEW us2, TaskOK(t, rs, us),
           \A r \in DOMAIN rs : r \in DOMAIN rs2 /\ rs2[r].period = rs[r].period,
           \A u \in DOMAIN us : u \in DOMAIN us2 /\ us2[u].allocated = us[u].allocated
    PROVE  TaskOK(t, rs2, us2)
BY DEF TaskOK, SummaryOK, DistributionOK, RuleChangeOK, RowOf

\* What a new task finds in the tables.
LEMMA NewRow ==
    ASSUME UsageInv, NEW r \in DOMAIN rules, NEW m
    PROVE  /\ FoundOrNew(r, m) \in BeneficiaryEntitlementUsage
           /\ UsageRow(r, m) \in DOMAIN usage =>
                 FoundOrNew(r, m).allocated = usage[UsageRow(r, m)].allocated
           /\ UsageRow(r, m) \notin DOMAIN usage => FoundOrNew(r, m).used = 0
<1>1. rules[r] \in EntitlementRule
  BY DEF UsageInv, UsageTypeOK
<1> QED BY <1>1 DEF UsageInv, UsageTypeOK, FoundOrNew, BeneficiaryEntitlementUsage, EntitlementRule

LEMMA EngineInit == EntitlementsInit => EngineInv
<1> SUFFICES ASSUME EntitlementsInit PROVE EngineInv
  OBVIOUS
<1>1. UsageInv
  BY WorldsAssumption, MaxRequestsIsNat
     DEF EntitlementsInit, InitRequests, UsageInv, UsageTypeOK, UsedWithinAllocated
<1>2. month \in Nat
  BY WorldsAssumption DEF EntitlementsInit
<1>3. UsageTasksOK
  BY DEF EntitlementsInit, InitRequests, UsageTasksOK, Idle
<1> QED BY <1>1, <1>2, <1>3 DEF EngineInv

\* A request that arrives with a right task.
LEMMA ArriveEntitled ==
    ASSUME EngineInv, NEW s \in Session, NEW t, Arrive(s, t), TaskOK(t, rules, usage),
           UNCHANGED <<tables, month, passed>>
    PROVE  EngineInv'
<1>1. UsageInv'
  BY MaxRequestsIsNat DEF EngineInv, UsageInv, UsageTypeOK, UsedWithinAllocated, Arrive, tables
<1>2. UsageTasksOK'
  BY DEF EngineInv, UsageTasksOK, Arrive, Idle, tables
<1> QED BY <1>1, <1>2 DEF EngineInv

\* The end of a request that leaves the tables right and reallocates nothing.
LEMMA EndEntitled ==
    ASSUME EngineInv, NEW s \in Session, End(s), UNCHANGED <<month, passed>>,
           UsageInv',
           \A r \in DOMAIN rules : r \in DOMAIN rules' /\ rules'[r].period = rules[r].period,
           \A u \in DOMAIN usage : u \in DOMAIN usage' /\ usage'[u].allocated = usage[u].allocated
    PROVE  EngineInv'
<1>1. UsageTasksOK'
  <2>1. DOMAIN task' = Session
    BY DEF EngineInv, UsageTasksOK, End
  <2>2. ASSUME NEW r \in Session, task'[r] # Nil
        PROVE  TaskOK(task'[r], rules', usage')
    <3>1. task'[r] = task[r] /\ ~Idle(r)
      BY <2>2 DEF EngineInv, UsageTasksOK, End, Idle
    <3>2. TaskOK(task[r], rules, usage)
      BY <3>1 DEF EngineInv, UsageTasksOK
    <3> QED BY <3>1, <3>2, TaskStays
  <2> QED BY <2>1, <2>2 DEF UsageTasksOK, Idle
<1> QED BY <1>1 DEF EngineInv

LEMMA ArriveSummarySafe ==
    ASSUME EngineInv, NEW s \in Session, ArriveSummary(s)
    PROVE  EngineInv'
<1> DEFINE us == {UsageRow(r, month) : r \in get_applicable_rules}
           new == [op |-> "summary", at |-> "commit", on |-> {}, usage |-> us,
                   found |-> us \cap DOMAIN usage,
                   rows |-> [u \in us |-> FoundOrNew(u[1], month)]]
<1>1. ASSUME NEW u \in us
      PROVE  /\ u[1] \in DOMAIN rules /\ FoundOrNew(u[1], month) \in BeneficiaryEntitlementUsage
             /\ u \notin DOMAIN usage => FoundOrNew(u[1], month).used = 0
  <2>1. PICK r \in DOMAIN rules : u = UsageRow(r, month)
    BY DEF get_applicable_rules
  <2>2. u[1] = r
    BY <2>1 DEF UsageRow
  <2> QED BY <2>1, <2>2, NewRow DEF EngineInv
<1>2. SummaryOK(new, rules, usage)
  BY <1>1 DEF SummaryOK
<1>3. TaskOK(new, rules, usage)
  BY <1>2 DEF TaskOK
<1> QED BY <1>3, ArriveEntitled DEF ArriveSummary

LEMMA ArriveDistributionSafe ==
    ASSUME EngineInv, NEW s \in Session, NEW r \in DOMAIN rules, NEW qty \in Quantities,
           ArriveDistribution(s, r, qty)
    PROVE  EngineInv'
<1> DEFINE u == UsageRow(r, month)
           row == FoundOrNew(r, month)
           new == [op |-> "distribute", at |-> "commit", on |-> {<<"usage", u>>},
                   rule |-> r, qty |-> qty, month |-> month, usage |-> {u},
                   found |-> {u} \cap DOMAIN usage, row |-> row]
<1>1. /\ row \in BeneficiaryEntitlementUsage
      /\ u \in DOMAIN usage => row.allocated = usage[u].allocated
      /\ u \notin DOMAIN usage => row.used = 0
  BY NewRow DEF EngineInv
<1>2. qty \in Nat \ {0} /\ month \in Nat /\ u = RowOf(r, month, rules)
  BY PayloadsAssumption DEF EngineInv, UsageRow, RowOf
<1>3. row.used + qty <= row.allocated
  BY <1>1, <1>2 DEF ArriveDistribution, BeneficiaryEntitlementUsage
<1>4. DistributionOK(new, rules, usage)
  BY <1>1, <1>2, <1>3 DEF DistributionOK
<1>5. TaskOK(new, rules, usage)
  BY <1>4 DEF TaskOK
<1> QED BY <1>5, ArriveEntitled DEF ArriveDistribution

LEMMA ArriveRuleSafe ==
    ASSUME EngineInv, NEW s \in Session,
           \/ \E rule \in NewRules : ArriveCreateRule(s, rule)
           \/ \E r \in DOMAIN rules, max \in MaxChanges : ArriveUpdateRule(s, r, "max", max)
           \/ \E r \in DOMAIN rules, b \in BOOLEAN : ArriveUpdateRule(s, r, "active", b)
    PROVE  EngineInv'
<1>1. ASSUME NEW rule \in NewRules, ArriveCreateRule(s, rule) PROVE EngineInv'
  BY <1>1, ArriveEntitled DEF ArriveCreateRule, TaskOK
<1>2. ASSUME NEW r \in DOMAIN rules, NEW max \in MaxChanges, ArriveUpdateRule(s, r, "max", max)
      PROVE  EngineInv'
  <2>1. max \in Int
    BY PayloadsAssumption
  <2> QED BY <1>2, <2>1, ArriveEntitled DEF ArriveUpdateRule, TaskOK, RuleChangeOK
<1>3. ASSUME NEW r \in DOMAIN rules, NEW b \in BOOLEAN, ArriveUpdateRule(s, r, "active", b)
      PROVE  EngineInv'
  BY <1>3, ArriveEntitled DEF ArriveUpdateRule, TaskOK, RuleChangeOK
<1> QED BY <1>1, <1>2, <1>3

\* A summary adds unused rows, and none that is there.
LEMMA CommitSummarySafe ==
    ASSUME EngineInv, NEW s \in Session, CommitSummary(s)
    PROVE  /\ EngineInv'
           /\ \A u \in DOMAIN usage : u \in DOMAIN usage' /\ usage'[u] = usage[u]
<1> DEFINE t == task[s]
<1>1. SummaryOK(t, rules, usage)
  BY DEF EngineInv, UsageTasksOK, TaskOK, CommitSummary, At
<1>2. usage' = Put(usage, t.rows) /\ UNCHANGED <<rules, given, passed, month>> /\ begun' = begun
  BY DEF CommitSummary, End
<1>3. \A u \in DOMAIN usage : u \in DOMAIN usage' /\ usage'[u] = usage[u]
  BY <1>2 DEF Put
<1>4. ASSUME NEW u \in DOMAIN usage' \ DOMAIN usage
      PROVE  /\ u[1] \in DOMAIN rules /\ usage'[u] \in BeneficiaryEntitlementUsage
             /\ usage'[u].used = 0
  BY <1>1, <1>2, <1>4 DEF Put, SummaryOK
<1>5. UsageInv'
  BY <1>2, <1>3, <1>4 DEF EngineInv, UsageInv, UsageTypeOK, UsedWithinAllocated
<1> QED BY <1>2, <1>3, <1>5, EndEntitled DEF CommitSummary

\* A distribution writes its one row, which the check at its arrival left room in.
LEMMA CommitDistributionSafe ==
    ASSUME EngineInv, NEW s \in Session, CommitDistribution(s)
    PROVE  /\ EngineInv'
           /\ \A u \in DOMAIN usage :
                 u \in DOMAIN usage' /\ usage'[u].allocated = usage[u].allocated
<1> DEFINE t == task[s]
           v == RowOf(t.rule, t.month, rules)
           row == [t.row EXCEPT !.used = @ + t.qty]
<1>1. DistributionOK(t, rules, usage) /\ t.usage = {v} /\ v[1] = t.rule
  BY DEF EngineInv, UsageTasksOK, TaskOK, DistributionOK, RowOf, CommitDistribution, At
<1>2. /\ usage' = Put([u \in {v} |-> row], usage)
      /\ UNCHANGED <<rules, passed, month>> /\ begun' = begun
  BY <1>1 DEF CommitDistribution, End
<1>3. /\ row \in BeneficiaryEntitlementUsage /\ row.used <= row.allocated
      /\ row.allocated = t.row.allocated
  BY <1>1 DEF DistributionOK, BeneficiaryEntitlementUsage
<1>4. v \in DOMAIN usage => v \in t.found
  BY <1>1 DEF CommitDistribution, Inserted
<1> HIDE DEF v, row
<1>5. /\ DOMAIN usage' = DOMAIN usage \cup {v} /\ usage'[v] = row
      /\ \A u \in DOMAIN usage \ {v} : usage'[u] = usage[u]
  BY <1>2 DEF Put
<1>6. \A u \in DOMAIN usage : u \in DOMAIN usage' /\ usage'[u].allocated = usage[u].allocated
  BY <1>1, <1>3, <1>4, <1>5 DEF DistributionOK, v
<1>7. \A c \in DOMAIN given' : c[1] \in DOMAIN rules /\ given'[c] \in Nat
  <2>1. given' = Put([c \in {Period(t.rule, t.month)} |-> Given(t.rule, t.month) + t.qty], given)
    BY DEF CommitDistribution
  <2>2. Given(t.rule, t.month) + t.qty \in Nat /\ Period(t.rule, t.month)[1] \in DOMAIN rules
    BY <1>1 DEF EngineInv, UsageInv, UsageTypeOK, Given, DistributionOK, Period
  <2> QED BY <2>1, <2>2 DEF Put, EngineInv, UsageInv, UsageTypeOK
<1>8. UsageInv'
  BY <1>1, <1>2, <1>3, <1>5, <1>7
     DEF EngineInv, UsageInv, UsageTypeOK, UsedWithinAllocated, DistributionOK
<1> QED BY <1>2, <1>6, <1>8, EndEntitled DEF CommitDistribution

\* Rules are added and changed, their periods are not, and usage rows stay.
LEMMA CommitRuleSafe ==
    ASSUME EngineInv, NEW s \in Session, CommitCreateRule(s) \/ CommitUpdateRule(s)
    PROVE  /\ EngineInv'
           /\ rules' \in Seq(EntitlementRule)
           /\ \A r \in DOMAIN rules : r \in DOMAIN rules' /\ rules'[r].period = rules[r].period
<1> DEFINE t == task[s]
<1>1. rules \in Seq(EntitlementRule)
  BY DEF EngineInv, UsageInv, UsageTypeOK
<1>2. /\ rules' \in Seq(EntitlementRule)
      /\ \A r \in DOMAIN rules : r \in DOMAIN rules' /\ rules'[r].period = rules[r].period
  <2>1. CASE CommitCreateRule(s)
    <3>1. t.rule \in NewRules
      BY <2>1 DEF EngineInv, UsageTasksOK, TaskOK, CommitCreateRule, At
    <3> DEFINE row == [category |-> t.rule.category, period |-> t.rule.period,
                       max |-> t.rule.max, active |-> TRUE]
    <3>2. row \in EntitlementRule
      <4>1. t.rule \in [category : {Category, Nil}, period : EntitlementPeriod, max : Int]
        BY <3>1, PayloadsAssumption
      <4> QED BY <4>1 DEF EntitlementRule
    <3>3. rules' = rules \/ rules' = Append(rules, row)
      BY <2>1 DEF CommitCreateRule
    <3> HIDE DEF row
    <3> QED BY <1>1, <3>2, <3>3
  <2>2. CASE CommitUpdateRule(s)
    <3>1. RuleChangeOK(t, rules)
      BY <2>2 DEF EngineInv, UsageTasksOK, TaskOK, CommitUpdateRule, At
    <3> DEFINE old == rules[t.rule]
               new == [old EXCEPT ![t.column] = Assigned(t.loaded, t.value, @)]
    <3>2. rules' = [rules EXCEPT ![t.rule] = new]
      BY <1>1, <2>2 DEF CommitUpdateRule
    <3>3. old \in EntitlementRule
      BY <1>1, <3>1 DEF RuleChangeOK
    <3>4. new \in EntitlementRule /\ new.period = old.period
      <4>1. CASE t.column = "max" /\ t.value \in Int
        BY <3>3, <4>1 DEF EntitlementRule, Assigned
      <4>2. CASE t.column = "active" /\ t.value \in BOOLEAN
        <5>1. Assigned(t.loaded, t.value, old.active) \in BOOLEAN
          BY <3>3, <4>2 DEF EntitlementRule, Assigned
        <5>2. new = [old EXCEPT !.active = Assigned(t.loaded, t.value, old.active)]
          BY <3>3, <4>2 DEF EntitlementRule
        <5> QED BY <3>3, <5>1, <5>2 DEF EntitlementRule
      <4> QED BY <3>1, <4>1, <4>2 DEF RuleChangeOK
    <3> HIDE DEF new
    <3> QED BY <1>1, <3>1, <3>2, <3>4 DEF RuleChangeOK
  <2> QED BY <2>1, <2>2
<1>3. End(s) /\ UNCHANGED <<usage, given, month, passed>> /\ begun' = begun
  BY DEF CommitCreateRule, CommitUpdateRule, End
<1>4. UsageInv'
  BY <1>2, <1>3 DEF EngineInv, UsageInv, UsageTypeOK, UsedWithinAllocated
<1> QED BY <1>2, <1>3, <1>4, EndEntitled

\* Ends that write nothing.
LEMMA RollbackSafe ==
    ASSUME EngineInv, NEW s \in Session, UsageTaken(s) \/ ConnectionLost(s)
    PROVE  EngineInv'
<1>1. End(s) /\ UNCHANGED <<rules, usage, given, month, passed>> /\ begun' = begun
  BY DEF UsageTaken, ConnectionLost, End, tables
<1>2. UsageInv'
  BY <1>1 DEF EngineInv, UsageInv, UsageTypeOK, UsedWithinAllocated
<1> QED BY <1>1, <1>2, EndEntitled

LEMMA MonthSafe ==
    ASSUME EngineInv, MonthPasses
    PROVE  EngineInv'
<1>1. UsageInv'
  BY WorldsAssumption DEF EngineInv, UsageInv, UsageTypeOK, UsedWithinAllocated, MonthPasses,
                          tables, requests
<1>2. UsageTasksOK' /\ month' \in Nat
  BY DEF EngineInv, UsageTasksOK, MonthPasses, tables, requests, Idle
<1> QED BY <1>1, <1>2 DEF EngineInv

LEMMA EngineStep ==
    ASSUME EngineInv, [EntitlementsNext]_entitlementVars
    PROVE  /\ EngineInv'
           /\ \A u \in DOMAIN usage :
                 u \in DOMAIN usage' /\ usage'[u].allocated = usage[u].allocated
<1>1. CASE MonthPasses
  BY <1>1, MonthSafe DEF MonthPasses, tables
<1>2. ASSUME NEW s \in Session, ArriveSummary(s) PROVE EngineInv' /\ usage' = usage
  BY <1>2, ArriveSummarySafe DEF ArriveSummary, tables
<1>3. ASSUME NEW s \in Session, NEW r \in DOMAIN rules, NEW qty \in Quantities,
             ArriveDistribution(s, r, qty)
      PROVE  EngineInv' /\ usage' = usage
  BY <1>3, ArriveDistributionSafe DEF ArriveDistribution, tables
<1>4. ASSUME NEW s \in Session,
             \/ \E rule \in NewRules : ArriveCreateRule(s, rule)
             \/ \E r \in DOMAIN rules, max \in MaxChanges : ArriveUpdateRule(s, r, "max", max)
             \/ \E r \in DOMAIN rules, b \in BOOLEAN : ArriveUpdateRule(s, r, "active", b)
      PROVE  EngineInv' /\ usage' = usage
  BY <1>4, ArriveRuleSafe DEF ArriveCreateRule, ArriveUpdateRule, tables
<1>5. ASSUME NEW s \in Session, CommitSummary(s)
      PROVE  EngineInv' /\ \A u \in DOMAIN usage : u \in DOMAIN usage' /\ usage'[u] = usage[u]
  BY <1>5, CommitSummarySafe
<1>6. ASSUME NEW s \in Session, CommitDistribution(s)
      PROVE  /\ EngineInv'
             /\ \A u \in DOMAIN usage :
                   u \in DOMAIN usage' /\ usage'[u].allocated = usage[u].allocated
  BY <1>6, CommitDistributionSafe
<1>7. ASSUME NEW s \in Session, CommitCreateRule(s) \/ CommitUpdateRule(s)
      PROVE  EngineInv' /\ usage' = usage
  BY <1>7, CommitRuleSafe DEF CommitCreateRule, CommitUpdateRule
<1>8. ASSUME NEW s \in Session, UsageTaken(s) \/ ConnectionLost(s)
      PROVE  EngineInv' /\ usage' = usage
  BY <1>8, RollbackSafe DEF UsageTaken, ConnectionLost, tables
<1>9. CASE UNCHANGED entitlementVars
  BY <1>9
     DEF entitlementVars, tables, requests, EngineInv, UsageInv, UsageTypeOK,
         UsedWithinAllocated, UsageTasksOK, Idle
<1> QED BY <1>1, <1>2, <1>3, <1>4, <1>5, <1>6, <1>7, <1>8, <1>9 DEF EntitlementsNext

-----------------------------------------------------------------------------

\* No row that was used is used beyond its allocation, whatever distributions,
\* summaries and changes of the rules run at once: what a distribution writes is
\* what its own check has found room for (welfare_service.py:117).
THEOREM WithinAllocated == EntitlementsSpec => []UsageInv
<1>1. EngineInv => UsageInv
  BY DEF EngineInv
<1>2. EngineInv /\ [EntitlementsNext]_entitlementVars => EngineInv'
  BY EngineStep
<1> QED BY <1>1, <1>2, EngineInit, PTL DEF EntitlementsSpec

\* An allocation that was copied from a rule stands, and its row stays
\* (entitlement_service.py:52).
THEOREM AllocationsStand == EntitlementsSpec => AllocationStands
<1>1. EngineInv /\ [EntitlementsNext]_entitlementVars =>
        [\A u \in DOMAIN usage :
            u \in DOMAIN usage' /\ usage'[u].allocated = usage[u].allocated]_entitlementVars
  BY EngineStep
<1>2. EngineInv /\ [EntitlementsNext]_entitlementVars => EngineInv'
  BY EngineStep
<1> QED BY <1>1, <1>2, EngineInit, PTL DEF EntitlementsSpec, AllocationStands

-----------------------------------------------------------------------------

(***************************************************************************)
(* What is used is what was given.  The equation is for every month, past  *)
(* or future, and needs that what a distribution has loaded is still there *)
(* (UsageFreshOK): two distributions at one row are in raced (UsageRacedOK).         *)
(***************************************************************************)

UsageRacedOK ==
    \A r, s \in Session :
        r # s /\ ~Idle(r) /\ ~Idle(s) => task[r].on \cap task[s].on \subseteq raced

UsageFreshOK ==
    \A s \in Session : \A u \in DOMAIN usage :
        ~Idle(s) /\ task[s].op = "distribute" /\ u \in task[s].found /\ u \in task[s].usage
            /\ <<"usage", u>> \notin raced
        => task[s].row.used = usage[u].used

UsedIsGiven ==
    \A r \in DOMAIN rules, m \in Nat :
        <<"usage", UsageRow(r, m)>> \notin raced => Used(r, m) = Given(r, m)

ExactInv == UsageRacedOK /\ UsageFreshOK /\ UsedIsGiven

LEMMA ExactInit == EntitlementsInit => ExactInv
<1> SUFFICES ASSUME EntitlementsInit PROVE ExactInv
  OBVIOUS
<1>1. UsageRacedOK /\ UsageFreshOK
  BY DEF EntitlementsInit, InitRequests, UsageRacedOK, UsageFreshOK, Idle
<1>2. UsedIsGiven
  BY DEF EntitlementsInit, UsedIsGiven, Used, Given
<1> QED BY <1>1, <1>2 DEF ExactInv

\* A task that arrives: what it has loaded is there.
LEMMA ExactArrive ==
    ASSUME EngineInv, ExactInv, NEW s \in Session, NEW t, Arrive(s, t),
           t.op = "distribute" => \A u \in t.usage \cap t.found : t.row = usage[u],
           UNCHANGED <<rules, usage, given>>
    PROVE  ExactInv'
<1>1. /\ task'[s] = t /\ \A r \in Session : r # s => task'[r] = task[r]
      /\ raced \subseteq raced'
      /\ \A r \in Session : ~Idle(r) => t.on \cap task[r].on \subseteq raced'
  BY DEF Arrive, EngineInv, UsageTasksOK, Busy
<1>2. UsageRacedOK'
  BY <1>1 DEF ExactInv, UsageRacedOK, Idle
<1>3. UsageFreshOK'
  BY <1>1 DEF ExactInv, UsageFreshOK, Idle
<1>4. UsedIsGiven'
  BY <1>1 DEF ExactInv, UsedIsGiven, Used, Given, UsageRow, Period
<1> QED BY <1>2, <1>3, <1>4 DEF ExactInv

\* A request that ends, having changed no row that another may have loaded.
LEMMA ExactEnd ==
    ASSUME EngineInv, ExactInv, NEW s \in Session, End(s),
           \A r \in Session \ {s} : \A u \in DOMAIN usage' :
              ~Idle(r) /\ task[r].op = "distribute" /\ u \in task[r].found /\ u \in task[r].usage
                  /\ <<"usage", u>> \notin raced
              => u \in DOMAIN usage /\ usage'[u].used = usage[u].used,
           UsedIsGiven'
    PROVE  ExactInv'
<1>1. /\ task'[s] = Nil /\ \A r \in Session : r # s => task'[r] = task[r]
      /\ raced' = raced
  BY DEF End, EngineInv, UsageTasksOK
<1>2. UsageRacedOK'
  BY <1>1 DEF ExactInv, UsageRacedOK, Idle
<1>3. UsageFreshOK'
  BY <1>1 DEF ExactInv, UsageFreshOK, Idle
<1> QED BY <1>2, <1>3 DEF ExactInv

\* Rows that a summary inserts are unused, and nothing was given under them.
LEMMA ExactSummary ==
    ASSUME EngineInv, ExactInv, NEW s \in Session, CommitSummary(s)
    PROVE  ExactInv'
<1> DEFINE t == task[s]
<1>1. SummaryOK(t, rules, usage)
  BY DEF EngineInv, UsageTasksOK, TaskOK, CommitSummary, At
<1>2. End(s) /\ usage' = Put(usage, t.rows) /\ UNCHANGED <<rules, given>> /\ raced' = raced
  BY DEF CommitSummary, End
<1>3. \A u \in DOMAIN usage : u \in DOMAIN usage' /\ usage'[u] = usage[u]
  BY <1>2 DEF Put
<1>4. \A u \in DOMAIN usage' \ DOMAIN usage : usage'[u].used = 0
  BY <1>1, <1>2 DEF Put, SummaryOK
<1>5. UsedIsGiven'
  BY <1>2, <1>3, <1>4 DEF ExactInv, UsedIsGiven, Used, Given, UsageRow, Period
<1>6. ASSUME NEW r \in Session, ~Idle(r), task[r].op = "distribute",
             NEW u \in task[r].found, u \in task[r].usage
      PROVE  u \in DOMAIN usage
  BY <1>6 DEF EngineInv, UsageTasksOK, TaskOK, DistributionOK
<1> QED BY <1>2, <1>3, <1>5, <1>6, ExactEnd

\* A distribution adds its quantity to its own row and period, and to no other.
LEMMA ExactDistribution ==
    ASSUME EngineInv, ExactInv, NEW s \in Session, CommitDistribution(s)
    PROVE  ExactInv'
<1> DEFINE t == task[s]
           v == RowOf(t.rule, t.month, rules)
           cell == Period(t.rule, t.month)
           row == [t.row EXCEPT !.used = @ + t.qty]
<1>1. /\ DistributionOK(t, rules, usage) /\ v = UsageRow(t.rule, t.month)
      /\ t.usage = {v} /\ t.on = {<<"usage", v>>} /\ ~Idle(s) /\ t.op = "distribute"
  BY DEF EngineInv, UsageTasksOK, TaskOK, DistributionOK, RowOf, UsageRow, CommitDistribution, At
<1>2. /\ usage' = Put([u \in {v} |-> row], usage)
      /\ given' = Put([c \in {cell} |-> Given(t.rule, t.month) + t.qty], given)
      /\ End(s) /\ UNCHANGED rules /\ raced' = raced
  BY <1>1 DEF CommitDistribution, End
<1>3. row.used = t.row.used + t.qty
  BY <1>1 DEF DistributionOK, BeneficiaryEntitlementUsage
<1>4. v \in DOMAIN usage => v \in t.found
  BY <1>1 DEF CommitDistribution, Inserted
<1>5. v \notin DOMAIN usage => t.row.used = 0
  BY <1>1 DEF DistributionOK
<1>6. rules \in Seq(EntitlementRule) /\ t.rule \in DOMAIN rules /\ t.month \in Nat
  BY <1>1 DEF EngineInv, UsageInv, UsageTypeOK, DistributionOK
<1>7. /\ DOMAIN usage' = DOMAIN usage \cup {v} /\ usage'[v] = row
      /\ \A u \in DOMAIN usage \ {v} : usage'[u] = usage[u]
  BY <1>2 DEF Put
<1>8. /\ DOMAIN given' = DOMAIN given \cup {cell}
      /\ given'[cell] = Given(t.rule, t.month) + t.qty
      /\ \A c \in DOMAIN given \ {cell} : given'[c] = given[c]
  BY <1>2 DEF Put
<1>9. UsedIsGiven'
  <2> SUFFICES ASSUME NEW r \in DOMAIN rules, NEW m \in Nat, <<"usage", UsageRow(r, m)>> \notin raced
               PROVE  Used(r, m)' = Given(r, m)'
    BY <1>2 DEF UsedIsGiven, UsageRow
  <2>1. Used(r, m) = Given(r, m)
    BY DEF ExactInv, UsedIsGiven
  <2>2. UsageRow(r, m) = v <=> Period(r, m) = cell
    <3>1. rules[r] \in EntitlementRule
      BY <1>6
    <3>3. rules[r].period \in EntitlementPeriod
      BY <3>1 DEF EntitlementRule
    <3>2. r = t.rule =>
            (get_period_key(rules[r].period, m) = get_period_key(rules[r].period, t.month) <=>
             PeriodStart(rules[r].period, m) = PeriodStart(rules[r].period, t.month))
      BY <1>6, <3>3, KeysFollowCalendar
    <3> QED BY <3>2 DEF UsageRow, RowOf, Period
  <2>3. CASE UsageRow(r, m) = v
    <3>1. t.row.used = Used(r, m)
      BY <1>1, <1>4, <1>5, <2>3 DEF ExactInv, UsageFreshOK, Used
    <3>2. Given(r, m) = Given(t.rule, t.month)
      BY <2>2, <2>3 DEF Given
    <3>3. Used(r, m)' = row.used /\ Given(r, m)' = Given(t.rule, t.month) + t.qty
      BY <1>2, <1>7, <1>8, <2>2, <2>3 DEF Used, Given, UsageRow, Period
    <3> QED BY <1>3, <2>1, <3>1, <3>2, <3>3
  <2>4. CASE UsageRow(r, m) # v
    BY <1>2, <1>7, <1>8, <2>1, <2>2, <2>4 DEF Used, Given, UsageRow, Period
  <2> QED BY <2>3, <2>4
<1>10. ASSUME NEW r \in Session \ {s}, NEW u \in DOMAIN usage', ~Idle(r), task[r].op = "distribute",
              u \in task[r].found, u \in task[r].usage, <<"usage", u>> \notin raced
       PROVE  u \in DOMAIN usage /\ usage'[u].used = usage[u].used
  <2>1. u \in DOMAIN usage /\ <<"usage", u>> \in task[r].on
    BY <1>10 DEF EngineInv, UsageTasksOK, TaskOK, DistributionOK
  <2>2. u # v
    BY <1>1, <1>10, <2>1 DEF ExactInv, UsageRacedOK
  <2> QED BY <1>7, <2>1, <2>2
<1> QED BY <1>2, <1>9, <1>10, ExactEnd

\* A new rule has no row yet, and the others keep their periods.
LEMMA ExactRule ==
    ASSUME EngineInv, ExactInv, NEW s \in Session, CommitCreateRule(s) \/ CommitUpdateRule(s)
    PROVE  ExactInv'
<1>1. End(s) /\ UNCHANGED <<usage, given>> /\ raced' = raced
  BY DEF CommitCreateRule, CommitUpdateRule, End
<1>2. \A r \in DOMAIN rules : r \in DOMAIN rules' /\ rules'[r].period = rules[r].period
  BY CommitRuleSafe
<1>3. UsedIsGiven'
  <2> SUFFICES ASSUME NEW r \in DOMAIN rules', NEW m \in Nat,
                      <<"usage", UsageRow(r, m)'>> \notin raced
               PROVE  Used(r, m)' = Given(r, m)'
    BY <1>1 DEF UsedIsGiven
  <2>1. CASE r \in DOMAIN rules
    BY <1>1, <1>2, <2>1 DEF ExactInv, UsedIsGiven, Used, Given, UsageRow, Period
  <2>2. CASE r \notin DOMAIN rules
    BY <1>1, <2>2 DEF EngineInv, UsageInv, UsageTypeOK, Used, Given, UsageRow, Period
  <2> QED BY <2>1, <2>2
<1> QED BY <1>1, <1>3, ExactEnd

LEMMA ExactStep == EngineInv /\ ExactInv /\ [EntitlementsNext]_entitlementVars => ExactInv'
<1> SUFFICES ASSUME EngineInv, ExactInv, [EntitlementsNext]_entitlementVars PROVE ExactInv'
  OBVIOUS
<1>1. ASSUME NEW s \in Session,
             \/ ArriveSummary(s)
             \/ \E rule \in NewRules : ArriveCreateRule(s, rule)
             \/ \E r \in DOMAIN rules, max \in MaxChanges : ArriveUpdateRule(s, r, "max", max)
             \/ \E r \in DOMAIN rules, b \in BOOLEAN : ArriveUpdateRule(s, r, "active", b)
      PROVE  ExactInv'
  BY <1>1, ExactArrive DEF ArriveSummary, ArriveCreateRule, ArriveUpdateRule, tables
<1>2. ASSUME NEW s \in Session, NEW r \in DOMAIN rules, NEW qty \in Quantities,
             ArriveDistribution(s, r, qty)
      PROVE  ExactInv'
  BY <1>2, ExactArrive DEF ArriveDistribution, FoundOrNew, tables
<1>3. ASSUME NEW s \in Session, CommitSummary(s) PROVE ExactInv'
  BY <1>3, ExactSummary
<1>4. ASSUME NEW s \in Session, CommitDistribution(s) PROVE ExactInv'
  BY <1>4, ExactDistribution
<1>5. ASSUME NEW s \in Session, CommitCreateRule(s) \/ CommitUpdateRule(s) PROVE ExactInv'
  BY <1>5, ExactRule
<1>6. ASSUME NEW s \in Session, UsageTaken(s) \/ ConnectionLost(s) PROVE ExactInv'
  <2>1. End(s) /\ UNCHANGED <<rules, usage, given>> /\ raced' = raced
    BY <1>6 DEF UsageTaken, ConnectionLost, End, tables
  <2>2. UsedIsGiven'
    BY <2>1 DEF ExactInv, UsedIsGiven, Used, Given, UsageRow, Period
  <2> QED BY <2>1, <2>2, ExactEnd
<1>7. CASE MonthPasses \/ UNCHANGED entitlementVars
  <2>1. UNCHANGED <<rules, usage, given, task, raced>>
    BY <1>7 DEF MonthPasses, entitlementVars, tables, requests
  <2> QED
    BY <2>1
       DEF ExactInv, UsageRacedOK, UsageFreshOK, UsedIsGiven, Used, Given, UsageRow, Period, Idle
<1> QED BY <1>1, <1>2, <1>3, <1>4, <1>5, <1>6, <1>7 DEF EntitlementsNext

\* In every month, of every kind of period, the row that the date leads to says
\* exactly what was given in that calendar period: nothing is carried over a
\* boundary, and no change of a rule or summary in between disturbs it
\* (entitlement_service.py:5).
THEOREM UsageIsExact == EntitlementsSpec => []UsedIsGivenThisPeriod
<1>1. EngineInv /\ ExactInv => UsedIsGivenThisPeriod
  BY DEF EngineInv, ExactInv, UsedIsGiven, UsedIsGivenThisPeriod
<1>2. EngineInv /\ [EntitlementsNext]_entitlementVars => EngineInv'
  BY EngineStep
<1> QED BY <1>1, <1>2, EngineInit, ExactInit, ExactStep, PTL DEF EntitlementsSpec
=============================================================================
