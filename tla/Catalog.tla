------------------------------ MODULE Catalog -------------------------------
(***************************************************************************)
(* Master data: the organization chain and the catalogs of categories,     *)
(* programs, commodities, products, suppliers and budgets.                 *)
(*                                                                         *)
(* Their routers have one shape.  A create looks for the parents and for   *)
(* the code it was given, inserts and commits; a PATCH loads the row, sets *)
(* the attributes of the payload and writes those that differ from what    *)
(* was loaded.  What the SELECTs did not look at, or have missed because   *)
(* of another request, is left to the constraints of the tables.           *)
(*                                                                         *)
(* Of a row only the code, one other identifying attribute (name), one     *)
(* reference and is_active are kept; the remaining attributes behave like  *)
(* is_active.                                                              *)
(***************************************************************************)
EXTENDS Requests, Sequences, SequencesExt

CONSTANTS
    Value,    \* codes and names
    Inputs,   \* table -> rows that clients ask to create
    Changes,  \* table -> payloads of its PATCH: functions on some columns
    Initial   \* table -> sequence of rows, a state the program reaches

-----------------------------------------------------------------------------
\* The models: unique columns, and the table the reference leads to.

Organization        == [unique |-> {"code"}, refers |-> Nil]
Region              == [unique |-> {}, refers |-> "organizations"]
District            == [unique |-> {}, refers |-> "regions"]
Warehouse           == [unique |-> {"code"}, refers |-> "districts"]
\* name stands for no column of a mart; ref is default_warehouse_id.
Mart                == [unique |-> {"code"}, refers |-> "warehouses"]
BeneficiaryCategory == [unique |-> {"code", "name"}, refers |-> Nil]
WelfareProgram      == [unique |-> {"code", "name"}, refers |-> Nil]
Commodity           == [unique |-> {"code", "name"}, refers |-> Nil]
ProductCategory     == [unique |-> {"code", "name"}, refers |-> Nil]
ExpenseCategory     == [unique |-> {"code", "name"}, refers |-> Nil]
\* code is the SKU, name the barcode, ref the commodity.
Product             == [unique |-> {"code", "name"}, refers |-> "commodities"]
Supplier            == [unique |-> {}, refers |-> Nil]
\* ref is the program; the other scopes of a budget are like it.
WelfareBudget       == [unique |-> {}, refers |-> "programs"]

Schema ==
    [organizations |-> Organization, regions |-> Region, districts |-> District,
     warehouses |-> Warehouse, marts |-> Mart, categories |-> BeneficiaryCategory,
     programs |-> WelfareProgram, commodities |-> Commodity,
     product_categories |-> ProductCategory, expense_categories |-> ExpenseCategory,
     products |-> Product, suppliers |-> Supplier, budgets |-> WelfareBudget]

Table == DOMAIN Schema

Id == Nat \ {0}

Row == [code : Value, name : Value \cup {Nil}, ref : Id \cup {Nil}, active : BOOLEAN]

Column == {"code", "name", "ref", "active"}

\* The values of column c, as the schemas of the payloads validate them.
Values(c) == CASE c = "code" -> Value
               [] c = "name" -> Value \cup {Nil}
               [] c = "ref"  -> Id \cup {Nil}
               [] OTHER      -> BOOLEAN

\* Constraints of the tables d: ref is a foreign key, NULL refers to nothing, and
\* unique columns of row differ from those of every row but the one at i.
Refers(d, t, row) ==
    row.ref \in {Nil} \cup (IF Schema[t].refers = Nil THEN {} ELSE DOMAIN d[Schema[t].refers])

Unequal(d, t, row, i) ==
    \A c \in Schema[t].unique : \A j \in DOMAIN d[t] \ {i} :
        row[c] # Nil => d[t][j][c] # row[c]

ASSUME InputsAssumption ==
    Inputs \in [Table -> SUBSET [code : Value, name : Value \cup {Nil}, ref : Id \cup {Nil}]]

ASSUME ChangesAssumption ==
    /\ DOMAIN Changes = Table
    /\ \A t \in Table : \A p \in Changes[t] :
          DOMAIN p \subseteq Column /\ \A c \in DOMAIN p : p[c] \in Values(c)

\* The database has checked the rows that are there.
ASSUME InitialAssumption ==
    /\ Initial \in [Table -> Seq(Row)]
    /\ \A t \in Table : \A i \in DOMAIN Initial[t] :
          Refers(Initial, t, Initial[t][i]) /\ Unequal(Initial, t, Initial[t][i], i)

VARIABLES
    db,      \* table -> sequence of rows; a row's id is its index
    history  \* the AuditLog rows: table, id and new values

vars == <<db, history, requests>>

Init == db = Initial /\ history = << >> /\ InitRequests

\* A table without its unique indexes.
AcceptsAnyCode(t, row, i) == Refers(db, t, row)

\* What the database takes: unique columns and the foreign key.  i is the row written.
Accepts(t, row, i) == Refers(db, t, row) /\ Unequal(db, t, row, i)

-----------------------------------------------------------------------------
\* The shape of a create.

ArriveCreate(s, t, row) ==
    /\ Arrive(s, [op |-> "create", at |-> "commit", table |-> t, row |-> row, on |-> {}])
    /\ UNCHANGED <<db, history>>

ParentExists(t, row) == row.ref \in DOMAIN db[Schema[t].refers]

CodeIsFree(t, row) == \A i \in DOMAIN db[t] : db[t][i].code # row.code

\* The commit, or the IntegrityError that answers 500.
CommitCreate(s) ==
    /\ At(s, "create", "commit")
    /\ LET t == task[s].table
           new == task[s].row
           row == [code |-> new.code, name |-> new.name, ref |-> new.ref, active |-> TRUE]
           i == Len(db[t]) + 1
       IN \/ /\ Accepts(t, row, i)
             /\ db' = [db EXCEPT ![t] = Append(@, row)]
             /\ history' = Append(history, [table |-> t, id |-> i, changes |-> row])
             /\ End(s)
          \/ ~Accepts(t, row, i) /\ End(s) /\ UNCHANGED <<db, history>>

-----------------------------------------------------------------------------
\* The shape of a PATCH.

ArriveUpdate(s, t, i, changes) ==
    /\ Arrive(s, [op |-> "update", at |-> "commit", table |-> t, id |-> i, loaded |-> db[t][i],
                  changes |-> changes, on |-> {<<t, i, c>> : c \in DOMAIN changes}])
    /\ UNCHANGED <<db, history>>

\* An update that writes every column of the row it loaded.
CommitUpdateWhole(s) ==
    /\ At(s, "update", "commit")
    /\ LET t == task[s].table
           i == task[s].id
           row == task[s].changes @@ task[s].loaded
       IN \/ /\ Accepts(t, row, i)
             /\ db' = [db EXCEPT ![t][i] = row]
             /\ history' = Append(history, [table |-> t, id |-> i, changes |-> task[s].changes])
             /\ End(s)
          \/ ~Accepts(t, row, i) /\ End(s) /\ UNCHANGED <<db, history>>

CommitUpdate(s) ==
    /\ At(s, "update", "commit")
    /\ LET t == task[s].table
           i == task[s].id
           changes == task[s].changes
           row == [c \in Column |->
                     IF c \in DOMAIN changes
                     THEN Assigned(task[s].loaded[c], changes[c], db[t][i][c])
                     ELSE db[t][i][c]]
       IN \/ /\ Accepts(t, row, i)
             /\ db' = [db EXCEPT ![t][i] = row]
             /\ history' = Append(history, [table |-> t, id |-> i, changes |-> changes])
             /\ End(s)
          \/ ~Accepts(t, row, i) /\ End(s) /\ UNCHANGED <<db, history>>

-----------------------------------------------------------------------------
\* The operations.

create_organization(s, row) ==
    CodeIsFree("organizations", row) /\ ArriveCreate(s, "organizations", row)

update_organization(s, i, changes) == ArriveUpdate(s, "organizations", i, changes)

\* Codes of regions and districts are not unique.
create_region(s, row) == ParentExists("regions", row) /\ ArriveCreate(s, "regions", row)

create_district(s, row) == ParentExists("districts", row) /\ ArriveCreate(s, "districts", row)

create_warehouse(s, row) ==
    /\ ParentExists("warehouses", row)
    /\ CodeIsFree("warehouses", row)
    /\ ArriveCreate(s, "warehouses", row)

\* The district is checked as well; the warehouse may be absent.
create_mart(s, row) ==
    /\ row.ref # Nil => ParentExists("marts", row)
    /\ CodeIsFree("marts", row)
    /\ ArriveCreate(s, "marts", row)

\* Another warehouse is not looked for.
update_mart(s, i, changes) == ArriveUpdate(s, "marts", i, changes)

create_category(s, row) == CodeIsFree("categories", row) /\ ArriveCreate(s, "categories", row)

update_category(s, i, changes) == ArriveUpdate(s, "categories", i, changes)

create_program(s, row) == CodeIsFree("programs", row) /\ ArriveCreate(s, "programs", row)

update_program(s, i, changes) == ArriveUpdate(s, "programs", i, changes)

create_commodity(s, row) == CodeIsFree("commodities", row) /\ ArriveCreate(s, "commodities", row)

update_commodity(s, i, changes) == ArriveUpdate(s, "commodities", i, changes)

create_product_category(s, row) ==
    CodeIsFree("product_categories", row) /\ ArriveCreate(s, "product_categories", row)

update_product_category(s, i, changes) == ArriveUpdate(s, "product_categories", i, changes)

create_expense_category(s, row) ==
    CodeIsFree("expense_categories", row) /\ ArriveCreate(s, "expense_categories", row)

create_product(s, row) == CodeIsFree("products", row) /\ ArriveCreate(s, "products", row)

update_product(s, i, changes) == ArriveUpdate(s, "products", i, changes)

create_supplier(s, row) == ArriveCreate(s, "suppliers", row)

update_supplier(s, i, changes) == ArriveUpdate(s, "suppliers", i, changes)

\* The program is not looked for.
create_budget(s, row) == ArriveCreate(s, "budgets", row)

update_budget(s, i, changes) == ArriveUpdate(s, "budgets", i, changes)

-----------------------------------------------------------------------------

Disconnect(s) == ~Idle(s) /\ End(s) /\ UNCHANGED <<db, history>>

Create(s) ==
    \/ \E row \in Inputs["organizations"] : create_organization(s, row)
    \/ \E row \in Inputs["regions"] : create_region(s, row)
    \/ \E row \in Inputs["districts"] : create_district(s, row)
    \/ \E row \in Inputs["warehouses"] : create_warehouse(s, row)
    \/ \E row \in Inputs["marts"] : create_mart(s, row)
    \/ \E row \in Inputs["categories"] : create_category(s, row)
    \/ \E row \in Inputs["programs"] : create_program(s, row)
    \/ \E row \in Inputs["commodities"] : create_commodity(s, row)
    \/ \E row \in Inputs["product_categories"] : create_product_category(s, row)
    \/ \E row \in Inputs["expense_categories"] : create_expense_category(s, row)
    \/ \E row \in Inputs["products"] : create_product(s, row)
    \/ \E row \in Inputs["suppliers"] : create_supplier(s, row)
    \/ \E row \in Inputs["budgets"] : create_budget(s, row)

Updates(t) == {<<i, changes>> : i \in DOMAIN db[t], changes \in Changes[t]}

Update(s) ==
    \/ \E u \in Updates("organizations") : update_organization(s, u[1], u[2])
    \/ \E u \in Updates("marts") : update_mart(s, u[1], u[2])
    \/ \E u \in Updates("categories") : update_category(s, u[1], u[2])
    \/ \E u \in Updates("programs") : update_program(s, u[1], u[2])
    \/ \E u \in Updates("commodities") : update_commodity(s, u[1], u[2])
    \/ \E u \in Updates("product_categories") : update_product_category(s, u[1], u[2])
    \/ \E u \in Updates("products") : update_product(s, u[1], u[2])
    \/ \E u \in Updates("suppliers") : update_supplier(s, u[1], u[2])
    \/ \E u \in Updates("budgets") : update_budget(s, u[1], u[2])

Next == \E s \in Session :
    Create(s) \/ CommitCreate(s) \/ Update(s) \/ CommitUpdate(s) \/ Disconnect(s)

Spec == Init /\ [][Next]_vars

-----------------------------------------------------------------------------

TypeOK ==
    /\ db \in [Table -> Seq(Row)]
    /\ Len(history) <= begun /\ begun \in 0..MaxRequests

\* organizations.py:36 "Organization code already in use" and its like: the SELECT
\* that looks for a code or a SKU finds at most one row, or scalar_one_or_none
\* raises, whatever creates and updates run at once.
CodesIdentify ==
    \A t \in Table : \A c \in Schema[t].unique : \A i, j \in DOMAIN db[t] :
        i # j /\ db[t][i][c] # Nil => db[t][i][c] # db[t][j][c]

\* Rows of the right shape, led to by their codes (organizations.py:36).
CodesInv == TypeOK /\ CodesIdentify

\* The k-th audit row changes column c of row i of table t, and no later one does.
Sets(k, t, i, c) ==
    history[k].table = t /\ history[k].id = i /\ c \in DOMAIN history[k].changes

LastToSet(k, t, i, c) ==
    Sets(k, t, i, c) /\ \A l \in DOMAIN history : l > k => ~Sets(l, t, i, c)

\* README.md:73 "Every mutation above writes an audit row": each column has the
\* value of the last audited change to it; two requests at once keep each other's
\* columns, and lose at most a column both were changing.
ColumnsAsAudited ==
    \A t \in Table : \A i \in DOMAIN db[t] : \A c \in Column, k \in DOMAIN history :
        <<t, i, c>> \notin raced /\ LastToSet(k, t, i, c) =>
            db[t][i][c] = history[k].changes[c]
=============================================================================
