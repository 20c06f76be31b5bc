----------------------------- MODULE MCCatalog ------------------------------
(***************************************************************************)
(* An instance of Catalog: one chain and one row in every other table;     *)
(* clients ask for a new row, for one whose other unique column is taken,  *)
(* and for references that exist or do not.                                *)
(***************************************************************************)
EXTENDS Catalog

NewRow(code, name, ref) == [code |-> code, name |-> name, ref |-> ref]

MCInitial ==
    [t \in Table |->
        <<[code |-> "a", name |-> "a", ref |-> IF Schema[t].refers = Nil THEN Nil ELSE 1,
           active |-> TRUE]>>]

Candidates == {NewRow("b", "b", 1), NewRow("b", "a", 2)}

MCInputs ==
    [t \in Table |-> IF Schema[t].refers = Nil THEN {[r EXCEPT !.ref = Nil] : r \in Candidates}
                     ELSE Candidates]

\* region and district have no PATCH, a mart refers to another warehouse.
MCChanges ==
    [t \in Table |-> {("active" :> FALSE), ("name" :> "b")}
                     \cup (IF t \in {"marts", "products"} THEN {("ref" :> 2)} ELSE {})]

Interchangeable == Permutations(Session)
=============================================================================
