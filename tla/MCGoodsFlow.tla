---------------------------- MODULE MCGoodsFlow -----------------------------
(***************************************************************************)
(* Instances of GoodsFlow: a transfer and an order of two lines and an     *)
(* expense, each new, approved, or on the way.                             *)
(***************************************************************************)
EXTENDS GoodsFlow, TLC

Lines == <<[product |-> "flour", quantity |-> 2], [product |-> "sugar", quantity |-> 1]>>

\* In hundredths: 1.55 at 1.55, which is 2.4025 and kept as 2.40, and one for nothing.
Priced == <<[product |-> "flour", quantity |-> 155, price |-> 155],
            [product |-> "oil", quantity |-> 100, price |-> 0]>>

\* One that is accepted, one to the same warehouse, one without lines.
MCTransfers ==
    {[from |-> "w1", to |-> w, items |-> Lines] : w \in Warehouse}
    \cup {[from |-> "w1", to |-> "w2", items |-> << >>]}

\* One that is accepted, one of a supplier that does not exist, one without lines.
MCOrders ==
    {[supplier |-> s, warehouse |-> "w1", items |-> Priced] : s \in {"s1", Nil}}
    \cup {[supplier |-> "s1", warehouse |-> "w1", items |-> << >>]}

Transfer(st) == [from |-> "w1", to |-> "w2", items |-> Lines, status |-> st]

Order(st) ==
    [supplier |-> "s1", warehouse |-> "w1", items |-> Priced, total |-> 240, status |-> st]

Left == <<[type |-> "transfer_out", ref |-> <<"transfer", 1>>, warehouse |-> "w1",
           product |-> "flour", delta |-> -2],
          [type |-> "transfer_out", ref |-> <<"transfer", 1>>, warehouse |-> "w1",
           product |-> "sugar", delta |-> -1]>>

Approved == <<<<"approve_transfer", <<"transfer", 1>>>>>>

MCWorlds ==
    {[transfers |-> << >>, orders |-> << >>, expenses |-> << >>, movements |-> << >>,
      audit |-> << >>],
     [transfers |-> <<Transfer("pending")>>, orders |-> <<Order("draft")>>,
      expenses |-> <<[amount |-> 4, status |-> "submitted"]>>, movements |-> << >>,
      audit |-> << >>],
     [transfers |-> <<Transfer("approved")>>, orders |-> <<Order("approved")>>,
      expenses |-> << >>, movements |-> << >>, audit |-> Approved],
     [transfers |-> <<Transfer("dispatched")>>, orders |-> <<Order("draft"), Order("approved")>>,
      expenses |-> << >>, movements |-> Left,
      audit |-> Append(Approved, <<"dispatch_transfer", <<"transfer", 1>>>>)]}

Interchangeable == Permutations(Session)
=============================================================================
