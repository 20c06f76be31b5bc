----------------------- MODULE MCWelfareDistribution -----------------------
(***************************************************************************)
(* Instances of WelfareDistribution: flour every month, a kit once.        *)
(***************************************************************************)
EXTENDS WelfareDistribution

MCRule == {"flour", "kit"}
MCOneTime == {"kit"}
MCAlloc == [r \in MCRule |-> 2]

I(r, q) == [rule |-> r, qty |-> q]
Basket(its, v) == [items |-> its, value |-> v]

\* Each commodity at most once, in both orders: one basket is worth half a
\* hundredth more than two, one takes a hundredth and a half from the budget, and
\* one is not priced.
DistinctBaskets == {Basket(<<I("flour", 1), I("kit", 1)>>, 250),
                    Basket(<<I("kit", 1), I("flour", 2)>>, -150),
                    Basket(<<I("kit", 1)>>, 0)}

\* A basket that lists flour twice.
RepeatingBaskets == {Basket(<<I("flour", 2), I("flour", 2)>>, 100)}
=============================================================================
