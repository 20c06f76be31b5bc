--------------------------- MODULE MCStockLedger ---------------------------
(***************************************************************************)
(* Instances of StockLedger: product a is only sold, b and c are also      *)
(* distributed, moved between warehouses and adjusted.                     *)
(***************************************************************************)
EXTENDS StockLedgerRefines

CONSTANTS a, b, c

L(k, d) == [key |-> k, delta |-> d]
Req(q, ls) == [kind |-> q, lines |-> ls]

MCKey == {a, b, c}

\* Sales that lock a and b in opposite orders, one that lists a product twice;
\* a distribution and a movement that lock b and c in opposite orders; an
\* adjustment of zero.
MCPayloads == {Req("sale", <<L(a, -1), L(b, -1)>>),
               Req("sale", <<L(b, -1), L(a, -1), L(a, -1)>>),
               Req("welfare", <<L(c, -1), L(b, -1)>>),
               Req("movement", <<L(b, 1), L(c, 1)>>),
               Req("movement", <<L(b, 0)>>)}

\* From no row at all to a shelf for each product.
MCInitialStock == {[k \in MCKey |-> 2],
                   [k \in MCKey |-> IF k = a THEN 2 ELSE Nil]}
=============================================================================
