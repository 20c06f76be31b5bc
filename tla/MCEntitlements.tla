--------------------------- MODULE MCEntitlements ---------------------------
(***************************************************************************)
(* Instances of Entitlements: one rule of each period for the category of  *)
(* the beneficiary, from August (a quarter ends) and November (a year).    *)
(***************************************************************************)
EXTENDS Entitlements, TLC

MCWorlds ==
    {[rules |-> <<[category |-> Category, period |-> p, max |-> 2, active |-> TRUE]>>,
      month |-> m] : p \in EntitlementPeriod, m \in {7, 10}}

MCNewRules ==
    {[category |-> c, period |-> "quarterly", max |-> 1] : c \in {Category, Nil}}

MCMaxChanges == {-1, 3}

Interchangeable == Permutations(Session)
=============================================================================
