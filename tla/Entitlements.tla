---------------------------- MODULE Entitlements ----------------------------
(***************************************************************************)
(* The entitlement rules for one commodity under one program, the calendar *)
(* that starts their periods anew, and the usage rows of one beneficiary,  *)
(* which distributions use and the summary endpoint creates as well.       *)
(*                                                                         *)
(* WelfareDistribution has the row locks, the baskets and the voids; here  *)
(* a distribution is one quantity of the commodity.                        *)
(***************************************************************************)
EXTENDS Requests, Integers, Sequences

CONSTANTS
    Category,   \* of the beneficiary
    Worlds,     \* [rules, month] to start from
    NewRules,   \* rules that are created: [category, period, max]
    MaxChanges, \* new values of max_quantity
    Quantities, \* asked for by distributions
    MaxMonths   \* bound: months that pass

EntitlementPeriod == {"monthly", "quarterly", "yearly", "one_time"}

EntitlementRule ==
    [category : {Category, Nil}, period : EntitlementPeriod, max : Int, active : BOOLEAN]

BeneficiaryEntitlementUsage == [allocated : Int, used : Nat]

\* max_quantity is any number, the quantity of a distribution a positive one
\* (schemas/welfare.py:47, 52, 147).
ASSUME PayloadsAssumption ==
    /\ NewRules \subseteq [category : {Category, Nil}, period : EntitlementPeriod, max : Int]
    /\ MaxChanges \subseteq Int
    /\ Quantities \subseteq Nat \ {0}

ASSUME WorldsAssumption ==
    /\ \A w \in Worlds : w.rules \in Seq(EntitlementRule) /\ w.month \in Nat
    /\ MaxMonths \in Nat

VARIABLES
    rules,   \* sequence of rows
    usage,   \* <<rule, period key>> -> row, for the rows there are
    month,   \* months since January of the first year
    passed,  \* months passed
    given    \* history: <<rule, first month of a calendar period>> -> quantity

tables == <<rules, usage, given>>
entitlementVars == <<tables, month, passed, requests>>

EntitlementsInit ==
    /\ \E w \in Worlds : rules = w.rules /\ month = w.month
    /\ usage = << >>
    /\ passed = 0
    /\ given = << >>
    /\ InitRequests

-----------------------------------------------------------------------------
\* entitlement_service

\* Quarters that start with their last month.
get_period_key_late(period, m) ==
    LET year == m \div 12
        mon == (m % 12) + 1
    IN CASE period = "monthly"   -> <<year, mon>>
         [] period = "quarterly" -> <<year, "Q", mon \div 3 + 1>>
         [] period = "yearly"    -> <<year>>
         [] OTHER                -> <<"ONE_TIME">>

\* The first month of the calendar period of month m, by arithmetic.
PeriodStart(period, m) ==
    CASE period = "monthly"   -> m
      [] period = "quarterly" -> m - (m % 3)
      [] period = "yearly"    -> m - (m % 12)
      [] OTHER                -> 0

get_period_key(period, m) ==
    LET year == m \div 12
        mon == (m % 12) + 1
    IN CASE period = "monthly"   -> <<year, mon>>
         [] period = "quarterly" -> <<year, "Q", (mon - 1) \div 3 + 1>>
         [] period = "yearly"    -> <<year>>
         [] OTHER                -> <<"ONE_TIME">>

\* Rows written over those of a table.
Put(new, old) ==
    [u \in DOMAIN new \cup DOMAIN old |-> IF u \in DOMAIN new THEN new[u] ELSE old[u]]

UsageRow(r, m) == <<r, get_period_key(rules[r].period, m)>>

\* Active rules of the category, and those of no category.
get_applicable_rules ==
    {r \in DOMAIN rules : rules[r].active /\ rules[r].category \in {Category, Nil}}

\* get_or_create_usage: the row that is there, or the one to be inserted.
FoundOrNew(r, m) ==
    LET u == UsageRow(r, m) IN
    IF u \in DOMAIN usage THEN usage[u] ELSE [allocated |-> rules[r].max, used |-> 0]

\* uq_beneficiary_rule_period refuses the rows another request has inserted since.
Inserted(t) == (t.usage \ t.found) \cap DOMAIN usage # {}

-----------------------------------------------------------------------------
\* get_entitlement_summary, a GET that creates the rows it finds missing.

ArriveSummary(s) ==
    /\ LET us == {UsageRow(r, month) : r \in get_applicable_rules} IN
       Arrive(s, [op |-> "summary", at |-> "commit", on |-> {}, usage |-> us,
                  found |-> us \cap DOMAIN usage,
                  rows |-> [u \in us |-> FoundOrNew(u[1], month)]])
    /\ UNCHANGED <<tables, month, passed>>

CommitSummary(s) ==
    /\ At(s, "summary", "commit")
    /\ ~Inserted(task[s])
    /\ usage' = Put(usage, task[s].rows)
    /\ End(s)
    /\ UNCHANGED <<rules, given, month, passed>>

-----------------------------------------------------------------------------
\* create_welfare_transaction, for the one commodity.

\* A distribution that compares with the rule instead of the row.
ArriveDistributionByRule(s, r, qty) ==
    /\ r \in get_applicable_rules
    /\ LET row == FoundOrNew(r, month)
           u == UsageRow(r, month)
       IN /\ qty <= rules[r].max - row.used
          /\ Arrive(s, [op |-> "distribute", at |-> "commit", on |-> {<<"usage", u>>},
                        rule |-> r, qty |-> qty, month |-> month, usage |-> {u},
                        found |-> {u} \cap DOMAIN usage, row |-> row])
    /\ UNCHANGED <<tables, month, passed>>

\* Of several rules for the commodity the last of an unordered SELECT is taken.
ArriveDistribution(s, r, qty) ==
    /\ r \in get_applicable_rules
    /\ LET row == FoundOrNew(r, month)
           u == UsageRow(r, month)
       IN /\ qty <= row.allocated - row.used
          /\ Arrive(s, [op |-> "distribute", at |-> "commit", on |-> {<<"usage", u>>},
                        rule |-> r, qty |-> qty, month |-> month, usage |-> {u},
                        found |-> {u} \cap DOMAIN usage, row |-> row])
    /\ UNCHANGED <<tables, month, passed>>

\* A calendar period of a rule, and what has been given in the one of month m.
Period(r, m) == <<r, PeriodStart(rules[r].period, m)>>

Given(r, m) == IF Period(r, m) \in DOMAIN given THEN given[Period(r, m)] ELSE 0

\* used_quantity of the object that was loaded, plus the quantity.
CommitDistribution(s) ==
    /\ At(s, "distribute", "commit")
    /\ ~Inserted(task[s])
    /\ LET t == task[s] IN
       /\ usage' = Put([u \in t.usage |-> [t.row EXCEPT !.used = @ + t.qty]], usage)
       /\ given' = Put([c \in {Period(t.rule, t.month)} |-> Given(t.rule, t.month) + t.qty], given)
    /\ End(s)
    /\ UNCHANGED <<rules, month, passed>>

\* The session that lost the race for a usage row answers 500.
UsageTaken(s) ==
    /\ At(s, "summary", "commit") \/ At(s, "distribute", "commit")
    /\ Inserted(task[s])
    /\ End(s)
    /\ UNCHANGED <<tables, month, passed>>

-----------------------------------------------------------------------------
\* Rules (commodities.py)

OfScope(category) == {r \in DOMAIN rules : rules[r].category = category}

\* create_entitlement_rule: none of this scope yet, active or not.
ArriveCreateRule(s, rule) ==
    /\ OfScope(rule.category) = {}
    /\ Arrive(s, [op |-> "create_rule", at |-> "commit", on |-> {}, rule |-> rule])
    /\ UNCHANGED <<tables, month, passed>>

\* uq_entitlement_rule_scope does not compare rules without a category.
CommitCreateRule(s) ==
    /\ At(s, "create_rule", "commit")
    /\ LET rule == task[s].rule
           taken == rule.category # Nil /\ OfScope(rule.category) # {}
       IN rules' = IF taken THEN rules ELSE Append(rules,
                 [category |-> rule.category, period |-> rule.period, max |-> rule.max,
                  active |-> TRUE])
    /\ End(s)
    /\ UNCHANGED <<usage, given, month, passed>>

\* update_entitlement_rule; the period cannot be changed.
ArriveUpdateRule(s, r, column, value) ==
    /\ Arrive(s, [op |-> "update_rule", at |-> "commit", on |-> {}, rule |-> r, column |-> column,
                  loaded |-> rules[r][column], value |-> value])
    /\ UNCHANGED <<tables, month, passed>>

\* An update that renews the usage rows of the rule.
CommitUpdateRuleRenewing(s) ==
    /\ At(s, "update_rule", "commit")
    /\ LET t == task[s] IN
       /\ rules' = [rules EXCEPT ![t.rule][t.column] = t.value]
       /\ usage' = [u \in {v \in DOMAIN usage : v[1] # t.rule} |-> usage[u]]
    /\ End(s)
    /\ UNCHANGED <<given, month, passed>>

CommitUpdateRule(s) ==
    /\ At(s, "update_rule", "commit")
    /\ LET t == task[s] IN
       rules' = [rules EXCEPT ![t.rule][t.column] = Assigned(t.loaded, t.value, @)]
    /\ End(s)
    /\ UNCHANGED <<usage, given, month, passed>>

-----------------------------------------------------------------------------

MonthPasses ==
    /\ passed < MaxMonths
    /\ passed' = passed + 1
    /\ month' = month + 1
    /\ UNCHANGED <<tables, requests>>

ConnectionLost(s) == ~Idle(s) /\ End(s) /\ UNCHANGED <<tables, month, passed>>

EntitlementsNext ==
    \/ MonthPasses
    \/ \E s \in Session :
          \/ ArriveSummary(s) \/ CommitSummary(s) \/ UsageTaken(s)
          \/ \E r \in DOMAIN rules, qty \in Quantities : ArriveDistribution(s, r, qty)
          \/ CommitDistribution(s)
          \/ \E rule \in NewRules : ArriveCreateRule(s, rule)
          \/ CommitCreateRule(s)
          \/ \E r \in DOMAIN rules : \/ \E max \in MaxChanges : ArriveUpdateRule(s, r, "max", max)
                                     \/ \E b \in BOOLEAN : ArriveUpdateRule(s, r, "active", b)
          \/ CommitUpdateRule(s)
          \/ ConnectionLost(s)

EntitlementsSpec == EntitlementsInit /\ [][EntitlementsNext]_entitlementVars

-----------------------------------------------------------------------------

UsageTypeOK ==
    /\ rules \in Seq(EntitlementRule)
    /\ \A u \in DOMAIN usage : u[1] \in DOMAIN rules /\ usage[u] \in BeneficiaryEntitlementUsage
    /\ \A c \in DOMAIN given : c[1] \in DOMAIN rules /\ given[c] \in Nat
    /\ begun \in 0..MaxRequests /\ passed \in 0..MaxMonths

\* What the row that month m leads to says is used; nothing when there is no row.
Used(r, m) == IF UsageRow(r, m) \in DOMAIN usage THEN usage[UsageRow(r, m)].used ELSE 0

\* entitlement_service.py:5 "always be able to answer ALLOCATED / USED / REMAINING":
\* the row a date leads to says exactly what was given in that date's calendar
\* period, whatever summaries, months and changes of rules come in between, unless
\* two distributions were at the row at once.
UsedIsGivenThisPeriod ==
    \A r \in DOMAIN rules, m \in 0..month :
        <<"usage", UsageRow(r, m)>> \notin raced => Used(r, m) = Given(r, m)

\* welfare_service.py:117: no row that was used is used beyond what it was allocated
\* when the period was first touched, also by requests at once, and after the rule
\* has changed.
UsedWithinAllocated ==
    \A u \in DOMAIN usage : usage[u].used > 0 => usage[u].used <= usage[u].allocated

\* Usage rows of rules there are, used within what they allocate (models/welfare.py).
UsageInv == UsageTypeOK /\ UsedWithinAllocated

\* entitlement_service.py:52 "creating it ... if this is the first time it's been
\* touched": what was allocated for a period stands, whatever happens to the rule.
AllocationStands ==
    [][\A u \in DOMAIN usage :
          u \in DOMAIN usage' /\ usage'[u].allocated = usage[u].allocated]_entitlementVars
=============================================================================
