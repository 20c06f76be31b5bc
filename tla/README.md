# Ramzan Mart, specified and checked

A TLA+ development of the back end in `src/app`: a FastAPI service for welfare
marts with an async SQLAlchemy ORM over PostgreSQL. It keeps stock, sells goods,
distributes entitlements to beneficiaries, and runs the registration, card,
procurement and finance workflows around them. The modules here are read off the
code; the comments of each name the lines that matter and `PROJECT.json` maps
every definition to its source.

## How the system runs, and what is hard about it

Every HTTP request runs one handler in one `AsyncSession` (`core/database.py`),
which is one database transaction until the handler commits. There is no
background work: everything concurrent is requests racing one another, in
several workers, over the same tables. Four facts make that hard.

1. **READ COMMITTED without row locks on reads.** No query uses
   `SELECT ... FOR UPDATE`. A handler decides on what a SELECT returned and
   writes later, after other requests have committed.
2. **The ORM writes absolute values.** `stock.quantity = new_balance` and
   `usage.used_quantity += q` become `SET column = <number>`, computed in Python
   from the value that was read. Attributes equal to what was loaded are left out
   of the UPDATE.
3. **The code "PENDING".** Rows with a human-readable code are inserted under the
   constant `"PENDING"` in a unique column and renamed in the same transaction
   (`make_code` needs the id). The unique index makes a second creator of the same
   kind wait until the first has ended: by accident it is a mutex per kind, held
   from the insert to the commit.
4. **Crashes.** A worker may die, or a client disconnect, with a transaction open:
   everything uncommitted vanishes. `distribute_welfare` commits twice, and so
   does a login.

The repository contains no tests.

## Inventory

| component | state | operations | interacts with | hard behaviour | correctness |
|---|---|---|---|---|---|
| stock ledger (`stock_service`, `stock.py`) | `Stock` balances, `StockMovement` rows | `apply_movement`, adjustment, damage, expiry | called by sales, refunds, distributions, transfers, goods received | lost updates, creation races, lock order | balance = sum of movements, never negative, all lines or none |
| sales, refunds (`sale_service`, `sales.py`) | `Sale`, `SaleItem`, `Payment`, `Refund` | create, refund | shifts, stock | stale shift, double refund | a sale belongs to an open shift, refunded once |
| cashier shifts (`shifts.py`, `close_shift`) | `CashierShift` and its frozen totals | open, close | sales, distributions | check-then-insert, three snapshots | one open shift, totals exact and frozen |
| distribution (`welfare_service`, `welfare_transactions.py`) | `WelfareTransaction` and items | distribute, void | entitlements, stock, budget, cards | stale usage, two commits | usage = what was given, within the allocation |
| entitlement engine (`entitlement_service`, `entitlements.py`) | usage rows per beneficiary, rule, period | get or create, summary | distribution | creation deadlock, period boundary | one row per rule and period |
| budgets (`budgets.py`) | `used_amount` | create, update, bump | distribution | lost update, lost second commit | no distribution counted twice |
| warehouse transfers | status, items | create, approve, dispatch, receive | stock | double dispatch or receipt | what leaves arrives once |
| suppliers, purchase orders | status, items | create, approve, receive | stock, payables | double receipt | goods received once |
| applications | status, verification records | submit ... approve, reject, resubmit | beneficiaries, cards | racing decisions | only allowed transitions |
| beneficiaries | status, CNIC | create, update, suspend, reactivate | applications | CNIC check-then-insert, revival by approval | one person one row |
| cards | status, replacement link | issue, status, replace | applications, distribution | double issue or replacement | one usable card |
| documents | files, rows | upload, verify | applications | file without row | a row names a file that is there |
| expenses, supplier payments | status, amounts | submit, approve, reject, pay | reports | racing decisions | paid only when approved |
| authentication (`auth_service`, `auth.py`) | attempt counter, lock | login, refresh, change password | users | lost increments, expired lock | lock after five failures in a row, never after fewer |
| users, roles, permissions, seed script | users, roles, links | create, update, deactivate, assign, revoke, replace permissions, seed | every handler | checked once per request, links replaced from a stale SELECT | who is deactivated is out at the next request, a revoked role is gone, a role has the codes it was given |
| entitlement rules | rules | create, update | entitlement engine | changes in the middle of a period | an allocation stands once copied |
| commodities, organizations, locations, categories, products, suppliers, budgets | rows | create, update | all of the above | stale rows, references not looked for | codes are unique, updates keep each other's columns |
| audit trail | `AuditLog` | `record` | every handler | none of its own: same transaction | the rows say what the trail says |
| reports, dashboard | none | queries | shifts, orders, payments | several SELECTs at several instants | no sale is lost, no debt overstated |
| exports, schemas, migrations | none | formatting, validation, DDL | | | |

`PROJECT.json` lists the same parts with their status, and under `hazards` every
place where the code can go wrong in a way a test would hardly reach.

## Modules

* **`StockLedger`** - every request that moves stock. A request is a kind and a
  list of lines (pair, delta). *Coded* kinds (sale, distribution) check
  availability line by line and insert their "PENDING" row; the others (adjustment,
  damage, expiry, refund, transfer, goods received) go straight to
  `apply_movement`, which is three actions: `ReadStock` (SELECT), `CreateStockRow`
  or `UniqueViolation` (missing row), `WriteStock` (balance check, flush: UPDATE
  plus movement). `lock` and `dirty` are PostgreSQL's row locks and uncommitted
  versions, `pending` the unique index entry per kind, `stock` and `moved` the
  committed balance and sum of movements.
* **`AtomicLedger`** - what `stock_service` promises: a request posts all of its
  lines at once. **`StockLedgerRefines`** relates the two through the committed
  tables, and states atomicity for all requests.
* **`WelfareDistribution`** - the usage rows of one beneficiary, the distributions
  and voids that change them and the budget bump. Planning (`LoadUsage`,
  `CreateUsage`, `PlanItem`), `InsertTransaction`, `Deduct`, `CommitDistribution`,
  then the second transaction `ReadBudget`, `BumpBudget`. A void is `ArriveVoid`,
  `RestoreItem`, `FlushUsage`, `CommitVoid`. `obj` is the identity map: the usage
  objects a request holds, whose attributes a later SELECT does not refresh.
  `PeriodPasses` is a period boundary.
* **`PosShift`** - shifts of one cashier at one mart. Each handler is an arrival
  (its first SELECT and the checks on it), the insert of its "PENDING" row if it
  has one, the three sums of a close, and the commit. `clock` counts the readings
  of time that delimit shifts, so `created_at >= opened_at` is a comparison of
  small numbers. The sales summary of the finance reports runs beside them as the
  three SELECTs it is.
* **`Requests`** - what the next six modules share: a session serves one task, which
  holds the stage of its handler and what it has read (`Arrive`, `Continue`,
  `End`); `InsertPending` is the wait for the "PENDING" row of another; `Assigned`
  is the ORM leaving an unchanged attribute out of the UPDATE.
* **`Registration`** - beneficiaries, applications with their verification records,
  cards, documents. `Allowed` is `ALLOWED_TRANSITIONS`; one pair of actions,
  `ArriveDecision` and `CommitDecision`, is the seven decision endpoints, an
  approval among them activating the beneficiary. Cards change the application,
  suspension and reactivation the beneficiary, in handlers of other files.
* **`GoodsFlow`** - transfers, purchase orders, expenses, supplier payments, and the
  payables of the report and of the dashboard. `Rule` lists for every handler the
  status it requires, the one it gives and the movements it posts; `ArriveStep`
  and `CommitStep` are all of them. Movements are rows here: that they keep
  balances is `StockLedger`.
* **`Login`** - one account: right, wrong and refused logins with the lockout and
  its expiry on a `clock`, refresh, password change, status. The counter and the
  audit row are two commits. `failures` is a history: failures since the last success,
  the length of the chain of failures that came one after the other, whether one of
  them had read the row before that success, lockouts and successes.
* **`Roles`** - users, roles, permission codes and links. `ArriveBy` is
  `get_current_user` and `require_permission`, with the permission of each endpoint
  in `Needs`. Links are replaced and revoked as the rows one SELECT returned. The
  seed reads and inserts role by role beside the administrators. `history` tells
  who was given or lost what.
* **`Catalog`** - creates and updates of thirteen tables with the shape their
  routers share; `Schema` has the unique columns and the references of each table.
* **`Entitlements`** - the rules of one commodity, `get_period_key` on calendar
  months, the choice of the rule, usage rows made by distributions and by the
  summary endpoint, and changes of the rules in the middle of a period.
* `MCStockLedger`, `MCWelfareDistribution`, `MCPosShift`, `MCRegistration`,
  `MCGoodsFlow`, `MCLogin`, `MCRoles`, `MCCatalog`, `MCEntitlements` hold the
  instances.
* `StockLedgerProofs`, `WelfareDistributionProofs`, `PosShiftProofs`,
  `RegistrationProofs`, `GoodsFlowProofs` hold the theorems about the module of that
  name, `AccessProofs` those about `Login` and `Roles`, `MasterDataProofs` those about
  `Catalog` and `Entitlements`. So that one module can extend both, `Login` and
  `Entitlements` have their own names for the initial states, the steps and the
  specification (`LoginSpec`, `EntitlementsSpec`). `SumsAndSequences` has the lemmas
  that several of them need.

Components meet in rows, never in calls: `WelfareDistribution` and `PosShift` post
stock through `StockLedger`'s protocol (its payload kinds `sale` and `distribution`
are theirs, as the transfers and receipts are `GoodsFlow`'s), `Entitlements` and
`WelfareDistribution` are two views of the usage rows, one with calendar and rules,
one with locks, baskets and voids. `StockLedgerRefines` is the one refinement.

### Two requests at once

Most handlers have no defence against another request on the same row: with two at
once almost any equation between tables can be broken. A property that gave up
there would say little, one that ignored it would be false. So each model has a
history variable `raced`, the objects (or kinds of request, in `PosShift`, or just
the fact, in `WelfareDistribution`) that two requests were about at the same time,
and a property names exactly the race that can break it: `TransferConserves` speaks
of a transfer whenever no two requests had *that transfer*, whatever else runs.
Where something holds through every race, the property has no such exemption:
`AllocationInv`, `BudgetCountsOnce`, `TotalsInv`, `StatusInv`, `GoodsInv`, `LockLasts`,
`UsageInv`, `CodesInv`, `StockNeverNegative`. Two of them have two parts:
`CardNeedsApproval` says of every card that an approval is on record, and of a card of
an application no two requests were at that no decision came in between; `LockoutInv`
says of every chain of failures one after the other that it locks in time, and of
failures that all read the row after the last success that fewer do not lock.

Operators such as `WriteStockUnchecked` or `ArriveOpenUnchecked` are variants of
the definition below them with a plausible mistake; no specification uses them. They
show that each property would notice the mistake.

## Runs

| run | configuration | shows |
|---|---|---|
| `stock_ledger` | `StockLedger.cfg` | `TypeOK`, `StockNeverNegative`, `SingleFamilyExact`, `SameKindNeverDeadlocks`, `MovementsAllOrNothing`, `LedgerSpec`, `EveryRequestEnds` hold |
| `stock_drift` | `StockDrift.cfg` | `LedgerExplainsStock` fails: a movement of another kind overwrites the balance |
| `distribution` | `WelfareDistribution.cfg` | `AllocationInv` (types and `WithinAllocation`), `UsageMatchesTransactions`, `BudgetCountsOnce`, `UsageChangesWithTransaction`, `EveryRequestEnds` hold |
| `distribution_repeated` | `DistributionRepeated.cfg` | `WithinAllocation` fails when a basket names a commodity twice |
| `pos` | `PosShift.cfg` | `TotalsInv` (types and `TotalsNeverAhead`), `ShiftReconciles`, `WelfareCountedOnce`, `SummaryCoversEverySale`, `FrozenTotals` hold |
| `registration` | `Registration.cfg` | `StatusInv` (types and `RecordsExplainStatus`), `CardNeedsApproval`, `OneLiveCard`, `StatusAsAudited` hold |
| `registration_unapproved` | `RegistrationUnapproved.cfg` | `ActiveMeansApproved` fails: a pending beneficiary is suspended and reactivated |
| `goods_flow` | `GoodsFlow.cfg` | `GoodsInv` (types and `GoodsBackStatus`), `TransferConserves`, `OwedForGoodsReceived`, `PaidAfterApproval`, `PayablesNotOverstated` hold |
| `login` | `Login.cfg` | `LockoutInv` (types, `LockInTime` and `LockIsEarned`), `CounterTellsFailures`, `LockLasts`, `TokensToActiveAccounts` hold |
| `roles` | `Roles.cfg` | `AccessInv` (types and `CutOffAtNextRequest`), `RevokedMeansGone`, `ExactlyTheCodesGiven`, `SeedComplete` hold |
| `catalog` | `Catalog.cfg` | `CodesInv` (types and `CodesIdentify`), `ColumnsAsAudited` hold |
| `entitlements` | `Entitlements.cfg` | `UsageInv` (types and `UsedWithinAllocated`), `UsedIsGivenThisPeriod`, `AllocationStands` hold |

Failing runs state what a comment or message of the code says; `findings` in
`PROJECT.json` quotes it. The passing runs show how far the guarantees go all the
same. The shape of `apply_movement` never publishes a negative balance, because
what is stored is what was checked; for the same reason no usage row exceeds its
allocation while baskets name a commodity once. The "PENDING" mutex makes stock
exact for products that only one kind of request moves: a mart's stock is safe
against its own sales, not against a goods receipt or a damage report during one.
Failures that meet count as one, so the lockout that `README.md:62-63` promises after five
is one after five that come one after the other; a client with several logins in flight
at once is locked out later, and how much later has no bound but their number.

Counterexamples that are the same cause again (a decision on an unlocked read) are
not kept as runs; most are what an exemption of a property stands for, and the rest
is what a SELECT before an insert cannot exclude:

* usage lost by two distributions planned on the same row, a double void that takes
  usage below zero, and a distribution that straddles a period boundary and is
  voided in the wrong period;
* a sale committed after a close has summed; a second close that rewrites the row;
  two shifts open at once, after which every sale fails on two rows; a double refund;
* a budget that misses what was distributed: a bump lost with its worker or overwritten
  by another, which leaves it behind the value distributed, or ahead of it where the
  lost value was negative (`unit_value` has no lower bound);
* a lockout that comes after more than five failures, because concurrent ones lose
  increments, and one that comes early, because a login that had read the row before a
  success writes the older count back;
* the issue of a card moves its application to CARD_ISSUED and writes no
  VerificationRecord (`cards.py:69`), where the repository's `README.md:83-86` has every
  transition write one; a card of an application whose rejection, validated beside its
  approval, commits between the check and the card;
* two cards for one application, two replacements of one card, a replaced card set
  active again by hand; two beneficiaries with one CNIC;
* a stale approval that puts a received purchase order back, so that it can be
  received again; a transfer dispatched twice;
* the seed giving back permissions an administrator has taken from a default role,
  which its docstring ("skips anything that already exists") leaves open; two
  accounts that take each other's user name and e-mail;
* two entitlement rules without a category for one commodity, after which every
  create for the scope fails on two rows.

### Bounds

Every model bounds the requests that begin (`MaxRequests`) and lets sessions be
reused. Deadlock checking is off because a behaviour ends when those are served.
Races of this code are pairwise, a read of one against a commit of another; a third
session adds a bystander, or a race of three on one row. To reach late stages with
few requests the models with long workflows start from several *worlds*, each a
state the program reaches.

| model | sessions | requests | instance |
|---|---|---|---|
| stock | 3 | 3 | three pairs, one only sold, two shared by three kinds in opposite lock orders; payloads of up to three lines, a pair named twice; stock full, partly missing and low |
| distribution | 2 | 3 | a monthly and a one-time rule in both orders, quantities that exhaust the allocation, values that round up, are negative and are nothing, one period boundary |
| point of sale | 3 | 5 | a cash and a card amount that differ; open, sale or distribution, refund, close and a second shift |
| registration | 3 | 4 | two CNICs, six worlds from nobody to a card |
| goods and money | 3 | 4 | two suppliers, two warehouses, three products, documents of two lines, a price times a quantity that rounds, four worlds from new to on the way |
| login | 3 | 4 | two passwords, lock after two failures for two ticks of a clock of four instants: a lock can be set, expire, and be set again |
| roles | 2 | 3 | six identifiers of which two accounts share one, two default roles and a third, an empty and a running database |
| catalog | 3 | 3 | thirteen tables, each with a row, new and taken codes, references that exist and do not |
| entitlements | 2 | 4 | each of the four periods from August and from November, two months passing: a month, quarter and year boundary are crossed |

Sessions (and passwords) are interchangeable and declared symmetric where only
safety is checked.

### Fairness

`FairSpec` of `StockLedger` and `WelfareDistribution` is weak fairness of
`Progress(s)` for every session: the event loop resumes a handler whose database
call has returned, PostgreSQL grants a lock that is free and detects deadlocks.
Nothing is assumed of arrivals, disconnections or the calendar. These are the two
models in which requests wait for each other's locks in different orders; in the
others a request waits at most for one "PENDING" row whose holder waits for nobody,
and only safety is checked.

## Proofs

The runs check small instances. The theorems below hold for any number of sessions
and requests, any payloads, and any initial tables that the assumptions named in the
modules allow; TLC evaluates those assumptions in the runs. The assumptions give the
types of payloads, and say of the tables a behaviour starts from what the invariants
say of every later state: empty tables satisfy them, and so does every state the
program reaches; of `GoodsFlow`, where the equations between documents and movements
are lost to a race on one document, every state reached without one. Each theorem is
proved from an inductive invariant, checked on an instance first.

**`StockLedgerProofs`**

* `TypeCorrect`, `NeverNegative`. `SafeInv` adds to the types that every uncommitted
  quantity is non-negative and that a locked row has one, so a commit publishes only
  checked values; the value read need not be current.
* `SingleFamilyLedger`. Drift is excluded by the "PENDING" mutex, and `ExactInv` says
  how: a request past its insert holds the entry of its kind (`CodeHeld`), so there is
  one such request per kind; a row lock of a single-family pair belongs to a request
  of that family (`FamilyLocks`); a row being created does not exist yet (`CreateOK`);
  what the holder has written is the committed balance plus its own flushed movements
  (`BooksOK`), and what it has read is that value (`ReadOK`).
* `OneKindNeverDeadlocks`, from `CodeHeld`.
* `WholePayloads` (`MovementsAllOrNothing`). `MovesOK`: what a request has flushed on a
  pair is the sum of the lines it has gone through, by the sum lemmas, so at its
  commit it is the sum of all.
* `ImplementsLedger`: `StockLedger` implements `AtomicLedger`. Under the refinement
  mapping a commit is one posting and every other step a stutter; that the posting
  leaves balances non-negative and equal to the movements is `LedgerInv`.

**`WelfareDistributionProofs`**

* `UsageOnRecord` (`UsageChangesWithTransaction`), from `StateInv`: where a handler
  stands, which rows it can hold there (`LockOK`), and which it has loaded (`LoadedOK`).
* `UsageWithinAllocation` (`AllocationInv`), for baskets that name a commodity once
  (`Once`). What is committed, about to be, or loaded is within the allocation, and
  there is room for the item in the object that was loaded (`PlanOK`, `Fits`). The
  hypothesis is needed: the run `distribution_repeated` violates the property without.
* `BudgetCountsEachOnce` (`BudgetCountsOnce`), for values of either sign. A budget that
  has been read may be written back by any session between its two commits, in any
  order, so `BudgetOK` keeps a set of transactions for the budget and one for every
  value read: each such value is what its set is worth, up to a hundredth of rounding
  for each, and the transaction of a session that has still to bump is in none of them.
* `UsageAddsUp` (`UsageMatchesTransactions`), without `Once`. `AccountInv` follows the
  lines of a basket through plan, deduction and void: a held row is what it was plus
  the sum of the lines gone through, and the sums over all the lines of the standing
  transactions move with a commit.

**`PosShiftProofs`**

* `ClosedRowsAreFrozen` (`FrozenTotals`), from `ShiftInv`: closes that never met are of
  open shifts, and there is one of them (`ClosesApart`).
* `NoDistributionTwice` (`WelfareCountedOnce`), from `WindowInv`: shifts are ordered in
  time, each was closed before the next was opened (`WindowsApart`), and times already
  read are past (`Timed`).
* `TotalsLagBehind` (`TotalsInv`), `ShiftsReconcile` (`ShiftReconciles`), `NoSaleLost`
  (`SummaryCoversEverySale`), all from `FiguresInv`. It says of every request what it
  has read (`ReadIn`), and what is right about that (`Right`): sums that can only have
  grown since, and equations that hold until a request of another kind is met on the
  way; of every shift what is right about its row (`RowsRight`); and that requests in
  flight have met (`MetRight`). The sums are of tables given as parameters, so one
  lemma per kind of commit (`Sold`, `GivenBack`, `Distributed`, `Opened`,
  `ClosedShift`) compares the two ends of the step for all requests at once.

**`RegistrationProofs`**

* `StatusesOnRecord` (`StatusInv`). In `RegistryInv` a task names rows there are, with
  the decision it is about; decisions on record stay, so a card keeps the approval it
  was issued on (`CardsOnRecord`).
* `CardsFollowApproval` (`CardNeedsApproval`), `CardInForce` (`OneLiveCard`),
  `TrailTellsStatus` (`StatusAsAudited`). `AuditedInv` adds that two requests at work on an object have met (`RacedOK`), that what was read
  of an object nobody else was at still holds (`FreshOK`), and that the trail names
  rows there are (`AuditOK`).

**`AccessProofs`**

* `LockoutStands` (`LockLasts`), from `LockInv`: a login about to clear a lockout had
  verified its password before that lockout was set.
* `CounterIsFailures`, `TokensFollowStatus`, from `AccountInv`: requests that never met
  come one at a time, and the last audit rows tell the status.
* `LockoutInTime` (`LockoutInv`), for any number of sessions, any threshold and any
  lockout time. `InTime` compares the history with what a failed login has read
  (`ReadBefore`): nothing written since means the counter it adds to is the one there
  is, so a chain of failures is never longer than the counter; read since the last
  success, the counter is at most the failures since then, so none of them locks early.
* `CutOffStands`, `RevocationsStand`, `RolesKeepTheirCodes` (`AccessInv`,
  `RevokedMeansGone`, `ExactlyTheCodesGiven`), from `RolesInv` and `TrailInv`: what a
  request or a seed has read of a user or a role nobody else was at still holds, and
  the last entry of the history about it tells its state.
* `SeedsAreComplete` (`SeedComplete`): no role is left out by the step that commits a
  seed, from any tables.

**`GoodsFlowProofs`**

* `StatusesHaveGoods` (`GoodsInv`), from `FlowInv`: besides the types and the goods
  behind the statuses, documents, movements and audit rows refer to rows there are
  (`RefsOK`), rows are as the handlers write them (`RowsOK`), and a request in flight
  has what its commit relies on (`TasksOK`): a receipt of a transfer has its movements
  out, a payment of an expense its approval on the trail. Neither is ever taken back,
  so this holds through every race.
* The other properties exempt documents that two requests had at once. `FreshInv` is
  what being exempt means: two requests at one document are on record in `raced`
  (`RacedOK`), and a request alone at its document still finds the status it found
  when it arrived (`Fresh`).
* `TransfersConserve` (`TransferConserves`), `OrdersOwedForGoods`
  (`OwedForGoodsReceived`: one movement in per line, of its product, quantity and
  warehouse). Every step is one of a few effects on the tables (`Effect`):
  a document is added, or one is moved to a status and a block of movements, one per
  line, goes to the end of the ledger (`Books`). The net of a warehouse and product
  changes by the sum over the block (`NetBooked`, `NetTaken`, `NetPut`), which is the
  sum over the lines that name the product; nets of other documents, and of warehouses
  the block is not about, stay (`NetSame`, `NetElsewhere`).
* `ExpensesPaidAfterApproval` (`PaidAfterApproval`), from `DecidedInv`: how often an
  expense is paid or rejected on the trail grows with the commits of its own handlers
  only, and one that is undecided has not been rejected.
* `PayablesNeverOverstated` (`PayablesNotOverstated`), from `ReportsInv`: what a report
  has read as received from a supplier has been received since (`ReceivedGrows`), as
  only a race takes an order out of `RECEIVED`; what it subtracts is what was paid at
  its second SELECT.

**`MasterDataProofs`**

* Of `Catalog`: `CodesAreUnique` (`CodesInv`), from `CatalogInv`: every row obeys the
  constraints of its table, and the audit rows and the requests at work are together no more than the
  requests begun.
* `AuditExplainsColumns` (`ColumnsAsAudited`), from `AuditedInv`: a column nobody else
  was changing is still as it was loaded.
* Of `Entitlements`: `WithinAllocated` (`UsageInv`), `AllocationsStand`
  (`AllocationStands`), from `EngineInv`: a summary holds only new and unused rows, a
  distribution a row that was allocated as the table says.
* `UsageIsExact` (`UsedIsGivenThisPeriod`), from `ExactInv` and the lemma
  `KeysFollowCalendar`: two months have the same period key exactly when they lie in
  one month, quarter or year, or the entitlement is given once.

**`SumsAndSequences`**: sequences of any elements, induction over finite sets through a
smallest counterexample, and from it the existence and uniqueness of the recursion a
sum over a set is defined by; then sums of unions, of images, of opposites, and with
elements more or less.

Proofs use SMT, Zenon and PTL.

Only model-checked is `EveryRequestEnds` of `StockLedger` and of
`WelfareDistribution`: fairness and ENABLED are beyond the prover. Every other property
of a passing run is stated by a theorem, `AllocationInv` for baskets that name a
commodity once.

## What the models leave out

* Column widths and decimals of a payload beyond hundredths (quantities, prices and
  unit values are whole hundredths below the bound of their column; products of two of
  them are rounded where the code stores them), prices of sales, discounts, change, response bodies, pagination, names,
  phones and addresses, and whatever else no decision reads.
* Several marts, several beneficiaries (their usage rows are disjoint; they meet only
  in the "PENDING" row and in stock), and the choice among several active budgets.
* The order in which the ORM flushes the rows of a void (any order is allowed), and,
  in the modules over `Requests`, the row locks between an UPDATE and its commit.
* In `Roles`, that `get_current_user` and the SELECTs of the handler it admits, or
  `_get_role` and the SELECT of `_sync_permissions`, are more than one instant; the lock
  of an account, which is `Login`'s; in `PosShift`, the net sales of a summary, the
  difference of two figures it has; in `Catalog`, a second reference of a row.
* Refusals for a reason another module models (card, beneficiary or stock checks of a
  distribution, permissions outside `Roles`) are a nondeterministic end of the request.
* Libraries: password hashing, JWT encoding and expiry, file contents.

### Not modelled

* `exports.py`, `export_service.py`: they format rows as CSV, XLSX and PDF.
* The aggregating reports other than the sales summary and the payables: one SELECT
  each, nothing to interleave with.
* `main.py`, `core/config.py` and the migration: configuration, router assembly and
  generated DDL. The constraints of the tables are modelled from the ORM models.
* The seed's sample organization, marts and commodities, inserted once beside the
  administrator and referred to by nothing else.

## Plan

1. *Done*: `StockLedger` with its refinement, `WelfareDistribution`, `PosShift`,
   `Registration`, `GoodsFlow`, `Login`, `Roles`, `Catalog`, `Entitlements`, and
   theorems about all of them.
2. How late a lockout may come, as a function of the logins in flight at once.
3. `Rounding`: balance and movements of `Numeric(12, 2)` under more decimals.
4. Composition of sales, refunds and stock: a refund returns goods to the warehouse
   of the day, a void restores usage and no stock.
