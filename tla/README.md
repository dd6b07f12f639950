# Verification of the Zoom CRM backend

The backend (`src/backend`, NestJS over Prisma and PostgreSQL) keeps the money of
orders, the cash of the registers, what the company owes and the approvals that let
people touch any of them; and the work of the shop, its supplies and its numbers.
This directory models that core in TLA+, model-checks it with TLC on small
instances, and proves the most important parts with TLAPS for every instance.

Contents: 1 the system, 2 the modules and the code, 3 the runs, 4 the proofs,
5 what the code does that its documents deny, 6 what is left out, 7 the plan.

## 1. The system

Every operation is an HTTP request, a WhatsApp callback or the nightly expiry
sweep, and all of them run concurrently on one PostgreSQL database at READ
COMMITTED. Nothing else is shared: components interact by calling each other's
services, and through the rows.

| Component | State | Operations | What makes it correct |
|---|---|---|---|
| order balance (`common/utils/order-balance.util.ts`, `order-lock.util.ts`) | money columns of `orders` | eleven writers, all through `lockOrderForUpdate` | the stored balance follows from the other columns; no write is lost |
| payments of orders (`modules/orders`) | `payments` | addPayment, updatePayment, voidPayment, update, recalculateOrderTotals, annulOrder | paid = live payments - refunds; one payment per click |
| credit balance (`modules/credit-balance`) | `credit_balance_applications`, `orders.applied_credit_amount` | apply, release, resync | credit is spent once and given back when its payment goes |
| cash sessions (`modules/cash-session`) | `cash_sessions`, the queue `payments.pending_cash_entry` | open (and flush the queue), close | one open session per register; every payment that moves money is in a session or queued, once |
| cash movements (`modules/cash-movement`) | `cash_movements` | create, void with a reversal | movement and payment agree; a closed session stays as it was signed |
| void requests (`modules/cash-movement-void-requests`) | `cash_movement_void_requests` | create, approve, reject | approved means voided |
| order status (`orders.service.ts`, `order-status-transitions.ts`) | `orders.status` | updateStatus, annul, refund, update | the flow table; ANULADO and RETURNED are terminal |
| status change requests (`modules/order-status-change-requests`) | `order_status_change_requests` | create, approve and reject (web, WhatsApp), expire, consume, close | sensitive changes need an approval, which serves once |
| refunds (`modules/refund-requests`) | `refund_requests`, `refund_request_items` | create, approve, approveAndApply, reject, expire, execute | money leaves once, only spare money, items never over-annulled |
| accounts payable (`modules/accounts-payable*`) | `accounts_payable`, `..._payments`, payment and reversal requests | register, request and complete a payment; delete or reverse one; update, cancel, authorise, mark overdue | the account says what its live payments say; money out has a payment; a reversal voids its movement |
| expense orders (`modules/expense-order*`) | `expense_orders`, signature and edit requests, the account that mirrors the order | create, sign, send back, pay (Caja), edit, edit once paid, remove | money leaves once per signature; the mirror follows the order and counts its money |
| production (`modules/production`) | `production_orders`, components and steps; templates | create from a template, fill, complete, open phases, end | nothing is done before what its template puts first; no phase is left closed |
| work orders (`modules/work-orders`) | `work_orders` and their supplies | create with a number, advance, complete, add supplies, delete | one active per order; supplies leave once, all of them |
| inventory (`modules/inventory`) | `supplies.current_stock`, `inventory_movements` | exit of a completion, movement by hand | the kardex accounts for the stock |
| consecutive numbers (`modules/consecutives`) | `consecutives` | generate, synchronise with the table | a number is issued once, and free |
| payroll deductions, discount and payment-edit approvals, order edit requests, general closings, quotes, DTF, CRM catalogues, auth, notifications, storage, web application | their own tables | see `PROJECT.json` | not modelled, section 6 |

What is hard about it: nearly every operation reads, awaits, and writes by id.
Some of them repeat the decisive check inside the transaction, under a lock or
through the `WHERE` of the update or a unique index; some do not. Unit tests
mock Prisma, so no test ever interleaves two requests. The hazards listed in
`PROJECT.json` are, one by one, the places where this bites.

## 2. The modules and the code

| Module | Models |
|---|---|
| `OrderMoney` | the pure arithmetic of `order-balance.util.ts` |
| `SumTheorems` | what the proofs need of sums of amounts over finite sets |
| `OrderLedger` | every writer of an order's money as a transaction with its reads, row locks, writes and commit |
| `OrderLedgerProps`, `MCOrderLedger`, `OrderLedgerProofs` | its properties, instances, proofs |
| `CashDrawer`, `CashDrawerProps`, `CashDrawerProofs`, `MCCashDrawer` | sessions, movements, the cash side of payments, void requests |
| `StatusTable`, `StatusFlow` | the transition tables; the abstract specification of an order's status |
| `OrderStatus`, `OrderStatusProps`, `OrderStatusProofs`, `MCOrderStatus` | `updateStatus` and its approvals, statement by statement; `StatusFlow` as a property through `INSTANCE` |
| `RefundRequests`, `RefundRequestsProps`, `RefundRequestsProofs`, `MCRefundRequests` | the life of a refund against an order that moves |
| `Payables`, `PayablesProps`, `MCPayables` | one account payable, its payments, their requests and reversals |
| `ExpenseOrders` (extends `Payables`), `ExpenseOrdersProps`, `ExpenseOrdersProofs`, `MCExpenseOrders` | an expense order composed with the account that mirrors it; the proofs are of the account alone, then of both |
| `SignedPayout`, `ExpenseLife` | abstract: money leaves once per signature; the life the form describes |
| `ProductionOrders`, `ProductionOrdersProps`, `ProductionOrdersProofs`, `MCProductionOrders` | a production order and the operators who work on it |
| `ProductionPipeline` | abstract: nothing before what comes first, the end after everything |
| `WorkOrders`, `WorkOrdersProps`, `WorkOrdersProofs`, `MCWorkOrders` | work orders, the stock with its kardex, the sequence of numbers |

Four properties are refinements, `INSTANCE ... WITH` a mapping: `FollowsFlow`
(`OrderStatus` to `StatusFlow`), `PaysWhatIsSigned` and `LivesAsDescribed`
(`ExpenseOrders` to `SignedPayout` and `ExpenseLife`), `FollowsPipeline`
(`ProductionOrders` to `ProductionPipeline`). `ExpenseOrders` is the composition:
it EXTENDS `Payables`, shares its rows and its processes, and its steps and the
account's interleave.

`PROJECT.json`, `map`, gives the source lines of every definition. Operators
marked *Mutant* are plausible bugs of the code: replacing the definition they mutate
must break a property, one for each property of each run (`PROJECT.json`, `mutants`).
They are never part of `Next`.

### OrderLedger

A request `p` is idle, or has made its pre-read (a `Start...` action: the reads
and guards the code runs outside the transaction) and is somewhere inside its one
transaction (`pc[p]`). Its uncommitted writes are `wo[p]` (order rows) and `wp[p]`
(the payment row); `OrderSeen` and `PaymentSeen` are what READ COMMITTED shows it:
its own writes over what is committed. `olock` and `plock` are the row locks of
`SELECT ... FOR UPDATE` and of updates, `oshare` the `FOR KEY SHARE` an insert
takes on the order its foreign key names; these conflict with `FOR UPDATE`, which is what
makes a credit payment's locks cross. `Commit` publishes the writes and drops the
locks at once; `Abort` drops both, and stands for a failed check, a deadlock
victim, Prisma's transaction timeout and a dead process alike.

| Code | Actions |
|---|---|
| `addPayment`, `createMovement` on an order | `StartAddPayment`/`StartCreateMovement`, `LockOwnOrder`, `InsertPayment`, [`PlanCredit`, `InsertApplication`, `TakeSource`, `Taken`], `CommitPayment` |
| `updatePayment` | `StartUpdatePayment`, `EditPaymentRow`, `ReleaseSource`\*, `Released`, [credit as above], `LockOwnOrder`, `CommitEdit` |
| `voidPayment`, `voidPaymentAndRecalculate` | `StartVoidPayment`, `VoidPaymentRow`, `ReleaseSource`\*, `Released`, `LockOwnOrder`, `CommitEdit` |
| `RefundRequestsService.execute` | `StartExecuteRefund`, `LockOwnOrder`, `CommitRefund` |
| `updateStatus` to ANULADO | `StartAnnulOrder`, `LockOwnOrder`, `CommitAnnul` |
| `recalculateOrderTotals` | `StartRecalculate`, `LockOwnOrder`, `CommitTotals` |
| `update` (the status it writes) | `StartUpdateOrder`, `LockOwnOrder`, `CommitStatus` |

Abstractions: money is in whole pesos (`Prisma.Decimal` is exact, so nothing
rounds); a new total is any member of `Totals` instead of the sum of items, rates
and discounts; CONFIRMED stands for all live statuses that take payments; the methods
are CASH and CREDIT_BALANCE, the only ones the ledger tells apart. `createMovement`
takes either, as its DTO does, and applies no credit: a payment with credit balance
written that way has no application behind it, and `linked` marks it until
`updatePayment` edits it. The promises about credit are of the other payments
(section 5, `EveryCreditBacked`). Payments pending
the approval of an advance count as none. `update` writes its
status and then its totals in one transaction, whose first statement locks the row;
here they are two requests, `updateOrder` and `recalculateOrderTotals`, so every
behaviour of the code is a behaviour of the model, and the model has more.

### CashDrawer

A request reads (`Start...`, `ReadMovement`, `SumSession`) and writes in one
transaction (`Commit...`). Where a transaction writes what it read inside itself,
the read is a step of its own: `LockEdit` (the active session, after `payment.update`
locked the payment) and `InsertSession` (the queue `flushInto` reads, under the unique index on
open sessions, which makes a concurrent opening wait, `Opening`, or fail). Expenses,
refunds and payables enter the drawer as `createMovement`: they too read the active
session first. CREDIT stands for the three methods that bring no money in.
`RequestVoid` is one step because its check and its insert are tied by the partial
unique indexes, one pending request per target. `Taken`, `Reversals` and the void
requests' index are those indexes, each with a mutant without it where a property
depends on it.

### OrderStatus

`updateStatus` is not a transaction: it reads the order, decides, may read again
(`requiresAuthorization`), finds an approval, consumes it before or after the
change, writes by id, records, and closes the requests that asked for the status
reached. Each is a step; a process may die between any two (`Fail`, bounded by
`MaxFailures`). `owes` and `held` are the two facts it reads from the rest of the
system, moved by `OthersMove`. `uses` is a history variable. `StatusFlow`, the
abstract specification, says: advance along the table, go back one step, or be
returned while alive. `FollowsFlow` is that `OrderStatus` implements it, and holds
only of one request at a time and without `update()`; configuration
`StatusRaces` shows why.

### RefundRequests

The transactions of `approveAndApply` and `execute` begin by updating the request
row and lock the order, so each is one step of the model. The order has one item
of price 1, the one refunds annul, and others worth `OtherItems`. Its items are edited by
three operations, each of which reads the status and then writes without looking at it
again: `StartUpdate`/`Update` (the whole order, with a status of any kind; refuses to leave less
than was annulled), `StartUpdateItem`/`UpdateItem` and `StartRemoveItem`/`RemoveItem`
(drafts only; they never look at the units annulled). Each write is one step: its first
statement locks the order or the item, and a refund that holds one and waits for the
other is a wait cycle, whose victim PostgreSQL aborts. `PaymentsMove`, `Confirm` and
`AnnulOrder` are what the other components may do to the order between any two steps of a
refund; they are deliberately more liberal than `OrderLedger` (any paid amount), so
what holds here does not lean on it. Two history variables: `moved` counts the cash movements
created for a request, `unasked` says that `updateItem` or `removeItem` wrote an item
that had annulled units.

### Payables

`executePayment` is three statements and no transaction: `AssertPayableAmount`,
`InsertMovement`, `InsertPayment`, `UpdatePayable` are steps, and a process may die
between any two (`Fail`, bounded by `MaxFailures`). The columns it writes were
computed from the row it read first. `deletePayment` and `cajaApprove` of a reversal
are transactions: `ReadLive` is the read of the payments still live inside them,
`CommitDelete` and `CommitReversal` their end. `Kinds` names the operations of an
instance. A *race* is an operation that starts while another one runs; races are
counted and bounded by `MaxRaces`, so that an instance can have long sequences with one overlap,
and a promise the code keeps only without overlaps says so (`races = 0`). Users stand
for the requests' authors; instalments, attachments and recurrent accounts are left out.

### ExpenseOrders

No operation is one transaction but `remove`. The claim of Caja
(`ClaimCajaAuthorization`) is a conditional update, and the only write that looks at
the status again; the rest write by id what they decided before. `InsertEgress` takes
an item's money out, any amounts that add up to the total; `SetPaid`,
`ReadUnreflected`, `Reflect` are the end of `cajaAuthorize` and
`settleFromExpenseOrderMovements`; `ReadMirror`, `Sync`, `ReadLivePayments`,
`Recalculate` are what an edit does to the account. `ConsumeApproval` and `GiveBack`
are the approval of an edit of a paid order. `signatures`, `paidOut` and `used` are
history variables.

### ProductionOrders

Each operation reads a step, decides, and writes by id: `Start...` is the read,
`UpdateSpecification`, `UpdateExecution`, `CompleteStep` the write, `ReadPhase`,
`UnlockPhase`, `ReadOrder`, `Finish` the two readings of the whole order that follow
a completion. `completeStep` asks whether the step before is done of the one step that its
`findFirst` returns (`OneBefore`): if a component has two of that order, which nothing
forbids, of either. A step's values are one Boolean: whether the execution fields that are
required are filled. The template is rewritten component by component
(`DeleteComponents`, `CreateComponentStep`) while orders are created from it.
`everDone` is a history variable: a stale write opens a completed step again, so the
pipeline is about what was ever completed.

### WorkOrders

A completion is one transaction: `LockWorkOrder`, then `TakeSupply` for each supply in any
order, each of which locks its row, then `CommitComplete`; two completions may wait for
each other, and `DeadlockVictim` is PostgreSQL's answer. `GenerateNumber` is the upsert of
`generateNumber`, one statement; `InsertWorkOrder` may find the number taken (`InsertByHand`), which leads
to `SyncRead`, `SyncWrite` and another attempt. A work order has one item and `uses[s]` of each supply;
`Supply.isActive`, annulled items, the check of the order's status and time entries
are left out.

## 3. The runs

Two requests interleave in every run unless said otherwise; that is enough for every
race above, which all need one request between the read and the write of another.
`MaxStarts` bounds how many operations start. Deadlock is not looked for
(`CHECK_DEADLOCK FALSE`) because a behaviour legitimately ends when that bound is
spent; that nobody waits for ever is `RequestsEnd`.

| Run | Bounds | Distinct states | Shows |
|---|---|---|---|
| `OrderLedger` | 2 orders, 2 payments, 2 requests, 3 starts | 113,123 | `LedgerInv`, `CreditAccounted`, `PaidFollowsPayments`, `AnnulLeavesNoDebt`, `RefundLeavesNoDebt` |
| `LedgerLive` | 4 payments, both orders overpaid, one key, every operation with `update`, 2 starts, fairness | 52,350 | `OnePaymentPerKey`, `RequestsEnd` |
| `CashDrawer` | 2 registers of one sede, 2 sessions, 4 movements, 2 payments, 1 void request, 2 requests, 5 starts | 597,266 | `DrawerInv`, `OneOpenPerRegister`, `VoidsAreWhole`, `KeptAlone` |
| `StatusSequential` | 4 targets, 1 process, 6 starts | 282,468 | `AnsweredAndUsedOnce`, `NoGhostRequests`, `FollowsFlow`, `BackwardApproved` |
| `StatusConcurrent` | 3 targets, 2 processes, 4 starts, 1 failure | 435,912 | `TypeOK`, `OnePendingPerChange`, `SensitiveChangeApproved` |
| `RefundRequests` | 2 requests, 2 processes, 2 units, other items worth 1, 4 starts | 266,472 | `RefundInv`, `RefundedIsWhatMoved`, `AnnulledWithinItem`, `OnePending` |
| `Payables` | 2 payments, 2 movements, 1 payment request, 2 processes, 7 starts, 1 race, 1 failure | 1,441,311 | `TypeOK`, `ReversalIsWhole`, `AccountIsItsPayments`, `CancelledStays` |
| `ExpenseOrders` | 1 signature and 1 edit request, 2 payments, 2 processes, 6 starts, 1 race, 1 failure | 270,689 | `OrderInv`, `PaysWhatIsSigned` |
| `ExpenseMirror` | 3 payments, 3 movements, 1 process, 8 starts, 1 failure, fairness | 468,946 | `MirrorIsOrder`, `LivesAsDescribed`, `CapCountsExpenseOrder`, `AuthorizedIsPaid` |
| `Production` | 5 steps in all four phases, 2 processes, 1 crash | 525,478 | `PipelineInv`, `NothingForgotten`, `FollowsPipeline`, `CompletedKept` |
| `WorkOrders` | 3 work orders, 2 supplies, 2 processes, 3 starts, 2 attempts, 1 movement by hand, 1 row by hand, 1 failure | 135,308 | `WorkOrdersInv`, `CompletionIsAtomic`, `NumbersHold`, `KeptAlone` |
| `ExitTwice` | the same | | expected violation of `ExitOnce`, section 5 |

Several properties are conjunctions of named parts, each a promise with its comment in
the `Props` module. The inductive invariants that the proofs use are in the `Props`
modules too. `LedgerInv`, `DrawerInv`, `RefundInv`, `PipelineInv` and `WorkOrdersInv` are checked by
the runs as they stand, and contain the type invariant of their module. The others
(`AccountsInv`, `BooksInv`, `StatusInv`, `AccountInv`, `CalmInv`,
`OrderAccountInv`, `LoneInv`, `ProgressInv`, `AnnulInv`, and the three called `AloneInv`) were
checked by TLC on the instances of the runs before they were proved; the runs keep the
properties that follow from them.

| Property | Parts |
|---|---|
| `LedgerInv` | `TypeOK`, `BalanceEquation`, `NoLostUpdate`, and what they rest on |
| `CreditAccounted` | `AppliedMatchesApplications`, `CreditPaymentsBacked` (of payments not `linked`) |
| `PaidFollowsPayments` | `PaidNeverShort`, `UnrefundedPaidMatches` |
| `DrawerInv` | `TypeOK`, what refers to what, one movement per payment, and what each request has read |
| `VoidsAreWhole` | `ReversedOnce`, `LivePaymentLiveMovement` |
| `KeptAlone` of the drawer | no orphan payment, no stale movement, no doubled income, no entry in a closed session, while no two requests overlapped |
| `AnsweredAndUsedOnce` | `SingleUse`, `ReviewedOnce` |
| `RefundInv` | `TypeOK`, `PaidOnce`, and what it rests on |
| `AnnulledWithinItem` | until `updateItem` or `removeItem` wrote an item with annulled units, `AnnulmentsExplained`; at any time, nothing else annuls more than there is |
| `ReversalIsWhole` | `ReversedIsVoided`, `CompletedIsReversed` |
| `AccountIsItsPayments` | `PaidIsLive`, `NeverOverpaid`, `PaidOwesNothing`, `MoneyHasPayment` |
| `OrderInv` | `OrderTypeOK`, `EditUsedOnce`, `ApprovedIsSigned` |
| `MirrorIsOrder` | `EgressReflected`, `MirrorTotal`, `PaidOrderOwes`, `MirrorPaidIsLive` |
| `PipelineInv` | types, `OpenHasGate`, what each request relies on |
| `NothingForgotten` | `NothingLeftBehind`, `NoDeadEnd` |
| `CompletedKept` | `CompletedIsFilled`, `CompletedStays` |
| `WorkOrdersInv` | types, `KardexIsStock`, locks, numbering |
| `CompletionIsAtomic` | `CompletionTakesAll`, `HeldStays` |
| `NumbersHold` | `NumbersIssuedOnce`, `IssuedWasFree` |
| `KeptAlone` of the workshop | `ExitsFollowCompletion`, `OneActiveAlone` |

The ledger's instance starts with an order overpaid by 2 and an order that owes 2,
so that credit can be given, released, refunded and over-asked within three
requests; its totals and amounts straddle both balances. In `LedgerLive` both orders are
overpaid and each has a payment, so that two credit payments can each lock an order and
wait for the other's, which is the wait cycle `applyCredit` can meet. The cash instances have
one sede and ids for two sessions, so that a movement can outlive its session.
The status instances start where sensitive, backward and ordinary changes are all
one step away.

The account's instance has room for a payment, its reversal and a second payment, with an edit or a
cancellation in any of the gaps, and one overlap anywhere. The expense order's two runs
divide the question: overlaps over the order and its requests; long sequences, with
deaths and money going back and forth, over the order and its account. The production
instance has two steps of one component, two parallel phases and the two that wait, so
that every gate exists. The workshop starts with two work orders one step from
COMPLETED and one unit of each supply, so the second completion drives the stock
negative. `MAX_RETRIES` is 3 in the code and 2 here: the second attempt already
comes after a synchronisation, and a third repeats it.

Promises the code keeps only while requests do not overlap are checked as such:
`StatusSequential` and `ExpenseMirror` have one process; `KeptAlone`,
`CompletedKept` and the properties of an account that begin with `Quiet` carry the
condition. They are worth
checking because a long sequence of legal calls (queue, edit, open, void, close, reopen)
is as hard to test as a race; the configurations of section 5 show what an overlap
does to them.

Symmetry is over the requests or processes, which no definition tells apart, and only in runs
without liveness: their temporal properties are action properties and safety refinements.

**Fairness.** `LiveSpec` (`LedgerLive`): weak fairness of `Step`, `Throw` and
`DeadlockVictim` per request. A statement that can run is run by Node and
PostgreSQL; a failed check throws; a wait cycle is broken by PostgreSQL's
detector, which is `order-lock.util.ts`'s own argument. `LiveOrderSpec` (`ExpenseMirror`):
weak fairness of every begun operation of the order. There is no fairness on `Start`
(users), nor on failures; `AuthorizedIsPaid` names the death of the process as the
one way an order stays claimed.

## 4. The proofs

Seven modules of proofs, one per component, and `SumTheorems`. They hold for any sets of
orders, payments, requests, processes, supplies, templates, amounts and bounds allowed by
the modules' assumptions, and follow one pattern: an inductive invariant, one lemma per
action, one step per conjunct the action can disturb.

*The ledger.*

- `LedgerCorrect`: `Spec => []LedgerInv`. Neither `BalanceEquation` nor
  `NoLostUpdate` is inductive. A transaction commits rows it wrote earlier, so the
  equation must hold of `wo[p]` too; and what it wrote stays equal to what is committed
  only because nobody else can commit that row, so every row in `wo[p]` must be one
  `p` has locked (`WritesLocked`). A commit rewrites the request's own order, so that
  one must be locked from `insert` on (`OwnLocked`), and steps are reached only by
  the kinds that take them (`ControlFollowsKind`). `TypesHold`, `BalanceHolds`,
  `NoUpdateIsLost` follow from it.
- `RefundsLeaveNoDebt`: `applyToOrder` checks against the locked row, so the row
  committed has no debt; every other commit leaves `refunded` alone.
- `AnnulmentLeavesNoDebt`: under the assumption that `updateOrder` is not among the
  enabled kinds. With it the property is false: section 5.
- `AccountsCorrect`, and from it `CreditIsAccounted` (of every payment but the ones `createMovement`
  wrote with credit balance and nobody has edited since), `PaidFollows` and
  `OnePaymentEachKey`: the row of a payment in a transaction is that of nobody else; the credit
  in flight is the difference between the order's row a transaction wrote and the
  committed one (`CreditInFlight`), so a commit moves both sides of each sum by the same amount.

*The drawer.*

- `DrawerInvariant`, and from it `DrawerTypes`, `OneOpenSession` and `WholeVoids`, hold under
  any interleaving. No transaction deletes a row, so what a request carries still exists when it
  writes; one session per register is open because the unique index makes a second opening
  wait or fail; a movement is reversed once because of the other one.
- `AloneKeepsTheDrawer`: `KeptAlone` of histories without overlaps, of any length. Until
  some two requests overlap, what each has read is what is stored (`ReadsAreFresh`).

*The status of orders.*

- `StatusInvariant`, and from it `StatusTypes`, `OneRequestPending`, `SensitiveApproved`, hold
  of any number of processes with failures: no statement deletes a request, reopens one or
  takes a consumption back, so an approval found stays one.
- `AloneInvariant`, and from it `StatusFollowsFlow` (the refinement of `StatusFlow`),
  `StepsBackApproved`, `AnsweredOnceUsedOnce`, `GhostsClosed`, are of one process, none of whose
  calls fails, without `update()` (`OneAtATime`): with two the four are false
  (`StatusRaces`). What the process read is then still so when it writes.

*Refunds.*

- `RefundCorrect`, `RefundPaidOnce`: the claim on `executedAt` is the whole argument,
  `moved[r] = 1` only with `executed` set, which nothing resets.
- `AnnulledStaysWithinItem`: the transactions of a refund and `update` respect what is alive of the
  item, so while no other edit has written an item with annulled units, a request that took
  units took them from an item that is still there (`AnnulInv`). `updateItem` and
  `removeItem` are the exception the property names: of a history with one it says
  only that no refund annuls beyond the quantity.
- `BooksBalance`, and from it `RefundedMoved` and `OneRefundPending`: what the order says was
  refunded is a sum over the requests, which only the step that claims one changes, by
  its amount.

*Accounts payable and expense orders* (both in `ExpenseOrdersProofs`).

- `AccountInvariant`, and from it `PayableTypes` and `WholeReversals`: a payment, its money movement and the request
  that reversed them agree under any interleaving (of the balance of the account it says nothing:
  that is `AccountIsItsPayments`, without overlaps). Rows of payments go only with
  the account, so a payment found is there to be reversed; a reversal request refers to a
  payment of its request; two transactions do not hold one payment. The lemma that
  every step of the account keeps it (`AccountKept`) is stated for any larger
  sets of rows, targets and labels, so that it serves the account beside its order too.
- `CalmInvariant`, and from it `AccountIsItsPaymentsHolds` and `CancelledKept`: while no
  two operations overlapped and none failed, what an operation read of the account is still so
  when it writes, and so the columns are the sums of the payments they stand for.
- `OrderAccountInvariant`, and from it `ApprovalsKept` and `WholeReversalsOfOrder`. An approval is
  held by one edit, marked meanwhile and not counted as used; a signature precedes what it
  leads to; before its account is inserted there are no rows that speak of one. The payments that
  `settleFromExpenseOrderMovements` inserts at once are matched to their movements by rank,
  which needs that the free ids below a number have every rank below it (`EveryRank`).
- `PayoutInvariant`, `PaysOnlyWhatIsSigned`: `ExpenseOrders` implements `SignedPayout`.
  Payouts made, claims about to pay and the signature not yet claimed are together at most
  the signatures. A signature adds one to both sides, the conditional claim moves
  one from the last term to the second, and no other write can bring `ADMIN_AUTHORIZED` back
  without signing again. The cardinality of the claims needs the processes to be the
  only thing that changes it: `ClaimsShrink`.
- `LoneInvariant`, and from it `ReflectionHolds`, `MirrorHolds`, `CapHolds` and `LivesAsTheFormSays`: for
  as long as requests on an order come one at a time, what each statement of each of them has
  read, of the order, of its account and of the money of both, is so until it
  writes (`AsRead`); nothing leaves before Caja claims the order, and then the movements
  made and the one about to be made add up to its total. While no process died, the account
  is beside the order what it should be, but between the statements that are about to
  make it so: `Mirroring`, `Reflecting` and `Refreshing` name them (`MirrorStands`). Only the
  reflection of a paid order's movements inserts several payments at once: they are summed by the
  bijection with the movements, by rank (`SumOfMore`, `LoneReflects`).
  - `ReflectionHolds` needs no hypothesis. `MirrorHolds`, the whole of `MirrorIsOrder`, is of accounts
    whose amount is not edited by hand (`"update" \notin Kinds`): that edit does not
    look at the order, and from then on the totals differ (section 5).
  - `CapHolds` covers a process that died between taking the money out and reflecting it:
    what has left for the order is counted among the movements, not among the payments.
  - `LivesAsTheFormSays` is the refinement `LivesAsDescribed` of `ExpenseLife`, under
    `[](races = 0)`: with two requests at once it is false (`PaidIsFinal`, section 5).

*Production.*

- `PipelineInvariant`, `OpenStepsHaveTheirGate`, `ImplementsPipeline`: the statuses are not
  inductive, because a stale write opens a completed step again; `everDone` only grows,
  and what a request has read stays true of it until the request writes (`Relies`).
  `ImplementsPipeline` assumes `OneStepPerOrder`, the steps of a component have each its own
  order: with two of one order it is false (section 5).
- `NothingIsLeftBehind`, `NothingIsForgotten`: a step that waits for steps all of which are
  done has a request that completed one of them and has not looked yet, or is about to
  open it (`ProgressInv`): of two requests that complete the last two steps of a phase the second
  to write sees both. Both theorems speak of the moments when nobody is at work on the order
  and no request died before its end: a death is what leaves a phase closed (`GateOpens`,
  section 5). `NothingIsForgotten` is of templates in which every step
  born blocked waits for something (`Workable`): of one without armado it is false
  (section 5). Then, of the steps of the first phase not done, the least by its order is open.
- `CompletedIsKept`: while no two requests overlapped, a completed step is filled and stays so.

*The workshop.*

- `WorkOrdersInvariant` and what follows from it (`KardexAccountsForStock`,
  `CompletionAtomic`, `NumbersCorrect`): the kardex is
  inductive by itself, because both balances of a movement come from one locked row; a
  completion holds the row it will write (`Locks`); the counter is never behind the
  table while nobody inserts by hand, so no request brings it back (`Numbering`).
- `WorkshopAlone`: while no two requests overlapped, supplies leave once, with the completion, and
  an order has one active work order, provided the ones found in the database were so
  (`SeedsAreAlone`).

*Sums* (`SumTheorems`). A sum of amounts is a fold, defined by recursion along `CHOOSE`; the
provers cannot unfold one for a set they do not know, but its defining equation they can use.
Every fact is then proved of the smallest set for which it could fail: removing one element
leaves a set for which it holds. `SumSplit` says that no choice matters, `SumChange` what
changing one amount does, `SumGrows` that a part is no more than the whole.

Assumptions: those declared in the modules, which TLC evaluates on every run, and the
hypotheses named above, each of which the instance of a run satisfies.

Every safety property that a run checks is proved. Model-checked only: the liveness
properties `RequestsEnd` and `AuthorizedIsPaid`, since fairness is out of the provers' reach.

## 5. Where the code does not do what its documents say

One is a run of the project with expected violation, and its quotation is in
`PROJECT.json`, `findings`: `ExitTwice`. `updateStatus` of a work order validates the
transition on what it read and completes by id, so two requests that complete it at once
take its supplies out twice, although `AUDITORIA_FASE_0_CUARTA_BARRIDA.md:664` says there
is no way to (`ExitOnce`).

The rest have configurations beside the others. Each component's lists its
properties, all but one in comments, and says which constants are enough where fewer are; TLC finds
each violated within seconds, `CreditSpentOnce` and `VoidedReleasesCredit` within about two minutes
(`tlc -config X.cfg` on the `MC` module of the component).

| Configuration | Property | What happens | Said otherwise at |
|---|---|---|---|
| `LedgerRaces` | `EveryCreditBacked` | `createMovement` writes a payment with credit balance and takes the credit from no order (`cash-movement.service.ts:77`, `:115`); one operation is enough | `schema.prisma:1033` |
| | `CreditSpentOnce` | two credit payments choose their sources from the same unlocked read and spend one overpayment | `order-balance.util.ts:69` |
| | `PaidMatchesPayments` | a void races a refund and the clamp at zero hides the difference | `invariants.sql:37` |
| | `VoidedReleasesCredit` | an edit re-applies credit to a payment voided meanwhile | `cash-movement.service.ts:215` |
| | `NoPaymentOnAnnulled` | a payment commits on an order annulled after its pre-read | `orders.service.ts:3924` |
| | `AnnulLeavesNoDebt` | `update()` annuls by writing the status alone and leaves the debt | `orders.service.ts:3869` |
| `CashRaces` | `VoidedPaymentHasNoCash` | an approved void of a queued payment misses the income that entered a session meanwhile | `invariants.sql:52` |
| | `CreditNeverInCash` | a queued cash payment edited to credit is still counted | `payment-method.util.ts:9` |
| | `NoOrphanPayment` | two edits leave a cash payment with neither movement nor queue | `invariants.sql:24` |
| | `MovementMatchesPayment` | the queue enters with an amount edited meanwhile | `payment-cash-movement.util.ts:46` |
| | `IncomeCountedOnce` | two registers of a sede both enter one queued payment | `pending-cash-entries.service.ts:124` |
| | `ApprovedIsVoided` | an approved void whose execution failed stays approved | `cash-movement-void-requests.service.ts:268` |
| | `NothingEntersClosedSession` | a movement enters a session closed after it was read open | `cash-movement.service.ts:59` |
| | `CorrectionIsInTodaysBalance` | the void of a signed session's movement appears in no balance | `cash-movement.helpers.ts:18` |
| `StatusRaces` | `FollowsFlow` | `update()` writes statuses outside the flow | `order-status-transitions.ts:4` |
| | `TerminalStays` | a stale `updateStatus` overwrites RETURNED | `order-status-transitions.ts:46` |
| | `BackwardApproved` | a step back is taken without approval after the status moved | `order-status-transitions.ts:48` |
| | `ConsumedAfterApplied` | an approval is consumed and the change then fails | `order-status-change-requests.service.ts:808` |
| | `ReviewedOnce` | a second answer replaces the first | `order-status-change-requests.service.ts:337` |
| | `ApprovedWhileValid` | WhatsApp approves a request whose order moved on | `order-status-change-requests.service.ts:354` |
| | `PaidWithoutDebt` | an order becomes PAID with debt that appeared after the read | `orders.service.ts:1982` |
| | `SingleUse` | one approval stands behind two changes | `orders.service.ts:2074` |
| `RefundRaces` | `RejectedIsUnpaid` | a rejection overwrites a refund an approval has already applied | `refund-requests.service.ts:1172` |
| | `OneInProgress` | a second refund in progress | `refund-requests.service.ts:257` |
| | `AnnulmentsExplained` | `updateItem` or `removeItem` leaves less of a draft's item than was annulled (`orders.service.ts:2228`, `:2309`) | `orders.service.ts:1443` |
| `ExpenseRaces` | `PaidIsFinal` | a late signature or return writes over PAID | `expense-order-edit-requests.service.ts:245` |
| `ProductionRaces` | `CompletedIsFinal` | a stale write of execution values reopens a completed step | `production-orders.service.ts:157` |
| | `FollowsPipeline` | a component with two steps of one order: `findFirst` finds the one that is done, and the next step is completed before the other | `production-orders.service.ts:224` |
| `WorkOrderRaces` | `OneActive` | two work orders created at once for one order | `work-orders.service.ts:99` |
| | `NeverIssuedTwice` | the counter, brought back to the table, issues again a number in flight (the unique column then refuses one) | `consecutives.repository.ts:67` |

These show behaviours no document denies, which a reader of the code should know:

| Configuration | Property | What happens |
|---|---|---|
| `ExpenseRaces` | `NothingPaidTwice` | an account paid directly, then its expense order paid too: the cap of `accounts-payable.service.ts:408` looks in one direction only |
| | `MirrorTotal` | editing the amount of the account of an expense order leaves the order with another total (`accounts-payable.service.ts:248`): no overlap is needed |
| `PayableRaces` | `CancelledForGood` | a reversal of a payment revives a cancelled account (`accounts-payable.service.ts:735`) |
| | `CompletedIsPaid` | a payment request is COMPLETED before its payment, which then fails (`accounts-payable-payment-auth-requests.service.ts:357`) |
| | `RequestPaysOnce` | two cashiers complete one request: the second's movement stays without a payment (the same, line 343) |
| `ProductionRaces` | `OrderIsWhole` | an order is created from a template being rewritten (`product-templates.service.ts:58`) |
| | `GateOpens` | a process dies between completing a step and opening the next phase, and nothing opens it later (`production-orders.service.ts:231`) |
| | `NoDeadEnd` | a template without armado never opens its despacho (`production-orders.service.ts:268`) |
| `WorkOrderRaces` | `CompletedConsumed` | a supply added to a completed work order never leaves the stock (`work-orders.service.ts:336`) |

The tables above complete the hazards of `PROJECT.json`, which names the ones a run's
property watches and the gravest of these.

## 6. What is not modelled

Who may call an operation (roles, permissions, `assertNotSelfReview`) is a guard of
the caller and moves no state here. Removing a DRAFT order, the payment inside
`update` and the creation of an order with its first payment are not modelled.
Denominations, receipts, files, notifications and reports are left out: no property
reads them. Three quarters of the repository are screens, catalogues, listings, seeds and migrations
with no state of their own to go wrong.

The approvals of advance payments are out because `requiresApproval` answers
`required: false` for everybody (`advance-payment-approvals.service.ts:442`): no request is
created any more, and only rows of an earlier version are answered. The approvals of payment edits, the
edit requests of orders, discounts, payroll deductions, general closings, quotes and
DTF are real and not modelled: the first replay what `CashDrawer` has for an edit, the
requests have the life cycle of those of `OrderStatus`, and the rest are planned below.
The remaining components are listed in `PROJECT.json` with the reason for each.

## 7. The plan

Done: the ledger (everything else reads its balance), the drawer, the status with its
approvals, refunds, accounts payable, expense orders over them, production, work
orders with stock and numbers; four refinements; proofs of every safety property that a run
checks.

Next, by weight:

1. `PaymentEdits`: an approved edit replays `syncPaymentCashMovement` against what the
   payment has become; `PayrollDeductions` the same over the fortnight's settlement.
2. `GeneralClosings`: the consolidation of closed sessions over `CashDrawer`.
3. The conversion of quotes and DTF into orders, with their first payment.
4. An abstract `Approval` (asked, answered once, spent once, expired) that the request
   modules should implement, with the ones that do not as findings.
