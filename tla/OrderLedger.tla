---------------------------- MODULE OrderLedger ----------------------------
(***************************************************************************)
(* The money columns of the `orders` table, the `payments` of an order and *)
(* the credit-balance applications, written by concurrent HTTP requests.   *)
(*                                                                         *)
(* A request first reads the database outside any transaction (the stale   *)
(* pre-read and the guards on it), then runs ONE Prisma transaction.  The  *)
(* database is PostgreSQL at READ COMMITTED: a plain read sees what is     *)
(* committed plus the transaction's own writes, a row lock (FOR UPDATE,    *)
(* or the FOR KEY SHARE an insert takes on the row its foreign key names)  *)
(* is held until the transaction ends, and nothing is visible to others    *)
(* before the commit.                                                      *)
(*                                                                         *)
(*   committed      orders, payments                                       *)
(*   row locks      olock, oshare (orders), plock (payments)               *)
(*   per request p  req[p], pc[p], plan[p] and its uncommitted writes      *)
(*                  wo[p] (order rows) and wp[p] (its payment row)         *)
(***************************************************************************)
EXTENDS OrderMoney, FiniteSets, Functions

CONSTANTS
  Orders,       \* order ids: naturals, in orderDate order (credit is FIFO)
  Payments,     \* payment ids: naturals, in creation order
  Requests,     \* concurrent HTTP requests
  Keys,         \* idempotency keys a payment dialog may send
  Kinds,        \* the operations enabled in this instance
  Amounts,      \* amounts a request may carry
  Totals,       \* totals an edit of items or discounts may produce
  MaxStarts,    \* bound: requests started in a behaviour
  SeedOrders, SeedPayments,   \* committed rows the behaviour starts from
  None          \* null

AllKinds == {"addPayment", "createMovement", "updatePayment", "voidPayment",
             "executeRefund", "annulOrder", "recalculateOrderTotals", "updateOrder"}

\* CONFIRMED stands for the live statuses that accept payments and annulment.
Statuses == {"CONFIRMED", "ANULADO", "RETURNED"}
Methods == {"CASH", "CREDIT_BALANCE"}

OrderRow == [status : Statuses, total : Int, paid : Int, applied : Int,
             refunded : Int, reversed : Int, balance : Int]

\* The amounts a payment row can hold.
Money == Amounts \cup {0} \cup
  {SeedPayments[q].amount : q \in {x \in Payments : SeedPayments[x] # None}}

\* used[s] is the amount of the CreditBalanceApplication rows of the payment
\* whose sourceOrder is s.  linked: a CREDIT_BALANCE payment with a cashMovementId.
PaymentRow == [order : Orders, amount : Money, method : Methods, voided : BOOLEAN,
               linked : BOOLEAN, key : Keys \cup {None}, used : [Orders -> Int]]

Request == [kind : AllKinds, order : Orders, payment : Payments \cup {None},
            amount : Money, method : Methods, key : Keys \cup {None}, total : Int,
            status : Statuses]

PCs == {"idle", "payment", "release", "plan", "take", "own", "insert", "ready"}

NoUse == [s \in Orders |-> 0]
NoReq == [kind |-> "recalculateOrderTotals", order |-> CHOOSE o \in Orders : TRUE,
          payment |-> None, amount |-> 0, method |-> "CASH", key |-> None, total |-> 0,
          status |-> "CONFIRMED"]
NoWrites == [o \in {} |-> None]

IsFirst(s, S) == s \in S /\ \A t \in S : s <= t

SumOf(f) == SumFunction(f)

ASSUME ConstantsAssumption ==
  /\ Orders \subseteq Nat /\ Orders # {}
  /\ IsFiniteSet(Orders) /\ IsFiniteSet(Payments)
  /\ Kinds \subseteq AllKinds
  /\ Amounts \subseteq Nat \ {0} /\ Totals \subseteq Nat /\ Money \subseteq Nat
  /\ MaxStarts \in Nat
  /\ None \notin Orders \cup Payments \cup Requests \cup Keys \cup PaymentRow
  /\ SeedOrders \in [Orders -> OrderRow]
  /\ \A o \in Orders : SeedOrders[o].balance = ComputeOrderBalance(SeedOrders[o])
  /\ SeedPayments \in [Payments -> PaymentRow \cup {None}]

VARIABLES orders, payments, olock, oshare, plock, req, pc, plan, wo, wp, starts

db    == <<orders, payments>>
locks == <<olock, oshare, plock>>
local == <<req, plan, wo, wp>>
vars  == <<orders, payments, olock, oshare, plock, req, pc, plan, wo, wp, starts>>
-----------------------------------------------------------------------------
(* What transaction p reads: its own writes over the committed rows.        *)

OrderSeen(p, o) == IF o \in DOMAIN wo[p] THEN wo[p][o] ELSE orders[o]

PaymentSeen(p, q) ==
  IF q = req[p].payment /\ wp[p] # None THEN wp[p] ELSE payments[q]

\* The amount payment row r contributes to order o: ACTIVE_PAYMENT_WHERE.
Contribution(r, o) ==
  IF r = None \/ r.voided \/ r.order # o THEN 0 ELSE r.amount

SumActivePayments(p, o) ==
  SumOf([q \in Payments |-> Contribution(PaymentSeen(p, q), o)])

WriteOrder(p, o, row) ==
  wo' = [wo EXCEPT ![p] = [x \in DOMAIN wo[p] \cup {o} |->
                             IF x = o THEN row ELSE wo[p][x]]]

\* SELECT ... FOR UPDATE waits for every other holder of the row.
LockFree(p, o) == olock[o] \in {None, p} /\ oshare[o] \subseteq {p}

\* Mutant: the order is read without FOR UPDATE.
ReadUnlocked(p, o) == UNCHANGED olock

LockOrderForUpdate(p, o) ==
  /\ LockFree(p, o)
  /\ olock' = [olock EXCEPT ![o] = p]

\* An insert whose foreign key names order o takes FOR KEY SHARE on it.
ShareOrder(p, o) ==
  /\ olock[o] \in {None, p}
  /\ oshare' = [oshare EXCEPT ![o] = @ \cup {p}]

Unlocked(p) ==
  /\ olock'  = [o \in Orders |-> IF olock[o] = p THEN None ELSE olock[o]]
  /\ oshare' = [o \in Orders |-> oshare[o] \ {p}]
  /\ plock'  = [q \in Payments |-> IF plock[q] = p THEN None ELSE plock[q]]

Forget(p) ==
  /\ pc'   = [pc EXCEPT ![p] = "idle"]
  /\ req'  = [req EXCEPT ![p] = NoReq]
  /\ plan' = [plan EXCEPT ![p] = NoUse]
  /\ wo'   = [wo EXCEPT ![p] = NoWrites]
  /\ wp'   = [wp EXCEPT ![p] = None]

Goto(p, label) == pc' = [pc EXCEPT ![p] = label]
-----------------------------------------------------------------------------
(* The pre-read: what a request checks before its transaction starts.       *)

Begin(p, r, label) ==
  /\ pc[p] = "idle" /\ starts < MaxStarts /\ r.kind \in Kinds
  /\ starts' = starts + 1
  /\ req' = [req EXCEPT ![p] = r]
  /\ Goto(p, label)
  /\ UNCHANGED <<orders, payments, olock, oshare, plock, plan, wo, wp>>

\* The database picks an id no payment has and no running insert holds.
FreshPayment == {q \in Payments :
                   payments[q] = None /\ \A p \in Requests : req[p].payment # q}

PaymentWithKey(k) == {q \in Payments : payments[q] # None /\ payments[q].key = k}

StartAddPayment(p) ==
  \E o \in Orders, a \in Amounts, m \in Methods, k \in Keys \cup {None}, q \in Payments :
    /\ k # None => PaymentWithKey(k) = {}
    /\ orders[o].status = "CONFIRMED"
    /\ IsFirst(q, FreshPayment)
    /\ Begin(p, [NoReq EXCEPT !.kind = "addPayment", !.order = o, !.payment = q,
                              !.amount = a, !.method = m, !.key = k], "own")

\* createMovement with referenceType ORDER checks no status of the order, and takes
\* any payment method.
StartCreateMovement(p) ==
  \E o \in Orders, a \in Amounts, m \in Methods, q \in Payments :
    /\ IsFirst(q, FreshPayment)
    /\ Begin(p, [NoReq EXCEPT !.kind = "createMovement", !.order = o,
                              !.payment = q, !.amount = a, !.method = m], "own")

StartUpdatePayment(p) ==
  \E q \in Payments, a \in Amounts, m \in Methods :
    /\ payments[q] # None
    /\ orders[payments[q].order].status # "ANULADO"
    /\ Begin(p, [NoReq EXCEPT !.kind = "updatePayment", !.order = payments[q].order,
                              !.payment = q, !.amount = a, !.method = m], "payment")

StartVoidPayment(p) ==
  \E q \in Payments :
    /\ payments[q] # None /\ ~payments[q].voided
    /\ Begin(p, [NoReq EXCEPT !.kind = "voidPayment", !.order = payments[q].order,
                              !.payment = q], "payment")

\* assertRefundStillViable(request, order): amount is what leaves the drawer,
\* total the part of the sale the request annuls.
RefundStillViable(r, row) ==
  /\ row.status = "ANULADO" => r.total = 0
  /\ r.total <= row.total - row.reversed
  /\ r.amount <= ComputeAvailableOverpayment([row EXCEPT !.reversed = @ + r.total])

\* The claim on executedAt makes a refund request execute at most once (module
\* RefundRequests): here every execution is a request of its own.
StartExecuteRefund(p) ==
  \E o \in Orders, a \in Amounts, rev \in Amounts \cup {0} :
    LET r == [NoReq EXCEPT !.kind = "executeRefund", !.order = o,
                           !.amount = a, !.total = rev]
    IN /\ orders[o].status # "RETURNED"
       /\ RefundStillViable(r, orders[o])
       /\ Begin(p, r, "own")

StartAnnulOrder(p) ==
  \E o \in Orders, retained \in Amounts \cup {0} :
    /\ orders[o].status = "CONFIRMED"
    /\ Begin(p, [NoReq EXCEPT !.kind = "annulOrder", !.order = o,
                              !.amount = retained], "own")

\* An edit of items, rates or discounts: the new total is what they add up to.
StartRecalculate(p) ==
  \E o \in Orders, t \in Totals :
    /\ orders[o].status # "ANULADO"
    /\ Begin(p, [NoReq EXCEPT !.kind = "recalculateOrderTotals", !.order = o,
                              !.total = t], "own")

\* update() of an order: the body may carry a status, which is written as it is.
StartUpdateOrder(p) ==
  \E o \in Orders, st \in Statuses :
    /\ orders[o].status # "ANULADO"
    /\ Begin(p, [NoReq EXCEPT !.kind = "updateOrder", !.order = o,
                              !.status = st], "own")

Start(p) ==
  \/ StartAddPayment(p) \/ StartCreateMovement(p) \/ StartUpdatePayment(p)
  \/ StartVoidPayment(p) \/ StartExecuteRefund(p) \/ StartAnnulOrder(p)
  \/ StartRecalculate(p) \/ StartUpdateOrder(p)
-----------------------------------------------------------------------------
(* Steps inside the transaction.                                            *)

\* payment.update of an edit, which never looks at isVoided.  It also inserts the
\* PaymentEditApproval row of the order, and syncPaymentCashMovement unlinks the
\* cash movement of a payment that is CREDIT_BALANCE now.
EditPaymentRow(p) ==
  LET r == req[p] IN
    /\ pc[p] = "payment" /\ r.kind = "updatePayment"
    /\ plock[r.payment] = None
    /\ plock' = [plock EXCEPT ![r.payment] = p]
    /\ ShareOrder(p, r.order)
    /\ wp' = [wp EXCEPT ![p] = [payments[r.payment] EXCEPT
                                  !.amount = r.amount, !.method = r.method,
                                  !.linked = FALSE]]
    /\ Goto(p, "release")
    /\ UNCHANGED <<db, olock, req, plan, wo, starts>>

\* voidPaymentAndRecalculate: payment.update set isVoided.
VoidPaymentRow(p) ==
  LET r == req[p] IN
    /\ pc[p] = "payment" /\ r.kind = "voidPayment"
    /\ plock[r.payment] = None
    /\ plock' = [plock EXCEPT ![r.payment] = p]
    /\ wp' = [wp EXCEPT ![p] = [payments[r.payment] EXCEPT !.voided = TRUE]]
    /\ Goto(p, "release")
    /\ UNCHANGED <<db, olock, oshare, req, plan, wo, starts>>

\* The row bumpAppliedCredit writes: applied + delta, clamped at zero.
BumpedRow(row, delta) ==
  WithBalance([row EXCEPT !.applied = Positive(row.applied + delta)])

\* The payment row once its applications on order s add up to amount.
UsingFrom(row, s, amount) == [row EXCEPT !.used = [row.used EXCEPT ![s] = amount]]

Consumed(p) == {s \in Orders : wp[p].used[s] > 0}

\* Mutant: the application row goes and its source keeps the credit as given away.
ReleaseRowOnly(p) ==
  /\ pc[p] = "release"
  /\ \E s \in Orders :
       /\ IsFirst(s, Consumed(p))
       /\ LockOrderForUpdate(p, s)
       /\ wp' = [wp EXCEPT ![p] = UsingFrom(@, s, 0)]
  /\ UNCHANGED <<db, oshare, plock, req, pc, plan, wo, starts>>

\* releaseCredit, one application: bumpAppliedCredit(source, -amount).
ReleaseSource(p) ==
  /\ pc[p] = "release"
  /\ \E s \in Orders :
       /\ IsFirst(s, Consumed(p))
       /\ LockOrderForUpdate(p, s)
       /\ WriteOrder(p, s, BumpedRow(OrderSeen(p, s), -wp[p].used[s]))
       /\ wp' = [wp EXCEPT ![p] = UsingFrom(@, s, 0)]
  /\ UNCHANGED <<db, oshare, plock, req, pc, plan, starts>>

\* resyncCredit applies again only if the edited payment is CREDIT_BALANCE
\* with a positive amount.
Released(p) ==
  /\ pc[p] = "release" /\ Consumed(p) = {}
  /\ Goto(p, IF /\ req[p].kind = "updatePayment"
                /\ req[p].method = "CREDIT_BALANCE" /\ req[p].amount > 0
             THEN "plan" ELSE "own")
  /\ UNCHANGED <<db, locks, local, starts>>

LockOwnOrder(p) ==
  /\ pc[p] = "own"
  /\ LockOrderForUpdate(p, req[p].order)
  /\ Goto(p, IF req[p].kind \in {"addPayment", "createMovement"} THEN "insert" ELSE "ready")
  /\ UNCHANGED <<db, oshare, plock, local, starts>>

AppliesCredit(r) == r.kind = "addPayment" /\ r.method = "CREDIT_BALANCE"

NewPaymentRow(r) ==
  [order |-> r.order, amount |-> r.amount, method |-> r.method, voided |-> FALSE,
   linked |-> r.kind = "createMovement" /\ r.method = "CREDIT_BALANCE",
   key |-> r.key, used |-> NoUse]

InsertingKey(p, k) == {x \in Requests \ {p} : wp[x] # None /\ wp[x].key = k}

\* Mutant: no unique index on idempotency_key.
InsertPaymentAnyKey(p) ==
  LET r == req[p] IN
    /\ pc[p] = "insert"
    /\ r.kind = "createMovement" => r.amount <= OrderSeen(p, r.order).balance
    /\ wp' = [wp EXCEPT ![p] = NewPaymentRow(r)]
    /\ Goto(p, IF AppliesCredit(r) THEN "plan" ELSE "ready")
    /\ UNCHANGED <<db, locks, req, plan, wo, starts>>

\* payment.create: the unique index on idempotency_key waits for a running
\* insert of the same key and fails if a committed payment has it.  createMovement
\* applies no credit, whatever the method.
InsertPayment(p) ==
  LET r == req[p] IN
    /\ pc[p] = "insert"
    /\ r.key # None => PaymentWithKey(r.key) \cup InsertingKey(p, r.key) = {}
    /\ r.kind = "createMovement" => r.amount <= OrderSeen(p, r.order).balance
    /\ wp' = [wp EXCEPT ![p] = NewPaymentRow(r)]
    /\ Goto(p, IF AppliesCredit(r) THEN "plan" ELSE "ready")
    /\ UNCHANGED <<db, locks, req, plan, wo, starts>>

\* listCreditSources: an unlocked read of the client's other orders.
Available(p, s) ==
  IF s = req[p].order THEN 0 ELSE ComputeAvailableOverpayment(OrderSeen(p, s))

\* What is taken from each source: the amount in all, oldest order first.
Fifo(p, taken) ==
  /\ SumOf(taken) = req[p].amount
  /\ \A s \in Orders : taken[s] <= Available(p, s)
  /\ \A s, t \in Orders : s < t /\ taken[t] > 0 => taken[s] = Available(p, s)

\* applyCredit: no such choice exists when the sources do not cover the amount,
\* and the request is refused.
PlanCredit(p) ==
  /\ pc[p] = "plan"
  /\ \E taken \in [Orders -> 0..req[p].amount] :
       /\ Fifo(p, taken)
       /\ plan' = [plan EXCEPT ![p] = taken]
  /\ Goto(p, "take")
  /\ UNCHANGED <<db, locks, req, wo, wp, starts>>

Planned(p) == {s \in Orders : plan[p][s] > 0}

\* creditBalanceApplication.create, whose sourceOrderId is a foreign key.
InsertApplication(p) ==
  /\ pc[p] = "take"
  /\ \E s \in Orders :
       /\ IsFirst(s, Planned(p)) /\ p \notin oshare[s]
       /\ ShareOrder(p, s)
  /\ UNCHANGED <<db, olock, plock, local, pc, starts>>

\* bumpAppliedCredit(source, taken): locks and re-reads the row, but does not
\* check again that the source still has the amount.
TakeSource(p) ==
  /\ pc[p] = "take"
  /\ \E s \in Orders :
       /\ IsFirst(s, Planned(p)) /\ p \in oshare[s]
       /\ LockOrderForUpdate(p, s)
       /\ WriteOrder(p, s, BumpedRow(OrderSeen(p, s), plan[p][s]))
       /\ wp' = [wp EXCEPT ![p] = UsingFrom(@, s, @.used[s] + plan[p][s])]
       /\ plan' = [plan EXCEPT ![p] = [plan[p] EXCEPT ![s] = 0]]
  /\ UNCHANGED <<db, oshare, plock, req, pc, starts>>

Taken(p) ==
  /\ pc[p] = "take" /\ Planned(p) = {}
  /\ Goto(p, IF req[p].kind = "addPayment" THEN "ready" ELSE "own")
  /\ UNCHANGED <<db, locks, local, starts>>
-----------------------------------------------------------------------------
(* The last statement of each transaction, on the row read under its lock,  *)
(* and the commit.                                                          *)

Commit(p, row) ==
  /\ orders' = [o \in Orders |-> IF o = req[p].order THEN WithBalance(row)
                                 ELSE OrderSeen(p, o)]
  /\ payments' = [q \in Payments |-> PaymentSeen(p, q)]
  /\ Unlocked(p) /\ Forget(p)
  /\ UNCHANGED starts

Own(p) == OrderSeen(p, req[p].order)

Recomputed(p, row) ==
  [row EXCEPT !.paid = ComputeNetPaidAmount(SumActivePayments(p, req[p].order), row.refunded)]

\* Mutant: the paid amount is the one committed before the payment.
CommitPaymentUnpaid(p) ==
  /\ pc[p] = "ready" /\ req[p].kind \in {"addPayment", "createMovement"}
  /\ Commit(p, Own(p))

\* addPayment and createMovement add to the paid amount they re-read.
CommitPayment(p) ==
  /\ pc[p] = "ready" /\ req[p].kind \in {"addPayment", "createMovement"}
  /\ Commit(p, [Own(p) EXCEPT !.paid = @ + req[p].amount])

\* updatePayment and voidPayment rebuild it from the live payments.
CommitEdit(p) ==
  /\ pc[p] = "ready" /\ req[p].kind \in {"updatePayment", "voidPayment"}
  /\ Commit(p, Recomputed(p, Own(p)))

CommitTotals(p) ==
  /\ pc[p] = "ready" /\ req[p].kind = "recalculateOrderTotals"
  /\ Commit(p, Recomputed(p, [Own(p) EXCEPT !.total = req[p].total]))

\* applyToOrder: revalidates against the locked row.
RefundedRow(row, r) ==
  LET reversed == row.reversed + r.total
  IN [row EXCEPT !.paid = @ - r.amount, !.refunded = @ + r.amount,
                 !.reversed = reversed,
                 !.status = IF row.status # "ANULADO" /\ reversed >= row.total /\ row.total > 0
                            THEN "RETURNED" ELSE @]

\* Mutant: only the request is validated, not the locked row.
CommitRefundUnchecked(p) ==
  /\ pc[p] = "ready" /\ req[p].kind = "executeRefund"
  /\ Commit(p, RefundedRow(Own(p), req[p]))

CommitRefund(p) ==
  /\ pc[p] = "ready" /\ req[p].kind = "executeRefund"
  /\ RefundStillViable(req[p], Own(p))
  /\ Commit(p, RefundedRow(Own(p), req[p]))

CommitAnnul(p) ==
  /\ pc[p] = "ready" /\ req[p].kind = "annulOrder"
  /\ req[p].amount <= ComputeMaxRetainableOnAnnul(Own(p))
  /\ Commit(p, [Own(p) EXCEPT !.status = "ANULADO", !.reversed = Own(p).total - req[p].amount])

\* The status alone: an edit that also changes items goes on with CommitTotals.
CommitStatus(p) ==
  /\ pc[p] = "ready" /\ req[p].kind = "updateOrder"
  /\ Commit(p, [Own(p) EXCEPT !.status = req[p].status])

\* The transaction ends without effect: a check inside it fails, PostgreSQL
\* picks it as deadlock victim, Prisma's transaction timeout expires, or the
\* process dies.
Abort(p) ==
  /\ pc[p] # "idle"
  /\ Unlocked(p) /\ Forget(p)
  /\ UNCHANGED <<db, starts>>
-----------------------------------------------------------------------------
Init ==
  /\ orders = SeedOrders /\ payments = SeedPayments
  /\ olock = [o \in Orders |-> None]
  /\ oshare = [o \in Orders |-> {}]
  /\ plock = [q \in Payments |-> None]
  /\ req = [p \in Requests |-> NoReq]
  /\ pc = [p \in Requests |-> "idle"]
  /\ plan = [p \in Requests |-> NoUse]
  /\ wo = [p \in Requests |-> NoWrites]
  /\ wp = [p \in Requests |-> None]
  /\ starts = 0

Step(p) ==
  \/ EditPaymentRow(p) \/ VoidPaymentRow(p) \/ ReleaseSource(p) \/ Released(p)
  \/ LockOwnOrder(p) \/ InsertPayment(p) \/ PlanCredit(p) \/ InsertApplication(p)
  \/ TakeSource(p) \/ Taken(p) \/ CommitPayment(p) \/ CommitEdit(p)
  \/ CommitTotals(p) \/ CommitRefund(p) \/ CommitAnnul(p) \/ CommitStatus(p)

Next == \E p \in Requests : Start(p) \/ Step(p) \/ Abort(p)

Spec == Init /\ [][Next]_vars

\* Mutant: the orders are locked in the application, not by FOR UPDATE: the database
\* sees no wait on them, and so no deadlock.
WaitsForRows(p) ==
  LET r == req[p]
  IN CASE pc[p] = "payment" -> {plock[r.payment]} \ {None, p}
       [] pc[p] = "insert" /\ r.key # None -> InsertingKey(p, r.key)
       [] OTHER -> {}

\* Whom the next statement of p waits for in the database.
WaitsFor(p) ==
  LET r == req[p]
      Holders(o) == ({olock[o]} \cup oshare[o]) \ {None, p}
  IN CASE pc[p] = "payment" -> ({plock[r.payment]} \cup
                (IF r.kind = "updatePayment" THEN {olock[r.order]} ELSE {})) \ {None, p}
       [] pc[p] = "release" -> UNION {Holders(s) : s \in {x \in Orders : IsFirst(x, Consumed(p))}}
       [] pc[p] = "take" ->
            UNION {IF p \in oshare[s] THEN Holders(s) ELSE {olock[s]} \ {None, p} :
                     s \in {x \in Orders : IsFirst(x, Planned(p))}}
       [] pc[p] = "own" -> Holders(r.order)
       [] pc[p] = "insert" /\ r.key # None ->
            InsertingKey(p, r.key)
       [] OTHER -> {}

\* PostgreSQL's deadlock detector aborts a transaction of a wait cycle.
Deadlocked(p) ==
  \E C \in SUBSET Requests :
    p \in C /\ \A x \in C : WaitsFor(x) \cap C # {}
DeadlockVictim(p) == Deadlocked(p) /\ Abort(p)

\* A check inside the transaction throws.
Refused(p) ==
  LET r == req[p] IN
    \/ pc[p] = "insert" /\ r.key # None /\ PaymentWithKey(r.key) # {}
    \/ pc[p] = "insert" /\ r.kind = "createMovement" /\ r.amount > Own(p).balance
    \/ pc[p] = "plan" /\ r.amount > SumOf([s \in Orders |-> Available(p, s)])
    \/ pc[p] = "ready" /\ r.kind = "executeRefund" /\ ~RefundStillViable(r, Own(p))
    \/ pc[p] = "ready" /\ r.kind = "annulOrder"
                       /\ r.amount > ComputeMaxRetainableOnAnnul(Own(p))
Throw(p) == Refused(p) /\ Abort(p)

\* A statement that can run does run, a failed check rolls back, a deadlock is
\* broken.  Requests are users' choices: no fairness on Start.
LiveSpec ==
  Spec /\ \A p \in Requests :
            WF_vars(Step(p)) /\ WF_vars(Throw(p)) /\ WF_vars(DeadlockVictim(p))
=============================================================================
