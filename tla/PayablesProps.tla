--------------------------- MODULE PayablesProps ---------------------------
(***************************************************************************)
(* What is asked of Payables.                                              *)
(***************************************************************************)
EXTENDS Payables

\* The columns and enums of the schema, and what a process may hold.
TypeOK ==
  /\ payable \in Payable \cup {None}
  /\ payments \in [Payments -> Payment \cup {None}]
  /\ movements \in [Movements -> Movement \cup {None}]
  /\ payReqs \in [PayRequests -> PayReq \cup {None}]
  /\ reversals \in [PayRequests -> ReversalStatuses \cup {None}]
  /\ asked \in [Users -> Answers \cup {None}]
  /\ pc \in [Processes -> PCs] /\ job \in [Processes -> Job]
  /\ starts \in 0..MaxStarts /\ races \in 0..MaxRaces /\ failures \in 0..MaxFailures

\* Requests have come one at a time, and none has failed.
Calm == races = 0 /\ failures = 0
Quiet == Calm /\ Running = {}

LiveSum == SumOf(payments, LivePayments)

\* deletePayment, cajaApprove of a reversal: a payment is never reversed while
\* its money still counts as having left the drawer, whatever races or dies.
ReversedIsVoided ==
  \A q \in Existing(payments) :
    (payments[q].reversed /\ payments[q].movement # None)
      => movements[payments[q].movement].voided

\* cajaApprove of a reversal: a completed request has its payment reversed, for
\* good, although deletePayment may reverse the same payment at the same time.
CompletedIsReversed ==
  \A r \in PayRequests :
    reversals[r] = "COMPLETED" => \E q \in PaymentOf(r) : payments[q].reversed

\* One request at a time, the account says what its payments say, through any
\* sequence of payments, reversals, edits, cancellations and sweeps.
PaidIsLive ==
  (Quiet /\ payable # None)
    => payable.paid = LiveSum /\ payable.balance = payable.total - LiveSum

\* One request at a time, no more is paid than the account is worth, not even
\* after its total was edited between payments and reversals.
NeverOverpaid == (Quiet /\ payable # None) => LiveSum <= payable.total

\* One request at a time, PAID and owing nothing are the same.
PaidOwesNothing ==
  (Quiet /\ payable # None) => (payable.status = "PAID" <=> payable.balance <= 0)

\* One request at a time, money that left the drawer for the account and was
\* not voided is the money of a live payment.
MoneyHasPayment ==
  Quiet => \A m \in Existing(movements) :
    (movements[m].source = "AP" /\ ~movements[m].voided)
      => \E q \in LivePayments : /\ payments[q].movement = m
                                 /\ payments[q].amount = movements[m].amount

\* One request at a time, a cancelled account takes no payment, and with nothing
\* paid it stays as it is (registerPayment, update and cancel refuse it).
CancelledStays ==
  [][(Calm' /\ payable # None /\ payable.status = "CANCELLED")
       => /\ LivePayments' \subseteq LivePayments
          /\ LivePayments = {} => payable' = payable]_vars

\* A reversal is whole: the payment, its movement and the request that asked for
\* it end together, although a direct deletion may do the same at the same time.
ReversalIsWhole == ReversedIsVoided /\ CompletedIsReversed

\* One request at a time, the columns of the account, its payments and the money
\* that left the drawer tell the same story.
AccountIsItsPayments == PaidIsLive /\ NeverOverpaid /\ PaidOwesNothing /\ MoneyHasPayment

\* What a cancelled account was: a reversal of one of its payments revives it.
CancelledForGood ==
  [][(Calm' /\ payable # None /\ payable.status = "CANCELLED")
       => payable'.status = "CANCELLED"]_vars

\* A request Caja completed has its payment.
CompletedIsPaid ==
  Quiet => \A r \in Existing(payReqs) :
    payReqs[r].status = "COMPLETED" => PaymentOf(r) # {}

\* Completing a payment request takes money out once.
RequestPaysOnce ==
  (failures = 0 /\ Running = {}) => \A m \in Existing(movements) :
    (movements[m].source = "AP" /\ ~movements[m].voided)
      => \E q \in LivePayments : payments[q].movement = m
-----------------------------------------------------------------------------
\* The types again, for processes that may hold rows R and targets T and have labels
\* L: those of an expense order run beside those of its account.
JobOf(R, T) ==
  [row : R, to : T, amount : Int, seen : Payable \cup {None}, movement : Movements \cup {None},
   request : PayRequests \cup {None}, sum : Int, found : SUBSET Movements]

TablesTyped ==
  /\ payable \in Payable \cup {None}
  /\ payments \in [Payments -> Payment \cup {None}]
  /\ movements \in [Movements -> Movement \cup {None}]
  /\ payReqs \in [PayRequests -> PayReq \cup {None}]
  /\ reversals \in [PayRequests -> ReversalStatuses \cup {None}]
  /\ asked \in [Users -> Answers \cup {None}]

Typed(R, T, L) ==
  TablesTyped /\ pc \in [Processes -> L] /\ job \in [Processes -> JobOf(R, T)]

\* What the job of each statement carries.
JobFits(j, label) ==
  /\ label \in {"assert", "movement", "payment", "settle", "find", "live", "undo", "total"}
       => j.seen # None
  /\ label \in {"find", "live", "undo", "liveOfRequest", "undoRequest"} => j.row \in Payments
  /\ label \in {"complete", "answerPayment", "answerReversal", "liveOfRequest", "undoRequest"}
       => j.request # None
  /\ label = "answerPayment" => j.to \in PayReqStatuses
  /\ label = "answerReversal" => j.to \in ReversalStatuses \ {"COMPLETED"}
  /\ label = "answerAuth" => j.row \in Users /\ j.to \in Answers
JobFollowsControl == \A p \in Processes : JobFits(job[p], pc[p])

\* While the account exists, so do the rows that its processes found.
FoundBy(j, label) ==
  /\ j.movement # None => j.movement \in Existing(movements)
  /\ payable # None =>
       /\ label \in {"complete", "answerPayment"} => j.request \in Existing(payReqs)
       /\ label \in {"live", "undo"} => j.row \in Existing(payments)
       /\ label \in {"liveOfRequest", "undoRequest"} => j.row \in PaymentOf(j.request)
RowsFound == \A p \in Processes : FoundBy(job[p], pc[p])

MovementsExist ==
  \A q \in Existing(payments) :
    payments[q].movement # None => payments[q].movement \in Existing(movements)

\* The inductive invariant of an account, whatever runs at once.
AccountInv(R, T, L) ==
  Typed(R, T, L) /\ JobFollowsControl /\ RowsFound /\ MovementsExist /\ ReversalIsWhole

\* While no operation was a race, one runs at a time.
OneRuns == races = 0 => \A p, q \in Running : p = q

\* Nothing of an expense order reaches an account that has none.
OwnMovements ==
  /\ payable # None
  /\ \A m \in Existing(movements) : movements[m].source = "AP"

\* No amount is zero: an edit or a payment of nothing is refused at the door.
AmountsPositive ==
  /\ \A q \in Existing(payments) : payments[q].amount > 0
  /\ \A r \in Existing(payReqs) : payReqs[r].amount > 0

\* The columns agree with each other: an account is not overpaid, and is PAID when
\* it owes nothing.
ColumnsAgree ==
  /\ payable.balance = payable.total - payable.paid /\ payable.total > 0
  /\ payable.paid <= payable.total
  /\ payable.status = "PAID" <=> payable.balance <= 0

\* Every movement in force is a payment's, or that of the payment being inserted.
MovementsSpoken ==
  \A m \in Existing(movements) :
    ~movements[m].voided =>
      \/ \E q \in LivePayments : /\ payments[q].movement = m
                                 /\ payments[q].amount = movements[m].amount
      \/ \E p \in Processes : pc[p] = "payment" /\ job[p].movement = m

\* A request that has its payment was completed.
RequestsPaid ==
  \A q \in Existing(payments) :
    payments[q].request # None => /\ payments[q].request \in Existing(payReqs)
                                  /\ payReqs[payments[q].request].status = "COMPLETED"

\* What an operation read is still so when it writes.
StillAsRead(j, label) ==
  /\ label \in {"assert", "movement", "payment", "settle"} => j.seen = payable /\ PayableOpen
  /\ label \in {"movement", "payment", "settle"} => j.amount <= payable.balance
  /\ label \in {"complete", "reread", "assert", "movement"} => j.movement = None
  /\ label = "payment" /\ j.movement # None => movements[j.movement].amount = j.amount
  /\ label \in {"reread", "assert", "movement", "payment"} /\ j.request # None
       => /\ j.request \in Existing(payReqs)
          /\ payReqs[j.request].status = "COMPLETED" /\ PaymentOf(j.request) = {}
  /\ label = "complete" => payReqs[j.request].status = "ADMIN_APPROVED"
  /\ label = "answerPayment" => payReqs[j.request].status # "COMPLETED"
  /\ label = "settle" => LiveSum = payable.paid + j.amount
  /\ label \in {"find", "live", "undo"} => j.seen = payable
  /\ label \in {"live", "undo", "liveOfRequest", "undoRequest"} => j.row \in LivePayments
  /\ label \in {"undo", "undoRequest"} => j.sum = SumOf(payments, LivePayments \ {j.row})
  /\ label = "total" => j.seen = payable /\ AmountEditable(payable)
  /\ label = "cancel" => PayableOpen
  /\ label = "stamp" => payable.status = "PENDING"
  /\ label \in {"complete", "reread", "assert", "movement", "payment", "settle", "total"}
       => j.amount > 0

\* The inductive invariant of one request at a time, beside AccountInv.
OneStory ==
  /\ OwnMovements /\ AmountsPositive /\ RequestsPaid /\ MovementsSpoken /\ ColumnsAgree
  /\ (\A p \in Processes : pc[p] # "settle") => payable.paid = LiveSum
  /\ \A p \in Processes : StillAsRead(job[p], pc[p])
CalmInv == OneRuns /\ (Calm => OneStory)
=============================================================================
