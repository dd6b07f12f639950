------------------------ MODULE ExpenseOrdersProps ------------------------
(***************************************************************************)
(* What is asked of an expense order and of the account that mirrors it.   *)
(***************************************************************************)
EXTENDS ExpenseOrders, PayablesProps

OrderPCs == PCs \cup
  {"insertOrder", "findMirror", "insertMirror", "toCreated", "toDraft", "sign", "closeRequests",
   "answerRequest", "autoSign", "claim", "egress",
   "nextEgress", "paid", "unreflected", "reflect",
   "consume", "items", "mirror", "sync", "refresh", "recalculate", "giveBack",
   "answerEdit", "delete"}

OrderRows == Payments \cup PayRequests \cup Users \cup AuthRequests \cup EditRequests
               \cup {None}
OrderTargets == PayReqStatuses \cup ReversalStatuses \cup Answers
                  \cup {"create", "pay", "edit", "editPaid", None}
OrderJob == JobOf(OrderRows, OrderTargets)

\* The columns and enums of the schema, and what a process may hold.
OrderTypeOK ==
  /\ order \in [status : OrderStatuses, total : Int] \cup {None} /\ born \in BOOLEAN
  /\ authReqs \in [AuthRequests -> AuthRequest \cup {None}]
  /\ editReqs \in [EditRequests -> EditRequest \cup {None}]
  /\ payable \in Payable \cup {None}
  /\ payments \in [Payments -> Payment \cup {None}]
  /\ movements \in [Movements -> Movement \cup {None}]
  /\ pc \in [Processes -> OrderPCs] /\ job \in [Processes -> OrderJob]
  /\ signatures \in Nat /\ paidOut \in Nat /\ used \in [EditRequests -> Nat]
  /\ starts \in 0..MaxStarts /\ races \in 0..MaxRaces /\ failures \in 0..MaxFailures

OrderMovements == {m \in Existing(movements) : movements[m].source = "OG"}

\* No payment of the account was taken back.
NoneReversed == \A q \in Existing(payments) : ~payments[q].reversed

\* cajaAuthorize: whatever races or dies, money leaves at most once for each
\* signature an administrator wrote (the claim is a conditional update).
Payout == INSTANCE SignedPayout WITH signed <- signatures, paid <- paidOut
PaysWhatIsSigned == Payout!Spec

\* Requests one at a time, an order lives as its form says and is paid in full,
\* or not at all, by one authorisation of Caja, even if processes die.
Life == INSTANCE ExpenseLife WITH
  phase <- IF order = None THEN "none"
           ELSE CASE order.status \in Unsigned -> "open"
                  [] order.status = "PAID" -> "paid"
                  [] OTHER -> "signed",
  total <- IF order = None THEN 0 ELSE order.total,
  out <- IF InStatus({"PAID"}) THEN SumOf(movements, OrderMovements) ELSE 0
LivesAsDescribed == Life!Spec

\* update, consumeApproval: an approval is good for one edit that goes through,
\* however many are saved at once, fail, or give it back.
EditUsedOnce == \A r \in EditRequests : used[r] <= 1

\* approve, closePendingRequestsForAuthorizedOrder: an approved request is of an
\* order that was signed, though its signing is another step and may be refused.
ApprovedIsSigned ==
  (Running = {} /\ failures = 0) =>
    \A r \in Existing(authReqs) : authReqs[r].status = "APPROVED" => signatures > 0

\* The types, and what the approvals of an order promise.
OrderInv == OrderTypeOK /\ EditUsedOnce /\ ApprovedIsSigned

\* settleFromExpenseOrderMovements: requests one at a time, the money of a paid
\* order is the money of payments of its account, unless that was cancelled (and
\* a payment taken back revived it since).
EgressReflected ==
  (Quiet /\ InStatus({"PAID"}) /\ payable # None /\ NoneReversed)
    => payable.status = "CANCELLED" \/ Unreflected = {}

\* A payment of the account that did not leave through the order.
PaidDirectly ==
  \E q \in Existing(payments) : payments[q].movement \notin OrderMovements

\* createFromExpenseOrder, syncFromExpenseOrder: requests one at a time, until a
\* payment is taken back and where nobody edits the account's own amount, order and
\* account have the same total, unless the account was cancelled, or settled by
\* payments of its own.
MirrorTotal ==
  (Quiet /\ order # None /\ payable # None /\ NoneReversed)
    => \/ payable.status = "CANCELLED" \/ payable.total = order.total
       \/ payable.status = "PAID" /\ PaidDirectly

\* refreshFromLivePayments: after any edits of a paid order, its account is PAID
\* exactly when it owes nothing.
PaidOrderOwes ==
  (Quiet /\ InStatus({"PAID"}) /\ payable # None /\ NoneReversed)
    => payable.status = "CANCELLED" \/ (payable.status = "PAID" <=> payable.balance <= 0)

\* One request at a time, the account says what its payments say.
MirrorPaidIsLive ==
  (Quiet /\ payable # None)
    => payable.paid = LiveSum /\ payable.balance = payable.total - LiveSum

\* The account mirrors the order: it has its total, it reflects its money, its
\* columns say what its payments say, and PAID means owing nothing.
MirrorIsOrder == EgressReflected /\ MirrorTotal /\ PaidOrderOwes /\ MirrorPaidIsLive

\* assertPayableAmount: a payment of an account whose columns are right never
\* pays again what left through the order, not even when the process that took
\* it out died before it reflected it.
CapCountsExpenseOrder ==
  [][(races' = 0 /\ payable # None /\ payable.paid = LiveSum
        /\ \E p \in Processes : pc[p] = "payment" /\ pc'[p] = "settle")
       => LiveSumOf(payments') + PaidThroughExpenseOrder <= payable.total]_allVars

\* cajaAuthorize: an order Caja claimed is paid, unless its process dies (or
\* the instance has no row left).
AuthorizedIsPaid ==
  InStatus({"AUTHORIZED"})
    ~> (~InStatus({"AUTHORIZED"}) \/ failures > 0 \/ Existing(movements) = Movements)

\* What the mirror is for: money does not leave twice for the same order.
NothingPaidTwice ==
  (Quiet /\ InStatus({"PAID"}))
    => SumOf(movements, {m \in Existing(movements) : ~movements[m].voided}) <= order.total

\* A paid order does not change its status.
PaidIsFinal == [][InStatus({"PAID"}) => InStatus({"PAID"})']_allVars
-----------------------------------------------------------------------------
\* The statements of an edit after it consumed its approval, which it then holds.
Editing == {"items", "mirror", "findMirror", "insertMirror", "sync", "unreflected",
            "reflect", "refresh", "recalculate", "giveBack"}
Holds(p, r) == pc[p] \in Editing /\ job[p].to = "editPaid" /\ job[p].row = r

\* An edit can still consume the approval, or the request can still be made.
MayServe(r) ==
  IF editReqs[r] = None THEN order # None \/ ~born ELSE ~editReqs[r].consumed

\* What the job of each statement of the order carries.
OrderFits(j, label) ==
  /\ label \in {"reflect", "sync", "recalculate"} => j.seen # None
  /\ label = "reflect" => j.found \subseteq Existing(movements)
  /\ label = "answerRequest" => j.row \in AuthRequests /\ j.to \in Answers
  /\ label = "answerEdit" => j.row \in EditRequests /\ j.to \in Answers
  /\ label \in {"consume", "giveBack"} => j.to = "editPaid" /\ j.row # None
  /\ label \in Editing \cup {"insertOrder", "claim", "egress", "nextEgress", "paid"}
       => j.to = "editPaid" \/ j.row = None
  /\ j.to = "editPaid" => /\ label \in {"consume"} \cup Editing
                          /\ j.row \in EditRequests \cup {None}
OrderJobFollows == \A p \in Processes : OrderFits(job[p], pc[p])

\* An order that was deleted leaves no request, and one that is not born has none.
RowsOfOrder ==
  /\ order = None => /\ authReqs = [r \in AuthRequests |-> None]
                     /\ editReqs = [r \in EditRequests |-> None]
  /\ order # None => born

\* Before its account is inserted, an order has none of the rows that refer to it.
AccountStarts ==
  /\ ~born => payable = None
  /\ (payable = None /\ (order # None \/ ~born)) =>
       /\ Existing(payments) = {} /\ Existing(payReqs) = {} /\ Existing(reversals) = {}
       /\ \A p \in Processes :
            pc[p] \notin {"complete", "answerPayment", "live", "undo", "liveOfRequest",
                          "undoRequest"}

\* An approval is held by one edit at most, marked meanwhile, and not used before.
ApprovalsHeld ==
  \A r \in EditRequests :
    /\ used[r] \in {0, 1}
    /\ \A p \in Processes :
         Holds(p, r) => /\ used[r] = 0 /\ \A q \in Processes : Holds(q, r) => p = q
                        /\ editReqs[r] # None => editReqs[r].consumed
    /\ MayServe(r) => used[r] = 0 /\ \A p \in Processes : ~Holds(p, r)

\* A signature was written before any status it leads to, and before what was
\* approved if no process is still about to write it.
SignedBefore ==
  /\ order # None /\ order.status \notin Unsigned => signatures > 0
  /\ \A p \in Processes :
       pc[p] \in {"closeRequests", "egress", "nextEgress", "paid"} => signatures > 0
  /\ \A r \in Existing(authReqs) :
       authReqs[r].status = "APPROVED" /\ failures = 0
         => signatures > 0 \/ \E p \in Processes : pc[p] \in {"autoSign", "sign"}

\* The inductive invariant of an order and its account, whatever runs at once.
OrderAccountInv ==
  /\ OrderTypeOK /\ AccountInv(OrderRows, OrderTargets, OrderPCs)
  /\ OrderJobFollows /\ RowsOfOrder /\ AccountStarts /\ ApprovalsHeld /\ SignedBefore
-----------------------------------------------------------------------------
(* One request at a time: what the order and its account keep between two   *)
(* of them, and what each statement read is still so when it writes.        *)

MoneyOut == SumOf(movements, OrderMovements)

\* The statements of an edit, or of a payment by Caja, from its first write of the
\* order to its last of the account: until it is PAID's money that is reflected, and
\* until the account owes what its new total says.
Reflecting == {"findMirror", "insertMirror", "unreflected", "reflect"}
Refreshing == {"unreflected", "reflect", "refresh", "recalculate"}
Mirroring == {"mirror", "sync"} \cup Reflecting \cup Refreshing

\* The account as one that its order's money can still be told from.
Followed == payable # None /\ payable.status # "CANCELLED" /\ NoneReversed

\* Where the order is at each of its statements.
OrderAsRead(j, label) ==
  /\ label \in {"insertOrder", "items", "consume"} => j.amount \in Totals
  /\ label = "insertOrder" => ~born /\ j.sum = j.amount /\ j.to = "create"
  /\ label \in {"sign", "delete"} => InStatus(Unsigned)
  /\ label = "toCreated" => InStatus({"DRAFT", "ADMIN_AUTHORIZED"})
  /\ label = "toDraft" => InStatus({"CREATED"})
  /\ label = "claim" => InStatus({"ADMIN_AUTHORIZED"}) /\ j.amount = order.total
  /\ label \in {"egress", "nextEgress"} =>
       InStatus({"AUTHORIZED"}) /\ MoneyOut + j.amount = order.total
  /\ label = "paid" => InStatus({"AUTHORIZED"}) /\ MoneyOut = order.total
  /\ label \in {"claim", "egress", "nextEgress", "paid"} =>
       j.to = "pay" /\ j.sum = order.total
  /\ label = "consume" => InStatus({"PAID"}) /\ j.to = "editPaid"
  /\ label \in {"items", "mirror", "sync"} =>
       \/ j.to = "edit" /\ InStatus(Unsigned)
       \/ j.to = "editPaid" /\ InStatus({"PAID"})
  /\ label \in {"findMirror", "insertMirror"} =>
       /\ order # None /\ j.sum = order.total
       /\ \/ j.to = "create" /\ ~InStatus({"AUTHORIZED", "PAID"})
          \/ j.to \in {"pay", "editPaid"} /\ InStatus({"PAID"})
  /\ label \in Refreshing => j.to \in {"pay", "editPaid"} /\ InStatus({"PAID"})

\* Where the account is.
AccountAsRead(j, label) ==
  /\ label \in {"assert", "movement", "payment", "settle", "find", "live", "undo", "total",
                "sync", "reflect", "recalculate", "delete"} => j.seen = payable
  /\ label \in {"assert", "movement", "payment", "settle", "cancel"} => PayableOpen
  /\ label \in {"complete", "reread", "assert", "movement", "payment"} => j.amount > 0
  /\ label \in {"movement", "payment"} => j.amount <= payable.balance - PaidThroughExpenseOrder
  /\ label \in {"live", "undo", "liveOfRequest", "undoRequest"} => j.row \in LivePayments
  /\ label \in {"undo", "undoRequest"} => j.sum = SumOf(payments, LivePayments \ {j.row})
  /\ label = "total" => "update" \in Kinds /\ AmountEditable(payable) /\ j.amount \in Totals
  /\ label = "stamp" => payable # None /\ payable.status = "PENDING"

\* Where the one is beside the other.
MirrorAsRead(j, label) ==
  /\ label \in {"sync", "reflect", "recalculate"} => payable.status # "CANCELLED"
  /\ label = "findMirror" /\ j.to = "editPaid" => payable = None
  /\ label = "insertMirror" => payable = None
  /\ label = "sync" => /\ j.sum = order.total
                       /\ j.to = "edit" => payable.status # "PAID"
  /\ label \in {"nextEgress", "paid"} => Unreflected # {}
  /\ label \in {"findMirror", "insertMirror", "unreflected"} /\ j.to = "pay" => Unreflected # {}
  /\ label = "reflect" => j.found = Unreflected /\ Unreflected # {}
  /\ label = "recalculate" => j.sum = LiveSum
  /\ label \in {"refresh", "recalculate"} => j.to = "editPaid"
  /\ label \in Refreshing /\ j.to = "editPaid" /\ Followed /\ "update" \notin Kinds
       => payable.total = order.total

AsRead(j, label) == OrderAsRead(j, label) /\ AccountAsRead(j, label) /\ MirrorAsRead(j, label)

\* Nothing leaves for an order before Caja claims it; its total, like every amount,
\* is not zero; and what an account owes is what it has not paid.
BooksStand ==
  /\ order # None => order.total \in Totals
  /\ ~InStatus({"AUTHORIZED", "PAID"}) => OrderMovements = {}
  /\ AmountsPositive /\ \A m \in Existing(movements) : movements[m].amount > 0
  /\ payable # None => payable.balance = payable.total - payable.paid /\ payable.total > 0

\* While no process died: the account says what its payments say, PAID is owing
\* nothing, the money of a paid order is that of payments, and the totals agree,
\* but for the statements that are about to make it so.
MirrorStands(j, label) ==
  /\ payable # None => LiveSum = IF label = "settle" THEN payable.paid + j.amount
                                 ELSE payable.paid
  /\ Followed /\ payable.status = "PAID" /\ ~(label \in Refreshing /\ j.to = "editPaid")
       => payable.balance <= 0
  /\ Followed /\ InStatus({"PAID"}) /\ label \notin Mirroring /\ payable.balance <= 0
       => payable.status = "PAID"
  /\ Followed /\ InStatus({"PAID"}) /\ label \notin Reflecting => Unreflected = {}
  /\ Followed /\ order # None /\ label \notin {"mirror", "sync"} /\ "update" \notin Kinds
       => payable.total = order.total \/ (payable.status = "PAID" /\ PaidDirectly)

Stands(j, label) ==
  AsRead(j, label) /\ BooksStand /\ (failures = 0 => MirrorStands(j, label))

\* The inductive invariant of one request at a time on an order and its account.
LoneInv ==
  /\ OneRuns
  /\ races = 0 => /\ Running = {} => Stands(NoJob, "idle")
                  /\ \A p \in Running : Stands(job[p], pc[p])
=============================================================================
