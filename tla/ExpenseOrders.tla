--------------------------- MODULE ExpenseOrders ---------------------------
(***************************************************************************)
(* One expense order (OG) and the account payable that mirrors it.         *)
(*                                                                         *)
(* The order is signed by an administrator, directly or through a request, *)
(* and paid by Caja, which claims it with a conditional update, takes the  *)
(* money of each item out of the drawer and reflects it in the mirror.     *)
(* Once PAID it is edited with an approval good for one edit.              *)
(*                                                                         *)
(* Payables supplies the mirror, its payments and its own operations, and  *)
(* the processes both share.  No operation here is one transaction: each   *)
(* await that writes is a step; reads between two writes are one step when *)
(* they read different rows, or the same row twice.  How a total is split  *)
(* into items is left open: any amounts that add up to it.                 *)
(***************************************************************************)
EXTENDS Payables

CONSTANTS AuthRequests, EditRequests  \* ids: naturals, in creation order

VARIABLES
  order,       \* the row of expense_orders and the total of its items, or None
  born,        \* the order was inserted: the instance follows one
  authReqs,    \* expense_order_auth_requests
  editReqs,    \* expense_order_edit_requests
  signatures,  \* history: how often an administrator's signature was written
  paidOut,     \* history: how often Caja took the order's money out
  used         \* history: used[r], the edits that went through on approval r

requests == <<authReqs, editReqs>>
history == <<signatures, paidOut, used>>
orderVars == <<order, born, requests, history>>
allVars == <<vars, orderVars>>

OrderStatuses == {"DRAFT", "CREATED", "ADMIN_AUTHORIZED", "AUTHORIZED", "PAID"}
Unsigned == {"DRAFT", "CREATED"}
AllowedTransitions ==
  [s \in OrderStatuses |-> CASE s = "DRAFT"   -> {"CREATED", "ADMIN_AUTHORIZED"}
                             [] s = "CREATED" -> {"DRAFT", "ADMIN_AUTHORIZED"}
                             [] OTHER         -> {}]

AuthRequest == [user : Users, status : Answers]
EditRequest == [user : Users, status : Answers, consumed : BOOLEAN, expired : BOOLEAN]

ASSUME ExpenseOrdersAssumption ==
  /\ AuthRequests \subseteq Nat /\ EditRequests \subseteq Nat
  /\ None \notin [status : OrderStatuses, total : Int] \cup AuthRequest \cup EditRequest
                 \cup AuthRequests \cup EditRequests \cup {"create", "pay", "edit", "editPaid"}

InStatus(S) == IF order = None THEN FALSE ELSE order.status \in S

BeginOrder(p, kind, j, label) == Begin(p, kind, j, label) /\ UNCHANGED orderVars

\* Nothing of the order or of its mirror changes in this step.
OnlyControl == UNCHANGED <<rows, orderVars>>

\* An exception: an edit on an approval gives the approval back first.
Throw(p) ==
  /\ IF job[p].to = "editPaid" /\ job[p].row # None
       THEN Goto(p, "giveBack", job[p]) ELSE Done(p)
  /\ OnlyControl

\* The row of the order is written by id; without a row that throws.
WriteStatus(p, status, label) ==
  /\ order # None
  /\ order' = [status |-> status, total |-> order.total] /\ UNCHANGED born
  /\ Goto(p, label, IF label = "idle" THEN NoJob ELSE job[p])
-----------------------------------------------------------------------------
(* create: the key of the form makes a second click return the first order. *)

StartCreate(p) ==
  /\ ~born
  /\ \E t \in Totals :
       BeginOrder(p, "create", [NoJob EXCEPT !.amount = t, !.sum = t, !.to = "create"],
                  "insertOrder")

\* An administrator's order is born signed.
InsertOrder(p) ==
  /\ pc[p] = "insertOrder"
  /\ IF born THEN Done(p) /\ OnlyControl
     ELSE /\ \E s \in Unsigned \cup {"ADMIN_AUTHORIZED"} :
               /\ order' = [status |-> s, total |-> job[p].amount]
               /\ signatures' = signatures + (IF s = "ADMIN_AUTHORIZED" THEN 1 ELSE 0)
          /\ born' = TRUE
          /\ Goto(p, "findMirror", job[p])
          /\ UNCHANGED <<rows, requests, paidOut, used>>

\* createFromExpenseOrder; create ends with it, the others go on to settle.
MirrorReady(p) ==
  IF job[p].to = "create" THEN Done(p) ELSE Goto(p, "unreflected", job[p])

FindMirror(p) ==
  /\ pc[p] = "findMirror"
  /\ IF payable # None THEN MirrorReady(p) ELSE Goto(p, "insertMirror", job[p])
  /\ OnlyControl

InsertMirror(p) ==
  /\ pc[p] = "insertMirror" /\ payable = None /\ order # None
  /\ payable' = [status |-> "PENDING", total |-> job[p].sum, paid |-> 0,
                 balance |-> job[p].sum]
  /\ MirrorReady(p)
  /\ UNCHANGED <<payments, movements, payReqs, reversals, asked, orderVars>>

\* The account is unique by order, and refers to one that exists.
MirrorRefused(p) ==
  pc[p] = "insertMirror" /\ (payable # None \/ order = None) /\ Throw(p)
-----------------------------------------------------------------------------
(* updateStatus, and the request that leads an administrator to it.         *)

\* Signing needs an administrator, or an approved request: some user can.
StartUpdateStatus(p) ==
  /\ order # None
  /\ \E s \in AllowedTransitions[order.status] :
       BeginOrder(p, "updateStatus", NoJob, CASE s = "ADMIN_AUTHORIZED" -> "sign"
                                               [] s = "CREATED" -> "toCreated"
                                               [] OTHER -> "toDraft")

\* cajaReject sends the order back the same way.
StartCajaReject(p) ==
  /\ InStatus({"ADMIN_AUTHORIZED"})
  /\ BeginOrder(p, "cajaReject", NoJob, "toCreated")

SetStatus(p) ==
  /\ \/ pc[p] = "toCreated" /\ WriteStatus(p, "CREATED", "idle")
     \/ pc[p] = "toDraft" /\ WriteStatus(p, "DRAFT", "idle")
  /\ UNCHANGED <<rows, requests, history>>

Sign(p) ==
  /\ pc[p] = "sign" /\ WriteStatus(p, "ADMIN_AUTHORIZED", "closeRequests")
  /\ signatures' = signatures + 1
  /\ UNCHANGED <<rows, requests, paidOut, used>>

Closed(row) == IF row # None /\ row.status = "PENDING"
                 THEN [row EXCEPT !.status = "APPROVED"] ELSE row

\* closePendingRequestsForAuthorizedOrder.
CloseRequests(p) ==
  /\ pc[p] = "closeRequests"
  /\ authReqs' = [r \in AuthRequests |-> Closed(authReqs[r])]
  /\ Done(p)
  /\ UNCHANGED <<rows, order, born, editReqs, history>>

\* The partial unique index: one pending request of a user.
RequestAuthorization ==
  /\ AtOnce("authRequest") /\ order # None
  /\ \E u \in Users, r \in AuthRequests :
       /\ \A x \in Existing(authReqs) :
            ~(authReqs[x].user = u /\ authReqs[x].status = "PENDING")
       /\ Fresh(authReqs, r)
       /\ authReqs' = [authReqs EXCEPT ![r] = [user |-> u, status |-> "PENDING"]]
  /\ UNCHANGED <<rows, order, born, editReqs, history>>

StartAnswerRequest(p) ==
  \E r \in Existing(authReqs), to \in {"APPROVED", "REJECTED", "EXPIRED"} :
    /\ authReqs[r].status = "PENDING"
    /\ BeginOrder(p, "authRequest", [NoJob EXCEPT !.row = r, !.to = to], "answerRequest")

\* approve, reject, their WhatsApp forms and the sweep all write by id; the
\* approval then signs the order, if it can still be signed.
AnswerRequest(p) ==
  /\ pc[p] = "answerRequest"
  /\ IF authReqs[job[p].row] = None THEN Done(p) /\ OnlyControl
     ELSE /\ authReqs' = [authReqs EXCEPT ![job[p].row].status = job[p].to]
          /\ IF job[p].to = "APPROVED" THEN Goto(p, "autoSign", NoJob) ELSE Done(p)
          /\ UNCHANGED <<rows, order, born, editReqs, history>>

AutoSign(p) ==
  /\ pc[p] = "autoSign"
  /\ IF InStatus(Unsigned) THEN Goto(p, "sign", NoJob) ELSE Done(p)
  /\ OnlyControl
-----------------------------------------------------------------------------
(* cajaAuthorize: claim the order, take the money out, say it is PAID and   *)
(* reflect the money in the mirror.                                         *)

StartCajaAuthorize(p) ==
  /\ InStatus({"ADMIN_AUTHORIZED"})
  /\ BeginOrder(p, "cajaAuthorize",
                [NoJob EXCEPT !.amount = order.total, !.sum = order.total, !.to = "pay"], "claim")

\* Mutant: the claim is an update by id, as it was before the condition.
ClaimById(p) ==
  /\ pc[p] = "claim" /\ WriteStatus(p, "AUTHORIZED", "egress")
  /\ UNCHANGED <<rows, requests, history>>

ClaimCajaAuthorization(p) ==
  /\ pc[p] = "claim" /\ InStatus({"ADMIN_AUTHORIZED"})
  /\ WriteStatus(p, "AUTHORIZED", "egress")
  /\ UNCHANGED <<rows, requests, history>>

ClaimLost(p) ==
  pc[p] = "claim" /\ ~InStatus({"ADMIN_AUTHORIZED"}) /\ Done(p) /\ OnlyControl

\* Mutant: the first item is the only one paid.
InsertFirstEgress(p) ==
  /\ pc[p] \in {"egress", "nextEgress"}
  /\ \E m \in Movements, a \in Amounts :
       /\ Fresh(movements, m) /\ a <= job[p].amount
       /\ movements' = [movements EXCEPT ![m] =
                          [amount |-> a, source |-> "OG", voided |-> FALSE]]
       /\ Goto(p, "paid", [job[p] EXCEPT !.amount = @ - a])
  /\ paidOut' = IF pc[p] = "egress" THEN paidOut + 1 ELSE paidOut
  /\ UNCHANGED <<payable, payments, payReqs, reversals, asked, order, born, requests,
                 signatures, used>>

\* One movement per item, each of its own; the first is when money leaves.
InsertEgress(p) ==
  /\ pc[p] \in {"egress", "nextEgress"}
  /\ \E m \in Movements, a \in Amounts :
       /\ Fresh(movements, m) /\ a <= job[p].amount
       /\ movements' = [movements EXCEPT ![m] =
                          [amount |-> a, source |-> "OG", voided |-> FALSE]]
       /\ Goto(p, IF a = job[p].amount THEN "paid" ELSE "nextEgress",
               [job[p] EXCEPT !.amount = @ - a])
  /\ paidOut' = IF pc[p] = "egress" THEN paidOut + 1 ELSE paidOut
  /\ UNCHANGED <<payable, payments, payReqs, reversals, asked, order, born, requests,
                 signatures, used>>

\* Mutant: the order stays AUTHORIZED after its money left.
SetNothing(p) ==
  /\ pc[p] = "paid" /\ WriteStatus(p, "AUTHORIZED", "findMirror")
  /\ UNCHANGED <<rows, requests, history>>

SetPaid(p) ==
  /\ pc[p] = "paid" /\ WriteStatus(p, "PAID", "findMirror")
  /\ UNCHANGED <<rows, requests, history>>

\* settleFromExpenseOrderMovements: which money does no payment reflect?
Settled(p) ==
  IF job[p].to = "editPaid" THEN Goto(p, "refresh", job[p]) ELSE Done(p)

ReadUnreflected(p) ==
  /\ pc[p] = "unreflected"
  /\ IF (IF payable = None THEN TRUE ELSE payable.status = "CANCELLED") \/ Unreflected = {}
       THEN Settled(p)
       ELSE Goto(p, "reflect", [job[p] EXCEPT !.seen = payable, !.found = Unreflected])
  /\ OnlyControl

RankIn(S, x) == Cardinality({y \in S : y < x})
Free == Payments \ Existing(payments)

\* A payment for each movement found, in their order.
Reflected(found) ==
  [q \in Payments |->
     IF q \in Free /\ RankIn(Free, q) < Cardinality(found)
       THEN LET m == CHOOSE x \in found : RankIn(found, x) = RankIn(Free, q)
            IN  [amount |-> movements[m].amount, movement |-> m, request |-> None,
                 reversed |-> FALSE]
       ELSE payments[q]]

LiveSumOf(table) == SumOf(table, {q \in Existing(table) : ~table[q].reversed})
AnyReflected(found) == \E q \in Existing(payments) : payments[q].movement \in found

\* One transaction; a movement has one payment, and the total is the one read.
Reflect(p) ==
  /\ pc[p] = "reflect" /\ payable # None /\ ~AnyReflected(job[p].found)
  /\ Cardinality(job[p].found) <= Cardinality(Free)
  /\ payments' = Reflected(job[p].found)
  /\ LET paid == LiveSumOf(payments')
         balance == job[p].seen.total - paid
     IN  payable' = [payable EXCEPT !.paid = paid, !.balance = balance,
                                    !.status = AfterPayment(balance)]
  /\ Settled(p)
  /\ UNCHANGED <<movements, payReqs, reversals, asked, orderVars>>

ReflectRefused(p) ==
  pc[p] = "reflect" /\ (payable = None \/ AnyReflected(job[p].found)) /\ Throw(p)
-----------------------------------------------------------------------------
(* update and addItem, of an order nobody signed or of one already PAID.    *)

StartEdit(p) ==
  /\ InStatus(Unsigned)
  /\ \E t \in Totals :
       BeginOrder(p, "edit", [NoJob EXCEPT !.amount = t, !.to = "edit"], "items")

\* amountPaid; the tolerance of a peso is below the unit of the amounts.
AmountPaid ==
  IF payable # None THEN payable.paid + PaidThroughExpenseOrder
  ELSE SumOf(movements, {m \in Existing(movements) :
                           movements[m].source = "OG" /\ ~movements[m].voided})

Active(r, u) ==
  IF editReqs[r] = None THEN FALSE
  ELSE /\ editReqs[r].user = u /\ editReqs[r].status = "APPROVED"
       /\ ~editReqs[r].consumed /\ ~editReqs[r].expired

\* An administrator edits without a request (row None).
StartEditPaid(p) ==
  /\ InStatus({"PAID"})
  /\ \E t \in Totals, r \in EditRequests \cup {None} :
       /\ r # None => \E u \in Users : Active(r, u)
       /\ t >= AmountPaid
       /\ BeginOrder(p, "editPaid", [NoJob EXCEPT !.amount = t, !.row = r, !.to = "editPaid"],
                     IF r = None THEN "items" ELSE "consume")

\* Mutant: the approval found active is marked, used or not.
ConsumeAgain(p) ==
  /\ pc[p] = "consume" /\ editReqs[job[p].row] # None
  /\ editReqs' = [editReqs EXCEPT ![job[p].row].consumed = TRUE]
  /\ Goto(p, "items", job[p])
  /\ UNCHANGED <<rows, order, born, authReqs, history>>

Unused(r) == IF editReqs[r] = None THEN FALSE ELSE ~editReqs[r].consumed

ConsumeApproval(p) ==
  /\ pc[p] = "consume" /\ Unused(job[p].row)
  /\ editReqs' = [editReqs EXCEPT ![job[p].row].consumed = TRUE]
  /\ Goto(p, "items", job[p])
  /\ UNCHANGED <<rows, order, born, authReqs, history>>

ConsumeRefused(p) ==
  pc[p] = "consume" /\ ~Unused(job[p].row) /\ Done(p) /\ OnlyControl

ReplaceItems(p) ==
  /\ pc[p] = "items" /\ order # None
  /\ order' = [status |-> order.status, total |-> job[p].amount] /\ UNCHANGED born
  /\ Goto(p, "mirror", job[p])
  /\ UNCHANGED <<rows, requests, history>>

Edited(p) ==
  /\ Done(p)
  /\ used' = IF job[p].row = None THEN used ELSE [used EXCEPT ![job[p].row] = @ + 1]

\* Mutant: a settled account is left alone by the edit of a paid order too.
MirrorFollowsUnpaid(to, status) == status \notin {"PAID", "CANCELLED"}

\* An account settled follows only the edit of an order PAID.
MirrorFollows(to, status) ==
  status # "CANCELLED" /\ (to = "editPaid" \/ status # "PAID")

\* The order is read again, and its account.
ReadMirror(p) ==
  /\ pc[p] = "mirror" /\ order # None
  /\ LET j == [job[p] EXCEPT !.sum = order.total, !.seen = payable]
     IN  IF payable = None
           THEN IF job[p].to = "editPaid" THEN Goto(p, "findMirror", j) /\ UNCHANGED used
                ELSE Edited(p)
           ELSE IF MirrorFollows(job[p].to, payable.status)
                  THEN Goto(p, "sync", j) /\ UNCHANGED used
                  ELSE Edited(p)
  /\ UNCHANGED <<rows, order, born, requests, signatures, paidOut>>

\* syncFromExpenseOrder; the rest is for the edit of an order PAID.
Sync(p) ==
  /\ pc[p] = "sync" /\ payable # None
  /\ payable' = [payable EXCEPT !.total = job[p].sum,
                                !.balance = job[p].sum - job[p].seen.paid]
  /\ IF job[p].to = "editPaid" THEN Goto(p, "unreflected", job[p]) /\ UNCHANGED used
     ELSE Edited(p)
  /\ UNCHANGED <<payments, movements, payReqs, reversals, asked, order, born, requests,
                 signatures, paidOut>>

\* refreshFromLivePayments: the account and its live payments, then the write.
ReadLivePayments(p) ==
  /\ pc[p] = "refresh"
  /\ IF (IF payable = None THEN TRUE ELSE payable.status = "CANCELLED")
       THEN Edited(p)
       ELSE /\ Goto(p, "recalculate", [job[p] EXCEPT !.seen = payable,
                                                     !.sum = LiveSumOf(payments)])
            /\ UNCHANGED used
  /\ UNCHANGED <<rows, order, born, requests, signatures, paidOut>>

Refreshed(status, balance, paid) ==
  IF balance <= 0 THEN "PAID"
  ELSE IF status # "PAID" THEN status
  ELSE IF paid > 0 THEN "PARTIAL" ELSE "PENDING"

Recalculate(p) ==
  /\ pc[p] = "recalculate" /\ payable # None
  /\ LET balance == job[p].seen.total - job[p].sum
     IN  payable' = [payable EXCEPT !.paid = job[p].sum, !.balance = balance,
                       !.status = Refreshed(job[p].seen.status, balance, job[p].sum)]
  /\ Edited(p)
  /\ UNCHANGED <<payments, movements, payReqs, reversals, asked, order, born, requests,
                 signatures, paidOut>>

GiveBack(p) ==
  /\ pc[p] = "giveBack"
  /\ IF editReqs[job[p].row] = None THEN UNCHANGED editReqs
     ELSE editReqs' = [editReqs EXCEPT ![job[p].row].consumed = FALSE]
  /\ Done(p)
  /\ UNCHANGED <<rows, order, born, authReqs, history>>
-----------------------------------------------------------------------------
(* The request to edit an order PAID.                                       *)

RequestEdit ==
  /\ AtOnce("editRequest") /\ InStatus({"PAID"})
  /\ \E u \in Users, r \in EditRequests :
       /\ \A x \in Existing(editReqs) :
            ~Active(x, u) /\ ~(editReqs[x].user = u /\ editReqs[x].status = "PENDING")
       /\ Fresh(editReqs, r)
       /\ editReqs' = [editReqs EXCEPT ![r] = [user |-> u, status |-> "PENDING",
                                               consumed |-> FALSE, expired |-> FALSE]]
  /\ UNCHANGED <<rows, order, born, authReqs, history>>

StartAnswerEdit(p) ==
  \E r \in Existing(editReqs), to \in {"APPROVED", "REJECTED", "EXPIRED"} :
    /\ editReqs[r].status = "PENDING"
    /\ BeginOrder(p, "editRequest", [NoJob EXCEPT !.row = r, !.to = to], "answerEdit")

\* An approval opens its day anew.
AnswerEdit(p) ==
  /\ pc[p] = "answerEdit"
  /\ IF editReqs[job[p].row] = None THEN UNCHANGED editReqs
     ELSE editReqs' = [editReqs EXCEPT ![job[p].row].status = job[p].to,
                         ![job[p].row].expired = IF job[p].to = "APPROVED" THEN FALSE ELSE @]
  /\ Done(p)
  /\ UNCHANGED <<rows, order, born, authReqs, history>>

\* A day passes over an approval.
ApprovalExpires ==
  /\ AtOnce("editRequest")
  /\ \E r \in Existing(editReqs) :
       /\ editReqs[r].status = "APPROVED" /\ ~editReqs[r].expired
       /\ editReqs' = [editReqs EXCEPT ![r].expired = TRUE]
  /\ UNCHANGED <<rows, order, born, authReqs, history>>
-----------------------------------------------------------------------------
(* remove: an order nobody signed, whose account has no payment.            *)

StartRemove(p) ==
  /\ InStatus(Unsigned)
  /\ payable # None => payable.paid <= 0 /\ Existing(payments) = {}
  /\ BeginOrder(p, "remove", [NoJob EXCEPT !.seen = payable], "delete")

\* The account read goes with the order; what refers to them cascades.
Delete(p) ==
  /\ pc[p] = "delete" /\ order # None /\ (job[p].seen # None => payable # None)
  /\ order' = None /\ UNCHANGED born
  /\ authReqs' = [r \in AuthRequests |-> None] /\ editReqs' = [r \in EditRequests |-> None]
  /\ IF job[p].seen = None THEN UNCHANGED <<payable, payments, payReqs, reversals, asked>>
     ELSE /\ payable' = None
          /\ payments' = [q \in Payments |-> None]
          /\ payReqs' = [r \in PayRequests |-> None]
          /\ reversals' = [r \in PayRequests |-> None]
          /\ asked' = [u \in Users |-> None]
  /\ Done(p)
  /\ UNCHANGED <<movements, history>>

DeleteRefused(p) ==
  /\ pc[p] = "delete" /\ (order = None \/ (job[p].seen # None /\ payable = None))
  /\ Throw(p)
-----------------------------------------------------------------------------
\* The row to write by id was deleted: the call throws.
OrderGone(p) ==
  /\ pc[p] \in {"toCreated", "toDraft", "sign", "paid", "items", "mirror"} /\ order = None
  /\ Throw(p)

AccountGone(p) ==
  /\ pc[p] \in {"settle", "total", "cancel", "stamp", "undo", "undoRequest", "complete",
                "answerPayment", "answerReversal", "answerAuth", "sync", "recalculate"}
  /\ payable = None
  /\ Throw(p)

\* A database call of an edit fails, and what consumed the approval catches it.
EditFails(p) ==
  /\ pc[p] \in {"items", "mirror", "sync", "findMirror", "insertMirror", "unreflected",
                "reflect", "refresh", "recalculate"}
  /\ job[p].to = "editPaid" /\ job[p].row # None
  /\ failures < MaxFailures /\ failures' = failures + 1
  /\ pc' = [pc EXCEPT ![p] = "giveBack"]
  /\ OnlyControl /\ UNCHANGED <<job, starts, races>>

OrderStart(p) ==
  \/ StartCreate(p) \/ StartUpdateStatus(p) \/ StartCajaReject(p) \/ StartAnswerRequest(p)
  \/ StartCajaAuthorize(p) \/ StartEdit(p) \/ StartEditPaid(p) \/ StartAnswerEdit(p)
  \/ StartRemove(p)

OrderStep(p) ==
  \/ InsertOrder(p) \/ FindMirror(p) \/ InsertMirror(p) \/ MirrorRefused(p)
  \/ SetStatus(p) \/ Sign(p) \/ CloseRequests(p) \/ AnswerRequest(p) \/ AutoSign(p)
  \/ ClaimCajaAuthorization(p) \/ ClaimLost(p) \/ InsertEgress(p) \/ SetPaid(p)
  \/ ReadUnreflected(p) \/ Reflect(p) \/ ReflectRefused(p)
  \/ ConsumeApproval(p) \/ ConsumeRefused(p) \/ ReplaceItems(p) \/ ReadMirror(p)
  \/ Sync(p) \/ ReadLivePayments(p) \/ Recalculate(p) \/ GiveBack(p) \/ AnswerEdit(p)
  \/ Delete(p) \/ DeleteRefused(p) \/ OrderGone(p) \/ AccountGone(p)

OrderOthers == RequestAuthorization \/ RequestEdit \/ ApprovalExpires

\* No order, and so no account either.
OrderInit ==
  /\ payable = None
  /\ payments = [q \in Payments |-> None]
  /\ movements = [m \in Movements |-> None]
  /\ payReqs = [r \in PayRequests |-> None]
  /\ reversals = [r \in PayRequests |-> None]
  /\ asked = [u \in Users |-> None]
  /\ pc = [p \in Processes |-> "idle"]
  /\ job = [p \in Processes |-> NoJob]
  /\ starts = 0 /\ races = 0 /\ failures = 0
  /\ order = None
  /\ authReqs = [r \in AuthRequests |-> None]
  /\ editReqs = [r \in EditRequests |-> None]
  /\ born = FALSE /\ signatures = 0 /\ paidOut = 0 /\ used = [r \in EditRequests |-> 0]

OrderNext ==
  \/ Next /\ UNCHANGED orderVars
  \/ \E p \in Processes : OrderStart(p) \/ OrderStep(p) \/ EditFails(p)
  \/ OrderOthers

OrderSpec == OrderInit /\ [][OrderNext]_allVars

\* A request once begun goes on, while its process lives.
LiveOrderSpec == OrderSpec /\ \A p \in Processes : WF_allVars((Step(p) /\ UNCHANGED orderVars)
                                                                \/ OrderStep(p))
=============================================================================
