--------------------------- MODULE RefundRequests ---------------------------
(***************************************************************************)
(* The life of a refund of one order (RefundRequestsService): asked for,   *)
(* reviewed by management from the panel or WhatsApp or expired, and paid  *)
(* by Caja, possibly days later, against whatever the order has become.    *)
(*                                                                         *)
(* Each operation reads first and checks (Start...), and then writes in    *)
(* one statement or one transaction (the other action of the pair).  The   *)
(* transactions lock the request row and then the order, so each is one    *)
(* step.  So do the edits of items, whose first statement locks the order  *)
(* or the item a refund would annul.  The item of the refunds has price 1. *)
(***************************************************************************)
EXTENDS OrderMoney, FiniteSets, Functions

CONSTANTS
  Rows,        \* ids of refund requests: naturals, in creation order
  Processes,   \* concurrent HTTP requests
  OtherItems,  \* what the order's other items are worth, 0 if it has none
  MaxUnits,    \* bound: units of the item
  MaxPaid,     \* bound: what the client has paid
  MaxStarts,   \* bound: operations started in a behaviour
  None

VARIABLES
  order,      \* the order's columns
  item,       \* its item: quantity and annulledQuantity; None once it is removed
  refunds,    \* refund_requests
  moved,      \* moved[r]: cash movements created for r (history)
  unasked,    \* an item with annulled units was written without asking for them (history)
  pc, job,    \* per process: its next step, and the row or the form it read
  starts

vars == <<order, item, refunds, moved, unasked, pc, job, starts>>

States == {"PENDING", "APPROVED", "REJECTED", "EXPIRED"}
\* CONFIRMED stands for every live status but the first.
Statuses == {"DRAFT", "CONFIRMED", "ANULADO", "RETURNED"}
OrderRow == [status : Statuses, total : Int, paid : Int, applied : Int, refunded : Int,
             reversed : Int]
Item == [quantity : Nat, annulled : Nat]
Refund == [amount : Nat, reversed : Nat, units : Nat, state : States, executed : BOOLEAN]

PCs == {"idle", "insert", "apply", "answer", "pay", "update", "updateItem", "removeItem"}
NoJob == [row |-> None, form |-> None, answer |-> None]

Amounts == 0..MaxPaid

ASSUME RefundAssumption ==
  /\ Rows \subseteq Nat /\ IsFiniteSet(Rows) /\ None \notin Rows \cup Refund \cup Item
  /\ OtherItems \in Nat /\ MaxUnits \in Nat \ {0} /\ MaxPaid \in Nat /\ MaxStarts \in Nat
-----------------------------------------------------------------------------
Taken == {r \in Rows : refunds[r] # None}
Fresh(r) == r \in Rows \ Taken /\ \A x \in Rows \ Taken : r <= x

Pending == {r \in Taken : refunds[r].state = "PENDING"}
InProgress == {r \in Taken : \/ refunds[r].state = "PENDING"
                             \/ refunds[r].state = "APPROVED" /\ ~refunds[r].executed}

Alive == item.quantity - item.annulled

\* What could leave the drawer once that much more of the sale is annulled.
AvailableAfter(reversed) ==
  ComputeAvailableOverpayment([order EXCEPT !.reversed = @ + reversed])

\* Mutant: the units left of the item are not counted again.
ViableMoney(f) ==
  /\ order.status = "ANULADO" => f.reversed = 0
  /\ f.reversed <= order.total - order.reversed
  /\ f.amount <= AvailableAfter(f.reversed)
  /\ f.units > 0 => item # None

\* assertRefundStillViable and loadAnnullableLines: a line whose item was removed
\* has lost its reference (ON DELETE SET NULL).
Viable(f) ==
  /\ order.status = "ANULADO" => f.reversed = 0
  /\ f.reversed <= order.total - order.reversed
  /\ f.amount <= AvailableAfter(f.reversed)
  /\ f.units > 0 => item # None /\ f.units <= Alive

Goto(p, label) == pc' = [pc EXCEPT ![p] = label]
Done(p) == Goto(p, "idle") /\ job' = [job EXCEPT ![p] = NoJob]

Begin(p, j, label) ==
  /\ pc[p] = "idle" /\ starts < MaxStarts
  /\ starts' = starts + 1
  /\ job' = [job EXCEPT ![p] = j] /\ Goto(p, label)
  /\ UNCHANGED <<order, item, refunds, moved, unasked>>
-----------------------------------------------------------------------------
(* create.                                                                  *)

\* An annulment of units keeps back less than they are worth and may pay out
\* nothing; a refund by amount pays out something.
Form(f) ==
  \/ f.units > 0 /\ f.reversed \in 1..f.units
  \/ f.units = 0 /\ f.amount > 0

StartCreate(p) ==
  \E a \in Amounts, rev \in 0..MaxUnits, u \in 0..MaxUnits :
    LET f == [amount |-> a, reversed |-> rev, units |-> u,
              state |-> "PENDING", executed |-> FALSE]
    IN /\ order.status # "RETURNED" /\ InProgress = {}
       /\ Form(f) /\ Viable(f)
       /\ Begin(p, [NoJob EXCEPT !.form = f], "insert")

\* Mutant: no partial unique index, every insert succeeds.
InsertAlways(p) ==
  /\ pc[p] = "insert"
  /\ \E r \in Rows : Fresh(r) /\ refunds' = [refunds EXCEPT ![r] = job[p].form]
  /\ Done(p)
  /\ UNCHANGED <<order, item, moved, unasked, starts>>

\* createOrReturnTwin: the index lets one PENDING request of the order in; the
\* check that none is approved and unpaid is not repeated.
InsertRequest(p) ==
  /\ pc[p] = "insert"
  /\ \/ /\ Pending = {}
        /\ \E r \in Rows : Fresh(r) /\ refunds' = [refunds EXCEPT ![r] = job[p].form]
     \/ Pending # {} /\ UNCHANGED refunds
  /\ Done(p)
  /\ UNCHANGED <<order, item, moved, unasked, starts>>
-----------------------------------------------------------------------------
(* approve, reject and the expiry sweep.                                    *)

\* An annulment that pays nothing out is applied by the approval itself.
StartApprove(p) ==
  \E r \in Pending :
    /\ Viable(refunds[r])
    /\ Begin(p, [NoJob EXCEPT !.row = r, !.answer = "APPROVED"],
             IF refunds[r].amount = 0 THEN "apply" ELSE "answer")

StartReject(p) ==
  \E r \in Pending :
    Begin(p, [NoJob EXCEPT !.row = r, !.answer = "REJECTED"], "answer")

StartExpire(p) ==
  \E r \in Pending :
    Begin(p, [NoJob EXCEPT !.row = r, !.answer = "EXPIRED"], "answer")

\* The update names the request by id alone.
Answer(p) ==
  /\ pc[p] = "answer"
  /\ refunds' = [refunds EXCEPT ![job[p].row].state = job[p].answer]
  /\ Done(p)
  /\ UNCHANGED <<order, item, moved, unasked, starts>>

\* annulledQuantity of the line's item, if the request has one.
Annulled(i, units) == IF units = 0 THEN i ELSE [i EXCEPT !.annulled = @ + units]

\* Mutant: the order does not record what it gave back.
AppliedUnrecorded(f) ==
  LET reversed == order.reversed + f.reversed
  IN /\ Viable(f)
     /\ item' = Annulled(item, f.units)
     /\ order' = [order EXCEPT !.paid = @ - f.amount, !.reversed = reversed]

\* applyToOrder, on the locked order: the check is repeated, and the order is
\* returned when nothing of a sale is left.
ApplyToOrder(f) ==
  LET reversed == order.reversed + f.reversed
  IN /\ Viable(f)
     /\ item' = Annulled(item, f.units)
     /\ order' = [order EXCEPT !.paid = @ - f.amount, !.refunded = @ + f.amount,
                    !.reversed = reversed,
                    !.status = IF @ # "ANULADO" /\ reversed >= order.total /\ order.total > 0
                               THEN "RETURNED" ELSE @]

\* approveAndApply claims the row while it is still PENDING.
ApproveAndApply(p) ==
  LET r == job[p].row IN
    /\ pc[p] = "apply" /\ refunds[r].state = "PENDING"
    /\ ApplyToOrder(refunds[r])
    /\ refunds' = [refunds EXCEPT ![r].state = "APPROVED", ![r].executed = TRUE]
    /\ Done(p)
    /\ UNCHANGED <<moved, unasked, starts>>
-----------------------------------------------------------------------------
(* execute: Caja pays.                                                      *)

StartExecute(p) ==
  \E r \in Taken :
    /\ refunds[r].state = "APPROVED" /\ ~refunds[r].executed
    /\ Viable(refunds[r])
    /\ Begin(p, [NoJob EXCEPT !.row = r], "pay")

\* Mutant: the transaction does not claim the row.
PayUnclaimed(p) ==
  LET r == job[p].row IN
    /\ pc[p] = "pay"
    /\ ApplyToOrder(refunds[r])
    /\ refunds' = [refunds EXCEPT ![r].executed = TRUE]
    /\ moved' = [moved EXCEPT ![r] = @ + 1]
    /\ Done(p)
    /\ UNCHANGED <<unasked, starts>>

\* The claim is on executedAt: whether the request is still approved is not
\* asked again.
Pay(p) ==
  LET r == job[p].row IN
    /\ pc[p] = "pay" /\ ~refunds[r].executed
    /\ ApplyToOrder(refunds[r])
    /\ refunds' = [refunds EXCEPT ![r].executed = TRUE]
    /\ moved' = [moved EXCEPT ![r] = @ + 1]
    /\ Done(p)
    /\ UNCHANGED <<unasked, starts>>

\* A check inside the transaction throws, a statement fails, the process dies.
Abort(p) ==
  /\ pc[p] # "idle" /\ Done(p)
  /\ UNCHANGED <<order, item, refunds, moved, unasked, starts>>
-----------------------------------------------------------------------------
(* The edits of an order's items.  The order was read, and its status asked  *)
(* for, before the transaction.                                             *)

StartUpdate(p) == order.status # "ANULADO" /\ Begin(p, NoJob, "update")

\* Items are changed and removed one by one only in a draft.
StartUpdateItem(p) ==
  order.status = "DRAFT" /\ item # None /\ Begin(p, NoJob, "updateItem")

\* One item has to be left.
StartRemoveItem(p) ==
  /\ order.status = "DRAFT" /\ item # None /\ OtherItems > 0
  /\ Begin(p, NoJob, "removeItem")

\* recalculateOrderTotals.
Worth(i) == OtherItems + (IF i = None THEN 0 ELSE i.quantity)

Rewritten(i, status) ==
  /\ item' = i
  /\ order' = [order EXCEPT !.total = Worth(i), !.status = status]

\* update(): a body may name another status, and list the items it keeps.  One with
\* annulled units has to stay, with no fewer than those.
Update(p) ==
  /\ pc[p] = "update"
  /\ \E status \in Statuses :
       \/ Rewritten(item, status)
       \/ /\ item # None
          /\ \E q \in 1..MaxUnits :
               q >= item.annulled /\ Rewritten([item EXCEPT !.quantity = q], status)
       \/ item # None /\ item.annulled = 0 /\ Rewritten(None, status)
  /\ Done(p)
  /\ UNCHANGED <<refunds, moved, unasked, starts>>

\* updateItem and removeItem do not look at the annulled units.
Unasked == unasked' = (unasked \/ item.annulled > 0)

UpdateItem(p) ==
  /\ pc[p] = "updateItem" /\ item # None
  /\ \E q \in 1..MaxUnits : Rewritten([item EXCEPT !.quantity = q], order.status)
  /\ Unasked /\ Done(p)
  /\ UNCHANGED <<refunds, moved, starts>>

RemoveItem(p) ==
  /\ pc[p] = "removeItem" /\ item # None
  /\ Rewritten(None, order.status)
  /\ Unasked /\ Done(p)
  /\ UNCHANGED <<refunds, moved, starts>>
-----------------------------------------------------------------------------
(* What the rest of the system does to the order meanwhile (OrderLedger).   *)

PaymentsMove ==
  /\ \E paid \in 0..MaxPaid : order' = [order EXCEPT !.paid = paid]
  /\ UNCHANGED <<item, refunds, moved, unasked, pc, job, starts>>

\* updateStatus.
Confirm ==
  /\ order.status = "DRAFT"
  /\ order' = [order EXCEPT !.status = "CONFIRMED"]
  /\ UNCHANGED <<item, refunds, moved, unasked, pc, job, starts>>

AnnulOrder ==
  /\ order.status \in {"DRAFT", "CONFIRMED"}
  /\ \E retained \in 0..ComputeMaxRetainableOnAnnul(order) :
       order' = [order EXCEPT !.status = "ANULADO", !.reversed = order.total - retained]
  /\ UNCHANGED <<item, refunds, moved, unasked, pc, job, starts>>
-----------------------------------------------------------------------------
Init ==
  /\ order = [status |-> "DRAFT", total |-> MaxUnits + OtherItems, paid |-> 0,
              applied |-> 0, refunded |-> 0, reversed |-> 0]
  /\ item = [quantity |-> MaxUnits, annulled |-> 0]
  /\ refunds = [r \in Rows |-> None] /\ moved = [r \in Rows |-> 0] /\ unasked = FALSE
  /\ pc = [p \in Processes |-> "idle"] /\ job = [p \in Processes |-> NoJob]
  /\ starts = 0

Start(p) ==
  \/ StartCreate(p) \/ StartApprove(p) \/ StartReject(p) \/ StartExpire(p)
  \/ StartExecute(p) \/ StartUpdate(p) \/ StartUpdateItem(p) \/ StartRemoveItem(p)

Step(p) ==
  \/ InsertRequest(p) \/ Answer(p) \/ ApproveAndApply(p) \/ Pay(p)
  \/ Update(p) \/ UpdateItem(p) \/ RemoveItem(p) \/ Abort(p)

Next == \/ \E p \in Processes : Start(p) \/ Step(p)
        \/ PaymentsMove \/ Confirm \/ AnnulOrder

Spec == Init /\ [][Next]_vars
=============================================================================
