------------------------ MODULE RefundRequestsProps ------------------------
(***************************************************************************)
(* What the refunds of an order promise.                                   *)
(***************************************************************************)
EXTENDS RefundRequests

\* The variables range over the columns and the steps of the operations.
TypeOK ==
  /\ order \in OrderRow /\ item \in Item \cup {None}
  /\ refunds \in [Rows -> Refund \cup {None}]
  /\ moved \in [Rows -> Nat] /\ unasked \in BOOLEAN
  /\ pc \in [Processes -> PCs]
  /\ job \in [Processes -> [row : Rows \cup {None}, form : Refund \cup {None},
                            answer : States \cup {None}]]
  /\ starts \in 0..MaxStarts

\* "Aprobar dos veces moveria el dinero dos veces": however many cashiers press
\* pay, and whatever management answers meanwhile, a request takes money out of the
\* drawer at most once, and only if it is marked as executed.
PaidOnce ==
  \A r \in Rows :
    /\ moved[r] <= 1
    /\ moved[r] = 1 => refunds[r] # None /\ refunds[r].executed

\* A step of a process holds a row that exists, and an answer if it answers.
JobsHoldRows ==
  \A p \in Processes :
    /\ pc[p] \in {"apply", "answer", "pay"} => job[p].row \in Taken
    /\ pc[p] = "answer" => job[p].answer \in States

\* The inductive invariant of PaidOnce.
RefundInv == TypeOK /\ PaidOnce /\ JobsHoldRows

\* What left the drawer for request r.
PaidOut(r) == IF refunds[r] = None THEN 0 ELSE moved[r] * refunds[r].amount

\* The money the order says was refunded is what left the drawer for it.
RefundedIsWhatMoved == order.refunded = SumFunction([r \in Rows |-> PaidOut(r)])

\* What was annulled is part of an item that is still in the order.  "Borrarlo, o
\* dejarlo con menos cantidad de la que se anulo, dejaria esa anulacion sin item que la
\* explique": update() refuses it, updateItem and removeItem do not.
AnnulmentsExplained ==
  /\ (\E r \in Taken : refunds[r].executed /\ refunds[r].units > 0) => item # None
  /\ item # None => item.annulled <= item.quantity

\* Between the requests that annul units of an item and the edits that give it others
\* or remove it, no item loses more units than it has: no refund ever takes it there,
\* and neither does any edit but one of an item of its own (updateItem, removeItem)
\* that has annulled units.
AnnulledWithinItem ==
  /\ [](~unasked => AnnulmentsExplained)
  /\ [][(item # None /\ item' # None /\ item'.annulled > item.annulled)
           => item'.annulled <= item'.quantity]_vars

\* The double click on "solicitar": one pending request per order.
OnePending == Cardinality(Pending) <= 1

\* What a review carries: an approval that pays nothing out is the one that applies the
\* annulment itself, and no answer opens a request again.
ReviewsFit ==
  \A p \in Processes :
    /\ pc[p] = "apply" => refunds[job[p].row].amount = 0
    /\ pc[p] = "answer" => job[p].answer # "PENDING"

\* The inductive invariant of RefundedIsWhatMoved and OnePending, beside RefundInv.
BooksInv == RefundedIsWhatMoved /\ ReviewsFit /\ \A r, s \in Pending : r = s

\* The inductive invariant of AnnulledWithinItem, beside RefundInv: a request that took
\* units took them from an item that is still there, and none is asked for as paid.
AnnulInv ==
  /\ \A p \in Processes :
       pc[p] = "insert" => job[p].form # None /\ job[p].form.executed = FALSE
  /\ ~unasked =>
       /\ (\E r \in Taken : refunds[r].executed /\ refunds[r].units > 0)
            => item # None /\ item.annulled > 0
       /\ item # None => item.annulled <= item.quantity

\* "Validar que no exista otra solicitud en curso": none pending and none
\* approved that Caja has not paid when another is in progress.
OneInProgress == Cardinality(InProgress) <= 1

\* A rejected request moves no money: "solo actualiza estado, sin efectos
\* financieros".
RejectedIsUnpaid ==
  \A r \in Taken : refunds[r].state = "REJECTED" => moved[r] = 0 /\ ~refunds[r].executed
=============================================================================
