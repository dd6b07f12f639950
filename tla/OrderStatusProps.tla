-------------------------- MODULE OrderStatusProps --------------------------
(***************************************************************************)
(* What the status of an order and its change requests promise.            *)
(***************************************************************************)
EXTENDS OrderStatus

Job == [user : Users \cup {None}, from : OrderStatuses \cup {None},
        to : OrderStatuses \cup {None}, row : Rows \cup {None}, needs : BOOLEAN,
        review : RowStates \cup {None}]

\* The variables range over the columns of the two tables and the statements of
\* the operations.
TypeOK ==
  /\ status \in OrderStatuses /\ owes \in BOOLEAN /\ held \in BOOLEAN
  /\ requests \in [Rows -> Row \cup {None}]
  /\ uses \in [Rows -> Nat]
  /\ pc \in [Processes -> PCs]
  /\ job \in [Processes -> Job]
  /\ starts \in 0..MaxStarts /\ failures \in 0..MaxFailures

\* The status follows the sequential flow of order-status-transitions.ts: module
\* StatusFlow, with the order's status as its status.
Flow == INSTANCE StatusFlow WITH status <- status, SeedStatuses <- SeedStatuses

\* The operations implement the flow: every change of status is a step of
\* ALLOWED_TRANSITIONS or BACKWARD_TRANSITIONS, or the return of the money.
FollowsFlow == Flow!Spec

\* The double click on "solicitar": a user has at most one pending request for
\* the same change, although create checks it before it inserts.
OnePendingPerChange ==
  \A u \in Users, to \in OrderStatuses : Cardinality(Pending(u, to)) <= 1

\* The process p changes the status in this step, through updateStatus.
Changes(p) == pc[p] \in {"write", "annul"} /\ pc'[p] # pc[p] /\ status' # status

\* updateStatus annuls or delivers on credit for a user who is not an
\* administrator only under a request of that user for that status which was
\* approved when it looked, whatever runs at the same time.  (It may not be
\* approved any more, nor be consumed: see ReviewedOnce.)
SensitiveChangeApproved ==
  [][\A p \in Processes :
       LET j == job[p] IN
         (Changes(p) /\ j.to \in AlwaysAuthorized /\ j.user \notin Admins) =>
           /\ j.row # None /\ requests[j.row].state # "PENDING"
           /\ requests[j.row].user = j.user /\ requests[j.row].to = j.to]_vars

\* "Un retroceso siempre exige [...] autorizacion del administrador para quien no
\* lo es": no other user moves the order to the status before without an
\* approved request.
BackwardApproved ==
  [][\A p \in Processes :
       LET j == job[p] IN
         (Changes(p) /\ IsBackwardTransition(j.from, j.to) /\ j.user \notin Admins)
           => j.row # None]_vars

\* An approval is good for one change: no request stands behind two.
SingleUse == \A r \in Rows : uses[r] <= 1

\* An approval is spent by the change it authorised: a consumed request which was
\* no administrator's own record is for a status the order was brought to under it.
ConsumedAfterApplied ==
  \A r \in Taken, p \in Processes :
    (job[p].row = r /\ requests[r].consumed) => (uses[r] > 0 \/ status = requests[r].to)

\* When nothing runs, no pending request asks for the status the order already
\* has: the ones that did were closed when it got there (except the requests
\* for RETURNED, which updateStatus never reaches).
NoGhostRequests ==
  (\A p \in Processes : pc[p] = "idle") =>
    \A r \in Taken :
      LET q == requests[r] IN
        (q.state = "PENDING" /\ q.from # q.to /\ q.to # "RETURNED") => q.to # status

\* "Salir de ANULADO o RETURNED: son terminales".
TerminalStays ==
  [][(status \in {"ANULADO", "RETURNED"}) => UNCHANGED status]_vars

\* A request is answered once: an answer is never replaced by another.
ReviewedOnce ==
  [][\A r \in Taken : requests[r].state # "PENDING" =>
                        requests'[r].state = requests[r].state]_vars

\* A request is answered once, and its approval serves once.
AnsweredAndUsedOnce == []SingleUse /\ ReviewedOnce

\* A request whose order moved on is not approved.
ApprovedWhileValid ==
  [][\A r \in Taken :
       (requests[r].state = "PENDING" /\ requests'[r].state = "APPROVED"
          /\ ~requests'[r].consumed) => status = requests[r].from]_vars

\* "No se puede cambiar al estado PAGADA con saldo pendiente".
PaidWithoutDebt == [][status # "PAID" /\ status' = "PAID" => ~owes]_vars
-----------------------------------------------------------------------------
\* What the job of each statement carries.
JobFollowsControl ==
  \A p \in Processes :
    LET j == job[p] IN
      /\ pc[p] \notin {"idle", "review"} =>
           j.user \in Users /\ j.from \in OrderStatuses /\ j.to \in OrderStatuses
      /\ pc[p] = "review" => j.row \in Taken /\ j.review \in RowStates \ {"PENDING"}
      /\ pc[p] = "consume" => j.to \in AlwaysAuthorized
      /\ pc[p] = "annul" => j.to = "ANULADO"

\* Who is about to annul or to deliver on credit holds a request that was approved for it.
GrantedWhenSensitive ==
  \A p \in Processes :
    LET j == job[p] IN
      (/\ pc[p] \in {"consume", "write", "annul"}
       /\ j.to \in AlwaysAuthorized /\ j.user \notin Admins) =>
        /\ j.row \in Taken /\ requests[j.row].state # "PENDING"
        /\ requests[j.row].user = j.user /\ requests[j.row].to = j.to

PendingDiffer ==
  \A u \in Users, to \in OrderStatuses : \A r, s \in Pending(u, to) : r = s

\* The inductive invariant, whatever runs at once.
StatusInv == TypeOK /\ PendingDiffer /\ JobFollowsControl /\ GrantedWhenSensitive

\* One request at a time, none of them dying half way, and no edit of the order that
\* carries a status.
OneAtATime == /\ \E p : Processes = {p}
              /\ MaxFailures = 0 /\ "update" \notin Kinds

BeforeChange == {"need", "approval", "consume", "write", "annul"}
AfterChange == {"consumeAfter", "record", "close"}

\* What updateStatus read is still so up to the change, which leaves the order where
\* it was asked to.
StatusAsRead ==
  \A p \in Processes :
    LET j == job[p] IN
      /\ pc[p] \in BeforeChange \cup {"insert"} => status = j.from
      /\ pc[p] \in BeforeChange =>
           /\ j.to # j.from
           /\ IsValidTransition(j.from, j.to) \/ IsBackwardTransition(j.from, j.to)
      /\ pc[p] \in AfterChange => status = j.to
      /\ pc[p] = "review" => requests[j.row].state = "PENDING"
      /\ pc[p] # "edit"

\* The approval a change stands on: found not yet used, and consumed before an
\* annulment or a delivery on credit, after a step back.
HoldsApproval ==
  \A p \in Processes :
    LET j == job[p] IN
      /\ pc[p] \in {"need", "approval"} => j.row = None
      /\ pc[p] = "approval" => j.needs
      /\ pc[p] \in {"consume", "write", "annul"} =>
           /\ j.needs <=> j.row # None
           /\ Sensitive(j) /\ j.user \notin Admins => j.row # None
           /\ j.row # None => /\ j.row \in Taken /\ uses[j.row] = 0
                              /\ IF pc[p] # "consume" /\ j.to \in AlwaysAuthorized
                                 THEN requests[j.row].consumed
                                 ELSE j.row \in Approved(j.user, j.to)
      /\ pc[p] = "consumeAfter" => j.row \in Approved(j.user, j.to)

UsedIsSpent ==
  \A r \in Rows :
    /\ uses[r] <= 1
    /\ uses[r] = 1 => /\ r \in Taken
                      /\ \/ requests[r].consumed
                         \/ \E p \in Processes : pc[p] = "consumeAfter" /\ job[p].row = r

\* Only between the change and its last statement does a pending request ask for the
\* status the order has.
GhostsAreClosed ==
  \A r \in Taken :
    LET q == requests[r] IN
      (q.state = "PENDING" /\ q.from # q.to /\ q.to # "RETURNED" /\ q.to = status)
        => \E p \in Processes : pc[p] \in AfterChange

\* The inductive invariant of one request at a time, beside StatusInv.
AloneInv == StatusAsRead /\ HoldsApproval /\ UsedIsSpent /\ GhostsAreClosed
=============================================================================
