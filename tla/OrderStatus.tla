---------------------------- MODULE OrderStatus ----------------------------
(***************************************************************************)
(* The status of one order: OrdersService.updateStatus, the status change  *)
(* requests that authorise the sensitive changes                           *)
(* (OrderStatusChangeRequestsService), their reviews from the web, from    *)
(* WhatsApp and by the expiry sweep, and the other writers of the column.  *)
(*                                                                         *)
(* None of these operations runs in one transaction: each is a sequence of *)
(* statements, and every step below is one of them.  A process p keeps the *)
(* order it read first in job[p] and decides on that.                      *)
(***************************************************************************)
EXTENDS StatusTable, Naturals, FiniteSets

CONSTANTS
  SeedStatuses,   \* statuses the order may be found in
  Targets,        \* statuses the operations of this instance ask for
  Users, Admins,  \* who uses the system, and which of them are administrators
  Rows,           \* ids of status change requests: naturals, in creation order
  Processes,      \* concurrent HTTP requests
  Kinds,          \* the operations enabled in this instance
  MaxStarts,      \* bound: operations started in a behaviour
  MaxFailures,    \* bound: operations that die between two statements
  None

AllKinds == {"create", "review", "whatsapp", "expire", "updateStatus", "execute", "update"}
RowStates == {"PENDING", "APPROVED", "REJECTED", "EXPIRED"}

ASSUME StatusAssumption ==
  /\ SeedStatuses \cup Targets \subseteq OrderStatuses /\ Admins \subseteq Users
  /\ Rows \subseteq Nat /\ Kinds \subseteq AllKinds
  /\ MaxStarts \in Nat /\ MaxFailures \in Nat
  /\ None \notin Rows

VARIABLES
  status,     \* orders.status
  owes,       \* whether orders.balance is positive
  held,       \* whether an advance payment or the client's owner awaits approval,
              \* or was rejected
  requests,   \* order_status_change_requests of the order
  uses,       \* uses[r]: changes of status made under request r (history)
  pc, job,    \* per process: next statement, and what it carries
  starts, failures

vars == <<status, owes, held, requests, uses, pc, job, starts, failures>>

Row == [user : Users, from : OrderStatuses, to : OrderStatuses, state : RowStates,
        consumed : BOOLEAN, direct : BOOLEAN]

ASSUME NoneAssumption == None \notin Users \cup OrderStatuses \cup Row

NoJob == [user |-> None, from |-> None, to |-> None, row |-> None, needs |-> FALSE,
          review |-> None]

PCs == {"idle", "insert", "review", "need", "approval", "consume", "write", "annul",
        "record", "consumeAfter", "close", "edit"}
-----------------------------------------------------------------------------
Taken == {r \in Rows : requests[r] # None}
Fresh(r) == r \in Rows \ Taken /\ \A x \in Rows \ Taken : r <= x

Pending(u, to) == {r \in Taken : /\ requests[r].state = "PENDING"
                                 /\ requests[r].user = u /\ requests[r].to = to}

Approved(u, to) ==
  {r \in Taken : /\ requests[r].state = "APPROVED" /\ ~requests[r].consumed
                 /\ requests[r].user = u /\ requests[r].to = to}

Goto(p, label) == pc' = [pc EXCEPT ![p] = label]

Begin(p, kind, j, label) ==
  /\ pc[p] = "idle" /\ kind \in Kinds /\ starts < MaxStarts
  /\ starts' = starts + 1
  /\ job' = [job EXCEPT ![p] = j] /\ Goto(p, label)
  /\ UNCHANGED <<status, owes, held, requests, uses, failures>>

Done(p) == Goto(p, "idle") /\ job' = [job EXCEPT ![p] = NoJob]

Insert(row) == \E r \in Rows : Fresh(r) /\ requests' = [requests EXCEPT ![r] = row]
-----------------------------------------------------------------------------
(* Status change requests.                                                  *)

StartCreate(p) ==
  \E u \in Users \ Admins, to \in Targets :
    /\ Pending(u, to) = {}
    /\ Begin(p, "create", [NoJob EXCEPT !.user = u, !.from = status, !.to = to], "insert")

NewRow(j) == [user |-> j.user, from |-> j.from, to |-> j.to, state |-> "PENDING",
              consumed |-> FALSE, direct |-> FALSE]

\* Mutant: no partial unique index, every insert succeeds.
InsertAlways(p) ==
  /\ pc[p] = "insert" /\ Insert(NewRow(job[p])) /\ Done(p)
  /\ UNCHANGED <<status, owes, held, uses, starts, failures>>

\* createOrReturnTwin: the partial unique index lets one PENDING row in, and
\* the loser of a double click returns it.
InsertRequest(p) ==
  /\ pc[p] = "insert"
  /\ IF Pending(job[p].user, job[p].to) = {}
     THEN Insert(NewRow(job[p])) ELSE UNCHANGED requests
  /\ Done(p)
  /\ UNCHANGED <<status, owes, held, uses, starts, failures>>

\* approve, reject, their WhatsApp handlers and the expiry sweep all read a
\* PENDING row first; only approve on the web compares the order's status.
StartReview(p) ==
  \E r \in Taken, decision \in {"APPROVED", "REJECTED"} :
    /\ requests[r].state = "PENDING"
    /\ decision = "APPROVED" => status = requests[r].from
    /\ Begin(p, "review", [NoJob EXCEPT !.row = r, !.review = decision], "review")

StartReviewViaWhatsApp(p) ==
  \E r \in Taken, decision \in {"APPROVED", "REJECTED"} :
    /\ requests[r].state = "PENDING"
    /\ Begin(p, "whatsapp", [NoJob EXCEPT !.row = r, !.review = decision], "review")

StartExpire(p) ==
  \E r \in Taken :
    /\ requests[r].state = "PENDING"
    /\ Begin(p, "expire", [NoJob EXCEPT !.row = r, !.review = "EXPIRED"], "review")

\* The update names the row by id alone: it does not check PENDING again.
CommitReview(p) ==
  /\ pc[p] = "review"
  /\ requests' = [requests EXCEPT ![job[p].row].state = job[p].review]
  /\ Done(p)
  /\ UNCHANGED <<status, owes, held, uses, starts, failures>>
-----------------------------------------------------------------------------
(* updateStatus.                                                            *)

\* Mutant: a backward step is taken for any step of the flow, both ways.
MayGoAnywhereBack(from, to) ==
  /\ to # from /\ (to # "ANULADO" => ~held)
  /\ IsValidTransition(from, to) \/ IsValidTransition(to, from)
  /\ to = "PAID" => ~owes

\* The checks on the order as it was read.
MayGo(from, to) ==
  /\ to # from /\ (to # "ANULADO" => ~held)
  /\ IsValidTransition(from, to) \/ IsBackwardTransition(from, to)
  /\ to = "PAID" => ~owes

StartUpdateStatus(p) ==
  \E u \in Users, to \in Targets :
    /\ MayGo(status, to)
    /\ Begin(p, "updateStatus", [NoJob EXCEPT !.user = u, !.from = status, !.to = to],
             IF to \in AlwaysAuthorized \/ IsBackwardTransition(status, to)
             THEN "need" ELSE "write")

Target(j) == IF j.to = "ANULADO" THEN "annul" ELSE "write"

\* Mutant: annulment is left out of the changes that need an authorisation.
NeededForCreditOnly(p) ==
  LET j == job[p]
      needs == j.user \notin Admins /\ j.to = "DELIVERED_ON_CREDIT"
  IN /\ pc[p] = "need"
     /\ job' = [job EXCEPT ![p].needs = needs]
     /\ Goto(p, IF needs THEN "approval" ELSE Target(j))
     /\ UNCHANGED <<status, owes, held, requests, uses, starts, failures>>

\* requiresAuthorization reads the order again to tell a step back.
RequiresAuthorization(p) ==
  LET j == job[p]
      needs == /\ j.user \notin Admins
               /\ j.to \in AlwaysAuthorized \/ IsBackwardTransition(status, j.to)
  IN /\ pc[p] = "need"
     /\ job' = [job EXCEPT ![p].needs = needs]
     /\ Goto(p, IF needs THEN "approval" ELSE Target(j))
     /\ UNCHANGED <<status, owes, held, requests, uses, starts, failures>>

\* An annulment and a delivery on credit consume the approval before the
\* change, a step back after it.
FindApproval(p) ==
  LET j == job[p] IN
    /\ pc[p] = "approval"
    /\ \E r \in Approved(j.user, j.to) : job' = [job EXCEPT ![p].row = r]
    /\ Goto(p, IF j.to \in AlwaysAuthorized THEN "consume" ELSE "write")
    /\ UNCHANGED <<status, owes, held, requests, uses, starts, failures>>

Forbidden(p) ==
  /\ pc[p] = "approval" /\ Approved(job[p].user, job[p].to) = {}
  /\ Done(p)
  /\ UNCHANGED <<status, owes, held, requests, uses, starts, failures>>

ConsumeApproved(p) ==
  LET j == job[p] IN
    requests' = [r \in Rows |-> IF r \in Approved(j.user, j.to)
                                THEN [requests[r] EXCEPT !.consumed = TRUE]
                                ELSE requests[r]]

ConsumeBefore(p) ==
  /\ pc[p] = "consume" /\ ConsumeApproved(p) /\ Goto(p, Target(job[p]))
  /\ UNCHANGED <<status, owes, held, uses, job, starts, failures>>

ConsumeAfter(p) ==
  /\ pc[p] = "consumeAfter" /\ ConsumeApproved(p) /\ Goto(p, "close")
  /\ UNCHANGED <<status, owes, held, uses, job, starts, failures>>

\* A change of status made under the approved request the process found.
UsedBy(p) ==
  uses' = IF job[p].row # None /\ status' # status
          THEN [uses EXCEPT ![job[p].row] = @ + 1] ELSE uses

Sensitive(j) == j.to \in AlwaysAuthorized \/ IsBackwardTransition(j.from, j.to)

AfterWrite(j) ==
  CASE j.needs /\ j.to \notin AlwaysAuthorized -> "consumeAfter"
    [] ~j.needs /\ Sensitive(j)                -> "record"
    [] OTHER                                   -> "close"

\* ordersRepository.updateStatus writes by id.
WriteStatus(p) ==
  /\ pc[p] = "write"
  /\ status' = job[p].to /\ UsedBy(p)
  /\ Goto(p, AfterWrite(job[p]))
  /\ UNCHANGED <<owes, held, requests, job, starts, failures>>

\* annulOrder locks the order but reads only its money columns.
AnnulOrder(p) ==
  /\ pc[p] = "annul"
  /\ status' = "ANULADO" /\ UsedBy(p)
  /\ Goto(p, AfterWrite(job[p]))
  /\ UNCHANGED <<owes, held, requests, job, starts, failures>>

\* The amount to retain no longer fits what the client paid.
RefuseAnnul(p) ==
  /\ pc[p] = "annul" /\ Done(p)
  /\ UNCHANGED <<status, owes, held, requests, uses, starts, failures>>

\* Mutant: a state the enum EditRequestStatus does not have.
RecordDirectAsDone(p) ==
  /\ pc[p] = "record"
  /\ Insert([NewRow(job[p]) EXCEPT !.state = "DONE", !.consumed = TRUE, !.direct = TRUE])
  /\ Goto(p, "close")
  /\ UNCHANGED <<status, owes, held, uses, job, starts, failures>>

\* recordDirectChange and recordDirectBackwardChange.
RecordDirect(p) ==
  /\ pc[p] = "record"
  /\ Insert([NewRow(job[p]) EXCEPT !.state = "APPROVED", !.consumed = TRUE,
                                   !.direct = TRUE])
  /\ Goto(p, "close")
  /\ UNCHANGED <<status, owes, held, uses, job, starts, failures>>

\* Mutant: only the requests of the user who made the change are closed.
ClosedIfMine(j, row) ==
  IF row.state = "PENDING" /\ row.to = j.to /\ row.user = j.user
  THEN [row EXCEPT !.state = "APPROVED", !.consumed = TRUE] ELSE row

\* Mutant: the requests already answered are closed as well.
ClosedThoughAnswered(j, row) ==
  IF row.to = j.to THEN [row EXCEPT !.state = "APPROVED", !.consumed = TRUE] ELSE row

ClosedIfReached(j, row) ==
  IF row.state = "PENDING" /\ row.to = j.to
  THEN [row EXCEPT !.state = "APPROVED", !.consumed = TRUE] ELSE row

ClosePending(p) ==
  /\ pc[p] = "close"
  /\ requests' = [r \in Rows |-> IF requests[r] = None THEN None
                                 ELSE ClosedIfReached(job[p], requests[r])]
  /\ Done(p)
  /\ UNCHANGED <<status, owes, held, uses, starts, failures>>
-----------------------------------------------------------------------------
(* The other writers of the row.                                            *)

\* A refund that annuls the whole sale (module OrderLedger): it locks the order
\* and leaves an annulled one alone.
ExecuteRefund(p) ==
  /\ "execute" \in Kinds /\ pc[p] = "idle" /\ starts < MaxStarts
  /\ status \notin {"ANULADO", "RETURNED"}
  /\ status' = "RETURNED" /\ starts' = starts + 1
  /\ UNCHANGED <<owes, held, requests, uses, pc, job, failures>>

\* update() refuses an annulled order and writes the status the body carries.
StartUpdate(p) ==
  \E u \in Users, to \in Targets :
    /\ status # "ANULADO"
    /\ Begin(p, "update", [NoJob EXCEPT !.user = u, !.from = status, !.to = to], "edit")

CommitUpdate(p) ==
  /\ pc[p] = "edit"
  /\ status' = job[p].to /\ Done(p)
  /\ UNCHANGED <<owes, held, requests, uses, starts, failures>>

\* Payments, edits and refunds move the balance; the approvals of Caja and of
\* the client's owner hold the order and release it.
OthersMove ==
  /\ \/ owes' = ~owes /\ UNCHANGED held
     \/ held' = ~held /\ UNCHANGED owes
  /\ UNCHANGED <<status, requests, uses, pc, job, starts, failures>>

\* A statement fails or the process dies: what was written stays.
Fail(p) ==
  /\ pc[p] # "idle" /\ failures < MaxFailures
  /\ failures' = failures + 1 /\ Done(p)
  /\ UNCHANGED <<status, owes, held, requests, uses, starts>>
-----------------------------------------------------------------------------
Init ==
  /\ status \in SeedStatuses /\ owes \in BOOLEAN /\ held \in BOOLEAN
  /\ requests = [r \in Rows |-> None] /\ uses = [r \in Rows |-> 0]
  /\ pc = [p \in Processes |-> "idle"] /\ job = [p \in Processes |-> NoJob]
  /\ starts = 0 /\ failures = 0

Start(p) ==
  \/ StartCreate(p) \/ StartReview(p) \/ StartReviewViaWhatsApp(p) \/ StartExpire(p)
  \/ StartUpdateStatus(p) \/ StartUpdate(p)

Step(p) ==
  \/ InsertRequest(p) \/ CommitReview(p) \/ RequiresAuthorization(p) \/ FindApproval(p)
  \/ Forbidden(p) \/ ConsumeBefore(p) \/ ConsumeAfter(p) \/ WriteStatus(p)
  \/ AnnulOrder(p) \/ RefuseAnnul(p) \/ RecordDirect(p) \/ ClosePending(p)
  \/ CommitUpdate(p)

Next == \/ \E p \in Processes : Start(p) \/ Step(p) \/ ExecuteRefund(p) \/ Fail(p)
        \/ OthersMove

Spec == Init /\ [][Next]_vars
=============================================================================
