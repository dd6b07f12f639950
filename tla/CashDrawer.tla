----------------------------- MODULE CashDrawer -----------------------------
(***************************************************************************)
(* Cash sessions, the movements registered in them, the payments those     *)
(* movements come from and the requests to void them: modules cash-session,*)
(* cash-movement, cash-movement-void-requests and the cash side of the     *)
(* payments of orders.                                                     *)
(*                                                                         *)
(* A request reads first (Start..., Read..., Sum...) and writes in one     *)
(* transaction at its Commit...: no statement of those transactions writes *)
(* a value read in the same transaction, except where a step of its own    *)
(* says so (LockEdit, InsertSession).  None of them deletes a row.         *)
(***************************************************************************)
EXTENDS Integers, FiniteSets, Functions

CONSTANTS
  Registers, Locations, LocationOf,   \* cash registers and the sede of each
  Sessions, Movements, Payments,      \* ids: naturals, taken in order
  VoidRequests,                       \* ids of requests to void: naturals
  Requests,                           \* concurrent HTTP requests
  Kinds,                              \* the operations enabled
  Methods,                            \* payment methods in use
  Amounts,                            \* amounts of payments and movements
  MaxStarts,                          \* bound: requests started
  None

\* CREDIT stands for the methods that bring no money in: CREDIT_BALANCE, CREDIT
\* and PAYROLL_DEDUCTION; TRANSFER for those that never reach the drawer.
AllMethods == {"CASH", "TRANSFER", "CREDIT"}
PaymentMovesCash(method) == method # "CREDIT"

AllKinds == {"addPayment", "updatePayment", "createMovement", "voidMovement",
             "voidPayment", "requestVoid", "approveVoid", "rejectVoid",
             "openSession", "closeSession"}

ASSUME DrawerAssumption ==
  /\ Methods \subseteq AllMethods /\ Kinds \subseteq AllKinds
  /\ LocationOf \in [Registers -> Locations]
  /\ Sessions \cup Movements \cup Payments \cup VoidRequests \subseteq Nat
  /\ IsFiniteSet(Movements)
  /\ Amounts \subseteq Nat /\ MaxStarts \in Nat
  /\ None \notin Registers \cup Sessions \cup Movements \cup Payments \cup VoidRequests
  /\ None \notin Requests \cup AllMethods

VARIABLES
  sessions, movements, payments, voidRequests, plock, pc, job, starts,
  raced  \* history: a request began while another one was running

rows == <<sessions, movements, payments, voidRequests>>
vars == <<sessions, movements, payments, voidRequests, plock, pc, job, starts, raced>>

\* reverses is the inverse side of counterMovementId: set on a counter-movement;
\* ofOrder is referenceType = 'ORDER'.
SessionRow == [register : Registers, open : BOOLEAN, systemBalance : Int]
MovementRow == [session : Sessions, income : BOOLEAN, method : AllMethods,
                amount : Amounts, voided : BOOLEAN, ofOrder : BOOLEAN,
                reverses : Movements \cup {None}]
PaymentRow == [location : Locations, method : AllMethods, amount : Amounts,
               voided : BOOLEAN, movement : Movements \cup {None}, pending : BOOLEAN]
VoidRow == [movement : Movements \cup {None}, payment : Payments \cup {None},
            status : {"PENDING", "APPROVED", "REJECTED"}]

\* No row is the absence of one.
ASSUME RowAssumption == None \notin SessionRow \cup MovementRow \cup PaymentRow \cup VoidRow

\* What a request carries from one step to the next; seen is the list of pending
\* payments flushInto has read.
NoJob == [kind |-> None, location |-> None, register |-> None, session |-> None,
          movement |-> None, payment |-> None, request |-> None, method |-> None,
          previous |-> None, concept |-> None, amount |-> 0,
          seen |-> [q \in {} |-> None]]

Existing(table) == {x \in DOMAIN table : table[x] # None}
Fresh(table) == DOMAIN table \ Existing(table)
NextId(table) == CHOOSE x \in Fresh(table) : \A y \in Fresh(table) : x <= y

Insert(table, row) == [table EXCEPT ![NextId(table)] = row]
-----------------------------------------------------------------------------
OpenSessions == {s \in Existing(sessions) : sessions[s].open}
OpenOf(register) == {s \in OpenSessions : sessions[s].register = register}

\* findActiveCashSessionForLocation refuses to choose between two open drawers.
OpenIn(location) ==
  {s \in OpenSessions : LocationOf[sessions[s].register] = location}
OneActive(location) == Cardinality(OpenIn(location)) <= 1
ActiveSession(location) ==
  IF OpenIn(location) = {} THEN None ELSE CHOOSE s \in OpenIn(location) : TRUE

LinkedPayments(m) ==
  {q \in Existing(payments) : payments[q].movement = m}

\* CASH_IN_DRAWER_WHERE: neither voided nor a reversal, and paid in cash.
InDrawer(s) ==
  {m \in Existing(movements) :
     /\ movements[m].session = s /\ ~movements[m].voided
     /\ movements[m].method = "CASH" /\ movements[m].reverses = None}

ComputeSystemBalance(s) ==
  SumFunction([m \in InDrawer(s) |-> IF movements[m].income THEN movements[m].amount
                                    ELSE -movements[m].amount])

\* Mutant: the reversal of a closed session's movement belongs to none.
OwnSessionOrNone(m) ==
  LET s == movements[m].session IN IF sessions[s].open THEN {s} ELSE {None}

\* resolveCounterSessionId: the movement's own session while it is open, else
\* the one now open on the same register.
CounterSessions(m) ==
  LET s == movements[m].session
  IN IF sessions[s].open THEN {s} ELSE OpenOf(sessions[s].register)

\* The income of a payment of an order.
IncomeRow(session, method, amount) ==
  [session |-> session, income |-> TRUE, method |-> method, amount |-> amount,
   voided |-> FALSE, ofOrder |-> TRUE, reverses |-> None]
-----------------------------------------------------------------------------
Begin(p, j, label) ==
  /\ pc[p] = "idle" /\ starts < MaxStarts /\ j.kind \in Kinds
  /\ starts' = starts + 1
  /\ raced' = (raced \/ \E q \in Requests \ {p} : pc[q] # "idle")
  /\ job' = [job EXCEPT ![p] = j]
  /\ pc' = [pc EXCEPT ![p] = label]
  /\ UNCHANGED <<rows, plock>>

Finish(p) ==
  /\ pc' = [pc EXCEPT ![p] = "idle"]
  /\ job' = [job EXCEPT ![p] = NoJob]
  /\ plock' = [q \in Payments |-> IF plock[q] = p THEN None ELSE plock[q]]
  /\ UNCHANGED <<starts, raced>>

Continue(p, changed, label) ==
  /\ job' = [job EXCEPT ![p] = changed]
  /\ pc' = [pc EXCEPT ![p] = label]
  /\ UNCHANGED <<rows, starts, raced>>

\* A failed check, an aborted transaction or a dead process: what is committed
\* stays, the rest is gone.
Abort(p) ==
  /\ pc[p] # "idle" /\ Finish(p)
  /\ UNCHANGED rows
-----------------------------------------------------------------------------
(* addPayment: the active session is read before the transaction.           *)

\* pendingCashEntry: money that finds no open session waits for the next one.
Queued(session, method) == session = None /\ PaymentMovesCash(method)

StartAddPayment(p) ==
  \E l \in Locations, m \in Methods, a \in Amounts :
    /\ OneActive(l) /\ Fresh(payments) # {} /\ Fresh(movements) # {}
    /\ Begin(p, [NoJob EXCEPT !.kind = "addPayment", !.location = l, !.method = m,
                              !.amount = a, !.session = ActiveSession(l)], "commit")

CommitAddPayment(p) ==
  LET j == job[p]
      enters == j.session # None /\ PaymentMovesCash(j.method)
  IN
    /\ pc[p] = "commit" /\ j.kind = "addPayment"
    /\ Fresh(payments) # {} /\ Fresh(movements) # {}
    /\ movements' = IF enters
         THEN Insert(movements, IncomeRow(j.session, j.method, j.amount))
         ELSE movements
    /\ payments' = Insert(payments,
         [location |-> j.location, method |-> j.method, amount |-> j.amount,
          voided |-> FALSE, movement |-> IF enters THEN NextId(movements) ELSE None,
          pending |-> Queued(j.session, j.method)])
    /\ Finish(p)
    /\ UNCHANGED <<sessions, voidRequests>>

AcceptsMovements(s) == sessions[s].open

\* createMovement in cash, and the expenses, refunds and payables paid out of the
\* active session: the session is read open, and never again.
StartCreateMovement(p) ==
  \E s \in Existing(sessions), a \in Amounts, concept \in {"INCOME", "EXPENSE", "ORDER"} :
    /\ AcceptsMovements(s)
    /\ Fresh(movements) # {} /\ (concept = "ORDER" => Fresh(payments) # {})
    /\ Begin(p, [NoJob EXCEPT !.kind = "createMovement", !.session = s, !.amount = a,
                              !.concept = concept], "commit")

CommitCreateMovement(p) ==
  LET j == job[p] IN
    /\ pc[p] = "commit" /\ j.kind = "createMovement"
    /\ Fresh(movements) # {} /\ (j.concept = "ORDER" => Fresh(payments) # {})
    /\ movements' = Insert(movements, [IncomeRow(j.session, "CASH", j.amount)
           EXCEPT !.income = j.concept # "EXPENSE", !.ofOrder = j.concept = "ORDER"])
    /\ payments' = IF j.concept = "ORDER"
         THEN Insert(payments,
                [location |-> LocationOf[sessions[j.session].register],
                 method |-> "CASH", amount |-> j.amount, voided |-> FALSE,
                 movement |-> NextId(movements), pending |-> FALSE])
         ELSE payments
    /\ Finish(p)
    /\ UNCHANGED <<sessions, voidRequests>>
-----------------------------------------------------------------------------
(* updatePayment: payment.paymentMethod is read before the transaction.     *)

StartUpdatePayment(p) ==
  \E q \in Existing(payments), m \in Methods, a \in Amounts :
    Begin(p, [NoJob EXCEPT !.kind = "updatePayment", !.payment = q, !.method = m,
                           !.amount = a, !.previous = payments[q].method], "lock")

\* payment.update locks the row; syncPaymentCashMovement then reads the active
\* session if it will need one.
LockEdit(p) ==
  LET j == job[p]
      l == payments[j.payment].location
      enters == /\ payments[j.payment].movement = None
                /\ ~PaymentMovesCash(j.previous) /\ PaymentMovesCash(j.method)
  IN
    /\ pc[p] = "lock" /\ plock[j.payment] = None
    /\ enters => OneActive(l)
    /\ plock' = [plock EXCEPT ![j.payment] = p]
    /\ Continue(p, [j EXCEPT !.session = IF enters THEN ActiveSession(l) ELSE None], "commit")

Unlinked(row) == [row EXCEPT !.movement = None]

\* Mutant: the movement takes the new method and keeps the old amount.
MethodOnly(row, method, amount) == [row EXCEPT !.method = method]

Edited(row, method, amount) == [row EXCEPT !.method = method, !.amount = amount]

Voided(row) == [row EXCEPT !.voided = TRUE]

\* syncPaymentCashMovement on the updated payment row.
CommitEdit(p) ==
  LET j == job[p]
      old == payments[j.payment]
      row == [old EXCEPT !.method = j.method, !.amount = j.amount]
      m == old.movement
  IN
    /\ pc[p] = "commit" /\ j.kind = "updatePayment"
    /\ \/ /\ m # None /\ ~PaymentMovesCash(j.method)
          /\ movements' = [movements EXCEPT ![m] = Voided(@)]
          /\ payments' = [payments EXCEPT ![j.payment] = Unlinked(row)]
       \/ /\ m # None /\ PaymentMovesCash(j.method)
          /\ movements' = [movements EXCEPT ![m] = Edited(@, j.method, j.amount)]
          /\ payments' = [payments EXCEPT ![j.payment] = row]
       \/ /\ m = None /\ ~PaymentMovesCash(j.previous) /\ PaymentMovesCash(j.method)
          /\ Fresh(movements) # {}
          /\ IF j.session # None
             THEN /\ movements' = Insert(movements, IncomeRow(j.session, j.method, j.amount))
                  /\ payments' = [payments EXCEPT ![j.payment] =
                                    [row EXCEPT !.movement = NextId(movements)]]
             ELSE /\ payments' = [payments EXCEPT ![j.payment] = [row EXCEPT !.pending = TRUE]]
                  /\ UNCHANGED movements
       \/ /\ m = None /\ (PaymentMovesCash(j.previous) \/ ~PaymentMovesCash(j.method))
          /\ payments' = [payments EXCEPT ![j.payment] = row]
          /\ UNCHANGED movements
    /\ Finish(p)
    /\ UNCHANGED <<sessions, voidRequests>>
-----------------------------------------------------------------------------
(* Voiding: voidMovement, voidPayment, and the approval of a void request.  *)

LiveMovement(q) ==
  LET m == payments[q].movement
  IN IF m # None /\ ~movements[m].voided THEN m ELSE None

StartVoidMovement(p) ==
  \E m \in Existing(movements) :
    Begin(p, [NoJob EXCEPT !.kind = "voidMovement", !.movement = m], "readMovement")

\* A live movement is voided with its payment; a payment without one, alone.
VoidLabel(m) == IF m # None THEN "readMovement" ELSE "voidPayment"

\* Voiding directly needs the payment's session open, or no live movement.
StartVoidPayment(p) ==
  \E q \in Existing(payments) :
    LET m == LiveMovement(q) IN
      /\ ~payments[q].voided
      /\ m # None => sessions[movements[m].session].open
      /\ Begin(p, [NoJob EXCEPT !.kind = "voidPayment", !.payment = q, !.movement = m],
               VoidLabel(m))

\* The reads of voidMovement: not voided yet, where the reversal goes, what it
\* reverses, and which payment the movement belongs to.
ReadMovement(p) ==
  LET j == job[p] IN
    /\ pc[p] = "readMovement" /\ ~movements[j.movement].voided
    /\ \E s \in CounterSessions(j.movement),
          q \in (IF LinkedPayments(j.movement) = {} THEN {None}
                 ELSE LinkedPayments(j.movement)) :
         Continue(p, [j EXCEPT !.session = s, !.payment = q,
                               !.method = movements[j.movement].method,
                               !.amount = movements[j.movement].amount], "voidMovement")
    /\ UNCHANGED plock

\* Mutant: the receipt numbers are not unique.
NoReversal(m) == {}

Reversals(m) == {x \in Existing(movements) : movements[x].reverses = m}

\* The transaction of voidMovement.  The unique receipt number `-ANUL` of the
\* reversal makes a second one fail.
CommitVoidMovement(p) ==
  LET j == job[p]
      m == j.movement
      reversal == [movements[m] EXCEPT !.session = j.session, !.voided = FALSE,
                     !.method = j.method, !.amount = j.amount,
                     !.income = ~@, !.reverses = m]
  IN
    /\ pc[p] = "voidMovement" /\ Fresh(movements) # {}
    /\ Reversals(m) = {}
    /\ j.payment # None => plock[j.payment] = None
    /\ movements' = [Insert(movements, reversal) EXCEPT ![m] = Voided(@)]
    /\ payments' = IF j.payment = None THEN payments
                   ELSE [payments EXCEPT ![j.payment] = Voided(@)]
    /\ Finish(p)
    /\ UNCHANGED <<sessions, voidRequests>>

\* voidPaymentWithoutMovement looks at nothing before it voids the payment.
CommitVoidPayment(p) ==
  /\ pc[p] = "voidPayment" /\ plock[job[p].payment] = None
  /\ payments' = [payments EXCEPT ![job[p].payment] = Voided(@)]
  /\ Finish(p)
  /\ UNCHANGED <<sessions, movements, voidRequests>>

\* voidPayment without the permission, or on a closed session: a request on the
\* payment's live movement, or on the payment itself.  The partial unique indexes
\* allow one pending request per target.
RequestVoid ==
  \E q \in Existing(payments) :
    LET m == LiveMovement(q)
        target == [movement |-> m, payment |-> IF m = None THEN q ELSE None,
                   status |-> "PENDING"]
    IN
      /\ "requestVoid" \in Kinds /\ Fresh(voidRequests) # {} /\ starts < MaxStarts
      /\ ~payments[q].voided
      /\ \A v \in Existing(voidRequests) : voidRequests[v] # target
      /\ voidRequests' = Insert(voidRequests, target)
      /\ starts' = starts + 1
      /\ raced' = (raced \/ \E p \in Requests : pc[p] # "idle")
      /\ UNCHANGED <<sessions, movements, payments, plock, pc, job>>

StartReview(p) ==
  \E v \in Existing(voidRequests), kind \in {"approveVoid", "rejectVoid"} :
    /\ voidRequests[v].status = "PENDING"
    /\ Begin(p, [NoJob EXCEPT !.kind = kind, !.request = v,
                              !.movement = voidRequests[v].movement,
                              !.payment = voidRequests[v].payment], "review")

\* approve: the request is APPROVED and committed before the void is attempted.
CommitApproval(p) ==
  LET j == job[p] IN
    /\ pc[p] = "review" /\ j.kind = "approveVoid"
    /\ voidRequests' = [voidRequests EXCEPT ![j.request].status = "APPROVED"]
    /\ pc' = [pc EXCEPT ![p] = VoidLabel(j.movement)]
    /\ UNCHANGED <<sessions, movements, payments, plock, job, starts, raced>>

CommitRejection(p) ==
  /\ pc[p] = "review" /\ job[p].kind = "rejectVoid"
  /\ voidRequests' = [voidRequests EXCEPT ![job[p].request].status = "REJECTED"]
  /\ Finish(p)
  /\ UNCHANGED <<sessions, movements, payments>>
-----------------------------------------------------------------------------
(* openSession and closeSession.                                            *)

StartOpenSession(p) ==
  \E r \in Registers :
    /\ OpenOf(r) = {} /\ Fresh(sessions) # {}
    /\ Begin(p, [NoJob EXCEPT !.kind = "openSession", !.register = r], "insert")

Opening(register) == {p \in Requests : pc[p] = "flush" /\ job[p].register = register}

\* pendingCashEntry payments of the register's sede, voided ones left out.
PendingPayments(location) ==
  {q \in Existing(payments) :
     /\ payments[q].pending /\ ~payments[q].voided
     /\ payments[q].location = location}

\* Mutant: no partial unique index on the open sessions.
NoneTaken(register) == {}

\* cash_sessions_one_open_per_register: the insert waits for a running one and
\* fails if one is committed.
Taken(register) == OpenOf(register) \cup Opening(register)

\* The insert of the session; flushInto then reads the queue.
InsertSession(p) ==
  LET j == job[p]
      queue == PendingPayments(LocationOf[j.register])
  IN
    /\ pc[p] = "insert"
    /\ Taken(j.register) = {}
    /\ Continue(p, [j EXCEPT !.seen = [q \in queue |-> payments[q]]], "flush")
    /\ UNCHANGED plock

\* flushInto writes from what it read: a movement for each payment it saw without
\* one, and the flag of every payment lowered.
CommitSession(p) ==
  LET j == job[p]
      s == NextId(sessions)
      entering == {q \in DOMAIN j.seen : j.seen[q].movement = None}
  IN
    /\ pc[p] = "flush" /\ Fresh(sessions) # {}
    /\ \A q \in DOMAIN j.seen : plock[q] = None
    /\ \E new \in [entering -> Fresh(movements)] :
         /\ \A q, r \in entering : q < r => new[q] < new[r]
         /\ \A q \in entering, m \in Fresh(movements) :
              m < new[q] => \E r \in entering : new[r] = m
         /\ movements' = [m \in Movements |->
              IF \E q \in entering : new[q] = m
              THEN LET q == CHOOSE x \in entering : new[x] = m
                   IN IncomeRow(s, j.seen[q].method, j.seen[q].amount)
              ELSE movements[m]]
         /\ payments' = [q \in Payments |->
              IF q \notin DOMAIN j.seen THEN payments[q]
              ELSE [payments[q] EXCEPT !.pending = FALSE,
                      !.movement = IF q \in entering THEN new[q] ELSE @]]
    /\ sessions' = Insert(sessions, [register |-> j.register, open |-> TRUE,
                                     systemBalance |-> 0])
    /\ Finish(p)
    /\ UNCHANGED voidRequests

StartCloseSession(p) ==
  \E s \in OpenSessions :
    Begin(p, [NoJob EXCEPT !.kind = "closeSession", !.session = s], "sum")

SumSession(p) ==
  /\ pc[p] = "sum"
  /\ Continue(p, [job[p] EXCEPT !.amount = ComputeSystemBalance(job[p].session)], "close")
  /\ UNCHANGED plock

\* The status is not checked again: a second close signs over the first.
CommitCloseSession(p) ==
  /\ pc[p] = "close"
  /\ sessions' = [sessions EXCEPT ![job[p].session].open = FALSE,
                                  ![job[p].session].systemBalance = job[p].amount]
  /\ Finish(p)
  /\ UNCHANGED <<movements, payments, voidRequests>>
-----------------------------------------------------------------------------
Init ==
  /\ sessions = [s \in Sessions |-> None]
  /\ movements = [m \in Movements |-> None]
  /\ payments = [q \in Payments |-> None]
  /\ voidRequests = [v \in VoidRequests |-> None]
  /\ plock = [q \in Payments |-> None]
  /\ pc = [p \in Requests |-> "idle"]
  /\ job = [p \in Requests |-> NoJob]
  /\ starts = 0 /\ raced = FALSE

Start(p) ==
  \/ StartAddPayment(p) \/ StartCreateMovement(p) \/ StartUpdatePayment(p)
  \/ StartVoidMovement(p) \/ StartVoidPayment(p) \/ StartReview(p)
  \/ StartOpenSession(p) \/ StartCloseSession(p)

Step(p) ==
  \/ CommitAddPayment(p) \/ CommitCreateMovement(p) \/ LockEdit(p) \/ CommitEdit(p)
  \/ ReadMovement(p) \/ CommitVoidMovement(p) \/ CommitVoidPayment(p)
  \/ CommitApproval(p) \/ CommitRejection(p) \/ InsertSession(p) \/ CommitSession(p)
  \/ SumSession(p) \/ CommitCloseSession(p)

Next == RequestVoid \/ \E p \in Requests : Start(p) \/ Step(p) \/ Abort(p)

Spec == Init /\ [][Next]_vars
=============================================================================
