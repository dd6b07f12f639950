------------------------------ MODULE Payables ------------------------------
(***************************************************************************)
(* One account payable: its payments, the cash that left for them, the     *)
(* two-step approval of a payment (administrator, then Caja) and the       *)
(* reversal of a payment (management, then Caja).                          *)
(*                                                                         *)
(* Registering a payment is NOT a transaction: executePayment inserts the  *)
(* movement, then the payment, then writes back the columns it computed    *)
(* from the row it read first; each await is a step, and the process may   *)
(* die between two (Fail).  Reversing one is a transaction, whose read of  *)
(* the payments still live is a step before its commit.                    *)
(*                                                                         *)
(* A race is an operation that starts while another runs; they are counted *)
(* and bounded, so that long sequences and races fit in one instance, and  *)
(* a promise kept only while requests do not overlap can say so.           *)
(***************************************************************************)
EXTENDS Integers, FiniteSets, Functions

CONSTANTS
  Payments, Movements,  \* ids: naturals, in creation order
  PayRequests,          \* ids of payment authorisation requests
  Users,                \* who asks
  Processes,            \* concurrent requests
  Amounts, Totals,      \* amounts a payment may have, totals an edit may set
  Kinds,                \* operations of the instance
  MaxStarts, MaxRaces, MaxFailures,  \* bounds
  None

VARIABLES
  payable,    \* the row of accounts_payable, None when there is none
  payments,   \* account_payable_payments
  movements,  \* cash_movements of this account or of its expense order
  payReqs,    \* account_payable_payment_auth_requests
  reversals,  \* ... payment_reversal_requests, one per payment request
  asked,      \* asked[u]: status of the last authorisation request of u
  pc, job,    \* per process: its next step, and what it has read
  starts, races, failures

rows == <<payable, payments, movements, payReqs, reversals, asked>>
bounds == <<starts, races, failures>>
vars == <<rows, pc, job, bounds>>

PayableStatuses == {"PENDING", "ADMIN_AUTHORIZED", "PARTIAL", "PAID", "OVERDUE", "CANCELLED"}
Payable == [status : PayableStatuses, total : Int, paid : Int, balance : Int]
Payment == [amount : Int, movement : Movements \cup {None}, request : PayRequests \cup {None},
            reversed : BOOLEAN]
Movement == [amount : Int, source : {"AP", "OG"}, voided : BOOLEAN]

PayReqStatuses == {"PENDING", "ADMIN_APPROVED", "ADMIN_REJECTED", "COMPLETED",
                   "CAJA_REJECTED", "EXPIRED"}
ReversalStatuses == {"PENDING_GERENCIA", "PENDING_CAJA", "REJECTED_BY_GERENCIA",
                     "REJECTED_BY_CAJA", "COMPLETED"}
Answers == {"PENDING", "APPROVED", "REJECTED", "EXPIRED"}
PayReq == [user : Users, amount : Int, status : PayReqStatuses]

PCs == {"idle", "assert", "movement", "payment", "settle", "complete", "reread",
        "find", "live", "undo", "liveOfRequest", "undoRequest", "total", "cancel",
        "answerPayment", "answerReversal", "answerAuth", "authorize", "stamp"}

Job == [row : Payments \cup PayRequests \cup Users \cup {None},
        to : PayReqStatuses \cup ReversalStatuses \cup Answers \cup {None},
        amount : Int, seen : Payable \cup {None}, movement : Movements \cup {None},
        request : PayRequests \cup {None}, sum : Int, found : SUBSET Movements]
NoJob == [row |-> None, to |-> None, amount |-> 0, seen |-> None, movement |-> None,
          request |-> None, sum |-> 0, found |-> {}]

ASSUME PayablesAssumption ==
  /\ Payments \subseteq Nat /\ Movements \subseteq Nat /\ PayRequests \subseteq Nat
  /\ IsFiniteSet(Payments) /\ IsFiniteSet(Movements)
  /\ Amounts \subseteq Nat \ {0} /\ Totals \subseteq Nat \ {0}
  /\ MaxStarts \in Nat /\ MaxRaces \in Nat /\ MaxFailures \in Nat
  /\ None \notin Payable \cup Payment \cup Movement \cup PayReq \cup PayRequests
                 \cup Payments \cup Movements \cup ReversalStatuses \cup Answers
-----------------------------------------------------------------------------
Existing(table) == {x \in DOMAIN table : table[x] # None}
Fresh(table, x) == /\ x \in DOMAIN table /\ table[x] = None
                   /\ \A y \in DOMAIN table \ Existing(table) : x <= y

LivePayments == {q \in Existing(payments) : ~payments[q].reversed}
SumOf(table, S) == SumFunction([x \in S |-> table[x].amount])

\* Money the expense order took out of the drawer that no payment reflects yet.
Unreflected ==
  {m \in Existing(movements) :
     /\ movements[m].source = "OG" /\ ~movements[m].voided
     /\ \A q \in Existing(payments) : payments[q].movement # m}
PaidThroughExpenseOrder == SumOf(movements, Unreflected)

\* The status a payment leaves the account in.
AfterPayment(balance) == IF balance <= 0 THEN "PAID" ELSE "PARTIAL"

Running == {p \in Processes : pc[p] # "idle"}

\* An operation starts; it is a race when another one is running.
Counted(kind) ==
  /\ kind \in Kinds /\ starts < MaxStarts /\ (Running # {} => races < MaxRaces)
  /\ starts' = starts + 1
  /\ races' = IF Running = {} THEN races ELSE races + 1
  /\ UNCHANGED failures

Begin(p, kind, j, label) ==
  /\ pc[p] = "idle" /\ Counted(kind)
  /\ pc' = [pc EXCEPT ![p] = label] /\ job' = [job EXCEPT ![p] = j]
  /\ UNCHANGED rows

\* An operation of one statement.
AtOnce(kind) == Counted(kind) /\ UNCHANGED <<pc, job>>

Goto(p, label, j) ==
  /\ pc' = [pc EXCEPT ![p] = label] /\ job' = [job EXCEPT ![p] = j]
  /\ UNCHANGED bounds
Done(p) == Goto(p, "idle", NoJob)

\* Mutant: a cancelled account takes payments and can be cancelled again.
PayableUnpaid == payable # None /\ payable.status # "PAID"

PayableOpen == payable # None /\ payable.status \notin {"CANCELLED", "PAID"}

\* An exception: what was written stays, there is no transaction to undo.
Refuse(p) == Done(p) /\ UNCHANGED rows
-----------------------------------------------------------------------------
(* registerPayment, and Caja's approval of a payment request.               *)

StartRegisterPayment(p) ==
  /\ PayableOpen
  /\ \E a \in Amounts :
       Begin(p, "registerPayment", [NoJob EXCEPT !.amount = a, !.seen = payable], "assert")

\* Mutant: the cap is the balance, whatever left through the expense order.
BalanceOnly(row) == row.balance

\* What is really left to pay: the balance minus what left the drawer already.
Disponible(row) == row.balance - PaidThroughExpenseOrder

\* assertPayableAmount, and the choice of a movement: there is one when the
\* form names a session or, for Caja, when the register has one open.
AssertPayableAmount(p) ==
  /\ pc[p] = "assert"
  /\ IF job[p].amount <= Disponible(job[p].seen)
       THEN \E next \in {"movement", "payment"} : Goto(p, next, job[p])
       ELSE Done(p)
  /\ UNCHANGED rows

InsertMovement(p) ==
  /\ pc[p] = "movement"
  /\ \E m \in Movements :
       /\ Fresh(movements, m)
       /\ movements' = [movements EXCEPT ![m] =
                          [amount |-> job[p].amount, source |-> "AP", voided |-> FALSE]]
       /\ Goto(p, "payment", [job[p] EXCEPT !.movement = m])
  /\ UNCHANGED <<payable, payments, payReqs, reversals, asked>>

\* The unique index on the request a payment comes from.
OncePerRequest(r) == r = None \/ \A q \in Existing(payments) : payments[q].request # r

InsertPayment(p) ==
  /\ pc[p] = "payment" /\ payable # None /\ OncePerRequest(job[p].request)
  /\ \E q \in Payments :
       /\ Fresh(payments, q)
       /\ payments' = [payments EXCEPT ![q] =
                         [amount |-> job[p].amount, movement |-> job[p].movement,
                          request |-> job[p].request, reversed |-> FALSE]]
  /\ Goto(p, "settle", job[p])
  /\ UNCHANGED <<payable, movements, payReqs, reversals, asked>>

PaymentRefused(p) ==
  /\ pc[p] = "payment" /\ (payable = None \/ ~OncePerRequest(job[p].request))
  /\ Refuse(p)

\* The columns come from the row read at the start.
UpdatePayable(p) ==
  /\ pc[p] = "settle" /\ payable # None
  /\ LET paid == job[p].seen.paid + job[p].amount
         balance == job[p].seen.total - paid
     IN  payable' = [payable EXCEPT !.paid = paid, !.balance = balance,
                                    !.status = AfterPayment(balance)]
  /\ Done(p)
  /\ UNCHANGED <<payments, movements, payReqs, reversals, asked>>

StartCajaApprovePayment(p) ==
  \E r \in Existing(payReqs) :
    /\ payReqs[r].status = "ADMIN_APPROVED"
    /\ Begin(p, "payRequest", [NoJob EXCEPT !.request = r, !.amount = payReqs[r].amount],
             "complete")

CompletePayRequest(p) ==
  /\ pc[p] = "complete" /\ payable # None
  /\ payReqs' = [payReqs EXCEPT ![job[p].request].status = "COMPLETED"]
  /\ Goto(p, "reread", job[p])
  /\ UNCHANGED <<payable, payments, movements, reversals, asked>>

\* registerPaymentFromAuthRequest.
RereadPayable(p) ==
  /\ pc[p] = "reread"
  /\ IF PayableOpen THEN Goto(p, "assert", [job[p] EXCEPT !.seen = payable]) ELSE Done(p)
  /\ UNCHANGED rows
-----------------------------------------------------------------------------
(* The request for a payment: asked for, answered by the administrator from *)
(* the panel or WhatsApp, by Caja, or expired.                              *)

\* The partial unique index: one request of the user waiting for an answer.
\* The check of the amount can only be passed over by a change that could as
\* well come right after the insert, so check and insert are one step.
CreatePayRequest ==
  /\ AtOnce("payRequest") /\ PayableOpen
  /\ \E u \in Users, a \in Amounts, r \in PayRequests :
       /\ a <= Disponible(payable)
       /\ \A x \in Existing(payReqs) :
            payReqs[x].user = u => payReqs[x].status \notin {"PENDING", "ADMIN_APPROVED"}
       /\ Fresh(payReqs, r)
       /\ payReqs' = [payReqs EXCEPT ![r] = [user |-> u, amount |-> a, status |-> "PENDING"]]
  /\ UNCHANGED <<payable, payments, movements, reversals, asked>>

PayReqAnswers ==
  {<<"PENDING", "ADMIN_APPROVED">>, <<"PENDING", "ADMIN_REJECTED">>,
   <<"ADMIN_APPROVED", "CAJA_REJECTED">>,
   <<"PENDING", "EXPIRED">>, <<"ADMIN_APPROVED", "EXPIRED">>}

StartAnswerPayment(p) ==
  \E r \in Existing(payReqs), answer \in PayReqAnswers :
    /\ payReqs[r].status = answer[1]
    /\ Begin(p, "payRequest", [NoJob EXCEPT !.request = r, !.to = answer[2]], "answerPayment")

\* The update names the request by id alone.
AnswerPayment(p) ==
  /\ pc[p] = "answerPayment" /\ payable # None
  /\ payReqs' = [payReqs EXCEPT ![job[p].request].status = job[p].to]
  /\ Done(p)
  /\ UNCHANGED <<payable, payments, movements, reversals, asked>>
-----------------------------------------------------------------------------
(* deletePayment: administrative, without a request.                        *)

StartDeletePayment(p) ==
  /\ payable # None
  /\ \E q \in Existing(payments) :
       Begin(p, "deletePayment", [NoJob EXCEPT !.row = q, !.seen = payable], "find")

FindPayment(p) ==
  /\ pc[p] = "find"
  /\ IF payments[job[p].row] # None /\ ~payments[job[p].row].reversed
       THEN Goto(p, "live", job[p]) ELSE Done(p)
  /\ UNCHANGED rows

\* The transaction marks the payment, whose row it then holds, and reads which
\* payments are live: its own no longer is, those of others are as committed.
Held == {job[p].row : p \in {x \in Processes : pc[x] \in {"undo", "undoRequest"}}}

ReadLive(p) ==
  /\ \/ pc[p] = "live" /\ Goto(p, "undo", [job[p] EXCEPT
                                   !.sum = SumOf(payments, LivePayments \ {job[p].row})])
     \/ pc[p] = "liveOfRequest" /\ Goto(p, "undoRequest", [job[p] EXCEPT
                                   !.sum = SumOf(payments, LivePayments \ {job[p].row})])
  /\ job[p].row \notin Held
  /\ UNCHANGED rows

\* Mutant: what owes everything again is OPEN, which the schema has no name for.
AfterReversalOpen(live) == IF live <= 0 THEN "OPEN" ELSE "PARTIAL"

AfterReversal(live) == IF live <= 0 THEN "PENDING" ELSE "PARTIAL"

\* Mutant: the movement of the payment stays, as before it was voided with it.
PaymentOnly(q) ==
  /\ payments' = [payments EXCEPT ![q].reversed = TRUE]
  /\ UNCHANGED movements

ReversePayment(q) ==
  /\ payments' = [payments EXCEPT ![q].reversed = TRUE]
  /\ movements' = IF payments[q].movement = None THEN movements
                  ELSE [movements EXCEPT ![payments[q].movement].voided = TRUE]

Recalculated(p, total) ==
  payable' = [payable EXCEPT !.paid = job[p].sum, !.balance = total - job[p].sum,
                             !.status = AfterReversal(job[p].sum)]

CommitDelete(p) ==
  /\ pc[p] = "undo" /\ payable # None
  /\ ReversePayment(job[p].row) /\ Recalculated(p, job[p].seen.total)
  /\ Done(p)
  /\ UNCHANGED <<payReqs, reversals, asked>>
-----------------------------------------------------------------------------
(* The reversal of a payment that came from a request.                      *)

PaymentOf(r) == {q \in Existing(payments) : payments[q].request = r}

\* The unique key: one reversal request per payment request, for ever.
CreateReversal ==
  /\ AtOnce("reversal")
  /\ \E r \in Existing(payReqs), q \in Existing(payments) :
       /\ payReqs[r].status = "COMPLETED" /\ reversals[r] = None
       /\ q \in PaymentOf(r) /\ ~payments[q].reversed
       /\ reversals' = [reversals EXCEPT ![r] = "PENDING_GERENCIA"]
  /\ UNCHANGED <<payable, payments, movements, payReqs, asked>>

ReversalAnswers ==
  {<<"PENDING_GERENCIA", "PENDING_CAJA">>, <<"PENDING_GERENCIA", "REJECTED_BY_GERENCIA">>,
   <<"PENDING_CAJA", "REJECTED_BY_CAJA">>}

StartAnswerReversal(p) ==
  \E r \in Existing(reversals), answer \in ReversalAnswers :
    /\ reversals[r] = answer[1]
    /\ Begin(p, "reversal", [NoJob EXCEPT !.request = r, !.to = answer[2]], "answerReversal")

AnswerReversal(p) ==
  /\ pc[p] = "answerReversal" /\ payable # None
  /\ reversals' = [reversals EXCEPT ![job[p].request] = job[p].to]
  /\ Done(p)
  /\ UNCHANGED <<payable, payments, movements, payReqs, asked>>

StartCajaApproveReversal(p) ==
  \E r \in Existing(reversals), q \in Existing(payments) :
    /\ reversals[r] = "PENDING_CAJA" /\ q \in PaymentOf(r) /\ ~payments[q].reversed
    /\ Begin(p, "reversal", [NoJob EXCEPT !.row = q, !.request = r], "liveOfRequest")

\* The same writes, and the total as it is in the transaction.
CommitReversal(p) ==
  /\ pc[p] = "undoRequest" /\ payable # None
  /\ ReversePayment(job[p].row) /\ Recalculated(p, payable.total)
  /\ reversals' = [reversals EXCEPT ![job[p].request] = "COMPLETED"]
  /\ Done(p)
  /\ UNCHANGED <<payReqs, asked>>
-----------------------------------------------------------------------------
(* update (of the amount), cancel, the authorisation and the nightly sweep. *)

\* Mutant: an account with payments may change its total.
AnyAmount(row) == row.status \notin {"PAID", "CANCELLED"}

AmountEditable(row) == row.status \notin {"PAID", "CANCELLED"} /\ row.paid <= 0

StartUpdateTotal(p) ==
  /\ payable # None /\ AmountEditable(payable)
  /\ \E t \in Totals :
       Begin(p, "update", [NoJob EXCEPT !.amount = t, !.seen = payable], "total")

UpdateTotal(p) ==
  /\ pc[p] = "total" /\ payable # None
  /\ payable' = [payable EXCEPT !.total = job[p].amount,
                                !.balance = job[p].amount - job[p].seen.paid]
  /\ Done(p)
  /\ UNCHANGED <<payments, movements, payReqs, reversals, asked>>

StartCancel(p) == PayableOpen /\ Begin(p, "cancel", NoJob, "cancel")

Cancel(p) ==
  /\ pc[p] = "cancel" /\ payable # None
  /\ payable' = [payable EXCEPT !.status = "CANCELLED"]
  /\ Done(p)
  /\ UNCHANGED <<payments, movements, payReqs, reversals, asked>>

CreateAuthRequest ==
  /\ AtOnce("authorize") /\ payable # None /\ payable.status = "PENDING"
  /\ \E u \in Users : /\ asked[u] # "PENDING"
                      /\ asked' = [asked EXCEPT ![u] = "PENDING"]
  /\ UNCHANGED <<payable, payments, movements, payReqs, reversals>>

StartAnswerAuth(p) ==
  \E u \in Users, to \in {"APPROVED", "REJECTED", "EXPIRED"} :
    /\ asked[u] = "PENDING"
    /\ Begin(p, "authorize", [NoJob EXCEPT !.row = u, !.to = to], "answerAuth")

\* Approving it authorises the account, if it still can be.
AnswerAuth(p) ==
  /\ pc[p] = "answerAuth" /\ payable # None
  /\ asked' = [asked EXCEPT ![job[p].row] = job[p].to]
  /\ IF job[p].to = "APPROVED" THEN Goto(p, "authorize", NoJob) ELSE Done(p)
  /\ UNCHANGED <<payable, payments, movements, payReqs, reversals>>

StartAuthorize(p) == Begin(p, "authorize", NoJob, "authorize")

\* adminAuthorize: the status is read, then written by id.
Authorize(p) ==
  /\ pc[p] = "authorize"
  /\ IF payable # None /\ payable.status = "PENDING" THEN Goto(p, "stamp", NoJob) ELSE Done(p)
  /\ UNCHANGED rows

Stamp(p) ==
  /\ pc[p] = "stamp" /\ payable # None
  /\ payable' = [payable EXCEPT !.status = "ADMIN_AUTHORIZED"]
  /\ Done(p)
  /\ UNCHANGED <<payments, movements, payReqs, reversals, asked>>

\* One statement, whose WHERE names the status.
MarkOverdue ==
  /\ AtOnce("markOverdue") /\ payable # None /\ payable.status \in {"PENDING", "PARTIAL"}
  /\ payable' = [payable EXCEPT !.status = "OVERDUE"]
  /\ UNCHANGED <<payments, movements, payReqs, reversals, asked>>

\* Caja voids the movement of a payment: nothing tells the account.
VoidMovement ==
  /\ AtOnce("voidMovement")
  /\ \E m \in Existing(movements) :
       /\ ~movements[m].voided
       /\ movements' = [movements EXCEPT ![m].voided = TRUE]
  /\ UNCHANGED <<payable, payments, payReqs, reversals, asked>>
-----------------------------------------------------------------------------
\* The process dies, or a database call fails.
Fail(p) ==
  /\ pc[p] # "idle" /\ failures < MaxFailures /\ failures' = failures + 1
  /\ pc' = [pc EXCEPT ![p] = "idle"] /\ job' = [job EXCEPT ![p] = NoJob]
  /\ UNCHANGED <<rows, starts, races>>

Start(p) ==
  \/ StartRegisterPayment(p) \/ StartCajaApprovePayment(p) \/ StartAnswerPayment(p)
  \/ StartDeletePayment(p) \/ StartAnswerReversal(p) \/ StartCajaApproveReversal(p)
  \/ StartUpdateTotal(p) \/ StartCancel(p) \/ StartAnswerAuth(p) \/ StartAuthorize(p)

Step(p) ==
  \/ AssertPayableAmount(p) \/ InsertMovement(p) \/ InsertPayment(p) \/ PaymentRefused(p)
  \/ UpdatePayable(p) \/ CompletePayRequest(p) \/ RereadPayable(p) \/ AnswerPayment(p)
  \/ FindPayment(p) \/ ReadLive(p) \/ CommitDelete(p) \/ AnswerReversal(p)
  \/ CommitReversal(p) \/ UpdateTotal(p) \/ Cancel(p) \/ AnswerAuth(p) \/ Authorize(p)
  \/ Stamp(p)

Others == CreatePayRequest \/ CreateReversal \/ CreateAuthRequest \/ MarkOverdue \/ VoidMovement

Init ==
  /\ payable \in [status : {"PENDING"}, total : Totals, paid : {0}, balance : Totals]
  /\ payable.balance = payable.total
  /\ payments = [q \in Payments |-> None]
  /\ movements = [m \in Movements |-> None]
  /\ payReqs = [r \in PayRequests |-> None]
  /\ reversals = [r \in PayRequests |-> None]
  /\ asked = [u \in Users |-> None]
  /\ pc = [p \in Processes |-> "idle"]
  /\ job = [p \in Processes |-> NoJob]
  /\ starts = 0 /\ races = 0 /\ failures = 0

Next == (\E p \in Processes : Start(p) \/ Step(p) \/ Fail(p)) \/ Others

Spec == Init /\ [][Next]_vars
=============================================================================
