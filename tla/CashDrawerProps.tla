--------------------------- MODULE CashDrawerProps ---------------------------
(***************************************************************************)
(* What the cash drawer promises.  backend/scripts/sql/invariants.sql      *)
(* lists several of these as rules the production data is audited against. *)
(***************************************************************************)
EXTENDS CashDrawer

\* The tables hold rows of their columns' types.
TypeOK ==
  /\ sessions \in [Sessions -> SessionRow \cup {None}]
  /\ movements \in [Movements -> MovementRow \cup {None}]
  /\ payments \in [Payments -> PaymentRow \cup {None}]
  /\ voidRequests \in [VoidRequests -> VoidRow \cup {None}]
  /\ plock \in [Payments -> Requests \cup {None}]
  /\ starts \in 0..MaxStarts

LivePayments == {q \in Existing(payments) : ~payments[q].voided}

\* cajas_con_dos_sesiones_abiertas: two requests to open one register, both past
\* the check, never leave it with two open sessions.
OneOpenPerRegister == \A r \in Registers : Cardinality(OpenOf(r)) <= 1

\* pagos_huerfanos: a live payment that moves money has a movement, or waits in
\* the queue for the next session.
NoOrphanPayment ==
  \A q \in LivePayments :
    PaymentMovesCash(payments[q].method) =>
      payments[q].movement # None \/ payments[q].pending

\* A movement is reversed at most once, and the reversal lands in a session of the
\* register the money was in (resolveCounterSessionId).
ReversedOnce ==
  \A m \in Existing(movements) :
    LET reversing == {x \in Existing(movements) : movements[x].reverses = m} IN
      /\ Cardinality(reversing) <= 1
      /\ \A x \in reversing :
           /\ movements[m].voided
           /\ sessions[movements[x].session].register =
                sessions[movements[m].session].register

\* syncPaymentCashMovement unlinks what it voids, voidMovement voids the payment too:
\* a live payment never points to a voided movement.
LivePaymentLiveMovement ==
  \A q \in LivePayments :
    payments[q].movement # None => ~movements[payments[q].movement].voided

\* pagos_anulados_con_caja_viva: the movement of a voided payment is voided.
VoidedPaymentHasNoCash ==
  \A q \in Existing(payments) :
    (payments[q].voided /\ payments[q].movement # None) =>
      movements[payments[q].movement].voided

\* flushInto: a second movement for a payment would count its money twice, so every
\* live income of an order is the movement some payment points to.
IncomeCountedOnce ==
  \A m \in Existing(movements) :
    LET row == movements[m] IN
      (row.ofOrder /\ ~row.voided /\ row.reverses = None) => LinkedPayments(m) # {}

\* payment-method.util.ts: credit brings no money in, so it neither has a movement
\* nor waits in the queue for one.
CreditNeverInCash ==
  \A q \in LivePayments :
    ~PaymentMovesCash(payments[q].method) =>
      payments[q].movement = None /\ ~payments[q].pending

\* createMovement: no movement is registered in a closed session.
NothingEntersClosedSession ==
  [][\A m \in Movements :
       (movements[m] = None /\ movements'[m] # None) => sessions'[movements'[m].session].open]_vars

\* syncPaymentCashMovement leaves the movement of a payment coherent with it.
MovementMatchesPayment ==
  \A q \in LivePayments :
    LET m == payments[q].movement IN
      m # None => /\ movements[m].amount = payments[q].amount
                  /\ movements[m].method = payments[q].method

\* One request at a time the four hold; only requests that overlap break them
\* (configuration CashRaces shows how).
OrphansOnlyByRace == raced \/ NoOrphanPayment
MismatchOnlyByRace == raced \/ MovementMatchesPayment
DoubleIncomeOnlyByRace == raced \/ IncomeCountedOnce
ClosedEntryOnlyByRace ==
  [][\A m \in Movements :
       (~raced' /\ movements[m] = None /\ movements'[m] # None)
          => sessions'[movements'[m].session].open]_vars

\* A void is whole: one reversal, in the register the money was in, and no live
\* payment left pointing at the movement.
VoidsAreWhole == ReversedOnce /\ LivePaymentLiveMovement

\* While no two requests overlapped, through any sequence of opening, queueing,
\* editing, voiding and closing, the four hold.
KeptAlone ==
  /\ [](OrphansOnlyByRace /\ MismatchOnlyByRace /\ DoubleIncomeOnlyByRace)
  /\ ClosedEntryOnlyByRace

-----------------------------------------------------------------------------
(* What the proofs rest on.                                                 *)

Labels == {"idle", "commit", "lock", "readMovement", "voidMovement", "voidPayment",
           "review", "insert", "flush", "sum", "close"}

JobRow ==
  [kind : AllKinds \cup {None}, location : Locations \cup {None},
   register : Registers \cup {None}, session : Sessions \cup {None},
   movement : Movements \cup {None}, payment : Payments \cup {None},
   request : VoidRequests \cup {None}, method : AllMethods \cup {None},
   previous : AllMethods \cup {None}, concept : {"INCOME", "EXPENSE", "ORDER", None},
   amount : Int, seen : UNION {[S -> PaymentRow] : S \in SUBSET Payments}]

ControlOK == pc \in [Requests -> Labels] /\ job \in [Requests -> JobRow] /\ raced \in BOOLEAN

\* What a row names exists, and no movement is of two payments.
References ==
  /\ \A m \in Existing(movements) :
       /\ movements[m].session \in Existing(sessions)
       /\ movements[m].reverses # None => movements[m].reverses \in Existing(movements)
  /\ \A q \in Existing(payments) :
       payments[q].movement # None => payments[q].movement \in Existing(movements)
  /\ \A v \in Existing(voidRequests) :
       IF voidRequests[v].movement # None
       THEN voidRequests[v].movement \in Existing(movements)
       ELSE voidRequests[v].payment \in Existing(payments)

OnePaymentPerMovement ==
  \A q, r \in Existing(payments) :
    payments[q].movement # None /\ payments[q].movement = payments[r].movement => q = r

SessionOrNone(s) == s # None => s \in Existing(sessions)

\* What a request carries from its reads to its writes, whoever ran in between.
Carries(p) ==
  LET j == job[p] IN
  /\ pc[p] = "commit" => j.kind \in {"addPayment", "createMovement", "updatePayment"}
  /\ pc[p] = "lock" => j.kind = "updatePayment"
  /\ pc[p] = "commit" /\ j.kind = "addPayment" =>
       /\ j.location \in Locations /\ j.method \in AllMethods /\ j.amount \in Amounts
       /\ SessionOrNone(j.session)
  /\ pc[p] = "commit" /\ j.kind = "createMovement" =>
       j.session \in Existing(sessions) /\ j.amount \in Amounts
  /\ pc[p] \in {"lock", "commit"} /\ j.kind = "updatePayment" =>
       /\ j.payment \in Existing(payments) /\ j.method \in AllMethods
       /\ j.amount \in Amounts /\ j.previous \in AllMethods /\ SessionOrNone(j.session)
  /\ pc[p] \in {"readMovement", "voidMovement"} => j.movement \in Existing(movements)
  /\ pc[p] = "voidMovement" =>
       /\ j.session \in Existing(sessions) /\ j.method \in AllMethods /\ j.amount \in Amounts
       /\ sessions[j.session].register = sessions[movements[j.movement].session].register
       /\ j.payment # None => j.payment \in Existing(payments)
       /\ LinkedPayments(j.movement) \subseteq {j.payment}
  /\ pc[p] = "voidPayment" => j.payment \in Existing(payments)
  /\ pc[p] = "review" =>
       /\ j.request \in Existing(voidRequests)
       /\ IF j.movement # None THEN j.movement \in Existing(movements)
          ELSE j.payment \in Existing(payments)
  /\ pc[p] \in {"insert", "flush"} => j.register \in Registers
  /\ pc[p] = "flush" => DOMAIN j.seen \subseteq Existing(payments)
  /\ pc[p] \in {"sum", "close"} => j.session \in Existing(sessions)

Jobs == \A p \in Requests : Carries(p)

\* A register has one open session, or one being opened.
OneOpen ==
  \A s, t \in OpenSessions : sessions[s].register = sessions[t].register => s = t

OpeningAlone ==
  \A p \in Requests :
    pc[p] = "flush" => Opening(job[p].register) = {p} /\ OpenOf(job[p].register) = {}

\* A movement is reversed once, and what is reversed is voided.
Reversed ==
  \A m \in Existing(movements) : \A x \in Reversals(m) :
    /\ movements[m].voided /\ Reversals(m) = {x}
    /\ sessions[movements[x].session].register = sessions[movements[m].session].register

\* While no two requests overlapped, what the running one has read is still so.
Alone ==
  \A p, q \in Requests : raced \/ pc[p] = "idle" \/ pc[q] = "idle" \/ p = q

ReadIsFresh(p) ==
  LET j == job[p] IN
  /\ (pc[p] \in {"commit", "voidMovement"} /\ j.session # None) => sessions[j.session].open
  /\ (pc[p] \in {"lock", "commit"} /\ j.kind = "updatePayment") =>
       j.previous = payments[j.payment].method
  /\ pc[p] = "flush" => \A q \in DOMAIN j.seen : j.seen[q] = payments[q]

ReadsAreFresh == \A p \in Requests : raced \/ ReadIsFresh(p)

RacesOnly == OrphansOnlyByRace /\ MismatchOnlyByRace /\ DoubleIncomeOnlyByRace

\* The inductive invariant of the proofs.
DrawerInv ==
  /\ TypeOK /\ ControlOK
  /\ References /\ OnePaymentPerMovement /\ OneOpen /\ Reversed /\ LivePaymentLiveMovement
  /\ Jobs /\ OpeningAlone /\ Alone /\ ReadsAreFresh /\ RacesOnly
-----------------------------------------------------------------------------
(* Not kept: CashRaces shows how each breaks.                               *)

\* The notification of an approval: the void was approved and carried out.
ApprovedIsVoided ==
  \A v \in Existing(voidRequests) :
    (/\ voidRequests[v].status = "APPROVED"
     /\ \A p \in Requests : job[p].request # v) =>
       IF voidRequests[v].movement # None THEN movements[voidRequests[v].movement].voided
       ELSE payments[voidRequests[v].payment].voided

\* resolveCounterSessionId: when the session of a voided movement is closed, the
\* correction is registered where the money can be moved today, so the balance of
\* that session takes it in.
CorrectionIsInTodaysBalance ==
  [][\A m \in Existing(movements), x \in Movements, s \in Sessions :
       (/\ movements[x] = None /\ movements'[x] # None
        /\ movements'[x].reverses = m /\ movements'[x].method = "CASH"
        /\ movements'[x].session = s /\ movements[m].session # s) =>
          ComputeSystemBalance(s)' # ComputeSystemBalance(s)]_vars
=============================================================================
