-------------------------- MODULE OrderLedgerProps --------------------------
(***************************************************************************)
(* What the order ledger promises.                                         *)
(***************************************************************************)
EXTENDS OrderLedger

\* The variables range over the rows and request states the code can produce.
TypeOK ==
  /\ orders \in [Orders -> OrderRow]
  /\ payments \in [Payments -> PaymentRow \cup {None}]
  /\ olock \in [Orders -> Requests \cup {None}]
  /\ oshare \in [Orders -> SUBSET Requests]
  /\ plock \in [Payments -> Requests \cup {None}]
  /\ req \in [Requests -> Request]
  /\ pc \in [Requests -> PCs]
  /\ plan \in [Requests -> [Orders -> Int]]
  /\ wo = [p \in Requests |-> wo[p]]
  /\ \A p \in Requests : /\ DOMAIN wo[p] \subseteq Orders
                         /\ wo[p] \in [DOMAIN wo[p] -> OrderRow]
  /\ wp \in [Requests -> PaymentRow \cup {None}]
  /\ starts \in 0..MaxStarts

\* The stored balance is always the one the other columns of the same row give
\* (order-balance.util.ts), whichever of the writers came last.
BalanceEquation ==
  \A o \in Orders : orders[o].balance = ComputeOrderBalance(orders[o])

AgreeButCredit(a, b) ==
  /\ a.status = b.status /\ a.total = b.total /\ a.paid = b.paid
  /\ a.refunded = b.refunded /\ a.reversed = b.reversed

\* No transaction ever holds a row it would commit over somebody else's write:
\* what it has not changed itself is still what is committed (the lost update
\* lockOrderForUpdate exists to prevent).
NoLostUpdate ==
  \A p \in Requests : \A o \in DOMAIN wo[p] : AgreeButCredit(wo[p][o], orders[o])

\* The inductive strengthening: a row a transaction has written is one it has
\* locked, and it stays locked up to the commit; what it wrote satisfies the
\* balance equation; and the steps of a transaction follow its kind.
WritesLocked ==
  \A p \in Requests : \A o \in DOMAIN wo[p] :
    olock[o] = p /\ wo[p][o].balance = ComputeOrderBalance(wo[p][o])

OwnLocked ==
  \A p \in Requests :
    (pc[p] \in {"insert", "ready"}
       \/ (pc[p] \in {"plan", "take"} /\ req[p].kind = "addPayment"))
      => olock[req[p].order] = p

EditsAPayment(p) == req[p].kind \in {"updatePayment", "voidPayment"}
OrderOnlyKinds == {"executeRefund", "annulOrder", "recalculateOrderTotals", "updateOrder"}

ControlFollowsKind ==
  \A p \in Requests :
    /\ pc[p] = "idle" => DOMAIN wo[p] = {}
    /\ pc[p] # "idle" => req[p].kind \in Kinds
    /\ pc[p] \in {"payment", "release"} => EditsAPayment(p)
    /\ pc[p] = "payment" => payments[req[p].payment] # None
    /\ pc[p] \in {"release", "plan", "take"} => wp[p] # None
    /\ req[p].kind \in OrderOnlyKinds =>
         DOMAIN wo[p] = {} /\ pc[p] \in {"idle", "own", "ready"}
    /\ req[p].kind \notin OrderOnlyKinds => req[p].payment \in Payments

\* The inductive invariant of the proofs: the promises above and what they rest on.
LedgerInv ==
  TypeOK /\ BalanceEquation /\ NoLostUpdate /\ WritesLocked /\ OwnLocked
         /\ ControlFollowsKind

\* What payment row r uses of the credit of order s.
Uses(r, s) == IF r = None THEN 0 ELSE r.used[s]

UsedFrom(s) == SumOf([q \in Payments |-> Uses(payments[q], s)])

\* The credit an order gave away is exactly what the application rows record,
\* so releasing every one of them gives all of it back.
AppliedMatchesApplications ==
  \A s \in Orders : orders[s].applied = UsedFrom(s)

\* A live credit payment is wholly backed by application rows, and any other live
\* payment by none: neither is one that createMovement entered as CREDIT_BALANCE and
\* nobody has edited since (EveryCreditBacked).
Backed(r) ==
  ~r.voided =>
    SumOf(r.used) = (IF r.method = "CREDIT_BALANCE" /\ ~r.linked THEN r.amount ELSE 0)

CreditPaymentsBacked == \A q \in Payments : payments[q] # None => Backed(payments[q])

\* Credit is accounted for on both sides, through any edits, voids and new credit
\* payments: by what the orders that gave it say, and by what those who got it say.
CreditAccounted == AppliedMatchesApplications /\ CreditPaymentsBacked

ActivePaid(o) == SumOf([q \in Payments |-> Contribution(payments[q], o)])

\* An order never shows less paid than its live payments minus what was refunded.
PaidNeverShort ==
  \A o \in Orders : orders[o].paid >= ActivePaid(o) - orders[o].refunded

\* invariants.sql, op_saldo_descuadrado: the paid amount is the sum of the live
\* payments minus what was refunded.
PaidMatchesPayments ==
  \A o \in Orders : orders[o].paid = ActivePaid(o) - orders[o].refunded

\* Whatever is voided, edited or spent elsewhere as credit, an order that refunded
\* nothing shows as paid exactly its live payments.
UnrefundedPaidMatches ==
  \A o \in Orders : orders[o].refunded = 0 => orders[o].paid = ActivePaid(o)

\* What an order shows as paid follows its live payments: exactly while nothing
\* was refunded, and never short of them afterwards.
PaidFollowsPayments == PaidNeverShort /\ UnrefundedPaidMatches

\* A double click registers one payment: no two payments carry the same key.
OnePaymentPerKey ==
  \A k \in Keys : Cardinality(PaymentWithKey(k)) <= 1

Adding(p) == pc[p] # "idle" /\ req[p].kind \in {"addPayment", "createMovement"}
Editing(p) == pc[p] # "idle" /\ EditsAPayment(p)

\* A transaction writes a payment nobody else can: a new id, or a row it has locked.
PaymentIsOwn(p) ==
  /\ Adding(p) => /\ payments[req[p].payment] = None
                  /\ \A x \in Requests \ {p} : req[x].payment # req[p].payment
  /\ Editing(p) => /\ payments[req[p].payment] # None
                   /\ payments[req[p].payment].order = req[p].order
  /\ wp[p] # None => /\ wp[p].order = req[p].order
                     /\ Adding(p) \/ (Editing(p) /\ plock[req[p].payment] = p)

\* The payment row of a transaction, along its steps.
RowFollowsControl(p) ==
  /\ wp[p] = None => DOMAIN wo[p] = {}
  /\ pc[p] \in {"idle", "payment", "insert"} \/ (pc[p] = "own" /\ Adding(p)) => wp[p] = None
  /\ pc[p] = "insert" => Adding(p)
  /\ Adding(p) /\ wp[p] # None => wp[p].amount = req[p].amount /\ ~wp[p].voided
  /\ Adding(p) /\ pc[p] = "ready" => wp[p] # None
  /\ pc[p] = "release" => \/ req[p].kind = "voidPayment" /\ wp[p].voided
                          \/ /\ req[p].kind = "updatePayment"
                             /\ wp[p].amount = req[p].amount
                             /\ wp[p].method = req[p].method /\ ~wp[p].linked
  /\ pc[p] \in {"plan", "take"} =>
       /\ req[p].kind \in {"addPayment", "updatePayment"}
       /\ wp[p].method = "CREDIT_BALANCE" /\ wp[p].amount = req[p].amount
       /\ ~wp[p].linked

\* What a transaction has taken or given back in the orders it wrote is what its payment
\* row says, and by the last statement the row is backed.
CreditInFlight(p) ==
  /\ \A s \in Orders : plan[p][s] >= 0
  /\ wp[p] # None =>
       \A s \in Orders :
         /\ wp[p].used[s] >= 0
         /\ IF s \in DOMAIN wo[p]
            THEN wo[p][s].applied =
                   orders[s].applied + wp[p].used[s] - Uses(payments[req[p].payment], s)
            ELSE wp[p].used[s] = Uses(payments[req[p].payment], s)
  /\ pc[p] = "plan" => \A s \in Orders : wp[p].used[s] = 0
  /\ pc[p] = "take" => SumOf([s \in Orders |-> wp[p].used[s] + plan[p][s]]) = req[p].amount
  /\ pc[p] \in {"own", "ready"} /\ wp[p] # None => Backed(wp[p])

\* The key of the row a transaction writes is on no other row, written or not.
KeyIsOwn(p) ==
  wp[p] # None /\ wp[p].key # None =>
    /\ \A q \in Payments :
         payments[q] # None /\ payments[q].key = wp[p].key => q = req[p].payment
    /\ \A x \in Requests : wp[x] # None /\ wp[x].key = wp[p].key => x = p

KeysDiffer ==
  \A q, r \in Payments :
    (/\ payments[q] # None /\ payments[r] # None
     /\ payments[q].key # None /\ payments[q].key = payments[r].key) => q = r

NothingNegative ==
  /\ \A q \in Payments : payments[q] # None => \A s \in Orders : payments[q].used[s] >= 0
  /\ \A o \in Orders : orders[o].refunded >= 0

\* The inductive invariant of what is said about payments and credit, beside LedgerInv.
AccountsInv ==
  /\ \A p \in Requests :
       PaymentIsOwn(p) /\ RowFollowsControl(p) /\ CreditInFlight(p) /\ KeyIsOwn(p)
  /\ NothingNegative /\ KeysDiffer /\ CreditAccounted /\ PaidFollowsPayments

\* A behaviour starts from rows the transactions leave: every payment with its credit,
\* every order with its payments.
ASSUME SeedAssumption ==
  /\ \A q \in Payments : SeedPayments[q] # None =>
       Backed(SeedPayments[q]) /\ \A s \in Orders : SeedPayments[q].used[s] >= 0
  /\ \A q, r \in Payments :
       (/\ SeedPayments[q] # None /\ SeedPayments[r] # None
        /\ SeedPayments[q].key # None /\ SeedPayments[q].key = SeedPayments[r].key) => q = r
  /\ \A o \in Orders :
       LET row == SeedOrders[o]
           live == SumOf([q \in Payments |-> Contribution(SeedPayments[q], o)])
       IN /\ row.applied = SumOf([q \in Payments |-> Uses(SeedPayments[q], o)])
          /\ row.refunded >= 0 /\ row.paid >= live - row.refunded
          /\ row.refunded = 0 => row.paid = live

\* schema.prisma, CreditBalanceApplication: a payment by CREDIT_BALANCE is tied to the
\* overpaid orders it comes from, whoever entered it (not kept by createMovement).
EveryCreditBacked ==
  \A q \in Payments :
    (payments[q] # None /\ ~payments[q].voided /\ payments[q].method = "CREDIT_BALANCE")
      => SumOf(payments[q].used) = payments[q].amount

\* Annulling an order never leaves a debt of its own making: all the client can
\* owe on it afterwards is credit the order had given away beyond what was paid
\* (annulOrder; update() can write the status alone, see configuration LedgerRaces).
AnnulLeavesNoDebt ==
  [][\A o \in Orders :
       (orders[o].status # "ANULADO" /\ orders'[o].status = "ANULADO")
         => orders'[o].balance <= Positive(orders[o].applied - orders[o].paid)]_vars

\* What leaves the drawer in a refund never exceeds the client's spare money:
\* a step that raises refunded leaves the order with no debt.
RefundLeavesNoDebt ==
  [][\A o \in Orders :
       orders'[o].refunded > orders[o].refunded => orders'[o].balance <= 0]_vars

\* Every request ends, although two credit payments that each spend the other's order
\* lock both in crossed order (order-lock.util.ts: PostgreSQL aborts one).
RequestsEnd == \A p \in Requests : pc[p] # "idle" ~> pc[p] = "idle"

\* The comment on appliedCreditAmount: credit already applied to other orders
\* can be neither spent nor refunded again, so an order never gave away more
\* than its overpayment.
CreditSpentOnce ==
  \A o \in Orders : orders[o].applied > 0 => orders[o].balance <= 0

\* voidPaymentAndRecalculate: the credit a voided payment had applied is given
\* back, so a voided payment holds none.
VoidedReleasesCredit ==
  \A q \in Payments :
    (payments[q] # None /\ payments[q].voided) => payments[q].used = NoUse

\* assertNotAnulado: no payment is registered on an annulled order by addPayment.
NoPaymentOnAnnulled ==
  [][\A p \in Requests : CommitPayment(p) => Own(p).status # "ANULADO"]_vars
=============================================================================
