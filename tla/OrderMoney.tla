----------------------------- MODULE OrderMoney -----------------------------
(***************************************************************************)
(* The canonical arithmetic of an order's balance                          *)
(* (backend/src/common/utils/order-balance.util.ts).  An order row is any  *)
(* record with the integer fields total, paid, applied, refunded and       *)
(* reversed.  The code works with Prisma.Decimal, an exact decimal: the    *)
(* integers below are whole pesos, so no formula here rounds.              *)
(***************************************************************************)
EXTENDS Integers

\* Positive part of a difference: the code clamps with `lessThan(0) ? 0 : x`.
Positive(x) == IF x < 0 THEN 0 ELSE x

Least(x, y) == IF x < y THEN x ELSE y

\* paidAmount = sum(payments) - refundedAmount, clamped at zero.
ComputeNetPaidAmount(paymentsTotal, refunded) == Positive(paymentsTotal - refunded)

\* balance = (total - reversedAmount) - paidAmount + appliedCreditAmount
ComputeOrderBalance(row) == row.total - row.reversed - row.paid + row.applied

\* The credit balance an order holds: the inverse of a negative balance.
ComputeAvailableOverpayment(row) == Positive(0 - ComputeOrderBalance(row))

\* Mutant: what was paid, without the credit already given away.
MaxRetainableIgnoringCredit(row) ==
  Positive(Least(row.total - row.reversed, row.paid))

\* What the company may keep when it annuls the order.
ComputeMaxRetainableOnAnnul(row) ==
  Positive(Least(row.total - row.reversed, row.paid - row.applied))

\* A row whose stored balance is rewritten from its other columns, as every
\* `order.update` of the money columns does.
WithBalance(row) == [row EXCEPT !.balance = ComputeOrderBalance(row)]
=============================================================================
