-------------------------- MODULE OrderLedgerProofs --------------------------
(***************************************************************************)
(* Proofs about the order ledger, for any orders, payments and requests.   *)
(***************************************************************************)
EXTENDS OrderLedgerProps, SumTheorems

\* Amounts are natural numbers, and 0 is one of them.
LEMMA MoneyType == /\ Money \subseteq Nat /\ 0 \in Money /\ Amounts \subseteq Money
                   /\ Amounts \subseteq Int /\ Totals \subseteq Int
BY ConstantsAssumption DEF Money

\* The request of an idle process is of its type.
LEMMA NoReqType == NoReq \in Request
<1>1. (CHOOSE o \in Orders : TRUE) \in Orders
  BY ConstantsAssumption
<1>. QED
  BY <1>1, MoneyType DEF NoReq, Request, AllKinds, Methods, Statuses

\* A row read by a transaction is a well-typed row, its own write or the
\* committed one.
LEMMA OrderSeenType ==
  ASSUME TypeOK, NEW p \in Requests, NEW o \in Orders
  PROVE  OrderSeen(p, o) \in OrderRow
<1>1. wo[p] \in [DOMAIN wo[p] -> OrderRow]
  BY DEF TypeOK
<1>2. orders[o] \in OrderRow
  BY DEF TypeOK
<1>. QED
  BY <1>1, <1>2 DEF OrderSeen

\* So is a payment row.
LEMMA PaymentSeenType ==
  ASSUME TypeOK, NEW p \in Requests, NEW q \in Payments
  PROVE  PaymentSeen(p, q) \in PaymentRow \cup {None}
BY DEF PaymentSeen, TypeOK

\* The sum of live payments a transaction computes is a natural number.
LEMMA SumActiveType ==
  ASSUME TypeOK, NEW p \in Requests, NEW o
  PROVE  SumActivePayments(p, o) \in Nat
<1>1. ASSUME NEW q \in Payments
      PROVE  Contribution(PaymentSeen(p, q), o) \in Money
  BY PaymentSeenType, MoneyType DEF Contribution, PaymentRow
<1>2. [q \in Payments |-> Contribution(PaymentSeen(p, q), o)] \in [Payments -> Nat]
  BY <1>1, MoneyType
<1>. QED
  BY <1>2, SumNatural, ConstantsAssumption
     DEF SumActivePayments, SumOf, SumFunction, ConstantsAssumption

\* Rewriting the balance keeps a row well typed, gives it the balance of its
\* other columns and touches none of them.
LEMMA WithBalanceRow ==
  ASSUME NEW row \in OrderRow
  PROVE  /\ WithBalance(row) \in OrderRow
         /\ WithBalance(row).balance = ComputeOrderBalance(WithBalance(row))
         /\ WithBalance(row).status = row.status
         /\ WithBalance(row).total = row.total
         /\ WithBalance(row).paid = row.paid
         /\ WithBalance(row).applied = row.applied
         /\ WithBalance(row).refunded = row.refunded
         /\ WithBalance(row).reversed = row.reversed
BY DEF WithBalance, ComputeOrderBalance, OrderRow

\* The row bumpAppliedCredit writes differs from the one read in the applied
\* credit and the balance only.
LEMMA BumpedRowChanges ==
  ASSUME NEW row \in OrderRow, NEW delta \in Int
  PROVE  /\ BumpedRow(row, delta) \in OrderRow
         /\ BumpedRow(row, delta).balance = ComputeOrderBalance(BumpedRow(row, delta))
         /\ AgreeButCredit(BumpedRow(row, delta), row)
<1>1. Positive(row.applied + delta) \in Int
  BY DEF Positive, OrderRow
<1>. DEFINE r == [row EXCEPT !.applied = Positive(row.applied + delta)]
<1>2. r \in OrderRow
  BY <1>1 DEF OrderRow
<1>3. BumpedRow(row, delta) = [r EXCEPT !.balance = ComputeOrderBalance(r)]
  BY DEF BumpedRow, WithBalance
<1>4. BumpedRow(row, delta) \in OrderRow /\
      BumpedRow(row, delta).balance = ComputeOrderBalance(BumpedRow(row, delta))
  BY <1>2, WithBalanceRow DEF BumpedRow
<1>. HIDE DEF r
<1>5. AgreeButCredit(BumpedRow(row, delta), row)
  BY <1>1, <1>2, <1>3 DEF OrderRow, r, AgreeButCredit
<1>. QED
  BY <1>4, <1>5
-----------------------------------------------------------------------------
\* bumpAppliedCredit under the row's lock: the written row is locked by its
\* writer alone and still agrees with the committed one.
LEMMA WriteStep ==
  ASSUME LedgerInv, NEW p \in Requests, NEW s \in Orders, NEW delta \in Int,
         LockOrderForUpdate(p, s),
         WriteOrder(p, s, BumpedRow(OrderSeen(p, s), delta)),
         UNCHANGED orders
  PROVE  /\ olock' \in [Orders -> Requests \cup {None}]
         /\ wo' = [x \in Requests |-> wo'[x]]
         /\ \A x \in Requests : /\ DOMAIN wo'[x] \subseteq Orders
                                /\ wo'[x] \in [DOMAIN wo'[x] -> OrderRow]
         /\ \A o \in Orders : olock[o] = p => olock'[o] = p
         /\ \A x \in Requests \ {p}, o \in Orders : olock[o] = x => olock'[o] = x
         /\ \A x \in Requests \ {p} : wo'[x] = wo[x]
         /\ BalanceEquation' /\ NoLostUpdate' /\ WritesLocked'
<1>. DEFINE row == BumpedRow(OrderSeen(p, s), delta)
<1>0. TypeOK /\ None \notin Requests
  BY ConstantsAssumption DEF LedgerInv
<1>1. OrderSeen(p, s) \in OrderRow
  BY <1>0, OrderSeenType
<1>2. /\ row \in OrderRow
      /\ row.balance = ComputeOrderBalance(row)
      /\ AgreeButCredit(row, OrderSeen(p, s))
  BY <1>1, BumpedRowChanges
<1>. HIDE DEF row
<1>3. olock' = [olock EXCEPT ![s] = p] /\ olock[s] \in {None, p}
  BY DEF LockOrderForUpdate, LockFree
<1>4. olock' \in [Orders -> Requests \cup {None}]
  BY <1>0, <1>3 DEF TypeOK
<1>5. /\ wo' = [x \in Requests |-> wo'[x]]
      /\ \A x \in Requests \ {p} : wo'[x] = wo[x]
      /\ wo'[p] = [x \in DOMAIN wo[p] \cup {s} |-> IF x = s THEN row ELSE wo[p][x]]
  BY <1>0 DEF WriteOrder, TypeOK, row
<1>6. DOMAIN wo'[p] \subseteq Orders /\ wo'[p] \in [DOMAIN wo'[p] -> OrderRow]
  BY <1>0, <1>2, <1>5 DEF TypeOK
<1>7. \A x \in Requests : /\ DOMAIN wo'[x] \subseteq Orders
                          /\ wo'[x] \in [DOMAIN wo'[x] -> OrderRow]
  BY <1>0, <1>5, <1>6 DEF TypeOK
<1>8. /\ \A o \in Orders : olock[o] = p => olock'[o] = p
      /\ \A x \in Requests \ {p}, o \in Orders : olock[o] = x => olock'[o] = x
  BY <1>0, <1>3 DEF TypeOK
<1>9. BalanceEquation'
  BY DEF LedgerInv, BalanceEquation
<1>10. NoLostUpdate'
  <2>1. SUFFICES ASSUME NEW x \in Requests, NEW o \in DOMAIN wo'[x]
                 PROVE  AgreeButCredit(wo'[x][o], orders[o])
    BY DEF NoLostUpdate, AgreeButCredit
  <2>2. CASE x # p \/ o # s
    BY <1>5, <2>1, <2>2 DEF LedgerInv, NoLostUpdate
  <2>3. CASE x = p /\ o = s
    <3>1. wo'[p][s] = row
      BY <1>5
    <3>2. AgreeButCredit(OrderSeen(p, s), orders[s])
      BY <1>0 DEF OrderSeen, LedgerInv, NoLostUpdate, AgreeButCredit
    <3>. QED
      BY <1>2, <2>3, <3>1, <3>2 DEF AgreeButCredit
  <2>. QED
    BY <2>2, <2>3
<1>11. WritesLocked'
  <2>1. SUFFICES ASSUME NEW x \in Requests, NEW o \in DOMAIN wo'[x]
                 PROVE  olock'[o] = x /\ wo'[x][o].balance = ComputeOrderBalance(wo'[x][o])
    BY DEF WritesLocked, ComputeOrderBalance
  <2>2. CASE x # p
    BY <1>0, <1>5, <1>8, <2>2, <2>1, <1>7 DEF LedgerInv, WritesLocked
  <2>3. CASE x = p /\ o # s
    BY <1>0, <1>5, <1>8, <2>3, <2>1, <1>7 DEF LedgerInv, WritesLocked
  <2>4. CASE x = p /\ o = s
    BY <1>0, <1>2, <1>3, <1>5, <2>4 DEF TypeOK
  <2>. QED
    BY <2>2, <2>3, <2>4
<1>. QED
  BY <1>4, <1>5, <1>7, <1>8, <1>9, <1>10, <1>11

\* The end of a transaction: it drops its locks and its private state, and
\* nobody else's.
LEMMA EndStep ==
  ASSUME LedgerInv, NEW p \in Requests, Unlocked(p), Forget(p), UNCHANGED starts,
         orders' \in [Orders -> OrderRow],
         payments' \in [Payments -> PaymentRow \cup {None}],
         \A q \in Payments : payments[q] # None => payments'[q] # None
  PROVE  /\ TypeOK' /\ WritesLocked' /\ OwnLocked' /\ ControlFollowsKind'
         /\ DOMAIN wo'[p] = {}
         /\ \A x \in Requests \ {p} : wo'[x] = wo[x]
<1>0. TypeOK /\ None \notin Requests /\ NoReq \in Request
  BY ConstantsAssumption, NoReqType DEF LedgerInv
<1>1. /\ olock' \in [Orders -> Requests \cup {None}]
      /\ oshare' \in [Orders -> SUBSET Requests]
      /\ plock' \in [Payments -> Requests \cup {None}]
      /\ \A x \in Requests \ {p}, o \in Orders : olock[o] = x => olock'[o] = x
  BY <1>0 DEF TypeOK, Unlocked
<1>2. /\ wo' = [x \in Requests |-> wo'[x]]
      /\ wo'[p] = NoWrites /\ \A x \in Requests \ {p} : wo'[x] = wo[x]
  BY <1>0 DEF TypeOK, Forget
<1>3. DOMAIN wo'[p] = {} /\ wo'[p] \in [DOMAIN wo'[p] -> OrderRow]
  BY <1>2 DEF NoWrites
<1>4. /\ req' \in [Requests -> Request] /\ pc' \in [Requests -> PCs]
      /\ plan' \in [Requests -> [Orders -> Int]]
      /\ wp' \in [Requests -> PaymentRow \cup {None}]
      /\ req'[p] = NoReq /\ pc'[p] = "idle"
      /\ \A x \in Requests \ {p} : req'[x] = req[x] /\ pc'[x] = pc[x] /\ wp'[x] = wp[x]
  BY <1>0 DEF TypeOK, Forget, PCs, NoUse
<1>5. TypeOK'
  <2>1. \A x \in Requests : /\ DOMAIN wo'[x] \subseteq Orders
                            /\ wo'[x] \in [DOMAIN wo'[x] -> OrderRow]
    BY <1>0, <1>2, <1>3 DEF TypeOK
  <2>. QED
    BY <1>0, <1>1, <1>2, <1>4, <2>1 DEF TypeOK
<1>6. WritesLocked'
  <2>1. SUFFICES ASSUME NEW x \in Requests, NEW o \in DOMAIN wo'[x]
                 PROVE  olock'[o] = x /\ wo'[x][o].balance = ComputeOrderBalance(wo'[x][o])
    BY DEF WritesLocked, ComputeOrderBalance
  <2>2. x # p /\ o \in DOMAIN wo[x] /\ o \in Orders
    BY <1>0, <1>2, <1>3, <2>1 DEF TypeOK
  <2>. QED
    BY <1>1, <1>2, <2>2 DEF LedgerInv, WritesLocked
<1>7. OwnLocked'
  <2>1. SUFFICES ASSUME NEW x \in Requests,
                        \/ pc'[x] \in {"insert", "ready"}
                        \/ pc'[x] \in {"plan", "take"} /\ req'[x].kind = "addPayment"
                 PROVE  olock'[req'[x].order] = x
    BY DEF OwnLocked
  <2>2. x # p /\ req'[x] = req[x] /\ pc'[x] = pc[x]
    BY <1>4, <2>1
  <2>3. olock[req[x].order] = x /\ req[x].order \in Orders
    BY <1>0, <2>1, <2>2 DEF LedgerInv, OwnLocked, TypeOK, Request
  <2>. QED
    BY <1>1, <2>2, <2>3
<1>8. ControlFollowsKind'
  <2>1. ASSUME NEW x \in Requests, x = p
        PROVE  /\ pc'[x] = "idle" /\ DOMAIN wo'[x] = {}
               /\ req'[x].kind = "recalculateOrderTotals"
    BY <1>3, <1>4, <2>1 DEF NoReq
  <2>2. ASSUME NEW x \in Requests, x # p
        PROVE  /\ pc'[x] = pc[x] /\ wo'[x] = wo[x] /\ req'[x] = req[x] /\ wp'[x] = wp[x]
    BY <1>2, <1>4, <2>2
  <2>. QED
    BY <2>1, <2>2 DEF LedgerInv, ControlFollowsKind, EditsAPayment, OrderOnlyKinds
<1>. QED
  BY <1>2, <1>3, <1>5, <1>6, <1>7, <1>8

\* A commit publishes balanced rows, and only rows nobody else holds.
LEMMA CommitStep ==
  ASSUME LedgerInv, NEW p \in Requests, pc[p] = "ready", NEW row \in OrderRow,
         Commit(p, row)
  PROVE  LedgerInv'
<1>0. TypeOK /\ None \notin Requests /\ req[p].order \in Orders
  BY ConstantsAssumption DEF LedgerInv, TypeOK, Request
<1>1. \A o \in Orders : OrderSeen(p, o) \in OrderRow
  BY <1>0, OrderSeenType
<1>2. /\ WithBalance(row) \in OrderRow
      /\ WithBalance(row).balance = ComputeOrderBalance(WithBalance(row))
  BY WithBalanceRow
<1>3. orders' = [o \in Orders |-> IF o = req[p].order THEN WithBalance(row)
                                  ELSE OrderSeen(p, o)]
  BY DEF Commit
<1>4. orders' \in [Orders -> OrderRow]
  BY <1>1, <1>2, <1>3
<1>5. payments' = [q \in Payments |-> PaymentSeen(p, q)]
  BY DEF Commit
<1>6. payments' \in [Payments -> PaymentRow \cup {None}]
  BY <1>0, <1>5, PaymentSeenType
<1>7. \A q \in Payments : payments[q] # None => payments'[q] # None
  BY <1>5 DEF PaymentSeen
<1>8. Unlocked(p) /\ Forget(p) /\ UNCHANGED starts
  BY DEF Commit
<1>9. /\ TypeOK' /\ WritesLocked' /\ OwnLocked' /\ ControlFollowsKind'
      /\ DOMAIN wo'[p] = {}
      /\ \A x \in Requests \ {p} : wo'[x] = wo[x]
  BY <1>4, <1>6, <1>7, <1>8, EndStep
<1>10. BalanceEquation'
  <2>1. SUFFICES ASSUME NEW o \in Orders
                 PROVE  orders'[o].balance = ComputeOrderBalance(orders'[o])
    BY DEF BalanceEquation, ComputeOrderBalance
  <2>2. OrderSeen(p, o).balance = ComputeOrderBalance(OrderSeen(p, o))
    BY DEF OrderSeen, LedgerInv, WritesLocked, BalanceEquation
  <2>. QED
    BY <1>2, <1>3, <2>2
<1>11. NoLostUpdate'
  <2>1. SUFFICES ASSUME NEW x \in Requests, NEW o \in DOMAIN wo'[x]
                 PROVE  AgreeButCredit(wo'[x][o], orders'[o])
    BY DEF NoLostUpdate, AgreeButCredit
  <2>2. x # p /\ o \in DOMAIN wo[x] /\ wo'[x] = wo[x] /\ o \in Orders
    BY <1>0, <1>9, <2>1 DEF TypeOK
  <2>3. olock[o] = x
    BY <2>2 DEF LedgerInv, WritesLocked
  <2>4. olock[req[p].order] = p
    BY DEF LedgerInv, OwnLocked
  <2>5. o # req[p].order /\ o \notin DOMAIN wo[p]
    BY <2>2, <2>3, <2>4 DEF LedgerInv, WritesLocked
  <2>6. orders'[o] = orders[o]
    BY <1>3, <2>2, <2>5 DEF OrderSeen
  <2>. QED
    BY <2>2, <2>6 DEF LedgerInv, NoLostUpdate
<1>. QED
  BY <1>9, <1>10, <1>11 DEF LedgerInv

\* A statement of transaction p that neither begins nor ends it.
LEMMA KeepStep ==
  ASSUME LedgerInv, NEW p \in Requests, NEW label \in PCs \ {"idle", "payment"},
         UNCHANGED <<orders, payments, req, starts>>,
         pc' = [pc EXCEPT ![p] = label],
         olock' \in [Orders -> Requests \cup {None}],
         oshare' \in [Orders -> SUBSET Requests],
         plock' \in [Payments -> Requests \cup {None}],
         plan' \in [Requests -> [Orders -> Int]],
         wp' \in [Requests -> PaymentRow \cup {None}],
         wo' = [x \in Requests |-> wo'[x]],
         \A x \in Requests : /\ DOMAIN wo'[x] \subseteq Orders
                             /\ wo'[x] \in [DOMAIN wo'[x] -> OrderRow],
         NoLostUpdate', WritesLocked',
         \A x \in Requests \ {p} : wo'[x] = wo[x] /\ wp'[x] = wp[x],
         \A x \in Requests \ {p}, o \in Orders : olock[o] = x => olock'[o] = x,
         (label \in {"insert", "ready"}
            \/ (label \in {"plan", "take"} /\ req[p].kind = "addPayment"))
            => olock'[req[p].order] = p,
         label = "release" => EditsAPayment(p),
         label \in {"release", "plan", "take"} => wp'[p] # None,
         pc[p] # "idle",
         req[p].kind \in OrderOnlyKinds =>
            DOMAIN wo'[p] = {} /\ label \in {"own", "ready"}
  PROVE  LedgerInv'
<1>0. TypeOK
  BY DEF LedgerInv
<1>1. /\ pc' \in [Requests -> PCs] /\ pc'[p] = label
      /\ \A x \in Requests \ {p} : pc'[x] = pc[x]
  BY <1>0 DEF TypeOK
<1>2. TypeOK'
  BY <1>0, <1>1 DEF TypeOK
<1>3. BalanceEquation'
  BY DEF LedgerInv, BalanceEquation, ComputeOrderBalance
<1>4. OwnLocked'
  <2>1. SUFFICES ASSUME NEW x \in Requests,
                        \/ pc'[x] \in {"insert", "ready"}
                        \/ pc'[x] \in {"plan", "take"} /\ req[x].kind = "addPayment"
                 PROVE  olock'[req[x].order] = x
    BY DEF OwnLocked
  <2>2. CASE x = p
    BY <1>1, <2>1, <2>2
  <2>3. CASE x # p
    <3>1. olock[req[x].order] = x /\ req[x].order \in Orders
      BY <1>0, <1>1, <2>1, <2>3 DEF LedgerInv, OwnLocked, TypeOK, Request
    <3>. QED
      BY <2>3, <3>1
  <2>. QED
    BY <2>2, <2>3
<1>5. ControlFollowsKind'
  <2>1. ASSUME NEW x \in Requests, x = p
        PROVE  /\ pc'[x] = "idle" => DOMAIN wo'[x] = {}
               /\ pc'[x] # "idle" => req[x].kind \in Kinds
               /\ pc'[x] \in {"payment", "release"} => EditsAPayment(x)
               /\ pc'[x] = "payment" => payments[req[x].payment] # None
               /\ pc'[x] \in {"release", "plan", "take"} => wp'[x] # None
               /\ req[x].kind \in OrderOnlyKinds =>
                    DOMAIN wo'[x] = {} /\ pc'[x] \in {"idle", "own", "ready"}
               /\ req[x].kind \notin OrderOnlyKinds => req[x].payment \in Payments
    BY <1>1, <2>1 DEF LedgerInv, ControlFollowsKind
  <2>2. ASSUME NEW x \in Requests, x # p
        PROVE  pc'[x] = pc[x] /\ wo'[x] = wo[x] /\ wp'[x] = wp[x]
    BY <1>1, <2>2
  <2>. QED
    BY <2>1, <2>2 DEF LedgerInv, ControlFollowsKind, EditsAPayment
<1>. QED
  BY <1>2, <1>3, <1>4, <1>5 DEF LedgerInv

\* A request begins with no lock and no write.
LEMMA BeginStep ==
  ASSUME LedgerInv, NEW p \in Requests, NEW r \in Request,
         NEW label \in {"own", "payment"}, Begin(p, r, label),
         label = "payment" => /\ r.kind \in {"updatePayment", "voidPayment"}
                              /\ payments[r.payment] # None,
         r.kind \notin OrderOnlyKinds => r.payment \in Payments
  PROVE  LedgerInv'
<1>0. TypeOK /\ MaxStarts \in Nat
  BY ConstantsAssumption DEF LedgerInv
<1>1. /\ pc' \in [Requests -> PCs] /\ pc'[p] = label
      /\ req' \in [Requests -> Request] /\ req'[p] = r
      /\ \A x \in Requests \ {p} : pc'[x] = pc[x] /\ req'[x] = req[x]
      /\ starts' \in 0..MaxStarts
      /\ UNCHANGED <<orders, payments, olock, oshare, plock, plan, wo, wp>>
  BY <1>0 DEF TypeOK, Begin, Goto, PCs
<1>2. TypeOK'
  BY <1>0, <1>1 DEF TypeOK
<1>3. BalanceEquation' /\ NoLostUpdate' /\ WritesLocked'
  BY <1>1 DEF LedgerInv, BalanceEquation, ComputeOrderBalance, NoLostUpdate,
              WritesLocked, AgreeButCredit
<1>4. OwnLocked'
  BY <1>1 DEF LedgerInv, OwnLocked
<1>5. DOMAIN wo[p] = {}
  BY DEF LedgerInv, ControlFollowsKind, Begin
<1>6. ControlFollowsKind'
  BY <1>1, <1>5 DEF LedgerInv, ControlFollowsKind, EditsAPayment, OrderOnlyKinds, Begin
<1>. QED
  BY <1>2, <1>3, <1>4, <1>6 DEF LedgerInv
-----------------------------------------------------------------------------

\* An operation begins: what it holds fits its first statement.
LEMMA StartStep ==
  ASSUME LedgerInv, NEW p \in Requests, Start(p)
  PROVE  LedgerInv'
<1>. USE MoneyType, NoReqType DEF NoReq, Request, AllKinds, Methods, OrderOnlyKinds,
         Statuses
<1>0. TypeOK /\ \A q \in Payments : payments[q] # None => payments[q] \in PaymentRow
  BY DEF LedgerInv, TypeOK
<1>1. CASE StartAddPayment(p)
  <2>1. PICK o \in Orders, a \in Amounts, m \in Methods, k \in Keys \cup {None},
             q \in Payments :
          Begin(p, [NoReq EXCEPT !.kind = "addPayment", !.order = o, !.payment = q,
                                 !.amount = a, !.method = m, !.key = k], "own")
    BY <1>1 DEF StartAddPayment
  <2>. DEFINE r == [NoReq EXCEPT !.kind = "addPayment", !.order = o, !.payment = q,
                                 !.amount = a, !.method = m, !.key = k]
  <2>2. r \in Request /\ r.payment \in Payments
    OBVIOUS
  <2>3. Begin(p, r, "own")
    BY <2>1
  <2>. HIDE DEF r
  <2>. QED
    BY <2>2, <2>3, BeginStep
<1>2. CASE StartCreateMovement(p)
  <2>1. PICK o \in Orders, a \in Amounts, m \in Methods, q \in Payments :
          Begin(p, [NoReq EXCEPT !.kind = "createMovement", !.order = o,
                                 !.payment = q, !.amount = a, !.method = m], "own")
    BY <1>2 DEF StartCreateMovement
  <2>. DEFINE r == [NoReq EXCEPT !.kind = "createMovement", !.order = o,
                                 !.payment = q, !.amount = a, !.method = m]
  <2>2. r \in Request /\ r.payment \in Payments
    OBVIOUS
  <2>. QED
    BY <2>1, <2>2, BeginStep
<1>3. CASE StartUpdatePayment(p)
  <2>1. PICK q \in Payments, a \in Amounts, m \in Methods :
          /\ payments[q] # None
          /\ Begin(p, [NoReq EXCEPT !.kind = "updatePayment",
                                    !.order = payments[q].order, !.payment = q,
                                    !.amount = a, !.method = m], "payment")
    BY <1>3 DEF StartUpdatePayment
  <2>. DEFINE r == [NoReq EXCEPT !.kind = "updatePayment",
                                 !.order = payments[q].order, !.payment = q,
                                 !.amount = a, !.method = m]
  <2>2. payments[q].order \in Orders
    BY <1>0, <2>1 DEF PaymentRow
  <2>3. r \in Request /\ r.payment = q /\ r.kind = "updatePayment"
    BY <2>2
  <2>. QED
    BY <2>1, <2>3, BeginStep
<1>4. CASE StartVoidPayment(p)
  <2>1. PICK q \in Payments :
          /\ payments[q] # None
          /\ Begin(p, [NoReq EXCEPT !.kind = "voidPayment",
                                    !.order = payments[q].order, !.payment = q], "payment")
    BY <1>4 DEF StartVoidPayment
  <2>. DEFINE r == [NoReq EXCEPT !.kind = "voidPayment",
                                 !.order = payments[q].order, !.payment = q]
  <2>2. payments[q].order \in Orders
    BY <1>0, <2>1 DEF PaymentRow
  <2>3. r \in Request /\ r.payment = q /\ r.kind = "voidPayment"
    BY <2>2
  <2>. QED
    BY <2>1, <2>3, BeginStep
<1>5. CASE StartExecuteRefund(p)
  <2>1. PICK o \in Orders, a \in Amounts, rev \in Amounts \cup {0} :
          Begin(p, [NoReq EXCEPT !.kind = "executeRefund", !.order = o,
                                 !.amount = a, !.total = rev], "own")
    BY <1>5 DEF StartExecuteRefund
  <2>. DEFINE r == [NoReq EXCEPT !.kind = "executeRefund", !.order = o,
                                 !.amount = a, !.total = rev]
  <2>2. r \in Request /\ r.kind = "executeRefund"
    OBVIOUS
  <2>. QED
    BY <2>1, <2>2, BeginStep
<1>6. CASE StartAnnulOrder(p)
  <2>1. PICK o \in Orders, a \in Amounts \cup {0} :
          Begin(p, [NoReq EXCEPT !.kind = "annulOrder", !.order = o, !.amount = a], "own")
    BY <1>6 DEF StartAnnulOrder
  <2>. DEFINE r == [NoReq EXCEPT !.kind = "annulOrder", !.order = o, !.amount = a]
  <2>2. r \in Request /\ r.kind = "annulOrder"
    OBVIOUS
  <2>. QED
    BY <2>1, <2>2, BeginStep
<1>7. CASE StartRecalculate(p)
  <2>1. PICK o \in Orders, t \in Totals :
          Begin(p, [NoReq EXCEPT !.kind = "recalculateOrderTotals", !.order = o,
                                 !.total = t], "own")
    BY <1>7 DEF StartRecalculate
  <2>. DEFINE r == [NoReq EXCEPT !.kind = "recalculateOrderTotals", !.order = o,
                                 !.total = t]
  <2>2. r \in Request /\ r.kind = "recalculateOrderTotals"
    OBVIOUS
  <2>. QED
    BY <2>1, <2>2, BeginStep
<1>8. CASE StartUpdateOrder(p)
  <2>1. PICK o \in Orders, st \in Statuses :
          Begin(p, [NoReq EXCEPT !.kind = "updateOrder", !.order = o,
                                 !.status = st], "own")
    BY <1>8 DEF StartUpdateOrder
  <2>. DEFINE r == [NoReq EXCEPT !.kind = "updateOrder", !.order = o,
                                 !.status = st]
  <2>2. r \in Request /\ r.kind = "updateOrder"
    OBVIOUS
  <2>. QED
    BY <2>1, <2>2, BeginStep
<1>. QED
  BY <1>1, <1>2, <1>3, <1>4, <1>5, <1>6, <1>7, <1>8 DEF Start

\* The statements that write no order row.
LEMMA QuietStep ==
  ASSUME LedgerInv, NEW p \in Requests,
         \/ EditPaymentRow(p) \/ VoidPaymentRow(p) \/ Released(p)
         \/ InsertPayment(p) \/ PlanCredit(p) \/ InsertApplication(p) \/ Taken(p)
  PROVE  LedgerInv'
<1>0. /\ TypeOK /\ req[p] \in Request /\ None \notin Requests /\ None \notin PaymentRow
      /\ wo = [x \in Requests |-> wo[x]]
      /\ \A x \in Requests : /\ DOMAIN wo[x] \subseteq Orders
                             /\ wo[x] \in [DOMAIN wo[x] -> OrderRow]
      /\ olock \in [Orders -> Requests \cup {None}]
      /\ plan \in [Requests -> [Orders -> Int]]
      /\ oshare \in [Orders -> SUBSET Requests]
      /\ plock \in [Payments -> Requests \cup {None}]
      /\ wp \in [Requests -> PaymentRow \cup {None}]
      /\ pc \in [Requests -> PCs]
  BY ConstantsAssumption DEF LedgerInv, TypeOK
<1>1. NoLostUpdate /\ WritesLocked /\ OwnLocked /\ ControlFollowsKind
  BY DEF LedgerInv
<1>2. ASSUME UNCHANGED <<orders, olock, wo>>
      PROVE  NoLostUpdate' /\ WritesLocked'
  BY <1>1, <1>2 DEF NoLostUpdate, WritesLocked, AgreeButCredit, ComputeOrderBalance
<1>3. ASSUME NEW q \in Payments, payments[q] # None
      PROVE  payments[q] \in PaymentRow
  BY <1>0, <1>3 DEF TypeOK
<1>4. EditsAPayment(p) => req[p].payment \in Payments
  BY <1>1 DEF ControlFollowsKind, EditsAPayment, OrderOnlyKinds
<1>. USE DEF PCs
<1>5. CASE EditPaymentRow(p)
  <2>1. /\ pc[p] = "payment" /\ EditsAPayment(p)
        /\ payments[req[p].payment] \in PaymentRow
    BY <1>1, <1>3, <1>4, <1>5 DEF EditPaymentRow, ControlFollowsKind
  <2>2. [payments[req[p].payment] EXCEPT !.amount = req[p].amount, !.method = req[p].method,
                                        !.linked = FALSE] \in PaymentRow
    BY <1>0, <2>1 DEF PaymentRow, Request
  <2>3. /\ wp' \in [Requests -> PaymentRow \cup {None}] /\ wp'[p] # None
        /\ \A x \in Requests \ {p} : wp'[x] = wp[x]
    BY <1>0, <2>1, <2>2, <1>5 DEF EditPaymentRow, TypeOK
  <2>4. /\ plock' \in [Payments -> Requests \cup {None}]
        /\ oshare' \in [Orders -> SUBSET Requests]
    BY <1>0, <1>5 DEF EditPaymentRow, ShareOrder
  <2>. QED
    BY <1>0, <1>2, <1>5, <2>1, <2>3, <2>4, KeepStep
       DEF EditPaymentRow, Goto, db, EditsAPayment, OrderOnlyKinds
<1>6. CASE VoidPaymentRow(p)
  <2>1. /\ pc[p] = "payment" /\ EditsAPayment(p)
        /\ payments[req[p].payment] \in PaymentRow
    BY <1>1, <1>3, <1>4, <1>6 DEF VoidPaymentRow, ControlFollowsKind
  <2>2. [payments[req[p].payment] EXCEPT !.voided = TRUE] \in PaymentRow
    BY <1>0, <2>1 DEF PaymentRow
  <2>3. /\ wp' \in [Requests -> PaymentRow \cup {None}] /\ wp'[p] # None
        /\ \A x \in Requests \ {p} : wp'[x] = wp[x]
    BY <1>0, <2>1, <2>2, <1>6 DEF VoidPaymentRow, TypeOK
  <2>4. plock' \in [Payments -> Requests \cup {None}]
    BY <1>0, <1>6 DEF VoidPaymentRow
  <2>5. /\ UNCHANGED <<orders, payments, olock, oshare, req, plan, wo, starts>>
        /\ pc' = [pc EXCEPT ![p] = "release"]
    BY <1>6 DEF VoidPaymentRow, Goto, db
  <2>6. req[p].kind \notin OrderOnlyKinds
    BY <2>1 DEF EditsAPayment, OrderOnlyKinds
  <2>. QED
    BY <1>0, <1>2, <2>1, <2>3, <2>4, <2>5, <2>6, KeepStep
<1>7. CASE Released(p)
  <2>1. /\ EditsAPayment(p) /\ wp[p] # None
    BY <1>1, <1>7 DEF Released, ControlFollowsKind
  <2>2. PICK label \in {"plan", "own"} : pc' = [pc EXCEPT ![p] = label]
    BY <1>7 DEF Released, Goto
  <2>. QED
    BY <1>0, <1>2, <1>7, <2>1, <2>2, KeepStep
       DEF Released, db, locks, local, EditsAPayment, OrderOnlyKinds
<1>8. CASE InsertPayment(p)
  <2>1. pc[p] = "insert" /\ olock[req[p].order] = p /\ req[p].kind \notin OrderOnlyKinds
    BY <1>1, <1>8 DEF InsertPayment, OwnLocked, ControlFollowsKind
  <2>2. NewPaymentRow(req[p]) \in PaymentRow
    BY <1>0 DEF NewPaymentRow, PaymentRow, Request, NoUse
  <2>3. /\ wp' \in [Requests -> PaymentRow \cup {None}] /\ wp'[p] # None
        /\ \A x \in Requests \ {p} : wp'[x] = wp[x]
    BY <1>0, <2>2, <1>8 DEF InsertPayment, TypeOK
  <2>4. PICK label \in {"plan", "ready"} : pc' = [pc EXCEPT ![p] = label]
    BY <1>8 DEF InsertPayment, Goto
  <2>. QED
    BY <1>0, <1>2, <1>8, <2>1, <2>3, <2>4, KeepStep
       DEF InsertPayment, db, locks
<1>9. CASE PlanCredit(p)
  <2>1. /\ pc[p] = "plan" /\ wp[p] # None /\ req[p].kind \notin OrderOnlyKinds
        /\ req[p].kind = "addPayment" => olock[req[p].order] = p
    BY <1>1, <1>9 DEF PlanCredit, OwnLocked, ControlFollowsKind
  <2>2. plan' \in [Requests -> [Orders -> Int]]
    <3>1. PICK taken \in [Orders -> 0..req[p].amount] : plan' = [plan EXCEPT ![p] = taken]
      BY <1>9 DEF PlanCredit
    <3>2. taken \in [Orders -> Int]
      OBVIOUS
    <3>. QED
      BY <1>0, <3>1, <3>2 DEF TypeOK
  <2>. QED
    BY <1>0, <1>2, <1>9, <2>1, <2>2, KeepStep
       DEF PlanCredit, Goto, db, locks
<1>10. CASE InsertApplication(p)
  <2>1. /\ pc[p] = "take" /\ wp[p] # None /\ req[p].kind \notin OrderOnlyKinds
        /\ req[p].kind = "addPayment" => olock[req[p].order] = p
    BY <1>1, <1>10 DEF InsertApplication, OwnLocked, ControlFollowsKind
  <2>2. oshare' \in [Orders -> SUBSET Requests] /\ pc' = [pc EXCEPT ![p] = "take"]
    BY <1>0, <1>10, <2>1 DEF InsertApplication, ShareOrder
  <2>3. UNCHANGED <<orders, payments, olock, plock, req, plan, wo, wp, starts>>
    BY <1>10 DEF InsertApplication, db, local
  <2>. QED
    BY <1>0, <1>2, <2>1, <2>2, <2>3, KeepStep
<1>11. CASE Taken(p)
  <2>1. /\ pc[p] = "take" /\ wp[p] # None /\ req[p].kind \notin OrderOnlyKinds
        /\ req[p].kind = "addPayment" => olock[req[p].order] = p
    BY <1>1, <1>11 DEF Taken, OwnLocked, ControlFollowsKind
  <2>2. PICK label \in {"ready", "own"} :
          /\ pc' = [pc EXCEPT ![p] = label]
          /\ label = "ready" => req[p].kind = "addPayment"
    BY <1>11 DEF Taken, Goto
  <2>. QED
    BY <1>0, <1>2, <1>11, <2>1, <2>2, KeepStep DEF Taken, db, locks, local
<1>. QED
  BY <1>5, <1>6, <1>7, <1>8, <1>9, <1>10, <1>11

\* The statements that take the row lock of an order, alone or to write it.
LEMMA LockStep ==
  ASSUME LedgerInv, NEW p \in Requests,
         LockOwnOrder(p) \/ ReleaseSource(p) \/ TakeSource(p)
  PROVE  LedgerInv'
<1>0. /\ TypeOK /\ req[p] \in Request /\ None \notin Requests /\ None \notin PaymentRow
      /\ wo = [x \in Requests |-> wo[x]]
      /\ \A x \in Requests : /\ DOMAIN wo[x] \subseteq Orders
                             /\ wo[x] \in [DOMAIN wo[x] -> OrderRow]
      /\ olock \in [Orders -> Requests \cup {None}]
      /\ plan \in [Requests -> [Orders -> Int]]
      /\ oshare \in [Orders -> SUBSET Requests]
      /\ plock \in [Payments -> Requests \cup {None}]
      /\ wp \in [Requests -> PaymentRow \cup {None}]
      /\ pc \in [Requests -> PCs]
  BY ConstantsAssumption DEF LedgerInv, TypeOK
<1>1. NoLostUpdate /\ WritesLocked /\ OwnLocked /\ ControlFollowsKind
  BY DEF LedgerInv
<1>2. CASE LockOwnOrder(p)
  <2>. DEFINE own == req[p].order
  <2>1. /\ own \in Orders /\ olock[own] \in {None, p} /\ olock' = [olock EXCEPT ![own] = p]
        /\ UNCHANGED <<orders, payments, oshare, plock, req, plan, wo, wp, starts>>
    BY <1>0, <1>2 DEF LockOwnOrder, LockOrderForUpdate, LockFree, db, local, Request
  <2>2. PICK label \in {"insert", "ready"} :
          /\ pc' = [pc EXCEPT ![p] = label]
          /\ label = "insert" => req[p].kind \in {"addPayment", "createMovement"}
    BY <1>2 DEF LockOwnOrder, Goto
  <2>3. /\ olock' \in [Orders -> Requests \cup {None}] /\ olock'[own] = p
        /\ \A x \in Requests, o \in Orders : olock[o] = x => olock'[o] = x
    BY <1>0, <2>1
  <2>4. WritesLocked'
    BY <1>0, <1>1, <2>1, <2>3 DEF WritesLocked, ComputeOrderBalance
  <2>5. NoLostUpdate'
    BY <1>1, <2>1 DEF NoLostUpdate, AgreeButCredit
  <2>6. req[p].kind \in OrderOnlyKinds => DOMAIN wo'[p] = {} /\ label \in {"own", "ready"}
    BY <1>1, <2>1, <2>2 DEF ControlFollowsKind, OrderOnlyKinds
  <2>7. label \in PCs \ {"idle", "payment"} /\ label \notin {"release", "plan", "take"}
    BY DEF PCs
  <2>8. /\ wo' = [x \in Requests |-> wo'[x]]
        /\ \A x \in Requests : /\ DOMAIN wo'[x] \subseteq Orders
                               /\ wo'[x] \in [DOMAIN wo'[x] -> OrderRow]
        /\ \A x \in Requests \ {p} : wo'[x] = wo[x] /\ wp'[x] = wp[x]
        /\ wp' \in [Requests -> PaymentRow \cup {None}]
        /\ plock' \in [Payments -> Requests \cup {None}]
        /\ plan' \in [Requests -> [Orders -> Int]]
        /\ oshare' \in [Orders -> SUBSET Requests]
    BY <1>0, <2>1
  <2>. HIDE DEF own
  <2>9. olock'[req[p].order] = p
    BY <2>3 DEF own
  <2>10. pc[p] # "idle"
    BY <1>2 DEF LockOwnOrder
  <2>. QED
    BY <2>1, <2>2, <2>3, <2>4, <2>5, <2>6, <2>7, <2>8, <2>9, <2>10, KeepStep
<1>3. CASE ReleaseSource(p)
  <2>1. /\ pc[p] = "release" /\ EditsAPayment(p) /\ wp[p] \in PaymentRow
    BY <1>0, <1>1, <1>3 DEF ReleaseSource, ControlFollowsKind
  <2>2. PICK s \in Orders :
          /\ LockOrderForUpdate(p, s)
          /\ WriteOrder(p, s, BumpedRow(OrderSeen(p, s), -wp[p].used[s]))
          /\ wp' = [wp EXCEPT ![p] = UsingFrom(wp[p], s, 0)]
    BY <1>3 DEF ReleaseSource
  <2>3. /\ UNCHANGED <<orders, payments, oshare, plock, req, plan, starts>>
        /\ pc' = [pc EXCEPT ![p] = "release"]
    BY <1>0, <1>3, <2>1 DEF ReleaseSource, db
  <2>4. -wp[p].used[s] \in Int
    BY <2>1 DEF PaymentRow
  <2>5. UsingFrom(wp[p], s, 0) \in PaymentRow
    BY <2>1 DEF PaymentRow, UsingFrom
  <2>6. /\ wp' \in [Requests -> PaymentRow \cup {None}] /\ wp'[p] # None
        /\ \A x \in Requests \ {p} : wp'[x] = wp[x]
    BY <1>0, <2>2, <2>5
  <2>7. req[p].kind \notin OrderOnlyKinds
    BY <2>1 DEF EditsAPayment, OrderOnlyKinds
  <2>. HIDE DEF LedgerInv
  <2>8. /\ olock' \in [Orders -> Requests \cup {None}]
        /\ wo' = [x \in Requests |-> wo'[x]]
        /\ \A x \in Requests : /\ DOMAIN wo'[x] \subseteq Orders
                               /\ wo'[x] \in [DOMAIN wo'[x] -> OrderRow]
        /\ \A x \in Requests \ {p}, o \in Orders : olock[o] = x => olock'[o] = x
        /\ \A x \in Requests \ {p} : wo'[x] = wo[x]
        /\ NoLostUpdate' /\ WritesLocked'
    BY <2>2, <2>3, <2>4, WriteStep
  <2>. QED
    BY <1>0, <2>1, <2>3, <2>6, <2>7, <2>8, KeepStep DEF PCs
<1>4. CASE TakeSource(p)
  <2>1. /\ pc[p] = "take" /\ wp[p] \in PaymentRow /\ req[p].kind \notin OrderOnlyKinds
        /\ req[p].kind = "addPayment" => olock[req[p].order] = p
    BY <1>0, <1>1, <1>4 DEF TakeSource, ControlFollowsKind, OwnLocked
  <2>2. PICK s \in Orders :
          /\ LockOrderForUpdate(p, s)
          /\ WriteOrder(p, s, BumpedRow(OrderSeen(p, s), plan[p][s]))
          /\ wp' = [wp EXCEPT ![p] = UsingFrom(wp[p], s, wp[p].used[s] + plan[p][s])]
          /\ plan' = [plan EXCEPT ![p] = [plan[p] EXCEPT ![s] = 0]]
    BY <1>4 DEF TakeSource
  <2>3. /\ UNCHANGED <<orders, payments, oshare, plock, req, starts>>
        /\ pc' = [pc EXCEPT ![p] = "take"]
    BY <1>0, <1>4, <2>1 DEF TakeSource, db
  <2>4. plan[p][s] \in Int /\ plan' \in [Requests -> [Orders -> Int]]
    BY <1>0, <2>2
  <2>5. UsingFrom(wp[p], s, wp[p].used[s] + plan[p][s]) \in PaymentRow
    BY <2>1, <2>4 DEF PaymentRow, UsingFrom
  <2>6. /\ wp' \in [Requests -> PaymentRow \cup {None}] /\ wp'[p] # None
        /\ \A x \in Requests \ {p} : wp'[x] = wp[x]
    BY <1>0, <2>2, <2>5
  <2>7. /\ olock' \in [Orders -> Requests \cup {None}]
        /\ wo' = [x \in Requests |-> wo'[x]]
        /\ \A x \in Requests : /\ DOMAIN wo'[x] \subseteq Orders
                               /\ wo'[x] \in [DOMAIN wo'[x] -> OrderRow]
        /\ \A o \in Orders : olock[o] = p => olock'[o] = p
        /\ \A x \in Requests \ {p}, o \in Orders : olock[o] = x => olock'[o] = x
        /\ \A x \in Requests \ {p} : wo'[x] = wo[x]
        /\ NoLostUpdate' /\ WritesLocked'
    BY <2>2, <2>3, <2>4, WriteStep
  <2>8. req[p].kind = "addPayment" => olock'[req[p].order] = p
    BY <1>0, <2>1, <2>7 DEF Request
  <2>. QED
    BY <1>0, <2>1, <2>3, <2>4, <2>6, <2>7, <2>8, KeepStep DEF PCs
<1>. QED
  BY <1>2, <1>3, <1>4

\* Whatever a transaction writes to its own order before committing is a row.
LEMMA CommitAnyStep ==
  ASSUME LedgerInv, NEW p \in Requests,
         \/ CommitPayment(p) \/ CommitEdit(p) \/ CommitTotals(p)
         \/ CommitRefund(p) \/ CommitAnnul(p) \/ CommitStatus(p)
  PROVE  LedgerInv'
<1>0. /\ TypeOK /\ req[p] \in Request /\ req[p].order \in Orders
      /\ req[p].amount \in Nat /\ req[p].total \in Int
  BY MoneyType DEF LedgerInv, TypeOK, Request
<1>1. Own(p) \in OrderRow
  BY <1>0, OrderSeenType DEF Own
<1>2. ASSUME NEW row \in OrderRow
      PROVE  Recomputed(p, row) \in OrderRow
  <2>1. SumActivePayments(p, req[p].order) \in Nat
    BY <1>0, SumActiveType
  <2>2. ComputeNetPaidAmount(SumActivePayments(p, req[p].order), row.refunded) \in Int
    BY <2>1 DEF ComputeNetPaidAmount, Positive, OrderRow
  <2>. QED
    BY <2>2 DEF Recomputed, OrderRow
<1>3. CASE CommitPayment(p)
  <2>1. [Own(p) EXCEPT !.paid = @ + req[p].amount] \in OrderRow
    BY <1>0, <1>1 DEF OrderRow
  <2>. QED
    BY <1>3, <2>1, CommitStep DEF CommitPayment
<1>4. CASE CommitEdit(p)
  BY <1>1, <1>2, <1>4, CommitStep DEF CommitEdit
<1>5. CASE CommitTotals(p)
  <2>1. [Own(p) EXCEPT !.total = req[p].total] \in OrderRow
    BY <1>0, <1>1 DEF OrderRow
  <2>. QED
    BY <1>2, <1>5, <2>1, CommitStep DEF CommitTotals
<1>6. CASE CommitRefund(p)
  <2>. DEFINE reversed == Own(p).reversed + req[p].total
              status == IF /\ Own(p).status # "ANULADO"
                           /\ reversed >= Own(p).total /\ Own(p).total > 0
                        THEN "RETURNED" ELSE Own(p).status
  <2>2. reversed \in Int /\ status \in Statuses
    BY <1>0, <1>1 DEF OrderRow, Statuses
  <2>3. /\ Own(p).paid - req[p].amount \in Int
        /\ Own(p).refunded + req[p].amount \in Int
    BY <1>0, <1>1 DEF OrderRow
  <2>4. RefundedRow(Own(p), req[p]) =
          [Own(p) EXCEPT !.paid = Own(p).paid - req[p].amount,
                         !.refunded = Own(p).refunded + req[p].amount,
                         !.reversed = reversed, !.status = status]
    BY DEF RefundedRow
  <2>. HIDE DEF reversed, status
  <2>5. RefundedRow(Own(p), req[p]) \in OrderRow
    BY <1>1, <2>2, <2>3, <2>4 DEF OrderRow
  <2>. QED
    BY <1>6, <2>5, CommitStep DEF CommitRefund
<1>7. CASE CommitAnnul(p)
  <2>1. "ANULADO" \in Statuses /\ Own(p).total - req[p].amount \in Int
    BY <1>0, <1>1 DEF OrderRow, Statuses
  <2>2. [Own(p) EXCEPT !.status = "ANULADO", !.reversed = Own(p).total - req[p].amount]
          \in OrderRow
    BY <1>1, <2>1 DEF OrderRow
  <2>. QED
    BY <1>7, <2>2, CommitStep DEF CommitAnnul
<1>8. CASE CommitStatus(p)
  <2>1. req[p].status \in Statuses
    BY <1>0 DEF Request
  <2>2. [Own(p) EXCEPT !.status = req[p].status] \in OrderRow
    BY <1>1, <2>1 DEF OrderRow
  <2>. QED
    BY <1>8, <2>2, CommitStep DEF CommitStatus
<1>. QED
  BY <1>3, <1>4, <1>5, <1>6, <1>7, <1>8

\* A transaction that aborts leaves the committed rows as they were.
LEMMA AbortStep ==
  ASSUME LedgerInv, NEW p \in Requests, Abort(p)
  PROVE  LedgerInv'
<1>1. /\ Unlocked(p) /\ Forget(p) /\ UNCHANGED <<orders, payments, starts>>
  BY DEF Abort, db
<1>2. /\ orders' \in [Orders -> OrderRow]
      /\ payments' \in [Payments -> PaymentRow \cup {None}]
      /\ \A q \in Payments : payments[q] # None => payments'[q] # None
  BY <1>1 DEF LedgerInv, TypeOK
<1>3. /\ TypeOK' /\ WritesLocked' /\ OwnLocked' /\ ControlFollowsKind'
      /\ DOMAIN wo'[p] = {}
      /\ \A x \in Requests \ {p} : wo'[x] = wo[x]
  BY <1>1, <1>2, EndStep
<1>4. BalanceEquation'
  BY <1>1 DEF LedgerInv, BalanceEquation, ComputeOrderBalance
<1>5. NoLostUpdate'
  BY <1>1, <1>3 DEF LedgerInv, NoLostUpdate, AgreeButCredit
<1>. QED
  BY <1>3, <1>4, <1>5 DEF LedgerInv

\* The books start balanced.
LEMMA InitLedgerInv == Init => LedgerInv
<1>. SUFFICES ASSUME Init PROVE LedgerInv
  OBVIOUS
<1>1. TypeOK
  <2>1. /\ req \in [Requests -> Request] /\ pc \in [Requests -> PCs]
        /\ plan \in [Requests -> [Orders -> Int]]
    BY NoReqType DEF Init, PCs, NoUse
  <2>2. /\ wo = [p \in Requests |-> wo[p]]
        /\ \A p \in Requests : /\ DOMAIN wo[p] \subseteq Orders
                               /\ wo[p] \in [DOMAIN wo[p] -> OrderRow]
    BY DEF Init, NoWrites
  <2>. QED
    BY <2>1, <2>2, ConstantsAssumption DEF Init, TypeOK
<1>2. BalanceEquation
  BY ConstantsAssumption DEF Init, BalanceEquation, ComputeOrderBalance
<1>3. NoLostUpdate /\ WritesLocked
  BY DEF Init, NoLostUpdate, WritesLocked, NoWrites
<1>4. OwnLocked /\ ControlFollowsKind
  BY DEF Init, OwnLocked, ControlFollowsKind, NoReq, OrderOnlyKinds, NoWrites
<1>. QED
  BY <1>1, <1>2, <1>3, <1>4 DEF LedgerInv

\* Every step of every request preserves the invariant.
LEMMA NextLedgerInv == LedgerInv /\ [Next]_vars => LedgerInv'
<1>. SUFFICES ASSUME LedgerInv, [Next]_vars PROVE LedgerInv'
  OBVIOUS
<1>1. CASE UNCHANGED vars
  BY <1>1 DEF LedgerInv, vars, TypeOK, BalanceEquation, ComputeOrderBalance,
     NoLostUpdate, AgreeButCredit, WritesLocked, OwnLocked, ControlFollowsKind,
     EditsAPayment
<1>2. ASSUME NEW p \in Requests, Start(p) \/ Step(p) \/ Abort(p)
      PROVE  LedgerInv'
  BY <1>2, StartStep, QuietStep, LockStep, CommitAnyStep, AbortStep DEF Step
<1>. QED
  BY <1>1, <1>2 DEF Next

\* The ledger invariant holds in every reachable state, whatever the number of
\* orders, payments and concurrent requests.
THEOREM LedgerCorrect == Spec => []LedgerInv
<1>. QED
  BY InitLedgerInv, NextLedgerInv, PTL DEF Spec

\* Every committed row and every request state is of its type.
THEOREM TypesHold == Spec => []TypeOK
<1>1. LedgerInv => TypeOK
  BY DEF LedgerInv
<1>. QED
  BY <1>1, LedgerCorrect, PTL

\* The stored balance is never out of step with the columns it is computed
\* from, however the writers of order-balance.util.ts interleave.
THEOREM BalanceHolds == Spec => []BalanceEquation
<1>1. LedgerInv => BalanceEquation
  BY DEF LedgerInv
<1>. QED
  BY <1>1, LedgerCorrect, PTL

\* No transaction commits over a write it has not seen.
THEOREM NoUpdateIsLost == Spec => []NoLostUpdate
<1>1. LedgerInv => NoLostUpdate
  BY DEF LedgerInv
<1>. QED
  BY <1>1, LedgerCorrect, PTL
-----------------------------------------------------------------------------
\* Only the transaction's own order changes in anything but its applied credit.
LEMMA CommitTouchesOwn ==
  ASSUME LedgerInv, NEW p \in Requests, NEW row, Commit(p, row),
         NEW o \in Orders, o # req[p].order
  PROVE  AgreeButCredit(orders'[o], orders[o])
<1>1. orders'[o] = OrderSeen(p, o)
  BY DEF Commit
<1>2. CASE o \in DOMAIN wo[p]
  BY <1>1, <1>2 DEF OrderSeen, LedgerInv, NoLostUpdate
<1>3. CASE o \notin DOMAIN wo[p]
  BY <1>1, <1>3 DEF OrderSeen, AgreeButCredit
<1>. QED
  BY <1>2, <1>3

\* What the transaction read of its own order is the committed row but for the
\* credit it released or applied itself, and wholly so for the operations that
\* touch no payment.
LEMMA OwnIsCommitted ==
  ASSUME LedgerInv, NEW p \in Requests
  PROVE  /\ req[p].order \in Orders /\ Own(p) \in OrderRow
         /\ AgreeButCredit(Own(p), orders[req[p].order])
         /\ req[p].kind \in OrderOnlyKinds => Own(p) = orders[req[p].order]
<1>1. TypeOK /\ req[p].order \in Orders
  BY DEF LedgerInv, TypeOK, Request
<1>2. Own(p) \in OrderRow
  BY <1>1, OrderSeenType DEF Own
<1>3. AgreeButCredit(Own(p), orders[req[p].order])
  BY <1>1 DEF Own, OrderSeen, LedgerInv, NoLostUpdate, AgreeButCredit
<1>4. req[p].kind \in OrderOnlyKinds => Own(p) = orders[req[p].order]
  BY <1>1 DEF Own, OrderSeen, LedgerInv, ControlFollowsKind
<1>. QED
  BY <1>1, <1>2, <1>3, <1>4

\* The statements that do not commit change no order.
LEMMA OnlyCommitsWrite ==
  ASSUME NEW p \in Requests, Start(p) \/ Step(p) \/ Abort(p), orders' # orders
  PROVE  \/ CommitPayment(p) \/ CommitEdit(p) \/ CommitTotals(p)
         \/ CommitRefund(p) \/ CommitAnnul(p) \/ CommitStatus(p)
BY DEF Start, Step, Abort, StartAddPayment, StartCreateMovement, StartUpdatePayment,
       StartVoidPayment, StartExecuteRefund, StartAnnulOrder, StartRecalculate,
       StartUpdateOrder, Begin,
       EditPaymentRow, VoidPaymentRow, ReleaseSource, Released, LockOwnOrder,
       InsertPayment, PlanCredit, InsertApplication, TakeSource, Taken, db

\* The commits that neither refund nor annul keep status and refunded amount.
LEMMA PlainCommits ==
  ASSUME LedgerInv, NEW p \in Requests,
         CommitPayment(p) \/ CommitEdit(p) \/ CommitTotals(p),
         NEW o \in Orders
  PROVE  orders'[o].status = orders[o].status /\ orders'[o].refunded = orders[o].refunded
<1>. DEFINE own == req[p].order
<1>0. /\ Own(p) \in OrderRow /\ own \in Orders
      /\ AgreeButCredit(Own(p), orders[own])
  BY OwnIsCommitted
<1>1. PICK row : /\ Commit(p, row)
                 /\ row.status = Own(p).status /\ row.refunded = Own(p).refunded
  <2>1. CASE CommitPayment(p)
    <3>. DEFINE row == [Own(p) EXCEPT !.paid = @ + req[p].amount]
    <3>1. Commit(p, row) /\ row.status = Own(p).status /\ row.refunded = Own(p).refunded
      BY <1>0, <2>1 DEF CommitPayment, OrderRow
    <3>. QED
      BY <3>1
  <2>2. CASE CommitEdit(p)
    <3>. DEFINE row == Recomputed(p, Own(p))
    <3>1. Commit(p, row) /\ row.status = Own(p).status /\ row.refunded = Own(p).refunded
      BY <1>0, <2>2 DEF CommitEdit, Recomputed, OrderRow
    <3>. QED
      BY <3>1
  <2>3. CASE CommitTotals(p)
    <3>. DEFINE row == Recomputed(p, [Own(p) EXCEPT !.total = req[p].total])
    <3>1. Commit(p, row) /\ row.status = Own(p).status /\ row.refunded = Own(p).refunded
      BY <1>0, <2>3 DEF CommitTotals, Recomputed, OrderRow
    <3>. QED
      BY <3>1
  <2>. QED
    BY <2>1, <2>2, <2>3
<1>2. CASE o # own
  BY <1>1, <1>2, CommitTouchesOwn DEF AgreeButCredit
<1>3. CASE o = own
  <2>1. orders'[o] = WithBalance(row)
    BY <1>0, <1>1, <1>3 DEF Commit
  <2>. QED
    BY <1>0, <1>1, <1>3, <2>1 DEF WithBalance, AgreeButCredit
<1>. QED
  BY <1>2, <1>3

\* A step that annuls an order leaves no debt beyond credit the order had given
\* away without having been paid for.
LEMMA AnnulStep ==
  ASSUME "updateOrder" \notin Kinds, LedgerInv, [Next]_vars, NEW o \in Orders,
         orders[o].status # "ANULADO", orders'[o].status = "ANULADO"
  PROVE  orders'[o].balance <= Positive(orders[o].applied - orders[o].paid)
<1>1. orders' # orders
  OBVIOUS
<1>2. PICK p \in Requests : Start(p) \/ Step(p) \/ Abort(p)
  BY <1>1 DEF Next, vars
<1>. DEFINE own == req[p].order
<1>3. /\ Own(p) \in OrderRow /\ own \in Orders
      /\ AgreeButCredit(Own(p), orders[own])
      /\ req[p].kind \in OrderOnlyKinds => Own(p) = orders[own]
  BY OwnIsCommitted
<1>5. CASE CommitPayment(p) \/ CommitEdit(p) \/ CommitTotals(p)
  BY <1>5, PlainCommits
<1>6. CASE CommitRefund(p)
  <2>1. /\ Commit(p, RefundedRow(Own(p), req[p]))
        /\ RefundedRow(Own(p), req[p]).status = "ANULADO" => Own(p).status = "ANULADO"
    BY <1>3, <1>6 DEF CommitRefund, RefundedRow, OrderRow
  <2>2. o = own
    BY <2>1, CommitTouchesOwn DEF AgreeButCredit
  <2>3. orders'[o] = WithBalance(RefundedRow(Own(p), req[p]))
    BY <1>3, <2>1, <2>2 DEF Commit
  <2>4. WithBalance(RefundedRow(Own(p), req[p])).status = RefundedRow(Own(p), req[p]).status
    BY <1>3 DEF WithBalance, RefundedRow, OrderRow
  <2>. QED
    BY <1>3, <2>1, <2>2, <2>3, <2>4 DEF AgreeButCredit
<1>7. CASE CommitAnnul(p)
  <2>. DEFINE row == [Own(p) EXCEPT !.status = "ANULADO",
                                    !.reversed = Own(p).total - req[p].amount]
  <2>1. /\ Commit(p, row) /\ req[p].amount <= ComputeMaxRetainableOnAnnul(Own(p))
        /\ Own(p) = orders[own]
    BY <1>3, <1>7 DEF CommitAnnul, OrderOnlyKinds
  <2>2. o = own
    BY <2>1, CommitTouchesOwn DEF AgreeButCredit
  <2>3. orders'[o].balance = ComputeOrderBalance(row)
    BY <1>3, <2>1, <2>2 DEF Commit, WithBalance, OrderRow
  <2>4. ComputeOrderBalance(row) =
          Own(p).total - (Own(p).total - req[p].amount) - Own(p).paid + Own(p).applied
    BY <1>3 DEF ComputeOrderBalance, OrderRow
  <2>5. /\ Own(p).total \in Int /\ Own(p).reversed \in Int
        /\ Own(p).paid \in Int /\ Own(p).applied \in Int
        /\ req[p].amount \in Int
    BY <1>3, MoneyType DEF OrderRow, LedgerInv, TypeOK, Request
  <2>6. ComputeOrderBalance(row) <= Positive(Own(p).applied - Own(p).paid)
    BY <2>1, <2>4, <2>5 DEF ComputeMaxRetainableOnAnnul, Positive, Least
  <2>. QED
    BY <2>1, <2>2, <2>3, <2>6
<1>8. ~CommitStatus(p)
  BY DEF CommitStatus, LedgerInv, ControlFollowsKind
<1>. QED
  BY <1>1, <1>2, <1>5, <1>6, <1>7, <1>8, OnlyCommitsWrite

\* A step that raises what was refunded leaves the order without debt.
LEMMA RefundStep ==
  ASSUME LedgerInv, [Next]_vars, NEW o \in Orders,
         orders'[o].refunded > orders[o].refunded
  PROVE  orders'[o].balance <= 0
<1>0. orders[o].refunded \in Int
  BY DEF LedgerInv, TypeOK, OrderRow
<1>1. orders' # orders
  BY <1>0
<1>2. PICK p \in Requests : Start(p) \/ Step(p) \/ Abort(p)
  BY <1>1 DEF Next, vars
<1>. DEFINE own == req[p].order
            row == RefundedRow(Own(p), req[p])
<1>3. /\ Own(p) \in OrderRow /\ own \in Orders
      /\ AgreeButCredit(Own(p), orders[own])
  BY OwnIsCommitted
<1>4. CASE CommitPayment(p) \/ CommitEdit(p) \/ CommitTotals(p)
  BY <1>0, <1>4, PlainCommits
<1>5. CASE CommitAnnul(p)
  <2>. DEFINE annulled == [Own(p) EXCEPT !.status = "ANULADO",
                                         !.reversed = Own(p).total - req[p].amount]
  <2>1. Commit(p, annulled) /\ WithBalance(annulled).refunded = Own(p).refunded
    BY <1>3, <1>5 DEF CommitAnnul, WithBalance, OrderRow
  <2>2. o = own
    BY <1>0, <2>1, CommitTouchesOwn DEF AgreeButCredit
  <2>. QED
    BY <1>0, <1>3, <2>1, <2>2 DEF Commit, AgreeButCredit
<1>6. CASE CommitRefund(p)
  <2>1. Commit(p, row) /\ RefundStillViable(req[p], Own(p))
    BY <1>6 DEF CommitRefund
  <2>2. o = own
    BY <1>0, <2>1, CommitTouchesOwn DEF AgreeButCredit
  <2>3. /\ orders'[o].balance = Own(p).total - (Own(p).reversed + req[p].total)
                                - (Own(p).paid - req[p].amount) + Own(p).applied
        /\ orders'[o].refunded = Own(p).refunded + req[p].amount
    BY <1>3, <2>1, <2>2 DEF Commit, WithBalance, ComputeOrderBalance, RefundedRow, OrderRow
  <2>4. /\ Own(p).total \in Int /\ Own(p).reversed \in Int
        /\ Own(p).paid \in Int /\ Own(p).applied \in Int /\ Own(p).refunded \in Int
        /\ req[p].amount \in Int /\ req[p].total \in Int
    BY <1>3, MoneyType DEF OrderRow, LedgerInv, TypeOK, Request
  <2>5. req[p].amount > 0
    BY <1>3, <2>2, <2>3, <2>4 DEF AgreeButCredit
  <2>6. ComputeOrderBalance([Own(p) EXCEPT !.reversed = @ + req[p].total]) =
          Own(p).total - (Own(p).reversed + req[p].total) - Own(p).paid + Own(p).applied
    BY <1>3 DEF ComputeOrderBalance, OrderRow
  <2>7. req[p].amount <= Positive(0 - (Own(p).total - (Own(p).reversed + req[p].total)
                                       - Own(p).paid + Own(p).applied))
    BY <2>1, <2>6 DEF RefundStillViable, ComputeAvailableOverpayment
  <2>. QED
    BY <2>3, <2>4, <2>5, <2>7 DEF Positive
<1>7. CASE CommitStatus(p)
  <2>. DEFINE edited == [Own(p) EXCEPT !.status = req[p].status]
  <2>1. Commit(p, edited) /\ WithBalance(edited).refunded = Own(p).refunded
    BY <1>3, <1>7 DEF CommitStatus, WithBalance, OrderRow
  <2>2. o = own
    BY <1>0, <2>1, CommitTouchesOwn DEF AgreeButCredit
  <2>. QED
    BY <1>0, <1>3, <2>1, <2>2 DEF Commit, AgreeButCredit
<1>. QED
  BY <1>1, <1>2, <1>4, <1>5, <1>6, <1>7, OnlyCommitsWrite

\* Annulment never leaves a debt of its own making (annulOrder), in a system whose
\* orders are annulled by annulOrder alone and not by the status field of update().
THEOREM AnnulmentLeavesNoDebt ==
  ASSUME "updateOrder" \notin Kinds
  PROVE  Spec => AnnulLeavesNoDebt
<1>1. LedgerInv /\ [Next]_vars =>
        [\A o \in Orders :
           (orders[o].status # "ANULADO" /\ orders'[o].status = "ANULADO")
             => orders'[o].balance <= Positive(orders[o].applied - orders[o].paid)]_vars
  BY AnnulStep
<1>. QED
  BY <1>1, LedgerCorrect, PTL DEF Spec, AnnulLeavesNoDebt

\* A refund only ever pays out spare money (applyToOrder).
THEOREM RefundsLeaveNoDebt == Spec => RefundLeavesNoDebt
<1>1. LedgerInv /\ [Next]_vars =>
        [\A o \in Orders :
           orders'[o].refunded > orders[o].refunded => orders'[o].balance <= 0]_vars
  BY RefundStep
<1>. QED
  BY <1>1, LedgerCorrect, PTL DEF Spec, RefundLeavesNoDebt
-----------------------------------------------------------------------------
\* What the transactions know of the payments they write.
LEMMA RowFacts ==
  ASSUME LedgerInv, NEW p \in Requests
  PROVE  /\ TypeOK /\ None \notin Requests /\ None \notin Payments /\ None \notin PaymentRow
         /\ req[p] \in Request /\ wp[p] \in PaymentRow \cup {None}
         /\ plan[p] \in [Orders -> Int]
         /\ DOMAIN wo[p] \subseteq Orders /\ wo[p] \in [DOMAIN wo[p] -> OrderRow]
         /\ Adding(p) \/ Editing(p) => req[p].payment \in Payments
         /\ Adding(p) => ~Editing(p)
         /\ \A q \in Payments : payments[q] \in PaymentRow \cup {None}
<1>1. TypeOK /\ ControlFollowsKind
  BY DEF LedgerInv
<1>2. Adding(p) \/ Editing(p) => req[p].kind \notin OrderOnlyKinds
  BY DEF Adding, Editing, EditsAPayment, OrderOnlyKinds
<1>3. Adding(p) => ~Editing(p)
  BY DEF Adding, Editing, EditsAPayment
<1>. QED
  BY <1>1, <1>2, <1>3, ConstantsAssumption DEF TypeOK, ControlFollowsKind, ConstantsAssumption

\* The credit a row uses is an integer of each order.
LEMMA UsesType ==
  ASSUME NEW r \in PaymentRow \cup {None}, NEW s \in Orders
  PROVE  Uses(r, s) \in Int
BY DEF Uses, PaymentRow

\* A sum over the orders, and one that is zero.
LEMMA OrderSum ==
  ASSUME NEW f \in [Orders -> Int]
  PROVE  /\ SumOf(f) \in Int
         /\ (\A s \in Orders : f[s] = 0) => SumOf(f) = 0
BY SumType, SumZero, ConstantsAssumption DEF ConstantsAssumption, SumOf, SumFunction

\* A statement that commits nothing: what it says of its own transaction is all
\* there is to show.
LEMMA StatementKeeps ==
  ASSUME LedgerInv, AccountsInv, NEW p \in Requests, UNCHANGED <<orders, payments>>,
         \A x \in Requests \ {p} :
           /\ pc'[x] = pc[x] /\ req'[x] = req[x] /\ wp'[x] = wp[x]
           /\ wo'[x] = wo[x] /\ plan'[x] = plan[x]
           /\ Adding(x) => req'[p].payment # req[x].payment,
         \A x \in Requests \ {p}, q \in Payments : plock[q] = x => plock'[q] = x,
         PaymentIsOwn(p)', RowFollowsControl(p)', CreditInFlight(p)', KeyIsOwn(p)'
  PROVE  AccountsInv'
<1>1. ASSUME NEW x \in Requests, x # p
      PROVE  /\ PaymentIsOwn(x)' /\ RowFollowsControl(x)'
             /\ CreditInFlight(x)' /\ KeyIsOwn(x)'
  <2>0. /\ pc'[x] = pc[x] /\ req'[x] = req[x] /\ wp'[x] = wp[x]
        /\ wo'[x] = wo[x] /\ plan'[x] = plan[x] /\ payments' = payments /\ orders' = orders
        /\ Adding(x)' = Adding(x) /\ Editing(x)' = Editing(x)
    BY <1>1 DEF Adding, Editing, EditsAPayment
  <2>1. PaymentIsOwn(x)'
    <3>1. PaymentIsOwn(x) /\ (Editing(x) => req[x].payment \in Payments)
      BY RowFacts DEF AccountsInv
    <3>2. \A y \in Requests \ {x} : Adding(x) => req'[y].payment # req[x].payment
      BY <1>1, <3>1 DEF PaymentIsOwn
    <3>. QED
      BY <1>1, <2>0, <3>1, <3>2 DEF PaymentIsOwn
  <2>2. RowFollowsControl(x)'
    BY <2>0 DEF AccountsInv, RowFollowsControl
  <2>3. CreditInFlight(x)'
    BY <2>0 DEF AccountsInv, CreditInFlight
  <2>4. KeyIsOwn(x)'
    <3>1. KeyIsOwn(x)
      BY DEF AccountsInv
    <3>2. ASSUME wp'[x] # None, wp'[x].key # None, wp'[p] # None, wp'[p].key = wp'[x].key
          PROVE  FALSE
      BY <1>1, <3>2 DEF KeyIsOwn
    <3>. QED
      BY <1>1, <2>0, <3>1, <3>2 DEF KeyIsOwn
  <2>. QED
    BY <2>1, <2>2, <2>3, <2>4
<1>2. NothingNegative' /\ KeysDiffer'
  BY DEF AccountsInv, NothingNegative, KeysDiffer
<1>3. CreditAccounted' /\ PaidFollowsPayments'
  BY DEF AccountsInv, CreditAccounted, AppliedMatchesApplications, UsedFrom,
         CreditPaymentsBacked, PaidFollowsPayments, PaidNeverShort, UnrefundedPaidMatches,
         ActivePaid
<1>. QED
  BY <1>1, <1>2, <1>3 DEF AccountsInv

\* A request begins with no row, and with a payment that is there or that is new.
LEMMA BeginAccounts ==
  ASSUME LedgerInv, AccountsInv, NEW p \in Requests, NEW r \in Request,
         NEW label \in {"own", "payment"}, Begin(p, r, label),
         r.kind \in {"addPayment", "createMovement"} =>
           /\ label = "own" /\ payments[r.payment] = None
           /\ \A x \in Requests : req[x].payment # r.payment,
         r.kind \in {"updatePayment", "voidPayment"} =>
           payments[r.payment] # None /\ payments[r.payment].order = r.order,
         r.kind \in OrderOnlyKinds => r.payment = None
  PROVE  AccountsInv'
<1>1. /\ pc[p] = "idle" /\ pc'[p] = label /\ req'[p] = r
      /\ \A x \in Requests \ {p} : pc'[x] = pc[x] /\ req'[x] = req[x]
      /\ UNCHANGED <<orders, payments, olock, oshare, plock, plan, wo, wp>>
  BY DEF Begin, Goto, LedgerInv, TypeOK
<1>2. wp[p] = None /\ DOMAIN wo[p] = {} /\ \A s \in Orders : plan[p][s] >= 0
  BY <1>1 DEF AccountsInv, RowFollowsControl, CreditInFlight
<1>3. ASSUME NEW x \in Requests, x # p, Adding(x) PROVE r.payment # req[x].payment
  <2>1. payments[req[x].payment] = None /\ req[x].payment \in Payments /\ None \notin Payments
    BY <1>3, RowFacts DEF AccountsInv, PaymentIsOwn
  <2>2. r.kind \in AllKinds
    BY DEF Request
  <2>. QED
    BY <1>3, <2>1, <2>2 DEF AllKinds, OrderOnlyKinds
<1>4. PaymentIsOwn(p)'
  BY <1>1, <1>2 DEF PaymentIsOwn, Adding, Editing, EditsAPayment
<1>5. RowFollowsControl(p)'
  BY <1>1, <1>2 DEF RowFollowsControl, Adding
<1>6. CreditInFlight(p)' /\ KeyIsOwn(p)'
  BY <1>1, <1>2 DEF CreditInFlight, KeyIsOwn
<1>. QED
  BY <1>1, <1>3, <1>4, <1>5, <1>6, StatementKeeps

\* A transaction begins: it has written nothing, and a new payment takes an id that no row
\* and no other transaction has.
LEMMA StartAccounts ==
  ASSUME LedgerInv, AccountsInv, NEW p \in Requests, Start(p)
  PROVE  AccountsInv'
<1>. USE MoneyType, NoReqType DEF NoReq, Request, AllKinds, Methods, OrderOnlyKinds,
         Statuses
<1>0. \A q \in Payments : payments[q] # None => payments[q].order \in Orders
  BY DEF LedgerInv, TypeOK, PaymentRow
<1>1. CASE StartAddPayment(p)
  <2>1. PICK o \in Orders, a \in Amounts, m \in Methods, k \in Keys \cup {None},
             q \in Payments :
          /\ IsFirst(q, FreshPayment)
          /\ Begin(p, [NoReq EXCEPT !.kind = "addPayment", !.order = o, !.payment = q,
                                    !.amount = a, !.method = m, !.key = k], "own")
    BY <1>1 DEF StartAddPayment
  <2>. DEFINE r == [NoReq EXCEPT !.kind = "addPayment", !.order = o, !.payment = q,
                                 !.amount = a, !.method = m, !.key = k]
  <2>2. r \in Request /\ r.payment = q /\ r.kind = "addPayment"
    OBVIOUS
  <2>3. payments[q] = None /\ \A x \in Requests : req[x].payment # q
    BY <2>1 DEF IsFirst, FreshPayment
  <2>4. Begin(p, r, "own")
    BY <2>1
  <2>. HIDE DEF r
  <2>. QED
    BY <2>2, <2>3, <2>4, BeginAccounts
<1>2. CASE StartCreateMovement(p)
  <2>1. PICK o \in Orders, a \in Amounts, m \in Methods, q \in Payments :
          /\ IsFirst(q, FreshPayment)
          /\ Begin(p, [NoReq EXCEPT !.kind = "createMovement", !.order = o,
                                    !.payment = q, !.amount = a, !.method = m], "own")
    BY <1>2 DEF StartCreateMovement
  <2>. DEFINE r == [NoReq EXCEPT !.kind = "createMovement", !.order = o,
                                 !.payment = q, !.amount = a, !.method = m]
  <2>2. r \in Request /\ r.payment = q /\ r.kind = "createMovement"
    OBVIOUS
  <2>3. payments[q] = None /\ \A x \in Requests : req[x].payment # q
    BY <2>1 DEF IsFirst, FreshPayment
  <2>4. Begin(p, r, "own")
    BY <2>1
  <2>. HIDE DEF r
  <2>. QED
    BY <2>2, <2>3, <2>4, BeginAccounts
<1>3. CASE StartUpdatePayment(p)
  <2>1. PICK q \in Payments, a \in Amounts, m \in Methods :
          /\ payments[q] # None
          /\ Begin(p, [NoReq EXCEPT !.kind = "updatePayment",
                                    !.order = payments[q].order, !.payment = q,
                                    !.amount = a, !.method = m], "payment")
    BY <1>3 DEF StartUpdatePayment
  <2>. DEFINE r == [NoReq EXCEPT !.kind = "updatePayment",
                                 !.order = payments[q].order, !.payment = q,
                                 !.amount = a, !.method = m]
  <2>2. r \in Request /\ r.payment = q /\ r.kind = "updatePayment" /\ r.order = payments[q].order
    BY <1>0, <2>1
  <2>3. Begin(p, r, "payment")
    BY <2>1
  <2>. HIDE DEF r
  <2>. QED
    BY <2>1, <2>2, <2>3, BeginAccounts
<1>4. CASE StartVoidPayment(p)
  <2>1. PICK q \in Payments :
          /\ payments[q] # None
          /\ Begin(p, [NoReq EXCEPT !.kind = "voidPayment",
                                    !.order = payments[q].order, !.payment = q], "payment")
    BY <1>4 DEF StartVoidPayment
  <2>. DEFINE r == [NoReq EXCEPT !.kind = "voidPayment",
                                 !.order = payments[q].order, !.payment = q]
  <2>2. r \in Request /\ r.payment = q /\ r.kind = "voidPayment" /\ r.order = payments[q].order
    BY <1>0, <2>1
  <2>3. Begin(p, r, "payment")
    BY <2>1
  <2>. HIDE DEF r
  <2>. QED
    BY <2>1, <2>2, <2>3, BeginAccounts
<1>5. CASE \/ StartExecuteRefund(p) \/ StartAnnulOrder(p) \/ StartRecalculate(p)
           \/ StartUpdateOrder(p)
  <2>1. PICK r \in Request : /\ Begin(p, r, "own") /\ r.kind \in OrderOnlyKinds
                             /\ r.payment = None
    <3>1. CASE StartExecuteRefund(p)
      <4>1. PICK o \in Orders, a \in Amounts, rev \in Amounts \cup {0} :
              Begin(p, [NoReq EXCEPT !.kind = "executeRefund", !.order = o,
                                     !.amount = a, !.total = rev], "own")
        BY <3>1 DEF StartExecuteRefund
      <4>. DEFINE r == [NoReq EXCEPT !.kind = "executeRefund", !.order = o,
                                     !.amount = a, !.total = rev]
      <4>2. r \in Request /\ r.kind = "executeRefund" /\ r.payment = None
        OBVIOUS
      <4>. QED
        BY <4>1, <4>2
    <3>2. CASE StartAnnulOrder(p)
      <4>1. PICK o \in Orders, a \in Amounts \cup {0} :
              Begin(p, [NoReq EXCEPT !.kind = "annulOrder", !.order = o, !.amount = a], "own")
        BY <3>2 DEF StartAnnulOrder
      <4>. DEFINE r == [NoReq EXCEPT !.kind = "annulOrder", !.order = o, !.amount = a]
      <4>2. r \in Request /\ r.kind = "annulOrder" /\ r.payment = None
        OBVIOUS
      <4>. QED
        BY <4>1, <4>2
    <3>3. CASE StartRecalculate(p)
      <4>1. PICK o \in Orders, t \in Totals :
              Begin(p, [NoReq EXCEPT !.kind = "recalculateOrderTotals", !.order = o,
                                     !.total = t], "own")
        BY <3>3 DEF StartRecalculate
      <4>. DEFINE r == [NoReq EXCEPT !.kind = "recalculateOrderTotals", !.order = o,
                                     !.total = t]
      <4>2. r \in Request /\ r.kind = "recalculateOrderTotals" /\ r.payment = None
        OBVIOUS
      <4>. QED
        BY <4>1, <4>2
    <3>4. CASE StartUpdateOrder(p)
      <4>1. PICK o \in Orders, st \in Statuses :
              Begin(p, [NoReq EXCEPT !.kind = "updateOrder", !.order = o,
                                     !.status = st], "own")
        BY <3>4 DEF StartUpdateOrder
      <4>. DEFINE r == [NoReq EXCEPT !.kind = "updateOrder", !.order = o, !.status = st]
      <4>2. r \in Request /\ r.kind = "updateOrder" /\ r.payment = None
        OBVIOUS
      <4>. QED
        BY <4>1, <4>2
    <3>. QED
      BY <1>5, <3>1, <3>2, <3>3, <3>4
  <2>. QED
    BY <2>1, BeginAccounts
<1>. QED
  BY <1>1, <1>2, <1>3, <1>4, <1>5 DEF Start

-----------------------------------------------------------------------------
\* The payment row of an edit or a void, once locked.
LEMMA EditedAccounts ==
  ASSUME LedgerInv, AccountsInv, NEW p \in Requests,
         EditPaymentRow(p) \/ VoidPaymentRow(p)
  PROVE  AccountsInv'
<1>. DEFINE m == req[p].payment
<1>0. /\ TypeOK /\ None \notin Requests /\ None \notin PaymentRow /\ pc[p] = "payment"
      /\ Editing(p) /\ ~Adding(p) /\ m \in Payments /\ payments[m] \in PaymentRow
      /\ payments[m].order = req[p].order
      /\ wp[p] = None /\ DOMAIN wo[p] = {} /\ \A s \in Orders : plan[p][s] >= 0
  <2>1. pc[p] = "payment" /\ Editing(p)
    BY DEF EditPaymentRow, VoidPaymentRow, Editing, EditsAPayment
  <2>2. /\ payments[m] # None /\ payments[m].order = req[p].order
        /\ wp[p] = None /\ DOMAIN wo[p] = {} /\ \A s \in Orders : plan[p][s] >= 0
    BY <2>1 DEF AccountsInv, PaymentIsOwn, RowFollowsControl, CreditInFlight
  <2>. QED
    BY <2>1, <2>2, RowFacts
<1>1. /\ pc' = [pc EXCEPT ![p] = "release"] /\ plock[m] = None /\ plock' = [plock EXCEPT ![m] = p]
      /\ UNCHANGED <<orders, payments, req, plan, wo>>
      /\ \A x \in Requests \ {p} : wp'[x] = wp[x]
  BY <1>0 DEF EditPaymentRow, VoidPaymentRow, Goto, db, TypeOK
<1>2. /\ pc'[p] = "release" /\ plock'[m] = p
      /\ \A x \in Requests \ {p} : pc'[x] = pc[x]
      /\ \A x \in Requests, q \in Payments : plock[q] = x => plock'[q] = x
  BY <1>0, <1>1 DEF TypeOK
<1>3. /\ wp'[p] # None /\ wp'[p].order = req[p].order /\ wp'[p].used = payments[m].used
      /\ wp'[p].key = payments[m].key
      /\ \/ req[p].kind = "voidPayment" /\ wp'[p].voided
         \/ /\ req[p].kind = "updatePayment"
            /\ wp'[p].amount = req[p].amount /\ wp'[p].method = req[p].method
            /\ ~wp'[p].linked
  <2>1. CASE EditPaymentRow(p)
    <3>1. /\ wp'[p] = [payments[m] EXCEPT !.amount = req[p].amount, !.method = req[p].method,
                                           !.linked = FALSE]
          /\ req[p].kind = "updatePayment"
      BY <1>0, <2>1 DEF EditPaymentRow, TypeOK
    <3>2. wp'[p] \in [order : Orders, amount : {req[p].amount}, method : {req[p].method},
                      voided : BOOLEAN, linked : {FALSE}, key : Keys \cup {None},
                      used : [Orders -> Int]]
      BY <1>0, <3>1 DEF PaymentRow
    <3>3. wp'[p] \in PaymentRow
      BY <3>2, RowFacts DEF PaymentRow, Request
    <3>. QED
      BY <1>0, <3>1, <3>2, <3>3 DEF PaymentRow
  <2>2. CASE VoidPaymentRow(p)
    <3>1. wp'[p] = [payments[m] EXCEPT !.voided = TRUE] /\ req[p].kind = "voidPayment"
      BY <1>0, <2>2 DEF VoidPaymentRow, TypeOK
    <3>2. wp'[p] \in PaymentRow
      BY <1>0, <3>1 DEF PaymentRow
    <3>. QED
      BY <1>0, <3>1, <3>2 DEF PaymentRow
  <2>. QED
    BY <2>1, <2>2
<1>4. PaymentIsOwn(p)'
  BY <1>0, <1>1, <1>2, <1>3 DEF PaymentIsOwn, Adding, Editing, EditsAPayment
<1>5. RowFollowsControl(p)'
  BY <1>0, <1>1, <1>2, <1>3 DEF RowFollowsControl, Adding
<1>6. CreditInFlight(p)'
  <2>1. \A s \in Orders : payments[m].used[s] >= 0 /\ Uses(payments[m], s) = payments[m].used[s]
    BY <1>0 DEF AccountsInv, NothingNegative, Uses
  <2>2. payments'[req'[p].payment] = payments[m] /\ plan' = plan /\ wo' = wo
    BY <1>1
  <2>3. \A s \in Orders : /\ wp'[p].used[s] >= 0 /\ s \notin DOMAIN wo'[p]
                          /\ wp'[p].used[s] = Uses(payments'[req'[p].payment], s)
    BY <1>0, <1>3, <2>1, <2>2
  <2>4. pc'[p] = "release" /\ \A s \in Orders : plan'[p][s] >= 0
    BY <1>0, <1>2, <2>2
  <2>. QED
    BY <2>3, <2>4 DEF CreditInFlight, Uses
<1>7. KeyIsOwn(p)'
  <2>1. ASSUME NEW x \in Requests, x # p, wp[x] # None, wp[x].key = payments[m].key,
               wp[x].key # None
        PROVE  FALSE
    <3>1. req[x].payment = m
      BY <1>0, <2>1 DEF AccountsInv, KeyIsOwn
    <3>2. (Adding(x) => payments[m] = None) /\ (Adding(x) \/ plock[m] = x)
      BY <2>1, <3>1 DEF AccountsInv, PaymentIsOwn
    <3>. QED
      BY <1>0, <1>1, <3>2
  <2>2. \A q \in Payments : (/\ payments[q] # None /\ payments[q].key = payments[m].key
                             /\ payments[m].key # None) => q = m
    BY <1>0 DEF AccountsInv, KeysDiffer
  <2>3. payments' = payments /\ req' = req
    BY <1>1
  <2>. QED
    BY <1>1, <1>3, <2>1, <2>2, <2>3 DEF KeyIsOwn
<1>8. \A x \in Requests \ {p} : Adding(x) => req'[p].payment # req[x].payment
  <2>1. \A x \in Requests \ {p} : Adding(x) => payments[req[x].payment] = None
    BY DEF AccountsInv, PaymentIsOwn
  <2>. QED
    BY <1>0, <1>1, <2>1
<1>. QED
  BY <1>1, <1>2, <1>4, <1>5, <1>6, <1>7, <1>8, StatementKeeps

\* The steps that move on without writing.
LEMMA MoveAccounts ==
  ASSUME LedgerInv, AccountsInv, NEW p \in Requests,
         Released(p) \/ LockOwnOrder(p) \/ InsertApplication(p) \/ Taken(p)
  PROVE  AccountsInv'
<1>0. /\ TypeOK /\ None \notin Requests /\ None \notin PaymentRow
      /\ wp[p] \in PaymentRow \cup {None} /\ plan[p] \in [Orders -> Int]
      /\ req[p] \in Request /\ (Adding(p) => ~Editing(p))
  BY RowFacts, ConstantsAssumption
<1>1. /\ PaymentIsOwn(p) /\ RowFollowsControl(p) /\ CreditInFlight(p) /\ KeyIsOwn(p)
      /\ ControlFollowsKind /\ OwnLocked
  BY DEF AccountsInv, LedgerInv
<1>2. /\ UNCHANGED <<orders, payments, plock, req, plan, wo, wp>> /\ pc[p] # "idle"
      /\ \E label \in PCs : pc' = [pc EXCEPT ![p] = label]
  <2>1. CASE InsertApplication(p)
    <3>1. pc' = [pc EXCEPT ![p] = "take"] /\ "take" \in PCs
      BY <1>0, <2>1 DEF InsertApplication, PCs, TypeOK
    <3>. QED
      BY <2>1, <3>1 DEF InsertApplication, db, local
  <2>. QED
    BY <1>0, <2>1 DEF Released, LockOwnOrder, Taken, Goto, db, local, locks, PCs
<1>3. /\ \A x \in Requests \ {p} : pc'[x] = pc[x]
      /\ pc'[p] = "idle" => FALSE
  BY <1>0, <1>2 DEF TypeOK, Released, LockOwnOrder, InsertApplication, Taken, Goto
<1>4. /\ Adding(p)' = Adding(p) /\ Editing(p)' = Editing(p)
  BY <1>2, <1>3 DEF Adding, Editing, EditsAPayment
<1>5. PaymentIsOwn(p)'
  BY <1>1, <1>2, <1>4 DEF PaymentIsOwn
<1>6. KeyIsOwn(p)'
  BY <1>1, <1>2 DEF KeyIsOwn
<1>7. \A x \in Requests \ {p} : Adding(x) => req'[p].payment # req[x].payment
  BY <1>2 DEF AccountsInv, PaymentIsOwn
<1>8. RowFollowsControl(p)' /\ CreditInFlight(p)'
  <2>0. /\ req' = req /\ wp' = wp /\ wo' = wo /\ plan' = plan /\ orders' = orders
        /\ payments' = payments
    BY <1>2
  <2>1. CASE Released(p)
    <3>1. /\ pc[p] = "release" /\ wp[p] # None /\ ~Adding(p)
          /\ \A s \in Orders : wp[p].used[s] = 0
      <4>1. pc[p] = "release" /\ wp[p] # None /\ EditsAPayment(p) /\ Consumed(p) = {}
        BY <1>1, <2>1 DEF Released, ControlFollowsKind
      <4>2. \A s \in Orders : wp[p].used[s] >= 0 /\ ~(wp[p].used[s] > 0) /\ wp[p].used[s] \in Int
        BY <1>0, <1>1, <4>1 DEF CreditInFlight, Consumed, PaymentRow
      <4>. QED
        BY <1>0, <4>1, <4>2 DEF Editing
    <3>2. SumOf(wp[p].used) = 0
      BY <1>0, <3>1, OrderSum DEF PaymentRow
    <3>3. \/ /\ pc'[p] = "plan" /\ req[p].kind = "updatePayment"
             /\ wp[p].method = "CREDIT_BALANCE" /\ wp[p].amount = req[p].amount
          \/ pc'[p] = "own" /\ Backed(wp[p])
      <4>1. CASE req[p].kind = "voidPayment" /\ wp[p].voided
        BY <1>0, <2>1, <4>1 DEF Released, Goto, TypeOK, Backed
      <4>2. CASE /\ req[p].kind = "updatePayment"
                 /\ wp[p].amount = req[p].amount /\ wp[p].method = req[p].method
        <5>1. req[p].amount \in Nat
          BY <1>0, MoneyType DEF Request
        <5>. QED
          BY <1>0, <2>1, <3>2, <4>2, <5>1 DEF Released, Goto, TypeOK, Backed
      <4>. QED
        BY <1>1, <3>1, <4>1, <4>2 DEF RowFollowsControl
    <3>4. RowFollowsControl(p)'
      BY <1>1, <1>4, <2>0, <3>1, <3>3 DEF RowFollowsControl
    <3>5. CreditInFlight(p)'
      BY <1>1, <2>0, <3>1, <3>3 DEF CreditInFlight, Uses, Backed
    <3>. QED
      BY <3>4, <3>5
  <2>2. CASE LockOwnOrder(p)
    <3>1. /\ pc[p] = "own"
          /\ \/ pc'[p] = "insert" /\ Adding(p)
             \/ pc'[p] = "ready" /\ ~Adding(p)
      BY <1>0, <2>2 DEF LockOwnOrder, Goto, TypeOK, Adding
    <3>2. RowFollowsControl(p)'
      BY <1>1, <1>4, <2>0, <3>1 DEF RowFollowsControl
    <3>3. CreditInFlight(p)'
      BY <1>1, <2>0, <3>1 DEF CreditInFlight, Uses, Backed
    <3>. QED
      BY <3>2, <3>3
  <2>3. CASE InsertApplication(p)
    <3>1. pc' = pc
      BY <2>3 DEF InsertApplication
    <3>2. RowFollowsControl(p)'
      BY <1>1, <1>4, <2>0, <3>1 DEF RowFollowsControl
    <3>3. CreditInFlight(p)'
      BY <1>1, <2>0, <3>1 DEF CreditInFlight, Uses, Backed
    <3>. QED
      BY <3>2, <3>3
  <2>4. CASE Taken(p)
    <3>1. /\ pc[p] = "take" /\ wp[p] # None
          /\ \A s \in Orders : plan[p][s] = 0
          /\ \/ pc'[p] = "ready" /\ req[p].kind = "addPayment"
             \/ pc'[p] = "own" /\ req[p].kind # "addPayment"
      <4>1. pc[p] = "take" /\ wp[p] # None /\ Planned(p) = {}
        BY <1>1, <2>4 DEF Taken, ControlFollowsKind
      <4>2. \A s \in Orders : plan[p][s] >= 0 /\ ~(plan[p][s] > 0) /\ plan[p][s] \in Int
        BY <1>0, <1>1, <4>1 DEF CreditInFlight, Planned
      <4>3. \A s \in Orders : plan[p][s] = 0
        BY <4>2
      <4>. QED
        BY <1>0, <2>4, <4>1, <4>3 DEF Taken, Goto, TypeOK
    <3>2. Backed(wp[p])
      <4>1. [s \in Orders |-> wp[p].used[s] + plan[p][s]] = wp[p].used
        BY <1>0, <3>1 DEF PaymentRow
      <4>2. /\ SumOf([s \in Orders |-> wp[p].used[s] + plan[p][s]]) = req[p].amount
            /\ wp[p].method = "CREDIT_BALANCE" /\ wp[p].amount = req[p].amount
            /\ ~wp[p].linked
        BY <1>1, <3>1 DEF CreditInFlight, RowFollowsControl
      <4>. QED
        BY <4>1, <4>2 DEF Backed
    <3>3. pc'[p] = "own" => ~Adding(p)
      BY <1>1, <3>1 DEF Adding, RowFollowsControl
    <3>4. RowFollowsControl(p)'
      BY <1>1, <1>4, <2>0, <3>1, <3>3 DEF RowFollowsControl
    <3>5. CreditInFlight(p)'
      BY <1>1, <2>0, <3>1, <3>2 DEF CreditInFlight, Uses, Backed
    <3>. QED
      BY <3>4, <3>5
  <2>. QED
    BY <2>1, <2>2, <2>3, <2>4
<1>9. \A x \in Requests \ {p}, q \in Payments : plock[q] = x => plock'[q] = x
  BY <1>2
<1>. QED
  BY <1>2, <1>3, <1>5, <1>6, <1>7, <1>8, <1>9, StatementKeeps

-----------------------------------------------------------------------------
(* Credit that moves.                                                       *)

\* The row of a new payment.
LEMMA InsertAccounts ==
  ASSUME LedgerInv, AccountsInv, NEW p \in Requests, InsertPayment(p)
  PROVE  AccountsInv'
<1>. DEFINE m == req[p].payment
<1>0. /\ TypeOK /\ None \notin PaymentRow /\ req[p] \in Request /\ m \in Payments
      /\ pc[p] = "insert" /\ Adding(p) /\ payments[m] = None
      /\ \A x \in Requests \ {p} : req[x].payment # m
      /\ DOMAIN wo[p] = {} /\ \A s \in Orders : plan[p][s] >= 0
  <2>1. pc[p] = "insert" /\ Adding(p)
    BY DEF InsertPayment, AccountsInv, RowFollowsControl
  <2>. QED
    BY <2>1, RowFacts DEF AccountsInv, PaymentIsOwn, RowFollowsControl, CreditInFlight
<1>1. /\ UNCHANGED <<orders, payments, plock, req, plan, wo>>
      /\ wp' = [wp EXCEPT ![p] = NewPaymentRow(req[p])]
      /\ pc' = [pc EXCEPT ![p] = IF AppliesCredit(req[p]) THEN "plan" ELSE "ready"]
      /\ req[p].key # None => PaymentWithKey(req[p].key) \cup InsertingKey(p, req[p].key) = {}
  BY DEF InsertPayment, Goto, db, locks
<1>2. /\ wp'[p] = NewPaymentRow(req[p])
      /\ pc'[p] = IF AppliesCredit(req[p]) THEN "plan" ELSE "ready"
      /\ \A x \in Requests \ {p} : pc'[x] = pc[x] /\ wp'[x] = wp[x]
  BY <1>0, <1>1 DEF TypeOK
<1>3. /\ wp'[p] \in PaymentRow /\ wp'[p].order = req[p].order /\ wp'[p].amount = req[p].amount
      /\ wp'[p].method = req[p].method /\ wp'[p].key = req[p].key /\ ~wp'[p].voided
      /\ wp'[p].linked <=> (/\ req[p].kind = "createMovement"
                            /\ req[p].method = "CREDIT_BALANCE")
      /\ \A s \in Orders : wp'[p].used[s] = 0
  <2>1. NoUse \in [Orders -> Int] /\ \A s \in Orders : NoUse[s] = 0
    BY DEF NoUse
  <2>. DEFINE linked == req[p].kind = "createMovement" /\ req[p].method = "CREDIT_BALANCE"
  <2>2. linked \in BOOLEAN
    OBVIOUS
  <2>3. wp'[p] = [order |-> req[p].order, amount |-> req[p].amount, method |-> req[p].method,
                  voided |-> FALSE, linked |-> linked, key |-> req[p].key, used |-> NoUse]
    BY <1>2 DEF NewPaymentRow
  <2>. HIDE DEF linked
  <2>4. wp'[p].linked = linked
    BY <2>3
  <2>5. /\ wp'[p].order = req[p].order /\ wp'[p].used = NoUse
        /\ wp'[p].amount = req[p].amount /\ wp'[p].method = req[p].method
        /\ wp'[p].key = req[p].key /\ wp'[p].voided = FALSE
    BY <2>3
  <2>6. /\ req[p].order \in Orders /\ req[p].amount \in Money /\ req[p].method \in Methods
        /\ req[p].key \in Keys \cup {None}
    BY <1>0 DEF Request
  <2>7. wp'[p] \in PaymentRow
    BY <2>1, <2>2, <2>3, <2>6 DEF PaymentRow
  <2>. QED
    BY <2>1, <2>4, <2>5, <2>7 DEF linked
<1>4. Adding(p)'
  BY <1>0, <1>1, <1>2 DEF Adding
<1>5. PaymentIsOwn(p)'
  BY <1>0, <1>1, <1>3, <1>4 DEF PaymentIsOwn, Adding, Editing, EditsAPayment
<1>6. RowFollowsControl(p)'
  BY <1>0, <1>1, <1>2, <1>3, <1>4 DEF RowFollowsControl, Adding, AppliesCredit
<1>7. CreditInFlight(p)'
  <2>1. SumOf(wp'[p].used) = 0
    BY <1>3, OrderSum DEF PaymentRow
  <2>2. ~AppliesCredit(req[p]) => Backed(wp'[p])
    BY <1>0, <1>3, <2>1 DEF Backed, AppliesCredit, Adding
  <2>3. \A s \in Orders : Uses(payments'[req'[p].payment], s) = 0
    BY <1>0, <1>1 DEF Uses
  <2>4. \A s \in Orders : plan'[p][s] >= 0 /\ s \notin DOMAIN wo'[p]
    BY <1>0, <1>1
  <2>. QED
    BY <1>2, <1>3, <2>2, <2>3, <2>4 DEF CreditInFlight, Backed
<1>8. KeyIsOwn(p)'
  BY <1>1, <1>2, <1>3 DEF KeyIsOwn, PaymentWithKey, InsertingKey
<1>9. /\ \A x \in Requests \ {p} : Adding(x) => req'[p].payment # req[x].payment
      /\ \A x \in Requests \ {p}, q \in Payments : plock[q] = x => plock'[q] = x
  BY <1>0, <1>1
<1>. QED
  BY <1>1, <1>2, <1>5, <1>6, <1>7, <1>8, <1>9, StatementKeeps

\* The choice of sources adds up to the amount.
LEMMA PlanAccounts ==
  ASSUME LedgerInv, AccountsInv, NEW p \in Requests, PlanCredit(p)
  PROVE  AccountsInv'
<1>0. /\ TypeOK /\ wp[p] \in PaymentRow /\ req[p] \in Request /\ pc[p] = "plan"
      /\ PaymentIsOwn(p) /\ RowFollowsControl(p) /\ CreditInFlight(p) /\ KeyIsOwn(p)
  <2>1. wp[p] # None
    BY DEF PlanCredit, LedgerInv, ControlFollowsKind
  <2>. QED
    BY <2>1, RowFacts DEF PlanCredit, AccountsInv
<1>1. PICK taken \in [Orders -> 0..req[p].amount] :
        SumOf(taken) = req[p].amount /\ plan' = [plan EXCEPT ![p] = taken]
  BY DEF PlanCredit, Fifo
<1>2. /\ UNCHANGED <<orders, payments, plock, req, wo, wp>> /\ plan'[p] = taken
      /\ pc'[p] = "take"
      /\ \A x \in Requests \ {p} : pc'[x] = pc[x] /\ plan'[x] = plan[x]
  BY <1>0, <1>1 DEF PlanCredit, Goto, db, locks, TypeOK
<1>3. /\ Adding(p)' = Adding(p) /\ Editing(p)' = Editing(p)
  BY <1>0, <1>2 DEF Adding, Editing, EditsAPayment
<1>4. PaymentIsOwn(p)' /\ KeyIsOwn(p)'
  BY <1>0, <1>2, <1>3 DEF PaymentIsOwn, KeyIsOwn
<1>5. RowFollowsControl(p)'
  BY <1>0, <1>2, <1>3 DEF RowFollowsControl
<1>6. CreditInFlight(p)'
  <2>1. req[p].amount \in Nat
    BY <1>0, MoneyType DEF Request
  <2>2. [s \in Orders |-> wp[p].used[s] + taken[s]] = taken
    BY <1>0, <1>1, <2>1 DEF CreditInFlight
  <2>3. \A s \in Orders : taken[s] >= 0
    BY <1>1, <2>1
  <2>4. /\ orders' = orders /\ payments' = payments /\ req' = req /\ wo' = wo /\ wp' = wp
    BY <1>2
  <2>. QED
    BY <1>0, <1>1, <1>2, <2>2, <2>3, <2>4 DEF CreditInFlight, Uses
<1>7. /\ \A x \in Requests \ {p} : Adding(x) => req'[p].payment # req[x].payment
      /\ \A x \in Requests \ {p}, q \in Payments : plock[q] = x => plock'[q] = x
  BY <1>2 DEF AccountsInv, PaymentIsOwn
<1>. QED
  BY <1>2, <1>4, <1>5, <1>6, <1>7, StatementKeeps

\* What one payment uses of an order is part of what all of them use.
LEMMA UsedIsPart ==
  ASSUME LedgerInv, AccountsInv, NEW m \in Payments, NEW s \in Orders
  PROVE  UsedFrom(s) \in Nat /\ Uses(payments[m], s) \in Nat /\ UsedFrom(s) >= Uses(payments[m], s)
<1>. DEFINE f == [q \in Payments |-> Uses(payments[q], s)]
<1>0. IsFiniteSet(Payments) /\ IsFiniteSet(Payments \ {m})
  BY ConstantsAssumption, FS_Subset DEF ConstantsAssumption
<1>1. ASSUME NEW q \in Payments PROVE f[q] \in Nat
  <2>1. payments[q] \in PaymentRow \cup {None}
    BY DEF LedgerInv, TypeOK
  <2>. QED
    BY <2>1 DEF Uses, PaymentRow, AccountsInv, NothingNegative
<1>2. SumFunctionOnSet(f, Payments \ {m}) \in Nat
  BY <1>0, <1>1, SumNatural
<1>3. SumFunctionOnSet(f, Payments) = f[m] + SumFunctionOnSet(f, Payments \ {m})
  BY <1>0, <1>1, SumSplit
<1>4. UsedFrom(s) = SumFunctionOnSet(f, Payments)
  BY DEF UsedFrom, SumOf, SumFunction
<1>5. f[m] = Uses(payments[m], s) /\ f[m] \in Nat
  BY <1>1
<1>. HIDE DEF f
<1>. QED
  BY <1>2, <1>3, <1>4, <1>5

\* The credit a transaction sees given away covers what its own row still uses.
LEMMA SeenApplied ==
  ASSUME LedgerInv, AccountsInv, NEW p \in Requests, wp[p] # None, NEW s \in Orders
  PROVE  /\ OrderSeen(p, s) \in OrderRow /\ wp[p].used[s] \in Nat
         /\ OrderSeen(p, s).applied =
              orders[s].applied + wp[p].used[s] - Uses(payments[req[p].payment], s)
         /\ OrderSeen(p, s).applied >= wp[p].used[s]
<1>1. /\ OrderSeen(p, s) \in OrderRow /\ wp[p] \in PaymentRow /\ req[p].payment \in Payments
      /\ orders[s] \in OrderRow
  BY RowFacts, OrderSeenType DEF AccountsInv, PaymentIsOwn, TypeOK
<1>2. wp[p].used[s] \in Nat
  <2>1. wp[p].used[s] \in Int
    BY <1>1 DEF PaymentRow
  <2>2. wp[p].used[s] >= 0
    BY DEF AccountsInv, CreditInFlight
  <2>. QED
    BY <2>1, <2>2
<1>3. orders[s].applied = UsedFrom(s)
  BY DEF AccountsInv, CreditAccounted, AppliedMatchesApplications
<1>4. /\ Uses(payments[req[p].payment], s) \in Nat /\ UsedFrom(s) \in Nat
      /\ UsedFrom(s) >= Uses(payments[req[p].payment], s)
  BY <1>1, UsedIsPart
<1>5. OrderSeen(p, s).applied =
        orders[s].applied + wp[p].used[s] - Uses(payments[req[p].payment], s)
  <2>1. CreditInFlight(p)
    BY DEF AccountsInv
  <2>2. CASE s \in DOMAIN wo[p]
    BY <2>1, <2>2 DEF CreditInFlight, OrderSeen
  <2>3. CASE s \notin DOMAIN wo[p]
    <3>1. OrderSeen(p, s) = orders[s] /\ wp[p].used[s] = Uses(payments[req[p].payment], s)
      BY <2>1, <2>3 DEF CreditInFlight, OrderSeen
    <3>. QED
      BY <1>2, <1>3, <1>4, <3>1
  <2>. QED
    BY <2>2, <2>3
<1>. QED
  BY <1>1, <1>2, <1>3, <1>4, <1>5

\* A source written by releaseCredit or applyCredit: the order and the payment row
\* change by the same amount.
LEMMA SourceAccounts ==
  ASSUME LedgerInv, AccountsInv, NEW p \in Requests, NEW s \in Orders, wp[p] # None,
         NEW n \in Nat, NEW chosen \in [Orders -> Int], \A x \in Orders : chosen[x] >= 0,
         WriteOrder(p, s, BumpedRow(OrderSeen(p, s), n - wp[p].used[s])),
         wp' = [wp EXCEPT ![p] = UsingFrom(wp[p], s, n)],
         plan' = [plan EXCEPT ![p] = chosen],
         UNCHANGED <<orders, payments, plock, req, pc>>,
         \/ pc[p] = "release"
         \/ /\ pc[p] = "take" /\ n + chosen[s] = wp[p].used[s] + plan[p][s]
            /\ \A x \in Orders \ {s} : chosen[x] = plan[p][x]
  PROVE  AccountsInv'
<1>0. /\ TypeOK /\ wp[p] \in PaymentRow /\ None \notin PaymentRow
      /\ PaymentIsOwn(p) /\ RowFollowsControl(p) /\ CreditInFlight(p) /\ KeyIsOwn(p)
  BY RowFacts DEF AccountsInv
<1>1. /\ wp'[p] = UsingFrom(wp[p], s, n) /\ plan'[p] = chosen
      /\ \A x \in Requests \ {p} : wp'[x] = wp[x] /\ wo'[x] = wo[x] /\ plan'[x] = plan[x]
      /\ wo'[p] = [x \in DOMAIN wo[p] \cup {s} |->
                     IF x = s THEN BumpedRow(OrderSeen(p, s), n - wp[p].used[s])
                     ELSE wo[p][x]]
  BY <1>0 DEF TypeOK, WriteOrder
<1>2. /\ wp'[p] \in PaymentRow /\ wp'[p].order = wp[p].order /\ wp'[p].amount = wp[p].amount
      /\ wp'[p].method = wp[p].method /\ wp'[p].voided = wp[p].voided
      /\ wp'[p].linked = wp[p].linked
      /\ wp'[p].key = wp[p].key
      /\ wp'[p].used[s] = n /\ \A x \in Orders \ {s} : wp'[p].used[x] = wp[p].used[x]
  BY <1>0, <1>1 DEF UsingFrom, PaymentRow
<1>3. /\ Adding(p)' = Adding(p) /\ Editing(p)' = Editing(p) /\ wp'[p] # None
  BY <1>0, <1>2 DEF Adding, Editing, EditsAPayment
<1>4. PaymentIsOwn(p)' /\ RowFollowsControl(p)'
  BY <1>0, <1>2, <1>3 DEF PaymentIsOwn, RowFollowsControl
<1>5. KeyIsOwn(p)'
  BY <1>0, <1>1, <1>2 DEF KeyIsOwn
<1>6. wo'[p][s].applied = orders[s].applied + n - Uses(payments[req[p].payment], s)
  <2>1. /\ OrderSeen(p, s) \in OrderRow /\ wp[p].used[s] \in Nat
        /\ OrderSeen(p, s).applied =
             orders[s].applied + wp[p].used[s] - Uses(payments[req[p].payment], s)
        /\ OrderSeen(p, s).applied >= wp[p].used[s]
    BY SeenApplied
  <2>2. /\ orders[s].applied \in Int /\ Uses(payments[req[p].payment], s) \in Int
        /\ OrderSeen(p, s).applied \in Int
    <3>1. req[p].payment \in Payments /\ payments[req[p].payment] \in PaymentRow \cup {None}
      BY RowFacts DEF AccountsInv, PaymentIsOwn
    <3>. QED
      BY <1>0, <2>1, <3>1, UsesType DEF TypeOK, OrderRow
  <2>3. PICK a : a = OrderSeen(p, s).applied + (n - wp[p].used[s])
    OBVIOUS
  <2>4. Positive(a) = a /\ a \in Int
    BY <2>1, <2>2, <2>3 DEF Positive
  <2>5. BumpedRow(OrderSeen(p, s), n - wp[p].used[s]).applied = a
    BY <2>1, <2>3, <2>4 DEF BumpedRow, WithBalance, OrderRow
  <2>6. wo'[p][s] = BumpedRow(OrderSeen(p, s), n - wp[p].used[s])
    BY <1>1
  <2>. QED
    BY <2>1, <2>2, <2>3, <2>5, <2>6
<1>7. CreditInFlight(p)'
  <2>0. orders' = orders /\ payments' = payments /\ req' = req /\ pc' = pc
    OBVIOUS
  <2>1. ASSUME NEW x \in Orders
        PROVE  /\ wp'[p].used[x] >= 0
               /\ IF x \in DOMAIN wo'[p]
                  THEN wo'[p][x].applied =
                         orders[x].applied + wp'[p].used[x] - Uses(payments[req[p].payment], x)
                  ELSE wp'[p].used[x] = Uses(payments[req[p].payment], x)
    <3>1. CASE x = s
      BY <1>1, <1>2, <1>6, <3>1
    <3>2. CASE x # s
      BY <1>0, <1>1, <1>2, <3>2 DEF CreditInFlight
    <3>. QED
      BY <3>1, <3>2
  <2>2. pc[p] = "take" =>
          SumOf([x \in Orders |-> wp'[p].used[x] + plan'[p][x]]) = req[p].amount
    <3>1. SUFFICES ASSUME pc[p] = "take"
                   PROVE  SumOf([x \in Orders |-> wp'[p].used[x] + plan'[p][x]]) = req[p].amount
      OBVIOUS
    <3>2. \A x \in Orders : wp'[p].used[x] + plan'[p][x] = wp[p].used[x] + plan[p][x]
      BY <1>1, <1>2, <3>1
    <3>3. [x \in Orders |-> wp'[p].used[x] + plan'[p][x]] =
            [x \in Orders |-> wp[p].used[x] + plan[p][x]]
      BY <3>2
    <3>. QED
      BY <1>0, <3>1, <3>3 DEF CreditInFlight
  <2>3. \A x \in Orders : Uses(payments[req[p].payment], x)' = Uses(payments[req[p].payment], x)
    BY <2>0 DEF Uses
  <2>4. pc'[p] \in {"release", "take"} /\ \A x \in Orders : plan'[p][x] >= 0
    BY <1>1, <2>0
  <2>5. pc'[p] = "take" =>
          SumOf([x \in Orders |-> wp'[p].used[x] + plan'[p][x]]) = req'[p].amount
    BY <2>0, <2>2
  <2>. QED
    BY <2>0, <2>1, <2>3, <2>4, <2>5 DEF CreditInFlight
<1>8. /\ \A x \in Requests \ {p} : Adding(x) => req'[p].payment # req[x].payment
      /\ \A x \in Requests \ {p}, q \in Payments : plock[q] = x => plock'[q] = x
  BY DEF AccountsInv, PaymentIsOwn
<1>. QED
  BY <1>1, <1>4, <1>5, <1>7, <1>8, StatementKeeps

\* releaseCredit and applyCredit, one source.
LEMMA CreditAccounts ==
  ASSUME LedgerInv, AccountsInv, NEW p \in Requests, ReleaseSource(p) \/ TakeSource(p)
  PROVE  AccountsInv'
<1>0. /\ TypeOK /\ wp[p] \in PaymentRow /\ plan[p] \in [Orders -> Int]
      /\ \A x \in Orders : plan[p][x] >= 0
  <2>1. wp[p] # None
    BY DEF ReleaseSource, TakeSource, LedgerInv, ControlFollowsKind
  <2>. QED
    BY <2>1, RowFacts DEF AccountsInv, CreditInFlight
<1>1. \A x \in Orders : wp[p].used[x] \in Nat
  BY <1>0, SeenApplied, ConstantsAssumption
<1>2. CASE ReleaseSource(p)
  <2>1. PICK s \in Orders :
          /\ WriteOrder(p, s, BumpedRow(OrderSeen(p, s), -wp[p].used[s]))
          /\ wp' = [wp EXCEPT ![p] = UsingFrom(wp[p], s, 0)]
    BY <1>2 DEF ReleaseSource
  <2>2. 0 - wp[p].used[s] = -wp[p].used[s]
    BY <1>1
  <2>3. WriteOrder(p, s, BumpedRow(OrderSeen(p, s), 0 - wp[p].used[s]))
    BY <2>1, <2>2
  <2>4. plan' = [plan EXCEPT ![p] = plan[p]]
    BY <1>0, <1>2 DEF ReleaseSource, TypeOK
  <2>. QED
    BY <1>0, <1>2, <2>1, <2>3, <2>4, SourceAccounts, ConstantsAssumption DEF ReleaseSource, db
<1>3. CASE TakeSource(p)
  <2>1. PICK s \in Orders :
          /\ WriteOrder(p, s, BumpedRow(OrderSeen(p, s), plan[p][s]))
          /\ wp' = [wp EXCEPT ![p] = UsingFrom(wp[p], s, wp[p].used[s] + plan[p][s])]
          /\ plan' = [plan EXCEPT ![p] = [plan[p] EXCEPT ![s] = 0]]
    BY <1>3 DEF TakeSource
  <2>2. PICK n, chosen : n = wp[p].used[s] + plan[p][s] /\ chosen = [plan[p] EXCEPT ![s] = 0]
    OBVIOUS
  <2>3. /\ n \in Nat /\ n - wp[p].used[s] = plan[p][s]
        /\ chosen \in [Orders -> Int] /\ \A x \in Orders : chosen[x] >= 0
        /\ n + chosen[s] = wp[p].used[s] + plan[p][s]
        /\ \A x \in Orders \ {s} : chosen[x] = plan[p][x]
    BY <1>0, <1>1, <2>2
  <2>4. /\ WriteOrder(p, s, BumpedRow(OrderSeen(p, s), n - wp[p].used[s]))
        /\ wp' = [wp EXCEPT ![p] = UsingFrom(wp[p], s, n)]
        /\ plan' = [plan EXCEPT ![p] = chosen]
    BY <2>1, <2>2, <2>3
  <2>5. UNCHANGED <<orders, payments, plock, req, pc>> /\ pc[p] = "take" /\ wp[p] # None
    BY <1>0, <1>3, ConstantsAssumption DEF TakeSource, db
  <2>. QED
    BY <2>3, <2>4, <2>5, SourceAccounts
<1>. QED
  BY <1>2, <1>3

-----------------------------------------------------------------------------
(* Commits.                                                                 *)

\* Two transactions that have a payment row, or are about to, have different ones.
LEMMA RowsApart ==
  ASSUME LedgerInv, AccountsInv, NEW p \in Requests, NEW x \in Requests, x # p,
         wp[p] # None, wp[x] # None \/ Adding(x)
  PROVE  req[x].payment # req[p].payment
<1>1. PaymentIsOwn(p) /\ PaymentIsOwn(x) /\ (Adding(x) => ~Editing(x))
  BY RowFacts DEF AccountsInv
<1>2. CASE Adding(x) \/ Adding(p)
  BY <1>1, <1>2 DEF PaymentIsOwn
<1>3. CASE ~Adding(x) /\ ~Adding(p)
  BY <1>1, <1>3 DEF PaymentIsOwn
<1>. QED
  BY <1>2, <1>3

\* The end of a transaction, for what the others hold.
LEMMA EndAccounts ==
  ASSUME LedgerInv, AccountsInv, NEW p \in Requests, Unlocked(p), Forget(p),
         \A q \in Payments :
           \/ payments'[q] = payments[q]
           \/ wp[p] # None /\ q = req[p].payment /\ payments'[q] = wp[p],
         \A x \in Requests \ {p} : \A o \in DOMAIN wo[x] : orders'[o] = orders[o]
  PROVE  /\ \A x \in Requests : /\ PaymentIsOwn(x)' /\ RowFollowsControl(x)'
                                /\ CreditInFlight(x)' /\ KeyIsOwn(x)'
         /\ KeysDiffer'
<1>. DEFINE m == req[p].payment
<1>0. /\ TypeOK /\ None \notin Payments /\ PaymentIsOwn(p) /\ KeyIsOwn(p)
      /\ Adding(p) => ~Editing(p)
      /\ Adding(p) \/ Editing(p) => m \in Payments
  BY RowFacts DEF AccountsInv
<1>1. /\ pc'[p] = "idle" /\ req'[p] = NoReq /\ plan'[p] = NoUse /\ wo'[p] = NoWrites
      /\ wp'[p] = None
      /\ \A x \in Requests \ {p} :
           /\ pc'[x] = pc[x] /\ req'[x] = req[x] /\ wp'[x] = wp[x]
           /\ wo'[x] = wo[x] /\ plan'[x] = plan[x]
      /\ \A x \in Requests \ {p}, q \in Payments : plock[q] = x => plock'[q] = x
  BY <1>0 DEF TypeOK, Forget, Unlocked
<1>2. NoReq.payment = None /\ NoReq.kind = "recalculateOrderTotals" /\ DOMAIN NoWrites = {}
      /\ \A s \in Orders : NoUse[s] = 0
  BY DEF NoReq, NoWrites, NoUse
<1>3. /\ PaymentIsOwn(p)' /\ RowFollowsControl(p)' /\ CreditInFlight(p)' /\ KeyIsOwn(p)'
  BY <1>1, <1>2 DEF PaymentIsOwn, RowFollowsControl, CreditInFlight, KeyIsOwn, Adding, Editing
<1>4. ASSUME NEW x \in Requests, x # p
      PROVE  /\ PaymentIsOwn(x)' /\ RowFollowsControl(x)'
             /\ CreditInFlight(x)' /\ KeyIsOwn(x)'
  <2>0. /\ pc'[x] = pc[x] /\ req'[x] = req[x] /\ wp'[x] = wp[x]
        /\ wo'[x] = wo[x] /\ plan'[x] = plan[x]
        /\ Adding(x)' = Adding(x) /\ Editing(x)' = Editing(x)
        /\ Adding(x) \/ Editing(x) => req[x].payment \in Payments
    BY <1>1, <1>4, RowFacts DEF Adding, Editing, EditsAPayment
  <2>1. PaymentIsOwn(x) /\ RowFollowsControl(x) /\ CreditInFlight(x) /\ KeyIsOwn(x)
    BY DEF AccountsInv
  <2>2. wp[x] # None \/ Adding(x) => payments'[req[x].payment] = payments[req[x].payment]
    <3>1. wp[x] # None \/ Adding(x) => req[x].payment \in Payments
      BY <2>0, <2>1 DEF PaymentIsOwn
    <3>. QED
      BY <1>4, <3>1, RowsApart
  <2>3. PaymentIsOwn(x)'
    <3>1. Adding(x) => \A y \in Requests \ {x} : req'[y].payment # req[x].payment
      BY <1>0, <1>1, <1>2, <1>4, <2>0, <2>1 DEF PaymentIsOwn
    <3>2. Editing(x) => /\ payments'[req[x].payment] # None
                        /\ payments'[req[x].payment].order = req[x].order
      <4>1. SUFFICES ASSUME Editing(x), wp[p] # None, req[x].payment = m, payments'[m] = wp[p]
                     PROVE  wp[p].order = req[x].order
        BY <2>0, <2>1 DEF PaymentIsOwn
      <4>. QED
        BY <1>0, <2>1, <4>1 DEF PaymentIsOwn
    <3>3. wp[x] # None => /\ wp[x].order = req[x].order
                          /\ Adding(x) \/ (Editing(x) /\ plock'[req[x].payment] = x)
      BY <1>1, <1>4, <2>0, <2>1 DEF PaymentIsOwn
    <3>4. Adding(x) => payments'[req[x].payment] = None
      BY <2>1, <2>2 DEF PaymentIsOwn
    <3>. QED
      BY <2>0, <3>1, <3>2, <3>3, <3>4 DEF PaymentIsOwn
  <2>4. RowFollowsControl(x)'
    BY <2>0, <2>1 DEF RowFollowsControl
  <2>5. CreditInFlight(x)'
    <3>1. \A o \in DOMAIN wo[x] : orders'[o] = orders[o]
      BY <1>4
    <3>2. wp[x] # None =>
            \A s \in Orders :
              Uses(payments[req[x].payment], s)' = Uses(payments[req[x].payment], s)
      BY <2>0, <2>2 DEF Uses
    <3>. QED
      BY <2>0, <2>1, <3>1, <3>2 DEF CreditInFlight
  <2>6. KeyIsOwn(x)'
    <3>1. ASSUME wp[x] # None, wp[x].key # None, NEW q \in Payments,
                 payments'[q] # None, payments'[q].key = wp[x].key
          PROVE  q = req[x].payment
      BY <1>4, <2>1, <3>1 DEF KeyIsOwn
    <3>2. ASSUME wp[x] # None, wp[x].key # None, NEW y \in Requests,
                 wp'[y] # None, wp'[y].key = wp[x].key
          PROVE  y = x
      BY <1>1, <2>1, <3>2 DEF KeyIsOwn
    <3>. QED
      BY <2>0, <3>1, <3>2 DEF KeyIsOwn
  <2>. QED
    BY <2>3, <2>4, <2>5, <2>6
<1>5. KeysDiffer'
  BY <1>0 DEF KeysDiffer, KeyIsOwn, AccountsInv
<1>. QED
  BY <1>3, <1>4, <1>5

\* A transaction that ends without effect.
LEMMA AbortAccounts ==
  ASSUME LedgerInv, AccountsInv, NEW p \in Requests, Abort(p)
  PROVE  AccountsInv'
<1>1. /\ Unlocked(p) /\ Forget(p) /\ orders' = orders /\ payments' = payments
  BY DEF Abort, db
<1>2. /\ \A x \in Requests : /\ PaymentIsOwn(x)' /\ RowFollowsControl(x)'
                             /\ CreditInFlight(x)' /\ KeyIsOwn(x)'
      /\ KeysDiffer'
  BY <1>1, EndAccounts
<1>3. NothingNegative'
  BY <1>1 DEF AccountsInv, NothingNegative
<1>4. CreditAccounted' /\ PaidFollowsPayments'
  BY <1>1 DEF AccountsInv, CreditAccounted, AppliedMatchesApplications, UsedFrom,
         CreditPaymentsBacked, PaidFollowsPayments, PaidNeverShort, UnrefundedPaidMatches,
         ActivePaid
<1>. QED
  BY <1>2, <1>3, <1>4 DEF AccountsInv

\* A payment contributes an amount, to its own order.
LEMMA ContributionFacts ==
  ASSUME NEW r \in PaymentRow \cup {None}, NEW o
  PROVE  /\ Contribution(r, o) \in Nat
         /\ (r # None /\ None \notin PaymentRow /\ r.order # o) => Contribution(r, o) = 0
BY MoneyType DEF Contribution, PaymentRow

\* What a commit does to the sum of live payments of an order.
LEMMA ActiveAfter ==
  ASSUME LedgerInv, AccountsInv, NEW p \in Requests, NEW row, Commit(p, row),
         NEW o \in Orders
  PROVE  /\ ActivePaid(o) \in Nat /\ ActivePaid(o)' \in Nat
         /\ ActivePaid(o)' = SumActivePayments(p, o)
         /\ wp[p] = None => ActivePaid(o)' = ActivePaid(o)
         /\ wp[p] # None =>
              /\ Contribution(payments[req[p].payment], o) \in Nat
              /\ Contribution(wp[p], o) \in Nat
              /\ ActivePaid(o)' = ActivePaid(o) - Contribution(payments[req[p].payment], o)
                                   + Contribution(wp[p], o)
<1>. DEFINE f == [q \in Payments |-> Contribution(payments[q], o)]
            g == [q \in Payments |-> Contribution(PaymentSeen(p, q), o)]
<1>0. /\ TypeOK /\ \A q \in Payments : payments[q] \in PaymentRow \cup {None}
      /\ wp[p] \in PaymentRow \cup {None} /\ IsFiniteSet(Payments)
      /\ wp[p] # None => req[p].payment \in Payments
  BY RowFacts, ConstantsAssumption DEF AccountsInv, PaymentIsOwn, ConstantsAssumption
<1>1. \A q \in Payments : f[q] \in Nat /\ g[q] \in Nat
  BY <1>0, PaymentSeenType, ContributionFacts
<1>2. /\ ActivePaid(o) = SumFunctionOnSet(f, Payments)
      /\ SumActivePayments(p, o) = SumFunctionOnSet(g, Payments)
  BY DEF ActivePaid, SumActivePayments, SumOf, SumFunction
<1>3. ActivePaid(o)' = SumActivePayments(p, o)
  <2>1. \A q \in Payments : payments'[q] = PaymentSeen(p, q)
    BY DEF Commit
  <2>2. [q \in Payments |-> Contribution(payments'[q], o)] = g
    BY <2>1
  <2>3. ActivePaid(o)' = SumOf([q \in Payments |-> Contribution(payments'[q], o)])
    BY DEF ActivePaid, Contribution, SumOf, SumFunction
  <2>. QED
    BY <2>2, <2>3, <1>2 DEF SumOf, SumFunction
<1>4. SumFunctionOnSet(f, Payments) \in Nat /\ SumFunctionOnSet(g, Payments) \in Nat
  BY <1>0, <1>1, SumNatural
<1>5. ASSUME wp[p] = None PROVE SumFunctionOnSet(g, Payments) = SumFunctionOnSet(f, Payments)
  <2>1. g = f
    BY <1>5 DEF PaymentSeen
  <2>. QED
    BY <2>1
<1>6. ASSUME wp[p] # None, NEW m \in Payments, m = req[p].payment
      PROVE  /\ f[m] = Contribution(payments[m], o) /\ g[m] = Contribution(wp[p], o)
             /\ SumFunctionOnSet(g, Payments) = SumFunctionOnSet(f, Payments) - f[m] + g[m]
  <2>1. \A q \in Payments : q # m => g[q] = f[q]
    BY <1>6 DEF PaymentSeen
  <2>2. \A q \in Payments : f[q] \in Int /\ g[q] \in Int
    BY <1>1
  <2>3. SumFunctionOnSet(g, Payments) = SumFunctionOnSet(f, Payments) - f[m] + g[m]
    BY <1>0, <2>1, <2>2, SumChange
  <2>. QED
    BY <1>6, <2>3 DEF PaymentSeen
<1>. HIDE DEF f, g
<1>. QED
  BY <1>0, <1>1, <1>2, <1>3, <1>4, <1>5, <1>6

\* A commit that keeps the applied credit of its own order and leaves its paid amount
\* in step with the payments.
LEMMA CommitAccounts ==
  ASSUME LedgerInv, AccountsInv, NEW p \in Requests, pc[p] = "ready", NEW row \in OrderRow,
         Commit(p, row), row.applied = Own(p).applied, row.refunded >= 0,
         NEW own \in Orders, own = req[p].order,
         row.paid >= ActivePaid(own)' - row.refunded,
         row.refunded = 0 => row.paid = ActivePaid(own)'
  PROVE  AccountsInv'
<1>. DEFINE m == req[p].payment
<1>0. /\ TypeOK /\ None \notin PaymentRow /\ wp[p] \in PaymentRow \cup {None}
      /\ \A q \in Payments : payments[q] \in PaymentRow \cup {None}
      /\ \A o \in Orders : orders[o] \in OrderRow /\ OrderSeen(p, o) \in OrderRow
      /\ wp[p] # None => m \in Payments
      /\ PaymentIsOwn(p) /\ CreditInFlight(p) /\ RowFollowsControl(p)
      /\ IsFiniteSet(Payments)
  BY RowFacts, OrderSeenType, ConstantsAssumption
     DEF AccountsInv, PaymentIsOwn, TypeOK, Request, ConstantsAssumption
<1>1. /\ orders' = [o \in Orders |-> IF o = own THEN WithBalance(row) ELSE OrderSeen(p, o)]
      /\ \A q \in Payments : payments'[q] = PaymentSeen(p, q)
      /\ Unlocked(p) /\ Forget(p)
  BY DEF Commit
<1>2. \A q \in Payments :
        payments'[q] = IF wp[p] # None /\ q = m THEN wp[p] ELSE payments[q]
  BY <1>1 DEF PaymentSeen
<1>3. /\ WithBalance(row).applied = row.applied /\ WithBalance(row).paid = row.paid
      /\ WithBalance(row).refunded = row.refunded
  BY WithBalanceRow
<1>4. \A x \in Requests \ {p} : \A o \in DOMAIN wo[x] : orders'[o] = orders[o]
  <2> SUFFICES ASSUME NEW x \in Requests, x # p, NEW o \in DOMAIN wo[x]
               PROVE  orders'[o] = orders[o]
    OBVIOUS
  <2>1. olock[o] = x /\ o \in Orders /\ olock[own] = p
    BY <1>0 DEF LedgerInv, WritesLocked, OwnLocked, TypeOK
  <2>2. o # own /\ o \notin DOMAIN wo[p]
    BY <2>1 DEF LedgerInv, WritesLocked
  <2>. QED
    BY <1>1, <2>1, <2>2 DEF OrderSeen
<1>5. /\ \A x \in Requests : /\ PaymentIsOwn(x)' /\ RowFollowsControl(x)'
                             /\ CreditInFlight(x)' /\ KeyIsOwn(x)'
      /\ KeysDiffer'
  BY <1>1, <1>2, <1>4, EndAccounts
<1>6. \A o \in Orders : /\ orders'[o].applied = OrderSeen(p, o).applied
                        /\ o # own => orders'[o].paid = orders[o].paid
                                      /\ orders'[o].refunded = orders[o].refunded
  <2>1. \A o \in Orders : orders'[o].applied = OrderSeen(p, o).applied
    BY <1>1, <1>3 DEF Own
  <2>2. \A o \in Orders : o # own => AgreeButCredit(orders'[o], orders[o])
    BY CommitTouchesOwn
  <2>. QED
    BY <2>1, <2>2 DEF AgreeButCredit
<1>7. NothingNegative'
  <2>1. \A q \in Payments : payments'[q] # None => \A s \in Orders : payments'[q].used[s] >= 0
    BY <1>0, <1>2 DEF AccountsInv, NothingNegative, CreditInFlight
  <2>2. \A o \in Orders : orders'[o].refunded >= 0
    BY <1>0, <1>1, <1>3, <1>6 DEF AccountsInv, NothingNegative
  <2>. QED
    BY <2>1, <2>2 DEF NothingNegative
<1>8. AppliedMatchesApplications'
  <2> SUFFICES ASSUME NEW s \in Orders PROVE orders'[s].applied = UsedFrom(s)'
    BY DEF AppliedMatchesApplications
  <2> DEFINE f == [q \in Payments |-> Uses(payments[q], s)]
             g == [q \in Payments |-> Uses(payments'[q], s)]
  <2>1. orders[s].applied = UsedFrom(s)
    BY DEF AccountsInv, CreditAccounted, AppliedMatchesApplications
  <2>2. UsedFrom(s) = SumFunctionOnSet(f, Payments)
    BY DEF UsedFrom, SumOf, SumFunction
  <2>3. UsedFrom(s)' = SumFunctionOnSet(g, Payments)
    BY DEF UsedFrom, SumOf, SumFunction, Uses
  <2>4. CASE wp[p] = None
    <3>1. g = f
      BY <1>2, <2>4
    <3>2. OrderSeen(p, s) = orders[s]
      BY <1>0, <2>4 DEF RowFollowsControl, OrderSeen
    <3>. QED
      BY <1>6, <2>1, <2>2, <2>3, <3>1, <3>2
  <2>5. CASE wp[p] # None
    <3>1. /\ m \in Payments /\ g[m] = wp[p].used[s] /\ f[m] = Uses(payments[m], s)
          /\ \A q \in Payments : q # m => g[q] = f[q]
      BY <1>0, <1>2, <2>5 DEF Uses
    <3>2. \A q \in Payments : f[q] \in Int /\ g[q] \in Int
      BY <1>0, <1>2, UsesType
    <3>3. SumFunctionOnSet(g, Payments) = SumFunctionOnSet(f, Payments) - f[m] + g[m]
      BY <1>0, <3>1, <3>2, SumChange
    <3>4. OrderSeen(p, s).applied = orders[s].applied + wp[p].used[s] - Uses(payments[m], s)
      BY <2>5, SeenApplied
    <3>5. /\ orders'[s].applied = OrderSeen(p, s).applied /\ orders[s].applied \in Int
          /\ f[m] \in Int /\ g[m] \in Int
      BY <1>0, <1>6, <3>1, <3>2 DEF OrderRow
    <3> HIDE DEF f, g
    <3>. QED
      BY <2>1, <2>2, <2>3, <3>1, <3>3, <3>4, <3>5
  <2>. QED
    BY <2>4, <2>5
<1>9. CreditPaymentsBacked'
  <2>1. wp[p] # None => Backed(wp[p])
    BY <1>0 DEF CreditInFlight
  <2>2. \A q \in Payments : payments[q] # None => Backed(payments[q])
    BY DEF AccountsInv, CreditAccounted, CreditPaymentsBacked
  <2>3. \A q \in Payments : payments'[q] # None => Backed(payments'[q])
    BY <1>2, <2>1, <2>2
  <2>. QED
    BY <2>3 DEF CreditPaymentsBacked, Backed, SumOf, SumFunction
<1>10. PaidFollowsPayments'
  <2>1. ASSUME NEW o \in Orders, o # own
        PROVE  ActivePaid(o)' = ActivePaid(o)
    <3>1. wp[p] # None => /\ Contribution(wp[p], o) = 0
                          /\ Contribution(payments[m], o) = 0
      BY <1>0, <2>1 DEF Contribution, PaymentIsOwn
    <3>. QED
      BY <3>1, ActiveAfter
  <2>2. ASSUME NEW o \in Orders
        PROVE  /\ orders'[o].paid >= ActivePaid(o)' - orders'[o].refunded
               /\ orders'[o].refunded = 0 => orders'[o].paid = ActivePaid(o)'
    <3>1. CASE o = own
      BY <1>1, <1>3, <3>1
    <3>2. CASE o # own
      BY <1>6, <2>1, <3>2 DEF AccountsInv, PaidFollowsPayments, PaidNeverShort,
                              UnrefundedPaidMatches
    <3>. QED
      BY <3>1, <3>2
  <2>3. \A o \in Orders : /\ orders'[o].paid >= ActivePaid(o)' - orders'[o].refunded
                          /\ orders'[o].refunded = 0 => orders'[o].paid = ActivePaid(o)'
    BY <2>2
  <2>. QED
    BY <2>3 DEF PaidFollowsPayments, PaidNeverShort, UnrefundedPaidMatches
<1>. QED
  BY <1>5, <1>7, <1>8, <1>9, <1>10 DEF AccountsInv, CreditAccounted

\* The rebuilt paid amount is the sum of the live payments less what was refunded.
LEMMA RecomputedRow ==
  ASSUME LedgerInv, NEW p \in Requests, NEW row \in OrderRow
  PROVE  /\ Recomputed(p, row) \in OrderRow
         /\ Recomputed(p, row).applied = row.applied
         /\ Recomputed(p, row).refunded = row.refunded
         /\ Recomputed(p, row).paid =
              Positive(SumActivePayments(p, req[p].order) - row.refunded)
         /\ SumActivePayments(p, req[p].order) \in Nat
<1>1. SumActivePayments(p, req[p].order) \in Nat
  BY SumActiveType DEF LedgerInv
<1>2. Positive(SumActivePayments(p, req[p].order) - row.refunded) \in Int
  BY <1>1 DEF Positive, OrderRow
<1>. QED
  BY <1>1, <1>2 DEF Recomputed, ComputeNetPaidAmount, OrderRow

\* Every commit of the ledger.
LEMMA AnyCommitAccounts ==
  ASSUME LedgerInv, AccountsInv, NEW p \in Requests,
         \/ CommitPayment(p) \/ CommitEdit(p) \/ CommitTotals(p)
         \/ CommitRefund(p) \/ CommitAnnul(p) \/ CommitStatus(p)
  PROVE  AccountsInv'
<1>. PICK own \in Orders : own = req[p].order
  BY OwnIsCommitted
<1>0. /\ Own(p) \in OrderRow /\ orders[own] \in OrderRow /\ pc[p] = "ready"
      /\ req[p].amount \in Nat /\ req[p].total \in Int /\ req[p].status \in Statuses
      /\ Own(p).paid = orders[own].paid /\ Own(p).refunded = orders[own].refunded
  <2>1. TypeOK /\ req[p] \in Request
    BY RowFacts
  <2>2. req[p].amount \in Nat /\ req[p].total \in Int /\ req[p].status \in Statuses
    BY <2>1, MoneyType DEF Request
  <2>3. Own(p) \in OrderRow /\ AgreeButCredit(Own(p), orders[own]) /\ orders[own] \in OrderRow
    BY <2>1, OwnIsCommitted DEF TypeOK
  <2>. QED
    BY <2>2, <2>3 DEF AgreeButCredit, CommitPayment, CommitEdit, CommitTotals, CommitRefund,
                      CommitAnnul, CommitStatus
<1>1. /\ orders[own].refunded >= 0 /\ orders[own].paid >= ActivePaid(own) - orders[own].refunded
      /\ orders[own].refunded = 0 => orders[own].paid = ActivePaid(own)
      /\ ActivePaid(own) \in Nat
  <2>1. ActivePaid(own) \in Nat
    <3>1. PICK row : Commit(p, row)
      BY DEF CommitPayment, CommitEdit, CommitTotals, CommitRefund, CommitAnnul, CommitStatus
    <3>. QED
      BY <3>1, ActiveAfter
  <2>. QED
    BY <2>1 DEF AccountsInv, NothingNegative, PaidFollowsPayments, PaidNeverShort,
                UnrefundedPaidMatches
<1>2. orders[own].refunded \in Int /\ orders[own].paid \in Int
  BY <1>0 DEF OrderRow
<1>3. CASE CommitPayment(p)
  <2>1. PICK row : row = [Own(p) EXCEPT !.paid = Own(p).paid + req[p].amount]
    OBVIOUS
  <2>2. /\ row \in OrderRow /\ row.applied = Own(p).applied
        /\ row.refunded = orders[own].refunded
        /\ row.paid = orders[own].paid + req[p].amount
    BY <1>0, <1>2, <2>1 DEF OrderRow
  <2>3. Commit(p, row)
    BY <1>3, <2>1 DEF CommitPayment
  <2>4. /\ Adding(p) /\ wp[p] # None /\ wp[p] \in PaymentRow
        /\ payments[req[p].payment] = None /\ wp[p].order = own /\ ~wp[p].voided
        /\ wp[p].amount = req[p].amount
    <3>1. Adding(p)
      BY <1>3 DEF CommitPayment, Adding
    <3>. QED
      BY <1>0, <3>1, RowFacts DEF AccountsInv, PaymentIsOwn, RowFollowsControl
  <2>5. ActivePaid(own)' = ActivePaid(own) + req[p].amount
    <3>1. /\ Contribution(payments[req[p].payment], own) = 0
          /\ Contribution(wp[p], own) = req[p].amount
      BY <2>4 DEF Contribution
    <3>. QED
      BY <1>0, <1>1, <2>3, <2>4, <3>1, ActiveAfter
  <2>6. /\ row.refunded >= 0 /\ row.paid >= ActivePaid(own)' - row.refunded
        /\ row.refunded = 0 => row.paid = ActivePaid(own)'
    BY <1>0, <1>1, <1>2, <2>2, <2>5
  <2>. QED
    BY <1>0, <2>2, <2>3, <2>6, CommitAccounts
\* updatePayment, voidPayment and the totals count the payments again.
<1>4. ASSUME NEW read \in OrderRow, read.applied = Own(p).applied,
             read.refunded = orders[own].refunded, Commit(p, Recomputed(p, read))
      PROVE  AccountsInv'
  <2>1. PICK row : row = Recomputed(p, read)
    OBVIOUS
  <2>2. PICK n : n = SumActivePayments(p, req[p].order)
    OBVIOUS
  <2>3. /\ row \in OrderRow /\ row.applied = Own(p).applied
        /\ row.refunded = orders[own].refunded
        /\ row.paid = Positive(n - orders[own].refunded) /\ n \in Nat
    BY <1>4, <2>1, <2>2, RecomputedRow
  <2>4. Commit(p, row) /\ ActivePaid(own)' = n
    BY <1>4, <2>1, <2>2, ActiveAfter
  <2>5. /\ row.refunded >= 0 /\ row.paid >= ActivePaid(own)' - row.refunded
        /\ row.refunded = 0 => row.paid = ActivePaid(own)'
    BY <1>1, <1>2, <2>3, <2>4 DEF Positive
  <2>. QED
    BY <1>0, <2>3, <2>4, <2>5, CommitAccounts
<1>5. CASE CommitEdit(p)
  BY <1>0, <1>4, <1>5 DEF CommitEdit
<1>6. CASE CommitTotals(p)
  <2>1. PICK read : read = [Own(p) EXCEPT !.total = req[p].total]
    OBVIOUS
  <2>2. read \in OrderRow /\ read.applied = Own(p).applied /\ read.refunded = Own(p).refunded
    BY <1>0, <2>1 DEF OrderRow
  <2>3. Commit(p, Recomputed(p, read))
    BY <1>6, <2>1 DEF CommitTotals
  <2>. QED
    BY <1>0, <1>4, <2>2, <2>3
\* The operations on the order alone leave the payments as they are.
<1>7. ASSUME req[p].kind \in OrderOnlyKinds, NEW row \in OrderRow, Commit(p, row),
             row.applied = Own(p).applied, row.refunded - orders[own].refunded \in Nat,
             row.paid + row.refunded = orders[own].paid + orders[own].refunded
      PROVE  AccountsInv'
  <2>1. wp[p] = None
    BY <1>7 DEF AccountsInv, PaymentIsOwn, Adding, Editing, EditsAPayment, OrderOnlyKinds
  <2>2. ActivePaid(own)' = ActivePaid(own)
    BY <1>7, <2>1, ActiveAfter
  <2>3. row.refunded \in Int /\ row.paid \in Int
    BY <1>7 DEF OrderRow
  <2>4. /\ row.refunded >= 0 /\ row.paid >= ActivePaid(own)' - row.refunded
        /\ row.refunded = 0 => row.paid = ActivePaid(own)'
    BY <1>1, <1>2, <1>7, <2>2, <2>3
  <2>. QED
    BY <1>0, <1>7, <2>4, CommitAccounts
<1>8. CASE CommitRefund(p)
  <2>1. PICK row : row = RefundedRow(Own(p), req[p])
    OBVIOUS
  <2>2. PICK status : status = IF /\ Own(p).status # "ANULADO"
                                  /\ Own(p).reversed + req[p].total >= Own(p).total
                                  /\ Own(p).total > 0
                               THEN "RETURNED" ELSE Own(p).status
    OBVIOUS
  <2>3. status \in Statuses
    BY <1>0, <2>2 DEF OrderRow, Statuses
  <2>4. row = [Own(p) EXCEPT !.paid = Own(p).paid - req[p].amount,
                             !.refunded = Own(p).refunded + req[p].amount,
                             !.reversed = Own(p).reversed + req[p].total, !.status = status]
    BY <2>1, <2>2 DEF RefundedRow
  <2>5. /\ row \in OrderRow /\ row.applied = Own(p).applied
        /\ row.refunded = orders[own].refunded + req[p].amount
        /\ row.paid = orders[own].paid - req[p].amount
    <3>1. /\ Own(p).paid - req[p].amount \in Int /\ Own(p).refunded + req[p].amount \in Int
          /\ Own(p).reversed + req[p].total \in Int
      BY <1>0 DEF OrderRow
    <3>2. row \in OrderRow
      BY <1>0, <2>3, <2>4, <3>1 DEF OrderRow
    <3>3. /\ row.applied = Own(p).applied /\ row.refunded = Own(p).refunded + req[p].amount
          /\ row.paid = Own(p).paid - req[p].amount
      BY <1>0, <2>4 DEF OrderRow
    <3>. QED
      BY <1>0, <3>2, <3>3
  <2>6. Commit(p, row) /\ req[p].kind \in OrderOnlyKinds
    BY <1>8, <2>1 DEF CommitRefund, OrderOnlyKinds
  <2>7. /\ row.refunded - orders[own].refunded \in Nat
        /\ row.paid + row.refunded = orders[own].paid + orders[own].refunded
    BY <1>0, <1>2, <2>5
  <2>. QED
    BY <1>7, <2>5, <2>6, <2>7
<1>9. CASE CommitAnnul(p)
  <2>1. PICK row : row = [Own(p) EXCEPT !.status = "ANULADO",
                                        !.reversed = Own(p).total - req[p].amount]
    OBVIOUS
  <2>2. /\ row \in OrderRow /\ row.applied = Own(p).applied
        /\ row.refunded = orders[own].refunded /\ row.paid = orders[own].paid
    <3>1. "ANULADO" \in Statuses /\ Own(p).total - req[p].amount \in Int
      BY <1>0 DEF OrderRow, Statuses
    <3>. QED
      BY <1>0, <2>1, <3>1 DEF OrderRow
  <2>3. Commit(p, row) /\ req[p].kind \in OrderOnlyKinds
    BY <1>9, <2>1 DEF CommitAnnul, OrderOnlyKinds
  <2>. QED
    BY <1>2, <1>7, <2>2, <2>3
<1>10. CASE CommitStatus(p)
  <2>1. PICK row : row = [Own(p) EXCEPT !.status = req[p].status]
    OBVIOUS
  <2>2. /\ row \in OrderRow /\ row.applied = Own(p).applied
        /\ row.refunded = orders[own].refunded /\ row.paid = orders[own].paid
    BY <1>0, <2>1 DEF OrderRow
  <2>3. Commit(p, row) /\ req[p].kind \in OrderOnlyKinds
    BY <1>10, <2>1 DEF CommitStatus, OrderOnlyKinds
  <2>. QED
    BY <1>2, <1>7, <2>2, <2>3
<1>. QED
  BY <1>3, <1>5, <1>6, <1>8, <1>9, <1>10

\* The rows a behaviour starts from.
LEMMA InitAccounts == Init => AccountsInv
<1> SUFFICES ASSUME Init PROVE AccountsInv
  OBVIOUS
<1>1. /\ orders = SeedOrders /\ payments = SeedPayments
      /\ \A p \in Requests : /\ pc[p] = "idle" /\ wp[p] = None /\ DOMAIN wo[p] = {}
                             /\ \A s \in Orders : plan[p][s] = 0
                             /\ req[p].kind = "recalculateOrderTotals"
  BY DEF Init, NoWrites, NoUse, NoReq
<1>2. \A p \in Requests :
        PaymentIsOwn(p) /\ RowFollowsControl(p) /\ CreditInFlight(p) /\ KeyIsOwn(p)
  BY <1>1 DEF PaymentIsOwn, RowFollowsControl, CreditInFlight, KeyIsOwn, Adding, Editing
<1>3. NothingNegative /\ KeysDiffer
  BY <1>1, SeedAssumption DEF SeedAssumption, NothingNegative, KeysDiffer
<1>4. CreditAccounted /\ PaidFollowsPayments
  BY <1>1, SeedAssumption
     DEF SeedAssumption, CreditAccounted, AppliedMatchesApplications, CreditPaymentsBacked,
         UsedFrom, PaidFollowsPayments, PaidNeverShort, UnrefundedPaidMatches, ActivePaid
<1>. QED
  BY <1>2, <1>3, <1>4 DEF AccountsInv

\* A step that changes nothing.
LEMMA StutterAccounts ==
  ASSUME AccountsInv, UNCHANGED vars
  PROVE  AccountsInv'
<1>1. \A p \in Requests : Adding(p)' = Adding(p) /\ Editing(p)' = Editing(p)
  BY DEF vars, Adding, Editing, EditsAPayment
<1>2. \A p \in Requests : PaymentIsOwn(p)' /\ RowFollowsControl(p)' /\ KeyIsOwn(p)'
  BY <1>1 DEF vars, AccountsInv, PaymentIsOwn, RowFollowsControl, KeyIsOwn
<1>3. \A p \in Requests : CreditInFlight(p)'
  BY DEF vars, AccountsInv, CreditInFlight, Uses, Backed, SumOf, SumFunction
<1>4. NothingNegative' /\ KeysDiffer'
  BY DEF vars, AccountsInv, NothingNegative, KeysDiffer
<1>5. CreditAccounted' /\ PaidFollowsPayments'
  BY DEF vars, AccountsInv, CreditAccounted, AppliedMatchesApplications, UsedFrom,
         CreditPaymentsBacked, PaidFollowsPayments, PaidNeverShort, UnrefundedPaidMatches,
         ActivePaid
<1>. QED
  BY <1>2, <1>3, <1>4, <1>5 DEF AccountsInv

\* Whatever the operations and their interleaving, a transaction's payment is its own,
\* its credit in flight is what its rows say, and orders and payments agree.
THEOREM AccountsCorrect == Spec => []AccountsInv
<1>1. ASSUME LedgerInv, AccountsInv, NEW p \in Requests, Start(p) \/ Step(p) \/ Abort(p)
      PROVE  AccountsInv'
  BY <1>1, StartAccounts, EditedAccounts, MoveAccounts, InsertAccounts, PlanAccounts,
     CreditAccounts, AnyCommitAccounts, AbortAccounts DEF Step
<1>2. LedgerInv /\ AccountsInv /\ [Next]_vars => AccountsInv'
  BY <1>1, StutterAccounts DEF Next
<1>. QED
  BY <1>2, InitAccounts, LedgerCorrect, PTL DEF Spec

\* credit-balance.service.ts: what an order gave away is what the application rows say,
\* and a live credit payment is wholly backed by them, whatever is edited, voided,
\* released and applied at once.
THEOREM CreditIsAccounted == Spec => []CreditAccounted
<1>1. AccountsInv => CreditAccounted
  BY DEF AccountsInv
<1>. QED
  BY <1>1, AccountsCorrect, PTL

\* paidAmount: exactly the live payments of an order that refunded nothing, and never
\* less than them minus what it refunded.
THEOREM PaidFollows == Spec => []PaidFollowsPayments
<1>1. AccountsInv => PaidFollowsPayments
  BY DEF AccountsInv
<1>. QED
  BY <1>1, AccountsCorrect, PTL

\* However often a payment is retried with one idempotency key, it is registered once.
THEOREM OnePaymentEachKey == Spec => []OnePaymentPerKey
<1>1. AccountsInv => OnePaymentPerKey
  <2> SUFFICES ASSUME AccountsInv, NEW k \in Keys PROVE Cardinality(PaymentWithKey(k)) <= 1
    BY DEF OnePaymentPerKey
  <2>1. \A q, r \in PaymentWithKey(k) : q = r
    BY ConstantsAssumption DEF ConstantsAssumption, AccountsInv, KeysDiffer, PaymentWithKey
  <2>2. CASE PaymentWithKey(k) = {}
    BY <2>2, FS_EmptySet
  <2>3. CASE PaymentWithKey(k) # {}
    <3>1. PICK q : PaymentWithKey(k) = {q}
      BY <2>1, <2>3
    <3>. QED
      BY <3>1, FS_Singleton
  <2>. QED
    BY <2>2, <2>3
<1>. QED
  BY <1>1, AccountsCorrect, PTL
=============================================================================
