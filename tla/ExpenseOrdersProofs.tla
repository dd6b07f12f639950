------------------------ MODULE ExpenseOrdersProofs ------------------------
(***************************************************************************)
(* Theorems about an account payable (Payables) and about the expense      *)
(* order it mirrors (ExpenseOrders), for any number of processes,          *)
(* requests, failures and races:                                           *)
(*   - a reversal of a payment is whole, in an account alone or in that of *)
(*     an order;                                                           *)
(*   - requests one at a time, an account is what its payments say;        *)
(*   - an approval is good for one edit, and what is approved was signed;  *)
(*   - money leaves for an order at most once for each signature.          *)
(***************************************************************************)
EXTENDS ExpenseOrdersProps, SumTheorems

-----------------------------------------------------------------------------
(* The account: its rows go with it, whatever runs at once.                *)

\* The rows, targets and labels of the account are among those of the processes.
Wide(R, T, L) ==
  /\ Payments \cup PayRequests \cup Users \cup {None} \subseteq R
  /\ PayReqStatuses \cup ReversalStatuses \cup Answers \cup {None} \subseteq T
  /\ PCs \subseteq L

\* No row is lost, unless the account is.
RowsKept ==
  /\ Existing(movements) \subseteq Existing(movements')
  /\ payable' # None =>
       /\ payable # None
       /\ Existing(payReqs) \subseteq Existing(payReqs')
       /\ \A q \in Existing(payments) : /\ q \in Existing(payments')
                                        /\ payments'[q].request = payments[q].request

\* Nothing that a reversal binds together changes.
ReversalsKept == UNCHANGED <<payments, reversals>> /\ movements' = movements

\* A sum of amounts is an integer.
LEMMA SumOfType ==
  ASSUME NEW table, NEW D, IsFiniteSet(D), NEW S, S \subseteq D,
         \A x \in S : table[x].amount \in Int
  PROVE  SumOf(table, S) \in Int
<1>. DEFINE f == [x \in S |-> table[x].amount]
<1>1. IsFiniteSet(S)
  BY FS_Subset
<1>2. SumFunctionOnSet(f, S) \in Int
  BY <1>1, SumType
<1>. QED
  BY <1>2 DEF SumOf, SumFunction

\* The sum of any of the live payments is an integer.
LEMMA LiveType ==
  ASSUME payments \in [Payments -> Payment \cup {None}], NEW S, S \subseteq LivePayments
  PROVE  SumOf(payments, S) \in Int
<1>1. S \subseteq Payments /\ \A q \in S : payments[q].amount \in Int
  BY PayablesAssumption DEF LivePayments, Existing, Payment
<1>. QED
  BY <1>1, SumOfType, PayablesAssumption

\* One process takes a step: what is asked of its new job, and of the rows.
LEMMA AccountMoves ==
  ASSUME NEW R, NEW T, NEW L, AccountInv(R, T, L),
         NEW p \in Processes, NEW l \in L, NEW j \in JobOf(R, T),
         pc' = [pc EXCEPT ![p] = l], job' = [job EXCEPT ![p] = j],
         JobFits(j, l), FoundBy(j, l)', TablesTyped', RowsKept,
         MovementsExist', ReversalIsWhole'
  PROVE  AccountInv(R, T, L)'
<1>1. Typed(R, T, L)'
  BY DEF AccountInv, Typed
<1>2. JobFollowsControl'
  BY DEF AccountInv, Typed, JobFollowsControl
<1>3. ASSUME NEW x \in Processes PROVE FoundBy(job[x], pc[x])'
  <2>1. CASE x = p
    BY <2>1 DEF AccountInv, Typed, FoundBy, PaymentOf
  <2>2. CASE x # p
    <3>1. job'[x] = job[x] /\ pc'[x] = pc[x] /\ FoundBy(job[x], pc[x])
      BY <2>2 DEF AccountInv, Typed, RowsFound
    <3>. QED
      BY <3>1 DEF FoundBy, RowsKept, PaymentOf
  <2>. QED
    BY <2>1, <2>2
<1>. QED
  BY <1>1, <1>2, <1>3 DEF AccountInv, RowsFound

\* The same where the rows stay as they are.
LEMMA AccountWaits ==
  ASSUME NEW R, NEW T, NEW L, AccountInv(R, T, L),
         NEW p \in Processes, NEW l \in L, NEW j \in JobOf(R, T),
         pc' = [pc EXCEPT ![p] = l], job' = [job EXCEPT ![p] = j],
         UNCHANGED rows, JobFits(j, l), FoundBy(j, l)
  PROVE  AccountInv(R, T, L)'
<1>1. TablesTyped' /\ RowsKept /\ MovementsExist' /\ ReversalIsWhole' /\ FoundBy(j, l)'
  BY DEF rows, AccountInv, Typed, TablesTyped, RowsKept, MovementsExist, ReversalIsWhole,
         ReversedIsVoided, CompletedIsReversed, PaymentOf, Existing, FoundBy
<1>. QED
  BY <1>1, AccountMoves

\* A process that ends, or dies, holds nothing.
LEMMA NothingHeld ==
  ASSUME NEW R, NEW T, NEW L, Wide(R, T, L)
  PROVE  /\ NoJob \in JobOf(R, T) /\ "idle" \in L
         /\ JobFits(NoJob, "idle") /\ FoundBy(NoJob, "idle") /\ FoundBy(NoJob, "idle")'
BY DEF Wide, NoJob, JobOf, PCs, JobFits, FoundBy

\* A process ends and writes nothing.
LEMMA AccountEnds ==
  ASSUME NEW R, NEW T, NEW L, Wide(R, T, L), AccountInv(R, T, L), NEW p \in Processes,
         pc' = [pc EXCEPT ![p] = "idle"], job' = [job EXCEPT ![p] = NoJob], UNCHANGED rows
  PROVE  AccountInv(R, T, L)'
<1>1. PICK j : j = NoJob
  OBVIOUS
<1>2. j \in JobOf(R, T) /\ "idle" \in L /\ JobFits(j, "idle") /\ FoundBy(j, "idle")
  BY <1>1, NothingHeld
<1>3. job' = [job EXCEPT ![p] = j]
  BY <1>1
<1>. QED
  BY <1>2, <1>3, AccountWaits

\* A process begins an operation: its job fits what it found.
LEMMA AccountBegins ==
  ASSUME NEW R, NEW T, NEW L, Wide(R, T, L), AccountInv(R, T, L), NEW p \in Processes, Start(p)
  PROVE  AccountInv(R, T, L)'
<1>. USE DEF Begin, Wide, PCs
<1>. DEFINE Fits(j, l) == /\ l \in L /\ j \in JobOf(R, T) /\ JobFits(j, l) /\ FoundBy(j, l)
                          /\ pc' = [pc EXCEPT ![p] = l] /\ job' = [job EXCEPT ![p] = j]
                          /\ UNCHANGED rows
<1>1. SUFFICES \E j, l : Fits(j, l)
  BY AccountWaits
<1>2. /\ payable \in Payable \cup {None}
      /\ \A r \in Existing(payReqs) : /\ r \in PayRequests /\ r # None
                                      /\ payReqs[r].amount \in Int
      /\ \A r \in Existing(reversals) : r \in PayRequests /\ r # None
      /\ \A q \in Existing(payments) : q \in Payments
  BY PayablesAssumption DEF AccountInv, Typed, TablesTyped, Existing, PayReq
<1>3. CASE StartRegisterPayment(p)
  <2>1. PICK a \in Amounts :
          Begin(p, "registerPayment", [NoJob EXCEPT !.amount = a, !.seen = payable], "assert")
    BY <1>3 DEF StartRegisterPayment
  <2>2. a \in Int
    BY PayablesAssumption
  <2>3. Fits([NoJob EXCEPT !.amount = a, !.seen = payable], "assert")
    <3>1. PICK j : j = [NoJob EXCEPT !.amount = a, !.seen = payable]
      OBVIOUS
    <3>2. j = [row |-> None, to |-> None, amount |-> a, seen |-> payable,
               movement |-> None, request |-> None, sum |-> 0, found |-> {}]
      BY <3>1 DEF NoJob
    <3>3. j \in JobOf(R, T)
      BY <3>2, <1>2, <1>3, <2>1, <2>2 DEF JobOf, StartRegisterPayment, PayableOpen
    <3>4. JobFits(j, "assert") /\ FoundBy(j, "assert")
      BY <3>2, <1>2, <1>3, <2>1, <2>2 DEF JobFits, FoundBy, StartRegisterPayment, PayableOpen
    <3>. QED
      BY <3>1, <3>3, <3>4, <1>2, <1>3, <2>1, <2>2 DEF StartRegisterPayment, PayableOpen
  <2>. QED
    BY <2>3
<1>4. CASE StartCajaApprovePayment(p)
  <2>1. PICK r \in Existing(payReqs) :
          Begin(p, "payRequest", [NoJob EXCEPT !.request = r, !.amount = payReqs[r].amount],
                "complete")
    BY <1>4 DEF StartCajaApprovePayment
  <2>2. Fits([NoJob EXCEPT !.request = r, !.amount = payReqs[r].amount], "complete")
    <3>1. PICK j : j = [NoJob EXCEPT !.request = r, !.amount = payReqs[r].amount]
      OBVIOUS
    <3>2. j = [row |-> None, to |-> None, amount |-> payReqs[r].amount, seen |-> None,
               movement |-> None, request |-> r, sum |-> 0, found |-> {}]
      BY <3>1 DEF NoJob
    <3>3. j \in JobOf(R, T)
      BY <3>2, <1>2, <2>1 DEF JobOf
    <3>4. JobFits(j, "complete") /\ FoundBy(j, "complete")
      BY <3>2, <1>2, <2>1 DEF JobFits, FoundBy
    <3>. QED
      BY <3>1, <3>3, <3>4, <1>2, <2>1
  <2>. QED
    BY <2>2
<1>5. CASE StartAnswerPayment(p)
  <2>1. PICK r \in Existing(payReqs), answer \in PayReqAnswers :
          Begin(p, "payRequest", [NoJob EXCEPT !.request = r, !.to = answer[2]],
                "answerPayment")
    BY <1>5 DEF StartAnswerPayment
  <2>2. answer[2] \in PayReqStatuses
    BY DEF PayReqAnswers, PayReqStatuses
  <2>3. Fits([NoJob EXCEPT !.request = r, !.to = answer[2]], "answerPayment")
    <3>1. PICK j : j = [NoJob EXCEPT !.request = r, !.to = answer[2]]
      OBVIOUS
    <3>2. j = [row |-> None, to |-> answer[2], amount |-> 0, seen |-> None,
               movement |-> None, request |-> r, sum |-> 0, found |-> {}]
      BY <3>1 DEF NoJob
    <3>3. j \in JobOf(R, T)
      BY <3>2, <1>2, <2>1, <2>2 DEF JobOf
    <3>4. JobFits(j, "answerPayment") /\ FoundBy(j, "answerPayment")
      BY <3>2, <1>2, <2>1, <2>2 DEF JobFits, FoundBy
    <3>. QED
      BY <3>1, <3>3, <3>4, <1>2, <2>1, <2>2
  <2>. QED
    BY <2>3
<1>6. CASE StartDeletePayment(p)
  <2>1. PICK q \in Existing(payments) :
          Begin(p, "deletePayment", [NoJob EXCEPT !.row = q, !.seen = payable], "find")
    BY <1>6 DEF StartDeletePayment
  <2>2. Fits([NoJob EXCEPT !.row = q, !.seen = payable], "find")
    <3>1. PICK j : j = [NoJob EXCEPT !.row = q, !.seen = payable]
      OBVIOUS
    <3>2. j = [row |-> q, to |-> None, amount |-> 0, seen |-> payable,
               movement |-> None, request |-> None, sum |-> 0, found |-> {}]
      BY <3>1 DEF NoJob
    <3>3. j \in JobOf(R, T)
      BY <3>2, <1>2, <1>6, <2>1 DEF JobOf, StartDeletePayment
    <3>4. JobFits(j, "find") /\ FoundBy(j, "find")
      BY <3>2, <1>2, <1>6, <2>1 DEF JobFits, FoundBy, StartDeletePayment
    <3>. QED
      BY <3>1, <3>3, <3>4, <1>2, <1>6, <2>1 DEF StartDeletePayment
  <2>. QED
    BY <2>2
<1>7. CASE StartAnswerReversal(p)
  <2>1. PICK r \in Existing(reversals), answer \in ReversalAnswers :
          Begin(p, "reversal", [NoJob EXCEPT !.request = r, !.to = answer[2]],
                "answerReversal")
    BY <1>7 DEF StartAnswerReversal
  <2>2. answer[2] \in ReversalStatuses \ {"COMPLETED"}
    BY DEF ReversalAnswers, ReversalStatuses
  <2>3. Fits([NoJob EXCEPT !.request = r, !.to = answer[2]], "answerReversal")
    <3>1. PICK j : j = [NoJob EXCEPT !.request = r, !.to = answer[2]]
      OBVIOUS
    <3>2. j = [row |-> None, to |-> answer[2], amount |-> 0, seen |-> None,
               movement |-> None, request |-> r, sum |-> 0, found |-> {}]
      BY <3>1 DEF NoJob
    <3>3. j \in JobOf(R, T)
      BY <3>2, <1>2, <2>1, <2>2 DEF JobOf
    <3>4. JobFits(j, "answerReversal") /\ FoundBy(j, "answerReversal")
      BY <3>2, <1>2, <2>1, <2>2 DEF JobFits, FoundBy
    <3>. QED
      BY <3>1, <3>3, <3>4, <1>2, <2>1, <2>2
  <2>. QED
    BY <2>3
<1>8. CASE StartCajaApproveReversal(p)
  <2>1. PICK r \in Existing(reversals), q \in Existing(payments) :
          /\ q \in PaymentOf(r)
          /\ Begin(p, "reversal", [NoJob EXCEPT !.row = q, !.request = r], "liveOfRequest")
    BY <1>8 DEF StartCajaApproveReversal
  <2>2. Fits([NoJob EXCEPT !.row = q, !.request = r], "liveOfRequest")
    <3>1. PICK j : j = [NoJob EXCEPT !.row = q, !.request = r]
      OBVIOUS
    <3>2. j = [row |-> q, to |-> None, amount |-> 0, seen |-> None,
               movement |-> None, request |-> r, sum |-> 0, found |-> {}]
      BY <3>1 DEF NoJob
    <3>3. j \in JobOf(R, T)
      BY <3>2, <1>2, <2>1 DEF JobOf
    <3>4. JobFits(j, "liveOfRequest") /\ FoundBy(j, "liveOfRequest")
      BY <3>2, <1>2, <2>1 DEF JobFits, FoundBy
    <3>. QED
      BY <3>1, <3>3, <3>4, <1>2, <2>1
  <2>. QED
    BY <2>2
<1>9. CASE StartUpdateTotal(p)
  <2>1. PICK t \in Totals :
          Begin(p, "update", [NoJob EXCEPT !.amount = t, !.seen = payable], "total")
    BY <1>9 DEF StartUpdateTotal
  <2>2. t \in Int
    BY PayablesAssumption
  <2>3. Fits([NoJob EXCEPT !.amount = t, !.seen = payable], "total")
    <3>1. PICK j : j = [NoJob EXCEPT !.amount = t, !.seen = payable]
      OBVIOUS
    <3>2. j = [row |-> None, to |-> None, amount |-> t, seen |-> payable,
               movement |-> None, request |-> None, sum |-> 0, found |-> {}]
      BY <3>1 DEF NoJob
    <3>3. j \in JobOf(R, T)
      BY <3>2, <1>2, <1>9, <2>1, <2>2 DEF JobOf, StartUpdateTotal
    <3>4. JobFits(j, "total") /\ FoundBy(j, "total")
      BY <3>2, <1>2, <1>9, <2>1, <2>2 DEF JobFits, FoundBy, StartUpdateTotal
    <3>. QED
      BY <3>1, <3>3, <3>4, <1>2, <1>9, <2>1, <2>2 DEF StartUpdateTotal
  <2>. QED
    BY <2>3
<1>10. CASE StartCancel(p)
  <2>1. Fits(NoJob, "cancel")
    <3>1. PICK j : j = NoJob
      OBVIOUS
    <3>2. j = [row |-> None, to |-> None, amount |-> 0, seen |-> None,
               movement |-> None, request |-> None, sum |-> 0, found |-> {}]
      BY <3>1 DEF NoJob
    <3>3. j \in JobOf(R, T)
      BY <3>2, <1>10 DEF JobOf, StartCancel
    <3>4. JobFits(j, "cancel") /\ FoundBy(j, "cancel")
      BY <3>2, <1>10 DEF JobFits, FoundBy, StartCancel
    <3>. QED
      BY <3>1, <3>3, <3>4, <1>10 DEF StartCancel
  <2>. QED
    BY <2>1
<1>11. CASE StartAuthorize(p)
  <2>1. Fits(NoJob, "authorize")
    <3>1. PICK j : j = NoJob
      OBVIOUS
    <3>2. j = [row |-> None, to |-> None, amount |-> 0, seen |-> None,
               movement |-> None, request |-> None, sum |-> 0, found |-> {}]
      BY <3>1 DEF NoJob
    <3>3. j \in JobOf(R, T)
      BY <3>2, <1>11 DEF JobOf, StartAuthorize
    <3>4. JobFits(j, "authorize") /\ FoundBy(j, "authorize")
      BY <3>2, <1>11 DEF JobFits, FoundBy, StartAuthorize
    <3>. QED
      BY <3>1, <3>3, <3>4, <1>11 DEF StartAuthorize
  <2>. QED
    BY <2>1
<1>12. CASE StartAnswerAuth(p)
  <2>1. PICK u \in Users, to \in {"APPROVED", "REJECTED", "EXPIRED"} :
          Begin(p, "authorize", [NoJob EXCEPT !.row = u, !.to = to], "answerAuth")
    BY <1>12 DEF StartAnswerAuth
  <2>2. Fits([NoJob EXCEPT !.row = u, !.to = to], "answerAuth")
    <3>1. PICK j : j = [NoJob EXCEPT !.row = u, !.to = to]
      OBVIOUS
    <3>2. j = [row |-> u, to |-> to, amount |-> 0, seen |-> None,
               movement |-> None, request |-> None, sum |-> 0, found |-> {}]
      BY <3>1 DEF NoJob
    <3>3. j \in JobOf(R, T)
      BY <3>2, <2>1 DEF JobOf, Answers
    <3>4. JobFits(j, "answerAuth") /\ FoundBy(j, "answerAuth")
      BY <3>2, <2>1 DEF JobFits, FoundBy, Answers
    <3>. QED
      BY <3>1, <3>3, <3>4, <2>1 DEF Answers
  <2>. QED
    BY <2>2
<1>. QED
  BY <1>3, <1>4, <1>5, <1>6, <1>7, <1>8, <1>9, <1>10, <1>11, <1>12 DEF Start

\* An operation ends with the write of one or more rows.
LEMMA AccountWrites ==
  ASSUME NEW R, NEW T, NEW L, Wide(R, T, L), AccountInv(R, T, L), NEW p \in Processes,
         pc' = [pc EXCEPT ![p] = "idle"], job' = [job EXCEPT ![p] = NoJob],
         TablesTyped', RowsKept, MovementsExist', ReversalIsWhole'
  PROVE  AccountInv(R, T, L)'
<1>1. PICK j : j = NoJob
  OBVIOUS
<1>2. j \in JobOf(R, T) /\ "idle" \in L /\ JobFits(j, "idle") /\ FoundBy(j, "idle")'
  BY <1>1, NothingHeld
<1>3. job' = [job EXCEPT ![p] = j]
  BY <1>1
<1>. QED
  BY <1>2, <1>3, AccountMoves

\* What a reversal binds together is not touched.
LEMMA BoundKept ==
  ASSUME MovementsExist, ReversalIsWhole, UNCHANGED <<payments, movements, reversals>>
  PROVE  MovementsExist' /\ ReversalIsWhole'
BY DEF MovementsExist, ReversalIsWhole, ReversedIsVoided, CompletedIsReversed, PaymentOf,
       Existing

\* The columns of the account are written by id, and nothing else.
LEMMA ColumnsWritten ==
  ASSUME NEW R, NEW T, NEW L, AccountInv(R, T, L), payable # None, payable' \in Payable,
         UNCHANGED <<payments, movements, payReqs, reversals, asked>>
  PROVE  TablesTyped' /\ RowsKept /\ MovementsExist' /\ ReversalIsWhole'
<1>1. TablesTyped' /\ RowsKept
  BY DEF AccountInv, Typed, TablesTyped, RowsKept, Existing
<1>. QED
  BY <1>1, BoundKept DEF AccountInv

\* A payment is reversed with its movement and, by Caja, with its request.
LEMMA ReversalWritten ==
  ASSUME NEW R, NEW T, NEW L, AccountInv(R, T, L), NEW q \in Existing(payments),
         ReversePayment(q), UNCHANGED <<payReqs, asked>>, payable # None, payable' \in Payable,
         \/ UNCHANGED reversals
         \/ /\ q \in PaymentOf(payments[q].request)
            /\ payments[q].request \in PayRequests
            /\ reversals' = [reversals EXCEPT ![payments[q].request] = "COMPLETED"]
  PROVE  TablesTyped' /\ RowsKept /\ MovementsExist' /\ ReversalIsWhole'
<1>. DEFINE m == payments[q].movement
<1>1. /\ TablesTyped /\ MovementsExist /\ ReversedIsVoided /\ CompletedIsReversed
      /\ q \in Payments /\ payments[q] \in Payment /\ payments[q] # None
  BY DEF AccountInv, Typed, TablesTyped, ReversalIsWhole, Existing
<1>2. /\ payments' = [payments EXCEPT ![q].reversed = TRUE]
      /\ payments' \in [Payments -> Payment \cup {None}]
      /\ Existing(payments') = Existing(payments)
      /\ \A x \in Existing(payments) :
           /\ payments'[x].movement = payments[x].movement
           /\ payments'[x].request = payments[x].request
           /\ payments'[x].reversed <=> x = q \/ payments[x].reversed
  <2>1. payments' = [payments EXCEPT ![q].reversed = TRUE]
    BY DEF ReversePayment
  <2>2. payments'[q] \in Payment /\ payments'[q] # None
    BY <1>1, <2>1, PayablesAssumption DEF TablesTyped, Payment
  <2>3. payments' \in [Payments -> Payment \cup {None}]
    BY <1>1, <2>1, <2>2 DEF TablesTyped
  <2>4. Existing(payments') = Existing(payments)
    BY <1>1, <2>1, <2>2 DEF TablesTyped, Existing
  <2>5. \A x \in Existing(payments) :
           /\ payments'[x].movement = payments[x].movement
           /\ payments'[x].request = payments[x].request
           /\ payments'[x].reversed <=> x = q \/ payments[x].reversed
    BY <1>1, <2>1 DEF TablesTyped, Existing, Payment
  <2>. QED
    BY <2>1, <2>3, <2>4, <2>5
<1>3. /\ movements' \in [Movements -> Movement \cup {None}]
      /\ Existing(movements') = Existing(movements)
      /\ \A x \in Existing(movements) :
           movements'[x].voided <=> x = m \/ movements[x].voided
  <2>1. CASE m = None
    <3>1. UNCHANGED movements /\ \A x \in Existing(movements) : x # m
      BY <1>1, <2>1, PayablesAssumption DEF ReversePayment, TablesTyped, Existing
    <3>. QED
      BY <1>1, <3>1 DEF TablesTyped, Existing, Movement
  <2>2. CASE m # None
    <3>1. /\ movements' = [movements EXCEPT ![m].voided = TRUE]
          /\ m \in Movements /\ movements[m] \in Movement /\ movements[m] # None
      BY <1>1, <2>2 DEF ReversePayment, MovementsExist, TablesTyped, Existing
    <3>2. movements'[m] \in Movement /\ movements'[m] # None
      <4>1. movements'[m] \in Movement
        BY <1>1, <3>1 DEF TablesTyped, Movement
      <4>. QED
        BY <4>1, PayablesAssumption
    <3>3. movements' \in [Movements -> Movement \cup {None}]
      BY <1>1, <3>1, <3>2 DEF TablesTyped
    <3>4. Existing(movements') = Existing(movements)
      BY <1>1, <3>1, <3>2 DEF TablesTyped, Existing
    <3>5. \A x \in Existing(movements) :
            movements'[x].voided <=> x = m \/ movements[x].voided
      BY <1>1, <3>1 DEF TablesTyped, Existing, Movement
    <3>. QED
      BY <3>3, <3>4, <3>5
  <2>. QED
    BY <2>1, <2>2
<1>4. reversals' \in [PayRequests -> ReversalStatuses \cup {None}]
  BY <1>1 DEF TablesTyped, ReversalStatuses
<1>5. TablesTyped' /\ RowsKept
  BY <1>1, <1>2, <1>3, <1>4 DEF TablesTyped, RowsKept, Existing
<1>6. MovementsExist'
  BY <1>1, <1>2, <1>3 DEF MovementsExist
<1>7. ReversedIsVoided'
  BY <1>1, <1>2, <1>3 DEF ReversedIsVoided, MovementsExist
<1>8. CompletedIsReversed'
  <2>1. SUFFICES ASSUME NEW r \in PayRequests, reversals'[r] = "COMPLETED"
                 PROVE  \E x \in PaymentOf(r)' : payments'[x].reversed
    BY DEF CompletedIsReversed
  <2>2. PaymentOf(r)' = PaymentOf(r)
    BY <1>2 DEF PaymentOf
  <2>3. CASE reversals[r] = "COMPLETED"
    BY <1>1, <1>2, <2>2, <2>3 DEF CompletedIsReversed, PaymentOf
  <2>4. CASE reversals[r] # "COMPLETED"
    <3>1. r = payments[q].request
      BY <1>1, <2>1, <2>4 DEF TablesTyped
    <3>2. q \in PaymentOf(r)
      BY <3>1 DEF PaymentOf
    <3>. QED
      BY <1>2, <2>2, <3>2
  <2>. QED
    BY <2>3, <2>4
<1>. QED
  BY <1>5, <1>6, <1>7, <1>8 DEF ReversalIsWhole

\* What the job of a running process is, and the account it works on.
LEMMA AccountJob ==
  ASSUME NEW R, NEW T, NEW L, AccountInv(R, T, L), NEW p \in Processes
  PROVE  /\ job[p] \in JobOf(R, T) /\ JobFits(job[p], pc[p]) /\ FoundBy(job[p], pc[p])
         /\ TablesTyped /\ MovementsExist /\ ReversalIsWhole
         /\ payable # None => payable \in Payable
         /\ job[p].seen # None => job[p].seen \in Payable
BY DEF AccountInv, Typed, JobFollowsControl, RowsFound, TablesTyped, JobOf

\* The statements that write nothing but what the process carries.
LEMMA AccountReads ==
  ASSUME NEW R, NEW T, NEW L, Wide(R, T, L), AccountInv(R, T, L), NEW p \in Processes,
         \/ AssertPayableAmount(p) \/ PaymentRefused(p) \/ RereadPayable(p) \/ FindPayment(p)
         \/ ReadLive(p) \/ Authorize(p)
  PROVE  AccountInv(R, T, L)'
<1>. USE DEF Goto, Done
<1>1. /\ job[p] \in JobOf(R, T) /\ JobFits(job[p], pc[p]) /\ FoundBy(job[p], pc[p])
      /\ TablesTyped /\ (payable # None => payable \in Payable)
  BY AccountJob
<1>2. PCs \subseteq L /\ None \in R /\ None \in T
  BY DEF Wide
<1>3. CASE pc' = [pc EXCEPT ![p] = "idle"] /\ job' = [job EXCEPT ![p] = NoJob]
           /\ UNCHANGED rows
  BY <1>3, AccountEnds
<1>4. CASE AssertPayableAmount(p)
  <2>1. CASE \E next \in {"movement", "payment"} :
               pc' = [pc EXCEPT ![p] = next] /\ job' = [job EXCEPT ![p] = job[p]]
    <3>1. PICK next \in {"movement", "payment"} :
                 pc' = [pc EXCEPT ![p] = next] /\ job' = [job EXCEPT ![p] = job[p]]
      BY <2>1
    <3>2. PICK j : j = job[p]
      OBVIOUS
    <3>3. JobFits(j, next) /\ FoundBy(j, next) /\ j \in JobOf(R, T) /\ next \in L
      BY <1>1, <1>2, <1>4, <3>2 DEF AssertPayableAmount, JobFits, FoundBy, PCs
    <3>. QED
      BY <1>4, <3>1, <3>2, <3>3, AccountWaits DEF AssertPayableAmount
  <2>. QED
    BY <1>3, <1>4, <2>1 DEF AssertPayableAmount
<1>5. CASE PaymentRefused(p)
  BY <1>3, <1>5 DEF PaymentRefused, Refuse
<1>6. CASE RereadPayable(p)
  <2>1. CASE PayableOpen
    <3>1. PICK j : j = [job[p] EXCEPT !.seen = payable]
      OBVIOUS
    <3>2. j \in JobOf(R, T) /\ j.seen = payable /\ j.movement = job[p].movement
      BY <1>1, <2>1, <3>1 DEF JobOf, PayableOpen
    <3>3. JobFits(j, "assert") /\ FoundBy(j, "assert") /\ "assert" \in L
      BY <1>1, <1>2, <2>1, <3>2 DEF JobFits, FoundBy, PCs, PayableOpen
    <3>. QED
      BY <1>6, <2>1, <3>1, <3>2, <3>3, AccountWaits DEF RereadPayable
  <2>2. CASE ~PayableOpen
    BY <1>3, <1>6, <2>2 DEF RereadPayable
  <2>. QED
    BY <2>1, <2>2
<1>7. CASE FindPayment(p)
  <2>1. CASE payments[job[p].row] # None /\ ~payments[job[p].row].reversed
    <3>1. PICK j : j = job[p]
      OBVIOUS
    <3>2. j.row \in Existing(payments)
      BY <1>1, <1>7, <2>1, <3>1 DEF FindPayment, JobFits, TablesTyped, Existing
    <3>3. JobFits(j, "live") /\ FoundBy(j, "live") /\ j \in JobOf(R, T) /\ "live" \in L
      BY <1>1, <1>2, <1>7, <3>1, <3>2 DEF FindPayment, JobFits, FoundBy, PCs
    <3>. QED
      BY <1>7, <2>1, <3>1, <3>3, AccountWaits DEF FindPayment
  <2>2. CASE ~(payments[job[p].row] # None /\ ~payments[job[p].row].reversed)
    BY <1>3, <1>7, <2>2 DEF FindPayment
  <2>. QED
    BY <2>1, <2>2
<1>8. CASE ReadLive(p)
  <2>1. PICK j : j = [job[p] EXCEPT !.sum = SumOf(payments, LivePayments \ {job[p].row})]
    OBVIOUS
  <2>2. SumOf(payments, LivePayments \ {job[p].row}) \in Int
    BY <1>1, LiveType DEF TablesTyped
  <2>3. /\ j \in JobOf(R, T) /\ j.row = job[p].row /\ j.request = job[p].request
        /\ j.seen = job[p].seen /\ j.movement = job[p].movement
    BY <1>1, <2>1, <2>2 DEF JobOf
  <2>4. PICK l \in {"undo", "undoRequest"} :
          /\ pc[p] = (IF l = "undo" THEN "live" ELSE "liveOfRequest")
          /\ pc' = [pc EXCEPT ![p] = l] /\ job' = [job EXCEPT ![p] = j]
    BY <1>8, <2>1 DEF ReadLive
  <2>5. JobFits(j, l) /\ FoundBy(j, l) /\ l \in L
    BY <1>1, <1>2, <2>3, <2>4 DEF JobFits, FoundBy, PCs
  <2>. QED
    BY <1>8, <2>3, <2>4, <2>5, AccountWaits DEF ReadLive
<1>9. CASE Authorize(p)
  <2>1. CASE payable # None /\ payable.status = "PENDING"
    <3>1. PICK j : j = NoJob
      OBVIOUS
    <3>2. /\ j \in JobOf(R, T) /\ "stamp" \in L /\ JobFits(j, "stamp")
          /\ FoundBy(j, "stamp")
      BY <1>2, <3>1 DEF PCs, NoJob, JobOf, JobFits, FoundBy
    <3>. QED
      BY <1>9, <2>1, <3>1, <3>2, AccountWaits DEF Authorize
  <2>2. CASE ~(payable # None /\ payable.status = "PENDING")
    BY <1>3, <1>9, <2>2 DEF Authorize
  <2>. QED
    BY <2>1, <2>2
<1>. QED
  BY <1>4, <1>5, <1>6, <1>7, <1>8, <1>9

\* The statements that write the account's own row, or reverse a payment.
LEMMA AccountColumns ==
  ASSUME NEW R, NEW T, NEW L, Wide(R, T, L), AccountInv(R, T, L), NEW p \in Processes,
         \/ UpdatePayable(p) \/ UpdateTotal(p) \/ Cancel(p) \/ Stamp(p)
         \/ CommitDelete(p) \/ CommitReversal(p)
  PROVE  AccountInv(R, T, L)' /\ payable' \in Payable
<1>. USE DEF Goto, Done
<1>1. /\ job[p] \in JobOf(R, T) /\ JobFits(job[p], pc[p]) /\ FoundBy(job[p], pc[p])
      /\ TablesTyped /\ payable # None /\ payable \in Payable
      /\ job[p].seen # None => job[p].seen \in Payable
  BY AccountJob DEF UpdatePayable, UpdateTotal, Cancel, Stamp, CommitDelete, CommitReversal
<1>a. /\ job[p].amount \in Int /\ job[p].sum \in Int
      /\ job[p].seen # None => job[p].seen.paid \in Int /\ job[p].seen.total \in Int
  BY <1>1 DEF JobOf, Payable
<1>b. ASSUME NEW paid \in Int, NEW balance \in Int, NEW s \in PayableStatuses
      PROVE  [payable EXCEPT !.paid = paid, !.balance = balance, !.status = s] \in Payable
  BY <1>1 DEF Payable
<1>2. /\ pc' = [pc EXCEPT ![p] = "idle"] /\ job' = [job EXCEPT ![p] = NoJob]
  BY DEF UpdatePayable, UpdateTotal, Cancel, Stamp, CommitDelete, CommitReversal
<1>3. ASSUME payable' \in Payable, UNCHANGED <<payments, movements, payReqs, reversals, asked>>
      PROVE  AccountInv(R, T, L)'
  BY <1>1, <1>2, <1>3, ColumnsWritten, AccountWrites
<1>4. CASE UpdatePayable(p)
  <2>1. payable' \in Payable
    <3>1. PICK paid, balance :
            /\ paid = job[p].seen.paid + job[p].amount /\ balance = job[p].seen.total - paid
            /\ payable' = [payable EXCEPT !.paid = paid, !.balance = balance,
                                          !.status = AfterPayment(balance)]
      BY <1>4 DEF UpdatePayable
    <3>2. paid \in Int /\ balance \in Int
      BY <1>1, <1>4, <1>a, <3>1 DEF UpdatePayable, JobFits
    <3>. QED
      BY <1>b, <3>1, <3>2 DEF AfterPayment, PayableStatuses
  <2>. QED
    BY <1>3, <1>4, <2>1 DEF UpdatePayable
<1>5. CASE UpdateTotal(p)
  <2>1. payable' \in Payable
    <3>1. PICK total, balance :
            /\ total = job[p].amount /\ balance = job[p].amount - job[p].seen.paid
            /\ payable' = [payable EXCEPT !.total = total, !.balance = balance]
      BY <1>5 DEF UpdateTotal
    <3>2. total \in Int /\ balance \in Int
      BY <1>1, <1>5, <1>a, <3>1 DEF UpdateTotal, JobFits
    <3>. QED
      BY <1>1, <3>1, <3>2 DEF Payable
  <2>. QED
    BY <1>3, <1>5, <2>1 DEF UpdateTotal
<1>6. CASE Cancel(p) \/ Stamp(p)
  <2>1. payable' \in Payable
    BY <1>1, <1>6 DEF Cancel, Stamp, Payable, PayableStatuses
  <2>. QED
    BY <1>3, <1>6, <2>1 DEF Cancel, Stamp
<1>7. ASSUME NEW t \in Int, Recalculated(p, t) PROVE payable' \in Payable
  <2>1. t - job[p].sum \in Int /\ AfterReversal(job[p].sum) \in PayableStatuses
    BY <1>a DEF AfterReversal, PayableStatuses
  <2>. QED
    BY <1>7, <1>a, <1>b, <2>1 DEF Recalculated
<1>8. CASE CommitDelete(p)
  <2>1. job[p].row \in Existing(payments) /\ job[p].seen \in Payable
    BY <1>1, <1>8 DEF CommitDelete, JobFits, FoundBy
  <2>2. job[p].seen.total \in Int
    BY <2>1 DEF Payable
  <2>3. payable' \in Payable
    BY <1>7, <1>8, <2>2 DEF CommitDelete
  <2>4. ReversePayment(job[p].row) /\ UNCHANGED <<payReqs, asked, reversals>>
    BY <1>8 DEF CommitDelete
  <2>5. TablesTyped' /\ RowsKept /\ MovementsExist' /\ ReversalIsWhole'
    BY <1>1, <2>1, <2>3, <2>4, ReversalWritten
  <2>. QED
    BY <1>2, <2>3, <2>5, AccountWrites
<1>9. CASE CommitReversal(p)
  <2>1. /\ job[p].row \in PaymentOf(job[p].request) /\ job[p].request \in PayRequests
        /\ payable.total \in Int
    BY <1>1, <1>9 DEF CommitReversal, JobFits, FoundBy, JobOf, Payable
  <2>2. /\ job[p].row \in Existing(payments)
        /\ job[p].row \in PaymentOf(payments[job[p].row].request)
        /\ payments[job[p].row].request = job[p].request
    BY <2>1 DEF PaymentOf
  <2>3. payable' \in Payable
    BY <1>7, <1>9, <2>1 DEF CommitReversal
  <2>4. /\ ReversePayment(job[p].row) /\ UNCHANGED <<payReqs, asked>>
        /\ reversals' = [reversals EXCEPT ![payments[job[p].row].request] = "COMPLETED"]
    BY <1>9, <2>2 DEF CommitReversal
  <2>5. TablesTyped' /\ RowsKept /\ MovementsExist' /\ ReversalIsWhole'
    BY <1>1, <2>1, <2>2, <2>3, <2>4, ReversalWritten
  <2>. QED
    BY <1>2, <2>3, <2>5, AccountWrites
<1>. QED
  BY <1>4, <1>5, <1>6, <1>8, <1>9

\* The statements that insert a row, or write that of a request.
LEMMA AccountInserts ==
  ASSUME NEW R, NEW T, NEW L, Wide(R, T, L), AccountInv(R, T, L), NEW p \in Processes,
         \/ InsertMovement(p) \/ InsertPayment(p) \/ CompletePayRequest(p)
         \/ AnswerPayment(p) \/ AnswerReversal(p) \/ AnswerAuth(p)
  PROVE  AccountInv(R, T, L)'
<1>. USE DEF Goto, Done
<1>1. /\ job[p] \in JobOf(R, T) /\ JobFits(job[p], pc[p]) /\ FoundBy(job[p], pc[p])
      /\ TablesTyped /\ MovementsExist /\ ReversalIsWhole
      /\ (payable # None => payable \in Payable)
  BY AccountJob
<1>2. PCs \subseteq L /\ None \in R /\ None \in T
  BY DEF Wide
<1>3. CASE InsertMovement(p)
  <2>1. PICK m \in Movements :
          /\ movements[m] = None
          /\ movements' = [movements EXCEPT ![m] =
                             [amount |-> job[p].amount, source |-> "AP", voided |-> FALSE]]
          /\ pc' = [pc EXCEPT ![p] = "payment"]
          /\ job' = [job EXCEPT ![p] = [job[p] EXCEPT !.movement = m]]
    BY <1>3 DEF InsertMovement, Fresh
  <2>2. PICK j : j = [job[p] EXCEPT !.movement = m]
    OBVIOUS
  <2>3. /\ j \in JobOf(R, T) /\ j.row = job[p].row /\ j.request = job[p].request
        /\ j.seen = job[p].seen /\ j.movement = m
    BY <1>1, <2>2 DEF JobOf
  <2>a. movements'[m] \in Movement
    BY <1>1, <2>1 DEF JobOf, Movement, TablesTyped
  <2>4. movements'[m] \in Movement /\ movements'[m] # None
    BY <2>a, PayablesAssumption
  <2>5. /\ movements' \in [Movements -> Movement \cup {None}]
        /\ Existing(movements') = Existing(movements) \cup {m}
        /\ \A x \in Existing(movements) : x # m /\ movements'[x] = movements[x]
    BY <1>1, <2>1, <2>4 DEF TablesTyped, Existing
  <2>6. UNCHANGED <<payable, payments, payReqs, reversals, asked>>
    BY <1>3 DEF InsertMovement
  <2>7. TablesTyped' /\ RowsKept /\ MovementsExist'
    BY <1>1, <2>5, <2>6 DEF TablesTyped, RowsKept, MovementsExist
  <2>8. ReversalIsWhole'
    BY <1>1, <2>5, <2>6 DEF ReversalIsWhole, ReversedIsVoided, CompletedIsReversed,
                            MovementsExist, PaymentOf
  <2>9. JobFits(j, "payment") /\ FoundBy(j, "payment")' /\ "payment" \in L
    BY <1>1, <1>2, <1>3, <2>3, <2>5 DEF InsertMovement, JobFits, FoundBy, PCs
  <2>. QED
    BY <2>1, <2>2, <2>3, <2>7, <2>8, <2>9, AccountMoves
<1>4. CASE InsertPayment(p)
  <2>1. PICK q \in Payments :
          /\ payments[q] = None
          /\ payments' = [payments EXCEPT ![q] =
                            [amount |-> job[p].amount, movement |-> job[p].movement,
                             request |-> job[p].request, reversed |-> FALSE]]
    BY <1>4 DEF InsertPayment, Fresh
  <2>2. PICK j : j = job[p]
    OBVIOUS
  <2>3. /\ UNCHANGED <<payable, movements, payReqs, reversals, asked>>
        /\ pc' = [pc EXCEPT ![p] = "settle"] /\ job' = [job EXCEPT ![p] = j]
    BY <1>4, <2>2 DEF InsertPayment
  <2>a. payments'[q] \in Payment
    BY <1>1, <2>1 DEF JobOf, Payment, TablesTyped
  <2>4. payments'[q] \in Payment /\ payments'[q] # None
    BY <2>a, PayablesAssumption
  <2>5. /\ payments' \in [Payments -> Payment \cup {None}]
        /\ Existing(payments') = Existing(payments) \cup {q}
        /\ \A x \in Existing(payments) : x # q /\ payments'[x] = payments[x]
        /\ payments'[q].movement = job[p].movement /\ ~payments'[q].reversed
    BY <1>1, <2>1, <2>4 DEF TablesTyped, Existing
  <2>6. TablesTyped' /\ RowsKept
    BY <1>1, <2>3, <2>5 DEF TablesTyped, RowsKept
  <2>7. MovementsExist'
    BY <1>1, <2>3, <2>5 DEF MovementsExist, FoundBy
  <2>8. ReversalIsWhole'
    BY <1>1, <2>3, <2>5 DEF ReversalIsWhole, ReversedIsVoided, CompletedIsReversed, PaymentOf
  <2>9. JobFits(j, "settle") /\ FoundBy(j, "settle")' /\ "settle" \in L /\ j \in JobOf(R, T)
    BY <1>1, <1>2, <1>4, <2>2, <2>3 DEF InsertPayment, JobFits, FoundBy, PCs
  <2>. QED
    BY <2>3, <2>6, <2>7, <2>8, <2>9, AccountMoves
<1>5. ASSUME NEW r \in Existing(payReqs), NEW s \in PayReqStatuses,
             payReqs' = [payReqs EXCEPT ![r].status = s],
             UNCHANGED <<payable, payments, movements, reversals, asked>>
      PROVE  TablesTyped' /\ RowsKept /\ MovementsExist' /\ ReversalIsWhole'
  <2>1. r \in PayRequests /\ payReqs[r] \in PayReq /\ payReqs'[r] \in PayReq
    BY <1>1, <1>5 DEF TablesTyped, Existing, PayReq
  <2>2. payReqs'[r] # None
    BY <2>1, PayablesAssumption
  <2>3. payReqs' \in [PayRequests -> PayReq \cup {None}] /\ Existing(payReqs') = Existing(payReqs)
    BY <1>1, <1>5, <2>1, <2>2 DEF TablesTyped, Existing
  <2>. QED
    BY <1>1, <1>5, <2>3, BoundKept DEF TablesTyped, RowsKept
<1>6. CASE CompletePayRequest(p)
  <2>1. PICK j : j = job[p]
    OBVIOUS
  <2>2. /\ job[p].request \in Existing(payReqs) /\ "COMPLETED" \in PayReqStatuses
        /\ payReqs' = [payReqs EXCEPT ![job[p].request].status = "COMPLETED"]
        /\ UNCHANGED <<payable, payments, movements, reversals, asked>>
    BY <1>1, <1>6 DEF CompletePayRequest, FoundBy, PayReqStatuses
  <2>3. TablesTyped' /\ RowsKept /\ MovementsExist' /\ ReversalIsWhole'
    BY <1>5, <2>2
  <2>4. JobFits(j, "reread") /\ FoundBy(j, "reread")' /\ "reread" \in L /\ j \in JobOf(R, T)
    BY <1>1, <1>2, <2>1, <2>2 DEF JobFits, FoundBy, PCs, Existing
  <2>. QED
    BY <1>6, <2>1, <2>3, <2>4, AccountMoves DEF CompletePayRequest
<1>7. CASE AnswerPayment(p)
  <2>1. /\ job[p].request \in Existing(payReqs) /\ job[p].to \in PayReqStatuses
        /\ payReqs' = [payReqs EXCEPT ![job[p].request].status = job[p].to]
        /\ UNCHANGED <<payable, payments, movements, reversals, asked>>
    BY <1>1, <1>7 DEF AnswerPayment, FoundBy, JobFits
  <2>2. TablesTyped' /\ RowsKept /\ MovementsExist' /\ ReversalIsWhole'
    BY <1>5, <2>1
  <2>. QED
    BY <1>7, <2>2, AccountWrites DEF AnswerPayment
<1>8. CASE AnswerReversal(p)
  <2>1. /\ job[p].request \in PayRequests /\ job[p].to \in ReversalStatuses \ {"COMPLETED"}
        /\ reversals' = [reversals EXCEPT ![job[p].request] = job[p].to]
        /\ UNCHANGED <<payable, payments, movements, payReqs, asked>>
    BY <1>1, <1>8 DEF AnswerReversal, JobFits, JobOf
  <2>2. TablesTyped' /\ RowsKept
    BY <1>1, <2>1 DEF TablesTyped, RowsKept, Existing
  <2>3. MovementsExist' /\ ReversalIsWhole'
    BY <1>1, <2>1 DEF TablesTyped, MovementsExist, ReversalIsWhole, ReversedIsVoided,
                      CompletedIsReversed, PaymentOf, Existing
  <2>. QED
    BY <1>8, <2>2, <2>3, AccountWrites DEF AnswerReversal
<1>9. CASE AnswerAuth(p)
  <2>1. /\ job[p].row \in Users /\ job[p].to \in Answers
        /\ asked' = [asked EXCEPT ![job[p].row] = job[p].to]
        /\ UNCHANGED <<payable, payments, movements, payReqs, reversals>>
    BY <1>1, <1>9 DEF AnswerAuth, JobFits
  <2>2. TablesTyped' /\ RowsKept /\ MovementsExist' /\ ReversalIsWhole'
    BY <1>1, <2>1, BoundKept DEF TablesTyped, RowsKept, Existing
  <2>3. CASE job[p].to = "APPROVED"
    <3>1. PICK j : j = NoJob
      OBVIOUS
    <3>2. /\ j \in JobOf(R, T) /\ "authorize" \in L /\ JobFits(j, "authorize")
          /\ FoundBy(j, "authorize")'
      BY <1>2, <3>1 DEF PCs, NoJob, JobOf, JobFits, FoundBy
    <3>. QED
      BY <1>9, <2>2, <2>3, <3>1, <3>2, AccountMoves DEF AnswerAuth
  <2>4. CASE job[p].to # "APPROVED"
    BY <1>9, <2>2, <2>4, AccountWrites DEF AnswerAuth
  <2>. QED
    BY <2>3, <2>4
<1>. QED
  BY <1>3, <1>4, <1>6, <1>7, <1>8, <1>9

\* The operations of one statement.
LEMMA AccountAtOnce ==
  ASSUME NEW R, NEW T, NEW L, AccountInv(R, T, L), Others
  PROVE  AccountInv(R, T, L)'
<1>1. TablesTyped /\ MovementsExist /\ ReversalIsWhole /\ UNCHANGED <<pc, job>>
  BY DEF AccountInv, Typed, Others, CreatePayRequest, CreateReversal, CreateAuthRequest,
         MarkOverdue, VoidMovement, AtOnce
<1>2. ASSUME TablesTyped', RowsKept, MovementsExist', ReversalIsWhole'
      PROVE  AccountInv(R, T, L)'
  <2>1. RowsFound'
    BY <1>1, <1>2 DEF AccountInv, RowsFound, FoundBy, RowsKept, PaymentOf
  <2>. QED
    BY <1>1, <1>2, <2>1 DEF AccountInv, Typed, JobFollowsControl
<1>3. CASE CreatePayRequest
  <2>1. PICK u \in Users, a \in Amounts, r \in PayRequests :
          /\ payReqs[r] = None
          /\ payReqs' = [payReqs EXCEPT ![r] = [user |-> u, amount |-> a, status |-> "PENDING"]]
    BY <1>3 DEF CreatePayRequest, Fresh
  <2>2. payReqs'[r] \in PayReq
    BY <1>1, <2>1, PayablesAssumption DEF TablesTyped, PayReq, PayReqStatuses
  <2>3. /\ payReqs' \in [PayRequests -> PayReq \cup {None}]
        /\ Existing(payReqs) \subseteq Existing(payReqs')
    BY <1>1, <2>1, <2>2, PayablesAssumption DEF TablesTyped, Existing
  <2>4. UNCHANGED <<payable, payments, movements, reversals, asked>>
    BY <1>3 DEF CreatePayRequest
  <2>. QED
    BY <1>1, <1>2, <2>3, <2>4, BoundKept DEF TablesTyped, RowsKept
<1>4. CASE CreateReversal
  <2>1. PICK r \in PayRequests :
          reversals' = [reversals EXCEPT ![r] = "PENDING_GERENCIA"]
    BY <1>1, <1>4 DEF CreateReversal, Existing, TablesTyped
  <2>2. UNCHANGED <<payable, payments, movements, payReqs, asked>>
    BY <1>4 DEF CreateReversal
  <2>3. TablesTyped' /\ RowsKept
    BY <1>1, <2>1, <2>2 DEF TablesTyped, RowsKept, Existing, ReversalStatuses
  <2>4. MovementsExist' /\ ReversalIsWhole'
    BY <1>1, <2>1, <2>2 DEF TablesTyped, MovementsExist, ReversalIsWhole, ReversedIsVoided,
                            CompletedIsReversed, PaymentOf, Existing
  <2>. QED
    BY <1>2, <2>3, <2>4
<1>5. CASE CreateAuthRequest
  <2>1. PICK u \in Users : asked' = [asked EXCEPT ![u] = "PENDING"]
    BY <1>5 DEF CreateAuthRequest
  <2>2. UNCHANGED <<payable, payments, movements, payReqs, reversals>>
    BY <1>5 DEF CreateAuthRequest
  <2>3. TablesTyped' /\ RowsKept
    BY <1>1, <2>1, <2>2 DEF TablesTyped, RowsKept, Existing, Answers
  <2>. QED
    BY <1>1, <1>2, <2>2, <2>3, BoundKept
<1>6. CASE MarkOverdue
  <2>1. payable # None /\ payable' \in Payable
    BY <1>1, <1>6 DEF MarkOverdue, TablesTyped, Payable, PayableStatuses
  <2>2. TablesTyped' /\ RowsKept /\ MovementsExist' /\ ReversalIsWhole'
    BY <1>6, <2>1, ColumnsWritten DEF MarkOverdue
  <2>. QED
    BY <1>2, <2>2
<1>7. CASE VoidMovement
  <2>1. PICK m \in Existing(movements) : movements' = [movements EXCEPT ![m].voided = TRUE]
    BY <1>7 DEF VoidMovement
  <2>2. m \in Movements /\ movements[m] \in Movement /\ movements'[m] \in Movement
    BY <1>1, <2>1 DEF TablesTyped, Existing, Movement
  <2>3. movements'[m] # None
    BY <2>2, PayablesAssumption
  <2>4. /\ movements' \in [Movements -> Movement \cup {None}]
        /\ Existing(movements') = Existing(movements)
        /\ \A x \in Existing(movements) : movements[x].voided => movements'[x].voided
    BY <1>1, <2>1, <2>2, <2>3 DEF TablesTyped, Existing, Movement
  <2>5. UNCHANGED <<payable, payments, payReqs, reversals, asked>>
    BY <1>7 DEF VoidMovement
  <2>6. TablesTyped' /\ RowsKept /\ MovementsExist'
    BY <1>1, <2>4, <2>5 DEF TablesTyped, RowsKept, MovementsExist
  <2>7. ReversalIsWhole'
    BY <1>1, <2>4, <2>5 DEF ReversalIsWhole, ReversedIsVoided, CompletedIsReversed,
                            MovementsExist, PaymentOf
  <2>. QED
    BY <1>2, <2>6, <2>7
<1>. QED
  BY <1>3, <1>4, <1>5, <1>6, <1>7 DEF Others

\* Every step of the account keeps its invariant, for an expense order too.
LEMMA AccountKept ==
  ASSUME NEW R, NEW T, NEW L, Wide(R, T, L), AccountInv(R, T, L), Next
  PROVE  AccountInv(R, T, L)'
<1>1. ASSUME NEW p \in Processes, Fail(p) PROVE AccountInv(R, T, L)'
  BY <1>1, AccountEnds DEF Fail
<1>2. ASSUME NEW p \in Processes, Step(p) PROVE AccountInv(R, T, L)'
  BY <1>2, AccountReads, AccountColumns, AccountInserts DEF Step
<1>. QED
  BY <1>1, <1>2, AccountBegins, AccountAtOnce DEF Next

-----------------------------------------------------------------------------
(* The account alone: its types, and whole reversals.                      *)

AccountRows == Payments \cup PayRequests \cup Users \cup {None}
AccountTargets == PayReqStatuses \cup ReversalStatuses \cup Answers \cup {None}

\* The account alone is the smallest case.
LEMMA AccountIsWide == Wide(AccountRows, AccountTargets, PCs)
BY DEF Wide, AccountRows, AccountTargets

\* The types of the account without an order are those of AccountInv, and the bounds.
LEMMA AccountTypes ==
  TypeOK <=> /\ Typed(AccountRows, AccountTargets, PCs)
             /\ starts \in 0..MaxStarts /\ races \in 0..MaxRaces /\ failures \in 0..MaxFailures
BY DEF TypeOK, Typed, TablesTyped, Job, JobOf, AccountRows, AccountTargets

\* Operations are counted up to their bounds.
LEMMA Bounded ==
  ASSUME Next, starts \in 0..MaxStarts, races \in 0..MaxRaces, failures \in 0..MaxFailures
  PROVE  /\ starts' \in 0..MaxStarts /\ races' \in 0..MaxRaces /\ failures' \in 0..MaxFailures
         /\ races' >= races /\ failures' >= failures
<1>. USE PayablesAssumption
<1>1. ASSUME NEW kind, Counted(kind)
      PROVE  /\ starts' \in 0..MaxStarts /\ races' \in 0..MaxRaces /\ races' >= races
             /\ UNCHANGED failures
  BY <1>1 DEF Counted
<1>2. CASE Others
  BY <1>1, <1>2 DEF Others, CreatePayRequest, CreateReversal, CreateAuthRequest, MarkOverdue,
                    VoidMovement, AtOnce
<1>3. ASSUME NEW p \in Processes, Start(p)
      PROVE  \E kind : Counted(kind)
  BY <1>3 DEF Start, StartRegisterPayment, StartCajaApprovePayment, StartAnswerPayment,
       StartDeletePayment, StartAnswerReversal, StartCajaApproveReversal, StartUpdateTotal,
       StartCancel, StartAnswerAuth, StartAuthorize, Begin
<1>4. ASSUME NEW p \in Processes, Step(p) PROVE UNCHANGED bounds
  <2>. USE DEF Goto, Done, Refuse
  <2>1. CASE AssertPayableAmount(p) \/ InsertMovement(p) \/ InsertPayment(p)
             \/ PaymentRefused(p) \/ UpdatePayable(p)
    BY <2>1 DEF AssertPayableAmount, InsertMovement, InsertPayment, PaymentRefused, UpdatePayable
  <2>2. CASE CompletePayRequest(p) \/ RereadPayable(p) \/ AnswerPayment(p) \/ FindPayment(p)
             \/ ReadLive(p)
    BY <2>2 DEF CompletePayRequest, RereadPayable, AnswerPayment, FindPayment, ReadLive
  <2>3. CASE CommitDelete(p) \/ AnswerReversal(p) \/ CommitReversal(p) \/ UpdateTotal(p)
             \/ Cancel(p)
    BY <2>3 DEF CommitDelete, AnswerReversal, CommitReversal, UpdateTotal, Cancel
  <2>4. CASE AnswerAuth(p) \/ Authorize(p) \/ Stamp(p)
    BY <2>4 DEF AnswerAuth, Authorize, Stamp
  <2>. QED
    BY <1>4, <2>1, <2>2, <2>3, <2>4 DEF Step
<1>5. CASE \E p \in Processes : Fail(p)
  BY <1>5 DEF Fail
<1>6. CASE UNCHANGED bounds
  BY <1>6 DEF bounds
<1>. QED
  BY <1>1, <1>2, <1>3, <1>4, <1>5, <1>6 DEF Next

\* A new account has no row that refers to it.
LEMMA AccountStarted ==
  ASSUME Init
  PROVE  TypeOK /\ AccountInv(AccountRows, AccountTargets, PCs)
<1>1. payable \in Payable
  <2>1. PICK t \in Totals, b \in Totals :
          payable = [status |-> "PENDING", total |-> t, paid |-> 0, balance |-> b]
    BY DEF Init
  <2>2. t \in Int /\ b \in Int
    BY PayablesAssumption
  <2>. QED
    BY <2>1, <2>2 DEF Payable, PayableStatuses
<1>. USE DEF Init
<1>2. NoJob \in JobOf(AccountRows, AccountTargets) /\ "idle" \in PCs
  BY DEF NoJob, JobOf, AccountRows, AccountTargets, PCs
<1>3. /\ Typed(AccountRows, AccountTargets, PCs)
      /\ starts \in 0..MaxStarts /\ races \in 0..MaxRaces /\ failures \in 0..MaxFailures
  BY <1>1, <1>2, PayablesAssumption DEF Typed, TablesTyped
<1>4. Existing(payments) = {} /\ Existing(movements) = {}
  BY DEF Existing
<1>5. JobFollowsControl /\ RowsFound
  BY DEF JobFollowsControl, RowsFound, JobFits, FoundBy, NoJob
<1>6. MovementsExist /\ ReversedIsVoided
  BY <1>4 DEF MovementsExist, ReversedIsVoided
<1>7. CompletedIsReversed
  BY PayablesAssumption DEF CompletedIsReversed, ReversalStatuses
<1>. QED
  BY <1>3, <1>5, <1>6, <1>7, AccountTypes DEF AccountInv, ReversalIsWhole

\* Every step of the account alone keeps its types and its invariant.
LEMMA AccountStays ==
  ASSUME TypeOK, AccountInv(AccountRows, AccountTargets, PCs), [Next]_vars
  PROVE  TypeOK' /\ AccountInv(AccountRows, AccountTargets, PCs)'
<1>1. CASE Next
  <2>1. AccountInv(AccountRows, AccountTargets, PCs)'
    BY <1>1, AccountIsWide, AccountKept
  <2>2. /\ starts' \in 0..MaxStarts /\ races' \in 0..MaxRaces /\ failures' \in 0..MaxFailures
    BY <1>1, AccountTypes, Bounded
  <2>3. Typed(AccountRows, AccountTargets, PCs)'
    BY <2>1 DEF AccountInv
  <2>4. TypeOK'
    BY <2>2, <2>3 DEF TypeOK, Typed, TablesTyped, Job, JobOf, AccountRows, AccountTargets
  <2>. QED
    BY <2>1, <2>4
<1>2. CASE UNCHANGED vars
  BY <1>2 DEF vars, rows, bounds, TypeOK, AccountInv, Typed, TablesTyped, JobFollowsControl,
              RowsFound, FoundBy, MovementsExist, ReversalIsWhole, ReversedIsVoided,
              CompletedIsReversed, PaymentOf, Existing
<1>. QED
  BY <1>1, <1>2

\* Whatever races and dies, an account keeps its types, and what it refers to exists.
THEOREM AccountInvariant == Spec => [](TypeOK /\ AccountInv(AccountRows, AccountTargets, PCs))
<1>1. Init => TypeOK /\ AccountInv(AccountRows, AccountTargets, PCs)
  BY AccountStarted
<1>2. /\ TypeOK /\ AccountInv(AccountRows, AccountTargets, PCs) /\ [Next]_vars
      => TypeOK' /\ AccountInv(AccountRows, AccountTargets, PCs)'
  BY AccountStays
<1>. QED
  BY <1>1, <1>2, PTL DEF Spec

\* The tables of an account and its requests keep their types.
THEOREM PayableTypes == Spec => []TypeOK
BY AccountInvariant, PTL

\* A payment is never reversed while its money counts as gone, and a completed
\* request has its payment reversed, whatever races with it.
THEOREM WholeReversals == Spec => []ReversalIsWhole
<1>1. AccountInv(AccountRows, AccountTargets, PCs) => ReversalIsWhole
  BY DEF AccountInv
<1>. QED
  BY <1>1, AccountInvariant, PTL

-----------------------------------------------------------------------------
(* The account, requests one at a time: what an operation read is still so. *)

\* A sum over a table depends on the amounts of the rows summed alone.
LEMMA SumOfSame ==
  ASSUME NEW S, IsFiniteSet(S), NEW t, NEW u,
         \A y \in S : t[y].amount \in Int /\ u[y].amount = t[y].amount
  PROVE  SumOf(u, S) = SumOf(t, S)
<1>. DEFINE f == [y \in S |-> t[y].amount]
            g == [y \in S |-> u[y].amount]
<1>1. SumFunctionOnSet(g, S) = SumFunctionOnSet(f, S)
  BY SumAgree
<1>. QED
  BY <1>1 DEF SumOf, SumFunction

\* One more row adds its amount.
LEMMA SumOfWith ==
  ASSUME NEW S, IsFiniteSet(S), NEW x, x \notin S, NEW t, NEW u, u[x].amount \in Int,
         \A y \in S : t[y].amount \in Int /\ u[y].amount = t[y].amount
  PROVE  SumOf(u, S \cup {x}) = u[x].amount + SumOf(t, S)
<1>. DEFINE f == [y \in S |-> t[y].amount]
            g == [y \in S \cup {x} |-> u[y].amount]
<1>1. SumFunctionOnSet(g, S \cup {x}) = g[x] + SumFunctionOnSet(g, S)
  BY SumAdd
<1>2. SumFunctionOnSet(g, S) = SumFunctionOnSet(f, S)
  BY SumAgree
<1>. QED
  BY <1>1, <1>2 DEF SumOf, SumFunction

\* Nothing adds up to zero.
LEMMA SumOfNothing == ASSUME NEW t PROVE SumOf(t, {}) = 0
BY SumEmpty DEF SumOf, SumFunction

\* Nothing is running when an operation starts that is no race.
LEMMA StartsAlone ==
  ASSUME CalmInv, Next, Calm', NEW kind, Counted(kind),
         TypeOK
  PROVE  Calm /\ OneStory /\ Running = {}
<1>1. races \in Nat /\ failures \in Nat
  BY PayablesAssumption DEF TypeOK
<1>2. Calm /\ Running = {}
  BY <1>1 DEF Counted, Calm
<1>. QED
  BY <1>2 DEF CalmInv

\* One process takes a step, alone: what is asked of its new job and of the rows.
LEMMA StoryMoves ==
  ASSUME TypeOK, NEW p \in Processes, Running \subseteq {p}, NEW l, NEW j,
         pc' = [pc EXCEPT ![p] = l], job' = [job EXCEPT ![p] = j],
         OwnMovements', AmountsPositive', RequestsPaid', ColumnsAgree',
         l # "settle" => payable'.paid = LiveSum',
         \A m \in Existing(movements') :
           ~movements'[m].voided =>
             \/ \E q \in LivePayments' : /\ payments'[q].movement = m
                                         /\ payments'[q].amount = movements'[m].amount
             \/ l = "payment" /\ j.movement = m,
         StillAsRead(j, l)'
  PROVE  OneStory'
<1>1. /\ pc'[p] = l /\ job'[p] = j
      /\ \A x \in Processes : x # p => pc'[x] = "idle" /\ job'[x] = job[x]
  BY DEF TypeOK, Running
<1>2. MovementsSpoken'
  BY <1>1 DEF MovementsSpoken
<1>3. (\A x \in Processes : pc'[x] # "settle") => payable'.paid = LiveSum'
  BY <1>1
<1>4. ASSUME NEW x \in Processes PROVE StillAsRead(job[x], pc[x])'
  <2>1. CASE x = p
    <3>1. job'[x] = j /\ pc'[x] = l
      BY <1>1, <2>1
    <3>. QED
      BY <3>1 DEF StillAsRead, PaymentOf, SumOf
  <2>2. CASE x # p
    BY <1>1, <2>2 DEF StillAsRead
  <2>. QED
    BY <2>1, <2>2
<1>. QED
  BY <1>2, <1>3, <1>4 DEF OneStory

\* The same where the rows stay as they are, and no payment is being inserted.
LEMMA StoryWaits ==
  ASSUME TypeOK, OneStory, NEW p \in Processes, Running \subseteq {p}, NEW l, NEW j,
         pc' = [pc EXCEPT ![p] = l], job' = [job EXCEPT ![p] = j], UNCHANGED rows,
         pc[p] \notin {"payment", "settle"}, StillAsRead(j, l)
  PROVE  OneStory'
<1>. USE DEF rows
<1>1. OwnMovements' /\ AmountsPositive' /\ RequestsPaid' /\ ColumnsAgree'
  BY DEF OneStory, OwnMovements, AmountsPositive, RequestsPaid, ColumnsAgree, Existing
<1>2. LiveSum' = LiveSum /\ LivePayments' = LivePayments
  BY DEF LiveSum, LivePayments, SumOf, Existing
<1>3. payable'.paid = LiveSum'
  BY <1>2 DEF OneStory, Running
<1>4. \A m \in Existing(movements') :
        ~movements'[m].voided =>
          \E q \in LivePayments' : /\ payments'[q].movement = m
                                   /\ payments'[q].amount = movements'[m].amount
  BY <1>2 DEF OneStory, MovementsSpoken, Running, Existing
<1>5. StillAsRead(j, l)'
  BY <1>2 DEF StillAsRead, PayableOpen, PaymentOf, Existing, SumOf, LiveSum, LivePayments
<1>. QED
  BY <1>1, <1>3, <1>4, <1>5, StoryMoves

\* An operation begins, alone: what it read is still so.
LEMMA StoryBegins ==
  ASSUME TypeOK, CalmInv, Calm', NEW p \in Processes, Start(p), Next
  PROVE  OneStory'
<1>. USE DEF Begin
<1>1. ASSUME NEW kind, Counted(kind) PROVE OneStory /\ Running = {}
  BY <1>1, StartsAlone
<1>2. ASSUME OneStory, Running = {}, NEW l, NEW j,
             pc' = [pc EXCEPT ![p] = l], job' = [job EXCEPT ![p] = j], UNCHANGED rows,
             StillAsRead(j, l)
      PROVE  OneStory'
  BY <1>2, StoryWaits DEF Running
<1>3. ASSUME NEW kind, NEW l, NEW j, Begin(p, kind, j, l),
             (OneStory /\ Running = {}) => StillAsRead(j, l)
      PROVE  OneStory'
  BY <1>1, <1>2, <1>3
<1>4. CASE StartRegisterPayment(p)
  <2>1. PICK a \in Amounts :
          Begin(p, "registerPayment", [NoJob EXCEPT !.amount = a, !.seen = payable], "assert")
    BY <1>4 DEF StartRegisterPayment
  <2>2. PICK j : j = [NoJob EXCEPT !.amount = a, !.seen = payable]
    OBVIOUS
  <2>3. /\ j.amount = a /\ a > 0 /\ j.seen = payable /\ j.movement = None /\ j.request = None
    BY <2>2, PayablesAssumption DEF NoJob
  <2>4. StillAsRead(j, "assert")
    BY <1>4, <2>3 DEF StartRegisterPayment, StillAsRead
  <2>. QED
    BY <1>3, <2>1, <2>2, <2>4
<1>5. CASE StartCajaApprovePayment(p)
  <2>1. PICK r \in Existing(payReqs) :
          /\ payReqs[r].status = "ADMIN_APPROVED"
          /\ Begin(p, "payRequest", [NoJob EXCEPT !.request = r, !.amount = payReqs[r].amount],
                   "complete")
    BY <1>5 DEF StartCajaApprovePayment
  <2>2. PICK j : j = [NoJob EXCEPT !.request = r, !.amount = payReqs[r].amount]
    OBVIOUS
  <2>3. j.amount = payReqs[r].amount /\ j.movement = None /\ j.request = r
    BY <2>2 DEF NoJob
  <2>4. OneStory => StillAsRead(j, "complete")
    BY <2>1, <2>3 DEF StillAsRead, OneStory, AmountsPositive
  <2>. QED
    BY <1>3, <2>1, <2>2, <2>4
<1>6. CASE StartAnswerPayment(p)
  <2>1. PICK r \in Existing(payReqs), answer \in PayReqAnswers :
          /\ payReqs[r].status = answer[1]
          /\ Begin(p, "payRequest", [NoJob EXCEPT !.request = r, !.to = answer[2]],
                   "answerPayment")
    BY <1>6 DEF StartAnswerPayment
  <2>2. PICK j : j = [NoJob EXCEPT !.request = r, !.to = answer[2]]
    OBVIOUS
  <2>3. answer[1] # "COMPLETED" /\ j.request = r
    BY <2>2 DEF PayReqAnswers, NoJob
  <2>4. StillAsRead(j, "answerPayment")
    BY <2>1, <2>3 DEF StillAsRead
  <2>. QED
    BY <1>3, <2>1, <2>2, <2>4
<1>7. CASE StartDeletePayment(p)
  <2>1. PICK q \in Existing(payments) :
          Begin(p, "deletePayment", [NoJob EXCEPT !.row = q, !.seen = payable], "find")
    BY <1>7 DEF StartDeletePayment
  <2>2. PICK j : j = [NoJob EXCEPT !.row = q, !.seen = payable]
    OBVIOUS
  <2>3. StillAsRead(j, "find")
    BY <2>2 DEF StillAsRead, NoJob
  <2>. QED
    BY <1>3, <2>1, <2>2, <2>3
<1>8. CASE StartCajaApproveReversal(p)
  <2>1. PICK r \in Existing(reversals), q \in Existing(payments) :
          /\ ~payments[q].reversed
          /\ Begin(p, "reversal", [NoJob EXCEPT !.row = q, !.request = r], "liveOfRequest")
    BY <1>8 DEF StartCajaApproveReversal
  <2>2. PICK j : j = [NoJob EXCEPT !.row = q, !.request = r]
    OBVIOUS
  <2>3. StillAsRead(j, "liveOfRequest")
    BY <2>1, <2>2 DEF StillAsRead, NoJob, LivePayments
  <2>. QED
    BY <1>3, <2>1, <2>2, <2>3
<1>9. CASE StartUpdateTotal(p)
  <2>1. PICK t \in Totals :
          Begin(p, "update", [NoJob EXCEPT !.amount = t, !.seen = payable], "total")
    BY <1>9 DEF StartUpdateTotal
  <2>2. PICK j : j = [NoJob EXCEPT !.amount = t, !.seen = payable]
    OBVIOUS
  <2>3. j.amount > 0 /\ j.seen = payable
    BY <2>2, PayablesAssumption DEF NoJob
  <2>4. StillAsRead(j, "total")
    BY <1>9, <2>3 DEF StillAsRead, StartUpdateTotal
  <2>. QED
    BY <1>3, <2>1, <2>2, <2>4
<1>10. CASE StartAnswerReversal(p)
  <2>1. PICK j : \E kind : Begin(p, kind, j, "answerReversal")
    BY <1>10 DEF StartAnswerReversal
  <2>2. StillAsRead(j, "answerReversal")
    BY DEF StillAsRead
  <2>. QED
    BY <1>3, <2>1, <2>2
<1>11. CASE StartAnswerAuth(p)
  <2>1. PICK j : \E kind : Begin(p, kind, j, "answerAuth")
    BY <1>11 DEF StartAnswerAuth
  <2>2. StillAsRead(j, "answerAuth")
    BY DEF StillAsRead
  <2>. QED
    BY <1>3, <2>1, <2>2
<1>12. CASE StartCancel(p)
  <2>1. PICK j : Begin(p, "cancel", j, "cancel")
    BY <1>12 DEF StartCancel
  <2>2. StillAsRead(j, "cancel")
    BY <1>12 DEF StartCancel, StillAsRead
  <2>. QED
    BY <1>3, <2>1, <2>2
<1>13. CASE StartAuthorize(p)
  <2>1. PICK j : Begin(p, "authorize", j, "authorize")
    BY <1>13 DEF StartAuthorize
  <2>2. StillAsRead(j, "authorize")
    BY DEF StillAsRead
  <2>. QED
    BY <1>3, <2>1, <2>2
<1>. QED
  BY <1>4, <1>5, <1>6, <1>7, <1>8, <1>9, <1>10, <1>11, <1>12, <1>13 DEF Start

\* The operations of one statement, alone.
LEMMA StoryAtOnce ==
  ASSUME TypeOK, CalmInv, Calm', Others, Next
  PROVE  OneStory'
<1>1. OneStory /\ Running = {}
  BY StartsAlone DEF Others, CreatePayRequest, CreateReversal, CreateAuthRequest,
                     MarkOverdue, VoidMovement, AtOnce
<1>2. UNCHANGED <<payments, pc, job>> /\ \A p \in Processes : pc[p] = "idle"
  BY <1>1 DEF Others, CreatePayRequest, CreateReversal, CreateAuthRequest,
              MarkOverdue, VoidMovement, AtOnce, Running
<1>3. LiveSum' = LiveSum /\ LivePayments' = LivePayments
  BY <1>2 DEF LiveSum, LivePayments, SumOf, Existing
<1>4. \A p \in Processes : StillAsRead(job[p], pc[p])'
  BY <1>2 DEF StillAsRead
<1>5. ASSUME OwnMovements', AmountsPositive', RequestsPaid', ColumnsAgree',
             payable'.paid = payable.paid, MovementsSpoken'
      PROVE  OneStory'
  <2>1. payable'.paid = LiveSum'
    BY <1>1, <1>2, <1>3, <1>5 DEF OneStory
  <2>. QED
    BY <1>4, <1>5, <2>1 DEF OneStory
<1>6. CASE UNCHANGED <<payable, movements, payReqs>>
  BY <1>1, <1>2, <1>3, <1>5, <1>6 DEF OneStory, OwnMovements, AmountsPositive, RequestsPaid,
     ColumnsAgree, MovementsSpoken, Existing
<1>7. CASE CreateReversal \/ CreateAuthRequest
  BY <1>6, <1>7 DEF CreateReversal, CreateAuthRequest
<1>8. CASE CreatePayRequest
  <2>1. PICK u \in Users, a \in Amounts, r \in PayRequests :
          /\ payReqs[r] = None
          /\ payReqs' = [payReqs EXCEPT ![r] = [user |-> u, amount |-> a, status |-> "PENDING"]]
    BY <1>8 DEF CreatePayRequest, Fresh
  <2>2. UNCHANGED <<payable, movements>>
    BY <1>8 DEF CreatePayRequest
  <2>3. /\ payReqs'[r].amount = a /\ a > 0
        /\ \A x \in Existing(payReqs) : x # r /\ payReqs'[x] = payReqs[x]
    BY <2>1, PayablesAssumption DEF TypeOK, Existing
  <2>4. /\ Existing(payReqs') \subseteq Existing(payReqs) \cup {r}
        /\ Existing(payReqs) \subseteq Existing(payReqs')
    BY <2>1, <2>3 DEF TypeOK, Existing
  <2>5. OwnMovements' /\ ColumnsAgree' /\ MovementsSpoken'
    BY <1>1, <1>2, <1>3, <2>2 DEF OneStory, OwnMovements, ColumnsAgree, MovementsSpoken, Existing
  <2>6. AmountsPositive'
    BY <1>1, <1>2, <2>3, <2>4 DEF OneStory, AmountsPositive
  <2>7. RequestsPaid'
    BY <1>1, <1>2, <2>3, <2>4 DEF OneStory, RequestsPaid
  <2>. QED
    BY <1>5, <2>2, <2>5, <2>6, <2>7
<1>9. CASE MarkOverdue
  <2>1. /\ payable # None /\ payable' = [payable EXCEPT !.status = "OVERDUE"]
        /\ payable.status # "PAID" /\ payable \in Payable
        /\ UNCHANGED <<movements, payReqs>>
    BY <1>9 DEF MarkOverdue, TypeOK
  <2>2. payable' \in Payable
    BY <2>1 DEF Payable, PayableStatuses
  <2>3. payable' # None
    BY <2>2, PayablesAssumption
  <2>4. ColumnsAgree' /\ payable'.paid = payable.paid
    BY <1>1, <2>1 DEF OneStory, ColumnsAgree, Payable
  <2>5. OwnMovements' /\ AmountsPositive' /\ RequestsPaid' /\ MovementsSpoken'
    BY <1>1, <1>2, <1>3, <2>1, <2>3 DEF OneStory, OwnMovements, AmountsPositive, RequestsPaid,
       MovementsSpoken, Existing
  <2>. QED
    BY <1>5, <2>4, <2>5
<1>10. CASE VoidMovement
  <2>1. PICK m \in Existing(movements) : movements' = [movements EXCEPT ![m].voided = TRUE]
    BY <1>10 DEF VoidMovement
  <2>2. UNCHANGED <<payable, payReqs>>
    BY <1>10 DEF VoidMovement
  <2>3. \A x \in Existing(movements') :
          /\ x \in Existing(movements) /\ movements'[x].source = movements[x].source
          /\ movements'[x].amount = movements[x].amount
          /\ ~movements'[x].voided => ~movements[x].voided
    BY <2>1 DEF TypeOK, Existing, Movement
  <2>4. OwnMovements' /\ MovementsSpoken'
    BY <1>1, <1>2, <1>3, <2>2, <2>3 DEF OneStory, OwnMovements, MovementsSpoken
  <2>5. AmountsPositive' /\ RequestsPaid' /\ ColumnsAgree'
    BY <1>1, <1>2, <2>2 DEF OneStory, AmountsPositive, RequestsPaid, ColumnsAgree, Existing
  <2>. QED
    BY <1>5, <2>2, <2>4, <2>5
<1>. QED
  BY <1>7, <1>8, <1>9, <1>10 DEF Others

-----------------------------------------------------------------------------
(* The statements of a payment, of a reversal and of the rest, one at a time. *)

\* A process takes a step alone.
Alone(p) == /\ TypeOK /\ AccountInv(AccountRows, AccountTargets, PCs) /\ OneStory
            /\ Running \subseteq {p}

\* What a running process found, and that nothing is owed to another's step.
LEMMA AloneFacts ==
  ASSUME NEW p \in Processes, Alone(p)
  PROVE  /\ StillAsRead(job[p], pc[p]) /\ JobFits(job[p], pc[p]) /\ FoundBy(job[p], pc[p])
         /\ payable \in Payable /\ payable # None /\ TablesTyped
         /\ pc[p] # "settle" => payable.paid = LiveSum
         /\ pc[p] # "payment" =>
              \A m \in Existing(movements) :
                ~movements[m].voided =>
                  \E q \in LivePayments : /\ payments[q].movement = m
                                          /\ payments[q].amount = movements[m].amount
         /\ job[p] \in JobOf(AccountRows, AccountTargets)
BY AccountJob DEF Alone, OneStory, OwnMovements, MovementsSpoken, Running, AccountInv, Typed

\* The row of the account alone is written, and its columns agree.
LEMMA StoryColumns ==
  ASSUME NEW p \in Processes, Alone(p), pc[p] # "payment",
         pc' = [pc EXCEPT ![p] = "idle"], job' = [job EXCEPT ![p] = NoJob],
         UNCHANGED <<payments, movements, payReqs>>, payable' \in Payable, ColumnsAgree',
         payable'.paid = LiveSum
  PROVE  OneStory'
<1>1. LiveSum' = LiveSum /\ LivePayments' = LivePayments
  BY DEF LiveSum, LivePayments, SumOf, Existing
<1>2. OwnMovements' /\ AmountsPositive' /\ RequestsPaid'
  BY PayablesAssumption DEF Alone, OneStory, OwnMovements, AmountsPositive, RequestsPaid, Existing
<1>3. \A m \in Existing(movements') :
        ~movements'[m].voided =>
          \E q \in LivePayments' : /\ payments'[q].movement = m
                                   /\ payments'[q].amount = movements'[m].amount
  BY <1>1, AloneFacts DEF Existing
<1>4. PICK j : j = NoJob
  OBVIOUS
<1>5. StillAsRead(j, "idle")'
  BY DEF StillAsRead
<1>. QED
  BY <1>1, <1>2, <1>3, <1>4, <1>5, StoryMoves DEF Alone

\* registerPayment: from the check of the amount to the columns.
LEMMA StoryOfPayment ==
  ASSUME NEW p \in Processes, Alone(p),
         \/ AssertPayableAmount(p) \/ InsertMovement(p) \/ InsertPayment(p)
         \/ PaymentRefused(p) \/ UpdatePayable(p)
  PROVE  OneStory'
<1>. USE DEF Goto, Done
<1>1. /\ StillAsRead(job[p], pc[p]) /\ JobFits(job[p], pc[p]) /\ FoundBy(job[p], pc[p])
      /\ payable \in Payable /\ payable # None /\ TablesTyped
      /\ pc[p] # "settle" => payable.paid = LiveSum
      /\ pc[p] # "payment" =>
           \A m \in Existing(movements) :
             ~movements[m].voided =>
               \E q \in LivePayments : /\ payments[q].movement = m
                                       /\ payments[q].amount = movements[m].amount
      /\ job[p] \in JobOf(AccountRows, AccountTargets)
  BY AloneFacts
<1>2. TypeOK /\ OneStory /\ Running \subseteq {p}
  BY DEF Alone
<1>3. /\ payable.total \in Int /\ payable.paid \in Int /\ payable.balance \in Int
      /\ job[p].amount \in Int
      /\ payable.balance = payable.total - payable.paid /\ payable.total > 0
      /\ payable.paid <= payable.total /\ (payable.status = "PAID" <=> payable.balance <= 0)
  BY <1>1, <1>2 DEF Payable, JobOf, OneStory, ColumnsAgree
<1>4. CASE AssertPayableAmount(p)
  <2>1. CASE job[p].amount <= Disponible(job[p].seen)
    <3>1. PICK l \in {"movement", "payment"} :
            pc' = [pc EXCEPT ![p] = l] /\ job' = [job EXCEPT ![p] = job[p]]
      BY <1>4, <2>1 DEF AssertPayableAmount
    <3>2. PICK j : j = job[p]
      OBVIOUS
    <3>3. Unreflected = {}
      BY <1>2 DEF Unreflected, OneStory, OwnMovements
    <3>4. PaidThroughExpenseOrder = 0
      BY <3>3, SumOfNothing DEF PaidThroughExpenseOrder
    <3>5. pc[p] = "assert" /\ j.seen = payable
      BY <1>1, <1>4, <3>2 DEF AssertPayableAmount, StillAsRead
    <3>6. j.amount <= payable.balance
      BY <1>3, <2>1, <3>2, <3>4, <3>5 DEF Disponible
    <3>7. StillAsRead(j, l)
      BY <1>1, <3>2, <3>5, <3>6 DEF StillAsRead
    <3>. QED
      BY <1>2, <1>4, <3>1, <3>2, <3>5, <3>7, StoryWaits DEF AssertPayableAmount
  <2>2. CASE ~(job[p].amount <= Disponible(job[p].seen))
    <3>1. PICK j : j = NoJob
      OBVIOUS
    <3>2. StillAsRead(j, "idle")
      BY DEF StillAsRead
    <3>. QED
      BY <1>2, <1>4, <2>2, <3>1, <3>2, StoryWaits DEF AssertPayableAmount
  <2>. QED
    BY <2>1, <2>2
<1>5. CASE InsertMovement(p)
  <2>1. PICK m \in Movements :
          /\ movements[m] = None
          /\ movements' = [movements EXCEPT ![m] =
                             [amount |-> job[p].amount, source |-> "AP", voided |-> FALSE]]
          /\ pc' = [pc EXCEPT ![p] = "payment"]
          /\ job' = [job EXCEPT ![p] = [job[p] EXCEPT !.movement = m]]
    BY <1>5 DEF InsertMovement, Fresh
  <2>2. PICK j : j = [job[p] EXCEPT !.movement = m]
    OBVIOUS
  <2>3. /\ j.request = job[p].request /\ j.seen = job[p].seen /\ j.amount = job[p].amount
        /\ j.movement = m
    BY <1>1, <2>2 DEF JobOf
  <2>4. /\ Existing(movements') \subseteq Existing(movements) \cup {m}
        /\ movements'[m].amount = job[p].amount /\ movements'[m].source = "AP"
        /\ \A x \in Existing(movements) : x # m /\ movements'[x] = movements[x]
    BY <1>1, <2>1 DEF TablesTyped, Existing
  <2>5. pc[p] = "movement" /\ UNCHANGED <<payable, payments, payReqs>>
    BY <1>5 DEF InsertMovement
  <2>6. LiveSum' = LiveSum /\ LivePayments' = LivePayments
    BY <2>5 DEF LiveSum, LivePayments, SumOf, Existing
  <2>7. OwnMovements' /\ AmountsPositive' /\ RequestsPaid' /\ ColumnsAgree'
    BY <1>2, <2>4, <2>5 DEF OneStory, OwnMovements, AmountsPositive, RequestsPaid, ColumnsAgree,
       Existing
  <2>8. \A x \in Existing(movements') :
          ~movements'[x].voided =>
            \/ \E q \in LivePayments' : /\ payments'[q].movement = x
                                        /\ payments'[q].amount = movements'[x].amount
            \/ j.movement = x
    BY <1>1, <2>3, <2>4, <2>5, <2>6
  <2>9. StillAsRead(j, "payment")'
    BY <1>1, <2>3, <2>4, <2>5 DEF StillAsRead, PayableOpen, PaymentOf, Existing
  <2>10. payable'.paid = LiveSum'
    BY <1>1, <2>5, <2>6
  <2>11. job' = [job EXCEPT ![p] = j]
    BY <2>1, <2>2
  <2>. QED
    BY <1>2, <2>1, <2>7, <2>8, <2>9, <2>10, <2>11, StoryMoves
<1>6. CASE InsertPayment(p)
  <2>1. PICK q \in Payments :
          /\ payments[q] = None
          /\ payments' = [payments EXCEPT ![q] =
                            [amount |-> job[p].amount, movement |-> job[p].movement,
                             request |-> job[p].request, reversed |-> FALSE]]
    BY <1>6 DEF InsertPayment, Fresh
  <2>2. PICK j : j = job[p]
    OBVIOUS
  <2>3. /\ UNCHANGED <<payable, movements, payReqs>> /\ pc[p] = "payment"
        /\ pc' = [pc EXCEPT ![p] = "settle"] /\ job' = [job EXCEPT ![p] = j]
    BY <1>6, <2>2 DEF InsertPayment
  <2>4. /\ payments'[q] = [amount |-> job[p].amount, movement |-> job[p].movement,
                           request |-> job[p].request, reversed |-> FALSE]
        /\ \A x \in Existing(payments) : x # q /\ payments'[x] = payments[x]
    BY <1>1, <2>1 DEF TablesTyped, Existing
  <2>5. payments'[q] # None
    <3>1. payments'[q] \in Payment
      BY <1>1, <2>4 DEF JobOf, Payment
    <3>. QED
      BY <3>1, PayablesAssumption
  <2>6. /\ Existing(payments') = Existing(payments) \cup {q} /\ q \notin Existing(payments)
        /\ LivePayments' = LivePayments \cup {q} /\ q \notin LivePayments
    BY <1>1, <2>1, <2>4, <2>5 DEF TablesTyped, Existing, LivePayments
  <2>7. LiveSum' = job[p].amount + LiveSum
    <3>1. /\ IsFiniteSet(LivePayments)
          /\ \A x \in LivePayments : payments[x].amount \in Int
                                     /\ payments'[x].amount = payments[x].amount
      BY <1>1, <2>4, FS_Subset, PayablesAssumption DEF TablesTyped, LivePayments, Existing, Payment
    <3>2. payments'[q].amount \in Int /\ payments'[q].amount = job[p].amount
      BY <1>3, <2>4
    <3>. QED
      <4>1. SumOf(payments', LivePayments \cup {q})
              = payments'[q].amount + SumOf(payments, LivePayments)
        BY <2>6, <3>1, <3>2, SumOfWith
      <4>2. LiveSum' = SumOf(payments', LivePayments')
        BY DEF LiveSum
      <4>. QED
        BY <2>6, <3>2, <4>1, <4>2 DEF LiveSum
  <2>8. OwnMovements' /\ ColumnsAgree'
    BY <1>2, <2>3 DEF OneStory, OwnMovements, ColumnsAgree, Existing
  <2>9. AmountsPositive'
    <3>1. job[p].amount > 0
      BY <1>1, <2>3 DEF StillAsRead
    <3>. QED
      BY <1>2, <2>3, <2>4, <2>6, <3>1 DEF OneStory, AmountsPositive, Existing
  <2>10. RequestsPaid'
    <3>1. job[p].request # None => /\ job[p].request \in Existing(payReqs)
                                   /\ payReqs[job[p].request].status = "COMPLETED"
      BY <1>1, <2>3 DEF StillAsRead
    <3>. QED
      BY <1>2, <2>3, <2>4, <2>6, <3>1 DEF OneStory, RequestsPaid, Existing
  <2>11. ASSUME NEW m \in Existing(movements'), ~movements'[m].voided
         PROVE  \E x \in LivePayments' : /\ payments'[x].movement = m
                                         /\ payments'[x].amount = movements'[m].amount
    <3>1. m \in Existing(movements) /\ m # None
      BY <1>1, <2>3, <2>11, PayablesAssumption DEF Existing, TablesTyped
    <3>2. CASE job[p].movement = m
      BY <1>1, <2>3, <2>4, <2>6, <3>1, <3>2 DEF StillAsRead
    <3>3. CASE job[p].movement # m
      <4>1. PICK x \in LivePayments :
              payments[x].movement = m /\ payments[x].amount = movements[m].amount
        BY <1>2, <2>3, <2>11, <3>1, <3>3 DEF OneStory, MovementsSpoken, Running
      <4>. QED
        BY <2>3, <2>4, <2>6, <4>1 DEF LivePayments
    <3>. QED
      BY <3>2, <3>3
  <2>12. LiveSum' = payable'.paid + j.amount
    BY <1>1, <1>3, <2>2, <2>3, <2>7
  <2>13. StillAsRead(j, "settle")'
    BY <1>1, <2>2, <2>3, <2>12 DEF StillAsRead, PayableOpen
  <2>. QED
    BY <1>2, <2>3, <2>8, <2>9, <2>10, <2>11, <2>13, StoryMoves
<1>7. CASE PaymentRefused(p)
  <2>1. PaymentOf(job[p].request) = {} \/ job[p].request = None
    BY <1>1, <1>7 DEF PaymentRefused, StillAsRead
  <2>2. OncePerRequest(job[p].request)
    BY <2>1 DEF OncePerRequest, PaymentOf
  <2>. QED
    BY <1>1, <1>7, <2>2 DEF PaymentRefused
<1>8. CASE UpdatePayable(p)
  <2>1. /\ pc[p] = "settle" /\ UNCHANGED <<payments, movements, payReqs>>
        /\ pc' = [pc EXCEPT ![p] = "idle"] /\ job' = [job EXCEPT ![p] = NoJob]
    BY <1>8 DEF UpdatePayable
  <2>2. /\ job[p].seen = payable /\ job[p].amount <= payable.balance
        /\ LiveSum = payable.paid + job[p].amount
    BY <1>1, <2>1 DEF StillAsRead
  <2>3. PICK paid, balance :
          /\ paid = payable.paid + job[p].amount /\ balance = payable.total - paid
          /\ payable' = [payable EXCEPT !.paid = paid, !.balance = balance,
                                        !.status = AfterPayment(balance)]
    BY <1>8, <2>2 DEF UpdatePayable
  <2>4. /\ payable'.paid = paid /\ payable'.balance = balance /\ payable'.total = payable.total
        /\ payable'.status = AfterPayment(balance) /\ paid \in Int /\ balance \in Int
        /\ payable' \in Payable
    <3>1. paid \in Int /\ balance \in Int /\ AfterPayment(balance) \in PayableStatuses
      BY <1>3, <2>3 DEF PayableStatuses, AfterPayment
    <3>. QED
      BY <1>1, <2>3, <3>1 DEF Payable
  <2>5. ColumnsAgree'
    BY <1>3, <2>2, <2>3, <2>4 DEF ColumnsAgree, AfterPayment
  <2>. QED
    BY <2>1, <2>2, <2>3, <2>4, <2>5, StoryColumns
<1>. QED
  BY <1>4, <1>5, <1>6, <1>7, <1>8

\* The statements that read, or answer a request.
LEMMA StoryOfRequests ==
  ASSUME NEW p \in Processes, Alone(p),
         \/ CompletePayRequest(p) \/ RereadPayable(p) \/ AnswerPayment(p) \/ FindPayment(p)
         \/ ReadLive(p) \/ AnswerReversal(p) \/ AnswerAuth(p) \/ Authorize(p)
  PROVE  OneStory'
<1>. USE DEF Goto, Done
<1>1. /\ StillAsRead(job[p], pc[p]) /\ JobFits(job[p], pc[p]) /\ FoundBy(job[p], pc[p])
      /\ payable \in Payable /\ payable # None /\ TablesTyped
      /\ pc[p] # "settle" => payable.paid = LiveSum
      /\ pc[p] # "payment" =>
           \A m \in Existing(movements) :
             ~movements[m].voided =>
               \E q \in LivePayments : /\ payments[q].movement = m
                                       /\ payments[q].amount = movements[m].amount
      /\ job[p] \in JobOf(AccountRows, AccountTargets)
  BY AloneFacts
<1>2. TypeOK /\ OneStory /\ Running \subseteq {p}
  BY DEF Alone
<1>3. ASSUME pc' = [pc EXCEPT ![p] = "idle"], job' = [job EXCEPT ![p] = NoJob], UNCHANGED rows,
             pc[p] \notin {"payment", "settle"}
      PROVE  OneStory'
  <2>1. PICK j : j = NoJob
    OBVIOUS
  <2>2. StillAsRead(j, "idle")
    BY DEF StillAsRead
  <2>. QED
    BY <1>2, <1>3, <2>1, <2>2, StoryWaits
<1>4. ASSUME NEW r \in Existing(payReqs), NEW s \in PayReqStatuses, NEW l, NEW j,
             payReqs' = [payReqs EXCEPT ![r].status = s],
             UNCHANGED <<payable, payments, movements>>,
             \A q \in Existing(payments) : payments[q].request = r => s = "COMPLETED",
             pc[p] \notin {"payment", "settle"},
             pc' = [pc EXCEPT ![p] = l], job' = [job EXCEPT ![p] = j], StillAsRead(j, l)'
      PROVE  OneStory'
  <2>1. /\ payReqs'[r].status = s /\ payReqs'[r].amount = payReqs[r].amount
        /\ payReqs'[r] \in PayReq /\ \A x \in PayRequests : x # r => payReqs'[x] = payReqs[x]
    BY <1>1, <1>4 DEF TablesTyped, Existing, PayReq
  <2>2. Existing(payReqs') = Existing(payReqs)
    <3>1. payReqs'[r] # None
      BY <2>1, PayablesAssumption
    <3>. QED
      BY <1>1, <1>4, <2>1, <3>1 DEF TablesTyped, Existing
  <2>3. LiveSum' = LiveSum /\ LivePayments' = LivePayments
    BY <1>4 DEF LiveSum, LivePayments, SumOf, Existing
  <2>4. OwnMovements' /\ ColumnsAgree'
    BY <1>2, <1>4 DEF OneStory, OwnMovements, ColumnsAgree, Existing
  <2>5. AmountsPositive'
    BY <1>1, <1>2, <1>4, <2>1, <2>2 DEF OneStory, AmountsPositive, Existing, TablesTyped
  <2>6. RequestsPaid'
    BY <1>1, <1>2, <1>4, <2>1, <2>2 DEF OneStory, RequestsPaid, Existing, TablesTyped
  <2>7. \A m \in Existing(movements') :
          ~movements'[m].voided =>
            \E q \in LivePayments' : /\ payments'[q].movement = m
                                     /\ payments'[q].amount = movements'[m].amount
    BY <1>1, <1>4, <2>3 DEF Existing
  <2>8. payable'.paid = LiveSum'
    BY <1>1, <1>4, <2>3
  <2>. QED
    BY <1>2, <1>4, <2>4, <2>5, <2>6, <2>7, <2>8, StoryMoves
<1>5. CASE CompletePayRequest(p)
  <2>1. PICK r : r = job[p].request
    OBVIOUS
  <2>2. /\ r \in Existing(payReqs) /\ payReqs[r].status = "ADMIN_APPROVED"
        /\ payReqs' = [payReqs EXCEPT ![r].status = "COMPLETED"]
        /\ UNCHANGED <<payable, payments, movements>> /\ pc[p] = "complete"
        /\ pc' = [pc EXCEPT ![p] = "reread"] /\ job' = [job EXCEPT ![p] = job[p]]
        /\ job[p].movement = None /\ job[p].amount > 0
    BY <1>1, <1>5, <2>1 DEF CompletePayRequest, FoundBy, StillAsRead
  <2>3. PICK j : j = job[p]
    OBVIOUS
  <2>4. PaymentOf(r) = {}
    <3>1. r \in PayRequests
      BY <1>1, <2>2 DEF TablesTyped, Existing
    <3>2. r # None
      BY <3>1, PayablesAssumption
    <3>3. \A q \in Existing(payments) :
            payments[q].request = r => payReqs[r].status = "COMPLETED"
      BY <1>2, <3>2 DEF OneStory, RequestsPaid
    <3>. QED
      BY <2>2, <3>3 DEF PaymentOf
  <2>5. /\ r \in Existing(payReqs') /\ payReqs'[r].status = "COMPLETED"
    <3>1. payReqs'[r] \in PayReq /\ payReqs'[r].status = "COMPLETED"
      BY <1>1, <2>2 DEF TablesTyped, Existing, PayReq, PayReqStatuses
    <3>2. payReqs'[r] # None
      BY <3>1, PayablesAssumption
    <3>. QED
      BY <1>1, <2>2, <3>1, <3>2 DEF TablesTyped, Existing
  <2>6. StillAsRead(j, "reread")'
    BY <2>1, <2>2, <2>3, <2>4, <2>5 DEF StillAsRead, PaymentOf, Existing
  <2>7. "COMPLETED" \in PayReqStatuses
    BY DEF PayReqStatuses
  <2>. QED
    BY <1>4, <2>2, <2>3, <2>6, <2>7
<1>6. CASE AnswerPayment(p)
  <2>1. PICK r, s, j : r = job[p].request /\ s = job[p].to /\ j = NoJob
    OBVIOUS
  <2>2. /\ r \in Existing(payReqs) /\ payReqs[r].status # "COMPLETED" /\ s \in PayReqStatuses
        /\ payReqs' = [payReqs EXCEPT ![r].status = s]
        /\ UNCHANGED <<payable, payments, movements>> /\ pc[p] = "answerPayment"
        /\ pc' = [pc EXCEPT ![p] = "idle"] /\ job' = [job EXCEPT ![p] = j]
    BY <1>1, <1>6, <2>1 DEF AnswerPayment, FoundBy, StillAsRead, JobFits
  <2>3. \A q \in Existing(payments) : payments[q].request # r
    <3>1. r \in PayRequests
      BY <1>1, <2>2 DEF TablesTyped, Existing
    <3>2. r # None
      BY <3>1, PayablesAssumption
    <3>3. \A q \in Existing(payments) :
            payments[q].request = r => payReqs[r].status = "COMPLETED"
      BY <1>2, <3>2 DEF OneStory, RequestsPaid
    <3>. QED
      BY <2>2, <3>3
  <2>4. StillAsRead(j, "idle")'
    BY DEF StillAsRead
  <2>. QED
    BY <1>4, <2>2, <2>3, <2>4
<1>7. CASE RereadPayable(p)
  <2>1. CASE PayableOpen
    <3>1. PICK j : j = [job[p] EXCEPT !.seen = payable]
      OBVIOUS
    <3>2. /\ j.seen = payable /\ j.movement = job[p].movement /\ j.request = job[p].request
          /\ j.amount = job[p].amount
      BY <1>1, <3>1 DEF JobOf
    <3>3. StillAsRead(j, "assert")
      BY <1>1, <1>7, <2>1, <3>2 DEF RereadPayable, StillAsRead
    <3>. QED
      BY <1>2, <1>7, <2>1, <3>1, <3>3, StoryWaits DEF RereadPayable
  <2>2. CASE ~PayableOpen
    BY <1>3, <1>7, <2>2 DEF RereadPayable
  <2>. QED
    BY <2>1, <2>2
<1>8. CASE FindPayment(p)
  <2>1. CASE payments[job[p].row] # None /\ ~payments[job[p].row].reversed
    <3>1. PICK j : j = job[p]
      OBVIOUS
    <3>2. j.row \in LivePayments /\ j.seen = payable
      BY <1>1, <1>8, <2>1, <3>1 DEF FindPayment, StillAsRead, JobFits, LivePayments, Existing,
                                    TablesTyped
    <3>3. StillAsRead(j, "live")
      BY <3>2 DEF StillAsRead
    <3>. QED
      BY <1>2, <1>8, <2>1, <3>1, <3>3, StoryWaits DEF FindPayment
  <2>2. CASE ~(payments[job[p].row] # None /\ ~payments[job[p].row].reversed)
    BY <1>3, <1>8, <2>2 DEF FindPayment
  <2>. QED
    BY <2>1, <2>2
<1>9. CASE ReadLive(p)
  <2>1. PICK j : j = [job[p] EXCEPT !.sum = SumOf(payments, LivePayments \ {job[p].row})]
    OBVIOUS
  <2>2. PICK l \in {"undo", "undoRequest"} :
          /\ pc[p] = (IF l = "undo" THEN "live" ELSE "liveOfRequest")
          /\ pc' = [pc EXCEPT ![p] = l] /\ job' = [job EXCEPT ![p] = j]
    BY <1>9, <2>1 DEF ReadLive
  <2>3. /\ j.row = job[p].row /\ j.seen = job[p].seen
        /\ j.sum = SumOf(payments, LivePayments \ {job[p].row})
    BY <1>1, <2>1 DEF JobOf
  <2>4. StillAsRead(j, l)
    BY <1>1, <2>2, <2>3 DEF StillAsRead
  <2>. QED
    BY <1>2, <1>9, <2>2, <2>4, StoryWaits DEF ReadLive
<1>10. CASE AnswerReversal(p) \/ AnswerAuth(p)
  <2>1. PICK l, j : /\ l \in {"idle", "authorize"}
                    /\ pc' = [pc EXCEPT ![p] = l] /\ job' = [job EXCEPT ![p] = j]
    BY <1>10 DEF AnswerReversal, AnswerAuth
  <2>2. UNCHANGED <<payable, payments, movements, payReqs>> /\ pc[p] \notin {"payment", "settle"}
    BY <1>10 DEF AnswerReversal, AnswerAuth
  <2>3. LiveSum' = LiveSum /\ LivePayments' = LivePayments
    BY <2>2 DEF LiveSum, LivePayments, SumOf, Existing
  <2>4. OwnMovements' /\ AmountsPositive' /\ RequestsPaid' /\ ColumnsAgree'
    BY <1>2, <2>2 DEF OneStory, OwnMovements, AmountsPositive, RequestsPaid, ColumnsAgree, Existing
  <2>5. \A m \in Existing(movements') :
          ~movements'[m].voided =>
            \E q \in LivePayments' : /\ payments'[q].movement = m
                                     /\ payments'[q].amount = movements'[m].amount
    BY <1>1, <2>2, <2>3 DEF Existing
  <2>6. payable'.paid = LiveSum' /\ StillAsRead(j, l)'
    BY <1>1, <2>1, <2>2, <2>3 DEF StillAsRead
  <2>. QED
    BY <1>2, <2>1, <2>4, <2>5, <2>6, StoryMoves
<1>11. CASE Authorize(p)
  <2>1. CASE payable # None /\ payable.status = "PENDING"
    <3>1. PICK j : j = NoJob
      OBVIOUS
    <3>2. StillAsRead(j, "stamp")
      BY <2>1 DEF StillAsRead
    <3>. QED
      BY <1>2, <1>11, <2>1, <3>1, <3>2, StoryWaits DEF Authorize
  <2>2. CASE ~(payable # None /\ payable.status = "PENDING")
    BY <1>3, <1>11, <2>2 DEF Authorize
  <2>. QED
    BY <2>1, <2>2
<1>. QED
  BY <1>5, <1>6, <1>7, <1>8, <1>9, <1>10, <1>11

\* The edit of the total, the cancellation, the authorisation and the two reversals.
LEMMA StoryOfAccount ==
  ASSUME NEW p \in Processes, Alone(p),
         UpdateTotal(p) \/ Cancel(p) \/ Stamp(p) \/ CommitDelete(p) \/ CommitReversal(p)
  PROVE  OneStory'
<1>. USE DEF Goto, Done
<1>1. /\ StillAsRead(job[p], pc[p]) /\ FoundBy(job[p], pc[p])
      /\ payable \in Payable /\ payable # None /\ TablesTyped
      /\ pc[p] # "settle" => payable.paid = LiveSum
      /\ pc[p] # "payment" =>
           \A m \in Existing(movements) :
             ~movements[m].voided =>
               \E q \in LivePayments : /\ payments[q].movement = m
                                       /\ payments[q].amount = movements[m].amount
      /\ job[p] \in JobOf(AccountRows, AccountTargets)
  BY AloneFacts
<1>2. TypeOK /\ OneStory /\ Running \subseteq {p}
  BY DEF Alone
<1>3. /\ payable.total \in Int /\ payable.paid \in Int /\ payable.balance \in Int
      /\ job[p].amount \in Int /\ job[p].sum \in Int
      /\ payable.balance = payable.total - payable.paid /\ payable.total > 0
      /\ payable.paid <= payable.total /\ (payable.status = "PAID" <=> payable.balance <= 0)
  BY <1>1, <1>2 DEF Payable, JobOf, OneStory, ColumnsAgree
<1>4. /\ pc[p] \in {"total", "cancel", "stamp", "undo", "undoRequest"}
      /\ pc' = [pc EXCEPT ![p] = "idle"] /\ job' = [job EXCEPT ![p] = NoJob]
      /\ UNCHANGED payReqs
  BY DEF UpdateTotal, Cancel, Stamp, CommitDelete, CommitReversal
<1>5. CASE UpdateTotal(p)
  <2>1. /\ UNCHANGED <<payments, movements>> /\ job[p].seen = payable
        /\ payable.status \notin {"PAID", "CANCELLED"} /\ payable.paid <= 0 /\ job[p].amount > 0
    BY <1>1, <1>5 DEF UpdateTotal, StillAsRead, AmountEditable
  <2>2. PICK total, balance :
          /\ total = job[p].amount /\ balance = total - payable.paid
          /\ payable' = [payable EXCEPT !.total = total, !.balance = balance]
    BY <1>5, <2>1 DEF UpdateTotal
  <2>20. total \in Int /\ balance \in Int
    BY <1>3, <2>2
  <2>3. /\ payable'.total = total /\ payable'.balance = balance /\ payable'.paid = payable.paid
        /\ payable'.status = payable.status /\ payable' \in Payable
    BY <1>1, <2>2, <2>20 DEF Payable
  <2>4. ColumnsAgree'
    BY <1>3, <2>1, <2>2, <2>3 DEF ColumnsAgree
  <2>. QED
    BY <1>1, <1>4, <2>1, <2>3, <2>4, StoryColumns
<1>6. CASE Cancel(p) \/ Stamp(p)
  <2>1. /\ UNCHANGED <<payments, movements>> /\ payable.status # "PAID"
        /\ \E s \in {"CANCELLED", "ADMIN_AUTHORIZED"} : payable' = [payable EXCEPT !.status = s]
    BY <1>1, <1>6 DEF Cancel, Stamp, StillAsRead, PayableOpen
  <2>2. PICK s \in {"CANCELLED", "ADMIN_AUTHORIZED"} : payable' = [payable EXCEPT !.status = s]
    BY <2>1
  <2>3. /\ payable'.total = payable.total /\ payable'.balance = payable.balance
        /\ payable'.paid = payable.paid /\ payable'.status = s /\ payable' \in Payable
    <3>1. ASSUME NEW row \in Payable
          PROVE  LET new == [row EXCEPT !.status = s]
                 IN  /\ new.total = row.total /\ new.balance = row.balance
                     /\ new.paid = row.paid /\ new.status = s /\ new \in Payable
      BY <2>2 DEF Payable, PayableStatuses
    <3>. QED
      BY <1>1, <2>2, <3>1
  <2>4. ColumnsAgree'
    BY <1>3, <2>1, <2>3 DEF ColumnsAgree
  <2>. QED
    BY <1>1, <1>4, <2>1, <2>3, <2>4, StoryColumns
<1>7. CASE CommitDelete(p) \/ CommitReversal(p)
  <2>1. PICK q : q = job[p].row
    OBVIOUS
  <2>2. /\ ReversePayment(q) /\ Recalculated(p, payable.total) /\ q \in LivePayments
        /\ job[p].sum = SumOf(payments, LivePayments \ {q})
    BY <1>1, <1>7, <2>1 DEF CommitDelete, CommitReversal, StillAsRead
  <2>3. /\ q \in Payments /\ payments[q] \in Payment /\ payments[q].amount > 0
        /\ IsFiniteSet(LivePayments) /\ \A x \in LivePayments : payments[x].amount \in Int
    <3>1. LivePayments \subseteq Payments /\ IsFiniteSet(Payments)
      BY <1>1, PayablesAssumption DEF TablesTyped, LivePayments, Existing
    <3>2. \A x \in LivePayments : payments[x] \in Payment /\ payments[x].amount \in Int
      BY <1>1 DEF TablesTyped, LivePayments, Existing, Payment
    <3>3. \A x \in LivePayments : payments[x].amount > 0
      BY <1>2 DEF OneStory, AmountsPositive, LivePayments
    <3>. QED
      BY <2>2, <3>1, <3>2, <3>3, FS_Subset
  <2>4. /\ payments' = [payments EXCEPT ![q].reversed = TRUE]
        /\ \A x \in Payments : x # q => payments'[x] = payments[x]
        /\ payments'[q].reversed /\ payments'[q].amount = payments[q].amount
        /\ payments'[q].request = payments[q].request /\ payments'[q] \in Payment
    BY <1>1, <2>2, <2>3 DEF ReversePayment, TablesTyped, Payment
  <2>5. Existing(payments') = Existing(payments) /\ LivePayments' = LivePayments \ {q}
    <3>1. payments'[q] # None
      BY <2>4, PayablesAssumption
    <3>. QED
      BY <1>1, <2>2, <2>3, <2>4, <3>1 DEF TablesTyped, Existing, LivePayments
  <2>6. LiveSum' = job[p].sum
    <3>1. SumOf(payments', LivePayments \ {q}) = SumOf(payments, LivePayments \ {q})
      <4>1. IsFiniteSet(LivePayments \ {q})
        BY <2>3, FS_Subset
      <4>2. \A x \in LivePayments \ {q} : payments[x].amount \in Int
                                           /\ payments'[x].amount = payments[x].amount
        BY <2>3, <2>4 DEF LivePayments, Existing, TablesTyped
      <4>. QED
        BY <4>1, <4>2, SumOfSame
    <3>2. LiveSum' = SumOf(payments', LivePayments')
      BY DEF LiveSum
    <3>. QED
      BY <2>2, <2>5, <3>1, <3>2
  <2>7. LiveSum = payments[q].amount + job[p].sum
    <3>1. IsFiniteSet(LivePayments \ {q}) /\ q \notin LivePayments \ {q}
          /\ (LivePayments \ {q}) \cup {q} = LivePayments
      BY <2>2, <2>3, FS_Subset
    <3>2. /\ payments[q].amount \in Int
          /\ \A x \in LivePayments \ {q} : payments[x].amount \in Int
                                           /\ payments[x].amount = payments[x].amount
      BY <2>2, <2>3
    <3>3. SumOf(payments, (LivePayments \ {q}) \cup {q})
            = payments[q].amount + SumOf(payments, LivePayments \ {q})
      BY <3>1, <3>2, SumOfWith
    <3>. QED
      BY <2>2, <3>1, <3>3 DEF LiveSum
  <2>8. job[p].sum < payable.paid
    <3>1. payable.paid = LiveSum
      BY <1>1, <1>4
    <3>2. payments[q].amount \in Int
      BY <2>2, <2>3
    <3>. QED
      BY <1>3, <2>3, <2>7, <3>1, <3>2
  <2>9. /\ payable'.total = payable.total /\ payable'.balance = payable.total - job[p].sum
        /\ payable'.paid = job[p].sum /\ payable'.status # "PAID" /\ payable' \in Payable
    <3>1. PICK sum, balance, s : /\ sum = job[p].sum /\ balance = payable.total - sum
                                 /\ s = AfterReversal(sum)
                                 /\ payable' = [payable EXCEPT !.paid = sum, !.balance = balance,
                                                               !.status = s]
      BY <2>2 DEF Recalculated
    <3>2. sum \in Int /\ balance \in Int /\ s \in PayableStatuses \ {"PAID"}
      BY <1>3, <3>1 DEF AfterReversal, PayableStatuses
    <3>. QED
      BY <1>1, <3>1, <3>2 DEF Payable
  <2>10. ColumnsAgree' /\ payable'.paid = LiveSum'
    BY <1>3, <2>6, <2>8, <2>9 DEF ColumnsAgree
  <2>11. \A m \in Existing(movements') :
           /\ m \in Existing(movements) /\ m # None
           /\ movements'[m].source = movements[m].source
           /\ movements'[m].amount = movements[m].amount
           /\ ~movements'[m].voided => ~movements[m].voided /\ payments[q].movement # m
    <3>1. None \notin Movements
      BY PayablesAssumption
    <3>2. CASE payments[q].movement = None
      BY <1>1, <2>2, <3>1, <3>2 DEF ReversePayment, TablesTyped, Existing
    <3>3. CASE payments[q].movement # None
      <4>1. PICK y : y = payments[q].movement
        OBVIOUS
      <4>2. /\ movements' = [movements EXCEPT ![y].voided = TRUE]
            /\ y \in Existing(movements)
        BY <2>2, <3>3, <4>1
           DEF ReversePayment, Alone, AccountInv, MovementsExist, LivePayments
      <4>3. y \in Movements /\ movements[y] \in Movement
        BY <1>1, <4>2 DEF TablesTyped, Existing
      <4>. QED
        BY <1>1, <3>1, <4>1, <4>2, <4>3 DEF TablesTyped, Existing, Movement
    <3>. QED
      BY <3>2, <3>3
  <2>12. OwnMovements'
    <3>1. payable' # None
      BY <2>9, PayablesAssumption
    <3>. QED
      BY <1>2, <2>11, <3>1 DEF OneStory, OwnMovements
  <2>13. AmountsPositive' /\ RequestsPaid'
    BY <1>1, <1>2, <1>4, <2>3, <2>4, <2>5
       DEF OneStory, AmountsPositive, RequestsPaid, Existing, TablesTyped
  <2>14. \A m \in Existing(movements') :
           ~movements'[m].voided =>
             \E x \in LivePayments' : /\ payments'[x].movement = m
                                      /\ payments'[x].amount = movements'[m].amount
    <3>1. SUFFICES ASSUME NEW m \in Existing(movements'), ~movements'[m].voided
                   PROVE  \E x \in LivePayments' : /\ payments'[x].movement = m
                                                   /\ payments'[x].amount = movements'[m].amount
      OBVIOUS
    <3>2. PICK x \in LivePayments :
            payments[x].movement = m /\ payments[x].amount = movements[m].amount
      BY <1>1, <1>4, <2>11, <3>1
    <3>3. x # q
      BY <2>11, <3>1, <3>2
    <3>. QED
      BY <1>1, <2>4, <2>5, <2>11, <3>1, <3>2, <3>3 DEF LivePayments, Existing, TablesTyped
  <2>15. PICK j : j = NoJob
    OBVIOUS
  <2>16. StillAsRead(j, "idle")'
    BY DEF StillAsRead
  <2>. QED
    BY <1>2, <1>4, <2>10, <2>12, <2>13, <2>14, <2>15, <2>16, StoryMoves
<1>. QED
  BY <1>5, <1>6, <1>7

\* A step is of a process that runs, and moves no other.
LEMMA StepMoves ==
  ASSUME NEW p \in Processes, Step(p)
  PROVE  pc[p] # "idle" /\ \E l : pc' = [pc EXCEPT ![p] = l]
<1>. USE DEF Goto, Done, Refuse
<1>1. CASE AssertPayableAmount(p) \/ InsertMovement(p) \/ InsertPayment(p)
           \/ PaymentRefused(p) \/ UpdatePayable(p)
  BY <1>1 DEF AssertPayableAmount, InsertMovement, InsertPayment, PaymentRefused, UpdatePayable
<1>2. CASE CompletePayRequest(p) \/ RereadPayable(p) \/ AnswerPayment(p) \/ FindPayment(p)
           \/ ReadLive(p)
  BY <1>2 DEF CompletePayRequest, RereadPayable, AnswerPayment, FindPayment, ReadLive
<1>3. CASE CommitDelete(p) \/ AnswerReversal(p) \/ CommitReversal(p) \/ UpdateTotal(p)
           \/ Cancel(p)
  BY <1>3 DEF CommitDelete, AnswerReversal, CommitReversal, UpdateTotal, Cancel
<1>4. CASE AnswerAuth(p) \/ Authorize(p) \/ Stamp(p)
  BY <1>4 DEF AnswerAuth, Authorize, Stamp
<1>. QED
  BY <1>1, <1>2, <1>3, <1>4 DEF Step

\* One operation at a time: what starts beside another is counted as a race.
LEMMA OneRunsKept ==
  ASSUME TypeOK, OneRuns, Next
  PROVE  OneRuns'
<1>1. races \in Nat /\ races' >= races /\ races' \in Nat
  BY Bounded, PayablesAssumption DEF TypeOK
<1>2. SUFFICES ASSUME races' = 0 PROVE \A x, y \in Running' : x = y
  BY DEF OneRuns
<1>3. races = 0 /\ \A x, y \in Running : x = y
  BY <1>1, <1>2 DEF OneRuns
<1>4. ASSUME NEW p \in Processes, NEW l, pc' = [pc EXCEPT ![p] = l],
             Running = {} \/ pc[p] # "idle"
      PROVE  \A x, y \in Running' : x = y
  BY <1>3, <1>4 DEF Running, TypeOK
<1>5. ASSUME NEW kind, Counted(kind) PROVE Running = {}
  BY <1>2, <1>3, <1>5 DEF Counted
<1>6. ASSUME NEW p \in Processes, Start(p) PROVE \A x, y \in Running' : x = y
  <2>1. PICK kind, j, l : Begin(p, kind, j, l)
    BY <1>6 DEF Start, StartRegisterPayment, StartCajaApprovePayment, StartAnswerPayment,
       StartDeletePayment, StartAnswerReversal, StartCajaApproveReversal, StartUpdateTotal,
       StartCancel, StartAnswerAuth, StartAuthorize
  <2>. QED
    BY <1>4, <1>5, <2>1 DEF Begin
<1>7. ASSUME NEW p \in Processes, Step(p) PROVE \A x, y \in Running' : x = y
  BY <1>4, <1>7, StepMoves
<1>8. ASSUME NEW p \in Processes, Fail(p) PROVE \A x, y \in Running' : x = y
  BY <1>4, <1>8 DEF Fail
<1>9. CASE Others
  <2>1. UNCHANGED pc
    BY <1>9 DEF Others, CreatePayRequest, CreateReversal, CreateAuthRequest, MarkOverdue,
                VoidMovement, AtOnce
  <2>. QED
    BY <1>3, <2>1 DEF Running
<1>. QED
  BY <1>6, <1>7, <1>8, <1>9 DEF Next

\* With no race and no failure so far, a step is of the one process that runs.
LEMMA CalmFacts ==
  ASSUME TypeOK, AccountInv(AccountRows, AccountTargets, PCs), CalmInv, Next, Calm'
  PROVE  /\ Calm /\ OneStory
         /\ \A p \in Processes : ~Fail(p)
         /\ \A p \in Processes : Step(p) => Alone(p)
<1>1. /\ races \in Nat /\ failures \in Nat /\ races' \in Nat /\ failures' \in Nat
      /\ races' >= races /\ failures' >= failures
  BY Bounded, PayablesAssumption DEF TypeOK
<1>2. Calm
  BY <1>1 DEF Calm
<1>3. OneStory /\ \A x, y \in Running : x = y
  BY <1>2 DEF CalmInv, OneRuns, Calm
<1>4. ASSUME NEW p \in Processes, Fail(p) PROVE FALSE
  BY <1>1, <1>2, <1>4 DEF Fail, Calm
<1>5. ASSUME NEW p \in Processes, Step(p) PROVE Alone(p)
  <2>1. p \in Running
    BY <1>5, StepMoves DEF Running
  <2>. QED
    BY <1>3, <2>1 DEF Alone
<1>. QED
  BY <1>2, <1>3, <1>4, <1>5

\* Every step keeps the story of one request at a time.
LEMMA CalmStays ==
  ASSUME TypeOK, AccountInv(AccountRows, AccountTargets, PCs), CalmInv, [Next]_vars
  PROVE  CalmInv'
<1>1. CASE Next
  <2>1. OneRuns'
    BY <1>1, OneRunsKept DEF CalmInv
  <2>2. ASSUME Calm' PROVE OneStory'
    <3>1. /\ \A p \in Processes : ~Fail(p)
          /\ \A p \in Processes : Step(p) => Alone(p)
      BY <1>1, <2>2, CalmFacts
    <3>2. CASE Others
      BY <1>1, <2>2, <3>2, StoryAtOnce
    <3>3. ASSUME NEW p \in Processes, Start(p) PROVE OneStory'
      BY <1>1, <2>2, <3>3, StoryBegins
    <3>4. ASSUME NEW p \in Processes, Step(p) PROVE OneStory'
      <4>1. Alone(p)
        BY <3>1, <3>4
      <4>2. CASE \/ AssertPayableAmount(p) \/ InsertMovement(p) \/ InsertPayment(p)
                 \/ PaymentRefused(p) \/ UpdatePayable(p)
        BY <4>1, <4>2, StoryOfPayment
      <4>3. CASE \/ CompletePayRequest(p) \/ RereadPayable(p) \/ AnswerPayment(p)
                 \/ FindPayment(p) \/ ReadLive(p) \/ AnswerReversal(p) \/ AnswerAuth(p)
                 \/ Authorize(p)
        BY <4>1, <4>3, StoryOfRequests
      <4>4. CASE UpdateTotal(p) \/ Cancel(p) \/ Stamp(p) \/ CommitDelete(p) \/ CommitReversal(p)
        BY <4>1, <4>4, StoryOfAccount
      <4>. QED
        BY <3>4, <4>2, <4>3, <4>4 DEF Step
    <3>. QED
      BY <1>1, <3>1, <3>2, <3>3, <3>4 DEF Next
  <2>. QED
    BY <2>1, <2>2 DEF CalmInv
<1>2. CASE UNCHANGED vars
  <2>1. UNCHANGED <<payable, payments, movements, payReqs, reversals, asked, pc, job,
                    races, failures>>
    BY <1>2 DEF vars, rows, bounds
  <2>2. OneRuns' /\ (Calm' => Calm)
    BY <2>1 DEF CalmInv, OneRuns, Running, Calm
  <2>3. ASSUME OneStory PROVE OneStory'
    <3>1. OwnMovements' /\ AmountsPositive' /\ RequestsPaid' /\ MovementsSpoken' /\ ColumnsAgree'
      BY <2>1, <2>3 DEF OneStory, OwnMovements, AmountsPositive, RequestsPaid, MovementsSpoken,
                        ColumnsAgree, LivePayments, Existing
    <3>2. (\A p \in Processes : pc'[p] # "settle") => payable'.paid = LiveSum'
      BY <2>1, <2>3 DEF OneStory, LiveSum, LivePayments, SumOf, Existing
    <3>3. \A p \in Processes : StillAsRead(job[p], pc[p])'
      BY <2>1, <2>3 DEF OneStory, StillAsRead, PayableOpen, PaymentOf, Existing, SumOf,
                        LiveSum, LivePayments, AmountEditable
    <3>. QED
      BY <3>1, <3>2, <3>3 DEF OneStory
  <2>. QED
    BY <2>2, <2>3 DEF CalmInv
<1>. QED
  BY <1>1, <1>2

\* A new account owes its total and nothing moved.
LEMMA CalmStarted == ASSUME Init PROVE CalmInv
<1>1. payable # None /\ payable.total > 0 /\ payable.paid = 0
      /\ payable.balance = payable.total - payable.paid /\ payable.status = "PENDING"
      /\ payable.total \in Int
  <2>1. PICK t \in Totals, b \in Totals :
          payable = [status |-> "PENDING", total |-> t, paid |-> 0, balance |-> b]
    BY DEF Init
  <2>2. t \in Nat \ {0} /\ b = t
    BY <2>1, PayablesAssumption DEF Init
  <2>3. payable \in Payable
    BY <2>1, <2>2 DEF Payable, PayableStatuses
  <2>4. payable # None
    BY <2>3, PayablesAssumption
  <2>. QED
    BY <2>1, <2>2, <2>4
<1>2. /\ Existing(payments) = {} /\ Existing(movements) = {} /\ Existing(payReqs) = {}
      /\ LivePayments = {} /\ \A p \in Processes : pc[p] = "idle"
  BY DEF Init, Existing, LivePayments
<1>3. LiveSum = 0
  BY <1>2, SumOfNothing DEF LiveSum
<1>4. OneRuns
  BY <1>2 DEF OneRuns, Running
<1>5. \A p \in Processes : StillAsRead(job[p], pc[p])
  BY <1>2 DEF StillAsRead
<1>6. OwnMovements /\ AmountsPositive /\ RequestsPaid /\ MovementsSpoken
  BY <1>1, <1>2 DEF OwnMovements, AmountsPositive, RequestsPaid, MovementsSpoken
<1>7. ColumnsAgree
  BY <1>1 DEF ColumnsAgree
<1>. QED
  BY <1>1, <1>3, <1>4, <1>5, <1>6, <1>7 DEF CalmInv, OneStory

\* One request at a time, and none failing, what an operation read is still so when
\* it writes, and the columns follow the payments.
THEOREM CalmInvariant ==
  Spec => [](TypeOK /\ AccountInv(AccountRows, AccountTargets, PCs) /\ CalmInv)
<1>1. Init => CalmInv
  BY CalmStarted
<1>2. /\ TypeOK /\ AccountInv(AccountRows, AccountTargets, PCs) /\ CalmInv /\ [Next]_vars
      => CalmInv'
  BY CalmStays
<1>. QED
  BY <1>1, <1>2, AccountInvariant, PTL DEF Spec

\* One request at a time, the columns of an account, its payments and the money that
\* left the drawer for it tell one story, for any amounts and totals.
THEOREM AccountIsItsPaymentsHolds == Spec => []AccountIsItsPayments
<1>1. ASSUME TypeOK, CalmInv PROVE AccountIsItsPayments
  <2>1. SUFFICES ASSUME Quiet PROVE OneStory /\ \A p \in Processes : pc[p] = "idle"
    <3>1. ASSUME OneStory, \A p \in Processes : pc[p] = "idle", Quiet
          PROVE  AccountIsItsPayments
      <4>1. payable # None /\ payable.paid = LiveSum /\ ColumnsAgree
        BY <3>1 DEF OneStory, OwnMovements
      <4>2. PaidIsLive /\ NeverOverpaid /\ PaidOwesNothing
        BY <4>1 DEF PaidIsLive, NeverOverpaid, PaidOwesNothing, ColumnsAgree
      <4>3. MoneyHasPayment
        BY <3>1 DEF OneStory, MovementsSpoken, MoneyHasPayment
      <4>. QED
        BY <4>2, <4>3 DEF AccountIsItsPayments
    <3>2. ASSUME ~Quiet PROVE AccountIsItsPayments
      BY <3>2 DEF AccountIsItsPayments, PaidIsLive, NeverOverpaid, PaidOwesNothing,
                  MoneyHasPayment
    <3>. QED
      BY <3>1, <3>2
  <2>. QED
    BY <1>1, <2>1 DEF Quiet, Running, CalmInv
<1>. QED
  BY <1>1, CalmInvariant, PTL

\* One request at a time, a cancelled account takes no payment.
LEMMA CancelledStep ==
  ASSUME TypeOK, AccountInv(AccountRows, AccountTargets, PCs), CalmInv, Next, Calm',
         payable # None, payable.status = "CANCELLED"
  PROVE  /\ LivePayments' \subseteq LivePayments
         /\ LivePayments = {} => payable' = payable
<1>1. ASSUME UNCHANGED <<payable, payments>>
      PROVE  /\ LivePayments' \subseteq LivePayments
             /\ LivePayments = {} => payable' = payable
  BY <1>1 DEF LivePayments, Existing
<1>2. CASE Others
  BY <1>1, <1>2 DEF Others, CreatePayRequest, CreateReversal, CreateAuthRequest, MarkOverdue,
                    VoidMovement
<1>3. ASSUME NEW p \in Processes, Start(p) PROVE UNCHANGED <<payable, payments>>
  BY <1>3 DEF Start, StartRegisterPayment, StartCajaApprovePayment, StartAnswerPayment,
       StartDeletePayment, StartAnswerReversal, StartCajaApproveReversal, StartUpdateTotal,
       StartCancel, StartAnswerAuth, StartAuthorize, Begin, rows
<1>4. ASSUME NEW p \in Processes, Step(p)
      PROVE  /\ LivePayments' \subseteq LivePayments
             /\ LivePayments = {} => payable' = payable
  <2>. USE DEF Goto, Done, Refuse, rows
  <2>1. Alone(p)
    BY <1>4, CalmFacts
  <2>2. StillAsRead(job[p], pc[p]) /\ TablesTyped
    BY <2>1, AloneFacts
  <2>3. ~InsertPayment(p) /\ ~UpdatePayable(p) /\ ~UpdateTotal(p) /\ ~Cancel(p) /\ ~Stamp(p)
    BY <2>2 DEF InsertPayment, UpdatePayable, UpdateTotal, Cancel, Stamp, StillAsRead,
                PayableOpen, AmountEditable
  <2>4. CASE AssertPayableAmount(p) \/ InsertMovement(p) \/ PaymentRefused(p)
             \/ CompletePayRequest(p) \/ RereadPayable(p) \/ AnswerPayment(p)
    BY <1>1, <2>4 DEF AssertPayableAmount, InsertMovement, PaymentRefused, CompletePayRequest,
                      RereadPayable, AnswerPayment
  <2>5. CASE FindPayment(p) \/ ReadLive(p) \/ AnswerReversal(p) \/ AnswerAuth(p) \/ Authorize(p)
    BY <1>1, <2>5 DEF FindPayment, ReadLive, AnswerReversal, AnswerAuth, Authorize
  <2>6. CASE CommitDelete(p) \/ CommitReversal(p)
    <3>1. job[p].row \in LivePayments
      BY <2>2, <2>6 DEF CommitDelete, CommitReversal, StillAsRead
    <3>2. PICK q : q = job[p].row
      OBVIOUS
    <3>3. payments' = [payments EXCEPT ![q].reversed = TRUE] /\ q \in LivePayments
      BY <2>6, <3>1, <3>2 DEF CommitDelete, CommitReversal, ReversePayment
    <3>4. LivePayments' \subseteq LivePayments
      BY <2>2, <3>3 DEF TablesTyped, LivePayments, Existing
    <3>. QED
      BY <3>3, <3>4
  <2>. QED
    BY <1>4, <2>3, <2>4, <2>5, <2>6 DEF Step
<1>. QED
  BY <1>1, <1>2, <1>3, <1>4, CalmFacts DEF Next

\* One request at a time, a cancelled account takes no payment, and with nothing paid
\* nothing changes it.
THEOREM CancelledKept == Spec => CancelledStays
<1>1. TypeOK /\ AccountInv(AccountRows, AccountTargets, PCs) /\ CalmInv /\ [Next]_vars
      => [(Calm' /\ payable # None /\ payable.status = "CANCELLED")
            => /\ LivePayments' \subseteq LivePayments
               /\ LivePayments = {} => payable' = payable]_vars
  BY CancelledStep
<1>. QED
  BY <1>1, CalmInvariant, PTL DEF Spec, CancelledStays

-----------------------------------------------------------------------------
(* The order beside its account: the steps of the account.                 *)

\* The rows, targets and labels of the order's processes include the account's.
LEMMA OrderIsWide == Wide(OrderRows, OrderTargets, OrderPCs)
BY DEF Wide, OrderRows, OrderTargets, OrderPCs

\* No operation of the account removes its row, nor makes one.
LEMMA AccountRemains ==
  ASSUME AccountInv(OrderRows, OrderTargets, OrderPCs), Next
  PROVE  payable' = None <=> payable = None
<1>1. ASSUME NEW p \in Processes,
             \/ UpdatePayable(p) \/ UpdateTotal(p) \/ Cancel(p) \/ Stamp(p)
             \/ CommitDelete(p) \/ CommitReversal(p)
      PROVE  payable # None /\ payable' # None
  <2>1. payable # None
    BY <1>1 DEF UpdatePayable, UpdateTotal, Cancel, Stamp, CommitDelete, CommitReversal
  <2>2. payable' \in Payable
    BY <1>1, OrderIsWide, AccountColumns
  <2>. QED
    BY <2>1, <2>2, PayablesAssumption
<1>2. CASE MarkOverdue
  <2>1. /\ payable # None /\ payable \in Payable
        /\ payable' = [payable EXCEPT !.status = "OVERDUE"]
    BY <1>2 DEF MarkOverdue, AccountInv, Typed, TablesTyped
  <2>2. payable' \in Payable
    BY <2>1 DEF Payable, PayableStatuses
  <2>. QED
    BY <2>1, <2>2, PayablesAssumption
<1>3. CASE Others /\ ~MarkOverdue
  BY <1>3 DEF Others, CreatePayRequest, CreateReversal, CreateAuthRequest, VoidMovement
<1>4. ASSUME NEW p \in Processes, Start(p) \/ Fail(p) PROVE UNCHANGED payable
  BY <1>4 DEF Start, StartRegisterPayment, StartCajaApprovePayment, StartAnswerPayment,
       StartDeletePayment, StartAnswerReversal, StartCajaApproveReversal, StartUpdateTotal,
       StartCancel, StartAnswerAuth, StartAuthorize, Begin, Fail, rows
<1>5. ASSUME NEW p \in Processes, Step(p) PROVE payable' = None <=> payable = None
  <2>. USE DEF Refuse, rows
  <2>1. CASE \/ UpdatePayable(p) \/ UpdateTotal(p) \/ Cancel(p) \/ Stamp(p)
             \/ CommitDelete(p) \/ CommitReversal(p)
    BY <1>1, <2>1
  <2>2. CASE AssertPayableAmount(p) \/ InsertMovement(p) \/ InsertPayment(p)
             \/ PaymentRefused(p)
    BY <2>2 DEF AssertPayableAmount, InsertMovement, InsertPayment, PaymentRefused
  <2>3. CASE CompletePayRequest(p) \/ RereadPayable(p) \/ AnswerPayment(p) \/ FindPayment(p)
             \/ ReadLive(p)
    BY <2>3 DEF CompletePayRequest, RereadPayable, AnswerPayment, FindPayment, ReadLive
  <2>4. CASE AnswerReversal(p) \/ AnswerAuth(p) \/ Authorize(p)
    BY <2>4 DEF AnswerReversal, AnswerAuth, Authorize
  <2>. QED
    BY <1>5, <2>1, <2>2, <2>3, <2>4 DEF Step
<1>. QED
  BY <1>2, <1>3, <1>4, <1>5 DEF Next

\* No movement is ever deleted.
LEMMA MovementsStay ==
  ASSUME AccountInv(OrderRows, OrderTargets, OrderPCs), Next
  PROVE  Existing(movements) \subseteq Existing(movements')
<1>1. TablesTyped /\ MovementsExist
  BY DEF AccountInv, Typed
<1>2. ASSUME NEW m, m \in Existing(movements), movements' = [movements EXCEPT ![m].voided = TRUE]
      PROVE  Existing(movements) \subseteq Existing(movements')
  <2>1. m \in Movements /\ movements[m] \in Movement
    BY <1>1, <1>2 DEF TablesTyped, Existing
  <2>2. movements'[m] \in Movement
    BY <1>1, <1>2, <2>1 DEF TablesTyped, Movement
  <2>3. movements'[m] # None
    BY <2>2, PayablesAssumption
  <2>. QED
    BY <1>1, <1>2, <2>3 DEF TablesTyped, Existing
<1>3. ASSUME UNCHANGED movements PROVE Existing(movements) \subseteq Existing(movements')
  BY <1>3 DEF Existing
<1>4. CASE Others
  BY <1>2, <1>3, <1>4 DEF Others, CreatePayRequest, CreateReversal, CreateAuthRequest,
                          MarkOverdue, VoidMovement
<1>5. ASSUME NEW p \in Processes, Start(p) \/ Fail(p) PROVE UNCHANGED movements
  BY <1>5 DEF Start, StartRegisterPayment, StartCajaApprovePayment, StartAnswerPayment,
       StartDeletePayment, StartAnswerReversal, StartCajaApproveReversal, StartUpdateTotal,
       StartCancel, StartAnswerAuth, StartAuthorize, Begin, Fail, rows
<1>6. ASSUME NEW p \in Processes, Step(p)
      PROVE  Existing(movements) \subseteq Existing(movements')
  <2>. USE DEF Refuse, rows
  <2>1. CASE InsertMovement(p)
    <3>1. PICK m \in Movements :
            /\ movements[m] = None
            /\ movements' = [movements EXCEPT ![m] =
                               [amount |-> job[p].amount, source |-> "AP", voided |-> FALSE]]
      BY <2>1 DEF InsertMovement, Fresh
    <3>. QED
      BY <1>1, <3>1 DEF TablesTyped, Existing
  <2>2. CASE CommitDelete(p) \/ CommitReversal(p)
    <3>1. /\ JobFits(job[p], pc[p]) /\ FoundBy(job[p], pc[p])
      BY AccountJob
    <3>2. PICK q : q = job[p].row
      OBVIOUS
    <3>3. ReversePayment(q) /\ q \in Existing(payments)
      BY <2>2, <3>1, <3>2 DEF CommitDelete, CommitReversal, FoundBy, PaymentOf
    <3>4. CASE payments[q].movement = None
      BY <1>3, <3>3, <3>4 DEF ReversePayment
    <3>5. CASE payments[q].movement # None
      <4>1. PICK m : m = payments[q].movement
        OBVIOUS
      <4>2. m \in Existing(movements) /\ movements' = [movements EXCEPT ![m].voided = TRUE]
        BY <1>1, <3>3, <3>5, <4>1 DEF ReversePayment, MovementsExist
      <4>. QED
        BY <1>2, <4>2
    <3>. QED
      BY <3>4, <3>5
  <2>3. CASE AssertPayableAmount(p) \/ InsertPayment(p) \/ PaymentRefused(p) \/ UpdatePayable(p)
    BY <1>3, <2>3 DEF AssertPayableAmount, InsertPayment, PaymentRefused, UpdatePayable
  <2>4. CASE CompletePayRequest(p) \/ RereadPayable(p) \/ AnswerPayment(p) \/ FindPayment(p)
             \/ ReadLive(p)
    BY <1>3, <2>4 DEF CompletePayRequest, RereadPayable, AnswerPayment, FindPayment, ReadLive
  <2>5. CASE AnswerReversal(p) \/ AnswerAuth(p) \/ Authorize(p) \/ UpdateTotal(p) \/ Cancel(p)
             \/ Stamp(p)
    BY <1>3, <2>5 DEF AnswerReversal, AnswerAuth, Authorize, UpdateTotal, Cancel, Stamp
  <2>. QED
    BY <1>6, <2>1, <2>2, <2>3, <2>4, <2>5 DEF Step
<1>. QED
  BY <1>3, <1>4, <1>5, <1>6 DEF Next

\* What a step of the account does to the control of its process.
LEMMA AccountStepsTo ==
  ASSUME AccountInv(OrderRows, OrderTargets, OrderPCs), NEW p \in Processes, Step(p)
  PROVE  /\ pc[p] \in PCs \ {"idle"} /\ UNCHANGED failures
         /\ \E l \in PCs : \E j : /\ pc' = [pc EXCEPT ![p] = l] /\ job' = [job EXCEPT ![p] = j]
                              /\ j.to \in {None, job[p].to}
<1>. USE DEF Goto, Done, Refuse, PCs, NoJob, bounds
<1>1. job[p] \in JobOf(OrderRows, OrderTargets)
  BY AccountJob
<1>3. CASE AssertPayableAmount(p) \/ InsertPayment(p) \/ PaymentRefused(p) \/ UpdatePayable(p)
  BY <1>3 DEF AssertPayableAmount, InsertPayment, PaymentRefused, UpdatePayable
<1>2. ASSUME NEW l \in PCs, NEW j, pc' = [pc EXCEPT ![p] = l], job' = [job EXCEPT ![p] = j],
             pc[p] \in PCs \ {"idle"}, UNCHANGED failures,
             \E x : \/ j = [job[p] EXCEPT !.seen = x] \/ j = [job[p] EXCEPT !.movement = x]
                   \/ j = [job[p] EXCEPT !.sum = x]
      PROVE  /\ pc[p] \in PCs \ {"idle"} /\ UNCHANGED failures
             /\ \E k \in PCs : \E i : /\ pc' = [pc EXCEPT ![p] = k] /\ job' = [job EXCEPT ![p] = i]
                                  /\ i.to \in {None, job[p].to}
  <2>1. j.to = job[p].to
    BY <1>1, <1>2 DEF JobOf
  <2>. QED
    BY <1>2, <2>1
<1>4. CASE InsertMovement(p) \/ RereadPayable(p) \/ ReadLive(p)
  <2>1. CASE InsertMovement(p)
    <3>1. PICK m, j : /\ j = [job[p] EXCEPT !.movement = m]
                      /\ pc' = [pc EXCEPT ![p] = "payment"] /\ job' = [job EXCEPT ![p] = j]
      BY <2>1 DEF InsertMovement
    <3>. QED
      BY <1>2, <2>1, <3>1 DEF InsertMovement
  <2>2. CASE RereadPayable(p)
    <3>1. CASE PayableOpen
      <4>1. PICK j : j = [job[p] EXCEPT !.seen = payable]
        OBVIOUS
      <4>. QED
        BY <1>2, <2>2, <3>1, <4>1 DEF RereadPayable
    <3>2. CASE ~PayableOpen
      BY <2>2, <3>2 DEF RereadPayable
    <3>. QED
      BY <3>1, <3>2
  <2>3. CASE ReadLive(p)
    <3>1. PICK x, j : /\ x = SumOf(payments, LivePayments \ {job[p].row})
                      /\ j = [job[p] EXCEPT !.sum = x]
      OBVIOUS
    <3>2. PICK l \in {"undo", "undoRequest"} :
            pc' = [pc EXCEPT ![p] = l] /\ job' = [job EXCEPT ![p] = j]
      BY <2>3, <3>1 DEF ReadLive
    <3>. QED
      BY <1>2, <2>3, <3>1, <3>2 DEF ReadLive
  <2>. QED
    BY <1>4, <2>1, <2>2, <2>3
<1>5. CASE CompletePayRequest(p) \/ AnswerPayment(p) \/ FindPayment(p)
  BY <1>5 DEF CompletePayRequest, AnswerPayment, FindPayment
<1>6. CASE CommitDelete(p) \/ AnswerReversal(p) \/ CommitReversal(p) \/ UpdateTotal(p)
           \/ Cancel(p)
  BY <1>6 DEF CommitDelete, AnswerReversal, CommitReversal, UpdateTotal, Cancel
<1>7. CASE AnswerAuth(p) \/ Authorize(p) \/ Stamp(p)
  BY <1>7 DEF AnswerAuth, Authorize, Stamp
<1>. QED
  BY <1>3, <1>4, <1>5, <1>6, <1>7 DEF Step

\* What an operation of the account begins with.
LEMMA AccountStartsAt ==
  ASSUME NEW p \in Processes, Start(p)
  PROVE  /\ pc[p] = "idle" /\ UNCHANGED failures
         /\ \E l \in PCs : \E j : /\ pc' = [pc EXCEPT ![p] = l] /\ job' = [job EXCEPT ![p] = j]
                              /\ j.to \in AccountTargets
<1>. USE DEF PCs
<1>1. ASSUME NEW kind, NEW l \in PCs, NEW j, Begin(p, kind, j, l), j.to \in AccountTargets
      PROVE  /\ pc[p] = "idle" /\ UNCHANGED failures
             /\ \E k \in PCs : \E i : /\ pc' = [pc EXCEPT ![p] = k] /\ job' = [job EXCEPT ![p] = i]
                                  /\ i.to \in AccountTargets
  BY <1>1 DEF Begin, Counted
<1>2. ASSUME NEW kind, NEW l \in PCs, NEW x, NEW y,
             \/ Begin(p, kind, [NoJob EXCEPT !.amount = x, !.seen = y], l)
             \/ Begin(p, kind, [NoJob EXCEPT !.row = x, !.seen = y], l)
             \/ Begin(p, kind, [NoJob EXCEPT !.request = x, !.amount = y], l)
             \/ Begin(p, kind, [NoJob EXCEPT !.row = x, !.request = y], l)
             \/ Begin(p, kind, NoJob, l)
      PROVE  \E i \in PCs : \E k, j : Begin(p, k, j, i) /\ j.to \in AccountTargets
  <2>1. PICK j : /\ \/ j = [NoJob EXCEPT !.amount = x, !.seen = y]
                    \/ j = [NoJob EXCEPT !.row = x, !.seen = y]
                    \/ j = [NoJob EXCEPT !.request = x, !.amount = y]
                    \/ j = [NoJob EXCEPT !.row = x, !.request = y]
                    \/ j = NoJob
                 /\ Begin(p, kind, j, l)
    BY <1>2
  <2>2. j.to = NoJob.to
    BY <2>1 DEF NoJob
  <2>3. j.to \in AccountTargets
    BY <2>2 DEF NoJob, AccountTargets
  <2>. QED
    BY <2>1, <2>3
<1>3. ASSUME NEW kind, NEW l \in PCs, NEW x, NEW t,
             t \in PayReqStatuses \cup ReversalStatuses \cup Answers,
             \/ Begin(p, kind, [NoJob EXCEPT !.request = x, !.to = t], l)
             \/ Begin(p, kind, [NoJob EXCEPT !.row = x, !.to = t], l)
      PROVE  \E i \in PCs : \E k, j : Begin(p, k, j, i) /\ j.to \in AccountTargets
  <2>1. PICK j : /\ \/ j = [NoJob EXCEPT !.request = x, !.to = t]
                    \/ j = [NoJob EXCEPT !.row = x, !.to = t]
                 /\ Begin(p, kind, j, l)
    BY <1>3
  <2>2. j.to \in AccountTargets
    BY <1>3, <2>1 DEF NoJob, AccountTargets
  <2>. QED
    BY <2>1, <2>2
<1>4. \E i \in PCs : \E k, j : Begin(p, k, j, i) /\ j.to \in AccountTargets
  <2>1. CASE StartRegisterPayment(p)
    BY <1>2, <2>1 DEF StartRegisterPayment
  <2>2. CASE StartDeletePayment(p)
    BY <1>2, <2>2 DEF StartDeletePayment
  <2>3. CASE StartUpdateTotal(p)
    BY <1>2, <2>3 DEF StartUpdateTotal
  <2>4. CASE StartCajaApprovePayment(p)
    BY <1>2, <2>4 DEF StartCajaApprovePayment
  <2>5. CASE StartCajaApproveReversal(p)
    BY <1>2, <2>5 DEF StartCajaApproveReversal
  <2>6. CASE StartCancel(p)
    BY <1>2, <2>6 DEF StartCancel
  <2>7. CASE StartAuthorize(p)
    BY <1>2, <2>7 DEF StartAuthorize
  <2>8. CASE StartAnswerPayment(p)
    <3>1. PICK r \in Existing(payReqs), answer \in PayReqAnswers :
            /\ payReqs[r].status = answer[1]
            /\ Begin(p, "payRequest", [NoJob EXCEPT !.request = r, !.to = answer[2]],
                     "answerPayment")
      BY <2>8 DEF StartAnswerPayment
    <3>2. answer[2] \in PayReqStatuses
      BY DEF PayReqAnswers, PayReqStatuses
    <3>. QED
      BY <1>3, <3>1, <3>2
  <2>9. CASE StartAnswerReversal(p)
    <3>1. PICK r \in Existing(reversals), answer \in ReversalAnswers :
            /\ reversals[r] = answer[1]
            /\ Begin(p, "reversal", [NoJob EXCEPT !.request = r, !.to = answer[2]],
                     "answerReversal")
      BY <2>9 DEF StartAnswerReversal
    <3>2. answer[2] \in ReversalStatuses
      BY DEF ReversalAnswers, ReversalStatuses
    <3>. QED
      BY <1>3, <3>1, <3>2
  <2>10. CASE StartAnswerAuth(p)
    <3>1. PICK u \in Users, t \in {"APPROVED", "REJECTED", "EXPIRED"} :
            /\ asked[u] = "PENDING"
            /\ Begin(p, "authorize", [NoJob EXCEPT !.row = u, !.to = t], "answerAuth")
      BY <2>10 DEF StartAnswerAuth
    <3>. QED
      BY <1>3, <3>1 DEF Answers
  <2>. QED
    BY <2>1, <2>2, <2>3, <2>4, <2>5, <2>6, <2>7, <2>8, <2>9, <2>10 DEF Start
<1>. QED
  BY <1>1, <1>4

\* The labels of the account and those an order's edit holds its approval at differ.
LEMMA LabelsApart ==
  /\ PCs \cap ({"consume"} \cup Editing) = {}
  /\ PCs \cap {"closeRequests", "egress", "nextEgress", "paid", "autoSign", "sign", "reflect",
               "sync", "recalculate", "answerRequest", "answerEdit", "giveBack",
               "insertOrder", "claim"} = {}
  /\ PCs \subseteq OrderPCs
  /\ "editPaid" \notin AccountTargets
BY ExpenseOrdersAssumption
   DEF PCs, Editing, OrderPCs, AccountTargets, PayReqStatuses, ReversalStatuses, Answers

\* A step of the account moves one process, which held no approval and signs nothing,
\* or ends one that dies.
LEMMA AccountControl ==
  ASSUME AccountInv(OrderRows, OrderTargets, OrderPCs), OrderJobFollows, Next
  PROVE  \/ UNCHANGED <<pc, job, failures>>
         \/ \E p \in Processes : \E l \in PCs : \E j :
              /\ pc' = [pc EXCEPT ![p] = l] /\ job' = [job EXCEPT ![p] = j]
              /\ j.to # "editPaid"
              /\ \/ pc[p] \in PCs /\ UNCHANGED failures
                 \/ failures' = failures + 1
<1>1. CASE Others
  BY <1>1 DEF Others, CreatePayRequest, CreateReversal, CreateAuthRequest, MarkOverdue,
              VoidMovement, AtOnce, Counted
<1>2. ASSUME NEW p \in Processes, Fail(p)
      PROVE  \E l \in PCs : \E j :
               /\ pc' = [pc EXCEPT ![p] = l] /\ job' = [job EXCEPT ![p] = j]
               /\ j.to # "editPaid" /\ failures' = failures + 1
  <2>1. PICK j : j = NoJob
    OBVIOUS
  <2>2. j.to # "editPaid"
    BY <2>1, ExpenseOrdersAssumption DEF NoJob
  <2>3. pc' = [pc EXCEPT ![p] = "idle"] /\ job' = [job EXCEPT ![p] = j] /\ failures' = failures + 1
    BY <1>2, <2>1 DEF Fail
  <2>. QED
    BY <2>2, <2>3 DEF PCs
<1>3. ASSUME NEW p \in Processes, Start(p)
      PROVE  \E l \in PCs : \E j :
               /\ pc' = [pc EXCEPT ![p] = l] /\ job' = [job EXCEPT ![p] = j]
               /\ j.to # "editPaid" /\ pc[p] \in PCs /\ UNCHANGED failures
  <2>1. pc[p] \in PCs /\ UNCHANGED failures
    BY <1>3, AccountStartsAt DEF PCs
  <2>2. PICK l \in PCs : \E j : /\ pc' = [pc EXCEPT ![p] = l] /\ job' = [job EXCEPT ![p] = j]
                                /\ j.to \in AccountTargets
    BY <1>3, AccountStartsAt
  <2>. QED
    BY <2>1, <2>2, LabelsApart
<1>4. ASSUME NEW p \in Processes, Step(p)
      PROVE  \E l \in PCs : \E j :
               /\ pc' = [pc EXCEPT ![p] = l] /\ job' = [job EXCEPT ![p] = j]
               /\ j.to # "editPaid" /\ pc[p] \in PCs /\ UNCHANGED failures
  <2>1. pc[p] \in PCs /\ UNCHANGED failures
    BY <1>4, AccountStepsTo
  <2>2. PICK l \in PCs : \E j : /\ pc' = [pc EXCEPT ![p] = l] /\ job' = [job EXCEPT ![p] = j]
                                /\ j.to \in {None, job[p].to}
    BY <1>4, AccountStepsTo
  <2>3. job[p].to # "editPaid"
    BY <2>1, LabelsApart DEF OrderJobFollows, OrderFits
  <2>. QED
    BY <2>1, <2>2, <2>3, ExpenseOrdersAssumption
<1>. QED
  BY <1>1, <1>2, <1>3, <1>4 DEF Next

\* Before the account is inserted no operation of it finds a row, or makes one.
LEMMA StartsUntouched ==
  ASSUME AccountInv(OrderRows, OrderTargets, OrderPCs), AccountStarts, Next,
         UNCHANGED <<order, born>>
  PROVE  AccountStarts'
<1>1. TablesTyped
  BY DEF AccountInv, Typed
<1>2. payable' = None <=> payable = None
  BY AccountRemains
<1>3. SUFFICES ASSUME payable = None, order # None \/ ~born
      PROVE  /\ UNCHANGED <<payments, payReqs, reversals>>
             /\ \A p \in Processes :
                  pc'[p] \notin {"complete", "answerPayment", "live", "undo", "liveOfRequest",
                                 "undoRequest"}
  BY <1>2 DEF AccountStarts, Existing
<1>4. /\ Existing(payments) = {} /\ Existing(payReqs) = {} /\ Existing(reversals) = {}
      /\ \A p \in Processes :
           pc[p] \notin {"complete", "answerPayment", "live", "undo", "liveOfRequest",
                         "undoRequest"}
  BY <1>3 DEF AccountStarts
<1>5. ASSUME UNCHANGED <<payments, payReqs, reversals>>, NEW p \in Processes, NEW l,
             pc' = [pc EXCEPT ![p] = l],
             l \notin {"complete", "answerPayment", "live", "undo", "liveOfRequest",
                       "undoRequest"}
      PROVE  /\ UNCHANGED <<payments, payReqs, reversals>>
             /\ \A x \in Processes :
                  pc'[x] \notin {"complete", "answerPayment", "live", "undo", "liveOfRequest",
                                 "undoRequest"}
  BY <1>4, <1>5 DEF AccountInv, Typed
<1>6. CASE Others
  BY <1>3, <1>4, <1>6 DEF Others, CreatePayRequest, CreateReversal, CreateAuthRequest, MarkOverdue,
                    VoidMovement, AtOnce, PayableOpen
<1>7. ASSUME NEW p \in Processes, Fail(p)
      PROVE  /\ UNCHANGED <<payments, payReqs, reversals>>
             /\ \A x \in Processes :
                  pc'[x] \notin {"complete", "answerPayment", "live", "undo", "liveOfRequest",
                                 "undoRequest"}
  BY <1>5, <1>7 DEF Fail, rows
<1>8. ASSUME NEW p \in Processes, Start(p)
      PROVE  /\ UNCHANGED <<payments, payReqs, reversals>>
             /\ \A x \in Processes :
                  pc'[x] \notin {"complete", "answerPayment", "live", "undo", "liveOfRequest",
                                 "undoRequest"}
  <2>. USE DEF Begin, rows
  <2>1. ~StartCajaApprovePayment(p) /\ ~StartAnswerPayment(p) /\ ~StartCajaApproveReversal(p)
    BY <1>4 DEF StartCajaApprovePayment, StartAnswerPayment, StartCajaApproveReversal
  <2>2. CASE StartRegisterPayment(p) \/ StartDeletePayment(p) \/ StartAnswerReversal(p)
    BY <1>5, <2>2 DEF StartRegisterPayment, StartDeletePayment, StartAnswerReversal
  <2>3. CASE StartUpdateTotal(p) \/ StartCancel(p) \/ StartAnswerAuth(p) \/ StartAuthorize(p)
    BY <1>5, <2>3 DEF StartUpdateTotal, StartCancel, StartAnswerAuth, StartAuthorize
  <2>. QED
    BY <1>8, <2>1, <2>2, <2>3 DEF Start
<1>9. ASSUME NEW p \in Processes, Step(p)
      PROVE  /\ UNCHANGED <<payments, payReqs, reversals>>
             /\ \A x \in Processes :
                  pc'[x] \notin {"complete", "answerPayment", "live", "undo", "liveOfRequest",
                                 "undoRequest"}
  <2>. USE DEF Goto, Done, Refuse, rows
  <2>1. ~InsertPayment(p) /\ ~UpdatePayable(p) /\ ~CompletePayRequest(p) /\ ~AnswerPayment(p)
    BY <1>3 DEF InsertPayment, UpdatePayable, CompletePayRequest, AnswerPayment
  <2>2. /\ ~CommitDelete(p) /\ ~AnswerReversal(p) /\ ~CommitReversal(p) /\ ~UpdateTotal(p)
        /\ ~Cancel(p) /\ ~Stamp(p) /\ ~AnswerAuth(p)
    BY <1>3 DEF CommitDelete, AnswerReversal, CommitReversal, UpdateTotal, Cancel, Stamp,
                AnswerAuth
  <2>3. ~ReadLive(p)
    BY <1>4 DEF ReadLive
  <2>4. CASE FindPayment(p)
    <3>1. job[p].row \in Payments
      BY <2>4, AccountJob DEF FindPayment, JobFits
    <3>2. payments[job[p].row] = None
      BY <1>1, <1>4, <3>1 DEF TablesTyped, Existing
    <3>. QED
      BY <1>5, <2>4, <3>2 DEF FindPayment
  <2>5. CASE AssertPayableAmount(p) \/ InsertMovement(p) \/ PaymentRefused(p)
    BY <1>5, <2>5 DEF AssertPayableAmount, InsertMovement, PaymentRefused
  <2>6. CASE RereadPayable(p) \/ Authorize(p)
    BY <1>5, <2>6 DEF RereadPayable, Authorize
  <2>. QED
    BY <1>9, <2>1, <2>2, <2>3, <2>4, <2>5, <2>6 DEF Step
<1>. QED
  BY <1>6, <1>7, <1>8, <1>9 DEF Next

\* Nobody comes to hold an approval, and none is used, made or given back.
LEMMA ApprovalsUntouched ==
  ASSUME ApprovalsHeld, UNCHANGED used,
         \A r \in EditRequests : \A p \in Processes : Holds(p, r)' => Holds(p, r),
         \A r \in EditRequests : MayServe(r)' => MayServe(r),
         \A r \in EditRequests :
           editReqs'[r] # None =>
             MayServe(r) \/ (editReqs[r] # None /\ editReqs'[r].consumed = editReqs[r].consumed)
  PROVE  ApprovalsHeld'
BY DEF ApprovalsHeld

\* An operation of the account keeps the invariant of its order.
LEMMA OrderOfAccountStep ==
  ASSUME OrderAccountInv, Next, UNCHANGED orderVars
  PROVE  OrderAccountInv'
<1>. USE DEF orderVars, requests, history
<1>1. /\ OrderTypeOK /\ AccountInv(OrderRows, OrderTargets, OrderPCs) /\ OrderJobFollows
      /\ RowsOfOrder /\ AccountStarts /\ ApprovalsHeld /\ SignedBefore
  BY DEF OrderAccountInv
<1>2. AccountInv(OrderRows, OrderTargets, OrderPCs)'
  BY <1>1, OrderIsWide, AccountKept
<1>3. OrderTypeOK'
  <2>1. starts' \in 0..MaxStarts /\ races' \in 0..MaxRaces /\ failures' \in 0..MaxFailures
    BY <1>1, Bounded DEF OrderTypeOK
  <2>. QED
    BY <1>1, <1>2, <2>1 DEF OrderTypeOK, AccountInv, Typed, TablesTyped, OrderJob
<1>4. RowsOfOrder' /\ AccountStarts'
  BY <1>1, StartsUntouched DEF RowsOfOrder
<1>5. Existing(movements) \subseteq Existing(movements')
  BY <1>1, MovementsStay
<1>6. pc \in [Processes -> OrderPCs] /\ job \in [Processes -> OrderJob]
  BY <1>1 DEF OrderTypeOK
<1>7. CASE UNCHANGED <<pc, job, failures>>
  <2>1. OrderJobFollows'
    BY <1>1, <1>5, <1>7 DEF OrderJobFollows, OrderFits
  <2>2. ApprovalsHeld'
    BY <1>1, <1>7, ApprovalsUntouched DEF Holds, MayServe
  <2>3. SignedBefore'
    BY <1>1, <1>7 DEF SignedBefore, Existing
  <2>. QED
    BY <1>2, <1>3, <1>4, <2>1, <2>2, <2>3 DEF OrderAccountInv
<1>8. CASE ~UNCHANGED <<pc, job, failures>>
  <2>1. PICK p \in Processes : \E l \in PCs : \E j :
          /\ pc' = [pc EXCEPT ![p] = l] /\ job' = [job EXCEPT ![p] = j]
          /\ j.to # "editPaid"
          /\ \/ pc[p] \in PCs /\ UNCHANGED failures
             \/ failures' = failures + 1
    BY <1>1, <1>8, AccountControl
  <2>2. PICK l \in PCs, j \in {job'[p]} :
          /\ pc' = [pc EXCEPT ![p] = l] /\ job' = [job EXCEPT ![p] = j]
          /\ j.to # "editPaid"
          /\ \/ pc[p] \in PCs /\ UNCHANGED failures
             \/ failures' = failures + 1
    BY <1>6, <2>1
  <2>3. /\ pc'[p] = l /\ job'[p] = j
        /\ \A x \in Processes : x # p => pc'[x] = pc[x] /\ job'[x] = job[x]
    BY <1>6, <2>2
  <2>4. ASSUME NEW x \in Processes PROVE OrderFits(job[x], pc[x])'
    <3>1. CASE x = p
      BY <2>2, <2>3, <3>1, LabelsApart DEF OrderFits
    <3>2. CASE x # p
      BY <1>1, <1>5, <2>3, <3>2 DEF OrderJobFollows, OrderFits
    <3>. QED
      BY <3>1, <3>2
  <2>5. \A r \in EditRequests : \A x \in Processes : Holds(x, r)' => Holds(x, r)
    BY <2>2, <2>3, LabelsApart DEF Holds
  <2>6. ApprovalsHeld'
    BY <1>1, <2>5, ApprovalsUntouched DEF MayServe
  <2>7. SignedBefore'
    <3>1. order' # None /\ order'.status \notin Unsigned => signatures' > 0
      BY <1>1 DEF SignedBefore
    <3>2. \A x \in Processes :
            pc'[x] \in {"closeRequests", "egress", "nextEgress", "paid"} => signatures' > 0
      BY <1>1, <2>2, <2>3, LabelsApart DEF SignedBefore
    <3>3. ASSUME NEW r \in Existing(authReqs'), authReqs'[r].status = "APPROVED", failures' = 0
          PROVE  signatures' > 0 \/ \E x \in Processes : pc'[x] \in {"autoSign", "sign"}
      <4>1. failures \in Nat
        BY <1>1, PayablesAssumption DEF OrderTypeOK
      <4>. QED
        BY <1>1, <2>2, <2>3, <3>3, <4>1, LabelsApart DEF SignedBefore, Existing
    <3>. QED
      BY <3>1, <3>2, <3>3 DEF SignedBefore
  <2>. QED
    BY <1>2, <1>3, <1>4, <2>4, <2>6, <2>7 DEF OrderAccountInv, OrderJobFollows
<1>. QED
  BY <1>7, <1>8

-----------------------------------------------------------------------------
(* The steps of the order, and what they need to keep.                     *)

\* The tables of the order and its history keep their types.
OrderTabled ==
  /\ order \in [status : OrderStatuses, total : Int] \cup {None} /\ born \in BOOLEAN
  /\ authReqs \in [AuthRequests -> AuthRequest \cup {None}]
  /\ editReqs \in [EditRequests -> EditRequest \cup {None}]
  /\ signatures \in Nat /\ paidOut \in Nat /\ used \in [EditRequests -> Nat]

\* The parts of the invariant, for every process.
LEMMA OrderFacts ==
  ASSUME OrderAccountInv
  PROVE  /\ OrderTabled /\ TablesTyped /\ AccountInv(OrderRows, OrderTargets, OrderPCs)
         /\ OrderJobFollows /\ RowsOfOrder /\ AccountStarts /\ ApprovalsHeld /\ SignedBefore
         /\ starts \in 0..MaxStarts /\ races \in 0..MaxRaces /\ failures \in 0..MaxFailures
         /\ pc \in [Processes -> OrderPCs] /\ job \in [Processes -> OrderJob]
         /\ \A p \in Processes : /\ job[p] \in OrderJob /\ JobFits(job[p], pc[p])
                                 /\ FoundBy(job[p], pc[p]) /\ OrderFits(job[p], pc[p])
BY AccountJob DEF OrderAccountInv, OrderTypeOK, OrderTabled, OrderJobFollows, OrderJob, TablesTyped,
                  AccountInv, Typed

\* One process takes a step of the order: what is asked of its job and of the rows.
LEMMA OrderMoves ==
  ASSUME OrderAccountInv, NEW p \in Processes, NEW l, NEW j,
         pc' = [pc EXCEPT ![p] = l], job' = [job EXCEPT ![p] = j],
         starts' \in 0..MaxStarts, races' \in 0..MaxRaces, failures' \in 0..MaxFailures,
         AccountInv(OrderRows, OrderTargets, OrderPCs)', OrderTabled',
         Existing(movements) \subseteq Existing(movements'),
         OrderFits(j, l)', RowsOfOrder', AccountStarts', ApprovalsHeld', SignedBefore'
  PROVE  OrderAccountInv'
<1>1. OrderTypeOK'
  BY DEF OrderTypeOK, OrderTabled, AccountInv, Typed, TablesTyped, OrderJob
<1>2. /\ pc'[p] = l /\ job'[p] = j
      /\ \A x \in Processes : x # p => pc'[x] = pc[x] /\ job'[x] = job[x]
  BY OrderFacts
<1>3. ASSUME NEW x \in Processes PROVE OrderFits(job[x], pc[x])'
  <2>1. CASE x = p
    BY <1>2, <2>1 DEF OrderFits
  <2>2. CASE x # p
    BY <1>2, <2>2, OrderFacts DEF OrderFits
  <2>. QED
    BY <2>1, <2>2
<1>. QED
  BY <1>1, <1>3 DEF OrderAccountInv, OrderJobFollows

Opening == {"complete", "answerPayment", "live", "undo", "liveOfRequest", "undoRequest"}

\* The same where no row is written.
LEMMA OrderWaits ==
  ASSUME OrderAccountInv, NEW p \in Processes, NEW l \in OrderPCs, NEW j \in OrderJob,
         pc' = [pc EXCEPT ![p] = l], job' = [job EXCEPT ![p] = j], OnlyControl,
         starts' \in 0..MaxStarts, races' \in 0..MaxRaces, failures' \in 0..MaxFailures,
         failures' >= failures, JobFits(j, l), FoundBy(j, l), OrderFits(j, l),
         l \notin Opening \cup {"closeRequests", "egress", "nextEgress", "paid"},
         \A r \in EditRequests :
           l \in Editing /\ j.to = "editPaid" /\ j.row = r => Holds(p, r),
         pc[p] \in {"autoSign", "sign"} =>
           l \in {"autoSign", "sign"} \/ signatures > 0 \/ Existing(authReqs) = {}
  PROVE  OrderAccountInv'
<1>. USE DEF OnlyControl, orderVars, requests, history, rows
<1>1. /\ OrderTabled /\ TablesTyped /\ AccountInv(OrderRows, OrderTargets, OrderPCs)
      /\ OrderJobFollows /\ RowsOfOrder /\ AccountStarts /\ ApprovalsHeld /\ SignedBefore
      /\ failures \in 0..MaxFailures
      /\ pc \in [Processes -> OrderPCs] /\ job \in [Processes -> OrderJob]
  BY OrderFacts
<1>2. AccountInv(OrderRows, OrderTargets, OrderPCs)'
  BY <1>1, AccountWaits DEF OrderJob
<1>3. /\ pc'[p] = l /\ job'[p] = j
      /\ \A x \in Processes : x # p => pc'[x] = pc[x] /\ job'[x] = job[x]
  BY <1>1
<1>4. OrderTabled' /\ RowsOfOrder' /\ Existing(movements) \subseteq Existing(movements')
  BY <1>1 DEF OrderTabled, RowsOfOrder, Existing
<1>5. OrderFits(j, l)'
  BY DEF OrderFits, Existing
<1>6. AccountStarts'
  BY <1>1, <1>3 DEF AccountStarts, Existing, Opening
<1>7. ApprovalsHeld'
  <2>1. \A r \in EditRequests : \A x \in Processes : Holds(x, r)' => Holds(x, r)
    BY <1>3 DEF Holds
  <2>. QED
    BY <1>1, <2>1, ApprovalsUntouched DEF MayServe
<1>8. SignedBefore'
  <2>1. order' # None /\ order'.status \notin Unsigned => signatures' > 0
    BY <1>1 DEF SignedBefore
  <2>2. \A x \in Processes :
          pc'[x] \in {"closeRequests", "egress", "nextEgress", "paid"} => signatures' > 0
    BY <1>1, <1>3 DEF SignedBefore
  <2>3. ASSUME NEW r \in Existing(authReqs'), authReqs'[r].status = "APPROVED", failures' = 0
        PROVE  signatures' > 0 \/ \E x \in Processes : pc'[x] \in {"autoSign", "sign"}
    <3>1. failures = 0 /\ r \in Existing(authReqs) /\ authReqs[r].status = "APPROVED"
      BY <1>1, <2>3, PayablesAssumption DEF Existing
    <3>2. CASE signatures > 0
      BY <3>2
    <3>3. CASE \E x \in Processes : pc[x] \in {"autoSign", "sign"}
      BY <1>3, <3>1, <3>3
    <3>. QED
      BY <1>1, <3>1, <3>2, <3>3 DEF SignedBefore
  <2>. QED
    BY <2>1, <2>2, <2>3 DEF SignedBefore
<1>. QED
  BY <1>2, <1>4, <1>5, <1>6, <1>7, <1>8, OrderMoves

\* Within an operation.
LEMMA OrderGoes ==
  ASSUME OrderAccountInv, NEW p \in Processes, NEW l \in OrderPCs, NEW j \in OrderJob,
         Goto(p, l, j), OnlyControl,
         JobFits(j, l), FoundBy(j, l), OrderFits(j, l),
         l \notin Opening \cup {"closeRequests", "egress", "nextEgress", "paid"},
         \A r \in EditRequests :
           l \in Editing /\ j.to = "editPaid" /\ j.row = r => Holds(p, r),
         pc[p] \in {"autoSign", "sign"} =>
           l \in {"autoSign", "sign"} \/ signatures > 0 \/ Existing(authReqs) = {}
  PROVE  OrderAccountInv'
<1>1. /\ pc' = [pc EXCEPT ![p] = l] /\ job' = [job EXCEPT ![p] = j]
      /\ UNCHANGED <<starts, races, failures>>
  BY DEF Goto, bounds
<1>2. /\ starts' \in 0..MaxStarts /\ races' \in 0..MaxRaces /\ failures' \in 0..MaxFailures
      /\ failures' >= failures
  BY <1>1, OrderFacts, PayablesAssumption
<1>. QED
  BY <1>1, <1>2, OrderWaits

\* An idle process holds nothing.
LEMMA NoJobFits ==
  /\ NoJob \in OrderJob /\ "idle" \in OrderPCs
  /\ JobFits(NoJob, "idle") /\ FoundBy(NoJob, "idle") /\ OrderFits(NoJob, "idle")
  /\ FoundBy(NoJob, "idle")' /\ OrderFits(NoJob, "idle")'
<1>1. NoJob.to # "editPaid" /\ NoJob.row = None /\ NoJob.movement = None
  BY ExpenseOrdersAssumption DEF NoJob
<1>2. NoJob \in OrderJob
  BY DEF NoJob, OrderJob, JobOf, OrderRows, OrderTargets
<1>. QED
  BY <1>1, <1>2 DEF OrderPCs, PCs, JobFits, FoundBy, OrderFits, Editing

\* An operation of the order ends and writes nothing.
LEMMA OrderEnds ==
  ASSUME OrderAccountInv, NEW p \in Processes, Done(p), OnlyControl,
         pc[p] \in {"autoSign", "sign"} => signatures > 0 \/ Existing(authReqs) = {}
  PROVE  OrderAccountInv'
<1>1. PICK j : j = NoJob
  OBVIOUS
<1>2. /\ j \in OrderJob /\ "idle" \in OrderPCs
      /\ JobFits(j, "idle") /\ FoundBy(j, "idle") /\ OrderFits(j, "idle") /\ Goto(p, "idle", j)
  BY <1>1, NoJobFits DEF Done
<1>. QED
  BY <1>2, OrderGoes DEF Opening, Editing

\* An exception gives back the approval the edit held.
LEMMA OrderThrows ==
  ASSUME OrderAccountInv, NEW p \in Processes, Throw(p), pc[p] # "consume",
         pc[p] \in {"autoSign", "sign"} => signatures > 0 \/ Existing(authReqs) = {}
  PROVE  OrderAccountInv'
<1>1. CASE job[p].to = "editPaid" /\ job[p].row # None
  <2>1. PICK j : j = job[p]
    OBVIOUS
  <2>2. j \in OrderJob /\ FoundBy(j, pc[p]) /\ OrderFits(j, pc[p]) /\ pc[p] \in Editing
    BY <1>1, <2>1, OrderFacts DEF OrderFits
  <2>3. JobFits(j, "giveBack") /\ FoundBy(j, "giveBack") /\ OrderFits(j, "giveBack")
    BY <1>1, <2>1, <2>2 DEF JobFits, FoundBy, OrderFits, Editing
  <2>4. \A r \in EditRequests : j.to = "editPaid" /\ j.row = r => Holds(p, r)
    BY <2>1, <2>2 DEF Holds
  <2>5. Goto(p, "giveBack", j) /\ OnlyControl /\ "giveBack" \in OrderPCs
    BY <1>1, <2>1 DEF Throw, OrderPCs
  <2>. QED
    BY <2>2, <2>3, <2>4, <2>5, OrderGoes DEF Opening
<1>2. CASE ~(job[p].to = "editPaid" /\ job[p].row # None)
  BY <1>2, OrderEnds DEF Throw
<1>. QED
  BY <1>1, <1>2

\* An operation of the order begins: it holds nothing yet.
LEMMA OrderBegins ==
  ASSUME OrderAccountInv, NEW p \in Processes, NEW kind, NEW j \in OrderJob,
         NEW l \in {"insertOrder", "sign", "toCreated", "toDraft", "answerRequest", "claim",
                    "items", "consume", "answerEdit", "delete"},
         BeginOrder(p, kind, j, l), j.movement = None, OrderFits(j, l),
         l = "items" => j.row = None
  PROVE  OrderAccountInv'
<1>1. /\ pc[p] = "idle" /\ pc' = [pc EXCEPT ![p] = l] /\ job' = [job EXCEPT ![p] = j]
      /\ OnlyControl /\ UNCHANGED failures
      /\ starts < MaxStarts /\ starts' = starts + 1
      /\ races' = races \/ (races < MaxRaces /\ races' = races + 1)
  BY OrderFacts DEF BeginOrder, Begin, OnlyControl, Counted
<1>2. /\ starts' \in 0..MaxStarts /\ races' \in 0..MaxRaces /\ failures' \in 0..MaxFailures
      /\ failures' >= failures
  BY <1>1, OrderFacts, PayablesAssumption
<1>3. l \in OrderPCs /\ JobFits(j, l) /\ FoundBy(j, l)
  BY DEF OrderPCs, JobFits, FoundBy
<1>4. \A r \in EditRequests :
        l \in Editing /\ j.to = "editPaid" /\ j.row = r => Holds(p, r)
  BY ExpenseOrdersAssumption DEF Editing
<1>5. /\ l \notin Opening \cup {"closeRequests", "egress", "nextEgress", "paid"}
      /\ pc[p] \notin {"autoSign", "sign"}
  BY <1>1 DEF Opening
<1>. QED
  BY <1>1, <1>2, <1>3, <1>4, <1>5, OrderWaits

\* Every operation of the order starts within the invariant.
LEMMA OrderStarts ==
  ASSUME OrderAccountInv, NEW p \in Processes, OrderStart(p)
  PROVE  OrderAccountInv'
<1>. USE DEF OrderFits, Editing
<1>1. /\ NoJob \in OrderJob /\ NoJob.to = None /\ NoJob.row = None /\ NoJob.movement = None
      /\ None \notin {"create", "pay", "edit", "editPaid"}
  BY NoJobFits, ExpenseOrdersAssumption DEF NoJob
<1>2. \A t \in Totals : t \in Int
  BY PayablesAssumption
<1>3. ASSUME NEW t \in Int, NEW s \in Int, NEW k \in {"create", "pay"}, NEW j,
             j = [NoJob EXCEPT !.amount = t, !.sum = s, !.to = k]
      PROVE  j \in OrderJob /\ j.movement = None /\ j.to # "editPaid" /\ j.row = None
  BY <1>3, ExpenseOrdersAssumption DEF NoJob, OrderJob, JobOf, OrderRows, OrderTargets
<1>4. CASE StartCreate(p)
  <2>0. PICK t \in Totals :
          BeginOrder(p, "create", [NoJob EXCEPT !.amount = t, !.sum = t, !.to = "create"],
                     "insertOrder")
    BY <1>4 DEF StartCreate
  <2>1. PICK j : /\ j = [NoJob EXCEPT !.amount = t, !.sum = t, !.to = "create"]
                 /\ BeginOrder(p, "create", j, "insertOrder")
    BY <2>0
  <2>2. j \in OrderJob /\ j.movement = None /\ j.to # "editPaid" /\ j.row = None
    BY <1>2, <1>3, <2>1
  <2>. QED
    BY <2>1, <2>2, OrderBegins
<1>5. CASE StartUpdateStatus(p) \/ StartCajaReject(p)
  <2>1. PICK kind, l, j :
          /\ j = NoJob /\ l \in {"sign", "toCreated", "toDraft"} /\ BeginOrder(p, kind, j, l)
    BY <1>5 DEF StartUpdateStatus, StartCajaReject
  <2>. QED
    BY <1>1, <2>1, OrderBegins
<1>6. CASE StartCajaAuthorize(p)
  <2>1. PICK t : t = order.total
    OBVIOUS
  <2>2. t \in Int
    BY <1>6, <2>1, OrderFacts DEF StartCajaAuthorize, InStatus, OrderTabled
  <2>3. PICK j : j = [NoJob EXCEPT !.amount = t, !.sum = t, !.to = "pay"]
    OBVIOUS
  <2>4. j \in OrderJob /\ j.movement = None /\ j.to # "editPaid" /\ j.row = None
    BY <1>3, <2>2, <2>3
  <2>5. BeginOrder(p, "cajaAuthorize", j, "claim")
    BY <1>6, <2>1, <2>3 DEF StartCajaAuthorize
  <2>. QED
    BY <2>4, <2>5, OrderBegins
<1>7. ASSUME NEW kind, NEW l, NEW r, NEW to, to \in {"APPROVED", "REJECTED", "EXPIRED"}, NEW j,
             \/ l = "answerRequest" /\ r \in Existing(authReqs)
             \/ l = "answerEdit" /\ r \in Existing(editReqs),
             j = [NoJob EXCEPT !.row = r, !.to = to], BeginOrder(p, kind, j, l)
      PROVE  OrderAccountInv'
  <2>1. /\ l = "answerRequest" => r \in AuthRequests
        /\ l = "answerEdit" => r \in EditRequests
    BY <1>7, OrderFacts DEF OrderTabled, Existing
  <2>2. r \in OrderRows /\ to \in OrderTargets /\ to \in Answers
    BY <1>7, <2>1 DEF OrderRows, OrderTargets, Answers
  <2>3. /\ j \in OrderJob /\ j.movement = None /\ j.to = to /\ j.row = r
    BY <1>1, <1>7, <2>2 DEF OrderJob, JobOf
  <2>4. OrderFits(j, l)
    BY <1>7, <2>1, <2>2, <2>3
  <2>. QED
    BY <1>7, <2>3, <2>4, OrderBegins
<1>11. CASE StartAnswerRequest(p)
  <2>1. PICK r \in Existing(authReqs), to \in {"APPROVED", "REJECTED", "EXPIRED"} :
          /\ authReqs[r].status = "PENDING"
          /\ BeginOrder(p, "authRequest", [NoJob EXCEPT !.row = r, !.to = to], "answerRequest")
    BY <1>11 DEF StartAnswerRequest
  <2>2. PICK j : j = [NoJob EXCEPT !.row = r, !.to = to]
    OBVIOUS
  <2>. QED
    BY <1>7, <2>1, <2>2
<1>12. CASE StartAnswerEdit(p)
  <2>1. PICK r \in Existing(editReqs), to \in {"APPROVED", "REJECTED", "EXPIRED"} :
          /\ editReqs[r].status = "PENDING"
          /\ BeginOrder(p, "editRequest", [NoJob EXCEPT !.row = r, !.to = to], "answerEdit")
    BY <1>12 DEF StartAnswerEdit
  <2>2. PICK j : j = [NoJob EXCEPT !.row = r, !.to = to]
    OBVIOUS
  <2>. QED
    BY <1>7, <2>1, <2>2
<1>8. CASE StartEdit(p)
  <2>0. PICK t \in Totals :
          BeginOrder(p, "edit", [NoJob EXCEPT !.amount = t, !.to = "edit"], "items")
    BY <1>8 DEF StartEdit
  <2>1. PICK j : /\ j = [NoJob EXCEPT !.amount = t, !.to = "edit"]
                 /\ BeginOrder(p, "edit", j, "items")
    BY <2>0
  <2>3. t \in Int
    BY <1>2
  <2>4. "edit" \in OrderTargets
    BY DEF OrderTargets
  <2>2. j \in OrderJob /\ j.movement = None /\ j.to = "edit" /\ j.row = None
    BY <1>1, <2>1, <2>3, <2>4 DEF OrderJob, JobOf
  <2>. QED
    BY <2>1, <2>2, OrderBegins
<1>9. CASE StartEditPaid(p)
  <2>1. PICK t \in Totals, r \in EditRequests \cup {None} :
          BeginOrder(p, "editPaid", [NoJob EXCEPT !.amount = t, !.row = r, !.to = "editPaid"],
                     IF r = None THEN "items" ELSE "consume")
    BY <1>9 DEF StartEditPaid
  <2>2. PICK j : j = [NoJob EXCEPT !.amount = t, !.row = r, !.to = "editPaid"]
    OBVIOUS
  <2>3. j \in OrderJob /\ j.movement = None /\ j.to = "editPaid" /\ j.row = r
    <3>1. t \in Int
      BY <1>2
    <3>2. "editPaid" \in OrderTargets /\ r \in OrderRows
      BY DEF OrderTargets, OrderRows
    <3>. QED
      BY <1>1, <2>2, <3>1, <3>2 DEF OrderJob, JobOf
  <2>4. CASE r = None
    BY <2>1, <2>2, <2>3, <2>4, OrderBegins
  <2>5. CASE r # None
    BY <2>1, <2>2, <2>3, <2>5, OrderBegins
  <2>. QED
    BY <2>4, <2>5
<1>10. CASE StartRemove(p)
  <2>1. PICK j :
          /\ j = [NoJob EXCEPT !.seen = payable] /\ BeginOrder(p, "remove", j, "delete")
    BY <1>10 DEF StartRemove
  <2>2. payable \in Payable \cup {None}
    BY OrderFacts DEF TablesTyped
  <2>3. j \in OrderJob /\ j.movement = None /\ j.to = None /\ j.row = None
    BY <2>1, <2>2 DEF NoJob, OrderJob, JobOf, OrderRows, OrderTargets
  <2>. QED
    BY <1>1, <2>1, <2>3, OrderBegins
<1>. QED
  BY <1>4, <1>5, <1>6, <1>8, <1>9, <1>10, <1>11, <1>12 DEF OrderStart

\* An edit, or the payment, goes on with what it held.
LEMMA StaysEditing ==
  ASSUME OrderAccountInv, NEW p \in Processes, pc[p] \in Editing,
         NEW l \in Editing \ {"giveBack"}, NEW j \in OrderJob, Goto(p, l, j), OnlyControl,
         j.to = job[p].to, j.row = job[p].row, j.movement = job[p].movement,
         l \in {"reflect", "sync", "recalculate"} => j.seen # None,
         l = "reflect" => j.found \subseteq Existing(movements)
  PROVE  OrderAccountInv'
<1>1. OrderFits(job[p], pc[p]) /\ FoundBy(job[p], pc[p])
  BY OrderFacts
<1>2. OrderFits(j, l) /\ JobFits(j, l) /\ FoundBy(j, l) /\ l \in OrderPCs
  BY <1>1 DEF OrderFits, JobFits, FoundBy, Editing, OrderPCs
<1>3. \A r \in EditRequests : j.to = "editPaid" /\ j.row = r => Holds(p, r)
  BY DEF Holds
<1>. QED
  BY <1>2, <1>3, OrderGoes DEF Opening, Editing

\* The steps of the order that write nothing.
LEMMA OrderReads ==
  ASSUME OrderAccountInv, NEW p \in Processes,
         \/ FindMirror(p) \/ MirrorRefused(p) \/ AutoSign(p) \/ ClaimLost(p)
         \/ ReadUnreflected(p) \/ ReflectRefused(p) \/ ConsumeRefused(p)
         \/ DeleteRefused(p) \/ OrderGone(p) \/ AccountGone(p) \/ EditFails(p)
  PROVE  OrderAccountInv'
<1>1. /\ job[p] \in OrderJob /\ OrderFits(job[p], pc[p]) /\ FoundBy(job[p], pc[p])
      /\ TablesTyped /\ RowsOfOrder /\ SignedBefore
  BY OrderFacts
<1>2. CASE MirrorRefused(p) \/ ReflectRefused(p) \/ DeleteRefused(p) \/ AccountGone(p)
  BY <1>2, OrderThrows DEF MirrorRefused, ReflectRefused, DeleteRefused, AccountGone
<1>3. CASE OrderGone(p)
  <2>1. Existing(authReqs) = {}
    BY <1>1, <1>3 DEF OrderGone, RowsOfOrder, Existing
  <2>. QED
    BY <1>3, <2>1, OrderThrows DEF OrderGone
<1>4. CASE ClaimLost(p) \/ ConsumeRefused(p)
  BY <1>4, OrderEnds DEF ClaimLost, ConsumeRefused
<1>5. CASE AutoSign(p)
  <2>1. CASE InStatus(Unsigned)
    <3>1. PICK j : j = NoJob
      OBVIOUS
    <3>2. /\ j \in OrderJob /\ JobFits(j, "sign") /\ FoundBy(j, "sign") /\ OrderFits(j, "sign")
          /\ "sign" \in OrderPCs
      <4>1. j \in OrderJob /\ j.to # "editPaid" /\ j.movement = None
        BY <3>1, NoJobFits, ExpenseOrdersAssumption DEF NoJob
      <4>. QED
        BY <4>1 DEF JobFits, FoundBy, OrderFits, OrderPCs, Editing
    <3>3. Goto(p, "sign", j) /\ OnlyControl
      BY <1>5, <2>1, <3>1 DEF AutoSign
    <3>. QED
      BY <3>2, <3>3, OrderGoes DEF Opening, Editing
  <2>2. CASE ~InStatus(Unsigned)
    <3>1. signatures > 0 \/ Existing(authReqs) = {}
      BY <1>1, <2>2 DEF InStatus, RowsOfOrder, SignedBefore, Existing
    <3>. QED
      BY <1>5, <2>2, <3>1, OrderEnds DEF AutoSign
  <2>. QED
    BY <2>1, <2>2
<1>6. CASE FindMirror(p)
  <2>1. pc[p] = "findMirror" /\ OnlyControl
    BY <1>6 DEF FindMirror
  <2>2. \/ Done(p) \/ \E l \in {"unreflected", "insertMirror"} : Goto(p, l, job[p])
    BY <1>6 DEF FindMirror, MirrorReady
  <2>3. CASE Done(p)
    BY <2>1, <2>3, OrderEnds
  <2>4. ASSUME NEW l \in {"unreflected", "insertMirror"}, Goto(p, l, job[p])
        PROVE  OrderAccountInv'
    <3>1. PICK j : j = job[p]
      OBVIOUS
    <3>2. Goto(p, l, j) /\ j \in OrderJob /\ j.to = job[p].to /\ j.row = job[p].row
          /\ j.movement = job[p].movement
      BY <1>1, <2>4, <3>1
    <3>. QED
      BY <2>1, <3>2, StaysEditing DEF Editing
  <2>. QED
    BY <2>2, <2>3, <2>4
<1>7. CASE ReadUnreflected(p)
  <2>1. pc[p] = "unreflected" /\ OnlyControl
    BY <1>7 DEF ReadUnreflected
  <2>2. CASE Done(p)
    BY <2>1, <2>2, OrderEnds
  <2>3. CASE Goto(p, "refresh", job[p])
    <3>1. PICK j : j = job[p]
      OBVIOUS
    <3>2. Goto(p, "refresh", j) /\ j \in OrderJob /\ j.to = job[p].to /\ j.row = job[p].row
          /\ j.movement = job[p].movement
      BY <1>1, <2>3, <3>1
    <3>. QED
      BY <2>1, <3>2, StaysEditing DEF Editing
  <2>4. CASE /\ payable # None
             /\ Goto(p, "reflect", [job[p] EXCEPT !.seen = payable, !.found = Unreflected])
    <3>1. PICK f : f = Unreflected
      OBVIOUS
    <3>2. PICK j : j = [job[p] EXCEPT !.seen = payable, !.found = f]
      OBVIOUS
    <3>3. f \subseteq Existing(movements) /\ f \in SUBSET Movements
      BY <1>1, <3>1 DEF Unreflected, Existing, TablesTyped
    <3>4. payable \in Payable \cup {None}
      BY <1>1 DEF TablesTyped
    <3>5. /\ j \in OrderJob /\ j.to = job[p].to /\ j.row = job[p].row
          /\ j.movement = job[p].movement /\ j.seen = payable /\ j.found = f
      BY <1>1, <3>2, <3>3, <3>4 DEF OrderJob, JobOf
    <3>6. Goto(p, "reflect", j)
      BY <2>4, <3>1, <3>2
    <3>. QED
      BY <2>1, <2>4, <3>3, <3>5, <3>6, StaysEditing DEF Editing
  <2>. QED
    BY <1>7, <2>2, <2>3, <2>4 DEF ReadUnreflected, Settled
<1>8. CASE EditFails(p)
  <2>1. PICK j : j = job[p]
    OBVIOUS
  <2>2. /\ pc[p] \in Editing \ {"giveBack"} /\ j.to = "editPaid" /\ j.row # None
        /\ failures < MaxFailures /\ failures' = failures + 1 /\ UNCHANGED <<starts, races>>
        /\ pc' = [pc EXCEPT ![p] = "giveBack"] /\ OnlyControl
    BY <1>8, <2>1 DEF EditFails, Editing
  <2>3. job' = [job EXCEPT ![p] = j]
    BY <1>8, <2>1, OrderFacts DEF EditFails
  <2>4. /\ starts' \in 0..MaxStarts /\ races' \in 0..MaxRaces /\ failures' \in 0..MaxFailures
        /\ failures' >= failures
    BY <2>2, OrderFacts, PayablesAssumption
  <2>5. /\ j \in OrderJob /\ JobFits(j, "giveBack") /\ FoundBy(j, "giveBack")
        /\ OrderFits(j, "giveBack") /\ "giveBack" \in OrderPCs
    BY <1>1, <2>1, <2>2 DEF JobFits, FoundBy, OrderFits, OrderPCs, Editing
  <2>6. \A r \in EditRequests : j.to = "editPaid" /\ j.row = r => Holds(p, r)
    BY <2>1, <2>2 DEF Holds
  <2>7. pc[p] \notin {"autoSign", "sign"}
    BY <2>2 DEF Editing
  <2>. QED
    BY <2>2, <2>3, <2>4, <2>5, <2>6, <2>7, OrderWaits DEF Opening
<1>. QED
  BY <1>2, <1>3, <1>4, <1>5, <1>6, <1>7, <1>8

\* One process takes a step that writes the tables of the order alone.
LEMMA OrderWrites ==
  ASSUME OrderAccountInv, NEW p \in Processes, NEW l \in OrderPCs, NEW j \in OrderJob,
         Goto(p, l, j), UNCHANGED rows, JobFits(j, l), FoundBy(j, l), OrderFits(j, l),
         OrderTabled', RowsOfOrder', AccountStarts', ApprovalsHeld', SignedBefore'
  PROVE  OrderAccountInv'
<1>1. /\ pc' = [pc EXCEPT ![p] = l] /\ job' = [job EXCEPT ![p] = j]
      /\ UNCHANGED <<starts, races, failures>> /\ UNCHANGED movements
  BY DEF Goto, bounds, rows
<1>2. AccountInv(OrderRows, OrderTargets, OrderPCs)'
  BY <1>1, OrderFacts, AccountWaits DEF OrderJob
<1>3. /\ starts' \in 0..MaxStarts /\ races' \in 0..MaxRaces /\ failures' \in 0..MaxFailures
  BY <1>1, OrderFacts
<1>4. Existing(movements) \subseteq Existing(movements') /\ OrderFits(j, l)'
  BY <1>1 DEF OrderFits, Existing
<1>. QED
  BY <1>1, <1>2, <1>3, <1>4, OrderMoves

\* The account is not there yet: no row of it is made.
LEMMA StartsKept ==
  ASSUME OrderAccountInv, NEW p \in Processes, NEW l, pc' = [pc EXCEPT ![p] = l],
         l \notin Opening, UNCHANGED <<payable, payments, payReqs, reversals>>,
         order' # None \/ ~born' => order # None \/ ~born, ~born' => ~born
  PROVE  AccountStarts'
<1>1. AccountStarts /\ pc \in [Processes -> OrderPCs]
  BY OrderFacts
<1>. QED
  BY <1>1 DEF AccountStarts, Existing, Opening

\* The signature comes first.
LEMMA SignedKept ==
  ASSUME OrderAccountInv, NEW p \in Processes, NEW l, pc' = [pc EXCEPT ![p] = l],
         signatures' >= signatures, signatures' \in Nat, UNCHANGED failures,
         order' # None /\ order'.status \notin Unsigned => signatures' > 0,
         l \in {"closeRequests", "egress", "nextEgress", "paid"} => signatures' > 0,
         \A r \in Existing(authReqs') :
           authReqs'[r].status = "APPROVED" =>
             \/ r \in Existing(authReqs) /\ authReqs[r].status = "APPROVED"
             \/ signatures' > 0 \/ l \in {"autoSign", "sign"},
         pc[p] \in {"autoSign", "sign"} => l \in {"autoSign", "sign"} \/ signatures' > 0
  PROVE  SignedBefore'
<1>1. SignedBefore /\ pc \in [Processes -> OrderPCs] /\ signatures \in Nat
  BY OrderFacts DEF OrderTabled
<1>2. pc'[p] = l /\ \A x \in Processes : x # p => pc'[x] = pc[x]
  BY <1>1
<1>3. \A x \in Processes :
        pc'[x] \in {"closeRequests", "egress", "nextEgress", "paid"} => signatures' > 0
  BY <1>1, <1>2 DEF SignedBefore
<1>4. ASSUME NEW r \in Existing(authReqs'), authReqs'[r].status = "APPROVED", failures' = 0
      PROVE  signatures' > 0 \/ \E x \in Processes : pc'[x] \in {"autoSign", "sign"}
  <2>1. CASE r \in Existing(authReqs) /\ authReqs[r].status = "APPROVED"
    <3>1. signatures > 0 \/ \E x \in Processes : pc[x] \in {"autoSign", "sign"}
      BY <1>1, <1>4, <2>1 DEF SignedBefore
    <3>. QED
      BY <1>1, <1>2, <3>1
  <2>2. CASE l \in {"autoSign", "sign"}
    BY <1>2, <2>2
  <2>. QED
    BY <1>4, <2>1, <2>2
<1>. QED
  BY <1>3, <1>4 DEF SignedBefore

\* A process that holds no approval goes on without one.
LEMMA HoldsNoMore ==
  ASSUME OrderAccountInv, NEW p \in Processes, NEW l, NEW j,
         pc' = [pc EXCEPT ![p] = l], job' = [job EXCEPT ![p] = j],
         \A r \in EditRequests :
           l \in Editing /\ j.to = "editPaid" /\ j.row = r => Holds(p, r)
  PROVE  \A r \in EditRequests : \A x \in Processes : Holds(x, r)' => Holds(x, r)
BY OrderFacts DEF Holds

\* What the job of a process is good for stays so along the statements of an edit.
LEMMA SameJob ==
  ASSUME OrderAccountInv, NEW p \in Processes
  PROVE  /\ job[p] \in OrderJob /\ FoundBy(job[p], pc[p]) /\ OrderFits(job[p], pc[p])
         /\ pc[p] \notin {"consume"} \cup Editing => job[p].to # "editPaid"
         /\ pc[p] \in Editing /\ job[p].to = "editPaid" =>
              \A r \in EditRequests : job[p].row = r => Holds(p, r)
BY OrderFacts DEF OrderFits, Holds

\* create: the order is born with no account and no request.
LEMMA OrderInserted ==
  ASSUME OrderAccountInv, NEW p \in Processes, InsertOrder(p)
  PROVE  OrderAccountInv'
<1>1. /\ OrderTabled /\ RowsOfOrder /\ AccountStarts /\ ApprovalsHeld
  BY OrderFacts
<1>2. CASE born
  <2>1. Done(p) /\ OnlyControl /\ pc[p] = "insertOrder"
    BY <1>2 DEF InsertOrder
  <2>. QED
    BY <2>1, OrderEnds
<1>3. CASE ~born
  <2>1. PICK s \in Unsigned \cup {"ADMIN_AUTHORIZED"} :
          /\ order' = [status |-> s, total |-> job[p].amount]
          /\ signatures' = signatures + (IF s = "ADMIN_AUTHORIZED" THEN 1 ELSE 0)
    BY <1>3 DEF InsertOrder
  <2>2. /\ pc[p] = "insertOrder" /\ born' = TRUE /\ Goto(p, "findMirror", job[p])
        /\ UNCHANGED <<rows, authReqs, editReqs, paidOut, used>>
    BY <1>3 DEF InsertOrder, requests
  <2>3. PICK j : j = job[p]
    OBVIOUS
  <2>4. /\ j \in OrderJob /\ j.to # "editPaid" /\ OrderFits(j, "insertOrder")
        /\ FoundBy(j, "insertOrder")
    BY <2>2, <2>3, SameJob DEF Editing
  <2>5. order = None /\ authReqs = [r \in AuthRequests |-> None]
        /\ editReqs = [r \in EditRequests |-> None]
    BY <1>1, <1>3 DEF RowsOfOrder
  <2>6. /\ order' \in [status : OrderStatuses, total : Int] /\ order' # None
        /\ order'.status = s /\ signatures' \in Nat /\ signatures' >= signatures
        /\ s = "ADMIN_AUTHORIZED" => signatures' > 0
    <3>1. job[p].amount \in Int
      BY <2>3, <2>4 DEF OrderJob, JobOf
    <3>2. order' \in [status : OrderStatuses, total : Int]
      BY <2>1, <3>1 DEF OrderStatuses, Unsigned
    <3>3. order' # None
      BY <3>2, ExpenseOrdersAssumption
    <3>. QED
      BY <1>1, <2>1, <3>2, <3>3 DEF OrderTabled
  <2>7. OrderTabled' /\ RowsOfOrder'
    BY <1>1, <2>2, <2>6 DEF OrderTabled, RowsOfOrder
  <2>8. pc' = [pc EXCEPT ![p] = "findMirror"] /\ job' = [job EXCEPT ![p] = j]
        /\ UNCHANGED failures
    BY <2>2, <2>3 DEF Goto, bounds
  <2>9. AccountStarts'
    BY <1>3, <2>2, <2>8, StartsKept DEF rows, Opening
  <2>10. ApprovalsHeld'
    <3>1. \A r \in EditRequests : \A x \in Processes : Holds(x, r)' => Holds(x, r)
      BY <2>4, <2>8, HoldsNoMore
    <3>2. \A r \in EditRequests : MayServe(r) /\ editReqs'[r] = None
      BY <1>3, <2>2, <2>5 DEF MayServe
    <3>. QED
      BY <1>1, <2>2, <3>1, <3>2, ApprovalsUntouched
  <2>11. SignedBefore'
    <3>1. Existing(authReqs') = {}
      BY <2>2, <2>5 DEF Existing
    <3>2. order' # None /\ order'.status \notin Unsigned => signatures' > 0
      BY <2>1, <2>6 DEF Unsigned
    <3>. QED
      BY <2>2, <2>6, <2>8, <3>1, <3>2, SignedKept
  <2>12. /\ "findMirror" \in OrderPCs /\ JobFits(j, "findMirror") /\ FoundBy(j, "findMirror")
         /\ OrderFits(j, "findMirror") /\ Goto(p, "findMirror", j)
    <3>1. j.to = "editPaid" \/ j.row = None
      BY <2>4 DEF OrderFits
    <3>. QED
      BY <2>2, <2>3, <2>4, <3>1 DEF OrderPCs, JobFits, FoundBy, OrderFits, Editing
  <2>. QED
    BY <2>2, <2>4, <2>7, <2>9, <2>10, <2>11, <2>12, OrderWrites
<1>. QED
  BY <1>2, <1>3

\* The status of the order, or its total, is written by id.
LEMMA OrderRowWritten ==
  ASSUME OrderAccountInv, NEW p \in Processes,
         \/ SetStatus(p) \/ Sign(p) \/ ClaimCajaAuthorization(p) \/ SetPaid(p) \/ ReplaceItems(p)
  PROVE  OrderAccountInv'
<1>1. /\ OrderTabled /\ RowsOfOrder /\ AccountStarts /\ ApprovalsHeld /\ SignedBefore
  BY OrderFacts
<1>2. order # None /\ order \in [status : OrderStatuses, total : Int]
  BY <1>1 DEF SetStatus, Sign, ClaimCajaAuthorization, SetPaid, ReplaceItems, WriteStatus,
              OrderTabled
<1>3. job[p].amount \in Int /\ order.total \in Int /\ order.status \in OrderStatuses
  BY <1>2, SameJob DEF OrderJob, JobOf
<1>4. PICK s, t, l, j :
        /\ order' = [status |-> s, total |-> t] /\ Goto(p, l, j)
        /\ s \in OrderStatuses /\ t \in Int
        /\ \/ pc[p] \in {"toCreated", "toDraft"} /\ l = "idle" /\ j = NoJob /\ s \in Unsigned
              /\ UNCHANGED signatures
           \/ pc[p] = "sign" /\ l = "closeRequests" /\ j = job[p] /\ signatures' = signatures + 1
           \/ pc[p] = "claim" /\ l = "egress" /\ j = job[p] /\ order.status = "ADMIN_AUTHORIZED"
              /\ UNCHANGED signatures
           \/ pc[p] = "paid" /\ l = "findMirror" /\ j = job[p] /\ UNCHANGED signatures
           \/ pc[p] = "items" /\ l = "mirror" /\ j = job[p] /\ s = order.status
              /\ UNCHANGED signatures
        /\ UNCHANGED <<rows, born, authReqs, editReqs, paidOut, used>>
  <2>. USE DEF WriteStatus, requests, history, OrderStatuses, Unsigned
  <2>1. CASE SetStatus(p)
    BY <1>3, <2>1 DEF SetStatus
  <2>2. CASE Sign(p)
    BY <1>3, <2>2 DEF Sign
  <2>3. CASE ClaimCajaAuthorization(p)
    BY <1>3, <2>3 DEF ClaimCajaAuthorization, InStatus
  <2>4. CASE SetPaid(p)
    BY <1>3, <2>4 DEF SetPaid
  <2>5. CASE ReplaceItems(p)
    BY <1>3, <2>5 DEF ReplaceItems
  <2>. QED
    BY <2>1, <2>2, <2>3, <2>4, <2>5
<1>5. /\ order' \in [status : OrderStatuses, total : Int] /\ order' # None
      /\ order'.status = s /\ signatures' \in Nat /\ signatures' >= signatures
      /\ signatures \in Nat
  <2>1. order' \in [status : OrderStatuses, total : Int]
    BY <1>4
  <2>2. order' # None
    BY <2>1, ExpenseOrdersAssumption
  <2>3. signatures' \in Nat /\ signatures' >= signatures /\ signatures \in Nat
    BY <1>1, <1>4 DEF OrderTabled
  <2>. QED
    BY <1>4, <2>1, <2>2, <2>3
<1>6. /\ pc' = [pc EXCEPT ![p] = l] /\ job' = [job EXCEPT ![p] = j] /\ UNCHANGED failures
      /\ l \notin Opening
  BY <1>4 DEF Goto, bounds, Opening
<1>7. /\ j \in OrderJob /\ l \in OrderPCs /\ JobFits(j, l) /\ FoundBy(j, l) /\ OrderFits(j, l)
  <2>1. CASE l = "idle"
    BY <1>4, <2>1, NoJobFits
  <2>2. CASE l # "idle"
    <3>1. /\ j \in OrderJob /\ FoundBy(j, pc[p]) /\ OrderFits(j, pc[p])
          /\ l \in {"closeRequests", "egress", "findMirror", "mirror"}
          /\ pc[p] \in {"sign", "claim", "paid", "items"}
          /\ l = "mirror" => pc[p] = "items"
          /\ l \in {"egress", "findMirror"} => pc[p] \in {"claim", "paid"}
      BY <1>4, <2>2, SameJob
    <3>2. /\ j.to # "editPaid" \/ pc[p] = "items"
          /\ l # "closeRequests" => j.to = "editPaid" \/ j.row = None
          /\ j.to = "editPaid" => j.row \in EditRequests \cup {None}
      <4>1. CASE pc[p] = "sign"
        BY <1>4, <2>2, <3>1, <4>1 DEF OrderFits, Editing
      <4>2. CASE pc[p] = "claim"
        BY <3>1, <4>2 DEF OrderFits, Editing
      <4>3. CASE pc[p] = "paid"
        BY <3>1, <4>3 DEF OrderFits, Editing
      <4>4. CASE pc[p] = "items"
        BY <3>1, <4>4 DEF OrderFits, Editing
      <4>. QED
        BY <3>1, <4>1, <4>2, <4>3, <4>4
    <3>3. j.movement # None => j.movement \in Existing(movements)
      BY <3>1 DEF FoundBy
    <3>4. l \in OrderPCs /\ JobFits(j, l) /\ FoundBy(j, l)
      BY <3>1, <3>3 DEF OrderPCs, JobFits, FoundBy
    <3>5. OrderFits(j, l)
      BY <1>4, <2>2, <3>1, <3>2 DEF OrderFits, Editing
    <3>. QED
      BY <3>1, <3>4, <3>5
  <2>. QED
    BY <2>1, <2>2
<1>8. OrderTabled' /\ RowsOfOrder'
  BY <1>1, <1>2, <1>4, <1>5 DEF OrderTabled, RowsOfOrder
<1>9. AccountStarts'
  BY <1>2, <1>4, <1>6, StartsKept DEF rows
<1>10. ApprovalsHeld'
  <2>1. \A r \in EditRequests :
          l \in Editing /\ j.to = "editPaid" /\ j.row = r => Holds(p, r)
    <3>1. CASE l = "idle"
      BY <3>1 DEF Editing
    <3>2. CASE l # "idle"
      BY <1>4, <3>2, SameJob DEF Editing
    <3>. QED
      BY <3>1, <3>2
  <2>2. \A r \in EditRequests : \A x \in Processes : Holds(x, r)' => Holds(x, r)
    BY <1>6, <2>1, HoldsNoMore
  <2>. QED
    BY <1>1, <1>2, <1>4, <1>5, <2>2, ApprovalsUntouched DEF MayServe
<1>11. SignedBefore'
  <2>1. order' # None /\ order'.status \notin Unsigned => signatures' > 0
    BY <1>1, <1>2, <1>4, <1>5 DEF SignedBefore, Unsigned
  <2>2. l \in {"closeRequests", "egress", "nextEgress", "paid"} => signatures' > 0
    BY <1>1, <1>2, <1>4, <1>5 DEF SignedBefore, Unsigned
  <2>3. \A r \in Existing(authReqs') :
          authReqs'[r].status = "APPROVED" => r \in Existing(authReqs)
                                              /\ authReqs[r].status = "APPROVED"
    BY <1>4
  <2>4. pc[p] \in {"autoSign", "sign"} => signatures' > 0
    BY <1>4, <1>5
  <2>. QED
    BY <1>5, <1>6, <2>1, <2>2, <2>3, <2>4, SignedKept
<1>. QED
  BY <1>4, <1>7, <1>8, <1>9, <1>10, <1>11, OrderWrites

\* The requests to sign the order are answered.
LEMMA RequestsAnswered ==
  ASSUME OrderAccountInv, NEW p \in Processes, CloseRequests(p) \/ AnswerRequest(p)
  PROVE  OrderAccountInv'
<1>1. /\ OrderTabled /\ RowsOfOrder /\ AccountStarts /\ ApprovalsHeld /\ SignedBefore
  BY OrderFacts
<1>2. ASSUME NEW l \in {"idle", "autoSign"}, Goto(p, l, NoJob),
             authReqs' \in [AuthRequests -> AuthRequest \cup {None}],
             \A r \in AuthRequests : authReqs[r] = None => authReqs'[r] = None,
             UNCHANGED <<rows, order, born, editReqs, history>>,
             pc[p] \in {"closeRequests", "answerRequest"},
             \A r \in Existing(authReqs') :
               authReqs'[r].status = "APPROVED" =>
                 \/ r \in Existing(authReqs) /\ authReqs[r].status = "APPROVED"
                 \/ signatures > 0 \/ l = "autoSign"
      PROVE  OrderAccountInv'
  <2>1. PICK j : j = NoJob
    OBVIOUS
  <2>2. /\ pc' = [pc EXCEPT ![p] = l] /\ job' = [job EXCEPT ![p] = j] /\ UNCHANGED failures
        /\ UNCHANGED <<signatures, used, paidOut>>
    BY <1>2, <2>1 DEF Goto, bounds, history
  <2>3. /\ j \in OrderJob /\ l \in OrderPCs /\ JobFits(j, l) /\ FoundBy(j, l) /\ OrderFits(j, l)
    <3>1. j \in OrderJob /\ j.to # "editPaid" /\ j.movement = None /\ j.row = None
      BY <2>1, NoJobFits, ExpenseOrdersAssumption DEF NoJob
    <3>. QED
      BY <1>2, <3>1 DEF OrderPCs, PCs, JobFits, FoundBy, OrderFits, Editing
  <2>4. OrderTabled' /\ RowsOfOrder'
    BY <1>1, <1>2, <2>2 DEF OrderTabled, RowsOfOrder
  <2>5. AccountStarts'
    BY <1>2, <2>2, StartsKept DEF rows, Opening
  <2>6. \A r \in EditRequests : \A x \in Processes : Holds(x, r)' => Holds(x, r)
    BY <1>2, <2>2, HoldsNoMore DEF Editing
  <2>7. ApprovalsHeld'
    BY <1>1, <1>2, <2>2, <2>6, ApprovalsUntouched DEF MayServe
  <2>8. SignedBefore'
    <3>1. order' # None /\ order'.status \notin Unsigned => signatures' > 0
      BY <1>1, <1>2, <2>2 DEF SignedBefore
    <3>2. signatures' >= signatures /\ signatures' \in Nat
      BY <1>1, <2>2 DEF OrderTabled
    <3>. QED
      BY <1>2, <2>2, <3>1, <3>2, SignedKept
  <2>. QED
    BY <1>2, <2>1, <2>3, <2>4, <2>5, <2>7, <2>8, OrderWrites
<1>3. CASE CloseRequests(p)
  <2>1. /\ authReqs' = [r \in AuthRequests |-> Closed(authReqs[r])] /\ pc[p] = "closeRequests"
        /\ signatures > 0 /\ Done(p) /\ UNCHANGED <<rows, order, born, editReqs, history>>
    BY <1>1, <1>3 DEF CloseRequests, SignedBefore
  <2>2. ASSUME NEW r \in AuthRequests
        PROVE  Closed(authReqs[r]) \in AuthRequest \cup {None}
               /\ (authReqs[r] = None => Closed(authReqs[r]) = None)
    <3>1. authReqs[r] \in AuthRequest \cup {None}
      BY <1>1 DEF OrderTabled
    <3>. QED
      BY <3>1 DEF Closed, AuthRequest, Answers
  <2>. QED
    BY <1>2, <2>1, <2>2 DEF Done
<1>4. CASE AnswerRequest(p)
  <2>1. CASE authReqs[job[p].row] = None
    <3>1. Done(p) /\ OnlyControl /\ pc[p] = "answerRequest"
      BY <1>4, <2>1 DEF AnswerRequest
    <3>. QED
      BY <3>1, OrderEnds
  <2>2. CASE authReqs[job[p].row] # None
    <3>1. PICK x, to : x = job[p].row /\ to = job[p].to
      OBVIOUS
    <3>2. /\ authReqs' = [authReqs EXCEPT ![x].status = to] /\ pc[p] = "answerRequest"
          /\ IF to = "APPROVED" THEN Goto(p, "autoSign", NoJob) ELSE Done(p)
          /\ UNCHANGED <<rows, order, born, editReqs, history>>
      BY <1>4, <2>2, <3>1 DEF AnswerRequest
    <3>3. x \in AuthRequests /\ to \in Answers /\ authReqs[x] \in AuthRequest
      BY <1>1, <2>2, <3>1, <3>2, SameJob DEF OrderFits, OrderTabled
    <3>4. /\ authReqs' \in [AuthRequests -> AuthRequest \cup {None}]
          /\ authReqs'[x].status = to
          /\ \A r \in AuthRequests : r # x => authReqs'[r] = authReqs[r]
      BY <1>1, <3>2, <3>3 DEF OrderTabled, AuthRequest
    <3>5. \A r \in AuthRequests : authReqs[r] = None => authReqs'[r] = None
      BY <2>2, <3>1, <3>4
    <3>6. \A r \in Existing(authReqs') : authReqs'[r].status = "APPROVED" =>
             \/ r \in Existing(authReqs) /\ authReqs[r].status = "APPROVED"
             \/ to = "APPROVED"
      BY <1>1, <3>4 DEF Existing, OrderTabled
    <3>7. CASE to = "APPROVED"
      BY <1>2, <3>2, <3>4, <3>5, <3>7
    <3>8. CASE to # "APPROVED"
      BY <1>2, <3>2, <3>4, <3>5, <3>6, <3>8 DEF Done
    <3>. QED
      BY <3>7, <3>8
  <2>. QED
    BY <2>1, <2>2
<1>. QED
  BY <1>3, <1>4

\* An edit on an approval ends: the approval was its own, and is used now.
LEMMA ApprovalUsed ==
  ASSUME OrderAccountInv, NEW p \in Processes, pc[p] \in Editing, Edited(p),
         UNCHANGED <<order, born, editReqs>>
  PROVE  ApprovalsHeld' /\ used' \in [EditRequests -> Nat]
<1>1. ApprovalsHeld /\ used \in [EditRequests -> Nat]
  BY OrderFacts DEF OrderTabled
<1>2. PICK row, j : row = job[p].row /\ j = NoJob
  OBVIOUS
<1>3. /\ pc' = [pc EXCEPT ![p] = "idle"] /\ job' = [job EXCEPT ![p] = j]
      /\ used' = IF row = None THEN used ELSE [used EXCEPT ![row] = @ + 1]
  BY <1>2 DEF Edited, Done, Goto
<1>4. \A r \in EditRequests : \A x \in Processes : Holds(x, r)' => Holds(x, r) /\ x # p
  <2>1. \A r \in EditRequests : \A x \in Processes : Holds(x, r)' => Holds(x, r)
    <3>1. \A r \in EditRequests :
            "idle" \in Editing /\ j.to = "editPaid" /\ j.row = r => Holds(p, r)
      BY DEF Editing
    <3>. QED
      BY <1>3, <3>1, HoldsNoMore
  <2>2. pc'[p] = "idle"
    BY <1>3, OrderFacts
  <2>. QED
    BY <2>1, <2>2 DEF Holds, Editing
<1>5. \A r \in EditRequests : MayServe(r)' <=> MayServe(r)
  BY DEF MayServe
<1>6. CASE row = None
  BY <1>1, <1>3, <1>4, <1>5, <1>6, ApprovalsUntouched
<1>7. CASE row # None
  <2>1. row \in EditRequests /\ Holds(p, row)
    BY <1>2, <1>7, SameJob DEF OrderFits
  <2>2. used[row] = 0 /\ ~MayServe(row) /\ \A x \in Processes : Holds(x, row) => x = p
    BY <1>1, <2>1 DEF ApprovalsHeld
  <2>3. /\ used'[row] = 1 /\ used' \in [EditRequests -> Nat]
        /\ \A r \in EditRequests : r # row => used'[r] = used[r]
    BY <1>1, <1>3, <1>7, <2>1, <2>2
  <2>4. ASSUME NEW r \in EditRequests
        PROVE  /\ used'[r] \in {0, 1}
               /\ \A x \in Processes :
                    Holds(x, r)' => /\ used'[r] = 0 /\ \A q \in Processes : Holds(q, r)' => x = q
                                    /\ editReqs'[r] # None => editReqs'[r].consumed
               /\ MayServe(r)' => used'[r] = 0 /\ \A x \in Processes : ~Holds(x, r)'
    <3>1. CASE r = row
      BY <1>4, <1>5, <2>2, <2>3, <3>1
    <3>2. CASE r # row
      BY <1>1, <1>4, <1>5, <2>3, <3>2 DEF ApprovalsHeld
    <3>. QED
      BY <3>1, <3>2
  <2>. QED
    BY <2>3, <2>4 DEF ApprovalsHeld
<1>. QED
  BY <1>1, <1>3, <1>6, <1>7

\* A step of an edit that ends it and writes no row of the account.
LEMMA EditEnds ==
  ASSUME OrderAccountInv, NEW p \in Processes, pc[p] \in Editing, Edited(p),
         UNCHANGED <<rows, order, born, requests, signatures, paidOut>>
  PROVE  OrderAccountInv'
<1>1. /\ OrderTabled /\ RowsOfOrder
  BY OrderFacts
<1>2. ApprovalsHeld' /\ used' \in [EditRequests -> Nat]
  BY ApprovalUsed DEF requests
<1>3. PICK j : j = NoJob
  OBVIOUS
<1>4. Goto(p, "idle", j) /\ UNCHANGED failures /\ pc' = [pc EXCEPT ![p] = "idle"]
  BY <1>3 DEF Edited, Done, Goto, bounds
<1>5. OrderTabled' /\ RowsOfOrder'
  BY <1>1, <1>2 DEF OrderTabled, RowsOfOrder, requests
<1>6. AccountStarts'
  BY <1>4, StartsKept DEF rows, Opening
<1>7. SignedBefore'
  <2>1. signatures' \in Nat /\ signatures' >= signatures
    BY <1>1 DEF OrderTabled
  <2>2. order' # None /\ order'.status \notin Unsigned => signatures' > 0
    BY OrderFacts DEF SignedBefore
  <2>. QED
    BY <1>4, <2>1, <2>2, SignedKept DEF requests, Editing
<1>. QED
  BY <1>2, <1>3, <1>4, <1>5, <1>6, <1>7, NoJobFits, OrderWrites

\* A step of an edit that writes the account.
LEMMA EditWrites ==
  ASSUME OrderAccountInv, NEW p \in Processes, pc[p] \in Editing,
         NEW l \in {"idle"} \cup Editing, NEW j \in OrderJob, Goto(p, l, j),
         JobFits(j, l), FoundBy(j, l)', OrderFits(j, l),
         payable # None, payable' # None,
         TablesTyped', RowsKept, MovementsExist', ReversalIsWhole',
         UNCHANGED <<movements, order, born, requests, signatures, paidOut>>,
         ApprovalsHeld', used' \in [EditRequests -> Nat]
  PROVE  OrderAccountInv'
<1>1. /\ OrderTabled /\ RowsOfOrder /\ AccountStarts
      /\ AccountInv(OrderRows, OrderTargets, OrderPCs)
      /\ starts \in 0..MaxStarts /\ races \in 0..MaxRaces /\ failures \in 0..MaxFailures
  BY OrderFacts
<1>2. /\ pc' = [pc EXCEPT ![p] = l] /\ job' = [job EXCEPT ![p] = j]
      /\ UNCHANGED <<starts, races, failures>>
  BY DEF Goto, bounds
<1>3. l \in OrderPCs
  BY DEF OrderPCs, PCs, Editing
<1>4. AccountInv(OrderRows, OrderTargets, OrderPCs)'
  BY <1>1, <1>2, <1>3, AccountMoves DEF OrderJob
<1>5. OrderTabled' /\ RowsOfOrder'
  BY <1>1 DEF OrderTabled, RowsOfOrder, requests
<1>6. AccountStarts'
  BY <1>1 DEF AccountStarts
<1>7. SignedBefore'
  <2>1. signatures' \in Nat /\ signatures' >= signatures
    BY <1>1 DEF OrderTabled
  <2>2. order' # None /\ order'.status \notin Unsigned => signatures' > 0
    BY OrderFacts DEF SignedBefore
  <2>. QED
    BY <1>2, <2>1, <2>2, SignedKept DEF requests, Editing
<1>8. OrderFits(j, l)' /\ Existing(movements) \subseteq Existing(movements')
  BY DEF OrderFits, Existing
<1>. QED
  BY <1>1, <1>2, <1>4, <1>5, <1>6, <1>7, <1>8, OrderMoves

\* update: the order is read again, and its account.
LEMMA MirrorRead ==
  ASSUME OrderAccountInv, NEW p \in Processes, ReadMirror(p)
  PROVE  OrderAccountInv'
<1>1. pc[p] \in Editing
  BY DEF ReadMirror, Editing
<1>2. CASE Edited(p)
  BY <1>1, <1>2, EditEnds DEF ReadMirror
<1>3. CASE ~Edited(p)
  <2>1. PICK j : j = [job[p] EXCEPT !.sum = order.total, !.seen = payable]
    OBVIOUS
  <2>2. PICK l \in {"findMirror", "sync"} : Goto(p, l, j) /\ (l = "sync" => payable # None)
    BY <1>3, <2>1 DEF ReadMirror
  <2>3. OnlyControl
    BY <1>3 DEF ReadMirror, OnlyControl, orderVars, history
  <2>4. job[p] \in OrderJob /\ order.total \in Int /\ payable \in Payable \cup {None}
    <3>1. order \in [status : OrderStatuses, total : Int]
      BY OrderFacts DEF OrderTabled, ReadMirror
    <3>. QED
      BY <3>1, OrderFacts DEF TablesTyped
  <2>5. /\ j \in OrderJob /\ j.to = job[p].to /\ j.row = job[p].row
        /\ j.movement = job[p].movement /\ j.seen = payable
    BY <2>1, <2>4 DEF OrderJob, JobOf
  <2>6. l \in Editing \ {"giveBack"}
    BY DEF Editing
  <2>7. l \in {"reflect", "sync", "recalculate"} => j.seen # None
    BY <2>2, <2>5
  <2>8. l # "reflect"
    OBVIOUS
  <2>. QED
    BY <1>1, <2>2, <2>3, <2>5, <2>6, <2>7, <2>8, StaysEditing
<1>. QED
  BY <1>2, <1>3

\* refreshFromLivePayments: the account and its live payments are read.
LEMMA LiveRead ==
  ASSUME OrderAccountInv, NEW p \in Processes, ReadLivePayments(p)
  PROVE  OrderAccountInv'
<1>1. pc[p] \in Editing
  BY DEF ReadLivePayments, Editing
<1>2. CASE Edited(p)
  BY <1>1, <1>2, EditEnds DEF ReadLivePayments
<1>3. CASE ~Edited(p)
  <2>1. PICK j : j = [job[p] EXCEPT !.seen = payable, !.sum = LiveSumOf(payments)]
    OBVIOUS
  <2>2. /\ Goto(p, "recalculate", j) /\ payable # None /\ OnlyControl
    BY <1>3, <2>1 DEF ReadLivePayments, OnlyControl, orderVars, history
  <2>3. job[p] \in OrderJob /\ payable \in Payable /\ LiveSumOf(payments) \in Int
    <3>1. TablesTyped
      BY OrderFacts
    <3>2. SumOf(payments, LivePayments) \in Int
      BY <3>1, LiveType DEF TablesTyped
    <3>. QED
      BY <2>2, <3>1, <3>2, OrderFacts DEF TablesTyped, LiveSumOf, LivePayments
  <2>4. /\ j \in OrderJob /\ j.to = job[p].to /\ j.row = job[p].row
        /\ j.movement = job[p].movement /\ j.seen = payable
    BY <2>1, <2>3 DEF OrderJob, JobOf
  <2>5. "recalculate" \in Editing \ {"giveBack"}
    BY DEF Editing
  <2>. QED
    BY <1>1, <2>2, <2>4, <2>5, StaysEditing
<1>. QED
  BY <1>2, <1>3

\* syncFromExpenseOrder and the end of refreshFromLivePayments.
LEMMA MirrorWritten ==
  ASSUME OrderAccountInv, NEW p \in Processes, Sync(p) \/ Recalculate(p)
  PROVE  OrderAccountInv'
<1>1. /\ pc[p] \in Editing /\ pc[p] \in {"sync", "recalculate"} /\ payable # None
      /\ UNCHANGED <<payments, movements, payReqs, reversals, asked, order, born, requests,
                     signatures, paidOut>>
  BY DEF Sync, Recalculate, Editing
<1>2. /\ job[p] \in OrderJob /\ job[p].seen \in Payable /\ payable \in Payable
      /\ FoundBy(job[p], pc[p]) /\ OrderFits(job[p], pc[p])
  <2>1. job[p] \in OrderJob /\ OrderFits(job[p], pc[p]) /\ TablesTyped /\ FoundBy(job[p], pc[p])
    BY OrderFacts
  <2>2. job[p].seen # None
    BY <1>1, <2>1 DEF OrderFits
  <2>. QED
    BY <1>1, <2>1, <2>2 DEF OrderJob, JobOf, TablesTyped
<1>3. payable' \in Payable /\ payable' # None
  <2>1. /\ job[p].sum \in Int /\ job[p].seen.paid \in Int /\ job[p].seen.total \in Int
        /\ job[p].seen.status \in PayableStatuses
    BY <1>2 DEF OrderJob, JobOf, Payable
  <2>0. payable \in Payable
    BY <1>2
  <2>a. ASSUME NEW total \in Int, NEW balance \in Int
        PROVE  [payable EXCEPT !.total = total, !.balance = balance] \in Payable
    BY <2>0 DEF Payable
  <2>b. ASSUME NEW paid \in Int, NEW balance \in Int, NEW s \in PayableStatuses
        PROVE  [payable EXCEPT !.paid = paid, !.balance = balance, !.status = s] \in Payable
    BY <2>0 DEF Payable
  <2>2. ASSUME Sync(p) PROVE payable' \in Payable
    <3>1. PICK total, balance : /\ total = job[p].sum
                                /\ balance = job[p].sum - job[p].seen.paid
      OBVIOUS
    <3>2. total \in Int /\ balance \in Int
      BY <2>1, <3>1
    <3>3. payable' = [payable EXCEPT !.total = total, !.balance = balance]
      BY <2>2, <3>1 DEF Sync
    <3>. QED
      BY <2>a, <3>2, <3>3
  <2>3. ASSUME Recalculate(p) PROVE payable' \in Payable
    <3>1. PICK balance, status :
            /\ balance = job[p].seen.total - job[p].sum
            /\ status = Refreshed(job[p].seen.status, balance, job[p].sum)
      OBVIOUS
    <3>2. balance \in Int /\ status \in PayableStatuses
      BY <2>1, <3>1 DEF Refreshed, PayableStatuses
    <3>4. PICK paid : paid = job[p].sum /\ paid \in Int
      BY <2>1
    <3>3. payable' = [payable EXCEPT !.paid = paid, !.balance = balance,
                                     !.status = status]
      BY <2>3, <3>1, <3>4 DEF Recalculate
    <3>. QED
      BY <2>b, <3>2, <3>3, <3>4
  <2>4. payable' \in Payable
    BY <2>2, <2>3
  <2>. QED
    BY <2>4, PayablesAssumption
<1>4. TablesTyped' /\ RowsKept /\ MovementsExist' /\ ReversalIsWhole'
  BY <1>1, <1>3, ColumnsWritten, OrderFacts
<1>5. CASE Edited(p)
  <2>1. PICK j : j = NoJob
    OBVIOUS
  <2>2. Goto(p, "idle", j)
    BY <1>5, <2>1 DEF Edited, Done
  <2>3. ApprovalsHeld' /\ used' \in [EditRequests -> Nat]
    BY <1>1, <1>5, ApprovalUsed DEF requests
  <2>. QED
    BY <1>1, <1>3, <1>4, <2>1, <2>2, <2>3, NoJobFits, EditWrites
<1>6. CASE ~Edited(p)
  <2>1. PICK j : j = job[p]
    OBVIOUS
  <2>2. Goto(p, "unreflected", j) /\ UNCHANGED used
    BY <1>6, <2>1 DEF Sync, Recalculate
  <2>3. "unreflected" \in Editing
    BY DEF Editing
  <2>4. OrderFits(j, "unreflected")
    BY <1>1, <1>2, <2>1 DEF OrderFits, Editing
  <2>5. JobFits(j, "unreflected") /\ FoundBy(j, "unreflected")'
    BY <1>1, <1>2, <2>1 DEF JobFits, FoundBy
  <2>6. ApprovalsHeld' /\ used' \in [EditRequests -> Nat]
    <3>1. \A r \in EditRequests : "unreflected" \in Editing /\ j.to = "editPaid" /\ j.row = r
                                   => Holds(p, r)
      BY <1>1, <2>1, SameJob
    <3>2. pc' = [pc EXCEPT ![p] = "unreflected"] /\ job' = [job EXCEPT ![p] = j]
      BY <2>2 DEF Goto
    <3>3. \A r \in EditRequests : \A x \in Processes : Holds(x, r)' => Holds(x, r)
      BY <3>1, <3>2, HoldsNoMore
    <3>. QED
      BY <1>1, <2>2, <3>3, OrderFacts, ApprovalsUntouched DEF MayServe, requests, OrderTabled
  <2>. QED
    BY <1>1, <1>2, <1>3, <1>4, <2>1, <2>2, <2>3, <2>4, <2>5, <2>6, EditWrites
<1>. QED
  BY <1>5, <1>6

\* A process writes the requests to edit the order.
LEMMA EditReqsWritten ==
  ASSUME OrderAccountInv, NEW p \in Processes, NEW l \in OrderPCs, NEW j \in OrderJob,
         Goto(p, l, j), UNCHANGED <<rows, order, born, authReqs, history>>,
         editReqs' \in [EditRequests -> EditRequest \cup {None}],
         \A r \in EditRequests : editReqs[r] = None => editReqs'[r] = None,
         JobFits(j, l), FoundBy(j, l), OrderFits(j, l),
         l \notin Opening \cup {"closeRequests", "egress", "nextEgress", "paid"},
         pc[p] \notin {"autoSign", "sign"},
         ApprovalsHeld'
  PROVE  OrderAccountInv'
<1>1. /\ OrderTabled /\ RowsOfOrder
  BY OrderFacts
<1>2. /\ pc' = [pc EXCEPT ![p] = l] /\ UNCHANGED failures
      /\ UNCHANGED <<signatures, used, paidOut>>
  BY DEF Goto, bounds, history
<1>3. OrderTabled'
  BY <1>1, <1>2 DEF OrderTabled
<1>4. RowsOfOrder'
  <2>1. ASSUME order' = None
        PROVE  editReqs' = [r \in EditRequests |-> None] /\ authReqs' = authReqs
    <3>1. editReqs = [r \in EditRequests |-> None]
      BY <1>1, <2>1 DEF RowsOfOrder
    <3>2. \A r \in EditRequests : editReqs'[r] = None
      BY <3>1
    <3>. QED
      BY <3>2
  <2>. QED
    BY <1>1, <2>1 DEF RowsOfOrder
<1>5. AccountStarts'
  BY <1>2, StartsKept DEF rows
<1>6. SignedBefore'
  <2>1. signatures' \in Nat /\ signatures' >= signatures
    BY <1>1, <1>2 DEF OrderTabled
  <2>2. order' # None /\ order'.status \notin Unsigned => signatures' > 0
    BY <1>2, OrderFacts DEF SignedBefore
  <2>. QED
    BY <1>2, <2>1, <2>2, SignedKept
<1>. QED
  BY <1>3, <1>4, <1>5, <1>6, OrderWrites

\* update: the approval is marked, if nobody marked it before.
LEMMA ApprovalConsumed ==
  ASSUME OrderAccountInv, NEW p \in Processes, ConsumeApproval(p)
  PROVE  OrderAccountInv'
<1>1. OrderTabled /\ ApprovalsHeld
  BY OrderFacts
<1>2. PICK x, j : x = job[p].row /\ j = job[p]
  OBVIOUS
<1>3. /\ pc[p] = "consume" /\ editReqs[x] # None /\ ~editReqs[x].consumed
      /\ editReqs' = [editReqs EXCEPT ![x].consumed = TRUE] /\ Goto(p, "items", j)
      /\ UNCHANGED <<rows, order, born, authReqs, history>>
  BY <1>2 DEF ConsumeApproval, Unused
<1>4. /\ x \in EditRequests /\ j \in OrderJob /\ j.to = "editPaid" /\ j.row = x
      /\ FoundBy(j, "consume") /\ OrderFits(j, "consume")
  BY <1>2, <1>3, SameJob, ExpenseOrdersAssumption DEF OrderFits
<1>5. /\ pc' = [pc EXCEPT ![p] = "items"] /\ job' = [job EXCEPT ![p] = j] /\ UNCHANGED used
      /\ pc \in [Processes -> OrderPCs] /\ job \in [Processes -> OrderJob]
  BY <1>3, OrderFacts DEF Goto, history
<1>6. /\ editReqs' \in [EditRequests -> EditRequest \cup {None}]
      /\ editReqs'[x] # None /\ editReqs'[x].consumed
      /\ \A r \in EditRequests : r # x => editReqs'[r] = editReqs[r]
  <2>1. editReqs[x] \in EditRequest /\ editReqs \in [EditRequests -> EditRequest \cup {None}]
    BY <1>1, <1>3, <1>4 DEF OrderTabled
  <2>2. PICK e : e = [editReqs[x] EXCEPT !.consumed = TRUE]
    OBVIOUS
  <2>3. e \in EditRequest /\ e.consumed
    BY <2>1, <2>2 DEF EditRequest
  <2>4. editReqs' = [editReqs EXCEPT ![x] = e]
    BY <1>3, <2>2
  <2>. QED
    BY <1>4, <2>1, <2>3, <2>4, ExpenseOrdersAssumption
<1>7. MayServe(x) /\ used[x] = 0 /\ \A y \in Processes : ~Holds(y, x)
  BY <1>1, <1>3, <1>4 DEF MayServe, ApprovalsHeld
<1>8. /\ \A r \in EditRequests : \A y \in Processes : y # p => (Holds(y, r)' <=> Holds(y, r))
      /\ \A r \in EditRequests : r # x => ~Holds(p, r)'
      /\ \A r \in EditRequests : r # x => (MayServe(r)' <=> MayServe(r))
      /\ ~MayServe(x)'
  <2>1. \A r \in EditRequests : \A y \in Processes : y # p => (Holds(y, r)' <=> Holds(y, r))
    BY <1>5 DEF Holds
  <2>2. \A r \in EditRequests : r # x => ~Holds(p, r)'
    BY <1>4, <1>5 DEF Holds
  <2>3. \A r \in EditRequests : r # x => (MayServe(r)' <=> MayServe(r))
    BY <1>3, <1>6 DEF MayServe
  <2>4. ~MayServe(x)'
    BY <1>6 DEF MayServe
  <2>. QED
    BY <2>1, <2>2, <2>3, <2>4
<1>9. ApprovalsHeld'
  <2>1. ASSUME NEW r \in EditRequests
        PROVE  /\ used'[r] \in {0, 1}
               /\ \A y \in Processes :
                    Holds(y, r)' => /\ used'[r] = 0 /\ \A q \in Processes : Holds(q, r)' => y = q
                                    /\ editReqs'[r] # None => editReqs'[r].consumed
               /\ MayServe(r)' => used'[r] = 0 /\ \A y \in Processes : ~Holds(y, r)'
    <3>1. CASE r = x
      BY <1>5, <1>6, <1>7, <1>8, <3>1
    <3>2. CASE r # x
      BY <1>1, <1>5, <1>6, <1>8, <3>2 DEF ApprovalsHeld
    <3>. QED
      BY <3>1, <3>2
  <2>. QED
    BY <2>1 DEF ApprovalsHeld
<1>10. /\ "items" \in OrderPCs /\ JobFits(j, "items") /\ FoundBy(j, "items")
       /\ OrderFits(j, "items")
  BY <1>4 DEF OrderPCs, JobFits, FoundBy, OrderFits, Editing
<1>11. "items" \notin Opening
  BY DEF Opening
<1>12. \A r \in EditRequests : editReqs[r] = None => editReqs'[r] = None
  BY <1>3, <1>6
<1>. QED
  BY <1>3, <1>4, <1>6, <1>9, <1>10, <1>11, <1>12, EditReqsWritten

\* update: what threw gives the approval back, which may serve again.
LEMMA ApprovalGivenBack ==
  ASSUME OrderAccountInv, NEW p \in Processes, GiveBack(p)
  PROVE  OrderAccountInv'
<1>1. OrderTabled /\ ApprovalsHeld
  BY OrderFacts
<1>2. PICK x, j : x = job[p].row /\ j = NoJob
  OBVIOUS
<1>3. /\ pc[p] = "giveBack" /\ Goto(p, "idle", j)
      /\ UNCHANGED <<rows, order, born, authReqs, history>>
      /\ editReqs' = IF editReqs[x] = None THEN editReqs
                     ELSE [editReqs EXCEPT ![x].consumed = FALSE]
  BY <1>2 DEF GiveBack, Done
<1>4. x \in EditRequests /\ Holds(p, x)
  BY <1>2, <1>3, SameJob DEF OrderFits, Editing
<1>5. used[x] = 0 /\ \A y \in Processes : Holds(y, x) => y = p
  BY <1>1, <1>4 DEF ApprovalsHeld
<1>6. /\ pc' = [pc EXCEPT ![p] = "idle"] /\ job' = [job EXCEPT ![p] = j] /\ UNCHANGED used
      /\ pc \in [Processes -> OrderPCs] /\ job \in [Processes -> OrderJob]
  BY <1>3, OrderFacts DEF Goto, history
<1>7. /\ editReqs' \in [EditRequests -> EditRequest \cup {None}]
      /\ editReqs[x] = None => editReqs'[x] = None
      /\ \A r \in EditRequests : r # x => editReqs'[r] = editReqs[r]
  <2>1. CASE editReqs[x] = None
    BY <1>1, <1>3, <2>1 DEF OrderTabled
  <2>2. CASE editReqs[x] # None
    <3>1. editReqs[x] \in EditRequest /\ editReqs \in [EditRequests -> EditRequest \cup {None}]
      BY <1>1, <1>4, <2>2 DEF OrderTabled
    <3>2. PICK e : e = [editReqs[x] EXCEPT !.consumed = FALSE]
      OBVIOUS
    <3>3. e \in EditRequest
      BY <3>1, <3>2 DEF EditRequest
    <3>4. editReqs' = [editReqs EXCEPT ![x] = e]
      BY <1>3, <2>2, <3>2
    <3>. QED
      BY <1>4, <2>2, <3>1, <3>3, <3>4
  <2>. QED
    BY <2>1, <2>2
<1>8. \A r \in EditRequests : \A y \in Processes : Holds(y, r)' => Holds(y, r) /\ y # p
  BY <1>6 DEF Holds, Editing
<1>9. ApprovalsHeld'
  <2>1. ASSUME NEW r \in EditRequests
        PROVE  /\ used'[r] \in {0, 1}
               /\ \A y \in Processes :
                    Holds(y, r)' => /\ used'[r] = 0 /\ \A q \in Processes : Holds(q, r)' => y = q
                                    /\ editReqs'[r] # None => editReqs'[r].consumed
               /\ MayServe(r)' => used'[r] = 0 /\ \A y \in Processes : ~Holds(y, r)'
    <3>1. CASE r = x
      BY <1>5, <1>6, <1>8, <3>1
    <3>2. CASE r # x
      <4>1. MayServe(r)' <=> MayServe(r)
        BY <1>3, <1>7, <3>2 DEF MayServe
      <4>. QED
        BY <1>1, <1>6, <1>7, <1>8, <3>2, <4>1 DEF ApprovalsHeld
    <3>. QED
      BY <3>1, <3>2
  <2>. QED
    BY <2>1 DEF ApprovalsHeld
<1>10. \A r \in EditRequests : editReqs[r] = None => editReqs'[r] = None
  BY <1>7
<1>11. "idle" \notin Opening
  BY DEF Opening
<1>. QED
  BY <1>2, <1>3, <1>7, <1>9, <1>10, <1>11, NoJobFits, EditReqsWritten

\* The request to edit is answered: what it was good for does not change.
LEMMA EditAnswered ==
  ASSUME OrderAccountInv, NEW p \in Processes, AnswerEdit(p)
  PROVE  OrderAccountInv'
<1>1. OrderTabled /\ ApprovalsHeld
  BY OrderFacts
<1>2. PICK x, to, j : x = job[p].row /\ to = job[p].to /\ j = NoJob
  OBVIOUS
<1>3. /\ pc[p] = "answerEdit" /\ Goto(p, "idle", j)
      /\ UNCHANGED <<rows, order, born, authReqs, history>>
      /\ editReqs' = IF editReqs[x] = None THEN editReqs
                     ELSE [editReqs EXCEPT ![x].status = to,
                             ![x].expired = IF to = "APPROVED" THEN FALSE ELSE @]
  BY <1>2 DEF AnswerEdit, Done
<1>4. x \in EditRequests /\ to \in Answers
  BY <1>2, <1>3, SameJob DEF OrderFits
<1>5. /\ editReqs' \in [EditRequests -> EditRequest \cup {None}]
      /\ \A r \in EditRequests :
           /\ editReqs[r] = None => editReqs'[r] = None
           /\ editReqs[r] # None => editReqs'[r] # None
                                    /\ editReqs'[r].consumed = editReqs[r].consumed
  <2>1. CASE editReqs[x] = None
    BY <1>1, <1>3, <2>1 DEF OrderTabled
  <2>2. CASE editReqs[x] # None
    <3>1. editReqs[x] \in EditRequest /\ editReqs \in [EditRequests -> EditRequest \cup {None}]
      BY <1>1, <1>4, <2>2 DEF OrderTabled
    <3>2. PICK e : e = [editReqs[x] EXCEPT !.status = to,
                          !.expired = IF to = "APPROVED" THEN FALSE ELSE @]
      OBVIOUS
    <3>3. e \in EditRequest /\ e.consumed = editReqs[x].consumed
      BY <1>4, <3>1, <3>2 DEF EditRequest
    <3>4. editReqs' = [editReqs EXCEPT ![x] = e]
      BY <1>3, <1>4, <2>2, <3>1, <3>2
    <3>5. e # None
      BY <3>3, ExpenseOrdersAssumption
    <3>. QED
      BY <1>4, <2>2, <3>1, <3>3, <3>4, <3>5
  <2>. QED
    BY <2>1, <2>2
<1>6. pc' = [pc EXCEPT ![p] = "idle"] /\ job' = [job EXCEPT ![p] = j] /\ UNCHANGED used
  BY <1>3 DEF Goto, history
<1>7. \A r \in EditRequests : \A y \in Processes : Holds(y, r)' => Holds(y, r)
  BY <1>6, OrderFacts DEF Holds, Editing
<1>8. \A r \in EditRequests : MayServe(r)' => MayServe(r)
  BY <1>3, <1>5 DEF MayServe
<1>9. ApprovalsHeld'
  BY <1>1, <1>5, <1>6, <1>7, <1>8, ApprovalsUntouched DEF MayServe
<1>10. "idle" \notin Opening
  BY DEF Opening
<1>. QED
  BY <1>2, <1>3, <1>5, <1>9, <1>10, NoJobFits, EditReqsWritten

-----------------------------------------------------------------------------
(* What one statement does, and how the order starts.                      *)

\* No process moves, and no row of the account is written.
LEMMA OrderUntouched ==
  ASSUME OrderAccountInv, UNCHANGED <<rows, pc, job, order, born, history>>,
         starts' \in 0..MaxStarts, races' \in 0..MaxRaces, failures' = failures,
         OrderTabled', RowsOfOrder', ApprovalsHeld',
         \A r \in Existing(authReqs') :
           authReqs'[r].status = "APPROVED" => r \in Existing(authReqs)
                                               /\ authReqs[r].status = "APPROVED"
  PROVE  OrderAccountInv'
<1>1. /\ OrderTabled /\ TablesTyped /\ AccountInv(OrderRows, OrderTargets, OrderPCs)
      /\ OrderJobFollows /\ AccountStarts /\ SignedBefore
      /\ failures \in 0..MaxFailures
      /\ pc \in [Processes -> OrderPCs] /\ job \in [Processes -> OrderJob]
  BY OrderFacts
<1>2. /\ payable' = payable /\ payments' = payments /\ movements' = movements
      /\ payReqs' = payReqs /\ reversals' = reversals /\ asked' = asked
      /\ pc' = pc /\ job' = job /\ order' = order /\ born' = born
      /\ signatures' = signatures
  BY DEF rows, history
<1>3. AccountInv(OrderRows, OrderTargets, OrderPCs)'
  BY <1>1, <1>2 DEF AccountInv, Typed, TablesTyped, JobFollowsControl, JobFits, RowsFound,
                    FoundBy, MovementsExist, ReversalIsWhole, ReversedIsVoided,
                    CompletedIsReversed, PaymentOf, Existing
<1>4. OrderTypeOK'
  <2>1. TablesTyped' /\ pc' \in [Processes -> OrderPCs] /\ job' \in [Processes -> OrderJob]
    BY <1>1, <1>2 DEF TablesTyped
  <2>. QED
    BY <1>1, <2>1 DEF OrderTypeOK, OrderTabled, TablesTyped
<1>5. OrderJobFollows'
  BY <1>1, <1>2 DEF OrderJobFollows, OrderFits, Existing
<1>6. AccountStarts'
  BY <1>1, <1>2 DEF AccountStarts, Existing
<1>7. SignedBefore'
  <2>1. order' # None /\ order'.status \notin Unsigned => signatures' > 0
    BY <1>1, <1>2 DEF SignedBefore
  <2>2. \A p \in Processes :
          pc'[p] \in {"closeRequests", "egress", "nextEgress", "paid"} => signatures' > 0
    BY <1>1, <1>2 DEF SignedBefore
  <2>3. ASSUME NEW r \in Existing(authReqs'), authReqs'[r].status = "APPROVED", failures' = 0
        PROVE  signatures' > 0 \/ \E p \in Processes : pc'[p] \in {"autoSign", "sign"}
    BY <1>1, <1>2, <2>3 DEF SignedBefore
  <2>. QED
    BY <2>1, <2>2, <2>3 DEF SignedBefore
<1>. QED
  BY <1>3, <1>4, <1>5, <1>6, <1>7 DEF OrderAccountInv

\* A request is made, or an approval gets old.
LEMMA OrderAtOnce ==
  ASSUME OrderAccountInv, OrderOthers
  PROVE  OrderAccountInv'
<1>1. OrderTabled /\ RowsOfOrder /\ ApprovalsHeld
  BY OrderFacts
<1>2. ASSUME NEW kind, AtOnce(kind)
      PROVE  /\ starts' \in 0..MaxStarts /\ races' \in 0..MaxRaces /\ failures' = failures
             /\ UNCHANGED <<pc, job>>
  BY <1>2, OrderFacts, PayablesAssumption DEF AtOnce, Counted
<1>3. UNCHANGED <<pc, job>> => \A r \in EditRequests : \A p \in Processes :
                                  Holds(p, r)' => Holds(p, r)
  BY DEF Holds
<1>4. CASE RequestAuthorization
  <2>1. PICK u \in Users, r \in AuthRequests :
          /\ Fresh(authReqs, r)
          /\ authReqs' = [authReqs EXCEPT ![r] = [user |-> u, status |-> "PENDING"]]
    BY <1>4 DEF RequestAuthorization
  <2>2. /\ AtOnce("authRequest") /\ order # None
        /\ UNCHANGED <<rows, order, born, editReqs, history>>
    BY <1>4 DEF RequestAuthorization
  <2>3. [user |-> u, status |-> "PENDING"] \in AuthRequest
    BY DEF AuthRequest, Answers
  <2>4. OrderTabled' /\ RowsOfOrder'
    BY <1>1, <2>1, <2>2, <2>3 DEF OrderTabled, RowsOfOrder, history
  <2>5. ApprovalsHeld'
    BY <1>1, <1>2, <1>3, <2>2, ApprovalsUntouched DEF MayServe, history
  <2>6. \A x \in Existing(authReqs') :
          authReqs'[x].status = "APPROVED" => x \in Existing(authReqs)
                                              /\ authReqs[x].status = "APPROVED"
    <3>1. authReqs \in [AuthRequests -> AuthRequest \cup {None}]
      BY <1>1 DEF OrderTabled
    <3>2. \A x \in AuthRequests : x # r => authReqs'[x] = authReqs[x]
      BY <2>1, <3>1
    <3>3. authReqs'[r].status = "PENDING"
      BY <2>1, <3>1
    <3>. QED
      BY <2>1, <3>1, <3>2, <3>3 DEF Existing
  <2>. QED
    BY <1>2, <2>2, <2>4, <2>5, <2>6, OrderUntouched
<1>5. CASE RequestEdit
  <2>1. PICK u \in Users, r \in EditRequests :
          /\ Fresh(editReqs, r)
          /\ editReqs' = [editReqs EXCEPT ![r] = [user |-> u, status |-> "PENDING",
                                                  consumed |-> FALSE, expired |-> FALSE]]
    BY <1>5 DEF RequestEdit
  <2>2. /\ AtOnce("editRequest") /\ order # None
        /\ UNCHANGED <<rows, order, born, authReqs, history>>
    BY <1>5 DEF RequestEdit, InStatus
  <2>3. PICK e : e = [user |-> u, status |-> "PENDING", consumed |-> FALSE, expired |-> FALSE]
    OBVIOUS
  <2>4. e \in EditRequest /\ ~e.consumed
    BY <2>3 DEF EditRequest, Answers
  <2>5. /\ editReqs \in [EditRequests -> EditRequest \cup {None}] /\ editReqs[r] = None
        /\ editReqs' = [editReqs EXCEPT ![r] = e]
    BY <1>1, <2>1, <2>3 DEF OrderTabled, Fresh
  <2>6. OrderTabled' /\ RowsOfOrder'
    BY <1>1, <2>2, <2>4, <2>5 DEF OrderTabled, RowsOfOrder, history
  <2>7. ApprovalsHeld'
    <3>1. \A x \in EditRequests : MayServe(x)' => MayServe(x)
      BY <2>2, <2>4, <2>5 DEF MayServe
    <3>2. \A x \in EditRequests :
            editReqs'[x] # None =>
              MayServe(x) \/ (editReqs[x] # None /\ editReqs'[x].consumed = editReqs[x].consumed)
      BY <2>2, <2>4, <2>5 DEF MayServe
    <3>. QED
      BY <1>1, <1>2, <1>3, <2>2, <3>1, <3>2, ApprovalsUntouched DEF history
  <2>. QED
    BY <1>2, <2>2, <2>6, <2>7, OrderUntouched
<1>6. CASE ApprovalExpires
  <2>1. PICK r \in Existing(editReqs) : editReqs' = [editReqs EXCEPT ![r].expired = TRUE]
    BY <1>6 DEF ApprovalExpires
  <2>2. AtOnce("editRequest") /\ UNCHANGED <<rows, order, born, authReqs, history>>
    BY <1>6 DEF ApprovalExpires
  <2>3. PICK e : e = [editReqs[r] EXCEPT !.expired = TRUE]
    OBVIOUS
  <2>4. /\ editReqs \in [EditRequests -> EditRequest \cup {None}] /\ editReqs[r] # None
        /\ r \in EditRequests /\ editReqs' = [editReqs EXCEPT ![r] = e]
        /\ editReqs[r] \in EditRequest
    BY <1>1, <2>1, <2>3 DEF OrderTabled, Existing
  <2>5. e \in EditRequest /\ e # None /\ e.consumed = editReqs[r].consumed
    BY <2>3, <2>4, ExpenseOrdersAssumption DEF EditRequest
  <2>6. OrderTabled' /\ RowsOfOrder'
    <3>1. order # None
      BY <1>1, <2>4 DEF RowsOfOrder
    <3>. QED
      BY <1>1, <2>2, <2>4, <2>5, <3>1 DEF OrderTabled, RowsOfOrder, history
  <2>7. \A x \in EditRequests :
          /\ editReqs'[x] = None <=> editReqs[x] = None
          /\ editReqs[x] # None => editReqs'[x].consumed = editReqs[x].consumed
    BY <2>4, <2>5
  <2>8. ApprovalsHeld'
    <3>1. \A x \in EditRequests : MayServe(x)' => MayServe(x)
      BY <2>2, <2>7 DEF MayServe
    <3>. QED
      BY <1>1, <1>2, <1>3, <2>2, <2>7, <3>1, ApprovalsUntouched DEF history
  <2>. QED
    BY <1>2, <2>2, <2>6, <2>8, OrderUntouched
<1>. QED
  BY <1>4, <1>5, <1>6 DEF OrderOthers

\* Before the order is created.
LEMMA OrderBorn ==
  ASSUME OrderInit
  PROVE  OrderAccountInv
<1>1. \A p \in Processes : pc[p] = "idle" /\ job[p] = NoJob
  BY DEF OrderInit
<1>2. /\ Existing(payments) = {} /\ Existing(payReqs) = {} /\ Existing(reversals) = {}
      /\ Existing(movements) = {} /\ Existing(authReqs) = {}
  BY DEF OrderInit, Existing
<1>3. /\ pc \in [Processes -> OrderPCs] /\ job \in [Processes -> OrderJob]
      /\ starts \in 0..MaxStarts /\ races \in 0..MaxRaces /\ failures \in 0..MaxFailures
  BY NoJobFits, PayablesAssumption DEF OrderInit
<1>4. TablesTyped /\ OrderTabled
  BY DEF OrderInit, TablesTyped, OrderTabled
<1>5. OrderTypeOK
  BY <1>3, <1>4 DEF OrderTypeOK, TablesTyped, OrderTabled
<1>6. AccountInv(OrderRows, OrderTargets, OrderPCs)
  <2>1. Typed(OrderRows, OrderTargets, OrderPCs)
    BY <1>3, <1>4 DEF Typed, OrderJob
  <2>2. JobFollowsControl /\ RowsFound
    BY <1>1, NoJobFits DEF JobFollowsControl, RowsFound
  <2>3. MovementsExist /\ ReversedIsVoided
    BY <1>2 DEF MovementsExist, ReversedIsVoided
  <2>4. CompletedIsReversed
    BY PayablesAssumption DEF OrderInit, CompletedIsReversed, ReversalStatuses
  <2>. QED
    BY <2>1, <2>2, <2>3, <2>4 DEF AccountInv, ReversalIsWhole
<1>7. OrderJobFollows
  BY <1>1, NoJobFits DEF OrderJobFollows
<1>8. RowsOfOrder
  BY DEF OrderInit, RowsOfOrder
<1>9. AccountStarts
  BY <1>1, <1>2 DEF OrderInit, AccountStarts
<1>10. ApprovalsHeld
  <2>1. \A r \in EditRequests : used[r] = 0
    BY DEF OrderInit
  <2>2. \A r \in EditRequests : \A p \in Processes : ~Holds(p, r)
    BY <1>1 DEF Holds, Editing
  <2>. QED
    BY <2>1, <2>2 DEF ApprovalsHeld
<1>11. SignedBefore
  BY <1>1, <1>2 DEF OrderInit, SignedBefore
<1>. QED
  BY <1>5, <1>6, <1>7, <1>8, <1>9, <1>10, <1>11 DEF OrderAccountInv

\* createFromExpenseOrder: the account is inserted, with none of its rows yet.
LEMMA MirrorInserted ==
  ASSUME OrderAccountInv, NEW p \in Processes, InsertMirror(p)
  PROVE  OrderAccountInv'
<1>1. /\ OrderTabled /\ RowsOfOrder /\ AccountStarts /\ ApprovalsHeld /\ TablesTyped
      /\ AccountInv(OrderRows, OrderTargets, OrderPCs)
      /\ starts \in 0..MaxStarts /\ races \in 0..MaxRaces /\ failures \in 0..MaxFailures
      /\ pc \in [Processes -> OrderPCs] /\ job \in [Processes -> OrderJob]
  BY OrderFacts
<1>2. /\ pc[p] = "insertMirror" /\ payable = None /\ order # None /\ MirrorReady(p)
      /\ payable' = [status |-> "PENDING", total |-> job[p].sum, paid |-> 0,
                     balance |-> job[p].sum]
      /\ UNCHANGED <<payments, movements, payReqs, reversals, asked, order, born, authReqs,
                     editReqs, signatures, paidOut, used>>
  BY DEF InsertMirror, orderVars, requests, history
<1>3. PICK l, j : /\ Goto(p, l, j)
                  /\ \/ l = "idle" /\ j = NoJob
                     \/ l = "unreflected" /\ j = job[p]
  BY <1>2 DEF MirrorReady, Done
<1>4. /\ j \in OrderJob /\ l \in OrderPCs /\ JobFits(j, l) /\ FoundBy(j, l)' /\ OrderFits(j, l)
  <2>1. CASE l = "idle"
    BY <1>3, <2>1, NoJobFits
  <2>2. CASE l = "unreflected"
    <3>1. j = job[p] /\ j \in OrderJob /\ FoundBy(j, "insertMirror") /\ OrderFits(j, "insertMirror")
      BY <1>2, <1>3, <2>2, SameJob
    <3>2. OrderFits(j, l)
      BY <2>2, <3>1 DEF OrderFits, Editing
    <3>3. JobFits(j, l) /\ FoundBy(j, l)'
      BY <1>2, <2>2, <3>1 DEF JobFits, FoundBy
    <3>. QED
      BY <2>2, <3>1, <3>2, <3>3 DEF OrderPCs
  <2>. QED
    BY <1>3, <2>1, <2>2
<1>5. /\ pc' = [pc EXCEPT ![p] = l] /\ job' = [job EXCEPT ![p] = j]
      /\ UNCHANGED <<starts, races, failures>> /\ l \in {"idle", "unreflected"}
  BY <1>3 DEF Goto, bounds
<1>6. payable' \in Payable /\ payable' # None
  <2>1. job[p].sum \in Int
    BY <1>1 DEF OrderJob, JobOf
  <2>2. payable' \in Payable
    BY <1>2, <2>1 DEF Payable, PayableStatuses
  <2>. QED
    BY <2>2, PayablesAssumption
<1>7. /\ Existing(payments) = {} /\ Existing(reversals) = {}
      /\ \A x \in Processes : pc[x] \notin Opening
  BY <1>1, <1>2 DEF AccountStarts, Opening
<1>8. AccountInv(OrderRows, OrderTargets, OrderPCs)'
  <2>1. TablesTyped'
    BY <1>1, <1>2, <1>6 DEF TablesTyped
  <2>2. Typed(OrderRows, OrderTargets, OrderPCs)'
    BY <1>1, <1>4, <1>5, <2>1 DEF Typed, OrderJob
  <2>3. JobFollowsControl'
    BY <1>1, <1>4, <1>5 DEF AccountInv, JobFollowsControl, JobFits
  <2>4. ASSUME NEW x \in Processes PROVE FoundBy(job[x], pc[x])'
    <3>1. CASE x = p
      <4>1. job'[x] = j /\ pc'[x] = l
        BY <1>1, <1>5, <3>1
      <4>. QED
        BY <1>4, <4>1 DEF FoundBy
    <3>2. CASE x # p
      <4>1. job'[x] = job[x] /\ pc'[x] = pc[x] /\ FoundBy(job[x], pc[x]) /\ pc[x] \notin Opening
        BY <1>1, <1>5, <1>7, <3>2, OrderFacts
      <4>. QED
        BY <1>2, <4>1 DEF FoundBy, Opening
    <3>. QED
      BY <3>1, <3>2
  <2>5. MovementsExist' /\ ReversedIsVoided'
    BY <1>2, <1>7 DEF MovementsExist, ReversedIsVoided
  <2>6. CompletedIsReversed'
    BY <1>1, <1>2 DEF AccountInv, ReversalIsWhole, CompletedIsReversed, PaymentOf
  <2>. QED
    BY <2>2, <2>3, <2>4, <2>5, <2>6 DEF AccountInv, RowsFound, ReversalIsWhole
<1>9. OrderTabled' /\ RowsOfOrder'
  BY <1>1, <1>2 DEF OrderTabled, RowsOfOrder
<1>10. AccountStarts'
  BY <1>1, <1>2, <1>6 DEF AccountStarts, RowsOfOrder
<1>11. ApprovalsHeld'
  <2>1. \A r \in EditRequests :
          l \in Editing /\ j.to = "editPaid" /\ j.row = r => Holds(p, r)
    <3>1. CASE l = "idle"
      BY <3>1 DEF Editing
    <3>2. CASE l # "idle"
      BY <1>2, <1>3, <3>2, SameJob DEF Editing
    <3>. QED
      BY <3>1, <3>2
  <2>2. \A r \in EditRequests : \A x \in Processes : Holds(x, r)' => Holds(x, r)
    BY <1>5, <2>1, HoldsNoMore
  <2>. QED
    BY <1>1, <1>2, <2>2, ApprovalsUntouched DEF MayServe
<1>12. SignedBefore'
  <2>1. order' # None /\ order'.status \notin Unsigned => signatures' > 0
    BY <1>2, OrderFacts DEF SignedBefore
  <2>2. signatures' \in Nat /\ signatures' >= signatures
    BY <1>1, <1>2 DEF OrderTabled
  <2>. QED
    BY <1>2, <1>5, <2>1, <2>2, SignedKept
<1>13. OrderFits(j, l)' /\ Existing(movements) \subseteq Existing(movements')
  BY <1>2, <1>4 DEF OrderFits, Existing
<1>. QED
  BY <1>1, <1>4, <1>5, <1>8, <1>9, <1>10, <1>11, <1>12, <1>13, OrderMoves

\* cajaAuthorize: the money of an item leaves, and its order was signed.
LEMMA EgressTaken ==
  ASSUME OrderAccountInv, NEW p \in Processes, InsertEgress(p)
  PROVE  OrderAccountInv'
<1>1. /\ OrderTabled /\ RowsOfOrder /\ AccountStarts /\ ApprovalsHeld /\ TablesTyped
      /\ SignedBefore /\ AccountInv(OrderRows, OrderTargets, OrderPCs)
      /\ starts \in 0..MaxStarts /\ races \in 0..MaxRaces /\ failures \in 0..MaxFailures
      /\ pc \in [Processes -> OrderPCs] /\ job \in [Processes -> OrderJob]
  BY OrderFacts
<1>2. PICK m \in Movements, a \in Amounts :
        /\ Fresh(movements, m) /\ a <= job[p].amount
        /\ movements' = [movements EXCEPT ![m] =
                           [amount |-> a, source |-> "OG", voided |-> FALSE]]
        /\ Goto(p, IF a = job[p].amount THEN "paid" ELSE "nextEgress",
                [job[p] EXCEPT !.amount = @ - a])
  BY DEF InsertEgress
<1>3. /\ pc[p] \in {"egress", "nextEgress"}
      /\ paidOut' = IF pc[p] = "egress" THEN paidOut + 1 ELSE paidOut
      /\ UNCHANGED <<payable, payments, payReqs, reversals, asked, order, born, authReqs,
                     editReqs, signatures, used>>
  BY DEF InsertEgress, requests
<1>4. PICK l, j : /\ l = IF a = job[p].amount THEN "paid" ELSE "nextEgress"
                  /\ j = [job[p] EXCEPT !.amount = @ - a]
  OBVIOUS
<1>5. /\ pc' = [pc EXCEPT ![p] = l] /\ job' = [job EXCEPT ![p] = j]
      /\ UNCHANGED <<starts, races, failures>> /\ l \in {"paid", "nextEgress"} /\ l \in OrderPCs
  BY <1>2, <1>4 DEF Goto, bounds, OrderPCs
<1>6. /\ j \in OrderJob /\ j.to = job[p].to /\ j.row = job[p].row
      /\ j.movement = job[p].movement
  <2>1. a \in Int /\ job[p].amount \in Int /\ job[p] \in OrderJob
    BY <1>1, PayablesAssumption DEF OrderJob, JobOf
  <2>2. PICK b : b = job[p].amount - a
    OBVIOUS
  <2>3. b \in Int /\ j = [job[p] EXCEPT !.amount = b]
    BY <1>4, <2>1, <2>2
  <2>. QED
    BY <2>1, <2>3 DEF OrderJob, JobOf
<1>7. PICK row : row = [amount |-> a, source |-> "OG", voided |-> FALSE]
  OBVIOUS
<1>8. /\ row \in Movement /\ row # None /\ movements' = [movements EXCEPT ![m] = row]
      /\ movements \in [Movements -> Movement \cup {None}] /\ movements[m] = None
  <2>1. a \in Int
    BY PayablesAssumption
  <2>2. row \in Movement
    BY <1>7, <2>1 DEF Movement
  <2>3. row # None
    BY <2>2, PayablesAssumption
  <2>. QED
    BY <1>1, <1>2, <1>7, <2>2, <2>3 DEF TablesTyped, Fresh
<1>9. TablesTyped' /\ RowsKept
  BY <1>1, <1>3, <1>8 DEF TablesTyped, RowsKept, Existing
<1>10. MovementsExist' /\ ReversalIsWhole'
  <2>1. MovementsExist /\ ReversedIsVoided /\ CompletedIsReversed
    BY <1>1 DEF AccountInv, ReversalIsWhole
  <2>2. \A q \in Existing(payments) : payments[q].movement # None =>
          /\ payments[q].movement \in Existing(movements)
          /\ payments[q].movement \in Existing(movements')
          /\ movements'[payments[q].movement] = movements[payments[q].movement]
    BY <1>8, <2>1 DEF MovementsExist, Existing
  <2>3. MovementsExist' /\ ReversedIsVoided'
    BY <1>3, <2>1, <2>2 DEF MovementsExist, ReversedIsVoided
  <2>4. CompletedIsReversed'
    BY <1>3, <2>1 DEF CompletedIsReversed, PaymentOf
  <2>. QED
    BY <2>3, <2>4 DEF ReversalIsWhole
<1>11. JobFits(j, l) /\ FoundBy(j, l)' /\ OrderFits(j, l) /\ OrderFits(j, l)'
  <2>1. FoundBy(job[p], pc[p]) /\ OrderFits(job[p], pc[p])
    BY OrderFacts
  <2>2. /\ j.movement # None => j.movement \in Existing(movements)
        /\ j.to # "editPaid" /\ (j.to = "editPaid" \/ j.row = None)
    BY <1>3, <1>6, <2>1 DEF FoundBy, OrderFits, Editing
  <2>3. Existing(movements) \subseteq Existing(movements')
    BY <1>9 DEF RowsKept
  <2>4. JobFits(j, l) /\ FoundBy(j, l)'
    BY <1>5, <2>2, <2>3 DEF JobFits, FoundBy
  <2>5. OrderFits(j, l) /\ OrderFits(j, l)'
    BY <1>5, <2>2 DEF OrderFits, Editing
  <2>. QED
    BY <2>4, <2>5
<1>12. AccountInv(OrderRows, OrderTargets, OrderPCs)'
  BY <1>1, <1>5, <1>6, <1>9, <1>10, <1>11, AccountMoves DEF OrderJob
<1>13. OrderTabled' /\ RowsOfOrder'
  <2>1. paidOut' \in Nat
    BY <1>1, <1>3 DEF OrderTabled
  <2>. QED
    BY <1>1, <1>3, <2>1 DEF OrderTabled, RowsOfOrder
<1>14. AccountStarts'
  BY <1>3, <1>5, StartsKept DEF Opening
<1>15. ApprovalsHeld'
  <2>1. \A r \in EditRequests : \A x \in Processes : Holds(x, r)' => Holds(x, r)
    BY <1>5, HoldsNoMore DEF Editing
  <2>. QED
    BY <1>1, <1>3, <2>1, ApprovalsUntouched DEF MayServe
<1>16. SignedBefore'
  <2>1. signatures > 0 /\ signatures' = signatures /\ signatures \in Nat
    BY <1>1, <1>3 DEF SignedBefore, OrderTabled
  <2>. QED
    <3>1. order' # None /\ order'.status \notin Unsigned => signatures' > 0
      BY <2>1
    <3>2. \A r \in Existing(authReqs') :
            authReqs'[r].status = "APPROVED" => r \in Existing(authReqs)
                                                /\ authReqs[r].status = "APPROVED"
      BY <1>3
    <3>3. signatures' \in Nat /\ signatures' >= signatures /\ signatures' > 0
      BY <2>1
    <3>4. pc[p] \notin {"autoSign", "sign"} /\ UNCHANGED failures
      BY <1>3, <1>5
    <3>. QED
      BY <1>5, <3>1, <3>2, <3>3, <3>4, SignedKept
<1>17. Existing(movements) \subseteq Existing(movements')
  BY <1>9 DEF RowsKept
<1>. QED
  BY <1>1, <1>5, <1>6, <1>11, <1>12, <1>13, <1>14, <1>15, <1>16, <1>17, OrderMoves

\* remove: what refers to the order goes with it, and the account that was read.
LEMMA OrderDeleted ==
  ASSUME OrderAccountInv, NEW p \in Processes, Delete(p)
  PROVE  OrderAccountInv'
<1>1. /\ OrderTabled /\ RowsOfOrder /\ AccountStarts /\ ApprovalsHeld /\ TablesTyped
      /\ SignedBefore /\ AccountInv(OrderRows, OrderTargets, OrderPCs)
      /\ starts \in 0..MaxStarts /\ races \in 0..MaxRaces /\ failures \in 0..MaxFailures
  BY OrderFacts
<1>2. /\ pc[p] = "delete" /\ order # None /\ order' = None /\ UNCHANGED born
      /\ authReqs' = [r \in AuthRequests |-> None]
      /\ editReqs' = [r \in EditRequests |-> None]
      /\ UNCHANGED <<movements, signatures, paidOut, used>>
  BY DEF Delete, history
<1>3. PICK j : j = NoJob
  OBVIOUS
<1>4. /\ Goto(p, "idle", j) /\ pc' = [pc EXCEPT ![p] = "idle"] /\ job' = [job EXCEPT ![p] = j]
      /\ UNCHANGED <<starts, races, failures>>
  BY <1>3 DEF Delete, Done, Goto, bounds
<1>5. born' /\ OrderTabled' /\ RowsOfOrder'
  BY <1>1, <1>2 DEF OrderTabled, RowsOfOrder
<1>6. AccountStarts'
  BY <1>2, <1>5 DEF AccountStarts
<1>7. ApprovalsHeld'
  <2>1. \A r \in EditRequests : "idle" \in Editing /\ j.to = "editPaid" /\ j.row = r => Holds(p, r)
    BY DEF Editing
  <2>2. \A r \in EditRequests : \A x \in Processes : Holds(x, r)' => Holds(x, r)
    BY <1>4, <2>1, HoldsNoMore
  <2>3. \A r \in EditRequests : editReqs'[r] = None /\ ~MayServe(r)'
    BY <1>2, <1>5 DEF MayServe
  <2>. QED
    BY <1>1, <1>2, <2>2, <2>3, ApprovalsUntouched
<1>8. SignedBefore'
  <2>1. Existing(authReqs') = {}
    BY <1>2 DEF Existing
  <2>2. signatures' \in Nat /\ signatures' >= signatures
    BY <1>1, <1>2 DEF OrderTabled
  <2>. QED
    BY <1>2, <1>4, <2>1, <2>2, SignedKept
<1>9. OrderFits(j, "idle")' /\ Existing(movements) \subseteq Existing(movements')
  BY <1>2, <1>3, NoJobFits DEF Existing
<1>10. AccountInv(OrderRows, OrderTargets, OrderPCs)'
  <2>1. CASE job[p].seen = None
    <3>1. UNCHANGED rows
      BY <1>2, <2>1 DEF Delete, rows
    <3>. QED
      BY <1>1, <1>3, <1>4, <3>1, NoJobFits, AccountWaits DEF OrderJob
  <2>2. CASE job[p].seen # None
    <3>1. /\ payable' = None /\ payments' = [q \in Payments |-> None]
          /\ payReqs' = [r \in PayRequests |-> None]
          /\ reversals' = [r \in PayRequests |-> None]
          /\ asked' = [u \in Users |-> None]
      BY <2>2 DEF Delete
    <3>2. TablesTyped' /\ RowsKept
      BY <1>1, <1>2, <3>1 DEF TablesTyped, RowsKept, Existing
    <3>3. MovementsExist' /\ ReversedIsVoided'
      BY <3>1 DEF MovementsExist, ReversedIsVoided, Existing
    <3>4. CompletedIsReversed'
      BY <3>1, PayablesAssumption DEF CompletedIsReversed, ReversalStatuses
    <3>. QED
      BY <1>1, <1>3, <1>4, <3>2, <3>3, <3>4, NoJobFits, AccountMoves
         DEF OrderJob, ReversalIsWhole
  <2>. QED
    BY <2>1, <2>2
<1>. QED
  BY <1>1, <1>4, <1>5, <1>6, <1>7, <1>8, <1>9, <1>10, OrderMoves

-----------------------------------------------------------------------------
(* The payments of what left through the order.                            *)

\* The members of a finite set of numbers have every rank below its size.
LEMMA EveryRank ==
  ASSUME NEW S, S \subseteq Nat, IsFiniteSet(S), NEW k \in Nat, k < Cardinality(S)
  PROVE  \E x \in S : RankIn(S, x) = k
<1>. DEFINE Ranked(s) == \A n \in Nat : n < Cardinality(s) => \E x \in s : RankIn(s, x) = n
            T == {s \in SUBSET S : Ranked(s)}
<1>1. {} \in T
  BY FS_EmptySet
<1>2. ASSUME NEW s \in SUBSET S, s # {}, \A x \in s : s \ {x} \in T
      PROVE  s \in T
  <2>1. PICK m \in s : \A y \in s : m <= y
    BY <1>2, LeastNatural
  <2>2. PICK t : t = s \ {m}
    OBVIOUS
  <2>3. /\ IsFiniteSet(s) /\ IsFiniteSet(t) /\ Cardinality(t) \in Nat
        /\ Cardinality(s) = Cardinality(t) + 1
    <3>1. IsFiniteSet(s) /\ Cardinality(s) \in Nat
      BY FS_Subset, FS_CardinalityType
    <3>2. IsFiniteSet(t) /\ Cardinality(t) = Cardinality(s) - 1 /\ Cardinality(t) \in Nat
      BY <2>2, <3>1, FS_RemoveElement, FS_CardinalityType
    <3>. QED
      BY <3>1, <3>2
  <2>4. Ranked(t)
    BY <1>2, <2>2
  <2>5. ASSUME NEW n \in Nat, n < Cardinality(s) PROVE \E x \in s : RankIn(s, x) = n
    <3>1. CASE n = 0
      <4>1. {y \in s : y < m} = {}
        <5>1. m \in Nat /\ \A y \in s : y \in Nat
          OBVIOUS
        <5>2. \A y \in s : ~(y < m)
          BY <2>1, <5>1
        <5>. QED
          BY <5>2
      <4>. QED
        BY <3>1, <4>1, FS_EmptySet DEF RankIn
    <3>2. CASE n # 0
      <4>1. n - 1 \in Nat /\ n - 1 < Cardinality(t)
        BY <2>3, <2>5, <3>2
      <4>2. PICK x \in t : RankIn(t, x) = n - 1
        BY <2>4, <4>1
      <4>3. PICK b : b = {y \in t : y < x}
        OBVIOUS
      <4>4. IsFiniteSet(b) /\ m \notin b /\ Cardinality(b) = n - 1
        BY <2>2, <2>3, <4>2, <4>3, FS_Subset DEF RankIn
      <4>5. {y \in s : y < x} = b \cup {m}
        <5>1. m < x
          BY <2>1, <2>2
        <5>. QED
          BY <2>2, <4>3, <5>1
      <4>6. Cardinality(b \cup {m}) = n
        <5>1. Cardinality(b \cup {m}) = Cardinality(b) + 1
          BY <4>4, FS_AddElement
        <5>. QED
          BY <4>4, <5>1
      <4>. QED
        BY <2>2, <4>5, <4>6 DEF RankIn
    <3>. QED
      BY <3>1, <3>2
  <2>. QED
    BY <2>5
<1>. HIDE DEF T
<1>3. SUBSET S \subseteq T
  BY <1>1, <1>2, SubsetInduction
<1>. QED
  BY <1>3 DEF T

\* settleFromExpenseOrderMovements: each new payment is that of a movement found.
LEMMA ReflectedRows ==
  ASSUME TablesTyped, NEW found, found \subseteq Existing(movements),
         Cardinality(found) <= Cardinality(Free)
  PROVE  /\ Reflected(found) \in [Payments -> Payment \cup {None}]
         /\ \A q \in Payments :
              \/ Reflected(found)[q] = payments[q]
              \/ /\ payments[q] = None /\ Reflected(found)[q] # None
                 /\ Reflected(found)[q].movement \in found
                 /\ Reflected(found)[q].request = None /\ ~Reflected(found)[q].reversed
<1>1. /\ found \subseteq Nat /\ IsFiniteSet(found) /\ IsFiniteSet(Free) /\ Free \subseteq Payments
      /\ found \subseteq Movements
  BY FS_Subset, PayablesAssumption DEF Free, Existing, TablesTyped
<1>2. ASSUME NEW q \in Free, RankIn(Free, q) < Cardinality(found)
      PROVE  LET m == CHOOSE x \in found : RankIn(found, x) = RankIn(Free, q)
             IN  m \in found /\ m \in Movements /\ movements[m].amount \in Int
  <2>1. RankIn(Free, q) \in Nat
    BY <1>1, FS_Subset, FS_CardinalityType DEF RankIn
  <2>2. \E x \in found : RankIn(found, x) = RankIn(Free, q)
    BY <1>1, <1>2, <2>1, EveryRank
  <2>3. PICK m : m = CHOOSE x \in found : RankIn(found, x) = RankIn(Free, q)
    OBVIOUS
  <2>4. m \in found
    BY <2>2, <2>3
  <2>5. movements[m] \in Movement
    BY <1>1, <2>4 DEF TablesTyped, Existing
  <2>. QED
    BY <1>1, <2>3, <2>4, <2>5 DEF Movement
<1>3. ASSUME NEW q \in Payments
      PROVE  /\ Reflected(found)[q] \in Payment \cup {None}
             /\ \/ Reflected(found)[q] = payments[q]
                \/ /\ payments[q] = None /\ Reflected(found)[q] # None
                   /\ Reflected(found)[q].movement \in found
                   /\ Reflected(found)[q].request = None /\ ~Reflected(found)[q].reversed
  <2>1. CASE q \in Free /\ RankIn(Free, q) < Cardinality(found)
    <3>1. PICK m : m = CHOOSE x \in found : RankIn(found, x) = RankIn(Free, q)
      OBVIOUS
    <3>2. m \in found /\ m \in Movements /\ movements[m].amount \in Int
      BY <1>2, <2>1, <3>1
    <3>3. PICK row : row = [amount |-> movements[m].amount, movement |-> m, request |-> None,
                            reversed |-> FALSE]
      OBVIOUS
    <3>4. row \in Payment /\ row.movement = m /\ row.request = None /\ ~row.reversed
      BY <3>2, <3>3 DEF Payment
    <3>5. Reflected(found)[q] = row
      BY <2>1, <3>1, <3>3 DEF Reflected
    <3>6. row # None
      BY <3>4, PayablesAssumption
    <3>7. payments[q] = None
      BY <2>1 DEF Free, Existing, TablesTyped
    <3>. QED
      BY <3>2, <3>4, <3>5, <3>6, <3>7
  <2>2. CASE ~(q \in Free /\ RankIn(Free, q) < Cardinality(found))
    <3>1. Reflected(found)[q] = payments[q]
      BY <2>2 DEF Reflected
    <3>. QED
      BY <3>1 DEF TablesTyped
  <2>. QED
    BY <2>1, <2>2
<1>4. Reflected(found) = [q \in Payments |-> Reflected(found)[q]]
  BY DEF Reflected
<1>. QED
  BY <1>3, <1>4

\* settleFromExpenseOrderMovements, in one transaction: the payments of the money that
\* left, and the columns they add up to.
LEMMA OrderReflected ==
  ASSUME OrderAccountInv, NEW p \in Processes, Reflect(p)
  PROVE  OrderAccountInv'
<1>1. /\ TablesTyped /\ OrderTabled /\ ApprovalsHeld
      /\ AccountInv(OrderRows, OrderTargets, OrderPCs)
  BY OrderFacts
<1>2. PICK found : found = job[p].found
  OBVIOUS
<1>3. /\ pc[p] = "reflect" /\ pc[p] \in Editing /\ payable # None
      /\ Cardinality(found) <= Cardinality(Free)
      /\ payments' = Reflected(found) /\ Settled(p)
      /\ UNCHANGED <<movements, payReqs, reversals, asked, order, born, requests, history>>
  BY <1>2 DEF Reflect, Editing, orderVars
<1>4. /\ job[p] \in OrderJob /\ FoundBy(job[p], "reflect") /\ OrderFits(job[p], "reflect")
      /\ found \subseteq Existing(movements) /\ job[p].seen \in Payable
  <2>1. job[p] \in OrderJob /\ FoundBy(job[p], "reflect") /\ OrderFits(job[p], "reflect")
    BY <1>3, SameJob
  <2>. QED
    BY <1>2, <2>1 DEF OrderFits, OrderJob, JobOf
<1>5. /\ payments' \in [Payments -> Payment \cup {None}]
      /\ \A q \in Payments :
           \/ payments'[q] = payments[q]
           \/ /\ payments[q] = None /\ payments'[q] # None
              /\ payments'[q].movement \in found
              /\ payments'[q].request = None /\ ~payments'[q].reversed
  BY <1>1, <1>3, <1>4, ReflectedRows
<1>6. payable' \in Payable /\ payable' # None
  <2>1. PICK paid : paid = LiveSumOf(payments')
    OBVIOUS
  <2>2. paid \in Int
    <3>1. PICK t, S : t = payments' /\ S = {q \in Existing(t) : ~t[q].reversed}
      OBVIOUS
    <3>2. t \in [Payments -> Payment \cup {None}] /\ S \subseteq Payments
      BY <1>5, <3>1 DEF Existing
    <3>3. \A q \in S : t[q].amount \in Int
      BY <3>1, <3>2 DEF Existing, Payment
    <3>4. SumOf(t, S) \in Int
      BY <3>2, <3>3, SumOfType, PayablesAssumption
    <3>. QED
      BY <2>1, <3>1, <3>4 DEF LiveSumOf
  <2>3. PICK balance, status : /\ balance = job[p].seen.total - paid
                               /\ status = AfterPayment(balance)
    OBVIOUS
  <2>4. balance \in Int /\ status \in PayableStatuses
    BY <1>4, <2>2, <2>3 DEF Payable, AfterPayment, PayableStatuses
  <2>5. payable' = [payable EXCEPT !.paid = paid, !.balance = balance, !.status = status]
    BY <2>1, <2>3 DEF Reflect
  <2>6. payable \in Payable
    BY <1>1, <1>3 DEF TablesTyped
  <2>7. payable' \in Payable
    BY <2>2, <2>4, <2>5, <2>6 DEF Payable
  <2>. QED
    BY <2>7, PayablesAssumption
<1>7. TablesTyped' /\ RowsKept
  <2>1. TablesTyped'
    BY <1>1, <1>3, <1>5, <1>6 DEF TablesTyped
  <2>2. \A q \in Existing(payments) : q \in Existing(payments') /\ payments'[q] = payments[q]
    BY <1>1, <1>5 DEF TablesTyped, Existing
  <2>. QED
    BY <1>3, <2>1, <2>2 DEF RowsKept
<1>8. MovementsExist' /\ ReversalIsWhole'
  <2>1. MovementsExist /\ ReversedIsVoided /\ CompletedIsReversed
    BY <1>1 DEF AccountInv, ReversalIsWhole
  <2>2. \A q \in Existing(payments') :
          \/ q \in Existing(payments) /\ payments'[q] = payments[q]
          \/ payments'[q].movement \in found /\ ~payments'[q].reversed
    BY <1>1, <1>5 DEF TablesTyped, Existing
  <2>3. \A q \in Existing(payments) : q \in Existing(payments') /\ payments'[q] = payments[q]
    BY <1>1, <1>5 DEF TablesTyped, Existing
  <2>4. MovementsExist'
    BY <1>3, <1>4, <2>1, <2>2 DEF MovementsExist
  <2>5. ReversedIsVoided'
    BY <1>3, <2>1, <2>2 DEF ReversedIsVoided
  <2>6. CompletedIsReversed'
    BY <1>3, <2>1, <2>3 DEF CompletedIsReversed, PaymentOf
  <2>. QED
    BY <2>4, <2>5, <2>6 DEF ReversalIsWhole
<1>9. PICK l, j : /\ Goto(p, l, j)
                  /\ \/ l = "idle" /\ j = NoJob
                     \/ l = "refresh" /\ j = job[p]
  BY <1>3 DEF Settled, Done
<1>10. /\ l \in {"idle"} \cup Editing /\ j \in OrderJob
       /\ JobFits(j, l) /\ FoundBy(j, l)' /\ OrderFits(j, l)
  <2>1. CASE l = "idle"
    BY <1>9, <2>1, NoJobFits
  <2>2. CASE l = "refresh"
    <3>1. JobFits(j, l) /\ FoundBy(j, l)'
      BY <1>3, <1>4, <1>9, <2>2 DEF JobFits, FoundBy
    <3>2. OrderFits(j, l)
      BY <1>4, <1>9, <2>2 DEF OrderFits, Editing
    <3>. QED
      BY <1>4, <1>9, <2>2, <3>1, <3>2 DEF Editing
  <2>. QED
    BY <1>9, <2>1, <2>2
<1>11. ApprovalsHeld' /\ used' \in [EditRequests -> Nat]
  <2>1. \A r \in EditRequests :
          l \in Editing /\ j.to = "editPaid" /\ j.row = r => Holds(p, r)
    <3>1. CASE l = "idle"
      BY <3>1 DEF Editing
    <3>2. CASE l # "idle"
      BY <1>3, <1>9, <3>2, SameJob
    <3>. QED
      BY <3>1, <3>2
  <2>2. pc' = [pc EXCEPT ![p] = l] /\ job' = [job EXCEPT ![p] = j]
    BY <1>9 DEF Goto
  <2>3. \A r \in EditRequests : \A x \in Processes : Holds(x, r)' => Holds(x, r)
    BY <2>1, <2>2, HoldsNoMore
  <2>4. /\ used' = used /\ \A r \in EditRequests : MayServe(r)' <=> MayServe(r)
        /\ editReqs' = editReqs
    BY <1>3 DEF history, requests, MayServe
  <2>5. \A r \in EditRequests : editReqs'[r] # None =>
           MayServe(r) \/ (editReqs[r] # None /\ editReqs'[r].consumed = editReqs[r].consumed)
    BY <2>4
  <2>. QED
    BY <1>1, <2>3, <2>4, <2>5, ApprovalsUntouched DEF OrderTabled
<1>. QED
  BY <1>3, <1>6, <1>7, <1>8, <1>9, <1>10, <1>11, EditWrites DEF history

\* The payment of a movement is inserted once: every step keeps the invariant.
LEMMA OrderStepKeeps ==
  ASSUME OrderAccountInv, NEW p \in Processes, OrderStep(p)
  PROVE  OrderAccountInv'
BY OrderInserted, OrderReads, MirrorInserted, OrderRowWritten, RequestsAnswered, EgressTaken,
   OrderReflected, ApprovalConsumed, MirrorRead, MirrorWritten, LiveRead, ApprovalGivenBack,
   EditAnswered, OrderDeleted
   DEF OrderStep

\* The inductive invariant of an order and its account: whatever runs at once or dies,
\* no row refers to what is gone, an approval is held by one edit at most, and money and
\* status come after a signature.
THEOREM OrderAccountInvariant == OrderSpec => []OrderAccountInv
<1>1. OrderInit => OrderAccountInv
  BY OrderBorn
<1>2. OrderAccountInv /\ [OrderNext]_allVars => OrderAccountInv'
  <2>1. ASSUME OrderAccountInv, UNCHANGED allVars PROVE OrderAccountInv'
    <3>1. UNCHANGED <<rows, pc, job, starts, races, failures, order, born, authReqs, editReqs,
                      signatures, paidOut, used>>
      BY <2>1 DEF allVars, vars, orderVars, requests, history, bounds
    <3>2. OrderTabled' /\ RowsOfOrder'
      BY <2>1, <3>1, OrderFacts DEF OrderTabled, RowsOfOrder
    <3>3. ApprovalsHeld'
      BY <2>1, <3>1, OrderFacts, ApprovalsUntouched DEF Holds, MayServe
    <3>4. /\ UNCHANGED <<rows, pc, job, order, born, history>>
          /\ starts' \in 0..MaxStarts /\ races' \in 0..MaxRaces /\ failures' = failures
      BY <2>1, <3>1, OrderFacts DEF history
    <3>5. \A r \in Existing(authReqs') :
            authReqs'[r].status = "APPROVED" => r \in Existing(authReqs)
                                                /\ authReqs[r].status = "APPROVED"
      BY <3>1
    <3>. QED
      BY <2>1, <3>2, <3>3, <3>4, <3>5, OrderUntouched
  <2>2. ASSUME OrderAccountInv, Next, UNCHANGED orderVars PROVE OrderAccountInv'
    BY <2>2, OrderOfAccountStep
  <2>3. ASSUME OrderAccountInv, NEW p \in Processes,
               OrderStart(p) \/ OrderStep(p) \/ EditFails(p)
        PROVE  OrderAccountInv'
    BY <2>3, OrderStarts, OrderStepKeeps, OrderReads
  <2>4. ASSUME OrderAccountInv, OrderOthers PROVE OrderAccountInv'
    BY <2>4, OrderAtOnce
  <2>. QED
    BY <2>1, <2>2, <2>3, <2>4 DEF OrderNext
<1>. QED
  BY <1>1, <1>2, PTL DEF OrderSpec

\* What the approvals and the signature of an order promise follows from it.
LEMMA OrderInvFollows ==
  ASSUME OrderAccountInv
  PROVE  OrderInv
<1>1. OrderTypeOK /\ ApprovalsHeld /\ SignedBefore
  BY DEF OrderAccountInv
<1>2. EditUsedOnce
  BY <1>1 DEF ApprovalsHeld, EditUsedOnce
<1>3. ApprovedIsSigned
  <2>1. ASSUME Running = {}, failures = 0, NEW r \in Existing(authReqs),
               authReqs[r].status = "APPROVED"
        PROVE  signatures > 0
    <3>1. \A p \in Processes : pc[p] = "idle"
      BY <2>1 DEF Running
    <3>. QED
      BY <1>1, <2>1, <3>1 DEF SignedBefore
  <2>. QED
    BY <2>1 DEF ApprovedIsSigned
<1>. QED
  BY <1>1, <1>2, <1>3 DEF OrderInv

\* update, consumeApproval, approve: however many edits are saved at once, fail or give
\* their approval back, each approval is good for one; and what was approved was signed.
THEOREM ApprovalsKept == OrderSpec => []OrderInv
BY OrderAccountInvariant, OrderInvFollows, PTL

\* Beside its order too, a payment taken back is taken back whole.
THEOREM WholeReversalsOfOrder == OrderSpec => []ReversalIsWhole
<1>1. OrderAccountInv => ReversalIsWhole
  BY DEF OrderAccountInv, AccountInv
<1>. QED
  BY <1>1, OrderAccountInvariant, PTL

-----------------------------------------------------------------------------
(* The money of the order: one payout for each signature.                  *)

\* The processes that claimed the order and have not taken money out yet.
Claimed == {p \in Processes : pc[p] = "egress"}

\* Money left, money a process is about to take out, and the signature nobody
\* claimed yet: together they never exceed the signatures.
PayoutInv ==
  /\ pc = [p \in Processes |-> pc[p]]
  /\ signatures \in Nat /\ paidOut \in Nat
  /\ IsFiniteSet(Claimed)
  /\ paidOut + Cardinality(Claimed) + (IF InStatus({"ADMIN_AUTHORIZED"}) THEN 1 ELSE 0)
       <= signatures

\* At most process p leaves its label, and not for "egress".
NobodyClaims ==
  pc' = pc \/ \E p \in Processes : \E l : l # "egress" /\ pc' = [pc EXCEPT ![p] = l]
-----------------------------------------------------------------------------
\* A step in which nobody claims keeps the claims, or loses some.
LEMMA ClaimsShrink ==
  ASSUME PayoutInv, NobodyClaims
  PROVE  /\ pc' = [p \in Processes |-> pc'[p]]
         /\ IsFiniteSet(Claimed') /\ Cardinality(Claimed') <= Cardinality(Claimed)
         /\ Cardinality(Claimed') \in Nat /\ Cardinality(Claimed) \in Nat
<1>1. pc' = [p \in Processes |-> pc'[p]] /\ Claimed' \subseteq Claimed
  BY DEF PayoutInv, NobodyClaims, Claimed
<1>. QED
  BY <1>1, FS_Subset, FS_CardinalityType DEF PayoutInv

\* A step that neither claims nor signs keeps the invariant.
LEMMA OrderKept ==
  ASSUME PayoutInv, NobodyClaims, UNCHANGED <<signatures, paidOut>>,
         InStatus({"ADMIN_AUTHORIZED"})' => InStatus({"ADMIN_AUTHORIZED"})
  PROVE  PayoutInv'
BY ClaimsShrink DEF PayoutInv

\* No operation of the account claims the order.
LEMMA AccountStep ==
  ASSUME Next
  PROVE  NobodyClaims
<1>. USE DEF NobodyClaims
<1>1. CASE Others
  BY <1>1 DEF Others, CreatePayRequest, CreateReversal, CreateAuthRequest, MarkOverdue,
              VoidMovement, AtOnce
<1>2. ASSUME NEW p \in Processes, Fail(p) PROVE NobodyClaims
  BY <1>2 DEF Fail
<1>3. ASSUME NEW p \in Processes, Start(p) PROVE NobodyClaims
  BY <1>3 DEF Start, StartRegisterPayment, StartCajaApprovePayment, StartAnswerPayment,
       StartDeletePayment, StartAnswerReversal, StartCajaApproveReversal, StartUpdateTotal,
       StartCancel, StartAnswerAuth, StartAuthorize, Begin
<1>4. ASSUME NEW p \in Processes, Step(p) PROVE NobodyClaims
  <2>. USE DEF Goto, Done, Refuse
  <2>1. CASE AssertPayableAmount(p) \/ InsertMovement(p) \/ InsertPayment(p)
             \/ PaymentRefused(p) \/ UpdatePayable(p)
    BY <2>1 DEF AssertPayableAmount, InsertMovement, InsertPayment, PaymentRefused, UpdatePayable
  <2>2. CASE CompletePayRequest(p) \/ RereadPayable(p) \/ AnswerPayment(p) \/ FindPayment(p)
             \/ ReadLive(p)
    BY <2>2 DEF CompletePayRequest, RereadPayable, AnswerPayment, FindPayment, ReadLive
  <2>3. CASE CommitDelete(p) \/ AnswerReversal(p) \/ CommitReversal(p) \/ UpdateTotal(p)
             \/ Cancel(p)
    BY <2>3 DEF CommitDelete, AnswerReversal, CommitReversal, UpdateTotal, Cancel
  <2>4. CASE AnswerAuth(p) \/ Authorize(p) \/ Stamp(p)
    BY <2>4 DEF AnswerAuth, Authorize, Stamp
  <2>. QED
    BY <1>4, <2>1, <2>2, <2>3, <2>4 DEF Step
<1>. QED
  BY <1>1, <1>2, <1>3, <1>4 DEF Next

-----------------------------------------------------------------------------
(* The order's own operations.                                              *)

\* An operation begins, or takes one statement: nobody claims the order.
LEMMA BeginsKept ==
  ASSUME PayoutInv, NEW p \in Processes, OrderStart(p) \/ OrderOthers
  PROVE  PayoutInv' /\ UNCHANGED <<signatures, paidOut>>
<1>1. NobodyClaims
  <2>1. CASE OrderOthers
    BY <2>1 DEF OrderOthers, RequestAuthorization, RequestEdit, ApprovalExpires, AtOnce,
                NobodyClaims
  <2>2. CASE OrderStart(p)
    <3>. USE DEF BeginOrder, Begin, NobodyClaims
    <3>1. CASE StartCreate(p)
      BY <3>1 DEF StartCreate
    <3>2. CASE StartUpdateStatus(p)
      BY <3>2 DEF StartUpdateStatus
    <3>3. CASE StartCajaReject(p) \/ StartRemove(p)
      BY <3>3 DEF StartCajaReject, StartRemove
    <3>4. CASE StartAnswerRequest(p) \/ StartAnswerEdit(p)
      BY <3>4 DEF StartAnswerRequest, StartAnswerEdit
    <3>5. CASE StartCajaAuthorize(p)
      BY <3>5 DEF StartCajaAuthorize
    <3>6. CASE StartEdit(p) \/ StartEditPaid(p)
      BY <3>6 DEF StartEdit, StartEditPaid
    <3>. QED
      BY <2>2, <3>1, <3>2, <3>3, <3>4, <3>5, <3>6 DEF OrderStart
  <2>. QED
    BY <2>1, <2>2
<1>2. UNCHANGED <<order, signatures, paidOut>>
  BY DEF OrderOthers, RequestAuthorization, RequestEdit, ApprovalExpires, history, OrderStart,
         StartCreate, StartUpdateStatus, StartCajaReject, StartAnswerRequest,
         StartCajaAuthorize, StartEdit, StartEditPaid, StartAnswerEdit, StartRemove,
         BeginOrder, orderVars
<1>. QED
  BY <1>1, <1>2, OrderKept DEF InStatus

\* The steps that leave the order and its history as they are.
LEMMA QuietStep ==
  ASSUME PayoutInv, NEW p \in Processes,
         \/ FindMirror(p) \/ InsertMirror(p) \/ MirrorRefused(p) \/ CloseRequests(p)
         \/ AnswerRequest(p) \/ AutoSign(p) \/ ClaimLost(p) \/ ReadUnreflected(p)
         \/ Reflect(p) \/ ReflectRefused(p) \/ ConsumeApproval(p) \/ ConsumeRefused(p)
         \/ ReadMirror(p) \/ Sync(p) \/ ReadLivePayments(p) \/ Recalculate(p) \/ GiveBack(p)
         \/ AnswerEdit(p) \/ DeleteRefused(p) \/ OrderGone(p) \/ AccountGone(p) \/ EditFails(p)
  PROVE  PayoutInv' /\ UNCHANGED <<signatures, paidOut>>
<1>. USE DEF Goto, Done, Throw, OnlyControl, orderVars, history, MirrorReady, Settled, Edited,
             NobodyClaims
<1>1. NobodyClaims /\ UNCHANGED <<order, signatures, paidOut>>
  <2>1. CASE FindMirror(p) \/ InsertMirror(p) \/ MirrorRefused(p) \/ CloseRequests(p)
    BY <2>1 DEF FindMirror, InsertMirror, MirrorRefused, CloseRequests
  <2>2. CASE AnswerRequest(p) \/ AutoSign(p) \/ ClaimLost(p) \/ ReadUnreflected(p)
    BY <2>2 DEF AnswerRequest, AutoSign, ClaimLost, ReadUnreflected
  <2>3. CASE Reflect(p) \/ ReflectRefused(p) \/ ConsumeApproval(p) \/ ConsumeRefused(p)
    BY <2>3 DEF Reflect, ReflectRefused, ConsumeApproval, ConsumeRefused
  <2>4. CASE ReadMirror(p) \/ Sync(p)
    BY <2>4 DEF ReadMirror, Sync
  <2>5. CASE ReadLivePayments(p) \/ Recalculate(p) \/ GiveBack(p)
    BY <2>5 DEF ReadLivePayments, Recalculate, GiveBack
  <2>6. CASE AnswerEdit(p) \/ DeleteRefused(p) \/ OrderGone(p) \/ AccountGone(p)
             \/ EditFails(p)
    BY <2>6 DEF AnswerEdit, DeleteRefused, OrderGone, AccountGone, EditFails
  <2>. QED
    BY <2>1, <2>2, <2>3, <2>4, <2>5, <2>6
<1>. QED
  BY <1>1, OrderKept DEF InStatus

\* The steps that write the order and sign nothing.
LEMMA WriteStep ==
  ASSUME PayoutInv, NEW p \in Processes,
         SetStatus(p) \/ SetPaid(p) \/ ReplaceItems(p) \/ Delete(p)
  PROVE  PayoutInv' /\ UNCHANGED <<signatures, paidOut>>
<1>. USE DEF Goto, Done, history, WriteStatus, InStatus
<1>1. UNCHANGED <<signatures, paidOut>> /\ NobodyClaims
  BY DEF SetStatus, SetPaid, ReplaceItems, Delete, NobodyClaims
<1>2. InStatus({"ADMIN_AUTHORIZED"})' => InStatus({"ADMIN_AUTHORIZED"})
  BY DEF SetStatus, SetPaid, ReplaceItems, Delete
<1>. QED
  BY <1>1, <1>2, OrderKept

\* A signature makes room for one payment.
LEMMA SignStep ==
  ASSUME PayoutInv, NEW p \in Processes, Sign(p) \/ InsertOrder(p)
  PROVE  PayoutInv' /\ UNCHANGED paidOut /\ signatures' \in {signatures, signatures + 1}
<1>1. NobodyClaims
  BY DEF Sign, InsertOrder, WriteStatus, Goto, Done, NobodyClaims
<1>2. /\ IsFiniteSet(Claimed') /\ Cardinality(Claimed') <= Cardinality(Claimed)
      /\ Cardinality(Claimed') \in Nat /\ Cardinality(Claimed) \in Nat
      /\ pc' = [q \in Processes |-> pc'[q]]
  BY <1>1, ClaimsShrink
<1>3. CASE signatures' = signatures + 1 /\ UNCHANGED paidOut
  BY <1>2, <1>3 DEF PayoutInv
<1>4. CASE UNCHANGED <<signatures, paidOut>> /\ ~InStatus({"ADMIN_AUTHORIZED"})'
  BY <1>2, <1>4 DEF PayoutInv
<1>5. CASE UNCHANGED <<order, signatures, paidOut>>
  BY <1>1, <1>5, OrderKept DEF InStatus
<1>6. CASE Sign(p)
  BY <1>3, <1>6 DEF Sign
<1>7. CASE InsertOrder(p)
  <2>1. CASE born
    BY <1>5, <1>7, <2>1 DEF InsertOrder, OnlyControl, orderVars, history
  <2>2. CASE ~born
    <3>1. PICK s \in Unsigned \cup {"ADMIN_AUTHORIZED"} :
            /\ order' = [status |-> s, total |-> job[p].amount]
            /\ signatures' = signatures + (IF s = "ADMIN_AUTHORIZED" THEN 1 ELSE 0)
      BY <1>7, <2>2 DEF InsertOrder
    <3>2. UNCHANGED paidOut
      BY <1>7, <2>2 DEF InsertOrder
    <3>3. CASE s = "ADMIN_AUTHORIZED"
      BY <1>3, <3>1, <3>2, <3>3 DEF PayoutInv
    <3>4. CASE s \in Unsigned
      BY <1>4, <3>1, <3>2, <3>4 DEF PayoutInv, Unsigned, InStatus
    <3>. QED
      BY <3>3, <3>4
  <2>. QED
    BY <2>1, <2>2
<1>. QED
  BY <1>6, <1>7

\* The claim uses the signature up: no other process finds it.
LEMMA ClaimStep ==
  ASSUME PayoutInv, NEW p \in Processes, ClaimCajaAuthorization(p)
  PROVE  PayoutInv' /\ UNCHANGED <<signatures, paidOut>>
<1>1. /\ pc[p] = "claim" /\ InStatus({"ADMIN_AUTHORIZED"})
      /\ ~InStatus({"ADMIN_AUTHORIZED"})'
      /\ pc' = [pc EXCEPT ![p] = "egress"]
      /\ UNCHANGED <<signatures, paidOut>>
  BY DEF ClaimCajaAuthorization, WriteStatus, Goto, InStatus, history
<1>2. Claimed' = Claimed \cup {p} /\ p \notin Claimed
  BY <1>1 DEF PayoutInv, Claimed
<1>3. IsFiniteSet(Claimed') /\ Cardinality(Claimed') = Cardinality(Claimed) + 1
  BY <1>2, FS_AddElement DEF PayoutInv
<1>4. Cardinality(Claimed) \in Nat /\ pc' = [q \in Processes |-> pc'[q]]
  BY <1>1, FS_CardinalityType DEF PayoutInv
<1>. QED
  BY <1>1, <1>3, <1>4 DEF PayoutInv

\* The first movement of a claim is the payment, the others belong to it.
LEMMA EgressStep ==
  ASSUME PayoutInv, NEW p \in Processes, InsertEgress(p)
  PROVE  /\ PayoutInv' /\ UNCHANGED signatures
         /\ paidOut' = paidOut \/ (paidOut < signatures /\ paidOut' = paidOut + 1)
<1>1. /\ UNCHANGED <<order, signatures>>
      /\ paidOut' = IF pc[p] = "egress" THEN paidOut + 1 ELSE paidOut
      /\ \E l : l # "egress" /\ pc' = [pc EXCEPT ![p] = l]
  BY DEF InsertEgress, Goto
<1>2. CASE pc[p] = "egress"
  <2>1. Claimed' = Claimed \ {p} /\ p \in Claimed
    BY <1>1, <1>2 DEF PayoutInv, Claimed
  <2>2. IsFiniteSet(Claimed') /\ Cardinality(Claimed') = Cardinality(Claimed) - 1
    BY <2>1, FS_RemoveElement DEF PayoutInv
  <2>3. Cardinality(Claimed) \in Nat /\ Cardinality(Claimed') \in Nat
    BY <2>2, FS_CardinalityType DEF PayoutInv
  <2>4. pc' = [q \in Processes |-> pc'[q]]
    BY <1>1 DEF PayoutInv
  <2>. QED
    BY <1>1, <1>2, <2>2, <2>3, <2>4 DEF PayoutInv, InStatus
<1>3. CASE pc[p] # "egress"
  BY <1>1, <1>3, OrderKept DEF NobodyClaims, InStatus
<1>. QED
  BY <1>2, <1>3
-----------------------------------------------------------------------------
\* Every step keeps the invariant, and is a step of the abstract payout.
LEMMA PayoutStep ==
  ASSUME PayoutInv, [OrderNext]_allVars
  PROVE  PayoutInv' /\ [Payout!Sign \/ Payout!Pay]_<<signatures, paidOut>>
<1>. USE DEF Payout!Sign, Payout!Pay
<1>1. CASE UNCHANGED allVars
  BY <1>1, OrderKept DEF allVars, vars, orderVars, history, NobodyClaims, InStatus
<1>2. CASE Next /\ UNCHANGED orderVars
  BY <1>2, AccountStep, OrderKept DEF orderVars, history, InStatus
<1>3. CASE OrderOthers
  <2>1. CASE Processes = {}
    <3>1. UNCHANGED <<order, pc, signatures, paidOut>>
      BY <1>3 DEF OrderOthers, RequestAuthorization, RequestEdit, ApprovalExpires, AtOnce,
                  history
    <3>. QED
      BY <3>1, OrderKept DEF NobodyClaims, InStatus
  <2>2. CASE Processes # {}
    BY <1>3, <2>2, BeginsKept
  <2>. QED
    BY <2>1, <2>2
<1>4. ASSUME NEW p \in Processes, OrderStart(p) \/ OrderStep(p) \/ EditFails(p)
      PROVE  PayoutInv' /\ [Payout!Sign \/ Payout!Pay]_<<signatures, paidOut>>
  <2>1. CASE OrderStart(p)
    BY <2>1, BeginsKept
  <2>2. CASE Sign(p) \/ InsertOrder(p)
    BY <2>2, SignStep
  <2>3. CASE ClaimCajaAuthorization(p)
    BY <2>3, ClaimStep
  <2>4. CASE InsertEgress(p)
    BY <2>4, EgressStep
  <2>5. CASE SetStatus(p) \/ SetPaid(p) \/ ReplaceItems(p) \/ Delete(p)
    BY <2>5, WriteStep
  <2>6. CASE EditFails(p)
    BY <2>6, QuietStep
  <2>. QED
    BY <1>4, <2>1, <2>2, <2>3, <2>4, <2>5, <2>6, QuietStep DEF OrderStep
<1>. QED
  BY <1>1, <1>2, <1>3, <1>4 DEF OrderNext

\* Nothing was signed or paid before the order exists.
LEMMA PayoutStarts ==
  ASSUME OrderInit
  PROVE  PayoutInv /\ Payout!Init
<1>1. Claimed = {} /\ pc = [p \in Processes |-> pc[p]]
  BY DEF OrderInit, Claimed
<1>2. IsFiniteSet({}) /\ Cardinality({}) = 0
  BY FS_EmptySet
<1>. QED
  BY <1>1, <1>2 DEF OrderInit, PayoutInv, InStatus, Payout!Init

\* Money left, or about to leave, never exceeds the signatures.
THEOREM PayoutInvariant == OrderSpec => []PayoutInv
<1>1. OrderInit => PayoutInv
  BY PayoutStarts
<1>2. PayoutInv /\ [OrderNext]_allVars => PayoutInv'
  BY PayoutStep
<1>. QED
  BY <1>1, <1>2, PTL DEF OrderSpec

\* The expense order implements the abstract payout: whatever runs at the same
\* time, dies or is asked for twice, Caja pays at most once for each signature.
THEOREM PaysOnlyWhatIsSigned == OrderSpec => PaysWhatIsSigned
<1>1. OrderInit => Payout!Init
  BY PayoutStarts
<1>2. PayoutInv /\ [OrderNext]_allVars => [Payout!Sign \/ Payout!Pay]_<<signatures, paidOut>>
  BY PayoutStep
<1>. QED
  BY <1>1, <1>2, PayoutInvariant, PTL DEF OrderSpec, PaysWhatIsSigned, Payout!Spec

-----------------------------------------------------------------------------
(* One request at a time: the order and its account, and what each reads.  *)

\* What is asked of the rows depends on five of them, and on the amounts asked for.
LEMMA BooksSame ==
  ASSUME UNCHANGED <<payable, payments, movements, order>>
  PROVE  /\ Unreflected' = Unreflected /\ LivePayments' = LivePayments /\ LiveSum' = LiveSum
         /\ OrderMovements' = OrderMovements /\ MoneyOut' = MoneyOut
         /\ PaidThroughExpenseOrder' = PaidThroughExpenseOrder
         /\ (Followed' <=> Followed) /\ (PaidDirectly' <=> PaidDirectly)
         /\ (PayableOpen' <=> PayableOpen)
<1>1. /\ Unreflected' = Unreflected /\ LivePayments' = LivePayments
      /\ OrderMovements' = OrderMovements
  BY DEF Unreflected, LivePayments, OrderMovements, Existing
<1>. QED
  BY <1>1 DEF LiveSum, MoneyOut, PaidThroughExpenseOrder, Followed, NoneReversed, PaidDirectly,
              PayableOpen, SumOf, Existing

LEMMA AsReadSame ==
  ASSUME UNCHANGED <<payable, payments, movements, order, born>>, NEW j, NEW l, AsRead(j, l)
  PROVE  AsRead(j, l)'
<1>1. OrderAsRead(j, l)'
  BY BooksSame DEF AsRead, OrderAsRead, InStatus
<1>2. AccountAsRead(j, l)'
  BY BooksSame DEF AsRead, AccountAsRead, SumOf, AmountEditable
<1>3. MirrorAsRead(j, l)'
  BY BooksSame DEF AsRead, MirrorAsRead
<1>. QED
  BY <1>1, <1>2, <1>3 DEF AsRead

LEMMA StandsSame ==
  ASSUME UNCHANGED <<payable, payments, movements, order, born>>, NEW j, NEW l
  PROVE  /\ MirrorStands(j, l) => MirrorStands(j, l)'
         /\ BooksStand /\ (\A r \in Existing(payReqs') : payReqs'[r].amount > 0) => BooksStand'
<1>1. MirrorStands(j, l) => MirrorStands(j, l)'
  BY BooksSame DEF MirrorStands, InStatus
<1>2. BooksStand /\ (\A r \in Existing(payReqs') : payReqs'[r].amount > 0) => BooksStand'
  BY BooksSame DEF BooksStand, InStatus, AmountsPositive, Existing
<1>. QED
  BY <1>1, <1>2

\* Between two operations nothing is exempt, so that whatever begins finds it so.
LEMMA MirrorMoves ==
  ASSUME NEW i, NEW k, MirrorStands(i, k), k \notin Mirroring \cup {"settle"},
         NEW j, NEW l, l # "settle"
  PROVE  MirrorStands(j, l)
BY DEF MirrorStands, Mirroring, Reflecting, Refreshing

\* One process runs alone.
Lonely(p) ==
  OrderAccountInv /\ Running \subseteq {p} /\ pc[p] # "idle" /\ Stands(job[p], pc[p])

\* What a process that runs alone has found.
LEMMA LonelyFacts ==
  ASSUME NEW p \in Processes, Lonely(p)
  PROVE  /\ OrderTabled /\ TablesTyped /\ MovementsExist
         /\ job[p] \in OrderJob /\ JobFits(job[p], pc[p])
         /\ FoundBy(job[p], pc[p]) /\ OrderFits(job[p], pc[p])
         /\ OrderAsRead(job[p], pc[p]) /\ AccountAsRead(job[p], pc[p])
         /\ MirrorAsRead(job[p], pc[p]) /\ BooksStand
         /\ failures \in Nat /\ (failures = 0 => MirrorStands(job[p], pc[p]))
         /\ AccountStarts /\ RowsOfOrder /\ AccountInv(OrderRows, OrderTargets, OrderPCs)
         /\ pc \in [Processes -> OrderPCs] /\ job \in [Processes -> OrderJob]
<1>1. /\ OrderTabled /\ TablesTyped /\ AccountStarts /\ RowsOfOrder
      /\ AccountInv(OrderRows, OrderTargets, OrderPCs)
      /\ pc \in [Processes -> OrderPCs] /\ job \in [Processes -> OrderJob]
      /\ failures \in 0..MaxFailures /\ MaxFailures \in Nat
      /\ job[p] \in OrderJob /\ JobFits(job[p], pc[p])
      /\ FoundBy(job[p], pc[p]) /\ OrderFits(job[p], pc[p])
  BY OrderFacts, PayablesAssumption DEF Lonely
<1>2. MovementsExist
  BY <1>1 DEF AccountInv
<1>. QED
  BY <1>1, <1>2 DEF Lonely, Stands, AsRead

\* A process takes a step alone, and leaves the books as its next statement needs.
LEMMA LoneMoves ==
  ASSUME OrderAccountInv, NEW p \in Processes, Running \subseteq {p}, NEW l, NEW j,
         pc' = [pc EXCEPT ![p] = l], job' = [job EXCEPT ![p] = j],
         l = "idle" => j = NoJob, AsRead(j, l)', BooksStand',
         failures' = 0 => MirrorStands(j, l)'
  PROVE  LoneInv'
<1>1. /\ pc'[p] = l /\ job'[p] = j
      /\ \A x \in Processes : x # p => pc'[x] = "idle"
  BY OrderFacts DEF Running
<1>2. Running' \subseteq {p}
  BY <1>1 DEF Running
<1>3. Stands(j, l)'
  BY DEF Stands
<1>4. ASSUME Running' = {} PROVE Stands(NoJob, "idle")'
  <2>1. l = "idle" /\ j = NoJob
    BY <1>1, <1>4 DEF Running
  <2>. QED
    BY <1>3, <2>1
<1>5. ASSUME NEW x \in Running' PROVE Stands(job[x], pc[x])'
  <2>1. x = p /\ job'[x] = j /\ pc'[x] = l
    BY <1>1, <1>2
  <2>2. OrderAsRead(job[x], pc[x])'
    BY <1>3, <2>1 DEF Stands, AsRead, OrderAsRead
  <2>3. AccountAsRead(job[x], pc[x])'
    BY <1>3, <2>1 DEF Stands, AsRead, AccountAsRead, SumOf
  <2>4. MirrorAsRead(job[x], pc[x])'
    BY <1>3, <2>1 DEF Stands, AsRead, MirrorAsRead
  <2>5. failures' = 0 => MirrorStands(job[x], pc[x])'
    BY <1>3, <2>1 DEF Stands, MirrorStands
  <2>. QED
    BY <1>3, <2>2, <2>3, <2>4, <2>5 DEF Stands, AsRead
<1>6. OneRuns'
  BY <1>2 DEF OneRuns
<1>. QED
  BY <1>4, <1>5, <1>6 DEF LoneInv

\* The same where the books stay as they are.
LEMMA LoneWaits ==
  ASSUME OrderAccountInv, NEW p \in Processes, Running \subseteq {p}, NEW l, NEW j,
         pc' = [pc EXCEPT ![p] = l], job' = [job EXCEPT ![p] = j],
         l = "idle" => j = NoJob, AsRead(j, l), BooksStand,
         UNCHANGED <<payable, payments, movements, order, born>>,
         \A r \in Existing(payReqs') : payReqs'[r].amount > 0,
         failures' = 0 => MirrorStands(j, l)
  PROVE  LoneInv'
<1>1. AsRead(j, l)'
  BY AsReadSame
<1>2. BooksStand' /\ (failures' = 0 => MirrorStands(j, l)')
  BY StandsSame
<1>. QED
  BY <1>1, <1>2, LoneMoves

\* Nothing is asked of a process that ends.
LEMMA IdleAsRead == AsRead(NoJob, "idle") /\ AsRead(NoJob, "idle")'
BY DEF AsRead, OrderAsRead, AccountAsRead, MirrorAsRead, Refreshing

\* A process ends, or dies, and writes nothing.
LEMMA LoneEnds ==
  ASSUME NEW p \in Processes, Lonely(p), pc' = [pc EXCEPT ![p] = "idle"],
         job' = [job EXCEPT ![p] = NoJob],
         UNCHANGED <<payable, payments, movements, order, born>>,
         \A r \in Existing(payReqs') : payReqs'[r].amount > 0,
         \/ failures' # 0
         \/ failures' = failures /\ pc[p] \notin Mirroring \cup {"settle"}
  PROVE  LoneInv'
<1>1. PICK j : j = NoJob
  OBVIOUS
<1>2. failures' = 0 => MirrorStands(j, "idle")
  BY LonelyFacts, MirrorMoves
<1>3. AsRead(j, "idle")
  BY <1>1, IdleAsRead
<1>4. OrderAccountInv /\ Running \subseteq {p} /\ BooksStand
  BY LonelyFacts DEF Lonely
<1>. QED
  BY <1>1, <1>2, <1>3, <1>4, LoneWaits

\* What an operation finds that begins, and is no race.
LEMMA LoneStart ==
  ASSUME OrderAccountInv, LoneInv, races' = 0, NEW kind, Counted(kind)
  PROVE  /\ Running = {} /\ BooksStand /\ failures' = failures
         /\ failures = 0 => MirrorStands(NoJob, "idle")
<1>1. races \in Nat
  BY OrderFacts, PayablesAssumption
<1>2. Running = {} /\ races = 0 /\ failures' = failures
  BY <1>1 DEF Counted
<1>3. Stands(NoJob, "idle")
  BY <1>2 DEF LoneInv
<1>. QED
  BY <1>2, <1>3 DEF Stands

\* An operation begins, alone: what it read is so.
LEMMA LoneBegins ==
  ASSUME OrderAccountInv, LoneInv, races' = 0, NEW p \in Processes, NEW kind, NEW j, NEW l,
         Begin(p, kind, j, l), UNCHANGED <<order, born>>, l \notin {"settle", "idle"}, AsRead(j, l)
  PROVE  LoneInv'
<1>1. /\ Running = {} /\ BooksStand /\ failures' = failures
      /\ failures = 0 => MirrorStands(NoJob, "idle")
  BY LoneStart DEF Begin
<1>2. /\ pc' = [pc EXCEPT ![p] = l] /\ job' = [job EXCEPT ![p] = j]
      /\ UNCHANGED <<payable, payments, movements, payReqs>>
  BY DEF Begin, rows
<1>3. failures' = 0 => MirrorStands(j, l)
  <2>1. "idle" \notin Mirroring \cup {"settle"}
    BY DEF Mirroring, Reflecting, Refreshing
  <2>2. ASSUME MirrorStands(NoJob, "idle") PROVE MirrorStands(j, l)
    <3>1. PICK i, k : i = NoJob /\ k = "idle"
      OBVIOUS
    <3>2. MirrorStands(i, k)
      BY <2>2, <3>1
    <3>. QED
      BY <2>1, <3>1, <3>2, MirrorMoves
  <2>. QED
    BY <1>1, <2>2
<1>4. \A r \in Existing(payReqs') : payReqs'[r].amount > 0
  BY <1>1, <1>2 DEF BooksStand, AmountsPositive, Existing
<1>. QED
  BY <1>1, <1>2, <1>3, <1>4, LoneWaits

\* The operations of the account.
LEMMA LoneStartsAccount ==
  ASSUME OrderAccountInv, LoneInv, races' = 0, NEW p \in Processes, Start(p),
         UNCHANGED <<order, born>>
  PROVE  LoneInv'
<1>0. /\ NoJob.amount = 0 /\ NoJob.to = None /\ TablesTyped /\ BooksStand
  <2>1. \E kind : Counted(kind)
    BY DEF Start, StartRegisterPayment, StartCajaApprovePayment, StartAnswerPayment,
       StartDeletePayment, StartAnswerReversal, StartCajaApproveReversal, StartUpdateTotal,
       StartCancel, StartAnswerAuth, StartAuthorize, Begin
  <2>. QED
    BY <2>1, LoneStart, OrderFacts DEF NoJob
<1>1. CASE StartRegisterPayment(p)
  <2>1. PICK a, j : /\ a \in Amounts /\ j = [NoJob EXCEPT !.amount = a, !.seen = payable]
                                /\ Begin(p, "registerPayment", j, "assert")
    BY <1>1 DEF StartRegisterPayment
  <2>2. j.amount > 0 /\ j.seen = payable /\ PayableOpen
    BY <1>1, <2>1, PayablesAssumption DEF StartRegisterPayment, NoJob
  <2>3. AsRead(j, "assert")
    BY <2>2
       DEF AsRead, OrderAsRead, AccountAsRead, MirrorAsRead, Refreshing
  <2>. QED
    BY <2>1, <2>3, LoneBegins
<1>2. CASE StartCajaApprovePayment(p)
  <2>1. PICK r, j :
           /\ r \in Existing(payReqs)
           /\ j = [NoJob EXCEPT !.request = r, !.amount = payReqs[r].amount]
           /\ Begin(p, "payRequest", j, "complete")
    BY <1>2 DEF StartCajaApprovePayment
  <2>2. j.amount > 0
    BY <1>0, <2>1 DEF NoJob, BooksStand, AmountsPositive
  <2>3. AsRead(j, "complete")
    BY <2>2
       DEF AsRead, OrderAsRead, AccountAsRead, MirrorAsRead, Refreshing
  <2>. QED
    BY <2>1, <2>3, LoneBegins
<1>3. CASE StartDeletePayment(p)
  <2>1. PICK q, j : /\ j = [NoJob EXCEPT !.row = q, !.seen = payable]
                    /\ Begin(p, "deletePayment", j, "find")
    BY <1>3 DEF StartDeletePayment
  <2>2. j.seen = payable
    BY <2>1 DEF NoJob
  <2>3. AsRead(j, "find")
    BY <2>2
       DEF AsRead, OrderAsRead, AccountAsRead, MirrorAsRead, Refreshing
  <2>. QED
    BY <2>1, <2>3, LoneBegins
<1>4. CASE StartCajaApproveReversal(p)
  <2>1. PICK r, q, j :
           /\ q \in Existing(payments) /\ q \in PaymentOf(r) /\ ~payments[q].reversed
           /\ j = [NoJob EXCEPT !.row = q, !.request = r]
           /\ Begin(p, "reversal", j, "liveOfRequest")
    BY <1>4 DEF StartCajaApproveReversal
  <2>2. j.row \in LivePayments
    BY <2>1 DEF NoJob, LivePayments
  <2>3. AsRead(j, "liveOfRequest")
    BY <2>2
       DEF AsRead, OrderAsRead, AccountAsRead, MirrorAsRead, Refreshing
  <2>. QED
    BY <2>1, <2>3, LoneBegins
<1>5. CASE StartUpdateTotal(p)
  <2>1. PICK t, j : /\ t \in Totals /\ j = [NoJob EXCEPT !.amount = t, !.seen = payable]
                               /\ Begin(p, "update", j, "total")
    BY <1>5 DEF StartUpdateTotal
  <2>2. j.amount \in Totals /\ j.seen = payable /\ AmountEditable(payable) /\ "update" \in Kinds
    BY <1>5, <2>1 DEF NoJob, StartUpdateTotal, Begin, Counted
  <2>3. AsRead(j, "total")
    BY <2>2
       DEF AsRead, OrderAsRead, AccountAsRead, MirrorAsRead, Refreshing
  <2>. QED
    BY <2>1, <2>3, LoneBegins
<1>6. CASE StartCancel(p)
  <2>1. PICK j : j = NoJob /\ Begin(p, "cancel", j, "cancel") /\ PayableOpen
    BY <1>6 DEF StartCancel
  <2>2. AsRead(j, "cancel")
    BY <2>1
       DEF AsRead, OrderAsRead, AccountAsRead, MirrorAsRead, Refreshing
  <2>. QED
    BY <2>1, <2>2, LoneBegins
<1>7. CASE StartAnswerPayment(p) \/ StartAnswerReversal(p) \/ StartAnswerAuth(p)
           \/ StartAuthorize(p)
  <2>1. PICK kind, j, l :
           /\ l \in {"answerPayment", "answerReversal", "answerAuth", "authorize"}
           /\ Begin(p, kind, j, l)
    BY <1>7 DEF StartAnswerPayment, StartAnswerReversal, StartAnswerAuth, StartAuthorize
  <2>2. AsRead(j, l)
    BY <2>1 DEF AsRead, OrderAsRead, AccountAsRead, MirrorAsRead, Refreshing
  <2>. QED
    BY <2>1, <2>2, LoneBegins
<1>. QED
  BY <1>1, <1>2, <1>3, <1>4, <1>5, <1>6, <1>7 DEF Start

\* The operations of the order.
LEMMA LoneStartsOrder ==
  ASSUME OrderAccountInv, LoneInv, races' = 0, NEW p \in Processes, OrderStart(p)
  PROVE  LoneInv'
<1>. USE DEF BeginOrder, orderVars
<1>0. /\ NoJob.amount = 0 /\ NoJob.to = None
      /\ None \notin {"create", "pay", "edit", "editPaid"} /\ OrderTabled /\ BooksStand
  <2>1. \E kind : Counted(kind)
    BY DEF OrderStart, StartCreate, StartUpdateStatus, StartCajaReject, StartAnswerRequest,
       StartCajaAuthorize, StartEdit, StartEditPaid, StartAnswerEdit, StartRemove, Begin
  <2>. QED
    BY <2>1, LoneStart, OrderFacts, ExpenseOrdersAssumption DEF NoJob
<1>1. CASE StartCreate(p)
  <2>1. PICK t, j :
           /\ t \in Totals /\ j = [NoJob EXCEPT !.amount = t, !.sum = t, !.to = "create"]
           /\ BeginOrder(p, "create", j, "insertOrder")
    BY <1>1 DEF StartCreate
  <2>2. j.amount \in Totals /\ j.sum = j.amount /\ j.to = "create" /\ ~born
    BY <1>1, <2>1 DEF NoJob, StartCreate
  <2>3. AsRead(j, "insertOrder")
    BY <2>2
       DEF AsRead, OrderAsRead, AccountAsRead, MirrorAsRead, Refreshing
  <2>. QED
    BY <2>1, <2>3, LoneBegins
<1>2. CASE StartUpdateStatus(p)
  <2>1. PICK s, j :
           /\ s \in AllowedTransitions[order.status] /\ j = NoJob /\ order # None
           /\ BeginOrder(p, "updateStatus", j, CASE s = "ADMIN_AUTHORIZED" -> "sign"
                                               [] s = "CREATED" -> "toCreated"
                                               [] OTHER -> "toDraft")
    BY <1>2 DEF StartUpdateStatus
  <2>2. order.status \in OrderStatuses
    BY <1>0, <2>1 DEF OrderTabled
  <2>3. /\ s = "ADMIN_AUTHORIZED" => order.status \in Unsigned
        /\ s = "CREATED" => order.status = "DRAFT"
        /\ s \notin {"CREATED", "ADMIN_AUTHORIZED"} => order.status = "CREATED"
    BY <2>1, <2>2 DEF AllowedTransitions, OrderStatuses, Unsigned
  <2>4. PICK l \in {"sign", "toCreated", "toDraft"} :
           /\ BeginOrder(p, "updateStatus", j, l)
           /\ l = "sign" => order.status \in Unsigned
           /\ l = "toCreated" => order.status = "DRAFT"
           /\ l = "toDraft" => order.status = "CREATED"
    BY <2>1, <2>3
  <2>5. AsRead(j, l)
    BY <2>1, <2>4 DEF InStatus,
       AsRead, OrderAsRead, AccountAsRead, MirrorAsRead, Refreshing
  <2>. QED
    BY <2>4, <2>5, LoneBegins
<1>3. CASE StartCajaReject(p)
  <2>1. PICK j : j = NoJob /\ BeginOrder(p, "cajaReject", j, "toCreated")
    BY <1>3 DEF StartCajaReject
  <2>2. AsRead(j, "toCreated")
    BY <1>3 DEF StartCajaReject, InStatus,
       AsRead, OrderAsRead, AccountAsRead, MirrorAsRead, Refreshing
  <2>. QED
    BY <2>1, <2>2, LoneBegins
<1>4. CASE StartCajaAuthorize(p)
  <2>1. PICK j :
           /\ j = [NoJob EXCEPT !.amount = order.total, !.sum = order.total, !.to = "pay"]
           /\ BeginOrder(p, "cajaAuthorize", j, "claim")
    BY <1>4 DEF StartCajaAuthorize
  <2>2. j.amount = order.total /\ j.sum = order.total /\ j.to = "pay"
    BY <2>1 DEF NoJob
  <2>3. AsRead(j, "claim")
    BY <1>4, <2>2 DEF StartCajaAuthorize,
       AsRead, OrderAsRead, AccountAsRead, MirrorAsRead, Refreshing
  <2>. QED
    BY <2>1, <2>3, LoneBegins
<1>5. CASE StartEdit(p)
  <2>1. PICK t, j : /\ t \in Totals /\ j = [NoJob EXCEPT !.amount = t, !.to = "edit"]
                               /\ BeginOrder(p, "edit", j, "items")
    BY <1>5 DEF StartEdit
  <2>2. j.amount \in Totals /\ j.to = "edit"
    BY <2>1 DEF NoJob
  <2>3. AsRead(j, "items")
    BY <1>5, <2>2 DEF StartEdit,
       AsRead, OrderAsRead, AccountAsRead, MirrorAsRead, Refreshing
  <2>. QED
    BY <2>1, <2>3, LoneBegins
<1>6. CASE StartEditPaid(p)
  <2>1. PICK t, r, j, l :
           /\ t \in Totals /\ l \in {"items", "consume"}
           /\ j = [NoJob EXCEPT !.amount = t, !.row = r, !.to = "editPaid"]
           /\ BeginOrder(p, "editPaid", j, l)
    BY <1>6 DEF StartEditPaid
  <2>2. j.amount \in Totals /\ j.to = "editPaid"
    BY <2>1 DEF NoJob
  <2>3. AsRead(j, l)
    BY <1>6, <2>1, <2>2 DEF StartEditPaid,
       AsRead, OrderAsRead, AccountAsRead, MirrorAsRead, Refreshing
  <2>. QED
    BY <2>1, <2>3, LoneBegins
<1>7. CASE StartRemove(p)
  <2>1. PICK j : j = [NoJob EXCEPT !.seen = payable] /\ BeginOrder(p, "remove", j, "delete")
    BY <1>7 DEF StartRemove
  <2>2. j.seen = payable
    BY <2>1 DEF NoJob
  <2>3. AsRead(j, "delete")
    BY <1>7, <2>2 DEF StartRemove,
       AsRead, OrderAsRead, AccountAsRead, MirrorAsRead, Refreshing
  <2>. QED
    BY <2>1, <2>3, LoneBegins
<1>8. CASE StartAnswerRequest(p) \/ StartAnswerEdit(p)
  <2>1. PICK kind, j, l : l \in {"answerRequest", "answerEdit"} /\ BeginOrder(p, kind, j, l)
    BY <1>8 DEF StartAnswerRequest, StartAnswerEdit
  <2>2. AsRead(j, l)
    BY <2>1 DEF AsRead, OrderAsRead, AccountAsRead, MirrorAsRead, Refreshing
  <2>. QED
    BY <2>1, <2>2, LoneBegins
<1>. QED
  BY <1>1, <1>2, <1>3, <1>4, <1>5, <1>6, <1>7, <1>8 DEF OrderStart

-----------------------------------------------------------------------------
(* What runs at once, and what dies.                                       *)

\* An operation of one statement, that is no race.
LEMMA LoneAtOnce ==
  ASSUME Running = {}, UNCHANGED pc, BooksStand', failures' = 0 => MirrorStands(NoJob, "idle")'
  PROVE  LoneInv'
<1>1. Running' = {}
  BY DEF Running
<1>2. Stands(NoJob, "idle")'
  BY IdleAsRead DEF Stands
<1>. QED
  BY <1>1, <1>2 DEF LoneInv, OneRuns

\* The money of the movements and of the payments depends on those tables alone.
LEMMA MoneySame ==
  ASSUME UNCHANGED <<payments, movements>>
  PROVE  /\ Unreflected' = Unreflected /\ LivePayments' = LivePayments /\ LiveSum' = LiveSum
         /\ OrderMovements' = OrderMovements /\ MoneyOut' = MoneyOut
         /\ PaidThroughExpenseOrder' = PaidThroughExpenseOrder
         /\ (NoneReversed' <=> NoneReversed) /\ (PaidDirectly' <=> PaidDirectly)
         /\ (\A m \in Existing(movements) : movements[m].amount > 0) =>
              (\A m \in Existing(movements') : movements'[m].amount > 0)
<1>1. /\ Unreflected' = Unreflected /\ LivePayments' = LivePayments
      /\ OrderMovements' = OrderMovements
  BY DEF Unreflected, LivePayments, OrderMovements, Existing
<1>. QED
  BY <1>1 DEF LiveSum, MoneyOut, PaidThroughExpenseOrder, NoneReversed, PaidDirectly, SumOf,
              Existing

\* No column of a movement changes but that it is voided.
OnlyVoided ==
  \A m \in Movements :
    \/ movements'[m] = movements[m]
    \/ /\ movements[m] # None /\ movements'[m] # None /\ movements'[m].voided
       /\ movements'[m].amount = movements[m].amount
       /\ movements'[m].source = movements[m].source

LEMMA VoidedOnly ==
  ASSUME TablesTyped, NEW m, m \in Existing(movements),
         movements' = [movements EXCEPT ![m].voided = TRUE]
  PROVE  OnlyVoided /\ movements' \in [Movements -> Movement \cup {None}]
<1>1. m \in Movements /\ movements[m] \in Movement
  BY DEF TablesTyped, Existing
<1>2. PICK r : r = [movements[m] EXCEPT !.voided = TRUE]
  OBVIOUS
<1>3. /\ r \in Movement /\ r.voided /\ r.amount = movements[m].amount
      /\ r.source = movements[m].source
  BY <1>1, <1>2 DEF Movement
<1>4. r # None
  BY <1>3, PayablesAssumption
<1>5. movements' = [movements EXCEPT ![m] = r]
  BY <1>2
<1>. QED
  BY <1>1, <1>3, <1>4, <1>5 DEF OnlyVoided, TablesTyped, Existing

\* What left for the order has left, voided or not.
LEMMA VoidedSame ==
  ASSUME TablesTyped, OnlyVoided, movements' \in [Movements -> Movement \cup {None}]
  PROVE  /\ Existing(movements') = Existing(movements)
         /\ OrderMovements' = OrderMovements /\ MoneyOut' = MoneyOut
         /\ (\A m \in Existing(movements) : movements[m].amount > 0) =>
              (\A m \in Existing(movements') : movements'[m].amount > 0)
<1>1. /\ Existing(movements') = Existing(movements) /\ Existing(movements) \subseteq Movements
      /\ \A m \in Existing(movements) : /\ movements[m].amount \in Int
                                        /\ movements'[m].amount = movements[m].amount
                                        /\ movements'[m].source = movements[m].source
  BY DEF TablesTyped, OnlyVoided, Existing, Movement
<1>2. OrderMovements' = OrderMovements
  BY <1>1 DEF OrderMovements
<1>3. PICK S, t, u : S = OrderMovements /\ t = movements /\ u = movements'
  OBVIOUS
<1>4. IsFiniteSet(S) /\ \A y \in S : t[y].amount \in Int /\ u[y].amount = t[y].amount
  BY <1>1, <1>3, FS_Subset, PayablesAssumption DEF OrderMovements
<1>5. SumOf(u, S) = SumOf(t, S)
  BY <1>4, SumOfSame
<1>6. MoneyOut' = MoneyOut
  BY <1>2, <1>3, <1>5 DEF MoneyOut, SumOf
<1>. QED
  BY <1>1, <1>2, <1>6

LEMMA LoneOthers ==
  ASSUME OrderAccountInv, LoneInv, races' = 0, Others, UNCHANGED <<order, born>>
  PROVE  LoneInv'
<1>1. /\ Running = {} /\ BooksStand /\ failures' = failures /\ UNCHANGED pc
      /\ failures = 0 => MirrorStands(NoJob, "idle")
  <2>1. UNCHANGED pc /\ \E kind : Counted(kind)
    BY DEF Others, CreatePayRequest, CreateReversal, CreateAuthRequest, MarkOverdue, VoidMovement,
           AtOnce
  <2>. QED
    BY <2>1, LoneStart
<1>2. TablesTyped
  BY OrderFacts
<1>3. CASE CreatePayRequest \/ CreateReversal \/ CreateAuthRequest
  <2>1. /\ UNCHANGED <<payable, payments, movements>>
        /\ \A r \in Existing(payReqs') : payReqs'[r].amount > 0
    <3>1. CASE CreatePayRequest
      <4>1. PICK a \in Amounts, r \in PayRequests, u \in Users :
               payReqs' = [payReqs EXCEPT ![r] = [user |-> u, amount |-> a, status |-> "PENDING"]]
        BY <3>1 DEF CreatePayRequest
      <4>2. a > 0
        BY PayablesAssumption
      <4>3. \A x \in Existing(payReqs') :
              \/ x = r /\ payReqs'[x].amount = a
              \/ x \in Existing(payReqs) /\ payReqs'[x] = payReqs[x]
        BY <1>2, <4>1 DEF Existing, TablesTyped
      <4>. QED
        BY <1>1, <3>1, <4>2, <4>3 DEF CreatePayRequest, BooksStand, AmountsPositive
    <3>2. CASE CreateReversal \/ CreateAuthRequest
      BY <1>1, <3>2 DEF CreateReversal, CreateAuthRequest, BooksStand, AmountsPositive, Existing
    <3>. QED
      BY <1>3, <3>1, <3>2
  <2>2. BooksStand' /\ (failures' = 0 => MirrorStands(NoJob, "idle")')
    BY <1>1, <2>1, StandsSame
  <2>. QED
    BY <1>1, <2>2, LoneAtOnce
<1>4. CASE MarkOverdue
  <2>1. /\ payable # None /\ payable.status \in {"PENDING", "PARTIAL"} /\ payable \in Payable
        /\ payable' = [payable EXCEPT !.status = "OVERDUE"]
        /\ UNCHANGED <<payments, movements, payReqs>>
    BY <1>2, <1>4 DEF MarkOverdue, TablesTyped
  <2>2. /\ payable'.status = "OVERDUE" /\ payable'.total = payable.total
        /\ payable'.paid = payable.paid /\ payable'.balance = payable.balance
    BY <2>1 DEF Payable
  <2>3. BooksStand'
    BY <1>1, <2>1, <2>2, MoneySame DEF BooksStand, InStatus, AmountsPositive, Existing
  <2>4. failures' = 0 => MirrorStands(NoJob, "idle")'
    BY <1>1, <2>1, <2>2, MoneySame
       DEF MirrorStands, Followed, InStatus, Mirroring, Reflecting, Refreshing
  <2>. QED
    BY <1>1, <2>3, <2>4, LoneAtOnce
<1>5. CASE VoidMovement
  <2>1. /\ OnlyVoided /\ movements' \in [Movements -> Movement \cup {None}]
        /\ UNCHANGED <<payable, payments, payReqs>>
    BY <1>2, <1>5, VoidedOnly DEF VoidMovement
  <2>2. /\ Existing(movements') = Existing(movements)
        /\ OrderMovements' = OrderMovements /\ MoneyOut' = MoneyOut
        /\ (\A m \in Existing(movements) : movements[m].amount > 0) =>
              (\A m \in Existing(movements') : movements'[m].amount > 0)
    BY <1>2, <2>1, VoidedSame
  <2>3. BooksStand'
    BY <1>1, <2>1, <2>2 DEF BooksStand, InStatus, AmountsPositive, Existing
  <2>4. Unreflected' \subseteq Unreflected
    BY <1>2, <2>1, <2>2 DEF Unreflected, OnlyVoided, TablesTyped, Existing
  <2>5. /\ LiveSum' = LiveSum /\ (NoneReversed' <=> NoneReversed)
        /\ (PaidDirectly' <=> PaidDirectly)
    BY <2>1, <2>2 DEF LiveSum, LivePayments, SumOf, NoneReversed, PaidDirectly, Existing
  <2>6. failures' = 0 => MirrorStands(NoJob, "idle")'
    BY <1>1, <2>1, <2>4, <2>5 DEF MirrorStands, Followed, InStatus
  <2>. QED
    BY <1>1, <2>3, <2>6, LoneAtOnce
<1>. QED
  BY <1>3, <1>4, <1>5 DEF Others

LEMMA LoneOrderOthers ==
  ASSUME OrderAccountInv, LoneInv, races' = 0, OrderOthers
  PROVE  LoneInv'
<1>1. /\ UNCHANGED <<pc, payable, payments, movements, payReqs, order, born>>
      /\ \E kind : Counted(kind)
  BY DEF OrderOthers, RequestAuthorization, RequestEdit, ApprovalExpires, AtOnce, rows
<1>2. /\ Running = {} /\ BooksStand /\ failures' = failures
      /\ failures = 0 => MirrorStands(NoJob, "idle")
  BY <1>1, LoneStart
<1>3. \A r \in Existing(payReqs') : payReqs'[r].amount > 0
  BY <1>1, <1>2 DEF BooksStand, AmountsPositive, Existing
<1>4. BooksStand' /\ (failures' = 0 => MirrorStands(NoJob, "idle")')
  BY <1>1, <1>2, <1>3, StandsSame
<1>. QED
  BY <1>1, <1>2, <1>4, LoneAtOnce

\* A process that dies, or whose database call fails, leaves what is exempt from then on.
LEMMA LoneFails ==
  ASSUME NEW p \in Processes, Lonely(p),
         (Fail(p) /\ UNCHANGED orderVars) \/ EditFails(p)
  PROVE  LoneInv'
<1>1. failures' # 0 /\ BooksStand
  BY LonelyFacts DEF Fail, EditFails
<1>2. CASE Fail(p) /\ UNCHANGED orderVars
  <2>1. \A r \in Existing(payReqs') : payReqs'[r].amount > 0
    BY <1>1, <1>2 DEF Fail, rows, BooksStand, AmountsPositive, Existing
  <2>. QED
    BY <1>1, <1>2, <2>1, LoneEnds DEF Fail, rows, orderVars
<1>3. CASE EditFails(p)
  <2>1. PICK j : j = job[p]
    OBVIOUS
  <2>2. AsRead(j, "giveBack")
    BY DEF AsRead, OrderAsRead, AccountAsRead, MirrorAsRead, Refreshing
  <2>3. /\ pc' = [pc EXCEPT ![p] = "giveBack"] /\ job' = [job EXCEPT ![p] = j]
        /\ UNCHANGED <<payable, payments, movements, payReqs, order, born>>
    <3>1. job' = job /\ job \in [Processes -> OrderJob]
      BY <1>3, LonelyFacts DEF EditFails
    <3>. QED
      BY <1>3, <2>1, <3>1 DEF EditFails, OnlyControl, rows, orderVars
  <2>4. \A r \in Existing(payReqs') : payReqs'[r].amount > 0
    BY <1>1, <2>3 DEF BooksStand, AmountsPositive, Existing
  <2>. QED
    BY <1>1, <2>2, <2>3, <2>4, LoneWaits DEF Lonely
<1>. QED
  BY <1>2, <1>3

-----------------------------------------------------------------------------
(* The statements of the account, alone.                                   *)

\* A new movement of the account is none of the order's, nor any payment's.
LEMMA MovementAdded ==
  ASSUME TablesTyped, MovementsExist, UNCHANGED payments,
         NEW m \in Movements, movements[m] = None, NEW r \in Movement, ~r.voided,
         movements' = [movements EXCEPT ![m] = r]
  PROVE  /\ Existing(movements') = Existing(movements) \cup {m} /\ m \notin Existing(movements)
         /\ movements'[m] = r /\ \A x \in Existing(movements) : movements'[x] = movements[x]
         /\ LiveSum' = LiveSum /\ (NoneReversed' <=> NoneReversed)
         /\ (PaidDirectly' <=> PaidDirectly)
         /\ r.source = "AP" => /\ Unreflected' = Unreflected /\ OrderMovements' = OrderMovements
                               /\ MoneyOut' = MoneyOut
                               /\ PaidThroughExpenseOrder' = PaidThroughExpenseOrder
         /\ r.source = "OG" => /\ Unreflected' = Unreflected \cup {m}
                               /\ MoneyOut' = MoneyOut + r.amount
<1>1. r # None /\ r.amount \in Int
  BY PayablesAssumption DEF Movement
<1>2. /\ Existing(movements') = Existing(movements) \cup {m} /\ m \notin Existing(movements)
      /\ movements'[m] = r /\ \A x \in Existing(movements) : movements'[x] = movements[x]
      /\ Existing(movements) \subseteq Movements
      /\ \A x \in Existing(movements) : movements[x].amount \in Int
  BY <1>1 DEF TablesTyped, Existing, Movement
<1>3. \A q \in Existing(payments) : payments[q].movement # m
  BY <1>2, PayablesAssumption DEF MovementsExist
<1>4. LiveSum' = LiveSum /\ (NoneReversed' <=> NoneReversed)
  BY DEF LiveSum, LivePayments, SumOf, NoneReversed, Existing
<1>5. OrderMovements' = IF r.source = "OG" THEN OrderMovements \cup {m} ELSE OrderMovements
  BY <1>2 DEF OrderMovements
<1>6. PaidDirectly' <=> PaidDirectly
  BY <1>3, <1>5 DEF PaidDirectly, Existing
<1>7. Unreflected' = IF r.source = "OG" THEN Unreflected \cup {m} ELSE Unreflected
  <2>1. PICK E : E = Existing(payments)
    OBVIOUS
  <2>2. Existing(payments') = E
    BY <2>1 DEF Existing
  <2>3. Unreflected = {x \in Existing(movements) :
                         /\ movements[x].source = "OG" /\ ~movements[x].voided
                         /\ \A q \in E : payments[q].movement # x}
    BY <2>1 DEF Unreflected
  <2>4. Unreflected' = {x \in Existing(movements') :
                          /\ movements'[x].source = "OG" /\ ~movements'[x].voided
                          /\ \A q \in E : payments[q].movement # x}
    BY <2>2 DEF Unreflected
  <2>. QED
    BY <1>2, <1>3, <2>1, <2>3, <2>4
<1>8. PICK S, U, t, u : /\ S = OrderMovements /\ U = Unreflected /\ t = movements
                        /\ u = movements'
  OBVIOUS
<1>9. /\ IsFiniteSet(S) /\ IsFiniteSet(U) /\ m \notin S
      /\ \A x \in S \cup U : t[x].amount \in Int /\ u[x].amount = t[x].amount
      /\ u[m].amount = r.amount
  BY <1>2, <1>8, FS_Subset, PayablesAssumption DEF OrderMovements, Unreflected
<1>10. /\ SumOf(u, S) = SumOf(t, S) /\ SumOf(u, U) = SumOf(t, U)
       /\ SumOf(t, S) \in Int
  <2>1. /\ \A x \in S : t[x].amount \in Int /\ u[x].amount = t[x].amount
        /\ \A x \in U : t[x].amount \in Int /\ u[x].amount = t[x].amount
    BY <1>9
  <2>2. SumOf(u, S) = SumOf(t, S) /\ SumOf(u, U) = SumOf(t, U)
    BY <1>9, <2>1, SumOfSame
  <2>3. SumOf(t, S) \in Int
    BY <1>9, <2>1, SumOfType
  <2>. QED
    BY <2>2, <2>3
<1>11. SumOf(u, S \cup {m}) = r.amount + SumOf(t, S)
  <2>1. \A x \in S : t[x].amount \in Int /\ u[x].amount = t[x].amount
    BY <1>9
  <2>2. u[m].amount \in Int
    BY <1>1, <1>9
  <2>3. SumOf(u, S \cup {m}) = u[m].amount + SumOf(t, S)
    BY <1>9, <2>1, <2>2, SumOfWith
  <2>. QED
    BY <1>9, <2>3
<1>12. r.source = "AP" => /\ MoneyOut' = MoneyOut
                          /\ PaidThroughExpenseOrder' = PaidThroughExpenseOrder
  BY <1>5, <1>7, <1>8, <1>10 DEF MoneyOut, PaidThroughExpenseOrder, SumOf
<1>13. r.source = "OG" => MoneyOut' = MoneyOut + r.amount
  BY <1>1, <1>5, <1>8, <1>10, <1>11 DEF MoneyOut, SumOf
<1>. QED
  BY <1>2, <1>4, <1>5, <1>6, <1>7, <1>12, <1>13

\* A new payment adds its amount, and speaks for its movement.
LEMMA PaymentAdded ==
  ASSUME TablesTyped, UNCHANGED movements,
         NEW q \in Payments, payments[q] = None, NEW r \in Payment, ~r.reversed,
         payments' = [payments EXCEPT ![q] = r]
  PROVE  /\ Existing(payments') = Existing(payments) \cup {q}
         /\ payments'[q] = r /\ \A x \in Existing(payments) : payments'[x] = payments[x]
         /\ LiveSum' = LiveSum + r.amount /\ LiveSumOf(payments') = LiveSum + r.amount
         /\ (NoneReversed' <=> NoneReversed)
         /\ (PaidDirectly => PaidDirectly') /\ Unreflected' \subseteq Unreflected
<1>1. r # None /\ r.amount \in Int
  BY PayablesAssumption DEF Payment
<1>2. /\ Existing(payments') = Existing(payments) \cup {q} /\ q \notin Existing(payments)
      /\ payments'[q] = r /\ \A x \in Existing(payments) : payments'[x] = payments[x]
      /\ Existing(payments) \subseteq Payments
      /\ \A x \in Existing(payments) : payments[x].amount \in Int
  BY <1>1 DEF TablesTyped, Existing, Payment
<1>3. LivePayments' = LivePayments \cup {q} /\ q \notin LivePayments
  BY <1>2 DEF LivePayments
<1>4. PICK S, t, u : S = LivePayments /\ t = payments /\ u = payments'
  OBVIOUS
<1>5. /\ IsFiniteSet(S) /\ q \notin S /\ u[q].amount = r.amount
      /\ \A x \in S : t[x].amount \in Int /\ u[x].amount = t[x].amount
  BY <1>2, <1>3, <1>4, FS_Subset, PayablesAssumption DEF LivePayments
<1>6. SumOf(u, S \cup {q}) = r.amount + SumOf(t, S) /\ SumOf(t, S) \in Int
  <2>1. SumOf(u, S \cup {q}) = u[q].amount + SumOf(t, S)
    BY <1>1, <1>5, SumOfWith
  <2>2. SumOf(t, S) \in Int
    BY <1>5, SumOfType
  <2>. QED
    BY <1>5, <2>1, <2>2
<1>7. LiveSum' = LiveSum + r.amount
  BY <1>1, <1>3, <1>4, <1>6 DEF LiveSum, SumOf
<1>8. LiveSumOf(payments') = LiveSum'
  BY DEF LiveSumOf, LiveSum, LivePayments, SumOf, Existing
<1>9. /\ (NoneReversed' <=> NoneReversed)
      /\ (PaidDirectly => PaidDirectly') /\ Unreflected' \subseteq Unreflected
  <2>1. NoneReversed' <=> NoneReversed
    BY <1>2 DEF NoneReversed
  <2>2. OrderMovements' = OrderMovements
    BY DEF OrderMovements, Existing
  <2>3. ASSUME PaidDirectly PROVE PaidDirectly'
    <3>1. PICK x \in Existing(payments) : payments[x].movement \notin OrderMovements
      BY <2>3 DEF PaidDirectly
    <3>2. x \in Existing(payments') /\ payments'[x] = payments[x]
      BY <1>2, <3>1
    <3>. QED
      BY <2>2, <3>1, <3>2 DEF PaidDirectly
  <2>4. Unreflected' \subseteq Unreflected
    BY <1>2 DEF Unreflected, Existing
  <2>. QED
    BY <2>1, <2>3, <2>4
<1>. QED
  BY <1>2, <1>7, <1>8, <1>9

\* registerPayment, from the check of the amount to the columns.
LEMMA LoneOfPayment ==
  ASSUME NEW p \in Processes, Lonely(p), UNCHANGED <<order, born>>,
         \/ AssertPayableAmount(p) \/ InsertMovement(p) \/ InsertPayment(p)
         \/ PaymentRefused(p) \/ UpdatePayable(p)
  PROVE  LoneInv'
<1>. USE DEF Goto, Done
<1>1. /\ TablesTyped /\ MovementsExist /\ job[p] \in OrderJob /\ JobFits(job[p], pc[p])
      /\ AccountAsRead(job[p], pc[p]) /\ BooksStand /\ failures \in Nat
      /\ failures = 0 => MirrorStands(job[p], pc[p])
      /\ OrderAccountInv /\ Running \subseteq {p}
  BY LonelyFacts DEF Lonely
<1>2. /\ \A r \in Existing(payReqs) : payReqs[r].amount > 0
      /\ job[p].amount \in Int /\ PaidThroughExpenseOrder \in Int
  <2>1. job[p].amount \in Int
    BY <1>1 DEF OrderJob, JobOf
  <2>2. PICK U, t : U = Unreflected /\ t = movements
    OBVIOUS
  <2>3. U \subseteq Movements /\ \A x \in U : t[x].amount \in Int
    BY <1>1, <2>2 DEF Unreflected, TablesTyped, Existing, Movement
  <2>4. SumOf(t, U) \in Int
    BY <2>3, SumOfType, PayablesAssumption
  <2>. QED
    BY <1>1, <2>1, <2>2, <2>4 DEF BooksStand, AmountsPositive, PaidThroughExpenseOrder
<1>3. CASE AssertPayableAmount(p)
  <2>1. /\ pc[p] = "assert" /\ UNCHANGED <<payable, payments, movements, payReqs, failures>>
    BY <1>3 DEF AssertPayableAmount, rows, bounds
  <2>2. "assert" \notin Mirroring \cup {"settle"}
    BY DEF Mirroring, Reflecting, Refreshing
  <2>3. CASE job[p].amount <= Disponible(job[p].seen)
    <3>1. PICK l, j : /\ l \in {"movement", "payment"} /\ j = job[p]
                      /\ pc' = [pc EXCEPT ![p] = l] /\ job' = [job EXCEPT ![p] = j]
      BY <1>3, <2>3 DEF AssertPayableAmount
    <3>2. /\ j.seen = payable /\ PayableOpen /\ j.amount > 0
          /\ j.amount <= payable.balance - PaidThroughExpenseOrder
      BY <1>1, <2>1, <2>3, <3>1 DEF AccountAsRead, Disponible
    <3>3. AsRead(j, l)
      BY <3>1, <3>2 DEF AsRead, OrderAsRead, AccountAsRead, MirrorAsRead, Refreshing
    <3>4. failures' = 0 => MirrorStands(j, l)
      BY <1>1, <2>1, <2>2, <3>1, MirrorMoves
    <3>. QED
      BY <1>1, <1>2, <2>1, <3>1, <3>3, <3>4, LoneWaits
  <2>4. CASE ~(job[p].amount <= Disponible(job[p].seen))
    BY <1>2, <1>3, <2>1, <2>2, <2>4, LoneEnds DEF AssertPayableAmount
  <2>. QED
    BY <2>3, <2>4
<1>4. CASE PaymentRefused(p)
  <2>1. "payment" \notin Mirroring \cup {"settle"}
    BY DEF Mirroring, Reflecting, Refreshing
  <2>. QED
    BY <1>2, <1>4, <2>1, LoneEnds DEF PaymentRefused, Refuse, rows, bounds
<1>5. CASE InsertMovement(p)
  <2>0. PICK m \in Movements :
          /\ movements[m] = None
          /\ movements' = [movements EXCEPT ![m] = [amount |-> job[p].amount, source |-> "AP",
                                                    voided |-> FALSE]]
          /\ pc' = [pc EXCEPT ![p] = "payment"]
          /\ job' = [job EXCEPT ![p] = [job[p] EXCEPT !.movement = m]]
    BY <1>5 DEF InsertMovement, Fresh
  <2>1. PICK r, j :
          /\ r = [amount |-> job[p].amount, source |-> "AP", voided |-> FALSE]
          /\ movements' = [movements EXCEPT ![m] = r]
          /\ j = [job[p] EXCEPT !.movement = m]
          /\ pc' = [pc EXCEPT ![p] = "payment"] /\ job' = [job EXCEPT ![p] = j]
          /\ movements[m] = None
    BY <2>0
  <2>2. r \in Movement /\ ~r.voided /\ r.source = "AP" /\ r.amount = job[p].amount
    BY <1>2, <2>1 DEF Movement
  <2>3. /\ pc[p] = "movement" /\ UNCHANGED <<payable, payments, payReqs, failures>>
    BY <1>5 DEF InsertMovement, bounds
  <2>4. /\ Existing(movements') = Existing(movements) \cup {m}
        /\ movements'[m] = r /\ \A x \in Existing(movements) : movements'[x] = movements[x]
        /\ LiveSum' = LiveSum /\ (NoneReversed' <=> NoneReversed)
        /\ (PaidDirectly' <=> PaidDirectly)
        /\ Unreflected' = Unreflected /\ OrderMovements' = OrderMovements
        /\ MoneyOut' = MoneyOut
        /\ PaidThroughExpenseOrder' = PaidThroughExpenseOrder
    BY <1>1, <2>1, <2>2, <2>3, MovementAdded
  <2>5. /\ j.seen = job[p].seen /\ j.amount = job[p].amount
        /\ j.seen = payable /\ PayableOpen /\ j.amount > 0
        /\ j.amount <= payable.balance - PaidThroughExpenseOrder
    BY <1>1, <2>1, <2>3 DEF AccountAsRead, OrderJob, JobOf
  <2>6. AsRead(j, "payment")'
    BY <2>3, <2>4, <2>5
       DEF AsRead, OrderAsRead, AccountAsRead, MirrorAsRead, Refreshing, PayableOpen
  <2>7. BooksStand'
    BY <1>1, <2>2, <2>3, <2>4, <2>5 DEF BooksStand, InStatus, AmountsPositive, Existing
  <2>8. failures' = 0 => MirrorStands(j, "payment")'
    BY <1>1, <2>3, <2>4
       DEF MirrorStands, Followed, InStatus, Mirroring, Reflecting, Refreshing
  <2>. QED
    BY <1>1, <2>1, <2>6, <2>7, <2>8, LoneMoves
<1>6. CASE InsertPayment(p)
  <2>1. PICK q, r, j :
          /\ q \in Payments /\ payments[q] = None
          /\ r = [amount |-> job[p].amount, movement |-> job[p].movement,
                  request |-> job[p].request, reversed |-> FALSE]
          /\ payments' = [payments EXCEPT ![q] = r]
          /\ j = job[p]
          /\ pc' = [pc EXCEPT ![p] = "settle"] /\ job' = [job EXCEPT ![p] = j]
    BY <1>6 DEF InsertPayment, Fresh
  <2>2. r \in Payment /\ ~r.reversed /\ r.amount = job[p].amount
    BY <1>1, <2>1 DEF Payment, OrderJob, JobOf
  <2>3. /\ pc[p] = "payment" /\ payable # None
        /\ UNCHANGED <<payable, movements, payReqs, failures>>
    BY <1>6 DEF InsertPayment, bounds
  <2>4. /\ Existing(payments') = Existing(payments) \cup {q}
        /\ payments'[q] = r /\ \A x \in Existing(payments) : payments'[x] = payments[x]
        /\ LiveSum' = LiveSum + job[p].amount
        /\ (NoneReversed' <=> NoneReversed)
        /\ (PaidDirectly => PaidDirectly') /\ Unreflected' \subseteq Unreflected
    BY <1>1, <2>1, <2>2, <2>3, PaymentAdded
  <2>5. j.seen = payable /\ PayableOpen /\ j.amount > 0 /\ j.amount = job[p].amount
    BY <1>1, <2>1, <2>3 DEF AccountAsRead
  <2>6. AsRead(j, "settle")'
    BY <2>3, <2>5 DEF AsRead, OrderAsRead, AccountAsRead, MirrorAsRead, Refreshing, PayableOpen
  <2>7. BooksStand'
    BY <1>1, <2>2, <2>3, <2>4, <2>5
       DEF BooksStand, InStatus, AmountsPositive, OrderMovements, Existing
  <2>8. failures' = 0 => MirrorStands(j, "settle")'
    BY <1>1, <2>3, <2>4, <2>5
       DEF MirrorStands, Followed, InStatus, Mirroring, Reflecting, Refreshing
  <2>. QED
    BY <1>1, <2>1, <2>6, <2>7, <2>8, LoneMoves
<1>7. CASE UpdatePayable(p)
  <2>1. PICK paid, balance : /\ paid = payable.paid + job[p].amount
                             /\ balance = payable.total - paid
    OBVIOUS
  <2>2. /\ pc[p] = "settle" /\ payable # None /\ payable \in Payable /\ job[p].seen = payable
        /\ PayableOpen
        /\ payable' = [payable EXCEPT !.paid = paid, !.balance = balance,
                                      !.status = AfterPayment(balance)]
        /\ UNCHANGED <<payments, movements, payReqs, failures>>
    BY <1>1, <1>7, <2>1 DEF UpdatePayable, AccountAsRead, TablesTyped, bounds
  <2>3. /\ payable.total \in Int /\ payable.paid \in Int /\ paid \in Int /\ balance \in Int
        /\ payable'.total = payable.total /\ payable'.paid = paid /\ payable'.balance = balance
        /\ payable'.status = AfterPayment(balance)
    BY <1>2, <2>1, <2>2 DEF Payable
  <2>4. BooksStand'
    BY <1>1, <2>1, <2>2, <2>3, MoneySame DEF BooksStand, InStatus, AmountsPositive, Existing
  <2>5. PICK j : j = NoJob
    OBVIOUS
  <2>6. failures' = 0 => MirrorStands(j, "idle")'
    <3>1. SUFFICES ASSUME failures = 0 PROVE MirrorStands(j, "idle")'
      BY <2>2
    <3>2. MirrorStands(job[p], "settle")
      BY <1>1, <2>2, <3>1
    <3>3. LiveSum' = payable'.paid
      BY <2>1, <2>2, <2>3, <3>2, MoneySame DEF MirrorStands
    <3>4. payable'.status = "PAID" <=> payable'.balance <= 0
      BY <2>3 DEF AfterPayment
    <3>5. /\ Followed' => Followed
          /\ Followed => payable.status # "PAID"
      BY <2>2, MoneySame DEF Followed, PayableOpen
    <3>. QED
      BY <2>2, <2>3, <3>2, <3>3, <3>4, <3>5, MoneySame
         DEF MirrorStands, InStatus, Mirroring, Reflecting, Refreshing
  <2>7. AsRead(j, "idle")'
    BY <2>5, IdleAsRead
  <2>. QED
    BY <1>1, <1>7, <2>4, <2>5, <2>6, <2>7, LoneMoves DEF UpdatePayable
<1>. QED
  BY <1>3, <1>4, <1>5, <1>6, <1>7

\* deletePayment and the reversal of a payment: what goes is what the rest leave.
LEMMA LoneOfReversal ==
  ASSUME NEW p \in Processes, Lonely(p), UNCHANGED <<order, born>>,
         FindPayment(p) \/ ReadLive(p) \/ CommitDelete(p) \/ CommitReversal(p)
  PROVE  LoneInv'
<1>. USE DEF Goto, Done
<1>1. /\ TablesTyped /\ MovementsExist /\ job[p] \in OrderJob /\ JobFits(job[p], pc[p])
      /\ AccountAsRead(job[p], pc[p]) /\ BooksStand /\ failures \in Nat
      /\ failures = 0 => MirrorStands(job[p], pc[p])
      /\ OrderAccountInv /\ Running \subseteq {p}
  BY LonelyFacts DEF Lonely
<1>2. /\ \A r \in Existing(payReqs) : payReqs[r].amount > 0
      /\ failures' = failures /\ UNCHANGED payReqs
      /\ pc[p] \in {"find", "live", "liveOfRequest", "undo", "undoRequest"}
      /\ pc[p] \notin Mirroring \cup {"settle"}
  <2>1. pc[p] \in {"find", "live", "liveOfRequest", "undo", "undoRequest"}
    BY DEF FindPayment, ReadLive, CommitDelete, CommitReversal
  <2>2. failures' = failures /\ UNCHANGED payReqs
    BY DEF FindPayment, ReadLive, CommitDelete, CommitReversal, rows, bounds
  <2>. QED
    BY <1>1, <2>1, <2>2 DEF BooksStand, AmountsPositive, Mirroring, Reflecting, Refreshing
<1>3. CASE FindPayment(p)
  <2>1. /\ pc[p] = "find" /\ UNCHANGED <<payable, payments, movements, payReqs>>
    BY <1>3 DEF FindPayment, rows
  <2>2. CASE payments[job[p].row] # None /\ ~payments[job[p].row].reversed
    <3>1. PICK j : /\ j = job[p] /\ pc' = [pc EXCEPT ![p] = "live"]
                   /\ job' = [job EXCEPT ![p] = j]
      BY <1>3, <2>2 DEF FindPayment
    <3>2. j.seen = payable /\ j.row \in LivePayments
      BY <1>1, <2>1, <2>2, <3>1
         DEF AccountAsRead, JobFits, LivePayments, Existing, TablesTyped
    <3>3. AsRead(j, "live")
      BY <3>2 DEF AsRead, OrderAsRead, AccountAsRead, MirrorAsRead, Refreshing
    <3>4. failures' = 0 => MirrorStands(j, "live")
      BY <1>1, <1>2, MirrorMoves
    <3>. QED
      BY <1>1, <1>2, <2>1, <3>1, <3>3, <3>4, LoneWaits
  <2>3. CASE ~(payments[job[p].row] # None /\ ~payments[job[p].row].reversed)
    BY <1>2, <1>3, <2>1, <2>3, LoneEnds DEF FindPayment
  <2>. QED
    BY <2>2, <2>3
<1>4. CASE ReadLive(p)
  <2>1. PICK j, l :
          /\ \/ pc[p] = "live" /\ l = "undo"
             \/ pc[p] = "liveOfRequest" /\ l = "undoRequest"
          /\ j = [job[p] EXCEPT !.sum = SumOf(payments, LivePayments \ {job[p].row})]
          /\ pc' = [pc EXCEPT ![p] = l] /\ job' = [job EXCEPT ![p] = j]
    BY <1>4 DEF ReadLive
  <2>2. UNCHANGED <<payable, payments, movements>>
    BY <1>4 DEF ReadLive, rows
  <2>3. /\ j.seen = job[p].seen /\ j.row = job[p].row
        /\ j.sum = SumOf(payments, LivePayments \ {j.row})
    BY <1>1, <2>1 DEF OrderJob, JobOf
  <2>4. j.row \in LivePayments /\ (l = "undo" => j.seen = payable)
    BY <1>1, <2>1, <2>3 DEF AccountAsRead
  <2>5. AsRead(j, l)
    BY <2>1, <2>3, <2>4 DEF AsRead, OrderAsRead, AccountAsRead, MirrorAsRead, Refreshing
  <2>6. failures' = 0 => MirrorStands(j, l)
    BY <1>1, <1>2, <2>1, MirrorMoves
  <2>. QED
    BY <1>1, <1>2, <2>1, <2>2, <2>5, <2>6, LoneWaits
<1>5. CASE CommitDelete(p) \/ CommitReversal(p)
  <2>1. PICK q : q = job[p].row
    OBVIOUS
  <2>2. /\ ReversePayment(q) /\ Recalculated(p, payable.total) /\ q \in LivePayments
        /\ job[p].sum = SumOf(payments, LivePayments \ {q}) /\ payable # None
        /\ pc' = [pc EXCEPT ![p] = "idle"] /\ job' = [job EXCEPT ![p] = NoJob]
    BY <1>1, <1>5, <2>1 DEF CommitDelete, CommitReversal, AccountAsRead
  <2>3. /\ q \in Payments /\ payments[q] \in Payment
        /\ IsFiniteSet(LivePayments) /\ \A x \in LivePayments : payments[x].amount \in Int
    <3>1. LivePayments \subseteq Payments /\ IsFiniteSet(Payments)
      BY <1>1, PayablesAssumption DEF TablesTyped, LivePayments, Existing
    <3>2. \A x \in LivePayments : payments[x] \in Payment /\ payments[x].amount \in Int
      BY <1>1 DEF TablesTyped, LivePayments, Existing, Payment
    <3>. QED
      BY <2>2, <3>1, <3>2, FS_Subset
  <2>4. /\ payments' = [payments EXCEPT ![q].reversed = TRUE]
        /\ \A x \in Payments : x # q => payments'[x] = payments[x]
        /\ payments'[q].reversed /\ payments'[q].amount = payments[q].amount
        /\ payments'[q] \in Payment
    BY <1>1, <2>2, <2>3 DEF ReversePayment, TablesTyped, Payment
  <2>5. Existing(payments') = Existing(payments) /\ LivePayments' = LivePayments \ {q}
    <3>1. payments'[q] # None
      BY <2>4, PayablesAssumption
    <3>. QED
      BY <1>1, <2>2, <2>3, <2>4, <3>1 DEF TablesTyped, Existing, LivePayments
  <2>6. LiveSum' = job[p].sum
    <3>1. SumOf(payments', LivePayments \ {q}) = SumOf(payments, LivePayments \ {q})
      <4>1. IsFiniteSet(LivePayments \ {q})
        BY <2>3, FS_Subset
      <4>2. \A x \in LivePayments \ {q} : payments[x].amount \in Int
                                           /\ payments'[x].amount = payments[x].amount
        BY <1>1, <2>3, <2>4 DEF LivePayments, Existing, TablesTyped
      <4>. QED
        BY <4>1, <4>2, SumOfSame
    <3>2. LiveSum' = SumOf(payments', LivePayments')
      BY DEF LiveSum
    <3>. QED
      BY <2>2, <2>5, <3>1, <3>2
  <2>7. OnlyVoided /\ movements' \in [Movements -> Movement \cup {None}]
    <3>1. CASE payments[q].movement = None
      BY <1>1, <2>2, <3>1 DEF ReversePayment, OnlyVoided, TablesTyped
    <3>2. CASE payments[q].movement # None
      <4>1. PICK m : m = payments[q].movement
        OBVIOUS
      <4>2. m \in Existing(movements) /\ movements' = [movements EXCEPT ![m].voided = TRUE]
        BY <1>1, <2>2, <3>2, <4>1 DEF ReversePayment, MovementsExist, LivePayments
      <4>. QED
        BY <1>1, <4>2, VoidedOnly
    <3>. QED
      BY <3>1, <3>2
  <2>8. /\ OrderMovements' = OrderMovements
        /\ (\A m \in Existing(movements) : movements[m].amount > 0) =>
              (\A m \in Existing(movements') : movements'[m].amount > 0)
    BY <1>1, <2>7, VoidedSame
  <2>9. /\ payable'.total = payable.total /\ payable'.balance = payable.total - job[p].sum
        /\ payable'.paid = job[p].sum
    <3>1. payable \in Payable
      BY <1>1, <2>2 DEF TablesTyped
    <3>. QED
      BY <2>2, <3>1 DEF Recalculated, Payable
  <2>10. \A x \in Existing(payments') : payments'[x].amount > 0
    BY <1>1, <2>4, <2>5 DEF BooksStand, AmountsPositive, Existing, TablesTyped
  <2>11. BooksStand'
    <3>1. AmountsPositive'
      BY <1>2, <2>10 DEF AmountsPositive, Existing
    <3>. QED
      BY <1>1, <2>2, <2>8, <2>9, <3>1 DEF BooksStand, InStatus
  <2>12. ~Followed'
    <3>1. q \in Existing(payments') /\ payments'[q].reversed
      BY <2>2, <2>4, <2>5 DEF LivePayments
    <3>. QED
      BY <3>1 DEF Followed, NoneReversed
  <2>13. PICK j : j = NoJob
    OBVIOUS
  <2>14. AsRead(j, "idle")' /\ (failures' = 0 => MirrorStands(j, "idle")')
    BY <2>6, <2>9, <2>12, <2>13, IdleAsRead DEF MirrorStands
  <2>. QED
    BY <1>1, <2>2, <2>11, <2>13, <2>14, LoneMoves
<1>. QED
  BY <1>3, <1>4, <1>5

\* update, cancel and the authorisation of the account write one of its columns.
LEMMA LoneOfAccount ==
  ASSUME NEW p \in Processes, Lonely(p), UNCHANGED <<order, born>>,
         UpdateTotal(p) \/ Cancel(p) \/ Stamp(p)
  PROVE  LoneInv'
<1>. USE DEF Goto, Done
<1>1. /\ TablesTyped /\ job[p] \in OrderJob
      /\ AccountAsRead(job[p], pc[p]) /\ BooksStand /\ failures \in Nat
      /\ failures = 0 => MirrorStands(job[p], pc[p])
      /\ OrderAccountInv /\ Running \subseteq {p}
  BY LonelyFacts DEF Lonely
<1>2. /\ pc' = [pc EXCEPT ![p] = "idle"] /\ job' = [job EXCEPT ![p] = NoJob]
      /\ UNCHANGED <<payments, movements, payReqs, failures>>
      /\ pc[p] \in {"total", "cancel", "stamp"}
      /\ payable # None /\ payable \in Payable
  BY <1>1 DEF UpdateTotal, Cancel, Stamp, bounds, TablesTyped
<1>3. failures = 0 => MirrorStands(NoJob, "idle")
  <2>1. PICK i, k : i = NoJob /\ k = "idle"
    OBVIOUS
  <2>2. pc[p] \notin Mirroring \cup {"settle"}
    BY <1>2 DEF Mirroring, Reflecting, Refreshing
  <2>. QED
    BY <1>1, <2>1, <2>2, MirrorMoves
<1>4. PICK j : j = NoJob
  OBVIOUS
<1>5. AsRead(j, "idle")'
  BY <1>4, IdleAsRead
<1>6. CASE UpdateTotal(p)
  <2>1. /\ job[p].seen = payable /\ AmountEditable(payable) /\ job[p].amount \in Totals
        /\ "update" \in Kinds
        /\ payable' = [payable EXCEPT !.total = job[p].amount,
                                      !.balance = job[p].amount - payable.paid]
    BY <1>1, <1>6 DEF UpdateTotal, AccountAsRead
  <2>2. /\ payable'.total = job[p].amount /\ payable'.balance = job[p].amount - payable.paid
        /\ payable'.paid = payable.paid /\ payable'.status = payable.status
    BY <1>2, <2>1 DEF Payable
  <2>3. job[p].amount \in Nat /\ job[p].amount > 0 /\ payable.paid \in Int /\ payable.paid <= 0
        /\ payable.status \notin {"PAID", "CANCELLED"}
    BY <1>2, <2>1, PayablesAssumption DEF AmountEditable, Payable
  <2>4. BooksStand'
    BY <1>1, <1>2, <2>2, <2>3, MoneySame DEF BooksStand, InStatus, AmountsPositive, Existing
  <2>5. failures' = 0 => MirrorStands(j, "idle")'
    BY <1>2, <1>3, <2>1, <2>2, <2>3, MoneySame
       DEF MirrorStands, Followed, InStatus, Mirroring, Reflecting, Refreshing
  <2>. QED
    BY <1>1, <1>2, <1>4, <1>5, <2>4, <2>5, LoneMoves
<1>7. CASE Cancel(p) \/ Stamp(p)
  <2>1. PICK s \in {"CANCELLED", "ADMIN_AUTHORIZED"} :
          /\ payable' = [payable EXCEPT !.status = s]
          /\ s = "ADMIN_AUTHORIZED" => payable.status = "PENDING"
    BY <1>1, <1>7 DEF Cancel, Stamp, AccountAsRead
  <2>2. /\ payable'.total = payable.total /\ payable'.balance = payable.balance
        /\ payable'.paid = payable.paid /\ payable'.status = s
    BY <1>2, <2>1 DEF Payable
  <2>3. BooksStand'
    BY <1>1, <1>2, <2>2, MoneySame DEF BooksStand, InStatus, AmountsPositive, Existing
  <2>4. failures' = 0 => MirrorStands(j, "idle")'
    BY <1>2, <1>3, <2>1, <2>2, MoneySame
       DEF MirrorStands, Followed, InStatus, Mirroring, Reflecting, Refreshing
  <2>. QED
    BY <1>1, <1>2, <1>4, <1>5, <2>3, <2>4, LoneMoves
<1>. QED
  BY <1>6, <1>7

\* The requests of the account.
LEMMA LoneOfRequests ==
  ASSUME NEW p \in Processes, Lonely(p), UNCHANGED <<order, born>>,
         \/ CompletePayRequest(p) \/ RereadPayable(p) \/ AnswerPayment(p)
         \/ AnswerReversal(p) \/ AnswerAuth(p) \/ Authorize(p)
  PROVE  LoneInv'
<1>. USE DEF Goto, Done
<1>1. /\ TablesTyped /\ job[p] \in OrderJob
      /\ AccountAsRead(job[p], pc[p]) /\ BooksStand /\ failures \in Nat
      /\ failures = 0 => MirrorStands(job[p], pc[p])
      /\ OrderAccountInv /\ Running \subseteq {p}
  BY LonelyFacts DEF Lonely
<1>2. /\ pc[p] \in {"complete", "reread", "answerPayment", "answerReversal", "answerAuth",
                    "authorize"}
      /\ UNCHANGED <<payable, payments, movements, failures>>
  BY DEF CompletePayRequest, RereadPayable, AnswerPayment, AnswerReversal, AnswerAuth, Authorize,
         rows, bounds
<1>3. pc[p] \notin Mirroring \cup {"settle"}
  BY <1>2 DEF Mirroring, Reflecting, Refreshing
<1>4. \A r \in Existing(payReqs') : payReqs'[r].amount > 0
  <2>1. \/ UNCHANGED payReqs
        \/ /\ pc[p] \in {"complete", "answerPayment"} /\ payable # None
           /\ \E s : payReqs' = [payReqs EXCEPT ![job[p].request].status = s]
    BY DEF CompletePayRequest, RereadPayable, AnswerPayment, AnswerReversal, AnswerAuth, Authorize,
           rows
  <2>2. CASE UNCHANGED payReqs
    BY <1>1, <2>2 DEF BooksStand, AmountsPositive, Existing
  <2>3. CASE /\ pc[p] \in {"complete", "answerPayment"} /\ payable # None
             /\ \E s : payReqs' = [payReqs EXCEPT ![job[p].request].status = s]
    <3>1. PICK r, s : r = job[p].request /\ payReqs' = [payReqs EXCEPT ![r].status = s]
      BY <2>3
    <3>2. r \in Existing(payReqs)
      BY <2>3, <3>1, LonelyFacts DEF FoundBy
    <3>3. r \in PayRequests /\ payReqs[r] \in PayReq
      BY <1>1, <3>2 DEF Existing, TablesTyped
    <3>4. payReqs'[r].amount = payReqs[r].amount
      BY <1>1, <3>1, <3>3 DEF TablesTyped, PayReq
    <3>5. ASSUME NEW x \in Existing(payReqs') PROVE payReqs'[x].amount > 0
      BY <1>1, <3>1, <3>2, <3>3, <3>4 DEF BooksStand, AmountsPositive, Existing, TablesTyped
    <3>. QED
      BY <3>5
  <2>. QED
    BY <2>1, <2>2, <2>3
<1>5. CASE pc' = [pc EXCEPT ![p] = "idle"] /\ job' = [job EXCEPT ![p] = NoJob]
  BY <1>2, <1>3, <1>4, <1>5, LoneEnds
<1>6. CASE ~(pc' = [pc EXCEPT ![p] = "idle"] /\ job' = [job EXCEPT ![p] = NoJob])
  <2>1. PICK j, l :
          /\ pc' = [pc EXCEPT ![p] = l] /\ job' = [job EXCEPT ![p] = j]
          /\ \/ l = "reread" /\ j = job[p] /\ pc[p] = "complete"
             \/ /\ l = "assert" /\ j = [job[p] EXCEPT !.seen = payable] /\ pc[p] = "reread"
                /\ PayableOpen
             \/ l = "authorize" /\ j = NoJob
             \/ l = "stamp" /\ j = NoJob /\ payable # None /\ payable.status = "PENDING"
    BY <1>6 DEF CompletePayRequest, RereadPayable, AnswerPayment, AnswerReversal, AnswerAuth,
                Authorize
  <2>2. /\ l \in {"reread", "assert"} => j.amount > 0
        /\ l = "assert" => j.seen = payable
    BY <1>1, <2>1 DEF AccountAsRead, OrderJob, JobOf
  <2>3. AsRead(j, l)
    BY <2>1, <2>2 DEF AsRead, OrderAsRead, AccountAsRead, MirrorAsRead, Refreshing
  <2>4. failures' = 0 => MirrorStands(j, l)
    BY <1>1, <1>2, <1>3, <2>1, MirrorMoves
  <2>. QED
    BY <1>1, <1>2, <1>4, <2>1, <2>3, <2>4, LoneWaits
<1>. QED
  BY <1>5, <1>6

-----------------------------------------------------------------------------
(* The statements of the order, alone.                                     *)

\* A row of the order is one.
LEMMA RowOfOrder ==
  ASSUME NEW s \in OrderStatuses, NEW t \in Totals
  PROVE  /\ [status |-> s, total |-> t] # None /\ t \in Int
         /\ [status |-> s, total |-> t].status = s /\ [status |-> s, total |-> t].total = t
<1>1. t \in Int
  BY PayablesAssumption
<1>2. [status |-> s, total |-> t] \in [status : OrderStatuses, total : Int]
  BY <1>1
<1>. QED
  BY <1>1, <1>2, ExpenseOrdersAssumption

\* A statement that writes the order's row, and no other of its own.
LEMMA LoneWritesOrder ==
  ASSUME NEW p \in Processes, Lonely(p), NEW l, NEW j, NEW s \in OrderStatuses, NEW t \in Totals,
         Goto(p, l, j), l = "idle" => j = NoJob,
         UNCHANGED <<payable, payments, movements, payReqs>>,
         order' = [status |-> s, total |-> t],
         s \notin {"AUTHORIZED", "PAID"} => OrderMovements = {}, AsRead(j, l)',
         failures' = 0 => MirrorStands(j, l)'
  PROVE  LoneInv'
<1>1. BooksStand /\ OrderAccountInv /\ Running \subseteq {p}
  BY LonelyFacts DEF Lonely
<1>2. order' # None /\ order'.total = t /\ order'.status = s
  BY RowOfOrder
<1>3. BooksStand'
  BY <1>1, <1>2, MoneySame DEF BooksStand, InStatus, AmountsPositive, Existing
<1>. QED
  BY <1>1, <1>3, LoneMoves DEF Goto

\* create, updateStatus, the claim of Caja and its end, the items of an edit.
LEMMA LoneOfOrderRow ==
  ASSUME NEW p \in Processes, Lonely(p),
         \/ InsertOrder(p) \/ SetStatus(p) \/ Sign(p) \/ ClaimCajaAuthorization(p)
         \/ SetPaid(p) \/ ReplaceItems(p)
  PROVE  LoneInv'
<1>1. /\ TablesTyped /\ OrderTabled /\ job[p] \in OrderJob
      /\ OrderAsRead(job[p], pc[p]) /\ MirrorAsRead(job[p], pc[p]) /\ BooksStand
      /\ failures = 0 => MirrorStands(job[p], pc[p])
      /\ OrderAccountInv /\ Running \subseteq {p} /\ AccountStarts /\ RowsOfOrder
  BY LonelyFacts DEF Lonely
<1>2. /\ UNCHANGED <<payable, payments, movements, payReqs, failures>>
  BY <1>1 DEF InsertOrder, SetStatus, Sign, ClaimCajaAuthorization, SetPaid, ReplaceItems, rows,
         WriteStatus, Goto, Done, bounds, OnlyControl
<1>3. /\ Unreflected' = Unreflected /\ LiveSum' = LiveSum
      /\ OrderMovements' = OrderMovements /\ MoneyOut' = MoneyOut
      /\ (NoneReversed' <=> NoneReversed) /\ (PaidDirectly' <=> PaidDirectly)
      /\ (Followed' <=> Followed)
  BY <1>2, MoneySame DEF Followed
<1>4. order # None => order.status \in OrderStatuses /\ order.total \in Totals
  BY <1>1 DEF OrderTabled, BooksStand
<1>5. CASE InsertOrder(p)
  <2>1. /\ ~born /\ job[p].amount \in Totals /\ job[p].sum = job[p].amount
        /\ job[p].to = "create"
    BY <1>1, <1>5 DEF InsertOrder, OrderAsRead
  <2>2. PICK s, t, j : /\ s \in Unsigned \cup {"ADMIN_AUTHORIZED"} /\ t = job[p].amount
                       /\ order' = [status |-> s, total |-> t]
                       /\ j = job[p] /\ Goto(p, "findMirror", j)
    BY <1>5, <2>1 DEF InsertOrder
  <2>3. s \in OrderStatuses /\ s \notin {"AUTHORIZED", "PAID"}
    BY <2>2 DEF OrderStatuses, Unsigned
  <2>4. payable = None /\ order = None /\ OrderMovements = {}
    BY <1>1, <2>1 DEF AccountStarts, RowsOfOrder, BooksStand, InStatus
  <2>5. order' # None /\ order'.total = t /\ order'.status = s
    BY <2>1, <2>2, <2>3, RowOfOrder
  <2>6. OrderAsRead(j, "findMirror")'
    BY <2>1, <2>2, <2>3, <2>5 DEF OrderAsRead, InStatus, Refreshing
  <2>7. AccountAsRead(j, "findMirror")' /\ MirrorAsRead(j, "findMirror")'
    BY <2>1, <2>2, ExpenseOrdersAssumption DEF AccountAsRead, MirrorAsRead, Refreshing
  <2>8. MirrorStands(j, "findMirror")'
    BY <1>2, <2>4 DEF MirrorStands, Followed
  <2>. QED
    BY <1>2, <2>1, <2>2, <2>3, <2>4, <2>6, <2>7, <2>8, LoneWritesOrder DEF AsRead
<1>6. CASE SetStatus(p)
  <2>1. PICK s, j : /\ s \in {"CREATED", "DRAFT"} /\ j = NoJob /\ order # None
                    /\ order' = [status |-> s, total |-> order.total]
                    /\ Goto(p, "idle", j)
    BY <1>6 DEF SetStatus, WriteStatus
  <2>2. OrderMovements = {}
    BY <1>1, <1>6, <2>1 DEF SetStatus, OrderAsRead, BooksStand, InStatus
  <2>3. AsRead(j, "idle")'
    BY <2>1, IdleAsRead
  <2>4. failures' = 0 => MirrorStands(j, "idle")'
    <3>1. pc[p] \in {"toCreated", "toDraft"}
      BY <1>6 DEF SetStatus
    <3>2. order'.status = s /\ order'.total = order.total
      BY <2>1
    <3>. QED
      BY <1>1, <1>2, <1>3, <2>1, <3>1, <3>2
         DEF MirrorStands, InStatus, Mirroring, Reflecting, Refreshing
  <2>5. s \in OrderStatuses /\ order.total \in Totals
    BY <1>4, <2>1 DEF OrderStatuses
  <2>. QED
    BY <1>2, <2>1, <2>2, <2>3, <2>4, <2>5, LoneWritesOrder
<1>7. CASE Sign(p)
  <2>1. PICK s, j : /\ s = "ADMIN_AUTHORIZED" /\ j = job[p] /\ order # None
                    /\ order' = [status |-> s, total |-> order.total]
                    /\ Goto(p, "closeRequests", j) /\ pc[p] = "sign"
    BY <1>7 DEF Sign, WriteStatus
  <2>2. OrderMovements = {}
    BY <1>1, <2>1 DEF OrderAsRead, BooksStand, InStatus, Unsigned
  <2>3. AsRead(j, "closeRequests")'
    BY DEF AsRead, OrderAsRead, AccountAsRead, MirrorAsRead, Refreshing
  <2>4. failures' = 0 => MirrorStands(j, "closeRequests")'
    <3>1. order'.status = s /\ order'.total = order.total
      BY <2>1
    <3>. QED
      BY <1>1, <1>2, <1>3, <2>1, <3>1
         DEF MirrorStands, InStatus, Mirroring, Reflecting, Refreshing
  <2>5. s \in OrderStatuses /\ order.total \in Totals
    BY <1>4, <2>1 DEF OrderStatuses
  <2>. QED
    BY <1>2, <2>1, <2>2, <2>3, <2>4, <2>5, LoneWritesOrder
<1>8. CASE ClaimCajaAuthorization(p)
  <2>1. PICK s, j : /\ s = "AUTHORIZED" /\ j = job[p] /\ order # None
                    /\ order' = [status |-> s, total |-> order.total]
                    /\ Goto(p, "egress", j) /\ pc[p] = "claim"
    BY <1>8 DEF ClaimCajaAuthorization, WriteStatus
  <2>2. OrderMovements = {}
    BY <1>1, <2>1 DEF OrderAsRead, BooksStand, InStatus
  <2>3. MoneyOut = 0
    BY <2>2, SumOfNothing DEF MoneyOut
  <2>4. order' # None /\ order'.status = s /\ order'.total = order.total
    <3>1. s \in OrderStatuses
      BY <2>1 DEF OrderStatuses
    <3>. QED
      BY <1>4, <2>1, <3>1, RowOfOrder
  <2>5. /\ j.to = "pay" /\ j.sum = order.total /\ j.amount = order.total
    BY <1>1, <2>1 DEF OrderAsRead
  <2>6. order.total \in Int
    BY <1>4, <2>1, RowOfOrder
  <2>7. AsRead(j, "egress")'
    BY <1>3, <2>1, <2>3, <2>4, <2>5, <2>6
       DEF AsRead, OrderAsRead, AccountAsRead, MirrorAsRead, InStatus, Refreshing
  <2>8. failures' = 0 => MirrorStands(j, "egress")'
    BY <1>1, <1>2, <1>3, <2>1, <2>4
       DEF MirrorStands, InStatus, Mirroring, Reflecting, Refreshing
  <2>9. s \in OrderStatuses /\ order.total \in Totals
    BY <1>4, <2>1 DEF OrderStatuses
  <2>. QED
    BY <1>2, <2>1, <2>2, <2>7, <2>8, <2>9, LoneWritesOrder
<1>9. CASE SetPaid(p)
  <2>1. PICK s, j : /\ s = "PAID" /\ j = job[p] /\ order # None
                    /\ order' = [status |-> s, total |-> order.total]
                    /\ Goto(p, "findMirror", j) /\ pc[p] = "paid"
    BY <1>9 DEF SetPaid, WriteStatus
  <2>2. order' # None /\ order'.status = s /\ order'.total = order.total
    <3>1. s \in OrderStatuses
      BY <2>1 DEF OrderStatuses
    <3>. QED
      BY <1>4, <2>1, <3>1, RowOfOrder
  <2>3. j.to = "pay" /\ j.sum = order.total /\ Unreflected # {}
    BY <1>1, <2>1 DEF OrderAsRead, MirrorAsRead
  <2>4. AsRead(j, "findMirror")'
    BY <1>3, <2>1, <2>2, <2>3
       DEF AsRead, OrderAsRead, AccountAsRead, MirrorAsRead, InStatus, Refreshing
  <2>5. failures' = 0 => MirrorStands(j, "findMirror")'
    BY <1>1, <1>2, <1>3, <2>1, <2>2
       DEF MirrorStands, InStatus, Mirroring, Reflecting, Refreshing
  <2>6. s \in OrderStatuses /\ order.total \in Totals
    BY <1>4, <2>1 DEF OrderStatuses
  <2>. QED
    BY <1>2, <2>1, <2>4, <2>5, <2>6, LoneWritesOrder
<1>10. CASE ReplaceItems(p)
  <2>1. PICK s, t, j : /\ s = order.status /\ t = job[p].amount /\ j = job[p] /\ order # None
                       /\ order' = [status |-> s, total |-> t]
                       /\ Goto(p, "mirror", j) /\ pc[p] = "items"
    BY <1>10 DEF ReplaceItems
  <2>2. /\ t \in Totals /\ s \in OrderStatuses
        /\ \/ j.to = "edit" /\ s \in Unsigned
           \/ j.to = "editPaid" /\ s = "PAID"
    BY <1>1, <1>4, <2>1 DEF OrderAsRead, InStatus
  <2>3. order' # None /\ order'.status = s /\ order'.total = t
    BY <2>1, <2>2, RowOfOrder
  <2>4. s \notin {"AUTHORIZED", "PAID"} => OrderMovements = {}
    BY <1>1, <2>1 DEF BooksStand, InStatus
  <2>5. AsRead(j, "mirror")'
    BY <2>2, <2>3
       DEF AsRead, OrderAsRead, AccountAsRead, MirrorAsRead, InStatus, Refreshing
  <2>6. failures' = 0 => MirrorStands(j, "mirror")'
    BY <1>1, <1>2, <1>3, <2>1, <2>3
       DEF MirrorStands, InStatus, Mirroring, Reflecting, Refreshing
  <2>. QED
    BY <1>2, <2>1, <2>2, <2>4, <2>5, <2>6, LoneWritesOrder
<1>. QED
  BY <1>5, <1>6, <1>7, <1>8, <1>9, <1>10

\* remove: what is left has no account.
LEMMA LoneDeletes ==
  ASSUME NEW p \in Processes, Lonely(p), Delete(p) \/ DeleteRefused(p)
  PROVE  LoneInv'
<1>1. /\ TablesTyped /\ OrderAsRead(job[p], pc[p]) /\ AccountAsRead(job[p], pc[p])
      /\ BooksStand /\ OrderAccountInv /\ Running \subseteq {p}
  BY LonelyFacts DEF Lonely
<1>2. InStatus(Unsigned) /\ order # None /\ job[p].seen = payable /\ OrderMovements = {}
  <2>1. InStatus(Unsigned) /\ job[p].seen = payable
    BY <1>1 DEF Delete, DeleteRefused, OrderAsRead, AccountAsRead
  <2>. QED
    BY <1>1, <2>1 DEF BooksStand, InStatus, Unsigned
<1>3. Delete(p) /\ order' = None /\ payable' = None /\ UNCHANGED movements
  BY <1>2 DEF Delete, DeleteRefused
<1>4. AmountsPositive'
  <2>1. /\ \A q \in Existing(payments') : q \in Existing(payments) /\ payments'[q] = payments[q]
        /\ \A r \in Existing(payReqs') : r \in Existing(payReqs) /\ payReqs'[r] = payReqs[r]
    BY <1>3 DEF Delete, Existing
  <2>. QED
    BY <1>1, <2>1 DEF BooksStand, AmountsPositive
<1>5. BooksStand'
  BY <1>1, <1>2, <1>3, <1>4 DEF BooksStand, OrderMovements, Existing
<1>6. PICK j : j = NoJob
  OBVIOUS
<1>7. AsRead(j, "idle")' /\ MirrorStands(j, "idle")'
  BY <1>3, <1>6, IdleAsRead DEF MirrorStands, Followed
<1>. QED
  BY <1>1, <1>3, <1>5, <1>6, <1>7, LoneMoves DEF Delete, Goto, Done

\* The requests of the order, and what is refused: no row of the books is written.
LEMMA LoneOfOrderRequests ==
  ASSUME NEW p \in Processes, Lonely(p),
         \/ CloseRequests(p) \/ AnswerRequest(p) \/ AutoSign(p) \/ ClaimLost(p)
         \/ ConsumeApproval(p) \/ ConsumeRefused(p) \/ GiveBack(p) \/ AnswerEdit(p)
  PROVE  LoneInv'
<1>. USE DEF Goto, Done
<1>1. /\ OrderAsRead(job[p], pc[p]) /\ BooksStand
      /\ failures = 0 => MirrorStands(job[p], pc[p])
      /\ OrderAccountInv /\ Running \subseteq {p}
  BY LonelyFacts DEF Lonely
<1>2. /\ UNCHANGED <<payable, payments, movements, payReqs, order, born, failures>>
      /\ pc[p] \in {"closeRequests", "answerRequest", "autoSign", "claim", "consume", "giveBack",
                    "answerEdit"}
  BY DEF CloseRequests, AnswerRequest, AutoSign, ClaimLost, ConsumeApproval, ConsumeRefused,
         GiveBack, AnswerEdit, OnlyControl, rows, orderVars, bounds
<1>3. pc[p] \notin Mirroring \cup {"settle"}
  BY <1>2 DEF Mirroring, Reflecting, Refreshing
<1>4. \A r \in Existing(payReqs') : payReqs'[r].amount > 0
  BY <1>1, <1>2 DEF BooksStand, AmountsPositive, Existing
<1>5. CASE pc' = [pc EXCEPT ![p] = "idle"] /\ job' = [job EXCEPT ![p] = NoJob]
  BY <1>2, <1>3, <1>4, <1>5, LoneEnds
<1>6. CASE ~(pc' = [pc EXCEPT ![p] = "idle"] /\ job' = [job EXCEPT ![p] = NoJob])
  <2>1. PICK j, l :
          /\ pc' = [pc EXCEPT ![p] = l] /\ job' = [job EXCEPT ![p] = j]
          /\ \/ l = "autoSign" /\ j = NoJob
             \/ l = "sign" /\ j = NoJob /\ InStatus(Unsigned)
             \/ l = "items" /\ j = job[p] /\ pc[p] = "consume"
    BY <1>6 DEF CloseRequests, AnswerRequest, AutoSign, ClaimLost, ConsumeApproval,
                ConsumeRefused, GiveBack, AnswerEdit
  <2>2. l = "items" => j.amount \in Totals /\ j.to = "editPaid" /\ InStatus({"PAID"})
    BY <1>1, <2>1 DEF OrderAsRead
  <2>3. AsRead(j, l)
    BY <2>1, <2>2 DEF AsRead, OrderAsRead, AccountAsRead, MirrorAsRead, Refreshing
  <2>4. failures' = 0 => MirrorStands(j, l)
    BY <1>1, <1>2, <1>3, <2>1, MirrorMoves
  <2>. QED
    BY <1>1, <1>2, <1>4, <2>1, <2>3, <2>4, LoneWaits
<1>. QED
  BY <1>5, <1>6

\* A row is not found where it was read a moment ago only by who has not read it.
LEMMA LoneThrows ==
  ASSUME NEW p \in Processes, Lonely(p),
         MirrorRefused(p) \/ ReflectRefused(p) \/ OrderGone(p) \/ AccountGone(p)
  PROVE  LoneInv'
<1>1. /\ OrderAsRead(job[p], pc[p]) /\ AccountAsRead(job[p], pc[p])
      /\ MirrorAsRead(job[p], pc[p]) /\ BooksStand /\ failures \in Nat
      /\ OrderFits(job[p], pc[p]) /\ JobFits(job[p], pc[p])
  BY LonelyFacts
<1>2. ~MirrorRefused(p)
  BY <1>1 DEF MirrorRefused, OrderAsRead, MirrorAsRead
<1>3. ~OrderGone(p)
  BY <1>1 DEF OrderGone, OrderAsRead, InStatus
<1>4. ~ReflectRefused(p)
  <2>1. SUFFICES ASSUME ReflectRefused(p) PROVE FALSE
    OBVIOUS
  <2>2. payable # None /\ job[p].found = Unreflected
    BY <1>1, <2>1 DEF ReflectRefused, AccountAsRead, MirrorAsRead, OrderFits
  <2>3. AnyReflected(Unreflected)
    BY <2>1, <2>2 DEF ReflectRefused
  <2>. QED
    BY <2>3 DEF AnyReflected, Unreflected
<1>5. /\ AccountGone(p)
      /\ pc[p] \in {"undoRequest", "complete", "answerPayment", "answerReversal", "answerAuth"}
  BY <1>1, <1>2, <1>3, <1>4
     DEF AccountGone, AccountAsRead, OrderFits, JobFits, PayableOpen
<1>6. job[p].to # "editPaid"
  BY <1>1, <1>5 DEF OrderFits, Editing
<1>7. pc[p] \notin Mirroring \cup {"settle"}
  BY <1>5 DEF Mirroring, Reflecting, Refreshing
<1>8. /\ UNCHANGED <<payable, payments, movements, payReqs, order, born, failures>>
      /\ pc' = [pc EXCEPT ![p] = "idle"] /\ job' = [job EXCEPT ![p] = NoJob]
  BY <1>5, <1>6 DEF AccountGone, Throw, OnlyControl, rows, orderVars, bounds, Goto, Done
<1>9. \A r \in Existing(payReqs') : payReqs'[r].amount > 0
  BY <1>1, <1>8 DEF BooksStand, AmountsPositive, Existing
<1>. QED
  BY <1>7, <1>8, <1>9, LoneEnds

\* createFromExpenseOrder, and the readings of the edit.
LEMMA LoneReadsMirror ==
  ASSUME NEW p \in Processes, Lonely(p),
         FindMirror(p) \/ ReadMirror(p) \/ ReadUnreflected(p) \/ ReadLivePayments(p)
  PROVE  LoneInv'
<1>. USE DEF Goto, Done
<1>1. /\ TablesTyped /\ job[p] \in OrderJob
      /\ OrderAsRead(job[p], pc[p]) /\ AccountAsRead(job[p], pc[p])
      /\ MirrorAsRead(job[p], pc[p]) /\ BooksStand
      /\ failures = 0 => MirrorStands(job[p], pc[p])
      /\ OrderAccountInv /\ Running \subseteq {p}
  BY LonelyFacts DEF Lonely
<1>2. /\ UNCHANGED <<payable, payments, movements, payReqs, order, born, failures>>
      /\ pc[p] \in {"findMirror", "mirror", "unreflected", "refresh"}
  BY DEF FindMirror, ReadMirror, ReadUnreflected, ReadLivePayments, MirrorReady, Settled, Edited,
         OnlyControl, rows, orderVars, bounds
<1>3. \A r \in Existing(payReqs') : payReqs'[r].amount > 0
  BY <1>1, <1>2 DEF BooksStand, AmountsPositive, Existing
<1>4. ASSUME NEW j, NEW l, pc' = [pc EXCEPT ![p] = l], job' = [job EXCEPT ![p] = j],
             l = "idle" => j = NoJob, AsRead(j, l), failures = 0 => MirrorStands(j, l)
      PROVE  LoneInv'
  BY <1>1, <1>2, <1>3, <1>4, LoneWaits
<1>5. PICK i : i = NoJob
  OBVIOUS
<1>6. AsRead(i, "idle")
  BY <1>5, IdleAsRead
<1>7. ~Followed /\ failures = 0 => MirrorStands(i, "idle")
  BY <1>1, <1>2 DEF MirrorStands
<1>8. CASE FindMirror(p)
  <2>1. /\ pc[p] = "findMirror" /\ order # None /\ job[p].sum = order.total
        /\ \/ job[p].to = "create" /\ ~InStatus({"AUTHORIZED", "PAID"})
           \/ job[p].to \in {"pay", "editPaid"} /\ InStatus({"PAID"})
    BY <1>1, <1>8 DEF FindMirror, OrderAsRead
  <2>2. CASE payable # None /\ job[p].to = "create"
    <3>1. pc' = [pc EXCEPT ![p] = "idle"] /\ job' = [job EXCEPT ![p] = i]
      BY <1>5, <1>8, <2>2 DEF FindMirror, MirrorReady
    <3>2. ~InStatus({"PAID"})
      BY <2>1, <2>2, ExpenseOrdersAssumption DEF InStatus
    <3>3. failures = 0 => MirrorStands(i, "idle")
      BY <1>1, <2>1, <3>2 DEF MirrorStands, Mirroring, Reflecting, Refreshing
    <3>. QED
      BY <1>4, <1>5, <1>6, <3>1, <3>3
  <2>3. CASE payable # None /\ job[p].to # "create"
    <3>1. PICK j : /\ pc' = [pc EXCEPT ![p] = "unreflected"] /\ job' = [job EXCEPT ![p] = j]
                   /\ j = job[p]
      BY <1>8, <2>3 DEF FindMirror, MirrorReady
    <3>2. j.to = "pay" /\ InStatus({"PAID"}) /\ Unreflected # {}
      BY <1>1, <2>1, <2>3, <3>1 DEF MirrorAsRead
    <3>3. AsRead(j, "unreflected")
      BY <3>2, ExpenseOrdersAssumption
         DEF AsRead, OrderAsRead, AccountAsRead, MirrorAsRead, Refreshing
    <3>4. failures = 0 => MirrorStands(j, "unreflected")
      BY <1>1, <2>1, <3>1 DEF MirrorStands, Mirroring, Reflecting, Refreshing
    <3>. QED
      BY <1>4, <3>1, <3>3, <3>4
  <2>4. CASE payable = None
    <3>1. PICK j : /\ pc' = [pc EXCEPT ![p] = "insertMirror"] /\ job' = [job EXCEPT ![p] = j]
                   /\ j = job[p]
      BY <1>8, <2>4 DEF FindMirror
    <3>2. AsRead(j, "insertMirror")
      BY <1>1, <2>1, <2>4, <3>1
         DEF AsRead, OrderAsRead, AccountAsRead, MirrorAsRead, Refreshing
    <3>3. MirrorStands(j, "insertMirror")
      BY <2>4 DEF MirrorStands, Followed
    <3>. QED
      BY <1>4, <3>1, <3>2, <3>3
  <2>. QED
    BY <2>2, <2>3, <2>4
<1>9. CASE ReadMirror(p)
  <2>1. PICK j : /\ j = [job[p] EXCEPT !.sum = order.total, !.seen = payable]
                 /\ pc[p] = "mirror" /\ order # None
    BY <1>9 DEF ReadMirror
  <2>2. /\ j.sum = order.total /\ j.seen = payable /\ j.to = job[p].to
        /\ \/ j.to = "edit" /\ InStatus(Unsigned)
           \/ j.to = "editPaid" /\ InStatus({"PAID"})
    BY <1>1, <2>1 DEF OrderAsRead, OrderJob, JobOf
  <2>3. CASE payable = None /\ j.to = "editPaid"
    <3>1. pc' = [pc EXCEPT ![p] = "findMirror"] /\ job' = [job EXCEPT ![p] = j]
      BY <1>9, <2>1, <2>2, <2>3 DEF ReadMirror
    <3>2. AsRead(j, "findMirror")
      BY <2>1, <2>2, <2>3, ExpenseOrdersAssumption
         DEF AsRead, OrderAsRead, AccountAsRead, MirrorAsRead, Refreshing, InStatus
    <3>3. MirrorStands(j, "findMirror")
      BY <2>3 DEF MirrorStands, Followed
    <3>. QED
      BY <1>4, <3>1, <3>2, <3>3
  <2>4. CASE payable # None /\ MirrorFollows(job[p].to, payable.status)
    <3>1. pc' = [pc EXCEPT ![p] = "sync"] /\ job' = [job EXCEPT ![p] = j]
      BY <1>9, <2>1, <2>4 DEF ReadMirror
    <3>2. /\ payable.status # "CANCELLED" /\ (j.to = "edit" => payable.status # "PAID")
      BY <2>2, <2>4 DEF MirrorFollows
    <3>3. AsRead(j, "sync")
      BY <2>1, <2>2, <3>2
         DEF AsRead, OrderAsRead, AccountAsRead, MirrorAsRead, Refreshing
    <3>4. failures = 0 => MirrorStands(j, "sync")
      BY <1>1, <2>1 DEF MirrorStands, Mirroring, Reflecting, Refreshing
    <3>. QED
      BY <1>4, <3>1, <3>3, <3>4
  <2>5. CASE payable = None /\ j.to # "editPaid"
    <3>1. pc' = [pc EXCEPT ![p] = "idle"] /\ job' = [job EXCEPT ![p] = i]
      BY <1>5, <1>9, <2>2, <2>5 DEF ReadMirror, Edited
    <3>. QED
      BY <1>4, <1>5, <1>6, <1>7, <2>5, <3>1 DEF Followed
  <2>6. CASE payable # None /\ ~MirrorFollows(job[p].to, payable.status)
    <3>1. pc' = [pc EXCEPT ![p] = "idle"] /\ job' = [job EXCEPT ![p] = i]
      BY <1>5, <1>9, <2>6 DEF ReadMirror, Edited
    <3>2. payable.status = "CANCELLED" \/ (payable.status = "PAID" /\ InStatus(Unsigned))
      BY <2>2, <2>6 DEF MirrorFollows
    <3>3. CASE payable.status = "CANCELLED"
      BY <1>4, <1>5, <1>6, <1>7, <3>1, <3>3 DEF Followed
    <3>4. CASE payable.status = "PAID" /\ InStatus(Unsigned)
      <4>1. ASSUME Followed, failures = 0 PROVE PaidDirectly
        <5>1. OrderMovements = {}
          BY <1>1, <3>4 DEF BooksStand, InStatus, Unsigned
        <5>2. /\ payable.balance <= 0 /\ payable.balance = payable.total - payable.paid
              /\ payable.total > 0 /\ LiveSum = payable.paid
          BY <1>1, <2>1, <3>4, <4>1 DEF MirrorStands, BooksStand, Refreshing, Followed
        <5>3. payable.total \in Int /\ payable.paid \in Int
          BY <1>1, <2>6 DEF TablesTyped, Payable
        <5>4. LiveSum # 0
          BY <5>2, <5>3
        <5>5. LivePayments # {}
          BY <5>4, SumOfNothing DEF LiveSum
        <5>. QED
          BY <5>1, <5>5 DEF PaidDirectly, LivePayments
      <4>2. ~InStatus({"PAID"})
        BY <3>4 DEF InStatus, Unsigned
      <4>3. failures = 0 => MirrorStands(i, "idle")
        BY <1>1, <2>1, <3>4, <4>1, <4>2 DEF MirrorStands, Mirroring, Reflecting, Refreshing
      <4>. QED
        BY <1>4, <1>5, <1>6, <3>1, <4>3
    <3>. QED
      BY <3>2, <3>3, <3>4
  <2>. QED
    BY <2>3, <2>4, <2>5, <2>6
<1>10. CASE ReadUnreflected(p)
  <2>1. /\ pc[p] = "unreflected" /\ job[p].to \in {"pay", "editPaid"} /\ InStatus({"PAID"})
        /\ job[p].to = "pay" => Unreflected # {}
    BY <1>1, <1>10 DEF ReadUnreflected, OrderAsRead, MirrorAsRead, Refreshing
  <2>2. PICK halts : halts = ((IF payable = None THEN TRUE ELSE payable.status = "CANCELLED")
                               \/ Unreflected = {})
    OBVIOUS
  <2>3. CASE halts /\ job[p].to = "editPaid"
    <3>1. PICK j : /\ pc' = [pc EXCEPT ![p] = "refresh"] /\ job' = [job EXCEPT ![p] = j]
                   /\ j = job[p]
      BY <1>10, <2>2, <2>3 DEF ReadUnreflected, Settled
    <3>2. AsRead(j, "refresh")
      BY <1>1, <2>1, <2>3, <3>1
         DEF AsRead, OrderAsRead, AccountAsRead, MirrorAsRead, Refreshing
    <3>3. ~Followed \/ Unreflected = {}
      BY <2>2, <2>3 DEF Followed
    <3>4. failures = 0 => MirrorStands(j, "refresh")
      BY <1>1, <2>1, <2>3, <3>1, <3>3 DEF MirrorStands, Mirroring, Reflecting, Refreshing
    <3>. QED
      BY <1>4, <3>1, <3>2, <3>4
  <2>4. CASE halts /\ job[p].to # "editPaid"
    <3>1. pc' = [pc EXCEPT ![p] = "idle"] /\ job' = [job EXCEPT ![p] = i]
      BY <1>5, <1>10, <2>2, <2>4 DEF ReadUnreflected, Settled
    <3>2. ~Followed
      BY <2>1, <2>2, <2>4 DEF Followed
    <3>. QED
      BY <1>4, <1>5, <1>6, <1>7, <3>1, <3>2
  <2>5. CASE ~halts
    <3>1. PICK j : /\ pc' = [pc EXCEPT ![p] = "reflect"] /\ job' = [job EXCEPT ![p] = j]
                   /\ j = [job[p] EXCEPT !.seen = payable, !.found = Unreflected]
      BY <1>10, <2>2, <2>5 DEF ReadUnreflected
    <3>2. /\ j.seen = payable /\ j.found = Unreflected /\ j.to = job[p].to
          /\ payable # None /\ payable.status # "CANCELLED" /\ Unreflected # {}
      BY <1>1, <2>2, <2>5, <3>1 DEF OrderJob, JobOf
    <3>3. AsRead(j, "reflect")
      BY <1>1, <2>1, <3>2 DEF AsRead, OrderAsRead, AccountAsRead, MirrorAsRead, Refreshing
    <3>4. failures = 0 => MirrorStands(j, "reflect")
      BY <1>1, <2>1, <3>2 DEF MirrorStands, Mirroring, Reflecting, Refreshing
    <3>. QED
      BY <1>4, <3>1, <3>3, <3>4
  <2>. QED
    BY <2>3, <2>4, <2>5
<1>11. CASE ReadLivePayments(p)
  <2>1. /\ pc[p] = "refresh" /\ job[p].to = "editPaid" /\ InStatus({"PAID"})
    BY <1>1, <1>11 DEF ReadLivePayments, OrderAsRead, MirrorAsRead, Refreshing
  <2>2. CASE IF payable = None THEN TRUE ELSE payable.status = "CANCELLED"
    <3>1. pc' = [pc EXCEPT ![p] = "idle"] /\ job' = [job EXCEPT ![p] = i]
      BY <1>5, <1>11, <2>2 DEF ReadLivePayments, Edited
    <3>. QED
      BY <1>4, <1>5, <1>6, <1>7, <2>2, <3>1 DEF Followed
  <2>3. CASE ~(IF payable = None THEN TRUE ELSE payable.status = "CANCELLED")
    <3>1. PICK j : /\ pc' = [pc EXCEPT ![p] = "recalculate"] /\ job' = [job EXCEPT ![p] = j]
                   /\ j = [job[p] EXCEPT !.seen = payable, !.sum = LiveSumOf(payments)]
      BY <1>11, <2>3 DEF ReadLivePayments
    <3>2. LiveSumOf(payments) = LiveSum
      BY DEF LiveSumOf, LiveSum, LivePayments
    <3>3. /\ j.seen = payable /\ j.sum = LiveSum /\ j.to = job[p].to
          /\ payable # None /\ payable.status # "CANCELLED"
      BY <1>1, <2>3, <3>1, <3>2 DEF OrderJob, JobOf
    <3>4. AsRead(j, "recalculate")
      BY <1>1, <2>1, <3>3 DEF AsRead, OrderAsRead, AccountAsRead, MirrorAsRead, Refreshing
    <3>5. failures = 0 => MirrorStands(j, "recalculate")
      BY <1>1, <2>1, <3>3 DEF MirrorStands, Mirroring, Reflecting, Refreshing
    <3>. QED
      BY <1>4, <3>1, <3>4, <3>5
  <2>. QED
    BY <2>2, <2>3
<1>. QED
  BY <1>8, <1>9, <1>10, <1>11

\* The account is inserted, follows the items of an edit, or is counted again.
LEMMA LoneWritesMirror ==
  ASSUME NEW p \in Processes, Lonely(p), InsertMirror(p) \/ Sync(p) \/ Recalculate(p)
  PROVE  LoneInv'
<1>. USE DEF Goto, Done
<1>1. /\ TablesTyped /\ OrderTabled /\ job[p] \in OrderJob
      /\ OrderAsRead(job[p], pc[p]) /\ AccountAsRead(job[p], pc[p])
      /\ MirrorAsRead(job[p], pc[p]) /\ BooksStand
      /\ failures = 0 => MirrorStands(job[p], pc[p])
      /\ OrderAccountInv /\ Running \subseteq {p} /\ AccountStarts
  BY LonelyFacts DEF Lonely
<1>2. UNCHANGED <<payments, movements, payReqs, order, born, failures>>
  BY DEF InsertMirror, Sync, Recalculate, MirrorReady, Edited, orderVars, bounds
<1>3. /\ LiveSum' = LiveSum /\ Unreflected' = Unreflected /\ MoneyOut' = MoneyOut
      /\ OrderMovements' = OrderMovements
      /\ (NoneReversed' <=> NoneReversed) /\ (PaidDirectly' <=> PaidDirectly)
  BY <1>2, MoneySame
<1>4. order # None => order.total \in Int /\ order.total > 0
  <2>1. \A t \in Totals : t \in Int /\ t > 0
    BY PayablesAssumption
  <2>2. order # None => order.total \in Totals
    BY <1>1 DEF BooksStand
  <2>. QED
    BY <2>1, <2>2
<1>5. ASSUME payable' # None => payable'.balance = payable'.total - payable'.paid
                                /\ payable'.total > 0
      PROVE  BooksStand'
  BY <1>1, <1>2, <1>3, <1>5, MoneySame DEF BooksStand, InStatus, AmountsPositive, Existing
<1>6. PICK i : i = NoJob
  OBVIOUS
<1>7. AsRead(i, "idle")'
  BY <1>6, IdleAsRead
<1>8. CASE InsertMirror(p)
  <2>1. /\ pc[p] = "insertMirror" /\ payable = None /\ order # None
        /\ job[p].sum = order.total
        /\ \/ job[p].to = "create" /\ ~InStatus({"AUTHORIZED", "PAID"})
           \/ job[p].to \in {"pay", "editPaid"} /\ InStatus({"PAID"})
        /\ job[p].to = "pay" => Unreflected # {}
    BY <1>1, <1>8 DEF InsertMirror, OrderAsRead, MirrorAsRead
  <2>2. PICK r : /\ r = [status |-> "PENDING", total |-> job[p].sum, paid |-> 0,
                         balance |-> job[p].sum]
                 /\ payable' = r
    BY <1>8 DEF InsertMirror
  <2>3. /\ r.status = "PENDING" /\ r.total = order.total /\ r.paid = 0
        /\ r.balance = order.total
    BY <2>1, <2>2
  <2>4. LiveSum = 0
    <3>1. LivePayments = {}
      BY <1>1, <2>1 DEF AccountStarts, LivePayments
    <3>. QED
      BY <3>1, SumOfNothing DEF LiveSum
  <2>5. BooksStand'
    BY <1>4, <1>5, <2>1, <2>2, <2>3
  <2>6. CASE job[p].to = "create"
    <3>1. pc' = [pc EXCEPT ![p] = "idle"] /\ job' = [job EXCEPT ![p] = i]
      BY <1>6, <1>8, <2>6 DEF InsertMirror, MirrorReady
    <3>2. ~InStatus({"PAID"})
      BY <2>1, <2>6, ExpenseOrdersAssumption DEF InStatus
    <3>3. MirrorStands(i, "idle")'
      BY <1>2, <1>3, <2>2, <2>3, <2>4, <3>2 DEF MirrorStands, InStatus
    <3>. QED
      BY <1>1, <1>6, <1>7, <2>5, <3>1, <3>3, LoneMoves
  <2>7. CASE job[p].to # "create"
    <3>1. PICK j : /\ j = job[p] /\ pc' = [pc EXCEPT ![p] = "unreflected"]
                   /\ job' = [job EXCEPT ![p] = j]
      BY <1>8, <2>7 DEF InsertMirror, MirrorReady
    <3>2. j.to \in {"pay", "editPaid"} /\ InStatus({"PAID"})
          /\ (j.to = "pay" => Unreflected # {})
      BY <2>1, <2>7, <3>1
    <3>3. AsRead(j, "unreflected")'
      BY <1>2, <1>3, <2>2, <2>3, <3>2
         DEF AsRead, OrderAsRead, AccountAsRead, MirrorAsRead, InStatus, Refreshing
    <3>4. MirrorStands(j, "unreflected")'
      BY <1>2, <1>3, <2>2, <2>3, <2>4
         DEF MirrorStands, InStatus, Mirroring, Reflecting, Refreshing
    <3>. QED
      BY <1>1, <2>5, <3>1, <3>3, <3>4, LoneMoves
  <2>. QED
    BY <2>6, <2>7
<1>9. CASE Sync(p)
  <2>1. /\ pc[p] = "sync" /\ payable # None /\ payable \in Payable /\ job[p].seen = payable
        /\ job[p].sum = order.total /\ payable.status # "CANCELLED"
        /\ \/ /\ job[p].to = "edit" /\ InStatus(Unsigned) /\ payable.status # "PAID"
           \/ job[p].to = "editPaid" /\ InStatus({"PAID"})
    BY <1>1, <1>9 DEF Sync, OrderAsRead, AccountAsRead, MirrorAsRead, TablesTyped
  <2>2. order # None
    BY <2>1 DEF InStatus
  <2>3. payable' = [payable EXCEPT !.total = order.total, !.balance = order.total - payable.paid]
    BY <1>9, <2>1 DEF Sync
  <2>4. /\ payable'.status = payable.status /\ payable'.total = order.total
        /\ payable'.paid = payable.paid /\ payable'.balance = order.total - payable.paid
        /\ payable' \in Payable
    <3>1. PICK t, b : t = order.total /\ b = order.total - payable.paid
      OBVIOUS
    <3>2. t \in Int /\ b \in Int
      BY <1>4, <2>1, <2>2, <3>1 DEF Payable
    <3>3. payable' = [payable EXCEPT !.total = t, !.balance = b]
      BY <2>3, <3>1
    <3>. QED
      BY <2>1, <3>1, <3>2, <3>3 DEF Payable
  <2>5. BooksStand'
    BY <1>4, <1>5, <2>2, <2>4
  <2>. payable' # None
    BY <2>4, PayablesAssumption
  <2>6. CASE job[p].to = "edit"
    <3>1. "edit" # "editPaid"
      OBVIOUS
    <3>2. pc' = [pc EXCEPT ![p] = "idle"] /\ job' = [job EXCEPT ![p] = i]
      BY <1>6, <1>9, <2>6, <3>1 DEF Sync, Edited
    <3>3. ~InStatus({"PAID"}) /\ payable.status # "PAID"
      BY <2>1, <2>6, <3>1 DEF InStatus, Unsigned
    <3>4. failures' = 0 => MirrorStands(i, "idle")'
      BY <1>1, <1>2, <1>3, <2>1, <2>4, <3>3
         DEF MirrorStands, Followed, InStatus, Mirroring, Reflecting, Refreshing
    <3>. QED
      BY <1>1, <1>6, <1>7, <2>5, <3>2, <3>4, LoneMoves
  <2>7. CASE job[p].to = "editPaid"
    <3>1. PICK j : /\ j = job[p] /\ pc' = [pc EXCEPT ![p] = "unreflected"]
                   /\ job' = [job EXCEPT ![p] = j]
      BY <1>9, <2>7 DEF Sync
    <3>2. j.to = "editPaid" /\ InStatus({"PAID"})
      BY <2>1, <2>7, <3>1
    <3>3. AsRead(j, "unreflected")'
      BY <1>2, <2>4, <3>2
         DEF AsRead, OrderAsRead, AccountAsRead, MirrorAsRead, InStatus, Refreshing
    <3>4. failures' = 0 => MirrorStands(j, "unreflected")'
      BY <1>1, <1>2, <1>3, <2>1, <2>4, <3>2
         DEF MirrorStands, Followed, InStatus, Mirroring, Reflecting, Refreshing
    <3>. QED
      BY <1>1, <2>5, <3>1, <3>3, <3>4, LoneMoves
  <2>. QED
    BY <2>1, <2>6, <2>7
<1>10. CASE Recalculate(p)
  <2>1. /\ pc[p] = "recalculate" /\ payable # None /\ payable \in Payable
        /\ job[p].seen = payable /\ job[p].sum = LiveSum /\ payable.status # "CANCELLED"
        /\ job[p].to = "editPaid" /\ InStatus({"PAID"}) /\ job[p].sum \in Int
        /\ Followed /\ "update" \notin Kinds => payable.total = order.total
    BY <1>1, <1>10
       DEF Recalculate, OrderAsRead, AccountAsRead, MirrorAsRead, TablesTyped, Refreshing,
           OrderJob, JobOf
  <2>2. PICK balance : balance = payable.total - LiveSum
    OBVIOUS
  <2>3. payable' = [payable EXCEPT !.paid = LiveSum, !.balance = balance,
                      !.status = Refreshed(payable.status, balance, LiveSum)]
    BY <1>10, <2>1, <2>2 DEF Recalculate
  <2>4. /\ payable'.status = Refreshed(payable.status, balance, LiveSum)
        /\ payable'.total = payable.total /\ payable'.paid = LiveSum
        /\ payable'.balance = balance /\ balance \in Int
    BY <2>1, <2>2, <2>3 DEF Payable
  <2>5. BooksStand'
    BY <1>1, <1>5, <2>1, <2>2, <2>4 DEF BooksStand
  <2>6. payable'.status = "PAID" <=> payable'.balance <= 0
    BY <2>4 DEF Refreshed
  <2>7. failures' = 0 => MirrorStands(i, "idle")'
    <3>1. Followed' => Followed
      BY <1>3, <2>1 DEF Followed
    <3>2. failures = 0 /\ Followed => Unreflected = {}
      BY <1>1, <2>1 DEF MirrorStands, Reflecting
    <3>. QED
      BY <1>2, <1>3, <2>1, <2>4, <2>6, <3>1, <3>2 DEF MirrorStands, InStatus
  <2>8. pc' = [pc EXCEPT ![p] = "idle"] /\ job' = [job EXCEPT ![p] = i]
    BY <1>6, <1>10 DEF Recalculate, Edited
  <2>. QED
    BY <1>1, <1>6, <1>7, <2>5, <2>7, <2>8, LoneMoves
<1>. QED
  BY <1>8, <1>9, <1>10

\* Caja takes out the money of an item: what is left to take is what is left.
LEMMA LoneTakesOut ==
  ASSUME NEW p \in Processes, Lonely(p), InsertEgress(p)
  PROVE  LoneInv'
<1>1. /\ TablesTyped /\ MovementsExist /\ job[p] \in OrderJob
      /\ OrderAsRead(job[p], pc[p]) /\ BooksStand
      /\ failures = 0 => MirrorStands(job[p], pc[p])
      /\ OrderAccountInv /\ Running \subseteq {p}
  BY LonelyFacts DEF Lonely
<1>2. /\ pc[p] \in {"egress", "nextEgress"}
      /\ UNCHANGED <<payable, payments, payReqs, order, born, failures>>
  BY DEF InsertEgress, Goto, bounds
<1>3. /\ InStatus({"AUTHORIZED"}) /\ MoneyOut + job[p].amount = order.total
      /\ job[p].to = "pay" /\ job[p].sum = order.total /\ job[p].amount \in Int
  BY <1>1, <1>2 DEF OrderAsRead, OrderJob, JobOf
<1>4. PICK m \in Movements, a \in Amounts :
        /\ movements[m] = None
        /\ movements' = [movements EXCEPT ![m] = [amount |-> a, source |-> "OG",
                                                  voided |-> FALSE]]
        /\ Goto(p, IF a = job[p].amount THEN "paid" ELSE "nextEgress",
                [job[p] EXCEPT !.amount = @ - a])
  BY DEF InsertEgress, Fresh
<1>5. a \in Int /\ a > 0
  <2>1. \A x \in Amounts : x \in Int /\ x > 0
    BY PayablesAssumption
  <2>. QED
    BY <2>1
<1>6. PICK r, j, l :
        /\ r = [amount |-> a, source |-> "OG", voided |-> FALSE]
        /\ movements' = [movements EXCEPT ![m] = r]
        /\ j = [job[p] EXCEPT !.amount = @ - a]
        /\ l = IF a = job[p].amount THEN "paid" ELSE "nextEgress"
        /\ pc' = [pc EXCEPT ![p] = l] /\ job' = [job EXCEPT ![p] = j]
  BY <1>4 DEF Goto
<1>7. r \in Movement /\ ~r.voided /\ r.source = "OG" /\ r.amount = a
  BY <1>5, <1>6 DEF Movement
<1>8. /\ Existing(movements') = Existing(movements) \cup {m}
      /\ movements'[m] = r /\ \A x \in Existing(movements) : movements'[x] = movements[x]
      /\ LiveSum' = LiveSum /\ (NoneReversed' <=> NoneReversed)
      /\ (PaidDirectly' <=> PaidDirectly)
      /\ Unreflected' = Unreflected \cup {m} /\ MoneyOut' = MoneyOut + a
  BY <1>1, <1>2, <1>4, <1>6, <1>7, MovementAdded
<1>9. /\ j.amount = job[p].amount - a /\ j.to = "pay" /\ j.sum = order.total
      /\ l \in {"paid", "nextEgress"} /\ (l = "paid" => a = job[p].amount)
  BY <1>1, <1>3, <1>6 DEF OrderJob, JobOf
<1>10. MoneyOut \in Int
  <2>1. PICK S, t : S = OrderMovements /\ t = movements
    OBVIOUS
  <2>2. S \subseteq Movements /\ \A x \in S : t[x].amount \in Int
    BY <1>1, <2>1 DEF OrderMovements, TablesTyped, Existing, Movement
  <2>3. SumOf(t, S) \in Int
    BY <2>2, SumOfType, PayablesAssumption
  <2>. QED
    BY <2>1, <2>3 DEF MoneyOut
<1>11. /\ MoneyOut' + j.amount = order.total
       /\ l = "paid" => MoneyOut' = order.total
  BY <1>3, <1>5, <1>8, <1>9, <1>10
<1>12. AsRead(j, l)'
  <2>1. OrderAsRead(j, l)'
    BY <1>2, <1>3, <1>9, <1>11 DEF OrderAsRead, InStatus, Refreshing
  <2>2. AccountAsRead(j, l)'
    BY <1>9 DEF AccountAsRead
  <2>3. MirrorAsRead(j, l)'
    BY <1>8, <1>9 DEF MirrorAsRead, Refreshing
  <2>. QED
    BY <2>1, <2>2, <2>3 DEF AsRead
<1>13. BooksStand'
  <2>1. \A x \in Existing(movements') : movements'[x].amount > 0
    BY <1>1, <1>5, <1>7, <1>8 DEF BooksStand
  <2>. QED
    BY <1>1, <1>2, <1>3, <2>1 DEF BooksStand, InStatus, AmountsPositive, Existing
<1>14. failures' = 0 => MirrorStands(j, l)'
  <2>1. ~InStatus({"PAID"}) /\ order # None
    BY <1>3 DEF InStatus
  <2>. QED
    BY <1>1, <1>2, <1>8, <1>9, <2>1
       DEF MirrorStands, Followed, InStatus, Mirroring, Reflecting, Refreshing
<1>15. l # "idle"
  BY <1>9
<1>. QED
  BY <1>1, <1>6, <1>12, <1>13, <1>14, <1>15, LoneMoves

-----------------------------------------------------------------------------
(* The payments of what left through the order, alone.                     *)

\* The rank of a member of a finite set is below its size, and its own.
LEMMA RankBelow ==
  ASSUME NEW S, S \subseteq Nat, IsFiniteSet(S), NEW x \in S
  PROVE  RankIn(S, x) \in Nat /\ RankIn(S, x) < Cardinality(S)
<1>1. PICK b : b = {y \in S : y < x}
  OBVIOUS
<1>2. b \subseteq S /\ b # S
  BY <1>1
<1>3. IsFiniteSet(b) /\ Cardinality(b) <= Cardinality(S) /\ Cardinality(b) # Cardinality(S)
  BY <1>2, FS_Subset
<1>4. Cardinality(b) \in Nat /\ Cardinality(S) \in Nat
  BY <1>3, FS_CardinalityType
<1>. QED
  BY <1>1, <1>3, <1>4 DEF RankIn

LEMMA RankRises ==
  ASSUME NEW S, S \subseteq Nat, IsFiniteSet(S), NEW x \in S, NEW z \in S, x < z
  PROVE  RankIn(S, x) < RankIn(S, z)
<1>1. PICK b, c : b = {y \in S : y < x} /\ c = {y \in S : y < z}
  OBVIOUS
<1>2. x \in Nat /\ z \in Nat /\ \A y \in S : y \in Nat
  OBVIOUS
<1>3. b \subseteq c /\ c \subseteq S /\ x \in c /\ x \notin b
  <2>1. \A y \in S : y < x => y < z
    BY <1>2
  <2>2. ~(x < x)
    BY <1>2
  <2>. QED
    BY <1>1, <2>1, <2>2
<1>4. IsFiniteSet(c) /\ b # c
  BY <1>3, FS_Subset
<1>5. IsFiniteSet(b) /\ Cardinality(b) <= Cardinality(c) /\ Cardinality(b) # Cardinality(c)
  BY <1>3, <1>4, FS_Subset
<1>6. Cardinality(b) \in Nat /\ Cardinality(c) \in Nat
  BY <1>4, <1>5, FS_CardinalityType
<1>. QED
  BY <1>1, <1>5, <1>6 DEF RankIn

LEMMA RanksDiffer ==
  ASSUME NEW S, S \subseteq Nat, IsFiniteSet(S), NEW x \in S, NEW z \in S,
         RankIn(S, x) = RankIn(S, z)
  PROVE  x = z
<1>1. RankIn(S, x) \in Nat /\ RankIn(S, z) \in Nat
  BY RankBelow
<1>2. ~(RankIn(S, x) < RankIn(S, z)) /\ ~(RankIn(S, z) < RankIn(S, x))
  BY <1>1
<1>3. ~(x < z)
  BY <1>2, RankRises
<1>4. ~(z < x)
  BY <1>2, RankRises
<1>5. x \in Nat /\ z \in Nat
  OBVIOUS
<1>. QED
  BY <1>3, <1>4, <1>5

\* Each movement found gets a payment of its amount.
LEMMA EveryReflected ==
  ASSUME TablesTyped, NEW found, found \subseteq Existing(movements),
         Cardinality(found) <= Cardinality(Free)
  PROVE  /\ \A q \in Payments :
              \/ Reflected(found)[q] = payments[q]
              \/ Reflected(found)[q].amount = movements[Reflected(found)[q].movement].amount
         /\ \A m \in found : \E q \in Payments :
              /\ payments[q] = None /\ Reflected(found)[q] # None
              /\ Reflected(found)[q].movement = m
<1>1. /\ found \subseteq Nat /\ IsFiniteSet(found) /\ IsFiniteSet(Free) /\ Free \subseteq Payments
      /\ Free \subseteq Nat /\ found \subseteq Movements
  BY FS_Subset, PayablesAssumption DEF Free, Existing, TablesTyped
<1>2. ASSUME NEW q \in Payments
      PROVE  \/ Reflected(found)[q] = payments[q]
             \/ Reflected(found)[q].amount = movements[Reflected(found)[q].movement].amount
  <2>1. CASE q \in Free /\ RankIn(Free, q) < Cardinality(found)
    <3>1. PICK m : m = CHOOSE x \in found : RankIn(found, x) = RankIn(Free, q)
      OBVIOUS
    <3>2. Reflected(found)[q] = [amount |-> movements[m].amount, movement |-> m, request |-> None,
                                 reversed |-> FALSE]
      BY <2>1, <3>1 DEF Reflected
    <3>. QED
      BY <3>2
  <2>2. CASE ~(q \in Free /\ RankIn(Free, q) < Cardinality(found))
    BY <2>2 DEF Reflected
  <2>. QED
    BY <2>1, <2>2
<1>3. ASSUME NEW m \in found
      PROVE  \E q \in Payments : /\ payments[q] = None /\ Reflected(found)[q] # None
                                 /\ Reflected(found)[q].movement = m
  <2>1. PICK k : k = RankIn(found, m)
    OBVIOUS
  <2>2. k \in Nat /\ k < Cardinality(found)
    BY <1>1, <2>1, RankBelow
  <2>3. Cardinality(found) \in Nat /\ Cardinality(Free) \in Nat
    BY <1>1, FS_CardinalityType
  <2>4. k < Cardinality(Free)
    BY <2>2, <2>3
  <2>5. PICK q \in Free : RankIn(Free, q) = k
    BY <1>1, <2>2, <2>4, EveryRank
  <2>6. PICK x : x = CHOOSE y \in found : RankIn(found, y) = RankIn(Free, q)
    OBVIOUS
  <2>7. x \in found /\ RankIn(found, x) = RankIn(found, m)
    BY <2>1, <2>5, <2>6
  <2>8. x = m
    BY <1>1, <2>7, RanksDiffer
  <2>9. Reflected(found)[q] = [amount |-> movements[m].amount, movement |-> m, request |-> None,
                               reversed |-> FALSE]
    BY <1>1, <2>2, <2>5, <2>6, <2>8 DEF Reflected
  <2>10. Reflected(found)[q] \in Payment
    BY <1>1, <2>9 DEF Payment, TablesTyped, Movement, Existing
  <2>11. payments[q] = None
    BY <2>5 DEF Free, Existing, TablesTyped
  <2>. QED
    BY <1>1, <2>5, <2>9, <2>10, <2>11, PayablesAssumption
<1>. QED
  BY <1>2, <1>3

\* A sum over more rows, none negative, is no smaller.
LEMMA SumOfMore ==
  ASSUME NEW S, IsFiniteSet(S), NEW R \in SUBSET S, NEW t, NEW u,
         \A y \in S : u[y].amount \in Nat, \A y \in R : u[y].amount = t[y].amount
  PROVE  SumOf(t, R) <= SumOf(u, S)
<1>1. IsFiniteSet(R) /\ \A y \in R : t[y].amount \in Int
  BY FS_Subset
<1>2. SumOf(u, R) = SumOf(t, R)
  BY <1>1, SumOfSame
<1>. DEFINE g == [y \in S |-> u[y].amount]
            f == [y \in R |-> u[y].amount]
<1>3. SumFunctionOnSet(g, R) <= SumFunctionOnSet(g, S)
  BY SumGrows
<1>4. SumFunctionOnSet(f, R) = SumFunctionOnSet(g, R)
  BY <1>1, SumAgree
<1>. QED
  BY <1>2, <1>3, <1>4 DEF SumOf, SumFunction

\* settleFromExpenseOrderMovements: all that left through the order has its payment.
LEMMA LoneReflects ==
  ASSUME NEW p \in Processes, Lonely(p), Reflect(p)
  PROVE  LoneInv'
<1>1. /\ TablesTyped /\ job[p] \in OrderJob
      /\ OrderAsRead(job[p], pc[p]) /\ AccountAsRead(job[p], pc[p])
      /\ MirrorAsRead(job[p], pc[p]) /\ BooksStand
      /\ failures = 0 => MirrorStands(job[p], pc[p])
      /\ OrderAccountInv /\ Running \subseteq {p}
  BY LonelyFacts DEF Lonely
<1>2. /\ pc[p] = "reflect" /\ payable # None /\ payable \in Payable
      /\ payable.status # "CANCELLED" /\ job[p].seen = payable /\ job[p].found = Unreflected
      /\ job[p].to \in {"pay", "editPaid"} /\ InStatus({"PAID"})
      /\ Followed /\ job[p].to = "editPaid" /\ "update" \notin Kinds
           => payable.total = order.total
  BY <1>1 DEF Reflect, OrderAsRead, AccountAsRead, MirrorAsRead, Refreshing, TablesTyped
<1>3. PICK found : found = Unreflected
  OBVIOUS
<1>4. /\ UNCHANGED <<movements, payReqs, order, born, failures>>
      /\ payments' = Reflected(found) /\ Settled(p)
      /\ Cardinality(found) <= Cardinality(Free) /\ found \subseteq Existing(movements)
  <2>1. UNCHANGED failures
    BY DEF Reflect, Settled, Goto, Done, bounds
  <2>2. found \subseteq Existing(movements)
    BY <1>3 DEF Unreflected
  <2>. QED
    BY <1>2, <1>3, <2>1, <2>2 DEF Reflect, orderVars
<1>5. /\ payments' \in [Payments -> Payment \cup {None}]
      /\ \A q \in Payments :
           \/ payments'[q] = payments[q]
           \/ /\ payments[q] = None /\ payments'[q] # None
              /\ payments'[q].movement \in found /\ ~payments'[q].reversed
              /\ payments'[q].amount = movements[payments'[q].movement].amount
      /\ \A m \in found : \E q \in Payments :
           payments[q] = None /\ payments'[q] # None /\ payments'[q].movement = m
  <2>1. /\ Reflected(found) \in [Payments -> Payment \cup {None}]
        /\ \A q \in Payments :
             \/ Reflected(found)[q] = payments[q]
             \/ /\ payments[q] = None /\ Reflected(found)[q] # None
                /\ Reflected(found)[q].movement \in found
                /\ Reflected(found)[q].request = None /\ ~Reflected(found)[q].reversed
    BY <1>1, <1>4, ReflectedRows
  <2>2. /\ \A q \in Payments :
              \/ Reflected(found)[q] = payments[q]
              \/ Reflected(found)[q].amount = movements[Reflected(found)[q].movement].amount
        /\ \A m \in found : \E q \in Payments :
              /\ payments[q] = None /\ Reflected(found)[q] # None
              /\ Reflected(found)[q].movement = m
    BY <1>1, <1>4, EveryReflected
  <2>. QED
    BY <1>4, <2>1, <2>2
<1>6. /\ Existing(payments') \subseteq Payments /\ Existing(payments) \subseteq Payments
      /\ \A q \in Existing(payments) : q \in Existing(payments') /\ payments'[q] = payments[q]
      /\ \A q \in Existing(payments') : payments'[q].amount \in Nat /\ payments'[q].amount > 0
  <2>1. Existing(payments') \subseteq Payments /\ Existing(payments) \subseteq Payments
    BY <1>1, <1>5 DEF Existing, TablesTyped
  <2>2. \A q \in Existing(payments) : q \in Existing(payments') /\ payments'[q] = payments[q]
    BY <1>1, <1>5, <2>1 DEF Existing, TablesTyped
  <2>3. ASSUME NEW q \in Existing(payments')
        PROVE  payments'[q].amount \in Nat /\ payments'[q].amount > 0
    <3>1. payments'[q] \in Payment
      BY <1>5, <2>1 DEF Existing
    <3>2. payments'[q].amount \in Int
      BY <3>1 DEF Payment
    <3>3. CASE payments'[q] = payments[q]
      <4>1. q \in Existing(payments)
        BY <1>1, <2>1, <3>3 DEF Existing, TablesTyped
      <4>2. payments'[q].amount > 0
        BY <1>1, <3>3, <4>1 DEF BooksStand, AmountsPositive
      <4>. QED
        BY <3>2, <4>2
    <3>4. CASE payments'[q] # payments[q]
      <4>1. PICK m \in found : payments'[q].amount = movements[m].amount
        BY <1>5, <2>1, <3>4
      <4>2. movements[m].amount > 0
        BY <1>1, <1>4, <4>1 DEF BooksStand
      <4>. QED
        BY <3>2, <4>1, <4>2
    <3>. QED
      BY <3>3, <3>4
  <2>. QED
    BY <2>1, <2>2, <2>3
<1>7. Unreflected' = {} /\ OrderMovements' = OrderMovements
  <2>1. OrderMovements' = OrderMovements
    BY <1>4 DEF OrderMovements, Existing
  <2>2. ASSUME NEW m \in Unreflected' PROVE FALSE
    <3>1. \A q \in Existing(payments') : payments'[q].movement # m
      BY <2>2 DEF Unreflected
    <3>2. m \in Unreflected
      BY <1>4, <1>6, <2>2, <3>1 DEF Unreflected, Existing
    <3>3. PICK q \in Payments : payments'[q] # None /\ payments'[q].movement = m
      BY <1>3, <1>5, <3>2
    <3>4. q \in Existing(payments')
      BY <1>5, <3>3 DEF Existing
    <3>. QED
      BY <3>1, <3>3, <3>4
  <2>. QED
    BY <2>1, <2>2
<1>8. LiveSum <= LiveSum' /\ LiveSum \in Int /\ LiveSum' \in Int
      /\ LiveSumOf(payments') = LiveSum'
  <2>1. PICK R, S, t, u : /\ R = LivePayments /\ S = LivePayments' /\ t = payments
                          /\ u = payments'
    OBVIOUS
  <2>2. /\ R \in SUBSET S /\ S \subseteq Payments
        /\ \A y \in S : u[y].amount \in Nat
        /\ \A y \in R : u[y].amount = t[y].amount
    BY <1>6, <2>1 DEF LivePayments
  <2>3. IsFiniteSet(S)
    BY <2>2, FS_Subset, PayablesAssumption
  <2>4. SumOf(t, R) <= SumOf(u, S)
    BY <2>2, <2>3, SumOfMore
  <2>5. SumOf(t, R) \in Int /\ SumOf(u, S) \in Int
    <3>1. /\ \A y \in S : u[y].amount \in Int
          /\ \A y \in R : t[y].amount \in Int
      BY <2>2
    <3>2. SumOf(u, S) \in Int
      BY <2>3, <3>1, SumOfType
    <3>3. SumOf(t, R) \in Int
      BY <2>2, <2>3, <3>1, SumOfType
    <3>. QED
      BY <3>2, <3>3
  <2>6. LiveSumOf(payments') = LiveSum'
    BY DEF LiveSumOf, LiveSum, LivePayments, SumOf, Existing
  <2>. QED
    BY <2>1, <2>4, <2>5, <2>6 DEF LiveSum, SumOf
<1>9. /\ NoneReversed' => NoneReversed
      /\ PaidDirectly => PaidDirectly'
  <2>1. NoneReversed' => NoneReversed
    BY <1>6 DEF NoneReversed
  <2>2. ASSUME PaidDirectly PROVE PaidDirectly'
    <3>1. PICK q \in Existing(payments) : payments[q].movement \notin OrderMovements
      BY <2>2 DEF PaidDirectly
    <3>. QED
      BY <1>6, <1>7, <3>1 DEF PaidDirectly
  <2>. QED
    BY <2>1, <2>2
<1>10. /\ payable' # None /\ payable'.total = payable.total /\ payable'.paid = LiveSum'
       /\ payable'.balance = payable.total - LiveSum' /\ payable.total \in Int
       /\ payable'.status = "PAID" <=> payable'.balance <= 0
       /\ payable'.status # "CANCELLED"
  <2>1. PICK balance, status, paid : /\ paid = LiveSum' /\ balance = payable.total - paid
                                     /\ status = AfterPayment(balance)
    OBVIOUS
  <2>2. payable' = [payable EXCEPT !.paid = paid, !.balance = balance, !.status = status]
    BY <1>2, <1>8, <2>1 DEF Reflect
  <2>3. /\ payable.total \in Int /\ balance \in Int /\ paid \in Int
        /\ status \in PayableStatuses
    BY <1>2, <1>8, <2>1 DEF Payable, AfterPayment, PayableStatuses
  <2>4. /\ payable' \in Payable /\ payable'.total = payable.total /\ payable'.paid = paid
        /\ payable'.balance = balance /\ payable'.status = status
    BY <1>2, <2>2, <2>3 DEF Payable
  <2>5. payable' # None
    BY <2>4, PayablesAssumption
  <2>. QED
    BY <2>1, <2>3, <2>4, <2>5 DEF AfterPayment
<1>11. BooksStand'
  <2>1. AmountsPositive'
    BY <1>1, <1>4, <1>6 DEF BooksStand, AmountsPositive, Existing
  <2>2. payable'.balance = payable'.total - payable'.paid /\ payable'.total > 0
    BY <1>1, <1>2, <1>10 DEF BooksStand
  <2>. QED
    BY <1>1, <1>4, <1>7, <2>1, <2>2 DEF BooksStand, InStatus, Existing
<1>12. Followed' => Followed
  BY <1>2, <1>9 DEF Followed
<1>13. /\ InStatus({"PAID"})' /\ order # None
       /\ Followed' /\ job[p].to = "editPaid" /\ "update" \notin Kinds
            => payable'.total = order'.total
  BY <1>2, <1>4, <1>10, <1>12 DEF InStatus
<1>14. ASSUME failures = 0, Followed', "update" \notin Kinds
       PROVE  payable'.total = order'.total \/ (payable'.status = "PAID" /\ PaidDirectly')
  <2>1. CASE payable.total = order.total
    BY <1>4, <1>10, <2>1
  <2>2. CASE payable.total # order.total
    <3>1. job[p].to = "pay" /\ Followed
      BY <1>2, <1>12, <1>14, <2>2
    <3>2. payable.status = "PAID" /\ PaidDirectly
      BY <1>1, <1>2, <1>13, <1>14, <2>2, <3>1 DEF MirrorStands
    <3>3. payable.balance <= 0 /\ LiveSum = payable.paid
      BY <1>1, <1>2, <1>14, <3>1, <3>2 DEF MirrorStands
    <3>4. payable.balance = payable.total - payable.paid /\ payable.paid \in Int
      BY <1>1, <1>2 DEF BooksStand, Payable
    <3>5. payable'.balance <= 0
      BY <1>8, <1>10, <3>3, <3>4
    <3>. QED
      BY <1>9, <1>10, <3>2, <3>5
  <2>. QED
    BY <2>1, <2>2
<1>15. ASSUME NEW j, NEW l, l \in {"idle", "refresh"}
       PROVE  failures' = 0 => MirrorStands(j, l)'
  <2>1. SUFFICES ASSUME failures = 0 PROVE MirrorStands(j, l)'
    BY <1>4
  <2>2. l # "settle"
    BY <1>15
  <2>3. "update" \notin Kinds /\ Followed' =>
          payable'.total = order'.total \/ (payable'.status = "PAID" /\ PaidDirectly')
    BY <1>14, <2>1
  <2>. QED
    BY <1>7, <1>10, <2>2, <2>3 DEF MirrorStands
<1>16. CASE job[p].to = "editPaid"
  <2>1. PICK j : /\ j = job[p] /\ pc' = [pc EXCEPT ![p] = "refresh"]
                 /\ job' = [job EXCEPT ![p] = j]
    BY <1>4, <1>16 DEF Settled, Goto
  <2>2. OrderAsRead(j, "refresh")'
    BY <1>13, <1>16, <2>1 DEF OrderAsRead, InStatus, Refreshing
  <2>3. AccountAsRead(j, "refresh")' /\ MirrorAsRead(j, "refresh")'
    BY <1>13, <1>16, <2>1 DEF AccountAsRead, MirrorAsRead, Refreshing
  <2>4. AsRead(j, "refresh")'
    BY <2>2, <2>3 DEF AsRead
  <2>5. failures' = 0 => MirrorStands(j, "refresh")'
    BY <1>15
  <2>. QED
    BY <1>1, <1>11, <2>1, <2>4, <2>5, LoneMoves
<1>17. CASE job[p].to # "editPaid"
  <2>1. PICK j : j = NoJob
    OBVIOUS
  <2>2. pc' = [pc EXCEPT ![p] = "idle"] /\ job' = [job EXCEPT ![p] = j]
    BY <1>4, <1>17, <2>1 DEF Settled, Goto, Done
  <2>3. AsRead(j, "idle")'
    BY <2>1, IdleAsRead
  <2>4. failures' = 0 => MirrorStands(j, "idle")'
    BY <1>15
  <2>. QED
    BY <1>1, <1>11, <2>1, <2>2, <2>3, <2>4, LoneMoves
<1>. QED
  BY <1>16, <1>17

-----------------------------------------------------------------------------
(* One request at a time: every step.                                      *)

\* A statement of the order is of a process that runs, and counts nothing.
LEMMA OrderStepMoves ==
  ASSUME NEW p \in Processes, OrderStep(p) \/ EditFails(p)
  PROVE  pc[p] # "idle" /\ UNCHANGED races /\ \E l : pc' = [pc EXCEPT ![p] = l]
<1>. USE DEF Goto, Done, Throw, OnlyControl, MirrorReady, Settled, Edited, WriteStatus, bounds
<1>1. CASE InsertOrder(p) \/ FindMirror(p) \/ InsertMirror(p) \/ MirrorRefused(p)
  BY <1>1 DEF InsertOrder, FindMirror, InsertMirror, MirrorRefused
<1>2. CASE SetStatus(p) \/ Sign(p) \/ CloseRequests(p) \/ AnswerRequest(p) \/ AutoSign(p)
  BY <1>2 DEF SetStatus, Sign, CloseRequests, AnswerRequest, AutoSign
<1>3. CASE ClaimCajaAuthorization(p) \/ ClaimLost(p) \/ InsertEgress(p) \/ SetPaid(p)
  BY <1>3 DEF ClaimCajaAuthorization, ClaimLost, InsertEgress, SetPaid
<1>4. CASE ReadUnreflected(p) \/ Reflect(p) \/ ReflectRefused(p)
  BY <1>4 DEF ReadUnreflected, Reflect, ReflectRefused
<1>5. CASE ConsumeApproval(p) \/ ConsumeRefused(p) \/ ReplaceItems(p) \/ ReadMirror(p)
  BY <1>5 DEF ConsumeApproval, ConsumeRefused, ReplaceItems, ReadMirror
<1>6. CASE Sync(p) \/ ReadLivePayments(p) \/ Recalculate(p) \/ GiveBack(p) \/ AnswerEdit(p)
  BY <1>6 DEF Sync, ReadLivePayments, Recalculate, GiveBack, AnswerEdit
<1>7. CASE Delete(p) \/ DeleteRefused(p)
  BY <1>7 DEF Delete, DeleteRefused
<1>8. CASE OrderGone(p) \/ AccountGone(p) \/ EditFails(p)
  BY <1>8 DEF OrderGone, AccountGone, EditFails
<1>. QED
  BY <1>1, <1>2, <1>3, <1>4, <1>5, <1>6, <1>7, <1>8 DEF OrderStep

\* What starts is counted, and races only grow.
LEMMA RacesGrow ==
  ASSUME OrderAccountInv, OrderNext
  PROVE  races \in Nat /\ races' >= races
<1>1. /\ races \in Nat /\ starts \in 0..MaxStarts /\ races \in 0..MaxRaces
      /\ failures \in 0..MaxFailures
  BY OrderFacts, PayablesAssumption
<1>2. ASSUME NEW kind, Counted(kind) PROVE races' >= races
  BY <1>1, <1>2 DEF Counted
<1>3. CASE Next /\ UNCHANGED orderVars
  BY <1>1, <1>3, Bounded
<1>4. ASSUME NEW p \in Processes, OrderStart(p) PROVE races' >= races
  BY <1>2, <1>4 DEF OrderStart, StartCreate, StartUpdateStatus, StartCajaReject,
       StartAnswerRequest, StartCajaAuthorize, StartEdit, StartEditPaid, StartAnswerEdit,
       StartRemove, BeginOrder, Begin
<1>5. ASSUME NEW p \in Processes, OrderStep(p) \/ EditFails(p) PROVE races' >= races
  BY <1>1, <1>5, OrderStepMoves
<1>6. CASE OrderOthers
  <2>1. \E kind : Counted(kind)
    BY <1>6 DEF OrderOthers, RequestAuthorization, RequestEdit, ApprovalExpires, AtOnce
  <2>2. races' = races \/ races' = races + 1
    BY <2>1 DEF Counted
  <2>. QED
    BY <1>1, <2>2
<1>. QED
  BY <1>1, <1>3, <1>4, <1>5, <1>6 DEF OrderNext

\* While nothing raced, whoever takes a step runs alone.
LEMMA LoneRunner ==
  ASSUME OrderAccountInv, LoneInv, races = 0, NEW p \in Processes, pc[p] # "idle"
  PROVE  Lonely(p)
<1>1. p \in Running
  BY DEF Running
<1>2. Running \subseteq {p} /\ Stands(job[p], pc[p])
  BY <1>1 DEF LoneInv, OneRuns
<1>. QED
  BY <1>2 DEF Lonely

\* A step of the account, alone.
LEMMA LoneAccountStep ==
  ASSUME NEW p \in Processes, Lonely(p), Step(p), UNCHANGED <<order, born>>
  PROVE  LoneInv'
<1>1. CASE \/ AssertPayableAmount(p) \/ InsertMovement(p) \/ InsertPayment(p)
           \/ PaymentRefused(p) \/ UpdatePayable(p)
  BY <1>1, LoneOfPayment
<1>2. CASE FindPayment(p) \/ ReadLive(p) \/ CommitDelete(p) \/ CommitReversal(p)
  BY <1>2, LoneOfReversal
<1>3. CASE UpdateTotal(p) \/ Cancel(p) \/ Stamp(p)
  BY <1>3, LoneOfAccount
<1>4. CASE \/ CompletePayRequest(p) \/ RereadPayable(p) \/ AnswerPayment(p)
           \/ AnswerReversal(p) \/ AnswerAuth(p) \/ Authorize(p)
  BY <1>4, LoneOfRequests
<1>. QED
  BY <1>1, <1>2, <1>3, <1>4 DEF Step

\* A step of the order, alone.
LEMMA LoneOrderStep ==
  ASSUME NEW p \in Processes, Lonely(p), OrderStep(p)
  PROVE  LoneInv'
BY LoneOfOrderRow, LoneDeletes, LoneOfOrderRequests, LoneThrows, LoneReadsMirror,
   LoneWritesMirror, LoneTakesOut, LoneReflects
   DEF OrderStep

\* A step that changes nothing.
LEMMA LoneStutters ==
  ASSUME OrderAccountInv, LoneInv, races = 0, UNCHANGED allVars
  PROVE  LoneInv'
<1>1. UNCHANGED <<payable, payments, movements, payReqs, order, born, pc, job, races, failures>>
  BY DEF allVars, vars, rows, bounds, orderVars
<1>2. CASE Running = {}
  <2>1. PICK j : j = NoJob
    OBVIOUS
  <2>2. BooksStand /\ (failures = 0 => MirrorStands(j, "idle"))
    BY <1>2, <2>1 DEF LoneInv, Stands
  <2>3. \A r \in Existing(payReqs') : payReqs'[r].amount > 0
    BY <1>1, <2>2 DEF BooksStand, AmountsPositive, Existing
  <2>4. BooksStand' /\ (failures' = 0 => MirrorStands(j, "idle")')
    BY <1>1, <2>2, <2>3, StandsSame
  <2>5. failures' = 0 => MirrorStands(NoJob, "idle")'
    BY <2>1, <2>4
  <2>. QED
    BY <1>1, <1>2, <2>4, <2>5, LoneAtOnce
<1>3. CASE Running # {}
  <2>1. PICK p \in Processes : pc[p] # "idle"
    BY <1>3 DEF Running
  <2>2. Lonely(p)
    BY <2>1, LoneRunner
  <2>3. PICK j, l : j = job[p] /\ l = pc[p]
    OBVIOUS
  <2>4. /\ AsRead(j, l) /\ BooksStand /\ (failures' = 0 => MirrorStands(j, l))
        /\ Running \subseteq {p} /\ l # "idle"
    BY <1>1, <2>1, <2>2, <2>3 DEF Lonely, Stands
  <2>5. pc' = [pc EXCEPT ![p] = l] /\ job' = [job EXCEPT ![p] = j]
    BY <1>1, <2>3, OrderFacts
  <2>6. \A r \in Existing(payReqs') : payReqs'[r].amount > 0
    BY <1>1, <2>4 DEF BooksStand, AmountsPositive, Existing
  <2>. QED
    BY <1>1, <2>4, <2>5, <2>6, LoneWaits
<1>. QED
  BY <1>2, <1>3

LEMMA LoneStays ==
  ASSUME OrderAccountInv, LoneInv, [OrderNext]_allVars
  PROVE  LoneInv'
<1>1. SUFFICES ASSUME races' = 0 PROVE LoneInv'
  BY DEF LoneInv, OneRuns
<1>2. CASE UNCHANGED allVars
  <2>1. races = 0
    BY <1>1, <1>2 DEF allVars, vars, bounds
  <2>. QED
    BY <1>2, <2>1, LoneStutters
<1>3. CASE OrderNext
  <2>1. races = 0
    BY <1>1, <1>3, RacesGrow
  <2>2. ASSUME NEW p \in Processes, Start(p), UNCHANGED orderVars PROVE LoneInv'
    BY <1>1, <2>2, LoneStartsAccount DEF orderVars
  <2>3. ASSUME NEW p \in Processes, Step(p), UNCHANGED orderVars PROVE LoneInv'
    <3>1. Lonely(p)
      BY <2>1, <2>3, StepMoves, LoneRunner
    <3>. QED
      BY <2>3, <3>1, LoneAccountStep DEF orderVars
  <2>4. ASSUME NEW p \in Processes, (Fail(p) /\ UNCHANGED orderVars) \/ EditFails(p)
        PROVE  LoneInv'
    <3>1. pc[p] # "idle"
      BY <2>4, OrderStepMoves DEF Fail
    <3>. QED
      BY <2>1, <2>4, <3>1, LoneRunner, LoneFails
  <2>5. ASSUME Others, UNCHANGED orderVars PROVE LoneInv'
    BY <1>1, <2>5, LoneOthers DEF orderVars
  <2>6. ASSUME NEW p \in Processes, OrderStart(p) PROVE LoneInv'
    BY <1>1, <2>6, LoneStartsOrder
  <2>7. ASSUME NEW p \in Processes, OrderStep(p) PROVE LoneInv'
    <3>1. Lonely(p)
      BY <2>1, <2>7, OrderStepMoves, LoneRunner
    <3>. QED
      BY <2>7, <3>1, LoneOrderStep
  <2>8. ASSUME OrderOthers PROVE LoneInv'
    BY <1>1, <2>8, LoneOrderOthers
  <2>. QED
    BY <1>3, <2>2, <2>3, <2>4, <2>5, <2>6, <2>7, <2>8 DEF OrderNext, Next
<1>. QED
  BY <1>2, <1>3

\* Before anything is created nothing is owed, nor has moved.
LEMMA LoneStarted == ASSUME OrderInit PROVE LoneInv
<1>1. /\ Existing(payments) = {} /\ Existing(movements) = {} /\ Existing(payReqs) = {}
      /\ OrderMovements = {} /\ Running = {} /\ payable = None /\ order = None
  BY DEF OrderInit, Existing, OrderMovements, Running
<1>2. BooksStand /\ MirrorStands(NoJob, "idle")
  BY <1>1 DEF BooksStand, AmountsPositive, MirrorStands, Followed, InStatus
<1>. QED
  BY <1>1, <1>2, IdleAsRead DEF LoneInv, OneRuns, Stands

\* One request at a time on an order and its account, what each statement read is so
\* until it writes, and the account mirrors the order but between the statements that
\* are about to make it so, unless a process dies.
THEOREM LoneInvariant == OrderSpec => [](OrderAccountInv /\ LoneInv)
<1>1. OrderInit => LoneInv
  BY LoneStarted
<1>2. OrderAccountInv /\ LoneInv /\ [OrderNext]_allVars => LoneInv'
  BY LoneStays
<1>. QED
  BY <1>1, <1>2, OrderAccountInvariant, PTL DEF OrderSpec

\* Between two requests nothing is exempt.
LEMMA MirrorFollowsOrder ==
  ASSUME LoneInv
  PROVE  /\ EgressReflected /\ PaidOrderOwes /\ MirrorPaidIsLive
         /\ "update" \notin Kinds => MirrorTotal
<1>1. ASSUME Quiet
      PROVE  BooksStand /\ MirrorStands(NoJob, "idle")
  BY <1>1 DEF Quiet, Calm, LoneInv, Stands
<1>2. "idle" \notin Mirroring \cup Reflecting \cup Refreshing
  BY DEF Mirroring, Reflecting, Refreshing
<1>3. EgressReflected
  BY <1>1, <1>2 DEF EgressReflected, MirrorStands, Followed
<1>4. PaidOrderOwes
  BY <1>1, <1>2 DEF PaidOrderOwes, MirrorStands, Followed
<1>5. MirrorPaidIsLive
  BY <1>1 DEF MirrorPaidIsLive, MirrorStands, BooksStand
<1>6. "update" \notin Kinds => MirrorTotal
  BY <1>1 DEF MirrorTotal, MirrorStands, Followed
<1>. QED
  BY <1>3, <1>4, <1>5, <1>6

\* cajaAuthorize, settleFromExpenseOrderMovements, refreshFromLivePayments: requests
\* one at a time, the money of a paid order is that of payments of its account, whose
\* columns are theirs and which is PAID exactly when it owes nothing.
THEOREM ReflectionHolds ==
  OrderSpec => [](EgressReflected /\ PaidOrderOwes /\ MirrorPaidIsLive)
<1>1. LoneInv => EgressReflected /\ PaidOrderOwes /\ MirrorPaidIsLive
  BY MirrorFollowsOrder
<1>. QED
  BY <1>1, LoneInvariant, PTL

\* The account mirrors the order, where its amount is not edited by hand: that edit
\* (update of accounts payable) does not look at the order.
THEOREM MirrorHolds ==
  ASSUME "update" \notin Kinds
  PROVE  OrderSpec => []MirrorIsOrder
<1>1. LoneInv => MirrorIsOrder
  BY MirrorFollowsOrder DEF MirrorIsOrder
<1>. QED
  BY <1>1, LoneInvariant, PTL

-----------------------------------------------------------------------------
(* What a payment of the account may be, with money out through the order. *)

\* A payment is inserted by the one statement that stands before it.
LEMMA OnlyInserted ==
  ASSUME OrderAccountInv, LoneInv, races' = 0, OrderNext, NEW p \in Processes,
         pc[p] = "payment", pc'[p] = "settle"
  PROVE  Lonely(p) /\ InsertPayment(p) /\ UNCHANGED orderVars
<1>1. races = 0 /\ Lonely(p) /\ pc \in [Processes -> OrderPCs]
  BY RacesGrow, LoneRunner, OrderFacts
<1>2. Running = {p}
  BY <1>1 DEF Lonely, Running
<1>3. ASSUME NEW kind, Counted(kind) PROVE FALSE
  BY <1>1, <1>2, <1>3 DEF Counted
<1>4. ASSUME NEW q \in Processes, Step(q) \/ OrderStep(q) \/ EditFails(q) \/ Fail(q)
      PROVE  q = p
  BY <1>2, <1>4, StepMoves, OrderStepMoves DEF Running, Fail
<1>5. ~(Others \/ OrderOthers) /\ ~\E q \in Processes : Start(q) \/ OrderStart(q)
  BY <1>3 DEF Others, CreatePayRequest, CreateReversal, CreateAuthRequest, MarkOverdue,
       VoidMovement, AtOnce, OrderOthers, RequestAuthorization, RequestEdit, ApprovalExpires,
       Start, StartRegisterPayment, StartCajaApprovePayment, StartAnswerPayment,
       StartDeletePayment, StartAnswerReversal, StartCajaApproveReversal, StartUpdateTotal,
       StartCancel, StartAnswerAuth, StartAuthorize, Begin,
       OrderStart, StartCreate, StartUpdateStatus, StartCajaReject, StartAnswerRequest,
       StartCajaAuthorize, StartEdit, StartEditPaid, StartAnswerEdit, StartRemove, BeginOrder
<1>6. ~(Fail(p) \/ EditFails(p))
  BY <1>1 DEF Fail, EditFails
<1>7. ~OrderStep(p)
  <2>. USE DEF Throw, OnlyControl
  <2>1. ~(InsertOrder(p) \/ FindMirror(p) \/ InsertMirror(p) \/ MirrorRefused(p) \/ SetStatus(p)
          \/ Sign(p) \/ CloseRequests(p) \/ AnswerRequest(p) \/ AutoSign(p))
    BY DEF InsertOrder, FindMirror, InsertMirror, MirrorRefused, SetStatus, Sign, CloseRequests,
           AnswerRequest, AutoSign
  <2>2. ~(ClaimCajaAuthorization(p) \/ ClaimLost(p) \/ InsertEgress(p) \/ SetPaid(p)
          \/ ReadUnreflected(p) \/ Reflect(p) \/ ReflectRefused(p) \/ ConsumeApproval(p)
          \/ ConsumeRefused(p) \/ ReplaceItems(p))
    BY DEF ClaimCajaAuthorization, ClaimLost, InsertEgress, SetPaid, ReadUnreflected, Reflect,
           ReflectRefused, ConsumeApproval, ConsumeRefused, ReplaceItems
  <2>3. ~(ReadMirror(p) \/ Sync(p) \/ ReadLivePayments(p) \/ Recalculate(p) \/ GiveBack(p)
          \/ AnswerEdit(p) \/ Delete(p) \/ DeleteRefused(p) \/ OrderGone(p) \/ AccountGone(p))
    BY DEF ReadMirror, Sync, ReadLivePayments, Recalculate, GiveBack, AnswerEdit, Delete,
           DeleteRefused, OrderGone, AccountGone
  <2>. QED
    BY <2>1, <2>2, <2>3 DEF OrderStep
<1>8. Step(p) => InsertPayment(p)
  <2>1. ~(AssertPayableAmount(p) \/ InsertMovement(p) \/ UpdatePayable(p) \/ CompletePayRequest(p)
          \/ RereadPayable(p) \/ AnswerPayment(p) \/ FindPayment(p) \/ ReadLive(p)
          \/ CommitDelete(p))
    BY DEF AssertPayableAmount, InsertMovement, UpdatePayable, CompletePayRequest, RereadPayable,
           AnswerPayment, FindPayment, ReadLive, CommitDelete
  <2>2. ~(AnswerReversal(p) \/ CommitReversal(p) \/ UpdateTotal(p) \/ Cancel(p) \/ AnswerAuth(p)
          \/ Authorize(p) \/ Stamp(p))
    BY DEF AnswerReversal, CommitReversal, UpdateTotal, Cancel, AnswerAuth, Authorize, Stamp
  <2>3. ~PaymentRefused(p)
    BY <1>1 DEF PaymentRefused, Refuse, Done, Goto
  <2>. QED
    BY <2>1, <2>2, <2>3 DEF Step
<1>. QED
  BY <1>1, <1>4, <1>5, <1>6, <1>7, <1>8 DEF OrderNext, Next

\* assertPayableAmount: what it allows leaves room for what left through the order.
LEMMA CapStep ==
  ASSUME OrderAccountInv, LoneInv, [OrderNext]_allVars, races' = 0, payable # None,
         payable.paid = LiveSum, NEW p \in Processes, pc[p] = "payment", pc'[p] = "settle"
  PROVE  LiveSumOf(payments') + PaidThroughExpenseOrder <= payable.total
<1>1. OrderNext
  BY DEF allVars, vars
<1>2. Lonely(p) /\ InsertPayment(p)
  BY <1>1, OnlyInserted
<1>3. /\ TablesTyped /\ job[p] \in OrderJob /\ AccountAsRead(job[p], pc[p]) /\ BooksStand
  BY <1>2, LonelyFacts
<1>4. PICK q, r :
        /\ q \in Payments /\ payments[q] = None
        /\ r = [amount |-> job[p].amount, movement |-> job[p].movement,
                request |-> job[p].request, reversed |-> FALSE]
        /\ payments' = [payments EXCEPT ![q] = r]
  BY <1>2 DEF InsertPayment, Fresh
<1>5. r \in Payment /\ ~r.reversed /\ r.amount = job[p].amount
  BY <1>3, <1>4 DEF Payment, OrderJob, JobOf
<1>6. UNCHANGED movements
  BY <1>2 DEF InsertPayment
<1>7. LiveSumOf(payments') = LiveSum + job[p].amount
  BY <1>3, <1>4, <1>5, <1>6, PaymentAdded
<1>8. job[p].amount <= payable.balance - PaidThroughExpenseOrder
  BY <1>3 DEF AccountAsRead
<1>9. payable.balance = payable.total - payable.paid
  BY <1>3 DEF BooksStand
<1>10. /\ payable.total \in Int /\ payable.paid \in Int /\ job[p].amount \in Int
       /\ PaidThroughExpenseOrder \in Int
  <2>1. PICK U, t : U = Unreflected /\ t = movements
    OBVIOUS
  <2>2. U \subseteq Movements /\ \A x \in U : t[x].amount \in Int
    BY <1>3, <2>1 DEF Unreflected, TablesTyped, Existing, Movement
  <2>3. SumOf(t, U) \in Int
    BY <2>2, SumOfType, PayablesAssumption
  <2>. QED
    BY <1>3, <2>1, <2>3 DEF PaidThroughExpenseOrder, TablesTyped, Payable, OrderJob, JobOf
<1>. QED
  BY <1>7, <1>8, <1>9, <1>10

\* A payment of an account whose columns are right never pays again what left through
\* its order, not even when the process that took it out died before it reflected it.
THEOREM CapHolds == OrderSpec => CapCountsExpenseOrder
<1>1. OrderAccountInv /\ LoneInv /\ [OrderNext]_allVars =>
        [(races' = 0 /\ payable # None /\ payable.paid = LiveSum
            /\ \E p \in Processes : pc[p] = "payment" /\ pc'[p] = "settle")
           => LiveSumOf(payments') + PaidThroughExpenseOrder <= payable.total]_allVars
  BY CapStep
<1>. QED
  BY <1>1, LoneInvariant, PTL DEF OrderSpec, CapCountsExpenseOrder

-----------------------------------------------------------------------------
(* The life of an order: every step is one of its form's, or none.         *)

LifePhase == IF order = None THEN "none"
             ELSE CASE order.status \in Unsigned -> "open"
                    [] order.status = "PAID" -> "paid"
                    [] OTHER -> "signed"
LifeTotal == IF order = None THEN 0 ELSE order.total
LifeOut == IF InStatus({"PAID"}) THEN SumOf(movements, OrderMovements) ELSE 0
LifeVars == <<LifePhase, LifeTotal, LifeOut>>
LifeNext == \/ Life!Create \/ Life!Edit \/ Life!Sign \/ Life!SendBack \/ Life!Pay
            \/ Life!Remove

LEMMA LifeMoves ==
  ASSUME \/ /\ LifePhase = "none" /\ LifePhase' \in {"open", "signed"}
            /\ LifeTotal' \in Totals /\ LifeOut' = LifeOut
         \/ /\ LifePhase \in {"open", "paid"} /\ LifePhase' = LifePhase
            /\ LifeTotal' \in Totals /\ LifeOut' = LifeOut
         \/ /\ LifePhase = "open" /\ LifePhase' = "signed"
            /\ LifeTotal' = LifeTotal /\ LifeOut' = LifeOut
         \/ /\ LifePhase = "signed" /\ LifePhase' = "open"
            /\ LifeTotal' = LifeTotal /\ LifeOut' = LifeOut
         \/ /\ LifePhase = "signed" /\ LifePhase' = "paid"
            /\ LifeOut' = LifeTotal /\ LifeTotal' = LifeTotal
         \/ /\ LifePhase = "open" /\ LifePhase' = "none" /\ LifeTotal' = 0 /\ LifeOut' = LifeOut
  PROVE  LifeNext
BY DEF LifeNext, Life!Create, Life!Edit, Life!Sign, Life!SendBack, Life!Pay, Life!Remove,
       LifePhase, LifeTotal, LifeOut

\* What an order is in each status.
LEMMA LifeOf ==
  /\ order = None => LifePhase = "none" /\ LifeTotal = 0 /\ LifeOut = 0
  /\ order # None =>
       /\ LifeTotal = order.total
       /\ order.status \in Unsigned => LifePhase = "open" /\ LifeOut = 0
       /\ order.status = "PAID" => LifePhase = "paid" /\ LifeOut = MoneyOut
       /\ order.status \in {"ADMIN_AUTHORIZED", "AUTHORIZED"} => LifePhase = "signed" /\ LifeOut = 0
BY DEF LifePhase, LifeTotal, LifeOut, InStatus, MoneyOut, Unsigned

LEMMA LifeThen ==
  /\ order' = None => LifePhase' = "none" /\ LifeTotal' = 0 /\ LifeOut' = 0
  /\ order' # None =>
       /\ LifeTotal' = order'.total
       /\ order'.status \in Unsigned => LifePhase' = "open" /\ LifeOut' = 0
       /\ order'.status = "PAID" => LifePhase' = "paid" /\ LifeOut' = MoneyOut'
       /\ order'.status \in {"ADMIN_AUTHORIZED", "AUTHORIZED"}
            => LifePhase' = "signed" /\ LifeOut' = 0
BY DEF LifePhase, LifeTotal, LifeOut, InStatus, MoneyOut, Unsigned

\* Nothing happens to an order whose row and money stay.
LEMMA LifeStays ==
  ASSUME UNCHANGED order, MoneyOut' = MoneyOut
  PROVE  UNCHANGED LifeVars
BY DEF LifeVars, LifePhase, LifeTotal, LifeOut, InStatus, MoneyOut

LEMMA LifeQuiet ==
  ASSUME UNCHANGED <<order, movements>>
  PROVE  UNCHANGED LifeVars
BY LifeStays DEF MoneyOut, OrderMovements, SumOf, Existing

\* What left for the order stays so through every operation of its account.
LEMMA MoneyOutKept ==
  ASSUME AccountInv(OrderRows, OrderTargets, OrderPCs), Next
  PROVE  MoneyOut' = MoneyOut
<1>1. TablesTyped /\ MovementsExist
  BY DEF AccountInv, Typed
<1>2. ASSUME NEW m, m \in Existing(movements), movements' = [movements EXCEPT ![m].voided = TRUE]
      PROVE  MoneyOut' = MoneyOut
  <2>1. OnlyVoided /\ movements' \in [Movements -> Movement \cup {None}]
    BY <1>1, <1>2, VoidedOnly
  <2>. QED
    BY <1>1, <2>1, VoidedSame
<1>3. ASSUME UNCHANGED movements PROVE MoneyOut' = MoneyOut
  BY <1>3 DEF MoneyOut, OrderMovements, SumOf, Existing
<1>4. CASE Others
  <2>1. \/ UNCHANGED movements
        \/ \E m \in Existing(movements) : movements' = [movements EXCEPT ![m].voided = TRUE]
    BY <1>4 DEF Others, CreatePayRequest, CreateReversal, CreateAuthRequest, MarkOverdue,
                VoidMovement
  <2>. QED
    BY <1>2, <1>3, <2>1
<1>5. ASSUME NEW p \in Processes, Start(p) \/ Fail(p) PROVE UNCHANGED movements
  BY <1>5 DEF Start, StartRegisterPayment, StartCajaApprovePayment, StartAnswerPayment,
       StartDeletePayment, StartAnswerReversal, StartCajaApproveReversal, StartUpdateTotal,
       StartCancel, StartAnswerAuth, StartAuthorize, Begin, Fail, rows
<1>6. ASSUME NEW p \in Processes, Step(p) PROVE MoneyOut' = MoneyOut
  <2>. USE DEF Refuse, rows
  <2>1. CASE InsertMovement(p)
    <3>0. PICK r : r = [amount |-> job[p].amount, source |-> "AP", voided |-> FALSE]
      OBVIOUS
    <3>1. PICK m \in Movements :
            /\ movements[m] = None
            /\ movements' = [movements EXCEPT ![m] = r]
      BY <2>1, <3>0 DEF InsertMovement, Fresh
    <3>2. job[p].amount \in Int
      BY AccountJob DEF JobOf
    <3>3. r \in Movement /\ ~r.voided /\ r.source = "AP"
      BY <3>0, <3>2 DEF Movement
    <3>4. UNCHANGED payments
      BY <2>1 DEF InsertMovement
    <3>. QED
      BY <1>1, <3>1, <3>3, <3>4, MovementAdded
  <2>2. CASE CommitDelete(p) \/ CommitReversal(p)
    <3>1. /\ JobFits(job[p], pc[p]) /\ FoundBy(job[p], pc[p])
      BY AccountJob
    <3>2. PICK q : q = job[p].row
      OBVIOUS
    <3>3. ReversePayment(q) /\ q \in Existing(payments)
      BY <2>2, <3>1, <3>2 DEF CommitDelete, CommitReversal, FoundBy, PaymentOf
    <3>4. CASE payments[q].movement = None
      BY <1>3, <3>3, <3>4 DEF ReversePayment
    <3>5. CASE payments[q].movement # None
      <4>1. PICK m : m = payments[q].movement
        OBVIOUS
      <4>2. m \in Existing(movements) /\ movements' = [movements EXCEPT ![m].voided = TRUE]
        BY <1>1, <3>3, <3>5, <4>1 DEF ReversePayment, MovementsExist
      <4>. QED
        BY <1>2, <4>2
    <3>. QED
      BY <3>4, <3>5
  <2>3. CASE AssertPayableAmount(p) \/ InsertPayment(p) \/ PaymentRefused(p) \/ UpdatePayable(p)
    BY <1>3, <2>3 DEF AssertPayableAmount, InsertPayment, PaymentRefused, UpdatePayable
  <2>4. CASE CompletePayRequest(p) \/ RereadPayable(p) \/ AnswerPayment(p) \/ FindPayment(p)
             \/ ReadLive(p)
    BY <1>3, <2>4 DEF CompletePayRequest, RereadPayable, AnswerPayment, FindPayment, ReadLive
  <2>5. CASE AnswerReversal(p) \/ AnswerAuth(p) \/ Authorize(p) \/ UpdateTotal(p) \/ Cancel(p)
             \/ Stamp(p)
    BY <1>3, <2>5 DEF AnswerReversal, AnswerAuth, Authorize, UpdateTotal, Cancel, Stamp
  <2>. QED
    BY <1>6, <2>1, <2>2, <2>3, <2>4, <2>5 DEF Step
<1>. QED
  BY <1>3, <1>4, <1>5, <1>6 DEF Next

\* The statements that write neither the order's row nor a movement.
LEMMA LifeElsewhere ==
  ASSUME NEW p \in Processes,
         \/ FindMirror(p) \/ InsertMirror(p) \/ MirrorRefused(p) \/ CloseRequests(p)
         \/ AnswerRequest(p) \/ AutoSign(p) \/ ClaimLost(p) \/ ReadUnreflected(p)
         \/ Reflect(p) \/ ReflectRefused(p) \/ ConsumeApproval(p) \/ ConsumeRefused(p)
         \/ ReadMirror(p) \/ Sync(p) \/ ReadLivePayments(p) \/ Recalculate(p) \/ GiveBack(p)
         \/ AnswerEdit(p) \/ DeleteRefused(p) \/ OrderGone(p) \/ AccountGone(p)
         \/ EditFails(p) \/ OrderStart(p) \/ OrderOthers
  PROVE  UNCHANGED LifeVars
<1>. USE DEF OnlyControl, orderVars, rows, Throw
<1>1. CASE FindMirror(p) \/ InsertMirror(p) \/ MirrorRefused(p) \/ CloseRequests(p)
           \/ AnswerRequest(p) \/ AutoSign(p) \/ ClaimLost(p)
  BY <1>1, LifeQuiet DEF FindMirror, InsertMirror, MirrorRefused, CloseRequests, AnswerRequest,
                         AutoSign, ClaimLost
<1>2. CASE ReadUnreflected(p) \/ Reflect(p) \/ ReflectRefused(p) \/ ConsumeApproval(p)
           \/ ConsumeRefused(p)
  BY <1>2, LifeQuiet DEF ReadUnreflected, Reflect, ReflectRefused, ConsumeApproval,
                         ConsumeRefused
<1>3. CASE ReadMirror(p) \/ Sync(p) \/ ReadLivePayments(p) \/ Recalculate(p) \/ GiveBack(p)
           \/ AnswerEdit(p)
  BY <1>3, LifeQuiet DEF ReadMirror, Sync, ReadLivePayments, Recalculate, GiveBack, AnswerEdit
<1>4. CASE DeleteRefused(p) \/ OrderGone(p) \/ AccountGone(p) \/ EditFails(p)
  BY <1>4, LifeQuiet DEF DeleteRefused, OrderGone, AccountGone, EditFails
<1>5. CASE OrderStart(p)
  BY <1>5, LifeQuiet DEF OrderStart, StartCreate, StartUpdateStatus, StartCajaReject,
       StartAnswerRequest, StartCajaAuthorize, StartEdit, StartEditPaid, StartAnswerEdit,
       StartRemove, BeginOrder, Begin
<1>6. CASE OrderOthers
  BY <1>6, LifeQuiet DEF OrderOthers, RequestAuthorization, RequestEdit, ApprovalExpires
<1>. QED
  BY <1>1, <1>2, <1>3, <1>4, <1>5, <1>6

\* The statements that write the order's row, or take its money out.
LEMMA LifeOfOrderRow ==
  ASSUME NEW p \in Processes, Lonely(p),
         \/ InsertOrder(p) \/ SetStatus(p) \/ Sign(p) \/ ClaimCajaAuthorization(p)
         \/ InsertEgress(p) \/ SetPaid(p) \/ ReplaceItems(p) \/ Delete(p)
  PROVE  LifeNext \/ UNCHANGED LifeVars
<1>1. /\ OrderTabled /\ OrderAsRead(job[p], pc[p]) /\ BooksStand /\ RowsOfOrder
  BY LonelyFacts
<1>2. order # None => order.status \in OrderStatuses /\ order.total \in Totals
  BY <1>1 DEF OrderTabled, BooksStand
<1>3. ASSUME UNCHANGED movements PROVE MoneyOut' = MoneyOut
  BY <1>3 DEF MoneyOut, OrderMovements, SumOf, Existing
<1>4. CASE InsertOrder(p)
  <2>1. ~born /\ order = None /\ job[p].amount \in Totals
    BY <1>1, <1>4 DEF InsertOrder, OrderAsRead, RowsOfOrder
  <2>a. PICK t : t = job[p].amount
    OBVIOUS
  <2>2. PICK s \in Unsigned \cup {"ADMIN_AUTHORIZED"} : order' = [status |-> s, total |-> t]
    BY <1>4, <2>1, <2>a DEF InsertOrder
  <2>3. order' # None /\ order'.status = s /\ order'.total = t
    BY <2>1, <2>2, <2>a, RowOfOrder DEF OrderStatuses, Unsigned
  <2>4. /\ LifePhase' \in {"open", "signed"} /\ LifeTotal' = t /\ LifeOut' = 0
    BY <2>2, <2>3, LifeThen
  <2>. QED
    BY <2>1, <2>2, <2>4, <2>a, LifeOf, LifeMoves
<1>5. CASE SetStatus(p)
  <2>1. PICK s \in {"CREATED", "DRAFT"} :
          order # None /\ order' = [status |-> s, total |-> order.total]
    BY <1>5 DEF SetStatus, WriteStatus
  <2>2. order' # None /\ order'.status = s /\ order'.total = order.total
    BY <1>2, <2>1, RowOfOrder DEF OrderStatuses
  <2>3. LifePhase' = "open" /\ LifeTotal' = LifeTotal /\ LifeOut' = 0
    BY <2>1, <2>2, LifeThen, LifeOf DEF Unsigned
  <2>4. order.status \in Unsigned \cup {"ADMIN_AUTHORIZED"}
    BY <1>1, <1>5 DEF SetStatus, OrderAsRead, InStatus, Unsigned
  <2>5. LifePhase \in {"open", "signed"} /\ LifeOut = 0
    BY <2>1, <2>4, LifeOf
  <2>6. CASE LifePhase = "open"
    BY <2>3, <2>5, <2>6 DEF LifeVars
  <2>7. CASE LifePhase = "signed"
    BY <2>3, <2>5, <2>7, LifeMoves
  <2>. QED
    BY <2>5, <2>6, <2>7
<1>6. CASE Sign(p) \/ ClaimCajaAuthorization(p)
  <2>1. PICK s \in {"ADMIN_AUTHORIZED", "AUTHORIZED"} :
          /\ order # None /\ order' = [status |-> s, total |-> order.total]
          /\ s = "ADMIN_AUTHORIZED" => order.status \in Unsigned
          /\ s = "AUTHORIZED" => order.status = "ADMIN_AUTHORIZED"
    BY <1>1, <1>6 DEF Sign, ClaimCajaAuthorization, WriteStatus, OrderAsRead, InStatus
  <2>2. order' # None /\ order'.status = s /\ order'.total = order.total
    BY <1>2, <2>1, RowOfOrder DEF OrderStatuses
  <2>3. LifePhase' = "signed" /\ LifeTotal' = LifeTotal /\ LifeOut' = 0
    BY <2>1, <2>2, LifeThen, LifeOf
  <2>4. LifePhase \in {"open", "signed"} /\ LifeOut = 0
    BY <2>1, LifeOf
  <2>5. CASE LifePhase = "signed"
    BY <2>3, <2>4, <2>5 DEF LifeVars
  <2>6. CASE LifePhase = "open"
    BY <2>3, <2>4, <2>6, LifeMoves
  <2>. QED
    BY <2>4, <2>5, <2>6
<1>7. CASE InsertEgress(p)
  <2>1. order # None /\ order.status = "AUTHORIZED" /\ order' = order
    BY <1>1, <1>7 DEF InsertEgress, OrderAsRead, InStatus
  <2>2. LifePhase' = LifePhase /\ LifeTotal' = LifeTotal /\ LifeOut' = LifeOut
    BY <2>1, LifeThen, LifeOf
  <2>. QED
    BY <2>2 DEF LifeVars
<1>8. CASE SetPaid(p)
  <2>1. /\ order # None /\ order' = [status |-> "PAID", total |-> order.total]
        /\ order.status = "AUTHORIZED" /\ MoneyOut = order.total /\ UNCHANGED movements
    BY <1>1, <1>8 DEF SetPaid, WriteStatus, OrderAsRead, InStatus, rows
  <2>2. order' # None /\ order'.status = "PAID" /\ order'.total = order.total
    BY <1>2, <2>1, RowOfOrder DEF OrderStatuses
  <2>3. MoneyOut' = order.total
    BY <1>3, <2>1
  <2>4. LifePhase' = "paid" /\ LifeTotal' = LifeTotal /\ LifeOut' = LifeTotal
    BY <2>1, <2>2, <2>3, LifeThen, LifeOf
  <2>5. LifePhase = "signed"
    BY <2>1, LifeOf
  <2>. QED
    BY <2>4, <2>5, LifeMoves
<1>9. CASE ReplaceItems(p)
  <2>1. PICK s, t : /\ order # None /\ s = order.status /\ t = job[p].amount /\ t \in Totals
                    /\ order' = [status |-> s, total |-> t] /\ UNCHANGED movements
                    /\ s \in Unsigned \/ s = "PAID"
    BY <1>1, <1>9 DEF ReplaceItems, OrderAsRead, InStatus, rows
  <2>2. order' # None /\ order'.status = s /\ order'.total = t
    BY <1>2, <2>1, RowOfOrder
  <2>3. /\ LifePhase \in {"open", "paid"} /\ LifePhase' = LifePhase /\ LifeTotal' \in Totals
        /\ LifeOut' = LifeOut
    BY <1>3, <2>1, <2>2, LifeThen, LifeOf
  <2>. QED
    BY <2>3, LifeMoves
<1>10. CASE Delete(p)
  <2>1. order # None /\ order.status \in Unsigned /\ order' = None
    BY <1>1, <1>10 DEF Delete, OrderAsRead, InStatus
  <2>2. /\ LifePhase = "open" /\ LifePhase' = "none" /\ LifeTotal' = 0 /\ LifeOut' = LifeOut
    BY <2>1, LifeThen, LifeOf
  <2>. QED
    BY <2>2, LifeMoves
<1>. QED
  BY <1>4, <1>5, <1>6, <1>7, <1>8, <1>9, <1>10

LEMMA LifeStep ==
  ASSUME OrderAccountInv, LoneInv, races = 0, [OrderNext]_allVars
  PROVE  [LifeNext]_LifeVars
<1>1. CASE UNCHANGED allVars
  BY <1>1, LifeQuiet DEF allVars, vars, rows, orderVars
<1>2. CASE Next /\ UNCHANGED orderVars
  <2>1. AccountInv(OrderRows, OrderTargets, OrderPCs)
    BY OrderFacts
  <2>. QED
    BY <1>2, <2>1, MoneyOutKept, LifeStays DEF orderVars
<1>3. CASE OrderOthers
  BY <1>3, LifeQuiet DEF OrderOthers, RequestAuthorization, RequestEdit, ApprovalExpires, rows
<1>4. ASSUME NEW p \in Processes, OrderStart(p) \/ OrderStep(p) \/ EditFails(p)
      PROVE  LifeNext \/ UNCHANGED LifeVars
  <2>1. CASE \/ InsertOrder(p) \/ SetStatus(p) \/ Sign(p) \/ ClaimCajaAuthorization(p)
             \/ InsertEgress(p) \/ SetPaid(p) \/ ReplaceItems(p) \/ Delete(p)
    <3>1. OrderStep(p)
      BY <2>1 DEF OrderStep
    <3>2. Lonely(p)
      BY <3>1, OrderStepMoves, LoneRunner
    <3>. QED
      BY <2>1, <3>2, LifeOfOrderRow
  <2>. QED
    BY <1>4, <2>1, LifeElsewhere DEF OrderStep
<1>. QED
  BY <1>1, <1>2, <1>3, <1>4 DEF OrderNext

\* For as long as the requests on an order come one at a time, it lives as its form says
\* and is paid in full, or not at all, by one authorisation of Caja, even if processes die.
THEOREM LivesAsTheFormSays ==
  OrderSpec /\ [](races = 0) => LivesAsDescribed
<1>1. OrderInit => Life!Init
  BY DEF OrderInit, Life!Init, InStatus
<1>2. OrderAccountInv /\ LoneInv /\ races = 0 /\ [OrderNext]_allVars => [LifeNext]_LifeVars
  BY LifeStep
<1>. QED
  BY <1>1, <1>2, LoneInvariant, PTL
     DEF OrderSpec, LivesAsDescribed, Life!Spec, LifeNext, LifeVars, LifePhase, LifeTotal, LifeOut

=============================================================================
