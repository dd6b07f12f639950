------------------------ MODULE RefundRequestsProofs ------------------------
(***************************************************************************)
(* A refund is paid at most once, for any number of requests, processes    *)
(* and operations, and the order gives back what leaves the drawer: a      *)
(* request keeps its amount from the moment it is asked for, and the one   *)
(* row a payment marks is the one that had moved nothing.                  *)
(***************************************************************************)
EXTENDS RefundRequestsProps, SumTheorems

\* What the order and the item become are columns of the right type.
LEMMA ApplyType ==
  ASSUME TypeOK, NEW f \in Refund, ApplyToOrder(f)
  PROVE  order' \in OrderRow /\ item' \in Item \cup {None}
<1>1. /\ order \in OrderRow /\ item \in Item \cup {None}
      /\ f.amount \in Nat /\ f.reversed \in Nat /\ f.units \in Nat
  BY DEF TypeOK, Refund
<1>2. item' \in Item \cup {None}
  BY <1>1 DEF ApplyToOrder, Viable, Annulled, Item
<1>. DEFINE st == IF /\ order.status # "ANULADO"
                     /\ order.reversed + f.reversed >= order.total /\ order.total > 0
                  THEN "RETURNED" ELSE order.status
<1>3. st \in Statuses
  BY <1>1 DEF OrderRow, Statuses
<1>4. /\ order.paid - f.amount \in Int /\ order.refunded + f.amount \in Int
      /\ order.reversed + f.reversed \in Int
  BY <1>1 DEF OrderRow
<1>5. order' = [order EXCEPT !.paid = order.paid - f.amount,
                             !.refunded = order.refunded + f.amount,
                             !.reversed = order.reversed + f.reversed, !.status = st]
  BY DEF ApplyToOrder
<1>. HIDE DEF st
<1>6. order' \in OrderRow
  BY <1>1, <1>3, <1>4, <1>5 DEF OrderRow
<1>. QED
  BY <1>2, <1>6

\* A process goes back to idle.
LEMMA DoneType ==
  ASSUME TypeOK, NEW p \in Processes, Done(p)
  PROVE  /\ pc' \in [Processes -> PCs] /\ pc'[p] = "idle"
         /\ \A x \in Processes \ {p} : pc'[x] = pc[x] /\ job'[x] = job[x]
         /\ job' \in [Processes -> [row : Rows \cup {None}, form : Refund \cup {None},
                                    answer : States \cup {None}]]
<1>1. NoJob \in [row : Rows \cup {None}, form : Refund \cup {None}, answer : States \cup {None}]
  BY DEF NoJob
<1>. QED
  BY <1>1 DEF TypeOK, Done, Goto, PCs

\* A process starts on a row that exists.
LEMMA BeginStep ==
  ASSUME RefundInv, NEW p \in Processes, NEW label \in PCs,
         NEW j \in [row : Rows \cup {None}, form : Refund \cup {None},
                    answer : States \cup {None}],
         Begin(p, j, label),
         label \in {"apply", "answer", "pay"} => j.row \in Taken,
         label = "answer" => j.answer \in States
  PROVE  RefundInv'
<1>0. TypeOK /\ PaidOnce /\ JobsHoldRows /\ MaxStarts \in Nat
  BY RefundAssumption DEF RefundInv
<1>1. /\ pc' \in [Processes -> PCs] /\ pc'[p] = label
      /\ job' \in [Processes -> [row : Rows \cup {None}, form : Refund \cup {None},
                                 answer : States \cup {None}]]
      /\ job'[p] = j
      /\ \A x \in Processes \ {p} : pc'[x] = pc[x] /\ job'[x] = job[x]
      /\ starts' \in 0..MaxStarts
      /\ UNCHANGED <<order, item, refunds, moved, unasked>>
  BY <1>0 DEF TypeOK, Begin, Goto
<1>2. TypeOK'
  BY <1>0, <1>1 DEF TypeOK
<1>3. PaidOnce'
  BY <1>0, <1>1 DEF PaidOnce
<1>4. JobsHoldRows'
  BY <1>0, <1>1 DEF JobsHoldRows, Taken
<1>. QED
  BY <1>2, <1>3, <1>4 DEF RefundInv
-----------------------------------------------------------------------------

\* An operation begins: what it holds fits its first statement.
LEMMA StartStep ==
  ASSUME RefundInv, NEW p \in Processes, Start(p)
  PROVE  RefundInv'
<1>. USE DEF PCs, States, NoJob
<1>1. CASE StartCreate(p)
  <2>1. PICK a \in Amounts, rev \in 0..MaxUnits, u \in 0..MaxUnits :
          Begin(p, [NoJob EXCEPT !.form =
                      [amount |-> a, reversed |-> rev, units |-> u,
                       state |-> "PENDING", executed |-> FALSE]], "insert")
    BY <1>1 DEF StartCreate
  <2>. DEFINE f == [amount |-> a, reversed |-> rev, units |-> u,
                    state |-> "PENDING", executed |-> FALSE]
  <2>2. f \in Refund
    BY RefundAssumption DEF Refund, Amounts
  <2>. HIDE DEF f
  <2>3. Begin(p, [NoJob EXCEPT !.form = f], "insert")
    BY <2>1 DEF f
  <2>. QED
    BY <2>2, <2>3, BeginStep
<1>2. CASE StartApprove(p)
  <2>1. PICK r \in Taken, label \in {"apply", "answer"} :
          Begin(p, [NoJob EXCEPT !.row = r, !.answer = "APPROVED"], label)
    BY <1>2 DEF StartApprove, Pending
  <2>. QED
    BY <2>1, BeginStep DEF Taken
<1>3. CASE StartReject(p)
  <2>1. PICK r \in Taken :
          Begin(p, [NoJob EXCEPT !.row = r, !.answer = "REJECTED"], "answer")
    BY <1>3 DEF StartReject, Pending
  <2>. QED
    BY <2>1, BeginStep DEF Taken
<1>4. CASE StartExpire(p)
  <2>1. PICK r \in Taken :
          Begin(p, [NoJob EXCEPT !.row = r, !.answer = "EXPIRED"], "answer")
    BY <1>4 DEF StartExpire, Pending
  <2>. QED
    BY <2>1, BeginStep DEF Taken
<1>5. CASE StartExecute(p)
  <2>1. PICK r \in Taken : Begin(p, [NoJob EXCEPT !.row = r], "pay")
    BY <1>5 DEF StartExecute
  <2>. QED
    BY <2>1, BeginStep DEF Taken
<1>6. CASE StartUpdate(p) \/ StartUpdateItem(p) \/ StartRemoveItem(p)
  <2>1. PICK label \in {"update", "updateItem", "removeItem"} : Begin(p, NoJob, label)
    BY <1>6 DEF StartUpdate, StartUpdateItem, StartRemoveItem
  <2>. QED
    BY <2>1, BeginStep
<1>. QED
  BY <1>1, <1>2, <1>3, <1>4, <1>5, <1>6 DEF Start

\* A step that ends the operation of p keeps what the others hold.
LEMMA KeepRows ==
  ASSUME RefundInv, NEW p \in Processes, Done(p),
         \A r \in Taken : refunds'[r] # None
  PROVE  JobsHoldRows'
<1>1. \A x \in Processes : pc'[x] \in {"apply", "answer", "pay"} =>
        x # p /\ pc'[x] = pc[x] /\ job'[x] = job[x]
  BY DoneType DEF RefundInv
<1>. QED
  BY <1>1 DEF RefundInv, JobsHoldRows, Taken

\* A step that applies row r to the order, marks it executed, and moves cash for
\* it only if it had moved none.
LEMMA ApplyStep ==
  ASSUME RefundInv, NEW p \in Processes, Done(p), UNCHANGED <<unasked, starts>>,
         NEW r \in Rows, NEW new \in Refund, new.executed,
         refunds[r] \in Refund, ApplyToOrder(refunds[r]),
         refunds' = [refunds EXCEPT ![r] = new],
         \/ moved' = moved
         \/ moved[r] = 0 /\ moved' = [moved EXCEPT ![r] = @ + 1]
  PROVE  RefundInv'
<1>0. /\ TypeOK /\ PaidOnce /\ JobsHoldRows /\ new # None
      /\ refunds \in [Rows -> Refund \cup {None}] /\ moved \in [Rows -> Nat]
  BY RefundAssumption DEF RefundInv, TypeOK
<1>1. refunds' \in [Rows -> Refund \cup {None}] /\ moved' \in [Rows -> Nat]
  BY <1>0
<1>2. TypeOK'
  BY <1>0, <1>1, ApplyType, DoneType DEF TypeOK
<1>3. PaidOnce'
  BY <1>0 DEF PaidOnce
<1>4. \A x \in Taken : refunds'[x] # None
  BY <1>0 DEF Taken
<1>. QED
  BY <1>2, <1>3, <1>4, KeepRows DEF RefundInv

\* What an item is worth is a number.
LEMMA RewrittenType ==
  ASSUME TypeOK, NEW i \in Item \cup {None}, NEW status \in Statuses, Rewritten(i, status)
  PROVE  order' \in OrderRow /\ item' \in Item \cup {None}
<1>1. order \in OrderRow /\ OtherItems \in Nat
  BY RefundAssumption DEF TypeOK
<1>2. Worth(i) \in Int
  <2>1. CASE i = None
    BY <1>1, <2>1 DEF Worth
  <2>2. CASE i # None
    <3>1. i.quantity \in Nat
      BY <2>2 DEF Item
    <3>. QED
      BY <1>1, <2>2, <3>1 DEF Worth
  <2>. QED
    BY <2>1, <2>2
<1>3. PICK worth \in Int : worth = Worth(i)
  BY <1>2
<1>4. item' = i /\ order' = [order EXCEPT !.total = worth, !.status = status]
  BY <1>3 DEF Rewritten
<1>. QED
  BY <1>1, <1>4 DEF OrderRow

\* An edit writes what an item or nothing is worth.
LEMMA EditRewrites ==
  ASSUME TypeOK, NEW p \in Processes, Update(p) \/ UpdateItem(p) \/ RemoveItem(p)
  PROVE  /\ \E i \in Item \cup {None}, status \in Statuses : Rewritten(i, status)
         /\ Done(p) /\ UNCHANGED <<refunds, moved, starts>> /\ unasked' \in BOOLEAN
<1>0. /\ item \in Item \cup {None} /\ order.status \in Statuses /\ unasked \in BOOLEAN
      /\ MaxUnits \in Nat
  BY RefundAssumption DEF TypeOK, OrderRow
<1>1. ASSUME item # None, NEW q \in 1..MaxUnits
      PROVE  [item EXCEPT !.quantity = q] \in Item
  BY <1>0, <1>1 DEF Item
<1>2. CASE Update(p)
  <2>1. PICK status \in Statuses :
          \/ Rewritten(item, status)
          \/ /\ item # None
             /\ \E q \in 1..MaxUnits :
                  q >= item.annulled /\ Rewritten([item EXCEPT !.quantity = q], status)
          \/ item # None /\ item.annulled = 0 /\ Rewritten(None, status)
    BY <1>2 DEF Update
  <2>. QED
    BY <1>0, <1>1, <1>2, <2>1 DEF Update
<1>3. CASE UpdateItem(p)
  BY <1>0, <1>1, <1>3 DEF UpdateItem, Unasked
<1>4. CASE RemoveItem(p)
  BY <1>0, <1>4 DEF RemoveItem, Unasked
<1>. QED
  BY <1>2, <1>3, <1>4

\* A running operation takes a step.
LEMMA EndStep ==
  ASSUME RefundInv, NEW p \in Processes, Step(p)
  PROVE  RefundInv'
<1>0. /\ TypeOK /\ PaidOnce /\ JobsHoldRows /\ None \notin Rows \cup Refund
      /\ refunds \in [Rows -> Refund \cup {None}] /\ moved \in [Rows -> Nat]
  BY RefundAssumption DEF RefundInv, TypeOK
<1>1. CASE InsertRequest(p)
  <2>0. Done(p) /\ UNCHANGED <<order, item, moved, unasked, starts>>
    BY <1>1 DEF InsertRequest
  <2>1. CASE UNCHANGED refunds
    <3>1. TypeOK' /\ PaidOnce'
      BY <1>0, <2>0, <2>1, DoneType DEF TypeOK, PaidOnce
    <3>. QED
      BY <2>0, <2>1, <3>1, KeepRows DEF RefundInv, Taken
  <2>2. CASE \E r \in Rows : Fresh(r) /\ refunds' = [refunds EXCEPT ![r] = job[p].form]
    <3>1. PICK r \in Rows : Fresh(r) /\ refunds' = [refunds EXCEPT ![r] = job[p].form]
      BY <2>2
    <3>2. refunds[r] = None /\ moved[r] # 1
      BY <1>0, <3>1 DEF Fresh, Taken, PaidOnce
    <3>3. job[p].form \in Refund \cup {None}
      BY <1>0 DEF TypeOK
    <3>4. refunds' \in [Rows -> Refund \cup {None}]
      BY <1>0, <3>1, <3>3
    <3>5. TypeOK'
      BY <1>0, <2>0, <3>4, DoneType DEF TypeOK
    <3>6. PaidOnce'
      BY <1>0, <2>0, <3>1, <3>2 DEF PaidOnce
    <3>7. \A x \in Taken : refunds'[x] # None
      BY <1>0, <3>1, <3>2 DEF Taken
    <3>. QED
      BY <2>0, <3>5, <3>6, <3>7, KeepRows DEF RefundInv
  <2>. QED
    BY <1>1, <2>1, <2>2 DEF InsertRequest
<1>2. CASE Answer(p)
  <2>. DEFINE r == job[p].row
  <2>0. /\ Done(p) /\ UNCHANGED <<order, item, moved, unasked, starts>>
        /\ refunds' = [refunds EXCEPT ![r].state = job[p].answer]
        /\ pc[p] = "answer"
    BY <1>2 DEF Answer
  <2>1. r \in Rows /\ refunds[r] \in Refund /\ job[p].answer \in States
    BY <1>0, <2>0 DEF JobsHoldRows, Taken
  <2>2. /\ [refunds[r] EXCEPT !.state = job[p].answer] \in Refund
        /\ [refunds[r] EXCEPT !.state = job[p].answer].executed = refunds[r].executed
    BY <2>1 DEF Refund
  <2>3. refunds' \in [Rows -> Refund \cup {None}]
    BY <1>0, <2>0, <2>1, <2>2
  <2>4. TypeOK'
    BY <1>0, <2>0, <2>3, DoneType DEF TypeOK
  <2>5. PaidOnce'
    BY <1>0, <2>0, <2>1, <2>2 DEF PaidOnce
  <2>6. \A x \in Taken : refunds'[x] # None
    BY <1>0, <2>0, <2>1, <2>2 DEF Taken
  <2>. QED
    BY <2>0, <2>4, <2>5, <2>6, KeepRows DEF RefundInv
<1>3. CASE ApproveAndApply(p)
  <2>. DEFINE r == job[p].row
              new == [refunds[r] EXCEPT !.state = "APPROVED", !.executed = TRUE]
  <2>0. /\ Done(p) /\ UNCHANGED <<moved, unasked, starts>>
        /\ refunds' = [refunds EXCEPT ![r] = new]
        /\ pc[p] = "apply" /\ ApplyToOrder(refunds[r])
    BY <1>3 DEF ApproveAndApply
  <2>1. r \in Rows /\ refunds[r] \in Refund
    BY <1>0, <2>0 DEF JobsHoldRows, Taken
  <2>2. new \in Refund /\ new.executed
    BY <2>1 DEF Refund, States
  <2>. QED
    BY <1>0, <2>0, <2>1, <2>2, ApplyStep
<1>4. CASE Pay(p)
  <2>. DEFINE r == job[p].row
              new == [refunds[r] EXCEPT !.executed = TRUE]
  <2>0. /\ Done(p) /\ UNCHANGED <<unasked, starts>>
        /\ refunds' = [refunds EXCEPT ![r] = new]
        /\ moved' = [moved EXCEPT ![r] = @ + 1]
        /\ pc[p] = "pay" /\ ~refunds[r].executed /\ ApplyToOrder(refunds[r])
    BY <1>4 DEF Pay
  <2>1. r \in Rows /\ refunds[r] \in Refund /\ moved[r] # 1
    BY <1>0, <2>0 DEF JobsHoldRows, Taken, PaidOnce
  <2>2. new \in Refund /\ new.executed
    BY <2>1 DEF Refund
  <2>3. moved[r] = 0
    BY <1>0, <2>1 DEF PaidOnce
  <2>. QED
    BY <1>0, <2>0, <2>1, <2>2, <2>3, ApplyStep
<1>5. CASE Abort(p)
  <2>0. Done(p) /\ UNCHANGED <<order, item, refunds, moved, unasked, starts>>
    BY <1>5 DEF Abort
  <2>1. TypeOK' /\ PaidOnce'
    BY <1>0, <2>0, DoneType DEF TypeOK, PaidOnce
  <2>2. \A x \in Taken : refunds'[x] # None
    BY <2>0 DEF Taken
  <2>. QED
    BY <2>0, <2>1, <2>2, KeepRows DEF RefundInv
<1>6. CASE Update(p) \/ UpdateItem(p) \/ RemoveItem(p)
  <2>1. /\ Done(p) /\ UNCHANGED <<refunds, moved, starts>> /\ unasked' \in BOOLEAN
        /\ order' \in OrderRow /\ item' \in Item \cup {None}
    BY <1>0, <1>6, EditRewrites, RewrittenType
  <2>2. TypeOK' /\ PaidOnce'
    BY <1>0, <2>1, DoneType DEF TypeOK, PaidOnce
  <2>3. \A x \in Taken : refunds'[x] # None
    BY <2>1 DEF Taken
  <2>. QED
    BY <2>1, <2>2, <2>3, KeepRows DEF RefundInv
<1>. QED
  BY <1>1, <1>2, <1>3, <1>4, <1>5, <1>6 DEF Step
-----------------------------------------------------------------------------
\* What the rest of the system does leaves the requests alone.
LEMMA OutsideStep ==
  ASSUME RefundInv, PaymentsMove \/ Confirm \/ AnnulOrder
  PROVE  RefundInv'
<1>0. /\ TypeOK /\ PaidOnce /\ JobsHoldRows /\ MaxPaid \in Nat /\ order \in OrderRow
  BY RefundAssumption DEF RefundInv, TypeOK
<1>1. UNCHANGED <<item, refunds, moved, unasked, pc, job, starts>>
  BY DEF PaymentsMove, Confirm, AnnulOrder
<1>2. order' \in OrderRow
  <2>1. CASE PaymentsMove
    <3>1. PICK paid \in 0..MaxPaid : order' = [order EXCEPT !.paid = paid]
      BY <2>1 DEF PaymentsMove
    <3>. QED
      BY <1>0, <3>1 DEF OrderRow
  <2>2. CASE Confirm
    BY <1>0, <2>2 DEF Confirm, OrderRow, Statuses
  <2>3. CASE AnnulOrder
    <3>1. PICK retained \in 0..ComputeMaxRetainableOnAnnul(order) :
            order' = [order EXCEPT !.status = "ANULADO",
                                   !.reversed = order.total - retained]
      BY <2>3 DEF AnnulOrder
    <3>2. order.total - retained \in Int
      BY <1>0, <3>1 DEF OrderRow
    <3>. QED
      BY <1>0, <3>1, <3>2 DEF OrderRow, Statuses
  <2>. QED
    BY <2>1, <2>2, <2>3
<1>3. TypeOK'
  BY <1>0, <1>1, <1>2 DEF TypeOK
<1>4. PaidOnce' /\ JobsHoldRows'
  BY <1>0, <1>1 DEF PaidOnce, JobsHoldRows, Taken
<1>. QED
  BY <1>3, <1>4 DEF RefundInv

\* Every step of the system preserves the invariant.
LEMMA RefundStep ==
  ASSUME RefundInv, [Next]_vars
  PROVE  RefundInv'
<1>1. CASE \E p \in Processes : Start(p) \/ Step(p)
  BY <1>1, StartStep, EndStep
<1>2. CASE PaymentsMove \/ Confirm \/ AnnulOrder
  BY <1>2, OutsideStep
<1>3. CASE UNCHANGED vars
  BY <1>3 DEF vars, RefundInv, TypeOK, PaidOnce, JobsHoldRows, Taken
<1>. QED
  BY <1>1, <1>2, <1>3 DEF Next

\* The requests start empty.
LEMMA RefundInit == Init => RefundInv
<1>. SUFFICES ASSUME Init PROVE RefundInv
  OBVIOUS
<1>1. order \in OrderRow /\ item \in Item
  BY RefundAssumption DEF Init, OrderRow, Item, Statuses
<1>2. NoJob \in [row : Rows \cup {None}, form : Refund \cup {None}, answer : States \cup {None}]
  BY DEF NoJob
<1>3. TypeOK
  <2>1. /\ refunds \in [Rows -> Refund \cup {None}] /\ moved \in [Rows -> Nat]
        /\ starts \in 0..MaxStarts
    BY RefundAssumption DEF Init
  <2>2. unasked \in BOOLEAN
    BY DEF Init
  <2>3. pc \in [Processes -> PCs]
    BY DEF Init, PCs
  <2>. QED
    BY <1>1, <1>2, <2>1, <2>2, <2>3 DEF Init, TypeOK
<1>4. PaidOnce /\ JobsHoldRows
  BY DEF Init, PaidOnce, JobsHoldRows
<1>. QED
  BY <1>3, <1>4 DEF RefundInv

\* The invariant that PaidOnce rests on, for any number of requests and cashiers.
THEOREM RefundCorrect == Spec => []RefundInv
BY RefundInit, RefundStep, PTL DEF Spec

\* A refund leaves the drawer at most once (execute, approveAndApply).
THEOREM RefundPaidOnce == Spec => []PaidOnce
<1>1. RefundInv => PaidOnce
  BY DEF RefundInv
<1>. QED
  BY <1>1, RefundCorrect, PTL

-----------------------------------------------------------------------------
\* A row that exists is a request.
LEMMA TakenRows ==
  ASSUME RefundInv
  PROVE  \A r \in Taken : r \in Rows /\ refunds[r] \in Refund /\ refunds[r] # None
BY DEF RefundInv, TypeOK, Taken

\* A refund takes units of an item that has them.
LEMMA ApplyUnits ==
  ASSUME RefundInv, NEW f \in Refund, ApplyToOrder(f)
  PROVE  /\ f.units \in Nat
         /\ f.units = 0 => item' = item
         /\ f.units > 0 => /\ item \in Item /\ item' \in Item /\ item # None /\ item' # None
                          /\ item'.annulled = item.annulled + f.units
                          /\ item'.quantity = item.quantity
                          /\ item'.annulled <= item'.quantity
<1>1. /\ f.units \in Nat /\ item \in Item \cup {None} /\ None \notin Item
  BY RefundAssumption DEF RefundInv, TypeOK, Refund
<1>2. f.units = 0 => item' = item
  BY DEF ApplyToOrder, Annulled
<1>3. ASSUME f.units > 0
      PROVE  /\ item \in Item /\ f.units <= item.quantity - item.annulled
             /\ item' = [item EXCEPT !.annulled = item.annulled + f.units]
  BY <1>1, <1>3 DEF ApplyToOrder, Viable, Alive, Annulled
<1>4. ASSUME f.units > 0
      PROVE  /\ item' \in Item /\ item'.annulled = item.annulled + f.units
             /\ item'.quantity = item.quantity /\ item'.annulled <= item'.quantity
  BY <1>1, <1>3, <1>4 DEF Item
<1>. QED
  BY <1>1, <1>2, <1>3, <1>4

\* Nobody else takes units, and an operation that has just ended holds no form.
LEMMA AnnulKept ==
  ASSUME RefundInv, AnnulInv, UNCHANGED <<item, refunds, unasked>>,
         \A p \in Processes : pc'[p] = "insert" =>
            \/ pc[p] = "insert" /\ job'[p] = job[p]
            \/ job'[p].form # None /\ job'[p].form.executed = FALSE
  PROVE  AnnulInv'
BY DEF AnnulInv, Taken

\* A process that starts: a form is one nobody has paid.
LEMMA StartAnnul ==
  ASSUME RefundInv, AnnulInv, NEW p \in Processes, Start(p)
  PROVE  AnnulInv'
<1>1. PICK j, label :
        /\ Begin(p, j, label)
        /\ label = "insert" => j.form # None /\ j.form.executed = FALSE
  <2>1. CASE StartCreate(p)
    <3>1. PICK a \in Amounts, rev \in 0..MaxUnits, u \in 0..MaxUnits :
            Begin(p, [NoJob EXCEPT !.form =
                        [amount |-> a, reversed |-> rev, units |-> u,
                         state |-> "PENDING", executed |-> FALSE]], "insert")
      BY <2>1 DEF StartCreate
    <3>2. PICK f : f = [amount |-> a, reversed |-> rev, units |-> u,
                        state |-> "PENDING", executed |-> FALSE]
      OBVIOUS
    <3>3. f # None /\ f.executed = FALSE
      <4>1. f \in Refund
        BY <3>2, RefundAssumption DEF Refund, Amounts, States
      <4>. QED
        BY <3>2, <4>1, RefundAssumption
    <3>4. PICK j : j = [NoJob EXCEPT !.form = f]
      OBVIOUS
    <3>5. j.form = f
      BY <3>4 DEF NoJob
    <3>. QED
      BY <3>1, <3>2, <3>3, <3>4, <3>5
  <2>2. CASE StartApprove(p)
    BY <2>2 DEF StartApprove
  <2>3. CASE StartReject(p)
    BY <2>3 DEF StartReject
  <2>4. CASE StartExpire(p)
    BY <2>4 DEF StartExpire
  <2>5. CASE StartExecute(p)
    BY <2>5 DEF StartExecute
  <2>6. CASE StartUpdate(p) \/ StartUpdateItem(p) \/ StartRemoveItem(p)
    BY <2>6 DEF StartUpdate, StartUpdateItem, StartRemoveItem
  <2>. QED
    BY <2>1, <2>2, <2>3, <2>4, <2>5, <2>6 DEF Start
<1>2. /\ UNCHANGED <<item, refunds, unasked>> /\ pc'[p] = label /\ job'[p] = j
      /\ \A x \in Processes \ {p} : pc'[x] = pc[x] /\ job'[x] = job[x]
  BY <1>1 DEF Begin, Goto, RefundInv, TypeOK
<1>. QED
  BY <1>1, <1>2, AnnulKept

\* A step of an operation ends it.
LEMMA DoneForms ==
  ASSUME RefundInv, AnnulInv, NEW p \in Processes, Done(p)
  PROVE  \A x \in Processes : pc'[x] = "insert" =>
           /\ pc[x] = "insert" /\ job'[x] = job[x]
           /\ job'[x].form # None /\ job'[x].form.executed = FALSE
BY DoneType DEF RefundInv, AnnulInv

\* A request paid or approved: the units it takes are the item's.
LEMMA ApplyAnnul ==
  ASSUME RefundInv, AnnulInv, NEW p \in Processes, ApproveAndApply(p) \/ Pay(p)
  PROVE  AnnulInv'
<1>1. PICK r \in Taken : r = job[p].row /\ ApplyToOrder(refunds[r]) /\ Done(p)
                         /\ unasked' = unasked
  BY DEF ApproveAndApply, Pay, RefundInv, JobsHoldRows
<1>2. r \in Rows /\ refunds[r] \in Refund
  BY TakenRows
<1>3. PICK f \in Refund : f = refunds[r]
  BY <1>2
<1>4. PICK new : new.units = f.units /\ refunds' = [refunds EXCEPT ![r] = new]
  <2>1. PICK a : a = [f EXCEPT !.state = "APPROVED", !.executed = TRUE]
    OBVIOUS
  <2>2. PICK b : b = [f EXCEPT !.executed = TRUE]
    OBVIOUS
  <2>3. a.units = f.units /\ b.units = f.units
    BY <2>1, <2>2 DEF Refund
  <2>4. refunds' = [refunds EXCEPT ![r] = a] \/ refunds' = [refunds EXCEPT ![r] = b]
    BY <1>1, <1>2, <1>3, <2>1, <2>2 DEF ApproveAndApply, Pay, RefundInv, TypeOK
  <2>. QED
    BY <2>3, <2>4
<1>5. /\ refunds'[r].units = f.units /\ \A x \in Rows \ {r} : refunds'[x] = refunds[x]
  BY <1>2, <1>4 DEF RefundInv, TypeOK
<1>6. item \in Item => item.annulled \in Nat
  BY DEF Item
<1>7. ~unasked' =>
        /\ (\E x \in Taken' : refunds'[x].executed /\ refunds'[x].units > 0)
             => item' # None /\ item'.annulled > 0
        /\ item' # None => item'.annulled <= item'.quantity
  <2>1. CASE f.units > 0
    <3>1. item' # None /\ item'.annulled > 0 /\ item'.annulled <= item'.quantity
      BY <1>1, <1>3, <1>6, <2>1, ApplyUnits
    <3>. QED
      BY <3>1
  <2>2. CASE f.units = 0
    <3>1. item' = item
      BY <1>1, <1>3, <2>2, ApplyUnits
    <3>2. \A x \in Taken' : refunds'[x].executed /\ refunds'[x].units > 0 =>
            x \in Taken /\ refunds[x].executed /\ refunds[x].units > 0
      BY <1>5, <2>2 DEF Taken
    <3>. QED
      BY <1>1, <3>1, <3>2 DEF AnnulInv
  <2>. QED
    BY <1>1, <1>3, <2>1, <2>2, ApplyUnits
<1>. QED
  BY <1>1, <1>7, DoneForms DEF AnnulInv

\* An edit: update() keeps what was annulled; the others do it without asking only if
\* nothing was.
LEMMA EditAnnul ==
  ASSUME RefundInv, AnnulInv, NEW p \in Processes, Update(p) \/ UpdateItem(p) \/ RemoveItem(p)
  PROVE  AnnulInv'
<1>1. Done(p) /\ UNCHANGED refunds /\ item \in Item \cup {None}
  BY DEF Update, UpdateItem, RemoveItem, RefundInv, TypeOK
<1>2. item # None => item \in Item /\ item.annulled \in Nat /\ item.quantity \in Nat
  BY <1>1 DEF Item
<1>3. (item' = item /\ unasked' = unasked)
      \/ (item # None /\ ~unasked' => /\ ~unasked
                                     /\ \/ item.annulled = 0 /\ item' = None
                                        \/ \E q \in 1..MaxUnits : q >= item.annulled
                                             /\ item' = [item EXCEPT !.quantity = q])
  <2>1. CASE Update(p)
    BY <2>1 DEF Update, Rewritten
  <2>2. CASE UpdateItem(p)
    <3>1. PICK q \in 1..MaxUnits : item' = [item EXCEPT !.quantity = q]
      BY <2>2 DEF UpdateItem, Rewritten
    <3>2. item # None /\ (~unasked' => ~unasked /\ ~(item.annulled > 0))
      BY <2>2, Zenon DEF UpdateItem, Unasked
    <3>3. ~(item.annulled > 0) => q >= item.annulled
      BY <1>2, <3>2, RefundAssumption
    <3>. QED
      BY <3>1, <3>2, <3>3
  <2>3. CASE RemoveItem(p)
    <3>1. item # None /\ item' = None /\ (~unasked' => ~unasked /\ ~(item.annulled > 0))
      BY <2>3, Zenon DEF RemoveItem, Rewritten, Unasked
    <3>. QED
      BY <1>2, <3>1
  <2>. QED
    BY <2>1, <2>2, <2>3
<1>4. CASE item' = item /\ unasked' = unasked
  BY <1>1, <1>4, DoneForms, AnnulKept
<1>5. CASE ~(item' = item /\ unasked' = unasked)
  <2>0. item # None
    BY <1>5 DEF Update, UpdateItem, RemoveItem, Rewritten
  <2>1. ASSUME ~unasked', NEW q \in 1..MaxUnits, q >= item.annulled,
               item' = [item EXCEPT !.quantity = q]
        PROVE  item' # None /\ item'.annulled = item.annulled /\ item'.annulled <= item'.quantity
    <3>1. item' \in Item
      BY <1>2, <2>0, <2>1, RefundAssumption DEF Item
    <3>2. item'.annulled = item.annulled /\ item'.quantity = q
      BY <1>2, <2>0, <2>1 DEF Item
    <3>. QED
      BY <2>1, <3>1, <3>2, RefundAssumption
  <2>2. ASSUME ~unasked', \E r \in Taken : refunds[r].executed /\ refunds[r].units > 0
        PROVE  item.annulled > 0
    BY <1>3, <1>5, <2>0, <2>2 DEF AnnulInv
  <2>3. ~unasked' =>
          /\ (\E r \in Taken' : refunds'[r].executed /\ refunds'[r].units > 0)
               => item' # None /\ item'.annulled > 0
          /\ item' # None => item'.annulled <= item'.quantity
    BY <1>1, <1>2, <1>3, <1>5, <2>0, <2>1, <2>2 DEF Taken
  <2>. QED
    BY <1>1, <2>3, DoneForms DEF AnnulInv
<1>. QED
  BY <1>4, <1>5

\* A review and a new request: neither is paid.
LEMMA RowAnnul ==
  ASSUME RefundInv, AnnulInv, NEW p \in Processes, Answer(p) \/ InsertRequest(p)
  PROVE  AnnulInv'
<1>1. Done(p) /\ UNCHANGED <<item, unasked>>
  BY DEF Answer, InsertRequest
<1>2. CASE Answer(p)
  <2>1. PICK r \in Taken : r = job[p].row
    BY <1>2 DEF Answer, RefundInv, JobsHoldRows
  <2>2. refunds[r] \in Refund /\ r \in Rows
    BY TakenRows
  <2>3. PICK new : new = [refunds[r] EXCEPT !.state = job[p].answer]
    OBVIOUS
  <2>4. new.executed = refunds[r].executed /\ new.units = refunds[r].units
    BY <2>2, <2>3 DEF Refund
  <2>5. refunds' = [refunds EXCEPT ![r] = new]
    BY <1>2, <2>1, <2>3 DEF Answer
  <2>6. \A x \in Taken' : x \in Taken /\ refunds'[x].executed = refunds[x].executed
                                    /\ refunds'[x].units = refunds[x].units
    BY <2>1, <2>2, <2>4, <2>5 DEF Taken, RefundInv, TypeOK
  <2>. QED
    BY <1>1, <2>6, DoneForms DEF AnnulInv
<1>3. CASE InsertRequest(p)
  <2>1. CASE UNCHANGED refunds
    BY <1>1, <2>1, DoneForms, AnnulKept
  <2>2. CASE \E r \in Rows : Fresh(r) /\ refunds' = [refunds EXCEPT ![r] = job[p].form]
    <3>1. PICK r \in Rows : Fresh(r) /\ refunds' = [refunds EXCEPT ![r] = job[p].form]
      BY <2>2
    <3>2. job[p].form.executed = FALSE
      BY <1>3 DEF InsertRequest, AnnulInv
    <3>3. \A x \in Taken' : refunds'[x].executed => x \in Taken /\ refunds'[x] = refunds[x]
      BY <3>1, <3>2 DEF Taken, RefundInv, TypeOK
    <3>. QED
      BY <1>1, <3>3, DoneForms DEF AnnulInv
  <2>. QED
    BY <1>3, <2>1, <2>2 DEF InsertRequest
<1>. QED
  BY <1>2, <1>3

\* Every step of the system.
LEMMA AnnulStep ==
  ASSUME RefundInv, AnnulInv, [Next]_vars
  PROVE  AnnulInv'
<1>1. ASSUME NEW p \in Processes, Step(p)
      PROVE  AnnulInv'
  <2>1. CASE Abort(p)
    <3>1. Done(p) /\ UNCHANGED <<item, refunds, unasked>>
      BY <2>1 DEF Abort
    <3>. QED
      BY <3>1, DoneForms, AnnulKept
  <2>. QED
    BY <1>1, <2>1, ApplyAnnul, EditAnnul, RowAnnul DEF Step
<1>2. CASE PaymentsMove \/ Confirm \/ AnnulOrder \/ UNCHANGED vars
  <2>1. UNCHANGED <<item, refunds, unasked, pc, job>>
    BY <1>2 DEF PaymentsMove, Confirm, AnnulOrder, vars
  <2>. QED
    BY <2>1, AnnulKept
<1>. QED
  BY <1>1, <1>2, StartAnnul DEF Next

\* Only a refund takes units from an item.
LEMMA UnitsStep ==
  ASSUME RefundInv, [Next]_vars, item # None, item' # None, item'.annulled > item.annulled
  PROVE  item'.annulled <= item'.quantity
<1>1. item \in Item /\ item.annulled \in Nat
  BY DEF RefundInv, TypeOK, Item
<1>2. ASSUME NEW p \in Processes, ApproveAndApply(p) \/ Pay(p)
      PROVE  item'.annulled <= item'.quantity
  <2>1. PICK f \in Refund : ApplyToOrder(f)
    BY <1>2, TakenRows DEF ApproveAndApply, Pay, RefundInv, JobsHoldRows
  <2>. QED
    BY <1>1, <2>1, ApplyUnits
<1>3. \A q : [item EXCEPT !.quantity = q].annulled = item.annulled
  BY <1>1 DEF Item
<1>4. ASSUME NEW p \in Processes, Update(p) \/ UpdateItem(p) \/ RemoveItem(p)
      PROVE  FALSE
  <2>1. \/ item' = item \/ item' = None
        \/ \E q \in 1..MaxUnits : item' = [item EXCEPT !.quantity = q]
    BY <1>4 DEF Update, UpdateItem, RemoveItem, Rewritten
  <2>2. item'.annulled = item.annulled
    BY <1>3, <2>1
  <2>. QED
    BY <1>1, <2>2
<1>5. \/ item' = item
      \/ \E p \in Processes : \/ ApproveAndApply(p) \/ Pay(p)
                              \/ Update(p) \/ UpdateItem(p) \/ RemoveItem(p)
  BY DEF Next, vars, Start, StartCreate, StartApprove, StartReject, StartExpire,
         StartExecute, StartUpdate, StartUpdateItem, StartRemoveItem, Begin, Step,
         InsertRequest, Answer, Abort, PaymentsMove, Confirm, AnnulOrder
<1>. QED
  BY <1>1, <1>2, <1>4, <1>5

\* No refund takes an item beyond its units, and until updateItem or removeItem is used on
\* an item with annulled units every annulment has an item that explains it
\* (assertRefundStillViable, update()).
THEOREM AnnulledStaysWithinItem == Spec => AnnulledWithinItem
<1>. DEFINE Within == (item # None /\ item' # None /\ item'.annulled > item.annulled)
                         => item'.annulled <= item'.quantity
            Explained == ~unasked => AnnulmentsExplained
<1>1. Init => AnnulInv
  BY RefundAssumption DEF Init, AnnulInv, Taken
<1>2. RefundInv /\ AnnulInv /\ [Next]_vars => AnnulInv'
  BY AnnulStep
<1>3. AnnulInv => Explained
  BY DEF AnnulInv, AnnulmentsExplained
<1>4. RefundInv /\ [Next]_vars => [Within]_vars
  BY UnitsStep
<1>5. AnnulledWithinItem <=> ([]Explained /\ [][Within]_vars)
  BY DEF AnnulledWithinItem
<1>. HIDE DEF Within, Explained
<1>. QED
  BY <1>1, <1>2, <1>3, <1>4, <1>5, RefundCorrect, PTL DEF Spec
-----------------------------------------------------------------------------
\* What leaves the drawer for a request is a number.
LEMMA PayoutType ==
  \A n \in Nat, row \in Refund \cup {None} :
    (IF row = None THEN 0 ELSE n * row.amount) \in Int
<1> SUFFICES ASSUME NEW n \in Nat, NEW row \in Refund, row # None
             PROVE  n * row.amount \in Int
  OBVIOUS
<1>1. row.amount \in Nat
  BY DEF Refund
<1>. QED
  BY <1>1

\* One request at most is paid in a step, and the order records as much.
LEMMA PaidOutChanges ==
  ASSUME RefundInv, RefundInv', RefundedIsWhatMoved, NEW r \in Rows,
         \A x \in Rows \ {r} : PaidOut(x)' = PaidOut(x),
         order'.refunded = order.refunded + PaidOut(r)' - PaidOut(r)
  PROVE  RefundedIsWhatMoved'
<1>1. PICK f : f = [x \in Rows |-> PaidOut(x)]
  OBVIOUS
<1>2. PICK g : g = [x \in Rows |-> PaidOut(x)']
  OBVIOUS
<1>3. \A x \in Rows : PaidOut(x) \in Int
  BY PayoutType DEF RefundInv, TypeOK, PaidOut
<1>4. \A x \in Rows : PaidOut(x)' \in Int
  BY PayoutType DEF RefundInv, TypeOK, PaidOut
<1>5. /\ IsFiniteSet(Rows) /\ \A x \in Rows : f[x] \in Int /\ g[x] \in Int
      /\ \A x \in Rows : x # r => g[x] = f[x]
  BY <1>1, <1>2, <1>3, <1>4, RefundAssumption
<1>6. SumFunctionOnSet(g, Rows) = SumFunctionOnSet(f, Rows) - f[r] + g[r]
  BY <1>5, SumChange
<1>7. SumFunctionOnSet(f, Rows) \in Int
  BY <1>5, SumType
<1>8. order.refunded = SumFunctionOnSet(f, Rows)
  BY <1>1 DEF RefundedIsWhatMoved, SumFunction
<1>9. order'.refunded = SumFunctionOnSet(g, Rows)
  BY <1>1, <1>2, <1>3, <1>4, <1>6, <1>7, <1>8
<1>. QED
  BY <1>2, <1>9 DEF RefundedIsWhatMoved, SumFunction

\* A step that pays nothing out.
LEMMA BooksUnmoved ==
  ASSUME RefundedIsWhatMoved, order'.refunded = order.refunded,
         \A x \in Rows : PaidOut(x)' = PaidOut(x)
  PROVE  RefundedIsWhatMoved'
<1>1. [x \in Rows |-> PaidOut(x)'] = [x \in Rows |-> PaidOut(x)]
  OBVIOUS
<1>. QED
  BY <1>1 DEF RefundedIsWhatMoved

\* A process that ends, on rows that keep their amounts.
LEMMA DoneFits ==
  ASSUME RefundInv, ReviewsFit, NEW p \in Processes, Done(p),
         \A r \in Taken : refunds'[r] = None \/ refunds'[r].amount = refunds[r].amount,
         \A r \in Taken : refunds'[r] # None
  PROVE  ReviewsFit'
<1>1. \A x \in Processes : pc'[x] \in {"apply", "answer"} =>
        x # p /\ pc'[x] = pc[x] /\ job'[x] = job[x]
  BY DoneType DEF RefundInv
<1>2. \A x \in Processes : pc[x] = "apply" => job[x].row \in Taken
  BY DEF RefundInv, JobsHoldRows
<1>. QED
  BY <1>1, <1>2 DEF ReviewsFit

\* A request that starts, on a row read just now.
LEMMA BeginBooks ==
  ASSUME RefundInv, BooksInv, NEW p \in Processes, NEW j, NEW label, Begin(p, j, label),
         label = "apply" => refunds[j.row].amount = 0,
         label = "answer" => j.answer # "PENDING"
  PROVE  BooksInv'
<1>1. UNCHANGED <<order, item, refunds, moved, unasked>>
  BY DEF Begin
<1>2. ReviewsFit'
  <2>1. /\ \A x \in Processes \ {p} : pc'[x] = pc[x] /\ job'[x] = job[x]
        /\ pc'[p] = label /\ job'[p] = j
    BY DEF Begin, Goto, RefundInv, TypeOK
  <2>. QED
    BY <1>1, <2>1 DEF BooksInv, ReviewsFit
<1>3. RefundedIsWhatMoved'
  BY <1>1 DEF BooksInv, RefundedIsWhatMoved, PaidOut
<1>4. (\A r, s \in Pending : r = s)'
  BY <1>1 DEF BooksInv, Pending, Taken
<1>. QED
  BY <1>2, <1>3, <1>4 DEF BooksInv

\* The reads and checks before each write.
LEMMA StartBooks ==
  ASSUME RefundInv, BooksInv, NEW p \in Processes, Start(p)
  PROVE  BooksInv'
<1>1. CASE StartCreate(p)
  <2>1. PICK j : Begin(p, j, "insert")
    BY <1>1 DEF StartCreate
  <2>. QED
    BY <2>1, BeginBooks
<1>2. CASE StartApprove(p)
  <2>1. PICK r \in Pending :
          Begin(p, [NoJob EXCEPT !.row = r, !.answer = "APPROVED"],
                IF refunds[r].amount = 0 THEN "apply" ELSE "answer")
    BY <1>2 DEF StartApprove
  <2>2. PICK j : j = [NoJob EXCEPT !.row = r, !.answer = "APPROVED"]
    OBVIOUS
  <2>3. PICK label : label = IF refunds[r].amount = 0 THEN "apply" ELSE "answer"
    OBVIOUS
  <2>4. j.row = r /\ j.answer = "APPROVED"
    BY <2>2 DEF NoJob
  <2>5. /\ label = "apply" => refunds[j.row].amount = 0
        /\ label = "answer" => j.answer # "PENDING"
    BY <2>3, <2>4
  <2>. QED
    BY <2>1, <2>2, <2>3, <2>5, BeginBooks
<1>3. ASSUME NEW r, NEW answer \in {"REJECTED", "EXPIRED"},
             Begin(p, [NoJob EXCEPT !.row = r, !.answer = answer], "answer")
      PROVE  BooksInv'
  <2>1. PICK j : j = [NoJob EXCEPT !.row = r, !.answer = answer]
    OBVIOUS
  <2>2. j.answer # "PENDING"
    BY <2>1 DEF NoJob
  <2>. QED
    BY <1>3, <2>1, <2>2, BeginBooks
<1>4. CASE StartReject(p)
  BY <1>3, <1>4 DEF StartReject
<1>5. CASE StartExpire(p)
  BY <1>3, <1>5 DEF StartExpire
<1>6. CASE StartExecute(p)
  <2>1. PICK j : Begin(p, j, "pay")
    BY <1>6 DEF StartExecute
  <2>. QED
    BY <2>1, BeginBooks
<1>7. CASE StartUpdate(p) \/ StartUpdateItem(p) \/ StartRemoveItem(p)
  <2>1. PICK label \in {"update", "updateItem", "removeItem"} : Begin(p, NoJob, label)
    BY <1>7 DEF StartUpdate, StartUpdateItem, StartRemoveItem
  <2>. QED
    BY <2>1, BeginBooks
<1>. QED
  BY <1>1, <1>2, <1>4, <1>5, <1>6, <1>7 DEF Start

\* createOrReturnTwin: nothing has left the drawer for a new request, and it is the only
\* pending one.
LEMMA InsertBooks ==
  ASSUME RefundInv, BooksInv, NEW p \in Processes, InsertRequest(p)
  PROVE  BooksInv'
<1>1. Done(p) /\ UNCHANGED <<order, item, moved, unasked, starts>>
  BY DEF InsertRequest
<1>2. CASE UNCHANGED refunds
  <2>1. ReviewsFit'
    BY <1>1, <1>2, TakenRows, DoneFits DEF BooksInv
  <2>2. RefundedIsWhatMoved' /\ (\A r, s \in Pending : r = s)'
    BY <1>1, <1>2 DEF BooksInv, RefundedIsWhatMoved, PaidOut, Pending, Taken
  <2>. QED
    BY <2>1, <2>2 DEF BooksInv
<1>3. CASE Pending = {} /\ \E r \in Rows : Fresh(r)
                             /\ refunds' = [refunds EXCEPT ![r] = job[p].form]
  <2>1. PICK r \in Rows : Fresh(r) /\ refunds' = [refunds EXCEPT ![r] = job[p].form]
    BY <1>3
  <2>2. refunds[r] = None /\ moved[r] = 0
    <3>1. refunds[r] = None
      BY <2>1 DEF Fresh, Taken
    <3>. QED
      BY <3>1 DEF RefundInv, PaidOnce, TypeOK
  <2>3. /\ refunds'[r] = job[p].form /\ \A x \in Rows \ {r} : refunds'[x] = refunds[x]
        /\ job[p].form \in Refund \cup {None}
    BY <2>1 DEF RefundInv, TypeOK
  <2>4. \A x \in Rows : PaidOut(x)' = PaidOut(x)
    <3>1. PaidOut(r)' = 0 /\ PaidOut(r) = 0
      <4>1. PaidOut(r) = 0
        BY <2>2 DEF PaidOut
      <4>2. CASE job[p].form = None
        BY <2>3, <4>1, <4>2 DEF PaidOut
      <4>3. CASE job[p].form # None
        <5>1. job[p].form.amount \in Nat /\ moved'[r] = 0
          BY <1>1, <2>2, <2>3, <4>3 DEF Refund
        <5>. QED
          BY <2>3, <4>1, <4>3, <5>1 DEF PaidOut
      <4>. QED
        BY <4>1, <4>2, <4>3 DEF PaidOut
    <3>2. \A x \in Rows \ {r} : PaidOut(x)' = PaidOut(x)
      BY <1>1, <2>3 DEF PaidOut
    <3>. QED
      BY <3>1, <3>2
  <2>5. RefundedIsWhatMoved'
    BY <1>1, <2>4, BooksUnmoved DEF BooksInv
  <2>6. \A x \in Taken : refunds'[x] = refunds[x]
    BY <2>2, <2>3 DEF Taken
  <2>7. ReviewsFit'
    BY <1>1, <2>6, TakenRows, DoneFits DEF BooksInv
  <2>8. (\A x, y \in Pending : x = y)'
    <3>1. \A x \in Rows \ {r} : x \notin Pending'
      BY <1>3, <2>3 DEF Pending, Taken
    <3>. QED
      BY <3>1 DEF Pending, Taken
  <2>. QED
    BY <2>5, <2>7, <2>8 DEF BooksInv
<1>. QED
  BY <1>2, <1>3 DEF InsertRequest

\* The writes on a request that exists: its amount stays, and it is not opened again.
LEMMA RowBooks ==
  ASSUME RefundInv, BooksInv, NEW p \in Processes, Done(p), NEW r \in Taken,
         NEW row \in Refund, row.amount = refunds[r].amount,
         row.state # "PENDING" \/ row.state = refunds[r].state,
         refunds' = [refunds EXCEPT ![r] = row]
  PROVE  ReviewsFit' /\ (\A x, y \in Pending : x = y)'
<1>1. /\ row # None /\ refunds'[r] = row /\ \A x \in Rows \ {r} : refunds'[x] = refunds[x]
      /\ r \in Rows
  BY RefundAssumption, TakenRows DEF RefundInv, TypeOK
<1>2. /\ \A x \in Taken : refunds'[x] = None \/ refunds'[x].amount = refunds[x].amount
      /\ \A x \in Taken : refunds'[x] # None
  BY <1>1, TakenRows
<1>3. ReviewsFit'
  BY <1>2, DoneFits DEF BooksInv
<1>4. \A x \in Pending' : x \in Pending
  BY <1>1 DEF Pending, Taken
<1>. QED
  BY <1>3, <1>4 DEF BooksInv

\* A review.
LEMMA AnswerBooks ==
  ASSUME RefundInv, BooksInv, NEW p \in Processes, Answer(p)
  PROVE  BooksInv'
<1>1. PICK r \in Taken, answer \in States \ {"PENDING"} :
        r = job[p].row /\ answer = job[p].answer
  BY DEF Answer, RefundInv, JobsHoldRows, BooksInv, ReviewsFit
<1>2. Done(p) /\ UNCHANGED <<order, item, moved, unasked, starts>>
  BY DEF Answer
<1>3. refunds[r] \in Refund /\ refunds[r] # None /\ r \in Rows
  BY TakenRows
<1>4. PICK row : row = [refunds[r] EXCEPT !.state = answer]
  OBVIOUS
<1>5. row \in Refund /\ row.amount = refunds[r].amount /\ row.state # "PENDING"
  BY <1>3, <1>4 DEF Refund
<1>6. refunds' = [refunds EXCEPT ![r] = row]
  BY <1>1, <1>4 DEF Answer
<1>7. ReviewsFit' /\ (\A x, y \in Pending : x = y)'
  BY <1>2, <1>5, <1>6, RowBooks
<1>8. \A x \in Rows : PaidOut(x)' = PaidOut(x)
  BY <1>2, <1>3, <1>5, <1>6, RefundAssumption
     DEF PaidOut, RefundInv, TypeOK
<1>9. RefundedIsWhatMoved'
  BY <1>2, <1>8, BooksUnmoved DEF BooksInv
<1>. QED
  BY <1>7, <1>9 DEF BooksInv

\* What applying a refund does to the money the order gave back.
LEMMA ApplyRefunded ==
  ASSUME RefundInv, NEW f \in Refund, ApplyToOrder(f)
  PROVE  order'.refunded = order.refunded + f.amount /\ order.refunded \in Int
                                                   /\ f.amount \in Nat
<1>1. order \in OrderRow /\ f.amount \in Nat
  BY DEF RefundInv, TypeOK, Refund
<1>2. order'.refunded = order.refunded + f.amount
  BY <1>1 DEF ApplyToOrder, OrderRow
<1>. QED
  BY <1>1, <1>2 DEF OrderRow

\* Caja pays: the order gives back what leaves the drawer.
LEMMA PayBooks ==
  ASSUME RefundInv, RefundInv', BooksInv, NEW p \in Processes, Pay(p)
  PROVE  BooksInv'
<1>1. PICK r \in Taken : r = job[p].row
  BY DEF Pay, RefundInv, JobsHoldRows
<1>2. /\ Done(p) /\ UNCHANGED <<unasked, starts>>
      /\ ApplyToOrder(refunds[r]) /\ ~refunds[r].executed
      /\ moved' = [moved EXCEPT ![r] = @ + 1]
  BY <1>1 DEF Pay
<1>3. refunds[r] \in Refund /\ refunds[r] # None /\ r \in Rows
  BY TakenRows
<1>4. moved[r] = 0 /\ moved'[r] = 1 /\ \A x \in Rows \ {r} : moved'[x] = moved[x]
  BY <1>2, <1>3 DEF RefundInv, PaidOnce, TypeOK
<1>5. PICK row : row = [refunds[r] EXCEPT !.executed = TRUE]
  OBVIOUS
<1>6. row \in Refund /\ row.amount = refunds[r].amount /\ row.state = refunds[r].state
  BY <1>3, <1>5 DEF Refund
<1>7. refunds' = [refunds EXCEPT ![r] = row]
  BY <1>1, <1>5 DEF Pay
<1>8. ReviewsFit' /\ (\A x, y \in Pending : x = y)'
  BY <1>2, <1>6, <1>7, RowBooks
<1>9. /\ refunds'[r] = row /\ row # None
      /\ \A x \in Rows \ {r} : refunds'[x] = refunds[x]
  BY <1>3, <1>6, <1>7, RefundAssumption DEF RefundInv, TypeOK
<1>10. \A x \in Rows \ {r} : PaidOut(x)' = PaidOut(x)
  BY <1>4, <1>9 DEF PaidOut
<1>11. refunds[r].amount \in Nat /\ order'.refunded = order.refunded + refunds[r].amount
       /\ order.refunded \in Int
  BY <1>2, <1>3, ApplyRefunded
<1>12. PaidOut(r) = 0 /\ PaidOut(r)' = refunds[r].amount
  BY <1>3, <1>4, <1>6, <1>9, <1>11 DEF PaidOut
<1>13. RefundedIsWhatMoved'
  BY <1>3, <1>10, <1>11, <1>12, PaidOutChanges DEF BooksInv
<1>. QED
  BY <1>8, <1>13 DEF BooksInv

\* An annulment that pays nothing out moves none of that money.
LEMMA ApproveBooks ==
  ASSUME RefundInv, BooksInv, NEW p \in Processes, ApproveAndApply(p)
  PROVE  BooksInv'
<1>1. PICK r \in Taken : r = job[p].row
  BY DEF ApproveAndApply, RefundInv, JobsHoldRows
<1>2. /\ Done(p) /\ UNCHANGED <<moved, unasked, starts>> /\ ApplyToOrder(refunds[r])
      /\ refunds[r].amount = 0
  BY <1>1 DEF ApproveAndApply, BooksInv, ReviewsFit
<1>3. refunds[r] \in Refund /\ refunds[r] # None /\ r \in Rows
  BY TakenRows
<1>4. PICK row : row = [refunds[r] EXCEPT !.state = "APPROVED", !.executed = TRUE]
  OBVIOUS
<1>5. row \in Refund /\ row.amount = refunds[r].amount /\ row.state # "PENDING"
  BY <1>3, <1>4 DEF Refund, States
<1>6. refunds' = [refunds EXCEPT ![r] = row]
  BY <1>1, <1>3, <1>4 DEF ApproveAndApply, Refund, RefundInv, TypeOK
<1>7. ReviewsFit' /\ (\A x, y \in Pending : x = y)'
  BY <1>2, <1>5, <1>6, RowBooks
<1>8. \A x \in Rows : PaidOut(x)' = PaidOut(x)
  BY <1>2, <1>3, <1>5, <1>6, RefundAssumption
     DEF PaidOut, RefundInv, TypeOK
<1>9. order'.refunded = order.refunded
  BY <1>2, <1>3, ApplyRefunded
<1>10. RefundedIsWhatMoved'
  BY <1>8, <1>9, BooksUnmoved DEF BooksInv
<1>. QED
  BY <1>7, <1>10 DEF BooksInv

\* What else moves the order.
LEMMA OutsideBooks ==
  ASSUME RefundInv, BooksInv, PaymentsMove \/ Confirm \/ AnnulOrder \/ UNCHANGED vars
  PROVE  BooksInv'
<1>1. UNCHANGED <<refunds, moved, pc, job>>
  BY DEF PaymentsMove, Confirm, AnnulOrder, vars
<1>2. order'.refunded = order.refunded
  BY DEF PaymentsMove, Confirm, AnnulOrder, vars, RefundInv, TypeOK, OrderRow
<1>. QED
  BY <1>1, <1>2 DEF BooksInv, RefundedIsWhatMoved, PaidOut, ReviewsFit, Pending, Taken

\* Every step.
LEMMA BooksStep ==
  ASSUME RefundInv, RefundInv', BooksInv, [Next]_vars
  PROVE  BooksInv'
<1>1. ASSUME NEW p \in Processes, Abort(p)
      PROVE  BooksInv'
  <2>1. Done(p) /\ UNCHANGED <<order, item, refunds, moved, unasked, starts>>
    BY <1>1 DEF Abort
  <2>2. ReviewsFit'
    BY <2>1, TakenRows, DoneFits DEF BooksInv
  <2>. QED
    BY <2>1, <2>2 DEF BooksInv, RefundedIsWhatMoved, PaidOut, Pending, Taken
<1>2. ASSUME NEW p \in Processes, Update(p) \/ UpdateItem(p) \/ RemoveItem(p)
      PROVE  BooksInv'
  <2>1. Done(p) /\ UNCHANGED <<refunds, moved, starts>>
    BY <1>2 DEF Update, UpdateItem, RemoveItem
  <2>2. ReviewsFit'
    BY <2>1, TakenRows, DoneFits DEF BooksInv
  <2>3. order'.refunded = order.refunded
    BY <1>2 DEF Update, UpdateItem, RemoveItem, Rewritten, RefundInv, TypeOK, OrderRow
  <2>. QED
    BY <2>1, <2>2, <2>3 DEF BooksInv, RefundedIsWhatMoved, PaidOut, Pending, Taken
<1>. QED
  BY <1>1, <1>2, StartBooks, InsertBooks, AnswerBooks, ApproveBooks, PayBooks, OutsideBooks
     DEF Next, Step

\* Nothing is asked for, and nothing has moved.
LEMMA BooksInit == Init => BooksInv
<1> SUFFICES ASSUME Init PROVE BooksInv
  OBVIOUS
<1>1. PICK f : f = [r \in Rows |-> PaidOut(r)]
  OBVIOUS
<1>2. IsFiniteSet(Rows) /\ \A r \in Rows : f[r] = 0
  BY <1>1, RefundAssumption DEF Init, PaidOut
<1>3. SumFunctionOnSet(f, Rows) = 0 /\ order.refunded = 0
  BY <1>2, SumZero DEF Init
<1>4. RefundedIsWhatMoved
  BY <1>1, <1>3 DEF RefundedIsWhatMoved, SumFunction
<1>. QED
  BY <1>4 DEF Init, BooksInv, ReviewsFit, Pending, Taken

\* Whoever asks, answers and pays at once, and whatever the order becomes meanwhile.
THEOREM BooksBalance == Spec => []BooksInv
<1>1. RefundInv /\ BooksInv /\ [Next]_vars => BooksInv'
  BY RefundStep, BooksStep
<1>. QED
  BY <1>1, BooksInit, RefundCorrect, PTL DEF Spec

\* The order says it gave back exactly what left the drawer for its refunds.
THEOREM RefundedMoved == Spec => []RefundedIsWhatMoved
<1>1. BooksInv => RefundedIsWhatMoved
  BY DEF BooksInv
<1>. QED
  BY <1>1, BooksBalance, PTL

\* However often a refund is asked for, one request of the order is pending.
THEOREM OneRefundPending == Spec => []OnePending
<1>1. BooksInv => OnePending
  <2> SUFFICES ASSUME BooksInv PROVE Cardinality(Pending) <= 1
    BY DEF OnePending
  <2>1. CASE Pending = {}
    BY <2>1, FS_EmptySet
  <2>2. CASE Pending # {}
    <3>1. PICK r : Pending = {r}
      BY <2>2 DEF BooksInv
    <3>. QED
      BY <3>1, FS_Singleton
  <2>. QED
    BY <2>1, <2>2
<1>. QED
  BY <1>1, BooksBalance, PTL
=============================================================================
