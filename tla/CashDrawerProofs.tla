-------------------------- MODULE CashDrawerProofs --------------------------
(***************************************************************************)
(* Proofs about CashDrawer.  Three facts carry them.  No transaction       *)
(* deletes a row or moves it to another register (Grows), so what a        *)
(* request read is still there when it writes, whoever ran in between      *)
(* (CarriesKept).  A request that begins while another runs sets raced, so *)
(* that without it a transaction writes over what it read (ReadIsFresh).   *)
(* And the unique index on open sessions makes a second opening of a       *)
(* register wait while the first reads the queue (OpeningAlone).           *)
(*                                                                         *)
(* ControlStep and CommitStep are the two shapes of a step, one that       *)
(* leaves the tables of money alone and one that ends a transaction; then  *)
(* there is one lemma per action.                                          *)
(***************************************************************************)
EXTENDS CashDrawerProps, SumTheorems

\* The tables, whoever is running.
TablesOK ==
  References /\ OnePaymentPerMovement /\ OneOpen /\ Reversed /\ LivePaymentLiveMovement

\* What no transaction undoes: a row stays, in its register or session; a movement
\* gets another payment only when it is new.
Grows ==
  /\ Existing(sessions) \subseteq Existing(sessions')
  /\ Existing(movements) \subseteq Existing(movements')
  /\ Existing(payments) \subseteq Existing(payments')
  /\ Existing(voidRequests) \subseteq Existing(voidRequests')
  /\ \A s \in Existing(sessions) : sessions'[s].register = sessions[s].register
  /\ \A m \in Existing(movements) :
       /\ movements'[m].session = movements[m].session
       /\ LinkedPayments(m)' \subseteq LinkedPayments(m)

\* The registers other requests are opening.
BeingOpened(p) ==
  {job[q].register : q \in {x \in Requests : x # p /\ pc[x] = "flush"}}
-----------------------------------------------------------------------------
\* NextId takes the least id that is free.
LEMMA NextIsFresh ==
  ASSUME NEW table, DOMAIN table \subseteq Nat, Fresh(table) # {}
  PROVE  NextId(table) \in Fresh(table)
<1>1. Fresh(table) \subseteq Nat
  BY DEF Fresh
<1>2. \E n \in Fresh(table) : \A m \in Fresh(table) : n <= m
  BY <1>1, LeastNatural
<1>. QED
  BY <1>2 DEF NextId

\* A row that is there has its id in the table and the form of the table.
LEMMA RowsExist ==
  ASSUME TypeOK
  PROVE  /\ \A s \in Existing(sessions) : s \in Sessions /\ sessions[s] \in SessionRow
         /\ \A m \in Existing(movements) : m \in Movements /\ movements[m] \in MovementRow
         /\ \A q \in Existing(payments) : q \in Payments /\ payments[q] \in PaymentRow
         /\ \A v \in Existing(voidRequests) :
              v \in VoidRequests /\ voidRequests[v] \in VoidRow
BY DEF TypeOK, Existing

\* A new movement takes an id nobody has, and leaves the other rows alone.
LEMMA NewMovement ==
  ASSUME TypeOK, Fresh(movements) # {}
  PROVE  /\ NextId(movements) \in Movements
         /\ NextId(movements) \notin Existing(movements)
         /\ \A row \in MovementRow :
              /\ Insert(movements, row) \in [Movements -> MovementRow \cup {None}]
              /\ Existing(Insert(movements, row)) = Existing(movements) \cup {NextId(movements)}
              /\ Insert(movements, row)[NextId(movements)] = row
              /\ \A x \in Movements :
                   x # NextId(movements) => Insert(movements, row)[x] = movements[x]
<1>1. /\ movements \in [Movements -> MovementRow \cup {None}] /\ Movements \subseteq Nat
      /\ None \notin MovementRow
  BY DrawerAssumption, RowAssumption DEF TypeOK, DrawerAssumption, RowAssumption
<1>2. NextId(movements) \in Fresh(movements)
  BY <1>1, NextIsFresh
<1>3. NextId(movements) \in Movements /\ NextId(movements) \notin Existing(movements)
  BY <1>1, <1>2 DEF Fresh
<1>. QED
  BY <1>1, <1>2, <1>3 DEF Insert, Existing, Fresh

\* The same of a new payment.
LEMMA NewPayment ==
  ASSUME TypeOK, Fresh(payments) # {}
  PROVE  /\ NextId(payments) \in Payments
         /\ NextId(payments) \notin Existing(payments)
         /\ \A row \in PaymentRow :
              /\ Insert(payments, row) \in [Payments -> PaymentRow \cup {None}]
              /\ Existing(Insert(payments, row)) = Existing(payments) \cup {NextId(payments)}
              /\ Insert(payments, row)[NextId(payments)] = row
              /\ \A x \in Payments :
                   x # NextId(payments) => Insert(payments, row)[x] = payments[x]
<1>1. /\ payments \in [Payments -> PaymentRow \cup {None}] /\ Payments \subseteq Nat
      /\ None \notin PaymentRow
  BY DrawerAssumption, RowAssumption DEF TypeOK, DrawerAssumption, RowAssumption
<1>2. NextId(payments) \in Fresh(payments)
  BY <1>1, NextIsFresh
<1>3. NextId(payments) \in Payments /\ NextId(payments) \notin Existing(payments)
  BY <1>1, <1>2 DEF Fresh
<1>. QED
  BY <1>1, <1>2, <1>3 DEF Insert, Existing, Fresh

\* What a request read stays true when the others' transactions only add rows.
LEMMA CarriesKept ==
  ASSUME TypeOK, TypeOK', ControlOK, Grows, References, NEW p \in Requests, Carries(p),
         job'[p] = job[p], pc'[p] = pc[p]
  PROVE  Carries(p)'
<1> DEFINE j == job[p]
<1>1. j \in JobRow
  BY DEF ControlOK
<1>2. pc[p] = "voidMovement" => /\ movements'[j.movement].session = movements[j.movement].session
                                /\ movements[j.movement].session \in Existing(sessions)
                                /\ LinkedPayments(j.movement)' \subseteq LinkedPayments(j.movement)
  BY DEF Carries, Grows, References
<1>. QED
  BY <1>1, <1>2 DEF Carries, Grows, SessionOrNone, JobRow, LinkedPayments
-----------------------------------------------------------------------------
\* An idle request's job is a job.
LEMMA NoJobIsJob == NoJob \in JobRow
<1>1. [q \in {} |-> None] \in UNION {[S -> PaymentRow] : S \in SUBSET Payments}
  <2>1. [q \in {} |-> None] \in [{} -> PaymentRow] /\ {} \in SUBSET Payments
    OBVIOUS
  <2>. QED
    BY <2>1
<1>. QED
  BY <1>1 DEF NoJob, JobRow

\* The drawers, the movements and the payments stay as they are; at most request p
\* moves.  RequestVoid is of no request: p is then none of them.
LEMMA ControlStep ==
  ASSUME DrawerInv, TypeOK', ControlOK', NEW p,
         sessions' = sessions, movements' = movements, payments' = payments,
         Existing(voidRequests) \subseteq Existing(voidRequests'), References',
         \A q \in Requests : q # p => pc'[q] = pc[q] /\ job'[q] = job[q],
         raced => raced', Alone',
         p \in Requests =>
           /\ Carries(p)' /\ (raced' \/ ReadIsFresh(p)')
           /\ pc'[p] = "flush" => Taken(job'[p].register) = {}
  PROVE  DrawerInv'
<1>2. OnePaymentPerMovement' /\ OneOpen' /\ Reversed' /\ LivePaymentLiveMovement'
  BY DEF DrawerInv, OnePaymentPerMovement, OneOpen, Reversed, Reversals,
         LivePaymentLiveMovement, LivePayments, OpenSessions, Existing
<1>3. Grows
  BY DEF Grows, LinkedPayments, Existing
<1>4. Jobs'
  <2>1. ASSUME NEW q \in Requests, q # p PROVE Carries(q)'
    <3>1. pc'[q] = pc[q] /\ job'[q] = job[q] /\ Carries(q)
      BY <2>1 DEF DrawerInv, ControlOK, Jobs
    <3>. QED
      BY <3>1, <1>3, CarriesKept DEF DrawerInv
  <2>. QED
    BY <2>1 DEF Jobs
<1>5. OpeningAlone'
  BY DEF OpeningAlone, Opening, OpenOf, OpenSessions, Existing, DrawerInv, ControlOK, Taken
<1>6. ReadsAreFresh'
  <2>1. ASSUME NEW q \in Requests, q # p PROVE raced' \/ ReadIsFresh(q)'
    <3>1. pc'[q] = pc[q] /\ job'[q] = job[q] /\ (raced \/ ReadIsFresh(q))
      BY <2>1 DEF DrawerInv, ControlOK, ReadsAreFresh
    <3>. QED
      BY <3>1 DEF ReadIsFresh
  <2>. QED
    BY <2>1 DEF ReadsAreFresh
<1>7. RacesOnly'
  BY DEF DrawerInv, RacesOnly, OrphansOnlyByRace, MismatchOnlyByRace, DoubleIncomeOnlyByRace,
         NoOrphanPayment, MovementMatchesPayment, IncomeCountedOnce, LivePayments,
         LinkedPayments, Existing
<1>. QED
  BY <1>2, <1>4, <1>5, <1>6, <1>7 DEF DrawerInv

\* A request that reads, waits or starts: the tables stay as they are.
LEMMA ReadStep ==
  ASSUME DrawerInv, UNCHANGED rows, NEW p \in Requests, NEW label \in Labels,
         NEW j \in JobRow, pc' = [pc EXCEPT ![p] = label], job' = [job EXCEPT ![p] = j],
         plock' \in [Payments -> Requests \cup {None}], starts' \in 0..MaxStarts,
         raced' \in BOOLEAN, raced => raced',
         Carries(p)', Alone', raced' \/ ReadIsFresh(p)',
         label = "flush" => Taken(j.register) = {}
  PROVE  DrawerInv'
<1>1. TypeOK' /\ ControlOK'
  BY DEF DrawerInv, TypeOK, ControlOK, rows
<1>2. References'
  BY DEF DrawerInv, References, Existing, rows
<1>3. /\ sessions' = sessions /\ movements' = movements /\ payments' = payments
      /\ Existing(voidRequests) \subseteq Existing(voidRequests')
  BY DEF rows
<1>4. /\ \A q \in Requests : q # p => pc'[q] = pc[q] /\ job'[q] = job[q]
      /\ pc'[p] = label /\ job'[p] = j
  BY DEF DrawerInv, ControlOK
<1>. QED
  BY <1>1, <1>2, <1>3, <1>4, ControlStep

\* A request starts from what it has just read.
LEMMA BeginStep ==
  ASSUME DrawerInv, NEW p \in Requests, NEW label \in Labels, NEW j \in JobRow,
         Begin(p, j, label), Carries(p)', ReadIsFresh(p)', label # "flush"
  PROVE  DrawerInv'
<1>0. DrawerAssumption
  BY DrawerAssumption
<1>1. starts' \in 0..MaxStarts /\ raced' \in BOOLEAN /\ (raced => raced')
  BY <1>0 DEF Begin, DrawerInv, TypeOK, ControlOK
<1>2. Alone'
  BY DEF Begin, DrawerInv, Alone, ControlOK
<1>. QED
  BY <1>1, <1>2, ReadStep DEF Begin, DrawerInv, TypeOK

\* A request that goes on from what it has just read.
LEMMA ContinueStep ==
  ASSUME DrawerInv, NEW p \in Requests, NEW label \in Labels, NEW j \in JobRow,
         Continue(p, j, label), plock' \in [Payments -> Requests \cup {None}],
         pc[p] # "idle", Carries(p)', raced \/ ReadIsFresh(p)',
         label = "flush" => Taken(j.register) = {}
  PROVE  DrawerInv'
<1>1. starts' \in 0..MaxStarts /\ raced' \in BOOLEAN /\ raced' = raced
  BY DEF Continue, DrawerInv, TypeOK, ControlOK
<1>2. Alone'
  BY DEF Continue, DrawerInv, Alone, ControlOK
<1>3. (raced => raced') /\ (raced' \/ ReadIsFresh(p)')
  BY <1>1
<1>4. UNCHANGED rows /\ job' = [job EXCEPT ![p] = j] /\ pc' = [pc EXCEPT ![p] = label]
  BY DEF Continue
<1>. QED
  BY <1>1, <1>2, <1>3, <1>4, ReadStep

\* A request that ends: idle requests carry nothing.
LEMMA FinishControl ==
  ASSUME DrawerInv, TypeOK', NEW p \in Requests, Finish(p), Grows
  PROVE  /\ ControlOK' /\ Jobs' /\ Alone'
         /\ \A q \in Requests : q # p => pc'[q] = pc[q] /\ job'[q] = job[q]
         /\ pc'[p] = "idle" /\ raced' = raced
<1>1. /\ pc' = [pc EXCEPT ![p] = "idle"] /\ job' = [job EXCEPT ![p] = NoJob]
      /\ raced' = raced
  BY DEF Finish
<1>2. /\ \A q \in Requests : q # p => pc'[q] = pc[q] /\ job'[q] = job[q]
      /\ pc'[p] = "idle" /\ job'[p] = NoJob
  BY <1>1 DEF DrawerInv, ControlOK
<1>3. ControlOK'
  BY <1>1, NoJobIsJob DEF DrawerInv, ControlOK, Labels
<1>4. Jobs'
  <2>1. ASSUME NEW q \in Requests, q # p PROVE Carries(q)'
    BY <1>2, <2>1, CarriesKept DEF DrawerInv, Jobs
  <2>2. Carries(p)'
    BY <1>2 DEF Carries
  <2>. QED
    BY <2>1, <2>2 DEF Jobs
<1>5. Alone'
  BY <1>1, <1>2 DEF DrawerInv, Alone
<1>. QED
  BY <1>1, <1>2, <1>3, <1>4, <1>5

\* A transaction that commits: while nobody overlapped, the others are idle.
LEMMA CommitStep ==
  ASSUME DrawerInv, TypeOK', NEW p \in Requests, Finish(p), Grows, pc[p] # "idle", TablesOK',
         \A r \in BeingOpened(p) : OpenOf(r)' = {},
         raced \/ (NoOrphanPayment /\ MovementMatchesPayment /\ IncomeCountedOnce)'
  PROVE  DrawerInv'
<1>1. /\ ControlOK' /\ Jobs' /\ Alone'
      /\ \A q \in Requests : q # p => pc'[q] = pc[q] /\ job'[q] = job[q]
      /\ pc'[p] = "idle" /\ raced' = raced
  BY FinishControl
<1>2. OpeningAlone'
  <2>1. ASSUME NEW q \in Requests, pc'[q] = "flush"
        PROVE  (Opening(job[q].register) = {q} /\ OpenOf(job[q].register) = {})'
    <3>1. q # p /\ pc[q] = "flush" /\ job'[q] = job[q]
      BY <1>1, <2>1
    <3>2. Opening(job[q].register) = {q}
      BY <3>1 DEF DrawerInv, OpeningAlone
    <3>3. job[q].register \in BeingOpened(p)
      BY <3>1 DEF BeingOpened
    <3>4. \A r : r = job[q].register => OpenOf(r)' = {}
      BY <3>3
    <3>5. (OpenOf(job[q].register) = {})'
      BY <3>1, <3>4
    <3>. QED
      BY <1>1, <2>1, <3>1, <3>2, <3>5 DEF Opening
  <2>2. \A q \in Requests : q # p => job'[q] = job[q]
    BY <1>1
  <2>. QED
    BY <1>1, <2>1, <2>2 DEF OpeningAlone
<1>3. ReadsAreFresh'
  <2>1. \A q \in Requests : raced \/ pc'[q] = "idle"
    BY <1>1 DEF DrawerInv, Alone
  <2>. QED
    BY <1>1, <2>1 DEF ReadsAreFresh, ReadIsFresh
<1>. QED
  BY <1>1, <1>2, <1>3 DEF DrawerInv, TablesOK, RacesOnly, OrphansOnlyByRace, MismatchOnlyByRace,
       DoubleIncomeOnlyByRace
-----------------------------------------------------------------------------
(* The requests that read.                                                  *)

\* What a starting request has read is there, and fresh.
LEMMA StartsKeep ==
  ASSUME DrawerInv, NEW p \in Requests, Start(p)
  PROVE  DrawerInv'
<1>0. /\ DrawerAssumption /\ RowAssumption /\ TypeOK /\ ControlOK /\ References
      /\ NoJob \in JobRow
  BY DrawerAssumption, RowAssumption, NoJobIsJob DEF DrawerInv
<1>r. /\ \A s \in Existing(sessions) : s \in Sessions /\ sessions[s] \in SessionRow
      /\ \A m \in Existing(movements) : m \in Movements /\ movements[m] \in MovementRow
      /\ \A q \in Existing(payments) : q \in Payments /\ payments[q] \in PaymentRow
      /\ \A v \in Existing(voidRequests) :
           v \in VoidRequests /\ voidRequests[v] \in VoidRow
  BY <1>0, RowsExist
<1>b. ASSUME NEW label \in Labels, NEW j, Begin(p, j, label)
      PROVE  /\ pc'[p] = label /\ job'[p] = j /\ j.kind \in Kinds
             /\ sessions' = sessions /\ movements' = movements /\ payments' = payments
             /\ voidRequests' = voidRequests
  BY <1>0, <1>b DEF Begin, ControlOK, rows
<1>1. CASE StartAddPayment(p)
  <2>1. PICK l \in Locations, m \in Methods, a \in Amounts :
          Begin(p, [NoJob EXCEPT !.kind = "addPayment", !.location = l, !.method = m,
                                 !.amount = a, !.session = ActiveSession(l)], "commit")
    BY <1>1 DEF StartAddPayment
  <2> DEFINE s == ActiveSession(l)
             j == [NoJob EXCEPT !.kind = "addPayment", !.location = l, !.method = m,
                                !.amount = a, !.session = s]
  <2>2. s # None => s \in Existing(sessions) /\ sessions[s].open
    BY DEF ActiveSession, OpenIn, OpenSessions
  <2>3. s \in Sessions \cup {None}
    BY <1>r, <2>2
  <2> HIDE DEF s
  <2>4. m \in AllMethods /\ a \in Int
    BY <1>0 DEF DrawerAssumption
  <2>5. j \in JobRow
    BY <1>0, <2>3, <2>4 DEF JobRow, AllKinds
  <2>6. /\ j.kind = "addPayment" /\ j.location = l /\ j.method = m /\ j.amount = a
        /\ j.session = s
    BY DEF NoJob
  <2>7. "commit" \in Labels /\ Begin(p, j, "commit")
    BY <2>1 DEF Labels, s
  <2> HIDE DEF j
  <2>8. pc'[p] = "commit" /\ job'[p] = j /\ sessions' = sessions
    BY <1>b, <2>7
  <2>9. Carries(p)' /\ ReadIsFresh(p)'
    BY <2>2, <2>4, <2>6, <2>8 DEF Carries, SessionOrNone, ReadIsFresh
  <2>. QED
    BY <2>5, <2>7, <2>9, BeginStep
<1>2. CASE StartCreateMovement(p)
  <2>1. PICK s \in Existing(sessions), a \in Amounts, concept \in {"INCOME", "EXPENSE", "ORDER"} :
          /\ sessions[s].open
          /\ Begin(p, [NoJob EXCEPT !.kind = "createMovement", !.session = s, !.amount = a,
                                    !.concept = concept], "commit")
    BY <1>2 DEF StartCreateMovement, AcceptsMovements
  <2> DEFINE j == [NoJob EXCEPT !.kind = "createMovement", !.session = s, !.amount = a,
                                !.concept = concept]
  <2>2. s \in Sessions /\ a \in Int
    BY <1>0, <1>r DEF DrawerAssumption
  <2>3. j \in JobRow
    BY <1>0, <2>2 DEF JobRow, AllKinds
  <2>4. j.kind = "createMovement" /\ j.session = s /\ j.amount = a
    BY DEF NoJob
  <2>5. "commit" \in Labels /\ Begin(p, j, "commit")
    BY <2>1 DEF Labels
  <2> HIDE DEF j
  <2>6. pc'[p] = "commit" /\ job'[p] = j /\ sessions' = sessions
    BY <1>b, <2>5
  <2>7. Carries(p)' /\ ReadIsFresh(p)'
    BY <2>1, <2>4, <2>6 DEF Carries, ReadIsFresh
  <2>. QED
    BY <2>3, <2>5, <2>7, BeginStep
<1>3. CASE StartUpdatePayment(p)
  <2>1. PICK q \in Existing(payments), m \in Methods, a \in Amounts :
          Begin(p, [NoJob EXCEPT !.kind = "updatePayment", !.payment = q, !.method = m,
                                 !.amount = a, !.previous = payments[q].method], "lock")
    BY <1>3 DEF StartUpdatePayment
  <2> DEFINE j == [NoJob EXCEPT !.kind = "updatePayment", !.payment = q, !.method = m,
                                !.amount = a, !.previous = payments[q].method]
  <2>2. q \in Payments /\ m \in AllMethods /\ a \in Int /\ payments[q].method \in AllMethods
    BY <1>0, <1>r DEF DrawerAssumption, PaymentRow
  <2>3. j \in JobRow
    BY <1>0, <2>2 DEF JobRow, AllKinds
  <2>4. /\ j.kind = "updatePayment" /\ j.payment = q /\ j.method = m /\ j.amount = a
        /\ j.previous = payments[q].method /\ j.session = None
    BY DEF NoJob
  <2>5. "lock" \in Labels /\ Begin(p, j, "lock")
    BY <2>1 DEF Labels
  <2> HIDE DEF j
  <2>6. pc'[p] = "lock" /\ job'[p] = j /\ payments' = payments
    BY <1>b, <2>5
  <2>7. Carries(p)' /\ ReadIsFresh(p)'
    BY <2>2, <2>4, <2>6 DEF Carries, SessionOrNone, ReadIsFresh
  <2>. QED
    BY <2>3, <2>5, <2>7, BeginStep
<1>4. CASE StartVoidMovement(p)
  <2>1. PICK m \in Existing(movements) :
          Begin(p, [NoJob EXCEPT !.kind = "voidMovement", !.movement = m], "readMovement")
    BY <1>4 DEF StartVoidMovement
  <2> DEFINE j == [NoJob EXCEPT !.kind = "voidMovement", !.movement = m]
  <2>2. m \in Movements
    BY <1>r
  <2>3. j \in JobRow
    BY <1>0, <2>2 DEF JobRow, AllKinds
  <2>4. j.movement = m
    BY DEF NoJob
  <2>5. "readMovement" \in Labels /\ Begin(p, j, "readMovement")
    BY <2>1 DEF Labels
  <2> HIDE DEF j
  <2>6. pc'[p] = "readMovement" /\ job'[p] = j /\ movements' = movements
    BY <1>b, <2>5
  <2>7. Carries(p)' /\ ReadIsFresh(p)'
    BY <2>4, <2>6 DEF Carries, ReadIsFresh
  <2>. QED
    BY <2>3, <2>5, <2>7, BeginStep
<1>5. CASE StartVoidPayment(p)
  <2>1. PICK q \in Existing(payments) :
          Begin(p, [NoJob EXCEPT !.kind = "voidPayment", !.payment = q,
                                 !.movement = LiveMovement(q)], VoidLabel(LiveMovement(q)))
    BY <1>5 DEF StartVoidPayment
  <2> DEFINE m == LiveMovement(q)
             j == [NoJob EXCEPT !.kind = "voidPayment", !.payment = q, !.movement = m]
  <2>2. m # None => m \in Existing(movements)
    BY <1>0, <2>1 DEF LiveMovement, References
  <2>3. q \in Payments /\ m \in Movements \cup {None}
    BY <1>r, <2>1, <2>2
  <2> HIDE DEF m
  <2>4. j \in JobRow
    BY <1>0, <2>3 DEF JobRow, AllKinds
  <2>5. j.movement = m /\ j.payment = q
    BY DEF NoJob
  <2>6. /\ VoidLabel(m) \in Labels /\ VoidLabel(m) \in {"readMovement", "voidPayment"}
        /\ (m = None => VoidLabel(m) = "voidPayment")
        /\ (m # None => VoidLabel(m) = "readMovement")
        /\ Begin(p, j, VoidLabel(m))
    BY <2>1 DEF Labels, VoidLabel, m
  <2> HIDE DEF j
  <2>7. /\ pc'[p] = VoidLabel(m) /\ job'[p] = j /\ movements' = movements
        /\ payments' = payments
    BY <1>b, <2>6
  <2>8. Carries(p)' /\ ReadIsFresh(p)' /\ VoidLabel(m) # "flush"
    BY <2>1, <2>2, <2>5, <2>6, <2>7 DEF Carries, ReadIsFresh
  <2>. QED
    BY <2>4, <2>6, <2>8, BeginStep
<1>6. CASE StartReview(p)
  <2>1. PICK v \in Existing(voidRequests), kind \in {"approveVoid", "rejectVoid"} :
          Begin(p, [NoJob EXCEPT !.kind = kind, !.request = v,
                                 !.movement = voidRequests[v].movement,
                                 !.payment = voidRequests[v].payment], "review")
    BY <1>6 DEF StartReview
  <2> DEFINE j == [NoJob EXCEPT !.kind = kind, !.request = v,
                                !.movement = voidRequests[v].movement,
                                !.payment = voidRequests[v].payment]
  <2>2. /\ v \in VoidRequests /\ voidRequests[v].movement \in Movements \cup {None}
        /\ voidRequests[v].payment \in Payments \cup {None}
    BY <1>r DEF VoidRow
  <2>3. j \in JobRow
    <3>1. ASSUME NEW row \in JobRow, NEW m \in Movements \cup {None},
                 NEW q \in Payments \cup {None}
          PROVE  [row EXCEPT !.kind = kind, !.request = v, !.movement = m, !.payment = q] \in JobRow
      BY <2>2 DEF JobRow, AllKinds
    <3>. QED
      BY <1>0, <2>2, <3>1
  <2>4. /\ j.request = v /\ j.movement = voidRequests[v].movement
        /\ j.payment = voidRequests[v].payment
    BY DEF NoJob
  <2>5. "review" \in Labels /\ Begin(p, j, "review")
    BY <2>1 DEF Labels
  <2> HIDE DEF j
  <2>6. /\ pc'[p] = "review" /\ job'[p] = j /\ movements' = movements
        /\ payments' = payments /\ voidRequests' = voidRequests
    BY <1>b, <2>5
  <2>7. Carries(p)' /\ ReadIsFresh(p)'
    BY <1>0, <2>4, <2>6 DEF Carries, ReadIsFresh, References
  <2>. QED
    BY <2>3, <2>5, <2>7, BeginStep
<1>7. CASE StartOpenSession(p)
  <2>1. PICK r \in Registers :
          Begin(p, [NoJob EXCEPT !.kind = "openSession", !.register = r], "insert")
    BY <1>7 DEF StartOpenSession
  <2> DEFINE j == [NoJob EXCEPT !.kind = "openSession", !.register = r]
  <2>2. j \in JobRow
    BY <1>0 DEF JobRow, AllKinds
  <2>3. j.register = r
    BY DEF NoJob
  <2>4. "insert" \in Labels /\ Begin(p, j, "insert")
    BY <2>1 DEF Labels
  <2> HIDE DEF j
  <2>5. pc'[p] = "insert" /\ job'[p] = j
    BY <1>b, <2>4
  <2>6. Carries(p)' /\ ReadIsFresh(p)'
    BY <2>3, <2>5 DEF Carries, ReadIsFresh
  <2>. QED
    BY <2>2, <2>4, <2>6, BeginStep
<1>8. CASE StartCloseSession(p)
  <2>1. PICK s \in OpenSessions :
          Begin(p, [NoJob EXCEPT !.kind = "closeSession", !.session = s], "sum")
    BY <1>8 DEF StartCloseSession
  <2> DEFINE j == [NoJob EXCEPT !.kind = "closeSession", !.session = s]
  <2>2. s \in Existing(sessions) /\ s \in Sessions
    BY <1>r DEF OpenSessions
  <2>3. j \in JobRow
    BY <1>0, <2>2 DEF JobRow, AllKinds
  <2>4. j.session = s
    BY DEF NoJob
  <2>5. "sum" \in Labels /\ Begin(p, j, "sum")
    BY <2>1 DEF Labels
  <2> HIDE DEF j
  <2>6. pc'[p] = "sum" /\ job'[p] = j /\ sessions' = sessions
    BY <1>b, <2>5
  <2>7. Carries(p)' /\ ReadIsFresh(p)'
    BY <2>2, <2>4, <2>6 DEF Carries, ReadIsFresh
  <2>. QED
    BY <2>3, <2>5, <2>7, BeginStep
<1>. QED
  BY <1>1, <1>2, <1>3, <1>4, <1>5, <1>6, <1>7, <1>8 DEF Start

\* Rows left alone are rows kept.
LEMMA UnchangedGrows ==
  ASSUME UNCHANGED rows
  PROVE  Grows
BY DEF Grows, rows, LinkedPayments, Existing

\* A failed request leaves the rows as they are.
LEMMA AbortKeeps ==
  ASSUME DrawerInv, NEW p \in Requests, Abort(p)
  PROVE  DrawerInv'
<1>1. UNCHANGED rows /\ pc[p] # "idle" /\ Finish(p)
  BY DEF Abort
<1>2. /\ pc' = [pc EXCEPT ![p] = "idle"] /\ job' = [job EXCEPT ![p] = NoJob]
      /\ plock' \in [Payments -> Requests \cup {None}] /\ starts' \in 0..MaxStarts
      /\ raced' \in BOOLEAN /\ (raced => raced') /\ "idle" \in Labels
  BY <1>1 DEF Finish, DrawerInv, TypeOK, ControlOK, Labels
<1>3. Grows
  BY <1>1, UnchangedGrows
<1>4. TypeOK'
  BY <1>1, <1>2 DEF DrawerInv, TypeOK, rows
<1>5. Alone' /\ pc'[p] = "idle"
  BY <1>1, <1>3, <1>4, FinishControl
<1>6. Carries(p)' /\ ReadIsFresh(p)'
  BY <1>5 DEF Carries, ReadIsFresh
<1>. QED
  BY <1>1, <1>2, <1>5, <1>6, NoJobIsJob, ReadStep

\* The edit of a payment reads the active session under the payment's lock.
LEMMA LockKeeps ==
  ASSUME DrawerInv, NEW p \in Requests, LockEdit(p)
  PROVE  DrawerInv'
<1> DEFINE j == job[p]
           l == payments[j.payment].location
           s == IF /\ payments[j.payment].movement = None
                   /\ ~PaymentMovesCash(j.previous) /\ PaymentMovesCash(j.method)
                THEN ActiveSession(l) ELSE None
           k == [j EXCEPT !.session = s]
<1>0. TypeOK /\ ControlOK /\ j \in JobRow /\ Carries(p) /\ (raced \/ ReadIsFresh(p))
  BY DEF DrawerInv, ControlOK, Jobs, ReadsAreFresh
<1>1. /\ pc[p] = "lock" /\ plock' = [plock EXCEPT ![j.payment] = p]
      /\ Continue(p, k, "commit")
  BY DEF LockEdit
<1>2. s # None => s \in Existing(sessions) /\ sessions[s].open
  BY DEF ActiveSession, OpenIn, OpenSessions
<1>3. s \in Sessions \cup {None}
  BY <1>0, <1>2, RowsExist
<1> HIDE DEF s
<1>4. k \in JobRow
  BY <1>0, <1>3 DEF JobRow
<1>5. /\ k.kind = j.kind /\ k.payment = j.payment /\ k.method = j.method
      /\ k.amount = j.amount /\ k.previous = j.previous /\ k.session = s
  BY <1>0 DEF JobRow
<1> HIDE DEF k
<1>6. /\ pc'[p] = "commit" /\ job'[p] = k /\ sessions' = sessions /\ payments' = payments
  BY <1>0, <1>1 DEF Continue, ControlOK, rows
<1>7. Carries(p)'
  BY <1>0, <1>1, <1>2, <1>5, <1>6 DEF Carries, SessionOrNone
<1>8. raced \/ ReadIsFresh(p)'
  BY <1>0, <1>1, <1>2, <1>5, <1>6 DEF ReadIsFresh, Carries
<1>9. plock' \in [Payments -> Requests \cup {None}]
  BY <1>0, <1>1 DEF TypeOK
<1>. QED
  BY <1>1, <1>4, <1>7, <1>8, <1>9, ContinueStep DEF Labels

\* voidMovement reads the movement, its payment and the session of the reversal.
LEMMA ReadMovementKeeps ==
  ASSUME DrawerInv, NEW p \in Requests, ReadMovement(p)
  PROVE  DrawerInv'
<1> DEFINE j == job[p]
           m == j.movement
<1>0. /\ TypeOK /\ ControlOK /\ j \in JobRow /\ Carries(p) /\ References
      /\ OnePaymentPerMovement /\ DrawerAssumption
  BY DrawerAssumption DEF DrawerInv, ControlOK, Jobs
<1>1. PICK s \in CounterSessions(m),
           q \in (IF LinkedPayments(m) = {} THEN {None} ELSE LinkedPayments(m)) :
        Continue(p, [j EXCEPT !.session = s, !.payment = q, !.method = movements[m].method,
                              !.amount = movements[m].amount], "voidMovement")
  BY DEF ReadMovement
<1>2. pc[p] = "readMovement" /\ UNCHANGED plock
  BY DEF ReadMovement
<1>3. m \in Existing(movements)
  BY <1>0, <1>2 DEF Carries
<1>4. m \in Movements /\ movements[m] \in MovementRow
  BY <1>0, <1>3, RowsExist
<1>5. /\ s \in Existing(sessions) /\ sessions[s].open
      /\ sessions[s].register = sessions[movements[m].session].register
  BY <1>0, <1>3 DEF CounterSessions, OpenOf, OpenSessions, References
<1>6. (q # None => q \in Existing(payments)) /\ LinkedPayments(m) \subseteq {q}
  <2>1. \A x, y \in LinkedPayments(m) : x = y
    BY <1>0, <1>4 DEF LinkedPayments, OnePaymentPerMovement, DrawerAssumption
  <2>. QED
    BY <1>1, <2>1 DEF LinkedPayments
<1>7. s \in Sessions /\ q \in Payments \cup {None}
  BY <1>0, <1>5, <1>6, RowsExist
<1> DEFINE k == [j EXCEPT !.session = s, !.payment = q, !.method = movements[m].method,
                          !.amount = movements[m].amount]
<1>8. /\ movements[m].method \in AllMethods /\ movements[m].amount \in Amounts
      /\ movements[m].amount \in Int
  <2>1. movements[m].method \in AllMethods /\ movements[m].amount \in Amounts
    BY <1>4 DEF MovementRow
  <2>2. Amounts \subseteq Int
    BY DrawerAssumption DEF DrawerAssumption
  <2>. QED
    BY <2>1, <2>2
<1>k. k \in JobRow
  BY <1>0, <1>7, <1>8 DEF JobRow
<1>9. /\ k.session = s /\ k.payment = q /\ k.method = movements[m].method
      /\ k.amount = movements[m].amount /\ k.movement = m
  BY <1>0 DEF JobRow
<1>10. Continue(p, k, "voidMovement")
  BY <1>1
<1> HIDE DEF k
<1>11. /\ pc'[p] = "voidMovement" /\ job'[p] = k /\ sessions' = sessions
       /\ payments' = payments /\ movements' = movements
  BY <1>0, <1>10 DEF Continue, ControlOK, rows
<1>12. \A x : LinkedPayments(x)' = LinkedPayments(x)
  BY <1>10 DEF Continue, rows, LinkedPayments, Existing
<1>13. Carries(p)'
  BY <1>3, <1>5, <1>6, <1>8, <1>9, <1>11, <1>12 DEF Carries
<1>14. ReadIsFresh(p)'
  BY <1>5, <1>9, <1>11 DEF ReadIsFresh
<1>15. plock' \in [Payments -> Requests \cup {None}]
  BY <1>0, <1>2 DEF TypeOK
<1>. QED
  BY <1>2, <1>k, <1>10, <1>13, <1>14, <1>15, ContinueStep DEF Labels

\* openSession inserts its row, and flushInto reads the queue.
LEMMA InsertSessionKeeps ==
  ASSUME DrawerInv, NEW p \in Requests, InsertSession(p)
  PROVE  DrawerInv'
<1> DEFINE j == job[p]
           queue == PendingPayments(LocationOf[j.register])
           seen == [q \in queue |-> payments[q]]
           k == [j EXCEPT !.seen = seen]
<1>0. TypeOK /\ ControlOK /\ j \in JobRow /\ Carries(p)
  BY DEF DrawerInv, ControlOK, Jobs
<1>1. /\ pc[p] = "insert" /\ Taken(j.register) = {} /\ UNCHANGED plock
      /\ Continue(p, k, "flush")
  BY DEF InsertSession
<1>2. queue \subseteq Existing(payments)
  BY DEF PendingPayments
<1>3. queue \in SUBSET Payments /\ \A q \in queue : payments[q] \in PaymentRow
  BY <1>0, <1>2, RowsExist
<1> HIDE DEF queue
<1>4. seen \in [queue -> PaymentRow]
  BY <1>3
<1>5. seen \in UNION {[S -> PaymentRow] : S \in SUBSET Payments}
  BY <1>3, <1>4
<1>6. DOMAIN seen = queue /\ \A q \in queue : seen[q] = payments[q]
  OBVIOUS
<1> HIDE DEF seen
<1>7. k \in JobRow /\ k.seen = seen /\ k.register = j.register
  BY <1>0, <1>5 DEF JobRow
<1> HIDE DEF k
<1>8. /\ pc'[p] = "flush" /\ job'[p] = k /\ payments' = payments
  BY <1>0, <1>1 DEF Continue, ControlOK, rows
<1>9. Carries(p)' /\ ReadIsFresh(p)'
  BY <1>0, <1>1, <1>2, <1>6, <1>7, <1>8 DEF Carries, ReadIsFresh
<1>10. plock' \in [Payments -> Requests \cup {None}]
  BY <1>0, <1>1 DEF TypeOK
<1>. QED
  BY <1>1, <1>7, <1>9, <1>10, ContinueStep DEF Labels

\* The balance of a session is an integer: a sum over its movements.
LEMMA BalanceType ==
  ASSUME TypeOK, NEW s
  PROVE  ComputeSystemBalance(s) \in Int
<1> DEFINE D == InDrawer(s)
           f == [m \in D |-> IF movements[m].income THEN movements[m].amount
                             ELSE -movements[m].amount]
<1>1. IsFiniteSet(D)
  <2>1. D \subseteq Movements
    BY DEF InDrawer, Existing, TypeOK
  <2>. QED
    BY <2>1, DrawerAssumption, FS_Subset DEF DrawerAssumption
<1>2. \A m \in D : f[m] \in Int
  <2>1. \A m \in D : movements[m].amount \in Nat
    BY RowsExist, DrawerAssumption DEF InDrawer, MovementRow, DrawerAssumption
  <2>. QED
    BY <2>1
<1> HIDE DEF D
<1>3. DOMAIN f = D
  OBVIOUS
<1> HIDE DEF f
<1>4. SumFunctionOnSet(f, D) \in Int
  BY <1>1, <1>2, SumType
<1>. QED
  BY <1>3, <1>4 DEF ComputeSystemBalance, SumFunction, f, D

\* closeSession has read a session, whatever the sums over its movements are.
LEMMA SumSessionKeeps ==
  ASSUME DrawerInv, NEW p \in Requests, SumSession(p)
  PROVE  DrawerInv'
<1> DEFINE j == job[p]
           b == ComputeSystemBalance(j.session)
           k == [j EXCEPT !.amount = b]
<1>0. TypeOK /\ ControlOK /\ j \in JobRow /\ Carries(p)
  BY DEF DrawerInv, ControlOK, Jobs
<1>1. pc[p] = "sum" /\ UNCHANGED plock /\ Continue(p, k, "close")
  BY DEF SumSession
<1>2. b \in Int
  BY <1>0, BalanceType
<1> HIDE DEF b
<1>3. k \in JobRow /\ k.session = j.session
  BY <1>0, <1>2 DEF JobRow
<1> HIDE DEF k
<1>4. pc'[p] = "close" /\ job'[p] = k /\ sessions' = sessions
  BY <1>0, <1>1 DEF Continue, ControlOK, rows
<1>5. Carries(p)' /\ ReadIsFresh(p)'
  BY <1>0, <1>1, <1>3, <1>4 DEF Carries, ReadIsFresh
<1>6. plock' \in [Payments -> Requests \cup {None}]
  BY <1>0, <1>1 DEF TypeOK
<1>. QED
  BY <1>1, <1>3, <1>5, <1>6, ContinueStep DEF Labels
-----------------------------------------------------------------------------
(* The transactions.                                                        *)

\* A transaction's end leaves the counter of starts and the flag in their sets.
LEMMA FinishTypes ==
  ASSUME TypeOK, NEW p \in Requests, Finish(p)
  PROVE  plock' \in [Payments -> Requests \cup {None}] /\ starts' \in 0..MaxStarts
BY DEF Finish, TypeOK

\* The opening of a session by another request is not disturbed by a transaction
\* that opens none.
LEMMA OthersOpen ==
  ASSUME DrawerInv, NEW p \in Requests, OpenSessions' \subseteq OpenSessions,
         \A s \in OpenSessions' : sessions'[s].register = sessions[s].register
  PROVE  OneOpen' /\ \A r \in BeingOpened(p) : OpenOf(r)' = {}
BY DEF DrawerInv, OneOpen, OpeningAlone, OpenOf, BeingOpened

\* The parts of the invariant that are about the rows.
LEMMA RowsOf ==
  ASSUME DrawerInv
  PROVE  /\ TypeOK /\ References /\ OnePaymentPerMovement /\ OneOpen /\ Reversed
         /\ LivePaymentLiveMovement
         /\ raced \/ (NoOrphanPayment /\ MovementMatchesPayment /\ IncomeCountedOnce)
         /\ \A x \in Existing(movements) : x \in Movements /\ x # None
         /\ \A x \in Existing(payments) : x \in Payments /\ x # None
         /\ \A x \in Existing(sessions) : x \in Sessions /\ x # None
BY RowsExist, DrawerAssumption
   DEF DrawerInv, RacesOnly, OrphansOnlyByRace, MismatchOnlyByRace, DoubleIncomeOnlyByRace,
       DrawerAssumption

\* A new movement enters a session: for payment q, new or without a movement so far,
\* or for no payment at all.
LEMMA EntryKeeps ==
  ASSUME DrawerInv, TypeOK', NEW p \in Requests, Finish(p), pc[p] # "idle",
         sessions' = sessions, voidRequests' = voidRequests,
         NEW m \in Movements, m \notin Existing(movements),
         Existing(movements') = Existing(movements) \cup {m},
         \A x \in Existing(movements) : movements'[x] = movements[x],
         movements'[m].session \in Existing(sessions), movements'[m].reverses = None,
         ~movements'[m].voided,
         NEW q,
         \/ payments' = payments /\ ~movements'[m].ofOrder
         \/ /\ Existing(payments') = Existing(payments) \cup {q}
            /\ \A x \in Existing(payments) : x # q => payments'[x] = payments[x]
            /\ q \in Existing(payments) => payments[q].movement = None
            /\ payments'[q].movement = m /\ payments'[q].method = movements'[m].method
            /\ payments'[q].amount = movements'[m].amount
  PROVE  DrawerInv'
<1>0. /\ TypeOK /\ References /\ OnePaymentPerMovement /\ OneOpen /\ Reversed
      /\ LivePaymentLiveMovement
      /\ raced \/ (NoOrphanPayment /\ MovementMatchesPayment /\ IncomeCountedOnce)
      /\ \A x \in Existing(movements) : x \in Movements /\ x # None
      /\ \A x \in Existing(payments) : x \in Payments /\ x # None
  BY RowsOf
<1>1. m # None
  BY DrawerAssumption DEF DrawerAssumption
<1>2. \A x \in Existing(payments) : payments[x].movement # m
  BY <1>0, <1>1 DEF References
<1>3. \A x \in Existing(movements) : x # m
  OBVIOUS
<1>4. \A x \in Existing(movements) : LinkedPayments(x)' = LinkedPayments(x)
  BY <1>0, <1>3 DEF LinkedPayments
<1>5. ~movements'[m].ofOrder \/ LinkedPayments(m)' # {}
  BY DEF LinkedPayments
<1>6. Grows
  BY <1>4 DEF Grows
<1>7. References'
  BY <1>0, <1>1 DEF References
<1>8. OnePaymentPerMovement'
  BY <1>0, <1>2 DEF OnePaymentPerMovement
<1>9. Reversed'
  <2>1. \A x \in Existing(movements) : Reversals(x)' = Reversals(x)
    BY <1>0 DEF Reversals
  <2>2. Reversals(m)' = {}
    BY <1>0, <1>1 DEF Reversals, References
  <2>3. \A x : Reversals(x) \subseteq Existing(movements)
    BY DEF Reversals
  <2>4. \A x \in Existing(movements) : movements[x].session \in Existing(sessions)
    BY <1>0 DEF References
  <2>. QED
    BY <1>0, <2>1, <2>2, <2>3, <2>4 DEF Reversed
<1>10. LivePaymentLiveMovement'
  BY <1>0, <1>1 DEF LivePaymentLiveMovement, LivePayments, References
<1>11. OneOpen' /\ \A r \in BeingOpened(p) : OpenOf(r)' = {}
  BY OthersOpen DEF OpenSessions, Existing
<1>12. raced \/ NoOrphanPayment'
  BY <1>0, <1>1 DEF NoOrphanPayment, LivePayments
<1>13. raced \/ MovementMatchesPayment'
  BY <1>0, <1>1 DEF MovementMatchesPayment, LivePayments, References
<1>14. raced \/ IncomeCountedOnce'
  BY <1>0, <1>4, <1>5 DEF IncomeCountedOnce
<1>. QED
  BY <1>6, <1>7, <1>8, <1>9, <1>10, <1>11, <1>12, <1>13, <1>14, CommitStep DEF TablesOK

\* Only payment q is written, new or not, and its link stays.
LEMMA PaymentKeeps ==
  ASSUME DrawerInv, TypeOK', NEW p \in Requests, Finish(p), pc[p] # "idle",
         sessions' = sessions, voidRequests' = voidRequests, movements' = movements,
         NEW q,
         Existing(payments') = Existing(payments) \cup {q},
         \A x \in Existing(payments) : x # q => payments'[x] = payments[x],
         IF q \in Existing(payments)
         THEN /\ payments'[q].movement = payments[q].movement
              /\ payments[q].voided => payments'[q].voided
         ELSE payments'[q].movement = None,
         \/ raced \/ payments'[q].voided
         \/ /\ payments'[q].movement = None
            /\ PaymentMovesCash(payments'[q].method) => payments'[q].pending
  PROVE  DrawerInv'
<1>0. /\ TypeOK /\ References /\ OnePaymentPerMovement /\ OneOpen /\ Reversed
      /\ LivePaymentLiveMovement
      /\ raced \/ (NoOrphanPayment /\ MovementMatchesPayment /\ IncomeCountedOnce)
      /\ \A x \in Existing(movements) : x \in Movements /\ x # None
      /\ \A x \in Existing(payments) : x \in Payments /\ x # None
  BY RowsOf
<1>1. \A x \in Existing(movements) : LinkedPayments(x)' = LinkedPayments(x)
  BY <1>0 DEF LinkedPayments
<1>2. Grows
  BY <1>1 DEF Grows
<1>3. References' /\ OnePaymentPerMovement' /\ Reversed'
  BY <1>0 DEF References, OnePaymentPerMovement, Reversed, Reversals
<1>4. LivePaymentLiveMovement'
  BY <1>0 DEF LivePaymentLiveMovement, LivePayments
<1>5. OneOpen' /\ \A r \in BeingOpened(p) : OpenOf(r)' = {}
  BY OthersOpen DEF OpenSessions, Existing
<1>6. raced \/ NoOrphanPayment'
  BY <1>0 DEF NoOrphanPayment, LivePayments
<1>7. raced \/ MovementMatchesPayment'
  BY <1>0 DEF MovementMatchesPayment, LivePayments
<1>8. raced \/ IncomeCountedOnce'
  BY <1>0, <1>1 DEF IncomeCountedOnce
<1>. QED
  BY <1>2, <1>3, <1>4, <1>5, <1>6, <1>7, <1>8, CommitStep DEF TablesOK

\* What a request that commits stands on.
LEMMA CommitFacts ==
  ASSUME DrawerInv, NEW p \in Requests
  PROVE  /\ TypeOK /\ ControlOK /\ job[p] \in JobRow /\ Carries(p)
         /\ raced \/ ReadIsFresh(p)
BY DEF DrawerInv, ControlOK, Jobs, ReadsAreFresh

\* addPayment: the payment and its movement, or its place in the queue.
LEMMA AddPaymentKeeps ==
  ASSUME DrawerInv, NEW p \in Requests, CommitAddPayment(p)
  PROVE  DrawerInv'
<1> DEFINE enters == job[p].session # None /\ PaymentMovesCash(job[p].method)
<1>0. /\ TypeOK /\ ControlOK /\ job[p] \in JobRow /\ Carries(p)
      /\ raced \/ ReadIsFresh(p)
  BY CommitFacts
<1>1. PICK j, m, q, income, row :
        /\ j = job[p] /\ m = NextId(movements) /\ q = NextId(payments)
        /\ income = IncomeRow(j.session, j.method, j.amount)
        /\ row = [location |-> j.location, method |-> j.method, amount |-> j.amount,
                  voided |-> FALSE, movement |-> IF enters THEN m ELSE None,
                  pending |-> Queued(j.session, j.method)]
  OBVIOUS
<1>2. /\ pc[p] = "commit" /\ j.kind = "addPayment"
      /\ Fresh(payments) # {} /\ Fresh(movements) # {}
      /\ movements' = (IF enters THEN Insert(movements, income) ELSE movements)
      /\ payments' = Insert(payments, row)
      /\ Finish(p)
      /\ sessions' = sessions /\ voidRequests' = voidRequests
  BY <1>1 DEF CommitAddPayment
<1>3. /\ j.location \in Locations /\ j.method \in AllMethods /\ j.amount \in Amounts
      /\ (j.session # None => j.session \in Existing(sessions) /\ j.session \in Sessions)
  BY <1>0, <1>1, <1>2, RowsExist DEF Carries, SessionOrNone
<1>4. /\ m \in Movements /\ m \notin Existing(movements)
      /\ q \in Payments /\ q \notin Existing(payments) /\ m # None
  BY <1>0, <1>1, <1>2, NewMovement, NewPayment, DrawerAssumption DEF DrawerAssumption
<1>5. /\ row \in PaymentRow /\ row.movement = (IF enters THEN m ELSE None)
      /\ row.method = j.method /\ row.amount = j.amount
      /\ row.pending <=> Queued(j.session, j.method)
  BY <1>1, <1>3, <1>4 DEF PaymentRow, Queued
<1>6. /\ payments' \in [Payments -> PaymentRow \cup {None}]
      /\ Existing(payments') = Existing(payments) \cup {q}
      /\ payments'[q] = row
      /\ \A x \in Payments : x # q => payments'[x] = payments[x]
  <2>1. /\ TypeOK /\ Fresh(payments) # {} /\ row \in PaymentRow
        /\ payments' = Insert(payments, row) /\ q = NextId(payments)
    BY <1>0, <1>1, <1>2, <1>5
  <2>. QED
    BY <2>1, NewPayment
<1>7. \A x \in Existing(payments) : x # q => payments'[x] = payments[x]
  BY <1>0, <1>6, RowsExist
<1>8. CASE enters
  <2>1. /\ income \in MovementRow /\ income.session = j.session /\ income.reverses = None
        /\ ~income.voided /\ income.method = j.method /\ income.amount = j.amount
    BY <1>1, <1>3, <1>8 DEF IncomeRow, MovementRow
  <2>2. /\ movements' \in [Movements -> MovementRow \cup {None}]
        /\ Existing(movements') = Existing(movements) \cup {m}
        /\ movements'[m] = income
        /\ \A x \in Movements : x # m => movements'[x] = movements[x]
    BY <1>0, <1>1, <1>2, <1>8, <2>1, NewMovement
  <2>3. \A x \in Existing(movements) : movements'[x] = movements[x]
    BY <1>0, <1>4, <2>2, RowsExist
  <2>4. TypeOK'
    BY <1>0, <1>2, <1>6, <2>2, FinishTypes DEF TypeOK
  <2>5. /\ payments'[q].movement = m /\ payments'[q].method = movements'[m].method
        /\ payments'[q].amount = movements'[m].amount
        /\ movements'[m].session \in Existing(sessions)
    BY <1>1, <1>3, <1>5, <1>6, <1>8, <2>1, <2>2
  <2>. QED
    BY <1>2, <1>4, <1>6, <1>7, <2>1, <2>2, <2>3, <2>4, <2>5, EntryKeeps
<1>9. CASE ~enters
  <2>1. TypeOK' /\ movements' = movements
    BY <1>0, <1>2, <1>6, <1>9, FinishTypes DEF TypeOK
  <2>2. row.movement = None /\ (PaymentMovesCash(row.method) => row.pending)
    BY <1>1, <1>5, <1>9 DEF Queued
  <2>. QED
    BY <1>2, <1>4, <1>6, <1>7, <2>1, <2>2, PaymentKeeps
<1>. QED
  BY <1>8, <1>9

\* A movement by hand, an expense or an order's cash: no payment names it.
LEMMA CreateMovementKeeps ==
  ASSUME DrawerInv, NEW p \in Requests, CommitCreateMovement(p)
  PROVE  DrawerInv'
<1>0. /\ TypeOK /\ ControlOK /\ job[p] \in JobRow /\ Carries(p)
      /\ raced \/ ReadIsFresh(p)
  BY CommitFacts
<1>1. PICK j, m, q, entry, row :
        /\ j = job[p] /\ m = NextId(movements) /\ q = NextId(payments)
        /\ entry = [IncomeRow(j.session, "CASH", j.amount)
                      EXCEPT !.income = j.concept # "EXPENSE", !.ofOrder = j.concept = "ORDER"]
        /\ row = [location |-> LocationOf[sessions[j.session].register],
                  method |-> "CASH", amount |-> j.amount, voided |-> FALSE,
                  movement |-> m, pending |-> FALSE]
  OBVIOUS
<1>2. /\ pc[p] = "commit" /\ j.kind = "createMovement"
      /\ Fresh(movements) # {} /\ (j.concept = "ORDER" => Fresh(payments) # {})
      /\ movements' = Insert(movements, entry)
      /\ payments' = (IF j.concept = "ORDER" THEN Insert(payments, row) ELSE payments)
      /\ Finish(p)
      /\ sessions' = sessions /\ voidRequests' = voidRequests
  BY <1>1 DEF CommitCreateMovement
<1>3. /\ j.session \in Existing(sessions) /\ j.session \in Sessions
      /\ sessions[j.session] \in SessionRow /\ j.amount \in Amounts
  BY <1>0, <1>1, <1>2, RowsExist DEF Carries
<1>4. /\ m \in Movements /\ m \notin Existing(movements) /\ m # None
  BY <1>0, <1>1, <1>2, NewMovement, DrawerAssumption DEF DrawerAssumption
<1>5. /\ entry \in MovementRow /\ entry.session = j.session /\ entry.reverses = None
      /\ ~entry.voided /\ entry.method = "CASH" /\ entry.amount = j.amount
      /\ entry.ofOrder <=> j.concept = "ORDER"
  BY <1>1, <1>3 DEF IncomeRow, MovementRow, AllMethods
<1>6. /\ movements' \in [Movements -> MovementRow \cup {None}]
      /\ Existing(movements') = Existing(movements) \cup {m}
      /\ movements'[m] = entry
      /\ \A x \in Movements : x # m => movements'[x] = movements[x]
  BY <1>0, <1>1, <1>2, <1>5, NewMovement
<1>7. \A x \in Existing(movements) : movements'[x] = movements[x]
  BY <1>0, <1>4, <1>6, RowsExist
<1>8. CASE j.concept = "ORDER"
  <2>1. LocationOf[sessions[j.session].register] \in Locations
    BY <1>3, DrawerAssumption DEF SessionRow, DrawerAssumption
  <2>2. /\ row \in PaymentRow /\ row.movement = m /\ row.method = "CASH"
        /\ row.amount = j.amount
    BY <1>1, <1>3, <1>4, <2>1 DEF PaymentRow, AllMethods
  <2>3. /\ payments' \in [Payments -> PaymentRow \cup {None}]
        /\ Existing(payments') = Existing(payments) \cup {q}
        /\ payments'[q] = row
        /\ \A x \in Payments : x # q => payments'[x] = payments[x]
        /\ q \notin Existing(payments)
    BY <1>0, <1>1, <1>2, <1>8, <2>2, NewPayment
  <2>4. \A x \in Existing(payments) : x # q => payments'[x] = payments[x]
    BY <1>0, <2>3, RowsExist
  <2>5. TypeOK'
    BY <1>0, <1>2, <1>6, <2>3, FinishTypes DEF TypeOK
  <2>. QED
    BY <1>2, <1>3, <1>4, <1>5, <1>6, <1>7, <2>2, <2>3, <2>4, <2>5, EntryKeeps
<1>9. CASE j.concept # "ORDER"
  <2>1. TypeOK' /\ payments' = payments /\ ~movements'[m].ofOrder
    BY <1>0, <1>2, <1>5, <1>6, <1>9, FinishTypes DEF TypeOK
  <2>. QED
    BY <1>2, <1>3, <1>4, <1>5, <1>6, <1>7, <2>1, EntryKeeps
<1>. QED
  BY <1>8, <1>9

\* The void of a payment without a movement.
LEMMA VoidPaymentKeeps ==
  ASSUME DrawerInv, NEW p \in Requests, CommitVoidPayment(p)
  PROVE  DrawerInv'
<1>0. TypeOK /\ Carries(p)
  BY CommitFacts
<1>1. PICK q : q = job[p].payment
  OBVIOUS
<1>2. /\ pc[p] = "voidPayment" /\ payments' = [payments EXCEPT ![q] = Voided(@)]
      /\ Finish(p) /\ sessions' = sessions /\ movements' = movements
      /\ voidRequests' = voidRequests
  BY <1>1 DEF CommitVoidPayment
<1>3. /\ q \in Existing(payments) /\ q \in Payments /\ payments[q] \in PaymentRow
  BY <1>0, <1>1, <1>2, RowsExist DEF Carries
<1>4. /\ payments'[q] = Voided(payments[q]) /\ payments'[q].voided
      /\ payments'[q].movement = payments[q].movement /\ payments'[q] \in PaymentRow
  BY <1>0, <1>2, <1>3 DEF TypeOK, Voided, PaymentRow
<1>5. payments' \in [Payments -> PaymentRow \cup {None}]
  BY <1>0, <1>2, <1>3, <1>4 DEF TypeOK
<1>6. TypeOK'
  BY <1>0, <1>2, <1>5, FinishTypes DEF TypeOK
<1>7. payments'[q] # None
  BY <1>4, RowAssumption DEF RowAssumption
<1>8. Existing(payments') = Existing(payments) \cup {q}
  BY <1>0, <1>2, <1>3, <1>7 DEF Existing, TypeOK
<1>9. \A x \in Existing(payments) : x # q => payments'[x] = payments[x]
  BY <1>0, <1>2, RowsExist DEF TypeOK
<1>. QED
  BY <1>2, <1>3, <1>4, <1>6, <1>8, <1>9, PaymentKeeps

\* An edit writes a payment and its movement: both take the edit, or the payment moves
\* no cash any more and its movement is voided and unlinked.
LEMMA EditBothKeeps ==
  ASSUME DrawerInv, TypeOK', NEW p \in Requests, Finish(p), pc[p] # "idle",
         sessions' = sessions, voidRequests' = voidRequests,
         NEW m \in Existing(movements), NEW q \in Existing(payments),
         payments[q].movement = m,
         Existing(movements') = Existing(movements), Existing(payments') = Existing(payments),
         \A x \in Existing(movements) : x # m => movements'[x] = movements[x],
         \A x \in Existing(payments) : x # q => payments'[x] = payments[x],
         movements'[m].session = movements[m].session,
         movements'[m].reverses = movements[m].reverses,
         movements'[m].ofOrder = movements[m].ofOrder,
         payments'[q].voided <=> payments[q].voided,
         \/ /\ payments'[q].movement = None /\ movements'[m].voided
            /\ ~PaymentMovesCash(payments'[q].method)
         \/ /\ payments'[q].movement = m /\ (movements'[m].voided <=> movements[m].voided)
            /\ payments'[q].method = movements'[m].method
            /\ payments'[q].amount = movements'[m].amount
  PROVE  DrawerInv'
<1>0. /\ TypeOK /\ References /\ OnePaymentPerMovement /\ OneOpen /\ Reversed
      /\ LivePaymentLiveMovement
      /\ raced \/ (NoOrphanPayment /\ MovementMatchesPayment /\ IncomeCountedOnce)
      /\ \A x \in Existing(movements) : x \in Movements /\ x # None
      /\ \A x \in Existing(payments) : x \in Payments /\ x # None
  BY RowsOf
<1>1. \A x \in Existing(payments) : x # q => payments[x].movement # m
  BY <1>0 DEF OnePaymentPerMovement
<1>2. /\ \A x \in Existing(movements) : x # m => LinkedPayments(x)' = LinkedPayments(x)
      /\ LinkedPayments(m)' \subseteq LinkedPayments(m)
      /\ movements'[m].voided \/ LinkedPayments(m)' = LinkedPayments(m)
  BY <1>0, <1>1 DEF LinkedPayments
<1>3. Grows
  BY <1>2 DEF Grows
<1>4. References' /\ OnePaymentPerMovement'
  BY <1>0, <1>1 DEF References, OnePaymentPerMovement
<1>5. Reversed'
  <2>1. \A x \in Existing(movements) : Reversals(x)' = Reversals(x)
    BY <1>0 DEF Reversals
  <2>2. \A x \in Existing(movements) : /\ movements'[x].session = movements[x].session
                                       /\ movements[x].voided => movements'[x].voided
    OBVIOUS
  <2>3. \A x : Reversals(x) \subseteq Existing(movements)
    BY DEF Reversals
  <2>. QED
    BY <1>0, <2>1, <2>2, <2>3 DEF Reversed
<1>6. LivePaymentLiveMovement'
  BY <1>0, <1>1 DEF LivePaymentLiveMovement, LivePayments, References
<1>7. OneOpen' /\ \A r \in BeingOpened(p) : OpenOf(r)' = {}
  BY OthersOpen DEF OpenSessions, Existing
<1>8. raced \/ NoOrphanPayment'
  BY <1>0 DEF NoOrphanPayment, LivePayments
<1>9. raced \/ MovementMatchesPayment'
  BY <1>0, <1>1 DEF MovementMatchesPayment, LivePayments, References
<1>10. raced \/ IncomeCountedOnce'
  BY <1>0, <1>2 DEF IncomeCountedOnce
<1>. QED
  BY <1>3, <1>4, <1>5, <1>6, <1>7, <1>8, <1>9, <1>10, CommitStep DEF TablesOK

\* updatePayment: the movement is voided, edited, created or left as it is.
LEMMA EditKeeps ==
  ASSUME DrawerInv, NEW p \in Requests, CommitEdit(p)
  PROVE  DrawerInv'
<1>0. /\ TypeOK /\ References /\ LivePaymentLiveMovement /\ job[p] \in JobRow
      /\ Carries(p) /\ (raced \/ ReadIsFresh(p))
      /\ raced \/ (NoOrphanPayment /\ MovementMatchesPayment /\ IncomeCountedOnce)
  BY CommitFacts, RowsOf
<1>1. PICK j, q, old, row, m :
        /\ j = job[p] /\ q = j.payment /\ old = payments[q] /\ m = old.movement
        /\ row = [old EXCEPT !.method = j.method, !.amount = j.amount]
  OBVIOUS
<1>2. /\ pc[p] = "commit" /\ j.kind = "updatePayment"
      /\ Finish(p) /\ sessions' = sessions /\ voidRequests' = voidRequests
  BY <1>1 DEF CommitEdit
<1>3. /\ q \in Existing(payments) /\ q \in Payments /\ old \in PaymentRow
      /\ j.method \in AllMethods /\ j.amount \in Amounts
      /\ (j.session # None => j.session \in Existing(sessions) /\ j.session \in Sessions)
  BY <1>0, <1>1, <1>2, RowsExist DEF Carries, SessionOrNone
<1>4. /\ row \in PaymentRow /\ row.method = j.method /\ row.amount = j.amount
      /\ row.voided = old.voided /\ row.movement = m /\ row.pending = old.pending
      /\ row.voided \in BOOLEAN /\ m \in Movements \cup {None}
  BY <1>1, <1>3 DEF PaymentRow
<1>5. m # None => /\ m \in Existing(movements) /\ m \in Movements
                  /\ movements[m] \in MovementRow
  BY <1>0, <1>1, <1>3, RowsExist DEF References
\* What writing one payment does to the table.
<1>6. ASSUME NEW new \in PaymentRow, payments' = [payments EXCEPT ![q] = new]
      PROVE  /\ payments' \in [Payments -> PaymentRow \cup {None}] /\ payments'[q] = new
             /\ Existing(payments') = Existing(payments)
             /\ \A x \in Existing(payments) : x # q => payments'[x] = payments[x]
  <2>1. new # None
    BY RowAssumption DEF RowAssumption
  <2>2. payments \in [Payments -> PaymentRow \cup {None}]
    BY <1>0 DEF TypeOK
  <2>. QED
    BY <1>3, <1>6, <2>1, <2>2 DEF Existing
<1>7. ASSUME NEW new \in MovementRow, m # None, movements' = [movements EXCEPT ![m] = new]
      PROVE  /\ movements' \in [Movements -> MovementRow \cup {None}] /\ movements'[m] = new
             /\ Existing(movements') = Existing(movements)
             /\ \A x \in Existing(movements) : x # m => movements'[x] = movements[x]
  <2>1. new # None
    BY RowAssumption DEF RowAssumption
  <2>2. movements \in [Movements -> MovementRow \cup {None}]
    BY <1>0 DEF TypeOK
  <2>. QED
    BY <1>5, <1>7, <2>1, <2>2 DEF Existing
<1>8. CASE /\ m # None /\ ~PaymentMovesCash(j.method)
           /\ movements' = [movements EXCEPT ![m] = Voided(@)]
           /\ payments' = [payments EXCEPT ![q] = Unlinked(row)]
  <2>1. PICK new, mov : new = Unlinked(row) /\ mov = Voided(movements[m])
    OBVIOUS
  <2>2. /\ new \in PaymentRow /\ new.movement = None /\ new.voided = old.voided
        /\ new.method = j.method
    BY <1>4, <2>1 DEF Unlinked, PaymentRow
  <2>3. /\ mov \in MovementRow /\ mov.voided /\ mov.session = movements[m].session
        /\ mov.reverses = movements[m].reverses /\ mov.ofOrder = movements[m].ofOrder
    BY <1>5, <1>8, <2>1 DEF Voided, MovementRow
  <2>4. /\ payments' \in [Payments -> PaymentRow \cup {None}] /\ payments'[q] = new
        /\ Existing(payments') = Existing(payments)
        /\ \A x \in Existing(payments) : x # q => payments'[x] = payments[x]
    BY <1>6, <1>8, <2>1, <2>2
  <2>5. /\ movements' \in [Movements -> MovementRow \cup {None}] /\ movements'[m] = mov
        /\ Existing(movements') = Existing(movements)
        /\ \A x \in Existing(movements) : x # m => movements'[x] = movements[x]
    BY <1>7, <1>8, <2>1, <2>3
  <2>6. TypeOK'
    BY <1>0, <1>2, <2>4, <2>5, FinishTypes DEF TypeOK
  <2>7. /\ m \in Existing(movements) /\ payments[q].movement = m
        /\ payments'[q].voided <=> payments[q].voided
        /\ payments'[q].movement = None /\ ~PaymentMovesCash(payments'[q].method)
        /\ movements'[m].session = movements[m].session
        /\ movements'[m].reverses = movements[m].reverses
        /\ movements'[m].ofOrder = movements[m].ofOrder /\ movements'[m].voided
    BY <1>1, <1>5, <1>8, <2>2, <2>3, <2>4, <2>5
  <2>. QED
    BY <1>2, <1>3, <2>4, <2>5, <2>6, <2>7, EditBothKeeps
<1>9. CASE /\ m # None /\ PaymentMovesCash(j.method)
           /\ movements' = [movements EXCEPT ![m] = Edited(@, j.method, j.amount)]
           /\ payments' = [payments EXCEPT ![q] = row]
  <2>1. PICK mov : mov = Edited(movements[m], j.method, j.amount)
    OBVIOUS
  <2>2. /\ mov \in MovementRow /\ mov.voided = movements[m].voided
        /\ mov.session = movements[m].session /\ mov.reverses = movements[m].reverses
        /\ mov.ofOrder = movements[m].ofOrder /\ mov.method = j.method
        /\ mov.amount = j.amount
    BY <1>3, <1>5, <1>9, <2>1 DEF Edited, MovementRow
  <2>3. /\ payments' \in [Payments -> PaymentRow \cup {None}] /\ payments'[q] = row
        /\ Existing(payments') = Existing(payments)
        /\ \A x \in Existing(payments) : x # q => payments'[x] = payments[x]
    BY <1>4, <1>6, <1>9
  <2>4. /\ movements' \in [Movements -> MovementRow \cup {None}] /\ movements'[m] = mov
        /\ Existing(movements') = Existing(movements)
        /\ \A x \in Existing(movements) : x # m => movements'[x] = movements[x]
    BY <1>7, <1>9, <2>1, <2>2
  <2>5. TypeOK'
    BY <1>0, <1>2, <2>3, <2>4, FinishTypes DEF TypeOK
  <2>6. /\ m \in Existing(movements) /\ payments[q].movement = m
        /\ payments'[q].voided <=> payments[q].voided
        /\ payments'[q].movement = m /\ payments'[q].method = movements'[m].method
        /\ payments'[q].amount = movements'[m].amount
        /\ movements'[m].session = movements[m].session
        /\ movements'[m].reverses = movements[m].reverses
        /\ movements'[m].ofOrder = movements[m].ofOrder
        /\ movements'[m].voided <=> movements[m].voided
    BY <1>1, <1>4, <1>5, <1>9, <2>2, <2>3, <2>4
  <2>. QED
    BY <1>2, <1>3, <2>3, <2>4, <2>5, <2>6, EditBothKeeps
<1>10. CASE /\ m = None /\ ~PaymentMovesCash(j.previous) /\ PaymentMovesCash(j.method)
            /\ Fresh(movements) # {} /\ j.session # None
            /\ movements' = Insert(movements, IncomeRow(j.session, j.method, j.amount))
            /\ payments' = [payments EXCEPT ![q] = [row EXCEPT !.movement = NextId(movements)]]
  <2>1. PICK new, mov, n : /\ n = NextId(movements) /\ new = [row EXCEPT !.movement = n]
                           /\ mov = IncomeRow(j.session, j.method, j.amount)
    OBVIOUS
  <2>2. n \in Movements /\ n \notin Existing(movements)
    BY <1>0, <1>10, <2>1, NewMovement
  <2>3. /\ new \in PaymentRow /\ new.movement = n /\ new.method = j.method
        /\ new.amount = j.amount
    BY <1>4, <2>1, <2>2 DEF PaymentRow
  <2>4. /\ mov \in MovementRow /\ mov.session = j.session /\ mov.reverses = None
        /\ ~mov.voided /\ mov.method = j.method /\ mov.amount = j.amount
    BY <1>3, <1>10, <2>1 DEF IncomeRow, MovementRow
  <2>5. /\ payments' \in [Payments -> PaymentRow \cup {None}] /\ payments'[q] = new
        /\ Existing(payments') = Existing(payments) \cup {q}
        /\ \A x \in Existing(payments) : x # q => payments'[x] = payments[x]
    BY <1>3, <1>6, <1>10, <2>1, <2>3
  <2>6. /\ movements' \in [Movements -> MovementRow \cup {None}]
        /\ Existing(movements') = Existing(movements) \cup {n}
        /\ movements'[n] = mov
        /\ \A x \in Movements : x # n => movements'[x] = movements[x]
    BY <1>0, <1>10, <2>1, <2>4, NewMovement
  <2>7. \A x \in Existing(movements) : movements'[x] = movements[x]
    BY <1>0, <2>2, <2>6, RowsExist
  <2>8. TypeOK'
    BY <1>0, <1>2, <2>5, <2>6, FinishTypes DEF TypeOK
  <2>9. /\ payments[q].movement = None
        /\ payments'[q].movement = n /\ payments'[q].method = movements'[n].method
        /\ payments'[q].amount = movements'[n].amount
        /\ movements'[n].session \in Existing(sessions) /\ movements'[n].reverses = None
        /\ ~movements'[n].voided
    BY <1>1, <1>3, <1>10, <2>3, <2>4, <2>5, <2>6
  <2>. QED
    BY <1>2, <2>2, <2>5, <2>6, <2>7, <2>8, <2>9, EntryKeeps
\* Read from a fresh payment, and not edited into the drawer: the payment alone.
<1>11. ASSUME NEW new \in PaymentRow, m = None, movements' = movements,
              payments' = [payments EXCEPT ![q] = new],
              new.movement = None, new.voided = old.voided,
              new.voided \/ raced \/ (PaymentMovesCash(new.method) => new.pending)
       PROVE  DrawerInv'
  <2>1. /\ payments' \in [Payments -> PaymentRow \cup {None}] /\ payments'[q] = new
        /\ Existing(payments') = Existing(payments) \cup {q}
        /\ \A x \in Existing(payments) : x # q => payments'[x] = payments[x]
    BY <1>3, <1>6, <1>11
  <2>2. TypeOK'
    BY <1>0, <1>2, <1>11, <2>1, FinishTypes DEF TypeOK
  <2>3. /\ payments[q].movement = None /\ payments'[q].movement = None
        /\ payments'[q].voided <=> payments[q].voided
        /\ \/ raced \/ payments'[q].voided
           \/ PaymentMovesCash(payments'[q].method) => payments'[q].pending
    BY <1>1, <1>11, <2>1
  <2>. QED
    BY <1>2, <1>3, <1>11, <2>1, <2>2, <2>3, PaymentKeeps
<1>12. CASE /\ m = None /\ ~PaymentMovesCash(j.previous) /\ PaymentMovesCash(j.method)
            /\ payments' = [payments EXCEPT ![q] = [row EXCEPT !.pending = TRUE]]
            /\ movements' = movements
  <2>1. PICK new : new = [row EXCEPT !.pending = TRUE]
    OBVIOUS
  <2>2. new \in PaymentRow /\ new.movement = None /\ new.voided = old.voided /\ new.pending
    BY <1>4, <1>12, <2>1 DEF PaymentRow
  <2>. QED
    BY <1>11, <1>12, <2>1, <2>2
<1>13. CASE /\ m = None /\ (PaymentMovesCash(j.previous) \/ ~PaymentMovesCash(j.method))
            /\ payments' = [payments EXCEPT ![q] = row] /\ movements' = movements
  <2>1. raced \/ j.previous = old.method
    BY <1>0, <1>1, <1>2 DEF ReadIsFresh
  <2>2. raced \/ old.voided \/ ~PaymentMovesCash(old.method) \/ old.pending
    BY <1>0, <1>1, <1>3, <1>13 DEF NoOrphanPayment, LivePayments
  <2>3. row.voided \/ raced \/ (PaymentMovesCash(row.method) => row.pending)
    BY <1>4, <1>13, <2>1, <2>2
  <2>. QED
    BY <1>4, <1>11, <1>13, <2>3
<1>. QED
  BY <1>1, <1>8, <1>9, <1>10, <1>12, <1>13 DEF CommitEdit

\* What a change of one request to void, or a new one, does to their table.
LEMMA VoidRequestsGrow ==
  ASSUME DrawerInv, NEW v \in VoidRequests, NEW row \in VoidRow,
         voidRequests' = [voidRequests EXCEPT ![v] = row],
         sessions' = sessions, movements' = movements, payments' = payments,
         IF row.movement # None THEN row.movement \in Existing(movements)
         ELSE row.payment \in Existing(payments)
  PROVE  /\ voidRequests' \in [VoidRequests -> VoidRow \cup {None}]
         /\ Existing(voidRequests) \subseteq Existing(voidRequests')
         /\ References'
<1>1. voidRequests \in [VoidRequests -> VoidRow \cup {None}] /\ row # None /\ References
  BY RowAssumption DEF DrawerInv, TypeOK, RowAssumption
<1>2. /\ voidRequests' \in [VoidRequests -> VoidRow \cup {None}] /\ voidRequests'[v] = row
      /\ \A x \in VoidRequests : x # v => voidRequests'[x] = voidRequests[x]
  BY <1>1
<1>3. Existing(voidRequests') = Existing(voidRequests) \cup {v}
  BY <1>1, <1>2 DEF Existing
<1>4. \A x \in Existing(voidRequests) : x \in VoidRequests
  BY <1>1 DEF Existing
<1>5. References'
  BY <1>1, <1>2, <1>3, <1>4 DEF References
<1>. QED
  BY <1>2, <1>3, <1>5

\* A void request names what exists.
LEMMA RequestVoidKeeps ==
  ASSUME DrawerInv, RequestVoid
  PROVE  DrawerInv'
<1>0. /\ TypeOK /\ ControlOK /\ References /\ DrawerAssumption
  BY DrawerAssumption DEF DrawerInv
<1>1. PICK q, m, target :
        /\ q \in Existing(payments) /\ m = LiveMovement(q)
        /\ target = [movement |-> m, payment |-> IF m = None THEN q ELSE None,
                     status |-> "PENDING"]
        /\ Fresh(voidRequests) # {} /\ voidRequests' = Insert(voidRequests, target)
  BY DEF RequestVoid
<1>2. /\ starts < MaxStarts /\ starts' = starts + 1
      /\ raced' = (raced \/ \E p \in Requests : pc[p] # "idle")
      /\ UNCHANGED <<sessions, movements, payments, plock, pc, job>>
  BY DEF RequestVoid
<1>3. q \in Payments /\ (m # None => m \in Existing(movements) /\ m \in Movements)
  BY <1>0, <1>1, RowsExist DEF LiveMovement, References
<1>4. /\ target \in VoidRow /\ target.movement = m
      /\ (m = None => target.payment = q)
  BY <1>1, <1>3 DEF VoidRow
<1>5. PICK v : v = NextId(voidRequests)
  OBVIOUS
<1>6. v \in VoidRequests /\ voidRequests' = [voidRequests EXCEPT ![v] = target]
  BY <1>0, <1>1, <1>5, NextIsFresh DEF Insert, Fresh, TypeOK, DrawerAssumption
<1>7. /\ voidRequests' \in [VoidRequests -> VoidRow \cup {None}]
      /\ Existing(voidRequests) \subseteq Existing(voidRequests') /\ References'
  BY <1>1, <1>2, <1>3, <1>4, <1>6, VoidRequestsGrow
<1>8. TypeOK'
  BY <1>0, <1>2, <1>7 DEF TypeOK, DrawerAssumption
<1>9. ControlOK' /\ Alone' /\ (raced => raced')
  BY <1>0, <1>2 DEF ControlOK, Alone, DrawerInv
<1>. QED
  BY <1>0, <1>2, <1>7, <1>8, <1>9, ControlStep DEF DrawerAssumption

\* An approval answers the request and goes on to the void.
LEMMA ApprovalKeeps ==
  ASSUME DrawerInv, NEW p \in Requests, CommitApproval(p)
  PROVE  DrawerInv'
<1>0. /\ TypeOK /\ ControlOK /\ References /\ job[p] \in JobRow /\ Carries(p)
  BY CommitFacts, RowsOf
<1>1. PICK j, v, row : /\ j = job[p] /\ v = j.request
                       /\ row = [voidRequests[v] EXCEPT !.status = "APPROVED"]
  OBVIOUS
<1>2. /\ pc[p] = "review" /\ voidRequests' = [voidRequests EXCEPT ![v] = row]
      /\ pc' = [pc EXCEPT ![p] = VoidLabel(j.movement)]
      /\ sessions' = sessions /\ movements' = movements /\ payments' = payments
      /\ plock' = plock /\ job' = job /\ starts' = starts /\ raced' = raced
  BY <1>1 DEF CommitApproval
<1>3. /\ v \in Existing(voidRequests) /\ v \in VoidRequests /\ voidRequests[v] \in VoidRow
      /\ IF j.movement # None THEN j.movement \in Existing(movements)
         ELSE j.payment \in Existing(payments)
  BY <1>0, <1>1, <1>2, RowsExist DEF Carries
<1>4. /\ row \in VoidRow /\ row.movement = voidRequests[v].movement
      /\ row.payment = voidRequests[v].payment
  BY <1>1, <1>3 DEF VoidRow
<1>5. /\ voidRequests' \in [VoidRequests -> VoidRow \cup {None}]
      /\ Existing(voidRequests) \subseteq Existing(voidRequests') /\ References'
  BY <1>0, <1>2, <1>3, <1>4, VoidRequestsGrow DEF References
<1>6. TypeOK'
  BY <1>0, <1>2, <1>5 DEF TypeOK
<1>7. /\ VoidLabel(j.movement) \in Labels
      /\ j.movement # None => VoidLabel(j.movement) = "readMovement"
      /\ j.movement = None => VoidLabel(j.movement) = "voidPayment"
  BY DEF VoidLabel, Labels
<1>8. /\ ControlOK' /\ Alone' /\ pc'[p] = VoidLabel(j.movement)
      /\ \A q \in Requests : q # p => pc'[q] = pc[q] /\ job'[q] = job[q]
  BY <1>0, <1>2, <1>7 DEF ControlOK, Alone, DrawerInv
<1>9. Carries(p)' /\ ReadIsFresh(p)' /\ pc'[p] # "flush"
  BY <1>1, <1>2, <1>3, <1>7, <1>8 DEF Carries, ReadIsFresh
<1>. QED
  BY <1>2, <1>5, <1>6, <1>8, <1>9, ControlStep

\* A rejection answers the request.
LEMMA RejectionKeeps ==
  ASSUME DrawerInv, NEW p \in Requests, CommitRejection(p)
  PROVE  DrawerInv'
<1>0. /\ TypeOK /\ ControlOK /\ References /\ job[p] \in JobRow /\ Carries(p)
  BY CommitFacts, RowsOf
<1>1. PICK v, row : /\ v = job[p].request
                    /\ row = [voidRequests[v] EXCEPT !.status = "REJECTED"]
  OBVIOUS
<1>2. /\ pc[p] = "review" /\ voidRequests' = [voidRequests EXCEPT ![v] = row] /\ Finish(p)
      /\ sessions' = sessions /\ movements' = movements /\ payments' = payments
  BY <1>1 DEF CommitRejection
<1>3. v \in Existing(voidRequests) /\ v \in VoidRequests /\ voidRequests[v] \in VoidRow
  BY <1>0, <1>1, <1>2, RowsExist DEF Carries
<1>4. /\ row \in VoidRow /\ row.movement = voidRequests[v].movement
      /\ row.payment = voidRequests[v].payment
  BY <1>1, <1>3 DEF VoidRow
<1>5. /\ voidRequests' \in [VoidRequests -> VoidRow \cup {None}]
      /\ Existing(voidRequests) \subseteq Existing(voidRequests') /\ References'
  BY <1>0, <1>2, <1>3, <1>4, VoidRequestsGrow DEF References
<1>6. TypeOK'
  BY <1>0, <1>2, <1>5, FinishTypes DEF TypeOK
<1>7. Grows
  BY <1>2, <1>5 DEF Grows, LinkedPayments
<1>8. /\ ControlOK' /\ Alone'
      /\ \A q \in Requests : q # p => pc'[q] = pc[q] /\ job'[q] = job[q]
      /\ pc'[p] = "idle" /\ raced' = raced
  BY <1>2, <1>6, <1>7, FinishControl
<1>9. Carries(p)' /\ ReadIsFresh(p)' /\ pc'[p] # "flush" /\ (raced => raced')
  BY <1>8 DEF Carries, ReadIsFresh
<1>. QED
  BY <1>2, <1>5, <1>6, <1>8, <1>9, ControlStep

\* The void of a movement: the reversal is the first, and the payment goes with it.
LEMMA VoidMovementKeeps ==
  ASSUME DrawerInv, NEW p \in Requests, CommitVoidMovement(p)
  PROVE  DrawerInv'
<1>0. /\ TypeOK /\ ControlOK /\ References /\ OnePaymentPerMovement /\ OneOpen /\ Reversed
      /\ LivePaymentLiveMovement /\ job[p] \in JobRow /\ Carries(p)
      /\ raced \/ (NoOrphanPayment /\ MovementMatchesPayment /\ IncomeCountedOnce)
      /\ \A x \in Existing(movements) : x \in Movements /\ x # None
      /\ \A x \in Existing(payments) : x \in Payments /\ x # None
  BY CommitFacts, RowsOf
<1>1. PICK j, m, n, q, reversal :
        /\ j = job[p] /\ m = j.movement /\ n = NextId(movements) /\ q = j.payment
        /\ reversal = [movements[m] EXCEPT !.session = j.session, !.voided = FALSE,
                          !.method = j.method, !.amount = j.amount,
                          !.income = ~@, !.reverses = m]
  OBVIOUS
<1>2. /\ pc[p] = "voidMovement" /\ Fresh(movements) # {} /\ Reversals(m) = {}
      /\ movements' = [Insert(movements, reversal) EXCEPT ![m] = Voided(@)]
      /\ payments' = (IF q = None THEN payments ELSE [payments EXCEPT ![q] = Voided(@)])
      /\ Finish(p) /\ sessions' = sessions /\ voidRequests' = voidRequests
  BY <1>1 DEF CommitVoidMovement
<1>3. /\ m \in Existing(movements) /\ m \in Movements /\ movements[m] \in MovementRow
      /\ j.session \in Existing(sessions) /\ j.session \in Sessions
      /\ j.method \in AllMethods /\ j.amount \in Amounts
      /\ sessions[j.session].register = sessions[movements[m].session].register
      /\ (q # None => q \in Existing(payments)) /\ LinkedPayments(m) \subseteq {q}
  BY <1>0, <1>1, <1>2, RowsExist DEF Carries
<1>4. /\ reversal \in MovementRow /\ reversal.session = j.session /\ reversal.reverses = m
      /\ ~reversal.voided
  <2>1. ASSUME NEW row \in MovementRow, NEW s \in Sessions, NEW method \in AllMethods,
               NEW amount \in Amounts, NEW x \in Movements
        PROVE  LET r == [row EXCEPT !.session = s, !.voided = FALSE, !.method = method,
                                    !.amount = amount, !.income = ~@, !.reverses = x]
               IN  r \in MovementRow /\ r.session = s /\ r.reverses = x /\ ~r.voided
    BY DEF MovementRow
  <2>2. /\ movements[m] \in MovementRow /\ j.session \in Sessions /\ m \in Movements
        /\ j.method \in AllMethods /\ j.amount \in Amounts
    BY <1>3
  <2>3. LET r == [movements[m] EXCEPT !.session = j.session, !.voided = FALSE,
                     !.method = j.method, !.amount = j.amount, !.income = ~@, !.reverses = m]
        IN  r \in MovementRow /\ r.session = j.session /\ r.reverses = m /\ ~r.voided
    BY <2>1, <2>2
  <2>. QED
    BY <1>1, <2>3
<1>5. /\ n \in Movements /\ n \notin Existing(movements)
      /\ Insert(movements, reversal) \in [Movements -> MovementRow \cup {None}]
      /\ Existing(Insert(movements, reversal)) = Existing(movements) \cup {n}
      /\ Insert(movements, reversal)[n] = reversal
      /\ \A x \in Movements : x # n => Insert(movements, reversal)[x] = movements[x]
  <2>1. TypeOK /\ Fresh(movements) # {} /\ reversal \in MovementRow /\ n = NextId(movements)
    BY <1>0, <1>1, <1>2, <1>4
  <2>. QED
    BY <2>1, NewMovement
<1>6. PICK mov : mov = Voided(movements[m])
  OBVIOUS
<1>7. /\ mov \in MovementRow /\ mov.voided /\ mov.session = movements[m].session
      /\ mov.reverses = movements[m].reverses /\ mov # None
  BY <1>3, <1>6, RowAssumption DEF Voided, MovementRow, RowAssumption
<1>8. /\ movements' \in [Movements -> MovementRow \cup {None}]
      /\ movements'[m] = mov /\ movements'[n] = reversal
      /\ \A x \in Existing(movements) : x # m => movements'[x] = movements[x]
      /\ Existing(movements') = Existing(movements) \cup {n}
  <2>1. Insert(movements, reversal)[m] = movements[m] /\ m # n
    BY <1>3, <1>5
  <2>2. movements' = [Insert(movements, reversal) EXCEPT ![m] = mov]
    BY <1>2, <1>6, <2>1
  <2>. QED
    BY <1>0, <1>3, <1>5, <1>7, <2>1, <2>2 DEF Existing
<1>9. /\ payments' \in [Payments -> PaymentRow \cup {None}]
      /\ Existing(payments') = Existing(payments)
      /\ \A x \in Existing(payments) : x # q => payments'[x] = payments[x]
      /\ q # None => /\ payments'[q].voided /\ payments'[q].movement = payments[q].movement
  <2>1. payments \in [Payments -> PaymentRow \cup {None}]
    BY <1>0 DEF TypeOK
  <2>2. CASE q # None
    <3>1. PICK new : new = Voided(payments[q])
      OBVIOUS
    <3>2. q \in Payments /\ payments[q] \in PaymentRow
      BY <1>0, <1>3, <2>2, RowsExist
    <3>3. /\ new \in PaymentRow /\ new.voided /\ new.movement = payments[q].movement
          /\ new # None
      BY <3>1, <3>2, RowAssumption DEF Voided, PaymentRow, RowAssumption
    <3>4. payments' = [payments EXCEPT ![q] = new]
      BY <1>2, <2>2, <3>1
    <3>. QED
      BY <1>3, <2>1, <2>2, <3>2, <3>3, <3>4 DEF Existing
  <2>. QED
    BY <1>2, <2>1, <2>2
<1>10. TypeOK'
  BY <1>0, <1>2, <1>8, <1>9, FinishTypes DEF TypeOK
<1>11. \A x \in Existing(payments) : payments'[x].movement = payments[x].movement
  BY <1>0, <1>9
<1>12. \A x \in Existing(movements) : LinkedPayments(x)' = LinkedPayments(x)
  BY <1>9, <1>11 DEF LinkedPayments
<1>13. Grows
  BY <1>2, <1>7, <1>8, <1>9, <1>12 DEF Grows
<1>14. References'
  <2>1. \A x \in Existing(movements') :
          /\ movements'[x].session \in Existing(sessions)
          /\ movements'[x].reverses # None => movements'[x].reverses \in Existing(movements')
    BY <1>0, <1>3, <1>4, <1>7, <1>8 DEF References
  <2>2. \A x \in Existing(payments') :
          payments'[x].movement # None => payments'[x].movement \in Existing(movements')
    BY <1>0, <1>8, <1>9, <1>11 DEF References
  <2>. QED
    BY <1>0, <1>2, <1>8, <1>9, <2>1, <2>2 DEF References
<1>15. OnePaymentPerMovement'
  BY <1>0, <1>9, <1>11 DEF OnePaymentPerMovement
<1>16. Reversed'
  <2>1. \A x \in Existing(movements) : x # m => Reversals(x)' = Reversals(x)
    BY <1>0, <1>4, <1>7, <1>8 DEF Reversals
  <2>2. Reversals(m)' = {n}
    <3>1. \A x \in Existing(movements) : movements[x].reverses # m
      BY <1>2 DEF Reversals
    <3>. QED
      BY <1>3, <1>4, <1>7, <1>8, <3>1 DEF Reversals
  <2>3. Reversals(n)' = {}
    <3>1. \A x \in Existing(movements) : movements[x].reverses # n
      BY <1>0, <1>5, DrawerAssumption DEF References, DrawerAssumption
    <3>. QED
      BY <1>3, <1>4, <1>5, <1>7, <1>8, <3>1 DEF Reversals
  <2>4. \A x : Reversals(x) \subseteq Existing(movements)
    BY DEF Reversals
  <2>5. \A x \in Existing(movements) : /\ movements'[x].session = movements[x].session
                                       /\ movements[x].voided => movements'[x].voided
    BY <1>7, <1>8
  <2>6. ASSUME NEW x \in Existing(movements), NEW y \in Reversals(x)
        PROVE  /\ movements'[x].voided /\ Reversals(x)' = {y}
               /\ sessions[movements'[y].session].register
                    = sessions[movements'[x].session].register
    <3>1. x # m /\ y \in Existing(movements)
      BY <1>2, <2>4, <2>6
    <3>2. /\ movements[x].voided /\ Reversals(x) = {y}
          /\ sessions[movements[y].session].register = sessions[movements[x].session].register
      BY <1>0, <2>6 DEF Reversed
    <3>3. Reversals(x)' = {y}
      BY <2>1, <3>1, <3>2
    <3>4. /\ movements'[x].voided /\ movements'[x].session = movements[x].session
          /\ movements'[y].session = movements[y].session
      BY <2>5, <3>1, <3>2
    <3>. QED
      BY <3>2, <3>3, <3>4
  <2>7. /\ movements'[m].voided
        /\ sessions[movements'[n].session].register = sessions[movements'[m].session].register
    BY <1>3, <1>4, <1>7, <1>8
  <2>. QED
    BY <1>2, <1>8, <2>1, <2>2, <2>3, <2>6, <2>7 DEF Reversed
<1>17. LivePaymentLiveMovement'
  <2>1. \A x \in Existing(payments) : payments[x].movement = m => x = q
    BY <1>3 DEF LinkedPayments
  <2>. QED
    BY <1>0, <1>8, <1>9, <1>11, <2>1 DEF LivePaymentLiveMovement, LivePayments, References
<1>18. OneOpen' /\ \A r \in BeingOpened(p) : OpenOf(r)' = {}
  BY <1>2, OthersOpen DEF OpenSessions, Existing
<1>19. raced \/ NoOrphanPayment'
  BY <1>0, <1>9 DEF NoOrphanPayment, LivePayments
<1>20. raced \/ MovementMatchesPayment'
  <2>1. \A x \in Existing(payments) : payments[x].movement = m => x = q
    BY <1>3 DEF LinkedPayments
  <2>. QED
    BY <1>0, <1>8, <1>9, <1>11, <2>1 DEF MovementMatchesPayment, LivePayments, References
<1>21. raced \/ IncomeCountedOnce'
  BY <1>0, <1>3, <1>4, <1>7, <1>8, <1>12 DEF IncomeCountedOnce
<1>. QED
  BY <1>2, <1>10, <1>13, <1>14, <1>15, <1>16, <1>17, <1>18, <1>19, <1>20, <1>21, CommitStep
     DEF TablesOK

\* Closing a session leaves its register without one.
LEMMA CloseKeeps ==
  ASSUME DrawerInv, NEW p \in Requests, CommitCloseSession(p)
  PROVE  DrawerInv'
<1>0. /\ TypeOK /\ References /\ OnePaymentPerMovement /\ OneOpen /\ Reversed
      /\ LivePaymentLiveMovement /\ job[p] \in JobRow /\ Carries(p)
      /\ raced \/ (NoOrphanPayment /\ MovementMatchesPayment /\ IncomeCountedOnce)
  BY CommitFacts, RowsOf
<1>1. PICK s, row : /\ s = job[p].session
                    /\ row = [sessions[s] EXCEPT !.open = FALSE, !.systemBalance = job[p].amount]
  OBVIOUS
<1>2. /\ pc[p] = "close" /\ Finish(p)
      /\ sessions' = [sessions EXCEPT ![s].open = FALSE, ![s].systemBalance = job[p].amount]
      /\ movements' = movements /\ payments' = payments /\ voidRequests' = voidRequests
  BY <1>1 DEF CommitCloseSession
<1>3. /\ s \in Existing(sessions) /\ s \in Sessions /\ sessions[s] \in SessionRow
      /\ job[p].amount \in Int
  BY <1>0, <1>1, <1>2, RowsExist DEF Carries, JobRow
<1>4. /\ row \in SessionRow /\ row.register = sessions[s].register /\ ~row.open
      /\ row # None
  BY <1>1, <1>3, RowAssumption DEF SessionRow, RowAssumption
<1>5. /\ sessions' \in [Sessions -> SessionRow \cup {None}] /\ sessions'[s] = row
      /\ Existing(sessions') = Existing(sessions)
      /\ \A x \in Existing(sessions) : x # s => sessions'[x] = sessions[x]
  <2>1. sessions \in [Sessions -> SessionRow \cup {None}]
    BY <1>0 DEF TypeOK
  <2>2. sessions' = [sessions EXCEPT ![s] = row]
    BY <1>1, <1>2, <1>3, <2>1
  <2>. QED
    BY <1>3, <1>4, <2>1, <2>2 DEF Existing
<1>6. TypeOK'
  BY <1>0, <1>2, <1>5, FinishTypes DEF TypeOK
<1>7. \A x \in Existing(sessions) : sessions'[x].register = sessions[x].register
  BY <1>4, <1>5
<1>8. Grows
  BY <1>2, <1>5, <1>7 DEF Grows, LinkedPayments
<1>9. References' /\ OnePaymentPerMovement' /\ LivePaymentLiveMovement'
  BY <1>0, <1>2, <1>5 DEF References, OnePaymentPerMovement, LivePaymentLiveMovement, LivePayments
<1>10. Reversed'
  <2>1. \A x : Reversals(x)' = Reversals(x) /\ Reversals(x) \subseteq Existing(movements)
    BY <1>2 DEF Reversals
  <2>2. \A x \in Existing(movements) :
          sessions'[movements[x].session].register = sessions[movements[x].session].register
    BY <1>0, <1>7 DEF References
  <2>3. Existing(movements') = Existing(movements)
    BY <1>2
  <2>4. ASSUME NEW x \in Existing(movements), NEW y \in Reversals(x)
        PROVE  /\ movements'[x].voided /\ Reversals(x)' = {y}
               /\ sessions'[movements'[y].session].register
                    = sessions'[movements'[x].session].register
    <3>1. /\ movements[x].voided /\ Reversals(x) = {y}
          /\ sessions[movements[y].session].register = sessions[movements[x].session].register
      BY <1>0, <2>4 DEF Reversed
    <3>. QED
      BY <1>2, <2>1, <2>2, <2>4, <3>1
  <2>. QED
    BY <2>1, <2>3, <2>4 DEF Reversed
<1>11. OneOpen' /\ \A r \in BeingOpened(p) : OpenOf(r)' = {}
  BY <1>4, <1>5, OthersOpen DEF OpenSessions
<1>12. raced \/ (NoOrphanPayment /\ MovementMatchesPayment /\ IncomeCountedOnce)'
  BY <1>0, <1>2 DEF NoOrphanPayment, MovementMatchesPayment, IncomeCountedOnce, LivePayments,
                    LinkedPayments
<1>. QED
  BY <1>2, <1>6, <1>8, <1>9, <1>10, <1>11, <1>12, CommitStep DEF TablesOK

\* The opening commits: each payment it saw waiting gets a movement of its own.
LEMMA OpenKeeps ==
  ASSUME DrawerInv, NEW p \in Requests, CommitSession(p)
  PROVE  DrawerInv'
<1>0. /\ TypeOK /\ ControlOK /\ References /\ OnePaymentPerMovement /\ OneOpen /\ Reversed
      /\ LivePaymentLiveMovement /\ job[p] \in JobRow /\ Carries(p)
      /\ raced \/ (NoOrphanPayment /\ MovementMatchesPayment /\ IncomeCountedOnce)
      /\ raced \/ ReadIsFresh(p)
      /\ \A x \in Existing(movements) : x \in Movements /\ x # None
      /\ \A x \in Existing(payments) : x \in Payments /\ x # None
      /\ \A x \in Existing(sessions) : x \in Sessions /\ x # None
  BY CommitFacts, RowsOf
<1> DEFINE j == job[p]
           s == NextId(sessions)
           seen == j.seen
           entering == {q \in DOMAIN seen : seen[q].movement = None}
           row == [register |-> j.register, open |-> TRUE, systemBalance |-> 0]
<1>2. /\ pc[p] = "flush" /\ Fresh(sessions) # {} /\ Finish(p)
      /\ sessions' = [sessions EXCEPT ![s] = row] /\ voidRequests' = voidRequests
  BY DEF CommitSession, Insert
<1>3. PICK new \in [entering -> Fresh(movements)] :
        /\ \A q, r \in entering : q < r => new[q] < new[r]
        /\ movements' = [m \in Movements |->
             IF \E q \in entering : new[q] = m
             THEN LET q == CHOOSE x \in entering : new[x] = m
                  IN IncomeRow(s, seen[q].method, seen[q].amount)
             ELSE movements[m]]
        /\ payments' = [q \in Payments |->
             IF q \notin DOMAIN seen THEN payments[q]
             ELSE [payments[q] EXCEPT !.pending = FALSE,
                     !.movement = IF q \in entering THEN new[q] ELSE @]]
  BY DEF CommitSession
<1>4. /\ j.register \in Registers /\ DOMAIN seen \subseteq Existing(payments)
      /\ \A q \in DOMAIN seen : seen[q] \in PaymentRow
      /\ entering \subseteq DOMAIN seen
  BY <1>0, <1>2 DEF Carries, JobRow
<1>5. /\ Opening(j.register) = {p} /\ OpenOf(j.register) = {}
  BY <1>2 DEF DrawerInv, OpeningAlone
\* The sessions.
<1>6. /\ s \in Sessions /\ s \notin Existing(sessions) /\ row \in SessionRow /\ row # None
      /\ row.open /\ row.register = j.register
  <2>1. s \in Fresh(sessions)
    BY <1>0, <1>2, NextIsFresh, DrawerAssumption DEF TypeOK, DrawerAssumption
  <2>2. row \in SessionRow /\ row.open /\ row.register = j.register
    BY <1>4 DEF SessionRow
  <2> HIDE DEF s, row
  <2>. QED
    BY <1>0, <2>1, <2>2, RowAssumption DEF Fresh, TypeOK, RowAssumption
<1> HIDE DEF j, s, seen, entering, row
<1>7. /\ sessions' \in [Sessions -> SessionRow \cup {None}] /\ sessions'[s] = row
      /\ Existing(sessions') = Existing(sessions) \cup {s}
      /\ \A x \in Existing(sessions) : sessions'[x] = sessions[x]
  BY <1>0, <1>2, <1>6 DEF TypeOK, Existing
<1>8. OneOpen' /\ \A r \in BeingOpened(p) : OpenOf(r)' = {}
  <2>1. OpenSessions' = OpenSessions \cup {s}
    BY <1>6, <1>7 DEF OpenSessions
  <2>2. \A x \in OpenSessions : x \in Existing(sessions) /\ sessions[x].register # j.register
    BY <1>5 DEF OpenOf, OpenSessions
  <2>3. \A r \in BeingOpened(p) : r # j.register /\ OpenOf(r) = {}
    BY <1>5 DEF BeingOpened, Opening, DrawerInv, OpeningAlone
  <2>4. OneOpen'
    BY <1>0, <1>6, <1>7, <2>1, <2>2 DEF OneOpen
  <2>5. \A r \in BeingOpened(p) : OpenOf(r)' = {}
    BY <1>6, <1>7, <2>1, <2>2, <2>3 DEF OpenOf
  <2>. QED
    BY <2>4, <2>5
\* The movements.
<1>9. PICK Image : Image = {new[q] : q \in entering}
  OBVIOUS
<1>10. /\ Image \subseteq Movements /\ \A m \in Image : m \notin Existing(movements)
       /\ \A q \in entering : new[q] \in Image /\ new[q] # None
       /\ \A q, r \in entering : new[q] = new[r] => q = r
  <2>1. \A q \in entering : new[q] \in Fresh(movements)
    BY <1>3
  <2>2. Fresh(movements) \subseteq Movements /\ Fresh(movements) \cap Existing(movements) = {}
    BY <1>0 DEF Fresh, TypeOK
  <2>3. Movements \subseteq Nat /\ entering \subseteq Nat /\ None \notin Movements
    BY <1>0, <1>4, DrawerAssumption DEF DrawerAssumption
  <2>4. \A q, r \in entering : new[q] = new[r] => q = r
    <3> SUFFICES ASSUME NEW q \in entering, NEW r \in entering, new[q] = new[r]
                 PROVE  q = r
      OBVIOUS
    <3>1. q \in Nat /\ r \in Nat /\ new[q] \in Nat /\ new[r] \in Nat
      BY <2>1, <2>2, <2>3
    <3>2. \A x, y \in entering : x < y => new[x] < new[y]
      BY <1>3
    <3>3. ~(q < r) /\ ~(r < q)
      BY <3>1, <3>2
    <3>. QED
      BY <3>1, <3>3
  <2>. QED
    BY <1>9, <2>1, <2>2, <2>3, <2>4
<1>11. \A q \in entering :
         /\ movements'[new[q]] = IncomeRow(s, seen[q].method, seen[q].amount)
         /\ movements'[new[q]] \in MovementRow
  <2> SUFFICES ASSUME NEW q \in entering
               PROVE  /\ movements'[new[q]] = IncomeRow(s, seen[q].method, seen[q].amount)
                      /\ movements'[new[q]] \in MovementRow
    OBVIOUS
  <2>1. PICK m : m = new[q]
    OBVIOUS
  <2>2. (CHOOSE x \in entering : new[x] = m) = q
    BY <1>10, <2>1
  <2>3. movements'[m] = IncomeRow(s, seen[q].method, seen[q].amount)
    BY <1>3, <1>10, <2>1, <2>2
  <2>4. seen[q].method \in AllMethods /\ seen[q].amount \in Amounts
    BY <1>4 DEF PaymentRow
  <2>. QED
    BY <1>6, <2>1, <2>3, <2>4 DEF IncomeRow, MovementRow
<1>12. \A m \in Movements : m \notin Image => movements'[m] = movements[m]
  BY <1>3, <1>9
<1>13. \A m \in Image : /\ movements'[m] \in MovementRow /\ movements'[m] # None
                       /\ movements'[m].session = s /\ movements'[m].reverses = None
                       /\ ~movements'[m].voided
  <2>1. \A m \in Image : \E q \in entering : m = new[q]
    BY <1>9
  <2>2. \A q \in entering : LET r == IncomeRow(s, seen[q].method, seen[q].amount)
                            IN r.session = s /\ r.reverses = None /\ ~r.voided
    BY DEF IncomeRow
  <2>. QED
    BY <1>11, <2>1, <2>2, RowAssumption DEF RowAssumption
<1>14. movements' \in [Movements -> MovementRow \cup {None}]
  <2>1. \A m \in Movements : movements'[m] \in MovementRow \cup {None}
    BY <1>0, <1>12, <1>13 DEF TypeOK
  <2>2. \E f : movements' = [m \in Movements |-> f[m]]
    <3>1. movements' = [m \in Movements |-> movements'[m]]
      BY <1>3
    <3>. QED
      BY <3>1
  <2>. QED
    BY <2>1, <2>2
<1>15. /\ Existing(movements') = Existing(movements) \cup Image
       /\ \A m \in Existing(movements) : movements'[m] = movements[m] /\ m \notin Image
  BY <1>0, <1>10, <1>12, <1>13, <1>14 DEF Existing, TypeOK
\* The payments.
<1>16. \A q \in DOMAIN seen :
         /\ payments[q] \in PaymentRow /\ q \in Payments
         /\ payments'[q] = [payments[q] EXCEPT !.pending = FALSE,
                             !.movement = IF q \in entering THEN new[q] ELSE @]
         /\ payments'[q] \in PaymentRow /\ payments'[q] # None
         /\ payments'[q].movement = (IF q \in entering THEN new[q] ELSE payments[q].movement)
         /\ payments'[q].voided = payments[q].voided
         /\ payments'[q].method = payments[q].method
         /\ payments'[q].amount = payments[q].amount
  <2> SUFFICES ASSUME NEW q \in DOMAIN seen
               PROVE  /\ payments[q] \in PaymentRow /\ q \in Payments
                      /\ payments'[q] = [payments[q] EXCEPT !.pending = FALSE,
                             !.movement = IF q \in entering THEN new[q] ELSE @]
                      /\ payments'[q] \in PaymentRow /\ payments'[q] # None
                      /\ payments'[q].movement =
                           (IF q \in entering THEN new[q] ELSE payments[q].movement)
                      /\ payments'[q].voided = payments[q].voided
                      /\ payments'[q].method = payments[q].method
                      /\ payments'[q].amount = payments[q].amount
    OBVIOUS
  <2>1. payments[q] \in PaymentRow /\ q \in Payments
    BY <1>0, <1>4, RowsExist
  <2>2. payments'[q] = [payments[q] EXCEPT !.pending = FALSE,
                          !.movement = IF q \in entering THEN new[q] ELSE @]
    BY <1>3, <2>1
  <2>3. q \in entering => new[q] \in Movements
    BY <1>10
  <2>4. payments'[q] \in PaymentRow
    BY <2>1, <2>2, <2>3 DEF PaymentRow
  <2>. QED
    BY <2>1, <2>2, <2>4, RowAssumption DEF PaymentRow, RowAssumption
<1>17. \A q \in Payments : q \notin DOMAIN seen => payments'[q] = payments[q]
  BY <1>3
<1>18. /\ payments' \in [Payments -> PaymentRow \cup {None}]
       /\ Existing(payments') = Existing(payments)
  <2>1. \A q \in Payments : payments'[q] \in PaymentRow \cup {None}
    BY <1>0, <1>16, <1>17 DEF TypeOK
  <2>2. payments' = [q \in Payments |-> payments'[q]]
    BY <1>3
  <2>3. payments' \in [Payments -> PaymentRow \cup {None}]
    BY <2>1, <2>2
  <2>4. \A q \in Payments : payments'[q] # None <=> payments[q] # None
    BY <1>4, <1>16, <1>17 DEF Existing
  <2>5. DOMAIN payments = Payments /\ DOMAIN payments' = Payments
    BY <1>0, <2>3 DEF TypeOK
  <2>6. Existing(payments') = Existing(payments)
    BY <2>4, <2>5 DEF Existing
  <2>. QED
    BY <2>3, <2>6
<1>19. TypeOK'
  BY <1>0, <1>2, <1>7, <1>14, <1>18, FinishTypes DEF TypeOK
<1>20. \A q \in Existing(payments) :
         \/ q \in entering /\ payments'[q].movement = new[q] /\ new[q] \in Image
         \/ q \notin entering /\ payments'[q].movement = payments[q].movement
  BY <1>0, <1>4, <1>10, <1>16, <1>17
<1>21. \A q \in Existing(payments) :
         /\ payments'[q].voided = payments[q].voided
         /\ payments'[q].method = payments[q].method
         /\ payments'[q].amount = payments[q].amount
         /\ q \notin DOMAIN seen => payments'[q].pending = payments[q].pending
  BY <1>0, <1>16, <1>17
<1>22. \A x \in Existing(movements) : LinkedPayments(x)' \subseteq LinkedPayments(x)
  BY <1>15, <1>18, <1>20 DEF LinkedPayments
<1>23. Grows
  BY <1>2, <1>7, <1>15, <1>18, <1>22 DEF Grows
<1>24. References'
  <2>1. \A x \in Existing(movements') :
          /\ movements'[x].session \in Existing(sessions')
          /\ movements'[x].reverses # None => movements'[x].reverses \in Existing(movements')
    BY <1>0, <1>7, <1>13, <1>15 DEF References
  <2>2. \A x \in Existing(payments') :
          payments'[x].movement # None => payments'[x].movement \in Existing(movements')
    BY <1>0, <1>15, <1>18, <1>20 DEF References
  <2>. QED
    BY <1>0, <1>2, <1>15, <1>18, <2>1, <2>2 DEF References
<1>25. OnePaymentPerMovement'
  <2>1. \A q \in Existing(payments) : payments[q].movement \notin Image
    BY <1>0, <1>10, DrawerAssumption DEF References, DrawerAssumption
  <2>. QED
    BY <1>0, <1>10, <1>18, <1>20, <2>1 DEF OnePaymentPerMovement
<1>26. Reversed'
  <2>1. \A x \in Existing(movements) : Reversals(x)' = Reversals(x)
    BY <1>0, <1>13, <1>15 DEF Reversals
  <2>2. \A x \in Image : Reversals(x)' = {}
    BY <1>0, <1>10, <1>13, <1>15, DrawerAssumption DEF Reversals, References, DrawerAssumption
  <2>3. \A x : Reversals(x) \subseteq Existing(movements)
    BY DEF Reversals
  <2>4. ASSUME NEW x \in Existing(movements), NEW y \in Reversals(x)
        PROVE  /\ movements'[x].voided /\ Reversals(x)' = {y}
               /\ sessions'[movements'[y].session].register
                    = sessions'[movements'[x].session].register
    <3>1. /\ movements[x].voided /\ Reversals(x) = {y} /\ y \in Existing(movements)
          /\ sessions[movements[y].session].register = sessions[movements[x].session].register
      BY <1>0, <2>3, <2>4 DEF Reversed
    <3>2. movements[x].session \in Existing(sessions) /\ movements[y].session \in Existing(sessions)
      BY <1>0, <3>1 DEF References
    <3>. QED
      BY <1>7, <1>15, <2>1, <3>1, <3>2
  <2>. QED
    BY <1>15, <2>1, <2>2, <2>4 DEF Reversed
<1>27. LivePaymentLiveMovement'
  BY <1>0, <1>13, <1>15, <1>18, <1>20, <1>21
     DEF LivePaymentLiveMovement, LivePayments, References
\* While nobody overlapped, the payments are still as they were read.
<1>28. raced \/ \A q \in DOMAIN seen : seen[q] = payments[q]
  BY <1>0, <1>2 DEF ReadIsFresh, seen, j
<1>29. raced \/ \A q \in DOMAIN seen : q \in entering <=> payments[q].movement = None
  BY <1>28 DEF entering
<1>30. raced \/ NoOrphanPayment'
  BY <1>0, <1>10, <1>18, <1>20, <1>21, <1>29 DEF NoOrphanPayment, LivePayments
<1>31. raced \/ MovementMatchesPayment'
  <2> SUFFICES ASSUME ~raced, NEW q \in LivePayments', payments'[q].movement # None
               PROVE  LET m == payments'[q].movement
                      IN /\ movements'[m].amount = payments'[q].amount
                         /\ movements'[m].method = payments'[q].method
    BY DEF MovementMatchesPayment
  <2>1. q \in Existing(payments) /\ q \in LivePayments
    BY <1>18, <1>21 DEF LivePayments
  <2>2. CASE q \in entering
    <3>1. movements'[new[q]] = IncomeRow(s, payments[q].method, payments[q].amount)
      BY <1>4, <1>11, <1>28, <2>2
    <3>. QED
      BY <1>20, <1>21, <2>1, <2>2, <3>1 DEF IncomeRow
  <2>3. CASE q \notin entering
    BY <1>0, <1>15, <1>20, <1>21, <2>1, <2>3 DEF MovementMatchesPayment, References
  <2>. QED
    BY <2>2, <2>3
<1>32. raced \/ IncomeCountedOnce'
  <2> SUFFICES ASSUME ~raced PROVE IncomeCountedOnce'
    OBVIOUS
  <2>1. \A x \in Existing(movements) : LinkedPayments(x)' = LinkedPayments(x)
    BY <1>0, <1>4, <1>18, <1>20, <1>22, <1>29 DEF LinkedPayments
  <2>2. \A x \in Image : LinkedPayments(x)' # {}
    <3>1. \A x \in Image : \E q \in entering : x = new[q]
      BY <1>9
    <3>. QED
      BY <1>4, <1>18, <1>20, <3>1 DEF LinkedPayments
  <2>. QED
    BY <1>0, <1>15, <2>1, <2>2 DEF IncomeCountedOnce
<1>. QED
  BY <1>2, <1>8, <1>19, <1>23, <1>24, <1>25, <1>26, <1>27, <1>30, <1>31, <1>32, CommitStep
     DEF TablesOK
-----------------------------------------------------------------------------
(* The invariant and what it carries.                                       *)

\* The tables start empty and every request idle.
LEMMA InitHolds == Init => DrawerInv
<1> SUFFICES ASSUME Init PROVE DrawerInv
  OBVIOUS
<1>1. TypeOK
  BY DrawerAssumption DEF Init, TypeOK, DrawerAssumption
<1>2. ControlOK
  BY NoJobIsJob DEF Init, ControlOK, Labels
<1>3. /\ Existing(sessions) = {} /\ Existing(movements) = {} /\ Existing(payments) = {}
      /\ Existing(voidRequests) = {}
  BY DEF Init, Existing
<1>4. References /\ OnePaymentPerMovement /\ OneOpen /\ Reversed /\ LivePaymentLiveMovement
  BY <1>3 DEF References, OnePaymentPerMovement, OneOpen, OpenSessions, Reversed,
              LivePaymentLiveMovement, LivePayments
<1>5. \A p \in Requests : pc[p] = "idle"
  BY DEF Init
<1>6. Jobs /\ OpeningAlone /\ Alone /\ ReadsAreFresh
  BY <1>5 DEF Jobs, Carries, OpeningAlone, Alone, ReadsAreFresh, ReadIsFresh
<1>7. RacesOnly
  BY <1>3 DEF RacesOnly, OrphansOnlyByRace, MismatchOnlyByRace, DoubleIncomeOnlyByRace,
              NoOrphanPayment, MovementMatchesPayment, IncomeCountedOnce, LivePayments
<1>. QED
  BY <1>1, <1>2, <1>4, <1>6, <1>7 DEF DrawerInv

\* A step that changes nothing.
LEMMA StutterKeeps ==
  ASSUME DrawerInv, UNCHANGED vars
  PROVE  DrawerInv'
<1>1. TypeOK' /\ ControlOK' /\ References' /\ Alone' /\ raced' = raced
  BY DEF vars, DrawerInv, TypeOK, ControlOK, References, Existing, Alone
<1>2. None \notin Requests
  BY DrawerAssumption DEF DrawerAssumption
<1>. QED
  BY <1>1, <1>2, ControlStep DEF vars

\* For any registers, movements, payments and concurrent requests, the tables refer to what
\* exists, a movement is of one payment and reversed once, a register has one session, and
\* what was read is still so while no two requests overlapped.
THEOREM DrawerInvariant == Spec => []DrawerInv
<1>1. ASSUME DrawerInv, Next PROVE DrawerInv'
  <2>1. CASE RequestVoid
    BY <1>1, <2>1, RequestVoidKeeps
  <2>2. ASSUME NEW p \in Requests, Start(p) PROVE DrawerInv'
    BY <1>1, <2>2, StartsKeep
  <2>3. ASSUME NEW p \in Requests, Abort(p) PROVE DrawerInv'
    BY <1>1, <2>3, AbortKeeps
  <2>4. ASSUME NEW p \in Requests, Step(p) PROVE DrawerInv'
    BY <1>1, <2>4, AddPaymentKeeps, CreateMovementKeeps, LockKeeps, EditKeeps,
       ReadMovementKeeps, VoidMovementKeeps, VoidPaymentKeeps, ApprovalKeeps, RejectionKeeps,
       InsertSessionKeeps, OpenKeeps, SumSessionKeeps, CloseKeeps DEF Step
  <2>. QED
    BY <1>1, <2>1, <2>2, <2>3, <2>4 DEF Next
<1>2. DrawerInv /\ [Next]_vars => DrawerInv'
  BY <1>1, StutterKeeps
<1>. QED
  BY <1>2, InitHolds, PTL DEF Spec

\* The tables keep their types.
THEOREM DrawerTypes == Spec => []TypeOK
<1>1. DrawerInv => TypeOK
  BY DEF DrawerInv
<1>. QED
  BY <1>1, DrawerInvariant, PTL

\* The unique index on open sessions, and the flush that waits for it inside the
\* transaction of openSession, leave one open session per register.
THEOREM OneOpenSession == Spec => []OneOpenPerRegister
<1>1. DrawerInv => OneOpenPerRegister
  <2> SUFFICES ASSUME DrawerInv, NEW r \in Registers PROVE Cardinality(OpenOf(r)) <= 1
    BY DEF OneOpenPerRegister
  <2>1. \A s, t \in OpenOf(r) : s = t
    BY DEF DrawerInv, OneOpen, OpenOf
  <2>2. CASE OpenOf(r) = {}
    BY <2>2, FS_EmptySet
  <2>3. CASE OpenOf(r) # {}
    <3>1. PICK s : OpenOf(r) = {s}
      BY <2>1, <2>3
    <3>. QED
      BY <3>1, FS_Singleton
  <2>. QED
    BY <2>2, <2>3
<1>. QED
  BY <1>1, DrawerInvariant, PTL

\* A movement is reversed at most once, in its own register, when it is voided, and no
\* live payment keeps a voided movement: assertNotVoided and the index on reverses suffice
\* under any interleaving.
THEOREM WholeVoids == Spec => []VoidsAreWhole
<1>1. DrawerInv => VoidsAreWhole
  <2> SUFFICES ASSUME DrawerInv, NEW m \in Existing(movements)
               PROVE  /\ Cardinality(Reversals(m)) <= 1
                      /\ \A x \in Reversals(m) :
                           /\ movements[m].voided
                           /\ sessions[movements[x].session].register =
                                sessions[movements[m].session].register
    BY DEF VoidsAreWhole, ReversedOnce, Reversals, DrawerInv
  <2>1. \A x \in Reversals(m) :
          /\ movements[m].voided /\ Reversals(m) = {x}
          /\ sessions[movements[x].session].register = sessions[movements[m].session].register
    BY DEF DrawerInv, Reversed
  <2>2. CASE Reversals(m) = {}
    BY <2>2, FS_EmptySet
  <2>3. CASE Reversals(m) # {}
    <3>1. PICK x : Reversals(m) = {x}
      BY <2>1, <2>3
    <3>. QED
      BY <2>1, <3>1, FS_Singleton
  <2>. QED
    BY <2>2, <2>3
<1>. QED
  BY <1>1, DrawerInvariant, PTL

\* A new movement's session is the one the request read open, or the one it opens.
LEMMA EntersOpen ==
  ASSUME DrawerInv, [Next]_vars, NEW m \in Movements, ~raced', movements[m] = None,
         movements'[m] # None
  PROVE  sessions'[movements'[m].session].open
<1>0. TypeOK /\ RowAssumption
  BY RowAssumption DEF DrawerInv
<1>1. movements' # movements
  OBVIOUS
\* An insert into the table, for a session that was read open.
<1>2. ASSUME NEW p \in Requests, NEW row, movements' = Insert(movements, row),
             row.session = job[p].session, job[p].session # None, sessions' = sessions,
             pc[p] \in {"commit", "voidMovement"}, Finish(p)
      PROVE  sessions'[movements'[m].session].open
  <2>1. movements'[m] = row
    <3>1. movements'[m] # movements[m]
      OBVIOUS
    <3>. QED
      BY <1>0, <1>2, <3>1 DEF Insert, TypeOK
  <2>2. ~raced /\ ReadIsFresh(p)
    BY <1>2 DEF Finish, DrawerInv, ReadsAreFresh
  <2>. QED
    BY <1>2, <2>1, <2>2 DEF ReadIsFresh
<1>3. ASSUME NEW p \in Requests, CommitAddPayment(p)
      PROVE  sessions'[movements'[m].session].open
  <2>1. /\ movements' = Insert(movements, IncomeRow(job[p].session, job[p].method, job[p].amount))
        /\ job[p].session # None /\ sessions' = sessions /\ pc[p] = "commit" /\ Finish(p)
    BY <1>1, <1>3 DEF CommitAddPayment
  <2>. QED
    BY <1>2, <2>1 DEF IncomeRow
<1>4. ASSUME NEW p \in Requests, CommitCreateMovement(p)
      PROVE  sessions'[movements'[m].session].open
  <2>1. PICK row :
          /\ row = [IncomeRow(job[p].session, "CASH", job[p].amount)
                      EXCEPT !.income = job[p].concept # "EXPENSE",
                             !.ofOrder = job[p].concept = "ORDER"]
          /\ movements' = Insert(movements, row)
          /\ sessions' = sessions /\ pc[p] = "commit" /\ Finish(p)
          /\ job[p].kind = "createMovement"
    BY <1>4 DEF CommitCreateMovement
  <2>2. row.session = job[p].session
    BY <2>1 DEF IncomeRow
  <2>3. job[p].session # None
    BY <2>1, RowsOf, CommitFacts DEF Carries
  <2>. QED
    BY <1>2, <2>1, <2>2, <2>3
<1>5. ASSUME NEW p \in Requests, CommitEdit(p)
      PROVE  sessions'[movements'[m].session].open
  <2>1. pc[p] = "commit" /\ job[p].kind = "updatePayment" /\ Finish(p) /\ sessions' = sessions
    BY <1>5 DEF CommitEdit
  <2>2. job[p].payment \in Existing(payments)
    BY <2>1, CommitFacts DEF Carries
  <2>3. payments[job[p].payment].movement # None =>
          /\ payments[job[p].payment].movement \in Existing(movements)
          /\ payments[job[p].payment].movement # m
    BY <2>2 DEF DrawerInv, References, Existing
  <2>4. \A x, row : x # m => [movements EXCEPT ![x] = row][m] = movements[m]
    BY <1>0 DEF TypeOK
  <2>a. \/ movements' = movements
        \/ /\ payments[job[p].payment].movement # None
           /\ \E row : movements' = [movements EXCEPT ![payments[job[p].payment].movement] = row]
        \/ /\ movements' =
                 Insert(movements, IncomeRow(job[p].session, job[p].method, job[p].amount))
           /\ job[p].session # None
    <3>1. CASE payments[job[p].payment].movement = None
      BY <1>5, <3>1 DEF CommitEdit
    <3>2. CASE payments[job[p].payment].movement # None
      <4>1. PICK mv : mv = payments[job[p].payment].movement
        OBVIOUS
      <4>2. \/ movements' = [movements EXCEPT ![mv] = Voided(movements[mv])]
            \/ movements' = [movements EXCEPT ![mv] =
                               Edited(movements[mv], job[p].method, job[p].amount)]
        BY <1>5, <3>2, <4>1 DEF CommitEdit
      <4>. QED
        BY <3>2, <4>1, <4>2
    <3>. QED
      BY <3>1, <3>2
  <2>5. /\ movements' = Insert(movements, IncomeRow(job[p].session, job[p].method, job[p].amount))
        /\ job[p].session # None
    <3>1. CASE payments[job[p].payment].movement # None /\
               \E row : movements' = [movements EXCEPT ![payments[job[p].payment].movement] = row]
      BY <2>3, <2>4, <3>1
    <3>. QED
      BY <1>1, <2>a, <3>1
  <2>. QED
    BY <1>2, <2>1, <2>5 DEF IncomeRow
<1>6. ASSUME NEW p \in Requests, CommitVoidMovement(p)
      PROVE  sessions'[movements'[m].session].open
  <2>1. PICK x, row :
          /\ x = job[p].movement
          /\ row = [movements[x] EXCEPT !.session = job[p].session, !.voided = FALSE,
                      !.method = job[p].method, !.amount = job[p].amount,
                      !.income = ~@, !.reverses = x]
          /\ movements' = [Insert(movements, row) EXCEPT ![x] = Voided(@)]
          /\ sessions' = sessions /\ pc[p] = "voidMovement" /\ Finish(p)
    BY <1>6 DEF CommitVoidMovement
  <2>2. x \in Existing(movements) /\ job[p].session \in Existing(sessions) /\ TypeOK
    BY <2>1, CommitFacts DEF Carries
  <2>3. movements[x] \in MovementRow /\ x # m /\ job[p].session # None
    BY <2>2, RowsExist, RowsOf DEF Existing
  <2>4. row.session = job[p].session
    BY <2>1, <2>3 DEF MovementRow
  <2>5. movements'[m] = Insert(movements, row)[m]
    BY <1>0, <2>1, <2>3 DEF Insert, TypeOK
  <2>6. movements'[m] = row
    <3>1. Insert(movements, row)[m] # movements[m]
      BY <2>5
    <3>. QED
      BY <1>0, <2>5, <3>1 DEF Insert, TypeOK
  <2>7. ~raced /\ ReadIsFresh(p)
    BY <2>1 DEF Finish, DrawerInv, ReadsAreFresh
  <2>. QED
    BY <2>1, <2>3, <2>4, <2>6, <2>7 DEF ReadIsFresh
<1>7. ASSUME NEW p \in Requests, CommitSession(p)
      PROVE  sessions'[movements'[m].session].open
  <2>1. /\ Fresh(sessions) # {}
        /\ sessions' = [sessions EXCEPT ![NextId(sessions)] =
             [register |-> job[p].register, open |-> TRUE, systemBalance |-> 0]]
    BY <1>7 DEF CommitSession, Insert
  <2>2. NextId(sessions) \in Sessions
    BY <1>0, <2>1, NextIsFresh, DrawerAssumption DEF Fresh, TypeOK, DrawerAssumption
  <2>3. \E q : movements'[m] = IncomeRow(NextId(sessions), job[p].seen[q].method,
                                        job[p].seen[q].amount)
    <3> DEFINE seen == job[p].seen
               Q == {q \in DOMAIN seen : seen[q].movement = None}
    <3>1. PICK new \in [Q -> Fresh(movements)] : movements' = [x \in Movements |->
            IF \E q \in Q : new[q] = x
            THEN LET q == CHOOSE y \in Q : new[y] = x
                 IN IncomeRow(NextId(sessions), seen[q].method, seen[q].amount)
            ELSE movements[x]]
      BY <1>7 DEF CommitSession
    <3>. QED
      BY <3>1
  <2>4. movements'[m].session = NextId(sessions)
    BY <2>3 DEF IncomeRow
  <2>. QED
    BY <1>0, <2>1, <2>2, <2>4 DEF TypeOK
<1>8. CASE UNCHANGED vars
  BY <1>1, <1>8 DEF vars
<1>9. CASE RequestVoid
  BY <1>1, <1>9 DEF RequestVoid
<1>10. ASSUME NEW p \in Requests, Start(p) PROVE FALSE
  BY <1>1, <1>10 DEF Start, StartAddPayment, StartCreateMovement, StartUpdatePayment,
     StartVoidMovement, StartVoidPayment, StartReview, StartOpenSession, StartCloseSession,
     Begin, rows
<1>11. ASSUME NEW p \in Requests,
              \/ Abort(p) \/ LockEdit(p) \/ ReadMovement(p) \/ CommitVoidPayment(p)
              \/ CommitApproval(p) \/ CommitRejection(p) \/ InsertSession(p) \/ SumSession(p)
              \/ CommitCloseSession(p)
       PROVE  FALSE
  BY <1>1, <1>11 DEF Abort, LockEdit, ReadMovement, CommitVoidPayment, CommitApproval,
     CommitRejection, InsertSession, SumSession, CommitCloseSession, Continue, rows
<1>. QED
  BY <1>3, <1>4, <1>5, <1>6, <1>7, <1>8, <1>9, <1>10, <1>11 DEF Next, Step

\* While no two requests overlap, and for sequences of any length: no cash payment is left
\* out of the drawer, movements say what their payments say, an income is counted once and
\* nothing enters a closed session.
THEOREM AloneKeepsTheDrawer == Spec => KeptAlone
<1>1. DrawerInv => OrphansOnlyByRace /\ MismatchOnlyByRace /\ DoubleIncomeOnlyByRace
  BY DEF DrawerInv, RacesOnly
<1>2. DrawerInv /\ [Next]_vars =>
        [\A m \in Movements :
           (~raced' /\ movements[m] = None /\ movements'[m] # None)
             => sessions'[movements'[m].session].open]_vars
  BY EntersOpen
<1>. QED
  BY <1>1, <1>2, DrawerInvariant, PTL DEF KeptAlone, ClosedEntryOnlyByRace, Spec
=============================================================================
