-------------------------- MODULE WorkOrdersProofs --------------------------
(***************************************************************************)
(* For any number of work orders, supplies, requests and failures: the     *)
(* kardex accounts for the stock, a completion is all or nothing, the row  *)
(* it holds stays, and a number is given to one request.                   *)
(*                                                                         *)
(* The invariant has three parts besides the types.  Kardex is the         *)
(* property itself, which is inductive because the balance before and      *)
(* after come from one locked row.  Locks says that a completion holds the *)
(* row it will write.  Numbering says that the counter is never behind the *)
(* table while nobody inserts rows by hand, so that nobody brings it back. *)
(***************************************************************************)
EXTENDS WorkOrdersProps, FiniteSetTheorems, TLAPS

-----------------------------------------------------------------------------

\* An idle process holds an empty job.
LEMMA NoJobTyped == NoJob \in JobRow
  BY SMTT(30) DEF NoJob, JobRow, Manual

\* The end of a request: what it does to the locks and to the other requests.
LEMMA DoneTyped ==
  ASSUME Types, NEW p \in Processes, Done(p)
  PROVE  /\ pc' \in [Processes -> Labels] /\ job' \in [Processes -> JobRow]
         /\ olock' \in [WorkOrderIds -> Processes \cup {None}]
         /\ slock' \in [Supplies -> Processes \cup {None}]
         /\ pc' = [pc EXCEPT ![p] = "idle"] /\ job' = [job EXCEPT ![p] = NoJob]
         /\ \A o \in WorkOrderIds : olock'[o] = IF olock[o] = p THEN None ELSE olock[o]
  <1>1. pc' = [pc EXCEPT ![p] = "idle"] /\ job' = [job EXCEPT ![p] = NoJob]
    BY DEF Done, Goto
  <1>2. pc' \in [Processes -> Labels] /\ job' \in [Processes -> JobRow]
    BY <1>1, NoJobTyped DEF Types, Labels
  <1>3. olock' = [o \in WorkOrderIds |-> IF olock[o] = p THEN None ELSE olock[o]]
    BY DEF Done, Released, Types
  <1>4. slock' = [s \in Supplies |-> IF slock[s] = p THEN None ELSE slock[s]]
    BY DEF Done, Released, Types
  <1>5. olock' \in [WorkOrderIds -> Processes \cup {None}]
    BY <1>3 DEF Types
  <1>6. slock' \in [Supplies -> Processes \cup {None}]
    BY <1>4 DEF Types
  <1>7. \A o \in WorkOrderIds : olock'[o] = IF olock[o] = p THEN None ELSE olock[o]
    BY <1>3
  <1> QED
    BY <1>1, <1>2, <1>5, <1>6, <1>7

\* The beginning of a request writes the request and nothing else.
LEMMA BeginTyped ==
  ASSUME Types, NEW p \in Processes, NEW task \in JobRow, NEW label \in Labels,
         Begin(p, task, label)
  PROVE  /\ Types'
         /\ pc[p] = "idle"
         /\ pc' = [pc EXCEPT ![p] = label] /\ job' = [job EXCEPT ![p] = task]
         /\ UNCHANGED <<workOrders, stock, kardex, counter, byHand, olock>>
  <1>1. starts' \in 0..MaxStarts
    BY WorkOrdersAssumption DEF Types, Begin
  <1> QED
    BY <1>1 DEF Types, Begin, Goto, tables, numbering, bounds

\* The number and the order of a request's row, and its entries in the kardex.
LEMMA RowTyped ==
  ASSUME NEW order \in Orders, NEW status \in Statuses, NEW number \in Nat, NEW uses \in Uses
  PROVE  [order |-> order, status |-> status, number |-> number, uses |-> uses] \in WorkOrderRow
  BY DEF WorkOrderRow

\* A row whose status is written is a row.
LEMMA StatusTyped ==
  ASSUME NEW row \in WorkOrderRow, NEW status \in Statuses
  PROVE  [row EXCEPT !.status = status] \in WorkOrderRow
  BY DEF WorkOrderRow

\* A row whose uses are replaced is a row.
LEMMA UsesTyped ==
  ASSUME NEW row \in WorkOrderRow, NEW uses \in Uses
  PROVE  [row EXCEPT !.uses = uses] \in WorkOrderRow
  BY DEF WorkOrderRow

\* The uses and the number of a row.
LEMMA RowUses ==
  ASSUME NEW row \in WorkOrderRow
  PROVE  row.uses \in Uses /\ row.uses \in [Supplies -> Nat] /\ row.number \in Nat
  BY WorkOrdersAssumption DEF WorkOrderRow, Uses

\* The movement of an adjustment, and the stock it records.
LEMMA DeltaTyped ==
  ASSUME Types, NEW s \in Supplies, NEW delta \in Int, NEW reference \in Nat
  PROVE  /\ Delta(s, delta, reference) \in Movement
         /\ Delta(s, delta, reference).newStock = stock[s] + delta
         /\ Delta(s, delta, reference).previousStock = stock[s]
         /\ Delta(s, delta, reference).delta = delta
  BY DEF Delta, Movement, Types

\* The fields of what a process holds.
LEMMA TaskFields ==
  ASSUME NEW j \in JobRow
  PROVE  /\ j.id \in Nat /\ j.number \in Nat /\ j.attempt \in Nat
         /\ j.left \subseteq Supplies /\ j.uses \in [Supplies -> Nat]
  BY DEF JobRow

\* The numbers in use, and those known.
LEMMA NumbersTyped ==
  ASSUME Types
  PROVE  Numbers \subseteq Nat /\ Known \subseteq Nat
  BY DEF Numbers, Known, Existing, Types, WorkOrderRow
-----------------------------------------------------------------------------

\* The workshop starts empty.
LEMMA InitInv == Init => WorkOrdersInv
  <1> SUFFICES ASSUME Init PROVE WorkOrdersInv
    OBVIOUS
  <1> USE WorkOrdersAssumption
  <1>1. Types
    <2>1. counter \in Nat
      <3>1. PICK n \in {Seeds[o].number : o \in {x \in WorkOrderIds : Seeds[x] # None}} \cup {0} :
              counter = n
        BY DEF Init
      <3>2. \A o \in WorkOrderIds : Seeds[o] # None => Seeds[o].number \in Nat
        BY RowUses
      <3> QED
        BY <3>1, <3>2
    <2>2. kardex \in [Supplies -> Seq(Movement)]
      BY DEF Init
    <2>3. /\ workOrders \in [WorkOrderIds -> WorkOrderRow \cup {None}]
          /\ stock \in [Supplies -> Int] /\ byHand \subseteq Nat
      BY DEF Init
    <2>4. /\ olock \in [WorkOrderIds -> Processes \cup {None}]
          /\ slock \in [Supplies -> Processes \cup {None}]
      BY DEF Init
    <2>5. pc \in [Processes -> Labels] /\ job \in [Processes -> JobRow]
      BY NoJobTyped DEF Init, Labels
    <2>6. starts \in 0..MaxStarts /\ moves \in 0..MaxMoves /\ failures \in 0..MaxFailures
      BY DEF Init
    <2> QED
      BY <2>1, <2>2, <2>3, <2>4, <2>5, <2>6 DEF Types
  <1>2. KardexIsStock
    BY DEF Init, KardexIsStock
  <1>3. Shapes /\ Locks
    BY DEF Init, Shapes, Locks
  <1>4. Numbering
    <2>1. \A n \in Numbers : n <= counter
      BY DEF Init, Numbers, Existing
    <2> QED
      BY <2>1 DEF Init, Numbering
  <1> QED
    BY <1>1, <1>2, <1>3, <1>4 DEF WorkOrdersInv
-----------------------------------------------------------------------------
\* Every request begins typed, and says what it begins with.
LEMMA StartTyped ==
  ASSUME Types, NEW p \in Processes, Start(p)
  PROVE  /\ Types'
         /\ UNCHANGED <<workOrders, stock, kardex, counter, byHand, olock>>
         /\ pc[p] = "idle"
         /\ \E label \in {"number", "complete", "write", "edit", "delete"}, task \in JobRow :
              /\ pc' = [pc EXCEPT ![p] = label] /\ job' = [job EXCEPT ![p] = task]
              /\ label = "number" => task.order \in Orders
              /\ label = "write" => task.status \in Statuses
              /\ label # "number" => task.id \in WorkOrderIds
  <1> USE WorkOrdersAssumption
  <1>1. CASE StartCreate(p)
    <2>1. PICK order \in Orders : Begin(p, [NoJob EXCEPT !.order = order], "number")
      BY <1>1 DEF StartCreate
    <2> DEFINE task == [NoJob EXCEPT !.order = order]
    <2>2. task \in JobRow /\ task.order \in Orders
      BY DEF NoJob, JobRow, Manual
    <2>3. Begin(p, task, "number")
      BY <2>1
    <2> HIDE DEF task
    <2>4. /\ Types' /\ pc[p] = "idle"
          /\ pc' = [pc EXCEPT ![p] = "number"] /\ job' = [job EXCEPT ![p] = task]
          /\ UNCHANGED <<workOrders, stock, kardex, counter, byHand, olock>>
      BY <2>2, <2>3, BeginTyped DEF Labels
    <2> QED
      BY <2>2, <2>3, <2>4
  <1>2. CASE StartStatus(p)
    <2>1. PICK o \in Existing, to \in Statuses :
            Begin(p, [NoJob EXCEPT !.id = o, !.status = to],
                  IF to = "COMPLETED" THEN "complete" ELSE "write")
      BY <1>2 DEF StartStatus
    <2> DEFINE task == [NoJob EXCEPT !.id = o, !.status = to]
               label == IF to = "COMPLETED" THEN "complete" ELSE "write"
    <2>2. task \in JobRow /\ task.id \in WorkOrderIds /\ task.status \in Statuses
      BY DEF NoJob, JobRow, Manual, Existing
    <2>3. Begin(p, task, label) /\ label \in {"complete", "write"}
      BY <2>1
    <2> HIDE DEF task, label
    <2>4. /\ Types' /\ pc[p] = "idle"
          /\ pc' = [pc EXCEPT ![p] = label] /\ job' = [job EXCEPT ![p] = task]
          /\ UNCHANGED <<workOrders, stock, kardex, counter, byHand, olock>>
      BY <2>2, <2>3, BeginTyped DEF Labels
    <2> QED
      BY <2>2, <2>3, <2>4
  <1>3. CASE StartUpdate(p)
    <2>1. PICK o \in Existing : Begin(p, [NoJob EXCEPT !.id = o], "edit")
      BY <1>3 DEF StartUpdate
    <2> DEFINE task == [NoJob EXCEPT !.id = o]
    <2>2. task \in JobRow /\ task.id \in WorkOrderIds
      BY DEF NoJob, JobRow, Manual, Existing
    <2>3. Begin(p, task, "edit")
      BY <2>1
    <2> HIDE DEF task
    <2>4. /\ Types' /\ pc[p] = "idle"
          /\ pc' = [pc EXCEPT ![p] = "edit"] /\ job' = [job EXCEPT ![p] = task]
          /\ UNCHANGED <<workOrders, stock, kardex, counter, byHand, olock>>
      BY <2>2, <2>3, BeginTyped DEF Labels
    <2> QED
      BY <2>2, <2>3, <2>4
  <1>4. CASE StartRemove(p)
    <2>1. PICK o \in Existing : Begin(p, [NoJob EXCEPT !.id = o], "delete")
      BY <1>4 DEF StartRemove
    <2> DEFINE task == [NoJob EXCEPT !.id = o]
    <2>2. task \in JobRow /\ task.id \in WorkOrderIds
      BY DEF NoJob, JobRow, Manual, Existing
    <2>3. Begin(p, task, "delete")
      BY <2>1
    <2> HIDE DEF task
    <2>4. /\ Types' /\ pc[p] = "idle"
          /\ pc' = [pc EXCEPT ![p] = "delete"] /\ job' = [job EXCEPT ![p] = task]
          /\ UNCHANGED <<workOrders, stock, kardex, counter, byHand, olock>>
      BY <2>2, <2>3, BeginTyped DEF Labels
    <2> QED
      BY <2>2, <2>3, <2>4
  <1> QED
    BY <1>1, <1>2, <1>3, <1>4 DEF Start
-----------------------------------------------------------------------------

\* Every step keeps the types.
LEMMA NextTypes ==
  ASSUME Types, Shapes, Locks, [Next]_vars
  PROVE  Types'
  <1> USE WorkOrdersAssumption
  <1>1. CASE UNCHANGED vars
    BY <1>1 DEF Types, vars, tables, numbering, bounds
  <1>2. ASSUME NEW p \in Processes, Start(p) PROVE Types'
    BY <1>2, StartTyped
  <1>3. ASSUME NEW p \in Processes, Step(p) PROVE Types'
    <2>0. job[p] \in JobRow
      BY DEF Types
    <2>1. CASE GenerateNumber(p)
      <3>1. PICK n \in Known :
              counter' = n + 1 /\ job' = [job EXCEPT ![p] = [job[p] EXCEPT !.number = n + 1]]
        BY <2>1 DEF GenerateNumber
      <3> DEFINE task == [job[p] EXCEPT !.number = n + 1]
      <3>2. task \in JobRow /\ n + 1 \in Nat
        BY <2>0, NumbersTyped DEF JobRow
      <3>3. job' = [job EXCEPT ![p] = task]
        BY <3>1
      <3> HIDE DEF task
      <3> QED
        BY <2>1, <3>1, <3>2, <3>3 DEF Types, Labels, GenerateNumber, Goto, tables, bounds
    <2>2. CASE InsertWorkOrder(p)
      <3>1. PICK o \in WorkOrderIds, status \in {"DRAFT", "CONFIRMED"}, uses \in Uses :
              workOrders' = [workOrders EXCEPT ![o] =
                [order |-> job[p].order, status |-> status, number |-> job[p].number,
                 uses |-> uses]]
        BY <2>2 DEF InsertWorkOrder
      <3> DEFINE row == [order |-> job[p].order, status |-> status, number |-> job[p].number,
                         uses |-> uses]
      <3>2. job[p].order \in Orders /\ job[p].number \in Nat /\ status \in Statuses
        BY <2>0, <2>2, TaskFields DEF Shapes, InsertWorkOrder, Statuses
      <3>3. row \in WorkOrderRow
        BY <3>2, RowTyped
      <3>4. workOrders' = [workOrders EXCEPT ![o] = row]
        BY <3>1
      <3> HIDE DEF row
      <3>5. workOrders' \in [WorkOrderIds -> WorkOrderRow \cup {None}]
        BY <3>3, <3>4 DEF Types
      <3> QED
        BY <2>2, <3>5, DoneTyped DEF Types, InsertWorkOrder, numbering, bounds
    <2>3. CASE SyncRead(p)
      <3>1. PICK n \in Numbers :
              job' = [job EXCEPT ![p] =
                        [job[p] EXCEPT !.number = n, !.attempt = job[p].attempt + 1]]
        BY <2>3 DEF SyncRead
      <3> DEFINE task == [job[p] EXCEPT !.number = n, !.attempt = job[p].attempt + 1]
      <3>2. task \in JobRow
        <4>1. n \in Nat /\ job[p].attempt + 1 \in Nat
          BY <2>0, NumbersTyped, TaskFields
        <4> QED
          BY <2>0, <4>1 DEF JobRow
      <3>3. job' = [job EXCEPT ![p] = task]
        BY <3>1
      <3> HIDE DEF task
      <3> QED
        BY <2>3, <3>2, <3>3 DEF Types, Labels, SyncRead, Goto, tables, numbering, bounds
    <2>4. CASE SyncWrite(p)
      <3>1. counter' \in Nat
        BY <2>0, <2>4, TaskFields DEF SyncWrite
      <3> QED
        BY <2>4, <3>1 DEF Types, Labels, SyncWrite, Goto, tables, bounds
    <2>5. CASE WriteStatus(p)
      <3>1. /\ job[p].id \in WorkOrderIds /\ job[p].status \in Statuses
            /\ workOrders[job[p].id] \in WorkOrderRow
        BY <2>5 DEF Types, Shapes, WriteStatus
      <3> DEFINE row == [workOrders[job[p].id] EXCEPT !.status = job[p].status]
      <3>2. row \in WorkOrderRow
        BY <3>1, StatusTyped
      <3>3. workOrders' = [workOrders EXCEPT ![job[p].id] = row]
        BY <2>5 DEF WriteStatus
      <3> HIDE DEF row
      <3>4. workOrders' \in [WorkOrderIds -> WorkOrderRow \cup {None}]
        BY <3>2, <3>3 DEF Types
      <3> QED
        BY <2>5, <3>4, DoneTyped DEF Types, WriteStatus, numbering, bounds
    <2>6. CASE LockWorkOrder(p)
      <3> DEFINE task == [job[p] EXCEPT
                !.left = {s \in Supplies : workOrders[job[p].id].uses[s] > 0},
                !.uses = workOrders[job[p].id].uses]
      <3>1. workOrders[job[p].id].uses \in [Supplies -> Nat]
        BY <2>6, RowUses DEF Types, Shapes, LockWorkOrder
      <3>2. task \in JobRow
        BY <2>0, <3>1 DEF JobRow
      <3>3. job' = [job EXCEPT ![p] = task]
        BY <2>6 DEF LockWorkOrder
      <3> HIDE DEF task
      <3>4. job' \in [Processes -> JobRow]
        BY <3>2, <3>3 DEF Types
      <3>5. olock' \in [WorkOrderIds -> Processes \cup {None}] /\ pc' \in [Processes -> Labels]
        BY <2>6 DEF Types, Labels, LockWorkOrder, Goto
      <3> QED
        BY <2>6, <3>4, <3>5 DEF Types, LockWorkOrder, tables, numbering, bounds
    <2>7. CASE TakeSupply(p)
      <3>1. PICK s \in job[p].left :
              /\ slock' = [slock EXCEPT ![s] = p]
              /\ job' = [job EXCEPT ![p] = [job[p] EXCEPT !.left = job[p].left \ {s}]]
        BY <2>7 DEF TakeSupply
      <3> DEFINE task == [job[p] EXCEPT !.left = job[p].left \ {s}]
      <3>2. task \in JobRow
        BY <2>0 DEF JobRow
      <3>3. job' = [job EXCEPT ![p] = task]
        BY <3>1
      <3> HIDE DEF task
      <3>4. job' \in [Processes -> JobRow]
        BY <3>2, <3>3 DEF Types
      <3>5. s \in Supplies /\ slock' \in [Supplies -> Processes \cup {None}]
        BY <2>0, <3>1, TaskFields DEF Types
      <3> QED
        BY <2>7, <3>4, <3>5 DEF Types, TakeSupply, tables, numbering, bounds
    <2>8. CASE CommitComplete(p)
      <3>1. job[p].id \in WorkOrderIds /\ job[p].id \in Nat /\ job[p].uses \in [Supplies -> Nat]
        BY <2>0, <2>8, TaskFields DEF Shapes, CommitComplete
      <3>2. ASSUME NEW s \in Supplies
            PROVE  Exit(p, s) \in Movement /\ Exit(p, s).newStock \in Int
        <4>1. -job[p].uses[s] \in Int /\ stock[s] \in Int
          BY <3>1 DEF Types
        <4> DEFINE taken == -job[p].uses[s]
        <4>2. Exit(p, s) = Delta(s, taken, job[p].id)
          BY DEF Exit
        <4> HIDE DEF taken
        <4>3. /\ Delta(s, taken, job[p].id) \in Movement
              /\ Delta(s, taken, job[p].id).newStock = stock[s] + taken
          BY <3>1, <4>1, DeltaTyped DEF taken
        <4> QED
          BY <4>1, <4>2, <4>3 DEF taken
      <3>3. stock' \in [Supplies -> Int]
        BY <2>8, <3>2 DEF CommitComplete, Types
      <3>4. kardex' \in [Supplies -> Seq(Movement)]
        BY <2>8, <3>2 DEF CommitComplete, Types
      <3>5. workOrders' \in [WorkOrderIds -> WorkOrderRow \cup {None}]
        <4>1. workOrders[job[p].id] \in WorkOrderRow /\ "COMPLETED" \in Statuses
          BY <2>8, <3>1 DEF CommitComplete, Types, Locks, Statuses
        <4> DEFINE row == [workOrders[job[p].id] EXCEPT !.status = "COMPLETED"]
        <4>2. row \in WorkOrderRow
          BY <4>1, StatusTyped
        <4>3. workOrders' = [workOrders EXCEPT ![job[p].id] = row]
          BY <2>8 DEF CommitComplete
        <4> HIDE DEF row
        <4> QED
          BY <4>2, <4>3 DEF Types
      <3> QED
        BY <2>8, <3>3, <3>4, <3>5, DoneTyped DEF Types, CommitComplete, numbering, bounds
    <2>9. CASE UpdateItem(p)
      <3>1. PICK uses \in Uses :
              workOrders' = [workOrders EXCEPT ![job[p].id] =
                               [workOrders[job[p].id] EXCEPT !.uses = uses]]
        BY <2>9 DEF UpdateItem
      <3> DEFINE row == [workOrders[job[p].id] EXCEPT !.uses = uses]
      <3>2. row \in WorkOrderRow
        BY <2>9, UsesTyped DEF UpdateItem, Types, Shapes
      <3>3. workOrders' = [workOrders EXCEPT ![job[p].id] = row]
        BY <3>1
      <3> HIDE DEF row
      <3>4. workOrders' \in [WorkOrderIds -> WorkOrderRow \cup {None}]
        BY <3>2, <3>3 DEF Types
      <3> QED
        BY <2>9, <3>4, DoneTyped DEF Types, UpdateItem, numbering, bounds
    <2>10. CASE DeleteWorkOrder(p)
      <3>1. workOrders' \in [WorkOrderIds -> WorkOrderRow \cup {None}]
        BY <2>10 DEF DeleteWorkOrder, Types
      <3> QED
        BY <2>10, <3>1, DoneTyped DEF Types, DeleteWorkOrder, numbering, bounds
    <2>11. CASE Throw(p) \/ DeadlockVictim(p)
      <3>1. Done(p) /\ UNCHANGED <<tables, numbering, starts, bounds>>
        BY <2>11 DEF Throw, DeadlockVictim
      <3> QED
        BY <3>1, DoneTyped DEF Types, tables, numbering, bounds
    <2> QED
      BY <1>3, <2>1, <2>2, <2>3, <2>4, <2>5, <2>6, <2>7, <2>8, <2>9, <2>10, <2>11 DEF Step
  <1>4. ASSUME NEW p \in Processes, Fail(p) PROVE Types'
    <2>1. failures' \in 0..MaxFailures
      BY <1>4 DEF Fail, Types
    <2> QED
      BY <1>4, <2>1, DoneTyped DEF Fail, Types, tables, numbering
  <1>5. ASSUME NEW o \in Existing, NEW s \in Supplies, NEW q \in Quantities, SetUse(o, s, q)
        PROVE  Types'
    <2> DEFINE uses == [workOrders[o].uses EXCEPT ![s] = q]
               row == [workOrders[o] EXCEPT !.uses = uses]
    <2>1. workOrders[o] \in WorkOrderRow /\ o \in WorkOrderIds
      BY DEF Existing, Types
    <2>2. uses \in Uses
      BY <2>1, RowUses DEF Uses
    <2>3. workOrders' = [workOrders EXCEPT ![o] = row]
      BY <1>5 DEF SetUse
    <2> HIDE DEF uses
    <2>4. row \in WorkOrderRow
      BY <2>1, <2>2, UsesTyped
    <2> HIDE DEF row
    <2>5. workOrders' \in [WorkOrderIds -> WorkOrderRow \cup {None}]
      BY <2>3, <2>4 DEF Types
    <2>6. starts' \in 0..MaxStarts
      BY <1>5 DEF SetUse, Types
    <2> QED
      BY <1>5, <2>5, <2>6 DEF SetUse, Types, numbering, bounds
  <1>6. CASE AddSupplyToItem \/ RemoveSupplyFromItem
    BY <1>5, <1>6 DEF AddSupplyToItem, RemoveSupplyFromItem
  <1>7. CASE CreateMovement
    <2>1. PICK s \in Supplies, delta \in Quantities \cup {-q : q \in Quantities} :
            /\ stock' = [stock EXCEPT ![s] = Delta(s, delta, Manual).newStock]
            /\ kardex' = [kardex EXCEPT ![s] = Append(kardex[s], Delta(s, delta, Manual))]
      BY <1>7 DEF CreateMovement
    <2>2. delta \in Int /\ Manual \in Nat
      BY DEF Manual
    <2>3. Delta(s, delta, Manual) \in Movement /\ Delta(s, delta, Manual).newStock \in Int
      <3>1. /\ Delta(s, delta, Manual) \in Movement
            /\ Delta(s, delta, Manual).newStock = stock[s] + delta
        BY <2>2, DeltaTyped
      <3> QED
        BY <2>2, <3>1 DEF Types
    <2>4. moves' \in 0..MaxMoves
      BY <1>7 DEF CreateMovement, Types
    <2>5. stock' \in [Supplies -> Int] /\ kardex' \in [Supplies -> Seq(Movement)]
      BY <2>1, <2>3 DEF Types
    <2> QED
      BY <1>7, <2>4, <2>5 DEF CreateMovement, Types, numbering
  <1>8. CASE InsertByHand
    BY <1>8 DEF InsertByHand, Types, tables, bounds
  <1> QED
    BY <1>1, <1>2, <1>3, <1>4, <1>6, <1>7, <1>8 DEF Next
-----------------------------------------------------------------------------
\* The end of a request keeps what the others carry and hold, when the rows that
\* are locked are still there.
LEMMA DoneKeeps ==
  ASSUME Types, Shapes, Locks, NEW p \in Processes, Done(p),
         \A o \in WorkOrderIds :
           workOrders[o] # None /\ olock[o] # None => workOrders'[o] # None
  PROVE  Shapes' /\ Locks'
  <1>1. /\ pc' = [pc EXCEPT ![p] = "idle"] /\ job' = [job EXCEPT ![p] = NoJob]
        /\ \A o \in WorkOrderIds : olock'[o] = IF olock[o] = p THEN None ELSE olock[o]
    BY DoneTyped
  <1>2. Shapes'
    BY <1>1 DEF Shapes, Types
  <1>3. ASSUME NEW q \in Processes, pc'[q] = "supplies"
        PROVE  workOrders'[job'[q].id] # None /\ olock'[job'[q].id] = q
    <2>1. q # p /\ pc[q] = "supplies" /\ job'[q] = job[q]
      BY <1>1, <1>3 DEF Types
    <2>2. /\ job[q].id \in WorkOrderIds /\ workOrders[job[q].id] # None
          /\ olock[job[q].id] = q /\ q # None
      BY <2>1, WorkOrdersAssumption DEF Shapes, Locks
    <2> QED
      BY <1>1, <2>1, <2>2
  <1> QED
    BY <1>2, <1>3 DEF Locks

\* Every step keeps who holds which lock.
LEMMA NextLocks ==
  ASSUME Types, Shapes, Locks, [Next]_vars
  PROVE  Shapes' /\ Locks'
  <1> USE WorkOrdersAssumption
  <1>1. CASE UNCHANGED vars
    BY <1>1 DEF Shapes, Locks, vars, tables
  <1>2. ASSUME NEW p \in Processes, Start(p) PROVE Shapes' /\ Locks'
    <2>1. PICK label \in {"number", "complete", "write", "edit", "delete"}, task \in JobRow :
            /\ pc' = [pc EXCEPT ![p] = label] /\ job' = [job EXCEPT ![p] = task]
            /\ label = "number" => task.order \in Orders
            /\ label = "write" => task.status \in Statuses
            /\ label # "number" => task.id \in WorkOrderIds
      BY <1>2, StartTyped
    <2>2. UNCHANGED <<workOrders, olock>>
      BY <1>2, StartTyped
    <2> QED
      BY <2>1, <2>2 DEF Shapes, Locks, Types
  <1>3. ASSUME NEW p \in Processes, Step(p) PROVE Shapes' /\ Locks'
    <2>0. job[p] \in JobRow
      BY DEF Types
    <2>1. CASE GenerateNumber(p) \/ SyncRead(p) \/ SyncWrite(p)
      <3>1. /\ pc[p] \in {"number", "insert", "sync"} /\ UNCHANGED <<workOrders, olock>>
            /\ \E label \in {"number", "insert", "sync"} : pc' = [pc EXCEPT ![p] = label]
        BY <2>1 DEF GenerateNumber, SyncRead, SyncWrite, Goto, tables
      <3>2. \A q \in Processes : q # p => job'[q] = job[q]
        BY <2>1 DEF GenerateNumber, SyncRead, SyncWrite, Types
      <3>3. job'[p].order = job[p].order
        <4>1. CASE GenerateNumber(p)
          BY <2>0, <4>1 DEF GenerateNumber, Types, JobRow
        <4>2. CASE SyncRead(p)
          BY <2>0, <4>2 DEF SyncRead, Types, JobRow
        <4>3. CASE SyncWrite(p)
          BY <4>3 DEF SyncWrite
        <4> QED
          BY <2>1, <4>1, <4>2, <4>3
      <3> QED
        BY <3>1, <3>2, <3>3 DEF Shapes, Locks, Types
    <2>2. CASE LockWorkOrder(p)
      <3>1. /\ pc[p] = "complete" /\ pc' = [pc EXCEPT ![p] = "supplies"]
            /\ workOrders[job[p].id] # None /\ olock[job[p].id] = None
            /\ olock' = [olock EXCEPT ![job[p].id] = p] /\ workOrders' = workOrders
        BY <2>2 DEF LockWorkOrder, Goto, tables
      <3>2. \A q \in Processes : q # p => job'[q] = job[q]
        BY <2>2 DEF LockWorkOrder, Types
      <3>3. job'[p].id = job[p].id /\ job[p].id \in WorkOrderIds
        BY <2>0, <2>2 DEF LockWorkOrder, Types, JobRow, Shapes
      <3>4. Shapes'
        BY <3>1, <3>2, <3>3 DEF Shapes, Types
      <3>5. Locks'
        BY <3>1, <3>2, <3>3 DEF Shapes, Locks, Types
      <3> QED
        BY <3>4, <3>5
    <2>3. CASE TakeSupply(p)
      <3>1. pc[p] = "supplies" /\ UNCHANGED <<workOrders, olock, pc>>
        BY <2>3 DEF TakeSupply, tables
      <3>2. \A q \in Processes : q # p => job'[q] = job[q]
        BY <2>3 DEF TakeSupply, Types
      <3>3. job'[p].id = job[p].id
        BY <2>0, <2>3 DEF TakeSupply, Types, JobRow
      <3> QED
        BY <3>1, <3>2, <3>3 DEF Shapes, Locks, Types
    <2>4. CASE InsertWorkOrder(p)
      <3>1. Done(p) /\ \A o \in WorkOrderIds : workOrders[o] # None => workOrders'[o] # None
        <4>1. PICK o \in WorkOrderIds, status \in {"DRAFT", "CONFIRMED"}, uses \in Uses :
                Fresh(o) /\ workOrders' = [workOrders EXCEPT ![o] =
                  [order |-> job[p].order, status |-> status, number |-> job[p].number,
                   uses |-> uses]]
          BY <2>4 DEF InsertWorkOrder
        <4>2. workOrders[o] = None
          BY <4>1 DEF Fresh, Existing
        <4> QED
          BY <2>4, <4>1, <4>2 DEF InsertWorkOrder, Types
      <3> QED
        BY <3>1, DoneKeeps
    <2>5. CASE WriteStatus(p) \/ UpdateItem(p) \/ CommitComplete(p)
      <3>1. Done(p) /\ \E row \in WorkOrderRow :
              workOrders' = [workOrders EXCEPT ![job[p].id] = row]
        <4>1. job[p].id \in WorkOrderIds /\ workOrders[job[p].id] \in WorkOrderRow
          BY <2>5 DEF WriteStatus, UpdateItem, CommitComplete, Types, Shapes, Locks
        <4>2. CASE WriteStatus(p)
          BY <4>1, <4>2, StatusTyped DEF WriteStatus, Shapes
        <4>3. CASE UpdateItem(p)
          BY <4>1, <4>3, UsesTyped DEF UpdateItem
        <4>4. CASE CommitComplete(p)
          BY <4>1, <4>4, StatusTyped DEF CommitComplete, Statuses
        <4> QED
          BY <2>5, <4>2, <4>3, <4>4
      <3>2. \A o \in WorkOrderIds : workOrders[o] # None => workOrders'[o] # None
        BY <3>1 DEF Types
      <3> QED
        BY <3>1, <3>2, DoneKeeps
    <2>6. CASE DeleteWorkOrder(p)
      <3>1. Done(p) /\ \A o \in WorkOrderIds :
              workOrders[o] # None /\ olock[o] # None => workOrders'[o] # None
        BY <2>6 DEF DeleteWorkOrder, Types
      <3> QED
        BY <3>1, DoneKeeps
    <2>7. CASE Throw(p) \/ DeadlockVictim(p)
      <3>1. Done(p) /\ UNCHANGED workOrders
        BY <2>7 DEF Throw, DeadlockVictim, tables
      <3> QED
        BY <3>1, DoneKeeps
    <2> QED
      BY <1>3, <2>1, <2>2, <2>3, <2>4, <2>5, <2>6, <2>7 DEF Step
  <1>4. ASSUME NEW p \in Processes, Fail(p) PROVE Shapes' /\ Locks'
    <2>1. Done(p) /\ UNCHANGED workOrders
      BY <1>4 DEF Fail, tables
    <2> QED
      BY <2>1, DoneKeeps
  <1>5. CASE AddSupplyToItem \/ RemoveSupplyFromItem
    <2>1. PICK o \in Existing, s \in Supplies, q \in Quantities \cup {0} : SetUse(o, s, q)
      BY <1>5 DEF AddSupplyToItem, RemoveSupplyFromItem
    <2>2. /\ \A x \in WorkOrderIds : x # o => workOrders'[x] = workOrders[x]
          /\ UNCHANGED <<olock, pc, job>>
      BY <2>1 DEF SetUse, Types
    <2>3. workOrders'[o] # None
      <3>1. workOrders[o] \in WorkOrderRow
        BY DEF Existing, Types
      <3>2. [workOrders[o].uses EXCEPT ![s] = q] \in Uses
        BY <3>1, RowUses DEF Uses
      <3>3. [workOrders[o] EXCEPT !.uses = [workOrders[o].uses EXCEPT ![s] = q]] \in WorkOrderRow
        BY <3>1, <3>2, UsesTyped
      <3>4. workOrders'[o] = [workOrders[o] EXCEPT !.uses = [workOrders[o].uses EXCEPT ![s] = q]]
        BY <2>1 DEF SetUse, Types, Existing
      <3> QED
        BY <3>3, <3>4
    <2> QED
      BY <2>2, <2>3 DEF Shapes, Locks
  <1>6. CASE CreateMovement \/ InsertByHand
    BY <1>6 DEF CreateMovement, InsertByHand, Shapes, Locks, tables
  <1> QED
    BY <1>1, <1>2, <1>3, <1>4, <1>5, <1>6 DEF Next
-----------------------------------------------------------------------------
\* One movement appended to a kardex that agrees with its stock.
LEMMA KardexGrows ==
  ASSUME Types, KardexIsStock, NEW s \in Supplies, NEW move \in Movement,
         move.previousStock = stock[s], move.newStock = move.previousStock + move.delta,
         kardex'[s] = Append(kardex[s], move), stock'[s] = move.newStock
  PROVE  LET k == kardex'[s]
         IN  /\ \A i \in 1..Len(k) :
                  /\ k[i].newStock = k[i].previousStock + k[i].delta
                  /\ k[i].previousStock = IF i = 1 THEN InitialStock[s] ELSE k[i - 1].newStock
             /\ stock'[s] = IF k = <<>> THEN InitialStock[s] ELSE k[Len(k)].newStock
  <1> DEFINE old == kardex[s]
             n == Len(old)
             k == Append(old, move)
  <1>1. old \in Seq(Movement) /\ n \in Nat
    BY DEF Types
  <1>2. /\ Len(k) = n + 1 /\ k # <<>> /\ k[n + 1] = move
        /\ \A i \in 1..n : k[i] = old[i]
    BY <1>1
  <1>3. /\ \A i \in 1..n :
             /\ old[i].newStock = old[i].previousStock + old[i].delta
             /\ old[i].previousStock = IF i = 1 THEN InitialStock[s] ELSE old[i - 1].newStock
        /\ stock[s] = IF old = <<>> THEN InitialStock[s] ELSE old[n].newStock
    BY DEF KardexIsStock
  <1>4. old = <<>> <=> n = 0
    BY <1>1
  <1>5. kardex'[s] = k
    OBVIOUS
  <1> HIDE DEF old, n, k
  <1>6. ASSUME NEW i \in 1..(n + 1)
        PROVE  /\ k[i].newStock = k[i].previousStock + k[i].delta
               /\ k[i].previousStock = IF i = 1 THEN InitialStock[s] ELSE k[i - 1].newStock
    <2>1. CASE i \in 1..n
      <3>1. i # 1 => i - 1 \in 1..n
        BY <1>1, <2>1
      <3> QED
        BY <1>2, <1>3, <2>1, <3>1
    <2>2. CASE i = n + 1 /\ n = 0
      BY <1>2, <1>3, <1>4, <2>2
    <2>3. CASE i = n + 1 /\ n # 0
      <3>1. n \in 1..n /\ i - 1 = n /\ i # 1
        BY <1>1, <2>3
      <3> QED
        BY <1>2, <1>3, <1>4, <2>3, <3>1
    <2> QED
      BY <1>1, <2>1, <2>2, <2>3
  <1>7. stock'[s] = k[n + 1].newStock
    BY <1>2
  <1> QED
    BY <1>2, <1>5, <1>6, <1>7

\* Every step keeps stock and kardex equal.
LEMMA NextKardex ==
  ASSUME Types, Shapes, KardexIsStock, [Next]_vars
  PROVE  KardexIsStock'
  <1> USE WorkOrdersAssumption
  <1>1. CASE UNCHANGED <<stock, kardex>>
    BY <1>1 DEF KardexIsStock
  <1>2. ASSUME NEW p \in Processes, CommitComplete(p) PROVE KardexIsStock'
    <2>1. job[p].id \in Nat /\ job[p].uses \in [Supplies -> Nat]
      BY TaskFields DEF Types
    <2>2. ASSUME NEW s \in Supplies, job[p].uses[s] > 0
          PROVE  /\ kardex'[s] = Append(kardex[s], Exit(p, s))
                 /\ stock'[s] = Exit(p, s).newStock
                 /\ Exit(p, s) \in Movement
                 /\ Exit(p, s).previousStock = stock[s]
                 /\ Exit(p, s).newStock = Exit(p, s).previousStock + Exit(p, s).delta
      <3>1. kardex'[s] = Append(kardex[s], Exit(p, s)) /\ stock'[s] = Exit(p, s).newStock
        BY <1>2, <2>2 DEF CommitComplete
      <3> DEFINE taken == -job[p].uses[s]
      <3>2. taken \in Int
        BY <2>1
      <3>3. Exit(p, s) = Delta(s, taken, job[p].id)
        BY DEF Exit
      <3> HIDE DEF taken
      <3> QED
        BY <2>1, <3>1, <3>2, <3>3, DeltaTyped
    <2>3. ASSUME NEW s \in Supplies, ~(job[p].uses[s] > 0)
          PROVE  kardex'[s] = kardex[s] /\ stock'[s] = stock[s]
      BY <1>2, <2>3 DEF CommitComplete
    <2>4. ASSUME NEW s \in Supplies
          PROVE  LET k == kardex'[s]
                 IN  /\ \A i \in 1..Len(k) :
                          /\ k[i].newStock = k[i].previousStock + k[i].delta
                          /\ k[i].previousStock =
                               IF i = 1 THEN InitialStock[s] ELSE k[i - 1].newStock
                     /\ stock'[s] = IF k = <<>> THEN InitialStock[s] ELSE k[Len(k)].newStock
      <3>1. CASE job[p].uses[s] > 0
        BY <2>2, <3>1, KardexGrows
      <3>2. CASE ~(job[p].uses[s] > 0)
        BY <2>3, <3>2 DEF KardexIsStock
      <3> QED
        BY <3>1, <3>2
    <2> QED
      BY <2>4 DEF KardexIsStock
  <1>3. CASE CreateMovement
    <2>1. PICK s \in Supplies, delta \in Quantities \cup {-q : q \in Quantities} :
            /\ stock' = [stock EXCEPT ![s] = Delta(s, delta, Manual).newStock]
            /\ kardex' = [kardex EXCEPT ![s] = Append(kardex[s], Delta(s, delta, Manual))]
      BY <1>3 DEF CreateMovement
    <2> DEFINE move == Delta(s, delta, Manual)
    <2>2. delta \in Int /\ Manual \in Nat
      BY DEF Manual
    <2>3. /\ move \in Movement /\ move.previousStock = stock[s]
          /\ move.newStock = move.previousStock + move.delta
      BY <2>2, DeltaTyped
    <2>4. kardex'[s] = Append(kardex[s], move) /\ stock'[s] = move.newStock
      BY <2>1 DEF Types
    <2>5. \A x \in Supplies : x # s => kardex'[x] = kardex[x] /\ stock'[x] = stock[x]
      BY <2>1 DEF Types
    <2> HIDE DEF move
    <2>6. ASSUME NEW x \in Supplies
          PROVE  LET k == kardex'[x]
                 IN  /\ \A i \in 1..Len(k) :
                          /\ k[i].newStock = k[i].previousStock + k[i].delta
                          /\ k[i].previousStock =
                               IF i = 1 THEN InitialStock[x] ELSE k[i - 1].newStock
                     /\ stock'[x] = IF k = <<>> THEN InitialStock[x] ELSE k[Len(k)].newStock
      <3>1. CASE x = s
        BY <2>3, <2>4, <3>1, KardexGrows
      <3>2. CASE x # s
        <4>1. kardex'[x] = kardex[x] /\ stock'[x] = stock[x]
          BY <2>5, <3>2
        <4> QED
          BY <4>1 DEF KardexIsStock
      <3> QED
        BY <3>1, <3>2
    <2> QED
      BY <2>6 DEF KardexIsStock
  <1>4. ASSUME NEW p \in Processes, Start(p) PROVE UNCHANGED <<stock, kardex>>
    BY <1>4, StartTyped
  <1>5. ASSUME NEW p \in Processes, Step(p) \/ Fail(p), ~CommitComplete(p)
        PROVE  UNCHANGED <<stock, kardex>>
    BY <1>5 DEF Step, GenerateNumber, InsertWorkOrder, SyncRead, SyncWrite, WriteStatus,
                LockWorkOrder, TakeSupply, UpdateItem, DeleteWorkOrder, Throw, DeadlockVictim,
                Fail, tables
  <1>6. CASE AddSupplyToItem \/ RemoveSupplyFromItem \/ InsertByHand \/ UNCHANGED vars
    BY <1>1, <1>6 DEF AddSupplyToItem, RemoveSupplyFromItem, SetUse, InsertByHand, vars, tables
  <1> QED
    BY <1>1, <1>2, <1>3, <1>4, <1>5, <1>6 DEF Next
-----------------------------------------------------------------------------
\* A step that issues no number and inserts no row keeps the numbering.
LEMMA QuietKeeps ==
  ASSUME Numbering, Numbers' \subseteq Numbers, counter' = counter, byHand' = byHand,
         \A q \in Processes :
           /\ pc'[q] = "insert" => pc[q] = "insert" /\ job'[q].number = job[q].number
           /\ pc'[q] = "sync" => pc[q] = "sync"
  PROVE  Numbering'
  BY DEF Numbering

\* An operation ends, and adds no number.
LEMMA DoneQuiet ==
  ASSUME Types, Numbering, NEW p \in Processes, Done(p), Numbers' \subseteq Numbers,
         counter' = counter, byHand' = byHand
  PROVE  Numbering'
  <1>1. pc' = [pc EXCEPT ![p] = "idle"] /\ job' = [job EXCEPT ![p] = NoJob]
    BY DoneTyped
  <1>2. \A q \in Processes :
          /\ pc'[q] = "insert" => pc[q] = "insert" /\ job'[q].number = job[q].number
          /\ pc'[q] = "sync" => pc[q] = "sync"
    BY <1>1 DEF Types
  <1> QED
    BY <1>2, QuietKeeps

\* A row rewritten with the same number.
LEMMA SameNumber ==
  ASSUME Types, NEW o \in WorkOrderIds, workOrders[o] # None, NEW row \in WorkOrderRow,
         row.number = workOrders[o].number, workOrders' = [workOrders EXCEPT ![o] = row],
         byHand' = byHand
  PROVE  Numbers' \subseteq Numbers
  BY DEF Types, Numbers, Existing

\* Every step keeps the numbers distinct.
LEMMA NextNumbering ==
  ASSUME Types, Shapes, Locks, Numbering, [Next]_vars
  PROVE  Numbering'
  <1> USE WorkOrdersAssumption
  <1>1. CASE UNCHANGED vars
    BY <1>1 DEF vars, tables, numbering, Numbering, Numbers, Existing
  <1>2. ASSUME NEW p \in Processes, Start(p) PROVE Numbering'
    <2>1. PICK label \in {"number", "complete", "write", "edit", "delete"}, task \in JobRow :
            pc' = [pc EXCEPT ![p] = label] /\ job' = [job EXCEPT ![p] = task]
      BY <1>2, StartTyped
    <2>2. UNCHANGED <<workOrders, counter, byHand>>
      BY <1>2, StartTyped
    <2>3. Numbers' \subseteq Numbers
      BY <2>2 DEF Numbers, Existing
    <2>4. \A q \in Processes :
            /\ pc'[q] = "insert" => pc[q] = "insert" /\ job'[q].number = job[q].number
            /\ pc'[q] = "sync" => pc[q] = "sync"
      BY <2>1 DEF Types
    <2> QED
      BY <2>2, <2>3, <2>4, QuietKeeps
  <1>3. ASSUME NEW p \in Processes, Step(p) PROVE Numbering'
    <2>0. job[p] \in JobRow /\ Numbers \subseteq Nat /\ counter \in Nat
      BY NumbersTyped DEF Types
    <2>1. CASE GenerateNumber(p)
      <3>1. PICK n \in Known :
              /\ \A x \in Known : x <= n
              /\ counter' = n + 1
              /\ job' = [job EXCEPT ![p] = [job[p] EXCEPT !.number = n + 1]]
        BY <2>1 DEF GenerateNumber
      <3>2. pc' = [pc EXCEPT ![p] = "insert"] /\ Numbers' = Numbers /\ byHand' = byHand
        BY <2>1 DEF GenerateNumber, Goto, tables, Numbers, Existing
      <3>3. n \in Nat /\ counter <= n /\ \A x \in Numbers : x <= n
        BY <3>1, NumbersTyped DEF Known
      <3>4. job'[p].number = n + 1
        BY <2>0, <3>1 DEF Types, JobRow
      <3>5. \A q \in Processes : q # p => pc'[q] = pc[q] /\ job'[q].number = job[q].number
        BY <3>1, <3>2 DEF Types
      <3>6. \A q \in Processes : job[q].number \in Nat
        BY TaskFields DEF Types
      <3>7. pc'[p] = "insert"
        BY <3>2 DEF Types
      <3> SUFFICES ASSUME byHand' = {} PROVE
              /\ \A x \in Numbers' : x <= counter'
              /\ \A q \in Processes :
                   /\ pc'[q] # "sync"
                   /\ pc'[q] = "insert" =>
                        /\ job'[q].number <= counter' /\ job'[q].number \notin Numbers'
                        /\ \A r \in Processes :
                             q # r /\ pc'[r] = "insert" => job'[q].number # job'[r].number
        BY DEF Numbering
      <3>8. \A x \in Numbers' : x <= counter'
        BY <2>0, <3>1, <3>2, <3>3
      <3>9. ASSUME NEW q \in Processes, q # p, pc'[q] = "insert"
            PROVE  /\ job'[q].number <= n /\ job'[q].number \notin Numbers'
        BY <2>0, <3>2, <3>3, <3>5, <3>6, <3>9 DEF Numbering
      <3>10. job'[p].number = counter' /\ job'[p].number \notin Numbers'
        BY <2>0, <3>1, <3>2, <3>3, <3>4
      <3>11. ASSUME NEW q \in Processes, NEW r \in Processes, q # r,
                    pc'[q] = "insert", pc'[r] = "insert"
             PROVE  job'[q].number # job'[r].number
        <4>1. CASE q # p /\ r # p
          BY <3>2, <3>5, <3>11, <4>1 DEF Numbering
        <4>2. CASE q = p
          BY <3>3, <3>4, <3>5, <3>6, <3>9, <3>11, <4>2
        <4>3. CASE r = p
          BY <3>3, <3>4, <3>5, <3>6, <3>9, <3>11, <4>3
        <4> QED
          BY <4>1, <4>2, <4>3
      <3>12. \A q \in Processes : pc'[q] # "sync"
        BY <3>2, <3>5, <3>7 DEF Numbering
      <3>13. ASSUME NEW q \in Processes, pc'[q] = "insert"
             PROVE  job'[q].number <= counter' /\ job'[q].number \notin Numbers'
        <4>1. CASE q = p
          BY <3>1, <3>3, <3>10, <4>1
        <4>2. CASE q # p
          BY <3>1, <3>3, <3>5, <3>6, <3>9, <3>13, <4>2
        <4> QED
          BY <4>1, <4>2
      <3> QED
        BY <3>8, <3>11, <3>12, <3>13
    <2>2. CASE InsertWorkOrder(p)
      <3>1. PICK o \in WorkOrderIds, status \in {"DRAFT", "CONFIRMED"}, uses \in Uses :
              workOrders' = [workOrders EXCEPT ![o] =
                [order |-> job[p].order, status |-> status, number |-> job[p].number,
                 uses |-> uses]]
        BY <2>2 DEF InsertWorkOrder
      <3>2. pc[p] = "insert" /\ counter' = counter /\ byHand' = byHand /\ Done(p)
        BY <2>2 DEF InsertWorkOrder, numbering
      <3>3. Numbers' \subseteq Numbers \cup {job[p].number}
        BY <3>1, <3>2 DEF Numbers, Existing, Types
      <3>4. pc' = [pc EXCEPT ![p] = "idle"] /\ job' = [job EXCEPT ![p] = NoJob]
        BY <3>2, DoneTyped
      <3>5. \A q \in Processes : pc'[q] # "idle" => q # p /\ pc'[q] = pc[q] /\ job'[q] = job[q]
        BY <3>4 DEF Types
      <3> QED
        BY <3>2, <3>3, <3>5 DEF Numbering
    <2>3. CASE SyncRead(p)
      <3>1. byHand # {} /\ byHand' = byHand
        BY <2>3 DEF SyncRead, Numbering, numbering
      <3> QED
        BY <3>1 DEF Numbering
    <2>4. CASE SyncWrite(p)
      <3>1. byHand # {} /\ byHand' = byHand
        BY <2>4 DEF SyncWrite, Numbering
      <3> QED
        BY <3>1 DEF Numbering
    <2>5. CASE WriteStatus(p) \/ UpdateItem(p) \/ CommitComplete(p)
      <3>1. /\ Done(p) /\ counter' = counter /\ byHand' = byHand
            /\ job[p].id \in WorkOrderIds /\ workOrders[job[p].id] # None
        BY <2>5 DEF WriteStatus, UpdateItem, CommitComplete, numbering, Shapes, Locks
      <3>2. workOrders[job[p].id] \in WorkOrderRow
        BY <3>1 DEF Types
      <3>3. \E row \in WorkOrderRow :
              /\ row.number = workOrders[job[p].id].number
              /\ workOrders' = [workOrders EXCEPT ![job[p].id] = row]
        <4>1. CASE WriteStatus(p)
          BY <3>2, <4>1, StatusTyped DEF WriteStatus, Shapes, WorkOrderRow
        <4>2. CASE UpdateItem(p)
          BY <3>2, <4>2, UsesTyped DEF UpdateItem, WorkOrderRow
        <4>3. CASE CommitComplete(p)
          BY <3>2, <4>3, StatusTyped DEF CommitComplete, Statuses, WorkOrderRow
        <4> QED
          BY <2>5, <4>1, <4>2, <4>3
      <3>4. Numbers' \subseteq Numbers
        BY <3>1, <3>3, SameNumber
      <3> QED
        BY <3>1, <3>4, DoneQuiet
    <2>6. CASE DeleteWorkOrder(p)
      <3>1. Numbers' \subseteq Numbers
        BY <2>6 DEF DeleteWorkOrder, Numbers, Existing, Types, numbering
      <3> QED
        BY <2>6, <3>1, DoneQuiet DEF DeleteWorkOrder, numbering
    <2>7. CASE Throw(p) \/ DeadlockVictim(p)
      <3>1. Done(p) /\ UNCHANGED <<workOrders, counter, byHand>>
        BY <2>7 DEF Throw, DeadlockVictim, tables, numbering
      <3>2. Numbers' \subseteq Numbers
        BY <3>1 DEF Numbers, Existing
      <3> QED
        BY <3>1, <3>2, DoneQuiet
    <2>8. CASE LockWorkOrder(p) \/ TakeSupply(p)
      <3>1. UNCHANGED <<workOrders, counter, byHand>>
        BY <2>8 DEF LockWorkOrder, TakeSupply, tables, numbering
      <3>2. Numbers' \subseteq Numbers
        BY <3>1 DEF Numbers, Existing
      <3>3. pc[p] \in {"complete", "supplies"} /\ pc' = [pc EXCEPT ![p] = "supplies"]
        BY <2>8 DEF LockWorkOrder, TakeSupply, Goto, Types
      <3>4. \A q \in Processes : q # p => job'[q] = job[q]
        BY <2>8 DEF LockWorkOrder, TakeSupply, Types
      <3>5. \A q \in Processes :
              /\ pc'[q] = "insert" => pc[q] = "insert" /\ job'[q].number = job[q].number
              /\ pc'[q] = "sync" => pc[q] = "sync"
        BY <3>3, <3>4 DEF Types
      <3> QED
        BY <3>1, <3>2, <3>5, QuietKeeps
    <2> QED
      BY <1>3, <2>1, <2>2, <2>3, <2>4, <2>5, <2>6, <2>7, <2>8 DEF Step
  <1>4. ASSUME NEW p \in Processes, Fail(p) PROVE Numbering'
    <2>1. Done(p) /\ UNCHANGED <<workOrders, counter, byHand>>
      BY <1>4 DEF Fail, tables, numbering
    <2>2. Numbers' \subseteq Numbers
      BY <2>1 DEF Numbers, Existing
    <2> QED
      BY <2>1, <2>2, DoneQuiet
  <1>5. CASE AddSupplyToItem \/ RemoveSupplyFromItem
    <2>1. PICK o \in Existing, s \in Supplies, q \in Quantities \cup {0} : SetUse(o, s, q)
      BY <1>5 DEF AddSupplyToItem, RemoveSupplyFromItem
    <2> DEFINE row == [workOrders[o] EXCEPT !.uses = [workOrders[o].uses EXCEPT ![s] = q]]
    <2>2. o \in WorkOrderIds /\ workOrders[o] # None /\ workOrders[o] \in WorkOrderRow
      BY DEF Existing, Types
    <2>3. [workOrders[o].uses EXCEPT ![s] = q] \in Uses
      BY <2>2, RowUses DEF Uses
    <2>4. row \in WorkOrderRow
      BY <2>2, <2>3, UsesTyped
    <2>5. row.number = workOrders[o].number
      BY <2>2 DEF WorkOrderRow
    <2>6. workOrders' = [workOrders EXCEPT ![o] = row]
      BY <2>1 DEF SetUse
    <2> HIDE DEF row
    <2>7. UNCHANGED <<counter, byHand, pc, job>>
      BY <2>1 DEF SetUse, numbering
    <2>8. Numbers' \subseteq Numbers
      BY <2>2, <2>4, <2>5, <2>6, <2>7, SameNumber
    <2> QED
      BY <2>7, <2>8, QuietKeeps
  <1>6. CASE CreateMovement
    <2>1. UNCHANGED <<workOrders, counter, byHand, pc, job>>
      BY <1>6 DEF CreateMovement, numbering
    <2> QED
      BY <2>1 DEF Numbering, Numbers, Existing
  <1>7. CASE InsertByHand
    <2>1. byHand' # {}
      BY <1>7 DEF InsertByHand
    <2> QED
      BY <2>1 DEF Numbering
  <1> QED
    BY <1>1, <1>2, <1>3, <1>4, <1>5, <1>6, <1>7 DEF Next
-----------------------------------------------------------------------------
\* The inductive invariant of the workshop: types, what each request carries, the
\* balances of the kardex, the rows held, and the numbers given out.
THEOREM WorkOrdersInvariant == Spec => []WorkOrdersInv
  <1>1. WorkOrdersInv /\ [Next]_vars => WorkOrdersInv'
    BY NextTypes, NextLocks, NextKardex, NextNumbering DEF WorkOrdersInv
  <1> QED
    BY InitInv, <1>1, PTL DEF Spec

\* The variables keep their types.
THEOREM TypesHold == Spec => []TypeOK
  <1>1. WorkOrdersInv => TypeOK
    BY DEF WorkOrdersInv, Types, Shapes, TypeOK
  <1> QED
    BY WorkOrdersInvariant, <1>1, PTL

\* However many requests, completions and movements: the kardex of a supply is a
\* chain of balances that ends in its stock.
THEOREM KardexAccountsForStock == Spec => []KardexIsStock
  <1>1. WorkOrdersInv => KardexIsStock
    BY DEF WorkOrdersInv
  <1> QED
    BY WorkOrdersInvariant, <1>1, PTL

\* While nobody inserts rows by hand, a number is given to one request.
THEOREM NumberGivenOnce == Spec => []NumbersIssuedOnce
  <1>1. WorkOrdersInv => NumbersIssuedOnce
    BY DEF WorkOrdersInv, Numbering, NumbersIssuedOnce
  <1> QED
    BY WorkOrdersInvariant, <1>1, PTL

\* A number is issued by GenerateNumber alone, above every number of the table.
THEOREM IssuedIsFree == Spec => IssuedWasFree
  <1>1. WorkOrdersInv /\ [Next]_vars =>
          [\A p \in Processes : (pc[p] = "number" /\ pc'[p] = "insert")
             => job'[p].number \notin Numbers]_vars
    <2> SUFFICES ASSUME WorkOrdersInv, Next, NEW p \in Processes,
                        pc[p] = "number", pc'[p] = "insert"
                 PROVE  job'[p].number \notin Numbers
      OBVIOUS
    <2>1. Types /\ job[p] \in JobRow /\ Numbers \subseteq Nat /\ Known \subseteq Nat
      BY NumbersTyped DEF WorkOrdersInv, Types
    <2>2. CASE GenerateNumber(p)
      <3>1. PICK n \in Known :
              /\ \A x \in Known : x <= n
              /\ job' = [job EXCEPT ![p] = [job[p] EXCEPT !.number = n + 1]]
        BY <2>2 DEF GenerateNumber
      <3>2. job'[p].number = n + 1
        BY <2>1, <3>1 DEF Types, JobRow
      <3> QED
        BY <2>1, <3>1, <3>2 DEF Known
    <2>3. ASSUME NEW q \in Processes, Start(q) PROVE FALSE
      BY <2>1, <2>3, StartTyped DEF Types
    <2>4. ASSUME NEW q \in Processes, Step(q) \/ Fail(q), ~GenerateNumber(p) PROVE FALSE
      <3>1. CASE GenerateNumber(q)
        BY <2>1, <2>4, <3>1 DEF GenerateNumber, Goto, Types
      <3>2. CASE SyncRead(q) \/ SyncWrite(q) \/ LockWorkOrder(q) \/ TakeSupply(q)
        BY <2>1, <3>2 DEF SyncRead, SyncWrite, LockWorkOrder, TakeSupply, Goto, Types
      <3>3. CASE Done(q)
        <4>1. pc' = [pc EXCEPT ![q] = "idle"]
          BY <3>3 DEF Done, Goto
        <4> QED
          BY <2>1, <4>1 DEF Types
      <3> QED
        BY <2>4, <3>1, <3>2, <3>3
        DEF Step, Fail, InsertWorkOrder, WriteStatus, CommitComplete, UpdateItem,
            DeleteWorkOrder, Throw, DeadlockVictim
    <2>5. ASSUME \/ AddSupplyToItem \/ RemoveSupplyFromItem \/ CreateMovement \/ InsertByHand
          PROVE  FALSE
      BY <2>5 DEF AddSupplyToItem, RemoveSupplyFromItem, SetUse, CreateMovement, InsertByHand
    <2> QED
      BY <2>2, <2>3, <2>4, <2>5 DEF Next
  <1> QED
    BY WorkOrdersInvariant, <1>1, PTL DEF Spec, IssuedWasFree

\* While a completion holds a work order, nobody changes its status.
THEOREM HeldRowStays == Spec => HeldStays
  <1>1. WorkOrdersInv /\ [Next]_vars =>
          [\A o \in WorkOrderIds :
             (olock[o] # None /\ olock'[o] = olock[o] /\ workOrders[o] # None) =>
               workOrders'[o].status = workOrders[o].status]_vars
    <2> SUFFICES ASSUME WorkOrdersInv, Next, NEW o \in WorkOrderIds,
                        olock[o] # None, olock'[o] = olock[o], workOrders[o] # None
                 PROVE  workOrders'[o].status = workOrders[o].status
      OBVIOUS
    <2> USE WorkOrdersAssumption
    <2>0. Types /\ Shapes /\ Locks
      BY DEF WorkOrdersInv
    <2>1. ASSUME NEW p \in Processes, Start(p) PROVE workOrders' = workOrders
      BY <2>0, <2>1, StartTyped
    <2>2. ASSUME NEW p \in Processes, Step(p) \/ Fail(p)
          PROVE  workOrders'[o].status = workOrders[o].status
      <3>1. CASE InsertWorkOrder(p)
        BY <2>0, <3>1 DEF InsertWorkOrder, Fresh, Existing, Types
      <3>2. CASE WriteStatus(p)
        BY <2>0, <3>2 DEF WriteStatus, Types
      <3>3. CASE CommitComplete(p)
        <4>1. olock[job[p].id] = p /\ pc[p] = "supplies" /\ p # None
          BY <2>0, <3>3 DEF CommitComplete, Locks
        <4>2. olock'[o] = IF olock[o] = p THEN None ELSE olock[o]
          BY <2>0, <3>3, DoneTyped DEF CommitComplete
        <4>3. o # job[p].id
          BY <4>1, <4>2
        <4> QED
          BY <2>0, <3>3, <4>3 DEF CommitComplete, Types
      <3>4. CASE UpdateItem(p)
        <4>1. PICK uses \in Uses :
                workOrders' = [workOrders EXCEPT ![job[p].id] =
                                 [workOrders[job[p].id] EXCEPT !.uses = uses]]
          BY <3>4 DEF UpdateItem
        <4>2. workOrders[o] \in WorkOrderRow
          BY <2>0 DEF Types
        <4> QED
          BY <2>0, <4>1, <4>2 DEF Types, WorkOrderRow
      <3>5. CASE DeleteWorkOrder(p)
        BY <2>0, <3>5 DEF DeleteWorkOrder, Types
      <3>6. CASE \/ GenerateNumber(p) \/ SyncRead(p) \/ SyncWrite(p) \/ LockWorkOrder(p)
                 \/ TakeSupply(p) \/ Throw(p) \/ DeadlockVictim(p) \/ Fail(p)
        BY <3>6 DEF GenerateNumber, SyncRead, SyncWrite, LockWorkOrder, TakeSupply, Throw,
                    DeadlockVictim, Fail, tables
      <3> QED
        BY <2>2, <3>1, <3>2, <3>3, <3>4, <3>5, <3>6 DEF Step
    <2>3. ASSUME NEW x \in Existing, NEW s \in Supplies, NEW q \in Quantities \cup {0},
                 SetUse(x, s, q)
          PROVE  workOrders'[o].status = workOrders[o].status
      <3>1. workOrders[o] \in WorkOrderRow
        BY <2>0 DEF Types
      <3> QED
        BY <2>0, <2>3, <3>1 DEF SetUse, Types, WorkOrderRow
    <2>4. CASE AddSupplyToItem \/ RemoveSupplyFromItem
      BY <2>3, <2>4 DEF AddSupplyToItem, RemoveSupplyFromItem
    <2>5. CASE CreateMovement \/ InsertByHand
      BY <2>5 DEF CreateMovement, InsertByHand, tables
    <2> QED
      BY <2>1, <2>2, <2>4, <2>5 DEF Next
  <1> QED
    BY WorkOrdersInvariant, <1>1, PTL DEF Spec, HeldStays

\* A completion takes all its supplies out of the stock, or none.
THEOREM CompletionIsWhole == Spec => CompletionTakesAll
  <1>1. WorkOrdersInv /\ [Next]_vars =>
          [\A p \in Processes :
             (pc[p] = "supplies" /\ pc'[p] = "idle" /\ workOrders' # workOrders) =>
               \A s \in Supplies : stock'[s] = stock[s] - job[p].uses[s]]_vars
    <2> SUFFICES ASSUME WorkOrdersInv, Next, NEW p \in Processes,
                        pc[p] = "supplies", pc'[p] = "idle",
                        workOrders' # workOrders, NEW s \in Supplies
                 PROVE  stock'[s] = stock[s] - job[p].uses[s]
      OBVIOUS
    <2>0. Types /\ Shapes /\ job[p] \in JobRow
      BY DEF WorkOrdersInv, Types
    <2>1. CASE CommitComplete(p)
      <3>1. job[p].uses[s] \in Nat /\ stock[s] \in Int
        BY <2>0, TaskFields DEF Types
      <3>2. Exit(p, s).newStock = stock[s] + (-job[p].uses[s])
        BY DEF Exit, Delta
      <3>3. stock'[s] = IF job[p].uses[s] > 0 THEN Exit(p, s).newStock ELSE stock[s]
        BY <2>1 DEF CommitComplete
      <3> QED
        BY <3>1, <3>2, <3>3
    <2>2. ASSUME NEW q \in Processes, Start(q) PROVE FALSE
      BY <2>0, <2>2, StartTyped
    <2>3. ASSUME NEW q \in Processes, q # p, Step(q) \/ Fail(q) PROVE FALSE
      <3>1. CASE Done(q)
        <4>1. pc' = [pc EXCEPT ![q] = "idle"]
          BY <3>1 DEF Done, Goto
        <4> QED
          BY <2>0, <2>3, <4>1 DEF Types
      <3>2. CASE GenerateNumber(q) \/ SyncRead(q) \/ SyncWrite(q) \/ LockWorkOrder(q)
                 \/ TakeSupply(q)
        BY <2>0, <3>2 DEF GenerateNumber, SyncRead, SyncWrite, LockWorkOrder, TakeSupply, tables
      <3> QED
        BY <2>3, <3>1, <3>2
        DEF Step, Fail, InsertWorkOrder, WriteStatus, CommitComplete, UpdateItem,
            DeleteWorkOrder, Throw, DeadlockVictim
    <2>4. ASSUME Step(p) \/ Fail(p), ~CommitComplete(p) PROVE FALSE
      BY <2>4 DEF Step, Fail, GenerateNumber, InsertWorkOrder, SyncRead, SyncWrite, WriteStatus,
                  LockWorkOrder, TakeSupply, UpdateItem, DeleteWorkOrder, Throw, DeadlockVictim,
                  tables
    <2>5. ASSUME \/ AddSupplyToItem \/ RemoveSupplyFromItem \/ CreateMovement \/ InsertByHand
          PROVE  FALSE
      BY <2>5 DEF AddSupplyToItem, RemoveSupplyFromItem, SetUse, CreateMovement, InsertByHand
    <2> QED
      BY <2>1, <2>2, <2>3, <2>4, <2>5 DEF Next
  <1> QED
    BY WorkOrdersInvariant, <1>1, PTL DEF Spec, CompletionTakesAll

\* A completion is atomic (updateStatus to COMPLETED, exitForWorkOrder): what it
\* commits took all the supplies, and its row was nobody else's meanwhile.
THEOREM CompletionAtomic == Spec => CompletionIsAtomic
  BY CompletionIsWhole, HeldRowStays DEF CompletionIsAtomic

\* The numbers of generateNumber: given to one request, and free when issued.
THEOREM NumbersCorrect == Spec => NumbersHold
  BY NumberGivenOnce, IssuedIsFree, PTL DEF NumbersHold
-----------------------------------------------------------------------------
(* One request at a time.                                                   *)

\* The requests other than one that runs.
LEMMA NobodyElse ==
  ASSUME AloneInv, ~raced, NEW p \in Processes, pc[p] # "idle"
  PROVE  \A q \in Processes \ {p} : pc[q] = "idle"
  BY DEF AloneInv

\* What is idle read nothing.
LEMMA IdleReads ==
  ASSUME \A q \in Processes : pc'[q] = "idle", OneEach', ExitsOfCompleted'
  PROVE  AloneInv'
  BY DEF AloneInv, ReadStays

\* A request that runs alone ends.
LEMMA AloneEnds ==
  ASSUME Types, AloneInv, NEW p \in Processes, pc[p] # "idle", Done(p), UNCHANGED raced,
         ~raced => OneEach' /\ ExitsOfCompleted'
  PROVE  AloneInv'
  <1>1. SUFFICES ASSUME ~raced PROVE AloneInv'
    BY DEF AloneInv
  <1>2. \A q \in Processes : pc'[q] = "idle"
    BY <1>1, DoneTyped, NobodyElse DEF Types
  <1> QED
    BY <1>1, <1>2, IdleReads

\* A request that runs alone goes on, and changes no table.
LEMMA AloneGoes ==
  ASSUME Types, AloneInv, NEW p \in Processes, pc[p] # "idle", UNCHANGED <<raced, tables>>,
         NEW label \in Labels, NEW task \in JobRow, label # "idle",
         pc' = [pc EXCEPT ![p] = label], job' = [job EXCEPT ![p] = task],
         ~raced => ReadStays(p)'
  PROVE  AloneInv'
  <1>1. SUFFICES ASSUME ~raced PROVE AloneInv'
    BY DEF AloneInv
  <1>2. \A q \in Processes \ {p} : pc'[q] = "idle"
    BY <1>1, NobodyElse DEF Types
  <1>3. \A q \in Processes : ReadStays(q)'
    BY <1>1, <1>2 DEF ReadStays
  <1>4. OneEach' /\ ExitsOfCompleted'
    BY <1>1 DEF AloneInv, OneEach, ExitsOfCompleted, NotCancelled, Existing, Exits, tables
  <1> QED
    BY <1>2, <1>3, <1>4 DEF AloneInv

\* A row that keeps its order, and is cancelled if it was and completed only if it
\* was, leaves each order with one and no movement without its completion.
LEMMA OneRowChanges ==
  ASSUME Types, OneEach, ExitsOfCompleted, kardex' = kardex, NEW o \in WorkOrderIds,
         \A x \in WorkOrderIds : x # o => workOrders'[x] = workOrders[x],
         workOrders[o] # None, workOrders'[o] # None,
         workOrders'[o].order = workOrders[o].order,
         workOrders[o].status = "CANCELLED" => workOrders'[o].status = "CANCELLED",
         workOrders[o].status = "COMPLETED" => workOrders'[o].status = "COMPLETED"
  PROVE  OneEach' /\ ExitsOfCompleted'
  <1>1. \A order \in Orders : NotCancelled(order)' \subseteq NotCancelled(order)
    BY DEF NotCancelled, Existing
  <1>2. \A x \in WorkOrderIds, s \in Supplies : Exits(x, s)' = Exits(x, s)
    BY DEF Exits
  <1>3. OneEach'
    BY <1>1 DEF OneEach
  <1>4. ASSUME NEW x \in WorkOrderIds, NEW s \in Supplies
        PROVE  /\ \A i, j \in Exits(x, s)' : i = j
               /\ Exits(x, s)' # {} => workOrders'[x] # None /\ workOrders'[x].status = "COMPLETED"
    <2>1. /\ \A i, j \in Exits(x, s) : i = j
          /\ Exits(x, s) # {} => workOrders[x] # None /\ workOrders[x].status = "COMPLETED"
      BY DEF ExitsOfCompleted
    <2>2. (workOrders[x] # None /\ workOrders[x].status = "COMPLETED")
            => workOrders'[x] # None /\ workOrders'[x].status = "COMPLETED"
      BY <1>4
    <2>3. Exits(x, s)' = Exits(x, s)
      BY <1>2
    <2> QED
      BY <2>1, <2>2, <2>3
  <1>5. ExitsOfCompleted'
    BY <1>4 DEF ExitsOfCompleted
  <1> QED
    BY <1>3, <1>5

\* The row inserted is the only one of its order, and nothing left for its id.
LEMMA InsertAlone ==
  ASSUME Types, Shapes, OneEach, ExitsOfCompleted, NEW p \in Processes, InsertWorkOrder(p),
         ReadStays(p)
  PROVE  OneEach' /\ ExitsOfCompleted'
  <1>1. PICK o \in WorkOrderIds, status \in {"DRAFT", "CONFIRMED"}, uses \in Uses :
          /\ Fresh(o)
          /\ workOrders' = [workOrders EXCEPT ![o] =
               [order |-> job[p].order, status |-> status, number |-> job[p].number,
                uses |-> uses]]
    BY DEF InsertWorkOrder
  <1>2. workOrders[o] = None /\ kardex' = kardex
    BY <1>1 DEF Fresh, Existing, InsertWorkOrder
  <1>3. /\ \A x \in WorkOrderIds : x # o => workOrders'[x] = workOrders[x]
        /\ workOrders'[o].order = job[p].order
    BY <1>1 DEF Types
  <1>4. NotCancelled(job[p].order) = {}
    BY DEF ReadStays, InsertWorkOrder
  <1>5. ASSUME NEW order \in Orders
        PROVE  \A x, y \in NotCancelled(order)' : x = y
    <2>1. CASE order = job[p].order
      <3>1. NotCancelled(order)' \subseteq {o}
        BY <1>3, <1>4, <2>1 DEF NotCancelled, Existing
      <3> QED
        BY <3>1
    <2>2. CASE order # job[p].order
      <3>1. NotCancelled(order)' \subseteq NotCancelled(order)
        BY <1>3, <2>2 DEF NotCancelled, Existing
      <3> QED
        BY <3>1 DEF OneEach
    <2> QED
      BY <2>1, <2>2
  <1>6. \A s \in Supplies : Exits(o, s) = {}
    BY <1>2 DEF ExitsOfCompleted
  <1>7. \A x \in WorkOrderIds, s \in Supplies : Exits(x, s)' = Exits(x, s)
    BY <1>2 DEF Exits
  <1>8. ExitsOfCompleted'
    BY <1>3, <1>6, <1>7 DEF ExitsOfCompleted
  <1> QED
    BY <1>5, <1>8 DEF OneEach

\* A draft that is deleted had moved nothing.
LEMMA DeleteAlone ==
  ASSUME Types, Shapes, OneEach, ExitsOfCompleted, NEW p \in Processes, DeleteWorkOrder(p),
         ReadStays(p)
  PROVE  OneEach' /\ ExitsOfCompleted'
  <1>1. /\ job[p].id \in WorkOrderIds /\ kardex' = kardex
        /\ workOrders[job[p].id].status = "DRAFT"
        /\ workOrders' = [workOrders EXCEPT ![job[p].id] = None]
    BY DEF DeleteWorkOrder, Shapes, ReadStays
  <1>2. \A order \in Orders : NotCancelled(order)' \subseteq NotCancelled(order)
    BY <1>1 DEF NotCancelled, Existing, Types
  <1>3. \A x \in WorkOrderIds, s \in Supplies : Exits(x, s)' = Exits(x, s)
    BY <1>1 DEF Exits
  <1>4. \A s \in Supplies : Exits(job[p].id, s) = {}
    BY <1>1 DEF ExitsOfCompleted
  <1>5. \A x \in WorkOrderIds : x # job[p].id => workOrders'[x] = workOrders[x]
    BY <1>1 DEF Types
  <1>6. ExitsOfCompleted'
    BY <1>3, <1>4, <1>5 DEF ExitsOfCompleted
  <1> QED
    BY <1>2, <1>6 DEF OneEach

\* A movement appended to a kardex that has none of the same reference.
LEMMA OneMovement ==
  ASSUME Types, NEW s \in Supplies, NEW move \in Movement, NEW o \in Nat,
         kardex'[s] = Append(kardex[s], move)
  PROVE  /\ move.reference # o => Exits(o, s)' = Exits(o, s)
         /\ Exits(o, s) = {} => \A i, j \in Exits(o, s)' : i = j
  <1> DEFINE n == Len(kardex[s])
             k == Append(kardex[s], move)
  <1>1. kardex[s] \in Seq(Movement) /\ n \in Nat
    BY DEF Types
  <1>2. /\ DOMAIN k = 1..(n + 1) /\ DOMAIN kardex[s] = 1..n /\ k[n + 1] = move
        /\ \A i \in 1..n : k[i] = kardex[s][i]
    BY <1>1
  <1>3. kardex'[s] = k
    OBVIOUS
  <1> HIDE DEF n, k
  <1>4. \A i \in 1..(n + 1) : i \in 1..n \/ i = n + 1
    BY <1>1
  <1>5. 1..n \subseteq 1..(n + 1) /\ n + 1 \in 1..(n + 1)
    BY <1>1
  <1>6. Exits(o, s)' = {i \in 1..(n + 1) : k[i].reference = o}
    BY <1>2, <1>3 DEF Exits
  <1>7. Exits(o, s) = {i \in 1..n : kardex[s][i].reference = o}
    BY <1>2 DEF Exits
  <1>8. move.reference # o => Exits(o, s)' = Exits(o, s)
    BY <1>2, <1>4, <1>5, <1>6, <1>7
  <1>9. Exits(o, s) = {} => Exits(o, s)' \subseteq {n + 1}
    BY <1>2, <1>4, <1>6, <1>7
  <1> QED
    BY <1>8, <1>9

\* A completion of a row that was not completed leaves its movements, once.
LEMMA CommitAlone ==
  ASSUME Types, Shapes, Locks, OneEach, ExitsOfCompleted, NEW p \in Processes,
         CommitComplete(p), ReadStays(p)
  PROVE  OneEach' /\ ExitsOfCompleted'
  <1> DEFINE c == job[p].id
  <1>1. /\ c \in WorkOrderIds /\ c \in Nat /\ workOrders[c] \in WorkOrderRow
        /\ job[p].uses \in [Supplies -> Nat]
    BY TaskFields DEF CommitComplete, Shapes, Types, Locks
  <1>2. /\ \A x \in WorkOrderIds : x # c => workOrders'[x] = workOrders[x]
        /\ workOrders'[c] = [workOrders[c] EXCEPT !.status = "COMPLETED"]
    BY <1>1 DEF CommitComplete, Types
  <1>3. /\ workOrders'[c].order = workOrders[c].order /\ workOrders'[c].status = "COMPLETED"
        /\ workOrders'[c] \in WorkOrderRow
    <2>1. [workOrders[c] EXCEPT !.status = "COMPLETED"] \in WorkOrderRow
      BY <1>1, StatusTyped DEF Statuses
    <2> QED
      BY <1>1, <1>2, <2>1 DEF WorkOrderRow
  <1>4. workOrders[c] # None /\ workOrders[c].status \notin {"COMPLETED", "CANCELLED"}
    BY DEF ReadStays, CommitComplete, AllowedTransitions
  <1>5. \A order \in Orders : NotCancelled(order)' \subseteq NotCancelled(order)
    BY <1>2, <1>3, <1>4 DEF NotCancelled, Existing
  <1>6. \A s \in Supplies : Exits(c, s) = {}
    BY <1>1, <1>4 DEF ExitsOfCompleted
  <1>7. ASSUME NEW s \in Supplies
        PROVE  \/ kardex'[s] = kardex[s]
               \/ \E move \in Movement : move.reference = c /\ kardex'[s] = Append(kardex[s], move)
    <2>1. -job[p].uses[s] \in Int
      BY <1>1
    <2> DEFINE taken == -job[p].uses[s]
    <2>2. Exit(p, s) = Delta(s, taken, c)
      BY DEF Exit
    <2>3. Delta(s, taken, c).reference = c
      BY DEF Delta
    <2> HIDE DEF taken
    <2>4. Exit(p, s) \in Movement /\ Exit(p, s).reference = c
      BY <1>1, <2>1, <2>2, <2>3, DeltaTyped DEF taken
    <2>5. kardex'[s] = kardex[s] \/ kardex'[s] = Append(kardex[s], Exit(p, s))
      BY DEF CommitComplete
    <2> QED
      BY <2>4, <2>5
  <1> HIDE DEF c
  <1>8. ASSUME NEW o \in WorkOrderIds, NEW s \in Supplies
        PROVE  /\ \A i, j \in Exits(o, s)' : i = j
               /\ o # c => Exits(o, s)' = Exits(o, s)
    <2>1. o \in Nat
      BY WorkOrdersAssumption
    <2>2. CASE kardex'[s] = kardex[s]
      <3>1. Exits(o, s)' = Exits(o, s)
        BY <2>2 DEF Exits
      <3> QED
        BY <3>1 DEF ExitsOfCompleted
    <2>3. CASE kardex'[s] # kardex[s]
      <3>1. PICK move \in Movement : move.reference = c /\ kardex'[s] = Append(kardex[s], move)
        BY <1>7, <2>3
      <3>2. /\ c # o => Exits(o, s)' = Exits(o, s)
            /\ Exits(o, s) = {} => \A i, j \in Exits(o, s)' : i = j
        BY <2>1, <3>1, OneMovement
      <3>3. \A i, j \in Exits(o, s) : i = j
        BY DEF ExitsOfCompleted
      <3> QED
        BY <1>6, <3>2, <3>3
    <2> QED
      BY <2>2, <2>3
  <1>9. ASSUME NEW o \in WorkOrderIds, NEW s \in Supplies, Exits(o, s)' # {}
        PROVE  workOrders'[o] # None /\ workOrders'[o].status = "COMPLETED"
    <2>1. CASE o = c
      BY <1>3, <2>1, WorkOrdersAssumption
    <2>2. CASE o # c
      BY <1>2, <1>8, <1>9, <2>2 DEF ExitsOfCompleted
    <2> QED
      BY <2>1, <2>2
  <1>10. ExitsOfCompleted'
    BY <1>8, <1>9 DEF ExitsOfCompleted
  <1> QED
    BY <1>5, <1>10 DEF OneEach

\* What a request that begins read is so.
LEMMA BeginAlone ==
  ASSUME Types, AloneInv, NEW p \in Processes, Start(p)
  PROVE  AloneInv'
  <1>1. SUFFICES ASSUME ~raced' PROVE AloneInv'
    BY DEF AloneInv
  <1>2. /\ ~raced /\ (\A q \in Processes : pc[q] = "idle")
        /\ UNCHANGED <<workOrders, kardex>>
        /\ \A q \in Processes \ {p} : pc'[q] = "idle"
    <2>1. \E task, label : Begin(p, task, label)
      <3>1. CASE StartCreate(p)
        BY <3>1 DEF StartCreate
      <3>2. CASE StartStatus(p)
        BY <3>2 DEF StartStatus
      <3>3. CASE StartUpdate(p)
        BY <3>3 DEF StartUpdate
      <3>4. CASE StartRemove(p)
        BY <3>4 DEF StartRemove
      <3> QED
        BY <3>1, <3>2, <3>3, <3>4 DEF Start
    <2>2. PICK task, label : Begin(p, task, label)
      BY <2>1
    <2>3. ~raced /\ (\A q \in Processes : pc[q] = "idle") /\ UNCHANGED tables
      BY <1>1, <2>2 DEF Begin
    <2> QED
      BY <2>2, <2>3 DEF Begin, Goto, Types, tables
  <1>3. OneEach' /\ ExitsOfCompleted'
    BY <1>2 DEF AloneInv, OneEach, ExitsOfCompleted, NotCancelled, Existing, Exits
  <1>4. ASSUME NEW task, NEW label, Begin(p, task, label)
        PROVE  pc'[p] = label /\ job'[p] = task
    BY <1>4 DEF Begin, Goto, Types
  <1>5. ReadStays(p)'
    <2>1. CASE StartCreate(p)
      <3>1. PICK order \in Orders :
              Active(order) = {} /\ Begin(p, [NoJob EXCEPT !.order = order], "number")
        BY <2>1 DEF StartCreate
      <3>2. pc'[p] = "number" /\ job'[p].order = order
        BY <1>4, <3>1 DEF NoJob
      <3>3. NotCancelled(order)' = {}
        BY <1>2, <3>1 DEF Active, NotCancelled, Existing
      <3> QED
        BY <3>2, <3>3 DEF ReadStays, NotCancelled, Existing
    <2>2. CASE StartStatus(p)
      <3>1. PICK o \in Existing, to \in Statuses :
              /\ to \in AllowedTransitions(workOrders[o].status)
              /\ Begin(p, [NoJob EXCEPT !.id = o, !.status = to],
                       IF to = "COMPLETED" THEN "complete" ELSE "write")
        BY <2>2 DEF StartStatus
      <3>2. /\ pc'[p] = IF to = "COMPLETED" THEN "complete" ELSE "write"
            /\ job'[p] = [NoJob EXCEPT !.id = o, !.status = to]
        BY <1>4, <3>1
      <3>3. job'[p].id = o /\ job'[p].status = to
        BY <3>2 DEF NoJob
      <3>4. pc'[p] \in {"complete", "write"} /\ (pc'[p] = "write" <=> to # "COMPLETED")
        BY <3>2
      <3> QED
        BY <1>2, <3>1, <3>3, <3>4 DEF ReadStays, Existing
    <2>3. CASE StartUpdate(p)
      <3>1. pc'[p] = "edit"
        BY <1>4, <2>3 DEF StartUpdate
      <3> QED
        BY <3>1 DEF ReadStays
    <2>4. CASE StartRemove(p)
      <3>1. PICK o \in Existing :
              workOrders[o].status = "DRAFT" /\ Begin(p, [NoJob EXCEPT !.id = o], "delete")
        BY <2>4 DEF StartRemove
      <3>2. pc'[p] = "delete" /\ job'[p].id = o
        BY <1>4, <3>1 DEF NoJob
      <3> QED
        BY <1>2, <3>1, <3>2 DEF ReadStays
    <2> QED
      BY <2>1, <2>2, <2>3, <2>4 DEF Start
  <1>6. \A q \in Processes : ReadStays(q)'
    BY <1>2, <1>5 DEF ReadStays
  <1> QED
    BY <1>2, <1>3, <1>6 DEF AloneInv

\* The numbering of a request that runs alone, and the row and supplies it locks.
LEMMA ContinueAlone ==
  ASSUME Types, Shapes, AloneInv, NEW p \in Processes,
         \/ GenerateNumber(p) \/ SyncRead(p) \/ SyncWrite(p) \/ LockWorkOrder(p) \/ TakeSupply(p)
  PROVE  AloneInv'
  <1>0. job[p] \in JobRow /\ (~raced => ReadStays(p))
    BY DEF Types, AloneInv
  <1>1. UNCHANGED <<raced, tables>> /\ pc[p] # "idle"
    BY DEF GenerateNumber, SyncRead, SyncWrite, LockWorkOrder, TakeSupply
  <1>2. CASE GenerateNumber(p) \/ SyncRead(p) \/ SyncWrite(p)
    <2>1. PICK label \in {"number", "insert", "sync"} : pc' = [pc EXCEPT ![p] = label]
      BY <1>2 DEF GenerateNumber, SyncRead, SyncWrite, Goto
    <2>2. /\ pc[p] \in {"number", "insert", "sync"}
          /\ \E task \in JobRow : /\ job' = [job EXCEPT ![p] = task]
                                  /\ task.order = job[p].order
      <3>1. CASE GenerateNumber(p)
        <4>1. PICK n \in Known : job' = [job EXCEPT ![p] = [job[p] EXCEPT !.number = n + 1]]
          BY <3>1 DEF GenerateNumber
        <4>2. n + 1 \in Nat
          BY NumbersTyped
        <4>3. ASSUME NEW j \in JobRow
              PROVE  /\ [j EXCEPT !.number = n + 1] \in JobRow
                     /\ [j EXCEPT !.number = n + 1].order = j.order
          BY <4>2 DEF JobRow
        <4> QED
          BY <3>1, <4>1, <4>3 DEF GenerateNumber, Types
      <3>2. CASE SyncRead(p)
        <4>1. PICK n \in Numbers :
                job' = [job EXCEPT ![p] =
                          [job[p] EXCEPT !.number = n, !.attempt = job[p].attempt + 1]]
          BY <3>2 DEF SyncRead
        <4>2. n \in Nat
          BY NumbersTyped
        <4>3. ASSUME NEW j \in JobRow
              PROVE  /\ [j EXCEPT !.number = n, !.attempt = j.attempt + 1] \in JobRow
                     /\ [j EXCEPT !.number = n, !.attempt = j.attempt + 1].order = j.order
          <5>1. j.attempt + 1 \in Nat
            BY DEF JobRow
          <5> QED
            BY <4>2, <5>1 DEF JobRow
        <4> QED
          BY <3>2, <4>1, <4>3 DEF SyncRead, Types
      <3>3. CASE SyncWrite(p)
        BY <3>3 DEF SyncWrite, Types
      <3> QED
        BY <1>2, <3>1, <3>2, <3>3
    <2>3. PICK task \in JobRow : job' = [job EXCEPT ![p] = task] /\ task.order = job[p].order
      BY <2>2
    <2>4. pc'[p] = label /\ job'[p] = task
      BY <2>1, <2>3 DEF Types
    <2>5. ~raced => ReadStays(p)'
      BY <1>0, <1>1, <2>2, <2>3, <2>4 DEF ReadStays, NotCancelled, Existing, tables, Types
    <2> QED
      BY <1>1, <2>1, <2>3, <2>5, AloneGoes DEF Labels
  <1>3. CASE LockWorkOrder(p) \/ TakeSupply(p)
    <2>1. /\ pc[p] \in {"complete", "supplies"} /\ pc' = [pc EXCEPT ![p] = "supplies"]
          /\ \E task \in JobRow : /\ job' = [job EXCEPT ![p] = task]
                                  /\ task.id = job[p].id /\ task.status = job[p].status
      <3>1. CASE LockWorkOrder(p)
        <4> DEFINE uses == workOrders[job[p].id].uses
                   left == {s \in Supplies : uses[s] > 0}
        <4>1. job' = [job EXCEPT ![p] = [job[p] EXCEPT !.left = left, !.uses = uses]]
          BY <3>1 DEF LockWorkOrder
        <4>3. left \in SUBSET Supplies
          OBVIOUS
        <4> HIDE DEF uses, left
        <4>4. ASSUME NEW j \in JobRow
              PROVE  /\ [j EXCEPT !.left = left, !.uses = uses].id = j.id
                     /\ [j EXCEPT !.left = left, !.uses = uses].status = j.status
                     /\ uses \in [Supplies -> Nat]
                          => [j EXCEPT !.left = left, !.uses = uses] \in JobRow
          BY <4>3 DEF JobRow
        <4>5. uses \in [Supplies -> Nat]
          <5>1. workOrders[job[p].id] \in WorkOrderRow
            BY <3>1 DEF LockWorkOrder, Types, Shapes
          <5> QED
            BY <5>1, RowUses DEF uses
        <4> QED
          BY <3>1, <4>1, <4>4, <4>5 DEF LockWorkOrder, Goto, Types
      <3>2. CASE TakeSupply(p)
        <4>1. PICK s \in job[p].left :
                job' = [job EXCEPT ![p] = [job[p] EXCEPT !.left = job[p].left \ {s}]]
          BY <3>2 DEF TakeSupply
        <4>2. ASSUME NEW j \in JobRow
              PROVE  /\ [j EXCEPT !.left = j.left \ {s}] \in JobRow
                     /\ [j EXCEPT !.left = j.left \ {s}].id = j.id
                     /\ [j EXCEPT !.left = j.left \ {s}].status = j.status
          BY DEF JobRow
        <4> QED
          BY <3>2, <4>1, <4>2 DEF TakeSupply, Types
      <3> QED
        BY <1>3, <3>1, <3>2
    <2>2. PICK task \in JobRow : /\ job' = [job EXCEPT ![p] = task]
                                 /\ task.id = job[p].id /\ task.status = job[p].status
      BY <2>1
    <2>3. pc'[p] = "supplies" /\ job'[p] = task
      BY <2>1, <2>2 DEF Types
    <2>4. ~raced => ReadStays(p)'
      BY <1>0, <1>1, <2>1, <2>2, <2>3 DEF ReadStays, tables
    <2> QED
      BY <1>1, <2>1, <2>2, <2>4, AloneGoes DEF Labels
  <1> QED
    BY <1>2, <1>3

\* Every step of requests that come one at a time keeps it.
LEMMA NextAlone ==
  ASSUME WorkOrdersInv, AloneInv, [Next]_vars
  PROVE  AloneInv'
  <1>0. Types /\ Shapes /\ Locks
    BY DEF WorkOrdersInv
  <1>1. CASE UNCHANGED <<workOrders, kardex, pc, job, raced>>
    BY <1>1 DEF AloneInv, OneEach, ExitsOfCompleted, ReadStays, NotCancelled, Existing, Exits
  <1>2. ASSUME NEW p \in Processes, Start(p)
        PROVE  AloneInv'
    BY <1>0, <1>2, BeginAlone
  <1>3. ASSUME NEW p \in Processes,
               \/ GenerateNumber(p) \/ SyncRead(p) \/ SyncWrite(p) \/ LockWorkOrder(p)
               \/ TakeSupply(p)
        PROVE  AloneInv'
    BY <1>0, <1>3, ContinueAlone
  <1>4. ASSUME NEW p \in Processes, Throw(p) \/ DeadlockVictim(p) \/ Fail(p)
        PROVE  AloneInv'
    <2>1. pc[p] # "idle" /\ Done(p) /\ UNCHANGED <<raced, tables>>
      BY <1>4 DEF Throw, DeadlockVictim, Fail
    <2>2. ~raced => OneEach' /\ ExitsOfCompleted'
      BY <2>1 DEF AloneInv, OneEach, ExitsOfCompleted, NotCancelled, Existing, Exits, tables
    <2> QED
      BY <1>0, <2>1, <2>2, AloneEnds
  <1>5. ASSUME NEW p \in Processes,
               InsertWorkOrder(p) \/ DeleteWorkOrder(p) \/ CommitComplete(p)
        PROVE  AloneInv'
    <2>1. pc[p] # "idle" /\ Done(p) /\ UNCHANGED raced
      BY <1>5 DEF InsertWorkOrder, DeleteWorkOrder, CommitComplete
    <2>2. ~raced => OneEach /\ ExitsOfCompleted /\ ReadStays(p)
      BY DEF AloneInv
    <2>3. ~raced => OneEach' /\ ExitsOfCompleted'
      BY <1>0, <1>5, <2>2, InsertAlone, DeleteAlone, CommitAlone
    <2> QED
      BY <1>0, <2>1, <2>3, AloneEnds
  <1>6. ASSUME NEW p \in Processes, WriteStatus(p) \/ UpdateItem(p)
        PROVE  AloneInv'
    <2> DEFINE o == job[p].id
    <2>1. /\ pc[p] \in {"write", "edit"} /\ Done(p) /\ UNCHANGED <<raced, kardex>>
          /\ workOrders[o] # None /\ o \in WorkOrderIds
          /\ pc[p] = "write" => job[p].status \in Statuses
      BY <1>0, <1>6 DEF WriteStatus, UpdateItem, Shapes
    <2>2. workOrders[o] \in WorkOrderRow
      BY <1>0, <2>1 DEF Types
    <2>3. CASE WriteStatus(p)
      <3>1. workOrders' = [workOrders EXCEPT ![o] = [workOrders[o] EXCEPT !.status = job[p].status]]
        BY <2>3 DEF WriteStatus
      <3>2. [workOrders[o] EXCEPT !.status = job[p].status] \in WorkOrderRow
        BY <2>1, <2>2, <2>3, StatusTyped DEF WriteStatus
      <3>3. workOrders'[o] = [workOrders[o] EXCEPT !.status = job[p].status]
        BY <1>0, <2>1, <3>1 DEF Types
      <3>4. /\ workOrders'[o] # None /\ workOrders'[o].order = workOrders[o].order
            /\ workOrders'[o].status = job[p].status
        BY <2>2, <3>2, <3>3, WorkOrdersAssumption DEF WorkOrderRow
      <3>5. \A x \in WorkOrderIds : x # o => workOrders'[x] = workOrders[x]
        BY <1>0, <3>1 DEF Types
      <3>6. ~raced => /\ OneEach /\ ExitsOfCompleted
                      /\ workOrders[o].status \notin {"COMPLETED", "CANCELLED"}
        BY <2>3 DEF AloneInv, ReadStays, WriteStatus, AllowedTransitions
      <3> HIDE DEF o
      <3>7. ~raced => OneEach' /\ ExitsOfCompleted'
        BY <1>0, <2>1, <3>4, <3>5, <3>6, OneRowChanges
      <3> QED
        BY <1>0, <2>1, <3>7, AloneEnds
    <2>4. CASE UpdateItem(p)
      <3>1. PICK uses \in Uses :
              workOrders' = [workOrders EXCEPT ![o] = [workOrders[o] EXCEPT !.uses = uses]]
        BY <2>4 DEF UpdateItem
      <3>2. [workOrders[o] EXCEPT !.uses = uses] \in WorkOrderRow
        BY <2>2, UsesTyped
      <3>3. workOrders'[o] = [workOrders[o] EXCEPT !.uses = uses]
        BY <1>0, <2>1, <3>1 DEF Types
      <3>4. /\ workOrders'[o] # None /\ workOrders'[o].order = workOrders[o].order
            /\ workOrders'[o].status = workOrders[o].status
        BY <2>2, <3>2, <3>3, WorkOrdersAssumption DEF WorkOrderRow
      <3>5. \A x \in WorkOrderIds : x # o => workOrders'[x] = workOrders[x]
        BY <1>0, <3>1 DEF Types
      <3>6. ~raced => OneEach /\ ExitsOfCompleted
        BY DEF AloneInv
      <3> HIDE DEF o
      <3>7. ~raced => OneEach' /\ ExitsOfCompleted'
        BY <1>0, <2>1, <3>4, <3>5, <3>6, OneRowChanges
      <3> QED
        BY <1>0, <2>1, <3>7, AloneEnds
    <2> QED
      BY <1>6, <2>3, <2>4
  <1>7. ASSUME NEW o \in Existing, NEW s \in Supplies, NEW q \in Quantities, SetUse(o, s, q)
        PROVE  AloneInv'
    <2> DEFINE uses == [workOrders[o].uses EXCEPT ![s] = q]
    <2>1. SUFFICES ASSUME ~raced' PROVE AloneInv'
      BY DEF AloneInv
    <2>2. /\ ~raced /\ UNCHANGED <<kardex, pc>> /\ \A p \in Processes : pc[p] = "idle"
          /\ workOrders' = [workOrders EXCEPT ![o] = [workOrders[o] EXCEPT !.uses = uses]]
      BY <1>7, <2>1 DEF SetUse
    <2>3. o \in WorkOrderIds /\ workOrders[o] \in WorkOrderRow /\ workOrders[o] # None
      BY <1>0 DEF Existing, Types
    <2>4. uses \in Uses
      BY <2>3, RowUses DEF Uses
    <2> HIDE DEF uses
    <2>5. [workOrders[o] EXCEPT !.uses = uses] \in WorkOrderRow
      BY <2>3, <2>4, UsesTyped
    <2>6. /\ workOrders'[o] = [workOrders[o] EXCEPT !.uses = uses]
          /\ \A x \in WorkOrderIds : x # o => workOrders'[x] = workOrders[x]
      BY <1>0, <2>2, <2>3 DEF Types
    <2>7. /\ workOrders'[o] # None /\ workOrders'[o].order = workOrders[o].order
          /\ workOrders'[o].status = workOrders[o].status
      BY <2>3, <2>5, <2>6, WorkOrdersAssumption DEF WorkOrderRow
    <2>8. OneEach' /\ ExitsOfCompleted'
      BY <1>0, <2>2, <2>3, <2>6, <2>7, OneRowChanges DEF AloneInv
    <2> QED
      BY <2>2, <2>8, IdleReads
  <1>8. CASE AddSupplyToItem \/ RemoveSupplyFromItem
    BY <1>7, <1>8, WorkOrdersAssumption DEF AddSupplyToItem, RemoveSupplyFromItem
  <1>9. CASE CreateMovement
    <2>1. PICK s \in Supplies, delta \in Quantities \cup {-q : q \in Quantities} :
            kardex' = [kardex EXCEPT ![s] = Append(kardex[s], Delta(s, delta, Manual))]
      BY <1>9 DEF CreateMovement
    <2> DEFINE move == Delta(s, delta, Manual)
    <2>2. delta \in Int /\ Manual \in Nat
      BY WorkOrdersAssumption DEF Manual
    <2>3. move \in Movement /\ move.reference = Manual
      BY <1>0, <2>2, DeltaTyped DEF Delta
    <2>4. /\ kardex'[s] = Append(kardex[s], move)
          /\ \A x \in Supplies : x # s => kardex'[x] = kardex[x]
      BY <1>0, <2>1 DEF Types
    <2> HIDE DEF move
    <2>5. ASSUME NEW o \in WorkOrderIds, NEW x \in Supplies
          PROVE  Exits(o, x)' = Exits(o, x)
      <3>1. o \in Nat /\ o # Manual
        BY WorkOrdersAssumption
      <3>2. CASE x = s
        BY <1>0, <2>3, <2>4, <3>1, <3>2, OneMovement
      <3>3. CASE x # s
        BY <2>4, <3>3 DEF Exits
      <3> QED
        BY <3>2, <3>3
    <2>6. UNCHANGED <<workOrders, pc, job, raced>>
      BY <1>9 DEF CreateMovement
    <2>7. ~raced => OneEach' /\ ExitsOfCompleted' /\ \A p \in Processes : ReadStays(p)'
      BY <2>5, <2>6 DEF AloneInv, OneEach, ExitsOfCompleted, NotCancelled, Existing, ReadStays
    <2> QED
      BY <2>6, <2>7 DEF AloneInv
  <1>10. CASE InsertByHand \/ UNCHANGED vars
    BY <1>1, <1>10 DEF InsertByHand, vars, tables
  <1> QED
    BY <1>2, <1>3, <1>4, <1>5, <1>6, <1>8, <1>9, <1>10 DEF Next, Step

\* create, updateStatus, remove, applyStockDelta: of requests that come one at a time,
\* in sequences of any length and with any failures, the supplies of a work order leave
\* the stock once, with its completion, and an order has one work order, when the work
\* orders found in the database had that.
THEOREM WorkshopAlone ==
  ASSUME SeedsAreAlone
  PROVE  Spec => []KeptAlone
  <1>1. Init => AloneInv
    <2>1. SUFFICES ASSUME Init PROVE OneEach /\ ExitsOfCompleted
      BY DEF Init, AloneInv, ReadStays
    <2>2. \A order \in Orders : NotCancelled(order) = SeedsActive(order)
      BY <2>1 DEF Init, NotCancelled, Existing, SeedsActive
    <2>3. \A o \in WorkOrderIds, s \in Supplies : Exits(o, s) = {}
      BY <2>1 DEF Init, Exits
    <2> QED
      BY <2>2, <2>3 DEF OneEach, ExitsOfCompleted, SeedsAreAlone
  <1>2. WorkOrdersInv /\ AloneInv /\ [Next]_vars => AloneInv'
    BY NextAlone
  <1>3. ASSUME AloneInv PROVE KeptAlone
    <2>1. SUFFICES ASSUME ~raced PROVE KeptAlone
      BY DEF KeptAlone, ExitsFollowCompletion, OneActiveAlone
    <2>2. ASSUME NEW S, \A x, y \in S : x = y
          PROVE  Cardinality(S) <= 1
      <3>1. CASE S = {}
        BY <3>1, FS_EmptySet
      <3>2. CASE S # {}
        <4>1. PICK x : x \in S
          BY <3>2
        <4>2. S = {x}
          BY <2>2, <4>1
        <4> QED
          BY <4>2, FS_Singleton
      <3> QED
        BY <3>1, <3>2
    <2>3. ASSUME NEW o \in WorkOrderIds, NEW s \in Supplies
          PROVE  /\ Cardinality(Exits(o, s)) <= 1
                 /\ Exits(o, s) # {} => workOrders[o] # None /\ workOrders[o].status = "COMPLETED"
      BY <1>3, <2>1, <2>2 DEF AloneInv, ExitsOfCompleted
    <2>4. \A order \in Orders : Cardinality(NotCancelled(order)) <= 1
      BY <1>3, <2>1, <2>2 DEF AloneInv, OneEach
    <2> QED
      BY <2>3, <2>4 DEF KeptAlone, ExitsFollowCompletion, OneActiveAlone
  <1> QED
    BY <1>1, <1>2, <1>3, WorkOrdersInvariant, PTL DEF Spec
=============================================================================
