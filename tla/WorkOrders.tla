----------------------------- MODULE WorkOrders -----------------------------
(***************************************************************************)
(* Work orders: their numbers, their status, and the supplies that leave   *)
(* the stock when one is completed.  Modules work-orders, inventory and    *)
(* consecutives.                                                           *)
(*                                                                         *)
(* A request reads first and decides on what it read.  Completing is one   *)
(* transaction: the row of the work order and then the row of each supply, *)
(* in the order the query happens to return them, stay locked to its end,  *)
(* and what it writes is seen then.  A manual movement locks one supply    *)
(* and is a single step.                                                   *)
(*                                                                         *)
(* A work order has one item here, and uses[s] is how much of the supply s *)
(* it takes (0: none).                                                     *)
(***************************************************************************)
EXTENDS Integers, Sequences, FiniteSets

CONSTANTS
  WorkOrderIds,  \* naturals, taken in order
  Orders,        \* the orders in a status that allows work orders
  Supplies, Quantities,
  Seeds,         \* the work orders found in the database
  InitialStock,  \* what there is of each supply
  Processes,     \* requests in flight
  MaxRetries,    \* MAX_RETRIES: attempts to insert a work order
  MaxStarts,     \* bound: requests begun
  MaxMoves,      \* bound: manual movements
  MaxByHand,     \* bound: numbers inserted by hand
  MaxFailures,   \* bound: requests that fail between two statements
  None

VARIABLES
  workOrders, stock,
  kardex,      \* kardex[s]: the inventory movements of s, in order
  counter,     \* last_number of the consecutive WORK_ORDER
  byHand,      \* numbers of rows inserted without the counter
  olock, slock, pc, job, starts, moves, failures,
  raced        \* history: a request began while another one was running

tables == <<workOrders, stock, kardex>>
numbering == <<counter, byHand>>
bounds == <<moves, failures>>
vars == <<tables, numbering, olock, slock, pc, job, starts, bounds, raced>>

Statuses == {"DRAFT", "CONFIRMED", "IN_PRODUCTION", "READY", "COMPLETED", "CANCELLED"}

\* Mutant: a completed work order goes back to READY.
CompletedReopens(status) ==
  CASE status = "DRAFT"         -> {"CONFIRMED", "CANCELLED"}
    [] status = "CONFIRMED"     -> {"IN_PRODUCTION", "CANCELLED"}
    [] status = "IN_PRODUCTION" -> {"READY", "COMPLETED", "CANCELLED"}
    [] status = "READY"         -> {"COMPLETED", "CANCELLED"}
    [] status = "COMPLETED"     -> {"READY"}
    [] OTHER                    -> {}

AllowedTransitions(status) ==
  CASE status = "DRAFT"         -> {"CONFIRMED", "CANCELLED"}
    [] status = "CONFIRMED"     -> {"IN_PRODUCTION", "CANCELLED"}
    [] status = "IN_PRODUCTION" -> {"READY", "COMPLETED", "CANCELLED"}
    [] status = "READY"         -> {"COMPLETED", "CANCELLED"}
    [] OTHER                    -> {}

EditableStatuses == {"DRAFT", "CONFIRMED", "IN_PRODUCTION"}

Uses == [Supplies -> Quantities]
WorkOrderRow == [order : Orders, status : Statuses, number : Nat, uses : Uses]
Manual == 0  \* the reference of a manual movement
Movement == [delta : Int, previousStock : Int, newStock : Int, reference : Nat]

ASSUME WorkOrdersAssumption ==
  /\ WorkOrderIds \subseteq Nat \ {Manual} /\ Quantities \subseteq Nat
  /\ 0 \in Quantities /\ None \notin WorkOrderRow \cup Processes
  /\ Seeds \in [WorkOrderIds -> WorkOrderRow \cup {None}]
  /\ InitialStock \in [Supplies -> Int]
  /\ {MaxRetries, MaxStarts, MaxMoves, MaxByHand, MaxFailures} \subseteq Nat

NoJob == [id |-> Manual, order |-> None, status |-> None, number |-> 0, attempt |-> 1,
          left |-> {}, uses |-> [s \in Supplies |-> 0]]

Existing == {o \in WorkOrderIds : workOrders[o] # None}
Fresh(o) == /\ o \in WorkOrderIds \ Existing
            /\ \A x \in WorkOrderIds \ Existing : o <= x
Numbers == {workOrders[o].number : o \in Existing} \cup byHand
-----------------------------------------------------------------------------
(* What a request does next, and how it ends.                               *)

Goto(p, label) == pc' = [pc EXCEPT ![p] = label]

Begin(p, task, label) ==
  /\ pc[p] = "idle" /\ starts < MaxStarts
  /\ starts' = starts + 1 /\ job' = [job EXCEPT ![p] = task] /\ Goto(p, label)
  /\ raced' = (raced \/ \E q \in Processes : pc[q] # "idle")
  /\ UNCHANGED <<tables, numbering, olock, slock, bounds>>

Released(lock, p) == [x \in DOMAIN lock |-> IF lock[x] = p THEN None ELSE lock[x]]

\* The end of a request, and of its transaction.
Done(p) == /\ Goto(p, "idle") /\ job' = [job EXCEPT ![p] = NoJob]
           /\ olock' = Released(olock, p) /\ slock' = Released(slock, p)

\* The request names a row that is not there any more, or it is refused.
Throw(p) ==
  /\ \/ pc[p] \in {"write", "complete", "edit", "delete"} /\ workOrders[job[p].id] = None
     \/ pc[p] = "insert" /\ job[p].number \in Numbers /\ job[p].attempt = MaxRetries
  /\ Done(p)
  /\ UNCHANGED <<tables, numbering, starts, bounds, raced>>

\* A statement fails, and the transaction is rolled back.
Fail(p) ==
  /\ pc[p] # "idle" /\ failures < MaxFailures /\ failures' = failures + 1
  /\ Done(p)
  /\ UNCHANGED <<tables, numbering, starts, moves, raced>>
-----------------------------------------------------------------------------
(* create and the number of a work order.                                   *)

Active(order) ==
  {o \in Existing : workOrders[o].order = order /\ workOrders[o].status # "CANCELLED"}

StartCreate(p) ==
  \E order \in Orders :
    Active(order) = {} /\ Begin(p, [NoJob EXCEPT !.order = order], "number")

\* Mutant: the counter alone is incremented.
CounterOnly == {counter}

\* GREATEST(last_number, the maximum of the table), with the row of the counter
\* locked: one statement.
Known == Numbers \cup {counter}

GenerateNumber(p) ==
  /\ pc[p] = "number"
  /\ \E n \in Known :
       /\ \A m \in Known : m <= n
       /\ counter' = n + 1
       /\ job' = [job EXCEPT ![p] = [job[p] EXCEPT !.number = n + 1]]
  /\ Goto(p, "insert")
  /\ UNCHANGED <<tables, byHand, olock, slock, starts, bounds, raced>>

InsertWorkOrder(p) ==
  /\ pc[p] = "insert" /\ job[p].number \notin Numbers
  /\ \E o \in WorkOrderIds, status \in {"DRAFT", "CONFIRMED"}, uses \in Uses :
       /\ Fresh(o)
       /\ workOrders' = [workOrders EXCEPT ![o] =
            [order |-> job[p].order, status |-> status, number |-> job[p].number, uses |-> uses]]
  /\ Done(p)
  /\ UNCHANGED <<stock, kardex, numbering, starts, bounds, raced>>

\* The number is taken: syncCounterFromTable reads the maximum ...
SyncRead(p) ==
  /\ pc[p] = "insert" /\ job[p].number \in Numbers /\ job[p].attempt < MaxRetries
  /\ \E n \in Numbers :
       /\ \A m \in Numbers : m <= n
       /\ job' = [job EXCEPT ![p] = [job[p] EXCEPT !.number = n, !.attempt = job[p].attempt + 1]]
  /\ Goto(p, "sync")
  /\ UNCHANGED <<tables, numbering, olock, slock, starts, bounds, raced>>

\* ... and writes it over the counter, even when the counter is ahead.
SyncWrite(p) ==
  /\ pc[p] = "sync"
  /\ counter' = job[p].number
  /\ Goto(p, "number")
  /\ UNCHANGED <<tables, byHand, olock, slock, job, starts, bounds, raced>>

\* Seeded data, a restored backup, a row inserted by hand.
InsertByHand ==
  /\ Cardinality(byHand) < MaxByHand
  /\ \E n \in 1..(counter + 1) \ Numbers : byHand' = byHand \cup {n}
  /\ UNCHANGED <<tables, counter, olock, slock, pc, job, starts, bounds, raced>>
-----------------------------------------------------------------------------
(* updateStatus.                                                            *)

StartStatus(p) ==
  \E o \in Existing, to \in Statuses :
    /\ to \in AllowedTransitions(workOrders[o].status)
    /\ Begin(p, [NoJob EXCEPT !.id = o, !.status = to],
             IF to = "COMPLETED" THEN "complete" ELSE "write")

WriteStatus(p) ==
  LET o == job[p].id IN
  /\ pc[p] = "write" /\ workOrders[o] # None /\ olock[o] = None
  /\ workOrders' = [workOrders EXCEPT ![o] = [workOrders[o] EXCEPT !.status = job[p].status]]
  /\ Done(p)
  /\ UNCHANGED <<stock, kardex, numbering, starts, bounds, raced>>

\* The status is written, which locks the row, and the supplies are read.
LockWorkOrder(p) ==
  LET o == job[p].id IN
  /\ pc[p] = "complete" /\ workOrders[o] # None /\ olock[o] = None
  /\ olock' = [olock EXCEPT ![o] = p]
  /\ job' = [job EXCEPT ![p] = [job[p] EXCEPT
                !.left = {s \in Supplies : workOrders[o].uses[s] > 0},
                !.uses = workOrders[o].uses]]
  /\ Goto(p, "supplies")
  /\ UNCHANGED <<tables, numbering, slock, starts, bounds, raced>>

\* applyStockDelta on the next supply: its row is locked to the end.
TakeSupply(p) ==
  /\ pc[p] = "supplies"
  /\ \E s \in job[p].left :
       /\ slock[s] = None
       /\ slock' = [slock EXCEPT ![s] = p]
       /\ job' = [job EXCEPT ![p] = [job[p] EXCEPT !.left = job[p].left \ {s}]]
  /\ UNCHANGED <<tables, numbering, olock, pc, starts, bounds, raced>>

\* Mutant: the stock is cut at zero.
DeltaCut(s, delta, reference) ==
  [delta |-> delta, previousStock |-> stock[s],
   newStock |-> IF stock[s] + delta < 0 THEN 0 ELSE stock[s] + delta, reference |-> reference]

\* The balance before and after come from the row the update returns.
Delta(s, delta, reference) ==
  [delta |-> delta, previousStock |-> stock[s], newStock |-> stock[s] + delta,
   reference |-> reference]

Exit(p, s) == Delta(s, -job[p].uses[s], job[p].id)

\* Mutant: the transaction ends when the status is written.
CommitEarly(p) ==
  LET o == job[p].id IN
  /\ pc[p] = "supplies"
  /\ workOrders' = [workOrders EXCEPT ![o] = [workOrders[o] EXCEPT !.status = "COMPLETED"]]
  /\ Done(p)
  /\ UNCHANGED <<stock, kardex, numbering, starts, bounds, raced>>

CommitComplete(p) ==
  LET o == job[p].id
      taken == {s \in Supplies : job[p].uses[s] > 0}
  IN
  /\ pc[p] = "supplies" /\ job[p].left = {}
  /\ workOrders' = [workOrders EXCEPT ![o] = [workOrders[o] EXCEPT !.status = "COMPLETED"]]
  /\ stock' = [s \in Supplies |-> IF s \in taken THEN Exit(p, s).newStock ELSE stock[s]]
  /\ kardex' = [s \in Supplies |-> IF s \in taken THEN Append(kardex[s], Exit(p, s))
                                   ELSE kardex[s]]
  /\ Done(p)
  /\ UNCHANGED <<numbering, starts, bounds, raced>>

\* PostgreSQL ends one of two completions that wait for each other's supply.
DeadlockVictim(p) ==
  /\ pc[p] = "supplies"
  /\ \E q \in Processes \ {p} :
       /\ pc[q] = "supplies"
       /\ \E s \in job[p].left : slock[s] = q
       /\ \E s \in job[q].left : slock[s] = p
  /\ Done(p)
  /\ UNCHANGED <<tables, numbering, starts, bounds, raced>>
-----------------------------------------------------------------------------
(* The supplies of a work order, its removal, and manual movements.         *)

StartUpdate(p) ==
  \E o \in Existing :
    /\ workOrders[o].status \in EditableStatuses
    /\ Begin(p, [NoJob EXCEPT !.id = o], "edit")

\* updateItem replaces the supplies.
UpdateItem(p) ==
  /\ pc[p] = "edit" /\ workOrders[job[p].id] # None
  /\ \E uses \in Uses :
       workOrders' = [workOrders EXCEPT ![job[p].id] =
                        [workOrders[job[p].id] EXCEPT !.uses = uses]]
  /\ Done(p)
  /\ UNCHANGED <<stock, kardex, numbering, starts, bounds, raced>>

SetUse(o, s, quantity) ==
  /\ starts < MaxStarts /\ starts' = starts + 1
  /\ raced' = (raced \/ \E q \in Processes : pc[q] # "idle")
  /\ workOrders' = [workOrders EXCEPT ![o] =
       [workOrders[o] EXCEPT !.uses = [workOrders[o].uses EXCEPT ![s] = quantity]]]
  /\ UNCHANGED <<stock, kardex, numbering, olock, slock, pc, job, bounds>>

\* The status is not asked for: one upsert, or one delete.
AddSupplyToItem ==
  \E o \in Existing, s \in Supplies, quantity \in Quantities \ {0} : SetUse(o, s, quantity)

RemoveSupplyFromItem ==
  \E o \in Existing, s \in Supplies : workOrders[o].uses[s] > 0 /\ SetUse(o, s, 0)

StartRemove(p) ==
  \E o \in Existing :
    workOrders[o].status = "DRAFT" /\ Begin(p, [NoJob EXCEPT !.id = o], "delete")

DeleteWorkOrder(p) ==
  /\ pc[p] = "delete" /\ workOrders[job[p].id] # None /\ olock[job[p].id] = None
  /\ workOrders' = [workOrders EXCEPT ![job[p].id] = None]
  /\ Done(p)
  /\ UNCHANGED <<stock, kardex, numbering, starts, bounds, raced>>

\* Entries, returns and adjustments up or down: whatever leaves less than nothing
\* is refused, an entry too.
CreateMovement ==
  \E s \in Supplies, delta \in Quantities \cup {-q : q \in Quantities} :
    /\ delta # 0 /\ slock[s] = None /\ stock[s] + delta >= 0
    /\ moves < MaxMoves /\ moves' = moves + 1
    /\ stock' = [stock EXCEPT ![s] = Delta(s, delta, Manual).newStock]
    /\ kardex' = [kardex EXCEPT ![s] = Append(kardex[s], Delta(s, delta, Manual))]
    /\ UNCHANGED <<workOrders, numbering, olock, slock, pc, job, starts, failures, raced>>
-----------------------------------------------------------------------------
Init ==
  /\ workOrders = Seeds /\ stock = InitialStock /\ kardex = [s \in Supplies |-> <<>>]
  /\ byHand = {}
  /\ \E n \in {Seeds[o].number : o \in {x \in WorkOrderIds : Seeds[x] # None}} \cup {0} :
       /\ \A o \in {x \in WorkOrderIds : Seeds[x] # None} : Seeds[o].number <= n
       /\ counter = n
  /\ olock = [o \in WorkOrderIds |-> None] /\ slock = [s \in Supplies |-> None]
  /\ pc = [p \in Processes |-> "idle"] /\ job = [p \in Processes |-> NoJob]
  /\ starts = 0 /\ moves = 0 /\ failures = 0 /\ raced = FALSE

Start(p) == StartCreate(p) \/ StartStatus(p) \/ StartUpdate(p) \/ StartRemove(p)

Step(p) ==
  \/ GenerateNumber(p) \/ InsertWorkOrder(p) \/ SyncRead(p) \/ SyncWrite(p)
  \/ WriteStatus(p) \/ LockWorkOrder(p) \/ TakeSupply(p) \/ CommitComplete(p)
  \/ UpdateItem(p) \/ DeleteWorkOrder(p) \/ Throw(p) \/ DeadlockVictim(p)

Next ==
  \/ \E p \in Processes : Start(p) \/ Step(p) \/ Fail(p)
  \/ AddSupplyToItem \/ RemoveSupplyFromItem \/ CreateMovement \/ InsertByHand

Spec == Init /\ [][Next]_vars
=============================================================================
