--------------------------- MODULE WorkOrdersProps ---------------------------
(***************************************************************************)
(* What the workshop's records promise: the stock and its kardex, the      *)
(* supplies of completed work orders, and the numbers.                     *)
(***************************************************************************)
EXTENDS WorkOrders

Exits(o, s) == {i \in DOMAIN kardex[s] : kardex[s][i].reference = o}

NotCancelled(order) ==
  {o \in Existing : workOrders[o].order = order /\ workOrders[o].status # "CANCELLED"}

\* The requests that hold a number and have not inserted it yet.
Holding == {p \in Processes : pc[p] = "insert" /\ job[p].number \notin Numbers}
-----------------------------------------------------------------------------
\* The variables keep their types.
TypeOK ==
  /\ workOrders \in [WorkOrderIds -> WorkOrderRow \cup {None}]
  /\ stock \in [Supplies -> Int]
  /\ \A s \in Supplies : \A i \in DOMAIN kardex[s] : kardex[s][i] \in Movement
  /\ counter \in Nat /\ byHand \subseteq Nat
  /\ olock \in [WorkOrderIds -> Processes \cup {None}]
  /\ slock \in [Supplies -> Processes \cup {None}]
  /\ starts \in 0..MaxStarts /\ moves \in 0..MaxMoves /\ failures \in 0..MaxFailures
  /\ \A p \in Processes : pc[p] = "idle" => job[p] = NoJob

\* The kardex agrees with itself and with the stock: every movement starts from
\* the balance the one before left, ends with that plus what it moved, and the
\* last one left what there is.
KardexIsStock ==
  \A s \in Supplies :
    LET k == kardex[s]
    IN  /\ \A i \in 1..Len(k) :
             /\ k[i].newStock = k[i].previousStock + k[i].delta
             /\ k[i].previousStock = IF i = 1 THEN InitialStock[s] ELSE k[i - 1].newStock
        /\ stock[s] = IF k = <<>> THEN InitialStock[s] ELSE k[Len(k)].newStock

\* Nobody else writes the status of a row that a completion holds: until it
\* commits or is rolled back, the work order keeps the status it had.
HeldStays ==
  [][\A o \in WorkOrderIds :
       (olock[o] # None /\ olock'[o] = olock[o] /\ workOrders[o] # None) =>
         workOrders'[o].status = workOrders[o].status]_vars

\* One request at a time: the supplies of a work order leave the stock once, with
\* its completion and at no other moment, and it keeps its movements.
ExitsFollowCompletion ==
  ~raced =>
    \A o \in WorkOrderIds, s \in Supplies :
      /\ Cardinality(Exits(o, s)) <= 1
      /\ Exits(o, s) # {} => workOrders[o] # None /\ workOrders[o].status = "COMPLETED"

\* A completion takes out of the stock all the supplies the work order had when
\* it was locked, even when another one fails or is the victim of a deadlock.
CompletionTakesAll ==
  [][\A p \in Processes :
       (pc[p] = "supplies" /\ pc'[p] = "idle" /\ workOrders' # workOrders) =>
         \A s \in Supplies : stock'[s] = stock[s] - job[p].uses[s]]_vars

\* One request at a time: an order has one work order that is not cancelled.
OneActiveAlone == raced \/ \A order \in Orders : Cardinality(NotCancelled(order)) <= 1

\* "dos peticiones concurrentes siguen sin poder obtener el mismo número": while
\* nobody inserts rows by hand, no two requests hold one number.
NumbersIssuedOnce ==
  byHand = {} =>
    \A p, q \in Processes :
      (p # q /\ pc[p] = "insert" /\ pc[q] = "insert") => job[p].number # job[q].number

\* "no puede devolver uno ya usado aunque el contador esté desincronizado".
IssuedWasFree ==
  [][\A p \in Processes : (pc[p] = "number" /\ pc'[p] = "insert")
                           => job'[p].number \notin Numbers]_vars
-----------------------------------------------------------------------------
(* What the proofs rest on, and the properties of the run.                  *)

JobRow == [id : Nat, order : Orders \cup {None}, status : Statuses \cup {None},
           number : Nat, attempt : Nat, left : SUBSET Supplies, uses : [Supplies -> Nat]]

Labels == {"idle", "number", "insert", "sync", "write", "complete", "supplies", "edit", "delete"}

Types ==
  /\ workOrders \in [WorkOrderIds -> WorkOrderRow \cup {None}]
  /\ stock \in [Supplies -> Int]
  /\ kardex \in [Supplies -> Seq(Movement)]
  /\ counter \in Nat /\ byHand \subseteq Nat
  /\ olock \in [WorkOrderIds -> Processes \cup {None}]
  /\ slock \in [Supplies -> Processes \cup {None}]
  /\ pc \in [Processes -> Labels]
  /\ job \in [Processes -> JobRow]
  /\ starts \in 0..MaxStarts /\ moves \in 0..MaxMoves /\ failures \in 0..MaxFailures

\* What a request carries at each of its steps.
Shapes ==
  \A p \in Processes :
    /\ pc[p] = "idle" => job[p] = NoJob
    /\ pc[p] \in {"number", "insert", "sync"} => job[p].order \in Orders
    /\ pc[p] = "write" => job[p].status \in Statuses
    /\ pc[p] \in {"write", "complete", "edit", "delete", "supplies"} => job[p].id \in WorkOrderIds

Locks ==
  \A p \in Processes :
    pc[p] = "supplies" => workOrders[job[p].id] # None /\ olock[job[p].id] = p

Numbering ==
  byHand = {} =>
    /\ \A n \in Numbers : n <= counter
    /\ \A p \in Processes :
         /\ pc[p] # "sync"
         /\ pc[p] = "insert" =>
              /\ job[p].number <= counter /\ job[p].number \notin Numbers
              /\ \A q \in Processes :
                   p # q /\ pc[q] = "insert" => job[p].number # job[q].number

\* The inductive invariant of the proofs: the kardex accounts for the stock, a
\* completion holds the row it will write, and while nobody inserts rows by hand
\* no two requests hold one number.
WorkOrdersInv == Types /\ Shapes /\ KardexIsStock /\ Locks /\ Numbering

\* A completion is all or nothing, and nobody moves its row meanwhile, although
\* it takes many steps and two of them may lock each other out.
CompletionIsAtomic == CompletionTakesAll /\ HeldStays

\* The upsert of generateNumber: while the counter is the only source of numbers
\* none is held twice, and whatever is in the table none is issued that is there.
NumbersHold == []NumbersIssuedOnce /\ IssuedWasFree

\* What holds of requests that come one at a time, through any sequence of them:
\* supplies leave with the completion, and an order has one work order.
KeptAlone == ExitsFollowCompletion /\ OneActiveAlone

\* What a request that runs alone read of its work order, when it writes.
ReadStays(p) ==
  /\ pc[p] \in {"number", "insert", "sync"} => NotCancelled(job[p].order) = {}
  /\ pc[p] \in {"write", "complete", "supplies"} =>
       /\ workOrders[job[p].id] # None
       /\ job[p].status \in AllowedTransitions(workOrders[job[p].id].status)
       /\ pc[p] = "write" <=> job[p].status # "COMPLETED"
  /\ pc[p] = "delete" => workOrders[job[p].id].status = "DRAFT"

OneEach == \A order \in Orders : \A x, y \in NotCancelled(order) : x = y

ExitsOfCompleted ==
  \A o \in WorkOrderIds, s \in Supplies :
    /\ \A i, j \in Exits(o, s) : i = j
    /\ Exits(o, s) # {} => workOrders[o] # None /\ workOrders[o].status = "COMPLETED"

\* One request at a time: what it read is still so when it writes, which gives one
\* work order to an order, and movements to completed ones, once.
AloneInv ==
  ~raced =>
    /\ \A p, q \in Processes : p # q => pc[p] = "idle" \/ pc[q] = "idle"
    /\ \A p \in Processes : ReadStays(p)
    /\ OneEach /\ ExitsOfCompleted

\* The work orders found in the database were created one at a time too.
SeedsActive(order) ==
  {o \in WorkOrderIds : Seeds[o] # None /\ Seeds[o].order = order /\ Seeds[o].status # "CANCELLED"}
SeedsAreAlone == \A order \in Orders : \A x, y \in SeedsActive(order) : x = y
-----------------------------------------------------------------------------
(* Not kept: ExitTwice and WorkOrderRaces show how each breaks.             *)

\* "`COMPLETED` es terminal, así que no hay forma de disparar dos veces la salida
\* de inventario por la misma OT".
ExitOnce == \A o \in WorkOrderIds, s \in Supplies : Cardinality(Exits(o, s)) <= 1

\* "Solo se permite una OT activa por orden de pedido".
OneActive == \A order \in Orders : Cardinality(NotCancelled(order)) <= 1

\* A number in flight is nobody else's, even when the counter was brought back
\* to the table by a request that found its own number taken.
NeverIssuedTwice ==
  \A p, q \in Holding : p # q => job[p].number # job[q].number

\* What a completed work order says it used has left the stock.
CompletedConsumed ==
  \A o \in Existing :
    workOrders[o].status = "COMPLETED" =>
      \A s \in Supplies : workOrders[o].uses[s] > 0 => Exits(o, s) # {}
=============================================================================
