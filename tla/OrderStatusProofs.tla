------------------------- MODULE OrderStatusProofs -------------------------
(***************************************************************************)
(* Proofs about OrderStatus.  No operation deletes a change request, moves *)
(* it to another user or status, opens an answered one again or gives back *)
(* a consumed one (RowsKept), so what a process learnt of the request it   *)
(* found stays true while others run (OthersKeep).  One request at a time, *)
(* what it read of the order is also still so when it writes.              *)
(***************************************************************************)
EXTENDS OrderStatusProps, FiniteSetTheorems, TLAPS

\* What no statement undoes in the change requests.
RowsKept ==
  \A r \in Taken :
    /\ requests'[r] # None /\ requests'[r].user = requests[r].user
    /\ requests'[r].from = requests[r].from /\ requests'[r].to = requests[r].to
    /\ requests[r].state # "PENDING" => requests'[r].state # "PENDING"
    /\ requests[r].consumed => requests'[r].consumed

\* Process p alone moved, to the statement label with job j.
Moved(p, label, j) ==
  /\ pc'[p] = label /\ job'[p] = j
  /\ \A x \in Processes \ {p} : pc'[x] = pc[x] /\ job'[x] = job[x]

\* What StatusInv says of a process at a statement with a job.
JobOK(label, j) ==
  /\ label \notin {"idle", "review"} =>
       j.user \in Users /\ j.from \in OrderStatuses /\ j.to \in OrderStatuses
  /\ label = "review" => j.row \in Taken /\ j.review \in RowStates \ {"PENDING"}
  /\ label = "consume" => j.to \in AlwaysAuthorized
  /\ label = "annul" => j.to = "ANULADO"
  /\ (/\ label \in {"consume", "write", "annul"}
      /\ j.to \in AlwaysAuthorized /\ j.user \notin Admins) =>
       /\ j.row \in Taken /\ requests[j.row].state # "PENDING"
       /\ requests[j.row].user = j.user /\ requests[j.row].to = j.to
-----------------------------------------------------------------------------
\* Every request has the form of the table.
LEMMA TakenRows ==
  ASSUME TypeOK
  PROVE  \A r \in Taken : r \in Rows /\ requests[r] \in Row /\ requests[r] # None
BY DEF TypeOK, Taken

\* None is no user, no status and no row.
LEMMA NoneApart == None \notin Users /\ None \notin OrderStatuses /\ None \notin Row
                     /\ None \notin Rows
BY NoneAssumption, StatusAssumption DEF NoneAssumption, StatusAssumption

\* The job of an idle process.
LEMMA NoJobType == NoJob \in Job
BY DEF NoJob, Job

\* A new request.
LEMMA NewRowType ==
  ASSUME NEW j, j.user \in Users, j.from \in OrderStatuses, j.to \in OrderStatuses
  PROVE  NewRow(j) \in Row
BY DEF NewRow, Row, RowStates

\* An insertion takes the next free id.
LEMMA InsertKeeps ==
  ASSUME TypeOK, NEW row \in Row, Insert(row)
  PROVE  /\ requests' \in [Rows -> Row \cup {None}] /\ RowsKept
         /\ \E r \in Rows \ Taken : /\ requests'[r] = row
                                    /\ \A s \in Rows \ {r} : requests'[s] = requests[s]
<1>1. PICK r \in Rows : Fresh(r) /\ requests' = [requests EXCEPT ![r] = row]
  BY DEF Insert
<1>2. r \in Rows \ Taken
  BY <1>1 DEF Fresh
<1>3. requests' \in [Rows -> Row \cup {None}]
  BY <1>1 DEF TypeOK
<1>4. requests'[r] = row /\ \A s \in Rows \ {r} : requests'[s] = requests[s]
  BY <1>1 DEF TypeOK
<1>. QED
  BY <1>2, <1>3, <1>4, TakenRows DEF RowsKept, Taken

\* An answer names a request by its id.
LEMMA ReviewKeeps ==
  ASSUME TypeOK, NEW r \in Taken, NEW state \in RowStates \ {"PENDING"},
         requests' = [requests EXCEPT ![r].state = state]
  PROVE  /\ requests' \in [Rows -> Row \cup {None}] /\ RowsKept
         /\ requests'[r].state = state /\ requests'[r].consumed = requests[r].consumed
         /\ \A s \in Rows \ {r} : requests'[s] = requests[s]
<1>1. requests[r] \in Row /\ r \in Rows
  BY TakenRows
<1>2. requests'[r] = [requests[r] EXCEPT !.state = state]
  BY <1>1 DEF TypeOK
<1>3. /\ requests'[r] \in Row /\ requests'[r].state = state
      /\ requests'[r].user = requests[r].user /\ requests'[r].from = requests[r].from
      /\ requests'[r].to = requests[r].to /\ requests'[r].consumed = requests[r].consumed
  BY <1>1, <1>2 DEF Row
<1>4. \A s \in Rows \ {r} : requests'[s] = requests[s]
  BY <1>1 DEF TypeOK
<1>5. requests' \in [Rows -> Row \cup {None}]
  BY <1>1, <1>3 DEF TypeOK
<1>. QED
  BY <1>1, <1>3, <1>4, <1>5, TakenRows, NoneApart DEF RowsKept, Taken

\* Consuming an approval leaves the rest of the request as it is.
LEMMA ConsumeKeeps ==
  ASSUME TypeOK, NEW p \in Processes, ConsumeApproved(p)
  PROVE  /\ requests' \in [Rows -> Row \cup {None}] /\ RowsKept
         /\ \A r \in Approved(job[p].user, job[p].to) : requests'[r].consumed
         /\ \A r \in Rows : /\ r \in Taken' => r \in Taken
                            /\ r \in Taken => requests'[r].state = requests[r].state
<1>1. \A r \in Rows :
        requests'[r] = IF r \in Approved(job[p].user, job[p].to)
                       THEN [requests[r] EXCEPT !.consumed = TRUE] ELSE requests[r]
  BY DEF ConsumeApproved
<1>2. \A r \in Approved(job[p].user, job[p].to) : r \in Taken
  BY DEF Approved
<1>3. \A row \in Row : LET new == [row EXCEPT !.consumed = TRUE]
                       IN /\ new \in Row /\ new.consumed /\ new.user = row.user
                          /\ new.from = row.from /\ new.to = row.to /\ new.state = row.state
  BY DEF Row
<1>4. \A r \in Approved(job[p].user, job[p].to) :
        /\ requests'[r] \in Row /\ requests'[r].consumed
        /\ requests'[r].user = requests[r].user /\ requests'[r].from = requests[r].from
        /\ requests'[r].to = requests[r].to /\ requests'[r].state = requests[r].state
  BY <1>1, <1>2, <1>3, TakenRows
<1>5. \A r \in Rows \ Approved(job[p].user, job[p].to) : requests'[r] = requests[r]
  BY <1>1
<1>6. requests' \in [Rows -> Row \cup {None}]
  BY <1>4, <1>5 DEF ConsumeApproved, TypeOK
<1>. QED
  BY <1>2, <1>4, <1>5, <1>6, TakenRows, NoneApart DEF RowsKept, Taken

\* What closing the pending requests of a status does.
LEMMA CloseKeeps ==
  ASSUME TypeOK, NEW p \in Processes, ClosePending(p)
  PROVE  /\ requests' \in [Rows -> Row \cup {None}] /\ RowsKept
         /\ \A r \in Rows : /\ r \in Taken' => r \in Taken
                            /\ r \in Taken /\ requests[r].state # "PENDING"
                                 => requests'[r] = requests[r]
                            /\ r \in Taken /\ requests'[r].state = "PENDING"
                                 => requests'[r] = requests[r] /\ requests[r].to # job[p].to
<1>1. \A r \in Rows : requests'[r] = IF requests[r] = None THEN None
                                     ELSE ClosedIfReached(job[p], requests[r])
  BY DEF ClosePending
<1>2. \A row \in Row : LET new == [row EXCEPT !.state = "APPROVED", !.consumed = TRUE]
                       IN /\ new \in Row /\ new.consumed /\ new.user = row.user
                          /\ new.from = row.from /\ new.to = row.to
                          /\ new.state = "APPROVED"
  BY DEF Row, RowStates
<1>3. \A r \in Taken :
        LET row == requests[r] IN
          IF row.state = "PENDING" /\ row.to = job[p].to
          THEN /\ requests'[r] \in Row /\ requests'[r].consumed
               /\ requests'[r].user = row.user /\ requests'[r].from = row.from
               /\ requests'[r].to = row.to /\ requests'[r].state = "APPROVED"
          ELSE requests'[r] = row
  <2> SUFFICES ASSUME NEW r \in Taken, NEW row \in Row, row = requests[r], row # None
               PROVE  IF row.state = "PENDING" /\ row.to = job[p].to
                      THEN /\ requests'[r] \in Row /\ requests'[r].consumed
                           /\ requests'[r].user = row.user /\ requests'[r].from = row.from
                           /\ requests'[r].to = row.to /\ requests'[r].state = "APPROVED"
                      ELSE requests'[r] = row
    BY TakenRows
  <2>1. requests'[r] = ClosedIfReached(job[p], row)
    BY <1>1, TakenRows
  <2>2. CASE row.state = "PENDING" /\ row.to = job[p].to
    <3>1. requests'[r] = [row EXCEPT !.state = "APPROVED", !.consumed = TRUE]
      BY <2>1, <2>2 DEF ClosedIfReached
    <3>. QED
      BY <1>2, <2>2, <3>1
  <2>3. CASE ~(row.state = "PENDING" /\ row.to = job[p].to)
    BY <2>1, <2>3 DEF ClosedIfReached
  <2>. QED
    BY <2>2, <2>3
<1>4. \A r \in Rows : r \notin Taken => requests'[r] = None
  BY <1>1 DEF Taken
<1>5. \A r \in Rows : requests'[r] \in Row \cup {None}
  BY <1>3, <1>4, TakenRows
<1>6. requests' \in [Rows -> Row \cup {None}]
  BY <1>5 DEF ClosePending
<1>. QED
  BY <1>3, <1>4, <1>6, TakenRows, NoneApart DEF RowsKept, Taken

\* The jobs of the processes follow their statements.
LEMMA JobsFollow ==
  ASSUME NEW p \in Processes, JobFollowsControl, GrantedWhenSensitive
  PROVE  JobOK(pc[p], job[p])
BY DEF JobOK, JobFollowsControl, GrantedWhenSensitive

\* The types of the columns and the counters.
ColumnsTyped ==
  /\ status \in OrderStatuses /\ owes \in BOOLEAN /\ held \in BOOLEAN
  /\ requests \in [Rows -> Row \cup {None}] /\ uses \in [Rows -> Nat]
  /\ starts \in 0..MaxStarts /\ failures \in 0..MaxFailures

\* Rows that are kept, and no new pending one, leave one pending request per change.
LEMMA PendingKept ==
  ASSUME PendingDiffer, RowsKept,
         \A r \in Taken' : r \in Taken \/ requests'[r].state # "PENDING"
  PROVE  PendingDiffer'
BY DEF PendingDiffer, Pending, RowsKept

\* A step of one process leaves what the others know: their requests are still there,
\* answered as they were.
LEMMA OthersKeep ==
  ASSUME StatusInv, NEW p \in Processes, NEW label \in PCs, NEW j \in Job,
         Moved(p, label, j), ColumnsTyped', RowsKept, PendingDiffer',
         pc' = [pc EXCEPT ![p] = label], job' = [job EXCEPT ![p] = j],
         JobOK(label, j)'
  PROVE  StatusInv'
<1>1. TypeOK'
  BY DEF StatusInv, TypeOK, ColumnsTyped
<1>2. \A x \in Processes \ {p} : JobOK(pc[x], job[x])'
  <2> SUFFICES ASSUME NEW x \in Processes \ {p} PROVE JobOK(pc[x], job[x])'
    OBVIOUS
  <2>1. JobOK(pc[x], job[x])
    BY JobsFollow DEF StatusInv
  <2>2. pc'[x] = pc[x] /\ job'[x] = job[x] /\ Taken \subseteq Taken'
    BY TakenRows DEF Moved, RowsKept, Taken, StatusInv
  <2>. QED
    BY <2>1, <2>2 DEF JobOK, RowsKept
<1>3. JobOK(pc[p], job[p])'
  BY DEF Moved
<1>4. JobFollowsControl' /\ GrantedWhenSensitive'
  BY <1>2, <1>3 DEF JobOK, JobFollowsControl, GrantedWhenSensitive
<1>. QED
  BY <1>1, <1>4 DEF StatusInv

\* A step that ends a request.
LEMMA DoneKeeps ==
  ASSUME StatusInv, NEW p \in Processes, Done(p), ColumnsTyped', RowsKept, PendingDiffer'
  PROVE  StatusInv'
<1>1. pc' = [pc EXCEPT ![p] = "idle"] /\ job' = [job EXCEPT ![p] = NoJob]
  BY DEF Done, Goto
<1>2. Moved(p, "idle", NoJob)
  BY <1>1 DEF Moved, StatusInv, TypeOK
<1>3. JobOK("idle", NoJob)'
  BY DEF JobOK
<1>4. "idle" \in PCs
  BY DEF PCs
<1>. QED
  BY <1>1, <1>2, <1>3, <1>4, NoJobType, OthersKeep

\* A step that goes on to another statement with the job it had.
LEMMA GoesOn ==
  ASSUME StatusInv, NEW p \in Processes, NEW label \in PCs, Goto(p, label),
         UNCHANGED job, ColumnsTyped', RowsKept, PendingDiffer',
         NEW j, j = job[p], JobOK(label, j)'
  PROVE  StatusInv'
<1>1. pc' = [pc EXCEPT ![p] = label] /\ job' = [job EXCEPT ![p] = j] /\ j \in Job
  BY DEF Goto, StatusInv, TypeOK
<1>2. Moved(p, label, j)
  BY <1>1 DEF Moved, StatusInv, TypeOK
<1>. QED
  BY <1>1, <1>2, OthersKeep

\* A step that leaves the requests as they are.
LEMMA RequestsUnchanged ==
  ASSUME StatusInv, UNCHANGED requests
  PROVE  RowsKept /\ PendingDiffer' /\ Taken' = Taken
<1>1. RowsKept /\ Taken' = Taken
  BY TakenRows DEF RowsKept, Taken, StatusInv
<1>. QED
  BY <1>1 DEF StatusInv, PendingDiffer, Pending

\* They are part of StatusInv.
LEMMA TypedColumns == ASSUME StatusInv PROVE ColumnsTyped
BY DEF StatusInv, TypeOK, ColumnsTyped
-----------------------------------------------------------------------------
\* A request that starts.
LEMMA BeginKeeps ==
  ASSUME StatusInv, NEW p \in Processes, NEW kind, NEW label \in PCs, NEW j \in Job,
         Begin(p, kind, j, label), JobOK(label, j)
  PROVE  StatusInv'
<1>1. /\ pc' = [pc EXCEPT ![p] = label] /\ job' = [job EXCEPT ![p] = j]
      /\ UNCHANGED <<status, owes, held, requests, uses, failures>>
      /\ starts < MaxStarts /\ starts' = starts + 1
  BY DEF Begin, Goto
<1>2. Moved(p, label, j)
  BY <1>1 DEF Moved, StatusInv, TypeOK
<1>3. ColumnsTyped'
  BY <1>1, StatusAssumption, TypedColumns DEF ColumnsTyped, StatusAssumption
<1>4. RowsKept /\ PendingDiffer' /\ Taken' = Taken
  BY <1>1, RequestsUnchanged
<1>5. JobOK(label, j)'
  BY <1>1, <1>4 DEF JobOK
<1>. QED
  BY <1>1, <1>2, <1>3, <1>4, <1>5, OthersKeep

\* Whatever a request starts with.
LEMMA StartKeeps ==
  ASSUME StatusInv, NEW p \in Processes, Start(p)
  PROVE  StatusInv'
<1>. USE StatusAssumption, NoneApart DEF StatusAssumption
<1>0. status \in OrderStatuses
  BY DEF StatusInv, TypeOK
<1>1. CASE StartCreate(p)
  <2>1. PICK u \in Users \ Admins, to \in Targets :
          Begin(p, "create", [NoJob EXCEPT !.user = u, !.from = status, !.to = to], "insert")
    BY <1>1 DEF StartCreate
  <2>2. PICK j : j = [NoJob EXCEPT !.user = u, !.from = status, !.to = to]
    OBVIOUS
  <2>3. j \in Job /\ j.user \in Users /\ j.from \in OrderStatuses /\ j.to \in OrderStatuses
    BY <1>0, <2>2 DEF NoJob, Job
  <2>4. "insert" \in PCs /\ JobOK("insert", j)
    BY <2>3 DEF JobOK, PCs
  <2>. QED
    BY <2>1, <2>2, <2>3, <2>4, BeginKeeps
<1>2. ASSUME NEW kind, NEW r \in Taken, NEW decision \in RowStates \ {"PENDING"},
             Begin(p, kind, [NoJob EXCEPT !.row = r, !.review = decision], "review")
      PROVE  StatusInv'
  <2>1. PICK j : j = [NoJob EXCEPT !.row = r, !.review = decision]
    OBVIOUS
  <2>2. j \in Job /\ j.row = r /\ j.review = decision
    BY <2>1, TakenRows DEF NoJob, Job, StatusInv
  <2>3. "review" \in PCs /\ JobOK("review", j)
    BY <2>2 DEF JobOK, PCs
  <2>. QED
    BY <1>2, <2>1, <2>2, <2>3, BeginKeeps
<1>3. CASE StartReview(p)
  <2>1. PICK r \in Taken, decision \in {"APPROVED", "REJECTED"} :
          Begin(p, "review", [NoJob EXCEPT !.row = r, !.review = decision], "review")
    BY <1>3 DEF StartReview
  <2>2. decision \in RowStates \ {"PENDING"}
    BY DEF RowStates
  <2>. QED
    BY <1>2, <2>1, <2>2
<1>7. CASE StartReviewViaWhatsApp(p)
  <2>1. PICK r \in Taken, decision \in {"APPROVED", "REJECTED"} :
          Begin(p, "whatsapp", [NoJob EXCEPT !.row = r, !.review = decision], "review")
    BY <1>7 DEF StartReviewViaWhatsApp
  <2>2. decision \in RowStates \ {"PENDING"}
    BY DEF RowStates
  <2>. QED
    BY <1>2, <2>1, <2>2
<1>4. CASE StartExpire(p)
  <2>1. "EXPIRED" \in RowStates \ {"PENDING"}
    BY DEF RowStates
  <2>. QED
    BY <1>2, <1>4, <2>1 DEF StartExpire
<1>5. CASE StartUpdateStatus(p)
  <2>1. PICK u \in Users, to \in Targets :
          Begin(p, "updateStatus", [NoJob EXCEPT !.user = u, !.from = status, !.to = to],
                IF to \in AlwaysAuthorized \/ IsBackwardTransition(status, to)
                THEN "need" ELSE "write")
    BY <1>5 DEF StartUpdateStatus
  <2>2. PICK j : j = [NoJob EXCEPT !.user = u, !.from = status, !.to = to]
    OBVIOUS
  <2>3. PICK label : label = IF to \in AlwaysAuthorized \/ IsBackwardTransition(status, to)
                             THEN "need" ELSE "write"
    OBVIOUS
  <2>4. /\ j \in Job /\ j.user \in Users /\ j.from \in OrderStatuses
        /\ j.to \in OrderStatuses /\ j.to = to
    BY <1>0, <2>2 DEF NoJob, Job
  <2>5. /\ label \in {"need", "write"} /\ label \in PCs
        /\ label = "write" => to \notin AlwaysAuthorized
    BY <2>3 DEF PCs
  <2>6. JobOK(label, j)
    BY <2>4, <2>5 DEF JobOK
  <2>. QED
    BY <2>1, <2>2, <2>3, <2>4, <2>5, <2>6, BeginKeeps
<1>6. CASE StartUpdate(p)
  <2>1. PICK u \in Users, to \in Targets :
          Begin(p, "update", [NoJob EXCEPT !.user = u, !.from = status, !.to = to], "edit")
    BY <1>6 DEF StartUpdate
  <2>2. PICK j : j = [NoJob EXCEPT !.user = u, !.from = status, !.to = to]
    OBVIOUS
  <2>3. j \in Job /\ j.user \in Users /\ j.from \in OrderStatuses /\ j.to \in OrderStatuses
    BY <1>0, <2>2 DEF NoJob, Job
  <2>4. "edit" \in PCs /\ JobOK("edit", j)
    BY <2>3 DEF JobOK, PCs
  <2>. QED
    BY <2>1, <2>2, <2>3, <2>4, BeginKeeps
<1>. QED
  BY <1>1, <1>3, <1>4, <1>5, <1>6, <1>7 DEF Start

\* createOrReturnTwin: a second pending request for the change is not inserted.
LEMMA InsertRequestKeeps ==
  ASSUME StatusInv, NEW p \in Processes, InsertRequest(p)
  PROVE  StatusInv'
<1>1. /\ Done(p) /\ UNCHANGED <<status, owes, held, uses, starts, failures>>
      /\ pc[p] = "insert" /\ TypeOK
  BY DEF InsertRequest, StatusInv
<1>2. NewRow(job[p]) \in Row /\ job[p].user \in Users /\ job[p].to \in OrderStatuses
  BY <1>1, NewRowType DEF StatusInv, JobFollowsControl
<1>3. CASE Pending(job[p].user, job[p].to) = {}
  <2>1. Insert(NewRow(job[p]))
    BY <1>3 DEF InsertRequest
  <2>2. PICK row \in Row : row = NewRow(job[p])
    BY <1>2
  <2>3. /\ requests' \in [Rows -> Row \cup {None}] /\ RowsKept
        /\ \E r \in Rows \ Taken : /\ requests'[r] = row
                                   /\ \A s \in Rows \ {r} : requests'[s] = requests[s]
    BY <1>1, <2>1, <2>2, InsertKeeps
  <2>4. PICK r \in Rows \ Taken : /\ requests'[r] = row
                                  /\ \A s \in Rows \ {r} : requests'[s] = requests[s]
    BY <2>3
  <2>5. row.user = job[p].user /\ row.to = job[p].to
    BY <2>2 DEF NewRow
  <2>6. PendingDiffer'
    <3> SUFFICES ASSUME NEW u \in Users, NEW to \in OrderStatuses,
                        NEW a \in Pending(u, to)', NEW b \in Pending(u, to)'
                 PROVE  a = b
      BY DEF PendingDiffer
    <3>1. \A s \in Pending(u, to)' : s # r => s \in Pending(u, to)
      BY <2>4 DEF Pending, Taken
    <3>2. r \in Pending(u, to)' => Pending(u, to) = {}
      BY <1>3, <2>4, <2>5 DEF Pending
    <3>3. a \in Pending(u, to) /\ b \in Pending(u, to) => a = b
      BY DEF StatusInv, PendingDiffer
    <3>. QED
      BY <3>1, <3>2, <3>3
  <2>7. ColumnsTyped'
    BY <1>1, <2>3, TypedColumns DEF ColumnsTyped
  <2>. QED
    BY <1>1, <2>3, <2>6, <2>7, DoneKeeps
<1>4. CASE Pending(job[p].user, job[p].to) # {}
  <2>1. UNCHANGED requests
    BY <1>4 DEF InsertRequest
  <2>2. ColumnsTyped'
    BY <1>1, <2>1, TypedColumns DEF ColumnsTyped
  <2>. QED
    BY <1>1, <2>1, <2>2, RequestsUnchanged, DoneKeeps
<1>. QED
  BY <1>3, <1>4

\* A review.
LEMMA CommitReviewKeeps ==
  ASSUME StatusInv, NEW p \in Processes, CommitReview(p)
  PROVE  StatusInv'
<1>1. /\ Done(p) /\ UNCHANGED <<status, owes, held, uses, starts, failures>> /\ TypeOK
      /\ job[p].row \in Taken /\ job[p].review \in RowStates \ {"PENDING"}
  BY DEF CommitReview, StatusInv, JobFollowsControl
<1>2. PICK r \in Taken, state \in RowStates \ {"PENDING"} :
        r = job[p].row /\ state = job[p].review
  BY <1>1
<1>3. requests' = [requests EXCEPT ![r].state = state]
  BY <1>2 DEF CommitReview
<1>4. /\ requests' \in [Rows -> Row \cup {None}] /\ RowsKept
      /\ \A s \in Rows \ {r} : requests'[s] = requests[s]
  BY <1>1, <1>3, ReviewKeeps
<1>5. \A s \in Taken' : s \in Taken \/ requests'[s].state # "PENDING"
  BY <1>4 DEF Taken
<1>6. ColumnsTyped' /\ PendingDiffer'
  BY <1>1, <1>4, <1>5, TypedColumns, PendingKept DEF ColumnsTyped, StatusInv
<1>. QED
  BY <1>1, <1>4, <1>6, DoneKeeps

\* The statements before the change, which touch no row.
LEMMA DecisionKeeps ==
  ASSUME StatusInv, NEW p \in Processes, RequiresAuthorization(p) \/ FindApproval(p)
  PROVE  StatusInv'
<1>0. PICK j : j = job[p]
  OBVIOUS
<1>1. /\ UNCHANGED <<status, owes, held, requests, uses, starts, failures>>
      /\ pc[p] \in {"need", "approval"} /\ TypeOK
  BY DEF RequiresAuthorization, FindApproval, StatusInv
<1>2. /\ j \in Job /\ j.user \in Users /\ j.from \in OrderStatuses /\ j.to \in OrderStatuses
  BY <1>0, <1>1 DEF StatusInv, TypeOK, JobFollowsControl
<1>3. ColumnsTyped' /\ RowsKept /\ PendingDiffer' /\ Taken' = Taken
  BY <1>1, TypedColumns, RequestsUnchanged DEF ColumnsTyped
<1>4. ASSUME NEW label \in PCs, NEW k \in Job, Goto(p, label), job' = [job EXCEPT ![p] = k],
             JobOK(label, k)
      PROVE  StatusInv'
  <2>1. Moved(p, label, k) /\ pc' = [pc EXCEPT ![p] = label]
    BY <1>1, <1>4 DEF Moved, Goto, TypeOK
  <2>2. JobOK(label, k)'
    BY <1>1, <1>3, <1>4 DEF JobOK
  <2>. QED
    BY <1>3, <1>4, <2>1, <2>2, OthersKeep
<1>5. CASE RequiresAuthorization(p)
  <2>1. PICK needs \in BOOLEAN :
          /\ needs <=> /\ j.user \notin Admins
                       /\ j.to \in AlwaysAuthorized \/ IsBackwardTransition(status, j.to)
          /\ job' = [job EXCEPT ![p].needs = needs]
          /\ Goto(p, IF needs THEN "approval" ELSE Target(j))
    BY <1>0, <1>5 DEF RequiresAuthorization
  <2>2. PICK k : k = [j EXCEPT !.needs = needs]
    OBVIOUS
  <2>3. k \in Job /\ k.user = j.user /\ k.from = j.from /\ k.to = j.to
    BY <1>2, <2>2 DEF Job
  <2>4. job' = [job EXCEPT ![p] = k]
    BY <1>0, <2>1, <2>2
  <2>5. PICK label : label = IF needs THEN "approval" ELSE Target(j)
    OBVIOUS
  <2>6. /\ label \in PCs /\ label \in {"approval", "annul", "write"}
        /\ label = "annul" => j.to = "ANULADO"
        /\ label # "approval" /\ j.to \in AlwaysAuthorized => j.user \in Admins
    BY <2>1, <2>5 DEF Target, PCs, AlwaysAuthorized
  <2>7. JobOK(label, k)
    BY <1>2, <2>3, <2>6 DEF JobOK
  <2>. QED
    BY <1>4, <2>1, <2>3, <2>4, <2>5, <2>6, <2>7
<1>6. CASE FindApproval(p)
  <2>1. PICK r \in Approved(j.user, j.to) : job' = [job EXCEPT ![p].row = r]
    BY <1>0, <1>6 DEF FindApproval
  <2>2. PICK k : k = [j EXCEPT !.row = r]
    OBVIOUS
  <2>3. r \in Rows /\ r \in Taken
    BY <1>1, TakenRows DEF Approved
  <2>4. k \in Job /\ k.user = j.user /\ k.from = j.from /\ k.to = j.to /\ k.row = r
    BY <1>2, <2>2, <2>3 DEF Job
  <2>5. job' = [job EXCEPT ![p] = k]
    BY <1>0, <2>1, <2>2
  <2>6. PICK label : label = IF j.to \in AlwaysAuthorized THEN "consume" ELSE "write"
    OBVIOUS
  <2>7. Goto(p, label) /\ label \in PCs /\ label \in {"consume", "write"}
        /\ (label = "consume" => j.to \in AlwaysAuthorized)
    BY <1>0, <1>6, <2>6 DEF FindApproval, PCs
  <2>8. requests[r].state = "APPROVED" /\ requests[r].user = j.user /\ requests[r].to = j.to
    BY <2>1 DEF Approved
  <2>9. JobOK(label, k)
    BY <1>2, <2>3, <2>4, <2>7, <2>8 DEF JobOK
  <2>. QED
    BY <1>4, <2>4, <2>5, <2>7, <2>9
<1>. QED
  BY <1>5, <1>6

\* The approval is consumed, before the change or after it.
LEMMA ConsumptionKeeps ==
  ASSUME StatusInv, NEW p \in Processes, ConsumeBefore(p) \/ ConsumeAfter(p)
  PROVE  StatusInv'
<1>0. PICK j : j = job[p]
  OBVIOUS
<1>1. /\ UNCHANGED <<status, owes, held, uses, job, starts, failures>> /\ TypeOK
      /\ ConsumeApproved(p) /\ pc[p] \in {"consume", "consumeAfter"}
  BY DEF ConsumeBefore, ConsumeAfter, StatusInv
<1>2. PICK label : label = IF pc[p] = "consume" THEN Target(j) ELSE "close"
  OBVIOUS
<1>3. Goto(p, label)
  BY <1>0, <1>2 DEF ConsumeBefore, ConsumeAfter
<1>4. /\ label \in PCs /\ label \in {"close", "annul", "write"}
      /\ label = "annul" => j.to = "ANULADO"
      /\ label # "close" => pc[p] = "consume"
  BY <1>2 DEF Target, PCs, AlwaysAuthorized
<1>5. /\ requests' \in [Rows -> Row \cup {None}] /\ RowsKept
      /\ \A r \in Taken' : r \in Taken
      /\ \A r \in Taken : requests'[r].state = requests[r].state
  <2>1. /\ requests' \in [Rows -> Row \cup {None}] /\ RowsKept
        /\ \A r \in Rows : /\ r \in Taken' => r \in Taken
                           /\ r \in Taken => requests'[r].state = requests[r].state
    BY <1>1, ConsumeKeeps
  <2>. QED
    BY <2>1 DEF Taken
<1>6. ColumnsTyped' /\ PendingDiffer'
  BY <1>1, <1>5, TypedColumns, PendingKept DEF ColumnsTyped, StatusInv
<1>7. JobOK(pc[p], j)
  BY <1>0, JobsFollow DEF StatusInv
<1>8. JobOK(label, j)'
  BY <1>1, <1>4, <1>5, <1>7 DEF JobOK, RowsKept, Taken
<1>. QED
  BY <1>0, <1>1, <1>3, <1>4, <1>5, <1>6, <1>8, GoesOn

\* The change itself.
LEMMA ChangeKeeps ==
  ASSUME StatusInv, NEW p \in Processes, WriteStatus(p) \/ AnnulOrder(p)
  PROVE  StatusInv'
<1>0. PICK j : j = job[p]
  OBVIOUS
<1>1. /\ UNCHANGED <<owes, held, requests, job, starts, failures>> /\ TypeOK
      /\ pc[p] \in {"write", "annul"} /\ UsedBy(p) /\ Goto(p, AfterWrite(j))
  BY <1>0 DEF WriteStatus, AnnulOrder, StatusInv
<1>2. /\ j \in Job /\ j.user \in Users /\ j.from \in OrderStatuses /\ j.to \in OrderStatuses
  BY <1>0, <1>1 DEF StatusInv, TypeOK, JobFollowsControl
<1>3. PICK label : label = AfterWrite(j)
  OBVIOUS
<1>4. label \in {"consumeAfter", "record", "close"} /\ label \in PCs
  BY <1>3 DEF AfterWrite, PCs
<1>5. status' \in OrderStatuses
  BY <1>0, <1>2 DEF WriteStatus, AnnulOrder, OrderStatuses
<1>6. uses' \in [Rows -> Nat]
  BY <1>0, <1>1, <1>2 DEF UsedBy, TypeOK, Job
<1>7. ColumnsTyped' /\ RowsKept /\ PendingDiffer'
  BY <1>1, <1>5, <1>6, TypedColumns, RequestsUnchanged DEF ColumnsTyped
<1>8. JobOK(label, j)'
  BY <1>2, <1>4 DEF JobOK
<1>. QED
  BY <1>0, <1>1, <1>3, <1>4, <1>7, <1>8, GoesOn

\* recordDirectChange: the row it inserts was never pending.
LEMMA RecordDirectKeeps ==
  ASSUME StatusInv, NEW p \in Processes, RecordDirect(p)
  PROVE  StatusInv'
<1>0. PICK j : j = job[p]
  OBVIOUS
<1>1. /\ UNCHANGED <<status, owes, held, uses, job, starts, failures>> /\ TypeOK
      /\ pc[p] = "record" /\ Goto(p, "close")
  BY DEF RecordDirect, StatusInv
<1>2. j.user \in Users /\ j.from \in OrderStatuses /\ j.to \in OrderStatuses
  BY <1>0, <1>1 DEF StatusInv, JobFollowsControl
<1>3. PICK row : row = [NewRow(j) EXCEPT !.state = "APPROVED", !.consumed = TRUE,
                                         !.direct = TRUE]
  OBVIOUS
<1>4. row \in Row /\ row.state = "APPROVED"
  BY <1>2, <1>3 DEF NewRow, Row, RowStates
<1>5. Insert(row)
  BY <1>0, <1>3 DEF RecordDirect
<1>6. /\ requests' \in [Rows -> Row \cup {None}] /\ RowsKept
      /\ \E r \in Rows \ Taken : /\ requests'[r] = row
                                 /\ \A s \in Rows \ {r} : requests'[s] = requests[s]
  BY <1>1, <1>4, <1>5, InsertKeeps
<1>7. \A s \in Taken' : s \in Taken \/ requests'[s].state # "PENDING"
  BY <1>4, <1>6 DEF Taken
<1>8. ColumnsTyped' /\ PendingDiffer'
  BY <1>1, <1>6, <1>7, TypedColumns, PendingKept DEF ColumnsTyped, StatusInv
<1>9. "close" \in PCs /\ JobOK("close", j)'
  BY <1>2 DEF JobOK, PCs
<1>. QED
  BY <1>0, <1>1, <1>6, <1>8, <1>9, GoesOn

\* The requests the change leaves without purpose.
LEMMA ClosePendingKeeps ==
  ASSUME StatusInv, NEW p \in Processes, ClosePending(p)
  PROVE  StatusInv'
<1>1. /\ Done(p) /\ UNCHANGED <<status, owes, held, uses, starts, failures>> /\ TypeOK
  BY DEF ClosePending, StatusInv
<1>2. /\ requests' \in [Rows -> Row \cup {None}] /\ RowsKept
      /\ \A r \in Rows : r \in Taken' => r \in Taken
  BY <1>1, CloseKeeps
<1>3. \A r \in Taken' : r \in Taken
  BY <1>2 DEF Taken
<1>4. ColumnsTyped' /\ PendingDiffer'
  BY <1>1, <1>2, <1>3, TypedColumns, PendingKept DEF ColumnsTyped, StatusInv
<1>. QED
  BY <1>1, <1>2, <1>4, DoneKeeps

\* The other ends of a request.
LEMMA EndKeeps ==
  ASSUME StatusInv, NEW p \in Processes,
         Forbidden(p) \/ RefuseAnnul(p) \/ CommitUpdate(p) \/ Fail(p)
  PROVE  StatusInv'
<1>1. Done(p) /\ UNCHANGED <<owes, held, requests, uses, starts>> /\ TypeOK
  BY DEF Forbidden, RefuseAnnul, CommitUpdate, Fail, StatusInv
<1>2. status' \in OrderStatuses
  <2>1. CASE CommitUpdate(p)
    BY <2>1 DEF CommitUpdate, StatusInv, JobFollowsControl
  <2>2. CASE Forbidden(p) \/ RefuseAnnul(p) \/ Fail(p)
    BY <1>1, <2>2 DEF Forbidden, RefuseAnnul, Fail, TypeOK
  <2>. QED
    BY <2>1, <2>2
<1>3. failures' \in 0..MaxFailures
  BY <1>1, StatusAssumption
     DEF Forbidden, RefuseAnnul, CommitUpdate, Fail, TypeOK, StatusAssumption
<1>4. ColumnsTyped'
  BY <1>1, <1>2, <1>3, TypedColumns DEF ColumnsTyped
<1>. QED
  BY <1>1, <1>4, RequestsUnchanged, DoneKeeps

\* A refund that annuls the sale, and the money that moves meanwhile.
LEMMA OutsideKeeps ==
  ASSUME StatusInv, (\E p \in Processes : ExecuteRefund(p)) \/ OthersMove
  PROVE  StatusInv'
<1>1. UNCHANGED <<requests, uses, pc, job, failures>>
  BY DEF ExecuteRefund, OthersMove
<1>2. ColumnsTyped'
  <2>1. CASE \E p \in Processes : ExecuteRefund(p)
    BY <2>1, TypedColumns, StatusAssumption
       DEF ColumnsTyped, ExecuteRefund, OrderStatuses, StatusAssumption
  <2>2. CASE OthersMove
    <3>1. owes' \in BOOLEAN /\ held' \in BOOLEAN
      BY <2>2, TypedColumns, Zenon DEF ColumnsTyped, OthersMove
    <3>2. UNCHANGED <<status, requests, uses, starts, failures>>
      BY <2>2 DEF OthersMove
    <3>. QED
      BY <3>1, <3>2, TypedColumns DEF ColumnsTyped
  <2>. QED
    BY <2>1, <2>2
<1>3. TypeOK'
  BY <1>1, <1>2 DEF StatusInv, TypeOK, ColumnsTyped
<1>4. PendingDiffer' /\ Taken' = Taken
  BY <1>1, RequestsUnchanged
<1>. QED
  BY <1>1, <1>3, <1>4 DEF StatusInv, JobFollowsControl, GrantedWhenSensitive

\* Every step.
LEMMA NextStatusInv == StatusInv /\ [Next]_vars => StatusInv'
<1>1. ASSUME StatusInv, NEW p \in Processes, Step(p)
      PROVE  StatusInv'
  BY <1>1, InsertRequestKeeps, CommitReviewKeeps, DecisionKeeps, ConsumptionKeeps,
     ChangeKeeps, RecordDirectKeeps, ClosePendingKeeps, EndKeeps DEF Step
<1>2. ASSUME StatusInv, UNCHANGED vars
      PROVE  StatusInv'
  BY <1>2 DEF vars, StatusInv, TypeOK, PendingDiffer, Pending, JobFollowsControl,
              GrantedWhenSensitive, Taken
<1>. QED
  BY <1>1, <1>2, StartKeeps, EndKeeps, OutsideKeeps DEF Next

\* Nothing runs at the start, and no request exists.
LEMMA InitStatusInv == Init => StatusInv
<1> SUFFICES ASSUME Init PROVE StatusInv
  OBVIOUS
<1>1. TypeOK
  BY StatusAssumption, NoJobType DEF Init, TypeOK, StatusAssumption, PCs
<1>2. PendingDiffer /\ JobFollowsControl /\ GrantedWhenSensitive
  BY DEF Init, PendingDiffer, Pending, Taken, JobFollowsControl, GrantedWhenSensitive
<1>. QED
  BY <1>1, <1>2 DEF StatusInv

\* Any number of requests at once, from the web, from WhatsApp and from the sweep.
THEOREM StatusInvariant == Spec => []StatusInv
BY InitStatusInv, NextStatusInv, PTL DEF Spec

\* The columns and the jobs are of their types.
THEOREM StatusTypes == Spec => []TypeOK
<1>1. StatusInv => TypeOK
  BY DEF StatusInv
<1>. QED
  BY <1>1, StatusInvariant, PTL

\* A double click on "solicitar" leaves one pending request.
THEOREM OneRequestPending == Spec => []OnePendingPerChange
<1>1. StatusInv => OnePendingPerChange
  <2> SUFFICES ASSUME StatusInv, NEW u \in Users, NEW to \in OrderStatuses
               PROVE  Cardinality(Pending(u, to)) <= 1
    BY DEF OnePendingPerChange
  <2>1. \A r, s \in Pending(u, to) : r = s
    BY DEF StatusInv, PendingDiffer
  <2>2. CASE Pending(u, to) = {}
    BY <2>2, FS_EmptySet
  <2>3. CASE Pending(u, to) # {}
    <3>1. PICK r : Pending(u, to) = {r}
      BY <2>1, <2>3
    <3>. QED
      BY <3>1, FS_Singleton
  <2>. QED
    BY <2>2, <2>3
<1>. QED
  BY <1>1, StatusInvariant, PTL

\* updateStatus annuls or delivers on credit for who is no administrator only under a
\* request of that user for that status, and not a pending one.
THEOREM SensitiveApproved == Spec => SensitiveChangeApproved
<1>1. StatusInv /\ [Next]_vars =>
        [\A p \in Processes :
           LET j == job[p] IN
             (Changes(p) /\ j.to \in AlwaysAuthorized /\ j.user \notin Admins) =>
               /\ j.row # None /\ requests[j.row].state # "PENDING"
               /\ requests[j.row].user = j.user /\ requests[j.row].to = j.to]_vars
  BY TakenRows, NoneApart DEF StatusInv, GrantedWhenSensitive, Changes
<1>. QED
  BY <1>1, StatusInvariant, PTL DEF SensitiveChangeApproved, Spec
-----------------------------------------------------------------------------
(* One request at a time.                                                   *)

\* What AloneInv says of a process at a statement with a job.
ReadOK(label, j) ==
  /\ label \in BeforeChange \cup {"insert"} => status = j.from
  /\ label \in BeforeChange =>
       /\ j.to # j.from
       /\ IsValidTransition(j.from, j.to) \/ IsBackwardTransition(j.from, j.to)
  /\ label \in AfterChange => status = j.to
  /\ label = "review" => requests[j.row].state = "PENDING"
  /\ label # "edit"

ApprovalOK(label, j) ==
  /\ label \in {"need", "approval"} => j.row = None
  /\ label = "approval" => j.needs
  /\ label \in {"consume", "write", "annul"} =>
       /\ j.needs <=> j.row # None
       /\ Sensitive(j) /\ j.user \notin Admins => j.row # None
       /\ j.row # None => /\ j.row \in Taken /\ uses[j.row] = 0
                          /\ IF label # "consume" /\ j.to \in AlwaysAuthorized
                             THEN requests[j.row].consumed
                             ELSE j.row \in Approved(j.user, j.to)
  /\ label = "consumeAfter" => j.row \in Approved(j.user, j.to)

\* The only process.
Only(x) == Processes = {x} /\ MaxFailures = 0 /\ "update" \notin Kinds

\* What AloneInv says of the only process.
LEMMA AloneFacts ==
  ASSUME NEW x, Only(x), AloneInv
  PROVE  /\ x \in Processes /\ ReadOK(pc[x], job[x]) /\ ApprovalOK(pc[x], job[x])
         /\ \A r \in Rows : uses[r] <= 1
         /\ \A r \in Rows : uses[r] = 1 =>
              /\ r \in Taken
              /\ requests[r].consumed \/ (pc[x] = "consumeAfter" /\ job[x].row = r)
<1>1. x \in Processes
  BY DEF Only
<1>2. ReadOK(pc[x], job[x])
  BY <1>1 DEF AloneInv, StatusAsRead, ReadOK
<1>3. ApprovalOK(pc[x], job[x])
  BY <1>1 DEF AloneInv, HoldsApproval, ApprovalOK
<1>. QED
  BY <1>1, <1>2, <1>3 DEF Only, AloneInv, UsedIsSpent

\* The other way round, for the state after a step of that process.
LEMMA AloneAfter ==
  ASSUME NEW x, Only(x), NEW label, NEW j, Moved(x, label, j),
         ReadOK(label, j)', ApprovalOK(label, j)', UsedIsSpent', GhostsAreClosed'
  PROVE  AloneInv'
<1>1. pc'[x] = label /\ job'[x] = j /\ Processes = {x}
  BY DEF Moved, Only
<1>2. StatusAsRead'
  BY <1>1 DEF StatusAsRead, ReadOK
<1>3. HoldsApproval'
  BY <1>1 DEF HoldsApproval, ApprovalOK
<1>. QED
  BY <1>2, <1>3 DEF AloneInv

\* Unless the process had a use to record, what was used stays spent.
LEMMA SpentKept ==
  ASSUME NEW x, Only(x), StatusInv, AloneInv, RowsKept, UNCHANGED uses,
         \/ pc[x] # "consumeAfter"
         \/ job[x].row \in Taken /\ requests'[job[x].row].consumed
  PROVE  UsedIsSpent'
<1>1. \A r \in Taken : r \in Taken' /\ (requests[r].consumed => requests'[r].consumed)
  BY TakenRows DEF RowsKept, Taken, StatusInv
<1>2. ASSUME NEW r \in Rows
      PROVE  uses[r] <= 1 /\ (uses[r] = 1 => r \in Taken' /\ requests'[r].consumed)
  BY <1>1, <1>2, AloneFacts
<1>. QED
  BY <1>2 DEF UsedIsSpent

\* Away from a change, no step makes a ghost of a pending request.
LEMMA GhostsKept ==
  ASSUME NEW x, Only(x), StatusInv, AloneInv, RowsKept, pc[x] \notin AfterChange,
         status' = status,
         \A r \in Taken' : \/ r \in Taken \/ requests'[r].state # "PENDING"
                           \/ requests'[r].to # status \/ requests'[r].to = requests'[r].from
  PROVE  GhostsAreClosed'
<1> SUFFICES ASSUME NEW r \in Taken', requests'[r].state = "PENDING",
                    requests'[r].from # requests'[r].to, requests'[r].to # "RETURNED",
                    requests'[r].to = status'
             PROVE  FALSE
  BY DEF GhostsAreClosed
<1>1. r \in Taken
  OBVIOUS
<1>2. /\ requests[r].state = "PENDING" /\ requests[r].from # requests[r].to
      /\ requests[r].to # "RETURNED" /\ requests[r].to = status
  BY <1>1 DEF RowsKept
<1>3. \E p \in Processes : pc[p] \in AfterChange
  BY <1>1, <1>2 DEF AloneInv, GhostsAreClosed
<1>. QED
  BY <1>3 DEF Only

\* Just after a change there may be ghosts.
LEMMA GhostsAfterChange ==
  ASSUME NEW x, Only(x), pc'[x] \in AfterChange
  PROVE  GhostsAreClosed'
BY DEF Only, GhostsAreClosed

\* A process that is idle, or reads a request, holds no approval and no order.
LEMMA IdleOK ==
  ASSUME NEW j
  PROVE  ReadOK("idle", j) /\ ApprovalOK("idle", j)
BY DEF ReadOK, ApprovalOK, BeforeChange, AfterChange

\* The end of a request.
LEMMA AloneDone ==
  ASSUME NEW x, Only(x), StatusInv, AloneInv, Done(x), RowsKept, UNCHANGED uses,
         pc[x] # "consumeAfter", GhostsAreClosed'
  PROVE  AloneInv'
<1>1. Moved(x, "idle", NoJob)
  BY DEF Done, Goto, Moved, StatusInv, TypeOK, Only
<1>2. ReadOK("idle", NoJob)' /\ ApprovalOK("idle", NoJob)'
  BY DEF ReadOK, ApprovalOK, BeforeChange, AfterChange
<1>. QED
  BY <1>1, <1>2, SpentKept, AloneAfter

\* The start of one.
LEMMA AloneBegin ==
  ASSUME NEW x, Only(x), StatusInv, AloneInv, NEW kind, NEW label, NEW j,
         Begin(x, kind, j, label), ReadOK(label, j), ApprovalOK(label, j)
  PROVE  AloneInv'
<1>1. /\ UNCHANGED <<status, owes, held, requests, uses, failures>> /\ pc[x] = "idle"
  BY DEF Begin
<1>2. Moved(x, label, j)
  BY DEF Begin, Goto, Moved, StatusInv, TypeOK, Only
<1>3. RowsKept /\ Taken' = Taken
  BY <1>1, RequestsUnchanged
<1>4. ReadOK(label, j)'
  BY <1>1 DEF ReadOK
<1>5. ApprovalOK(label, j)'
  BY <1>1, <1>3 DEF ApprovalOK, Approved
<1>6. UsedIsSpent'
  BY <1>1, <1>3, SpentKept
<1>7. GhostsAreClosed'
  BY <1>1, <1>3, GhostsKept DEF AfterChange
<1>. QED
  BY <1>2, <1>4, <1>5, <1>6, <1>7, AloneAfter

\* Whatever it starts with, it has just read the order or the request.
LEMMA AloneStart ==
  ASSUME NEW x, Only(x), StatusInv, AloneInv, Start(x)
  PROVE  AloneInv'
<1>1. CASE StartCreate(x)
  <2>1. PICK u \in Users \ Admins, to \in Targets :
          Begin(x, "create", [NoJob EXCEPT !.user = u, !.from = status, !.to = to], "insert")
    BY <1>1 DEF StartCreate
  <2>2. PICK j : j = [NoJob EXCEPT !.user = u, !.from = status, !.to = to]
    OBVIOUS
  <2>3. j.from = status
    BY <2>2 DEF NoJob
  <2>4. ReadOK("insert", j) /\ ApprovalOK("insert", j)
    BY <2>3 DEF ReadOK, ApprovalOK, BeforeChange, AfterChange
  <2>. QED
    BY <2>1, <2>2, <2>4, AloneBegin
<1>2. ASSUME NEW kind, NEW r \in Taken, NEW decision, requests[r].state = "PENDING",
             Begin(x, kind, [NoJob EXCEPT !.row = r, !.review = decision], "review")
      PROVE  AloneInv'
  <2>1. PICK j : j = [NoJob EXCEPT !.row = r, !.review = decision]
    OBVIOUS
  <2>2. j.row = r
    BY <2>1 DEF NoJob
  <2>3. ReadOK("review", j) /\ ApprovalOK("review", j)
    BY <1>2, <2>2 DEF ReadOK, ApprovalOK, BeforeChange, AfterChange
  <2>. QED
    BY <1>2, <2>1, <2>3, AloneBegin
<1>3. CASE StartReview(x)
  <2>1. PICK r \in Taken, decision \in {"APPROVED", "REJECTED"} :
          /\ requests[r].state = "PENDING"
          /\ Begin(x, "review", [NoJob EXCEPT !.row = r, !.review = decision], "review")
    BY <1>3 DEF StartReview
  <2>. QED
    BY <1>2, <2>1
<1>4. CASE StartReviewViaWhatsApp(x)
  <2>1. PICK r \in Taken, decision \in {"APPROVED", "REJECTED"} :
          /\ requests[r].state = "PENDING"
          /\ Begin(x, "whatsapp", [NoJob EXCEPT !.row = r, !.review = decision], "review")
    BY <1>4 DEF StartReviewViaWhatsApp
  <2>. QED
    BY <1>2, <2>1
<1>5. CASE StartExpire(x)
  BY <1>2, <1>5 DEF StartExpire
<1>6. CASE StartUpdateStatus(x)
  <2>1. PICK u \in Users, to \in Targets :
          /\ MayGo(status, to)
          /\ Begin(x, "updateStatus", [NoJob EXCEPT !.user = u, !.from = status, !.to = to],
                   IF to \in AlwaysAuthorized \/ IsBackwardTransition(status, to)
                   THEN "need" ELSE "write")
    BY <1>6 DEF StartUpdateStatus
  <2>2. PICK j : j = [NoJob EXCEPT !.user = u, !.from = status, !.to = to]
    OBVIOUS
  <2>3. PICK label : label = IF to \in AlwaysAuthorized \/ IsBackwardTransition(status, to)
                             THEN "need" ELSE "write"
    OBVIOUS
  <2>4. /\ j.user = u /\ j.from = status /\ j.to = to /\ j.row = None /\ j.needs = FALSE
    BY <2>2 DEF NoJob
  <2>5. /\ label \in {"need", "write"}
        /\ label = "write" => ~Sensitive(j)
    BY <2>3, <2>4 DEF Sensitive
  <2>6. ReadOK(label, j)
    BY <2>1, <2>4, <2>5 DEF ReadOK, BeforeChange, AfterChange, MayGo
  <2>7. ApprovalOK(label, j)
    BY <2>4, <2>5 DEF ApprovalOK
  <2>. QED
    BY <2>1, <2>2, <2>3, <2>6, <2>7, AloneBegin
<1>7. CASE StartUpdate(x)
  BY <1>7 DEF StartUpdate, Begin, Only
<1>. QED
  BY <1>1, <1>3, <1>4, <1>5, <1>6, <1>7 DEF Start

\* The statements before the change.
LEMMA AloneDecision ==
  ASSUME NEW x, Only(x), StatusInv, AloneInv, RequiresAuthorization(x) \/ FindApproval(x)
  PROVE  AloneInv'
<1>0. PICK j : j = job[x]
  OBVIOUS
<1>1. /\ UNCHANGED <<status, owes, held, requests, uses, starts, failures>>
      /\ pc[x] \in {"need", "approval"} /\ x \in Processes /\ j \in Job
  BY <1>0, AloneFacts DEF RequiresAuthorization, FindApproval, StatusInv, TypeOK
<1>2. RowsKept /\ Taken' = Taken
  BY <1>1, RequestsUnchanged
<1>3. ReadOK(pc[x], j) /\ ApprovalOK(pc[x], j)
  BY <1>0, AloneFacts
<1>4. /\ status = j.from /\ j.to # j.from /\ j.row = None
      /\ IsValidTransition(j.from, j.to) \/ IsBackwardTransition(j.from, j.to)
      /\ pc[x] = "approval" => j.needs
  BY <1>1, <1>3 DEF ReadOK, ApprovalOK, BeforeChange
<1>5. UsedIsSpent' /\ GhostsAreClosed'
  BY <1>1, <1>2, SpentKept, GhostsKept DEF AfterChange
<1>6. ASSUME NEW label, NEW k, Goto(x, label), job' = [job EXCEPT ![x] = k],
             label \in {"approval", "consume", "annul", "write"},
             k.from = j.from, k.to = j.to, ApprovalOK(label, k)
      PROVE  AloneInv'
  <2>1. Moved(x, label, k)
    BY <1>1, <1>6 DEF Goto, Moved, StatusInv, TypeOK
  <2>2. ReadOK(label, k)'
    BY <1>1, <1>4, <1>6 DEF ReadOK, BeforeChange, AfterChange
  <2>3. ApprovalOK(label, k)'
    BY <1>1, <1>2, <1>6 DEF ApprovalOK, Approved
  <2>. QED
    BY <1>5, <2>1, <2>2, <2>3, AloneAfter
<1>7. CASE RequiresAuthorization(x)
  <2>1. PICK needs \in BOOLEAN :
          /\ needs <=> /\ j.user \notin Admins
                       /\ j.to \in AlwaysAuthorized \/ IsBackwardTransition(status, j.to)
          /\ job' = [job EXCEPT ![x].needs = needs]
          /\ Goto(x, IF needs THEN "approval" ELSE Target(j))
    BY <1>0, <1>7 DEF RequiresAuthorization
  <2>2. PICK k : k = [j EXCEPT !.needs = needs]
    OBVIOUS
  <2>3. k.user = j.user /\ k.from = j.from /\ k.to = j.to /\ k.row = j.row /\ k.needs = needs
    BY <1>1, <2>2 DEF Job
  <2>4. job' = [job EXCEPT ![x] = k]
    BY <1>0, <2>1, <2>2
  <2>5. PICK label : label = IF needs THEN "approval" ELSE Target(j)
    OBVIOUS
  <2>6. /\ label \in {"approval", "annul", "write"}
        /\ label = "approval" <=> needs
        /\ ~needs /\ Sensitive(k) => k.user \in Admins
    BY <1>4, <2>1, <2>3, <2>5 DEF Target, Sensitive
  <2>7. ApprovalOK(label, k)
    BY <1>4, <2>3, <2>6 DEF ApprovalOK
  <2>. QED
    BY <1>6, <2>1, <2>3, <2>4, <2>5, <2>6, <2>7
<1>8. CASE FindApproval(x)
  <2>1. PICK r \in Approved(j.user, j.to) : job' = [job EXCEPT ![x].row = r]
    BY <1>0, <1>8 DEF FindApproval
  <2>2. PICK k : k = [j EXCEPT !.row = r]
    OBVIOUS
  <2>3. r \in Rows /\ r \in Taken /\ r # None /\ ~requests[r].consumed
    BY <2>1, NoneApart DEF Approved, Taken
  <2>4. uses[r] = 0
    <3>1. uses[r] <= 1 /\ uses[r] # 1
      BY <1>8, <2>3, AloneFacts DEF FindApproval
    <3>. QED
      BY <2>3, <3>1 DEF StatusInv, TypeOK
  <2>5. k.user = j.user /\ k.from = j.from /\ k.to = j.to /\ k.row = r /\ k.needs = j.needs
    BY <1>1, <2>2 DEF Job
  <2>6. job' = [job EXCEPT ![x] = k] /\ j.needs
    BY <1>0, <1>4, <1>8, <2>1, <2>2 DEF FindApproval
  <2>7. PICK label : label = IF j.to \in AlwaysAuthorized THEN "consume" ELSE "write"
    OBVIOUS
  <2>8. Goto(x, label)
    BY <1>0, <1>8, <2>7 DEF FindApproval
  <2>9. ApprovalOK(label, k)
    BY <2>1, <2>3, <2>4, <2>5, <2>6, <2>7 DEF ApprovalOK
  <2>. QED
    BY <1>6, <2>5, <2>6, <2>7, <2>8, <2>9
<1>. QED
  BY <1>7, <1>8

\* The approval consumed before the change.
LEMMA AloneConsumeBefore ==
  ASSUME NEW x, Only(x), StatusInv, AloneInv, ConsumeBefore(x)
  PROVE  AloneInv'
<1>0. PICK j : j = job[x]
  OBVIOUS
<1>1. /\ UNCHANGED <<status, owes, held, uses, job, starts, failures>> /\ TypeOK
      /\ ConsumeApproved(x) /\ pc[x] = "consume" /\ x \in Processes /\ Goto(x, Target(j))
  BY <1>0, AloneFacts DEF ConsumeBefore, StatusInv
<1>2. /\ RowsKept /\ \A r \in Approved(j.user, j.to) : requests'[r].consumed
      /\ \A r \in Rows : /\ r \in Taken' => r \in Taken
                         /\ r \in Taken => requests'[r].state = requests[r].state
  BY <1>0, <1>1, ConsumeKeeps
<1>3. ReadOK(pc[x], j) /\ ApprovalOK(pc[x], j) /\ j.to \in AlwaysAuthorized
  BY <1>0, <1>1, AloneFacts DEF StatusInv, JobFollowsControl
<1>4. PICK label : label = Target(j) /\ label \in {"annul", "write"}
  BY DEF Target
<1>5. Moved(x, label, j)
  BY <1>0, <1>1, <1>4 DEF Moved, Goto, StatusInv, TypeOK
<1>6. ReadOK(label, j)'
  BY <1>1, <1>3, <1>4 DEF ReadOK, BeforeChange, AfterChange
<1>7. ApprovalOK(label, j)'
  <2>1. j.row # None => /\ j.row \in Taken /\ uses[j.row] = 0
                        /\ j.row \in Approved(j.user, j.to)
    BY <1>1, <1>3 DEF ApprovalOK
  <2>2. j.row # None => j.row \in Taken' /\ requests'[j.row].consumed /\ uses'[j.row] = 0
    BY <1>1, <1>2, <2>1 DEF RowsKept, Taken
  <2>. QED
    BY <1>1, <1>3, <1>4, <2>2 DEF ApprovalOK
<1>8. UsedIsSpent'
  BY <1>1, <1>2, SpentKept
<1>9. GhostsAreClosed'
  <2>1. \A r \in Taken' : r \in Taken
    BY <1>2 DEF Taken
  <2>. QED
    BY <1>1, <1>2, <2>1, GhostsKept DEF AfterChange
<1>. QED
  BY <1>5, <1>6, <1>7, <1>8, <1>9, AloneAfter

\* The approval consumed after it.
LEMMA AloneConsumeAfter ==
  ASSUME NEW x, Only(x), StatusInv, AloneInv, ConsumeAfter(x)
  PROVE  AloneInv'
<1>0. PICK j : j = job[x]
  OBVIOUS
<1>1. /\ UNCHANGED <<status, owes, held, uses, job, starts, failures>> /\ TypeOK
      /\ ConsumeApproved(x) /\ pc[x] = "consumeAfter" /\ x \in Processes /\ Goto(x, "close")
  BY <1>0, AloneFacts DEF ConsumeAfter, StatusInv
<1>2. RowsKept /\ \A r \in Approved(j.user, j.to) : requests'[r].consumed
  BY <1>0, <1>1, ConsumeKeeps
<1>3. /\ status = j.to /\ j.row \in Approved(j.user, j.to) /\ j.row \in Taken
  BY <1>0, <1>1, AloneFacts DEF ReadOK, ApprovalOK, AfterChange, Approved
<1>4. Moved(x, "close", j)
  BY <1>0, <1>1 DEF Moved, Goto, StatusInv, TypeOK
<1>5. ReadOK("close", j)' /\ ApprovalOK("close", j)'
  BY <1>1, <1>3 DEF ReadOK, ApprovalOK, BeforeChange, AfterChange
<1>6. UsedIsSpent'
  BY <1>0, <1>1, <1>2, <1>3, SpentKept
<1>7. GhostsAreClosed'
  BY <1>4, GhostsAfterChange DEF Moved, AfterChange
<1>. QED
  BY <1>4, <1>5, <1>6, <1>7, AloneAfter

\* The change itself: the request it stands on is used for the first time.
LEMMA AloneChange ==
  ASSUME NEW x, Only(x), StatusInv, AloneInv, WriteStatus(x) \/ AnnulOrder(x)
  PROVE  AloneInv'
<1>0. PICK j : j = job[x]
  OBVIOUS
<1>1. /\ UNCHANGED <<owes, held, requests, job, starts, failures>> /\ TypeOK
      /\ pc[x] \in {"write", "annul"} /\ UsedBy(x) /\ Goto(x, AfterWrite(j))
      /\ x \in Processes /\ j \in Job
  BY <1>0, AloneFacts DEF WriteStatus, AnnulOrder, StatusInv, TypeOK
<1>2. RowsKept /\ Taken' = Taken
  BY <1>1, RequestsUnchanged
<1>3. ReadOK(pc[x], j) /\ ApprovalOK(pc[x], j)
  BY <1>0, AloneFacts
<1>4. status = j.from /\ j.to # j.from /\ status' = j.to
  <2>1. status = j.from /\ j.to # j.from
    BY <1>1, <1>3 DEF ReadOK, BeforeChange
  <2>2. pc[x] = "annul" => j.to = "ANULADO"
    BY <1>0, <1>1 DEF StatusInv, JobFollowsControl
  <2>3. status' = j.to
    BY <1>0, <1>1, <2>2 DEF WriteStatus, AnnulOrder
  <2>. QED
    BY <2>1, <2>2, <2>3
<1>5. PICK label : label = AfterWrite(j) /\ label \in AfterChange
  BY DEF AfterWrite, AfterChange
<1>6. Moved(x, label, j)
  BY <1>0, <1>1, <1>5 DEF Moved, Goto, StatusInv, TypeOK
<1>7. ReadOK(label, j)'
  BY <1>4, <1>5 DEF ReadOK, BeforeChange, AfterChange
<1>8. /\ j.needs <=> j.row # None
      /\ j.row # None =>
           /\ j.row \in Taken /\ uses[j.row] = 0
           /\ IF j.to \in AlwaysAuthorized THEN requests[j.row].consumed
              ELSE j.row \in Approved(j.user, j.to)
  BY <1>1, <1>3 DEF ApprovalOK
<1>9. /\ label = "consumeAfter" <=> (j.row # None /\ j.to \notin AlwaysAuthorized)
  BY <1>5, <1>8 DEF AfterWrite
<1>10. ApprovalOK(label, j)'
  <2>1. label = "consumeAfter" => j.row \in Approved(j.user, j.to)'
    BY <1>1, <1>2, <1>8, <1>9 DEF Approved
  <2>. QED
    BY <1>5, <2>1 DEF ApprovalOK, AfterChange
<1>11. UsedIsSpent'
  <2> SUFFICES ASSUME NEW r \in Rows
               PROVE  /\ uses'[r] <= 1
                      /\ uses'[r] = 1 =>
                           /\ r \in Taken'
                           /\ \/ requests'[r].consumed
                              \/ pc'[x] = "consumeAfter" /\ job'[x].row = r
    BY <1>1 DEF UsedIsSpent
  <2>1. CASE j.row = r
    <3>1. r # None
      BY NoneApart
    <3>2. uses'[r] = 1
      <4>1. job[x].row = r /\ job[x].row # None /\ status' # status /\ uses[r] = 0
        <5>1. job[x].row = r /\ job[x].row # None
          BY <1>0, <2>1, <3>1
        <5>2. status' # status
          BY <1>4
        <5>3. uses[r] = 0
          BY <1>8, <2>1, <3>1
        <5>. QED
          BY <5>1, <5>2, <5>3
      <4>2. uses' = [uses EXCEPT ![r] = uses[r] + 1]
        BY <1>1, <4>1 DEF UsedBy
      <4>. QED
        BY <1>1, <4>1, <4>2 DEF TypeOK
    <3>3. r \in Taken' /\ (requests'[r].consumed \/ label = "consumeAfter")
      BY <1>1, <1>2, <1>8, <1>9, <2>1, <3>1
    <3>. QED
      BY <1>6, <2>1, <3>2, <3>3 DEF Moved
  <2>2. CASE j.row # r
    <3>1. uses'[r] = uses[r]
      BY <1>0, <1>1, <2>2 DEF UsedBy, TypeOK
    <3>2. uses[r] <= 1 /\ (uses[r] = 1 => r \in Taken /\ requests[r].consumed)
      BY <1>1, AloneFacts
    <3>. QED
      BY <1>1, <1>2, <3>1, <3>2
  <2>. QED
    BY <2>1, <2>2
<1>12. GhostsAreClosed'
  BY <1>5, <1>6, GhostsAfterChange DEF Moved
<1>. QED
  BY <1>6, <1>7, <1>10, <1>11, <1>12, AloneAfter

\* The row an administrator's change leaves.
LEMMA AloneRecord ==
  ASSUME NEW x, Only(x), StatusInv, AloneInv, RecordDirect(x)
  PROVE  AloneInv'
<1>0. PICK j : j = job[x]
  OBVIOUS
<1>1. /\ UNCHANGED <<status, owes, held, uses, job, starts, failures>> /\ TypeOK
      /\ pc[x] = "record" /\ Goto(x, "close") /\ x \in Processes
  BY AloneFacts DEF RecordDirect, StatusInv
<1>2. /\ status = j.to
      /\ j.user \in Users /\ j.from \in OrderStatuses /\ j.to \in OrderStatuses
  BY <1>0, <1>1, AloneFacts DEF ReadOK, AfterChange, StatusInv, JobFollowsControl
<1>3. PICK row : row = [NewRow(j) EXCEPT !.state = "APPROVED", !.consumed = TRUE,
                                         !.direct = TRUE]
  OBVIOUS
<1>4. row \in Row /\ Insert(row)
  BY <1>0, <1>2, <1>3 DEF RecordDirect, NewRow, Row, RowStates
<1>5. RowsKept
  BY <1>1, <1>4, InsertKeeps
<1>6. Moved(x, "close", j)
  BY <1>0, <1>1 DEF Moved, Goto, StatusInv, TypeOK
<1>7. ReadOK("close", j)' /\ ApprovalOK("close", j)'
  BY <1>1, <1>2 DEF ReadOK, ApprovalOK, BeforeChange, AfterChange
<1>8. UsedIsSpent'
  BY <1>1, <1>5, SpentKept
<1>9. GhostsAreClosed'
  BY <1>6, GhostsAfterChange DEF Moved, AfterChange
<1>. QED
  BY <1>6, <1>7, <1>8, <1>9, AloneAfter

\* The last statement: no pending request is left for the status that was reached.
LEMMA AloneClose ==
  ASSUME NEW x, Only(x), StatusInv, AloneInv, ClosePending(x)
  PROVE  AloneInv'
<1>1. /\ Done(x) /\ UNCHANGED <<status, owes, held, uses, starts, failures>> /\ TypeOK
      /\ pc[x] = "close" /\ x \in Processes
  BY AloneFacts DEF ClosePending, StatusInv
<1>2. /\ RowsKept
      /\ \A r \in Rows : /\ r \in Taken' => r \in Taken
                         /\ r \in Taken /\ requests'[r].state = "PENDING"
                              => requests'[r] = requests[r] /\ requests[r].to # job[x].to
  BY <1>1, CloseKeeps
<1>3. status = job[x].to
  BY <1>1, AloneFacts DEF ReadOK, AfterChange
<1>4. GhostsAreClosed'
  BY <1>1, <1>2, <1>3 DEF GhostsAreClosed, Taken
<1>. QED
  BY <1>1, <1>2, <1>4, AloneDone

\* A new request asks for another status than the one the order has, or for nothing.
LEMMA AloneInsert ==
  ASSUME NEW x, Only(x), StatusInv, AloneInv, InsertRequest(x)
  PROVE  AloneInv'
<1>0. PICK j : j = job[x]
  OBVIOUS
<1>1. /\ Done(x) /\ UNCHANGED <<status, owes, held, uses, starts, failures>>
      /\ pc[x] = "insert" /\ TypeOK /\ x \in Processes
  BY AloneFacts DEF InsertRequest, StatusInv
<1>2. NewRow(j) \in Row /\ status = j.from
  <2>1. status = j.from
    BY <1>0, <1>1, AloneFacts DEF ReadOK
  <2>2. j.user \in Users /\ j.from \in OrderStatuses /\ j.to \in OrderStatuses
    BY <1>0, <1>1 DEF StatusInv, JobFollowsControl
  <2>. QED
    BY <2>1, <2>2, NewRowType
<1>3. CASE UNCHANGED requests
  <2>1. RowsKept /\ Taken' = Taken
    BY <1>3, RequestsUnchanged
  <2>2. GhostsAreClosed'
    BY <1>1, <2>1, GhostsKept DEF AfterChange
  <2>. QED
    BY <1>1, <2>1, <2>2, AloneDone
<1>4. CASE Insert(NewRow(j))
  <2>1. PICK row \in Row : row = NewRow(j)
    BY <1>2
  <2>2. /\ RowsKept
        /\ \E r \in Rows \ Taken : /\ requests'[r] = row
                                   /\ \A s \in Rows \ {r} : requests'[s] = requests[s]
    BY <1>1, <1>4, <2>1, InsertKeeps
  <2>3. row.from = status /\ row.to = j.to
    BY <1>2, <2>1 DEF NewRow
  <2>4. \A r \in Taken' : r \in Taken \/ requests'[r].to # status
                                        \/ requests'[r].to = requests'[r].from
    BY <2>2, <2>3 DEF Taken
  <2>5. GhostsAreClosed'
    BY <1>1, <2>2, <2>4, GhostsKept DEF AfterChange
  <2>. QED
    BY <1>1, <2>2, <2>5, AloneDone
<1>. QED
  BY <1>0, <1>3, <1>4 DEF InsertRequest

\* A review answers the request it read as pending.
LEMMA AloneReview ==
  ASSUME NEW x, Only(x), StatusInv, AloneInv, CommitReview(x)
  PROVE  AloneInv'
<1>1. /\ Done(x) /\ UNCHANGED <<status, owes, held, uses, starts, failures>> /\ TypeOK
      /\ pc[x] = "review" /\ x \in Processes
      /\ job[x].row \in Taken /\ job[x].review \in RowStates \ {"PENDING"}
  BY AloneFacts DEF CommitReview, StatusInv, JobFollowsControl
<1>2. PICK r \in Taken, state \in RowStates \ {"PENDING"} :
        r = job[x].row /\ state = job[x].review
  BY <1>1
<1>3. requests' = [requests EXCEPT ![r].state = state]
  BY <1>2 DEF CommitReview
<1>4. RowsKept /\ \A s \in Rows \ {r} : requests'[s] = requests[s]
  BY <1>1, <1>3, ReviewKeeps
<1>5. \A s \in Taken' : s \in Taken
  BY <1>4 DEF Taken
<1>6. GhostsAreClosed'
  BY <1>1, <1>4, <1>5, GhostsKept DEF AfterChange
<1>. QED
  BY <1>1, <1>4, <1>6, AloneDone

\* The other ends of a request; nothing dies, and no edit carries a status.
LEMMA AloneEnd ==
  ASSUME NEW x, Only(x), StatusInv, AloneInv,
         Forbidden(x) \/ RefuseAnnul(x) \/ CommitUpdate(x) \/ Fail(x)
  PROVE  AloneInv'
<1>1. ~CommitUpdate(x)
  BY AloneFacts DEF CommitUpdate, ReadOK
<1>2. ~Fail(x)
  BY DEF Fail, Only, StatusInv, TypeOK
<1>3. /\ Done(x) /\ UNCHANGED <<status, owes, held, requests, uses, starts, failures>>
      /\ pc[x] \in {"approval", "annul"}
  BY <1>1, <1>2 DEF Forbidden, RefuseAnnul
<1>4. RowsKept /\ Taken' = Taken
  BY <1>3, RequestsUnchanged
<1>5. GhostsAreClosed'
  BY <1>3, <1>4, GhostsKept DEF AfterChange
<1>. QED
  BY <1>3, <1>4, <1>5, AloneDone

\* The money that moves while the request runs, and the refund between two of them.
LEMMA AloneOutside ==
  ASSUME NEW x, Only(x), StatusInv, AloneInv, ExecuteRefund(x) \/ OthersMove
  PROVE  AloneInv'
<1>0. PICK label, j : label = pc[x] /\ j = job[x]
  OBVIOUS
<1>1. UNCHANGED <<requests, uses, pc, job>> /\ x \in Processes
  BY AloneFacts DEF ExecuteRefund, OthersMove
<1>2. RowsKept /\ Taken' = Taken
  BY <1>1, RequestsUnchanged
<1>3. Moved(x, label, j)
  BY <1>0, <1>1 DEF Moved
<1>4. status' = status \/ (label = "idle" /\ status' = "RETURNED")
  BY <1>0 DEF ExecuteRefund, OthersMove
<1>5. ReadOK(label, j)'
  <2>1. ReadOK(label, j)
    BY <1>0, AloneFacts
  <2>. QED
    BY <1>1, <1>4, <2>1 DEF ReadOK, BeforeChange, AfterChange
<1>6. ApprovalOK(label, j)'
  <2>1. ApprovalOK(label, j)
    BY <1>0, AloneFacts
  <2>. QED
    BY <1>1, <1>2, <2>1 DEF ApprovalOK, Approved
<1>7. UsedIsSpent' /\ GhostsAreClosed'
  BY <1>1, <1>2, <1>4 DEF AloneInv, UsedIsSpent, GhostsAreClosed
<1>. QED
  BY <1>3, <1>5, <1>6, <1>7, AloneAfter

\* One request at a time, from any state the properties allow.
LEMMA NextAlone ==
  ASSUME NEW x, Only(x), StatusInv, AloneInv, [Next]_vars
  PROVE  AloneInv'
<1>1. CASE Step(x)
  BY <1>1, AloneInsert, AloneReview, AloneDecision, AloneConsumeBefore, AloneConsumeAfter,
     AloneChange, AloneRecord, AloneClose, AloneEnd DEF Step
<1>2. CASE Start(x) \/ ExecuteRefund(x) \/ Fail(x) \/ OthersMove
  BY <1>2, AloneStart, AloneOutside, AloneEnd
<1>3. CASE UNCHANGED vars
  BY <1>3 DEF vars, AloneInv, StatusAsRead, HoldsApproval, UsedIsSpent, GhostsAreClosed,
              Approved, Taken
<1>. QED
  BY <1>1, <1>2, <1>3 DEF Next, Only

\* The tables of the flow are those of the operations.
LEMMA FlowTables ==
  /\ Flow!OrderStatuses = OrderStatuses
  /\ \A a, b : /\ Flow!IsValidTransition(a, b) = IsValidTransition(a, b)
              /\ Flow!IsBackwardTransition(a, b) = IsBackwardTransition(a, b)
<1>1. \A a : Flow!AllowedTransitions(a) = AllowedTransitions(a)
  BY DEF Flow!AllowedTransitions, AllowedTransitions
<1>. QED
  BY <1>1, Zenon DEF Flow!OrderStatuses, OrderStatuses, Flow!IsValidTransition,
     IsValidTransition, Flow!IsBackwardTransition, IsBackwardTransition

\* The changes of status of one request at a time are steps of the flow.
LEMMA StepFollowsFlow ==
  ASSUME NEW x, Only(x), StatusInv, AloneInv, [Next]_vars
  PROVE  [Flow!Next]_status
<1>1. CASE ExecuteRefund(x)
  BY <1>1 DEF ExecuteRefund, Flow!Next, Flow!ReturnMoney
<1>2. CASE WriteStatus(x) \/ AnnulOrder(x)
  <2>0. PICK j : j = job[x]
    OBVIOUS
  <2>1. pc[x] \in {"write", "annul"} /\ x \in Processes
    BY <1>2, AloneFacts DEF WriteStatus, AnnulOrder
  <2>2. /\ status = j.from
        /\ IsValidTransition(j.from, j.to) \/ IsBackwardTransition(j.from, j.to)
    BY <2>0, <2>1, AloneFacts DEF ReadOK, BeforeChange
  <2>3. j.to \in OrderStatuses /\ status' = j.to
    BY <1>2, <2>0, <2>1 DEF WriteStatus, AnnulOrder, StatusInv, JobFollowsControl
  <2>. QED
    BY <2>2, <2>3, FlowTables DEF Flow!Next, Flow!Advance, Flow!GoBack
<1>3. ~CommitUpdate(x)
  BY AloneFacts DEF CommitUpdate, ReadOK
<1>4. \/ ExecuteRefund(x) \/ WriteStatus(x) \/ AnnulOrder(x) \/ UNCHANGED status
  <2>1. CASE Start(x)
    BY <2>1 DEF Start, StartCreate, StartReview, StartReviewViaWhatsApp, StartExpire,
                StartUpdateStatus, StartUpdate, Begin
  <2>2. CASE Step(x)
    BY <1>3, <2>2 DEF Step, InsertRequest, CommitReview, RequiresAuthorization, FindApproval,
                      Forbidden, ConsumeBefore, ConsumeAfter, RefuseAnnul, RecordDirect,
                      ClosePending
  <2>3. CASE Fail(x) \/ OthersMove \/ UNCHANGED vars
    BY <2>3 DEF Fail, OthersMove, vars
  <2>. QED
    BY <2>1, <2>2, <2>3 DEF Next, Only
<1>. QED
  BY <1>1, <1>2, <1>4

\* The answer of a request, one request at a time.
LEMMA AnswersKept ==
  ASSUME NEW x, Only(x), StatusInv, AloneInv, [Next]_vars,
         NEW r \in Taken, requests[r].state # "PENDING"
  PROVE  requests'[r].state = requests[r].state
<1>0. x \in Processes /\ TypeOK /\ r \in Rows
  BY AloneFacts, TakenRows DEF StatusInv
<1>1. CASE InsertRequest(x) \/ RecordDirect(x)
  <2>1. PICK row : Insert(row) \/ UNCHANGED requests
    BY <1>1 DEF InsertRequest, RecordDirect
  <2>2. requests'[r] = requests[r]
    BY <1>0, <2>1 DEF Insert, Fresh, TypeOK
  <2>. QED
    BY <2>2
<1>2. CASE CommitReview(x)
  <2>1. job[x].row # r
    BY <1>2, AloneFacts DEF CommitReview, ReadOK
  <2>2. requests'[r] = requests[r]
    BY <1>0, <1>2, <2>1 DEF CommitReview, TypeOK
  <2>. QED
    BY <2>2
<1>3. CASE ConsumeBefore(x) \/ ConsumeAfter(x)
  BY <1>0, <1>3, ConsumeKeeps DEF ConsumeBefore, ConsumeAfter
<1>4. CASE ClosePending(x)
  BY <1>0, <1>4, CloseKeeps
<1>5. \/ InsertRequest(x) \/ RecordDirect(x) \/ CommitReview(x) \/ ConsumeBefore(x)
      \/ ConsumeAfter(x) \/ ClosePending(x) \/ UNCHANGED requests
  <2>1. CASE Start(x)
    BY <2>1 DEF Start, StartCreate, StartReview, StartReviewViaWhatsApp, StartExpire,
                StartUpdateStatus, StartUpdate, Begin
  <2>2. CASE Step(x)
    BY <2>2 DEF Step, RequiresAuthorization, FindApproval, Forbidden, WriteStatus,
                AnnulOrder, RefuseAnnul, CommitUpdate
  <2>3. CASE ExecuteRefund(x) \/ Fail(x) \/ OthersMove \/ UNCHANGED vars
    BY <2>3 DEF ExecuteRefund, Fail, OthersMove, vars
  <2>. QED
    BY <2>1, <2>2, <2>3 DEF Next, Only
<1>. QED
  BY <1>1, <1>2, <1>3, <1>4, <1>5

\* Nothing is read, used or pending at the start.
LEMMA InitAlone == Init => AloneInv
BY DEF Init, AloneInv, StatusAsRead, HoldsApproval, UsedIsSpent, GhostsAreClosed, Taken,
       BeforeChange, AfterChange

\* One request at a time, for histories of any length and requests of any users.
THEOREM AloneInvariant == ASSUME OneAtATime PROVE Spec => []AloneInv
<1>1. PICK x : Only(x)
  BY DEF OneAtATime, Only
<1>2. StatusInv /\ AloneInv /\ [Next]_vars => AloneInv'
  BY <1>1, NextAlone
<1>. QED
  BY <1>2, InitAlone, StatusInvariant, PTL DEF Spec

\* One request at a time, the order implements the flow of order-status-transitions.ts.
THEOREM StatusFollowsFlow == ASSUME OneAtATime PROVE Spec => FollowsFlow
<1>1. PICK x : Only(x)
  BY DEF OneAtATime, Only
<1>2. Init => Flow!Init
  BY DEF Init, Flow!Init
<1>3. StatusInv /\ AloneInv /\ [Next]_vars => [Flow!Next]_status
  BY <1>1, StepFollowsFlow
<1>. QED
  BY <1>2, <1>3, AloneInvariant, StatusInvariant, PTL DEF Spec, FollowsFlow, Flow!Spec

\* "Un retroceso siempre exige [...] autorizacion": true of one request at a time.
THEOREM StepsBackApproved == ASSUME OneAtATime PROVE Spec => BackwardApproved
<1>1. AloneInv /\ [Next]_vars =>
        [\A p \in Processes :
           LET j == job[p] IN
             (Changes(p) /\ IsBackwardTransition(j.from, j.to) /\ j.user \notin Admins)
               => j.row # None]_vars
  BY DEF AloneInv, HoldsApproval, Sensitive, Changes
<1>. QED
  BY <1>1, AloneInvariant, PTL DEF BackwardApproved, Spec

\* One request at a time, a request is answered once and its approval serves one change.
THEOREM AnsweredOnceUsedOnce == ASSUME OneAtATime PROVE Spec => AnsweredAndUsedOnce
<1>1. PICK x : Only(x)
  BY DEF OneAtATime, Only
<1>2. AloneInv => SingleUse
  BY DEF AloneInv, UsedIsSpent, SingleUse
<1>3. StatusInv /\ AloneInv /\ [Next]_vars =>
        [\A r \in Taken : requests[r].state # "PENDING" =>
                            requests'[r].state = requests[r].state]_vars
  BY <1>1, AnswersKept
<1>. QED
  BY <1>2, <1>3, AloneInvariant, StatusInvariant, PTL
     DEF Spec, AnsweredAndUsedOnce, ReviewedOnce

\* One request at a time, no pending request asks for the status the order has.
THEOREM GhostsClosed == ASSUME OneAtATime PROVE Spec => []NoGhostRequests
<1>1. AloneInv => NoGhostRequests
  BY DEF AloneInv, GhostsAreClosed, NoGhostRequests, AfterChange
<1>. QED
  BY <1>1, AloneInvariant, PTL
=============================================================================
