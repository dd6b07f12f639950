------------------------ MODULE ProductionOrdersProofs ------------------------
(***************************************************************************)
(* The order implements the pipeline, for every template whose components  *)
(* number their steps apart, any number of operators and any number of     *)
(* requests that die.  The statuses alone are not inductive: a write from  *)
(* a stale read opens a completed step again, so the argument is about     *)
(* everDone, which only grows.  What a request has read stays true of      *)
(* everDone until it writes.                                               *)
(*                                                                         *)
(* That nothing is forgotten is about who is still to look: whatever waits *)
(* for a completed gate has a request that completed a step of the gate    *)
(* and has not looked at the phase yet, or is about to open it.            *)
(***************************************************************************)
EXTENDS ProductionOrdersProps, SumTheorems, TLAPS

-----------------------------------------------------------------------------
(* The facts every step uses.                                               *)

\* The steps of the order that exist, and their rows.
LEMMA RowsKnown ==
  ASSUME steps \in [Steps -> Row \cup {None}]
  PROVE  /\ Present \subseteq Steps
         /\ \A s \in Present : steps[s] \in Row
         /\ \A s \in Steps : s \in Present <=> steps[s] # None
BY DEF Present

\* The rows of a set that are all completed were all done.
LEMMA AllDoneIsDone ==
  ASSUME CompletedWasDone, NEW S, AllDone(S)
  PROVE  S \cap Present \subseteq everDone
BY DEF CompletedWasDone, AllDone

\* While no row appears or vanishes and nothing is forgotten, what was relied on
\* can still be.
LEMMA ReliesKept ==
  ASSUME NEW p \in Processes, Relies(p), Present' = Present, everDone \subseteq everDone',
         pc'[p] = pc[p], job'[p] = job[p]
  PROVE  Relies(p)'
BY DEF Relies, Open, Gate, InPhase, Previous, Group, OneBefore

\* A production order starts with nothing begun: the pipeline holds.
THEOREM PipelineInit == Init => PipelineInv
<1> SUFFICES ASSUME Init PROVE PipelineInv
    OBVIOUS
<1>1. Rows
  BY DEF Init, Rows
<1>2. Present = {}
  BY DEF Init, Present
<1>3. Unborn /\ CompletedWasDone /\ OpenHasGate
  BY <1>2 DEF Unborn, CompletedWasDone, OpenHasGate, Init
<1>4. Jobs
  BY DEF Init, Jobs, Relies, NoJob, Job
<1> QED BY <1>1, <1>3, <1>4 DEF PipelineInv

-----------------------------------------------------------------------------
(* Steps that leave the order alone.                                        *)

\* A step that leaves the rows of the order alone keeps what they say.
LEMMA OrderAlone ==
  ASSUME PipelineInv, UNCHANGED orderVars, template' \subseteq Steps
  PROVE  Present' = Present /\ Unborn' /\ CompletedWasDone' /\ OpenHasGate'
BY DEF PipelineInv, orderVars, Present, Unborn, CompletedWasDone, OpenHasGate, Gate, InPhase

\* The other requests rely on what they did; this one is looked at by itself.
LEMMA JobsStep ==
  ASSUME NEW p \in Processes, Jobs, Present' = Present, everDone \subseteq everDone',
         \A q \in Processes \ {p} : pc'[q] = pc[q] /\ job'[q] = job[q],
         job' \in [Processes -> [step : Steps \cup {None}, status : StepStatuses \cup {None},
                                 filled : BOOLEAN \cup {None}]],
         Relies(p)'
  PROVE  Jobs'
<1> SUFFICES ASSUME NEW q \in Processes PROVE Relies(q)'
    BY DEF Jobs
<1>1. CASE q = p
  BY <1>1
<1>2. CASE q # p
  <2>1. Relies(q) /\ pc'[q] = pc[q] /\ job'[q] = job[q]
    BY <1>2 DEF Jobs
  <2> QED BY <2>1, ReliesKept
<1> QED BY <1>1, <1>2

\* A request that is over relies on nothing.
LEMMA DoneJobs ==
  ASSUME PipelineInv, NEW p \in Processes, Done(p), Present' = Present, everDone \subseteq everDone'
  PROVE  /\ Jobs'
         /\ pc' \in [Processes -> {"idle", "specification", "execution", "complete",
                                   "readPhase", "unlock", "readOrder", "finish"}]
<1>1. pc \in [Processes -> {"idle", "specification", "execution", "complete",
                            "readPhase", "unlock", "readOrder", "finish"}]
  BY DEF PipelineInv, Rows
<1>2. job \in [Processes -> [step : Steps \cup {None}, status : StepStatuses \cup {None},
                             filled : BOOLEAN \cup {None}]]
  BY DEF PipelineInv, Jobs
<1>3. NoJob \in [step : Steps \cup {None}, status : StepStatuses \cup {None},
                 filled : BOOLEAN \cup {None}]
  BY DEF NoJob, Job
<1>4. job' \in [Processes -> [step : Steps \cup {None}, status : StepStatuses \cup {None},
                              filled : BOOLEAN \cup {None}]]
  BY <1>2, <1>3 DEF Done
<1>5. \A q \in Processes \ {p} : pc'[q] = pc[q] /\ job'[q] = job[q]
  BY <1>1, <1>2 DEF Done
<1>6. pc'[p] = "idle"
  BY <1>1 DEF Done
<1>7. Relies(p)'
  BY <1>6 DEF Relies
<1>8. Jobs'
  BY <1>4, <1>5, <1>7, JobsStep DEF PipelineInv
<1>9. pc' \in [Processes -> {"idle", "specification", "execution", "complete",
                             "readPhase", "unlock", "readOrder", "finish"}]
  BY <1>1 DEF Done
<1> QED BY <1>8, <1>9

\* A request that goes on, with the same job.
LEMMA GotoJobs ==
  ASSUME PipelineInv, NEW p \in Processes,
         NEW label \in {"readPhase", "unlock", "readOrder", "finish"}, Goto(p, label),
         UNCHANGED job, Present' = Present, everDone \subseteq everDone', pc[p] # "idle",
         label = "unlock" =>
           /\ Template[job[p].step].phase # "despacho"
           /\ InPhase(Group(Template[job[p].step].phase)) \cap Present \subseteq everDone,
         label = "finish" => Present \subseteq everDone
  PROVE  /\ Jobs'
         /\ pc' \in [Processes -> {"idle", "specification", "execution", "complete",
                                   "readPhase", "unlock", "readOrder", "finish"}]
<1>1. pc \in [Processes -> {"idle", "specification", "execution", "complete",
                            "readPhase", "unlock", "readOrder", "finish"}]
  BY DEF PipelineInv, Rows
<1>2. /\ \A q \in Processes \ {p} : pc'[q] = pc[q] /\ job'[q] = job[q]
      /\ pc'[p] = label /\ job'[p] = job[p]
  BY <1>1 DEF Goto
<1>3. Relies(p)
  BY DEF PipelineInv, Jobs
<1>4. job[p].step \in Present'
  BY <1>3 DEF Relies
<1>5. Relies(p)'
  BY <1>2, <1>4 DEF Relies, InPhase, Group
<1>6. Jobs'
  BY <1>2, <1>5, JobsStep DEF PipelineInv, Jobs
<1>7. pc' \in [Processes -> {"idle", "specification", "execution", "complete",
                             "readPhase", "unlock", "readOrder", "finish"}]
  BY <1>1 DEF Goto
<1> QED BY <1>6, <1>7

-----------------------------------------------------------------------------
(* One lemma for each action.                                               *)

\* Beginning an operation keeps the pipeline.
LEMMA BeginKeeps ==
  ASSUME PipelineInv, NEW p \in Processes, NEW s \in Present,
         NEW label \in {"specification", "execution", "complete"},
         NEW task \in [step : Steps \cup {None}, status : StepStatuses \cup {None},
                       filled : BOOLEAN \cup {None}],
         Begin(p, label, task), task.step = s,
         label = "specification" => task.filled \in BOOLEAN,
         label = "execution" => task.status = "IN_PROGRESS" /\ Open(s),
         label = "complete" => Open(s) /\ OneBefore(s, everDone)
  PROVE  PipelineInv'
<1>1. /\ pc \in [Processes -> {"idle", "specification", "execution", "complete",
                               "readPhase", "unlock", "readOrder", "finish"}]
      /\ job \in [Processes -> [step : Steps \cup {None}, status : StepStatuses \cup {None},
                                filled : BOOLEAN \cup {None}]]
      /\ template \subseteq Steps
  BY DEF PipelineInv, Rows, Jobs
<1>2. UNCHANGED orderVars /\ template' \subseteq Steps
  BY <1>1 DEF Begin, vars
<1>3. Present' = Present /\ Unborn' /\ CompletedWasDone' /\ OpenHasGate'
  BY <1>2, OrderAlone
<1>4. pc'[p] = label /\ job'[p] = task /\ everDone' = everDone
  BY <1>1, <1>2 DEF Begin, orderVars
<1>5. \A q \in Processes \ {p} : pc'[q] = pc[q] /\ job'[q] = job[q]
  BY <1>1 DEF Begin
<1>6. Relies(p)'
  BY <1>3, <1>4 DEF Relies, Open, Gate, InPhase, Previous, OneBefore
<1>7. job' \in [Processes -> [step : Steps \cup {None}, status : StepStatuses \cup {None},
                              filled : BOOLEAN \cup {None}]]
  BY <1>1 DEF Begin
<1>8. Jobs'
  BY <1>3, <1>4, <1>5, <1>6, <1>7, JobsStep DEF PipelineInv
<1>9. Rows'
  BY <1>2 DEF PipelineInv, Rows, Begin, orderVars
<1> QED BY <1>3, <1>8, <1>9 DEF PipelineInv

\* The operations begin.
LEMMA StartKeeps ==
  ASSUME PipelineInv, NEW p \in Processes, Start(p)
  PROVE  PipelineInv' /\ UNCHANGED <<Present, everDone, status>>
<1>1. /\ Present \subseteq Steps
      /\ \A s \in Present : steps[s] \in Row
  BY RowsKnown DEF PipelineInv, Rows
<1>2. CASE StartSpecification(p)
  <2>1. PICK s \in Present : Begin(p, "specification", Job(s, None, steps[s].filled))
    BY <1>2 DEF StartSpecification
  <2>2. steps[s].filled \in BOOLEAN
    BY <1>1 DEF Row
  <2>3. /\ Job(s, None, steps[s].filled) \in
             [step : Steps \cup {None}, status : StepStatuses \cup {None},
              filled : BOOLEAN \cup {None}]
        /\ Job(s, None, steps[s].filled).step = s
        /\ Job(s, None, steps[s].filled).filled \in BOOLEAN
    BY <1>1, <2>2 DEF Job
  <2>4. PipelineInv'
    BY <2>1, <2>3, BeginKeeps
  <2> QED BY <2>1, <2>4 DEF Begin, orderVars, Present
<1>3. CASE StartExecution(p)
  <2>1. PICK s \in Present :
          /\ steps[s].status \notin {"COMPLETED", "BLOCKED"}
          /\ Begin(p, "execution", Job(s, Started(steps[s].status), None))
    BY <1>3 DEF StartExecution
  <2>2. Started(steps[s].status) = "IN_PROGRESS"
    BY <1>1, <2>1 DEF Row, StepStatuses, Started
  <2>3. /\ Job(s, Started(steps[s].status), None) \in
             [step : Steps \cup {None}, status : StepStatuses \cup {None},
              filled : BOOLEAN \cup {None}]
        /\ Job(s, Started(steps[s].status), None).step = s
        /\ Job(s, Started(steps[s].status), None).status = "IN_PROGRESS"
    BY <1>1, <2>2 DEF Job, StepStatuses
  <2>4. Open(s)
    BY <2>1 DEF PipelineInv, OpenHasGate, Open
  <2>5. PipelineInv'
    BY <2>1, <2>3, <2>4, BeginKeeps
  <2> QED BY <2>1, <2>5 DEF Begin, orderVars, Present
<1>4. CASE StartComplete(p)
  <2>1. PICK s \in Present :
          /\ steps[s].status \notin {"COMPLETED", "BLOCKED"}
          /\ OneBefore(s, Completed)
          /\ Begin(p, "complete", Job(s, None, None))
    BY <1>4 DEF StartComplete
  <2>2. /\ Job(s, None, None) \in
             [step : Steps \cup {None}, status : StepStatuses \cup {None},
              filled : BOOLEAN \cup {None}]
        /\ Job(s, None, None).step = s
    BY <1>1 DEF Job
  <2>3. Open(s)
    BY <2>1 DEF PipelineInv, OpenHasGate, Open
  <2>4. OneBefore(s, everDone)
    BY <2>1 DEF PipelineInv, CompletedWasDone, OneBefore, Completed
  <2>5. PipelineInv'
    BY <2>1, <2>2, <2>3, <2>4, BeginKeeps
  <2> QED BY <2>1, <2>5 DEF Begin, orderVars, Present
<1> QED BY <1>2, <1>3, <1>4 DEF Start

\* The template changes, and no order with it.
LEMMA TemplateKeeps ==
  ASSUME PipelineInv, DeleteComponents \/ CreateComponentStep
  PROVE  PipelineInv' /\ UNCHANGED <<Present, everDone, status>>
<1>1. UNCHANGED <<orderVars, pc, job>> /\ template' \subseteq Steps
  BY DEF DeleteComponents, CreateComponentStep, PipelineInv, Rows
<1>2. Present' = Present /\ Unborn' /\ CompletedWasDone' /\ OpenHasGate'
  BY <1>1, OrderAlone
<1>3. Rows'
  BY <1>1 DEF PipelineInv, Rows, orderVars
<1>4. \A p \in Processes : Relies(p)'
  BY <1>1, <1>2, ReliesKept DEF PipelineInv, Jobs, orderVars
<1>5. Jobs'
  BY <1>1, <1>4 DEF PipelineInv, Jobs
<1> QED BY <1>1, <1>2, <1>3, <1>5 DEF PipelineInv, orderVars

\* create: the order and the steps of its template.
LEMMA CreateKeeps ==
  ASSUME PipelineInv, Create
  PROVE  /\ PipelineInv'
         /\ Present = {} /\ Present' \subseteq Steps /\ everDone' = everDone
         /\ status = None /\ status' = "IN_PROGRESS"
<1>1. /\ Present = {} /\ everDone = {}
      /\ status = None /\ status' = "IN_PROGRESS"
      /\ everDone' = everDone /\ template' = template /\ pc' = pc /\ job' = job
  BY DEF PipelineInv, Unborn, Create
<1>2. \A p \in Processes : pc[p] = "idle"
  BY <1>1 DEF PipelineInv, Jobs, Relies
<1>3. \A s \in Steps : Fresh(s) \in Row
  BY DEF Fresh, Row, StepStatuses
<1>4. steps' = [s \in Steps |-> IF s \in template THEN Fresh(s) ELSE None]
  BY DEF Create
<1>5. steps' \in [Steps -> Row \cup {None}]
  BY <1>3, <1>4
<1>6. Rows'
  BY <1>1, <1>5 DEF PipelineInv, Rows
<1>7. \A s \in Present' : steps'[s] = Fresh(s) /\ s \in Steps
  BY <1>4 DEF Present
<1>8. CompletedWasDone'
  <2> SUFFICES ASSUME NEW s \in Present' PROVE steps'[s].status # "COMPLETED"
      BY DEF CompletedWasDone
  <2>1. steps'[s] = Fresh(s)
    BY <1>7
  <2>2. Fresh(s).status # "COMPLETED"
    BY DEF Fresh
  <2> QED BY <2>1, <2>2
<1>9. OpenHasGate'
  <2> SUFFICES ASSUME NEW s \in Present', steps'[s].status # "BLOCKED" PROVE Gate(s) = {}
      BY DEF OpenHasGate, Gate, InPhase
  <2>1. steps'[s] = Fresh(s)
    BY <1>7
  <2>2. Fresh(s).status # "BLOCKED" => Gate(s) = {}
    BY DEF Fresh, Gate, Parallel
  <2> QED BY <2>1, <2>2
<1>10. \A p \in Processes : Relies(p)'
  BY <1>1, <1>2 DEF Relies
<1>11. Jobs'
  BY <1>1, <1>10 DEF PipelineInv, Jobs
<1>12. Unborn'
  BY <1>1, ProductionAssumption DEF Unborn
<1> QED BY <1>1, <1>6, <1>7, <1>8, <1>9, <1>11, <1>12 DEF PipelineInv

\* A write to the row of one step that exists, when whatever it leaves open has
\* its gate behind it and whatever it completes is remembered.
LEMMA WriteStep ==
  ASSUME PipelineInv, NEW s \in Present, NEW row \in Row,
         steps' = [steps EXCEPT ![s] = row],
         everDone \subseteq everDone', everDone' \subseteq everDone \cup {s},
         row.status = "COMPLETED" => s \in everDone',
         row.status # "BLOCKED" => Open(s),
         status' = status
  PROVE  /\ Present' = Present /\ Unborn' /\ CompletedWasDone' /\ OpenHasGate'
         /\ steps' \in [Steps -> Row \cup {None}] /\ everDone' \subseteq Steps
<1>1. steps \in [Steps -> Row \cup {None}] /\ everDone \subseteq Steps
  BY DEF PipelineInv, Rows
<1>2. /\ Present \subseteq Steps
      /\ \A t \in Present : steps[t] \in Row
  BY <1>1, RowsKnown
<1>3. steps'[s] = row /\ \A t \in Steps \ {s} : steps'[t] = steps[t]
  BY <1>1, <1>2
<1>4. row # None
  BY ProductionAssumption
<1>5. Present' = Present
  BY <1>2, <1>3, <1>4 DEF Present
<1>6. steps' \in [Steps -> Row \cup {None}] /\ everDone' \subseteq Steps
  BY <1>1, <1>2
<1>7. CompletedWasDone'
  BY <1>2, <1>3, <1>5 DEF PipelineInv, CompletedWasDone
<1>8. OpenHasGate'
  <2> SUFFICES ASSUME NEW t \in Present, steps'[t].status # "BLOCKED"
               PROVE  Gate(t) \cap Present \subseteq everDone'
      BY <1>5 DEF OpenHasGate, Gate, InPhase
  <2>1. CASE t = s
    BY <2>1, <1>3 DEF Open
  <2>2. CASE t # s
    BY <2>2, <1>2, <1>3 DEF PipelineInv, OpenHasGate
  <2> QED BY <2>1, <2>2
<1>9. Unborn'
  BY DEF PipelineInv, Unborn
<1> QED BY <1>5, <1>6, <1>7, <1>8, <1>9

\* updateStepSpecification.
LEMMA UpdateSpecificationKeeps ==
  ASSUME PipelineInv, NEW p \in Processes, UpdateSpecification(p)
  PROVE  PipelineInv' /\ UNCHANGED <<Present, everDone, status>>
<1>1. Relies(p)
  BY DEF PipelineInv, Jobs
<1>2. job[p].step \in Present /\ job[p].filled \in BOOLEAN
  BY <1>1 DEF Relies, UpdateSpecification
<1>3. steps[job[p].step] \in Row
  BY <1>2, RowsKnown DEF PipelineInv, Rows
<1> DEFINE s == job[p].step
           row == [status |-> steps[s].status, filled |-> job[p].filled]
<1>4. row \in Row /\ row.status = steps[s].status
  BY <1>2, <1>3 DEF Row
<1>5. steps' = [steps EXCEPT ![s] = row]
  BY DEF UpdateSpecification
<1>6. /\ row.status = "COMPLETED" => s \in everDone
      /\ row.status # "BLOCKED" => Open(s)
  BY <1>2, <1>4 DEF PipelineInv, CompletedWasDone, OpenHasGate, Open
<1>7. everDone' = everDone /\ status' = status /\ template' = template /\ Done(p)
  BY DEF UpdateSpecification
<1> HIDE DEF row, s
<1>8. s \in Present
  BY <1>2 DEF s
<1>9. /\ Present' = Present /\ Unborn' /\ CompletedWasDone' /\ OpenHasGate'
      /\ steps' \in [Steps -> Row \cup {None}] /\ everDone' \subseteq Steps
  BY <1>4, <1>5, <1>6, <1>7, <1>8, WriteStep
<1>10. Jobs' /\ pc' \in [Processes -> {"idle", "specification", "execution", "complete",
                                       "readPhase", "unlock", "readOrder", "finish"}]
  BY <1>7, <1>9, DoneJobs
<1>11. Rows'
  BY <1>7, <1>9, <1>10 DEF PipelineInv, Rows
<1> QED BY <1>7, <1>9, <1>10, <1>11 DEF PipelineInv

\* updateStepExecution.
LEMMA UpdateExecutionKeeps ==
  ASSUME PipelineInv, NEW p \in Processes, UpdateExecution(p)
  PROVE  PipelineInv' /\ UNCHANGED <<Present, everDone, status>>
<1>1. Relies(p)
  BY DEF PipelineInv, Jobs
<1>2. job[p].step \in Present /\ job[p].status = "IN_PROGRESS" /\ Open(job[p].step)
  BY <1>1 DEF Relies, UpdateExecution
<1>3. PICK filled \in BOOLEAN :
        steps' = [steps EXCEPT ![job[p].step] = [status |-> job[p].status, filled |-> filled]]
  BY DEF UpdateExecution
<1> DEFINE s == job[p].step
           row == [status |-> job[p].status, filled |-> filled]
<1>4. row \in Row /\ row.status = "IN_PROGRESS"
  BY <1>2 DEF Row, StepStatuses
<1>5. steps' = [steps EXCEPT ![s] = row]
  BY <1>3
<1>6. everDone' = everDone /\ status' = status /\ template' = template /\ Done(p)
  BY DEF UpdateExecution
<1> HIDE DEF row, s
<1>7. s \in Present /\ Open(s)
  BY <1>2 DEF s
<1>8. /\ Present' = Present /\ Unborn' /\ CompletedWasDone' /\ OpenHasGate'
      /\ steps' \in [Steps -> Row \cup {None}] /\ everDone' \subseteq Steps
  BY <1>4, <1>5, <1>6, <1>7, WriteStep
<1>9. Jobs' /\ pc' \in [Processes -> {"idle", "specification", "execution", "complete",
                                      "readPhase", "unlock", "readOrder", "finish"}]
  BY <1>6, <1>8, DoneJobs
<1>10. Rows'
  BY <1>6, <1>8, <1>9 DEF PipelineInv, Rows
<1> QED BY <1>6, <1>8, <1>9, <1>10 DEF PipelineInv

\* completeStep writes the step.
LEMMA CompleteStepKeeps ==
  ASSUME PipelineInv, NEW p \in Processes, CompleteStep(p)
  PROVE  /\ PipelineInv'
         /\ Present' = Present /\ status' = status
         /\ job[p].step \in Present /\ everDone' = everDone \cup {job[p].step}
         /\ Gate(job[p].step) \cap Present \subseteq everDone
         /\ OneBefore(job[p].step, everDone)
<1>1. Relies(p)
  BY DEF PipelineInv, Jobs
<1>2. /\ job[p].step \in Present /\ Open(job[p].step)
      /\ OneBefore(job[p].step, everDone)
  BY <1>1 DEF Relies, CompleteStep
<1>3. steps[job[p].step] \in Row
  BY <1>2, RowsKnown DEF PipelineInv, Rows
<1> DEFINE s == job[p].step
           row == [status |-> "COMPLETED", filled |-> steps[s].filled]
<1>4. row \in Row
  BY <1>3 DEF Row, StepStatuses
<1>5. /\ steps' = [steps EXCEPT ![s] = row] /\ everDone' = everDone \cup {s}
      /\ status' = status /\ template' = template /\ job' = job
      /\ pc[p] # "idle" /\ Goto(p, "readPhase")
  BY DEF CompleteStep
<1> HIDE DEF row, s
<1>6. s \in Present /\ Open(s)
  BY <1>2 DEF s
<1>7. /\ Present' = Present /\ Unborn' /\ CompletedWasDone' /\ OpenHasGate'
      /\ steps' \in [Steps -> Row \cup {None}] /\ everDone' \subseteq Steps
  BY <1>4, <1>5, <1>6, WriteStep
<1>8. Jobs' /\ pc' \in [Processes -> {"idle", "specification", "execution", "complete",
                                      "readPhase", "unlock", "readOrder", "finish"}]
  BY <1>5, <1>7, GotoJobs
<1>9. Rows'
  BY <1>5, <1>7, <1>8 DEF PipelineInv, Rows
<1>10. PipelineInv'
  BY <1>7, <1>8, <1>9 DEF PipelineInv
<1> QED BY <1>2, <1>5, <1>7, <1>10 DEF Open, s

\* completeStep reads the steps of the phase.
LEMMA ReadPhaseKeeps ==
  ASSUME PipelineInv, NEW p \in Processes, ReadPhase(p)
  PROVE  PipelineInv' /\ UNCHANGED <<Present, everDone, status>>
<1> DEFINE phase == Template[job[p].step].phase
           label == IF phase # "despacho" /\ AllDone(InPhase(Group(phase)))
                      THEN "unlock" ELSE "readOrder"
<1>1. Goto(p, label) /\ UNCHANGED <<template, orderVars, job>> /\ pc[p] # "idle"
  BY DEF ReadPhase
<1>2. template' \subseteq Steps
  BY <1>1 DEF PipelineInv, Rows
<1>3. Present' = Present /\ Unborn' /\ CompletedWasDone' /\ OpenHasGate'
  BY <1>1, <1>2, OrderAlone
<1>4. label = "unlock" => /\ phase # "despacho"
                          /\ InPhase(Group(phase)) \cap Present \subseteq everDone
  BY AllDoneIsDone DEF PipelineInv
<1>5. label \in {"readPhase", "unlock", "readOrder", "finish"} /\ label # "finish"
  OBVIOUS
<1>6. everDone \subseteq everDone'
  BY <1>1 DEF orderVars
<1>7. Jobs' /\ pc' \in [Processes -> {"idle", "specification", "execution", "complete",
                                      "readPhase", "unlock", "readOrder", "finish"}]
  <2> HIDE DEF label
  <2> QED BY <1>1, <1>3, <1>4, <1>5, <1>6, GotoJobs
<1>8. Rows'
  BY <1>1, <1>7 DEF PipelineInv, Rows, orderVars
<1> QED BY <1>1, <1>3, <1>7, <1>8 DEF PipelineInv, orderVars

\* completeStep reads the steps of the order.
LEMMA ReadOrderKeeps ==
  ASSUME PipelineInv, NEW p \in Processes, ReadOrder(p)
  PROVE  PipelineInv' /\ UNCHANGED <<Present, everDone, status>>
<1>1. UNCHANGED <<template, orderVars>> /\ pc[p] # "idle"
  BY DEF ReadOrder
<1>2. template' \subseteq Steps /\ everDone \subseteq everDone'
  BY <1>1 DEF PipelineInv, Rows, orderVars
<1>3. Present' = Present /\ Unborn' /\ CompletedWasDone' /\ OpenHasGate'
  BY <1>1, <1>2, OrderAlone
<1>4. Jobs' /\ pc' \in [Processes -> {"idle", "specification", "execution", "complete",
                                      "readPhase", "unlock", "readOrder", "finish"}]
  <2>1. CASE AllDone(Steps)
    <3>1. Goto(p, "finish") /\ UNCHANGED job
      BY <2>1 DEF ReadOrder
    <3>2. Present \subseteq everDone
      BY <2>1, AllDoneIsDone DEF PipelineInv, Present
    <3> QED BY <1>1, <1>2, <1>3, <3>1, <3>2, GotoJobs
  <2>2. CASE ~AllDone(Steps)
    <3>1. Done(p)
      BY <2>2 DEF ReadOrder
    <3> QED BY <1>2, <1>3, <3>1, DoneJobs
  <2> QED BY <2>1, <2>2
<1>5. Rows'
  BY <1>1, <1>4 DEF PipelineInv, Rows, orderVars
<1> QED BY <1>1, <1>3, <1>4, <1>5 DEF PipelineInv, orderVars

\* A phase is opened by a request that saw everything before it done.
LEMMA UnlockPhaseKeeps ==
  ASSUME PipelineInv, NEW p \in Processes, UnlockPhase(p)
  PROVE  PipelineInv' /\ UNCHANGED <<Present, everDone, status>>
<1> DEFINE phase == Template[job[p].step].phase
           opened == InPhase({NextPhase(phase)})
<1>1. /\ steps' = [s \in Steps |->
                     IF s \in opened \cap Present /\ steps[s].status = "BLOCKED"
                       THEN [status |-> "PENDING", filled |-> steps[s].filled] ELSE steps[s]]
      /\ Goto(p, "readOrder") /\ UNCHANGED <<template, status, job, everDone>> /\ pc[p] # "idle"
  BY DEF UnlockPhase
<1>2. Relies(p)
  BY DEF PipelineInv, Jobs
<1>3. /\ job[p].step \in Present /\ phase # "despacho"
      /\ InPhase(Group(phase)) \cap Present \subseteq everDone
  BY <1>2 DEF Relies, UnlockPhase
<1>4. steps \in [Steps -> Row \cup {None}] /\ Present \subseteq Steps
      /\ \A s \in Present : steps[s] \in Row
  BY RowsKnown DEF PipelineInv, Rows
<1>5. phase \in Phases
  BY <1>3, <1>4, ProductionAssumption
<1>6. \A s \in opened : Gate(s) = InPhase(Group(phase))
  BY <1>3, <1>5 DEF InPhase, NextPhase, Group, Gate, Parallel, Phases
<1> HIDE DEF opened
<1>7. \A s \in Present : [status |-> "PENDING", filled |-> steps[s].filled] \in Row
  BY <1>4 DEF Row, StepStatuses
<1>8. steps' \in [Steps -> Row \cup {None}]
  BY <1>1, <1>4, <1>7
<1>9. Present' = Present
  BY <1>1, <1>4, <1>7, ProductionAssumption DEF Present
<1>10. \A s \in Present : /\ steps'[s].status = "COMPLETED" => steps[s].status = "COMPLETED"
                          /\ steps'[s].status # "BLOCKED" => \/ steps[s].status # "BLOCKED"
                                                             \/ s \in opened
  BY <1>1, <1>4
<1>11. CompletedWasDone'
  BY <1>1, <1>9, <1>10 DEF PipelineInv, CompletedWasDone
<1>12. OpenHasGate'
  <2> SUFFICES ASSUME NEW s \in Present, steps'[s].status # "BLOCKED"
               PROVE  Gate(s) \cap Present \subseteq everDone
      BY <1>1, <1>9 DEF OpenHasGate, Gate, InPhase
  <2>1. CASE s \in opened
    BY <2>1, <1>3, <1>6
  <2>2. CASE s \notin opened
    BY <2>2, <1>10 DEF PipelineInv, OpenHasGate
  <2> QED BY <2>1, <2>2
<1>13. Unborn'
  BY <1>1, <1>9 DEF PipelineInv, Unborn
<1>14. Jobs' /\ pc' \in [Processes -> {"idle", "specification", "execution", "complete",
                                       "readPhase", "unlock", "readOrder", "finish"}]
  BY <1>1, <1>9, GotoJobs
<1>15. Rows'
  BY <1>1, <1>8, <1>14 DEF PipelineInv, Rows
<1> QED BY <1>1, <1>9, <1>11, <1>12, <1>13, <1>14, <1>15 DEF PipelineInv

\* completeStep writes the status of the order.
LEMMA FinishKeeps ==
  ASSUME PipelineInv, NEW p \in Processes, Finish(p)
  PROVE  /\ PipelineInv' /\ UNCHANGED <<Present, everDone>> /\ status' = "COMPLETED"
         /\ Present # {} /\ Present \subseteq everDone
<1>1. Relies(p)
  BY DEF PipelineInv, Jobs
<1>2. Present # {} /\ Present \subseteq everDone
  BY <1>1 DEF Relies, Finish
<1>3. status' = "COMPLETED" /\ Done(p) /\ UNCHANGED <<template, steps, everDone>>
  BY DEF Finish
<1>4. Present' = Present
  BY <1>3 DEF Present
<1>5. CompletedWasDone' /\ OpenHasGate'
  BY <1>3, <1>4 DEF PipelineInv, CompletedWasDone, OpenHasGate, Gate, InPhase
<1>6. Unborn'
  BY <1>3, ProductionAssumption DEF Unborn
<1>7. Jobs' /\ pc' \in [Processes -> {"idle", "specification", "execution", "complete",
                                      "readPhase", "unlock", "readOrder", "finish"}]
  BY <1>3, <1>4, DoneJobs
<1>8. Rows'
  BY <1>3, <1>7 DEF PipelineInv, Rows
<1> QED BY <1>2, <1>3, <1>4, <1>5, <1>6, <1>7, <1>8 DEF PipelineInv

\* A process dies between two statements.
LEMMA CrashKeeps ==
  ASSUME PipelineInv, NEW p \in Processes, Crash(p)
  PROVE  PipelineInv' /\ UNCHANGED <<Present, everDone, status>>
<1>1. Done(p) /\ UNCHANGED <<template, orderVars>>
  BY DEF Crash
<1>2. template' \subseteq Steps /\ everDone \subseteq everDone'
  BY <1>1 DEF PipelineInv, Rows, orderVars
<1>3. Present' = Present /\ Unborn' /\ CompletedWasDone' /\ OpenHasGate'
  BY <1>1, <1>2, OrderAlone
<1>4. Jobs' /\ pc' \in [Processes -> {"idle", "specification", "execution", "complete",
                                      "readPhase", "unlock", "readOrder", "finish"}]
  BY <1>1, <1>2, <1>3, DoneJobs
<1>5. Rows'
  BY <1>1, <1>4 DEF PipelineInv, Rows, orderVars
<1> QED BY <1>1, <1>3, <1>4, <1>5 DEF PipelineInv, orderVars

\* Nothing happens.
LEMMA StutterKeeps ==
  ASSUME PipelineInv, UNCHANGED vars
  PROVE  PipelineInv' /\ UNCHANGED <<Present, everDone, status>>
<1>1. UNCHANGED <<template, status, steps, everDone, pc, job>>
  BY DEF vars, orderVars
<1>2. Present' = Present /\ Unborn' /\ CompletedWasDone' /\ OpenHasGate'
  BY <1>1, OrderAlone DEF orderVars, PipelineInv, Rows
<1>3. Rows'
  BY <1>1 DEF PipelineInv, Rows
<1>4. \A p \in Processes : Relies(p)'
  BY <1>1, <1>2, ReliesKept DEF PipelineInv, Jobs
<1>5. Jobs'
  BY <1>1, <1>4 DEF PipelineInv, Jobs
<1> QED BY <1>1, <1>2, <1>3, <1>5 DEF PipelineInv
-----------------------------------------------------------------------------
(* The theorems.                                                            *)

\* With an order each, the step findFirst looks at is the only one before.
LEMMA OnePrevious ==
  ASSUME OneStepPerOrder, NEW s \in Steps, OneBefore(s, everDone)
  PROVE  Previous(s) \cap Present \subseteq everDone
<1>1. \A t, u \in Previous(s) : t = u
  BY ProductionAssumption DEF OneStepPerOrder, Previous
<1>. QED
  BY <1>1 DEF OneBefore

\* A step of the order keeps the invariant and, of a template whose steps have an order
\* each, is a step of the pipeline.
LEMMA PipelineNext ==
  ASSUME PipelineInv, [Next]_vars
  PROVE  /\ PipelineInv'
         /\ OneStepPerOrder => [Pipeline!Next]_<<Present, everDone, status = "COMPLETED">>
<1>1. CASE \/ DeleteComponents \/ CreateComponentStep \/ UNCHANGED vars
           \/ \E p \in Processes : \/ Start(p) \/ UpdateSpecification(p) \/ UpdateExecution(p)
                                   \/ ReadPhase(p) \/ UnlockPhase(p) \/ ReadOrder(p) \/ Crash(p)
  <2>1. PipelineInv' /\ UNCHANGED <<Present, everDone, status>>
    BY <1>1, TemplateKeeps, StutterKeeps, StartKeeps, UpdateSpecificationKeeps,
       UpdateExecutionKeeps, ReadPhaseKeeps, UnlockPhaseKeeps, ReadOrderKeeps, CrashKeeps
  <2> QED BY <2>1
<1>2. CASE Create
  <2>1. /\ PipelineInv' /\ Present = {} /\ Present' \subseteq Steps /\ everDone' = everDone
        /\ status = None /\ status' = "IN_PROGRESS"
    BY <1>2, CreateKeeps
  <2>2. (status = "COMPLETED") = FALSE /\ (status' = "COMPLETED") = FALSE
    BY <2>1, ProductionAssumption
  <2>3. Pipeline!Create
    BY <2>1, <2>2 DEF Pipeline!Create
  <2> QED BY <2>1, <2>3 DEF Pipeline!Next
<1>3. ASSUME NEW p \in Processes, CompleteStep(p)
      PROVE  PipelineInv' /\ (OneStepPerOrder => Pipeline!Next)
  <2>1. /\ PipelineInv' /\ Present' = Present /\ status' = status
        /\ job[p].step \in Present /\ everDone' = everDone \cup {job[p].step}
        /\ Gate(job[p].step) \cap Present \subseteq everDone
        /\ OneBefore(job[p].step, everDone)
    BY <1>3, CompleteStepKeeps
  <2>2. job[p].step \in Steps
    BY <2>1 DEF Present
  <2>3. OneStepPerOrder => Pipeline!Do(job[p].step)
    <3>1. OneStepPerOrder => Previous(job[p].step) \cap Present \subseteq everDone
      BY <2>1, <2>2, OnePrevious
    <3>. QED
      BY <2>1, <2>2, <3>1 DEF Pipeline!Do
  <2> QED BY <2>1, <2>2, <2>3 DEF Pipeline!Next
<1>4. ASSUME NEW p \in Processes, Finish(p)
      PROVE  PipelineInv' /\ Pipeline!Next
  <2>1. /\ PipelineInv' /\ UNCHANGED <<Present, everDone>> /\ status' = "COMPLETED"
        /\ Present # {} /\ Present \subseteq everDone
    BY <1>4, FinishKeeps
  <2>2. Pipeline!Finish
    BY <2>1 DEF Pipeline!Finish
  <2> QED BY <2>1, <2>2 DEF Pipeline!Next
<1> QED BY <1>1, <1>2, <1>3, <1>4 DEF Next, Step

\* The invariant holds in every state of the order.
THEOREM PipelineInvariant == Spec => []PipelineInv
<1>1. PipelineInv /\ [Next]_vars => PipelineInv'
  BY PipelineNext
<1> QED BY <1>1, PipelineInit, PTL DEF Spec

\* A step that nothing blocks has all it waits for behind it, whatever the
\* requests interleave or lose (updateExecution, completeStep, tryUnlockNextPhase).
THEOREM OpenStepsHaveTheirGate == Spec => []OpenHasGate
<1>1. PipelineInv => OpenHasGate
  BY DEF PipelineInv
<1> QED BY <1>1, PipelineInvariant, PTL

\* Production orders implement the pipeline: no step is done before the work
\* that comes before it, and the order ends only when all was done.  Of a template
\* with two steps of one order in a component, completeStep looks at one of them.
THEOREM ImplementsPipeline ==
  ASSUME OneStepPerOrder
  PROVE  Spec => FollowsPipeline
<1>1. Init => Pipeline!Init
  <2> SUFFICES ASSUME Init PROVE Pipeline!Init
      OBVIOUS
  <2>1. Present = {} /\ everDone = {}
    BY DEF Init, Present
  <2>2. (status = "COMPLETED") = FALSE
    BY ProductionAssumption DEF Init
  <2> QED BY <2>1, <2>2 DEF Pipeline!Init
<1>2. PipelineInv /\ [Next]_vars => [Pipeline!Next]_<<Present, everDone, status = "COMPLETED">>
  BY PipelineNext
<1> QED BY <1>1, <1>2, PipelineInvariant, PTL DEF Spec, FollowsPipeline, Pipeline!Spec
-----------------------------------------------------------------------------
(* Nothing is forgotten while no request dies: whatever is done and not yet *)
(* followed up has a request about to do it.                                *)

\* A step of a request that is not following up a completion, and completes nothing,
\* leaves every other at its place.
LEMMA ProgressAside ==
  ASSUME PipelineInv, ProgressInv, NEW p \in Processes,
         pc[p] \notin {"readPhase", "unlock", "readOrder", "finish"},
         \A q \in Processes \ {p} : pc'[q] = pc[q] /\ job'[q] = job[q],
         Present' = Present, UNCHANGED <<status, crashes>>,
         \A s \in Present : /\ steps'[s].status = "COMPLETED" => steps[s].status = "COMPLETED"
                            /\ steps'[s].status = "BLOCKED" => steps[s].status = "BLOCKED"
  PROVE  ProgressInv'
<1>1. ASSUME NEW S, AllDone(S)'
      PROVE  AllDone(S)
  BY <1>1 DEF AllDone
<1>2. \A s \in Present : Template[s].phase \in Parallel => steps'[s].status # "BLOCKED"
  BY DEF ProgressInv
<1>3. ASSUME crashes = 0, NEW s \in Present,
             Gate(s) # {}, Gate(s) \subseteq Present, AllDone(Gate(s)), steps[s].status = "BLOCKED"
      PROVE  \E q \in Processes : pc'[q] \in {"readPhase", "unlock"} /\ job'[q].step \in Gate(s)
  <2>1. PICK q \in Processes : pc[q] \in {"readPhase", "unlock"} /\ job[q].step \in Gate(s)
    BY <1>3 DEF ProgressInv, Opening
  <2>. QED
    BY <2>1
<1>4. ASSUME crashes = 0, Present # {}, AllDone(Steps), status # "COMPLETED"
      PROVE  \E q \in Processes : pc'[q] \in {"readPhase", "unlock", "readOrder", "finish"}
  <2>1. PICK q \in Processes : pc[q] \in {"readPhase", "unlock", "readOrder", "finish"}
    BY <1>4 DEF ProgressInv, Ending
  <2>. QED
    BY <2>1
<1>5. ASSUME NEW s \in Present, crashes = 0, Gate(s) # {}, Gate(s) \subseteq Present,
             AllDone(Gate(s))', steps'[s].status = "BLOCKED"
      PROVE  Opening(s)'
  BY <1>1, <1>3, <1>5 DEF Opening, Gate, InPhase
<1>6. ASSUME crashes = 0, Present # {}, AllDone(Steps)'
      PROVE  status = "COMPLETED" \/ Ending'
  BY <1>1, <1>4, <1>6 DEF Ending
<1>. QED
  BY <1>2, <1>5, <1>6 DEF ProgressInv, Gate, InPhase

\* The request that completes a step is the one that will look at what it opens.
LEMMA ProgressCompletes ==
  ASSUME PipelineInv, ProgressInv, NEW p \in Processes, CompleteStep(p), Present' = Present
  PROVE  ProgressInv'
<1> DEFINE c == job[p].step
<1>1. /\ steps' = [steps EXCEPT ![c] = [status |-> "COMPLETED", filled |-> steps[c].filled]]
      /\ Goto(p, "readPhase") /\ UNCHANGED <<job, status, crashes>> /\ pc[p] = "complete"
  BY DEF CompleteStep
<1>2. c \in Present /\ Present \subseteq Steps /\ steps \in [Steps -> Row \cup {None}]
  BY <1>1, RowsKnown DEF PipelineInv, Rows, Jobs, Relies
<1>3. /\ pc'[p] = "readPhase" /\ job'[p].step = c
      /\ \A q \in Processes \ {p} : pc'[q] = pc[q] /\ job'[q] = job[q]
  BY <1>1 DEF PipelineInv, Rows, Goto
<1>. HIDE DEF c
<1>4. /\ steps'[c].status = "COMPLETED"
      /\ \A s \in Present \ {c} : steps'[s] = steps[s]
  BY <1>1, <1>2
<1>5. \A s \in Present : Template[s].phase \in Parallel => steps'[s].status # "BLOCKED"
  BY <1>4 DEF ProgressInv
<1>6. ASSUME NEW s \in Present, crashes = 0, Gate(s) # {}, Gate(s) \subseteq Present,
             AllDone(Gate(s))', steps'[s].status = "BLOCKED"
      PROVE  \E q \in Processes : pc'[q] \in {"readPhase", "unlock"} /\ job'[q].step \in Gate(s)
  <2>1. CASE c \in Gate(s)
    BY <2>1, <1>3
  <2>2. CASE c \notin Gate(s)
    <3>1. steps[s].status = "BLOCKED" /\ AllDone(Gate(s))
      BY <1>4, <1>6, <2>2 DEF AllDone, Gate, InPhase
    <3>2. PICK q \in Processes : pc[q] \in {"readPhase", "unlock"} /\ job[q].step \in Gate(s)
      BY <1>6, <3>1 DEF ProgressInv, Opening
    <3>. QED
      BY <1>1, <1>3, <3>2
  <2>. QED
    BY <2>1, <2>2
<1>7. Ending'
  BY <1>3 DEF Ending
<1>8. \A s \in Present : (/\ crashes = 0 /\ Gate(s) # {} /\ Gate(s) \subseteq Present
                          /\ AllDone(Gate(s))' /\ steps'[s].status = "BLOCKED") => Opening(s)'
  BY <1>6 DEF Opening, Gate, InPhase
<1>. QED
  BY <1>1, <1>5, <1>7, <1>8 DEF ProgressInv, Gate, InPhase

\* What a gate is made of, for those who look at it.
LEMMA GateIsGroup ==
  ASSUME NEW s \in Steps, NEW c \in Gate(s)
  PROVE  /\ c \in Steps /\ Template[c].phase # "despacho"
         /\ Gate(s) = InPhase(Group(Template[c].phase))
         /\ Template[s].phase = NextPhase(Template[c].phase)
<1>1. CASE Template[s].phase = "armado"
  BY <1>1 DEF Gate, InPhase, Group, Parallel, NextPhase
<1>2. CASE Template[s].phase = "despacho"
  BY <1>2 DEF Gate, InPhase, Group, Parallel, NextPhase
<1>3. CASE Template[s].phase \notin {"armado", "despacho"}
  BY <1>3 DEF Gate
<1>. QED
  BY <1>1, <1>2, <1>3

\* The request that finds a phase done is about to open the next one, and one that
\* does not leaves it to who will complete what is missing.
LEMMA ProgressReads ==
  ASSUME PipelineInv, ProgressInv, NEW p \in Processes, ReadPhase(p), Present' = Present
  PROVE  ProgressInv'
<1> DEFINE phase == Template[job[p].step].phase
           label == IF phase # "despacho" /\ AllDone(InPhase(Group(phase)))
                      THEN "unlock" ELSE "readOrder"
<1>1. Goto(p, label) /\ UNCHANGED <<steps, status, job, crashes>> /\ pc[p] = "readPhase"
  BY DEF ReadPhase, orderVars
<1>2. /\ pc'[p] = label /\ \A q \in Processes \ {p} : pc'[q] = pc[q]
  BY <1>1 DEF PipelineInv, Rows, Goto
<1>3. label \in {"unlock", "readOrder"}
  OBVIOUS
<1>4. ASSUME NEW s \in Present, crashes = 0, Gate(s) # {}, Gate(s) \subseteq Present,
             AllDone(Gate(s)), steps[s].status = "BLOCKED"
      PROVE  \E q \in Processes : pc'[q] \in {"readPhase", "unlock"} /\ job[q].step \in Gate(s)
  <2>1. PICK q \in Processes : pc[q] \in {"readPhase", "unlock"} /\ job[q].step \in Gate(s)
    BY <1>4 DEF ProgressInv, Opening
  <2>2. CASE q # p
    BY <1>2, <2>1, <2>2
  <2>3. CASE q = p
    <3>1. s \in Steps
      BY DEF Present
    <3>2. phase # "despacho" /\ Gate(s) = InPhase(Group(phase))
      BY <2>1, <2>3, <3>1, GateIsGroup
    <3>3. label = "unlock"
      BY <1>4, <3>2
    <3>. HIDE DEF label
    <3>. QED
      BY <1>2, <2>1, <2>3, <3>3
  <2>. QED
    BY <2>2, <2>3
<1>. HIDE DEF label
<1>5. Ending'
  BY <1>2, <1>3 DEF Ending
<1>6. \A s \in Present : (/\ crashes = 0 /\ Gate(s) # {} /\ Gate(s) \subseteq Present
                          /\ AllDone(Gate(s)) /\ steps[s].status = "BLOCKED") => Opening(s)'
  BY <1>1, <1>4 DEF Opening, Gate, InPhase
<1>. QED
  BY <1>1, <1>5, <1>6 DEF ProgressInv, Gate, InPhase, AllDone

\* The phase is opened.
LEMMA ProgressUnlocks ==
  ASSUME PipelineInv, ProgressInv, NEW p \in Processes, UnlockPhase(p), Present' = Present
  PROVE  ProgressInv'
<1> DEFINE opened == InPhase({NextPhase(Template[job[p].step].phase)})
<1>1. /\ steps' = [s \in Steps |->
                     IF s \in opened \cap Present /\ steps[s].status = "BLOCKED"
                       THEN [status |-> "PENDING", filled |-> steps[s].filled] ELSE steps[s]]
      /\ Goto(p, "readOrder") /\ UNCHANGED <<status, job, crashes>> /\ pc[p] = "unlock"
  BY DEF UnlockPhase
<1>2. /\ pc'[p] = "readOrder" /\ \A q \in Processes \ {p} : pc'[q] = pc[q]
  BY <1>1 DEF PipelineInv, Rows, Goto
<1>3. Present \subseteq Steps
  BY DEF Present
<1>4. ASSUME NEW s \in Present, crashes = 0, Gate(s) # {}, Gate(s) \subseteq Present,
             AllDone(Gate(s)), steps[s].status = "BLOCKED", s \notin opened
      PROVE  \E q \in Processes : pc'[q] \in {"readPhase", "unlock"} /\ job[q].step \in Gate(s)
  <2>1. PICK q \in Processes : pc[q] \in {"readPhase", "unlock"} /\ job[q].step \in Gate(s)
    BY <1>4 DEF ProgressInv, Opening
  <2>2. q # p
    <3>1. SUFFICES ASSUME q = p PROVE s \in opened
      BY <1>4
    <3>2. s \in Steps /\ Template[s].phase = NextPhase(Template[job[p].step].phase)
      BY <1>3, <2>1, <3>1, GateIsGroup
    <3>. QED
      BY <3>2 DEF InPhase
  <2>. QED
    BY <1>2, <2>1, <2>2
<1>. HIDE DEF opened
<1>5. \A s \in Present : /\ steps'[s].status = "COMPLETED" => steps[s].status = "COMPLETED"
                         /\ steps'[s].status = "BLOCKED"
                              => steps[s].status = "BLOCKED" /\ s \notin opened
  BY <1>1, <1>3
<1>6. Ending'
  BY <1>2 DEF Ending
<1>7. ASSUME NEW s \in Present, crashes = 0, Gate(s) # {}, Gate(s) \subseteq Present,
             AllDone(Gate(s))', steps'[s].status = "BLOCKED"
      PROVE  Opening(s)'
  <2>1. AllDone(Gate(s))
    BY <1>5, <1>7 DEF AllDone, Gate, InPhase
  <2>. QED
    BY <1>1, <1>4, <1>5, <1>7, <2>1 DEF Opening, Gate, InPhase
<1>. QED
  BY <1>1, <1>5, <1>6, <1>7 DEF ProgressInv, Gate, InPhase

\* The request that finds everything done ends the order.
LEMMA ProgressEnds ==
  ASSUME PipelineInv, ProgressInv, NEW p \in Processes, ReadOrder(p) \/ Finish(p),
         Present' = Present
  PROVE  ProgressInv'
<1>1. /\ UNCHANGED <<steps, crashes>> /\ pc[p] \in {"readOrder", "finish"}
      /\ status' # status => status' = "COMPLETED"
  BY DEF ReadOrder, Finish, orderVars
<1>2. /\ \A q \in Processes \ {p} : pc'[q] = pc[q] /\ job'[q] = job[q]
      /\ (AllDone(Steps) /\ status' # "COMPLETED") => pc'[p] = "finish"
  BY DEF ReadOrder, Finish, Goto, Done, PipelineInv, Rows, Jobs
<1>3. ASSUME NEW s \in Present, crashes = 0, Gate(s) # {}, Gate(s) \subseteq Present,
             AllDone(Gate(s)), steps[s].status = "BLOCKED"
      PROVE  \E q \in Processes : pc'[q] \in {"readPhase", "unlock"} /\ job'[q].step \in Gate(s)
  <2>1. PICK q \in Processes : pc[q] \in {"readPhase", "unlock"} /\ job[q].step \in Gate(s)
    BY <1>3 DEF ProgressInv, Opening
  <2>. QED
    BY <1>1, <1>2, <2>1
<1>4. ASSUME NEW s \in Present, crashes = 0, Gate(s) # {}, Gate(s) \subseteq Present,
             AllDone(Gate(s)), steps[s].status = "BLOCKED"
      PROVE  Opening(s)'
  BY <1>3, <1>4 DEF Opening, Gate, InPhase
<1>5. AllDone(Steps) => status' = "COMPLETED" \/ Ending'
  BY <1>2 DEF Ending
<1>. QED
  BY <1>1, <1>4, <1>5 DEF ProgressInv, Gate, InPhase, AllDone

\* A new order has everything before it.
LEMMA ProgressCreates ==
  ASSUME PipelineInv, ProgressInv, Create
  PROVE  ProgressInv'
<1>1. steps' = [s \in Steps |-> IF s \in template THEN Fresh(s) ELSE None] /\ crashes' = crashes
  BY DEF Create
<1>2. \A s \in Present' : s \in Steps /\ steps'[s] = Fresh(s)
  BY <1>1 DEF Present
<1>3. \A s \in Present' : /\ steps'[s].status # "COMPLETED"
                          /\ Template[s].phase \in Parallel => steps'[s].status # "BLOCKED"
  <2>1. \A s \in Steps : /\ Fresh(s).status # "COMPLETED"
                         /\ Template[s].phase \in Parallel => Fresh(s).status # "BLOCKED"
    BY DEF Fresh
  <2>. QED
    BY <1>2, <2>1
<1>4. ASSUME NEW S, S \cap Present' # {}
      PROVE  ~AllDone(S)'
  BY <1>3, <1>4 DEF AllDone
<1>5. ASSUME NEW s \in Present', Gate(s) # {}, Gate(s) \subseteq Present'
      PROVE  ~AllDone(Gate(s))'
  <2>1. Gate(s) \cap Present' # {}
    BY <1>5
  <2>. QED
    BY <1>4, <2>1 DEF Gate, InPhase
<1>6. Present' \subseteq Steps
  BY <1>2
<1>7. Present' # {} => ~AllDone(Steps)'
  BY <1>4, <1>6
<1>. QED
  BY <1>1, <1>3, <1>5, <1>7 DEF ProgressInv, Gate, InPhase

\* Every step of the order and of its requests keeps what is to be followed up.
LEMMA ProgressNext ==
  ASSUME PipelineInv, ProgressInv, [Next]_vars
  PROVE  ProgressInv'
<1>1. CASE UNCHANGED <<orderVars, pc, job, crashes>>
  BY <1>1 DEF ProgressInv, Opening, Ending, Present, AllDone, Gate, InPhase, orderVars
<1>2. CASE Create
  BY <1>2, ProgressCreates
<1>3. ASSUME NEW p \in Processes, Start(p)
      PROVE  ProgressInv'
  <2>1. \E label, task : Begin(p, label, task)
    <3>1. CASE StartSpecification(p)
      BY <3>1 DEF StartSpecification
    <3>2. CASE StartExecution(p)
      BY <3>2 DEF StartExecution
    <3>3. CASE StartComplete(p)
      BY <3>3 DEF StartComplete
    <3>. QED
      BY <1>3, <3>1, <3>2, <3>3 DEF Start
  <2>2. PICK label, task : Begin(p, label, task)
    BY <2>1
  <2>3. \A q \in Processes \ {p} : pc'[q] = pc[q] /\ job'[q] = job[q]
    BY <2>2 DEF Begin, PipelineInv, Rows, Jobs
  <2>4. UNCHANGED <<steps, status, crashes>> /\ Present' = Present /\ pc[p] = "idle"
    BY <2>2 DEF Begin, orderVars, Present
  <2>. QED
    BY <2>3, <2>4, ProgressAside
<1>4. ASSUME NEW p \in Processes, UpdateSpecification(p) \/ UpdateExecution(p)
      PROVE  ProgressInv'
  <2>1. Present' = Present /\ UNCHANGED <<status, crashes>>
    BY <1>4, UpdateSpecificationKeeps, UpdateExecutionKeeps DEF UpdateSpecification,
       UpdateExecution
  <2>2. \A q \in Processes \ {p} : pc'[q] = pc[q] /\ job'[q] = job[q]
    BY <1>4 DEF UpdateSpecification, UpdateExecution, Done, PipelineInv, Rows, Jobs
  <2>3. /\ Present \subseteq Steps /\ steps \in [Steps -> Row \cup {None}]
        /\ job[p].step \in Present /\ pc[p] \in {"specification", "execution"}
        /\ pc[p] = "execution" => job[p].status = "IN_PROGRESS"
    BY <1>4, RowsKnown DEF PipelineInv, Rows, Jobs, Relies, UpdateSpecification, UpdateExecution
  <2>4. PICK status2, filled :
          /\ steps' = [steps EXCEPT ![job[p].step] = [status |-> status2, filled |-> filled]]
          /\ status2 \in {steps[job[p].step].status, "IN_PROGRESS"}
    <3>1. CASE UpdateSpecification(p)
      BY <3>1 DEF UpdateSpecification
    <3>2. CASE UpdateExecution(p)
      BY <3>2, <2>3 DEF UpdateExecution
    <3>. QED
      BY <1>4, <3>1, <3>2
  <2>5. \A s \in Present : /\ steps'[s].status = "COMPLETED" => steps[s].status = "COMPLETED"
                           /\ steps'[s].status = "BLOCKED" => steps[s].status = "BLOCKED"
    BY <2>3, <2>4
  <2>. QED
    BY <2>1, <2>2, <2>3, <2>5, ProgressAside
<1>5. ASSUME NEW p \in Processes, CompleteStep(p)
      PROVE  ProgressInv'
  BY <1>5, CompleteStepKeeps, ProgressCompletes
<1>6. ASSUME NEW p \in Processes, ReadPhase(p)
      PROVE  ProgressInv'
  BY <1>6, ReadPhaseKeeps, ProgressReads
<1>7. ASSUME NEW p \in Processes, UnlockPhase(p)
      PROVE  ProgressInv'
  BY <1>7, UnlockPhaseKeeps, ProgressUnlocks
<1>8. ASSUME NEW p \in Processes, ReadOrder(p) \/ Finish(p)
      PROVE  ProgressInv'
  BY <1>8, ReadOrderKeeps, FinishKeeps, ProgressEnds
<1>9. ASSUME NEW p \in Processes, Crash(p)
      PROVE  ProgressInv'
  <2>1. UNCHANGED steps /\ crashes' \in Nat /\ crashes' # 0
    BY <1>9 DEF Crash, orderVars, ProgressInv
  <2>. QED
    BY <2>1 DEF ProgressInv, Present
<1>10. CASE DeleteComponents \/ CreateComponentStep \/ UNCHANGED vars
  BY <1>1, <1>10 DEF DeleteComponents, CreateComponentStep, vars
<1>. QED
  BY <1>2, <1>3, <1>4, <1>5, <1>6, <1>7, <1>8, <1>9, <1>10 DEF Next, Step

\* Of the steps of a set that are not done, and no step of it waits for one outside,
\* the one with the least order waits for nothing.
LEMMA FirstUndone ==
  ASSUME NEW S, S \subseteq Present, ~AllDone(S),
         \A s \in S : Previous(s) \subseteq S /\ steps[s].status # "BLOCKED"
  PROVE  \E s \in Present : steps[s].status \notin {"COMPLETED", "BLOCKED"} /\ AllDone(Previous(s))
<1> DEFINE Undone == {s \in S : steps[s].status # "COMPLETED"}
           Orders == {Template[s].order : s \in Undone}
<1>1. /\ Template \in [Steps -> [component : Nat, order : Nat \ {0}, phase : Phases]]
      /\ S \subseteq Steps
  BY ProductionAssumption DEF Present
<1>2. Undone # {}
  BY DEF AllDone
<1>3. Orders # {} /\ Orders \subseteq Nat
  BY <1>1, <1>2
<1>. HIDE DEF Orders
<1>4. PICK n \in Orders : \A m \in Orders : n <= m
  BY <1>3, LeastNatural
<1>5. PICK s \in Undone : Template[s].order = n
  BY <1>4 DEF Orders
<1>6. ASSUME NEW t \in Previous(s) \cap Present, steps[t].status # "COMPLETED"
      PROVE  FALSE
  <2>1. t \in Undone /\ t \in Steps /\ Template[s].order = Template[t].order + 1
    BY <1>5, <1>6 DEF Previous
  <2>2. Template[t].order \in Orders
    BY <2>1 DEF Orders
  <2>3. n <= Template[t].order /\ Template[t].order \in Nat /\ n = Template[t].order + 1
    BY <1>1, <1>4, <1>5, <2>1, <2>2
  <2>. QED
    BY <2>3
<1>7. AllDone(Previous(s))
  BY <1>6 DEF AllDone
<1>. QED
  BY <1>5, <1>7

\* Something can be worked on: a phase that is not done is open when those before it
\* are done.
LEMMA SomethingIsNext ==
  ASSUME PipelineInv, ProgressInv, Workable, Whole, Quiet, crashes = 0,
         status # "COMPLETED"
  PROVE  \E s \in Present : steps[s].status \notin {"COMPLETED", "BLOCKED"} /\ AllDone(Previous(s))
<1>1. /\ Present = Steps /\ Steps # {} /\ ~Ending /\ \A s \in Steps : ~Opening(s)
      /\ Template \in [Steps -> [component : Nat, order : Nat \ {0}, phase : Phases]]
  BY ProductionAssumption DEF Whole, Quiet, Ending, Opening, Workable
<1>2. ~AllDone(Steps)
  BY <1>1 DEF ProgressInv
<1>3. ASSUME NEW phases, NEW s \in InPhase(phases)
      PROVE  Previous(s) \subseteq InPhase(phases)
  BY ProductionAssumption DEF InPhase, Previous
<1>4. ASSUME NEW s \in Steps, Gate(s) # {}, AllDone(Gate(s))
      PROVE  steps[s].status # "BLOCKED"
  <2>1. Gate(s) \subseteq Present
    BY <1>1 DEF Gate, InPhase
  <2>. QED
    BY <1>1, <1>4, <2>1 DEF ProgressInv
<1>5. CASE ~AllDone(InPhase(Parallel))
  <2>1. /\ InPhase(Parallel) \subseteq Present
        /\ \A s \in InPhase(Parallel) : steps[s].status # "BLOCKED"
    BY <1>1 DEF InPhase, ProgressInv
  <2>. QED
    BY <1>3, <1>5, <2>1, FirstUndone
<1>6. CASE AllDone(InPhase(Parallel)) /\ ~AllDone(InPhase({"armado"}))
  <2>1. ASSUME NEW s \in InPhase({"armado"})
        PROVE  steps[s].status # "BLOCKED"
    <3>1. s \in Steps /\ Gate(s) = InPhase(Parallel) /\ Gate(s) # {}
      BY DEF InPhase, Gate, Workable, Parallel
    <3>. QED
      BY <1>4, <1>6, <3>1
  <2>2. InPhase({"armado"}) \subseteq Present
    BY <1>1 DEF InPhase
  <2>. QED
    BY <1>3, <1>6, <2>1, <2>2, FirstUndone
<1>7. CASE AllDone(InPhase(Parallel)) /\ AllDone(InPhase({"armado"}))
  <2>1. ASSUME NEW s \in InPhase({"despacho"})
        PROVE  steps[s].status # "BLOCKED"
    <3>1. s \in Steps /\ Gate(s) = InPhase({"armado"}) /\ Gate(s) # {}
      BY DEF InPhase, Gate, Workable, Parallel
    <3>. QED
      BY <1>4, <1>7, <3>1
  <2>2. InPhase({"despacho"}) \subseteq Present
    BY <1>1 DEF InPhase
  <2>3. ~AllDone(InPhase({"despacho"}))
    BY <1>1, <1>2, <1>7 DEF AllDone, InPhase, Phases, Parallel
  <2>. QED
    BY <1>3, <2>1, <2>2, <2>3, FirstUndone
<1>. QED
  BY <1>5, <1>6, <1>7

\* Whatever the template, however many operators complete steps at once: if no request
\* ever died, once nobody is at work no phase is closed behind what it waited for, and
\* no order is open with everything done.  A request that dies in between leaves both.
THEOREM NothingIsLeftBehind == Spec => []NothingLeftBehind
<1>1. Init => ProgressInv
  BY DEF Init, ProgressInv, Present
<1>2. PipelineInv /\ ProgressInv /\ [Next]_vars => ProgressInv'
  BY ProgressNext
<1>3. ASSUME ProgressInv PROVE NothingLeftBehind
  <2>1. SUFFICES ASSUME Quiet PROVE NothingLeftBehind
    BY DEF NothingLeftBehind
  <2>2. ~Ending /\ \A s \in Steps : ~Opening(s)
    BY <2>1 DEF Quiet, Ending, Opening
  <2>. QED
    BY <1>3, <2>2 DEF ProgressInv, NothingLeftBehind, Present
<1>. QED
  BY <1>1, <1>2, <1>3, PipelineInvariant, PTL DEF Spec

\* For every template with something to do and no phase that waits for an empty one,
\* the order is never left with nothing to do before its end.
THEOREM NothingIsForgotten ==
  ASSUME Workable
  PROVE  Spec => []NothingForgotten
<1>1. Init => ProgressInv
  BY DEF Init, ProgressInv, Present
<1>2. PipelineInv /\ ProgressInv /\ [Next]_vars => ProgressInv'
  BY ProgressNext
<1>3. PipelineInv /\ ProgressInv => NoDeadEnd
  BY SomethingIsNext DEF NoDeadEnd
<1>4. NothingLeftBehind /\ NoDeadEnd => NothingForgotten
  BY DEF NothingForgotten
<1>. QED
  BY <1>1, <1>2, <1>3, <1>4, PipelineInvariant, NothingIsLeftBehind, PTL DEF Spec
-----------------------------------------------------------------------------
(* One operator at a time.                                                  *)

\* The requests other than one, when it is the only one to run.
LEMMA OnlyOne ==
  ASSUME AloneInv, ~raced, NEW p \in Processes, pc[p] # "idle"
  PROVE  \A q \in Processes \ {p} : pc[q] = "idle"
BY DEF AloneInv

\* The end of a request that ran alone.
LEMMA AloneEnds ==
  ASSUME PipelineInv, AloneInv, NEW p \in Processes, pc[p] # "idle", UNCHANGED raced, Done(p),
         Present' = Present,
         ~raced => \A s \in Present : steps'[s].status = "COMPLETED" => steps'[s].filled
  PROVE  AloneInv'
<1>1. SUFFICES ASSUME ~raced PROVE AloneInv'
  BY DEF AloneInv
<1>2. \A q \in Processes : pc'[q] = "idle"
  BY <1>1, OnlyOne DEF PipelineInv, Rows, Done
<1>. QED
  BY <1>1, <1>2 DEF AloneInv

\* A request that runs alone goes on to follow up its completion.
LEMMA AloneGoes ==
  ASSUME PipelineInv, AloneInv, NEW p \in Processes, pc[p] # "idle", UNCHANGED raced,
         NEW label \in {"readPhase", "unlock", "readOrder", "finish"}, Goto(p, label),
         Present' = Present,
         ~raced => \A s \in Present : steps'[s].status = "COMPLETED" => steps'[s].filled
  PROVE  AloneInv'
<1>1. SUFFICES ASSUME ~raced PROVE AloneInv'
  BY DEF AloneInv
<1>2. pc'[p] = label /\ \A q \in Processes \ {p} : pc'[q] = "idle"
  BY <1>1, OnlyOne DEF PipelineInv, Rows, Goto
<1>. QED
  BY <1>1, <1>2 DEF AloneInv

\* A request that begins read its step as it is.
LEMMA AloneBegins ==
  ASSUME PipelineInv, AloneInv, NEW p \in Processes, NEW s \in Present,
         NEW label \in {"specification", "execution", "complete"}, NEW task,
         Begin(p, label, task), task.step = s, steps[s].status # "COMPLETED",
         label = "complete" => steps[s].filled
  PROVE  AloneInv'
<1>1. SUFFICES ASSUME ~raced' PROVE AloneInv'
  BY DEF AloneInv
<1>2. ~raced /\ \A q \in Processes \ {p} : pc[q] = "idle"
  BY <1>1 DEF Begin
<1>3. /\ pc'[p] = label /\ job'[p].step = s /\ \A q \in Processes \ {p} : pc'[q] = "idle"
      /\ steps' = steps /\ Present' = Present
  BY <1>2 DEF PipelineInv, Rows, Jobs, Begin, orderVars, Present
<1>. QED
  BY <1>2, <1>3 DEF AloneInv

\* The writes of a request that runs alone.
LEMMA AloneWrites ==
  ASSUME PipelineInv, AloneInv, NEW p \in Processes,
         UpdateSpecification(p) \/ UpdateExecution(p) \/ CompleteStep(p)
  PROVE  /\ Present' = Present
         /\ ~raced => \A s \in Present : /\ steps'[s].status = "COMPLETED" => steps'[s].filled
                                         /\ steps[s].status = "COMPLETED" => steps'[s] = steps[s]
<1> DEFINE c == job[p].step
<1>1. Present' = Present
  BY UpdateSpecificationKeeps, UpdateExecutionKeeps, CompleteStepKeeps
<1>2. /\ c \in Present /\ Present \subseteq Steps /\ steps \in [Steps -> Row \cup {None}]
      /\ \A s \in Present : steps[s] \in Row
  BY RowsKnown DEF PipelineInv, Rows, Jobs, Relies, UpdateSpecification, UpdateExecution,
     CompleteStep
<1>3. SUFFICES ASSUME ~raced
               PROVE  \A s \in Present :
                        /\ steps'[s].status = "COMPLETED" => steps'[s].filled
                        /\ steps[s].status = "COMPLETED" => steps'[s] = steps[s]
  BY <1>1
<1>4. \A s \in Present : steps[s].status = "COMPLETED" => steps[s].filled
  BY <1>3 DEF AloneInv
<1>5. CASE UpdateSpecification(p) \/ UpdateExecution(p)
  <2>1. steps[c].status # "COMPLETED"
    BY <1>3, <1>5 DEF AloneInv, UpdateSpecification, UpdateExecution
  <2>2. steps'[c].status # "COMPLETED" /\ \A s \in Present \ {c} : steps'[s] = steps[s]
    <3>1. CASE UpdateSpecification(p)
      BY <1>2, <2>1, <3>1 DEF UpdateSpecification
    <3>2. CASE UpdateExecution(p)
      <4>1. job[p].status = "IN_PROGRESS"
        BY <3>2 DEF UpdateExecution, PipelineInv, Jobs, Relies
      <4>. QED
        BY <1>2, <3>2, <4>1 DEF UpdateExecution
    <3>. QED
      BY <1>5, <3>1, <3>2
  <2>. QED
    BY <1>4, <2>1, <2>2
<1>6. CASE CompleteStep(p)
  <2>1. steps[c].filled
    BY <1>3, <1>6 DEF AloneInv, CompleteStep
  <2>2. /\ steps'[c] = [status |-> "COMPLETED", filled |-> steps[c].filled]
        /\ \A s \in Present \ {c} : steps'[s] = steps[s]
    BY <1>2, <1>6 DEF CompleteStep
  <2>3. steps[c].status = "COMPLETED" => steps'[c] = steps[c]
    BY <1>2, <2>2 DEF Row
  <2>. QED
    BY <1>4, <2>1, <2>2, <2>3
<1>. QED
  BY <1>5, <1>6

\* Every step keeps it, and a step that was completed.
LEMMA AloneNext ==
  ASSUME PipelineInv, AloneInv, [Next]_vars
  PROVE  /\ AloneInv'
         /\ \A s \in Present : ~raced' /\ steps[s].status = "COMPLETED" => steps'[s] = steps[s]
<1>1. ~raced => \A s \in Present : steps[s].status = "COMPLETED" => steps[s].filled
  BY DEF AloneInv
<1>2. CASE DeleteComponents \/ CreateComponentStep \/ UNCHANGED vars
  <2>1. UNCHANGED <<steps, pc, job, raced>>
    BY <1>2 DEF DeleteComponents, CreateComponentStep, vars, orderVars
  <2>. QED
    BY <2>1 DEF AloneInv, Present
<1>3. CASE Create
  <2>1. Present = {} /\ \A p \in Processes : pc[p] = "idle"
    BY <1>3 DEF Create, PipelineInv, Unborn, Jobs, Relies
  <2>2. /\ steps' = [s \in Steps |-> IF s \in template THEN Fresh(s) ELSE None]
        /\ UNCHANGED <<pc, job, raced>>
    BY <1>3 DEF Create
  <2>3. \A s \in Present' : s \in Steps /\ steps'[s] = Fresh(s)
    BY <2>2 DEF Present
  <2>4. \A s \in Steps : Fresh(s).status # "COMPLETED"
    BY DEF Fresh
  <2>5. \A s \in Present' : steps'[s].status # "COMPLETED"
    BY <2>3, <2>4
  <2>. QED
    BY <2>1, <2>2, <2>5 DEF AloneInv
<1>4. ASSUME NEW p \in Processes, Start(p)
      PROVE  AloneInv' /\ steps' = steps
  <2>1. PICK s \in Present, label \in {"specification", "execution", "complete"} :
          /\ steps[s].status # "COMPLETED" /\ (label = "complete" => steps[s].filled)
          /\ \E task : Begin(p, label, task) /\ task.step = s
    <3>1. CASE StartSpecification(p)
      BY <3>1 DEF StartSpecification, Job
    <3>2. CASE StartExecution(p)
      BY <3>2 DEF StartExecution, Job
    <3>3. CASE StartComplete(p)
      BY <3>3 DEF StartComplete, Job
    <3>. QED
      BY <1>4, <3>1, <3>2, <3>3 DEF Start
  <2>2. PICK task : Begin(p, label, task) /\ task.step = s
    BY <2>1
  <2>. QED
    BY <2>1, <2>2, AloneBegins DEF Begin, orderVars
<1>5. ASSUME NEW p \in Processes, UpdateSpecification(p) \/ UpdateExecution(p) \/ CompleteStep(p)
      PROVE  /\ AloneInv' /\ raced' = raced
             /\ ~raced => \A s \in Present :
                             steps[s].status = "COMPLETED" => steps'[s] = steps[s]
  <2>1. raced' = raced /\ pc[p] # "idle"
    BY <1>5 DEF UpdateSpecification, UpdateExecution, CompleteStep
  <2>2. Done(p) \/ Goto(p, "readPhase")
    BY <1>5 DEF UpdateSpecification, UpdateExecution, CompleteStep
  <2>3. Present' = Present
        /\ (~raced => \A s \in Present : steps'[s].status = "COMPLETED" => steps'[s].filled)
    BY <1>5, AloneWrites
  <2>. QED
    BY <1>5, <2>1, <2>2, <2>3, AloneWrites, AloneEnds, AloneGoes
<1>6. ASSUME NEW p \in Processes,
             ReadPhase(p) \/ ReadOrder(p) \/ Finish(p) \/ Crash(p)
      PROVE  AloneInv' /\ steps' = steps
  <2>1. /\ steps' = steps /\ raced' = raced /\ pc[p] # "idle" /\ Present' = Present
    BY <1>6 DEF ReadPhase, ReadOrder, Finish, Crash, orderVars, Present
  <2>2. Done(p) \/ \E label \in {"readPhase", "unlock", "readOrder", "finish"} : Goto(p, label)
    BY <1>6 DEF ReadPhase, ReadOrder, Finish, Crash
  <2>. QED
    BY <1>1, <2>1, <2>2, AloneEnds, AloneGoes
<1>7. ASSUME NEW p \in Processes, UnlockPhase(p)
      PROVE  AloneInv' /\ \A s \in Present : steps[s].status = "COMPLETED" => steps'[s] = steps[s]
  <2>1. /\ Present' = Present /\ raced' = raced /\ pc[p] # "idle" /\ Goto(p, "readOrder")
    BY <1>7, UnlockPhaseKeeps DEF UnlockPhase
  <2>2. \A s \in Present : steps'[s] = steps[s] \/ steps'[s].status = "PENDING"
    BY <1>7 DEF UnlockPhase, Present
  <2>3. \A s \in Present : steps[s].status = "COMPLETED" => steps'[s] = steps[s]
    BY <1>7 DEF UnlockPhase, Present
  <2>. QED
    BY <1>1, <2>1, <2>2, <2>3, AloneGoes
<1>. QED
  BY <1>2, <1>3, <1>4, <1>5, <1>6, <1>7 DEF Next, Step

\* completeStep, updateStepExecution, updateStepSpecification: one operator at a time,
\* a step is completed with what is required filled, and never written again.
THEOREM CompletedIsKept == Spec => CompletedKept
<1>1. Init => AloneInv
  BY DEF Init, AloneInv, Present
<1>2. PipelineInv /\ AloneInv /\ [Next]_vars => AloneInv'
  BY AloneNext
<1>3. AloneInv => CompletedIsFilled
  BY DEF AloneInv, CompletedIsFilled
<1>4. PipelineInv /\ AloneInv /\ [Next]_vars
      => [\A s \in Present : ~raced' /\ steps[s].status = "COMPLETED" => steps'[s] = steps[s]]_vars
  BY AloneNext
<1>. QED
  BY <1>1, <1>2, <1>3, <1>4, PipelineInvariant, PTL DEF Spec, CompletedKept, CompletedStays
=============================================================================
