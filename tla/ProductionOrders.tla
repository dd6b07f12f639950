-------------------------- MODULE ProductionOrders --------------------------
(***************************************************************************)
(* One production order, the steps copied into it from a template, and the *)
(* operators who fill and complete them.                                   *)
(*                                                                         *)
(* The steps of the phases impresion and material run in parallel, those   *)
(* of armado wait for all of them, and those of despacho for armado.  No   *)
(* operation is a transaction, but the creation: a step is read, written,  *)
(* and the whole order read again, once to unlock the next phase and once  *)
(* to end the order.  An operator's request may die between any two.       *)
(*                                                                         *)
(* The template is written row by row while orders are created from it.    *)
(* Of the values of a step only one thing is kept: whether the execution   *)
(* fields that are required are filled.                                    *)
(***************************************************************************)
EXTENDS Naturals

CONSTANTS
  Template,   \* Template[s]: component, order and phase of the step s
  Processes,  \* requests in flight
  MaxCrashes, \* how many requests may die
  None

VARIABLES
  template,  \* the steps of the template in the database now
  status,    \* the status of the production order, or None
  steps,     \* steps[s]: the row of the step s in the order, or None
  pc, job,   \* what each request does next, and what it will write of what it read
  crashes,
  everDone,  \* history: the steps that were completed at some time
  raced      \* history: a request began while another one was running

orderVars == <<status, steps, everDone>>
vars == <<template, orderVars, pc, job, crashes, raced>>

Steps == DOMAIN Template
Phases == {"impresion", "material", "armado", "despacho"}
Parallel == {"impresion", "material"}
StepStatuses == {"PENDING", "IN_PROGRESS", "COMPLETED", "BLOCKED"}
Row == [status : StepStatuses, filled : BOOLEAN]

\* Steps are numbered in the order the template is written; the phase is that of
\* their component.  Nothing keeps two steps of a component from having one order.
ASSUME ProductionAssumption ==
  /\ Steps \subseteq Nat /\ MaxCrashes \in Nat
  /\ Template \in [Steps -> [component : Nat, order : Nat \ {0}, phase : Phases]]
  /\ \A s, t \in Steps : Template[s].component = Template[t].component
                           => Template[s].phase = Template[t].phase
  /\ None \notin Row \cup {"IN_PROGRESS", "COMPLETED"}

\* What a request writes: the status of the step, whether it is filled, or neither.
Job(s, newStatus, filled) == [step |-> s, status |-> newStatus, filled |-> filled]
NoJob == Job(None, None, None)

Present == {s \in Steps : steps[s] # None}
InPhase(phases) == {s \in Steps : Template[s].phase \in phases}

Previous(s) == {t \in Steps : /\ Template[t].component = Template[s].component
                              /\ Template[s].order = Template[t].order + 1}

\* No row writes SKIPPED.
Completed == {s \in Present : steps[s].status = "COMPLETED"}
AllDone(S) == \A s \in S \cap Present : steps[s].status = "COMPLETED"

\* findFirst looks at one of the steps with the order before, if there is any.
OneBefore(s, done) == Previous(s) \cap Present = {} \/ Previous(s) \cap done # {}
-----------------------------------------------------------------------------
(* The template and the creation of the order; what becomes of the template *)
(* later is nothing to this order.                                          *)

\* update deletes the components and creates those of the form, one by one.
DeleteComponents ==
  /\ status = None /\ template = Steps /\ template' = {}
  /\ UNCHANGED <<orderVars, pc, job, crashes, raced>>

CreateComponentStep ==
  /\ status = None
  /\ \E s \in Steps \ template :
       /\ \A t \in Steps \ template : s <= t
       /\ template' = template \cup {s}
  /\ UNCHANGED <<orderVars, pc, job, crashes, raced>>

Fresh(s) == [status |-> IF Template[s].phase \in Parallel THEN "PENDING" ELSE "BLOCKED",
             filled |-> FALSE]

\* One transaction, from the template as it was read.
Create ==
  /\ status = None
  /\ status' = "IN_PROGRESS"
  /\ steps' = [s \in Steps |-> IF s \in template THEN Fresh(s) ELSE None]
  /\ UNCHANGED <<template, pc, job, crashes, everDone, raced>>
-----------------------------------------------------------------------------
(* The requests on a step; each begins with reading it.                     *)

Goto(p, label) == pc' = [pc EXCEPT ![p] = label]
Done(p) == pc' = [pc EXCEPT ![p] = "idle"] /\ job' = [job EXCEPT ![p] = NoJob]

\* Of a request to complete, the step and then the one before it are read, with
\* nothing in between.
Begin(p, label, task) ==
  /\ pc[p] = "idle"
  /\ pc' = [pc EXCEPT ![p] = label]
  /\ job' = [job EXCEPT ![p] = task]
  /\ raced' = (raced \/ \E q \in Processes \ {p} : pc[q] # "idle")
  /\ UNCHANGED <<template, orderVars, crashes>>

StartSpecification(p) ==
  \E s \in Present :
    steps[s].status # "COMPLETED" /\ Begin(p, "specification", Job(s, None, steps[s].filled))

Started(old) == IF old = "PENDING" THEN "IN_PROGRESS" ELSE old

\* Mutant: a completed step is not turned away, and is worked on again.
ExecutionOfCompleted(p) ==
  \E s \in Present :
    steps[s].status # "BLOCKED" /\ Begin(p, "execution", Job(s, "IN_PROGRESS", None))

StartExecution(p) ==
  \E s \in Present :
    /\ steps[s].status \notin {"COMPLETED", "BLOCKED"}
    /\ Begin(p, "execution", Job(s, Started(steps[s].status), None))

\* Mutant: the step before is not looked at.
CompleteAnyOrder(p) ==
  \E s \in Present :
    /\ steps[s].status \notin {"COMPLETED", "BLOCKED"} /\ steps[s].filled
    /\ Begin(p, "complete", Job(s, None, None))

StartComplete(p) ==
  \E s \in Present :
    /\ steps[s].status \notin {"COMPLETED", "BLOCKED"} /\ steps[s].filled
    /\ OneBefore(s, Completed) /\ Begin(p, "complete", Job(s, None, None))

\* The values written are those read, with the specification changed.
UpdateSpecification(p) ==
  /\ pc[p] = "specification"
  /\ steps' = [steps EXCEPT ![job[p].step] =
                 [status |-> steps[job[p].step].status, filled |-> job[p].filled]]
  /\ Done(p)
  /\ UNCHANGED <<template, status, crashes, everDone, raced>>

\* The status is written too, the one read when it was not PENDING.
UpdateExecution(p) ==
  /\ pc[p] = "execution"
  /\ \E filled \in BOOLEAN :
       steps' = [steps EXCEPT ![job[p].step] = [status |-> job[p].status, filled |-> filled]]
  /\ Done(p)
  /\ UNCHANGED <<template, status, crashes, everDone, raced>>

\* Mutant: the step is read as done before it is written.
CompleteLater(p) ==
  /\ pc[p] = "complete"
  /\ steps' = [steps EXCEPT ![job[p].step] =
                 [status |-> "COMPLETED", filled |-> steps[job[p].step].filled]]
  /\ everDone' = everDone \cup {job[p].step}
  /\ Done(p)
  /\ UNCHANGED <<template, status, crashes, raced>>

CompleteStep(p) ==
  /\ pc[p] = "complete"
  /\ steps' = [steps EXCEPT ![job[p].step] =
                 [status |-> "COMPLETED", filled |-> steps[job[p].step].filled]]
  /\ everDone' = everDone \cup {job[p].step}
  /\ Goto(p, "readPhase")
  /\ UNCHANGED <<template, status, job, crashes, raced>>
-----------------------------------------------------------------------------
(* What the completion of a step opens: tryUnlockNextPhase and              *)
(* checkAndCompleteOrder.                                                   *)

\* Mutant: each of the parallel phases opens armado by itself.
OwnPhase(phase) == {phase}

Group(phase) == IF phase \in Parallel THEN Parallel ELSE {phase}
NextPhase(phase) == IF phase \in Parallel THEN "armado" ELSE "despacho"

ReadPhase(p) ==
  /\ pc[p] = "readPhase"
  /\ LET phase == Template[job[p].step].phase
     IN  Goto(p, IF phase # "despacho" /\ AllDone(InPhase(Group(phase)))
                   THEN "unlock" ELSE "readOrder")
  /\ UNCHANGED <<template, orderVars, job, crashes, raced>>

UnlockPhase(p) ==
  /\ pc[p] = "unlock"
  /\ LET opened == InPhase({NextPhase(Template[job[p].step].phase)})
     IN  steps' = [s \in Steps |->
                     IF s \in opened \cap Present /\ steps[s].status = "BLOCKED"
                       THEN [status |-> "PENDING", filled |-> steps[s].filled] ELSE steps[s]]
  /\ Goto(p, "readOrder")
  /\ UNCHANGED <<template, status, job, crashes, everDone, raced>>

ReadOrder(p) ==
  /\ pc[p] = "readOrder"
  /\ IF AllDone(Steps) THEN Goto(p, "finish") /\ UNCHANGED job ELSE Done(p)
  /\ UNCHANGED <<template, orderVars, crashes, raced>>

Finish(p) ==
  /\ pc[p] = "finish"
  /\ status' = "COMPLETED"
  /\ Done(p)
  /\ UNCHANGED <<template, steps, crashes, everDone, raced>>

\* The request dies; what it wrote stays.
Crash(p) ==
  /\ pc[p] # "idle" /\ crashes < MaxCrashes
  /\ crashes' = crashes + 1
  /\ Done(p)
  /\ UNCHANGED <<template, orderVars, raced>>
-----------------------------------------------------------------------------
Start(p) == StartSpecification(p) \/ StartExecution(p) \/ StartComplete(p)

Step(p) == \/ UpdateSpecification(p) \/ UpdateExecution(p) \/ CompleteStep(p)
           \/ ReadPhase(p) \/ UnlockPhase(p) \/ ReadOrder(p) \/ Finish(p)

Init ==
  /\ template = Steps
  /\ status = None /\ steps = [s \in Steps |-> None] /\ everDone = {}
  /\ pc = [p \in Processes |-> "idle"] /\ job = [p \in Processes |-> NoJob]
  /\ crashes = 0 /\ raced = FALSE

Next ==
  \/ DeleteComponents \/ CreateComponentStep \/ Create
  \/ \E p \in Processes : Start(p) \/ Step(p) \/ Crash(p)

Spec == Init /\ [][Next]_vars
=============================================================================
