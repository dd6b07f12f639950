----------------------- MODULE ProductionOrdersProps -----------------------
(***************************************************************************)
(* What a production order has to keep, whatever its operators do at the   *)
(* same time.                                                              *)
(***************************************************************************)
EXTENDS ProductionOrders

\* The order of the work: what must be done before a step.  A step of armado
\* waits for every parallel one, a step of despacho for every one of armado.
Gate(s) == LET phase == Template[s].phase
           IN  IF phase = "armado" THEN InPhase(Parallel)
               ELSE IF phase = "despacho" THEN InPhase({"armado"}) ELSE {}

Quiet == \A p \in Processes : pc[p] = "idle"
Whole == status # None /\ Present = Steps

\* What no check of the template asks for: the steps of a component differ in order.
OneStepPerOrder ==
  \A s, t \in Steps :
    (Template[s].component = Template[t].component /\ Template[s].order = Template[t].order)
      => s = t
-----------------------------------------------------------------------------
\* The variables keep their types, and an order that does not exist has no step.
TypeOK ==
  /\ template \subseteq Steps
  /\ status \in {None, "IN_PROGRESS", "COMPLETED"}
  /\ steps \in [Steps -> Row \cup {None}]
  /\ everDone \subseteq Present
  /\ status = None => Present = {}
  /\ crashes \in 0..MaxCrashes /\ raced \in BOOLEAN
  /\ \A p \in Processes : pc[p] # "idle" => job[p].step \in Present

\* Whatever interleaves, is lost or is written from a stale read, the order
\* implements the pipeline: no step is completed, for the first time, before
\* all that its phase and its component put before it was, and the order ends
\* only after every step was completed.  The steps of a component have orders of
\* their own (OneStepPerOrder).
Pipeline == INSTANCE ProductionPipeline WITH
  Steps <- Steps, Before <- [s \in Steps |-> Gate(s) \cup Previous(s)],
  present <- Present, done <- everDone, finished <- status = "COMPLETED"
FollowsPipeline == Pipeline!Spec

\* A step that nothing blocks has its gate behind it: every step it waits for
\* was completed at some time.
OpenHasGate ==
  \A s \in Present : steps[s].status # "BLOCKED" => Gate(s) \cap Present \subseteq everDone

\* Two operators who complete the last two steps of a phase at the same time
\* both look at the order after they wrote: one of them opens the next phase.
\* While no request died, a phase whose gate is done is never left blocked, and
\* an order with nothing left is ended.
NothingLeftBehind ==
  Quiet /\ crashes = 0 /\ Present # {} =>
    /\ \A s \in Present : Gate(s) # {} /\ Gate(s) \subseteq Present /\ AllDone(Gate(s))
                            => steps[s].status # "BLOCKED"
    /\ AllDone(Steps) => status = "COMPLETED"

\* The order never waits for everyone: while it is not ended, some step can be
\* worked on now (the order has all the steps of a template with every phase).
NoDeadEnd ==
  Whole /\ Quiet /\ crashes = 0 /\ status # "COMPLETED" =>
    \E s \in Present : steps[s].status \notin {"COMPLETED", "BLOCKED"} /\ AllDone(Previous(s))

\* One operator at a time: a step is completed with its required fields filled,
\* and it keeps both.
CompletedIsFilled ==
  ~raced => \A s \in Present : steps[s].status = "COMPLETED" => steps[s].filled
CompletedStays ==
  [][\A s \in Present : ~raced' /\ steps[s].status = "COMPLETED" => steps'[s] = steps[s]]_vars
-----------------------------------------------------------------------------
(* What the proofs rest on, and the properties of the run.                  *)

\* A step whose gate is behind it.
Open(s) == Gate(s) \cap Present \subseteq everDone

Rows == /\ steps \in [Steps -> Row \cup {None}]
        /\ everDone \subseteq Steps
        /\ status \in {None, "IN_PROGRESS", "COMPLETED"}
        /\ pc \in [Processes -> {"idle", "specification", "execution", "complete",
                                 "readPhase", "unlock", "readOrder", "finish"}]
        /\ template \subseteq Steps

Unborn == status = None => Present = {} /\ everDone = {}

CompletedWasDone == \A s \in Present : steps[s].status = "COMPLETED" => s \in everDone

\* What each request relies on when it writes.
Relies(p) ==
  /\ pc[p] # "idle" => job[p].step \in Present
  /\ pc[p] = "specification" => job[p].filled \in BOOLEAN
  /\ pc[p] = "execution" => job[p].status = "IN_PROGRESS" /\ Open(job[p].step)
  /\ pc[p] = "complete" => Open(job[p].step) /\ OneBefore(job[p].step, everDone)
  /\ pc[p] = "unlock" =>
       /\ Template[job[p].step].phase # "despacho"
       /\ InPhase(Group(Template[job[p].step].phase)) \cap Present \subseteq everDone
  /\ pc[p] = "finish" => Present \subseteq everDone

Jobs == /\ job \in [Processes -> [step : Steps \cup {None},
                                  status : StepStatuses \cup {None},
                                  filled : BOOLEAN \cup {None}]]
        /\ \A p \in Processes : Relies(p)

\* The inductive invariant of the proofs: every step that is not blocked has its
\* gate behind it, and so has every one that a stale read is about to write.
PipelineInv == Rows /\ Unborn /\ CompletedWasDone /\ OpenHasGate /\ Jobs

\* Somebody is still to look whether what a step waits for is done, or whether
\* nothing is left of the order.
Opening(s) ==
  \E p \in Processes : pc[p] \in {"readPhase", "unlock"} /\ job[p].step \in Gate(s)
Ending == \E p \in Processes : pc[p] \in {"readPhase", "unlock", "readOrder", "finish"}

\* While no request died, whatever is blocked with its gate done, and an order
\* that is done and not ended, has a request about to see it.
ProgressInv ==
  /\ crashes \in Nat
  /\ \A s \in Present : Template[s].phase \in Parallel => steps[s].status # "BLOCKED"
  /\ crashes = 0 =>
       /\ \A s \in Present :
            (Gate(s) # {} /\ Gate(s) \subseteq Present /\ AllDone(Gate(s))
               /\ steps[s].status = "BLOCKED") => Opening(s)
       /\ (Present # {} /\ AllDone(Steps)) => status = "COMPLETED" \/ Ending

\* One operator at a time, what a request read of its step is still so when it
\* writes.
AloneInv ==
  ~raced =>
    /\ \A p, q \in Processes : p # q => pc[p] = "idle" \/ pc[q] = "idle"
    /\ \A p \in Processes :
         /\ pc[p] = "complete" => steps[job[p].step].filled
         /\ pc[p] \in {"specification", "execution"} => steps[job[p].step].status # "COMPLETED"
    /\ \A s \in Present : steps[s].status = "COMPLETED" => steps[s].filled

\* A template with something to do, none of it born blocked with nothing to wait
\* for: one with despacho has an armado, and one with armado something to assemble.
Workable == /\ Steps # {}
            /\ \A s \in Steps : Template[s].phase \notin Parallel => Gate(s) # {}

\* Whoever completes the last step of a phase, alone or with another, opens the
\* next one: the order is never left with nothing to do before its end.
NothingForgotten == NothingLeftBehind /\ NoDeadEnd

\* One operator at a time, a completed step was filled and is not written again.
CompletedKept == []CompletedIsFilled /\ CompletedStays
-----------------------------------------------------------------------------
(* Not kept: configuration ProductionRaces shows how each breaks.  And, of a *)
(* template with two steps of one order, FollowsPipeline: "El paso anterior  *)
(* debe completarse primero", and only one of the two is looked at.          *)

\* "No se puede modificar un paso completado": a write that read the step
\* before it was completed writes its old status over it.
CompletedIsFinal ==
  [][\A s \in Present : steps[s].status = "COMPLETED" => steps'[s].status = "COMPLETED"]_vars

\* An order has every step of its template.
OrderIsWhole == status # None => Present = Steps

\* A phase whose gate is done is open, even if a request died on the way.
GateOpens ==
  Quiet /\ Whole => \A s \in Steps : Gate(s) # {} /\ AllDone(Gate(s))
                                       => steps[s].status # "BLOCKED"
=============================================================================
