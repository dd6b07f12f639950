------------------------- MODULE ProductionPipeline -------------------------
(***************************************************************************)
(* What a production order promises to the workshop: a step is done only   *)
(* when all the work that comes before it is done, what was done counts as *)
(* done, and the order ends when nothing is left.                          *)
(***************************************************************************)
CONSTANTS Steps, Before  \* Before[s]: the steps that come before s

VARIABLES present, done, finished

Init == present = {} /\ done = {} /\ finished = FALSE

Create == present = {} /\ present' \in SUBSET Steps /\ UNCHANGED <<done, finished>>

Do(s) == /\ s \in present /\ Before[s] \cap present \subseteq done
         /\ done' = done \cup {s}
         /\ UNCHANGED <<present, finished>>

Finish == /\ present # {} /\ present \subseteq done /\ finished' = TRUE
          /\ UNCHANGED <<present, done>>

Next == Create \/ Finish \/ \E s \in Steps : Do(s)

Spec == Init /\ [][Next]_<<present, done, finished>>
=============================================================================
