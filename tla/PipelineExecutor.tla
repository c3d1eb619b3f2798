--------------------------- MODULE PipelineExecutor ---------------------------
(***************************************************************************)
(* What a controller of synapse-operator promises as a pipeline executor   *)
(* driven by a level-triggered work queue (spec.md 4.1 and 5), written     *)
(* without reference to any one controller.                                *)
(*                                                                         *)
(* The key of the entity is queued or not.  A run takes the key from the   *)
(* queue, composes its list of steps from the entity as it reads it then,  *)
(* and goes through the list one step at a time, stopping after any step   *)
(* or after the last one.  Everything else (other controllers, users, the  *)
(* steps' own writes) may change the entity, but a change to what the      *)
(* composition reads always leaves the key queued: no change goes          *)
(* unnoticed.  Every run ends.                                             *)
(***************************************************************************)
EXTENDS Naturals, Sequences

CONSTANT
    Compose(_)   \* the step lists a run may compose from what it read

VARIABLES
    queued,      \* the work queue holds the entity's key
    list,        \* the steps composed by the running run, <<>> when idle
    at,          \* the running step, 0 when idle
    input        \* what the composition reads: the entity's Spec and Status

vars == <<queued, list, at, input>>

Init == at = 0 /\ list = <<>>

\* A queued key stays queued, and a change of the input queues it.
Noticed ==
    /\ queued => queued'
    /\ input' # input => queued'

\* A worker takes the key and composes the run from the current input.
StartRun ==
    /\ at = 0
    /\ queued
    /\ ~queued'
    /\ list' \in Compose(input)
    /\ Len(list') > 0
    /\ at' = 1
    /\ input' = input

\* A worker takes the key and finds nothing to reconcile.
EmptyRun ==
    /\ at = 0
    /\ queued
    /\ ~queued'
    /\ UNCHANGED <<list, at, input>>

\* The running step returned Continue and is not the last.
NextStep ==
    /\ at \in 1..(Len(list) - 1)
    /\ at' = at + 1
    /\ list' = list
    /\ Noticed

\* The run returns: after a step that did not continue, or after the last.
StopRun ==
    /\ at > 0
    /\ at' = 0
    /\ list' = <<>>
    /\ Noticed

\* Anything that is not a step boundary of the run.
Outside ==
    /\ UNCHANGED <<list, at>>
    /\ Noticed

Next == StartRun \/ EmptyRun \/ NextStep \/ StopRun \/ Outside

\* Every run that starts ends.
RunsEnd == at > 0 ~> at = 0

Spec == Init /\ [][Next]_vars /\ RunsEnd
SafetySpec == Init /\ [][Next]_vars
=============================================================================
