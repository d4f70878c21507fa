------------------------------ MODULE Workload ------------------------------
(***************************************************************************)
(* What the engine relies on when it runs Prove and Stop: where the        *)
(* reference workload may be whenever a call returns.  ProveJob implements *)
(* this; Engine has the same promise as its actions StepSucceeds,          *)
(* StepFails, ProveCleaned, ProveUncleaned and StopAbsent.                 *)
(***************************************************************************)
VARIABLES
  state,    (* the run: "running" is inside Prove                          *)
  guard,    (* Run.CleanupUnconfirmed                                      *)
  lost,     (* a process that was inside Prove died                        *)
  workload  (* "absent", "here", or "leaving" once a delete was accepted   *)

vars == <<state, guard, lost, workload>>

Init == state = "running" /\ guard = FALSE /\ lost = FALSE /\ workload = "absent"

(* Retry. *)
Begin ==
  /\ state = "failed" /\ state' = "running"
  /\ UNCHANGED <<guard, lost, workload>>

Appear ==
  /\ state = "running" /\ workload = "absent" /\ workload' = "here"
  /\ UNCHANGED <<state, guard, lost>>

(* Nobody deletes the workload of a run that never had one, or was cleaned. *)
Doomed ==
  /\ workload = "here" /\ workload' = "leaving"
  /\ UNCHANGED <<state, guard, lost>>

Gone ==
  /\ workload = "leaving" /\ workload' = "absent"
  /\ UNCHANGED <<state, guard, lost>>

(* The run becomes active over a workload that is there to stay. *)
Succeed ==
  /\ state = "running" /\ workload = "here"
  /\ state' = "active"
  /\ UNCHANGED <<guard, lost, workload>>

(* A failure is one of three: nothing was done to the workload by this
   attempt, it is gone for certain, or the run is marked. *)
FailUntouched ==
  /\ state = "running" /\ state' = "failed"
  /\ workload # "absent" => guard \/ lost
  /\ UNCHANGED <<guard, lost, workload>>

FailClean ==
  /\ state = "running" /\ state' = "failed"
  /\ workload = "absent" /\ guard' = FALSE
  /\ UNCHANGED <<lost, workload>>

(* The delete whose answer was an error may have been accepted. *)
FailMarked ==
  /\ state = "running" /\ state' = "failed"
  /\ guard' = TRUE
  /\ workload' = workload \/ (workload = "here" /\ workload' = "leaving")
  /\ UNCHANGED lost

Stopped ==
  /\ state \in {"active", "failed"} /\ workload = "absent"
  /\ state' = "done" /\ guard' = FALSE
  /\ UNCHANGED <<lost, workload>>

(* The process dies; a run it was driving is failed when it is recovered. *)
Die ==
  /\ state' = IF state = "running" THEN "failed" ELSE state
  /\ lost' = (lost \/ state = "running")
  /\ UNCHANGED <<guard, workload>>

Next ==
  \/ Begin \/ Appear \/ Doomed \/ Gone \/ Succeed
  \/ FailUntouched \/ FailClean \/ FailMarked \/ Stopped \/ Die

Spec == Init /\ [][Next]_vars
=============================================================================
