-------------------------- MODULE EngineProperties --------------------------
(***************************************************************************)
(* What the run lifecycle of module Engine promises, and the fairness      *)
(* under which a run that can move does.                                   *)
(***************************************************************************)
EXTENDS Engine

(* At most one goroutine drives the current run, it is the one launched last,
   and a run that is running, parked or being torn down always has one: a
   superseded goroutine never acts (aliveLocked), and no failed Save leaves a
   live state behind with nobody to move it on. *)
OneDriver ==
  /\ \A e \in Epochs : thr[e].pc \in Driving =>
       /\ e = epoch
       /\ cur # NoRun /\ Live(cur) /\ cur.id = thr[e].id
  /\ cur # NoRun /\ Live(cur) => \E e \in Epochs : thr[e].pc \in Driving

(* recoveredPending makes Start name a recovered run; whatever order Retry,
   Discard, Stop, Reset and their rollbacks run in, that run is there to be
   retried or discarded. *)
RecoveredGateHasRun == recPending => cur # NoRun

Settled == /\ Serving
           /\ \A e \in Epochs : thr[e].pc \in {"unborn", "over"}
           /\ \A c \in Callers : req[c].pc = "idle"

(* Every refusal of Start names a way out, and with nothing in flight that way
   out is open: stop it, reset it again, retry or discard it. *)
RefusalHasRemedy ==
  Settled =>
    /\ cur = NoRun => CanStart
    /\ cur # NoRun /\ (cur.state = "active" \/ Unconfirmed(cur)) => CanStop
    /\ cur # NoRun /\ IncompleteTeardown(cur) => CanReset
    /\ recPending => CanRetry \/ CanDiscard \/ CanStop \/ CanReset

(* Once CancelAndWait has returned, no run is live and no goroutine drives one any
   more.  A Stop that was let in before may still be deleting the workload. *)
DrainedIsQuiet ==
  drained => /\ cur # NoRun => ~Live(cur)
             /\ \A e \in Epochs : thr[e].pc \notin Driving

(* A run is done only when its workload has been seen absent, by Stop, by
   Reset or by ReconcileWorkloads. *)
DoneMeansGone == cur # NoRun /\ cur.state = "done" => cur.id \notin wl

(* Apply reads a bundle this very process has written: a restart loses the
   bundle directory, and Recover's rewind is what makes Bundle run again. *)
ApplyHasBundle ==
  \A e \in Epochs :
    thr[e].pc = "step" /\ cur.idx = ApplyStep => cur.id \in bundled

(* While the console serves, a reference workload in the cluster belongs to the
   current run, and that run is live or has a remedy that removes it: Stop, or
   another Reset.  Start never abandons one. *)
WorkloadTracked ==
  up = "serving" =>
    \A i \in wl : /\ cur # NoRun /\ cur.id = i
                  /\ Live(cur) \/ Stoppable(cur) \/ IncompleteTeardown(cur)

(* While the console serves, a half-removed installation is the current run's,
   and that run is being reset or refuses Start, Retry and Discard. *)
HalfRemovedIsGuarded ==
  up = "serving" =>
    \A i \in RunIDs : rel[i] = "half" =>
      /\ cur # NoRun /\ cur.id = i
      /\ cur.state = "resetting" \/ IncompleteTeardown(cur)

(* A decision that Decide acknowledged is in the run's record for as long as
   that record would send the run back through its gate. *)
AckedDecisionDurable ==
  rec # NoRun =>
    \A a \in acked : rec.id = a[1] /\ rec.idx <= a[2] => a[2] \in rec.decided

(* From the moment its goroutine is launched a live run has a record on disk
   for a restart to recover. *)
LiveRunHasRecord ==
  up = "serving" /\ ~volatile /\ cur # NoRun /\ Live(cur)
    => \/ \E e \in Epochs : thr[e].pc \in Launching
       \/ rec # NoRun /\ rec.id = cur.id

(***************************************************************************)
(* Liveness.  Goroutines and requests are scheduled by the Go runtime, and *)
(* each of their calls returns (timeouts bound the store and the cluster); *)
(* nothing obliges an operator to act or a process to crash.               *)
(***************************************************************************)
FairSpec ==
  /\ Spec
  /\ \A e \in Epochs : WF_vars(ThreadStep(e))
  /\ \A c \in Callers : WF_vars(RequestStep(c))
  /\ WF_vars(Recover) /\ WF_vars(Reconcile) /\ WF_vars(DrainReturns)

(* A running or resetting run reaches a gate or a settled state: no wake-up of
   a parked goroutine is lost, whenever Decide comes. *)
LiveRunSettles ==
  (cur # NoRun /\ cur.state \in {"running", "resetting"})
    ~> (cur = NoRun \/ cur.state \notin {"running", "resetting"})

(* Shutdown ends: whatever was in flight, CancelAndWait returns, unless the
   process dies first. *)
DrainCompletes == draining ~> drained \/ ~draining
=============================================================================
