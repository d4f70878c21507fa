------------------------------ MODULE ProveJob ------------------------------
(***************************************************************************)
(* The Prove step (internal/steps/prove.go) and its client                 *)
(* (internal/prove/client.go), API call by API call, against a cluster     *)
(* that makes, places and deletes in its own time: the Job of one run, its *)
(* pods, retries, Stop, shutdown and a process that dies.                  *)
(*                                                                         *)
(* A call that writes and fails may have taken effect.  It has done so by  *)
(* the time it fails: a request that reaches the API server after its      *)
(* client gave up is not modelled.                                         *)
(***************************************************************************)
EXTENDS Naturals, FiniteSets

CONSTANTS
  GangSize,
  Configs,      (* spec hashes that differently configured processes render *)
  PatientRetry, (* Retry comes only once a Job being deleted is gone        *)
  MaxJobs,      (* bound: Jobs created                                      *)
  MaxCrashes,   (* bound: ends of the console process                       *)
  NoJob

ASSUME ProveAssumption ==
  /\ GangSize \in Nat \ {0} /\ Configs # {} /\ PatientRetry \in BOOLEAN
  /\ MaxJobs \in Nat /\ MaxCrashes \in Nat

JobIDs == 1 .. MaxJobs
Jobs   == [id : JobIDs, hash : Configs, dying : BOOLEAN]
ASSUME NoJobIsNoJob == NoJob \notin Jobs

Pods    == JobIDs \X (1 .. GangSize)
PodsOf(id) == {id} \X (1 .. GangSize)

VARIABLES
  job,      (* the Job named for the run                                   *)
  pod,      (* each pod there could be                                     *)
  made,     (* Jobs created so far                                         *)
  config,   (* the hash this process renders                               *)
  pc,       (* the API call the step, or a Stop, is about to make          *)
  placed,   (* awaitGang's map                                             *)
  canceled, (* the step's context                                          *)
  state,    (* Run.State, "running" while in the step                      *)
  guard,    (* Run.CleanupUnconfirmed                                      *)
  lost,     (* history: a process died inside the step                     *)
  crashes

cluster == <<job, pod, made>>
vars == <<job, pod, made, config, pc, placed, canceled, state, guard, lost, crashes>>

StepCalls == {"namespace", "get", "replace", "replaced", "create", "await",
              "clean", "cleaned"}
Calls == StepCalls \cup {"stop", "stopped"}

TypeOK ==
  /\ job \in Jobs \cup {NoJob}
  /\ pod \in [Pods -> {"none", "pending", "bound", "failed"}]
  /\ made \in 0 .. MaxJobs /\ config \in Configs
  /\ pc \in Calls \cup {"rest"} /\ placed \subseteq Pods
  /\ canceled \in BOOLEAN /\ guard \in BOOLEAN /\ lost \in BOOLEAN
  /\ state \in {"running", "failed", "active", "done"}
  /\ crashes \in 0 .. MaxCrashes
  /\ (state = "running") = (pc \in StepCalls)

Init ==
  /\ job = NoJob /\ pod = [p \in Pods |-> "none"] /\ made = 0
  /\ config \in Configs /\ pc = "namespace" /\ placed = {} /\ canceled = FALSE
  /\ state = "running" /\ guard = FALSE /\ lost = FALSE /\ crashes = 0

(***************************************************************************)
(* The cluster.  Nothing in it is in a hurry.                              *)
(***************************************************************************)
Present == job # NoJob
Dying   == Present /\ job.dying

MakePods ==
  /\ Present /\ ~job.dying
  /\ \A p \in PodsOf(job.id) : pod[p] = "none"
  /\ pod' = [p \in Pods |-> IF p \in PodsOf(job.id) THEN "pending" ELSE pod[p]]
  /\ UNCHANGED <<job, made, config, pc, placed, canceled, state, guard, lost, crashes>>

(* The gang of a Job that is being deleted may still place. *)
Bind == \E p \in Pods :
  /\ pod[p] = "pending" /\ pod' = [pod EXCEPT ![p] = "bound"]
  /\ UNCHANGED <<job, made, config, pc, placed, canceled, state, guard, lost, crashes>>

PodFails == \E p \in Pods :
  /\ pod[p] = "bound" /\ pod' = [pod EXCEPT ![p] = "failed"]
  /\ UNCHANGED <<job, made, config, pc, placed, canceled, state, guard, lost, crashes>>

(* Pods end once their Job is dying, or has been taken from over them. *)
PodGone == \E p \in Pods :
  /\ pod[p] # "none" /\ (Present /\ p[1] = job.id => job.dying)
  /\ pod' = [pod EXCEPT ![p] = "none"]
  /\ UNCHANGED <<job, made, config, pc, placed, canceled, state, guard, lost, crashes>>

(* Foreground propagation: the Job goes last. *)
JobGone ==
  /\ Dying /\ \A p \in PodsOf(job.id) : pod[p] = "none"
  /\ job' = NoJob
  /\ UNCHANGED <<pod, made, config, pc, placed, canceled, state, guard, lost, crashes>>

(***************************************************************************)
(* Calls of the client.                                                    *)
(***************************************************************************)

(* Mutant of AfterDelete: background propagation. *)
AfterDeleteBackground(j) == NoJob

AfterDelete(j) == IF j = NoJob THEN NoJob ELSE [j EXCEPT !.dying = TRUE]

(* Client.Delete goes on to `next', a Job that is not there being success; or
   it fails and goes on to `otherwise', taken or not.  `over' says that the
   caller's context is done: the run's for the step, nobody's for Stop, whose
   request outlives CancelAndWait. *)
Delete(over, next, otherwise) ==
  /\ \/ ~over /\ job' = AfterDelete(job) /\ next
     \/ ~over /\ job' = AfterDelete(job) /\ Present /\ otherwise
     \/ UNCHANGED job /\ otherwise
  /\ UNCHANGED <<pod, made>>

(* Mutant of SeenAbsent: a Job with a deletion timestamp counts as gone. *)
SeenLeaving == IF Present THEN job.dying ELSE TRUE

SeenAbsent == ~Present

(* Mutant of Expires: the wait has no deadline. *)
ExpiresOnError == canceled

Expires == TRUE

(* Client.WaitAbsent polls until a Get answers NotFound; a Get that fails, the
   budget or the context ends the wait. *)
WaitAbsent(over, next, otherwise) ==
  /\ \/ ~over /\ SeenAbsent /\ next
     \/ Expires /\ otherwise
  /\ UNCHANGED cluster

Go(next) == pc' = next /\ UNCHANGED <<state, guard>>

(***************************************************************************)
(* The step.                                                               *)
(***************************************************************************)

(* runStep's failure branch, with the guard the error calls for. *)
Fail(g) == pc' = "rest" /\ state' = "failed" /\ guard' = g

(* Nothing before Apply calls for a cleanup. *)
EnsureNamespace ==
  /\ pc = "namespace"
  /\ \/ ~canceled /\ Go("get")
     \/ Fail(guard)
  /\ UNCHANGED <<cluster, config, placed, canceled, lost, crashes>>

(* Apply looks for the Job this process would make. *)
Get ==
  /\ pc = "get"
  /\ \/ ~canceled /\ ~Present /\ Go("create")
     \/ ~canceled /\ Present /\ job.hash = config /\ Go("await")
     \/ ~canceled /\ Present /\ job.hash # config /\ Go("replace")
     \/ Go("clean")
  /\ UNCHANGED <<cluster, config, placed, canceled, lost, crashes>>

(* EnsureAbsent, of a Job another configuration made. *)
Replace ==
  /\ pc = "replace" /\ Delete(canceled, Go("replaced"), Go("clean"))
  /\ UNCHANGED <<config, placed, canceled, lost, crashes>>

Replaced ==
  /\ pc = "replaced" /\ WaitAbsent(canceled, Go("create"), Go("clean"))
  /\ UNCHANGED <<config, placed, canceled, lost, crashes>>

(* A Create that fails may have been accepted; one that finds the name taken
   is no success. *)
Create ==
  /\ pc = "create"
  /\ \/ /\ ~Present /\ made < MaxJobs /\ ~canceled
        /\ made' = made + 1
        /\ job' = [id |-> made + 1, hash |-> config, dying |-> FALSE]
        /\ Go("await") \/ Go("clean")
     \/ Go("clean") /\ UNCHANGED <<job, made>>
  /\ UNCHANGED <<pod, config, placed, canceled, lost, crashes>>

(* Mutant of PlacedNodes: a pod need not have a node. *)
AnyPods == {p \in Pods : pod[p] \in {"pending", "bound"}}

PlacedNodes == {p \in Pods : pod[p] = "bound"}

(* awaitGang reads; a pod once seen stays in the map. *)
Poll ==
  /\ pc = "await" /\ ~canceled
  /\ placed' = placed \cup PlacedNodes
  /\ IF Cardinality(placed') >= GangSize
     THEN pc' = "rest" /\ state' = "active" /\ UNCHANGED guard
     ELSE UNCHANGED <<pc, state, guard>>
  /\ UNCHANGED <<cluster, config, canceled, lost, crashes>>

(* gangTimeoutErr, or a List that failed. *)
PollEnds ==
  /\ pc = "await" /\ Go("clean")
  /\ UNCHANGED <<cluster, config, placed, canceled, lost, crashes>>

(* cleanup wraps the error: unconfirmed, or confirmed once seen absent. *)
Clean ==
  /\ pc = "clean" /\ Delete(canceled, Go("cleaned"), Fail(TRUE))
  /\ UNCHANGED <<config, placed, canceled, lost, crashes>>

Cleaned ==
  /\ pc = "cleaned" /\ WaitAbsent(canceled, Fail(FALSE), Fail(TRUE))
  /\ UNCHANGED <<config, placed, canceled, lost, crashes>>

(***************************************************************************)
(* The engine.                                                             *)
(***************************************************************************)
Retry ==
  /\ pc = "rest" /\ state = "failed" /\ ~canceled
  /\ PatientRetry => ~Dying
  /\ pc' = "namespace" /\ state' = "running" /\ placed' = {}
  /\ UNCHANGED <<cluster, config, canceled, guard, lost, crashes>>

(* Stop: refused while draining, stoppable, then EnsureAbsent on the request's
   own context; an error leaves the run as it is. *)
Stop ==
  /\ pc = "rest" /\ ~canceled
  /\ state = "active" \/ (state = "failed" /\ guard)
  /\ Go("stop")
  /\ UNCHANGED <<cluster, config, placed, canceled, lost, crashes>>

StopDelete ==
  /\ pc = "stop" /\ Delete(FALSE, Go("stopped"), Go("rest"))
  /\ UNCHANGED <<config, placed, canceled, lost, crashes>>

StopWait ==
  /\ pc = "stopped"
  /\ WaitAbsent(FALSE, pc' = "rest" /\ state' = "done" /\ guard' = FALSE, Go("rest"))
  /\ UNCHANGED <<config, placed, canceled, lost, crashes>>

(* CancelAndWait; the process ends without another run. *)
Cancel ==
  /\ ~canceled /\ crashes < MaxCrashes
  /\ canceled' = TRUE
  /\ UNCHANGED <<cluster, config, pc, placed, state, guard, lost, crashes>>

(* The process ends, at any call, and another one recovers the run. *)
Restart ==
  /\ crashes < MaxCrashes
  /\ crashes' = crashes + 1
  /\ state' = IF state = "running" THEN "failed" ELSE state
  /\ lost' = (lost \/ state = "running")
  /\ pc' = "rest" /\ placed' = {} /\ canceled' = FALSE /\ config' \in Configs
  /\ UNCHANGED <<cluster, guard>>

StepCall == EnsureNamespace \/ Get \/ Replace \/ Replaced \/ Create
            \/ Poll \/ PollEnds \/ Clean \/ Cleaned
StopCall == StopDelete \/ StopWait
ClusterStep == MakePods \/ Bind \/ PodFails \/ PodGone \/ JobGone

Next == StepCall \/ Retry \/ Stop \/ StopCall \/ Cancel \/ Restart \/ ClusterStep

Spec == Init /\ [][Next]_vars

(* An API call returns and a budget runs out; of the cluster nothing is sure. *)
FairSpec ==
  /\ Spec /\ WF_vars(EnsureNamespace) /\ WF_vars(Get) /\ WF_vars(Replace)
  /\ WF_vars(Replaced) /\ WF_vars(Create) /\ WF_vars(PollEnds)
  /\ WF_vars(Clean) /\ WF_vars(Cleaned) /\ WF_vars(StopCall)

(***************************************************************************)
(* Properties.                                                             *)
(***************************************************************************)

(* Between calls, a run that is neither active nor marked has left nothing in
   the cluster, not even a pod on its way out, unless a process died inside the
   step (cleanup, Stop, and what Start and Discard go by). *)
UnmarkedIsGone ==
  pc = "rest" /\ state # "active" /\ ~guard /\ ~lost
    => ~Present /\ \A p \in Pods : pod[p] = "none"

(* No gang is made beside one that is still dying (Apply's EnsureAbsent). *)
OneGang ==
  \A p, q \in Pods : pod[p] # "none" /\ pod[q] # "none" => p[1] = q[1]

(* The mark is only cleared over a cluster without the workload, by whichever
   call and after however many attempts (runStep's sticky guard). *)
MarkSticks == [][guard /\ ~guard' => ~Present']_vars

(* A run becomes active when every member of the one gang it names has been
   bound to a node, and that gang's Job is there to stay: "a matching hash
   annotation means the object in the cluster is the one this call wants"
   (client.go:110, steps/prove.go:151). *)
ActiveHasGang ==
  [][state # "active" /\ state' = "active" =>
       /\ Present' /\ ~job'.dying
       /\ placed' = PodsOf(job'.id)
       /\ \A p \in placed' : pod'[p] \in {"bound", "failed"}]_vars

(* A call into the cluster ends although nothing in the cluster moves. *)
CallsEnd == pc # "rest" ~> pc = "rest"

Promise == INSTANCE Workload WITH
  workload <- IF job = NoJob THEN "absent" ELSE IF job.dying THEN "leaving" ELSE "here"

(* The step, Stop and the client keep the promise the engine relies on. *)
KeepsPromise == Promise!Spec
=============================================================================
