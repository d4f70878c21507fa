--------------------------- MODULE ProveJobProofs ---------------------------
(***************************************************************************)
(* What ProveJob promises between its calls, and that it implements        *)
(* Workload when Retry is patient: for every gang size, set of             *)
(* configurations and number of Jobs and crashes.                          *)
(***************************************************************************)
EXTENDS ProveJob, FiniteSetTheorems, TLAPS

(* Every pod belongs to the Job that is there. *)
GangOK == \A p \in Pods : pod[p] # "none" => Present /\ p[1] = job.id

(* Stop is only called for a run that has, or may have, a workload; and a run
   neither active nor marked starts its step over a cluster without one. *)
RunOK ==
  /\ pc \in {"stop", "stopped"} => state = "active" \/ (state = "failed" /\ guard)
  /\ pc \in {"rest", "namespace"} /\ state # "active" /\ ~guard /\ ~lost => ~Present

(* What awaitGang has seen so far, as long as Retry is patient: members of the
   Job it waits for, which nobody deletes meanwhile. *)
AwaitOK ==
  /\ pc \in {"namespace", "get", "await"} => ~Dying
  /\ pc \in {"namespace", "get", "replace", "replaced", "create"} => placed = {}
  /\ pc = "await" =>
       /\ Present
       /\ \A p \in placed : p[1] = job.id /\ pod[p] \in {"bound", "failed"}

IInv == TypeOK /\ GangOK /\ RunOK /\ (PatientRetry => AwaitOK)

LEMMA JobShapes ==
  /\ NoJob \notin Jobs
  /\ \A j \in Jobs : j.id \in JobIDs /\ j.hash \in Configs /\ j.dying \in BOOLEAN
  /\ \A j \in Jobs : /\ AfterDelete(j) \in Jobs
                      /\ AfterDelete(j).id = j.id /\ AfterDelete(j).dying
  /\ AfterDelete(NoJob) = NoJob
BY NoJobIsNoJob DEF Jobs, AfterDelete

LEMMA InitIInv == Init => IInv
<1> SUFFICES ASSUME Init PROVE IInv
  OBVIOUS
<1>1. TypeOK
  <2>1. 0 \in 0 .. MaxJobs /\ 0 \in 0 .. MaxCrashes
    BY ProveAssumption
  <2>2. pc \in StepCalls /\ pc \in Calls
    BY DEF Init, Calls, StepCalls
  <2> QED BY <2>1, <2>2 DEF Init, TypeOK
<1>2. GangOK /\ RunOK /\ AwaitOK
  BY DEF Init, GangOK, RunOK, AwaitOK, Present, Dying
<1> QED BY <1>1, <1>2 DEF IInv

(* The Job and its pods, from one call to the next. *)
LEMMA Deleted ==
  ASSUME IInv, job' = job \/ job' = AfterDelete(job), pod' = pod, made' = made
  PROVE  /\ job' \in Jobs \cup {NoJob} /\ pod' \in [Pods -> {"none", "pending", "bound", "failed"}]
         /\ made' \in 0 .. MaxJobs
         /\ GangOK' /\ Present' = Present
<1>1. TypeOK /\ GangOK
  BY DEF IInv
<1>2. job' \in Jobs \cup {NoJob} /\ Present' = Present /\ (Present => job'.id = job.id)
  BY <1>1, JobShapes DEF TypeOK, Present
<1>3. GangOK'
  BY <1>1, <1>2 DEF GangOK
<1> QED BY <1>1, <1>2, <1>3 DEF TypeOK

(* A call that only reads the cluster. *)
LEMMA Reads ==
  ASSUME IInv, UNCHANGED cluster
  PROVE  /\ job' \in Jobs \cup {NoJob} /\ pod' \in [Pods -> {"none", "pending", "bound", "failed"}]
         /\ made' \in 0 .. MaxJobs
         /\ GangOK' /\ Present' = Present /\ Dying' = Dying
BY DEF IInv, TypeOK, GangOK, Present, Dying, cluster

LEMMA CallIInv == IInv /\ (StepCall \/ StopCall) => IInv'
<1> SUFFICES ASSUME IInv, StepCall \/ StopCall PROVE IInv'
  OBVIOUS
<1>0. TypeOK /\ GangOK /\ RunOK /\ (PatientRetry => AwaitOK)
  BY DEF IInv
<1>a. CASE EnsureNamespace
  <2>1. UNCHANGED cluster
    BY <1>a DEF EnsureNamespace
  <2>2. TypeOK'
    BY <1>0, <1>a, <2>1, Reads DEF EnsureNamespace, Go, Fail, TypeOK, Calls, StepCalls
  <2>3. RunOK' /\ (PatientRetry => AwaitOK')
    BY <1>0, <1>a, <2>1, Reads DEF EnsureNamespace, Go, Fail, TypeOK, RunOK, AwaitOK, StepCalls
  <2> QED BY <2>1, <2>2, <2>3, Reads DEF IInv
<1>b. CASE Get
  <2>1. UNCHANGED cluster
    BY <1>b DEF Get
  <2>2. TypeOK'
    BY <1>0, <1>b, <2>1, Reads DEF Get, Go, TypeOK, Calls, StepCalls
  <2>3. RunOK' /\ (PatientRetry => AwaitOK')
    BY <1>0, <1>b, <2>1, Reads DEF Get, Go, TypeOK, RunOK, AwaitOK, StepCalls
  <2> QED BY <2>1, <2>2, <2>3, Reads DEF IInv
<1>c. CASE Replace
  <2>1. (job' = job \/ job' = AfterDelete(job)) /\ pod' = pod /\ made' = made
        /\ pc' \in {"replaced", "clean"} /\ UNCHANGED <<state, guard>>
    BY <1>c DEF Replace, Delete, Go
  <2>2. TypeOK'
    BY <1>0, <1>c, <2>1, Deleted DEF Replace, TypeOK, Calls, StepCalls
  <2>3. RunOK' /\ (PatientRetry => AwaitOK')
    BY <1>0, <1>c, <2>1 DEF Replace, RunOK, AwaitOK
  <2> QED BY <2>1, <2>2, <2>3, Deleted DEF IInv
<1>d. CASE Replaced
  <2>1. UNCHANGED cluster /\ pc' \in {"create", "clean"} /\ UNCHANGED <<state, guard>>
    BY <1>d DEF Replaced, WaitAbsent, Go
  <2>2. TypeOK'
    BY <1>0, <1>d, <2>1, Reads DEF Replaced, TypeOK, Calls, StepCalls
  <2>3. RunOK' /\ (PatientRetry => AwaitOK')
    BY <1>0, <1>d, <2>1 DEF Replaced, RunOK, AwaitOK
  <2> QED BY <2>1, <2>2, <2>3, Reads DEF IInv
<1>e. CASE Create
  <2>1. /\ pc = "create" /\ pc' \in {"await", "clean"}
        /\ UNCHANGED <<state, guard, pod, config, placed, canceled, lost, crashes>>
    BY <1>e DEF Create, Go
  <2>2. CASE UNCHANGED <<job, made>> /\ pc' = "clean"
    <3>1. UNCHANGED cluster
      BY <2>1, <2>2 DEF cluster
    <3>2. TypeOK'
      BY <1>0, <2>1, <2>2, <3>1, Reads DEF TypeOK, Calls, StepCalls
    <3>3. RunOK' /\ (PatientRetry => AwaitOK')
      BY <2>2 DEF RunOK, AwaitOK
    <3> QED BY <3>1, <3>2, <3>3, Reads DEF IInv
  <2>3. CASE /\ ~Present /\ made < MaxJobs /\ made' = made + 1
             /\ job' = [id |-> made + 1, hash |-> config, dying |-> FALSE]
    <3>1. /\ made' \in 0 .. MaxJobs /\ job' \in Jobs /\ ~job'.dying
      BY <1>0, <2>3, ProveAssumption DEF TypeOK, Jobs, JobIDs
    <3>2. TypeOK'
      BY <1>0, <2>1, <3>1 DEF TypeOK, Calls, StepCalls
    <3>3. GangOK'
      BY <1>0, <2>1, <2>3 DEF GangOK
    <3>4. Present' /\ ~Dying'
      BY <3>1, JobShapes DEF Present, Dying
    <3>5. RunOK' /\ (PatientRetry => AwaitOK')
      BY <1>0, <2>1, <3>4 DEF RunOK, AwaitOK
    <3> QED BY <3>2, <3>3, <3>5 DEF IInv
  <2> QED BY <1>e, <2>2, <2>3 DEF Create, Go
<1>f. CASE Poll
  <2>1. /\ pc = "await" /\ UNCHANGED cluster /\ placed' = placed \cup PlacedNodes
        /\ \/ pc' = "rest" /\ state' = "active" /\ UNCHANGED guard
           \/ UNCHANGED <<pc, state, guard>>
        /\ UNCHANGED <<config, canceled, lost, crashes>>
    BY <1>f DEF Poll
  <2>2. TypeOK'
    BY <1>0, <2>1, Reads DEF TypeOK, Calls, StepCalls, PlacedNodes
  <2>3. RunOK'
    BY <1>0, <2>1 DEF RunOK, TypeOK
  <2>4. PatientRetry => AwaitOK'
    <3>1. SUFFICES ASSUME PatientRetry PROVE AwaitOK'
      OBVIOUS
    <3>2. AwaitOK
      BY <1>0, <3>1
    <3>3. \A p \in PlacedNodes : p[1] = job.id /\ pod[p] = "bound"
      BY <1>0 DEF GangOK, PlacedNodes
    <3>4. Present' = Present /\ Dying' = Dying /\ job' = job /\ pod' = pod
      BY <2>1 DEF cluster, Present, Dying
    <3>5. \A p \in placed' : p[1] = job'.id /\ pod'[p] \in {"bound", "failed"}
      BY <2>1, <3>2, <3>3, <3>4 DEF AwaitOK
    <3> QED BY <2>1, <3>2, <3>4, <3>5 DEF AwaitOK
  <2> QED BY <2>1, <2>2, <2>3, <2>4, Reads DEF IInv
<1>g. CASE PollEnds
  <2>1. UNCHANGED cluster /\ pc' = "clean" /\ UNCHANGED <<state, guard>>
    BY <1>g DEF PollEnds, Go
  <2>2. TypeOK'
    BY <1>0, <1>g, <2>1, Reads DEF PollEnds, TypeOK, Calls, StepCalls
  <2>3. RunOK' /\ AwaitOK'
    BY <2>1 DEF RunOK, AwaitOK
  <2> QED BY <2>1, <2>2, <2>3, Reads DEF IInv
<1>h. CASE Clean
  <2>1. (job' = job \/ job' = AfterDelete(job)) /\ pod' = pod /\ made' = made
        /\ \/ pc' = "cleaned" /\ UNCHANGED <<state, guard>>
           \/ pc' = "rest" /\ state' = "failed" /\ guard' = TRUE
    BY <1>h DEF Clean, Delete, Go, Fail
  <2>2. TypeOK'
    <3>1. pc' \in Calls \cup {"rest"} /\ state' \in {"running", "failed", "active", "done"}
          /\ guard' \in BOOLEAN
      BY <1>0, <2>1 DEF TypeOK, Calls, StepCalls
    <3>2. (state' = "running") = (pc' \in StepCalls)
      <4>1. state = "running"
        BY <1>0, <1>h DEF Clean, TypeOK, StepCalls
      <4> QED BY <2>1, <4>1 DEF StepCalls
    <3> QED BY <1>0, <1>h, <2>1, <3>1, <3>2, Deleted DEF Clean, TypeOK
  <2>3. RunOK' /\ AwaitOK'
    BY <2>1 DEF RunOK, AwaitOK
  <2> QED BY <2>1, <2>2, <2>3, Deleted DEF IInv
<1>i. CASE Cleaned
  <2>1. UNCHANGED cluster /\ pc' = "rest" /\ state' = "failed"
        /\ guard' \in BOOLEAN /\ (~guard' => ~Present)
    BY <1>i DEF Cleaned, WaitAbsent, Fail, SeenAbsent
  <2>2. TypeOK'
    BY <1>0, <1>i, <2>1, Reads DEF Cleaned, TypeOK, Calls, StepCalls
  <2>3. RunOK' /\ AwaitOK'
    BY <2>1, Reads DEF RunOK, AwaitOK
  <2> QED BY <2>1, <2>2, <2>3, Reads DEF IInv
<1>j. CASE StopDelete
  <2>1. (job' = job \/ job' = AfterDelete(job)) /\ pod' = pod /\ made' = made
        /\ pc = "stop" /\ pc' \in {"stopped", "rest"} /\ UNCHANGED <<state, guard, lost>>
    BY <1>j DEF StopDelete, Delete, Go
  <2>2. TypeOK'
    BY <1>0, <1>j, <2>1, Deleted DEF StopDelete, TypeOK, Calls, StepCalls
  <2>3. RunOK' /\ AwaitOK'
    BY <1>0, <2>1 DEF RunOK, AwaitOK
  <2> QED BY <2>1, <2>2, <2>3, Deleted DEF IInv
<1>k. CASE StopWait
  <2>1. UNCHANGED cluster /\ pc = "stopped" /\ pc' = "rest" /\ UNCHANGED lost
        /\ \/ ~Present /\ state' = "done" /\ guard' = FALSE
           \/ UNCHANGED <<state, guard>>
    BY <1>k DEF StopWait, WaitAbsent, Go, SeenAbsent
  <2>2. TypeOK'
    <3>1. state # "running"
      BY <1>0, <2>1 DEF TypeOK, StepCalls
    <3>2. state' \in {"failed", "active", "done"} /\ guard' \in BOOLEAN /\ pc' \notin StepCalls
      BY <1>0, <2>1, <3>1 DEF TypeOK, StepCalls
    <3> QED BY <1>0, <1>k, <2>1, <3>2, Reads DEF StopWait, TypeOK, Calls
  <2>3. RunOK' /\ AwaitOK'
    BY <1>0, <2>1, Reads DEF RunOK, AwaitOK
  <2> QED BY <2>1, <2>2, <2>3, Reads DEF IInv
<1> QED BY <1>a, <1>b, <1>c, <1>d, <1>e, <1>f, <1>g, <1>h, <1>i, <1>j, <1>k DEF StepCall, StopCall

LEMMA ClusterIInv == IInv /\ ClusterStep => IInv'
<1> SUFFICES ASSUME IInv, ClusterStep PROVE IInv'
  OBVIOUS
<1>0. TypeOK /\ GangOK /\ RunOK /\ (PatientRetry => AwaitOK)
  BY DEF IInv
<1>1. UNCHANGED <<made, config, pc, placed, canceled, state, guard, lost, crashes>>
  BY DEF ClusterStep, MakePods, Bind, PodFails, PodGone, JobGone
<1>2. CASE UNCHANGED job
  <2>1. Present' = Present /\ Dying' = Dying
    BY <1>2 DEF Present, Dying
  <2>2. pod' \in [Pods -> {"none", "pending", "bound", "failed"}]
    BY <1>0 DEF ClusterStep, MakePods, Bind, PodFails, PodGone, JobGone, TypeOK
  <2>3. TypeOK'
    BY <1>0, <1>1, <1>2, <2>2 DEF TypeOK
  <2>4. GangOK'
    <3>1. SUFFICES ASSUME NEW p \in Pods, pod'[p] # "none" PROVE Present /\ p[1] = job.id
      BY <1>2, <2>1 DEF GangOK
    <3>2. CASE pod[p] # "none"
      BY <1>0, <3>2 DEF GangOK
    <3>3. CASE pod[p] = "none"
      <4>1. MakePods /\ p \in PodsOf(job.id)
        BY <1>0, <3>1, <3>3 DEF ClusterStep, MakePods, Bind, PodFails, PodGone, JobGone, TypeOK
      <4> QED BY <4>1 DEF MakePods, PodsOf
    <3> QED BY <3>2, <3>3
  <2>5. RunOK'
    BY <1>0, <1>1, <2>1 DEF RunOK
  <2>6. PatientRetry => AwaitOK'
    <3>1. SUFFICES ASSUME PatientRetry PROVE AwaitOK'
      OBVIOUS
    <3>2. AwaitOK
      BY <1>0, <3>1
    <3>3. ASSUME pc = "await", NEW p \in placed PROVE pod'[p] \in {"bound", "failed"}
      <4>1. p \in Pods /\ Present /\ ~job.dying /\ p[1] = job.id /\ pod[p] \in {"bound", "failed"}
        BY <1>0, <3>2, <3>3 DEF AwaitOK, Dying, TypeOK
      <4>2. ~MakePods
        BY <4>1 DEF MakePods, PodsOf, Pods
      <4> QED BY <1>0, <1>2, <4>1, <4>2 DEF ClusterStep, Bind, PodFails, PodGone, JobGone, TypeOK
    <3> QED BY <1>1, <1>2, <2>1, <3>2, <3>3 DEF AwaitOK
  <2> QED BY <2>3, <2>4, <2>5, <2>6 DEF IInv
<1>3. CASE JobGone
  <2>1. Dying /\ job' = NoJob /\ pod' = pod /\ ~Present' /\ ~Dying'
    BY <1>3 DEF JobGone, Present, Dying
  <2>2. \A p \in Pods : pod[p] = "none"
    <3>1. ASSUME NEW p \in Pods, pod[p] # "none" PROVE FALSE
      <4>1. p \in PodsOf(job.id)
        BY <1>0, <3>1 DEF GangOK, Pods, PodsOf
      <4> QED BY <1>3, <3>1, <4>1 DEF JobGone
    <3> QED BY <3>1
  <2>3. TypeOK'
    BY <1>0, <1>1, <2>1 DEF TypeOK
  <2>4. GangOK' /\ RunOK'
    BY <1>0, <1>1, <2>1, <2>2 DEF GangOK, RunOK
  <2>5. PatientRetry => AwaitOK'
    BY <1>0, <1>1, <2>1 DEF AwaitOK
  <2> QED BY <2>3, <2>4, <2>5 DEF IInv
<1> QED BY <1>2, <1>3 DEF ClusterStep, MakePods, Bind, PodFails, PodGone

LEMMA EngineIInv == IInv /\ (Retry \/ Stop \/ Cancel \/ Restart \/ UNCHANGED vars) => IInv'
<1> SUFFICES ASSUME IInv, Retry \/ Stop \/ Cancel \/ Restart \/ UNCHANGED vars PROVE IInv'
  OBVIOUS
<1>0. TypeOK /\ GangOK /\ RunOK /\ (PatientRetry => AwaitOK)
  BY DEF IInv
<1>1. UNCHANGED cluster
  BY DEF Retry, Stop, Go, Cancel, Restart, vars, cluster
<1>2. CASE Retry
  <2>1. TypeOK'
    BY <1>0, <1>1, <1>2, Reads DEF Retry, TypeOK, Calls, StepCalls
  <2>2. RunOK' /\ (PatientRetry => AwaitOK')
    BY <1>0, <1>1, <1>2, Reads DEF Retry, RunOK, AwaitOK
  <2> QED BY <1>1, <2>1, <2>2, Reads DEF IInv
<1>3. CASE Stop
  <2>1. pc' = "stop" /\ state \in {"active", "failed"}
        /\ (state = "active" \/ (state = "failed" /\ guard))
        /\ UNCHANGED <<state, guard, config, placed, canceled, lost, crashes>>
    BY <1>3 DEF Stop, Go
  <2>2. TypeOK'
    <3>1. pc' \in Calls /\ pc' \notin StepCalls
      BY <2>1 DEF Calls, StepCalls
    <3>2. state' # "running"
      BY <2>1
    <3> QED BY <1>0, <1>1, <2>1, <3>1, <3>2, Reads DEF TypeOK
  <2>3. RunOK' /\ AwaitOK'
    BY <2>1 DEF RunOK, AwaitOK
  <2> QED BY <1>1, <2>2, <2>3, Reads DEF IInv
<1>4. CASE Cancel
  <2>1. TypeOK'
    BY <1>0, <1>1, <1>4, Reads DEF Cancel, TypeOK
  <2>2. RunOK' /\ (PatientRetry => AwaitOK')
    BY <1>0, <1>1, <1>4 DEF Cancel, RunOK, AwaitOK, cluster, Present, Dying
  <2> QED BY <1>1, <2>1, <2>2, Reads DEF IInv
<1>5. CASE Restart
  <2>1. /\ pc' = "rest" /\ placed' = {} /\ canceled' = FALSE /\ config' \in Configs /\ guard' = guard
        /\ state' = (IF state = "running" THEN "failed" ELSE state)
        /\ lost' = (lost \/ state = "running")
    BY <1>5 DEF Restart
  <2>2. crashes' \in 0 .. MaxCrashes
    BY <1>0, <1>5, ProveAssumption DEF Restart, TypeOK
  <2>3. state' \in {"failed", "active", "done"} /\ lost' \in BOOLEAN
    BY <1>0, <2>1 DEF TypeOK
  <2>4. TypeOK'
    <3>1. pc' \notin StepCalls /\ state' # "running"
      BY <2>1, <2>3 DEF StepCalls
    <3>2. /\ config' \in Configs /\ pc' \in Calls \cup {"rest"} /\ placed' \subseteq Pods
          /\ canceled' \in BOOLEAN /\ guard' \in BOOLEAN
          /\ state' \in {"running", "failed", "active", "done"}
      BY <1>0, <2>1, <2>3 DEF TypeOK
    <3>3. (state' = "running") = (pc' \in StepCalls)
      BY <3>1
    <3> QED BY <1>1, <2>2, <2>3, <3>2, <3>3, Reads DEF TypeOK
  <2>5. RunOK'
    <3>1. pc \in StepCalls \/ pc \in {"stop", "stopped", "rest"}
      BY <1>0 DEF TypeOK, Calls
    <3>2. CASE state = "running"
      BY <2>1, <3>2 DEF RunOK
    <3>3. CASE state # "running"
      BY <1>0, <1>1, <2>1, <3>1, <3>3, Reads DEF RunOK, TypeOK
    <3> QED BY <3>2, <3>3
  <2>6. AwaitOK'
    BY <2>1 DEF AwaitOK
  <2> QED BY <1>1, <2>4, <2>5, <2>6, Reads DEF IInv
<1>6. CASE UNCHANGED vars
  BY <1>0, <1>1, <1>6, Reads DEF vars, IInv, TypeOK, RunOK, AwaitOK
<1> QED BY <1>2, <1>3, <1>4, <1>5, <1>6

LEMMA NextIInv == IInv /\ [Next]_vars => IInv'
BY CallIInv, ClusterIInv, EngineIInv DEF Next

LEMMA Inductive == Spec => []IInv
<1> QED BY InitIInv, NextIInv, PTL DEF Spec

(***************************************************************************)
(* The properties.                                                         *)
(***************************************************************************)

(* The types of ProveJob; a run is running exactly while its step makes calls. *)
THEOREM ProveTypes == Spec => []TypeOK
<1>1. IInv => TypeOK
  BY DEF IInv
<1> QED BY <1>1, Inductive, PTL

(* A run that is neither active nor marked left nothing behind, not even a pod,
   whatever call failed before (cleanup, Stop). *)
THEOREM NothingLeftUnmarked == Spec => []UnmarkedIsGone
<1>1. IInv => UnmarkedIsGone
  BY DEF IInv, RunOK, GangOK, UnmarkedIsGone
<1> QED BY <1>1, Inductive, PTL

(* Foreground deletion and EnsureAbsent before Create keep gangs apart. *)
THEOREM GangsApart == Spec => []OneGang
<1>1. IInv => OneGang
  BY DEF IInv, GangOK, OneGang
<1> QED BY <1>1, Inductive, PTL

(* The mark is cleared by a call that has seen the Job absent, or not at all. *)
THEOREM MarkStays == Spec => MarkSticks
<1>1. IInv /\ [Next]_vars => (guard /\ ~guard' => ~Present')
  <2> SUFFICES ASSUME IInv, [Next]_vars, guard, ~guard' PROVE ~Present'
    OBVIOUS
  <2>1. Cleaned \/ StopWait
    BY DEF Next, StepCall, StopCall, ClusterStep, EnsureNamespace, Get, Replace, Replaced, Create,
       Poll, PollEnds, Clean, StopDelete, Delete, WaitAbsent, Go, Fail, Retry, Stop,
       Cancel, Restart, MakePods, Bind, PodFails, PodGone, JobGone, vars
  <2>2. UNCHANGED cluster /\ ~Present
    BY <2>1 DEF Cleaned, StopWait, WaitAbsent, Fail, Go, SeenAbsent
  <2> QED BY <2>2, Reads
<1> QED BY <1>1, Inductive, PTL DEF Spec, MarkSticks

(***************************************************************************)
(* With a patient Retry.                                                   *)
(***************************************************************************)
LEMMA WholeGang ==
  ASSUME NEW id \in JobIDs, NEW S \in SUBSET PodsOf(id), Cardinality(S) >= GangSize
  PROVE  S = PodsOf(id)
<1>1. IsFiniteSet({id}) /\ Cardinality({id}) = 1
  BY FS_Singleton
<1>2. IsFiniteSet(1 .. GangSize) /\ Cardinality(1 .. GangSize) = GangSize
  BY FS_Interval, ProveAssumption
<1>3. IsFiniteSet(PodsOf(id)) /\ Cardinality(PodsOf(id)) = 1 * GangSize
  <2>1. /\ IsFiniteSet({id} \X (1 .. GangSize))
        /\ Cardinality({id} \X (1 .. GangSize))
             = Cardinality({id}) * Cardinality(1 .. GangSize)
    BY <1>1, <1>2, FS_Product, Zenon
  <2> QED BY <1>1, <1>2, <2>1, Zenon DEF PodsOf
<1>4. Cardinality(S) <= Cardinality(PodsOf(id)) /\ IsFiniteSet(S)
      /\ (Cardinality(PodsOf(id)) = Cardinality(S) => PodsOf(id) = S)
  BY <1>3, FS_Subset
<1>5. Cardinality(S) \in Nat
  BY <1>4, FS_CardinalityType
<1> QED BY <1>3, <1>4, <1>5, ProveAssumption

LEMMA PollCompletes ==
  ASSUME IInv, PatientRetry, Poll, state' = "active"
  PROVE  /\ Present /\ ~job.dying /\ placed' = PodsOf(job.id) /\ UNCHANGED cluster
         /\ \A p \in placed' : pod[p] \in {"bound", "failed"}
<1>0. TypeOK /\ GangOK /\ AwaitOK
  BY DEF IInv
<1>1. pc = "await" /\ UNCHANGED cluster /\ placed' = placed \cup PlacedNodes
      /\ Cardinality(placed') >= GangSize
  BY <1>0 DEF Poll, TypeOK, StepCalls
<1>2. Present /\ ~job.dying /\ job.id \in JobIDs
  BY <1>0, <1>1, JobShapes DEF AwaitOK, Dying, Present, TypeOK
<1>3. \A p \in placed' : p \in Pods /\ p[1] = job.id /\ pod[p] \in {"bound", "failed"}
  BY <1>0, <1>1 DEF AwaitOK, GangOK, PlacedNodes, TypeOK
<1>4. placed' \subseteq PodsOf(job.id)
  BY <1>3 DEF Pods, PodsOf
<1> QED BY <1>1, <1>2, <1>3, <1>4, WholeGang

(* A run becomes active over the whole gang of a Job that is there to stay,
   provided nobody retries while the Job of the attempt before is being deleted. *)
THEOREM ActiveIsPlaced == PatientRetry => (Spec => ActiveHasGang)
<1> SUFFICES ASSUME PatientRetry PROVE Spec => ActiveHasGang
  OBVIOUS
<1>1. IInv /\ [Next]_vars =>
        (state # "active" /\ state' = "active" =>
           /\ Present' /\ ~job'.dying
           /\ placed' = PodsOf(job'.id)
           /\ \A p \in placed' : pod'[p] \in {"bound", "failed"})
  <2> SUFFICES ASSUME IInv, [Next]_vars, state # "active", state' = "active"
               PROVE  /\ Present' /\ ~job'.dying
                      /\ placed' = PodsOf(job'.id)
                      /\ \A p \in placed' : pod'[p] \in {"bound", "failed"}
    OBVIOUS
  <2>1. Poll
    BY DEF Next, StepCall, StopCall, ClusterStep, EnsureNamespace, Get, Replace, Replaced, Create,
       PollEnds, Clean, Cleaned, StopDelete, StopWait, Delete, WaitAbsent, Go, Fail, Retry, Stop,
       Cancel, Restart, MakePods, Bind, PodFails, PodGone, JobGone, vars
  <2>2. job' = job /\ pod' = pod
    BY <2>1, PollCompletes DEF cluster
  <2> QED BY <2>1, <2>2, PollCompletes DEF Present
<1> QED BY <1>1, Inductive, PTL DEF Spec, ActiveHasGang

(***************************************************************************)
(* The refinement of Workload.                                             *)
(***************************************************************************)
Where == IF job = NoJob THEN "absent" ELSE IF job.dying THEN "leaving" ELSE "here"

(* Where the workload is, after a delete was taken or not. *)
LEMMA WhereDeleted ==
  ASSUME IInv, job' = job \/ job' = AfterDelete(job)
  PROVE  /\ Where \in {"absent", "here", "leaving"} /\ (Where = "absent") = ~Present
         /\ Where' = Where \/ (Where = "here" /\ Where' = "leaving")
<1>1. job \in Jobs \cup {NoJob}
  BY DEF IInv, TypeOK
<1> QED BY <1>1, JobShapes DEF Where, Present

LEMMA StepKeepsPromise ==
  IInv /\ PatientRetry /\ [Next]_vars => [Promise!Next]_(Promise!vars)
<1> SUFFICES ASSUME IInv, PatientRetry, [Next]_vars PROVE [Promise!Next]_(Promise!vars)
  OBVIOUS
<1> USE DEF Promise!Next, Promise!vars
<1>0. TypeOK /\ RunOK /\ AwaitOK
  BY DEF IInv
<1>s. ASSUME UNCHANGED <<job, state, guard, lost>> PROVE UNCHANGED (Promise!vars)
  BY <1>s
<1>d. ASSUME job' = job \/ job' = AfterDelete(job), UNCHANGED <<state, guard, lost>>
      PROVE  [Promise!Next]_(Promise!vars)
  BY <1>d, WhereDeleted DEF Where, Promise!Doomed
<1>1. CASE EnsureNamespace
  <2>1. CASE UNCHANGED <<state, guard>>
    BY <1>1, <1>s, <2>1 DEF EnsureNamespace, cluster
  <2>2. CASE Fail(guard)
    <3>1. state = "running" /\ state' = "failed" /\ UNCHANGED <<job, guard, lost>>
      BY <1>0, <1>1, <2>2 DEF EnsureNamespace, Fail, cluster, TypeOK, StepCalls
    <3>2. Present => guard \/ lost
      BY <1>0, <1>1, <3>1 DEF EnsureNamespace, RunOK
    <3>3. Promise!FailUntouched
      BY <3>1, <3>2 DEF Promise!FailUntouched, Present
    <3> QED BY <3>3
  <2> QED BY <1>1, <2>1, <2>2 DEF EnsureNamespace, Go
<1>2. CASE Get \/ Replaced \/ PollEnds
  <2>1. UNCHANGED <<job, state, guard, lost>>
    BY <1>2 DEF Get, Replaced, PollEnds, WaitAbsent, Go, cluster
  <2> QED BY <1>s, <2>1
<1>3. CASE Replace \/ StopDelete
  <2>1. (job' = job \/ job' = AfterDelete(job)) /\ UNCHANGED <<state, guard, lost>>
    BY <1>3 DEF Replace, StopDelete, Delete, Go
  <2> QED BY <1>d, <2>1
<1>4. CASE Create
  <2>1. UNCHANGED <<state, guard, lost>>
    BY <1>4 DEF Create, Go
  <2>2. CASE UNCHANGED job
    BY <1>s, <2>1, <2>2
  <2>3. CASE job' # job
    <3>1. ~Present /\ job' = [id |-> made + 1, hash |-> config, dying |-> FALSE] /\ made < MaxJobs
      BY <1>4, <2>3 DEF Create
    <3>2. job' \in Jobs /\ ~job'.dying
      BY <1>0, <3>1, ProveAssumption DEF TypeOK, Jobs, JobIDs
    <3>3. state = "running"
      BY <1>0, <1>4 DEF Create, TypeOK, StepCalls
    <3>4. Promise!Appear
      BY <2>1, <3>1, <3>2, <3>3, JobShapes DEF Promise!Appear, Present
    <3> QED BY <3>4
  <2> QED BY <2>2, <2>3
<1>5. CASE Poll
  <2>1. UNCHANGED <<cluster, lost>>
    BY <1>5 DEF Poll
  <2>2. CASE UNCHANGED <<state, guard>>
    BY <1>s, <2>1, <2>2 DEF cluster
  <2>3. CASE state' = "active" /\ UNCHANGED guard
    <3>1. Present /\ ~job.dying
      BY <1>5, <2>3, PollCompletes
    <3>2. state = "running"
      BY <1>0, <1>5 DEF Poll, TypeOK, StepCalls
    <3>3. Promise!Succeed
      BY <2>1, <2>3, <3>1, <3>2 DEF Promise!Succeed, Present, cluster
    <3> QED BY <3>3
  <2> QED BY <1>5, <2>2, <2>3 DEF Poll
<1>6. CASE Clean
  <2>1. (job' = job \/ job' = AfterDelete(job)) /\ UNCHANGED lost
        /\ (UNCHANGED <<state, guard>> \/ (state' = "failed" /\ guard' = TRUE))
    BY <1>6 DEF Clean, Delete, Go, Fail
  <2>2. state = "running"
    BY <1>0, <1>6 DEF Clean, TypeOK, StepCalls
  <2>3. CASE UNCHANGED <<state, guard>>
    BY <1>d, <2>1, <2>3
  <2>4. CASE state' = "failed" /\ guard' = TRUE
    <3>1. Promise!FailMarked
      BY <2>1, <2>2, <2>4, WhereDeleted DEF Promise!FailMarked, Where
    <3> QED BY <3>1
  <2> QED BY <2>1, <2>3, <2>4
<1>7. CASE Cleaned
  <2>1. UNCHANGED <<job, lost>> /\ state' = "failed" /\ (guard' = TRUE \/ (guard' = FALSE /\ ~Present))
    BY <1>7 DEF Cleaned, WaitAbsent, Fail, SeenAbsent, cluster
  <2>2. state = "running"
    BY <1>0, <1>7 DEF Cleaned, TypeOK, StepCalls
  <2>3. Promise!FailMarked \/ Promise!FailClean
    BY <2>1, <2>2 DEF Promise!FailMarked, Promise!FailClean, Present
  <2> QED BY <2>3
<1>8. CASE StopWait
  <2>1. UNCHANGED <<job, lost>> /\ (UNCHANGED <<state, guard>>
                                     \/ (~Present /\ state' = "done" /\ guard' = FALSE))
    BY <1>8 DEF StopWait, WaitAbsent, Go, SeenAbsent, cluster
  <2>2. state \in {"active", "failed"}
    BY <1>0, <1>8 DEF StopWait, RunOK
  <2>3. CASE UNCHANGED <<state, guard>>
    BY <1>s, <2>1, <2>3
  <2>4. CASE ~Present /\ state' = "done" /\ guard' = FALSE
    <3>1. Promise!Stopped
      BY <2>1, <2>2, <2>4 DEF Promise!Stopped, Present
    <3> QED BY <3>1
  <2> QED BY <2>1, <2>3, <2>4
<1>9. CASE Retry
  <2>1. Promise!Begin
    BY <1>9 DEF Retry, Promise!Begin, cluster
  <2> QED BY <2>1
<1>10. CASE Stop \/ Cancel \/ UNCHANGED vars
  <2>1. UNCHANGED <<job, state, guard, lost>>
    BY <1>10 DEF Stop, Go, Cancel, cluster, vars
  <2> QED BY <1>s, <2>1
<1>11. CASE Restart
  <2>1. Promise!Die
    BY <1>11 DEF Restart, Promise!Die, cluster
  <2> QED BY <2>1
<1>12. CASE MakePods \/ Bind \/ PodFails \/ PodGone
  <2>1. UNCHANGED <<job, state, guard, lost>>
    BY <1>12 DEF MakePods, Bind, PodFails, PodGone
  <2> QED BY <1>s, <2>1
<1>13. CASE JobGone
  <2>1. Promise!Gone
    BY <1>13 DEF JobGone, Dying, Present, Promise!Gone
  <2> QED BY <2>1
<1> QED BY <1>1, <1>2, <1>3, <1>4, <1>5, <1>6, <1>7, <1>8, <1>9, <1>10, <1>11, <1>12, <1>13
        DEF Next, StepCall, StopCall, ClusterStep

(* The step, Stop and the client implement what the engine relies on, provided
   nobody retries while a Job is being deleted. *)
THEOREM ImplementsWorkload == PatientRetry => (Spec => KeepsPromise)
<1> SUFFICES ASSUME PatientRetry PROVE Spec => KeepsPromise
  OBVIOUS
<1>1. Init => Promise!Init
  BY DEF Init, Promise!Init
<1>2. IInv /\ [Next]_vars => [Promise!Next]_(Promise!vars)
  BY StepKeepsPromise
<1> QED BY <1>1, <1>2, Inductive, PTL DEF Spec, KeepsPromise, Promise!Spec
=============================================================================
