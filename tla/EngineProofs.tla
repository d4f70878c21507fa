---------------------------- MODULE EngineProofs ----------------------------
(***************************************************************************)
(* What holds of the engine for every pipeline, set of runs, set of        *)
(* callers, set of faults and kind of client, with the inductive           *)
(* invariants it follows from.  Each layer rests on the ones before it:    *)
(*   IInv         EngineTyped, OneDriver, RecoveredGateHasRun,             *)
(*                DrainedIsQuiet;                                          *)
(*   RecordInv    RefusalHasRemedy: what a settled, driven or saved run    *)
(*                may be;                                                  *)
(*   BundleOK,    ApplyHasBundle and DoneMeansGone, where a Reset's own    *)
(*   DoneOK       save can only end with the process;                      *)
(*   TrackOK      WorkloadTracked, before the first crash;                 *)
(*   CalmSaves,   AckedDecisionDurable, for clients that decide on what    *)
(*   DecideOK     the event stream showed them;                            *)
(*   PersistOK    LiveRunHasRecord, for clients that let a Delete return;  *)
(*   HalfOK       HalfRemovedIsGuarded, for one crash.                     *)
(***************************************************************************)
EXTENDS EngineInvariants, TLAPS

(***************************************************************************)
(* The shapes of the steps.                                                *)
(***************************************************************************)
Calm(r) == r # NoRun => ~Live(r)

(* Only goroutine e changes, and nothing of the requests or the shutdown. *)
OnlyThread(e) ==
  /\ thr' \in [Epochs -> Threads]
  /\ \A f \in Epochs : f # e => thr'[f] = thr[f]
  /\ thr'[e].pc \in Saving => thr'[e].snap \in Runs
  /\ UNCHANGED <<up, epoch, draining, req, waitOn, drained>>

(* A driving goroutine goes on driving its run. *)
Continues(e) ==
  /\ OnlyThread(e)
  /\ thr[e].pc \in Driving /\ thr'[e].pc \in Driving \ {"launchStart"}
  /\ thr'[e].id = thr[e].id
  /\ cur' \in Runs /\ Live(cur') /\ cur'.id = cur.id
  /\ thr'[e].pc \in {"stepSave", "step"} => cur'.idx < NSteps
  /\ UNCHANGED recPending

(* A driving goroutine leaves, and so does the live state. *)
Retires(e) ==
  /\ OnlyThread(e)
  /\ thr[e].pc \in Driving /\ thr'[e].pc \in Spent
  /\ cur' \in Runs \cup {NoRun} /\ Calm(cur')
  /\ recPending' \in BOOLEAN /\ (recPending' => cur' # NoRun)

(* A goroutine that has left persists what it left behind. *)
Trails(e) ==
  /\ OnlyThread(e)
  /\ thr[e].pc \in Spent \ {"over"} /\ thr'[e].pc \in Spent
  /\ UNCHANGED cur
  /\ recPending' \in BOOLEAN /\ (recPending' => recPending)

(* A new goroutine takes a settled run over. *)
Launches ==
  /\ up = "serving" /\ ~draining /\ Calm(cur)
  /\ epoch' = epoch + 1 /\ epoch' \in Epochs
  /\ cur' \in Runs /\ Live(cur')
  /\ thr' \in [Epochs -> Threads]
  /\ \A f \in Epochs : f # epoch' => thr'[f] = thr[f]
  /\ thr'[epoch'].pc \in Launching
  /\ thr'[epoch'].id = cur'.id /\ thr'[epoch'].snap = cur'
  /\ thr'[epoch'].pc = "launchStart" => ~recPending' /\ Calm(thr'[epoch'].undo)
  /\ recPending' \in BOOLEAN /\ (recPending' => recPending)
  /\ UNCHANGED <<up, draining, req, waitOn, drained>>

(* A request takes a step: it may change the current run, but never from
   settled to live or back, and of a goroutine only the resume channel. *)
Asks(c) ==
  /\ up = "serving"
  /\ req' \in [Callers -> Requests]
  /\ \A d \in Callers : d # c => req'[d] = req[d]
  /\ thr' \in [Epochs -> Threads]
  /\ \A e \in Epochs : /\ thr'[e].pc = thr[e].pc /\ thr'[e].id = thr[e].id
                       /\ thr'[e].snap = thr[e].snap /\ thr'[e].undo = thr[e].undo
  /\ \/ UNCHANGED cur
     \/ /\ cur \in Runs /\ cur' \in Runs /\ Live(cur) /\ Live(cur')
        /\ cur'.id = cur.id /\ cur'.idx = cur.idx
     \/ cur' \in Runs \cup {NoRun} /\ Calm(cur) /\ Calm(cur')
  /\ recPending' \in BOOLEAN
  /\ recPending' => cur' # NoRun /\ (recPending \/ cur = NoRun)
  /\ UNCHANGED <<up, epoch, draining, waitOn, drained>>
  /\ RequestOK(c)'

LEMMA ContinuesKeeps ==
  ASSUME Core, NEW e \in Epochs, Continues(e)
  PROVE  Core'
<1> USE NoRunAssumption DEF Core, Continues, OnlyThread
<1>1. cur # NoRun /\ Live(cur) /\ cur.id = thr[e].id /\ e = epoch /\ cur' # NoRun
  BY DEF OneDriver
<1>2. CoreOK'
  BY DEF CoreOK
<1>3. OneDriver'
  BY <1>1 DEF OneDriver
<1>4. \A f \in Epochs : ThreadOK(f)'
  BY <1>1 DEF ThreadOK, OneDriver, CoreOK, Driving, Executing
<1>5. \A c \in Callers : RequestOK(c)'
  BY <1>1 DEF RequestOK
<1>6. PhaseOK' /\ DrainOK'
  BY <1>1 DEF PhaseOK, DrainOK, CoreOK, Epochs, Driving, Launching, Executing, Tearing
<1>7. RecoveredGateHasRun'
  BY <1>1 DEF RecoveredGateHasRun
<1> QED
  BY <1>2, <1>3, <1>4, <1>5, <1>6, <1>7

LEMMA RetiresKeeps ==
  ASSUME Core, NEW e \in Epochs, Retires(e)
  PROVE  Core'
<1> USE NoRunAssumption DEF Core, Retires, OnlyThread
<1>1. /\ cur # NoRun /\ Live(cur) /\ e = epoch
      /\ \A f \in Epochs : thr'[f].pc \notin Driving
  BY DEF OneDriver, Driving, Launching, Executing, Tearing, Spent
<1>2. CoreOK'
  BY DEF CoreOK
<1>3. OneDriver'
  BY <1>1 DEF OneDriver, Calm
<1>4. \A f \in Epochs : ThreadOK(f)'
  BY <1>1 DEF ThreadOK, CoreOK, Driving, Launching, Executing
<1>5. \A c \in Callers : RequestOK(c)'
  BY DEF RequestOK, Calm
<1>6. PhaseOK' /\ DrainOK'
  BY <1>1 DEF PhaseOK, DrainOK, CoreOK, Epochs, Driving, Launching, Executing, Tearing
<1>7. RecoveredGateHasRun'
  BY DEF RecoveredGateHasRun
<1> QED
  BY <1>2, <1>3, <1>4, <1>5, <1>6, <1>7

LEMMA TrailsKeeps ==
  ASSUME Core, NEW e \in Epochs, Trails(e)
  PROVE  Core'
<1> USE DEF Core, Trails, OnlyThread
<1>1. thr[e].pc \notin Driving /\ thr'[e].pc \notin Driving
  BY DEF Driving, Launching, Executing, Tearing, Spent
<1>2. CoreOK'
  BY DEF CoreOK
<1>3. OneDriver'
  BY <1>1 DEF OneDriver
<1>4. \A f \in Epochs : ThreadOK(f)'
  BY <1>1 DEF ThreadOK, CoreOK, Driving, Launching, Executing, Spent
<1>5. \A c \in Callers : RequestOK(c)'
  BY DEF RequestOK
<1>6. PhaseOK' /\ DrainOK'
  BY <1>1 DEF PhaseOK, DrainOK, CoreOK, Epochs, Spent
<1>7. RecoveredGateHasRun'
  BY DEF RecoveredGateHasRun
<1> QED
  BY <1>2, <1>3, <1>4, <1>5, <1>6, <1>7

LEMMA LaunchesKeeps ==
  ASSUME Core, Launches
  PROVE  Core'
<1> USE NoRunAssumption DEF Core, Launches
<1>1. /\ \A f \in Epochs : thr[f].pc \notin Driving
      /\ cur' # NoRun /\ drained = FALSE /\ waitOn = 0
  BY DEF OneDriver, Calm, CoreOK, DrainOK
<1>2. CoreOK'
  BY DEF CoreOK, Epochs
<1>3. OneDriver'
  BY <1>1 DEF OneDriver, Driving
<1>4. \A f \in Epochs : ThreadOK(f)'
  BY <1>1 DEF ThreadOK, CoreOK, Driving, Launching, Executing, Calm, Epochs
<1>5. \A c \in Callers : RequestOK(c)'
  BY DEF RequestOK, CoreOK, Requests
<1>6. PhaseOK' /\ DrainOK'
  BY <1>1 DEF PhaseOK, DrainOK
<1>7. RecoveredGateHasRun'
  BY <1>1 DEF RecoveredGateHasRun
<1> QED
  BY <1>2, <1>3, <1>4, <1>5, <1>6, <1>7

LEMMA AsksKeeps ==
  ASSUME Core, NEW c \in Callers, Asks(c)
  PROVE  Core'
<1> USE NoRunAssumption DEF Core, Asks
<1>1. cur \in Runs => cur # NoRun
  OBVIOUS
<1>2. CoreOK'
  BY DEF CoreOK
<1>3. OneDriver'
  BY DEF OneDriver, Calm
<1>4. \A f \in Epochs : ThreadOK(f)'
  BY DEF ThreadOK, CoreOK, OneDriver, Calm, Driving, Launching, Executing
<1>5. \A d \in Callers : RequestOK(d)'
  BY DEF RequestOK, Calm
<1>6. PhaseOK' /\ DrainOK'
  BY DEF PhaseOK, DrainOK, CoreOK, Epochs
<1>7. RecoveredGateHasRun'
  BY DEF RecoveredGateHasRun
<1> QED
  BY <1>2, <1>3, <1>4, <1>5, <1>6, <1>7

(***************************************************************************)
(* The store's calls keep the store typed.                                 *)
(***************************************************************************)
StoreTyped == ptr \in RunIDs \cup {NoID} /\ rec \in Runs \cup {NoRun}

LEMMA SaveKeeps ==
  ASSUME StoreTyped, NEW r \in Runs, NEW k,
         SaveSucceeds(r) \/ SaveFails(r, k) \/ Checkpoint(r, k)
  PROVE  StoreTyped'
<1>1. r.id \in RunIDs
  BY DEF Runs
<1> QED
  BY <1>1 DEF StoreTyped, SaveSucceeds, SaveFails, Checkpoint, storeVars,
              Store!SaveOK, Store!SaveFailed, Store!storeVars

LEMMA DeleteKeeps ==
  ASSUME StoreTyped, DeleteSucceeds \/ DeleteFails \/ Store!DeleteFailed
  PROVE  StoreTyped'
BY DEF StoreTyped, DeleteSucceeds, DeleteFails, storeVars,
       Store!DeleteOK, Store!DeleteFailed, Store!storeVars

(***************************************************************************)
(* The steps of a goroutine.                                               *)
(***************************************************************************)
LEMMA Driven ==
  ASSUME IInv, NEW e \in Epochs, thr[e].pc \in Driving
  PROVE  /\ cur \in Runs /\ cur # NoRun /\ Live(cur)
         /\ cur.id = thr[e].id /\ cur.id \in RunIDs
         /\ e = epoch /\ thr[e] \in Threads /\ Owns(e)
BY NoRunAssumption DEF IInv, Core, CoreOK, OneDriver, Runs, Owns

LEMMA RunEdits ==
  ASSUME NEW r \in Runs
  PROVE  /\ \A s \in States :
              /\ [r EXCEPT !.state = s] \in Runs
              /\ [r EXCEPT !.state = s].state = s
              /\ [r EXCEPT !.state = s].id = r.id
              /\ [r EXCEPT !.state = s].idx = r.idx
         /\ r.id \in RunIDs /\ r.state \in States /\ r.idx \in 0 .. NSteps
         /\ r.decided \in SUBSET (0 .. NSteps)
         /\ r.cleanup \in BOOLEAN /\ r.installed \in BOOLEAN
         /\ r.workload \in BOOLEAN /\ r.residue \in BOOLEAN
BY DEF Runs

LEMMA ContinuingSteps ==
  ASSUME IInv, NEW e \in Epochs,
         \/ LaunchSaved(e) \/ Park(e) \/ ParkSaved(e) \/ Resume(e)
         \/ RunStep(e) \/ StepSaved(e) \/ MergeSaved(e) \/ Install(e)
         \/ CreateWorkload(e) \/ StepSucceeds(e) \/ WorkloadAbsent(e) \/ Uninstall(e)
  PROVE  WorldOK' /\ Continues(e)
<1> USE DEF IInv, Core, WorldOK, CoreOK, OnlyThread, exitVars, worldVars, histVars, memVars
<1>0. thr[e].pc \in Driving
  BY DEF LaunchSaved, Park, ParkSaved, Resume, RunStep, StepSaved, MergeSaved,
         CheckpointSaved, Install, CreateWorkload, StepSucceeds, WorkloadAbsent,
         Uninstall, Drives, Driving, Launching, Executing, Tearing
<1> DEFINE t == thr[e]
<1>1. /\ cur \in Runs /\ cur # NoRun /\ Live(cur) /\ cur.id = t.id
      /\ cur.id \in RunIDs /\ e = epoch /\ t \in Threads
  BY <1>0, Driven
<1>2. ThreadOK(e) /\ StoreTyped
  BY DEF StoreTyped
<1>3. CASE LaunchSaved(e)
  <2>1. t.snap \in Runs
    BY <1>2, <1>3 DEF ThreadOK, LaunchSaved, Saving
  <2>2. WorldOK'
    BY <1>2, <1>3, <2>1, SaveKeeps DEF LaunchSaved, StoreTyped
  <2>3. thr'[e] = [t EXCEPT !.pc = IF t.pc = "launchReset" THEN "teardown" ELSE "loop",
                            !.snap = NoRun, !.undo = NoRun]
    BY <1>3 DEF LaunchSaved
  <2>4. /\ thr'[e] \in Threads /\ thr'[e].id = t.id
        /\ thr'[e].pc \in {"teardown", "loop"}
    BY <1>1, <2>3 DEF Threads, Driving, Executing, Tearing
  <2>5. Continues(e)
    BY <1>0, <1>1, <1>3, <2>4 DEF Continues, LaunchSaved, Driving, Launching,
       Executing, Tearing, Saving
  <2> QED BY <2>2, <2>5
<1>4. CASE Park(e)
  <2>1. /\ cur' \in Runs /\ Live(cur') /\ cur'.id = cur.id
    BY <1>1, <1>4 DEF Park, Runs, States, Live
  <2>2. thr'[e] = [t EXCEPT !.pc = "parkSave", !.snap = cur']
    BY <1>4 DEF Park
  <2>3. Continues(e)
    BY <1>1, <1>4, <2>1, <2>2 DEF Continues, Park, Drives, Threads, Driving, Launching,
       Executing, Tearing, Saving
  <2> QED BY <1>4, <2>3 DEF Park
<1>5. CASE RunStep(e)
  <2>1. /\ cur' \in Runs /\ Live(cur') /\ cur'.id = cur.id /\ cur'.idx < NSteps
    BY <1>1, <1>5 DEF RunStep, Runs, States, Live
  <2>2. thr'[e] = [t EXCEPT !.pc = "stepSave", !.snap = cur',
                            !.inst = cur.installed, !.made = FALSE]
    BY <1>5 DEF RunStep
  <2>3. cur.installed \in BOOLEAN
    BY <1>1, RunEdits
  <2>4. /\ thr'[e] \in Threads /\ thr'[e].id = t.id
        /\ thr'[e].pc = "stepSave" /\ thr'[e].snap = cur'
    BY <1>1, <2>1, <2>2, <2>3 DEF Threads, Driving, Executing
  <2>5. Continues(e)
    BY <1>0, <1>1, <1>5, <2>1, <2>4 DEF Continues, RunStep, Driving, Executing, Saving
  <2> QED BY <1>5, <2>5 DEF RunStep
<1>6. ASSUME NEW from \in {"parkSave", "stepSave", "mergeSave"},
             NEW to \in {"parked", "step", "loop"},
             CheckpointSaved(e, from, to), to = "step" => from = "stepSave"
      PROVE  WorldOK' /\ Continues(e)
  <2>1. t.snap \in Runs /\ (to = "step" => cur.idx < NSteps)
    BY <1>2, <1>6 DEF ThreadOK, CheckpointSaved, Saving
  <2>2. WorldOK'
    BY <1>2, <1>6, <2>1, SaveKeeps DEF CheckpointSaved, StoreTyped
  <2>3. thr'[e] = [t EXCEPT !.pc = to, !.snap = NoRun]
    BY <1>6 DEF CheckpointSaved
  <2>4. /\ thr'[e] \in Threads /\ thr'[e].id = t.id
        /\ thr'[e].pc = to
    BY <1>1, <1>6, <2>3 DEF Threads, Driving, Executing
  <2>5. Continues(e)
    BY <1>0, <1>1, <1>6, <2>1, <2>4 DEF Continues, CheckpointSaved, Driving, Launching,
       Executing, Tearing, Saving
  <2> QED BY <2>2, <2>5
<1>7. CASE ParkSaved(e) \/ StepSaved(e) \/ MergeSaved(e)
  BY <1>6, <1>7 DEF ParkSaved, StepSaved, MergeSaved
<1>8. CASE Resume(e)
  <2>1. thr'[e] = [t EXCEPT !.pc = "loop", !.token = FALSE]
    BY <1>8 DEF Resume
  <2>2. Continues(e)
    BY <1>1, <1>8, <2>1 DEF Continues, Resume, Threads, Driving, Launching,
       Executing, Tearing, Saving
  <2> QED BY <1>8, <2>2 DEF Resume
<1>9. CASE Install(e)
  <2>1. thr'[e] = [t EXCEPT !.inst = TRUE]
    BY <1>9 DEF Install
  <2>2. Continues(e)
    BY <1>1, <1>2, <1>9, <2>1 DEF Continues, ThreadOK, Install, Drives, Threads, Driving, Launching,
       Executing, Tearing, Saving
  <2> QED BY <1>9, <2>2 DEF Install
<1>10. CASE CreateWorkload(e)
  <2>1. thr'[e] = [t EXCEPT !.made = TRUE]
    BY <1>10 DEF CreateWorkload
  <2>2. Continues(e)
    BY <1>1, <1>2, <1>10, <2>1 DEF Continues, ThreadOK, CreateWorkload, Drives, Threads, Driving,
       Launching, Executing, Tearing, Saving
  <2> QED BY <1>1, <1>10, <2>2 DEF CreateWorkload
<1>11. CASE StepSucceeds(e)
  <2>1. cur.idx < NSteps /\ t.inst \in BOOLEAN
    BY <1>1, <1>2, <1>11 DEF ThreadOK, StepSucceeds, Drives, Threads
  <2>2. cur.idx + 1 \in 0 .. NSteps
    BY <1>1, <2>1, RunEdits, PipelineAssumption
  <2>3. cur' = [cur EXCEPT !.idx = cur.idx + 1, !.installed = t.inst,
                           !.workload = cur.workload \/ cur.idx = ProveStep]
    BY <1>11 DEF StepSucceeds
  <2>4. cur' \in Runs /\ Live(cur') /\ cur'.id = cur.id
    BY <1>1, <2>1, <2>2, <2>3 DEF Runs, Live
  <2>5. thr'[e] = [t EXCEPT !.pc = "mergeSave", !.snap = cur']
    BY <1>11 DEF StepSucceeds
  <2>6. /\ thr'[e] \in Threads /\ thr'[e].id = t.id
        /\ thr'[e].pc = "mergeSave" /\ thr'[e].snap = cur'
    BY <1>1, <2>4, <2>5 DEF Threads, Driving, Executing
  <2>7. Continues(e)
    BY <1>0, <1>1, <1>11, <2>4, <2>6 DEF Continues, StepSucceeds, Driving, Executing, Saving
  <2> QED BY <1>1, <1>11, <2>7 DEF StepSucceeds
<1>12. CASE WorkloadAbsent(e)
  <2>1. thr'[e] = [t EXCEPT !.pc = "releases"]
    BY <1>12 DEF WorkloadAbsent
  <2>2. Continues(e)
    BY <1>1, <1>12, <2>1 DEF Continues, WorkloadAbsent, Drives, Threads, Driving,
       Launching, Executing, Tearing, Saving
  <2> QED BY <1>12, <2>2 DEF WorkloadAbsent
<1>13. CASE Uninstall(e)
  BY <1>0, <1>1, <1>2, <1>13 DEF Continues, ThreadOK, Uninstall, Drives, Tearing,
     Driving, Launching, Executing, Saving
<1> QED
  BY <1>3, <1>4, <1>5, <1>7, <1>8, <1>9, <1>10, <1>11, <1>12, <1>13

LEMMA RetiringSteps ==
  ASSUME IInv, NEW e \in Epochs,
         \/ StartFailed(e) \/ RetryFailed(e) \/ ResetFailed(e)
         \/ Complete(e) \/ ParkCanceled(e)
         \/ StepFails(e) \/ ProveCleaned(e) \/ ProveUncleaned(e)
         \/ WorkloadStuck(e) \/ ReleasesRemoved(e) \/ ReleasesKept(e)
  PROVE  WorldOK' /\ Retires(e)
<1> USE DEF IInv, Core, WorldOK, CoreOK, exitVars, worldVars, histVars, memVars
<1>0. thr[e].pc \in Driving
  BY DEF StartFailed, RetryFailed, ResetFailed, LaunchFailed, Complete, ParkCanceled,
         StepFails, ProveCleaned, ProveUncleaned, WorkloadStuck, ReleasesRemoved,
         ReleasesKept, Drives, Driving, Launching, Executing, Tearing
<1> DEFINE t == thr[e]
<1>1. /\ cur \in Runs /\ cur # NoRun /\ Live(cur) /\ Owns(e)
      /\ cur.id \in RunIDs /\ e = epoch /\ t \in Threads
  BY <1>0, Driven
<1>2. ThreadOK(e) /\ StoreTyped
  BY DEF StoreTyped
<1>3. ASSUME NEW pc \in Launching, NEW kind, LaunchFailed(e, pc, kind),
             cur' \in Runs \cup {NoRun}, Calm(cur'),
             recPending' \in BOOLEAN, recPending' => cur' # NoRun
      PROVE  WorldOK' /\ Retires(e)
  <2>1. t.snap \in Runs
    BY <1>2, <1>3 DEF ThreadOK, LaunchFailed, Saving
  <2>2. WorldOK'
    BY <1>2, <1>3, <2>1, SaveKeeps DEF LaunchFailed, StoreTyped
  <2>3. thr'[e] = [t EXCEPT !.pc = "over", !.snap = NoRun, !.undo = NoRun]
    BY <1>3 DEF LaunchFailed
  <2>4. thr'[e] \in Threads /\ thr'[e].pc = "over"
    BY <1>1, <2>3 DEF Threads, Spent
  <2>5. Retires(e)
    BY <1>0, <1>1, <1>3, <2>4 DEF Retires, OnlyThread, LaunchFailed, Saving, Launching, Spent
  <2> QED BY <2>2, <2>5
<1>4. CASE StartFailed(e)
  <2>1. cur' = t.undo /\ recPending' = FALSE /\ Calm(t.undo)
    BY <1>1, <1>2, <1>4 DEF StartFailed, LaunchFailed, ThreadOK, Calm
  <2>2. t.undo \in Runs \cup {NoRun}
    BY <1>1 DEF Threads
  <2> QED BY <1>3, <1>4, <2>1, <2>2 DEF StartFailed, Launching
<1>5. CASE RetryFailed(e) \/ ResetFailed(e)
  <2>1. cur' = [cur EXCEPT !.state = "failed"]
    BY <1>1, <1>5 DEF RetryFailed, ResetFailed
  <2>2. cur' \in Runs /\ Calm(cur') /\ cur' # NoRun
    BY <1>1, <2>1, NoRunAssumption DEF Runs, States, Calm, Live
  <2>3. recPending' \in BOOLEAN
    BY <1>1, <1>5 DEF RetryFailed, ResetFailed, Threads
  <2> QED BY <1>3, <1>5, <2>2, <2>3 DEF RetryFailed, ResetFailed, Launching
<1>6. ASSUME NEW r \in Runs, ~Live(r), NEW pc \in {"finishSave", "resetSave"},
             FinishAs(e, r, pc),
             UNCHANGED <<up, epoch, draining, req, waitOn, drained, recPending>>
      PROVE  Retires(e)
  <2>1. thr'[e] = [t EXCEPT !.pc = pc, !.snap = r]
    BY <1>6 DEF FinishAs
  <2>2. thr'[e] \in Threads /\ thr'[e].pc = pc /\ thr'[e].snap = r
    BY <1>1, <1>6, <2>1 DEF Threads, Spent
  <2> QED
    BY <1>0, <1>1, <1>6, <2>2, NoRunAssumption DEF Retires, OnlyThread, FinishAs, Calm, Spent
<1>7. CASE Complete(e)
  <2>1. [cur EXCEPT !.state = "active"] \in Runs /\ ~Live([cur EXCEPT !.state = "active"])
    BY <1>1 DEF Runs, States, Live
  <2> QED BY <1>6, <1>7, <2>1 DEF Complete
<1>8. CASE ParkCanceled(e)
  <2>1. [cur EXCEPT !.state = "failed"] \in Runs /\ ~Live([cur EXCEPT !.state = "failed"])
    BY <1>1 DEF Runs, States, Live
  <2> QED BY <1>6, <1>8, <2>1 DEF ParkCanceled
<1>9. ASSUME NEW k \in BOOLEAN, FailStep(e, k)
      PROVE  Retires(e)
  <2> DEFINE r == [cur EXCEPT !.state = "failed", !.installed = t.inst, !.cleanup = k]
  <2>1. r \in Runs /\ ~Live(r)
    BY <1>1, <1>9 DEF Runs, States, Live, Threads
  <2> QED BY <1>6, <1>9, <2>1 DEF FailStep
<1>10. CASE StepFails(e)
  <2>1. cur.cleanup \in BOOLEAN
    BY <1>1 DEF Runs
  <2> QED BY <1>9, <1>10, <2>1 DEF StepFails, FailStep
<1>11. CASE ProveCleaned(e) \/ ProveUncleaned(e)
  BY <1>1, <1>9, <1>11 DEF ProveCleaned, ProveUncleaned, FailStep
<1>12. Unfinished(cur) \in Runs /\ ~Live(Unfinished(cur))
  BY <1>1 DEF Runs, States, Live, Unfinished
<1>13. CASE WorkloadStuck(e)
  BY <1>1, <1>6, <1>12, <1>13 DEF WorkloadStuck
<1>14. CASE ReleasesKept(e)
  BY <1>1, <1>6, <1>12, <1>14 DEF ReleasesKept
<1>15. CASE ReleasesRemoved(e)
  <2> DEFINE r == [cur EXCEPT !.state = "done", !.residue = FALSE]
  <2>1. r \in Runs /\ ~Live(r)
    BY <1>1 DEF Runs, States, Live
  <2> QED BY <1>1, <1>6, <1>15, <2>1 DEF ReleasesRemoved
<1> QED
  BY <1>4, <1>5, <1>7, <1>8, <1>10, <1>11, <1>13, <1>14, <1>15

LEMMA TrailingSteps ==
  ASSUME IInv, NEW e \in Epochs,
         FinishSaved(e) \/ ResetSaved(e) \/ ResetDelete(e) \/ ResetClear(e)
  PROVE  WorldOK' /\ Trails(e)
<1> USE DEF IInv, Core, WorldOK, CoreOK, exitVars, worldVars, histVars, memVars
<1> DEFINE t == thr[e]
<1>1. t \in Threads /\ ThreadOK(e) /\ StoreTyped
  BY DEF StoreTyped
<1>2. CASE FinishSaved(e) \/ ResetSaved(e)
  <2>1. t.snap \in Runs
    BY <1>1, <1>2 DEF ThreadOK, FinishSaved, ResetSaved, Saving
  <2>2. WorldOK'
    BY <1>1, <1>2, <2>1, SaveKeeps DEF FinishSaved, ResetSaved, StoreTyped
  <2>3. PICK pc \in {"over", "delete"} : thr'[e] = [t EXCEPT !.pc = pc, !.snap = NoRun]
    BY <1>2 DEF FinishSaved, ResetSaved
  <2>4. thr'[e] \in Threads /\ thr'[e].pc = pc
    BY <1>1, <2>3 DEF Threads, Spent
  <2>5. Trails(e)
    BY <1>1, <1>2, <2>4 DEF Trails, OnlyThread, FinishSaved, ResetSaved, Saving, Launching, Spent
  <2> QED BY <2>2, <2>5
<1>3. CASE ResetDelete(e)
  <2>1. WorldOK'
    BY <1>1, <1>3, DeleteKeeps DEF ResetDelete, StoreTyped
  <2>2. thr'[e] = [t EXCEPT !.pc = "clear"]
    BY <1>3 DEF ResetDelete
  <2>3. thr'[e] \in Threads /\ thr'[e].pc = "clear"
    BY <1>1, <2>2 DEF Threads, Spent
  <2>4. Trails(e)
    BY <1>1, <1>3, <2>3 DEF Trails, OnlyThread, ResetDelete, Saving, Launching, Spent
  <2> QED BY <2>1, <2>4
<1>4. CASE ResetClear(e)
  <2>1. thr'[e] = [t EXCEPT !.pc = "over"]
    BY <1>4 DEF ResetClear
  <2>2. thr'[e] \in Threads /\ thr'[e].pc = "over"
    BY <1>1, <2>1 DEF Threads, Spent
  <2>3. Trails(e)
    BY <1>1, <1>4, <2>2 DEF Trails, OnlyThread, ResetClear, Saving, Launching, Spent
  <2> QED BY <1>4, <2>3 DEF ResetClear
<1> QED
  BY <1>2, <1>3, <1>4

(***************************************************************************)
(* Start, Retry, Reset.                                                    *)
(***************************************************************************)
LEMMA LaunchingSteps ==
  ASSUME IInv, Start \/ Retry \/ Reset
  PROVE  WorldOK' /\ Launches
<1> USE DEF IInv, Core, WorldOK, CoreOK, exitVars, worldVars, histVars
<1>1. ASSUME NEW pc \in Launching, NEW r \in Runs, NEW p \in Runs \cup {NoRun},
             Live(r), Calm(cur), Serving, Launch(pc, r, p),
             recPending' \in BOOLEAN, recPending' => recPending,
             pc = "launchStart" => ~recPending' /\ Calm(p),
             UNCHANGED <<up, draining, req, waitOn, drained>>
      PROVE  Launches
  <2> DEFINE t == [Unborn EXCEPT !.pc = pc, !.id = r.id, !.snap = r, !.undo = p,
                                 !.rp = recPending]
  <2>1. epoch + 1 \in Epochs /\ epoch' = epoch + 1
    BY <1>1, BoundAssumption DEF Launch, Epochs
  <2>2. Unborn \in Threads
    BY DEF Unborn, Threads
  <2>3. t \in Threads
    BY <1>1, <2>2 DEF Threads, Runs, Driving
  <2>4. t.pc = pc /\ t.id = r.id /\ t.snap = r /\ t.undo = p
    BY <2>2 DEF Threads
  <2>5. thr' = [thr EXCEPT ![epoch + 1] = t] /\ cur' = r
    BY <1>1 DEF Launch
  <2> HIDE DEF t
  <2>6. /\ thr' \in [Epochs -> Threads] /\ thr'[epoch'] = t
        /\ \A f \in Epochs : f # epoch' => thr'[f] = thr[f]
    BY <2>1, <2>3, <2>5
  <2> QED
    BY <1>1, <2>1, <2>4, <2>5, <2>6 DEF Launches, Serving
<1>2. CASE Start
  <2>1. PICK id \in RunIDs \ used : Launch("launchStart", NewRun(id), cur)
                                    /\ used' = used \cup {id}
    BY <1>2 DEF Start
  <2>2. NewRun(id) \in Runs /\ Live(NewRun(id))
    BY <2>1, PipelineAssumption DEF NewRun, Runs, States, Live
  <2>3. Calm(cur) /\ ~recPending /\ Serving
    BY <1>2 DEF Start, CanStart, Calm
  <2>4. Launches
    BY <1>1, <1>2, <2>1, <2>2, <2>3 DEF Start, Launching
  <2> QED BY <1>2, <2>1, <2>4 DEF Start
<1>3. CASE Retry
  <2> DEFINE r == [cur EXCEPT !.state = "running"]
  <2>1. cur \in Runs /\ Serving /\ cur.state = "failed"
    BY <1>3 DEF Retry, CanRetry
  <2>2. r \in Runs /\ Live(r) /\ Calm(cur)
    BY <2>1 DEF Runs, States, Live, Calm
  <2>3. Launch("launchRetry", r, NoRun)
    BY <1>3 DEF Retry
  <2> HIDE DEF r
  <2>4. Launches
    BY <1>1, <1>3, <2>1, <2>2, <2>3 DEF Retry, Launching
  <2> QED BY <1>3, <2>4 DEF Retry
<1>4. CASE Reset
  <2> DEFINE r == [cur EXCEPT !.state = "resetting", !.residue = FALSE]
  <2>1. cur \in Runs /\ Serving /\ Calm(cur)
    BY <1>4 DEF Reset, CanReset, Calm
  <2>2. r \in Runs /\ Live(r)
    BY <2>1 DEF Runs, States, Live
  <2>3. Launch("launchReset", r, NoRun)
    BY <1>4 DEF Reset
  <2> HIDE DEF r
  <2>4. Launches
    BY <1>1, <1>4, <2>1, <2>2, <2>3 DEF Reset, Launching
  <2> QED BY <1>4, <2>4 DEF Reset
<1> QED
  BY <1>2, <1>3, <1>4

(***************************************************************************)
(* Decide, Discard, Stop.                                                  *)
(***************************************************************************)
LEMMA RequestSteps ==
  ASSUME IInv, NEW c \in Callers,
         Decide(c) \/ Discard(c) \/ Stop(c) \/ RequestStep(c)
  PROVE  WorldOK' /\ Asks(c)
<1> USE NoRunAssumption
        DEF IInv, Core, WorldOK, CoreOK, exitVars, worldVars, histVars, memVars
<1> DEFINE q == req[c]
<1>1. q \in Requests /\ RequestOK(c) /\ StoreTyped /\ epoch \in Nat
  BY BoundAssumption DEF StoreTyped
<1>2. q.pc # "idle" => /\ up = "serving" /\ q.id \in RunIDs /\ q.undo \in Runs
                       /\ q.epoch <= epoch
  BY <1>1 DEF PhaseOK, RequestOK
<1>3. ASSUME NEW pc, NEW snap, Enter(c, pc, snap), up = "serving", cur \in Runs,
             pc \in {"decideSave", "discardDelete", "stopAbsent"},
             snap \in Runs \cup {NoRun}
      PROVE  /\ req' \in [Callers -> Requests]
             /\ \A d \in Callers : d # c => req'[d] = req[d]
             /\ req'[c].pc = pc /\ req'[c].id = cur.id /\ req'[c].epoch = epoch
             /\ req'[c].snap = snap /\ req'[c].undo = cur
             /\ cur.id \in RunIDs
  <2> DEFINE n == [pc |-> pc, id |-> cur.id, epoch |-> epoch, snap |-> snap,
                   undo |-> cur, rp |-> recPending]
  <2>1. n \in Requests /\ cur.id \in RunIDs
    BY <1>3 DEF Requests, Runs
  <2>2. /\ n.pc = pc /\ n.id = cur.id /\ n.epoch = epoch
        /\ n.snap = snap /\ n.undo = cur
    OBVIOUS
  <2>3. req' = [req EXCEPT ![c] = n]
    BY <1>3 DEF Enter
  <2> HIDE DEF n
  <2> QED BY <2>1, <2>2, <2>3
<1>4. CASE Decide(c)
  <2> DEFINE r == [cur EXCEPT !.state = "running", !.decided = cur.decided \cup {cur.idx}]
  <2>1. cur \in Runs /\ cur.state = "awaiting" /\ up = "serving" /\ cur' = r
    BY <1>4 DEF Decide
  <2>2. r \in Runs /\ Live(r) /\ Live(cur) /\ r.id = cur.id /\ r.idx = cur.idx
    BY <2>1 DEF Runs, States, Live
  <2> HIDE DEF r
  <2>3. Enter(c, "decideSave", cur')
    BY <1>4 DEF Decide
  <2>4. Asks(c)
    BY <1>1, <1>3, <1>4, <2>1, <2>2, <2>3 DEF Asks, Decide, RequestOK, RecoveredGateHasRun
  <2> QED BY <1>4, <2>4 DEF Decide
<1>5. CASE Discard(c)
  <2>1. cur \in Runs /\ ~Live(cur) /\ up = "serving" /\ Enter(c, "discardDelete", NoRun)
    BY <1>5 DEF Discard, CanDiscard, Serving
  <2>2. /\ req' \in [Callers -> Requests]
        /\ \A d \in Callers : d # c => req'[d] = req[d]
        /\ req'[c].pc = "discardDelete" /\ req'[c].id \in RunIDs
        /\ req'[c].epoch = epoch /\ req'[c].undo = cur
    BY <1>3, <2>1
  <2>3. /\ cur' = NoRun /\ recPending' = FALSE
        /\ UNCHANGED <<up, epoch, draining, thr, waitOn, drained>>
    BY <1>5 DEF Discard
  <2>4. RequestOK(c)'
    BY <1>1, <2>1, <2>2, <2>3 DEF RequestOK
  <2>5. Calm(cur) /\ Calm(cur')
    BY <2>1, <2>3 DEF Calm
  <2>6. Asks(c)
    BY <2>1, <2>2, <2>3, <2>4, <2>5 DEF Asks
  <2> QED BY <1>5, <2>6 DEF Discard
<1>6. CASE Stop(c)
  <2>1. cur \in Runs /\ up = "serving" /\ Enter(c, "stopAbsent", NoRun)
    BY <1>6 DEF Stop, CanStop, Serving
  <2>2. ~Live(cur)
    BY <1>6 DEF Stop, CanStop, Stoppable, Unconfirmed, Live
  <2>3. Asks(c)
    BY <1>1, <1>3, <1>6, <2>1, <2>2 DEF Asks, Stop, RequestOK, RecoveredGateHasRun
  <2> QED BY <1>6, <2>3 DEF Stop
<1>7. /\ NoRequest \in Requests /\ NoRequest.pc = "idle" /\ NoRequest.epoch = 0
  BY BoundAssumption DEF NoRequest, Requests
<1>8. ASSUME Leave(c)
      PROVE  /\ req' \in [Callers -> Requests]
             /\ \A d \in Callers : d # c => req'[d] = req[d]
             /\ req'[c].pc = "idle" /\ req'[c].epoch = 0
  BY <1>7, <1>8 DEF Leave
<1>9. ASSUME NEW pc \in {"decideResume", "stopMark", "stopFinish", "stopSave", "stopClear"},
             NEW s \in Runs \cup {NoRun},
             req' = [req EXCEPT ![c].pc = pc, ![c].snap = s]
      PROVE  /\ req' \in [Callers -> Requests]
             /\ \A d \in Callers : d # c => req'[d] = req[d]
             /\ req'[c].pc = pc /\ req'[c].snap = s
             /\ req'[c].id = q.id /\ req'[c].epoch = q.epoch /\ req'[c].undo = q.undo
  <2> DEFINE n == [q EXCEPT !.pc = pc, !.snap = s]
  <2>1. req'[c] = n
    BY <1>9
  <2>2. /\ n \in Requests /\ n.pc = pc /\ n.snap = s
        /\ n.id = q.id /\ n.epoch = q.epoch /\ n.undo = q.undo
    BY <1>1, <1>9 DEF Requests
  <2>3. \A d \in Callers : d # c => req'[d] = req[d]
    BY <1>9
  <2> HIDE DEF n
  <2>4. req' \in [Callers -> Requests]
    BY <1>9, <2>1, <2>2, <2>3
  <2> QED BY <2>1, <2>2, <2>3, <2>4
<1>10. ASSUME NEW pc \in {"stopMark", "stopFinish", "stopClear"},
              req' = [req EXCEPT ![c].pc = pc]
       PROVE  /\ req' \in [Callers -> Requests]
              /\ \A d \in Callers : d # c => req'[d] = req[d]
              /\ req'[c].pc = pc
              /\ req'[c].id = q.id /\ req'[c].epoch = q.epoch /\ req'[c].undo = q.undo
  <2> DEFINE n == [q EXCEPT !.pc = pc]
  <2>1. /\ n \in Requests /\ n.pc = pc
        /\ n.id = q.id /\ n.epoch = q.epoch /\ n.undo = q.undo
    BY <1>1, <1>10 DEF Requests
  <2>2. req' = [req EXCEPT ![c] = n]
    BY <1>10
  <2> HIDE DEF n
  <2> QED BY <2>1, <2>2
<1>11. CASE DecideSaved(c)
  <2>1. q.snap \in Runs
    BY <1>1, <1>11 DEF DecideSaved, RequestOK
  <2>2. WorldOK'
    BY <1>1, <1>11, <2>1, SaveKeeps DEF DecideSaved, StoreTyped
  <2>3. Asks(c)
    BY <1>1, <1>2, <1>9, <1>11 DEF Asks, DecideSaved, RequestOK, RecoveredGateHasRun
  <2> QED BY <2>2, <2>3
<1>12. CASE DecideFailed(c)
  <2>1. q.snap \in Runs /\ q.undo \in Runs /\ q.undo.state = "awaiting" /\ q.pc # "idle"
    BY <1>1, <1>12 DEF DecideFailed, RequestOK
  <2>2. WorldOK'
    BY <1>1, <1>12, <2>1, SaveKeeps DEF DecideFailed, StoreTyped
  <2>3. \/ UNCHANGED cur
        \/ /\ cur \in Runs /\ cur' \in Runs /\ Live(cur) /\ Live(cur')
           /\ cur'.id = cur.id /\ cur'.idx = cur.idx
    <3>1. CASE Holds(c) /\ Live(cur)
      <4> DEFINE r == [cur EXCEPT !.state = q.undo.state, !.decided = q.undo.decided]
      <4>1. cur \in Runs /\ cur' = r
        BY <1>12, <3>1 DEF DecideFailed, Holds
      <4>2. r \in Runs /\ Live(r) /\ r.id = cur.id /\ r.idx = cur.idx
        BY <2>1, <4>1 DEF Runs, States, Live
      <4> QED BY <3>1, <4>1, <4>2
    <3>2. CASE ~(Holds(c) /\ Live(cur))
      BY <1>12, <3>2 DEF DecideFailed
    <3> QED BY <3>1, <3>2
  <2>4. Asks(c)
    BY <1>1, <1>2, <1>8, <1>12, <2>1, <2>3 DEF Asks, DecideFailed, RequestOK, RecoveredGateHasRun
  <2> QED BY <2>2, <2>4
<1>13. CASE DecideResume(c)
  <2>1. q.pc # "idle" /\ q.undo.idx \in 0 .. NSteps
    BY <1>2, <1>13 DEF DecideResume, Runs
  <2>2. WorldOK'
    BY <1>2, <1>13, <2>1 DEF DecideResume
  <2>3. /\ thr' \in [Epochs -> Threads]
        /\ \A e \in Epochs : /\ thr'[e].pc = thr[e].pc /\ thr'[e].id = thr[e].id
                             /\ thr'[e].snap = thr[e].snap /\ thr'[e].undo = thr[e].undo
    <3>1. CASE epoch \in Epochs
      <4> DEFINE t == [thr[epoch] EXCEPT !.token = TRUE]
      <4>1. /\ t \in Threads /\ t.pc = thr[epoch].pc /\ t.id = thr[epoch].id
            /\ t.snap = thr[epoch].snap /\ t.undo = thr[epoch].undo
        BY <3>1 DEF Threads
      <4>2. thr' = thr \/ thr' = [thr EXCEPT ![epoch] = t]
        BY <1>13 DEF DecideResume
      <4> HIDE DEF t
      <4> QED BY <3>1, <4>1, <4>2
    <3>2. CASE epoch \notin Epochs
      BY <1>13, <3>2 DEF DecideResume
    <3> QED BY <3>1, <3>2
  <2>4. Asks(c)
    BY <1>1, <1>2, <1>8, <1>13, <2>1, <2>3 DEF Asks, DecideResume, RequestOK, RecoveredGateHasRun
  <2> QED BY <2>2, <2>4
<1>14. CASE DiscardDeleted(c)
  <2>1. WorldOK'
    BY <1>1, <1>14, DeleteKeeps DEF DiscardDeleted, StoreTyped
  <2>2. Asks(c)
    BY <1>1, <1>2, <1>8, <1>14 DEF Asks, DiscardDeleted, RequestOK, RecoveredGateHasRun
  <2> QED BY <2>1, <2>2
<1>15. CASE DiscardFailed(c)
  <2>1. q.undo \in Runs /\ ~Live(q.undo) /\ q.rp \in BOOLEAN
    BY <1>1, <1>15 DEF DiscardFailed, RequestOK, Requests
  <2>2. WorldOK'
    BY <1>1, <1>15, DeleteKeeps DEF DiscardFailed, StoreTyped
  <2>3. Asks(c)
    BY <1>1, <1>2, <1>8, <1>15, <2>1
    DEF Asks, DiscardFailed, RequestOK, RecoveredGateHasRun, Calm
  <2> QED BY <2>2, <2>3
<1>16. CASE StopAbsent(c)
  <2>1. Asks(c)
    BY <1>1, <1>2, <1>10, <1>16 DEF Asks, StopAbsent, RequestOK, RecoveredGateHasRun
  <2> QED BY <1>16, <2>1 DEF StopAbsent
<1>17. CASE StopFailed(c)
  <2>1. Asks(c)
    BY <1>1, <1>2, <1>8, <1>17 DEF Asks, StopFailed, RequestOK, RecoveredGateHasRun
  <2> QED BY <1>17, <2>1 DEF StopFailed
<1>18. CASE StopMark(c)
  <2>1. \/ UNCHANGED cur
        \/ cur' \in Runs /\ Calm(cur) /\ Calm(cur')
    <3>1. CASE Holds(c)
      <4> DEFINE r == [cur EXCEPT !.workload = TRUE, !.cleanup = FALSE]
      <4>1. cur \in Runs /\ ~Live(cur) /\ cur' = r
        BY <1>1, <1>18, <3>1 DEF StopMark, Holds, RequestOK
      <4>2. r \in Runs /\ ~Live(r)
        BY <4>1 DEF Runs, Live
      <4> QED BY <4>1, <4>2 DEF Calm
    <3>2. CASE ~Holds(c)
      BY <1>18, <3>2 DEF StopMark
    <3> QED BY <3>1, <3>2
  <2>2. Asks(c)
    BY <1>1, <1>2, <1>10, <1>18, <2>1 DEF Asks, StopMark, RequestOK, RecoveredGateHasRun, Calm
  <2> QED BY <1>18, <2>2 DEF StopMark
<1>19. CASE StopFinish(c)
  <2>1. CASE epoch = q.epoch /\ cur # NoRun
    <3> DEFINE r == [cur EXCEPT !.state = "done"]
    <3>1. cur \in Runs /\ ~Live(cur) /\ cur' = r
      BY <1>1, <1>19, <2>1 DEF StopFinish, RequestOK
    <3>2. r \in Runs /\ ~Live(r)
      BY <3>1 DEF Runs, States, Live
    <3>3. req' = [req EXCEPT ![c].pc = "stopSave", ![c].snap = r]
      BY <1>19, <2>1 DEF StopFinish
    <3> HIDE DEF r
    <3>4. /\ up = "serving" /\ q.id \in RunIDs /\ q.undo \in Runs
          /\ q.epoch <= epoch
      BY <1>2, <1>19 DEF StopFinish
    <3>5. /\ req' \in [Callers -> Requests]
          /\ \A d \in Callers : d # c => req'[d] = req[d]
          /\ req'[c].pc = "stopSave" /\ req'[c].snap = r
          /\ req'[c].id = q.id /\ req'[c].epoch = q.epoch /\ req'[c].undo = q.undo
      BY <1>9, <3>2, <3>3
    <3>6. UNCHANGED <<up, epoch, recPending, draining, thr, waitOn, drained>>
      BY <1>19 DEF StopFinish
    <3>7. RequestOK(c)'
      BY <3>2, <3>4, <3>5, <3>6 DEF RequestOK
    <3>8. Calm(cur) /\ Calm(cur') /\ cur' # NoRun
      BY <3>1, <3>2 DEF Calm
    <3>9. Asks(c)
      BY <2>1, <3>1, <3>2, <3>4, <3>5, <3>6, <3>7, <3>8 DEF Asks
    <3> QED BY <1>19, <3>9 DEF StopFinish
  <2>2. CASE ~(epoch = q.epoch /\ cur # NoRun)
    <3>1. req' = [req EXCEPT ![c].pc = "stopClear"] /\ UNCHANGED cur
      BY <1>19, <2>2 DEF StopFinish
    <3>2. Asks(c)
      BY <1>1, <1>2, <1>10, <1>19, <3>1 DEF Asks, StopFinish, RequestOK, RecoveredGateHasRun
    <3> QED BY <1>19, <3>2 DEF StopFinish
  <2> QED BY <2>1, <2>2
<1>20. CASE StopSaved(c)
  <2>1. q.snap \in Runs
    BY <1>1, <1>20 DEF StopSaved, RequestOK
  <2>2. WorldOK'
    BY <1>1, <1>20, <2>1, SaveKeeps DEF StopSaved, StoreTyped
  <2>3. Asks(c)
    BY <1>1, <1>2, <1>9, <1>20 DEF Asks, StopSaved, RequestOK, RecoveredGateHasRun
  <2> QED BY <2>2, <2>3
<1>21. CASE StopClear(c)
  <2>1. /\ Leave(c) /\ recPending' = FALSE /\ q.pc # "idle"
        /\ UNCHANGED <<up, cur, epoch, draining, thr, waitOn, drained>>
    BY <1>21 DEF StopClear
  <2>2. RequestOK(c)'
    BY <1>1, <1>8, <2>1 DEF RequestOK
  <2>3. Asks(c)
    BY <1>2, <1>8, <2>1, <2>2 DEF Asks
  <2> QED BY <1>21, <2>3 DEF StopClear
<1> QED
  BY <1>4, <1>5, <1>6, <1>11, <1>12, <1>13, <1>14, <1>15, <1>16, <1>17, <1>18, <1>19,
     <1>20, <1>21 DEF RequestStep

(***************************************************************************)
(* Shutdown, a crash, and what a new process does before it serves.        *)
(***************************************************************************)
(* The initial states and the states after a crash. *)
LEMMA BootedCore == Booted => Core
<1> SUFFICES ASSUME Booted PROVE Core
  OBVIOUS
<1> USE BoundAssumption, NoRunAssumption DEF Booted
<1>1. Unborn \in Threads /\ Unborn.pc = "unborn"
  BY DEF Unborn, Threads
<1>2. NoRequest \in Requests /\ NoRequest.pc = "idle" /\ NoRequest.epoch = 0
  BY DEF NoRequest, Requests
<1>3. /\ \A e \in Epochs : thr[e] \in Threads /\ thr[e].pc = "unborn"
      /\ \A c \in Callers : /\ req[c] \in Requests
                            /\ req[c].pc = "idle" /\ req[c].epoch = 0
  BY <1>1, <1>2
<1>4. CoreOK
  <2>1. thr \in [Epochs -> Threads] /\ req \in [Callers -> Requests]
    BY <1>1, <1>2
  <2>2. epoch \in 0 .. MaxEpoch /\ waitOn \in 0 .. MaxEpoch
    OBVIOUS
  <2> QED BY <2>1, <2>2 DEF CoreOK
<1>5. OneDriver
  BY <1>3 DEF OneDriver, Driving, Launching, Executing, Tearing
<1>6. \A e \in Epochs : ThreadOK(e)
  BY <1>3 DEF ThreadOK, Saving, Launching
<1>7. \A c \in Callers : RequestOK(c)
  BY <1>3 DEF RequestOK
<1>8. PhaseOK /\ DrainOK
  BY <1>3 DEF PhaseOK, DrainOK
<1>9. RecoveredGateHasRun
  BY DEF RecoveredGateHasRun
<1> QED
  BY <1>4, <1>5, <1>6, <1>7, <1>8, <1>9 DEF Core

LEMMA RecoveredSettled ==
  ASSUME NEW r \in Runs
  PROVE  Recovered(r) \in Runs /\ ~Live(Recovered(r))
<1> DEFINE i == IF r.idx > BundleStep THEN BundleStep ELSE r.idx
           k == r.residue \/ r.state = "resetting"
           f == [r EXCEPT !.state = "failed", !.residue = k, !.idx = i]
<1>1. i \in 0 .. NSteps /\ k \in BOOLEAN
  BY RunEdits, PipelineAssumption
<1>2. Recovered(r) = IF Live(r) \/ r.state = "failed" THEN f ELSE r
  BY DEF Recovered
<1> HIDE DEF i, k
<1>3. f \in Runs /\ ~Live(f)
  BY <1>1 DEF Runs, States, Live
<1> HIDE DEF f
<1> QED
  BY <1>2, <1>3

LEMMA ProcessSteps ==
  ASSUME IInv, CancelAndWait \/ DrainReturns \/ Crash \/ Recover \/ Reconcile
  PROVE  IInv'
<1> USE BoundAssumption, NoRunAssumption
        DEF IInv, WorldOK, exitVars, worldVars, histVars, memVars
<1>1. CASE CancelAndWait
  <2> USE DEF Core, CoreOK, CancelAndWait, Serving
  <2>1. WorldOK'
    BY <1>1
  <2>2. CASE epoch = 0
    <3>1. CoreOK' /\ OneDriver' /\ RecoveredGateHasRun'
      BY <1>1, <2>2 DEF OneDriver, RecoveredGateHasRun
    <3>2. (\A e \in Epochs : ThreadOK(e)') /\ (\A c \in Callers : RequestOK(c)')
      BY <1>1, <2>2 DEF ThreadOK, RequestOK
    <3>3. PhaseOK' /\ DrainOK'
      BY <1>1, <2>2 DEF PhaseOK, DrainOK
    <3> QED BY <2>1, <3>1, <3>2, <3>3
  <2>3. CASE epoch # 0
    <3> DEFINE t == [thr[epoch] EXCEPT !.canceled = TRUE]
    <3>1. epoch \in Epochs /\ thr' = [thr EXCEPT ![epoch] = t]
      BY <1>1, <2>3 DEF Epochs
    <3>2. /\ t \in Threads /\ t.pc = thr[epoch].pc /\ t.id = thr[epoch].id
          /\ t.snap = thr[epoch].snap /\ t.undo = thr[epoch].undo
      BY <3>1 DEF Threads
    <3> HIDE DEF t
    <3>3. /\ thr' \in [Epochs -> Threads]
          /\ \A e \in Epochs : /\ thr'[e].pc = thr[e].pc /\ thr'[e].id = thr[e].id
                               /\ thr'[e].snap = thr[e].snap
                               /\ thr'[e].undo = thr[e].undo
      BY <3>1, <3>2
    <3>4. /\ UNCHANGED <<up, cur, epoch, recPending, req, drained>>
          /\ draining' = TRUE /\ waitOn' = epoch /\ up = "serving" /\ ~draining
      BY <1>1, <2>3
    <3>5. CoreOK' /\ RecoveredGateHasRun'
      BY <3>3, <3>4 DEF RecoveredGateHasRun
    <3>6. OneDriver'
      BY <3>3, <3>4 DEF OneDriver
    <3>7. \A e \in Epochs : ThreadOK(e)'
      BY <3>3, <3>4 DEF ThreadOK
    <3>8. \A c \in Callers : RequestOK(c)'
      BY <3>4 DEF RequestOK
    <3>9. PhaseOK' /\ DrainOK'
      BY <2>3, <3>4 DEF PhaseOK, DrainOK
    <3> QED BY <2>1, <3>5, <3>6, <3>7, <3>8, <3>9
  <2> QED BY <2>2, <2>3
<1>2. CASE DrainReturns
  <2> USE <1>2 DEF Core, CoreOK, DrainReturns
  <2>1. WorldOK' /\ CoreOK' /\ OneDriver' /\ RecoveredGateHasRun'
    BY DEF OneDriver, RecoveredGateHasRun
  <2>2. (\A e \in Epochs : ThreadOK(e)') /\ (\A c \in Callers : RequestOK(c)')
    BY DEF ThreadOK, RequestOK
  <2>3. PhaseOK' /\ DrainOK'
    BY DEF PhaseOK, DrainOK
  <2> QED BY <2>1, <2>2, <2>3
<1>3. CASE Crash
  <2>1. Booted'
    BY <1>3 DEF Crash, Booted
  <2>2. Core'
    BY <2>1, BootedCore, PTL
  <2>3. StoreTyped'
    BY <1>3, DeleteKeeps DEF Crash, StoreTyped, storeVars
  <2>4. /\ volatile' = FALSE /\ bundled' = {} /\ UNCHANGED <<wl, rel, acked, used>>
    BY <1>3 DEF Crash
  <2>5. crashes' \in 0 .. MaxCrashes
    BY <1>3 DEF Crash
  <2>6. WorldOK'
    BY <2>3, <2>4, <2>5 DEF StoreTyped
  <2> QED BY <2>2, <2>6
(* Neither Recover nor Reconcile leaves a live run behind. *)
<1>4. ASSUME up # "serving", ~draining, Core, up' \in {"recovered", "serving"},
             cur' \in Runs \cup {NoRun}, Calm(cur), Calm(cur'),
             recPending' \in BOOLEAN, recPending' => cur' # NoRun,
             UNCHANGED <<epoch, draining, thr, req, waitOn, drained>>
      PROVE  Core'
  <2> USE <1>4 DEF Core
  <2>1. CoreOK' /\ RecoveredGateHasRun'
    BY DEF CoreOK, RecoveredGateHasRun
  <2>2. \A e \in Epochs : thr[e].pc \notin Driving
    BY DEF OneDriver, Calm
  <2>3. OneDriver'
    BY <2>2 DEF OneDriver, Calm
  <2>4. \A e \in Epochs : thr[e].pc = "unborn"
    BY DEF PhaseOK, ThreadOK, Epochs
  <2>5. \A e \in Epochs : ThreadOK(e)'
    BY <2>4 DEF ThreadOK, Saving, Launching
  <2>6. \A c \in Callers : RequestOK(c)'
    BY DEF RequestOK, PhaseOK
  <2>7. PhaseOK' /\ DrainOK'
    BY DEF PhaseOK, DrainOK
  <2> QED BY <2>1, <2>3, <2>5, <2>6, <2>7
<1>5. up # "serving" => ~draining /\ Calm(cur)
  <2> USE DEF Core
  <2>1. up # "serving" => \A e \in Epochs : thr[e].pc \notin Driving
    BY DEF PhaseOK, ThreadOK, Epochs, Driving, Launching, Executing, Tearing
  <2> QED BY <2>1 DEF OneDriver, PhaseOK, Calm
<1>6. CASE Recover
  <2>1. WorldOK'
    BY <1>6 DEF Recover, Core
  <2>2. /\ up = "down" /\ up' = "recovered" /\ Core
        /\ UNCHANGED <<epoch, draining, thr, req, waitOn, drained>>
    BY <1>6 DEF Recover
  <2>3. CASE UNCHANGED <<cur, recPending>>
    BY <1>4, <1>5, <2>1, <2>2, <2>3 DEF Core, CoreOK, RecoveredGateHasRun
  <2>4. CASE rec # NoRun /\ cur' = Recovered(rec) /\ recPending' = TRUE
    <3>1. cur' \in Runs /\ ~Live(cur') /\ cur' # NoRun
      BY <2>4, RecoveredSettled
    <3> QED BY <1>4, <1>5, <2>1, <2>2, <2>4, <3>1 DEF Calm
  <2> QED BY <1>6, <2>3, <2>4 DEF Recover
<1>7. CASE Reconcile
  <2>1. /\ up = "recovered" /\ up' = "serving" /\ Core /\ StoreTyped
        /\ UNCHANGED <<epoch, recPending, draining, thr, req, waitOn, drained>>
        /\ UNCHANGED <<volatile, wl, rel, bundled, acked, used, crashes>>
    BY <1>7 DEF Reconcile, StoreTyped
  <2>2. recPending \in BOOLEAN /\ (recPending => cur # NoRun)
        /\ cur \in Runs \cup {NoRun}
    BY DEF Core, CoreOK, RecoveredGateHasRun
  <2>3. ASSUME NEW r \in Runs, ~Live(r), cur' = r, NEW k, Checkpoint(cur', k)
        PROVE  IInv'
    <3>1. StoreTyped'
      BY <2>1, <2>3, SaveKeeps
    <3>2. WorldOK'
      BY <2>1, <3>1 DEF StoreTyped
    <3>3. Core'
      BY <1>4, <1>5, <2>1, <2>2, <2>3 DEF Calm
    <3> QED BY <3>2, <3>3
  <2>4. CASE cur # NoRun /\ cur' = [cur EXCEPT !.state = "done"]
             /\ Checkpoint(cur', "terminal")
    <3> DEFINE r == [cur EXCEPT !.state = "done"]
    <3>1. r \in Runs /\ ~Live(r)
      BY <2>2, <2>4 DEF Runs, States, Live
    <3>2. cur' = r
      BY <2>4
    <3> HIDE DEF r
    <3> QED BY <2>3, <2>4, <3>1, <3>2
  <2>5. CASE \E id \in wl : cur' = Adopted(id) /\ Checkpoint(cur', "checkpoint")
    <3>1. PICK id \in wl : cur' = Adopted(id) /\ Checkpoint(cur', "checkpoint")
      BY <2>5
    <3>2. id \in RunIDs /\ NSteps \in 0 .. NSteps /\ 0 \in 0 .. NSteps
      BY PipelineAssumption
    <3>3. Adopted(id) = [NewRun(id) EXCEPT !.state = "active", !.idx = NSteps,
                                           !.workload = TRUE]
      BY DEF Adopted
    <3>4. NewRun(id) \in Runs
      BY <3>2 DEF NewRun, Runs, States
    <3>5. Adopted(id) \in Runs /\ ~Live(Adopted(id))
      BY <3>2, <3>3, <3>4 DEF Runs, States, Live
    <3> QED BY <2>3, <3>1, <3>5
  <2>6. CASE UNCHANGED <<ptr, rec, cur>>
    <3>1. WorldOK'
      BY <2>1, <2>6
    <3>2. Core'
      BY <1>4, <1>5, <2>1, <2>2, <2>6
    <3> QED BY <3>1, <3>2
  <2> QED BY <1>7, <2>4, <2>5, <2>6 DEF Reconcile
<1> QED
  BY <1>1, <1>2, <1>3, <1>6, <1>7

(***************************************************************************)
(* The invariant is inductive, and what follows from it.                   *)
(***************************************************************************)
LEMMA InitIInv == Init => IInv
<1> SUFFICES ASSUME Init PROVE IInv
  OBVIOUS
<1>1. Core
  BY BootedCore DEF Init
<1>2. rel \in [RunIDs -> {"none", "present", "half"}]
  BY DEF Init
<1>3. crashes \in 0 .. MaxCrashes
  BY BoundAssumption DEF Init
<1>4. ptr = NoID /\ rec = NoRun /\ volatile = FALSE /\ wl = {} /\ bundled = {}
      /\ acked = {} /\ used = {}
  BY DEF Init, Booted, Store!StoreInit
<1>5. WorldOK
  BY <1>2, <1>3, <1>4 DEF WorldOK
<1> QED
  BY <1>1, <1>5 DEF IInv

LEMMA NextIInv == IInv /\ [Next]_vars => IInv'
<1> SUFFICES ASSUME IInv, [Next]_vars PROVE IInv'
  OBVIOUS
<1> USE DEF IInv
<1>1. CASE Start \/ Retry \/ Reset
  BY <1>1, LaunchingSteps, LaunchesKeeps
<1>2. ASSUME NEW e \in Epochs, ThreadStep(e) PROVE IInv'
  <2>1. CASE \/ LaunchSaved(e) \/ Park(e) \/ ParkSaved(e) \/ Resume(e)
             \/ RunStep(e) \/ StepSaved(e) \/ MergeSaved(e) \/ Install(e)
             \/ CreateWorkload(e) \/ StepSucceeds(e) \/ WorkloadAbsent(e)
             \/ Uninstall(e)
    BY <2>1, ContinuingSteps, ContinuesKeeps
  <2>2. CASE \/ StartFailed(e) \/ RetryFailed(e) \/ ResetFailed(e)
             \/ Complete(e) \/ ParkCanceled(e)
             \/ StepFails(e) \/ ProveCleaned(e) \/ ProveUncleaned(e)
             \/ WorkloadStuck(e) \/ ReleasesRemoved(e) \/ ReleasesKept(e)
    BY <2>2, RetiringSteps, RetiresKeeps
  <2>3. CASE FinishSaved(e) \/ ResetSaved(e) \/ ResetDelete(e) \/ ResetClear(e)
    BY <2>3, TrailingSteps, TrailsKeeps
  <2> QED BY <1>2, <2>1, <2>2, <2>3 DEF ThreadStep
<1>3. ASSUME NEW c \in Callers, Decide(c) \/ Discard(c) \/ Stop(c) \/ RequestStep(c)
      PROVE  IInv'
  BY <1>3, RequestSteps, AsksKeeps
<1>4. CASE CancelAndWait \/ DrainReturns \/ Crash \/ Recover \/ Reconcile
  BY <1>4, ProcessSteps
<1>5. CASE UNCHANGED vars
  <2> USE <1>5 DEF vars
  <2>1. WorldOK' /\ CoreOK' /\ OneDriver' /\ RecoveredGateHasRun'
    BY DEF Core, WorldOK, CoreOK, OneDriver, RecoveredGateHasRun
  <2>2. (\A e \in Epochs : ThreadOK(e)') /\ (\A c \in Callers : RequestOK(c)')
    BY DEF Core, ThreadOK, RequestOK
  <2>3. PhaseOK' /\ DrainOK'
    BY DEF Core, PhaseOK, DrainOK
  <2> QED BY <2>1, <2>2, <2>3 DEF Core
<1> QED
  BY <1>1, <1>2, <1>3, <1>4, <1>5 DEF Next

LEMMA Consequences ==
  IInv => TypeOK /\ OneDriver /\ RecoveredGateHasRun /\ DrainedIsQuiet
<1> SUFFICES ASSUME IInv PROVE TypeOK /\ DrainedIsQuiet
  BY DEF IInv, Core
<1>1. TypeOK
  BY DEF IInv, Core, WorldOK, CoreOK, TypeOK
<1>2. ASSUME drained PROVE \A e \in Epochs : thr[e].pc \notin Driving
  <2> SUFFICES ASSUME NEW e \in Epochs, thr[e].pc \in Driving PROVE FALSE
    OBVIOUS
  <2>1. e = epoch /\ e # 0
    BY DEF IInv, Core, OneDriver, Epochs
  <2>2. waitOn = epoch /\ thr[waitOn].pc = "over"
    BY <1>2, <2>1 DEF IInv, Core, DrainOK
  <2> QED BY <2>1, <2>2 DEF Driving, Launching, Executing, Tearing
<1> QED
  BY <1>1, <1>2 DEF DrainedIsQuiet, IInv, Core, OneDriver

LEMMA Inductive == Spec => []IInv
  BY InitIInv, NextIInv, PTL DEF Spec

(* Every reachable state of the engine, its goroutines, its requests, the store
   and the cluster is well typed, whatever fails and whenever it crashes. *)
THEOREM EngineTyped == Spec => []TypeOK
  BY Inductive, Consequences, PTL

(* At most one goroutine drives the current run, it is the last one launched,
   and a live run always has one: what epoch and aliveLocked are for. *)
THEOREM OneDriverHolds == Spec => []OneDriver
  BY Inductive, Consequences, PTL

(* Start never points at a recovered run that is not there: recoveredPending
   and the rollbacks of Retry and Discard agree. *)
THEOREM RecoveredGateHolds == Spec => []RecoveredGateHasRun
  BY Inductive, Consequences, PTL

(* Once CancelAndWait has returned, no goroutine drives a run and no run is live. *)
THEOREM DrainedIsQuietHolds == Spec => []DrainedIsQuiet
  BY Inductive, Consequences, PTL

(***************************************************************************)
(* What the steps do, field by field.                                      *)
(***************************************************************************)
(* Goroutine e goes to pc p, saving s, able to roll back to u. *)
Moves(e, p, s, u) ==
  /\ \A f \in Epochs : f # e => thr'[f] = thr[f]
  /\ thr'[e].pc = p /\ thr'[e].snap = s /\ thr'[e].undo = u
  /\ thr'[e].id = thr[e].id /\ thr'[e].canceled = thr[e].canceled
  /\ thr'[e].token => thr[e].token

LEMMA ThreadMoves ==
  ASSUME IInv, NEW e \in Epochs
  PROVE
    /\ LaunchSaved(e) =>
         Moves(e, IF thr[e].pc = "launchReset" THEN "teardown" ELSE "loop", NoRun, NoRun)
    /\ StartFailed(e) \/ RetryFailed(e) \/ ResetFailed(e) => Moves(e, "over", NoRun, NoRun)
    /\ Complete(e) => Moves(e, "finishSave", cur', thr[e].undo)
    /\ Park(e) => Moves(e, "parkSave", cur', thr[e].undo)
    /\ ParkSaved(e) => Moves(e, "parked", NoRun, thr[e].undo)
    /\ Resume(e) => Moves(e, "loop", thr[e].snap, thr[e].undo) /\ ~thr'[e].token
    /\ ParkCanceled(e) => Moves(e, "finishSave", cur', thr[e].undo)
    /\ RunStep(e) => Moves(e, "stepSave", cur', thr[e].undo) /\ ~thr'[e].made
    /\ StepSaved(e) => Moves(e, "step", NoRun, thr[e].undo) /\ thr'[e].made = thr[e].made
    /\ Install(e) => Moves(e, "step", thr[e].snap, thr[e].undo) /\ thr'[e].made = thr[e].made
    /\ CreateWorkload(e) => Moves(e, "step", thr[e].snap, thr[e].undo) /\ thr'[e].made
    /\ StepSucceeds(e) => Moves(e, "mergeSave", cur', thr[e].undo)
    /\ MergeSaved(e) => Moves(e, "loop", NoRun, thr[e].undo)
    /\ StepFails(e) \/ ProveCleaned(e) \/ ProveUncleaned(e) =>
         Moves(e, "finishSave", cur', thr[e].undo)
    /\ FinishSaved(e) => Moves(e, "over", NoRun, thr[e].undo)
    /\ WorkloadAbsent(e) => Moves(e, "releases", thr[e].snap, thr[e].undo)
    /\ WorkloadStuck(e) \/ ReleasesKept(e) => Moves(e, "finishSave", cur', thr[e].undo)
    /\ Uninstall(e) => Moves(e, "releases", thr[e].snap, thr[e].undo)
    /\ ReleasesRemoved(e) => Moves(e, "resetSave", cur', thr[e].undo)
    /\ ResetSaved(e) => Moves(e, "delete", NoRun, thr[e].undo)
    /\ ResetDelete(e) => Moves(e, "clear", thr[e].snap, thr[e].undo)
    /\ ResetClear(e) => Moves(e, "over", thr[e].snap, thr[e].undo)
<1> DEFINE t == thr[e]
<1>1. thr \in [Epochs -> Threads] /\ t \in Threads
  BY DEF IInv, Core, CoreOK
<1>2. ASSUME NEW p, NEW s, NEW u, NEW q,
             \/ q = [t EXCEPT !.pc = p, !.snap = s] /\ u = t.undo
             \/ q = [t EXCEPT !.pc = p] /\ s = t.snap /\ u = t.undo
             \/ q = [t EXCEPT !.pc = p, !.snap = s, !.undo = u],
             thr' = [thr EXCEPT ![e] = q]
      PROVE  Moves(e, p, s, u) /\ thr'[e].made = t.made
  <2>1. /\ q.pc = p /\ q.snap = s /\ q.undo = u /\ q.id = t.id
        /\ q.canceled = t.canceled /\ q.token = t.token /\ q.made = t.made
    BY <1>1, <1>2 DEF Threads
  <2> QED BY <1>1, <1>2, <2>1 DEF Moves
<1>3. ASSUME LaunchSaved(e)
      PROVE  Moves(e, IF t.pc = "launchReset" THEN "teardown" ELSE "loop", NoRun, NoRun)
  <2> DEFINE p == IF t.pc = "launchReset" THEN "teardown" ELSE "loop"
             q == [t EXCEPT !.pc = p, !.snap = NoRun, !.undo = NoRun]
  <2>1. thr' = [thr EXCEPT ![e] = q]
    BY <1>3 DEF LaunchSaved
  <2> HIDE DEF p
  <2>2. Moves(e, p, NoRun, NoRun)
    BY <1>2, <2>1
  <2> QED BY <2>2 DEF p
<1>4. StartFailed(e) \/ RetryFailed(e) \/ ResetFailed(e) => Moves(e, "over", NoRun, NoRun)
  BY <1>2 DEF StartFailed, RetryFailed, ResetFailed, LaunchFailed
<1>5. ASSUME NEW p, NEW s, thr' = [thr EXCEPT ![e].pc = p, ![e].snap = s]
      PROVE  Moves(e, p, s, t.undo) /\ thr'[e].made = t.made
  BY <1>2, <1>5
<1>6. ASSUME NEW p, NEW r, FinishAs(e, r, p)
      PROVE  Moves(e, p, cur', t.undo)
  BY <1>5, <1>6 DEF FinishAs
<1>13. /\ Complete(e) => Moves(e, "finishSave", cur', t.undo)
       /\ ParkCanceled(e) => Moves(e, "finishSave", cur', t.undo)
       /\ ReleasesRemoved(e) => Moves(e, "resetSave", cur', t.undo)
       /\ WorkloadStuck(e) \/ ReleasesKept(e) => Moves(e, "finishSave", cur', t.undo)
  BY <1>6 DEF Complete, ParkCanceled, ReleasesRemoved, WorkloadStuck, ReleasesKept
<1>14. StepFails(e) \/ ProveCleaned(e) \/ ProveUncleaned(e) =>
         Moves(e, "finishSave", cur', t.undo)
  BY <1>6 DEF StepFails, ProveCleaned, ProveUncleaned, FailStep
<1>15. /\ Park(e) => Moves(e, "parkSave", cur', t.undo)
       /\ StepSucceeds(e) => Moves(e, "mergeSave", cur', t.undo)
  BY <1>5 DEF Park, StepSucceeds
<1>16. /\ ParkSaved(e) => Moves(e, "parked", NoRun, t.undo)
       /\ StepSaved(e) => Moves(e, "step", NoRun, t.undo) /\ thr'[e].made = t.made
       /\ MergeSaved(e) => Moves(e, "loop", NoRun, t.undo)
  BY <1>5 DEF ParkSaved, StepSaved, MergeSaved, CheckpointSaved
<1>17. /\ FinishSaved(e) => Moves(e, "over", NoRun, t.undo)
       /\ ResetSaved(e) => Moves(e, "delete", NoRun, t.undo)
  BY <1>5 DEF FinishSaved, ResetSaved
<1>7. /\ WorkloadAbsent(e) => Moves(e, "releases", t.snap, t.undo)
      /\ ResetDelete(e) => Moves(e, "clear", t.snap, t.undo)
      /\ ResetClear(e) => Moves(e, "over", t.snap, t.undo)
  BY <1>2 DEF WorkloadAbsent, ResetDelete, ResetClear
<1>8. Uninstall(e) => Moves(e, "releases", t.snap, t.undo)
  BY <1>1 DEF Uninstall, Drives, Moves
<1>9. Resume(e) => Moves(e, "loop", t.snap, t.undo) /\ ~thr'[e].token
  BY <1>1 DEF Resume, Moves, Threads
<1>10. RunStep(e) => Moves(e, "stepSave", cur', t.undo) /\ ~thr'[e].made
  BY <1>1 DEF RunStep, Moves, Threads
<1>11. Install(e) => Moves(e, "step", t.snap, t.undo) /\ thr'[e].made = t.made
  BY <1>1 DEF Install, Drives, Moves, Threads
<1>12. CreateWorkload(e) => Moves(e, "step", t.snap, t.undo) /\ thr'[e].made
  BY <1>1 DEF CreateWorkload, Drives, Moves, Threads
<1> QED
  BY <1>3, <1>4, <1>7, <1>8, <1>9, <1>10, <1>11, <1>12,
     <1>13, <1>14, <1>15, <1>16, <1>17

(* Run q is run r in state s, with its residue set to x. *)
Turns(r, q, s, x) ==
  /\ r \in Runs /\ q \in Runs /\ q.id = r.id /\ q.state = s /\ q.idx = r.idx
  /\ q.decided = r.decided /\ q.cleanup = r.cleanup /\ q.residue = x
  /\ q.installed = r.installed /\ q.workload = r.workload

LEMMA EditTurns ==
  ASSUME NEW r \in Runs, NEW q, NEW s \in States, NEW x \in BOOLEAN,
         \/ q = [r EXCEPT !.state = s] /\ x = r.residue
         \/ q = [r EXCEPT !.state = s, !.residue = x]
  PROVE  Turns(r, q, s, x)
BY DEF Turns, Runs

(* A step of run r that has succeeded, and one that has failed with components c
   and cleanup k. *)
Advances(r, q, c) ==
  /\ r \in Runs /\ q \in Runs /\ q.id = r.id /\ q.state = r.state /\ q.idx = r.idx + 1
  /\ q.decided = r.decided /\ q.cleanup = r.cleanup /\ q.residue = r.residue
  /\ q.installed = c

Fails(r, q, c, k) ==
  /\ r \in Runs /\ q \in Runs /\ q.id = r.id /\ q.state = "failed" /\ q.idx = r.idx
  /\ q.decided = r.decided /\ q.cleanup = k /\ q.residue = r.residue
  /\ q.installed = c

LEMMA ThreadTurns ==
  ASSUME IInv, NEW e \in Epochs
  PROVE
    /\ StartFailed(e) => cur' = thr[e].undo
    /\ RetryFailed(e) \/ ResetFailed(e) => Turns(cur, cur', "failed", cur.residue)
    /\ Complete(e) => Turns(cur, cur', "active", cur.residue)
    /\ Park(e) => Turns(cur, cur', "awaiting", cur.residue)
    /\ RunStep(e) => Turns(cur, cur', "running", cur.residue)
    /\ ParkCanceled(e) => Turns(cur, cur', "failed", cur.residue)
    /\ StepSucceeds(e) => Advances(cur, cur', thr[e].inst)
    /\ StepFails(e) => Fails(cur, cur', thr[e].inst, cur.cleanup)
    /\ ProveCleaned(e) => Fails(cur, cur', thr[e].inst, FALSE)
    /\ ProveUncleaned(e) => Fails(cur, cur', thr[e].inst, TRUE)
    /\ WorkloadStuck(e) \/ ReleasesKept(e) => Turns(cur, cur', "failed", TRUE)
    /\ ReleasesRemoved(e) => Turns(cur, cur', "done", FALSE)
<1>1. thr[e].pc \in Driving => cur \in Runs /\ Owns(e) /\ thr[e].inst \in BOOLEAN
  BY Driven DEF Threads
<1>2. StartFailed(e) => cur' = thr[e].undo
  BY <1>1 DEF StartFailed, LaunchFailed, Driving, Launching
<1>3. ASSUME thr[e].pc \in Driving,
             NEW s \in {"failed", "active", "awaiting", "running", "done"},
             NEW x \in BOOLEAN,
             \/ cur' = [cur EXCEPT !.state = s] /\ x = cur.residue
             \/ cur' = [cur EXCEPT !.state = s, !.residue = x]
      PROVE  Turns(cur, cur', s, x)
  <2>1. s \in States /\ cur \in Runs
    BY <1>1, <1>3 DEF States
  <2> QED BY <1>3, <2>1, EditTurns
<1>4. thr[e].pc \in Driving => cur.residue \in BOOLEAN
  BY <1>1, RunEdits
<1>5. RetryFailed(e) \/ ResetFailed(e) => Turns(cur, cur', "failed", cur.residue)
  BY <1>1, <1>3, <1>4 DEF RetryFailed, ResetFailed, LaunchFailed, Driving, Launching
<1>6. /\ Complete(e) => Turns(cur, cur', "active", cur.residue)
      /\ Park(e) => Turns(cur, cur', "awaiting", cur.residue)
      /\ RunStep(e) => Turns(cur, cur', "running", cur.residue)
  <2>1. Drives(e, "loop") => thr[e].pc \in Driving
    BY DEF Drives, Driving, Executing
  <2> QED BY <1>3, <1>4, <2>1 DEF Complete, Park, RunStep, FinishAs
<1>8. ParkCanceled(e) => Turns(cur, cur', "failed", cur.residue)
  BY <1>3, <1>4 DEF ParkCanceled, FinishAs, Drives, Driving, Executing
<1>9. StepSucceeds(e) => Advances(cur, cur', thr[e].inst)
  <2> SUFFICES ASSUME StepSucceeds(e) PROVE Advances(cur, cur', thr[e].inst)
    OBVIOUS
  <2>1. /\ cur \in Runs /\ thr[e].inst \in BOOLEAN
        /\ cur' = [cur EXCEPT !.idx = cur.idx + 1, !.installed = thr[e].inst,
                              !.workload = cur.workload \/ cur.idx = ProveStep]
    BY <1>1 DEF StepSucceeds, Drives, Driving, Executing
  <2>2. ThreadOK(e) /\ thr[e].pc = "step"
    BY DEF IInv, Core, StepSucceeds, Drives
  <2>3. cur.idx + 1 \in 0 .. NSteps
    BY <2>1, <2>2, RunEdits, PipelineAssumption DEF ThreadOK
  <2> QED BY <2>1, <2>3 DEF Advances, Runs
<1>10. ASSUME thr[e].pc = "step", NEW k \in BOOLEAN, FailStep(e, k)
       PROVE  Fails(cur, cur', thr[e].inst, k)
  BY <1>1, <1>10 DEF FailStep, FinishAs, Fails, Runs, States, Driving, Executing
<1>11. StepFails(e) => Fails(cur, cur', thr[e].inst, cur.cleanup)
  <2>1. thr[e].pc = "step" => cur.cleanup \in BOOLEAN
    BY <1>1, RunEdits DEF Driving, Executing
  <2> QED BY <1>10, <2>1 DEF StepFails, Drives
<1>12. /\ ProveCleaned(e) => Fails(cur, cur', thr[e].inst, FALSE)
       /\ ProveUncleaned(e) => Fails(cur, cur', thr[e].inst, TRUE)
  BY <1>10 DEF ProveCleaned, ProveUncleaned, Drives
<1>13. WorkloadStuck(e) \/ ReleasesKept(e) => Turns(cur, cur', "failed", TRUE)
  BY <1>3 DEF WorkloadStuck, ReleasesKept, Unfinished, FinishAs, Drives, Driving, Tearing
<1>14. ReleasesRemoved(e) => Turns(cur, cur', "done", FALSE)
  BY <1>3 DEF ReleasesRemoved, FinishAs, Drives, Driving, Tearing
<1> QED
  BY <1>2, <1>5, <1>6, <1>8, <1>9, <1>11, <1>12, <1>13, <1>14

(* A launch takes run r up, with p to roll back to. *)
Born(pc, p) ==
  /\ epoch' = epoch + 1 /\ epoch' \in Epochs
  /\ \A f \in Epochs : f # epoch' => thr'[f] = thr[f]
  /\ thr'[epoch'].pc = pc /\ thr'[epoch'].id = cur'.id
  /\ thr'[epoch'].snap = cur' /\ thr'[epoch'].undo = p
  /\ ~thr'[epoch'].token /\ ~thr'[epoch'].canceled

Fresh(r, i) ==
  /\ r \in Runs /\ r.id = i /\ r.state = "running" /\ r.idx = 0 /\ r.decided = {}
  /\ ~r.cleanup /\ ~r.residue /\ ~r.installed

LEMMA LaunchMoves ==
  ASSUME IInv
  PROVE
    /\ Start => /\ Born("launchStart", cur)
                /\ \E i \in RunIDs \ used : Fresh(cur', i) /\ used' = used \cup {i}
    /\ Retry => Born("launchRetry", NoRun) /\ Turns(cur, cur', "running", cur.residue)
    /\ Reset => Born("launchReset", NoRun) /\ Turns(cur, cur', "resetting", FALSE)
<1>1. thr \in [Epochs -> Threads] /\ epoch \in 0 .. MaxEpoch /\ cur \in Runs \cup {NoRun}
  BY DEF IInv, Core, CoreOK
<1>2. ASSUME NEW pc \in Launching, NEW r \in Runs, NEW p, Launch(pc, r, p)
      PROVE  Born(pc, p) /\ cur' = r
  <2> DEFINE t == [Unborn EXCEPT !.pc = pc, !.id = r.id, !.snap = r, !.undo = p,
                                 !.rp = recPending]
  <2>1. epoch + 1 \in Epochs /\ epoch' = epoch + 1 /\ cur' = r
    BY <1>1, <1>2, BoundAssumption DEF Launch, Epochs
  <2>2. t.pc = pc /\ t.id = r.id /\ t.snap = r /\ t.undo = p /\ ~t.token /\ ~t.canceled
    BY DEF Unborn
  <2>3. thr' = [thr EXCEPT ![epoch + 1] = t]
    BY <1>2 DEF Launch
  <2> HIDE DEF t
  <2> QED BY <1>1, <2>1, <2>2, <2>3 DEF Born
<1>3. Start => /\ Born("launchStart", cur)
               /\ \E i \in RunIDs \ used : Fresh(cur', i) /\ used' = used \cup {i}
  <2> SUFFICES ASSUME Start
               PROVE  /\ Born("launchStart", cur)
                      /\ \E i \in RunIDs \ used : Fresh(cur', i) /\ used' = used \cup {i}
    OBVIOUS
  <2>1. PICK i \in RunIDs \ used : Launch("launchStart", NewRun(i), cur)
                                   /\ used' = used \cup {i}
    BY DEF Start
  <2>2. Fresh(NewRun(i), i) /\ NewRun(i) \in Runs
    BY PipelineAssumption DEF Fresh, NewRun, Runs, States
  <2> QED BY <1>2, <2>1, <2>2 DEF Launching
<1>4. Retry => Born("launchRetry", NoRun) /\ Turns(cur, cur', "running", cur.residue)
  <2> SUFFICES ASSUME Retry
               PROVE  Born("launchRetry", NoRun) /\ Turns(cur, cur', "running", cur.residue)
    OBVIOUS
  <2> DEFINE r == [cur EXCEPT !.state = "running"]
  <2>1. cur \in Runs /\ cur.residue \in BOOLEAN
    BY <1>1, RunEdits DEF Retry, CanRetry
  <2>2. Turns(cur, r, "running", cur.residue)
    BY <2>1, EditTurns DEF States
  <2>3. r \in Runs /\ Launch("launchRetry", r, NoRun)
    BY <2>2 DEF Turns, Retry
  <2> HIDE DEF r
  <2> QED BY <1>2, <2>2, <2>3 DEF Launching
<1>5. Reset => Born("launchReset", NoRun) /\ Turns(cur, cur', "resetting", FALSE)
  <2> SUFFICES ASSUME Reset
               PROVE  Born("launchReset", NoRun) /\ Turns(cur, cur', "resetting", FALSE)
    OBVIOUS
  <2> DEFINE r == [cur EXCEPT !.state = "resetting", !.residue = FALSE]
  <2>1. cur \in Runs
    BY <1>1 DEF Reset, CanReset
  <2>2. Turns(cur, r, "resetting", FALSE)
    BY <2>1, EditTurns DEF States
  <2>3. r \in Runs /\ Launch("launchReset", r, NoRun)
    BY <2>2 DEF Turns, Reset
  <2> HIDE DEF r
  <2> QED BY <1>2, <2>2, <2>3 DEF Launching
<1> QED
  BY <1>3, <1>4, <1>5

(* Request c begins, takes a step, and ends. *)
Entered(c, p, s) ==
  /\ \A d \in Callers : d # c => req'[d] = req[d]
  /\ req[c].pc = "idle" /\ req'[c].pc = p /\ req'[c].snap = s
  /\ req'[c].id = cur.id /\ req'[c].epoch = epoch /\ req'[c].undo = cur

Goes(c, p, s) ==
  /\ \A d \in Callers : d # c => req'[d] = req[d]
  /\ req'[c].pc = p /\ req'[c].snap = s
  /\ req'[c].id = req[c].id /\ req'[c].epoch = req[c].epoch /\ req'[c].undo = req[c].undo

Left(c) ==
  /\ \A d \in Callers : d # c => req'[d] = req[d]
  /\ req'[c].pc = "idle" /\ req'[c].snap = NoRun

LEMMA RequestMoves ==
  ASSUME IInv, NEW c \in Callers
  PROVE
    /\ Decide(c) => Entered(c, "decideSave", cur')
    /\ Discard(c) => Entered(c, "discardDelete", NoRun)
    /\ Stop(c) => Entered(c, "stopAbsent", NoRun)
    /\ DecideSaved(c) => Goes(c, "decideResume", NoRun)
    /\ DecideFailed(c) \/ DecideResume(c) \/ DiscardDeleted(c) \/ DiscardFailed(c) => Left(c)
    /\ StopFailed(c) \/ StopClear(c) => Left(c)
    /\ StopAbsent(c) => Goes(c, "stopMark", req[c].snap)
    /\ StopMark(c) => Goes(c, "stopFinish", req[c].snap)
    /\ StopFinish(c) => IF epoch = req[c].epoch /\ cur # NoRun
                        THEN Goes(c, "stopSave", cur') ELSE Goes(c, "stopClear", req[c].snap)
    /\ StopSaved(c) => Goes(c, "stopClear", NoRun)
<1> DEFINE q == req[c]
<1>1. req \in [Callers -> Requests] /\ q \in Requests
  BY DEF IInv, Core, CoreOK
<1>2. ASSUME NEW p, NEW s, Enter(c, p, s)
      PROVE  Entered(c, p, s)
  BY <1>1, <1>2 DEF Enter, Entered
<1>3. ASSUME NEW p, NEW s, req' = [req EXCEPT ![c].pc = p, ![c].snap = s]
      PROVE  Goes(c, p, s)
  BY <1>1, <1>3 DEF Goes, Requests
<1>4. ASSUME NEW p, req' = [req EXCEPT ![c].pc = p]
      PROVE  Goes(c, p, q.snap)
  BY <1>1, <1>4 DEF Goes, Requests
<1>5. Leave(c) => Left(c)
  BY <1>1 DEF Leave, Left, NoRequest
<1>6. /\ Decide(c) => Entered(c, "decideSave", cur')
      /\ Discard(c) => Entered(c, "discardDelete", NoRun)
      /\ Stop(c) => Entered(c, "stopAbsent", NoRun)
  BY <1>2 DEF Decide, Discard, Stop
<1>7. DecideSaved(c) => Goes(c, "decideResume", NoRun)
  BY <1>3 DEF DecideSaved
<1>8. DecideFailed(c) \/ DecideResume(c) \/ DiscardDeleted(c) \/ DiscardFailed(c) => Left(c)
  BY <1>5 DEF DecideFailed, DecideResume, DiscardDeleted, DiscardFailed
<1>9. StopFailed(c) \/ StopClear(c) => Left(c)
  BY <1>5 DEF StopFailed, StopClear
<1>10. /\ StopAbsent(c) => Goes(c, "stopMark", q.snap)
       /\ StopMark(c) => Goes(c, "stopFinish", q.snap)
  BY <1>4 DEF StopAbsent, StopMark
<1>11. StopFinish(c) => IF epoch = q.epoch /\ cur # NoRun
                        THEN Goes(c, "stopSave", cur') ELSE Goes(c, "stopClear", q.snap)
  BY <1>3, <1>4 DEF StopFinish
<1>12. StopSaved(c) => Goes(c, "stopClear", NoRun)
  BY <1>3 DEF StopSaved
<1> QED
  BY <1>6, <1>7, <1>8, <1>9, <1>10, <1>11, <1>12

(* Run q is run r with other decisions or another mark of Stop. *)
Marks(r, q) ==
  /\ r \in Runs /\ q \in Runs /\ q.id = r.id /\ q.idx = r.idx
  /\ q.residue = r.residue /\ q.installed = r.installed

LEMMA RequestTurns ==
  ASSUME IInv, NEW c \in Callers
  PROVE
    /\ Decide(c) => /\ Marks(cur, cur') /\ cur.state = "awaiting" /\ cur'.state = "running"
                    /\ cur'.cleanup = cur.cleanup
                    /\ cur'.decided = cur.decided \cup {cur.idx}
    /\ DecideFailed(c) =>
         \/ UNCHANGED cur
         \/ /\ Holds(c) /\ Live(cur) /\ Marks(cur, cur') /\ cur'.state = "awaiting"
            /\ cur'.cleanup = cur.cleanup /\ cur'.decided = req[c].undo.decided
    /\ StopMark(c) =>
         \/ UNCHANGED cur /\ ~Holds(c)
         \/ /\ Holds(c) /\ Marks(cur, cur') /\ cur'.state = cur.state
            /\ ~cur'.cleanup /\ cur'.workload /\ cur'.decided = cur.decided
    /\ StopFinish(c) =>
         IF epoch = req[c].epoch /\ cur # NoRun
         THEN Turns(cur, cur', "done", cur.residue)
         ELSE UNCHANGED cur
<1>1. cur # NoRun => cur \in Runs
  BY DEF IInv, Core, CoreOK
<1>2. ASSUME Decide(c)
      PROVE  /\ Marks(cur, cur') /\ cur.state = "awaiting" /\ cur'.state = "running"
             /\ cur'.cleanup = cur.cleanup
             /\ cur'.decided = cur.decided \cup {cur.idx}
  <2>1. /\ cur \in Runs /\ cur.state = "awaiting"
        /\ cur' = [cur EXCEPT !.state = "running", !.decided = cur.decided \cup {cur.idx}]
    BY <1>1, <1>2 DEF Decide
  <2> QED BY <2>1 DEF Marks, Runs, States
<1>3. ASSUME DecideFailed(c), Holds(c), Live(cur)
      PROVE  /\ Marks(cur, cur') /\ cur'.state = "awaiting"
             /\ cur'.cleanup = cur.cleanup /\ cur'.decided = req[c].undo.decided
  <2>1. /\ cur \in Runs
        /\ cur' = [cur EXCEPT !.state = req[c].undo.state, !.decided = req[c].undo.decided]
    BY <1>1, <1>3 DEF DecideFailed, Holds
  <2>2. req[c].undo \in Runs /\ req[c].undo.state = "awaiting"
    BY <1>3 DEF DecideFailed, IInv, Core, RequestOK
  <2> QED BY <2>1, <2>2 DEF Marks, Runs, States
<1>4. ASSUME StopMark(c), Holds(c)
      PROVE  /\ Marks(cur, cur') /\ cur'.state = cur.state
             /\ ~cur'.cleanup /\ cur'.workload /\ cur'.decided = cur.decided
  <2>1. cur \in Runs /\ cur' = [cur EXCEPT !.workload = TRUE, !.cleanup = FALSE]
    BY <1>1, <1>4 DEF StopMark, Holds
  <2> QED BY <2>1 DEF Marks, Runs
<1>5. ASSUME StopFinish(c), epoch = req[c].epoch, cur # NoRun
      PROVE  Turns(cur, cur', "done", cur.residue)
  <2>1. cur \in Runs /\ cur' = [cur EXCEPT !.state = "done"] /\ cur.residue \in BOOLEAN
    BY <1>1, <1>5, RunEdits DEF StopFinish
  <2> QED BY <2>1, EditTurns DEF States
<1> QED
  BY <1>2, <1>3, <1>4, <1>5 DEF DecideFailed, StopMark, StopFinish

(* Of a goroutine, a request changes only the resume channel. *)
Wakes(c) ==
  \A e \in Epochs :
    /\ thr'[e].pc = thr[e].pc /\ thr'[e].id = thr[e].id /\ thr'[e].snap = thr[e].snap
    /\ thr'[e].undo = thr[e].undo /\ thr'[e].canceled = thr[e].canceled
    /\ thr'[e].made = thr[e].made
    /\ thr'[e].token = thr[e].token \/ (e = epoch /\ req[c].pc = "decideResume" /\ Holds(c))

LEMMA RequestWakes ==
  ASSUME IInv, NEW c \in Callers, Decide(c) \/ Discard(c) \/ Stop(c) \/ RequestStep(c)
  PROVE  Wakes(c)
<1>1. CASE DecideResume(c)
  BY <1>1 DEF DecideResume, Wakes, IInv, Core, CoreOK, Threads
<1>2. CASE ~DecideResume(c)
  <2>1. UNCHANGED thr
    BY <1>2 DEF Decide, Discard, Stop, RequestStep, DecideSaved, DecideFailed, DiscardDeleted,
       DiscardFailed, StopAbsent, StopFailed, StopMark, StopFinish, StopSaved, StopClear
  <2> QED BY <2>1 DEF Wakes
<1> QED
  BY <1>1, <1>2

(***************************************************************************)
(* Where records come from.                                                *)
(***************************************************************************)
(* A save replaces the record on disk or leaves it alone. *)
Writes(r) == \/ UNCHANGED <<ptr, rec>>
             \/ rec' = r /\ ptr' = r.id /\ ~volatile

LEMMA SaveWrites ==
  ASSUME NEW r \in Runs, NEW k
  PROVE  /\ SaveSucceeds(r) => Writes(r) /\ (~volatile => rec' = r)
         /\ SaveFails(r, k) => Writes(r) /\ k \in Faults /\ ~volatile
         /\ Checkpoint(r, k) => Writes(r)
BY DEF Writes, SaveSucceeds, SaveFails, Checkpoint, storeVars,
       Store!SaveOK, Store!SaveFailed, Store!storeVars

Erases == \/ UNCHANGED <<ptr, rec>>
          \/ rec' = NoRun /\ ~volatile

LEMMA DeleteErases ==
  /\ DeleteSucceeds \/ DeleteFails => Erases
  /\ ~volatile /\ Store!DeleteFailed => Erases
BY DEF Erases, DeleteSucceeds, DeleteFails, storeVars,
       Store!DeleteOK, Store!DeleteFailed, Store!storeVars

(* The record on disk, after goroutine e or request c has taken a step. *)
LEMMA ThreadWrites ==
  ASSUME IInv, NEW e \in Epochs, ThreadStep(e)
  PROVE  \/ UNCHANGED <<ptr, rec>>
         \/ /\ thr[e].pc \in Saving /\ thr[e].snap \in Runs /\ ~volatile
            /\ rec' = thr[e].snap /\ ptr' = thr[e].snap.id
         \/ thr[e].pc = "delete" /\ rec' = NoRun /\ ~volatile
<1>1. thr[e].pc \in Saving => thr[e].snap \in Runs
  BY DEF IInv, Core, ThreadOK
<1>2. CASE thr[e].pc \in Saving /\ Writes(thr[e].snap)
  BY <1>1, <1>2 DEF Writes
<1>3. CASE \/ LaunchSaved(e) \/ StartFailed(e) \/ RetryFailed(e) \/ ResetFailed(e)
  BY <1>1, <1>2, <1>3, SaveWrites DEF LaunchSaved, StartFailed, RetryFailed, ResetFailed,
     LaunchFailed, Saving, Launching
<1>4. CASE \/ ParkSaved(e) \/ StepSaved(e) \/ MergeSaved(e) \/ FinishSaved(e) \/ ResetSaved(e)
  BY <1>1, <1>2, <1>4, SaveWrites DEF ParkSaved, StepSaved, MergeSaved, CheckpointSaved,
     FinishSaved, ResetSaved, Saving
<1>5. CASE ResetDelete(e)
  BY <1>5, DeleteErases DEF ResetDelete, Erases
<1>6. CASE \/ Complete(e) \/ Park(e) \/ Resume(e) \/ ParkCanceled(e)
           \/ RunStep(e) \/ Install(e) \/ CreateWorkload(e) \/ StepSucceeds(e)
           \/ WorkloadAbsent(e) \/ WorkloadStuck(e) \/ Uninstall(e)
           \/ ReleasesRemoved(e) \/ ReleasesKept(e) \/ ResetClear(e)
  BY <1>6 DEF Complete, Park, Resume, ParkCanceled, RunStep, Install, CreateWorkload,
     StepSucceeds, WorkloadAbsent, WorkloadStuck, Uninstall, ReleasesRemoved, ReleasesKept,
     ResetClear
<1>7. CASE StepFails(e) \/ ProveCleaned(e) \/ ProveUncleaned(e)
  BY <1>7 DEF StepFails, ProveCleaned, ProveUncleaned, FailStep
<1> QED
  BY <1>3, <1>4, <1>5, <1>6, <1>7 DEF ThreadStep

LEMMA RequestWrites ==
  ASSUME IInv, NEW c \in Callers, Decide(c) \/ Discard(c) \/ Stop(c) \/ RequestStep(c)
  PROVE  \/ UNCHANGED <<ptr, rec>>
         \/ /\ req[c].pc \in {"decideSave", "stopSave"} /\ req[c].snap \in Runs /\ ~volatile
            /\ rec' = req[c].snap /\ ptr' = req[c].snap.id
         \/ req[c].pc = "discardDelete" /\ rec' = NoRun /\ ~volatile
<1>1. req[c].pc \in {"decideSave", "stopSave"} => req[c].snap \in Runs
  BY DEF IInv, Core, RequestOK
<1>2. CASE DecideSaved(c) \/ DecideFailed(c) \/ StopSaved(c)
  BY <1>1, <1>2, SaveWrites DEF DecideSaved, DecideFailed, StopSaved, Writes
<1>3. CASE DiscardDeleted(c) \/ DiscardFailed(c)
  BY <1>3, DeleteErases DEF DiscardDeleted, DiscardFailed, Erases
<1>4. CASE \/ Decide(c) \/ Discard(c) \/ Stop(c) \/ DecideResume(c) \/ StopAbsent(c)
           \/ StopFailed(c) \/ StopMark(c) \/ StopFinish(c) \/ StopClear(c)
  BY <1>4 DEF Decide, Discard, Stop, DecideResume, StopAbsent, StopFailed, StopMark,
     StopFinish, StopClear
<1> QED
  BY <1>2, <1>3, <1>4 DEF RequestStep

(* What a new process makes of the record it finds. *)
Recovers(r, q) ==
  /\ r \in Runs /\ q \in Runs /\ q.id = r.id
  /\ q.decided = r.decided /\ q.cleanup = r.cleanup /\ q.installed = r.installed
  /\ IF Live(r) \/ r.state = "failed"
     THEN /\ q.state = "failed" /\ q.residue = (r.residue \/ r.state = "resetting")
          /\ q.idx <= BundleStep
     ELSE q = r

LEMMA RecoveredRun ==
  ASSUME rec \in Runs, cur' = Recovered(rec)
  PROVE  Recovers(rec, cur')
<1> DEFINE i == IF rec.idx > BundleStep THEN BundleStep ELSE rec.idx
           k == rec.residue \/ rec.state = "resetting"
           f == [rec EXCEPT !.state = "failed", !.residue = k, !.idx = i]
<1>2. i \in 0 .. NSteps /\ i <= BundleStep /\ k \in BOOLEAN
  BY RunEdits, PipelineAssumption
<1>3. cur' = IF Live(rec) \/ rec.state = "failed" THEN f ELSE rec
  BY DEF Recovered
<1> HIDE DEF i, k
<1>4. /\ f \in Runs /\ f.id = rec.id /\ f.decided = rec.decided /\ f.cleanup = rec.cleanup
      /\ f.installed = rec.installed /\ f.state = "failed" /\ f.residue = k /\ f.idx = i
  BY <1>2 DEF Runs, States
<1> HIDE DEF f
<1>5. k = (rec.residue \/ rec.state = "resetting")
  BY DEF k
<1> QED BY <1>2, <1>3, <1>4, <1>5 DEF Recovers

LEMMA RecoverTurns ==
  ASSUME IInv, Recover
  PROVE  /\ UNCHANGED <<ptr, rec, thr, req, epoch>> /\ up = "down"
         /\ \/ UNCHANGED cur
            \/ UNCHANGED volatile /\ rec # NoRun /\ Recovers(rec, cur')
<1>1. rec # NoRun => rec \in Runs
  BY DEF IInv, WorldOK
<1> QED
  BY <1>1, RecoveredRun DEF Recover

(* What it makes of the workloads it finds. *)
Adopts(q, i) ==
  /\ q \in Runs /\ q.id = i /\ q.state = "active" /\ q.idx = NSteps /\ q.decided = {}
  /\ ~q.cleanup /\ ~q.residue /\ ~q.installed

LEMMA ReconcileTurns ==
  ASSUME IInv, Reconcile
  PROVE  /\ UNCHANGED <<thr, req, epoch, volatile, wl, rel, bundled, acked, used, crashes>>
         /\ up = "recovered" /\ up' = "serving"
         /\ \/ /\ cur # NoRun /\ cur.state = "active" /\ cur.id \notin wl
               /\ Turns(cur, cur', "done", cur.residue) /\ Writes(cur')
            \/ cur = NoRun /\ (\E i \in wl : Adopts(cur', i)) /\ Writes(cur')
            \/ UNCHANGED <<ptr, rec, cur>>
<1>1. ASSUME cur # NoRun, cur' = [cur EXCEPT !.state = "done"], Checkpoint(cur', "terminal")
      PROVE  Turns(cur, cur', "done", cur.residue) /\ Writes(cur')
  <2>1. cur \in Runs /\ cur.residue \in BOOLEAN /\ "done" \in States
    BY <1>1, RunEdits DEF IInv, Core, CoreOK, States
  <2>2. Turns(cur, cur', "done", cur.residue)
    BY <1>1, <2>1, EditTurns
  <2> QED BY <1>1, <2>2, SaveWrites DEF Turns
<1>2. ASSUME NEW i \in wl, cur' = Adopted(i), Checkpoint(cur', "checkpoint")
      PROVE  Adopts(cur', i) /\ Writes(cur')
  <2>1. i \in RunIDs /\ 0 \in 0 .. NSteps /\ NSteps \in 0 .. NSteps
    BY PipelineAssumption DEF IInv, WorldOK
  <2>2. Adopts(cur', i)
    BY <1>2, <2>1 DEF Adopts, Adopted, NewRun, Runs, States
  <2> QED BY <1>2, <2>2, SaveWrites DEF Adopts
<1> QED
  BY <1>1, <1>2 DEF Reconcile, worldVars, histVars

(* No step invents a record but the current one. *)
Flows ==
  /\ \A e \in Epochs : /\ thr'[e].snap \in {thr[e].snap, cur', NoRun}
                       /\ thr'[e].undo \in {thr[e].undo, cur, NoRun}
  /\ \A c \in Callers :
       /\ req'[c].snap \in {req[c].snap, cur', NoRun}
       /\ req'[c].pc \in {"decideSave", "discardDelete"} =>
            \/ req'[c].undo = cur
            \/ /\ req'[c].pc = req[c].pc /\ req'[c].undo = req[c].undo
               /\ req'[c].epoch = epoch' => req[c].epoch = epoch
  /\ rec' \in {rec, NoRun, cur'} \cup Snapshots

LEMMA FlowsHeld ==
  ASSUME Flows
  PROVE  /\ Held' \subseteq Held \cup {cur'}
         /\ Restorable' \subseteq Restorable \cup {cur', NoRun}
         /\ Snapshots' \subseteq Snapshots \cup {cur', NoRun}
<1>1. Snapshots' \subseteq Snapshots \cup {cur', NoRun}
  BY DEF Flows, Snapshots
<1>2. Restorable' \subseteq Restorable \cup {cur', NoRun}
  <2>1. cur' \in Restorable \cup {cur', NoRun}
    OBVIOUS
  <2>2. ASSUME NEW e \in Epochs PROVE thr'[e].undo \in Restorable \cup {cur', NoRun}
    BY DEF Flows, Restorable
  <2>3. ASSUME NEW c \in Callers, req'[c].pc = "discardDelete", req'[c].epoch = epoch'
        PROVE  req'[c].undo \in Restorable \cup {cur', NoRun}
    BY <2>3 DEF Flows, Restorable
  <2> QED BY <2>1, <2>2, <2>3 DEF Restorable
<1>3. ASSUME NEW c \in Callers, req'[c].pc = "decideSave", req'[c].undo # NoRun
      PROVE  req'[c].undo \in Held
  BY <1>3 DEF Flows, Held, Restorable
<1>4. rec' # NoRun => rec' \in Held \cup {cur'}
  BY DEF Flows, Held
<1> QED
  BY <1>1, <1>2, <1>3, <1>4 DEF Held

LEMMA NextFlows ==
  ASSUME IInv, [Next]_vars
  PROVE  Flows
<1>0. /\ thr \in [Epochs -> Threads] /\ req \in [Callers -> Requests]
      /\ \A c \in Callers : req[c].epoch <= epoch /\ epoch \in Nat
  BY DEF IInv, Core, CoreOK, RequestOK
<1>1. CASE Start \/ Retry \/ Reset
  <2>1. \E pc, p : Born(pc, p) /\ p \in {cur, NoRun}
    BY <1>1, LaunchMoves
  <2>2. UNCHANGED <<ptr, rec, req>>
    BY <1>1 DEF Start, Retry, Reset
  <2>3. epoch' = epoch + 1
    BY <2>1 DEF Born
  <2>4. \A c \in Callers : req'[c].epoch # epoch'
    BY <1>0, <2>2, <2>3
  <2> QED BY <2>1, <2>2, <2>4 DEF Flows, Born
<1>2. ASSUME NEW e \in Epochs, ThreadStep(e) PROVE Flows
  <2>1. UNCHANGED <<req, epoch>>
    BY <1>2 DEF ThreadStep, LaunchSaved, StartFailed, RetryFailed, ResetFailed, LaunchFailed,
       Complete, Park, ParkSaved, Resume, ParkCanceled, RunStep, StepSaved, MergeSaved,
       CheckpointSaved, Install, CreateWorkload, StepSucceeds, StepFails, ProveCleaned,
       ProveUncleaned, FailStep, FinishSaved, WorkloadAbsent, WorkloadStuck, Uninstall,
       ReleasesRemoved, ReleasesKept, ResetSaved, ResetDelete, ResetClear, memVars
  <2>2. \E p : \E s \in {thr[e].snap, cur', NoRun}, u \in {thr[e].undo, NoRun} : Moves(e, p, s, u)
    BY <1>2, ThreadMoves DEF ThreadStep
  <2>3. rec' \in {rec, NoRun} \cup Snapshots
    BY <1>2, ThreadWrites DEF Snapshots
  <2> QED BY <2>1, <2>2, <2>3 DEF Flows, Moves
<1>3. ASSUME NEW c \in Callers, Decide(c) \/ Discard(c) \/ Stop(c) \/ RequestStep(c)
      PROVE  Flows
  <2>1. Wakes(c)
    BY <1>3, RequestWakes
  <2>2. rec' \in {rec, NoRun} \cup Snapshots
    BY <1>3, RequestWrites DEF Snapshots
  <2>3. UNCHANGED epoch
    BY <1>3 DEF Decide, Discard, Stop, RequestStep, DecideSaved, DecideFailed, DecideResume,
       DiscardDeleted, DiscardFailed, StopAbsent, StopFailed, StopMark, StopFinish, StopSaved,
       StopClear, memVars
  <2>4. \/ Left(c)
        \/ \E p : \E s \in {cur', NoRun} : Entered(c, p, s)
        \/ \E p \in {"decideResume", "stopMark", "stopFinish", "stopSave", "stopClear"} :
             \E s \in {req[c].snap, cur', NoRun} : Goes(c, p, s)
    BY <1>3, RequestMoves DEF RequestStep
  <2> QED BY <2>1, <2>2, <2>3, <2>4 DEF Flows, Left, Entered, Goes, Wakes
<1>4. CASE CancelAndWait \/ DrainReturns \/ Crash \/ Recover \/ Reconcile
  <2>1. CASE CancelAndWait
    BY <1>0, <2>1 DEF CancelAndWait, Flows, Threads
  <2>2. CASE DrainReturns
    BY <2>2 DEF DrainReturns, Flows, memVars
  <2>3. CASE Crash
    <3>1. Erases
      BY <2>3, DeleteErases DEF Crash, Erases, storeVars
    <3>2. /\ \A e \in Epochs : thr'[e].snap = NoRun /\ thr'[e].undo = NoRun
          /\ \A c \in Callers : req'[c].snap = NoRun /\ req'[c].pc = "idle"
      BY <2>3 DEF Crash, Unborn, NoRequest
    <3> QED BY <3>1, <3>2 DEF Flows, Erases
  <2>4. CASE Recover
    BY <2>4 DEF Recover, Flows
  <2>5. CASE Reconcile
    <3>1. rec' \in {rec, cur'}
      BY <2>5, ReconcileTurns DEF Writes
    <3> QED BY <2>5, <3>1 DEF Reconcile, Flows
  <2> QED BY <1>4, <2>1, <2>2, <2>3, <2>4, <2>5
<1>5. CASE UNCHANGED vars
  BY <1>5 DEF vars, Flows
<1> QED
  BY <1>1, <1>2, <1>3, <1>4, <1>5 DEF Next

LEMMA Alone ==
  ASSUME IInv
  PROVE  /\ \A e, f \in Epochs : thr[e].pc \in Driving /\ thr[f].pc \in Driving => e = f
         /\ Calm(cur) => \A e \in Epochs : thr[e].pc \notin Driving
BY DEF IInv, Core, OneDriver, Calm

(* Only a launch, and a crash, changes the epoch. *)
LEMMA StepKinds ==
  ASSUME IInv, NEW e \in Epochs, ThreadStep(e)
  PROVE  \/ /\ Continues(e)
            /\ \/ LaunchSaved(e) \/ Park(e) \/ ParkSaved(e) \/ Resume(e)
               \/ RunStep(e) \/ StepSaved(e) \/ MergeSaved(e) \/ Install(e)
               \/ CreateWorkload(e) \/ StepSucceeds(e) \/ WorkloadAbsent(e) \/ Uninstall(e)
         \/ /\ Retires(e) /\ \A f \in Epochs : thr'[f].pc \notin Driving
            /\ \/ StartFailed(e) \/ RetryFailed(e) \/ ResetFailed(e)
               \/ Complete(e) \/ ParkCanceled(e)
               \/ StepFails(e) \/ ProveCleaned(e) \/ ProveUncleaned(e)
               \/ WorkloadStuck(e) \/ ReleasesRemoved(e) \/ ReleasesKept(e)
         \/ /\ Trails(e)
            /\ FinishSaved(e) \/ ResetSaved(e) \/ ResetDelete(e) \/ ResetClear(e)
<1>1. CASE \/ LaunchSaved(e) \/ Park(e) \/ ParkSaved(e) \/ Resume(e)
           \/ RunStep(e) \/ StepSaved(e) \/ MergeSaved(e) \/ Install(e)
           \/ CreateWorkload(e) \/ StepSucceeds(e) \/ WorkloadAbsent(e) \/ Uninstall(e)
  BY <1>1, ContinuingSteps
<1>2. CASE \/ StartFailed(e) \/ RetryFailed(e) \/ ResetFailed(e)
           \/ Complete(e) \/ ParkCanceled(e)
           \/ StepFails(e) \/ ProveCleaned(e) \/ ProveUncleaned(e)
           \/ WorkloadStuck(e) \/ ReleasesRemoved(e) \/ ReleasesKept(e)
  <2>1. Retires(e)
    BY <1>2, RetiringSteps
  <2>2. \A f \in Epochs : thr'[f].pc \notin Driving
    BY <2>1, Alone DEF Retires, OnlyThread, Driving, Launching, Executing, Tearing, Spent
  <2> QED BY <1>2, <2>1, <2>2
<1>3. CASE FinishSaved(e) \/ ResetSaved(e) \/ ResetDelete(e) \/ ResetClear(e)
  BY <1>3, TrailingSteps
<1> QED
  BY <1>1, <1>2, <1>3 DEF ThreadStep

(* Before it serves, a process has neither goroutines nor requests. *)
LEMMA NobodyYet ==
  ASSUME IInv, up # "serving"
  PROVE  /\ \A e \in Epochs : thr[e].pc = "unborn"
         /\ \A c \in Callers : req[c].pc = "idle"
         /\ epoch = 0 /\ ~draining
BY DEF IInv, Core, PhaseOK, ThreadOK, Epochs

(***************************************************************************)
(* SlotsOK.                                                                *)
(***************************************************************************)
LEMMA SlotsKept ==
  ASSUME IInv, SlotsOK, [Next]_vars
  PROVE  SlotsOK'
<1> USE DEF SlotsOK
<1>0. /\ \A e \in Epochs : thr[e].pc \in Driving \cup Spent \cup {"unborn"}
      /\ \A r \in Runs : r.id \in RunIDs /\ r.id # NoID
  BY NullAssumption DEF IInv, Core, CoreOK, Threads, Runs
<1>1. CASE Start \/ Retry \/ Reset
  <2>1. \/ Born("launchStart", cur) \/ Born("launchRetry", NoRun) \/ Born("launchReset", NoRun)
    BY <1>1, LaunchMoves
  <2>2. UNCHANGED <<ptr, rec, req>> /\ up' = "serving"
    BY <1>1, LaunchingSteps DEF Start, Retry, Reset, Launches
  <2> QED BY <2>1, <2>2 DEF Born, Saving, Launching
<1>2. ASSUME NEW e \in Epochs, ThreadStep(e) PROVE SlotsOK'
  <2>1. (ptr = NoID => rec = NoRun)'
    BY <1>0, <1>2, ThreadWrites
  <2>2. UNCHANGED req /\ up' # "down"
    <3>1. thr[e].pc # "unborn" /\ UNCHANGED <<req, up>>
      BY <1>2, StepKinds DEF Continues, Retires, Trails, OnlyThread, Driving, Launching,
         Executing, Tearing, Spent
    <3> QED BY <3>1, NobodyYet
  <2>3. /\ \A f \in Epochs : f # e => thr'[f] = thr[f]
        /\ thr'[e].snap # NoRun => thr'[e].pc \in Saving
        /\ thr'[e].undo # NoRun => thr'[e].pc = "launchStart"
    <3>1. \/ \E p : Moves(e, p, NoRun, NoRun)
          \/ \E p \in Saving : Moves(e, p, cur', thr[e].undo) /\ thr[e].pc # "launchStart"
          \/ \E p : Moves(e, p, NoRun, thr[e].undo) /\ thr[e].pc # "launchStart"
          \/ \E p : Moves(e, p, thr[e].snap, thr[e].undo) /\ thr[e].pc \notin Saving
      <4> USE ThreadMoves DEF Saving, Launching
      <4>1. CASE LaunchSaved(e) \/ StartFailed(e) \/ RetryFailed(e) \/ ResetFailed(e)
        BY <4>1
      <4>2. CASE Complete(e) \/ Park(e) \/ ParkCanceled(e) \/ RunStep(e) \/ StepSucceeds(e)
        BY <4>2 DEF Complete, Park, ParkCanceled, RunStep, StepSucceeds, Drives
      <4>3. CASE StepFails(e) \/ ProveCleaned(e) \/ ProveUncleaned(e)
        BY <4>3 DEF StepFails, ProveCleaned, ProveUncleaned, Drives
      <4>4. CASE WorkloadStuck(e) \/ ReleasesKept(e) \/ ReleasesRemoved(e)
        BY <4>4 DEF WorkloadStuck, ReleasesKept, ReleasesRemoved, Drives
      <4>5. CASE ParkSaved(e) \/ StepSaved(e) \/ MergeSaved(e) \/ FinishSaved(e) \/ ResetSaved(e)
        BY <4>5 DEF ParkSaved, StepSaved, MergeSaved, CheckpointSaved, FinishSaved, ResetSaved
      <4>6. CASE Resume(e) \/ Install(e) \/ CreateWorkload(e)
        BY <4>6 DEF Resume, Install, CreateWorkload, Drives
      <4>7. CASE WorkloadAbsent(e) \/ Uninstall(e) \/ ResetDelete(e) \/ ResetClear(e)
        BY <4>7 DEF WorkloadAbsent, Uninstall, ResetDelete, ResetClear, Drives
      <4> QED BY <1>2, <4>1, <4>2, <4>3, <4>4, <4>5, <4>6, <4>7 DEF ThreadStep
    <3> QED BY <3>1 DEF Moves, Saving, Launching
  <2> QED BY <2>1, <2>2, <2>3
<1>3. ASSUME NEW c \in Callers, Decide(c) \/ Discard(c) \/ Stop(c) \/ RequestStep(c)
      PROVE  SlotsOK'
  <2>1. (ptr = NoID => rec = NoRun)'
    BY <1>0, <1>3, RequestWrites
  <2>2. Wakes(c) /\ up' = "serving"
    BY <1>3, RequestWakes, RequestSteps DEF Asks
  <2>3. \A d \in Callers : req'[d].snap # NoRun => req'[d].pc \in {"decideSave", "stopSave"}
    <3> USE RequestMoves DEF Left, Entered, Goes
    <3>1. CASE Decide(c) \/ Discard(c) \/ Stop(c)
      BY <3>1
    <3>2. CASE DecideFailed(c) \/ DecideResume(c) \/ DiscardDeleted(c) \/ DiscardFailed(c)
               \/ StopFailed(c) \/ StopClear(c)
      BY <3>2
    <3>3. CASE DecideSaved(c) \/ StopSaved(c)
      BY <3>3
    <3>4. CASE StopAbsent(c) \/ StopMark(c)
      BY <3>4 DEF StopAbsent, StopMark
    <3>5. CASE StopFinish(c)
      <4>1. req[c].snap = NoRun
        BY <3>5 DEF StopFinish
      <4> QED BY <3>5, <4>1
    <3> QED BY <1>3, <3>1, <3>2, <3>3, <3>4, <3>5 DEF RequestStep
  <2> QED BY <2>1, <2>2, <2>3 DEF Wakes
<1>4. CASE CancelAndWait
  <2>1. \A e \in Epochs : /\ thr'[e].pc = thr[e].pc /\ thr'[e].snap = thr[e].snap
                          /\ thr'[e].undo = thr[e].undo
    BY <1>4 DEF CancelAndWait, IInv, Core, CoreOK, Threads
  <2> QED BY <1>4, <2>1 DEF CancelAndWait, Serving
<1>5. CASE Crash
  <2>1. (ptr = NoID => rec = NoRun)'
    BY <1>5, DeleteErases DEF Crash, storeVars, Store!DeleteFailed, Store!storeVars
  <2> QED BY <1>5, <2>1 DEF Crash, Unborn, NoRequest
<1>6. CASE Reconcile
  <2>1. (ptr = NoID => rec = NoRun)'
    BY <1>0, <1>6, ReconcileTurns DEF Writes, Turns, Adopts
  <2> QED BY <1>6, <2>1, ReconcileTurns
<1>7. CASE DrainReturns \/ Recover \/ UNCHANGED vars
  BY <1>7 DEF DrainReturns, Recover, memVars, vars
<1> QED
  BY <1>1, <1>2, <1>3, <1>4, <1>5, <1>6, <1>7 DEF Next

(* CancelAndWait cancels a context, and that is all it does to a goroutine. *)
Cancels ==
  \A e \in Epochs :
    /\ thr'[e].pc = thr[e].pc /\ thr'[e].snap = thr[e].snap /\ thr'[e].undo = thr[e].undo
    /\ thr'[e].token = thr[e].token /\ thr'[e].made = thr[e].made
    /\ thr'[e].canceled => thr[e].canceled \/ draining'

(* What the process does around its serving life leaves runs and requests to
   Recover and Reconcile. *)
LEMMA ProcessMoves ==
  ASSUME IInv
  PROVE  /\ CancelAndWait => Cancels /\ UNCHANGED <<ptr, rec, up, cur, epoch, volatile, req>>
         /\ DrainReturns => UNCHANGED <<ptr, rec, up, cur, epoch, volatile, req, thr>>
         /\ Crash => /\ cur' = NoRun /\ epoch' = 0 /\ ~volatile' /\ Erases
                     /\ \A e \in Epochs : /\ thr'[e].pc = "unborn" /\ thr'[e].snap = NoRun
                                          /\ thr'[e].undo = NoRun /\ ~thr'[e].token
                                          /\ ~thr'[e].canceled
                     /\ \A c \in Callers : req'[c].pc = "idle" /\ req'[c].snap = NoRun
<1>1. CancelAndWait => Cancels
  BY DEF CancelAndWait, Cancels, IInv, Core, CoreOK, Threads
<1>2. Crash => Erases
  BY DeleteErases DEF Crash, Erases, storeVars
<1> QED
  BY <1>1, <1>2 DEF CancelAndWait, DrainReturns, memVars, Crash, Unborn, NoRequest

(***************************************************************************)
(* DriveOK.                                                                *)
(***************************************************************************)
LEMMA DriveKept ==
  ASSUME IInv, SlotsOK, DriveOK, [Next]_vars
  PROVE  DriveOK'
<1> USE DEF DriveOK
<1>0. \A c \in Callers : req[c].epoch <= epoch /\ epoch \in Nat
                         /\ req[c].epoch \in 0 .. MaxEpoch
  BY DEF IInv, Core, CoreOK, RequestOK, Requests
<1>1. CASE Start \/ Retry \/ Reset
  <2>1. Calm(cur) /\ UNCHANGED req
    BY <1>1, LaunchingSteps DEF Launches
  <2>2. \A e \in Epochs : thr[e].pc \notin Driving
    BY <2>1, Alone
  <2>3. \/ Born("launchStart", cur) /\ cur'.state = "running" /\ ~cur'.residue
        \/ Born("launchRetry", NoRun) /\ cur'.state = "running" /\ ~cur'.residue
        \/ Born("launchReset", NoRun) /\ cur'.state = "resetting"
    BY <1>1, LaunchMoves DEF Fresh, Turns, Retry, CanRetry, IncompleteTeardown
  <2>4. \A c \in Callers : req'[c].epoch # epoch'
    BY <1>0, <2>1, <2>3 DEF Born
  <2>5. ASSUME NEW e \in Epochs, e # epoch' PROVE thr'[e].pc \notin Driving
    BY <2>2, <2>3, <2>5 DEF Born
  <2>6. ASSUME NEW c \in Callers, NEW e \in Epochs, req'[c].epoch = e
        PROVE  thr'[e].pc \notin Driving
    BY <2>4, <2>5, <2>6
  <2> QED BY <2>3, <2>5, <2>6 DEF Born, Driving, Launching, Executing, Tearing
<1>2. ASSUME NEW e \in Epochs, ThreadStep(e) PROVE DriveOK'
  <2>0. UNCHANGED <<req, epoch>>
    BY <1>2, StepKinds DEF Continues, Retires, Trails, OnlyThread
  <2>1. CASE Trails(e)
    BY <2>0, <2>1 DEF Trails, OnlyThread, Spent, Driving, Launching, Executing, Tearing
  <2>2. CASE \A f \in Epochs : thr'[f].pc \notin Driving
    BY <2>2 DEF Driving, Launching, Executing, Tearing
  <2>3. CASE Continues(e)
    <3>0. /\ thr[e].pc \in Driving /\ cur.id = cur'.id
          /\ \A f \in Epochs : f # e => thr'[f] = thr[f] /\ thr[f].pc \notin Driving
      BY <2>3, Alone DEF Continues, OnlyThread
    <3> DEFINE Here ==
                 /\ thr'[e].pc \in {"launchReset"} \cup Tearing => cur'.state = "resetting"
                 /\ thr'[e].pc \notin Launching
                 /\ thr'[e].pc \in Executing =>
                      cur'.state \in {"running", "awaiting"} /\ ~cur'.residue
                 /\ thr'[e].snap # NoRun => thr'[e].snap.id = cur'.id
                 /\ thr'[e].pc \in Tearing => thr[e].pc \in {"launchReset"} \cup Tearing
    <3>1. Here
      <4> USE DEF Launching, Executing, Tearing, Driving
      <4>1. CASE LaunchSaved(e)
        <5>1. UNCHANGED cur /\ thr[e].pc \in Launching
          BY <4>1 DEF LaunchSaved, memVars
        <5>2. Moves(e, IF thr[e].pc = "launchReset" THEN "teardown" ELSE "loop", NoRun, NoRun)
          BY <4>1, ThreadMoves
        <5> QED BY <5>1, <5>2 DEF Moves
      <4>2. CASE Park(e) \/ RunStep(e) \/ StepSucceeds(e)
        <5>1. thr[e].pc \in Executing
          BY <4>2 DEF Park, RunStep, StepSucceeds, Drives
        <5>2. \E p \in {"parkSave", "stepSave", "mergeSave"} : Moves(e, p, cur', thr[e].undo)
          BY <4>2, ThreadMoves
        <5>3. \/ \E x \in {"awaiting", "running"} : Turns(cur, cur', x, cur.residue)
              \/ Advances(cur, cur', thr[e].inst)
          BY <4>2, ThreadTurns
        <5>4. cur'.state \in {cur.state, "awaiting", "running"} /\ cur'.residue = cur.residue
          BY <5>3 DEF Turns, Advances
        <5> QED BY <5>1, <5>2, <5>4 DEF Moves
      <4>3. CASE ParkSaved(e) \/ StepSaved(e) \/ MergeSaved(e)
        <5>1. UNCHANGED cur /\ thr[e].pc \in {"parkSave", "stepSave", "mergeSave"}
          BY <4>3 DEF ParkSaved, StepSaved, MergeSaved, CheckpointSaved, memVars
        <5>2. \E p \in {"parked", "step", "loop"} : Moves(e, p, NoRun, thr[e].undo)
          BY <4>3, ThreadMoves
        <5> QED BY <5>1, <5>2 DEF Moves
      <4>4. CASE Resume(e) \/ Install(e) \/ CreateWorkload(e)
        <5>1. UNCHANGED cur /\ thr[e].pc \in {"parked", "step"}
          BY <4>4 DEF Resume, Install, CreateWorkload, Drives, memVars
        <5>2. \E p \in {"loop", "step"} : Moves(e, p, thr[e].snap, thr[e].undo)
          BY <4>4, ThreadMoves
        <5> QED BY <5>1, <5>2 DEF Moves
      <4>5. CASE WorkloadAbsent(e) \/ Uninstall(e)
        <5>1. UNCHANGED cur /\ thr[e].pc \in {"teardown", "releases"}
          BY <4>5 DEF WorkloadAbsent, Uninstall, Drives, memVars
        <5>2. Moves(e, "releases", thr[e].snap, thr[e].undo)
          BY <4>5, ThreadMoves
        <5> QED BY <5>1, <5>2 DEF Moves
      <4> QED BY <1>2, <2>3, <4>1, <4>2, <4>3, <4>4, <4>5, StepKinds
              DEF Continues, Retires, Trails, Spent
    <3> HIDE DEF Here
    <3>2. \A f \in Epochs : f # e => thr'[f].pc \notin Driving
      BY <3>0
    <3>3. \A c \in Callers, f \in Epochs :
            req'[c].pc = "decideSave" /\ req'[c].epoch = f =>
              thr'[f].pc \notin Launching \cup Tearing
      BY <2>0, <3>0, <3>1 DEF Here, Launching, Tearing
    <3>4. \A f \in Epochs :
            /\ thr'[f].pc \in {"launchReset"} \cup Tearing => cur'.state = "resetting"
            /\ thr'[f].pc \notin Launching
            /\ thr'[f].pc \in Executing =>
                 cur'.state \in {"running", "awaiting"} /\ ~cur'.residue
            /\ thr'[f].pc \in Driving /\ thr'[f].snap # NoRun => thr'[f].snap.id = cur'.id
      BY <3>1, <3>2 DEF Here, Driving, Launching, Executing, Tearing
    <3> QED BY <3>3, <3>4 DEF Launching
  <2> QED BY <1>2, <2>1, <2>2, <2>3, StepKinds
<1>3. ASSUME NEW c \in Callers, Decide(c) \/ Discard(c) \/ Stop(c) \/ RequestStep(c)
      PROVE  DriveOK'
  <2>1. Wakes(c) /\ Asks(c) /\ UNCHANGED epoch
    BY <1>3, RequestWakes, RequestSteps DEF Asks
  <2>2. CASE Calm(cur)
    <3>1. \A e \in Epochs : thr'[e].pc \notin Driving
      BY <2>1, <2>2, Alone DEF Wakes
    <3> QED BY <3>1 DEF Driving, Launching, Executing, Tearing
  <2>3. CASE ~Calm(cur)
    <3>0. PICK e \in Epochs : /\ thr[e].pc \in Driving /\ e = epoch /\ cur # NoRun /\ Live(cur)
                              /\ \A f \in Epochs : f # e => thr[f].pc \notin Driving
      BY <2>3, Alone DEF Calm, IInv, Core, OneDriver
    <3>1. CASE Decide(c)
      <4>1. /\ Marks(cur, cur') /\ cur.state = "awaiting" /\ cur'.state = "running"
            /\ Entered(c, "decideSave", cur')
        BY <3>1, RequestTurns, RequestMoves
      <4>2. thr[e].pc \notin Launching \cup Tearing
        BY <3>0, <4>1 DEF Launching, Tearing
      <4>3. \A f \in Epochs : thr[f].pc \notin Launching \cup Tearing
        BY <3>0, <4>2 DEF Driving
      <4> QED BY <2>1, <4>1, <4>3
              DEF Wakes, Marks, Driving, Launching, Executing, Tearing
    <3>2. CASE DecideFailed(c)
      <4>0. Left(c)
        BY <3>2, RequestMoves
      <4>1. CASE UNCHANGED cur
        BY <2>1, <4>0, <4>1 DEF Wakes, Left
      <4>2. CASE Holds(c) /\ Marks(cur, cur') /\ cur'.state = "awaiting"
        <5>1. thr[e].pc \notin Launching \cup Tearing
          BY <3>0, <3>2, <4>2 DEF Holds, DecideFailed
        <5>2. \A f \in Epochs : thr[f].pc \notin Launching \cup Tearing
          BY <3>0, <5>1 DEF Driving
        <5> QED BY <2>1, <4>0, <4>2, <5>2
                DEF Wakes, Left, Marks, Driving, Launching, Executing, Tearing
      <4> QED BY <3>2, <4>1, <4>2, RequestTurns
    <3>3. CASE UNCHANGED cur /\ ~Decide(c)
      <4>1. \A d \in Callers : req'[d].pc = "decideSave" =>
              req[d].pc = "decideSave" /\ req'[d].epoch = req[d].epoch
        BY <1>3, <3>3, RequestMoves DEF RequestStep, Left, Entered, Goes
      <4> QED BY <2>1, <3>3, <4>1 DEF Wakes
    <3>4. Decide(c) \/ DecideFailed(c) \/ UNCHANGED cur
      <4>1. CASE Discard(c) \/ DiscardFailed(c)
        BY <3>0, <4>1 DEF Discard, CanDiscard, DiscardFailed
      <4>2. CASE StopMark(c) \/ StopFinish(c)
        <5>1. RequestOK(c)
          BY DEF IInv, Core
        <5> QED BY <3>0, <4>2, <5>1 DEF StopMark, StopFinish, Holds, RequestOK
      <4>3. CASE \/ Stop(c) \/ DecideSaved(c) \/ DecideResume(c) \/ DiscardDeleted(c)
                 \/ StopAbsent(c) \/ StopFailed(c) \/ StopSaved(c) \/ StopClear(c)
        BY <4>3 DEF Stop, DecideSaved, DecideResume, DiscardDeleted, StopAbsent, StopFailed,
           StopSaved, StopClear, memVars
      <4> QED BY <1>3, <4>1, <4>2, <4>3 DEF RequestStep
    <3> QED BY <3>1, <3>2, <3>3, <3>4
  <2> QED BY <2>2, <2>3
<1>4. CASE CancelAndWait
  BY <1>4, ProcessMoves DEF Cancels
<1>5. CASE Crash
  BY <1>5, ProcessMoves DEF Launching, Executing, Tearing, Driving
<1>6. CASE Recover \/ Reconcile
  <2>1. /\ \A e \in Epochs : thr'[e].pc = "unborn"
        /\ \A c \in Callers : req'[c].pc = "idle"
    BY <1>6, NobodyYet, RecoverTurns, ReconcileTurns
  <2> QED BY <2>1 DEF Launching, Executing, Tearing, Driving
<1>7. CASE DrainReturns \/ UNCHANGED vars
  BY <1>7, ProcessMoves DEF vars
<1> QED
  BY <1>1, <1>2, <1>3, <1>4, <1>5, <1>6, <1>7 DEF Next

(***************************************************************************)
(* Every way the current run changes.                                      *)
(***************************************************************************)
LEMMA CurHeld ==
  /\ cur \in Restorable /\ Restorable \subseteq Held \cup {NoRun} /\ NoRun \notin Held
  /\ rec # NoRun => rec \in Held
  /\ Snapshots \subseteq Held \cup {NoRun}
BY DEF Held, Restorable

LEMMA CurSteps ==
  ASSUME IInv, [Next]_vars
  PROVE
    \/ cur' \in Restorable \cup {NoRun}
    \/ \E i \in RunIDs \ used : Fresh(cur', i) /\ used' = used \cup {i}
    \/ /\ cur \in Runs /\ cur.state = "failed" /\ ~cur.residue
       /\ Turns(cur, cur', "running", FALSE)
    \/ /\ cur \in Runs /\ cur.installed /\ ~Live(cur)
       /\ Turns(cur, cur', "resetting", FALSE)
    \/ \E e \in Epochs :
         /\ thr[e].pc \in Driving /\ cur # NoRun
         /\ \/ RetryFailed(e) \/ ResetFailed(e) \/ Complete(e) \/ Park(e) \/ RunStep(e)
            \/ ParkCanceled(e) \/ StepSucceeds(e)
            \/ StepFails(e) \/ ProveCleaned(e) \/ ProveUncleaned(e)
            \/ WorkloadStuck(e) \/ ReleasesKept(e) \/ ReleasesRemoved(e)
    \/ \E c \in Callers :
         /\ cur # NoRun
         /\ Decide(c) \/ DecideFailed(c) \/ StopMark(c) \/ StopFinish(c)
    \/ Recover /\ rec # NoRun /\ Recovers(rec, cur')
    \/ /\ Reconcile /\ cur # NoRun /\ cur.state = "active" /\ cur.id \notin wl
       /\ Turns(cur, cur', "done", cur.residue)
    \/ \E i \in wl : Adopts(cur', i)
<1>1. CASE Start \/ Retry \/ Reset
  <2>1. Retry \/ Reset => cur \in Runs
    BY DEF Retry, Reset, CanRetry, CanReset, IInv, Core, CoreOK
  <2>2. CASE Retry
    BY <2>1, <2>2, LaunchMoves, RunEdits DEF Retry, CanRetry, IncompleteTeardown
  <2> QED BY <1>1, <2>1, <2>2, LaunchMoves DEF Reset, CanReset
<1>2. ASSUME NEW e \in Epochs, ThreadStep(e)
      PROVE  \/ cur' \in Restorable
             \/ /\ thr[e].pc \in Driving /\ cur # NoRun
                /\ \/ RetryFailed(e) \/ ResetFailed(e) \/ Complete(e) \/ Park(e) \/ RunStep(e)
                   \/ ParkCanceled(e) \/ StepSucceeds(e)
                   \/ StepFails(e) \/ ProveCleaned(e) \/ ProveUncleaned(e)
                   \/ WorkloadStuck(e) \/ ReleasesKept(e) \/ ReleasesRemoved(e)
  <2>1. thr[e].pc \in Driving => cur # NoRun
    BY Driven
  <2>2. CASE Trails(e)
    BY <2>2, CurHeld DEF Trails
  <2>3. CASE thr[e].pc \notin Driving
    BY <1>2, <2>2, <2>3, StepKinds DEF Continues, Retires
  <2>4. CASE StartFailed(e)
    BY <2>4, ThreadTurns DEF Restorable
  <2>5. CASE UNCHANGED cur
    BY <2>5, CurHeld
  <2> QED BY <1>2, <2>1, <2>2, <2>3, <2>4, <2>5 DEF ThreadStep, LaunchSaved,
        ParkSaved, Resume, StepSaved, MergeSaved, CheckpointSaved, Install, CreateWorkload,
        FinishSaved, WorkloadAbsent, Uninstall, ResetSaved, ResetDelete, ResetClear, memVars
<1>3. ASSUME NEW c \in Callers, Decide(c) \/ Discard(c) \/ Stop(c) \/ RequestStep(c)
      PROVE  \/ cur' \in Restorable \cup {NoRun}
             \/ cur # NoRun /\ (Decide(c) \/ DecideFailed(c) \/ StopMark(c) \/ StopFinish(c))
  <2>1. CASE UNCHANGED cur \/ cur' = NoRun
    BY <2>1, CurHeld
  <2>2. CASE Decide(c) \/ DecideFailed(c) \/ StopMark(c) \/ StopFinish(c)
    BY <2>1, <2>2 DEF Decide, DecideFailed, StopMark, StopFinish, Holds
  <2>3. CASE DiscardFailed(c)
    BY <2>1, <2>3 DEF DiscardFailed, Restorable
  <2> QED BY <1>3, <2>1, <2>2, <2>3 DEF RequestStep, Discard, Stop, DecideSaved, DecideResume,
        DiscardDeleted, StopAbsent, StopFailed, StopSaved, StopClear, memVars
<1>4. CASE CancelAndWait \/ DrainReturns \/ Crash \/ UNCHANGED vars
  BY <1>4, ProcessMoves, CurHeld DEF vars
<1>5. CASE Recover
  BY <1>5, RecoverTurns, CurHeld
<1>6. CASE Reconcile
  BY <1>6, ReconcileTurns, CurHeld
<1> QED
  BY <1>1, <1>2, <1>3, <1>4, <1>5, <1>6 DEF Next

(***************************************************************************)
(* RecordOK.                                                               *)
(***************************************************************************)
LEMMA RecordKept ==
  ASSUME IInv, SlotsOK, DriveOK, RecordOK, [Next]_vars
  PROVE  RecordOK'
<1> DEFINE Repeatable(r) == r.residue \/ r.state = "resetting" => r.installed
<1>1. \A r \in Restorable \cup {cur, rec} : r # NoRun => Repeatable(r)
  BY CurHeld DEF RecordOK
<1>2. cur' # NoRun => Repeatable(cur')
  <2>1. ASSUME NEW e \in Epochs, thr[e].pc \in Driving, cur # NoRun,
               \/ RetryFailed(e) \/ ResetFailed(e) \/ Complete(e) \/ Park(e) \/ RunStep(e)
               \/ ParkCanceled(e)
        PROVE  Repeatable(cur')
    BY <1>1, <2>1, ThreadTurns DEF Turns
  <2>2. ASSUME NEW e \in Epochs, cur # NoRun,
               StepSucceeds(e) \/ StepFails(e) \/ ProveCleaned(e) \/ ProveUncleaned(e)
        PROVE  Repeatable(cur')
    <3>1. thr[e].pc = "step" /\ ~cur.residue /\ cur.state # "resetting"
      BY <2>2 DEF DriveOK, StepSucceeds, StepFails, ProveCleaned, ProveUncleaned, Drives,
         Executing
    <3> QED BY <2>2, <3>1, ThreadTurns DEF Advances, Fails
  <2>3. ASSUME NEW e \in Epochs, cur # NoRun,
               WorkloadStuck(e) \/ ReleasesKept(e) \/ ReleasesRemoved(e)
        PROVE  Repeatable(cur')
    <3>1. cur.state = "resetting"
      BY <2>3 DEF DriveOK, WorkloadStuck, ReleasesKept, ReleasesRemoved, Drives, Tearing
    <3> QED BY <1>1, <2>3, <3>1, ThreadTurns DEF Turns
  <2>4. ASSUME NEW c \in Callers, cur # NoRun,
               Decide(c) \/ DecideFailed(c) \/ StopMark(c) \/ StopFinish(c)
        PROVE  Repeatable(cur')
    BY <1>1, <2>4, RequestTurns DEF Marks, Turns
  <2>5. rec # NoRun /\ Recovers(rec, cur') => Repeatable(cur')
    BY <1>1 DEF Recovers
  <2>6. cur # NoRun /\ Turns(cur, cur', "done", cur.residue) => Repeatable(cur')
    BY <1>1 DEF Turns
  <2>7. ASSUME NEW i, Fresh(cur', i) \/ Adopts(cur', i) PROVE Repeatable(cur')
    BY <2>7 DEF Fresh, Adopts
  <2>8. /\ Turns(cur, cur', "running", FALSE) => Repeatable(cur')
        /\ cur.installed /\ Turns(cur, cur', "resetting", FALSE) => Repeatable(cur')
    BY DEF Turns
  <2> HIDE DEF Repeatable
  <2> QED BY <1>1, <2>1, <2>2, <2>3, <2>4, <2>5, <2>6, <2>7, <2>8, CurSteps
<1> HIDE DEF Repeatable
<1>3. Held' \subseteq Held \cup {cur'} /\ NoRun \notin Held'
  BY NextFlows, FlowsHeld DEF Held
<1>4. RecordOK = (\A r \in Held : Repeatable(r))
  BY DEF RecordOK, Repeatable
<1>5. RecordOK' = (\A r \in Held' : Repeatable(r))
  BY DEF RecordOK, Repeatable
<1> QED
  BY <1>2, <1>3, <1>4, <1>5

(***************************************************************************)
(* SettleOK.                                                               *)
(***************************************************************************)
LEMMA SettleKept ==
  ASSUME IInv, SettleOK, [Next]_vars
  PROVE  SettleOK'
<1> USE DEF SettleOK, Settling
<1>0. \A c \in Callers : req[c].epoch <= epoch /\ epoch \in Nat
                         /\ req[c].epoch \in 0 .. MaxEpoch
  BY DEF IInv, Core, CoreOK, RequestOK, Requests
<1>1. CASE Start \/ Retry \/ Reset
  <2>1. UNCHANGED req /\ epoch' = epoch + 1
    BY <1>1, LaunchingSteps DEF Launches
  <2>2. \A c \in Callers : req'[c].epoch # epoch'
    BY <1>0, <2>1
  <2> QED BY <2>1, <2>2
<1>2. ASSUME NEW e \in Epochs, ThreadStep(e) PROVE SettleOK'
  <2>1. UNCHANGED <<req, epoch>>
    BY <1>2, StepKinds DEF Continues, Retires, Trails, OnlyThread
  <2>2. CASE thr[e].pc \in Driving
    <3>1. cur # NoRun /\ Live(cur)
      BY <2>2, Driven
    <3>2. \A c \in Callers : ~Settling(c)
      BY <3>1
    <3> QED BY <2>1, <3>2
  <2>3. CASE thr[e].pc \notin Driving
    <3>1. UNCHANGED cur
      BY <1>2, <2>3, StepKinds DEF Continues, Retires, Trails
    <3> QED BY <2>1, <3>1
  <2> QED BY <2>2, <2>3
<1>3. ASSUME NEW c \in Callers, Decide(c) \/ Discard(c) \/ Stop(c) \/ RequestStep(c)
      PROVE  SettleOK'
  <2>0. UNCHANGED epoch
    BY <1>3, RequestSteps DEF Asks
  <2> USE RequestMoves, <2>0
  <2>1. CASE Decide(c)
    <3>1. /\ Entered(c, "decideSave", cur') /\ Live(cur) /\ cur # NoRun
          /\ Marks(cur, cur')
      BY <2>1, RequestTurns DEF Decide, Live
    <3>2. \A d \in Callers : ~Settling(d)
      BY <3>1
    <3> QED BY <3>1, <3>2 DEF Entered
  <2>2. CASE Discard(c)
    <3>1. Entered(c, "discardDelete", NoRun) /\ cur # NoRun /\ cur' = NoRun
      BY <2>2 DEF Discard, CanDiscard
    <3> QED BY <3>1 DEF Entered
  <2>3. CASE Stop(c)
    <3>1. Entered(c, "stopAbsent", NoRun) /\ cur # NoRun /\ UNCHANGED cur /\ ~Live(cur)
      <4>1. cur # NoRun /\ UNCHANGED cur /\ Stoppable(cur)
        BY <2>3 DEF Stop, CanStop, memVars
      <4>2. ~Live(cur)
        BY <4>1 DEF Stoppable, Unconfirmed, Live
      <4> QED BY <2>3, <4>1, <4>2
    <3> QED BY <3>1 DEF Entered
  <2>4. CASE DecideSaved(c) \/ StopSaved(c)
    BY <2>4 DEF DecideSaved, StopSaved, memVars, Goes
  <2>5. CASE DecideFailed(c)
    <3>1. Left(c)
      BY <2>5
    <3>2. UNCHANGED cur \/ (cur # NoRun /\ Live(cur))
      BY <2>5, RequestTurns DEF Holds
    <3>3. CASE UNCHANGED cur
      BY <3>1, <3>3 DEF Left
    <3>4. CASE cur # NoRun /\ Live(cur)
      <4>1. \A d \in Callers : ~Settling(d)
        BY <3>4
      <4>2. \A d \in Callers : ~Settling(d)'
        BY <3>1, <4>1 DEF Left
      <4> QED BY <3>1, <4>2 DEF Left
    <3> QED BY <3>2, <3>3, <3>4
  <2>6. CASE DecideResume(c) \/ DiscardDeleted(c) \/ StopFailed(c) \/ StopClear(c)
    <3>1. Left(c) /\ UNCHANGED cur
      BY <2>6 DEF DecideResume, DiscardDeleted, StopFailed, StopClear, memVars
    <3> QED BY <3>1 DEF Left
  <2>7. CASE DiscardFailed(c)
    <3>1. Left(c)
      BY <2>7
    <3>2. CASE UNCHANGED cur
      BY <3>1, <3>2 DEF Left
    <3>3. CASE cur = NoRun /\ epoch = req[c].epoch /\ cur' = req[c].undo
      <4>1. Settling(c) /\ ~Live(cur') /\ cur'.id = req[c].id /\ req[c].pc = "discardDelete"
        BY <2>7, <3>3 DEF DiscardFailed, IInv, Core, RequestOK
      <4> QED BY <3>1, <3>3, <4>1 DEF Left
    <3> QED BY <2>7, <3>2, <3>3 DEF DiscardFailed
  <2>8. CASE StopAbsent(c)
    <3>1. Goes(c, "stopMark", req[c].snap) /\ UNCHANGED cur /\ req[c].pc = "stopAbsent"
      BY <2>8 DEF StopAbsent, memVars
    <3> QED BY <3>1 DEF Goes
  <2>9. CASE StopMark(c)
    <3>1. Goes(c, "stopFinish", req[c].snap) /\ req[c].pc = "stopMark"
      BY <2>9 DEF StopMark
    <3>2. CASE UNCHANGED cur
      BY <3>1, <3>2 DEF Goes
    <3>3. CASE Holds(c) /\ Marks(cur, cur') /\ cur'.state = cur.state
      BY <3>1, <3>3, NoRunAssumption DEF Goes, Marks, Holds, Live
    <3> QED BY <2>9, <3>2, <3>3, RequestTurns
  <2>10. CASE StopFinish(c)
    <3>1. CASE epoch = req[c].epoch /\ cur # NoRun
      <4>1. Goes(c, "stopSave", cur') /\ Turns(cur, cur', "done", cur.residue)
            /\ req[c].pc = "stopFinish"
        BY <2>10, <3>1, RequestTurns DEF StopFinish
      <4> QED BY <3>1, <4>1 DEF Goes, Turns, Live
    <3>2. CASE ~(epoch = req[c].epoch /\ cur # NoRun)
      <4>1. Goes(c, "stopClear", req[c].snap) /\ UNCHANGED cur /\ req[c].pc = "stopFinish"
        BY <2>10, <3>2 DEF StopFinish
      <4> QED BY <4>1 DEF Goes
    <3> QED BY <3>1, <3>2
  <2> QED BY <1>3, <2>1, <2>2, <2>3, <2>4, <2>5, <2>6, <2>7, <2>8, <2>9, <2>10
          DEF RequestStep
<1>4. CASE CancelAndWait \/ DrainReturns \/ UNCHANGED vars
  BY <1>4, ProcessMoves DEF vars
<1>5. CASE Crash \/ Recover \/ Reconcile
  <2>1. \A c \in Callers : req'[c].pc = "idle"
    BY <1>5, ProcessMoves, NobodyYet, RecoverTurns, ReconcileTurns
  <2> QED BY <2>1
<1> QED
  BY <1>1, <1>2, <1>3, <1>4, <1>5 DEF Next

(***************************************************************************)
(* UsedOK.                                                                 *)
(***************************************************************************)
(* Where the world outside the engine's memory changes. *)
LEMMA WorldSteps ==
  ASSUME [Next]_vars
  PROVE  /\ used \subseteq used'
         /\ wl' \subseteq wl
            \/ \E e \in Epochs : CreateWorkload(e) /\ wl' = wl \cup {cur.id}
         /\ acked' = acked
            \/ \E c \in Callers : /\ DecideResume(c)
                                  /\ acked' = acked \cup {<<req[c].id, req[c].undo.idx>>}
<1>1. CASE Start \/ Retry \/ Reset
  BY <1>1 DEF Start, Retry, Reset, worldVars, histVars
<1>2. ASSUME NEW e \in Epochs, ThreadStep(e)
      PROVE  /\ used' = used
             /\ wl' \subseteq wl \/ (CreateWorkload(e) /\ wl' = wl \cup {cur.id})
             /\ acked' = acked
  <2>1. CASE \/ LaunchSaved(e) \/ StartFailed(e) \/ RetryFailed(e) \/ ResetFailed(e)
             \/ ParkSaved(e) \/ StepSaved(e) \/ MergeSaved(e) \/ FinishSaved(e)
             \/ ResetSaved(e) \/ ResetDelete(e) \/ ResetClear(e)
             \/ Complete(e) \/ Park(e) \/ Resume(e) \/ ParkCanceled(e)
    BY <2>1 DEF LaunchSaved, StartFailed, RetryFailed, ResetFailed, LaunchFailed,
       ParkSaved, StepSaved, MergeSaved, CheckpointSaved, FinishSaved, ResetSaved,
       ResetDelete, ResetClear, Complete, Park, Resume, ParkCanceled, worldVars, histVars
  <2>2. CASE \/ RunStep(e) \/ Install(e) \/ CreateWorkload(e) \/ StepSucceeds(e)
             \/ StepFails(e) \/ ProveCleaned(e) \/ ProveUncleaned(e)
    BY <2>2 DEF RunStep, Install, CreateWorkload, StepSucceeds, StepFails, ProveCleaned,
       ProveUncleaned, FailStep, worldVars, histVars
  <2>3. CASE \/ WorkloadAbsent(e) \/ WorkloadStuck(e) \/ Uninstall(e)
             \/ ReleasesRemoved(e) \/ ReleasesKept(e)
    BY <2>3 DEF WorkloadAbsent, WorkloadStuck, Uninstall, ReleasesRemoved, ReleasesKept,
       worldVars, histVars
  <2> QED BY <1>2, <2>1, <2>2, <2>3 DEF ThreadStep
<1>3. ASSUME NEW c \in Callers, Decide(c) \/ Discard(c) \/ Stop(c) \/ RequestStep(c)
      PROVE  /\ wl' \subseteq wl /\ used' = used
             /\ \/ acked' = acked
                \/ DecideResume(c) /\ acked' = acked \cup {<<req[c].id, req[c].undo.idx>>}
  BY <1>3 DEF Decide, Discard, Stop, RequestStep, DecideSaved, DecideFailed, DecideResume,
     DiscardDeleted, DiscardFailed, StopAbsent, StopFailed, StopMark, StopFinish, StopSaved,
     StopClear, worldVars, histVars
<1>4. CASE CancelAndWait \/ DrainReturns \/ Crash \/ Recover \/ Reconcile \/ UNCHANGED vars
  BY <1>4 DEF CancelAndWait, DrainReturns, Crash, Recover, Reconcile, worldVars, histVars, vars
<1> QED
  BY <1>1, <1>2, <1>3, <1>4 DEF Next

LEMMA UsedKept ==
  ASSUME IInv, UsedOK, [Next]_vars
  PROVE  UsedOK'
<1> USE DEF UsedOK
<1>0. used \subseteq used'
  BY WorldSteps
<1>1. cur # NoRun => cur.id \in used
  BY CurHeld
<1>2. cur' # NoRun => cur'.id \in used'
  <2>1. CASE cur' \in Restorable
    BY <1>0, <2>1, CurHeld
  <2>2. ASSUME NEW e \in Epochs, cur # NoRun,
               \/ RetryFailed(e) \/ ResetFailed(e) \/ Complete(e) \/ Park(e) \/ RunStep(e)
               \/ ParkCanceled(e) \/ StepSucceeds(e)
               \/ StepFails(e) \/ ProveCleaned(e) \/ ProveUncleaned(e)
               \/ WorkloadStuck(e) \/ ReleasesKept(e) \/ ReleasesRemoved(e)
        PROVE  cur'.id = cur.id
    BY <2>2, ThreadTurns DEF Turns, Advances, Fails
  <2>3. ASSUME NEW c \in Callers, cur # NoRun,
               Decide(c) \/ DecideFailed(c) \/ StopMark(c) \/ StopFinish(c)
        PROVE  cur'.id = cur.id
    BY <2>3, RequestTurns DEF Marks, Turns
  <2>4. rec # NoRun /\ Recovers(rec, cur') => cur'.id \in used
    BY CurHeld DEF Recovers
  <2>5. ASSUME NEW s, NEW x, Turns(cur, cur', s, x) PROVE cur'.id = cur.id /\ cur # NoRun
    BY <2>5, NoRunAssumption DEF Turns
  <2>6. ASSUME NEW i, Fresh(cur', i) \/ Adopts(cur', i) PROVE cur'.id = i
    BY <2>6 DEF Fresh, Adopts
  <2> QED BY <1>0, <1>1, <2>1, <2>2, <2>3, <2>4, <2>5, <2>6, CurSteps
<1>3. \A r \in Held' : r.id \in used'
  <2>1. Held' \subseteq Held \cup {cur'} /\ NoRun \notin Held'
    BY NextFlows, FlowsHeld DEF Held
  <2> QED BY <1>0, <1>2, <2>1
<1>4. wl' \subseteq used'
  <2>1. ASSUME NEW e \in Epochs, CreateWorkload(e) PROVE cur # NoRun
    BY <2>1, Driven DEF CreateWorkload, Drives, Driving, Executing
  <2> QED BY <1>0, <1>1, <2>1, WorldSteps
<1>5. \A a \in acked' : a[1] \in used'
  <2>1. ASSUME NEW c \in Callers, DecideResume(c) PROVE req[c].id \in used
    BY <2>1 DEF DecideResume
  <2> QED BY <1>0, <2>1, WorldSteps
<1>6. \A c \in Callers : req'[c].pc # "idle" => req'[c].id \in used'
  <2>1. CASE Start \/ Retry \/ Reset \/ CancelAndWait \/ DrainReturns \/ UNCHANGED vars
    BY <1>0, <2>1, LaunchingSteps, ProcessMoves DEF Launches, vars
  <2>2. ASSUME NEW e \in Epochs, ThreadStep(e) PROVE UNCHANGED req
    BY <2>2, StepKinds DEF Continues, Retires, Trails, OnlyThread
  <2>3. ASSUME NEW c \in Callers, Decide(c) \/ Discard(c) \/ Stop(c) \/ RequestStep(c)
        PROVE  \A d \in Callers : req'[d].pc # "idle" => req'[d].id \in used'
    <3>1. CASE Decide(c) \/ Discard(c) \/ Stop(c)
      BY <1>0, <1>1, <3>1, RequestMoves DEF Entered, Decide, Discard, Stop, CanDiscard, CanStop
    <3>2. CASE RequestStep(c)
      <4>1. Left(c) \/ (req[c].pc # "idle" /\ \E p, s : Goes(c, p, s))
        BY <3>2, RequestMoves DEF RequestStep, DecideSaved, StopAbsent, StopMark, StopFinish,
           StopSaved
      <4> QED BY <1>0, <4>1 DEF Left, Goes
    <3> QED BY <2>3, <3>1, <3>2
  <2>4. CASE Crash \/ Recover \/ Reconcile
    BY <2>4, ProcessMoves, NobodyYet, RecoverTurns, ReconcileTurns
  <2> QED BY <1>0, <2>1, <2>2, <2>3, <2>4 DEF Next
<1> QED
  BY <1>3, <1>4, <1>5, <1>6

(***************************************************************************)
(* RecordInv, and what follows from it.                                    *)
(***************************************************************************)
LEMMA InitRecordInv == Init => RecordInv
<1> SUFFICES ASSUME Init PROVE RecordInv
  OBVIOUS
<1>1. /\ cur = NoRun /\ rec = NoRun /\ wl = {} /\ acked = {}
      /\ \A e \in Epochs : thr[e].pc = "unborn" /\ thr[e].snap = NoRun /\ thr[e].undo = NoRun
      /\ \A c \in Callers : req[c].pc = "idle" /\ req[c].snap = NoRun
  BY DEF Init, Booted, Unborn, NoRequest, Store!StoreInit
<1>2. Held = {}
  BY <1>1 DEF Held, Restorable, Snapshots
<1>3. SlotsOK /\ DriveOK
  BY <1>1 DEF SlotsOK, DriveOK, Driving, Launching, Executing, Tearing
<1>4. RecordOK /\ SettleOK /\ UsedOK
  BY <1>1, <1>2 DEF RecordOK, SettleOK, Settling, UsedOK
<1> QED
  BY <1>3, <1>4 DEF RecordInv

LEMMA NextRecordInv == IInv /\ RecordInv /\ [Next]_vars => RecordInv'
  BY SlotsKept, DriveKept, RecordKept, SettleKept, UsedKept DEF RecordInv

LEMMA RecordInductive == Spec => [](IInv /\ RecordInv)
  BY InitIInv, NextIInv, InitRecordInv, NextRecordInv, PTL DEF Spec

LEMMA RecordConsequences == IInv /\ RecordInv => RefusalHasRemedy
<1> SUFFICES ASSUME IInv, RecordInv, Settled
             PROVE  /\ cur = NoRun => CanStart
                    /\ cur # NoRun /\ (cur.state = "active" \/ Unconfirmed(cur)) => CanStop
                    /\ cur # NoRun /\ IncompleteTeardown(cur) => CanReset
                    /\ recPending => CanRetry \/ CanDiscard \/ CanStop \/ CanReset
  BY DEF RefusalHasRemedy
<1>1. Serving /\ (recPending => cur # NoRun)
  BY DEF Settled, IInv, Core, RecoveredGateHasRun
<1>2. cur # NoRun => ~Live(cur) /\ cur \in Runs
  BY DEF Settled, IInv, Core, CoreOK, OneDriver, Driving, Launching, Executing, Tearing
<1>3. cur # NoRun /\ IncompleteTeardown(cur) => CanReset
  BY <1>1, <1>2, CurHeld DEF RecordInv, RecordOK, IncompleteTeardown, CanReset
<1>4. cur # NoRun /\ (cur.state = "active" \/ Unconfirmed(cur)) => CanStop
  BY <1>1 DEF CanStop, Stoppable
<1>5. cur # NoRun => CanRetry \/ CanDiscard \/ CanStop \/ CanReset
  BY <1>1, <1>2, <1>3, <1>4 DEF CanDiscard
<1> QED
  BY <1>1, <1>3, <1>4, <1>5 DEF CanStart

(* Every refusal of Start has a way out that is open once nothing is in flight:
   what refuses one call never refuses the call that it points at. *)
THEOREM RefusalHasRemedyHolds == Spec => []RefusalHasRemedy
  BY RecordInductive, RecordConsequences, PTL

(***************************************************************************)
(* The bundle.                                                             *)
(***************************************************************************)
(* Bundles are only written, until the process dies. *)
LEMMA BundledSteps ==
  ASSUME [Next]_vars
  PROVE  /\ bundled \subseteq bundled' \/ Crash
         /\ \A e \in Epochs : StepSucceeds(e) /\ cur.idx = BundleStep => cur.id \in bundled'
<1>1. Start \/ Retry \/ Reset => bundled' = bundled
  BY DEF Start, Retry, Reset, worldVars
<1>2. ASSUME NEW e \in Epochs, ThreadStep(e) PROVE bundled \subseteq bundled'
  <2>1. CASE \/ LaunchSaved(e) \/ StartFailed(e) \/ RetryFailed(e) \/ ResetFailed(e)
             \/ ParkSaved(e) \/ StepSaved(e) \/ MergeSaved(e) \/ FinishSaved(e)
             \/ ResetSaved(e) \/ ResetDelete(e) \/ ResetClear(e)
             \/ Complete(e) \/ Park(e) \/ Resume(e) \/ ParkCanceled(e)
    BY <2>1 DEF LaunchSaved, StartFailed, RetryFailed, ResetFailed, LaunchFailed,
       ParkSaved, StepSaved, MergeSaved, CheckpointSaved, FinishSaved, ResetSaved,
       ResetDelete, ResetClear, Complete, Park, Resume, ParkCanceled, worldVars
  <2>2. CASE \/ RunStep(e) \/ Install(e) \/ CreateWorkload(e) \/ StepSucceeds(e)
             \/ StepFails(e) \/ ProveCleaned(e) \/ ProveUncleaned(e)
    BY <2>2 DEF RunStep, Install, CreateWorkload, StepSucceeds, StepFails, ProveCleaned,
       ProveUncleaned, FailStep, worldVars
  <2>3. CASE \/ WorkloadAbsent(e) \/ WorkloadStuck(e) \/ Uninstall(e)
             \/ ReleasesRemoved(e) \/ ReleasesKept(e)
    BY <2>3 DEF WorkloadAbsent, WorkloadStuck, Uninstall, ReleasesRemoved, ReleasesKept
  <2> QED BY <1>2, <2>1, <2>2, <2>3 DEF ThreadStep
<1>3. ASSUME NEW c \in Callers, Decide(c) \/ Discard(c) \/ Stop(c) \/ RequestStep(c)
      PROVE  bundled' = bundled
  BY <1>3 DEF Decide, Discard, Stop, RequestStep, DecideSaved, DecideFailed, DecideResume,
     DiscardDeleted, DiscardFailed, StopAbsent, StopFailed, StopMark, StopFinish, StopSaved,
     StopClear, worldVars
<1>4. CancelAndWait \/ DrainReturns \/ Recover \/ Reconcile \/ UNCHANGED vars =>
        bundled' = bundled
  BY DEF CancelAndWait, DrainReturns, Recover, Reconcile, worldVars, vars
<1>5. \A e \in Epochs : StepSucceeds(e) /\ cur.idx = BundleStep => cur.id \in bundled'
  BY DEF StepSucceeds
<1> QED
  BY <1>1, <1>2, <1>3, <1>4, <1>5 DEF Next

(* Where a run that may be resumed comes from, if a Reset is never rolled back. *)
LEMMA ResumableSteps ==
  ASSUME IInv, RecordInv, "reset" \notin Faults, [Next]_vars, cur' # NoRun, Resumable(cur')
  PROVE
    \/ cur' \in Restorable
    \/ \E i \in RunIDs \ used : Fresh(cur', i)
    \/ cur # NoRun /\ Resumable(cur) /\ cur'.id = cur.id /\ cur'.idx = cur.idx
    \/ \E e \in Epochs : /\ StepSucceeds(e) /\ cur \in Runs /\ cur # NoRun /\ Resumable(cur)
                          /\ cur'.id = cur.id /\ cur'.idx = cur.idx + 1
    \/ /\ Recover /\ rec # NoRun /\ cur'.id = rec.id /\ cur'.idx <= BundleStep
       /\ Live(rec) \/ rec.state = "failed"
<1> DEFINE Same == cur # NoRun /\ Resumable(cur) /\ cur'.id = cur.id /\ cur'.idx = cur.idx
           Ahead(e) == /\ StepSucceeds(e) /\ cur \in Runs /\ cur # NoRun /\ Resumable(cur)
                       /\ cur'.id = cur.id /\ cur'.idx = cur.idx + 1
<1>1. ASSUME NEW i, Adopts(cur', i) PROVE FALSE
  BY <1>1 DEF Adopts, Resumable
<1>2. ASSUME cur \in Runs, cur.state = "failed", ~cur.residue, Turns(cur, cur', "running", FALSE)
      PROVE  Same
  BY <1>2, NoRunAssumption DEF Turns, Resumable
<1>3. ASSUME NEW s, s \in {"resetting", "done", "active"}, NEW x, Turns(cur, cur', s, x)
      PROVE  FALSE
  BY <1>3 DEF Turns, Resumable
<1>4. ASSUME rec # NoRun, Recovers(rec, cur')
      PROVE  cur'.id = rec.id /\ cur'.idx <= BundleStep /\ (Live(rec) \/ rec.state = "failed")
  BY <1>4 DEF Recovers, Resumable, Live
<1>5. ASSUME NEW c \in Callers, cur # NoRun,
             Decide(c) \/ DecideFailed(c) \/ StopMark(c) \/ StopFinish(c)
      PROVE  Same
  <2>1. CASE Decide(c) \/ StopMark(c)
    BY <1>5, <2>1, RequestTurns DEF Marks, Resumable
  <2>2. CASE DecideFailed(c)
    <3>1. CASE Live(cur) /\ Holds(c) /\ Marks(cur, cur')
      <4>1. PICK e \in Epochs : thr[e].pc \in Driving /\ e = epoch
        BY <1>5, <3>1 DEF IInv, Core, OneDriver
      <4>2. thr[e].pc \notin Launching \cup Tearing
        BY <2>2, <3>1, <4>1 DEF RecordInv, DriveOK, DecideFailed, Holds
      <4>3. cur.state \in {"running", "awaiting"}
        BY <4>1, <4>2 DEF RecordInv, DriveOK, Driving
      <4> QED BY <1>5, <3>1, <4>3 DEF Marks, Resumable
    <3>2. CASE UNCHANGED cur
      BY <1>5, <3>2
    <3> QED BY <2>2, <3>1, <3>2, RequestTurns
  <2>3. CASE StopFinish(c)
    BY <1>3, <1>5, <2>3, RequestTurns
  <2> QED BY <1>5, <2>1, <2>2, <2>3
<1>6. ASSUME NEW e \in Epochs, thr[e].pc \in Driving, cur # NoRun,
             \/ RetryFailed(e) \/ ResetFailed(e) \/ Complete(e) \/ Park(e) \/ RunStep(e)
             \/ ParkCanceled(e) \/ StepSucceeds(e)
             \/ StepFails(e) \/ ProveCleaned(e) \/ ProveUncleaned(e)
             \/ WorkloadStuck(e) \/ ReleasesKept(e) \/ ReleasesRemoved(e)
      PROVE  Same \/ Ahead(e)
  <2>0. thr[e].pc \in {"launchRetry"} \cup Executing =>
          cur.state \in {"running", "awaiting"} /\ ~cur.residue
    BY DEF RecordInv, DriveOK
  <2>1. CASE \/ RetryFailed(e) \/ Complete(e) \/ Park(e) \/ RunStep(e) \/ ParkCanceled(e)
    <3>1. thr[e].pc \in {"launchRetry"} \cup Executing
      BY <2>1 DEF RetryFailed, LaunchFailed, Complete, Park, RunStep, ParkCanceled, Drives,
         Executing
    <3> QED BY <1>6, <2>0, <2>1, <3>1, ThreadTurns DEF Turns, Resumable
  <2>2. CASE ResetFailed(e)
    BY <2>2 DEF ResetFailed, LaunchFailed, SaveFails
  <2>3. CASE StepFails(e) \/ ProveCleaned(e) \/ ProveUncleaned(e)
    <3>1. thr[e].pc \in Executing
      BY <2>3 DEF StepFails, ProveCleaned, ProveUncleaned, Drives, Executing
    <3> QED BY <1>6, <2>0, <2>3, <3>1, ThreadTurns DEF Fails, Resumable
  <2>4. CASE StepSucceeds(e)
    <3>1. thr[e].pc \in Executing
      BY <2>4 DEF StepSucceeds, Drives, Executing
    <3> QED BY <1>6, <2>0, <2>4, <3>1, ThreadTurns DEF Advances, Resumable
  <2>5. CASE WorkloadStuck(e) \/ ReleasesKept(e) \/ ReleasesRemoved(e)
    BY <1>3, <2>5, ThreadTurns DEF Turns, Resumable
  <2> QED BY <1>6, <2>1, <2>2, <2>3, <2>4, <2>5
<1>7. cur' \in Restorable \/ cur' \notin Restorable \cup {NoRun}
  OBVIOUS
<1> HIDE DEF Same
<1>8. \/ cur' \in Restorable
      \/ \E i \in RunIDs \ used : Fresh(cur', i)
      \/ Same \/ \E e \in Epochs : Ahead(e)
      \/ /\ Recover /\ rec # NoRun /\ cur'.id = rec.id /\ cur'.idx <= BundleStep
         /\ Live(rec) \/ rec.state = "failed"
  BY <1>1, <1>2, <1>3, <1>4, <1>5, <1>6, <1>7, CurSteps
<1> QED
  BY <1>8 DEF Same

LEMMA BundleKept ==
  ASSUME IInv, RecordInv, BundleOK, "reset" \notin Faults, [Next]_vars
  PROVE  BundleOK'
<1>1. CASE Crash
  <2>1. Restorable' \subseteq {NoRun}
    BY <1>1, ProcessMoves DEF Restorable
  <2> QED BY <2>1 DEF BundleOK
<1>2. CASE ~Crash
  <2>0. bundled \subseteq bundled' /\ BundleStep \in Nat
    BY <1>2, BundledSteps, PipelineAssumption
  <2>1. ASSUME cur' # NoRun, Resumable(cur'), cur'.idx > BundleStep PROVE cur'.id \in bundled'
    <3>1. CASE cur' \in Restorable
      BY <2>0, <2>1, <3>1 DEF BundleOK
    <3>2. ASSUME NEW i, Fresh(cur', i) PROVE FALSE
      BY <2>0, <2>1, <3>2 DEF Fresh
    <3>3. CASE cur # NoRun /\ Resumable(cur) /\ cur'.id = cur.id /\ cur'.idx = cur.idx
      BY <2>0, <2>1, <3>3, CurHeld DEF BundleOK
    <3>4. ASSUME NEW e \in Epochs, StepSucceeds(e), cur \in Runs, cur # NoRun, Resumable(cur),
                 cur'.id = cur.id, cur'.idx = cur.idx + 1
          PROVE  cur'.id \in bundled'
      <4>1. CASE cur.idx = BundleStep
        BY <3>4, <4>1, BundledSteps
      <4>2. CASE cur.idx # BundleStep
        <5>1. cur.idx \in 0 .. NSteps
          BY <3>4, RunEdits
        <5>2. cur.idx > BundleStep
          BY <2>0, <2>1, <3>4, <4>2, <5>1
        <5> QED BY <2>0, <3>4, <5>2, CurHeld DEF BundleOK
      <4> QED BY <4>1, <4>2
    <3>5. CASE cur'.idx <= BundleStep
      <4>1. cur' \in Runs
        BY <2>1, NextIInv DEF IInv, Core, CoreOK
      <4>2. cur'.idx \in 0 .. NSteps
        BY <4>1, RunEdits
      <4> QED BY <2>0, <2>1, <3>5, <4>2
    <3> QED BY <2>1, <3>1, <3>2, <3>3, <3>4, <3>5, ResumableSteps
  <2>2. Restorable' \subseteq Restorable \cup {cur', NoRun}
    BY NextFlows, FlowsHeld
  <2> QED BY <2>0, <2>1, <2>2 DEF BundleOK
<1> QED
  BY <1>1, <1>2

(* While there is a run, and no Start to be rolled back, it is the only one. *)
LEMMA OneRun ==
  ASSUME IInv, SlotsOK, SettleOK, cur # NoRun, \A e \in Epochs : thr[e].pc # "launchStart"
  PROVE  Restorable \subseteq {cur, NoRun}
BY DEF SlotsOK, SettleOK, Settling, Restorable

(* What creates a workload is a run, and nothing else happens meanwhile. *)
LEMMA Creates ==
  ASSUME IInv, RecordInv, NEW e \in Epochs, CreateWorkload(e)
  PROVE  /\ thr[e].pc = "step" /\ cur # NoRun /\ Live(cur) /\ Resumable(cur)
         /\ cur.idx = ProveStep /\ wl' = wl \cup {cur.id}
         /\ UNCHANGED <<cur, epoch, req>>
         /\ \A f \in Epochs : f # e => thr'[f] = thr[f] /\ thr[f].pc \notin Driving
         /\ thr'[e].pc = "step"
<1>1. thr[e].pc = "step" /\ thr[e].pc \in Driving /\ thr[e].pc \in Executing
  BY DEF CreateWorkload, Drives, Driving, Executing
<1>2. cur # NoRun /\ Live(cur) /\ Resumable(cur)
  BY <1>1, Driven DEF RecordInv, DriveOK, Resumable
<1>3. \A f \in Epochs : f # e => thr'[f] = thr[f] /\ thr[f].pc \notin Driving
  BY <1>1, Alone, ThreadMoves DEF Moves
<1>4. thr'[e].pc = "step"
  BY ThreadMoves DEF Moves
<1> QED
  BY <1>1, <1>2, <1>3, <1>4 DEF CreateWorkload, memVars

LEMMA DoneRunKept ==
  ASSUME IInv, RecordInv, DoneOK, "reset" \notin Faults, [Next]_vars,
         NEW r \in Held, r.state = "done"
  PROVE  /\ r.id \notin wl'
         /\ \A x \in Restorable' : x # NoRun /\ x.id = r.id => ~Resumable(x)
<1>0. /\ r.id \notin wl /\ r.id \in used
      /\ \A x \in Restorable : x # NoRun /\ x.id = r.id => ~Resumable(x)
  BY DEF DoneOK, RecordInv, UsedOK
<1>1. r.id \notin wl'
  BY <1>0, WorldSteps, Creates, CurHeld
<1>2. ASSUME cur' # NoRun, cur'.id = r.id, Resumable(cur') PROVE FALSE
  <2>1. CASE cur' \in Restorable
    BY <1>0, <1>2, <2>1
  <2>2. ASSUME NEW i \in RunIDs \ used, Fresh(cur', i) PROVE FALSE
    BY <1>0, <1>2, <2>2 DEF Fresh
  <2>3. CASE cur # NoRun /\ Resumable(cur) /\ cur'.id = cur.id
    BY <1>0, <1>2, <2>3, CurHeld
  <2>4. CASE Recover /\ rec # NoRun /\ (Live(rec) \/ rec.state = "failed")
    <3>1. /\ cur = NoRun
          /\ \A e \in Epochs : thr[e].snap = NoRun /\ thr[e].undo = NoRun
          /\ \A c \in Callers : req[c].snap = NoRun /\ req[c].pc = "idle"
      BY <2>4, NobodyYet DEF Recover, RecordInv, SlotsOK, Saving, Launching
    <3>2. Held \subseteq {rec}
      BY <3>1 DEF Held, Restorable, Snapshots
    <3> QED BY <2>4, <3>2 DEF Live
  <2> QED BY <1>2, <2>1, <2>2, <2>3, <2>4, ResumableSteps
<1>3. Restorable' \subseteq Restorable \cup {cur', NoRun}
  BY NextFlows, FlowsHeld
<1> QED
  BY <1>0, <1>1, <1>2, <1>3

(* A run becomes done where its workload has been seen absent. *)
LEMMA DoneRunMade ==
  ASSUME IInv, RecordInv, DoneOK, "reset" \notin Faults, [Next]_vars,
         cur' # NoRun, cur'.state = "done"
  PROVE  \/ \E r \in Held : r.state = "done" /\ r.id = cur'.id
         \/ cur'.id \notin wl' /\ Restorable' \subseteq {cur', NoRun}
<1> DEFINE Old == \E r \in Held : r.state = "done" /\ r.id = cur'.id
           New == cur'.id \notin wl' /\ Restorable' \subseteq {cur', NoRun}
<1>0. cur' \in Restorable \/ (cur # NoRun /\ cur.state = "done" /\ cur'.id = cur.id) => Old
  BY CurHeld
<1>1. ASSUME \A e \in Epochs : thr'[e].pc # "launchStart"
      PROVE  Restorable' \subseteq {cur', NoRun}
  <2>1. IInv' /\ SlotsOK' /\ SettleOK'
    BY NextIInv, NextRecordInv DEF RecordInv
  <2>2. (cur # NoRun /\ (\A e \in Epochs : thr[e].pc # "launchStart") /\ SlotsOK /\ SettleOK
           => Restorable \subseteq {cur, NoRun})'
    BY <2>1 DEF SlotsOK, SettleOK, Settling, Restorable
  <2> QED BY <1>1, <2>1, <2>2
<1>2. ASSUME NEW e \in Epochs, ReleasesRemoved(e)
      PROVE  New
  <2>1. /\ Turns(cur, cur', "done", FALSE) /\ cur.id \notin wl /\ UNCHANGED wl
        /\ thr[e].pc = "releases"
    BY <1>2, ThreadTurns DEF ReleasesRemoved, Drives, DoneOK
  <2>2. Moves(e, "resetSave", cur', thr[e].undo)
    BY <1>2, ThreadMoves
  <2>3. \A f \in Epochs : f # e => thr[f].pc \notin Driving
    BY <2>1, Alone DEF Driving, Tearing
  <2>4. \A f \in Epochs : thr'[f].pc # "launchStart"
    BY <2>2, <2>3 DEF Moves, Driving, Launching
  <2> QED BY <1>1, <2>1, <2>4 DEF Turns
<1>3. ASSUME NEW c \in Callers, StopFinish(c), cur # NoRun
      PROVE  Old \/ New
  <2>1. CASE UNCHANGED cur
    BY <1>0, <2>1
  <2>2. CASE epoch = req[c].epoch /\ Turns(cur, cur', "done", cur.residue)
    <3>1. Settling(c) /\ req[c].pc = "stopFinish" /\ UNCHANGED <<wl, thr>>
      BY <1>3, <2>2 DEF StopFinish, Settling, worldVars
    <3>2. cur.id = req[c].id /\ ~Live(cur) /\ req[c].id \notin wl
      BY <1>3, <3>1 DEF RecordInv, SettleOK, DoneOK
    <3>3. \A e \in Epochs : thr'[e].pc # "launchStart"
      BY <3>1, <3>2, Alone DEF Calm, Driving, Launching
    <3> QED BY <1>1, <2>2, <3>1, <3>2, <3>3 DEF Turns
  <2> QED BY <1>3, <2>1, <2>2, RequestTurns
<1>4. ASSUME Reconcile, cur # NoRun, cur.id \notin wl, Turns(cur, cur', "done", cur.residue)
      PROVE  New
  <2>1. UNCHANGED <<wl, thr>> /\ up = "recovered"
    BY <1>4, ReconcileTurns
  <2>2. \A e \in Epochs : thr'[e].pc # "launchStart"
    BY <2>1, NobodyYet
  <2> QED BY <1>1, <1>4, <2>1, <2>2 DEF Turns
<1>5. rec # NoRun /\ Recovers(rec, cur') => Old
  BY CurHeld DEF Recovers
<1>6. ASSUME NEW c \in Callers, cur # NoRun, Decide(c) \/ DecideFailed(c) \/ StopMark(c)
      PROVE  Old
  BY <1>0, <1>6, RequestTurns DEF Marks
<1>7. ASSUME NEW e \in Epochs, cur # NoRun,
             \/ RetryFailed(e) \/ ResetFailed(e) \/ Complete(e) \/ Park(e) \/ RunStep(e)
             \/ ParkCanceled(e) \/ StepSucceeds(e)
             \/ StepFails(e) \/ ProveCleaned(e) \/ ProveUncleaned(e)
             \/ WorkloadStuck(e) \/ ReleasesKept(e)
      PROVE  Old
  BY <1>0, <1>7, ThreadTurns DEF Turns, Advances, Fails
<1>8. ASSUME NEW i, Fresh(cur', i) \/ Adopts(cur', i) PROVE FALSE
  BY <1>8 DEF Fresh, Adopts
<1>9. ASSUME NEW s \in {"running", "resetting"}, Turns(cur, cur', s, FALSE) PROVE FALSE
  BY <1>9 DEF Turns
<1> HIDE DEF Old, New
<1>10. Old \/ New
  BY <1>0, <1>2, <1>3, <1>4, <1>5, <1>6, <1>7, <1>8, <1>9, CurSteps
<1> QED
  BY <1>10 DEF Old, New

LEMMA AbsentKept ==
  ASSUME IInv, RecordInv, DoneOK, [Next]_vars
  PROVE  /\ \A e \in Epochs : thr'[e].pc = "releases" => cur'.id \notin wl'
         /\ \A c \in Callers : Settling(c)' /\ req'[c].pc \in {"stopMark", "stopFinish"} =>
              req'[c].id \notin wl'
<1> USE DEF Settling
<1>0. /\ \A e \in Epochs : thr[e].pc = "releases" => cur.id \notin wl
      /\ \A c \in Callers : Settling(c) /\ req[c].pc \in {"stopMark", "stopFinish"} =>
           req[c].id \notin wl
      /\ \A c \in Callers : req[c].epoch <= epoch /\ epoch \in Nat
                            /\ req[c].epoch \in 0 .. MaxEpoch
  BY DEF DoneOK, IInv, Core, CoreOK, RequestOK, Requests
<1>1. CASE Start \/ Retry \/ Reset
  <2>1. UNCHANGED req /\ epoch' = epoch + 1 /\ Calm(cur)
    BY <1>1, LaunchingSteps DEF Launches
  <2>2. \A c \in Callers : req'[c].epoch # epoch'
    BY <1>0, <2>1
  <2>3. \A e \in Epochs : thr'[e].pc # "releases"
    BY <1>1, <2>1, LaunchMoves, Alone DEF Born, Driving, Tearing
  <2> QED BY <2>2, <2>3
<1>2. ASSUME NEW e \in Epochs, ThreadStep(e)
      PROVE  /\ \A f \in Epochs : thr'[f].pc = "releases" => cur'.id \notin wl'
             /\ \A c \in Callers : Settling(c)' /\ req'[c].pc \in {"stopMark", "stopFinish"} =>
                  req'[c].id \notin wl'
  <2>0. UNCHANGED <<req, epoch>>
    BY <1>2, StepKinds DEF Continues, Retires, Trails, OnlyThread
  <2>1. CASE thr[e].pc \in Driving
    <3>1. /\ cur # NoRun /\ Live(cur) /\ \A f \in Epochs : f # e => thr[f].pc \notin Driving
      BY <2>1, Driven, Alone
    <3>2. \A c \in Callers : ~Settling(c)'
      BY <2>0, <3>1 DEF RecordInv, SettleOK
    <3>3. thr'[e].pc = "releases" => cur'.id \notin wl'
      <4>1. thr'[e].pc = "releases" => WorkloadAbsent(e) \/ Uninstall(e)
        BY <1>2, ThreadMoves DEF ThreadStep, Moves
      <4>2. WorkloadAbsent(e) => cur'.id \notin wl'
        BY DEF WorkloadAbsent, memVars
      <4>3. Uninstall(e) => cur'.id \notin wl'
        BY <1>0 DEF Uninstall, Drives, memVars
      <4> QED BY <4>1, <4>2, <4>3
    <3>4. \A f \in Epochs : f # e => thr'[f] = thr[f]
      BY <1>2, StepKinds DEF Continues, Retires, Trails, OnlyThread
    <3> QED BY <3>1, <3>2, <3>3, <3>4 DEF Driving, Tearing
  <2>2. CASE thr[e].pc \notin Driving
    <3>1. /\ Trails(e)
          /\ FinishSaved(e) \/ ResetSaved(e) \/ ResetDelete(e) \/ ResetClear(e)
      BY <1>2, <2>2, StepKinds DEF Continues, Retires
    <3>2. UNCHANGED <<cur, wl>> /\ thr'[e].pc \in Spent
          /\ \A f \in Epochs : f # e => thr'[f] = thr[f]
      BY <3>1 DEF Trails, OnlyThread, FinishSaved, ResetSaved, ResetDelete, ResetClear, worldVars
    <3> QED BY <1>0, <2>0, <3>2 DEF Spent
  <2> QED BY <2>1, <2>2
<1>3. ASSUME NEW c \in Callers, Decide(c) \/ Discard(c) \/ Stop(c) \/ RequestStep(c)
      PROVE  /\ \A f \in Epochs : thr'[f].pc = "releases" => cur'.id \notin wl'
             /\ \A d \in Callers : Settling(d)' /\ req'[d].pc \in {"stopMark", "stopFinish"} =>
                  req'[d].id \notin wl'
  <2>1. Wakes(c) /\ Asks(c) /\ UNCHANGED epoch
    BY <1>3, RequestWakes, RequestSteps DEF Asks
  <2>2. wl' \subseteq wl
    BY <1>3 DEF Decide, Discard, Stop, RequestStep, DecideSaved, DecideFailed, DecideResume,
       DiscardDeleted, DiscardFailed, StopAbsent, StopFailed, StopMark, StopFinish, StopSaved,
       StopClear, worldVars
  <2>3. ASSUME NEW f \in Epochs, thr'[f].pc = "releases" PROVE cur'.id \notin wl'
    <3>1. thr[f].pc = "releases" /\ thr[f].pc \in Driving
      BY <2>1, <2>3 DEF Wakes, Driving, Tearing
    <3>2. cur'.id = cur.id
      BY <2>1, <3>1, Driven DEF Asks, Calm
    <3> QED BY <1>0, <2>2, <3>1, <3>2
  <2>4. /\ \A d \in Callers : d # c => req'[d] = req[d]
        /\ req'[c].pc \in {"stopMark", "stopFinish"} =>
             /\ req'[c].id = req[c].id /\ req'[c].epoch = req[c].epoch
             /\ \/ StopAbsent(c)
                \/ StopMark(c)
    BY <1>3, RequestMoves DEF RequestStep, Left, Goes, Entered
  <2>5. StopAbsent(c) => req[c].id \notin wl'
    BY DEF StopAbsent
  <2>6. StopMark(c) => req[c].pc = "stopMark"
    BY DEF StopMark
  <2> QED BY <1>0, <2>1, <2>2, <2>3, <2>4, <2>5, <2>6
<1>4. CASE CancelAndWait \/ DrainReturns \/ UNCHANGED vars
  BY <1>0, <1>4, ProcessMoves DEF Cancels, vars, CancelAndWait, DrainReturns, worldVars
<1>5. CASE Crash \/ Recover \/ Reconcile
  BY <1>5, ProcessMoves, NobodyYet, RecoverTurns, ReconcileTurns
<1> QED
  BY <1>1, <1>2, <1>3, <1>4, <1>5 DEF Next

LEMMA DoneKept ==
  ASSUME IInv, RecordInv, DoneOK, "reset" \notin Faults, [Next]_vars
  PROVE  DoneOK'
<1>1. Held' \subseteq Held \cup {cur'} /\ NoRun \notin Held'
  BY NextFlows, FlowsHeld DEF Held
<1>2. ASSUME NEW r \in Held', r.state = "done"
      PROVE  /\ r.id \notin wl'
             /\ \A x \in Restorable' : x # NoRun /\ x.id = r.id => ~Resumable(x)
  <2>1. CASE r \in Held
    BY <1>2, <2>1, DoneRunKept
  <2>2. CASE r = cur'
    <3>1. CASE \E q \in Held : q.state = "done" /\ q.id = cur'.id
      BY <2>2, <3>1, DoneRunKept
    <3>2. CASE cur'.id \notin wl' /\ Restorable' \subseteq {cur', NoRun}
      BY <1>2, <2>2, <3>2 DEF Resumable
    <3> QED BY <1>1, <1>2, <2>2, <3>1, <3>2, DoneRunMade
  <2> QED BY <1>1, <2>1, <2>2
<1> QED
  BY <1>2, AbsentKept DEF DoneOK

LEMMA InitHeld == Init => Held = {} /\ Restorable = {NoRun}
<1> SUFFICES ASSUME Init PROVE Held = {} /\ Restorable = {NoRun}
  OBVIOUS
<1>1. /\ cur = NoRun /\ rec = NoRun
      /\ \A e \in Epochs : thr[e].snap = NoRun /\ thr[e].undo = NoRun
      /\ \A c \in Callers : req[c].pc = "idle" /\ req[c].snap = NoRun
  BY DEF Init, Booted, Unborn, NoRequest, Store!StoreInit
<1>2. Restorable = {NoRun}
  BY <1>1 DEF Restorable
<1>3. Held = {}
  BY <1>1, <1>2 DEF Held, Snapshots
<1> QED
  BY <1>2, <1>3

LEMMA InitResumable == Init => BundleOK /\ DoneOK
<1> SUFFICES ASSUME Init PROVE BundleOK /\ DoneOK
  OBVIOUS
<1>1. /\ \A e \in Epochs : thr[e].pc = "unborn"
      /\ \A c \in Callers : req[c].pc = "idle"
  BY DEF Init, Booted, Unborn, NoRequest
<1> QED
  BY <1>1, InitHeld DEF BundleOK, DoneOK, Settling

LEMMA ResumableInductive ==
  ASSUME "reset" \notin Faults
  PROVE  Spec => [](IInv /\ RecordInv /\ BundleOK /\ DoneOK)
<1> DEFINE Inv == IInv /\ RecordInv /\ BundleOK /\ DoneOK
<1>1. Init => Inv
  BY InitIInv, InitRecordInv, InitResumable
<1>2. Inv /\ [Next]_vars => Inv'
  BY NextIInv, NextRecordInv, BundleKept, DoneKept
<1> HIDE DEF Inv
<1>3. Spec => []Inv
  BY <1>1, <1>2, PTL DEF Spec
<1> QED
  BY <1>3 DEF Inv

LEMMA ResumableConsequences ==
  ASSUME IInv, RecordInv, BundleOK, DoneOK
  PROVE  DoneMeansGone /\ ApplyHasBundle
<1>1. DoneMeansGone
  BY CurHeld DEF DoneMeansGone, DoneOK
<1>2. ASSUME NEW e \in Epochs, thr[e].pc = "step", cur.idx = ApplyStep
      PROVE  cur.id \in bundled
  <2>1. cur # NoRun /\ Resumable(cur)
    BY <1>2, Driven DEF Driving, Executing, RecordInv, DriveOK, Resumable
  <2>2. cur.idx > BundleStep
    BY <1>2, PipelineAssumption
  <2> QED BY <2>1, <2>2, CurHeld DEF BundleOK
<1> QED
  BY <1>1, <1>2 DEF ApplyHasBundle

(* A run that reads done has no reference workload left, and none can appear:
   every Save of a Reset that is rolled back is excluded, because the rollback
   lets a done run be retried. *)
THEOREM DoneMeansGoneHolds ==
  ASSUME "reset" \notin Faults PROVE Spec => []DoneMeansGone
<1>1. IInv /\ RecordInv /\ BundleOK /\ DoneOK => DoneMeansGone
  BY ResumableConsequences
<1> QED
  BY <1>1, ResumableInductive, PTL

(* Apply finds the bundle this process has written, whatever crashes, rewinds
   and retries came before, unless the Save of a Reset has failed. *)
THEOREM ApplyHasBundleHolds ==
  ASSUME "reset" \notin Faults PROVE Spec => []ApplyHasBundle
<1>1. IInv /\ RecordInv /\ BundleOK /\ DoneOK => ApplyHasBundle
  BY ResumableConsequences
<1> QED
  BY <1>1, ResumableInductive, PTL

(***************************************************************************)
(* The workload of the first life of the process.                          *)
(***************************************************************************)
(* While a run is taken up or given up, nothing of Prove is left behind that
   the run does not admit to. *)
LEMMA Abandons ==
  ASSUME IInv, TrackOK, Calm(cur),
         cur # NoRun => cur.state # "active" /\ ~Unconfirmed(cur) /\ ~IncompleteTeardown(cur)
  PROVE  wl = {}
<1>1. ~Proving
  BY Alone DEF Proving, Driving, Executing
<1>2. cur # NoRun => cur.state \notin {"running", "awaiting", "resetting"}
  BY DEF Calm, Live
<1> QED
  BY <1>1, <1>2 DEF TrackOK, Unconfirmed, IncompleteTeardown

LEMMA ThreadTracks ==
  ASSUME IInv, RecordInv, DoneOK, TrackOK, "reset" \notin Faults,
         NEW e \in Epochs, ThreadStep(e)
  PROVE  TrackOK'
<1> DEFINE Kept(i) ==
             /\ cur' # NoRun /\ cur'.id = i
             /\ \/ cur'.state \in {"active", "resetting"} \/ cur'.residue
                \/ cur'.state \in {"running", "awaiting", "failed"} /\ cur'.cleanup
                \/ Proving'
<1>0. /\ UNCHANGED <<up, crashes, req, epoch>>
      /\ \A f \in Epochs : f # e => thr'[f] = thr[f]
  <2>1. UNCHANGED <<up, req, epoch>> /\ \A f \in Epochs : f # e => thr'[f] = thr[f]
    BY StepKinds DEF Continues, Retires, Trails, OnlyThread
  <2>2. UNCHANGED crashes
    BY DEF ThreadStep, LaunchSaved, StartFailed, RetryFailed, ResetFailed, LaunchFailed,
       Complete, Park, ParkSaved, Resume, ParkCanceled, RunStep, StepSaved, MergeSaved,
       CheckpointSaved, Install, CreateWorkload, StepSucceeds, StepFails, ProveCleaned,
       ProveUncleaned, FailStep, FinishSaved, WorkloadAbsent, WorkloadStuck, Uninstall,
       ReleasesRemoved, ReleasesKept, ResetSaved, ResetDelete, ResetClear, histVars
  <2> QED BY <2>1, <2>2
<1>1. /\ up = "serving"
      /\ thr[e].pc \in Driving =>
           /\ cur # NoRun /\ Live(cur) /\ cur \in Runs /\ epoch = e
           /\ \A f \in Epochs : f # e => thr[f].pc \notin Driving
  <2>1. thr[e].pc # "unborn"
    BY StepKinds DEF Continues, Retires, Trails, Driving, Launching, Executing, Tearing, Spent
  <2> QED BY <2>1, NobodyYet, Driven, Alone
<1>2. thr[e].pc \in Launching \cup Executing /\ thr[e].pc # "launchReset" =>
        cur.state \in {"running", "awaiting"} /\ ~cur.residue
  BY DEF RecordInv, DriveOK, Launching
<1>3. Proving /\ thr[e].pc \in Driving =>
        \/ thr[e].pc = "step" /\ cur.idx = ProveStep /\ thr[e].made
        \/ thr[e].pc \in {"mergeSave", "loop"} /\ cur.idx = NSteps
  BY <1>1 DEF Proving, Driving, Executing
<1>4. ASSUME NEW i \in wl' PROVE Kept(i)
  <2>0. i \in wl => /\ cur # NoRun /\ cur.id = i
                    /\ \/ cur.state \in {"active", "resetting"} \/ cur.residue
                       \/ cur.state \in {"running", "awaiting", "failed"} /\ cur.cleanup
                       \/ Proving
    BY DEF TrackOK
  <2>1. CASE LaunchSaved(e) \/ ParkSaved(e) \/ StepSaved(e) \/ Resume(e) \/ MergeSaved(e)
    <3>1. UNCHANGED <<cur, wl>> /\ thr[e].pc \in Driving
      BY <2>1 DEF LaunchSaved, ParkSaved, StepSaved, Resume, MergeSaved, CheckpointSaved,
         memVars, worldVars, Driving, Launching, Executing
    <3>2. Proving => thr[e].pc = "mergeSave" /\ thr'[e].pc = "loop" /\ cur.idx = NSteps
      BY <1>3, <2>1, <3>1, ThreadMoves DEF Moves, LaunchSaved, ParkSaved, StepSaved, Resume,
         MergeSaved, CheckpointSaved, Launching
    <3> QED BY <1>4, <2>0, <3>1, <3>2 DEF Proving
  <2>2. CASE StartFailed(e)
    BY <1>4, <2>2 DEF StartFailed, LaunchFailed, worldVars, TrackOK
  <2>3. CASE ResetFailed(e)
    BY <2>3 DEF ResetFailed, LaunchFailed, SaveFails
  <2>4. CASE RetryFailed(e) \/ Park(e) \/ RunStep(e) \/ ParkCanceled(e) \/ StepFails(e)
    <3>1. UNCHANGED wl /\ thr[e].pc \in Driving
      BY <2>4 DEF RetryFailed, LaunchFailed, Park, RunStep, ParkCanceled, StepFails, worldVars,
         Drives, Driving, Launching, Executing
    <3>2. ~Proving
      BY <1>3, <2>4, <3>1, PipelineAssumption
         DEF RetryFailed, LaunchFailed, Park, RunStep, ParkCanceled, StepFails, Drives, Missing,
             Steps
    <3>3. cur.state \in {"running", "awaiting"} /\ ~cur.residue
      BY <1>2, <2>4 DEF RetryFailed, LaunchFailed, Park, RunStep, ParkCanceled, StepFails,
         Drives, Launching, Executing
    <3>4. cur'.cleanup = cur.cleanup /\ cur'.state \in {"running", "awaiting", "failed"}
          /\ cur'.id = cur.id /\ cur' # NoRun
      BY <2>4, ThreadTurns, NoRunAssumption DEF Turns, Fails
    <3> QED BY <1>4, <2>0, <3>1, <3>2, <3>3, <3>4
  <2>5. CASE Complete(e)
    BY <1>4, <2>0, <2>5, ThreadTurns, NoRunAssumption DEF Turns, Complete, worldVars
  <2>6. CASE Install(e)
    <3>1. UNCHANGED <<cur, wl>> /\ thr[e].pc = "step" /\ cur.idx = ApplyStep
      BY <2>6 DEF Install, memVars, Drives
    <3>2. ~Proving
      BY <1>3, <3>1, PipelineAssumption DEF ProveStep, Driving, Executing
    <3> QED BY <1>4, <2>0, <3>1, <3>2
  <2>7. CASE CreateWorkload(e)
    <3>1. /\ UNCHANGED cur /\ cur.idx = ProveStep /\ thr'[e].pc = "step"
          /\ wl' = wl \cup {cur.id} /\ cur # NoRun
      BY <2>7, Creates
    <3>2. thr'[e].made
      BY <2>7, ThreadMoves
    <3> QED BY <1>4, <2>0, <3>1, <3>2 DEF Proving
  <2>8. CASE StepSucceeds(e)
    <3>1. UNCHANGED wl /\ thr[e].pc = "step" /\ thr'[e].pc = "mergeSave"
      BY <2>8, ThreadMoves DEF StepSucceeds, Drives, Moves
    <3>2. Proving => cur'.idx = NSteps
      <4>1. cur'.idx = cur.idx + 1
        BY <2>8, ThreadTurns DEF Advances
      <4>2. Proving => cur.idx = NSteps - 1
        BY <1>3, <3>1 DEF Driving, Executing, ProveStep
      <4> QED BY <4>1, <4>2, PipelineAssumption
    <3>3. cur'.cleanup = cur.cleanup /\ cur'.state = cur.state /\ cur'.id = cur.id
          /\ cur' # NoRun
      BY <2>8, ThreadTurns, NoRunAssumption DEF Advances
    <3>4. cur.state \in {"running", "awaiting"} /\ ~cur.residue
      BY <1>2, <3>1 DEF Executing
    <3> QED BY <1>4, <2>0, <3>1, <3>2, <3>3, <3>4 DEF Proving
  <2>9. CASE ProveCleaned(e) \/ ProveUncleaned(e)
    <3>1. ProveCleaned(e) => i \in wl /\ i # cur.id
      BY <1>4, <2>9 DEF ProveCleaned
    <3>2. ProveUncleaned(e) => i \in wl
      BY <1>4, <2>9 DEF ProveUncleaned
    <3> QED BY <2>0, <2>9, <3>1, <3>2, ThreadTurns, NoRunAssumption DEF Fails
  <2>10. CASE WorkloadStuck(e) \/ ReleasesKept(e)
    <3>1. i \in wl
      BY <1>4, <2>10 DEF WorkloadStuck, ReleasesKept
    <3> QED BY <2>0, <2>10, <3>1, ThreadTurns, NoRunAssumption DEF Turns
  <2>11. CASE WorkloadAbsent(e) \/ Uninstall(e)
    <3>1. i \in wl /\ UNCHANGED cur /\ thr[e].pc \in Tearing
      BY <1>4, <2>11 DEF WorkloadAbsent, Uninstall, Drives, memVars, Tearing
    <3>2. cur.state = "resetting"
      BY <3>1 DEF RecordInv, DriveOK
    <3> QED BY <2>0, <3>1, <3>2
  <2>12. CASE ReleasesRemoved(e)
    BY <1>4, <2>0, <2>12 DEF ReleasesRemoved, Drives, DoneOK
  <2>13. CASE FinishSaved(e) \/ ResetSaved(e) \/ ResetDelete(e) \/ ResetClear(e)
    <3>1. UNCHANGED <<cur, wl>>
      BY <2>13 DEF FinishSaved, ResetSaved, ResetDelete, ResetClear, memVars, worldVars
    <3>2. thr[e].pc \notin {"step", "mergeSave", "loop"}
      BY <2>13 DEF FinishSaved, ResetSaved, ResetDelete, ResetClear
    <3>3. Proving => Proving'
      BY <1>0, <3>1, <3>2 DEF Proving
    <3> QED BY <1>4, <2>0, <3>1, <3>3
  <2> QED
    BY <2>1, <2>2, <2>3, <2>4, <2>5, <2>6, <2>7, <2>8, <2>9, <2>10, <2>11, <2>12, <2>13
       DEF ThreadStep
<1>5. ASSUME NEW f \in Epochs, thr'[f].pc = "launchStart" PROVE wl' = {}
  <2>1. f # e
    BY <1>5, StepKinds DEF Continues, Retires, Trails, Spent
  <2>2. thr[f].pc = "launchStart" /\ wl = {} /\ thr[f].pc \in Driving
    BY <1>0, <1>5, <2>1 DEF TrackOK, Driving, Launching
  <2>3. ~CreateWorkload(e)
    BY <2>1, <2>2, Creates
  <2>4. wl' \subseteq wl
    BY <2>3 DEF ThreadStep, LaunchSaved, StartFailed, RetryFailed, ResetFailed, LaunchFailed,
       Complete, Park, ParkSaved, Resume, ParkCanceled, RunStep, StepSaved, MergeSaved,
       CheckpointSaved, Install, StepSucceeds, StepFails, ProveCleaned,
       ProveUncleaned, FailStep, FinishSaved, WorkloadAbsent, WorkloadStuck, Uninstall,
       ReleasesRemoved, ReleasesKept, ResetSaved, ResetDelete, ResetClear, worldVars
  <2> QED BY <2>2, <2>4
<1> QED
  BY <1>0, <1>1, <1>4, <1>5 DEF TrackOK

LEMMA RequestTracks ==
  ASSUME IInv, RecordInv, DoneOK, TrackOK,
         NEW c \in Callers, Decide(c) \/ Discard(c) \/ Stop(c) \/ RequestStep(c)
  PROVE  TrackOK'
<1>0. Wakes(c) /\ Asks(c)
  BY RequestWakes, RequestSteps
<1>1. /\ UNCHANGED <<up, crashes, epoch>> /\ up = "serving" /\ wl' \subseteq wl
  <2>1. UNCHANGED crashes /\ wl' \subseteq wl
    BY DEF Decide, Discard, Stop, RequestStep, DecideSaved, DecideFailed, DecideResume,
       DiscardDeleted, DiscardFailed, StopAbsent, StopFailed, StopMark, StopFinish, StopSaved,
       StopClear, worldVars, histVars
  <2> QED BY <1>0, <2>1 DEF Asks
<1>2. cur'.idx = cur.idx /\ Proving => Proving'
  BY <1>0 DEF Wakes, Proving
<1>3. CASE wl' = {}
  BY <1>1, <1>3 DEF TrackOK
<1>4. CASE UNCHANGED cur
  BY <1>0, <1>1, <1>2, <1>4 DEF TrackOK, Wakes
<1>5. CASE /\ cur' # NoRun /\ Marks(cur, cur') /\ cur'.cleanup = cur.cleanup
           /\ cur.state \in {"running", "awaiting"} /\ cur'.state \in {"running", "awaiting"}
  BY <1>0, <1>1, <1>2, <1>5 DEF TrackOK, Wakes, Marks
<1>6. CASE Decide(c)
  BY <1>5, <1>6, RequestTurns, NoRunAssumption DEF Marks
<1>7. CASE DecideFailed(c)
  <2>1. ASSUME ~UNCHANGED cur
        PROVE  /\ cur' # NoRun /\ Marks(cur, cur') /\ cur'.cleanup = cur.cleanup
               /\ cur.state \in {"running", "awaiting"} /\ cur'.state = "awaiting"
    <3>1. /\ Holds(c) /\ Live(cur) /\ Marks(cur, cur') /\ cur'.state = "awaiting"
          /\ cur'.cleanup = cur.cleanup
      BY <1>7, <2>1, RequestTurns
    <3>2. PICK e \in Epochs : thr[e].pc \in Driving /\ e = epoch
      BY <3>1 DEF IInv, Core, OneDriver, Holds
    <3>3. thr[e].pc \notin Launching \cup Tearing
      BY <1>7, <3>1, <3>2 DEF RecordInv, DriveOK, DecideFailed, Holds
    <3>4. cur.state \in {"running", "awaiting"}
      BY <3>2, <3>3 DEF RecordInv, DriveOK, Driving
    <3> QED BY <3>1, <3>4, NoRunAssumption DEF Marks
  <2> QED BY <1>4, <1>5, <2>1
<1>8. CASE Discard(c)
  BY <1>1, <1>3, <1>8, Abandons DEF Discard, CanDiscard, Calm
<1>9. CASE DiscardFailed(c)
  BY <1>1, <1>3, <1>4, <1>9 DEF DiscardFailed, TrackOK
<1>10. CASE StopMark(c) \/ StopFinish(c)
  <2>1. ASSUME ~UNCHANGED cur PROVE wl = {}
    <3>1. Settling(c) /\ req[c].pc \in {"stopMark", "stopFinish"} /\ cur # NoRun
      BY <1>10, <2>1 DEF StopMark, StopFinish, Holds, Settling
    <3>2. cur.id = req[c].id /\ req[c].id \notin wl
      BY <3>1 DEF RecordInv, SettleOK, DoneOK
    <3> QED BY <3>2 DEF TrackOK
  <2> QED BY <1>1, <1>3, <1>4, <2>1
<1>11. CASE \/ Stop(c) \/ DecideSaved(c) \/ DecideResume(c) \/ DiscardDeleted(c)
            \/ StopAbsent(c) \/ StopFailed(c) \/ StopSaved(c) \/ StopClear(c)
  BY <1>4, <1>11 DEF Stop, DecideSaved, DecideResume, DiscardDeleted, StopAbsent, StopFailed,
     StopSaved, StopClear, memVars
<1> QED
  BY <1>6, <1>7, <1>8, <1>9, <1>10, <1>11 DEF RequestStep

LEMMA TrackKept ==
  ASSUME IInv, RecordInv, DoneOK, TrackOK, MaxCrashes = 0, "reset" \notin Faults, [Next]_vars
  PROVE  TrackOK'
<1>1. CASE Start
  <2>1. wl = {} /\ UNCHANGED <<wl, up, crashes>> /\ up = "serving"
    BY <1>1, Abandons DEF Start, CanStart, Serving, Calm, worldVars
  <2> QED BY <2>1 DEF TrackOK
<1>2. CASE Retry \/ Reset
  <2>1. UNCHANGED <<wl, up, crashes>> /\ up = "serving" /\ Calm(cur) /\ cur # NoRun
    BY <1>2, LaunchingSteps DEF Retry, Reset, CanRetry, CanReset, Launches, worldVars, histVars
  <2>2. ~Proving /\ \A e \in Epochs : thr'[e].pc # "launchStart"
    BY <1>2, <2>1, Alone, LaunchMoves DEF Proving, Born, Driving, Launching, Executing
  <2>3. \A i \in wl : cur.id = i /\ (cur.state = "active" \/ cur.residue \/ cur.cleanup)
    BY <2>1, <2>2 DEF TrackOK, Calm, Live
  <2>4. cur' # NoRun /\ cur'.id = cur.id
    BY <1>2, LaunchMoves, NoRunAssumption DEF Turns
  <2>5. CASE Retry
    <3>1. cur.state = "failed" /\ ~cur.residue
      BY <2>5 DEF Retry, CanRetry, IncompleteTeardown
    <3>2. cur'.state = "running" /\ cur'.cleanup = cur.cleanup
      BY <2>5, LaunchMoves DEF Turns
    <3> QED BY <2>1, <2>2, <2>3, <2>4, <3>1, <3>2 DEF TrackOK
  <2>6. CASE Reset
    <3>1. cur'.state = "resetting"
      BY <2>6, LaunchMoves DEF Turns
    <3> QED BY <2>1, <2>2, <2>3, <2>4, <3>1 DEF TrackOK
  <2> QED BY <1>2, <2>5, <2>6
<1>3. CASE Crash
  BY <1>3 DEF Crash, TrackOK
<1>4. CASE Recover
  BY <1>4, RecoverTurns, NobodyYet DEF Recover, TrackOK, worldVars, histVars
<1>5. CASE Reconcile
  BY <1>5, ReconcileTurns, NobodyYet DEF TrackOK
<1>6. CASE CancelAndWait \/ DrainReturns \/ UNCHANGED vars
  <2>1. /\ UNCHANGED <<rec, up, cur, wl, crashes>>
        /\ \A e \in Epochs : thr'[e].pc = thr[e].pc /\ thr'[e].made = thr[e].made
    BY <1>6, ProcessMoves DEF Cancels, vars, CancelAndWait, DrainReturns, worldVars, histVars
  <2>2. Proving' = Proving
    BY <2>1 DEF Proving
  <2> QED BY <2>1, <2>2 DEF TrackOK
<1> QED
  BY <1>1, <1>2, <1>3, <1>4, <1>5, <1>6, ThreadTracks, RequestTracks DEF Next

(* In the first life of the process, and if no Reset is rolled back, the console
   always has a handle on the reference workload: it is the current run's, and
   that run is live, can be stopped, or can be reset again. *)
THEOREM WorkloadTrackedHolds ==
  ASSUME MaxCrashes = 0, "reset" \notin Faults PROVE Spec => []WorkloadTracked
<1> DEFINE Inv == IInv /\ RecordInv /\ BundleOK /\ DoneOK
<1>1. Init => TrackOK
  BY DEF Init, Booted, Store!StoreInit, Unborn, TrackOK
<1>2. Inv /\ TrackOK /\ [Next]_vars => TrackOK'
  BY TrackKept
<1>3. Inv /\ TrackOK => WorkloadTracked
  <2>1. IInv /\ TrackOK /\ Proving => cur # NoRun /\ Live(cur)
    BY Driven DEF Proving, Driving, Executing
  <2> QED
    BY <2>1 DEF TrackOK, WorkloadTracked, Stoppable, Unconfirmed, IncompleteTeardown, Live
<1>4. Spec => []Inv
  BY ResumableInductive
<1> HIDE DEF Inv
<1> QED
  BY <1>1, <1>2, <1>3, <1>4, PTL DEF Spec

(***************************************************************************)
(* Decide, for clients of the event stream.                                *)
(***************************************************************************)
LEMMA CalmSavesKept ==
  ASSUME IInv, RecordInv, CalmSaves, Clients # "polling", [Next]_vars
  PROVE  CalmSaves'
<1> SUFFICES ASSUME NEW d \in Epochs, thr'[d].pc \in Driving PROVE NoLateSave'
  BY DEF CalmSaves, SomeDriver
<1> USE DEF NoLateSave
<1>0. thr[d].pc \in Driving => NoLateSave
  BY DEF CalmSaves, SomeDriver
<1>1. CASE Start \/ Retry \/ Reset
  <2>1. NoLateSave /\ UNCHANGED req
    BY <1>1 DEF Start, Retry, Reset, Prompt
  <2>2. \E pc \in Launching : \E p : Born(pc, p)
    BY <1>1, LaunchMoves DEF Launching
  <2> QED BY <2>1, <2>2 DEF Born, Launching
<1>2. ASSUME NEW e \in Epochs, ThreadStep(e) PROVE NoLateSave'
  <2>1. CASE Continues(e)
    BY <1>0, <2>1, Alone DEF Continues, OnlyThread, Driving, Launching, Executing, Tearing,
       CalmSaves, SomeDriver
  <2>2. CASE Trails(e)
    <3>1. thr'[e].pc \in Spent /\ thr'[e].pc \notin {"finishSave", "resetSave"}
      BY <1>2, <2>2, StepKinds, ThreadMoves DEF Moves, Trails, Continues, Retires, Driving, Launching, Executing, Tearing, Spent
    <3>2. d # e /\ \A f \in Epochs : f # e => thr'[f] = thr[f]
      BY <2>2, <3>1 DEF Trails, OnlyThread, Driving, Launching, Executing, Tearing, Spent
    <3> QED BY <1>0, <2>2, <3>1, <3>2 DEF Trails, OnlyThread
  <2> QED BY <1>2, <2>1, <2>2, StepKinds
<1>3. ASSUME NEW c \in Callers, Decide(c) \/ Discard(c) \/ Stop(c) \/ RequestStep(c)
      PROVE  NoLateSave'
  <2>1. Wakes(c)
    BY <1>3, RequestWakes
  <2>2. NoLateSave /\ \A e \in Epochs : thr'[e].pc = thr[e].pc
    BY <1>0, <2>1 DEF Wakes
  <2>3. ASSUME req'[c].pc = "stopSave" PROVE FALSE
    <3>1. StopFinish(c) /\ epoch = req[c].epoch /\ cur # NoRun
      BY <1>3, <2>2, <2>3, RequestMoves DEF RequestStep, Entered, Goes, Left, StopFinish
    <3>2. Calm(cur)
      BY <3>1 DEF RecordInv, SettleOK, Settling, StopFinish, Calm
    <3> QED BY <2>1, <3>2, Alone DEF Wakes
  <2>4. \A b \in Callers : b # c => req'[b] = req[b]
    BY <1>3, RequestSteps DEF Asks
  <2> QED BY <2>2, <2>3, <2>4
<1>4. CASE CancelAndWait \/ DrainReturns \/ UNCHANGED vars
  BY <1>0, <1>4, ProcessMoves DEF Cancels, vars
<1>5. CASE Crash \/ Recover \/ Reconcile
  BY <1>5, ProcessMoves, NobodyYet, RecoverTurns, ReconcileTurns
     DEF Driving, Launching, Executing, Tearing
<1> QED
  BY <1>1, <1>2, <1>3, <1>4, <1>5 DEF Next

(* A run that somebody decides on is neither started over, nor settled, nor
   stopped meanwhile: only the shutdown comes between. *)
LEMMA DecidingBusy ==
  ASSUME DecideOK, NEW c \in Callers, Deciding(c)
  PROVE  /\ ~CanStart /\ ~CanRetry /\ ~CanReset /\ ~CanDiscard /\ ~CanStop
         /\ cur # NoRun /\ cur.state \in {"running", "failed"}
BY DEF DecideOK, AnswerOK, Serving, CanStart, CanRetry, CanReset, CanDiscard, CanStop, Live,
   Stoppable, Unconfirmed

LEMMA ThreadDecides ==
  ASSUME IInv, RecordInv, DecideOK, NEW e \in Epochs, ThreadStep(e)
  PROVE  DecideOK'
<1>0. /\ UNCHANGED <<req, epoch, draining>>
      /\ \A f \in Epochs : f # e => thr'[f] = thr[f]
  BY StepKinds DEF Continues, Retires, Trails, OnlyThread
<1>1. /\ ParkOK(e)
      /\ thr[e].pc \in Driving => epoch = e /\ \A f \in Epochs : f # e => thr[f].pc \notin Driving
  BY Driven, Alone DEF DecideOK
<1>2. ASSUME Continues(e), NEW f \in Epochs PROVE ParkOK(f)'
  <2>1. CASE f # e
    BY <1>0, <1>1, <1>2, <2>1 DEF ParkOK, DecideOK, Continues
  <2>2. CASE f = e
    <3>1. ~thr'[e].token /\ (thr'[e].canceled => draining)
      <4>1. /\ thr'[e].token => thr[e].token /\ ~Resume(e)
            /\ thr'[e].canceled = thr[e].canceled
        BY <1>2, StepKinds, ThreadMoves
           DEF Moves, Continues, Retires, Trails, Driving, Launching, Executing, Tearing, Spent
      <4>2. thr[e].pc = "parked" => Resume(e)
        BY <1>2, StepKinds, ThreadMoves
           DEF Continues, Retires, Trails, Driving, Launching, Executing, Tearing, Spent,
               LaunchSaved, Park, ParkSaved, RunStep, StepSaved, MergeSaved,
               CheckpointSaved, Install, CreateWorkload, StepSucceeds, WorkloadAbsent,
               Uninstall, Drives
      <4> QED BY <1>1, <1>2, <4>1, <4>2 DEF ParkOK, Continues
    <3>2. ASSUME cur'.state = "awaiting"
          PROVE  thr'[e].pc \in {"parkSave", "parked"} /\ cur'.idx \in Gates
      <4>1. CASE Park(e)
        BY <1>1, <4>1, ThreadMoves, ThreadTurns DEF Moves, Turns, Park, Missing
      <4>2. CASE RunStep(e)
        BY <3>2, <4>2, ThreadTurns DEF Turns
      <4>3. CASE StepSucceeds(e)
        <5>1. cur.state = "awaiting" /\ thr[e].pc = "step" /\ thr[e].pc \in Driving
          BY <3>2, <4>3, ThreadTurns DEF Advances, StepSucceeds, Drives, Driving, Executing
        <5> QED BY <1>1, <5>1 DEF ParkOK
      <4>4. CASE \/ LaunchSaved(e) \/ ParkSaved(e) \/ Resume(e) \/ StepSaved(e)
                 \/ MergeSaved(e) \/ Install(e) \/ CreateWorkload(e) \/ WorkloadAbsent(e)
                 \/ Uninstall(e)
        <5>1. UNCHANGED cur
          BY <4>4 DEF LaunchSaved, ParkSaved, Resume, StepSaved, MergeSaved, CheckpointSaved,
             Install, CreateWorkload, WorkloadAbsent, Uninstall, memVars
        <5>2. /\ cur.idx \in Gates /\ thr[e].pc \in {"parkSave", "parked"}
              /\ ~thr[e].token
          BY <1>1, <1>2, <3>2, <5>1 DEF ParkOK, Continues
        <5>3. ParkSaved(e)
          BY <4>4, <5>2 DEF LaunchSaved, ParkSaved, Resume, StepSaved, MergeSaved,
             CheckpointSaved, Install, CreateWorkload, WorkloadAbsent, Uninstall, Drives,
             Launching
        <5>4. thr'[e].pc = "parked"
          BY <5>3, ThreadMoves DEF Moves
        <5> QED BY <5>1, <5>2, <5>4
      <4> QED
        BY <1>2, <4>1, <4>2, <4>3, <4>4, StepKinds
           DEF Continues, Retires, Trails, Driving, Launching, Executing, Tearing, Spent
    <3> QED BY <1>0, <2>2, <3>1, <3>2 DEF ParkOK
  <2> QED BY <2>1, <2>2
<1>3. ASSUME ~Continues(e), NEW f \in Epochs PROVE ParkOK(f)'
  <2>1. thr'[f].canceled => draining'
    <3>1. thr'[e].canceled = thr[e].canceled
      BY ThreadMoves DEF ThreadStep, Moves
    <3> QED BY <1>0, <3>1 DEF ParkOK, DecideOK
  <2>2. ASSUME thr'[f].pc \in Driving PROVE f # e /\ UNCHANGED cur
    BY <1>0, <1>3, <2>2, StepKinds
       DEF Trails, Spent, Driving, Launching, Executing, Tearing
  <2> QED BY <1>0, <2>1, <2>2 DEF ParkOK, DecideOK
<1>4. ASSUME NEW c \in Callers, Deciding(c)' PROVE AnswerOK(c)'
  <2>0. Deciding(c) /\ AnswerOK(c)
    BY <1>0, <1>4 DEF Deciding, DecideOK
  <2>1. CASE e = epoch /\ thr[e].pc = "parked"
    <3>1. ~thr[e].token
      BY <2>0, <2>1 DEF AnswerOK
    <3>2. ParkCanceled(e)
      BY <2>1, <3>1 DEF ThreadStep, LaunchSaved, StartFailed, RetryFailed, ResetFailed,
         LaunchFailed, Launching,
         Complete, Park, ParkSaved, Resume, RunStep, StepSaved, MergeSaved,
         CheckpointSaved, Install, CreateWorkload, StepSucceeds, StepFails, ProveCleaned,
         ProveUncleaned, FinishSaved, WorkloadAbsent, WorkloadStuck, Uninstall,
         ReleasesRemoved, ReleasesKept, ResetSaved, ResetDelete, ResetClear, Drives
    <3>3. thr'[e].pc = "finishSave" /\ Turns(cur, cur', "failed", cur.residue) /\ draining
      BY <1>1, <3>2, ThreadMoves, ThreadTurns DEF Moves, ParkCanceled, ParkOK
    <3> QED BY <1>0, <2>0, <2>1, <3>3, NoRunAssumption DEF AnswerOK, Turns, Settling, Deciding
  <2>2. CASE ~(e = epoch /\ thr[e].pc = "parked")
    <3>1. thr[e].pc \notin Driving
      BY <1>1, <2>0, <2>2 DEF AnswerOK, Driving, Launching, Executing, Tearing
    <3>2. UNCHANGED cur
      BY <3>1, StepKinds DEF Continues, Retires, Trails
    <3>3. ASSUME e = epoch
          PROVE  thr'[e].pc \in {"finishSave", "over"} /\ thr[e].pc = "finishSave"
      <4>1. thr[e].pc = "finishSave"
        BY <2>0, <2>2, <3>1, <3>3, StepKinds DEF AnswerOK, Continues, Retires, Trails
      <4>2. FinishSaved(e) \/ ResetSaved(e) \/ ResetDelete(e) \/ ResetClear(e)
        BY <3>1, StepKinds DEF Continues, Retires
      <4>3. FinishSaved(e)
        BY <4>1, <4>2 DEF ResetSaved, ResetDelete, ResetClear
      <4> QED BY <4>1, <4>3, ThreadMoves DEF Moves
    <3>4. thr'[epoch] = thr[epoch] \/ e = epoch
      BY <1>0, <2>0 DEF AnswerOK, IInv, Core, CoreOK, Epochs
    <3> QED BY <1>0, <2>0, <3>2, <3>3, <3>4 DEF AnswerOK, Settling, Deciding
  <2> QED BY <2>1, <2>2
<1> QED
  BY <1>2, <1>3, <1>4 DEF DecideOK, AnswerOK

(* A request that acts on a settled run changes it only while nobody drives it
   and nobody decides on it. *)
LEMMA SettledRequests ==
  ASSUME IInv, RecordInv, NEW c \in Callers,
         \/ Discard(c) \/ Stop(c)
         \/ DiscardDeleted(c) \/ DiscardFailed(c) \/ StopAbsent(c) \/ StopFailed(c)
         \/ StopMark(c) \/ StopFinish(c) \/ StopSaved(c) \/ StopClear(c)
  PROVE  UNCHANGED cur \/ (Calm(cur) /\ (CanDiscard \/ Settling(c)))
<1>1. CASE Discard(c)
  BY <1>1 DEF Discard, CanDiscard, Calm
<1>2. CASE DiscardFailed(c)
  BY <1>2 DEF DiscardFailed, Settling, Calm
<1>3. CASE StopMark(c) \/ StopFinish(c)
  <2>1. UNCHANGED cur \/ Settling(c)
    BY <1>3 DEF StopMark, StopFinish, Holds, Settling
  <2> QED BY <2>1 DEF RecordInv, SettleOK, Calm
<1>4. CASE \/ Stop(c) \/ DiscardDeleted(c) \/ StopAbsent(c) \/ StopFailed(c)
           \/ StopSaved(c) \/ StopClear(c)
  BY <1>4 DEF Stop, DiscardDeleted, StopAbsent, StopFailed, StopSaved, StopClear, memVars
<1> QED
  BY <1>1, <1>2, <1>3, <1>4

LEMMA RequestParks ==
  ASSUME IInv, RecordInv, DecideOK,
         NEW c \in Callers, Decide(c) \/ Discard(c) \/ Stop(c) \/ RequestStep(c),
         NEW e \in Epochs
  PROVE  ParkOK(e)'
<1>0. Wakes(c) /\ Asks(c) /\ ParkOK(e) /\ AnswerOK(c)
  BY RequestWakes, RequestSteps DEF DecideOK
<1>1. UNCHANGED draining /\ thr'[e].pc = thr[e].pc /\ thr'[e].canceled = thr[e].canceled
  BY <1>0 DEF Asks, Wakes
<1>2. thr[e].pc \in Driving => e = epoch /\ ~Calm(cur)
  BY Driven DEF Calm
<1>3. CASE DecideResume(c)
  <2>1. UNCHANGED cur /\ Deciding(c)
    BY <1>3 DEF DecideResume, memVars, Deciding
  <2>2. thr'[e].token =>
          thr[e].token \/ (e = epoch /\ (thr[e].pc \in Driving =>
                                           thr[e].pc = "parked" /\ cur.state = "running"))
    BY <1>0, <2>1 DEF Wakes, AnswerOK, Driving, Launching, Executing, Tearing
  <2> QED BY <1>0, <1>1, <2>1, <2>2 DEF ParkOK
<1>4. CASE ~DecideResume(c)
  <2>1. thr'[e].token = thr[e].token
    BY <1>4 DEF Decide, Discard, Stop, RequestStep, DecideSaved, DecideFailed, DiscardDeleted,
       DiscardFailed, StopAbsent, StopFailed, StopMark, StopFinish, StopSaved, StopClear
  <2>2. CASE UNCHANGED cur
    BY <1>0, <1>1, <2>1, <2>2 DEF ParkOK
  <2>3. CASE Calm(cur)
    BY <1>0, <1>1, <1>2, <2>1, <2>3 DEF ParkOK
  <2>4. CASE Decide(c)
    <3>1. cur.state = "awaiting" /\ cur'.state = "running"
      BY <2>4, RequestTurns
    <3> QED BY <1>0, <1>1, <2>1, <3>1 DEF ParkOK
  <2>5. CASE DecideFailed(c) /\ ~UNCHANGED cur
    <3>1. Deciding(c) /\ Live(cur) /\ cur'.state = "awaiting" /\ cur'.idx = cur.idx
      BY <2>5, RequestTurns DEF Marks, DecideFailed, Deciding
    <3>2. thr[epoch].pc = "parked" /\ ~thr[epoch].token /\ cur.idx \in Gates
      BY <1>0, <3>1 DEF AnswerOK, Live
    <3> QED BY <1>0, <1>1, <1>2, <2>1, <3>1, <3>2 DEF ParkOK
  <2>6. CASE DecideSaved(c)
    BY <2>2, <2>6 DEF DecideSaved, memVars
  <2> QED BY <1>4, <2>2, <2>3, <2>4, <2>5, <2>6, SettledRequests DEF RequestStep
<1> QED
  BY <1>3, <1>4

LEMMA RequestAnswers ==
  ASSUME IInv, RecordInv, CalmSaves, DecideOK, Clients # "polling",
         NEW c \in Callers, Decide(c) \/ Discard(c) \/ Stop(c) \/ RequestStep(c),
         NEW b \in Callers, Deciding(b)'
  PROVE  AnswerOK(b)'
<1>0. Wakes(c) /\ Asks(c) /\ UNCHANGED <<epoch, draining>>
      /\ \A d \in Callers : d # c => req'[d] = req[d]
  BY RequestWakes, RequestSteps DEF Asks
<1>1. CASE Decide(c)
  <2>1. /\ cur.state = "awaiting" /\ Entered(c, "decideSave", cur')
        /\ Marks(cur, cur') /\ cur'.state = "running" /\ cur # NoRun
    BY <1>1, RequestTurns, RequestMoves DEF Decide
  <2>2. PICK e \in Epochs : thr[e].pc = "parked" /\ e = epoch
    BY <1>1 DEF Decide, Drives
  <2>3. thr[e].pc \in Driving /\ ParkOK(e) /\ epoch # 0
    BY <2>2, BoundAssumption DEF Driving, Executing, DecideOK, Epochs
  <2>4. NoLateSave /\ ~thr[epoch].token /\ cur.idx \in Gates
    BY <2>1, <2>2, <2>3 DEF CalmSaves, SomeDriver, ParkOK
  <2>5. \A d \in Callers : ~Deciding(d) /\ ~Settling(d) /\ req[d].pc # "stopSave"
    BY <2>1, <2>4, DecidingBusy DEF RecordInv, SettleOK, Live, NoLateSave
  <2>6. b = c
    BY <1>0, <2>5 DEF Deciding
  <2>7. thr'[epoch].pc = "parked" /\ ~thr'[epoch].token
    BY <1>0, <1>1, <2>2, <2>4 DEF Wakes, Decide
  <2>8. \A d \in Callers : d # c => ~Deciding(d)' /\ ~Settling(d)' /\ req'[d].pc # "stopSave"
    BY <1>0, <2>5 DEF Deciding, Settling
  <2> QED
    BY <1>0, <2>1, <2>3, <2>4, <2>6, <2>7, <2>8, NoRunAssumption
       DEF AnswerOK, Entered, Marks, Deciding, Settling
<1>2. CASE ~Decide(c)
  <2>1. Deciding(b)
    <3>1. b = c => Deciding(c)
      BY <1>2, RequestMoves DEF RequestStep, Deciding, Entered, Goes, Left, DecideSaved
    <3> QED BY <1>0, <3>1 DEF Deciding
  <2>2. AnswerOK(b) /\ AnswerOK(c)
    BY DEF DecideOK
  <2>3. ~Discard(c) /\ ~Stop(c) /\ ~Settling(c) /\ req[c].pc # "stopSave"
        /\ (Deciding(c) => b = c)
    BY <2>1, <2>2, DecidingBusy DEF AnswerOK, Discard, Stop
  <2>4. CASE Deciding(c)
    <3>1. DecideSaved(c)
      BY <1>2, <2>3, <2>4, RequestMoves
         DEF RequestStep, Deciding, Left, DecideSaved, DecideFailed, DecideResume,
             DiscardDeleted, DiscardFailed, StopAbsent, StopFailed, StopMark, StopFinish,
             StopSaved, StopClear
    <3>2. UNCHANGED <<cur, thr>> /\ Goes(c, "decideResume", NoRun)
      BY <3>1, RequestMoves DEF DecideSaved, memVars
    <3> QED BY <1>0, <2>1, <2>2, <2>3, <2>4, <3>2 DEF AnswerOK, Goes, Deciding, Settling
  <2>5. CASE ~Deciding(c)
    <3>1. UNCHANGED <<cur, thr>>
      <4>1. ~CanDiscard
        BY <2>1, DecidingBusy
      <4> QED
        BY <1>2, <2>3, <2>5, <4>1, SettledRequests
           DEF RequestStep, Deciding, DecideSaved, DecideFailed, DecideResume,
             DiscardDeleted, DiscardFailed, StopAbsent, StopFailed, StopMark, StopFinish,
             StopSaved, StopClear
    <3>2. ~Settling(c)' /\ req'[c].pc # "stopSave" /\ ~Deciding(c)'
      <4>1. req'[c].pc # "stopSave"
        <5>1. StopFinish(c) => req[c].epoch # epoch
          BY <2>3 DEF Settling, StopFinish
        <5> QED BY <1>2, <2>3, <5>1, RequestMoves DEF RequestStep, Goes, Left, StopFinish
      <4>2. ~Deciding(c)'
        BY <1>2, <2>3, <2>5, RequestMoves DEF RequestStep, Goes, Left, Deciding, DecideSaved
      <4>3. ~Settling(c)'
        BY <1>0, <1>2, <2>3, RequestMoves
           DEF RequestStep, Goes, Left, Settling, StopAbsent, StopMark
      <4> QED BY <4>1, <4>2, <4>3
    <3>3. b # c /\ req'[b] = req[b]
      BY <1>0, <2>1, <2>5
    <3> QED BY <1>0, <2>1, <2>2, <3>1, <3>2, <3>3 DEF AnswerOK, Deciding, Settling
  <2> QED BY <2>4, <2>5
<1> QED
  BY <1>1, <1>2

LEMMA DecideKept ==
  ASSUME IInv, RecordInv, CalmSaves, DecideOK, Clients # "polling", [Next]_vars
  PROVE  DecideOK'
<1>1. CASE Start \/ Retry \/ Reset
  <2>1. /\ Calm(cur) /\ UNCHANGED <<req, draining>> /\ ~draining
        /\ \A e \in Epochs : thr[e].pc \notin Driving
    BY <1>1, LaunchingSteps, Alone DEF Launches
  <2>2. /\ \E pc, p : Born(pc, p)
        /\ cur'.state # "awaiting"
    BY <1>1, LaunchMoves DEF Fresh, Turns
  <2>3. \A e \in Epochs : ParkOK(e)'
    BY <2>1, <2>2 DEF DecideOK, ParkOK, Born
  <2>4. \A c \in Callers : ~Deciding(c)'
    BY <1>1, <2>1, DecidingBusy DEF Deciding, Start, Retry, Reset
  <2> QED BY <2>3, <2>4 DEF DecideOK, AnswerOK
<1>2. CASE CancelAndWait \/ DrainReturns \/ UNCHANGED vars
  <2>1. /\ UNCHANGED <<cur, epoch, req>> /\ (draining => draining')
        /\ \A e \in Epochs : /\ thr'[e].pc = thr[e].pc /\ thr'[e].token = thr[e].token
                             /\ thr'[e].canceled => thr[e].canceled \/ draining'
    <3>1. CASE CancelAndWait
      BY <3>1, ProcessMoves DEF Cancels, CancelAndWait
    <3>2. CASE DrainReturns \/ UNCHANGED vars
      BY <3>2 DEF DrainReturns, memVars, vars
    <3> QED BY <1>2, <3>1, <3>2
  <2>2. \A e \in Epochs : ParkOK(e)'
    BY <2>1 DEF DecideOK, ParkOK
  <2>3. \A c \in Callers : AnswerOK(c)'
    <3>1. ASSUME NEW c \in Callers, Deciding(c)' PROVE AnswerOK(c)'
      <4>1. Deciding(c) /\ AnswerOK(c)
        BY <2>1, <3>1 DEF Deciding, DecideOK
      <4>2. epoch \in Epochs
        BY <4>1 DEF AnswerOK, IInv, Core, CoreOK, Epochs
      <4> QED BY <2>1, <4>1, <4>2 DEF AnswerOK, Deciding, Settling
    <3> QED BY <3>1 DEF AnswerOK
  <2> QED BY <2>2, <2>3 DEF DecideOK
<1>3. CASE Crash \/ Recover \/ Reconcile
  <2>1. \A e \in Epochs : thr'[e].pc = "unborn" /\ (thr'[e].canceled => thr[e].canceled /\ ~Crash)
    BY <1>3, ProcessMoves, NobodyYet, RecoverTurns, ReconcileTurns
  <2>2. UNCHANGED draining \/ Crash
    BY <1>3 DEF Recover, Reconcile
  <2>3. \A c \in Callers : req'[c].pc = "idle"
    BY <1>3, ProcessMoves, NobodyYet, RecoverTurns, ReconcileTurns
  <2> QED
    BY <2>1, <2>2, <2>3
       DEF DecideOK, ParkOK, AnswerOK, Deciding, Driving, Launching, Executing, Tearing
<1>4. ASSUME NEW c \in Callers, Decide(c) \/ Discard(c) \/ Stop(c) \/ RequestStep(c)
      PROVE  DecideOK'
  BY <1>4, RequestParks, RequestAnswers DEF DecideOK, AnswerOK
<1> QED
  BY <1>1, <1>2, <1>3, <1>4, ThreadDecides DEF Next

(***************************************************************************)
(* Which decisions a record has.                                           *)
(***************************************************************************)
(* Run q has all the decisions of run r. *)
Inherits(r, q) ==
  r # NoRun /\ q.id = r.id /\ r.decided \subseteq q.decided /\ (Orphan(r) => Orphan(q))

(* The run is parked again as if Decide had not been called. *)
Unanswers(c) ==
  /\ DecideFailed(c) /\ req[c].pc = "decideSave" /\ req[c].undo \in Held
  /\ cur # NoRun /\ Live(cur)
  /\ cur'.id = cur.id /\ req[c].undo.id = cur.id /\ ~Orphan(req[c].undo)
  /\ cur'.decided = req[c].undo.decided

LEMMA LiveNoOrphan ==
  ASSUME NEW r, Live(r) \/ r.state = "failed" \/ r.installed PROVE ~Orphan(r)
BY DEF Live, Orphan

LEMMA TurnsInherit ==
  ASSUME NEW r, NEW q, NEW s, NEW x, Turns(r, q, s, x),
         Live(r) \/ r.state = "failed" \/ r.installed \/ s = "done"
  PROVE  Inherits(r, q)
BY NoRunAssumption DEF Turns, Inherits, Orphan, Live

LEMMA CurInherits ==
  ASSUME IInv, RecordInv, DecideOK, [Next]_vars, cur' # NoRun
  PROVE
    \/ cur' \in Restorable
    \/ \E i \in RunIDs \ used : cur'.id = i
    \/ Inherits(cur, cur')
    \/ \E c \in Callers : Unanswers(c)
    \/ rec # NoRun /\ Inherits(rec, cur') /\ up = "down"
    \/ Orphan(cur')
<1> DEFINE Goal ==
    \/ cur' \in Restorable
    \/ \E i \in RunIDs \ used : cur'.id = i
    \/ Inherits(cur, cur')
    \/ \E c \in Callers : Unanswers(c)
    \/ rec # NoRun /\ Inherits(rec, cur') /\ up = "down"
    \/ Orphan(cur')
<1>1. ASSUME NEW i \in RunIDs \ used, Fresh(cur', i) PROVE Goal
  BY <1>1 DEF Fresh
<1>2. ASSUME cur.state = "failed" \/ cur.installed, NEW s, Turns(cur, cur', s, FALSE) PROVE Goal
  BY <1>2, TurnsInherit
<1>3. ASSUME NEW e \in Epochs, thr[e].pc \in Driving, cur # NoRun,
             \/ RetryFailed(e) \/ ResetFailed(e) \/ Complete(e) \/ Park(e) \/ RunStep(e)
             \/ ParkCanceled(e) \/ StepSucceeds(e)
             \/ StepFails(e) \/ ProveCleaned(e) \/ ProveUncleaned(e)
             \/ WorkloadStuck(e) \/ ReleasesKept(e) \/ ReleasesRemoved(e)
      PROVE  Goal
  <2>1. Live(cur) /\ ~Orphan(cur)
    BY <1>3, Driven, LiveNoOrphan
  <2>2. cur'.id = cur.id /\ cur'.decided = cur.decided
    BY <1>3, ThreadTurns DEF Turns, Advances, Fails
  <2> QED BY <1>3, <2>1, <2>2 DEF Inherits
<1>4. ASSUME NEW c \in Callers, cur # NoRun,
             Decide(c) \/ DecideFailed(c) \/ StopMark(c) \/ StopFinish(c)
      PROVE  Goal
  <2>1. CASE UNCHANGED cur
    BY <1>4, <2>1 DEF Inherits
  <2>2. CASE Decide(c)
    BY <1>4, <2>2, RequestTurns DEF Marks, Inherits, Orphan
  <2>3. CASE DecideFailed(c) /\ ~UNCHANGED cur
    <3>1. /\ Live(cur) /\ cur'.id = cur.id /\ cur'.decided = req[c].undo.decided
          /\ req[c].pc = "decideSave"
      BY <2>3, RequestTurns DEF Marks, DecideFailed
    <3>2. /\ req[c].undo \in Runs /\ req[c].undo # NoRun /\ ~Orphan(req[c].undo)
      BY <3>1, NoRunAssumption DEF IInv, Core, RequestOK, Orphan
    <3>3. req[c].undo.id = cur.id
      BY <3>1 DEF DecideOK, AnswerOK, Deciding
    <3>4. req[c].undo \in Held
      BY <3>1, <3>2 DEF Held
    <3> QED BY <1>4, <2>3, <3>1, <3>2, <3>3, <3>4 DEF Unanswers
  <2>4. CASE StopMark(c) /\ ~UNCHANGED cur
    BY <1>4, <2>4, RequestTurns DEF Marks, Inherits, Orphan
  <2>5. CASE StopFinish(c) /\ ~UNCHANGED cur
    BY <1>4, <2>5, RequestTurns, TurnsInherit
  <2> QED BY <1>4, <2>1, <2>2, <2>3, <2>4, <2>5
<1>5. ASSUME Recover, rec # NoRun, Recovers(rec, cur') PROVE Goal
  BY <1>5, LiveNoOrphan DEF Recovers, Inherits, Recover
<1>6. ASSUME Turns(cur, cur', "done", cur.residue) PROVE Goal
  BY <1>6, TurnsInherit
<1>7. ASSUME NEW i, Adopts(cur', i) PROVE Goal
  BY <1>7 DEF Adopts, Orphan
<1>8. cur' \in Restorable => Goal
  OBVIOUS
<1> HIDE DEF Goal
<1>9. Goal
  BY <1>1, <1>2, <1>3, <1>4, <1>5, <1>6, <1>7, <1>8, CurSteps
<1> QED
  BY <1>9 DEF Goal

(* If every record has the decision, the current run goes on having it. *)
LEMMA CurDecided ==
  ASSUME IInv, RecordInv, DecideOK, [Next]_vars, cur' # NoRun, NEW i \in used, NEW g,
         \A r \in Held : DecisionIn(r, i, g)
  PROVE  DecisionIn(cur', i, g)
<1> USE DEF DecisionIn
<1>1. cur' \in Restorable => DecisionIn(cur', i, g)
  BY CurHeld
<1>2. cur # NoRun /\ Inherits(cur, cur') => DecisionIn(cur', i, g)
  BY CurHeld DEF Inherits
<1>3. rec # NoRun /\ Inherits(rec, cur') => DecisionIn(cur', i, g)
  BY CurHeld DEF Inherits
<1>4. \A c \in Callers : Unanswers(c) => DecisionIn(cur', i, g)
  BY DEF Unanswers
<1> QED
  BY <1>1, <1>2, <1>3, <1>4, CurInherits DEF Inherits

(***************************************************************************)
(* VolatileOK.                                                             *)
(***************************************************************************)
(* Only Recover looks for a store, and only a crash ends the process. *)
LEMMA VolatileSteps == [Next]_vars => UNCHANGED <<volatile, crashes>> \/ Crash \/ Recover
<1>1. Start \/ Retry \/ Reset \/ CancelAndWait \/ DrainReturns \/ Reconcile \/ UNCHANGED vars
        => UNCHANGED <<volatile, crashes>>
  BY DEF Start, Retry, Reset, CancelAndWait, DrainReturns, Reconcile, memVars, histVars, vars
<1>2. ASSUME NEW e \in Epochs, ThreadStep(e) PROVE UNCHANGED <<volatile, crashes>>
  <2>1. CASE \/ LaunchSaved(e) \/ StartFailed(e) \/ RetryFailed(e) \/ ResetFailed(e)
             \/ ParkSaved(e) \/ StepSaved(e) \/ MergeSaved(e) \/ FinishSaved(e)
             \/ ResetSaved(e) \/ ResetDelete(e) \/ ResetClear(e)
             \/ Complete(e) \/ Park(e) \/ Resume(e) \/ ParkCanceled(e)
    BY <2>1 DEF LaunchSaved, StartFailed, RetryFailed, ResetFailed, LaunchFailed,
       ParkSaved, StepSaved, MergeSaved, CheckpointSaved, FinishSaved, ResetSaved,
       ResetDelete, ResetClear, Complete, Park, Resume, ParkCanceled, memVars, histVars
  <2>2. CASE \/ RunStep(e) \/ Install(e) \/ CreateWorkload(e) \/ StepSucceeds(e)
             \/ StepFails(e) \/ ProveCleaned(e) \/ ProveUncleaned(e)
    BY <2>2 DEF RunStep, Install, CreateWorkload, StepSucceeds, StepFails, ProveCleaned,
       ProveUncleaned, FailStep, memVars, histVars
  <2>3. CASE \/ WorkloadAbsent(e) \/ WorkloadStuck(e) \/ Uninstall(e)
             \/ ReleasesRemoved(e) \/ ReleasesKept(e)
    BY <2>3 DEF WorkloadAbsent, WorkloadStuck, Uninstall, ReleasesRemoved,
       ReleasesKept, memVars, histVars
  <2> QED BY <1>2, <2>1, <2>2, <2>3 DEF ThreadStep
<1>3. ASSUME NEW c \in Callers, Decide(c) \/ Discard(c) \/ Stop(c) \/ RequestStep(c)
      PROVE  UNCHANGED <<volatile, crashes>>
  BY <1>3 DEF Decide, Discard, Stop, RequestStep, DecideSaved, DecideFailed, DecideResume,
     DiscardDeleted, DiscardFailed, StopAbsent, StopFailed, StopMark, StopFinish, StopSaved,
     StopClear, memVars, histVars
<1> QED
  BY <1>1, <1>2, <1>3 DEF Next

LEMMA VolatileKept ==
  ASSUME IInv, RecordInv, DecideOK, VolatileOK, [Next]_vars
  PROVE  VolatileOK'
<1>0. volatile' = volatile \/ Crash \/ Recover
  BY VolatileSteps
<1>1. CASE Crash
  BY <1>1, ProcessMoves DEF VolatileOK
<1>2. CASE Recover
  <2>1. up' # "down" /\ UNCHANGED rec
    BY <1>2 DEF Recover
  <2>2. ~volatile
    BY <1>2 DEF VolatileOK, Recover
  <2>3. volatile' => cur' = NoRun
    BY <1>2, <2>2 DEF Recover, RecordInv, SlotsOK
  <2>4. Restorable \subseteq {NoRun}
    <3>1. cur = NoRun /\ \A e \in Epochs : thr[e].undo = NoRun
      BY <1>2, NobodyYet DEF Recover, RecordInv, SlotsOK
    <3>2. \A c \in Callers : req[c].pc = "idle"
      BY <1>2, NobodyYet DEF Recover
    <3> QED BY <3>1, <3>2 DEF Restorable
  <2>5. Restorable' \subseteq Restorable \cup {cur', NoRun}
    BY NextFlows, FlowsHeld
  <2> QED BY <2>1, <2>3, <2>4, <2>5 DEF VolatileOK
<1>3. CASE ~Crash /\ ~Recover
  <2>0. volatile' = volatile /\ (up' = "down" => up = "down")
    <3>1. up' = "down" => up = "down"
      BY <1>3, LaunchingSteps, StepKinds, RequestSteps
         DEF Next, Launches, Continues, Retires, Trails, OnlyThread, Asks, CancelAndWait,
             DrainReturns, Reconcile, vars
    <3> QED BY <1>0, <1>3, <3>1
  <2>1. volatile => rec' = rec
    <3>1. Start \/ Retry \/ Reset \/ CancelAndWait \/ DrainReturns \/ UNCHANGED vars =>
            rec' = rec
      BY DEF Start, Retry, Reset, CancelAndWait, DrainReturns, vars
    <3> QED
      BY <1>3, <3>1, ThreadWrites, RequestWrites, ReconcileTurns DEF Next, Writes
  <2>2. ASSUME volatile, rec # NoRun, cur' # NoRun PROVE cur'.id # rec.id \/ Orphan(cur')
    <3>0. up # "down" /\ rec.id \in used
          /\ \A r \in Restorable : r = NoRun \/ r.id # rec.id \/ Orphan(r)
      BY <2>2, CurHeld DEF VolatileOK, RecordInv, UsedOK
    <3>1. cur # NoRun /\ Inherits(cur, cur') => cur'.id # rec.id \/ Orphan(cur')
      BY <3>0, CurHeld DEF Inherits
    <3>2. \A c \in Callers : Unanswers(c) => cur'.id # rec.id
      BY <3>0, CurHeld, LiveNoOrphan DEF Unanswers
    <3> QED BY <2>2, <3>0, <3>1, <3>2, CurInherits DEF Inherits
  <2>3. Restorable' \subseteq Restorable \cup {cur', NoRun}
    BY NextFlows, FlowsHeld
  <2> QED BY <2>0, <2>1, <2>2, <2>3 DEF VolatileOK
<1> QED
  BY <1>1, <1>2, <1>3

(* While a request is inside Decide, nothing but the shutdown moves its run. *)
LEMMA DecidingKeeps ==
  ASSUME IInv, RecordInv, DecideOK, [Next]_vars, NEW b \in Callers, Deciding(b), Deciding(b)'
  PROVE  /\ req'[b].id = req[b].id /\ req'[b].undo = req[b].undo
         /\ UNCHANGED cur \/ Turns(cur, cur', "failed", cur.residue)
<1>0. AnswerOK(b)
  BY DEF DecideOK
<1>1. ~Start /\ ~Retry /\ ~Reset
  BY DecidingBusy DEF Start, Retry, Reset
<1>2. ASSUME NEW e \in Epochs, ThreadStep(e)
      PROVE  /\ UNCHANGED req
             /\ UNCHANGED cur \/ Turns(cur, cur', "failed", cur.residue)
  <2>1. UNCHANGED req
    BY <1>2, StepKinds DEF Continues, Retires, Trails, OnlyThread
  <2>2. CASE thr[e].pc \in Driving
    <3>1. thr[e].pc = "parked"
      BY <1>0, <2>2, Driven DEF AnswerOK, Driving, Launching, Executing, Tearing
    <3>2. Resume(e) \/ ParkCanceled(e)
      BY <1>2, <3>1 DEF ThreadStep, LaunchSaved, StartFailed, RetryFailed, ResetFailed,
         LaunchFailed, Launching,
         Complete, Park, ParkSaved, RunStep, StepSaved, MergeSaved,
         CheckpointSaved, Install, CreateWorkload, StepSucceeds, StepFails, ProveCleaned,
         ProveUncleaned, FinishSaved, WorkloadAbsent, WorkloadStuck, Uninstall,
         ReleasesRemoved, ReleasesKept, ResetSaved, ResetDelete, ResetClear, Drives
    <3>3. Resume(e) => UNCHANGED cur
      BY DEF Resume, memVars
    <3> QED BY <2>1, <3>2, <3>3, ThreadTurns
  <2>3. CASE thr[e].pc \notin Driving
    BY <1>2, <2>1, <2>3, StepKinds DEF Continues, Retires, Trails
  <2> QED BY <2>2, <2>3
<1>3. ASSUME NEW c \in Callers, Decide(c) \/ Discard(c) \/ Stop(c) \/ RequestStep(c)
      PROVE  /\ req'[b].id = req[b].id /\ req'[b].undo = req[b].undo
             /\ UNCHANGED cur
  <2>0. \A d \in Callers : d # c => req'[d] = req[d]
    BY <1>3, RequestSteps DEF Asks
  <2>1. ~Decide(c) /\ ~Discard(c) /\ ~Stop(c) /\ ~Settling(c) /\ ~CanDiscard
    BY <1>0, DecidingBusy DEF AnswerOK, Discard, Stop, Decide
  <2>2. CASE c = b
    <3>1. DecideSaved(c)
      BY <1>3, <2>1, <2>2, RequestMoves
         DEF RequestStep, Deciding, Left, DecideSaved, DecideFailed, DecideResume,
             DiscardDeleted, DiscardFailed, StopAbsent, StopFailed, StopMark, StopFinish,
             StopSaved, StopClear
    <3> QED BY <2>2, <3>1, RequestMoves DEF Goes, DecideSaved, memVars
  <2>3. CASE c # b
    <3>1. ~Deciding(c)
      BY <1>0, <2>3 DEF AnswerOK
    <3>2. UNCHANGED cur
      BY <1>3, <2>1, <3>1, SettledRequests
         DEF RequestStep, Deciding, DecideSaved, DecideFailed, DecideResume,
             DiscardDeleted, DiscardFailed, StopAbsent, StopFailed, StopMark, StopFinish,
             StopSaved, StopClear
    <3> QED BY <2>0, <2>3, <3>2
  <2> QED BY <2>2, <2>3
<1>4. CancelAndWait \/ DrainReturns \/ UNCHANGED vars => UNCHANGED <<cur, req>>
  BY ProcessMoves DEF vars
<1>5. ~Crash /\ ~Recover /\ ~Reconcile
  <2>1. ~Crash
    BY ProcessMoves DEF Deciding
  <2>2. up = "serving"
    BY NobodyYet DEF Deciding
  <2> QED BY <2>1, <2>2 DEF Recover, Reconcile
<1> QED
  BY <1>1, <1>2, <1>3, <1>4, <1>5 DEF Next

(* When Decide begins, nothing else has anything to save. *)
LEMMA DecideFirst ==
  ASSUME IInv, RecordInv, CalmSaves, DecideOK, Clients # "polling",
         NEW c \in Callers, Decide(c)
  PROVE  Snapshots \subseteq {NoRun} /\ \A d \in Callers : ~Deciding(d)
<1>1. PICK e \in Epochs : thr[e].pc = "parked" /\ thr[e].pc \in Driving
  BY DEF Decide, Drives, Driving, Executing
<1>2. NoLateSave /\ \A f \in Epochs : f # e => thr[f].pc \notin Driving
  BY <1>1, Alone DEF CalmSaves, SomeDriver
<1>3. \A d \in Callers : ~Deciding(d)
  BY DecidingBusy DEF Decide
<1>4. \A f \in Epochs : thr[f].snap = NoRun
  BY <1>1, <1>2 DEF RecordInv, SlotsOK, Saving, NoLateSave, Driving, Launching,
     Executing, Tearing
<1>5. \A d \in Callers : req[d].snap = NoRun
  BY <1>2, <1>3 DEF RecordInv, SlotsOK, NoLateSave, Deciding
<1> QED
  BY <1>3, <1>4, <1>5 DEF Snapshots

LEMMA CurAnswered ==
  ASSUME IInv, RecordInv, DecideOK, AckedOK, [Next]_vars, NEW b \in Callers, Deciding(b),
         Deciding(b)'
  PROVE  DecisionIn(cur', req[b].id, req[b].undo.idx) /\ cur' # NoRun
<1>1. /\ DecisionIn(cur, req[b].id, req[b].undo.idx) /\ cur # NoRun
      /\ cur.state \in {"running", "failed"}
  BY DecidingBusy DEF AckedOK
<1> QED
  BY <1>1, DecidingKeeps, NoRunAssumption DEF Turns, DecisionIn, Orphan

(* What is still to be saved of a run that somebody decides on has the decision. *)
LEMMA AnswersKept ==
  ASSUME IInv, RecordInv, CalmSaves, DecideOK, AckedOK, Clients # "polling", [Next]_vars,
         NEW b \in Callers, Deciding(b)', NEW r \in {cur'} \cup Snapshots', r # NoRun
  PROVE  DecisionIn(r, req'[b].id, req'[b].undo.idx)
<1>0. Snapshots' \subseteq Snapshots \cup {cur', NoRun}
  BY NextFlows, FlowsHeld
<1>1. CASE Deciding(b)
  <2>1. req'[b].id = req[b].id /\ req'[b].undo = req[b].undo
    BY <1>1, DecidingKeeps
  <2>2. r \in Snapshots \/ r = cur'
    BY <1>0
  <2> QED BY <1>1, <2>1, <2>2, CurAnswered DEF AckedOK
<1>2. CASE ~Deciding(b)
  <2>1. Decide(b)
    <3>1. ASSUME ~Decide(b) PROVE ~Deciding(b)'
      <4>1. ASSUME NEW c \in Callers, Decide(c) \/ Discard(c) \/ Stop(c) \/ RequestStep(c)
            PROVE  ~Deciding(b)'
        <5>1. c # b => req'[b] = req[b]
          BY <4>1, RequestSteps DEF Asks
        <5>2. c = b => ~Deciding(b)'
          BY <1>2, <3>1, <4>1, RequestMoves
             DEF RequestStep, Entered, Goes, Left, Deciding, DecideSaved
        <5> QED BY <1>2, <5>1, <5>2 DEF Deciding
      <4>2. ASSUME NEW e \in Epochs, ThreadStep(e) PROVE UNCHANGED req
        BY <4>2, StepKinds DEF Continues, Retires, Trails, OnlyThread
      <4>3. Start \/ Retry \/ Reset \/ CancelAndWait \/ DrainReturns \/ Recover \/ Reconcile
              \/ UNCHANGED vars => UNCHANGED req
        BY DEF Start, Retry, Reset, CancelAndWait, DrainReturns, Recover, Reconcile, vars
      <4>4. Crash => ~Deciding(b)'
        BY ProcessMoves DEF Deciding
      <4>5. UNCHANGED req => ~Deciding(b)'
        BY <1>2 DEF Deciding
      <4> QED BY <4>1, <4>2, <4>3, <4>4, <4>5 DEF Next
    <3> QED BY <3>1
  <2>2. /\ Entered(b, "decideSave", cur') /\ Marks(cur, cur')
        /\ cur'.decided = cur.decided \cup {cur.idx}
    BY <2>1, RequestMoves, RequestTurns
  <2>3. r = cur'
    BY <1>0, <2>1, DecideFirst
  <2> QED BY <2>2, <2>3 DEF Entered, DecisionIn
<1> QED
  BY <1>1, <1>2

(* An acknowledgement finds the decision everywhere. *)
LEMMA ResumeDecided ==
  ASSUME IInv, RecordInv, DecideOK, AckedOK, NEW c \in Callers, DecideResume(c), NEW r \in Held
  PROVE  DecisionIn(r, req[c].id, req[c].undo.idx)
<1>1. req[c].pc = "decideResume" /\ Deciding(c) /\ AnswerOK(c)
  BY DEF DecideResume, Deciding, DecideOK
<1>2. \A e \in Epochs : thr[e].undo = NoRun
  <2>1. ASSUME NEW e \in Epochs, thr[e].pc = "launchStart" PROVE FALSE
    <3>1. e = epoch
      BY <2>1, Driven DEF Driving, Launching
    <3> QED BY <1>1, <2>1, <3>1 DEF AnswerOK
  <2> QED BY <2>1 DEF RecordInv, SlotsOK
<1>3. \A d \in Callers : /\ ~(req[d].pc = "discardDelete" /\ req[d].epoch = epoch)
                         /\ req[d].pc # "decideSave"
  BY <1>1 DEF AnswerOK, Settling, Deciding
<1>4. r \in {cur} \cup Snapshots \cup {rec}
  BY <1>2, <1>3 DEF Held, Restorable
<1>5. r # NoRun
  BY CurHeld
<1> QED
  BY <1>1, <1>4, <1>5 DEF AckedOK

LEMMA AckedKept ==
  ASSUME IInv, RecordInv, CalmSaves, DecideOK, AckedOK, VolatileOK, Clients # "polling",
         [Next]_vars
  PROVE  AckedOK'
<1>0. /\ acked' = acked
         \/ \E c \in Callers : /\ DecideResume(c)
                               /\ acked' = acked \cup {<<req[c].id, req[c].undo.idx>>}
      /\ Held' \subseteq Held \cup {cur'} /\ NoRun \notin Held'
  BY WorldSteps, NextFlows, FlowsHeld DEF Held
<1>1. ASSUME NEW a \in acked' PROVE a[2] \in Gates
  <2>1. CASE a \in acked
    BY <2>1 DEF AckedOK
  <2>2. ASSUME NEW c \in Callers, DecideResume(c), a = <<req[c].id, req[c].undo.idx>>
        PROVE  a[2] \in Gates
    BY <2>2 DEF DecideOK, AnswerOK, Deciding, DecideResume
  <2> QED BY <1>0, <2>1, <2>2
<1>2. ASSUME NEW a \in acked', NEW r \in Held' PROVE DecisionIn(r, a[1], a[2])
  <2>1. CASE a \in acked
    <3>1. a[1] \in used /\ \A q \in Held : DecisionIn(q, a[1], a[2])
      BY <2>1 DEF AckedOK, RecordInv, UsedOK
    <3>2. r = cur' => cur' # NoRun
      BY <1>0, <1>2
    <3> QED BY <1>0, <3>1, <3>2, CurDecided
  <2>2. ASSUME NEW c \in Callers, DecideResume(c), a = <<req[c].id, req[c].undo.idx>>
        PROVE  DecisionIn(r, a[1], a[2])
    <3>1. UNCHANGED cur /\ cur # NoRun
      BY <2>2, DecidingBusy DEF DecideResume, memVars, Deciding
    <3>2. r \in Held
      BY <1>0, <3>1, CurHeld
    <3> QED BY <2>2, <3>2, ResumeDecided
  <2> QED BY <1>0, <2>1, <2>2
<1>3. ASSUME NEW b \in Callers, req'[b].pc = "decideResume", rec' # NoRun
      PROVE  DecisionIn(rec', req'[b].id, req'[b].undo.idx)
  <2>0. Deciding(b)'
    BY <1>3 DEF Deciding
  <2>1. CASE req[b].pc = "decideResume"
    <3>1. /\ Deciding(b)
          /\ req'[b].id = req[b].id /\ req'[b].undo = req[b].undo
      BY <2>0, <2>1, DecidingKeeps DEF Deciding
    <3>2. rec' = cur' => DecisionIn(rec', req'[b].id, req'[b].undo.idx)
      BY <2>0, <3>1, CurAnswered
    <3>3. rec' \in {rec, cur'} \cup Snapshots
      BY <1>3, NextFlows DEF Flows
    <3> QED BY <1>3, <2>1, <3>1, <3>2, <3>3 DEF AckedOK
  <2>2. CASE req[b].pc # "decideResume"
    <3>1. DecideSaved(b)
      <4>1. ASSUME NEW c \in Callers, Decide(c) \/ Discard(c) \/ Stop(c) \/ RequestStep(c)
            PROVE  DecideSaved(b)
        <5>1. c = b
          BY <1>3, <2>2, <4>1, RequestSteps DEF Asks
        <5> QED BY <1>3, <2>2, <4>1, <5>1, RequestMoves
                DEF RequestStep, Entered, Goes, Left
      <4>2. ASSUME NEW e \in Epochs, ThreadStep(e) PROVE UNCHANGED req
        BY <4>2, StepKinds DEF Continues, Retires, Trails, OnlyThread
      <4>3. Start \/ Retry \/ Reset \/ CancelAndWait \/ DrainReturns \/ Recover \/ Reconcile
              \/ UNCHANGED vars => UNCHANGED req
        BY DEF Start, Retry, Reset, CancelAndWait, DrainReturns, Recover, Reconcile, vars
      <4>4. ~Crash
        BY <1>3, ProcessMoves
      <4>5. ~UNCHANGED req
        BY <1>3, <2>2
      <4> QED BY <4>1, <4>2, <4>3, <4>4, <4>5 DEF Next
    <3>2. /\ Deciding(b) /\ req'[b].id = req[b].id /\ req'[b].undo = req[b].undo
          /\ req[b].snap \in Runs /\ req[b].snap \in Snapshots
      BY <2>0, <3>1, DecidingKeeps DEF DecideSaved, Deciding, IInv, Core, RequestOK, Snapshots
    <3>3. CASE ~volatile
      <4>1. rec' = req[b].snap
        BY <3>1, <3>2, <3>3, SaveWrites DEF DecideSaved
      <4> QED BY <1>3, <3>2, <4>1 DEF AckedOK
    <3>4. CASE volatile
      <4>1. rec' = rec
        BY <3>1, <3>4 DEF DecideSaved, SaveSucceeds, storeVars
      <4>2. cur # NoRun /\ ~Orphan(cur) /\ cur.id = req[b].id
        BY <3>2, DecidingBusy DEF Orphan, DecideOK, AnswerOK
      <4>3. rec.id # cur.id
        BY <1>3, <3>4, <4>1, <4>2, CurHeld DEF VolatileOK
      <4> QED BY <3>2, <4>1, <4>2, <4>3 DEF DecisionIn
    <3> QED BY <3>3, <3>4
  <2> QED BY <2>1, <2>2
<1> QED
  BY <1>1, <1>2, <1>3, AnswersKept DEF AckedOK

(* A decision that Decide has acknowledged is never lost, whichever Saves fail and
   whenever the process dies, as long as clients wait for the engine's events. *)
THEOREM AckedDecisionDurableHolds ==
  ASSUME Clients # "polling" PROVE Spec => []AckedDecisionDurable
<1> DEFINE Inv == IInv /\ RecordInv /\ CalmSaves /\ DecideOK /\ AckedOK /\ VolatileOK
<1>1. Init => Inv
  <2> SUFFICES ASSUME Init PROVE Inv
    OBVIOUS
  <2>1. /\ \A e \in Epochs : thr[e].pc = "unborn" /\ ~thr[e].token /\ ~thr[e].canceled
        /\ \A c \in Callers : req[c].pc = "idle"
        /\ acked = {} /\ ~volatile
    BY DEF Init, Booted, Unborn, NoRequest
  <2>2. CalmSaves /\ DecideOK
    BY <2>1 DEF CalmSaves, SomeDriver, DecideOK, ParkOK, AnswerOK, Deciding, Driving, Launching,
       Executing, Tearing
  <2>3. AckedOK /\ VolatileOK
    BY <2>1 DEF AckedOK, VolatileOK, Deciding
  <2> QED BY <2>2, <2>3, InitIInv, InitRecordInv
<1>2. Inv /\ [Next]_vars => Inv'
  BY NextIInv, NextRecordInv, CalmSavesKept, DecideKept, AckedKept, VolatileKept
<1>3. Inv => AckedDecisionDurable
  <2> SUFFICES ASSUME Inv, rec # NoRun, NEW a \in acked, rec.id = a[1], rec.idx <= a[2]
               PROVE  a[2] \in rec.decided
    BY DEF AckedDecisionDurable
  <2>1. a[2] \in Gates /\ DecisionIn(rec, a[1], a[2])
    BY CurHeld DEF AckedOK
  <2>2. ~Orphan(rec)
    <3>1. a[2] \in 0 .. NSteps - 1 /\ NSteps \in Nat
      BY <2>1, PipelineAssumption DEF Steps
    <3>2. ~(NSteps <= a[2])
      BY <3>1
    <3> QED BY <3>2 DEF Orphan
  <2> QED BY <2>1, <2>2 DEF DecisionIn
<1> HIDE DEF Inv
<1> QED
  BY <1>1, <1>2, <1>3, PTL DEF Spec

(***************************************************************************)
(* The record of a live run, for clients that let a Delete end.            *)
(***************************************************************************)
LEMMA CalmDeletesKept ==
  ASSUME IInv, CalmSaves, CalmDeletes, Clients = "patient", [Next]_vars
  PROVE  CalmDeletes'
<1> SUFFICES ASSUME NEW d \in Epochs, thr'[d].pc \in Driving PROVE NoLateDelete'
  BY DEF CalmDeletes, SomeDriver
<1> USE DEF NoLateDelete
<1>0. thr[d].pc \in Driving => NoLateDelete /\ NoLateSave
  BY DEF CalmDeletes, CalmSaves, SomeDriver
<1>1. CASE Start \/ Retry \/ Reset
  <2>1. NoLateDelete /\ UNCHANGED req
    BY <1>1 DEF Start, Retry, Reset, Prompt
  <2>2. \E pc \in Launching : \E p : Born(pc, p)
    BY <1>1, LaunchMoves DEF Launching
  <2> QED BY <2>1, <2>2 DEF Born, Launching
<1>2. ASSUME NEW e \in Epochs, ThreadStep(e) PROVE NoLateDelete'
  <2>1. CASE Continues(e)
    BY <1>0, <2>1, Alone DEF Continues, OnlyThread, Driving, Launching, Executing, Tearing,
       CalmDeletes, SomeDriver
  <2>2. CASE Trails(e)
    <3>1. d # e /\ \A f \in Epochs : f # e => thr'[f] = thr[f]
      BY <2>2 DEF Trails, OnlyThread, Driving, Launching, Executing, Tearing, Spent
    <3>2. NoLateDelete /\ NoLateSave
      BY <1>0, <3>1
    <3>3. thr'[e].pc # "delete"
      BY <1>2, <2>2, <3>2, StepKinds, ThreadMoves
         DEF Moves, Trails, Continues, Retires, Driving, Launching, Executing, Tearing, Spent,
             NoLateSave, ResetSaved
    <3> QED BY <2>2, <3>1, <3>2, <3>3 DEF Trails, OnlyThread
  <2> QED BY <1>2, <2>1, <2>2, StepKinds
<1>3. ASSUME NEW c \in Callers, Decide(c) \/ Discard(c) \/ Stop(c) \/ RequestStep(c)
      PROVE  NoLateDelete'
  <2>1. Wakes(c)
    BY <1>3, RequestWakes
  <2>2. NoLateDelete /\ \A e \in Epochs : thr'[e].pc = thr[e].pc
    BY <1>0, <2>1 DEF Wakes
  <2>3. ASSUME req'[c].pc = "discardDelete" PROVE FALSE
    <3>1. Discard(c)
      BY <1>3, <2>2, <2>3, RequestMoves DEF RequestStep, Entered, Goes, Left
    <3>2. Calm(cur)
      BY <3>1 DEF Discard, CanDiscard, Calm
    <3> QED BY <2>1, <3>2, Alone DEF Wakes
  <2>4. \A b \in Callers : b # c => req'[b] = req[b]
    BY <1>3, RequestSteps DEF Asks
  <2> QED BY <2>2, <2>3, <2>4
<1>4. CASE CancelAndWait \/ DrainReturns \/ UNCHANGED vars
  BY <1>0, <1>4, ProcessMoves DEF Cancels, vars
<1>5. CASE Crash \/ Recover \/ Reconcile
  BY <1>5, ProcessMoves, NobodyYet, RecoverTurns, ReconcileTurns
     DEF Driving, Launching, Executing, Tearing
<1> QED
  BY <1>1, <1>2, <1>3, <1>4, <1>5 DEF Next

(* While a goroutine drives, only it and Decide write to the store. *)
LEMMA DrivenWrites ==
  ASSUME IInv, RecordInv, CalmSaves, CalmDeletes, NEW d \in Epochs, thr[d].pc \in Driving
  PROVE  /\ \A e \in Epochs : e # d /\ ThreadStep(e) => UNCHANGED <<ptr, rec>>
         /\ ThreadStep(d) =>
              \/ UNCHANGED <<ptr, rec>>
              \/ rec' = thr[d].snap /\ thr[d].snap \in Runs /\ thr[d].snap.id = cur.id
                 /\ thr[d].pc \in Saving
         /\ \A c \in Callers : Decide(c) \/ Discard(c) \/ Stop(c) \/ RequestStep(c) =>
              \/ UNCHANGED <<ptr, rec>>
              \/ req[c].pc = "decideSave" /\ rec' = req[c].snap /\ req[c].snap \in Runs
<1>1. NoLateSave /\ NoLateDelete
  BY DEF CalmSaves, CalmDeletes, SomeDriver
<1>2. \A e \in Epochs : e # d => thr[e].pc \notin Driving
  BY Alone
<1>3. ASSUME NEW e \in Epochs, e # d, ThreadStep(e) PROVE UNCHANGED <<ptr, rec>>
  BY <1>1, <1>2, <1>3, ThreadWrites DEF NoLateSave, NoLateDelete, Saving, Driving, Launching, Executing
<1>4. ASSUME ThreadStep(d)
      PROVE  \/ UNCHANGED <<ptr, rec>>
             \/ rec' = thr[d].snap /\ thr[d].snap \in Runs /\ thr[d].snap.id = cur.id
                /\ thr[d].pc \in Saving
  BY <1>1, <1>4, ThreadWrites, NoRunAssumption DEF NoLateDelete, RecordInv, DriveOK
<1>5. ASSUME NEW c \in Callers, Decide(c) \/ Discard(c) \/ Stop(c) \/ RequestStep(c)
      PROVE  \/ UNCHANGED <<ptr, rec>>
             \/ req[c].pc = "decideSave" /\ rec' = req[c].snap /\ req[c].snap \in Runs
  BY <1>1, <1>5, RequestWrites DEF NoLateSave, NoLateDelete
<1> QED
  BY <1>3, <1>4, <1>5

LEMMA PersistKept ==
  ASSUME IInv, RecordInv, CalmSaves, CalmDeletes, DecideOK, PersistOK, [Next]_vars
  PROVE  PersistOK'
<1> SUFFICES ASSUME ~volatile', NEW d \in Epochs, thr'[d].pc \in Driving \ Launching
             PROVE  rec' # NoRun /\ rec'.id = cur'.id
  BY DEF PersistOK
<1>0. thr[d].pc \in Driving \ Launching /\ ~volatile => rec # NoRun /\ rec.id = cur.id
  BY DEF PersistOK
<1>1. CASE Start \/ Retry \/ Reset
  <2>1. (\A e \in Epochs : thr[e].pc \notin Driving) /\ \E pc \in Launching : \E p : Born(pc, p)
    BY <1>1, LaunchingSteps, Alone, LaunchMoves DEF Launches, Launching
  <2> QED BY <2>1 DEF Born
<1>2. ASSUME NEW e \in Epochs, ThreadStep(e) PROVE rec' # NoRun /\ rec'.id = cur'.id
  <2>0. volatile' = volatile
    <3>1. ~Crash /\ ~Recover
      <4>1. thr[e].pc # "unborn"
        BY <1>2, StepKinds
           DEF Continues, Retires, Trails, Driving, Launching, Executing, Tearing, Spent
      <4>2. up' = "serving" /\ up = "serving"
        BY <1>2, <4>1, NobodyYet, StepKinds DEF Continues, Retires, Trails, OnlyThread
      <4> QED BY <4>2 DEF Crash, Recover
    <3> QED BY <3>1, VolatileSteps
  <2>1. CASE LaunchSaved(e)
    <3>1. /\ thr[e].pc \in Launching /\ thr[e].pc \in Driving /\ UNCHANGED cur
          /\ SaveSucceeds(thr[e].snap)
      BY <2>1 DEF LaunchSaved, memVars, Driving
    <3>2. thr[e].snap = cur /\ cur \in Runs
      BY <3>1, Driven DEF RecordInv, DriveOK
    <3>3. rec' = cur
      <4>1. ~volatile /\ SaveSucceeds(cur)
        BY <2>0, <3>1, <3>2
      <4> QED BY <3>2, <4>1, SaveWrites
    <3> QED BY <3>1, <3>2, <3>3, NoRunAssumption
  <2>2. CASE Continues(e) /\ ~LaunchSaved(e)
    <3>1. d = e /\ thr[d].pc \in Driving /\ cur'.id = cur.id
      BY <2>2, Alone DEF Continues, OnlyThread
    <3>2. thr[d].pc \notin Launching
      <4>1. \/ Park(e) \/ ParkSaved(e) \/ Resume(e) \/ RunStep(e) \/ StepSaved(e)
            \/ MergeSaved(e) \/ Install(e) \/ CreateWorkload(e) \/ StepSucceeds(e)
            \/ WorkloadAbsent(e) \/ Uninstall(e)
        BY <1>2, <2>2, StepKinds
           DEF Continues, Retires, Trails, Driving, Spent, Launching, Executing, Tearing
      <4> QED BY <3>1, <4>1 DEF Launching, Park, ParkSaved, Resume, RunStep, StepSaved,
         MergeSaved, CheckpointSaved, Install, CreateWorkload, StepSucceeds, WorkloadAbsent,
         Uninstall, Drives
    <3> QED BY <1>0, <1>2, <2>0, <3>1, <3>2, DrivenWrites, NoRunAssumption
  <2>3. CASE Trails(e)
    <3>1. d # e /\ thr[d] = thr'[d] /\ UNCHANGED cur
      BY <2>3 DEF Trails, OnlyThread, Driving, Launching, Executing, Tearing, Spent
    <3> QED BY <1>0, <1>2, <2>0, <3>1, DrivenWrites
  <2> QED BY <1>2, <2>1, <2>2, <2>3, StepKinds
<1>3. ASSUME NEW c \in Callers, Decide(c) \/ Discard(c) \/ Stop(c) \/ RequestStep(c)
      PROVE  rec' # NoRun /\ rec'.id = cur'.id
  <2>1. thr[d].pc \in Driving \ Launching /\ Asks(c)
    BY <1>3, RequestWakes, RequestSteps DEF Wakes
  <2>2. Live(cur) /\ cur'.id = cur.id
    BY <2>1, Driven DEF Asks, Calm
  <2>3. volatile' = volatile
    BY <2>1, VolatileSteps DEF Asks, Crash, Recover
  <2>4. req[c].pc = "decideSave" => req[c].snap.id = cur.id
    BY DEF DecideOK, AnswerOK, Deciding
  <2> QED BY <1>0, <1>3, <2>1, <2>2, <2>3, <2>4, DrivenWrites, NoRunAssumption
<1>4. CASE CancelAndWait \/ DrainReturns \/ UNCHANGED vars
  <2>1. /\ UNCHANGED <<rec, cur, volatile>> /\ \A e \in Epochs : thr'[e].pc = thr[e].pc
    BY <1>4, ProcessMoves DEF Cancels, vars
  <2> QED BY <1>0, <2>1
<1>5. CASE Crash \/ Recover \/ Reconcile
  BY <1>5, ProcessMoves, NobodyYet, RecoverTurns, ReconcileTurns
     DEF Driving, Launching, Executing, Tearing
<1> QED
  BY <1>1, <1>2, <1>3, <1>4, <1>5 DEF Next

(* The part of the invariant that holds for patient clients, whatever fails. *)
PatientInv == IInv /\ RecordInv /\ CalmSaves /\ CalmDeletes /\ DecideOK /\ PersistOK

LEMMA InitPatient == Init => PatientInv
<1> SUFFICES ASSUME Init PROVE PatientInv
  OBVIOUS
<1>1. /\ \A e \in Epochs : thr[e].pc = "unborn" /\ ~thr[e].token /\ ~thr[e].canceled
      /\ \A c \in Callers : req[c].pc = "idle"
  BY DEF Init, Booted, Unborn, NoRequest
<1>2. CalmSaves /\ CalmDeletes /\ DecideOK /\ PersistOK
  BY <1>1 DEF CalmSaves, CalmDeletes, SomeDriver, DecideOK, ParkOK, AnswerOK, Deciding,
     PersistOK, Driving, Launching, Executing, Tearing
<1> QED
  BY <1>2, InitIInv, InitRecordInv DEF PatientInv

LEMMA NextPatient ==
  ASSUME Clients = "patient" PROVE PatientInv /\ [Next]_vars => PatientInv'
BY NextIInv, NextRecordInv, CalmSavesKept, CalmDeletesKept, DecideKept, PersistKept DEF PatientInv

(* A live run has a record for a restart to recover, from the moment its goroutine
   is launched, whatever fails, if nobody acts while the Delete that ends a reset
   or a discard is under way. *)
THEOREM LiveRunHasRecordHolds ==
  ASSUME Clients = "patient" PROVE Spec => []LiveRunHasRecord
<1>1. PatientInv => LiveRunHasRecord
  BY DEF PatientInv, IInv, Core, OneDriver, PersistOK, LiveRunHasRecord
<1> QED
  BY <1>1, InitPatient, NextPatient, PTL DEF Spec

(***************************************************************************)
(* A half-removed installation.                                            *)
(***************************************************************************)
HalfInv == PatientInv /\ VolatileOK /\ FirstOK /\ HalfOK

(* Goroutines run only while the process serves. *)
LEMMA ThreadServes ==
  ASSUME IInv, NEW e \in Epochs, ThreadStep(e)
  PROVE  up = "serving" /\ up' = "serving" /\ UNCHANGED <<volatile, crashes>>
<1>1. thr[e].pc # "unborn"
  BY StepKinds DEF Continues, Retires, Trails, Driving, Launching, Executing, Tearing, Spent
<1>2. up' = "serving" /\ up = "serving"
  BY <1>1, NobodyYet, StepKinds DEF Continues, Retires, Trails, OnlyThread
<1>3. ~Crash /\ ~Recover
  BY <1>2 DEF Crash, Recover
<1> QED
  BY <1>2, <1>3, VolatileSteps DEF Next

(* A process that is down does nothing. *)
LEMMA DownSteps ==
  ASSUME IInv, [Next]_vars, ~Crash, up' = "down"
  PROVE  up = "down" /\ UNCHANGED <<ptr, rec>>
<1>1. ~Start /\ ~Retry /\ ~Reset /\ ~CancelAndWait /\ ~Recover /\ ~Reconcile
  BY DEF Start, Retry, Reset, CanStart, CanRetry, CanReset, Serving, CancelAndWait, Recover,
     Reconcile
<1>2. \A e \in Epochs : ~ThreadStep(e)
  BY ThreadServes
<1>3. ASSUME NEW c \in Callers, Decide(c) \/ Discard(c) \/ Stop(c) \/ RequestStep(c)
      PROVE  FALSE
  BY <1>3, RequestSteps DEF Asks
<1>4. DrainReturns \/ UNCHANGED vars => up = "down" /\ UNCHANGED <<ptr, rec>>
  BY DEF DrainReturns, vars
<1> QED
  BY <1>1, <1>2, <1>3, <1>4 DEF Next

LEMMA FirstKept ==
  ASSUME IInv, SlotsOK, FirstOK, "load" \notin Faults, MaxCrashes <= 1, [Next]_vars
  PROVE  FirstOK'
<1>0. crashes \in 0 .. MaxCrashes /\ MaxCrashes \in Nat
  BY BoundAssumption DEF IInv, WorldOK
<1>1. CASE Crash
  BY <1>0, <1>1, ProcessMoves DEF Crash, FirstOK
<1>2. CASE Recover
  <2>1. up' # "down" /\ UNCHANGED <<crashes, ptr>>
    BY <1>2 DEF Recover, histVars
  <2>2. volatile' => volatile \/ crashes = MaxCrashes
    <3>1. UNCHANGED volatile \/ ptr # NoID
      BY <1>2 DEF Recover, Store!Dangling
    <3>2. ptr # NoID => crashes # 0
      BY <1>2 DEF Recover, FirstOK
    <3>3. crashes # 0 => crashes = MaxCrashes
      BY <1>0
    <3> QED BY <3>1, <3>2, <3>3
  <2> QED BY <2>1, <2>2 DEF FirstOK
<1>3. CASE ~Crash /\ ~Recover
  <2>1. UNCHANGED <<volatile, crashes>>
    BY <1>3, VolatileSteps
  <2>2. up' = "down" => up = "down" /\ UNCHANGED ptr
    BY <1>3, DownSteps
  <2> QED BY <2>1, <2>2 DEF FirstOK
<1> QED
  BY <1>1, <1>2, <1>3

LEMMA TornKept ==
  ASSUME HalfInv, [Next]_vars, ~volatile', NEW d \in Epochs, thr'[d].pc \in Tearing
  PROVE  rec' # NoRun /\ Guards(rec', cur'.id)
<1> USE DEF HalfInv, PatientInv
<1>0. thr'[d].pc \in Driving
  BY DEF Driving
<1>1. ~Start /\ ~Retry /\ ~Reset
  <2>1. ASSUME Start \/ Retry \/ Reset PROVE FALSE
    <3>1. (\A e \in Epochs : thr[e].pc \notin Driving) /\ \E pc \in Launching : \E p : Born(pc, p)
      BY <2>1, LaunchingSteps, Alone, LaunchMoves DEF Launches, Launching
    <3> QED BY <1>0, <3>1 DEF Born, Launching, Tearing
  <2> QED BY <2>1
<1>2. ASSUME NEW e \in Epochs, ThreadStep(e) PROVE rec' # NoRun /\ Guards(rec', cur'.id)
  <2>0. volatile' = volatile
    BY <1>2, ThreadServes
  <2>1. CASE Continues(e)
    <3>1. d = e /\ thr[e].pc \in Driving
      BY <1>0, <2>1, Alone DEF Continues, OnlyThread
    <3>2. LaunchSaved(e) \/ WorkloadAbsent(e) \/ Uninstall(e)
      BY <1>2, <2>1, <3>1, StepKinds, ThreadMoves
         DEF Moves, Continues, Retires, Trails, Driving, Launching, Executing, Tearing, Spent
    <3>3. CASE LaunchSaved(e)
      <4>1. /\ thr[e].pc = "launchReset" /\ UNCHANGED cur /\ SaveSucceeds(thr[e].snap)
        <5>1. UNCHANGED cur /\ SaveSucceeds(thr[e].snap)
          BY <3>3 DEF LaunchSaved, memVars
        <5>2. thr[e].pc # "launchReset" => thr'[e].pc = "loop"
          BY <3>3, ThreadMoves DEF Moves
        <5> QED BY <3>1, <5>1, <5>2 DEF Tearing
      <4>2. thr[e].snap = cur /\ cur \in Runs /\ cur.state = "resetting"
        BY <3>1, <4>1, Driven DEF RecordInv, DriveOK, Launching
      <4>3. ~volatile /\ SaveSucceeds(cur)
        BY <2>0, <4>1, <4>2
      <4>4. rec' = cur
        BY <4>2, <4>3, SaveWrites
      <4> QED BY <4>1, <4>2, <4>4, NoRunAssumption DEF Guards
    <3>4. CASE WorkloadAbsent(e) \/ Uninstall(e)
      <4>1. UNCHANGED <<rec, cur>> /\ thr[e].pc \in Tearing
        BY <3>4 DEF WorkloadAbsent, Uninstall, memVars, Drives, Tearing
      <4> QED BY <2>0, <4>1 DEF HalfOK
    <3> QED BY <3>2, <3>3, <3>4
  <2>2. CASE Trails(e)
    <3>1. d # e /\ thr[d] = thr'[d] /\ UNCHANGED cur
      BY <1>0, <2>2 DEF Trails, OnlyThread, Driving, Launching, Executing, Tearing, Spent
    <3>2. UNCHANGED rec
      BY <1>0, <1>2, <3>1, DrivenWrites
    <3> QED BY <2>0, <3>1, <3>2 DEF HalfOK
  <2> QED BY <1>0, <1>2, <2>1, <2>2, StepKinds
<1>3. ASSUME NEW c \in Callers, Decide(c) \/ Discard(c) \/ Stop(c) \/ RequestStep(c)
      PROVE  rec' # NoRun /\ Guards(rec', cur'.id)
  <2>1. thr[d].pc \in Tearing /\ thr[d].pc \in Driving /\ Asks(c)
    BY <1>0, <1>3, RequestWakes, RequestSteps DEF Wakes
  <2>2. Live(cur) /\ cur'.id = cur.id /\ d = epoch
    BY <2>1, Driven DEF Asks, Calm
  <2>3. volatile' = volatile
    BY <2>1, VolatileSteps DEF Asks, Crash, Recover
  <2>4. req[c].pc # "decideSave"
    BY <2>1, <2>2 DEF DecideOK, AnswerOK, Deciding, Tearing
  <2>5. UNCHANGED rec
    BY <1>3, <2>1, <2>4, DrivenWrites
  <2> QED BY <2>1, <2>2, <2>3, <2>5 DEF HalfOK
<1>4. CASE CancelAndWait \/ DrainReturns \/ UNCHANGED vars
  <2>1. /\ UNCHANGED <<rec, cur, volatile>> /\ thr'[d].pc = thr[d].pc
    BY <1>4, ProcessMoves DEF Cancels, vars
  <2> QED BY <2>1 DEF HalfOK
<1>5. ~Crash /\ ~Recover /\ ~Reconcile
  BY ProcessMoves, NobodyYet, RecoverTurns, ReconcileTurns DEF Tearing
<1> QED
  BY <1>1, <1>2, <1>3, <1>4, <1>5 DEF Next

(* What must hold of the run in memory, and of what is in flight, for half a
   removal to stay remembered. *)
Minded(i) ==
  /\ cur # NoRun /\ Guards(cur, i)
  /\ NoLateDelete /\ \A e \in Epochs : thr[e].pc # "resetSave"
  /\ \A c \in Callers : ~Deciding(c)

LEMMA HalfThread ==
  ASSUME HalfInv, "reset" \notin Faults, NEW e \in Epochs, ThreadStep(e),
         NEW i \in RunIDs, rel[i] = "half", rel'[i] = "half"
  PROVE  Minded(i)'
<1> USE DEF HalfInv, PatientInv
<1>0. /\ UNCHANGED req /\ \A f \in Epochs : f # e => thr'[f] = thr[f]
      /\ up = "serving"
  BY StepKinds, ThreadServes DEF Continues, Retires, Trails, OnlyThread
<1>1. Remembered(i) /\ cur # NoRun /\ Guards(cur, i)
  BY <1>0 DEF HalfOK, Remembered
<1>2. \A c \in Callers : ~Deciding(c)'
  BY <1>0, <1>1 DEF Remembered, Deciding
<1>3. ASSUME cur' # NoRun, Guards(cur', i), thr'[e].pc \notin {"delete", "resetSave"}
      PROVE  Minded(i)'
  BY <1>0, <1>1, <1>2, <1>3 DEF Minded, Remembered, NoLateDelete
<1>4. CASE thr[e].pc \in Driving
  <2>1. thr[e].pc \in {"launchReset"} \cup Tearing
    BY <1>1, <1>4 DEF RecordInv, DriveOK, Guards, Driving, Launching
  <2>2. \/ LaunchSaved(e) \/ ResetFailed(e) \/ WorkloadAbsent(e) \/ Uninstall(e)
        \/ WorkloadStuck(e) \/ ReleasesKept(e) \/ ReleasesRemoved(e)
    BY <2>1 DEF ThreadStep, StartFailed, RetryFailed, LaunchFailed, Complete, Park, ParkSaved,
       Resume, ParkCanceled, RunStep, StepSaved, MergeSaved, CheckpointSaved, Install,
       CreateWorkload, StepSucceeds, StepFails, ProveCleaned, ProveUncleaned, FinishSaved,
       ResetSaved, ResetDelete, ResetClear, Drives, Tearing
  <2>3. CASE LaunchSaved(e) \/ WorkloadAbsent(e) \/ Uninstall(e)
    <3>1. UNCHANGED cur /\ thr'[e].pc \notin {"delete", "resetSave"}
      BY <2>3, ThreadMoves DEF LaunchSaved, WorkloadAbsent, Uninstall, memVars, Moves
    <3> QED BY <1>1, <1>3, <3>1
  <2>4. CASE ResetFailed(e)
    BY <2>4 DEF ResetFailed, LaunchFailed, SaveFails
  <2>5. CASE WorkloadStuck(e) \/ ReleasesKept(e)
    <3>1. Turns(cur, cur', "failed", TRUE) /\ thr'[e].pc = "finishSave"
      BY <2>5, ThreadTurns, ThreadMoves DEF Moves
    <3> QED BY <1>1, <1>3, <3>1, NoRunAssumption DEF Turns, Guards
  <2>6. CASE ReleasesRemoved(e)
    <3>1. rel' = [rel EXCEPT ![i] = "none"]
      BY <1>1, <2>6 DEF ReleasesRemoved, Guards
    <3> QED BY <3>1 DEF IInv, WorldOK
  <2> QED BY <2>2, <2>3, <2>4, <2>5, <2>6
<1>5. CASE thr[e].pc \notin Driving
  <2>1. UNCHANGED cur /\ (FinishSaved(e) \/ ResetSaved(e) \/ ResetDelete(e) \/ ResetClear(e))
    BY <1>5, StepKinds DEF Continues, Retires, Trails
  <2>2. thr[e].pc \notin {"delete", "resetSave"}
    BY <1>1 DEF Remembered, NoLateDelete
  <2>3. thr'[e].pc = "over"
    BY <2>1, <2>2, ThreadMoves DEF Moves, ResetSaved, ResetDelete
  <2> QED BY <1>1, <1>3, <2>1, <2>3
<1> QED
  BY <1>4, <1>5

LEMMA HalfRequest ==
  ASSUME HalfInv, Clients = "patient", NEW c \in Callers,
         Decide(c) \/ Discard(c) \/ Stop(c) \/ RequestStep(c),
         NEW i \in RunIDs, rel[i] = "half"
  PROVE  Minded(i)'
<1> USE DEF HalfInv, PatientInv
<1>0. /\ Wakes(c) /\ \A d \in Callers : d # c => req'[d] = req[d]
      /\ up = "serving"
  BY RequestWakes, RequestSteps DEF Asks
<1>1. Remembered(i) /\ cur # NoRun /\ Guards(cur, i) /\ ~Deciding(c)
  BY <1>0 DEF HalfOK, Remembered
<1>2. ~Decide(c)
  <2>1. ASSUME Decide(c) PROVE FALSE
    <3>1. PICK e \in Epochs : thr[e].pc \in Executing
      BY <2>1 DEF Decide, Drives, Executing
    <3> QED BY <1>1, <3>1 DEF RecordInv, DriveOK, Guards
  <2> QED BY <2>1
<1>3. ~Discard(c)
  BY <1>1 DEF Discard, CanDiscard, Guards, Live, IncompleteTeardown
<1>4. \/ Stop(c) \/ StopAbsent(c) \/ StopFailed(c) \/ StopMark(c) \/ StopFinish(c)
      \/ StopSaved(c) \/ StopClear(c)
  BY <1>1, <1>2, <1>3 DEF RequestStep, DecideSaved, DecideFailed, DecideResume, DiscardDeleted,
     DiscardFailed, Deciding, Remembered, NoLateDelete
<1>5. req'[c].pc \notin {"decideSave", "decideResume", "discardDelete"}
  BY <1>4, RequestMoves DEF Entered, Goes, Left
<1>6. cur' # NoRun /\ Guards(cur', i)
  <2>1. CASE UNCHANGED cur
    BY <1>1, <2>1
  <2>2. CASE StopMark(c) /\ ~UNCHANGED cur
    BY <1>1, <2>2, RequestTurns, NoRunAssumption DEF Marks, Guards
  <2>3. CASE StopFinish(c) /\ ~UNCHANGED cur
    <3>1. Turns(cur, cur', "done", cur.residue) /\ Settling(c)
      BY <2>3, RequestTurns DEF StopFinish, Settling
    <3>2. cur.residue
      BY <1>1, <3>1 DEF RecordInv, SettleOK, Live, Guards
    <3> QED BY <1>1, <3>1, <3>2, NoRunAssumption DEF Turns, Guards
  <2>4. CASE Stop(c) \/ StopAbsent(c) \/ StopFailed(c) \/ StopSaved(c) \/ StopClear(c)
    BY <2>1, <2>4 DEF Stop, StopAbsent, StopFailed, StopSaved, StopClear, memVars
  <2> QED BY <1>4, <2>1, <2>2, <2>3, <2>4
<1>7. NoLateDelete' /\ \A e \in Epochs : thr'[e].pc # "resetSave"
  BY <1>0, <1>1, <1>5 DEF Wakes, Remembered, NoLateDelete
<1>8. \A d \in Callers : ~Deciding(d)'
  BY <1>0, <1>1, <1>5 DEF Remembered, Deciding
<1> QED
  BY <1>6, <1>7, <1>8 DEF Minded

(* Only the uninstalling goroutine leaves half an installation behind. *)
LEMMA HalfSteps ==
  ASSUME IInv, [Next]_vars, NEW i \in RunIDs, rel'[i] = "half"
  PROVE  rel[i] = "half" \/ \E e \in Epochs : Uninstall(e) /\ cur.id = i
<1>0. rel \in [RunIDs -> {"none", "present", "half"}]
  BY DEF IInv, WorldOK
<1>1. \/ Start \/ Retry \/ Reset \/ CancelAndWait \/ DrainReturns \/ Crash \/ Recover
      \/ Reconcile \/ UNCHANGED vars
      \/ \E c \in Callers : Decide(c) \/ Discard(c) \/ Stop(c) \/ RequestStep(c)
      \/ \E e \in Epochs : ThreadStep(e)
  BY DEF Next
<1>2. CASE \/ Start \/ Retry \/ Reset \/ CancelAndWait \/ DrainReturns \/ Crash \/ Recover
           \/ Reconcile \/ UNCHANGED vars
  BY <1>2 DEF Start, Retry, Reset, CancelAndWait, DrainReturns, Crash, Recover, Reconcile,
     worldVars, vars
<1>3. CASE \E c \in Callers : Decide(c) \/ Discard(c) \/ Stop(c) \/ RequestStep(c)
  BY <1>3 DEF Decide, Discard, Stop, RequestStep, DecideSaved, DecideFailed, DecideResume,
     DiscardDeleted, DiscardFailed, StopAbsent, StopFailed, StopMark, StopFinish, StopSaved,
     StopClear, worldVars
<1>4. ASSUME NEW e \in Epochs, ThreadStep(e)
      PROVE  rel[i] = "half" \/ (Uninstall(e) /\ cur.id = i)
  <2>1. CASE \/ LaunchSaved(e) \/ StartFailed(e) \/ RetryFailed(e) \/ ResetFailed(e)
             \/ ParkSaved(e) \/ StepSaved(e) \/ MergeSaved(e) \/ FinishSaved(e)
             \/ ResetSaved(e) \/ ResetDelete(e) \/ ResetClear(e)
             \/ Complete(e) \/ Park(e) \/ Resume(e) \/ ParkCanceled(e)
    BY <2>1 DEF LaunchSaved, StartFailed, RetryFailed, ResetFailed, LaunchFailed,
       ParkSaved, StepSaved, MergeSaved, CheckpointSaved, FinishSaved, ResetSaved,
       ResetDelete, ResetClear, Complete, Park, Resume, ParkCanceled, worldVars
  <2>2. CASE \/ RunStep(e) \/ CreateWorkload(e) \/ StepSucceeds(e)
             \/ StepFails(e) \/ ProveCleaned(e) \/ ProveUncleaned(e)
             \/ WorkloadAbsent(e) \/ WorkloadStuck(e)
    BY <2>2 DEF RunStep, CreateWorkload, StepSucceeds, StepFails, ProveCleaned,
       ProveUncleaned, FailStep, WorkloadAbsent, WorkloadStuck, worldVars
  <2>3. CASE Install(e) \/ ReleasesRemoved(e) \/ ReleasesKept(e)
    BY <1>0, <2>3 DEF Install, ReleasesRemoved, ReleasesKept
  <2>4. CASE Uninstall(e)
    BY <1>0, <2>4 DEF Uninstall
  <2> QED BY <1>4, <2>1, <2>2, <2>3, <2>4 DEF ThreadStep
<1> QED
  BY <1>1, <1>2, <1>3, <1>4

(* When the first release goes, the record on disk says so, and nothing is in
   flight that could write another one. *)
LEMMA HalfBegins ==
  ASSUME HalfInv, NEW e \in Epochs, Uninstall(e)
  PROVE  Remembered(cur.id)'
<1> USE DEF HalfInv, PatientInv
<1>1. /\ thr[e].pc = "releases" /\ thr[e].pc \in Driving /\ thr[e].pc \in Tearing
      /\ UNCHANGED <<ptr, rec, cur, volatile, req>>
  BY DEF Uninstall, Drives, Driving, Tearing, memVars
<1>2. /\ cur # NoRun /\ cur.state = "resetting" /\ e = epoch
      /\ \A f \in Epochs : f # e => thr[f].pc \notin Driving
  BY <1>1, Driven, Alone DEF RecordInv, DriveOK
<1>3. NoLateSave /\ NoLateDelete
  BY <1>1 DEF CalmSaves, CalmDeletes, SomeDriver
<1>4. \A c \in Callers : ~Deciding(c)
  BY <1>1, <1>2 DEF DecideOK, AnswerOK
<1>5. \A f \in Epochs : thr'[f].pc = thr[f].pc /\ thr'[f].snap = thr[f].snap
  <2>1. Moves(e, "releases", thr[e].snap, thr[e].undo)
    BY ThreadMoves
  <2> QED BY <1>1, <2>1 DEF Moves
<1>6. \A f \in Epochs : thr[f].snap = NoRun
  BY <1>1, <1>2, <1>3
     DEF RecordInv, SlotsOK, Saving, NoLateSave, Driving, Launching, Executing
<1>7. \A c \in Callers : req[c].snap = NoRun
  BY <1>3, <1>4 DEF RecordInv, SlotsOK, NoLateSave, Deciding
<1>8. \A r \in Snapshots' : r = NoRun
  BY <1>1, <1>5, <1>6, <1>7 DEF Snapshots
<1>9. ~volatile' => rec' # NoRun /\ Guards(rec', cur'.id)
  BY <1>1 DEF HalfOK
<1>10. cur' # NoRun /\ Guards(cur', cur'.id)
  BY <1>1, <1>2 DEF Guards
<1>11. NoLateDelete' /\ (\A f \in Epochs : thr'[f].pc # "resetSave")
       /\ \A c \in Callers : ~Deciding(c)'
  BY <1>1, <1>3, <1>4, <1>5 DEF NoLateSave, NoLateDelete, Deciding
<1> QED
  BY <1>8, <1>9, <1>10, <1>11 DEF Remembered

(* Nothing erases the record that remembers it, and what is written remembers
   it too. *)
LEMMA HalfRecorded ==
  ASSUME HalfInv, [Next]_vars, ~Crash, NEW i \in RunIDs, rel[i] = "half",
         Minded(i)'
  PROVE  Remembered(i)'
<1> USE DEF HalfInv, PatientInv
<1>1. Remembered(i)
  BY DEF HalfOK
<1>2. \A r \in Snapshots' : r # NoRun => Guards(r, i)
  <2>1. Snapshots' \subseteq Snapshots \cup {cur', NoRun}
    BY NextFlows, FlowsHeld
  <2> QED BY <1>1, <2>1 DEF Remembered, Minded
<1>3. ASSUME ~volatile' PROVE rec' # NoRun /\ Guards(rec', i)
  <2>1. ~volatile
    <3>1. Recover => ~volatile
      BY DEF Recover, VolatileOK
    <3> QED BY <1>3, <3>1, VolatileSteps
  <2>2. rec # NoRun /\ Guards(rec, i)
    BY <1>1, <2>1 DEF Remembered
  <2>3. rec' \in {rec, NoRun, cur'} \cup Snapshots
    BY NextFlows DEF Flows
  <2>4. rec' # NoRun
    <3>1. ASSUME NEW e \in Epochs, ThreadStep(e) PROVE rec' # NoRun
      BY <1>1, <2>2, <3>1, ThreadWrites, NoRunAssumption DEF Remembered, NoLateDelete
    <3>2. ASSUME NEW c \in Callers, Decide(c) \/ Discard(c) \/ Stop(c) \/ RequestStep(c)
          PROVE  rec' # NoRun
      BY <1>1, <2>2, <3>2, RequestWrites, NoRunAssumption DEF Remembered, NoLateDelete
    <3>3. Start \/ Retry \/ Reset \/ CancelAndWait \/ DrainReturns \/ Recover \/ UNCHANGED vars
            => rec' = rec
      BY DEF Start, Retry, Reset, CancelAndWait, DrainReturns, Recover, vars
    <3>4. Reconcile => rec' \in {rec, cur'}
      BY ReconcileTurns DEF Writes
    <3> QED BY <2>2, <3>1, <3>2, <3>3, <3>4 DEF Next, Minded
  <2> QED BY <1>1, <2>2, <2>3, <2>4 DEF Remembered, Minded
<1> QED
  BY <1>2, <1>3 DEF Remembered, Minded

(* Once the process has come up again. *)
LEMMA HalfRecovered ==
  ASSUME HalfInv, "load" \notin Faults, Recover \/ Reconcile, NEW i \in RunIDs, rel[i] = "half"
  PROVE  Minded(i)'
<1> USE DEF HalfInv, PatientInv
<1>1. Remembered(i)
  BY DEF HalfOK
<1>2. /\ \A e \in Epochs : thr'[e].pc = "unborn"
      /\ \A c \in Callers : req'[c].pc = "idle"
  BY NobodyYet, RecoverTurns, ReconcileTurns
<1>3. cur' # NoRun /\ Guards(cur', i)
  <2>1. CASE Recover
    <3>1. ~volatile /\ rec # NoRun /\ Guards(rec, i)
      BY <1>1, <2>1 DEF Recover, VolatileOK, Remembered
    <3>2. ptr # NoID /\ ~Store!Dangling
      BY <3>1 DEF RecordInv, SlotsOK, Store!Dangling
    <3>3. cur' = Recovered(rec)
      BY <2>1, <3>2 DEF Recover
    <3>4. Recovers(rec, cur')
      BY <3>1, <3>3, RecoveredRun DEF IInv, WorldOK
    <3> QED BY <3>1, <3>4, NoRunAssumption DEF Recovers, Guards, Live
  <2>2. CASE Reconcile
    <3>1. cur # NoRun /\ Guards(cur, i)
      BY <1>1, <2>2 DEF Reconcile, Remembered
    <3>2. UNCHANGED cur \/ (cur.state = "active" /\ Turns(cur, cur', "done", cur.residue))
      BY <2>2, <3>1, ReconcileTurns
    <3> QED BY <3>1, <3>2, NoRunAssumption DEF Turns, Guards
  <2> QED BY <2>1, <2>2
<1> QED
  BY <1>2, <1>3 DEF Minded, NoLateDelete, Deciding

LEMMA HalfLaunched ==
  ASSUME HalfInv, Start \/ Retry \/ Reset, NEW i \in RunIDs, rel[i] = "half"
  PROVE  Minded(i)'
<1> USE DEF HalfInv, PatientInv
<1>1. Remembered(i) /\ cur # NoRun /\ Guards(cur, i)
  BY LaunchingSteps DEF Launches, HalfOK, Remembered
<1>2. Reset /\ Calm(cur)
  BY <1>1, LaunchingSteps
     DEF Launches, Start, Retry, CanStart, CanRetry, Guards, Calm, Live, IncompleteTeardown
<1>3. Born("launchReset", NoRun) /\ Turns(cur, cur', "resetting", FALSE) /\ UNCHANGED req
  BY <1>2, LaunchMoves DEF Reset
<1> QED
  BY <1>1, <1>3, NoRunAssumption
     DEF Born, Turns, Minded, Guards, Remembered, NoLateDelete, Deciding

LEMMA HalfKept ==
  ASSUME HalfInv, Clients = "patient", "reset" \notin Faults, "load" \notin Faults, [Next]_vars
  PROVE  HalfOK'
<1> USE DEF HalfInv, PatientInv
<1> SUFFICES ASSUME NEW i \in RunIDs, rel'[i] = "half" PROVE Remembered(i)'
  BY TornKept DEF HalfOK
<1>1. CASE rel[i] # "half"
  BY <1>1, HalfSteps, HalfBegins DEF Uninstall, memVars
<1>2. CASE rel[i] = "half" /\ Crash
  <2>1. Remembered(i)
    BY <1>2 DEF HalfOK
  <2>2. crashes # MaxCrashes /\ ~volatile
    BY <1>2, BoundAssumption DEF Crash, FirstOK
  <2>3. UNCHANGED <<ptr, rec>> /\ up' = "down"
    BY <1>2, <2>1 DEF Crash, Remembered, storeVars
  <2>4. /\ \A e \in Epochs : thr'[e].pc = "unborn" /\ thr'[e].snap = NoRun
        /\ \A c \in Callers : req'[c].pc = "idle" /\ req'[c].snap = NoRun
    BY <1>2, ProcessMoves
  <2>5. Snapshots' \subseteq {NoRun}
    BY <2>4 DEF Snapshots
  <2> QED BY <2>1, <2>2, <2>3, <2>4, <2>5 DEF Remembered, NoLateDelete, Deciding
<1>3. CASE rel[i] = "half" /\ ~Crash
  <2>1. CASE Start \/ Retry \/ Reset \/ Recover \/ Reconcile
    BY <1>3, <2>1, HalfLaunched, HalfRecovered, HalfRecorded
  <2>2. CASE \E e \in Epochs : ThreadStep(e)
    BY <1>3, <2>2, HalfThread, HalfRecorded
  <2>3. CASE \E c \in Callers : Decide(c) \/ Discard(c) \/ Stop(c) \/ RequestStep(c)
    BY <1>3, <2>3, HalfRequest, HalfRecorded
  <2>4. CASE CancelAndWait \/ DrainReturns \/ UNCHANGED vars
    <3>1. /\ UNCHANGED <<rec, up, cur, volatile, req>>
          /\ \A e \in Epochs : thr'[e].pc = thr[e].pc /\ thr'[e].snap = thr[e].snap
      BY <2>4, ProcessMoves DEF Cancels, vars
    <3>2. Snapshots' = Snapshots
      BY <3>1 DEF Snapshots
    <3>3. Remembered(i)
      BY <1>3 DEF HalfOK
    <3> QED BY <3>1, <3>2, <3>3 DEF Remembered, NoLateDelete, Deciding
  <2> QED BY <1>3, <2>1, <2>2, <2>3, <2>4 DEF Next
<1> QED
  BY <1>1, <1>2, <1>3

(* Half a removal is never forgotten by a process that can read its store: the run
   it belongs to is current, and is being reset or refuses everything but a Reset.
   A process that has lost its store keeps it only in memory, and forgets it if it
   dies as well, so the theorem is about one crash. *)
THEOREM HalfRemovedIsGuardedHolds ==
  ASSUME Clients = "patient", "reset" \notin Faults, "load" \notin Faults, MaxCrashes <= 1
  PROVE  Spec => []HalfRemovedIsGuarded
<1>1. Init => HalfInv
  <2> SUFFICES ASSUME Init PROVE HalfInv
    OBVIOUS
  <2>1. /\ \A e \in Epochs : thr[e].pc = "unborn" /\ ~volatile /\ ptr = NoID
        /\ \A i \in RunIDs : rel[i] = "none"
    BY DEF Init, Booted, Unborn, Store!StoreInit
  <2>2. VolatileOK /\ FirstOK /\ HalfOK
    BY <2>1 DEF Init, Booted, Store!StoreInit, Unborn, VolatileOK, FirstOK, HalfOK, Tearing
  <2> QED BY <2>2, InitPatient DEF HalfInv
<1>2. HalfInv /\ [Next]_vars => HalfInv'
  BY NextPatient, VolatileKept, FirstKept, HalfKept DEF HalfInv, PatientInv, RecordInv
<1>3. HalfInv => HalfRemovedIsGuarded
  BY DEF HalfInv, HalfOK, Remembered, Guards, HalfRemovedIsGuarded, IncompleteTeardown
<1> QED
  BY <1>1, <1>2, <1>3, PTL DEF Spec
=============================================================================
