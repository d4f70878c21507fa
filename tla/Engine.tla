------------------------------- MODULE Engine -------------------------------
(***************************************************************************)
(* The run lifecycle of internal/engine: one current run, at most one      *)
(* goroutine driving it, and the operator calls that start, retry,         *)
(* discard, stop and reset it while that goroutine runs.                   *)
(*                                                                         *)
(* Steps are cut where the code lets go of Engine.mu: every section under  *)
(* the lock is one action, and so is every call made between two sections  *)
(* (a Save, a Delete, EnsureAbsent, a pipeline step's effect on the        *)
(* cluster).  Calls of other goroutines, failures and crashes fall between *)
(* any two of them.                                                        *)
(*                                                                         *)
(* A goroutine is identified by the epoch it was launched with: Start,     *)
(* Retry and Reset each bump Engine.epoch and launch at most one.  Decide, *)
(* Discard and Stop run on their callers' goroutines.                      *)
(***************************************************************************)
EXTENDS Naturals, FiniteSets

CONSTANTS
  RunIDs,      (* run identities                                           *)
  Callers,     (* HTTP requests that may be inside Decide, Discard or Stop *)
  NSteps,      (* steps of the pipeline; the last one is Prove             *)
  BundleStep,  (* index of the step whose output dies with the process     *)
  ApplyStep,   (* index of the step that installs into the cluster         *)
  Gates,       (* indices of the steps that require operator decisions     *)
  Faults,      (* which calls may fail, see FaultKinds                     *)
  Clients,     (* how soon operators act, see Prompt                       *)
  MaxEpoch,    (* bound: launches in one life of the process               *)
  MaxCrashes,  (* bound: crashes and exits in a behaviour                  *)
  NoID, NoRun

ProveStep == NSteps - 1
Steps     == 0 .. NSteps - 1
Epochs    == 1 .. MaxEpoch

(* Saves by caller, the store's other calls, and calls to the cluster. *)
FaultKinds == {"start", "retry", "reset", "decide", "checkpoint", "terminal",
               "delete", "load", "list", "absent", "uninstall", "step"}

ASSUME PipelineAssumption ==
  /\ NSteps \in Nat /\ BundleStep \in Nat /\ ApplyStep \in Nat
  /\ BundleStep < ApplyStep /\ ApplyStep < NSteps - 1
  /\ Gates \subseteq Steps
ASSUME BoundAssumption ==
  /\ MaxEpoch \in Nat /\ MaxCrashes \in Nat
  /\ Faults \subseteq FaultKinds
  /\ Clients \in {"polling", "events", "patient"}
ASSUME NullAssumption == NoID \notin RunIDs

(***************************************************************************)
(* Runs.  A decision gate is one bit: Decide accepts exactly the keys in   *)
(* Pending, so a step's decisions arrive all together.                     *)
(***************************************************************************)
States == {"running", "awaiting", "failed", "active", "done", "resetting"}

Runs == [id        : RunIDs,
         state     : States,
         idx       : 0 .. NSteps,     (* StepIndex                         *)
         decided   : SUBSET (0 .. NSteps),   (* gates with their Decisions *)
         cleanup   : BOOLEAN,         (* CleanupUnconfirmed                *)
         residue   : BOOLEAN,         (* Residue.Incomplete                *)
         installed : BOOLEAN,         (* len(Components) > 0               *)
         workload  : BOOLEAN]         (* Workload # (Workload{})           *)

ASSUME NoRunAssumption == NoRun \notin Runs

NewRun(id) == [id |-> id, state |-> "running", idx |-> 0, decided |-> {},
               cleanup |-> FALSE, residue |-> FALSE, installed |-> FALSE,
               workload |-> FALSE]

Live(r)               == r.state \in {"running", "awaiting", "resetting"}
Unconfirmed(r)        == r.state = "failed" /\ r.cleanup
IncompleteTeardown(r) == r.residue
(* Mutant of Stoppable: an unconfirmed cleanup has no remedy. *)
StoppableWhenServed(r) == r.state = "active" \/ (r.state = "done" /\ r.workload)

Stoppable(r) == \/ r.state = "active"
                \/ r.state = "done" /\ r.workload
                \/ Unconfirmed(r)

VARIABLES
  ptr, rec,     (* the run store on disk, see RunStore                     *)
  up,           (* "down", "recovered" (Recover has run) or "serving"      *)
  cur,          (* Engine.current                                          *)
  epoch,        (* Engine.epoch                                            *)
  recPending,   (* Engine.recoveredPending                                 *)
  draining,     (* Engine.draining                                         *)
  volatile,     (* Recover swapped the store for a memory one              *)
  thr,          (* thr[e]: the goroutine launched with epoch e             *)
  req,          (* req[c]: the Decide, Discard or Stop that c is inside    *)
  waitOn,       (* epoch CancelAndWait waits for, 0 for none               *)
  drained,      (* CancelAndWait has returned nil                          *)
  wl,           (* runs whose reference workload is in the cluster         *)
  rel,          (* rel[id]: releases of run id: "none", "present" (what Apply has
                   installed so far) or "half" (some of it removed)     *)
  bundled,      (* runs whose bundle directory this process has written    *)
  acked,        (* decisions Decide has acknowledged, <<run, step>>        *)
  used,         (* run IDs already drawn                                   *)
  crashes

storeVars == <<ptr, rec>>
memVars   == <<cur, epoch, recPending, draining, volatile>>
exitVars  == <<waitOn, drained>>
worldVars == <<wl, rel, bundled>>
histVars  == <<acked, used, crashes>>
vars == <<ptr, rec, up, cur, epoch, recPending, draining, volatile, thr, req,
          waitOn, drained, wl, rel, bundled, acked, used, crashes>>

Store == INSTANCE RunStore WITH Records <- Runs

(***************************************************************************)
(* Goroutines and requests.  `undo' and `rp' are the values a failed store *)
(* call restores.                                                          *)
(***************************************************************************)
Launching == {"launchStart", "launchRetry", "launchReset"}
Executing == {"loop", "parkSave", "parked", "stepSave", "step", "mergeSave"}
Tearing   == {"teardown", "releases"}
Driving   == Launching \cup Executing \cup Tearing
Spent     == {"finishSave", "resetSave", "delete", "clear", "over"}

Threads == [pc       : {"unborn"} \cup Driving \cup Spent,
            id       : RunIDs \cup {NoID},
            snap     : Runs \cup {NoRun},   (* the record it is saving     *)
            undo     : Runs \cup {NoRun},
            rp       : BOOLEAN,
            inst     : BOOLEAN,             (* scratch copy has Components *)
            made     : BOOLEAN,             (* Prove reached client.Apply  *)
            token    : BOOLEAN,             (* resume channel is full      *)
            canceled : BOOLEAN]             (* its context is canceled     *)

Unborn == [pc |-> "unborn", id |-> NoID, snap |-> NoRun, undo |-> NoRun,
           rp |-> FALSE, inst |-> FALSE, made |-> FALSE, token |-> FALSE,
           canceled |-> FALSE]

Requests == [pc    : {"idle", "decideSave", "decideResume", "discardDelete",
                      "stopAbsent", "stopMark", "stopFinish", "stopSave",
                      "stopClear"},
             id    : RunIDs \cup {NoID},
             epoch : 0 .. MaxEpoch,         (* captured under the lock     *)
             snap  : Runs \cup {NoRun},
             undo  : Runs \cup {NoRun},
             rp    : BOOLEAN]

NoRequest == [pc |-> "idle", id |-> NoID, epoch |-> 0, snap |-> NoRun,
              undo |-> NoRun, rp |-> FALSE]

TypeOK ==
  /\ ptr \in RunIDs \cup {NoID} /\ rec \in Runs \cup {NoRun}
  /\ up \in {"down", "recovered", "serving"}
  /\ cur \in Runs \cup {NoRun}
  /\ epoch \in 0 .. MaxEpoch
  /\ recPending \in BOOLEAN /\ draining \in BOOLEAN /\ volatile \in BOOLEAN
  /\ thr \in [Epochs -> Threads]
  /\ req \in [Callers -> Requests]
  /\ waitOn \in 0 .. MaxEpoch /\ drained \in BOOLEAN
  /\ wl \subseteq RunIDs
  /\ rel \in [RunIDs -> {"none", "present", "half"}]
  /\ bundled \subseteq RunIDs
  /\ acked \subseteq RunIDs \X (0 .. NSteps)
  /\ used \subseteq RunIDs
  /\ crashes \in 0 .. MaxCrashes

(* A process before Recover: everything it keeps in memory is fresh. *)
Booted ==
  /\ up = "down"
  /\ cur = NoRun /\ epoch = 0
  /\ recPending = FALSE /\ draining = FALSE /\ volatile = FALSE
  /\ thr = [e \in Epochs |-> Unborn]
  /\ req = [c \in Callers |-> NoRequest]
  /\ waitOn = 0 /\ drained = FALSE
  /\ bundled = {}

Init ==
  /\ Booted
  /\ Store!StoreInit
  /\ wl = {} /\ rel = [i \in RunIDs |-> "none"]
  /\ acked = {} /\ used = {} /\ crashes = 0

(***************************************************************************)
(* Saves.  A memory store cannot fail and does not touch the disk.         *)
(***************************************************************************)
SaveSucceeds(r) == IF volatile THEN UNCHANGED storeVars ELSE Store!SaveOK(r)

SaveFails(r, kind) == kind \in Faults /\ ~volatile /\ Store!SaveFailed(r)

(* Checkpoints whose error is only logged. *)
Checkpoint(r, kind) == SaveSucceeds(r) \/ SaveFails(r, kind)

DeleteSucceeds == IF volatile THEN UNCHANGED storeVars ELSE Store!DeleteOK
DeleteFails    == "delete" \in Faults /\ ~volatile /\ Store!DeleteFailed

(***************************************************************************)
(* Guards of the operator's calls.                                         *)
(***************************************************************************)
Serving == up = "serving" /\ ~draining

(* Mutant of CanStart: no guard for a cleanup that was not confirmed. *)
CanStartUnconfirmed ==
  /\ Serving /\ ~recPending
  /\ cur # NoRun => ~Live(cur) /\ cur.state # "active" /\ ~IncompleteTeardown(cur)

CanStart ==
  /\ Serving
  /\ ~recPending
  /\ cur # NoRun => /\ ~Live(cur)
                    /\ cur.state # "active"
                    /\ ~Unconfirmed(cur)
                    /\ ~IncompleteTeardown(cur)

(* Mutant of CanRetry: accepted while shutting down. *)
CanRetryDraining ==
  up = "serving" /\ cur # NoRun /\ cur.state = "failed" /\ ~IncompleteTeardown(cur)

CanRetry == /\ Serving
            /\ cur # NoRun
            /\ cur.state = "failed"
            /\ ~IncompleteTeardown(cur)

CanDiscard == /\ Serving
              /\ cur # NoRun
              /\ ~Live(cur)
              /\ cur.state # "active"
              /\ ~Unconfirmed(cur)
              /\ ~IncompleteTeardown(cur)

CanStop == Serving /\ cur # NoRun /\ Stoppable(cur)

CanReset == Serving /\ cur # NoRun /\ ~Live(cur) /\ cur.installed

(* How soon an operator's call can follow what it reacts to.  finish and
   awaitDecisions publish their event once their Save has returned, so a client
   of the event stream cannot act earlier; one that polls the API can.  A
   patient one also lets the Delete that follows a reset or a discard end. *)
NoLateSave   == /\ \A e \in Epochs : thr[e].pc \notin {"finishSave", "resetSave"}
                /\ \A c \in Callers : req[c].pc # "stopSave"
NoLateDelete == /\ \A e \in Epochs : thr[e].pc # "delete"
                /\ \A c \in Callers : req[c].pc # "discardDelete"

Prompt == /\ Clients # "polling" => NoLateSave
          /\ Clients = "patient" => NoLateDelete

(***************************************************************************)
(* Start, Retry, Reset: the section under the lock, then the Save, then    *)
(* the goroutine or the rollback.                                          *)
(***************************************************************************)
Launch(pc, r, previous) ==
  /\ epoch < MaxEpoch
  /\ epoch' = epoch + 1
  /\ cur' = r
  /\ thr' = [thr EXCEPT ![epoch + 1] =
               [Unborn EXCEPT !.pc = pc, !.id = r.id, !.snap = r,
                              !.undo = previous, !.rp = recPending]]

Start ==
  /\ CanStart /\ Prompt
  /\ \E id \in RunIDs \ used :
       /\ Launch("launchStart", NewRun(id), cur)
       /\ used' = used \cup {id}
  /\ UNCHANGED <<ptr, rec, up, recPending, draining, volatile, req, exitVars,
                 worldVars, acked, crashes>>

Retry ==
  /\ CanRetry /\ Prompt
  /\ Launch("launchRetry", [cur EXCEPT !.state = "running"], NoRun)
  /\ recPending' = FALSE
  /\ UNCHANGED <<ptr, rec, up, draining, volatile, req, exitVars, worldVars,
                 histVars>>

Reset ==
  /\ CanReset /\ Prompt
  /\ Launch("launchReset",
            [cur EXCEPT !.state = "resetting", !.residue = FALSE], NoRun)
  /\ UNCHANGED <<ptr, rec, up, recPending, draining, volatile, req, exitVars,
                 worldVars, histVars>>

Owns(e) == epoch = e /\ cur # NoRun /\ cur.id = thr[e].id

(* Mutant of LaunchSaved: the goroutine is launched whether or not the record
   could be written. *)
LaunchSavedOrNot(e) ==
  /\ thr[e].pc \in Launching
  /\ Checkpoint(thr[e].snap, "start")
  /\ thr' = [thr EXCEPT ![e].pc = IF @ = "launchReset" THEN "teardown" ELSE "loop",
                        ![e].snap = NoRun, ![e].undo = NoRun]
  /\ UNCHANGED <<up, memVars, req, exitVars, worldVars, histVars>>

LaunchSaved(e) ==
  /\ thr[e].pc \in Launching
  /\ SaveSucceeds(thr[e].snap)
  /\ thr' = [thr EXCEPT ![e].pc = IF @ = "launchReset" THEN "teardown" ELSE "loop",
                        ![e].snap = NoRun, ![e].undo = NoRun]
  /\ UNCHANGED <<up, memVars, req, exitVars, worldVars, histVars>>

(* Mutant of LaunchFailed: `done' is left open. *)
LaunchFailedOpen(e, pc, kind) ==
  /\ thr[e].pc = pc
  /\ SaveFails(thr[e].snap, kind)
  /\ thr' = [thr EXCEPT ![e] = Unborn]
  /\ UNCHANGED <<up, epoch, draining, volatile, req, exitVars, worldVars, histVars>>

(* The rollbacks: no goroutine was launched, so `done' is closed here. *)
LaunchFailed(e, pc, kind) ==
  /\ thr[e].pc = pc
  /\ SaveFails(thr[e].snap, kind)
  /\ thr' = [thr EXCEPT ![e].pc = "over", ![e].snap = NoRun, ![e].undo = NoRun]
  /\ UNCHANGED <<up, epoch, draining, volatile, req, exitVars, worldVars, histVars>>

StartFailed(e) ==
  /\ LaunchFailed(e, "launchStart", "start")
  /\ cur' = IF Owns(e) THEN thr[e].undo ELSE cur
  /\ UNCHANGED recPending

RetryFailed(e) ==
  /\ LaunchFailed(e, "launchRetry", "retry")
  /\ cur' = IF Owns(e) THEN [cur EXCEPT !.state = "failed"] ELSE cur
  /\ recPending' = IF Owns(e) THEN thr[e].rp ELSE recPending

ResetFailed(e) ==
  /\ LaunchFailed(e, "launchReset", "reset")
  /\ cur' = IF Owns(e) THEN [cur EXCEPT !.state = "failed"] ELSE cur
  /\ UNCHANGED recPending

(***************************************************************************)
(* execute, awaitDecisions, runStep.  Each section starts with             *)
(* aliveLocked; the branch in which a superseded goroutine returns is      *)
(* never taken, which is what OneDriver states.                            *)
(***************************************************************************)
Drives(e, pc) == thr[e].pc = pc /\ epoch = e

(* A goroutine enters finish: the record turns terminal, its Save is next. *)
FinishAs(e, r, pc) ==
  /\ cur' = r
  /\ thr' = [thr EXCEPT ![e].pc = pc, ![e].snap = r]

Complete(e) ==
  /\ Drives(e, "loop")
  /\ cur.idx >= NSteps
  /\ FinishAs(e, [cur EXCEPT !.state = "active"], "finishSave")
  /\ UNCHANGED <<ptr, rec, up, epoch, recPending, draining, volatile, req,
                 exitVars, worldVars, histVars>>

Missing(r) == r.idx \in Gates \ r.decided

Park(e) ==
  /\ Drives(e, "loop")
  /\ Missing(cur)
  /\ cur' = [cur EXCEPT !.state = "awaiting"]
  /\ thr' = [thr EXCEPT ![e].pc = "parkSave", ![e].snap = cur']
  /\ UNCHANGED <<ptr, rec, up, epoch, recPending, draining, volatile, req,
                 exitVars, worldVars, histVars>>

RunStep(e) ==
  /\ Drives(e, "loop")
  /\ cur.idx < NSteps /\ ~Missing(cur)
  /\ cur' = [cur EXCEPT !.state = "running"]
  /\ thr' = [thr EXCEPT ![e].pc = "stepSave", ![e].snap = cur',
                        ![e].inst = cur.installed, ![e].made = FALSE]
  /\ UNCHANGED <<ptr, rec, up, epoch, recPending, draining, volatile, req,
                 exitVars, worldVars, histVars>>

(* The three best-effort checkpoints on the way. *)
CheckpointSaved(e, from, to) ==
  /\ thr[e].pc = from
  /\ Checkpoint(thr[e].snap, "checkpoint")
  /\ thr' = [thr EXCEPT ![e].pc = to, ![e].snap = NoRun]
  /\ UNCHANGED <<up, memVars, req, exitVars, worldVars, histVars>>

ParkSaved(e)  == CheckpointSaved(e, "parkSave", "parked")
StepSaved(e)  == CheckpointSaved(e, "stepSave", "step")
MergeSaved(e) == CheckpointSaved(e, "mergeSave", "loop")

Resume(e) ==
  /\ thr[e].pc = "parked" /\ thr[e].token
  /\ thr' = [thr EXCEPT ![e].pc = "loop", ![e].token = FALSE]
  /\ UNCHANGED <<ptr, rec, up, memVars, req, exitVars, worldVars, histVars>>

ParkCanceled(e) ==
  /\ Drives(e, "parked") /\ thr[e].canceled
  /\ FinishAs(e, [cur EXCEPT !.state = "failed"], "finishSave")
  /\ UNCHANGED <<ptr, rec, up, epoch, recPending, draining, volatile, req,
                 exitVars, worldVars, histVars>>

(* What a step does to the cluster before it returns. *)
Install(e) ==
  /\ Drives(e, "step") /\ cur.idx = ApplyStep
  /\ ~thr[e].inst \/ rel[cur.id] # "present"
  /\ rel' = [rel EXCEPT ![cur.id] = "present"]
  /\ thr' = [thr EXCEPT ![e].inst = TRUE]
  /\ UNCHANGED <<ptr, rec, up, memVars, req, exitVars, wl, bundled, histVars>>

CreateWorkload(e) ==
  /\ Drives(e, "step") /\ cur.idx = ProveStep
  /\ ~thr[e].made
  /\ wl' = wl \cup {cur.id}
  /\ thr' = [thr EXCEPT ![e].made = TRUE]
  /\ UNCHANGED <<ptr, rec, up, memVars, req, exitVars, rel, bundled, histVars>>

StepSucceeds(e) ==
  /\ Drives(e, "step")
  /\ cur.idx = ApplyStep => thr[e].inst /\ rel[cur.id] = "present"
  /\ cur.idx = ProveStep => thr[e].made /\ cur.id \in wl
  /\ cur' = [cur EXCEPT !.idx = @ + 1, !.installed = thr[e].inst,
                        !.workload = cur.workload \/ cur.idx = ProveStep]
  /\ bundled' = IF cur.idx = BundleStep THEN bundled \cup {cur.id} ELSE bundled
  /\ thr' = [thr EXCEPT ![e].pc = "mergeSave", ![e].snap = cur']
  /\ UNCHANGED <<ptr, rec, up, epoch, recPending, draining, volatile, req,
                 exitVars, wl, rel, histVars>>

(* runStep's failure merge: Components always, CleanupUnconfirmed only on
   the two sentinels of Prove's own cleanup. *)
FailStep(e, cleanup) ==
  /\ FinishAs(e, [cur EXCEPT !.state = "failed", !.installed = thr[e].inst,
                             !.cleanup = cleanup], "finishSave")
  /\ UNCHANGED <<ptr, rec, up, epoch, recPending, draining, volatile, req,
                 exitVars, rel, bundled, histVars>>

StepFails(e) ==
  /\ Drives(e, "step")
  /\ "step" \in Faults \/ thr[e].canceled
  /\ ~thr[e].made
  /\ FailStep(e, cur.cleanup)
  /\ UNCHANGED wl

(* ErrCleanupConfirmed: the workload was deleted and seen absent. *)
ProveCleaned(e) ==
  /\ Drives(e, "step")
  /\ "step" \in Faults /\ ~thr[e].canceled
  /\ cur.idx = ProveStep
  /\ FailStep(e, FALSE)
  /\ wl' = wl \ {cur.id}

(* ErrUnconfirmedCleanup: the delete may or may not have taken effect. *)
ProveUncleaned(e) ==
  /\ Drives(e, "step")
  /\ thr[e].canceled \/ {"step", "absent"} \subseteq Faults
  /\ cur.idx = ProveStep
  /\ FailStep(e, TRUE)
  /\ wl' \in {wl, wl \ {cur.id}}

FinishSaved(e) ==
  /\ thr[e].pc = "finishSave"
  /\ Checkpoint(thr[e].snap, "terminal")
  /\ thr' = [thr EXCEPT ![e].pc = "over", ![e].snap = NoRun]
  /\ UNCHANGED <<up, memVars, req, exitVars, worldVars, histVars>>

(***************************************************************************)
(* runReset: the workload first, then the releases, then the record.       *)
(***************************************************************************)
WorkloadAbsent(e) ==
  /\ Drives(e, "teardown")
  /\ wl' = wl \ {cur.id}
  /\ thr' = [thr EXCEPT ![e].pc = "releases"]
  /\ UNCHANGED <<ptr, rec, up, memVars, req, exitVars, rel, bundled, histVars>>

Unfinished(r) == [r EXCEPT !.state = "failed", !.residue = TRUE]

WorkloadStuck(e) ==
  /\ Drives(e, "teardown") /\ "absent" \in Faults
  /\ wl' \in {wl, wl \ {cur.id}}
  /\ FinishAs(e, Unfinished(cur), "finishSave")
  /\ UNCHANGED <<ptr, rec, up, epoch, recPending, draining, volatile, req,
                 exitVars, rel, bundled, histVars>>

(* Some releases are gone, some are not. *)
Uninstall(e) ==
  /\ Drives(e, "releases") /\ rel[cur.id] = "present"
  /\ rel' = [rel EXCEPT ![cur.id] = "half"]
  /\ UNCHANGED <<ptr, rec, up, memVars, thr, req, exitVars, wl, bundled, histVars>>

ReleasesRemoved(e) ==
  /\ Drives(e, "releases") /\ ~thr[e].canceled
  /\ rel' = [rel EXCEPT ![cur.id] = "none"]
  /\ FinishAs(e, [cur EXCEPT !.state = "done", !.residue = FALSE], "resetSave")
  /\ UNCHANGED <<ptr, rec, up, epoch, recPending, draining, volatile, req,
                 exitVars, wl, bundled, histVars>>

ReleasesKept(e) ==
  /\ Drives(e, "releases")
  /\ "uninstall" \in Faults \/ thr[e].canceled
  /\ rel' \in {rel, [rel EXCEPT ![cur.id] = "none"]}
  /\ FinishAs(e, Unfinished(cur), "finishSave")
  /\ UNCHANGED <<ptr, rec, up, epoch, recPending, draining, volatile, req,
                 exitVars, wl, bundled, histVars>>

ResetSaved(e) ==
  /\ thr[e].pc = "resetSave"
  /\ Checkpoint(thr[e].snap, "terminal")
  /\ thr' = [thr EXCEPT ![e].pc = "delete", ![e].snap = NoRun]
  /\ UNCHANGED <<up, memVars, req, exitVars, worldVars, histVars>>

ResetDelete(e) ==
  /\ thr[e].pc = "delete"
  /\ DeleteSucceeds \/ DeleteFails
  /\ thr' = [thr EXCEPT ![e].pc = "clear"]
  /\ UNCHANGED <<up, memVars, req, exitVars, worldVars, histVars>>

ResetClear(e) ==
  /\ thr[e].pc = "clear"
  /\ recPending' = (recPending /\ epoch # e)
  /\ thr' = [thr EXCEPT ![e].pc = "over"]
  /\ UNCHANGED <<ptr, rec, up, cur, epoch, draining, volatile, req, exitVars,
                 worldVars, histVars>>

ThreadStep(e) ==
  \/ LaunchSaved(e) \/ StartFailed(e) \/ RetryFailed(e) \/ ResetFailed(e)
  \/ Complete(e) \/ Park(e) \/ ParkSaved(e) \/ Resume(e) \/ ParkCanceled(e)
  \/ RunStep(e) \/ StepSaved(e) \/ Install(e) \/ CreateWorkload(e)
  \/ StepSucceeds(e) \/ MergeSaved(e)
  \/ StepFails(e) \/ ProveCleaned(e) \/ ProveUncleaned(e) \/ FinishSaved(e)
  \/ WorkloadAbsent(e) \/ WorkloadStuck(e) \/ Uninstall(e)
  \/ ReleasesRemoved(e) \/ ReleasesKept(e)
  \/ ResetSaved(e) \/ ResetDelete(e) \/ ResetClear(e)

(***************************************************************************)
(* Decide, Discard, Stop.                                                  *)
(***************************************************************************)
Enter(c, pc, snap) ==
  /\ req[c].pc = "idle"
  /\ req' = [req EXCEPT ![c] = [pc |-> pc, id |-> cur.id, epoch |-> epoch,
                                snap |-> snap, undo |-> cur, rp |-> recPending]]

Leave(c) == req' = [req EXCEPT ![c] = NoRequest]

Holds(c) == epoch = req[c].epoch /\ cur # NoRun /\ cur.id = req[c].id

(* Decide is not refused while draining. *)
Decide(c) ==
  /\ up = "serving"
  /\ cur # NoRun /\ cur.state = "awaiting"
  /\ Clients # "polling" => \E e \in Epochs : Drives(e, "parked")
  /\ cur' = [cur EXCEPT !.state = "running", !.decided = @ \cup {cur.idx}]
  /\ Enter(c, "decideSave", cur')
  /\ UNCHANGED <<ptr, rec, up, epoch, recPending, draining, volatile, thr,
                 exitVars, worldVars, histVars>>

(* Mutant of DecideSaved: the decision's Save is one more best-effort checkpoint. *)
DecideSavedOrNot(c) ==
  /\ req[c].pc = "decideSave"
  /\ Checkpoint(req[c].snap, "decide")
  /\ req' = [req EXCEPT ![c].pc = "decideResume", ![c].snap = NoRun]
  /\ UNCHANGED <<up, memVars, thr, exitVars, worldVars, histVars>>

DecideSaved(c) ==
  /\ req[c].pc = "decideSave"
  /\ SaveSucceeds(req[c].snap)
  /\ req' = [req EXCEPT ![c].pc = "decideResume", ![c].snap = NoRun]
  /\ UNCHANGED <<up, memVars, thr, exitVars, worldVars, histVars>>

(* Mutant of DecideFailed: the rollback does not ask whether the run is live. *)
DecideFailedDead(c) ==
  /\ req[c].pc = "decideSave"
  /\ SaveFails(req[c].snap, "decide")
  /\ cur' = IF Holds(c) THEN [cur EXCEPT !.state = req[c].undo.state,
                                         !.decided = req[c].undo.decided]
                        ELSE cur
  /\ Leave(c)
  /\ UNCHANGED <<up, epoch, recPending, draining, volatile, thr, exitVars,
                 worldVars, histVars>>

DecideFailed(c) ==
  /\ req[c].pc = "decideSave"
  /\ SaveFails(req[c].snap, "decide")
  /\ cur' = IF Holds(c) /\ Live(cur)
            THEN [cur EXCEPT !.state = req[c].undo.state,
                             !.decided = req[c].undo.decided]
            ELSE cur
  /\ Leave(c)
  /\ UNCHANGED <<up, epoch, recPending, draining, volatile, thr, exitVars,
                 worldVars, histVars>>

(* Mutant of DecideResume: an unbuffered channel, the send is lost unless the
   goroutine is already waiting. *)
DecideResumeUnbuffered(c) ==
  /\ req[c].pc = "decideResume"
  /\ thr' = IF Holds(c) /\ thr[epoch].pc = "parked"
            THEN [thr EXCEPT ![epoch].token = TRUE] ELSE thr
  /\ acked' = acked \cup {<<req[c].id, req[c].undo.idx>>}
  /\ Leave(c)
  /\ UNCHANGED <<ptr, rec, up, memVars, exitVars, worldVars, used, crashes>>

(* The resume channel holds one token and the send never blocks. *)
DecideResume(c) ==
  /\ req[c].pc = "decideResume"
  /\ thr' = IF Holds(c) THEN [thr EXCEPT ![epoch].token = TRUE] ELSE thr
  /\ acked' = acked \cup {<<req[c].id, req[c].undo.idx>>}
  /\ Leave(c)
  /\ UNCHANGED <<ptr, rec, up, memVars, exitVars, worldVars, used, crashes>>

Discard(c) ==
  /\ CanDiscard /\ Prompt
  /\ Enter(c, "discardDelete", NoRun)
  /\ cur' = NoRun
  /\ recPending' = FALSE
  /\ UNCHANGED <<ptr, rec, up, epoch, draining, volatile, thr, exitVars,
                 worldVars, histVars>>

DiscardDeleted(c) ==
  /\ req[c].pc = "discardDelete"
  /\ DeleteSucceeds
  /\ Leave(c)
  /\ UNCHANGED <<up, memVars, thr, exitVars, worldVars, histVars>>

DiscardFailed(c) ==
  /\ req[c].pc = "discardDelete"
  /\ DeleteFails
  /\ IF cur = NoRun /\ epoch = req[c].epoch
     THEN cur' = req[c].undo /\ recPending' = req[c].rp
     ELSE UNCHANGED <<cur, recPending>>
  /\ Leave(c)
  /\ UNCHANGED <<up, epoch, draining, volatile, thr, exitVars, worldVars, histVars>>

(* Mutant of Stop: done is recorded without confirming the absence. *)
StopUnchecked(c) ==
  /\ CanStop /\ Prompt
  /\ Enter(c, "stopMark", NoRun)
  /\ UNCHANGED <<ptr, rec, up, memVars, thr, exitVars, worldVars, histVars>>

Stop(c) ==
  /\ CanStop /\ Prompt
  /\ Enter(c, "stopAbsent", NoRun)
  /\ UNCHANGED <<ptr, rec, up, memVars, thr, exitVars, worldVars, histVars>>

StopAbsent(c) ==
  /\ req[c].pc = "stopAbsent"
  /\ wl' = wl \ {req[c].id}
  /\ req' = [req EXCEPT ![c].pc = "stopMark"]
  /\ UNCHANGED <<ptr, rec, up, memVars, thr, exitVars, rel, bundled, histVars>>

StopFailed(c) ==
  /\ req[c].pc = "stopAbsent" /\ "absent" \in Faults
  /\ wl' \in {wl, wl \ {req[c].id}}
  /\ Leave(c)
  /\ UNCHANGED <<ptr, rec, up, memVars, thr, exitVars, rel, bundled, histVars>>

StopMark(c) ==
  /\ req[c].pc = "stopMark"
  /\ cur' = IF Holds(c) THEN [cur EXCEPT !.workload = TRUE, !.cleanup = FALSE] ELSE cur
  /\ req' = [req EXCEPT ![c].pc = "stopFinish"]
  /\ UNCHANGED <<ptr, rec, up, epoch, recPending, draining, volatile, thr,
                 exitVars, worldVars, histVars>>

(* finish checks the epoch and a nil current, not the run's identity. *)
StopFinish(c) ==
  /\ req[c].pc = "stopFinish"
  /\ IF epoch = req[c].epoch /\ cur # NoRun
     THEN /\ cur' = [cur EXCEPT !.state = "done"]
          /\ req' = [req EXCEPT ![c].pc = "stopSave", ![c].snap = cur']
     ELSE /\ req' = [req EXCEPT ![c].pc = "stopClear"]
          /\ UNCHANGED cur
  /\ UNCHANGED <<ptr, rec, up, epoch, recPending, draining, volatile, thr,
                 exitVars, worldVars, histVars>>

StopSaved(c) ==
  /\ req[c].pc = "stopSave"
  /\ Checkpoint(req[c].snap, "terminal")
  /\ req' = [req EXCEPT ![c].pc = "stopClear", ![c].snap = NoRun]
  /\ UNCHANGED <<up, memVars, thr, exitVars, worldVars, histVars>>

StopClear(c) ==
  /\ req[c].pc = "stopClear"
  /\ recPending' = FALSE
  /\ Leave(c)
  /\ UNCHANGED <<ptr, rec, up, cur, epoch, draining, volatile, thr, exitVars,
                 worldVars, histVars>>

RequestStep(c) ==
  \/ DecideSaved(c) \/ DecideFailed(c) \/ DecideResume(c)
  \/ DiscardDeleted(c) \/ DiscardFailed(c)
  \/ StopAbsent(c) \/ StopFailed(c) \/ StopMark(c) \/ StopFinish(c)
  \/ StopSaved(c) \/ StopClear(c)

(***************************************************************************)
(* Shutdown and restart.                                                   *)
(***************************************************************************)
CancelAndWait ==
  /\ Serving
  /\ draining' = TRUE
  /\ IF epoch = 0
     THEN drained' = TRUE /\ UNCHANGED <<thr, waitOn>>
     ELSE /\ thr' = [thr EXCEPT ![epoch].canceled = TRUE]
          /\ waitOn' = epoch
          /\ UNCHANGED drained
  /\ UNCHANGED <<ptr, rec, up, cur, epoch, recPending, volatile, req,
                 worldVars, histVars>>

DrainReturns ==
  /\ waitOn # 0 /\ ~drained
  /\ thr[waitOn].pc = "over"
  /\ drained' = TRUE
  /\ UNCHANGED <<ptr, rec, up, memVars, thr, req, waitOn, worldVars, histVars>>

(* The process ends, by a crash or after shutdown: only the store and the
   cluster survive.  It may die inside Delete; dying inside Save looks like
   dying before it or after it. *)
Crash ==
  /\ up # "down" /\ crashes < MaxCrashes
  /\ crashes' = crashes + 1
  /\ up' = "down"
  /\ cur' = NoRun /\ epoch' = 0
  /\ recPending' = FALSE /\ draining' = FALSE /\ volatile' = FALSE
  /\ thr' = [e \in Epochs |-> Unborn]
  /\ req' = [c \in Callers |-> NoRequest]
  /\ waitOn' = 0 /\ drained' = FALSE
  /\ bundled' = {}
  /\ IF NoLateDelete \/ volatile THEN UNCHANGED storeVars ELSE Store!DeleteFailed
  /\ UNCHANGED <<wl, rel, acked, used>>

(* Mutant of Recovered: no rewind to the step whose output died. *)
RecoveredInPlace(r) ==
  IF Live(r) \/ r.state = "failed"
  THEN [r EXCEPT !.state = "failed", !.residue = @ \/ r.state = "resetting"]
  ELSE r

(* Mutant of Recovered: an interrupted teardown is an ordinary failure. *)
RecoveredUnmarked(r) ==
  IF Live(r) \/ r.state = "failed"
  THEN [r EXCEPT !.state = "failed", !.idx = IF @ > BundleStep THEN BundleStep ELSE @]
  ELSE r

(* What Recover installs: nothing is resumed, an interrupted run has failed,
   an interrupted teardown is incomplete, and a failed run past Bundle goes
   back to it, because the bundle directory died with the process. *)
Recovered(r) ==
  LET failed == [r EXCEPT !.state = "failed",
                          !.residue = @ \/ r.state = "resetting",
                          !.idx = IF @ > BundleStep THEN BundleStep ELSE @]
  IN  IF Live(r) \/ r.state = "failed" THEN failed ELSE r

Recover ==
  /\ up = "down"
  /\ up' = "recovered"
  /\ \/ /\ ptr = NoID                                  (* cold start       *)
        /\ UNCHANGED <<cur, recPending, volatile>>
     \/ /\ Store!Dangling \/ (ptr # NoID /\ "load" \in Faults)
        /\ volatile' = TRUE                            (* unreadable       *)
        /\ UNCHANGED <<cur, recPending>>
     \/ /\ rec # NoRun
        /\ cur' = Recovered(rec)
        /\ recPending' = TRUE
        /\ UNCHANGED volatile
  /\ UNCHANGED <<ptr, rec, epoch, draining, thr, req, exitVars, worldVars, histVars>>

Adopted(id) == [NewRun(id) EXCEPT !.state = "active", !.idx = NSteps, !.workload = TRUE]

(* ReconcileWorkloads: an active run whose workload is gone is done; a
   workload without any record is adopted; everything else is reported. *)
Reconcile ==
  /\ up = "recovered"
  /\ up' = "serving"
  /\ \/ /\ cur # NoRun /\ cur.state = "active" /\ cur.id \notin wl
        /\ cur' = [cur EXCEPT !.state = "done"]
        /\ Checkpoint(cur', "terminal")
     \/ \E id \in wl :
          /\ cur = NoRun
          /\ cur' = Adopted(id)
          /\ Checkpoint(cur', "checkpoint")
     \/ /\ \/ "list" \in Faults
           \/ cur = NoRun /\ wl = {}
           \/ cur # NoRun /\ ~(cur.state = "active" /\ cur.id \notin wl)
        /\ UNCHANGED <<ptr, rec, cur>>
  /\ UNCHANGED <<epoch, recPending, draining, volatile, thr, req, exitVars,
                 worldVars, histVars>>

Next ==
  \/ Start \/ Retry \/ Reset
  \/ \E e \in Epochs : ThreadStep(e)
  \/ \E c \in Callers : Decide(c) \/ Discard(c) \/ Stop(c) \/ RequestStep(c)
  \/ CancelAndWait \/ DrainReturns
  \/ Crash \/ Recover \/ Reconcile

Spec == Init /\ [][Next]_vars
=============================================================================
