-------------------------- MODULE EngineInvariants --------------------------
(***************************************************************************)
(* The inductive invariants from which EngineProofs derives the properties *)
(* of EngineProperties.  They are stated here, apart from the proofs, so   *)
(* that TLC can check them on an instance of MCEngine.                     *)
(***************************************************************************)
EXTENDS EngineProperties

(***************************************************************************)
(* One driver, and every state well typed: the invariant the others rest on. *)
(***************************************************************************)
(* The part of TypeOK that the run lifecycle does not look at. *)
WorldOK ==
  /\ ptr \in RunIDs \cup {NoID} /\ rec \in Runs \cup {NoRun}
  /\ volatile \in BOOLEAN
  /\ wl \subseteq RunIDs
  /\ rel \in [RunIDs -> {"none", "present", "half"}]
  /\ bundled \subseteq RunIDs
  /\ acked \subseteq RunIDs \X (0 .. NSteps)
  /\ used \subseteq RunIDs
  /\ crashes \in 0 .. MaxCrashes

(* The part it does. *)
CoreOK ==
  /\ up \in {"down", "recovered", "serving"}
  /\ cur \in Runs \cup {NoRun}
  /\ epoch \in 0 .. MaxEpoch
  /\ recPending \in BOOLEAN /\ draining \in BOOLEAN
  /\ thr \in [Epochs -> Threads]
  /\ req \in [Callers -> Requests]
  /\ waitOn \in 0 .. MaxEpoch /\ drained \in BOOLEAN

Saving == Launching \cup {"parkSave", "stepSave", "mergeSave", "finishSave", "resetSave"}

(* A goroutine about to save has a record to save; one inside a pipeline step
   has a step to run; a Start in flight is not for a recovered run, and its
   rollback restores a run nobody drives. *)
ThreadOK(e) ==
  /\ thr[e].pc \in Saving => thr[e].snap \in Runs
  /\ thr[e].pc \in {"stepSave", "step"} => cur.idx < NSteps
  /\ thr[e].pc = "launchStart" => /\ ~recPending
                                  /\ thr[e].undo # NoRun => ~Live(thr[e].undo)
  /\ e > epoch => thr[e].pc = "unborn"

(* What a request captured under the lock still means when it is used: Decide
   rolls back to a parked run, Discard to a settled one, and as long as Stop's
   epoch is the engine's, the run it stops is settled. *)
RequestOK(c) ==
  /\ req[c].pc # "idle" => req[c].id \in RunIDs /\ req[c].undo \in Runs
  /\ req[c].epoch <= epoch
  /\ req[c].pc \in {"decideSave", "stopSave"} => req[c].snap \in Runs
  /\ req[c].pc = "decideSave" => req[c].undo.state = "awaiting"
  /\ req[c].pc = "discardDelete" => ~Live(req[c].undo)
  /\ req[c].pc \in {"stopAbsent", "stopMark", "stopFinish"} =>
       (req[c].epoch = epoch /\ cur # NoRun => ~Live(cur))

(* Before it serves, a process has launched nothing. *)
PhaseOK ==
  up # "serving" => epoch = 0 /\ ~draining /\ \A c \in Callers : req[c].pc = "idle"

(* What CancelAndWait waits for is the last goroutine there will be. *)
DrainOK ==
  /\ waitOn # 0 => draining /\ waitOn = epoch
  /\ drained => draining /\ (waitOn = 0 => epoch = 0)
  /\ drained /\ waitOn # 0 => thr[waitOn].pc = "over"

Core ==
  /\ CoreOK
  /\ OneDriver
  /\ \A e \in Epochs : ThreadOK(e)
  /\ \A c \in Callers : RequestOK(c)
  /\ PhaseOK /\ DrainOK
  /\ RecoveredGateHasRun

IInv == WorldOK /\ Core

(***************************************************************************)
(* Which records there are, besides the one on disk.                       *)
(***************************************************************************)
(* The current run, and what it may yet be rolled back to. *)
Restorable ==
  {cur} \cup {thr[e].undo : e \in Epochs}
        \cup {req[c].undo : c \in {d \in Callers : /\ req[d].pc = "discardDelete"
                                                  /\ req[d].epoch = epoch}}

(* What some Save has still to write. *)
Snapshots == {thr[e].snap : e \in Epochs} \cup {req[c].snap : c \in Callers}

(* All that, the record on disk, and the run a Decide may be rolled back to. *)
Held ==
  (Restorable \cup Snapshots \cup {rec}
     \cup {req[c].undo : c \in {d \in Callers : req[d].pc = "decideSave"}}) \ {NoRun}

(* A goroutine holds a snapshot only while it saves, a rollback only while a
   Start may fail; a request likewise.  A dead process holds no run. *)
SlotsOK ==
  /\ ptr = NoID => rec = NoRun
  /\ up = "down" => cur = NoRun
  /\ \A e \in Epochs : /\ thr[e].snap # NoRun => thr[e].pc \in Saving
                       /\ thr[e].undo # NoRun => thr[e].pc = "launchStart"
  /\ \A c \in Callers : req[c].snap # NoRun => req[c].pc \in {"decideSave", "stopSave"}

(* The state of the run a goroutine drives, and the snapshot it saves.  The
   rollback of a Decide never meets a goroutine that is launching or tearing
   down. *)
DriveOK ==
  /\ \A e \in Epochs :
       /\ thr[e].pc \in {"launchReset"} \cup Tearing => cur.state = "resetting"
       /\ thr[e].pc \in {"launchStart", "launchRetry"} => cur.state = "running"
       /\ thr[e].pc \in {"launchStart", "launchRetry"} \cup Executing =>
            cur.state \in {"running", "awaiting"} /\ ~cur.residue
       /\ thr[e].pc \in Driving /\ thr[e].snap # NoRun => thr[e].snap.id = cur.id
       /\ thr[e].pc \in Launching => thr[e].snap = cur
  /\ \A c \in Callers, e \in Epochs :
       req[c].pc = "decideSave" /\ req[c].epoch = e =>
         thr[e].pc \notin Launching \cup Tearing

(* Only a run with components is torn down, so that an incomplete teardown can
   be repeated. *)
RecordOK == \A r \in Held : r.residue \/ r.state = "resetting" => r.installed

(***************************************************************************)
(* Identities.                                                             *)
(***************************************************************************)
(* finish compares epochs and not runs.  This is why that is enough: what
   Discard and Stop act on in one epoch is one settled run. *)
Settling(c) ==
  /\ req[c].pc \in {"discardDelete", "stopAbsent", "stopMark", "stopFinish"}
  /\ req[c].epoch = epoch

SettleOK ==
  /\ \A c \in Callers : Settling(c) =>
       /\ cur # NoRun => cur.id = req[c].id /\ ~Live(cur)
       /\ req[c].pc = "discardDelete" => cur = NoRun
  /\ \A c, d \in Callers : Settling(c) /\ Settling(d) =>
       /\ req[c].id = req[d].id
       /\ req[c].pc = "discardDelete" /\ req[d].pc = "discardDelete" => c = d
  /\ \A c \in Callers : req[c].pc = "discardDelete" => req[c].undo.id = req[c].id

(* Every trace of a run, in memory, on disk or in the cluster, is of an ID that
   has been drawn, so a new run meets none. *)
UsedOK ==
  /\ \A r \in Held : r.id \in used
  /\ wl \subseteq used
  /\ \A a \in acked : a[1] \in used
  /\ \A c \in Callers : req[c].pc # "idle" => req[c].id \in used

RecordInv == SlotsOK /\ DriveOK /\ RecordOK /\ SettleOK /\ UsedOK

(***************************************************************************)
(* What a run that may run again has to find.  These need a Reset whose    *)
(* Save does not fail: its rollback makes any run a failed one.            *)
(***************************************************************************)
Resumable(r) == \/ r.state \in {"running", "awaiting"}
                \/ r.state = "failed" /\ ~r.residue

(* A run that may go on after Bundle has its bundle in this process. *)
BundleOK ==
  \A r \in Restorable :
    r # NoRun /\ Resumable(r) /\ r.idx > BundleStep => r.id \in bundled

(* A run recorded as done has no workload, and cannot create one any more:
   whatever else is known of it cannot be resumed. *)
DoneOK ==
  /\ \A r \in Held : r.state = "done" =>
       /\ r.id \notin wl
       /\ \A x \in Restorable : x # NoRun /\ x.id = r.id => ~Resumable(x)
  /\ \A e \in Epochs : thr[e].pc = "releases" => cur.id \notin wl
  /\ \A c \in Callers : Settling(c) /\ req[c].pc \in {"stopMark", "stopFinish"} =>
       req[c].id \notin wl

(* In the first life of the process: why the run of a workload is never one
   that Stop refuses. *)
Proving == \E e \in Epochs :
             \/ thr[e].pc = "step" /\ cur.idx = ProveStep /\ thr[e].made
             \/ thr[e].pc \in {"mergeSave", "loop"} /\ cur.idx = NSteps

TrackOK ==
  /\ crashes = 0
  /\ up # "serving" => wl = {} /\ rec = NoRun /\ cur = NoRun
  /\ \A i \in wl :
       /\ cur # NoRun /\ cur.id = i
       /\ \/ cur.state \in {"active", "resetting"} \/ cur.residue
          \/ cur.state \in {"running", "awaiting", "failed"} /\ cur.cleanup
          \/ Proving
  /\ \A e \in Epochs : thr[e].pc = "launchStart" => wl = {}

(***************************************************************************)
(* The order in which records reach the disk.                              *)
(***************************************************************************)
SomeDriver == \E e \in Epochs : thr[e].pc \in Driving

(* Clients that wait for an event: nobody but the driver saves its run. *)
CalmSaves   == SomeDriver => NoLateSave
(* Clients that also wait for the Delete: nothing is deleted under it. *)
CalmDeletes == SomeDriver => NoLateDelete

(* One Decide at a time, between the parking of the goroutine and its wake-up;
   only a shutdown comes between them. *)
Deciding(c) == req[c].pc \in {"decideSave", "decideResume"}

(* A token is only ever in the channel of a goroutine that waits for it. *)
ParkOK(e) ==
  /\ thr[e].pc \in Driving /\ thr[e].token => thr[e].pc = "parked" /\ cur.state = "running"
  /\ thr[e].canceled => draining
  /\ thr[e].pc \in Driving /\ cur.state = "awaiting" =>
       thr[e].pc \in {"parkSave", "parked"} /\ cur.idx \in Gates

AnswerOK(c) ==
  Deciding(c) =>
    /\ req[c].epoch = epoch /\ epoch # 0
    /\ cur # NoRun /\ cur.id = req[c].id
    /\ cur.id = req[c].undo.id /\ cur.idx = req[c].undo.idx
    /\ req[c].undo.idx \in Gates
    /\ \/ thr[epoch].pc = "parked" /\ ~thr[epoch].token /\ cur.state = "running"
       \/ thr[epoch].pc \in {"finishSave", "over"} /\ draining /\ cur.state = "failed"
    /\ req[c].pc = "decideSave" => req[c].snap.id = cur.id
    /\ \A d \in Callers : /\ ~Settling(d) /\ req[d].pc # "stopSave"
                          /\ Deciding(d) => c = d

DecideOK ==
  /\ \A e \in Epochs : ParkOK(e)
  /\ \A c \in Callers : AnswerOK(c)

(* An adopted run: it has no decisions, and can only be stopped. *)
Orphan(r) == r.state \in {"active", "done"} /\ r.idx = NSteps /\ ~r.installed

(* Record r, if it is of run i, has the decision of gate g. *)
DecisionIn(r, i, g) == r.id = i => g \in r.decided \/ Orphan(r)

AckedOK ==
  /\ \A a \in acked : a[2] \in Gates
  /\ \A r \in Held, a \in acked : DecisionIn(r, a[1], a[2])
  /\ \A c \in Callers : Deciding(c) =>
       \A r \in {cur} \cup Snapshots :
         r = NoRun \/ DecisionIn(r, req[c].id, req[c].undo.idx)
  /\ \A c \in Callers : req[c].pc = "decideResume" /\ rec # NoRun =>
       DecisionIn(rec, req[c].id, req[c].undo.idx)

(* A process on a memory store leaves the record on disk alone. *)
VolatileOK ==
  /\ up = "down" => ~volatile
  /\ volatile /\ rec # NoRun =>
       \A r \in Restorable : r = NoRun \/ r.id # rec.id \/ Orphan(r)

(* Past its launch a goroutine drives a run whose record is on disk. *)
PersistOK ==
  ~volatile /\ (\E e \in Epochs : thr[e].pc \in Driving \ Launching) =>
    rec # NoRun /\ rec.id = cur.id

(* The first process finds an empty store; one that may still die has a store. *)
FirstOK ==
  /\ crashes = 0 /\ up = "down" => ptr = NoID
  /\ volatile => crashes = MaxCrashes

(* Half a removal is remembered: by the current run, on disk, and by every
   Save that is still to come. *)
Guards(r, i) == r.id = i /\ (r.state = "resetting" \/ r.residue)

Remembered(i) ==
  /\ up # "down" => cur # NoRun /\ Guards(cur, i)
  /\ ~volatile => rec # NoRun /\ Guards(rec, i)
  /\ \A r \in Snapshots : r # NoRun => Guards(r, i)
  /\ NoLateDelete /\ \A e \in Epochs : thr[e].pc # "resetSave"
  /\ \A c \in Callers : ~Deciding(c)

HalfOK ==
  /\ \A e \in Epochs : thr[e].pc \in Tearing /\ ~volatile =>
       rec # NoRun /\ Guards(rec, cur.id)
  /\ \A i \in RunIDs : rel[i] = "half" => Remembered(i)
=============================================================================
