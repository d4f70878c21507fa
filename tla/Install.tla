------------------------------ MODULE Install ------------------------------
(***************************************************************************)
(* What a run does to the cluster's helm releases, and what it may undo:   *)
(* the ownership snapshot and the already-installed guard of the Apply     *)
(* step (internal/steps), deploy.sh component by component                 *)
(* (internal/applier), and the teardown of a Reset (internal/teardown).    *)
(* Engine has all of it as one bit; here the run has one goroutine, as     *)
(* OneDriver shows, and what it records is followed through failures,      *)
(* retries, shutdown and crashes.                                          *)
(*                                                                         *)
(* A component is its position in the recipe's install order.  A release   *)
(* is a component's name in a namespace.                                   *)
(***************************************************************************)
EXTENDS Naturals, FiniteSets

CONSTANTS
  NComponents,
  Namespaces,
  NamespaceOf,  (* the recipe's namespace for each component               *)
  Hazards,      (* reinstallHazards, which are the keys of componentPurges *)
  Objects,      (* what a hazard's chart makes and helm uninstall keeps    *)
  RunIDs,
  Foreign,      (* releases that people outside the console may install    *)
  ByHand,       (* whether they also run helm uninstall, as Apply advises  *)
  MaxCrashes,   (* bound: ends of the console process                      *)
  Other, Nobody, NoObject, NoRun

Components == 1 .. NComponents
Releases   == Components \X Namespaces
Owners     == RunIDs \cup {Other}
Holders    == Owners \cup {Nobody}

ReleaseOf(c) == <<c, NamespaceOf[c]>>
recipeNamespaces == {NamespaceOf[c] : c \in Components}

ASSUME RecipeAssumption ==
  /\ NComponents \in Nat \ {0}
  /\ NamespaceOf \in [Components -> Namespaces]
  /\ Hazards \subseteq Components /\ Foreign \subseteq Releases
ASSUME InstallBounds == ByHand \in BOOLEAN /\ MaxCrashes \in Nat
ASSUME InstallNulls ==
  /\ Other \notin RunIDs /\ Nobody \notin Owners /\ NoObject \notin Objects

(* The pre-Apply evidence: namespaces looked at, those that could not be read
   (SnapshotErr), and the releases found in the others. *)
Ownership == [seen : SUBSET Namespaces, bad : SUBSET Namespaces,
              releases : SUBSET Releases]
NoOwnership == [seen |-> {}, bad |-> {}, releases |-> {}]

(* One line of the residue inventory, of a release or of a purged object. *)
ResidueItem == [comp : Components, object : Objects \cup {NoObject},
                result : {"removed", "skipped", "failed"}]

Live == {"running", "resetting"}

Runs == [id         : RunIDs,
         state      : Live \cup {"failed", "active", "done"},
         applied    : BOOLEAN,             (* StepIndex is past Apply      *)
         comps      : SUBSET Components,   (* the rows of Run.Components   *)
         own        : Ownership,
         incomplete : BOOLEAN,             (* Residue.Incomplete           *)
         items      : SUBSET ResidueItem]  (* Residue.Items                *)

ASSUME NoRunIsNoRun == NoRun \notin Runs

NewRun(id) == [id |-> id, state |-> "running", applied |-> FALSE, comps |-> {},
               own |-> NoOwnership, incomplete |-> FALSE, items |-> {}]

VARIABLES
  pc,        (* where the run's goroutine is, or "idle", or "down"         *)
  run,       (* Engine.current                                             *)
  record,    (* what the store holds                                       *)
  scratch,   (* Apply's copy: [comps, own]                                 *)
  at,        (* the component deploy.sh is at                              *)
  todo,      (* components Releases has not considered                     *)
  left,      (* objects purge has not attempted                            *)
  items,     (* outcomes so far                                            *)
  stopped,   (* Releases has seen the cancellation                         *)
  draining,  (* Engine.draining; the run's context is canceled with it     *)
  installed, (* the cluster: who made each release, Nobody if it is absent *)
  kept,      (* the cluster: who made each object                          *)
  used,      (* run IDs given out                                          *)
  lost,      (* history: runs whose evidence an exit destroyed             *)
  crashes

work    == <<scratch, at, todo, left, items, stopped>>
cluster == <<installed, kept>>
vars == <<pc, run, record, scratch, at, todo, left, items, stopped, draining,
          installed, kept, used, lost, crashes>>

Places == {"idle", "down", "snapshot", "deploy", "later", "absent",
           "uninstall", "purge", "delete"}
EmptyScratch == [comps |-> {}, own |-> NoOwnership]

TypeOK ==
  /\ pc \in Places
  /\ run \in Runs \cup {NoRun} /\ record \in Runs \cup {NoRun}
  /\ scratch \in [comps : SUBSET Components, own : Ownership]
  /\ at \in Components /\ todo \subseteq Components /\ left \subseteq Objects
  /\ items \subseteq ResidueItem /\ stopped \in BOOLEAN /\ draining \in BOOLEAN
  /\ installed \in [Releases -> Holders]
  /\ kept \in [Hazards -> [Objects -> Holders]]
  /\ used \subseteq RunIDs /\ lost \subseteq RunIDs
  /\ crashes \in 0 .. MaxCrashes
  /\ pc \notin {"idle", "down"} => run # NoRun

Init ==
  /\ pc = "idle" /\ run = NoRun /\ record = NoRun
  /\ scratch = EmptyScratch /\ at = 1 /\ todo = {} /\ left = {} /\ items = {}
  /\ stopped = FALSE /\ draining = FALSE
  /\ installed = [r \in Releases |-> Nobody]
  /\ kept = [h \in Hazards |-> [o \in Objects |-> Nobody]]
  /\ used = {} /\ lost = {} /\ crashes = 0

(***************************************************************************)
(* The cluster.                                                            *)
(***************************************************************************)

(* helm upgrade --install keeps a release that is there, and a kept object. *)
Made(who, old) == IF old = Nobody THEN who ELSE old

InstallAs(who, r, objects) ==
  /\ installed' = [installed EXCEPT ![r] = Made(who, @)]
  /\ kept' = [h \in Hazards |-> [o \in Objects |->
                IF h = r[1] /\ o \in objects THEN Made(who, kept[h][o])
                                             ELSE kept[h][o]]]

(* Others use the cluster while no run of the console is on it. *)
OthersInstall == \E r \in Foreign :
  /\ run = NoRun /\ record = NoRun /\ installed[r] = Nobody
  /\ InstallAs(Other, r, Objects)
  /\ UNCHANGED <<pc, run, record, work, draining, used, lost, crashes>>

(* installedAlreadyMessage: "If no run owns it any more, remove it with helm
   uninstall."  Helm keeps the objects. *)
OthersUninstall == \E r \in Releases :
  /\ ByHand /\ run = NoRun /\ record = NoRun /\ installed[r] # Nobody
  /\ installed' = [installed EXCEPT ![r] = Nobody]
  /\ UNCHANGED <<pc, run, record, work, draining, kept, used, lost, crashes>>

(***************************************************************************)
(* Starting a run.  A recovered run must be retried or discarded before a  *)
(* Start; discarding it first comes to the same here.                      *)
(***************************************************************************)
Serving == pc = "idle" /\ ~draining

(* Start's and Retry's Save must succeed; if not the run is as it was. *)
Launch(r) ==
  /\ run' = r /\ record' = r
  /\ pc' = IF r.applied THEN "later" ELSE "snapshot"
  /\ UNCHANGED <<work, draining, cluster, lost, crashes>>

CanStart ==
  /\ Serving
  /\ run # NoRun => run.state \in {"failed", "done"} /\ ~run.incomplete

Start == \E id \in RunIDs \ used :
  CanStart /\ Launch(NewRun(id)) /\ used' = used \cup {id}

CanRetry == Serving /\ run # NoRun /\ run.state = "failed" /\ ~run.incomplete

Retry == /\ CanRetry
         /\ Launch([run EXCEPT !.state = "running"])
         /\ UNCHANGED used

Discard ==
  /\ Serving /\ run # NoRun /\ run.state \in {"failed", "done"} /\ ~run.incomplete
  /\ run' = NoRun /\ record' = NoRun
  /\ UNCHANGED <<pc, work, draining, cluster, used, lost, crashes>>

Stop ==
  /\ Serving /\ run # NoRun /\ run.state = "active"
  /\ run' = [run EXCEPT !.state = "done"]
  /\ record' \in {record, run'}
  /\ UNCHANGED <<pc, work, draining, cluster, used, lost, crashes>>

(* The step is over and the run with it, or the pipeline goes on: the run is
   merged under the lock and saved, a Save that may fail. *)
Settle(r, next) ==
  /\ run' = r /\ record' \in {record, r} /\ pc' = next

(***************************************************************************)
(* Apply.                                                                  *)
(***************************************************************************)

(* snapshotOwnership when the namespaces in `bad' cannot be read. *)
snapshotOwnership(bad) ==
  [seen |-> recipeNamespaces, bad |-> bad,
   releases |-> {r \in Releases : /\ r[2] \in recipeNamespaces \ bad
                                  /\ installed[r] # Nobody}]

alreadyInstalled(own) == {r \in own.releases : r[1] \in Hazards}

(* Mutant of FirstAttempt: every attempt takes a snapshot. *)
EveryAttempt(own) == TRUE

FirstAttempt(own) == own.seen = {}

(* The step's copy and deploy.sh's place die with the step. *)
StepOver == scratch' = EmptyScratch /\ at' = 1

(* A failed Apply still merges what it had recorded. *)
ApplyFails(s) ==
  /\ Settle([run EXCEPT !.state = "failed", !.comps = s.comps, !.own = s.own], "idle")
  /\ StepOver

Snapshot == \E bad \in SUBSET recipeNamespaces :
  LET first == FirstAttempt(run.own)
      own   == IF first THEN snapshotOwnership(bad) ELSE run.own
      s     == [comps |-> run.comps, own |-> own]
  IN  /\ pc = "snapshot"
      /\ draining => bad = recipeNamespaces
      /\ \/ /\ first /\ alreadyInstalled(own) # {}
            /\ ApplyFails(s)
         \/ /\ ~(first /\ alreadyInstalled(own) # {})
            /\ pc' = "deploy" /\ scratch' = s /\ at' = 1
            /\ record' \in {record, run}
            /\ UNCHANGED run
      /\ UNCHANGED <<todo, left, items, stopped, draining, cluster, used, lost, crashes>>

(* deploy.sh ends between two components: its preflight, or a signal. *)
DeployStops ==
  /\ pc = "deploy"
  /\ ApplyFails(scratch)
  /\ UNCHANGED <<todo, left, items, stopped, draining, cluster, used, lost, crashes>>

(* trackComponents: the header's row is there before helm runs. *)
Tracked(s, c, ok) == [s EXCEPT !.comps = @ \cup {c}]

AfterLast(c) == c >= NComponents

(* One component: its header, helm, and its installed or failed marker.  A
   failed attempt leaves no release, or one with some of its objects. *)
Deploy == \E ok, made \in BOOLEAN, objects \in SUBSET Objects :
  LET s == Tracked(scratch, at, ok)
  IN  /\ pc = "deploy"
      /\ ok => made /\ objects = Objects /\ ~draining
      /\ ~made => objects = {}
      /\ IF made THEN InstallAs(run.id, ReleaseOf(at), objects) ELSE UNCHANGED cluster
      /\ \/ ~ok /\ ApplyFails(s)
         \/ /\ ok /\ AfterLast(at)
            /\ Settle([run EXCEPT !.applied = TRUE, !.comps = s.comps,
                                  !.own = s.own], "later")
            /\ StepOver
         \/ /\ ok /\ ~AfterLast(at)
            /\ scratch' = s /\ at' = at + 1
            /\ UNCHANGED <<pc, run, record>>
      /\ UNCHANGED <<todo, left, items, stopped, draining, used, lost, crashes>>

(* Validate and Prove. *)
LaterSteps ==
  /\ pc = "later"
  /\ \E s \in {"active", "failed"} : Settle([run EXCEPT !.state = s], "idle")
  /\ UNCHANGED <<work, draining, cluster, used, lost, crashes>>

(***************************************************************************)
(* Reset.                                                                  *)
(***************************************************************************)
Reset ==
  LET r == [run EXCEPT !.state = "resetting", !.incomplete = FALSE, !.items = {}]
  IN  /\ Serving /\ run # NoRun /\ run.comps # {}
      /\ \/ /\ run' = r /\ record' = r /\ pc' = "absent"
            /\ todo' = run.comps /\ items' = {} /\ stopped' = FALSE
         \/ /\ run' = [r EXCEPT !.state = "failed"]         (* Save failed *)
            /\ UNCHANGED <<pc, record, todo, items, stopped>>
      /\ UNCHANGED <<scratch, at, left, draining, cluster, used, lost, crashes>>

Incomplete(its) ==
  Settle([run EXCEPT !.state = "failed", !.incomplete = TRUE, !.items = its], "idle")

WorkloadAbsent ==
  /\ pc = "absent"
  /\ \/ pc' = "uninstall" /\ UNCHANGED <<run, record>>
     \/ Incomplete({})
  /\ UNCHANGED <<work, draining, cluster, used, lost, crashes>>

Due(c) == c \in todo /\ \A d \in todo : d <= c    (* reverse install order *)

Row(c, o, result) == [comp |-> c, object |-> o, result |-> result]

(* Mutant of Adopted: a release is ours once we have upgraded it. *)
AdoptedNever(c) == FALSE

Adopted(c) == ReleaseOf(c) \in run.own.releases

Unprovable(c) == NamespaceOf[c] \in run.own.bad

Skip == \E c \in Components :
  /\ pc = "uninstall" /\ Due(c)
  /\ stopped \/ Unprovable(c) \/ Adopted(c)
  /\ items' = items \cup {Row(c, NoObject, "skipped")}
  /\ todo' = todo \ {c}
  /\ UNCHANGED <<pc, run, record, scratch, at, left, stopped, draining, cluster, used,
                 lost, crashes>>

(* Mutant of Outcome: helm accepted the command. *)
OutcomeAccepted(ok) == "removed"

Outcome(ok) == IF ok THEN "removed" ELSE "failed"

(* Mutant of Purges: objects go whether or not the release did. *)
PurgesAnyway(c, ok) == c \in Hazards

Purges(c, ok) == ok /\ c \in Hazards

(* helm uninstall, under a context nothing cancels.  One that fails may have
   removed the release all the same.  Cancellation is looked at afterwards. *)
Uninstall == \E c \in Components, ok, gone \in BOOLEAN :
  /\ pc = "uninstall" /\ Due(c)
  /\ ~stopped /\ ~Unprovable(c) /\ ~Adopted(c)
  /\ ok => gone
  /\ installed' = IF gone THEN [installed EXCEPT ![ReleaseOf(c)] = Nobody] ELSE installed
  /\ items' = items \cup {Row(c, NoObject, Outcome(ok))}
  /\ \/ /\ Purges(c, ok) /\ ~draining
        /\ pc' = "purge" /\ left' = Objects
        /\ UNCHANGED <<todo, stopped>>
     \/ /\ ~Purges(c, ok) \/ draining
        /\ stopped' = draining /\ todo' = todo \ {c}
        /\ UNCHANGED <<pc, left>>
  /\ UNCHANGED <<run, record, scratch, at, draining, kept, used, lost, crashes>>

(* One kubectl delete; purge's order among the objects does not matter. *)
Purge == \E c \in Hazards, o \in left, ok \in BOOLEAN :
  /\ pc = "purge" /\ Due(c)
  /\ kept' = IF ok THEN [kept EXCEPT ![c][o] = Nobody] ELSE kept
  /\ items' = items \cup {Row(c, o, Outcome(ok))}
  /\ left' = left \ {o}
  /\ IF left' = {} \/ draining
       THEN pc' = "uninstall" /\ stopped' = draining /\ todo' = todo \ {c}
       ELSE UNCHANGED <<pc, stopped, todo>>
  /\ UNCHANGED <<run, record, scratch, at, draining, installed, used, lost, crashes>>

Interrupted(its) == draining \/ \E i \in its : i.result = "failed"

ResetEnds ==
  /\ pc = "uninstall" /\ todo = {}
  /\ \/ Interrupted(items) /\ Incomplete(items)
     \/ /\ ~Interrupted(items)
        /\ Settle([run EXCEPT !.state = "done", !.items = items], "delete")
  /\ items' = {} /\ stopped' = FALSE
  /\ UNCHANGED <<scratch, at, todo, left, draining, cluster, used, lost, crashes>>

DeleteRecord ==
  /\ pc = "delete"
  /\ pc' = "idle" /\ record' \in {NoRun, record}
  /\ UNCHANGED <<run, work, draining, cluster, used, lost, crashes>>

(***************************************************************************)
(* The process.                                                            *)
(***************************************************************************)
CancelAndWait ==
  /\ pc # "down" /\ ~draining /\ draining' = TRUE
  /\ UNCHANGED <<pc, run, record, work, cluster, used, lost, crashes>>

Evidence(r) == IF r = NoRun THEN EmptyScratch ELSE [comps |-> r.comps, own |-> r.own]

(* The evidence an exit destroys is what the record does not have. *)
LosesEvidence ==
  /\ run # NoRun
  /\ Evidence(record) # IF pc = "deploy" THEN scratch ELSE Evidence(run)

Crash ==
  /\ pc # "down" /\ crashes < MaxCrashes
  /\ pc' = "down" /\ run' = NoRun /\ crashes' = crashes + 1
  /\ scratch' = EmptyScratch /\ at' = 1 /\ todo' = {} /\ left' = {}
  /\ items' = {} /\ stopped' = FALSE /\ draining' = FALSE
  /\ lost' = IF LosesEvidence THEN lost \cup {run.id} ELSE lost
  /\ UNCHANGED <<record, cluster, used>>

(* A live run is recovered as failed and starts over from Bundle. *)
Recovered(r) ==
  IF r.state \in Live \cup {"failed"}
    THEN [r EXCEPT !.state = "failed", !.applied = FALSE,
                   !.incomplete = @ \/ r.state = "resetting"]
    ELSE r

Recover ==
  /\ pc = "down" /\ pc' = "idle"
  /\ run' = IF record = NoRun THEN NoRun ELSE Recovered(record)
  /\ UNCHANGED <<record, work, draining, cluster, used, lost, crashes>>

Next == \/ OthersInstall \/ OthersUninstall
        \/ Start \/ Retry \/ Discard \/ Stop \/ Reset
        \/ Snapshot \/ DeployStops \/ Deploy \/ LaterSteps
        \/ WorkloadAbsent \/ Skip \/ Uninstall \/ Purge \/ ResetEnds \/ DeleteRecord
        \/ CancelAndWait \/ Crash \/ Recover

Spec == Init /\ [][Next]_vars

(***************************************************************************)
(* Properties.                                                             *)
(***************************************************************************)

(* SAFETY.  The inventory of an ended teardown (reset.go's recordResidue) can be
   acted on: every component has a row, a release of this run that is still in
   the cluster is never listed as removed, and a kept object of a removed
   release is listed as failed unless the teardown was cut short. *)
InventoryHonest ==
  run # NoRun /\ run.items # {} =>
    \A c \in run.comps : \E i \in run.items :
      /\ i.comp = c /\ i.object = NoObject
      /\ installed[ReleaseOf(c)] = run.id => i.result # "removed"
      /\ i.result = "removed" /\ c \in Hazards /\ run.state = "done" =>
           \A o \in Objects : kept[c][o] = Nobody

(* What a reset was to remove: everything of the run, but in namespaces it could
   not prove; the objects of an adopted release are its owner's. *)
LeftBehind(id) ==
  {c \in Components : /\ ~Unprovable(c)
                      /\ \/ installed[ReleaseOf(c)] = id
                         \/ /\ c \in Hazards /\ ~Adopted(c)
                            /\ \E o \in Objects : kept[c][o] = id}

ResetClean == run # NoRun /\ run.state = "done" /\ run.items # {}

(* SAFETY.  A reset that ends as done has removed every provable release the run
   created and every object those releases keep -- through failed attempts,
   retries and repeated resets -- unless an exit of the process destroyed the
   run's evidence.  Apply takes its snapshot once and a failed step merges it
   (apply.go:69-77, engine.go's Ownership merge). *)
CleanMeansRemoved == ResetClean /\ run.id \notin lost => LeftBehind(run.id) = {}

Removes(r) == installed[r] # Nobody /\ installed'[r] = Nobody

(* ACTION.  A teardown never removes a release that somebody else created
   (package teardown: "removes what one run installed, and nothing else"),
   whatever snapshots, retries, failures and crashes came before. *)
SparesOthers ==
  [][pc = "uninstall" => \A r \in Releases : Removes(r) => installed[r] = run.id]_vars

(* ACTION.  A purged object goes only after the release it belongs to is gone:
   its controllers would bring it back (purge.go's "CONFIRMED uninstall"). *)
PurgeFollowsRemoval ==
  [][\A h \in Hazards, o \in Objects :
       kept[h][o] # Nobody /\ kept'[h][o] = Nobody => installed[ReleaseOf(h)] = Nobody]_vars

(* ACTION.  A component that cannot be installed over is not installed while the
   run's own evidence lists a release of it (installedAlreadyMessage: it "cannot
   be safely installed over"). *)
RefusalStands ==
  [][pc = "deploy" /\ at \in Hazards /\ alreadyInstalled(scratch.own) # {} =>
       UNCHANGED cluster]_vars
=============================================================================
