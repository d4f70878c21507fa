---------------------------- MODULE Attribution ----------------------------
(***************************************************************************)
(* Who a cluster event is attributed to: the engine's attribution cursor   *)
(* (internal/engine/attribution.go), the accessor the console composes for *)
(* the observer (newRunScopeFn and newObserverScopeFn, internal/console/   *)
(* console.go), and the cluster-wide Node and Deployment handlers of the   *)
(* observer, whose events read it while runs start, fail and are retried.  *)
(*                                                                         *)
(* The accessor takes the engine's mutex three times, and the event it is  *)
(* read for is published after that.  Everything in between is a step.     *)
(***************************************************************************)
EXTENDS Naturals, FiniteSets

CONSTANTS
  Node, GPU,   (* a node's GPUAllocatable condition                        *)
  Deployment, Rollout, (* a Deployment's, in the one namespace modelled    *)
  NActions,    (* deploy.sh's actions, numbered as it starts them          *)
  MaxRuns,     (* bound: runs                                              *)
  MaxEpochs,   (* bound: goroutines launched, by Start or by Retry         *)
  MaxChanges,  (* bound: changes in the cluster                            *)
  MaxReleased  (* bound: timers between taking an arise and publishing it  *)

ASSUME AttributionAssumption ==
  /\ NActions \in Nat /\ MaxRuns \in Nat /\ MaxEpochs \in Nat
  /\ MaxChanges \in Nat /\ MaxReleased \in Nat
  /\ <<Node, GPU>> # <<Deployment, Rollout>>

VARIABLES
  run,         (* Engine.current's ID, 0 for none                          *)
  epoch,       (* Engine.epoch                                             *)
  terminal,    (* isTerminal(current.State)                                *)
  names,       (* what each run's recipe.json installs into                *)
  driver,      (* where each epoch's goroutine is, see Places              *)
  at,          (* the action deploy.sh has reached, by epoch               *)
  action,      (* Attribution.ActiveAction, 0 for none                     *)
  headers,     (* the actions of each run whose header is on the bus       *)
  cached,      (* newRunScopeFn's cached scope                             *)
  gpu,         (* the node's allocatable GPUs, and whether they last fell  *)
  dep,         (* the Deployment: ready and desired replicas, whether the status
                  is of this spec, and as history the last status that was *)
  workload,    (* Observer.workload                                        *)
  changes,
  pending, released, row, (* of Debounce; an event released is reading its scope *)
  placed,      (* the action whose row shows the condition, 0 for none     *)
  crossed      (* history: something was on its way when the rows were emptied *)

engine  == <<run, epoch, terminal, names, driver, at, action, headers>>
cluster == <<gpu, dep, workload, changes>>
shown   == <<row, placed>>
vars == <<engine, cached, cluster, pending, released, shown, crossed>>

Keys   == {<<Node, GPU>>, <<Deployment, Rollout>>}
Runs   == 1 .. MaxRuns
Epochs == 1 .. MaxEpochs
Actions == 1 .. NActions
Scopes == {"none", "ours", "others"}

INSTANCE Debounce

(* "printed" is between deploy.sh's header line and the bus, "marked" between
   the bus and setActiveAction; a goroutine has "left" Apply before it clears
   the cursor, and "finished" before it clears it once more. *)
Places == {"none", "early", "apply", "printed", "marked", "left", "failing",
           "finished", "over"}

Reading == [key : Keys, at : Nat \ {0}, resolved : BOOLEAN, handler : BOOLEAN,
            step : {"id", "names", "cursor", "publish"}, run : 0 .. MaxRuns,
            names : Scopes, on : 0 .. NActions]

TypeOK ==
  /\ run \in 0 .. MaxRuns /\ epoch \in 0 .. MaxEpochs /\ terminal \in BOOLEAN
  /\ names \in [Runs -> Scopes]
  /\ driver \in [Epochs -> Places] /\ at \in [Epochs -> 0 .. NActions]
  /\ action \in 0 .. NActions /\ headers \in [Runs -> SUBSET Actions]
  /\ cached \in [run : 0 .. MaxRuns, names : Scopes]
  /\ gpu \in [qty : 0 .. 2, fell : BOOLEAN]
  /\ dep \in [ready : 0 .. 2, desired : 1 .. 2, observed : BOOLEAN,
              told : (0 .. 2) \X (1 .. 2)]
  /\ workload \in (0 .. 2) \X (1 .. 2) /\ changes \in 0 .. MaxChanges
  /\ DebounceTypeOK /\ released \subseteq Reading
  /\ placed \in [Keys -> 0 .. NActions] /\ crossed \in BOOLEAN
  /\ \A e \in Epochs : driver[e] # "none" <=> e <= epoch
  /\ terminal => action = 0

Init ==
  /\ run = 0 /\ epoch = 0 /\ terminal = FALSE
  /\ names = [r \in Runs |-> "none"]
  /\ driver = [e \in Epochs |-> "none"] /\ at = [e \in Epochs |-> 0]
  /\ action = 0 /\ headers = [r \in Runs |-> {}]
  /\ cached = [run |-> 0, names |-> "none"]
  /\ gpu = [qty |-> 1, fell |-> FALSE] /\ changes = 0
  /\ dep = [ready |-> 1, desired |-> 2, observed |-> TRUE, told |-> <<1, 2>>]
  /\ workload = <<1, 2>>
  /\ DebounceInit
  /\ placed = [k \in Keys |-> 0] /\ crossed = FALSE

(***************************************************************************)
(* The engine.                                                             *)
(***************************************************************************)

Alive(e) == e = epoch

Goes(e, place) == driver' = [driver EXCEPT ![e] = place]

(* Start and Retry launch a goroutine under a new epoch.  The SPA's rows are of
   one run, and it empties them at "run retrying", which is published after the
   launching Save; what is emitted during the Save is of no row afterwards, as if
   it had come before. *)
Launch ==
  /\ epoch < MaxEpochs /\ epoch' = epoch + 1
  /\ terminal' = FALSE /\ driver' = [driver EXCEPT ![epoch + 1] = "early"]
  /\ row' = [k \in Keys |-> NoRow] /\ placed' = [k \in Keys |-> 0]
  /\ crossed' = ~Idle
  /\ UNCHANGED <<names, at, action, headers, cached, cluster, pending, released>>

Start ==
  /\ run < MaxRuns /\ (run = 0 \/ terminal)
  /\ run' = run + 1
  /\ Launch

Retry == terminal /\ Launch /\ UNCHANGED run

(* Recommend's success is merged: recipe.json exists from now on. *)
Recommend(e) ==
  /\ driver[e] = "early" /\ Alive(e) /\ names[run] = "none"
  /\ \E n \in Scopes \ {"none"} : names' = [names EXCEPT ![run] = n]
  /\ UNCHANGED <<run, epoch, terminal, driver, at, action, headers, cached, cluster,
                 pending, released, shown, crossed>>

Apply(e) ==
  /\ driver[e] = "early" /\ Alive(e) /\ names[run] # "none"
  /\ Goes(e, "apply")
  /\ UNCHANGED <<run, epoch, terminal, names, at, action, headers, cached, cluster,
                 pending, released, shown, crossed>>

(* Mutant of CursorAtHeader: the cursor moves before the marker is published. *)
CursorFirst(e) == at[e] + 1

(* emit publishes the marker and only then calls applyComponentMarker. *)
CursorAtHeader(e) == action

(* deploy.sh prints the header of its next action. *)
Header(e) ==
  /\ driver[e] = "apply" /\ at[e] < NActions
  /\ at' = [at EXCEPT ![e] = @ + 1] /\ action' = CursorAtHeader(e)
  /\ Goes(e, "printed")
  /\ UNCHANGED <<run, epoch, terminal, names, headers, cached, cluster, pending,
                 released, shown, crossed>>

(* The marker reaches the bus, stamped with the run the goroutine drives. *)
PublishMarker(e) ==
  /\ driver[e] = "printed"
  /\ headers' = [headers EXCEPT ![run] = @ \cup {at[e]}]
  /\ Goes(e, "marked")
  /\ UNCHANGED <<run, epoch, terminal, names, at, action, cached, cluster, pending,
                 released, shown, crossed>>

setActiveAction(e) ==
  /\ driver[e] = "marked"
  /\ action' = IF Alive(e) THEN at[e] ELSE action
  /\ Goes(e, "apply")
  /\ UNCHANGED <<run, epoch, terminal, names, at, headers, cached, cluster, pending,
                 released, shown, crossed>>

LeavesTo == "left"

(* Apply ends, or an earlier step fails. *)
Ends(e) ==
  /\ \/ driver[e] = "apply" /\ Goes(e, LeavesTo)
     \/ driver[e] = "early" /\ Goes(e, "failing")
  /\ UNCHANGED <<run, epoch, terminal, names, at, action, headers, cached, cluster,
                 pending, released, shown, crossed>>

(* Mutant of Clears: without the epoch's guard. *)
ClearsAlways(e) == TRUE

Clears(e) == Alive(e)

(* clearActiveAction, when Apply is left and once more in finish. *)
clearActiveAction(e) ==
  /\ driver[e] \in {"left", "finished"}
  /\ action' = IF Clears(e) THEN 0 ELSE action
  /\ Goes(e, IF driver[e] = "left" THEN "failing" ELSE "over")
  /\ UNCHANGED <<run, epoch, terminal, names, at, headers, cached, cluster, pending,
                 released, shown, crossed>>

(* finish, up to its unlock: Start and Retry are possible from here on. *)
Finish(e) ==
  /\ driver[e] = "failing" /\ Alive(e)
  /\ terminal' = TRUE /\ Goes(e, "finished")
  /\ UNCHANGED <<run, epoch, names, at, action, headers, cached, cluster, pending,
                 released, shown, crossed>>

(***************************************************************************)
(* The cluster and the handlers that watch all of it.  One informer's      *)
(* handler takes no notification while it publishes the last one.          *)
(***************************************************************************)

Free(k) == \A r \in released : ~(r.key = k /\ r.handler)

Event(k, stamp, resolved, handler) ==
  [key |-> k, at |-> stamp, resolved |-> resolved, handler |-> handler,
   step |-> "id", run |-> 0, names |-> "none", on |-> 0]

(* publish, for what submit lets through at once. *)
Passes(k, resolved) ==
  /\ released' = released \cup {Event(k, Now(k), resolved, TRUE)}
  /\ UNCHANGED pending

(* publish, for what submit holds back. *)
Waits(k) == pending' = [pending EXCEPT ![k] = Now(k)] /\ UNCHANGED released

Changes(k) == changes < MaxChanges /\ changes' = changes + 1 /\ Free(k)

(* onNode: a fall of the allocatable GPUs is trouble, a rise information. *)
NodeChanges(to) ==
  /\ Changes(<<Node, GPU>>) /\ to # gpu.qty
  /\ gpu' = [qty |-> to, fell |-> to < gpu.qty]
  /\ IF to < gpu.qty THEN Waits(<<Node, GPU>>) ELSE Passes(<<Node, GPU>>, TRUE)
  /\ UNCHANGED <<engine, cached, dep, workload, shown, crossed>>

(* ObservedGeneration has caught up with Generation. *)
Observed(d) == d.observed

(* onDeployment, of a new spec or a new status. *)
DeploymentChanges(to) ==
  /\ Changes(<<Deployment, Rollout>>) /\ to # dep
  /\ dep' = to
  /\ IF Observed(to) /\ workload # <<to.ready, to.desired>> THEN
       /\ workload' = <<to.ready, to.desired>>
       /\ Passes(<<Deployment, Rollout>>, to.ready >= to.desired)
     ELSE UNCHANGED <<workload, pending, released>>
  /\ UNCHANGED <<engine, cached, gpu, shown, crossed>>

NewSpec   == {[dep EXCEPT !.desired = n, !.observed = FALSE] : n \in 1 .. 2}
NewStatus == {[dep EXCEPT !.ready = n, !.observed = TRUE, !.told = <<n, dep.desired>>] :
                n \in 0 .. 2}

(* release: a window has passed. *)
Fires(k) ==
  /\ pending[k] # 0 /\ Cardinality({r \in released : ~r.handler}) < MaxReleased
  /\ released' = released \cup {Event(k, pending[k], FALSE, FALSE)}
  /\ pending' = [pending EXCEPT ![k] = 0]
  /\ UNCHANGED <<engine, cached, cluster, shown, crossed>>

(***************************************************************************)
(* emit: the scope is read, the event filtered, stamped and published.     *)
(***************************************************************************)

Becomes(r, s) == released' = (released \ {r}) \cup {s}

(* CurrentID *)
ReadID(r) ==
  /\ r.step = "id"
  /\ Becomes(r, [r EXCEPT !.run = run, !.step = "names"])
  /\ UNCHANGED <<engine, cached, cluster, pending, shown, crossed>>

(* Only a recipe that exists is cached. *)
Caches(id) == id # 0 /\ id = run /\ names[id] # "none"

(* newRunScopeFn under its own mutex: the cache, or Artifact. *)
ReadNames(r) ==
  /\ r.step = "names"
  /\ LET hit == cached.run # 0 /\ cached.run = r.run
         read == IF r.run # 0 /\ r.run = run THEN names[run] ELSE "none"
     IN
     /\ Becomes(r, [r EXCEPT !.names = IF hit THEN cached.names ELSE read,
                             !.step = "cursor"])
     /\ cached' = IF ~hit /\ Caches(r.run) THEN [run |-> r.run, names |-> read]
                  ELSE cached
  /\ UNCHANGED <<engine, cluster, pending, shown, crossed>>

(* Mutant of Agrees: what the two reads say is merged. *)
AgreesAlways(r) == TRUE

(* newObserverScopeFn: both reads are of one run, or there is no scope. *)
Agrees(r) == r.run = run

InScope(r) == r.key = <<Node, GPU>> \/ r.names = "ours"

(* Attribution; emit drops what is not in scope. *)
ReadCursor(r) ==
  /\ r.step = "cursor"
  /\ LET s == IF Agrees(r) THEN [r EXCEPT !.run = run, !.on = action]
              ELSE [r EXCEPT !.run = 0, !.names = "none"]
     IN IF InScope(s) THEN Becomes(r, [s EXCEPT !.step = "publish"])
        ELSE released' = released \ {r}
  /\ UNCHANGED <<engine, cached, cluster, pending, shown, crossed>>

(* The bus, and the SPA: relevantTo, foldClusterEvent.  A late event of the run
   before turns the SPA back to that run until the next event of this one, which
   folds everything again: here it is dropped at once. *)
Folded(r) == r.run # 0 /\ r.run = run

PublishEvent(r) ==
  /\ r.step = "publish"
  /\ released' = released \ {r}
  /\ Emit(r.key, r.at, r.resolved, Folded(r))
  /\ placed' = IF Folded(r) /\ Supersedes(r.key, r.at) /\ placed[r.key] = 0
               THEN [placed EXCEPT ![r.key] = r.on] ELSE placed
  /\ UNCHANGED <<engine, cached, cluster, pending, crossed>>

-----------------------------------------------------------------------------
Drives(e) ==
  \/ Recommend(e) \/ Apply(e) \/ Header(e) \/ PublishMarker(e) \/ setActiveAction(e)
  \/ Ends(e) \/ clearActiveAction(e) \/ Finish(e)

Next ==
  \/ Start \/ Retry
  \/ \E e \in Epochs : Drives(e)
  \/ \E n \in 0 .. 2 : NodeChanges(n)
  \/ \E d \in NewSpec \cup NewStatus : DeploymentChanges(d)
  \/ \E k \in Keys : Fires(k)
  \/ \E r \in released : ReadID(r) \/ ReadNames(r) \/ ReadCursor(r) \/ PublishEvent(r)

Spec == Init /\ [][Next]_vars

-----------------------------------------------------------------------------
(* An event about to be published was filtered by the namespaces of the run it
   is stamped with, whichever run started between the two reads (Ruling 6). *)
OneRunScope ==
  \A r \in released : r.step = "publish" /\ r.run # 0 =>
    r.names \in {"none", names[r.run]}

(* No event and no row cites an action whose header is not on the bus yet
   (the contract of runStep's emit). *)
HeaderFirst ==
  /\ \A r \in released : r.on # 0 => r.run # 0 /\ r.on \in headers[r.run]
  /\ \A k \in Keys : placed[k] # 0 => placed[k] \in headers[run]

(* The cursor is on the action the live goroutine installs, and on none when
   it installs nothing: a goroutine that is only finishing its last run does
   not move it (attribution.go's guards). *)
CursorFollowsDriver ==
  epoch # 0 =>
    /\ driver[epoch] = "apply" => action = at[epoch]
    /\ driver[epoch] \in {"early", "failing", "finished", "over"} => action = 0

(* The accessor never pins an answer from before the recipe: what it has
   cached for a run is what that run's recipe says. *)
CacheIsRecipe == cached.run # 0 => cached.names = names[cached.run] /\ cached.names # "none"

(* What an event is filtered by is what the recipe of its own run says, whether
   it was read or cached (Ruling 6 and the cache of newRunScopeFn). *)
ScopeIsRecipe == OneRunScope /\ CacheIsRecipe

(* The node's row says how its capacity moved last, although the event of a
   fall waits for its window and the rise that follows it does not. *)
NodeRowIsCurrent ==
  Idle /\ ~crossed /\ row[<<Node, GPU>>].at # 0 => row[<<Node, GPU>>].resolved = ~gpu.fell

(* A Deployment's row says what its controller last said of the spec it had,
   not what the status of a spec before it makes of the new one. *)
RolloutRowIsHonest ==
  Idle /\ ~crossed /\ row[<<Deployment, Rollout>>].at # 0 =>
    row[<<Deployment, Rollout>>].resolved = (dep.told[1] >= dep.told[2])

(* Once nothing is on its way the rows of the cluster-wide handlers are those of
   the cluster: no late fall after a rise, no rollout from a stale status
   (clusterConditionSupersedes, onNode, onDeployment). *)
RowsAreCurrent == NodeRowIsCurrent /\ RolloutRowIsHonest
=============================================================================
