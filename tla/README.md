# A TLA+ development of aicrme

aicrme is a local web console that installs a GPU software stack into a
Kubernetes cluster: it discovers the cluster, recommends a recipe, builds a
bundle, applies it with helm, validates it and proves it with a two-pod gang.
One process, one cluster, one *current run*. What makes it hard is not the
steps but everything around them: operators who click while a goroutine works,
saves and cluster calls that fail half way, a laptop that closes in the middle,
and a teardown that must remove what this run installed and nothing else.

The modules here model that core, TLC checks it on small instances, and TLAPS
proves its central invariants for every instance. Line numbers refer to the
sources at this commit.

## 1. Inventory

| component | state it keeps | operations | status |
|---|---|---|---|
| **run lifecycle** `engine/engine.go` | `current`, `epoch`, `recoveredPending`, `draining`, the resume channel, `cancel`/`done` of the goroutine | Start, Retry, Decide, Discard, Stop, CancelAndWait; the goroutine: execute, awaitDecisions, runStep, finish | modelled: `Engine` |
| **reset** `engine/reset.go` | `Residue` of the run | Reset, runReset | modelled: `Engine` (its concurrency), `Install` (its effect) |
| **recovery** `engine/recover.go` | `volatile` (the store swapped for memory) | Recover | modelled: `Engine` |
| **reconciliation** `engine/reconcile.go` | none | ReconcileWorkloads, adopt | modelled: `Engine` |
| **run store** `engine/store.go`, `filestore.go` | `<id>.run` files and the pointer `current` | Save, Delete, LoadCurrent | modelled: `RunStore`, `FileStore` |
| **apply and ownership** `steps/apply.go`, `ownership.go` | `Ownership`, `Components` on the step's copy | snapshotOwnership, alreadyInstalled, trackComponents | modelled: `Install` |
| **teardown** `teardown/*.go` | outcomes, the `stopped` flag | Releases, purge | modelled: `Install` |
| **applier** `applier/*.go` | output tail | Apply: deploy.sh and its markers | partly: what Apply sees of it |
| **event bus** `bus/bus.go` | circular buffer, subscriber channels, IDs | Publish, Subscribe, unsubscribe, since | modelled: `EventBus` |
| **event stream** `api/events.go`, `web/src/useEvents.ts` | connection; the hook's refs and state | handleEvents; epoch and message handlers, reconnects | modelled: `EventStream` |
| **prove** `steps/prove.go`, `prove/client.go` | the Job and its pods, awaitGang's map | Apply, awaitGang, cleanup, EnsureAbsent, Stop's use of it | modelled: `ProveJob`, `Workload`; its effects are steps of `Engine` |
| **other steps** `steps/*` | artifacts | Run | partly: a gate, a success, a failure |
| **observer** `observer/*` | informers and their caches, what has been narrated, the debouncer's pending arises | reconcile, the handlers, submit and release | partly: `Observer`, `Attribution`, `Debounce` (no DaemonSets) |
| **attribution** `engine/attribution.go`, the scope accessors of `console.go` | active action, cached scope | setActiveAction, clearActiveAction, Attribution, newRunScopeFn, newObserverScopeFn | modelled: `Attribution` |
| **condition precedence** `bus/cluster.go`, the fold of `pipeline.ts` | a row per condition | Supersedes, foldClusterEvent | modelled: `Debounce` |
| **connect and wiring** `console/connect.go`, `console.go` | the single-assignment connection, the pin of KUBECONFIG | Connect, dial, the hook's eight steps, shutdown | modelled: `Console` |
| **session and lock** `console/session.go`, `lock.go` | the lock file, one credentials directory per launch | acquireLock, releaseLock, freeze, close, sweep | modelled: `Console` |
| **HTTP API** `api/*` | draining | one handler per engine call, connect, events | partly: requests of `Engine`, `Console`, `EventStream` |
| **gap rules, driver survey, record codec, AICR client, preflight, screens** | none across calls | pure functions and I/O | not modelled; reasons in `PROJECT.json` |

How they interact. HTTP handlers call the engine; the engine runs one goroutine
per launch, which calls the steps; steps call the cluster and publish through
an `emit` to the bus; the bus feeds every open tab through `handleEvents`.
Engine state is shared under `Engine.mu`, which is *never* held across I/O, so
every Save, Delete and cluster call is a window. A goroutine that comes back
from one asks `aliveLocked(epoch)` whether it is still the one in charge. Before any
of this, a connect wires the engine to one cluster: its store, its clients, an
observer. The observer's informers follow the run through an accessor of the
engine, decide under their own locks and publish after them, so that an event
can meet another run, another attempt or another handler on its way to a tab.

The hard behaviours, and what should hold of them:

* **A goroutine outlives its mandate.** Start, Retry and Reset bump `epoch` and
  launch a goroutine; an older one may still be in a call. At most one drives
  the run, and a live run has one (`OneDriver`), also when the Save of the
  launch fails (`DrainCompletes`, `LiveRunSettles`).
* **Refusals.** Start, Retry, Discard, Stop and Reset each refuse in some state
  and name another call as the way out; together they must leave one open
  (`RefusalHasRemedy`; `RecoveredGateHasRun` says it of the recovered-run gate).
* **The record lags the memory.** What a crash leaves on disk must be enough
  to go on from: a decision acknowledged (`AckedDecisionDurable`), a run with a
  record (`LiveRunHasRecord`), a bundle to apply (`ApplyHasBundle`), a
  half-removed installation (`HalfRemovedIsGuarded`).
* **The cluster is shared and slow.** `done` means the workload has been seen
  absent (`DoneMeansGone`), a workload is never abandoned (`WorkloadTracked`),
  after a shutdown no goroutine drives a run (`DrainedIsQuiet`).
* **Ownership is evidence gathered once.** A reset removes what the run made
  (`CleanMeansRemoved`), spares what others made (`SparesOthers`), purges in
  the safe order (`PurgeFollowsRemoval`) and reports what it did
  (`InventoryHonest`).
* **Prove talks to a cluster that answers late.** A call fails before or after
  its effect, a deletion takes as long as it likes. A run is unmarked only over
  an empty cluster (`UnmarkedIsGone`), two gangs never meet
  (`OneGang`), an active run has its gang (`ActiveHasGang`), and every call ends
  (`CallsEnd`); each answer means what the engine takes it for (`KeepsPromise`).
* **A process is wired once and killed any time.** One launch owns the work
  directory (`SoleOwner`); behind the gate everything is on one cluster
  (`OneCluster`); a record is only changed by who holds its run (`RecordsKept`);
  credentials live as long as they are needed and no longer
  (`CredentialLifetime`); it can be stopped (`ShutdownEnds`).
* **A row must not lie for long.** An event belongs to one run and its recipe
  (`ScopeIsRecipe`) and to an action the tab has seen begin (`HeaderFirst`,
  `CursorFollowsDriver`). When nothing is under way, what is red is wrong
  (`NoRedOnHealthy`), what is wrong is red (`NoHiddenFailure`), and what is red
  can still be cleared (`RedIsRemembered`, `DeadIsForgotten`); nodes and
  rollouts end as the cluster did (`RowsAreCurrent`);
  informers follow the run (`ScopeFollowed`).
* **A stream that drops events must not hide it.** `ReplayIsTail`,
  `OneLifetime`, `LossAccounted`, `QuietIsCurrent`, `ReconnectsEnd`.

`PROJECT.json` lists every hazard at its line with the properties that watch
it, and a note where one is excepted. The type invariant `TypeOK` of each module
is stated there and, where section 4 says so, proved; the runs spend their time
on the properties above.

## 2. The modules

```
RunStore  <--refines--  FileStore      EventBus             Debounce
    |                       |              |               /        \
  Engine             FileStoreProofs  EventStream     Observer   Attribution
    |                                      |              |           |
EngineProperties                EventStreamProofs  ObserverProofs  AttributionProofs
    |
EngineInvariants
    |
EngineProofs    Install -- InstallProofs         Console -- ConsoleProofs

Workload  <--refines--  ProveJob -- ProveJobProofs
```

**`RunStore`** is the store the engine is written against: a pointer and a
record, one atomic step per Save and Delete, and the two ways they fail
(`SaveFailed` may have written the record and not moved the pointer,
`DeleteFailed` may have removed the record and left the pointer `Dangling`).

**`FileStore`** is `filestore.go`: one file per run, a pointer file, a
read-write lock, the two file operations of a Save or Delete as two steps with
failures and crashes between them, and readers. Its variables `file`,
`current` map to `RunStore`'s `rec`, `ptr` under the refinement
`ImplementsRunStore`, which is checked and proved. fsync ordering is left out:
the code's comments accept it.

**`Engine`** composes the lifecycle with `RunStore`. Every section under
`Engine.mu` is one action and every call between two sections another:

| code | actions |
|---|---|
| Start / Retry / Reset | `Start` `Retry` `Reset` (state and epoch), then `LaunchSaved` or `StartFailed` `RetryFailed` `ResetFailed` |
| execute, awaitDecisions | `Complete`, `Park`, `ParkSaved`, `Resume`, `ParkCanceled` |
| runStep | `RunStep`, `StepSaved`, `StepSucceeds` / `StepFails` / `ProveCleaned` / `ProveUncleaned`, `MergeSaved` |
| finish | `FinishAs` in the ending action, then `FinishSaved` |
| runReset | `WorkloadAbsent` / `WorkloadStuck`, `ReleasesRemoved` / `ReleasesKept`, `ResetSaved`, `ResetDelete`, `ResetClear` |
| Decide | `Decide`, `DecideSaved` / `DecideFailed`, `DecideResume` |
| Discard | `Discard`, `DiscardDeleted` / `DiscardFailed` |
| Stop | `Stop`, `StopAbsent` / `StopFailed`, `StopMark`, `StopFinish`, `StopSaved`, `StopClear` |
| process | `CancelAndWait`, `DrainReturns`, `Crash`, `Recover`, `Reconcile` |

`thr[e]` is the goroutine launched with epoch `e`, `req[c]` the request that
caller `c` is inside. The cluster is `wl` (runs whose workload exists) and
`rel` (a run's releases: none, present, half removed). Data is kept to what the
properties tell apart: decisions are one bit per gate, because Decide accepts
exactly the pending keys; Components is "is not empty"; the failure merge of
runStep and the state change of finish are one action although the lock is let
go for a log line between them; a refusal by Apply is one of the ways a step
fails here and is modelled in `Install`. A fault is enabled by its name in
`Faults`, so that a run can say which calls fail.

`Clients` says how soon operators act, because several orders exist only for
a client that does not wait:

* `"polling"`: any time, the state as read through the API.
* `"events"`: not between a terminal state change and its Save, nor a decision
  before the parked run's Save, because the event an operator reacts to is
  published after it.
* `"patient"`: additionally not while the Delete that follows a clean reset or
  a discard is in flight.

**`EngineProperties`** states the properties and the fairness,
**`EngineInvariants`** the inductive invariants under them (section 4).

**`Install`** is one run of the console against the cluster's releases:
`installed[r]` is who made release `r`, `kept[h][o]` who made an object that
helm's `resource-policy: keep` leaves behind. Apply's snapshot, its refusal,
deploy.sh component by component (each may fail having made nothing, a release
or some objects), the merge of a failed step, Validate and Prove as
`LaterSteps`, the teardown per component with its four answers, the purge
object by object, the inventory, cancellation, a crash, recovery. One request
at a time: the interleavings of the engine's calls are `Engine`'s subject. A
Save on the way may fail (`Settle`), a launching Save that fails changes
nothing. Assumptions about the environment, all
visible in the guards: other people use the cluster only while the console has
neither a run nor a record of one (otherwise no snapshot means anything), the
snapshot of the namespaces is one step, and a recovered run is discarded before
a new Start. `lost` is a history variable: the runs of which an exit destroyed
evidence that was not in the record.

**`EventBus`** is `bus.go` on event IDs; **`EventStream`** adds one tab: the
handler that greets with the epoch and subscribes in a second step, the frames
on the wire, connections that break anywhere, a console that restarts with IDs
from 1, and the hook with its cursor, gap detection, bounded retries and loss
counter. Left out: keepalives, marshalling errors, the hook's unmount, the
session probe and the `connected` flag.

**`ProveJob`** is `steps/prove.go` over `prove/client.go`, one action per API
call: the namespace, Get, the delete and the wait of a replacement, Create, the
polls of awaitGang, the cleanup's delete and wait, and Stop's. A writing call
that fails may have taken effect by then. The cluster makes the pods, binds or
fails them, and removes a deleted Job's pods before the Job (foreground), or
the Job first where a mutant says background. `hash` stands for the rendered
manifest: another process may be configured differently. **`Workload`** is the
promise: absent, here or leaving, and what each answer of the step says of it.
`Engine`'s `StepSucceeds`, `StepFails`, `ProveCleaned`, `ProveUncleaned` and
`StopAbsent` assume it; `ProveJob` implements it (`KeepsPromise`) while a Retry
waits for a deletion to end (`PatientRetry`; section 5 has what happens if not).

**`Console`** is `console.go`, `connect.go`, `session.go`, `lock.go` for several
launches of the program on one work directory:

| code | actions |
|---|---|
| prepareWorkDir: sweep, lock | `Launch`, `CreateLock`, `WriteLock`, `Refused`; `OperatorClears` a lock whose owner is dead |
| handleConnect, Connect, dial | `Admit` (the list the operator picked from), `Connect`, `Dial` |
| the hook | `Freeze`, `Register` (cleanup and KUBECONFIG), `OpenStore`, `Wire`, `Recover`, `Reconcile`, `StartObserver`; then `Commit` |
| the engine, as far as wired | `StartRun`, `Retry`, `Discard`, `RunEnds`: which store a Save reaches |
| shutdown | `Drain`, `Cancel`, `CloseSession`, `Exit`; `Kill` at any time |

Every step of the hook may fail and leaves what it has done. A launch stands for
its PID (reuse of PIDs is left out), and the engine for what its wiring can get
wrong; `Engine` has its calls.

**`Debounce`** is the debouncer and the other end of it: `pending` is what waits
in a window, `released` what a timer has taken under the mutex and not emitted,
`row` what foldClusterEvent makes of the events. Windows are timers that fire at
any time; times are only compared, so a row alone in the world is put at 1,
which keeps the states finite. **`Observer`** composes it with the scoped Pod
and Event informers of one namespace: `Reconcile` (its teardown, its restart,
`everTornDown`), each informer's initial list and queue, the handlers in two
halves (what they decide under the locks, and `Publish`), and the corroboration
of an Event by the pod cache. Data is which trouble a pod has. Three orders in
which the code loses or strands a row are kept in the behaviours and recorded
in `gaps` (section 5); `NoRedOnHealthy` and `RedIsRemembered` say that there
are no others, `NoHiddenFailure` needs no exception. `Patient` says that Start
and Retry wait until the last attempt's events have arrived; section 5 has what
happens if they do not.

**`Attribution`** is the cursor of `attribution.go`, the accessor of
`console.go` that reads the engine three times (`ReadID`, `ReadNames`,
`ReadCursor`, each a step), and the cluster-wide handlers of nodes and
Deployments that publish through `Debounce`; an event `released` carries what it
has read so far. Goroutines are driven by epoch: `Header`, `PublishMarker`,
`setActiveAction`, `Ends`, `clearActiveAction`, `Finish`.

Both take a Retry's state change and its "run retrying", which empties the rows,
as one step. A Save lies between. In `Observer` an arise observed during it is
emitted when its window of two seconds closes, and the Save of one small file is
taken to be over by then; in `Attribution` such an event is of no row later, as
if it had come before. Also left out: the rows of the run before, which a late
event of it shows again until the next event of this one (`relevantTo`); a pod
made again under the name of another, which `currentPod` would find; and the new
message when another container of a pod has the same trouble.

## 3. The runs

| run | question | bounds, and why they are enough |
|---|---|---|
| `store` | Is the two-file store the one-step store? | 2 runs × 2 versions, 3 callers, 6 operations: a Save, a Delete and a reader of different runs at once, with failures and a crash |
| `callers` | Two operators and shutdown | 2 runs, 2 callers, 2 launches: Stop against Retry, Discard or Start, at any step of either; no crash, which is `live`'s |
| `recovery` | Is the record enough, and no refusal a dead end? | 4 steps, so that Bundle is neither first nor last and gates lie before and after it; 1 crash, 3 launches (run, retry, reset); patient clients |
| `live` | One driver; does a run settle, does shutdown end? | 1 run, 1 caller, 3 steps with one gate, 2 launches per life, 1 crash; every Save, Delete and load fails as well as not, and the operator acts in any interval |
| `stream` | Does a tab stay honest? | capacity 2, buffer 1, 6 events: the buffer is overwritten twice and outruns the tab; 2 lives, 1 break, 3 attempts as in the code |
| `install` | Does reset remove the run's own and spare the rest? | 2 components (one ordinary, one hazard) in one namespace of two, 2 objects, 2 runs, so that a second run meets the first one's leftovers; a crash |
| `console` | Is the process wired to one cluster, and the disk left in order? | 2 launches (one with --kubeconfig), 2 contexts of 2 clusters, 2 connect requests, 1 kill: a connect races another, a shutdown and a launch that died |
| `prove` | Is the workload where the engine believes it is? | a gang of 2, 2 configurations, 3 Jobs, 2 ends of the process: a retry replaces a gang of another process and fails again |
| `observer` | Do rows come to say what the cluster is? | 1 pod with 2 troubles and its owner, 2 attempts, 3 changes, 1 timer in flight: trouble, recovery and trouble again around a teardown and a restart |
| `attribution` | Whose event is it? | 2 runs or a run and its retry, 2 actions, 2 changes, a node and a Deployment |
| `retry_climbs` `dying_gang` | two disagreements of section 5 | the smallest instance that shows each |

`recovery` excludes the faults `reset` and `load`, and its clients are patient:
with these it is the code's own disagreements (section 5) that fail it, so what
it shows is that nothing *else* breaks the record. In the same way `callers` has
no crash and `prove` a patient Retry. `live` leaves the faults `list`, `absent`
and `uninstall` to `callers` and `recovery`: they change what the cluster holds
and not who drives a run. Every passing run explores its instance completely,
within the bounds named as constants; deadlock is checked in `console`, where
nothing may hang before every launch has ended, and not in the others: a bounded
model stops when its launches, crashes or events are used up, and the console
itself may rest with nothing to do. Symmetry is used on run IDs, callers, and
objects where nothing is chosen by order, and never where liveness is checked.

**Fairness.** `Engine`: weak fairness of each goroutine's and each request's
next step, of Recover, Reconcile and of the return of CancelAndWait. The Go
scheduler gives the first; every store and cluster call is bounded by a timeout
in the code, so it returns. Nothing is assumed of operators or of crashes: a
parked run may stay parked. `EventStream`: weak fairness of the handler, the
browser (delivery, timers, EventSource's own retry) and of handlers noticing a
closed connection. Publishers are not fair; `ReconnectsEnd` holds because the
attempts are counted. `Console`: only the timers of the shutdown; a dial may
hang and a signal need not come. `ProveJob`: an API call returns and a budget
runs out, each bounded by a context in the code; the cluster may do nothing for
ever. `Observer`: the reconcile ticker and the delivery of notifications;
`ScopeFollowed` must hold although every bus event may be dropped.

Each property of a run has a mutant in `PROJECT.json`: a plausible bug, written next to
the definition it replaces, that breaks the property in the same run.

## 4. What is proved

Eight modules, `<Component>Proofs`; every theorem holds for every value of the
constants that satisfies the named assumptions of the component's module
(`PipelineAssumption`: Bundle before Apply before the last step;
`BoundAssumption`, `NullAssumption`, `NoRunAssumption`; `StoreAssumption`;
`BusAssumption`, `StreamAssumption`; `RecipeAssumption`, `InstallBounds`,
`InstallNulls`, `NoRunIsNoRun`; `ConsoleAssumption`; `ProveAssumption`,
`NoJobIsNoJob`; `AttributionAssumption`; `ObserverAssumption`).

* `FileStoreTyped`, `LocksHeldHolds`, `DanglingMeansTornHolds`,
  `FileStoreImplementsRunStore`.
  The invariant adds, for each place in a call, who holds the lock and what the
  files are then (`CallOK`), and that a pointer without its record is explained
  by a Delete in progress or one that ended half way. The refinement maps
  the second file operation of each call to the abstract step and the first one
  to a stutter or to the abstract failure.
* `EngineTyped`, `OneDriverHolds`, `RecoveredGateHolds`, `DrainedIsQuietHolds`
  (no hypothesis).
  `OneDriver` is not inductive. The invariant `IInv` is `WorldOK` (types of the
  cluster and history) and `Core`: where each goroutine may be relative to the
  epoch (`CoreOK`: a later epoch is unborn, an earlier one is spent), what a
  request remembers for its rollback, what the phases of the process allow
  (`PhaseOK`) and whom CancelAndWait waits for (`DrainOK`). The proof sorts the
  actions into those that continue driving, retire, trail behind, launch, and
  ask; one lemma per kind shows what such a step keeps, and each action is
  shown to be of its kind.
* What the engine promises of the record and of the cluster, in layers over
  `IInv`; section 5 has why each hypothesis is there.

  | theorem | hypothesis | invariant added |
  |---|---|---|
  | `RefusalHasRemedyHolds` | none | `RecordInv`: what a loaded or saved run may look like, in memory, in the record and in a goroutine's snapshot |
  | `ApplyHasBundleHolds` | the launching Save of a Reset does not fail | `BundleOK`: a run that may go on behind Bundle has its bundle in this process |
  | `DoneMeansGoneHolds` | the same | `DoneOK`: what is recorded as done has no workload, and nothing else that is known of that run can be resumed |
  | `WorkloadTrackedHolds` | the same, and no crash | `TrackOK`: a workload is the current run's, which is active, resetting or marked, or still inside Prove |
  | `AckedDecisionDurableHolds` | clients react to events | `CalmSaves`, `DecideOK`, `AckedOK`: one Decide at a time, and no Save still to come has an older record than the acknowledged one |
  | `LiveRunHasRecordHolds` | patient clients | `CalmDeletes`, `PersistOK`: no Delete in flight beside a goroutine that drives, whose run is on disk once it is launched |
  | `HalfRemovedIsGuardedHolds` | patient clients, no failing load or reset Save, at most one crash | `HalfOK`: half a removal is remembered by the current run, on disk, and by every Save still to come |

  None of these is inductive alone: a property of the state in memory has to be
  carried through the snapshots that goroutines hold, the record they write, and
  the crash and `Recover` that read it back.
* `ReplayIsTailHolds`: slot `(head + i) % Capacity` holds the `i`-th oldest ID
  (`RingOK`); the only arithmetic lemma is how an index wraps.
  `OneLifetimeHolds`: every frame on the wire, the subscription and the
  timeline agree on the life they come from until the greeting of the next one
  has been read (`LifeOK`). `LossAccountedHolds` and `QuietIsCurrentHolds` (no
  hypothesis): `FlowInv` adds that the channel, the wire and the hook's queue
  are increasing stretches of one stream of IDs (`ChanOK`, `WireOK`, `QueueOK`)
  and where the cursor stands in it (`CursorOK`); `AccountOK` counts what is
  missing between them. `since` is the loop of the code as a recursive function
  (`NewerThan`); what it returns is shown from the least place where it would be
  wrong.
* `InstallTyped` and `SparesOthersHolds`: the invariant `EvidenceOK` says that
  a snapshot lists every release somebody else made in the namespaces it could
  read, wherever a snapshot is held: in memory, on Apply's copy and in the
  record; and that a run with components has one. `InventoryHonestHolds`,
  `CleanMeansRemovedHolds` and `PurgeFollowsRemovalHolds` (no hypothesis) follow
  a teardown: what the evidence says of each release and object that is still
  there (`OwnersOK`, `CompleteOK`), what has been removed at each place of the
  loop and what the inventory says of it (`UnderwayOK`, `PurgingOK`), and what an
  ended teardown and its record have told (`EndedOK`).

* `ConsoleTypes`, `OneOwner`, `WiredToOneCluster`, `Credentials`,
  `RecordsAreKept`. Each launch has a local invariant (`LaunchOK`): only one
  request is behind the gate and it knows what the hook has done so far
  (`TurnOK`), what a closed gate means for the wiring (`GateOK`), when the
  session directory exists and who will remove it (`SessionOK`), and which run
  the engine holds given what the record says (`RecordOK`). Launches meet only
  through the lock, the records and the sweep.
* `ProveTypes`, `NothingLeftUnmarked`, `GangsApart`, `MarkStays`, `ActiveIsPlaced`,
  `ImplementsWorkload`. `GangOK` says that all pods are of one Job and none exist
  without it or its deletion, `RunOK` what each place of the step and each state
  of the run know about it. The last two theorems are conditional on
  `PatientRetry`; the run `dying_gang` shows why.
* `ScopeOfOneRun`, `HeadersLead`, `CursorFollows`: `ReadingOK` relates what a
  reader has collected to the engine at the time of each of its reads, `CacheOK`
  what is cached to the recipe. `RowsCatchUp` (no hypothesis): what the handlers
  have heard last, what waits in a window or is released, and the row account
  for one another (`HandlersOK`, `TimesOK`, `AttemptOK`).
* `DeadStaysForgotten` (no hypothesis): every write into what the handlers
  remember is made under the lock that a teardown takes.
* `NoRedOnHealthyHolds`, `RedIsRememberedHolds`, `NoHiddenFailureHolds`, all with
  `Patient`. The invariant `RowInv` follows one condition from the cluster to its
  row: the initial list comes first and the last word about a pod in a queue is
  what the cache says (`FeedOK`); what a handler has decided and not published is
  at most one word per condition (`HandsOK`); memory, unpublished words, window
  and row account for one another (`PodWords`, `WarningWords` in `WordsOK`); what
  waits in the window is the latest of its condition (`TimesOK`); what was so
  when the attempt first looked is known (`MemoryOK`); and until an attempt
  watches, nothing of it exists (`ScopeOK`).

The times of `Observer` and `Attribution` are maxima of sets. That a bounded
set of numbers has a maximum, and that a loop of `EventBus` has found the least
index it looks for, are proved from the minimum of a well-founded order
(`LeastNat`), not by an induction theorem over an operator.

Only model-checked:

* liveness under fairness, outside the prover: `LiveRunSettles`,
  `DrainCompletes`, `ReconnectsEnd`, `ShutdownEnds`, `CallsEnd`, `ScopeFollowed`;
* the engine's properties beyond the hypotheses of their theorems, where the runs
  go further: `HalfRemovedIsGuarded` holds for clients `"events"` and one crash
  on `MCEngine`'s instance, but `HalfOK` is no invariant there: a late Delete
  can leave memory as the only place of the guard;
* the runs that expect a violation.

`TypeOK` of `EventStream`, `Observer` and `Attribution` as such is no theorem:
the invariants above contain the parts of it that the proofs need, and it holds on
the instances of their configurations (add `INVARIANT TypeOK`).

## 5. Where the code and its words disagree

With a run that shows it (quotations in `PROJECT.json`):

1. `retry_climbs`: a refused Apply stores its snapshot, so a Retry is no longer
   the first attempt and installs over what the refusal protected.
2. `dying_gang`: a Retry while the last attempt's Job is still being deleted
   finds it, matches its hash, and becomes active over a gang that is going.

Without a run, each a counterexample of `MCEngine` with `RunIDs = {r1}`,
`Callers = {c1}`, three steps with Bundle 0, Apply 1, `Gates = {1}`, no symmetry
needed, and the constants given (everything else as in `MCEngine_live.cfg`,
`SPECIFICATION Spec`):

3. `AckedDecisionDurable` with `Faults = {}`, `Clients = "polling"`,
   `MaxEpoch = 1`, `MaxCrashes = 0`. Decide (`engine.go:641`) wants the decision
   durable before the parked step proceeds; the parked goroutine saves its own,
   older snapshot after releasing the mutex (`engine.go:785-793`), and that Save
   may land last.
4. `HalfRemovedIsGuarded` with `Faults = {"reset", "uninstall"}`,
   `Clients = "patient"`, `MaxEpoch = 3`, `MaxCrashes = 0`. `reset.go:181-184`
   says of a failed Save that nothing was removed; a repeated Reset has cleared
   the guard of the first one before it saves (`reset.go:150`).
   More ways: `Clients = "polling"`; the fault `"load"`, where a console that
   could not load the record starts over the half removal; and `MaxCrashes = 2`
   with `RunIDs = {r1, r2}`: a crash inside a Delete leaves the pointer dangling,
   the next life falls back to a store in memory, and the second crash forgets
   the guard of a removal that ended half way there.
5. `LiveRunHasRecord` with `RunIDs = {r1, r2}`, `Faults = {"step"}`,
   `Clients = "events"`, `MaxEpoch = 2`, `MaxCrashes = 0`. `engine.go:1322-1325`
   lets a newer Start win over a Discard in flight, in memory; `Delete` takes no
   run ID and removes what the pointer names.
6. `WorkloadTracked` with `Faults = {}`, `Clients = "patient"`, `MaxEpoch = 1`,
   `MaxCrashes = 1`. `reconcile.go:138-143` says Stop is the remedy of a failed
   run with a workload; after a crash between Prove's create and its end the
   recovered run is not marked, and Stop refuses it.
   Without a crash the fault `"reset"` is enough, as in 7.
7. `reset.go:174-188` says that after a launching Save of a Reset that failed
   (`"reset"` in `Faults`) the run is exactly as it was, and leaves it failed,
   whatever it was: an active or a done run can then be retried from where it was,
   and an active one has a workload that nobody has marked. That also breaks `ApplyHasBundle` (patient clients, `MaxEpoch = 3`,
   `MaxCrashes = 1`) and, with `Clients = "polling"` and a crash,
   `DoneMeansGone`. With patient clients `DoneMeansGone` survives every fault on
   the same instance.

And of the newer modules:

* `PickAgain` of `Console`: `connect.go:343-345` says that after a failed
  attempt the operator can pick again. Without `--kubeconfig`, an attempt that
  fails behind the pin of KUBECONFIG (at opening the store) leaves it
  on the session file, which `loadingRules` then reads: the list is the one
  context frozen there, although the others exist.
* `Observer` with `Patient = FALSE`: `Retry` empties the SPA's rows, but not the
  debouncer, nor the informers of the attempt before, which a quick Retry keeps
  (`scoped.go:45-52` takes a retried run for one that simply is not terminal).
  What they had under way is published into the new attempt, and nobody
  rechecks it: `RedIsRemembered` and `NoRedOnHealthy` fail (an arise of attempt
  1 and its recovery leave the window together, the arise lands last), and so
  does `NoHiddenFailure` (a pod the kept informer lists only after the Retry is
  seeded in silence, as if it had been so before the run). `DeadIsForgotten`
  holds without the assumption too.
* The gaps of `Observer`: `overtaken`, a pod's recovery is handled between an
  Event handler's decision and its publish, and the row turns red after it;
  `forgotten`, an Event reaches its TTL while its row is red
  (`handlers.go:210-249` publishes nothing, on purpose); `unlisted`, an Event is
  taken before the Pod informer has listed, so the corroboration of
  `events.go:290` finds no pod.
* A node's rise in GPUs is information and does not cancel the fall still in its
  window; both are shown, and it is `clusterConditionSupersedes` that keeps the
  row right. After a Retry the rows start empty while `gpuQty` does not, so a
  fall is not narrated again.

Observed while modelling, without a run of their own:

* `CancelAndWait` waits for the last goroutine of a run and for nobody else: a
  Stop that was let in before may still be deleting the workload when it returns
  (`Engine`'s `StopAbsent`, `ProveJob`'s `StopDelete`), on its request's own
  context. `DrainedIsQuiet` speaks of goroutines only; what becomes of the
  workload is `DoneMeansGone`'s and `UnmarkedIsGone`'s subject.
* Stop's comment (`engine.go:1465-1470`) says nothing can bump the epoch while
  it waits; a Retry of a failed run with an unconfirmed cleanup can.
* `filestore.go:23-26` explains the pointer by terminal saves of older runs
  that land late; `Save` moves the pointer on exactly such a save.
* Discard's rollback (`engine.go:1310-1312`) says the record still exists; a
  Delete that failed at its second removal has removed it.
* A crash inside Apply loses the snapshot with the step's copy. The retried
  Apply takes a new one, in which the run's own releases look adopted, so a
  later Reset ends clean and leaves them (this is what `lost` excepts from
  `CleanMeansRemoved`); without a retry Reset refuses with "installed nothing".
* `bus.go:10-12` says a subscriber that falls behind "is dropped" and
  reconnects; the code skips events on a connection that stays open, and a tab
  notices only when a later event arrives.
* installedAlreadyMessage advises `helm uninstall`; helm keeps the objects that
  the next install then adopts, which is the state the guard is there for.
* `purge` returns early when canceled, so the objects it has not reached have
  no row in the inventory.

## 6. Plan for what is left

In this order:

1. **Abstract specifications**: a `RunLifecycle` of five states that `Engine`
   implements, a lossy channel with a loss count that `EventStream` implements;
   both refinements proved, over `IInv` and over `FlowInv`.
2. **Theorems**: `HalfRemovedIsGuarded` for clients `"events"`, with an invariant
   that follows a late Delete; the action properties of `Engine`'s record.
3. **Composition**: `Engine` over `ProveJob`'s promise instead of its own copy
   of it, and `Console`'s wiring over `Engine`'s Recover and Reconcile.
4. **Rule tables**: gap rules and the run log's truncation flag as operators
   against a reference definition.
5. **Observer**: DaemonSets, and two namespaces of one recipe.

Not modelled, and why: the record codec (sequential data), the AICR client and
the driver survey (I/O), preflight, node grouping and screens (formatting, tools,
layout), a mismatch of the cluster's identity (the console refuses to run), the
reuse of a PID by another process, a session directory that cannot be removed
(the code warns and goes on), `debouncer.stop` at exit.
