------------------------------ MODULE Observer -----------------------------
(***************************************************************************)
(* The observer (internal/observer) over one recipe namespace: the scoped  *)
(* Pod and Event informers that follow the run, what their handlers        *)
(* remember and narrate, the debouncer, and the rows the SPA folds the     *)
(* events into.  Attribution has the handlers that watch the whole cluster.*)
(*                                                                         *)
(* A handler decides under the locks and publishes after them, so another  *)
(* informer's handler, a timer, a teardown or a Retry comes in between.    *)
(* Three orders in which the code is known to lose or strand a row are     *)
(* kept in the behaviours and named in `gaps`; the invariants say that     *)
(* there are no others.                                                    *)
(*                                                                         *)
(* A namespace is watched again only when the backlog of its last informer *)
(* is gone: the overlap withNamespaceLive's comment accepts.               *)
(***************************************************************************)
EXTENDS Naturals, Sequences, FiniteSets, SequencesExt

CONSTANTS
  Pods,        (* by UID: a pod recreated under its name is another one    *)
  Troubles,    (* normalized reasons of podTrouble                         *)
  Owner,       (* the controller all Pods belong to                        *)
  Warning,     (* the reason of every Warning Event                        *)
  MaxRuns,     (* bound: runs                                              *)
  MaxAttempts, (* bound: attempts of one run                               *)
  MaxChanges,  (* bound: changes in the cluster                            *)
  MaxReleased, (* bound: timers between taking an arise and emitting it    *)
  Patient,     (* Start and Retry wait until the last attempt has settled  *)
  None

ASSUME ObserverAssumption ==
  /\ MaxRuns \in Nat /\ MaxAttempts \in Nat /\ MaxChanges \in Nat
  /\ MaxReleased \in Nat /\ Patient \in BOOLEAN
  /\ Owner \notin Pods /\ Warning \notin Troubles
  /\ None \notin Pods \cup Troubles
  /\ IsFiniteSet(Pods) /\ IsFiniteSet(Troubles)
  /\ Troubles \cap {"healthy", "absent", "gone", "warning"} = {}

VARIABLES
  run, attempt, (* the engine's current run, 0 for none, and its attempt   *)
  recipe,      (* what its recipe.json names: this namespace, or others    *)
  terminal,
  pod,         (* the cluster: trouble, "healthy", "absent" or "gone"      *)
  event,       (* Count of the Warning Event about a subject, 0 for none   *)
  changes,
  watching,    (* scopedInformers.entries has the namespace                *)
  watchRun,    (* scopedInformers.runID                                    *)
  torn, tornRun, (* everTornDown and the run it is about                   *)
  listed,      (* the informers whose initial list is in                   *)
  cache,       (* the informers' indexers                                  *)
  queue,       (* notifications an informer's handler has not taken yet    *)
  seen,        (* Observer.pods and Observer.events, by condition          *)
  out,         (* what a handler has decided and not published yet         *)
  check,       (* the pod onEventChange goes on to look up                 *)
  pending, released, row, (* of Debounce                                   *)
  first,       (* history: the attempt that first watched, 0 for none      *)
  gaps         (* history: the known gaps this run has met                 *)

engine  == <<run, attempt, recipe, terminal>>
cluster == <<pod, event, changes>>
scoped  == <<watching, watchRun, torn, tornRun, first>>
feed    == <<listed, cache, queue>>
hands   == <<out, check>>
bounce  == <<pending, released>>
vars == <<engine, cluster, scoped, feed, seen, hands, bounce, row, gaps>>

Subjects  == Pods \cup {Owner}
Keys      == (Pods \X Troubles) \cup (Subjects \X {Warning})
PodKeys   == Pods \X Troubles

(* The debouncer and the rows, over these conditions. *)
INSTANCE Debounce

Informers == {"pod", "event"}
InTrouble(p) == pod[p] \in Troubles
Names     == [kind : {"add", "initial", "update", "delete"}, of : Subjects,
              is : Troubles \cup {"healthy", "gone", "warning"}]
Narrations == [key : Keys, resolved : BOOLEAN]

TypeOK ==
  /\ run \in 0 .. MaxRuns /\ attempt \in 0 .. MaxAttempts
  /\ recipe \in {"none", "ours", "others"} /\ terminal \in BOOLEAN
  /\ pod \in [Pods -> Troubles \cup {"healthy", "absent", "gone"}]
  /\ event \in [Subjects -> 0 .. 2]
  /\ changes \in 0 .. MaxChanges
  /\ watching \in BOOLEAN /\ watchRun \in 0 .. MaxRuns
  /\ torn \in BOOLEAN /\ tornRun \in 0 .. MaxRuns /\ first \in 0 .. MaxAttempts
  /\ listed \subseteq Informers /\ (~watching => listed = {})
  /\ cache \in [pod : [Pods -> Troubles \cup {"healthy", "absent", "gone"}],
                event : [Subjects -> 0 .. 2]]
  /\ \A i \in Informers : \A j \in DOMAIN queue[i] : queue[i][j] \in Names
  /\ seen \in [Keys -> {"no", "seeded", "narrated"}]
  /\ \A i \in Informers : \A j \in DOMAIN out[i] : out[i][j] \in Narrations
  /\ check \in [pod : Pods \cup {None}, healthy : BOOLEAN]
  /\ DebounceTypeOK
  /\ gaps \subseteq {"overtaken", "forgotten", "unlisted"}

Init ==
  /\ run = 0 /\ attempt = 0 /\ recipe = "none" /\ terminal = FALSE
  /\ pod \in [Pods -> {"healthy", "absent"} \cup Troubles]
  /\ event = [s \in Subjects |-> 0]
  /\ changes = 0
  /\ watching = FALSE /\ watchRun = 0 /\ torn = FALSE /\ tornRun = 0
  /\ first = 0
  /\ listed = {} /\ queue = [i \in Informers |-> <<>>]
  /\ cache = [pod |-> [p \in Pods |-> "absent"], event |-> [s \in Subjects |-> 0]]
  /\ seen = [k \in Keys |-> "no"]
  /\ out = [i \in Informers |-> <<>>] /\ check = [pod |-> None, healthy |-> FALSE]
  /\ DebounceInit /\ gaps = {}

(***************************************************************************)
(* The engine, as far as RunScope shows it.                                *)
(***************************************************************************)

(* Deliveries, hand-offs and windows of what was watched are all over. *)
Settled ==
  /\ ~watching /\ Idle
  /\ \A i \in Informers : queue[i] = <<>> /\ out[i] = <<>>
  /\ check.pod = None

(* The rows are of one run, and "run retrying" empties them.  It is published
   after the launching Save, one step here: an arise observed during the Save is
   emitted two seconds later, when its window closes, and the Save of one small
   file is taken to be over by then. *)
Begin ==
  /\ Patient => Settled
  /\ terminal' = FALSE /\ row' = [k \in Keys |-> NoRow]
  /\ gaps' = {}
  /\ UNCHANGED <<cluster, watching, watchRun, torn, tornRun, feed, seen, hands, bounce>>

Start ==
  /\ run < MaxRuns /\ (run = 0 \/ terminal)
  /\ run' = run + 1 /\ attempt' = 1 /\ recipe' = "none" /\ first' = 0
  /\ Begin

Retry ==
  /\ run # 0 /\ terminal /\ attempt < MaxAttempts
  /\ attempt' = attempt + 1
  /\ Begin
  /\ UNCHANGED <<run, recipe, first>>

Recommend ==
  /\ run # 0 /\ ~terminal /\ recipe = "none"
  /\ recipe' \in {"ours", "others"}
  /\ UNCHANGED <<run, attempt, terminal, cluster, scoped, feed, seen,
                 hands, bounce, row, gaps>>

Finish ==
  /\ run # 0 /\ ~terminal
  /\ terminal' = TRUE
  /\ UNCHANGED <<run, attempt, recipe, cluster, scoped, feed, seen,
                 hands, bounce, row, gaps>>

(***************************************************************************)
(* scopedInformers.run: reconcile(scope()) on a KindPhase event of the bus *)
(* and, since a subscriber may lose those, on every tick.  Either way it   *)
(* reads the scope afresh, so one action stands for both.                  *)
(***************************************************************************)

(* Mutant of RunOver: the latch that RunScope.Terminal replaced. *)
RunOverLatched == run = 0 \/ recipe = "none" \/ terminal \/ torn

RunOver == run = 0 \/ recipe = "none" \/ terminal

(* Mutant of Fresh: compared with runID, which every teardown empties. *)
FreshByRunID == watchRun # run

(* everTornDown is another run's. *)
Fresh == run # tornRun

InScope == ~RunOver /\ recipe = "ours"

Keeps   == watching /\ InScope /\ watchRun = run
Stops   == watching /\ ~Keeps
Starts  == InScope /\ ~Keeps

(* No goroutine of the namespace's last informers has anything left. *)
Drained ==
  /\ \A i \in Informers : queue[i] = <<>> /\ out[i] = <<>>
  /\ check.pod = None

(* clearNamespaceState: clearNamespacePods and clearNamespaceEvents. *)
Forget == [k \in Keys |-> "no"]

(* One call of reconcile, under scopedInformers.mu.  Stopping closes the
   informers, whose handlers go on with what was queued; starting leaves the
   caches empty until the first List is answered. *)
Reconcile ==
  /\ Stops \/ Starts \/ (RunOver /\ watchRun # 0) \/ (~RunOver /\ watchRun # run)
  /\ Starts => Drained
  /\ watching' = InScope
  /\ watchRun' = IF RunOver THEN 0 ELSE run
  /\ torn' = ((torn \/ Stops) /\ (RunOver \/ ~Fresh))
  /\ tornRun' = IF RunOver THEN tornRun ELSE run
  /\ first' = IF Starts /\ first = 0 THEN attempt ELSE first
  /\ seen' = IF Stops THEN Forget ELSE seen
  /\ listed' = IF Keeps THEN listed ELSE {}
  /\ cache' = IF Keeps THEN cache
               ELSE [pod |-> [p \in Pods |-> "absent"],
                     event |-> [s \in Subjects |-> 0]]
  /\ UNCHANGED <<engine, cluster, queue, hands, bounce, row, gaps>>

(* What an informer that was closed had queued may never be delivered. *)
Abandon(i) ==
  /\ ~watching /\ queue[i] # <<>>
  /\ queue' = [queue EXCEPT ![i] = <<>>]
  /\ UNCHANGED <<engine, cluster, scoped, listed, cache, seen, hands,
                 bounce, row, gaps>>

(***************************************************************************)
(* The cluster, and the informers' caches that follow it (external).       *)
(***************************************************************************)

Changing == changes < MaxChanges /\ changes' = changes + 1

PodChanges(p) ==
  /\ Changing /\ pod[p] # "gone"
  /\ \E to \in (Troubles \cup {"healthy", "gone"}) \ {pod[p]} :
       /\ pod[p] = "absent" => to # "gone"
       /\ pod' = [pod EXCEPT ![p] = to]
  /\ UNCHANGED <<engine, event, scoped, feed, seen, hands,
                 bounce, row, gaps>>

(* A Warning is recorded, recurs in the same Event object, or expires. *)
Warn(s) ==
  /\ Changing /\ (s \in Pods => pod[s] # "absent")
  /\ \E to \in (0 .. 2) \ {event[s]} :
       /\ to = 0 \/ to = event[s] + 1
       /\ event' = [event EXCEPT ![s] = to]
  /\ UNCHANGED <<engine, pod, scoped, feed, seen, hands,
                 bounce, row, gaps>>

Notify(i, kind, of, is) ==
  queue' = [queue EXCEPT ![i] = Append(@, [kind |-> kind, of |-> of, is |-> is])]

Present(x) == x \notin {"absent", "gone"}

(* The first List: an Add in the initial list for every object there is. *)
List(i) ==
  /\ watching /\ i \notin listed
  /\ listed' = listed \cup {i}
  /\ IF i = "pod" THEN
       /\ cache' = [cache EXCEPT !.pod = pod]
       /\ queue' = [queue EXCEPT !.pod = SetToSeq(
            {[kind |-> "initial", of |-> p, is |-> pod[p]] :
               p \in {q \in Pods : Present(pod[q])}})]
     ELSE
       /\ cache' = [cache EXCEPT !.event = event]
       /\ queue' = [queue EXCEPT !.event = SetToSeq(
            {[kind |-> "initial", of |-> s, is |-> "warning"] :
               s \in {t \in Subjects : event[t] # 0}})]
  /\ UNCHANGED <<engine, cluster, scoped, seen, hands, bounce, row, gaps>>

WatchPod(p) ==
  /\ watching /\ "pod" \in listed /\ cache.pod[p] # pod[p]
  /\ cache' = [cache EXCEPT !.pod[p] = pod[p]]
  /\ IF pod[p] = "gone" THEN
       IF Present(cache.pod[p]) THEN Notify("pod", "delete", p, "gone")
       ELSE UNCHANGED queue
     ELSE Notify("pod", IF Present(cache.pod[p]) THEN "update" ELSE "add", p, pod[p])
  /\ UNCHANGED <<engine, cluster, scoped, listed, seen, hands, bounce,
                 row, gaps>>

WatchEvent(s) ==
  /\ watching /\ "event" \in listed /\ cache.event[s] # event[s]
  /\ cache' = [cache EXCEPT !.event[s] = event[s]]
  /\ LET kind == IF event[s] = 0 THEN "delete"
                 ELSE IF cache.event[s] = 0 THEN "add" ELSE "update"
     IN Notify("event", kind, s, "warning")
  /\ UNCHANGED <<engine, cluster, scoped, listed, seen, hands, bounce,
                 row, gaps>>

(***************************************************************************)
(* The Pod informer's handler.                                             *)
(***************************************************************************)

(* Mutant of Live: the write is not gated, as before withNamespaceLive. *)
LiveAlways == TRUE

(* withNamespaceLive: the namespace is in entries, under the sweep's lock. *)
Live == watching

isRestart == torn

Take(i) == queue[i] # <<>> /\ out[i] = <<>> /\ queue' = [queue EXCEPT ![i] = Tail(@)]
Taken(i) == Head(queue[i])

Decide(i, narrations) == out' = [out EXCEPT ![i] = SetToSeq(narrations)]

Says(keys, resolved) == {[key |-> k, resolved |-> resolved] : k \in keys}

Remembered(keys) == {k \in keys : seen[k] # "no"}

(* Mutant of Narrated: a pod that is gone is not narrated at all. *)
NarratedNever(keys) == {}

Narrated(keys)   == {k \in keys : seen[k] = "narrated"}

About(p) == {p} \X Troubles

(* An arise of one of these is decided and not published: a known gap. *)
Overtaken(keys) ==
  IF \E j \in DOMAIN out.event : out.event[j].key \in keys /\ ~out.event[j].resolved
  THEN {"overtaken"} ELSE {}

(* All that a healthy pod ends: its reasons, its warnings, its owner's. *)
Recovery(p) == Remembered(About(p) \cup {<<p, Warning>>, <<Owner, Warning>>})

(* onPodChange of a healthy pod. *)
PodRecovers ==
  /\ Take("pod") /\ Taken("pod").is = "healthy"
  /\ Taken("pod").kind = "initial" => isRestart
  /\ IF Live THEN
       LET p == Taken("pod").of IN
       /\ Decide("pod", Says(Recovery(p), TRUE))
       /\ seen' = [k \in Keys |-> IF k \in Recovery(p) THEN "no" ELSE seen[k]]
       /\ gaps' = gaps \cup Overtaken(Recovery(p))
     ELSE UNCHANGED <<out, seen, gaps>>
  /\ UNCHANGED <<engine, cluster, scoped, listed, cache, check, bounce, row>>

(* onPodChange of a pod in trouble.  Narrating the same trouble again because
   another container has it (detail) changes the message of the row only. *)
PodArises ==
  /\ Take("pod") /\ Taken("pod").is \in Troubles
  /\ Taken("pod").kind = "initial" => isRestart
  /\ LET k == <<Taken("pod").of, Taken("pod").is>> IN
     IF Live /\ seen[k] = "no"
     THEN Decide("pod", Says({k}, FALSE)) /\ seen' = [seen EXCEPT ![k] = "narrated"]
     ELSE UNCHANGED <<out, seen>>
  /\ UNCHANGED <<engine, cluster, scoped, listed, cache, check, bounce,
                 row, gaps>>

(* onPodAdd of a first sighting: seedPodBaseline. *)
PodSeeds ==
  /\ Take("pod") /\ Taken("pod").kind = "initial" /\ ~isRestart
  /\ LET k == <<Taken("pod").of, Taken("pod").is>> IN
     IF Live /\ k \in PodKeys THEN seen' = [seen EXCEPT ![k] = "seeded"]
     ELSE UNCHANGED seen
  /\ UNCHANGED <<engine, cluster, scoped, listed, cache, hands, bounce,
                 row, gaps>>

(* onDelete of a Pod: only what was shown is "removed". *)
PodDeleted ==
  /\ Take("pod") /\ Taken("pod").kind = "delete"
  /\ LET p == Taken("pod").of
         all == About(p) \cup {<<p, Warning>>} IN
     /\ Decide("pod", Says(Narrated(all), TRUE))
     /\ seen' = [k \in Keys |-> IF k \in all THEN "no" ELSE seen[k]]
     /\ gaps' = gaps \cup Overtaken(all)
  /\ UNCHANGED <<engine, cluster, scoped, listed, cache, check, bounce, row>>

(***************************************************************************)
(* The Event informer's handler.                                           *)
(***************************************************************************)

Warned == <<Taken("event").of, Warning>>

(* onEventChange: a Warning not seen yet is narrated, and a pod's is then
   checked against the Pod informer's cache. *)
EventArises ==
  /\ Take("event") /\ check.pod = None
  /\ Taken("event").kind \in {"add", "update"}
       \/ (Taken("event").kind = "initial" /\ isRestart)
  /\ IF Live /\ seen[Warned] = "no" THEN
       /\ Decide("event", Says({Warned}, FALSE))
       /\ seen' = [seen EXCEPT ![Warned] = "narrated"]
       /\ check' = IF Taken("event").of \in Pods
                   THEN [pod |-> Taken("event").of, healthy |-> FALSE] ELSE check
     ELSE UNCHANGED <<out, seen, check>>
  /\ UNCHANGED <<engine, cluster, scoped, listed, cache, bounce, row, gaps>>

(* onEventAdd of a first sighting: seedEventBaseline. *)
EventSeeds ==
  /\ Take("event") /\ check.pod = None
  /\ Taken("event").kind = "initial" /\ ~isRestart
  /\ seen' = IF Live THEN [seen EXCEPT ![Warned] = "seeded"] ELSE seen
  /\ UNCHANGED <<engine, cluster, scoped, listed, cache, hands, bounce,
                 row, gaps>>

(* onDelete of an Event: it expired, which says nothing of its subject, and
   what was narrated of it can no longer be resolved: a known gap. *)
EventExpires ==
  /\ Take("event") /\ check.pod = None /\ Taken("event").kind = "delete"
  /\ seen' = [seen EXCEPT ![Warned] = "no"]
  /\ gaps' = gaps \cup IF seen[Warned] = "narrated" THEN {"forgotten"} ELSE {}
  /\ UNCHANGED <<engine, cluster, scoped, listed, cache, hands, bounce, row>>

(* currentPod: the pod is in the live informer's indexer, and not in trouble.  It
   is looked up by name; a pod made again under the name of another is left out. *)
Healthy(p) == watching /\ cache.pod[p] = "healthy"

CheckPod ==
  /\ check.pod # None /\ ~check.healthy /\ out.event = <<>>
  /\ gaps' = gaps \cup IF "pod" \in listed THEN {} ELSE {"unlisted"}
  /\ check' = IF Healthy(check.pod) THEN [check EXCEPT !.healthy = TRUE]
              ELSE [pod |-> None, healthy |-> FALSE]
  /\ UNCHANGED <<engine, cluster, scoped, feed, seen, out, bounce, row>>

(* resolveEventsLocked of a Warning about a pod that is healthy already. *)
Corroborated ==
  /\ check.healthy
  /\ LET k == <<check.pod, Warning>> IN
     /\ Decide("event", Says(Remembered({k}), TRUE))
     /\ seen' = [seen EXCEPT ![k] = "no"]
  /\ check' = [pod |-> None, healthy |-> FALSE]
  /\ UNCHANGED <<engine, cluster, scoped, feed, bounce, row, gaps>>

(***************************************************************************)
(* publish and emit.                                                       *)
(***************************************************************************)

(* emit drops what the scope it reads does not contain. *)
Shown == run # 0 /\ recipe = "ours"

Publish(i) ==
  /\ out[i] # <<>>
  /\ out' = [out EXCEPT ![i] = Tail(@)]
  /\ Submit(Head(out[i]).key, Head(out[i]).resolved, FALSE, Shown)
  /\ UNCHANGED <<engine, cluster, scoped, feed, seen, check, gaps>>

Timer ==
  /\ \/ \E k \in Keys : Release(k)
     \/ \E r \in released : EmitReleased(r, Shown)
  /\ UNCHANGED <<engine, cluster, scoped, feed, seen, hands, gaps>>

-----------------------------------------------------------------------------

ClusterNext ==
  \/ \E p \in Pods : PodChanges(p)
  \/ \E s \in Subjects : Warn(s)

EngineNext == Start \/ Retry \/ Recommend \/ Finish

(* What the informers and the goroutines of the handlers do by themselves. *)
Deliver ==
  \/ \E i \in Informers : List(i) \/ Publish(i)
  \/ \E p \in Pods : WatchPod(p)
  \/ \E s \in Subjects : WatchEvent(s)
  \/ PodRecovers \/ PodArises \/ PodSeeds \/ PodDeleted
  \/ EventArises \/ EventSeeds \/ EventExpires
  \/ CheckPod \/ Corroborated

Next ==
  \/ EngineNext \/ ClusterNext \/ Reconcile \/ Deliver \/ Timer
  \/ \E i \in Informers : Abandon(i)

Spec == Init /\ [][Next]_vars

(* reconcileInterval's ticker, the informers and the handlers' goroutines. *)
FairSpec == Spec /\ WF_vars(Reconcile) /\ WF_vars(Deliver)

-----------------------------------------------------------------------------
(* Nothing is under way: what the rows say now is what they go on saying. *)
Quiet ==
  /\ watching /\ listed = Informers /\ Drained /\ Idle
  /\ cache = [pod |-> pod, event |-> event]

(* Nothing is remembered of a namespace no informer feeds, whatever was still
   being delivered when it was torn down (withNamespaceLive). *)
DeadIsForgotten ==
  ~watching => \A k \in Keys : seen[k] = "no"

(* A row turns red for good only over a pod that is not well: when nothing is
   under way, no healthy pod has a red row (Rulings 20, 23 and 26 of pods.go
   and events.go). *)
NoRedOnHealthy ==
  Quiet /\ gaps = {} =>
    \A k \in Keys : k[1] \in Pods /\ pod[k[1]] = "healthy" => ~Red(k)

(* Whatever is red is remembered, so that some recovery still clears it. *)
RedIsRemembered ==
  Quiet /\ gaps = {} =>
    \A k \in Keys : Red(k) => seen[k] = "narrated"

(* No row is clean over a failure that is happening: a pod in trouble is red,
   unless it was so before this run first looked (Rulings 32 and 37). *)
NoHiddenFailure ==
  Quiet =>
    \A p \in Pods : InTrouble(p) =>
      \/ Red(<<p, pod[p]>>)
      \/ attempt = first /\ seen[<<p, pod[p]>>] = "seeded"

(* Again and again the namespace is watched exactly while its run goes on:
   teardown at its end, and informers once more for a Retry, although every
   bus event may be lost (Ruling 8 of scoped.go and reconcileInterval). *)
ScopeFollowed == []<>(watching = (run # 0 /\ recipe = "ours" /\ ~terminal))
=============================================================================
