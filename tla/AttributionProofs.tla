------------------------- MODULE AttributionProofs --------------------------
(***************************************************************************)
(* The attribution cursor follows the live goroutine and never runs ahead  *)
(* of the bus; an event's run, namespaces and action are of one run; and   *)
(* when nothing is on its way the rows of nodes and rollouts are what the  *)
(* cluster is: for every number of runs, goroutines, actions and changes.  *)
(*                                                                         *)
(* The invariants: IInv, what the engine and the readers of its scope know *)
(* of each other; RowInv, that the events of a condition are ordered by    *)
(* time (TimesOK), those of a rollout even one by one (HandlersOK), and    *)
(* that the last of them says what the cluster is (AttemptOK).             *)
(***************************************************************************)
EXTENDS Attribution, WellFoundedInduction, TLAPS

EngineOK ==
  /\ run \in 0 .. MaxRuns /\ epoch \in 0 .. MaxEpochs /\ terminal \in BOOLEAN
  /\ names \in [Runs -> Scopes]
  /\ driver \in [Epochs -> Places] /\ at \in [Epochs -> 0 .. NActions]
  /\ action \in 0 .. NActions /\ headers \in [Runs -> SUBSET Actions]
  /\ run = 0 => epoch = 0
  /\ epoch = 0 => action = 0 /\ ~terminal

(* A goroutine is superseded only once it has finished the run, which is
   terminal from then on until the next one is launched. *)
LifeOK ==
  \A e \in Epochs :
    /\ driver[e] # "none" <=> e <= epoch
    /\ e < epoch => driver[e] \in {"finished", "over"}
    /\ driver[e] \in {"finished", "over"} /\ e = epoch => terminal
    /\ terminal /\ e = epoch => driver[e] \in {"finished", "over"}
    /\ driver[e] \in {"none", "early"} => at[e] = 0

(* The cursor is on an action whose header is on the bus, and so is the action
   the live goroutine installs, unless it has just printed its header. *)
CursorOK ==
  /\ action # 0 => action \in headers[run]
  /\ \A e \in Epochs :
       /\ e = epoch /\ driver[e] = "marked" => at[e] \in headers[run]
       /\ driver[e] \in {"printed", "marked"} => at[e] # 0

Fields == {"key", "at", "resolved", "handler", "step", "run", "names", "on"}

(* An event that is reading its scope has so far read this much, of one run. *)
ReadingOK(r) ==
  /\ DOMAIN r = Fields
  /\ r.run \in 0 .. run
  /\ r.step \in {"id", "names", "cursor", "publish"}
  /\ r.step \in {"cursor", "publish"} /\ r.run # 0 => r.names \in {"none", names[r.run]}
  /\ r.on # 0 => r.step = "publish" /\ r.run # 0 /\ r.on \in headers[r.run]

CacheOK ==
  /\ DOMAIN cached = {"run", "names"}
  /\ cached.run \in 0 .. run
  /\ CacheIsRecipe

PlacedOK ==
  /\ placed \in [Keys -> 0 .. NActions]
  /\ \A k \in Keys : placed[k] # 0 => run # 0 /\ placed[k] \in headers[run]

IInv ==
  /\ EngineOK /\ LifeOK /\ CursorFollowsDriver /\ CursorOK
  /\ \A r \in released : ReadingOK(r) /\ r.on \in 0 .. NActions /\ r.key \in Keys
  /\ CacheOK /\ PlacedOK

LEMMA InitIInv == Init => IInv
<1> SUFFICES ASSUME Init PROVE IInv
  OBVIOUS
<1> USE AttributionAssumption
<1>1. EngineOK
  <2>1. run \in 0 .. MaxRuns /\ epoch \in 0 .. MaxEpochs /\ action \in 0 .. NActions
    BY DEF Init
  <2>2. at \in [Epochs -> 0 .. NActions] /\ headers \in [Runs -> SUBSET Actions]
    BY DEF Init
  <2>3. names \in [Runs -> Scopes] /\ driver \in [Epochs -> Places] /\ terminal \in BOOLEAN
    BY DEF Init, Scopes, Places
  <2> QED BY <2>1, <2>2, <2>3 DEF Init, EngineOK
<1>2. LifeOK /\ CursorFollowsDriver /\ CursorOK
  BY DEF Init, LifeOK, CursorFollowsDriver, CursorOK, Epochs
<1>3. CacheOK /\ PlacedOK /\ released = {}
  BY DEF Init, CacheOK, CacheIsRecipe, PlacedOK, DebounceInit
<1> QED BY <1>1, <1>2, <1>3 DEF IInv

(***************************************************************************)
(* The engine's steps: what has been read stays true.                      *)
(***************************************************************************)

(* Runs, recipes and headers only ever grow. *)
Grows ==
  /\ run' \in 0 .. MaxRuns /\ run <= run'
  /\ \A i \in Runs : i <= run =>
       /\ names[i] # "none" => names'[i] = names[i]
       /\ headers[i] \subseteq headers'[i]

LEMMA GrowKeeps ==
  ASSUME IInv, Grows, UNCHANGED <<released, cached>>
  PROVE  /\ \A r \in released' : ReadingOK(r)' /\ r.on \in 0 .. NActions /\ r.key \in Keys
         /\ CacheOK'
<1> USE AttributionAssumption
<1>0. EngineOK /\ run \in Nat /\ run' \in Nat
  BY DEF IInv, EngineOK, Grows
<1>1. ASSUME NEW r \in released PROVE ReadingOK(r)'
  <2>1. ReadingOK(r)
    BY DEF IInv
  <2>2. r.run # 0 => r.run \in Runs /\ r.run <= run
    BY <1>0, <2>1 DEF ReadingOK, EngineOK, Runs
  <2>3. r.run \in 0 .. run'
    BY <1>0, <2>1 DEF ReadingOK, Grows
  <2>4. r.step \in {"cursor", "publish"} /\ r.run # 0 => r.names \in {"none", names'[r.run]}
    BY <2>1, <2>2 DEF ReadingOK, Grows
  <2>5. r.on # 0 => r.step = "publish" /\ r.run # 0 /\ r.on \in headers'[r.run]
    BY <2>1, <2>2 DEF ReadingOK, Grows
  <2> QED BY <2>1, <2>3, <2>4, <2>5 DEF ReadingOK
<1>2. CacheOK'
  <2>1. CacheOK
    BY DEF IInv
  <2>2. cached.run # 0 => cached.run \in Runs /\ cached.run <= run
    BY <1>0, <2>1 DEF CacheOK, EngineOK, Runs
  <2>3. cached.run \in 0 .. run'
    BY <1>0, <2>1 DEF CacheOK, Grows
  <2> QED BY <2>1, <2>2, <2>3 DEF CacheOK, CacheIsRecipe, Grows
<1> QED BY <1>1, <1>2 DEF IInv

LEMMA LaunchIInv == IInv /\ (Start \/ Retry) => IInv'
<1> SUFFICES ASSUME IInv, Start \/ Retry PROVE IInv'
  OBVIOUS
<1> USE AttributionAssumption
<1>0. EngineOK /\ LifeOK /\ CursorFollowsDriver
  BY DEF IInv
<1>1. /\ epoch < MaxEpochs /\ epoch' = epoch + 1 /\ terminal' = FALSE
      /\ driver' = [driver EXCEPT ![epoch + 1] = "early"]
      /\ placed' = [k \in Keys |-> 0]
      /\ UNCHANGED <<names, at, action, headers, cached, released>>
  BY DEF Start, Retry, Launch
<1>2. run' \in 0 .. MaxRuns /\ run <= run' /\ run' # 0 /\ (epoch # 0 => terminal)
  BY <1>0 DEF Start, Retry, EngineOK
<1>3. action = 0 /\ epoch + 1 \in Epochs
  <2>1. CASE epoch = 0
    BY <1>0, <1>1, <2>1 DEF EngineOK, Epochs
  <2>2. CASE epoch # 0
    <3>1. epoch \in Epochs /\ epoch + 1 \in Epochs
      BY <1>0, <1>1, <2>2 DEF EngineOK, Epochs
    <3> QED BY <1>0, <1>2, <2>2, <3>1 DEF LifeOK, CursorFollowsDriver
  <2> QED BY <2>1, <2>2
<1>4. EngineOK'
  <2>1. driver' \in [Epochs -> Places] /\ terminal' \in BOOLEAN
    BY <1>0, <1>1 DEF EngineOK, Places
  <2>2. epoch' \in 0 .. MaxEpochs /\ epoch' # 0
    BY <1>0, <1>1 DEF EngineOK
  <2> QED BY <1>0, <1>1, <1>2, <2>1, <2>2 DEF EngineOK
<1>5. LifeOK'
  <2> SUFFICES ASSUME NEW e \in Epochs
               PROVE  /\ driver'[e] # "none" <=> e <= epoch'
                      /\ e < epoch' => driver'[e] \in {"finished", "over"}
                      /\ driver'[e] \in {"finished", "over"} /\ e = epoch' => terminal'
                      /\ terminal' /\ e = epoch' => driver'[e] \in {"finished", "over"}
                      /\ driver'[e] \in {"none", "early"} => at'[e] = 0
    BY DEF LifeOK
  <2>1. CASE e = epoch + 1
    <3>1. driver[e] = "none"
      BY <1>0, <2>1 DEF LifeOK, EngineOK, Epochs
    <3>2. driver'[e] = "early" /\ at[e] = 0
      BY <1>0, <1>1, <2>1, <3>1 DEF LifeOK, EngineOK
    <3> QED BY <1>0, <1>1, <2>1, <3>2 DEF EngineOK
  <2>2. CASE e # epoch + 1
    <3>1. driver'[e] = driver[e] /\ (e <= epoch' <=> e <= epoch) /\ (e < epoch' <=> e < epoch \/ e = epoch)
      BY <1>0, <1>1, <2>2 DEF EngineOK, Epochs
    <3>2. e = epoch => terminal
      BY <1>2 DEF Epochs
    <3> QED BY <1>0, <1>1, <2>2, <3>1, <3>2 DEF LifeOK
  <2> QED BY <2>1, <2>2
<1>6. CursorFollowsDriver' /\ CursorOK'
  <2>1. driver'[epoch'] = "early" /\ action' = 0 /\ at' = at
    BY <1>0, <1>1, <1>3 DEF EngineOK
  <2>2. ASSUME NEW e \in Epochs, driver'[e] \in {"printed", "marked"} PROVE at[e] # 0 /\ e # epoch'
    BY <1>0, <1>1, <2>1, <2>2 DEF IInv, CursorOK, EngineOK
  <2> QED BY <2>1, <2>2 DEF CursorFollowsDriver, CursorOK
<1>7. Grows
  BY <1>1, <1>2 DEF Grows
<1>8. PlacedOK'
  BY <1>1 DEF PlacedOK
<1> QED BY <1>1, <1>4, <1>5, <1>6, <1>7, <1>8, GrowKeeps DEF IInv

(* A goroutine's step leaves the run, the others and what is read alone. *)
Moves(e) ==
  /\ UNCHANGED <<run, epoch, cached, released, placed>>
  /\ driver' \in [Epochs -> Places]
  /\ \A f \in Epochs : f # e => driver'[f] = driver[f] /\ at'[f] = at[f]

LEMMA MovesKeep ==
  ASSUME IInv, NEW e \in Epochs, Moves(e), EngineOK', Grows,
         e = epoch, driver[e] \notin {"none", "finished", "over"},
         driver'[e] # "none", driver'[e] = "early" => driver[e] = "early" /\ at'[e] = at[e],
         driver'[e] \in {"finished", "over"} <=> terminal',
         action' # 0 => action' \in headers'[run],
         driver'[e] = "marked" => at'[e] \in headers'[run],
         driver'[e] \in {"printed", "marked"} => at'[e] # 0,
         driver'[e] = "apply" => action' = at'[e],
         driver'[e] \in {"early", "failing", "finished"} => action' = 0, driver'[e] # "over"
  PROVE  IInv'
<1> USE AttributionAssumption
<1>0. EngineOK /\ LifeOK /\ PlacedOK
  BY DEF IInv
<1>1. LifeOK'
  <2>1. ASSUME NEW f \in Epochs
        PROVE  /\ driver'[f] # "none" <=> f <= epoch'
               /\ f < epoch' => driver'[f] \in {"finished", "over"}
               /\ driver'[f] \in {"finished", "over"} /\ f = epoch' => terminal'
               /\ terminal' /\ f = epoch' => driver'[f] \in {"finished", "over"}
               /\ driver'[f] \in {"none", "early"} => at'[f] = 0
    <3>1. CASE f = e
      BY <1>0, <3>1 DEF LifeOK, Moves
    <3>2. CASE f # e
      BY <1>0, <3>2 DEF LifeOK, Moves
    <3> QED BY <3>1, <3>2
  <2> QED BY <2>1 DEF LifeOK
<1>2. CursorFollowsDriver' /\ CursorOK'
  <2>1. \A f \in Epochs : driver[f] \in {"printed", "marked"} => at[f] # 0
    BY DEF IInv, CursorOK
  <2> QED BY <2>1 DEF CursorFollowsDriver, CursorOK, Moves
<1>3. PlacedOK'
  BY <1>0 DEF PlacedOK, Moves, Grows, Runs, EngineOK
<1> QED BY <1>1, <1>2, <1>3, GrowKeeps DEF IInv, Moves

(* What the live goroutine knows; only it moves, but for one that finishes. *)
LEMMA Living ==
  ASSUME IInv, NEW e \in Epochs, driver[e] \notin {"none", "finished", "over"}
  PROVE  /\ e = epoch /\ epoch # 0 /\ run # 0 /\ run \in Runs /\ ~terminal
         /\ action # 0 => action \in headers[run]
         /\ driver[e] = "marked" => at[e] \in headers[run]
         /\ driver[e] \in {"printed", "marked"} => at[e] # 0
         /\ driver[e] = "apply" => action = at[e]
         /\ driver[e] = "early" => action = 0 /\ at[e] = 0
         /\ driver[e] = "failing" => action = 0
<1> USE AttributionAssumption
<1>1. EngineOK /\ LifeOK /\ CursorFollowsDriver /\ CursorOK
  BY DEF IInv
<1>2. e = epoch /\ epoch # 0
  BY <1>1 DEF LifeOK, EngineOK, Epochs
<1> QED BY <1>1, <1>2 DEF LifeOK, EngineOK, CursorFollowsDriver, CursorOK, Runs

LEMMA DriveIInv == ASSUME IInv, NEW e \in Epochs, Drives(e) PROVE IInv'
<1> USE AttributionAssumption
<1>0. EngineOK /\ LifeOK /\ CursorFollowsDriver /\ CursorOK
  BY DEF IInv
<1>1. Moves(e)
  BY <1>0 DEF EngineOK, Moves, Places, Drives, Recommend, Apply, Header, PublishMarker,
     setActiveAction, Ends, LeavesTo, clearActiveAction, Finish, Goes, shown
<1>a. CASE Recommend(e)
  <2>1. UNCHANGED <<run, epoch, terminal, driver, at, action, headers>> /\ driver[e] = "early"
        /\ names[run] = "none"
    BY <1>a DEF Recommend
  <2>2. PICK n \in Scopes : names' = [names EXCEPT ![run] = n]
    BY <1>a DEF Recommend
  <2>3. EngineOK' /\ Grows
    <3>1. names' \in [Runs -> Scopes] /\ \A i \in Runs : names[i] # "none" => names'[i] = names[i]
      BY <1>0, <2>1, <2>2 DEF EngineOK
    <3>2. EngineOK'
      BY <1>0, <2>1, <3>1 DEF EngineOK
    <3> QED BY <1>0, <2>1, <3>1, <3>2 DEF EngineOK, Grows
  <2> QED BY <1>1, <2>1, <2>3, Living, MovesKeep
<1>b. CASE Apply(e)
  <2>1. UNCHANGED <<run, epoch, terminal, names, at, action, headers>> /\ driver[e] = "early"
        /\ driver'[e] = "apply"
    BY <1>0, <1>b DEF Apply, Goes, EngineOK
  <2>2. EngineOK' /\ Grows
    BY <1>0, <1>1, <2>1 DEF EngineOK, Grows, Moves
  <2> QED BY <1>1, <2>1, <2>2, Living, MovesKeep
<1>c. CASE Header(e)
  <2>1. UNCHANGED <<run, epoch, terminal, names, action, headers>> /\ driver[e] = "apply"
        /\ driver'[e] = "printed" /\ at' = [at EXCEPT ![e] = @ + 1] /\ at[e] < NActions
    BY <1>0, <1>c DEF Header, CursorAtHeader, Goes, EngineOK
  <2>2. at' \in [Epochs -> 0 .. NActions] /\ at'[e] # 0
    BY <1>0, <2>1 DEF EngineOK
  <2>3. EngineOK' /\ Grows
    BY <1>0, <1>1, <2>1, <2>2 DEF EngineOK, Grows, Moves
  <2> QED BY <1>1, <2>1, <2>2, <2>3, Living, MovesKeep
<1>d. CASE PublishMarker(e)
  <2>1. UNCHANGED <<run, epoch, terminal, names, at, action>> /\ driver[e] = "printed"
        /\ driver'[e] = "marked" /\ headers' = [headers EXCEPT ![run] = @ \cup {at[e]}]
    BY <1>0, <1>d DEF PublishMarker, Goes, EngineOK
  <2>2. at[e] \in Actions
    BY <1>0, <2>1, Living DEF EngineOK, Actions
  <2>3. EngineOK' /\ Grows /\ headers[run] \subseteq headers'[run] /\ at[e] \in headers'[run]
    BY <1>0, <1>1, <2>1, <2>2, Living DEF EngineOK, Grows, Moves
  <2> QED BY <1>1, <2>1, <2>3, Living, MovesKeep
<1>e. CASE setActiveAction(e)
  <2>1. UNCHANGED <<run, epoch, terminal, names, at, headers>> /\ driver[e] = "marked"
        /\ driver'[e] = "apply" /\ action' = at[e]
    BY <1>0, <1>e, Living DEF setActiveAction, Alive, Goes, EngineOK
  <2>2. EngineOK' /\ Grows
    BY <1>0, <1>1, <2>1, Living DEF EngineOK, Grows, Moves
  <2> QED BY <1>1, <2>1, <2>2, Living, MovesKeep
<1>f. CASE Ends(e)
  <2>1. /\ UNCHANGED <<run, epoch, terminal, names, at, action, headers>>
        /\ driver[e] \in {"apply", "early"}
        /\ driver'[e] \in {"left", "failing"} /\ (driver'[e] = "failing" => driver[e] = "early")
    BY <1>0, <1>f DEF Ends, LeavesTo, Goes, EngineOK
  <2>2. EngineOK' /\ Grows
    BY <1>0, <1>1, <2>1 DEF EngineOK, Grows, Moves
  <2> QED BY <1>1, <2>1, <2>2, Living, MovesKeep
<1>g. CASE Finish(e)
  <2>1. UNCHANGED <<run, epoch, names, at, action, headers>> /\ driver[e] = "failing"
        /\ driver'[e] = "finished" /\ terminal' = TRUE
    BY <1>0, <1>g DEF Finish, Goes, EngineOK
  <2>2. EngineOK' /\ Grows
    BY <1>0, <1>1, <2>1, Living DEF EngineOK, Grows, Moves
  <2> QED BY <1>1, <2>1, <2>2, Living, MovesKeep
<1>h. CASE clearActiveAction(e) /\ driver[e] = "left"
  <2>1. UNCHANGED <<run, epoch, terminal, names, at, headers>>
        /\ driver'[e] = "failing" /\ action' = 0
    BY <1>0, <1>h, Living DEF clearActiveAction, Clears, Alive, Goes, EngineOK
  <2>2. EngineOK' /\ Grows
    BY <1>0, <1>1, <2>1 DEF EngineOK, Grows, Moves
  <2> QED BY <1>1, <1>h, <2>1, <2>2, Living, MovesKeep
<1>i. CASE clearActiveAction(e) /\ driver[e] = "finished"
  <2>1. /\ UNCHANGED <<run, epoch, terminal, names, at, headers, cached, released, placed>>
        /\ driver'[e] = "over" /\ \A f \in Epochs : f # e => driver'[f] = driver[f]
        /\ action' = IF e = epoch THEN 0 ELSE action
    BY <1>0, <1>i DEF clearActiveAction, Clears, Alive, Goes, EngineOK, shown
  <2>2. EngineOK' /\ Grows
    BY <1>0, <1>1, <2>1 DEF EngineOK, Grows, Moves
  <2>3. LifeOK'
    <3>1. ASSUME NEW f \in Epochs
          PROVE  /\ driver'[f] # "none" <=> f <= epoch'
                 /\ f < epoch' => driver'[f] \in {"finished", "over"}
                 /\ driver'[f] \in {"finished", "over"} /\ f = epoch' => terminal'
                 /\ terminal' /\ f = epoch' => driver'[f] \in {"finished", "over"}
                 /\ driver'[f] \in {"none", "early"} => at'[f] = 0
      BY <1>0, <1>i, <2>1 DEF LifeOK
    <3> QED BY <3>1 DEF LifeOK
  <2>4. CursorFollowsDriver'
    <3>1. SUFFICES ASSUME epoch # 0
                   PROVE  /\ driver'[epoch] = "apply" => action' = at[epoch]
                          /\ driver'[epoch] \in {"early", "failing", "finished", "over"} => action' = 0
      BY <2>1 DEF CursorFollowsDriver
    <3>2. epoch \in Epochs
      BY <1>0, <3>1 DEF EngineOK, Epochs
    <3> QED BY <1>0, <2>1, <3>1, <3>2 DEF CursorFollowsDriver
  <2>5. CursorOK' /\ PlacedOK'
    BY <1>0, <2>1 DEF IInv, CursorOK, PlacedOK
  <2> QED BY <2>1, <2>2, <2>3, <2>4, <2>5, GrowKeeps DEF IInv
<1> QED BY <1>a, <1>b, <1>c, <1>d, <1>e, <1>f, <1>g, <1>h, <1>i DEF Drives, clearActiveAction

(***************************************************************************)
(* The handlers, the timers, and the events that read their scope.         *)
(***************************************************************************)
EventOK(r) == ReadingOK(r) /\ r.on \in 0 .. NActions /\ r.key \in Keys

(* A step that changes nothing of the engine, and of the events one at most. *)
LEMMA EventsKeep ==
  ASSUME IInv, UNCHANGED engine, NEW s, EventOK(s), released' \subseteq released \cup {s},
         CacheOK', PlacedOK'
  PROVE  IInv'
<1>1. EngineOK' /\ LifeOK' /\ CursorFollowsDriver' /\ CursorOK'
  BY DEF IInv, EngineOK, LifeOK, CursorFollowsDriver, CursorOK, engine
<1>2. ASSUME NEW r \in released' PROVE ReadingOK(r)' /\ r.on \in 0 .. NActions /\ r.key \in Keys
  <2>1. EventOK(r)
    BY DEF IInv, EventOK
  <2> QED BY <2>1 DEF EventOK, ReadingOK, engine
<1> QED BY <1>1, <1>2 DEF IInv

LEMMA NewEvent ==
  ASSUME IInv, NEW k \in Keys, NEW stamp, NEW resolved, NEW handler
  PROVE  EventOK(Event(k, stamp, resolved, handler))
<1>1. DOMAIN Event(k, stamp, resolved, handler) = Fields
  BY DEF Event, Fields
<1>2. 0 \in 0 .. run /\ 0 \in 0 .. NActions
  BY AttributionAssumption DEF IInv, EngineOK
<1> QED BY <1>1, <1>2 DEF EventOK, ReadingOK, Event

LEMMA WatchIInv ==
  ASSUME IInv,
         \/ \E n \in 0 .. 2 : NodeChanges(n)
         \/ \E d \in NewSpec \cup NewStatus : DeploymentChanges(d)
         \/ \E k \in Keys : Fires(k)
         \/ UNCHANGED vars
  PROVE  IInv'
<1>1. UNCHANGED <<engine, cached, placed>>
  BY DEF NodeChanges, DeploymentChanges, Fires, shown, vars
<1>2. CacheOK' /\ PlacedOK'
  BY <1>1 DEF IInv, CacheOK, CacheIsRecipe, PlacedOK, engine
<1>3. PICK k \in Keys, stamp \in {Now(<<Node, GPU>>), Now(<<Deployment, Rollout>>), pending[<<Node, GPU>>],
                               pending[<<Deployment, Rollout>>]},
           resolved \in BOOLEAN, handler \in BOOLEAN :
        released' \subseteq released \cup {Event(k, stamp, resolved, handler)}
  <2>1. CASE \E n \in 0 .. 2 : NodeChanges(n)
    BY <2>1 DEF NodeChanges, Waits, Passes, Keys
  <2>2. CASE \E d \in NewSpec \cup NewStatus : DeploymentChanges(d)
    <3>1. PICK d \in NewSpec \cup NewStatus : DeploymentChanges(d)
      BY <2>2
    <3>2. CASE UNCHANGED released
      BY <3>2 DEF Keys
    <3>3. CASE Passes(<<Deployment, Rollout>>, d.ready >= d.desired)
      <4>1. (d.ready >= d.desired) \in BOOLEAN
        OBVIOUS
      <4> QED BY <3>3, <4>1 DEF Passes, Keys
    <3> QED BY <3>1, <3>2, <3>3 DEF DeploymentChanges
  <2>3. CASE \E k \in Keys : Fires(k)
    BY <2>3 DEF Fires, Keys
  <2>4. CASE UNCHANGED vars
    BY <2>4 DEF vars, Keys
  <2> QED BY <2>1, <2>2, <2>3, <2>4
<1> QED BY <1>1, <1>2, <1>3, NewEvent, EventsKeep

LEMMA ReadIInv ==
  ASSUME IInv, NEW r \in released, ReadID(r) \/ ReadNames(r) \/ ReadCursor(r)
  PROVE  IInv'
<1> USE AttributionAssumption
<1>0. EngineOK /\ CursorOK /\ CacheOK /\ PlacedOK /\ EventOK(r) /\ run \in Nat
  BY DEF IInv, EventOK, EngineOK
<1>1. UNCHANGED engine /\ UNCHANGED placed
  BY DEF ReadID, ReadNames, ReadCursor, shown
<1>2. PlacedOK'
  BY <1>0, <1>1 DEF PlacedOK, engine
<1>3. UNCHANGED cached => CacheOK'
  BY <1>0, <1>1 DEF CacheOK, CacheIsRecipe, engine
<1>a. CASE ReadID(r)
  <2> DEFINE s == [r EXCEPT !.run = run, !.step = "names"]
  <2>1. r.step = "id" /\ released' \subseteq released \cup {s} /\ UNCHANGED cached
    BY <1>a DEF ReadID, Becomes
  <2>2. /\ DOMAIN s = Fields /\ s.run = run /\ s.step = "names" /\ s.on = r.on /\ s.key = r.key
    BY <1>0 DEF EventOK, ReadingOK, Fields
  <2>3. EventOK(s)
    BY <1>0, <2>1, <2>2 DEF EventOK, ReadingOK
  <2> QED BY <1>1, <1>2, <1>3, <2>1, <2>3, EventsKeep
<1>b. CASE ReadNames(r)
  <2> DEFINE hit == cached.run # 0 /\ cached.run = r.run
             read == IF r.run # 0 /\ r.run = run THEN names[run] ELSE "none"
             s == [r EXCEPT !.names = IF hit THEN cached.names ELSE read, !.step = "cursor"]
  <2>1. /\ r.step = "names" /\ released' \subseteq released \cup {s}
        /\ cached' = IF ~hit /\ Caches(r.run) THEN [run |-> r.run, names |-> read] ELSE cached
    BY <1>b DEF ReadNames, Becomes
  <2>2. /\ DOMAIN s = Fields /\ s.run = r.run /\ s.step = "cursor" /\ s.on = r.on /\ s.key = r.key
        /\ s.names = IF hit THEN cached.names ELSE read
    BY <1>0 DEF EventOK, ReadingOK, Fields
  <2>3. s.run # 0 => s.names \in {"none", names[s.run]}
    BY <1>0, <2>2 DEF CacheOK, CacheIsRecipe
  <2>4. EventOK(s)
    BY <1>0, <2>1, <2>2, <2>3 DEF EventOK, ReadingOK
  <2>5. CacheOK'
    <3>1. CASE cached' = cached
      BY <1>3, <3>1
    <3>2. CASE cached' = [run |-> r.run, names |-> read] /\ Caches(r.run)
      BY <1>0, <1>1, <3>2 DEF Caches, CacheOK, CacheIsRecipe, engine
    <3> QED BY <2>1, <3>1, <3>2
  <2> QED BY <1>1, <1>2, <2>1, <2>4, <2>5, EventsKeep
<1>c. CASE ReadCursor(r)
  <2> DEFINE s == IF Agrees(r) THEN [r EXCEPT !.run = run, !.on = action]
                  ELSE [r EXCEPT !.run = 0, !.names = "none"]
             t == [s EXCEPT !.step = "publish"]
  <2>1. r.step = "cursor" /\ released' \subseteq released \cup {t} /\ UNCHANGED cached
    BY <1>c DEF ReadCursor, Becomes
  <2>2. r.on = 0
    BY <1>0, <2>1 DEF EventOK, ReadingOK
  <2>3. CASE Agrees(r)
    <3>1. DOMAIN s = Fields /\ s.run = run /\ s.on = action /\ s.key = r.key /\ s.names = r.names
      BY <1>0, <2>3 DEF EventOK, ReadingOK, Fields
    <3>2. DOMAIN t = Fields /\ t.run = run /\ t.on = action /\ t.key = r.key /\ t.names = r.names
          /\ t.step = "publish"
      BY <3>1 DEF Fields
    <3>3. t.run # 0 => t.names \in {"none", names[t.run]}
      BY <1>0, <2>1, <2>3, <3>2 DEF EventOK, ReadingOK, Agrees
    <3>4. t.on # 0 => t.run # 0 /\ t.on \in headers[t.run]
      BY <1>0, <3>2 DEF EngineOK, CursorOK
    <3>5. EventOK(t)
      BY <1>0, <3>2, <3>3, <3>4 DEF EventOK, ReadingOK, EngineOK
    <3> QED BY <1>1, <1>2, <1>3, <2>1, <3>5, EventsKeep
  <2>4. CASE ~Agrees(r)
    <3>1. DOMAIN s = Fields /\ s.run = 0 /\ s.on = 0 /\ s.key = r.key
      BY <1>0, <2>2, <2>4 DEF EventOK, ReadingOK, Fields
    <3>2. DOMAIN t = Fields /\ t.run = 0 /\ t.on = 0 /\ t.key = r.key /\ t.step = "publish"
      BY <3>1 DEF Fields
    <3>3. EventOK(t)
      BY <1>0, <3>2 DEF EventOK, ReadingOK
    <3> QED BY <1>1, <1>2, <1>3, <2>1, <3>3, EventsKeep
  <2> QED BY <2>3, <2>4
<1> QED BY <1>a, <1>b, <1>c

LEMMA PublishIInv == ASSUME IInv, NEW r \in released, PublishEvent(r) PROVE IInv'
<1>0. EngineOK /\ CacheOK /\ PlacedOK /\ EventOK(r)
  BY DEF IInv, EventOK
<1>1. UNCHANGED engine /\ UNCHANGED cached /\ released' \subseteq released \cup {r}
  BY DEF PublishEvent, Folded
<1>2. CacheOK'
  BY <1>0, <1>1 DEF CacheOK, CacheIsRecipe, engine
<1>3. placed' = placed \/ (r.run # 0 /\ r.run = run /\ placed' = [placed EXCEPT ![r.key] = r.on])
  BY DEF PublishEvent, Folded, Emit
<1>4. PlacedOK'
  BY <1>0, <1>1, <1>3 DEF PlacedOK, EventOK, ReadingOK, engine
<1> QED BY <1>0, <1>1, <1>2, <1>4, EventsKeep

LEMMA NextIInv == IInv /\ [Next]_vars => IInv'
BY LaunchIInv, DriveIInv, WatchIInv, ReadIInv, PublishIInv DEF Next

LEMMA Inductive == Spec => []IInv
<1> QED BY InitIInv, NextIInv, PTL DEF Spec

(***************************************************************************)
(* The rows.  An event on its way is ordered by its time against all others *)
(* of its condition, and the last one says what the cluster is.            *)
(***************************************************************************)
NodeKey    == <<Node, GPU>>
RolloutKey == <<Deployment, Rollout>>

(* Nothing of the condition, on its way or shown, is later. *)
Latest(k, time) ==
  /\ \A r \in released : r.key = k => r.at <= time
  /\ pending[k] <= time /\ row[k].at <= time

(* No two events of a condition have one time. *)
TimesOK ==
  /\ pending \in [Keys -> Nat] /\ row \in [Keys -> [at : Nat, resolved : BOOLEAN]]
  /\ \A r \in released :
       r.key \in Keys /\ r.at \in Nat \ {0} /\ r.resolved \in BOOLEAN /\ r.handler \in BOOLEAN
  /\ \A r, s \in released : r.key = s.key /\ r.at = s.at => r = s
  /\ \A r \in released : r.at # pending[r.key] /\ r.at # row[r.key].at
  /\ \A k \in Keys : pending[k] # 0 => pending[k] # row[k].at
  /\ \E bound \in Nat : \A r \in released : r.at <= bound

(* An informer's handler publishes one event at a time, and onDeployment holds
   none back: its events come in the order of the statuses they are about. *)
HandlersOK ==
  /\ \A r, s \in released : r.key = s.key /\ r.handler /\ s.handler => r = s
  /\ \A r \in released : r.key = RolloutKey => r.handler
  /\ pending[RolloutKey] = 0
  /\ workload = dep.told
  /\ DOMAIN dep = {"ready", "desired", "observed", "told"}
  /\ gpu.fell \in BOOLEAN

(* What there is latest of the condition says `truth'. *)
LastSays(k, truth) ==
  /\ \A r \in released : r.key = k /\ Latest(k, r.at) => r.resolved = truth
  /\ pending[k] # 0 /\ Latest(k, pending[k]) => ~truth
  /\ row[k].at # 0 /\ Latest(k, row[k].at) => row[k].resolved = truth

RolledOut == dep.told[1] >= dep.told[2]

(* While nothing has crossed into this attempt, all events are of its run, and
   none is left out once one of its condition has been shown. *)
AttemptOK ==
  ~crossed /\ run # 0 =>
    /\ \A r \in released : r.step # "id" => r.run = run
    /\ \A r \in released : r.key = RolloutKey /\ r.step = "publish" => r.names = "ours"
    /\ row[RolloutKey].at # 0 =>
         /\ names[run] = "ours"
         /\ \A r \in released : r.key = RolloutKey /\ r.step = "cursor" => r.names = "ours"
    /\ LastSays(NodeKey, ~gpu.fell)
    /\ LastSays(RolloutKey, RolledOut)

RowInv == TimesOK /\ HandlersOK /\ AttemptOK

LEMMA KeysAre == NodeKey \in Keys /\ RolloutKey \in Keys /\ NodeKey # RolloutKey
                 /\ Keys = {NodeKey, RolloutKey}
BY AttributionAssumption DEF NodeKey, RolloutKey, Keys

LEMMA LeastNat ==
  ASSUME NEW T, T \subseteq Nat, T # {}
  PROVE  \E m \in T : \A k \in T : m <= k
<1>1. \E m \in T : \A k \in T : ~(<<k, m>> \in OpToRel(<, Nat))
  BY NatLessThanWellFounded, WFMin, Zenon
<1>2. PICK m \in T : \A k \in T : ~(<<k, m>> \in OpToRel(<, Nat))
  BY <1>1
<1>3. ASSUME NEW k \in T PROVE m <= k
  <2>1. ~(<<k, m>> \in OpToRel(<, Nat))
    BY <1>2
  <2>2. ~(k < m)
    BY <2>1 DEF OpToRel
  <2>3. k \in Nat /\ m \in Nat
    OBVIOUS
  <2> QED
    BY <2>2, <2>3
<1> QED
  BY <1>3

(* A set of naturals that is bounded has its maximum: the least bound. *)
LEMMA MaxIsMax ==
  ASSUME NEW S, S \subseteq Nat, S # {}, NEW b \in Nat, \A t \in S : t <= b
  PROVE  Max(S) \in S /\ \A t \in S : t <= Max(S)
<1> DEFINE U == {n \in Nat : \A t \in S : t <= n}
<1>1. PICK m \in U : \A n \in U : m <= n
  <2>1. U \subseteq Nat /\ b \in U
    OBVIOUS
  <2> HIDE DEF U
  <2> QED BY <2>1, LeastNat
<1>2. m \in S
  <2>1. SUFFICES ASSUME m \notin S PROVE FALSE
    OBVIOUS
  <2>2. \A t \in S : t \in Nat /\ t < m
    BY <1>1, <2>1
  <2>3. m - 1 \in Nat
    <3>1. PICK t \in S : TRUE
      OBVIOUS
    <3>2. t \in Nat /\ t < m /\ m \in Nat
      BY <1>1, <2>2, <3>1
    <3> QED BY <3>2
  <2>4. m - 1 \in U
    BY <2>2, <2>3
  <2> QED BY <1>1, <2>3, <2>4
<1>3. \E x \in S : \A y \in S : x >= y
  <2>1. \A y \in S : m >= y
    BY <1>1
  <2> QED BY <1>2, <2>1
<1>4. Max(S) \in S /\ \A y \in S : Max(S) >= y
  <2> HIDE DEF U
  <2> QED BY <1>3, Zenon DEF Max
<1>5. \A y \in S : y \in Nat
  OBVIOUS
<1> QED BY <1>4, <1>5

(* publish stamps an event later than all there are. *)
LEMMA NowIsLater ==
  ASSUME TimesOK, NEW k \in Keys
  PROVE  /\ Now(k) \in Nat \ {0}
         /\ \A r \in released : r.key = k => r.at < Now(k)
         /\ pending[k] < Now(k) /\ row[k].at < Now(k)
<1> DEFINE S == OnTheirWay(k) \cup {row[k].at}
<1>1. pending[k] \in Nat /\ row[k].at \in Nat
  BY DEF TimesOK
<1>2. S \subseteq Nat /\ S # {}
  BY <1>1 DEF TimesOK, OnTheirWay
<1>3. PICK b \in Nat : \A r \in released : r.at <= b
  BY DEF TimesOK
<1>4. \A r \in released : r.key = k => r.at \in S
  BY DEF OnTheirWay
<1>5. pending[k] # 0 => pending[k] \in S
  BY DEF OnTheirWay
<1>6. \A t \in S : t <= b + pending[k] + row[k].at
  <2>1. ASSUME NEW t \in S PROVE t <= b + pending[k] + row[k].at
    <3>1. CASE t = pending[k] \/ t = row[k].at
      BY <1>1, <1>3, <3>1
    <3>2. CASE \E r \in released : t = r.at
      <4>1. PICK r \in released : t = r.at
        BY <3>2
      <4>2. t \in Nat /\ t <= b
        BY <1>2, <1>3, <4>1
      <4> HIDE DEF S
      <4> QED BY <1>1, <1>3, <4>2
    <3> QED BY <3>1, <3>2 DEF OnTheirWay
  <2> QED BY <2>1
<1>7. row[k].at \in S /\ Now(k) = Max(S) + 1 /\ b + pending[k] + row[k].at \in Nat
  BY <1>1, <1>3 DEF Now
<1>8. Max(S) \in S /\ \A t \in S : t <= Max(S)
  <2> HIDE DEF S
  <2> QED BY <1>2, <1>6, <1>7, MaxIsMax
<1>9. Max(S) \in Nat
  BY <1>2, <1>8
<1>10. \A t \in S : t \in Nat /\ t < Now(k)
  BY <1>2, <1>7, <1>8, <1>9
<1>11. Now(k) \in Nat \ {0}
  BY <1>7, <1>9
<1> HIDE DEF S
<1> QED BY <1>1, <1>4, <1>5, <1>7, <1>10, <1>11

(* What foldClusterEvent makes of the row. *)
LEMMA EmitIs ==
  ASSUME TimesOK, NEW r \in released, r.key \in Keys, NEW inScope \in BOOLEAN,
         Emit(r.key, r.at, r.resolved, inScope)
  PROVE  /\ row' \in [Keys -> [at : Nat, resolved : BOOLEAN]]
         /\ \A k \in Keys : k # r.key => row'[k] = row[k]
         /\ inScope /\ r.at > row[r.key].at =>
              /\ row'[r.key].resolved = r.resolved
              /\ \/ row'[r.key].at = r.at
                 \/ /\ row'[r.key].at = 1 /\ pending[r.key] = 0
                    /\ \A s \in released : s.key = r.key => s = r
         /\ ~(inScope /\ r.at > row[r.key].at) => row' = row
<1> DEFINE time == IF OnTheirWay(r.key) \subseteq {r.at} THEN 1 ELSE r.at
<1>1. r.at \in Nat \ {0} /\ r.resolved \in BOOLEAN
  BY DEF TimesOK
<1>2. row' = IF inScope /\ r.at > row[r.key].at
             THEN [row EXCEPT ![r.key] = [resolved |-> r.resolved, at |-> time]] ELSE row
  BY DEF Emit, Supersedes
<1>3. time = r.at \/ (time = 1 /\ OnTheirWay(r.key) \subseteq {r.at})
  OBVIOUS
<1>4. ASSUME OnTheirWay(r.key) \subseteq {r.at}
      PROVE  pending[r.key] = 0 /\ \A s \in released : s.key = r.key => s = r
  <2>1. \A s \in released : s.key = r.key => s.at = r.at
    BY <1>4 DEF OnTheirWay
  <2>2. pending[r.key] # 0 => pending[r.key] = r.at
    BY <1>4 DEF OnTheirWay
  <2> QED BY <2>1, <2>2 DEF TimesOK
<1>5. time \in Nat
  BY <1>1, <1>3
<1> HIDE DEF time
<1>6. [resolved |-> r.resolved, at |-> time] \in [at : Nat, resolved : BOOLEAN]
  BY <1>1, <1>5
<1>7. row \in [Keys -> [at : Nat, resolved : BOOLEAN]]
  BY DEF TimesOK
<1>8. row' \in [Keys -> [at : Nat, resolved : BOOLEAN]]
  BY <1>2, <1>6, <1>7
<1> QED BY <1>2, <1>3, <1>4, <1>7, <1>8

(* A row shown or not, the last event goes on saying what it said: the one that
   is published is either shown, or was not the last. *)
LEMMA EmitSays ==
  ASSUME TimesOK, NEW r \in released, r.key \in Keys, Emit(r.key, r.at, r.resolved, TRUE),
         released' = released \ {r}, UNCHANGED pending,
         NEW k \in Keys, NEW truth \in BOOLEAN, LastSays(k, truth)
  PROVE  LastSays(k, truth)'
<1>0. /\ row \in [Keys -> [at : Nat, resolved : BOOLEAN]] /\ pending \in [Keys -> Nat]
      /\ row' \in [Keys -> [at : Nat, resolved : BOOLEAN]]
      /\ \A s \in released : s.at \in Nat \ {0}
  BY EmitIs DEF TimesOK
<1>1. CASE k # r.key
  <2>1. row'[k] = row[k] /\ \A s \in released : s.key = k => s \in released'
    BY <1>1, EmitIs
  <2> QED BY <1>0, <1>1, <2>1 DEF LastSays, Latest
<1>2. CASE k = r.key /\ r.at > row[k].at
  <2>1. /\ row'[k].resolved = r.resolved
        /\ \/ row'[k].at = r.at
           \/ /\ row'[k].at = 1 /\ pending[k] = 0
              /\ \A s \in released : s.key = k => s = r
    BY <1>2, EmitIs
  <2>2. CASE row'[k].at = r.at
    <3>1. \A time \in Nat : Latest(k, time)' => r.at <= time /\ row[k].at <= time
      BY <1>0, <1>2, <2>2 DEF Latest
    <3>2. \A time \in Nat : Latest(k, time)' => Latest(k, time)
      BY <1>0, <3>1 DEF Latest
    <3>3. \A s \in released' : s.key = k /\ Latest(k, s.at)' => s.resolved = truth
      BY <1>0, <3>2 DEF LastSays
    <3>4. pending'[k] # 0 /\ Latest(k, pending[k])' => ~truth
      BY <1>0, <3>2 DEF LastSays
    <3>5. Latest(k, row[k].at)' => Latest(k, r.at)
      BY <1>0, <1>2, <2>2 DEF Latest
    <3>6. Latest(k, row[k].at)' => row'[k].resolved = truth
      BY <1>2, <2>1, <3>5 DEF LastSays
    <3> QED BY <3>3, <3>4, <3>6 DEF LastSays
  <2>3. CASE row'[k].at = 1 /\ pending[k] = 0 /\ \A s \in released : s.key = k => s = r
    <3>1. Latest(k, r.at)
      BY <1>0, <1>2, <2>3 DEF Latest
    <3>2. row'[k].resolved = truth
      BY <1>2, <2>1, <3>1 DEF LastSays
    <3>3. \A s \in released' : s.key # k
      BY <2>3
    <3> QED BY <2>3, <3>2, <3>3 DEF LastSays
  <2> QED BY <2>1, <2>2, <2>3
<1>3. CASE k = r.key /\ ~(r.at > row[k].at)
  <2>1. row' = row
    BY <1>3, EmitIs
  <2>2. \A time \in Nat : Latest(k, time)' => Latest(k, time)
    <3>1. ASSUME NEW time \in Nat, Latest(k, time)' PROVE Latest(k, time)
      <4>1. r.at <= row[k].at /\ row[k].at <= time /\ row[k].at \in Nat /\ r.at \in Nat
        BY <1>0, <1>3, <2>1, <3>1 DEF Latest
      <4>2. r.at <= time
        BY <4>1
      <4> QED BY <2>1, <3>1, <4>2 DEF Latest
    <3> QED BY <3>1
  <2> QED BY <1>0, <2>1, <2>2 DEF LastSays
<1> QED BY <1>1, <1>2, <1>3

(* A new event is the last one, and says what it says. *)
LEMMA PassSays ==
  ASSUME TimesOK, NEW k \in Keys, NEW resolved \in BOOLEAN, Passes(k, resolved), UNCHANGED row
  PROVE  /\ LastSays(k, resolved)'
         /\ TimesOK'
         /\ \A j \in Keys, truth \in BOOLEAN :
              j # k /\ LastSays(j, truth) => LastSays(j, truth)'
<1>1. PICK e :
        /\ released' = released \cup {e} /\ UNCHANGED <<pending, row>>
        /\ e.key = k /\ e.at = Now(k) /\ e.resolved = resolved /\ e.handler = TRUE
  <2> WITNESS Event(k, Now(k), resolved, TRUE)
  <2> QED BY DEF Passes, Event
<1>2. /\ Now(k) \in Nat \ {0}
      /\ \A r \in released : r.key = k => r.at < Now(k)
      /\ pending[k] < Now(k) /\ row[k].at < Now(k)
  BY NowIsLater
<1>3. /\ row \in [Keys -> [at : Nat, resolved : BOOLEAN]] /\ pending \in [Keys -> Nat]
      /\ \A s \in released : s.at \in Nat \ {0}
  BY DEF TimesOK
<1>4. LastSays(k, resolved)'
  <2>1. ASSUME NEW time \in Nat, Latest(k, time)' PROVE Now(k) <= time
    BY <1>1, <2>1 DEF Latest
  <2>2. \A r \in released' : r.key = k /\ Latest(k, r.at)' => r.resolved = resolved
    BY <1>1, <1>2, <1>3, <2>1
  <2>3. ~Latest(k, pending[k])' /\ ~Latest(k, row[k].at)'
    BY <1>1, <1>2, <1>3, <2>1
  <2> QED BY <1>1, <2>2, <2>3 DEF LastSays
<1>5. TimesOK'
  <2>1. \A r \in released' :
          r.key \in Keys /\ r.at \in Nat \ {0} /\ r.resolved \in BOOLEAN /\ r.handler \in BOOLEAN
    BY <1>1, <1>2 DEF TimesOK
  <2>2. \A r, s \in released' : r.key = s.key /\ r.at = s.at => r = s
    BY <1>1, <1>2, <1>3 DEF TimesOK
  <2>3. \A r \in released' : r.at # pending[r.key] /\ r.at # row[r.key].at
    BY <1>1, <1>2, <1>3 DEF TimesOK
  <2>4. \E bound \in Nat : \A r \in released' : r.at <= bound
    <3>1. PICK bound \in Nat : \A r \in released : r.at <= bound
      BY DEF TimesOK
    <3>2. bound + Now(k) \in Nat /\ \A r \in released' : r.at <= bound + Now(k)
      BY <1>1, <1>2, <1>3, <3>1
    <3> QED BY <3>2
  <2> QED BY <1>1, <2>1, <2>2, <2>3, <2>4 DEF TimesOK
<1>6. ASSUME NEW j \in Keys, j # k, NEW truth \in BOOLEAN, LastSays(j, truth)
      PROVE  LastSays(j, truth)'
  BY <1>1, <1>6 DEF LastSays, Latest
<1> QED BY <1>4, <1>5, <1>6

(* So does one that waits: trouble, and the last of its condition. *)
LEMMA WaitSays ==
  ASSUME TimesOK, NEW k \in Keys, Waits(k), UNCHANGED row
  PROVE  /\ LastSays(k, FALSE)'
         /\ TimesOK'
         /\ \A j \in Keys, truth \in BOOLEAN :
              j # k /\ LastSays(j, truth) => LastSays(j, truth)'
<1>1. pending' = [pending EXCEPT ![k] = Now(k)] /\ UNCHANGED <<released, row>>
  BY DEF Waits
<1>2. /\ Now(k) \in Nat \ {0}
      /\ \A r \in released : r.key = k => r.at < Now(k)
      /\ pending[k] < Now(k) /\ row[k].at < Now(k)
  BY NowIsLater
<1>3. /\ row \in [Keys -> [at : Nat, resolved : BOOLEAN]] /\ pending \in [Keys -> Nat]
      /\ \A s \in released : s.at \in Nat \ {0}
  BY DEF TimesOK
<1>4. pending' \in [Keys -> Nat] /\ pending'[k] = Now(k)
      /\ \A j \in Keys : j # k => pending'[j] = pending[j]
  BY <1>1, <1>2, <1>3
<1>5. LastSays(k, FALSE)'
  <2>1. ASSUME NEW time \in Nat, Latest(k, time)' PROVE Now(k) <= time
    BY <1>1, <1>4, <2>1 DEF Latest
  <2>2. \A r \in released : r.key = k => ~Latest(k, r.at)'
    BY <1>1, <1>2, <1>3, <2>1
  <2>3. ~Latest(k, row[k].at)'
    BY <1>1, <1>2, <1>3, <2>1
  <2> QED BY <1>1, <2>2, <2>3 DEF LastSays
<1>6. TimesOK'
  BY <1>1, <1>2, <1>3, <1>4 DEF TimesOK
<1>7. ASSUME NEW j \in Keys, j # k, NEW truth \in BOOLEAN, LastSays(j, truth)
      PROVE  LastSays(j, truth)'
  BY <1>1, <1>4, <1>7 DEF LastSays, Latest
<1> QED BY <1>5, <1>6, <1>7

(* A timer takes what waits: the same event, elsewhere. *)
LEMMA FireSays ==
  ASSUME TimesOK, NEW k \in Keys, Fires(k)
  PROVE  /\ TimesOK'
         /\ \A j \in Keys, truth \in BOOLEAN : LastSays(j, truth) => LastSays(j, truth)'
<1>1. PICK e :
        /\ released' = released \cup {e} /\ pending' = [pending EXCEPT ![k] = 0] /\ UNCHANGED row
        /\ pending[k] # 0
        /\ e.key = k /\ e.at = pending[k] /\ e.resolved = FALSE /\ e.handler = FALSE
  <2> WITNESS Event(k, pending[k], FALSE, FALSE)
  <2> QED BY DEF Fires, Event, shown
<1>2. /\ row \in [Keys -> [at : Nat, resolved : BOOLEAN]] /\ pending \in [Keys -> Nat]
      /\ \A s \in released : s.at \in Nat \ {0} /\ s.key \in Keys
  BY DEF TimesOK
<1>3. pending' \in [Keys -> Nat] /\ pending'[k] = 0 /\ pending[k] \in Nat \ {0}
      /\ \A j \in Keys : j # k => pending'[j] = pending[j]
  BY <1>1, <1>2
<1>4. TimesOK'
  <2>1. \A r \in released' :
          r.key \in Keys /\ r.at \in Nat \ {0} /\ r.resolved \in BOOLEAN /\ r.handler \in BOOLEAN
    BY <1>1, <1>3 DEF TimesOK
  <2>2. \A r, s \in released' : r.key = s.key /\ r.at = s.at => r = s
    BY <1>1 DEF TimesOK
  <2>3. \A r \in released' : r.at # pending'[r.key] /\ r.at # row'[r.key].at
    <3>1. ASSUME NEW r \in released', r.key = k PROVE r.at # pending'[r.key] /\ r.at # row'[r.key].at
      BY <1>1, <1>2, <1>3, <2>1, <3>1 DEF TimesOK
    <3>2. ASSUME NEW r \in released', r.key # k PROVE r.at # pending'[r.key] /\ r.at # row'[r.key].at
      BY <1>1, <1>2, <1>3, <3>2 DEF TimesOK
    <3> QED BY <3>1, <3>2
  <2>4. \E bound \in Nat : \A r \in released' : r.at <= bound
    <3>1. PICK bound \in Nat : \A r \in released : r.at <= bound
      BY DEF TimesOK
    <3>2. bound + pending[k] \in Nat /\ \A r \in released' : r.at <= bound + pending[k]
      BY <1>1, <1>2, <1>3, <3>1
    <3> QED BY <3>2
  <2>5. \A j \in Keys : pending'[j] # 0 => pending'[j] # row'[j].at
    BY <1>1, <1>3 DEF TimesOK
  <2> QED BY <1>1, <1>2, <1>3, <2>1, <2>2, <2>3, <2>4, <2>5 DEF TimesOK
<1>5. ASSUME NEW j \in Keys, NEW truth \in BOOLEAN, LastSays(j, truth)
      PROVE  LastSays(j, truth)'
  <2>1. \A time \in Nat : Latest(j, time)' => Latest(j, time)
    BY <1>1, <1>2, <1>3 DEF Latest
  <2>2. \A s \in released' : s.key = j /\ Latest(j, s.at)' => s.resolved = truth
    <3>1. \A s \in released : s.key = j /\ Latest(j, s.at)' => s.resolved = truth
      BY <1>2, <1>5, <2>1 DEF LastSays
    <3>2. e.key = j /\ Latest(j, e.at)' => e.resolved = truth
      BY <1>1, <1>3, <1>5, <2>1 DEF LastSays
    <3> QED BY <1>1, <3>1, <3>2
  <2>3. pending'[j] # 0 /\ Latest(j, pending[j])' => ~truth
    BY <1>2, <1>3, <1>5, <2>1 DEF LastSays
  <2>4. row[j].at # 0 /\ Latest(j, row[j].at)' => row[j].resolved = truth
    BY <1>1, <1>2, <1>5, <2>1 DEF LastSays
  <2> QED BY <1>1, <2>2, <2>3, <2>4 DEF LastSays
<1> QED BY <1>4, <1>5

(* An event that has read more of its scope is the same event. *)
LEMMA ReadSays ==
  ASSUME TimesOK, HandlersOK, NEW r \in released, NEW s,
         s.key = r.key, s.at = r.at, s.resolved = r.resolved, s.handler = r.handler,
         released' = (released \ {r}) \cup {s},
         UNCHANGED <<pending, row, workload, dep, gpu>>
  PROVE  /\ TimesOK' /\ HandlersOK'
         /\ \A j \in Keys, truth \in BOOLEAN : LastSays(j, truth) => LastSays(j, truth)'
<1>1. TimesOK'
  <2>1. \A q \in released' :
          q.key \in Keys /\ q.at \in Nat \ {0} /\ q.resolved \in BOOLEAN /\ q.handler \in BOOLEAN
    BY DEF TimesOK
  <2>2. \A q, t \in released' : q.key = t.key /\ q.at = t.at => q = t
    BY DEF TimesOK
  <2>3. \A q \in released' : q.at # pending[q.key] /\ q.at # row[q.key].at
    BY DEF TimesOK
  <2>4. \E bound \in Nat : \A q \in released' : q.at <= bound
    BY DEF TimesOK
  <2> QED BY <2>1, <2>2, <2>3, <2>4 DEF TimesOK
<1>2. HandlersOK'
  BY DEF HandlersOK
<1>3. ASSUME NEW j \in Keys, NEW truth \in BOOLEAN, LastSays(j, truth)
      PROVE  LastSays(j, truth)'
  <2>1. /\ row \in [Keys -> [at : Nat, resolved : BOOLEAN]] /\ pending \in [Keys -> Nat]
        /\ \A q \in released : q.at \in Nat \ {0}
    BY DEF TimesOK
  <2>2. \A time \in Nat : Latest(j, time)' => Latest(j, time)
    BY DEF Latest
  <2>3. \A q \in released : q.key = j /\ Latest(j, q.at)' => q.resolved = truth
    BY <1>3, <2>1, <2>2 DEF LastSays
  <2>4. \A q \in released' : q.key = j /\ Latest(j, q.at)' => q.resolved = truth
    BY <2>3
  <2>5. pending[j] # 0 /\ Latest(j, pending[j])' => ~truth
    BY <1>3, <2>1, <2>2 DEF LastSays
  <2>6. row[j].at # 0 /\ Latest(j, row[j].at)' => row[j].resolved = truth
    BY <1>3, <2>1, <2>2 DEF LastSays
  <2> QED BY <2>4, <2>5, <2>6 DEF LastSays
<1> QED BY <1>1, <1>2, <1>3

(***************************************************************************)
(* The rows, step by step.                                                 *)
(***************************************************************************)
LEMMA InitRows == Init => RowInv
<1> SUFFICES ASSUME Init PROVE RowInv
  OBVIOUS
<1>1. released = {} /\ pending = [k \in Keys |-> 0] /\ row = [k \in Keys |-> NoRow] /\ run = 0
  BY DEF Init, DebounceInit
<1>2. NoRow \in [at : Nat, resolved : BOOLEAN]
  BY DEF NoRow
<1>3. TimesOK
  BY <1>1, <1>2 DEF TimesOK
<1>4. HandlersOK
  BY <1>1, KeysAre DEF HandlersOK, Init
<1> QED BY <1>1, <1>3, <1>4 DEF RowInv, AttemptOK

LEMMA LaunchRows == ASSUME RowInv, Start \/ Retry PROVE RowInv'
<1>1. /\ row' = [k \in Keys |-> NoRow] /\ crossed' = ~Idle
      /\ UNCHANGED <<pending, released, workload, dep, gpu>>
  BY DEF Start, Retry, Launch, cluster
<1>2. NoRow \in [at : Nat, resolved : BOOLEAN] /\ NoRow.at = 0
  BY DEF NoRow
<1>3. row' \in [Keys -> [at : Nat, resolved : BOOLEAN]] /\ \A k \in Keys : row'[k].at = 0
  BY <1>1, <1>2
<1>4. TimesOK'
  BY <1>1, <1>3 DEF RowInv, TimesOK
<1>5. HandlersOK'
  BY <1>1 DEF RowInv, HandlersOK
<1>6. ~crossed' => released' = {} /\ \A k \in Keys : pending'[k] = 0
  BY <1>1 DEF Idle
<1>7. AttemptOK'
  BY <1>3, <1>6, KeysAre DEF AttemptOK, LastSays
<1> QED BY <1>4, <1>5, <1>7 DEF RowInv

(* A goroutine says nothing of the cluster; a recipe is only written once. *)
LEMMA QuietRows ==
  ASSUME RowInv, UNCHANGED <<released, pending, row, workload, gpu, crossed, run>>,
         dep'.told = dep.told, DOMAIN dep' = {"ready", "desired", "observed", "told"},
         run # 0 /\ names[run] = "ours" => names'[run] = "ours"
  PROVE  RowInv'
<1>1. TimesOK' /\ HandlersOK'
  BY DEF RowInv, TimesOK, HandlersOK
<1>2. \A k \in Keys, truth \in BOOLEAN : LastSays(k, truth) <=> LastSays(k, truth)'
  BY DEF LastSays, Latest
<1>3. AttemptOK'
  BY <1>2, KeysAre DEF RowInv, HandlersOK, AttemptOK, RolledOut, LastSays, Latest
<1> QED BY <1>1, <1>3 DEF RowInv

LEMMA DriveRows == ASSUME IInv, RowInv, NEW e \in Epochs, Drives(e) PROVE RowInv'
<1>1. UNCHANGED <<released, pending, row, workload, dep, gpu, crossed, run>>
  BY DEF Drives, Recommend, Apply, Header, PublishMarker, setActiveAction, Ends, LeavesTo,
     clearActiveAction, Finish, cluster, shown
<1>2. run # 0 /\ names[run] = "ours" => names'[run] = "ours"
  BY DEF IInv, EngineOK, Drives, Recommend, Apply, Header, PublishMarker, setActiveAction, Ends,
     LeavesTo, clearActiveAction, Finish
<1>3. DOMAIN dep' = {"ready", "desired", "observed", "told"}
  BY <1>1 DEF RowInv, HandlersOK
<1> QED BY <1>1, <1>2, <1>3, QuietRows

LEMMA NodeRows == ASSUME RowInv, NEW n \in 0 .. 2, NodeChanges(n) PROVE RowInv'
<1>1. /\ Free(NodeKey)
      /\ (n < gpu.qty => gpu'.fell = TRUE) /\ (~(n < gpu.qty) => gpu'.fell = FALSE)
      /\ UNCHANGED <<dep, workload, row, crossed, run, names>>
      /\ IF n < gpu.qty THEN Waits(NodeKey) ELSE Passes(NodeKey, TRUE)
  <2> DEFINE falls == n < gpu.qty
  <2>1. gpu' = [qty |-> n, fell |-> falls] /\ falls \in BOOLEAN
    BY DEF NodeChanges
  <2>2. /\ Free(NodeKey) /\ UNCHANGED <<dep, workload, row, crossed, run, names>>
        /\ IF falls THEN Waits(NodeKey) ELSE Passes(NodeKey, TRUE)
    BY DEF NodeChanges, Changes, NodeKey, engine, shown
  <2> HIDE DEF falls
  <2>3. (falls => gpu'.fell = TRUE) /\ (~falls => gpu'.fell = FALSE)
    BY <2>1
  <2> QED BY <2>2, <2>3 DEF falls
<1>2. TimesOK /\ HandlersOK /\ AttemptOK
  BY DEF RowInv
<1>3. RolledOut \in BOOLEAN /\ RolledOut' = RolledOut
  BY <1>1 DEF RolledOut
<1>4. CASE n < gpu.qty
  <2>1. /\ gpu'.fell = TRUE /\ UNCHANGED released /\ Waits(NodeKey)
        /\ pending'[RolloutKey] = pending[RolloutKey]
    BY <1>1, <1>2, <1>4, KeysAre DEF Waits, TimesOK
  <2>2. LastSays(NodeKey, FALSE)' /\ TimesOK'
    BY <1>1, <1>2, <2>1, KeysAre, WaitSays
  <2>3. LastSays(RolloutKey, RolledOut) => LastSays(RolloutKey, RolledOut)'
    BY <1>1, <1>3, <2>1, KeysAre DEF LastSays, Latest
  <2>4. LastSays(NodeKey, ~gpu.fell)'
    BY <2>1, <2>2 DEF LastSays
  <2>5. HandlersOK'
    BY <1>1, <1>2, <2>1 DEF HandlersOK
  <2> QED BY <1>1, <1>2, <2>1, <2>2, <2>3, <2>4, <2>5 DEF RowInv, AttemptOK
<1>5. CASE ~(n < gpu.qty)
  <2>1. gpu'.fell = FALSE /\ UNCHANGED pending /\ Passes(NodeKey, TRUE)
    BY <1>1, <1>5 DEF Passes
  <2>2. PICK e : released' = released \cup {e} /\ e.key = NodeKey /\ e.handler = TRUE /\ e.step = "id"
    <3> WITNESS Event(NodeKey, Now(NodeKey), TRUE, TRUE)
    <3> QED BY <2>1 DEF Passes, Event
  <2>3. LastSays(NodeKey, TRUE)' /\ TimesOK'
    BY <1>1, <1>2, <2>1, KeysAre, PassSays
  <2>4. LastSays(RolloutKey, RolledOut) => LastSays(RolloutKey, RolledOut)'
    BY <1>1, <1>3, <2>1, <2>2, KeysAre DEF LastSays, Latest
  <2>5. LastSays(NodeKey, ~gpu.fell)'
    BY <2>1, <2>3 DEF LastSays
  <2>6. HandlersOK'
    BY <1>1, <1>2, <2>1, <2>2, KeysAre DEF HandlersOK, Free
  <2> QED BY <1>1, <1>2, <2>2, <2>3, <2>4, <2>5, <2>6, KeysAre DEF RowInv, AttemptOK
<1> QED BY <1>4, <1>5

LEMMA DeploymentRows ==
  ASSUME RowInv, NEW d \in NewSpec \cup NewStatus, DeploymentChanges(d)
  PROVE  RowInv'
<1>1. /\ Free(RolloutKey) /\ dep' = d
      /\ UNCHANGED <<gpu, row, crossed, run, names, pending>>
      /\ \/ /\ d.observed /\ workload # <<d.ready, d.desired>>
            /\ workload' = <<d.ready, d.desired>>
            /\ Passes(RolloutKey, d.ready >= d.desired)
         \/ /\ ~(d.observed /\ workload # <<d.ready, d.desired>>)
            /\ UNCHANGED <<workload, released>>
  BY DEF DeploymentChanges, Changes, RolloutKey, Observed, engine, shown, Passes
<1>2. TimesOK /\ HandlersOK /\ AttemptOK
  BY DEF RowInv
<1>3. DOMAIN d = {"ready", "desired", "observed", "told"}
      /\ \/ d.observed = TRUE /\ d.told = <<d.ready, d.desired>>
         \/ d.observed = FALSE /\ d.told = dep.told
  <2>1. CASE d \in NewSpec
    BY <1>2, <2>1 DEF HandlersOK, NewSpec
  <2>2. CASE d \in NewStatus
    BY <1>2, <2>2 DEF HandlersOK, NewStatus
  <2> QED BY <2>1, <2>2
<1>4. CASE ~(d.observed /\ workload # <<d.ready, d.desired>>)
  <2>1. UNCHANGED <<workload, released>> /\ dep'.told = dep.told
    BY <1>1, <1>2, <1>3, <1>4 DEF HandlersOK
  <2> QED BY <1>1, <1>3, <2>1, QuietRows
<1>5. CASE d.observed /\ workload # <<d.ready, d.desired>>
  <2> DEFINE rolled == d.ready >= d.desired
  <2>1. d.told = <<d.ready, d.desired>>
    BY <1>2, <1>3, <1>5 DEF HandlersOK
  <2>2. workload' = dep'.told /\ Passes(RolloutKey, rolled) /\ RolledOut' = rolled
    <3>1. dep'.told = <<d.ready, d.desired>> /\ dep'.told[1] = d.ready /\ dep'.told[2] = d.desired
      BY <1>1, <2>1
    <3>2. RolledOut' = rolled
      BY <3>1 DEF RolledOut
    <3>3. workload' = <<d.ready, d.desired>> /\ Passes(RolloutKey, rolled)
      BY <1>1, <1>5
    <3> HIDE DEF rolled
    <3> QED BY <3>1, <3>2, <3>3
  <2>3. rolled \in BOOLEAN
    OBVIOUS
  <2> HIDE DEF rolled
  <2>4. PICK e : released' = released \cup {e} /\ e.key = RolloutKey /\ e.handler = TRUE /\ e.step = "id"
    <3> WITNESS Event(RolloutKey, Now(RolloutKey), rolled, TRUE)
    <3> QED BY <2>2 DEF Passes, Event
  <2>5. LastSays(RolloutKey, rolled)' /\ TimesOK'
    BY <1>1, <1>2, <2>2, <2>3, KeysAre, PassSays
  <2>6. LastSays(NodeKey, ~gpu.fell) => LastSays(NodeKey, ~gpu.fell)'
    BY <1>1, <2>4, KeysAre DEF LastSays, Latest
  <2>7. LastSays(RolloutKey, RolledOut)'
    BY <2>2, <2>5 DEF LastSays
  <2>8. HandlersOK'
    BY <1>1, <1>2, <1>3, <2>2, <2>4, KeysAre DEF HandlersOK, Free
  <2> QED BY <1>1, <1>2, <2>4, <2>5, <2>6, <2>7, <2>8, KeysAre DEF RowInv, AttemptOK
<1> QED BY <1>1, <1>4, <1>5

LEMMA FireRows == ASSUME RowInv, NEW k \in Keys, Fires(k) PROVE RowInv'
<1>1. TimesOK /\ HandlersOK /\ AttemptOK
  BY DEF RowInv
<1>2. /\ UNCHANGED <<row, workload, dep, gpu, crossed, run, names>> /\ pending[k] # 0
      /\ pending' = [pending EXCEPT ![k] = 0]
  BY DEF Fires, engine, cluster, shown
<1>3. PICK e : released' = released \cup {e} /\ e.key = k /\ e.handler = FALSE /\ e.step = "id"
  <2> WITNESS Event(k, pending[k], FALSE, FALSE)
  <2> QED BY DEF Fires, Event
<1>4. k = NodeKey
  BY <1>1, <1>2, KeysAre DEF HandlersOK
<1>5. HandlersOK'
  BY <1>1, <1>2, <1>3, <1>4, KeysAre DEF HandlersOK, TimesOK
<1>6. TimesOK' /\ (LastSays(NodeKey, ~gpu.fell) => LastSays(NodeKey, ~gpu.fell)')
  BY <1>1, <1>2, KeysAre, FireSays DEF HandlersOK, LastSays
<1>7. LastSays(RolloutKey, RolledOut) => LastSays(RolloutKey, RolledOut)'
  BY <1>1, <1>2, <1>3, <1>4, KeysAre DEF LastSays, Latest, RolledOut, TimesOK
<1> QED BY <1>1, <1>2, <1>3, <1>4, <1>5, <1>6, <1>7, KeysAre DEF RowInv, AttemptOK

LEMMA ReadRows ==
  ASSUME IInv, RowInv, NEW r \in released, ReadID(r) \/ ReadNames(r) \/ ReadCursor(r)
  PROVE  RowInv'
<1>0. TimesOK /\ HandlersOK /\ AttemptOK /\ EngineOK /\ CacheOK /\ EventOK(r)
  BY DEF RowInv, IInv, EventOK
<1>1. UNCHANGED <<pending, row, workload, dep, gpu, crossed, run, names, headers>>
  BY DEF ReadID, ReadNames, ReadCursor, engine, cluster, shown
<1>2. RolledOut \in BOOLEAN /\ (~gpu.fell) \in BOOLEAN /\ RolledOut' = RolledOut /\ (~gpu.fell)' = ~gpu.fell
  BY <1>1 DEF RolledOut
(* The event has read s. *)
<1>3. ASSUME NEW s, released' = (released \ {r}) \cup {s},
             s.key = r.key, s.at = r.at, s.resolved = r.resolved, s.handler = r.handler,
             ~crossed /\ run # 0 =>
               /\ s.step # "id" => s.run = run
               /\ s.key = RolloutKey /\ s.step = "publish" => s.names = "ours"
               /\ s.key = RolloutKey /\ s.step = "cursor" /\ row[RolloutKey].at # 0 => s.names = "ours"
      PROVE  RowInv'
  <2>1. TimesOK' /\ HandlersOK'
    BY <1>0, <1>1, <1>3, ReadSays
  <2>2. /\ LastSays(NodeKey, ~gpu.fell) => LastSays(NodeKey, ~gpu.fell)'
        /\ LastSays(RolloutKey, RolledOut) => LastSays(RolloutKey, RolledOut)'
    <3>1. \A j \in Keys, truth \in BOOLEAN : LastSays(j, truth) => LastSays(j, truth)'
      BY <1>0, <1>1, <1>3, ReadSays
    <3>2. \A truth \in BOOLEAN : LastSays(NodeKey, truth) => LastSays(NodeKey, truth)'
      BY <3>1, KeysAre
    <3>3. \A truth \in BOOLEAN : LastSays(RolloutKey, truth) => LastSays(RolloutKey, truth)'
      BY <3>1, KeysAre
    <3>4. LastSays(NodeKey, ~gpu.fell) => LastSays(NodeKey, ~gpu.fell)'
      BY <1>1, <1>2, <3>2 DEF LastSays
    <3>5. LastSays(RolloutKey, RolledOut) => LastSays(RolloutKey, RolledOut)'
      BY <1>1, <1>2, <3>3 DEF LastSays
    <3> QED BY <3>4, <3>5
  <2>3. AttemptOK'
    BY <1>0, <1>1, <1>3, <2>2 DEF AttemptOK
  <2> QED BY <2>1, <2>3 DEF RowInv
<1>a. CASE ReadID(r)
  <2> DEFINE s == [r EXCEPT !.run = run, !.step = "names"]
  <2>1. released' = (released \ {r}) \cup {s}
    BY <1>a DEF ReadID, Becomes
  <2>2. /\ s.key = r.key /\ s.at = r.at /\ s.resolved = r.resolved /\ s.handler = r.handler
        /\ s.run = run /\ s.step = "names"
    BY <1>0 DEF EventOK, ReadingOK, Fields
  <2> HIDE DEF s
  <2>3. PICK c : c = s
    OBVIOUS
  <2> QED BY <1>3, <2>1, <2>2, <2>3
<1>b. CASE ReadNames(r)
  <2> DEFINE hit == cached.run # 0 /\ cached.run = r.run
             read == IF r.run # 0 /\ r.run = run THEN names[run] ELSE "none"
             s == [r EXCEPT !.names = IF hit THEN cached.names ELSE read, !.step = "cursor"]
  <2>1. released' = (released \ {r}) \cup {s} /\ r.step = "names"
    BY <1>b DEF ReadNames, Becomes
  <2>2. /\ s.key = r.key /\ s.at = r.at /\ s.resolved = r.resolved /\ s.handler = r.handler
        /\ s.run = r.run /\ s.step = "cursor" /\ s.names = IF hit THEN cached.names ELSE read
    BY <1>0 DEF EventOK, ReadingOK, Fields
  <2>3. ~crossed /\ run # 0 => r.run = run
    BY <1>0, <2>1 DEF AttemptOK
  <2>4. ~crossed /\ run # 0 /\ row[RolloutKey].at # 0 => s.names = "ours"
    BY <1>0, <2>2, <2>3 DEF AttemptOK, CacheOK, CacheIsRecipe
  <2> HIDE DEF s
  <2>5. PICK c : c = s
    OBVIOUS
  <2> QED BY <1>3, <2>1, <2>2, <2>3, <2>4, <2>5
<1>c. CASE ReadCursor(r)
  <2> DEFINE s == IF Agrees(r) THEN [r EXCEPT !.run = run, !.on = action]
                  ELSE [r EXCEPT !.run = 0, !.names = "none"]
             t == [s EXCEPT !.step = "publish"]
  <2>1. /\ r.step = "cursor"
        /\ IF InScope(s) THEN released' = (released \ {r}) \cup {t} ELSE released' = released \ {r}
    BY <1>c DEF ReadCursor, Becomes
  <2>2. /\ DOMAIN s = Fields
        /\ s.key = r.key /\ s.at = r.at /\ s.resolved = r.resolved /\ s.handler = r.handler
        /\ Agrees(r) => s.run = run /\ s.names = r.names
    BY <1>0 DEF EventOK, ReadingOK, Fields
  <2>3. /\ t.key = r.key /\ t.at = r.at /\ t.resolved = r.resolved /\ t.handler = r.handler
        /\ t.run = s.run /\ t.step = "publish" /\ t.names = s.names
    BY <2>2 DEF Fields
  <2>4. ~crossed /\ run # 0 => s.run = run /\ s.names = r.names
    BY <1>0, <2>1, <2>2 DEF AttemptOK, Agrees
  <2>5. CASE InScope(s)
    <3>1. s.key = RolloutKey => s.names = "ours"
      BY <2>5, KeysAre DEF InScope, NodeKey
    <3> HIDE DEF s, t
    <3>2. PICK c : c = t
      OBVIOUS
    <3> QED BY <1>3, <2>1, <2>2, <2>3, <2>4, <2>5, <3>1, <3>2
  <2>6. CASE ~InScope(s)
    <3>1. r.key = RolloutKey /\ s.names # "ours"
      BY <1>0, <2>2, <2>6, KeysAre DEF InScope, NodeKey, EventOK
    <3>2. released' = released \ {r}
      BY <2>1, <2>6
    <3>3. ~crossed /\ run # 0 => row[RolloutKey].at = 0
      BY <1>0, <2>1, <2>4, <3>1 DEF AttemptOK
    <3>4. \A q \in released' : q.key # RolloutKey
      BY <1>0, <3>1, <3>2 DEF HandlersOK
    <3>5. HandlersOK'
      BY <1>0, <1>1, <3>2 DEF HandlersOK
    <3>6. TimesOK'
      BY <1>0, <1>1, <3>2 DEF TimesOK
    <3>7. ~crossed /\ run # 0 => LastSays(RolloutKey, RolledOut)'
      BY <1>0, <1>1, <3>3, <3>4 DEF LastSays, HandlersOK
    <3>8. LastSays(NodeKey, ~gpu.fell) => LastSays(NodeKey, ~gpu.fell)'
      BY <1>1, <3>1, <3>2, KeysAre DEF LastSays, Latest
    <3>9. AttemptOK'
      BY <1>0, <1>1, <3>2, <3>7, <3>8 DEF AttemptOK
    <3> QED BY <3>5, <3>6, <3>9 DEF RowInv
  <2> QED BY <2>5, <2>6
<1> QED BY <1>a, <1>b, <1>c

LEMMA PublishRows ==
  ASSUME IInv, RowInv, NEW r \in released, PublishEvent(r)
  PROVE  RowInv'
<1>0. TimesOK /\ HandlersOK /\ AttemptOK /\ EventOK(r) /\ r.key \in Keys
  BY DEF RowInv, IInv, EventOK
<1>1. /\ UNCHANGED <<pending, workload, dep, gpu, crossed, run, names>>
      /\ released' = released \ {r} /\ r.step = "publish"
      /\ Emit(r.key, r.at, r.resolved, r.run # 0 /\ r.run = run)
  BY DEF PublishEvent, Folded, engine, cluster, shown
<1>2. RolledOut \in BOOLEAN /\ (~gpu.fell) \in BOOLEAN /\ RolledOut' = RolledOut /\ (~gpu.fell)' = ~gpu.fell
  BY <1>1 DEF RolledOut
<1>3. HandlersOK'
  BY <1>0, <1>1 DEF HandlersOK
<1>4. TimesOK'
  <2> DEFINE shows == r.run # 0 /\ r.run = run
  <2>1. shows \in BOOLEAN /\ Emit(r.key, r.at, r.resolved, shows)
    BY <1>1
  <2> HIDE DEF shows
  <2>2. /\ row' \in [Keys -> [at : Nat, resolved : BOOLEAN]]
        /\ \A k \in Keys : k # r.key => row'[k] = row[k]
        /\ \/ row'[r.key] = row[r.key]
           \/ row'[r.key].at = r.at
           \/ pending[r.key] = 0 /\ \A q \in released : q.key = r.key => q = r
    BY <1>0, <2>1, EmitIs
  <2>3. \A q \in released' : q.at # pending'[q.key] /\ q.at # row'[q.key].at
    <3>1. ASSUME NEW q \in released' PROVE q.at # row'[q.key].at
      <4>1. CASE q.key = r.key
        BY <1>0, <1>1, <2>2, <4>1 DEF TimesOK
      <4>2. CASE q.key # r.key
        BY <1>0, <1>1, <2>2, <4>2 DEF TimesOK
      <4> QED BY <4>1, <4>2
    <3> QED BY <1>0, <1>1, <3>1 DEF TimesOK
  <2>4. \A k \in Keys : pending'[k] # 0 => pending'[k] # row'[k].at
    BY <1>0, <1>1, <2>2 DEF TimesOK
  <2> QED BY <1>0, <1>1, <2>2, <2>3, <2>4 DEF TimesOK
<1>5. ASSUME ~crossed, run # 0 PROVE AttemptOK'
  <2>1. r.run = run /\ Emit(r.key, r.at, r.resolved, TRUE)
    BY <1>0, <1>1, <1>5 DEF AttemptOK
  <2>2. LastSays(NodeKey, ~gpu.fell) /\ LastSays(RolloutKey, RolledOut)
    BY <1>0, <1>5 DEF AttemptOK
  <2>3. \A j \in Keys, truth \in BOOLEAN : LastSays(j, truth) => LastSays(j, truth)'
    BY <1>0, <1>1, <2>1, EmitSays
  <2>4. LastSays(NodeKey, ~gpu.fell)'
    <3>1. \A truth \in BOOLEAN : LastSays(NodeKey, truth) => LastSays(NodeKey, truth)'
      BY <2>3, KeysAre
    <3> QED BY <1>1, <1>2, <2>2, <3>1 DEF LastSays
  <2>5. LastSays(RolloutKey, RolledOut)'
    <3>1. \A truth \in BOOLEAN : LastSays(RolloutKey, truth) => LastSays(RolloutKey, truth)'
      BY <2>3, KeysAre
    <3> QED BY <1>2, <2>2, <3>1 DEF LastSays
  <2>6. row'[RolloutKey].at # 0 => names[run] = "ours"
    <3>1. CASE r.key = RolloutKey
      <4>1. r.names = "ours" /\ r.names \in {"none", names[run]}
        BY <1>0, <1>1, <1>5, <2>1, <3>1 DEF AttemptOK, EventOK, ReadingOK
      <4> QED BY <4>1
    <3>2. CASE r.key # RolloutKey
      <4>1. row'[RolloutKey] = row[RolloutKey]
        BY <1>0, <2>1, <3>2, KeysAre, EmitIs
      <4> QED BY <1>0, <1>5, <4>1 DEF AttemptOK
    <3> QED BY <3>1, <3>2
  <2>7. row'[RolloutKey].at # 0 =>
          \A q \in released' : q.key = RolloutKey /\ q.step = "cursor" => q.names = "ours"
    <3>1. CASE r.key = RolloutKey
      BY <1>0, <1>1, <3>1 DEF HandlersOK
    <3>2. CASE r.key # RolloutKey
      <4>1. row'[RolloutKey] = row[RolloutKey]
        BY <1>0, <2>1, <3>2, KeysAre, EmitIs
      <4> QED BY <1>0, <1>1, <1>5, <4>1 DEF AttemptOK
    <3> QED BY <3>1, <3>2
  <2> QED BY <1>0, <1>1, <1>5, <2>4, <2>5, <2>6, <2>7 DEF AttemptOK
<1>6. AttemptOK'
  BY <1>1, <1>5 DEF AttemptOK
<1> QED BY <1>3, <1>4, <1>6 DEF RowInv

(* Before the first run the tab shows nothing. *)
NoRunOK == run = 0 => \A k \in Keys : row[k].at = 0

LEMMA NoRunRows == IInv /\ RowInv /\ NoRunOK /\ [Next]_vars => NoRunOK'
<1> SUFFICES ASSUME IInv, RowInv, NoRunOK, [Next]_vars PROVE NoRunOK'
  OBVIOUS
<1>1. CASE Start \/ Retry
  <2>1. row' = [k \in Keys |-> NoRow]
    BY <1>1 DEF Start, Retry, Launch
  <2> QED BY <2>1 DEF NoRunOK, NoRow
<1>2. CASE \E r \in released : PublishEvent(r)
  <2>1. run' = run /\ (run = 0 => row' = row)
    BY <1>2 DEF PublishEvent, Folded, Emit, engine
  <2> QED BY <2>1 DEF NoRunOK
<1>3. CASE UNCHANGED <<run, row>>
  BY <1>3 DEF NoRunOK
<1>4. CASE \E e \in Epochs : Drives(e)
  BY <1>3, <1>4 DEF Drives, Recommend, Apply, Header, PublishMarker, setActiveAction, Ends, LeavesTo,
     clearActiveAction, Finish, shown
<1>5. CASE \/ \E n \in 0 .. 2 : NodeChanges(n)
           \/ \E d \in NewSpec \cup NewStatus : DeploymentChanges(d)
           \/ \E k \in Keys : Fires(k)
           \/ \E r \in released : ReadID(r) \/ ReadNames(r) \/ ReadCursor(r)
           \/ UNCHANGED vars
  BY <1>3, <1>5 DEF NodeChanges, DeploymentChanges, Fires, ReadID, ReadNames, ReadCursor, engine,
     shown, vars
<1> QED BY <1>1, <1>2, <1>4, <1>5 DEF Next

LEMMA NextRows == IInv /\ RowInv /\ [Next]_vars => RowInv'
<1> SUFFICES ASSUME IInv, RowInv, [Next]_vars PROVE RowInv'
  OBVIOUS
<1>1. CASE UNCHANGED vars
  <2>1. UNCHANGED <<released, pending, row, workload, dep, gpu, crossed, run, names>>
    BY <1>1 DEF vars, engine, cluster, shown
  <2>2. DOMAIN dep' = {"ready", "desired", "observed", "told"}
    BY <2>1 DEF RowInv, HandlersOK
  <2> QED BY <2>1, <2>2, QuietRows
<1> QED BY <1>1, LaunchRows, DriveRows, NodeRows, DeploymentRows, FireRows, ReadRows, PublishRows
        DEF Next

(***************************************************************************)
(* The properties.                                                         *)
(***************************************************************************)

(* Ruling 6 and the cache of newRunScopeFn: whichever runs start between the
   three reads, an event was filtered by what the recipe of its own run says. *)
THEOREM ScopeOfOneRun == Spec => []ScopeIsRecipe
<1>1. IInv => OneRunScope
  BY DEF IInv, ReadingOK, OneRunScope
<1>2. IInv => CacheIsRecipe
  BY DEF IInv, CacheOK
<1>3. IInv => ScopeIsRecipe
  BY <1>1, <1>2 DEF ScopeIsRecipe
<1> QED BY <1>3, Inductive, PTL

(* emit publishes the marker before the cursor follows it, so no event and no
   row cites an action the bus has not announced. *)
THEOREM HeadersLead == Spec => []HeaderFirst
<1>1. IInv => HeaderFirst
  BY DEF IInv, ReadingOK, PlacedOK, HeaderFirst
<1> QED BY <1>1, Inductive, PTL

(* The epoch guards keep the cursor with the goroutine that installs. *)
THEOREM CursorFollows == Spec => []CursorFollowsDriver
<1>1. IInv => CursorFollowsDriver
  BY DEF IInv
<1> QED BY <1>1, Inductive, PTL

(* clusterConditionSupersedes, onNode and onDeployment: whatever overtakes what
   between the window, the timers and the bus, the row of a node or of a rollout
   ends as the cluster did. *)
THEOREM RowsCatchUp == Spec => []RowsAreCurrent
<1>1. RowInv /\ NoRunOK => RowsAreCurrent
  <2> SUFFICES ASSUME RowInv, NoRunOK, Idle, ~crossed
               PROVE  /\ row[NodeKey].at # 0 => row[NodeKey].resolved = ~gpu.fell
                      /\ row[RolloutKey].at # 0 => row[RolloutKey].resolved = RolledOut
    BY DEF RowsAreCurrent, NodeRowIsCurrent, RolloutRowIsHonest, NodeKey, RolloutKey, RolledOut
  <2>1. released = {} /\ \A k \in Keys : pending[k] = 0
    BY DEF Idle
  <2>2. TimesOK /\ AttemptOK
    BY DEF RowInv
  <2>3. \A k \in Keys : Latest(k, row[k].at)
    BY <2>1, <2>2 DEF TimesOK, Latest
  <2>4. \A k \in Keys : row[k].at # 0 => run # 0
    BY DEF NoRunOK
  <2> QED BY <2>2, <2>3, <2>4, KeysAre DEF AttemptOK, LastSays
<1>2. Init => NoRunOK
  BY DEF Init, DebounceInit, NoRow, NoRunOK
<1> QED BY <1>1, <1>2, InitIInv, InitRows, NextIInv, NextRows, NoRunRows, PTL DEF Spec
=============================================================================
