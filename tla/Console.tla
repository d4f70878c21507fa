------------------------------ MODULE Console -------------------------------
(***************************************************************************)
(* The console process (internal/console): launches that share one work    *)
(* directory, its lock and the session directories in it; the Connect      *)
(* screen's one connection, which wires the engine to a cluster while HTTP *)
(* requests race it; and the shutdown.                                     *)
(*                                                                         *)
(* A launch is one life of the process and stands for its PID, which no    *)
(* two launches share.  The engine is here as far as the wiring reaches:   *)
(* which store, clients and cluster it is on, which run it holds, and      *)
(* whether a goroutine of that run (helm, at worst) is alive.              *)
(***************************************************************************)
EXTENDS Naturals

CONSTANTS
  Launches,
  Flagged,     (* launches given --kubeconfig                              *)
  Contexts,    (* of the operator's own kubeconfig                         *)
  Clusters,
  ClusterOf,   (* the cluster, by its kube-system UID, behind each context *)
  Requests,    (* goroutines that may be serving a POST /api/connect       *)
  MaxKills,    (* bound: launches that end by SIGKILL                      *)
  None, Unreadable

ASSUME ConsoleAssumption ==
  /\ Flagged \subseteq Launches
  /\ ClusterOf \in [Contexts -> Clusters]
  /\ MaxKills \in Nat /\ None \notin Launches \cup Contexts \cup Clusters
  /\ Unreadable \notin Launches \cup Clusters /\ None # Unreadable

VARIABLES
  stage,     (* how far each launch is, see Stages                         *)
  conn,      (* connector.state                                            *)
  info,      (* connector.info, by the context it describes                *)
  attempt,   (* what each request goroutine is at, and for which context   *)
  pinned,    (* os.Setenv has pointed KUBECONFIG at the session file       *)
  cleanup,   (* sessionState.cleanup is set                                *)
  store,     (* Engine.store: a cluster's FileStore; None is the memory store *)
  clients,   (* the cluster behind Engine.steps, the prove client and the UID *)
  run,       (* Engine.current, by the launch that started it              *)
  live,      (* a goroutine of that run is alive                           *)
  watched,   (* clusters an observer of the launch watches                 *)
  overran,   (* a shutdown budget ran out, or the launch was killed        *)
  found,     (* history: launches already gone when this one swept         *)
  lock,      (* the lock file: None, Unreadable before the PID is in it    *)
  sessions,  (* the context frozen in each launch's session directory       *)
  record,    (* runs/<uid>: the run its store holds                        *)
  kills

memory   == <<conn, info, attempt, pinned, cleanup, store, clients, run, live, watched>>
wiring   == <<store, clients, run, live, watched>>
history  == <<overran, found, kills>>
vars == <<stage, memory, history, lock, sessions, record>>

(* "swept" and "locking" are the start, "locking" with a lock file that has no
   PID in it yet; "draining" is after srv.Drain, "waiting" after CancelAndWait
   began, "closed" after session.close. *)
Stages == {"out", "swept", "locking", "serving", "draining", "waiting",
           "closed", "exited"}
Alive(p) == stage[p] \notin {"out", "exited"}
Owns(p)  == stage[p] \in {"locking", "serving", "draining", "waiting", "closed"}

Places == {"none", "admitted", "dial", "freeze", "register", "open", "wire",
           "recover", "reconcile", "observe", "commit"}
Attempts == [at : Places, ctx : Contexts \cup {None}]
NoAttempt == [at |-> "none", ctx |-> None]

TypeOK ==
  /\ stage \in [Launches -> Stages]
  /\ conn \in [Launches -> {"disconnected", "connecting", "connected"}]
  /\ info \in [Launches -> Contexts \cup {None}]
  /\ attempt \in [Launches -> [Requests -> Attempts]]
  /\ pinned \in [Launches -> BOOLEAN] /\ cleanup \in [Launches -> BOOLEAN]
  /\ store \in [Launches -> Clusters \cup {None}]
  /\ clients \in [Launches -> Clusters \cup {None}]
  /\ run \in [Launches -> Launches \cup {None}] /\ live \in [Launches -> BOOLEAN]
  /\ watched \in [Launches -> SUBSET Clusters]
  /\ overran \in [Launches -> BOOLEAN] /\ found \in [Launches -> SUBSET Launches]
  /\ lock \in Launches \cup {None, Unreadable}
  /\ sessions \in [Launches -> Contexts \cup {None}]
  /\ record \in [Clusters -> Launches \cup {None, Unreadable}]
  /\ kills \in 0 .. MaxKills
  /\ \A p \in Launches : live[p] => run[p] # None

Init ==
  /\ stage = [p \in Launches |-> "out"]
  /\ conn = [p \in Launches |-> "disconnected"]
  /\ info = [p \in Launches |-> None]
  /\ attempt = [p \in Launches |-> [q \in Requests |-> NoAttempt]]
  /\ pinned = [p \in Launches |-> FALSE] /\ cleanup = [p \in Launches |-> FALSE]
  /\ store = [p \in Launches |-> None] /\ clients = [p \in Launches |-> None]
  /\ run = [p \in Launches |-> None] /\ live = [p \in Launches |-> FALSE]
  /\ watched = [p \in Launches |-> {}]
  /\ overran = [p \in Launches |-> FALSE] /\ found = [p \in Launches |-> {}]
  /\ lock = None /\ sessions = [p \in Launches |-> None]
  /\ record \in [Clusters -> {None, Unreadable}]  (* by another build, say *)
  /\ kills = 0

(* The process is gone, and its memory with it. *)
Gone(p) ==
  /\ stage' = [stage EXCEPT ![p] = "exited"]
  /\ conn' = [conn EXCEPT ![p] = "disconnected"]
  /\ info' = [info EXCEPT ![p] = None]
  /\ attempt' = [attempt EXCEPT ![p] = [q \in Requests |-> NoAttempt]]
  /\ pinned' = [pinned EXCEPT ![p] = FALSE]
  /\ cleanup' = [cleanup EXCEPT ![p] = FALSE]
  /\ store' = [store EXCEPT ![p] = None]
  /\ clients' = [clients EXCEPT ![p] = None]
  /\ run' = [run EXCEPT ![p] = None] /\ live' = [live EXCEPT ![p] = FALSE]
  /\ watched' = [watched EXCEPT ![p] = {}]

(***************************************************************************)
(* Starting: prepareWorkDir sweeps before it locks.                        *)
(***************************************************************************)

(* processLive(pid), for a PID this directory names. *)
processLive(q) == Alive(q)

Stale(q) == ~processLive(q)

(* sweepStaleSessions; a directory that cannot be removed is not modelled. *)
Launch(p) ==
  /\ stage[p] = "out"
  /\ stage' = [stage EXCEPT ![p] = "swept"]
  /\ sessions' = [q \in Launches |-> IF Stale(q) THEN None ELSE sessions[q]]
  /\ found' = [found EXCEPT ![p] = {q \in Launches : stage[q] = "exited"}]
  /\ UNCHANGED <<memory, overran, kills, lock, record>>

(* Mutant of Locked: os.Create in place of O_EXCL. *)
NeverLocked == FALSE

Locked == lock # None

(* acquireLock: O_CREATE|O_EXCL succeeds, or Run returns the error. *)
CreateLock(p) ==
  /\ stage[p] = "swept" /\ ~Locked
  /\ lock' = Unreadable
  /\ stage' = [stage EXCEPT ![p] = "locking"]
  /\ UNCHANGED <<memory, history, sessions, record>>

Refused(p) ==
  /\ stage[p] = "swept" /\ Locked
  /\ Gone(p)
  /\ UNCHANGED <<history, lock, sessions, record>>

(* The PID is written, and the server is up; or the write fails and takes the
   file with it. *)
WriteLock(p) ==
  /\ stage[p] = "locking"
  /\ \/ /\ lock' = p /\ stage' = [stage EXCEPT ![p] = "serving"]
        /\ UNCHANGED memory
     \/ lock' = None /\ Gone(p)
  /\ UNCHANGED <<history, sessions, record>>

(* "Confirm no aicrme is running and delete the file to continue." *)
OperatorClears ==
  /\ lock # None /\ \A p \in Launches : ~Owns(p)
  /\ lock' = None
  /\ UNCHANGED <<stage, memory, history, sessions, record>>

Kill(p) ==
  /\ Alive(p) /\ kills < MaxKills
  /\ kills' = kills + 1
  /\ overran' = [overran EXCEPT ![p] = TRUE]
  /\ Gone(p)
  /\ UNCHANGED <<found, lock, sessions, record>>

(***************************************************************************)
(* Connect.                                                                *)
(***************************************************************************)

(* loadingRules: the file given by --kubeconfig, or else what KUBECONFIG names
   now, which is the operator's file until the hook points it elsewhere. *)
Listed(p) ==
  IF p \in Flagged \/ ~pinned[p] THEN Contexts ELSE {sessions[p]} \cap Contexts

At(p, q, place) == Alive(p) /\ attempt[p][q].at = place
Goto(p, q, place) == attempt' = [attempt EXCEPT ![p][q].at = place]
Done(p, q) == attempt' = [attempt EXCEPT ![p][q] = NoAttempt]

(* A failed attempt may be followed by another one. *)
Fail(p, q) == Done(p, q) /\ conn' = [conn EXCEPT ![p] = "disconnected"]

(* requireNotDraining lets the POST through, for a context of handleContexts. *)
Admit(p, q) == \E c \in Listed(p) :
  /\ stage[p] = "serving" /\ attempt[p][q].at = "none"
  /\ attempt' = [attempt EXCEPT ![p][q] = [at |-> "admitted", ctx |-> c]]
  /\ UNCHANGED <<stage, conn, info, pinned, cleanup, wiring, history,
                 lock, sessions, record>>

(* Mutant of Free: a connect that has not finished does not count. *)
NotConnected(p) == conn[p] # "connected"

Free(p) == conn[p] = "disconnected"

Connect(p, q) ==
  /\ At(p, q, "admitted")
  /\ IF Free(p)
     THEN Goto(p, q, "dial") /\ conn' = [conn EXCEPT ![p] = "connecting"]
     ELSE Done(p, q) /\ UNCHANGED conn
  /\ UNCHANGED <<stage, info, pinned, cleanup, wiring, history, lock, sessions, record>>

(* dial reads the kubeconfig again, reaches the cluster, reads its identity. *)
Dial(p, q) ==
  /\ At(p, q, "dial")
  /\ \/ /\ attempt[p][q].ctx \in Listed(p)
        /\ Goto(p, q, "freeze") /\ UNCHANGED conn
     \/ Fail(p, q)
  /\ UNCHANGED <<stage, info, pinned, cleanup, wiring, history, lock, sessions, record>>

(* writeSessionKubeconfig: nothing is made for a context that is not there;
   after MkdirAll a failure takes the directory with it. *)
Freeze(p, q) ==
  /\ At(p, q, "freeze")
  /\ \/ /\ attempt[p][q].ctx \in Listed(p)
        /\ sessions' = [sessions EXCEPT ![p] = attempt[p][q].ctx]
        /\ Goto(p, q, "register") /\ UNCHANGED conn
     \/ /\ sessions' \in {sessions, [sessions EXCEPT ![p] = None]}
        /\ Fail(p, q)
  /\ UNCHANGED <<stage, info, pinned, cleanup, wiring, history, lock, record>>

(* session.set, and KUBECONFIG names the session file from here on. *)
Register(p, q) ==
  /\ At(p, q, "register")
  /\ cleanup' = [cleanup EXCEPT ![p] = TRUE]
  /\ pinned' = [pinned EXCEPT ![p] = TRUE]
  /\ Goto(p, q, "open")
  /\ UNCHANGED <<stage, conn, info, wiring, history, lock, sessions, record>>

(* engine.NewFileStore. *)
OpenStore(p, q) ==
  /\ At(p, q, "open")
  /\ \/ Goto(p, q, "wire") /\ UNCHANGED conn
     \/ Fail(p, q)
  /\ UNCHANGED <<stage, info, pinned, cleanup, wiring, history, lock, sessions, record>>

(* SetStore, SetSteps, SetProveClient, SetTeardown, SetClusterUID: no request
   can tell them apart behind the gate. *)
Wire(p, q) ==
  LET cluster == ClusterOf[attempt[p][q].ctx]
  IN  /\ At(p, q, "wire")
      /\ store' = [store EXCEPT ![p] = cluster]
      /\ clients' = [clients EXCEPT ![p] = cluster]
      /\ Goto(p, q, "recover")
      /\ UNCHANGED <<stage, conn, info, pinned, cleanup, run, live, watched,
                     history, lock, sessions, record>>

(* Mutant of Recover: the gate opens first. *)
RecoverSkipped(p, q) ==
  /\ At(p, q, "recover")
  /\ Goto(p, q, "reconcile")
  /\ UNCHANGED <<stage, conn, info, pinned, cleanup, wiring, history, lock, sessions, record>>

(* Engine.Recover: the record becomes the run; one it cannot read is left
   where it is, and the memory store takes its place.  Its one error is of a step
   slice without exactly one Bundle, which the slice of Wire is not. *)
Recover(p, q) ==
  /\ At(p, q, "recover")
  /\ \/ /\ record[store[p]] # Unreadable
        /\ run' = [run EXCEPT ![p] = record[store[p]]]
        /\ UNCHANGED store
     \/ /\ record[store[p]] # None
        /\ store' = [store EXCEPT ![p] = None]
        /\ UNCHANGED run
  /\ Goto(p, q, "reconcile")
  /\ UNCHANGED <<stage, conn, info, pinned, cleanup, clients, live, watched,
                 history, lock, sessions, record>>

(* ReconcileWorkloads may adopt a workload no record accounts for. *)
Reconcile(p, q) ==
  /\ At(p, q, "reconcile")
  /\ \/ UNCHANGED <<run, record>>
     \/ /\ run[p] = None
        /\ run' = [run EXCEPT ![p] = p]
        /\ record' \in {record} \cup
             (IF store[p] = None THEN {} ELSE {[record EXCEPT ![store[p]] = p]})
  /\ Goto(p, q, "observe")
  /\ UNCHANGED <<stage, conn, info, pinned, cleanup, store, clients, live, watched,
                 history, lock, sessions>>

StartObserver(p, q) ==
  /\ At(p, q, "observe")
  /\ watched' = [watched EXCEPT ![p] = @ \cup {ClusterOf[attempt[p][q].ctx]}]
  /\ Goto(p, q, "commit")
  /\ UNCHANGED <<stage, conn, info, pinned, cleanup, store, clients, run, live,
                 history, lock, sessions, record>>

Commit(p, q) ==
  /\ At(p, q, "commit")
  /\ info' = [info EXCEPT ![p] = attempt[p][q].ctx]
  /\ conn' = [conn EXCEPT ![p] = "connected"]
  /\ Done(p, q)
  /\ UNCHANGED <<stage, pinned, cleanup, wiring, history, lock, sessions, record>>

(***************************************************************************)
(* Behind the gate.                                                        *)
(***************************************************************************)

(* requireConnected, and the engine's own refusal once CancelAndWait began: a
   request that requireNotDraining has let through may arrive after Drain. *)
Serves(p) == conn[p] = "connected" /\ stage[p] \in {"serving", "draining"}

(* What the engine saves of its run, in the memory store for all anyone knows. *)
Saves(p, r) ==
  IF store[p] = None THEN UNCHANGED record
  ELSE record' = [record EXCEPT ![store[p]] = r]

Settled(p) == run[p] # None /\ ~live[p]

StartRun(p) ==
  /\ Serves(p) /\ run[p] = None
  /\ run' = [run EXCEPT ![p] = p] /\ live' = [live EXCEPT ![p] = TRUE]
  /\ Saves(p, p)
  /\ UNCHANGED <<stage, conn, info, attempt, pinned, cleanup, store, clients,
                 watched, history, lock, sessions>>

Retry(p) ==
  /\ Serves(p) /\ Settled(p)
  /\ live' = [live EXCEPT ![p] = TRUE]
  /\ Saves(p, run[p])
  /\ UNCHANGED <<stage, conn, info, attempt, pinned, cleanup, store, clients, run,
                 watched, history, lock, sessions>>

Discard(p) ==
  /\ Serves(p) /\ Settled(p)
  /\ run' = [run EXCEPT ![p] = None]
  /\ Saves(p, None)
  /\ UNCHANGED <<stage, conn, info, attempt, pinned, cleanup, store, clients, live,
                 watched, history, lock, sessions>>

RunEnds(p) ==
  /\ live[p]
  /\ live' = [live EXCEPT ![p] = FALSE]
  /\ Saves(p, run[p])
  /\ UNCHANGED <<stage, conn, info, attempt, pinned, cleanup, store, clients, run,
                 watched, history, lock, sessions>>

(***************************************************************************)
(* Shutdown.                                                               *)
(***************************************************************************)

(* A signal, or Serve failing: srv.Drain. *)
Drain(p) ==
  /\ stage[p] = "serving"
  /\ stage' = [stage EXCEPT ![p] = "draining"]
  /\ UNCHANGED <<memory, history, lock, sessions, record>>

(* httpSrv.Shutdown and CancelAndWait begin. *)
Cancel(p) ==
  /\ stage[p] = "draining"
  /\ stage' = [stage EXCEPT ![p] = "waiting"]
  /\ UNCHANGED <<memory, history, lock, sessions, record>>

InFlight(p) == \E q \in Requests : attempt[p][q].at # "none"

(* Mutant of Waited: only the HTTP surface is waited for. *)
HTTPOnly(p) == IF InFlight(p) THEN "overran" ELSE "quiet"

(* httpShutdownTimeout ends the wait for requests, runShutdownTimeout the wait
   for the run. *)
Waited(p) == IF InFlight(p) \/ live[p] THEN "overran" ELSE "quiet"

(* Mutant of Budget: the waits have no deadline. *)
NoBudget(p) == Waited(p) = "quiet"

Budget(p) == TRUE

(* wg.Wait returns, and session.close removes what the hook has registered. *)
CloseSession(p) ==
  /\ stage[p] = "waiting" /\ Budget(p)
  /\ stage' = [stage EXCEPT ![p] = "closed"]
  /\ overran' = [overran EXCEPT ![p] = @ \/ Waited(p) = "overran"]
  /\ sessions' = IF cleanup[p] THEN [sessions EXCEPT ![p] = None] ELSE sessions
  /\ cleanup' = [cleanup EXCEPT ![p] = FALSE]
  /\ UNCHANGED <<conn, info, attempt, pinned, wiring, found, kills, lock, record>>

(* Run's deferred releaseLock, and the process ends; what a goroutine left
   behind might do between the two is not modelled. *)
Exit(p) ==
  /\ stage[p] = "closed"
  /\ lock' = IF lock = p THEN None ELSE lock
  /\ Gone(p)
  /\ UNCHANGED <<history, sessions, record>>

HookStep(p, q) ==
  \/ Freeze(p, q) \/ Register(p, q) \/ OpenStore(p, q) \/ Wire(p, q)
  \/ Recover(p, q) \/ Reconcile(p, q) \/ StartObserver(p, q) \/ Commit(p, q)

ShutdownStep(p) == Cancel(p) \/ CloseSession(p) \/ Exit(p)

(* Everything is over once no launch is alive or to come. *)
Over == /\ \A p \in Launches : stage[p] = "exited"
        /\ UNCHANGED vars

Next ==
  \/ OperatorClears
  \/ \E p \in Launches :
       \/ Launch(p) \/ CreateLock(p) \/ Refused(p) \/ WriteLock(p) \/ Kill(p)
       \/ StartRun(p) \/ Retry(p) \/ Discard(p) \/ RunEnds(p)
       \/ Drain(p) \/ ShutdownStep(p)
       \/ \E q \in Requests : Admit(p, q) \/ Connect(p, q) \/ Dial(p, q) \/ HookStep(p, q)
  \/ Over

Spec == Init /\ [][Next]_vars

(* Only the timers of the shutdown are sure to fire: a dial may hang for as
   long as the network lets it, and a signal need never come. *)
FairSpec == Spec /\ \A p \in Launches : WF_vars(ShutdownStep(p))

(***************************************************************************)
(* Properties.                                                             *)
(***************************************************************************)

(* At most one launch owns the work directory, from the lock file it made to
   the one it removes, through kills, refusals and an operator who clears what
   a dead launch left (acquireLock, releaseLock). *)
SoleOwner == \A p, r \in Launches : Owns(p) /\ Owns(r) => p = r

(* Behind an open gate everything is on the cluster the operator was told of:
   the store, unless it was given up for the memory store, the clients, the one
   observer, and, until the shutdown removes it, the kubeconfig helm and
   kubectl inherit.  Failed and racing connects leave nothing of theirs. *)
OneCluster == \A p \in Launches : conn[p] = "connected" =>
  LET cluster == ClusterOf[info[p]]
  IN  /\ clients[p] = cluster /\ store[p] \in {cluster, None}
      /\ watched[p] = {cluster} /\ pinned[p]
      /\ stage[p] # "closed" => sessions[p] = info[p]

(* A run's helm has its kubeconfig for as long as the run's goroutine lives,
   unless runShutdownTimeout has run out on it (shutdown's order). *)
SessionOutlivesRun == \A p \in Launches :
  live[p] => sessions[p] = info[p] \/ overran[p]

(* A shutdown that kept to its budgets leaves no credentials on disk. *)
CleanExit == \A p \in Launches :
  stage[p] = "exited" /\ ~overran[p] => sessions[p] = None

(* What a dead launch left there is gone once another one has started, be that
   one refused (prepareWorkDir sweeps before it locks). *)
CredentialsSwept == \A p, r \in Launches : r \in found[p] => sessions[r] = None

(* Credentials are on disk for as long as something needs them and no longer:
   helm's outlive its run, an orderly exit leaves none, and a start removes those
   of the launches that are gone (session.close, shutdown, sweepStaleSessions). *)
CredentialLifetime == SessionOutlivesRun /\ CleanExit /\ CredentialsSwept

(* A persisted record is only ever changed by a launch whose engine holds that
   run: what an earlier launch left is adopted before it can be replaced, and
   one nobody could read is never replaced. *)
RecordsKept ==
  [][\A c \in Clusters : record[c] # None /\ record'[c] # record[c] =>
       \E p \in Launches : Owns(p) /\ store[p] = c /\ run[p] = record[c]]_vars

(* A console told to stop exits, be a connect or a run hung. *)
ShutdownEnds == \A p \in Launches : stage[p] = "draining" ~> stage[p] = "exited"

(* What connector.Connect's comment says of a failed attempt: the operator is
   able to pick again, any of the contexts there are.  It does not hold: once
   an attempt has failed behind Register, loadingRules lists the one context of
   the session file.  No run checks it; README has the steps. *)
PickAgain == \A p \in Launches :
  stage[p] = "serving" /\ conn[p] = "disconnected" => Listed(p) = Contexts
=============================================================================
