--------------------------- MODULE ConsoleProofs ----------------------------
(***************************************************************************)
(* Every safety property of Console, for every set of launches, contexts,  *)
(* clusters and requests, with the inductive invariant they follow from.   *)
(***************************************************************************)
EXTENDS Console, TLAPS

(***************************************************************************)
(* The inductive invariant.                                                *)
(***************************************************************************)
Running(p) == stage[p] \in {"serving", "draining", "waiting", "closed"}
Busy(p, q) == attempt[p][q].at \notin {"none", "admitted"}

LockOK(p) == Owns(p) => lock = IF stage[p] = "locking" THEN Unreadable ELSE p

(* A launch that is not up yet, or not any more, has nothing wired; one that is
   not up yet has no session. *)
IdleOK(p) ==
  /\ ~Running(p) =>
       /\ conn[p] = "disconnected" /\ ~live[p]
       /\ \A q \in Requests : attempt[p][q].at = "none"
  /\ stage[p] \in {"out", "swept", "locking"} => sessions[p] = None
  /\ conn[p] = "disconnected" => store[p] = None /\ watched[p] = {}

(* One request at a time is past connState, and it has the state to itself. *)
TurnOK(p, q) == Busy(p, q) =>
  conn[p] = "connecting" /\ \A r \in Requests : Busy(p, r) => r = q

(* What the hook has done so far, by where it is. *)
HookOK(p, q) ==
  LET at == attempt[p][q].at
      ctx == attempt[p][q].ctx
  IN  /\ at # "none" => ctx \in Contexts
      /\ at \in {"dial", "freeze", "register", "open", "wire"} =>
           store[p] = None /\ watched[p] = {}
      /\ at = "recover" => store[p] = ClusterOf[ctx]
      /\ at \in {"recover", "reconcile", "observe", "commit"} =>
           clients[p] = ClusterOf[ctx] /\ store[p] \in {ClusterOf[ctx], None}
      /\ at \in {"recover", "reconcile", "observe"} => watched[p] = {}
      /\ at = "commit" => watched[p] = {ClusterOf[ctx]}
      /\ at \in {"open", "wire", "recover", "reconcile", "observe", "commit"} =>
           pinned[p] /\ (stage[p] # "closed" => cleanup[p])
      /\ at \in {"register", "open", "wire", "recover", "reconcile", "observe", "commit"} =>
           (stage[p] # "closed" => sessions[p] = ctx)

(* Behind the gate: OneCluster for one launch, and a live run is behind it. *)
GateOK(p) ==
  /\ conn[p] = "connected" =>
       /\ info[p] \in Contexts
       /\ clients[p] = ClusterOf[info[p]] /\ store[p] \in {ClusterOf[info[p]], None}
       /\ watched[p] = {ClusterOf[info[p]]} /\ pinned[p]
       /\ stage[p] # "closed" => sessions[p] = info[p]
  /\ live[p] => conn[p] = "connected" /\ (stage[p] = "closed" => overran[p])

(* A session directory has its cleanup registered, unless the request that made
   it is about to; none outlives a shutdown within its budgets, or that
   shutdown's requests. *)
SessionOK(p) ==
  /\ stage[p] \in {"serving", "draining", "waiting"} /\ sessions[p] # None =>
       cleanup[p] \/ \E q \in Requests : attempt[p][q].at = "register"
  /\ stage[p] \in {"closed", "exited"} /\ ~overran[p] =>
       sessions[p] = None /\ \A q \in Requests : attempt[p][q].at = "none"

(* From Recover on, a record in the engine's store is that of the engine's run. *)
RecordOK(p) ==
  store[p] # None /\ (\A q \in Requests : attempt[p][q].at # "recover") =>
    record[store[p]] \in {run[p], None}

FoundOK(p) == \A r \in found[p] : stage[r] = "exited" /\ sessions[r] = None

LaunchOK(p) ==
  /\ LockOK(p) /\ IdleOK(p) /\ GateOK(p) /\ SessionOK(p) /\ RecordOK(p)
  /\ \A q \in Requests : TurnOK(p, q) /\ HookOK(p, q)

IInv ==
  /\ TypeOK
  /\ SoleOwner
  /\ \A p \in Launches : LaunchOK(p) /\ FoundOK(p)

LEMMA InitIInv == Init => IInv
<1> SUFFICES ASSUME Init PROVE IInv
  OBVIOUS
<1>1. TypeOK
  BY ConsoleAssumption DEF Init, TypeOK, Stages, NoAttempt, Attempts, Places
<1>2. SoleOwner
  BY DEF Init, SoleOwner, Owns
<1>3. ASSUME NEW p \in Launches PROVE LaunchOK(p) /\ FoundOK(p)
  <2>1. LockOK(p) /\ FoundOK(p)
    BY DEF Init, LockOK, FoundOK, Owns
  <2>2. IdleOK(p) /\ GateOK(p) /\ SessionOK(p) /\ RecordOK(p)
    BY DEF Init, IdleOK, GateOK, SessionOK, RecordOK, Running, NoAttempt
  <2>3. ASSUME NEW q \in Requests PROVE TurnOK(p, q) /\ HookOK(p, q)
    BY DEF Init, TurnOK, HookOK, Busy, NoAttempt
  <2> QED BY <2>1, <2>2, <2>3 DEF LaunchOK
<1> QED BY <1>1, <1>2, <1>3 DEF IInv

(***************************************************************************)
(* What a step of one launch leaves of the others.                         *)
(***************************************************************************)
Same(r) ==
  /\ stage'[r] = stage[r] /\ conn'[r] = conn[r] /\ info'[r] = info[r]
  /\ attempt'[r] = attempt[r] /\ pinned'[r] = pinned[r] /\ cleanup'[r] = cleanup[r]
  /\ store'[r] = store[r] /\ clients'[r] = clients[r] /\ run'[r] = run[r]
  /\ live'[r] = live[r] /\ watched'[r] = watched[r]
  /\ overran'[r] = overran[r] /\ found'[r] = found[r]

(* Launch p takes a step: it is the only one to change; of the others it can
   remove a dead one's session; the lock file of another one it does not touch;
   and only an owner touches a record. *)
StepOf(p) ==
  /\ \A r \in Launches : r # p =>
       /\ Same(r)
       /\ sessions'[r] # sessions[r] => sessions'[r] = None /\ ~Alive(r)
       /\ Owns(r) => lock' = lock
  /\ Owns(p)' => Owns(p) \/ \A r \in Launches : ~Owns(r)
  /\ record' # record => Running(p)
  /\ stage[p] # "exited"

LEMMA OthersOK ==
  ASSUME IInv, NEW p \in Launches, StepOf(p), NEW r \in Launches, r # p
  PROVE  LaunchOK(r)'
<1> USE DEF IInv, StepOf
<1>1. Same(r)
  OBVIOUS
<1>2. sessions'[r] = sessions[r] \/ (sessions'[r] = None /\ ~Alive(r))
  OBVIOUS
<1>3. LaunchOK(r) /\ TypeOK
  OBVIOUS
<1>4. LockOK(r)'
  BY <1>1, <1>3 DEF LaunchOK, LockOK, Same, Owns
<1>5. (IdleOK(r) /\ GateOK(r) /\ SessionOK(r))'
  <2>1. IdleOK(r)'
    BY <1>1, <1>2, <1>3 DEF LaunchOK, IdleOK, Same, Running
  <2>2. GateOK(r)'
    BY <1>1, <1>2, <1>3 DEF LaunchOK, IdleOK, GateOK, Same, Running, Alive
  <2>3. SessionOK(r)'
    BY <1>1, <1>2, <1>3 DEF LaunchOK, SessionOK, Same, Alive
  <2> QED BY <2>1, <2>2, <2>3
<1>6. RecordOK(r)'
  <2>1. SUFFICES ASSUME store[r] # None PROVE record' = record
    BY <1>1, <1>3 DEF LaunchOK, RecordOK, Same
  <2>2. Owns(r)
    BY <2>1, <1>3 DEF LaunchOK, IdleOK, Running, Owns
  <2> QED BY <2>2 DEF SoleOwner, Running, Owns
<1>7. ASSUME NEW q \in Requests PROVE (TurnOK(r, q) /\ HookOK(r, q))'
  <2>1. TurnOK(r, q)'
    BY <1>1, <1>3 DEF LaunchOK, TurnOK, Busy, Same
  <2>2. HookOK(r, q)'
    BY <1>1, <1>2, <1>3 DEF LaunchOK, IdleOK, HookOK, Running, Alive, Same
  <2> QED BY <2>1, <2>2
<1> QED BY <1>4, <1>5, <1>6, <1>7 DEF LaunchOK

LEMMA StepIInv ==
  ASSUME IInv, NEW p \in Launches, StepOf(p), TypeOK', LaunchOK(p)', FoundOK(p)'
  PROVE  IInv'
<1> USE DEF IInv
<1>1. SoleOwner'
  BY DEF SoleOwner, StepOf, Same, Owns
<1>2. ASSUME NEW r \in Launches PROVE FoundOK(r)'
  <2>1. CASE r = p
    BY <2>1
  <2>2. CASE r # p
    <3>1. found'[r] = found[r] /\ found[r] \subseteq Launches
      BY <2>2 DEF StepOf, Same, TypeOK
    <3>2. ASSUME NEW o \in found[r] PROVE stage'[o] = "exited" /\ sessions'[o] = None
      <4>1. o \in Launches /\ stage[o] = "exited" /\ sessions[o] = None
        BY <3>1 DEF FoundOK
      <4>2. o # p
        BY <4>1 DEF StepOf
      <4> QED BY <4>1, <4>2 DEF StepOf, Same
    <3> QED BY <3>1, <3>2 DEF FoundOK
  <2> QED BY <2>1, <2>2
<1> QED BY <1>1, <1>2, OthersOK

(***************************************************************************)
(* The types.                                                              *)
(***************************************************************************)
LEMMA StageStep ==
  ASSUME stage \in [Launches -> Stages], NEW p \in Launches, Drain(p) \/ Cancel(p)
  PROVE  /\ stage' \in [Launches -> Stages]
         /\ UNCHANGED <<memory, history, lock, sessions, record>>
<1>1. CASE Drain(p)
  BY <1>1 DEF Drain, Stages
<1>2. CASE Cancel(p)
  BY <1>2 DEF Cancel, Stages
<1> QED BY <1>1, <1>2

LEMMA TypeProcess ==
  ASSUME IInv, NEW p \in Launches,
         \/ Launch(p) \/ CreateLock(p) \/ Refused(p) \/ WriteLock(p) \/ Kill(p)
         \/ Drain(p) \/ Cancel(p) \/ CloseSession(p) \/ Exit(p)
  PROVE  TypeOK'
<1> USE DEF IInv, TypeOK, vars, memory, wiring, history
<1>0. None \notin Launches /\ ConsoleAssumption
  BY ConsoleAssumption
<1>g. ASSUME Gone(p), UNCHANGED <<overran, found, sessions, record>>,
             lock' \in Launches \cup {None, Unreadable}, kills' \in 0 .. MaxKills
      PROVE  TypeOK'
  BY <1>g, <1>0 DEF Gone, Stages, NoAttempt, Attempts, Places
<1>1. CASE Launch(p)
  BY <1>1 DEF Launch, Stages
<1>2. CASE CreateLock(p)
  BY <1>2 DEF CreateLock, Stages
<1>3. CASE Refused(p)
  BY <1>3, <1>g DEF Refused
<1>4. CASE WriteLock(p)
  <2>1. CASE lock' = None /\ Gone(p)
    BY <1>4, <2>1, <1>g DEF WriteLock
  <2>2. CASE lock' = p /\ stage' = [stage EXCEPT ![p] = "serving"] /\ UNCHANGED memory
    BY <1>4, <2>2 DEF WriteLock, Stages
  <2> QED BY <1>4, <2>1, <2>2 DEF WriteLock
<1>5. CASE Kill(p)
  <2>1. kills' \in 0 .. MaxKills
    BY <1>5, ConsoleAssumption DEF Kill
  <2>2. overran' \in [Launches -> BOOLEAN] /\ UNCHANGED <<found, lock, sessions, record>>
    BY <1>5 DEF Kill
  <2> QED BY <1>5, <2>1, <2>2, <1>0 DEF Kill, Gone, Stages, NoAttempt, Attempts, Places
<1>6. CASE Drain(p) \/ Cancel(p)
  <2>1. /\ stage' \in [Launches -> Stages]
        /\ UNCHANGED <<memory, history, lock, sessions, record>>
    BY <1>6, StageStep
  <2> QED BY <2>1
<1>7. CASE CloseSession(p)
  BY <1>7 DEF CloseSession, Stages
<1>8. CASE Exit(p)
  BY <1>8, <1>g DEF Exit
<1> QED BY <1>1, <1>2, <1>3, <1>4, <1>5, <1>6, <1>7, <1>8

LEMMA TypeRun ==
  ASSUME IInv, NEW p \in Launches,
         StartRun(p) \/ Retry(p) \/ Discard(p) \/ RunEnds(p)
  PROVE  TypeOK'
<1> USE DEF IInv, TypeOK, wiring, history
<1>1. ASSUME NEW r \in Launches \cup {None}, Saves(p, r)
      PROVE  record' \in [Clusters -> Launches \cup {None, Unreadable}]
  BY <1>1 DEF Saves
<1>2. CASE StartRun(p)
  BY <1>2, <1>1, ConsoleAssumption DEF StartRun
<1>3. CASE Retry(p)
  BY <1>3, <1>1 DEF Retry, Settled
<1>4. CASE Discard(p)
  BY <1>4, <1>1 DEF Discard, Settled
<1>5. CASE RunEnds(p)
  BY <1>5, <1>1 DEF RunEnds
<1> QED BY <1>2, <1>3, <1>4, <1>5

LEMMA AttemptTyped ==
  ASSUME IInv, NEW p \in Launches, NEW q \in Requests,
         \/ \E place \in Places : Goto(p, q, place)
         \/ Done(p, q)
         \/ \E c \in Contexts : attempt' = [attempt EXCEPT ![p][q] = [at |-> "admitted", ctx |-> c]]
  PROVE  attempt' \in [Launches -> [Requests -> Attempts]]
<1>1. attempt \in [Launches -> [Requests -> Attempts]]
  BY DEF IInv, TypeOK
<1>2. NoAttempt \in Attempts /\ \A c \in Contexts : [at |-> "admitted", ctx |-> c] \in Attempts
  BY DEF NoAttempt, Attempts, Places
<1>3. ASSUME NEW place \in Places
      PROVE  [attempt[p][q] EXCEPT !.at = place] \in Attempts
  <2>1. attempt[p][q] \in Attempts
    BY <1>1
  <2> QED BY <2>1 DEF Attempts
<1>4. ASSUME NEW k \in Attempts
      PROVE  [attempt EXCEPT ![p][q] = k] \in [Launches -> [Requests -> Attempts]]
  <2>1. [attempt[p] EXCEPT ![q] = k] \in [Requests -> Attempts]
    BY <1>1
  <2>2. [attempt EXCEPT ![p][q] = k] = [attempt EXCEPT ![p] = [attempt[p] EXCEPT ![q] = k]]
    BY <1>1
  <2> QED BY <1>1, <2>1, <2>2
<1>5. CASE \E place \in Places : Goto(p, q, place)
  <2>1. PICK place \in Places : Goto(p, q, place)
    BY <1>5
  <2>2. attempt' = [attempt EXCEPT ![p][q] = [attempt[p][q] EXCEPT !.at = place]]
    BY <2>1, <1>1 DEF Goto
  <2> QED BY <2>2, <1>3, <1>4
<1> QED BY <1>2, <1>4, <1>5 DEF Done

LEMMA TypeConnect ==
  ASSUME IInv, NEW p \in Launches, NEW q \in Requests,
         \/ Admit(p, q) \/ Connect(p, q) \/ Dial(p, q) \/ HookStep(p, q)
  PROVE  TypeOK'
<1> USE DEF wiring, history
<1>0. TypeOK /\ HookOK(p, q) /\ GateOK(p) /\ TurnOK(p, q)
  BY DEF IInv, LaunchOK
<1>1. attempt' \in [Launches -> [Requests -> Attempts]]
  <2>1. Listed(p) \subseteq Contexts
    BY DEF Listed
  <2>2. CASE Admit(p, q)
    <3>1. \E c \in Contexts :
            attempt' = [attempt EXCEPT ![p][q] = [at |-> "admitted", ctx |-> c]]
      BY <2>1, <2>2 DEF Admit
    <3> QED BY <3>1, AttemptTyped
  <2>3. CASE Connect(p, q) \/ Dial(p, q)
    BY <2>3, AttemptTyped DEF Connect, Dial, Fail, Places
  <2>4. CASE HookStep(p, q)
    BY <2>4, AttemptTyped DEF HookStep, Freeze, Register, OpenStore, Wire, Recover,
       Reconcile, StartObserver, Commit, Fail, Places
  <2> QED BY <2>2, <2>3, <2>4
<1>2. CASE Admit(p, q) \/ Connect(p, q) \/ Dial(p, q)
  <2>1. conn' \in [Launches -> {"disconnected", "connecting", "connected"}]
    BY <1>0, <1>2 DEF Admit, Connect, Dial, Fail, TypeOK
  <2>2. UNCHANGED <<stage, info, pinned, cleanup, wiring, history, lock, sessions, record>>
    BY <1>2 DEF Admit, Connect, Dial
  <2> QED BY <1>0, <1>1, <2>1, <2>2 DEF TypeOK
<1>3. CASE HookStep(p, q)
  <2>1. CASE Freeze(p, q)
    <3>1. Listed(p) \subseteq Contexts
      BY DEF Listed
    <3>2. sessions' \in [Launches -> Contexts \cup {None}]
      BY <1>0, <2>1, <3>1 DEF Freeze, TypeOK
    <3>3. conn' \in [Launches -> {"disconnected", "connecting", "connected"}]
      BY <1>0, <2>1 DEF Freeze, Fail, TypeOK
    <3>4. UNCHANGED <<stage, info, pinned, cleanup, wiring, history, lock, record>>
      BY <2>1 DEF Freeze
    <3> QED BY <1>0, <1>1, <3>2, <3>3, <3>4 DEF TypeOK
  <2>2. CASE Register(p, q) \/ OpenStore(p, q)
    <3>1. CASE Register(p, q)
      BY <1>0, <1>1, <3>1 DEF Register, TypeOK
    <3>2. CASE OpenStore(p, q)
      <4>1. conn' \in [Launches -> {"disconnected", "connecting", "connected"}]
        BY <1>0, <3>2 DEF OpenStore, Fail, TypeOK
      <4>2. UNCHANGED <<stage, info, pinned, cleanup, wiring, history, lock, sessions, record>>
        BY <3>2 DEF OpenStore
      <4> QED BY <1>0, <1>1, <4>1, <4>2 DEF TypeOK
    <3> QED BY <2>2, <3>1, <3>2
  <2>3. CASE Wire(p, q)
    <3>1. ClusterOf[attempt[p][q].ctx] \in Clusters
      BY <1>0, <2>3, ConsoleAssumption DEF Wire, At, HookOK
    <3> QED BY <1>0, <1>1, <2>3, <3>1 DEF Wire, TypeOK
  <2>4. CASE Recover(p, q)
    <3>1. attempt[p][q].at = "recover" /\ store[p] \in Clusters /\ ~live[p]
      BY <1>0, <2>4, ConsoleAssumption DEF Recover, At, HookOK, GateOK, TurnOK, Busy
    <3>2. store' \in [Launches -> Clusters \cup {None}] /\ run' \in [Launches -> Launches \cup {None}]
      <4>0. record[store[p]] # Unreadable => record[store[p]] \in Launches \cup {None}
        BY <1>0, <3>1 DEF TypeOK
      <4>1. store' = store \/ store' = [store EXCEPT ![p] = None]
        BY <2>4 DEF Recover
      <4>2. run' = run \/ (record[store[p]] # Unreadable /\ run' = [run EXCEPT ![p] = record[store[p]]])
        BY <2>4 DEF Recover
      <4> QED BY <1>0, <4>0, <4>1, <4>2 DEF TypeOK
    <3>3. \A r \in Launches : r # p => run'[r] = run[r]
      BY <1>0, <2>4 DEF Recover, TypeOK
    <3>4. UNCHANGED <<stage, conn, info, pinned, cleanup, clients, live, watched,
                      history, lock, sessions, record>>
      BY <2>4 DEF Recover
    <3> QED BY <1>0, <1>1, <3>1, <3>2, <3>3, <3>4 DEF TypeOK
  <2>5. CASE Reconcile(p, q)
    <3>1. record' \in [Clusters -> Launches \cup {None, Unreadable}]
      BY <1>0, <2>5 DEF Reconcile, TypeOK
    <3>2. run' \in [Launches -> Launches \cup {None}]
          /\ \A r \in Launches : run'[r] = run[r] \/ run'[r] # None
      <4>1. CASE UNCHANGED run
        BY <1>0, <4>1 DEF TypeOK
      <4>2. CASE run' = [run EXCEPT ![p] = p]
        BY <1>0, <4>2, ConsoleAssumption DEF TypeOK
      <4> QED BY <2>5, <4>1, <4>2 DEF Reconcile
    <3>3. UNCHANGED <<stage, conn, info, pinned, cleanup, store, clients, live, watched,
                      history, lock, sessions>>
      BY <2>5 DEF Reconcile
    <3> QED BY <1>0, <1>1, <3>1, <3>2, <3>3 DEF TypeOK
  <2>6. CASE StartObserver(p, q)
    <3>1. ClusterOf[attempt[p][q].ctx] \in Clusters
      BY <1>0, <2>6, ConsoleAssumption DEF StartObserver, At, HookOK
    <3> QED BY <1>0, <1>1, <2>6, <3>1 DEF StartObserver, TypeOK
  <2>7. CASE Commit(p, q)
    <3>1. attempt[p][q].ctx \in Contexts
      BY <1>0, <2>7 DEF Commit, At, HookOK
    <3> QED BY <1>0, <1>1, <2>7, <3>1 DEF Commit, TypeOK
  <2> QED BY <1>3, <2>1, <2>2, <2>3, <2>4, <2>5, <2>6, <2>7 DEF HookStep
<1> QED BY <1>2, <1>3

(***************************************************************************)
(* Connect.                                                                *)
(***************************************************************************)

(* Request q of launch p takes a step of the connect: the process stays where
   it is, the other requests too. *)
Connects(p, q) ==
  /\ UNCHANGED <<stage, lock, overran, found, live, kills>>
  /\ \A r \in Launches : r # p => Same(r) /\ sessions'[r] = sessions[r]
  /\ \A r \in Requests : r # q => attempt'[p][r] = attempt[p][r]
  /\ record' # record => Running(p)
  /\ Running(p)

LEMMA ConnectsFacts ==
  ASSUME IInv, NEW p \in Launches, NEW q \in Requests,
         Admit(p, q) \/ Connect(p, q) \/ Dial(p, q) \/ HookStep(p, q)
  PROVE  Connects(p, q)
<1> USE DEF wiring, history
<1>0. TypeOK /\ IdleOK(p)
  BY DEF IInv, LaunchOK
<1>1. Running(p)
  BY <1>0 DEF IdleOK, Running, Admit, Connect, Dial, HookStep, Freeze, Register, OpenStore,
     Wire, Recover, Reconcile, StartObserver, Commit, At
<1>2. CASE Admit(p, q) \/ Connect(p, q) \/ Dial(p, q)
  BY <1>0, <1>1, <1>2 DEF Admit, Connect, Dial, Goto, Done, Fail, TypeOK, Connects, Same
<1>3. CASE Freeze(p, q) \/ Register(p, q) \/ OpenStore(p, q)
  BY <1>0, <1>1, <1>3 DEF Freeze, Register, OpenStore, Goto, Done, Fail, TypeOK, Connects, Same
<1>4. CASE Wire(p, q) \/ Recover(p, q)
  BY <1>0, <1>1, <1>4 DEF Wire, Recover, Goto, TypeOK, Connects, Same
<1>5. CASE Reconcile(p, q) \/ StartObserver(p, q) \/ Commit(p, q)
  BY <1>0, <1>1, <1>5 DEF Reconcile, StartObserver, Commit, Goto, Done, TypeOK, Connects, Same
<1> QED BY <1>2, <1>3, <1>4, <1>5 DEF HookStep

(* A request past connState goes on, or gives the state back. *)
LEMMA HookRest ==
  ASSUME IInv, TypeOK', NEW p \in Launches, NEW q \in Requests, Connects(p, q), Busy(p, q),
         conn'[p] = conn[p] \/ attempt'[p][q].at = "none",
         HookOK(p, q)', IdleOK(p)', GateOK(p)', SessionOK(p)', RecordOK(p)'
  PROVE  IInv'
<1>1. LaunchOK(p) /\ FoundOK(p) /\ TurnOK(p, q)
  BY DEF IInv, LaunchOK
<1>2. \A r \in Requests : r # q => ~Busy(p, r) /\ attempt'[p][r] = attempt[p][r]
  BY <1>1 DEF TurnOK, Connects
<1>3. LockOK(p)'
  BY <1>1 DEF LaunchOK, LockOK, Connects, Owns
<1>4. ASSUME NEW r \in Requests PROVE (TurnOK(p, r) /\ HookOK(p, r))'
  <2>1. CASE r = q
    BY <1>1, <1>2, <2>1 DEF TurnOK, Busy
  <2>2. CASE r # q
    <3>1. attempt[p][r].at \in {"none", "admitted"} /\ attempt'[p][r] = attempt[p][r]
      BY <1>2, <2>2 DEF Busy
    <3>2. HookOK(p, r)
      BY <1>1 DEF LaunchOK
    <3>3. HookOK(p, r)'
      BY <3>1, <3>2 DEF HookOK
    <3> QED BY <3>1, <3>3 DEF TurnOK, Busy
  <2> QED BY <2>1, <2>2
<1>5. LaunchOK(p)'
  BY <1>3, <1>4 DEF LaunchOK
<1>6. FoundOK(p)'
  <2>1. ASSUME NEW r \in found[p] PROVE stage'[r] = "exited" /\ sessions'[r] = None
    <3>1. r \in Launches /\ stage[r] = "exited" /\ sessions[r] = None
      BY <1>1 DEF FoundOK, IInv, TypeOK
    <3> QED BY <3>1 DEF Connects, Running
  <2> QED BY <2>1 DEF FoundOK, Connects
<1>7. StepOf(p)
  BY DEF StepOf, Connects, Running, Owns
<1> QED BY <1>5, <1>6, <1>7, StepIInv

(* What a request past connState knows. *)
LEMMA HookKnows ==
  ASSUME IInv, NEW p \in Launches, NEW q \in Requests, Busy(p, q)
  PROVE  /\ conn[p] = "connecting" /\ ~live[p] /\ Running(p)
         /\ \A r \in Requests : r # q => attempt[p][r].at \in {"none", "admitted"}
         /\ HookOK(p, q) /\ SessionOK(p) /\ RecordOK(p)
         /\ attempt[p][q].ctx \in Contexts /\ TypeOK
<1>1. TurnOK(p, q) /\ HookOK(p, q) /\ IdleOK(p) /\ GateOK(p) /\ SessionOK(p) /\ RecordOK(p)
      /\ TypeOK
  BY DEF IInv, LaunchOK
<1>2. conn[p] = "connecting" /\ \A r \in Requests : Busy(p, r) => r = q
  BY <1>1 DEF TurnOK
<1> QED BY <1>1, <1>2 DEF Busy, IdleOK, GateOK, HookOK

LEMMA HookIInv ==
  ASSUME IInv, TypeOK', NEW p \in Launches, NEW q \in Requests,
         Dial(p, q) \/ HookStep(p, q)
  PROVE  IInv'
<1> USE DEF wiring, history
<1>1. Busy(p, q)
  BY DEF Busy, At, Dial, HookStep, Freeze, Register, OpenStore, Wire, Recover,
     Reconcile, StartObserver, Commit
<1>2. Connects(p, q)
  BY ConnectsFacts
<1>3. /\ conn[p] = "connecting" /\ ~live[p] /\ Running(p)
      /\ \A r \in Requests : r # q => attempt[p][r].at \in {"none", "admitted"}
      /\ HookOK(p, q) /\ SessionOK(p) /\ RecordOK(p)
      /\ attempt[p][q].ctx \in Contexts /\ TypeOK
  BY <1>1, HookKnows
<1> DEFINE at == attempt[p][q].at
           ctx == attempt[p][q].ctx
           Going(place) == attempt'[p][q].at = place /\ attempt'[p][q].ctx = ctx
                           /\ conn'[p] = conn[p]
           Failing == attempt'[p][q].at = "none" /\ conn'[p] = "disconnected"
<1>4. /\ \A place \in Places : Goto(p, q, place) /\ UNCHANGED conn => Going(place)
      /\ Fail(p, q) => Failing
  <2>1. attempt[p][q] \in Attempts
    BY <1>3 DEF TypeOK
  <2>2. ASSUME NEW place \in Places, Goto(p, q, place), UNCHANGED conn PROVE Going(place)
    BY <1>3, <2>1, <2>2 DEF Goto, TypeOK, Attempts
  <2>3. ASSUME Fail(p, q) PROVE Failing
    BY <1>3, <2>3 DEF Fail, Done, NoAttempt, TypeOK
  <2> QED BY <2>2, <2>3
<1>5. Running(p)' /\ stage'[p] = stage[p] /\ overran'[p] = overran[p] /\ ~live'[p]
  BY <1>2, <1>3 DEF Connects, Running
<1>6. stage[p] \in {"closed", "exited"} => overran[p]
  BY <1>1, <1>3 DEF SessionOK, Busy
<1>a. CASE Dial(p, q)
  <2>1. at = "dial" /\ (Going("freeze") \/ Failing)
        /\ UNCHANGED <<store, clients, run, watched, sessions, record, cleanup, pinned, info>>
    BY <1>a, <1>4 DEF Dial, At, Places
  <2>2. HookOK(p, q)' /\ IdleOK(p)' /\ GateOK(p)'
    BY <1>3, <1>5, <2>1 DEF HookOK, IdleOK, GateOK, Running
  <2>3. SessionOK(p)'
    BY <1>3, <1>5, <1>6, <2>1 DEF SessionOK
  <2>4. RecordOK(p)'
    BY <1>3, <2>1 DEF RecordOK, HookOK
  <2> QED BY <1>1, <1>2, <2>1, <2>2, <2>3, <2>4, HookRest
<1>b. CASE Freeze(p, q)
  <2>1. at = "freeze" /\ UNCHANGED <<store, clients, run, watched, record, cleanup, pinned, info>>
    BY <1>b DEF Freeze, At
  <2>2. \/ Going("register") /\ sessions'[p] = ctx
        \/ Failing /\ sessions'[p] \in {sessions[p], None}
    BY <1>b, <1>3, <1>4 DEF Freeze, Places, TypeOK
  <2>3. HookOK(p, q)' /\ IdleOK(p)' /\ GateOK(p)'
    BY <1>3, <1>5, <2>1, <2>2 DEF HookOK, IdleOK, GateOK, Running
  <2>4. SessionOK(p)'
    BY <1>3, <1>5, <1>6, <2>1, <2>2 DEF SessionOK
  <2>5. RecordOK(p)'
    BY <1>3, <2>1, <2>2 DEF RecordOK, HookOK
  <2> QED BY <1>1, <1>2, <2>1, <2>2, <2>3, <2>4, <2>5, HookRest
<1>c. CASE Register(p, q)
  <2>1. at = "register" /\ Going("open") /\ cleanup'[p] /\ pinned'[p]
        /\ UNCHANGED <<store, clients, run, watched, sessions, record, info>>
    BY <1>c, <1>3, <1>4 DEF Register, At, Places, TypeOK
  <2>2. HookOK(p, q)' /\ IdleOK(p)' /\ GateOK(p)'
    BY <1>3, <1>5, <2>1 DEF HookOK, IdleOK, GateOK, Running
  <2>3. SessionOK(p)'
    BY <1>3, <1>5, <1>6, <2>1 DEF SessionOK
  <2>4. RecordOK(p)'
    BY <1>3, <2>1 DEF RecordOK, HookOK
  <2> QED BY <1>1, <1>2, <2>1, <2>2, <2>3, <2>4, HookRest
<1>d. CASE OpenStore(p, q)
  <2>1. at = "open" /\ (Going("wire") \/ Failing)
        /\ UNCHANGED <<store, clients, run, watched, sessions, record, cleanup, pinned, info>>
    BY <1>d, <1>4 DEF OpenStore, At, Places
  <2>2. HookOK(p, q)' /\ IdleOK(p)' /\ GateOK(p)'
    BY <1>3, <1>5, <2>1 DEF HookOK, IdleOK, GateOK, Running
  <2>3. SessionOK(p)'
    BY <1>3, <1>5, <1>6, <2>1 DEF SessionOK, HookOK
  <2>4. RecordOK(p)'
    BY <1>3, <2>1 DEF RecordOK, HookOK
  <2> QED BY <1>1, <1>2, <2>1, <2>2, <2>3, <2>4, HookRest
<1>e. CASE Wire(p, q)
  <2>1. at = "wire" /\ Going("recover")
        /\ store'[p] = ClusterOf[ctx] /\ clients'[p] = ClusterOf[ctx]
        /\ UNCHANGED <<run, watched, sessions, record, cleanup, pinned, info>>
    BY <1>e, <1>3, <1>4 DEF Wire, At, Places, TypeOK
  <2>2. HookOK(p, q)' /\ IdleOK(p)' /\ GateOK(p)'
    BY <1>3, <1>5, <2>1 DEF HookOK, IdleOK, GateOK, Running
  <2>3. SessionOK(p)'
    BY <1>3, <1>5, <1>6, <2>1 DEF SessionOK, HookOK
  <2>4. RecordOK(p)'
    BY <1>3, <2>1 DEF RecordOK
  <2> QED BY <1>1, <1>2, <2>1, <2>2, <2>3, <2>4, HookRest
<1>f. CASE Recover(p, q)
  <2>1. at = "recover" /\ Going("reconcile")
        /\ UNCHANGED <<clients, watched, sessions, record, cleanup, pinned, info>>
    BY <1>f, <1>4 DEF Recover, At, Places
  <2>2. \/ store'[p] = store[p] /\ run'[p] = record[store[p]]
        \/ store'[p] = None /\ run'[p] = run[p]
    BY <1>f, <1>3 DEF Recover, TypeOK
  <2>3. HookOK(p, q)' /\ IdleOK(p)' /\ GateOK(p)'
    BY <1>3, <1>5, <2>1, <2>2 DEF HookOK, IdleOK, GateOK, Running
  <2>4. SessionOK(p)'
    BY <1>3, <1>5, <1>6, <2>1 DEF SessionOK, HookOK
  <2>5. RecordOK(p)'
    BY <2>1, <2>2 DEF RecordOK
  <2> QED BY <1>1, <1>2, <2>1, <2>3, <2>4, <2>5, HookRest
<1>g. CASE Reconcile(p, q)
  <2>1. at = "reconcile" /\ Going("observe")
        /\ UNCHANGED <<store, clients, watched, sessions, cleanup, pinned, info>>
    BY <1>g, <1>4 DEF Reconcile, At, Places
  <2>2. HookOK(p, q)' /\ IdleOK(p)' /\ GateOK(p)'
    BY <1>3, <1>5, <2>1 DEF HookOK, IdleOK, GateOK, Running
  <2>3. SessionOK(p)'
    BY <1>3, <1>5, <1>6, <2>1 DEF SessionOK, HookOK
  <2>4. RecordOK(p)'
    <3>1. SUFFICES ASSUME store[p] # None PROVE record'[store[p]] \in {run'[p], None}
      BY <2>1 DEF RecordOK
    <3>2. record[store[p]] \in {run[p], None} /\ store[p] \in Clusters
      BY <1>3, <2>1, <3>1 DEF RecordOK, TypeOK
    <3>3. CASE UNCHANGED <<run, record>>
      BY <3>2, <3>3
    <3>4. CASE run[p] = None /\ run'[p] = p
               /\ (record' = record \/ record' = [record EXCEPT ![store[p]] = p])
      BY <1>3, <3>2, <3>4 DEF TypeOK
    <3> QED BY <1>g, <1>3, <3>1, <3>3, <3>4 DEF Reconcile, TypeOK
  <2> QED BY <1>1, <1>2, <2>1, <2>2, <2>3, <2>4, HookRest
<1>h. CASE StartObserver(p, q)
  <2>1. at = "observe" /\ Going("commit") /\ watched'[p] = watched[p] \cup {ClusterOf[ctx]}
        /\ UNCHANGED <<store, clients, run, sessions, record, cleanup, pinned, info>>
    BY <1>h, <1>3, <1>4 DEF StartObserver, At, Places, TypeOK
  <2>2. HookOK(p, q)' /\ IdleOK(p)' /\ GateOK(p)'
    BY <1>3, <1>5, <2>1 DEF HookOK, IdleOK, GateOK, Running
  <2>3. SessionOK(p)'
    BY <1>3, <1>5, <1>6, <2>1 DEF SessionOK, HookOK
  <2>4. RecordOK(p)'
    BY <1>3, <2>1 DEF RecordOK
  <2> QED BY <1>1, <1>2, <2>1, <2>2, <2>3, <2>4, HookRest
<1>i. CASE Commit(p, q)
  <2>1. at = "commit" /\ attempt'[p][q].at = "none" /\ conn'[p] = "connected" /\ info'[p] = ctx
        /\ UNCHANGED <<store, clients, run, watched, sessions, record, cleanup, pinned>>
    BY <1>i, <1>3 DEF Commit, Done, NoAttempt, At, TypeOK
  <2>2. HookOK(p, q)' /\ IdleOK(p)' /\ GateOK(p)'
    BY <1>3, <1>5, <2>1 DEF HookOK, IdleOK, GateOK, Running
  <2>3. SessionOK(p)'
    BY <1>3, <1>5, <1>6, <2>1 DEF SessionOK, HookOK
  <2>4. RecordOK(p)'
    BY <1>3, <2>1 DEF RecordOK
  <2> QED BY <1>1, <1>2, <2>1, <2>2, <2>3, <2>4, HookRest
<1> QED BY <1>a, <1>b, <1>c, <1>d, <1>e, <1>f, <1>g, <1>h, <1>i DEF HookStep

(* A request that is let through, and one that finds the state free or not. *)
LEMMA AskIInv ==
  ASSUME IInv, TypeOK', NEW p \in Launches, NEW q \in Requests,
         Admit(p, q) \/ Connect(p, q)
  PROVE  IInv'
<1> USE DEF wiring, history
<1>0. TypeOK /\ LaunchOK(p) /\ FoundOK(p)
  BY DEF IInv
<1>1. Connects(p, q)
  BY ConnectsFacts
<1>2. /\ attempt[p][q].at \in {"none", "admitted"} /\ stage[p] \notin {"out", "exited"}
      /\ UNCHANGED <<stage, info, pinned, cleanup, store, clients, run, live, watched,
                     overran, found, lock, sessions, record>>
  BY DEF Admit, Connect, At, Alive
<1>3. attempt'[p][q].at \in {"none", "admitted", "dial"}
      /\ (attempt'[p][q].at # "none" => attempt'[p][q].ctx \in Contexts)
  <2>1. CASE Admit(p, q)
    BY <1>0, <2>1 DEF Admit, Listed, TypeOK
  <2>2. CASE Connect(p, q)
    <3>1. attempt[p][q].ctx \in Contexts
      BY <1>0, <2>2 DEF Connect, At, LaunchOK, HookOK
    <3>2. attempt[p] \in [Requests -> Attempts]
      BY <1>0 DEF TypeOK
    <3>3. CASE Goto(p, q, "dial")
      BY <1>0, <3>1, <3>2, <3>3 DEF Goto, TypeOK, Attempts
    <3>4. CASE Done(p, q)
      BY <1>0, <3>4 DEF Done, NoAttempt, TypeOK
    <3> QED BY <2>2, <3>3, <3>4 DEF Connect
  <2> QED BY <2>1, <2>2
<1>4. \/ conn'[p] = conn[p] /\ attempt'[p][q].at # "dial"
      \/ conn[p] = "disconnected" /\ conn'[p] = "connecting" /\ attempt'[p][q].at = "dial"
  <2>1. CASE Admit(p, q)
    BY <1>0, <2>1 DEF Admit, TypeOK
  <2>2. CASE Connect(p, q)
    <3>1. attempt[p] \in [Requests -> Attempts]
      BY <1>0 DEF TypeOK
    <3>2. CASE Free(p)
      BY <1>0, <2>2, <3>1, <3>2 DEF Connect, Goto, Free, TypeOK, Attempts
    <3>3. CASE ~Free(p)
      BY <1>0, <2>2, <3>3 DEF Connect, Done, NoAttempt, TypeOK
    <3> QED BY <3>2, <3>3
  <2> QED BY <2>1, <2>2
<1>5. stage[p] \in {"closed", "exited"} /\ ~overran[p] => attempt'[p][q].at = "none"
  BY <1>0 DEF LaunchOK, SessionOK, Admit, Connect, At
<1>6. LockOK(p)' /\ FoundOK(p)'
  BY <1>0, <1>2 DEF LaunchOK, LockOK, FoundOK, Owns
<1>7. IdleOK(p)' /\ GateOK(p)'
  <2>1. \A r \in Requests : r # q => attempt'[p][r] = attempt[p][r]
    BY <1>1 DEF Connects
  <2>2. Running(p)
    BY <1>1 DEF Connects
  <2>3. IdleOK(p)'
    BY <1>0, <1>2, <1>4, <2>2 DEF LaunchOK, IdleOK, Running
  <2>4. GateOK(p)'
    BY <1>0, <1>2, <1>4 DEF LaunchOK, GateOK
  <2> QED BY <2>3, <2>4
<1>8. SessionOK(p)' /\ RecordOK(p)'
  <2>1. \A r \in Requests : r # q => attempt'[p][r] = attempt[p][r]
    BY <1>1 DEF Connects
  <2>2. SessionOK(p)'
    BY <1>0, <1>2, <1>5, <2>1 DEF LaunchOK, SessionOK
  <2>3. RecordOK(p)'
    BY <1>0, <1>2, <1>3, <2>1 DEF LaunchOK, RecordOK
  <2> QED BY <2>2, <2>3
<1>9. ASSUME NEW r \in Requests PROVE (TurnOK(p, r) /\ HookOK(p, r))'
  <2>1. \A o \in Requests : o # q => attempt'[p][o] = attempt[p][o]
    BY <1>1 DEF Connects
  <2>2. TurnOK(p, r)'
    <3>1. conn[p] = "disconnected" => \A o \in Requests : ~Busy(p, o)
      BY <1>0 DEF LaunchOK, TurnOK
    <3>2. \A o \in Requests : o # q => (Busy(p, o)' <=> Busy(p, o))
      BY <2>1 DEF Busy
    <3>3. ~Busy(p, q)
      BY <1>2 DEF Busy
    <3>4. CASE conn'[p] = conn[p] /\ attempt'[p][q].at # "dial"
      <4>1. ~Busy(p, q)'
        BY <1>3, <3>4 DEF Busy
      <4> QED BY <1>0, <3>2, <3>3, <3>4, <4>1 DEF LaunchOK, TurnOK
    <3>5. CASE conn[p] = "disconnected" /\ conn'[p] = "connecting"
      <4>1. \A o \in Requests : o # q => ~Busy(p, o)'
        BY <3>1, <3>2, <3>5
      <4> QED BY <3>5, <4>1 DEF TurnOK
    <3> QED BY <1>4, <3>4, <3>5
  <2>3. HookOK(p, r)'
    <3>1. CASE r = q
      <4>1. attempt'[p][q].at = "dial" => store'[p] = None /\ watched'[p] = {}
        BY <1>0, <1>2, <1>4 DEF LaunchOK, IdleOK
      <4>2. attempt'[p][r].at \in {"none", "admitted", "dial"}
            /\ (attempt'[p][r].at # "none" => attempt'[p][r].ctx \in Contexts)
        BY <1>3, <3>1
      <4> QED BY <3>1, <4>1, <4>2 DEF HookOK
    <3>2. CASE r # q
      BY <1>0, <1>2, <2>1, <3>2 DEF LaunchOK, HookOK
    <3> QED BY <3>1, <3>2
  <2> QED BY <2>2, <2>3
<1>10. StepOf(p)
  BY <1>1 DEF StepOf, Connects, Running, Owns
<1> QED BY <1>6, <1>7, <1>8, <1>9, <1>10, StepIInv DEF LaunchOK

(***************************************************************************)
(* The run behind the gate.                                                *)
(***************************************************************************)
LEMMA RunIInv ==
  ASSUME IInv, TypeOK', NEW p \in Launches,
         StartRun(p) \/ Retry(p) \/ Discard(p) \/ RunEnds(p)
  PROVE  IInv'
<1>0. TypeOK /\ LaunchOK(p) /\ FoundOK(p)
  BY DEF IInv
<1>1. /\ UNCHANGED <<stage, conn, info, attempt, pinned, cleanup, store, clients,
                     watched, overran, found, lock, sessions>>
      /\ \A r \in Launches : r # p => run'[r] = run[r] /\ live'[r] = live[r]
  BY <1>0 DEF StartRun, Retry, Discard, RunEnds, history, TypeOK
<1>2. conn[p] = "connected" /\ (live'[p] => stage[p] # "closed" \/ live[p])
  BY <1>0 DEF StartRun, Retry, Discard, RunEnds, Serves, LaunchOK, GateOK
<1>3. Running(p)
  BY <1>0, <1>2 DEF LaunchOK, IdleOK
<1>4. store[p] # None => record' = [record EXCEPT ![store[p]] = run'[p]]
  <2>1. CASE StartRun(p)
    BY <1>0, <2>1 DEF StartRun, Saves, TypeOK
  <2>2. CASE Retry(p)
    BY <1>0, <2>2 DEF Retry, Saves, TypeOK
  <2>3. CASE Discard(p)
    BY <1>0, <2>3 DEF Discard, Saves, TypeOK
  <2>4. CASE RunEnds(p)
    BY <1>0, <2>4 DEF RunEnds, Saves, TypeOK
  <2> QED BY <2>1, <2>2, <2>3, <2>4
<1>5. RecordOK(p)'
  <2>1. SUFFICES ASSUME store[p] # None PROVE record'[store[p]] \in {run'[p], None}
    BY <1>1 DEF RecordOK
  <2>2. \A q \in Requests : attempt[p][q].at # "recover"
    BY <1>0, <1>2 DEF LaunchOK, TurnOK, Busy
  <2>3. record[store[p]] \in {run[p], None} /\ store[p] \in Clusters
    BY <1>0, <2>1, <2>2 DEF LaunchOK, RecordOK, TypeOK
  <2> QED BY <1>0, <1>4, <2>1, <2>3 DEF TypeOK
<1>6. LockOK(p)' /\ FoundOK(p)'
  BY <1>0, <1>1 DEF LaunchOK, LockOK, FoundOK, Owns
<1>7. IdleOK(p)' /\ SessionOK(p)'
  BY <1>0, <1>1, <1>3 DEF LaunchOK, IdleOK, SessionOK, Running
<1>8. GateOK(p)'
  BY <1>0, <1>1, <1>2 DEF LaunchOK, GateOK
<1>9. \A q \in Requests : (TurnOK(p, q) /\ HookOK(p, q))'
  BY <1>0, <1>1 DEF LaunchOK, TurnOK, HookOK, Busy
<1>10. StepOf(p)
  BY <1>1, <1>3 DEF StepOf, Same, Running, Owns
<1> QED BY <1>5, <1>6, <1>7, <1>8, <1>9, <1>10, StepIInv DEF LaunchOK

(***************************************************************************)
(* The process: start, kill, shutdown.                                     *)
(***************************************************************************)

(* A process that is gone owns nothing and has nothing wired. *)
LEMMA GoneOK ==
  ASSUME IInv, NEW p \in Launches, Gone(p), UNCHANGED <<found, record>>,
         \A r \in Launches : sessions'[r] = sessions[r] /\ (r # p => overran'[r] = overran[r]),
         \A r \in Launches : r # p /\ Owns(r) => lock' = lock,
         overran'[p] \/ sessions[p] = None, stage[p] # "exited"
  PROVE  StepOf(p) /\ LaunchOK(p)' /\ FoundOK(p)'
<1>1. TypeOK /\ LaunchOK(p) /\ FoundOK(p)
  BY DEF IInv
<1>2. \A r \in Launches : r # p => Same(r)
  BY <1>1 DEF Gone, Same, TypeOK
<1>3. /\ stage'[p] = "exited" /\ conn'[p] = "disconnected" /\ ~live'[p]
      /\ store'[p] = None /\ watched'[p] = {}
      /\ \A q \in Requests : attempt'[p][q].at = "none"
  BY <1>1 DEF Gone, NoAttempt, TypeOK
<1>4. StepOf(p)
  BY <1>2, <1>3 DEF StepOf, Owns
<1>5. LockOK(p)' /\ IdleOK(p)' /\ GateOK(p)' /\ SessionOK(p)' /\ RecordOK(p)'
  BY <1>3 DEF LockOK, IdleOK, GateOK, SessionOK, RecordOK, Owns, Running
<1>6. \A q \in Requests : (TurnOK(p, q) /\ HookOK(p, q))'
  BY <1>3 DEF TurnOK, HookOK, Busy
<1>7. FoundOK(p)'
  <2>1. ASSUME NEW r \in found[p] PROVE stage'[r] = "exited" /\ sessions'[r] = None
    <3>1. r \in Launches /\ stage[r] = "exited" /\ sessions[r] = None
      BY <1>1 DEF FoundOK, TypeOK
    <3> QED BY <1>2, <3>1 DEF Same
  <2> QED BY <2>1 DEF FoundOK
<1> QED BY <1>4, <1>5, <1>6, <1>7 DEF LaunchOK

LEMMA ProcessIInv ==
  ASSUME IInv, TypeOK', NEW p \in Launches,
         \/ Launch(p) \/ CreateLock(p) \/ Refused(p) \/ WriteLock(p) \/ Kill(p)
         \/ Drain(p) \/ Cancel(p) \/ CloseSession(p) \/ Exit(p)
  PROVE  IInv'
<1> USE DEF memory, wiring, history
<1>0. TypeOK /\ LaunchOK(p) /\ FoundOK(p) /\ SoleOwner
  BY DEF IInv
<1>a. CASE Launch(p)
  <2>1. /\ UNCHANGED <<memory, overran, kills, lock, record>>
        /\ stage[p] = "out" /\ stage'[p] = "swept" /\ sessions[p] = None
        /\ \A r \in Launches : r # p => stage'[r] = stage[r] /\ found'[r] = found[r]
        /\ \A r \in Launches : sessions'[r] = IF Alive(r) THEN sessions[r] ELSE None
    BY <1>0, <1>a DEF Launch, Stale, processLive, LaunchOK, IdleOK, TypeOK
  <2>2. StepOf(p)
    BY <2>1 DEF StepOf, Same, Owns
  <2>3. FoundOK(p)'
    BY <1>0, <1>a, <2>1 DEF FoundOK, Launch, Stale, processLive, Alive, TypeOK
  <2>4. LockOK(p)' /\ IdleOK(p)' /\ GateOK(p)' /\ SessionOK(p)' /\ RecordOK(p)'
    BY <1>0, <2>1 DEF LaunchOK, LockOK, IdleOK, GateOK, SessionOK, RecordOK, Owns, Running, Alive
  <2>5. \A q \in Requests : (TurnOK(p, q) /\ HookOK(p, q))'
    BY <1>0, <2>1 DEF LaunchOK, IdleOK, TurnOK, HookOK, Busy, Running
  <2> QED BY <2>2, <2>3, <2>4, <2>5, StepIInv DEF LaunchOK
<1>b. ASSUME UNCHANGED <<memory, overran, found, sessions, record>>,
             \A r \in Launches : r # p => stage'[r] = stage[r] /\ (Owns(r) => lock' = lock),
             Owns(p)' => Owns(p) \/ \A r \in Launches : ~Owns(r),
             LockOK(p)', Running(p) => Running(p)', stage'[p] = "locking" => sessions[p] = None,
             stage[p] \notin {"closed", "exited"}, stage'[p] \notin {"out", "swept", "closed", "exited"},
             Running(p)' /\ ~Running(p) => sessions[p] = None
      PROVE  IInv'
  <2>1. StepOf(p)
    BY <1>b DEF StepOf, Same
  <2>2. FoundOK(p)'
    <3>1. ASSUME NEW r \in found[p] PROVE stage'[r] = "exited" /\ sessions'[r] = None
      <4>1. r \in Launches /\ stage[r] = "exited" /\ sessions[r] = None
        BY <1>0 DEF FoundOK, TypeOK
      <4> QED BY <1>b, <4>1
    <3> QED BY <1>b, <3>1 DEF FoundOK
  <2>3. IdleOK(p)'
    BY <1>0, <1>b DEF LaunchOK, IdleOK, Running
  <2>4. GateOK(p)' /\ RecordOK(p)'
    BY <1>0, <1>b DEF LaunchOK, GateOK, RecordOK
  <2>5. SessionOK(p)'
    BY <1>0, <1>b DEF LaunchOK, SessionOK, Running
  <2>6. \A q \in Requests : (TurnOK(p, q) /\ HookOK(p, q))'
    BY <1>0, <1>b DEF LaunchOK, TurnOK, HookOK, Busy
  <2> QED BY <1>b, <2>1, <2>2, <2>3, <2>4, <2>5, <2>6, StepIInv DEF LaunchOK
<1>c. CASE CreateLock(p)
  <2>1. \A r \in Launches : ~Owns(r)
    BY <1>c, ConsoleAssumption DEF IInv, LaunchOK, LockOK, CreateLock, Locked
  <2>2. stage[p] = "swept" /\ stage'[p] = "locking" /\ lock' = Unreadable
        /\ \A r \in Launches : r # p => stage'[r] = stage[r]
    BY <1>0, <1>c DEF CreateLock, TypeOK
  <2>3. LockOK(p)' /\ sessions[p] = None
    BY <1>0, <2>2 DEF LockOK, LaunchOK, IdleOK
  <2> QED BY <1>b, <1>c, <2>1, <2>2, <2>3 DEF CreateLock, Running
<1>d. CASE Drain(p) \/ Cancel(p)
  <2>1. UNCHANGED <<memory, overran, found, lock, sessions, record>>
        /\ stage[p] \in {"serving", "draining"} /\ stage'[p] \in {"draining", "waiting"}
        /\ \A r \in Launches : r # p => stage'[r] = stage[r]
    BY <1>0, <1>d DEF Drain, Cancel, TypeOK
  <2>2. LockOK(p)' /\ Owns(p)
    BY <1>0, <2>1 DEF LaunchOK, LockOK, Owns
  <2> QED BY <1>b, <2>1, <2>2 DEF Running
<1>e. CASE WriteLock(p)
  <2>1. stage[p] = "locking" /\ Owns(p) /\ sessions[p] = None
        /\ UNCHANGED <<overran, found, kills, sessions, record>>
    BY <1>0, <1>e DEF WriteLock, Owns, LaunchOK, IdleOK
  <2>2. \A r \in Launches : r # p => ~Owns(r)
    BY <1>0, <2>1 DEF SoleOwner
  <2>3. CASE Gone(p)
    BY <2>1, <2>2, <2>3, GoneOK, StepIInv
  <2>4. CASE lock' = p /\ stage' = [stage EXCEPT ![p] = "serving"] /\ UNCHANGED memory
    <3>1. stage'[p] = "serving" /\ \A r \in Launches : r # p => stage'[r] = stage[r]
      BY <1>0, <2>4 DEF TypeOK
    <3>2. LockOK(p)'
      BY <2>4, <3>1 DEF LockOK
    <3> QED BY <1>b, <2>1, <2>2, <2>4, <3>1, <3>2 DEF Running
  <2> QED BY <1>e, <2>3, <2>4 DEF WriteLock
<1>f. CASE Refused(p)
  <2>1. stage[p] = "swept" /\ sessions[p] = None
    BY <1>0, <1>f DEF Refused, LaunchOK, IdleOK
  <2> QED BY <1>f, <2>1, GoneOK, StepIInv DEF Refused
<1>g. CASE Kill(p)
  <2>1. overran'[p] /\ (\A r \in Launches : r # p => overran'[r] = overran[r])
        /\ stage[p] # "exited" /\ Gone(p) /\ UNCHANGED <<found, lock, sessions, record>>
    BY <1>0, <1>g DEF Kill, Alive, TypeOK
  <2> QED BY <2>1, GoneOK, StepIInv
<1>h. CASE Exit(p)
  <2>1. stage[p] = "closed" /\ Owns(p) /\ Gone(p) /\ UNCHANGED <<overran, found, kills, sessions, record>>
    BY <1>h DEF Exit, Owns
  <2>2. \A r \in Launches : r # p => ~Owns(r)
    BY <1>0, <2>1 DEF SoleOwner
  <2>3. overran[p] \/ sessions[p] = None
    BY <1>0, <2>1 DEF LaunchOK, SessionOK
  <2> QED BY <2>1, <2>2, <2>3, GoneOK, StepIInv
<1>i. CASE CloseSession(p)
  <2>1. /\ UNCHANGED <<conn, info, attempt, pinned, store, clients, run, live, watched,
                       found, kills, lock, record>>
        /\ stage[p] = "waiting" /\ stage'[p] = "closed"
        /\ \A r \in Launches : r # p =>
             stage'[r] = stage[r] /\ overran'[r] = overran[r] /\ cleanup'[r] = cleanup[r]
             /\ sessions'[r] = sessions[r]
        /\ overran'[p] = (overran[p] \/ InFlight(p) \/ live[p])
        /\ sessions'[p] = IF cleanup[p] THEN None ELSE sessions[p]
    BY <1>0, <1>i DEF CloseSession, Waited, TypeOK
  <2>2. Owns(p) /\ StepOf(p)
    BY <2>1 DEF StepOf, Same, Owns
  <2>3. FoundOK(p)'
    <3>1. ASSUME NEW r \in found[p] PROVE stage'[r] = "exited" /\ sessions'[r] = None
      <4>1. r \in Launches /\ stage[r] = "exited" /\ sessions[r] = None
        BY <1>0 DEF FoundOK, TypeOK
      <4> QED BY <2>1, <4>1
    <3> QED BY <2>1, <3>1 DEF FoundOK
  <2>4. LockOK(p)' /\ IdleOK(p)' /\ RecordOK(p)'
    BY <1>0, <2>1 DEF LaunchOK, LockOK, IdleOK, RecordOK, Owns, Running
  <2>5. GateOK(p)'
    BY <1>0, <2>1 DEF LaunchOK, GateOK
  <2>6. SessionOK(p)'
    BY <1>0, <2>1 DEF LaunchOK, SessionOK, InFlight
  <2>7. \A q \in Requests : (TurnOK(p, q) /\ HookOK(p, q))'
    BY <1>0, <2>1 DEF LaunchOK, TurnOK, HookOK, Busy
  <2> QED BY <2>2, <2>3, <2>4, <2>5, <2>6, <2>7, StepIInv DEF LaunchOK
<1> QED BY <1>a, <1>c, <1>d, <1>e, <1>f, <1>g, <1>h, <1>i

(* An operator clears the lock of a launch that is gone, or nothing happens. *)
LEMMA RestIInv == IInv /\ (OperatorClears \/ UNCHANGED vars) => IInv'
<1> SUFFICES ASSUME IInv, OperatorClears \/ UNCHANGED vars PROVE IInv'
  OBVIOUS
<1> USE DEF wiring
<1>1. /\ UNCHANGED <<stage, memory, history, sessions, record>>
      /\ lock' = lock \/ (lock' = None /\ \A p \in Launches : ~Owns(p))
  BY DEF OperatorClears, vars, memory, history
<1>2. TypeOK' /\ SoleOwner'
  BY <1>1 DEF IInv, TypeOK, SoleOwner, Owns, memory, history
<1>3. ASSUME NEW p \in Launches PROVE LaunchOK(p)' /\ FoundOK(p)'
  <2>1. LaunchOK(p) /\ FoundOK(p)
    BY DEF IInv
  <2>2. LockOK(p)' /\ FoundOK(p)'
    BY <1>1, <2>1 DEF LaunchOK, LockOK, FoundOK, Owns, history
  <2>3. IdleOK(p)' /\ GateOK(p)' /\ SessionOK(p)' /\ RecordOK(p)'
    BY <1>1, <2>1 DEF LaunchOK, IdleOK, GateOK, SessionOK, RecordOK, Running, memory, history
  <2>4. \A q \in Requests : (TurnOK(p, q) /\ HookOK(p, q))'
    BY <1>1, <2>1 DEF LaunchOK, TurnOK, HookOK, Busy, memory
  <2> QED BY <2>2, <2>3, <2>4 DEF LaunchOK
<1> QED BY <1>2, <1>3 DEF IInv

LEMMA NextIInv == IInv /\ [Next]_vars => IInv'
<1> SUFFICES ASSUME IInv, [Next]_vars PROVE IInv'
  OBVIOUS
<1>1. CASE OperatorClears \/ Over \/ UNCHANGED vars
  BY <1>1, RestIInv DEF Over
<1>2. ASSUME NEW p \in Launches,
             \/ Launch(p) \/ CreateLock(p) \/ Refused(p) \/ WriteLock(p) \/ Kill(p)
             \/ Drain(p) \/ ShutdownStep(p)
      PROVE  IInv'
  BY <1>2, TypeProcess, ProcessIInv DEF ShutdownStep
<1>3. ASSUME NEW p \in Launches, StartRun(p) \/ Retry(p) \/ Discard(p) \/ RunEnds(p)
      PROVE  IInv'
  BY <1>3, TypeRun, RunIInv
<1>4. ASSUME NEW p \in Launches, NEW q \in Requests,
             Admit(p, q) \/ Connect(p, q) \/ Dial(p, q) \/ HookStep(p, q)
      PROVE  IInv'
  BY <1>4, TypeConnect, AskIInv, HookIInv
<1> QED BY <1>1, <1>2, <1>3, <1>4 DEF Next

LEMMA Inductive == Spec => []IInv
<1> QED BY InitIInv, NextIInv, PTL DEF Spec

(***************************************************************************)
(* The properties.                                                         *)
(***************************************************************************)

(* The types of Console, and that a goroutine never outlives its run. *)
THEOREM ConsoleTypes == Spec => []TypeOK
<1>1. IInv => TypeOK
  BY DEF IInv
<1> QED BY <1>1, Inductive, PTL

(* However many launches race for the lock file, are refused or killed, and
   whenever an operator clears a dead one's: one owns the work directory. *)
THEOREM OneOwner == Spec => []SoleOwner
<1>1. IInv => SoleOwner
  BY DEF IInv
<1> QED BY <1>1, Inductive, PTL

(* However many requests race to connect and wherever an attempt fails, an open
   gate means store, clients, observer and kubeconfig of one cluster. *)
THEOREM WiredToOneCluster == Spec => []OneCluster
<1>1. IInv => OneCluster
  BY DEF IInv, LaunchOK, GateOK, OneCluster
<1> QED BY <1>1, Inductive, PTL

(* Credentials: helm's outlive its run, a shutdown within its budgets leaves
   none, and a start removes those of the launches that are gone. *)
THEOREM Credentials == Spec => []CredentialLifetime
<1>1. IInv => SessionOutlivesRun
  BY DEF IInv, LaunchOK, GateOK, SessionOutlivesRun
<1>2. IInv => CleanExit
  BY DEF IInv, LaunchOK, SessionOK, CleanExit
<1>3. IInv => CredentialsSwept
  BY DEF IInv, FoundOK, CredentialsSwept
<1>4. IInv => CredentialLifetime
  BY <1>1, <1>2, <1>3 DEF CredentialLifetime
<1> QED BY <1>4, Inductive, PTL

(* A step that changes a record is taken by an owner, of the run recorded. *)
KeepsRecords ==
  \A c \in Clusters : record[c] # None /\ record'[c] # record[c] =>
    \E p \in Launches : Owns(p) /\ store[p] = c /\ run[p] = record[c]

LEMMA StepKeepsRecords == IInv /\ [Next]_vars => KeepsRecords
<1> SUFFICES ASSUME IInv, [Next]_vars, NEW c \in Clusters,
                    record[c] # None, record'[c] # record[c]
             PROVE  \E p \in Launches : Owns(p) /\ store[p] = c /\ run[p] = record[c]
  BY DEF KeepsRecords
<1>0. TypeOK
  BY DEF IInv
<1>1. PICK p \in Launches :
        \/ StartRun(p) \/ Retry(p) \/ Discard(p) \/ RunEnds(p)
        \/ \E q \in Requests : Reconcile(p, q)
  <2>1. ~UNCHANGED record
    OBVIOUS
  <2>2. ~(OperatorClears \/ Over \/ UNCHANGED vars)
    BY <2>1 DEF OperatorClears, Over, vars
  <2>3. \A p \in Launches : ~(\/ Launch(p) \/ CreateLock(p) \/ Refused(p) \/ WriteLock(p)
                              \/ Kill(p) \/ Drain(p) \/ ShutdownStep(p))
    BY <2>1 DEF Launch, CreateLock, Refused, WriteLock, Kill, Drain, ShutdownStep, Cancel,
       CloseSession, Exit
  <2>4. \A p \in Launches, q \in Requests :
          Admit(p, q) \/ Connect(p, q) \/ Dial(p, q) \/ HookStep(p, q) => Reconcile(p, q)
    BY <2>1 DEF Admit, Connect, Dial, HookStep, Freeze, Register, OpenStore, Wire, Recover,
       StartObserver, Commit
  <2> QED BY <2>2, <2>3, <2>4 DEF Next
<1>2. LaunchOK(p)
  BY DEF IInv
<1>3. store[p] = c
  <2>1. ASSUME NEW r, Saves(p, r) PROVE store[p] = c
    BY <1>0, <2>1 DEF Saves, TypeOK
  <2>2. ASSUME NEW q \in Requests, Reconcile(p, q) PROVE store[p] = c
    <3>1. PICK f \in {record, [record EXCEPT ![store[p]] = p]} : record' = f
      BY <2>2 DEF Reconcile
    <3> QED BY <1>0, <3>1 DEF TypeOK
  <2> QED BY <1>1, <2>1, <2>2 DEF StartRun, Retry, Discard, RunEnds
<1>4. \A q \in Requests : attempt[p][q].at # "recover"
  <2>1. CASE conn[p] = "connected"
    BY <1>2, <2>1 DEF LaunchOK, TurnOK, Busy
  <2>2. CASE conn[p] # "connected"
    <3>1. PICK q \in Requests : Reconcile(p, q)
      BY <1>1, <1>2, <2>2 DEF StartRun, Retry, Discard, RunEnds, Serves, LaunchOK, GateOK
    <3> QED BY <1>2, <3>1 DEF Reconcile, At, LaunchOK, TurnOK, Busy
  <2> QED BY <2>1, <2>2
<1>5. run[p] = record[c]
  BY <1>2, <1>3, <1>4, ConsoleAssumption DEF LaunchOK, RecordOK
<1>6. Owns(p)
  BY <1>2, <1>3, ConsoleAssumption DEF LaunchOK, IdleOK, Running, Owns
<1> QED BY <1>3, <1>5, <1>6

(* What an earlier launch left is adopted before it can be replaced, and what
   nobody could read never is. *)
THEOREM RecordsAreKept == Spec => RecordsKept
<1> QED BY Inductive, StepKeepsRecords, PTL DEF Spec, RecordsKept, KeepsRecords
=============================================================================
