--------------------------- MODULE InstallProofs ----------------------------
(***************************************************************************)
(* What a teardown may undo and what it tells, for every recipe, every     *)
(* cluster the run finds, and any number of runs, retries, failures,       *)
(* shutdowns and crashes before it: it removes nothing that somebody else  *)
(* made (SparesOthers); its inventory lists nothing as removed that is     *)
(* still there (InventoryHonest); when it ends as done nothing provable of *)
(* the run is left (CleanMeansRemoved); and it deletes an object only once *)
(* the release is gone (PurgeFollowsRemoval).                              *)
(*                                                                         *)
(* The invariants, each resting on the ones before it: TypeOK; EvidenceOK, *)
(* what the evidence of a run rules out; OwnersOK and CompleteOK, what it  *)
(* is sure to contain; EndedOK, UnderwayOK and PurgingOK, what a teardown  *)
(* has told of the cluster as it is now.                                   *)
(***************************************************************************)
EXTENDS Install, TLAPS

USE DEF Live, Components, Releases, Owners, Holders

(***************************************************************************)
(* Types.                                                                  *)
(***************************************************************************)
LEMMA EmptyIsTyped ==
  /\ EmptyScratch \in [comps : SUBSET Components, own : Ownership]
  /\ NoOwnership \in Ownership
  /\ 1 \in Components
BY RecipeAssumption DEF EmptyScratch, NoOwnership, Ownership

LEMMA ReleaseTyped ==
  ASSUME NEW c \in Components
  PROVE  /\ ReleaseOf(c) \in Releases
         /\ NamespaceOf[c] \in recipeNamespaces
         /\ recipeNamespaces \subseteq Namespaces
BY RecipeAssumption DEF ReleaseOf, recipeNamespaces

LEMMA InstallAsTyped ==
  ASSUME TypeOK, NEW who \in Owners, NEW r \in Releases, NEW objects \in SUBSET Objects,
         InstallAs(who, r, objects)
  PROVE  /\ installed' \in [Releases -> Holders]
         /\ kept' \in [Hazards -> [Objects -> Holders]]
<1>1. \A old \in Holders : Made(who, old) \in Holders
  BY DEF Made
<1>2. installed' \in [Releases -> Holders]
  BY <1>1 DEF InstallAs, TypeOK
<1>3. \A h \in Hazards, o \in Objects :
        (IF h = r[1] /\ o \in objects THEN Made(who, kept[h][o]) ELSE kept[h][o]) \in Holders
  BY <1>1 DEF TypeOK
<1>4. kept' \in [Hazards -> [Objects -> Holders]]
  BY <1>3 DEF InstallAs
<1> QED
  BY <1>2, <1>4

LEMMA SnapshotTyped ==
  ASSUME NEW bad \in SUBSET recipeNamespaces
  PROVE  snapshotOwnership(bad) \in Ownership
<1>1. recipeNamespaces \subseteq Namespaces
  BY RecipeAssumption DEF recipeNamespaces
<1> QED
  BY <1>1 DEF snapshotOwnership, Ownership

LEMMA RowTyped ==
  ASSUME NEW c \in Components, NEW o \in Objects \cup {NoObject},
         NEW w \in {"removed", "skipped", "failed"}
  PROVE  Row(c, o, w) \in ResidueItem
BY DEF Row, ResidueItem

LEMMA RecoveredTyped ==
  ASSUME NEW r \in Runs
  PROVE  Recovered(r) \in Runs /\ Recovered(r).id = r.id /\ Recovered(r).own = r.own
BY DEF Recovered, Runs

LEMMA InitTyped == Init => TypeOK
<1> SUFFICES ASSUME Init PROVE TypeOK
  OBVIOUS
<1>1. installed \in [Releases -> Holders] /\ kept \in [Hazards -> [Objects -> Holders]]
  BY DEF Init
<1>2. scratch \in [comps : SUBSET Components, own : Ownership] /\ at \in Components
  BY EmptyIsTyped DEF Init
<1>3. crashes \in 0 .. MaxCrashes
  BY InstallBounds DEF Init
<1> QED
  BY <1>1, <1>2, <1>3 DEF Init, TypeOK, Places

LEMMA OthersTyped ==
  ASSUME TypeOK, OthersInstall \/ OthersUninstall
  PROVE  TypeOK'
<1>1. CASE OthersInstall
  <2>1. PICK r \in Foreign : InstallAs(Other, r, Objects)
    BY <1>1 DEF OthersInstall
  <2>2. r \in Releases
    BY <2>1, RecipeAssumption
  <2>3. installed' \in [Releases -> Holders] /\ kept' \in [Hazards -> [Objects -> Holders]]
    BY <2>1, <2>2, InstallAsTyped
  <2> QED
    BY <1>1, <2>3 DEF OthersInstall, TypeOK, work
<1>2. CASE OthersUninstall
  BY <1>2 DEF OthersUninstall, TypeOK, work
<1> QED
  BY <1>1, <1>2

LEMMA LaunchTyped ==
  ASSUME TypeOK, NEW r \in Runs, Launch(r), used' \in SUBSET RunIDs
  PROVE  TypeOK'
BY NoRunIsNoRun DEF Launch, TypeOK, work, cluster, Places

LEMMA CallsTyped ==
  ASSUME TypeOK, Start \/ Retry \/ Discard \/ Stop
  PROVE  TypeOK'
<1>1. CASE Start
  <2>1. PICK id \in RunIDs : Launch(NewRun(id)) /\ used' = used \cup {id}
    BY <1>1 DEF Start
  <2>2. NewRun(id) \in Runs
    BY EmptyIsTyped DEF NewRun, Runs
  <2>3. used' \in SUBSET RunIDs
    BY <2>1 DEF TypeOK
  <2> QED
    BY <2>1, <2>2, <2>3, LaunchTyped
<1>2. CASE Retry
  <2>1. run \in Runs /\ [run EXCEPT !.state = "running"] \in Runs
    BY <1>2 DEF Retry, CanRetry, TypeOK, Runs
  <2>2. used' \in SUBSET RunIDs
    BY <1>2 DEF Retry, TypeOK
  <2> QED
    BY <1>2, <2>1, <2>2, LaunchTyped DEF Retry
<1>3. CASE Discard
  BY <1>3 DEF Discard, Serving, TypeOK, work, cluster
<1>4. CASE Stop
  <2>1. run \in Runs /\ [run EXCEPT !.state = "done"] \in Runs
    BY <1>4 DEF Stop, TypeOK, Runs
  <2> QED
    BY <1>4, <2>1 DEF Stop, Serving, TypeOK, work, cluster
<1> QED
  BY <1>1, <1>2, <1>3, <1>4

LEMMA ApplyFailsTyped ==
  ASSUME TypeOK, run # NoRun, NEW s \in [comps : SUBSET Components, own : Ownership],
         ApplyFails(s)
  PROVE  /\ run' \in Runs /\ record' \in Runs \cup {NoRun} /\ pc' = "idle"
         /\ scratch' = EmptyScratch /\ at' = 1
<1>1. [run EXCEPT !.state = "failed", !.comps = s.comps, !.own = s.own] \in Runs
  BY DEF TypeOK, Runs
<1> QED
  BY <1>1 DEF ApplyFails, Settle, StepOver, TypeOK

LEMMA SnapshotStepTyped ==
  ASSUME TypeOK, Snapshot
  PROVE  TypeOK'
<1>1. PICK bad \in SUBSET recipeNamespaces :
        LET first == FirstAttempt(run.own)
            own   == IF first THEN snapshotOwnership(bad) ELSE run.own
            s     == [comps |-> run.comps, own |-> own]
        IN  /\ pc = "snapshot"
            /\ \/ first /\ alreadyInstalled(own) # {} /\ ApplyFails(s)
               \/ /\ pc' = "deploy" /\ scratch' = s /\ at' = 1
                  /\ record' \in {record, run}
                  /\ UNCHANGED run
            /\ UNCHANGED <<todo, left, items, stopped, draining, cluster, used, lost, crashes>>
  BY DEF Snapshot
<1> DEFINE own == IF FirstAttempt(run.own) THEN snapshotOwnership(bad) ELSE run.own
           s   == [comps |-> run.comps, own |-> own]
<1>2. run # NoRun /\ run \in Runs
  BY <1>1 DEF TypeOK
<1>3. own \in Ownership
  BY <1>2, SnapshotTyped DEF Runs
<1>4. s \in [comps : SUBSET Components, own : Ownership]
  BY <1>2, <1>3 DEF Runs
<1> HIDE DEF own, s
<1>5. CASE ApplyFails(s)
  <2>1. /\ run' \in Runs /\ record' \in Runs \cup {NoRun} /\ pc' = "idle"
        /\ scratch' = EmptyScratch /\ at' = 1
    BY <1>2, <1>4, <1>5, ApplyFailsTyped
  <2> QED
    BY <1>1, <2>1, EmptyIsTyped DEF TypeOK, cluster, Places
<1>6. CASE /\ pc' = "deploy" /\ scratch' = s /\ at' = 1
           /\ record' \in {record, run} /\ UNCHANGED run
  BY <1>1, <1>2, <1>4, <1>6, EmptyIsTyped DEF TypeOK, cluster, Places
<1> QED
  BY <1>1, <1>5, <1>6 DEF own, s

LEMMA DeployStopsTyped ==
  ASSUME TypeOK, DeployStops
  PROVE  TypeOK'
<1>1. scratch \in [comps : SUBSET Components, own : Ownership] /\ run # NoRun
  BY DEF DeployStops, TypeOK
<1>2. /\ run' \in Runs /\ record' \in Runs \cup {NoRun} /\ pc' = "idle"
      /\ scratch' = EmptyScratch /\ at' = 1
  BY <1>1, ApplyFailsTyped DEF DeployStops
<1> QED
  BY <1>2, EmptyIsTyped DEF DeployStops, TypeOK, cluster, Places

LEMMA DeployTyped ==
  ASSUME TypeOK, Deploy
  PROVE  TypeOK'
<1>1. PICK ok \in BOOLEAN, made \in BOOLEAN, objects \in SUBSET Objects :
        LET s == Tracked(scratch, at, ok)
        IN  /\ pc = "deploy"
            /\ IF made THEN InstallAs(run.id, ReleaseOf(at), objects) ELSE UNCHANGED cluster
            /\ \/ ApplyFails(s)
               \/ /\ Settle([run EXCEPT !.applied = TRUE, !.comps = s.comps,
                                        !.own = s.own], "later")
                  /\ StepOver
               \/ /\ ~AfterLast(at) /\ scratch' = s /\ at' = at + 1
                  /\ UNCHANGED <<pc, run, record>>
            /\ UNCHANGED <<todo, left, items, stopped, draining, used, lost, crashes>>
  BY DEF Deploy
<1> DEFINE s == Tracked(scratch, at, ok)
<1>2. run # NoRun /\ run \in Runs /\ run.id \in Owners /\ at \in Components
  BY <1>1 DEF TypeOK, Runs
<1>3. s \in [comps : SUBSET Components, own : Ownership]
  BY DEF Tracked, TypeOK
<1>4. /\ installed' \in [Releases -> Holders]
      /\ kept' \in [Hazards -> [Objects -> Holders]]
  <2>1. CASE made
    BY <1>1, <1>2, <2>1, ReleaseTyped, InstallAsTyped
  <2>2. CASE ~made
    BY <1>1, <2>2 DEF cluster, TypeOK
  <2> QED
    BY <2>1, <2>2
<1> HIDE DEF s
<1>5. CASE ApplyFails(s)
  <2>1. /\ run' \in Runs /\ record' \in Runs \cup {NoRun} /\ pc' = "idle"
        /\ scratch' = EmptyScratch /\ at' = 1
    BY <1>2, <1>3, <1>5, ApplyFailsTyped
  <2> QED
    BY <1>1, <1>4, <2>1, EmptyIsTyped DEF TypeOK, Places
<1>6. CASE /\ Settle([run EXCEPT !.applied = TRUE, !.comps = s.comps, !.own = s.own], "later")
           /\ StepOver
  <2>1. [run EXCEPT !.applied = TRUE, !.comps = s.comps, !.own = s.own] \in Runs
    BY <1>2, <1>3 DEF Runs
  <2>2. run' \in Runs /\ record' \in Runs \cup {NoRun} /\ pc' = "later"
    BY <1>6, <2>1 DEF Settle, TypeOK
  <2>3. scratch' = EmptyScratch /\ at' = 1 /\ run' # NoRun
    BY <1>6, <2>2, NoRunIsNoRun DEF StepOver
  <2> QED
    BY <1>1, <1>4, <2>2, <2>3, EmptyIsTyped DEF TypeOK, Places
<1>7. CASE /\ ~AfterLast(at) /\ scratch' = s /\ at' = at + 1
           /\ UNCHANGED <<pc, run, record>>
  <2>1. at' \in Components
    BY <1>2, <1>7, RecipeAssumption DEF AfterLast
  <2> QED
    BY <1>1, <1>3, <1>4, <1>7, <2>1 DEF TypeOK, Places
<1> QED
  BY <1>1, <1>5, <1>6, <1>7 DEF s

LEMMA SettleTyped ==
  ASSUME TypeOK, NEW r \in Runs, NEW next \in Places, Settle(r, next)
  PROVE  run' \in Runs /\ run' # NoRun /\ record' \in Runs \cup {NoRun} /\ pc' \in Places
BY NoRunIsNoRun DEF Settle, TypeOK

LEMMA LaterStepsTyped ==
  ASSUME TypeOK, LaterSteps
  PROVE  TypeOK'
<1>1. PICK s \in {"active", "failed"} : Settle([run EXCEPT !.state = s], "idle")
  BY DEF LaterSteps
<1>2. [run EXCEPT !.state = s] \in Runs /\ "idle" \in Places
  BY DEF LaterSteps, TypeOK, Runs, Places
<1>3. run' \in Runs /\ run' # NoRun /\ record' \in Runs \cup {NoRun} /\ pc' \in Places
  BY <1>1, <1>2, SettleTyped
<1> QED
  BY <1>3 DEF LaterSteps, TypeOK, work, cluster

LEMMA ResetTyped ==
  ASSUME TypeOK, Reset
  PROVE  TypeOK'
<1> DEFINE r == [run EXCEPT !.state = "resetting", !.incomplete = FALSE, !.items = {}]
           f == [r EXCEPT !.state = "failed"]
<1>1. run \in Runs /\ r \in Runs /\ f \in Runs
  BY DEF Reset, TypeOK, Runs
<1>2. run.comps \subseteq Components
  BY <1>1 DEF Runs
<1> QED
  BY <1>1, <1>2, NoRunIsNoRun DEF Reset, Serving, TypeOK, cluster, Places

LEMMA IncompleteTyped ==
  ASSUME TypeOK, run # NoRun, NEW its \in SUBSET ResidueItem, Incomplete(its)
  PROVE  run' \in Runs /\ run' # NoRun /\ record' \in Runs \cup {NoRun} /\ pc' \in Places
<1>1. [run EXCEPT !.state = "failed", !.incomplete = TRUE, !.items = its] \in Runs
  BY DEF TypeOK, Runs
<1>2. "idle" \in Places
  BY DEF Places
<1> QED
  BY <1>1, <1>2, SettleTyped DEF Incomplete

LEMMA TeardownTyped ==
  ASSUME TypeOK, WorkloadAbsent \/ Skip \/ Uninstall \/ Purge \/ ResetEnds \/ DeleteRecord
  PROVE  TypeOK'
<1>1. CASE WorkloadAbsent
  <2>1. CASE Incomplete({})
    <3>1. run' \in Runs /\ run' # NoRun /\ record' \in Runs \cup {NoRun} /\ pc' \in Places
      BY <1>1, <2>1, IncompleteTyped DEF WorkloadAbsent, TypeOK
    <3> QED
      BY <1>1, <3>1 DEF WorkloadAbsent, TypeOK, work, cluster
  <2>2. CASE pc' = "uninstall" /\ UNCHANGED <<run, record>>
    BY <1>1, <2>2 DEF WorkloadAbsent, TypeOK, work, cluster, Places
  <2> QED
    BY <1>1, <2>1, <2>2 DEF WorkloadAbsent
<1>2. CASE Skip
  <2>1. PICK c \in Components : items' = items \cup {Row(c, NoObject, "skipped")}
                               /\ todo' = todo \ {c}
    BY <1>2 DEF Skip
  <2>2. items' \subseteq ResidueItem /\ todo' \subseteq Components
    BY <2>1, RowTyped DEF TypeOK
  <2> QED
    BY <1>2, <2>2 DEF Skip, TypeOK, cluster
<1>3. CASE Uninstall
  <2>1. PICK c \in Components, ok \in BOOLEAN, gone \in BOOLEAN :
          /\ pc = "uninstall"
          /\ installed' = IF gone THEN [installed EXCEPT ![ReleaseOf(c)] = Nobody] ELSE installed
          /\ items' = items \cup {Row(c, NoObject, Outcome(ok))}
          /\ \/ pc' = "purge" /\ left' = Objects /\ UNCHANGED <<todo, stopped>>
             \/ stopped' = draining /\ todo' = todo \ {c} /\ UNCHANGED <<pc, left>>
          /\ UNCHANGED <<run, record, scratch, at, draining, kept, used, lost, crashes>>
    BY <1>3 DEF Uninstall
  <2>2. items' \subseteq ResidueItem
    BY <2>1, RowTyped DEF TypeOK, Outcome
  <2>3. installed' \in [Releases -> Holders]
    BY <2>1 DEF TypeOK
  <2> QED
    BY <2>1, <2>2, <2>3 DEF TypeOK, Places
<1>4. CASE Purge
  <2>1. PICK c \in Hazards, o \in left, ok \in BOOLEAN :
          /\ pc = "purge"
          /\ kept' = IF ok THEN [kept EXCEPT ![c][o] = Nobody] ELSE kept
          /\ items' = items \cup {Row(c, o, Outcome(ok))}
          /\ left' = left \ {o}
          /\ \/ pc' = "uninstall" /\ stopped' = draining /\ todo' = todo \ {c}
             \/ UNCHANGED <<pc, stopped, todo>>
          /\ UNCHANGED <<run, record, scratch, at, draining, installed, used, lost, crashes>>
    BY <1>4 DEF Purge
  <2>2. c \in Components /\ o \in Objects
    BY <2>1, RecipeAssumption DEF TypeOK
  <2>3. items' \subseteq ResidueItem
    BY <2>1, <2>2, RowTyped DEF TypeOK, Outcome
  <2>4. kept' \in [Hazards -> [Objects -> Holders]]
    BY <2>1 DEF TypeOK
  <2> QED
    BY <2>1, <2>2, <2>3, <2>4 DEF TypeOK, Places
<1>5. CASE ResetEnds
  <2>1. run # NoRun /\ run \in Runs /\ items \in SUBSET ResidueItem
    BY <1>5 DEF ResetEnds, TypeOK
  <2>2. run' \in Runs /\ run' # NoRun /\ record' \in Runs \cup {NoRun} /\ pc' \in Places
    <3>1. CASE Incomplete(items)
      BY <2>1, <3>1, IncompleteTyped
    <3>2. CASE Settle([run EXCEPT !.state = "done", !.items = items], "delete")
      <4>1. [run EXCEPT !.state = "done", !.items = items] \in Runs /\ "delete" \in Places
        BY <2>1 DEF Runs, Places
      <4> QED
        BY <3>2, <4>1, SettleTyped
    <3> QED
      BY <1>5, <3>1, <3>2 DEF ResetEnds
  <2> QED
    BY <1>5, <2>2 DEF ResetEnds, TypeOK, cluster
<1>6. CASE DeleteRecord
  BY <1>6 DEF DeleteRecord, TypeOK, work, cluster, Places
<1> QED
  BY <1>1, <1>2, <1>3, <1>4, <1>5, <1>6

LEMMA ProcessTyped ==
  ASSUME TypeOK, CancelAndWait \/ Crash \/ Recover
  PROVE  TypeOK'
<1>1. CASE CancelAndWait
  BY <1>1 DEF CancelAndWait, TypeOK, work, cluster
<1>2. CASE Crash
  <2>1. crashes' \in 0 .. MaxCrashes
    BY <1>2, InstallBounds DEF Crash, TypeOK
  <2>2. lost' \subseteq RunIDs
    BY <1>2 DEF Crash, LosesEvidence, TypeOK, Runs
  <2> QED
    BY <1>2, <2>1, <2>2, EmptyIsTyped DEF Crash, TypeOK, cluster, Places
<1>3. CASE Recover
  <2>1. run' \in Runs \cup {NoRun}
    BY <1>3, RecoveredTyped DEF Recover, TypeOK
  <2> QED
    BY <1>3, <2>1 DEF Recover, TypeOK, work, cluster, Places
<1> QED
  BY <1>1, <1>2, <1>3

LEMMA NextTyped == TypeOK /\ [Next]_vars => TypeOK'
<1>1. TypeOK /\ UNCHANGED vars => TypeOK'
  BY DEF TypeOK, vars
<1> QED
  BY <1>1, OthersTyped, CallsTyped, SnapshotStepTyped, DeployStopsTyped, DeployTyped,
     LaterStepsTyped, ResetTyped, TeardownTyped, ProcessTyped DEF Next

(* TYPE INVARIANT of the run, its record, Apply's copy and the cluster. *)
THEOREM InstallTyped == Spec => []TypeOK
BY InitTyped, NextTyped, PTL DEF Spec

(***************************************************************************)
(* Evidence.  Whatever a run holds as its ownership snapshot, in memory,   *)
(* in the store or in Apply's copy, lists every release somebody else made *)
(* in the namespaces it could read; and a run with components has one.     *)
(***************************************************************************)
Lists(releases, id, own) ==
  own.seen # {} =>
    \A c \in Components :
      releases[ReleaseOf(c)] \notin {id, Nobody} /\ NamespaceOf[c] \notin own.bad
        => ReleaseOf(c) \in own.releases

Sound(releases, r) == Lists(releases, r.id, r.own) /\ (r.comps # {} => r.own.seen # {})

EvidenceOK ==
  /\ run # NoRun => Sound(installed, run)
  /\ record # NoRun => Sound(installed, record)
  /\ run # NoRun /\ record # NoRun => run.id = record.id
  /\ pc = "deploy" => scratch.own.seen # {} /\ Lists(installed, run.id, scratch.own)
  /\ pc \in {"absent", "uninstall", "purge"} => run.comps # {}

LEMMA EvidenceInit == Init => EvidenceOK
BY DEF Init, EvidenceOK

LEMMA EvidenceOthers ==
  ASSUME TypeOK, EvidenceOK, OthersInstall \/ OthersUninstall
  PROVE  EvidenceOK'
BY DEF OthersInstall, OthersUninstall, EvidenceOK, TypeOK, work

LEMMA EvidenceLaunch ==
  ASSUME EvidenceOK, NEW r, Sound(installed, r), Launch(r)
  PROVE  EvidenceOK'
BY DEF EvidenceOK, Launch, cluster

LEMMA EvidenceCalls ==
  ASSUME TypeOK, EvidenceOK, Start \/ Retry \/ Discard \/ Stop
  PROVE  EvidenceOK'
<1>1. CASE Start
  <2>1. PICK id \in RunIDs : Launch(NewRun(id))
    BY <1>1 DEF Start
  <2>2. Sound(installed, NewRun(id))
    BY DEF Sound, Lists, NewRun, NoOwnership
  <2> QED
    BY <2>1, <2>2, EvidenceLaunch
<1>2. CASE Retry
  <2>1. run \in Runs /\ Sound(installed, run)
    BY <1>2 DEF Retry, CanRetry, TypeOK, EvidenceOK
  <2>2. Sound(installed, [run EXCEPT !.state = "running"])
    BY <2>1 DEF Sound, Lists, Runs
  <2> QED
    BY <1>2, <2>2, EvidenceLaunch DEF Retry
<1>3. CASE Discard
  BY <1>3 DEF Discard, Serving, EvidenceOK
<1>4. CASE Stop
  <2> DEFINE r == [run EXCEPT !.state = "done"]
  <2>1. run \in Runs /\ Sound(installed, run)
    BY <1>4 DEF Stop, TypeOK, EvidenceOK
  <2>2. Sound(installed, r) /\ r.id = run.id
    BY <2>1 DEF Sound, Lists, Runs
  <2> HIDE DEF r
  <2>3. run' = r /\ record' \in {record, r} /\ installed' = installed /\ pc' = "idle"
    BY <1>4 DEF Stop, Serving, cluster, r
  <2>4. run # NoRun
    BY <1>4 DEF Stop
  <2> QED
    BY <2>2, <2>3, <2>4 DEF EvidenceOK
<1> QED
  BY <1>1, <1>2, <1>3, <1>4

(* The run settles with the same identity and sound evidence. *)
LEMMA EvidenceSettle ==
  ASSUME EvidenceOK, run # NoRun, NEW r, r.id = run.id, Sound(installed', r),
         record # NoRun => Sound(installed', record),
         NEW next \in {"idle", "later", "delete"}, Settle(r, next)
  PROVE  EvidenceOK'
BY DEF Settle, EvidenceOK

LEMMA EvidenceApplyFails ==
  ASSUME EvidenceOK, run \in Runs, run # NoRun,
         NEW s \in [comps : SUBSET Components, own : Ownership],
         s.own.seen # {}, Lists(installed', run.id, s.own),
         record # NoRun => Sound(installed', record), ApplyFails(s)
  PROVE  EvidenceOK'
<1> DEFINE r == [run EXCEPT !.state = "failed", !.comps = s.comps, !.own = s.own]
<1>1. r.id = run.id /\ Sound(installed', r)
  BY DEF Sound, Runs
<1>2. Settle(r, "idle")
  BY DEF ApplyFails
<1> HIDE DEF r
<1> QED
  BY <1>1, <1>2, EvidenceSettle

LEMMA EvidenceSnapshot ==
  ASSUME TypeOK, EvidenceOK, Snapshot
  PROVE  EvidenceOK'
<1>1. PICK bad \in SUBSET recipeNamespaces :
        LET own == IF FirstAttempt(run.own) THEN snapshotOwnership(bad) ELSE run.own
            s   == [comps |-> run.comps, own |-> own]
        IN  /\ pc = "snapshot"
            /\ \/ ApplyFails(s)
               \/ /\ pc' = "deploy" /\ scratch' = s
                  /\ record' \in {record, run}
                  /\ run' = run
            /\ installed' = installed
  BY DEF Snapshot, cluster
<1> DEFINE own == IF FirstAttempt(run.own) THEN snapshotOwnership(bad) ELSE run.own
           s   == [comps |-> run.comps, own |-> own]
<1>2. run # NoRun /\ run \in Runs /\ Sound(installed, run)
  BY <1>1 DEF TypeOK, EvidenceOK
<1>3. own.seen # {} /\ Lists(installed, run.id, own)
  <2>1. CASE FirstAttempt(run.own)
    <3>1. snapshotOwnership(bad).seen # {}
      BY EmptyIsTyped, ReleaseTyped DEF snapshotOwnership
    <3>2. \A c \in Components :
            installed[ReleaseOf(c)] # Nobody /\ NamespaceOf[c] \notin bad
              => ReleaseOf(c) \in snapshotOwnership(bad).releases
      BY ReleaseTyped DEF snapshotOwnership, ReleaseOf
    <3> QED
      BY <2>1, <3>1, <3>2 DEF Lists, snapshotOwnership
  <2>2. CASE ~FirstAttempt(run.own)
    BY <1>2, <2>2 DEF FirstAttempt, Sound
  <2> QED
    BY <2>1, <2>2
<1>4. s \in [comps : SUBSET Components, own : Ownership] /\ s.own = own
  BY <1>2, SnapshotTyped DEF Runs
<1> HIDE DEF own, s
<1>5. CASE ApplyFails(s)
  BY <1>1, <1>2, <1>3, <1>4, <1>5, EvidenceApplyFails DEF EvidenceOK
<1>6. CASE pc' = "deploy" /\ scratch' = s /\ record' \in {record, run} /\ run' = run
  BY <1>1, <1>2, <1>3, <1>4, <1>6 DEF EvidenceOK
<1> QED
  BY <1>1, <1>5, <1>6 DEF own, s

LEMMA EvidenceDeployStops ==
  ASSUME TypeOK, EvidenceOK, DeployStops
  PROVE  EvidenceOK'
<1>1. /\ run # NoRun /\ run \in Runs /\ installed' = installed
      /\ scratch \in [comps : SUBSET Components, own : Ownership]
      /\ scratch.own.seen # {} /\ Lists(installed, run.id, scratch.own)
      /\ record # NoRun => Sound(installed, record)
  BY DEF DeployStops, TypeOK, EvidenceOK, cluster
<1> QED
  BY <1>1, EvidenceApplyFails DEF DeployStops

(* helm makes what was not there, in this run's name. *)
LEMMA EvidenceDeploy ==
  ASSUME TypeOK, EvidenceOK, Deploy
  PROVE  EvidenceOK'
<1>1. PICK ok \in BOOLEAN, made \in BOOLEAN, objects \in SUBSET Objects :
        LET s == Tracked(scratch, at, ok)
        IN  /\ pc = "deploy"
            /\ IF made THEN InstallAs(run.id, ReleaseOf(at), objects) ELSE UNCHANGED cluster
            /\ \/ ApplyFails(s)
               \/ Settle([run EXCEPT !.applied = TRUE, !.comps = s.comps,
                                     !.own = s.own], "later")
               \/ /\ scratch' = s
                  /\ UNCHANGED <<pc, run, record>>
  BY DEF Deploy
<1> DEFINE s == Tracked(scratch, at, ok)
<1>2. /\ run # NoRun /\ run \in Runs /\ at \in Components
      /\ scratch.own.seen # {} /\ Lists(installed, run.id, scratch.own)
  BY <1>1 DEF TypeOK, EvidenceOK
<1>3. s \in [comps : SUBSET Components, own : Ownership] /\ s.own = scratch.own
  BY DEF Tracked, TypeOK
<1>4. \A r \in Releases : installed'[r] \in {installed[r], run.id, Nobody}
  <2>1. CASE made
    BY <1>1, <2>1 DEF InstallAs, Made, TypeOK
  <2>2. CASE ~made
    BY <1>1, <2>2 DEF cluster
  <2> QED
    BY <2>1, <2>2
<1>5. \A own : Lists(installed, run.id, own) => Lists(installed', run.id, own)
  BY <1>4, ReleaseTyped DEF Lists
<1>6. Sound(installed', run) /\ (record # NoRun => Sound(installed', record))
  BY <1>2, <1>5 DEF Sound, EvidenceOK
<1> HIDE DEF s
<1>7. CASE ApplyFails(s)
  BY <1>2, <1>3, <1>5, <1>6, <1>7, EvidenceApplyFails
<1>8. CASE Settle([run EXCEPT !.applied = TRUE, !.comps = s.comps, !.own = s.own], "later")
  <2> DEFINE r == [run EXCEPT !.applied = TRUE, !.comps = s.comps, !.own = s.own]
  <2>1. r.id = run.id /\ Sound(installed', r)
    BY <1>2, <1>3, <1>5 DEF Sound, Runs
  <2> HIDE DEF r
  <2>2. Settle(r, "later")
    BY <1>8 DEF r
  <2> QED
    BY <1>2, <1>6, <2>1, <2>2, EvidenceSettle
<1>9. CASE scratch' = s /\ UNCHANGED <<pc, run, record>>
  BY <1>1, <1>2, <1>3, <1>5, <1>6, <1>9 DEF EvidenceOK
<1> QED
  BY <1>1, <1>7, <1>8, <1>9 DEF s

LEMMA EvidenceLaterSteps ==
  ASSUME TypeOK, EvidenceOK, LaterSteps
  PROVE  EvidenceOK'
<1>1. PICK s \in {"active", "failed"} : Settle([run EXCEPT !.state = s], "idle")
  BY DEF LaterSteps
<1> DEFINE r == [run EXCEPT !.state = s]
<1>2. /\ run # NoRun /\ r.id = run.id /\ Sound(installed', r)
      /\ record # NoRun => Sound(installed', record)
  BY DEF LaterSteps, TypeOK, EvidenceOK, Runs, Sound, Lists, cluster
<1>3. Settle(r, "idle")
  BY <1>1
<1> HIDE DEF r
<1> QED
  BY <1>2, <1>3, EvidenceSettle

LEMMA EvidenceReset ==
  ASSUME TypeOK, EvidenceOK, Reset
  PROVE  EvidenceOK'
<1> DEFINE r == [run EXCEPT !.state = "resetting", !.incomplete = FALSE, !.items = {}]
           f == [r EXCEPT !.state = "failed"]
<1>1. /\ run # NoRun /\ run \in Runs /\ Sound(installed, run) /\ run.comps # {}
      /\ installed' = installed
  BY DEF Reset, TypeOK, EvidenceOK, cluster
<1>2. /\ Sound(installed, r) /\ r.id = run.id /\ r.comps # {}
      /\ Sound(installed, f) /\ f.id = run.id
  BY <1>1 DEF Sound, Lists, Runs
<1>3. \/ run' = r /\ record' = r /\ pc' = "absent"
      \/ run' = f /\ record' = record /\ pc' = "idle"
  BY DEF Reset, Serving
<1> HIDE DEF r, f
<1> QED
  BY <1>1, <1>2, <1>3 DEF EvidenceOK

LEMMA EvidenceIncomplete ==
  ASSUME TypeOK, EvidenceOK, run # NoRun, NEW its, Incomplete(its),
         \A c \in Components : installed'[ReleaseOf(c)] = installed[ReleaseOf(c)]
  PROVE  EvidenceOK'
<1> DEFINE r == [run EXCEPT !.state = "failed", !.incomplete = TRUE, !.items = its]
<1>1. run \in Runs /\ Sound(installed, run)
  BY DEF TypeOK, EvidenceOK
<1>2. r.id = run.id /\ Sound(installed', r) /\ (record # NoRun => Sound(installed', record))
  BY <1>1 DEF Sound, Lists, Runs, EvidenceOK
<1>3. Settle(r, "idle")
  BY DEF Incomplete
<1> HIDE DEF r
<1> QED
  BY <1>2, <1>3, EvidenceSettle

LEMMA EvidenceTeardown ==
  ASSUME TypeOK, EvidenceOK,
         WorkloadAbsent \/ Skip \/ Uninstall \/ Purge \/ ResetEnds \/ DeleteRecord
  PROVE  EvidenceOK'
<1>1. CASE WorkloadAbsent
  <2>1. run # NoRun /\ installed' = installed
    BY <1>1 DEF WorkloadAbsent, TypeOK, cluster
  <2>2. CASE Incomplete({})
    BY <2>1, <2>2, EvidenceIncomplete
  <2>3. CASE pc' = "uninstall" /\ UNCHANGED <<run, record>>
    BY <1>1, <2>1, <2>3 DEF WorkloadAbsent, EvidenceOK
  <2> QED
    BY <1>1, <2>2, <2>3 DEF WorkloadAbsent
<1>2. CASE Skip
  BY <1>2 DEF Skip, EvidenceOK, cluster
<1>3. CASE Uninstall
  <2>1. PICK c \in Components, gone \in BOOLEAN :
          /\ pc = "uninstall"
          /\ installed' = IF gone THEN [installed EXCEPT ![ReleaseOf(c)] = Nobody] ELSE installed
          /\ pc' \in {"uninstall", "purge"}
          /\ UNCHANGED <<run, record, scratch>>
    BY <1>3 DEF Uninstall
  <2>2. \A r \in Releases : installed'[r] \in {installed[r], Nobody}
    BY <2>1, ReleaseTyped DEF TypeOK
  <2>3. \A id, own : Lists(installed, id, own) => Lists(installed', id, own)
    BY <2>2, ReleaseTyped DEF Lists
  <2>4. \A r : Sound(installed, r) => Sound(installed', r)
    BY <2>3 DEF Sound
  <2> QED
    BY <2>1, <2>4 DEF EvidenceOK
<1>4. CASE Purge
  <2>1. pc = "purge" /\ pc' \in {"uninstall", "purge"} /\ UNCHANGED <<run, record, installed>>
    BY <1>4 DEF Purge
  <2> QED
    BY <2>1 DEF EvidenceOK
<1>5. CASE ResetEnds
  <2>1. run # NoRun /\ installed' = installed
    BY <1>5 DEF ResetEnds, TypeOK, cluster
  <2>2. CASE Incomplete(items)
    BY <2>1, <2>2, EvidenceIncomplete
  <2>3. CASE Settle([run EXCEPT !.state = "done", !.items = items], "delete")
    <3> DEFINE r == [run EXCEPT !.state = "done", !.items = items]
    <3>1. r.id = run.id /\ Sound(installed', r) /\ (record # NoRun => Sound(installed', record))
      BY <2>1 DEF TypeOK, EvidenceOK, Runs, Sound
    <3>2. Settle(r, "delete")
      BY <2>3
    <3> HIDE DEF r
    <3> QED
      BY <2>1, <3>1, <3>2, EvidenceSettle
  <2> QED
    BY <1>5, <2>2, <2>3 DEF ResetEnds
<1>6. CASE DeleteRecord
  BY <1>6 DEF DeleteRecord, EvidenceOK, cluster
<1> QED
  BY <1>1, <1>2, <1>3, <1>4, <1>5, <1>6

LEMMA EvidenceProcess ==
  ASSUME TypeOK, EvidenceOK, CancelAndWait \/ Crash \/ Recover
  PROVE  EvidenceOK'
<1>1. CASE CancelAndWait
  BY <1>1 DEF CancelAndWait, EvidenceOK, work, cluster
<1>2. CASE Crash
  BY <1>2 DEF Crash, EvidenceOK, cluster
<1>3. CASE Recover
  <2>1. record # NoRun => /\ Recovered(record).id = record.id
                          /\ Recovered(record).own = record.own
                          /\ Recovered(record).comps = record.comps
    BY DEF Recovered, Runs, TypeOK
  <2>2. record # NoRun => Sound(installed, Recovered(record))
    BY <2>1 DEF Sound, EvidenceOK
  <2>3. /\ run' = IF record = NoRun THEN NoRun ELSE Recovered(record)
        /\ record' = record /\ installed' = installed /\ pc' = "idle"
    BY <1>3 DEF Recover, cluster
  <2> QED
    BY <2>1, <2>2, <2>3 DEF EvidenceOK
<1> QED
  BY <1>1, <1>2, <1>3

LEMMA EvidenceNext == TypeOK /\ EvidenceOK /\ [Next]_vars => EvidenceOK'
<1>1. EvidenceOK /\ UNCHANGED vars => EvidenceOK'
  BY DEF EvidenceOK, vars
<1> QED
  BY <1>1, EvidenceOthers, EvidenceCalls, EvidenceSnapshot, EvidenceDeployStops,
     EvidenceDeploy, EvidenceLaterSteps, EvidenceReset, EvidenceTeardown, EvidenceProcess
     DEF Next

THEOREM EvidenceHolds == Spec => [](TypeOK /\ EvidenceOK)
BY InitTyped, NextTyped, EvidenceInit, EvidenceNext, PTL DEF Spec

(* Every step of a teardown that removes a release removes one this run made. *)
LEMMA UninstallSpares ==
  ASSUME TypeOK, EvidenceOK, [Next]_vars, pc = "uninstall",
         NEW r \in Releases, Removes(r)
  PROVE  installed[r] = run.id
<1>1. CASE Uninstall
  <2>1. PICK c \in Components :
          /\ ~Unprovable(c) /\ ~Adopted(c)
          /\ r # ReleaseOf(c) => installed'[r] = installed[r]
    BY <1>1, ReleaseTyped DEF Uninstall, TypeOK
  <2>2. r = ReleaseOf(c) /\ installed[r] # Nobody
    BY <2>1 DEF Removes
  <2>3. run.own.seen # {} /\ Lists(installed, run.id, run.own)
    BY DEF EvidenceOK, TypeOK, Sound
  <2> QED
    BY <2>1, <2>2, <2>3 DEF Lists, Unprovable, Adopted
<1>2. CASE ~Uninstall
  <2>1. run # NoRun
    BY DEF TypeOK
  <2>2. installed' = installed
    BY <1>2, <2>1 DEF Next, vars, cluster, OthersInstall, OthersUninstall, Start, Retry,
       CanStart, CanRetry, Launch, Discard, Stop, Reset, Serving, Snapshot, DeployStops,
       Deploy, LaterSteps, WorkloadAbsent, Skip, Purge, ResetEnds, DeleteRecord,
       CancelAndWait, Crash, Recover
  <2> QED
    BY <2>2 DEF Removes
<1> QED
  BY <1>1, <1>2

(* ACTION.  Package teardown removes what one run installed, and nothing else. *)
THEOREM SparesOthersHolds == Spec => SparesOthers
<1>1. TypeOK /\ EvidenceOK /\ [Next]_vars =>
        [pc = "uninstall" => \A r \in Releases : Removes(r) => installed[r] = run.id]_vars
  BY UninstallSpares
<1> QED
  BY <1>1, EvidenceHolds, PTL DEF Spec, SparesOthers

HIDE DEF Components, Releases, Owners, Holders

(***************************************************************************)
(* What a run is known to have made.  All of it is of components its       *)
(* evidence names, and nothing of what it found there is its own, unless   *)
(* an exit of the process destroyed the evidence.                          *)
(***************************************************************************)
(* Every owner in the cluster is a run whose identity has been given out. *)
OwnersOK ==
  /\ \A r \in Releases : installed[r] \in used \cup {Other, Nobody}
  /\ \A h \in Hazards, o \in Objects : kept[h][o] \in used \cup {Other, Nobody}
  /\ run # NoRun => run.id \in used
  /\ record # NoRun => record.id \in used

Whole(releases, objects, id, ev) ==
  /\ \A r \in Releases : releases[r] = id => r[1] \in ev.comps
  /\ \A h \in Hazards, o \in Objects : objects[h][o] = id => h \in ev.comps
  /\ \A r \in ev.own.releases : releases[r] \notin {id, Nobody}

(* The evidence of a run is Apply's copy, then the run, and after an exit its
   record. *)
CompleteOK ==
  /\ run # NoRun /\ run.id \notin lost =>
       Whole(installed, kept, run.id, IF pc = "deploy" THEN scratch ELSE Evidence(run))
  /\ run = NoRun /\ record # NoRun /\ record.id \notin lost =>
       Whole(installed, kept, record.id, Evidence(record))
  /\ pc = "down" => run = NoRun

LEMMA InstallAsMakes ==
  ASSUME TypeOK, NEW who, NEW r \in Releases, NEW objects \in SUBSET Objects,
         InstallAs(who, r, objects)
  PROVE  /\ \A q \in Releases :
              \/ installed'[q] = installed[q]
              \/ q = r /\ installed[q] = Nobody /\ installed'[q] = who
         /\ \A h \in Hazards, o \in Objects :
              \/ kept'[h][o] = kept[h][o]
              \/ h = r[1] /\ kept[h][o] = Nobody /\ kept'[h][o] = who
BY DEF InstallAs, Made, TypeOK

(* Every way the cluster changes. *)
LEMMA ClusterSteps ==
  ASSUME TypeOK, [Next]_vars
  PROVE  \/ UNCHANGED cluster
         \/ /\ run = NoRun /\ record = NoRun /\ UNCHANGED <<pc, run, record, used, lost>>
            /\ \A q \in Releases : installed'[q] \in {installed[q], Other, Nobody}
            /\ \A h \in Hazards, o \in Objects : kept'[h][o] \in {kept[h][o], Other}
         \/ /\ Deploy
            /\ \A q \in Releases :
                 \/ installed'[q] = installed[q]
                 \/ q = ReleaseOf(at) /\ installed[q] = Nobody /\ installed'[q] = run.id
            /\ \A h \in Hazards, o \in Objects :
                 \/ kept'[h][o] = kept[h][o]
                 \/ h = at /\ kept[h][o] = Nobody /\ kept'[h][o] = run.id
         \/ /\ Uninstall /\ UNCHANGED kept
            /\ \E c \in Components :
                 /\ Due(c) /\ ~Adopted(c) /\ ~Unprovable(c)
                 /\ \A q \in Releases :
                      \/ installed'[q] = installed[q]
                      \/ q = ReleaseOf(c) /\ installed'[q] = Nobody
         \/ /\ Purge /\ UNCHANGED installed
            /\ \E c \in Hazards : Due(c) /\ \A h \in Hazards, o \in Objects :
                 kept'[h][o] = kept[h][o] \/ (h = c /\ kept'[h][o] = Nobody)
<1>1. CASE OthersInstall
  <2>1. PICK r \in Foreign : /\ run = NoRun /\ record = NoRun
                             /\ InstallAs(Other, r, Objects)
                             /\ UNCHANGED <<pc, run, record, used, lost>>
    BY <1>1 DEF OthersInstall
  <2>2. r \in Releases /\ Objects \in SUBSET Objects
    BY RecipeAssumption
  <2>3. /\ \A q \in Releases : installed'[q] = installed[q] \/ installed'[q] = Other
        /\ \A h \in Hazards, o \in Objects :
             kept'[h][o] = kept[h][o] \/ kept'[h][o] = Other
    BY <2>1, <2>2, InstallAsMakes
  <2>4. /\ run = NoRun /\ record = NoRun /\ UNCHANGED <<pc, run, record, used, lost>>
        /\ \A q \in Releases : installed'[q] \in {installed[q], Other, Nobody}
        /\ \A h \in Hazards, o \in Objects : kept'[h][o] \in {kept[h][o], Other}
    BY <2>1, <2>3
  <2> QED
    BY <2>4
<1>2. CASE OthersUninstall
  BY <1>2 DEF OthersUninstall, TypeOK
<1>3. CASE Deploy
  <2>1. PICK made \in BOOLEAN, objects \in SUBSET Objects :
          IF made THEN InstallAs(run.id, ReleaseOf(at), objects) ELSE UNCHANGED cluster
    BY <1>3 DEF Deploy
  <2>2. at \in Components /\ ReleaseOf(at) \in Releases /\ ReleaseOf(at)[1] = at
    BY ReleaseTyped DEF TypeOK, ReleaseOf
  <2>3. CASE InstallAs(run.id, ReleaseOf(at), objects)
    BY <1>3, <2>2, <2>3, InstallAsMakes
  <2> QED
    BY <2>1, <2>3
<1>4. CASE Uninstall
  <2>1. PICK c \in Components, gone \in BOOLEAN :
          /\ Due(c) /\ ~Adopted(c) /\ ~Unprovable(c) /\ UNCHANGED kept
          /\ installed' = IF gone THEN [installed EXCEPT ![ReleaseOf(c)] = Nobody]
                                  ELSE installed
    BY <1>4 DEF Uninstall
  <2> QED
    BY <1>4, <2>1, ReleaseTyped DEF TypeOK
<1>5. CASE Purge
  <2>1. PICK c \in Hazards, o \in left, ok \in BOOLEAN :
          /\ Due(c) /\ UNCHANGED installed
          /\ kept' = IF ok THEN [kept EXCEPT ![c][o] = Nobody] ELSE kept
    BY <1>5 DEF Purge
  <2>2. kept \in [Hazards -> [Objects -> Holders]] /\ o \in Objects
    BY DEF TypeOK
  <2> QED
    BY <1>5, <2>1, <2>2
<1>6. CASE ~(OthersInstall \/ OthersUninstall \/ Deploy \/ Uninstall \/ Purge)
  BY <1>6 DEF Next, vars, cluster, Start, Retry, Launch, Discard, Stop, Reset, Snapshot,
     DeployStops, LaterSteps, WorkloadAbsent, Skip, ResetEnds, DeleteRecord, CancelAndWait,
     Crash, Recover
<1> QED
  BY <1>1, <1>2, <1>3, <1>4, <1>5, <1>6

(* Whose record and whose run there is. *)
LEMMA IdentitySteps ==
  ASSUME TypeOK, [Next]_vars
  PROVE  /\ used \subseteq used'
         /\ run' # NoRun => \/ run # NoRun /\ run'.id = run.id
                            \/ record # NoRun /\ run'.id = record.id
                            \/ run'.id \in used'
         /\ record' # NoRun => \/ record # NoRun /\ record'.id = record.id
                               \/ run # NoRun /\ record'.id = run.id
                               \/ record'.id \in used'
<1>1. CASE Start
  BY <1>1 DEF Start, Launch, NewRun
<1>2. CASE Snapshot
  <2>1. PICK s \in [comps : SUBSET Components, own : Ownership] :
          ApplyFails(s) \/ (record' \in {record, run} /\ UNCHANGED run)
    <3>1. PICK bad \in SUBSET recipeNamespaces :
            LET first == FirstAttempt(run.own)
                own   == IF first THEN snapshotOwnership(bad) ELSE run.own
                s     == [comps |-> run.comps, own |-> own]
            IN  ApplyFails(s) \/ (record' \in {record, run} /\ UNCHANGED run)
      BY <1>2 DEF Snapshot
    <3>2. run \in Runs
      BY <1>2 DEF Snapshot, TypeOK
    <3>3. snapshotOwnership(bad) \in Ownership
      BY SnapshotTyped
    <3>4. run.own \in Ownership /\ run.comps \in SUBSET Components
      BY <3>2 DEF Runs
    <3> QED BY <3>1, <3>3, <3>4
  <2>2. run \in Runs /\ run # NoRun
    BY <1>2 DEF Snapshot, TypeOK
  <2>3. UNCHANGED used
    BY <1>2 DEF Snapshot
  <2> QED BY <2>1, <2>2, <2>3 DEF ApplyFails, Settle, Runs
<1>3. CASE DeployStops
  BY <1>3 DEF DeployStops, ApplyFails, Settle, TypeOK, Runs
<1>4. CASE Deploy
  <2>1. run \in Runs /\ run # NoRun
    BY <1>4 DEF Deploy, TypeOK
  <2>2. PICK ok \in BOOLEAN :
          LET s == Tracked(scratch, at, ok)
          IN  \/ ApplyFails(s)
              \/ Settle([run EXCEPT !.applied = TRUE, !.comps = s.comps, !.own = s.own], "later")
              \/ UNCHANGED <<run, record>>
    BY <1>4 DEF Deploy
  <2> DEFINE s == Tracked(scratch, at, ok)
  <2>3. UNCHANGED used
    BY <1>4 DEF Deploy
  <2> HIDE DEF s
  <2>4. /\ run'.id = run.id /\ record' \in {record, run, run'}
    BY <2>1, <2>2 DEF s, ApplyFails, Settle, Runs
  <2> QED BY <2>1, <2>3, <2>4
<1>5. CASE Retry \/ Reset \/ Stop \/ LaterSteps \/ WorkloadAbsent \/ ResetEnds
  <2>1. run \in Runs /\ run # NoRun
    BY <1>5 DEF Retry, CanRetry, Reset, Stop, LaterSteps, WorkloadAbsent, ResetEnds, TypeOK
  <2>2. run'.id = run.id /\ record' \in {record, run'}
    <3>1. CASE Retry
      BY <2>1, <3>1 DEF Retry, Launch, Runs
    <3>2. CASE Reset
      BY <2>1, <3>2 DEF Reset, Runs
    <3>3. CASE Stop \/ LaterSteps
      BY <2>1, <3>3 DEF Stop, LaterSteps, Settle, Runs
    <3>4. CASE WorkloadAbsent \/ ResetEnds
      BY <2>1, <3>4 DEF WorkloadAbsent, ResetEnds, Incomplete, Settle, Runs
    <3> QED BY <1>5, <3>1, <3>2, <3>3, <3>4
  <2>3. UNCHANGED used
    BY <1>5 DEF Retry, Reset, Stop, LaterSteps, WorkloadAbsent, ResetEnds
  <2> QED BY <2>1, <2>2, <2>3
<1>6. CASE Recover
  BY <1>6, RecoveredTyped DEF Recover, TypeOK
<1>7. CASE OthersInstall \/ OthersUninstall \/ Discard \/ Skip \/ Uninstall \/ Purge
           \/ DeleteRecord \/ CancelAndWait \/ Crash \/ UNCHANGED vars
  BY <1>7 DEF OthersInstall, OthersUninstall, Discard, Skip, Uninstall, Purge, DeleteRecord,
     CancelAndWait, Crash, vars
<1> QED
  BY <1>1, <1>2, <1>3, <1>4, <1>5, <1>6, <1>7 DEF Next

LEMMA OwnersInit == Init => OwnersOK
BY DEF Init, OwnersOK

LEMMA OwnersKept ==
  ASSUME TypeOK, OwnersOK, [Next]_vars
  PROVE  OwnersOK'
<1>1. /\ used \subseteq used'
      /\ run' # NoRun => run'.id \in used'
      /\ record' # NoRun => record'.id \in used'
  BY IdentitySteps DEF OwnersOK
<1>2. Deploy => run.id \in used
  BY DEF Deploy, TypeOK, OwnersOK
<1>3. /\ \A r \in Releases : installed'[r] \in used \cup {Other, Nobody}
      /\ \A h \in Hazards, o \in Objects : kept'[h][o] \in used \cup {Other, Nobody}
  BY <1>2, ClusterSteps DEF OwnersOK, cluster
<1> QED
  BY <1>1, <1>3 DEF OwnersOK

(* The evidence goes on being whole while it grows, and what it is about only
   shrinks or is of a component it names. *)
LEMMA WholeKept ==
  ASSUME NEW id, NEW releases, NEW objects, NEW ev, Whole(releases, objects, id, ev),
         NEW releases2, NEW objects2, NEW ev2,
         ev.comps \subseteq ev2.comps, ev2.own = ev.own,
         \A r \in Releases : releases2[r] = id => releases[r] = id \/ r[1] \in ev2.comps,
         \A h \in Hazards, o \in Objects : objects2[h][o] = id =>
           objects[h][o] = id \/ h \in ev2.comps,
         \A r \in ev.own.releases : releases2[r] = releases[r]
  PROVE  Whole(releases2, objects2, id, ev2)
BY DEF Whole

(* Nothing is of a run that has not been. *)
LEMMA UnusedOwnsNothing ==
  ASSUME OwnersOK, NEW id \in RunIDs, id \notin used, NEW ev, ev.own.releases = {}
  PROVE  Whole(installed, kept, id, ev)
BY InstallNulls DEF OwnersOK, Whole, Owners

(* Evidence, as the steps that leave the cluster alone see it. *)
LEMMA CompleteCalls ==
  ASSUME TypeOK, OwnersOK, CompleteOK, Start \/ Retry \/ Discard \/ Stop \/ Reset
  PROVE  CompleteOK'
<1>1. CASE Start
  <2>1. PICK id \in RunIDs \ used : Launch(NewRun(id))
    BY <1>1 DEF Start
  <2>2. Whole(installed, kept, id, Evidence(NewRun(id)))
    BY <2>1, UnusedOwnsNothing DEF Evidence, EmptyScratch, NewRun, NoOwnership
  <2>3. NewRun(id).id = id /\ NewRun(id) # NoRun /\ ~NewRun(id).applied
    <3>1. NewRun(id) \in Runs
      BY EmptyIsTyped DEF NewRun, Runs
    <3> QED BY <3>1, NoRunIsNoRun DEF NewRun
  <2>4. pc' = "snapshot" /\ run' = NewRun(id) /\ UNCHANGED <<installed, kept, lost>>
    BY <2>1, <2>3 DEF Launch, cluster
  <2> QED BY <2>2, <2>3, <2>4 DEF CompleteOK
<1>2. CASE Retry \/ Stop \/ Reset
  <2>1. run \in Runs /\ run # NoRun /\ pc = "idle"
    BY <1>2 DEF Retry, CanRetry, Stop, Reset, Serving, TypeOK
  <2>2. /\ pc' \notin {"deploy", "down"} /\ UNCHANGED <<installed, kept, lost>>
        /\ \/ run' = [run EXCEPT !.state = "running"]
           \/ run' = [run EXCEPT !.state = "done"]
           \/ \E s \in {"resetting", "failed"} :
                run' = [run EXCEPT !.state = s, !.incomplete = FALSE, !.items = {}]
    BY <1>2, <2>1 DEF Retry, Launch, Stop, Reset, cluster
  <2>3. run' \in Runs /\ run'.id = run.id /\ run'.comps = run.comps /\ run'.own = run.own
    BY <2>1, <2>2 DEF Runs
  <2>4. Evidence(run)' = Evidence(run) /\ run' # NoRun
    BY <2>1, <2>3, NoRunIsNoRun DEF Evidence
  <2> QED BY <2>1, <2>2, <2>3, <2>4 DEF CompleteOK
<1>3. CASE Discard
  BY <1>3 DEF Discard, CompleteOK
<1> QED
  BY <1>1, <1>2, <1>3

(* Apply's copy becomes the run's. *)
LEMMA Merges ==
  ASSUME TypeOK, run # NoRun, NEW s \in [comps : SUBSET Components, own : Ownership],
         \/ ApplyFails(s)
         \/ Settle([run EXCEPT !.applied = TRUE, !.comps = s.comps, !.own = s.own], "later")
  PROVE  /\ run' # NoRun /\ run' \in Runs /\ pc' \notin {"deploy", "down"}
         /\ run'.id = run.id /\ run'.items = run.items
         /\ Evidence(run').comps = s.comps /\ Evidence(run').own = s.own
<1>1. run \in Runs
  BY DEF TypeOK
<1>2. /\ run' \in Runs /\ run'.id = run.id /\ run'.comps = s.comps /\ run'.own = s.own
      /\ run'.items = run.items
  <2>1. \/ run' = [run EXCEPT !.state = "failed", !.comps = s.comps, !.own = s.own]
        \/ run' = [run EXCEPT !.applied = TRUE, !.comps = s.comps, !.own = s.own]
    BY DEF ApplyFails, Settle
  <2>2. CASE run' = [run EXCEPT !.state = "failed", !.comps = s.comps, !.own = s.own]
    BY <1>1, <2>2 DEF Runs
  <2>3. CASE run' = [run EXCEPT !.applied = TRUE, !.comps = s.comps, !.own = s.own]
    BY <1>1, <2>3 DEF Runs
  <2> QED BY <2>1, <2>2, <2>3
<1>3. run' # NoRun /\ pc' \notin {"deploy", "down"}
  BY <1>2, NoRunIsNoRun DEF ApplyFails, Settle
<1> QED
  BY <1>2, <1>3 DEF Evidence

(* The pre-Apply snapshot has nothing of the run itself. *)
LEMMA CompleteSnapshot ==
  ASSUME TypeOK, EvidenceOK, CompleteOK, Snapshot
  PROVE  CompleteOK'
<1>1. PICK bad \in SUBSET recipeNamespaces :
        LET first == FirstAttempt(run.own)
            own   == IF first THEN snapshotOwnership(bad) ELSE run.own
            s     == [comps |-> run.comps, own |-> own]
        IN  /\ pc = "snapshot"
            /\ \/ first /\ alreadyInstalled(own) # {} /\ ApplyFails(s)
               \/ /\ pc' = "deploy" /\ scratch' = s /\ at' = 1
                  /\ record' \in {record, run}
                  /\ UNCHANGED run
            /\ UNCHANGED <<installed, kept, lost>>
  BY DEF Snapshot, cluster
<1> DEFINE own == IF FirstAttempt(run.own) THEN snapshotOwnership(bad) ELSE run.own
           s   == [comps |-> run.comps, own |-> own]
<1>2. run # NoRun /\ run \in Runs
  BY <1>1 DEF TypeOK
<1>3. run.id \notin lost => Whole(installed, kept, run.id, s)
  <2>1. CASE FirstAttempt(run.own)
    <3>1. run.comps = {}
      BY <1>2, <2>1 DEF FirstAttempt, EvidenceOK, Sound
    <3>2. \A r \in own.releases : r \in Releases /\ installed[r] # Nobody
      BY <2>1 DEF snapshotOwnership
    <3>3. run.id \notin lost => Whole(installed, kept, run.id, Evidence(run))
      BY <1>1, <1>2 DEF CompleteOK
    <3>4. Evidence(run).comps = {} /\ s.own = own /\ s.comps = {}
      BY <1>2, <3>1 DEF Evidence
    <3> HIDE DEF s, own
    <3> QED BY <3>2, <3>3, <3>4 DEF Whole
  <2>2. CASE ~FirstAttempt(run.own)
    BY <1>1, <1>2, <2>2 DEF CompleteOK, Evidence
  <2> QED BY <2>1, <2>2
<1> HIDE DEF own
<1>4. s \in [comps : SUBSET Components, own : Ownership]
  BY <1>2, SnapshotTyped DEF Runs, own
<1> HIDE DEF s
<1>5. CASE ApplyFails(s)
  <2>1. run.id \notin lost => Whole(installed, kept, run.id, Evidence(run'))
    BY <1>2, <1>3, <1>4, <1>5, Merges DEF Whole
  <2> QED BY <1>1, <1>2, <1>4, <1>5, <2>1, Merges DEF CompleteOK
<1>6. CASE pc' = "deploy" /\ scratch' = s /\ UNCHANGED run
  BY <1>1, <1>2, <1>3, <1>6 DEF CompleteOK
<1> QED
  BY <1>1, <1>5, <1>6 DEF s, own

LEMMA CompleteDeploy ==
  ASSUME TypeOK, CompleteOK, DeployStops \/ Deploy
  PROVE  CompleteOK'
<1>0. /\ run # NoRun /\ run \in Runs /\ at \in Components /\ pc = "deploy"
      /\ scratch \in [comps : SUBSET Components, own : Ownership] /\ UNCHANGED lost
  BY DEF DeployStops, Deploy, TypeOK
<1>1. CASE DeployStops
  <2>1. run.id \notin lost => Whole(installed, kept, run.id, Evidence(run'))
    BY <1>0, <1>1, Merges DEF Whole, CompleteOK, DeployStops
  <2> QED BY <1>0, <1>1, <2>1, Merges DEF CompleteOK, DeployStops, cluster
<1>2. CASE Deploy
  <2>1. PICK ok \in BOOLEAN :
          LET s == Tracked(scratch, at, ok)
          IN  \/ ApplyFails(s)
              \/ Settle([run EXCEPT !.applied = TRUE, !.comps = s.comps, !.own = s.own], "later")
              \/ scratch' = s /\ UNCHANGED <<pc, run, record>>
    BY <1>2 DEF Deploy
  <2> DEFINE s == Tracked(scratch, at, ok)
  <2>2. /\ s \in [comps : SUBSET Components, own : Ownership] /\ s.own = scratch.own
        /\ s.comps = scratch.comps \cup {at}
    BY <1>0 DEF Tracked
  <2> HIDE DEF s
  <2>3. /\ \A q \in Releases :
             \/ installed'[q] = installed[q]
             \/ q = ReleaseOf(at) /\ installed[q] = Nobody /\ installed'[q] = run.id
        /\ \A h \in Hazards, o \in Objects :
             \/ kept'[h][o] = kept[h][o]
             \/ h = at /\ kept[h][o] = Nobody /\ kept'[h][o] = run.id
    <3>1. PICK made \in BOOLEAN, objects \in SUBSET Objects :
            IF made THEN InstallAs(run.id, ReleaseOf(at), objects) ELSE UNCHANGED cluster
      BY <1>2 DEF Deploy
    <3>2. ReleaseOf(at) \in Releases /\ ReleaseOf(at)[1] = at
      BY <1>0, ReleaseTyped DEF ReleaseOf
    <3>3. CASE InstallAs(run.id, ReleaseOf(at), objects)
      BY <3>2, <3>3, InstallAsMakes
    <3>4. CASE UNCHANGED cluster
      BY <3>4 DEF cluster
    <3> QED BY <3>1, <3>3, <3>4
  <2>4. ASSUME run.id \notin lost
        PROVE  Whole(installed', kept', run.id, s)
    <3>1. Whole(installed, kept, run.id, scratch)
      BY <1>0, <2>4 DEF CompleteOK
    <3>2. ReleaseOf(at)[1] = at
      BY DEF ReleaseOf
    <3>3. \A r \in scratch.own.releases : r \in Releases
      BY <1>0 DEF Ownership
    <3>4. \A r \in scratch.own.releases : installed'[r] = installed[r]
      BY <2>3, <3>1, <3>3 DEF Whole
    <3> QED BY <2>2, <2>3, <3>1, <3>2, <3>3, <3>4 DEF Whole
  <2>5. CASE scratch' = s /\ UNCHANGED <<pc, run, record>>
    BY <1>0, <2>4, <2>5 DEF CompleteOK
  <2>6. CASE \/ ApplyFails(s)
             \/ Settle([run EXCEPT !.applied = TRUE, !.comps = s.comps, !.own = s.own], "later")
    <3>1. run.id \notin lost => Whole(installed', kept', run.id, Evidence(run'))
      BY <1>0, <2>2, <2>4, <2>6, Merges DEF Whole
    <3> QED BY <1>0, <2>2, <2>6, <3>1, Merges DEF CompleteOK
  <2> QED BY <2>1, <2>5, <2>6 DEF s
<1> QED
  BY <1>1, <1>2

(* A teardown removes, and never what was there before. *)
LEMMA CompleteTeardown ==
  ASSUME TypeOK, CompleteOK, Uninstall \/ Purge
  PROVE  CompleteOK'
<1>0. /\ run # NoRun /\ run \in Runs /\ pc \in {"uninstall", "purge"}
      /\ pc' \in {"uninstall", "purge"} /\ UNCHANGED <<run, lost>>
  BY DEF Uninstall, Purge, TypeOK
<1>1. ASSUME run.id \notin lost
      PROVE  Whole(installed', kept', run.id, Evidence(run))
  <2>1. Whole(installed, kept, run.id, Evidence(run))
    BY <1>0, <1>1 DEF CompleteOK
  <2>2. run.id \in RunIDs /\ run.id # Nobody
    BY <1>0, InstallNulls DEF Runs, Owners
  <2>3. \A h \in Hazards, o \in Objects : kept'[h][o] \in {kept[h][o], Nobody}
    <3>1. CASE Uninstall
      BY <3>1 DEF Uninstall
    <3>2. CASE Purge
      BY <3>2 DEF Purge, TypeOK
    <3> QED BY <3>1, <3>2
  <2>4. \A r \in Releases : \/ installed'[r] = installed[r]
                            \/ installed'[r] = Nobody /\ r \notin run.own.releases
    <3>1. CASE Uninstall
      <4>1. PICK c \in Components, gone \in BOOLEAN :
              /\ ~Adopted(c)
              /\ installed' = IF gone THEN [installed EXCEPT ![ReleaseOf(c)] = Nobody]
                                      ELSE installed
        BY <3>1 DEF Uninstall
      <4> QED BY <4>1, ReleaseTyped DEF TypeOK, Adopted
    <3>2. CASE Purge
      BY <3>2 DEF Purge
    <3> QED BY <3>1, <3>2
  <2>5. run.own.releases \subseteq Releases /\ Evidence(run).own = run.own
    BY <1>0 DEF Runs, Ownership, Evidence
  <2> QED BY <2>1, <2>2, <2>3, <2>4, <2>5 DEF Whole
<1> QED
  BY <1>0, <1>1 DEF CompleteOK

(* The other steps of a goroutine change neither the cluster nor the evidence. *)
LEMMA CompleteOthers ==
  ASSUME TypeOK, CompleteOK,
         \/ LaterSteps \/ WorkloadAbsent \/ Skip \/ ResetEnds \/ DeleteRecord
         \/ OthersInstall \/ OthersUninstall \/ CancelAndWait
  PROVE  CompleteOK'
<1>1. CASE LaterSteps \/ WorkloadAbsent \/ Skip \/ ResetEnds \/ DeleteRecord
  <2>1. /\ run # NoRun /\ run \in Runs /\ pc # "deploy" /\ pc' \notin {"deploy", "down"}
        /\ UNCHANGED <<installed, kept, lost>>
    BY <1>1 DEF LaterSteps, WorkloadAbsent, Skip, ResetEnds, DeleteRecord, Incomplete, Settle,
       cluster, TypeOK
  <2>2. \/ UNCHANGED run
        \/ \E s \in {"active", "failed"} : run' = [run EXCEPT !.state = s]
        \/ \E its \in {{}, items} :
             \/ run' = [run EXCEPT !.state = "failed", !.incomplete = TRUE, !.items = its]
             \/ run' = [run EXCEPT !.state = "done", !.items = its]
    BY <1>1 DEF LaterSteps, WorkloadAbsent, Skip, ResetEnds, DeleteRecord, Incomplete, Settle
  <2>3. items \in SUBSET ResidueItem
    BY DEF TypeOK
  <2>4. run' \in Runs /\ run'.id = run.id /\ run'.comps = run.comps /\ run'.own = run.own
    <3>1. CASE UNCHANGED run \/ \E s \in {"active", "failed"} : run' = [run EXCEPT !.state = s]
      BY <2>1, <3>1 DEF Runs
    <3>2. ASSUME NEW its \in SUBSET ResidueItem,
                 \/ run' = [run EXCEPT !.state = "failed", !.incomplete = TRUE, !.items = its]
                 \/ run' = [run EXCEPT !.state = "done", !.items = its]
          PROVE  run' \in Runs /\ run'.id = run.id /\ run'.comps = run.comps
                 /\ run'.own = run.own
      BY <2>1, <3>2 DEF Runs
    <3> QED BY <2>2, <2>3, <3>1, <3>2
  <2>5. Evidence(run') = Evidence(run) /\ run' # NoRun
    BY <2>1, <2>4, NoRunIsNoRun DEF Evidence
  <2> QED BY <2>1, <2>4, <2>5 DEF CompleteOK
<1>2. CASE OthersInstall \/ OthersUninstall
  BY <1>2 DEF OthersInstall, OthersUninstall, CompleteOK
<1>3. CASE CancelAndWait
  BY <1>3 DEF CancelAndWait, CompleteOK, cluster, work
<1> QED
  BY <1>1, <1>2, <1>3

(* An exit keeps the evidence that is in the record. *)
LEMMA CompleteProcess ==
  ASSUME TypeOK, EvidenceOK, CompleteOK, Crash \/ Recover
  PROVE  CompleteOK'
<1>1. CASE Crash
  <2>1. /\ run' = NoRun /\ UNCHANGED <<record, installed, kept>>
        /\ lost' = IF LosesEvidence THEN lost \cup {run.id} ELSE lost
    BY <1>1 DEF Crash, cluster
  <2>2. CASE run = NoRun
    BY <2>1, <2>2 DEF CompleteOK, LosesEvidence
  <2>3. CASE run # NoRun
    <3> SUFFICES ASSUME record # NoRun, record.id \notin lost'
                 PROVE  Whole(installed, kept, record.id, Evidence(record))
      BY <2>1 DEF CompleteOK
    <3>1. run.id = record.id
      BY <2>3 DEF EvidenceOK
    <3>2. ~LosesEvidence /\ run.id \notin lost
      BY <2>1, <3>1
    <3>3. Evidence(record) = IF pc = "deploy" THEN scratch ELSE Evidence(run)
      BY <2>3, <3>2 DEF LosesEvidence
    <3> QED BY <2>3, <3>1, <3>2, <3>3 DEF CompleteOK
  <2> QED BY <2>2, <2>3
<1>2. CASE Recover
  <2>1. /\ pc' = "idle" /\ UNCHANGED <<record, installed, kept, lost>>
        /\ run' = IF record = NoRun THEN NoRun ELSE Recovered(record)
    BY <1>2 DEF Recover, cluster
  <2>2. record # NoRun =>
          /\ Recovered(record) \in Runs /\ Recovered(record).id = record.id
          /\ Evidence(Recovered(record)) = Evidence(record)
    <3> SUFFICES ASSUME record # NoRun
                 PROVE  /\ Recovered(record) \in Runs /\ Recovered(record).id = record.id
                        /\ Evidence(Recovered(record)) = Evidence(record)
      OBVIOUS
    <3>1. record \in Runs
      BY DEF TypeOK
    <3>2. /\ Recovered(record) \in Runs /\ Recovered(record).id = record.id
          /\ Recovered(record).own = record.own
      BY <3>1, RecoveredTyped
    <3>3. Recovered(record).comps = record.comps
      BY <3>1 DEF Recovered, Runs
    <3> QED BY <3>2, <3>3, NoRunIsNoRun DEF Evidence
  <2>3. pc = "down"
    BY <1>2 DEF Recover
  <2>4. run = NoRun
    BY <2>3 DEF CompleteOK
  <2> QED BY <2>1, <2>2, <2>4, NoRunIsNoRun DEF CompleteOK
<1> QED
  BY <1>1, <1>2

LEMMA CompleteKept ==
  ASSUME TypeOK, EvidenceOK, OwnersOK, CompleteOK, [Next]_vars
  PROVE  CompleteOK'
<1>1. CASE UNCHANGED vars
  BY <1>1 DEF vars, CompleteOK
<1> QED
  BY <1>1, CompleteCalls, CompleteSnapshot, CompleteDeploy, CompleteTeardown, CompleteOthers,
     CompleteProcess DEF Next

(***************************************************************************)
(* What a teardown tells, while it is under way and once it has ended.     *)
(***************************************************************************)
(* What an inventory says of component c of run `id'; a teardown that was not
   cut short also answers for the objects. *)
Told(its, releases, objects, id, c, whole) ==
  \E i \in its :
    /\ i.comp = c /\ i.object = NoObject
    /\ releases[ReleaseOf(c)] = id => i.result # "removed"
    /\ i.result = "removed" /\ c \in Hazards /\ whole =>
         \A o \in Objects : objects[c][o] = Nobody

(* Nothing provable of component c is left of run `id'. *)
Gone(releases, objects, id, own, c) ==
  \/ NamespaceOf[c] \in own.bad
  \/ /\ releases[ReleaseOf(c)] # id
     /\ c \in Hazards /\ ReleaseOf(c) \notin own.releases =>
          \A o \in Objects : objects[c][o] # id

(* A run with an inventory has ended its teardown, and is not taken up again. *)
Ended(releases, objects, gone, r) ==
  r.items # {} =>
    /\ r.state = "done" \/ (r.state = "failed" /\ r.incomplete)
    /\ \A c \in r.comps : Told(r.items, releases, objects, r.id, c, r.state = "done")
    /\ r.state = "done" /\ r.id \notin gone =>
         \A c \in Components : Gone(releases, objects, r.id, r.own, c)

EndedOK ==
  /\ run # NoRun => Ended(installed, kept, lost, run)
  /\ record # NoRun => Ended(installed, kept, lost, record)
  /\ run # NoRun /\ run.items # {} => pc \in {"idle", "delete"}
  /\ record # NoRun /\ record.items # {} => pc \in {"idle", "delete", "down"}

(* One under way has dealt with every component it no longer has to do. *)
UnderwayOK ==
  /\ stopped => draining
  /\ pc = "absent" => todo = run.comps /\ items = {}
  /\ pc \in {"uninstall", "purge"} =>
       /\ todo \subseteq run.comps
       /\ \A c \in run.comps \ todo :
            /\ Told(items, installed, kept, run.id, c, ~Interrupted(items))
            /\ ~Interrupted(items) /\ run.id \notin lost =>
                 Gone(installed, kept, run.id, run.own, c)

(* A purge follows the removal it is told of. *)
PurgingOK ==
  pc = "purge" =>
    \A c \in Components : Due(c) =>
      /\ c \in Hazards /\ installed[ReleaseOf(c)] = Nobody
      /\ Row(c, NoObject, "removed") \in items
      /\ \A o \in Objects \ left :
           kept[c][o] = Nobody \/ Row(c, o, "failed") \in items

(***************************************************************************)
(* What is told of a cluster stays true while the cluster shrinks.         *)
(***************************************************************************)
Shrinks == /\ \A r \in Releases : installed'[r] \in {installed[r], Nobody}
           /\ \A h \in Hazards, o \in Objects : kept'[h][o] \in {kept[h][o], Nobody}

LEMMA TeardownShrinks ==
  ASSUME TypeOK, UNCHANGED cluster \/ Uninstall \/ Purge
  PROVE  Shrinks
<1>1. CASE UNCHANGED cluster
  BY <1>1 DEF cluster, Shrinks
<1>2. CASE Uninstall
  BY <1>2, ReleaseTyped DEF Uninstall, Shrinks, TypeOK
<1>3. CASE Purge
  BY <1>3 DEF Purge, Shrinks, TypeOK
<1> QED
  BY <1>1, <1>2, <1>3

LEMMA ToldStays ==
  ASSUME Shrinks, NEW its, NEW more, its \subseteq more,
         NEW id \in RunIDs, NEW c \in Components,
         NEW whole \in BOOLEAN, NEW part \in BOOLEAN, part => whole,
         Told(its, installed, kept, id, c, whole)
  PROVE  Told(more, installed', kept', id, c, part)
BY InstallNulls, ReleaseTyped DEF Told, Shrinks, Owners

LEMMA GoneStays ==
  ASSUME Shrinks, NEW id \in RunIDs, NEW own, NEW c \in Components,
         Gone(installed, kept, id, own, c)
  PROVE  Gone(installed', kept', id, own, c)
BY InstallNulls, ReleaseTyped DEF Gone, Shrinks, Owners

LEMMA EndedStays ==
  ASSUME UNCHANGED cluster, NEW r, NEW s, Ended(installed, kept, lost, r), lost \subseteq lost',
         s.items = r.items, s.id = r.id, s.comps = r.comps, s.own = r.own,
         s.state = r.state, s.incomplete = r.incomplete
  PROVE  Ended(installed', kept', lost', s)
BY DEF cluster, Ended

(* The steps that leave no inventory. *)
LEMMA EndedEmpty ==
  ASSUME run' # NoRun => run'.items = {}, record' # NoRun => record'.items = {}
  PROVE  EndedOK'
BY DEF EndedOK, Ended

LEMMA EndedCalls ==
  ASSUME TypeOK, EndedOK, Start \/ Retry \/ Discard \/ Stop \/ Reset
  PROVE  EndedOK'
<1>1. CASE Start
  <2>1. PICK id \in RunIDs : Launch(NewRun(id))
    BY <1>1 DEF Start
  <2> QED BY <2>1, EndedEmpty DEF Launch, NewRun
<1>2. CASE Retry
  <2>1. run \in Runs /\ run # NoRun /\ run.state = "failed" /\ ~run.incomplete
    BY <1>2 DEF Retry, CanRetry, TypeOK
  <2>2. run.items = {}
    BY <2>1 DEF EndedOK, Ended
  <2>3. run' = [run EXCEPT !.state = "running"] /\ record' = run'
    BY <1>2 DEF Retry, Launch
  <2>4. run'.items = {}
    BY <2>1, <2>2, <2>3 DEF Runs
  <2> QED BY <2>3, <2>4, EndedEmpty
<1>3. CASE Discard
  BY <1>3, EndedEmpty DEF Discard
<1>4. CASE Stop \/ Reset
  <2>1. /\ run \in Runs /\ run # NoRun /\ pc = "idle" /\ UNCHANGED <<installed, kept, lost>>
        /\ record' \in {record, run'} /\ (pc' # "idle" => record' = run')
    BY <1>4 DEF Stop, Reset, Serving, TypeOK, cluster
  <2>2. run'.items = {}
    <3>1. CASE Stop
      <4>1. run.items = {}
        BY <2>1, <3>1 DEF Stop, EndedOK, Ended
      <4>2. run' = [run EXCEPT !.state = "done"]
        BY <3>1 DEF Stop
      <4> QED BY <2>1, <4>1, <4>2 DEF Runs
    <3>2. CASE Reset
      BY <2>1, <3>2 DEF Reset, Runs
    <3> QED BY <1>4, <3>1, <3>2
  <2> QED BY <2>1, <2>2 DEF EndedOK, Ended
<1> QED
  BY <1>1, <1>2, <1>3, <1>4

(* No inventory is there while a goroutine is at work. *)
LEMMA NoneAtWork ==
  ASSUME TypeOK, EndedOK, pc \notin {"idle", "delete", "down"}
  PROVE  /\ run # NoRun /\ run \in Runs /\ run.items = {}
         /\ record # NoRun => record.items = {}
BY DEF EndedOK, TypeOK

LEMMA EndedWork ==
  ASSUME TypeOK, EndedOK,
         \/ Snapshot \/ DeployStops \/ Deploy \/ LaterSteps
         \/ WorkloadAbsent \/ Skip \/ Uninstall \/ Purge
  PROVE  EndedOK'
<1>0. /\ run # NoRun /\ run \in Runs /\ run.items = {}
      /\ record # NoRun => record.items = {}
  BY NoneAtWork DEF Snapshot, DeployStops, Deploy, LaterSteps, WorkloadAbsent, Skip,
     Uninstall, Purge
<1>1. /\ record' \in {record, run, run'}
      /\ \/ UNCHANGED run
         \/ \E s : ApplyFails(s)
         \/ \E comps, own : run' = [run EXCEPT !.applied = TRUE, !.comps = comps, !.own = own]
         \/ \E s \in {"active", "failed"} : run' = [run EXCEPT !.state = s]
         \/ run' = [run EXCEPT !.state = "failed", !.incomplete = TRUE, !.items = {}]
  <2>1. CASE Snapshot
    <3>1. \E s : ApplyFails(s) \/ (record' \in {record, run} /\ UNCHANGED run)
      BY <2>1 DEF Snapshot
    <3> QED BY <3>1 DEF ApplyFails, Settle
  <2>2. CASE DeployStops
    BY <2>2 DEF DeployStops, ApplyFails, Settle
  <2>3. CASE Deploy
    <3>1. \E s : \/ ApplyFails(s)
                 \/ Settle([run EXCEPT !.applied = TRUE, !.comps = s.comps, !.own = s.own], "later")
                 \/ UNCHANGED <<run, record>>
      BY <2>3 DEF Deploy
    <3> QED BY <3>1 DEF ApplyFails, Settle
  <2>4. CASE LaterSteps \/ WorkloadAbsent
    BY <2>4 DEF LaterSteps, WorkloadAbsent, Incomplete, Settle
  <2>5. CASE Skip \/ Uninstall \/ Purge
    BY <2>5 DEF Skip, Uninstall, Purge
  <2> QED BY <2>1, <2>2, <2>3, <2>4, <2>5
<1>2. run'.items = {}
  BY <1>0, <1>1 DEF ApplyFails, Settle, Runs
<1> QED
  BY <1>0, <1>1, <1>2, EndedEmpty

(* A teardown that ends has dealt with all of its components, and there was
   nothing else. *)
LEMMA EndedReset ==
  ASSUME TypeOK, CompleteOK, EndedOK, UnderwayOK, ResetEnds
  PROVE  EndedOK'
<1>0. /\ run # NoRun /\ run \in Runs
      /\ record # NoRun => record.items = {}
      /\ pc = "uninstall" /\ todo = {} /\ UNCHANGED <<installed, kept, lost>>
  BY NoneAtWork DEF ResetEnds, cluster
<1>1. items \in SUBSET ResidueItem
  BY DEF TypeOK
<1>2. /\ run'.items = items /\ run'.id = run.id /\ run'.comps = run.comps /\ run'.own = run.own
      /\ \/ run'.state = "failed" /\ run'.incomplete
         \/ run'.state = "done" /\ ~Interrupted(items)
      /\ record' \in {record, run'} /\ pc' \in {"idle", "delete"}
  <2>1. CASE Incomplete(items)
    BY <1>0, <2>1 DEF Incomplete, Settle, Runs
  <2>2. CASE Settle([run EXCEPT !.state = "done", !.items = items], "delete")
             /\ ~Interrupted(items)
    BY <1>0, <2>2 DEF Settle, Runs
  <2> QED BY <2>1, <2>2 DEF ResetEnds
<1>3. \A c \in run.comps : /\ Told(items, installed, kept, run.id, c, ~Interrupted(items))
                           /\ ~Interrupted(items) /\ run.id \notin lost =>
                                Gone(installed, kept, run.id, run.own, c)
  BY <1>0 DEF UnderwayOK
<1>4. \A c \in run.comps : Told(items, installed, kept, run.id, c, run'.state = "done")
  BY <1>2, <1>3 DEF Told
<1>5. ASSUME run'.state = "done", run.id \notin lost, NEW c \in Components
      PROVE  Gone(installed, kept, run.id, run.own, c)
  <2>1. CASE c \in run.comps
    BY <1>2, <1>3, <1>5, <2>1
  <2>2. CASE c \notin run.comps
    <3>1. Whole(installed, kept, run.id, Evidence(run))
      BY <1>0, <1>5 DEF CompleteOK
    <3>2. Evidence(run).comps = run.comps /\ ReleaseOf(c) \in Releases /\ ReleaseOf(c)[1] = c
      BY <1>0, ReleaseTyped DEF Evidence, ReleaseOf
    <3> QED BY <2>2, <3>1, <3>2 DEF Whole, Gone
  <2> QED BY <2>1, <2>2
<1>6. Ended(installed, kept, lost, run')
  BY <1>2, <1>4, <1>5 DEF Ended
<1> QED
  BY <1>0, <1>2, <1>6 DEF EndedOK, Ended

LEMMA EndedProcess ==
  ASSUME TypeOK, EndedOK,
         OthersInstall \/ OthersUninstall \/ DeleteRecord \/ CancelAndWait \/ Crash \/ Recover
  PROVE  EndedOK'
<1>1. CASE OthersInstall \/ OthersUninstall
  BY <1>1, EndedEmpty DEF OthersInstall, OthersUninstall
<1>2. CASE DeleteRecord \/ CancelAndWait
  BY <1>2 DEF DeleteRecord, CancelAndWait, EndedOK, cluster
<1>3. CASE Crash
  BY <1>3, EndedStays DEF Crash, EndedOK
<1>4. CASE Recover
  <2>1. CASE record = NoRun
    BY <1>4, <2>1, EndedEmpty DEF Recover
  <2>2. CASE record # NoRun
    <3>1. /\ record \in Runs /\ run' = Recovered(record) /\ pc' = "idle"
          /\ UNCHANGED <<record, installed, kept, lost>>
      BY <1>4, <2>2 DEF Recover, TypeOK, cluster
    <3>2. /\ run'.items = record.items /\ run'.id = record.id /\ run'.comps = record.comps
          /\ run'.own = record.own
          /\ record.state = "done" => run' = record
          /\ record.state = "failed" /\ record.incomplete =>
               run'.state = "failed" /\ run'.incomplete
      BY <3>1 DEF Recovered, Runs
    <3>3. Ended(installed, kept, lost, record)
      BY <2>2 DEF EndedOK
    <3>4. Ended(installed, kept, lost, run')
      BY <3>2, <3>3 DEF Ended
    <3> QED BY <2>2, <3>1, <3>3, <3>4 DEF EndedOK
  <2> QED BY <2>1, <2>2
<1> QED
  BY <1>1, <1>2, <1>3, <1>4

LEMMA EndedKept ==
  ASSUME TypeOK, CompleteOK, EndedOK, UnderwayOK, [Next]_vars
  PROVE  EndedOK'
<1>1. CASE UNCHANGED vars
  BY <1>1 DEF vars, EndedOK
<1> QED
  BY <1>1, EndedCalls, EndedWork, EndedReset, EndedProcess DEF Next

(* The steps outside a teardown's loop. *)
LEMMA UnderwayOthers ==
  ASSUME TypeOK, EvidenceOK, UnderwayOK, PurgingOK,
         \/ Start \/ Retry \/ Discard \/ Stop \/ Reset \/ OthersInstall \/ OthersUninstall
         \/ Snapshot \/ DeployStops \/ Deploy \/ LaterSteps
         \/ WorkloadAbsent \/ ResetEnds \/ DeleteRecord \/ CancelAndWait \/ Crash \/ Recover
         \/ UNCHANGED vars
  PROVE  UnderwayOK' /\ PurgingOK'
<1>1. CASE Start \/ Retry
  <2>1. pc' \in {"later", "snapshot"} /\ UNCHANGED <<stopped, draining>>
    BY <1>1 DEF Start, Retry, Launch, work
  <2> QED BY <2>1 DEF UnderwayOK, PurgingOK
<1>2. CASE Reset
  <2>1. \/ /\ pc' = "absent" /\ todo' = run.comps /\ items' = {} /\ stopped' = FALSE
           /\ run' = [run EXCEPT !.state = "resetting", !.incomplete = FALSE, !.items = {}]
        \/ pc' = "idle" /\ UNCHANGED <<stopped, draining>>
    BY <1>2 DEF Reset, Serving
  <2>2. run \in Runs
    BY <1>2 DEF Reset, TypeOK
  <2>3. run' = [run EXCEPT !.state = "resetting", !.incomplete = FALSE, !.items = {}]
          => run'.comps = run.comps
    BY <2>2 DEF Runs
  <2> QED BY <2>1, <2>3 DEF UnderwayOK, PurgingOK
<1>3. CASE Discard \/ Stop \/ DeleteRecord \/ Crash \/ Recover
  <2>1. pc' \in {"idle", "down"} /\ (UNCHANGED <<stopped, draining>> \/ stopped' = FALSE)
    BY <1>3 DEF Discard, Stop, Serving, DeleteRecord, Crash, Recover, work
  <2> QED BY <2>1 DEF UnderwayOK, PurgingOK
<1>4. CASE Snapshot \/ DeployStops \/ Deploy \/ LaterSteps
  <2>1. pc' \in {"idle", "deploy", "later"} /\ UNCHANGED <<stopped, draining>>
    <3>1. CASE Snapshot
      BY <3>1 DEF Snapshot, ApplyFails, Settle
    <3>2. CASE DeployStops \/ LaterSteps
      BY <3>2 DEF DeployStops, LaterSteps, ApplyFails, Settle, work
    <3>3. CASE Deploy
      BY <3>3 DEF Deploy, ApplyFails, Settle
    <3> QED BY <1>4, <3>1, <3>2, <3>3
  <2> QED BY <2>1 DEF UnderwayOK, PurgingOK
<1>5. CASE WorkloadAbsent
  <2>1. CASE pc' = "uninstall" /\ UNCHANGED <<run, record>>
    BY <1>5, <2>1 DEF WorkloadAbsent, UnderwayOK, PurgingOK, work
  <2>2. CASE Incomplete({})
    BY <1>5, <2>2 DEF WorkloadAbsent, Incomplete, Settle, UnderwayOK, PurgingOK, work
  <2> QED BY <1>5, <2>1, <2>2 DEF WorkloadAbsent
<1>6. CASE ResetEnds
  <2>1. pc' \in {"idle", "delete"} /\ stopped' = FALSE
    BY <1>6 DEF ResetEnds, Incomplete, Settle
  <2> QED BY <2>1 DEF UnderwayOK, PurgingOK
<1>7. CASE OthersInstall \/ OthersUninstall
  <2>1. run = NoRun /\ UNCHANGED <<pc, stopped, draining>>
    BY <1>7 DEF OthersInstall, OthersUninstall, work
  <2> QED BY <2>1 DEF UnderwayOK, PurgingOK, TypeOK
<1>8. CASE CancelAndWait
  <2>1. /\ draining' = TRUE
        /\ UNCHANGED <<pc, run, record, todo, left, items, stopped, installed, kept, lost>>
    BY <1>8 DEF CancelAndWait, work, cluster
  <2>2. Interrupted(items)'
    BY <2>1 DEF Interrupted
  <2>3. ASSUME pc \in {"uninstall", "purge"}, NEW c \in run.comps \ todo
        PROVE  Told(items', installed', kept', run'.id, c, ~Interrupted(items)')
    <3>1. Told(items, installed, kept, run.id, c, ~Interrupted(items))
      BY <2>3 DEF UnderwayOK
    <3> QED BY <2>1, <2>2, <3>1 DEF Told
  <2>4. UnderwayOK'
    BY <2>1, <2>2, <2>3 DEF UnderwayOK
  <2> QED BY <2>1, <2>4 DEF PurgingOK, Due
<1>9. CASE UNCHANGED vars
  BY <1>9 DEF vars, UnderwayOK, PurgingOK, Due, Interrupted
<1> QED
  BY <1>1, <1>2, <1>3, <1>4, <1>5, <1>6, <1>7, <1>8, <1>9

LEMMA DueIsOne ==
  ASSUME TypeOK, NEW c \in Components, Due(c), NEW d \in Components, Due(d)
  PROVE  c = d
<1>1. c \in Nat /\ d \in Nat /\ c <= d /\ d <= c
  BY RecipeAssumption DEF Due, Components
<1> QED
  BY <1>1

(* One component of the loop: it is dealt with now or later. *)
LEMMA UnderwayLoop ==
  ASSUME TypeOK, UnderwayOK, pc \in {"uninstall", "purge"}, Shrinks,
         UNCHANGED <<run, lost, draining>>, items \subseteq items', stopped' => draining,
         pc' # "absent", NEW c \in todo,
         \/ todo' = todo
         \/ /\ todo' = todo \ {c}
            /\ Told(items', installed', kept', run.id, c, ~Interrupted(items)')
            /\ ~Interrupted(items)' /\ run.id \notin lost =>
                 Gone(installed', kept', run.id, run.own, c)
  PROVE  UnderwayOK'
<1>1. /\ run # NoRun /\ run.id \in RunIDs /\ run.comps \subseteq Components
      /\ todo \subseteq run.comps
  BY DEF TypeOK, Runs, UnderwayOK
<1>2. Interrupted(items) => Interrupted(items)'
  BY DEF Interrupted
<1>3. ASSUME NEW d \in run.comps \ todo
      PROVE  /\ Told(items', installed', kept', run.id, d, ~Interrupted(items)')
             /\ ~Interrupted(items)' /\ run.id \notin lost =>
                  Gone(installed', kept', run.id, run.own, d)
  <2>1. /\ Told(items, installed, kept, run.id, d, ~Interrupted(items))
        /\ ~Interrupted(items) /\ run.id \notin lost => Gone(installed, kept, run.id, run.own, d)
    BY DEF UnderwayOK
  <2>2. Told(items', installed', kept', run.id, d, ~Interrupted(items)')
    BY <1>1, <1>2, <2>1, InstallNulls, ReleaseTyped DEF Told, Shrinks, Owners
  <2>3. ~Interrupted(items)' /\ run.id \notin lost =>
          Gone(installed', kept', run.id, run.own, d)
    BY <1>1, <1>2, <2>1, InstallNulls, ReleaseTyped DEF Gone, Shrinks, Owners
  <2> QED BY <2>2, <2>3
<1> QED
  BY <1>1, <1>3 DEF UnderwayOK

LEMMA SkipDeals ==
  ASSUME TypeOK, CompleteOK, UnderwayOK, PurgingOK, Skip
  PROVE  UnderwayOK' /\ PurgingOK'
<1>1. PICK c \in Components :
        /\ pc = "uninstall" /\ Due(c)
        /\ stopped \/ Unprovable(c) \/ Adopted(c)
        /\ items' = items \cup {Row(c, NoObject, "skipped")}
        /\ todo' = todo \ {c}
        /\ UNCHANGED <<pc, run, stopped, draining, installed, kept, lost>>
  BY DEF Skip, cluster
<1>2. Shrinks
  BY <1>1, TeardownShrinks DEF cluster
<1>3. run # NoRun /\ run \in Runs
  BY <1>1 DEF TypeOK
<1>4. Told(items', installed', kept', run.id, c, ~Interrupted(items)')
  <2> DEFINE i == Row(c, NoObject, "skipped")
  <2>1. i.comp = c /\ i.object = NoObject /\ i.result = "skipped"
    BY DEF Row
  <2>2. i \in items'
    BY <1>1
  <2> HIDE DEF i
  <2> QED BY <2>1, <2>2 DEF Told
<1>5. ASSUME ~Interrupted(items)', run.id \notin lost
      PROVE  Gone(installed', kept', run.id, run.own, c)
  <2>1. Unprovable(c) \/ Adopted(c)
    BY <1>1, <1>5 DEF Interrupted, UnderwayOK
  <2>2. CASE Unprovable(c)
    BY <2>2 DEF Unprovable, Gone
  <2>3. CASE Adopted(c)
    <3>1. Whole(installed, kept, run.id, Evidence(run)) /\ Evidence(run).own = run.own
      BY <1>1, <1>3, <1>5 DEF CompleteOK, Evidence
    <3> QED BY <1>1, <2>3, <3>1 DEF Whole, Adopted, Gone
  <2> QED BY <2>1, <2>2, <2>3
<1>6. /\ todo' = todo \ {c} /\ c \in todo /\ pc' = "uninstall" /\ (stopped' => draining)
      /\ items \subseteq items' /\ UNCHANGED <<run, lost, draining>>
  BY <1>1 DEF Due, UnderwayOK
<1>7. ~Interrupted(items)' /\ run.id \notin lost =>
        Gone(installed', kept', run.id, run.own, c)
  BY <1>5
<1>8. UnderwayOK'
  BY <1>1, <1>2, <1>4, <1>6, <1>7, UnderwayLoop
<1> QED
  BY <1>1, <1>8 DEF PurgingOK

LEMMA UninstallDeals ==
  ASSUME TypeOK, UnderwayOK, PurgingOK, Uninstall
  PROVE  UnderwayOK' /\ PurgingOK'
<1>1. PICK c \in Components, ok \in BOOLEAN, gone \in BOOLEAN :
        /\ pc = "uninstall" /\ Due(c) /\ ~stopped
        /\ ok => gone
        /\ installed' = IF gone THEN [installed EXCEPT ![ReleaseOf(c)] = Nobody] ELSE installed
        /\ items' = items \cup {Row(c, NoObject, Outcome(ok))}
        /\ \/ /\ ok /\ c \in Hazards /\ ~draining
              /\ pc' = "purge" /\ left' = Objects /\ UNCHANGED <<todo, stopped>>
           \/ /\ ~(ok /\ c \in Hazards) \/ draining
              /\ stopped' = draining /\ todo' = todo \ {c} /\ UNCHANGED pc
        /\ UNCHANGED <<run, draining, kept, lost>>
  BY DEF Uninstall, Purges
<1>2. Shrinks
  BY TeardownShrinks
<1>3. /\ run # NoRun /\ run \in Runs /\ run.id \in RunIDs /\ run.id # Nobody
  BY <1>1, InstallNulls DEF TypeOK, Runs, Owners
<1>4. ok => installed'[ReleaseOf(c)] = Nobody
  BY <1>1, ReleaseTyped DEF TypeOK
<1>5. Row(c, NoObject, Outcome(ok)) \in items' /\ (~ok => Interrupted(items)')
  <2>1. Row(c, NoObject, Outcome(ok)) \in items'
    BY <1>1
  <2>2. ~ok => Row(c, NoObject, Outcome(ok)).result = "failed"
    BY DEF Row, Outcome
  <2> QED BY <2>1, <2>2 DEF Interrupted
<1>6. CASE ~(ok /\ c \in Hazards) \/ draining
  <2>1. Told(items', installed', kept', run.id, c, ~Interrupted(items)')
    <3> DEFINE i == Row(c, NoObject, Outcome(ok))
    <3>1. i.comp = c /\ i.object = NoObject /\ (i.result = "removed" <=> ok)
      BY DEF Row, Outcome
    <3>2. c \in Hazards /\ ok => Interrupted(items)'
      BY <1>1, <1>6 DEF Interrupted
    <3> HIDE DEF i
    <3> QED BY <1>3, <1>4, <1>5, <3>1, <3>2 DEF Told, i
  <2>2. ~Interrupted(items)' => Gone(installed', kept', run.id, run.own, c)
    <3>1. ~Interrupted(items)' => ok /\ c \notin Hazards
      BY <1>1, <1>5, <1>6 DEF Interrupted
    <3> QED BY <1>3, <1>4, <3>1 DEF Gone
  <2>3. /\ todo' = todo \ {c} /\ c \in todo /\ pc' = "uninstall" /\ (stopped' => draining)
    BY <1>1, <1>6 DEF Due
  <2>4. UnderwayOK'
    BY <1>1, <1>2, <2>1, <2>2, <2>3, UnderwayLoop
  <2> QED BY <2>3, <2>4 DEF PurgingOK
<1>7. CASE ok /\ c \in Hazards /\ ~draining
  <2>1. /\ pc' = "purge" /\ left' = Objects /\ UNCHANGED <<todo, stopped>> /\ c \in todo
    BY <1>1, <1>7 DEF Due
  <2>2. UnderwayOK'
    BY <1>1, <1>2, <2>1, UnderwayLoop DEF UnderwayOK
  <2>3. \A d \in Components : Due(d)' => d = c
    BY <1>1, <2>1, DueIsOne DEF Due
  <2>4. Row(c, NoObject, "removed") \in items'
    BY <1>5, <1>7 DEF Outcome
  <2> QED BY <1>4, <1>7, <2>1, <2>2, <2>3, <2>4 DEF PurgingOK
<1> QED
  BY <1>6, <1>7

LEMMA PurgeDeals ==
  ASSUME TypeOK, UnderwayOK, PurgingOK, Purge
  PROVE  UnderwayOK' /\ PurgingOK'
<1>1. PICK c \in Hazards, o \in left, ok \in BOOLEAN :
        /\ pc = "purge" /\ Due(c)
        /\ kept' = IF ok THEN [kept EXCEPT ![c][o] = Nobody] ELSE kept
        /\ items' = items \cup {Row(c, o, Outcome(ok))}
        /\ left' = left \ {o}
        /\ IF left' = {} \/ draining
             THEN pc' = "uninstall" /\ stopped' = draining /\ todo' = todo \ {c}
             ELSE UNCHANGED <<pc, stopped, todo>>
        /\ UNCHANGED <<run, draining, installed, lost>>
  BY DEF Purge
<1>2. Shrinks
  BY TeardownShrinks
<1>3. /\ run # NoRun /\ run.id \in RunIDs /\ run.id # Nobody /\ c \in Components /\ c \in todo
  BY <1>1, InstallNulls, RecipeAssumption DEF TypeOK, Runs, Owners, Due
<1>4. /\ installed[ReleaseOf(c)] = Nobody /\ Row(c, NoObject, "removed") \in items
      /\ \A p \in Objects \ left : kept[c][p] = Nobody \/ Row(c, p, "failed") \in items
  BY <1>1, <1>3 DEF PurgingOK
<1>5. \A p \in Objects \ left' : kept'[c][p] = Nobody \/ Row(c, p, "failed") \in items'
  <2> SUFFICES ASSUME NEW p \in Objects, p \notin left'
               PROVE  kept'[c][p] = Nobody \/ Row(c, p, "failed") \in items'
    OBVIOUS
  <2>1. CASE p = o
    BY <1>1, <2>1 DEF Outcome, TypeOK
  <2>2. CASE p # o
    <3>1. kept[c][p] = Nobody \/ Row(c, p, "failed") \in items
      BY <1>1, <1>4, <2>2
    <3> QED BY <1>1, <1>2, <3>1 DEF Shrinks
  <2> QED BY <2>1, <2>2
<1>6. CASE left' = {} \/ draining
  <2>1. ~Interrupted(items)' => \A p \in Objects : kept'[c][p] = Nobody
    <3> SUFFICES ASSUME ~Interrupted(items)', NEW p \in Objects
                 PROVE  kept'[c][p] = Nobody
      OBVIOUS
    <3>1. left' = {}
      BY <1>1, <1>6 DEF Interrupted
    <3>2. Row(c, p, "failed").result = "failed"
      BY DEF Row
    <3> QED BY <1>5, <3>1, <3>2 DEF Interrupted
  <2>2. Told(items', installed', kept', run.id, c, ~Interrupted(items)')
    <3> DEFINE i == Row(c, NoObject, "removed")
    <3>1. i \in items' /\ i.comp = c /\ i.object = NoObject
      BY <1>1, <1>4 DEF Row
    <3>2. installed'[ReleaseOf(c)] # run.id
      BY <1>1, <1>3, <1>4
    <3> HIDE DEF i
    <3> QED BY <2>1, <3>1, <3>2 DEF Told
  <2>3. ~Interrupted(items)' => Gone(installed', kept', run.id, run.own, c)
    BY <1>1, <1>3, <1>4, <2>1 DEF Gone
  <2>4. todo' = todo \ {c} /\ pc' = "uninstall" /\ (stopped' => draining)
    BY <1>1, <1>6
  <2>5. UnderwayOK'
    BY <1>1, <1>2, <1>3, <2>2, <2>3, <2>4, UnderwayLoop
  <2> QED BY <2>4, <2>5 DEF PurgingOK
<1>7. CASE ~(left' = {} \/ draining)
  <2>1. UNCHANGED <<pc, stopped, todo>>
    BY <1>1, <1>7
  <2>2. UnderwayOK'
    BY <1>1, <1>2, <1>3, <2>1, UnderwayLoop DEF UnderwayOK
  <2>3. \A d \in Components : Due(d)' => d = c
    BY <1>1, <1>3, <2>1, DueIsOne DEF Due
  <2> QED BY <1>1, <1>4, <1>5, <2>2, <2>3 DEF PurgingOK
<1> QED
  BY <1>6, <1>7

(***************************************************************************)
(* What the runs check, for every recipe.                                  *)
(***************************************************************************)
TeardownInv == TypeOK /\ EvidenceOK /\ OwnersOK /\ CompleteOK /\ EndedOK /\ UnderwayOK /\ PurgingOK

LEMMA InitTeardown == Init => TeardownInv
<1> SUFFICES ASSUME Init PROVE TeardownInv
  OBVIOUS
<1>1. CompleteOK /\ EndedOK /\ UnderwayOK /\ PurgingOK
  BY DEF Init, CompleteOK, EndedOK, UnderwayOK, PurgingOK
<1> QED
  BY <1>1, InitTyped, EvidenceInit, OwnersInit DEF TeardownInv

LEMMA NextTeardown == TeardownInv /\ [Next]_vars => TeardownInv'
<1> SUFFICES ASSUME TeardownInv, [Next]_vars PROVE TeardownInv'
  OBVIOUS
<1> USE DEF TeardownInv
<1>1. UnderwayOK' /\ PurgingOK'
  BY UnderwayOthers, SkipDeals, UninstallDeals, PurgeDeals DEF Next
<1> QED
  BY <1>1, NextTyped, EvidenceNext, OwnersKept, CompleteKept, EndedKept

LEMMA TeardownHolds == Spec => []TeardownInv
BY InitTeardown, NextTeardown, PTL DEF Spec

(* The inventory of an ended teardown lists every component of the run, lists
   none as removed whose release is still there, and a reset that is done has
   removed the objects of those it lists (reset.go's recordResidue). *)
THEOREM InventoryHonestHolds == Spec => []InventoryHonest
<1>1. TeardownInv => InventoryHonest
  BY DEF TeardownInv, EndedOK, Ended, Told, InventoryHonest
<1> QED
  BY <1>1, TeardownHolds, PTL

(* A reset that ends as done has removed everything provable that the run made,
   for a run whose evidence no exit of the process destroyed: the snapshot is
   taken once, and merged even by a step that fails. *)
THEOREM CleanMeansRemovedHolds == Spec => []CleanMeansRemoved
<1>1. TeardownInv => CleanMeansRemoved
  <2> SUFFICES ASSUME TeardownInv, ResetClean, run.id \notin lost
               PROVE  LeftBehind(run.id) = {}
    BY DEF CleanMeansRemoved
  <2>1. \A c \in Components : Gone(installed, kept, run.id, run.own, c)
    BY DEF TeardownInv, EndedOK, Ended, ResetClean
  <2> QED BY <2>1 DEF LeftBehind, Gone, Unprovable, Adopted
<1> QED
  BY <1>1, TeardownHolds, PTL

(* ACTION.  An object is purged only once the release it belongs to is gone, so
   that no controller brings it back (purge.go's confirmed uninstall). *)
THEOREM PurgeFollowsRemovalHolds == Spec => PurgeFollowsRemoval
<1>1. TeardownInv /\ [Next]_vars =>
        [\A h \in Hazards, o \in Objects :
           kept[h][o] # Nobody /\ kept'[h][o] = Nobody => installed[ReleaseOf(h)] = Nobody]_vars
  <2> SUFFICES ASSUME TeardownInv, [Next]_vars, NEW h \in Hazards, NEW o \in Objects,
                      kept[h][o] # Nobody, kept'[h][o] = Nobody
               PROVE  installed[ReleaseOf(h)] = Nobody
    OBVIOUS
  <2> USE DEF TeardownInv
  <2>1. Other # Nobody /\ (run # NoRun => run.id # Nobody) /\ h \in Components
    BY InstallNulls, RecipeAssumption DEF Owners, TypeOK, Runs
  <2>2. Deploy => run # NoRun
    BY DEF Deploy, TypeOK
  <2>3. Purge /\ Due(h)
    BY <2>1, <2>2, ClusterSteps DEF cluster
  <2> QED BY <2>1, <2>3 DEF Purge, PurgingOK
<1> QED
  BY <1>1, TeardownHolds, PTL DEF Spec, PurgeFollowsRemoval
=============================================================================
