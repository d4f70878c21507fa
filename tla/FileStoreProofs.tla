-------------------------- MODULE FileStoreProofs --------------------------
(***************************************************************************)
(* The two-file store implements RunStore, its locks exclude what they     *)
(* must, and LoadCurrent reports a dangling pointer only after a torn      *)
(* Delete: for every set of runs, record contents and callers.             *)
(***************************************************************************)
EXTENDS FileStore, TLAPS

(* What a call in progress knows of the two files, which its lock keeps still:
   between the two writes of a Save the record is there, between the two
   removals of a Delete it is not, and a reader still sees the same pointer. *)
CallOK(c) ==
  /\ call[c].op = "point" => file[call[c].run.id] = call[c].run
  /\ call[c].op = "unpoint" => current = call[c].id /\ file[current] = NoRun
  /\ call[c].op = "read" => current = call[c].id

(* The pointer names no record only while, or after, a Delete removes both. *)
DanglingExplained ==
  current # NoID /\ file[current] = NoRun
    => torn \/ \E c \in Callers : call[c].op = "unpoint"

IInv == /\ TypeOK
        /\ LocksHeld
        /\ \A c \in Callers : CallOK(c)
        /\ DanglingExplained
        /\ DanglingMeansTorn

(* The shapes of a call. *)
LEMMA CallShapes ==
  ASSUME NEW k \in Calls
  PROVE  /\ k.op \in {"idle", "save", "point", "delete", "unpoint", "read"}
         /\ k.op = "idle" => k = Idle
         /\ k.op \in {"save", "point"} => k.run \in Records /\ k.run.id \in RunIDs
         /\ k.op \in {"unpoint", "read"} => k.id \in RunIDs
BY DEF Calls, Idle, Saving, Pointing, Removing, Reading, Records

LEMMA CallsMade ==
  /\ Idle \in Calls /\ Idle.op = "idle"
  /\ [op |-> "delete"] \in Calls
  /\ \A r \in Records : /\ Saving(r) \in Calls /\ Saving(r).op = "save"
                        /\ Pointing(r) \in Calls /\ Pointing(r).op = "point"
                        /\ Pointing(r).run = r /\ r.id \in RunIDs
                        /\ r # NoRun /\ r # Missing
  /\ \A i \in RunIDs : /\ Removing(i) \in Calls /\ Removing(i).op = "unpoint"
                       /\ Reading(i) \in Calls /\ Reading(i).op = "read"
                       /\ Removing(i).id = i /\ Reading(i).id = i /\ i # NoID
BY StoreAssumption DEF Calls, Idle, Saving, Pointing, Removing, Reading, Records

LEMMA InitIInv == Init => IInv
<1> SUFFICES ASSUME Init PROVE IInv
  OBVIOUS
<1>1. TypeOK
  <2>1. file \in [RunIDs -> Records \cup {NoRun}] /\ seen \in [Callers -> Answers]
    BY DEF Init, Answers
  <2>2. call \in [Callers -> Calls]
    BY CallsMade DEF Init
  <2>3. ops \in 0 .. MaxOps
    BY StoreAssumption DEF Init
  <2> QED BY <2>1, <2>2, <2>3 DEF Init, TypeOK
<1>2. \A c \in Callers : call[c].op = "idle" /\ seen[c] = NoRun
  BY CallsMade DEF Init
<1>3. LocksHeld /\ \A c \in Callers : CallOK(c)
  BY <1>2 DEF Init, LocksHeld, CallOK
<1>4. DanglingExplained /\ DanglingMeansTorn
  BY <1>2, StoreAssumption DEF Init, DanglingExplained, DanglingMeansTorn
<1> QED
  BY <1>1, <1>3, <1>4 DEF IInv

(* What taking the lock amounts to: nobody was inside the store. *)
LEMMA LockKeeps ==
  ASSUME IInv, NEW c \in Callers, NEW k \in Calls, k.op \in {"save", "delete"},
         Lock(c, k), UNCHANGED <<file, current, readers, seen, torn>>
  PROVE  IInv'
<1> USE DEF IInv, Lock
<1>1. call[c].op = "idle" /\ mu = "free" /\ mu' = c /\ readers = {}
  BY CallsMade
<1>2. /\ call' \in [Callers -> Calls] /\ call'[c] = k
      /\ \A d \in Callers : d # c => call'[d] = call[d]
  BY DEF TypeOK
<1>3. ops' \in 0 .. MaxOps
  BY StoreAssumption DEF TypeOK
<1>4. TypeOK'
  BY <1>1, <1>2, <1>3 DEF TypeOK
<1>5. LocksHeld'
  BY <1>1, <1>2, StoreAssumption DEF LocksHeld
<1>6. \A d \in Callers : CallOK(d)'
  BY <1>2 DEF CallOK
<1>7. DanglingExplained' /\ DanglingMeansTorn'
  BY <1>1, <1>2 DEF DanglingExplained, DanglingMeansTorn
<1> QED
  BY <1>4, <1>5, <1>6, <1>7

LEMMA NextIInv == IInv /\ [Next]_vars => IInv'
<1> SUFFICES ASSUME IInv, [Next]_vars PROVE IInv'
  OBVIOUS
<1> USE StoreAssumption DEF IInv
<1>1. ASSUME NEW c \in Callers, SaveBegin(c) PROVE IInv'
  <2>1. PICK r \in Records : Lock(c, Saving(r))
    BY <1>1 DEF SaveBegin
  <2> QED BY <1>1, <2>1, CallsMade, LockKeeps DEF SaveBegin
<1>2. ASSUME NEW c \in Callers, DeleteBegin(c) PROVE IInv'
  <2>1. [op |-> "delete"].op = "delete"
    OBVIOUS
  <2> QED BY <1>2, <2>1, CallsMade, LockKeeps DEF DeleteBegin
(* A writer's step: it is alone in the store. *)
<1>3. ASSUME NEW c \in Callers, mu = c,
             NEW k \in Calls, call' = [call EXCEPT ![c] = k],
             \/ k = Idle /\ mu' = "free"
             \/ k.op \in {"point", "unpoint"} /\ mu' = mu,
             file' \in [RunIDs -> Records \cup {NoRun}],
             current' \in RunIDs \cup {NoID}, torn' \in BOOLEAN, torn => torn',
             CallOK(c)',
             DanglingExplained',
             UNCHANGED <<readers, seen, ops>>
      PROVE  IInv'
  <2>1. /\ readers = {} /\ mu # "free"
        /\ \A d \in Callers : d # c => call[d].op = "idle"
    <3>1. mu # "free" /\ readers = {}
      BY <1>3 DEF LocksHeld
    <3>2. \A d \in Callers : call[d] \in Calls
      BY DEF TypeOK
    <3> QED BY <1>3, <3>1, <3>2, CallShapes DEF LocksHeld
  <2>2. /\ call' \in [Callers -> Calls] /\ call'[c] = k
        /\ \A d \in Callers : d # c => call'[d] = call[d]
    BY <1>3 DEF TypeOK
  <2>3. TypeOK'
    BY <1>3, <2>2 DEF TypeOK
  <2>4. LocksHeld'
    BY <1>3, <2>1, <2>2, CallsMade DEF LocksHeld
  <2>5. \A d \in Callers : CallOK(d)'
    BY <1>3, <2>1, <2>2 DEF CallOK
  <2>6. DanglingMeansTorn'
    BY <1>3 DEF DanglingMeansTorn
  <2> QED BY <1>3, <2>3, <2>4, <2>5, <2>6
<1>4. ASSUME NEW c \in Callers, WriteRecord(c) PROVE IInv'
  <2> DEFINE r == call[c].run
  <2>1. r \in Records /\ r.id \in RunIDs /\ mu = c /\ call[c].op = "save" /\ r # NoRun
    BY <1>4, CallShapes, CallsMade DEF WriteRecord, TypeOK, LocksHeld
  <2>2. ASSUME file' = [file EXCEPT ![r.id] = r], call' = [call EXCEPT ![c] = Pointing(r)],
               UNCHANGED mu
        PROVE  IInv'
    <3> HIDE DEF r
    <3>1. file' \in [RunIDs -> Records \cup {NoRun}] /\ file'[r.id] = r
      BY <2>1, <2>2 DEF TypeOK
    <3>2. call'[c] = Pointing(r) /\ \A d \in Callers : d # c => call'[d] = call[d]
      BY <2>2 DEF TypeOK
    <3>3. CallOK(c)'
      BY <2>1, <3>1, <3>2, CallsMade DEF CallOK
    <3>4. UNCHANGED <<current, readers, seen, torn, ops>>
      BY <1>4 DEF WriteRecord
    <3>5. DanglingExplained'
      BY <2>1, <2>2, <3>2, <3>4 DEF DanglingExplained, TypeOK
    <3>6. Pointing(r) \in Calls /\ Pointing(r).op = "point"
      BY <2>1, CallsMade
    <3> QED BY <1>3, <2>1, <2>2, <3>1, <3>3, <3>4, <3>5, <3>6 DEF TypeOK
  <2>3. ASSUME Unlock(c), UNCHANGED file PROVE IInv'
    <3>1. /\ mu' = "free" /\ call' = [call EXCEPT ![c] = Idle] /\ call'[c] = Idle
          /\ \A d \in Callers : d # c => call'[d] = call[d]
          /\ UNCHANGED <<file, current, readers, seen, torn, ops>>
      BY <1>4, <2>3 DEF WriteRecord, Unlock, TypeOK
    <3>2. CallOK(c)'
      BY <3>1, CallsMade DEF CallOK
    <3>3. DanglingExplained'
      BY <2>1, <3>1 DEF DanglingExplained
    <3> QED BY <1>3, <2>1, <3>1, <3>2, <3>3, CallsMade DEF TypeOK
  <2> QED BY <1>4, <2>2, <2>3 DEF WriteRecord
<1>5. ASSUME NEW c \in Callers, WritePointer(c) PROVE IInv'
  <2> DEFINE r == call[c].run
  <2>1. /\ r \in Records /\ r.id \in RunIDs /\ mu = c /\ call[c].op = "point"
        /\ file[r.id] = r /\ r # NoRun
    BY <1>5, CallShapes, CallsMade DEF WritePointer, TypeOK, LocksHeld, CallOK
  <2>2. /\ mu' = "free" /\ call' = [call EXCEPT ![c] = Idle] /\ call'[c] = Idle
        /\ \A d \in Callers : d # c => call'[d] = call[d]
        /\ UNCHANGED <<file, readers, seen, torn, ops>>
        /\ (current' = r.id \/ UNCHANGED current)
    BY <1>5 DEF WritePointer, Unlock, TypeOK
  <2> HIDE DEF r
  <2>3. CallOK(c)'
    BY <2>2, CallsMade DEF CallOK
  <2>4. DanglingExplained'
    BY <2>1, <2>2 DEF DanglingExplained
  <2>5. /\ file' \in [RunIDs -> Records \cup {NoRun}]
        /\ current' \in RunIDs \cup {NoID} /\ torn' \in BOOLEAN /\ (torn => torn')
    BY <2>1, <2>2 DEF TypeOK
  <2>6. Idle \in Calls
    BY CallsMade
  <2> QED BY <1>3, <2>1, <2>2, <2>3, <2>4, <2>5, <2>6
<1>6. ASSUME NEW c \in Callers, RemoveRecord(c) PROVE IInv'
  <2>1. mu = c /\ call[c].op = "delete"
    BY <1>6 DEF RemoveRecord, LocksHeld
  <2>2. ASSUME current # NoID, file' = [file EXCEPT ![current] = NoRun],
               call' = [call EXCEPT ![c] = Removing(current)], UNCHANGED mu
        PROVE  IInv'
    <3>1. current \in RunIDs
      BY <2>2 DEF TypeOK
    <3>2. file' \in [RunIDs -> Records \cup {NoRun}] /\ file'[current] = NoRun
      BY <2>2, <3>1 DEF TypeOK
    <3>3. call'[c] = Removing(current) /\ UNCHANGED <<current, readers, seen, torn, ops>>
      BY <1>6, <2>2 DEF RemoveRecord, TypeOK
    <3>4. CallOK(c)' /\ DanglingExplained'
      BY <3>1, <3>2, <3>3, CallsMade DEF CallOK, DanglingExplained
    <3>5. Removing(current) \in Calls /\ Removing(current).op = "unpoint"
      BY <3>1, CallsMade
    <3> QED BY <1>3, <2>1, <2>2, <3>2, <3>3, <3>4, <3>5 DEF TypeOK
  <2>3. ASSUME Unlock(c), UNCHANGED file PROVE IInv'
    <3>1. /\ mu' = "free" /\ call' = [call EXCEPT ![c] = Idle] /\ call'[c] = Idle
          /\ \A d \in Callers : d # c => call'[d] = call[d]
          /\ UNCHANGED <<file, current, readers, seen, torn, ops>>
      BY <1>6, <2>3 DEF RemoveRecord, Unlock, TypeOK
    <3>2. CallOK(c)'
      BY <3>1, CallsMade DEF CallOK
    <3>3. DanglingExplained'
      BY <2>1, <3>1 DEF DanglingExplained
    <3> QED BY <1>3, <2>1, <3>1, <3>2, <3>3, CallsMade DEF TypeOK
  <2> QED BY <1>6, <2>2, <2>3 DEF RemoveRecord
<1>7. ASSUME NEW c \in Callers, RemovePointer(c) PROVE IInv'
  <2>1. mu = c /\ call[c].op = "unpoint"
    BY <1>7 DEF RemovePointer, LocksHeld
  <2>2. /\ mu' = "free" /\ call' = [call EXCEPT ![c] = Idle] /\ call'[c] = Idle
        /\ UNCHANGED <<file, readers, seen, ops>>
        /\ torn' \in BOOLEAN /\ (torn => torn')
        /\ \/ current' = NoID
           \/ torn' = TRUE /\ UNCHANGED current
    BY <1>7 DEF RemovePointer, Unlock, TypeOK
  <2>3. CallOK(c)'
    BY <2>2, CallsMade DEF CallOK
  <2>4. DanglingExplained'
    BY <2>2 DEF DanglingExplained
  <2>5. /\ file' \in [RunIDs -> Records \cup {NoRun}]
        /\ current' \in RunIDs \cup {NoID}
    BY <2>2 DEF TypeOK
  <2>6. Idle \in Calls
    BY CallsMade
  <2> QED BY <1>3, <2>1, <2>2, <2>3, <2>4, <2>5, <2>6
<1>8. ASSUME NEW c \in Callers, ReadPointer(c) PROVE IInv'
  <2>1. /\ mu = "free" /\ call[c].op = "idle" /\ ops' \in 0 .. MaxOps
        /\ UNCHANGED <<file, current, mu, torn>>
    BY <1>8, CallsMade DEF ReadPointer, TypeOK
  <2>2. CASE current = NoID
    <3>1. /\ UNCHANGED <<call, readers>> /\ seen' = [seen EXCEPT ![c] = NoRun]
      BY <1>8, <2>2 DEF ReadPointer
    <3>2. TypeOK' /\ LocksHeld'
      BY <2>1, <3>1 DEF TypeOK, LocksHeld, Answers
    <3>3. (\A d \in Callers : CallOK(d)') /\ DanglingExplained'
      BY <2>1, <3>1 DEF CallOK, DanglingExplained
    <3>4. DanglingMeansTorn'
      BY <2>1, <3>1 DEF DanglingMeansTorn, TypeOK
    <3> QED BY <3>2, <3>3, <3>4
  <2>3. CASE current # NoID
    <3>1. /\ call' = [call EXCEPT ![c] = Reading(current)]
          /\ readers' = readers \cup {c} /\ UNCHANGED seen
      BY <1>8, <2>3 DEF ReadPointer
    <3>2. /\ call'[c] = Reading(current) /\ Reading(current) \in Calls
          /\ Reading(current).op = "read" /\ Reading(current).id = current
          /\ call' \in [Callers -> Calls]
          /\ \A d \in Callers : d # c => call'[d] = call[d]
      BY <2>3, <3>1, CallsMade DEF TypeOK
    <3>3. TypeOK' /\ LocksHeld'
      BY <2>1, <3>1, <3>2 DEF TypeOK, LocksHeld
    <3>4. (\A d \in Callers : CallOK(d)') /\ DanglingExplained' /\ DanglingMeansTorn'
      BY <2>1, <3>1, <3>2 DEF CallOK, DanglingExplained, DanglingMeansTorn
    <3> QED BY <3>3, <3>4
  <2> QED BY <2>2, <2>3
<1>9. ASSUME NEW c \in Callers, ReadRecord(c) PROVE IInv'
  <2>1. /\ call[c].op = "read" /\ call[c].id \in RunIDs /\ call[c].id = current
        /\ c \in readers /\ mu = "free" /\ current # NoID
    BY <1>9, CallShapes DEF ReadRecord, TypeOK, LocksHeld, CallOK
  <2>2. \A d \in Callers : call[d].op # "unpoint"
    BY <2>1 DEF LocksHeld
  <2>3. /\ call' = [call EXCEPT ![c] = Idle] /\ readers' = readers \ {c}
        /\ seen' = [seen EXCEPT ![c] = IF file[current] = NoRun THEN Missing
                                       ELSE file[current]]
        /\ UNCHANGED <<file, current, mu, torn, ops>>
    BY <1>9, <2>1 DEF ReadRecord
  <2>4. /\ call' \in [Callers -> Calls] /\ call'[c].op = "idle"
        /\ \A d \in Callers : d # c => call'[d] = call[d]
    BY <2>3, CallsMade DEF TypeOK
  <2>5. file[current] \in Records \cup {NoRun}
    BY <2>1 DEF TypeOK
  <2>6. TypeOK' /\ LocksHeld'
    BY <2>1, <2>3, <2>4, <2>5 DEF TypeOK, LocksHeld, Answers
  <2>7. \A d \in Callers : CallOK(d)'
    BY <2>3, <2>4 DEF CallOK
  <2>8. DanglingExplained'
    BY <2>1, <2>2, <2>3 DEF DanglingExplained
  <2>9. DanglingMeansTorn'
    <3>1. file[current] = NoRun => torn
      BY <2>1, <2>2 DEF DanglingExplained
    <3>2. file[current] # NoRun => file[current] # Missing
      BY <2>5, CallsMade
    <3> QED BY <2>3, <3>1, <3>2 DEF DanglingMeansTorn, TypeOK
  <2> QED BY <2>6, <2>7, <2>8, <2>9
<1>10. CASE Crash
  <2>1. /\ \A d \in Callers : call'[d].op = "idle"
        /\ call' \in [Callers -> Calls]
        /\ mu' = "free" /\ readers' = {} /\ UNCHANGED <<file, current, seen, ops>>
        /\ torn' = (torn \/ \E c \in Callers : call[c].op = "unpoint")
    BY <1>10, CallsMade DEF Crash
  <2>2. TypeOK' /\ LocksHeld'
    BY <2>1 DEF TypeOK, LocksHeld
  <2>3. \A d \in Callers : CallOK(d)'
    BY <2>1 DEF CallOK
  <2>4. DanglingExplained' /\ DanglingMeansTorn'
    BY <2>1 DEF DanglingExplained, DanglingMeansTorn
  <2> QED BY <2>2, <2>3, <2>4
<1>11. CASE UNCHANGED vars
  BY <1>11 DEF vars, TypeOK, LocksHeld, CallOK, DanglingExplained, DanglingMeansTorn
<1> QED
  BY <1>1, <1>2, <1>4, <1>5, <1>6, <1>7, <1>8, <1>9, <1>10, <1>11 DEF Next

LEMMA Inductive == Spec => []IInv
  BY InitIInv, NextIInv, PTL DEF Spec

(* Calls, locks and files keep their types through failures and crashes: no
   call goes on after it has let go of the lock (filestore.go). *)
THEOREM FileStoreTyped == Spec => []TypeOK
  BY Inductive, PTL DEF IInv

(* A Save or a Delete is alone in the store from its first file operation to
   its last, and no reader overlaps it. *)
THEOREM LocksHeldHolds == Spec => []LocksHeld
  BY Inductive, PTL DEF IInv

(* A LoadCurrent that finds the pointer without its record has met a Delete
   that failed or died half way, never one that was passing. *)
THEOREM DanglingMeansTornHolds == Spec => []DanglingMeansTorn
  BY Inductive, PTL DEF IInv

(***************************************************************************)
(* Refinement: each file operation is a step of RunStore or a stutter.     *)
(***************************************************************************)
LEMMA InitRefines == Init => Abs!StoreInit
BY DEF Init, Abs!StoreInit

LEMMA StepRefines ==
  ASSUME IInv, [Next]_vars
  PROVE  [Abs!StoreNext]_(Abs!storeVars)
<1> USE DEF IInv, TypeOK
<1>1. CASE UNCHANGED <<file, current>>
  BY <1>1 DEF Abs!storeVars
<1>2. ASSUME NEW c \in Callers, WriteRecord(c), ~UNCHANGED file
      PROVE  Abs!StoreNext
  <2> DEFINE r == call[c].run
  <2>1. r \in Records /\ r.id \in RunIDs
    BY <1>2, CallShapes DEF WriteRecord
  <2>2. file' = [file EXCEPT ![r.id] = r] /\ UNCHANGED current
    BY <1>2 DEF WriteRecord
  <2> HIDE DEF r
  <2>3. Abs!SaveFailed(r)
    BY <2>1, <2>2, CallsMade DEF Abs!SaveFailed, Abs!storeVars
  <2> QED BY <2>1, <2>3 DEF Abs!StoreNext
<1>3. ASSUME NEW c \in Callers, WritePointer(c), ~UNCHANGED current
      PROVE  Abs!StoreNext
  <2> DEFINE r == call[c].run
  <2>1. r \in Records /\ r.id \in RunIDs /\ r.id # NoID /\ file[r.id] = r
    BY <1>3, CallShapes, CallsMade DEF WritePointer, CallOK
  <2>2. current' = r.id /\ UNCHANGED file
    BY <1>3 DEF WritePointer
  <2> HIDE DEF r
  <2>3. Abs!SaveOK(r)
    BY <2>1, <2>2 DEF Abs!SaveOK
  <2> QED BY <2>1, <2>3 DEF Abs!StoreNext
<1>4. ASSUME NEW c \in Callers, RemoveRecord(c), ~UNCHANGED file
      PROVE  Abs!StoreNext
  <2>1. /\ current # NoID /\ current \in RunIDs /\ UNCHANGED current
        /\ file' = [file EXCEPT ![current] = NoRun]
    BY <1>4 DEF RemoveRecord
  <2>2. Abs!DeleteFailed
    BY <2>1 DEF Abs!DeleteFailed
  <2> QED BY <2>2 DEF Abs!StoreNext
<1>5. ASSUME NEW c \in Callers, RemovePointer(c), ~UNCHANGED current
      PROVE  Abs!StoreNext
  <2>1. current' = NoID
    BY <1>5 DEF RemovePointer
  <2>2. Abs!DeleteOK
    BY <2>1 DEF Abs!DeleteOK
  <2> QED BY <2>2 DEF Abs!StoreNext
<1> QED
  BY <1>1, <1>2, <1>3, <1>4, <1>5
  DEF Next, vars, SaveBegin, WriteRecord, WritePointer, DeleteBegin, RemoveRecord,
      RemovePointer, ReadPointer, ReadRecord, Crash

(* The pointer and record files, under the store's lock, behave as the one-step
   store the engine is modelled on, crashes and failing calls included. *)
THEOREM FileStoreImplementsRunStore == Spec => ImplementsRunStore
<1>1. IInv /\ [Next]_vars => [Abs!StoreNext]_(Abs!storeVars)
  BY StepRefines
<1> QED
  BY InitRefines, Inductive, <1>1, PTL DEF Spec, ImplementsRunStore, Abs!StoreSpec
=============================================================================
