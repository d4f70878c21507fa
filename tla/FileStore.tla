----------------------------- MODULE FileStore -----------------------------
(***************************************************************************)
(* The file-backed run store (internal/engine/filestore.go): one file per  *)
(* run plus a pointer file, each replaced atomically by a rename, with the *)
(* store's mutex held across the two operations of a Save or a Delete.     *)
(* Callers crash and calls fail between the two; LoadCurrent reads the     *)
(* pointer first and then the record it names.                             *)
(***************************************************************************)
EXTENDS Naturals

CONSTANTS
  RunIDs,
  Vers,      (* the record contents a run goes through                     *)
  Callers,   (* goroutines that call the store                             *)
  NoID, NoRun,
  Missing,   (* LoadCurrent: the pointer names a record that is not there  *)
  MaxOps     (* bound: Save and Delete calls in a behaviour                *)

Records == [id : RunIDs, ver : Vers]

VARIABLES
  file,      (* file[id]: contents of <id>.run, NoRun if absent            *)
  current,   (* contents of the pointer file, NoID if absent               *)
  mu,        (* holder of the write lock, or "free"                        *)
  call,      (* call[c]: what c is in the middle of                        *)
  readers,   (* callers holding the read lock                              *)
  seen,      (* seen[c]: the answer c's last LoadCurrent returned          *)
  torn,      (* a Delete has ended between its two removals                *)
  ops

vars == <<file, current, mu, call, readers, seen, torn, ops>>

ASSUME StoreAssumption ==
  /\ MaxOps \in Nat
  /\ NoID \notin RunIDs
  /\ "free" \notin Callers
  /\ NoRun # Missing /\ {NoRun, Missing} \cap Records = {}

Idle       == [op |-> "idle"]
Saving(r)  == [op |-> "save", run |-> r]
Pointing(r) == [op |-> "point", run |-> r]
Removing(i) == [op |-> "unpoint", id |-> i]
Reading(i) == [op |-> "read", id |-> i]

Calls == {Idle, [op |-> "delete"]}
         \cup {Saving(r) : r \in Records} \cup {Pointing(r) : r \in Records}
         \cup {Removing(i) : i \in RunIDs} \cup {Reading(i) : i \in RunIDs}

Answers == Records \cup {NoRun, Missing}

TypeOK ==
  /\ file \in [RunIDs -> Records \cup {NoRun}]
  /\ current \in RunIDs \cup {NoID}
  /\ mu \in Callers \cup {"free"}
  /\ call \in [Callers -> Calls]
  /\ readers \subseteq Callers
  /\ seen \in [Callers -> Answers]
  /\ torn \in BOOLEAN
  /\ ops \in 0..MaxOps

Init ==
  /\ file = [i \in RunIDs |-> NoRun]
  /\ current = NoID
  /\ mu = "free"
  /\ call = [c \in Callers |-> Idle]
  /\ readers = {}
  /\ seen = [c \in Callers |-> NoRun]
  /\ torn = FALSE
  /\ ops = 0

Lock(c, next) ==
  /\ mu = "free" /\ readers = {}
  /\ call[c] = Idle
  /\ ops < MaxOps
  /\ ops' = ops + 1
  /\ mu' = c
  /\ call' = [call EXCEPT ![c] = next]

Unlock(c) ==
  /\ mu' = "free"
  /\ call' = [call EXCEPT ![c] = Idle]

(* Mutant of SaveBegin: the pointer is written, the record never. *)
SaveBeginAtPointer(c) ==
  /\ \E r \in Records : Lock(c, Pointing(r))
  /\ UNCHANGED <<file, current, readers, seen, torn>>

SaveBegin(c) ==
  /\ \E r \in Records : Lock(c, Saving(r))
  /\ UNCHANGED <<file, current, readers, seen, torn>>

(* writeAtomic(runPath): the record is replaced whole, or the call fails. *)
WriteRecord(c) ==
  /\ call[c].op = "save"
  /\ \/ /\ file' = [file EXCEPT ![call[c].run.id] = call[c].run]
        /\ call' = [call EXCEPT ![c] = Pointing(call[c].run)]
        /\ UNCHANGED mu
     \/ Unlock(c) /\ UNCHANGED file
  /\ UNCHANGED <<current, readers, seen, torn, ops>>

(* writeAtomic(current): always names the run just saved. *)
WritePointer(c) ==
  /\ call[c].op = "point"
  /\ Unlock(c)
  /\ current' = call[c].run.id \/ UNCHANGED current
  /\ UNCHANGED <<file, readers, seen, torn, ops>>

DeleteBegin(c) ==
  /\ Lock(c, [op |-> "delete"])
  /\ UNCHANGED <<file, current, readers, seen, torn>>

(* A missing pointer is a successful Delete; otherwise the record goes first. *)
RemoveRecord(c) ==
  /\ call[c].op = "delete"
  /\ \/ current = NoID /\ Unlock(c) /\ UNCHANGED file
     \/ /\ current # NoID
        /\ file' = [file EXCEPT ![current] = NoRun]
        /\ call' = [call EXCEPT ![c] = Removing(current)]
        /\ UNCHANGED mu
     \/ current # NoID /\ Unlock(c) /\ UNCHANGED file
  /\ UNCHANGED <<current, readers, seen, torn, ops>>

RemovePointer(c) ==
  /\ call[c].op = "unpoint"
  /\ Unlock(c)
  /\ \/ current' = NoID /\ UNCHANGED torn
     \/ torn' = TRUE /\ UNCHANGED current
  /\ UNCHANGED <<file, readers, seen, ops>>

(* LoadCurrent: the pointer, then the record, under one read lock. *)
ReadPointer(c) ==
  /\ mu = "free" /\ call[c] = Idle
  /\ ops < MaxOps /\ ops' = ops + 1
  /\ IF current = NoID
     THEN seen' = [seen EXCEPT ![c] = NoRun] /\ UNCHANGED <<call, readers>>
     ELSE /\ call' = [call EXCEPT ![c] = Reading(current)]
          /\ readers' = readers \cup {c}
          /\ UNCHANGED seen
  /\ UNCHANGED <<file, current, mu, torn>>

ReadRecord(c) ==
  /\ call[c].op = "read"
  /\ seen' = [seen EXCEPT ![c] = IF file[call[c].id] = NoRun
                                 THEN Missing ELSE file[call[c].id]]
  /\ call' = [call EXCEPT ![c] = Idle]
  /\ readers' = readers \ {c}
  /\ UNCHANGED <<file, current, mu, torn, ops>>

(* The process dies wherever it is: locks and calls go, the files stay. *)
Crash ==
  /\ mu # "free" \/ readers # {}
  /\ mu' = "free" /\ readers' = {}
  /\ call' = [c \in Callers |-> Idle]
  /\ torn' = (torn \/ \E c \in Callers : call[c].op = "unpoint")
  /\ UNCHANGED <<file, current, seen, ops>>

Next ==
  \/ \E c \in Callers :
       \/ SaveBegin(c)    \/ WriteRecord(c)  \/ WritePointer(c)
       \/ DeleteBegin(c)  \/ RemoveRecord(c) \/ RemovePointer(c)
       \/ ReadPointer(c)  \/ ReadRecord(c)
  \/ Crash

Spec == Init /\ [][Next]_vars

(***************************************************************************)
(* What the engine relies on.                                              *)
(***************************************************************************)
(* A writer is alone and a reader keeps writers out: each call in the middle
   of its two file operations holds the lock it needs. *)
LocksHeld ==
  /\ \A c \in Callers : call[c].op \in {"save", "point", "delete", "unpoint"} => mu = c
  /\ \A c \in Callers : call[c].op = "read" => c \in readers
  /\ mu # "free" => readers = {}

(* LoadCurrent never reports a dangling pointer because a Delete was passing:
   a pointer without its record is only ever found after a Delete that failed,
   or died, between its two removals. *)
DanglingMeansTorn == \A c \in Callers : seen[c] = Missing => torn

(* The two files, read as one pointer and the record it names, behave as
   module RunStore says: every Save and Delete takes effect in one step, or
   fails in one of the two ways it lists, crashes included. *)
Abs == INSTANCE RunStore WITH
         ptr <- current,
         rec <- IF current = NoID THEN NoRun ELSE file[current]

ImplementsRunStore == Abs!StoreSpec
=============================================================================
