------------------------------ MODULE RunStore ------------------------------
(***************************************************************************)
(* What the engine may rely on when it persists a run: a pointer naming    *)
(* the current run, and the record that pointer names                      *)
(* (internal/engine/store.go, filestore.go).  Every operation here is one  *)
(* step; FileStore splits it into the file operations the code performs    *)
(* and is shown to implement this module.                                  *)
(*                                                                         *)
(* A failed call is not always a call without effect: fileStore.Save       *)
(* writes the record and then the pointer, Delete removes the record and   *)
(* then the pointer, and an error between the two leaves the first one     *)
(* done.                                                                   *)
(***************************************************************************)
CONSTANTS
  RunIDs,   (* run identities, Engine.newID                                *)
  Records,  (* run records; a record r names its run in r.id               *)
  NoID,     (* "no pointer file"                                           *)
  NoRun     (* "no such record"                                            *)

VARIABLES
  ptr,      (* contents of the pointer file `current', NoID if absent      *)
  rec       (* the record ptr names, NoRun if its file is absent           *)

storeVars == <<ptr, rec>>

StoreTypeOK ==
  /\ ptr \in RunIDs \cup {NoID}
  /\ rec \in Records \cup {NoRun}
  /\ ptr = NoID => rec = NoRun

StoreInit == ptr = NoID /\ rec = NoRun

(* Save: the record is written and the pointer is made to name it, whatever
   the pointer named before. *)
SaveOK(r) == ptr' = r.id /\ rec' = r

(* Save failed.  If the pointer already named this run, the record may have
   been replaced before the pointer write failed. *)
SaveFailed(r) ==
  \/ UNCHANGED storeVars
  \/ ptr = r.id /\ rec' = r /\ UNCHANGED ptr

(* Delete takes no run: it removes whatever record the pointer names. *)
DeleteOK == ptr' = NoID /\ rec' = NoRun

(* Delete failed, possibly after the record went and before the pointer did. *)
DeleteFailed ==
  \/ UNCHANGED storeVars
  \/ rec' = NoRun /\ UNCHANGED ptr

(* LoadCurrent finds the pointer and not the record it names. *)
Dangling == ptr # NoID /\ rec = NoRun

StoreNext ==
  \/ \E r \in Records : SaveOK(r) \/ SaveFailed(r)
  \/ DeleteOK
  \/ DeleteFailed

StoreSpec == StoreInit /\ [][StoreNext]_storeVars
=============================================================================
