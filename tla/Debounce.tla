------------------------------ MODULE Debounce -----------------------------
(***************************************************************************)
(* The debouncer (internal/observer/debounce.go) between a handler's       *)
(* publish and the bus, and the SPA's row of each condition (foldCluster-  *)
(* Event, web/src/pipeline.ts) at the other end of it.                     *)
(***************************************************************************)
EXTENDS Naturals, FiniteSets, FiniteSetsExt

CONSTANTS
  Keys,        (* conditions, by UID and Reason                            *)
  MaxReleased  (* bound: timers between taking an arise and emitting it    *)

VARIABLES
  pending,     (* debouncer.pending: At of the arise in its window, or 0   *)
  released,    (* arises a timer has taken and not emitted yet             *)
  row          (* the condition as the SPA tracks it, for this attempt     *)

NoRow == [at |-> 0, resolved |-> TRUE]
Red(k) == row[k].at # 0 /\ ~row[k].resolved

DebounceTypeOK ==
  /\ pending \in [Keys -> Nat]
  /\ \A r \in released : r.key \in Keys /\ r.at \in Nat \ {0}
  /\ row \in [Keys -> [at : Nat, resolved : BOOLEAN]]

DebounceInit ==
  /\ pending = [k \in Keys |-> 0] /\ released = {} /\ row = [k \in Keys |-> NoRow]

(* Nothing is in a window or leaving one. *)
Idle == released = {} /\ \A k \in Keys : pending[k] = 0

(* The At of every arise of the condition that is on its way. *)
OnTheirWay(k) == {r.at : r \in {q \in released : q.key = k}} \cup ({pending[k]} \ {0})

(* publish stamps ClusterData.At: later than all there are.  Times are only
   compared, so what a row holds alone is put at 1. *)
Now(k) == Max(OnTheirWay(k) \cup {row[k].at}) + 1

(* Mutant of Supersedes: the row shows what arrived last. *)
LastArrived(k, at) == TRUE

(* clusterConditionSupersedes, of one UID and Reason. *)
Supersedes(k, at) == at > row[k].at

(* The event reaches the bus and foldClusterEvent, if it is in scope. *)
Emit(k, at, resolved, inScope) ==
  row' = IF inScope /\ Supersedes(k, at)
         THEN [row EXCEPT ![k] = [resolved |-> resolved,
                 at |-> IF OnTheirWay(k) \subseteq {at} THEN 1 ELSE at]]
         ELSE row

(* A resolution whose arise is still in its window ends both. *)
Cancels(k) == pending[k] # 0

(* submit: information passes, a resolution cancels or passes, and an arise
   waits out the window from now on. *)
Submit(k, resolved, info, inScope) ==
  /\ UNCHANGED released
  /\ \/ /\ info \/ (resolved /\ ~Cancels(k))
        /\ Emit(k, Now(k), resolved, inScope) /\ UNCHANGED pending
     \/ /\ ~info /\ resolved /\ Cancels(k)
        /\ pending' = [pending EXCEPT ![k] = 0] /\ UNCHANGED row
     \/ /\ ~info /\ ~resolved
        /\ pending' = [pending EXCEPT ![k] = Now(k)] /\ UNCHANGED row

(* release: the timer takes the arise under the mutex and emits it after. *)
Release(k) ==
  /\ pending[k] # 0 /\ Cardinality(released) < MaxReleased
  /\ released' = released \cup {[key |-> k, at |-> pending[k]]}
  /\ pending' = [pending EXCEPT ![k] = 0]
  /\ UNCHANGED row

EmitReleased(r, inScope) ==
  /\ released' = released \ {r}
  /\ Emit(r.key, r.at, FALSE, inScope)
  /\ UNCHANGED pending
=============================================================================
