----------------------------- MODULE MCObserver -----------------------------
(* One namespace with one pod and its controller. *)
EXTENDS Observer
=============================================================================
