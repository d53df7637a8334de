------------------------- MODULE MCProcessLifecycle -------------------------
(* Capacities are set in the .cfg files: slots are reused in every run. *)
EXTENDS ProcessLifecycle
=============================================================================
