---------------------------- MODULE MCAtaDriver ----------------------------
(* Two sectors, two values; the capacity may be none, one sector or both. *)
EXTENDS AtaDriver
=============================================================================
