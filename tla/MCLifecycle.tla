---------------------------- MODULE MCLifecycle ----------------------------
(* Instances of Lifecycle small enough for TLC. *)
EXTENDS Lifecycle, TLC
=============================================================================
