--------------------------- MODULE MCScanFailures ---------------------------
(* Instances of ScanFailures small enough for TLC. *)
EXTENDS MCBusScan, ScanFailures
=============================================================================
