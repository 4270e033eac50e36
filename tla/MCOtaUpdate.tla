---------------------------- MODULE MCOtaUpdate -----------------------------
(* The firmware update alone, on a small instance.                         *)
EXTENDS OtaUpdate
============================================================================
