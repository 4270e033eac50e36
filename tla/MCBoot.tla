------------------------------ MODULE MCBoot -------------------------------
(* The boot sequence for TLC.                                              *)
EXTENDS BootConfig
============================================================================
