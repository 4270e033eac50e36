--------------------------- MODULE MCNetFailover ---------------------------
(* Instances of NetFailover for TLC.                                       *)
EXTENDS NetFailover

(* TLC follows a behaviour until something is lost: from there on the      *)
(* properties promise nothing but the types and StaysDown.                 *)
NothingLost == ~missed
============================================================================
