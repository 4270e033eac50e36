----------------------------- MODULE MCSpiRecv -----------------------------
(* Instances of SpiRecv for TLC.                                           *)
EXTENDS SpiRecv

(* No device and no buffer is special, so it does not matter which device  *)
(* the first frame is about, nor which buffer malloc returns at first.     *)
MCInit ==
    /\ Init
    /\ buf = CHOOSE b \in Buffers : TRUE
    /\ MaxFrames > 0 => device[1] = CHOOSE d \in Devices : TRUE
MCSpec == MCInit /\ [][Next]_vars
MCLiveSpec == MCSpec /\ WF_vars(Receive) /\ WF_vars(PublishAndRelease)
============================================================================
