---------------------------- MODULE MCMqttBridge ----------------------------
(* The bridge and the firmware update on a small instance.                 *)
EXTENDS MqttBridge

(* No version is special, so it does not matter which one runs at first,   *)
(* nor which url the program is the first to be sent.                      *)
MCInit == Init /\ version = CHOOSE v \in Versions : TRUE
FirstUrl ==
    (owed = Empty /\ url = Empty /\ mqttToUpdate = <<>> /\ copying = {}) =>
        owed' \in {Empty, CHOOSE u \in Urls : TRUE}
MCNext == Next /\ FirstUrl
MCSpec == MCInit /\ [][MCNext]_vars /\ Fairness
============================================================================
