---------------------------- MODULE MCUartLink ----------------------------
(* Instances of UartLink for TLC.                                          *)
EXTENDS UartLink

(* Two tasks hand over requests while app_main is still being served.      *)
TwoRequesters == {"Mqtt", "Wifi"} \X {"Request"}

(* A request behind the reports of an earlier section.                     *)
RequestAfterReport == {<<"Mqtt", "Request">>, <<"Wifi", "NetState">>}

(* The server and one network interface report their connections.          *)
TwoReporters == {"Mqtt", "Wifi"} \X {"NetState"}
===========================================================================
