----------------------------- MODULE MqttBridge -----------------------------
(***************************************************************************)
(* The bridge between the server and the scanner module (main/mqtt.c),     *)
(* with the firmware update that the server orders (OtaUpdate).            *)
(*                                                                         *)
(* Two tasks share the struct MQTT.  The client's task (of the esp-mqtt    *)
(* library) runs MQTTEventHandler: it hears of the connection and sends    *)
(* the server's orders on to the module.  The loop task "mqttSub" runs     *)
(* MQTTNetEventHandler: on START it reads what other tasks have sent, on   *)
(* STOPMQTT and STARTMQTT it makes the client use the configuration that   *)
(* is in the struct by then.  Triggers, a 40 ms timer and both tasks post  *)
(* these events without waiting, and any of them may be refused.           *)
(*                                                                         *)
(* The client library, the server and the scanner module behind the uart   *)
(* task (UartLink) are external.  The library runs MQTTEventHandler under  *)
(* its lock: esp_mqtt_client_stop waits until the handler has returned.    *)
(***************************************************************************)
EXTENDS OtaUpdate, Integers

CONSTANTS
    LoopLen,    (* length of the queue of the loop: 32                     *)
    QueueLen,   (* length of MqttToUart and UartToMqtt: 1024               *)
    MaxTurns    (* bound: orders of the server, changes at the module,     *)
                (* failures to reach the server, answers to other tasks    *)
                (* and repeated answers                                    *)

ASSUME BridgeAssumption ==
    /\ LoopLen \in Nat \ {0} /\ QueueLen \in Nat \ {0}
    /\ MaxTurns \in Nat

(* Orders whose "+OK" is reported as attr says: SetMqttCfg, SetNetCfg for  *)
(* SetWifiCfg and SetEthCfg, and Set for SetModuleInfo, SetREGEX and       *)
(* SetScanTimeout.  PtSend is reported for its own line, "+PTSEND:".  Get  *)
(* stands for the orders whose answer has a ":" in it.                     *)
Reported == {"Set", "SetNetCfg", "SetMqttCfg"}
Requests == Reported \cup {"PtSend", "Get", "Reboot", "NetState"}
Attrs    == Requests \cup {"Update", "Cnt"}
Configs  == 0..MaxTurns
Of(what, turn) == [what |-> what, turn |-> turn]
Nothing  == Of("none", 0)
Orders   == [what : Requests \cup {"Update", "none"}, turn : Configs]
Lines    == [what : {"OK", "PTSEND", "GET", "UPDATE"}, turn : Configs]
Events   == {"START", "STOPMQTT", "STARTMQTT"}

VARIABLES
    client,          (* the library's client: stopped, connecting, connected *)
    connect,         (* mqtt->connect                                      *)
    netFirstConnect,
    netToMqtt,       (* whether a NetConnect waits in WifiToMqtt or EthToMqtt *)
    handler,         (* where MQTTEventHandler is: idle, or its next step  *)
    order,           (* what it is about, and its turn                     *)
    attr,            (* mqtt->attr                                         *)
    loop,            (* events queued for the loop task                    *)
    task,            (* where MQTTNetEventHandler is: idle, its next step, *)
                     (* or the order that it is about to report OK         *)
    change,          (* the turn of the configuration it is about          *)
    config,          (* mqtt->url and the other fields, by the number of   *)
                     (* the turn that they are from, 0 at the start        *)
    used,            (* the same as the client uses it                     *)
    mqttToUart, uartToMqtt,
    turns,           (* history: how much of what MaxTurns bounds so far,  *)
    credit,          (* how many orders are not yet reported OK,           *)
    missed           (* and which of STOPMQTT and STARTMQTT were refused   *)

clientVars == <<client, connect>>
netVars    == <<netFirstConnect, netToMqtt>>
attrVars   == <<attr, credit>>
bridgeVars == <<clientVars, netVars, attrVars, turns, handler, order, loop, task,
                change, config, used, mqttToUart, uartToMqtt, missed>>
vars       == <<bridgeVars, otaVars>>

(* What MQTTInit leaves.                                                   *)
MQTTInit ==
    /\ client = "stopped" /\ connect = FALSE
    /\ netFirstConnect = FALSE /\ netToMqtt = FALSE
    /\ handler = "idle" /\ order = Nothing /\ attr = "Cnt"
    /\ loop = <<>> /\ task = "idle" /\ change = 0
    /\ mqttToUart = <<>> /\ uartToMqtt = <<>>
    /\ credit = [k \in Reported |-> 0] /\ missed = {}

Init ==
    /\ OtaInit /\ MQTTInit
    /\ turns = 0
    /\ config = [url |-> 0, rest |-> 0] /\ used = config

---------------------------------------------------------------------------
(* esp_event_post_to without waiting                                       *)

(* fault: an event is queued in any case *)
RoomAlways == TRUE

Room == Len(loop) < LoopLen
Post(event) ==
    /\ loop' = IF Room THEN Append(loop, event) ELSE loop
    /\ missed' = IF Room \/ event = "START" THEN missed ELSE missed \cup {event}

(* The triggers and the timer post the same event.                         *)
Trigger == Post("START")

(* fault: the timer is not started *)
timer_cbStopped == FALSE

timer_cb ==
    /\ Trigger
    /\ UNCHANGED <<clientVars, netVars, attrVars, turns, handler, order, task, change, config, used,
                   mqttToUart, uartToMqtt, otaVars>>

(* Ethernet or WiFi connects and says so (NetFailover).                    *)
NetConnect ==
    /\ ~netFirstConnect /\ ~netToMqtt /\ netToMqtt' = TRUE
    /\ Trigger
    /\ UNCHANGED <<clientVars, netFirstConnect, attrVars, turns, handler, order, task, change,
                   config, used, mqttToUart, uartToMqtt, otaVars>>

---------------------------------------------------------------------------
(* MQTTEventHandler, in the client's task: first the connection.           *)

(* A network state is sent to the module; attr is set if it was accepted.  *)
SendNetState ==
    IF Len(mqttToUart) < QueueLen
      THEN /\ mqttToUart' = Append(mqttToUart, "NetState")
           /\ handler' = "attr" /\ order' = Of("NetState", 0)
      ELSE UNCHANGED <<mqttToUart, handler, order>>

Connected ==
    /\ client = "connecting" /\ handler = "idle"
    /\ client' = "connected" /\ connect' = TRUE
    /\ SendNetState
    /\ UNCHANGED <<netVars, attrVars, turns, loop, task, change, config, used, uartToMqtt,
                   missed, otaVars>>

(* The connection is lost, or an attempt has failed.                       *)
Disconnected ==
    /\ client # "stopped" /\ handler = "idle" /\ turns < MaxTurns
    /\ client' = "connecting" /\ connect' = FALSE
    /\ SendNetState /\ turns' = turns + 1
    /\ UNCHANGED <<netVars, attrVars, loop, task, change, config, used,
                   uartToMqtt, missed, otaVars>>

(* An order of the server: MQTTMessageSendHandler begins.                  *)
MQTTMessageSendHandler(o) ==
    /\ client = "connected" /\ handler = "idle" /\ turns < MaxTurns
    /\ turns' = turns + 1 /\ order' = Of(o, turns')
    /\ handler' = IF o = "SetMqttCfg" THEN "url" ELSE "send"
    /\ UNCHANGED <<clientVars, netVars, attrVars, loop, task, change,
                   config, used, mqttToUart, uartToMqtt, missed, otaVars>>

HandlerOnly == UNCHANGED <<clientVars, netVars, turns, task, change, used, uartToMqtt>>

(* SetMqttCfg overwrites the configuration, field by field, and has the    *)
(* client restarted.                                                       *)
WriteUrl ==
    /\ handler = "url" /\ handler' = "rest"
    /\ config' = [config EXCEPT !.url = order.turn]
    /\ HandlerOnly /\ UNCHANGED <<order, attrVars, loop, mqttToUart, missed, otaVars>>

WriteRest ==
    /\ handler = "rest" /\ handler' = "stop"
    /\ config' = [config EXCEPT !.rest = order.turn]
    /\ HandlerOnly /\ UNCHANGED <<order, attrVars, loop, mqttToUart, missed, otaVars>>

(* fault: the client is not started again *)
MQTTMessageStartMqttDone == UNCHANGED <<loop, missed>>

MQTTMessageStopMqtt  == Post("STOPMQTT")
MQTTMessageStartMqtt == Post("STARTMQTT")

StopMqtt ==
    /\ handler = "stop" /\ handler' = "start" /\ MQTTMessageStopMqtt
    /\ HandlerOnly /\ UNCHANGED <<order, attrVars, config, mqttToUart, otaVars>>

StartMqtt ==
    /\ handler = "start" /\ handler' = "send" /\ MQTTMessageStartMqtt
    /\ HandlerOnly /\ UNCHANGED <<order, attrVars, config, mqttToUart, otaVars>>

Accept ==
    /\ handler' = "attr" /\ order' = order
    /\ credit' = [k \in Reported |-> credit[k] + (IF k = order.what THEN 1 ELSE 0)]
Refuse == handler' = "idle" /\ order' = Nothing /\ UNCHANGED <<mqttToUart, credit>>

(* The order is sent on; if it is refused, attr is not set (and SetMqttCfg *)
(* reported NO).                                                           *)
SendRequest ==
    /\ handler = "send" /\ order.what \notin {"SetNetCfg", "Update"}
    /\ IF Len(mqttToUart) < QueueLen
         THEN mqttToUart' = Append(mqttToUart, order.what) /\ Accept
         ELSE Refuse
    /\ HandlerOnly /\ UNCHANGED <<attr, config, loop, missed, otaVars>>

(* SetEthCfg is sent to the module, SetWifiCfg to WiFi, which sends it on  *)
(* (OtherAnswered), unless there is no room or an address is not valid.    *)
SendNetCfg ==
    /\ handler = "send" /\ order.what = "SetNetCfg"
    /\ \/ /\ Len(mqttToUart) < QueueLen /\ Accept
          /\ mqttToUart' = Append(mqttToUart, "SetNetCfg")
       \/ Accept /\ UNCHANGED mqttToUart
       \/ Refuse
    /\ HandlerOnly /\ UNCHANGED <<attr, config, loop, missed, otaVars>>

(* fault: no trigger is posted for the order *)
CpuUpdateUntold ==
    /\ handler = "send" /\ order.what = "Update"
    /\ Len(mqttToUpdate) < UpdateLen /\ \E u \in Urls : mqttToUpdate' = Append(mqttToUpdate, u)
    /\ handler' = "attr" /\ UNCHANGED <<posting, owed, untold, triggers, handlerVars, taskVars>>
    /\ HandlerOnly /\ UNCHANGED <<order, attrVars, config, loop, mqttToUart, missed>>

CpuUpdate ==
    /\ handler = "send" /\ order.what = "Update"
    /\ \E u \in Urls : SendUpdate(u)
    /\ handler' = "attr"
    /\ HandlerOnly /\ UNCHANGED <<order, attrVars, config, loop, mqttToUart, missed>>

SetAttr ==
    /\ handler = "attr" /\ ~posting /\ handler' = "idle"
    /\ attr' = order.what /\ order' = Nothing
    /\ HandlerOnly /\ UNCHANGED <<credit, config, loop, mqttToUart, missed, otaVars>>

MQTTEventHandler ==
    \/ Connected \/ WriteUrl \/ WriteRest \/ StopMqtt \/ StartMqtt
    \/ SendRequest \/ SendNetCfg \/ CpuUpdate \/ SetAttr

---------------------------------------------------------------------------
(* The module and the uart task, with the trigger of UartToMqtt.           *)

ModuleOnly == UNCHANGED <<clientVars, netVars, attrVars, handler, order, task,
                          change, config, used, otaVars>>
Says(what, turn) ==
    /\ Len(uartToMqtt) < QueueLen /\ uartToMqtt' = Append(uartToMqtt, Of(what, turn))
    /\ Trigger

Answer(request) ==
    CASE request = "Get" -> "GET" [] request = "PtSend" -> "PTSEND" [] OTHER -> "OK"

(* A request is answered, or given up after its retries.                   *)
Answered ==
    /\ mqttToUart # <<>> /\ mqttToUart' = Tail(mqttToUart)
    /\ Says(Answer(Head(mqttToUart)), 0) \/ UNCHANGED <<uartToMqtt, loop, missed>>
    /\ ModuleOnly /\ UNCHANGED turns

(* An answer comes late: the request is written once more, and answered    *)
(* once more.                                                              *)
AnsweredAgain ==
    /\ turns < MaxTurns /\ turns' = turns + 1
    /\ mqttToUart # <<>> /\ Says(Answer(Head(mqttToUart)), 0)
    /\ ModuleOnly /\ UNCHANGED mqttToUart

(* An answer to the network state of Ethernet or WiFi.                     *)
OtherAnswered ==
    /\ turns < MaxTurns /\ turns' = turns + 1 /\ Says("OK", 0)
    /\ ModuleOnly /\ UNCHANGED mqttToUart

(* +MQTTCFGUPDATE                                                          *)
Changed ==
    /\ turns < MaxTurns /\ turns' = turns + 1 /\ Says("UPDATE", turns + 1)
    /\ ModuleOnly /\ UNCHANGED mqttToUart

---------------------------------------------------------------------------
(* MQTTNetEventHandler, in the loop task                                   *)

TaskOnly == UNCHANGED <<turns, handler, order, mqttToUart, otaVars>>
Takes(event) == task = "idle" /\ loop # <<>> /\ Head(loop) = event /\ loop' = Tail(loop)

(* fault: a NetConnect is received only while the client is stopped        *)
STARTStopped ==
    /\ Takes("START") /\ task' = "lines"
    /\ IF client = "stopped"
         THEN /\ netToMqtt' = FALSE
              /\ netFirstConnect' = (netFirstConnect \/ netToMqtt)
              /\ client' = IF netToMqtt /\ ~netFirstConnect THEN "connecting" ELSE client
         ELSE UNCHANGED <<netVars, client>>
    /\ TaskOnly /\ UNCHANGED <<connect, attrVars, config, used, change, uartToMqtt, missed>>

(* The first NetConnect starts the client; then what SpiToMqtt holds is    *)
(* published, which ends; then the lines of UartToMqtt are read.           *)
START ==
    /\ Takes("START") /\ task' = "lines"
    /\ netToMqtt' = FALSE
    /\ netFirstConnect' = (netFirstConnect \/ netToMqtt)
    /\ client' = IF netToMqtt /\ ~netFirstConnect /\ client = "stopped" THEN "connecting" ELSE client
    /\ TaskOnly /\ UNCHANGED <<connect, attrVars, config, used, change, uartToMqtt, missed>>

(* fault: the client goes on with what it was configured with *)
STOPMQTTOnly ==
    /\ handler = "idle"
    /\ Takes("STOPMQTT") /\ client' = "stopped" /\ used' = used
    /\ TaskOnly /\ UNCHANGED <<connect, netVars, attrVars, task, config, change, uartToMqtt, missed>>

(* esp_mqtt_client_stop waits for the handler and announces nothing.       *)
STOPMQTT ==
    /\ handler = "idle"
    /\ Takes("STOPMQTT") /\ client' = "stopped" /\ used' = config
    /\ TaskOnly /\ UNCHANGED <<connect, netVars, attrVars, task, config, change, uartToMqtt, missed>>

STARTMQTT ==
    /\ Takes("STARTMQTT")
    /\ client' = IF client = "stopped" THEN "connecting" ELSE client
    /\ TaskOnly /\ UNCHANGED <<connect, netVars, attrVars, task, config, used, change, uartToMqtt, missed>>

(* MQTTMessageRecvUartHandler takes one line after the other.              *)
LineOnly == UNCHANGED <<clientVars, netVars, used>>
TakesLine(what) ==
    /\ task = "lines" /\ uartToMqtt # <<>> /\ Head(uartToMqtt).what = what
    /\ uartToMqtt' = Tail(uartToMqtt)

NoLine ==
    /\ task = "lines" /\ uartToMqtt = <<>> /\ task' = "idle"
    /\ TaskOnly /\ LineOnly /\ UNCHANGED <<attrVars, config, loop, change, uartToMqtt, missed>>

(* Then attr is cleared, whatever it says by now.                          *)
ClearAttr ==
    /\ task = "clear" /\ task' = "lines" /\ attr' = "Cnt"
    /\ TaskOnly /\ LineOnly /\ UNCHANGED <<credit, config, loop, change, uartToMqtt, missed>>

(* The answer to a Get clears attr, whatever it says; those with the       *)
(* configuration of WiFi and mqtt do not.                                  *)
GetLine ==
    /\ TakesLine("GET") /\ task' \in {"clear", "lines"}
    /\ TaskOnly /\ LineOnly /\ UNCHANGED <<attrVars, change, config, loop, missed>>

(* fault: attr is left as it is by an OK that has been reported *)
OkLineKept ==
    /\ TakesLine("OK")
    /\ IF attr \in Reported
         THEN credit' = [credit EXCEPT ![attr] = @ - 1]
         ELSE UNCHANGED credit
    /\ TaskOnly /\ LineOnly /\ UNCHANGED <<attr, task, change, config, loop, missed>>

(* A "+OK" is reported for what attr says when the line is read; the       *)
(* client's task may write attr before that has been done.  Nothing is     *)
(* done for a network state, and nothing reported of Reboot.               *)
OkLine ==
    /\ TakesLine("OK")
    /\ task' = IF attr \in Reported THEN attr
               ELSE IF attr = "Reboot" THEN "clear" ELSE "lines"
    /\ TaskOnly /\ LineOnly /\ UNCHANGED <<attrVars, change, config, loop, missed>>

(* A "+PTSEND:" is reported whatever attr says.                            *)
PtSendLine ==
    /\ TakesLine("PTSEND") /\ task' = "PtSend"
    /\ TaskOnly /\ LineOnly /\ UNCHANGED <<attrVars, change, config, loop, missed>>

(* Publishing waits for the client's handler, and so does subscribing      *)
(* again after SetNetCfg.                                                  *)
MQTTMessageRecvUartCommonOkHandler ==
    /\ task \in Reported \cup {"PtSend"} /\ task' = "clear"
    /\ connect \/ task = "SetNetCfg" => handler = "idle"
    /\ credit' = [k \in Reported |-> credit[k] - (IF k = task THEN 1 ELSE 0)]
    /\ TaskOnly /\ LineOnly /\ UNCHANGED <<attr, config, loop, change, uartToMqtt, missed>>

(* A changed configuration is written over the other, as by the handler.   *)
UpdateLine ==
    /\ TakesLine("UPDATE") /\ task' = "rest"
    /\ change' = Head(uartToMqtt).turn /\ config' = [config EXCEPT !.url = change']
    /\ TaskOnly /\ LineOnly /\ UNCHANGED <<attrVars, loop, missed>>

(* fault: the client is started again without having been stopped *)
UpdateRestStarts ==
    /\ task = "rest" /\ task' = "start"
    /\ config' = [config EXCEPT !.rest = change] /\ change' = 0
    /\ TaskOnly /\ LineOnly /\ UNCHANGED <<attrVars, loop, uartToMqtt, missed>>

UpdateRest ==
    /\ task = "rest" /\ task' = "stop"
    /\ config' = [config EXCEPT !.rest = change] /\ change' = 0
    /\ TaskOnly /\ LineOnly /\ UNCHANGED <<attrVars, loop, uartToMqtt, missed>>

UpdateStop ==
    /\ task = "stop" /\ task' = "start" /\ MQTTMessageStopMqtt
    /\ TaskOnly /\ LineOnly /\ UNCHANGED <<attrVars, change, config, uartToMqtt>>

UpdateStart ==
    /\ task = "start" /\ task' = "clear" /\ MQTTMessageStartMqtt
    /\ TaskOnly /\ LineOnly /\ UNCHANGED <<attrVars, change, config, uartToMqtt>>

MQTTNetEventHandler ==
    \/ START \/ STOPMQTT \/ STARTMQTT \/ NoLine \/ ClearAttr \/ GetLine
    \/ OkLine \/ PtSendLine \/ MQTTMessageRecvUartCommonOkHandler
    \/ UpdateLine \/ UpdateRest \/ UpdateStop \/ UpdateStart
---------------------------------------------------------------------------
(* esp_restart, and what app_main starts anew (BootConfig), with the       *)
(* configuration that the module has by then.                              *)
esp_restart ==
    /\ Restart /\ UNCHANGED turns
    /\ client' = "stopped" /\ connect' = FALSE
    /\ netFirstConnect' = FALSE /\ netToMqtt' = FALSE
    /\ handler' = "idle" /\ order' = Nothing /\ attr' = "Cnt"
    /\ loop' = <<>> /\ task' = "idle" /\ change' = 0
    /\ mqttToUart' = <<>> /\ uartToMqtt' = <<>>
    /\ credit' = [k \in Reported |-> 0] /\ missed' = {}
    /\ config' = [url |-> config.url, rest |-> config.url]
    /\ used' = config'

Outside ==
    \/ timer_cb \/ NetConnect \/ Disconnected
    \/ \E o \in Reported \cup {"PtSend", "Get", "Reboot", "Update"} : MQTTMessageSendHandler(o)
    \/ Answered \/ AnsweredAgain \/ OtherAnswered \/ Changed

Next ==
    \/ Outside \/ MQTTEventHandler \/ MQTTNetEventHandler
    \/ OtaStep /\ UNCHANGED bridgeVars
    \/ esp_restart

Spec == Init /\ [][Next]_vars

(* The tasks and the timer are scheduled and what reports SpiToMqtt holds  *)
(* at a time is published; the uart task gets an answer or gives up; the   *)
(* server is reached unless an attempt fails; a download ends, since every *)
(* read has a timeout of 5 s and the image an end.                         *)
Fairness ==
    /\ WF_vars(timer_cb) /\ WF_vars(MQTTEventHandler) /\ WF_vars(MQTTNetEventHandler)
    /\ WF_vars(Answered)
    /\ WF_vars(UpdateTriggerRecv /\ UNCHANGED bridgeVars)
    /\ WF_vars(UpdateEventRecvHandler /\ UNCHANGED bridgeVars)
    /\ WF_vars(Copied /\ UNCHANGED bridgeVars)
    /\ WF_vars(OtaTask /\ UNCHANGED bridgeVars) /\ WF_vars(esp_restart)

LiveSpec == Spec /\ Fairness

---------------------------------------------------------------------------
(* The types of the variables and the capacity of the queues.              *)
TypeOK ==
    /\ OtaTypeOK
    /\ client \in {"stopped", "connecting", "connected"} /\ connect \in BOOLEAN
    /\ netFirstConnect \in BOOLEAN /\ netToMqtt \in BOOLEAN
    /\ handler \in {"idle", "url", "rest", "stop", "start", "send", "attr"}
    /\ order \in Orders /\ attr \in Attrs
    /\ loop \in Seq(Events) /\ Len(loop) <= LoopLen
    /\ task \in {"idle", "lines", "clear", "rest", "stop", "start", "PtSend"} \cup Reported
    /\ change \in Configs
    /\ config \in [url : Configs, rest : Configs] /\ used \in [url : Configs, rest : Configs]
    /\ mqttToUart \in Seq(Requests) /\ Len(mqttToUart) <= QueueLen
    /\ uartToMqtt \in Seq(Lines) /\ Len(uartToMqtt) <= QueueLen
    /\ turns \in 0..MaxTurns
    /\ credit \in [Reported -> Int] /\ missed \subseteq {"STOPMQTT", "STARTMQTT"}

(* An order that attr tells the "+OK" of is reported OK at most once, and  *)
(* only if it was accepted, however the lines, the answers that come twice *)
(* and the writes of attr interleave.  (PtSend is reported for every line  *)
(* "+PTSEND:", twice when its answer comes twice.)                         *)
OkOnce == \A k \in Reported : credit[k] >= 0

(* Once the net is there, the client is stopped only as long as the event  *)
(* that starts it again waits, or the task that posts both is between them:*)
(* nothing but a STARTMQTT that is refused leaves the gateway cut off.     *)
NotCutOff ==
    (netFirstConnect /\ client = "stopped" /\ "STARTMQTT" \notin missed) =>
        \/ \E i \in DOMAIN loop : loop[i] = "STARTMQTT"
        \/ handler = "start" \/ task = "start"

(* A configuration that the client does not use is still being written, or *)
(* the event that makes it use all of it waits, unless that was refused:   *)
(* two tasks that write it at once leave nothing that is never applied.    *)
ConfigFollowed ==
    (used # config /\ "STOPMQTT" \notin missed) =>
        \/ \E i \in DOMAIN loop : loop[i] = "STOPMQTT"
        \/ handler \in {"rest", "stop"} \/ task \in {"rest", "stop"}

(* Whatever else the bridge does, it orders updates as OtaUpdate has them: *)
(* one order and its trigger at a time, and nothing of the update forgotten*)
(* but by its own restart.                                                 *)
KeepsUpdate == OtaSpec

(* The client ends up with the newest configuration, running if the net    *)
(* was ever there, unless a STOPMQTT or STARTMQTT was refused: what the    *)
(* server and the module order at the same time is not left half applied.  *)
ConfigObeyed ==
    [](missed = {}) => <>[](used = config /\ (client = "stopped" => ~netFirstConnect))

(* mqtt->connect is left set when the client is stopped; that ends.        *)
StaleEnds ==
    [](missed = {}) => ((connect /\ client # "connected") ~> (~connect \/ client = "connected"))

(* Every line of the module is handled although its trigger may have been  *)
(* refused: the timer's will do.                                           *)
LinesHandled == []<>(uartToMqtt = <<>>)

(* So is a NetConnect, which starts the client the first time, also when   *)
(* its trigger was refused or a changed configuration has started the      *)
(* client before, unless the program is restarted.                         *)
NetHeard == netToMqtt ~> ~netToMqtt

(* The update ordered last is tried, unless its trigger was refused.       *)
NewestTried == [](~untold) => (owed # Empty ~> owed = Empty)
============================================================================
