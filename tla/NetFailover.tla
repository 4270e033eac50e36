---------------------------- MODULE NetFailover ----------------------------
(***************************************************************************)
(* Ethernet over WiFi: main/eth.c and main/wifi.c in the default event     *)
(* loop, and the end of app_main in main/hello_world_main.c.               *)
(*                                                                         *)
(* One task handles the events of both drivers and the triggers of the     *)
(* queues.  A cable that is plugged in sends DownWifi, one that is pulled  *)
(* UpWifi; the order is a message in EthToWifi followed by a trigger, and  *)
(* every trigger takes one message off MqttToWifi and one off EthToWifi.   *)
(* Posts to the loop do not wait and are lost when it is full.             *)
(***************************************************************************)
EXTENDS Naturals, Sequences, FiniteSets

CONSTANTS
    LoopLen,  (* events the default loop holds: 32                         *)
    QueueLen  (* length of EthToWifi and MqttToWifi: 1024                  *)

ASSUME NetAssumption == LoopLen \in Nat \ {0} /\ QueueLen \in Nat \ {0}

Events == {"CableUp", "CableDown", "EthGotIp", "StaStart", "StaDisconnected",
           "StaGotIp", "Trigger"}
Orders  == {"DownWifi", "UpWifi"}
Configs == {"SetWifiCfg", "ReportDebug"}

VARIABLES
    app,         (* app_main: before WifiInit, polling in it, or past it   *)
    loop,        (* the default event loop, the event in hand included     *)
    busy,        (* its task is in a handler, with the head of loop        *)
    orders,      (* EthToWifi                                              *)
    configs,     (* MqttToWifi                                             *)
    posting,     (* mqtt has put a message there and not yet its trigger   *)
    eth,         (* the cable: "down", "up" or "online"                    *)
    sta,         (* the WiFi driver                                        *)
    isDown,      (* wifi->isDown                                           *)
    isConnect,   (* wifi->isConnect                                        *)
    wifiSok,     (* wifi->wifiSok                                          *)
    checkStatus, (* wifi->checkStatus                                      *)
    told,        (* the last NetState each interface reported              *)
    missed       (* history: a message or an event was lost                *)

wifi   == <<isDown, isConnect, wifiSok, checkStatus>>
queues == <<orders, configs, posting>>
vars   == <<app, loop, busy, orders, configs, posting, eth, sta, isDown,
            isConnect, wifiSok, checkStatus, told, missed>>

Init ==
    /\ app = "start"
    /\ loop = <<>> /\ busy = FALSE
    /\ orders = <<>> /\ configs = <<>> /\ posting = FALSE
    /\ eth = "down" /\ sta = "stopped"
    /\ isDown = FALSE /\ isConnect = FALSE
    /\ wifiSok = FALSE /\ checkStatus = FALSE
    /\ told = [i \in {"Eth", "Wifi"} |-> FALSE]
    /\ missed = FALSE

---------------------------------------------------------------------------
(* The loop and the WiFi driver.                                           *)

(* fault: a post that does not look at the capacity *)
PostedUnchecked(l, e) == Append(l, e)

(* The events l that wait, after e was posted without waiting.             *)
Posted(l, e) == IF Len(l) < LoopLen THEN Append(l, e) ELSE l

Lost(l) == Len(l) >= LoopLen

(* A post by another task; the event in hand is not in its way.            *)
Post(e) ==
    IF busy
      THEN /\ loop' = <<Head(loop)>> \o Posted(Tail(loop), e)
           /\ missed' = (missed \/ Lost(Tail(loop)))
      ELSE /\ loop' = Posted(loop, e)
           /\ missed' = (missed \/ Lost(loop))

Active == {"connecting", "connected", "online"}

Connected(s) == IF s = "idle" THEN "connecting" ELSE s
Started(s)   == IF s = "stopped" THEN "idle" ELSE s

(* The driver finds the access point and its address, fails or loses it.   *)
StaProgress ==
    /\ \/ /\ sta = "connecting"
          /\ sta' = "connected"
          /\ UNCHANGED <<loop, missed>>
       \/ /\ sta = "connected"
          /\ sta' = "online"
          /\ Post("StaGotIp")
       \/ /\ sta \in Active
          /\ sta' = "idle"
          /\ Post("StaDisconnected")
    /\ UNCHANGED <<app, busy, queues, eth, wifi, told>>

(* The cable is plugged in or pulled, or gets its address; the Ethernet    *)
(* driver starts after WifiInit has returned.                              *)
EthProgress ==
    /\ app = "done"
    /\ \/ eth = "down" /\ eth' = "up" /\ Post("CableUp")
       \/ eth = "up" /\ eth' = "online" /\ Post("EthGotIp")
       \/ eth # "down" /\ eth' = "down" /\ Post("CableDown")
    /\ UNCHANGED <<app, busy, queues, sta, wifi, told>>

---------------------------------------------------------------------------
(* app_main and the mqtt task.                                             *)

(* WifiInit: the handlers are registered and the station is started.       *)
WifiInit ==
    /\ app = "start"
    /\ app' = "poll"
    /\ sta' = Started(sta)
    /\ Post("StaStart")
    /\ UNCHANGED <<busy, queues, eth, wifi, told>>

(* ... which then looks every 200 ms whether the station has started.      *)
Poll ==
    /\ app = "poll" /\ wifiSok
    /\ app' = "done"
    /\ UNCHANGED <<loop, busy, queues, eth, sta, wifi, told, missed>>

(* A new configuration or a check of one comes from the server ...         *)
MqttSends(m) ==
    /\ ~posting
    /\ Len(configs) < QueueLen
    /\ configs' = Append(configs, m)
    /\ posting' = TRUE
    /\ UNCHANGED <<app, loop, busy, orders, eth, sta, wifi, told, missed>>

(* ... and its trigger, for which there is no loop before WifiInit.        *)
MqttTriggers ==
    /\ posting
    /\ posting' = FALSE
    /\ IF app = "start" THEN missed' = TRUE /\ UNCHANGED loop ELSE Post("Trigger")
    /\ UNCHANGED <<app, busy, orders, configs, eth, sta, wifi, told>>

---------------------------------------------------------------------------
(* EthEventHandler.  The task takes an event, during whose handling other  *)
(* tasks may fill the room it left.                                        *)

Take ==
    /\ ~busy /\ loop # <<>>
    /\ busy' = TRUE
    /\ UNCHANGED <<app, loop, queues, eth, sta, wifi, told, missed>>

Handles(e) == busy /\ Head(loop) = e /\ busy' = FALSE

(* The order and its trigger are sent from the loop's own task.            *)
Order(o) ==
    IF Len(orders) < QueueLen
      THEN /\ orders' = Append(orders, o)
           /\ loop' = Posted(Tail(loop), "Trigger")
           /\ missed' = (missed \/ Lost(Tail(loop)))
      ELSE /\ loop' = Tail(loop)
           /\ missed' = TRUE
           /\ UNCHANGED orders

EthConnected ==
    /\ Handles("CableUp")
    /\ Order("DownWifi")
    /\ UNCHANGED <<app, configs, posting, eth, sta, wifi, told>>

(* fault: WiFi is not ordered up when it is up already *)
EthDisconnectedWhenDown ==
    /\ Handles("CableDown")
    /\ IF isDown THEN Order("UpWifi") ELSE loop' = Tail(loop) /\ UNCHANGED <<orders, missed>>
    /\ told' = [told EXCEPT !["Eth"] = FALSE]
    /\ UNCHANGED <<app, configs, posting, eth, sta, wifi>>

EthDisconnected ==
    /\ Handles("CableDown")
    /\ Order("UpWifi")
    /\ told' = [told EXCEPT !["Eth"] = FALSE]
    /\ UNCHANGED <<app, configs, posting, eth, sta, wifi>>

EthGotIp ==
    /\ Handles("EthGotIp")
    /\ loop' = Tail(loop)
    /\ told' = [told EXCEPT !["Eth"] = TRUE]
    /\ UNCHANGED <<app, queues, eth, sta, wifi, missed>>

---------------------------------------------------------------------------
(* WifiEventHandler.                                                       *)

StaStart ==
    /\ Handles("StaStart")
    /\ loop' = Tail(loop)
    /\ sta' = Connected(sta)
    /\ wifiSok' = TRUE
    /\ UNCHANGED <<app, queues, eth, isDown, isConnect, checkStatus, told, missed>>

(* fault: no reconnect unless there was a connection *)
StaDisconnectedOnce ==
    /\ Handles("StaDisconnected")
    /\ loop' = Tail(loop)
    /\ sta' = IF isConnect THEN Connected(sta) ELSE sta
    /\ isConnect' = FALSE /\ wifiSok' = FALSE
    /\ told' = [told EXCEPT !["Wifi"] = FALSE]
    /\ UNCHANGED <<app, queues, eth, isDown, checkStatus, missed>>

(* fault: a disconnection is ignored while WiFi is ordered down *)
StaDisconnectedUp ==
    /\ Handles("StaDisconnected")
    /\ loop' = Tail(loop)
    /\ sta' = Connected(sta)
    /\ IF isDown THEN UNCHANGED <<isConnect, wifiSok, told>>
       ELSE /\ isConnect' = FALSE /\ wifiSok' = FALSE
            /\ told' = [told EXCEPT !["Wifi"] = FALSE]
    /\ UNCHANGED <<app, queues, eth, isDown, checkStatus, missed>>

StaDisconnected ==
    /\ Handles("StaDisconnected")
    /\ loop' = Tail(loop)
    /\ sta' = Connected(sta)
    /\ isConnect' = FALSE /\ wifiSok' = FALSE
    /\ told' = [told EXCEPT !["Wifi"] = FALSE]
    /\ UNCHANGED <<app, queues, eth, isDown, checkStatus, missed>>

StaGotIp ==
    /\ Handles("StaGotIp")
    /\ loop' = Tail(loop)
    /\ isConnect' = TRUE /\ checkStatus' = FALSE
    /\ told' = [told EXCEPT !["Wifi"] = TRUE]
    /\ UNCHANGED <<app, queues, eth, sta, isDown, wifiSok, missed>>

---------------------------------------------------------------------------
(* WifiEventRecvHandler, as a step from the driver and the loop it finds   *)
(* to those it leaves: first the configuration, then the order.            *)

Driver(s, l, m) == [sta |-> s, loop |-> l, missed |-> m]

(* The driver announces a connection that was ended on purpose.            *)
Disconnected(d) ==
    IF d.sta \in Active
      THEN Driver("idle", Posted(d.loop, "StaDisconnected"),
                  d.missed \/ Lost(d.loop))
      ELSE d

Restarted(d) ==
    IF d.sta = "stopped"
      THEN Driver("connecting", Posted(d.loop, "StaStart"),
                  d.missed \/ Lost(d.loop))
      ELSE [d EXCEPT !.sta = Connected(@)]

(* fault: a new configuration starts WiFi also while it is ordered down *)
ConfiguredAlways(d) ==
    IF configs = <<>> THEN d
    ELSE Restarted(IF isConnect THEN Disconnected(d) ELSE d)

Configured(d) ==
    IF configs = <<>> \/ isDown THEN d
    ELSE Restarted(IF isConnect THEN Disconnected(d) ELSE d)

Ordered(d) ==
    IF orders = <<>> THEN d
    ELSE IF Head(orders) = "UpWifi" THEN Restarted(d)
    ELSE [Disconnected(d) EXCEPT !.sta = "stopped"]

Popped(q) == IF q = <<>> THEN q ELSE Tail(q)

(* fault: an order is not taken with a configuration *)
WifiEventRecvOne ==
    /\ Handles("Trigger")
    /\ LET d0 == Configured(Driver(sta, Tail(loop), missed))
           d  == IF configs = <<>> THEN Ordered(d0) ELSE d0
       IN  sta' = d.sta /\ loop' = d.loop /\ missed' = d.missed
    /\ checkStatus' = (checkStatus \/ (configs # <<>> /\ Head(configs) = "ReportDebug"))
    /\ isDown' = IF orders = <<>> \/ configs # <<>> THEN isDown ELSE Head(orders) = "DownWifi"
    /\ configs' = Popped(configs)
    /\ orders' = IF configs = <<>> THEN Popped(orders) ELSE orders
    /\ UNCHANGED <<app, posting, eth, isConnect, wifiSok, told>>

WifiEventRecvHandler ==
    /\ Handles("Trigger")
    /\ LET d == Ordered(Configured(Driver(sta, Tail(loop), missed)))
       IN  sta' = d.sta /\ loop' = d.loop /\ missed' = d.missed
    /\ checkStatus' = (checkStatus \/ (configs # <<>> /\ Head(configs) = "ReportDebug"))
    /\ isDown' = IF orders = <<>> THEN isDown ELSE Head(orders) = "DownWifi"
    /\ configs' = Popped(configs)
    /\ orders' = Popped(orders)
    /\ UNCHANGED <<app, posting, eth, isConnect, wifiSok, told>>

EventLoop ==
    \/ Take
    \/ EthConnected \/ EthDisconnected \/ EthGotIp
    \/ StaStart \/ StaDisconnected \/ StaGotIp
    \/ WifiEventRecvHandler

Next ==
    \/ EventLoop
    \/ StaProgress \/ EthProgress
    \/ WifiInit \/ Poll
    \/ \E m \in Configs : MqttSends(m)
    \/ MqttTriggers

Spec == Init /\ [][Next]_vars

(* The tasks are scheduled: the loop, app_main and mqtt.                   *)
LiveSpec ==
    /\ Spec
    /\ WF_vars(EventLoop)
    /\ WF_vars(WifiInit) /\ WF_vars(Poll)
    /\ WF_vars(MqttTriggers)

---------------------------------------------------------------------------
(* The types of the variables and the capacity of the queues.              *)
TypeOK ==
    /\ app \in {"start", "poll", "done"}
    /\ loop \in Seq(Events) /\ Len(loop) <= LoopLen + (IF busy THEN 1 ELSE 0)
    /\ busy \in BOOLEAN /\ (busy => loop # <<>>)
    /\ orders \in Seq(Orders) /\ Len(orders) <= QueueLen
    /\ configs \in Seq(Configs) /\ Len(configs) <= QueueLen
    /\ posting \in BOOLEAN
    /\ eth \in {"down", "up", "online"}
    /\ sta \in {"stopped", "idle"} \cup Active
    /\ isDown \in BOOLEAN /\ isConnect \in BOOLEAN
    /\ wifiSok \in BOOLEAN /\ checkStatus \in BOOLEAN
    /\ told \in [{"Eth", "Wifi"} -> BOOLEAN]
    /\ missed \in BOOLEAN

(* While WiFi is ordered down its station stays stopped, whatever late     *)
(* events of the driver and new configurations are handled meanwhile.      *)
StaysDown == isDown => sta = "stopped"

(* A message that waits for WifiEventRecvHandler has a trigger of its own  *)
(* in the loop, or on its way there, although one trigger serves both      *)
(* queues; only a lost event leaves one behind.                            *)
MessagesHaveTriggers ==
    LET triggers == Cardinality({i \in 1..Len(loop) : loop[i] = "Trigger"}) IN
    missed \/ /\ Len(orders)  <= triggers
              /\ Len(configs) <= triggers + (IF posting THEN 1 ELSE 0)

(* The last of the elements of q that decide says yes, or known does when  *)
(* none decides.                                                           *)
Newest(q, Yes, No, known) ==
    \/ \E i \in 1..Len(q) : /\ q[i] = Yes
                            /\ \A j \in (i+1)..Len(q) : q[j] \notin {Yes, No}
    \/ known /\ \A i \in 1..Len(q) : q[i] \notin {Yes, No}

(* WiFi lags the cable only by the events and the orders that wait: the    *)
(* newest of them, or failing that isDown, is what the cable is.           *)
FollowsCable ==
    missed \/ (Newest(loop, "CableUp", "CableDown",
                      Newest(orders, "DownWifi", "UpWifi", isDown))
                 <=> eth # "down")

(* What each interface has reported, and what WiFi believes itself, lags   *)
(* the connection only by the events that wait.                            *)
ReportsConnection ==
    missed \/ /\ Newest(loop, "EthGotIp", "CableDown", told["Eth"]) <=> eth = "online"
              /\ Newest(loop, "StaGotIp", "StaDisconnected", told["Wifi"])
                   <=> sta = "online"
              /\ isConnect = told["Wifi"]

(* A station that runs is never left without a connection attempt: it is   *)
(* connecting, or an event waits whose handler connects it.                *)
NeverLeftIdle ==
    sta = "idle" => \/ missed
                    \/ \E i \in 1..Len(loop) : loop[i] \in {"StaStart", "StaDisconnected"}

(* Once the cable stays as it is, WiFi ends up as the cable asks.          *)
CableObeyed ==
    /\ <>[](eth # "down") => <>[](missed \/ isDown)
    /\ <>[](eth = "down") => <>[](missed \/ ~isDown)

(* wifi.c:224 says that a station that has started is all that WifiInit    *)
(* has to wait for: once it has, app_main goes on.                         *)
WifiInitReturns == wifiSok ~> app = "done"
============================================================================
