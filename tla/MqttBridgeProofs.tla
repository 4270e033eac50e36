-------------------------- MODULE MqttBridgeProofs --------------------------
(* Proofs about MqttBridge: the types, that no order is reported OK more   *)
(* often than it was accepted, that the client is not left stopped, and    *)
(* that the newest update is not forgotten, whatever the bridge does.  The *)
(* inductive invariant is in four parts, each kept by lemmas of its own.   *)
EXTENDS MqttBridge, OtaUpdateProofs

BridgeTypeOK ==
    /\ client \in {"stopped", "connecting", "connected"} /\ connect \in BOOLEAN
    /\ netFirstConnect \in BOOLEAN /\ netToMqtt \in BOOLEAN
    /\ handler \in {"idle", "url", "rest", "stop", "start", "send", "attr"}
    /\ order \in Orders /\ attr \in Attrs
    /\ loop \in Seq(Events) /\ Len(loop) <= LoopLen
    /\ task \in {"idle", "lines", "clear", "rest", "stop", "start", "PtSend"} \cup Reported
    /\ change \in Configs
    /\ config \in [url : Configs, rest : Configs] /\ used \in [url : Configs, rest : Configs]
    /\ mqttToUart \in Seq(Requests) /\ Len(mqttToUart) <= QueueLen
    /\ uartToMqtt \in Seq(Lines) /\ Len(uartToMqtt) <= QueueLen
    /\ turns \in 0..MaxTurns
    /\ credit \in [Reported -> Int] /\ missed \subseteq {"STOPMQTT", "STARTMQTT"}

(* The handler has an order while it is at work, and posts no trigger of   *)
(* an update outside its last step.                                        *)
Ordered ==
    /\ handler # "idle" => order.what # "none"
    /\ posting => handler = "attr"

(* There is credit for the order that is about to be reported, for the     *)
(* value that attr is about to get and for the one that it has, unless     *)
(* what is being reported will clear that one.                             *)
One(condition) == IF condition THEN 1 ELSE 0
Clearing == {"clear", "PtSend"} \cup Reported
Credited ==
    \A k \in Reported :
        credit[k] >= One(task = k) + One(handler = "attr" /\ order.what = k)
                       + One(attr = k /\ task \notin Clearing)

(* Whoever has posted STOPMQTT is about to post STARTMQTT, or every        *)
(* STOPMQTT is followed by a STARTMQTT.                                    *)
Between == handler = "start" \/ task = "start"
StartWaits == \E i \in DOMAIN loop : loop[i] = "STARTMQTT"
StopsFollowed ==
    \A i \in DOMAIN loop : loop[i] = "STOPMQTT" =>
        \E j \in DOMAIN loop : j > i /\ loop[j] = "STARTMQTT"
Followed == "STARTMQTT" \notin missed => StopsFollowed \/ Between

BridgeInv == BridgeTypeOK /\ OtaInv /\ Ordered /\ Credited /\ Followed /\ NotCutOff

---------------------------------------------------------------------------
LEMMA BridgeInitially == Init => BridgeInv
<1> SUFFICES ASSUME Init PROVE BridgeInv
  OBVIOUS
<1>1. OtaInv
  BY OtaInitially DEF Init
<1>2. BridgeTypeOK
  <2>1. 0 \in Configs /\ 0 \in 0..MaxTurns
    BY BridgeAssumption DEF Configs
  <2>2. /\ Len(loop) = 0 /\ Len(mqttToUart) = 0 /\ Len(uartToMqtt) = 0
        /\ loop \in Seq(Events) /\ mqttToUart \in Seq(Requests) /\ uartToMqtt \in Seq(Lines)
    BY DEF Init, MQTTInit
  <2>3. Len(loop) <= LoopLen /\ Len(mqttToUart) <= QueueLen /\ Len(uartToMqtt) <= QueueLen
    BY <2>2, BridgeAssumption
  <2>4. order \in Orders /\ attr \in Attrs
    BY <2>1 DEF Init, MQTTInit, Orders, Attrs, Nothing, Of
  <2>5. config \in [url : Configs, rest : Configs] /\ used \in [url : Configs, rest : Configs]
    BY <2>1 DEF Init
  <2>6. credit \in [Reported -> Int]
    BY DEF Init, MQTTInit
  <2> QED
    BY <2>1, <2>2, <2>3, <2>4, <2>5, <2>6 DEF Init, MQTTInit, BridgeTypeOK
<1>3. Ordered /\ NotCutOff
  BY DEF Init, MQTTInit, OtaInit, Ordered, NotCutOff
<1>4. Credited
  BY DEF Init, MQTTInit, Credited, One, Reported
<1>5. Followed
  BY DEF Init, MQTTInit, Followed, StopsFollowed
<1> QED  BY <1>1, <1>2, <1>3, <1>4, <1>5 DEF BridgeInv

---------------------------------------------------------------------------
(* The queue of the loop.                                                  *)

LEMMA PostTypes ==
  ASSUME BridgeTypeOK, NEW event \in Events, Post(event)
  PROVE  /\ loop' \in Seq(Events) /\ Len(loop') <= LoopLen
         /\ missed' \subseteq {"STOPMQTT", "STARTMQTT"}
<1>1. CASE Room
  <2>1. loop' = Append(loop, event) /\ missed' = missed /\ Len(loop) < LoopLen
    BY <1>1 DEF Post, Room
  <2> QED  BY <2>1, BridgeAssumption DEF BridgeTypeOK
<1>2. CASE ~Room
  <2>1. missed' \subseteq {"STOPMQTT", "STARTMQTT"}
    BY <1>2 DEF Post, Events, BridgeTypeOK
  <2> QED  BY <1>2, <2>1 DEF Post, BridgeTypeOK
<1> QED  BY <1>1, <1>2

LEMMA PostKeeps ==
  ASSUME BridgeTypeOK, NEW event \in {"START", "STARTMQTT"}, Post(event)
  PROVE  /\ StopsFollowed => StopsFollowed'
         /\ StartWaits => StartWaits'
         /\ "STARTMQTT" \notin missed' => "STARTMQTT" \notin missed
<1>1. CASE Room
  <2>1. /\ loop' = Append(loop, event) /\ loop \in Seq(Events)
        /\ Len(loop) \in Nat /\ Len(loop') = Len(loop) + 1
        /\ DOMAIN loop = 1..Len(loop) /\ DOMAIN loop' = 1..(Len(loop) + 1)
        /\ \A i \in 1..Len(loop) : loop'[i] = loop[i]
        /\ loop'[Len(loop) + 1] = event
    BY <1>1 DEF Post, BridgeTypeOK
  <2>2. StopsFollowed => StopsFollowed'
    <3> SUFFICES ASSUME StopsFollowed, NEW i \in DOMAIN loop', loop'[i] = "STOPMQTT"
                 PROVE  \E j \in DOMAIN loop' : j > i /\ loop'[j] = "STARTMQTT"
      BY DEF StopsFollowed
    <3>1. i \in DOMAIN loop /\ loop[i] = "STOPMQTT"
      BY <2>1
    <3>2. PICK j \in DOMAIN loop : j > i /\ loop[j] = "STARTMQTT"
      BY <3>1 DEF StopsFollowed
    <3> QED  BY <2>1, <3>2
  <2>3. StartWaits => StartWaits'
    BY <2>1 DEF StartWaits
  <2> QED  BY <2>2, <2>3 DEF Post
<1>2. CASE ~Room
  BY <1>2 DEF Post, StopsFollowed, StartWaits
<1> QED  BY <1>1, <1>2

LEMMA PostStartFollows ==
  ASSUME BridgeTypeOK, Post("STARTMQTT"), "STARTMQTT" \notin missed'
  PROVE  StopsFollowed' /\ StartWaits'
<1>1. /\ loop' = Append(loop, "STARTMQTT") /\ loop \in Seq(Events)
      /\ Len(loop) \in Nat /\ DOMAIN loop' = 1..(Len(loop) + 1)
      /\ loop'[Len(loop) + 1] = "STARTMQTT"
  <2>1. Room
    BY Zenon DEF Post
  <2> QED  BY <2>1 DEF Post, BridgeTypeOK
<1>2. StartWaits'
  BY <1>1 DEF StartWaits
<1>3. StopsFollowed'
  <2> SUFFICES ASSUME NEW i \in DOMAIN loop', loop'[i] = "STOPMQTT"
               PROVE  \E j \in DOMAIN loop' : j > i /\ loop'[j] = "STARTMQTT"
    BY DEF StopsFollowed
  <2>1. i # Len(loop) + 1
    BY <1>1
  <2> QED  BY <1>1, <2>1
<1> QED  BY <1>2, <1>3

LEMMA TakeTypes ==
  ASSUME BridgeTypeOK, NEW event, Takes(event)
  PROVE  loop' \in Seq(Events) /\ Len(loop') <= LoopLen
<1>1. loop \in Seq(Events) /\ loop # <<>> /\ loop' = Tail(loop)
  BY DEF Takes, BridgeTypeOK
<1>2. loop' \in Seq(Events) /\ Len(loop') = Len(loop) - 1
  BY <1>1, HeadTailProperties
<1> QED  BY <1>1, <1>2, BridgeAssumption DEF BridgeTypeOK

LEMMA TakeKeeps ==
  ASSUME BridgeTypeOK, NEW event, Takes(event)
  PROVE  /\ StopsFollowed => StopsFollowed'
         /\ StartWaits /\ event # "STARTMQTT" => StartWaits'
         /\ StopsFollowed /\ event = "STOPMQTT" => StartWaits'
<1>1. loop \in Seq(Events) /\ loop # <<>> /\ loop' = Tail(loop) /\ Head(loop) = event
  BY DEF Takes, BridgeTypeOK
<1>2. /\ loop' \in Seq(Events) /\ Len(loop') = Len(loop) - 1
      /\ \A i \in 1..Len(loop') : loop'[i] = loop[i+1]
  BY <1>1, HeadTailProperties
<1>3. /\ Len(loop) \in Nat \ {0} /\ loop[1] = event
      /\ DOMAIN loop = 1..Len(loop) /\ DOMAIN loop' = 1..(Len(loop) - 1)
  BY <1>1, <1>2
<1>4. ASSUME NEW j \in DOMAIN loop, j > 1
      PROVE  j - 1 \in DOMAIN loop' /\ loop'[j - 1] = loop[j]
  BY <1>2, <1>3, <1>4
<1>5. StopsFollowed => StopsFollowed'
  <2> SUFFICES ASSUME StopsFollowed, NEW i \in DOMAIN loop', loop'[i] = "STOPMQTT"
               PROVE  \E j \in DOMAIN loop' : j > i /\ loop'[j] = "STARTMQTT"
    BY DEF StopsFollowed
  <2>1. i \in Nat /\ i >= 1 /\ i + 1 \in DOMAIN loop /\ loop[i + 1] = "STOPMQTT"
    BY <1>2, <1>3
  <2>2. PICK j \in DOMAIN loop : j > i + 1 /\ loop[j] = "STARTMQTT"
    BY <2>1 DEF StopsFollowed
  <2>3. j - 1 > i /\ j > 1
    BY <1>3, <2>1, <2>2
  <2> QED  BY <1>4, <2>2, <2>3
<1>6. StartWaits /\ event # "STARTMQTT" => StartWaits'
  <2> SUFFICES ASSUME StartWaits, event # "STARTMQTT" PROVE StartWaits'
    OBVIOUS
  <2>1. PICK j \in DOMAIN loop : loop[j] = "STARTMQTT"
    BY DEF StartWaits
  <2>2. j > 1
    BY <1>3, <2>1
  <2> QED  BY <1>4, <2>1, <2>2 DEF StartWaits
<1>7. StopsFollowed /\ event = "STOPMQTT" => StartWaits'
  <2> SUFFICES ASSUME StopsFollowed, event = "STOPMQTT" PROVE StartWaits'
    OBVIOUS
  <2>1. 1 \in DOMAIN loop /\ loop[1] = "STOPMQTT"
    BY <1>3
  <2>2. PICK j \in DOMAIN loop : j > 1 /\ loop[j] = "STARTMQTT"
    BY <2>1 DEF StopsFollowed
  <2> QED  BY <1>4, <2>2 DEF StartWaits
<1> QED  BY <1>5, <1>6, <1>7
---------------------------------------------------------------------------
(* The types.                                                              *)

LEMMA TurnIsConfig ==
  ASSUME BridgeTypeOK, turns < MaxTurns
  PROVE  turns + 1 \in 0..MaxTurns /\ turns + 1 \in Configs
  BY BridgeAssumption DEF BridgeTypeOK, Configs

LEMMA SendNetStateTypes ==
  ASSUME BridgeTypeOK, SendNetState
  PROVE  /\ mqttToUart' \in Seq(Requests) /\ Len(mqttToUart') <= QueueLen
         /\ handler' \in {"idle", "url", "rest", "stop", "start", "send", "attr"}
         /\ order' \in Orders
<1>1. CASE Len(mqttToUart) < QueueLen
  <2>1. Of("NetState", 0) \in Orders
    BY BridgeAssumption DEF Of, Orders, Requests, Configs
  <2>2. "NetState" \in Requests
    BY DEF Requests
  <2>3. /\ mqttToUart' = Append(mqttToUart, "NetState")
        /\ handler' = "attr" /\ order' = Of("NetState", 0)
    BY <1>1, Zenon DEF SendNetState
  <2>4. mqttToUart' \in Seq(Requests) /\ Len(mqttToUart') <= QueueLen
    BY <1>1, <2>2, <2>3, BridgeAssumption DEF BridgeTypeOK
  <2> QED  BY <2>1, <2>3, <2>4
<1>2. CASE ~(Len(mqttToUart) < QueueLen)
  BY <1>2 DEF SendNetState, BridgeTypeOK
<1> QED  BY <1>1, <1>2

LEMMA SendsMeans ==
  ASSUME SendRequest \/ SendNetCfg
  PROVE  /\ handler = "send" /\ HandlerOnly
         /\ UNCHANGED <<attr, config, loop, missed, otaVars>>
         /\ Accept \/ Refuse
         /\ \/ mqttToUart' = mqttToUart
            \/ Len(mqttToUart) < QueueLen /\ mqttToUart' = Append(mqttToUart, order.what)
  BY DEF SendRequest, SendNetCfg, Refuse

LEMMA HandlerTypes ==
  ASSUME BridgeInv, MQTTEventHandler
  PROVE  BridgeTypeOK'
<1> USE DEF BridgeInv
<1>1. CASE Connected
  BY <1>1, SendNetStateTypes DEF Connected, BridgeTypeOK, netVars, attrVars
<1>2. CASE WriteUrl \/ WriteRest
  <2>1. order.turn \in Configs
    BY DEF BridgeTypeOK, Orders
  <2>2. config' \in [url : Configs, rest : Configs]
    BY <1>2, <2>1 DEF WriteUrl, WriteRest, BridgeTypeOK
  <2> QED
    BY <1>2, <2>2 DEF WriteUrl, WriteRest, HandlerOnly, BridgeTypeOK, clientVars, netVars, attrVars
<1>3. CASE StopMqtt \/ StartMqtt
  <2>1. Post("STOPMQTT") \/ Post("STARTMQTT")
    BY <1>3 DEF StopMqtt, StartMqtt, MQTTMessageStopMqtt, MQTTMessageStartMqtt
  <2>2. loop' \in Seq(Events) /\ Len(loop') <= LoopLen /\ missed' \subseteq {"STOPMQTT", "STARTMQTT"}
    BY <2>1, PostTypes DEF Events
  <2> QED
    BY <1>3, <2>2 DEF StopMqtt, StartMqtt, HandlerOnly, BridgeTypeOK, clientVars, netVars, attrVars
<1>4. CASE SendRequest \/ SendNetCfg
  <2>1. order.what \in Requests
    BY <1>4 DEF SendRequest, SendNetCfg, BridgeTypeOK, Orders, Ordered
  <2>2. mqttToUart' \in Seq(Requests) /\ Len(mqttToUart') <= QueueLen
    <3>1. CASE mqttToUart' = mqttToUart
      BY <3>1 DEF BridgeTypeOK
    <3>2. CASE Len(mqttToUart) < QueueLen /\ mqttToUart' = Append(mqttToUart, order.what)
      BY <2>1, <3>2, BridgeAssumption DEF BridgeTypeOK
    <3> QED  BY <1>4, <3>1, <3>2, SendsMeans
  <2>3. Nothing \in Orders
    BY BridgeAssumption DEF Nothing, Of, Orders, Configs
  <2>4. CASE Accept
    <3>1. handler' = "attr" /\ order' = order /\ credit' \in [Reported -> Int]
      BY <2>4 DEF Accept, BridgeTypeOK
    <3> QED
      BY <1>4, <2>2, <3>1, SendsMeans DEF HandlerOnly, BridgeTypeOK, clientVars, netVars
  <2>5. CASE Refuse
    BY <1>4, <2>2, <2>3, <2>5, SendsMeans DEF Refuse, HandlerOnly, BridgeTypeOK, clientVars, netVars
  <2> QED  BY <1>4, <2>4, <2>5, SendsMeans
<1>5. CASE CpuUpdate
  BY <1>5 DEF CpuUpdate, HandlerOnly, BridgeTypeOK, clientVars, netVars, attrVars
<1>6. CASE SetAttr
  <2>1. Nothing \in Orders
    BY BridgeAssumption DEF Nothing, Of, Orders, Configs
  <2>2. order.what \in Attrs
    BY <1>6 DEF SetAttr, BridgeTypeOK, Ordered, Orders, Attrs
  <2> QED
    BY <1>6, <2>1, <2>2 DEF SetAttr, HandlerOnly, BridgeTypeOK, clientVars, netVars
<1> QED  BY <1>1, <1>2, <1>3, <1>4, <1>5, <1>6 DEF MQTTEventHandler

LEMMA SaysTypes ==
  ASSUME BridgeTypeOK, NEW what \in {"OK", "PTSEND", "GET", "UPDATE"}, NEW turn \in Configs,
         Says(what, turn)
  PROVE  /\ uartToMqtt' \in Seq(Lines) /\ Len(uartToMqtt') <= QueueLen
         /\ loop' \in Seq(Events) /\ Len(loop') <= LoopLen /\ missed' \subseteq {"STOPMQTT", "STARTMQTT"}
<1>1. Of(what, turn) \in Lines
  BY DEF Of, Lines
<1>2. uartToMqtt' \in Seq(Lines) /\ Len(uartToMqtt') <= QueueLen
  BY <1>1, BridgeAssumption DEF Says, BridgeTypeOK
<1>3. loop' \in Seq(Events) /\ Len(loop') <= LoopLen /\ missed' \subseteq {"STOPMQTT", "STARTMQTT"}
  BY PostTypes DEF Says, Trigger, Events
<1> QED  BY <1>2, <1>3

LEMMA AnswerIsLine ==
  ASSUME NEW request
  PROVE  Answer(request) \in {"OK", "PTSEND", "GET", "UPDATE"}
  BY DEF Answer

LEMMA OutsideTypes ==
  ASSUME BridgeTypeOK, Outside
  PROVE  BridgeTypeOK'
<1>1. CASE timer_cb \/ NetConnect
  <2>1. loop' \in Seq(Events) /\ Len(loop') <= LoopLen /\ missed' \subseteq {"STOPMQTT", "STARTMQTT"}
    BY <1>1, PostTypes DEF timer_cb, NetConnect, Trigger, Events
  <2>2. CASE timer_cb
    BY <2>1, <2>2 DEF timer_cb, BridgeTypeOK, clientVars, netVars, attrVars
  <2>3. CASE NetConnect
    BY <2>1, <2>3 DEF NetConnect, BridgeTypeOK, clientVars, netVars, attrVars
  <2> QED
    BY <1>1, <2>2, <2>3
<1>2. CASE Disconnected
  BY <1>2, SendNetStateTypes, TurnIsConfig DEF Disconnected, BridgeTypeOK, netVars, attrVars
<1>3. CASE \E o \in Reported \cup {"PtSend", "Get", "Reboot", "Update"} : MQTTMessageSendHandler(o)
  <2>1. PICK o \in Reported \cup {"PtSend", "Get", "Reboot", "Update"} : MQTTMessageSendHandler(o)
    BY <1>3
  <2>2. turns' \in 0..MaxTurns /\ turns' \in Configs
    BY <2>1, TurnIsConfig DEF MQTTMessageSendHandler
  <2>3. order' \in Orders
    BY <2>1, <2>2 DEF MQTTMessageSendHandler, Of, Orders, Requests
  <2> QED
    BY <2>1, <2>2, <2>3 DEF MQTTMessageSendHandler, BridgeTypeOK, clientVars, netVars, attrVars
<1>4. CASE Answered
  <2>1. mqttToUart' \in Seq(Requests) /\ Len(mqttToUart') <= QueueLen
    <3>1. /\ mqttToUart \in Seq(Requests) /\ mqttToUart # <<>>
          /\ mqttToUart' = Tail(mqttToUart)
      BY <1>4 DEF Answered, BridgeTypeOK
    <3>2. mqttToUart' \in Seq(Requests) /\ Len(mqttToUart') = Len(mqttToUart) - 1
      BY <3>1, HeadTailProperties
    <3> QED  BY <3>1, <3>2, BridgeAssumption DEF BridgeTypeOK
  <2>2. /\ uartToMqtt' \in Seq(Lines) /\ Len(uartToMqtt') <= QueueLen
        /\ loop' \in Seq(Events) /\ Len(loop') <= LoopLen /\ missed' \subseteq {"STOPMQTT", "STARTMQTT"}
    <3>1. 0 \in Configs
      BY BridgeAssumption DEF Configs
    <3>2. CASE Says(Answer(Head(mqttToUart)), 0)
      BY <3>1, <3>2, SaysTypes, AnswerIsLine
    <3>3. CASE UNCHANGED <<uartToMqtt, loop, missed>>
      BY <3>3 DEF BridgeTypeOK
    <3> QED  BY <1>4, <3>2, <3>3 DEF Answered
  <2> QED
    BY <1>4, <2>1, <2>2 DEF Answered, ModuleOnly, BridgeTypeOK, clientVars, netVars, attrVars
<1>5. CASE AnsweredAgain \/ OtherAnswered \/ Changed
  <2>1. /\ turns < MaxTurns /\ turns' = turns + 1
        /\ Says(Answer(Head(mqttToUart)), 0) \/ Says("OK", 0) \/ Says("UPDATE", turns + 1)
    BY <1>5 DEF AnsweredAgain, OtherAnswered, Changed
  <2>2. turns' \in 0..MaxTurns /\ turns + 1 \in Configs /\ 0 \in Configs
    BY <2>1, TurnIsConfig, BridgeAssumption DEF Configs
  <2>3. /\ uartToMqtt' \in Seq(Lines) /\ Len(uartToMqtt') <= QueueLen
        /\ loop' \in Seq(Events) /\ Len(loop') <= LoopLen /\ missed' \subseteq {"STOPMQTT", "STARTMQTT"}
    BY <2>1, <2>2, SaysTypes, AnswerIsLine
  <2> QED
    BY <1>5, <2>2, <2>3 DEF AnsweredAgain, OtherAnswered, Changed, ModuleOnly, BridgeTypeOK,
                            clientVars, netVars, attrVars
<1> QED  BY <1>1, <1>2, <1>3, <1>4, <1>5 DEF Outside

LEMMA TakesLineTypes ==
  ASSUME BridgeTypeOK, NEW what, TakesLine(what)
  PROVE  /\ uartToMqtt' \in Seq(Lines) /\ Len(uartToMqtt') <= QueueLen
         /\ Head(uartToMqtt).turn \in Configs
<1>1. uartToMqtt \in Seq(Lines) /\ uartToMqtt # <<>> /\ uartToMqtt' = Tail(uartToMqtt)
  BY DEF TakesLine, BridgeTypeOK
<1>2. /\ uartToMqtt' \in Seq(Lines) /\ Len(uartToMqtt') = Len(uartToMqtt) - 1
      /\ Head(uartToMqtt) \in Lines
  BY <1>1, HeadTailProperties
<1>3. Len(uartToMqtt') <= QueueLen
  BY <1>1, <1>2, BridgeAssumption DEF BridgeTypeOK
<1> QED  BY <1>2, <1>3 DEF Lines

LEMMA LoopTaskTypes ==
  ASSUME BridgeTypeOK, MQTTNetEventHandler
  PROVE  BridgeTypeOK'
<1>1. CASE START
  <2>1. loop' \in Seq(Events) /\ Len(loop') <= LoopLen
    BY <1>1, TakeTypes DEF START
  <2>2. /\ client' \in {"stopped", "connecting", "connected"}
        /\ netFirstConnect' \in BOOLEAN /\ netToMqtt' \in BOOLEAN
    BY <1>1 DEF START, BridgeTypeOK
  <2> QED  BY <1>1, <2>1, <2>2 DEF START, TaskOnly, BridgeTypeOK, attrVars
<1>2. CASE STOPMQTT \/ STARTMQTT
  <2>1. loop' \in Seq(Events) /\ Len(loop') <= LoopLen
    BY <1>2, TakeTypes DEF STOPMQTT, STARTMQTT
  <2>2. /\ client' \in {"stopped", "connecting", "connected"}
        /\ used' \in [url : Configs, rest : Configs]
    BY <1>2 DEF STOPMQTT, STARTMQTT, BridgeTypeOK
  <2> QED
    BY <1>2, <2>1, <2>2 DEF STOPMQTT, STARTMQTT, TaskOnly, BridgeTypeOK, netVars, attrVars
<1>3. CASE NoLine \/ ClearAttr
  <2>1. "Cnt" \in Attrs
    BY DEF Attrs
  <2> QED
    BY <1>3, <2>1 DEF NoLine, ClearAttr, TaskOnly, LineOnly, BridgeTypeOK, clientVars, netVars, attrVars
<1>4. CASE GetLine \/ OkLine \/ PtSendLine
  <2>1. uartToMqtt' \in Seq(Lines) /\ Len(uartToMqtt') <= QueueLen
    BY <1>4, TakesLineTypes DEF GetLine, OkLine, PtSendLine
  <2>2. task' \in {"lines", "clear", "PtSend"} \cup Reported
    BY <1>4 DEF GetLine, OkLine, PtSendLine
  <2>3. TaskOnly /\ LineOnly /\ UNCHANGED <<attrVars, change, config, loop, missed>>
    BY <1>4 DEF GetLine, OkLine, PtSendLine
  <2> QED
    BY <2>1, <2>2, <2>3 DEF TaskOnly, LineOnly, BridgeTypeOK, clientVars, netVars, attrVars
<1>5. CASE MQTTMessageRecvUartCommonOkHandler
  <2>1. credit' \in [Reported -> Int] /\ task' = "clear"
    BY <1>5 DEF MQTTMessageRecvUartCommonOkHandler, BridgeTypeOK
  <2> QED
    BY <1>5, <2>1 DEF MQTTMessageRecvUartCommonOkHandler, TaskOnly, LineOnly, BridgeTypeOK,
                      clientVars, netVars
<1>6. CASE UpdateLine
  <2>1. change' \in Configs /\ uartToMqtt' \in Seq(Lines) /\ Len(uartToMqtt') <= QueueLen
    BY <1>6, TakesLineTypes DEF UpdateLine
  <2>2. config' \in [url : Configs, rest : Configs]
    BY <1>6, <2>1 DEF UpdateLine, BridgeTypeOK
  <2> QED
    BY <1>6, <2>1, <2>2 DEF UpdateLine, TaskOnly, LineOnly, BridgeTypeOK, clientVars, netVars, attrVars
<1>7. CASE UpdateRest
  <2>1. 0 \in Configs
    BY BridgeAssumption DEF Configs
  <2>2. config' \in [url : Configs, rest : Configs]
    BY <1>7 DEF UpdateRest, BridgeTypeOK
  <2> QED
    BY <1>7, <2>1, <2>2 DEF UpdateRest, TaskOnly, LineOnly, BridgeTypeOK, clientVars, netVars, attrVars
<1>8. CASE UpdateStop \/ UpdateStart
  <2>1. Post("STOPMQTT") \/ Post("STARTMQTT")
    BY <1>8 DEF UpdateStop, UpdateStart, MQTTMessageStopMqtt, MQTTMessageStartMqtt
  <2>2. loop' \in Seq(Events) /\ Len(loop') <= LoopLen /\ missed' \subseteq {"STOPMQTT", "STARTMQTT"}
    BY <2>1, PostTypes DEF Events
  <2> QED
    BY <1>8, <2>2 DEF UpdateStop, UpdateStart, TaskOnly, LineOnly, BridgeTypeOK, clientVars,
                      netVars, attrVars
<1> QED  BY <1>1, <1>2, <1>3, <1>4, <1>5, <1>6, <1>7, <1>8 DEF MQTTNetEventHandler

LEMMA RestartTypes ==
  ASSUME BridgeTypeOK, esp_restart
  PROVE  BridgeTypeOK'
<1>1. /\ Len(loop') = 0 /\ Len(mqttToUart') = 0 /\ Len(uartToMqtt') = 0
      /\ loop' \in Seq(Events) /\ mqttToUart' \in Seq(Requests) /\ uartToMqtt' \in Seq(Lines)
  BY DEF esp_restart
<1>2. Len(loop') <= LoopLen /\ Len(mqttToUart') <= QueueLen /\ Len(uartToMqtt') <= QueueLen
  BY <1>1, BridgeAssumption
<1>3. order' \in Orders /\ attr' \in Attrs /\ change' \in Configs
  BY BridgeAssumption DEF esp_restart, Orders, Attrs, Nothing, Of, Configs
<1>4. config' \in [url : Configs, rest : Configs] /\ used' \in [url : Configs, rest : Configs]
  BY DEF esp_restart, BridgeTypeOK
<1>5. credit' \in [Reported -> Int]
  BY DEF esp_restart
<1> QED  BY <1>1, <1>2, <1>3, <1>4, <1>5 DEF esp_restart, BridgeTypeOK

LEMMA TypesKept ==
  ASSUME BridgeInv, [Next]_vars
  PROVE  BridgeTypeOK'
<1>1. BridgeTypeOK
  BY DEF BridgeInv
<1>2. CASE UNCHANGED bridgeVars
  BY <1>1, <1>2 DEF BridgeTypeOK, bridgeVars, clientVars, netVars, attrVars
<1>3. [Outside \/ MQTTEventHandler \/ MQTTNetEventHandler \/ esp_restart]_bridgeVars
  BY DEF Next, vars
<1> QED
  BY <1>1, <1>2, <1>3, OutsideTypes, HandlerTypes, LoopTaskTypes, RestartTypes
---------------------------------------------------------------------------
(* The update and the handler.                                             *)

LEMMA OtaKept ==
  ASSUME BridgeInv, [Next]_vars
  PROVE  OtaInv' /\ Ordered'
<1> USE DEF BridgeInv
<1>1. CASE CpuUpdate
  <2>1. handler = "send" /\ handler' = "attr" /\ order' = order
    BY <1>1 DEF CpuUpdate
  <2>2. ~posting
    BY <2>1 DEF Ordered
  <2>3. OtaInv'
    BY <1>1, <2>2, SendKeeps DEF CpuUpdate
  <2> QED  BY <2>1, <2>3 DEF Ordered
<1>2. CASE OtaStep /\ UNCHANGED bridgeVars
  <2>1. posting' => posting
    BY <1>2 DEF OtaStep, UpdateTriggerRecv, UpdateEventRecvHandler, Copied, OtaTask, TakeSem,
                Begin, Compare, Perform, senderVars
  <2> QED  BY <1>2, <2>1, OtaStepKeeps DEF bridgeVars, Ordered
<1>3. CASE esp_restart
  BY <1>3, RestartKeeps DEF esp_restart, Restart, Ordered
<1>4. CASE \/ Outside \/ MQTTNetEventHandler \/ Connected \/ WriteUrl \/ WriteRest
           \/ StopMqtt \/ StartMqtt \/ SendRequest \/ SendNetCfg \/ SetAttr
           \/ UNCHANGED vars
  <2>1. UNCHANGED otaVars
    BY <1>4 DEF Outside, timer_cb, NetConnect, Disconnected, MQTTMessageSendHandler, Answered,
                AnsweredAgain, OtherAnswered, Changed, ModuleOnly, MQTTNetEventHandler, START,
                STOPMQTT, STARTMQTT, NoLine, GetLine, OkLine, PtSendLine,
                MQTTMessageRecvUartCommonOkHandler, ClearAttr, UpdateLine, UpdateRest,
                UpdateStop, UpdateStart, TaskOnly, Connected, WriteUrl, WriteRest, StopMqtt,
                StartMqtt, SendRequest, SendNetCfg, SetAttr, vars
  <2>2. OtaInv' /\ posting' = posting
    BY <2>1, OtaStutters DEF otaVars, senderVars
  <2>3. CASE UNCHANGED <<handler, order>>
    BY <2>2, <2>3 DEF Ordered
  <2>4. CASE WriteUrl \/ WriteRest \/ StopMqtt \/ StartMqtt
    BY <2>2, <2>4 DEF WriteUrl, WriteRest, StopMqtt, StartMqtt, Ordered
  <2>5. CASE SendRequest \/ SendNetCfg \/ SetAttr
    BY <2>2, <2>5 DEF SendRequest, SendNetCfg, Accept, Refuse, SetAttr, Ordered
  <2>6. CASE Connected \/ Disconnected
    BY <2>2, <2>3, <2>6 DEF Connected, Disconnected, SendNetState, Of, Ordered
  <2>7. CASE \E o \in Reported \cup {"PtSend", "Get", "Reboot", "Update"} : MQTTMessageSendHandler(o)
    BY <2>2, <2>7 DEF MQTTMessageSendHandler, Of, Reported, Ordered
  <2>8. \/ Connected \/ Disconnected \/ WriteUrl \/ WriteRest \/ StopMqtt \/ StartMqtt
        \/ SendRequest \/ SendNetCfg \/ SetAttr \/ UNCHANGED <<handler, order>>
        \/ \E o \in Reported \cup {"PtSend", "Get", "Reboot", "Update"} : MQTTMessageSendHandler(o)
    BY <1>4 DEF Outside, timer_cb, NetConnect, Answered, AnsweredAgain, OtherAnswered,
                Changed, ModuleOnly, MQTTNetEventHandler, START, STOPMQTT, STARTMQTT, NoLine,
                GetLine, OkLine, PtSendLine, MQTTMessageRecvUartCommonOkHandler, ClearAttr,
                UpdateLine, UpdateRest, UpdateStop, UpdateStart, TaskOnly, vars,
                bridgeVars
  <2> QED  BY <2>2, <2>3, <2>4, <2>5, <2>6, <2>7, <2>8
<1> QED
  BY <1>1, <1>2, <1>3, <1>4 DEF Next, MQTTEventHandler

---------------------------------------------------------------------------
(* attr and what is reported                                               *)

(* Nothing is needed of a step that neither writes attr nor uses credit,   *)
(* begins no report and leaves the handler before its last step.           *)
LEMMA CreditStays ==
  ASSUME Credited, UNCHANGED attrVars,
         handler' = "attr" => order'.what \notin Reported \/ UNCHANGED <<handler, order>>,
         task' \in Reported => task' = task,
         task \in Clearing => task' \in Clearing,
         credit \in [Reported -> Int]
  PROVE  Credited'
<1> SUFFICES ASSUME NEW k \in Reported
             PROVE  credit'[k] >= One(task' = k) + One(handler' = "attr" /\ order'.what = k)
                                    + One(attr' = k /\ task' \notin Clearing)
  BY DEF Credited, One, Clearing
<1>1. credit[k] >= One(task = k) + One(handler = "attr" /\ order.what = k)
                     + One(attr = k /\ task \notin Clearing)
  BY DEF Credited
<1>2. attr' = attr /\ credit'[k] = credit[k] /\ credit[k] \in Int
  BY DEF attrVars
<1>3. One(attr' = k /\ task' \notin Clearing) <= One(attr = k /\ task \notin Clearing)
  BY <1>2 DEF One
<1>4. One(handler' = "attr" /\ order'.what = k) <= One(handler = "attr" /\ order.what = k)
  BY DEF One
<1>5. One(task' = k) <= One(task = k)
  BY DEF One
<1> QED  BY <1>1, <1>2, <1>3, <1>4, <1>5 DEF One

LEMMA CreditKept ==
  ASSUME BridgeInv, [Next]_vars
  PROVE  Credited'
<1> USE DEF BridgeInv
<1>0. credit \in [Reported -> Int]
  BY DEF BridgeTypeOK
<1>1. CASE SendRequest \/ SendNetCfg
  <2>1. handler = "send" /\ attr' = attr /\ task' = task
    BY <1>1, SendsMeans DEF HandlerOnly
  <2>2. CASE Accept
    <3> SUFFICES ASSUME NEW k \in Reported
                 PROVE  credit'[k] >= One(task' = k)
                                        + One(handler' = "attr" /\ order'.what = k)
                                        + One(attr' = k /\ task' \notin Clearing)
      BY DEF Credited, One, Clearing
    <3>1. order' = order /\ credit'[k] = credit[k] + (IF k = order.what THEN 1 ELSE 0)
      BY <2>2 DEF Accept
    <3>2. credit[k] >= One(task = k) + One(attr = k /\ task \notin Clearing) /\ credit[k] \in Int
      BY <1>0, <2>1 DEF Credited, One
    <3> QED  BY <2>1, <3>1, <3>2 DEF One
  <2>3. CASE Refuse
    <3>1. handler' = "idle" /\ UNCHANGED attrVars
      BY <2>1, <2>3 DEF Refuse, attrVars
    <3> QED  BY <1>0, <2>1, <3>1, CreditStays
  <2> QED  BY <1>1, <2>2, <2>3, SendsMeans
<1>2. CASE SetAttr
  <2> SUFFICES ASSUME NEW k \in Reported
               PROVE  credit'[k] >= One(task' = k) + One(handler' = "attr" /\ order'.what = k)
                                      + One(attr' = k /\ task' \notin Clearing)
    BY DEF Credited, One, Clearing
  <2>1. /\ handler = "attr" /\ handler' = "idle" /\ attr' = order.what /\ task' = task
        /\ credit' = credit
    BY <1>2 DEF SetAttr, HandlerOnly
  <2>2. credit[k] >= One(task = k) + One(order.what = k) /\ credit[k] \in Int
    BY <1>0, <2>1 DEF Credited, One
  <2> QED  BY <2>1, <2>2 DEF One
<1>3. CASE OkLine
  <2>1. /\ task = "lines" /\ UNCHANGED <<attrVars, handler, order>>
        /\ task' \in {attr, "clear", "lines"} /\ (attr \in Reported => task' = attr)
    BY <1>3 DEF OkLine, TakesLine, TaskOnly
  <2> SUFFICES ASSUME NEW k \in Reported
               PROVE  credit'[k] >= One(task' = k) + One(handler' = "attr" /\ order'.what = k)
                                      + One(attr' = k /\ task' \notin Clearing)
    BY DEF Credited, One, Clearing
  <2>2. /\ attr' = attr /\ handler' = handler /\ order' = order
        /\ credit'[k] = credit[k] /\ credit[k] \in Int
    BY <1>0, <2>1 DEF attrVars
  <2>3. credit[k] >= One(handler = "attr" /\ order.what = k) + One(attr = k)
    BY <2>1, <2>2 DEF Credited, One, Clearing, Reported
  <2>4. One(task' = k) + One(attr' = k /\ task' \notin Clearing) <= One(attr = k)
    BY <2>1, <2>2 DEF One, Clearing, Reported
  <2> QED  BY <2>2, <2>3, <2>4 DEF One
<1>4. CASE ClearAttr
  <2> SUFFICES ASSUME NEW k \in Reported
               PROVE  credit'[k] >= One(task' = k) + One(handler' = "attr" /\ order'.what = k)
                                      + One(attr' = k /\ task' \notin Clearing)
    BY DEF Credited, One, Clearing
  <2>1. /\ attr' = "Cnt" /\ handler' = handler /\ order' = order /\ credit' = credit
        /\ task' = "lines" /\ k # "Cnt" /\ k # "lines"
    BY <1>4 DEF ClearAttr, TaskOnly, Reported
  <2>2. credit[k] >= One(handler = "attr" /\ order.what = k) /\ credit[k] \in Int
    BY <1>0 DEF Credited, One
  <2> QED  BY <2>1, <2>2 DEF One
<1>5. CASE esp_restart
  BY <1>5 DEF esp_restart, Credited, One, Reported, Clearing
<1>6. CASE Connected \/ Disconnected
  <2>1. /\ UNCHANGED attrVars /\ task' = task
        /\ handler' = "attr" => order'.what = "NetState" \/ UNCHANGED <<handler, order>>
    BY <1>6 DEF Connected, Disconnected, SendNetState, Of
  <2> QED  BY <1>0, <2>1, CreditStays DEF Reported
<1>7. CASE CpuUpdate
  <2>1. UNCHANGED attrVars /\ task' = task /\ order' = order /\ order.what = "Update"
    BY <1>7 DEF CpuUpdate, HandlerOnly
  <2> QED  BY <1>0, <2>1, CreditStays DEF Reported
<1>8. CASE \/ WriteUrl \/ WriteRest \/ StopMqtt \/ StartMqtt
           \/ \E o \in Reported \cup {"PtSend", "Get", "Reboot", "Update"} : MQTTMessageSendHandler(o)
  <2>1. UNCHANGED attrVars /\ task' = task /\ handler' # "attr"
    BY <1>8 DEF WriteUrl, WriteRest, StopMqtt, StartMqtt, MQTTMessageSendHandler, HandlerOnly
  <2> QED  BY <1>0, <2>1, CreditStays
<1>9. CASE \/ timer_cb \/ NetConnect \/ Answered \/ AnsweredAgain \/ OtherAnswered \/ Changed
           \/ START \/ STOPMQTT \/ STARTMQTT \/ NoLine \/ GetLine \/ PtSendLine
           \/ UpdateLine \/ UpdateRest \/ UpdateStop \/ UpdateStart
           \/ UNCHANGED bridgeVars
  <2>1. UNCHANGED <<handler, order>> /\ UNCHANGED attrVars
    BY <1>9 DEF timer_cb, NetConnect, Answered, AnsweredAgain, OtherAnswered, Changed, ModuleOnly,
                START, STOPMQTT, STARTMQTT, NoLine, GetLine, PtSendLine, UpdateLine, UpdateRest,
                UpdateStop, UpdateStart, TaskOnly, bridgeVars
  <2>2. \/ task' = task
        \/ /\ task \in {"idle", "lines", "rest", "stop", "start"}
           /\ task' \in {"idle", "lines", "rest", "stop", "start", "clear", "PtSend"}
    BY <1>9 DEF timer_cb, NetConnect, Answered, AnsweredAgain, OtherAnswered, Changed, ModuleOnly,
                START, STOPMQTT, STARTMQTT, Takes, NoLine, GetLine, PtSendLine, TakesLine,
                UpdateLine, UpdateRest, UpdateStop, UpdateStart, bridgeVars
  <2>3. (task' \in Reported => task' = task) /\ (task \in Clearing => task' \in Clearing)
    BY <2>2 DEF Clearing, Reported
  <2> QED  BY <1>0, <2>1, <2>3, CreditStays
<1>10. CASE MQTTMessageRecvUartCommonOkHandler
  <2> SUFFICES ASSUME NEW k \in Reported
               PROVE  credit'[k] >= One(task' = k) + One(handler' = "attr" /\ order'.what = k)
                                      + One(attr' = k /\ task' \notin Clearing)
    BY DEF Credited, One, Clearing
  <2>1. /\ task \in Clearing /\ task' = "clear" /\ attr' = attr /\ handler' = handler
        /\ order' = order /\ credit'[k] = credit[k] - One(k = task)
    BY <1>10 DEF MQTTMessageRecvUartCommonOkHandler, TaskOnly, One, Clearing
  <2>2. credit[k] >= One(task = k) + One(handler = "attr" /\ order.what = k) /\ credit[k] \in Int
    BY <1>0, <2>1 DEF Credited, One
  <2>3. k # "clear" /\ task' \in Clearing
    BY <2>1 DEF Reported, Clearing
  <2> QED  BY <2>1, <2>2, <2>3 DEF One
<1> QED
  BY <1>1, <1>2, <1>3, <1>4, <1>5, <1>6, <1>7, <1>8, <1>9, <1>10
     DEF Next, Outside, MQTTEventHandler, MQTTNetEventHandler, vars

---------------------------------------------------------------------------
(* The client and the loop                                                 *)

(* What a line does besides writing a configuration.                       *)
LEMMA LinesLeave ==
  ASSUME \/ NoLine \/ GetLine \/ OkLine \/ PtSendLine \/ ClearAttr
         \/ MQTTMessageRecvUartCommonOkHandler
  PROVE  /\ UNCHANGED <<loop, missed, netFirstConnect, client, handler, used, config>>
         /\ task \notin {"rest", "stop", "start"}
<1>1. CASE NoLine
  BY <1>1 DEF NoLine, TaskOnly, LineOnly, clientVars, netVars
<1>2. CASE GetLine \/ OkLine \/ PtSendLine
  BY <1>2 DEF GetLine, OkLine, PtSendLine, TakesLine, TaskOnly, LineOnly, clientVars, netVars
<1>3. CASE ClearAttr
  BY <1>3 DEF ClearAttr, TaskOnly, LineOnly, clientVars, netVars
<1>4. CASE MQTTMessageRecvUartCommonOkHandler
  <2>1. task \notin {"rest", "stop", "start"}
    BY <1>4 DEF MQTTMessageRecvUartCommonOkHandler, Reported
  <2> QED
    BY <1>4, <2>1 DEF MQTTMessageRecvUartCommonOkHandler, TaskOnly, LineOnly, clientVars, netVars
<1> QED  BY <1>1, <1>2, <1>3, <1>4

LEMMA LoopKept ==
  ASSUME BridgeInv, [Next]_vars
  PROVE  Followed' /\ NotCutOff'
<1> USE DEF BridgeInv
<1>0. /\ NotCutOff <=>
           ((netFirstConnect /\ client = "stopped" /\ "STARTMQTT" \notin missed)
              => StartWaits \/ Between)
      /\ NotCutOff' <=>
           ((netFirstConnect' /\ client' = "stopped" /\ "STARTMQTT" \notin missed')
              => StartWaits' \/ Between')
  BY DEF NotCutOff, StartWaits, Between
<1>1. CASE timer_cb \/ NetConnect \/ Answered \/ AnsweredAgain \/ OtherAnswered \/ Changed
  <2>1. /\ UNCHANGED <<handler, task, client, netFirstConnect>>
        /\ Post("START") \/ UNCHANGED <<loop, missed>>
    BY <1>1 DEF timer_cb, NetConnect, Answered, AnsweredAgain, OtherAnswered, Changed, ModuleOnly,
                Says, Trigger, clientVars, netVars
  <2>2. /\ StopsFollowed => StopsFollowed'
        /\ StartWaits => StartWaits'
        /\ "STARTMQTT" \notin missed' => "STARTMQTT" \notin missed
    <3>1. CASE Post("START")
      BY <3>1, PostKeeps
    <3>2. CASE UNCHANGED <<loop, missed>>
      BY <3>2 DEF StopsFollowed, StartWaits
    <3> QED  BY <2>1, <3>1, <3>2
  <2>3. Between' <=> Between
    BY <2>1 DEF Between
  <2> QED  BY <1>0, <2>1, <2>2, <2>3 DEF Followed
<1>2. CASE StopMqtt \/ UpdateStop
  <2>1. Between'
    BY <1>2 DEF StopMqtt, UpdateStop, Between
  <2> QED  BY <1>0, <2>1 DEF Followed
<1>3. CASE StartMqtt \/ UpdateStart
  <2>1. Post("STARTMQTT")
    BY <1>3 DEF StartMqtt, UpdateStart, MQTTMessageStartMqtt
  <2>2. "STARTMQTT" \notin missed' => StopsFollowed' /\ StartWaits'
    BY <2>1, PostStartFollows
  <2> QED  BY <1>0, <2>2 DEF Followed
<1>4. CASE START
  <2>1. /\ Takes("START") /\ task = "idle" /\ task' = "lines"
        /\ handler' = handler /\ missed' = missed
        /\ netFirstConnect' = (netFirstConnect \/ netToMqtt)
        /\ client' = IF netToMqtt /\ ~netFirstConnect /\ client = "stopped"
                       THEN "connecting" ELSE client
    BY <1>4 DEF START, Takes, TaskOnly
  <2>2. (StopsFollowed => StopsFollowed') /\ (StartWaits => StartWaits')
    BY <2>1, TakeKeeps
  <2>3. Between' <=> Between
    BY <2>1 DEF Between
  <2>4. netFirstConnect' /\ client' = "stopped" => netFirstConnect /\ client = "stopped"
    BY <2>1 DEF BridgeTypeOK
  <2> QED  BY <1>0, <2>1, <2>2, <2>3, <2>4 DEF Followed
<1>5. CASE STOPMQTT
  <2>1. Takes("STOPMQTT") /\ ~Between /\ missed' = missed
    BY <1>5 DEF STOPMQTT, Takes, Between
  <2>2. StopsFollowed => StopsFollowed' /\ StartWaits'
    BY <2>1, TakeKeeps
  <2> QED  BY <1>0, <2>1, <2>2 DEF Followed
<1>6. CASE STARTMQTT
  <2>1. /\ Takes("STARTMQTT") /\ missed' = missed
        /\ client' # "stopped" /\ handler' = handler /\ task' = task
    BY <1>6 DEF STARTMQTT, TaskOnly
  <2>2. StopsFollowed => StopsFollowed'
    BY <2>1, TakeKeeps
  <2>3. Between' <=> Between
    BY <2>1 DEF Between
  <2> QED  BY <1>0, <2>1, <2>2, <2>3 DEF Followed
<1>7. CASE esp_restart
  BY <1>0, <1>7 DEF esp_restart, Followed, StopsFollowed
<1>8. CASE \/ Connected \/ Disconnected \/ WriteUrl \/ WriteRest \/ SendRequest \/ SendNetCfg
           \/ CpuUpdate \/ SetAttr
           \/ (\E o \in Reported \cup {"PtSend", "Get", "Reboot", "Update"} : MQTTMessageSendHandler(o))
           \/ UpdateLine \/ UpdateRest \/ UNCHANGED bridgeVars
  <2>1. UNCHANGED <<loop, missed, netFirstConnect>>
    BY <1>8 DEF Connected, Disconnected, WriteUrl, WriteRest, SendRequest, SendNetCfg, CpuUpdate,
                SetAttr, MQTTMessageSendHandler, HandlerOnly, UpdateLine, UpdateRest, LineOnly,
                netVars, bridgeVars
  <2>2. client' = "stopped" => client = "stopped"
    BY <1>8 DEF Connected, Disconnected, WriteUrl, WriteRest, SendRequest, SendNetCfg, CpuUpdate,
                SetAttr, MQTTMessageSendHandler, HandlerOnly, UpdateLine, UpdateRest, LineOnly,
                clientVars, bridgeVars
  <2>3. handler = "start" => handler' = "start"
    BY <1>8 DEF Connected, Disconnected, WriteUrl, WriteRest, SendRequest, SendNetCfg, CpuUpdate,
                SetAttr, MQTTMessageSendHandler, UpdateLine, UpdateRest, TaskOnly, bridgeVars
  <2>4. task = "start" => task' = "start"
    BY <1>8 DEF Connected, Disconnected, WriteUrl, WriteRest, SendRequest, SendNetCfg, CpuUpdate,
                SetAttr, MQTTMessageSendHandler, HandlerOnly, UpdateLine, TakesLine, UpdateRest,
                bridgeVars
  <2>5. Between => Between'
    BY <2>3, <2>4 DEF Between
  <2>6. (StopsFollowed <=> StopsFollowed') /\ (StartWaits <=> StartWaits')
    BY <2>1 DEF StopsFollowed, StartWaits
  <2> QED  BY <1>0, <2>1, <2>2, <2>5, <2>6 DEF Followed
<1>9. CASE \/ NoLine \/ GetLine \/ OkLine \/ PtSendLine \/ ClearAttr
           \/ MQTTMessageRecvUartCommonOkHandler
  <2>1. UNCHANGED <<loop, missed, netFirstConnect, client, handler>> /\ task # "start"
    BY <1>9, LinesLeave
  <2>2. Between => Between'
    BY <2>1 DEF Between
  <2>3. (StopsFollowed <=> StopsFollowed') /\ (StartWaits <=> StartWaits')
    BY <2>1 DEF StopsFollowed, StartWaits
  <2> QED  BY <1>0, <2>1, <2>2, <2>3 DEF Followed
<1> QED
  BY <1>1, <1>2, <1>3, <1>4, <1>5, <1>6, <1>7, <1>8, <1>9
     DEF Next, Outside, MQTTEventHandler, MQTTNetEventHandler, vars

---------------------------------------------------------------------------
LEMMA BridgeAlways == Spec => []BridgeInv
<1>1. BridgeInv /\ [Next]_vars => BridgeInv'
  BY TypesKept, OtaKept, CreditKept, LoopKept DEF BridgeInv
<1> QED  BY BridgeInitially, <1>1, PTL DEF Spec

(* The types and the capacity of the queues, for queues of every length.   *)
THEOREM BridgeTypes == Spec => []TypeOK
<1>1. BridgeInv => TypeOK
  BY DEF BridgeInv, OtaInv, BridgeTypeOK, TypeOK
<1> QED  BY BridgeAlways, <1>1, PTL

(* An order that attr tells the "+OK" of is reported OK at most once, and  *)
(* only if it was accepted, however many orders, answers, repeated answers *)
(* and restarts there are, and wherever attr is written while an OK is     *)
(* being published.                                                        *)
THEOREM ReportedOnce == Spec => []OkOnce
<1>1. BridgeInv => OkOnce
  <2> SUFFICES ASSUME BridgeInv, NEW k \in Reported PROVE credit[k] >= 0
    BY DEF OkOnce
  <2>1. credit[k] \in Int
    BY DEF BridgeInv, BridgeTypeOK
  <2> QED  BY <2>1 DEF BridgeInv, Credited, One
<1> QED  BY BridgeAlways, <1>1, PTL

(* While no STARTMQTT is refused, a client that was stopped is about to be *)
(* started again.                                                          *)
THEOREM NeverCutOff == Spec => []NotCutOff
<1>1. BridgeInv => NotCutOff
  BY DEF BridgeInv
<1> QED  BY BridgeAlways, <1>1, PTL

(* The newest update is not forgotten in the whole bridge either.          *)
THEOREM OrderKeptByBridge == Spec => []NoOrderForgotten
<1>1. BridgeInv => NoOrderForgotten
  BY DEF BridgeInv, OtaInv
<1> QED  BY BridgeAlways, <1>1, PTL

---------------------------------------------------------------------------
(* The bridge as an implementation of OtaUpdate: each of its steps is one  *)
(* of the update or leaves that alone.  Only of CpuUpdate there is         *)
(* something to show: that the last order has had its trigger.             *)

LEMMA LeavesUpdate ==
  ASSUME \/ Outside \/ MQTTNetEventHandler \/ Connected \/ WriteUrl \/ WriteRest
         \/ StopMqtt \/ StartMqtt \/ SendRequest \/ SendNetCfg \/ SetAttr
         \/ UNCHANGED vars
  PROVE  UNCHANGED otaVars
<1>1. CASE Outside
  BY <1>1 DEF Outside, timer_cb, NetConnect, Disconnected, MQTTMessageSendHandler, Answered,
              AnsweredAgain, OtherAnswered, Changed, ModuleOnly
<1>2. CASE MQTTNetEventHandler
  BY <1>2 DEF MQTTNetEventHandler, START, STOPMQTT, STARTMQTT, NoLine, GetLine, OkLine,
              PtSendLine, MQTTMessageRecvUartCommonOkHandler, ClearAttr, UpdateLine, UpdateRest,
              UpdateStop, UpdateStart, TaskOnly
<1>3. CASE \/ Connected \/ WriteUrl \/ WriteRest \/ StopMqtt \/ StartMqtt
           \/ SendRequest \/ SendNetCfg \/ SetAttr
  BY <1>3 DEF Connected, WriteUrl, WriteRest, StopMqtt, StartMqtt, SendRequest, SendNetCfg,
              SetAttr
<1>4. CASE UNCHANGED vars
  BY <1>4 DEF vars
<1> QED  BY <1>1, <1>2, <1>3, <1>4

LEMMA StepKeepsUpdate ==
  ASSUME BridgeInv, [Next]_vars
  PROVE  [OtaNext]_otaVars
<1>1. CASE CpuUpdate
  <2>1. ~posting
    BY <1>1 DEF CpuUpdate, BridgeInv, Ordered
  <2> QED  BY <1>1, <2>1 DEF CpuUpdate, OtaNext
<1>2. CASE OtaStep \/ esp_restart
  BY <1>2 DEF esp_restart, OtaNext
<1>3. CASE \/ Outside \/ MQTTNetEventHandler \/ Connected \/ WriteUrl \/ WriteRest
           \/ StopMqtt \/ StartMqtt \/ SendRequest \/ SendNetCfg \/ SetAttr
           \/ UNCHANGED vars
  BY <1>3, LeavesUpdate
<1> QED  BY <1>1, <1>2, <1>3 DEF Next, MQTTEventHandler

(* mqtt.c, which sends the orders, and the restart that starts the whole   *)
(* program anew keep the contract of update.c, so that whatever is true of *)
(* OtaUpdate is true of the bridge.                                        *)
THEOREM BridgeKeepsUpdate == Spec => KeepsUpdate
<1>1. Init => OtaInit
  BY DEF Init
<1>2. BridgeInv /\ [Next]_vars => [OtaNext]_otaVars
  BY StepKeepsUpdate
<1> QED  BY <1>1, <1>2, BridgeAlways, PTL DEF Spec, KeepsUpdate, OtaSpec

---------------------------------------------------------------------------
(* A configuration that is written is applied.                             *)

Writing   == handler \in {"rest", "stop"} \/ task \in {"rest", "stop"}
StopWaits == \E i \in DOMAIN loop : loop[i] = "STOPMQTT"

LEMMA PostKeepsStop ==
  ASSUME BridgeTypeOK, NEW event \in Events, Post(event)
  PROVE  /\ StopWaits => StopWaits'
         /\ event = "STOPMQTT" /\ "STOPMQTT" \notin missed' => StopWaits'
         /\ "STOPMQTT" \notin missed' => "STOPMQTT" \notin missed
<1>1. CASE Room
  <2>1. /\ loop' = Append(loop, event) /\ loop \in Seq(Events)
        /\ Len(loop) \in Nat /\ DOMAIN loop = 1..Len(loop)
        /\ DOMAIN loop' = 1..(Len(loop) + 1)
        /\ \A i \in 1..Len(loop) : loop'[i] = loop[i]
        /\ loop'[Len(loop) + 1] = event
    BY <1>1 DEF Post, BridgeTypeOK
  <2>2. Len(loop) + 1 \in DOMAIN loop'
    BY <2>1
  <2>3. event = "STOPMQTT" => StopWaits'
    BY <2>1, <2>2 DEF StopWaits
  <2>4. StopWaits => StopWaits'
    BY <2>1 DEF StopWaits
  <2> QED  BY <2>3, <2>4, Zenon DEF Post
<1>2. CASE ~Room
  <2>1. loop' = loop /\ missed' = IF event = "START" THEN missed ELSE missed \cup {event}
    BY <1>2 DEF Post
  <2> QED  BY <2>1 DEF StopWaits
<1> QED  BY <1>1, <1>2

LEMMA TakeKeepsStop ==
  ASSUME BridgeTypeOK, NEW event, Takes(event), event # "STOPMQTT", StopWaits
  PROVE  StopWaits'
<1>1. loop \in Seq(Events) /\ loop # <<>> /\ loop' = Tail(loop) /\ Head(loop) = event
  BY DEF Takes, BridgeTypeOK
<1>2. /\ loop' \in Seq(Events) /\ Len(loop') = Len(loop) - 1
      /\ \A i \in 1..Len(loop') : loop'[i] = loop[i+1]
  BY <1>1, HeadTailProperties
<1>3. /\ Len(loop) \in Nat \ {0} /\ loop[1] = event
      /\ DOMAIN loop = 1..Len(loop) /\ DOMAIN loop' = 1..(Len(loop) - 1)
  BY <1>1, <1>2
<1>4. PICK j \in DOMAIN loop : loop[j] = "STOPMQTT"
  BY DEF StopWaits
<1>5. PICK i \in DOMAIN loop' : i + 1 = j
  <2>1. j - 1 \in DOMAIN loop' /\ (j - 1) + 1 = j
    BY <1>3, <1>4
  <2> QED  BY <2>1
<1> QED  BY <1>2, <1>3, <1>4, <1>5 DEF StopWaits

LEMMA FollowedByUse ==
  ASSUME BridgeInv, ConfigFollowed, [Next]_vars
  PROVE  ConfigFollowed'
<1>0. /\ ConfigFollowed => (used # config /\ "STOPMQTT" \notin missed => StopWaits \/ Writing)
      /\ (used' # config' /\ "STOPMQTT" \notin missed' => StopWaits' \/ Writing') => ConfigFollowed'
  BY DEF ConfigFollowed, StopWaits, Writing
<1>a. BridgeTypeOK
  BY DEF BridgeInv
<1>1. CASE WriteUrl \/ WriteRest \/ UpdateLine \/ UpdateRest
  <2>1. Writing'
    BY <1>1 DEF WriteUrl, WriteRest, UpdateLine, UpdateRest, Writing
  <2> QED  BY <1>0, <2>1
<1>2. CASE StopMqtt \/ UpdateStop
  <2>1. Post("STOPMQTT")
    BY <1>2 DEF StopMqtt, UpdateStop, MQTTMessageStopMqtt
  <2>2. "STOPMQTT" \notin missed' => StopWaits'
    BY <1>a, <2>1, PostKeepsStop DEF Events
  <2> QED  BY <1>0, <2>2
<1>3. CASE STOPMQTT \/ esp_restart
  <2>1. used' = config'
    BY <1>3 DEF STOPMQTT, esp_restart
  <2> QED  BY <1>0, <2>1
<1>4. CASE START \/ STARTMQTT
  <2>1. /\ Takes("START") \/ Takes("STARTMQTT")
        /\ UNCHANGED <<used, config, missed, handler>>
        /\ task = "idle"
    BY <1>4 DEF START, STARTMQTT, Takes, TaskOnly
  <2>2. StopWaits => StopWaits'
    BY <1>a, <2>1, TakeKeepsStop
  <2>3. Writing => Writing'
    BY <2>1 DEF Writing
  <2> QED  BY <1>0, <2>1, <2>2, <2>3
<1>5. CASE \/ timer_cb \/ NetConnect \/ Answered \/ AnsweredAgain \/ OtherAnswered \/ Changed
           \/ StartMqtt \/ UpdateStart
  <2>1. /\ UNCHANGED <<used, config>>
        /\ Post("START") \/ Post("STARTMQTT") \/ UNCHANGED <<loop, missed>>
    BY <1>5 DEF timer_cb, NetConnect, Answered, AnsweredAgain, OtherAnswered, Changed, ModuleOnly,
                Says, Trigger, StartMqtt, HandlerOnly, UpdateStart, LineOnly, MQTTMessageStartMqtt
  <2>2. (StopWaits => StopWaits') /\ ("STOPMQTT" \notin missed' => "STOPMQTT" \notin missed)
    <3>1. CASE Post("START") \/ Post("STARTMQTT")
      BY <1>a, <3>1, PostKeepsStop DEF Events
    <3>2. CASE UNCHANGED <<loop, missed>>
      BY <3>2 DEF StopWaits
    <3> QED  BY <2>1, <3>1, <3>2
  <2>3. Writing => Writing'
    BY <1>5 DEF timer_cb, NetConnect, Answered, AnsweredAgain, OtherAnswered, Changed, ModuleOnly,
                StartMqtt, HandlerOnly, UpdateStart, TaskOnly, Writing
  <2> QED  BY <1>0, <2>1, <2>2, <2>3
<1>6. CASE \/ Connected \/ Disconnected \/ SendRequest \/ SendNetCfg \/ CpuUpdate \/ SetAttr
           \/ (\E o \in Reported \cup {"PtSend", "Get", "Reboot", "Update"} : MQTTMessageSendHandler(o))
           \/ UNCHANGED bridgeVars
  <2>1. UNCHANGED <<loop, missed, used, config, task>>
    BY <1>6 DEF Connected, Disconnected, SendRequest, SendNetCfg, CpuUpdate, SetAttr,
                MQTTMessageSendHandler, HandlerOnly, bridgeVars
  <2>2. handler \in {"rest", "stop"} => handler' = handler
    BY <1>6 DEF Connected, Disconnected, SendRequest, SendNetCfg, CpuUpdate, SetAttr,
                MQTTMessageSendHandler, bridgeVars
  <2>3. (Writing => Writing') /\ (StopWaits => StopWaits')
    BY <2>1, <2>2 DEF Writing, StopWaits
  <2> QED  BY <1>0, <2>1, <2>3
<1>7. CASE \/ NoLine \/ GetLine \/ OkLine \/ PtSendLine \/ ClearAttr
           \/ MQTTMessageRecvUartCommonOkHandler
  <2>1. UNCHANGED <<loop, missed, used, config, handler>> /\ task \notin {"rest", "stop"}
    BY <1>7, LinesLeave
  <2>2. (Writing => Writing') /\ (StopWaits => StopWaits')
    BY <2>1 DEF Writing, StopWaits
  <2> QED  BY <1>0, <2>1, <2>2
<1> QED
  BY <1>1, <1>2, <1>3, <1>4, <1>5, <1>6, <1>7
     DEF Next, Outside, MQTTEventHandler, MQTTNetEventHandler, vars

(* However the handler of the client and that of the loop interleave when  *)
(* both write the configuration, the client uses all of it or is about to  *)
(* be made to, unless a STOPMQTT was refused, for queues of every length.  *)
THEOREM ConfigIsFollowed == Spec => []ConfigFollowed
<1>1. Init => ConfigFollowed
  BY DEF Init, ConfigFollowed
<1>2. BridgeInv /\ ConfigFollowed /\ [Next]_vars => ConfigFollowed'
  BY FollowedByUse
<1> QED  BY <1>1, <1>2, BridgeAlways, PTL DEF Spec
---------------------------------------------------------------------------
(* Where the two tasks of the bridge, and the update, come to rest.        *)
BridgeRests == loop = <<>> /\ handler = "idle" /\ task = "idle" /\ missed = {}

UpdateRests ==
    mqttToUpdate = <<>> /\ copying = {} /\ ~sem /\ ota = "take" /\ ~untold

RestIsRight ==
    /\ BridgeRests => /\ used = config
                      /\ client = "stopped" => ~netFirstConnect
    /\ UpdateRests => owed = Empty

(* Nothing but pending work keeps the bridge from being right: when neither*)
(* task has any and no event was refused, the client uses the newest       *)
(* configuration and runs if the net was ever there; when the update has   *)
(* none, it has begun with the newest order.  With fairness this is what   *)
(* ConfigObeyed and NewestTried are made of.                               *)
THEOREM RightAtRest == Spec => []RestIsRight
<1>1. ConfigFollowed /\ NotCutOff /\ NoOrderForgotten => RestIsRight
  <2> SUFFICES ASSUME ConfigFollowed, NotCutOff, NoOrderForgotten
               PROVE  RestIsRight
    OBVIOUS
  <2>1. ASSUME BridgeRests
        PROVE  used = config /\ (client = "stopped" => ~netFirstConnect)
    <3>1. DOMAIN loop = {}
      BY <2>1 DEF BridgeRests
    <3> QED
      BY <2>1, <3>1 DEF BridgeRests, ConfigFollowed, NotCutOff
  <2>2. ASSUME UpdateRests PROVE owed = Empty
    BY <2>2 DEF UpdateRests, NoOrderForgotten
  <2> QED
    BY <2>1, <2>2 DEF RestIsRight
<1> QED
  BY <1>1, ConfigIsFollowed, NeverCutOff, OrderKeptByBridge, PTL
=============================================================================
