-------------------------- MODULE NetTriggersProofs --------------------------
(* Proof about NetFailover: that no message is left without a trigger,     *)
(* which counts the triggers in the loop.                                  *)
EXTENDS NetFailoverProofs, FiniteSetTheorems

Places(l)   == {i \in 1..Len(l) : l[i] = "Trigger"}
Triggers(l) == Cardinality(Places(l))

LEMMA TriggersCounted ==
    ASSUME NEW S, NEW l \in Seq(S)
    PROVE  IsFiniteSet(Places(l)) /\ Triggers(l) \in Nat
<1>1. IsFiniteSet(1..Len(l))
  BY FS_Interval
<1>2. Places(l) \in SUBSET (1..Len(l))
  BY DEF Places
<1>3. IsFiniteSet(Places(l))
  BY <1>1, <1>2, FS_Subset
<1> QED
  BY <1>3, FS_CardinalityType DEF Triggers

(* A post adds at most its own event.                                      *)
LEMMA TriggersAppend ==
    ASSUME NEW S, NEW l \in Seq(S), NEW e \in S
    PROVE  /\ e = "Trigger" => Triggers(Append(l, e)) = Triggers(l) + 1
           /\ e # "Trigger" => Triggers(Append(l, e)) = Triggers(l)
<1> DEFINE q == Append(l, e)
           n == Len(l) + 1
<1>1. /\ Len(q) = n /\ q[n] = e /\ Len(l) \in Nat
      /\ \A i \in 1..Len(l) : q[i] = l[i]
  OBVIOUS
<1> HIDE DEF q
<1>2. n \notin Places(l) /\ IsFiniteSet(Places(l))
  BY <1>1, TriggersCounted DEF Places
<1>3. ASSUME e = "Trigger" PROVE Triggers(q) = Triggers(l) + 1
  <2>1. Places(q) = Places(l) \cup {n}
    BY <1>1, <1>3 DEF Places
  <2> HIDE DEF n
  <2> QED
    BY <1>2, <2>1, FS_AddElement DEF Triggers
<1>4. ASSUME e # "Trigger" PROVE Triggers(q) = Triggers(l)
  <2>1. Places(q) = Places(l)
    BY <1>1, <1>4 DEF Places
  <2> QED
    BY <2>1 DEF Triggers
<1> QED
  BY <1>3, <1>4 DEF q

(* Taking an event off takes its own away.                                 *)
LEMMA TriggersTail ==
    ASSUME NEW S, NEW l \in Seq(S), l # <<>>
    PROVE  /\ Head(l) = "Trigger" => Triggers(Tail(l)) + 1 = Triggers(l)
           /\ Head(l) # "Trigger" => Triggers(Tail(l)) = Triggers(l)
<1> DEFINE q == Tail(l)
           rest == Places(l) \ {1}
           f == [i \in rest |-> i - 1]
<1>1. /\ Len(l) \in Nat /\ Len(l) >= 1 /\ Len(q) = Len(l) - 1 /\ l[1] = Head(l)
      /\ \A i \in 1..Len(q) : q[i] = l[i + 1]
      /\ q \in Seq(S)
  OBVIOUS
<1> HIDE DEF q
<1>2. \A i \in rest : i \in 2..Len(l) /\ l[i] = "Trigger"
  BY <1>1 DEF Places
<1>3. f \in [rest -> Places(q)]
  <2> SUFFICES ASSUME NEW i \in rest PROVE i - 1 \in Places(q)
    OBVIOUS
  <2>1. i - 1 \in 1..Len(q) /\ i - 1 + 1 = i
    BY <1>1, <1>2
  <2>2. q[i - 1] = "Trigger"
    BY <1>1, <1>2, <2>1
  <2> QED
    BY <2>1, <2>2 DEF Places
<1>4. /\ \A i, j \in rest : f[i] = f[j] => i = j
      /\ \A i \in rest : f[i] = i - 1
  BY <1>2
<1>5. \A k \in Places(q) : \E i \in rest : f[i] = k
  <2> SUFFICES ASSUME NEW k \in Places(q) PROVE \E i \in rest : f[i] = k
    OBVIOUS
  <2>1. k \in 1..Len(q) /\ q[k] = "Trigger"
    BY DEF Places
  <2>2. k + 1 \in 1..Len(l) /\ k + 1 # 1 /\ k + 1 - 1 = k
    BY <1>1, <2>1
  <2>3. l[k + 1] = "Trigger"
    <3>1. \A i \in 1..Len(q) : q[i] = l[i + 1]
      BY <1>1
    <3>2. q[k] = l[k + 1]
      BY <2>1, <3>1
    <3> QED
      BY <2>1, <3>2
  <2>4. k + 1 \in rest
    <3> DEFINE i == k + 1
    <3>1. i \in 1..Len(l) /\ i # 1 /\ l[i] = "Trigger"
      BY <2>2, <2>3
    <3> HIDE DEF i
    <3>2. i \in Places(l)
      BY <3>1 DEF Places
    <3>3. i \in rest
      BY <3>1, <3>2
    <3> QED
      BY <3>3 DEF i
  <2> QED
    <3>1. PICK i \in rest : i = k + 1
      BY <2>4
    <3>2. f[i] = i - 1
      <4>1. \A j \in rest : f[j] = j - 1
        BY <1>4
      <4> HIDE DEF f, rest
      <4> QED
        BY <4>1
    <3>3. i - 1 = k
      BY <2>1, <3>1
    <3> HIDE DEF f, rest
    <3> QED
      BY <3>2, <3>3
<1> HIDE DEF f
<1>6. f \in Bijection(rest, Places(q))
  BY <1>3, <1>4, <1>5 DEF Bijection, Injection, Surjection, IsInjective
<1>7. ExistsBijection(rest, Places(q))
  BY <1>6 DEF ExistsBijection
<1>8. IsFiniteSet(Places(l)) /\ Triggers(l) \in Nat
  BY TriggersCounted
<1>9. /\ IsFiniteSet(rest)
      /\ Cardinality(rest) = IF 1 \in Places(l) THEN Triggers(l) - 1 ELSE Triggers(l)
  BY <1>8, FS_RemoveElement DEF Triggers
<1> HIDE DEF rest
<1>10. Triggers(q) = Cardinality(rest)
  BY <1>7, <1>9, FS_Bijection DEF Triggers
<1>11. 1 \in Places(l) <=> Head(l) = "Trigger"
  BY <1>1 DEF Places
<1>12. Head(l) = "Trigger" => Triggers(q) = Triggers(l) - 1
  BY <1>9, <1>10, <1>11
<1>13. Head(l) # "Trigger" => Triggers(q) = Triggers(l)
  BY <1>9, <1>10, <1>11
<1> QED
  BY <1>8, <1>12, <1>13 DEF q

---------------------------------------------------------------------------
(* The driver posts events of its own and no trigger.                      *)
Quiet(c, d) ==
    /\ d \in Drivers
    /\ ~d.missed => ~c.missed /\ Triggers(d.loop) = Triggers(c.loop)

LEMMA QuietEvent ==
    ASSUME NEW d \in Drivers, NEW s \in Stations, NEW e \in {"StaStart", "StaDisconnected"}
    PROVE  Quiet(d, Driver(s, Posted(d.loop, e), d.missed \/ Lost(d.loop)))
<1> DEFINE c == Driver(s, Posted(d.loop, e), d.missed \/ Lost(d.loop))
<1>1. /\ d.loop \in Seq(Events) /\ Len(d.loop) <= LoopLen /\ d.missed \in BOOLEAN
      /\ e \in Events /\ e # "Trigger"
  BY DEF Drivers, Events
<1>2. /\ c.sta = s /\ c.loop \in Seq(Events) /\ Len(c.loop) <= LoopLen /\ c.missed \in BOOLEAN
      /\ ~c.missed => ~d.missed /\ c.loop = Append(d.loop, e)
  BY <1>1, NetAssumption, PostedCases DEF Driver, Lost
<1>3. c \in Drivers
  BY <1>2 DEF Drivers, Driver
<1>4. Triggers(Append(d.loop, e)) = Triggers(d.loop)
  BY <1>1, TriggersAppend
<1> HIDE DEF c
<1>5. Quiet(d, c)
  BY <1>2, <1>3, <1>4 DEF Quiet
<1> QED
  BY <1>5 DEF c

LEMMA QuietSta ==
    ASSUME NEW d \in Drivers, NEW s \in Stations
    PROVE  Quiet(d, [d EXCEPT !.sta = s])
<1> DEFINE c == [d EXCEPT !.sta = s]
<1>1. c \in Drivers /\ c.loop = d.loop /\ c.missed = d.missed
  BY DEF Drivers
<1> HIDE DEF c
<1>2. Quiet(d, c)
  BY <1>1 DEF Quiet
<1> QED
  BY <1>2 DEF c

LEMMA QuietTrans ==
    ASSUME NEW a, NEW b, NEW c, Quiet(a, b), Quiet(b, c)
    PROVE  Quiet(a, c)
  BY DEF Quiet

LEMMA QuietStart ==
    ASSUME NEW d \in Drivers
    PROVE  Quiet(d, d)
  BY DEF Quiet

LEMMA QuietDisconnected ==
    ASSUME NEW d \in Drivers
    PROVE  Quiet(d, Disconnected(d))
<1>1. CASE d.sta \in Active
  <2>1. Disconnected(d) = Driver("idle", Posted(d.loop, "StaDisconnected"),
                                 d.missed \/ Lost(d.loop))
    BY <1>1 DEF Disconnected
  <2>2. "idle" \in Stations
    BY DEF Stations
  <2> QED
    BY <2>1, <2>2, QuietEvent
<1>2. CASE d.sta \notin Active
  BY <1>2, QuietStart DEF Disconnected
<1> QED
  BY <1>1, <1>2

LEMMA QuietRestarted ==
    ASSUME NEW d \in Drivers
    PROVE  Quiet(d, Restarted(d))
<1>1. d.sta \in Stations /\ "connecting" \in Stations
  BY DEF Drivers, Stations, Active
<1>2. CASE d.sta = "stopped"
  <2>1. Restarted(d) = Driver("connecting", Posted(d.loop, "StaStart"),
                              d.missed \/ Lost(d.loop))
    BY <1>2 DEF Restarted
  <2> QED
    BY <1>1, <2>1, QuietEvent
<1>3. CASE d.sta # "stopped"
  <2> DEFINE s == Connected(d.sta)
  <2>1. Restarted(d) = [d EXCEPT !.sta = s]
    BY <1>3 DEF Restarted
  <2>2. s \in Stations
    BY <1>1 DEF Connected
  <2> HIDE DEF s
  <2> QED
    BY <2>1, <2>2, QuietSta
<1> QED
  BY <1>2, <1>3

LEMMA QuietConfigured ==
    ASSUME NEW d \in Drivers
    PROVE  Quiet(d, Configured(d))
<1>1. CASE configs = <<>> \/ isDown
  BY <1>1, QuietStart DEF Configured
<1>2. CASE ~(configs = <<>> \/ isDown)
  <2> DEFINE c == IF isConnect THEN Disconnected(d) ELSE d
  <2>1. Quiet(d, c)
    BY QuietDisconnected, QuietStart
  <2>2. Configured(d) = Restarted(c)
    BY <1>2 DEF Configured
  <2> HIDE DEF c
  <2>3. c \in Drivers
    BY <2>1 DEF Quiet
  <2> QED
    BY <2>1, <2>2, <2>3, QuietRestarted, QuietTrans
<1> QED
  BY <1>1, <1>2

LEMMA QuietOrdered ==
    ASSUME NEW d \in Drivers
    PROVE  Quiet(d, Ordered(d))
<1>1. CASE orders = <<>>
  BY <1>1, QuietStart DEF Ordered
<1>2. CASE orders # <<>> /\ Head(orders) = "UpWifi"
  BY <1>2, QuietRestarted DEF Ordered
<1>3. CASE orders # <<>> /\ Head(orders) # "UpWifi"
  <2> DEFINE c == Disconnected(d)
  <2>1. Quiet(d, c)
    BY QuietDisconnected
  <2>2. Ordered(d) = [c EXCEPT !.sta = "stopped"]
    BY <1>3 DEF Ordered
  <2> HIDE DEF c
  <2>3. c \in Drivers /\ "stopped" \in Stations
    BY <2>1 DEF Quiet, Stations
  <2>4. Quiet(c, [c EXCEPT !.sta = "stopped"])
    BY <2>3, QuietSta
  <2> QED
    BY <2>1, <2>2, <2>4, QuietTrans
<1> QED
  BY <1>1, <1>2, <1>3

LEMMA QuietHandled ==
    ASSUME TypeOK, WifiEventRecvHandler, ~missed'
    PROVE  ~missed /\ Triggers(loop') = Triggers(Tail(loop))
<1> DEFINE c == Driver(sta, Tail(loop), missed)
           d == Ordered(Configured(c))
<1>1. /\ loop # <<>> /\ loop \in Seq(Events) /\ Len(loop) <= LoopLen + 1
      /\ sta \in Stations /\ missed \in BOOLEAN /\ LoopLen \in Nat
  BY NetAssumption DEF WifiEventRecvHandler, Handles, TypeOK, Stations
<1>2. Tail(loop) \in Seq(Events) /\ Len(Tail(loop)) <= LoopLen
  BY <1>1
<1>3. c \in Drivers /\ c.loop = Tail(loop) /\ c.missed = missed
  BY <1>1, <1>2 DEF Drivers, Driver
<1>4. loop' = d.loop /\ missed' = d.missed
  BY DEF WifiEventRecvHandler
<1> HIDE DEF c
<1>5. Quiet(c, Configured(c)) /\ Configured(c) \in Drivers
  BY <1>3, QuietConfigured DEF Quiet
<1>6. Quiet(c, d)
  BY <1>5, QuietOrdered, QuietTrans
<1> HIDE DEF d
<1> QED
  BY <1>3, <1>4, <1>6 DEF Quiet

---------------------------------------------------------------------------
(* Unless something was lost, every message has its trigger.               *)
Backed(o, c, p, l) ==
    /\ Len(o) <= Triggers(l)
    /\ Len(c) <= Triggers(l) + (IF p THEN 1 ELSE 0)

LEMMA BackedMeans ==
    MessagesHaveTriggers <=> (missed \/ Backed(orders, configs, posting, loop))
  BY DEF MessagesHaveTriggers, Backed, Triggers, Places

LEMMA MessagesHaveTriggersStep ==
    TypeOK /\ MessagesHaveTriggers /\ [Next]_vars => MessagesHaveTriggers'
<1> SUFFICES ASSUME TypeOK, MessagesHaveTriggers, [Next]_vars, ~missed'
             PROVE  Backed(orders, configs, posting, loop)'
  BY DEF MessagesHaveTriggers, Backed, Triggers, Places
<1>a. /\ "EthGotIp" \in Events /\ "StaStart" \in Events /\ "StaDisconnected" \in Events
      /\ "StaGotIp" \in Events /\ "Trigger" \in Events
      /\ "CableUp" \in Events /\ "CableDown" \in Events
      /\ "UpWifi" \in Orders /\ "DownWifi" \in Orders
  BY DEF Events, Orders
<1>b. ~missed => /\ Len(orders) <= Triggers(loop)
                 /\ posting => Len(configs) <= Triggers(loop) + 1
                 /\ ~posting => Len(configs) <= Triggers(loop)
  <2>1. Triggers(loop) \in Nat /\ Len(configs) \in Nat
    BY TriggersCounted DEF TypeOK
  <2> QED
    BY <2>1, BackedMeans DEF Backed
<1>c. /\ loop \in Seq(Events) /\ orders \in Seq(Orders) /\ configs \in Seq(Configs)
      /\ posting \in BOOLEAN
      /\ Triggers(loop) \in Nat /\ Len(orders) \in Nat /\ Len(configs) \in Nat
  BY TriggersCounted DEF TypeOK
<1>d. ASSUME ~missed, UNCHANGED <<orders, configs, posting>>, Triggers(loop') = Triggers(loop)
      PROVE  Backed(orders, configs, posting, loop)'
  BY <1>b, <1>d, <1>c DEF Backed
<1>e. ASSUME NEW e \in Events, Post(e), e # "Trigger"
      PROVE  ~missed /\ Triggers(loop') = Triggers(loop)
  <2>1. ~missed /\ loop' = Append(loop, e)
    BY <1>e, NetAssumption, PostCases
  <2>2. Triggers(Append(loop, e)) = Triggers(loop)
    BY <1>c, <1>e, TriggersAppend
  <2> QED
    BY <2>1, <2>2
<1>f. ASSUME NEW e, Handles(e)
      PROVE  /\ Tail(loop) \in Seq(Events) /\ loop # <<>>
             /\ e = "Trigger" => Triggers(Tail(loop)) + 1 = Triggers(loop)
             /\ e # "Trigger" => Triggers(Tail(loop)) = Triggers(loop)
  <2>1. loop # <<>> /\ Head(loop) = e /\ Tail(loop) \in Seq(Events)
    BY <1>f, NetAssumption, HandlesLoop
  <2> QED
    BY <1>c, <2>1, TriggersTail
<1>g. ASSUME NEW e, Handles(e), e # "Trigger", NEW o \in Orders, Order(o),
             UNCHANGED <<configs, posting>>
      PROVE  Backed(orders, configs, posting, loop)'
  <2>1. ~missed /\ loop' = Append(Tail(loop), "Trigger") /\ orders' = Append(orders, o)
    BY <1>g, NetAssumption, OrderCases
  <2>2. Tail(loop) \in Seq(Events) /\ Triggers(Tail(loop)) = Triggers(loop)
    BY <1>f, <1>g
  <2>3. Triggers(loop') = Triggers(loop) + 1
    BY <1>a, <2>1, <2>2, TriggersAppend
  <2>4. Len(orders') = Len(orders) + 1
    BY <1>c, <2>1
  <2>5. Len(orders') <= Triggers(loop')
    BY <1>b, <1>c, <2>1, <2>3, <2>4
  <2>6. Len(configs') <= Triggers(loop') + (IF posting' THEN 1 ELSE 0)
    <3>1. CASE posting
      BY <1>b, <1>c, <1>g, <2>1, <2>3, <3>1
    <3>2. CASE ~posting
      BY <1>b, <1>c, <1>g, <2>1, <2>3, <3>2
    <3> QED
      BY <3>1, <3>2
  <2> QED
    BY <2>5, <2>6 DEF Backed
<1>1. CASE StaProgress
  <2>1. UNCHANGED <<orders, configs, posting>>
    BY <1>1 DEF StaProgress, queues
  <2>2. ~missed /\ Triggers(loop') = Triggers(loop)
    <3>1. CASE sta = "connecting" /\ UNCHANGED <<loop, missed>>
      BY <3>1
    <3>2. CASE Post("StaGotIp")
      BY <1>a, <1>e, <3>2
    <3>3. CASE Post("StaDisconnected")
      BY <1>a, <1>e, <3>3
    <3> QED
      BY <1>1, <3>1, <3>2, <3>3 DEF StaProgress
  <2> QED
    BY <1>d, <2>1, <2>2
<1>2. CASE EthProgress
  <2>1. UNCHANGED <<orders, configs, posting>>
    BY <1>2 DEF EthProgress, queues
  <2>2. ~missed /\ Triggers(loop') = Triggers(loop)
    <3>1. Post("CableUp") \/ Post("EthGotIp") \/ Post("CableDown")
      BY <1>2 DEF EthProgress
    <3> QED
      BY <1>a, <1>e, <3>1
  <2> QED
    BY <1>d, <2>1, <2>2
<1>3. CASE WifiInit
  <2>1. UNCHANGED <<orders, configs, posting>> /\ Post("StaStart")
    BY <1>3 DEF WifiInit, queues
  <2> QED
    BY <1>a, <1>d, <1>e, <2>1
<1>4. CASE Poll
  BY <1>d, <1>4 DEF Poll, queues
<1>5. ASSUME NEW m \in Configs, MqttSends(m)
      PROVE  Backed(orders, configs, posting, loop)'
  <2>1. /\ ~posting /\ configs' = Append(configs, m) /\ posting' = TRUE
        /\ UNCHANGED <<loop, orders, missed>>
    BY <1>5 DEF MqttSends
  <2>2. Len(configs') = Len(configs) + 1
    BY <1>c, <1>5, <2>1
  <2>3. Len(configs') <= Triggers(loop') + 1 /\ Len(orders') <= Triggers(loop')
    BY <1>b, <1>c, <2>1, <2>2
  <2> QED
    BY <2>1, <2>3 DEF Backed
<1>6. CASE MqttTriggers
  <2>1. posting /\ posting' = FALSE /\ UNCHANGED <<orders, configs>> /\ Post("Trigger")
    BY <1>6 DEF MqttTriggers
  <2>2. ~missed /\ loop' = Append(loop, "Trigger")
    BY <1>a, <2>1, NetAssumption, PostCases
  <2>3. Triggers(loop') = Triggers(loop) + 1
    BY <1>a, <1>c, <2>2, TriggersAppend
  <2>4. Len(configs') <= Triggers(loop') /\ Len(orders') <= Triggers(loop')
    BY <1>b, <1>c, <2>1, <2>2, <2>3
  <2> QED
    BY <1>c, <2>1, <2>3, <2>4 DEF Backed
<1>7. CASE Take
  BY <1>d, <1>7 DEF Take, queues
<1>8. CASE EthConnected
  BY <1>a, <1>g, <1>8 DEF EthConnected
<1>9. CASE EthDisconnected
  BY <1>a, <1>g, <1>9 DEF EthDisconnected
<1>10. CASE EthGotIp
  <2>1. /\ Handles("EthGotIp") /\ loop' = Tail(loop)
        /\ UNCHANGED <<orders, configs, posting, missed>>
    BY <1>10 DEF EthGotIp, queues
  <2> QED
    BY <1>d, <1>f, <2>1
<1>11. CASE StaStart
  <2>1. /\ Handles("StaStart") /\ loop' = Tail(loop)
        /\ UNCHANGED <<orders, configs, posting, missed>>
    BY <1>11 DEF StaStart, queues
  <2> QED
    BY <1>d, <1>f, <2>1
<1>12. CASE StaDisconnected
  <2>1. /\ Handles("StaDisconnected") /\ loop' = Tail(loop)
        /\ UNCHANGED <<orders, configs, posting, missed>>
    BY <1>12 DEF StaDisconnected, queues
  <2> QED
    BY <1>d, <1>f, <2>1
<1>13. CASE StaGotIp
  <2>1. /\ Handles("StaGotIp") /\ loop' = Tail(loop)
        /\ UNCHANGED <<orders, configs, posting, missed>>
    BY <1>13 DEF StaGotIp, queues
  <2> QED
    BY <1>d, <1>f, <2>1
<1>14. CASE WifiEventRecvHandler
  <2>1. /\ Handles("Trigger") /\ posting' = posting
        /\ configs' = Popped(configs) /\ orders' = Popped(orders)
    BY <1>14 DEF WifiEventRecvHandler
  <2>2. ~missed /\ Triggers(loop') = Triggers(Tail(loop))
    BY <1>14, QuietHandled
  <2>3. Triggers(loop') + 1 = Triggers(loop) /\ Triggers(loop') \in Nat
    BY <1>f, <2>1, <2>2, TriggersCounted
  <2>4. /\ Len(orders') = Len(orders) - 1 \/ Len(orders') = 0
        /\ Len(configs') = Len(configs) - 1 \/ Len(configs') = 0
    <3>1. Len(Popped(orders)) = Len(orders) - 1 \/ Len(Popped(orders)) = 0
      BY <1>c DEF Popped
    <3>2. Len(Popped(configs)) = Len(configs) - 1 \/ Len(Popped(configs)) = 0
      BY <1>c DEF Popped
    <3> QED
      BY <2>1, <3>1, <3>2
  <2>5. Len(orders') <= Triggers(loop')
    BY <1>b, <1>c, <2>2, <2>3, <2>4
  <2>6. CASE posting
    <3>1. Len(configs') <= Triggers(loop') + 1
      BY <1>b, <1>c, <2>2, <2>3, <2>4, <2>6
    <3> QED
      BY <2>1, <2>5, <2>6, <3>1 DEF Backed
  <2>7. CASE ~posting
    <3>1. Len(configs') <= Triggers(loop')
      BY <1>b, <1>c, <2>2, <2>3, <2>4, <2>7
    <3> QED
      BY <2>1, <2>3, <2>5, <2>7, <3>1 DEF Backed
  <2> QED
    BY <2>6, <2>7
<1>15. CASE UNCHANGED vars
  BY <1>d, <1>15 DEF vars
<1> QED
  BY <1>1, <1>2, <1>3, <1>4, <1>5, <1>6, <1>7, <1>8, <1>9, <1>10, <1>11, <1>12,
     <1>13, <1>14, <1>15 DEF Next, EventLoop

(* Unless something was lost, each message for WifiEventRecvHandler has a  *)
(* trigger in the loop or on its way there, though each trigger takes a    *)
(* message off both queues and the drivers post to the same loop           *)
(* (appMsgSend in main/hello_world_main.c, WifiTriggerRecv in main/wifi.c).*)
THEOREM MessagesHaveTriggersHolds == Spec => []MessagesHaveTriggers
<1>1. Init => TypeOK /\ MessagesHaveTriggers
  <2>1. ASSUME Init PROVE MessagesHaveTriggers
    <3>1. loop = <<>> /\ orders = <<>> /\ configs = <<>> /\ posting = FALSE
      BY <2>1 DEF Init
    <3>2. Triggers(loop) \in Nat
      <4>1. loop \in Seq(Events)
        BY <3>1
      <4> QED
        BY <4>1, TriggersCounted
    <3>3. Len(orders) = 0 /\ Len(configs) = 0
      BY <3>1
    <3>4. Backed(orders, configs, posting, loop)
      BY <3>1, <3>2, <3>3 DEF Backed
    <3> QED
      BY <3>4, BackedMeans
  <2> QED
    BY <2>1, TypeInit, NetAssumption
<1>2. TypeOK /\ MessagesHaveTriggers /\ [Next]_vars => (TypeOK /\ MessagesHaveTriggers)'
  BY TypeStep, MessagesHaveTriggersStep, NetAssumption
<1> QED
  BY <1>1, <1>2, PTL DEF Spec
---------------------------------------------------------------------------
(* Where the loop comes to rest.                                           *)
RestIsRight ==
    (loop = <<>> /\ ~missed) =>
        /\ orders = <<>>
        /\ isDown <=> eth # "down"
        /\ told["Eth"] <=> eth = "online"
        /\ told["Wifi"] <=> sta = "online"
        /\ sta # "idle"

(* Nothing but a pending event keeps the gateway from being right: when the*)
(* default event loop has run out of them and none was lost, WiFi is as the*)
(* cable asks, both interfaces have reported the connection they have, and *)
(* the station is connecting, connected or stopped on purpose.  With the   *)
(* loop's fairness this is what CableObeyed is made of.                    *)
THEOREM RightAtRest == Spec => []RestIsRight
<1>1. /\ TypeOK /\ MessagesHaveTriggers /\ FollowsCable /\ ReportsConnection
      /\ NeverLeftIdle
      => RestIsRight
  <2> SUFFICES ASSUME TypeOK, MessagesHaveTriggers, FollowsCable, ReportsConnection,
                      NeverLeftIdle, loop = <<>>, ~missed
               PROVE  /\ orders = <<>>
                      /\ isDown <=> eth # "down"
                      /\ told["Eth"] <=> eth = "online"
                      /\ told["Wifi"] <=> sta = "online"
                      /\ sta # "idle"
    BY DEF RestIsRight
  <2>1. Len(loop) = 0 /\ \A i : i \notin 1..Len(loop)
    OBVIOUS
  <2>2. orders = <<>>
    <3>1. {i \in 1..Len(loop) : loop[i] = "Trigger"} = {}
      BY <2>1
    <3>2. Len(orders) <= 0
      BY <3>1, FS_EmptySet DEF MessagesHaveTriggers
    <3> QED
      BY <3>2 DEF TypeOK
  <2>3. Len(orders) = 0 /\ \A i : i \notin 1..Len(orders)
    BY <2>2
  <2>4. isDown <=> eth # "down"
    BY <2>1, <2>3 DEF FollowsCable, Newest
  <2>5. told["Eth"] <=> eth = "online"
    BY <2>1 DEF ReportsConnection, Newest
  <2>6. told["Wifi"] <=> sta = "online"
    BY <2>1 DEF ReportsConnection, Newest
  <2>7. sta # "idle"
    BY <2>1 DEF NeverLeftIdle
  <2> QED
    BY <2>2, <2>4, <2>5, <2>6, <2>7
<1> QED
  BY <1>1, TypeCorrect, MessagesHaveTriggersHolds, FollowsCableHolds,
     ReportsConnectionHolds, NeverLeftIdleHolds, PTL
=============================================================================
