-------------------------- MODULE OtaUpdateProofs ---------------------------
(* Proofs about OtaUpdate: the types, and that the newest order is not     *)
(* forgotten.  The lemmas speak of single steps, so that MqttBridgeProofs  *)
(* can use them for the update as a part of the gateway.                   *)
EXTENDS OtaUpdate, SequenceTheorems, TLAPS

(* The handler leaves no other url behind while it copies, and there is a  *)
(* trigger for every order unless one was refused.                         *)
Triggered ==
    /\ ~untold => triggers + (IF posting THEN 1 ELSE 0) >= Len(mqttToUpdate)
    /\ copying # {} => url = Torn

OtaInv == OtaTypeOK /\ Triggered /\ NoOrderForgotten

LEMMA OtaInitially == OtaInit => OtaInv
<1> SUFFICES ASSUME OtaInit PROVE OtaInv
  OBVIOUS
<1>1. mqttToUpdate \in Seq(Urls) /\ Len(mqttToUpdate) = 0
  BY DEF OtaInit
<1>2. OtaTypeOK
  <2>1. Len(mqttToUpdate) <= UpdateLen /\ triggers \in 0..UpdateLoop
    BY <1>1, OtaAssumption DEF OtaInit
  <2> QED  BY <1>1, <2>1 DEF OtaInit, OtaTypeOK
<1>3. Triggered
  BY <1>1 DEF OtaInit, Triggered
<1>4. NoOrderForgotten
  BY DEF OtaInit, NoOrderForgotten
<1> QED  BY <1>2, <1>3, <1>4 DEF OtaInv

(* What taking the first of a sequence leaves.                             *)
LEMMA LastStays ==
  ASSUME NEW S, NEW s \in Seq(S), s # <<>>
  PROVE  /\ Tail(s) \in Seq(S) /\ Len(Tail(s)) = Len(s) - 1
         /\ Head(s) \in S
         /\ Tail(s) = <<>> => s[Len(s)] = Head(s)
         /\ Tail(s) # <<>> => Tail(s)[Len(Tail(s))] = s[Len(s)]
<1>1. /\ Head(s) \in S /\ Tail(s) \in Seq(S) /\ Len(Tail(s)) = Len(s) - 1
      /\ \A i \in 1..Len(Tail(s)) : Tail(s)[i] = s[i+1]
  BY HeadTailProperties
<1>2. Len(s) \in Nat /\ Len(Tail(s)) \in Nat /\ Len(s) > 0 /\ Head(s) = s[1]
  BY <1>1
<1>3. Tail(s) # <<>> => Len(Tail(s)) \in 1..Len(Tail(s))
  BY <1>1, <1>2
<1>4. Tail(s) = <<>> => Len(s) = 1
  BY <1>1, <1>2
<1> QED  BY <1>1, <1>2, <1>3, <1>4

LEMMA SendKeeps ==
  ASSUME OtaInv, ~posting, NEW u \in Urls, SendUpdate(u)
  PROVE  OtaInv'
<1>1. CASE Len(mqttToUpdate) < UpdateLen
  <2>1. /\ mqttToUpdate' = Append(mqttToUpdate, u) /\ posting' = TRUE /\ owed' = u
        /\ UNCHANGED <<untold, triggers, handlerVars, taskVars>>
    BY <1>1 DEF SendUpdate
  <2>2. /\ mqttToUpdate' \in Seq(Urls) /\ Len(mqttToUpdate') = Len(mqttToUpdate) + 1
        /\ mqttToUpdate'[Len(mqttToUpdate')] = u /\ mqttToUpdate' # <<>>
    BY <2>1 DEF OtaInv, OtaTypeOK
  <2>3. OtaTypeOK'
    BY <1>1, <2>1, <2>2, OtaAssumption DEF OtaInv, OtaTypeOK, handlerVars, taskVars
  <2>4. Triggered'
    BY <2>1, <2>2 DEF OtaInv, OtaTypeOK, Triggered, handlerVars
  <2>5. NoOrderForgotten'
    BY <2>1, <2>2, <2>4 DEF NoOrderForgotten, Triggered
  <2> QED  BY <2>3, <2>4, <2>5 DEF OtaInv
<1>2. CASE ~(Len(mqttToUpdate) < UpdateLen)
  <2>1. UNCHANGED otaVars
    BY <1>2 DEF SendUpdate, otaVars, senderVars
  <2> QED
    BY <2>1 DEF OtaInv, OtaTypeOK, Triggered, NoOrderForgotten, otaVars, senderVars,
                handlerVars, taskVars
<1> QED  BY <1>1, <1>2

LEMMA OtaStepKeeps ==
  ASSUME OtaInv, OtaStep
  PROVE  OtaInv'
<1> USE DEF OtaInv
<1>1. CASE UpdateTriggerRecv
  <2>1. /\ posting /\ posting' = FALSE
        /\ UNCHANGED <<mqttToUpdate, owed, copying, url, sem, ota, image, version>>
        /\ triggers' \in 0..UpdateLoop
        /\ ~untold' => ~untold /\ triggers' = triggers + 1
        /\ untold' \in BOOLEAN
    <3>1. CASE triggers < UpdateLoop
      BY <1>1, <3>1, OtaAssumption DEF UpdateTriggerRecv, OtaTypeOK, handlerVars, taskVars
    <3>2. CASE ~(triggers < UpdateLoop)
      BY <1>1, <3>2 DEF UpdateTriggerRecv, OtaTypeOK, handlerVars, taskVars
    <3> QED  BY <3>1, <3>2
  <2>2. OtaTypeOK'
    BY <2>1 DEF OtaTypeOK
  <2>3. Triggered'
    BY <2>1, OtaAssumption DEF Triggered, OtaTypeOK
  <2>4. NoOrderForgotten'
    BY <2>1, <2>3 DEF Triggered, NoOrderForgotten
  <2> QED  BY <2>2, <2>3, <2>4
<1>2. CASE UpdateEventRecvHandler
  <2>1. /\ triggers > 0 /\ copying = {} /\ triggers' = triggers - 1
        /\ UNCHANGED <<sem, posting, owed, untold, ota, image, version>>
    BY <1>2 DEF UpdateEventRecvHandler, taskVars
  <2>2. CASE mqttToUpdate = <<>>
    <3>1. UNCHANGED <<mqttToUpdate, copying, url>>
      BY <1>2, <2>2 DEF UpdateEventRecvHandler
    <3> QED
      BY <2>1, <2>2, <3>1, OtaAssumption DEF OtaTypeOK, Triggered, NoOrderForgotten
  <2>3. CASE mqttToUpdate # <<>>
    <3>1. /\ copying' = {Head(mqttToUpdate)} /\ url' = Torn
          /\ mqttToUpdate' = Tail(mqttToUpdate)
      BY <1>2, <2>3 DEF UpdateEventRecvHandler
    <3>2. mqttToUpdate \in Seq(Urls)
      BY DEF OtaTypeOK
    <3>3. /\ mqttToUpdate' \in Seq(Urls) /\ Len(mqttToUpdate') = Len(mqttToUpdate) - 1
          /\ Head(mqttToUpdate) \in Urls
          /\ mqttToUpdate' = <<>> => mqttToUpdate[Len(mqttToUpdate)] = Head(mqttToUpdate)
          /\ mqttToUpdate' # <<>> =>
               mqttToUpdate'[Len(mqttToUpdate')] = mqttToUpdate[Len(mqttToUpdate)]
      BY <2>3, <3>1, <3>2, LastStays
    <3>4. OtaTypeOK'
      BY <2>1, <3>1, <3>3, OtaAssumption DEF OtaTypeOK
    <3>5. Triggered'
      BY <2>1, <3>1, <3>3, OtaAssumption DEF OtaTypeOK, Triggered
    <3>6. NoOrderForgotten'
      BY <2>1, <2>3, <3>1, <3>3, <3>5 DEF NoOrderForgotten, Triggered
    <3> QED  BY <3>4, <3>5, <3>6
  <2> QED  BY <2>2, <2>3
<1>3. CASE Copied
  <2>1. PICK u \in copying : url' = u
    BY <1>3 DEF Copied
  <2>2. /\ copying' = {} /\ sem' = TRUE /\ u \in Urls
        /\ UNCHANGED <<mqttToUpdate, posting, owed, untold, triggers, ota, image, version>>
    BY <1>3 DEF Copied, senderVars, taskVars, OtaTypeOK
  <2>3. OtaTypeOK'
    BY <2>1, <2>2 DEF OtaTypeOK
  <2>4. Triggered' /\ NoOrderForgotten'
    BY <2>1, <2>2 DEF OtaTypeOK, Triggered, NoOrderForgotten
  <2> QED  BY <2>3, <2>4
<1>4. CASE TakeSem
  BY <1>4 DEF TakeSem, OtaTypeOK, Triggered, NoOrderForgotten, senderVars
<1>5. CASE Begin
  <2>1. /\ ota = "begin" /\ owed' = (IF owed = url THEN Empty ELSE owed)
        /\ ota' \in {"take", "compare"} /\ image' \in Versions
        /\ UNCHANGED <<mqttToUpdate, posting, untold, triggers, copying, url, sem, version>>
    BY <1>5 DEF Begin, handlerVars, OtaTypeOK
  <2>2. OtaTypeOK' /\ Triggered'
    BY <2>1 DEF OtaTypeOK, Triggered
  <2>3. NoOrderForgotten'
    BY <2>1, OtaAssumption DEF OtaTypeOK, NoOrderForgotten
  <2> QED  BY <2>2, <2>3
<1>6. CASE Compare \/ Perform
  <2>1. /\ ota \notin {"take", "begin"} /\ ota' \in {"take", "perform", "restart"}
        /\ UNCHANGED <<mqttToUpdate, posting, owed, untold, triggers, copying, url, sem,
                       image, version>>
    BY <1>6 DEF Compare, Perform, senderVars, handlerVars
  <2> QED
    BY <2>1 DEF OtaTypeOK, Triggered, NoOrderForgotten
<1> QED
  BY <1>1, <1>2, <1>3, <1>4, <1>5, <1>6 DEF OtaStep, OtaTask

LEMMA RestartKeeps ==
  ASSUME OtaInv, Restart
  PROVE  OtaInv'
<1>1. mqttToUpdate' \in Seq(Urls) /\ Len(mqttToUpdate') = 0
  BY DEF Restart
<1>2. OtaTypeOK'
  <2>1. Len(mqttToUpdate') <= UpdateLen /\ triggers' \in 0..UpdateLoop
    BY <1>1, OtaAssumption DEF Restart
  <2> QED  BY <1>1, <2>1 DEF Restart, OtaInv, OtaTypeOK
<1>3. Triggered'
  BY <1>1 DEF Restart, Triggered
<1>4. NoOrderForgotten'
  BY DEF Restart, NoOrderForgotten
<1> QED  BY <1>2, <1>3, <1>4 DEF OtaInv

LEMMA OtaStutters ==
  ASSUME OtaInv, UNCHANGED otaVars
  PROVE  OtaInv'
  BY DEF OtaInv, OtaTypeOK, Triggered, NoOrderForgotten, otaVars, senderVars, handlerVars,
         taskVars

LEMMA OtaAlways == OtaSpec => []OtaInv
<1>1. OtaInv /\ [OtaNext]_otaVars => OtaInv'
  BY SendKeeps, OtaStepKeeps, RestartKeeps, OtaStutters DEF OtaNext
<1> QED  BY OtaInitially, <1>1, PTL DEF OtaSpec

(* The types and the capacity of the queues, whatever is ordered.          *)
THEOREM UpdateTypes == OtaSpec => []OtaTypeOK
<1>1. OtaInv => OtaTypeOK
  BY DEF OtaInv
<1> QED  BY OtaAlways, <1>1, PTL

(* The newest order is not forgotten, with queues of every length.         *)
THEOREM OrderNotForgotten == OtaSpec => []NoOrderForgotten
<1>1. OtaInv => NoOrderForgotten
  BY DEF OtaInv
<1> QED  BY OtaAlways, <1>1, PTL

=============================================================================
