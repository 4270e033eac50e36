-------------------------- MODULE UartLinkProofs --------------------------
(***************************************************************************)
(* Theorems about UartLink, for every set of requests, every length of the *)
(* queues and the wire, every timeout and retry limit, lossy line or not.  *)
(***************************************************************************)
EXTENDS UartLink, TLAPS

(* The parts of the task's and the environment's steps, in one list.       *)
AnySection(s) ==
    \/ TimedOut(s) \/ Answered(s) \/ NothingToDo(s)
    \/ SendRequest(s) \/ SendNetState(s) \/ SkipNetState(s)

LEMMA Messages ==
    /\ \A r \in Requests : Request(r) \in Message /\ Request(r) # GetConfDown
    /\ \A b \in BOOLEAN : NetState(b) \in Message /\ NetState(b) # GetConfDown
    /\ \A r \in Requests, b \in BOOLEAN : Request(r) # NetState(b)
    /\ \A b, c \in BOOLEAN : NetState(b) = NetState(c) => b = c
    /\ GetConfDown \in Message
<1>1. \A r \in Requests : Request(r) \in Message
  BY DEF Message
<1>2. \A b \in BOOLEAN : NetState(b) \in Message
  BY DEF Message
<1>3. GetConfDown \in Message
  BY DEF Message
<1>4. \A r \in Requests : Request(r).attr = "Request"
  BY DEF Request
<1>5. \A b \in BOOLEAN : NetState(b).attr = "NetState" /\ NetState(b).data = b
  BY DEF NetState
<1>6. GetConfDown.attr = "GetConfDown"
  BY DEF GetConfDown
<1> QED
  BY <1>1, <1>2, <1>3, <1>4, <1>5, <1>6

(* Queue operations keep the queues' type and capacity.                    *)
QueuesOK ==
    /\ queue \in [Streams -> Seq(Message)]
    /\ \A s \in Streams : Len(queue[s]) <= QueueLen

LEMMA EnqueueKeepsQueues ==
    ASSUME QueuesOK, NEW s \in Streams, NEW m \in Message, Enqueue(s, m)
    PROVE  /\ QueuesOK'
           /\ \A t \in Streams \ {s} : queue'[t] = queue[t]
           /\ queue'[s] = IF Full(s) THEN queue[s] ELSE Append(queue[s], m)
BY UartAssumption DEF QueuesOK, Enqueue, Full, UartAssumption

LEMMA PopKeepsQueues ==
    ASSUME QueuesOK, NEW s \in Streams, Pop(s)
    PROVE  /\ QueuesOK'
           /\ \A t \in Streams \ {s} : queue'[t] = queue[t]
           /\ queue'[s] = IF queue[s] = <<>> THEN <<>> ELSE Tail(queue[s])
BY UartAssumption DEF QueuesOK, Pop, UartAssumption

(* The initial state has the types. *)
THEOREM InitType == Init => TypeOK
<1> SUFFICES ASSUME Init PROVE TypeOK
  OBVIOUS
<1>1. /\ \A s \in Streams : Len(queue[s]) = 0
      /\ queue \in [Streams -> Seq(Message)]
  BY DEF Init
<1>2. wire \in Seq(Lines) /\ Len(wire) = 0
  BY DEF Init
<1>3. /\ mark \in [Streams -> {"INIT", "PEEK", "RECV"}]
      /\ age \in [Streams -> 0..TIMEOUT]
      /\ recover \in [Streams -> Nat]
      /\ tries \in [Streams -> 0..TriesCap]
      /\ up \in [{"main", "mqtt"} -> 0..QueueLen]
  BY UartAssumption DEF Init, UartAssumption
<1>4. /\ net \in [NetStreams -> BOOLEAN]
      /\ connected \in [NetStreams -> BOOLEAN]
      /\ missed \in [NetStreams -> BOOLEAN]
  BY DEF Init
<1>5. /\ pc = "read" /\ line \in Lines /\ moduleNet = "UNNET"
      /\ getConfDown \in BOOLEAN /\ booted \in BOOLEAN
  BY DEF Init, Lines
<1>6. Len(wire) <= WireLen /\ \A s \in Streams : Len(queue[s]) <= QueueLen
  BY <1>1, <1>2, UartAssumption DEF UartAssumption
<1> QED
  BY <1>1, <1>2, <1>3, <1>4, <1>5, <1>6 DEF TypeOK

LEMMA SenderType == TypeOK /\ Sender => TypeOK'
<1> SUFFICES ASSUME TypeOK, Sender PROVE TypeOK'
  OBVIOUS
<1> USE DEF task, link, module, senders
<1>0. QueuesOK
  BY DEF TypeOK, QueuesOK
<1>1. CASE MainDone
  <2>1. QueuesOK'
    BY <1>0, <1>1, EnqueueKeepsQueues, Messages DEF MainDone, Streams
  <2> QED
    BY <1>1, <2>1 DEF MainDone, TypeOK, QueuesOK
<1>2. CASE \E r \in Requests : MainAsks(r)
  <2>1. QueuesOK'
    BY <1>0, <1>2, EnqueueKeepsQueues, Messages DEF MainAsks, Streams
  <2> QED
    BY <1>2, <2>1 DEF MainAsks, TypeOK, QueuesOK
<1>3. ASSUME NEW s \in NetStreams, NEW r \in Requests, PostRequest(s, r)
      PROVE TypeOK'
  <2>1. QueuesOK'
    BY <1>0, <1>3, EnqueueKeepsQueues, Messages DEF PostRequest, Streams
  <2> QED
    BY <1>3, <2>1 DEF PostRequest, TypeOK, QueuesOK
<1>4. ASSUME NEW s \in NetStreams, NEW b \in BOOLEAN, PostNetState(s, b)
      PROVE TypeOK'
  <2>1. QueuesOK'
    BY <1>0, <1>4, EnqueueKeepsQueues, Messages DEF PostNetState, Streams
  <2>2. missed' \in [NetStreams -> BOOLEAN]
    BY <1>4 DEF PostNetState, TypeOK, Full
  <2> QED
    BY <1>4, <2>1, <2>2 DEF PostNetState, TypeOK, QueuesOK
<1> QED
  BY <1>1, <1>2, <1>3, <1>4 DEF Sender

LEMMA EnvironmentType == TypeOK /\ Environment => TypeOK'
<1> SUFFICES ASSUME TypeOK, Environment PROVE TypeOK'
  OBVIOUS
<1> USE DEF task, link, module, senders
<1>1. CASE Sender
  BY <1>1, SenderType
<1>2. ASSUME NEW l \in Unsolicited, ModuleSpeaks(l) PROVE TypeOK'
  <2>1. l \in Lines
    BY UartAssumption DEF UartAssumption, Lines
  <2>2. wire' \in Seq(Lines) /\ Len(wire') <= WireLen
    BY <1>2, <2>1, UartAssumption DEF ModuleSpeaks, TypeOK, UartAssumption
  <2> QED
    BY <1>2, <2>2 DEF ModuleSpeaks, TypeOK
<1>3. ASSUME NEW d \in {"main", "mqtt"}, Consume(d) PROVE TypeOK'
  <2>1. up' \in [{"main", "mqtt"} -> 0..QueueLen]
    BY <1>3, UartAssumption DEF Consume, TypeOK, UartAssumption
  <2> QED
    BY <1>3, <2>1 DEF Consume, TypeOK
<1>4. CASE Tick
  <2>1. age' \in [Streams -> 0..TIMEOUT]
    <3>1. age \in [Streams -> 0..TIMEOUT] /\ TIMEOUT \in Nat
      BY UartAssumption DEF TypeOK, UartAssumption
    <3>2. age' = [s \in Streams |-> IF mark[s] = "PEEK" /\ age[s] < TIMEOUT
                                      THEN age[s] + 1 ELSE age[s]]
      BY <1>4 DEF Tick
    <3>3. \A s \in Streams : age'[s] \in 0..TIMEOUT
      BY <3>1, <3>2
    <3> QED
      BY <3>2, <3>3
  <2>2. /\ pc' = pc /\ line' = line /\ queue' = queue /\ mark' = mark
        /\ recover' = recover /\ net' = net /\ getConfDown' = getConfDown /\ up' = up
        /\ booted' = booted /\ wire' = wire /\ moduleNet' = moduleNet
        /\ tries' = tries /\ connected' = connected /\ missed' = missed
    BY <1>4 DEF Tick
  <2> QED
    BY <2>1, <2>2 DEF TypeOK
<1> QED
  BY <1>1, <1>2, <1>3, <1>4 DEF Environment

(* Every section goes on to a section or back to the read.                 *)
LEMMA AfterType == \A s \in Streams : After(s) \in Streams \cup {"read", "parse"}
BY DEF After, Streams, NetStreams

LEMMA SetMarkType ==
    ASSUME TypeOK, NEW s \in Streams, NEW m \in {"INIT", "PEEK", "RECV"},
           SetMark(s, m)
    PROVE  /\ mark' \in [Streams -> {"INIT", "PEEK", "RECV"}]
           /\ age' \in [Streams -> 0..TIMEOUT]
<1>1. mark' \in [Streams -> {"INIT", "PEEK", "RECV"}]
  BY DEF SetMark, TypeOK
<1>2. 0 \in 0..TIMEOUT
  BY UartAssumption DEF UartAssumption
<1>3. age' \in [Streams -> 0..TIMEOUT]
  BY <1>2 DEF SetMark, TypeOK
<1> QED
  BY <1>1, <1>3

LEMMA PopType ==
    ASSUME TypeOK, NEW s \in Streams, Pop(s)
    PROVE  /\ queue' \in [Streams -> Seq(Message)]
           /\ \A t \in Streams : Len(queue'[t]) <= QueueLen
           /\ tries' \in [Streams -> 0..TriesCap]
<1>1. QueuesOK'
  BY PopKeepsQueues DEF TypeOK, QueuesOK
<1>2. tries' \in [Streams -> 0..TriesCap]
  BY UartAssumption DEF Pop, TypeOK, UartAssumption
<1> QED
  BY <1>1, <1>2 DEF QueuesOK

LEMMA WrittenType ==
    ASSUME TypeOK, NEW s \in Streams, Written(s)
    PROVE  tries' \in [Streams -> 0..TriesCap] /\ tries'[s] > 0
<1>1. tries \in [Streams -> 0..TriesCap]
  BY DEF TypeOK
<1>2. TriesCap \in Nat \ {0}
  BY UartAssumption DEF UartAssumption
<1>3. (IF tries[s] < TriesCap THEN tries[s] + 1 ELSE tries[s]) \in 1..TriesCap
  BY <1>1, <1>2
<1> QED
  BY <1>1, <1>3 DEF Written

LEMMA WriteType ==
    ASSUME TypeOK, NEW told \in {"CONNSER", "CONNET", "UNNET"}, Write(told)
    PROVE  /\ wire' \in Seq(Lines) /\ Len(wire') <= WireLen
           /\ moduleNet' \in {"CONNSER", "CONNET", "UNNET"}
<1>1. wire \in Seq(Lines) /\ Len(wire) <= WireLen
  BY DEF TypeOK
<1>2. "answer" \in Lines
  BY DEF Lines
<1>3. CASE wire' = wire
  BY <1>1, <1>3 DEF Write, module, TypeOK
<1>4. CASE Len(wire) < WireLen /\ wire' = Append(wire, "answer")
  <2>1. wire' \in Seq(Lines) /\ Len(wire') = Len(wire) + 1
    BY <1>1, <1>2, <1>4
  <2>2. moduleNet' \in {"CONNSER", "CONNET", "UNNET"}
    BY DEF Write, module, TypeOK
  <2> QED
    BY <1>1, <1>4, <2>1, <2>2, UartAssumption DEF UartAssumption
<1> QED
  BY <1>3, <1>4 DEF Write, module

LEMMA NetStateOfType == \A n : NetStateOf(n) \in {"CONNSER", "CONNET", "UNNET"}
BY DEF NetStateOf

LEMMA HandlerType ==
    ASSUME TypeOK, NEW s \in Streams, AnySection(s) \/ ConfDown
    PROVE  TypeOK'
<1> USE DEF task, link, module, senders
<1>0. /\ After(s) \in Streams \cup {"read", "parse"}
      /\ "Main" \in Streams /\ NetStreams \subseteq Streams
  BY AfterType DEF Streams
<1>1. CASE TimedOut(s)
  <2>1. /\ mark' \in [Streams -> {"INIT", "PEEK", "RECV"}]
        /\ age' \in [Streams -> 0..TIMEOUT]
    BY <1>1, SetMarkType DEF TimedOut
  <2>2. /\ queue' \in [Streams -> Seq(Message)]
        /\ \A t \in Streams : Len(queue'[t]) <= QueueLen
        /\ tries' \in [Streams -> 0..TriesCap]
    <3>1. CASE recover[s] >= RECOVERNUM
      BY <1>1, <3>1, PopType DEF TimedOut
    <3>2. CASE ~(recover[s] >= RECOVERNUM)
      BY <1>1, <3>2 DEF TimedOut, TypeOK
    <3> QED
      BY <3>1, <3>2
  <2>3. recover' \in [Streams -> Nat]
    BY <1>1 DEF TimedOut, TypeOK
  <2> QED
    BY <1>0, <1>1, <2>1, <2>2, <2>3 DEF TimedOut, TypeOK
<1>2. CASE Answered(s)
  <2>1. /\ mark' \in [Streams -> {"INIT", "PEEK", "RECV"}]
        /\ age' \in [Streams -> 0..TIMEOUT]
    BY <1>2, SetMarkType DEF Answered
  <2>2. /\ queue' \in [Streams -> Seq(Message)]
        /\ \A t \in Streams : Len(queue'[t]) <= QueueLen
        /\ tries' \in [Streams -> 0..TriesCap]
    BY <1>2, PopType DEF Answered
  <2> QED
    BY <1>0, <1>2, <2>1, <2>2 DEF Answered, TypeOK
<1>3. CASE NothingToDo(s)
  BY <1>0, <1>3 DEF NothingToDo, TypeOK
<1>4. CASE SendRequest(s)
  <2>1. /\ mark' \in [Streams -> {"INIT", "PEEK", "RECV"}]
        /\ age' \in [Streams -> 0..TIMEOUT]
    BY <1>4, SetMarkType DEF SendRequest
  <2>2. tries' \in [Streams -> 0..TriesCap]
    BY <1>4, WrittenType DEF SendRequest
  <2>3. /\ wire' \in Seq(Lines) /\ Len(wire') <= WireLen
        /\ moduleNet' \in {"CONNSER", "CONNET", "UNNET"}
    BY <1>4, WriteType DEF SendRequest, TypeOK
  <2>4. recover' \in [Streams -> Nat]
    BY <1>4 DEF SendRequest, Peeked, TypeOK
  <2> QED
    BY <1>0, <1>4, <2>1, <2>2, <2>3, <2>4 DEF SendRequest, TypeOK
<1>5. CASE SendNetState(s)
  <2>1. /\ mark' \in [Streams -> {"INIT", "PEEK", "RECV"}]
        /\ age' \in [Streams -> 0..TIMEOUT]
    BY <1>5, SetMarkType DEF SendNetState
  <2>2. tries' \in [Streams -> 0..TriesCap]
    BY <1>5, WrittenType DEF SendNetState
  <2>3. /\ wire' \in Seq(Lines) /\ Len(wire') <= WireLen
        /\ moduleNet' \in {"CONNSER", "CONNET", "UNNET"}
    BY <1>5, WriteType, NetStateOfType DEF SendNetState
  <2>4. recover' \in [Streams -> Nat]
    BY <1>5 DEF SendNetState, Peeked, TypeOK
  <2>5. net' \in [NetStreams -> BOOLEAN]
    BY <1>5 DEF SendNetState, TypeOK
  <2> QED
    BY <1>0, <1>5, <2>1, <2>2, <2>3, <2>4, <2>5 DEF SendNetState, TypeOK
<1>6. CASE SkipNetState(s)
  <2>1. /\ mark' \in [Streams -> {"INIT", "PEEK", "RECV"}]
        /\ age' \in [Streams -> 0..TIMEOUT]
    BY <1>6, SetMarkType DEF SkipNetState
  <2>2. /\ queue' \in [Streams -> Seq(Message)]
        /\ \A t \in Streams : Len(queue'[t]) <= QueueLen
        /\ tries' \in [Streams -> 0..TriesCap]
    BY <1>6, PopType DEF SkipNetState
  <2>3. recover' \in [Streams -> Nat]
    BY <1>6 DEF SkipNetState, Peeked, TypeOK
  <2> QED
    BY <1>6, <2>1, <2>2, <2>3 DEF SkipNetState, TypeOK
<1>7. CASE ConfDown
  <2>1. /\ mark' \in [Streams -> {"INIT", "PEEK", "RECV"}]
        /\ age' \in [Streams -> 0..TIMEOUT]
    BY <1>0, <1>7, SetMarkType DEF ConfDown
  <2>2. recover' \in [Streams -> Nat]
    BY <1>7 DEF ConfDown, Peeked, TypeOK
  <2> QED
    BY <1>7, <2>1, <2>2 DEF ConfDown, TypeOK
<1> QED
  BY <1>1, <1>2, <1>3, <1>4, <1>5, <1>6, <1>7 DEF AnySection

LEMMA ParseType == TypeOK /\ UartRecvParse => TypeOK'
<1> SUFFICES ASSUME TypeOK, UartRecvParse PROVE TypeOK'
  OBVIOUS
<1> USE DEF task, link, module, senders
<1>1. up' \in [{"main", "mqtt"} -> 0..QueueLen]
  <2>1. Reader \in {"main", "mqtt"}
    BY DEF Reader
  <2>2. CASE Forwarded(line)
    BY <2>1, <2>2, UartAssumption DEF UartRecvParse, TypeOK, UartAssumption
  <2>3. CASE ~Forwarded(line)
    BY <2>3 DEF UartRecvParse, TypeOK
  <2> QED
    BY <2>2, <2>3
<1>2. mark' \in [Streams -> {"INIT", "PEEK", "RECV"}]
  BY DEF UartRecvParse, Acknowledged, TypeOK
<1>3. age' \in [Streams -> 0..TIMEOUT]
  BY UartAssumption DEF UartRecvParse, TypeOK, UartAssumption
<1> QED
  BY <1>1, <1>2, <1>3 DEF UartRecvParse, TypeOK

LEMMA TaskType == TypeOK /\ UartSelectTask => TypeOK'
<1> SUFFICES ASSUME TypeOK, UartSelectTask PROVE TypeOK'
  OBVIOUS
<1> USE DEF task, link, module, senders
<1>1. CASE ReadLine
  <2>1. wire' \in Seq(Lines) /\ Len(wire') <= WireLen /\ line' \in Lines
    BY <1>1, UartAssumption DEF ReadLine, TypeOK, UartAssumption
  <2> QED
    BY <1>1, <2>1 DEF ReadLine, TypeOK
<1>2. CASE UartRecvParse
  BY <1>2, ParseType
<1>3. CASE StartPass
  <2>1. FirstSection \in Streams
    BY DEF FirstSection, Streams, NetStreams
  <2> QED
    BY <1>3, <2>1 DEF StartPass, TypeOK
<1>4. CASE UartMessageRecvHandler
  BY <1>4, HandlerType DEF UartMessageRecvHandler, AnySection, Streams
<1> QED
  BY <1>1, <1>2, <1>3, <1>4 DEF UartSelectTask

(* The variables keep their types, the queues their capacity and the wire  *)
(* its bound in every behaviour.                                           *)
THEOREM TypeCorrect == Spec => []TypeOK
<1>1. TypeOK /\ [Next]_vars => TypeOK'
  <2>1. TypeOK /\ UNCHANGED vars => TypeOK'
    BY DEF vars, TypeOK
  <2> QED
    BY <2>1, TaskType, EnvironmentType DEF Next
<1> QED
  BY <1>1, InitType, PTL DEF Spec

---------------------------------------------------------------------------
(* The inductive invariant, one stream at a time.  WaitingIsBacked is not  *)
(* inductive alone: that the head is not GetConfDown once it has been      *)
(* written, and that a waiting stream has counted no timeout, must be      *)
(* carried along to see what a late answer or a timeout leaves behind.     *)
StreamInv(s) ==
    /\ mark[s] # "INIT" => /\ queue[s] # <<>>
                           /\ tries[s] > 0 \/ Head(queue[s]) = GetConfDown
    /\ tries[s] > 0 => queue[s] # <<>> /\ Head(queue[s]) # GetConfDown
    /\ mark[s] = "PEEK" => recover[s] = 0

LinkInv == TypeOK /\ (\A s \in Streams : StreamInv(s)) /\ ModuleInformed

LEMMA StreamUntouched ==
    ASSUME NEW t, StreamInv(t), queue'[t] = queue[t], mark'[t] = mark[t],
           tries'[t] = tries[t], recover'[t] = recover[t]
    PROVE  StreamInv(t)'
BY DEF StreamInv

LEMMA EnqueueKeepsStreams ==
    ASSUME TypeOK, \A t \in Streams : StreamInv(t),
           NEW s \in Streams, NEW m \in Message, Enqueue(s, m),
           UNCHANGED <<mark, tries, recover>>
    PROVE  \A t \in Streams : StreamInv(t)'
<1>1. /\ \A t \in Streams \ {s} : queue'[t] = queue[t]
      /\ queue'[s] = IF Full(s) THEN queue[s] ELSE Append(queue[s], m)
  BY EnqueueKeepsQueues DEF TypeOK, QueuesOK
<1>2. queue[s] # <<>> => queue'[s] # <<>> /\ Head(queue'[s]) = Head(queue[s])
  <2>1. queue[s] \in Seq(Message)
    BY DEF TypeOK
  <2> QED
    BY <1>1, <2>1
<1> QED
  BY <1>1, <1>2 DEF StreamInv

LEMMA EnvironmentKeepsLinkInv == LinkInv /\ Environment => LinkInv'
<1> SUFFICES ASSUME LinkInv, Environment PROVE LinkInv'
  OBVIOUS
<1> USE DEF task, link, module, senders
<1>0. TypeOK'
  BY EnvironmentType DEF LinkInv
<1>1. ModuleInformed'
  BY DEF LinkInv, ModuleInformed, NetStateOf, Environment, Sender, MainDone, MainAsks,
         PostRequest, PostNetState, ModuleSpeaks, Consume, Tick
<1>2. ASSUME Sender PROVE \A t \in Streams : StreamInv(t)'
  <2>1. \E s \in Streams, m \in Message : Enqueue(s, m)
    BY <1>2, Messages DEF Sender, MainDone, MainAsks, PostRequest, PostNetState,
                          Streams
  <2>2. UNCHANGED <<mark, tries, recover>>
    BY <1>2 DEF Sender, MainDone, MainAsks, PostRequest, PostNetState
  <2> QED
    BY <2>1, <2>2, EnqueueKeepsStreams DEF LinkInv
<1>3. CASE Sender
  BY <1>0, <1>1, <1>2, <1>3 DEF LinkInv
<1>4. CASE ~Sender
  <2>1. UNCHANGED <<queue, mark, tries, recover>>
    BY <1>4 DEF Environment, ModuleSpeaks, Consume, Tick
  <2> QED
    BY <1>0, <1>1, <2>1, StreamUntouched DEF LinkInv
<1> QED
  BY <1>3, <1>4

(* Taking the head off a stream whose mark is or becomes INIT.             *)
LEMMA PopKeepsStream ==
    ASSUME TypeOK, NEW s \in Streams, Pop(s), SetMark(s, "INIT")
    PROVE  /\ StreamInv(s)'
           /\ \A t \in Streams \ {s} : /\ queue'[t] = queue[t]
                                       /\ mark'[t] = mark[t]
                                       /\ tries'[t] = tries[t]
<1>1. mark'[s] = "INIT" /\ tries'[s] = 0
  BY DEF SetMark, Pop, TypeOK
<1> QED
  BY <1>1 DEF StreamInv, SetMark, Pop, TypeOK

LEMMA HandlerKeepsStreams ==
    ASSUME TypeOK, \A t \in Streams : StreamInv(t),
           NEW s \in Streams, AnySection(s) \/ ConfDown
    PROVE  \A t \in Streams : StreamInv(t)'
<1> USE DEF task, link, module, senders
<1>1. CASE TimedOut(s)
  <2>1. recover[s] = 0 /\ mark'[s] = "INIT"
    BY <1>1 DEF TimedOut, StreamInv, SetMark, TypeOK
  <2>2. \A t \in Streams \ {s} : StreamInv(t)'
    <3>1. \A t \in Streams \ {s} :
            /\ queue'[t] = queue[t] /\ mark'[t] = mark[t]
            /\ tries'[t] = tries[t] /\ recover'[t] = recover[t]
      BY <1>1 DEF TimedOut, SetMark, Pop, TypeOK
    <3> QED
      BY <3>1, StreamUntouched
  <2>3. StreamInv(s)'
    <3>1. CASE recover[s] >= RECOVERNUM
      BY <1>1, <3>1, PopKeepsStream DEF TimedOut
    <3>2. CASE ~(recover[s] >= RECOVERNUM)
      BY <1>1, <2>1, <3>2 DEF TimedOut, StreamInv
    <3> QED
      BY <3>1, <3>2
  <2> QED
    BY <2>2, <2>3
<1>2. CASE Answered(s)
  BY <1>2, PopKeepsStream, StreamUntouched DEF Answered
<1>3. CASE NothingToDo(s)
  BY <1>3, StreamUntouched DEF NothingToDo
<1>4. ASSUME NEW m, Peeked(s, m), m # GetConfDown, SetMark(s, "PEEK"), Written(s),
             UNCHANGED queue
      PROVE  \A t \in Streams : StreamInv(t)'
  <2>1. tries'[s] > 0 /\ recover'[s] = 0
    BY <1>4, WrittenType DEF Peeked, TypeOK
  <2>2. \A t \in Streams \ {s} :
          /\ queue'[t] = queue[t] /\ mark'[t] = mark[t]
          /\ tries'[t] = tries[t] /\ recover'[t] = recover[t]
    BY <1>4 DEF Peeked, SetMark, Written, TypeOK
  <2>3. StreamInv(s)'
    BY <1>4, <2>1 DEF Peeked, StreamInv
  <2> QED
    BY <2>2, <2>3, StreamUntouched
<1>5. CASE SendRequest(s)
  BY <1>4, <1>5, Messages DEF SendRequest
<1>6. CASE SendNetState(s)
  BY <1>4, <1>6, Messages DEF SendNetState
<1>7. CASE SkipNetState(s)
  <2>1. \A t \in Streams \ {s} : recover'[t] = recover[t]
    BY <1>7 DEF SkipNetState, Peeked, TypeOK
  <2> QED
    BY <1>7, <2>1, PopKeepsStream, StreamUntouched DEF SkipNetState
<1>8. CASE ConfDown
  <2>1. /\ "Main" \in Streams
        /\ \A t \in Streams \ {"Main"} :
             /\ queue'[t] = queue[t] /\ mark'[t] = mark[t]
             /\ tries'[t] = tries[t] /\ recover'[t] = recover[t]
    BY <1>8 DEF ConfDown, Peeked, SetMark, TypeOK, Streams
  <2>2. StreamInv("Main")'
    BY <1>8, <2>1 DEF ConfDown, Peeked, StreamInv, TypeOK
  <2> QED
    BY <2>1, <2>2, StreamUntouched
<1> QED
  BY <1>1, <1>2, <1>3, <1>5, <1>6, <1>7, <1>8 DEF AnySection

LEMMA HandlerKeepsModuleInformed ==
    ASSUME ModuleInformed, NEW s \in Streams, AnySection(s) \/ ConfDown
    PROVE  ModuleInformed'
<1> USE DEF task, link, module, senders
<1>1. CASE SendNetState(s)
  BY <1>1 DEF SendNetState, Write, ModuleInformed, NetStateOf
<1>2. CASE SendRequest(s)
  BY <1>2 DEF SendRequest, Write, ModuleInformed, NetStateOf
<1>3. CASE ~SendNetState(s) /\ ~SendRequest(s)
  BY <1>3 DEF AnySection, TimedOut, Answered, NothingToDo, SkipNetState, ConfDown,
              ModuleInformed, NetStateOf
<1> QED
  BY <1>1, <1>2, <1>3

LEMMA TaskKeepsLinkInv == LinkInv /\ UartSelectTask => LinkInv'
<1> SUFFICES ASSUME LinkInv, UartSelectTask PROVE LinkInv'
  OBVIOUS
<1> USE DEF task, link, module, senders
<1>0. TypeOK'
  BY TaskType DEF LinkInv
<1>1. CASE ReadLine
  <2>1. UNCHANGED <<queue, mark, tries, recover, net, moduleNet>>
    BY <1>1 DEF ReadLine
  <2> QED
    BY <1>0, <2>1, StreamUntouched DEF LinkInv, ModuleInformed, NetStateOf
<1>2. CASE UartRecvParse
  <2>1. UNCHANGED <<queue, tries, recover, net, moduleNet>>
    BY <1>2 DEF UartRecvParse
  <2>2. \A t \in Streams : mark'[t] = mark[t] \/ (mark[t] = "PEEK" /\ mark'[t] = "RECV")
    <3>1. mark' = Acknowledged(line)
      BY <1>2 DEF UartRecvParse
    <3> QED
      BY <3>1 DEF Acknowledged
  <2>3. \A t \in Streams : StreamInv(t)'
    BY <2>1, <2>2 DEF LinkInv, StreamInv
  <2> QED
    BY <1>0, <2>1, <2>3 DEF LinkInv, ModuleInformed, NetStateOf
<1>3. CASE StartPass
  <2>1. UNCHANGED <<queue, mark, tries, recover, net, moduleNet>>
    BY <1>3 DEF StartPass
  <2> QED
    BY <1>0, <2>1, StreamUntouched DEF LinkInv, ModuleInformed, NetStateOf
<1>4. CASE UartMessageRecvHandler
  <2>1. \E s \in Streams : AnySection(s) \/ ConfDown
    BY <1>4 DEF UartMessageRecvHandler, AnySection, Streams
  <2> QED
    BY <1>0, <2>1, HandlerKeepsStreams, HandlerKeepsModuleInformed DEF LinkInv
<1> QED
  BY <1>1, <1>2, <1>3, <1>4 DEF UartSelectTask

(* The strengthening LinkInv, from which the next theorems follow. *)
THEOREM LinkInvHolds == Spec => []LinkInv
<1>1. Init => LinkInv
  <2> SUFFICES ASSUME Init PROVE LinkInv
    OBVIOUS
  <2>1. \A s \in Streams : mark[s] = "INIT" /\ tries[s] = 0
    BY DEF Init
  <2>2. ModuleInformed
    BY DEF Init, ModuleInformed, NetStateOf, NetStreams
  <2> QED
    BY <2>1, <2>2, InitType DEF LinkInv, StreamInv
<1>2. LinkInv /\ UNCHANGED vars => LinkInv'
  <2> SUFFICES ASSUME LinkInv, UNCHANGED vars PROVE LinkInv'
    OBVIOUS
  <2>1. TypeOK'
    BY DEF LinkInv, vars, TypeOK
  <2> QED
    BY <2>1, StreamUntouched DEF LinkInv, vars, ModuleInformed, NetStateOf
<1>3. LinkInv /\ [Next]_vars => LinkInv'
  BY <1>2, TaskKeepsLinkInv, EnvironmentKeepsLinkInv DEF Next
<1> QED
  BY <1>1, <1>3, PTL DEF Spec

(* Every recv of a pass finds the message it means to take off.            *)
THEOREM WaitingStreamsAreBacked == Spec => []WaitingIsBacked
<1>1. LinkInv => WaitingIsBacked
  BY DEF LinkInv, StreamInv, WaitingIsBacked
<1> QED
  BY <1>1, LinkInvHolds, PTL

(* On a line that loses nothing the module always knows the merged status. *)
THEOREM ModuleKnowsMergedStatus == Spec => []ModuleInformed
<1>1. LinkInv => ModuleInformed
  BY DEF LinkInv
<1> QED
  BY <1>1, LinkInvHolds, PTL

(* The branch that gives a message up after RECOVERNUM timeouts is dead:   *)
(* no timeout ever takes a message off a queue.                            *)
THEOREM NoTimeoutGivesUp ==
    ASSUME RECOVERNUM > 0
    PROVE  Spec => [][\A s \in Streams : TimedOut(s) => UNCHANGED queue]_vars
<1>1. LinkInv => \A s \in Streams : TimedOut(s) => UNCHANGED queue
  BY UartAssumption DEF LinkInv, StreamInv, TimedOut, UartAssumption
<1> QED
  BY <1>1, LinkInvHolds, PTL

---------------------------------------------------------------------------
(* Refinement of StreamContract, step by step.                             *)
HeadWritten == [s \in Streams |-> tries[s] > 0]

LEMMA UnchangedRefines ==
    ASSUME UNCHANGED <<queue, tries>> PROVE UNCHANGED Contract!vars
BY DEF Contract!vars

LEMMA EnqueueRefines ==
    ASSUME TypeOK, NEW s \in Streams, NEW m \in Message, Enqueue(s, m),
           UNCHANGED tries
    PROVE  [Contract!Next]_(Contract!vars)
<1>1. CASE Full(s)
  BY <1>1, UnchangedRefines DEF Enqueue
<1>2. CASE ~Full(s)
  <2>1. Len(queue[s]) < QueueLen
    BY <1>2, UartAssumption DEF Full, TypeOK, UartAssumption
  <2>2. Contract!Post(s, m)
    BY <1>2, <2>1 DEF Enqueue, Contract!Post
  <2> QED
    BY <2>2 DEF Contract!Next
<1> QED
  BY <1>1, <1>2

LEMMA PopRefines ==
    ASSUME TypeOK, NEW s \in Streams, Pop(s), queue[s] # <<>>,
           tries[s] > 0 \/ Head(queue[s]) \in {NetState(TRUE), NetState(FALSE), GetConfDown}
    PROVE  [Contract!Next]_(Contract!vars)
<1>1. queue' = [queue EXCEPT ![s] = Tail(@)]
  BY DEF Pop, TypeOK
<1>2. HeadWritten' = [HeadWritten EXCEPT ![s] = FALSE]
  <2>1. ((tries'[s] > 0) <=> FALSE) /\ \A t \in Streams \ {s} : tries'[t] = tries[t]
    BY DEF Pop, TypeOK
  <2>2. (tries'[s] > 0) = FALSE
    BY <2>1
  <2>3. \A t \in Streams \ {s} : (tries'[t] > 0) = (tries[t] > 0)
    BY <2>1
  <2> QED
    BY <2>2, <2>3, Zenon DEF HeadWritten
<1>3. Contract!Discard(s)
  BY <1>1, <1>2 DEF Contract!Discard, HeadWritten
<1> QED
  BY <1>3 DEF Contract!Next

LEMMA OfferRefines ==
    ASSUME TypeOK, NEW s \in Streams, queue[s] # <<>>, Written(s), UNCHANGED queue
    PROVE  [Contract!Next]_(Contract!vars)
<1>1. tries'[s] > 0 /\ \A t \in Streams \ {s} : tries'[t] = tries[t]
  BY WrittenType DEF Written, TypeOK
<1>2. HeadWritten' = [HeadWritten EXCEPT ![s] = TRUE]
  BY <1>1 DEF HeadWritten
<1>3. Contract!Offer(s)
  BY <1>2 DEF Contract!Offer, HeadWritten
<1> QED
  BY <1>3 DEF Contract!Next

LEMMA HandlerRefines ==
    ASSUME LinkInv, NEW s \in Streams, AnySection(s) \/ ConfDown
    PROVE  [Contract!Next]_(Contract!vars)
<1> USE DEF task, link, module, senders
<1>0. TypeOK /\ StreamInv(s)
  BY DEF LinkInv
<1>1. CASE TimedOut(s)
  <2>1. queue[s] # <<>> /\ (tries[s] > 0 \/ Head(queue[s]) = GetConfDown)
    BY <1>0, <1>1 DEF TimedOut, StreamInv
  <2>2. CASE recover[s] >= RECOVERNUM
    BY <1>0, <1>1, <2>1, <2>2, PopRefines DEF TimedOut
  <2>3. CASE ~(recover[s] >= RECOVERNUM)
    BY <1>1, <2>3, UnchangedRefines DEF TimedOut
  <2> QED
    BY <2>2, <2>3
<1>2. CASE Answered(s)
  <2>1. queue[s] # <<>> /\ (tries[s] > 0 \/ Head(queue[s]) = GetConfDown)
    BY <1>0, <1>2 DEF Answered, StreamInv
  <2> QED
    BY <1>0, <1>2, <2>1, PopRefines DEF Answered
<1>3. CASE NothingToDo(s)
  BY <1>3, UnchangedRefines DEF NothingToDo
<1>4. CASE SendRequest(s)
  BY <1>0, <1>4, OfferRefines DEF SendRequest, Peeked
<1>5. CASE SendNetState(s)
  BY <1>0, <1>5, OfferRefines DEF SendNetState, Peeked
<1>6. CASE SkipNetState(s)
  <2>1. queue[s] # <<>> /\ Head(queue[s]) = NetState(net[s]) /\ net[s] \in BOOLEAN
    BY <1>0, <1>6 DEF SkipNetState, Peeked, TypeOK
  <2>2. Head(queue[s]) \in {NetState(TRUE), NetState(FALSE), GetConfDown}
    BY <2>1
  <2> QED
    BY <1>0, <1>6, <2>1, <2>2, PopRefines DEF SkipNetState
<1>7. CASE ConfDown
  BY <1>7, UnchangedRefines DEF ConfDown
<1> QED
  BY <1>1, <1>2, <1>3, <1>4, <1>5, <1>6, <1>7 DEF AnySection

LEMMA StepRefines == LinkInv /\ [Next]_vars => [Contract!Next]_(Contract!vars)
<1> SUFFICES ASSUME LinkInv, [Next]_vars PROVE [Contract!Next]_(Contract!vars)
  OBVIOUS
<1> USE DEF task, link, module, senders
<1>1. CASE Sender
  <2>1. \E s \in Streams, m \in Message : Enqueue(s, m)
    BY <1>1, Messages DEF Sender, MainDone, MainAsks, PostRequest, PostNetState,
                          Streams
  <2>2. UNCHANGED tries
    BY <1>1 DEF Sender, MainDone, MainAsks, PostRequest, PostNetState
  <2> QED
    BY <2>1, <2>2, EnqueueRefines DEF LinkInv
<1>2. CASE Environment /\ ~Sender
  <2>1. UNCHANGED <<queue, tries>>
    BY <1>2 DEF Environment, ModuleSpeaks, Consume, Tick
  <2> QED
    BY <2>1, UnchangedRefines
<1>3. CASE ReadLine \/ UartRecvParse \/ StartPass
  <2>1. UNCHANGED <<queue, tries>>
    BY <1>3 DEF ReadLine, UartRecvParse, StartPass
  <2> QED
    BY <2>1, UnchangedRefines
<1>4. CASE UartMessageRecvHandler
  <2>1. \E s \in Streams : AnySection(s) \/ ConfDown
    BY <1>4 DEF UartMessageRecvHandler, AnySection, Streams
  <2> QED
    BY <2>1, HandlerRefines
<1>5. CASE UNCHANGED vars
  BY <1>5, UnchangedRefines DEF vars
<1> QED
  BY <1>1, <1>2, <1>3, <1>4, <1>5 DEF Next, UartSelectTask

(* The link implements StreamContract: each sender's messages leave in the *)
(* order they came, and a request only after it was written.               *)
THEOREM LinkKeepsContract == Spec => KeepsContract
<1>1. Init => Contract!Init
  <2> SUFFICES ASSUME Init PROVE Contract!Init
    OBVIOUS
  <2>1. \A s \in Streams : (tries[s] > 0) <=> FALSE
    <3>1. tries = [s \in Streams |-> 0]
      BY DEF Init
    <3> QED
      BY <3>1
  <2>2. \A s \in Streams : (tries[s] > 0) = FALSE
    BY <2>1
  <2>3. HeadWritten = [s \in Streams |-> FALSE]
    BY <2>2, Zenon DEF HeadWritten
  <2> QED
    BY <2>3 DEF Init, Contract!Init, HeadWritten
<1> QED
  BY <1>1, StepRefines, LinkInvHolds, PTL DEF Spec, KeepsContract, Contract!Spec

---------------------------------------------------------------------------
(* NetStateInSync: what each operation does to the newest report of a      *)
(* queue.  A report is stored in net when it is written, so that taking it *)
(* off later loses nothing; that is what must be carried along.            *)
ReportStored(s) ==
    mark[s] # "INIT" /\ Head(queue[s]).attr = "NetState" =>
        Head(queue[s]) = NetState(net[s])

LEMMA ReportFields ==
    /\ \A b : NetState(b).attr = "NetState" /\ NetState(b).data = b
    /\ \A r : Request(r).attr = "Request"
    /\ GetConfDown.attr = "GetConfDown"
BY DEF NetState, Request, GetConfDown

LEMMA NewestAfterOther ==
    ASSUME NEW q \in Seq(Message), NEW n, NEW b, NEW m \in Message,
           m.attr # "NetState", NewestReport(q, n, b)
    PROVE  NewestReport(Append(q, m), n, b)
<1> DEFINE p == Append(q, m)
<1>1. /\ Len(p) = Len(q) + 1 /\ Len(q) \in Nat
      /\ \A i \in 1..Len(q) : p[i] = q[i]
      /\ p[Len(q) + 1] = m
  OBVIOUS
<1> HIDE DEF p
<1>2. CASE n = b /\ \A j \in 1..Len(q) : q[j].attr # "NetState"
  <2>1. \A j \in 1..Len(p) : p[j].attr # "NetState"
    BY <1>1, <1>2
  <2> QED
    BY <1>2, <2>1 DEF NewestReport, p
<1>3. ASSUME NEW i \in 1..Len(q), q[i] = NetState(b),
             \A j \in (i+1)..Len(q) : q[j].attr # "NetState"
      PROVE  NewestReport(Append(q, m), n, b)
  <2>1. i \in 1..Len(p) /\ p[i] = NetState(b)
    BY <1>1, <1>3
  <2>2. \A j \in (i+1)..Len(p) : p[j].attr # "NetState"
    BY <1>1, <1>3
  <2> QED
    BY <2>1, <2>2 DEF NewestReport, p
<1> QED
  BY <1>2, <1>3 DEF NewestReport

LEMMA NewestAfterReport ==
    ASSUME NEW q \in Seq(Message), NEW n, NEW b \in BOOLEAN
    PROVE  NewestReport(Append(q, NetState(b)), n, b)
<1> DEFINE p == Append(q, NetState(b))
<1>1. NetState(b) \in Message
  BY Messages
<1>2. Len(p) = Len(q) + 1 /\ Len(q) \in Nat /\ p[Len(q) + 1] = NetState(b)
  BY <1>1
<1> HIDE DEF p
<1>3. /\ Len(q) + 1 \in 1..Len(p)
      /\ \A j \in (Len(q) + 1 + 1)..Len(p) : p[j].attr # "NetState"
  BY <1>2
<1> QED
  BY <1>2, <1>3 DEF NewestReport, p

LEMMA NewestAfterPop ==
    ASSUME NEW q \in Seq(Message), q # <<>>, NEW n, NEW b, NewestReport(q, n, b),
           Head(q).attr = "NetState" => Head(q) = NetState(n)
    PROVE  NewestReport(Tail(q), n, b)
<1> DEFINE p == Tail(q)
<1>1. /\ Len(q) \in Nat /\ Len(q) >= 1 /\ Len(p) = Len(q) - 1
      /\ \A i \in 1..Len(p) : p[i] = q[i + 1]
      /\ Head(q) = q[1]
  OBVIOUS
<1> HIDE DEF p
<1>2. CASE n = b /\ \A j \in 1..Len(q) : q[j].attr # "NetState"
  <2>1. \A j \in 1..Len(p) : p[j].attr # "NetState"
    BY <1>1, <1>2
  <2> QED
    BY <1>2, <2>1 DEF NewestReport, p
<1>3. ASSUME NEW i \in 1..Len(q), q[i] = NetState(b),
             \A j \in (i+1)..Len(q) : q[j].attr # "NetState"
      PROVE  NewestReport(Tail(q), n, b)
  <2>1. CASE i = 1
    <3>1. n = b
      BY <1>1, <1>3, <2>1, ReportFields
    <3>2. \A j \in 1..Len(p) : p[j].attr # "NetState"
      BY <1>1, <1>3, <2>1
    <3> QED
      BY <3>1, <3>2 DEF NewestReport, p
  <2>2. CASE i # 1
    <3>1. i - 1 \in 1..Len(p) /\ p[i - 1] = NetState(b)
      BY <1>1, <1>3, <2>2
    <3>2. \A j \in (i - 1 + 1)..Len(p) : p[j].attr # "NetState"
      BY <1>1, <1>3, <2>2
    <3> QED
      BY <3>1, <3>2 DEF NewestReport, p
  <2> QED
    BY <2>1, <2>2
<1> QED
  BY <1>2, <1>3 DEF NewestReport

LEMMA NewestWhenStored ==
    ASSUME NEW q \in Seq(Message), q # <<>>, NEW n, NEW b, NEW c,
           NewestReport(q, n, b), Head(q) = NetState(c)
    PROVE  NewestReport(q, c, b)
<1>1. 1 \in 1..Len(q) /\ q[1].attr = "NetState"
  BY ReportFields
<1> QED
  BY <1>1 DEF NewestReport

InSync(s) == missed[s] \/ NewestReport(queue[s], net[s], connected[s])

SyncInv ==
    LinkInv /\ \A s \in NetStreams : ReportStored(s) /\ InSync(s)

LEMMA SyncUntouched ==
    ASSUME NEW s, ReportStored(s), InSync(s), queue'[s] = queue[s], mark'[s] = mark[s],
           net'[s] = net[s], connected'[s] = connected[s], missed'[s] = missed[s]
    PROVE  ReportStored(s)' /\ InSync(s)'
<1>1. ReportStored(s)'
  BY DEF ReportStored
<1>2. InSync(s)'
  BY DEF InSync, NewestReport
<1> QED
  BY <1>1, <1>2

LEMMA EnqueueKeepsStored ==
    ASSUME SyncInv, NEW t \in Streams, NEW m \in Message, Enqueue(t, m),
           UNCHANGED <<mark, net>>, NEW s \in NetStreams
    PROVE  ReportStored(s)'
<1>1. queue[s] \in Seq(Message) /\ s \in Streams
  BY DEF SyncInv, LinkInv, TypeOK, Streams
<1>2. queue'[s] = queue[s] \/ queue'[s] = Append(queue[s], m)
  BY <1>1, EnqueueKeepsQueues DEF SyncInv, LinkInv, TypeOK, QueuesOK
<1>3. CASE mark[s] # "INIT"
  <2>1. queue[s] # <<>>
    BY <1>1, <1>3 DEF SyncInv, LinkInv, StreamInv
  <2>2. Head(queue'[s]) = Head(queue[s])
    BY <1>1, <1>2, <2>1
  <2> QED
    BY <2>2 DEF SyncInv, ReportStored
<1>4. CASE mark[s] = "INIT"
  BY <1>4 DEF ReportStored
<1> QED
  BY <1>3, <1>4

(* A message that is no report leaves the newest report what it was.       *)
LEMMA EnqueueOtherKeepsSync ==
    ASSUME SyncInv, NEW t \in Streams, NEW m \in Message, Enqueue(t, m),
           m.attr # "NetState", UNCHANGED <<mark, net, connected, missed>>,
           NEW s \in NetStreams
    PROVE  InSync(s)'
<1>1. queue[s] \in Seq(Message) /\ s \in Streams
  BY DEF SyncInv, LinkInv, TypeOK, Streams
<1>2. queue'[s] = queue[s] \/ queue'[s] = Append(queue[s], m)
  BY <1>1, EnqueueKeepsQueues DEF SyncInv, LinkInv, TypeOK, QueuesOK
<1>3. CASE queue'[s] = queue[s]
  BY <1>3 DEF SyncInv, InSync, NewestReport
<1>4. CASE queue'[s] = Append(queue[s], m)
  <2>1. CASE missed[s]
    BY <2>1 DEF InSync
  <2>2. CASE ~missed[s]
    <3>1. NewestReport(queue[s], net[s], connected[s])
      BY <2>2 DEF SyncInv, InSync
    <3>2. NewestReport(Append(queue[s], m), net[s], connected[s])
      BY <1>1, <3>1, NewestAfterOther
    <3> QED
      BY <1>4, <3>2 DEF InSync, NewestReport
  <2> QED
    BY <2>1, <2>2
<1> QED
  BY <1>2, <1>3, <1>4

LEMMA ReportKeepsSync ==
    ASSUME SyncInv, NEW t \in NetStreams, NEW b \in BOOLEAN, PostNetState(t, b),
           NEW s \in NetStreams
    PROVE  ReportStored(s)' /\ InSync(s)'
<1> USE DEF task, link, module, senders
<1>1. /\ Enqueue(t, NetState(b)) /\ NetState(b) \in Message /\ t \in Streams
      /\ UNCHANGED <<mark, net>>
  BY Messages DEF PostNetState, Streams
<1>2. ReportStored(s)'
  BY <1>1, EnqueueKeepsStored
<1>3. /\ \A u \in Streams \ {t} : queue'[u] = queue[u]
      /\ queue'[t] = IF Full(t) THEN queue[t] ELSE Append(queue[t], NetState(b))
  BY <1>1, EnqueueKeepsQueues DEF SyncInv, LinkInv, TypeOK, QueuesOK
<1>4. CASE s # t
  <2>1. /\ queue'[s] = queue[s] /\ connected'[s] = connected[s]
        /\ missed'[s] = missed[s] /\ net'[s] = net[s] /\ mark'[s] = mark[s]
    BY <1>1, <1>3, <1>4 DEF PostNetState, SyncInv, LinkInv, TypeOK, Streams
  <2> QED
    BY <2>1, SyncUntouched DEF SyncInv
<1>5. CASE s = t
  <2>1. (missed'[s] <=> Full(s)) /\ connected'[s] = b /\ queue[s] \in Seq(Message)
    BY <1>5 DEF PostNetState, SyncInv, LinkInv, TypeOK, Streams
  <2>2. CASE Full(s)
    BY <1>2, <2>1, <2>2 DEF InSync
  <2>3. CASE ~Full(s)
    <3>1. NewestReport(queue'[s], net'[s], connected'[s])
      BY <1>3, <1>5, <2>1, <2>3, NewestAfterReport
    <3> QED
      BY <1>2, <3>1 DEF InSync, NewestReport
  <2> QED
    BY <2>2, <2>3
<1> QED
  BY <1>4, <1>5

LEMMA EnvironmentKeepsSync ==
    ASSUME SyncInv, Environment, NEW s \in NetStreams
    PROVE  ReportStored(s)' /\ InSync(s)'
<1> USE DEF task, link, module, senders
<1>1. ASSUME NEW t \in Streams, NEW r \in Requests, MainAsks(r) \/ PostRequest(t, r)
      PROVE  ReportStored(s)' /\ InSync(s)'
  <2>1. /\ \E u \in Streams : Enqueue(u, Request(r))
        /\ UNCHANGED <<mark, net, connected, missed>>
    BY <1>1 DEF MainAsks, PostRequest, Streams
  <2>2. Request(r) \in Message /\ Request(r).attr # "NetState"
    BY Messages, ReportFields
  <2> QED
    BY <2>1, <2>2, EnqueueKeepsStored, EnqueueOtherKeepsSync
<1>2. CASE MainDone
  <2>1. Enqueue("Main", GetConfDown) /\ UNCHANGED <<mark, net, connected, missed>>
    BY <1>2 DEF MainDone
  <2>2. /\ GetConfDown \in Message /\ GetConfDown.attr # "NetState"
        /\ "Main" \in Streams
    BY Messages, ReportFields DEF Streams
  <2> QED
    BY <2>1, <2>2, EnqueueKeepsStored, EnqueueOtherKeepsSync
<1>3. CASE \E t \in NetStreams, b \in BOOLEAN : PostNetState(t, b)
  BY <1>3, ReportKeepsSync
<1>4. CASE ~Sender
  <2>1. UNCHANGED <<queue, mark, net, connected, missed>>
    BY <1>4 DEF Environment, ModuleSpeaks, Consume, Tick
  <2> QED
    BY <2>1, SyncUntouched DEF SyncInv
<1> QED
  BY <1>1, <1>2, <1>3, <1>4 DEF Sender, Streams

(* Taking the head off a stream whose report, if it is one, is stored.     *)
LEMMA PopKeepsSync ==
    ASSUME SyncInv, NEW t \in Streams, Pop(t), SetMark(t, "INIT"), queue[t] # <<>>,
           t \in NetStreams /\ Head(queue[t]).attr = "NetState" =>
               Head(queue[t]) = NetState(net[t]),
           UNCHANGED <<net, connected, missed>>, NEW s \in NetStreams
    PROVE  ReportStored(s)' /\ InSync(s)'
<1>1. queue[s] \in Seq(Message) /\ s \in Streams
  BY DEF SyncInv, LinkInv, TypeOK, Streams
<1>2. CASE s # t
  <2>1. queue'[s] = queue[s] /\ mark'[s] = mark[s]
    BY <1>1, <1>2 DEF Pop, SetMark, SyncInv, LinkInv, TypeOK
  <2> QED
    BY <2>1, SyncUntouched DEF SyncInv
<1>3. CASE s = t
  <2>1. queue'[s] = Tail(queue[s]) /\ mark'[s] = "INIT"
    BY <1>1, <1>3 DEF Pop, SetMark, SyncInv, LinkInv, TypeOK
  <2>2. ReportStored(s)'
    BY <2>1 DEF ReportStored
  <2>3. CASE missed[s]
    BY <2>2, <2>3 DEF InSync
  <2>4. CASE ~missed[s]
    <3>1. NewestReport(queue[s], net[s], connected[s])
      BY <2>4 DEF SyncInv, InSync
    <3>2. NewestReport(Tail(queue[s]), net[s], connected[s])
      BY <1>1, <1>3, <3>1, NewestAfterPop
    <3> QED
      BY <2>1, <2>2, <3>2 DEF InSync, NewestReport
  <2> QED
    BY <2>3, <2>4
<1> QED
  BY <1>2, <1>3

LEMMA HandlerKeepsSync ==
    ASSUME SyncInv, NEW t \in Streams, AnySection(t) \/ ConfDown, NEW s \in NetStreams
    PROVE  ReportStored(s)' /\ InSync(s)'
<1> USE DEF task, link, module, senders
<1>0. /\ queue[s] \in Seq(Message) /\ s \in Streams /\ "Main" \in Streams
      /\ "Main" \notin NetStreams /\ StreamInv(t)
  BY DEF SyncInv, LinkInv, TypeOK, Streams, NetStreams
<1>1. CASE (TimedOut(t) \/ Answered(t)) /\ Pop(t)
  <2>1. /\ mark[t] # "INIT" /\ SetMark(t, "INIT")
        /\ UNCHANGED <<net, connected, missed>>
    BY <1>1 DEF TimedOut, Answered
  <2>2. queue[t] # <<>>
    BY <1>0, <2>1 DEF StreamInv
  <2>3. t \in NetStreams /\ Head(queue[t]).attr = "NetState" =>
          Head(queue[t]) = NetState(net[t])
    BY <2>1 DEF SyncInv, ReportStored
  <2> QED
    BY <1>1, <2>1, <2>2, <2>3, PopKeepsSync
<1>2. CASE TimedOut(t) /\ UNCHANGED queue
  <2>1. /\ mark' = [mark EXCEPT ![t] = "INIT"]
        /\ UNCHANGED <<queue, net, connected, missed>>
    BY <1>2 DEF TimedOut, SetMark
  <2>2. ReportStored(s)'
    BY <1>0, <2>1 DEF SyncInv, LinkInv, TypeOK, ReportStored
  <2>3. InSync(s)'
    BY <2>1 DEF SyncInv, InSync, NewestReport
  <2> QED
    BY <2>2, <2>3
<1>3. CASE NothingToDo(t)
  <2>1. UNCHANGED <<queue, mark, net, connected, missed>>
    BY <1>3 DEF NothingToDo
  <2> QED
    BY <2>1, SyncUntouched DEF SyncInv
<1>4. CASE SendRequest(t) \/ ConfDown
  <2>1. /\ UNCHANGED <<queue, net, connected, missed>>
        /\ \E u \in Streams : /\ mark' = [mark EXCEPT ![u] = "PEEK"]
                              /\ Head(queue[u]).attr # "NetState"
    BY <1>0, <1>4, ReportFields DEF SendRequest, ConfDown, Peeked, SetMark
  <2>2. ReportStored(s)'
    BY <1>0, <2>1 DEF SyncInv, LinkInv, TypeOK, ReportStored
  <2>3. InSync(s)'
    BY <2>1 DEF SyncInv, InSync, NewestReport
  <2> QED
    BY <2>2, <2>3
<1>5. CASE SendNetState(t)
  <2>1. PICK b \in BOOLEAN : /\ Head(queue[t]) = NetState(b) /\ queue[t] # <<>>
                             /\ net' = [net EXCEPT ![t] = b] /\ t \in NetStreams
    BY <1>5 DEF SendNetState, Peeked
  <2>2. /\ UNCHANGED <<queue, connected, missed>>
        /\ mark' = [mark EXCEPT ![t] = "PEEK"]
    BY <1>5 DEF SendNetState, SetMark
  <2>3. CASE s # t
    <3>1. net'[s] = net[s] /\ mark'[s] = mark[s]
      BY <1>0, <2>1, <2>2, <2>3 DEF SyncInv, LinkInv, TypeOK
    <3> QED
      BY <2>2, <3>1, SyncUntouched DEF SyncInv
  <2>4. CASE s = t
    <3>1. net'[s] = b
      BY <2>1, <2>4 DEF SyncInv, LinkInv, TypeOK
    <3>2. ReportStored(s)'
      BY <2>1, <2>2, <2>4, <3>1 DEF ReportStored
    <3>3. CASE missed[s]
      BY <2>2, <3>2, <3>3 DEF InSync
    <3>4. CASE ~missed[s]
      <4>1. NewestReport(queue[s], net[s], connected[s])
        BY <3>4 DEF SyncInv, InSync
      <4>2. NewestReport(queue[s], b, connected[s])
        BY <1>0, <2>1, <2>4, <4>1, NewestWhenStored
      <4> QED
        BY <2>2, <3>1, <3>2, <4>2 DEF InSync, NewestReport
    <3> QED
      BY <3>3, <3>4
  <2> QED
    BY <2>3, <2>4
<1>6. CASE SkipNetState(t)
  <2>1. /\ queue[t] # <<>> /\ Head(queue[t]) = NetState(net[t]) /\ SetMark(t, "INIT")
        /\ Pop(t) /\ UNCHANGED <<net, connected, missed>>
    BY <1>6 DEF SkipNetState, Peeked
  <2> QED
    BY <2>1, PopKeepsSync
<1> QED
  BY <1>1, <1>2, <1>3, <1>4, <1>5, <1>6 DEF AnySection, TimedOut, Answered

LEMMA TaskKeepsSync ==
    ASSUME SyncInv, UartSelectTask, NEW s \in NetStreams
    PROVE  ReportStored(s)' /\ InSync(s)'
<1> USE DEF task, link, module, senders
<1>1. CASE ReadLine \/ StartPass
  <2>1. UNCHANGED <<queue, mark, net, connected, missed>>
    BY <1>1 DEF ReadLine, StartPass
  <2> QED
    BY <2>1, SyncUntouched DEF SyncInv
<1>2. CASE UartRecvParse
  <2>1. UNCHANGED <<queue, net, connected, missed>> /\ mark' = Acknowledged(line)
    BY <1>2 DEF UartRecvParse
  <2>2. mark'[s] # "INIT" => mark[s] # "INIT"
    BY <2>1 DEF Acknowledged, Streams
  <2>3. ReportStored(s)'
    BY <2>1, <2>2 DEF SyncInv, ReportStored
  <2>4. InSync(s)'
    BY <2>1 DEF SyncInv, InSync, NewestReport
  <2> QED
    BY <2>3, <2>4
<1>3. CASE UartMessageRecvHandler
  <2>1. \E t \in Streams : AnySection(t) \/ ConfDown
    BY <1>3 DEF UartMessageRecvHandler, AnySection, Streams
  <2> QED
    BY <2>1, HandlerKeepsSync
<1> QED
  BY <1>1, <1>2, <1>3 DEF UartSelectTask

(* The strengthening SyncInv: each peeked report is stored, each stream in sync. *)
THEOREM SyncInvHolds == Spec => []SyncInv
<1>1. Init => SyncInv
  <2> SUFFICES ASSUME Init PROVE SyncInv
    OBVIOUS
  <2>1. TypeOK /\ ModuleInformed
    BY InitType DEF Init, ModuleInformed, NetStateOf, NetStreams
  <2>2. \A s \in Streams : mark[s] = "INIT" /\ tries[s] = 0 /\ queue[s] = <<>>
    BY DEF Init
  <2>3. \A s \in NetStreams : net[s] = connected[s]
    BY DEF Init
  <2>4. \A s \in Streams : StreamInv(s)
    BY <2>2 DEF StreamInv
  <2>5. \A s \in NetStreams : ReportStored(s) /\ InSync(s)
    <3> SUFFICES ASSUME NEW s \in NetStreams PROVE ReportStored(s) /\ InSync(s)
      OBVIOUS
    <3>1. mark[s] = "INIT" /\ queue[s] = <<>> /\ net[s] = connected[s]
      BY <2>2, <2>3 DEF Streams
    <3>2. ReportStored(s)
      BY <3>1 DEF ReportStored
    <3>3. \A j \in 1..Len(queue[s]) : queue[s][j].attr # "NetState"
      BY <3>1
    <3>4. NewestReport(queue[s], net[s], connected[s])
      BY <3>1, <3>3 DEF NewestReport
    <3> QED
      BY <3>2, <3>4 DEF InSync
  <2> QED
    BY <2>1, <2>4, <2>5 DEF SyncInv, LinkInv
<1>2. SyncInv /\ [Next]_vars => SyncInv'
  <2> SUFFICES ASSUME SyncInv, [Next]_vars PROVE SyncInv'
    OBVIOUS
  <2>1. LinkInv'
    <3>1. CASE Next
      BY <3>1, TaskKeepsLinkInv, EnvironmentKeepsLinkInv DEF Next, SyncInv
    <3>2. CASE UNCHANGED vars
      <4>1. TypeOK'
        BY <3>2 DEF SyncInv, LinkInv, vars, TypeOK
      <4> QED
        BY <3>2, <4>1, StreamUntouched
           DEF SyncInv, LinkInv, vars, ModuleInformed, NetStateOf
    <3> QED
      BY <3>1, <3>2
  <2>2. ASSUME NEW s \in NetStreams PROVE ReportStored(s)' /\ InSync(s)'
    <3>1. CASE Next
      BY <3>1, TaskKeepsSync, EnvironmentKeepsSync DEF Next
    <3>2. CASE UNCHANGED vars
      BY <3>2, SyncUntouched DEF vars, SyncInv
    <3> QED
      BY <3>1, <3>2
  <2> QED
    BY <2>1, <2>2 DEF SyncInv
<1> QED
  BY <1>1, <1>2, PTL DEF Spec

(* The merged status lags each sender only by what is still in its queue.  *)
THEOREM MergedStatusInSync == Spec => []NetStateInSync
<1>1. SyncInv => NetStateInSync
  BY DEF SyncInv, InSync, NetStateInSync
<1> QED
  BY <1>1, SyncInvHolds, PTL
===========================================================================
