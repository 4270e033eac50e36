----------------------------- MODULE UartLink -----------------------------
(***************************************************************************)
(* The serial link of the gateway: main/uart.c.                            *)
(*                                                                         *)
(* One FreeRTOS task (UartSelectTask) owns the line to the scanner module. *)
(* It reads for 20 ms; lines that arrived are parsed (UartRecvParse), else *)
(* one pass of UartMessageRecvHandler offers the heads of four queues to   *)
(* the module, stop-and-wait per queue: INIT -> PEEK when the head is      *)
(* written, PEEK -> RECV when an answer arrives, RECV -> INIT when the     *)
(* head is taken off, PEEK -> INIT when the answer is late.  The module,   *)
(* the wire and the senders are the environment.                           *)
(***************************************************************************)
EXTENDS Naturals, Sequences

NetStreams == {"Mqtt", "Eth", "Wifi"}
Streams    == NetStreams \cup {"Main"}

CONSTANTS
    Requests,    (* payloads of the messages that are neither NetState nor *)
                 (* GetConfDown: every Get..., Set... and ReportDebug      *)
    Traffic,     (* bound: <<s, kind>> when sender s posts such messages   *)
    Unsolicited, (* bound: lines the module sends of its own accord        *)
    QueueLen,    (* length of every message queue: 1024 in app_main        *)
    WireLen,     (* bound: lines in flight from the module                 *)
    TIMEOUT,     (* ticks a written message waits for its answer: 500 ms   *)
    RECOVERNUM,  (* timeouts after which a message is to be given up: 3    *)
    TriesCap,    (* bound: where the history counter tries stops           *)
    Lossy        (* whether the line may lose a command or an answer       *)

ASSUME UartAssumption ==
    /\ Traffic \subseteq NetStreams \X {"Request", "NetState"}
    /\ Unsolicited \subseteq {"update", "ptrecv"}
    /\ QueueLen \in Nat \ {0}
    /\ WireLen \in Nat
    /\ TIMEOUT \in Nat
    /\ RECOVERNUM \in Nat
    /\ TriesCap \in Nat \ {0}
    /\ Lossy \in BOOLEAN

Request(r)  == [attr |-> "Request", data |-> r]
NetState(b) == [attr |-> "NetState", data |-> b]
GetConfDown == [attr |-> "GetConfDown"]
Message     == {Request(r) : r \in Requests} \cup {NetState(b) : b \in BOOLEAN}
                 \cup {GetConfDown}

(* "answer" is any line of the acknowledging kinds ("+OK", "+POWER:", ...), *)
(* "update" a line that announces a change, "ptrecv" a "+PTRECV" line.      *)
Lines == {"answer", "update", "ptrecv"}

VARIABLES
    pc,          (* where UartSelectTask is: "read", "parse" or a section  *)
    line,        (* the line being parsed when pc = "parse"                *)
    queue,       (* queue[s]: the messages posted for the module by s      *)
    mark,        (* uart->mark                                             *)
    age,         (* ticks since uart->timestamp, kept while mark is PEEK   *)
    recover,     (* uart->recover                                          *)
    net,         (* uart->mqttStatus, ethNetStatus, wifiNetStatus          *)
    getConfDown, (* uart->getConfDown                                      *)
    up,          (* messages waiting in uartToMain and UartToMqtt          *)
    booted,      (* app_main has posted GetConfDown                        *)
    wire,        (* lines on their way from the module                     *)
    moduleNet,   (* the network state the module was last told             *)
    tries,       (* history: times the head of queue[s] has been written   *)
    connected,   (* the last connection state each sender reported         *)
    missed       (* history: that report was refused by a full queue       *)

task    == <<pc, line>>
link    == <<mark, age, recover, net, getConfDown>>
module  == <<wire, moduleNet>>
senders == <<booted, connected, missed>>
vars    == <<pc, line, queue, mark, age, recover, net, getConfDown, up,
             booted, wire, moduleNet, tries, connected, missed>>

Init ==
    /\ pc = "read"
    /\ line = "answer"
    /\ queue = [s \in Streams |-> <<>>]
    /\ mark = [s \in Streams |-> "INIT"]
    /\ age = [s \in Streams |-> 0]
    /\ recover = [s \in Streams |-> 0]
    /\ net = [s \in NetStreams |-> FALSE]
    /\ getConfDown = FALSE
    /\ up = [d \in {"main", "mqtt"} |-> 0]
    /\ booted = FALSE
    /\ wire = <<>>
    /\ moduleNet = "UNNET"
    /\ tries = [s \in Streams |-> 0]
    /\ connected = [s \in NetStreams |-> FALSE]
    /\ missed = [s \in NetStreams |-> FALSE]

---------------------------------------------------------------------------
(* The senders, appMsgSend with no wait: a full queue refuses the message. *)

Full(s) == Len(queue[s]) >= QueueLen

(* fault: a send that does not look at the capacity *)
EnqueueUnchecked(s, m) == queue' = [queue EXCEPT ![s] = Append(@, m)]

Enqueue(s, m) ==
    queue' = IF Full(s) THEN queue ELSE [queue EXCEPT ![s] = Append(@, m)]

(* app_main asks for the configuration, one request after another.         *)
MainAsks(r) ==
    /\ ~booted
    /\ Enqueue("Main", Request(r))
    /\ UNCHANGED <<task, link, up, module, tries, senders>>

(* ... and ends with GetConfDown, before the network is brought up.        *)
MainDone ==
    /\ ~booted
    /\ booted' = TRUE
    /\ Enqueue("Main", GetConfDown)
    /\ UNCHANGED <<task, link, up, module, tries, connected, missed>>

PostRequest(s, r) ==
    /\ booted /\ <<s, "Request">> \in Traffic
    /\ Enqueue(s, Request(r))
    /\ UNCHANGED <<task, link, up, module, tries, senders>>

(* A connection came up or went down; drivers also repeat themselves.      *)
PostNetState(s, b) ==
    /\ booted /\ <<s, "NetState">> \in Traffic
    /\ Enqueue(s, NetState(b))
    /\ connected' = [connected EXCEPT ![s] = b]
    /\ missed' = [missed EXCEPT ![s] = Full(s)]
    /\ UNCHANGED <<task, link, up, module, tries, booted>>

---------------------------------------------------------------------------
(* The module and the wire.                                                *)

(* A command written now either reaches the module, whose answer is put on *)
(* the wire or lost, or is itself lost.  told is the state it announces.   *)
Write(told) ==
    \/ /\ moduleNet' = told
       /\ \/ /\ Len(wire) < WireLen
             /\ wire' = Append(wire, "answer")
          \/ /\ Lossy \/ Len(wire) >= WireLen
             /\ UNCHANGED wire
    \/ /\ Lossy
       /\ UNCHANGED module

ModuleSpeaks(l) ==
    /\ Len(wire) < WireLen
    /\ wire' = Append(wire, l)
    /\ UNCHANGED <<task, queue, link, up, moduleNet, tries, senders>>

(* Time passes while the task waits for bytes or for room in a queue.      *)
Tick ==
    /\ pc \in {"read", "parse"}
    /\ \E s \in Streams : mark[s] = "PEEK" /\ age[s] < TIMEOUT
    /\ age' = [s \in Streams |-> IF mark[s] = "PEEK" /\ age[s] < TIMEOUT
                                   THEN age[s] + 1 ELSE age[s]]
    /\ UNCHANGED <<task, queue, mark, recover, net, getConfDown, up, module,
                   tries, senders>>

(* The readers of uartToMain and UartToMqtt take what was forwarded.       *)
Consume(d) ==
    /\ up[d] > 0
    /\ up' = [up EXCEPT ![d] = @ - 1]
    /\ UNCHANGED <<task, queue, link, module, tries, senders>>

---------------------------------------------------------------------------
(* UartRecvParse: a line is forwarded, waiting for room, and an answer     *)
(* acknowledges whatever is outstanding in all four queues.                *)

ReadLine ==
    /\ pc = "read"
    /\ wire # <<>>
    /\ line' = Head(wire)
    /\ wire' = Tail(wire)
    /\ pc' = "parse"
    /\ UNCHANGED <<queue, link, up, moduleNet, tries, senders>>

Forwarded(l) == getConfDown \/ l # "update"
Reader       == IF getConfDown THEN "mqtt" ELSE "main"

(* fault: an answer acknowledges streams that wait for none *)
AcknowledgedIdle(l) ==
    [s \in Streams |-> IF l = "answer" THEN "RECV" ELSE mark[s]]

Acknowledged(l) ==
    [s \in Streams |-> IF l = "answer" /\ mark[s] = "PEEK" THEN "RECV"
                         ELSE mark[s]]

UartRecvParse ==
    /\ pc = "parse"
    /\ IF Forwarded(line)
         THEN /\ up[Reader] < QueueLen
              /\ up' = [up EXCEPT ![Reader] = @ + 1]
         ELSE UNCHANGED up
    /\ mark' = Acknowledged(line)
    /\ age' = [s \in Streams |-> IF mark'[s] = "PEEK" THEN age[s] ELSE 0]
    /\ pc' = "read"
    /\ UNCHANGED <<line, queue, recover, net, getConfDown, module, tries,
                   senders>>

---------------------------------------------------------------------------
(* UartMessageRecvHandler: the sections of a pass, in their order.         *)

(* fault: an idle task enters the pass one label late *)
FirstSectionLate ==
    CHOOSE s \in {"Eth", "Wifi", "Main"} :
        \/ mark[s] # "INIT"
        \/ s = "Eth" /\ \A t \in Streams : mark[t] = "INIT"
        \/ s = "Main"

FirstSection ==
    IF \/ mark["Mqtt"] # "INIT"
       \/ \A s \in Streams : mark[s] = "INIT" THEN "Mqtt"
    ELSE IF mark["Eth"]  # "INIT" THEN "Eth"
    ELSE IF mark["Wifi"] # "INIT" THEN "Wifi"
    ELSE "Main"

After(s) == CASE s = "Mqtt" -> "Eth"
              [] s = "Eth"  -> "Wifi"
              [] s = "Wifi" -> "Main"
              [] s = "Main" -> "read"

(* No byte for 20 ms: a pass begins at the first busy section.             *)
StartPass ==
    /\ pc = "read"
    /\ pc' = FirstSection
    /\ UNCHANGED <<line, queue, link, up, module, tries, senders>>

SetMark(s, m) ==
    /\ mark' = [mark EXCEPT ![s] = m]
    /\ age' = [age EXCEPT ![s] = 0]

(* The non-blocking recv that takes the head off.                          *)
Pop(s) ==
    /\ queue' = [queue EXCEPT ![s] = IF @ = <<>> THEN @ ELSE Tail(@)]
    /\ tries' = [tries EXCEPT ![s] = 0]

(* PEEK, and the answer is late: offer the head again in the next pass, or *)
(* give it up after RECOVERNUM timeouts.                                   *)
TimedOut(s) ==
    /\ pc = s /\ mark[s] = "PEEK" /\ age[s] >= TIMEOUT
    /\ SetMark(s, "INIT")
    /\ recover' = [recover EXCEPT ![s] = @ + 1]
    /\ IF recover[s] >= RECOVERNUM THEN Pop(s) ELSE UNCHANGED <<queue, tries>>
    /\ pc' = After(s)
    /\ UNCHANGED <<line, net, getConfDown, up, module, senders>>

(* RECV: the head was answered.                                            *)
Answered(s) ==
    /\ pc = s /\ mark[s] = "RECV"
    /\ SetMark(s, "INIT")
    /\ Pop(s)
    /\ pc' = After(s)
    /\ UNCHANGED <<line, recover, net, getConfDown, up, module, senders>>

(* PEEK within its time, or INIT with nothing to send.                     *)
NothingToDo(s) ==
    /\ pc = s
    /\ \/ mark[s] = "PEEK" /\ age[s] < TIMEOUT
       \/ mark[s] = "INIT" /\ queue[s] = <<>>
    /\ pc' = After(s)
    /\ UNCHANGED <<line, queue, link, up, module, tries, senders>>

(* INIT with a message waiting: it is peeked, marked and timed anew.       *)
Peeked(s, m) ==
    /\ pc = s /\ mark[s] = "INIT" /\ queue[s] # <<>>
    /\ m = Head(queue[s])
    /\ recover' = [recover EXCEPT ![s] = 0]

Written(s) ==
    tries' = [tries EXCEPT ![s] = IF @ < TriesCap THEN @ + 1 ELSE @]

SendRequest(s) ==
    /\ \E r \in Requests : Peeked(s, Request(r))
    /\ SetMark(s, "PEEK")
    /\ Written(s)
    /\ Write(moduleNet)
    /\ pc' = After(s)
    /\ UNCHANGED <<line, queue, net, getConfDown, up, senders>>

(* UartMessageNetStateX: the status the module is told of.                 *)
NetStateOf(n) ==
    IF n["Mqtt"] THEN "CONNSER"
    ELSE IF n["Wifi"] \/ n["Eth"] THEN "CONNET"
    ELSE "UNNET"

(* fault: the change is announced and not stored *)
SendNetStateUnsaved(s) ==
    /\ s \in NetStreams
    /\ \E b \in BOOLEAN :
          /\ Peeked(s, NetState(b))
          /\ net[s] # b
          /\ Write(NetStateOf([net EXCEPT ![s] = b]))
    /\ SetMark(s, "PEEK")
    /\ Written(s)
    /\ pc' = After(s)
    /\ UNCHANGED <<line, queue, net, getConfDown, up, senders>>

(* fault: the command is built from the status before the change *)
SendNetStateEarly(s) ==
    /\ s \in NetStreams
    /\ \E b \in BOOLEAN :
          /\ Peeked(s, NetState(b))
          /\ net[s] # b
          /\ net' = [net EXCEPT ![s] = b]
    /\ SetMark(s, "PEEK")
    /\ Written(s)
    /\ Write(NetStateOf(net))
    /\ pc' = After(s)
    /\ UNCHANGED <<line, queue, getConfDown, up, senders>>

SendNetState(s) ==
    /\ s \in NetStreams
    /\ \E b \in BOOLEAN :
          /\ Peeked(s, NetState(b))
          /\ net[s] # b
          /\ net' = [net EXCEPT ![s] = b]
    /\ SetMark(s, "PEEK")
    /\ Written(s)
    /\ Write(NetStateOf(net'))
    /\ pc' = After(s)
    /\ UNCHANGED <<line, queue, getConfDown, up, senders>>

(* No change: the message is taken off unwritten and the pass ends there.  *)
SkipNetState(s) ==
    /\ s \in NetStreams
    /\ Peeked(s, NetState(net[s]))
    /\ SetMark(s, "INIT")
    /\ Pop(s)
    /\ pc' = "read"
    /\ UNCHANGED <<line, net, getConfDown, up, module, senders>>

(* fault: GetConfDown is taken off at once and its mark is left *)
ConfDownPopped ==
    /\ Peeked("Main", GetConfDown)
    /\ SetMark("Main", "PEEK")
    /\ Pop("Main")
    /\ getConfDown' = TRUE
    /\ pc' = "read"
    /\ UNCHANGED <<line, net, up, module, senders>>

(* GetConfDown is obeyed here and never written; it stays at the head.     *)
ConfDown ==
    /\ Peeked("Main", GetConfDown)
    /\ SetMark("Main", "PEEK")
    /\ getConfDown' = TRUE
    /\ pc' = "read"
    /\ UNCHANGED <<line, queue, net, up, module, tries, senders>>

UartMessageRecvHandler ==
    \/ ConfDown
    \/ \E s \in Streams :
          \/ TimedOut(s)
          \/ Answered(s)
          \/ NothingToDo(s)
          \/ SendRequest(s)
          \/ SendNetState(s)
          \/ SkipNetState(s)

UartSelectTask == ReadLine \/ UartRecvParse \/ StartPass \/ UartMessageRecvHandler

Sender ==
    \/ MainDone
    \/ \E r \in Requests : MainAsks(r)
    \/ \E s \in NetStreams :
          \/ \E r \in Requests : PostRequest(s, r)
          \/ \E b \in BOOLEAN : PostNetState(s, b)

Environment ==
    \/ Sender
    \/ \E l \in Unsolicited : ModuleSpeaks(l)
    \/ \E d \in {"main", "mqtt"} : Consume(d)
    \/ Tick

Next == UartSelectTask \/ Environment

Spec == Init /\ [][Next]_vars

(* The uart task loops for ever and is scheduled, time passes, the tasks   *)
(* behind uartToMain and UartToMqtt keep reading, and now and then the     *)
(* module is silent for the 20 ms of a read.  Nothing is assumed of the    *)
(* line.                                                                   *)
Fairness ==
    /\ WF_vars(ReadLine \/ UartRecvParse \/ UartMessageRecvHandler)
    /\ SF_vars(StartPass)
    /\ SF_vars(Tick)
    /\ \A d \in {"main", "mqtt"} : WF_vars(Consume(d))

LiveSpec == Spec /\ Fairness

---------------------------------------------------------------------------
(* The types of the variables, the capacity of the queues and the bounds.  *)
TypeOK ==
    /\ pc \in Streams \cup {"read", "parse"}
    /\ line \in Lines
    /\ queue \in [Streams -> Seq(Message)]
    /\ \A s \in Streams : Len(queue[s]) <= QueueLen
    /\ mark \in [Streams -> {"INIT", "PEEK", "RECV"}]
    /\ age \in [Streams -> 0..TIMEOUT]
    /\ recover \in [Streams -> Nat]
    /\ net \in [NetStreams -> BOOLEAN]
    /\ getConfDown \in BOOLEAN
    /\ up \in [{"main", "mqtt"} -> 0..QueueLen]
    /\ booted \in BOOLEAN
    /\ wire \in Seq(Lines) /\ Len(wire) <= WireLen
    /\ moduleNet \in {"CONNSER", "CONNET", "UNNET"}
    /\ tries \in [Streams -> 0..TriesCap]
    /\ connected \in [NetStreams -> BOOLEAN]
    /\ missed \in [NetStreams -> BOOLEAN]

(* "In theory always succeeds" (the comment on each recv of a pass): a     *)
(* stream that is waiting or answered still has the message it wrote at    *)
(* the head of its queue, so the recv takes off that very message; only    *)
(* GetConfDown waits without having been written.                          *)
WaitingIsBacked ==
    \A s \in Streams :
        mark[s] # "INIT" =>
            /\ queue[s] # <<>>
            /\ tries[s] > 0 \/ Head(queue[s]) = GetConfDown

(* Whatever the interleaving of the three senders, the marks and the       *)
(* retries, the merged status of UartMessageNetStateX lags a sender only   *)
(* by what is still queued: the newest report in its queue, or failing     *)
(* that the merged status itself, is the connection's state.  Only a       *)
(* report refused by a full queue breaks this.                             *)
NewestReport(q, known, b) ==
    \/ \E i \in 1..Len(q) : /\ q[i] = NetState(b)
                            /\ \A j \in (i+1)..Len(q) : q[j].attr # "NetState"
    \/ known = b /\ \A j \in 1..Len(q) : q[j].attr # "NetState"

NetStateInSync ==
    \A s \in NetStreams : missed[s] \/ NewestReport(queue[s], net[s], connected[s])

(* On a line that loses nothing the module knows the merged status: every  *)
(* change of the three statuses is announced, in whichever queue it came.  *)
ModuleInformed == ~Lossy => moduleNet = NetStateOf(net)

---------------------------------------------------------------------------
(* The link keeps the promise of StreamContract: per sender in order, the  *)
(* head is held while it is offered, no request is dropped unwritten.      *)
Contract == INSTANCE StreamContract WITH
    Droppable <- {NetState(TRUE), NetState(FALSE), GetConfDown},
    written   <- [s \in Streams |-> tries[s] > 0]

KeepsContract == Contract!Spec

(* No sender is starved by the order of the sections or by a stream that   *)
(* waits: once the senders pause, a request that has reached the head of   *)
(* its queue is written to the line.                                       *)
RequestWritten ==
    <>[][~Sender]_vars =>
        \A s \in Streams : \A r \in Requests :
            (queue[s] # <<>> /\ Head(queue[s]) = Request(r)) ~> tries[s] > 0

---------------------------------------------------------------------------
(* uart.c:397 says of the jumps at the start of a pass that they mainly    *)
(* ensure that messages are not nested: one message awaits its answer.     *)
NoNesting ==
    \A s, t \in Streams : mark[s] = "PEEK" /\ mark[t] = "PEEK" => s = t

(* uart.c:414: after RECOVERNUM timeouts the data is dropped, so no        *)
(* message is written more than RECOVERNUM + 1 times.                      *)
GivenUpAfterRetries == \A s \in Streams : tries[s] <= RECOVERNUM + 1

(* uart.c:407: on a timeout the data is sent again, so a message that was  *)
(* written leaves its queue only answered or given up.                     *)
TimeoutResends ==
    [][\A s \in Streams :
         tries[s] > 0 /\ tries'[s] = 0 =>
             mark[s] = "RECV" \/ recover[s] >= RECOVERNUM]_vars
===========================================================================
