------------------------------ MODULE SpiRecv ------------------------------
(***************************************************************************)
(* The scan pipeline of the gateway: main/spi.c, the zero-copy path        *)
(* SpiToMqtt of main/hello_world_main.c and its reader in main/mqtt.c.     *)
(*                                                                         *)
(* The module sends every scan frame as two halves, '+' then '-', stamped  *)
(* with the same parity.  SpiRecvTask pairs them, filters the frame, and   *)
(* collects frames in an array of pointers, one slot per device.  When the *)
(* report time has passed it turns the collection into one report, which   *)
(* the mqtt event loop publishes and releases.  malloc may hand out any    *)
(* buffer that is free, also one that a slot of the array still points to. *)
(***************************************************************************)
EXTENDS Naturals, Sequences, FiniteSets

CONSTANTS
    Devices,   (* the first six characters of a frame                      *)
    MaxFrames, (* bound: frames the module sends                           *)
    Buffers,   (* the addresses that malloc may return for a frame         *)
    Parities,  (* how many parity characters there are                     *)
    MaxLoss,   (* halves that may be lost in a row                         *)
    QueueLen   (* length of SpiToMqtt: 1024 in app_main                    *)

ASSUME SpiAssumption ==
    /\ MaxFrames \in Nat
    /\ 0 \notin Buffers
    /\ Parities \in Nat \ {0}
    /\ MaxLoss \in Nat
    /\ QueueLen \in Nat \ {0}

Frames == 1..MaxFrames
NULL   == 0

VARIABLES
    device,  (* the device each frame of the module is about               *)
    sent,    (* halves the module has sent                                 *)
    lost,    (* how many of the last ones were lost in a row               *)
    pc,      (* SpiRecvTask: "receive", "collect", "report", "allocate" or *)
             (* "panic"                                                    *)
    buf,     (* combinebuf, NULL while the task has none                   *)
    content, (* the frame that a buffer was filled with, NULL if it is free*)
             (* or not filled yet                                          *)
    first,   (* a first half is in the buffer                              *)
    par,     (* its parity                                                 *)
    head,    (* the frame whose first half is in the buffer, or NULL       *)
    tail,    (* the frame whose second half was put behind it, or NULL     *)
    slot,    (* combineCollent                                             *)
    messNum, (* how many slots this report counts                          *)
    newest,  (* history: the newest frame of each device in this report,   *)
    mixed,   (* and whether a device was new to it after one was repeated  *)
    made,    (* reports made so far                                        *)
    queue,   (* SpiToMqtt                                                  *)
    inHand,  (* the report the mqtt loop has received, NULL if none        *)
    memory,  (* the reports whose message is allocated                     *)
    connect  (* mqtt->connect                                              *)

source   == <<device, sent, lost>>
pairing  == <<first, par, head, tail>>
memories == <<buf, content>>
batch    == <<slot, messNum, newest, mixed>>
reports  == <<made, queue, memory>>
reader   == <<inHand, connect>>
vars     == <<device, sent, lost, pc, buf, content, first, par, head, tail,
              slot, messNum, newest, mixed, made, queue, inHand, memory,
              connect>>

Init ==
    /\ device \in [Frames -> Devices]
    /\ sent = 0 /\ lost = 0
    /\ pc = "receive"
    /\ first = FALSE /\ par = 0 /\ head = NULL /\ tail = NULL
    /\ buf \in Buffers /\ content = [b \in Buffers |-> NULL]
    /\ slot = [i \in Frames |-> NULL]
    /\ messNum = 0
    /\ newest = [d \in Devices |-> NULL] /\ mixed = FALSE
    /\ made = 0 /\ queue = <<>> /\ inHand = NULL /\ memory = {}
    /\ connect = FALSE

---------------------------------------------------------------------------
(* The module and the SPI bus.  Half h of the stream is the first half of  *)
(* frame (h + 1) \div 2 when h is odd, else the second half.               *)

FrameOf(h) == (h + 1) \div 2
Parity(f)  == f % Parities

Lose ==
    /\ pc # "panic"
    /\ sent < 2 * MaxFrames /\ lost < MaxLoss
    /\ sent' = sent + 1 /\ lost' = lost + 1
    /\ UNCHANGED <<device, pc, memories, pairing, batch, reports, reader>>

(* A half arrives: spi_slave_transmit returns it.                          *)
Arrives(side) ==
    /\ pc = "receive"
    /\ sent < 2 * MaxFrames
    /\ side = IF sent % 2 = 0 THEN "+" ELSE "-"
    /\ sent' = sent + 1 /\ lost' = 0

Now == FrameOf(sent + 1)

---------------------------------------------------------------------------
(* SpiRecvTask: a buffer for the next frame.  While malloc finds none, the *)
(* task tries again.                                                       *)

Held == {b \in Buffers : content[b] # NULL}

Allocate ==
    /\ pc = "allocate"
    /\ buf' \in Buffers \ Held
    /\ pc' = "receive"
    /\ UNCHANGED <<source, content, pairing, batch, reports, reader>>

---------------------------------------------------------------------------
(* SpiRecvTask: the pairing of halves.                                     *)

(* fault: the parity is saved for the first of two first halves only *)
RecvFirstStale ==
    /\ Arrives("+")
    /\ first' = TRUE
    /\ par' = IF first THEN par ELSE Parity(Now)
    /\ head' = Now
    /\ UNCHANGED <<device, pc, memories, tail, batch, reports, reader>>

(* A first half starts a frame, also when one is waiting for its second.   *)
RecvFirst ==
    /\ Arrives("+")
    /\ first' = TRUE
    /\ par' = Parity(Now)
    /\ head' = Now
    /\ UNCHANGED <<device, pc, memories, tail, batch, reports, reader>>

Matches == first /\ Parity(Now) = par

RecvSecond ==
    /\ Arrives("-")
    /\ Matches
    /\ first' = FALSE
    /\ tail' = Now
    /\ content' = [content EXCEPT ![buf] = head]
    /\ pc' = "collect"
    /\ UNCHANGED <<device, buf, par, head, batch, reports, reader>>

(* A second half without its first is dropped, and the first with it.      *)
DropSecond ==
    /\ Arrives("-")
    /\ ~Matches
    /\ first' = FALSE /\ head' = NULL
    /\ UNCHANGED <<device, pc, memories, par, tail, batch, reports, reader>>

(* Anything else on the bus is dropped likewise.                           *)
RecvOther ==
    /\ pc = "receive"
    /\ first
    /\ first' = FALSE /\ head' = NULL
    /\ UNCHANGED <<source, pc, memories, par, tail, batch, reports, reader>>

---------------------------------------------------------------------------
(* SpiRecvTask: the collection.                                            *)

Counted == 1..messNum
Heard   == {d \in Devices : newest[d] # NULL}

(* spi.c says of combineCollent that it is for at most 256 Bluetooth       *)
(* devices and of the replacement that it is an update: as many slots are  *)
(* counted as devices were heard.                                          *)
OneSlotPerDevice == messNum = Cardinality(Heard)

(* The task is done with the frame in hand.                                *)
LetGo == buf' = NULL /\ head' = NULL /\ tail' = NULL /\ UNCHANGED <<first, par>>

(* The filter of the server refuses the frame; its buffer is not freed.    *)
FilterOut ==
    /\ pc = "collect"
    /\ pc' = "allocate" /\ LetGo
    /\ UNCHANGED <<source, content, batch, reports, reader>>

(* strncmp of the first six characters.  Slots that are counted and were   *)
(* not filled in this period may point to any buffer, also to that of the  *)
(* frame itself.                                                           *)
SameDevice(i) ==
    slot[i] \in Held /\ device[content[slot[i]]] = device[head]

(* The search passes over slot i.                                          *)
PassedOver(i) == slot[i] # NULL /\ ~SameDevice(i)

(* The report time is read after every collected frame.                    *)
Counts ==
    /\ messNum' = messNum + 1
    /\ newest' = [newest EXCEPT ![device[head]] = head]
    /\ mixed' = (mixed \/ (device[head] \notin Heard /\ ~OneSlotPerDevice))
    /\ LetGo /\ pc' \in {"allocate", "report"}
    /\ UNCHANGED <<source, reports, reader>>

(* fault: the count goes up before the frame is put in its slot *)
AddLate ==
    /\ pc = "collect"
    /\ \A i \in Counted : PassedOver(i)
    /\ slot' = [slot EXCEPT ![messNum + 2] = buf]
    /\ UNCHANGED content
    /\ Counts

(* No slot has this device: the frame takes the next one.                  *)
Add ==
    /\ pc = "collect"
    /\ \A i \in Counted : PassedOver(i)
    /\ slot' = [slot EXCEPT ![messNum + 1] = buf]
    /\ UNCHANGED content
    /\ Counts

(* fault: the slot keeps the older frame *)
UpdateKeeps ==
    /\ pc = "collect"
    /\ \E i \in Counted :
          /\ SameDevice(i)
          /\ \A j \in 1..(i-1) : PassedOver(j)
    /\ UNCHANGED <<slot, content>>
    /\ Counts

(* A slot has this device: the frame replaces what the slot points to,     *)
(* which is freed, and is counted again.                                   *)
Update ==
    /\ pc = "collect"
    /\ \E i \in Counted :
          /\ SameDevice(i)
          /\ \A j \in 1..(i-1) : PassedOver(j)
          /\ content' = [content EXCEPT ![slot[i]] = NULL]
          /\ slot' = [slot EXCEPT ![i] = buf]
    /\ Counts

(* The search reads a slot that was counted and never filled: a load from  *)
(* address zero, or from a buffer that is free, whose bytes may happen to  *)
(* match, so that it is freed again.                                       *)
BadSearch ==
    /\ pc = "collect"
    /\ \E i \in Counted :
          /\ slot[i] \notin Held
          /\ \A j \in 1..(i-1) : PassedOver(j)
    /\ pc' = "panic"
    /\ UNCHANGED <<source, memories, pairing, batch, reports, reader>>

---------------------------------------------------------------------------
(* SpiRecvTask: the report.                                                *)

Emptied ==
    /\ content' = [b \in Buffers |-> IF \E i \in Counted : slot[i] = b
                                        THEN NULL ELSE content[b]]
    /\ messNum' = 0
    /\ newest' = [d \in Devices |-> NULL] /\ mixed' = FALSE
    /\ pc' = "allocate"
    /\ UNCHANGED <<slot, buf>>

(* fault: xQueueSend is taken to succeed *)
AcceptedAlways == TRUE

Accepted == Len(queue) < QueueLen

(* The message of the report cannot be allocated: the text is freed.       *)
NoMemory ==
    /\ pc = "report"
    /\ Emptied
    /\ UNCHANGED <<source, pairing, reports, reader>>

(* fault: a report that was refused keeps its message *)
ReportKept ==
    /\ pc = "report"
    /\ Emptied
    /\ made' = made + 1
    /\ memory' = memory \cup {made'}
    /\ queue' = IF Accepted THEN Append(queue, made') ELSE queue
    /\ UNCHANGED <<source, pairing, reader>>

(* The report is sent without waiting, and released when it is refused.    *)
Report ==
    /\ pc = "report"
    /\ Emptied
    /\ made' = made + 1
    /\ IF Accepted
         THEN queue' = Append(queue, made') /\ memory' = memory \cup {made'}
         ELSE UNCHANGED <<queue, memory>>
    /\ UNCHANGED <<source, pairing, reader>>

(* A buffer that is free, also one that an earlier slot of this report     *)
(* points to, is read and freed once more.                                 *)
BadReport ==
    /\ pc = "report"
    /\ \E i \in Counted :
          /\ slot[i] # NULL
          /\ slot[i] \notin Held \/ \E j \in 1..(i-1) : slot[j] = slot[i]
    /\ pc' = "panic"
    /\ UNCHANGED <<source, memories, pairing, batch, reports, reader>>

---------------------------------------------------------------------------
(* MQTTMessageRecvSpiHandler, run by the mqtt loop on its timer.           *)

(* fault: nothing is received while the server is away *)
ReceiveConnected ==
    /\ pc # "panic"
    /\ connect
    /\ inHand = NULL /\ queue # <<>>
    /\ inHand' = Head(queue)
    /\ queue' = Tail(queue)
    /\ UNCHANGED <<source, pc, memories, pairing, batch, made, memory, connect>>

Receive ==
    /\ pc # "panic"
    /\ inHand = NULL /\ queue # <<>>
    /\ inHand' = Head(queue)
    /\ queue' = Tail(queue)
    /\ UNCHANGED <<source, pc, memories, pairing, batch, made, memory, connect>>

PublishAndRelease ==
    /\ pc # "panic"
    /\ inHand # NULL
    /\ memory' = memory \ {inHand}
    /\ inHand' = NULL
    /\ UNCHANGED <<source, pc, memories, pairing, batch, made, queue, connect>>

(* The client connects and disconnects in its own task.                    *)
Connection ==
    /\ pc # "panic"
    /\ connect' = ~connect
    /\ UNCHANGED <<source, pc, memories, pairing, batch, reports, inHand>>

SpiRecvTask ==
    \/ Allocate \/ RecvFirst \/ RecvSecond \/ DropSecond \/ RecvOther
    \/ FilterOut \/ Add \/ Update \/ BadSearch
    \/ Report \/ NoMemory \/ BadReport

MQTTMessageRecvSpiHandler == Receive \/ PublishAndRelease

Next == Lose \/ SpiRecvTask \/ MQTTMessageRecvSpiHandler \/ Connection

Spec == Init /\ [][Next]_vars

(* The timer posts the event that runs the handler every 40 ms.            *)
LiveSpec == Spec /\ WF_vars(Receive) /\ WF_vars(PublishAndRelease)

---------------------------------------------------------------------------
Queued == {queue[i] : i \in DOMAIN queue}

(* The types of the variables and the capacity of SpiToMqtt.               *)
TypeOK ==
    /\ device \in [Frames -> Devices]
    /\ sent \in 0..(2 * MaxFrames) /\ lost \in 0..MaxLoss
    /\ pc \in {"receive", "collect", "report", "allocate", "panic"}
    /\ buf \in Buffers \cup {NULL} /\ content \in [Buffers -> Frames \cup {NULL}]
    /\ first \in BOOLEAN /\ par \in 0..(Parities - 1)
    /\ head \in Frames \cup {NULL} /\ tail \in Frames \cup {NULL}
    /\ slot \in [Frames -> Buffers \cup {NULL}]
    /\ messNum \in 0..MaxFrames
    /\ newest \in [Devices -> Frames \cup {NULL}] /\ mixed \in BOOLEAN
    /\ made \in Nat /\ inHand \in Nat
    /\ queue \in Seq(Nat) /\ Len(queue) <= QueueLen
    /\ memory \subseteq Nat
    /\ connect \in BOOLEAN

(* Halves may be lost on the bus, yet a frame that reaches the collection  *)
(* is made of two halves that were sent as one, as long as fewer are lost  *)
(* in a row than two rounds of the parity would take.                      *)
PairedRight == MaxLoss < 2 * Parities => (pc = "collect" => head = tail)

(* The report begins with the newest frame of every device that was let    *)
(* through, each once, whatever malloc reuses and whatever the filter has  *)
(* left allocated, as long as no device is new after one was repeated: the *)
(* slot that a repeated one counts has to come behind all of them.  (Then  *)
(* it may point to the buffer of a new device's frame, which the search    *)
(* takes for the older frame of that device and frees.)                    *)
NewestReported ==
    ~mixed => \A d \in Heard : \E i \in Counted :
        /\ slot[i] \in Held /\ content[slot[i]] = newest[d]
        /\ \A j \in 1..(i-1) :
              slot[j] \in Held /\ content[slot[j]] \in {newest[e] : e \in Heard \ {d}}

(* A report's message is allocated exactly while the queue or the reader   *)
(* holds it, refused reports and lost connections included: none is leaked *)
(* and none is freed twice.                                                *)
ReportsOwned == memory = Queued \cup ({inHand} \ {NULL})

(* SpiToMqtt is emptied again and again by the mqtt loop, whether or not   *)
(* the server can be reached: it has no trigger, only the timer.           *)
ReportTaken == []<>(queue = <<>> \/ pc = "panic")

(* Only a device that is heard again in the same period leads the task to  *)
(* memory that is not its own: whatever earlier reports left in the slots, *)
(* as long as no more slots are counted than devices were heard, each has  *)
(* its own buffer, and the searches and the report do not go astray.       *)
Backed(i) ==
    slot[i] \in Held /\ \A j \in 1..(i-1) : slot[j] # slot[i]
AstrayOnlyByRepeats ==
    OneSlotPerDevice => pc # "panic" /\ \A i \in Counted : Backed(i)
============================================================================
