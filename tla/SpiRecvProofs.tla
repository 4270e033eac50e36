--------------------------- MODULE SpiRecvProofs ---------------------------
(* Theorems about SpiRecv, for any number of devices, frames and parities. *)
EXTENDS SpiRecv, Integers, FiniteSetTheorems, TLAPS

LEMMA NowIsAFrame ==
    ASSUME NEW h \in Nat, h < 2 * MaxFrames
    PROVE  FrameOf(h + 1) \in Frames /\ FrameOf(h + 1) # NULL
<1>1. MaxFrames \in Nat
  BY SpiAssumption DEF SpiAssumption
<1> QED
  BY <1>1 DEF FrameOf, Frames, NULL

LEMMA ParityType == \A f \in Nat : Parity(f) \in 0..(Parities - 1)
BY SpiAssumption DEF SpiAssumption, Parity

(* Two numbers less than a round apart have the same parity only when they *)
(* are the same.                                                           *)
LEMMA ParityTells ==
    ASSUME NEW n \in Nat, NEW k \in Nat, k < Parities,
           (n + k) % Parities = n % Parities
    PROVE  k = 0
<1> DEFINE P == Parities
<1>1. P \in Nat \ {0}
  BY SpiAssumption DEF SpiAssumption
<1>2. n = P * (n \div P) + (n % P) /\ n \div P \in Int
  BY <1>1
<1>3. n + k = P * ((n + k) \div P) + ((n + k) % P) /\ (n + k) \div P \in Int
  BY <1>1
<1> DEFINE q == ((n + k) \div P) - (n \div P)
<1>4. k = P * q /\ q \in Int
  BY <1>1, <1>2, <1>3
<1> HIDE DEF P, q
<1>5. q <= 0 \/ q >= 1
  BY <1>4
<1>6. q >= 1 => P * q >= P
  BY <1>1, <1>4
<1>7. q < 0 => P * q < 0
  BY <1>1, <1>4
<1>8. P > k
  BY DEF P
<1> QED
  BY <1>1, <1>4, <1>5, <1>6, <1>7, <1>8

---------------------------------------------------------------------------
(* The types.  A frame is collected from a buffer that was allocated, and  *)
(* there is a slot for it: a counted frame has cost two halves.            *)
HeadInv ==
    /\ first \/ pc = "collect" => head # NULL
    /\ pc \in {"collect", "report", "allocate"} => ~first
    /\ pc \in {"receive", "collect"} => buf \in Buffers
    /\ pc = "collect" => 2 * messNum + 2 <= sent
    /\ 2 * messNum <= sent

TypeInv == TypeOK /\ HeadInv

LEMMA ReceiveType ==
    ASSUME TypeInv, RecvFirst \/ RecvSecond \/ DropSecond \/ RecvOther
    PROVE  TypeInv'
<1> USE DEF TypeInv, HeadInv, memories, batch, reports, reader, source
<1>0. MaxFrames \in Nat
  BY SpiAssumption DEF SpiAssumption
<1>1. ASSUME NEW side, Arrives(side)
      PROVE  /\ Now \in Frames /\ Now # NULL /\ Parity(Now) \in 0..(Parities - 1)
             /\ sent' \in 0..(2 * MaxFrames) /\ lost' \in 0..MaxLoss
             /\ sent' = sent + 1 /\ sent \in Nat /\ pc = "receive"
  <2>1. sent \in Nat /\ sent < 2 * MaxFrames
    BY <1>1 DEF TypeOK, Arrives
  <2>2. Now \in Frames /\ Now # NULL
    BY <2>1, NowIsAFrame DEF Now
  <2>3. Parity(Now) \in 0..(Parities - 1)
    BY <2>2, <1>0, ParityType DEF Frames
  <2>4. lost' \in 0..MaxLoss /\ sent' = sent + 1 /\ pc = "receive"
    BY <1>1, SpiAssumption DEF Arrives, SpiAssumption
  <2> QED
    BY <2>1, <2>2, <2>3, <2>4, <1>0
<1>2. CASE RecvFirst
  <2>1. Arrives("+")
    BY <1>2 DEF RecvFirst
  <2>2. TypeOK'
    BY <1>2, <1>1, <2>1 DEF RecvFirst, TypeOK
  <2>3. HeadInv'
    BY <1>2, <1>1, <2>1 DEF RecvFirst, TypeOK
  <2> QED
    BY <2>2, <2>3
<1>3. CASE RecvSecond
  <2>1. Arrives("-") /\ Matches
    BY <1>3 DEF RecvSecond
  <2>a. content' \in [Buffers -> Frames \cup {NULL}]
    BY <1>3 DEF RecvSecond, TypeOK
  <2>2. TypeOK'
    BY <1>3, <1>1, <2>1, <2>a DEF RecvSecond, TypeOK
  <2>3. sent % 2 # 0
    BY <2>1 DEF Arrives
  <2>4. 2 * messNum + 2 <= sent'
    <3>1. sent' = sent + 1 /\ sent \in Nat /\ messNum \in Nat /\ 2 * messNum <= sent
      BY <1>1, <2>1 DEF TypeOK
    <3>2. sent = 2 * (sent \div 2) + 1 /\ sent \div 2 \in Nat
      BY <2>3, <3>1
    <3> QED
      BY <3>1, <3>2
  <2>5. HeadInv'
    BY <1>3, <1>1, <2>1, <2>4 DEF RecvSecond, TypeOK, Matches
  <2> QED
    BY <2>2, <2>5
<1>4. CASE DropSecond
  <2>1. Arrives("-")
    BY <1>4 DEF DropSecond
  <2>2. TypeOK'
    BY <1>4, <1>1, <2>1 DEF DropSecond, TypeOK
  <2>3. HeadInv'
    BY <1>4, <1>1, <2>1 DEF DropSecond, TypeOK
  <2> QED
    BY <2>2, <2>3
<1>5. CASE RecvOther
  <2>1. TypeOK'
    BY <1>5 DEF RecvOther, TypeOK
  <2>2. HeadInv'
    BY <1>5 DEF RecvOther, TypeOK
  <2> QED
    BY <2>1, <2>2
<1> QED
  BY <1>2, <1>3, <1>4, <1>5

LEMMA CollectType ==
    ASSUME TypeInv, FilterOut \/ Add \/ Update \/ BadSearch
    PROVE  TypeInv'
<1> USE DEF TypeInv, HeadInv, memories, reports, reader, source
<1>0. MaxFrames \in Nat
  BY SpiAssumption DEF SpiAssumption
<1>1. CASE BadSearch
  BY <1>1 DEF BadSearch, pairing, batch, TypeOK
<1>2. CASE FilterOut
  BY <1>2 DEF FilterOut, LetGo, batch, TypeOK
<1>3. ASSUME Counts, pc = "collect"
      PROVE  /\ messNum' = messNum + 1 /\ messNum' \in 0..MaxFrames
             /\ 2 * messNum' <= sent
             /\ newest' \in [Devices -> Frames \cup {NULL}]
             /\ mixed' \in BOOLEAN
             /\ pc' \in {"allocate", "report"} /\ ~first
             /\ head \in Frames
  <2>1. head \in Frames
    BY <1>3 DEF TypeOK
  <2>2. newest' \in [Devices -> Frames \cup {NULL}]
    BY <1>3, <2>1 DEF Counts, TypeOK
  <2>3. messNum' \in 0..MaxFrames /\ 2 * messNum' <= sent
    BY <1>0, <1>3 DEF Counts, TypeOK
  <2>4. mixed' \in BOOLEAN
    BY <1>3 DEF Counts, TypeOK
  <2> QED
    BY <1>3, <2>1, <2>2, <2>3, <2>4 DEF Counts
<1>4. ASSUME Counts, pc = "collect", slot' \in [Frames -> Buffers \cup {NULL}],
             content' \in [Buffers -> Frames \cup {NULL}]
      PROVE  TypeInv'
  <2>1. /\ UNCHANGED <<source, reports, reader, first, par>>
        /\ buf' = NULL /\ head' = NULL /\ tail' = NULL
    BY <1>4 DEF Counts, LetGo
  <2>2. TypeOK'
    BY <1>3, <1>4, <2>1 DEF TypeOK
  <2>3. HeadInv'
    BY <1>3, <1>4, <2>1
  <2> QED
    BY <2>2, <2>3
<1>5. CASE Add
  <2>1. Counts /\ pc = "collect" /\ buf \in Buffers /\ content' = content
    BY <1>5 DEF Add
  <2>2. slot' \in [Frames -> Buffers \cup {NULL}]
    BY <1>5, <2>1 DEF Add, TypeOK
  <2>3. content' \in [Buffers -> Frames \cup {NULL}]
    BY <2>1 DEF TypeOK
  <2> QED
    BY <1>4, <2>1, <2>2, <2>3
<1>6. CASE Update
  <2>1. Counts /\ pc = "collect" /\ buf \in Buffers
    BY <1>6 DEF Update
  <2>2. PICK i \in Counted : /\ content' = [content EXCEPT ![slot[i]] = NULL]
                             /\ slot' = [slot EXCEPT ![i] = buf]
    BY <1>6 DEF Update
  <2>3. slot' \in [Frames -> Buffers \cup {NULL}]
    BY <2>1, <2>2 DEF TypeOK
  <2>4. content' \in [Buffers -> Frames \cup {NULL}]
    BY <2>2 DEF TypeOK
  <2> QED
    BY <1>4, <2>1, <2>3, <2>4
<1> QED
  BY <1>1, <1>2, <1>5, <1>6

LEMMA ReportType ==
    ASSUME TypeInv, Report \/ NoMemory \/ BadReport PROVE TypeInv'
<1> USE DEF TypeInv, HeadInv, pairing, reader, source
<1>1. ASSUME Emptied
      PROVE  /\ content' \in [Buffers -> Frames \cup {NULL}]
             /\ messNum' = 0 /\ slot' = slot /\ buf' = buf /\ pc' = "allocate"
             /\ newest' \in [Devices -> Frames \cup {NULL}] /\ mixed' \in BOOLEAN
  BY <1>1 DEF Emptied, TypeOK
<1>2. MaxFrames \in Nat /\ QueueLen \in Nat
  BY SpiAssumption DEF SpiAssumption
<1>3. CASE NoMemory
  <2>1. TypeOK'
    BY <1>1, <1>2, <1>3 DEF NoMemory, TypeOK, reports
  <2>2. HeadInv'
    BY <1>1, <1>3 DEF NoMemory, TypeOK
  <2> QED
    BY <2>1, <2>2
<1>4. CASE Report
  <2>1. /\ made' \in Nat /\ queue' \in Seq(Nat) /\ Len(queue') <= QueueLen
        /\ memory' \subseteq Nat
    <3>1. made' = made + 1 /\ made \in Nat
      BY <1>4 DEF Report, TypeOK
    <3>0. queue \in Seq(Nat) /\ Len(queue) <= QueueLen /\ memory \subseteq Nat
      BY DEF TypeOK
    <3>2. CASE Accepted
      <4>1. queue' = Append(queue, made') /\ memory' = memory \cup {made'}
        BY <1>4, <3>2 DEF Report
      <4>2. Len(queue) < QueueLen
        BY <3>2 DEF Accepted
      <4>3. queue' \in Seq(Nat) /\ Len(queue') = Len(queue) + 1
        BY <3>0, <3>1, <4>1
      <4>4. made' \in Nat /\ memory' \subseteq Nat
        BY <3>0, <3>1, <4>1
      <4> QED
        BY <1>2, <3>0, <4>2, <4>3, <4>4
    <3>3. CASE ~Accepted
      <4>1. queue' = queue /\ memory' = memory
        BY <1>4, <3>3 DEF Report
      <4> QED
        BY <3>0, <3>1, <4>1
    <3> QED
      BY <3>2, <3>3
  <2>2. TypeOK'
    BY <1>1, <1>2, <1>4, <2>1 DEF Report, TypeOK
  <2>3. HeadInv'
    BY <1>1, <1>4 DEF Report, TypeOK
  <2> QED
    BY <2>2, <2>3
<1>5. CASE BadReport
  BY <1>5 DEF BadReport, memories, batch, reports, TypeOK
<1> QED
  BY <1>3, <1>4, <1>5

LEMMA OtherType ==
    ASSUME TypeInv, Lose \/ MQTTMessageRecvSpiHandler \/ Connection \/ Allocate
    PROVE  TypeInv'
<1> USE DEF TypeInv, HeadInv, memories, pairing, batch, reports, reader
<1>1. CASE Lose
  <2>1. sent' \in 0..(2 * MaxFrames) /\ lost' \in 0..MaxLoss
        /\ sent' = sent + 1
    BY <1>1, SpiAssumption DEF Lose, TypeOK, SpiAssumption
  <2>2. TypeOK'
    BY <1>1, <2>1 DEF Lose, TypeOK
  <2>3. HeadInv'
    BY <1>1, <2>1 DEF Lose, TypeOK
  <2> QED
    BY <2>2, <2>3
<1>2. CASE Receive
  <2>1. inHand' \in Nat /\ queue' \in Seq(Nat) /\ Len(queue') <= QueueLen
    BY <1>2, SpiAssumption DEF Receive, TypeOK, SpiAssumption
  <2>2. TypeOK'
    BY <1>2, <2>1 DEF Receive, TypeOK, source
  <2>3. HeadInv'
    BY <1>2 DEF Receive, source
  <2> QED
    BY <2>2, <2>3
<1>3. CASE PublishAndRelease
  <2>1. TypeOK'
    BY <1>3 DEF PublishAndRelease, TypeOK, source, NULL
  <2>2. HeadInv'
    BY <1>3 DEF PublishAndRelease, source
  <2> QED
    BY <2>1, <2>2
<1>4. CASE Connection
  BY <1>4 DEF Connection, TypeOK, source
<1>5. CASE Allocate
  BY <1>5 DEF Allocate, TypeOK, source
<1> QED
  BY <1>1, <1>2, <1>3, <1>4, <1>5 DEF MQTTMessageRecvSpiHandler

LEMMA TypeStep == TypeInv /\ [Next]_vars => TypeInv'
<1> SUFFICES ASSUME TypeInv, [Next]_vars PROVE TypeInv'
  OBVIOUS
<1>1. CASE Next
  BY <1>1, ReceiveType, CollectType, ReportType, OtherType
     DEF Next, SpiRecvTask
<1>2. CASE UNCHANGED vars
  BY <1>2 DEF vars, TypeInv, TypeOK, HeadInv
<1> QED
  BY <1>1, <1>2

(* The initial state has the types. *)
THEOREM InitType == Init => TypeInv
<1> SUFFICES ASSUME Init PROVE TypeInv
  OBVIOUS
<1>0. 0 \in 0..(2 * MaxFrames) /\ 0 \in 0..MaxLoss /\ 0 \in 0..(Parities - 1)
      /\ 0 \in 0..MaxFrames /\ QueueLen \in Nat
  BY SpiAssumption DEF SpiAssumption
<1>a. <<>> \in Seq(Nat) /\ Len(<<>>) = 0
  OBVIOUS
<1>b. /\ device \in [Frames -> Devices] /\ sent = 0 /\ lost = 0
      /\ pc = "receive" /\ par = 0 /\ head = NULL /\ tail = NULL
      /\ messNum = 0 /\ made = 0 /\ queue = <<>> /\ inHand = 0
      /\ memory = {} /\ buf \in Buffers
  BY DEF Init, NULL
<1>d. first \in BOOLEAN /\ connect \in BOOLEAN
  BY DEF Init
<1>c. /\ slot \in [Frames -> Buffers \cup {NULL}] /\ mixed \in BOOLEAN
      /\ newest \in [Devices -> Frames \cup {NULL}]
      /\ content \in [Buffers -> Frames \cup {NULL}]
  BY DEF Init
<1>1. TypeOK
  BY <1>0, <1>a, <1>b, <1>c, <1>d DEF TypeOK
<1>2. HeadInv
  BY DEF Init, HeadInv
<1> QED
  BY <1>1, <1>2 DEF TypeInv

(* The variables keep their types and SpiToMqtt its capacity.              *)
THEOREM TypeCorrect == Spec => []TypeOK
<1>1. TypeInv => TypeOK
  BY DEF TypeInv
<1> QED
  BY <1>1, InitType, TypeStep, PTL DEF Spec

---------------------------------------------------------------------------
(* Pairing.  While a first half waits, every half since was lost: one that *)
(* had arrived would have replaced it, completed it or dropped it.         *)
PairInv ==
    MaxLoss < 2 * Parities =>
        /\ first => par = Parity(head) /\ sent = 2 * head - 1 + lost
        /\ pc = "collect" => head = tail

LEMMA SecondCompletes ==
    ASSUME TypeInv, PairInv, RecvSecond, MaxLoss < 2 * Parities
    PROVE  head = Now
<1>1. /\ first /\ par = Parity(head) /\ sent = 2 * head - 1 + lost
      /\ Parity(Now) = par /\ sent % 2 # 0
  BY DEF RecvSecond, Matches, Arrives, PairInv
<1>2. /\ head \in Nat /\ head # 0 /\ sent \in Nat /\ lost \in Nat /\ lost <= MaxLoss
      /\ MaxLoss \in Nat /\ Parities \in Nat
  BY <1>1, SpiAssumption DEF TypeInv, TypeOK, HeadInv, Frames, NULL, SpiAssumption
<1> DEFINE k == Now - head
<1>3. lost % 2 = 0
  BY <1>1, <1>2
<1>4. Now = head + k /\ k \in Nat /\ lost = 2 * k
  BY <1>1, <1>2, <1>3 DEF Now, FrameOf
<1>5. k < Parities
  BY <1>2, <1>4
<1>6. (head + k) % Parities = head % Parities
  BY <1>1, <1>4 DEF Parity
<1> HIDE DEF k
<1>7. k = 0
  BY <1>2, <1>4, <1>5, <1>6, ParityTells
<1> QED
  BY <1>2, <1>4, <1>7

LEMMA PairStep == TypeInv /\ PairInv /\ [Next]_vars => PairInv'
<1> SUFFICES ASSUME TypeInv, PairInv, [Next]_vars, MaxLoss < 2 * Parities
             PROVE  /\ first' => par' = Parity(head') /\ sent' = 2 * head' - 1 + lost'
                    /\ pc' = "collect" => head' = tail'
  BY DEF PairInv
<1> USE DEF PairInv, pairing
<1>0. sent \in Nat /\ lost \in Nat /\ head \in Nat
  BY SpiAssumption DEF TypeInv, TypeOK, Frames, NULL, SpiAssumption
<1>1. CASE RecvFirst
  <2>1. Now = (sent + 2) \div 2 /\ sent % 2 = 0 /\ pc = "receive"
    BY <1>1, <1>0 DEF RecvFirst, Arrives, Now, FrameOf
  <2> QED
    BY <2>1, <1>0, <1>1 DEF RecvFirst, Arrives
<1>2. CASE RecvSecond
  BY <1>2, SecondCompletes DEF RecvSecond
<1>3. CASE DropSecond \/ RecvOther
  BY <1>3 DEF DropSecond, RecvOther, Arrives
<1>4. CASE FilterOut \/ Add \/ Update \/ BadSearch
  BY <1>4 DEF FilterOut, Add, Update, BadSearch, Counts, LetGo, source, TypeInv, HeadInv
<1>5. CASE Report \/ NoMemory \/ BadReport \/ Allocate
  BY <1>5 DEF Report, NoMemory, BadReport, Allocate, Emptied, source, TypeInv, HeadInv
<1>6. CASE Lose
  BY <1>6, <1>0 DEF Lose
<1>7. CASE MQTTMessageRecvSpiHandler \/ Connection \/ UNCHANGED vars
  BY <1>7 DEF MQTTMessageRecvSpiHandler, Receive, PublishAndRelease, Connection,
              vars, source
<1> QED
  BY <1>1, <1>2, <1>3, <1>4, <1>5, <1>6, <1>7 DEF Next, SpiRecvTask

(* A collected frame is made of the two halves of one frame, for any number*)
(* of parity characters, while fewer than twice as many halves are lost in *)
(* a row.                                                                  *)
THEOREM FramesPairedRight == Spec => []PairedRight
<1>1. Init => PairInv
  BY DEF Init, PairInv
<1>2. PairInv => PairedRight
  BY DEF PairInv, PairedRight
<1> QED
  BY <1>1, <1>2, InitType, TypeStep, PairStep, PTL DEF Spec

---------------------------------------------------------------------------
(* Ownership.  Reports are numbered as they are made, so the queue holds   *)
(* them in ascending order and the one in hand is older than all of them.  *)
OwnInv ==
    /\ ReportsOwned
    /\ \A i, j \in 1..Len(queue) : i < j => queue[i] < queue[j]
    /\ \A i \in 1..Len(queue) : inHand < queue[i] /\ queue[i] <= made
    /\ inHand <= made

LEMMA ReportOwns ==
    ASSUME TypeOK, OwnInv, Report PROVE OwnInv'
<1> USE DEF OwnInv, ReportsOwned, Queued
<1>1. made' = made + 1 /\ made \in Nat /\ inHand' = inHand /\ inHand \in Nat
  BY DEF Report, reader, TypeOK
<1>2. CASE ~Accepted
  <2>1. queue' = queue /\ memory' = memory
    BY <1>2 DEF Report
  <2>2. queue \in Seq(Nat) /\ \A i \in 1..Len(queue) : queue[i] \in Nat
    BY DEF TypeOK
  <2>3. ReportsOwned'
    BY <1>1, <2>1
  <2>4. \A i \in 1..Len(queue') : inHand' < queue'[i] /\ queue'[i] <= made'
    BY <1>1, <2>1, <2>2
  <2>5. \A i, j \in 1..Len(queue') : i < j => queue'[i] < queue'[j]
    BY <2>1
  <2>6. inHand' <= made'
    BY <1>1
  <2> HIDE DEF Queued, ReportsOwned
  <2> QED
    BY <2>3, <2>4, <2>5, <2>6
<1>3. CASE Accepted
  <2>1. queue' = Append(queue, made') /\ memory' = memory \cup {made'}
    BY <1>3 DEF Report
  <2>2. queue \in Seq(Nat) /\ made' \in Nat
    BY <1>1 DEF TypeOK
  <2>3. /\ Len(queue') = Len(queue) + 1
        /\ queue'[Len(queue) + 1] = made'
        /\ \A i \in 1..Len(queue) : queue'[i] = queue[i]
    BY <2>1, <2>2
  <2>4. Queued' = Queued \cup {made'}
    BY <2>1, <2>2, <2>3
  <2>5. ReportsOwned'
    <3>1. memory = Queued \cup ({inHand} \ {NULL})
      BY DEF ReportsOwned
    <3>2. memory' = Queued \cup {made'} \cup ({inHand} \ {NULL})
      BY <2>1, <3>1
    <3>3. memory' = Queued' \cup ({inHand'} \ {NULL})
      <4> HIDE DEF Queued, ReportsOwned
      <4> QED  BY <1>1, <2>4, <3>2
    <3> QED  BY <3>3 DEF ReportsOwned
  <2>6. \A i \in 1..Len(queue') : i \in 1..Len(queue) \/ i = Len(queue) + 1
    BY <2>2, <2>3
  <2>7. \A i \in 1..Len(queue) : queue[i] < made'
    <3>1. \A i \in 1..Len(queue) : queue[i] \in Nat /\ queue[i] <= made
      BY <2>2
    <3> HIDE DEF Queued, ReportsOwned, OwnInv
    <3> QED  BY <1>1, <3>1
  <2>8. \A i, j \in 1..Len(queue') : i < j => queue'[i] < queue'[j]
    <3>1. \A i, j \in 1..Len(queue) : i < j => queue[i] < queue[j]
      OBVIOUS
    <3> HIDE DEF Queued, ReportsOwned, OwnInv
    <3> QED  BY <2>2, <2>3, <2>6, <2>7, <3>1
  <2>9. \A i \in 1..Len(queue') : inHand' < queue'[i] /\ queue'[i] <= made'
    <3>1. inHand' < made'
      BY <1>1
    <3>2. \A i \in 1..Len(queue) : queue[i] \in Nat /\ inHand' < queue[i] /\ queue[i] <= made
      BY <1>1, <2>2
    <3>3. \A i \in 1..Len(queue) : inHand' < queue[i] /\ queue[i] <= made'
      BY <1>1, <3>2
    <3> HIDE DEF Queued, ReportsOwned, OwnInv
    <3> QED  BY <2>2, <2>3, <2>6, <3>1, <3>3
  <2>10. inHand' <= made'
    BY <1>1
  <2> HIDE DEF Queued, ReportsOwned
  <2> QED
    BY <2>5, <2>8, <2>9, <2>10
<1> QED
  BY <1>2, <1>3

LEMMA ReceiveOwns ==
    ASSUME TypeOK, OwnInv, Receive PROVE OwnInv'
<1> USE DEF OwnInv, ReportsOwned, Queued
<1>1. /\ queue \in Seq(Nat) /\ queue # <<>> /\ queue' = Tail(queue)
      /\ inHand = NULL /\ inHand' = Head(queue) /\ memory' = memory /\ made' = made
      /\ made \in Nat
  BY DEF Receive, TypeOK
<1>2. /\ Len(queue) > 0 /\ Len(queue') = Len(queue) - 1
      /\ \A i \in 1..Len(queue') : queue'[i] = queue[i + 1]
      /\ inHand' = queue[1]
  BY <1>1
<1>3. Queued = Queued' \cup {inHand'}
  <2>1. \A i \in 1..Len(queue) : i = 1 \/ i - 1 \in 1..Len(queue')
    BY <1>1, <1>2
  <2>2. \A i \in 1..Len(queue) : i = 1 \/ queue[i] = queue'[i - 1]
    BY <1>1, <1>2, <2>1
  <2>3. \A i \in 1..Len(queue') : i + 1 \in 1..Len(queue)
    BY <1>1, <1>2
  <2>4. DOMAIN queue = 1..Len(queue) /\ DOMAIN queue' = 1..Len(queue')
    BY <1>1
  <2>5. Queued \subseteq Queued' \cup {inHand'}
    BY <1>2, <2>1, <2>2, <2>4
  <2>6. Queued' \cup {inHand'} \subseteq Queued
    BY <1>1, <1>2, <2>3, <2>4
  <2> QED
    BY <2>5, <2>6
<1>4. inHand' > 0 /\ inHand' <= made'
  BY <1>1, <1>2 DEF NULL
<1>5. ReportsOwned'
  <2>1. memory = Queued
    BY <1>1
  <2>2. {inHand'} \ {NULL} = {inHand'}
    BY <1>4 DEF NULL
  <2> HIDE DEF Queued
  <2> QED
    BY <1>1, <1>3, <2>1, <2>2
<1>6. \A i, j \in 1..Len(queue') : i < j => queue'[i] < queue'[j]
  BY <1>1, <1>2
<1>7. \A i \in 1..Len(queue') : inHand' < queue'[i] /\ queue'[i] <= made'
  BY <1>1, <1>2
<1> HIDE DEF Queued, ReportsOwned
<1> QED
  BY <1>4, <1>5, <1>6, <1>7

LEMMA ReleaseOwns ==
    ASSUME TypeOK, OwnInv, PublishAndRelease PROVE OwnInv'
<1>1. /\ inHand # NULL /\ inHand' = NULL /\ memory' = memory \ {inHand}
      /\ queue' = queue /\ made' = made /\ queue \in Seq(Nat) /\ made \in Nat
      /\ inHand \in Nat
  BY DEF PublishAndRelease, TypeOK
<1>2. /\ memory = Queued \cup ({inHand} \ {NULL})
      /\ \A i, j \in 1..Len(queue) : i < j => queue[i] < queue[j]
      /\ \A i \in 1..Len(queue) : inHand < queue[i] /\ queue[i] <= made
  BY DEF OwnInv, ReportsOwned
<1>3. inHand \notin Queued
  <2>1. \A i \in DOMAIN queue : i \in 1..Len(queue) /\ queue[i] \in Nat
    BY <1>1
  <2>2. \A i \in DOMAIN queue : queue[i] # inHand
    BY <1>1, <1>2, <2>1
  <2> QED
    BY <2>2 DEF Queued
<1>4. Queued' = Queued
  BY <1>1 DEF Queued
<1>5. ReportsOwned'
  BY <1>1, <1>2, <1>3, <1>4 DEF ReportsOwned
<1>6. \A i, j \in 1..Len(queue') : i < j => queue'[i] < queue'[j]
  BY <1>1, <1>2
<1>7. \A i \in 1..Len(queue') : inHand' < queue'[i] /\ queue'[i] <= made'
  <2>1. inHand' = 0 /\ queue' = queue /\ made' = made
    BY <1>1 DEF NULL
  <2>2. ASSUME NEW i \in 1..Len(queue) PROVE 0 < queue[i] /\ queue[i] <= made
    <3>1. queue[i] \in Nat
      BY <1>1
    <3> QED
      BY <1>1, <1>2, <3>1
  <2> QED
    BY <2>1, <2>2
<1>8. inHand' <= made'
  BY <1>1 DEF NULL
<1> QED
  BY <1>5, <1>6, <1>7, <1>8 DEF OwnInv

LEMMA OwnStep == TypeOK /\ OwnInv /\ [Next]_vars => OwnInv'
<1> SUFFICES ASSUME TypeOK, OwnInv, [Next]_vars PROVE OwnInv'
  OBVIOUS
<1>1. CASE Report \/ Receive \/ PublishAndRelease
  BY <1>1, ReportOwns, ReceiveOwns, ReleaseOwns
<1>2. ASSUME UNCHANGED <<made, queue, memory, inHand>> PROVE OwnInv'
  BY <1>2 DEF OwnInv, ReportsOwned, Queued
<1>3. CASE RecvFirst \/ RecvSecond \/ DropSecond \/ RecvOther \/ Allocate
  BY <1>2, <1>3 DEF RecvFirst, RecvSecond, DropSecond, RecvOther, Allocate, reports, reader
<1>4. CASE FilterOut \/ Add \/ Update \/ BadSearch
  BY <1>2, <1>4 DEF FilterOut, Add, Update, BadSearch, Counts, reports, reader
<1>5. CASE NoMemory \/ BadReport \/ Lose \/ Connection \/ UNCHANGED vars
  BY <1>2, <1>5 DEF NoMemory, BadReport, Lose, Connection, vars, reports, reader
<1> QED
  BY <1>1, <1>3, <1>4, <1>5 DEF Next, SpiRecvTask, MQTTMessageRecvSpiHandler

(* No report is leaked and none is freed twice.                            *)
THEOREM ReportsAreOwned == Spec => []ReportsOwned
<1>1. Init => OwnInv
  BY DEF Init, OwnInv, ReportsOwned, Queued, NULL
<1>2. OwnInv => ReportsOwned
  BY DEF OwnInv
<1> QED
  BY <1>1, <1>2, OwnStep, TypeCorrect, PTL DEF Spec

---------------------------------------------------------------------------
(* Counting.  No more devices are heard than slots counted, and fewer once *)
(* a device was new after another was repeated.                            *)
CountInv ==
    /\ IsFiniteSet(Heard) /\ Cardinality(Heard) <= messNum
    /\ mixed => Cardinality(Heard) < messNum

(* What a collected frame finds: a slot to go into.                        *)
LEMMA CollectFacts ==
    ASSUME TypeInv, pc = "collect"
    PROVE  /\ head \in Frames /\ head # NULL /\ device[head] \in Devices
           /\ buf \in Buffers /\ buf # NULL
           /\ messNum \in Nat /\ messNum + 1 \in Frames /\ Counted \subseteq Frames
<1>0. MaxFrames \in Nat /\ NULL \notin Buffers
  BY SpiAssumption DEF SpiAssumption, NULL
<1>1. head \in Frames /\ head # NULL /\ buf \in Buffers /\ 2 * messNum + 2 <= sent
  BY DEF TypeInv, HeadInv, TypeOK
<1>2. device[head] \in Devices
  BY <1>1 DEF TypeInv, TypeOK
<1>3. messNum \in Nat /\ messNum + 1 \in Frames
  BY <1>0, <1>1 DEF TypeInv, TypeOK, Frames
<1>4. Counted \subseteq Frames
  BY <1>0, <1>3 DEF Counted, Frames
<1> QED
  BY <1>0, <1>1, <1>2, <1>3, <1>4

(* The frame counted is the newest of its device.                          *)
LEMMA CountsFacts ==
    ASSUME TypeInv, pc = "collect", Counts
    PROVE  /\ newest'[device[head]] = head
           /\ \A d \in Devices \ {device[head]} : newest'[d] = newest[d]
           /\ Heard' = Heard \cup {device[head]}
<1>1. head \in Frames /\ head # NULL /\ device[head] \in Devices
  BY CollectFacts
<1>2. newest' = [newest EXCEPT ![device[head]] = head]
  BY DEF Counts
<1>3. newest'[device[head]] = head
  BY <1>1, <1>2 DEF TypeInv, TypeOK
<1>4. \A d \in Devices \ {device[head]} : newest'[d] = newest[d]
  BY <1>1, <1>2 DEF TypeInv, TypeOK
<1>5. Heard' = Heard \cup {device[head]}
  BY <1>1, <1>3, <1>4 DEF Heard
<1> QED
  BY <1>3, <1>4, <1>5

LEMMA CountsCounted ==
    ASSUME TypeInv, CountInv, pc = "collect", Counts
    PROVE  CountInv'
<1> DEFINE d == device[head]
           c == Cardinality(Heard)
<1>1. IsFiniteSet(Heard) /\ c \in Nat /\ c <= messNum /\ (mixed => c < messNum)
  BY FS_CardinalityType DEF CountInv
<1>2. messNum \in Nat /\ messNum' = messNum + 1
  BY CollectFacts DEF Counts
<1>3. Heard' = Heard \cup {d}
  BY CountsFacts
<1>4. IsFiniteSet(Heard') /\ Cardinality(Heard') = IF d \in Heard THEN c ELSE c + 1
  BY <1>1, <1>3, FS_AddElement
<1>5. mixed' => mixed \/ c # messNum
  BY DEF Counts, OneSlotPerDevice
<1> HIDE DEF c, d
<1>6. Cardinality(Heard') <= messNum' /\ (mixed' => Cardinality(Heard') < messNum')
  BY <1>1, <1>2, <1>4, <1>5
<1> QED
  BY <1>4, <1>6 DEF CountInv

LEMMA CountStep == TypeInv /\ CountInv /\ [Next]_vars => CountInv'
<1> SUFFICES ASSUME TypeInv, CountInv, [Next]_vars PROVE CountInv'
  OBVIOUS
<1>1. CASE Add \/ Update
  BY <1>1, CountsCounted DEF Add, Update
<1>2. CASE Report \/ NoMemory
  <2>1. Emptied
    BY <1>2 DEF Report, NoMemory
  <2>2. Heard' = {} /\ messNum' = 0 /\ ~mixed'
    BY <2>1 DEF Emptied, Heard
  <2> QED
    BY <2>2, FS_EmptySet DEF CountInv
<1>3. ASSUME UNCHANGED batch PROVE CountInv'
  BY <1>3 DEF CountInv, Heard, batch
<1>4. CASE Allocate \/ RecvFirst \/ RecvSecond \/ DropSecond \/ RecvOther \/ FilterOut
  BY <1>3, <1>4 DEF Allocate, RecvFirst, RecvSecond, DropSecond, RecvOther, FilterOut
<1>5. CASE \/ Lose \/ BadSearch \/ BadReport \/ MQTTMessageRecvSpiHandler
           \/ Connection \/ UNCHANGED vars
  BY <1>3, <1>5 DEF Lose, BadSearch, BadReport, MQTTMessageRecvSpiHandler, Receive,
                    PublishAndRelease, Connection, vars, batch
<1> QED
  BY <1>1, <1>2, <1>4, <1>5 DEF Next, SpiRecvTask

---------------------------------------------------------------------------
(* The collection.  The first n slots are filled, each with the newest     *)
(* frame of a device of its own and with every device that was heard.  The *)
(* slots counted behind them may hold anything, also the buffer in hand.   *)
Filled(n) ==
    /\ \A i \in 1..n : /\ slot[i] \in Held
                       /\ content[slot[i]] = newest[device[content[slot[i]]]]
    /\ \A d \in Heard : \E i \in 1..n : /\ content[slot[i]] = newest[d]
                                        /\ device[newest[d]] = d
    /\ \A i, j \in 1..n :
          device[content[slot[i]]] = device[content[slot[j]]] => i = j

(* The buffer in hand is none of theirs.                                   *)
Apart(n) ==
    /\ pc = "receive" => content[buf] = NULL
    /\ pc = "collect" => content[buf] = head /\ \A i \in 1..n : slot[i] # buf

FilledInv == ~mixed => \E n \in 0..messNum : Filled(n) /\ Apart(n)

LEMMA FilledFacts ==
    ASSUME TypeInv, NEW n \in 0..messNum, Filled(n)
    PROVE  /\ \A i \in 1..n : /\ slot[i] \in Buffers /\ i \in Counted /\ i \in Frames
                              /\ content[slot[i]] \in Frames
                              /\ content[slot[i]] # NULL
                              /\ device[content[slot[i]]] \in Heard
           /\ n \in Nat /\ messNum \in Nat /\ n <= messNum
<1>1. messNum \in Nat /\ n \in Nat /\ n <= messNum /\ messNum <= MaxFrames
      /\ MaxFrames \in Nat
  BY SpiAssumption DEF TypeInv, TypeOK, SpiAssumption
<1>2. ASSUME NEW i \in 1..n
      PROVE  /\ slot[i] \in Buffers /\ content[slot[i]] \in Frames
             /\ content[slot[i]] # NULL /\ device[content[slot[i]]] \in Heard
  <2>1. slot[i] \in Buffers /\ content[slot[i]] # NULL
    BY DEF Filled, Held
  <2>2. content[slot[i]] \in Frames
    BY <2>1 DEF TypeInv, TypeOK
  <2>3. device[content[slot[i]]] \in Devices
    BY <2>2 DEF TypeInv, TypeOK
  <2>4. newest[device[content[slot[i]]]] # NULL
    BY <2>1 DEF Filled
  <2> QED
    BY <2>1, <2>2, <2>3, <2>4 DEF Heard
<1>3. \A i \in 1..n : i \in Counted /\ i \in Frames
  BY <1>1 DEF Counted, Frames
<1> QED
  BY <1>1, <1>2, <1>3

(* As many slots are filled as devices were heard.                         *)
LEMMA FilledCounts ==
    ASSUME TypeInv, NEW n \in 0..messNum, Filled(n)
    PROVE  Cardinality(Heard) = n
<1> DEFINE f == [i \in 1..n |-> device[content[slot[i]]]]
<1>1. n \in Nat /\ \A i \in 1..n : f[i] \in Heard
  BY FilledFacts
<1>2. \A d \in Heard : \E i \in 1..n : f[i] = d
  BY DEF Filled
<1>3. \A i, j \in 1..n : f[i] = f[j] => i = j
  BY DEF Filled
<1>4. f \in Bijection(1..n, Heard)
  <2>1. f \in [1..n -> Heard]
    BY <1>1
  <2> HIDE DEF f
  <2>2. f \in Surjection(1..n, Heard)
    BY <1>2, <2>1 DEF Surjection
  <2>3. f \in Injection(1..n, Heard)
    BY <1>3, <2>1 DEF Injection, IsInjective
  <2> QED
    BY <2>2, <2>3 DEF Bijection
<1> HIDE DEF f
<1> QED
  BY <1>1, <1>4, FS_CountingElements DEF ExistsBijection

LEMMA AddFills ==
    ASSUME TypeInv, FilledInv, Add, ~mixed' PROVE FilledInv'
<1> DEFINE d == device[head]
<1>0. PICK m : m = messNum + 1
  OBVIOUS
<1>1. /\ pc = "collect" /\ Counts /\ content' = content /\ messNum' = m
      /\ slot' = [slot EXCEPT ![m] = buf] /\ device' = device
      /\ \A i \in Counted : PassedOver(i)
      /\ ~mixed /\ (d \in Heard \/ OneSlotPerDevice)
      /\ pc' # "collect" /\ pc' # "receive"
  BY <1>0 DEF Add, Counts, source
<1>2. PICK n \in 0..messNum : Filled(n) /\ Apart(n)
  BY <1>1 DEF FilledInv
<1>3. /\ head \in Frames /\ head # NULL /\ d \in Devices /\ buf \in Buffers
      /\ messNum \in Nat /\ m \in Frames
  BY <1>0, <1>1, CollectFacts
<1>4. /\ newest'[d] = head /\ \A e \in Devices \ {d} : newest'[e] = newest[e]
      /\ Heard' = Heard \cup {d}
  BY <1>1, CountsFacts
<1>5. /\ n \in Nat /\ n <= messNum
      /\ \A i \in 1..n : /\ slot[i] \in Buffers /\ i \in Counted /\ i \in Frames
                         /\ content[slot[i]] \in Frames /\ content[slot[i]] # NULL
                         /\ device[content[slot[i]]] \in Heard
  BY <1>2, FilledFacts
<1>6. \A i \in 1..n : device[content[slot[i]]] # d
  BY <1>1, <1>2, <1>5 DEF PassedOver, SameDevice, Filled
<1>7. d \notin Heard
  BY <1>2, <1>6 DEF Filled
<1>8. n = messNum
  BY <1>1, <1>2, <1>7, FilledCounts DEF OneSlotPerDevice
<1>9. slot'[m] = buf /\ \A i \in 1..n : slot'[i] = slot[i] /\ i # m
  BY <1>0, <1>1, <1>3, <1>5, <1>8 DEF TypeInv, TypeOK
<1>10. content[buf] = head
  BY <1>1, <1>2 DEF Apart
<1>11. 1..m = (1..n) \cup {m} /\ m \in 0..messNum' /\ m \in 1..m
  BY <1>0, <1>1, <1>3, <1>8
<1>12. Held' = Held
  BY <1>1 DEF Held
<1> HIDE DEF d
<1>13. \A i \in 1..m : /\ slot'[i] \in Held'
                       /\ content'[slot'[i]] = newest'[device'[content'[slot'[i]]]]
  <2> SUFFICES ASSUME NEW i \in 1..m
               PROVE  /\ slot'[i] \in Held
                      /\ content[slot'[i]] = newest'[device[content[slot'[i]]]]
    BY <1>1, <1>12
  <2>1. CASE i = m
    BY <1>3, <1>4, <1>9, <1>10, <2>1 DEF Held, d
  <2>2. CASE i \in 1..n
    <3>1. slot'[i] = slot[i] /\ slot[i] \in Held
          /\ content[slot[i]] = newest[device[content[slot[i]]]]
      BY <1>2, <1>9, <2>2 DEF Filled
    <3>2. device[content[slot[i]]] \in Devices \ {d}
      BY <1>5, <1>6, <2>2 DEF Heard
    <3> QED
      BY <1>4, <3>1, <3>2
  <2> QED
    BY <1>11, <2>1, <2>2
<1>14. \A e \in Heard' : \E i \in 1..m : /\ content'[slot'[i]] = newest'[e]
                                         /\ device'[newest'[e]] = e
  <2> SUFFICES ASSUME NEW e \in Heard'
               PROVE  \E i \in 1..m : /\ content[slot'[i]] = newest'[e]
                                      /\ device[newest'[e]] = e
    BY <1>1
  <2>1. CASE e = d
    BY <1>4, <1>9, <1>10, <1>11, <2>1 DEF d
  <2>2. CASE e \in Heard /\ e # d
    <3>1. PICK i \in 1..n : content[slot[i]] = newest[e] /\ device[newest[e]] = e
      BY <1>2, <2>2 DEF Filled
    <3>2. newest'[e] = newest[e] /\ slot'[i] = slot[i] /\ i \in 1..m
      BY <1>4, <1>9, <1>11, <2>2 DEF Heard
    <3> QED
      BY <3>1, <3>2
  <2> QED
    BY <1>4, <2>1, <2>2
<1>15. \A i, j \in 1..m :
          device'[content'[slot'[i]]] = device'[content'[slot'[j]]] => i = j
  <2> SUFFICES ASSUME NEW i \in 1..m, NEW j \in 1..m,
                      device[content[slot'[i]]] = device[content[slot'[j]]]
               PROVE  i = j
    BY <1>1
  <2>1. device[content[slot'[m]]] = d
    BY <1>9, <1>10 DEF d
  <2>2. \A k \in 1..n : device[content[slot'[k]]] = device[content[slot[k]]]
                        /\ device[content[slot'[k]]] # d
    BY <1>6, <1>9
  <2>3. CASE i \in 1..n /\ j \in 1..n
    BY <1>2, <2>2, <2>3 DEF Filled
  <2>4. CASE i = m \/ j = m
    BY <1>11, <2>1, <2>2, <2>4
  <2> QED
    BY <1>11, <2>3, <2>4
<1>16. Filled(m)'
  BY <1>13, <1>14, <1>15 DEF Filled
<1>17. Apart(m)'
  BY <1>1 DEF Apart
<1> QED
  BY <1>11, <1>16, <1>17 DEF FilledInv

LEMMA UpdateFills ==
    ASSUME TypeInv, FilledInv, Update, ~mixed' PROVE FilledInv'
<1> DEFINE d == device[head]
<1>1. /\ pc = "collect" /\ Counts /\ messNum' = messNum + 1 /\ device' = device
      /\ ~mixed /\ (d \in Heard \/ OneSlotPerDevice)
      /\ pc' # "collect" /\ pc' # "receive"
  BY DEF Update, Counts, source
<1>2. PICK k \in Counted : /\ SameDevice(k)
                           /\ \A j \in 1..(k-1) : PassedOver(j)
                           /\ content' = [content EXCEPT ![slot[k]] = NULL]
                           /\ slot' = [slot EXCEPT ![k] = buf]
  BY DEF Update
<1>3. PICK n \in 0..messNum : Filled(n) /\ Apart(n)
  BY <1>1 DEF FilledInv
<1>4. /\ head \in Frames /\ head # NULL /\ d \in Devices /\ buf \in Buffers
      /\ messNum \in Nat /\ Counted \subseteq Frames
  BY <1>1, CollectFacts
<1>5. /\ newest'[d] = head /\ \A e \in Devices \ {d} : newest'[e] = newest[e]
      /\ Heard' = Heard \cup {d}
  BY <1>1, CountsFacts
<1>6. /\ n \in Nat /\ n <= messNum
      /\ \A i \in 1..n : /\ slot[i] \in Buffers /\ i \in Counted /\ i \in Frames
                         /\ content[slot[i]] \in Frames /\ content[slot[i]] # NULL
                         /\ device[content[slot[i]]] \in Heard
  BY <1>3, FilledFacts
<1>7. k \in 1..n
  <2>1. k \in Nat /\ k >= 1 /\ k <= messNum
    BY <1>4 DEF Counted
  <2>2. CASE d \in Heard
    <3>1. PICK i \in 1..n : content[slot[i]] = newest[d] /\ device[newest[d]] = d
      BY <1>3, <2>2 DEF Filled
    <3>2. SameDevice(i)
      BY <1>3, <3>1 DEF SameDevice, Filled
    <3>3. ~(i < k)
      BY <1>2, <1>6, <2>1, <3>2 DEF PassedOver
    <3> QED
      BY <1>6, <2>1, <3>3
  <2>3. CASE d \notin Heard
    <3>1. n = messNum
      BY <1>1, <1>3, <2>3, FilledCounts DEF OneSlotPerDevice
    <3> QED
      BY <2>1, <3>1
  <2> QED
    BY <2>2, <2>3
<1>8. /\ slot[k] \in Buffers /\ slot[k] # buf /\ device[content[slot[k]]] = d
      /\ content[buf] = head /\ k \in Frames
  BY <1>1, <1>2, <1>3, <1>6, <1>7 DEF Apart, SameDevice
<1>9. ASSUME NEW i \in 1..n, i # k
      PROVE  /\ slot'[i] = slot[i] /\ slot[i] # slot[k]
             /\ content'[slot[i]] = content[slot[i]]
             /\ device[content[slot[i]]] # d
  <2>1. device[content[slot[i]]] # device[content[slot[k]]]
    BY <1>3, <1>7, <1>9 DEF Filled
  <2>2. slot'[i] = slot[i]
    BY <1>2, <1>4, <1>6, <1>8, <1>9 DEF TypeInv, TypeOK
  <2>3. content'[slot[i]] = content[slot[i]]
    BY <1>2, <1>6, <2>1 DEF TypeInv, TypeOK
  <2> QED
    BY <1>8, <2>1, <2>2, <2>3
<1>10. slot'[k] = buf /\ content'[buf] = head
  <2>1. slot'[k] = buf
    BY <1>2, <1>8 DEF TypeInv, TypeOK
  <2>2. content'[buf] = content[buf]
    BY <1>2, <1>4, <1>8 DEF TypeInv, TypeOK
  <2> QED
    BY <1>8, <2>1, <2>2
<1>11. n \in 0..messNum'
  BY <1>1, <1>4, <1>6
<1> HIDE DEF d
<1>12. ASSUME NEW i \in 1..n
       PROVE  /\ slot'[i] \in Held'
              /\ content'[slot'[i]] = newest'[device'[content'[slot'[i]]]]
  <2>1. CASE i = k
    BY <1>1, <1>4, <1>5, <1>10, <2>1 DEF Held, d
  <2>2. CASE i # k
    <3>1. content'[slot'[i]] = content[slot[i]] /\ slot'[i] = slot[i]
      BY <1>9, <2>2
    <3>2. device[content[slot[i]]] \in Devices \ {d}
      BY <1>6, <1>9, <2>2 DEF Heard
    <3>3. newest'[device[content[slot[i]]]] = content[slot[i]]
      BY <1>3, <1>5, <3>2 DEF Filled
    <3> QED
      BY <1>1, <1>6, <3>1, <3>3 DEF Held
  <2> QED
    BY <2>1, <2>2
<1>13. ASSUME NEW e \in Heard'
       PROVE  \E i \in 1..n : /\ content'[slot'[i]] = newest'[e]
                              /\ device'[newest'[e]] = e
  <2>1. CASE e = d
    BY <1>1, <1>5, <1>7, <1>10, <2>1 DEF d
  <2>2. CASE e \in Heard /\ e # d
    <3>1. PICK i \in 1..n : content[slot[i]] = newest[e] /\ device[newest[e]] = e
      BY <1>3, <2>2 DEF Filled
    <3>2. newest'[e] = newest[e]
      BY <1>5, <2>2 DEF Heard
    <3>3. i # k
      BY <1>8, <2>2, <3>1
    <3>4. content'[slot'[i]] = content[slot[i]]
      BY <1>9, <3>3
    <3> QED
      BY <1>1, <3>1, <3>2, <3>4
  <2> QED
    BY <1>5, <2>1, <2>2
<1>14. ASSUME NEW i \in 1..n, NEW j \in 1..n,
              device'[content'[slot'[i]]] = device'[content'[slot'[j]]]
       PROVE  i = j
  <2>1. device[content'[slot'[k]]] = d
    BY <1>10 DEF d
  <2>2. \A l \in 1..n : l # k => /\ content'[slot'[l]] = content[slot[l]]
                                 /\ device[content'[slot'[l]]] # d
    BY <1>9
  <2>3. CASE i # k /\ j # k
    BY <1>1, <1>3, <1>14, <2>2, <2>3 DEF Filled
  <2>4. CASE i = k \/ j = k
    BY <1>1, <1>14, <2>1, <2>2, <2>4
  <2> QED
    BY <2>3, <2>4
<1>15. Filled(n)'
  BY <1>12, <1>13, <1>14 DEF Filled
<1>16. Apart(n)'
  BY <1>1 DEF Apart
<1> QED
  BY <1>11, <1>15, <1>16 DEF FilledInv

(* What the other steps leave of it.                                       *)
LEMMA FilledUntouched ==
    ASSUME FilledInv, UNCHANGED <<device, content, batch>>,
           pc' = "receive" => \/ pc = "receive" /\ buf' = buf
                              \/ content[buf'] = NULL,
           pc' = "collect" => pc = "collect" /\ buf' = buf /\ head' = head
    PROVE  FilledInv'
<1> SUFFICES ASSUME ~mixed' PROVE \E n \in 0..messNum' : (Filled(n) /\ Apart(n))'
  BY DEF FilledInv
<1>1. PICK n \in 0..messNum : Filled(n) /\ Apart(n)
  BY DEF FilledInv, batch
<1>2. Filled(n)'
  BY <1>1 DEF Filled, Held, Heard, batch
<1>3. Apart(n)'
  BY <1>1 DEF Apart, batch
<1> QED
  BY <1>1, <1>2, <1>3 DEF batch

LEMMA SecondFills ==
    ASSUME TypeInv, FilledInv, RecvSecond PROVE FilledInv'
<1> SUFFICES ASSUME ~mixed' PROVE \E n \in 0..messNum' : (Filled(n) /\ Apart(n))'
  BY DEF FilledInv
<1>1. /\ pc = "receive" /\ pc' = "collect" /\ first /\ UNCHANGED <<device, buf, head, batch>>
      /\ content' = [content EXCEPT ![buf] = head]
  BY DEF RecvSecond, Arrives, Matches
<1>2. buf \in Buffers /\ head # NULL
  BY <1>1 DEF TypeInv, HeadInv
<1>3. PICK n \in 0..messNum : Filled(n) /\ Apart(n)
  BY <1>1 DEF FilledInv, batch
<1>4. content[buf] = NULL /\ content'[buf] = head
      /\ \A b \in Buffers : b # buf => content'[b] = content[b]
  BY <1>1, <1>2, <1>3 DEF Apart, TypeInv, TypeOK
<1>5. \A i \in 1..n : slot[i] \in Buffers /\ slot[i] # buf
  BY <1>3, <1>4 DEF Filled, Held
<1>6. \A i \in 1..n : slot'[i] \in Held' /\ content'[slot'[i]] = content[slot[i]]
  BY <1>1, <1>3, <1>4, <1>5 DEF Filled, Held, batch
<1>7. Heard' = Heard /\ newest' = newest
  BY <1>1 DEF Heard, batch
<1>8. Filled(n)'
  BY <1>1, <1>3, <1>6, <1>7 DEF Filled
<1>9. Apart(n)'
  BY <1>1, <1>4, <1>5 DEF Apart, batch
<1> QED
  BY <1>1, <1>3, <1>8, <1>9 DEF batch

LEMMA EmptiedFills ==
    ASSUME Emptied PROVE FilledInv'
<1>1. messNum' = 0 /\ Heard' = {} /\ pc' = "allocate"
  BY DEF Emptied, Heard
<1>2. Filled(0)' /\ Apart(0)'
  BY <1>1 DEF Filled, Apart
<1> QED
  BY <1>1, <1>2 DEF FilledInv

LEMMA FilledStep == TypeInv /\ FilledInv /\ [Next]_vars => FilledInv'
<1> SUFFICES ASSUME TypeInv, FilledInv, [Next]_vars PROVE FilledInv'
  OBVIOUS
<1>1. CASE Add \/ Update
  BY <1>1, AddFills, UpdateFills DEF FilledInv
<1>2. CASE Report \/ NoMemory
  BY <1>2, EmptiedFills DEF Report, NoMemory
<1>3. CASE RecvSecond
  BY <1>3, SecondFills
<1>4. CASE Allocate
  <2>1. content[buf'] = NULL
    BY <1>4 DEF Allocate, Held
  <2> QED
    BY <1>4, <2>1, FilledUntouched DEF Allocate, source
<1>5. CASE RecvFirst \/ DropSecond \/ RecvOther \/ FilterOut
  BY <1>5, FilledUntouched
     DEF RecvFirst, DropSecond, RecvOther, FilterOut, Arrives, source, memories
<1>6. CASE \/ Lose \/ BadSearch \/ BadReport \/ MQTTMessageRecvSpiHandler
           \/ Connection \/ UNCHANGED vars
  <2>1. UNCHANGED <<device, memories, head, batch>> /\ (pc' = pc \/ pc' = "panic")
    BY <1>6 DEF Lose, BadSearch, BadReport, MQTTMessageRecvSpiHandler, Receive,
                PublishAndRelease, Connection, vars, source, pairing, batch, memories
  <2> QED
    BY <2>1, FilledUntouched DEF memories
<1> QED
  BY <1>1, <1>2, <1>3, <1>4, <1>5, <1>6 DEF Next, SpiRecvTask

LEMMA BatchAlways == Spec => [](TypeInv /\ CountInv /\ FilledInv)
<1>1. ASSUME Init PROVE CountInv /\ FilledInv
  <2>1. Heard = {} /\ messNum = 0 /\ ~mixed /\ pc = "receive" /\ content[buf] = NULL
    BY <1>1 DEF Init, Heard
  <2>2. CountInv
    BY <2>1, FS_EmptySet DEF CountInv
  <2>3. Filled(0) /\ Apart(0)
    BY <2>1 DEF Filled, Apart
  <2> QED
    BY <2>1, <2>2, <2>3 DEF FilledInv
<1> QED
  BY <1>1, InitType, TypeStep, CountStep, FilledStep, PTL DEF Spec

(* SpiRecvTask (spi.c 334-466) reports the newest frame of every device it *)
(* let through, for any number of devices and of addresses that malloc     *)
(* hands out again, until a device is new to a period in which another was *)
(* repeated.                                                               *)
THEOREM NewestIsReported == Spec => []NewestReported
<1>1. TypeInv /\ FilledInv => NewestReported
  <2> SUFFICES ASSUME TypeInv, FilledInv, ~mixed, NEW d \in Heard
               PROVE  \E i \in Counted :
                 /\ slot[i] \in Held /\ content[slot[i]] = newest[d]
                 /\ \A j \in 1..(i-1) :
                       /\ slot[j] \in Held
                       /\ content[slot[j]] \in {newest[e] : e \in Heard \ {d}}
    BY DEF NewestReported
  <2>1. PICK n \in 0..messNum : Filled(n)
    BY DEF FilledInv
  <2>2. PICK i \in 1..n : content[slot[i]] = newest[d] /\ device[newest[d]] = d
    BY <2>1 DEF Filled
  <2>3. i \in Counted /\ slot[i] \in Held /\ n \in Nat
    BY <2>1, <2>2, FilledFacts DEF Filled
  <2>4. ASSUME NEW j \in 1..(i-1)
        PROVE  /\ slot[j] \in Held
               /\ content[slot[j]] \in {newest[e] : e \in Heard \ {d}}
    <3>1. j \in 1..n /\ j # i
      BY <2>3
    <3>2. /\ slot[j] \in Held
          /\ content[slot[j]] = newest[device[content[slot[j]]]]
          /\ device[content[slot[j]]] # device[content[slot[i]]]
      BY <2>1, <3>1 DEF Filled
    <3>3. device[content[slot[j]]] \in Heard
      BY <2>1, <3>1, FilledFacts
    <3> QED
      BY <2>2, <3>2, <3>3
  <2> QED
    BY <2>2, <2>3, <2>4
<1> QED
  BY <1>1, BatchAlways, PTL

---------------------------------------------------------------------------
(* A panic has found a slot that is not backed, and nothing is collected   *)
(* after it.                                                               *)
PanicInv == pc = "panic" => \E i \in Counted : ~Backed(i)

LEMMA PanicStep == PanicInv /\ [Next]_vars => PanicInv'
<1> SUFFICES ASSUME PanicInv, [Next]_vars PROVE PanicInv'
  OBVIOUS
<1>1. CASE BadSearch \/ BadReport
  <2>1. UNCHANGED <<memories, batch>>
    BY <1>1 DEF BadSearch, BadReport
  <2>2. PICK i \in Counted : slot[i] \notin Held \/ \E j \in 1..(i-1) : slot[j] = slot[i]
    BY <1>1 DEF BadSearch, BadReport
  <2>3. ~Backed(i)
    BY <2>2 DEF Backed
  <2>4. ~Backed(i)' /\ i \in Counted'
    BY <2>1, <2>3 DEF Backed, Held, Counted, memories, batch
  <2> QED
    BY <2>4 DEF PanicInv
<1>2. ASSUME pc' # "panic" PROVE PanicInv'
  BY <1>2 DEF PanicInv
<1>3. CASE Allocate \/ RecvFirst \/ RecvSecond \/ DropSecond \/ RecvOther \/ FilterOut
  BY <1>2, <1>3 DEF Allocate, RecvFirst, RecvSecond, DropSecond, RecvOther, FilterOut, Arrives
<1>4. CASE Add \/ Update \/ Report \/ NoMemory
  BY <1>2, <1>4 DEF Add, Update, Counts, Report, NoMemory, Emptied
<1>5. CASE Lose \/ MQTTMessageRecvSpiHandler \/ Connection
  BY <1>2, <1>5 DEF Lose, MQTTMessageRecvSpiHandler, Receive, PublishAndRelease, Connection
<1>6. CASE UNCHANGED vars
  BY <1>6 DEF vars, PanicInv, Backed, Held, Counted
<1> QED
  BY <1>1, <1>3, <1>4, <1>5, <1>6 DEF Next, SpiRecvTask

(* The count at spi.c 392 that goes up with a replacement is the only way  *)
(* to the memory of another frame: for any number of devices, frames and   *)
(* addresses, while as many slots are counted as devices were heard, each  *)
(* is backed by a buffer of its own.                                       *)
THEOREM RepeatsLeadAstray == Spec => []AstrayOnlyByRepeats
<1>1. TypeInv /\ CountInv /\ FilledInv /\ PanicInv => AstrayOnlyByRepeats
  <2> SUFFICES ASSUME TypeInv, CountInv, FilledInv, PanicInv, OneSlotPerDevice
               PROVE  \A i \in Counted : Backed(i)
    BY DEF AstrayOnlyByRepeats, PanicInv
  <2>1. messNum \in Nat
    BY SpiAssumption DEF TypeInv, TypeOK, SpiAssumption
  <2>2. ~mixed
    BY <2>1 DEF CountInv, OneSlotPerDevice
  <2>3. PICK n \in 0..messNum : Filled(n)
    BY <2>2 DEF FilledInv
  <2>4. n = messNum
    BY <2>3, FilledCounts DEF OneSlotPerDevice
  <2>5. ASSUME NEW i \in Counted PROVE Backed(i)
    <3>1. i \in 1..n /\ \A j \in 1..(i-1) : j \in 1..n /\ j # i
      BY <2>1, <2>4 DEF Counted
    <3> QED
      BY <2>3, <3>1 DEF Filled, Backed
  <2> QED
    BY <2>5
<1>2. Init => PanicInv
  BY DEF Init, PanicInv
<1> QED
  BY <1>1, <1>2, BatchAlways, PanicStep, PTL DEF Spec
============================================================================
