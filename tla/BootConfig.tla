---------------------------- MODULE BootConfig -----------------------------
(***************************************************************************)
(* How app_main (main/hello_world_main.c) gets its configuration from the  *)
(* scanner module over the serial link (main/uart.c).                      *)
(*                                                                         *)
(* appSearchConfig puts one request after the other in mainToUart and each *)
(* time waits up to two seconds for one line in uartToMain.  It takes the  *)
(* line that comes, stores what that line is about, and goes on; the uart  *)
(* task meanwhile writes the head of mainToUart again every TIMEOUT        *)
(* milliseconds until some line acknowledges it.  Late and repeated        *)
(* answers are therefore read by later requests.  What MQTTInit is given   *)
(* is what was stored by then; at last GetConfDown makes the uart task     *)
(* send the lines to mqtt instead of app_main, which reads no more.        *)
(***************************************************************************)
EXTENDS Integers, Sequences

CONSTANTS
    N,           (* requests of app_main before GetConfDown: 6             *)
    MainLen,     (* length of uartToMain: 1024                             *)
    MaxTimeouts, (* bound: how often the uart task writes again            *)
    MaxOthers    (* bound: lines that the module says of its own accord    *)

ASSUME BootAssumption ==
    /\ N \in Nat \ {0} /\ MainLen \in Nat \ {0}
    /\ MaxTimeouts \in Nat /\ MaxOthers \in Nat

Items       == 1..N
GetConfDown == N + 1
Other       == 0           (* a line that answers nothing, as +PTRECV      *)
Lines       == Items \cup {Other}

(* A line is its text, which begins with "+", and CR LF.                   *)
CR        == N + 1
LF        == N + 2
LineLen   == 3
Spelled(line) == <<line, CR, LF>>
Bytes     == Lines \cup {CR, LF}

VARIABLES
    step,       (* the request app_main is at, N + 2 once it is past them  *)
    waiting,    (* it is in appRecv                                        *)
    config,     (* the items stored in gateway                             *)
    mqtt,       (* the items that MQTTInit was given                       *)
    mainToUart,
    mark,       (* uart->mark[DataAttr_mainToUart]                         *)
    getConfDown,
    wire,       (* bytes the module has said and the task has not read     *)
    strings,    (* bytes read, on which UartRecvParse is still at work     *)
    restore,    (* bytes read that did not complete a line                 *)
    uartToMain,
    retries,    (* history: how often the uart task has written again,     *)
    said,       (* the lines that the module has said,                     *)
    fresh,      (* the last of the items that it has answered,             *)
    others,     (* how many of the lines answered nothing,                 *)
    late,       (* how often app_main has not waited long enough,          *)
    lost        (* and whether a request or its answer was lost            *)

appVars  == <<step, waiting, config, mqtt, late>>
readVars == <<strings, restore>>
uartVars == <<mark, getConfDown, readVars, retries>>
lineVars == <<wire, said, fresh, others, lost>>
queues   == <<mainToUart, uartToMain>>
vars     == <<appVars, uartVars, lineVars, queues>>

Init ==
    /\ step = 1 /\ waiting = FALSE
    /\ config = {} /\ mqtt = {}
    /\ mainToUart = <<>> /\ uartToMain = <<>>
    /\ mark = "INIT" /\ getConfDown = FALSE
    /\ wire = <<>> /\ strings = <<>> /\ restore = <<>>
    /\ retries = 0 /\ said = <<>> /\ fresh = 0 /\ others = 0 /\ late = 0
    /\ lost = FALSE

---------------------------------------------------------------------------
(* app_main.  mainToUart holds 1024 messages, so appSend does not fail.    *)

(* appSearchConfig sends the request.                                      *)
Ask ==
    /\ step \in Items /\ ~waiting
    /\ mainToUart' = Append(mainToUart, step) /\ waiting' = TRUE
    /\ UNCHANGED <<step, config, mqtt, late, uartToMain, uartVars, lineVars>>

(* fault: GetConfDown is sent without waiting for a line *)
InitMqttOn ==
    /\ step = GetConfDown /\ ~waiting
    /\ mqtt' = config
    /\ mainToUart' = Append(mainToUart, GetConfDown) /\ step' = step + 1
    /\ UNCHANGED <<waiting, config, late, uartToMain, uartVars, lineVars>>

(* MQTTInit copies the configuration; then comes GetConfDown.              *)
InitMqtt ==
    /\ step = GetConfDown /\ ~waiting
    /\ mqtt' = config
    /\ mainToUart' = Append(mainToUart, GetConfDown) /\ waiting' = TRUE
    /\ UNCHANGED <<step, config, late, uartToMain, uartVars, lineVars>>

(* fault: a line that does not answer the request is thrown away *)
StoredOwn(line) == IF line = step THEN config \cup {line} ELSE config

(* Each item has a field of its own, chosen by what the line says.         *)
Stored(line) == IF line \in Items THEN config \cup {line} ELSE config

(* appSearchConfig reads a line, whichever it is, and returns.             *)
Search ==
    /\ waiting /\ uartToMain # <<>>
    /\ config' = Stored(Head(uartToMain))
    /\ uartToMain' = Tail(uartToMain)
    /\ waiting' = FALSE /\ step' = step + 1
    /\ UNCHANGED <<mqtt, late, mainToUart, uartVars, lineVars>>

(* Two seconds have passed without a line.                                 *)
NoAnswer ==
    /\ waiting /\ uartToMain = <<>>
    /\ waiting' = FALSE /\ step' = step + 1
    /\ late' = late + 1
    /\ UNCHANGED <<config, mqtt, queues, uartVars, lineVars>>

app_main == Ask \/ InitMqtt \/ Search \/ NoAnswer

---------------------------------------------------------------------------
(* The module: it answers what reaches it, in order.                       *)

Says(line) == wire' = wire \o Spelled(line) /\ said' = Append(said, line)

(* The first answer to an item, or one more.                               *)
Answers(item) ==
    /\ Says(item)
    /\ fresh' = IF item > fresh THEN item ELSE fresh
    /\ UNCHANGED <<others, lost>>

(* The request or its answer is lost; the bound leaves a try for it.       *)
Lose ==
    /\ retries < MaxTimeouts
    /\ lost' = TRUE /\ UNCHANGED <<wire, said, fresh, others>>

(* A line of its own accord that is no report of a change (UPDATE), since  *)
(* those are not sent to app_main.                                         *)
ModuleSpeaks ==
    /\ others < MaxOthers
    /\ Says(Other) /\ others' = others + 1
    /\ UNCHANGED <<fresh, lost, appVars, uartVars, queues>>

---------------------------------------------------------------------------
(* The uart task.  It attends to mainToUart when no bytes have come in for *)
(* 20 ms; until UartRecvParse has got rid of the lines it has read it does *)
(* nothing else.                                                           *)

Ready(m) == strings = <<>> /\ mark = m /\ mainToUart # <<>>

(* fault: the uart task does not wait for the answer *)
WriteOn ==
    /\ Ready("INIT") /\ Head(mainToUart) \in Items
    /\ mark' = mark
    /\ Answers(Head(mainToUart)) \/ Lose
    /\ UNCHANGED <<getConfDown, readVars, retries, appVars, queues>>

Write ==
    /\ Ready("INIT") /\ Head(mainToUart) \in Items
    /\ mark' = "PEEK"
    /\ Answers(Head(mainToUart)) \/ Lose
    /\ UNCHANGED <<getConfDown, readVars, retries, appVars, queues>>

(* fault: the lines still go to app_main when GetConfDown has been seen *)
ConfDownPeeked ==
    /\ Ready("INIT") /\ Head(mainToUart) = GetConfDown
    /\ mark' = "PEEK"
    /\ UNCHANGED <<getConfDown, readVars, retries, appVars, lineVars, queues>>

(* GetConfDown is not written, but waits for a line like the others.       *)
ConfDown ==
    /\ Ready("INIT") /\ Head(mainToUart) = GetConfDown
    /\ mark' = "PEEK" /\ getConfDown' = TRUE
    /\ UNCHANGED <<readVars, retries, appVars, lineVars, queues>>

TimedOut ==
    /\ Ready("PEEK") /\ retries < MaxTimeouts
    /\ mark' = "INIT" /\ retries' = retries + 1
    /\ UNCHANGED <<getConfDown, readVars, appVars, lineVars, queues>>

Answered ==
    /\ Ready("RECV")
    /\ mark' = "INIT" /\ mainToUart' = Tail(mainToUart)
    /\ UNCHANGED <<getConfDown, readVars, retries, uartToMain, appVars, lineVars>>

(* A read ends anywhere, also between CR and LF.  What was kept is put     *)
(* before it, unless there is no "+" in it.                                *)
UartRead ==
    /\ strings = <<>>
    /\ \E k \in 1..Len(wire) :
        /\ strings' = (IF \E i \in DOMAIN restore : restore[i] \in Lines
                         THEN restore ELSE <<>>) \o SubSeq(wire, 1, k)
        /\ wire' = SubSeq(wire, k + 1, Len(wire))
    /\ restore' = <<>>
    /\ UNCHANGED <<mark, getConfDown, retries, said, fresh, others, lost, appVars, queues>>

(* Places of the first carriage return of bytes: none or one.              *)
FirstCR(bytes) ==
    {p \in 1..Len(bytes) : bytes[p] = CR /\ \A q \in 1..(p-1) : bytes[q] # CR}

(* fault: a carriage return alone ends a line *)
CompleteAtCR(bytes) == FirstCR(bytes)

(* Where the line ends that bytes begins with, if it is complete: at its   *)
(* first carriage return, if a line feed follows that one.                 *)
Complete(bytes) ==
    {p \in FirstCR(bytes) : p < Len(bytes) /\ bytes[p + 1] = LF}

(* fault: what does not complete a line is forgotten *)
UartForget ==
    /\ strings # <<>> /\ Complete(strings) = {}
    /\ restore' = <<>> /\ strings' = <<>>
    /\ UNCHANGED <<wire, mark, getConfDown, retries, said, fresh, others, lost, appVars, queues>>

(* UartRecvParse keeps what completes no line.                             *)
UartKeep ==
    /\ strings # <<>> /\ Complete(strings) = {}
    /\ restore' = strings /\ strings' = <<>>
    /\ UNCHANGED <<wire, mark, getConfDown, retries, said, fresh, others, lost, appVars, queues>>

(* fault: a full queue is not waited for *)
SendsUnchecked(line) ==
    uartToMain' = IF getConfDown THEN uartToMain ELSE Append(uartToMain, line)

(* A line is sent on, with the task waiting until there is room, before it *)
(* is looked at.                                                           *)
SendsOn(line) ==
    IF getConfDown
      THEN uartToMain' = uartToMain
      ELSE Len(uartToMain) < MainLen /\ uartToMain' = Append(uartToMain, line)

(* UartRecvParse sends one line on.  In the model a line has one byte of   *)
(* text.                                                                   *)
UartSendLine ==
    \E p \in Complete(strings) :
        LET line == strings[p - 1] IN
        /\ SendsOn(line)
        /\ mark' = IF mark = "PEEK" /\ line \in Items THEN "RECV" ELSE mark
        /\ strings' = SubSeq(strings, p + 2, Len(strings))
        /\ UNCHANGED <<restore, getConfDown, retries, mainToUart, appVars, lineVars>>

UartRecvParse == UartKeep \/ UartSendLine

UartSelectTask == Write \/ ConfDown \/ TimedOut \/ Answered \/ UartRead \/ UartRecvParse

---------------------------------------------------------------------------
Next == app_main \/ UartSelectTask \/ ModuleSpeaks

Spec == Init /\ [][Next]_vars

(* app_main and the uart task are scheduled.  The line loses only as often *)
(* as the bound on retries allows.                                         *)
LiveSpec ==
    /\ Spec
    /\ WF_vars(Ask) /\ WF_vars(InitMqtt) /\ WF_vars(Search) /\ WF_vars(NoAnswer)
    /\ WF_vars(Write) /\ WF_vars(ConfDown) /\ WF_vars(TimedOut)
    /\ WF_vars(Answered) /\ WF_vars(UartRead) /\ WF_vars(UartRecvParse)

---------------------------------------------------------------------------
(* The types of the variables and the capacity of uartToMain.              *)
TypeOK ==
    /\ step \in 1..(N+2) /\ waiting \in BOOLEAN
    /\ config \subseteq Items /\ mqtt \subseteq Items
    /\ mainToUart \in Seq(1..GetConfDown)
    /\ mark \in {"INIT", "PEEK", "RECV"} /\ getConfDown \in BOOLEAN
    /\ wire \in Seq(Bytes) /\ strings \in Seq(Bytes) /\ restore \in Seq(Bytes)
    /\ uartToMain \in Seq(Lines) /\ Len(uartToMain) <= MainLen
    /\ retries \in Nat /\ others \in Nat /\ late \in Nat /\ lost \in BOOLEAN
    /\ said \in Seq(Lines) /\ fresh \in 0..N

(* What has been said and not yet been sent on.                            *)
Unsent == restore \o strings \o wire

(* How many lines there are beside one for every item that far.            *)
extra == Len(said) - fresh

(* Wherever the reads end, app_main gets the lines that the module said,   *)
(* whole, each once and in order, until the uart task turns to mqtt; and   *)
(* less than a line is kept, so restore and the room before the reads are  *)
(* never outgrown.                                                         *)
ReadsInOrder ==
    /\ Len(restore) < LineLen
    /\ ~getConfDown =>
        LET taken == step - 1 - late
            sent  == taken + Len(uartToMain) IN
        /\ Len(Unsent) = LineLen * (Len(said) - sent)
        /\ \A i \in 1..Len(uartToMain) : uartToMain[i] = said[taken + i]
        /\ \A i \in 1..(Len(said) - sent) : \A b \in 1..LineLen :
              Unsent[LineLen * (i - 1) + b] = Spelled(said[sent + i])[b]

(* The answers come one request late for every line too many and for every *)
(* wait that was too short, and not later: an item that has that many      *)
(* requests behind it is among what MQTTInit is given.  In the code        *)
(* GetMqttCfg is the fifth of six, so the server's address stands one such *)
(* slip, and the second makes mqtt start with the default.                 *)
Taken == step = N + 2 \/ (step = GetConfDown /\ waiting)
StoredInTime ==
    (Taken /\ ~lost) =>
        \A item \in Items : item + extra + late <= N => item \in mqtt

(* The module is not asked twice without need: each line too many is one   *)
(* that nobody asked for, or answers a request that was written again.     *)
SlipsHaveCauses == extra <= retries + others

(* app_main stops reading uartToMain, but the uart task never waits for    *)
(* room there for ever, unless more lines have been said in vain than the  *)
(* queue holds.                                                            *)
RoomToTheEnd ==
    (step = N + 2 /\ ~getConfDown /\ extra + late <= MainLen + 1) =>
        LineLen * Len(uartToMain) + Len(Unsent) <= LineLen * MainLen

(* The serial link is handed over to mqtt.                                 *)
HandedOver == [](extra + late <= MainLen + 1) => <>getConfDown
============================================================================
