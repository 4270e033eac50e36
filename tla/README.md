# Verification of the GZ248 gateway firmware

The gateway is an ESP32 program (FreeRTOS, ESP-IDF) in `src/main/`. It takes
Bluetooth scan data from a scanner module over SPI, commands the module over a
serial line, and bridges both to an MQTT server reached by Ethernet or WiFi.
This directory holds TLA+ models of its tasks, TLC configurations that check
them on small instances, and TLAPS proofs about them for every value of the
constants. `PROJECT.json` maps each definition to the lines it stands for and
lists the components, runs, findings, hazards and theorems.

## Inventory

| Component | State | Operations | Correct when |
|---|---|---|---|
| Serial link, `uart.c` | a mark (INIT, PEEK, RECV), a timestamp and a retry counter per queue; merged network status; `getConfDown` | `UartSelectTask` reads 20 ms, parses lines (`UartRecvParse`), else makes a pass over four queues (`UartMessageRecvHandler`) | what is taken off a queue is what was written; per sender in order; the module learns every change of the network; no sender starves |
| SPI receiver, `spi.c` | the half frame in the buffer and its parity; the array of collected frames and its count; the filter | `SpiRecvTask` pairs, filters, collects, reports; `SpiEventHandler` replaces the filter | frames are paired right; a report holds the newest frame of each device; every buffer has one owner |
| Queues and transport, `hello_world_main.c`, `message.c` | one bounded queue of pointers per direction; counters; `running` | `appMsgSend/Recv`, `appPeek`, `appData...`, `appTriggerRecv` | nothing accepted is lost, nothing is freed twice, a posted message is eventually taken |
| Boot, `hello_world_main.c` | configuration; progress of `app_main`; bytes not yet parsed | `appSearchConfig` asks the module item by item; the tasks are then created | lines arrive whole and in order; what was answered is known in time; the line is handed over to mqtt |
| MQTT bridge, `mqtt.c` | `connect`, `attr`, client, timer, own event loop | events of the client, orders of the server, answers of the module, start and stop | no answer is reported twice; a stop is followed by its start; the newest configuration is used |
| WiFi, `wifi.c` | `isDown`, `isConnect`, `wifiSok`, configuration | events of the driver, new configuration, orders of Ethernet | WiFi is down while the cable is up and comes back when it goes |
| Ethernet, `eth.c` | configuration, `checkStatus` | events of the driver, new configuration | every change of the cable reaches WiFi, the module and mqtt |
| Update, `update.c` | url, partition, semaphore, own event loop | download and boot of an image | the newest order is tried; which version is installed |

The tasks meet in the queues only: a sender puts a copy (`appMsgSend`) or a
pointer (`appDataSend`) in the queue of its direction without waiting, and
`appTriggerRecv` posts an event to the reader's event loop, again without
waiting, except for the serial link, which polls, and for `SpiToMqtt`, which the
mqtt loop empties on a 40 ms timer. The handlers of WiFi, Ethernet and the
filter all run in the default event loop; mqtt and update have loops of their
own (Ethernet creates one too, but registers nothing with it).

What makes this code hard: stop-and-wait over four queues at once with a single
stream of answers; retries that meet state kept from the first try; triggers,
reports and orders that are dropped when a queue is full; answers that come
after their timeout; ownership that moves between tasks; and loops that are
started in an order the events do not wait for. Each hazard is in
`PROJECT.json` at its line, with the properties that cover it or the reason
that none does.

Not modelled: the desktop tool under `src/gui/`, the Linux SDK under
`src/thirdlib/interface/` (another product), vendored trees and regular
expressions, name tables of `common.c`, and `queue.c`, which no build file lists.

## Modules

### StreamContract

What the serial link promises to one sender: `Post` appends, `Offer` writes the
head, `Discard` takes the head off, and only a head that was written or is
droppable (a report of a connection, `GetConfDown`) may go. Nothing of marks,
timers or answers.

### UartLink

Each pass of `UartMessageRecvHandler` is cut into its four sections, one step
each, because answers, ticks and sends fall between passes but the code after a
jump continues from one section to the next; `pc` says which section is next.
A section does one of: `SendRequest`, `SendNetState` or `SkipNetState` in INIT,
`NothingToDo` or `TimedOut` in PEEK, `Answered` in RECV, `ConfDown` for the
message that is obeyed and never written. `FirstSection` is the chain of jumps
at the start of a pass; a `SkipNetState` or `ConfDown` returns and so ends the
pass. `UartRecvParse` forwards a line, waiting for room (the task blocks, hence
its guard), and moves every PEEK to RECV if the line acknowledges.

Environment: the four senders (`MainAsks`, `MainDone`, `PostRequest`,
`PostNetState`), the module and the line (`Write` decides at once whether the
command and its answer arrive; `ModuleSpeaks` for lines of its own accord),
time (`Tick`), and the readers of what is forwarded (`Consume`).

Data left out: the texts of the AT commands and of the answers (all answers are
one `"answer"`, since the code does not look which command one belongs to), the
configuration in a message, and the reassembly of a line from several reads.
`tries`, `connected` and `missed` are history variables. (BootConfig models
the reassembly, for the one stream of the boot.)

### SpiRecv

The stream of half frames is `sent`, which determines frame, side and parity;
`Lose` takes a half away. `RecvFirst`, `RecvSecond`, `DropSecond` and
`RecvOther` are the branches of the pairing, `FilterOut`, `Add`, `Update` and
`BadSearch` those of the collection, `Report`, `NoMemory` and `BadReport` those
of the report. A slot holds an address of `Buffers`; `content` says which frame
the buffer there holds, or that it is free. `Allocate` is the malloc for the
next frame and may return any free buffer, so also one that a slot left over
from an earlier report still points to: then `SameDevice` compares the new frame
with itself, and `Update` frees the very buffer it puts in the slot. Reading or
freeing a buffer that is free, or address zero, is undefined: `SpiRecvTask` may
stop in `"panic"`, or read bytes that match no device and go on. Buffers that the
filter refuses are never freed and stay taken. `newest` and `mixed` are history
variables.
`Receive` and `PublishAndRelease` are the two halves of one turn of
`MQTTMessageRecvSpiHandler`, between which other tasks run; `Connection` is the
client's task.

Data left out: what the filter compares (any frame may be refused), and the text
of a report.

### NetFailover

`loop` is the default event loop with the event in hand at its head; `busy` says
that its handler runs, so that other tasks may fill the room it left before the
handler's own posts (`Take`, then the handler as one step: all handlers run in
that one task and share no variable with others). `EthConnected`,
`EthDisconnected` and `EthGotIp` are the branches of `EthEventHandler`;
`StaStart`, `StaDisconnected`, `StaGotIp` those of `WifiEventHandler`;
`WifiEventRecvHandler` takes a configuration and an order and is written as the
steps `Configured` and `Ordered` from the driver and the loop it finds to those
it leaves. `WifiInit` and `Poll` are app_main, which starts Ethernet only after
them. `MqttSends` and `MqttTriggers` are two steps of another task, since
`appMsgSend` puts the message in its queue before it posts the trigger; an order
of Ethernet is sent from the loop's own task and is one step.

Environment: `StaProgress` (the driver reaches the access point and gets an
address, fails, or loses it), `EthProgress` (the cable). The driver's posts are
taken not to wait, as those of `WifiTriggerRecv` do not. An `esp_wifi_connect` on a station
that is connecting or connected changes nothing; a stop or a disconnect of an
active one announces STA_DISCONNECTED. The loop and the handlers are taken to
exist from the start of the station on; a trigger before that is lost.

Data left out: configurations (any may come) and addresses, `retryNum`, the
NetConnect messages to mqtt, new Ethernet addresses. `told` stands for the
NetState messages sent to the serial link; whether that queue takes them is
UartLink's matter. `missed` is a history variable.

### BootConfig

`app_main`: `Ask` sends a request, `Search` takes one line of uartToMain,
whichever it is, and stores what that line is about, `NoAnswer` is the 2 s of
`appRecv`; `InitMqtt` is `MQTTInit`, which copies the configuration, and
GetConfDown. Of the uart task only mainToUart has work during the boot, so a
pass is `Write`, `ConfDown`, `TimedOut` or `Answered`. `wire` is bytes:
`UartRead` takes any number of them, `UartKeep` puts an incomplete line in
restore, `UartSendLine` sends one line on, waiting for room until GetConfDown
turns the lines away. As in the code a line is complete when a line feed
follows the *first* carriage return. The module answers a command that arrives,
once for each time it is written, and may say a line nobody asked for.

Data left out: what an item is (its number stands for its field), all but one
byte of a line's text, reports of changes before GetConfDown (they are sent to
nobody), lines longer than their buffers, and single bytes lost. `retries`,
`said`, `fresh`, `others`, `late` and `lost` are history variables; `said` has
the lines that the module spoke, to compare with those that arrive.

### OtaUpdate

`SendUpdate` and `UpdateTriggerRecv` are the two halves of an order,
`UpdateEventRecvHandler` and `Copied` the start and the end of copying the url
(between them it is `Torn`, which the download may see), `TakeSem`, `Begin`,
`Compare`, `Perform` and `Restart` the task. `esp_https_ota` may fail or
succeed at every call. `owed` and `untold` are history variables.

### MqttBridge

Composes the bridge with OtaUpdate (EXTENDS: its variables are the bridge's,
its steps are taken with the bridge's variables unchanged, `CpuUpdate` is its
`SendUpdate`, and `esp_restart` its `Restart` with everything else started anew).
The client's task runs `MQTTEventHandler`, cut where it touches what the other
task uses: `WriteUrl`, `WriteRest`, `StopMqtt`, `StartMqtt`, `SendRequest`,
`SendNetCfg`, `SetAttr`. The loop task runs `MQTTNetEventHandler`: `START` (from triggers and
the 40 ms timer) takes the NetConnect and then goes through uartToMqtt line by
line (`GetLine`, `OkLine`, `PtSendLine`, `UpdateLine` to `UpdateStart`),
`STOPMQTT` and `STARTMQTT` are the events. `Post` refuses an event when the
loop's queue is full, and the code does not look. An OK is three steps, since
attr is shared: `OkLine` reads it, `MQTTMessageRecvUartCommonOkHandler` publishes
(and waits for the client's task, which may write attr meanwhile), and
`ClearAttr` clears whatever it says by then. `PtSendLine` is reported without
reading attr.

Environment: the connection (`Connected`, `Disconnected`), orders of the server
(`MQTTMessageSendHandler`), the module behind the uart task (`Answered`, which
may also give up, `AnsweredAgain` for a request that was written twice since its
answer was late, `OtherAnswered` for answers to what Ethernet and WiFi send,
`Changed`). The module's queue answers in order; what UartLink says of retries
is condensed to that. `esp_mqtt_client_stop` waits for the client's handler.

Data left out: configurations are numbered by the turn they come from, with two
parts so that a mixture shows; `"Get"` stands for all orders that are answered
with data, `"Set"` for SetModuleInfo, SetREGEX and SetScanTimeout, and `"SetNetCfg"` for
SetWifiCfg (sent to WiFi) and SetEthCfg; PtSend has its own answer, `"PTSEND"`;
an array of orders in one message is
taken as orders one after the other. That `esp_mqtt_client_reconnect` after the
OK of SetNetCfg makes a client try sooner changes nothing, since `"connecting"`
is the wait and the try. What changes at the module send on to WiFi, Ethernet
and SPI, +DEBUGUPDATE and reports are left out (reports are in SpiRecv). `turns` bounds and numbers what the
environment does; `credit` and `missed` are history variables.

### Proofs and instances

`UartLinkProofs`, `SpiRecvProofs`, `NetFailoverProofs`, `NetTriggersProofs`,
`BootConfigProofs`, `OtaUpdateProofs` and `MqttBridgeProofs` hold the proofs;
`MCUartLink`, `MCSpiRecv`, `MCNetFailover`, `MCBoot`, `MCOtaUpdate` and
`MCMqttBridge` the instances that the configurations use.

## Runs

| Run | Shows | Bounds |
|---|---|---|
| `uart_handshake` | types, `WaitingIsBacked`, `KeepsContract` (refinement of StreamContract), `RequestWritten` on a line that loses commands and answers | one request, requests of mqtt behind, and reports of WiFi beside, those of boot; queues and wire of one |
| `uart_netstate` | `NetStateInSync`, `ModuleInformed` on a line that loses nothing but may be late | two reporters, queues of two, so that a report is queued behind another and one is refused |
| `uart_nesting` | violated: two streams wait at once (comment at `uart.c:397`) | two requesters |
| `uart_retries` | violated: a message is written a fifth time (comment at `uart.c:414`) | RECOVERNUM 3 as in the code, `tries` counted to 5 |
| `uart_resend` | violated: a lost NetState is not sent again (comment at `uart.c:407`) | two reporters |
| `spi_reports` | types, `PairedRight`, `NewestReported`, `AstrayOnlyByRepeats`, `ReportsOwned`, `ReportTaken` | two devices, five frames, three buffers, two parities, three halves lost in a row, queue of one |
| `spi_update` | violated: a device heard twice counts twice (comments at `spi.c:228` and `spi.c:382`) | three frames |
| `net_failover` | types, `StaysDown`, `MessagesHaveTriggers`, `FollowsCable`, `ReportsConnection`, `NeverLeftIdle`, `CableObeyed` | a loop of three events, queues of two messages |
| `boot` | types, `ReadsInOrder`, `StoredInTime`, `SlipsHaveCauses`, `RoomToTheEnd`, `HandedOver`: reads that end anywhere, answers that are late, repeated or lost | four requests (six in the code) and GetConfDown, uartToMain of two, two repetitions, one line nobody asked for |
| `mqtt_bridge` | types, `OkOnce`, `NotCutOff`, `ConfigFollowed`, `NoOrderForgotten`, `KeepsUpdate` (refinement of OtaUpdate), `ConfigObeyed`, `StaleEnds`, `LinesHandled`, `NetHeard`, `NewestTried` | event queue of four, queues to and from the module of one, update queues of one, two urls, one version, two turns of the environment |
| `ota_same_version` | violated: an image of the running version is refused (message at `update.c:158`) | two versions |
| `net_wifi_init` | violated: WifiInit returns once the station has started (comment at `wifi.c:224`) | a loop of three events, queues of one |

Why the bounds are enough: a queue of one already shows a full queue, an empty
one and a refusal, and a queue of two the order of two reports; the four
streams are symmetric but for their place in the pass, and the two senders
taken stand before and after another section. One tick of TIMEOUT separates
"in time" from "late". In SpiRecv three halves lost in a row is the longest loss
that `PairedRight` tolerates with two parities (four would hide a whole round);
five frames make two reports with a replacement and a stale slot in between, and
three buffers are one for each device and one to reuse: with them the address in
a stale slot is handed out again for another device, for the same one, and for
the frame in hand (without `~mixed`, `NewestReported` fails there). No buffer is
special, so `MCInit` fixes the first.
In NetFailover three events are a trigger behind two events of the drivers, and
two orders are a cable that came and went before the first was handled; every
property but `StaysDown` and the types promises nothing once an event or a
message was lost, so `net_failover` ends a behaviour there (`NothingLost`; the
theorems cover what comes after). A loop of four events gives the same results.
In BootConfig four requests let two surplus lines move an item out of reach of
MQTTInit and leave others in reach; a queue of two is full with GetConfDown
behind it. In MqttBridge both tasks may write a configuration at once, and only an event
queue of four holds the two pairs of events that they then post, so that
`ConfigFollowed` and `ConfigObeyed` speak of such writes; behind the trigger and
the timer the queue is full and either event of a pair may be refused. Two turns
are two configurations at once from server and module, an order behind another,
an answer that comes twice, or a lost connection during a change. An image that
is refused goes the way of one that cannot be fetched, so one version is enough
here (`ota_same_version` has two). The urls are alike, and `FirstUrl` fixes which
the program is sent first. The theorems about the bridge have no such bound.
`TriesCap`, `WireLen`, `MaxFrames`, `MaxLoss`, `MaxTimeouts`, `MaxOthers` and
`MaxTurns` are bounds of the model; the others are parameters of the code.

Deadlock checking is off where the program may stop: in the SpiRecv runs the
module stops after `MaxFrames` frames and a panic stops the tasks; in `boot`
app_main is done with GetConfDown.

### Fairness

`UartLink!LiveSpec`: the task loops for ever, so its steps other than the
start of a pass are weakly fair. A pass starts only when 20 ms went by without a
byte, which an answer may disable again and again, so `StartPass` is strongly
fair: the module is silent now and then. Ticks are strongly fair because the
task always comes back to wait. The readers of the forwarded lines keep reading.
Nothing is assumed of the line: everything may be lost. `RequestWritten` is
asserted of behaviours in which the senders pause at last, since a sender that
never pauses keeps earlier sections busy.

`SpiRecv!LiveSpec`: `timer_cb` posts the event that runs the handler every
40 ms; a post that is dropped is made again, so the two steps of the handler are
weakly fair. Nothing is assumed of the module, the scan task or the server.

`NetFailover!LiveSpec`: the loop's task, app_main and the mqtt task are scheduled, so
the handlers, `WifiInit`, `Poll` and `MqttTriggers` are weakly fair. Nothing is
assumed of the cable, the access point or the server.

`BootConfig!LiveSpec`: app_main and the uart task are scheduled. The line may
lose a command or its answer only while a repetition is left, so the bound on
`retries` is what makes the boot end; on a line that is dead for ever it does
not (NoTimeoutGivesUp in UartLinkProofs says why).

`MqttBridge!Fairness`: the two tasks, the timer and the update task are
scheduled; the uart task gets an answer or gives up on it; the server is reached
unless an attempt fails; a download ends, because every read has a timeout.
Weak fairness is enough because the environment's turns are bounded: the handler
that STOPMQTT waits for is idle for ever at last. Nothing is assumed of the
server's orders or of the module.

## Proofs

Assumed are only `UartAssumption`, `SpiAssumption`, `NetAssumption`,
`BootAssumption`, `OtaAssumption` and `BridgeAssumption`: the kinds of the
constants, the lengths of queues and loops and the numbers of requests and
parities above zero, and that there is a url and a version.

UartLinkProofs:
- `TypeCorrect`, `Spec => []TypeOK`, by itself inductive.
- `LinkInvHolds` with `LinkInv` = types, `StreamInv` of each stream and
  `ModuleInformed`. `StreamInv(s)` says that a stream not in INIT has a head
  that has been written or is GetConfDown, that a head that has been written is
  there and is not GetConfDown, whatever the mark, and that `recover` is 0 while
  waiting. `WaitingIsBacked` alone is not inductive: after a timeout nothing
  would say which head was written.
  From it: `WaitingStreamsAreBacked`, `ModuleKnowsMergedStatus`, and
  `NoTimeoutGivesUp`: since `recover` is cleared by the peek of each try, the
  branch that gives up is dead for every RECOVERNUM above zero.
- `LinkKeepsContract`, `Spec => KeepsContract`: each step is a Post, an Offer, a
  Discard or a stutter of StreamContract under `written <- tries > 0`.
- `MergedStatusInSync`, from `SyncInv`, which adds that a NetState already
  written is stored: without it, taking off an answered report could lose the
  newest value.

SpiRecvProofs:
- `TypeCorrect` from `TypeInv`: with the types, that a counted frame cost two
  halves, so that there is a slot for the next one.
- `FramesPairedRight` from `PairInv`: the saved parity is that of `head`, and
  the distance from `head` to now is bounded by the halves lost in between; two
  numbers less than a round apart have the same parity only when equal
  (`ParityTells`).
- `ReportsAreOwned` from `OwnInv`: ownership, and that queue and reader hold
  distinct reports no newer than `made`.
- `NewestIsReported` from `FilledInv`: until a device is new after another was
  repeated, some first slots hold the newest frame of each device heard, each in
  a buffer of its own that is none of the one in hand (`Filled`, `Apart`);
  nothing is said of the slots counted behind them, which may alias anything. A
  search therefore finds a repeated device before it reaches those, and a new one
  goes into the slot behind the filled ones, since none is counted there yet
  (`CountInv`). Without `~mixed` the theorem is false: a new device's search goes
  on to slots that were not filled, and the buffer it finds there may be its own.
- `RepeatsLeadAstray` with it: as many slots are filled as devices were heard
  (`FilledCounts`), so when no more are counted, each is filled, and a panic has
  found one that is not (`PanicInv`). It is the general form of the violated
  `OneSlotPerDevice`: nothing but a repeated device leads to it.

NetFailoverProofs:
- `NewestAppend` and `NewestTail` say what a post and a taken event do to the
  newest element of a sequence that decides a question; the invariants are
  about such newest elements.
- `Tells(c, d)` is all that the other proofs need to know of what the driver
  does when it is stopped, started or connected: it adds no event of Ethernet,
  it keeps "the newest event of the station says whether it is online", and it
  leaves no station idle. It is transitive (`TellsTrans`), so `TellsHandled`
  follows for the whole of `WifiEventRecvHandler`.
- `TypeCorrect`, `FollowsCableHolds`, `ReportsConnectionHolds` and
  `NeverLeftIdleHolds` are then inductive with the types.
- `StaysDownHolds` needs `Booting`: until WifiInit has returned there is no event
  of the cable and no order, so WiFi is not down when it is started.
- `StartMissedForEver`, with `Booting` and `Running` (the station is not stopped
  while app_main polls, so nothing announces a second start): a WifiInit that
  missed the start never returns. It is the general form of the violated
  `WifiInitReturns`.

NetTriggersProofs:
- `MessagesHaveTriggersHolds`: the number of triggers in the loop, the
  `Cardinality` of their places, is at least the length of each of the two
  queues, but for the one that a sender is about to post. `TriggersAppend` and
  `TriggersTail` count over a post and over a taken event; `Quiet(c, d)` says
  that the driver's own posts neither add nor remove a trigger.
- `RightAtRest` puts the invariants together: where the loop has run out of
  events and none was lost, there is nothing left that is wrong.

BootConfigProofs, from `BootInv`:
- `BootTypes`; `LinesInOrder` from `Framed` and `InOrder`: what is kept is less
  than a line, and the bytes not yet sent on spell the lines of `said` that
  app_main and uartToMain do not have yet.
- `ConfigInTime` from `Asked` (mainToUart holds the newest requests, in order),
  `Fresh` (what was taken off mainToUart has been answered), `Placed` (an answer
  stands no further back than the surplus lines put it) and `Kept` (what was
  taken is stored).
- `RoomForTheRest` from the same counts.
- `SlipsAreRepeats` from `Repeats`, which adds that at most the request in hand is
  answered before it is taken off, and that one answered after its timeout has
  its repetition counted ahead of the second answer. `SlipsHaveCauses` alone does
  not survive the `Write` that repeats it.

OtaUpdateProofs and MqttBridgeProofs:
- `UpdateTypes`, `OrderNotForgotten` from `OtaInv`, which adds that every order
  in the queue has its trigger. `OtaStepKeeps` and its like are cited in
  `MqttBridgeProofs` for `OrderKeptByBridge`.
- `BridgeKeepsUpdate`: each step of the bridge is a step of OtaUpdate or leaves its
  variables alone (`StepKeepsUpdate`). The only one for which an invariant is
  needed is `CpuUpdate`: OtaUpdate sends no order while the trigger of the one
  before is not posted, and here the handler itself, at `"attr"`, sees to that.
- `BridgeTypes`; `ReportedOnce` from `Credited`: there is credit for the order that
  is being reported, for the value that attr is about to get and for the one it
  has, unless that one will be cleared by what is being reported. So a write of
  attr between the reading of a line and the clearing is lost, never doubled.
  `NeverCutOff` from `Followed`: unless a STARTMQTT was refused, each STOPMQTT in
  the loop has a STARTMQTT behind it, or a task is between the two.
- `ConfigIsFollowed`: with the types inductive by itself, because STOPMQTT stops
  the client, and so makes it use, whatever both tasks have written by then; only
  a STOPMQTT that was refused is excepted.
- `RightAtRest`: where both tasks and the update have nothing to do and nothing
  was refused, the newest configuration is used and the newest order begun.

Model-checked only: the liveness properties, which need fairness
(`RequestWritten`, `ReportTaken`, `CableObeyed`, `HandedOver`, `ConfigObeyed`,
`StaleEnds`, `LinesHandled`, `NetHeard`, `NewestTried`). Every invariant that a
passing run checks is proved, and so are both refinements. What of the liveness can be said without fairness is proved too:
the two `RightAtRest` say that a state with no work left is a right one, so what
is left to TLC is that the work runs out. Refuted, hence only run:
`NoNesting`, `GivenUpAfterRetries`, `TimeoutResends`, `OneSlotPerDevice`,
`WifiInitReturns`, `SameVersionRefused`.

## Findings

- A silent module blocks its queue for ever: the retry limit is never reached
  (`uart.c:435`).
- Two messages can wait for an answer at once, and one answer acknowledges both
  (`uart.c:397`).
- A network state lost on the line is not repeated (`uart.c:507`).
- A replaced scan entry is counted again, so the search and the report reach
  slots that were not filled in this period, of which one may be the buffer of
  the frame in hand, which is then freed (`spi.c:392`).
- A first connection attempt that fails at once leaves app_main waiting in
  WifiInit for ever, without Ethernet (`wifi.c:281`).
- An image of another version than the running one is refused and one of the
  same version installed, the reverse of the message (`update.c:156`).

## Not modelled, and what could follow

- The texts: AT commands, JSON, names of `common.c`, lengths of lines against
  their buffers. The models take a line for what the code makes of it.
- The contents of the scan filter and the race between `SpiEventHandler`, which
  frees it, and `SpiRecvTask`, which walks it.
- Which of several WiFi configurations is in force, addresses, and new Ethernet
  addresses.
- Vendored code (tiny-regex, the Linux rbtree, headers and libraries under
  `src/thirdlib/`), the Linux SDK and the Qt tool are no part of the firmware;
  `queue.c` is in no build file. They are most of the lines of the repository,
  so the map covers a small share of it while it covers most of the control of
  `src/main/`.

Next would be, in this order: a filter that is replaced while it is used, in
SpiRecv; configurations in NetFailover, for `wifi.c:157`; and a composition of
BootConfig with UartLink, in which requests of mqtt queue up behind the boot.
The hazards without a property in `PROJECT.json` name the rest.
