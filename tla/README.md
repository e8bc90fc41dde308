# Verification of the sensor-network contest programs

This project keeps TLA+ models, TLC runs and TLAPS proofs beside the TinyOS programs
of this repository.  All paths below are relative to the root of the repository;
`final/` stands for `src/projects/final/`.

How to run: `tlc -workers 2 -config MCx.cfg MCx` checks one configuration, `tlapm
XProofs.tla` checks the proofs of one component.

## 1. The system

The final program is a remote-controlled car in a radio network.

    keyboard -> TestSerial.java -> PcNodeSend mote -> RelayNode mote(s) -> CarNode mote
                                                                            |   UART0
                                                                            v
    PcNodeRecv mote <- RelayNode mote(s) <------- data frames ------- servo, motor, tag reader

| component | source | state | operations |
|---|---|---|---|
| car driver | `final/CarNode/CarP.nc` | `isStart`, `isSend`, command buffer `CarCommand`, `cmdlength`, receive buffer and its flags, `statetag`, `tagdata`, Timer1 | start/stop, ten commands, `granted`, receive interrupt, `Timer1.fired`, `recvTask` |
| UART0 arbiter | `ArbiterP__1` in `final/CarNode/build/telosb/app.c` | state, owner, owner to be, FCFS queue, posted task | request, immediateRequest, release, grantedTask |
| car application | `final/CarNode/RadioToLedsC.nc` | `seq`, `angle`, `id`, `current_data`, `resend_count`, `busy_radio`, `packet` | boot, command frames, `readDone`, ResendTimer, `sendDone` |
| send queue | `AMQueueImplP` in `final/RelayNode/build/telosb/app.c` | a slot per sender, `current`, posted `errorTask` | send, `sendDone` of the radio, `errorTask`, callback |
| relay | `final/RelayNode/RelayC.nc` | `pktID`, `busy_radio`, two packets | receive of car and data frames, `sendDone` |
| PC sender | `final/PcNodeSend/` | character counter of the PC program, the mote's one packet | key typed, restart, serial frame, `sendDone` |
| PC receiver | `final/PcNodeRecv/` | none | prints data frames |
| min/max | `final/706/BiDaXiao/`; an older version in `min_max/` | `status`, `last_status`, `busy_radio`, `packet`, stale, stable and time counters, three timers | serial number, receive, send and resend timers, `sendDone`, `MilliTimer` |
| routing | `more_manual/SimpleRoutingC.nc` | metric, next hop and number of the flood, `type`, `locked`, `busy`, one packet for three kinds of frames | Timer0 (flood), Timer1 (repeat), route, control and data frames, `sendDone` |
| radio stack | `CC2420SpiP`, `CC2420CsmaP`, `CC2420TransmitP` in `数字接龙/telosb/app.c` | `m_state`, SPI holder and requests, flags of the transmitter, SFD capture, posted tasks | start, send, BackoffTimer, SFD interrupts, `granted`, `sendDone` |
| collection client | `more_ctp/` | `busy`, counter | one timer, one CTP send |
| beacons | `more_official/`, `more_trans/`, `多多益善/` | `busy`, counter | one timer, one broadcast |
| digit game | `digit/`, `数字接龙/`, `digit_stupid_broadcast/`, `test_alg/` | counter, last id, LED patterns | retransmission, flooding, table look-up |
| TinyOS run-time | `app.c` of every program | scheduler, timers, serial stack, registers | library code |
| the rest | `src/contiki-2.7`, simulations, data, documents | - | third party, inputs, texts |

**How they interact.** On the car node everything meets: the application calls the
driver (`Car.*`) from its event handlers and is called back (`readDone`); the driver
and the CC2420 radio share one USART through the arbiter; the receive interrupt of the
tag reader runs between any two instructions of any task.  Radio frames may be lost,
repeated (every relay forwards) and overtaken.

**What is hard.** (1) the command lock `isSend` is one flag, set by commands and
cleared by two different tasks while a third party (the radio) competes for the bus;
(2) a query holds the bus until an answer, or a timeout, which race; (3) a *refused*
command is not without effect: it overwrites `cmdlength`, and a refused query drops
half an answer; (4) the application tests the result of `send` the wrong way round
(`SUCCESS` is 0); (5) readings are re-sent against a counter that wraps, while older
frames may hold the only send slot; (6) in the network, sequence numbers, a reset
command and relays without duplicate suppression; (7) routes that are learnt from late
or lost frames, with one packet and one flag for three kinds of send; (8) the radio
itself: interrupts of one pin for own and others' frames, attempts cut by interrupts,
and two nested arbiters.  `PROJECT.json` lists these as hazards, each at its line.

**What makes each part correct.**

* arbiter: one owner, no grant lost or doubled, whoever asks is served;
* driver: the lock agrees with the bus; a command in line is never changed; a reading
  reported as good is of the tag that was queried; every command ends;
* application: servo angles stay in range; the data path never blocks for good; every
  reading is on the air at least once;
* send queue: every accepted send is answered once, whoever else sends;
* relay and network: the relay never stops for good and hides no newer command; a fresh
  command is obeyed once, and in order, if copies into the radio are whole;
* min/max: no number is invented; the flood ends; the root prints, and prints the true
  minimum and maximum;
* routing: next hops form no circle; the metrics become the shortest; the flag is
  given back;
* radio: every send is answered once, by one `sendDone`, and a frame reported as sent
  has left; both buses are given back, so that the car's driver gets its turn;
* beacons and collection (not modelled): the sender does not stop for good;
* digit game (not modelled): every digit is sent the promised number of times; table = pattern.

## 2. Modules

| module | models | |
|---|---|---|
| `BusService` | what a shared bus promises | abstract |
| `Uart0Arbiter` | the arbiter; implements `BusService` | detailed |
| `CommandPort` | what the driver promises to the application | abstract |
| `CarDriver` | `CarP` on top of `Uart0Arbiter`; implements `CommandPort` | detailed, composed |
| `CarApp` | the application, on top of `CommandPort` | composed |
| `SendSlots` | what the send queue promises to its senders | abstract |
| `AMQueue` | the send queue of the radio; implements `SendSlots` | detailed |
| `RelayNode` | `RelayC` on top of `AMQueue` with two senders | composed |
| `CommandNetwork` | PC program, PC node, relays, and what the car accepts, over a lossy channel | a network |
| `MinMax` | nodes that flood their extreme numbers | a network |
| `SimpleRouting` | nodes that find their way to a destination and forward a source's data | a network |
| `CC2420Spi` | `CC2420SpiP`: the radio's parts share the SPI bus, on top of `Uart0Arbiter`; implements `BusService` | composed |
| `CC2420Radio` | the radio's sending half on top of `CC2420Spi`; implements `SendSlots` for one sender | composed |
| `Uart0ArbiterProofs`, `CarDriverProofs`, `CarAppProofs`, `RelayNodeProofs` (with the queue's), `MinMaxProofs`, `CommandNetworkProofs`, `SimpleRoutingProofs`, `CC2420RadioProofs` | theorems | |
| `MC...` | instances for TLC | |

The composition is by contract.  `CarDriver` extends `Uart0Arbiter` and calls its
operations (`Request(Car)`, `Release(Car)`), as the code does.  `CarApp` does not see
the driver's fifteen variables but only the port, and `CarDriver` is shown to
implement that port, by TLC with its fairness and by TLAPS without. `RelayNode`
extends `AMQueue` and calls `SendAccepted` and `SendRefused`.  The car has one sender
of its own; its send slot in `CarApp` is `SendSlots` with one sender.  What the driver
takes for granted of its rival on the bus, and the queue of the radio below it, is
what `CC2420Radio` shows: `Uart0Arbiter` is extended there by the rival itself (the
driver being one of the other clients), and the radio answers each send once
(`ImplementsSlots`).  `BusService` is used twice, for USART0 and for the SPI bus
nested in it.

### How the models correspond to the code

*Atomicity.*  A TinyOS task runs without another task, so a task is one action unless
it busy-waits or signals: then it is cut there, `cpu` says which task is half done,
and only interrupts run in between.  `granted` is cut after the arbiter's task has
made the driver the owner (it busy-waits for each byte), the timer's task between
taking off the timer and `fired`, and `recvTask` between its reset and `readDone` on
one side and the release on the other.  The receive interrupt and the radio's bus
requests come between any two actions.  The order of posted tasks is left open, which
includes the scheduler's FIFO order.

*Data.*  A received byte is `"ff"` (sync), `"zero"` (header) or the tag whose answer
it belongs to: this is all that `rxDone` tells apart, plus what is needed to say which
tag a reading is of.  `nreading` is the length of `recdata`.  `SyncData` has two
entries, and its index can run past them after a refused query; what lies behind is
left open (`SyncMatches` and `SyncDiffers` are both possible then) and `SYNC_CAP`
stands for every such index.  The command buffer keeps its opcode and value;
checksum-free constant bytes are left out.

*The application* calls the driver from tasks, and stops an idle driver only (nobody
in the repository calls `CarControl.stop`).  In `CarApp` a handler is one action; of
the several commands of one handler (`startDone`, `__`) the driver accepts the first
at most, because an accepted one occupies it until another task has run.  The radio
copies the pending `message_t` at some point between `send` and `sendDone`
(`RadioLoads`), so that the code's habit of rewriting `packet` while it is pending is
visible.  The copy is one step there (see below).  LEDs and `printf` are left out.

*The send queue* runs in tasks only.  A `sendDone` is one action up to the callback
(clear the slot, find the next full one, hand it to the radio) and the callback is a
step of its own (`told`): the sender's handler may send again while it runs.  That the
radio may refuse a message at once is the constant `RadioFails`.  The send of the
radio as it is compiled in (`CC2420CsmaP`, `final/RelayNode/build/telosb/app.c:14657`)
refuses only while it is off or already sending; the queue never gives it two
messages, and nobody stops it, so the relay's run has `RadioFails = FALSE`; that it
then answers every message is a theorem about `CC2420Radio`.

*The relay* hears any frame at any moment: frames of the PC or the car, repeats by
other relays, its own echoes.  A frame is its `seq` and whether it is the reset
command, since the relay looks at nothing else.  `packetSeq` is the `seq` of the frame
in `packet`, which the code overwrites even while it is being sent.

*Min/max.*  A node's handlers are tasks and one action each.  `slot` is the node's
slot in the send queue: the radio copies and sends the packet at some time between
`send` and `sendDone`, or reports `ERETRY` and sends nothing. What is heard lies in
`heard` until `Receive.receive` handles it, in any order. `MilliTimer` is kept for the
root, since its counters are read there only. `WELL_TIMED` stands for a network that
is quick compared with itself: numbers are there first, no frame is lost, a handler
finds its node's last send finished, and the flood ends before the root has counted to
its thresholds.

*The command network.*  A key is its place in `typed`; a frame is its number and its
key.  The PC program gives every character a number, also the line feed and those it
does not know, and number 0 is never obeyed, since both relays and car start at 0 and
want more.  `Restart` ends the program and starts it with another first number.  The
relays are those of `RelayNode`, with the queue cut down to one slot (there, each
sender has its own) and the data traffic to what it does to `busy_radio`
(`DataSendRefused`, `DataSendDone`).  Frames that the radio has received wait in
`inbox`, at most `RX_CAP` of them; `Transmit` chooses who hears.  The radios are on.

*The copy into the radio.*  `loadTXFIFO` starts it and returns; the rest is done two
bytes at a time by the interrupts of the SPI (`continueOp`,
`final/RelayNode/build/telosb/app.c:25016`), until `TXFIFO.writeDone`.  Tasks run
meanwhile, and one of them may write the packet: the serial line's at the PC node, and
at a relay the task that hands over a frame received before, since the receiver gives
the SPI bus back before it posts that task (`app.c:17040-17062`).  So `CommandNetwork`
copies in two steps.  `CopyStarts` takes the packet as it is into `fifo`; a handler
that overwrites the packet during the copy (`Overwrite`) leaves in `fifo` any frame
with each byte of the number from the old or the new one, and the command of either;
`Transmit` sends what `fifo` holds.  `whole`, `patient` and `orderly` are history that
the properties speak about and no action reads: no copy has mixed two frames; every
key was typed at rest; nothing was lost, no number was given again, and no data frame
was refused.

`CarApp`, `MinMax` and `SimpleRouting` make this copy in one step.  In `CarApp` a
reading that is torn has not been broadcast, as if the radio had copied the older
frame, which the model allows.  In `MinMax` and `SimpleRouting` it is an assumption: a
16-bit number that is half old and half new may be nobody's (`OnlyGivenNumbers`), or
lower than both (`GenuineRoute`).  It takes two numbers that differ in both bytes, which
metrics below 256 do not.

*Routing.*  The words of a frame are kept, because handlers read a frame of one kind
that was written as another: `packet` is rewritten while a send is pending, `send`
writes kind and destination before it finds its slot taken, and the length after.  The
source is an outsider that sends what `SourceFrames` has. `is_PSP` is a set of ids,
where the code has a table that it indexes with the id of a frame unchecked
(`SimpleRoutingC.nc:184`): the ids heard are taken to fit it.  Radios are up from the
start.

*The radio.*  Every interrupt handler is one action; a task is cut where it leaves an
atomic section (`task` says which is half done, and interrupts come in between). `air`
is the chip: it accepts the strobe, sends, and raises and lowers the pin SFD for its
own frame and for others'.  `edge` is an interrupt of that pin that is still to be
served.  `left` and `calm` record what the properties speak about and are read by
nothing.  Of the receiver only its use of the bus is there.  What `granted` does by
default, when neither a load nor an attempt is due, is never reached
(`TransmitterUsesBus`).

*Outside the code.*  The tag reader (`ReaderHears`, `ReaderAnswers`) answers a query
once or never.  `GoodReader` says that it answers within Timer1 and only queries of
query length; with `GoodReader = FALSE` its answer may come at any time, during a
later command too.

Operators marked *mutant* in a comment are deliberately wrong variants of the
definition after them.  They are not part of any specification; each is listed in
`PROJECT.json` with the property that fails when it is used in place of the original,
which shows that the property does depend on that line of the code.

## 3. Runs

| run | instance | what it shows |
|---|---|---|
| `radio` | 3 clients of USART0 (the radio and two more), 3 of the SPI bus, frames with and without acknowledgement | the invariants of arbiter and radio (inductive), `SentMeansSent`, that both buses serve whoever waits, and `ImplementsSlots`: every send is answered once |
| `car_driver` | 3 clients, 2 values, 2 tags, answers of 6 bytes, good reader | the driver's invariants (`ReadingInv` is inductive), the lock, `CommandBodyStable`, `CommandCompletes`, `ImplementsPort` |
| `car_driver_late` | 2 clients, 1 tag, answers of 2 bytes, any reader | commands still complete when answers come late |
| `car_app` | 2 tags, angles 1..3, 2 resends, count modulo 5 | steering, busy flag, broadcasts |
| `send_queue` | 3 senders, 2 of them sharing a message, a radio that may refuse | `QueueInv` (inductive), and `ImplementsSlots`: every accepted send is answered, exactly once |
| `relay` | 2 senders, sequence numbers 0..3, a started radio refuses nothing | `busy_radio` is set only while a callback is to come, and is always cleared; suppression hides no newer command; the relay keeps to its slots |
| `commands` | PC, 2 relays that hear each other, car; 2 keys, numbers 0..2 | keys typed at rest leave every copy whole; while copies are whole, numbers and commands are not mixed up and the car obeys in order and nothing twice; and when all is at rest it has obeyed the last key |
| `min_max` | 3 nodes that hear each other, 2 of which start; loss and retries | numbers are genuine, the flag does not outlive the send, the flood ends, the root prints |
| `min_max_timed` | a diamond of 4 nodes, `WELL_TIMED` | when all is quiet the root knows the truth, and what it prints is true |
| `routing` | a ring of 5 nodes, 2 floods, one at a time, no loss | no circle of next hops, `MetricIsReal`, `FloodsSettle`, and in the end the shortest metric everywhere |
| `routing_data` | 2 nodes and a source, frames lost, three kinds of frames | the one busy flag is always cleared |
| `car_app_tag_id` | as `car_app` | *violation*: a data frame can name a tag its data is not of |

**Bounds and why they suffice.**  Two tags are enough for a reading to be of the wrong
one, two values for a command to be overwritten by a different one. Three clients of
the bus let one wait while another is promised and a third owns; the code's car node
has two.  The SPI clients are 0, 3 and 4 of the code's five: control, transmit,
receive (1 and 2 belong to control, too, and are used by no operation that is
modelled), with the ids that decide whose turn is next.  Six bytes are the code's
`MAX_DATA`; the late-reader run uses two (header only), as its property does not look
at the data, and longer answers multiply the states without a new branch. `RESEND_CNT
= 2`, `COUNT_MOD = 5`, `OLD_COUNT = 3` keep the order of the code's constants 5 <
0xfff < 2^16, so that the counter starts beyond the last resend and wraps into the
range again.  `MAX_SEQ = 2` lets a frame be accepted, become stale, and be accepted
again after a reset; since the reset returns to 0, behaviours are not cut short.
`MAX_WAIT` bounds how many ticks a send may wait: the theorem that every reading is
broadcast assumes it to be less than `RESEND_CNT` (`WaitAssumption`).  A query holds
the bus, and the radio with it, for one second at most, so a send waits for less than
the five ticks of the resends. Three senders let the round-robin search pass an empty
slot and wrap, and two message variables for three senders let two slots hold the same
pointer, which the test in the radio's `sendDone` compares.  Sequence numbers 0..3
give the relay an older, an equal and two newer frames; the comparison sees no more.

Two relays that hear each other send a frame to and fro, and the car hears it from
both, so that it is late, repeated and overtaken.  Two keys are an older and a newer
one (either may be the reset), and three numbers leave room for a character between
them or a restart.  The relays differ in nothing and the run checks invariants only, so
that it may use their symmetry (`RelaySymmetry`).  Numbers of more than one byte do not
occur in it; the theorems hold whatever number a mixed copy has.

In a ring of five there are two ways of different length to every node; the second flood mends
what the order of the first one's frames has made too long.  `INF = 7` keeps more words than nodes, as
65535 does.  Loss, and floods that overlap, are covered by the theorem, for any
network; the run has neither since `Converges` needs that.  In `routing_data` one node
hears the other, but not the reverse, and both the source.

Three nodes that all hear each other let two floods cross at each node and an answer
provoke an answer; in the diamond the largest number comes to the root on another way
than the smallest, and a node gets both in either order.  `STABLE_THD = 1` and
`END_TIME = 3` (2 in `min_max_timed`) keep both ways to a report, and `STALE_CAP` is
past the limit up to which `stale_count` is compared; the code's counter wraps after
2^16 stale frames.

**What min/max needs.**  `RootKnows` and `ReportIsTrue` hold for `WELL_TIMED` only. If
a frame may be handled while the node's own send is pending, the flood can end with
nodes that disagree: the packet is already copied, `send` answers `EBUSY`, and nothing
sends the improvement later, because `sendDone` starts the `ResendTimer` after an
error only.  If the radio is not on when the number comes, `busy_radio` is set for
good (`RADIO_FIRST` excludes it).  Both are listed as hazards.

**What the command network needs.**  If the PC program is restarted without its first
number, or with too low a one, the car stays deaf, also to the reset key, until the
numbers have passed; `CAREFUL` excludes it (the number is an
argument of `TestSerial`).  Two relays in each other's range may send a frame to and fro for ever:
nothing in the code ends it, and no property claims it: `QuietMeansObeyed` speaks of a
network at rest.  And keys must not be typed in haste: if a key's frame comes while the
packet is being copied with the key before it, the older number can go out with the
newer command, and the car obeys the newer key with this frame and again with its own.
TLC finds this when `whole` is taken out of `ObeysInOrder`, so the property is stated
with it; `WholeIfPatient` says what keeps copies whole.

**What routing needs.**  `RouteInv` is stated for networks without data traffic
(`SourceFrames = {}`).  With it, every node that hears the source and has not the
smallest id writes a control frame over a route frame that waits in the queue, a
control frame may carry the source's id instead of the node's own, the destination
becomes a speaker itself if it hears the source, and Timer0 is not started again when
it finds the node busy, so that no flood follows. These are hazards listed in
`PROJECT.json`; nothing in the repository says otherwise.

**What the radio needs.**  `SentMeansSent` holds as long as no strobe is accepted
while an interrupt of SFD is pending (`calm`): the transmitter takes the next rising
edge for its own frame, also when another's frame raised it just before the strobe.
The send is then answered with success before the frame has left.  That it is
answered, once, is shown without the condition.

**What the late reader breaks.**  Without `GoodReader` the driver's lock no longer
matches the bus: an answer that comes after the timeout is completed during the next
query, is reported as its answer, and the `recvTask` it posts clears `isSend` of a
command that is only in line.  This is a hazard listed in `PROJECT.json`; nothing in
the repository claims otherwise, so it is an assumption here and not a finding.

**The finding.**  `final/include/test_data_msg.h:5` calls the field `id` of a data
frame the "tag id".  The application sets `id` on every query frame, also when the
driver refuses the query (`RadioToLedsC.nc:140-141`), and `sendData` combines the
current `id` with the data of the last good reading.  The counterexample of
`car_app_tag_id`: `_1` is accepted, `_2` arrives during the reading and is refused,
and the data of tag 1 is broadcast as data of tag 2.

### Fairness

* Posted tasks run (`DriverTask`, `grantedTask`): the TinyOS scheduler is FIFO and
  tasks end.  `Timer1Expires`, `ResendTimerFired`: time passes.  `RxDone`: a byte on
  the wire arrives.  Each is weak, where the step stays enabled until it is taken.
* `ResendTimerFired` and `SendDone` in `CarApp` are strong: they are posted while
  `readDone` is being reported at worst, and wait for the end of that task only,
  however often such tasks come.
* The radio reports every message it took (`RadioSendDone`), `errorTask` and the
  callbacks run (`ErrorTask`, `HandlerReturns`, `RelaySendDone`, `QueueRuns`): weak.
  The fairness of the abstract `Tell(c)` is strong, per sender, and is a consequence
  of the round robin.  No frame is ever obliged to arrive.
* In `MinMax` radios start, numbers come, timers fire, received frames are handled and
  sends end (weak); a radio that reports `ERETRY` again and again sends in the end
  (`Transmit`, strong).
* Other clients of the bus release it: the assumption of `CommandCompletes`, which
  `radio` shows of the radio stack.
* `RunsOn` of `CC2420Radio`: the node starts its radio, tasks and interrupts and
  timers come, frames end, holders of a bus give it back (weak).  `ChannelIsShared`: a
  channel that is clear again and again is found clear (strong), and not every strobe
  comes too late.  Backoffs are random, which is what it stands for; without it others
  could silence the node, as the code has no limit of attempts.
* In `SimpleRouting` timers fire, radios send, frames that arrived are handled (each
  weak).
* `CommandNetwork` states no fairness: its properties are about states.
* The reader is under no fairness: it may stay silent for ever.  Nobody is obliged to
  send commands, either.

## 4. Proofs

All are for every value of the constants that satisfies the named assumptions.

| theorem | says |
|---|---|
| `ArbiterCorrect` | `ArbSpec => []ArbInv` for any set of clients |
| `ArbiterImplementsService` | every arbiter step is a service step or a stutter |
| `DriverInvariant` | `GoodReader => (Spec => []DriverInv)` |
| `LockMatchesBus`, `ReadingNeedsBus` | `SendFlagMatchesBus`, `ReadingWithinTenure` |
| `CommandsAreNotOverwritten` | the action property `CommandBodyStable` |
| `ReadingsAreOfTheQueriedTag`, `SuccessIsOfTheQueriedTag` | `ReadingInv` and its part `ReadingIsOfQueriedTag` |
| `DriverImplementsPort` | every driver step is a port step or a stutter |
| `CommandsNeverStuck` | `Spec => []NeverStuck`, with any reader: an accepted command waits for something that comes |
| `AppInvariant`, `SteeringStaysInRange`, `BusyOnlyWhilePending` | `AppInv` and two of its parts |
| `ReadingsAreBroadcast` | `BroadcastBeforeResendsEnd` |
| `QueueInvariant` | `QueueSpec => []QueueInv` for any number of senders |
| `QueueImplementsSlots` | every step of the queue is a step of `SendSlots` or a stutter |
| `QueueServesInTurn` | `QueueSpec => ServedInTurn`: of N senders at most N - 1 are answered before one that waits |
| `RelayInvariant`, `SuppressionIsSound` | `RelayInv` and its part `SuppressesOnlyOlder` |
| `BusyOnlyWhilePending` | `~RadioFails => (Spec => []BusyMeansPending)` |
| `RelayUsesSlots` | every step of the relay is a step of `SendSlots` or a stutter |
| `RelayFitsNetwork` | `~RadioFails =>` every step of the relay is a step of `CommandNetwork`'s relays or a stutter |
| `NetworkInvariant` | `CAREFUL => (Spec => []NetInv)`, for any relays and links |
| `CarObeysInOrder` | `CAREFUL => (Spec => []ObeysInOrder)` |
| `PatienceKeepsFramesWhole` | `Spec => []WholeIfPatient`, with or without fresh numbers, for any relays and links |
| `RestAfterOrder` | `CommandReachesCar => (Spec => []QuietMeansObeyed)` |
| `RoutingInvariant` | `SourceFrames = {} => (Spec => []RouteInv)`, in any network, with any losses |
| `RoutesAreLoopFree` | its part `LoopFree`: next hops lead closer at every step |
| `MetricsAreReal` | `SourceFrames = {} => (Spec => []MetricIsReal)`, with any losses |
| `FloodsSettleMetrics` | `Undisturbed => (Spec => []FloodsSettle)` |
| `MetricsBecomeShortest` | `Undisturbed => (Spec => []ShortestKnown)`: after k floods, metrics within k hops are distances |
| `RadioInvariant` | `Spec => [](ArbInv /\ RadioInv)` for any other clients of USART0 |
| `ReportedFramesHaveLeft` | `SentMeansSent` |
| `RadioUsesSlots` | every step of the radio is a step of `SendSlots` or a stutter |
| `SpiIsABusService`, `UsartIsABusService` | every step of the radio is, on either bus, a step of `BusService` or a stutter |
| `MinMaxInvariant`, `NobodyInventsNumbers` | `MinMaxInv` and its part `OnlyGivenNumbers`, in any network |
| `MinMaxProofs!BusyOnlyWhilePending` | `RADIO_FIRST => (Spec => []BusyMeansPending)` |
| `RootLearnsTruth` | `FloodReachesAll => (Spec => []RootKnows)` |
| `RootReportsTruth` | `FloodReachesAll => (Spec => []ReportIsTrue)` |

Assumptions: `ArbiterAssumption` (the two special ids are no clients),
`DriverAssumption` (the driver is a client; tags are not the special bytes; an answer
has at least two bytes, and a good reader's has a header and two bytes of data),
`AppAssumption` (the order of the code's constants), `WaitAssumption`,
`QueueAssumption` (a sender exists; the null pointer is no message), `RelayAssumption`
(the relay has two senders with a message each), `MinMaxAssumption` (a root; numbers
of a bounded width), `NetworkAssumption` (the PC is no receiver, the car no relay),
`RoutingAssumption` (finitely many nodes, fewer than words; 0 and the broadcast
address name none), `SpiAssumption` and `RadioAssumption` (the radio is one client of
USART0; its three parts are different clients of the SPI bus, and 255 is none).

Hypotheses: some theorems are about networks or settings of a kind, and say so.
`FloodReachesAll` (starters reach every node over nodes that pass frames on, and every
node reaches the root) and `CommandReachesCar` (frames from the PC can reach the car)
are what the network must be like for the program to have a chance; TLC evaluates both
on the runs' networks (`FloodReachesAllHolds`, `CommandReachesCarHolds`), so the runs
are instances of the theorems.  `Undisturbed` is the setting of the run
`routing`: no data traffic, no loss, room for a frame of every node, and floods
that do not overlap.  Losses, overlapping rounds, what is typed in a hurry and torn
copies are conditions inside the properties (`WELL_TIMED`, `Quiet`, `orderly`,
`patient`, `whole`).

**The arguments.**

* *Arbiter:* that a client stands in line once is not inductive alone: one needs that
  the client being granted, or owning, is not in line either, and that the grant task is
  posted exactly in state GRANTING (`ArbInv`).
* *Driver:* `SendFlagMatchesBus` needs `ReadingWithinTenure` (else `recvTask` could
  clear the flag of a command in line), which needs `OneStage` (timer, result and report
  exclude each other: nobody posts `recvTask` twice) and that the reader is silent
  outside the timer (`ReaderInTime`, `ReceptionBounded`: the buffer is full with the
  last byte at the earliest, so no byte is left over).
* *Which tag:* `AnswerOfQueriedTag` follows the bytes: sync bytes occur only at the
  start, so a receiver that a refused query has reset in the middle of an answer never
  finds a start again and times out; a receiver that has found the start has seen every
  byte since.
* *Application:* a reading that is not on the air is in line, or an older frame holds
  the slot, and then the tick counter of that frame bounds the resends used up so far
  (`UnsentInTime`).
* *Send queue:* exactly one of the radio and `errorTask` answers for the current sender
  (`CurrentIsServed`), and the queue rests only when all slots are empty
  (`RestsWhenEmpty`); the step lemmas are stated for the queue's operations, so that the
  relay's proof cites them.
* *Relay:* `busy_radio` is set by a sender that is refused; without a failing radio this
  means that its own slot is full, and a slot is emptied only by a step that also calls
  back. With a radio that fails, the flag could be set with nothing pending and stay set
  for ever: the theorem therefore assumes `~RadioFails`.
* *Min/max:* what goes out is whatever `packet` holds when the radio copies it, which
  may be a frame the node has just heard; so the invariant says of frames heard, pending
  packets and numbered nodes together that they hold given numbers, and only together is
  this inductive.
* *What the root learns:* a status that covers another holds all it tells. Once every
  number is there, a node that the flood has reached is going to send, or everybody who
  hears it covers what it knows or has a frame that does (`ReachedTell`); one not yet
  reached is no starter (`Untouched`). At rest, then, covering goes along every link
  over which frames are passed on; for each node, the nodes that cover its number form a
  `Closed` set, and `FloodReachesAll` says where such a set ends: the induction over
  ways is one over sets, in the hypothesis. Before that the invariant needs that nobody
  but starters acts while a number is missing (`BeforeFlood`) and that only nodes the
  flood has reached send (`OnlyReachedSend`).
* *Commands:* a car that forgets its number on a reset obeys what it has obeyed already
  only if an old frame is under way, and every frame under way is one that was typed,
  as long as no copy has mixed two (`GenuineIfWhole`), with a number that grows
  (`NumbersGrow`); `CAREFUL` is needed for the growth alone. That even a mixed frame
  commands a typed key needs no condition (`CommandsAreTyped`).
* *Whole copies:* when a key is typed at rest, every frame under way, being copied or
  received is that key's (`OnlyLast`); so a handler that overwrites a packet in the
  middle of its copy writes what is there (`SameFrame`). The invariant holds with
  losses and restarts too, since it speaks of one key only.
* *Obeyed at rest:* of a key typed at rest, whoever has it is going to send it, or
  everybody in reach has got it; and neither the car nor a relay can skip it before it
  has got it, as all numbers they keep are lower (`LastGoesOn`, `NumbersBelow`). With
  nothing else under way (`OnlyLast`), the nodes that have got it are such a set as
  `CommandReachesCar` is about.
* *Routing:* a metric never grows, so a route frame under way, however old, says no less
  than what its sender's metric is now (`GenuineRoute`); a node's next hop is therefore
  closer than the node, and a circle would be closer than itself. That `metric + 1` does
  not overflow follows from counting: each metric is at most the number of nodes that
  the flood has reached.
* *Length of ways:* `Within` is a recursive function, which `WithinUnfolds` takes apart
  after showing that one exists, built from explicit ways; a route frame then names a
  sender that is as near as it says, and a hearer of its is one hop further (`RealInv`).
* *Floods that do not overlap:* in each flood a node sends once (`SendsOnce`), and
  perhaps before it has heard the best way. What it sends is still good enough: at the
  start of flood k every node within j < k hops is `Settled` at j, so each frame of the
  flood gives its hearers the metric that their place asks for (`Current`, `Told`), and
  nobody in reach is left out (`PassesOn`).
* *Radio:* the lemmas on `CC2420SpiP` say what each operation does to `Holds`,
  `WaitsFor` and the ownership of USART0, and the radio's steps are proved from these
  alone. The core of `RadioInv` is that in each state of the transmitter something is to
  come that goes on (`SomethingComes`), which needs `TransmitterUsesBus` (a grant finds
  the state that asked for it) and `HalfDone` (what a task that is cut may find);
  `SentMeansSent` needs `EdgeIsOwn`, which says what a pending edge stands for.
* *The buses under the radio:* each step of the radio is one operation of one client of
  the SPI bus or changes nothing an observer of it sees, and likewise for USART0; the
  two theorems map these operations, not the radio's steps.
* *Turns of the queue:* `Ahead` counts the senders between the one that was answered
  last and one that waits; every answer to another brings it closer by at least one.
* *Relay in the network:* with `told` as the slot's state "sent", the relay's handlers
  are those of `CommandNetwork` for one relay (`CopyStarts` and `Transmit` in one,
  as the queue does not see the copy); that a radio refuses nothing is needed
  because those relays' radios never do.
* *Any reader:* a late answer breaks `SendFlagMatchesBus` and lets the driver stand in
  line while it is served already, so `ServedOnce` is lost (`LineInv`). What does remain
  is that the lock is never set without a claim to the bus, and the bus never owned
  without a timer, a posted `recvTask` or a half-done task (`NothingForgotten`).

**Only model-checked:** liveness (`CommandCompletes`, `BusyClears`, and the fairness
parts of `ImplementsService`, `ImplementsSpiService`, `ImplementsPort` and
`ImplementsSlots`, `FloodEnds`, `RootReports`, `Converges`).  Liveness under fairness is
out of the prover's reach; where there is a safety core to it, that is proved:
`NeverStuck` of `CommandCompletes`, `ServedInTurn` of the queue's part of
`ImplementsSlots`, `ShortestKnown` of `Converges`.  Each invariant a run checks is also
stated by a theorem.

## 5. State of the plan

All that the plan began with and that is worth a model is done: arbiter, driver and
application; send queue and relay; the command network; min/max; routing; and, beyond
it, the radio that all of them stand on.  What an inductive invariant contains (types,
the range of the servo) is not listed beside it as a property of its own.

Open ends, in the order of what they would add: the receiving half of the radio; the
time at which the radio copies a relay's packet, in the step from `RelayNode` to the
relays of `CommandNetwork`; the interrupted copy of a packet in `MinMax` and
`SimpleRouting`, as in `CommandNetwork`; turns of the two buses, as for the send queue.

## 6. Not modelled

* *First version of min/max* (`min_max/`): the predecessor of what `MinMax` models;
  its nodes send at once, do not retry, and the root prints at every tick.
* *PC receiver*: prints what it receives and keeps no state.
* *Collection client, beacons*: one timer and one send with a busy flag, in the form
  of the TinyOS tutorial. The collection protocol itself is not in the repository.
* *Digit sender, digit display*: a fixed number of broadcasts per serial frame, and a
  table of LED patterns; sending is modelled below it (`AMQueue`, `CC2420Radio`),
  flooding in `MinMax`.
* *Of the radio stack*: `CC2420ReceiveP` but for its use of the bus, header fields,
  time stamps, registers; stop and cancel, which no program calls.
* *The rest of the TinyOS run-time*: timers, scheduler, serial stack, registers:
  library code, taken by its contract.
* LEDs, `printf` and serial framing (pure output); the Java and simulation tools;
  `src/contiki-2.7` (third party), which is nearly all of the C code in the
  repository.
