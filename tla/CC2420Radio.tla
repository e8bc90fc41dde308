----------------------------- MODULE CC2420Radio -----------------------------
(***************************************************************************)
(* The sending half of the CC2420 stack as it is compiled into every       *)
(* program here (CC2420CsmaP and CC2420TransmitP), on the shared SPI bus:  *)
(* a frame is loaded into the TXFIFO, waits for a clear channel, and is    *)
(* strobed out; interrupts of the pin SFD say when it begins and ends.     *)
(* The same pin says when frames of others are received.                   *)
(*                                                                         *)
(* Interrupt handlers (Captured, BackoffTimer, TxFifoWritten) are one      *)
(* action each and come between any two actions.  A task is cut where it   *)
(* leaves an atomic section: task says which one is half done.  Stopping   *)
(* and cancelling, which nobody calls, are not in the compiled program.    *)
(*                                                                         *)
(* air is the chip: "strobed" after an accepted strobe, "tx" and "rx"      *)
(* while SFD is high for the node's own frame and for another's.           *)
(***************************************************************************)
EXTENDS CC2420Spi

CONSTANTS CTL, TX, RX,    \* the clients of the bus: control, transmit, receive
          ACK_REQS        \* whether frames may ask for an acknowledgement

ASSUME RadioAssumption == /\ SpiClients = {CTL, TX, RX}
                          /\ CTL # TX /\ CTL # RX /\ TX # RX
                          /\ ACK_REQS \subseteq BOOLEAN

VARIABLES csma,           \* SplitControlState
          boot,           \* how far the start of the chip has come
          m_state,        \* of CC2420TransmitP
          ackReq,         \* m_msg asks for an acknowledgement
          writing,        \* the frame is being written to the TXFIFO
          backoff,        \* BackoffTimer runs
          abortSpiRelease, m_receiving, sfdHigh,
          capture,        \* the edge of SFD that CaptureSFD waits for, or "off"
          edge,           \* its interrupt is pending
          task,           \* the task that is half done
          doneTask,       \* sendDone_task is in the scheduler's queue
          sendErr,
          air,
          left,           \* the frame of the last send has begun to leave
          calm            \* no strobe was accepted while an edge was pending

txVars == <<m_state, ackReq, writing, backoff, abortSpiRelease>>
sfdVars == <<m_receiving, sfdHigh, capture, edge>>
doneVars == <<doneTask, sendErr>>
airVars == <<air, left, calm>>
vars == <<busVars, csma, boot, txVars, sfdVars, task, doneVars, airVars>>

TypeOK == /\ SpiTypeOK
          /\ csma \in {"stopped", "starting", "started", "transmitting"}
          /\ boot \in {"off", "vreg", "bus", "osc", "task", "on"}
          /\ m_state \in {"stopped", "started", "load", "sample_cca",
                          "begin_transmit", "sfd", "efd", "ack_wait"}
          /\ {ackReq, writing, backoff, abortSpiRelease, m_receiving, sfdHigh,
              edge, doneTask, left, calm} \subseteq BOOLEAN
          /\ capture \in {"off", "rising", "falling"}
          /\ task \in {"none", "arm", "backoff", "told"}
          /\ sendErr \in {"SUCCESS", "ERETRY"}
          /\ air \in {"none", "strobed", "tx", "rx"}

Init == /\ SpiInit
        /\ csma = "stopped" /\ boot = "off" /\ m_state = "stopped"
        /\ ackReq = FALSE /\ writing = FALSE /\ backoff = FALSE /\ abortSpiRelease = FALSE
        /\ m_receiving = FALSE /\ sfdHigh = FALSE /\ capture = "off" /\ edge = FALSE
        /\ task = "none" /\ doneTask = FALSE /\ sendErr = "SUCCESS"
        /\ air = "none" /\ left = FALSE /\ calm = TRUE

SFD == air \in {"tx", "rx"}

----------------------------------------------------------------------------
(* Start: regulator, bus, oscillator, and the task startDone.              *)
SplitControlStart == /\ csma = "stopped"
                     /\ csma' = "starting" /\ boot' = "vreg"
                     /\ UNCHANGED <<busVars, txVars, sfdVars, task, doneVars, airVars>>

StartVRegDone == /\ boot = "vreg"
                 /\ boot' = "bus" /\ SpiRequest(CTL)
                 /\ UNCHANGED <<csma, txVars, sfdVars, task, doneVars, airVars>>

ControlGranted == /\ Grant(CTL) /\ task = "none"
                  /\ boot' = "osc"
                  /\ UNCHANGED <<working, m_holder, m_requests, arbVars,
                                 csma, txVars, sfdVars, task, doneVars, airVars>>

StartOscillatorDone == /\ boot = "osc"
                       /\ boot' = "task"
                       /\ UNCHANGED <<busVars, csma, txVars, sfdVars, task, doneVars, airVars>>

StartDoneTask == /\ boot = "task" /\ task = "none"
                 /\ boot' = "on" /\ csma' = "started" /\ m_state' = "started"
                 /\ capture' = "rising" /\ edge' = FALSE /\ m_receiving' = FALSE
                 /\ abortSpiRelease' = FALSE
                 /\ SpiRelease(CTL, FALSE)
                 /\ UNCHANGED <<ackReq, writing, backoff, sfdHigh, task, doneVars, airVars>>

----------------------------------------------------------------------------
(* CC2420CsmaP: send, and the task that answers it.  What the transmitter  *)
(* says to its send is not looked at.                                      *)
Load == IF CanTakeNow THEN TakeNow(TX) /\ writing' = TRUE
                      ELSE SpiRequest(TX) /\ UNCHANGED writing

Send(a) == /\ csma = "started" /\ task \in {"none", "told"}
           /\ csma' = "transmitting" /\ left' = FALSE /\ ackReq' = a
           /\ IF m_state = "started" THEN m_state' = "load" /\ Load
                                     ELSE UNCHANGED <<m_state, writing, busVars>>
           /\ UNCHANGED <<boot, backoff, abortSpiRelease, sfdVars, task, doneVars, air, calm>>

SendDoneTask == /\ doneTask /\ task = "none"
                /\ doneTask' = FALSE /\ csma' = "started" /\ task' = "told"
                /\ UNCHANGED <<busVars, boot, txVars, sfdVars, sendErr, airVars>>

\* The handler of the sender's sendDone returns.
HandlerReturns == /\ task = "told" /\ task' = "none"
                  /\ UNCHANGED <<busVars, csma, boot, txVars, sfdVars, doneVars, airVars>>

----------------------------------------------------------------------------
(* CC2420TransmitP.                                                        *)

\* Mutant of SignalDone: the state is reset by the task, not here.
SignalDoneKeepsState(err) ==
  /\ abortSpiRelease' = FALSE
  /\ doneTask' = TRUE /\ sendErr' = err
  /\ UNCHANGED m_state

\* signalDone, but for its attempt to release the bus.
SignalDone(err) == /\ m_state' = "started" /\ abortSpiRelease' = FALSE
                   /\ doneTask' = TRUE /\ sendErr' = err

\* TXFIFO.writeDone; the channel is always sampled first (m_cca).
TxFifoWritten == /\ writing /\ writing' = FALSE
                 /\ SpiRelease(TX, abortSpiRelease)
                 /\ m_state' = "sample_cca" /\ backoff' = TRUE
                 /\ UNCHANGED <<csma, boot, ackReq, abortSpiRelease, sfdVars,
                                task, doneVars, airVars>>

\* The strobe STXONCCA is accepted: only on a clear channel.
Strobed == /\ air = "none" /\ air' = "strobed" /\ m_state' = "sfd"
           /\ calm' = (calm /\ ~edge)

LoadGranted == /\ m_state = "load"
               /\ writing' = TRUE
               /\ UNCHANGED <<m_state, task, air, calm>>

\* attemptSend in the task grant: the timer is started, and the bus released,
\* outside of the atomic section.
AttemptInTask == /\ m_state = "begin_transmit"
                 /\ \/ Strobed /\ task' = "arm"
                    \/ m_state' = "sample_cca" /\ task' = "backoff"
                       /\ UNCHANGED <<air, calm>>
                 /\ UNCHANGED writing

\* SpiResource.granted.
TransmitGranted == /\ Grant(TX) /\ task = "none"
                   /\ LoadGranted \/ AttemptInTask
                   /\ UNCHANGED <<working, m_holder, m_requests, arbVars, csma, boot, ackReq,
                                  backoff, abortSpiRelease, sfdVars, doneVars, left>>

AttemptEnds == /\ \/ task = "arm" /\ UNCHANGED busVars
                  \/ task = "backoff" /\ SpiRelease(TX, abortSpiRelease)
               /\ task' = "none" /\ backoff' = TRUE
               /\ UNCHANGED <<csma, boot, m_state, ackReq, writing, abortSpiRelease,
                              sfdVars, doneVars, airVars>>

(* BackoffTimer.fired, by m_state.                                         *)

\* CCA: the channel is clear.  When it is not, the timer is started again
\* and nothing has changed.
BackoffClear == /\ m_state = "sample_cca" /\ air # "rx"
                /\ m_state' = "begin_transmit" /\ UNCHANGED backoff
                /\ UNCHANGED <<abortSpiRelease, busVars, sfdVars, doneVars, air, calm>>

AttemptInInterrupt == /\ m_state = "begin_transmit" /\ TakeNow(TX)
                      /\ Strobed
                      /\ UNCHANGED <<backoff, abortSpiRelease, sfdVars, doneVars>>

\* The bus is taken and, after a strobe in vain, released at once.
CongestedInInterrupt == /\ m_state = "begin_transmit" /\ CanTakeNow
                        /\ m_state' = "sample_cca"
                        /\ IF Owner(SPI) THEN Release(SPI)
                           ELSE /\ reqResId' = SPI
                                /\ UNCHANGED <<arbState, resId, resQ, grantedTask>>
                        /\ UNCHANGED <<spiVars, backoff, abortSpiRelease, sfdVars, doneVars,
                                       air, calm>>

\* Mutant of AttemptLater: the bus is not asked for.
AttemptNever == /\ m_state = "begin_transmit" /\ ~CanTakeNow
                /\ backoff' = FALSE
                /\ UNCHANGED <<busVars, m_state, abortSpiRelease, sfdVars, doneVars, air, calm>>

AttemptLater == /\ m_state = "begin_transmit" /\ ~CanTakeNow
                /\ SpiRequest(TX) /\ backoff' = FALSE
                /\ UNCHANGED <<m_state, abortSpiRelease, sfdVars, doneVars, air, calm>>

NoAck == /\ m_state = "ack_wait"
         /\ SignalDone("SUCCESS") /\ AttemptRelease /\ backoff' = FALSE
         /\ UNCHANGED <<sfdVars, air, calm>>

\* Mutant of NoSfd: the frame stays in the TXFIFO and is sent after all.
NoSfdUnflushed == /\ m_state = "sfd"
                  /\ capture' = "rising" /\ edge' = FALSE
                  /\ SpiRelease(TX, FALSE) /\ SignalDone("ERETRY") /\ backoff' = FALSE
                  /\ UNCHANGED <<m_receiving, sfdHigh, air, calm>>

\* The frame has not begun in time: it is flushed.  The bus is released, so
\* that signalDone finds nothing to release.
NoSfd == /\ m_state = "sfd"
         /\ capture' = "rising" /\ edge' = FALSE
         /\ SpiRelease(TX, FALSE) /\ SignalDone("ERETRY") /\ backoff' = FALSE
         /\ air' = "none"
         /\ UNCHANGED <<m_receiving, sfdHigh, calm>>

TooLate == /\ m_state \in {"started", "load", "efd"}
           /\ backoff' = FALSE
           /\ UNCHANGED <<m_state, abortSpiRelease, busVars, sfdVars, doneVars, air, calm>>

BackoffTimerFired ==
  /\ backoff
  /\ \/ BackoffClear \/ AttemptInInterrupt \/ CongestedInInterrupt \/ AttemptLater
     \/ NoAck \/ NoSfd \/ TooLate
  /\ UNCHANGED <<csma, boot, ackReq, writing, task, left>>

\* CC2420Receive.receive: the acknowledgement has come.
AckReceived == /\ m_state = "ack_wait"
               /\ SignalDone("SUCCESS") /\ AttemptRelease /\ backoff' = FALSE
               /\ UNCHANGED <<csma, boot, ackReq, writing, sfdVars, task, airVars>>

----------------------------------------------------------------------------
(* CaptureSFD.captured, by m_state and by what SFD is when it is read.     *)
Awaits(e, high) == capture' = e /\ sfdHigh' = high

\* The own frame has begun; if SFD is low it has ended, too.
SfdSeen == /\ m_state = "sfd" /\ SFD
           /\ m_state' = "efd" /\ Awaits("falling", TRUE) /\ m_receiving' = FALSE
           /\ abortSpiRelease' = ackReq
           /\ SpiRelease(TX, ackReq) /\ backoff' = FALSE
           /\ UNCHANGED doneVars

\* The own frame is over.
OwnFrameOver == IF ackReq THEN /\ m_state' = "ack_wait" /\ backoff' = TRUE
                               /\ abortSpiRelease' = TRUE
                               /\ UNCHANGED doneVars
                          ELSE SignalDone("SUCCESS")

\* Begin and end in one: signalDone finds nothing to release.
SfdMissed == /\ m_state = "sfd" /\ ~SFD
             /\ Awaits("rising", FALSE) /\ m_receiving' = FALSE
             /\ SpiRelease(TX, ackReq)
             /\ OwnFrameOver
             /\ ~ackReq => backoff' = FALSE

\* If SFD is high again the frame of another has begun meanwhile.
EfdSeen == /\ m_state = "efd"
           /\ OwnFrameOver
           /\ IF ackReq THEN UNCHANGED busVars ELSE AttemptRelease /\ UNCHANGED backoff
           /\ IF SFD THEN Awaits("falling", TRUE) /\ m_receiving' = TRUE
                     ELSE Awaits("rising", FALSE) /\ UNCHANGED m_receiving

\* A frame of another begins or ends.
OtherFrame == /\ m_state \notin {"sfd", "efd"}
              /\ \/ /\ SFD /\ ~m_receiving /\ ~sfdHigh
                    /\ Awaits("falling", TRUE) /\ m_receiving' = TRUE
                 \/ /\ ~m_receiving /\ ~sfdHigh => ~SFD
                    /\ ~m_receiving \/ sfdHigh
                    /\ Awaits("rising", FALSE) /\ m_receiving' = FALSE
              /\ UNCHANGED <<m_state, backoff, abortSpiRelease, busVars, doneVars>>

Captured == /\ edge /\ edge' = FALSE
            /\ SfdSeen \/ SfdMissed \/ EfdSeen \/ OtherFrame
            /\ UNCHANGED <<csma, boot, ackReq, writing, task, airVars>>

----------------------------------------------------------------------------
(* The chip, the receiver's use of the bus, and the other clients of USART0. *)
Chip(a, e) == /\ air' = a
              /\ edge' = (edge \/ capture = e)
              /\ UNCHANGED <<busVars, csma, boot, txVars, m_receiving, sfdHigh, capture,
                             task, doneVars, calm>>

OwnFrameBegins == air = "strobed" /\ Chip("tx", "rising") /\ left' = TRUE
OtherFrameBegins == /\ boot = "on" /\ air = "none"
                    /\ Chip("rx", "rising") /\ UNCHANGED left
FrameEnds == SFD /\ Chip("none", "falling") /\ UNCHANGED left

BusOnly == UNCHANGED <<csma, boot, txVars, sfdVars, task, doneVars, airVars>>

BeginReceive == /\ boot = "on" /\ ~Holds(RX) /\ ~WaitsFor(RX)
                /\ IF CanTakeNow THEN TakeNow(RX) ELSE SpiRequest(RX)
                /\ BusOnly

ReceiveGranted == /\ Grant(RX) /\ task = "none"
                  /\ UNCHANGED <<working, m_holder, m_requests, arbVars>> /\ BusOnly

ReceiveEnds == Holds(RX) /\ SpiRelease(RX, abortSpiRelease) /\ BusOnly

UsartGranted == task = "none" /\ SpiGranted /\ BusOnly

Others == Clients \ {SPI}

OtherClient(c) == /\ \/ ClientRequests(c) \/ ClientTriesAtOnce(c) \/ ClientReleases(c)
                     \/ task = "none" /\ GrantedTask(c)
                  /\ UNCHANGED spiVars /\ BusOnly

----------------------------------------------------------------------------
Starting == SplitControlStart \/ StartVRegDone \/ ControlGranted
            \/ StartOscillatorDone \/ StartDoneTask
Sending == SendDoneTask \/ HandlerReturns \/ \E a \in ACK_REQS : Send(a)
Transmitting == TxFifoWritten \/ TransmitGranted \/ AttemptEnds
                \/ BackoffTimerFired \/ AckReceived \/ Captured
Outside == OwnFrameBegins \/ OtherFrameBegins \/ FrameEnds
Receiving == BeginReceive \/ ReceiveGranted \/ ReceiveEnds

Next == Starting \/ Sending \/ Transmitting \/ Outside \/ Receiving \/ UsartGranted
        \/ \E c \in Others : OtherClient(c)

\* The strobe is tried, and accepted if m_state becomes "sfd".
Attempt(states) == m_state = "begin_transmit" /\ Transmitting /\ m_state' \in states

\* The node starts its radio.  Tasks run, interrupts and timers come, frames
\* end, and whoever holds a bus gives it back.
RunsOn ==
  /\ WF_vars(Starting)
  /\ WF_vars(SendDoneTask) /\ WF_vars(HandlerReturns)
  /\ WF_vars(TxFifoWritten) /\ WF_vars(TransmitGranted) /\ WF_vars(AttemptEnds)
  /\ WF_vars(BackoffTimerFired) /\ WF_vars(Captured)
  /\ WF_vars(FrameEnds) /\ WF_vars(OwnFrameBegins)
  /\ WF_vars(ReceiveGranted) /\ WF_vars(ReceiveEnds) /\ WF_vars(UsartGranted)
  /\ \A c \in Others : /\ WF_vars(OtherClient(c) /\ GrantedTask(c))
                       /\ WF_vars(OtherClient(c) /\ ClientReleases(c))

\* The backoffs are random: a channel that is clear again and again is found
\* clear in the end, and not every strobe comes too late.  Without this, nodes
\* that always send would silence this one: there is no limit of attempts.
ChannelIsShared ==
  /\ SF_vars(BackoffTimerFired /\ m_state' = "begin_transmit")
  /\ []<><<Attempt({"sfd", "sample_cca"})>>_vars => []<><<Attempt({"sfd"})>>_vars

Spec == Init /\ [][Next]_vars /\ RunsOn /\ ChannelIsShared

----------------------------------------------------------------------------
\* A send that is accepted is answered by exactly one sendDone: as long as it
\* is under way either the transmitter works for it or its task is posted, and
\* the transmitter rests whenever CC2420CsmaP accepts a send, whose result it
\* does not look at (app.c:16267-16282, 16311).
OneAnswer == /\ csma = "transmitting" => (m_state = "started" <=> doneTask)
             /\ csma # "transmitting" => m_state \in {"stopped", "started"} /\ ~doneTask
             /\ csma = "started" => m_state = "started"

\* In no state of the transmitter everything waits: for each something is to
\* come that goes on with the frame.
SomethingComes ==
  /\ m_state = "load" => writing \/ WaitsFor(TX)
  /\ m_state = "sample_cca" => backoff \/ task = "backoff"
  /\ m_state = "begin_transmit" => backoff \/ WaitsFor(TX)
  /\ m_state = "sfd" => backoff \/ task = "arm"
  /\ m_state = "efd" => edge \/ (SFD /\ capture = "falling")
  /\ m_state = "ack_wait" => backoff

\* The transmitter asks for the bus, or holds it, in the states in which it
\* uses it and in no other.
TransmitterUsesBus ==
  /\ WaitsFor(TX) => (m_state = "load" /\ ~writing) \/ (m_state = "begin_transmit" /\ ~backoff)
  /\ Holds(TX) <=> (m_state = "load" /\ writing) \/ m_state = "sfd" \/ task = "backoff"
  /\ abortSpiRelease => m_state \in {"efd", "ack_wait"} /\ ackReq

\* A stack that does not work keeps USART0 from the others only while it waits
\* for an acknowledgement, so that a release is never forgotten.
KeepsUsartForAck == Owner(SPI) /\ ~working => abortSpiRelease

Idle(c) == ~Holds(c) /\ ~WaitsFor(c)

\* Until the chip has been started only control uses the bus, and afterwards it
\* never does again.
StartsFirst ==
  /\ csma = "stopped" <=> boot = "off"
  /\ csma \in {"started", "transmitting"} <=> boot = "on"
  /\ m_state = "stopped" <=> boot # "on"
  /\ capture = "off" <=> boot # "on"
  /\ boot # "on" => /\ ~backoff /\ ~writing /\ ~edge /\ ~abortSpiRelease
                    /\ task = "none" /\ air = "none"
                    /\ Idle(TX) /\ Idle(RX)
  /\ boot = "bus" => WaitsFor(CTL)
  /\ boot \in {"osc", "task"} => Holds(CTL)
  /\ boot \in {"off", "vreg", "on"} => Idle(CTL)

\* A task that is half done finds the transmitter where its own send has
\* brought it, and its timer not yet running.
HalfDone ==
  /\ writing => m_state = "load"
  /\ task = "backoff" => m_state = "sample_cca" /\ ~backoff
  /\ task = "arm" => csma = "transmitting" /\ m_state \in {"sfd", "efd", "ack_wait", "started"}
  /\ m_state = "sfd" => ~(backoff /\ task = "arm")

\* While the chip sends a frame, the transmitter neither loads the next one
\* into the TXFIFO nor says that it is free, and a frame reported as sent has
\* left, as long as no edge of another's frame has been taken for the own one:
\* the two are not told apart (app.c:10707-10759, 23855, 11790-11796).
SentMeansSent ==
  calm => /\ air \in {"strobed", "tx"} => m_state \in {"sfd", "efd"}
          /\ doneTask /\ sendErr = "SUCCESS" => left

\* Why: an edge that is pending after the strobe is then the frame's own.
EdgeIsOwn ==
  /\ capture = "falling" => SFD \/ edge
  /\ calm => /\ m_state = "sfd" => IF edge THEN left /\ air # "strobed"
                                          ELSE air = "strobed" /\ capture = "rising"
             /\ m_state = "efd" => left /\ air # "strobed" /\ (edge => air # "tx")
             /\ m_state = "ack_wait" => left

\* The inductive invariant, together with ArbInv and SentMeansSent.
RadioInv == /\ TypeOK /\ SpiInv
            /\ OneAnswer /\ SomethingComes /\ TransmitterUsesBus /\ KeepsUsartForAck
            /\ StartsFirst /\ HalfDone /\ EdgeIsOwn

\* The radio keeps to the sender the contract that the send queue relies on
\* when it never hands over two messages: one sendDone for each send.
Slots == INSTANCE SendSlots WITH
           Senders <- {TX}, Nobody <- NO_HOLDER,
           pending <- IF csma = "transmitting" THEN {TX} ELSE {},
           told <- IF task = "told" THEN TX ELSE NO_HOLDER

ImplementsSlots == Slots!SlotSpec
=============================================================================
